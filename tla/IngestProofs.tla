---- MODULE IngestProofs ----
(***************************************************************************)
(* Proofs about Ingest for any files, roots, runs, edits and faults.       *)
(* InOrder is the invariant behind HeadNeverGoesBack: what a run captured  *)
(* lies between what is current and what is on the disk.                   *)
(***************************************************************************)
EXTENDS Ingest, TLAPS

Reading == {"captured", "reuse", "parse", "record"}

InOrder ==
    /\ \A f \in Files : head[f] <= disk[f]
    /\ \A r \in Runs : at[r] \in Reading =>
          head[Path(r)] <= captured[r] /\ captured[r] <= disk[Path(r)]

\* A run at an input holds its lock, and its path is a file.
LEMMA WorkingHoldsLock ==
    ASSUME TypeOK, NEW r \in Runs, at[r] \in Working
    PROVE  Path(r) \in Files /\ lock[Path(r)] = r
BY DEF TypeOK

\* Two runs are never at one file.
LEMMA OneRunPerFile ==
    ASSUME TypeOK, NEW r \in Runs, NEW q \in Runs, at[r] \in Working, at[q] \in Working,
           Path(r) = Path(q)
    PROVE  r = q
BY WorkingHoldsLock

----------------------------------------------------------------------------
(* Types *)

LEMMA TypeInit == Init => TypeOK
<1> SUFFICES ASSUME Init PROVE TypeOK
    OBVIOUS
<1> USE IngestAssumption DEF Init, Places, Working, Input, Path
<1>1. \A r \in Runs : {f \in Files : lock[f] = r} = {}
    OBVIOUS
<1>2. left \in [Runs -> Seq(Roots)]
    OBVIOUS
<1> QED BY <1>1, <1>2 DEF TypeOK

\* What the end of an input leaves of the types and of the locks.
LEMMA ReleasedTypes ==
    ASSUME TypeOK, NEW r \in Runs, NEW result
    PROVE  /\ Released(r, result) \in [Files -> Runs \cup {Nobody}]
           /\ \A q \in Runs : {f \in Files : Released(r, result)[f] = q} =
                 IF q = r THEN {} ELSE {f \in Files : lock[f] = q}
BY IngestAssumption DEF TypeOK, Released

\* Everything of TypeOK but disk, head, blobs, status and faults, after a step
\* of run r that gives its lock back and leaves the input.
LEMMA ReleaseStep ==
    ASSUME TypeOK, NEW r \in Runs, NEW result, NEW place \in Places \ Working,
           lock' = Released(r, result), at' = [at EXCEPT ![r] = place],
           input' = input
    PROVE  /\ lock' \in [Files -> Runs \cup {Nobody}]
           /\ at' \in [Runs -> Places]
           /\ \A q \in Runs : {f \in Files : lock'[f] = q} =
                 IF at'[q] \in Working THEN {Path(q)'} ELSE {}
<1> USE ReleasedTypes
<1>1. at' \in [Runs -> Places]
    BY DEF TypeOK
<1>2. ASSUME NEW q \in Runs
      PROVE {f \in Files : lock'[f] = q} = IF at'[q] \in Working THEN {Path(q)'} ELSE {}
    <2>1. CASE q = r
        BY <2>1 DEF TypeOK
    <2>2. CASE q # r
        BY <2>2 DEF TypeOK, Path
    <2> QED BY <2>1, <2>2
<1> QED BY <1>1, <1>2

\* The same for a step that keeps every lock and moves between places of one
\* kind.
LEMMA KeepStep ==
    ASSUME TypeOK, NEW r \in Runs, NEW place \in Places,
           place \in Working <=> at[r] \in Working,
           lock' = lock, at' = [at EXCEPT ![r] = place],
           at[r] \in Working => input' = input,
           \A q \in Runs \ {r} : input'[q] = input[q]
    PROVE  /\ at' \in [Runs -> Places]
           /\ \A q \in Runs : {f \in Files : lock'[f] = q} =
                 IF at'[q] \in Working THEN {Path(q)'} ELSE {}
<1>1. at' \in [Runs -> Places]
    BY DEF TypeOK
<1>2. ASSUME NEW q \in Runs
      PROVE {f \in Files : lock'[f] = q} = IF at'[q] \in Working THEN {Path(q)'} ELSE {}
    <2>1. CASE q = r
        BY <2>1 DEF TypeOK, Path
    <2>2. CASE q # r
        BY <2>2 DEF TypeOK, Path
    <2> QED BY <2>1, <2>2
<1> QED BY <1>1, <1>2

LEMMA NothingCaptured ==
    ASSUME TypeOK, NEW r \in Runs
    PROVE  [captured EXCEPT ![r] = 0] \in [Runs -> 0..MaxEdits]
<1>1. 0 \in 0..MaxEdits
    BY IngestAssumption
<1> QED BY <1>1 DEF TypeOK

LEMMA TypeStep == TypeOK /\ [Next]_vars => TypeOK'
<1> SUFFICES ASSUME TypeOK, [Next]_vars PROVE TypeOK'
    OBVIOUS
<1> USE IngestAssumption DEF store, run, plan, GoTo
<1>1. ASSUME NEW f \in Files, Edit(f) PROVE TypeOK'
    BY <1>1 DEF Edit, TypeOK, Path
<1>2. ASSUME NEW r \in Runs, Begin(r) PROVE TypeOK'
    <2>1. "next" \in Places /\ ("next" \in Working <=> at[r] \in Working)
        BY <1>2 DEF Begin, Places, Working
    <2> QED BY <1>2, <2>1, KeepStep DEF Begin, TypeOK
<1>3. ASSUME NEW r \in Runs, Discover(r) PROVE TypeOK'
    <2> DEFINE root == left[r][1]
               there == {i \in DOMAIN FilesUnder[root] : Present(FilesUnder[root][i])}
    <2>1. root \in Roots /\ Tail(left[r]) \in Seq(Roots)
        BY <1>3 DEF Discover, TypeOK
    <2>2. /\ at' = at /\ lock' = lock
          /\ input' = [input EXCEPT ![r] = Input(root, WholeRoot)]
          /\ todo' = [todo EXCEPT ![r] = there]
          /\ left' = [left EXCEPT ![r] = Tail(@)]
        BY <1>3 DEF Discover
    <2>3. at[r] \notin Working
        BY <1>3 DEF Discover, Working
    <2>4. /\ input' \in [Runs -> [root : Roots \cup {"root_none"}, path : Files \cup {WholeRoot}]]
          /\ left' \in [Runs -> Seq(Roots)]
        BY <2>1, <2>2 DEF TypeOK, Input
    <2>5. \A q \in Runs : {f \in Files : lock'[f] = q} =
                 IF at'[q] \in Working THEN {Path(q)'} ELSE {}
        BY <2>2, <2>3 DEF TypeOK, Path
    <2>6. ASSUME NEW q \in Runs, todo'[q] # {}
          PROVE  input'[q].root \in Roots /\ todo'[q] \subseteq DOMAIN FilesUnder[input'[q].root]
        <3>1. CASE q = r
            <4>1. todo'[q] \in {there, todo[q]} /\ input'[q].root = root
                BY <2>2, <3>1 DEF TypeOK, Input
            <4>2. todo[q] = {}
                BY <1>3, <3>1 DEF Discover
            <4> QED BY <4>1, <4>2, <2>1, <2>6
        <3>2. CASE q # r
            <4>1. input'[q] = input[q] /\ todo'[q] = todo[q]
                BY <1>3, <3>2, <2>2 DEF TypeOK
            <4> QED BY <4>1, <2>6 DEF TypeOK
        <3> QED BY <3>1, <3>2
    <2> QED BY <1>3, <2>2, <2>4, <2>5, <2>6 DEF Discover, TypeOK
<1>4. ASSUME NEW r \in Runs, DiscoverFails(r) PROVE TypeOK'
    <2>1. /\ left[r][1] \in Roots /\ Tail(left[r]) \in Seq(Roots)
          /\ at[r] \notin Working /\ todo[r] = {}
        BY <1>4 DEF DiscoverFails, TypeOK, Working
    <2>2. /\ input' = [input EXCEPT ![r] = Input(left[r][1], WholeRoot)]
          /\ left' = [left EXCEPT ![r] = Tail(@)]
          /\ at' = at /\ lock' = lock /\ todo' = todo
        BY <1>4 DEF DiscoverFails
    <2>3. /\ input' \in [Runs -> [root : Roots \cup {"root_none"}, path : Files \cup {WholeRoot}]]
          /\ left' \in [Runs -> Seq(Roots)]
        BY <2>1, <2>2 DEF TypeOK, Input
    <2>4. \A q \in Runs :
            /\ {f \in Files : lock'[f] = q} = IF at'[q] \in Working THEN {Path(q)'} ELSE {}
            /\ todo'[q] # {} => /\ input'[q].root \in Roots
                                /\ todo'[q] \subseteq DOMAIN FilesUnder[input'[q].root]
        BY <2>1, <2>2 DEF TypeOK, Path
    <2>5. /\ disk' = disk /\ blobs' = blobs /\ head' = head /\ status' = status
          /\ captured' = captured /\ faults' \in 0..MaxFaults
        BY <1>4 DEF DiscoverFails, TypeOK
    <2> QED BY <2>2, <2>3, <2>4, <2>5 DEF TypeOK
<1>5. ASSUME NEW r \in Runs, TakeLock(r) PROVE TypeOK'
    <2>1. PICK i \in todo[r] :
              /\ LockIsFree(At(r, i).path)
              /\ lock' = [lock EXCEPT ![At(r, i).path] = r]
              /\ input' = [input EXCEPT ![r] = At(r, i)]
              /\ todo' = [todo EXCEPT ![r] = @ \ {i}]
        BY <1>5 DEF TakeLock
    <2> DEFINE f == FilesUnder[input[r].root][i]
    <2>2. /\ input[r].root \in Roots
          /\ todo[r] \subseteq DOMAIN FilesUnder[input[r].root]
        BY <2>1 DEF TypeOK
    <2>3. f \in Files /\ At(r, i) = [root |-> input[r].root, path |-> f]
        BY <2>1, <2>2 DEF At, Input
    <2>4. lock' \in [Files -> Runs \cup {Nobody}] /\ lock[f] = Nobody
        BY <2>1, <2>3 DEF TypeOK, LockIsFree
    <2>5. input' \in [Runs -> [root : Roots \cup {"root_none"}, path : Files \cup {WholeRoot}]]
        BY <2>1, <2>2, <2>3 DEF TypeOK
    <2>6. /\ at[r] \notin Working
          /\ at' = [at EXCEPT ![r] = "locked"]
          /\ at' \in [Runs -> Places]
        BY <1>5 DEF TakeLock, TypeOK, Working, Places
    <2>7. ASSUME NEW q \in Runs
          PROVE {g \in Files : lock'[g] = q} = IF at'[q] \in Working THEN {Path(q)'} ELSE {}
        <3>1. CASE q = r
            <4>1. at'[q] \in Working
                BY <2>6, <3>1 DEF TypeOK, Working
            <4>2. Path(q)' = f
                BY <2>1, <2>3, <3>1 DEF TypeOK, Path
            <4>3. {g \in Files : lock[g] = q} = {}
                BY <2>6, <3>1 DEF TypeOK
            <4> QED BY <4>1, <4>2, <4>3, <2>1, <2>3, <3>1 DEF TypeOK
        <3>2. CASE q # r
            <4>1. at'[q] = at[q] /\ Path(q)' = Path(q)
                BY <2>1, <2>6, <3>2 DEF TypeOK, Path
            <4>2. {g \in Files : lock'[g] = q} = {g \in Files : lock[g] = q}
                BY <2>1, <2>3, <2>4, <3>2 DEF TypeOK
            <4> QED BY <4>1, <4>2 DEF TypeOK
        <3> QED BY <3>1, <3>2
    <2>8. ASSUME NEW q \in Runs, todo'[q] # {}
          PROVE  input'[q].root \in Roots /\ todo'[q] \subseteq DOMAIN FilesUnder[input'[q].root]
        <3>1. CASE q = r
            <4>1. input'[q].root = input[r].root
                BY <2>1, <2>3, <3>1 DEF TypeOK
            <4>2. todo'[q] \subseteq todo[r]
                BY <2>1, <2>8, <3>1
            <4> QED BY <4>1, <4>2, <2>2
        <3>2. CASE q # r
            BY <2>1, <2>8, <3>2 DEF TypeOK
        <3> QED BY <3>1, <3>2
    <2> QED BY <1>5, <2>4, <2>5, <2>6, <2>7, <2>8 DEF TakeLock, TypeOK
<1>6. ASSUME NEW r \in Runs, Capture(r) \/ FindReusable(r) \/ Promote(r) PROVE TypeOK'
    <2>1. PICK place \in Places \cap Working : at' = [at EXCEPT ![r] = place]
        BY <1>6 DEF Capture, FindReusable, Promote, Places, Working
    <2>2. at[r] \in Working /\ lock' = lock /\ input' = input /\ todo' = todo
        BY <1>6 DEF Capture, FindReusable, Promote, Working
    <2>3. /\ at' \in [Runs -> Places]
          /\ \A q \in Runs : {f \in Files : lock'[f] = q} =
                 IF at'[q] \in Working THEN {Path(q)'} ELSE {}
        BY <2>1, <2>2, KeepStep
    <2>4. captured' \in [Runs -> 0..MaxEdits] /\ blobs' \subseteq Parses
        <3>1. CASE Capture(r)
            <4>1. disk[Path(r)] \in 0..MaxEdits
                BY <2>2, WorkingHoldsLock DEF TypeOK
            <4> QED BY <3>1, <4>1 DEF Capture, TypeOK
        <3>2. CASE FindReusable(r) \/ Promote(r)
            BY <3>2 DEF FindReusable, Promote, TypeOK
        <3> QED BY <1>6, <3>1, <3>2
    <2>5. /\ disk' = disk /\ head' = head /\ status' = status /\ left' = left
          /\ faults' = faults
        BY <1>6 DEF Capture, FindReusable, Promote
    <2> QED BY <2>2, <2>3, <2>4, <2>5 DEF TypeOK
<1>7. ASSUME NEW r \in Runs,
             Reject(r) \/ Reuse(r) \/ NotParsed(r) \/ Changed(r) \/ Record(r)
      PROVE TypeOK'
    <2>1. PICK result : lock' = Released(r, result)
        BY <1>7 DEF Reject, Reuse, NotParsed, Changed, Record, Return
    <2>2. /\ at' = [at EXCEPT ![r] = "next"] /\ input' = input /\ todo' = todo
          /\ left' = left /\ disk' = disk /\ blobs' = blobs /\ status' = status
          /\ faults' = faults /\ captured' = [captured EXCEPT ![r] = 0]
        BY <1>7 DEF Reject, Reuse, NotParsed, Changed, Record, Return
    <2>3. "next" \in Places \ Working
        BY DEF Places, Working
    <2>4. head' \in [Files -> 0..MaxEdits]
        BY <1>7 DEF Reject, Reuse, NotParsed, Changed, Record, TypeOK
    <2>5. captured' \in [Runs -> 0..MaxEdits]
        BY <2>2, NothingCaptured
    <2> QED BY <2>1, <2>2, <2>3, <2>4, <2>5, ReleaseStep DEF TypeOK
<1>8. ASSUME NEW r \in Runs, Succeed(r) \/ End(r) \/ FailRun(r) \/ GiveUp(r) PROVE TypeOK'
    <2>1. PICK place \in Places \ Working : at' = [at EXCEPT ![r] = place]
        BY <1>8 DEF Succeed, End, FailRun, GiveUp, Places, Working
    <2>2. /\ at[r] \notin Working /\ lock' = lock /\ input' = input /\ todo' = todo
          /\ left' = left /\ disk' = disk /\ blobs' = blobs /\ head' = head
          /\ captured' = captured
        BY <1>8 DEF Succeed, End, FailRun, GiveUp, Working
    <2>3. /\ at' \in [Runs -> Places]
          /\ \A q \in Runs : {f \in Files : lock'[f] = q} =
                 IF at'[q] \in Working THEN {Path(q)'} ELSE {}
        BY <2>1, <2>2, KeepStep
    <2>4. status' \in [Runs -> {"none", "running", "succeeded", "failed"}]
        BY <1>8 DEF Succeed, End, FailRun, GiveUp, TypeOK
    <2>5. faults' \in 0..MaxFaults
        BY <1>8 DEF Succeed, End, FailRun, GiveUp, TypeOK
    <2> QED BY <2>2, <2>3, <2>4, <2>5 DEF TypeOK
<1>9. ASSUME NEW r \in Runs, Raise(r) \/ Kill(r) PROVE TypeOK'
    <2>1. PICK place \in Places \ Working : at' = [at EXCEPT ![r] = place]
        BY <1>9 DEF Raise, Kill, Places, Working
    <2>2. /\ lock' = Released(r, "processed") /\ input' = input
          /\ disk' = disk /\ blobs' = blobs /\ head' = head /\ status' = status
        BY <1>9 DEF Raise, Kill
    <2>3. /\ left' \in [Runs -> Seq(Roots)] /\ captured' \in [Runs -> 0..MaxEdits]
          /\ faults' \in 0..MaxFaults
        <3>1. CASE Raise(r)
            <4>1. /\ left' = [left EXCEPT ![r] = <<>>] /\ <<>> \in Seq(Roots)
                  /\ captured' = [captured EXCEPT ![r] = 0]
                  /\ faults < MaxFaults /\ faults' = faults + 1
                BY <3>1 DEF Raise
            <4> QED BY <4>1 DEF TypeOK
        <3>2. CASE Kill(r)
            BY <3>2 DEF Kill, TypeOK
        <3> QED BY <1>9, <3>1, <3>2
    <2>4. ASSUME NEW q \in Runs, todo'[q] # {}
          PROVE  todo'[q] = todo[q]
        <3>1. CASE Raise(r)
            <4>1. todo' = [todo EXCEPT ![r] = {}]
                BY <3>1 DEF Raise
            <4> QED BY <4>1, <2>4
        <3>2. CASE Kill(r)
            BY <3>2 DEF Kill
        <3> QED BY <1>9, <3>1, <3>2
    <2> QED BY <2>1, <2>2, <2>3, <2>4, ReleaseStep DEF TypeOK
<1>10. CASE UNCHANGED vars
    BY <1>10 DEF vars, TypeOK, Path
<1> QED BY <1>1, <1>2, <1>3, <1>4, <1>5, <1>6, <1>7, <1>8, <1>9, <1>10 DEF Next, Step

\* A run holds the lock of the input it is at, that one only, and none when it
\* is between inputs, failing, killed or done.
THEOREM TypeCorrect == Spec => []TypeOK
BY TypeInit, TypeStep, PTL DEF Spec

----------------------------------------------------------------------------
(* The order of what was captured *)

LEMMA OrderInit == Init => InOrder
BY IngestAssumption DEF Init, InOrder, Reading

LEMMA OrderStep == TypeOK /\ InOrder /\ [Next]_vars => InOrder'
<1> SUFFICES ASSUME TypeOK, InOrder, [Next]_vars PROVE InOrder'
    OBVIOUS
<1> USE IngestAssumption DEF store, run, plan, GoTo
<1>1. ASSUME NEW f \in Files, Edit(f) PROVE InOrder'
    <2>1. /\ disk' = [disk EXCEPT ![f] = @ + 1]
          /\ head' = head /\ at' = at /\ captured' = captured /\ input' = input
        BY <1>1 DEF Edit
    <2>2. \A g \in Files : disk[g] <= disk'[g] /\ disk[g] \in Nat /\ disk'[g] \in Nat /\ head[g] \in Nat
        BY <2>1 DEF TypeOK
    <2>3. ASSUME NEW r \in Runs, at'[r] \in Reading
          PROVE  head'[Path(r)'] <= captured'[r] /\ captured'[r] <= disk'[Path(r)']
        <3>1. Path(r)' = Path(r) /\ Path(r) \in Files /\ captured[r] \in Nat
            BY <2>1, <2>3, WorkingHoldsLock DEF Path, Reading, Working, TypeOK
        <3> QED BY <3>1, <2>1, <2>2, <2>3 DEF InOrder
    <2>4. \A g \in Files : head'[g] <= disk'[g]
        BY <2>1, <2>2 DEF InOrder
    <2> QED BY <2>3, <2>4 DEF InOrder, Path
<1>2. ASSUME NEW r \in Runs, Capture(r) PROVE InOrder'
    <2>1. Path(r) \in Files /\ head[Path(r)] \in Nat /\ disk[Path(r)] \in Nat
        BY <1>2, WorkingHoldsLock DEF Capture, Working, TypeOK
    <2>2. /\ captured' = [captured EXCEPT ![r] = disk[Path(r)]]
          /\ disk' = disk /\ head' = head /\ input' = input
          /\ \A q \in Runs \ {r} : at'[q] = at[q]
        BY <1>2 DEF Capture, TypeOK
    <2>3. ASSUME NEW q \in Runs, at'[q] \in Reading
          PROVE  head'[Path(q)'] <= captured'[q] /\ captured'[q] <= disk'[Path(q)']
        <3>1. CASE q = r
            BY <2>1, <2>2, <3>1 DEF InOrder, TypeOK, Path
        <3>2. CASE q # r
            BY <2>2, <2>3, <3>2 DEF InOrder, TypeOK, Path
        <3> QED BY <3>1, <3>2
    <2> QED BY <2>2, <2>3 DEF InOrder, Path
<1>3. ASSUME NEW r \in Runs, Record(r) PROVE InOrder'
    <2>1. /\ Path(r) \in Files /\ at[r] \in Working
          /\ head[Path(r)] <= captured[r] /\ captured[r] <= disk[Path(r)]
        BY <1>3, WorkingHoldsLock DEF Record, Working, Reading, InOrder
    <2>2. /\ head' = [head EXCEPT ![Path(r)] = captured[r]]
          /\ disk' = disk /\ input' = input
          /\ \A q \in Runs \ {r} : at'[q] = at[q] /\ captured'[q] = captured[q]
          /\ at'[r] = "next"
        BY <1>3 DEF Record, Return, TypeOK
    <2>3. \A f \in Files : head'[f] <= disk'[f]
        BY <2>1, <2>2 DEF InOrder, TypeOK
    <2>4. ASSUME NEW q \in Runs, at'[q] \in Reading
          PROVE  head'[Path(q)'] <= captured'[q] /\ captured'[q] <= disk'[Path(q)']
        <3>1. q # r /\ at[q] \in Working
            BY <2>2, <2>4 DEF Reading, Working
        <3>2. Path(q) # Path(r) /\ Path(q) \in Files
            BY <2>1, <3>1, OneRunPerFile, WorkingHoldsLock
        <3>3. head'[Path(q)] = head[Path(q)] /\ Path(q)' = Path(q)
            BY <2>2, <3>2 DEF TypeOK, Path
        <3> QED BY <2>2, <2>4, <3>1, <3>3 DEF InOrder
    <2> QED BY <2>3, <2>4 DEF InOrder, Path
<1>4. ASSUME disk' = disk, head' = head, NEW r \in Runs,
             \A q \in Runs \ {r} : /\ at'[q] = at[q] /\ captured'[q] = captured[q]
                                   /\ input'[q] = input[q],
             at'[r] \in Reading => /\ at[r] \in Reading
                                   /\ captured'[r] = captured[r] /\ input'[r] = input[r]
      PROVE InOrder'
    BY <1>4 DEF InOrder, Path
<1>5. ASSUME NEW r \in Runs,
             \/ Begin(r) \/ Discover(r) \/ DiscoverFails(r) \/ TakeLock(r)
             \/ Reject(r) \/ FindReusable(r) \/ Reuse(r) \/ NotParsed(r) \/ Changed(r)
             \/ Promote(r) \/ Succeed(r) \/ End(r) \/ FailRun(r) \/ GiveUp(r)
             \/ Raise(r) \/ Kill(r)
      PROVE InOrder'
    <2>1. disk' = disk /\ head' = head
        BY <1>5 DEF Begin, Discover, DiscoverFails, TakeLock, Reject, FindReusable, Reuse,
            NotParsed, Changed, Promote, Succeed, End, FailRun, GiveUp, Raise, Kill
    <2>2. \A q \in Runs \ {r} : /\ at'[q] = at[q] /\ captured'[q] = captured[q]
                                /\ input'[q] = input[q]
        BY <1>5 DEF Begin, Discover, DiscoverFails, TakeLock, Reject, FindReusable, Reuse,
            NotParsed, Changed, Promote, Succeed, End, FailRun, GiveUp, Raise, Kill,
            Return, TypeOK
    <2>3. at'[r] \in Reading => /\ at[r] \in Reading
                                /\ captured'[r] = captured[r] /\ input'[r] = input[r]
        BY <1>5 DEF Begin, Discover, DiscoverFails, TakeLock, Reject, FindReusable, Reuse,
            NotParsed, Changed, Promote, Succeed, End, FailRun, GiveUp, Raise, Kill,
            Return, TypeOK, Reading
    <2> QED BY <2>1, <2>2, <2>3, <1>4
<1>6. CASE UNCHANGED vars
    BY <1>6 DEF vars, InOrder, Path
<1> QED BY <1>1, <1>2, <1>3, <1>5, <1>6 DEF Next, Step

\* Only Record changes what is current, to what its run captured.
LEMMA HeadStep ==
    TypeOK /\ InOrder /\ [Next]_vars => \A f \in Files : head'[f] >= head[f]
<1> SUFFICES ASSUME TypeOK, InOrder, [Next]_vars, NEW f \in Files
             PROVE  head'[f] >= head[f]
    OBVIOUS
<1>1. ASSUME NEW r \in Runs, Record(r) PROVE head'[f] >= head[f]
    <2>1. head' = [head EXCEPT ![Path(r)] = captured[r]] /\ head[Path(r)] <= captured[r]
        BY <1>1 DEF Record, InOrder, Reading
    <2>2. head[f] \in Nat /\ captured[r] \in Nat
        BY IngestAssumption DEF TypeOK
    <2> QED BY <2>1, <2>2 DEF TypeOK
<1>2. CASE head' = head
    BY <1>2, IngestAssumption DEF TypeOK
<1>3. ASSUME ~ \E r \in Runs : Record(r) PROVE head' = head
    BY <1>3 DEF Next, Step, vars, store, Edit, Begin, Discover, DiscoverFails, TakeLock,
        Reject, Capture, FindReusable, Reuse, NotParsed, Changed, Promote, Succeed, End,
        FailRun, GiveUp, Raise, Kill
<1> QED BY <1>1, <1>2, <1>3

\* However many runs work on a Collection and however often its files are
\* edited, no run puts back a text that had been replaced.
THEOREM HeadsNeverGoBack == Spec => HeadNeverGoesBack
<1>1. Spec => [](TypeOK /\ InOrder)
    BY TypeInit, TypeStep, OrderInit, OrderStep, PTL DEF Spec
<1>2. TypeOK /\ InOrder /\ [Next]_vars => [\A f \in Files : head'[f] >= head[f]]_vars
    BY HeadStep
<1> QED BY <1>1, <1>2, PTL DEF Spec, HeadNeverGoesBack

----------------------------------------------------------------------------
(* The account of a run: what it found, what it did and what it reports *)

Inputs == [root : Roots \cup {"root_none"}, path : Files \cup {WholeRoot}]
Outcomes == [input : Inputs, result : Results]

Single(list) == \A i, j \in DOMAIN list : list[i].input = list[j].input => i = j

LEMMA Appending ==
    ASSUME NEW list \in Seq(Outcomes), NEW o \in Outcomes
    PROVE  /\ Append(list, o) \in Seq(Outcomes)
           /\ Append(list, o) # <<>>
           /\ Append(list, o)[Len(Append(list, o))] = o
           /\ InputsOf(Append(list, o)) = InputsOf(list) \cup {o.input}
           /\ \A n \in DOMAIN list : n \in DOMAIN Append(list, o) /\ Append(list, o)[n] = list[n]
           /\ \A n \in DOMAIN Append(list, o) : n \in DOMAIN list \/ n = Len(Append(list, o))
           /\ Single(list) /\ o.input \notin InputsOf(list) => Single(Append(list, o))
<1> DEFINE new == Append(list, o)
<1>1. /\ new \in Seq(Outcomes) /\ Len(new) = Len(list) + 1 /\ new[Len(new)] = o
      /\ DOMAIN new = 1..Len(new) /\ DOMAIN list = 1..Len(list) /\ Len(list) \in Nat
      /\ \A n \in 1..Len(list) : new[n] = list[n]
    OBVIOUS
<1> HIDE DEF new
<1>2. \A n \in DOMAIN new : n \in DOMAIN list \/ n = Len(new)
    BY <1>1
<1>3. InputsOf(new) = InputsOf(list) \cup {o.input}
    BY <1>1, <1>2 DEF InputsOf
<1>4. Single(list) /\ o.input \notin InputsOf(list) => Single(new)
    BY <1>1, <1>2 DEF Single, InputsOf
<1>5. new # <<>>
    BY <1>1
<1> QED BY <1>1, <1>2, <1>3, <1>4, <1>5 DEF new

\* A failure that is charged to an input without an outcome, or to the last one.
LEMMA Charging ==
    ASSUME NEW list \in Seq(Outcomes), NEW o \in Outcomes, Single(list),
           o.input \in InputsOf(list) => list # <<>> /\ list[Len(list)].input = o.input
    PROVE  /\ ReplacedOrAppended(list, o) \in Seq(Outcomes)
           /\ Single(ReplacedOrAppended(list, o))
           /\ ReplacedOrAppended(list, o)[Len(ReplacedOrAppended(list, o))] = o
           /\ Len(ReplacedOrAppended(list, o)) \in DOMAIN ReplacedOrAppended(list, o)
           /\ \A n \in DOMAIN list : \E m \in DOMAIN ReplacedOrAppended(list, o) :
                 /\ ReplacedOrAppended(list, o)[m].input = list[n].input
                 /\ \/ ReplacedOrAppended(list, o)[m] = list[n]
                    \/ m = Len(ReplacedOrAppended(list, o))
<1>1. CASE list # <<>> /\ list[Len(list)].input = o.input
    <2> DEFINE new == [list EXCEPT ![Len(list)] = o]
    <2>1. /\ new \in Seq(Outcomes) /\ Len(new) = Len(list) /\ Len(list) \in DOMAIN list
          /\ DOMAIN new = DOMAIN list /\ new[Len(list)] = o
          /\ \A n \in DOMAIN list : n # Len(list) => new[n] = list[n]
        BY <1>1
    <2>2. ReplacedOrAppended(list, o) = new
        BY <1>1 DEF ReplacedOrAppended
    <2> HIDE DEF new
    <2>3. \A n \in DOMAIN list : new[n].input = list[n].input
        BY <1>1, <2>1
    <2>4. Single(new)
        BY <2>1, <2>3 DEF Single
    <2> QED BY <2>1, <2>2, <2>3, <2>4
<1>2. CASE ~(list # <<>> /\ list[Len(list)].input = o.input)
    <2>1. ReplacedOrAppended(list, o) = Append(list, o)
        BY <1>2 DEF ReplacedOrAppended
    <2>2. o.input \notin InputsOf(list)
        BY <1>2
    <2>3. Len(Append(list, o)) \in DOMAIN Append(list, o)
        OBVIOUS
    <2> QED BY <2>1, <2>2, <2>3, Appending
<1> QED BY <1>1, <1>2

\* The inputs that are discovered and not begun, and the one the run is at.
Pending(r) == {At(r, i) : i \in todo[r]}
InHand(r) == IF at[r] \in Working THEN {input[r]} ELSE {}
Counting == {"next"} \cup Working

AccountTypes ==
    /\ outcomes \in [Runs -> Seq(Outcomes)]
    /\ report \in [Runs -> Seq(Outcomes)]
    /\ found \in [Runs -> SUBSET Inputs]
    /\ wrote \in [Runs -> SUBSET Inputs]
    /\ todo \in [Runs -> SUBSET Nat]

\* Nothing is lost: what was found has an outcome or is still to be done, and
\* what was committed is processed.
Complete(r) ==
    /\ \A i \in DOMAIN outcomes[r] : outcomes[r][i].result # "infrastructure"
    /\ found[r] \subseteq InputsOf(outcomes[r]) \cup Pending(r) \cup InHand(r)
    /\ \A i \in wrote[r] : \E n \in DOMAIN outcomes[r] :
          outcomes[r][n].input = i /\ outcomes[r][n].result = "processed"

\* Nothing is done twice: what is still to be done has no outcome yet.
Fresh(r) ==
    /\ \A i \in Pending(r) \cup InHand(r) : i \notin InputsOf(outcomes[r])
    /\ \A i \in InHand(r) : i \notin Pending(r)
    /\ NoRepeats(left[r])
    /\ \A k \in DOMAIN left[r] :
          /\ \A i \in InputsOf(outcomes[r]) : i.root # left[r][k]
          /\ todo[r] # {} \/ at[r] \in Working => input[r].root # left[r][k]

\* What was dealt with last is at the end, where a failure looks for it.
LastIsLast(r) ==
    input[r] \in InputsOf(outcomes[r]) =>
        outcomes[r] # <<>> /\ outcomes[r][Len(outcomes[r])].input = input[r]

Charge(r) == \A i \in wrote[r] : \E n \in DOMAIN outcomes[r] :
    /\ outcomes[r][n].input = i
    /\ \/ outcomes[r][n].result = "processed"
       \/ outcomes[r][n].result = "infrastructure" /\ n = Len(outcomes[r])

\* ReportsAreTrue, of one run.
ReportIsTrue(r) ==
    /\ Single(report[r])
    /\ status[r] = "succeeded" =>
          /\ found[r] \subseteq InputsOf(report[r])
          /\ \A i \in DOMAIN report[r] : report[r][i].result # "infrastructure"
    /\ status[r] \in {"succeeded", "failed"} =>
          \A i \in wrote[r] : \E n \in DOMAIN report[r] :
              /\ report[r][n].input = i
              /\ \/ report[r][n].result = "processed"
                 \/ report[r][n].result = "infrastructure" /\ n = Len(report[r])

Accounts(r) ==
    /\ Single(outcomes[r])
    /\ at[r] = "start" => /\ status[r] = "none" /\ outcomes[r] = <<>>
                          /\ found[r] = {} /\ wrote[r] = {} /\ todo[r] = {}
    /\ at[r] \in Counting =>
          status[r] = "running" /\ Complete(r) /\ Fresh(r) /\ LastIsLast(r)
    /\ at[r] = "completed" => Complete(r) /\ LastIsLast(r)
    /\ at[r] = "failing" => Charge(r)
    /\ ReportIsTrue(r)

AllAccounts == AccountTypes /\ \A r \in Runs : Accounts(r)

LEMMA AccountsInit == Init => AllAccounts
<1> SUFFICES ASSUME Init PROVE AllAccounts
    OBVIOUS
<1>1. AccountTypes
    BY DEF Init, AccountTypes
<1>2. ASSUME NEW r \in Runs PROVE Accounts(r)
    <2>1. /\ at[r] = "start" /\ status[r] = "none" /\ outcomes[r] = <<>> /\ report[r] = <<>>
          /\ found[r] = {} /\ wrote[r] = {} /\ todo[r] = {}
        BY DEF Init
    <2> QED BY <2>1 DEF Accounts, Single, ReportIsTrue, Counting, Working
<1> QED BY <1>1, <1>2 DEF AllAccounts

\* A run is not concerned by what another run does.
LEMMA OthersAccounts ==
    ASSUME NEW r \in Runs, Accounts(r),
           outcomes'[r] = outcomes[r], report'[r] = report[r], found'[r] = found[r],
           wrote'[r] = wrote[r], todo'[r] = todo[r], left'[r] = left[r],
           input'[r] = input[r], at'[r] = at[r], status'[r] = status[r]
    PROVE  Accounts(r)'
BY DEF Accounts, Complete, Fresh, LastIsLast, Charge, ReportIsTrue, Pending, InHand, At

\* A step that moves on with the input in hand.
LEMMA WorkAccounts ==
    ASSUME NEW r \in Runs, Accounts(r), at[r] \in Working, at'[r] \in Working,
           outcomes'[r] = outcomes[r], report'[r] = report[r], found'[r] = found[r],
           wrote'[r] = wrote[r], todo'[r] = todo[r], left'[r] = left[r],
           input'[r] = input[r], status'[r] = status[r]
    PROVE  Accounts(r)'
BY DEF Accounts, Complete, Fresh, LastIsLast, Charge, ReportIsTrue, Pending, InHand, At,
       Counting, Working

LEMMA InputTypes ==
    ASSUME TypeOK, NEW r \in Runs
    PROVE  /\ input[r] \in Inputs
           /\ \A i \in todo[r] : At(r, i) \in Inputs
           /\ left[r] # <<>> => Input(left[r][1], WholeRoot) \in Inputs
<1>1. input[r] \in Inputs
    BY DEF TypeOK, Inputs
<1>2. ASSUME NEW i \in todo[r] PROVE At(r, i) \in Inputs
    <2>1. input[r].root \in Roots /\ i \in DOMAIN FilesUnder[input[r].root]
        BY DEF TypeOK
    <2>2. FilesUnder[input[r].root][i] \in Files
        BY <2>1, IngestAssumption
    <2> QED BY <2>1, <2>2 DEF At, Input, Inputs
<1>3. ASSUME left[r] # <<>> PROVE Input(left[r][1], WholeRoot) \in Inputs
    BY <1>3 DEF TypeOK, Input, Inputs
<1> QED BY <1>1, <1>2, <1>3

\* The input in hand ends with its outcome.
LEMMA ReturnAccounts ==
    ASSUME TypeOK, AllAccounts, NEW r \in Runs, NEW result \in {"processed", "failed"},
           at[r] \in Working, at'[r] = "next",
           outcomes'[r] = Append(outcomes[r], Outcome(input[r], result)),
           \/ wrote'[r] = wrote[r]
           \/ result = "processed" /\ wrote'[r] = wrote[r] \cup {input[r]},
           report'[r] = report[r], found'[r] = found[r], todo'[r] = todo[r],
           left'[r] = left[r], input'[r] = input[r], status'[r] = status[r]
    PROVE  Accounts(r)'
<1> DEFINE o == Outcome(input[r], result)
<1>1. /\ o \in Outcomes /\ o.input = input[r] /\ o.result = result
      /\ outcomes[r] \in Seq(Outcomes)
    BY InputTypes DEF Outcome, Outcomes, Results, AllAccounts, AccountTypes
<1>2. /\ Accounts(r) /\ status[r] = "running" /\ Complete(r) /\ Fresh(r) /\ LastIsLast(r)
      /\ input[r] \notin InputsOf(outcomes[r]) /\ InHand(r) = {input[r]}
      /\ input[r] \notin Pending(r)
    BY DEF AllAccounts, Accounts, Counting, Fresh, InHand
<1>3. /\ Append(outcomes[r], o) # <<>>
      /\ Append(outcomes[r], o)[Len(Append(outcomes[r], o))] = o
      /\ InputsOf(Append(outcomes[r], o)) = InputsOf(outcomes[r]) \cup {o.input}
      /\ \A n \in DOMAIN outcomes[r] : /\ n \in DOMAIN Append(outcomes[r], o)
                                       /\ Append(outcomes[r], o)[n] = outcomes[r][n]
      /\ \A n \in DOMAIN Append(outcomes[r], o) :
            n \in DOMAIN outcomes[r] \/ n = Len(Append(outcomes[r], o))
      /\ Len(Append(outcomes[r], o)) \in DOMAIN Append(outcomes[r], o)
      /\ Single(Append(outcomes[r], o))
    <2>1. Single(outcomes[r])
        BY <1>2 DEF Accounts
    <2>2. Len(Append(outcomes[r], o)) \in DOMAIN Append(outcomes[r], o)
        BY <1>1
    <2> HIDE DEF o
    <2> QED BY <1>1, <1>2, <2>1, <2>2, Appending
<1>4. outcomes'[r] = Append(outcomes[r], o)
    OBVIOUS
<1> HIDE DEF o
<1> DEFINE new == Append(outcomes[r], o)
<1>5. Pending(r)' = Pending(r) /\ InHand(r)' = {}
    BY DEF Pending, InHand, At, Working
<1> HIDE DEF new
<1>6. Complete(r)'
    <2>1. \A n \in DOMAIN outcomes'[r] : outcomes'[r][n].result # "infrastructure"
        BY <1>1, <1>2, <1>3, <1>4 DEF Complete
    <2>2. found'[r] \subseteq InputsOf(outcomes'[r]) \cup Pending(r)' \cup InHand(r)'
        BY <1>1, <1>2, <1>3, <1>4, <1>5 DEF Complete
    <2>3. ASSUME NEW i \in wrote'[r]
          PROVE  \E n \in DOMAIN outcomes'[r] :
                    outcomes'[r][n].input = i /\ outcomes'[r][n].result = "processed"
        <3>1. CASE i \in wrote[r]
            BY <1>2, <1>3, <1>4, <3>1 DEF Complete
        <3>2. CASE i \notin wrote[r]
            <4>1. i = input[r] /\ result = "processed"
                BY <3>2
            <4> QED BY <4>1, <1>1, <1>3, <1>4
        <3> QED BY <3>1, <3>2
    <2> QED BY <2>1, <2>2, <2>3 DEF Complete
<1>7. Fresh(r)'
    <2>1. \A i \in Pending(r)' \cup InHand(r)' : i \notin InputsOf(outcomes'[r])
        BY <1>1, <1>2, <1>3, <1>4, <1>5 DEF Fresh
    <2>2. NoRepeats(left'[r]) /\ \A i \in InHand(r)' : i \notin Pending(r)'
        BY <1>2, <1>5 DEF Fresh
    <2>3. ASSUME NEW k \in DOMAIN left'[r]
          PROVE  /\ \A i \in InputsOf(outcomes'[r]) : i.root # left'[r][k]
                 /\ todo'[r] # {} \/ at'[r] \in Working => input'[r].root # left'[r][k]
        <3>1. input[r].root # left[r][k]
            BY <1>2, <2>3 DEF Fresh
        <3> QED BY <3>1, <1>1, <1>2, <1>3, <1>4 DEF Fresh
    <2> QED BY <2>1, <2>2, <2>3 DEF Fresh
<1>8. LastIsLast(r)'
    BY <1>1, <1>3, <1>4 DEF LastIsLast
<1>9. ReportIsTrue(r)'
    BY <1>2 DEF Accounts, ReportIsTrue
<1>10. at'[r] = "next" /\ status'[r] = "running" /\ Single(outcomes'[r])
    BY <1>2, <1>3, <1>4
<1> QED BY <1>6, <1>7, <1>8, <1>9, <1>10 DEF Accounts

LEMMA BeginAccounts ==
    ASSUME AllAccounts, NEW r \in Runs, Begin(r), TypeOK
    PROVE  Accounts(r)'
<1>1. /\ status'[r] = "running" /\ left'[r] = RootOrder /\ at'[r] = "next"
      /\ todo'[r] = {} /\ outcomes'[r] = <<>> /\ found'[r] = {} /\ wrote'[r] = {}
      /\ report'[r] = report[r]
    BY DEF Begin, GoTo, AllAccounts, Accounts, TypeOK
<1>2. InputsOf(outcomes'[r]) = {} /\ Pending(r)' = {} /\ InHand(r)' = {}
    BY <1>1 DEF InputsOf, Pending, InHand, Working
<1>3. Complete(r)' /\ LastIsLast(r)'
    BY <1>1, <1>2 DEF Complete, LastIsLast
<1>4. Fresh(r)'
    BY <1>1, <1>2, IngestAssumption DEF Fresh, Working
<1>5. ReportIsTrue(r)'
    BY <1>1 DEF AllAccounts, Accounts, ReportIsTrue
<1>6. Single(outcomes'[r])
    BY <1>1 DEF Single
<1> QED BY <1>1, <1>3, <1>4, <1>5, <1>6 DEF Accounts

LEMMA TailHasNoRepeats ==
    ASSUME NEW S, NEW list \in Seq(S), list # <<>>, NoRepeats(list)
    PROVE  /\ 1 \in DOMAIN list
           /\ \A k \in DOMAIN Tail(list) : /\ k + 1 \in DOMAIN list
                                          /\ Tail(list)[k] = list[k + 1]
           /\ \A k \in DOMAIN Tail(list) : Tail(list)[k] # list[1]
           /\ NoRepeats(Tail(list))
<1>1. /\ 1 \in DOMAIN list
      /\ \A k \in DOMAIN Tail(list) : /\ k + 1 \in DOMAIN list /\ k \in Nat \ {0}
                                     /\ Tail(list)[k] = list[k + 1]
    OBVIOUS
<1>2. ASSUME NEW k \in DOMAIN Tail(list) PROVE Tail(list)[k] # list[1]
    <2>1. k + 1 # 1
        BY <1>1
    <2> QED BY <2>1, <1>1 DEF NoRepeats
<1>3. ASSUME NEW i \in DOMAIN Tail(list), NEW j \in DOMAIN Tail(list),
             Tail(list)[i] = Tail(list)[j]
      PROVE  i = j
    <2>1. i + 1 = j + 1
        BY <1>1, <1>3 DEF NoRepeats
    <2> QED BY <2>1, <1>1
<1> QED BY <1>1, <1>2, <1>3 DEF NoRepeats

LEMMA DiscoverAccounts ==
    ASSUME TypeOK, AllAccounts, NEW r \in Runs, Discover(r)
    PROVE  Accounts(r)' /\ todo' \in [Runs -> SUBSET Nat] /\ found' \in [Runs -> SUBSET Inputs]
<1> DEFINE root == left[r][1]
           there == {i \in DOMAIN FilesUnder[root] : Present(FilesUnder[root][i])}
           new == {Input(root, FilesUnder[root][i]) : i \in there}
<1>1. /\ at[r] = "next" /\ todo[r] = {} /\ left[r] # <<>>
      /\ todo' = [todo EXCEPT ![r] = there]
      /\ found' = [found EXCEPT ![r] = @ \cup new]
      /\ input' = [input EXCEPT ![r] = Input(root, WholeRoot)]
      /\ left' = [left EXCEPT ![r] = Tail(@)]
      /\ UNCHANGED <<run, at, outcomes, wrote>>
    BY DEF Discover
<1>2. root \in Roots /\ left[r] \in Seq(Roots)
    BY <1>1 DEF TypeOK
<1>3. there \subseteq Nat /\ new \subseteq Inputs
    BY <1>2, IngestAssumption DEF Input, Inputs
<1> HIDE DEF there, new
<1>4. /\ todo'[r] = there /\ found'[r] = found[r] \cup new
      /\ input'[r] = [root |-> root, path |-> WholeRoot] /\ left'[r] = Tail(left[r])
      /\ at'[r] = "next" /\ outcomes'[r] = outcomes[r] /\ wrote'[r] = wrote[r]
      /\ status'[r] = status[r] /\ report'[r] = report[r]
    BY <1>1 DEF TypeOK, AllAccounts, AccountTypes, Input, run
<1>5. Pending(r)' = new /\ InHand(r)' = {}
    BY <1>4 DEF Pending, InHand, At, Working, new
<1>6. /\ Accounts(r) /\ status[r] = "running" /\ Complete(r) /\ Fresh(r)
      /\ Pending(r) = {} /\ InHand(r) = {}
    BY <1>1 DEF AllAccounts, Accounts, Counting, Pending, InHand, Working
<1>7. /\ 1 \in DOMAIN left[r]
      /\ \A k \in DOMAIN Tail(left[r]) : /\ k + 1 \in DOMAIN left[r]
                                         /\ Tail(left[r])[k] = left[r][k + 1]
      /\ \A k \in DOMAIN Tail(left[r]) : Tail(left[r])[k] # root
      /\ NoRepeats(Tail(left[r]))
    BY <1>1, <1>2, <1>6, TailHasNoRepeats DEF Fresh
<1>8. /\ \A i \in InputsOf(outcomes[r]) : i.root # root
      /\ \A k \in DOMAIN Tail(left[r]) : Tail(left[r])[k] # root
      /\ NoRepeats(Tail(left[r]))
    BY <1>6, <1>7 DEF Fresh
<1>9. Complete(r)'
    BY <1>4, <1>5, <1>6 DEF Complete
<1>10. \A i \in new : i.root = root
    BY DEF new, Input
<1>11. Fresh(r)'
    <2>1. \A i \in Pending(r)' \cup InHand(r)' : i \notin InputsOf(outcomes'[r])
        BY <1>4, <1>5, <1>8, <1>10
    <2>2. \A i \in InHand(r)' : i \notin Pending(r)'
        BY <1>5
    <2>3. \A k \in DOMAIN left'[r] :
              /\ \A i \in InputsOf(outcomes'[r]) : i.root # left'[r][k]
              /\ todo'[r] # {} \/ at'[r] \in Working => input'[r].root # left'[r][k]
        BY <1>4, <1>6, <1>7, <1>8 DEF Fresh
    <2> QED BY <2>1, <2>2, <2>3, <1>4, <1>8 DEF Fresh
<1>12. LastIsLast(r)'
    BY <1>4, <1>8 DEF LastIsLast
<1>13. ReportIsTrue(r)'
    BY <1>4, <1>6 DEF Accounts, ReportIsTrue
<1>14. Accounts(r)'
    BY <1>4, <1>6, <1>9, <1>11, <1>12, <1>13 DEF Accounts
<1>15. todo' \in [Runs -> SUBSET Nat] /\ found' \in [Runs -> SUBSET Inputs]
    BY <1>1, <1>3 DEF AllAccounts, AccountTypes
<1> QED BY <1>14, <1>15

LEMMA DiscoverFailsAccounts ==
    ASSUME TypeOK, AllAccounts, NEW r \in Runs, DiscoverFails(r)
    PROVE  Accounts(r)' /\ outcomes' \in [Runs -> Seq(Outcomes)]
<1> DEFINE root == left[r][1]
           o == Outcome(Input(root, WholeRoot), "failed")
           new == Append(outcomes[r], o)
<1>1. /\ at[r] = "next" /\ todo[r] = {} /\ left[r] # <<>>
      /\ outcomes' = [outcomes EXCEPT ![r] = new]
      /\ input' = [input EXCEPT ![r] = Input(root, WholeRoot)]
      /\ left' = [left EXCEPT ![r] = Tail(@)]
      /\ UNCHANGED <<run, at, todo, found, wrote>>
    BY DEF DiscoverFails
<1>2. root \in Roots /\ left[r] \in Seq(Roots) /\ outcomes[r] \in Seq(Outcomes)
    BY <1>1 DEF TypeOK, AllAccounts, AccountTypes
<1>3. /\ o \in Outcomes /\ o.input = [root |-> root, path |-> WholeRoot]
      /\ o.result = "failed"
    BY <1>2 DEF Outcome, Outcomes, Input, Inputs, Results
<1> HIDE DEF o
<1>4. /\ Accounts(r) /\ status[r] = "running" /\ Complete(r) /\ Fresh(r)
      /\ Pending(r) = {} /\ InHand(r) = {}
    BY <1>1 DEF AllAccounts, Accounts, Counting, Pending, InHand, Working
<1>5. /\ 1 \in DOMAIN left[r]
      /\ \A k \in DOMAIN Tail(left[r]) : /\ k + 1 \in DOMAIN left[r]
                                         /\ Tail(left[r])[k] = left[r][k + 1]
      /\ \A k \in DOMAIN Tail(left[r]) : Tail(left[r])[k] # root
      /\ NoRepeats(Tail(left[r]))
    BY <1>1, <1>2, <1>4, TailHasNoRepeats DEF Fresh
<1>6. /\ \A i \in InputsOf(outcomes[r]) : i.root # root
      /\ \A k \in DOMAIN Tail(left[r]) : Tail(left[r])[k] # root
      /\ NoRepeats(Tail(left[r]))
    BY <1>4, <1>5 DEF Fresh
<1>7. /\ new \in Seq(Outcomes) /\ new # <<>> /\ new[Len(new)] = o
      /\ InputsOf(new) = InputsOf(outcomes[r]) \cup {o.input}
      /\ \A n \in DOMAIN outcomes[r] : n \in DOMAIN new /\ new[n] = outcomes[r][n]
      /\ \A n \in DOMAIN new : n \in DOMAIN outcomes[r] \/ n = Len(new)
      /\ Single(new)
    <2>1. Single(outcomes[r]) /\ o.input \notin InputsOf(outcomes[r])
        BY <1>3, <1>4, <1>6 DEF Accounts
    <2> QED BY <2>1, <1>2, <1>3, Appending
<1> HIDE DEF new
<1>8. /\ outcomes'[r] = new /\ input'[r] = o.input /\ left'[r] = Tail(left[r])
      /\ at'[r] = "next" /\ todo'[r] = {} /\ found'[r] = found[r] /\ wrote'[r] = wrote[r]
      /\ status'[r] = status[r] /\ report'[r] = report[r]
    BY <1>1, <1>3 DEF TypeOK, AllAccounts, AccountTypes, Input, run
<1>9. Pending(r)' = {} /\ InHand(r)' = {}
    BY <1>8 DEF Pending, InHand, Working
<1>10. Complete(r)'
    <2>1. \A n \in DOMAIN outcomes'[r] : outcomes'[r][n].result # "infrastructure"
        BY <1>3, <1>4, <1>7, <1>8 DEF Complete
    <2>2. \A i \in wrote'[r] : \E n \in DOMAIN outcomes'[r] :
              outcomes'[r][n].input = i /\ outcomes'[r][n].result = "processed"
        BY <1>4, <1>7, <1>8 DEF Complete
    <2> QED BY <2>1, <2>2, <1>4, <1>7, <1>8, <1>9 DEF Complete
<1>11. Fresh(r)'
    <2>1. ASSUME NEW k \in DOMAIN left'[r], NEW i \in InputsOf(outcomes'[r])
          PROVE  i.root # left'[r][k]
        BY <1>3, <1>4, <1>5, <1>6, <1>7, <1>8, <2>1 DEF Fresh
    <2> QED BY <2>1, <1>6, <1>8, <1>9 DEF Fresh, Working
<1>12. LastIsLast(r)'
    BY <1>7, <1>8 DEF LastIsLast
<1>13. ReportIsTrue(r)'
    BY <1>4, <1>8 DEF Accounts, ReportIsTrue
<1>14. Accounts(r)'
    BY <1>4, <1>7, <1>8, <1>10, <1>11, <1>12, <1>13 DEF Accounts
<1>15. outcomes' \in [Runs -> Seq(Outcomes)]
    BY <1>1, <1>7 DEF AllAccounts, AccountTypes
<1> QED BY <1>14, <1>15

LEMMA TakeLockAccounts ==
    ASSUME TypeOK, AllAccounts, NEW r \in Runs, TakeLock(r)
    PROVE  Accounts(r)' /\ todo' \in [Runs -> SUBSET Nat]
<1>1. PICK i \in todo[r] : /\ input' = [input EXCEPT ![r] = At(r, i)]
                           /\ todo' = [todo EXCEPT ![r] = @ \ {i}]
    BY DEF TakeLock
<1>2. /\ input'[r] = At(r, i) /\ todo'[r] = todo[r] \ {i} /\ at'[r] = "locked"
      /\ left'[r] = left[r] /\ outcomes'[r] = outcomes[r] /\ found'[r] = found[r]
      /\ wrote'[r] = wrote[r] /\ status'[r] = status[r] /\ report'[r] = report[r]
      /\ at[r] = "next"
    BY <1>1 DEF TakeLock, GoTo, run, TypeOK, AllAccounts, AccountTypes
<1>3. /\ Accounts(r) /\ status[r] = "running" /\ Complete(r) /\ Fresh(r) /\ InHand(r) = {}
    BY <1>2 DEF AllAccounts, Accounts, Counting, InHand, Working
<1>4. /\ input'[r].root = input[r].root /\ input[r].root \in Roots
      /\ todo[r] \subseteq DOMAIN FilesUnder[input[r].root]
    BY <1>2 DEF At, Input, TypeOK
<1>5. Pending(r)' = {At(r, j) : j \in todo[r] \ {i}} /\ InHand(r)' = {At(r, i)}
    BY <1>2, <1>4 DEF Pending, InHand, At, Working
<1>6. At(r, i) \notin Pending(r)'
    <2>1. ASSUME NEW j \in todo[r], At(r, j) = At(r, i) PROVE j = i
        <3>1. FilesUnder[input[r].root][j] = FilesUnder[input[r].root][i]
            BY <2>1 DEF At, Input
        <3> QED BY <3>1, <1>4, IngestAssumption DEF NoRepeats
    <2> QED BY <2>1, <1>5
<1>7. At(r, i) \in Pending(r) /\ Pending(r) = Pending(r)' \cup InHand(r)'
    BY <1>5 DEF Pending
<1>8. Complete(r)'
    BY <1>2, <1>3, <1>7 DEF Complete
<1>9. Fresh(r)'
    <2>1. \A k \in DOMAIN left'[r] : input'[r].root # left'[r][k]
        BY <1>2, <1>3, <1>4 DEF Fresh
    <2> QED BY <2>1, <1>2, <1>3, <1>5, <1>6, <1>7 DEF Fresh
<1>10. LastIsLast(r)'
    BY <1>2, <1>3, <1>7 DEF LastIsLast, Fresh
<1>11. Accounts(r)'
    BY <1>2, <1>3, <1>8, <1>9, <1>10 DEF Accounts, ReportIsTrue
<1>12. todo' \in [Runs -> SUBSET Nat]
    BY <1>1 DEF AllAccounts, AccountTypes
<1> QED BY <1>11, <1>12

\* The report that a completion writes is the list of the outcomes.
LEMMA SucceedAccounts ==
    ASSUME TypeOK, AllAccounts, NEW r \in Runs, Succeed(r)
    PROVE  Accounts(r)' /\ report' \in [Runs -> Seq(Outcomes)]
<1>1. /\ at[r] = "next" /\ todo[r] = {} /\ at'[r] = "completed"
      /\ status'[r] = "succeeded" /\ report'[r] = outcomes[r]
      /\ report' = [report EXCEPT ![r] = outcomes[r]]
      /\ outcomes'[r] = outcomes[r] /\ found'[r] = found[r] /\ wrote'[r] = wrote[r]
      /\ input'[r] = input[r] /\ todo'[r] = todo[r]
    BY DEF Succeed, GoTo, plan, TypeOK, AllAccounts, AccountTypes
<1>2. /\ Accounts(r) /\ Complete(r) /\ LastIsLast(r)
      /\ Pending(r) = {} /\ InHand(r) = {}
    BY <1>1 DEF AllAccounts, Accounts, Counting, Pending, InHand, Working
<1>3. Pending(r)' = {} /\ InHand(r)' = {}
    BY <1>1 DEF Pending, InHand, Working
<1>4. Complete(r)' /\ LastIsLast(r)'
    BY <1>1, <1>2, <1>3 DEF Complete, LastIsLast
<1>5. ReportIsTrue(r)'
    BY <1>1, <1>2 DEF Accounts, Complete, ReportIsTrue
<1>6. Accounts(r)'
    BY <1>1, <1>2, <1>4, <1>5 DEF Accounts, Counting, Working
<1>7. report' \in [Runs -> Seq(Outcomes)]
    BY <1>1 DEF AllAccounts, AccountTypes
<1> QED BY <1>6, <1>7

LEMMA FailRunAccounts ==
    ASSUME TypeOK, AllAccounts, NEW r \in Runs, FailRun(r)
    PROVE  Accounts(r)' /\ report' \in [Runs -> Seq(Outcomes)]
<1>1. /\ at[r] = "failing" /\ at'[r] = "done"
      /\ status'[r] = "failed" /\ report'[r] = outcomes[r]
      /\ report' = [report EXCEPT ![r] = outcomes[r]]
      /\ outcomes'[r] = outcomes[r] /\ found'[r] = found[r] /\ wrote'[r] = wrote[r]
    BY DEF FailRun, GoTo, plan, TypeOK, AllAccounts, AccountTypes
<1>2. Accounts(r) /\ Charge(r)
    BY <1>1 DEF AllAccounts, Accounts
<1>3. Accounts(r)'
    BY <1>1, <1>2 DEF Accounts, Charge, ReportIsTrue, Counting, Working
<1>4. report' \in [Runs -> Seq(Outcomes)]
    BY <1>1 DEF AllAccounts, AccountTypes
<1> QED BY <1>3, <1>4

\* The run is over, or only its result is still to be returned.
LEMMA EndAccounts ==
    ASSUME TypeOK, AllAccounts, NEW r \in Runs, End(r) \/ GiveUp(r) \/ Kill(r)
    PROVE  Accounts(r)'
<1>1. /\ at'[r] \in {"done", "lost"} /\ status'[r] = status[r] /\ report'[r] = report[r]
      /\ outcomes'[r] = outcomes[r] /\ found'[r] = found[r] /\ wrote'[r] = wrote[r]
    BY DEF End, GiveUp, Kill, GoTo, plan, run, TypeOK, AllAccounts, AccountTypes
<1> QED BY <1>1 DEF AllAccounts, Accounts, ReportIsTrue, Counting, Working

LEMMA RaiseAccounts ==
    ASSUME TypeOK, AllAccounts, NEW r \in Runs, Raise(r)
    PROVE  /\ Accounts(r)' /\ outcomes' \in [Runs -> Seq(Outcomes)]
           /\ todo' \in [Runs -> SUBSET Nat]
<1>1. PICK c \in Charged(r) :
          outcomes' = [outcomes EXCEPT ![r] =
                          ReplacedOrAppended(@, Outcome(c, "infrastructure"))]
    BY DEF Raise
<1> DEFINE o == Outcome(c, "infrastructure")
<1>2. /\ at[r] \in Counting \cup {"completed"}
      /\ at'[r] = "failing" /\ status'[r] = status[r] /\ report'[r] = report[r]
      /\ found'[r] = found[r] /\ wrote'[r] = wrote[r]
      /\ todo' = [todo EXCEPT ![r] = {}]
    BY DEF Raise, GoTo, run, TypeOK, Places, Counting, Working
<1>3. /\ Accounts(r) /\ Complete(r) /\ Single(outcomes[r]) /\ outcomes[r] \in Seq(Outcomes)
    BY <1>2 DEF AllAccounts, AccountTypes, Accounts
<1>4. c \in Inputs /\ (c \in InputsOf(outcomes[r]) =>
              outcomes[r] # <<>> /\ outcomes[r][Len(outcomes[r])].input = c)
    <2>1. CASE at[r] = "next" /\ todo[r] # {}
        <3>1. c \in Pending(r) /\ c \in Inputs
            BY <2>1, InputTypes DEF Charged, Pending
        <3>2. Fresh(r)
            BY <2>1 DEF AllAccounts, Accounts, Counting
        <3> QED BY <3>1, <3>2 DEF Fresh
    <2>2. CASE at[r] = "next" /\ todo[r] = {} /\ left[r] # <<>>
        <3>1. c = Input(left[r][1], WholeRoot) /\ c \in Inputs /\ c.root = left[r][1]
            BY <2>2, InputTypes DEF Charged, Input
        <3>2. 1 \in DOMAIN left[r] /\ Fresh(r)
            BY <2>2 DEF AllAccounts, Accounts, Counting, TypeOK
        <3> QED BY <3>1, <3>2 DEF Fresh
    <2>3. CASE ~(at[r] = "next" /\ (todo[r] # {} \/ left[r] # <<>>))
        <3>1. c = input[r] /\ c \in Inputs
            BY <2>3, InputTypes DEF Charged
        <3>2. CASE at[r] \in Working
            BY <3>1, <3>2 DEF AllAccounts, Accounts, Counting, Fresh, InHand
        <3>3. CASE at[r] \in {"next", "completed"}
            BY <3>1, <3>3 DEF AllAccounts, Accounts, Counting, LastIsLast
        <3> QED BY <3>2, <3>3, <1>2 DEF Counting
    <2> QED BY <2>1, <2>2, <2>3
<1>5. o \in Outcomes /\ o.input = c /\ o.result = "infrastructure"
    BY <1>4 DEF Outcome, Outcomes, Results
<1> HIDE DEF o
<1> DEFINE new == ReplacedOrAppended(outcomes[r], o)
<1>6. /\ new \in Seq(Outcomes) /\ Single(new) /\ new[Len(new)] = o
      /\ Len(new) \in DOMAIN new
      /\ \A n \in DOMAIN outcomes[r] : \E m \in DOMAIN new :
            new[m].input = outcomes[r][n].input /\ (new[m] = outcomes[r][n] \/ m = Len(new))
    BY <1>3, <1>4, <1>5, Charging
<1>7. outcomes' = [outcomes EXCEPT ![r] = new]
    BY <1>1 DEF o
<1> HIDE DEF new
<1>8. outcomes'[r] = new
    BY <1>7 DEF AllAccounts, AccountTypes
<1>9. Charge(r)'
    <2> SUFFICES ASSUME NEW i \in wrote[r]
                 PROVE  \E m \in DOMAIN new :
                           /\ new[m].input = i
                           /\ \/ new[m].result = "processed"
                              \/ new[m].result = "infrastructure" /\ m = Len(new)
        BY <1>2, <1>8 DEF Charge
    <2>1. PICK n \in DOMAIN outcomes[r] :
              outcomes[r][n].input = i /\ outcomes[r][n].result = "processed"
        BY <1>3 DEF Complete
    <2>2. PICK m \in DOMAIN new :
              new[m].input = i /\ (new[m] = outcomes[r][n] \/ m = Len(new))
        BY <2>1, <1>6
    <2> QED BY <2>1, <2>2, <1>5, <1>6
<1>10. ReportIsTrue(r)'
    BY <1>2, <1>3 DEF Accounts, ReportIsTrue
<1>11. Accounts(r)'
    BY <1>2, <1>6, <1>8, <1>9, <1>10 DEF Accounts, Counting, Working
<1>12. outcomes' \in [Runs -> Seq(Outcomes)] /\ todo' \in [Runs -> SUBSET Nat]
    <2>1. {} \in SUBSET Nat
        OBVIOUS
    <2> QED BY <2>1, <1>2, <1>6, <1>7 DEF AllAccounts, AccountTypes
<1> QED BY <1>11, <1>12

LEMMA ReturnStep ==
    ASSUME TypeOK, AllAccounts, NEW r \in Runs,
           Reject(r) \/ Reuse(r) \/ NotParsed(r) \/ Changed(r) \/ Record(r)
    PROVE  /\ Accounts(r)'
           /\ outcomes' \in [Runs -> Seq(Outcomes)] /\ wrote' \in [Runs -> SUBSET Inputs]
<1>1. at[r] \in Working
    BY DEF Reject, Reuse, NotParsed, Changed, Record, Working
<1>2. PICK result \in {"processed", "failed"} :
          /\ Return(r, result)
          /\ \/ wrote' = wrote
             \/ result = "processed" /\ wrote' = [wrote EXCEPT ![r] = @ \cup {input[r]}]
    BY DEF Reject, Reuse, NotParsed, Changed, Record
<1>3. /\ outcomes' = [outcomes EXCEPT ![r] = Append(@, Outcome(input[r], result))]
      /\ at'[r] = "next"
    BY <1>2 DEF Return, Reported, GoTo, TypeOK, AllAccounts, AccountTypes
<1>4. /\ report'[r] = report[r] /\ found'[r] = found[r] /\ todo'[r] = todo[r]
      /\ left'[r] = left[r] /\ input'[r] = input[r] /\ status'[r] = status[r]
    BY DEF Reject, Reuse, NotParsed, Changed, Record, run, plan
<1>5. outcomes'[r] = Append(outcomes[r], Outcome(input[r], result))
    BY <1>3 DEF AllAccounts, AccountTypes
<1>6. \/ wrote'[r] = wrote[r]
      \/ result = "processed" /\ wrote'[r] = wrote[r] \cup {input[r]}
    BY <1>2 DEF AllAccounts, AccountTypes
<1>7. Accounts(r)'
    BY <1>1, <1>3, <1>4, <1>5, <1>6, ReturnAccounts
<1>8. wrote' \in [Runs -> SUBSET Inputs]
    <2>1. wrote \in [Runs -> SUBSET Inputs] /\ input[r] \in Inputs
        BY InputTypes DEF AllAccounts, AccountTypes
    <2> QED BY <2>1, <1>2
<1>9. outcomes' \in [Runs -> Seq(Outcomes)]
    <2> DEFINE o == Outcome(input[r], result)
    <2>1. o \in Outcomes
        BY InputTypes DEF Outcome, Outcomes, Results
    <2>2. outcomes \in [Runs -> Seq(Outcomes)] /\ outcomes' = [outcomes EXCEPT ![r] = Append(@, o)]
        BY <1>3 DEF AllAccounts, AccountTypes
    <2> HIDE DEF o
    <2> QED BY <2>1, <2>2
<1> QED BY <1>7, <1>8, <1>9

\* Nothing of the account of another run changes.
OnlyOf(r) ==
    \A q \in Runs \ {r} :
        /\ outcomes'[q] = outcomes[q] /\ report'[q] = report[q] /\ found'[q] = found[q]
        /\ wrote'[q] = wrote[q] /\ todo'[q] = todo[q] /\ left'[q] = left[q]
        /\ input'[q] = input[q] /\ at'[q] = at[q] /\ status'[q] = status[q]

LEMMA AccountsStep == TypeOK /\ AllAccounts /\ [Next]_vars => AllAccounts'
<1> SUFFICES ASSUME TypeOK, AllAccounts, [Next]_vars PROVE AllAccounts'
    OBVIOUS
<1>1. ASSUME outcomes' = outcomes, report' = report, found' = found, wrote' = wrote,
             todo' = todo, left' = left, input' = input, at' = at, status' = status
      PROVE  AllAccounts'
    <2>1. AccountTypes'
        BY <1>1 DEF AllAccounts, AccountTypes
    <2>2. ASSUME NEW q \in Runs PROVE Accounts(q)'
        BY <1>1, OthersAccounts DEF AllAccounts
    <2> QED BY <2>1, <2>2 DEF AllAccounts
<1>2. ASSUME NEW r \in Runs, Accounts(r)', AccountTypes',
             OnlyOf(r)
      PROVE  AllAccounts'
    <2>1. ASSUME NEW q \in Runs PROVE Accounts(q)'
        <3>1. CASE q = r
            BY <1>2, <3>1
        <3>2. CASE q # r
            BY <1>2, <3>2, OthersAccounts DEF AllAccounts, OnlyOf
        <3> QED BY <3>1, <3>2
    <2> QED BY <1>2, <2>1 DEF AllAccounts
<1>3. ASSUME NEW r \in Runs, Begin(r) PROVE AllAccounts'
    <2>1. AccountTypes'
        BY <1>3 DEF Begin, AllAccounts, AccountTypes
    <2>2. OnlyOf(r)
        BY <1>3 DEF OnlyOf, Begin, GoTo
    <2> QED BY <1>2, <1>3, <2>1, <2>2, BeginAccounts
<1>4. ASSUME NEW r \in Runs, Discover(r) PROVE AllAccounts'
    <2>1. AccountTypes'
        BY <1>4, DiscoverAccounts DEF Discover, run, AllAccounts, AccountTypes
    <2>2. OnlyOf(r)
        BY <1>4 DEF OnlyOf, Discover, run
    <2> QED BY <1>2, <1>4, <2>1, <2>2, DiscoverAccounts
<1>5. ASSUME NEW r \in Runs, DiscoverFails(r) PROVE AllAccounts'
    <2>1. AccountTypes'
        BY <1>5, DiscoverFailsAccounts DEF DiscoverFails, run, AllAccounts, AccountTypes
    <2>2. OnlyOf(r)
        BY <1>5 DEF OnlyOf, DiscoverFails, run
    <2> QED BY <1>2, <1>5, <2>1, <2>2, DiscoverFailsAccounts
<1>6. ASSUME NEW r \in Runs, TakeLock(r) PROVE AllAccounts'
    <2>1. AccountTypes'
        BY <1>6, TakeLockAccounts DEF TakeLock, run, AllAccounts, AccountTypes
    <2>2. OnlyOf(r)
        BY <1>6 DEF OnlyOf, TakeLock, GoTo, run
    <2> QED BY <1>2, <1>6, <2>1, <2>2, TakeLockAccounts
<1>7. ASSUME NEW r \in Runs, Capture(r) \/ FindReusable(r) \/ Promote(r) PROVE AllAccounts'
    <2>1. /\ outcomes' = outcomes /\ report' = report /\ found' = found /\ wrote' = wrote
          /\ todo' = todo /\ left' = left /\ input' = input /\ status' = status
        BY <1>7 DEF Capture, FindReusable, Promote, run, plan
    <2>2. at[r] \in Working /\ at'[r] \in Working /\ \A q \in Runs \ {r} : at'[q] = at[q]
        BY <1>7 DEF Capture, FindReusable, Promote, GoTo, Working, TypeOK
    <2>3. Accounts(r)'
        BY <2>1, <2>2, WorkAccounts DEF AllAccounts
    <2>4. AccountTypes'
        BY <2>1 DEF AllAccounts, AccountTypes
    <2> QED BY <1>2, <2>1, <2>2, <2>3, <2>4 DEF OnlyOf
<1>8. ASSUME NEW r \in Runs,
             Reject(r) \/ Reuse(r) \/ NotParsed(r) \/ Changed(r) \/ Record(r)
      PROVE AllAccounts'
    <2>1. /\ UNCHANGED <<report, found, todo, left, input, status>>
          /\ \A q \in Runs \ {r} : /\ outcomes'[q] = outcomes[q] /\ at'[q] = at[q]
                                   /\ wrote'[q] = wrote[q]
        <3>1. PICK result : Return(r, result)
            BY <1>8 DEF Reject, Reuse, NotParsed, Changed, Record
        <3>2. \A q \in Runs \ {r} : outcomes'[q] = outcomes[q] /\ at'[q] = at[q]
            BY <3>1 DEF Return, GoTo
        <3>3. \A q \in Runs \ {r} : wrote'[q] = wrote[q]
            <4>1. wrote' = wrote \/ wrote' = [wrote EXCEPT ![r] = @ \cup {input[r]}]
                BY <1>8 DEF Reject, Reuse, NotParsed, Changed, Record
            <4> QED BY <4>1 DEF AllAccounts, AccountTypes
        <3>4. UNCHANGED <<report, found, todo, left, input, status>>
            <4>1. CASE Reject(r) \/ Reuse(r)
                BY <4>1 DEF Reject, Reuse, run, plan
            <4>2. CASE NotParsed(r) \/ Changed(r)
                BY <4>2 DEF NotParsed, Changed, run, plan
            <4>3. CASE Record(r)
                BY <4>3 DEF Record, run, plan
            <4> QED BY <1>8, <4>1, <4>2, <4>3
        <3> QED BY <3>2, <3>3, <3>4
    <2>2. AccountTypes' /\ Accounts(r)'
        BY <1>8, <2>1, ReturnStep DEF AllAccounts, AccountTypes
    <2> QED BY <1>2, <2>1, <2>2 DEF OnlyOf
<1>9. ASSUME NEW r \in Runs, Succeed(r) PROVE AllAccounts'
    <2>1. AccountTypes'
        BY <1>9, SucceedAccounts DEF Succeed, plan, AllAccounts, AccountTypes
    <2>2. \A q \in Runs \ {r} : /\ status'[q] = status[q] /\ report'[q] = report[q]
                                /\ at'[q] = at[q]
        BY <1>9 DEF Succeed, GoTo
    <2> QED BY <1>2, <1>9, <2>1, <2>2, SucceedAccounts DEF Succeed, plan, OnlyOf
<1>10. ASSUME NEW r \in Runs, FailRun(r) PROVE AllAccounts'
    <2>1. AccountTypes'
        BY <1>10, FailRunAccounts DEF FailRun, plan, AllAccounts, AccountTypes
    <2>2. \A q \in Runs \ {r} : /\ status'[q] = status[q] /\ report'[q] = report[q]
                                /\ at'[q] = at[q]
        BY <1>10 DEF FailRun, GoTo
    <2> QED BY <1>2, <1>10, <2>1, <2>2, FailRunAccounts DEF FailRun, plan, OnlyOf
<1>11. ASSUME NEW r \in Runs, End(r) \/ GiveUp(r) \/ Kill(r) PROVE AllAccounts'
    <2>1. UNCHANGED <<outcomes, report, found, wrote, todo, left, input, status>>
        BY <1>11 DEF End, GiveUp, Kill, run, plan
    <2>2. AccountTypes' /\ \A q \in Runs \ {r} : at'[q] = at[q]
        <3>1. PICK place : GoTo(r, place)
            BY <1>11 DEF End, GiveUp, Kill
        <3>2. AccountTypes'
            BY <2>1 DEF AllAccounts, AccountTypes
        <3> QED BY <3>1, <3>2 DEF GoTo
    <2> QED BY <1>2, <1>11, <2>1, <2>2, EndAccounts DEF OnlyOf
<1>12. ASSUME NEW r \in Runs, Raise(r) PROVE AllAccounts'
    <2>1. AccountTypes'
        BY <1>12, RaiseAccounts DEF Raise, run, AllAccounts, AccountTypes
    <2>2. \A q \in Runs \ {r} : /\ outcomes'[q] = outcomes[q] /\ todo'[q] = todo[q]
                                /\ left'[q] = left[q] /\ at'[q] = at[q]
        BY <1>12 DEF Raise, GoTo
    <2> QED BY <1>2, <1>12, <2>1, <2>2, RaiseAccounts DEF Raise, run, OnlyOf
<1>13. ASSUME NEW f \in Files, Edit(f) PROVE AllAccounts'
    BY <1>1, <1>13 DEF Edit, run, plan
<1>14. CASE UNCHANGED vars
    BY <1>1, <1>14 DEF vars
<1> QED BY <1>3, <1>4, <1>5, <1>6, <1>7, <1>8, <1>9, <1>10, <1>11, <1>12, <1>13, <1>14
        DEF Next, Step

\* Every report that a run leaves behind has one outcome for each input, has
\* all that was found if it claims success, and tells what was committed.
THEOREM ReportsAreAlwaysTrue == Spec => []ReportsAreTrue
<1>1. TypeOK /\ AllAccounts => ReportsAreTrue
    BY DEF AllAccounts, Accounts, ReportIsTrue, Single, ReportsAreTrue, OneOutcomePerInput,
        SucceededIsComplete, CommittedIsReported
<1> QED BY <1>1, TypeInit, TypeStep, AccountsInit, AccountsStep, PTL DEF Spec
====
