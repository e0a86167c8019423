---- MODULE OutboxProofs ----
(***************************************************************************)
(* Proofs about Outbox for any events, any exporters and any number of     *)
(* stops, and about Backup, which extends it, for any restorers, any blobs *)
(* and any number of failures.  The flock is what the first part rests on: *)
(* whoever is past Acquire is the only one there, so what it knows of the  *)
(* file and of the pending rows stays true until it leaves.  The second    *)
(* part rests on mkdir: one restorer at a time is between making the root  *)
(* and opening it.                                                         *)
(***************************************************************************)
EXTENDS Backup, FiniteSetTheorems, TLAPS

USE OutboxAssumption

LEMMA TypeInit == Init => TypeOK
BY DEF Init, TypeOK, Places

LEMMA TypeStep == ASSUME TypeOK, [Next]_vars PROVE TypeOK'
<1> USE DEF TypeOK, Places, GoTo, Leave
<1>1. ASSUME NEW e \in Events, Commit(e) PROVE TypeOK'
  BY <1>1 DEF Commit
<1>2. ASSUME NEW x \in Exporters, Acquire(x) PROVE TypeOK'
  BY <1>2 DEF Acquire, LockIsFree
<1>3. ASSUME NEW x \in Exporters, ReadFile(x) PROVE TypeOK'
  BY <1>3 DEF ReadFile, Lines
<1>4. ASSUME NEW x \in Exporters, RefuseFile(x) \/ Finish(x) PROVE TypeOK'
  BY <1>4 DEF RefuseFile, Finish
<1>5. ASSUME NEW x \in Exporters, ListPending(x) PROVE TypeOK'
  BY <1>5 DEF ListPending, Listed, Pending
<1>6. ASSUME NEW x \in Exporters, Take(x) PROVE TypeOK'
  BY <1>6 DEF Take, AfterLookup
<1>7. ASSUME NEW x \in Exporters, WritePart(x) PROVE TypeOK'
  BY <1>7 DEF WritePart
<1>8. ASSUME NEW x \in Exporters, WriteAll(x) PROVE TypeOK'
  BY <1>8 DEF WriteAll, AfterWrite
<1>9. ASSUME NEW x \in Exporters, Sync(x) PROVE TypeOK'
  BY <1>9 DEF Sync
<1>10. ASSUME NEW x \in Exporters, Mark(x) PROVE TypeOK'
  BY <1>10 DEF Mark
<1>11. ASSUME NEW x \in Exporters, Stop(x) PROVE TypeOK'
  BY <1>11 DEF Stop, disk
<1>12. CASE PowerLoss
  BY <1>12 DEF PowerLoss
<1>13. CASE UNCHANGED vars
  BY <1>13 DEF vars
<1> QED BY <1>1, <1>2, <1>3, <1>4, <1>5, <1>6, <1>7, <1>8, <1>9, <1>10, <1>11, <1>12,
           <1>13 DEF Next, PoweredNext, Step

\* Every table and variable keeps its type.
THEOREM TypeCorrect == Spec => []TypeOK
<1>1. TypeOK /\ [Next]_vars => TypeOK'
  BY TypeStep
<1> QED BY <1>1, TypeInit, PTL DEF Spec

----------------------------------------------------------------------------
(* The inductive invariant *)

\* The flock has one holder, and only the holder is inside export_outbox.
OneHolder == \A x \in Exporters : at[x] # "idle" <=> lock = x

\* The holder's dictionary is the file, and its rows are still pending.
HolderIsRight ==
    \A x \in Exporters :
        /\ at[x] \in {"list", "next", "write", "mark"} => known[x] = Lines(file)
        /\ at[x] = "write" => event[x] \notin Lines(file)
        /\ at[x] \in {"sync", "mark"} => event[x] \in Lines(file)
        /\ at[x] = "sync" => Lines(file) = known[x] \cup {event[x]}
        /\ todo[x] \subseteq Pending \ {event[x]}
        /\ at[x] \in {"idle", "read", "list"} => todo[x] = {}

\* The file holds committed events only.
OnlyCommitted == \A e \in Lines(file) : rows[e] # "absent"

OutboxInv ==
    /\ OneHolder
    /\ HolderIsRight
    /\ OnlyCommitted
    /\ OncePerEvent
    /\ NobodyElseDelivers

LEMMA AppendLines ==
    ASSUME NEW f \in Seq(Events), NEW e \in Events
    PROVE  /\ Append(f, e) \in Seq(Events)
           /\ DOMAIN Append(f, e) = DOMAIN f \cup {Len(f) + 1}
           /\ \A i \in DOMAIN f : Append(f, e)[i] = f[i]
           /\ Append(f, e)[Len(f) + 1] = e
           /\ Lines(Append(f, e)) = Lines(f) \cup {e}
<1>1. /\ Append(f, e) \in Seq(Events)
      /\ DOMAIN Append(f, e) = DOMAIN f \cup {Len(f) + 1}
      /\ \A i \in DOMAIN f : Append(f, e)[i] = f[i]
      /\ Append(f, e)[Len(f) + 1] = e
  OBVIOUS
<1> QED BY <1>1, Zenon DEF Lines

LEMMA PrefixLines ==
    ASSUME NEW f \in Seq(Events), NEW n \in 0..Len(f)
    PROVE  /\ SubSeq(f, 1, n) \in Seq(Events)
           /\ DOMAIN SubSeq(f, 1, n) = 1..n
           /\ 1..n \subseteq DOMAIN f
           /\ \A i \in 1..n : SubSeq(f, 1, n)[i] = f[i]
           /\ Lines(SubSeq(f, 1, n)) \subseteq Lines(f)
<1>1. /\ SubSeq(f, 1, n) \in Seq(Events)
      /\ DOMAIN SubSeq(f, 1, n) = 1..n
      /\ 1..n \subseteq DOMAIN f
      /\ \A i \in 1..n : SubSeq(f, 1, n)[i] = f[i]
  OBVIOUS
<1> QED BY <1>1 DEF Lines

LEMMA InvStep == ASSUME TypeOK, TypeOK', OutboxInv, [Next]_vars PROVE OutboxInv'
<1> USE DEF OutboxInv, OneHolder, HolderIsRight, OnlyCommitted, NobodyElseDelivers, OncePerEvent
<1>1. ASSUME NEW e \in Events, Commit(e) PROVE OutboxInv'
  BY <1>1 DEF Commit, TypeOK, Pending, Lines
<1>2. ASSUME NEW x \in Exporters, Acquire(x) PROVE OutboxInv'
  BY <1>2 DEF Acquire, LockIsFree, GoTo, TypeOK, Pending, Lines
<1>3. ASSUME NEW x \in Exporters, ReadFile(x) PROVE OutboxInv'
  BY <1>3 DEF ReadFile, GoTo, TypeOK, Pending, Lines
<1>4. ASSUME NEW x \in Exporters, Leave(x), at[x] # "idle", UNCHANGED <<rows, file>>
      PROVE  OutboxInv'
  BY <1>4 DEF Leave, GoTo, TypeOK, Pending, Lines
<1>5. ASSUME NEW x \in Exporters, ListPending(x) PROVE OutboxInv'
  BY <1>5 DEF ListPending, Listed, GoTo, TypeOK, Pending, Lines
<1>6. ASSUME NEW x \in Exporters, Take(x) PROVE OutboxInv'
  BY <1>6 DEF Take, AfterLookup, GoTo, TypeOK, Pending, Lines
<1>7. ASSUME NEW x \in Exporters, WritePart(x) PROVE OutboxInv'
  BY <1>7 DEF WritePart, TypeOK, Pending, Lines
<1>8. ASSUME NEW x \in Exporters, WriteAll(x) PROVE OutboxInv'
  <2>1. event[x] \in Events /\ file' = Append(file, event[x])
    BY <1>8 DEF WriteAll, TypeOK
  <2>2. /\ DOMAIN file' = DOMAIN file \cup {Len(file) + 1}
        /\ \A i \in DOMAIN file : file'[i] = file[i]
        /\ file'[Len(file) + 1] = event[x]
        /\ Lines(file') = Lines(file) \cup {event[x]}
    BY <2>1, AppendLines DEF TypeOK
  <2>3. OncePerEvent'
    BY <1>8, <2>2 DEF WriteAll, Lines
  <2>4. HolderIsRight' /\ OneHolder'
    BY <1>8, <2>2 DEF WriteAll, AfterWrite, GoTo, TypeOK, Pending
  <2>5. OnlyCommitted' /\ NobodyElseDelivers'
    BY <1>8, <2>2 DEF WriteAll, TypeOK
  <2> QED BY <2>3, <2>4, <2>5
<1>9. ASSUME NEW x \in Exporters, Sync(x) PROVE OutboxInv'
  BY <1>9 DEF Sync, GoTo, TypeOK, Pending, Lines
<1>10. ASSUME NEW x \in Exporters, Mark(x) PROVE OutboxInv'
  BY <1>10 DEF Mark, GoTo, TypeOK, Pending, Lines
<1>11. CASE PowerLoss
  <2>1. PICK n \in synced..Len(file) : file' = SubSeq(file, 1, n)
    BY <1>11 DEF PowerLoss
  <2>2. n \in 0..Len(file)
    BY <2>1 DEF TypeOK
  <2>3. /\ DOMAIN file' = 1..n /\ 1..n \subseteq DOMAIN file
        /\ \A i \in 1..n : file'[i] = file[i]
        /\ Lines(file') \subseteq Lines(file)
    BY <2>1, <2>2, PrefixLines DEF TypeOK
  <2> QED BY <1>11, <2>3 DEF PowerLoss, TypeOK, Pending
<1>12. CASE UNCHANGED vars
  BY <1>12 DEF vars, TypeOK, Pending, Lines
<1> QED BY <1>1, <1>2, <1>3, <1>4, <1>5, <1>6, <1>7, <1>8, <1>9, <1>10, <1>11, <1>12
        DEF Next, PoweredNext, Step, RefuseFile, Finish, Stop, disk

\* The invariant holds in every reachable state.
THEOREM LockedDelivery == Spec => []OutboxInv
<1>1. Init => OutboxInv
  BY DEF Init, OutboxInv, OneHolder, HolderIsRight, OnlyCommitted, OncePerEvent,
         NobodyElseDelivers, Lines, Pending
<1>2. TypeOK /\ TypeOK' /\ OutboxInv /\ [Next]_vars => OutboxInv'
  BY InvStep
<1> QED BY <1>1, <1>2, TypeCorrect, PTL DEF Spec

\* No event ID is ever on two lines of events.jsonl.
THEOREM NeverTwice == Spec => []OncePerEvent
<1>1. OutboxInv => OncePerEvent
  BY DEF OutboxInv
<1> QED BY <1>1, LockedDelivery, PTL

\* "outbox row changed during delivery" is never another exporter's doing.
THEOREM DeliveryUndisturbed == Spec => []NobodyElseDelivers
<1>1. OutboxInv => NobodyElseDelivers
  BY DEF OutboxInv
<1> QED BY <1>1, LockedDelivery, PTL

----------------------------------------------------------------------------
(* What was delivered stays *)

\* No run meets both a stop between write and fsync and a loss of power: the
\* retry would call the unsynced line delivered (see README.md).
RetryIsSafe == Faults # {"interrupt", "power"}

\* With the power at stake, only the line being written is not on the disk,
\* and no row of it is delivered.
SyncedBeforeMark ==
    "power" \in Faults =>
        /\ (\A x \in Exporters : at[x] # "sync") => synced = Len(file)
        /\ \A e \in Events : rows[e] = "delivered" => \E i \in 1..synced : file[i] = e

DurableInv == SyncedBeforeMark /\ DeliveredIsInFile

LEMMA DurableStep ==
    ASSUME RetryIsSafe, TypeOK, TypeOK', OutboxInv, DurableInv, [Next]_vars
    PROVE  DurableInv'
<1> USE DEF DurableInv, SyncedBeforeMark, DeliveredIsInFile
<1>0. "power" \in Faults => "interrupt" \notin Faults
  BY DEF RetryIsSafe
<1>1. ASSUME NEW e \in Events, Commit(e) PROVE DurableInv'
  BY <1>1 DEF Commit, TypeOK, Lines
<1>2. ASSUME NEW x \in Exporters,
             \/ Acquire(x) \/ ReadFile(x) \/ RefuseFile(x) \/ ListPending(x)
             \/ Finish(x) \/ WritePart(x)
      PROVE  DurableInv'
  <2>1. UNCHANGED <<rows, file, synced>> /\ at[x] # "sync"
    BY <1>2 DEF Acquire, ReadFile, RefuseFile, ListPending, Finish, WritePart
  <2>2. \A y \in Exporters : at[y] = "sync" => at'[y] = "sync"
    BY <1>2, <2>1 DEF Acquire, ReadFile, RefuseFile, ListPending, Finish, WritePart, Leave,
                      GoTo, TypeOK
  <2> QED BY <2>1, <2>2 DEF Lines
<1>3. ASSUME NEW x \in Exporters, Take(x) PROVE DurableInv'
  <2>1. UNCHANGED <<rows, file, synced>> /\ at[x] # "sync"
    BY <1>3 DEF Take
  <2>2. \A y \in Exporters : at[y] = "sync" => at'[y] = "sync"
    BY <1>3, <2>1 DEF Take, GoTo, AfterLookup, TypeOK
  <2> QED BY <2>1, <2>2 DEF Lines
<1>4. ASSUME NEW x \in Exporters, WriteAll(x) PROVE DurableInv'
  <2>1. file' = Append(file, event[x]) /\ event[x] \in Events
    BY <1>4 DEF WriteAll, TypeOK
  <2>2. /\ \A i \in DOMAIN file : file'[i] = file[i]
        /\ Lines(file') = Lines(file) \cup {event[x]}
    BY <2>1, AppendLines DEF TypeOK
  <2>3. at'[x] = "sync" /\ UNCHANGED <<rows, synced>>
    BY <1>4 DEF WriteAll, AfterWrite, GoTo, TypeOK
  <2>4. 1..synced \subseteq DOMAIN file
    BY DEF TypeOK
  <2> QED BY <2>2, <2>3, <2>4
<1>5. ASSUME NEW x \in Exporters, Sync(x) PROVE DurableInv'
  <2>1. UNCHANGED <<rows, file>> /\ synced' = Len(file)
    BY <1>5 DEF Sync
  <2>2. 1..synced \subseteq 1..Len(file)
    BY DEF TypeOK
  <2> QED BY <2>1, <2>2 DEF Lines
<1>6. ASSUME NEW x \in Exporters, Mark(x) PROVE DurableInv'
  <2>1. event[x] \in Lines(file) /\ event[x] \in Events
    BY <1>6 DEF Mark, OutboxInv, HolderIsRight, TypeOK
  <2>2. \A y \in Exporters : at[y] # "sync" /\ at'[y] # "sync"
    BY <1>6 DEF Mark, GoTo, OutboxInv, OneHolder, TypeOK
  <2>3. "power" \in Faults => synced = Len(file)
    BY <2>2
  <2>4. "power" \in Faults => \E i \in 1..synced : file[i] = event[x]
    BY <2>1, <2>3 DEF Lines, TypeOK
  <2>5. \A e \in Events : rows'[e] = "delivered" => rows[e] = "delivered" \/ e = event[x]
    BY <1>6 DEF Mark, TypeOK
  <2>6. UNCHANGED <<file, synced>>
    BY <1>6 DEF Mark
  <2> QED BY <2>1, <2>2, <2>3, <2>4, <2>5, <2>6 DEF Lines
<1>7. ASSUME NEW x \in Exporters, Stop(x) PROVE DurableInv'
  <2>1. UNCHANGED <<rows, file, synced>>
    BY <1>7 DEF Stop, disk
  <2>2. "power" \in Faults => at[x] # "sync"
    BY <1>0, <1>7 DEF Stop
  <2>3. \A y \in Exporters \ {x} : at'[y] = at[y]
    BY <1>7 DEF Stop, Leave, GoTo, TypeOK
  <2> QED BY <2>1, <2>2, <2>3 DEF Lines
<1>8. CASE PowerLoss
  <2>1. PICK n \in synced..Len(file) : file' = SubSeq(file, 1, n) /\ synced' = n
    BY <1>8 DEF PowerLoss
  <2>2. n \in 0..Len(file) /\ 1..synced \subseteq 1..n
    BY <2>1 DEF TypeOK
  <2>3. DOMAIN file' = 1..n /\ Len(file') = n /\ \A i \in 1..n : file'[i] = file[i]
    BY <2>1, <2>2, PrefixLines DEF TypeOK
  <2>4. "power" \in Faults /\ UNCHANGED rows
    BY <1>8 DEF PowerLoss
  <2>5. \A e \in Events : rows'[e] = "delivered" => \E i \in 1..n : file'[i] = e
    BY <2>2, <2>3, <2>4
  <2>6. SyncedBeforeMark'
    BY <2>1, <2>3, <2>5
  <2>7. DeliveredIsInFile'
    BY <2>3, <2>5 DEF Lines
  <2> QED BY <2>6, <2>7
<1>9. CASE UNCHANGED vars
  BY <1>9 DEF vars, Lines
<1> QED BY <1>1, <1>2, <1>3, <1>4, <1>5, <1>6, <1>7, <1>8, <1>9 DEF Next, PoweredNext, Step

LEMMA DurableInit == Init => DurableInv
BY DEF Init, DurableInv, SyncedBeforeMark, DeliveredIsInFile

\* A delivered row has its line in the file for ever, unless a line left
\* unsynced by an interrupted export and a loss of power come together.
THEOREM DeliveredStays == ASSUME RetryIsSafe PROVE Spec => []DeliveredIsInFile
<1>1. TypeOK /\ TypeOK' /\ OutboxInv /\ DurableInv /\ [Next]_vars => DurableInv'
  BY DurableStep
<1>2. DurableInv => DeliveredIsInFile
  BY DEF DurableInv
<1> QED BY <1>1, <1>2, DurableInit, TypeCorrect, LockedDelivery, PTL DEF Spec

----------------------------------------------------------------------------
(* The outbox implements its promise *)

LEMMA LogStep ==
    ASSUME RetryIsSafe, TypeOK, OutboxInv, DurableInv, [Next]_vars
    PROVE  [Log!LogNext]_(Log!LogVars)
<1> DEFINE committed == {e \in Events : rows[e] # "absent"}
           delivered == {e \in Events : rows[e] = "delivered"}
<1>1. ASSUME NEW e \in Events, Commit(e) PROVE Log!CommitEvent(e)
  BY <1>1 DEF Commit, Log!CommitEvent, TypeOK
<1>2. ASSUME NEW x \in Exporters, WriteAll(x) PROVE \E e \in Events : Log!Publish(e)
  <2>1. PICK e : e = event[x]
    OBVIOUS
  <2>2. at[x] = "write" /\ e # NoEvent /\ e \in Events
    BY <1>2, <2>1 DEF WriteAll, TypeOK
  <2>3. rows[e] = "pending" /\ e \notin Lines(file)
    BY <2>1, <2>2 DEF OutboxInv, HolderIsRight, NobodyElseDelivers
  <2>4. Log!Publish(e)
    BY <1>2, <2>1, <2>2, <2>3 DEF WriteAll, Log!Publish, Log!Lines, Lines
  <2> QED BY <2>2, <2>4
<1>3. ASSUME NEW x \in Exporters, Mark(x) PROVE \E e \in Events : Log!Deliver(e)
  <2>1. PICK e : e = event[x]
    OBVIOUS
  <2>2. e \in Events /\ e \in Lines(file)
    BY <1>3, <2>1 DEF Mark, OutboxInv, HolderIsRight, TypeOK
  <2>3. delivered' = delivered \cup {e} /\ committed' = committed
    BY <1>3, <2>1, <2>2 DEF Mark, TypeOK
  <2>4. Log!Deliver(e)
    BY <1>3, <2>2, <2>3 DEF Mark, Log!Deliver, Log!Lines, Lines
  <2> QED BY <2>2, <2>4
<1>4. CASE PowerLoss
  <2>1. PICK n \in synced..Len(file) : file' = SubSeq(file, 1, n)
    BY <1>4 DEF PowerLoss
  <2>2. n \in 0..Len(file) /\ DOMAIN file = 1..Len(file) /\ synced \in Nat /\ Len(file) \in Nat
    BY <2>1 DEF TypeOK
  <2>3. ASSUME NEW i \in n+1..Len(file) PROVE file[i] \notin delivered
    <3>1. ASSUME file[i] \in delivered PROVE FALSE
      <4>1. PICK j \in 1..synced : file[j] = file[i]
        BY <1>4, <3>1 DEF PowerLoss, DurableInv, SyncedBeforeMark
      <4>2. i \in DOMAIN file /\ j \in DOMAIN file /\ i # j
        BY <2>1, <2>2, <2>3, <4>1 DEF TypeOK
      <4> QED BY <4>1, <4>2 DEF OutboxInv, OncePerEvent
    <3> QED BY <3>1
  <2>4. UNCHANGED <<committed, delivered>>
    BY <1>4 DEF PowerLoss
  <2> QED BY <2>1, <2>2, <2>3, <2>4 DEF Log!LogNext, Log!LoseTail
<1>5. ASSUME UNCHANGED <<rows, file>> PROVE UNCHANGED Log!LogVars
  BY <1>5 DEF Log!LogVars
<1> QED BY <1>1, <1>2, <1>3, <1>4, <1>5
        DEF Next, PoweredNext, Step, vars, disk, Acquire, ReadFile, RefuseFile, ListPending, Take, Sync,
            Finish, WritePart, Stop, Log!LogNext

\* export_outbox implements EventLog: each committed event at most once, every
\* delivered one for ever.
THEOREM OutboxImplementsLog == ASSUME RetryIsSafe PROVE Spec => ImplementsLog
<1>1. Init => Log!LogInit
  BY DEF Init, Log!LogInit
<1>2. TypeOK /\ OutboxInv /\ DurableInv /\ [Next]_vars => [Log!LogNext]_(Log!LogVars)
  BY LogStep
<1>3. TypeOK /\ TypeOK' /\ OutboxInv /\ DurableInv /\ [Next]_vars => DurableInv'
  BY DurableStep
<1> QED BY <1>1, <1>2, <1>3, DurableInit, TypeCorrect, LockedDelivery, PTL
        DEF Spec, ImplementsLog, Log!LogSpec
----------------------------------------------------------------------------
(* The event log of a database copy *)

USE BackupAssumption

\* The log that backup derives from a table has each of its rows on one line.
LEMMA LogOfTable ==
    ASSUME NEW table, IsFiniteSet(RowsIn(table))
    PROVE  /\ EventLogOf(table) \in Seq(Events)
           /\ Lines(EventLogOf(table)) = RowsIn(table)
           /\ \A i, j \in DOMAIN EventLogOf(table) :
                 EventLogOf(table)[i] = EventLogOf(table)[j] => i = j
<1> DEFINE R == RowsIn(table)
           n == Cardinality(R)
           Below(e) == {f \in R : Rank[f] <= Rank[e]}
           number == [e \in R |-> NumberOf(e, table)]
<1>0. R \subseteq Events
  BY DEF RowsIn
<1>1. n \in Nat
  BY FS_CardinalityType
<1>2. ASSUME NEW e \in R
      PROVE  /\ IsFiniteSet(Below(e)) /\ NumberOf(e, table) = Cardinality(Below(e))
             /\ NumberOf(e, table) \in 1..n /\ NumberOf(e, table) \in Nat
  <2>1. Below(e) \in SUBSET R
    OBVIOUS
  <2>2. IsFiniteSet(Below(e)) /\ Cardinality(Below(e)) <= n
    BY <2>1, FS_Subset
  <2>3. e \in Below(e)
    BY <1>0
  <2>4. Cardinality(Below(e)) \in Nat /\ Cardinality(Below(e)) # 0
    BY <2>2, <2>3, FS_CardinalityType, FS_EmptySet
  <2> QED BY <1>1, <2>2, <2>4 DEF NumberOf
<1>3. ASSUME NEW e \in R, NEW f \in R, Rank[e] < Rank[f]
      PROVE  NumberOf(e, table) < NumberOf(f, table)
  <2>1. Below(e) \in SUBSET Below(f)
    BY <1>0, <1>3
  <2>2. f \in Below(f) /\ f \notin Below(e)
    BY <1>0, <1>3
  <2>3. Cardinality(Below(e)) <= Cardinality(Below(f)) /\ Cardinality(Below(e)) # Cardinality(Below(f))
    BY <1>2, <2>1, <2>2, FS_Subset
  <2>4. /\ NumberOf(e, table) = Cardinality(Below(e)) /\ NumberOf(f, table) = Cardinality(Below(f))
        /\ NumberOf(e, table) \in Nat /\ NumberOf(f, table) \in Nat
    BY <1>2
  <2> HIDE DEF Below
  <2> QED BY <2>3, <2>4
<1>4. \A e, f \in R : NumberOf(e, table) = NumberOf(f, table) => e = f
  <2> SUFFICES ASSUME NEW e \in R, NEW f \in R, NumberOf(e, table) = NumberOf(f, table)
               PROVE  e = f
    OBVIOUS
  <2>1. NumberOf(e, table) \in Nat /\ NumberOf(f, table) \in Nat
    BY <1>2
  <2>2. ~(Rank[e] < Rank[f]) /\ ~(Rank[f] < Rank[e])
    BY <1>3, <2>1
  <2> QED BY <1>0, <2>2
<1>5. \A i \in 1..n : \E e \in R : NumberOf(e, table) = i
  <2>1. number \in Injection(R, 1..n)
    <3>1. number \in [R -> 1..n]
      BY <1>2
    <3> QED BY <1>4, <3>1 DEF Injection, IsInjective
  <2>2. IsFiniteSet(1..n) /\ Cardinality(1..n) = n
    BY <1>1, FS_Interval
  <2>3. number \in Surjection(R, 1..n)
    BY <2>1, <2>2, FS_Injection
  <2> QED BY <2>3 DEF Surjection
<1>6. \A i \in 1..n : EventLogOf(table)[i] \in R /\ NumberOf(EventLogOf(table)[i], table) = i
  BY <1>5 DEF EventLogOf
<1>7. DOMAIN EventLogOf(table) = 1..n
  BY DEF EventLogOf
<1>8. \A e \in R : NumberOf(e, table) \in 1..n /\ EventLogOf(table)[NumberOf(e, table)] = e
  BY <1>2, <1>4, <1>6
<1>9. EventLogOf(table) \in [1..n -> Events]
  BY <1>0, <1>6 DEF EventLogOf
<1>10. EventLogOf(table) \in Seq(Events)
  BY <1>1, <1>9
<1> QED BY <1>6, <1>7, <1>8, <1>10 DEF Lines
----------------------------------------------------------------------------
(* Backup and restore: the inductive invariant *)

Tables == [Events -> {"absent", "pending", "delivered"}]
Copies == [rows : Tables, lines : Seq(Events), blobs : SUBSET Blobs]
Drafts == [at : {"copied", "logged"}, rows : Tables, lines : Seq(Events), blobs : SUBSET Blobs]
RestorePlaces == {"idle", "make", "refused", "done", "dead"} \cup Restoring

BackupTypeOK ==
    /\ leaves \subseteq Blobs
    /\ root \in {"none", "made", "open"}
    /\ restorer \in [Restorers -> RestorePlaces]
    /\ half \in BOOLEAN

\* The draft is a cut of the database, and what was added to it is its own.
DraftIsACut ==
    draft # NoBundle =>
        /\ bundle = NoBundle
        /\ draft \in Drafts
        /\ IsFiniteSet(RowsIn(draft.rows))
        /\ draft.blobs \subseteq BlobsIn(draft.rows)
        /\ draft.at = "logged" => draft.lines = EventLogOf(draft.rows)

BundleIsSound ==
    bundle # NoBundle =>
        /\ bundle \in Copies
        /\ IsFiniteSet(RowsIn(bundle.rows))
        /\ Verified(bundle)

\* One restorer at a time is between making the root and opening it.
OneRestorer ==
    /\ \A r \in Restorers : restorer[r] \in Restoring => root = "made"
    /\ \A r, q \in Restorers : restorer[r] \in Restoring /\ restorer[q] \in Restoring => r = q

\* A root that is not open yet holds a part of the bundle, the database first.
TargetIsPart ==
    /\ \A r \in Restorers : restorer[r] = "make" => bundle # NoBundle
    /\ root = "made" =>
        /\ bundle # NoBundle
        /\ target \in Copies
        /\ target.rows \in {NoRows, bundle.rows}
        /\ target.lines = <<>> \/ (target.lines = bundle.lines /\ target.rows = bundle.rows)
    /\ \A r \in Restorers : restorer[r] \in {"events", "blobs"} => target.rows = bundle.rows

BackupInv ==
    /\ BackupTypeOK
    /\ TypeOK /\ OutboxInv
    /\ IsFiniteSet(RowsIn(rows))
    /\ DraftIsACut
    /\ BundleIsSound
    /\ OneRestorer
    /\ TargetIsPart

\* The Library in use; only one left half restored may lack what its rows say.
LibraryInv == half \/ (DurableInv /\ BlobsIn(rows) \subseteq leaves)

LEMMA NoRowsIsEmpty == RowsIn(NoRows) = {} /\ NoRows \in Tables
BY DEF RowsIn, NoRows, Tables

LEMMA BackupStarts == BackupInit => BackupInv /\ LibraryInv
<1> SUFFICES ASSUME BackupInit PROVE BackupInv /\ LibraryInv
  OBVIOUS
<1>1. TypeOK
  BY TypeInit DEF BackupInit
<1>2. /\ BackupTypeOK /\ DraftIsACut /\ BundleIsSound /\ OneRestorer /\ TargetIsPart
  BY DEF BackupInit, BackupTypeOK, DraftIsACut, BundleIsSound, OneRestorer,
         TargetIsPart, RestorePlaces, Restoring
<1>3. rows = NoRows
  BY DEF BackupInit, Init, NoRows
<1>4. RowsIn(rows) = {} /\ BlobsIn(rows) = {}
  BY <1>3, NoRowsIsEmpty DEF BlobsIn
<1>5. OutboxInv
  BY DEF BackupInit, Init, OutboxInv, OneHolder, HolderIsRight, OnlyCommitted, OncePerEvent,
         NobodyElseDelivers, Lines, Pending
<1>6. DurableInv
  BY DurableInit DEF BackupInit
<1> QED BY <1>1, <1>2, <1>4, <1>5, <1>6, FS_EmptySet DEF BackupInv, LibraryInv

\* What a step of the Library at work leaves alone.
LEMMA AtWork ==
    ASSUME \/ \E e \in Events : CommitSource(e)
           \/ \E x \in Exporters : Export(x)
           \/ LosePower
    PROVE  /\ Next
           /\ UNCHANGED <<leaves, draft, bundle, root, target, restorer, half>>
BY DEF CommitSource, Export, LosePower, Next, PoweredNext, bundleVars, restoreVars

\* Only a commit adds a row.
LEMMA RowsStep ==
    ASSUME TypeOK, (\E x \in Exporters : Export(x)) \/ LosePower
    PROVE  RowsIn(rows') = RowsIn(rows)
<1>1. ASSUME NEW x \in Exporters, Mark(x) PROVE RowsIn(rows') = RowsIn(rows)
  BY <1>1 DEF Mark, RowsIn, TypeOK
<1>2. ASSUME UNCHANGED rows PROVE RowsIn(rows') = RowsIn(rows)
  BY <1>2
<1> QED BY <1>1, <1>2 DEF Export, LosePower, PowerLoss, Acquire, Step, WritePart, Stop, ReadFile,
           RefuseFile, ListPending, Take, WriteAll, Sync, Finish, disk

\* The Library that a restore opens keeps the outbox's invariants: its file
\* is a log of its own rows, or nothing.
LEMMA OpeningStep ==
    ASSUME FollowTarget, BackupInv, root = "made"
    PROVE  /\ TypeOK' /\ OutboxInv'
           /\ IsFiniteSet(RowsIn(rows)')
           /\ leaves' \subseteq Blobs
           /\ target.rows = bundle.rows /\ target.lines = bundle.lines => DurableInv'
<1>1. /\ target \in Copies /\ bundle \in Copies
      /\ target.rows \in {NoRows, bundle.rows}
      /\ target.lines = <<>> \/ (target.lines = bundle.lines /\ target.rows = bundle.rows)
      /\ IsFiniteSet(RowsIn(bundle.rows))
      /\ bundle.lines = EventLogOf(bundle.rows)
  BY DEF BackupInv, TargetIsPart, BundleIsSound, Verified
<1>2. /\ rows' = target.rows /\ file' = target.lines /\ leaves' = target.blobs
      /\ synced' = Len(target.lines) /\ tail' = NoEvent /\ lock' = Nobody
      /\ at' = [x \in Exporters |-> "idle"] /\ known' = [x \in Exporters |-> {}]
      /\ todo' = [x \in Exporters |-> {}] /\ event' = [x \in Exporters |-> NoEvent]
      /\ stops' = stops
  BY DEF FollowTarget
<1>3. /\ rows' \in Tables /\ file' \in Seq(Events) /\ leaves' \subseteq Blobs
  BY <1>1, <1>2 DEF Copies
<1>4. /\ Lines(bundle.lines) = RowsIn(bundle.rows)
      /\ \A i, j \in DOMAIN bundle.lines : bundle.lines[i] = bundle.lines[j] => i = j
  BY <1>1, LogOfTable
<1>5. TypeOK'
  BY <1>2, <1>3 DEF BackupInv, TypeOK, Tables, Places
<1>6. IsFiniteSet(RowsIn(rows)')
  <2>1. IsFiniteSet(RowsIn(target.rows))
    BY <1>1, NoRowsIsEmpty, FS_EmptySet
  <2>2. RowsIn(rows)' = RowsIn(target.rows)
    BY <1>2 DEF RowsIn
  <2> QED BY <2>1, <2>2
<1>7. OncePerEvent'
  BY <1>1, <1>2, <1>4 DEF OncePerEvent
<1>8. OnlyCommitted'
  <2>1. Lines(target.lines) \subseteq RowsIn(target.rows)
    <3>1. CASE target.lines = <<>>
      BY <3>1 DEF Lines
    <3>2. CASE target.lines = bundle.lines /\ target.rows = bundle.rows
      BY <1>4, <3>2
    <3> QED BY <1>1, <3>1, <3>2
  <2> QED BY <1>2, <2>1 DEF OnlyCommitted, RowsIn, Lines
<1>9. OneHolder' /\ HolderIsRight' /\ NobodyElseDelivers'
  BY <1>2 DEF OneHolder, HolderIsRight, NobodyElseDelivers
<1>10. ASSUME target.rows = bundle.rows, target.lines = bundle.lines
       PROVE  DurableInv'
  <2>1. \A e \in Events : rows'[e] = "delivered" => e \in Lines(file')
    BY <1>2, <1>4, <1>10 DEF RowsIn
  <2>2. DeliveredIsInFile'
    BY <2>1 DEF DeliveredIsInFile, Lines
  <2>3. DOMAIN file' = 1..synced'
    BY <1>2, <1>3
  <2>4. \A e \in Events : rows'[e] = "delivered" => \E i \in 1..synced' : file'[i] = e
    BY <2>1, <2>3 DEF Lines
  <2>5. synced' = Len(file')
    BY <1>2
  <2> QED BY <2>2, <2>4, <2>5 DEF DurableInv, SyncedBeforeMark
<1> QED BY <1>3, <1>5, <1>6, <1>7, <1>8, <1>9, <1>10 DEF OutboxInv

\* What only the backup and restore variables say, over a step at work.
LEMMA WorkStep ==
    ASSUME BackupInv,
           \/ \E e \in Events : CommitSource(e)
           \/ \E x \in Exporters : Export(x)
           \/ LosePower
    PROVE  BackupInv'
<1>1. Next /\ UNCHANGED <<leaves, draft, bundle, root, target, restorer, half>>
  BY AtWork
<1>2. TypeOK /\ OutboxInv /\ IsFiniteSet(RowsIn(rows))
  BY DEF BackupInv
<1>3. TypeOK'
  BY <1>1, <1>2, TypeStep
<1>4. OutboxInv'
  BY <1>1, <1>2, <1>3, InvStep
<1>5. IsFiniteSet(RowsIn(rows))'
  <2>1. ASSUME NEW e \in Events, CommitSource(e) PROVE RowsIn(rows') = RowsIn(rows) \cup {e}
    BY <1>2, <2>1 DEF CommitSource, Commit, RowsIn, TypeOK
  <2>2. \A e \in Events : IsFiniteSet(RowsIn(rows) \cup {e})
    BY <1>2, FS_AddElement
  <2>3. IsFiniteSet(RowsIn(rows'))
    <3>1. CASE \E e \in Events : CommitSource(e)
      BY <2>1, <2>2, <3>1
    <3>2. CASE (\E x \in Exporters : Export(x)) \/ LosePower
      BY <1>2, <3>2, RowsStep
    <3> QED BY <3>1, <3>2
  <2>4. RowsIn(rows)' = RowsIn(rows')
    BY DEF RowsIn
  <2> QED BY <2>3, <2>4
<1>6. UNCHANGED <<BackupTypeOK, OneRestorer, TargetIsPart>>
  BY <1>1 DEF BackupTypeOK, OneRestorer, TargetIsPart
<1>7. BundleIsSound' /\ DraftIsACut'
  BY <1>1 DEF BackupInv, BundleIsSound, DraftIsACut, RowsIn, BlobsIn, EventLogOf, NumberOf, Verified
<1> QED BY <1>3, <1>4, <1>5, <1>6, <1>7 DEF BackupInv

\* The steps of a backup: the cut stays the cut it was.
LEMMA DraftStep ==
    ASSUME BackupInv,
           \/ \E b \in Blobs : StoreBlob(b) \/ CopyBlob(b)
           \/ CopyDatabase \/ WriteEvents \/ PublishBundle \/ StopBackup
    PROVE  BackupInv'
<1>0. UNCHANGED <<vars, root, target, restorer, half>>
  BY DEF StoreBlob, CopyBlob, CopyDatabase, WriteEvents, PublishBundle, StopBackup, restoreVars
<1>1. TypeOK' /\ OutboxInv' /\ IsFiniteSet(RowsIn(rows))' /\ OneRestorer'
  BY <1>0 DEF vars, BackupInv, TypeOK, OutboxInv, OneHolder, HolderIsRight, OnlyCommitted,
              OncePerEvent, NobodyElseDelivers, Lines, Pending, RowsIn, OneRestorer
<1>2. BackupTypeOK'
  BY <1>0 DEF BackupInv, BackupTypeOK, StoreBlob, CopyBlob, CopyDatabase, WriteEvents,
              PublishBundle, StopBackup
<1>3. ASSUME NEW b \in Blobs, StoreBlob(b)
      PROVE  DraftIsACut' /\ BundleIsSound' /\ TargetIsPart'
  BY <1>3 DEF StoreBlob, restoreVars, BackupInv, DraftIsACut, BundleIsSound, TargetIsPart, RowsIn, BlobsIn,
              EventLogOf, NumberOf, Verified
<1>4. ASSUME NEW b \in Blobs, CopyBlob(b)
      PROVE  DraftIsACut' /\ BundleIsSound' /\ TargetIsPart'
  <2>1. draft \in Drafts /\ draft' = [draft EXCEPT !.blobs = @ \cup {b}] /\ draft # NoBundle
    BY <1>4 DEF CopyBlob, BackupInv, DraftIsACut
  <2>2. /\ draft' \in Drafts /\ draft'.at = draft.at /\ draft'.rows = draft.rows
        /\ draft'.lines = draft.lines /\ draft'.blobs = draft.blobs \cup {b}
    BY <2>1 DEF Drafts
  <2>3. b \in BlobsIn(draft.rows) /\ bundle' = bundle
    BY <1>4 DEF CopyBlob, BlobsToKeep
  <2>4. DraftIsACut'
    BY <2>1, <2>2, <2>3 DEF BackupInv, DraftIsACut
  <2> QED BY <1>0, <2>3, <2>4 DEF BackupInv, BundleIsSound, TargetIsPart, Verified
<1>5. ASSUME CopyDatabase
      PROVE  DraftIsACut' /\ BundleIsSound' /\ TargetIsPart'
  <2>1. /\ draft' = [at |-> "copied", rows |-> rows, lines |-> <<>>, blobs |-> {}]
        /\ bundle' = bundle /\ bundle = NoBundle
    BY <1>5 DEF CopyDatabase
  <2>2. draft' \in Drafts /\ draft'.rows = rows /\ draft'.blobs = {} /\ draft'.at = "copied"
    BY <2>1 DEF Drafts, Tables, BackupInv, TypeOK
  <2>3. DraftIsACut'
    BY <2>1, <2>2 DEF BackupInv, DraftIsACut
  <2> QED BY <1>0, <2>1, <2>3 DEF BackupInv, BundleIsSound, TargetIsPart, Verified
<1>6. ASSUME WriteEvents
      PROVE  DraftIsACut' /\ BundleIsSound' /\ TargetIsPart'
  <2>1. /\ draft' = [draft EXCEPT !.at = "logged", !.lines = EventLogOf(draft.rows)]
        /\ bundle' = bundle /\ draft # NoBundle /\ draft \in Drafts
    BY <1>6 DEF WriteEvents, LogToKeep, BackupInv, DraftIsACut
  <2>2. EventLogOf(draft.rows) \in Seq(Events)
    BY <2>1, LogOfTable DEF BackupInv, DraftIsACut
  <2>3. /\ draft' \in Drafts /\ draft'.rows = draft.rows /\ draft'.blobs = draft.blobs
        /\ draft'.lines = EventLogOf(draft.rows)
    BY <2>1, <2>2 DEF Drafts
  <2>4. DraftIsACut'
    BY <2>1, <2>3 DEF BackupInv, DraftIsACut
  <2> QED BY <1>0, <2>1, <2>4 DEF BackupInv, BundleIsSound, TargetIsPart, Verified
<1>7. ASSUME PublishBundle
      PROVE  DraftIsACut' /\ BundleIsSound' /\ TargetIsPart'
  <2>1. /\ bundle' = [rows |-> draft.rows, lines |-> draft.lines, blobs |-> draft.blobs]
        /\ draft' = NoBundle /\ draft # NoBundle /\ draft.at = "logged"
        /\ BlobsIn(draft.rows) \subseteq draft.blobs
    BY <1>7 DEF PublishBundle, BlobsToKeep
  <2>2. /\ draft \in Drafts /\ bundle = NoBundle /\ IsFiniteSet(RowsIn(draft.rows))
        /\ draft.blobs = BlobsIn(draft.rows) /\ draft.lines = EventLogOf(draft.rows)
    BY <2>1 DEF BackupInv, DraftIsACut
  <2>3. /\ bundle' \in Copies /\ bundle'.rows = draft.rows /\ bundle'.lines = draft.lines
        /\ bundle'.blobs = draft.blobs
    BY <2>1, <2>2 DEF Drafts, Copies
  <2>4. BundleIsSound' /\ DraftIsACut'
    BY <2>1, <2>2, <2>3 DEF BundleIsSound, DraftIsACut, Verified
  <2>5. root # "made" /\ \A r \in Restorers : restorer[r] # "make" /\ restorer[r] \notin Restoring
    BY <2>2 DEF BackupInv, TargetIsPart, OneRestorer
  <2>6. TargetIsPart'
    BY <1>0, <2>5 DEF TargetIsPart, Restoring
  <2> QED BY <2>4, <2>6
<1>8. ASSUME StopBackup
      PROVE  DraftIsACut' /\ BundleIsSound' /\ TargetIsPart'
  BY <1>0, <1>8 DEF StopBackup, BackupInv, DraftIsACut, BundleIsSound, TargetIsPart, Verified
<1> QED BY <1>1, <1>2, <1>3, <1>4, <1>5, <1>6, <1>7, <1>8 DEF BackupInv

\* The steps of a restore: only the call that made the root fills or removes it.
LEMMA RestoreStep ==
    ASSUME BackupInv, NEW r \in Restorers,
           \/ BeginRestore(r) \/ MakeRoot(r) \/ LoseRace(r)
           \/ RestoreDatabase(r) \/ RestoreEvents(r)
           \/ FailRestore(r) \/ KillRestore(r)
           \/ \E b \in Blobs : RestoreBlob(r, b)
    PROVE  BackupInv' /\ UNCHANGED <<vars, leaves, half>> /\ (root = "open" => root' = "open")
<1> USE DEF RestorerAt, RestorePlaces, Restoring
<1>0. UNCHANGED <<vars, leaves, draft, bundle, half>>
  BY DEF BeginRestore, MakeRoot, LoseRace, RestoreDatabase, RestoreEvents, FailRestore,
         KillRestore, RestoreBlob, bundleVars
<1>1. TypeOK' /\ OutboxInv' /\ IsFiniteSet(RowsIn(rows))'
  BY <1>0 DEF vars, BackupInv, TypeOK, OutboxInv, OneHolder, HolderIsRight, OnlyCommitted,
              OncePerEvent, NobodyElseDelivers, Lines, Pending, RowsIn
<1>2. DraftIsACut' /\ BundleIsSound'
  BY <1>0 DEF BackupInv, DraftIsACut, BundleIsSound, Verified
<1>3. restorer \in [Restorers -> RestorePlaces]
  BY DEF BackupInv, BackupTypeOK
<1> DEFINE Kept == BackupTypeOK' /\ OneRestorer' /\ TargetIsPart' /\ (root = "open" => root' = "open")
<1> USE DEF BackupInv, BackupTypeOK, OneRestorer, TargetIsPart
<1>4. ASSUME BeginRestore(r) PROVE Kept
  BY <1>0, <1>3, <1>4 DEF BeginRestore
<1>5. ASSUME MakeRoot(r) PROVE Kept
  <2>1. /\ target' = EmptyCopy /\ root' = "made" /\ root = "none" /\ restorer[r] = "make"
        /\ restorer' = [restorer EXCEPT ![r] = "database"]
    BY <1>5 DEF MakeRoot
  <2>2. target' \in Copies /\ target'.rows = NoRows /\ target'.lines = <<>>
    BY <2>1, NoRowsIsEmpty DEF EmptyCopy, Copies
  <2> QED BY <1>0, <1>3, <2>1, <2>2
<1>6. ASSUME LoseRace(r) PROVE Kept
  BY <1>0, <1>3, <1>6 DEF LoseRace, CleanUp, RemovesRoot
<1>7. ASSUME RestoreDatabase(r) PROVE Kept
  <2>1. /\ root' = "made" /\ root = "made" /\ restorer[r] = "database"
        /\ restorer' = [restorer EXCEPT ![r] = "events"]
        /\ target' = [target EXCEPT !.rows = bundle.rows]
    BY <1>7 DEF RestoreDatabase, Building
  <2>2. bundle.rows \in Tables /\ bundle # NoBundle
    BY <2>1 DEF BundleIsSound, Copies
  <2>3. target' \in Copies /\ target'.rows = bundle.rows /\ target'.lines = target.lines
    BY <2>1, <2>2 DEF Copies
  <2> QED BY <1>0, <1>3, <2>1, <2>2, <2>3
<1>8. ASSUME RestoreEvents(r) PROVE Kept
  <2>1. /\ root' = "made" /\ root = "made" /\ restorer[r] = "events"
        /\ restorer' = [restorer EXCEPT ![r] = "blobs"]
        /\ target' = [target EXCEPT !.lines = bundle.lines]
    BY <1>8 DEF RestoreEvents, Building, RestoredLog
  <2>2. bundle.lines \in Seq(Events) /\ bundle # NoBundle /\ target.rows = bundle.rows
    BY <2>1 DEF BundleIsSound, Copies
  <2>3. target' \in Copies /\ target'.rows = bundle.rows /\ target'.lines = bundle.lines
    BY <2>1, <2>2 DEF Copies
  <2> QED BY <1>0, <1>3, <2>1, <2>2, <2>3
<1>9. ASSUME NEW b \in Blobs, RestoreBlob(r, b) PROVE Kept
  <2>1. /\ root' = "made" /\ root = "made" /\ restorer' = restorer
        /\ target' = [target EXCEPT !.blobs = @ \cup {b}]
    BY <1>9 DEF RestoreBlob, Building
  <2>2. target' \in Copies /\ target'.rows = target.rows /\ target'.lines = target.lines
    BY <2>1 DEF Copies
  <2> QED BY <1>0, <1>3, <2>1, <2>2
<1>10. ASSUME FailRestore(r) PROVE Kept
  BY <1>0, <1>3, <1>10 DEF FailRestore, CleanUp, RemovesRoot
<1>11. ASSUME KillRestore(r) PROVE Kept
  BY <1>0, <1>3, <1>11 DEF KillRestore
<1>12. Kept
  BY <1>4, <1>5, <1>6, <1>7, <1>8, <1>9, <1>10, <1>11
<1> QED BY <1>0, <1>1, <1>2, <1>12

\* A root is opened once, by the restorer that filled it or after it was killed.
LEMMA OpenStep ==
    ASSUME BackupInv, (\E r \in Restorers : ReturnRestored(r)) \/ OpenLeftOver
    PROVE  BackupInv' /\ root = "made"
<1>1. FollowTarget /\ root = "made"
  BY DEF ReturnRestored, OpenLeftOver, Building
<1>2. TypeOK' /\ OutboxInv' /\ IsFiniteSet(RowsIn(rows))' /\ leaves' \subseteq Blobs
  <2>1. IsFiniteSet(RowsIn(rows)')
    BY <1>1, OpeningStep
  <2> QED BY <1>1, <2>1, OpeningStep
<1>3. UNCHANGED <<draft, bundle, target>> /\ root' = "open" /\ bundle # NoBundle
  BY <1>1 DEF ReturnRestored, OpenLeftOver, FollowTarget, BackupInv, TargetIsPart
<1>4. DraftIsACut' /\ BundleIsSound'
  BY <1>3 DEF BackupInv, DraftIsACut, BundleIsSound, Verified
<1>5. ASSUME NEW r \in Restorers, ReturnRestored(r)
      PROVE  BackupTypeOK' /\ OneRestorer' /\ TargetIsPart'
  BY <1>2, <1>3, <1>5 DEF ReturnRestored, RestorerAt, Building, BackupInv, BackupTypeOK, OneRestorer,
                          TargetIsPart, Restoring, RestorePlaces
<1>6. ASSUME OpenLeftOver PROVE BackupTypeOK' /\ OneRestorer' /\ TargetIsPart'
  BY <1>2, <1>3, <1>6 DEF OpenLeftOver, BackupInv, BackupTypeOK, OneRestorer, TargetIsPart
<1> QED BY <1>1, <1>2, <1>4, <1>5, <1>6 DEF BackupInv

LEMMA BackupStep == ASSUME BackupInv, [BackupNext]_allVars PROVE BackupInv'
<1>1. ASSUME UNCHANGED allVars PROVE BackupInv'
  <2>1. UNCHANGED <<vars, leaves, draft, bundle, root, target, restorer, half>>
    BY <1>1 DEF allVars, bundleVars, restoreVars
  <2>2. TypeOK' /\ OutboxInv' /\ IsFiniteSet(RowsIn(rows))' /\ OneRestorer'
    BY <2>1 DEF vars, BackupInv, TypeOK, OutboxInv, OneHolder, HolderIsRight, OnlyCommitted,
                OncePerEvent, NobodyElseDelivers, Lines, Pending, RowsIn, OneRestorer
  <2>3. DraftIsACut' /\ BundleIsSound' /\ TargetIsPart' /\ BackupTypeOK'
    BY <2>1 DEF BackupInv, DraftIsACut, BundleIsSound, TargetIsPart, BackupTypeOK, Verified
  <2> QED BY <2>2, <2>3 DEF BackupInv
<1> QED BY <1>1, WorkStep, DraftStep, RestoreStep, OpenStep DEF BackupNext

\* What a Library in use lacks after a step, it lacked before or a killed
\* restore had left it behind.
LEMMA LibraryStep ==
    ASSUME RetryIsSafe, BackupInv, LibraryInv, [BackupNext]_allVars
    PROVE  LibraryInv'
<1>0. BackupInv'
  BY BackupStep
<1>1. TypeOK /\ TypeOK' /\ OutboxInv
  BY <1>0 DEF BackupInv
<1>2. ASSUME UNCHANGED <<vars, half>>, leaves \subseteq leaves' PROVE LibraryInv'
  BY <1>2 DEF vars, LibraryInv, DurableInv, SyncedBeforeMark, DeliveredIsInFile, BlobsIn, RowsIn, Lines
<1>3. ASSUME \/ \E b \in Blobs : StoreBlob(b) \/ CopyBlob(b)
             \/ CopyDatabase \/ WriteEvents \/ PublishBundle \/ StopBackup
      PROVE  LibraryInv'
  BY <1>2, <1>3 DEF StoreBlob, CopyBlob, CopyDatabase, WriteEvents, PublishBundle, StopBackup,
                    restoreVars
<1>4. ASSUME NEW r \in Restorers,
             \/ BeginRestore(r) \/ MakeRoot(r) \/ LoseRace(r)
             \/ RestoreDatabase(r) \/ RestoreEvents(r)
             \/ FailRestore(r) \/ KillRestore(r)
             \/ \E b \in Blobs : RestoreBlob(r, b)
      PROVE  LibraryInv'
  BY <1>2, <1>4, RestoreStep
<1>5. ASSUME (\E x \in Exporters : Export(x)) \/ LosePower PROVE LibraryInv'
  <2>1. Next /\ UNCHANGED <<leaves, half>> /\ RowsIn(rows') = RowsIn(rows)
    BY <1>1, <1>5, AtWork, RowsStep
  <2>2. BlobsIn(rows)' = BlobsIn(rows)
    BY <2>1 DEF BlobsIn
  <2>3. DurableInv => DurableInv'
    BY <1>1, <2>1, DurableStep
  <2> QED BY <2>1, <2>2, <2>3 DEF LibraryInv
<1>6. ASSUME NEW e \in Events, CommitSource(e) PROVE LibraryInv'
  <2>1. Next /\ UNCHANGED <<leaves, half>> /\ BlobsOf[e] \subseteq leaves
    BY <1>6, AtWork DEF CommitSource
  <2>2. RowsIn(rows') = RowsIn(rows) \cup {e}
    BY <1>1, <1>6 DEF CommitSource, Commit, RowsIn, TypeOK
  <2>3. BlobsIn(rows) \subseteq leaves => BlobsIn(rows') \subseteq leaves
    BY <2>1, <2>2 DEF BlobsIn
  <2>4. DurableInv => DurableInv'
    BY <1>1, <2>1, DurableStep
  <2> QED BY <2>1, <2>3, <2>4 DEF LibraryInv, BlobsIn
<1>7. ASSUME NEW r \in Restorers, ReturnRestored(r) PROVE LibraryInv'
  <2>1. /\ FollowTarget /\ root = "made" /\ target.rows = bundle.rows /\ Verified(target)
        /\ Verified(bundle)
    BY <1>7 DEF ReturnRestored, Building, BackupInv, BundleIsSound, TargetIsPart
  <2>2. target.lines = bundle.lines
    BY <2>1 DEF Verified
  <2>3. DurableInv'
    BY <2>1, <2>2, OpeningStep
  <2>4. BlobsIn(rows)' \subseteq leaves'
    BY <2>1 DEF FollowTarget, Verified, BlobsIn, RowsIn
  <2> QED BY <2>3, <2>4 DEF LibraryInv
<1>8. ASSUME OpenLeftOver PROVE LibraryInv'
  BY <1>8 DEF OpenLeftOver, LibraryInv
<1>9. ASSUME UNCHANGED allVars PROVE LibraryInv'
  BY <1>2, <1>9 DEF allVars, bundleVars, restoreVars
<1> QED BY <1>3, <1>4, <1>5, <1>6, <1>7, <1>8, <1>9 DEF BackupNext

\* The invariant holds in every reachable state of a backup and its restores.
THEOREM BackupCorrect == BackupSpec => []BackupInv
<1>1. BackupInit => BackupInv
  BY BackupStarts
<1>2. BackupInv /\ [BackupNext]_allVars => BackupInv'
  BY BackupStep
<1> QED BY <1>1, <1>2, PTL DEF BackupSpec

\* A published bundle has each event of its own database copy on one line of
\* its log and exactly the blobs its rows name, whatever was committed,
\* exported or lost while it was made.
THEOREM BundlesAreClosed == BackupSpec => []BundleIsClosed
<1>1. BackupInv => BundleIsClosed
  BY DEF BackupInv, BundleIsSound, BundleIsClosed
<1> QED BY <1>1, BackupCorrect, PTL

\* The Library in use never has an event on two lines; what it calls delivered
\* is in its file and what its rows name is in its store, before a restore and
\* after it, unless it was opened after the restore that made it was killed.
THEOREM LibraryStaysWhole == ASSUME RetryIsSafe PROVE BackupSpec => []LibraryIsWhole
<1>1. BackupInit => LibraryInv
  BY BackupStarts
<1>2. BackupInv /\ LibraryInv /\ [BackupNext]_allVars => LibraryInv'
  BY LibraryStep
<1>3. BackupInv /\ LibraryInv => LibraryIsWhole
  BY DEF BackupInv, OutboxInv, LibraryInv, DurableInv, LibraryIsWhole
<1> QED BY <1>1, <1>2, <1>3, BackupCorrect, PTL DEF BackupSpec

\* Neither a restorer that loses the race for the root nor one that fails
\* removes a Library that another restore has opened.
THEOREM OpenedLibrariesStay == BackupSpec => OpenedStays
<1>1. ASSUME BackupInv, [BackupNext]_allVars
      PROVE  [root = "open" => root' = "open" /\ half' = half]_allVars
  <2>1. ASSUME \/ \E e \in Events : CommitSource(e)
               \/ \E x \in Exporters : Export(x)
               \/ LosePower
        PROVE  root' = root /\ half' = half
    BY <2>1, AtWork
  <2>2. ASSUME \/ \E b \in Blobs : StoreBlob(b) \/ CopyBlob(b)
               \/ CopyDatabase \/ WriteEvents \/ PublishBundle \/ StopBackup
        PROVE  root' = root /\ half' = half
    BY <2>2 DEF StoreBlob, CopyBlob, CopyDatabase, WriteEvents, PublishBundle, StopBackup, restoreVars
  <2> QED BY <1>1, <2>1, <2>2, RestoreStep, OpenStep DEF BackupNext
<1> QED BY <1>1, BackupCorrect, PTL DEF BackupSpec, OpenedStays
====
