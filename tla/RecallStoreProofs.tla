---- MODULE RecallStoreProofs ----
(***************************************************************************)
(* Proofs about RecallStore, and about Structure and Preparation, which    *)
(* read through it, for every set of Collections, Sources, terms,          *)
(* questions, code versions and sessions and any number of runs: stored    *)
(* packets stay readable, the reduced checks suffice, only what the        *)
(* snapshot and the policy permit is read, sections stay whole and         *)
(* readable, a preparation computes again as it was, and a draft cites     *)
(* enough permitted passages and none to spare.                            *)
(*                                                                         *)
(* The argument: every packet a run holds is the function of its request   *)
(* and its code that Assemble and Prepare define (Good), a scope session   *)
(* and its cache entry hold the prepared corpus of their scope, and        *)
(* nothing the Library does later changes a frozen snapshot.  A unit row   *)
(* belongs to one generation, whose units are natural sections; and a      *)
(* preparation is the function of its packet that a protected read of the  *)
(* packet's scope determines.  Coverage grows with passages, so one pass   *)
(* of the compaction leaves nothing that could be spared.                  *)
(***************************************************************************)
EXTENDS Structure, Preparation, FiniteSetTheorems, WellFoundedInduction, TLAPS

\* The members of a snapshot are pairs that start with one of its Collections.
Formed(snapshot) == \A m \in snapshot.members : m = <<m[1], m[2]>> /\ m[1] \in snapshot.scope

\* The packet that its request and its code determine.
Good(p) ==
    /\ Formed(p.request.snapshot)
    /\ p = Assemble(p.request, p.code, Prepare(Scope(p.request)))

\* What a scope session keeps, and what its cache entry does.
IsPrepared(s) == s = Prepare(s.scope) /\ Formed(s.scope.snapshot)

EntrySound(e) ==
    /\ e.access = Prepare(e.scope)
    /\ e.read = e.access.permitted
    /\ e.processed = Cardinality(e.read)

LEMMA AssembleIsGood ==
    ASSUME NEW request, NEW version, Formed(request.snapshot)
    PROVE  LET p == Assemble(request, version, Prepare(Scope(request)))
           IN Good(p) /\ p.request = request /\ p.code = version
  BY DEF Good, Assemble, Retrieved

LEMMA GoodFacts ==
    ASSUME NEW p, Good(p)
    PROVE  /\ p.access = Prepare(Scope(p.request))
           /\ p.read = p.access.permitted
           /\ p.coverage.omission = p.access.omission
           /\ p.coverage.processed = Cardinality(p.read)
           /\ p.trace \subseteq p.read
           /\ FullClosure(p, p.request, p.code)
  <1> DEFINE c == Prepare(Scope(p.request))
             a == Assemble(p.request, p.code, c)
  <1>1. /\ a.access = c /\ a.read = c.permitted
        /\ a.coverage.omission = c.omission
        /\ a.coverage.processed = Cardinality(c.permitted)
        /\ a.trace \subseteq c.permitted
    BY DEF Assemble, Retrieved
  <1>2. p = a
    BY DEF Good
  <1> HIDE DEF a, c
  <1>3. /\ p.access = c /\ p.read = p.access.permitted
        /\ p.coverage.omission = p.access.omission
        /\ p.coverage.processed = Cardinality(p.read)
        /\ p.trace \subseteq p.read
    BY <1>1, <1>2
  <1> QED BY <1>3 DEF FullClosure, c

\* Any packet that passes the full closure is the one at hand of its scope.
LEMMA PreparedFacts ==
    ASSUME NEW scope
    PROVE  /\ Prepare(scope).scope = scope
           /\ Prepare(scope).permitted = Compile(scope.snapshot, scope.terms).permitted
  BY DEF Prepare, PreparedCorpus

----------------------------------------------------------------------------
(* The invariant *)

WorldInv == \A snapshot \in snapshots : Formed(snapshot)

SessionInv ==
    /\ session = [k \in Sessions |-> session[k]]
    /\ \A k \in Sessions : session[k] # None => IsPrepared(session[k])

IsSeq(q) == q \in Seq({q[i] : i \in DOMAIN q})

CacheInv ==
    /\ IsSeq(cache)
    /\ \A i \in DOMAIN cache : EntrySound(cache[i].entry) /\ cache[i].entry.read \in readSets

\* The row of a run that was begun has all its fields.
IsRow(x) ==
    x = [status |-> x.status, kind |-> x.kind, request |-> x.request, code |-> x.code,
         packet |-> x.packet, via |-> x.via, batch |-> x.batch]

\* A run in hand or completed holds the packet of its request and code.
Holds(runs, r) ==
    /\ IsRow(runs[r])
    /\ Good(runs[r].packet)
    /\ runs[r].request = runs[r].packet.request
    /\ runs[r].code = runs[r].packet.code

\* The runs of a batch are in hand together.
BatchHolds(r) ==
    /\ r \in run[r].batch /\ run[r].batch \subseteq Runs
    /\ run[r].via # None => run[r].batch = {r}
    /\ \A q \in run[r].batch : InHand(q) /\ run[q].batch = run[r].batch

RunInv ==
    /\ run = [r \in Runs |-> run[r]]
    /\ \A r \in Runs : InHand(r) => Holds(run, r) /\ BatchHolds(r)
    /\ \A r \in Runs : run[r].status = "succeeded" => Holds(run, r)

\* A receipt is the receipt of the packet of the run that wrote it first.
ReceiptInv ==
    \A row \in receipts :
        /\ row.first \in Runs
        /\ run[row.first].status = "succeeded"
        /\ row.content \in ReceiptsOf(run[row.first].packet)

PacketInv ==
    \A p \in packets :
        /\ \E r \in Runs : run[r].status = "succeeded" /\ run[r].packet = p
        /\ p.read \in readSets
        /\ \A content \in ReceiptsOf(p) : \E row \in receipts : row.content = content

IInv == WorldInv /\ SessionInv /\ CacheInv /\ RunInv /\ ReceiptInv /\ PacketInv

LEMMA InitHolds == RecallAssumption /\ Init => IInv
  <1> SUFFICES ASSUME RecallAssumption, Init PROVE IInv
    OBVIOUS
  <1>1. cache = <<>> /\ DOMAIN cache = {}
    BY DEF Init
  <1>2. IsSeq(cache)
    BY <1>1 DEF IsSeq
  <1>3. CacheInv
    BY <1>1, <1>2 DEF CacheInv
  <1>4. SessionInv /\ WorldInv
    BY DEF SessionInv, WorldInv, Init
  <1>5. RunInv
    BY DEF RunInv, Init, NoRun, InHand
  <1>6. ReceiptInv /\ PacketInv
    BY DEF ReceiptInv, PacketInv, Init
  <1> QED BY <1>3, <1>4, <1>5, <1>6 DEF IInv

----------------------------------------------------------------------------
(* The properties follow *)

LEMMA ReadIsPermitted ==
    ASSUME NEW p, Good(p), NEW f \in p.read
    PROVE  /\ \E m \in p.request.snapshot.members : m[2] = f
           /\ \A m \in p.request.snapshot.members :
                 m[2] = f => m[1] \in p.request.terms.allowed \ Holdouts
           /\ f[1] \notin p.request.terms.denied
           /\ {f[1], Family[f[1]]} \cap p.request.terms.excluded = {}
  <1> DEFINE sn == p.request.snapshot
             tm == p.request.terms
             held == MembershipsOf(sn, f)
  <1>1. f \in Compile(sn, tm).permitted
    <2>1. Scope(p.request).snapshot = sn /\ Scope(p.request).terms = tm
      BY DEF Scope
    <2>2. Compile(Scope(p.request).snapshot, Scope(p.request).terms) = Compile(sn, tm)
      BY <2>1
    <2>3. p.read = Prepare(Scope(p.request)).permitted
      BY GoodFacts
    <2> HIDE DEF sn, tm
    <2> QED BY <2>2, <2>3, PreparedFacts
  <1>2. /\ held # {} /\ held \cap Holdouts = {}
        /\ {f[1], Family[f[1]]} \cap tm.excluded = {}
        /\ held \subseteq tm.allowed /\ f[1] \notin tm.denied
    BY <1>1 DEF Compile, Allows
  <1>3. \A m \in sn.members : m[2] = f => m[1] \in held
    BY DEF Good, Formed, MembershipsOf, SnapshotMembers
  <1>4. \E m \in sn.members : m[2] = f
    BY <1>2 DEF MembershipsOf, SnapshotMembers
  <1> QED BY <1>2, <1>3, <1>4

LEMMA InvPermits == IInv => OnlyPermittedIsRead
  <1> SUFFICES ASSUME IInv,
                      NEW row \in receipts, row.content.type = "read",
                      NEW f \in row.content.items
               PROVE  LET request == row.content.request
                      IN /\ \E m \in request.snapshot.members : m[2] = f
                         /\ \A m \in request.snapshot.members :
                               m[2] = f => m[1] \in request.terms.allowed \ Holdouts
                         /\ f[1] \notin request.terms.denied
                         /\ {f[1], Family[f[1]]} \cap request.terms.excluded = {}
    BY DEF OnlyPermittedIsRead
  <1> DEFINE p == run[row.first].packet
  <1>1. Good(p) /\ row.content \in ReceiptsOf(p)
    BY DEF IInv, ReceiptInv, RunInv, Holds
  <1>2. row.content.items = p.read /\ row.content.request = p.request
    BY <1>1 DEF ReceiptsOf, CoverageReceipt, ReadReceipt, AccessReceipt, RetrievalReceipt
  <1> HIDE DEF p
  <1> QED BY <1>1, <1>2, ReadIsPermitted

LEMMA InvReads == IInv => PacketsStayReadable
  <1> SUFFICES ASSUME IInv, NEW p \in packets
               PROVE  Loads(p) /\ Assemble(p.request, p.code, Prepare(Scope(p.request))) = p
    BY DEF PacketsStayReadable
  <1>1. PICK r \in Runs : run[r].status = "succeeded" /\ run[r].packet = p
    BY DEF IInv, PacketInv
  <1>2. Good(p)
    BY <1>1 DEF IInv, RunInv, Holds
  <1>3. LinksOf(p) # {} /\ \A q \in LinksOf(p) : run[q].request = p.request /\ run[q].code = p.code
    BY <1>1 DEF LinksOf, IInv, RunInv, Holds
  <1>4. \A content \in ReceiptsOf(p) : LoadsReceipt(content)
    <2> SUFFICES ASSUME NEW content \in ReceiptsOf(p) PROVE LoadsReceipt(content)
      OBVIOUS
    <2>1. PICK row \in receipts : row.content = content
      BY DEF IInv, PacketInv
    <2> DEFINE w == run[row.first].packet
    <2>2. /\ content \in ReceiptsOf(w)
          /\ run[row.first].request = w.request /\ run[row.first].code = w.code
      BY <2>1 DEF IInv, ReceiptInv, RunInv, Holds
    <2>3. content.request = w.request /\ (content.type = "retrieval" => content.code = w.code)
      BY <2>2 DEF ReceiptsOf, CoverageReceipt, ReadReceipt, AccessReceipt, RetrievalReceipt
    <2> QED BY <2>1, <2>2, <2>3 DEF LoadsReceipt, FirstRunCloses, CodeAgrees
  <1>5. HasReadSet(p.read)
    BY DEF IInv, PacketInv, HasReadSet
  <1>6. \A q \in LinksOf(p) : FullClosure(p, p.request, run[q].code)
    BY <1>2, <1>3, GoodFacts
  <1>7. Loads(p)
    BY <1>3, <1>4, <1>5, <1>6 DEF Loads, LoadsRequest
  <1> QED BY <1>2, <1>7 DEF Good

LEMMA InvSuffices == IInv => ReducedChecksSuffice
  <1> SUFFICES ASSUME IInv PROVE ReducedChecksSuffice
    OBVIOUS
  <1>1. \A i \in DOMAIN cache : cache[i].entry.read \in readSets
    BY DEF IInv, CacheInv
  <1>2. ASSUME NEW p, NEW request, NEW i \in DOMAIN cache,
               CachedClosure(p, request, code, cache[i].entry)
        PROVE  FullClosure(p, request, code)
    <2> DEFINE e == cache[i].entry
    <2>1. EntrySound(e) /\ Scope(request) = e.scope
      BY <1>2 DEF IInv, CacheInv, CachedClosure, SameScope
    <2> HIDE DEF e
    <2>2. CachedClosure(p, request, code, e)
      BY <1>2 DEF e
    <2> QED BY <2>1, <2>2 DEF CachedClosure, FullClosure, EntrySound
  <1>3. ASSUME NEW p, NEW request, NEW r \in Runs, InHand(r),
               BatchClosure(p, request, code, run[r].packet)
        PROVE  FullClosure(p, request, code)
    <2> DEFINE g == run[r].packet
    <2>1. Good(g)
      BY <1>3 DEF IInv, RunInv, Holds
    <2>2. BatchClosure(p, request, code, g)
      BY <1>3
    <2> HIDE DEF g
    <2>3. Scope(request) = Scope(g.request)
      BY <2>2 DEF BatchClosure, SameScope
    <2> QED BY <2>1, <2>2, <2>3, GoodFacts DEF BatchClosure, FullClosure
  <1> QED BY <1>1, <1>2, <1>3 DEF ReducedChecksSuffice

----------------------------------------------------------------------------
(* The steps that write no packet *)

LEMMA IngestKeeps ==
    ASSUME IInv, UNCHANGED <<snapshots, process, store>>
    PROVE  IInv'
  <1>1. UNCHANGED <<snapshots, session, cache, run, receipts, readSets, packets>>
    BY DEF process, store
  <1>2. RunInv'
    BY <1>1 DEF IInv, RunInv, Holds, BatchHolds, InHand
  <1>3. PacketInv' /\ ReceiptInv'
    BY <1>1 DEF IInv, PacketInv, ReceiptInv
  <1>4. WorldInv' /\ SessionInv' /\ CacheInv'
    BY <1>1 DEF IInv, WorldInv, SessionInv, CacheInv
  <1> QED BY <1>2, <1>3, <1>4 DEF IInv

LEMMA FreezeKeeps ==
    ASSUME IInv, NEW scope, Freeze(scope)
    PROVE  IInv'
  <1> DEFINE new == [scope |-> scope, members |-> CurrentMembers([scope |-> scope])]
  <1>1. UNCHANGED <<session, cache, run, receipts, readSets, packets>>
    BY DEF Freeze, process, store
  <1>2. snapshots' = snapshots \cup {new}
    BY DEF Freeze
  <1>3. Formed(new)
    BY DEF Formed, CurrentMembers
  <1> HIDE DEF new
  <1>4. WorldInv'
    BY <1>2, <1>3 DEF IInv, WorldInv
  <1>5. RunInv'
    BY <1>1 DEF IInv, RunInv, Holds, BatchHolds, InHand
  <1>6. PacketInv' /\ ReceiptInv' /\ SessionInv' /\ CacheInv'
    BY <1>1 DEF IInv, PacketInv, ReceiptInv, SessionInv, CacheInv
  <1> QED BY <1>4, <1>5, <1>6 DEF IInv

LEMMA RestartKeeps ==
    ASSUME IInv, Restart
    PROVE  IInv'
  <1>1. /\ UNCHANGED <<snapshots, receipts, readSets, packets>>
        /\ session' = [k \in Sessions |-> None] /\ cache' = <<>>
        /\ run' = [r \in Runs |-> IF InHand(r) THEN Orphan ELSE run[r]]
    BY DEF Restart, world
  <1>2. \A r \in Runs : /\ run'[r] = Orphan \/ run'[r] = run[r]
                        /\ run[r].status = "succeeded" => run'[r] = run[r]
                        /\ ~InHand(r)'
    BY <1>1 DEF InHand
  <1>3. RunInv'
    <2>1. \A r \in Runs : run'[r].status = "succeeded" => run'[r] = run[r]
      BY <1>2 DEF Orphan
    <2> QED BY <1>1, <1>2, <2>1 DEF IInv, RunInv, Holds
  <1>4. ReceiptInv' /\ PacketInv'
    BY <1>1, <1>2 DEF IInv, ReceiptInv, PacketInv
  <1>5. DOMAIN cache' = {} /\ IsSeq(cache')
    <2>1. DOMAIN cache' = {}
      BY <1>1
    <2> QED BY <1>1, <2>1 DEF IsSeq
  <1>6. WorldInv' /\ SessionInv' /\ CacheInv'
    BY <1>1, <1>5 DEF IInv, WorldInv, SessionInv, CacheInv
  <1> QED BY <1>3, <1>4, <1>6 DEF IInv

LEMMA OpenKeeps ==
    ASSUME IInv, NEW k \in Sessions, NEW scope \in KnownScopes, OpenSession(k, scope)
    PROVE  IInv'
  <1>1. /\ UNCHANGED <<snapshots, cache, run, receipts, readSets, packets>>
        /\ session' = [session EXCEPT ![k] = Prepare(scope)]
    BY DEF OpenSession, world, store
  <1>2. IsPrepared(Prepare(scope))
    BY PreparedFacts DEF IsPrepared, KnownScopes, IInv, WorldInv
  <1>3. SessionInv'
    BY <1>1, <1>2 DEF IInv, SessionInv
  <1>4. RunInv'
    BY <1>1 DEF IInv, RunInv, Holds, BatchHolds, InHand
  <1>5. WorldInv' /\ PacketInv' /\ ReceiptInv' /\ CacheInv'
    BY <1>1 DEF IInv, WorldInv, PacketInv, ReceiptInv, CacheInv
  <1> QED BY <1>3, <1>4, <1>5 DEF IInv

LEMMA FailKeeps ==
    ASSUME IInv, NEW r \in Runs, Fail(r)
    PROVE  IInv'
  <1>1. /\ UNCHANGED <<snapshots, session, cache, receipts, readSets, packets>>
        /\ run' = [q \in Runs |-> IF q \in run[r].batch THEN FailedRun ELSE run[q]]
        /\ InHand(r)
    BY DEF Fail, world, process
  <1> DEFINE M == run[r].batch
  <1>2. \A q \in M : q \in Runs /\ InHand(q) /\ run[q].batch = M
    BY <1>1 DEF IInv, RunInv, BatchHolds
  <1>3. \A q \in Runs : /\ q \in M => run'[q].status = "failed"
                        /\ q \notin M => run'[q] = run[q]
                        /\ run[q].status = "succeeded" => q \notin M
    BY <1>1, <1>2 DEF FailedRun, InHand
  <1>4. \A q \in Runs : InHand(q)' => q \notin M /\ InHand(q)
    BY <1>3 DEF InHand
  <1>5. \A q \in Runs : InHand(q) /\ q \notin M => \A w \in run[q].batch : w \in Runs \ M
    BY <1>2 DEF IInv, RunInv, BatchHolds
  <1>7. run' = [q \in Runs |-> run'[q]]
    BY <1>1
  <1> HIDE DEF M
  <1>6. RunInv'
    <2>1. ASSUME NEW q \in Runs, InHand(q)' PROVE Holds(run', q) /\ BatchHolds(q)'
      <3>1. q \notin M /\ InHand(q) /\ run'[q] = run[q] /\ Holds(run, q) /\ BatchHolds(q)
        BY <1>3, <1>4, <2>1 DEF IInv, RunInv
      <3>2. \A w \in run[q].batch : run'[w] = run[w] /\ InHand(w)
        BY <1>3, <1>5, <3>1 DEF BatchHolds
      <3>3. \A w \in run[q].batch : InHand(w)'
        BY <3>2 DEF InHand
      <3> QED BY <3>1, <3>2, <3>3 DEF Holds, BatchHolds
    <2>2. ASSUME NEW q \in Runs, run'[q].status = "succeeded" PROVE Holds(run', q)
      <3>1. run'[q] = run[q]
        BY <1>3, <2>2
      <3> QED BY <2>2, <3>1 DEF IInv, RunInv, Holds
    <2> QED BY <1>7, <2>1, <2>2 DEF RunInv
  <1>8. ReceiptInv' /\ PacketInv'
    BY <1>1, <1>3 DEF IInv, ReceiptInv, PacketInv
  <1>9. WorldInv' /\ SessionInv' /\ CacheInv'
    BY <1>1 DEF IInv, WorldInv, SessionInv, CacheInv
  <1> QED BY <1>6, <1>8, <1>9 DEF IInv

----------------------------------------------------------------------------
(* Beginning runs *)

LEMMA LeastNatural ==
    ASSUME NEW S, S \subseteq Nat, S # {}
    PROVE  \E x \in S : \A y \in S : x <= y
  <1>1. PICK x \in S : \A y \in S : ~ (<<y, x>> \in OpToRel(<, Nat))
    BY NatLessThanWellFounded, WFMin
  <1>2. \A y \in S : ~(y < x)
    <2> SUFFICES ASSUME NEW y \in S, y < x PROVE FALSE
      OBVIOUS
    <2>1. <<y, x>> \in Nat \X Nat
      OBVIOUS
    <2>2. <<y, x>> \in OpToRel(<, Nat)
      BY <2>1 DEF OpToRel
    <2> QED BY <1>1, <2>2, Zenon
  <1> QED BY <1>2

\* The new run is the least unused one.
LEMMA NextRunIsUnused ==
    ASSUME RecallAssumption, Unused # {}
    PROVE  NextRun \in Unused
  <1>1. Unused \subseteq Nat
    BY DEF Unused, Runs, RecallAssumption
  <1>2. \E z \in Unused : \A y \in Unused : z <= y
    BY <1>1, LeastNatural
  <1> QED BY <1>2 DEF NextRun

\* What the run of a Good packet is, once it is begun.
LEMMA BegunIsHeld ==
    ASSUME NEW kind, NEW p, NEW via, NEW members, Good(p), p.code = code
    PROVE  LET b == Begun(kind, p, via, members)
           IN /\ IsRow(b) /\ b.status = "running" /\ b # Orphan
              /\ b.packet = p /\ b.request = p.request /\ b.code = p.code
              /\ b.via = via /\ b.batch = members
  <1> DEFINE b == Begun(kind, p, via, members)
  <1>1. /\ IsRow(b) /\ b.status = "running"
        /\ b.packet = p /\ b.request = p.request /\ b.code = code
        /\ b.via = via /\ b.batch = members
    BY DEF Begun, IsRow
  <1>2. "via" \in DOMAIN b /\ "via" \notin DOMAIN Orphan
    BY DEF Begun, Orphan
  <1> QED BY <1>1, <1>2

\* Run r is begun with a packet of this process, among the members of its batch.
BegunWith(r, members) ==
    \E kind, p, via :
        /\ Good(p) /\ p.code = code
        /\ via # None => members = {r}
        /\ run'[r] = Begun(kind, p, via, members)

LEMMA BegunKeeps ==
    ASSUME IInv, UNCHANGED <<snapshots, session, cache, receipts, readSets, packets>>,
           NEW members, members \subseteq Unused,
           run' = [r \in Runs |-> run'[r]],
           \A r \in Runs \ members : run'[r] = run[r],
           \A r \in members : BegunWith(r, members)
    PROVE  IInv'
  <1>1. members \subseteq Runs /\ \A r \in members : run[r].status = "absent"
    BY DEF Unused
  <1>2. \A r \in members : /\ Holds(run', r) /\ run'[r].status = "running"
                           /\ run'[r] # Orphan /\ run'[r].batch = members
                           /\ run'[r].via # None => members = {r}
    <2> SUFFICES ASSUME NEW r \in members
                 PROVE  /\ Holds(run', r) /\ run'[r].status = "running"
                        /\ run'[r] # Orphan /\ run'[r].batch = members
                        /\ run'[r].via # None => members = {r}
      OBVIOUS
    <2>1. PICK kind, p, via :
             /\ Good(p) /\ p.code = code
             /\ via # None => members = {r}
             /\ run'[r] = Begun(kind, p, via, members)
      BY DEF BegunWith
    <2> QED BY <2>1, BegunIsHeld DEF Holds
  <1>3. \A r \in members : InHand(r)'
    BY <1>2 DEF InHand
  <1>4. \A r \in Runs : InHand(r) \/ run[r].status = "succeeded" => r \notin members
    BY <1>1 DEF InHand
  <1>5. RunInv'
    <2>1. ASSUME NEW r \in Runs, InHand(r)' PROVE Holds(run', r) /\ BatchHolds(r)'
      <3>1. CASE r \in members
        BY <1>1, <1>2, <1>3, <3>1 DEF BatchHolds
      <3>2. CASE r \notin members
        <4>1. run'[r] = run[r]
          BY <3>2
        <4>2. InHand(r)
          BY <2>1, <4>1 DEF InHand
        <4>3. Holds(run, r) /\ BatchHolds(r)
          BY <4>2 DEF IInv, RunInv
        <4>4. \A q \in run[r].batch : q \in Runs /\ q \notin members /\ InHand(q)
          BY <1>4, <4>3 DEF BatchHolds
        <4>5. \A q \in run[r].batch : run'[q] = run[q] /\ InHand(q)'
          BY <4>4 DEF InHand
        <4> QED BY <4>1, <4>3, <4>5 DEF Holds, BatchHolds
      <3> QED BY <3>1, <3>2
    <2>2. ASSUME NEW r \in Runs, run'[r].status = "succeeded" PROVE Holds(run', r)
      <3>1. r \notin members
        BY <1>2, <2>2
      <3> QED BY <2>2, <3>1 DEF IInv, RunInv, Holds
    <2> QED BY <2>1, <2>2 DEF RunInv
  <1>6. \A r \in Runs : run[r].status = "succeeded" => run'[r] = run[r]
    BY <1>4
  <1>7. ReceiptInv' /\ PacketInv'
    BY <1>6 DEF IInv, ReceiptInv, PacketInv
  <1>8. WorldInv' /\ SessionInv' /\ CacheInv'
    BY DEF IInv, WorldInv, SessionInv, CacheInv
  <1> QED BY <1>5, <1>7, <1>8 DEF IInv

\* One new run.
LEMMA OneBegunKeeps ==
    ASSUME RecallAssumption, IInv, Unused # {},
           UNCHANGED <<snapshots, session, cache, receipts, readSets, packets>>,
           NEW kind, NEW p, NEW via, Good(p), p.code = code,
           run' = [run EXCEPT ![NextRun] = Begun(kind, p, via, {NextRun})]
    PROVE  IInv'
  <1>1. NextRun \in Unused /\ NextRun \in Runs
    BY NextRunIsUnused DEF Unused
  <1>2. run = [r \in Runs |-> run[r]]
    BY DEF IInv, RunInv
  <1>3. /\ run' = [r \in Runs |-> run'[r]]
        /\ \A r \in Runs \ {NextRun} : run'[r] = run[r]
        /\ run'[NextRun] = Begun(kind, p, via, {NextRun})
    BY <1>1, <1>2
  <1> DEFINE M == {NextRun}
  <1>4. M \subseteq Unused /\ \A r \in M : M = {r} /\ r = NextRun
    BY <1>1
  <1>5. \A r \in M : BegunWith(r, M)
    BY <1>3, <1>4 DEF BegunWith
  <1>6. \A r \in Runs \ M : run'[r] = run[r]
    BY <1>3
  <1> HIDE DEF M
  <1> QED BY <1>3, <1>4, <1>5, <1>6, BegunKeeps

LEMMA RecallKeeps ==
    ASSUME RecallAssumption, IInv, NEW request \in KnownRequests, Recall(request)
    PROVE  IInv'
  <1> DEFINE p == Assemble(request, code, Prepare(Scope(request)))
  <1>1. Good(p) /\ p.code = code
    BY AssembleIsGood DEF KnownRequests, IInv, WorldInv
  <1>2. /\ run' = [run EXCEPT ![NextRun] = Begun("recall", p, None, {NextRun})]
        /\ Unused # {} /\ UNCHANGED <<snapshots, session, cache, receipts, readSets, packets>>
    BY DEF Recall, world, process
  <1> HIDE DEF p
  <1> QED BY <1>1, <1>2, OneBegunKeeps

LEMMA RecallInSessionKeeps ==
    ASSUME RecallAssumption, IInv, NEW k \in Sessions, NEW request \in KnownRequests,
           RecallInSession(k, request)
    PROVE  IInv'
  <1> DEFINE p == Assemble(request, code, session[k])
  <1>1. session[k] = Prepare(Scope(request))
    BY DEF RecallInSession, IInv, SessionInv, IsPrepared
  <1>2. Good(p) /\ p.code = code
    BY <1>1, AssembleIsGood DEF KnownRequests, IInv, WorldInv
  <1>3. /\ run' = [run EXCEPT ![NextRun] = Begun("recall", p, k, {NextRun})]
        /\ Unused # {} /\ UNCHANGED <<snapshots, session, cache, receipts, readSets, packets>>
    BY DEF RecallInSession, world, process
  <1> HIDE DEF p
  <1> QED BY <1>2, <1>3, OneBegunKeeps

LEMMA ReplayKeeps ==
    ASSUME RecallAssumption, IInv, NEW p \in packets, Replay(p)
    PROVE  IInv'
  <1> DEFINE q == Assemble(p.request, code, Prepare(Scope(p.request)))
  <1>1. Good(p)
    BY DEF IInv, PacketInv, RunInv, Holds
  <1>2. Good(q) /\ q.code = code
    BY <1>1, AssembleIsGood DEF Good
  <1>3. /\ run' = [run EXCEPT ![NextRun] = Begun("replay", q, None, {NextRun})]
        /\ Unused # {} /\ UNCHANGED <<snapshots, session, cache, receipts, readSets, packets>>
    BY DEF Replay, world, process
  <1> HIDE DEF q
  <1> QED BY <1>2, <1>3, OneBegunKeeps

LEMMA RecallBatchKeeps ==
    ASSUME RecallAssumption, IInv, NEW scope \in KnownScopes, NEW q1, NEW q2,
           RecallBatch(scope, q1, q2)
    PROVE  IInv'
  <1> DEFINE first == NextRun
             M == {first, first + 1}
             R(q) == [snapshot |-> scope.snapshot, terms |-> scope.terms, question |-> q]
             P(q) == Assemble(R(q), code, Prepare(scope))
  <1>1. /\ M \subseteq Unused /\ Unused # {}
        /\ run' = [run EXCEPT ![first] = Begun("recall", P(q1), None, M),
                              ![first + 1] = Begun("recall", P(q2), None, M)]
        /\ UNCHANGED <<snapshots, session, cache, receipts, readSets, packets>>
    BY DEF RecallBatch, world, process
  <1>2. \A q : Good(P(q)) /\ P(q).code = code
    <2> SUFFICES ASSUME NEW q PROVE Good(P(q)) /\ P(q).code = code
      OBVIOUS
    <2>1. Scope(R(q)) = scope /\ R(q).snapshot \in snapshots
      BY DEF Scope, KnownScopes
    <2>2. Formed(R(q).snapshot)
      BY <2>1 DEF IInv, WorldInv
    <2> HIDE DEF R
    <2> QED BY <2>1, <2>2, AssembleIsGood
  <1>3. first \in Runs /\ first + 1 \in Runs /\ first \in Int
    BY <1>1 DEF Unused, Runs
  <1>4. run = [r \in Runs |-> run[r]]
    BY DEF IInv, RunInv
  <1> HIDE DEF P, first
  <1>5. /\ run' = [r \in Runs |-> run'[r]]
        /\ \A r \in Runs \ M : run'[r] = run[r]
        /\ run'[first] = Begun("recall", P(q1), None, M)
        /\ run'[first + 1] = Begun("recall", P(q2), None, M)
    <2> DEFINE b1 == Begun("recall", P(q1), None, M)
               b2 == Begun("recall", P(q2), None, M)
    <2>1. run' = [run EXCEPT ![first] = b1, ![first + 1] = b2]
      BY <1>1
    <2>2. first # first + 1
      BY <1>3
    <2> HIDE DEF b1, b2
    <2>3. /\ run' = [r \in Runs |-> run'[r]]
          /\ \A r \in Runs \ {first, first + 1} : run'[r] = run[r]
          /\ run'[first] = b1 /\ run'[first + 1] = b2
      BY <1>3, <1>4, <2>1, <2>2
    <2> QED BY <2>3 DEF b1, b2
  <1>6. \A r \in M : BegunWith(r, M)
    <2> SUFFICES ASSUME NEW r \in M PROVE BegunWith(r, M)
      OBVIOUS
    <2>1. \E q : run'[r] = Begun("recall", P(q), None, M)
      BY <1>5
    <2> HIDE DEF M
    <2> QED BY <1>2, <2>1 DEF BegunWith
  <1> HIDE DEF M
  <1> QED BY <1>1, <1>5, <1>6, BegunKeeps

----------------------------------------------------------------------------
(* Completing runs *)

\* INSERT OR IGNORE keeps every row, adds rows of the packet at hand and leaves
\* none of its receipts without a row.
LEMMA EnsuredHolds ==
    ASSUME NEW rows, NEW p, NEW r
    PROVE  /\ rows \subseteq Ensured(rows, p, r)
           /\ \A row \in Ensured(rows, p, r) :
                 row \in rows \/ (row.first = r /\ row.content \in ReceiptsOf(p))
           /\ \A content \in ReceiptsOf(p) : \E row \in Ensured(rows, p, r) : row.content = content
  <1>1. rows \subseteq Ensured(rows, p, r)
    BY DEF Ensured
  <1>2. \A row \in Ensured(rows, p, r) :
           row \in rows \/ (row.first = r /\ row.content \in ReceiptsOf(p))
    BY DEF Ensured
  <1>3. ASSUME NEW content \in ReceiptsOf(p)
        PROVE  \E row \in Ensured(rows, p, r) : row.content = content
    <2> DEFINE new == [content |-> content, first |-> r]
    <2>1. CASE \A row \in rows : row.content # content
      <3>1. new \in Ensured(rows, p, r)
        BY <2>1 DEF Ensured
      <3>2. new.content = content
        OBVIOUS
      <3> QED BY <3>1, <3>2
    <2>2. CASE \E row \in rows : row.content = content
      BY <1>1, <2>2
    <2> QED BY <2>1, <2>2
  <1> QED BY <1>1, <1>2, <1>3

\* What one transaction writes for the runs it completes.
Completes(members) ==
    /\ members \subseteq Runs
    /\ \A r \in members : InHand(r) /\ run[r].batch = members
    /\ Succeed(members)
    /\ receipts \subseteq receipts'
    /\ \A row \in receipts' :
          row \in receipts \/ (/\ row.first \in members
                              /\ row.content \in ReceiptsOf(run[row.first].packet))
    /\ readSets \subseteq readSets'
    /\ packets' = packets \cup {run[r].packet : r \in members}
    /\ \A r \in members :
          /\ run[r].packet.read \in readSets'
          /\ \A content \in ReceiptsOf(run[r].packet) : \E row \in receipts' : row.content = content

LEMMA CompletesKeeps ==
    ASSUME IInv, NEW members, Completes(members)
    PROVE  RunInv' /\ ReceiptInv' /\ PacketInv'
  <1>1. /\ members \subseteq Runs
        /\ \A r \in members : /\ InHand(r) /\ run[r].batch = members
                               /\ Holds(run, r) /\ run[r].status = "running"
        /\ run' = [r \in Runs |-> IF r \in members THEN [run[r] EXCEPT !.status = "succeeded"]
                                                   ELSE run[r]]
    BY DEF Completes, Succeed, IInv, RunInv, InHand
  <1>2. \A r \in members :
           /\ IsRow(run'[r]) /\ run'[r].status = "succeeded" /\ run'[r].packet = run[r].packet
           /\ run'[r].request = run[r].request /\ run'[r].code = run[r].code
    <2> SUFFICES ASSUME NEW r \in members
                 PROVE  /\ IsRow(run'[r]) /\ run'[r].status = "succeeded"
                        /\ run'[r].packet = run[r].packet
                        /\ run'[r].request = run[r].request /\ run'[r].code = run[r].code
      OBVIOUS
    <2>1. run'[r] = [run[r] EXCEPT !.status = "succeeded"] /\ IsRow(run[r])
      BY <1>1 DEF Holds
    <2> QED BY <2>1 DEF IsRow
  <1>3. \A r \in Runs \ members : run'[r] = run[r]
    BY <1>1
  <1>4. \A r \in members : Holds(run', r)
    BY <1>1, <1>2 DEF Holds
  <1>5. \A r \in Runs : run[r].status = "succeeded" => r \notin members
    BY <1>1
  <1>6. RunInv'
    <2>1. ASSUME NEW r \in Runs, InHand(r)' PROVE Holds(run', r) /\ BatchHolds(r)'
      <3>1. r \notin members /\ run'[r] = run[r]
        BY <1>2, <1>3, <2>1 DEF InHand
      <3>2. InHand(r)
        BY <2>1, <3>1 DEF InHand
      <3>3. Holds(run, r) /\ BatchHolds(r)
        BY <3>2 DEF IInv, RunInv
      <3>4. \A q \in run[r].batch : q \in Runs \ members /\ InHand(q)
        BY <1>1, <3>1, <3>3 DEF BatchHolds
      <3>5. \A q \in run[r].batch : run'[q] = run[q] /\ InHand(q)'
        BY <1>3, <3>4 DEF InHand
      <3> QED BY <3>1, <3>3, <3>5 DEF Holds, BatchHolds
    <2>2. ASSUME NEW r \in Runs, run'[r].status = "succeeded" PROVE Holds(run', r)
      <3>1. CASE r \in members
        BY <1>4, <3>1
      <3>2. CASE r \notin members
        BY <1>3, <2>2, <3>2 DEF IInv, RunInv, Holds
      <3> QED BY <3>1, <3>2
    <2>3. run' = [r \in Runs |-> run'[r]]
      BY <1>1
    <2> QED BY <2>1, <2>2, <2>3 DEF RunInv
  <1>7. ReceiptInv'
    <2> SUFFICES ASSUME NEW row \in receipts'
                 PROVE  /\ row.first \in Runs
                        /\ run'[row.first].status = "succeeded"
                        /\ row.content \in ReceiptsOf(run'[row.first].packet)
      BY DEF ReceiptInv
    <2>1. CASE row \in receipts
      <3>1. /\ row.first \in Runs /\ run[row.first].status = "succeeded"
            /\ row.content \in ReceiptsOf(run[row.first].packet)
        BY <2>1 DEF IInv, ReceiptInv
      <3>2. run'[row.first] = run[row.first]
        BY <1>3, <1>5, <3>1
      <3> QED BY <3>1, <3>2
    <2>2. CASE row \notin receipts
      <3>1. row.first \in members /\ row.content \in ReceiptsOf(run[row.first].packet)
        BY <2>2 DEF Completes
      <3>2. run'[row.first].packet = run[row.first].packet
        BY <1>2, <3>1
      <3>3. ReceiptsOf(run'[row.first].packet) = ReceiptsOf(run[row.first].packet)
        BY <3>2
      <3> QED BY <1>1, <1>2, <3>1, <3>3
    <2> QED BY <2>1, <2>2
  <1>8. PacketInv'
    <2> SUFFICES ASSUME NEW p \in packets'
                 PROVE  /\ \E r \in Runs : run'[r].status = "succeeded" /\ run'[r].packet = p
                        /\ p.read \in readSets'
                        /\ \A content \in ReceiptsOf(p) : \E row \in receipts' : row.content = content
      BY DEF PacketInv
    <2>1. CASE p \in packets
      <3>1. PICK r \in Runs : run[r].status = "succeeded" /\ run[r].packet = p
        BY <2>1 DEF IInv, PacketInv
      <3>2. run'[r] = run[r]
        BY <1>3, <1>5, <3>1
      <3>3. /\ p.read \in readSets
            /\ \A content \in ReceiptsOf(p) : \E row \in receipts : row.content = content
        BY <2>1 DEF IInv, PacketInv
      <3>4. receipts \subseteq receipts' /\ readSets \subseteq readSets'
        BY DEF Completes
      <3> QED BY <3>1, <3>2, <3>3, <3>4
    <2>2. CASE p \notin packets
      <3>1. PICK r \in members : p = run[r].packet
        BY <2>2 DEF Completes
      <3>2. run'[r].status = "succeeded" /\ run'[r].packet = p /\ r \in Runs
        BY <1>1, <1>2, <3>1
      <3>3. /\ p.read \in readSets'
            /\ \A content \in ReceiptsOf(p) : \E row \in receipts' : row.content = content
        BY <3>1 DEF Completes
      <3> QED BY <3>2, <3>3
    <2> QED BY <2>1, <2>2
  <1> QED BY <1>6, <1>7, <1>8

\* One run completed by Write.
LEMMA WriteCompletes ==
    ASSUME IInv, NEW r \in Runs, InHand(r), run[r].batch = {r},
           NEW set, set = run[r].packet.read, Write(r, set)
    PROVE  Completes({r})
  <1> DEFINE p == run[r].packet
             M == {r}
  <1>1. /\ receipts' = Ensured(receipts, p, r)
        /\ readSets' = readSets \cup {p.read}
        /\ packets' = packets \cup {p}
        /\ Succeed(M)
    BY DEF Write, StoreReadSet
  <1>2. \A q \in M : q = r /\ run[q].packet = p
    OBVIOUS
  <1>3. {run[q].packet : q \in M} = {p}
    OBVIOUS
  <1>4. \A row \in receipts' :
           row \in receipts \/ (row.first \in M /\ row.content \in ReceiptsOf(run[row.first].packet))
    BY <1>1, EnsuredHolds
  <1>5. M \subseteq Runs /\ \A q \in M : InHand(q) /\ run[q].batch = M
    OBVIOUS
  <1> HIDE DEF p, M
  <1>6. \A q \in M : /\ run[q].packet.read \in readSets'
                     /\ \A content \in ReceiptsOf(run[q].packet) :
                           \E row \in receipts' : row.content = content
    BY <1>1, <1>2, EnsuredHolds
  <1>7. Completes(M)
    BY <1>1, <1>3, <1>4, <1>5, <1>6, EnsuredHolds DEF Completes
  <1> QED BY <1>7 DEF M

LEMMA CompleteKeeps ==
    ASSUME IInv, NEW r \in Runs, Complete(r)
    PROVE  IInv'
  <1>1. /\ InHand(r) /\ run[r].batch = {r} /\ Write(r, run[r].packet.read)
        /\ UNCHANGED <<snapshots, session, cache>>
    BY DEF Complete, world, process
  <1>2. Completes({r})
    BY <1>1, WriteCompletes
  <1>3. RunInv' /\ ReceiptInv' /\ PacketInv'
    BY <1>2, CompletesKeeps
  <1>4. readSets \subseteq readSets'
    BY <1>2 DEF Completes
  <1>5. WorldInv' /\ SessionInv' /\ CacheInv'
    BY <1>1, <1>4 DEF IInv, WorldInv, SessionInv, CacheInv
  <1> QED BY <1>3, <1>5 DEF IInv

\* Two runs of a batch: the second has the corpus of the first.
LEMMA CompleteBatchKeeps ==
    ASSUME IInv, NEW r \in Runs, NEW q \in Runs, CompleteBatch(r, q)
    PROVE  IInv'
  <1> DEFINE p1 == run[r].packet
             p2 == run[q].packet
             M == {r, q}
  <1>1. /\ InHand(r) /\ InHand(q) /\ run[r].batch = {r, q}
        /\ BatchClosure(p2, run[q].request, run[q].code, p1)
        /\ receipts' = Ensured(Ensured(receipts, p1, r), p2, q)
        /\ readSets' = readSets \cup {p1.read}
        /\ packets' = packets \cup {p1, p2}
        /\ Succeed(M)
        /\ UNCHANGED <<snapshots, session, cache>>
    BY DEF CompleteBatch, StoreReadSet, world, process
  <1>2. run[q].batch = {r, q}
    BY <1>1 DEF IInv, RunInv, BatchHolds
  <1>3. p2.read = p1.read
    BY <1>1 DEF BatchClosure
  <1>4. {run[w].packet : w \in M} = {p1, p2}
    OBVIOUS
  <1>5. M \subseteq Runs /\ \A w \in M : InHand(w) /\ run[w].batch = M
    BY <1>1, <1>2
  <1>6. \A w \in M : (w = r /\ run[w].packet = p1) \/ (w = q /\ run[w].packet = p2)
    OBVIOUS
  <1> DEFINE rows == Ensured(receipts, p1, r)
  <1>7. /\ receipts \subseteq rows /\ rows \subseteq receipts'
        /\ \A row \in receipts' :
              \/ row \in receipts
              \/ row.first = r /\ row.content \in ReceiptsOf(p1)
              \/ row.first = q /\ row.content \in ReceiptsOf(p2)
        /\ \A content \in ReceiptsOf(p1) : \E row \in rows : row.content = content
        /\ \A content \in ReceiptsOf(p2) : \E row \in receipts' : row.content = content
    <2> HIDE DEF p1, p2
    <2>1. /\ receipts \subseteq rows
          /\ \A row \in rows : row \in receipts \/ (row.first = r /\ row.content \in ReceiptsOf(p1))
          /\ \A content \in ReceiptsOf(p1) : \E row \in rows : row.content = content
      BY EnsuredHolds
    <2> HIDE DEF rows
    <2>2. receipts' = Ensured(rows, p2, q)
      BY <1>1 DEF rows
    <2>3. /\ rows \subseteq receipts'
          /\ \A row \in receipts' : row \in rows \/ (row.first = q /\ row.content \in ReceiptsOf(p2))
          /\ \A content \in ReceiptsOf(p2) : \E row \in receipts' : row.content = content
      BY <2>2, EnsuredHolds
    <2> QED BY <2>1, <2>3
  <1>8. \A row \in receipts' :
           row \in receipts \/ (row.first \in M /\ row.content \in ReceiptsOf(run[row.first].packet))
    BY <1>7
  <1> HIDE DEF p1, p2, M, rows
  <1>9. \A w \in M : /\ run[w].packet.read \in readSets'
                     /\ \A content \in ReceiptsOf(run[w].packet) :
                           \E row \in receipts' : row.content = content
    BY <1>1, <1>3, <1>6, <1>7
  <1>10. Completes(M)
    BY <1>1, <1>4, <1>5, <1>7, <1>8, <1>9 DEF Completes
  <1>11. RunInv' /\ ReceiptInv' /\ PacketInv'
    BY <1>10, CompletesKeeps
  <1>12. WorldInv' /\ SessionInv' /\ CacheInv'
    BY <1>1 DEF IInv, WorldInv, SessionInv, CacheInv
  <1> QED BY <1>11, <1>12 DEF IInv

----------------------------------------------------------------------------
(* The cache of validated scopes, as a sequence *)

\* A sequence whose elements come from a set is one in our sense.
LEMMA FromSet ==
    ASSUME NEW S, NEW q \in Seq(S)
    PROVE  IsSeq(q)
  <1> DEFINE T == {q[i] : i \in DOMAIN q}
  <1>1. \A i \in 1..Len(q) : q[i] \in T
    OBVIOUS
  <1> HIDE DEF T
  <1>2. q \in Seq(T)
    BY <1>1
  <1> QED BY <1>2 DEF IsSeq, T

\* Forgetting an entry leaves the others.
LEMMA WithoutHolds ==
    ASSUME NEW S, cache \in Seq(S), NEW k
    PROVE  Without(k) \in Seq(S)
  <1>1. CASE CachedAt(k) = {}
    BY <1>1 DEF Without
  <1>2. CASE CachedAt(k) # {}
    <2> DEFINE i == CHOOSE j \in CachedAt(k) : TRUE
    <2>1. i \in 1..Len(cache)
      BY <1>2 DEF CachedAt
    <2>2. Without(k) = SubSeq(cache, 1, i - 1) \o SubSeq(cache, i + 1, Len(cache))
      BY <1>2 DEF Without
    <2> HIDE DEF i
    <2>3. SubSeq(cache, 1, i - 1) \in Seq(S) /\ SubSeq(cache, i + 1, Len(cache)) \in Seq(S)
      BY <2>1
    <2> QED BY <2>2, <2>3
  <1> QED BY <1>1, <1>2

\* What the cache holds after a commit comes from it or is the scope committed.
LEMMA RememberedHolds ==
    ASSUME NEW S, cache \in Seq(S), NEW k, NEW entry, [key |-> k, entry |-> entry] \in S,
           NEW committed
    PROVE  Remembered(committed, k, entry) \in Seq(S)
  <1> DEFINE grown == Append(Without(k), [key |-> k, entry |-> entry])
  <1>1. grown \in Seq(S) /\ Len(grown) \in Nat
    BY WithoutHolds
  <1> HIDE DEF grown
  <1>2. SubSeq(grown, 2, Len(grown)) \in Seq(S) /\ SubSeq(grown, 1, Len(grown)) \in Seq(S)
    BY <1>1
  <1> QED BY <1>2 DEF Remembered, grown

LEMMA CompleteScopedKeeps ==
    ASSUME RecallAssumption, IInv, NEW r \in Runs, CompleteScoped(r)
    PROVE  IInv'
  <1> DEFINE k == run[r].via
             p == run[r].packet
  <1>1. /\ InHand(r) /\ k \in Sessions /\ UNCHANGED <<snapshots, session>>
    BY DEF CompleteScoped, world
  <1>2. run[r].batch = {r} /\ Good(p)
    <2>1. k # None
      BY <1>1 DEF RecallAssumption
    <2> QED BY <1>1, <2>1 DEF IInv, RunInv, BatchHolds, Holds
  <1>3. PICK committed \in BOOLEAN :
           \/ /\ cache' = Remembered(committed, k, CacheEntry(p))
              /\ IF committed THEN Write(r, p.read) ELSE UNCHANGED store
           \/ \E i \in CachedAt(k) :
              /\ CachedClosure(p, run[r].request, run[r].code, cache[i].entry)
              /\ cache' = Remembered(committed, k, cache[i].entry)
              /\ IF committed THEN Write(r, cache[i].entry.read) ELSE UNCHANGED store
    BY DEF CompleteScoped
  <1>4. PICK entry :
           /\ EntrySound(entry) /\ entry.read = p.read
           /\ cache' = Remembered(committed, k, entry)
           /\ IF committed THEN Write(r, p.read) ELSE UNCHANGED store
    <2>1. CASE \E i \in CachedAt(k) :
                  /\ CachedClosure(p, run[r].request, run[r].code, cache[i].entry)
                  /\ cache' = Remembered(committed, k, cache[i].entry)
                  /\ IF committed THEN Write(r, cache[i].entry.read) ELSE UNCHANGED store
      <3>1. PICK i \in CachedAt(k) :
                  /\ CachedClosure(p, run[r].request, run[r].code, cache[i].entry)
                  /\ cache' = Remembered(committed, k, cache[i].entry)
                  /\ IF committed THEN Write(r, cache[i].entry.read) ELSE UNCHANGED store
        BY <2>1
      <3>2. EntrySound(cache[i].entry) /\ cache[i].entry.read = p.read
        BY <3>1 DEF IInv, CacheInv, CachedAt, CachedClosure
      <3> QED BY <3>1, <3>2
    <2>2. CASE /\ cache' = Remembered(committed, k, CacheEntry(p))
               /\ IF committed THEN Write(r, p.read) ELSE UNCHANGED store
      <3>1. /\ CacheEntry(p).access = p.access /\ CacheEntry(p).read = p.read
            /\ CacheEntry(p).scope = Scope(p.request)
            /\ CacheEntry(p).processed = p.coverage.processed
        BY DEF CacheEntry
      <3>2. EntrySound(CacheEntry(p)) /\ CacheEntry(p).read = p.read
        BY <1>2, <3>1, GoodFacts DEF EntrySound
      <3> QED BY <2>2, <3>2
    <2> QED BY <1>3, <2>1, <2>2
  <1>5. CASE committed
    <2>1. Completes({r})
      BY <1>1, <1>2, <1>4, <1>5, WriteCompletes
    <2>2. RunInv' /\ ReceiptInv' /\ PacketInv'
      BY <2>1, CompletesKeeps
    <2>3. readSets \subseteq readSets' /\ entry.read \in readSets'
      BY <1>4, <2>1 DEF Completes
    <2>4. CacheInv'
      <3> DEFINE new == [key |-> k, entry |-> entry]
                 S == {cache[i] : i \in DOMAIN cache} \cup {new}
      <3>1. cache \in Seq({cache[i] : i \in DOMAIN cache})
        BY DEF IInv, CacheInv, IsSeq
      <3>2. cache \in Seq(S) /\ new \in S
        <4> DEFINE C == {cache[i] : i \in DOMAIN cache}
        <4>1. cache \in Seq(C) /\ S = C \cup {new}
          BY <3>1
        <4> HIDE DEF C, S, new
        <4> QED BY <4>1
      <3>3. cache' \in Seq(S)
        <4> HIDE DEF S
        <4> QED BY <1>4, <3>2, RememberedHolds
      <3>4. \A e \in S : EntrySound(e.entry) /\ e.entry.read \in readSets'
        BY <1>4, <2>3 DEF IInv, CacheInv
      <3> HIDE DEF S
      <3>5. \A i \in DOMAIN cache' : cache'[i] \in S
        BY <3>3
      <3>6. IsSeq(cache')
        BY <3>3, FromSet
      <3> QED BY <3>4, <3>5, <3>6 DEF CacheInv, IsSeq
    <2> QED BY <1>1, <2>2, <2>4 DEF IInv, WorldInv, SessionInv
  <1>6. CASE ~committed
    <2>1. UNCHANGED <<run, receipts, readSets, packets, cache>>
      BY <1>4, <1>6 DEF store, Remembered
    <2>2. RunInv'
      BY <2>1 DEF IInv, RunInv, Holds, BatchHolds, InHand
    <2>3. WorldInv' /\ SessionInv' /\ CacheInv' /\ ReceiptInv' /\ PacketInv'
      BY <1>1, <2>1 DEF IInv, WorldInv, SessionInv, CacheInv, ReceiptInv, PacketInv
    <2> QED BY <2>2, <2>3 DEF IInv
  <1> QED BY <1>5, <1>6

----------------------------------------------------------------------------
(* The theorems *)

LEMMA StepHolds ==
    ASSUME RecallAssumption, IInv, [Next]_vars
    PROVE  IInv'
  <1>1. CASE \E feed \in Feeds : Ingest(feed[1], feed[2])
    BY <1>1, IngestKeeps DEF Ingest
  <1>2. CASE \E scope \in Scopes : Freeze(scope)
    BY <1>2, FreezeKeeps
  <1>3. CASE Restart
    BY <1>3, RestartKeeps
  <1>4. CASE \E k \in Sessions : \/ \E scope \in KnownScopes : OpenSession(k, scope)
                                 \/ \E request \in KnownRequests : RecallInSession(k, request)
    BY <1>4, OpenKeeps, RecallInSessionKeeps
  <1>5. CASE \E request \in KnownRequests : Recall(request)
    BY <1>5, RecallKeeps
  <1>6. CASE \E scope \in KnownScopes, q1, q2 \in Questions : RecallBatch(scope, q1, q2)
    BY <1>6, RecallBatchKeeps
  <1>7. CASE \E p \in packets : Replay(p)
    BY <1>7, ReplayKeeps
  <1>8. CASE \E r \in Runs : Complete(r) \/ CompleteScoped(r) \/ Fail(r)
    BY <1>8, CompleteKeeps, CompleteScopedKeeps, FailKeeps
  <1>9. CASE \E r, q \in Runs : CompleteBatch(r, q)
    BY <1>9, CompleteBatchKeeps
  <1>10. CASE UNCHANGED vars
    <2>1. UNCHANGED <<snapshots, process, store>>
      BY <1>10 DEF vars, process, store
    <2> QED BY <2>1, IngestKeeps
  <1> QED BY <1>1, <1>2, <1>3, <1>4, <1>5, <1>6, <1>7, <1>8, <1>9, <1>10 DEF Next

LEMMA AlwaysIInv ==
    ASSUME RecallAssumption
    PROVE  Spec => []IInv
  <1>1. Init => IInv
    BY InitHolds
  <1>2. IInv /\ [Next]_vars => IInv'
    BY StepHolds
  <1> QED BY <1>1, <1>2, PTL DEF Spec

\* A stored packet loads for ever and its code builds it again, whatever was
\* ingested, frozen or completed since and on whichever path it was written.
THEOREM PacketsAlwaysReadable ==
    ASSUME RecallAssumption
    PROVE  Spec => []PacketsStayReadable
  BY AlwaysIInv, InvReads, PTL

\* What the cached and the batch closure accept, the full closure accepts.
THEOREM ReducedChecksAlwaysSuffice ==
    ASSUME RecallAssumption
    PROVE  Spec => []ReducedChecksSuffice
  BY AlwaysIInv, InvSuffices, PTL

\* No receipt of a read lists a fragment that the snapshot knows from a holdout
\* or the policy does not permit.
THEOREM OnlyPermittedIsEverRead ==
    ASSUME RecallAssumption
    PROVE  Spec => []OnlyPermittedIsRead
  BY AlwaysIInv, InvPermits, PTL

----------------------------------------------------------------------------
(* Structure: the sections of a version                                    *)
(* What a request may see of a version is settled by the request alone, so *)
(* a section once found is the same section for ever.                      *)

\* All the passages under one heading, none left out on either side.
NaturalUnit(u) ==
    \E v \in Fragments : \E a, b \in 1..PagesOf[v] :
        /\ a <= b
        /\ u = Unit(v, a, b)
        /\ NaturalRun(v, a, b, 1..PagesOf[v])

\* A request that excludes no passage sees the whole of a version or nothing.
LEMMA SeesAllOrNothing ==
    ASSUME NEW request, request.hidden = {}, NEW v \in Fragments,
           OrdinalsOf(v, Permitted(request)) # {}
    PROVE  OrdinalsOf(v, Permitted(request)) = 1..PagesOf[v]
  <1> DEFINE C == Compile(request.snapshot, request.terms).permitted
  <1>1. Permitted(request) = {p \in Passages : p[1] \in C}
    BY DEF Permitted
  <1> HIDE DEF C
  <1>2. v \in C
    BY <1>1 DEF OrdinalsOf
  <1>3. \A i \in 1..PagesOf[v] : <<v, i>> \in Passages
    BY DEF Passages
  <1> QED BY <1>1, <1>2, <1>3 DEF OrdinalsOf

LEMMA DescribedIsWhole ==
    ASSUME NEW request, NEW v \in Described(request)
    PROVE  /\ request.hidden = {} /\ v \in Fragments /\ IsMarkdown(v)
           /\ v \in Contiguous(request)
           /\ OrdinalsOf(v, Permitted(request)) = 1..PagesOf[v]
  <1>1. request.hidden = {} /\ v \in Contiguous(request)
    BY DEF Described, HidesPassages
  <1>2. v \in Fragments /\ IsMarkdown(v) /\ OrdinalsOf(v, Permitted(request)) # {}
    BY <1>1 DEF Contiguous
  <1> QED BY <1>1, <1>2, SeesAllOrNothing

\* The runs that the builder describes, as ends of natural sections.
LEMMA RunsAre ==
    ASSUME NEW request, NEW u
    PROVE  u \in RunsOf(request) <=>
              \E v \in Described(request) : \E a, b \in 1..PagesOf[v] :
                  a <= b /\ u = Unit(v, a, b) /\ NaturalRun(v, a, b, 1..PagesOf[v])
  <1> DEFINE Ends(v, present) ==
                {ab \in present \X present : ab[1] <= ab[2] /\ NaturalRun(v, ab[1], ab[2], present)}
             Found(v, present) == {Unit(v, ends[1], ends[2]) : ends \in Ends(v, present)}
  <1>1. RunsOf(request) =
           UNION {Found(v, OrdinalsOf(v, Permitted(request))) : v \in Described(request)}
    BY DEF RunsOf
  <1>2. ASSUME NEW v, NEW present
        PROVE  u \in Found(v, present) <=>
                  \E a, b \in present :
                      a <= b /\ u = Unit(v, a, b) /\ NaturalRun(v, a, b, present)
    <2>1. \A a, b \in present : a <= b /\ NaturalRun(v, a, b, present) => <<a, b>> \in Ends(v, present)
      OBVIOUS
    <2>2. \A ends \in Ends(v, present) : /\ ends[1] \in present /\ ends[2] \in present
                                          /\ ends[1] <= ends[2]
                                          /\ NaturalRun(v, ends[1], ends[2], present)
      OBVIOUS
    <2> HIDE DEF Ends
    <2>3. ASSUME NEW a \in present, NEW b \in present,
                 a <= b, u = Unit(v, a, b), NaturalRun(v, a, b, present)
          PROVE  u \in Found(v, present)
      <3>1. <<a, b>> \in Ends(v, present)
        BY <2>1, <2>3
      <3>2. u = Unit(v, <<a, b>>[1], <<a, b>>[2])
        BY <2>3
      <3> QED BY <3>1, <3>2
    <2> QED BY <2>2, <2>3
  <1> HIDE DEF Found
  <1>3. u \in RunsOf(request) <=>
           \E v \in Described(request) : u \in Found(v, OrdinalsOf(v, Permitted(request)))
    BY <1>1
  <1>4. \A v \in Described(request) : OrdinalsOf(v, Permitted(request)) = 1..PagesOf[v]
    BY DescribedIsWhole
  <1> QED BY <1>2, <1>3, <1>4

LEMMA ProposedIsNatural ==
    ASSUME NEW request, NEW maximum, NEW u \in Proposals(request, maximum)
    PROVE  NaturalUnit(u)
  <1>1. u \in RunsOf(request)
    BY DEF Proposals
  <1> QED BY <1>1, RunsAre, DescribedIsWhole DEF NaturalUnit

\* What the receipt of a read promises.
Whole(read) ==
    LET listed == {read.items[i] : i \in DOMAIN read.items}
    IN /\ listed \subseteq Permitted(read.request)
       /\ \E v \in Fragments : \E a, b \in 1..PagesOf[v] :
             listed = {v} \X (a..b) /\ NaturalRun(v, a, b, 1..PagesOf[v])

LEMMA RenderedIsWhole ==
    ASSUME NEW u, NEW request, NaturalUnit(u), Members(u) \subseteq Permitted(request)
    PROVE  Whole(Rendered(u, request))
  <1>0. PICK v \in Fragments : \E a, b \in 1..PagesOf[v] :
             a <= b /\ u = Unit(v, a, b) /\ NaturalRun(v, a, b, 1..PagesOf[v])
    BY DEF NaturalUnit
  <1>1. PICK a \in 1..PagesOf[v], b \in 1..PagesOf[v] :
             a <= b /\ u = Unit(v, a, b) /\ NaturalRun(v, a, b, 1..PagesOf[v])
    BY <1>0
  <1>2. u.version = v /\ u.first = a /\ u.last = b /\ a \in Int /\ b \in Int
    BY <1>1 DEF Unit
  <1>3. Members(u) = {v} \X (a..b)
    BY <1>2 DEF Members
  <1> DEFINE items == Rendered(u, request).items
             listed == {items[i] : i \in DOMAIN items}
  <1>4. items = [i \in 1..(b - a + 1) |-> <<v, a + i - 1>>]
    BY <1>2 DEF Rendered, Items
  <1>5. ASSUME NEW p \in listed PROVE p \in {v} \X (a..b)
    BY <1>2, <1>4, <1>5
  <1>6. ASSUME NEW p \in {v} \X (a..b) PROVE p \in listed
    <2>1. PICK j \in a..b : p = <<v, j>>
      BY <1>6
    <2>2. j - a + 1 \in 1..(b - a + 1) /\ a + (j - a + 1) - 1 = j
      BY <1>2
    <2>3. items[j - a + 1] = p /\ j - a + 1 \in DOMAIN items
      BY <1>4, <2>1, <2>2
    <2> QED BY <2>3
  <1>7. listed = {v} \X (a..b) /\ Rendered(u, request).request = request
    BY <1>5, <1>6 DEF Rendered
  <1> HIDE DEF listed
  <1>8. listed \subseteq Permitted(Rendered(u, request).request)
    BY <1>3, <1>7
  <1> QED BY <1>1, <1>7, <1>8 DEF Whole, listed

\* Generations are written with their units, no unit is in two of them, and
\* what was resolved lies in a generation of the request it was resolved for.
UnitsInv ==
    /\ units = UNION {RowsFor(g) : g \in generations}
    /\ \A row, other \in units : row.unit = other.unit => row.generation = other.generation
    /\ \A g \in generations : \A u \in g.units : NaturalUnit(u)

ResolvedInv ==
    \A r \in resolved :
        /\ \E g \in generations : r.unit \in g.units /\ g.request = r.request
        /\ Members(r.unit) \subseteq Permitted(r.request)

ClientsInv ==
    /\ build = [x \in Builders |-> build[x]]
    /\ \A x \in Builders : build[x] # Nothing => \A u \in build[x].proposals : NaturalUnit(u)
    /\ batch = [y \in Readers |-> batch[y]]
    /\ \A y \in Readers : \A read \in batch[y] : Whole(read)
    /\ \A read \in unitReads : Whole(read)

StructureInv == UnitsInv /\ ResolvedInv /\ ClientsInv

LEMMA RowsAre ==
    ASSUME NEW table, table = UNION {RowsFor(g) : g \in generations}
    PROVE  /\ \A row \in table : /\ row.generation \in generations
                                  /\ row.unit \in row.generation.units
                                  /\ row = [unit |-> row.unit, generation |-> row.generation]
           /\ \A g \in generations : \A u \in g.units : [unit |-> u, generation |-> g] \in table
           /\ \A g \in generations : UnitsIn(table, g) = g.units
  <1>1. \A g : RowsFor(g) = {[unit |-> u, generation |-> g] : u \in g.units}
    BY DEF RowsFor
  <1>2. ASSUME NEW row \in table
        PROVE  /\ row.generation \in generations
               /\ row.unit \in row.generation.units
               /\ row = [unit |-> row.unit, generation |-> row.generation]
    <2>1. PICK g \in generations : row \in RowsFor(g)
      OBVIOUS
    <2> QED BY <1>1, <2>1
  <1>3. \A g \in generations : \A u \in g.units : [unit |-> u, generation |-> g] \in table
    BY <1>1
  <1>4. ASSUME NEW g \in generations PROVE UnitsIn(table, g) = g.units
    <2>1. ASSUME NEW u \in g.units PROVE u \in UnitsIn(table, g)
      <3>1. [unit |-> u, generation |-> g] \in table
        BY <1>3
      <3> QED BY <3>1 DEF UnitsIn
    <2>2. ASSUME NEW u \in UnitsIn(table, g) PROVE u \in g.units
      BY <1>2, <2>2 DEF UnitsIn
    <2> QED BY <2>1, <2>2
  <1> QED BY <1>2, <1>3, <1>4

LEMMA StructureStarts == StructureInit => StructureInv
  <1> SUFFICES ASSUME StructureInit PROVE StructureInv
    OBVIOUS
  <1>1. /\ generations = {} /\ units = {} /\ unitReads = {} /\ resolved = {}
        /\ build = [x \in Builders |-> Nothing]
        /\ batch = [y \in Readers |-> {}]
    BY DEF StructureInit
  <1> QED BY <1>1 DEF StructureInv, UnitsInv, ResolvedInv, ClientsInv

LEMMA PersistKeeps ==
    ASSUME StructureInv, NEW x \in Builders, NEW page, PersistGeneration(x, page)
    PROVE  StructureInv'
  <1> DEFINE g == Generation(build[x].request, page)
  <1>1. /\ UNCHANGED <<unitReads, build, batch, resolved>>
        /\ page \subseteq build[x].proposals /\ build[x] # Nothing
        /\ \/ UNCHANGED <<generations, units>>
           \/ generations' = generations \cup {g} /\ units' \in InsertUnits(g)
    BY DEF PersistGeneration
  <1>2. g.units = page
    BY DEF Generation
  <1> HIDE DEF g
  <1>3. ClientsInv' /\ \A u \in g.units : NaturalUnit(u)
    BY <1>1, <1>2 DEF StructureInv, ClientsInv
  <1>4. CASE UNCHANGED <<generations, units>>
    BY <1>1, <1>3, <1>4 DEF StructureInv, UnitsInv, ResolvedInv
  <1>5. CASE generations' = generations \cup {g} /\ units' \in InsertUnits(g)
    <2>1. units' = units \cup RowsFor(g) /\ \A row \in units : row.unit \notin g.units
      BY <1>5 DEF InsertUnits
    <2>2. units' = UNION {RowsFor(h) : h \in generations'}
      BY <1>5, <2>1 DEF StructureInv, UnitsInv
    <2>3. \A row \in RowsFor(g) : row.unit \in g.units /\ row.generation = g
      BY DEF RowsFor
    <2>4. \A row, other \in units' : row.unit = other.unit => row.generation = other.generation
      BY <2>1, <2>3 DEF StructureInv, UnitsInv
    <2>5. UnitsInv'
      BY <1>3, <1>5, <2>2, <2>4 DEF StructureInv, UnitsInv
    <2>6. ResolvedInv'
      BY <1>1, <1>5 DEF StructureInv, ResolvedInv
    <2> QED BY <1>3, <2>5, <2>6 DEF StructureInv
  <1> QED BY <1>1, <1>4, <1>5

LEMMA ResolveKeeps ==
    ASSUME StructureInv, NEW g \in generations, NEW request, NEW anchors,
           Resolve(g, request, anchors)
    PROVE  StructureInv'
  <1>1. /\ UNCHANGED <<generations, units, unitReads, build, batch>>
        /\ resolved' = resolved \cup {[request |-> request, unit |-> u] : u \in Around(g, anchors)}
        /\ g.request = request
        /\ \A u \in Around(g, anchors) : Members(u) \subseteq Permitted(request)
    BY DEF Resolve, SameClosure
  <1>2. UnitsIn(units, g) = g.units
    BY RowsAre DEF StructureInv, UnitsInv
  <1>3. \A u \in Around(g, anchors) : u \in g.units
    BY <1>2 DEF Around
  <1>4. ResolvedInv'
    BY <1>1, <1>3 DEF StructureInv, ResolvedInv
  <1>5. UnitsInv' /\ ClientsInv'
    BY <1>1 DEF StructureInv, UnitsInv, ClientsInv
  <1> QED BY <1>4, <1>5 DEF StructureInv

LEMMA ReadKeeps ==
    ASSUME StructureInv, NEW y \in Readers, NEW wanted, NEW request, ReadUnits(y, wanted, request)
    PROVE  StructureInv'
  <1>1. /\ UNCHANGED <<generations, units, unitReads, build, resolved>>
        /\ batch' = [batch EXCEPT ![y] = {Rendered(u, request) : u \in wanted}]
        /\ Readable(wanted, request)
    BY DEF ReadUnits
  <1>2. ASSUME NEW u \in wanted PROVE Whole(Rendered(u, request))
    <2>1. PICK row \in units : row.unit = u
      BY <1>1 DEF Readable
    <2>2. NaturalUnit(u)
      BY <2>1, RowsAre DEF StructureInv, UnitsInv
    <2>3. Members(u) \subseteq Permitted(request)
      BY <1>1 DEF Readable, MayRead
    <2> QED BY <2>2, <2>3, RenderedIsWhole
  <1>3. ClientsInv'
    BY <1>1, <1>2 DEF StructureInv, ClientsInv
  <1>4. UnitsInv' /\ ResolvedInv'
    BY <1>1 DEF StructureInv, UnitsInv, ResolvedInv
  <1> QED BY <1>3, <1>4 DEF StructureInv

LEMMA StructureStep ==
    ASSUME StructureInv, [StructureNext]_structureState
    PROVE  StructureInv'
  <1>1. ASSUME UNCHANGED <<generations, units, unitReads, build, batch, resolved>>
        PROVE  StructureInv'
    BY <1>1 DEF StructureInv, UnitsInv, ResolvedInv, ClientsInv
  <1>2. ASSUME NEW x \in Builders, NEW request, NEW m, PrepareSections(x, request, m)
        PROVE  StructureInv'
    <2>1. /\ UNCHANGED <<generations, units, unitReads, batch, resolved>>
          /\ build' = [build EXCEPT ![x] =
                          [request |-> request, proposals |-> Proposals(request, m)]]
      BY <1>2 DEF PrepareSections
    <2>2. ClientsInv'
      BY <2>1, ProposedIsNatural DEF StructureInv, ClientsInv
    <2> QED BY <2>1, <2>2 DEF StructureInv, UnitsInv, ResolvedInv
  <1>3. ASSUME NEW x \in Builders, Drop(x) PROVE StructureInv'
    BY <1>3 DEF Drop, StructureInv, UnitsInv, ResolvedInv, ClientsInv
  <1>4. ASSUME NEW y \in Readers, StoreUnitRead(y) PROVE StructureInv'
    BY <1>4 DEF StoreUnitRead, StructureInv, UnitsInv, ResolvedInv, ClientsInv
  <1>5. ASSUME EndProcess PROVE StructureInv'
    BY <1>5 DEF EndProcess, StructureInv, UnitsInv, ResolvedInv, ClientsInv
  <1> QED BY <1>1, <1>2, <1>3, <1>4, <1>5, PersistKeeps, ResolveKeeps, ReadKeeps
          DEF StructureNext, structureState, structure

LEMMA AlwaysStructureInv == StructureSpec => []StructureInv
  <1>1. StructureInv /\ [StructureNext]_structureState => StructureInv'
    BY StructureStep
  <1> QED BY <1>1, StructureStarts, PTL DEF StructureSpec

\* A generation loads in every later process with the units it was persisted
\* with, and a unit resolved for a request can be read by it for ever.
THEOREM SectionsAlwaysReadable == StructureSpec => []SectionsStayReadable
  <1>1. ASSUME StructureInv PROVE SectionsStayReadable
    <2>1. \A g \in generations : UnitsIn(units, g) = g.units
      BY <1>1, RowsAre DEF StructureInv, UnitsInv
    <2>2. ASSUME NEW r \in resolved PROVE Readable({r.unit}, r.request)
      <3>1. PICK g \in generations : r.unit \in g.units /\ g.request = r.request
        BY <1>1 DEF StructureInv, ResolvedInv
      <3> DEFINE row == [unit |-> r.unit, generation |-> g]
      <3>2. row \in units /\ row.unit = r.unit /\ row.generation = g
        BY <1>1, <3>1, RowsAre DEF StructureInv, UnitsInv
      <3>3. \A h \in GenerationsOf({r.unit}) : h = g
        BY <1>1, <3>2 DEF GenerationsOf, StructureInv, UnitsInv
      <3>4. LoadsGeneration(g)
        BY <2>1 DEF LoadsGeneration
      <3>5. MayRead({r.unit}, r.request)
        BY <1>1 DEF StructureInv, ResolvedInv, MayRead
      <3> QED BY <3>1, <3>2, <3>3, <3>4, <3>5 DEF Readable
    <2> QED BY <2>1, <2>2 DEF SectionsStayReadable
  <1> QED BY <1>1, AlwaysStructureInv, PTL

\* Every receipt of a read names a section whole, and only passages that its
\* reader was permitted.
THEOREM WholeSectionsAreEverRead == StructureSpec => []WholeSectionsAreRead
  <1>1. StructureInv => WholeSectionsAreRead
    BY DEF StructureInv, ClientsInv, Whole, WholeSectionsAreRead
  <1> QED BY <1>1, AlwaysStructureInv, PTL

\* Every passage lies in a run of its heading ...
LEMMA RunAround ==
    ASSUME NEW v, NEW n \in Nat, NEW i \in 1..n
    PROVE  \E a, b \in 1..n : a <= i /\ i <= b /\ NaturalRun(v, a, b, 1..n)
  <1> DEFINE L(j) == Outline[v][j]
             A == {a \in 1..n : a <= i /\ \A j \in a..i : L(j) = L(i)}
             B == {k \in 0..n : i <= n - k /\ \A j \in i..(n - k) : L(j) = L(i)}
  <1>1. i \in A
    OBVIOUS
  <1>2. PICK a \in A : \A c \in A : a <= c
    <2>1. A \subseteq Nat /\ A # {}
      BY <1>1
    <2> HIDE DEF A
    <2> QED BY <2>1, LeastNatural
  <1>3. n - i \in B
    <2>1. n - i \in 0..n /\ n - (n - i) = i
      OBVIOUS
    <2> QED BY <2>1
  <1>4. PICK k \in B : \A c \in B : k <= c
    <2>1. B \subseteq Nat
      OBVIOUS
    <2>2. B # {}
      <3> HIDE DEF B
      <3> QED BY <1>3
    <2> HIDE DEF B
    <2> QED BY <2>1, <2>2, LeastNatural
  <1> DEFINE b == n - k
  <1>5. a \in 1..n /\ b \in 1..n /\ a <= i /\ i <= b
    OBVIOUS
  <1>6. \A j \in a..b : L(j) = L(i)
    OBVIOUS
  <1>7. a - 1 \in 1..n => L(a - 1) # L(a)
    <2> SUFFICES ASSUME a - 1 \in 1..n, L(a - 1) = L(a) PROVE FALSE
      OBVIOUS
    <2>1. \A j \in (a - 1)..i : j = a - 1 \/ j \in a..i
      BY <1>5
    <2>2. a - 1 \in A
      BY <1>5, <1>6, <2>1
    <2> HIDE DEF A
    <2> QED BY <1>2, <1>5, <2>2
  <1>8. b + 1 \in 1..n => L(b + 1) # L(b)
    <2> SUFFICES ASSUME b + 1 \in 1..n, L(b + 1) = L(b) PROVE FALSE
      OBVIOUS
    <2>1. k - 1 \in 0..n /\ n - (k - 1) = b + 1
      BY <1>5
    <2>2. \A j \in i..(b + 1) : j = b + 1 \/ j \in i..b
      BY <1>5
    <2>3. k - 1 \in B
      BY <1>5, <1>6, <2>1, <2>2
    <2>4. k \in Int /\ ~(k <= k - 1)
      OBVIOUS
    <2> HIDE DEF B
    <2> QED BY <1>4, <2>3, <2>4
  <1> HIDE DEF b
  <1>9. L(a) = L(i) /\ L(b) = L(i)
    BY <1>5, <1>6
  <1>10. a..b \subseteq 1..n
    BY <1>5
  <1>11. NaturalRun(v, a, b, 1..n)
    <2> HIDE DEF A, B
    <2> QED BY <1>6, <1>7, <1>8, <1>9, <1>10 DEF NaturalRun
  <1> QED BY <1>5, <1>11

\* ... and in no other.
LEMMA OneRunAround ==
    ASSUME NEW v, NEW n \in Nat, NEW i \in 1..n
    PROVE  \A a, b, c, d \in 1..n :
              /\ a <= i /\ i <= b /\ NaturalRun(v, a, b, 1..n)
              /\ c <= i /\ i <= d /\ NaturalRun(v, c, d, 1..n)
              => a = c /\ b = d
  <1> SUFFICES ASSUME NEW a \in 1..n, NEW b \in 1..n, a <= i, i <= b, NaturalRun(v, a, b, 1..n),
                      NEW c \in 1..n, NEW d \in 1..n, c <= i, i <= d, NaturalRun(v, c, d, 1..n)
               PROVE  a = c /\ b = d
    OBVIOUS
  <1> DEFINE L(j) == Outline[v][j]
  <1>1. /\ \A j \in a..b : L(j) = L(a)
        /\ a - 1 \in 1..n => L(a - 1) # L(a)
        /\ b + 1 \in 1..n => L(b + 1) # L(a)
    BY DEF NaturalRun
  <1>2. /\ \A j \in c..d : L(j) = L(c)
        /\ c - 1 \in 1..n => L(c - 1) # L(c)
        /\ d + 1 \in 1..n => L(d + 1) # L(c)
    BY DEF NaturalRun
  <1>3. i \in a..b /\ i \in c..d
    OBVIOUS
  <1>4. L(a) = L(c)
    BY <1>1, <1>2, <1>3
  <1>5. ~(a < c)
    <2> SUFFICES ASSUME a < c PROVE FALSE
      OBVIOUS
    <2>1. c - 1 \in a..b /\ c - 1 \in 1..n
      OBVIOUS
    <2> QED BY <1>1, <1>2, <1>4, <2>1
  <1>6. ~(c < a)
    <2> SUFFICES ASSUME c < a PROVE FALSE
      OBVIOUS
    <2>1. a - 1 \in c..d /\ a - 1 \in 1..n
      OBVIOUS
    <2> QED BY <1>1, <1>2, <1>4, <2>1
  <1>7. ~(b < d)
    <2> SUFFICES ASSUME b < d PROVE FALSE
      OBVIOUS
    <2>1. b + 1 \in c..d /\ b + 1 \in 1..n
      OBVIOUS
    <2> QED BY <1>1, <1>2, <1>4, <2>1
  <1>8. ~(d < b)
    <2> SUFFICES ASSUME d < b PROVE FALSE
      OBVIOUS
    <2>1. d + 1 \in a..b /\ d + 1 \in 1..n
      OBVIOUS
    <2> QED BY <1>1, <1>2, <1>4, <2>1
  <1> QED BY <1>5, <1>6, <1>7, <1>8

\* The passages of a version that the profiles may not read are reported, each
\* for one reason; the others are in one run.
LEMMA Accounted ==
    ASSUME StructureAssumption, NEW request, NEW maximum, NEW p \in Permitted(request)
    PROVE  LET sections == Proposals(request, maximum) \cup Omissions(request, maximum)
               parts == {u \in sections : p \in Members(u)}
               reasons == {e \in Exclusions(request) : e[1] = p}
           IN Cardinality(parts) + Cardinality(reasons) = 1
  <1> DEFINE sections == Proposals(request, maximum) \cup Omissions(request, maximum)
             parts == {u \in sections : p \in Members(u)}
             reasons == {e \in Exclusions(request) : e[1] = p}
  <1>1. sections = RunsOf(request)
    BY DEF Proposals, Omissions
  <1>2. PICK v \in Fragments, i \in Int : p = <<v, i>> /\ i \in 1..PagesOf[v]
    BY DEF Permitted, Passages
  <1>3. PagesOf[v] \in Nat
    BY DEF StructureAssumption
  <1>4. i \in OrdinalsOf(v, Permitted(request)) /\ p[1] = v
    BY <1>2 DEF OrdinalsOf
  <1> DEFINE noGap == <<p, "noncontiguous_permitted_version">>
             noSection == <<p, "unsupported_source_address">>
             hiding == <<p, "fragment_level_exclusion_present">>
  <1>5. \A e : e \in {d \in LeftOut(request) : d[1] = p} <=>
                  /\ v \notin Contiguous(request)
                  /\ e = IF IsMarkdown(v) THEN noGap ELSE noSection
    BY <1>4 DEF LeftOut
  <1>6. v \in Contiguous(request) => IsMarkdown(v)
    BY DEF Contiguous
  <1>7. \A u \in RunsOf(request) : p \in Members(u) =>
           \E a, b \in 1..PagesOf[v] : /\ v \in Described(request) /\ a <= i /\ i <= b
                                       /\ u = Unit(v, a, b) /\ NaturalRun(v, a, b, 1..PagesOf[v])
    <2> SUFFICES ASSUME NEW u \in RunsOf(request), p \in Members(u)
                 PROVE  \E a, b \in 1..PagesOf[v] :
                           /\ v \in Described(request) /\ a <= i /\ i <= b
                           /\ u = Unit(v, a, b) /\ NaturalRun(v, a, b, 1..PagesOf[v])
      OBVIOUS
    <2>1. PICK w \in Described(request) : \E a, b \in 1..PagesOf[w] :
                  a <= b /\ u = Unit(w, a, b) /\ NaturalRun(w, a, b, 1..PagesOf[w])
      BY RunsAre
    <2>2. PICK a \in 1..PagesOf[w], b \in 1..PagesOf[w] :
                  a <= b /\ u = Unit(w, a, b) /\ NaturalRun(w, a, b, 1..PagesOf[w])
      BY <2>1
    <2>3. p \in {w} \X (a..b)
      BY <2>2 DEF Unit, Members
    <2>4. w = v /\ a <= i /\ i <= b
      BY <1>2, <2>3
    <2> QED BY <2>2, <2>4
  <1>8. ASSUME v \in Described(request) PROVE (\E u : parts = {u}) /\ reasons = {}
    <2>1. /\ ~HidesPassages(request) /\ v \in Contiguous(request)
      BY <1>8, DescribedIsWhole DEF HidesPassages
    <2>2. reasons = {}
      BY <1>5, <2>1 DEF Exclusions
    <2>3. PICK a \in 1..PagesOf[v], b \in 1..PagesOf[v] :
                 a <= i /\ i <= b /\ NaturalRun(v, a, b, 1..PagesOf[v])
      BY <1>2, <1>3, RunAround
    <2>4. Unit(v, a, b) \in RunsOf(request)
      BY <1>8, <2>3, RunsAre
    <2>5. p \in Members(Unit(v, a, b))
      BY <1>2, <2>3 DEF Unit, Members
    <2>6. ASSUME NEW u \in RunsOf(request), p \in Members(u) PROVE u = Unit(v, a, b)
      <3>1. PICK c \in 1..PagesOf[v], d \in 1..PagesOf[v] :
                 c <= i /\ i <= d /\ u = Unit(v, c, d) /\ NaturalRun(v, c, d, 1..PagesOf[v])
        BY <1>7, <2>6
      <3>2. a = c /\ b = d
        <4> DEFINE n == PagesOf[v]
        <4>1. n \in Nat /\ i \in 1..n
          BY <1>2, <1>3
        <4> HIDE DEF n
        <4>2. \A k, l, j, m \in 1..n : /\ k <= i /\ i <= l /\ NaturalRun(v, k, l, 1..n)
                                       /\ j <= i /\ i <= m /\ NaturalRun(v, j, m, 1..n)
                                       => k = j /\ l = m
          BY <4>1, OneRunAround
        <4> QED BY <2>3, <3>1, <4>2 DEF n
      <3> QED BY <3>1, <3>2
    <2>7. parts = {Unit(v, a, b)}
      BY <1>1, <2>4, <2>5, <2>6
    <2> QED BY <2>2, <2>7
  <1>9. ASSUME v \notin Described(request) PROVE parts = {} /\ \E e : reasons = {e}
    <2>1. parts = {}
      BY <1>1, <1>7, <1>9
    <2>2. CASE ~HidesPassages(request)
      <3>1. v \notin Contiguous(request)
        BY <1>9, <2>2 DEF Described
      <3>2. reasons = {IF IsMarkdown(v) THEN noGap ELSE noSection}
        BY <1>5, <2>2, <3>1 DEF Exclusions
      <3> QED BY <2>1, <3>2
    <2>3. CASE HidesPassages(request)
      <3>1. \A e : e \in reasons <=>
               \/ e[2] = "unsupported_source_address" /\ e \in {d \in LeftOut(request) : d[1] = p}
               \/ IsMarkdown(v) /\ e = hiding
        BY <1>4, <2>3 DEF Exclusions, KeptBesideHidden
      <3>2. reasons = {IF IsMarkdown(v) THEN hiding ELSE noSection}
        BY <1>5, <1>6, <3>1
      <3> QED BY <2>1, <3>2
    <2> QED BY <2>2, <2>3
  <1> HIDE DEF parts, reasons
  <1>10. Cardinality(parts) + Cardinality(reasons) = 1
    <2>1. CASE v \in Described(request)
      <3>1. Cardinality(parts) = 1 /\ Cardinality(reasons) = 0
        BY <1>8, <2>1, FS_Singleton, FS_EmptySet
      <3> QED BY <3>1
    <2>2. CASE v \notin Described(request)
      <3>1. Cardinality(parts) = 0 /\ Cardinality(reasons) = 1
        BY <1>9, <2>2, FS_Singleton, FS_EmptySet
      <3> QED BY <3>1
    <2> QED BY <2>1, <2>2
  <1> QED BY <1>10 DEF parts, reasons

\* "Reported and never split": whatever a request is permitted is in one
\* proposal, in one omission or under one exclusion, and in one only.
THEOREM PermittedIsAlwaysAccountedFor ==
    ASSUME StructureAssumption
    PROVE  StructureSpec => []PermittedIsAccountedFor
  <1>1. PermittedIsAccountedFor
    BY Accounted DEF PermittedIsAccountedFor
  <1> QED BY <1>1, PTL

----------------------------------------------------------------------------
(* Preparations                                                            *)
(* A session that admits a scope holds the corpus that a protected read of *)
(* it would give today, so a drilldown that reads again reads the same.    *)

\* Packets are never removed.
LEMMA PacketsGrow == ASSUME [Next]_vars PROVE packets \subseteq packets'
  <1>1. ASSUME NEW r \in Runs, CompleteScoped(r) PROVE packets \subseteq packets'
    BY <1>1 DEF CompleteScoped, Write, store
  <1> QED BY <1>1 DEF Next, vars, Ingest, Freeze, Restart, OpenSession, RecallInSession, Recall,
              RecallBatch, Replay, Complete, Write, CompleteBatch, Fail, store, process, world

\* A preparation at hand or cited is that of its packet and its spec.
PreparationInv ==
    /\ \A held \in prepared \cup drafts :
          /\ held.packet \in packets /\ held.spec \in Specs
          /\ held = AgentAnswerPreparation(Prepare(Scope(held.packet.request)),
                                           held.packet, held.spec)
    /\ \A draft \in drafts : draft.decision = "ready"

LEMMA CorpusIsPrepared ==
    ASSUME IInv, NEW k \in Sessions, NEW scope, SessionAdmits(k, scope)
    PROVE  CorpusOf(k, scope) = Prepare(scope)
  BY DEF IInv, SessionInv, IsPrepared, SessionAdmits, CorpusOf

\* A stored packet's binding loads.
LEMMA BindingLoads == ASSUME IInv, NEW p \in packets PROVE LoadsBinding(p)
  BY InvReads DEF PacketsStayReadable, Loads, LoadsBinding

\* Either call leaves RecallStore's variables as they are, but for a session
\* that it may open with the corpus of the packet's scope.
LEMMA DrilldownKeeps ==
    ASSUME IInv, NEW k \in Sessions, NEW p \in packets, SessionAdmits(k, Scope(p.request)),
           \/ session' = session
           \/ session' = [session EXCEPT ![k] = CorpusOf(k, Scope(p.request))],
           UNCHANGED <<world, code, cache, store>>
    PROVE  IInv'
  <1>1. UNCHANGED <<snapshots, code, cache, run, receipts, readSets, packets>>
    BY DEF world, store
  <1>2. IsPrepared(CorpusOf(k, Scope(p.request)))
    <2>1. PICK r \in Runs : run[r].status = "succeeded" /\ run[r].packet = p
      BY DEF IInv, PacketInv
    <2>2. Formed(p.request.snapshot)
      BY <2>1 DEF IInv, RunInv, Holds, Good
    <2>3. Scope(p.request).snapshot = p.request.snapshot
      BY DEF Scope
    <2> DEFINE scope == Scope(p.request)
               corpus == CorpusOf(k, scope)
    <2>4. corpus = Prepare(scope)
      BY CorpusIsPrepared
    <2> HIDE DEF scope, corpus
    <2>5. corpus.scope = scope
      BY <2>4, PreparedFacts
    <2>6. corpus.scope.snapshot = p.request.snapshot
      BY <2>3, <2>5 DEF scope
    <2>7. IsPrepared(corpus)
      BY <2>2, <2>4, <2>5, <2>6 DEF IsPrepared
    <2> QED BY <2>7 DEF corpus, scope
  <1>3. SessionInv'
    BY <1>2 DEF IInv, SessionInv
  <1>4. RunInv'
    BY <1>1 DEF IInv, RunInv, Holds, BatchHolds, InHand
  <1>5. WorldInv' /\ PacketInv' /\ ReceiptInv' /\ CacheInv'
    BY <1>1 DEF IInv, WorldInv, PacketInv, ReceiptInv, CacheInv
  <1> QED BY <1>3, <1>4, <1>5 DEF IInv

LEMMA PreparationFields ==
    ASSUME NEW corpus, NEW p, NEW spec
    PROVE  /\ AgentAnswerPreparation(corpus, p, spec).packet = p
           /\ AgentAnswerPreparation(corpus, p, spec).spec = spec
  BY DEF AgentAnswerPreparation

LEMMA PreparationStep ==
    ASSUME RecallAssumption, IInv, PreparationInv, [PreparationNext]_preparationState
    PROVE  IInv' /\ PreparationInv'
  <1>1. ASSUME Next \/ UNCHANGED vars, UNCHANGED preparing PROVE IInv' /\ PreparationInv'
    <2>1. IInv'
      BY <1>1, StepHolds
    <2>2. packets \subseteq packets' /\ prepared' = prepared /\ drafts' = drafts
      BY <1>1, PacketsGrow DEF preparing
    <2> QED BY <2>1, <2>2 DEF PreparationInv
  <1>2. ASSUME NEW k \in Sessions, NEW p \in packets, NEW spec \in Specs, PrepareAnswer(k, p, spec)
        PROVE  IInv' /\ PreparationInv'
    <2>1. /\ SessionAdmits(k, Scope(p.request))
          /\ prepared' = prepared \cup {Prepared(k, p, spec)}
          /\ packets' = packets /\ drafts' = drafts
          /\ \/ session' = session
             \/ session' = [session EXCEPT ![k] = CorpusOf(k, Scope(p.request))]
          /\ UNCHANGED <<world, code, cache, store>>
      BY <1>2 DEF PrepareAnswer, MayPrepare, store
    <2>2. IInv'
      BY <2>1, DrilldownKeeps
    <2>3. Prepared(k, p, spec) = AgentAnswerPreparation(Prepare(Scope(p.request)), p, spec)
      BY <2>1, CorpusIsPrepared DEF Prepared
    <2>4. PreparationInv'
      BY <2>1, <2>3, PreparationFields DEF PreparationInv
    <2> QED BY <2>2, <2>4
  <1>3. ASSUME NEW k \in Sessions, NEW held \in prepared, RecordDraft(k, held)
        PROVE  IInv' /\ PreparationInv'
    <2>1. /\ SessionAdmits(k, Scope(held.packet.request))
          /\ prepared' = prepared /\ packets' = packets /\ held.packet \in packets
          /\ drafts' = drafts \cup {held} /\ held.decision = "ready"
          /\ \/ session' = session
             \/ session' = [session EXCEPT ![k] = CorpusOf(k, Scope(held.packet.request))]
          /\ UNCHANGED <<world, code, cache, store>>
      BY <1>3 DEF RecordDraft, MayPrepare, store, PreparationInv
    <2>2. IInv'
      BY <2>1, DrilldownKeeps
    <2>3. PreparationInv'
      BY <2>1 DEF PreparationInv
    <2> QED BY <2>2, <2>3
  <1> QED BY <1>1, <1>2, <1>3 DEF PreparationNext, preparationState

LEMMA AlwaysPreparationInv ==
    ASSUME RecallAssumption
    PROVE  PreparationSpec => [](IInv /\ PreparationInv)
  <1>1. PreparationInit => IInv /\ PreparationInv
    BY InitHolds DEF PreparationInit, PreparationInv
  <1>2. IInv /\ PreparationInv /\ [PreparationNext]_preparationState => (IInv /\ PreparationInv)'
    BY PreparationStep
  <1> QED BY <1>1, <1>2, PTL DEF PreparationSpec

\* A preparation computes again as it was, whatever was ingested, frozen,
\* recalled or restarted since: record_draft refuses changed preparations only,
\* never a changed Library.
THEOREM PreparationsAlwaysReplay ==
    ASSUME RecallAssumption
    PROVE  PreparationSpec => []PreparationsReplay
  <1>1. ASSUME IInv, PreparationInv PROVE PreparationsReplay
    <2> SUFFICES ASSUME NEW held \in prepared
                 PROVE  /\ LoadsBinding(held.packet)
                        /\ \A k \in Sessions : MayPrepare(k, held.packet, held.spec) =>
                              Prepared(k, held.packet, held.spec) = held
      BY DEF PreparationsReplay
    <2>1. LoadsBinding(held.packet)
      BY <1>1, BindingLoads DEF PreparationInv
    <2>2. ASSUME NEW k \in Sessions, MayPrepare(k, held.packet, held.spec)
          PROVE  Prepared(k, held.packet, held.spec) = held
      BY <1>1, <2>2, CorpusIsPrepared DEF MayPrepare, Prepared, PreparationInv
    <2> QED BY <2>1, <2>2
  <1> QED BY <1>1, AlwaysPreparationInv, PTL

----------------------------------------------------------------------------
(* Drafts                                                                  *)
(* Coverage grows with the passages, so a passage that the gate missed     *)
(* while there were more is missed to the end: one pass is enough.         *)

\* The families of finitely many passages are finitely many.
LEMMA GroupsFinite ==
    ASSUME NEW passages, IsFiniteSet(passages)
    PROVE  IsFiniteSet(Groups(passages)) /\ Cardinality(Groups(passages)) \in Nat
  <1> DEFINE f == [c \in passages |-> Family[c.version[1]]]
  <1>1. f \in Surjection(passages, Groups(passages))
    BY DEF Surjection, Groups
  <1> QED BY <1>1, FS_Surjection, FS_CardinalityType

\* More passages satisfy what fewer did.
LEMMA SatisfiedGrows ==
    ASSUME NEW spec \in EvidenceGateSpec, NEW passages, IsFiniteSet(passages),
           NEW part \in SUBSET passages, Satisfied(spec, part)
    PROVE  Satisfied(spec, passages)
  <1>1. ASSUME NEW q
        PROVE  /\ Groups(Matching(q, part)) \subseteq Groups(Matching(q, passages))
               /\ Groups(Matching(q, passages)) \subseteq Groups(passages)
    BY DEF Groups, Matching
  <1>2. ASSUME NEW larger, larger \subseteq Groups(passages), NEW smaller \in SUBSET larger
        PROVE  /\ Cardinality(larger) \in Nat /\ Cardinality(smaller) \in Nat
               /\ Cardinality(smaller) <= Cardinality(larger)
    BY <1>2, GroupsFinite, FS_Subset, FS_CardinalityType
  <1>3. spec.total \in Nat /\ \A q \in spec.requirements : q.needed \in Nat
    BY DEF EvidenceGateSpec, EvidenceRequirement
  <1>4. Missing(spec, part) = {}
    BY DEF Satisfied
  <1>5. ASSUME NEW q \in spec.requirements PROVE Covered(q, passages)
    <2>1. Cardinality(Groups(Matching(q, part))) >= q.needed
      BY <1>4 DEF Missing, Covered
    <2>2. /\ Cardinality(Groups(Matching(q, passages))) \in Nat
          /\ Cardinality(Groups(Matching(q, part))) \in Nat
          /\ Cardinality(Groups(Matching(q, part))) <= Cardinality(Groups(Matching(q, passages)))
      BY <1>1, <1>2
    <2> QED BY <1>3, <2>1, <2>2 DEF Covered
  <1>6. Missing(spec, passages) = {}
    BY <1>5 DEF Missing
  <1>7. EnoughInTotal(spec, passages)
    <2> DEFINE All(S) == UNION {Groups(Matching(q, S)) : q \in spec.requirements}
    <2>1. Cardinality(All(part)) >= spec.total
      BY <1>4 DEF Satisfied, EnoughInTotal
    <2>2. All(part) \subseteq All(passages) /\ All(passages) \subseteq Groups(passages)
      BY <1>1
    <2>3. Cardinality(All(passages)) >= spec.total
      <3> HIDE DEF All
      <3> QED BY <1>2, <1>3, <2>1, <2>2
    <2> QED BY <1>6, <2>3 DEF EnoughInTotal
  <1> QED BY <1>6, <1>7 DEF Satisfied

LEMMA ReadyIsSatisfied ==
    ASSUME NEW spec \in EvidenceGateSpec, NEW passages
    PROVE  Decision(spec, passages) = "ready" <=> spec.answerable /\ Satisfied(spec, passages)
  <1>1. spec.answerable \in BOOLEAN
    BY DEF EvidenceGateSpec
  <1>2. CASE spec.answerable /\ Satisfied(spec, passages)
    BY <1>2 DEF Decision
  <1>3. CASE spec.answerable /\ ~ Satisfied(spec, passages)
    BY <1>3 DEF Decision
  <1>4. CASE ~ spec.answerable
    BY <1>4 DEF Decision
  <1> QED BY <1>1, <1>2, <1>3, <1>4

\* What matches no requirement carries nothing.
LEMMA MatchedSatisfies ==
    ASSUME NEW spec, NEW passages, Satisfied(spec, passages)
    PROVE  Satisfied(spec, {c \in passages : \E q \in spec.requirements : Satisfies(q, c)})
  <1> DEFINE matched == {c \in passages : \E q \in spec.requirements : Satisfies(q, c)}
  <1>1. \A q \in spec.requirements : Matching(q, matched) = Matching(q, passages)
    BY DEF Matching
  <1>2. Missing(spec, matched) = Missing(spec, passages)
    BY <1>1 DEF Missing, Covered
  <1>3. {Groups(Matching(q, matched)) : q \in spec.requirements \ Missing(spec, matched)}
            = {Groups(Matching(q, passages)) : q \in spec.requirements \ Missing(spec, passages)}
    BY <1>1, <1>2
  <1> QED BY <1>2, <1>3 DEF Satisfied, EnoughInTotal

\* Every candidate has a place, and no two have the same.
LEMMA PlacesDiffer ==
    ASSUME PreparationAssumption, NEW broad, NEW added,
           broad \subseteq LibraryPassages, added \subseteq LibraryPassages, broad \cap added = {}
    PROVE  /\ Cardinality(broad \cup added) \in Nat
           /\ \A c \in broad \cup added : Place(c, broad, added) \in 1..Cardinality(broad \cup added)
           /\ \A c, d \in broad \cup added :
                 Place(c, broad, added) = Place(d, broad, added) => c = d
  <1> DEFINE all == broad \cup added
             Ahead(c) == IF c \in broad THEN UpTo(c, broad) ELSE broad \cup UpTo(c, added)
  <1>1. IsFiniteSet(all) /\ Cardinality(all) \in Nat
    BY FS_Subset, FS_CardinalityType DEF PreparationAssumption
  <1>2. ASSUME NEW c \in all PROVE Ahead(c) \subseteq all /\ c \in Ahead(c)
    BY DEF UpTo, PreparationAssumption
  <1>3. ASSUME NEW c \in all PROVE Place(c, broad, added) = Cardinality(Ahead(c))
    BY DEF Place
  <1>4. ASSUME NEW c \in all, NEW d \in all PROVE Ahead(c) \subseteq Ahead(d) \/ Ahead(d) \subseteq Ahead(c)
    <2>1. Rank[c] \in Nat /\ Rank[d] \in Nat /\ \A e \in all : Rank[e] \in Nat
      BY DEF PreparationAssumption
    <2> QED BY <2>1 DEF UpTo
  <1>5. ASSUME NEW c \in all, NEW d \in all, Ahead(c) = Ahead(d) PROVE c = d
    <2>1. c \in Ahead(d) /\ d \in Ahead(c)
      BY <1>2, <1>5
    <2>2. Rank[c] \in Nat /\ Rank[d] \in Nat
      BY DEF PreparationAssumption
    <2>3. Rank[c] <= Rank[d] /\ Rank[d] <= Rank[c]
      BY <2>1 DEF UpTo
    <2> QED BY <2>2, <2>3 DEF PreparationAssumption
  <1> HIDE DEF all, Ahead
  <1>6. ASSUME NEW c \in all
        PROVE  IsFiniteSet(Ahead(c)) /\ Cardinality(Ahead(c)) \in 1..Cardinality(all)
    <2>1. IsFiniteSet(Ahead(c)) /\ Cardinality(Ahead(c)) <= Cardinality(all)
      BY <1>1, <1>2, FS_Subset
    <2>2. Cardinality(Ahead(c)) # 0
      BY <1>2, <2>1, FS_EmptySet
    <2>3. Cardinality(Ahead(c)) \in Nat
      BY <2>1, FS_CardinalityType
    <2> QED BY <1>1, <2>1, <2>2, <2>3
  <1>7. ASSUME NEW c \in all, NEW d \in all, Cardinality(Ahead(c)) = Cardinality(Ahead(d))
        PROVE  c = d
    <2>1. CASE Ahead(c) \subseteq Ahead(d)
      BY <1>5, <1>6, <1>7, <2>1, FS_Subset
    <2>2. CASE Ahead(d) \subseteq Ahead(c)
      BY <1>5, <1>6, <1>7, <2>2, FS_Subset
    <2> QED BY <1>4, <2>1, <2>2
  <1>8. \A c \in all : Place(c, broad, added) \in 1..Cardinality(all)
    BY <1>3, <1>6
  <1>9. \A c, d \in all : Place(c, broad, added) = Place(d, broad, added) => c = d
    BY <1>3, <1>7
  <1> QED BY <1>1, <1>8, <1>9 DEF all

\* The compaction as a sequence of sets, one for each candidate it looks at.
Compacting(kept, spec, broad, added, last) ==
    kept = [n \in 0..last |->
               IF n = 0
               THEN {c \in broad \cup added : \E q \in spec.requirements : Satisfies(q, c)}
               ELSE DropSpare(n, kept[n - 1], spec, broad, added)]

LEMMA CompactRuns ==
    ASSUME NEW spec, NEW broad, NEW added, Cardinality(broad \cup added) \in Nat
    PROVE  \E kept : /\ Compacting(kept, spec, broad, added, Cardinality(broad \cup added))
                     /\ Compact(spec, broad, added) = kept[Cardinality(broad \cup added)]
  <1> DEFINE matched == {c \in broad \cup added : \E q \in spec.requirements : Satisfies(q, c)}
             Spare(n, before) == DropSpare(n, before, spec, broad, added)
             Runs1(m) == \E kept : Compacting(kept, spec, broad, added, m)
             stuck == {m \in Nat : ~ Runs1(m)}
             total == Cardinality(broad \cup added)
  <1>1. Runs1(0)
    <2> DEFINE f == [n \in 0..0 |-> matched]
    <2>1. f = [n \in 0..0 |-> IF n = 0 THEN matched ELSE Spare(n, f[n - 1])]
      OBVIOUS
    <2> QED BY <2>1 DEF Compacting
  <1>2. ASSUME NEW m \in Nat, Runs1(m) PROVE Runs1(m + 1)
    <2>1. PICK f : f = [n \in 0..m |-> IF n = 0 THEN matched ELSE Spare(n, f[n - 1])]
      BY <1>2 DEF Compacting
    <2> DEFINE g == [n \in 0..(m + 1) |-> IF n = m + 1 THEN Spare(n, f[m]) ELSE f[n]]
    <2> HIDE DEF Spare, matched
    <2>2. ASSUME NEW n \in 0..(m + 1)
          PROVE  g[n] = IF n = 0 THEN matched ELSE Spare(n, g[n - 1])
      <3>1. CASE n = 0
        BY <2>1, <3>1
      <3>2. CASE n = m + 1
        BY <3>2
      <3>3. CASE n # 0 /\ n # m + 1
        <4>1. n \in 0..m /\ n - 1 \in 0..m /\ n - 1 \in 0..(m + 1) /\ n - 1 # m + 1
          BY <3>3
        <4>2. g[n] = f[n] /\ g[n - 1] = f[n - 1]
          BY <3>3, <4>1
        <4>3. f[n] = Spare(n, f[n - 1])
          BY <2>1, <3>3, <4>1
        <4> QED BY <3>3, <4>2, <4>3
      <3> QED BY <3>1, <3>2, <3>3
    <2>3. g = [n \in 0..(m + 1) |-> IF n = 0 THEN matched ELSE Spare(n, g[n - 1])]
      <3>1. g = [n \in 0..(m + 1) |-> g[n]]
        OBVIOUS
      <3> HIDE DEF g
      <3> QED BY <2>2, <3>1
    <2> QED BY <2>3 DEF Compacting, Spare, matched
  <1> HIDE DEF Runs1
  <1>3. stuck = {}
    <2> SUFFICES ASSUME stuck # {} PROVE FALSE
      OBVIOUS
    <2>1. PICK m \in stuck : \A n \in stuck : m <= n
      BY LeastNatural
    <2>2. m \in Nat /\ m # 0
      BY <1>1, <2>1
    <2>3. m - 1 \in Nat /\ m - 1 \notin stuck
      BY <2>1, <2>2
    <2> QED BY <1>2, <2>1, <2>2, <2>3
  <1>4. \E kept : Compacting(kept, spec, broad, added, total)
    BY <1>3 DEF Runs1
  <1> DEFINE result == CHOOSE kept : Compacting(kept, spec, broad, added, total)
  <1>5. Compacting(result, spec, broad, added, total)
    BY <1>4
  <1>6. Compact(spec, broad, added) = result[total]
    BY DEF Compact, Compacting
  <1> QED BY <1>5, <1>6

\* A compaction that starts ready ends ready, and nothing in it can be spared.
LEMMA CompactIsMinimal ==
    ASSUME PreparationAssumption, NEW spec \in EvidenceGateSpec, NEW broad, NEW added,
           broad \subseteq LibraryPassages, added \subseteq LibraryPassages, broad \cap added = {},
           spec.answerable, Satisfied(spec, broad \cup added)
    PROVE  LET kept == Compact(spec, broad, added)
           IN /\ kept \subseteq broad \cup added
              /\ Satisfied(spec, kept)
              /\ \A c \in kept : ~ Satisfied(spec, kept \ {c})
  <1> DEFINE all == broad \cup added
             total == Cardinality(all)
             matched == {c \in all : \E q \in spec.requirements : Satisfies(q, c)}
             PlaceOf(c) == Place(c, broad, added)
             Sparing(n, S) == {c \in S : PlaceOf(c) # total + 1 - n}
  <1>1. /\ total \in Nat
        /\ \A c \in all : PlaceOf(c) \in 1..total
        /\ \A c, d \in all : PlaceOf(c) = PlaceOf(d) => c = d
    BY PlacesDiffer
  <1>2. PICK kept : /\ Compacting(kept, spec, broad, added, total)
                    /\ Compact(spec, broad, added) = kept[total]
    BY <1>1, CompactRuns
  <1>3. kept[0] = matched
    BY <1>1, <1>2 DEF Compacting
  <1>4. ASSUME NEW n \in 1..total
        PROVE  kept[n] = IF spec.answerable /\ Satisfied(spec, Sparing(n, kept[n - 1]))
                         THEN Sparing(n, kept[n - 1]) ELSE kept[n - 1]
    <2> HIDE DEF total
    <2>1. n \in 0..total /\ n # 0
      BY <1>1
    <2>2. kept[n] = DropSpare(n, kept[n - 1], spec, broad, added)
      BY <1>2, <2>1 DEF Compacting
    <2> USE DEF total
    <2> QED BY <2>2, ReadyIsSatisfied DEF DropSpare
  <1>5. Satisfied(spec, matched) /\ matched \subseteq all
    BY MatchedSatisfies
  <1>6. IsFiniteSet(all)
    BY FS_Subset DEF PreparationAssumption
  <1> HIDE DEF all, matched, PlaceOf, total
  \* Each set contains the next, and all of them satisfy the gate.
  <1> DEFINE Sound(n) == kept[n] \subseteq all /\ Satisfied(spec, kept[n])
             unsound == {n \in 0..total : ~ Sound(n)}
  <1>7. \A n \in 0..total : Sound(n)
    <2> SUFFICES ASSUME unsound # {} PROVE FALSE
      OBVIOUS
    <2>1. unsound \subseteq Nat
      BY <1>1
    <2>2. PICK n \in unsound : \A m \in unsound : n <= m
      BY <2>1, LeastNatural
    <2>3. Sound(0)
      BY <1>3, <1>5
    <2>4. n \in 1..total /\ n - 1 \in 0..total /\ n - 1 \notin unsound
      BY <1>1, <2>2, <2>3
    <2>5. Sound(n - 1)
      BY <2>4
    <2> QED BY <1>4, <2>2, <2>4, <2>5
  <1> DEFINE Shrinks(n) == kept[total] \subseteq kept[total - n]
             grown == {n \in 0..total : ~ Shrinks(n)}
  <1>8. \A n \in 0..total : Shrinks(n)
    <2> SUFFICES ASSUME grown # {} PROVE FALSE
      OBVIOUS
    <2>1. grown \subseteq Nat
      BY <1>1
    <2>2. PICK n \in grown : \A m \in grown : n <= m
      BY <2>1, LeastNatural
    <2>3. Shrinks(0)
      BY <1>1
    <2>4. n \in 1..total /\ n - 1 \in 0..total /\ n - 1 \notin grown
      BY <1>1, <2>2, <2>3
    <2>5. kept[total] \subseteq kept[total - (n - 1)]
      BY <2>4
    <2>6. total - n + 1 \in 1..total /\ total - n + 1 - 1 = total - n
          /\ total - (n - 1) = total - n + 1
      BY <1>1, <2>4
    <2>7. kept[total - n + 1] \subseteq kept[total - n]
      <3>1. \A m \in 1..total : kept[m] \subseteq kept[m - 1]
        BY <1>4
      <3> DEFINE m == total - n + 1
      <3>2. m \in 1..total /\ m - 1 = total - n
        BY <1>1, <2>4
      <3> HIDE DEF m
      <3>3. kept[m] \subseteq kept[m - 1]
        BY <3>1, <3>2
      <3> QED BY <3>2, <3>3 DEF m
    <2> QED BY <2>2, <2>5, <2>6, <2>7
  <1>9. kept[total] \subseteq all /\ Satisfied(spec, kept[total])
    BY <1>1, <1>7
  <1>10. ASSUME NEW c \in kept[total], Satisfied(spec, kept[total] \ {c}) PROVE FALSE
    <2> DEFINE n == total + 1 - PlaceOf(c)
               before == kept[n - 1]
    <2>1. c \in all /\ PlaceOf(c) \in 1..total
      BY <1>1, <1>9
    <2>2. n \in 1..total /\ total + 1 - n = PlaceOf(c) /\ n - 1 \in 0..total
      BY <1>1, <2>1
    <2>3. total - n \in 0..total /\ total - (n - 1) \in 0..total
          /\ total - (total - n) = n /\ total - (total - (n - 1)) = n - 1
      BY <1>1, <2>2
    <2>4. c \in kept[n] /\ kept[total] \subseteq before
      <3>1. Shrinks(total - n) /\ Shrinks(total - (n - 1))
        BY <1>8, <2>3
      <3> QED BY <2>3, <3>1
    <2>5. before \subseteq all
      BY <1>7, <2>2
    <2>6. Sparing(n, before) = before \ {c}
      BY <1>1, <2>1, <2>2, <2>5
    <2>7. ~ Satisfied(spec, before \ {c})
      <3> HIDE DEF n
      <3>1. c \notin Sparing(n, before)
        BY <2>2
      <3> QED BY <1>4, <2>2, <2>4, <2>6, <3>1
    <2>8. IsFiniteSet(before \ {c}) /\ kept[total] \ {c} \in SUBSET (before \ {c})
      BY <1>6, <2>4, <2>5, FS_Subset
    <2> HIDE DEF before, n
    <2> QED BY <1>10, <2>7, <2>8, SatisfiedGrows
  <1> QED BY <1>2, <1>9, <1>10 DEF all

\* The candidates of a preparation are passages of the Library that the scope
\* of its packet permits, without noise, the broad ones apart from the added.
LEMMA CandidatesArePermitted ==
    ASSUME PreparationAssumption, NEW p, Good(p), NEW spec
    PROVE  LET corpus == Prepare(Scope(p.request))
               broad == Eligible(BroadOf(p))
               added == Added(corpus, p, spec)
           IN /\ broad \subseteq LibraryPassages /\ added \subseteq LibraryPassages
              /\ broad \cap added = {}
              /\ \A c \in broad \cup added :
                    /\ Key(c) \notin Noise
                    /\ c.version \in Compile(p.request.snapshot, p.request.terms).permitted
  <1> DEFINE corpus == Prepare(Scope(p.request))
             permitted == Compile(p.request.snapshot, p.request.terms).permitted
             added == Added(corpus, p, spec)
             broad == Eligible(BroadOf(p))
  <1>1. corpus.permitted = permitted
    BY PreparedFacts DEF Scope
  <1>2. permitted \subseteq Fragments
    BY DEF Compile
  <1>3. p.trace \subseteq permitted
    BY <1>1, GoodFacts
  <1> HIDE DEF corpus, permitted
  <1>4. BroadOf(p) \subseteq PassagesOf(permitted, Parts)
    BY <1>3 DEF BroadOf, PassagesOf, PreparationAssumption
  <1>5. \A c \in added : /\ c \in PassagesOf(permitted, Parts) /\ c \notin BroadOf(p)
                         /\ Key(c) \notin Noise
    BY <1>1 DEF Added, Drilldown, Eligible
  <1>6. \A c \in broad : c \in BroadOf(p) /\ Key(c) \notin Noise
    BY DEF Eligible
  <1> HIDE DEF added, broad
  <1>7. PassagesOf(permitted, Parts) \subseteq LibraryPassages
    BY <1>2 DEF PassagesOf, LibraryPassages
  <1>8. \A c \in PassagesOf(permitted, Parts) : c.version \in permitted
    BY DEF PassagesOf
  <1>9. broad \subseteq LibraryPassages /\ added \subseteq LibraryPassages
    BY <1>4, <1>5, <1>6, <1>7
  <1>10. broad \cap added = {}
    BY <1>5, <1>6
  <1>11. \A c \in broad \cup added : Key(c) \notin Noise /\ c.version \in permitted
    BY <1>4, <1>5, <1>6, <1>8
  <1> QED BY <1>9, <1>10, <1>11 DEF corpus, permitted, added, broad

\* What DraftsAreGrounded says of a draft, in the terms of the gate.
GroundedIn(draft) ==
    /\ Satisfied(draft.spec, draft.candidates)
    /\ \A c \in draft.candidates :
          /\ ~ Satisfied(draft.spec, draft.candidates \ {c})
          /\ Key(c) \notin Noise
          /\ c.version \in Compile(draft.packet.request.snapshot,
                                   draft.packet.request.terms).permitted

LEMMA ReadyIsGrounded ==
    ASSUME PreparationAssumption, NEW p, Good(p), NEW spec \in Specs, NEW draft,
           draft = AgentAnswerPreparation(Prepare(Scope(p.request)), p, spec),
           draft.decision = "ready"
    PROVE  GroundedIn(draft)
  <1> DEFINE broad == Eligible(BroadOf(p))
             added == Added(Prepare(Scope(p.request)), p, spec)
             permitted == Compile(p.request.snapshot, p.request.terms).permitted
  <1>1. /\ draft.packet = p /\ draft.spec = spec
        /\ draft.decision = Decision(spec, broad \cup added)
        /\ draft.candidates = IF Decision(spec, broad \cup added) = "ready"
                              THEN Compact(spec, broad, added) ELSE broad \cup added
    BY DEF AgentAnswerPreparation
  <1>2. /\ broad \subseteq LibraryPassages /\ added \subseteq LibraryPassages
        /\ broad \cap added = {}
        /\ \A c \in broad \cup added : Key(c) \notin Noise /\ c.version \in permitted
    BY CandidatesArePermitted
  <1>3. spec \in EvidenceGateSpec
    BY DEF PreparationAssumption
  <1> HIDE DEF broad, added, permitted
  <1>4. spec.answerable /\ Satisfied(spec, broad \cup added)
    BY <1>1, <1>3, ReadyIsSatisfied
  <1> DEFINE kept == Compact(spec, broad, added)
  <1>5. /\ kept \subseteq broad \cup added
        /\ Satisfied(spec, kept)
        /\ \A c \in kept : ~ Satisfied(spec, kept \ {c})
    BY <1>2, <1>3, <1>4, CompactIsMinimal
  <1>6. draft.candidates = kept
    BY <1>1
  <1> HIDE DEF kept
  <1> QED BY <1>1, <1>2, <1>5, <1>6 DEF GroundedIn, permitted

\* The gate is satisfied when every requirement has its families and all of
\* them together are enough.
LEMMA SatisfiedCarries ==
    ASSUME NEW spec, NEW passages
    PROVE  LET FamiliesFor(q) == {Family[c.version[1]] : c \in Matching(q, passages)}
           IN Satisfied(spec, passages) <=>
                 /\ \A q \in spec.requirements : Cardinality(FamiliesFor(q)) >= q.needed
                 /\ Cardinality(UNION {FamiliesFor(q) : q \in spec.requirements}) >= spec.total
  <1> DEFINE FamiliesFor(q) == {Family[c.version[1]] : c \in Matching(q, passages)}
  <1>1. \A q : Groups(Matching(q, passages)) = FamiliesFor(q)
    BY DEF Groups
  <1>2. Missing(spec, passages) = {} <=>
           \A q \in spec.requirements : Cardinality(FamiliesFor(q)) >= q.needed
    BY <1>1 DEF Missing, Covered
  <1>3. ASSUME Missing(spec, passages) = {}
        PROVE  EnoughInTotal(spec, passages) <=>
                  Cardinality(UNION {FamiliesFor(q) : q \in spec.requirements}) >= spec.total
    <2>1. {Groups(Matching(q, passages)) : q \in spec.requirements \ Missing(spec, passages)}
              = {FamiliesFor(q) : q \in spec.requirements}
      BY <1>1, <1>3
    <2> QED BY <2>1 DEF EnoughInTotal
  <1> QED BY <1>2, <1>3 DEF Satisfied

\* A draft cites passages that its packet's scope permits and that are no
\* noise, enough of them from families that are really different, and not one
\* that could be left out - for any gate specs, anchors, ranks and noise.
THEOREM DraftsAreAlwaysGrounded ==
    ASSUME RecallAssumption, PreparationAssumption
    PROVE  PreparationSpec => []DraftsAreGrounded
  <1>1. ASSUME IInv, PreparationInv, NEW draft \in drafts PROVE GroundedIn(draft)
    <2>1. Good(draft.packet)
      BY <1>1 DEF PreparationInv, IInv, PacketInv, RunInv, Holds
    <2> QED BY <1>1, <2>1, ReadyIsGrounded DEF PreparationInv
  <1>2. ASSUME IInv, PreparationInv PROVE DraftsAreGrounded
    BY <1>1, <1>2, SatisfiedCarries DEF DraftsAreGrounded, GroundedIn
  <1> QED BY <1>2, AlwaysPreparationInv, PTL
====
