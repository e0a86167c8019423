---- MODULE RecallStore ----
(***************************************************************************)
(* What recall persists (persistence/recall.py) and what it may read       *)
(* (access/compiler.py): content-addressed QueryRequests, receipts, shared *)
(* read sets and EvidencePackets, written by three completion paths that   *)
(* verify different things - the full path, the path of a scope session    *)
(* through an in-process cache of validated scopes, and the batch - and    *)
(* read back by load_evidence_packet, which verifies everything again.     *)
(* The Library goes on changing under requests bound to old snapshots.     *)
(*                                                                         *)
(* A row is its content; its ID and hash are functions of it.  A Source    *)
(* version is one fragment.  Every action is one transaction; RecallRun    *)
(* has the failures of a call.                                             *)
(***************************************************************************)
EXTENDS Integers, Sequences, FiniteSets

CONSTANTS
    Collections, Holdouts, Sources,
    Feeds,         \* <<Collection, Source>>: the files each Collection watches
    Scopes,        \* the sets of Collections that are frozen together
    Family,        \* Source -> its SourceFamily
    Terms,         \* what a request adds to its snapshot: policy and exclusions
    Questions,
    Answering,     \* Question -> the Sources whose text matches it
    Codes,         \* versions of the program and its FTS profile
    Sessions,      \* scope sessions: each is its own capability
    Capacity,      \* _VALIDATED_SCOPE_CACHE_CAPACITY
    None,
    MaxVersions,   \* bound: Source -> its versions
    MaxSnapshots,  \* bound: frozen snapshots
    MaxRuns        \* bound: ProcessingRuns

ASSUME RecallAssumption ==
    /\ Holdouts \subseteq Collections
    /\ Feeds \subseteq Collections \X Sources
    /\ Scopes \subseteq SUBSET Collections
    /\ Terms \subseteq [allowed : SUBSET Collections, denied : SUBSET Sources,
                        excluded : SUBSET (Sources \cup {Family[s] : s \in Sources})]
    /\ Answering \in [Questions -> SUBSET Sources]
    /\ Capacity \in Nat \ {0}
    /\ MaxRuns \in Nat
    /\ None \notin Sessions

VARIABLES
    head,          \* source_heads: the current version of a Source, 0 if none
    membership,    \* collection_memberships
    snapshots,     \* corpus_snapshots with their members
    code,          \* the version of the running process
    session,       \* its open scope sessions
    cache,         \* _validated_scopes, least recently used first
    run,           \* processing_runs, with the packet held in memory meanwhile
    receipts,      \* the four receipt tables: content and first run
    readSets,      \* corpus_read_sets
    packets        \* evidence_packets and packet_items

world == <<head, membership, snapshots>>
process == <<code, session, cache>>
store == <<run, receipts, readSets, packets>>
vars == <<head, membership, snapshots, code, session, cache, run, receipts, readSets, packets>>

Fragments == UNION {{s} \X (1..MaxVersions[s]) : s \in Sources}
Runs == 1..MaxRuns
NoRun == [status |-> "absent"]

\* What else these rows say nobody reads again.
FailedRun == [status |-> "failed"]
Orphan == [status |-> "running"]

Init ==
    /\ head = [s \in Sources |-> 0] /\ membership = {} /\ snapshots = {}
    /\ code \in Codes
    /\ session = [k \in Sessions |-> None] /\ cache = <<>>
    /\ run = [r \in Runs |-> NoRun]
    /\ receipts = {} /\ readSets = {} /\ packets = {}

----------------------------------------------------------------------------
(* Access *)

\* The memberships and heads of today.  Broken variant: read for an old snapshot.
CurrentMembers(snapshot) ==
    {<<m[1], <<m[2], head[m[2]]>>>> : m \in {n \in membership : n[1] \in snapshot.scope}}

\* snapshot_members, joined with the fragments of their versions.
SnapshotMembers(snapshot) == snapshot.members

MembershipsOf(snapshot, f) == {c \in snapshot.scope : <<c, f>> \in SnapshotMembers(snapshot)}

\* Broken variant: one allowed Collection is enough.
AllowedBySome(held, terms, f) == held \cap terms.allowed # {} /\ f[1] \notin terms.denied

\* Every relevant Collection must be listed as allowed, and the Source not denied.
Allows(held, terms, f) == held \subseteq terms.allowed /\ f[1] \notin terms.denied

\* Holdouts and explicit exclusions drop a fragment silently; only what the
\* policy denies is reported, as a single bit.
Compile(snapshot, terms) ==
    LET Held(f) == MembershipsOf(snapshot, f)
        considered == {f \in Fragments : /\ Held(f) # {}
                                         /\ Held(f) \cap Holdouts = {}
                                         /\ {f[1], Family[f[1]]} \cap terms.excluded = {}}
        permitted == {f \in considered : Allows(Held(f), terms, f)}
    IN [permitted |-> permitted, omission |-> considered # permitted]

----------------------------------------------------------------------------
(* Packets *)

Scope(request) == [snapshot |-> request.snapshot, terms |-> request.terms]

\* What an authorization and the fragments read under it must agree on.
PreparedCorpus(scope, compiled) ==
    [scope |-> scope, permitted |-> compiled.permitted, omission |-> compiled.omission]

\* authorize_read and read_permitted_fragments: one protected read of a scope.
Prepare(scope) == PreparedCorpus(scope, Compile(scope.snapshot, scope.terms))

\* The ephemeral index is built from the permitted fragments and no others.
Retrieved(question, fragments) == {f \in fragments : f[1] \in Answering[question]}

\* The packet a request gets from a prepared corpus.  Of the order of the read
\* and of the ranking nothing is kept: both are functions of these values.
Assemble(request, version, prepared) ==
    [request  |-> request,
     access   |-> prepared,
     read     |-> prepared.permitted,
     coverage |-> [processed |-> Cardinality(prepared.permitted),
                   omission  |-> prepared.omission],
     code     |-> version,
     trace    |-> Retrieved(request.question, prepared.permitted)]

\* The content of the four receipts; each names its QueryRequest.
CoverageReceipt(p) == [type |-> "coverage", request |-> p.request, coverage |-> p.coverage]
ReadReceipt(p) == [type |-> "read", request |-> p.request, items |-> p.read]
AccessReceipt(p) == [type |-> "access", request |-> p.request, access |-> p.access]
RetrievalReceipt(p) ==
    [type |-> "retrieval", request |-> p.request, read |-> p.read, trace |-> p.trace,
     code |-> p.code]

ReceiptsOf(p) == {CoverageReceipt(p), ReadReceipt(p), AccessReceipt(p), RetrievalReceipt(p)}

----------------------------------------------------------------------------
(* What the three paths verify *)

\* _validate_receipt_closure: access is compiled again from the database.
FullClosure(p, request, version) ==
    /\ p.request = request
    /\ p.code = version
    /\ p.access = Prepare(Scope(request))
    /\ p.coverage.omission = p.access.omission
    /\ p.read = p.access.permitted
    /\ p.coverage.processed = Cardinality(p.read)
    /\ p.trace \subseteq p.read

\* Broken variant: the scope of the request is not compared.
ScopeUnchecked(request, scope) == TRUE

SameScope(request, scope) == Scope(request) = scope

\* _validate_batch_receipt_closure: the later members against the first.
BatchClosure(p, request, version, first) ==
    /\ p.request = request
    /\ p.code = version
    /\ SameScope(request, Scope(first.request))
    /\ p.access = first.access
    /\ p.coverage.omission = first.access.omission
    /\ p.read = first.read
    /\ p.coverage.processed = Cardinality(first.read)
    /\ p.trace \subseteq first.read

\* _validate_cached_receipt_closure: against the validated scope of the
\* capability; nothing is compiled again.
CachedClosure(p, request, version, entry) ==
    /\ p.request = request
    /\ p.code = version /\ version = entry.code
    /\ SameScope(request, entry.scope)
    /\ p.access = entry.access
    /\ p.coverage.omission = entry.access.omission
    /\ p.coverage.processed = entry.processed
    /\ p.read = entry.read
    /\ p.trace \subseteq entry.read

CacheEntry(p) ==
    [scope |-> Scope(p.request), access |-> p.access, read |-> p.read,
     processed |-> p.coverage.processed, code |-> p.code]

\* A receipt is first written by a run of its own request.
FirstRunCloses(row) == run[row.first].request = row.content.request

\* A retrieval receipt names the code of the run that wrote it first.
CodeAgrees(row) == row.content.type = "retrieval" => run[row.first].code = row.content.code

LoadsReceipt(content) ==
    \E row \in receipts : row.content = content /\ FirstRunCloses(row) /\ CodeAgrees(row)

HasReadSet(set) == set \in readSets

LinksOf(p) == {r \in Runs : run[r].status = "succeeded" /\ run[r].packet = p}

LoadsRequest(p) == \A r \in LinksOf(p) : run[r].request = p.request

\* load_evidence_packet: the links of the packet close on succeeded runs of its
\* request and of one code, its receipts load, the read set is there, and the
\* full closure holds, with access compiled again today.
Loads(p) ==
    /\ p \in packets
    /\ LinksOf(p) # {}
    /\ LoadsRequest(p)
    /\ \A r, q \in LinksOf(p) : run[r].code = run[q].code
    /\ \A content \in ReceiptsOf(p) : LoadsReceipt(content)
    /\ HasReadSet(p.read)
    /\ \A r \in LinksOf(p) : FullClosure(p, p.request, run[r].code)

----------------------------------------------------------------------------
(* The Library goes on *)

\* An ingest: a new Source, a new version of it, or one more Collection for it.
Ingest(c, s) ==
    /\ membership' = membership \cup {<<c, s>>}
    /\ \/ head[s] < MaxVersions[s] /\ head' = [head EXCEPT ![s] = @ + 1]
       \/ head[s] > 0 /\ <<c, s>> \notin membership /\ UNCHANGED head
    /\ UNCHANGED <<snapshots, process, store>>

\* freeze_snapshot
Freeze(scope) ==
    /\ snapshots' = snapshots \cup
          {[scope |-> scope, members |-> CurrentMembers([scope |-> scope])]}
    /\ Cardinality(snapshots') <= MaxSnapshots
    /\ UNCHANGED <<head, membership, process, store>>

\* A run that the current process has begun and may complete.
InHand(r) == run[r].status = "running" /\ run[r] # Orphan

\* The process ends and a new one starts, perhaps of another version.  The runs
\* it had begun stay as they are and nobody completes them.
Restart ==
    /\ code' \in Codes
    /\ session' = [k \in Sessions |-> None] /\ cache' = <<>>
    /\ run' = [r \in Runs |-> IF InHand(r) THEN Orphan ELSE run[r]]
    /\ UNCHANGED <<world, receipts, readSets, packets>>

----------------------------------------------------------------------------
(* Recalls: the request is persisted, the run begun and the packet built *)

Unused == {r \in Runs : run[r].status = "absent"}
NextRun == CHOOSE r \in Unused : \A q \in Unused : r <= q

Begun(kind, packet, via, batch) ==
    [status |-> "running", kind |-> kind, request |-> packet.request, code |-> code,
     packet |-> packet, via |-> via, batch |-> batch]

\* open_scope_session: one protected read for all its questions.  Closing it
\* only forbids its further use; the cache entry stays until it is evicted.
OpenSession(k, scope) ==
    /\ session[k] = None
    /\ session' = [session EXCEPT ![k] = Prepare(scope)]
    /\ UNCHANGED <<world, code, cache, store>>

Recall(request) ==
    /\ Unused # {}
    /\ LET p == Assemble(request, code, Prepare(Scope(request)))
       IN run' = [run EXCEPT ![NextRun] = Begun("recall", p, None, {NextRun})]
    /\ UNCHANGED <<world, process, receipts, readSets, packets>>

\* recall_in_session; _require_request admits the scope of the session only.
RecallInSession(k, request) ==
    /\ Unused # {}
    /\ session[k] # None
    /\ Scope(request) = session[k].scope
    /\ LET p == Assemble(request, code, session[k])
       IN run' = [run EXCEPT ![NextRun] = Begun("recall", p, k, {NextRun})]
    /\ UNCHANGED <<world, process, receipts, readSets, packets>>

\* recall_batch: two questions, one scope, one protected read.
RecallBatch(scope, q1, q2) ==
    LET first == NextRun
        members == {first, first + 1}
        P(q) == Assemble([snapshot |-> scope.snapshot, terms |-> scope.terms, question |-> q],
                         code, Prepare(scope))
    IN /\ Unused # {} /\ members \subseteq Unused
       /\ q1 # q2
       /\ run' = [run EXCEPT ![first] = Begun("recall", P(q1), None, members),
                             ![first + 1] = Begun("recall", P(q2), None, members)]
       /\ UNCHANGED <<world, process, receipts, readSets, packets>>

\* replay: the packet is loaded, and built again by the code that built it.
Replay(p) ==
    /\ Unused # {}
    /\ Loads(p)
    /\ p.code = code
    /\ LET again == Assemble(p.request, code, Prepare(Scope(p.request)))
       IN run' = [run EXCEPT ![NextRun] = Begun("replay", again, None, {NextRun})]
    /\ UNCHANGED <<world, process, receipts, readSets, packets>>

----------------------------------------------------------------------------
(* Completions *)

\* INSERT OR IGNORE: a receipt that is there keeps its first run.
Ensured(rows, p, r) ==
    rows \cup {[content |-> content, first |-> r] :
                  content \in {v \in ReceiptsOf(p) : \A row \in rows : row.content # v}}

Succeed(members) == run' = [r \in Runs |-> IF r \in members
                                           THEN [run[r] EXCEPT !.status = "succeeded"]
                                           ELSE run[r]]

\* A receipt that is there must load as the one at hand.
Reusable(p) == \A content \in ReceiptsOf(p) :
                  (\E row \in receipts : row.content = content) => LoadsReceipt(content)

\* One read set is stored for all the receipts that list the same fragments.
StoreReadSet(set) == readSets' = readSets \cup {set}

Verified(r) == FullClosure(run[r].packet, run[r].request, run[r].code)

Write(r, set) ==
    /\ Reusable(run[r].packet)
    /\ receipts' = Ensured(receipts, run[r].packet, r)
    /\ StoreReadSet(set)
    /\ packets' = packets \cup {run[r].packet}
    /\ Succeed({r})

\* complete_recall_run
Complete(r) ==
    /\ InHand(r) /\ run[r].batch = {r} /\ run[r].via = None
    /\ run[r].kind = "replay" => run[r].packet \in packets
    /\ Verified(r)
    /\ Write(r, run[r].packet.read)
    /\ UNCHANGED <<world, process>>

CachedAt(k) == {i \in DOMAIN cache : cache[i].key = k}

\* The cache without the entry of a session, which has at most one.
Without(k) ==
    IF CachedAt(k) = {} THEN cache
    ELSE LET i == CHOOSE j \in CachedAt(k) : TRUE
         IN SubSeq(cache, 1, i - 1) \o SubSeq(cache, i + 1, Len(cache))

\* After the commit the scope is the most recently used; the oldest is evicted.
Remembered(committed, k, entry) ==
    LET grown == Append(Without(k), [key |-> k, entry |-> entry])
    IN IF committed THEN SubSeq(grown, IF Len(grown) > Capacity THEN 2 ELSE 1, Len(grown))
       ELSE cache

\* complete_scoped_recall_run: the first completion of a session verifies
\* everything, the next ones rely on what that one found.  The transaction may
\* roll back.
CompleteScoped(r) ==
    LET k == run[r].via
        p == run[r].packet
    IN /\ InHand(r) /\ k \in Sessions
       /\ \E committed \in BOOLEAN :
             \/ /\ CachedAt(k) = {}
                /\ Verified(r)
                /\ cache' = Remembered(committed, k, CacheEntry(p))
                /\ IF committed THEN Write(r, p.read) ELSE UNCHANGED store
             \/ \E i \in CachedAt(k) :
                /\ CachedClosure(p, run[r].request, run[r].code, cache[i].entry)
                /\ HasReadSet(cache[i].entry.read)
                /\ cache' = Remembered(committed, k, cache[i].entry)
                /\ IF committed THEN Write(r, cache[i].entry.read) ELSE UNCHANGED store
       /\ UNCHANGED <<world, code, session>>

\* complete_recall_batch: both or none.
CompleteBatch(r, q) ==
    LET p1 == run[r].packet
        p2 == run[q].packet
    IN /\ r < q /\ InHand(r) /\ InHand(q) /\ run[r].batch = {r, q}
       /\ Verified(r)
       /\ BatchClosure(p2, run[q].request, run[q].code, p1)
       /\ Reusable(p1) /\ Reusable(p2)
       /\ receipts' = Ensured(Ensured(receipts, p1, r), p2, q)
       /\ StoreReadSet(p1.read)
       /\ packets' = packets \cup {p1, p2}
       /\ Succeed({r, q})
       /\ UNCHANGED <<world, process>>

\* fail_recall_run: whatever went wrong before the completion.
Fail(r) ==
    /\ InHand(r)
    /\ run' = [q \in Runs |-> IF q \in run[r].batch THEN FailedRun ELSE run[q]]
    /\ UNCHANGED <<world, process, receipts, readSets, packets>>

KnownScopes == [snapshot : snapshots, terms : Terms]
KnownRequests == [snapshot : snapshots, terms : Terms, question : Questions]

Next ==
    \/ \E feed \in Feeds : Ingest(feed[1], feed[2])
    \/ \E scope \in Scopes : Freeze(scope)
    \/ Restart
    \/ \E k \in Sessions : \/ \E scope \in KnownScopes : OpenSession(k, scope)
                           \/ \E request \in KnownRequests : RecallInSession(k, request)
    \/ \E request \in KnownRequests : Recall(request)
    \/ \E scope \in KnownScopes, q1, q2 \in Questions : RecallBatch(scope, q1, q2)
    \/ \E p \in packets : Replay(p)
    \/ \E r \in Runs : Complete(r) \/ CompleteScoped(r) \/ Fail(r)
    \/ \E r, q \in Runs : CompleteBatch(r, q)

Spec == Init /\ [][Next]_vars

----------------------------------------------------------------------------
(* Correctness *)

\* A stored packet can always be read back, whatever was ingested, frozen and
\* persisted since, by which path and by which version of the program it was
\* completed and which of its receipts an earlier run had written; and the code
\* that built it builds it again.
PacketsStayReadable ==
    \A p \in packets :
        /\ Loads(p)
        /\ Assemble(p.request, p.code, Prepare(Scope(p.request))) = p

\* The reduced checks lose nothing: whatever packet a session or a batch
\* accepts for a request of the Library - one assembled from the corpus of
\* another scope included - the full verification would accept; and the cached
\* scope refers to a read set that is stored.
ReducedChecksSuffice ==
    /\ \A i \in DOMAIN cache : cache[i].entry.read \in readSets
    /\ \A request \in KnownRequests, scope \in KnownScopes :
          LET p == Assemble(request, code, Prepare(scope))
          IN \/ /\ \A i \in DOMAIN cache : ~CachedClosure(p, request, code, cache[i].entry)
                /\ \A r \in Runs : InHand(r) /\ Verified(r) =>
                      ~BatchClosure(p, request, code, run[r].packet)
             \/ FullClosure(p, request, code)

\* No packet, and no receipt of a read, contains a fragment that the snapshot
\* of its request knows from a holdout, from a Collection the policy does not
\* allow, or from a Source or family it denies or excludes.
OnlyPermittedIsRead ==
    \A row \in {q \in receipts : q.content.type = "read"} :
        LET request == row.content.request
        IN \A f \in row.content.items :
              /\ \E m \in request.snapshot.members : m[2] = f
              /\ \A m \in request.snapshot.members :
                    m[2] = f => m[1] \in request.terms.allowed \ Holdouts
              /\ f[1] \notin request.terms.denied
              /\ {f[1], Family[f[1]]} \cap request.terms.excluded = {}
====
