---- MODULE Candidates ----
(***************************************************************************)
(* How candidates enter a Library and are reviewed (persistence/meaning.py,*)
(* persistence/relations.py, persistence/review.py): imports of proposals  *)
(* and of Relations, generators, review sessions with a decision budget,   *)
(* decisions and their supersession, the admission of reviewed Relations,  *)
(* and receipts of paths through permitted Relations.                      *)
(*                                                                         *)
(* Clients are processes on one database.  Each operation reads first and  *)
(* writes later, in one immediate transaction; what a client read is held  *)
(* in op and may be stale by then.                                         *)
(***************************************************************************)
EXTENDS MeaningGraph

CONSTANTS
    Clients, None,
    Imports,         \* <<request, proposal>>: the proposals that are imported
    Extractions,     \* the requests a generator is called for
    Generated,       \* the proposals a generator returns
    Batches,         \* <<request, set of Relations>>: the Relation imports
    Journeys,        \* the path requests
    MaxUnresolved,   \* ReviewBudget.max_unresolved_candidates
    MaxCandidates,   \* ReviewBudget.max_candidates
    DecisionLimit,   \* ReviewBudget.review_decision_limit
    Sessions, Uses,
    Reviewed,        \* bound: <<target, action>>, what is asked of reviewers
    MaxRuns,         \* bound: runs
    MaxReceipts,     \* bound: path receipts
    MaxDecisions     \* bound: decisions, of all reviews

Requests == {i[1] : i \in Imports} \cup Extractions \cup {b[1] : b \in Batches}
               \cup {j.request : j \in Journeys}

Terminal == {"accept", "reject", "revise"}

\* MeaningProposal.__post_init__: finitely many candidates, and none at all in a
\* proposal that is not complete.
ValidProposal(p) ==
    IF p.state = "complete"
    THEN IsFiniteSet(OutputOf(p.graph)) /\ p.graph.meanings \subseteq DOMAIN MeaningOf
    ELSE OutputOf(p.graph) = {}

ASSUME CandidatesAssumption ==
    /\ \A q \in Requests :
          /\ q.scope \subseteq Collections
          /\ \A f \in q.permitted : HeldBy[f] \cap q.scope # {}
    /\ MaxUnresolved \in Nat /\ MaxCandidates \in Nat /\ DecisionLimit \in Nat
    /\ None \notin Sessions
    /\ \A p \in {i[2] : i \in Imports} \cup Generated : ValidProposal(p)
    /\ \A b \in Batches : IsFiniteSet(b[2])
    /\ \A asked \in Reviewed :
          /\ asked[1] = <<asked[1][1], asked[1][2]>>
          /\ asked[2] \in Terminal \cup {"defer", "supersede"}

VARIABLES
    runs,          \* meaning_processing_runs with their receipts, by import key
    sessions,      \* meaning_review_sessions
    decisions,     \* the three decision tables, in the order of their inserts
    receipts,      \* relation_path_receipts
    op             \* what each client is about to write

reviews == <<sessions, decisions>>
vars == <<links, mentions, meanings, relations, runs, sessions, decisions, receipts, op>>

Init ==
    /\ NoRows
    /\ runs = <<>> /\ sessions = {} /\ decisions = <<>> /\ receipts = {}
    /\ op = [c \in Clients |-> None]

Idle(c) == op[c] = None
Hold(c, what) == op' = [op EXCEPT ![c] = what]
Leave(c) == op' = [op EXCEPT ![c] = None]

----------------------------------------------------------------------------
(* Decisions in force *)

Superseded(i) == \E j \in DOMAIN decisions : decisions[j].prior = i

\* A supersede only withdraws: it is not a decision on its target itself.
ActiveOn(t) == {i \in DOMAIN decisions : /\ decisions[i].target = t
                                         /\ decisions[i].action # "supersede"
                                         /\ ~Superseded(i)}

\* _resolved_target_keys: the terminal decisions of one use cover its closure.
Resolved(t) ==
    \E use \in Uses :
        LET covering == {i \in ActiveOn(t) : /\ decisions[i].use = use
                                             /\ decisions[i].action \in Terminal}
        IN Closure(t) \subseteq UNION {decisions[i].scope : i \in covering}

Unresolved == {t \in Candidates : ~Resolved(t)}

----------------------------------------------------------------------------
(* Imports of proposals *)

Outcome(status, reason, g) == [status |-> status, reason |-> reason, graph |-> g]
Nothing == Graph({}, {}, {})

\* _preflight_refusal: nothing is read.
Preflight(q) ==
    IF q.external /\ ~q.egress THEN Outcome("refused", "provider_egress_denied", Nothing)
    ELSE IF Cardinality(Unresolved) >= MaxUnresolved
    THEN Outcome("refused", "review_backlog_limit", Nothing)
    ELSE IF Cardinality(q.permitted) > q.readLimit
    THEN Outcome("refused", "read_fragment_limit", Nothing)
    ELSE None

\* _complete_proposal: the fragments were read, the proposal is judged.
Completion(q, p) ==
    IF p.state # "complete" THEN Outcome(p.state, "as_proposed", Nothing)
    ELSE IF ~Grounded(p.graph, q.permitted, q.scope)
    THEN Outcome("failed", "invalid_proposal", Nothing)
    ELSE IF Cardinality(OutputOf(p.graph)) + Cardinality(p.graph.mentions) > MaxCandidates
    THEN Outcome("refused", "candidate_budget_limit", Nothing)
    ELSE Outcome("succeeded", "none", p.graph)

\* _persist_result, outside its transaction: a run under this key is the answer.
Submit(c, q, key, outcome, read) ==
    IF key \in DOMAIN runs THEN Leave(c)
    ELSE Hold(c, [type |-> "import", key |-> key, outcome |-> outcome, read |-> read])

\* _import_key: a proposal, or a marker for a run that ended without one.
ImportKey(kind, q, p, marker) == [kind |-> kind, request |-> q, proposal |-> p, marker |-> marker]

\* import_proposal up to its transaction.
Import(c, q, p) ==
    LET key == ImportKey("import", q, p, "none")
        refusal == Preflight(q)
    IN /\ Idle(c)
       /\ key \notin DOMAIN runs
       /\ IF refusal # None THEN Submit(c, q, key, refusal, {})
          ELSE Submit(c, q, key, Completion(q, p), q.permitted)
       /\ UNCHANGED <<rows, runs, reviews, receipts>>

\* extract: its refusals have a key of their own, and it looks for a run only
\* once there is something to write.
Extract(c, q) ==
    LET key == ImportKey("extract", q, None, "preflight")
        refusal == Preflight(q)
    IN /\ Idle(c)
       /\ IF refusal # None THEN key \notin DOMAIN runs /\ Submit(c, q, key, refusal, {})
          ELSE Hold(c, [type |-> "generating", request |-> q])
       /\ UNCHANGED <<rows, runs, reviews, receipts>>

\* The generator returns a proposal, something else, or fails.
Generate(c) ==
    /\ ~Idle(c) /\ op[c].type = "generating"
    /\ LET q == op[c].request
       IN \/ \E marker \in {"generator_failed", "invalid_generator_output"} :
                Submit(c, q, ImportKey("extract", q, None, marker),
                       Outcome("failed", marker, Nothing), q.permitted)
          \/ \E p \in Generated :
                Submit(c, q, ImportKey("extract", q, p, "none"), Completion(q, p), q.permitted)
    /\ UNCHANGED <<rows, runs, reviews, receipts>>

\* _new_review_candidate_count
NewCandidates(g) == OutputOf(g) \ Candidates

\* Broken variant: the backlog is the one the preflight saw.
OnlyOwnBacklog(g) == Cardinality(NewCandidates(g)) > MaxUnresolved

\* The backlog is counted again inside the transaction, with what is new.
OverBacklog(g) == Cardinality(Unresolved) + Cardinality(NewCandidates(g)) > MaxUnresolved

\* _persist_result: the run, its coverage and its read receipt, and the graph if
\* there is one.  A run that another client stored meanwhile is the answer.
Persist(c) ==
    /\ ~Idle(c) /\ op[c].type = "import"
    /\ LET wanted == op[c].outcome
           outcome == IF wanted.status = "succeeded" /\ OverBacklog(wanted.graph)
                      THEN Outcome("refused", "review_backlog_limit", Nothing) ELSE wanted
           run == [status |-> outcome.status, reason |-> outcome.reason,
                   output |-> OutputOf(outcome.graph), read |-> op[c].read]
           after == Both(Stored, outcome.graph)
       IN IF op[c].key \in DOMAIN runs THEN UNCHANGED <<rows, runs>>
          ELSE /\ runs' = [k \in DOMAIN runs \cup {op[c].key} |->
                              IF k = op[c].key THEN run ELSE runs[k]]
               /\ links' = after.links /\ mentions' = after.mentions
               /\ meanings' = after.meanings
               /\ UNCHANGED relations
    /\ Cardinality(DOMAIN runs') <= MaxRuns
    /\ Leave(c)
    /\ UNCHANGED <<reviews, receipts>>

----------------------------------------------------------------------------
(* Relations *)

\* import_relations: all of a batch or none, whatever the backlog is.
ImportRelations(q, batch) ==
    /\ \A r \in batch : Importable(r, q.permitted)
    /\ relations' = relations \cup batch
    /\ UNCHANGED <<links, mentions, meanings, runs, reviews, receipts, op>>

\* traverse, in a read transaction of its own.  Of the paths the first
\* max_paths are kept; which these are is a matter of the identifiers.
Walk(c, j) ==
    LET found == PathsFrom(j.seed, j.request.permitted, j.direction, j.hops)
    IN /\ Idle(c)
       /\ j.seed \in NodesOf(Stored)
       /\ \E kept \in SUBSET found :
             /\ \/ kept = found /\ Cardinality(found) <= j.paths
                \/ Cardinality(kept) = j.paths
             /\ Hold(c, [type |-> "paths", journey |-> j, paths |-> kept])
       /\ UNCHANGED <<rows, runs, reviews, receipts>>

\* _persist_path_receipt: a receipt is named by its content.
StorePaths(c) ==
    /\ ~Idle(c) /\ op[c].type = "paths"
    /\ receipts' = receipts \cup {[journey |-> op[c].journey, paths |-> op[c].paths]}
    /\ Cardinality(receipts') <= MaxReceipts
    /\ Leave(c)
    /\ UNCHANGED <<rows, runs, reviews>>

----------------------------------------------------------------------------
(* Reviews *)

\* start_review_session
StartReviewSession(k) ==
    /\ sessions' = sessions \cup {k}
    /\ UNCHANGED <<rows, runs, decisions, receipts, op>>

Table(t) == IF t[1] = "relation" THEN "relation"
            ELSE IF t[1] = "source_fragment" THEN "review" ELSE "meaning"

\* The Collections a target may be reviewed in: for a fragment, those that
\* hold its Source (review.py).
TargetCollections(t) == Closure(t) \cup UNION {HeldBy[f] : f \in {x \in Fragments :
                                                                   t = <<"source_fragment", x>>}}

\* A Relation is reviewed in its exact closure, anything else within its own.
FitsClosure(t, scope) ==
    /\ scope # {} /\ scope \subseteq TargetCollections(t)
    /\ Table(t) = "relation" => scope = TargetCollections(t)

\* create_review_decision and create, up to the transaction.
Decide(c, k, t, scope, use, action) ==
    /\ Idle(c)
    /\ Table(t) = "review" <=> k = None
    /\ k # None => k \in sessions
    /\ FitsClosure(t, scope)
    /\ \E replacement \in IF action = "revise" THEN Candidates \ {t} ELSE {None},
          prior \in IF action = "supersede" THEN DOMAIN decisions ELSE {None} :
          /\ replacement # None => replacement[1] = t[1] /\ FitsClosure(replacement, scope)
          /\ Hold(c, [type |-> "decision", session |-> k, target |-> t, scope |-> scope,
                      use |-> use, action |-> action, prior |-> prior])
    /\ UNCHANGED <<rows, runs, reviews, receipts>>

OfSession(k) == {i \in DOMAIN decisions : k # None /\ decisions[i].session = k}

SameMatter(d, e) == d.target = e.target /\ d.scope = e.scope /\ d.use = e.use

\* Broken variant: the session counts the decisions of one table only.
OwnTableBudget(d) ==
    d.session # None => Cardinality({i \in OfSession(d.session) :
                           Table(decisions[i].target) = Table(d.target)}) < DecisionLimit

\* One budget for the semantic and the Relation decisions of a session.
WithinBudget(d) == d.session # None => Cardinality(OfSession(d.session)) < DecisionLimit

\* Two decisions of a session never stand side by side on one target and scope.
\* review_decisions knows no such rule.
Unopposed(d) ==
    d.action # "supersede" /\ Table(d.target) # "review" =>
        \A i \in ActiveOn(d.target) : ~SameMatter(decisions[i], d)

\* A supersession withdraws one decision on the same matter, once; that of a
\* Relation withdraws no supersession (a trigger).
Withdraws(d) ==
    d.action = "supersede" =>
        /\ SameMatter(decisions[d.prior], d)
        /\ ~Superseded(d.prior)
        /\ Table(d.target) = "relation" => decisions[d.prior].action # "supersede"

\* The immediate transaction of a decision: stored, or refused.
StoreDecision(c) ==
    /\ ~Idle(c) /\ op[c].type = "decision"
    /\ decisions' = IF WithinBudget(op[c]) /\ Unopposed(op[c]) /\ Withdraws(op[c])
                    THEN Append(decisions, op[c]) ELSE decisions
    /\ Len(decisions') <= MaxDecisions
    /\ Leave(c)
    /\ UNCHANGED <<rows, runs, sessions, receipts>>

\* Broken variant: an acceptance of any part of the closure admits.
AdmittedInPart(r, use) ==
    \E i \in ActiveOn(<<"relation", r>>) :
        decisions[i].use = use /\ decisions[i].action = "accept"

\* resolve_relation_admission, for a request that spans the closure: the only
\* decision in force on exactly this closure accepts.
Admitted(r, use) ==
    LET matching == {i \in ActiveOn(<<"relation", r>>) :
                        decisions[i].use = use /\ decisions[i].scope = RelationClosure(r)}
    IN \E i \in matching : matching = {i} /\ decisions[i].action = "accept"

Next ==
    \/ \E c \in Clients :
          \/ \E i \in Imports : Import(c, i[1], i[2])
          \/ \E q \in Extractions : Extract(c, q)
          \/ Generate(c) \/ Persist(c)
          \/ \E j \in Journeys : Walk(c, j)
          \/ StorePaths(c)
          \/ \E k \in Sessions \cup {None}, asked \in Reviewed, use \in Uses :
                \E scope \in SUBSET TargetCollections(asked[1]) :
                   Decide(c, k, asked[1], scope, use, asked[2])
          \/ StoreDecision(c)
    \/ \E b \in Batches : ImportRelations(b[1], b[2])
    \/ \E k \in Sessions : StartReviewSession(k)

Spec == Init /\ [][Next]_vars

----------------------------------------------------------------------------
(* Correctness *)

\* However many imports run at once, the candidates that nobody ever decided on
\* are at most max_unresolved_candidates; Relations are not counted, their
\* import knows no backlog.
BacklogBounded ==
    Cardinality({t \in OutputOf(Stored) : \A i \in DOMAIN decisions : decisions[i].target # t})
        <= MaxUnresolved

\* Of decisions that were examined at the same time and stored in any order:
\* at most one is in force on a target in a scope and use, none is withdrawn
\* twice or by a decision on another matter, and a session never exceeds its
\* budget over both of its tables.
DecisionsAreConsistent ==
    LET D == DOMAIN decisions
    IN /\ \A i, j \in D : Table(decisions[i].target) # "review"
             /\ i \in ActiveOn(decisions[j].target) /\ j \in ActiveOn(decisions[j].target)
             /\ SameMatter(decisions[i], decisions[j]) => i = j
       /\ \A i, j \in {x \in D : decisions[x].prior # None} :
             /\ decisions[i].prior < i /\ SameMatter(decisions[i], decisions[decisions[i].prior])
             /\ decisions[i].prior = decisions[j].prior => i = j
       /\ \A k \in Sessions : Cardinality(OfSession(k)) <= DecisionLimit

\* A Relation that was admitted is not admitted any more from the step on that
\* makes it reach another Collection: no acceptance is ever wider than what its
\* reviewer could see.
GrowthEndsAdmission ==
    [][\A r \in relations, use \in Uses :
          Admitted(r, use) /\ RelationClosure(r)' # RelationClosure(r) => ~Admitted(r, use)']_vars

\* A path runs only through nodes all of whose text, later evidence and mentions
\* included, is permitted to its request, although its Relations were imported
\* when there was less of it.
PathsStayPermitted ==
    [][\A c \in Clients : op[c] = None /\ op'[c] # None /\ op'[c].type = "paths" =>
          \A path \in op'[c].paths : \A i \in DOMAIN path :
              /\ \A l \in links : <<"statement", l[1]>> = path[i][2] =>
                                      l[2] \in op'[c].journey.request.permitted
              /\ \A m \in mentions : <<"concept", m[1]>> = path[i][2] =>
                                      m[3] \in op'[c].journey.request.permitted
              /\ \A l \in RelationOf[path[i][1]].evidence :
                                      l[2] \in op'[c].journey.request.permitted]_vars
====
