---- MODULE CandidatesProofs ----
(***************************************************************************)
(* Proofs about Candidates for any graph, clients, sessions and limits:    *)
(* the decisions stay consistent, an admission ends when its Relation      *)
(* reaches further, the backlog stays within its limit, and paths stay     *)
(* within what their request may see.                                      *)
(***************************************************************************)
EXTENDS Candidates, FiniteSetTheorems, TLAPS

IsSequence(s) == \E S : s \in Seq(S)

LEMMA Appending ==
    ASSUME NEW list, IsSequence(list), NEW d
    PROVE  /\ IsSequence(Append(list, d))
           /\ Len(list) \in Nat /\ DOMAIN list = 1..Len(list)
           /\ DOMAIN Append(list, d) = DOMAIN list \cup {Len(list) + 1}
           /\ Append(list, d)[Len(list) + 1] = d
           /\ \A i \in DOMAIN list : Append(list, d)[i] = list[i]
<1>1. PICK S : list \in Seq(S)
    BY DEF IsSequence
<1>2. list \in Seq(S \cup {d}) /\ Append(list, d) \in Seq(S \cup {d})
    BY <1>1
<1> QED BY <1>2 DEF IsSequence

----------------------------------------------------------------------------
(* What is decided, and what is about to be *)

IsDecision(d) == d # None /\ d.type = "decision"

\* A supersession names a decision that is there; nothing else names one.
Names(d) ==
    /\ d.action = "supersede" => d.prior \in DOMAIN decisions
    /\ d.action # "supersede" => d.prior = None

\* Nobody reviews a Relation in more than it reaches.
Fits(d) == Table(d.target) = "relation" => d.scope \subseteq RelationClosure(d.target[2])

Prepared ==
    /\ DOMAIN op = Clients
    /\ \A c \in Clients : \A d : d = op[c] /\ IsDecision(d) => Names(d) /\ Fits(d)

Held ==
    /\ IsSequence(decisions)
    /\ \A i \in DOMAIN decisions : \A d : d = decisions[i] => Names(d) /\ Fits(d)

Review == Prepared /\ Held /\ DecisionsAreConsistent

\* Rows are only added, so what a Relation reaches only grows.
LEMMA ClosureGrows ==
    ASSUME links \subseteq links', mentions \subseteq mentions', meanings \subseteq meanings',
           NEW r
    PROVE  RelationClosure(r) \subseteq RelationClosure(r)'
<1>1. ASSUME NEW t PROVE NodeClosure(t) \subseteq NodeClosure(t)'
    <2>1. StatementsUnder(t) \subseteq StatementsUnder(t)'
        <3> SUFFICES ASSUME NEW s \in StatementsUnder(t) PROVE s \in StatementsUnder(t)'
            OBVIOUS
        <3>1. CASE s \in {x \in {l[1] : l \in links} :
                             t \in {<<"statement", x>>, <<"voice", VoiceOf[x]>>}}
            BY <3>1 DEF StatementsUnder
        <3>2. CASE s \in {l[1] : l \in {k \in links : t = <<"evidence_link", k>>}}
            BY <3>2 DEF StatementsUnder
        <3>3. CASE s \in UNION {MeaningOf[cm].supports :
                   cm \in {x \in meanings : t \in {<<"concept_meaning", x>>,
                                                   <<"concept", MeaningOf[x].concept>>,
                                                   <<"voice", MeaningOf[x].voice>>}}}
            BY <3>3 DEF StatementsUnder
        <3> QED BY <3>1, <3>2, <3>3 DEF StatementsUnder
    <2>2. {m[2] : m \in {x \in mentions : t = <<"concept", x[1]>>}}
             \subseteq {m[2] : m \in {x \in mentions' : t = <<"concept", x[1]>>}}
        OBVIOUS
    <2> QED BY <2>1, <2>2 DEF NodeClosure
<1> QED BY <1>1 DEF RelationClosure

\* What a step does to the rows.
LEMMA RowsGrow ==
    ASSUME [Next]_vars
    PROVE  links \subseteq links' /\ mentions \subseteq mentions' /\ meanings \subseteq meanings'
<1>1. ASSUME NEW c \in Clients, Persist(c)
      PROVE  links \subseteq links' /\ mentions \subseteq mentions' /\ meanings \subseteq meanings'
    BY <1>1 DEF Persist, rows, Both, Stored, Graph
<1>2. CASE UNCHANGED <<links, mentions, meanings>>
    BY <1>2
<1>3. ASSUME ~ \E c \in Clients : Persist(c) PROVE UNCHANGED <<links, mentions, meanings>>
    BY <1>3 DEF Next, vars, rows, Import, Extract, Generate, Walk, StorePaths, Decide,
        StoreDecision, ImportRelations, StartReviewSession
<1> QED BY <1>1, <1>2, <1>3

\* The closure of a Relation as a target is that of its row, if it has one.
LEMMA TargetOfRelation ==
    ASSUME NEW t, Table(t) = "relation", NEW scope, FitsClosure(t, scope),
           t = <<t[1], t[2]>>
    PROVE  scope \subseteq RelationClosure(t[2])
<1>1. t[1] = "relation"
    BY DEF Table
<1>2. t = <<"relation", t[2]>>
    BY <1>1
<1>3. StatementsUnder(t) = {}
    BY <1>2 DEF StatementsUnder
<1>4. {m[2] : m \in {x \in mentions : t = <<"concept", x[1]>>}} = {}
    BY <1>2
<1>5. NodeClosure(t) = {}
    BY <1>3, <1>4 DEF NodeClosure
<1>6. \A x : t = <<"relation", x>> => x = t[2]
    BY <1>2
<1>7. Closure(t) \subseteq RelationClosure(t[2])
    BY <1>5, <1>6 DEF Closure
<1>8. \A x : t # <<"source_fragment", x>>
    BY <1>2
<1>9. TargetCollections(t) \subseteq RelationClosure(t[2])
    BY <1>7, <1>8 DEF TargetCollections
<1> QED BY <1>9 DEF FitsClosure

----------------------------------------------------------------------------
(* Steps *)

\* A step that stores no decision: what was prepared and held is still so.
LEMMA RowsStep ==
    ASSUME Review, [Next]_vars, decisions' = decisions
    PROVE  /\ Held' /\ DecisionsAreConsistent'
           /\ \A d : Names(d) /\ Fits(d) => Names(d)' /\ Fits(d)'
<1>1. \A d : Names(d)' <=> Names(d)
    BY DEF Names
<1>2. \A d : Fits(d) => Fits(d)'
    <2> SUFFICES ASSUME NEW d, Fits(d), Table(d.target) = "relation"
                 PROVE  d.scope \subseteq RelationClosure(d.target[2])'
        BY DEF Fits, Table
    <2>1. d.scope \subseteq RelationClosure(d.target[2])
        BY DEF Fits
    <2> QED BY <2>1, RowsGrow, ClosureGrows
<1>3. Held'
    BY <1>1, <1>2 DEF Review, Held
<1>4. DecisionsAreConsistent'
    BY DEF Review, DecisionsAreConsistent, ActiveOn, Superseded, SameMatter, OfSession
<1> QED BY <1>1, <1>2, <1>3, <1>4

LEMMA DecidePrepares ==
    ASSUME NEW c \in Clients, NEW k, NEW asked \in Reviewed, NEW use,
           NEW scope \in SUBSET TargetCollections(asked[1]),
           Decide(c, k, asked[1], scope, use, asked[2]), Prepared
    PROVE  Names(op'[c]) /\ Fits(op'[c])
<1>1. PICK replacement \in IF asked[2] = "revise" THEN Candidates \ {asked[1]} ELSE {None},
           prior \in IF asked[2] = "supersede" THEN DOMAIN decisions ELSE {None} :
          Hold(c, [type |-> "decision", session |-> k, target |-> asked[1], scope |-> scope,
                   use |-> use, action |-> asked[2], prior |-> prior])
    BY DEF Decide
<1>2. op'[c] = [type |-> "decision", session |-> k, target |-> asked[1], scope |-> scope,
                use |-> use, action |-> asked[2], prior |-> prior]
    BY <1>1 DEF Hold, Prepared
<1>3. Names(op'[c])
    BY <1>1, <1>2 DEF Names
<1>4. asked[1] = <<asked[1][1], asked[1][2]>>
    BY CandidatesAssumption
<1>5. FitsClosure(asked[1], scope)
    BY DEF Decide
<1>6. op'[c].target = asked[1] /\ op'[c].scope = scope
    BY <1>2
<1>7. Fits(op'[c])
    BY <1>4, <1>5, <1>6, TargetOfRelation DEF Fits
<1> QED BY <1>3, <1>7

\* Only Decide leaves a decision with its client that was not there.
LEMMA PreparedStep == ASSUME Review, [Next]_vars PROVE Prepared'
<1>1. \A d : Fits(d) => Fits(d)'
    <2> SUFFICES ASSUME NEW d, Fits(d), Table(d.target) = "relation"
                 PROVE  d.scope \subseteq RelationClosure(d.target[2])'
        BY DEF Fits, Table
    <2>1. d.scope \subseteq RelationClosure(d.target[2])
        BY DEF Fits
    <2> QED BY <2>1, RowsGrow, ClosureGrows
<1>2. DOMAIN decisions \subseteq DOMAIN decisions'
    <2>1. ASSUME NEW c \in Clients, StoreDecision(c)
          PROVE  DOMAIN decisions \subseteq DOMAIN decisions'
        BY <2>1, Appending DEF StoreDecision, Review, Held
    <2>2. ASSUME ~ \E c \in Clients : StoreDecision(c) PROVE decisions' = decisions
        BY <2>2 DEF Next, vars, reviews, Import, Extract, Generate, Persist, Walk, StorePaths,
            Decide, ImportRelations, StartReviewSession
    <2> QED BY <2>1, <2>2
<1>3. \A d : Names(d) => Names(d)'
    BY <1>2 DEF Names
<1>4. ASSUME NEW c \in Clients, DOMAIN op' = Clients, \A e \in Clients \ {c} : op'[e] = op[e],
             \A d : d = op'[c] /\ IsDecision(d) => Names(d)' /\ Fits(d)'
      PROVE  Prepared'
    <2> SUFFICES ASSUME NEW e \in Clients, NEW d, d = op'[e], IsDecision(d)
                 PROVE  Names(d)' /\ Fits(d)'
        BY <1>4 DEF Prepared
    <2>1. CASE e = c
        BY <1>4, <2>1
    <2>2. CASE e # c
        BY <1>1, <1>3, <1>4, <2>2 DEF Review, Prepared
    <2> QED BY <2>1, <2>2
<1>5. ASSUME NEW c \in Clients, NEW what, Hold(c, what) \/ Leave(c), ~IsDecision(what)
      PROVE  Prepared'
    <2>1. DOMAIN op' = Clients /\ \A e \in Clients \ {c} : op'[e] = op[e]
        BY <1>5 DEF Hold, Leave, Review, Prepared
    <2>2. op'[c] \in {what, None}
        BY <1>5 DEF Hold, Leave, Review, Prepared
    <2> QED BY <2>1, <2>2, <1>4, <1>5 DEF IsDecision
<1>6. ASSUME NEW c \in Clients, NEW q, NEW key, NEW outcome, NEW read,
             Submit(c, q, key, outcome, read)
      PROVE  Prepared'
    BY <1>5, <1>6 DEF Submit, IsDecision
<1>7. ASSUME NEW c \in Clients, NEW i \in Imports, Import(c, i[1], i[2]) PROVE Prepared'
    BY <1>6, <1>7 DEF Import
<1>8. ASSUME NEW c \in Clients, NEW q \in Extractions, Extract(c, q) PROVE Prepared'
    BY <1>5, <1>6, <1>8 DEF Extract, IsDecision
<1>9. ASSUME NEW c \in Clients, Generate(c) PROVE Prepared'
    BY <1>6, <1>9 DEF Generate
<1>10. ASSUME NEW c \in Clients, Persist(c) \/ StorePaths(c) \/ StoreDecision(c)
       PROVE  Prepared'
    <2>1. Leave(c) /\ ~IsDecision(None)
        BY <1>10 DEF Persist, StorePaths, StoreDecision, IsDecision
    <2> QED BY <2>1, <1>5
<1>11. ASSUME NEW c \in Clients, NEW j \in Journeys, Walk(c, j) PROVE Prepared'
    BY <1>5, <1>11 DEF Walk, IsDecision
<1>12. ASSUME NEW c \in Clients, NEW k \in Sessions \cup {None}, NEW asked \in Reviewed,
              NEW use \in Uses, NEW scope \in SUBSET TargetCollections(asked[1]),
              Decide(c, k, asked[1], scope, use, asked[2])
       PROVE  Prepared'
    <2>1. DOMAIN op' = Clients /\ \A e \in Clients \ {c} : op'[e] = op[e]
        BY <1>12 DEF Decide, Hold, Review, Prepared
    <2>2. ASSUME NEW d, d = op'[c] PROVE Names(d)' /\ Fits(d)'
        BY <1>1, <1>3, <1>12, <2>2, DecidePrepares DEF Review
    <2> QED BY <2>1, <2>2, <1>4
<1>13. CASE op' = op
    BY <1>1, <1>3, <1>13 DEF Review, Prepared
<1>14. ASSUME NEW k \in Sessions, StartReviewSession(k) PROVE Prepared'
    BY <1>13, <1>14 DEF StartReviewSession
<1>15. ASSUME NEW b \in Batches, ImportRelations(b[1], b[2]) PROVE Prepared'
    BY <1>13, <1>15 DEF ImportRelations
<1>16. CASE UNCHANGED vars
    BY <1>13, <1>16 DEF vars
<1> QED BY <1>7, <1>8, <1>9, <1>10, <1>11, <1>12, <1>14, <1>15, <1>16 DEF Next

----------------------------------------------------------------------------
(* Lists of decisions *)

Withdrawn(D, i) == \E j \in DOMAIN D : D[j].prior = i
InForce(D, i) == D[i].action # "supersede" /\ ~Withdrawn(D, i)

OneInForce(D) == \A i, j \in DOMAIN D :
    Table(D[i].target) # "review" /\ SameMatter(D[i], D[j]) /\ InForce(D, i) /\ InForce(D, j)
        => i = j

OneWithdrawal(D) == \A i, j \in {x \in DOMAIN D : D[x].prior # None} :
    /\ D[i].prior < i /\ SameMatter(D[i], D[D[i].prior])
    /\ D[i].prior = D[j].prior => i = j

Of(D, k) == {i \in DOMAIN D : k # None /\ D[i].session = k}

Affordable(D) == \A k \in Sessions : Cardinality(Of(D, k)) <= DecisionLimit

LEMMA ConsistentList ==
    DecisionsAreConsistent <=>
        OneInForce(decisions) /\ OneWithdrawal(decisions) /\ Affordable(decisions)
<1>1. (\A i, j \in DOMAIN decisions : Table(decisions[i].target) # "review"
             /\ i \in ActiveOn(decisions[j].target) /\ j \in ActiveOn(decisions[j].target)
             /\ SameMatter(decisions[i], decisions[j]) => i = j) <=> OneInForce(decisions)
    BY DEF OneInForce, InForce, Withdrawn, ActiveOn, Superseded, SameMatter
<1>2. \A k : OfSession(k) = Of(decisions, k)
    BY DEF OfSession, Of
<1> QED BY <1>1, <1>2 DEF DecisionsAreConsistent, OneWithdrawal, Affordable

LEMMA OfSessionIsFinite == ASSUME NEW D, IsSequence(D), NEW k PROVE IsFiniteSet(Of(D, k))
<1>1. PICK T : D \in Seq(T)
    BY DEF IsSequence
<1>2. DOMAIN D = 1..Len(D) /\ Len(D) \in Nat
    BY <1>1
<1>3. IsFiniteSet(1..Len(D))
    BY <1>2, FS_Interval
<1> QED BY <1>2, <1>3, FS_Subset DEF Of

\* What StoreDecision examines is enough for one decision more.
LEMMA OneMore ==
    ASSUME NEW D, IsSequence(D), OneInForce(D), OneWithdrawal(D), Affordable(D), NEW d,
           d.action = "supersede" => /\ d.prior \in DOMAIN D
                                     /\ SameMatter(D[d.prior], d) /\ ~Withdrawn(D, d.prior),
           d.action # "supersede" => d.prior = None,
           \A i \in DOMAIN D : D[i].prior # None => D[i].prior \in DOMAIN D,
           d.action # "supersede" /\ Table(d.target) # "review" =>
               \A i \in DOMAIN D : InForce(D, i) => ~SameMatter(D[i], d),
           d.session # None => Cardinality(Of(D, d.session)) < DecisionLimit
    PROVE  OneInForce(Append(D, d)) /\ OneWithdrawal(Append(D, d)) /\ Affordable(Append(D, d))
<1> DEFINE E == Append(D, d)
<1>1. PICK n : n = Len(D) + 1
    OBVIOUS
<1>2. /\ IsSequence(E) /\ DOMAIN D = 1..Len(D) /\ Len(D) \in Nat
      /\ DOMAIN E = DOMAIN D \cup {n} /\ E[n] = d
      /\ \A i \in DOMAIN D : E[i] = D[i]
    BY <1>1, Appending
<1> HIDE DEF E
<1>3. /\ n \notin DOMAIN D /\ n \in Nat
      /\ \A i \in DOMAIN D : i \in Nat /\ i < n
    BY <1>1, <1>2
\* Nothing that was withdrawn comes back into force.
<1>4. \A i \in DOMAIN D : InForce(E, i) => InForce(D, i)
    BY <1>2 DEF InForce, Withdrawn
<1>5. OneInForce(E)
    <2> SUFFICES ASSUME NEW i \in DOMAIN E, NEW j \in DOMAIN E, i # j,
                        Table(E[i].target) # "review", SameMatter(E[i], E[j]),
                        InForce(E, i), InForce(E, j)
                 PROVE  FALSE
        BY DEF OneInForce
    <2>1. CASE i \in DOMAIN D /\ j \in DOMAIN D
        BY <2>1, <1>2, <1>4 DEF OneInForce
    <2>2. CASE i = n /\ j \in DOMAIN D
        BY <2>2, <1>2, <1>4 DEF InForce, SameMatter
    <2>3. CASE j = n /\ i \in DOMAIN D
        BY <2>3, <1>2, <1>4 DEF InForce, SameMatter
    <2> QED BY <2>1, <2>2, <2>3, <1>2
<1>6. OneWithdrawal(E)
    <2> SUFFICES ASSUME NEW i \in DOMAIN E, NEW j \in DOMAIN E,
                        E[i].prior # None, E[j].prior # None
                 PROVE  /\ E[i].prior < i /\ SameMatter(E[i], E[E[i].prior])
                        /\ E[i].prior = E[j].prior => i = j
        BY DEF OneWithdrawal
    <2>1. \A x \in DOMAIN D : D[x].prior # None =>
              D[x].prior \in DOMAIN D /\ D[x].prior < x /\ SameMatter(D[x], D[D[x].prior])
        BY DEF OneWithdrawal
    <2>2. E[i].prior < i /\ SameMatter(E[i], E[E[i].prior])
        <3>1. CASE i \in DOMAIN D
            BY <3>1, <2>1, <1>2
        <3>2. CASE i = n
            BY <3>2, <1>2, <1>3 DEF SameMatter
        <3> QED BY <3>1, <3>2, <1>2
    <2>3. ASSUME E[i].prior = E[j].prior PROVE i = j
        <3>1. CASE i \in DOMAIN D /\ j \in DOMAIN D
            BY <3>1, <2>3, <1>2 DEF OneWithdrawal
        <3>2. CASE i = n /\ j \in DOMAIN D
            BY <3>2, <2>3, <1>2 DEF Withdrawn
        <3>3. CASE j = n /\ i \in DOMAIN D
            BY <3>3, <2>3, <1>2 DEF Withdrawn
        <3> QED BY <3>1, <3>2, <3>3, <1>2
    <2> QED BY <2>2, <2>3
<1>7. Affordable(E)
    <2> SUFFICES ASSUME NEW k \in Sessions PROVE Cardinality(Of(E, k)) <= DecisionLimit
        BY DEF Affordable
    <2>1. IsFiniteSet(Of(D, k)) /\ Cardinality(Of(D, k)) \in Nat
        BY OfSessionIsFinite, FS_CardinalityType
    <2>2. CASE k # None /\ d.session = k
        <3>1. Of(E, k) = Of(D, k) \cup {n} /\ n \notin Of(D, k)
            BY <2>2, <1>2, <1>3 DEF Of
        <3>2. Cardinality(Of(E, k)) = Cardinality(Of(D, k)) + 1
            BY <3>1, <2>1, FS_AddElement
        <3> QED BY <3>2, <2>1, <2>2, CandidatesAssumption
    <2>3. CASE ~(k # None /\ d.session = k)
        <3>1. Of(E, k) = Of(D, k)
            BY <2>3, <1>2 DEF Of
        <3> QED BY <3>1 DEF Affordable
    <2> QED BY <2>2, <2>3
<1> QED BY <1>5, <1>6, <1>7 DEF E

----------------------------------------------------------------------------
(* Decisions of the database *)

\* A decision is stored: it was prepared on what was there then, and is
\* examined against what is there now.
LEMMA StoreStep ==
    ASSUME Review, NEW c \in Clients, StoreDecision(c)
    PROVE  Held' /\ DecisionsAreConsistent'
<1>1. PICK d : d = op[c]
    OBVIOUS
<1>2. PICK n : n = Len(decisions) + 1
    OBVIOUS
<1>3. /\ Names(d) /\ Fits(d) /\ UNCHANGED rows
      /\ \/ decisions' = decisions
         \/ /\ WithinBudget(d) /\ Unopposed(d) /\ Withdraws(d)
            /\ decisions' = Append(decisions, d)
    BY <1>1 DEF StoreDecision, Idle, Review, Prepared, IsDecision
<1>4. CASE decisions' = decisions
    BY <1>4, RowsStep DEF Next
<1>5. CASE /\ WithinBudget(d) /\ Unopposed(d) /\ Withdraws(d)
           /\ decisions' = Append(decisions, d)
    <2>1. /\ IsSequence(decisions) /\ IsSequence(decisions')
          /\ DOMAIN decisions' = DOMAIN decisions \cup {n} /\ decisions'[n] = d
          /\ \A i \in DOMAIN decisions : decisions'[i] = decisions[i]
        BY <1>2, <1>5, Appending DEF Review, Held
    <2>2. \A x : Names(x) => Names(x)'
        BY <2>1 DEF Names
    <2>3. \A x : Fits(x) => Fits(x)'
        BY <1>3 DEF Fits, RelationClosure, NodeClosure, StatementsUnder, rows, Table
    <2>4. Held'
        <3> SUFFICES ASSUME NEW i \in DOMAIN decisions', NEW x, x = decisions'[i]
                     PROVE  Names(x)' /\ Fits(x)'
            BY <2>1 DEF Held
        <3>1. CASE i = n
            BY <3>1, <1>3, <2>1, <2>2, <2>3
        <3>2. CASE i # n
            BY <3>2, <2>1, <2>2, <2>3 DEF Review, Held
        <3> QED BY <3>1, <3>2
    <2>5. /\ OneInForce(decisions) /\ OneWithdrawal(decisions) /\ Affordable(decisions)
        BY ConsistentList DEF Review
    <2>6. d.action = "supersede" => /\ d.prior \in DOMAIN decisions
                                    /\ SameMatter(decisions[d.prior], d)
                                    /\ ~Withdrawn(decisions, d.prior)
        BY <1>3, <1>5 DEF Names, Withdraws, Superseded, Withdrawn
    <2>7. d.action # "supersede" /\ Table(d.target) # "review" =>
              \A i \in DOMAIN decisions :
                  InForce(decisions, i) => ~SameMatter(decisions[i], d)
        BY <1>5 DEF Unopposed, InForce, Withdrawn, ActiveOn, Superseded, SameMatter
    <2>8. d.session # None => Cardinality(Of(decisions, d.session)) < DecisionLimit
        BY <1>5 DEF WithinBudget, OfSession, Of
    <2>9. \A i \in DOMAIN decisions :
              decisions[i].prior # None => decisions[i].prior \in DOMAIN decisions
        BY DEF Review, Held, Names
    <2>10. d.action # "supersede" => d.prior = None
        BY <1>3 DEF Names
    <2>11. /\ OneInForce(decisions') /\ OneWithdrawal(decisions') /\ Affordable(decisions')
        BY <1>5, <2>1, <2>5, <2>6, <2>7, <2>8, <2>9, <2>10, OneMore
    <2>12. (OneInForce(decisions) /\ OneWithdrawal(decisions) /\ Affordable(decisions))'
        BY <2>11
    <2>13. DecisionsAreConsistent'
        BY <2>12, ConsistentList, PTL
    <2> QED BY <2>4, <2>13
<1> QED BY <1>3, <1>4, <1>5

LEMMA ReviewInit == Init => Review
<1> SUFFICES ASSUME Init PROVE Review
    OBVIOUS
<1>1. decisions = <<>> /\ DOMAIN decisions = {} /\ op = [c \in Clients |-> None]
    BY DEF Init
<1>2. Prepared /\ Held
    <2>1. decisions \in Seq({})
        BY <1>1
    <2> QED BY <1>1, <2>1 DEF Prepared, Held, IsDecision, IsSequence
<1>3. Affordable(decisions)
    <2>1. \A k : Of(decisions, k) = {}
        BY <1>1 DEF Of
    <2>2. Cardinality({}) = 0 /\ DecisionLimit \in Nat
        BY FS_EmptySet, CandidatesAssumption
    <2> QED BY <2>1, <2>2 DEF Affordable
<1>4. OneInForce(decisions) /\ OneWithdrawal(decisions)
    BY <1>1 DEF OneInForce, OneWithdrawal
<1> QED BY <1>2, <1>3, <1>4, ConsistentList DEF Review

LEMMA ReviewStep == Review /\ [Next]_vars => Review'
<1> SUFFICES ASSUME Review, [Next]_vars PROVE Review'
    OBVIOUS
<1>1. ASSUME NEW c \in Clients, StoreDecision(c) PROVE Held' /\ DecisionsAreConsistent'
    BY <1>1, StoreStep
<1>2. ASSUME ~ \E c \in Clients : StoreDecision(c) PROVE decisions' = decisions
    BY <1>2 DEF Next, vars, reviews, Import, Extract, Generate, Persist, Walk, StorePaths,
        Decide, ImportRelations, StartReviewSession
<1>3. Held' /\ DecisionsAreConsistent'
    BY <1>1, <1>2, RowsStep
<1> QED BY <1>3, PreparedStep DEF Review

\* However reviewers examine and store at the same time: one decision in force
\* on a matter, no double withdrawal, no session over its budget.
THEOREM DecisionsStayConsistent == Spec => []DecisionsAreConsistent
<1>1. Review => DecisionsAreConsistent
    BY DEF Review
<1> QED BY <1>1, ReviewInit, ReviewStep, PTL DEF Spec

\* An acceptance is for exactly the closure that was there; a Relation that
\* reaches further matches no decision that anybody could have made.
LEMMA GrowthStep ==
    ASSUME Review, [Next]_vars, NEW r \in relations, NEW use \in Uses,
           Admitted(r, use), RelationClosure(r)' # RelationClosure(r)
    PROVE  ~Admitted(r, use)'
<1>1. decisions' = decisions
    <2>1. ASSUME NEW c \in Clients, StoreDecision(c) PROVE FALSE
        <3>1. UNCHANGED rows
            BY <2>1 DEF StoreDecision
        <3> QED BY <3>1 DEF rows, RelationClosure, NodeClosure, StatementsUnder
    <2>2. \A c, q, p : Import(c, q, p) \/ Extract(c, q) => decisions' = decisions
        BY DEF Import, Extract, reviews
    <2>3. \A c : Generate(c) \/ Persist(c) \/ StorePaths(c) => decisions' = decisions
        BY DEF Generate, Persist, StorePaths, reviews
    <2>4. \A c, j : Walk(c, j) => decisions' = decisions
        BY DEF Walk, reviews
    <2>5. \A c, k, t, scope, u, action : Decide(c, k, t, scope, u, action) => decisions' = decisions
        BY DEF Decide, reviews
    <2>6. \A q, batch, k :
             ImportRelations(q, batch) \/ StartReviewSession(k) => decisions' = decisions
        BY DEF ImportRelations, StartReviewSession, reviews
    <2> QED BY <2>1, <2>2, <2>3, <2>4, <2>5, <2>6 DEF Next, vars
<1>2. RelationClosure(r) \subseteq RelationClosure(r)'
    BY RowsGrow, ClosureGrows
<1>3. ASSUME NEW i \in DOMAIN decisions, decisions[i].target = <<"relation", r>>
      PROVE  decisions[i].scope # RelationClosure(r)'
    <2>1. Fits(decisions[i])
        BY DEF Review, Held
    <2>2. decisions[i].scope \subseteq RelationClosure(r)
        BY <1>3, <2>1 DEF Fits, Table
    <2> QED BY <2>2, <1>2
<1>4. \A i : i \in ActiveOn(<<"relation", r>>)' =>
          i \in DOMAIN decisions /\ decisions[i].target = <<"relation", r>>
    BY <1>1 DEF ActiveOn
<1> QED BY <1>1, <1>3, <1>4 DEF Admitted

\* No acceptance is ever wider than what its reviewer could see.
THEOREM GrowthAlwaysEndsAdmission == Spec => GrowthEndsAdmission
<1>1. Review /\ [Next]_vars =>
          [\A r \in relations, use \in Uses :
              Admitted(r, use) /\ RelationClosure(r)' # RelationClosure(r)
                  => ~Admitted(r, use)']_vars
    BY GrowthStep
<1> QED BY <1>1, ReviewInit, ReviewStep, PTL DEF Spec, GrowthEndsAdmission

----------------------------------------------------------------------------
(* The backlog *)

\* What an import may bring.
Sound(g) == IsFiniteSet(OutputOf(g)) /\ g.meanings \subseteq DOMAIN MeaningOf

\* Only a proposal that succeeded has a graph.
Proposed(o) == Sound(o.graph) /\ (o.status = "succeeded" \/ o.graph = Nothing)

Undecided == {t \in OutputOf(Stored) : \A i \in DOMAIN decisions : decisions[i].target # t}

Backlog ==
    /\ DOMAIN op = Clients
    /\ \A c \in Clients : \A d : d = op[c] /\ d # None /\ d.type = "import" =>
          Proposed(d.outcome)
    /\ Sound(Stored) /\ IsFiniteSet(relations)
    /\ IsSequence(decisions)
    /\ BacklogBounded

LEMMA BackloggedIsUndecided == BacklogBounded <=> Cardinality(Undecided) <= MaxUnresolved
BY DEF BacklogBounded, Undecided

LEMMA KindsOfOutput ==
    ASSUME NEW g, NEW t
    PROVE  t \in OutputOf(g) <=>
               \/ \E l \in g.links : \/ t = <<"statement", l[1]>>
                                     \/ t = <<"voice", VoiceOf[l[1]]>>
                                     \/ t = <<"evidence_link", l>>
               \/ \E m \in g.mentions : t = <<"concept", m[1]>>
               \/ \E cm \in g.meanings : \/ t = <<"concept_meaning", cm>>
                                         \/ t = <<"concept", MeaningOf[cm].concept>>
<1>1. t \in UNION {{<<"statement", l[1]>>, <<"voice", VoiceOf[l[1]]>>} : l \in g.links} <=>
          \E l \in g.links : t = <<"statement", l[1]>> \/ t = <<"voice", VoiceOf[l[1]]>>
    <2> DEFINE Pair(l) == {<<"statement", l[1]>>, <<"voice", VoiceOf[l[1]]>>}
    <2>1. \A l : t \in Pair(l) <=> t = <<"statement", l[1]>> \/ t = <<"voice", VoiceOf[l[1]]>>
        OBVIOUS
    <2> HIDE DEF Pair
    <2>2. t \in UNION {Pair(l) : l \in g.links} <=> \E l \in g.links : t \in Pair(l)
        OBVIOUS
    <2>3. t \in UNION {Pair(l) : l \in g.links} <=>
              \E l \in g.links : t = <<"statement", l[1]>> \/ t = <<"voice", VoiceOf[l[1]]>>
        BY <2>1, <2>2
    <2> QED BY <2>3 DEF Pair
<1>2. t \in UNION {{<<"concept_meaning", cm>>, <<"concept", MeaningOf[cm].concept>>} :
                     cm \in g.meanings} <=>
          \E cm \in g.meanings : \/ t = <<"concept_meaning", cm>>
                                 \/ t = <<"concept", MeaningOf[cm].concept>>
    <2> DEFINE Pair(cm) == {<<"concept_meaning", cm>>, <<"concept", MeaningOf[cm].concept>>}
    <2>1. \A cm : t \in Pair(cm) <=> \/ t = <<"concept_meaning", cm>>
                                     \/ t = <<"concept", MeaningOf[cm].concept>>
        OBVIOUS
    <2> HIDE DEF Pair
    <2>2. t \in UNION {Pair(cm) : cm \in g.meanings} <=> \E cm \in g.meanings : t \in Pair(cm)
        OBVIOUS
    <2>3. t \in UNION {Pair(cm) : cm \in g.meanings} <=>
              \E cm \in g.meanings : \/ t = <<"concept_meaning", cm>>
                                     \/ t = <<"concept", MeaningOf[cm].concept>>
        BY <2>1, <2>2
    <2> QED BY <2>3 DEF Pair
<1>3. t \in {<<"concept", m[1]>> : m \in g.mentions} <=>
          \E m \in g.mentions : t = <<"concept", m[1]>>
    OBVIOUS
<1>4. t \in {<<"evidence_link", l>> : l \in g.links} <=>
          \E l \in g.links : t = <<"evidence_link", l>>
    OBVIOUS
<1>5. t \in OutputOf(g) <=>
          \/ \E l \in g.links : t = <<"statement", l[1]>> \/ t = <<"voice", VoiceOf[l[1]]>>
          \/ \E m \in g.mentions : t = <<"concept", m[1]>>
          \/ \E cm \in g.meanings : \/ t = <<"concept_meaning", cm>>
                                    \/ t = <<"concept", MeaningOf[cm].concept>>
          \/ \E l \in g.links : t = <<"evidence_link", l>>
    BY <1>1, <1>2, <1>3, <1>4 DEF OutputOf, NodesOf
<1> QED BY <1>5

LEMMA OutputsTogether ==
    ASSUME NEW g, NEW h
    PROVE  OutputOf(Both(g, h)) = OutputOf(g) \cup OutputOf(h)
<1> SUFFICES ASSUME NEW t
             PROVE  t \in OutputOf(Both(g, h)) <=> t \in OutputOf(g) \/ t \in OutputOf(h)
    BY DEF OutputOf
<1> DEFINE b == Both(g, h)
<1>1. /\ b.links = g.links \cup h.links /\ b.mentions = g.mentions \cup h.mentions
      /\ b.meanings = g.meanings \cup h.meanings
    BY DEF Both, Graph
<1> HIDE DEF b
<1>2. t \in OutputOf(b) <=> t \in OutputOf(g) \/ t \in OutputOf(h)
    BY <1>1, KindsOfOutput
<1> QED BY <1>2 DEF b

\* Every candidate reaches a Collection, so without a decision it is unresolved.
LEMMA UndecidedIsUnresolved ==
    ASSUME meanings \subseteq DOMAIN MeaningOf, NEW t \in Undecided
    PROVE  t \in Unresolved
<1>1. t \in OutputOf(Stored)
    BY DEF Undecided
<1>2. NodeClosure(t) # {}
    <2>1. StatementsUnder(t) # {} \/ \E m \in mentions : t = <<"concept", m[1]>>
        <3>1. CASE \E l \in links : t = <<"statement", l[1]>> \/ t = <<"voice", VoiceOf[l[1]]>>
            BY <3>1 DEF StatementsUnder
        <3>2. CASE \E l \in links : t = <<"evidence_link", l>>
            BY <3>2 DEF StatementsUnder
        <3>3. CASE \E m \in mentions : t = <<"concept", m[1]>>
            BY <3>3
        <3>4. CASE \E cm \in meanings : \/ t = <<"concept_meaning", cm>>
                                        \/ t = <<"concept", MeaningOf[cm].concept>>
            <4>1. PICK cm \in meanings : \/ t = <<"concept_meaning", cm>>
                                        \/ t = <<"concept", MeaningOf[cm].concept>>
                BY <3>4
            <4>2. MeaningOf[cm].supports # {}
                BY <4>1, GraphAssumption DEF GraphAssumption
            <4> QED BY <4>1, <4>2 DEF StatementsUnder
        <3>5. Stored.links = links /\ Stored.mentions = mentions /\ Stored.meanings = meanings
            BY DEF Stored, Graph
        <3> QED BY <1>1, <3>1, <3>2, <3>3, <3>4, <3>5, KindsOfOutput
    <2> QED BY <2>1 DEF NodeClosure
<1>3. ActiveOn(t) = {}
    BY DEF Undecided, ActiveOn
<1>4. ~Resolved(t)
    <2> SUFFICES ASSUME NEW use \in Uses,
                        Closure(t) \subseteq UNION {decisions[i].scope :
                            i \in {j \in ActiveOn(t) : /\ decisions[j].use = use
                                                       /\ decisions[j].action \in Terminal}}
                 PROVE  FALSE
        BY DEF Resolved
    <2>1. Closure(t) = {}
        BY <1>3
    <2> QED BY <1>2, <2>1 DEF Closure
<1> QED BY <1>1, <1>4 DEF Unresolved, Candidates

LEMMA CandidatesAreFinite ==
    ASSUME IsFiniteSet(OutputOf(Stored)), IsFiniteSet(relations)
    PROVE  IsFiniteSet(Candidates)
<1> DEFINE T == {<<"relation", r>> : r \in relations}
           f == [r \in relations |-> <<"relation", r>>]
<1>1. f \in Surjection(relations, T)
    BY DEF Surjection
<1>2. IsFiniteSet(T)
    BY <1>1, FS_Surjection
<1> QED BY <1>2, FS_Union DEF Candidates

LEMMA NothingIsSound == Sound(Nothing) /\ OutputOf(Nothing) = {}
<1>1. OutputOf(Nothing) = {} /\ Nothing.meanings = {}
    BY DEF OutputOf, NodesOf, Nothing, Graph
<1> QED BY <1>1, FS_EmptySet DEF Sound

\* The transaction of an import counts all that it may leave undecided.
LEMMA PersistBacklog ==
    ASSUME Backlog, NEW c \in Clients, Persist(c)
    PROVE  Sound(Stored)' /\ IsFiniteSet(relations)' /\ BacklogBounded'
<1>1. PICK d : d = op[c] /\ d # None /\ d.type = "import"
    BY DEF Persist, Idle
<1>2. Proposed(d.outcome)
    BY <1>1 DEF Backlog
<1>3. UNCHANGED <<relations, decisions>>
    BY DEF Persist, rows, reviews
<1>4. CASE UNCHANGED rows
    <2>1. Sound(Stored)' /\ Undecided' = Undecided
        BY <1>3, <1>4 DEF rows, Sound, Stored, Undecided, Backlog
    <2>2. Cardinality(Undecided) <= MaxUnresolved
        BY BackloggedIsUndecided DEF Backlog
    <2>3. (Cardinality(Undecided) <= MaxUnresolved)'
        BY <2>1, <2>2
    <2>4. BacklogBounded'
        BY <2>3, BackloggedIsUndecided, PTL
    <2> QED BY <1>3, <2>1, <2>4 DEF Backlog
<1>5. CASE ~ UNCHANGED rows
    <2>1. PICK g : /\ g = Nothing \/ (g = d.outcome.graph /\ ~OverBacklog(g))
                   /\ links' = Both(Stored, g).links
                   /\ mentions' = Both(Stored, g).mentions
                   /\ meanings' = Both(Stored, g).meanings
        BY <1>1, <1>2, <1>5 DEF Persist, Outcome, Proposed
    <2>2. Sound(g)
        BY <1>2, <2>1, NothingIsSound DEF Proposed
    <2>3. Stored' = Both(Stored, g)
        BY <2>1 DEF Stored, Both, Graph
    <2>4. OutputOf(Stored') = OutputOf(Stored) \cup OutputOf(g)
        BY <2>3, OutputsTogether
    <2>5. Sound(Stored)'
        <3>1. IsFiniteSet(OutputOf(Stored'))
            BY <2>2, <2>4, FS_Union DEF Sound, Backlog
        <3>2. Stored'.meanings = Stored.meanings \cup g.meanings
            BY <2>3 DEF Both, Graph
        <3> QED BY <2>2, <3>1, <3>2 DEF Sound, Backlog
    <2>6. Undecided' \subseteq Undecided \cup NewCandidates(g)
        <3> SUFFICES ASSUME NEW t \in Undecided', t \notin Undecided
                     PROVE  t \in OutputOf(g) /\ t \notin Candidates
            BY DEF NewCandidates
        <3>1. t \in OutputOf(g) /\ t \notin OutputOf(Stored)
            BY <1>3, <2>4 DEF Undecided
        <3>2. \A r : t # <<"relation", r>>
            BY <3>1, KindsOfOutput
        <3> QED BY <3>1, <3>2 DEF Candidates
    <2>7. Undecided \subseteq Unresolved
        <3>1. meanings \subseteq DOMAIN MeaningOf
            BY DEF Backlog, Sound, Stored, Graph
        <3> QED BY <3>1, UndecidedIsUnresolved
    <2>8. IsFiniteSet(Unresolved)
        BY CandidatesAreFinite, FS_Subset DEF Backlog, Sound, Unresolved
    <2>9. IsFiniteSet(NewCandidates(g))
        BY <2>2, FS_Subset DEF Sound, NewCandidates
    <2>10. CASE g = Nothing
        <3>1. Undecided' \subseteq Undecided /\ IsFiniteSet(Undecided)
            BY <2>6, <2>7, <2>8, <2>10, NothingIsSound, FS_Subset DEF NewCandidates
        <3>2. Cardinality(Undecided') <= Cardinality(Undecided)
            BY <3>1, FS_Subset
        <3>3. Cardinality(Undecided) \in Nat /\ Cardinality(Undecided') \in Nat
            BY <3>1, FS_CardinalityType, FS_Subset
        <3>4. Cardinality(Undecided) <= MaxUnresolved
            BY BackloggedIsUndecided DEF Backlog
        <3>5. (Cardinality(Undecided) <= MaxUnresolved)'
            BY <3>2, <3>3, <3>4, CandidatesAssumption DEF CandidatesAssumption
        <3>6. BacklogBounded'
            BY <3>5, BackloggedIsUndecided, PTL
        <3> QED BY <1>3, <2>5, <3>6 DEF Backlog
    <2>11. CASE ~OverBacklog(g)
        <3> DEFINE U == Unresolved
                   N == NewCandidates(g)
        <3>1. IsFiniteSet(U) /\ IsFiniteSet(N) /\ Undecided' \subseteq U \cup N
            BY <2>6, <2>7, <2>8, <2>9
        <3>2. Cardinality(U) + Cardinality(N) <= MaxUnresolved
            <4>1. Cardinality(U) \in Nat /\ Cardinality(N) \in Nat
                BY <3>1, FS_CardinalityType
            <4> QED BY <2>11, <4>1, CandidatesAssumption DEF OverBacklog, CandidatesAssumption
        <3> HIDE DEF U, N
        <3>3. /\ IsFiniteSet(U \cup N) /\ IsFiniteSet(U \cap N)
              /\ Cardinality(U \cup N) = Cardinality(U) + Cardinality(N) - Cardinality(U \cap N)
            BY <3>1, FS_Union, FS_Intersection
        <3>4. /\ Cardinality(U) \in Nat /\ Cardinality(N) \in Nat /\ Cardinality(U \cap N) \in Nat
              /\ Cardinality(U \cup N) \in Nat
            BY <3>1, <3>3, FS_CardinalityType
        <3>5. IsFiniteSet(Undecided') /\ Cardinality(Undecided') <= Cardinality(U \cup N)
            BY <3>1, <3>3, FS_Subset
        <3>6. Cardinality(Undecided') \in Nat
            BY <3>5, FS_CardinalityType
        <3>7. (Cardinality(Undecided) <= MaxUnresolved)'
            BY <3>2, <3>3, <3>4, <3>5, <3>6, CandidatesAssumption DEF CandidatesAssumption
        <3>8. BacklogBounded'
            BY <3>7, BackloggedIsUndecided, PTL
        <3> QED BY <1>3, <2>5, <3>8 DEF Backlog
    <2> QED BY <2>1, <2>10, <2>11
<1> QED BY <1>4, <1>5

\* Whoever submits, submits something sound.
LEMMA SubmittedIsProposed ==
    ASSUME Backlog, [Next]_vars, NEW c \in Clients
    PROVE  \A d : d = op'[c] /\ d # None /\ d.type = "import" => Proposed(d.outcome)
<1>1. \A status, reason : Proposed(Outcome(status, reason, Nothing))
    BY NothingIsSound DEF Proposed, Outcome
<1>2. \A q : Preflight(q) # None => Proposed(Preflight(q))
    BY <1>1 DEF Preflight
<1>3. ASSUME NEW q, NEW p \in {i[2] : i \in Imports} \cup Generated
      PROVE  Proposed(Completion(q, p))
    <2>1. p.state = "complete" => Sound(p.graph)
        BY CandidatesAssumption DEF CandidatesAssumption, ValidProposal, Sound
    <2>2. p.state = "complete" => Proposed(Outcome("succeeded", "none", p.graph))
        BY <2>1 DEF Proposed, Outcome
    <2> QED BY <1>1, <2>2 DEF Completion
<1>4. ASSUME NEW e \in Clients, op'[e] = op[e]
      PROVE  \A d : d = op'[e] /\ d # None /\ d.type = "import" => Proposed(d.outcome)
    BY <1>4 DEF Backlog
<1>5. ASSUME NEW e \in Clients, NEW what, Hold(e, what) \/ Leave(e),
             what # None /\ what.type = "import" => Proposed(what.outcome)
      PROVE  \A d : d = op'[c] /\ d # None /\ d.type = "import" => Proposed(d.outcome)
    <2>1. CASE e = c
        BY <1>5, <2>1 DEF Hold, Leave, Backlog
    <2>2. CASE e # c
        <3>1. op'[c] = op[c]
            BY <1>5, <2>2 DEF Hold, Leave, Backlog
        <3> QED BY <1>4, <3>1
    <2> QED BY <2>1, <2>2
<1>6. ASSUME NEW e \in Clients, NEW q, NEW key, NEW outcome, NEW read,
             Submit(e, q, key, outcome, read), Proposed(outcome)
      PROVE  \A d : d = op'[c] /\ d # None /\ d.type = "import" => Proposed(d.outcome)
    BY <1>5, <1>6 DEF Submit
<1>7. ASSUME NEW e \in Clients, NEW i \in Imports, Import(e, i[1], i[2])
      PROVE  \A d : d = op'[c] /\ d # None /\ d.type = "import" => Proposed(d.outcome)
    BY <1>2, <1>3, <1>6, <1>7 DEF Import
<1>8. ASSUME NEW e \in Clients, NEW q \in Extractions, Extract(e, q)
      PROVE  \A d : d = op'[c] /\ d # None /\ d.type = "import" => Proposed(d.outcome)
    BY <1>2, <1>5, <1>6, <1>8 DEF Extract
<1>9. ASSUME NEW e \in Clients, Generate(e)
      PROVE  \A d : d = op'[c] /\ d # None /\ d.type = "import" => Proposed(d.outcome)
    BY <1>1, <1>3, <1>6, <1>9 DEF Generate
<1>10. ASSUME NEW e \in Clients, Persist(e) \/ StorePaths(e) \/ StoreDecision(e)
       PROVE  \A d : d = op'[c] /\ d # None /\ d.type = "import" => Proposed(d.outcome)
    BY <1>5, <1>10 DEF Persist, StorePaths, StoreDecision
<1>11. ASSUME NEW e \in Clients, NEW j \in Journeys, Walk(e, j)
       PROVE  \A d : d = op'[c] /\ d # None /\ d.type = "import" => Proposed(d.outcome)
    BY <1>5, <1>11 DEF Walk
<1>12. ASSUME NEW e \in Clients, NEW k \in Sessions \cup {None}, NEW asked \in Reviewed,
              NEW use \in Uses, NEW scope \in SUBSET TargetCollections(asked[1]),
              Decide(e, k, asked[1], scope, use, asked[2])
       PROVE  \A d : d = op'[c] /\ d # None /\ d.type = "import" => Proposed(d.outcome)
    BY <1>5, <1>12 DEF Decide
<1>13. CASE op' = op
    BY <1>4, <1>13
<1>14. (\E k \in Sessions : StartReviewSession(k)) \/ (\E b \in Batches : ImportRelations(b[1], b[2]))
          \/ UNCHANGED vars => op' = op
    BY DEF StartReviewSession, ImportRelations, vars
<1> QED BY <1>7, <1>8, <1>9, <1>10, <1>11, <1>12, <1>13, <1>14 DEF Next

LEMMA BacklogStep == Backlog /\ [Next]_vars => Backlog'
<1> SUFFICES ASSUME Backlog, [Next]_vars PROVE Backlog'
    OBVIOUS
<1>1. DOMAIN op' = Clients
    <2>1. ASSUME NEW c \in Clients, NEW what, Hold(c, what) \/ Leave(c)
          PROVE  DOMAIN op' = Clients
        BY <2>1 DEF Hold, Leave, Backlog
    <2>2. ASSUME NEW c \in Clients, NEW q, NEW key, NEW outcome, NEW read,
                 Submit(c, q, key, outcome, read)
          PROVE  DOMAIN op' = Clients
        BY <2>1, <2>2 DEF Submit
    <2>3. ASSUME NEW c \in Clients, NEW i \in Imports, Import(c, i[1], i[2])
          PROVE  DOMAIN op' = Clients
        BY <2>2, <2>3 DEF Import
    <2>4. ASSUME NEW c \in Clients, NEW q \in Extractions, Extract(c, q)
          PROVE  DOMAIN op' = Clients
        BY <2>1, <2>2, <2>4 DEF Extract
    <2>5. ASSUME NEW c \in Clients, Generate(c) PROVE DOMAIN op' = Clients
        BY <2>2, <2>5 DEF Generate
    <2>6. ASSUME NEW c \in Clients, Persist(c) \/ StorePaths(c) \/ StoreDecision(c)
          PROVE  DOMAIN op' = Clients
        BY <2>1, <2>6 DEF Persist, StorePaths, StoreDecision
    <2>7. ASSUME NEW c \in Clients, NEW j \in Journeys, Walk(c, j)
          PROVE  DOMAIN op' = Clients
        BY <2>1, <2>7 DEF Walk
    <2>8. ASSUME NEW c \in Clients, NEW k, NEW asked \in Reviewed, NEW use, NEW scope,
                 Decide(c, k, asked[1], scope, use, asked[2])
          PROVE  DOMAIN op' = Clients
        BY <2>1, <2>8 DEF Decide
    <2>9. (\E k \in Sessions : StartReviewSession(k))
             \/ (\E b \in Batches : ImportRelations(b[1], b[2])) \/ UNCHANGED vars
              => op' = op
        BY DEF StartReviewSession, ImportRelations, vars
    <2> QED BY <2>3, <2>4, <2>5, <2>6, <2>7, <2>8, <2>9 DEF Next, Backlog
<1>2. IsSequence(decisions') /\ DOMAIN decisions \subseteq DOMAIN decisions'
      /\ \A i \in DOMAIN decisions : decisions'[i] = decisions[i]
    <2>1. ASSUME NEW c \in Clients, StoreDecision(c)
          PROVE  \/ decisions' = decisions
                 \/ \E d : decisions' = Append(decisions, d)
        BY <2>1 DEF StoreDecision
    <2>2. ASSUME ~ \E c \in Clients : StoreDecision(c) PROVE decisions' = decisions
        BY <2>2 DEF Next, vars, reviews, Import, Extract, Generate, Persist, Walk, StorePaths,
            Decide, ImportRelations, StartReviewSession
    <2>3. CASE decisions' = decisions
        BY <2>3 DEF Backlog
    <2>4. CASE \E d : decisions' = Append(decisions, d)
        BY <2>4, Appending DEF Backlog
    <2> QED BY <2>1, <2>2, <2>3, <2>4
<1>3. ASSUME ~ \E c \in Clients : Persist(c)
      PROVE  Sound(Stored)' /\ IsFiniteSet(relations)' /\ BacklogBounded'
    <2>1. UNCHANGED <<links, mentions, meanings>>
        BY <1>3 DEF Next, vars, rows, Import, Extract, Generate, Walk, StorePaths, Decide,
            StoreDecision, ImportRelations, StartReviewSession
    <2>2. Stored' = Stored
        BY <2>1 DEF Stored
    <2>3. IsFiniteSet(relations')
        <3>1. ASSUME NEW b \in Batches, ImportRelations(b[1], b[2])
              PROVE  IsFiniteSet(relations')
            BY <3>1, CandidatesAssumption, FS_Union
               DEF CandidatesAssumption, ImportRelations, Backlog
        <3>2. ASSUME ~ \E b \in Batches : ImportRelations(b[1], b[2])
              PROVE  relations' = relations
            BY <1>3, <3>2 DEF Next, vars, rows, Import, Extract, Generate, Walk, StorePaths,
                Decide, StoreDecision, StartReviewSession
        <3> QED BY <3>1, <3>2 DEF Backlog
    <2>4. Undecided' \subseteq Undecided
        BY <1>2, <2>2 DEF Undecided
    <2>5. IsFiniteSet(Undecided)
        BY FS_Subset DEF Undecided, Backlog, Sound
    <2>6. /\ IsFiniteSet(Undecided') /\ Cardinality(Undecided') <= Cardinality(Undecided)
          /\ Cardinality(Undecided) \in Nat /\ Cardinality(Undecided') \in Nat
        BY <2>4, <2>5, FS_Subset, FS_CardinalityType
    <2>7. Cardinality(Undecided) <= MaxUnresolved
        BY BackloggedIsUndecided DEF Backlog
    <2>8. (Cardinality(Undecided) <= MaxUnresolved)'
        BY <2>6, <2>7, CandidatesAssumption DEF CandidatesAssumption
    <2>9. BacklogBounded'
        BY <2>8, BackloggedIsUndecided, PTL
    <2> QED BY <2>2, <2>3, <2>9 DEF Backlog, Sound
<1>4. Sound(Stored)' /\ IsFiniteSet(relations)' /\ BacklogBounded'
    BY <1>3, PersistBacklog
<1>5. \A c \in Clients : \A d : d = op'[c] /\ d # None /\ d.type = "import" => Proposed(d.outcome)
    BY SubmittedIsProposed
<1> QED BY <1>1, <1>2, <1>4, <1>5 DEF Backlog, Proposed, Sound

LEMMA BacklogInit == Init => Backlog
<1> SUFFICES ASSUME Init PROVE Backlog
    OBVIOUS
<1>1. Stored = Nothing /\ relations = {} /\ decisions = <<>>
    BY DEF Init, NoRows, Stored, Nothing, Graph
<1>2. Sound(Stored) /\ OutputOf(Stored) = {}
    BY <1>1, NothingIsSound
<1>3. Undecided = {} /\ IsFiniteSet({}) /\ Cardinality({}) = 0
    BY <1>2, FS_EmptySet DEF Undecided
<1>4. BacklogBounded
    BY <1>3, BackloggedIsUndecided, CandidatesAssumption DEF CandidatesAssumption
<1>5. IsSequence(decisions)
    <2>1. decisions \in Seq({})
        BY <1>1
    <2> QED BY <2>1 DEF IsSequence
<1> QED BY <1>1, <1>2, <1>3, <1>4, <1>5 DEF Backlog, Init

\* However many imports race, what nobody has decided stays within the limit.
THEOREM BacklogAlwaysBounded == Spec => []BacklogBounded
<1>1. Backlog => BacklogBounded
    BY DEF Backlog
<1> QED BY <1>1, BacklogInit, BacklogStep, PTL DEF Spec

----------------------------------------------------------------------------
(* Paths *)

\* Each step of a path is a permitted Relation and leads to a permitted node.
LEMMA StepsArePermitted ==
    ASSUME NEW n, NEW permitted, NEW direction, NEW step \in StepsFrom(n, permitted, direction)
    PROVE  /\ Grounding(step[2]) \subseteq permitted
           /\ \A l \in RelationOf[step[1]].evidence : l[2] \in permitted
<1>1. PICK r \in AuthorizedRelations(permitted) :
         step = <<r, RelationOf[r].object>> \/ step = <<r, RelationOf[r].subject>>
    BY DEF StepsFrom
<1>2. /\ step[1] = r /\ step[2] \in AuthorizedNodes(permitted)
      /\ \A l \in RelationOf[r].evidence : l[2] \in permitted
    BY <1>1 DEF AuthorizedRelations
<1> QED BY <1>2 DEF AuthorizedNodes

LEMMA WalkIsPermitted ==
    ASSUME [Next]_vars, DOMAIN op = Clients, NEW c \in Clients, op[c] = None,
           op'[c] # None, op'[c].type = "paths",
           NEW path \in op'[c].paths, NEW i \in DOMAIN path
    PROVE  /\ \A l \in links : <<"statement", l[1]>> = path[i][2] =>
                                    l[2] \in op'[c].journey.request.permitted
           /\ \A m \in mentions : <<"concept", m[1]>> = path[i][2] =>
                                    m[3] \in op'[c].journey.request.permitted
           /\ \A l \in RelationOf[path[i][1]].evidence :
                                    l[2] \in op'[c].journey.request.permitted
<1>1. ASSUME NEW e \in Clients, NEW what, Hold(e, what) \/ Leave(e),
             what.type # "paths"
      PROVE  FALSE
    BY <1>1 DEF Hold, Leave
<1>2. \A e \in Clients : \A q, key, outcome, read : ~Submit(e, q, key, outcome, read)
    BY <1>1 DEF Submit
<1>3. PICK e \in Clients, j \in Journeys : Walk(e, j)
    <2>1. op' # op
        OBVIOUS
    <2>2. ASSUME NEW e \in Clients, NEW i1 \in Imports, Import(e, i1[1], i1[2]) PROVE FALSE
        BY <2>2, <1>2 DEF Import
    <2>3. ASSUME NEW e \in Clients, NEW q \in Extractions, Extract(e, q) PROVE FALSE
        BY <2>3, <1>1, <1>2 DEF Extract
    <2>4. ASSUME NEW e \in Clients, Generate(e) PROVE FALSE
        BY <2>4, <1>2 DEF Generate
    <2>5. ASSUME NEW e \in Clients, Persist(e) \/ StorePaths(e) \/ StoreDecision(e) PROVE FALSE
        <3>1. Leave(e)
            BY <2>5 DEF Persist, StorePaths, StoreDecision
        <3> QED BY <1>1, <3>1 DEF Leave
    <2>6. ASSUME NEW e \in Clients, NEW k, NEW asked \in Reviewed, NEW use, NEW scope,
                 Decide(e, k, asked[1], scope, use, asked[2])
          PROVE  FALSE
        BY <2>6, <1>1 DEF Decide
    <2>7. (\E k \in Sessions : StartReviewSession(k))
             \/ (\E b \in Batches : ImportRelations(b[1], b[2])) \/ UNCHANGED vars
              => op' = op
        BY DEF StartReviewSession, ImportRelations, vars
    <2> QED BY <2>1, <2>2, <2>3, <2>4, <2>5, <2>6, <2>7 DEF Next
<1>4. PICK kept \in SUBSET PathsFrom(j.seed, j.request.permitted, j.direction, j.hops) :
         Hold(e, [type |-> "paths", journey |-> j, paths |-> kept])
    BY <1>3 DEF Walk
<1>5. op'[c].paths = kept /\ op'[c].journey = j
    BY <1>4 DEF Hold
<1>6. PICK n : path[i] \in StepsFrom(n, j.request.permitted, j.direction)
    BY <1>4, <1>5 DEF PathsFrom
<1>7. /\ Grounding(path[i][2]) \subseteq j.request.permitted
      /\ \A l \in RelationOf[path[i][1]].evidence : l[2] \in j.request.permitted
    BY <1>6, StepsArePermitted
<1>8. \A l \in links : <<"statement", l[1]>> = path[i][2] => l[2] \in Grounding(path[i][2])
    BY DEF Grounding
<1>9. \A m \in mentions : <<"concept", m[1]>> = path[i][2] => m[3] \in Grounding(path[i][2])
    BY DEF Grounding
<1> QED BY <1>5, <1>7, <1>8, <1>9

\* No path ever runs through text that its request may not see, whenever that
\* text was added.
THEOREM PathsAlwaysPermitted == Spec => PathsStayPermitted
<1>1. Backlog /\ [Next]_vars =>
          [\A c \in Clients : op[c] = None /\ op'[c] # None /\ op'[c].type = "paths" =>
              \A path \in op'[c].paths : \A i \in DOMAIN path :
                  /\ \A l \in links : <<"statement", l[1]>> = path[i][2] =>
                                          l[2] \in op'[c].journey.request.permitted
                  /\ \A m \in mentions : <<"concept", m[1]>> = path[i][2] =>
                                          m[3] \in op'[c].journey.request.permitted
                  /\ \A l \in RelationOf[path[i][1]].evidence :
                                          l[2] \in op'[c].journey.request.permitted]_vars
    BY WalkIsPermitted DEF Backlog
<1> QED BY <1>1, BacklogInit, BacklogStep, PTL DEF Spec, PathsStayPermitted
====
