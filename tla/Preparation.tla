---- MODULE Preparation ----
(***************************************************************************)
(* What stands between a recall and an answer (interactive/service.py,     *)
(* evidence/coverage.py): prepare_answer takes the passages of a stored    *)
(* packet, leaves out the noise, asks a gate whether they cover what the   *)
(* caller requires, searches once more inside a few of their Sources if    *)
(* they do not, and keeps no more than the gate needs; record_draft        *)
(* computes all of it again and cites the result.  Packets, scope sessions *)
(* and access are those of RecallStore, and the Library goes on changing   *)
(* between the two calls.                                                  *)
(*                                                                         *)
(* RecallStore tells versions apart; here a version has passages, and a    *)
(* bounded recall brings up only some of them.  A passage is a record of   *)
(* its version and its part; its text is the set of anchors found in it.   *)
(***************************************************************************)
EXTENDS RecallStore

CONSTANTS
    Parts,         \* the passages of every version
    Broad,         \* those that the recall of a packet brings up
    Noise,         \* <<Source, part>>: bibliography, index, table, off the topic
    Says,          \* <<Source, part>> -> its anchors
    Anchors,
    Rank,          \* passage -> its place in any ranking
    Specs,         \* the evidence gate specs in use
    MaxSources,    \* _DRILLDOWN_SOURCE_LIMIT
    MaxPrepared    \* bound: preparations held

\* What an answer must rest on: passages of these Sources (of any, if there are
\* none), with an anchor of every group and no forbidden one.  The selectors by
\* kind, family, authority and tag are selectors by Source.
EvidenceRequirement ==
    [sources : SUBSET Sources, anchors : SUBSET SUBSET Anchors,
     forbidden : SUBSET Anchors, needed : Nat \ {0}]

EvidenceGateSpec ==
    [question : Questions, answerable : BOOLEAN,
     requirements : SUBSET EvidenceRequirement, total : Nat \ {0}]

PassagesOf(versions, parts) == [version : versions, part : parts]

LibraryPassages == PassagesOf(Fragments, Parts)

ASSUME PreparationAssumption ==
    /\ Broad \subseteq Parts
    /\ IsFiniteSet(LibraryPassages)
    /\ Rank \in [LibraryPassages -> Nat]
    /\ \A c, d \in LibraryPassages : Rank[c] = Rank[d] => c = d
    /\ \A spec \in Specs : spec \in EvidenceGateSpec /\ spec.requirements # {}

VARIABLES
    prepared,      \* the AgentAnswerPreparations that callers hold
    drafts         \* the preparations whose draft is in a session journal

preparing == <<prepared, drafts>>
preparationState == <<vars, preparing>>

Key(passage) == <<passage.version[1], passage.part>>

\* The passages that are not ranked after c.
UpTo(c, passages) == {d \in passages : Rank[d] <= Rank[c]}

PreparationInit == Init /\ prepared = {} /\ drafts = {}

----------------------------------------------------------------------------
(* The gate *)

\* _assess_candidate: every anchor group is hit and no forbidden anchor is.
Satisfies(requirement, passage) ==
    /\ requirement.sources = {} \/ passage.version[1] \in requirement.sources
    /\ \A group \in requirement.anchors : group \cap Says[Key(passage)] # {}
    /\ requirement.forbidden \cap Says[Key(passage)] = {}

Matching(requirement, passages) == {c \in passages : Satisfies(requirement, c)}

\* Broken variant: passages count as independent of each other.
EachIsAGroup(passages) == {Key(c) : c \in passages}

\* Independence groups: a family and its root stand for each other.
Groups(passages) == {Family[c.version[1]] : c \in passages}

Covered(requirement, passages) ==
    Cardinality(Groups(Matching(requirement, passages))) >= requirement.needed

Missing(spec, passages) == {q \in spec.requirements : ~Covered(q, passages)}

EnoughInTotal(spec, passages) ==
    Cardinality(UNION {Groups(Matching(q, passages)) :
                          q \in spec.requirements \ Missing(spec, passages)}) >= spec.total

Satisfied(spec, passages) == Missing(spec, passages) = {} /\ EnoughInTotal(spec, passages)

\* EvidenceCoverageGate.evaluate and _decision
Decision(spec, passages) ==
    LET satisfied == Satisfied(spec, passages)
    IN CASE ~spec.answerable /\ satisfied -> "gap_challenged"
         [] ~spec.answerable /\ ~satisfied -> "gap_preserved"
         [] spec.answerable /\ satisfied -> "ready"
         [] OTHER -> IF Missing(spec, passages) # spec.requirements THEN "partial"
                                                                    ELSE "insufficient"

----------------------------------------------------------------------------
(* Candidates *)

\* _quality_eligible_candidates.  Candidates are a set: their order, the broad
\* ones by rank and then the added ones by rank, matters in Compact only.
Eligible(passages) == {c \in passages : Key(c) \notin Noise}

\* The passages of a packet.
BroadOf(p) == PassagesOf(p.trace, Broad)

SourcesUpTo(c, passages) == {d.version[1] : d \in UpTo(c, passages)}

\* _first_source_ids
FirstSources(passages) ==
    {c.version[1] : c \in {d \in passages :
                              Cardinality(SourcesUpTo(d, passages)) <= MaxSources}}

\* _drilldown_query: the anchors of what is missing, then the question.
Query(spec, missing) ==
    [anchors  |-> UNION {UNION q.anchors : q \in missing},
     question |-> spec.question]

\* search_ephemeral_fts over the fragments of the chosen Sources
Finds(query, passage) ==
    \/ query.anchors \cap Says[Key(passage)] # {}
    \/ passage.version[1] \in Answering[query.question]

\* Broken variant: the scope of the session is not compared.
AdmitsAny(k, scope) == TRUE

\* _scope_session and _require_request: the session of the journal is opened
\* when it is needed first, and admits its own scope only.
SessionAdmits(k, scope) == session[k] # None => session[k].scope = scope

CorpusOf(k, scope) == IF session[k] # None THEN session[k] ELSE Prepare(scope)

\* source_local_drilldown, without what the packet had already offered
Drilldown(corpus, p, query) ==
    LET broad == BroadOf(p)
        local == {c \in PassagesOf(corpus.permitted, Parts) :
                     c.version[1] \in FirstSources(broad) /\ Finds(query, c)}
    IN Eligible(local \ broad)

NeedsDrilldown(spec, p) ==
    /\ Decision(spec, Eligible(BroadOf(p))) \in {"partial", "insufficient"}
    /\ BroadOf(p) # {}

\* What the drilldown adds to the candidates of the packet.
Added(corpus, p, spec) ==
    IF NeedsDrilldown(spec, p)
    THEN Drilldown(corpus, p, Query(spec, Missing(spec, Eligible(BroadOf(p)))))
    ELSE {}

\* AgentSourceDrilldown; None if there was none.
SourceDrilldown(p, spec, added, kept) ==
    IF NeedsDrilldown(spec, p)
    THEN [sources  |-> FirstSources(BroadOf(p)),
          query    |-> Query(spec, Missing(spec, Eligible(BroadOf(p)))),
          selected |-> added \cap kept]
    ELSE None

\* The place of a candidate: the broad ones come first.
Place(c, broad, added) ==
    Cardinality(IF c \in broad THEN UpTo(c, broad) ELSE broad \cup UpTo(c, added))

\* The n-th candidate from the last goes if the gate does not miss it.
DropSpare(n, before, spec, broad, added) ==
    LET place == Cardinality(broad \cup added) + 1 - n
        without == {c \in before : Place(c, broad, added) # place}
    IN IF Decision(spec, without) = "ready" THEN without ELSE before

\* _compact_ready_candidates: what matches nothing goes, then, from the last,
\* whatever the gate does not miss.
Compact(spec, broad, added) ==
    LET kept[n \in 0..Cardinality(broad \cup added)] ==
            IF n = 0
            THEN {c \in broad \cup added : \E q \in spec.requirements : Satisfies(q, c)}
            ELSE DropSpare(n, kept[n - 1], spec, broad, added)
    IN kept[Cardinality(broad \cup added)]

AgentAnswerPreparation(corpus, p, spec) ==
    LET broad == Eligible(BroadOf(p))
        added == Added(corpus, p, spec)
        decision == Decision(spec, broad \cup added)
        kept == IF decision = "ready" THEN Compact(spec, broad, added) ELSE broad \cup added
    IN [packet     |-> p,
        spec       |-> spec,
        decision   |-> decision,
        candidates |-> kept,
        drilldown  |-> SourceDrilldown(p, spec, added, kept)]

\* What the session of the journal makes of a packet and a gate spec.
Prepared(k, p, spec) == AgentAnswerPreparation(CorpusOf(k, Scope(p.request)), p, spec)

----------------------------------------------------------------------------
(* The calls *)

\* load_evidence_packet_binding: the packet, its request and its runs; the
\* receipts and the access are not verified again.
LoadsBinding(p) ==
    /\ p \in packets
    /\ LinksOf(p) # {}
    /\ LoadsRequest(p)

\* What prepare_answer requires of the session, the event and the spec.
MayPrepare(k, p, spec) ==
    /\ LoadsBinding(p)
    /\ SessionAdmits(k, Scope(p.request))
    /\ spec.question = p.request.question

PrepareAnswer(k, p, spec) ==
    /\ Cardinality(prepared) < MaxPrepared
    /\ MayPrepare(k, p, spec)
    /\ prepared' = prepared \cup {Prepared(k, p, spec)}
    /\ session' = IF NeedsDrilldown(spec, p)
                  THEN [session EXCEPT ![k] = CorpusOf(k, Scope(p.request))]
                  ELSE session
    /\ UNCHANGED <<world, code, cache, store, drafts>>

\* record_draft: the preparation is replayed, and only "ready" is an answer.
RecordDraft(k, held) ==
    /\ MayPrepare(k, held.packet, held.spec)
    /\ Prepared(k, held.packet, held.spec) = held
    /\ held.decision = "ready"
    /\ drafts' = drafts \cup {held}
    /\ session' = IF NeedsDrilldown(held.spec, held.packet)
                  THEN [session EXCEPT ![k] = CorpusOf(k, Scope(held.packet.request))]
                  ELSE session
    /\ UNCHANGED <<world, code, cache, store, prepared>>

PreparationNext ==
    \/ Next /\ UNCHANGED preparing
    \/ \E k \in Sessions, spec \in Specs :
          \E p \in packets : PrepareAnswer(k, p, spec)
    \/ \E k \in Sessions : \E held \in prepared : RecordDraft(k, held)

PreparationSpec == PreparationInit /\ [][PreparationNext]_preparationState

----------------------------------------------------------------------------
(* Correctness *)

\* Whatever is ingested, frozen, recalled, closed or restarted in between, a
\* preparation computes again as it was when a caller brings it back: the
\* refusal of record_draft meets changed preparations only, never a changed
\* Library, although the drilldown reads again and not from the packet.
PreparationsReplay ==
    \A held \in prepared :
        /\ LoadsBinding(held.packet)
        /\ \A k \in Sessions :
              MayPrepare(k, held.packet, held.spec) =>
                  Prepared(k, held.packet, held.spec) = held

\* What a draft cites carries the answer and no more: every passage is free of
\* noise, permitted by the scope of its packet and matches a requirement, every
\* requirement has enough families that are really different, and not one
\* passage could be left out.
DraftsAreGrounded ==
    \A draft \in drafts :
        LET cited == draft.candidates
            FamiliesFor(q, passages) ==
                {Family[c.version[1]] : c \in Matching(q, passages)}
            Carries(passages) ==
                /\ \A q \in draft.spec.requirements :
                      Cardinality(FamiliesFor(q, passages)) >= q.needed
                /\ Cardinality(UNION {FamiliesFor(q, passages) : q \in draft.spec.requirements})
                      >= draft.spec.total
        IN /\ Carries(cited)
           /\ \A c \in cited :
                 /\ ~Carries(cited \ {c})
                 /\ Key(c) \notin Noise
                 /\ c.version \in Compile(draft.packet.request.snapshot,
                                          draft.packet.request.terms).permitted
====
