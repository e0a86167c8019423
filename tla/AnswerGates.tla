---- MODULE AnswerGates ----
(***************************************************************************)
(* The gates that an answer written by an agent passes: its exact          *)
(* quotations, the coverage of the task, the judgments of its claims, the  *)
(* roles of the spans it displays and the trace of its reasoning.          *)
(* Every artifact is content-addressed: its id and hash match iff its      *)
(* record does, so one equality stands for both comparisons.               *)
(*                                                                         *)
(*   packet      [evidence: id -> [source, excerpt, fragment],             *)
(*                sources, local: sets of sources]                         *)
(*   answer      [task, packet, status, text, claims, citations, gap]      *)
(*   claim       [id, text, state, evidence]                               *)
(*   citation    [evidence, source, quote]                                 *)
(*   case set    [task, answer, packet, spec, cases]                       *)
(*   receipt     [about, judge, judgments]: about is what it judges        *)
(*                                                                         *)
(* Excerpts, fragments and files are sets of the quotations in them.       *)
(***************************************************************************)
EXTENDS Naturals, FiniteSets, Sequences, SequencesExt

CONSTANTS
    None,         \* an absent value
    AnyJudge      \* the caller pins no judge

Values(seq) == ToSet(seq)
IsList(seq) == seq \in Seq(Values(seq))
Distinct(seq) == IsInjective(seq)
Ids(seq) == [i \in DOMAIN seq |-> seq[i].id]

----------------------------------------------------------------------------
(* The schema of an answer and its exact contract (answers/contracts.py) *)

Cited(answer) == {c.evidence : c \in Values(answer.citations)}
Used(answer) == UNION {c.evidence : c \in Values(answer.claims)}

ValidAnswer(answer) ==
    /\ Distinct(Ids(answer.claims))
    /\ Distinct([i \in DOMAIN answer.citations |-> answer.citations[i].evidence])
    /\ \A c \in Values(answer.claims) : c.evidence # {}
    /\ Used(answer) = Cited(answer)
    /\ answer.status = "insufficient" => answer.gap
    /\ answer.status # "insufficient" => answer.claims # <<>>
    /\ answer.status = "supported" =>
          \E c \in Values(answer.claims) : c.state = "supported"

\* A source may be cited for a piece of evidence only if the packet has them
\* together.
Member(citation, packet) ==
    /\ citation.evidence \in DOMAIN packet.evidence
    /\ packet.evidence[citation.evidence].source = citation.source

\* files[e] is the text now at the lines of e, None where they are gone.
ExactOnDisk(citation, packet, files) ==
    /\ citation.evidence \in DOMAIN packet.evidence
    /\ citation.source \in packet.sources
    => LET e == packet.evidence[citation.evidence]
       IN  /\ e.excerpt # None
           /\ citation.quote \in e.excerpt
           /\ e.fragment # None
           /\ citation.source \in packet.local
           /\ files[citation.evidence] = e.fragment
           /\ e.excerpt \subseteq e.fragment

ExactAccepts(answer, task, packet, files) ==
    /\ answer.task = task
    /\ answer.packet = packet
    /\ \A c \in Values(answer.citations) : Member(c, packet)
    /\ \A c \in Values(answer.citations) : ExactOnDisk(c, packet, files)

----------------------------------------------------------------------------
(* The coverage of the task (answers/coverage.py) *)

ValidFacet(facet) == facet.min \in 1 .. Cardinality(facet.any)

ValidSpec(spec) ==
    /\ spec.statuses # {} /\ spec.facets # {}
    /\ \A f \in spec.facets : ValidFacet(f)
    /\ spec.sources >= 1

FacetCovered(facet, answer, packet) ==
    /\ facet.any \subseteq DOMAIN packet.evidence
    /\ Cardinality(facet.any \cap Used(answer)) >= facet.min

CoverageComplete(answer, spec, packet) ==
    /\ answer.task = spec.task
    /\ packet = spec.packet /\ answer.packet = spec.packet
    /\ \A f \in spec.facets : FacetCovered(f, answer, packet)
    /\ answer.status \in spec.statuses
    /\ spec.gap => answer.gap
    /\ Cardinality({c.source : c \in Values(answer.citations)}) >= spec.sources

----------------------------------------------------------------------------
(* Cases and their judgments (answers/entailment.py) *)

CanBuild(answer, task, packet, spec) ==
    /\ answer.task = task /\ spec.task = task
    /\ answer.packet = packet /\ spec.packet = packet
    /\ \A claim \in Values(answer.claims) : \A e \in claim.evidence :
          \E c \in Values(answer.citations) :
             c.evidence = e /\ Member(c, packet) /\ c.source \in packet.sources

CaseOf(claim, answer) ==
    [claim |-> claim.id, text |-> claim.text, state |-> claim.state,
     citations |-> {c \in Values(answer.citations) : c.evidence \in claim.evidence}]

CaseSet(answer, task, packet, spec) ==
    [task |-> task, answer |-> answer, packet |-> packet, spec |-> spec,
     cases |-> [i \in DOMAIN answer.claims |-> CaseOf(answer.claims[i], answer)]]

ClaimStates == {"supported", "qualified", "inference"}

Supporting == {"directly_supported", "supported_inference"}

\* marked is the claim text that the unsupported spans were cut from.
SpanError(case, judgment) ==
    /\ judgment.marked # None
    /\ judgment.verdict \in Supporting \/ judgment.marked # case.text

ClaimDecision(state, verdict) ==
    LET carrying == IF state \in {"supported", "qualified"} THEN {"directly_supported"}
                                                          ELSE Supporting
    IN  IF verdict = "uncertain" THEN "review_required"
        ELSE IF verdict \in {"partial", "unsupported", "contradicted"} THEN "failed"
        ELSE IF verdict \in carrying THEN "passed" ELSE "failed"

JudgmentsOf(case, receipt) ==
    {i \in DOMAIN receipt.judgments : receipt.judgments[i].case = case}

\* judgment_by_case: the first judgment of a case counts.
JudgmentOf(case, receipt) == receipt.judgments[Min(JudgmentsOf(case, receipt))]

OutcomeOf(case, receipt) ==
    LET judged == JudgmentsOf(case, receipt) # {}
        verdict == JudgmentOf(case, receipt).verdict
    IN  [claim |-> case.claim, state |-> case.state,
         verdict |-> IF judged THEN verdict ELSE None,
         decision |-> IF judged THEN ClaimDecision(case.state, verdict)
                                ELSE "review_required"]

\* Broken variant: a receipt is not compared with the case set at hand.
AnyReceipt(cases, receipt, expected) == expected \in {AnyJudge, receipt.judge}

ReceiptTrusted(cases, receipt, expected) ==
    /\ receipt.about = cases
    /\ expected \in {AnyJudge, receipt.judge}

JudgmentsClose(cases, receipt) ==
    LET judged == [i \in DOMAIN receipt.judgments |-> receipt.judgments[i].case]
        named == [i \in DOMAIN receipt.judgments |-> receipt.judgments[i].claim]
    IN  /\ Distinct(judged) /\ Distinct(named)
        /\ Values(judged) = Values(cases.cases)
        /\ Values(named) \subseteq {c.claim : c \in Values(cases.cases)}
        /\ \A c \in Values(cases.cases) :
              LET first == JudgmentOf(c, receipt)
              IN  first.claim = c.claim /\ ~ SpanError(c, first)

Unchecked == [decision |-> "unchecked", cases |-> None, receipt |-> None, outcomes |-> <<>>]

SemanticResult(cases, receipt, expected) ==
    LET outcomes == [i \in DOMAIN cases.cases |-> OutcomeOf(cases.cases[i], receipt)]
        decided == {outcomes[i].decision : i \in DOMAIN outcomes}
        decision == IF receipt = None THEN "review_required"
                    ELSE IF ~ ReceiptTrusted(cases, receipt, expected)
                            \/ ~ JudgmentsClose(cases, receipt) THEN "review_required"
                    ELSE IF "failed" \in decided THEN "failed"
                    ELSE IF "review_required" \in decided THEN "review_required"
                    ELSE "passed"
    IN  [decision |-> decision, cases |-> cases, receipt |-> receipt,
         outcomes |-> IF receipt = None THEN <<>> ELSE outcomes]

----------------------------------------------------------------------------
(* The unified validation of an answer (research/service.py) *)

OnlyPartial(outcomes) ==
    LET failed == {o \in Values(outcomes) : o.decision = "failed"}
    IN  failed # {} /\ \A o \in failed : o.verdict = "partial"

\* The gates run in this order, and each is skipped once one before it refused.
Validation(answer, task, packet, spec, files, receipt, expected) ==
    LET rejected == [decision |-> "rejected", answer |-> answer, semantic |-> Unchecked]
        semantic == IF CanBuild(answer, task, packet, spec)
                    THEN SemanticResult(CaseSet(answer, task, packet, spec), receipt, expected)
                    ELSE Unchecked
        decision == CASE semantic.decision = "passed" -> "accepted"
                      [] semantic.decision = "failed" ->
                            IF OnlyPartial(semantic.outcomes) THEN "revision_required"
                            ELSE "rejected"
                      [] OTHER -> "review_required"
    IN  IF /\ ValidAnswer(answer)
           /\ ExactAccepts(answer, task, packet, files)
           /\ CoverageComplete(answer, spec, packet)
        THEN [decision |-> decision, answer |-> answer, semantic |-> semantic]
        ELSE rejected

----------------------------------------------------------------------------
(* The displayed answer, span by span (answers/projection.py)               *)
(*   projection  [answer, cases, receipt, propositions]                     *)
(*   proposition [start, text, kind, claims, probe]                         *)

End(p) == p.start + Len(p.text)

ValidProposition(p) ==
    /\ p.text # <<>>
    /\ p.kind = "framing" <=> p.claims = {}
    /\ p.kind = "hypothesis" <=> p.probe

ValidProjection(projection) ==
    LET ps == projection.propositions
    IN  /\ ps # <<>>
        /\ \A p \in Values(ps) : ValidProposition(p)
        /\ Distinct(ps)
        /\ ps[1].start = 0
        /\ \A i \in 2 .. Len(ps) : ps[i].start = End(ps[i - 1])

\* Only a result that carries a receipt can be projected.
CanProject(semantic) == semantic.receipt # None

\* Broken variant: the overlay of another answer with these cases is taken.
AnswerNotBound(answer, cases, semantic, projection) ==
    /\ projection.cases = cases
    /\ semantic.decision = "passed"
    /\ semantic.cases = cases
    /\ semantic.receipt = projection.receipt

ProjectionBound(answer, cases, semantic, projection) ==
    /\ projection.answer = answer
    /\ cases.answer = answer
    /\ projection.cases = cases
    /\ semantic.decision = "passed"
    /\ semantic.cases = cases
    /\ semantic.receipt = projection.receipt

TextIsExact(answer, projection) ==
    LET ps == projection.propositions
    IN  /\ End(ps[Len(ps)]) = Len(answer.text)
        /\ \A p \in Values(ps) : SubSeq(answer.text, p.start + 1, End(p)) = p.text

RolesTrusted(projection, roles, expected) ==
    LET judged == [i \in DOMAIN roles.judgments |-> roles.judgments[i].proposition]
    IN  /\ roles.about = projection
        /\ Distinct(judged)
        /\ Values(judged) = Values(projection.propositions)
        /\ expected \in {AnyJudge, roles.judge}

\* What one premise claim finds wrong with the span that rests on it.
RouteFindings(p, id, answer, semantic) ==
    LET claims == {c \in Values(answer.claims) : c.id = id}
        outcomes == {o \in Values(semantic.outcomes) : o.claim = id}
    IN  IF claims = {} THEN {"violation"}
        ELSE IF outcomes = {} THEN {"review"}
        ELSE LET claim == CHOOSE c \in claims : TRUE
                 outcome == CHOOSE o \in outcomes : TRUE
                 wrong == \/ outcome.verdict \notin Supporting
                          \/ p.kind = "fact" /\ \/ claim.state = "inference"
                                                \/ outcome.verdict # "directly_supported"
             IN  IF outcome.decision # "passed" THEN {"review"}
                 ELSE IF wrong THEN {"violation"} ELSE {}

RoleOf(kind) ==
    CASE kind = "fact" -> "entailed"
      [] kind = "synthesis" -> "bounded_synthesis"
      [] kind = "hypothesis" -> "disclosed_hypothesis"
      [] kind = "question" -> "open_question"
      [] kind = "framing" -> "non_propositional"

VerdictFindings(p, verdict) ==
    IF verdict = "uncertain" THEN {"review"}
    ELSE IF verdict = RoleOf(p.kind) THEN {} ELSE {"violation"}

SpanFindings(p, answer, semantic, roles) ==
    LET judgment == CHOOSE j \in Values(roles.judgments) : j.proposition = p
    IN  VerdictFindings(p, judgment.verdict)
        \cup UNION {RouteFindings(p, id, answer, semantic) : id \in p.claims}

DisplayDecision(answer, cases, semantic, projection, roles, expected) ==
    LET findings == UNION {SpanFindings(p, answer, semantic, roles) :
                              p \in Values(projection.propositions)}
    IN  IF ~ ProjectionBound(answer, cases, semantic, projection) THEN "review_required"
        ELSE IF ~ TextIsExact(answer, projection) THEN "failed"
        ELSE IF roles = None THEN "review_required"
        ELSE IF ~ RolesTrusted(projection, roles, expected) THEN "review_required"
        ELSE IF "violation" \in findings THEN "failed"
        ELSE IF "review" \in findings THEN "review_required"
        ELSE "passed"

----------------------------------------------------------------------------
(* The trace of the reasoning (reasoning/models.py, reasoning/closure.py)   *)
(*   trace  [task, answer, packet, cases, receipt, steps]                   *)
(*   step   [claim, case, text, op, premises, qualifier, counter]           *)
(* premises are the places of the steps that the real step names by id.     *)

Derived(step) == step.op # "extract"

ValidStep(step) ==
    /\ ~ Derived(step) => step.premises = {} /\ step.qualifier \in {"direct", "contested"}
    /\ Derived(step) =>
          /\ Cardinality(step.premises) >= IF step.op = "infer" THEN 1 ELSE 2
          /\ step.qualifier \in {"bounded", "contested"}
    /\ step.qualifier = "contested" <=> step.counter # {}

\* Broken variant: the premises need not come earlier.
PremisesAnywhere(trace) ==
    LET steps == trace.steps
    IN  /\ \A s \in Values(steps) : ValidStep(s)
        /\ \A i \in DOMAIN steps : steps[i].premises \subseteq DOMAIN steps \ {i}

\* The steps that the last one rests on: as premises come earlier, each is a
\* premise of a later step exactly when it is an ancestor of the last.
ValidTrace(trace) ==
    LET steps == trace.steps
    IN  /\ steps # <<>>
        /\ \A s \in Values(steps) : ValidStep(s)
        /\ Distinct([i \in DOMAIN steps |-> steps[i].claim])
        /\ Distinct([i \in DOMAIN steps |-> steps[i].case])
        /\ \A i \in DOMAIN steps : steps[i].premises \subseteq 1 .. i - 1
        /\ \A i \in 1 .. Len(steps) - 1 : \E j \in DOMAIN steps : i \in steps[j].premises

TraceBound(trace, cases, semantic) ==
    /\ trace.task = cases.task /\ trace.answer = cases.answer
    /\ trace.packet = cases.packet /\ trace.cases = cases
    /\ semantic.cases = cases
    /\ semantic.receipt = trace.receipt

OperationWrong(step, state, verdict) ==
    IF ~ Derived(step)
    THEN \/ verdict # "directly_supported"
         \/ state # IF step.qualifier = "direct" THEN "supported" ELSE "qualified"
    ELSE \/ verdict \notin Supporting
         \/ IF step.qualifier = "bounded" THEN state # "inference" ELSE state = "supported"

StepFindings(step, cases, semantic) ==
    LET own == {c \in Values(cases.cases) : c = step.case}
        known == UNION {{d.evidence : d \in c.citations} : c \in Values(cases.cases)}
        at == CHOOSE i \in DOMAIN cases.cases : cases.cases[i] = step.case
        judged == at \in DOMAIN semantic.outcomes
        outcome == semantic.outcomes[at]
        stale == own = {} \/ step.case.claim # step.claim \/ step.case.text # step.text
    IN  IF own = {} \/ ~ judged THEN {"review"}
        ELSE (IF stale \/ ~ step.counter \subseteq known THEN {"review"} ELSE {})
             \cup (IF outcome.decision = "failed" THEN {"violation"}
                   ELSE IF outcome.decision # "passed" THEN {"review"} ELSE {})
             \cup (IF OperationWrong(step, step.case.state, outcome.verdict)
                   THEN {"violation"} ELSE {})

ClosureDecision(trace, cases, semantic) ==
    LET findings == UNION {StepFindings(s, cases, semantic) : s \in Values(trace.steps)}
    IN  IF ~ TraceBound(trace, cases, semantic) THEN "review_required"
        ELSE IF "violation" \in findings \/ semantic.decision = "failed" THEN "failed"
        ELSE IF "review" \in findings \/ semantic.decision # "passed" THEN "review_required"
        ELSE "passed"
====
