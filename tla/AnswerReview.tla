---- MODULE AnswerReview ----
(***************************************************************************)
(* An answer on its way from a draft to a displayed, kept artifact.        *)
(* Agents submit drafts, judges issue receipts, and each gate is asked     *)
(* with whatever artifacts are on the desk at that moment, made for this   *)
(* answer or for an earlier one, while the packet, the coverage spec and   *)
(* the local files move on.                                                *)
(***************************************************************************)
EXTENDS AnswerGates, AnswerArchive

CONSTANTS
    Task,
    Words,
    Routes,       \* pairs [packet, spec] that the task may be routed to
    Drafts,       \* the payloads that agents hand in
    Edits,        \* the contents that the local files may have
    Judges,
    Pins,         \* the judges a caller may ask for, AnyJudge among them
    Lists,        \* lists of [case, claim, verdict, marked], cases by their place
    Layouts,      \* the spans an author may cut an answer into
    RoleLists,    \* lists of [at, verdict], propositions by their place
    StepLists,    \* lists of steps, cases and claims by their place
    MaxChanges,   \* bound: drafts, routes and edits after the first
    MaxReviews,   \* bound: receipts that judges issue
    MaxMade       \* bound: projections, role receipts, traces and closures

ASSUME ReviewAssumption ==
    /\ \A r \in Routes : ValidSpec(r.spec)
    /\ \A a \in Drafts : /\ a.text \in Seq(Words)
                        /\ \A c \in Values(a.claims) : c.state \in ClaimStates
    /\ \A layout \in Layouts : /\ IsList(layout)
                              /\ \A p \in Values(layout) : /\ p.start \in Nat
                                                          /\ p.text \in Seq(Words)
    /\ \A list \in Lists \cup StepLists : IsList(list)
    /\ MaxChanges \in Nat /\ MaxReviews \in Nat /\ MaxMade \in Nat

VARIABLES
    route, answer, files,
    receipt,      \* the last judgment receipt that was issued
    result,       \* the last unified validation, with the files it saw
    projection, roles, shown,
    trace, closure,
    papers,       \* the artifacts that were written out
    ended,        \* the process at the desk has ended
    changes, reviews

world == <<route, answer, files>>
display == <<projection, roles, shown>>
reasoning == <<trace, closure>>
bounds == <<changes, reviews>>
kept == <<papers, ended, archiveVars>>
reviewVars == <<world, receipt, result, display, reasoning, bounds, kept>>

Cases == CaseSet(answer, Task, route.packet, route.spec)

ReviewInit ==
    /\ route \in Routes /\ answer \in Drafts /\ files \in Edits
    /\ receipt = None /\ result = None
    /\ projection = None /\ roles = None /\ shown = None
    /\ trace = None /\ closure = None
    /\ papers = {} /\ ended = FALSE
    /\ changes = 0 /\ reviews = 0
    /\ ArchiveInit

\* The agent hands in another draft, the task is routed again, a file changes.
Change ==
    /\ changes < MaxChanges
    /\ changes' = changes + 1
    /\ \/ answer' \in Drafts /\ UNCHANGED <<route, files>>
       \/ route' \in Routes /\ UNCHANGED <<answer, files>>
       \/ files' \in Edits /\ UNCHANGED <<answer, route>>
    /\ world' # world
    /\ UNCHANGED <<receipt, result, display, reasoning, reviews, kept>>

----------------------------------------------------------------------------

\* Every artifact is handed out as JSON, and outlives the process.
WriteOut(x) ==
    /\ x \notin papers
    /\ Cardinality(papers) < MaxMade
    /\ papers' = papers \cup {x}
    /\ UNCHANGED <<ended, archiveVars>>

At(seq, i) == IF i \in DOMAIN seq THEN seq[i] ELSE None

Judgment(cases, item) ==
    LET case == At(cases.cases, item.case)
        claim == At(cases.cases, item.claim)
    IN  [case |-> case, claim |-> IF claim = None THEN None ELSE claim.claim,
         verdict |-> item.verdict,
         marked |-> IF item.marked /\ case # None THEN case.text ELSE None]

\* A judge is shown the cases of the present answer and returns a receipt.
Judge(judge, list) ==
    /\ reviews < MaxReviews
    /\ ValidAnswer(answer)
    /\ CanBuild(answer, Task, route.packet, route.spec)
    /\ receipt' = [about |-> Cases, judge |-> judge,
                   judgments |-> [i \in DOMAIN list |-> Judgment(Cases, list[i])]]
    /\ reviews' = reviews + 1
    /\ UNCHANGED <<world, result, display, reasoning, changes, kept>>

\* validate: the receipt at hand may have been issued for other artifacts.
Validate(expected, given) ==
    LET v == Validation(answer, Task, route.packet, route.spec, files, given, expected)
    IN  /\ result' = [decision |-> v.decision, answer |-> v.answer,
                      semantic |-> v.semantic, files |-> files, expected |-> expected]
        /\ result' # result
        /\ UNCHANGED <<world, receipt, display, reasoning, bounds, kept>>

----------------------------------------------------------------------------

\* An author cuts the present answer into spans over the last result.
Project(layout) ==
    /\ result # None /\ CanProject(result.semantic)
    /\ projection' = [answer |-> answer, cases |-> result.semantic.cases,
                      receipt |-> result.semantic.receipt, propositions |-> layout]
    /\ ValidProjection(projection')
    /\ WriteOut(<<"projection", projection'>>)
    /\ UNCHANGED <<world, receipt, result, roles, shown, reasoning, bounds>>

JudgeRoles(judge, list) ==
    /\ projection # None
    /\ \A j \in Values(list) : j.at \in DOMAIN projection.propositions
    /\ roles' = [about |-> projection, judge |-> judge,
                 judgments |-> [i \in DOMAIN list |->
                     [proposition |-> projection.propositions[list[i].at],
                      verdict |-> list[i].verdict]]]
    /\ WriteOut(<<"role_receipt", roles'>>)
    /\ UNCHANGED <<world, receipt, result, projection, shown, reasoning, bounds>>

\* The display gate, over the artifacts on the desk.
Show(expected) ==
    LET s == result.semantic
    IN  /\ projection # None /\ result # None /\ s.cases # None
        /\ shown' = [decision |-> DisplayDecision(answer, s.cases, s, projection, roles, expected),
                     answer |-> answer, result |-> result, projection |-> projection]
        /\ shown' # shown
        /\ UNCHANGED <<world, receipt, result, projection, roles, reasoning, bounds, kept>>

----------------------------------------------------------------------------

Step(cases, item) ==
    LET case == At(cases.cases, item.case)
        claim == At(cases.cases, item.claim)
    IN  [claim |-> IF claim = None THEN None ELSE claim.claim,
         case |-> case, text |-> IF claim = None THEN None ELSE claim.text,
         op |-> item.op, premises |-> item.premises,
         qualifier |-> item.qualifier, counter |-> item.counter]

\* An author traces the reasoning over the last result.
Reason(list) ==
    /\ result # None /\ result.semantic.receipt # None
    /\ LET c == result.semantic.cases
       IN  trace' = [task |-> c.task, answer |-> c.answer, packet |-> c.packet, cases |-> c,
                     receipt |-> result.semantic.receipt,
                     steps |-> [i \in DOMAIN list |-> Step(c, list[i])]]
    /\ ValidTrace(trace')
    /\ WriteOut(<<"trace", trace'>>)
    /\ UNCHANGED <<world, receipt, result, display, closure, bounds>>

\* reasoning-check: the closure gate over the artifacts on the desk.
Close ==
    LET s == result.semantic
    IN  /\ trace # None /\ result # None /\ s.cases # None
        /\ closure' = [decision |-> ClosureDecision(trace, s.cases, s),
                       about |-> trace, result |-> result]
        /\ WriteOut(<<"closure", closure'>>)
        /\ UNCHANGED <<world, receipt, result, display, trace, bounds>>

----------------------------------------------------------------------------

\* The process at the desk ends, and only what it wrote out remains.
Stop ==
    /\ ~ ended /\ papers # {}
    /\ ended' = TRUE
    /\ route' = None /\ answer' = None
    /\ receipt' = None /\ result' = None
    /\ projection' = None /\ roles' = None /\ shown' = None
    /\ trace' = None /\ closure' = None
    /\ changes' = 0 /\ reviews' = 0
    /\ UNCHANGED <<files, papers, archiveVars>>

Desk ==
    \/ Change
    \/ \E j \in Judges, list \in Lists : Judge(j, list)
    \/ \E x \in Pins, given \in {None, receipt} : Validate(x, given)
    \/ \E layout \in Layouts : Project(layout)
    \/ \E j \in Judges, list \in RoleLists : JudgeRoles(j, list)
    \/ \E x \in Pins : Show(x)
    \/ \E list \in StepLists : Reason(list)
    \/ Close

\* Writers in other processes keep the artifacts in a Library.  Nothing they do
\* reaches the desk, so they are bound to follow it.
Archive(w) ==
    /\ ended
    /\ \/ \E x \in papers : Look(w, x)
       \/ Insert(w)
       \/ Die(w)
    /\ UNCHANGED <<world, receipt, result, display, reasoning, bounds, papers, ended>>

ReviewNext ==
    \/ ~ ended /\ Desk
    \/ Stop
    \/ \E w \in Writers : Archive(w)

ReviewSpec == ReviewInit /\ [][ReviewNext]_reviewVars

----------------------------------------------------------------------------

\* The verdicts that may carry a claim of each state.
Carries(state) == IF state = "inference" THEN Supporting ELSE {"directly_supported"}

\* The judgments of a claim of the answer, by a judge who saw this claim.
JudgmentsFor(claim, a, r) ==
    {i \in DOMAIN r.judgments : /\ r.judgments[i].claim = claim.id
                                /\ r.judgments[i].case = CaseOf(claim, a)}

AcceptedResult(v) ==
    LET r == v.semantic.receipt
    IN  /\ v.answer.claims # <<>>
        /\ r.about.answer = v.answer
        /\ v.expected \in {AnyJudge, r.judge}
        /\ \A claim \in Values(v.answer.claims) :
              /\ \E i \in JudgmentsFor(claim, v.answer, r) :
                    /\ JudgmentsFor(claim, v.answer, r) = {i}
                    /\ r.judgments[i].verdict \in Carries(claim.state)
              /\ \A e \in claim.evidence : \E c \in Values(v.answer.citations) :
                    c.evidence = e /\ v.files[e] # None /\ c.quote \in v.files[e]

\* An accepted answer makes at least one claim; each of its claims was judged
\* once, by the judge the caller asked for, over this very answer, with a
\* verdict that carries its state, and every quotation it rests on was in the
\* file when the answer was validated, however many drafts, routes, edits and
\* receipts came before (ResearchAnswerValidator.validate).
PromotedIsJudged ==
    result # None /\ result.decision = "accepted" => AcceptedResult(result)

\* A displayed answer is an accepted one, shown to its last word and nothing
\* else, and what it states as fact rests on factual claims that were judged
\* directly supported (PropositionCoverageGate.evaluate).
DisplayedIsRouted ==
    shown # None /\ shown.decision = "passed" =>
        LET ps == shown.projection.propositions
            texts == [i \in DOMAIN ps |-> ps[i].text]
            a == shown.answer
        IN  /\ shown.result.decision = "accepted" /\ shown.result.answer = a
            /\ FlattenSeq(texts) = a.text
            /\ \A p \in Values(ps) : p.kind = "fact" =>
                  /\ p.claims # {}
                  /\ \A id \in p.claims : \E c \in Values(a.claims) :
                        /\ c.id = id /\ c.state # "inference"
                        /\ \A i \in JudgmentsFor(c, a, shown.result.semantic.receipt) :
                              shown.result.semantic.receipt.judgments[i].verdict
                                  = "directly_supported"

\* A trace that is ready for review reasons over an accepted answer, never in a
\* circle: whatever set of derived steps one takes, one of them rests only on
\* steps outside it, so that all rest on extractions of claims that the
\* evidence supports directly (ReasoningClosureGate.evaluate).
ReviewedIsGrounded ==
    closure # None /\ closure.decision = "passed" =>
        LET steps == closure.about.steps
            derived == {i \in DOMAIN steps : Derived(steps[i])}
            outcomes == Values(closure.result.semantic.outcomes)
        IN  /\ closure.result.decision = "accepted"
            /\ closure.about.answer = closure.result.answer
            /\ \A S \in (SUBSET derived) \ {{}} : \E i \in S : steps[i].premises \cap S = {}
            /\ \A i \in DOMAIN steps \ derived : \E o \in outcomes :
                  o.claim = steps[i].claim /\ o.state # "inference"
                  /\ o.verdict = "directly_supported"
====
