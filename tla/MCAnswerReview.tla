---- MODULE MCAnswerReview ----
(***************************************************************************)
(* Two routes of one task over two pieces of evidence, five drafts and     *)
(* two states of the local files; the judges return clean, incomplete,   *)
(* doubled, crossed and partial receipts.                                  *)
(***************************************************************************)
EXTENDS AnswerReview, TLC

CONSTANTS c1, c2, e1, e2, s1, s2, q1, q2, q3, w1, w2, t1, t2, a1, a2, h1, h2

Wide == [evidence |-> (e1 :> [source |-> s1, excerpt |-> {q1}, fragment |-> {q1, q3}]
                       @@ e2 :> [source |-> s2, excerpt |-> {q2}, fragment |-> {q2}]),
         sources |-> {s1, s2}, local |-> {s1, s2}]

Narrow == [evidence |-> (e1 :> [source |-> s1, excerpt |-> {q1}, fragment |-> {q1, q3}]),
           sources |-> {s1}, local |-> {s1}]

SpecFor(packet) ==
    [task |-> Task, packet |-> packet, gap |-> FALSE, sources |-> 1,
     statuses |-> {"supported", "qualified", "insufficient"},
     facets |-> {[any |-> {e1}, min |-> 1]}]

TwoRoutes == {[packet |-> p, spec |-> SpecFor(p)] : p \in {Wide, Narrow}}

FileStates ==
    {e1 :> first @@ e2 :> {q2} : first \in {{q1, q3}, None}}

Claim(id, text, state, evidence) ==
    [id |-> id, text |-> text, state |-> state, evidence |-> evidence]
Quote(e, s, q) == [evidence |-> e, source |-> s, quote |-> q]

Full ==
    [task |-> Task, packet |-> Wide, status |-> "qualified", text |-> <<w1, w2>>,
     claims |-> <<Claim(c1, t1, "qualified", {e1}), Claim(c2, t2, "inference", {e1, e2})>>,
     citations |-> <<Quote(e1, s1, q1), Quote(e2, s2, q2)>>, gap |-> FALSE]

Reworded == [Full EXCEPT !.text = <<w1>>]

Short ==
    [task |-> Task, packet |-> Narrow, status |-> "supported", text |-> <<w1>>,
     claims |-> <<Claim(c1, t1, "supported", {e1})>>,
     citations |-> <<Quote(e1, s1, q1)>>, gap |-> FALSE]

Empty == [Short EXCEPT !.status = "insufficient", !.claims = <<>>, !.citations = <<>>,
                       !.gap = TRUE]

Doubled == [Short EXCEPT !.claims = <<Claim(c1, t1, "supported", {e1}),
                                      Claim(c1, t2, "inference", {e1})>>]

FiveDrafts == {Full, Reworded, Short, Empty, Doubled}

Said(case, claim, verdict, marked) ==
    [case |-> case, claim |-> claim, verdict |-> verdict, marked |-> marked]
Direct(i) == Said(i, i, "directly_supported", FALSE)

SomeLists ==
    {<<>>,
     <<Direct(1)>>,
     <<Said(1, 1, "partial", TRUE)>>,
     <<Direct(1), Said(1, 1, "partial", FALSE)>>,
     <<Direct(1), Said(2, 2, "supported_inference", FALSE)>>,
     <<Direct(1), Said(2, 2, "uncertain", FALSE)>>,
     <<Said(1, 2, "directly_supported", FALSE), Said(2, 1, "directly_supported", FALSE)>>}

Span(start, text, kind, claims) ==
    [start |-> start, text |-> text, kind |-> kind, claims |-> claims,
     probe |-> kind = "hypothesis"]

SomeLayouts ==
    {<<Span(0, <<w1>>, "fact", {c1})>>,
     <<Span(0, <<w1>>, "fact", {c1}), Span(1, <<w2>>, "synthesis", {c1, c2})>>,
     <<Span(0, <<w1>>, "framing", {}), Span(1, <<w2>>, "fact", {c2})>>}

Role(i, verdict) == [at |-> i, verdict |-> verdict]

SomeRoles ==
    {<<Role(1, "entailed")>>,
     <<Role(1, "entailed"), Role(2, "bounded_synthesis")>>,
     <<Role(1, "non_propositional"), Role(2, "entailed")>>}

Extract(i, q, counter) ==
    [claim |-> i, case |-> i, op |-> "extract", premises |-> {}, qualifier |-> q,
     counter |-> counter]
Infer(i, premises, q) ==
    [claim |-> i, case |-> i, op |-> "infer", premises |-> premises, qualifier |-> q,
     counter |-> IF q = "contested" THEN {e2} ELSE {}]

SomeSteps ==
    {<<Extract(1, "direct", {})>>,
     <<Extract(1, "contested", {e1}), Infer(2, {1}, "bounded")>>,
     <<Infer(2, {2}, "bounded"), Infer(1, {1}, "contested")>>}
\* The writers are interchangeable.
WriterSymmetry == Permutations(Writers)
====
