---- MODULE MCCandidates ----
(* Instances of Candidates for TLC. Fragment f1 is held by A, f2 by A and B.   *)
(* Relation r1 goes from Statement s1, of A, to the Concept e, which A and, by *)
(* the second proposal, B mentions; r2 goes from s2, of B, to e. The wide      *)
(* request reads both Collections, the narrow one A.                           *)
EXTENDS Candidates, TLC

CONSTANTS A, B, f1, f2, s1, s2, v, e, m, r1, r2, c1, c2, k1

Held == f1 :> {A} @@ f2 :> {A, B}
InCollection == s1 :> A @@ s2 :> B
Voices == s1 :> v @@ s2 :> v
Meanings == m :> [concept |-> e, voice |-> v, supports |-> {s1}]
TwoRelations ==
    r1 :> [subject |-> <<"statement", s1>>, object |-> <<"concept", e>>, evidence |-> {<<s1, f1>>}]
    @@ r2 :> [subject |-> <<"statement", s2>>, object |-> <<"concept", e>>, evidence |-> {<<s2, f2>>}]

Request(scope, permitted) ==
    [scope |-> scope, permitted |-> permitted, external |-> FALSE, egress |-> FALSE, readLimit |-> 2]
Narrow == Request({A}, {f1})
Wide == Request({A, B}, {f1, f2})

Proposal(g) == [state |-> "complete", graph |-> g]
First == Proposal(Graph({<<s1, f1>>}, {<<e, A, f1>>}, {}))
Second == Proposal(Graph({<<s2, f2>>}, {<<e, B, f2>>}, {}))
Third == Proposal(Graph({<<s1, f1>>, <<s1, f2>>}, {}, {m}))

Broken == [state |-> "failed", graph |-> Nothing]

AllImports == {<<Narrow, First>>, <<Wide, Second>>, <<Wide, Third>>}
Extracting == {[Narrow EXCEPT !.external = TRUE], Narrow}
Returned == {Third, Broken}
TwoBatches == {<<Narrow, {r1}>>, <<Wide, {r1, r2}>>}
Journey(request, direction) ==
    [request |-> request, seed |-> <<"statement", s1>>, direction |-> direction,
     hops |-> 2, paths |-> 1]
TwoJourneys == {Journey(Narrow, "outgoing"), Journey(Wide, "both")}
SomeReviews ==
    {<<"relation", r1>>} \X {"accept", "supersede"} \cup {<<"concept", e>>} \X {"reject"}
    \cup {<<<<"evidence_link", <<s1, f1>>>>, "revise">>, <<<<"source_fragment", f1>>, "defer">>}
Interchangeable == Permutations(Clients)
====
