---- MODULE MCPreparation ----
(* Instances of RecallStore and Preparation for TLC. Source s1 is watched by *)
(* two Collections, s2 by a Collection and a holdout; they are two families. *)
(* The second passage of s1 answers what its first one leaves open.          *)
EXTENDS Preparation, TLC

CONSTANTS A, B, H, s1, s2, f1, f2, q1, q2, x, y, z

Watched == {<<A, s1>>, <<B, s1>>, <<A, s2>>, <<H, s2>>}
Frozen == {{A, B, H}}
OneEach == [s \in Sources |-> 1]
Interchangeable == Permutations(Codes)
TwoFamilies == [s \in Sources |-> IF s = s1 THEN f1 ELSE f2]
TwoTerms == {[allowed |-> {A}, denied |-> {}, excluded |-> {}],
             [allowed |-> {A, B, H}, denied |-> {}, excluded |-> {f2}]}
Answers == [q \in Questions |-> IF q = q1 THEN {s1} ELSE {s1, s2}]

Texts == [p \in Sources \X Parts |->
             CASE p = <<s1, 1>> -> {x}    [] p = <<s1, 2>> -> {y}
               [] p = <<s2, 1>> -> {x}    [] OTHER -> {y, z}]
Places == [c \in LibraryPassages |-> 2 * c.part + (IF c.version[1] = s1 THEN 0 ELSE 1)]
Needs(anchor) == [sources |-> {}, anchors |-> {{anchor}}, forbidden |-> {z}, needed |-> 1]
Gates == {[question |-> q2, answerable |-> TRUE, total |-> 2,
           requirements |-> {Needs(x), Needs(y)}]}
====
