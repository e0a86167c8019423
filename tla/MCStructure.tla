---- MODULE MCStructure ----
(* Instances of Structure for TLC. Source s1 is a Markdown file of two        *)
(* sections; one is oversized until a second version. s2 is no Markdown file. *)
EXTENDS Structure

CONSTANTS A, s1, s2, f1, intro, method

Watched == {<<A, s1>>, <<A, s2>>}
Frozen == {{A}}
OneChange == [s \in Sources |-> IF s = s1 THEN 2 ELSE 1]
OneFamily == [s \in Sources |-> f1]
OneTerm == {[allowed |-> {A}, denied |-> {}, excluded |-> {}]}
NoAnswers == [x \in Questions |-> {}]

Pages == [v \in Fragments |-> CASE v = <<s1, 1>> -> 5 [] v = <<s1, 2>> -> 4 [] OTHER -> 2]
Headings == [v \in Fragments |-> CASE v = <<s1, 1>> -> <<intro, intro, method, method, method>>
                                   [] v = <<s1, 2>> -> <<intro, intro, method, method>>
                                   [] OTHER -> <<>>]
\* Nothing; the end of a section and the middle of another version's.
Excluded == {{}, {<<<<s1, 1>>, 5>>, <<<<s1, 2>>, 2>>}}
====
