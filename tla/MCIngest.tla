---- MODULE MCIngest ----
(* Instances of Ingest for TLC.                                              *)
EXTENDS Ingest, TLC

CONSTANTS r1, r2, f1, f2, outer, inner, x, y, z

\* The second root lies inside the first: f2 is found through both.
NestedRoots == <<outer, inner>>
Nested == (outer :> <<f1, f2>>) @@ (inner :> <<f2>>)

\* f1 changes and is changed back; f2 becomes a file that does not parse and
\* is removed.
History == (f1 :> <<x, y, x>>) @@ (f2 :> <<x, z, Missing>>)
====
