---- MODULE MCProvenance ----
(* Instances of Provenance for TLC. Collections A and B watch the same        *)
(* directory, A without an identity manifest, B with one.                    *)
EXTENDS Provenance, TLC

CONSTANTS A, B, u1, u2, u3, d1, d2, d3, L1, L2

AllUris == [c \in Collections |-> Uris]

\* Two parts of one logical work, and a third file declared on its own.
PinnedLogicalUri == (d1 :> L1) @@ (d2 :> L1) @@ (d3 :> L2)

ManifestOfB == (u1 :> d1) @@ (u2 :> d2) @@ (u3 :> d3)
MixedManifests == [c \in Collections |-> IF c = B THEN [u \in Uris |-> ManifestOfB[u]]
                                         ELSE [u \in Uris |-> Undeclared]]

Interchangeable == Permutations(Contents)
====
