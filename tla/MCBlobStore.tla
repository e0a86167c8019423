---- MODULE MCBlobStore ----
(* Instances of BlobStore for TLC.                                           *)
EXTENDS BlobStore, TLC

CONSTANTS p1, p2, d1, f1, f2, f3, f4
====
