---- MODULE MCBackup ----
(* Instances of Backup for TLC.                                              *)
EXTENDS Backup, TLC

CONSTANTS x1, e1, e2, e3, b1, b2, r1, r2

\* e3 commits last and sorts first: occurred_at is stamped before the commit.
LateStamp == (e1 :> 2) @@ (e2 :> 3) @@ (e3 :> 1)
OwnBlobs == (e1 :> {b1}) @@ (e2 :> {b1, b2}) @@ (e3 :> {})
PowerOnly == {"power"}
====
