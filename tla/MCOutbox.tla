---- MODULE MCOutbox ----
(* Instances of Outbox for TLC.                                              *)
EXTENDS Outbox, TLC

CONSTANTS x1, x2, e1, e2, e3

\* e3 commits last and sorts first: occurred_at is stamped before the commit.
LateStamp == (e1 :> 2) @@ (e2 :> 3) @@ (e3 :> 1)
AllFaults == {"interrupt", "power"}
InterruptOnly == {"interrupt"}
====
