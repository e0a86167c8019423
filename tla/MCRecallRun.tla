---- MODULE MCRecallRun ----
(* Instances of RecallRun for TLC.                                           *)
EXTENDS RecallRun
====
