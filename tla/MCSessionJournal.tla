---- MODULE MCSessionJournal ----
(* An instance of SessionJournal for TLC.                                    *)
EXTENDS SessionJournal

CONSTANTS s1, c1, c2, k1, k2, r1

OneSession == [r \in Requests |-> s1]
====
