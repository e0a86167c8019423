---- MODULE EventLog ----
(***************************************************************************)
(* What the outbox promises its readers: every committed event reaches     *)
(* events.jsonl as at most one line, a row is called delivered only while  *)
(* its line is there, and what was delivered stays.  Lines nobody was told *)
(* about may be lost with the machine's power.                             *)
(***************************************************************************)
EXTENDS Sequences, Naturals

CONSTANT Events

VARIABLES
    committed,   \* events of committed transactions
    published,   \* the lines of the file
    delivered    \* events whose row says delivered

LogVars == <<committed, published, delivered>>

Lines(file) == {file[i] : i \in DOMAIN file}

LogInit == committed = {} /\ published = <<>> /\ delivered = {}

CommitEvent(e) ==
    /\ e \notin committed
    /\ committed' = committed \cup {e}
    /\ UNCHANGED <<published, delivered>>

Publish(e) ==
    /\ e \in committed \ Lines(published)
    /\ published' = Append(published, e)
    /\ UNCHANGED <<committed, delivered>>

Deliver(e) ==
    /\ e \in Lines(published)
    /\ delivered' = delivered \cup {e}
    /\ UNCHANGED <<committed, published>>

\* The last lines are lost, none of them delivered.
LoseTail ==
    /\ \E n \in 0..Len(published) :
          /\ published' = SubSeq(published, 1, n)
          /\ \A i \in n+1..Len(published) : published[i] \notin delivered
    /\ UNCHANGED <<committed, delivered>>

LogNext ==
    \/ \E e \in Events : CommitEvent(e) \/ Publish(e) \/ Deliver(e)
    \/ LoseTail

LogSpec == LogInit /\ [][LogNext]_LogVars
====
