---- MODULE RecallRunProofs ----
(***************************************************************************)
(* Proofs about RecallRun, for every batch size, every number of attempts  *)
(* of the handlers and every number of interruptions: what a call tells    *)
(* its caller is what the rows of its runs say.                            *)
(*                                                                         *)
(* The three properties speak of ended calls and are not inductive: the    *)
(* invariant says where the happy path has got to (PathInv), what the      *)
(* handlers have settled so far and which interruption they still owe      *)
(* (SettleInv), and what the rows can contain at all (RowsInv).            *)
(***************************************************************************)
EXTENDS RecallRun, TLAPS

Happy == {"request", "begin", "build", "complete"}
Handling == {"reload", "record", "recover"}

CallType ==
    [at : Places, cur : 1..Size, error : Errors \cup {"none"}, guard : BOOLEAN,
     gets : 0..(Getting - 1), tries : 0..Recording, pending : BOOLEAN,
     first : {"none", "unsettled", "interruption"},
     interruptions : 0..MaxInterruptions, outcome : Outcomes]

\* The happy path: runs before the current one have done the current phase.
PathInv ==
    /\ call.at \in Happy =>
          /\ call.cur \in Members
          /\ call.error = "none" /\ call.first = "none" /\ call.outcome = "none"
          /\ ~call.guard /\ ~call.pending /\ call.interruptions = 0
    /\ call.at = "request" => \A i \in Members : row[i] = Absent
    /\ call.at = "begin" =>
          \A i \in Members : row[i] = IF i < call.cur THEN Running ELSE Absent
    /\ call.at = "build" =>
          \A i \in Members : row[i] = Running /\ (i < call.cur => life[i].packet = i)
    /\ call.at = "complete" =>
          \A i \in Members : row[i] = Running /\ life[i].packet = i
    /\ call.at = "request" => call.cur = 1

\* The handlers: what is settled, and the interruption that is still owed.
SettleInv ==
    call.at \in Handling =>
       /\ call.cur \in Members
       /\ call.outcome = "none"
       /\ ~call.guard => call.error \in Errors
       /\ call.guard \/ call.first = "interruption" \/ call.pending => call.interruptions > 0
       /\ call.interruptions > 0 => call.guard \/ call.first # "none" \/ call.pending
       /\ call.guard /\ call.first = "interruption" => call.interruptions > 1
       /\ call.first = "none" => \A i \in Members : i < call.cur => row[i].status # "running"
       /\ call.pending => life[call.cur].started
       /\ call.at = "record" =>
             row[call.cur] = Running /\ life[call.cur].started /\ call.tries < Recording
       /\ call.at = "recover" => row[call.cur].status = "succeeded"

\* Runs succeed together, with their own packets; a failure has its reason.
RowsInv ==
    /\ \/ \A i \in Members : row[i].status # "succeeded"
       \/ \A i \in Members : row[i].status = "succeeded"
    /\ \A i \in Members : row[i].status = "succeeded" => row[i].output = i /\ i \in stored
    /\ \A i \in Members : row[i].status = "failed" =>
          \/ row[i].output = call.error
          \/ row[i].output = "interrupted" /\ call.interruptions > 0

\* What an ended call has told its caller.
DoneInv ==
    call.at = "done" =>
       /\ EndedRunsAreTerminal
       /\ call.outcome = "result" => \A i \in Members : row[i].status = "succeeded"
       /\ call.outcome = "error" /\ kind # "batch" => \A i \in Members : row[i].status # "succeeded"
       /\ call.interruptions > 0 => call.outcome \notin {"result", "error"}

IInv == TypeOK /\ PathInv /\ SettleInv /\ RowsInv /\ DoneInv


LEMMA MembersAreRows ==
    ASSUME CallAssumption
    PROVE  /\ Members \subseteq 1..Size
           /\ 1 \in Members
           /\ kind # "batch" => Members = {1}
           /\ \A i \in Members : i \in Int /\ (i + 1 \notin Members => \A j \in Members : j <= i)
  BY DEF CallAssumption, Members

LEMMA InitHolds ==
    ASSUME CallAssumption, Init
    PROVE  IInv
  <1>1. TypeOK
    BY DEF CallAssumption, Init, TypeOK, Rows, Absent, Packets, Places, Outcomes, None, Errors
  <1>2. PathInv /\ SettleInv /\ RowsInv /\ DoneInv
    BY MembersAreRows
       DEF CallAssumption, Init, PathInv, SettleInv, RowsInv, DoneInv, Happy, Handling,
           Absent
  <1> QED BY <1>1, <1>2 DEF IInv

\* Turning to a run forgets the attempts made for the one before.
LEMMA SettlingHolds ==
    ASSUME CallAssumption, NEW c \in CallType, NEW i \in 1..Size
    PROVE  LET t == Settling(c, i)
           IN /\ t \in CallType
              /\ t.at = "reload" /\ t.cur = i /\ ~t.pending
              /\ t.error = c.error /\ t.guard = c.guard /\ t.first = c.first
              /\ t.interruptions = c.interruptions /\ t.outcome = c.outcome
  <1> DEFINE c1 == [c EXCEPT !.at = "reload", !.cur = i]
             c2 == [c1 EXCEPT !.gets = 0, !.tries = 0]
  <1>1. 0 \in 0..(Getting - 1) /\ 0 \in 0..Recording /\ "reload" \in Places
    BY DEF CallAssumption, Places
  <1>2. /\ c1 \in CallType /\ c1.at = "reload" /\ c1.cur = i
        /\ c1.error = c.error /\ c1.guard = c.guard /\ c1.first = c.first
        /\ c1.interruptions = c.interruptions /\ c1.outcome = c.outcome
    BY <1>1 DEF CallType
  <1>3. Settling(c, i) = [c2 EXCEPT !.pending = FALSE]
    BY DEF Settling
  <1> HIDE DEF c1
  <1>4. /\ c2 \in CallType /\ c2.at = c1.at /\ c2.cur = c1.cur
        /\ c2.error = c1.error /\ c2.guard = c1.guard /\ c2.first = c1.first
        /\ c2.interruptions = c1.interruptions /\ c2.outcome = c1.outcome
    BY <1>1, <1>2 DEF CallType
  <1> HIDE DEF c2
  <1> QED BY <1>2, <1>3, <1>4 DEF CallType

\* What must be known of a run that is about to be settled.
MaySettle(result, c) ==
    /\ c \in CallType
    /\ c.cur \in Members
    /\ c.at \in Handling
    /\ c.outcome = "none"
    /\ ~c.guard => c.error \in Errors
    /\ result \in {"none", "recovered", "unsettled", "interruption"}
    /\ c.guard \/ c.first = "interruption" \/ result = "interruption" => c.interruptions > 0
    /\ c.interruptions > 0 =>
          c.guard \/ c.first # "none" \/ result \in {"unsettled", "interruption"}
    /\ c.guard /\ (c.first = "interruption" \/ result = "interruption") => c.interruptions > 1

\* The rows when it is.
RowsSettled(result, c, rows) ==
    /\ c.first = "none" /\ result \notin {"unsettled", "interruption"} =>
          \A i \in Members : i <= c.cur => rows[i].status # "running"
    /\ result = "none" /\ kind # "batch" => rows[c.cur].status # "succeeded"
    /\ result = "recovered" => rows[c.cur].status = "succeeded"

\* Settling one run keeps the account of what is settled, and the last run
\* ends the call with what the rows say.
LEMMA SettleHolds ==
    ASSUME CallAssumption, NEW result, NEW c, MaySettle(result, c),
           RowsSettled(result, c, row'), call' = Settle(result, c), UNCHANGED kind
    PROVE  /\ call' \in CallType
           /\ call'.error = c.error /\ call'.interruptions = c.interruptions
           /\ PathInv' /\ SettleInv' /\ DoneInv'
  <1> DEFINE d == [c EXCEPT !.first = IF @ = "none" /\ result \in {"unsettled", "interruption"}
                                      THEN result ELSE @]
  <1>1. Members' = Members
    BY DEF Members
  <1>2. /\ d \in CallType /\ d.cur = c.cur /\ d.guard = c.guard /\ d.error = c.error
        /\ d.interruptions = c.interruptions /\ d.outcome = "none"
        /\ d.first = IF c.first = "none" /\ result \in {"unsettled", "interruption"}
                     THEN result ELSE c.first
        /\ d.first \in {"none", "unsettled", "interruption"}
    BY DEF MaySettle, CallType
  <1>3. CASE c.cur + 1 \in Members
    <2>1. call' = Settling(d, c.cur + 1)
      BY <1>3 DEF Settle
    <2>2. /\ call' \in CallType
          /\ call'.at = "reload" /\ call'.cur = c.cur + 1 /\ call'.error = c.error
          /\ call'.interruptions = c.interruptions /\ call'.guard = c.guard
          /\ call'.first = d.first /\ ~call'.pending /\ call'.outcome = "none"
      <3>1. c.cur + 1 \in 1..Size
        BY <1>3, MembersAreRows
      <3> HIDE DEF d
      <3> QED BY <1>2, <2>1, <3>1, SettlingHolds DEF MaySettle
    <2>3. PathInv' /\ DoneInv'
      BY <2>2 DEF PathInv, DoneInv, Happy
    <2>4. c.cur \in Int /\ \A i \in Members : i \in Int
      BY MembersAreRows DEF MaySettle
    <2>5. call'.first = "none" => \A i \in Members' : i < call'.cur => row'[i].status # "running"
      BY <1>1, <1>2, <2>2, <2>4 DEF RowsSettled
    <2>6. SettleInv'
      BY <1>1, <1>2, <1>3, <2>2, <2>5 DEF SettleInv, MaySettle, Handling
    <2> QED BY <2>2, <2>3, <2>6
  <1>4. CASE c.cur + 1 \notin Members
    <2>1. call' = Conclude(result, d)
      BY <1>4 DEF Settle
    <2>2. \A j \in Members : j <= c.cur
      BY <1>4, MembersAreRows DEF MaySettle
    <2>3. CASE d.first = "none"
      <3>1. call' = [d EXCEPT !.at = "done", !.outcome = SettledOutcome(result, d)]
        BY <2>1, <2>3 DEF Conclude
      <3>2. SettledOutcome(result, d) \in {"interrupted", "result", "error"}
        BY DEF SettledOutcome
      <3>3. /\ call' \in CallType
            /\ call'.at = "done" /\ call'.error = c.error
            /\ call'.interruptions = c.interruptions
            /\ call'.outcome = SettledOutcome(result, d)
        BY <1>2, <3>1, <3>2 DEF CallType, Places, Outcomes
      <3>4. result \notin {"unsettled", "interruption"} /\ c.first = "none"
        BY <1>2, <2>3
      <3>5. \A i \in Members : row'[i].status # "running"
        BY <2>2, <3>4 DEF RowsSettled
      <3>6. c.interruptions > 0 => SettledOutcome(result, d) = "interrupted"
        BY <1>2, <3>4 DEF MaySettle, SettledOutcome
      <3>7. SettledOutcome(result, d) = "result" =>
               result = "recovered" /\ kind # "batch"
        BY <3>4 DEF SettledOutcome
      <3>8. SettledOutcome(result, d) = "error" /\ kind # "batch" => result = "none"
        BY <3>4 DEF SettledOutcome, MaySettle
      <3>9. kind # "batch" => Members = {c.cur}
        BY MembersAreRows DEF MaySettle
      <3>10. PathInv' /\ SettleInv'
        BY <3>3 DEF PathInv, SettleInv, Happy, Handling
      <3>11. DoneInv'
        BY <1>1, <3>3, <3>5, <3>6, <3>7, <3>8, <3>9
           DEF DoneInv, EndedRunsAreTerminal, RowsSettled
      <3> QED BY <3>3, <3>10, <3>11
    <2>4. CASE d.first = "unsettled"
      <3>1. call' = [d EXCEPT !.at = "done", !.outcome = "unsettled"]
        BY <2>1, <2>4 DEF Conclude
      <3>2. /\ call' \in CallType
            /\ call'.at = "done" /\ call'.error = c.error
            /\ call'.interruptions = c.interruptions /\ call'.outcome = "unsettled"
        BY <1>2, <3>1 DEF CallType, Places, Outcomes
      <3> QED
        BY <3>2 DEF PathInv, SettleInv, DoneInv, EndedRunsAreTerminal, Happy, Handling
    <2>5. CASE d.first = "interruption" /\ d.guard
      <3>1. call' = [d EXCEPT !.at = "done", !.outcome = "interrupted"]
        BY <2>1, <2>5 DEF Conclude
      <3>2. /\ call' \in CallType
            /\ call'.at = "done" /\ call'.error = c.error
            /\ call'.interruptions = c.interruptions /\ call'.outcome = "interrupted"
        BY <1>2, <3>1 DEF CallType, Places, Outcomes
      <3>3. c.interruptions > 1
        BY <1>2, <2>5 DEF MaySettle
      <3> QED
        BY <3>2, <3>3 DEF PathInv, SettleInv, DoneInv, EndedRunsAreTerminal, Happy, Handling
    <2>6. CASE d.first = "interruption" /\ ~d.guard
      <3>1. call' = Guard(d)
        BY <2>1, <2>6 DEF Conclude
      <3>2. /\ call' \in CallType
            /\ call'.at = "reload" /\ call'.cur = 1 /\ call'.error = c.error
            /\ call'.interruptions = c.interruptions /\ call'.guard
            /\ call'.first = "none" /\ ~call'.pending /\ call'.outcome = "none"
        <4> DEFINE g == [d EXCEPT !.guard = TRUE, !.first = "none"]
        <4>1. /\ g \in CallType /\ g.guard /\ g.first = "none" /\ g.error = d.error
              /\ g.interruptions = d.interruptions /\ g.outcome = d.outcome
          BY <1>2 DEF CallType
        <4>2. call' = Settling(g, 1)
          BY <3>1 DEF Guard
        <4>3. 1 \in 1..Size
          BY DEF CallAssumption
        <4> HIDE DEF g
        <4> QED BY <1>2, <4>1, <4>2, <4>3, SettlingHolds
      <3>3. c.interruptions > 0
        BY <1>2, <2>6 DEF MaySettle
      <3>4. 1 \in Members' /\ \A i \in Members' : ~(i < 1)
        BY <1>1, MembersAreRows DEF CallAssumption
      <3>5. SettleInv'
        BY <3>2, <3>3, <3>4 DEF SettleInv, Handling
      <3> QED BY <3>2, <3>5 DEF PathInv, DoneInv, Happy
    <2> QED BY <1>2, <2>3, <2>4, <2>5, <2>6
  <1> QED BY <1>3, <1>4

----------------------------------------------------------------------------
(* Entering the handlers *)

\* The ordinary handler starts with nothing settled and no interruption owed.
LEMMA HandleHolds ==
    ASSUME CallAssumption, call \in CallType, call.at \in Happy, PathInv,
           NEW error \in Errors, call' = Handle(error), UNCHANGED kind
    PROVE  call' \in CallType /\ PathInv' /\ SettleInv' /\ DoneInv'
  <1> DEFINE c == [call EXCEPT !.error = error]
  <1>1. /\ c \in CallType /\ c.error = error /\ ~c.guard /\ c.first = "none"
        /\ c.interruptions = 0 /\ c.outcome = "none"
    BY DEF CallType, PathInv
  <1>2. call' = Settling(c, 1) /\ 1 \in 1..Size
    BY DEF Handle, CallAssumption
  <1> HIDE DEF c
  <1>3. /\ call' \in CallType
        /\ call'.at = "reload" /\ call'.cur = 1 /\ ~call'.pending
        /\ call'.error = error /\ ~call'.guard /\ call'.first = "none"
        /\ call'.interruptions = 0 /\ call'.outcome = "none"
    BY <1>1, <1>2, SettlingHolds
  <1>4. 1 \in Members' /\ \A i \in Members' : ~(i < 1)
    BY DEF Members, CallAssumption
  <1>5. SettleInv'
    BY <1>3, <1>4 DEF SettleInv
  <1> QED BY <1>3, <1>5 DEF PathInv, DoneInv, Happy

\* The guard starts owing one interruption.
LEMMA GuardHolds ==
    ASSUME CallAssumption, call \in CallType, call.at \in Happy, PathInv, MayInterrupt,
           call' = Guard(Interrupted), UNCHANGED kind
    PROVE  call' \in CallType /\ PathInv' /\ SettleInv' /\ DoneInv'
  <1> DEFINE c0 == Interrupted
             c == [c0 EXCEPT !.guard = TRUE, !.first = "none"]
  <1>0. /\ c0 \in CallType /\ c0.interruptions = 1 /\ c0.outcome = "none"
    BY DEF CallType, PathInv, Interrupted, MayInterrupt, CallAssumption
  <1>2. call' = Settling(c, 1) /\ 1 \in 1..Size
    BY DEF Guard, CallAssumption
  <1> HIDE DEF c0
  <1>1. /\ c \in CallType /\ c.guard /\ c.first = "none" /\ c.interruptions = 1
        /\ c.outcome = "none"
    BY <1>0 DEF CallType
  <1> HIDE DEF c
  <1>3. /\ call' \in CallType
        /\ call'.at = "reload" /\ call'.cur = 1 /\ ~call'.pending
        /\ call'.guard /\ call'.first = "none"
        /\ call'.interruptions = 1 /\ call'.outcome = "none"
    BY <1>1, <1>2, SettlingHolds
  <1>4. 1 \in Members' /\ \A i \in Members' : ~(i < 1)
    BY DEF Members, CallAssumption
  <1>5. SettleInv'
    BY <1>3, <1>4 DEF SettleInv
  <1> QED BY <1>3, <1>5 DEF PathInv, DoneInv, Happy

LEMMA RaisesHolds ==
    ASSUME CallAssumption, call \in CallType, call.at \in Happy, PathInv,
           NEW error \in Errors, Raises(error), UNCHANGED kind
    PROVE  call' \in CallType /\ PathInv' /\ SettleInv' /\ DoneInv'
  BY HandleHolds, GuardHolds DEF Raises

\* While no run has failed or succeeded, the rows say nothing yet; when all have
\* succeeded with their own packets, they say it whatever becomes of the call.
LEMMA QuietRows ==
    ASSUME \/ \A i \in Members' : row'[i].status \in {"absent", "running"}
           \/ \A i \in Members' : row'[i] = Succeeded(i) /\ i \in stored'
    PROVE  RowsInv'
  <1>1. CASE \A i \in Members' : row'[i].status \in {"absent", "running"}
    BY <1>1 DEF RowsInv
  <1>2. CASE \A i \in Members' : row'[i] = Succeeded(i) /\ i \in stored'
    <2>2. \A o : Succeeded(o).status = "succeeded" /\ Succeeded(o).output = o
      BY DEF Succeeded
    <2>1. \A i \in Members' :
             row'[i].status = "succeeded" /\ row'[i].output = i /\ i \in stored'
      BY <1>2, <2>2
    <2> QED BY <2>1 DEF RowsInv
  <1> QED BY <1>1, <1>2

----------------------------------------------------------------------------
(* The call *)

LEMMA RequestKeeps ==
    ASSUME CallAssumption, IInv, PersistRequests
    PROVE  IInv'
  <1>1. call \in CallType /\ Members' = Members
    BY DEF IInv, TypeOK, CallType, PersistRequests, Members
  <1>7. /\ call.at = "request" /\ call.cur = 1 /\ call.error = "none" /\ call.first = "none"
        /\ call.outcome = "none" /\ ~call.guard /\ ~call.pending /\ call.interruptions = 0
    BY DEF PersistRequests, IInv, PathInv, Happy
  <1>8. /\ {"begin", "done"} \subseteq Places /\ {"error", "interrupted"} \subseteq Outcomes
        /\ "persistence" \in Errors
    BY DEF Places, Outcomes, Errors
  <1>2. /\ call' \in CallType /\ call'.cur = 1
        /\ \/ /\ call'.at = "begin" /\ call'.error = "none" /\ call'.first = "none"
              /\ call'.outcome = "none" /\ ~call'.guard /\ ~call'.pending
              /\ call'.interruptions = 0
           \/ call'.at = "done" /\ call'.outcome = "error" /\ call'.interruptions = 0
           \/ call'.at = "done" /\ call'.outcome = "interrupted"
    <2>1. CASE call' = [call EXCEPT !.at = "begin"]
      BY <1>1, <1>7, <1>8, <2>1 DEF CallType
    <2>2. CASE call' = [End("error") EXCEPT !.error = "persistence"]
      <3>1. /\ End("error") \in CallType /\ End("error").at = "done" /\ End("error").cur = 1
            /\ End("error").outcome = "error" /\ End("error").interruptions = 0
        BY <1>1, <1>7, <1>8 DEF CallType, End
      <3> QED BY <1>8, <2>2, <3>1 DEF CallType
    <2>3. CASE MayInterrupt /\ call' = [End("interrupted") EXCEPT !.interruptions = @ + 1]
      <3>1. /\ End("interrupted") \in CallType /\ End("interrupted").at = "done"
            /\ End("interrupted").cur = 1 /\ End("interrupted").outcome = "interrupted"
            /\ End("interrupted").interruptions = 0
        BY <1>1, <1>7, <1>8 DEF CallType, End
      <3>2. 1 \in 0..MaxInterruptions
        BY <1>7, <2>3 DEF MayInterrupt, CallAssumption
      <3> QED BY <2>3, <3>1, <3>2 DEF CallType
    <2> QED BY <2>1, <2>2, <2>3 DEF PersistRequests
  <1>3. \A i \in Members : row'[i] = Absent /\ row[i] = Absent
    BY DEF IInv, PathInv, PersistRequests
  <1>4. TypeOK'
    BY <1>2 DEF IInv, TypeOK, CallType, PersistRequests
  <1>5. PathInv' /\ SettleInv' /\ DoneInv'
    BY <1>1, <1>2, <1>3, MembersAreRows
       DEF PathInv, SettleInv, DoneInv, Happy, Handling, EndedRunsAreTerminal, Absent
  <1>6. RowsInv'
    BY <1>1, <1>3, QuietRows DEF Absent
  <1> QED BY <1>4, <1>5, <1>6 DEF IInv

\* Moving to the next run of a phase, or to the next phase.
LEMMA NextRunHolds ==
    ASSUME CallAssumption, call \in CallType, call.cur \in Members,
           NEW place \in Places, call' = NextRun(place)
    PROVE  /\ call' \in CallType
           /\ call'.error = call.error /\ call'.first = call.first
           /\ call'.outcome = call.outcome /\ call'.guard = call.guard
           /\ call'.pending = call.pending /\ call'.interruptions = call.interruptions
           /\ \/ /\ call.cur + 1 \in Members
                 /\ call'.at = call.at /\ call'.cur = call.cur + 1
              \/ /\ \A i \in Members : i <= call.cur
                 /\ call'.at = place /\ call'.cur = 1
  BY MembersAreRows DEF NextRun, CallType, CallAssumption

LEMMA BeginKeeps ==
    ASSUME CallAssumption, IInv, Begin
    PROVE  IInv'
  <1>1. call \in CallType /\ Members' = Members /\ call.cur \in Members /\ "build" \in Places
    BY DEF IInv, TypeOK, CallType, Begin, Members, PathInv, Happy, Places
  <1>2. /\ row' = [row EXCEPT ![call.cur] = Running]
        /\ life' = [life EXCEPT ![call.cur].started = TRUE]
        /\ call' = NextRun("build") /\ kind' = kind /\ stored' = stored
    BY DEF Begin
  <1>3. Running \in Rows /\ DOMAIN row = 1..Size /\ Members \subseteq 1..Size
    BY MembersAreRows DEF Rows, IInv, TypeOK
  <1>4. /\ call.at = "begin" /\ call.error = "none" /\ call.first = "none"
        /\ call.outcome = "none" /\ ~call.guard /\ ~call.pending /\ call.interruptions = 0
    BY DEF Begin, IInv, PathInv, Happy
  <1>5. \A i \in Members : row[i] = IF i < call.cur THEN Running ELSE Absent
    BY <1>4 DEF IInv, PathInv
  <1>6. TypeOK'
    BY <1>1, <1>2, <1>3, NextRunHolds DEF IInv, TypeOK, CallType
  <1>7. \A i \in Members : i \in Int
    BY MembersAreRows
  <1>8. \A i \in Members : row'[i] = IF i <= call.cur THEN Running ELSE Absent
    BY <1>1, <1>2, <1>3, <1>5, <1>7
  <1>9. PathInv' /\ SettleInv' /\ DoneInv'
    BY <1>1, <1>2, <1>4, <1>7, <1>8, NextRunHolds, MembersAreRows
       DEF PathInv, SettleInv, DoneInv, Happy, Handling
  <1>10. RowsInv'
    BY <1>1, <1>8, QuietRows DEF Running, Absent
  <1> QED BY <1>6, <1>9, <1>10 DEF IInv

LEMMA BeginRaisesKeeps ==
    ASSUME CallAssumption, IInv, BeginRaises
    PROVE  IInv'
  <1>1. call \in CallType /\ Members' = Members /\ call.at \in Happy /\ "persistence" \in Errors
    BY DEF IInv, TypeOK, CallType, BeginRaises, Members, Happy, Errors
  <1>2. call' \in CallType /\ PathInv' /\ SettleInv' /\ DoneInv'
    BY <1>1, RaisesHolds DEF BeginRaises, IInv
  <1>3. row' \in [1..Size -> Rows]
    BY DEF BeginRaises, IInv, TypeOK, Rows
  <1>4. TypeOK'
    BY <1>2, <1>3 DEF IInv, TypeOK, CallType, BeginRaises
  <1>5. \A i \in Members : row[i] \in {Running, Absent}
    BY DEF BeginRaises, IInv, PathInv
  <1>6. \A i \in Members : row'[i] \in {Running, Absent}
    BY <1>5, MembersAreRows DEF BeginRaises, IInv, TypeOK
  <1>7. RowsInv'
    BY <1>1, <1>6, QuietRows DEF Running, Absent
  <1> QED BY <1>2, <1>4, <1>7 DEF IInv

LEMMA BuildKeeps ==
    ASSUME CallAssumption, IInv, Build
    PROVE  IInv'
  <1>1. /\ call \in CallType /\ Members' = Members /\ call.cur \in Members
        /\ call.at = "build" /\ call.at \in Happy
        /\ "complete" \in Places /\ "mismatch" \in Errors
    BY DEF IInv, TypeOK, CallType, Build, Members, PathInv, Happy, Places, Errors
  <1>2. PICK p \in Built :
           /\ life' = [life EXCEPT ![call.cur].packet = p]
           /\ IF Reproduces(p) THEN call' = NextRun("complete") ELSE call' = Handle("mismatch")
    BY DEF Build
  <1>3. /\ kind' = kind /\ row' = row /\ stored' = stored
        /\ p \in Packets \cup {None} /\ call.cur \in 1..Size
    BY <1>1, MembersAreRows DEF Build, Built, Packets, Wrong, CallType
  <1>4. life' \in [1..Size -> [started : BOOLEAN, packet : Packets \cup {None}]]
    BY <1>2, <1>3 DEF IInv, TypeOK
  <1>5. \A i \in Members : row'[i] = Running
    BY <1>1, <1>3 DEF IInv, PathInv
  <1>6. RowsInv'
    BY <1>1, <1>5, QuietRows DEF Running
  <1>7. CASE Reproduces(p)
    <2>1. p = call.cur
      BY <1>2, <1>7 DEF Built, Reproduces
    <2>2. call' = NextRun("complete")
      BY <1>2, <1>7
    <2>3. \A i \in Members : i \in Int /\ i \in 1..Size
      BY MembersAreRows
    <2>4. \A i \in Members : i < call.cur => life[i].packet = i
      BY <1>1 DEF IInv, PathInv
    <2>5. \A i \in Members : i <= call.cur => life'[i].packet = i
      BY <1>1, <1>2, <1>3, <2>1, <2>3, <2>4 DEF IInv, TypeOK
    <2>6. PathInv' /\ SettleInv' /\ DoneInv'
      <3>1. /\ call.error = "none" /\ call.first = "none" /\ call.outcome = "none"
            /\ ~call.guard /\ ~call.pending /\ call.interruptions = 0
        BY <1>1 DEF IInv, PathInv
      <3>2. call'.at \in {"build", "complete"}
        BY <1>1, <2>2, NextRunHolds
      <3>3. SettleInv' /\ DoneInv'
        BY <3>2 DEF SettleInv, DoneInv, Handling
      <3>4. call'.cur \in Members
        BY <1>1, <2>2, NextRunHolds, MembersAreRows
      <3>5. call'.at = "build" => \A i \in Members : i < call'.cur => i <= call.cur
        BY <1>1, <2>2, <2>3, NextRunHolds
      <3>6. call'.at = "complete" => \A i \in Members : i <= call.cur
        BY <1>1, <2>2, <2>3, NextRunHolds
      <3>7. PathInv'
        BY <1>1, <1>5, <2>2, <2>5, <3>1, <3>2, <3>4, <3>5, <3>6, NextRunHolds
           DEF PathInv, Happy
      <3> QED BY <3>3, <3>7
    <2>7. TypeOK'
      BY <1>1, <1>3, <1>4, <2>2, NextRunHolds DEF IInv, TypeOK, CallType
    <2> QED BY <1>6, <2>6, <2>7 DEF IInv
  <1>8. CASE ~Reproduces(p)
    <2>1. call' \in CallType /\ PathInv' /\ SettleInv' /\ DoneInv'
      BY <1>1, <1>2, <1>3, <1>8, HandleHolds DEF IInv
    <2>2. TypeOK'
      BY <1>3, <1>4, <2>1 DEF IInv, TypeOK, CallType
    <2> QED BY <1>6, <2>1, <2>2 DEF IInv
  <1> QED BY <1>7, <1>8

LEMMA BuildRaisesKeeps ==
    ASSUME CallAssumption, IInv, BuildRaises
    PROVE  IInv'
  <1>1. call \in CallType /\ Members' = Members /\ call.at \in Happy /\ "execution" \in Errors
    BY DEF IInv, TypeOK, CallType, BuildRaises, Members, Happy, Errors
  <1>2. call' \in CallType /\ PathInv' /\ SettleInv' /\ DoneInv'
    BY <1>1, RaisesHolds DEF BuildRaises, IInv
  <1>3. TypeOK'
    BY <1>2 DEF IInv, TypeOK, CallType, BuildRaises
  <1>4. \A i \in Members : row'[i] = Running
    BY DEF BuildRaises, IInv, PathInv
  <1>5. RowsInv'
    BY <1>1, <1>4, QuietRows DEF Running
  <1> QED BY <1>2, <1>3, <1>5 DEF IInv

\* One transaction completes every run, each with its own packet.
LEMMA CommitHolds ==
    ASSUME CallAssumption, IInv, call.at = "complete", Commit, UNCHANGED kind
    PROVE  /\ row' \in [1..Size -> Rows] /\ stored' \subseteq Packets
           /\ \A i \in Members' : row'[i] = Succeeded(i) /\ i \in stored'
           /\ RowsInv'
  <1>1. Members' = Members /\ Members \subseteq 1..Size
    BY MembersAreRows DEF Members
  <1>2. /\ row' = [i \in DOMAIN row |-> IF i \in Members THEN Succeeded(life[i].packet) ELSE row[i]]
        /\ stored' = stored \cup {life[i].packet : i \in Members}
    BY DEF Commit, Completed
  <1>3. \A i \in Members : life[i].packet = i
    BY DEF IInv, PathInv
  <1>4. \A i \in 1..Size : i \in Packets /\ Succeeded(i) \in Rows
    BY DEF Packets, Rows, CallAssumption
  <1>5. DOMAIN row = 1..Size /\ row \in [1..Size -> Rows] /\ stored \subseteq Packets
    BY DEF IInv, TypeOK
  <1>8. row' \in [1..Size -> Rows]
    BY <1>1, <1>2, <1>3, <1>4, <1>5
  <1>9. stored' \subseteq Packets
    BY <1>1, <1>2, <1>3, <1>4, <1>5
  <1>6. row' \in [1..Size -> Rows] /\ stored' \subseteq Packets
    BY <1>8, <1>9
  <1>7. \A i \in Members' : row'[i] = Succeeded(i) /\ i \in stored'
    BY <1>1, <1>2, <1>3, <1>5
  <1>10. RowsInv'
    BY <1>7, QuietRows
  <1> QED BY <1>6, <1>7, <1>10

LEMMA CompleteKeeps ==
    ASSUME CallAssumption, IInv, Complete
    PROVE  IInv'
  <1>1. call.at = "complete" /\ Commit /\ UNCHANGED <<kind, life>> /\ call' = End("result")
    BY DEF Complete
  <1>2. /\ row' \in [1..Size -> Rows] /\ stored' \subseteq Packets /\ RowsInv'
        /\ \A i \in Members' : row'[i].status = "succeeded"
    <2>1. \A o : Succeeded(o).status = "succeeded"
      BY DEF Succeeded
    <2> QED BY <1>1, <2>1, CommitHolds
  <1>3. /\ call' \in CallType /\ call'.at = "done" /\ call'.outcome = "result"
        /\ call'.interruptions = 0
    BY <1>1 DEF End, CallType, IInv, TypeOK, PathInv, Happy, Places, Outcomes
  <1>4. TypeOK'
    BY <1>1, <1>2, <1>3 DEF IInv, TypeOK, CallType
  <1>5. PathInv' /\ SettleInv' /\ DoneInv'
    BY <1>2, <1>3 DEF PathInv, SettleInv, DoneInv, Happy, Handling, EndedRunsAreTerminal
  <1> QED BY <1>2, <1>4, <1>5 DEF IInv

LEMMA CompleteRaisesKeeps ==
    ASSUME CallAssumption, IInv, CompleteRaises
    PROVE  IInv'
  <1>1. /\ call \in CallType /\ Members' = Members /\ call.at = "complete"
        /\ call.at \in Happy /\ "persistence" \in Errors /\ UNCHANGED <<kind, life>>
    BY DEF IInv, TypeOK, CallType, CompleteRaises, Members, Happy, Errors
  <1>2. call' \in CallType /\ PathInv' /\ SettleInv' /\ DoneInv'
    BY <1>1, RaisesHolds DEF CompleteRaises, IInv
  <1>3. row' \in [1..Size -> Rows] /\ stored' \subseteq Packets /\ RowsInv'
    <2>1. CASE Commit
      BY <1>1, <2>1, CommitHolds
    <2>2. CASE UNCHANGED <<row, stored>>
      <3>1. \A i \in Members' : row'[i] = Running
        BY <1>1, <2>2 DEF IInv, PathInv
      <3>2. RowsInv'
        BY <3>1, QuietRows DEF Running
      <3> QED BY <2>2, <3>2 DEF IInv, TypeOK
    <2> QED BY <2>1, <2>2 DEF CompleteRaises
  <1>4. TypeOK'
    BY <1>1, <1>2, <1>3 DEF IInv, TypeOK, CallType
  <1> QED BY <1>2, <1>3, <1>4 DEF IInv

----------------------------------------------------------------------------
(* The handlers *)

\* What every action of the handlers starts from.
LEMMA HandlerState ==
    ASSUME CallAssumption, IInv, call.at \in Handling
    PROVE  /\ call \in CallType /\ call.cur \in Members /\ call.cur \in 1..Size
           /\ call.outcome = "none" /\ SettleInv /\ RowsInv
           /\ row \in [1..Size -> Rows] /\ stored \subseteq Packets
           /\ life \in [1..Size -> [started : BOOLEAN, packet : Packets \cup {None}]]
  BY MembersAreRows DEF IInv, TypeOK, SettleInv, CallType

\* A run that is settled leaves its account in order: the facts of SettleInv
\* with the call as it stands, whatever becomes of the run's own row.
LEMMA MaySettleNow ==
    ASSUME CallAssumption, IInv, call.at \in Handling,
           NEW result \in {"none", "recovered", "unsettled"},
           call.pending /\ ~call.guard => result = "unsettled"
    PROVE  MaySettle(result, call)
  BY HandlerState DEF MaySettle, SettleInv

\* The same when the interruption held back is raised.
LEMMA MaySettleReraised ==
    ASSUME CallAssumption, IInv, call.at \in Handling, NEW result \in {"none", "recovered"}
    PROVE  MaySettle(Reraised(result, call), call)
  BY HandlerState DEF MaySettle, SettleInv, Reraised

\* The interruption that arrives now.
LEMMA MaySettleInterrupted ==
    ASSUME CallAssumption, IInv, call.at \in Handling, MayInterrupt
    PROVE  /\ MaySettle("interruption", Interrupted)
           /\ Interrupted.error = call.error
           /\ Interrupted.interruptions = call.interruptions + 1
  <1>1. /\ Interrupted \in CallType /\ Interrupted.interruptions = call.interruptions + 1
        /\ Interrupted.error = call.error /\ Interrupted.cur = call.cur
        /\ Interrupted.at = call.at /\ Interrupted.guard = call.guard
        /\ Interrupted.first = call.first /\ Interrupted.outcome = call.outcome
    <2>1. call \in CallType
      BY HandlerState
    <2> QED BY <2>1 DEF Interrupted, MayInterrupt, CallType, CallAssumption
  <1>2. call.interruptions \in Nat
    BY HandlerState DEF CallType, CallAssumption
  <1>3. /\ call.guard => call.interruptions > 0
        /\ ~call.guard => call.error \in Errors
    BY DEF IInv, SettleInv
  <1> QED BY <1>1, <1>2, <1>3, HandlerState DEF MaySettle

\* Settling a run whose row stays as it is.
LEMMA SettleUnchanged ==
    ASSUME CallAssumption, IInv, call.at \in Handling, NEW result, NEW c,
           MaySettle(result, c), RowsSettled(result, c, row), call' = Settle(result, c),
           c.error = call.error, c.interruptions >= call.interruptions,
           UNCHANGED <<kind, row, stored>>,
           life' \in [1..Size -> [started : BOOLEAN, packet : Packets \cup {None}]]
    PROVE  IInv'
  <1>1. /\ call' \in CallType /\ call'.error = c.error
        /\ call'.interruptions = c.interruptions /\ PathInv' /\ SettleInv' /\ DoneInv'
    BY SettleHolds
  <1>2. TypeOK'
    BY <1>1 DEF IInv, TypeOK, CallType
  <1>3. RowsInv'
    <2>1. Members' = Members
      BY DEF Members
    <2>2. call.interruptions > 0 => call'.interruptions > 0
      BY <1>1, HandlerState DEF CallType, CallAssumption
    <2> QED BY <1>1, <2>1, <2>2 DEF IInv, RowsInv
  <1> QED BY <1>1, <1>2, <1>3 DEF IInv

\* The rows when a run is settled without a failure: its own is not running.
LEMMA RowsAreSettled ==
    ASSUME CallAssumption, IInv, call.at \in Handling, NEW result, NEW rows,
           \A i \in Members : i # call.cur => rows[i] = row[i],
           result \notin {"unsettled", "interruption"} =>
               /\ rows[call.cur].status # "running"
               /\ result = "none" => rows[call.cur].status # "succeeded"
               /\ result = "recovered" => rows[call.cur].status = "succeeded",
           result \in {"none", "recovered", "unsettled", "interruption"}
    PROVE  RowsSettled(result, call, rows)
  <1>1. \A i \in Members : i \in Int /\ call.cur \in Int
    BY HandlerState, MembersAreRows
  <1>2. call.first = "none" => \A i \in Members : i < call.cur => row[i].status # "running"
    BY DEF IInv, SettleInv
  <1>3. call.first = "none" /\ result \notin {"unsettled", "interruption"} =>
          \A i \in Members : i <= call.cur => rows[i].status # "running"
    BY <1>1, <1>2
  <1> QED BY <1>3 DEF RowsSettled

LEMMA ReloadKeeps ==
    ASSUME CallAssumption, IInv, Reload
    PROVE  IInv'
  <1>1. call.at = "reload" /\ call.at \in Handling /\ UNCHANGED <<kind, row, stored>>
    BY DEF Reload, Handling
  <1>2. CASE Missing
    <2>1. call' = Settle("none", call) /\ life' = life
      BY <1>2 DEF Reload
    <2>2. ~call.pending /\ Current.status = "absent"
      BY <1>1, <1>2, HandlerState DEF Missing, SettleInv
    <2>3. MaySettle("none", call)
      BY <1>1, <2>2, MaySettleNow
    <2>4. RowsSettled("none", call, row)
      BY <1>1, <2>2, RowsAreSettled DEF Current
    <2>5. call.interruptions >= call.interruptions
      BY <1>1, HandlerState DEF CallType, CallAssumption
    <2> QED BY <1>1, <2>1, <2>3, <2>4, <2>5, SettleUnchanged, HandlerState
  <1>3. CASE ~Missing
    <2> DEFINE adopted == [life EXCEPT ![call.cur].started = TRUE]
    <2>1. life' = adopted
      BY <1>3 DEF Reload
    <2>2. life' \in [1..Size -> [started : BOOLEAN, packet : Packets \cup {None}]]
      BY <1>1, <2>1, HandlerState
    <2>3. life'[call.cur].started
      BY <1>1, <2>1, HandlerState
    <2>4. call.interruptions >= call.interruptions
      BY <1>1, HandlerState DEF CallType, CallAssumption
    <2> HIDE DEF adopted
    <2>5. CASE Current.status = "succeeded"
      <3>1. call' = [call EXCEPT !.at = "recover"]
        BY <1>3, <2>5 DEF Reload
      <3>2. /\ call' \in CallType /\ call'.at = "recover" /\ call'.cur = call.cur
            /\ call'.error = call.error /\ call'.guard = call.guard
            /\ call'.pending = call.pending /\ call'.first = call.first
            /\ call'.interruptions = call.interruptions /\ call'.outcome = call.outcome
        BY <1>1, <3>1, HandlerState DEF CallType, Places
      <3>3. Members' = Members
        BY <1>1 DEF Members
      <3>4. SettleInv'
        BY <1>1, <2>3, <2>5, <3>2, <3>3, HandlerState DEF SettleInv, Current
      <3>5. PathInv' /\ DoneInv'
        BY <3>2 DEF PathInv, DoneInv, Happy
      <3>6. RowsInv'
        BY <1>1, <3>2, <3>3 DEF IInv, RowsInv
      <3>7. TypeOK'
        BY <1>1, <2>2, <3>2 DEF IInv, TypeOK, CallType
      <3> QED BY <3>4, <3>5, <3>6, <3>7 DEF IInv
    <2>6. CASE Current.status = "failed"
      <3>1. call' = Settle(Reraised("none", call), call)
        BY <1>3, <2>6 DEF Reload
      <3>2. MaySettle(Reraised("none", call), call)
        BY <1>1, MaySettleReraised
      <3>3. Reraised("none", call) \in {"none", "interruption"}
        BY DEF Reraised
      <3>4. RowsSettled(Reraised("none", call), call, row)
        BY <1>1, <2>6, <3>3, RowsAreSettled DEF Current
      <3> QED BY <1>1, <2>2, <2>4, <3>1, <3>2, <3>4, SettleUnchanged
    <2>7. CASE Current.status = "running" /\ call.tries < Recording
      <3>1. call' = [call EXCEPT !.at = "record"]
        BY <1>3, <2>7 DEF Reload
      <3>2. /\ call' \in CallType /\ call'.at = "record" /\ call'.cur = call.cur
            /\ call'.error = call.error /\ call'.guard = call.guard
            /\ call'.pending = call.pending /\ call'.first = call.first
            /\ call'.tries = call.tries
            /\ call'.interruptions = call.interruptions /\ call'.outcome = call.outcome
        BY <1>1, <3>1, HandlerState DEF CallType, Places
      <3>3. Members' = Members
        BY <1>1 DEF Members
      <3>4. row[call.cur] = Running
        <4>1. row[call.cur] \in Rows /\ row[call.cur].status = "running"
          BY <1>1, <2>7, HandlerState DEF Current
        <4>2. \A o : /\ Failed(o).status = "failed" /\ Succeeded(o).status = "succeeded"
                     /\ Absent.status = "absent"
          BY DEF Failed, Succeeded, Absent
        <4> QED BY <4>1, <4>2 DEF Rows
      <3>5. SettleInv'
        BY <1>1, <2>3, <2>7, <3>2, <3>3, <3>4, HandlerState DEF SettleInv
      <3>6. PathInv' /\ DoneInv'
        BY <3>2 DEF PathInv, DoneInv, Happy
      <3>7. RowsInv'
        BY <1>1, <3>2, <3>3 DEF IInv, RowsInv
      <3>8. TypeOK'
        BY <1>1, <2>2, <3>2 DEF IInv, TypeOK, CallType
      <3> QED BY <3>5, <3>6, <3>7, <3>8 DEF IInv
    <2>8. CASE /\ Current.status \notin {"succeeded", "failed"}
               /\ ~(Current.status = "running" /\ call.tries < Recording)
      <3>1. call' = Settle("unsettled", call)
        BY <1>3, <2>8 DEF Reload
      <3>2. MaySettle("unsettled", call)
        BY <1>1, MaySettleNow
      <3>3. RowsSettled("unsettled", call, row)
        BY DEF RowsSettled
      <3> QED BY <1>1, <2>2, <2>4, <3>1, <3>2, <3>3, SettleUnchanged
    <2> QED BY <2>5, <2>6, <2>7, <2>8
  <1> QED BY <1>2, <1>3

\* A handler's call fails: the run stays unsettled, or the interruption counts.
LEMMA GivenUpKeeps ==
    ASSUME CallAssumption, IInv, call.at \in Handling, UNCHANGED <<kind, row, stored, life>>,
           \/ call' = Settle("unsettled", call)
           \/ MayInterrupt /\ call' = Settle("interruption", Interrupted)
    PROVE  IInv'
  <1>1. life' \in [1..Size -> [started : BOOLEAN, packet : Packets \cup {None}]]
    BY HandlerState
  <1>2. call.interruptions \in Nat
    BY HandlerState DEF CallType, CallAssumption
  <1>3. CASE call' = Settle("unsettled", call)
    <2>1. MaySettle("unsettled", call) /\ RowsSettled("unsettled", call, row)
      BY MaySettleNow DEF RowsSettled
    <2> QED BY <1>1, <1>2, <1>3, <2>1, SettleUnchanged
  <1>4. CASE MayInterrupt /\ call' = Settle("interruption", Interrupted)
    <2>1. /\ MaySettle("interruption", Interrupted)
          /\ Interrupted.error = call.error
          /\ Interrupted.interruptions >= call.interruptions
      BY <1>2, <1>4, MaySettleInterrupted
    <2>2. RowsSettled("interruption", Interrupted, row)
      BY DEF RowsSettled
    <2> QED BY <1>1, <1>4, <2>1, <2>2, SettleUnchanged
  <1> QED BY <1>3, <1>4

LEMMA ReloadRaisesKeeps ==
    ASSUME CallAssumption, IInv, ReloadRaises
    PROVE  IInv'
  <1>1. call.at \in Handling /\ UNCHANGED <<kind, row, stored, life>>
    BY DEF ReloadRaises, Handling
  <1>2. CASE call.gets + 1 < Getting /\ call' = [call EXCEPT !.gets = @ + 1]
    <2>0. call \in CallType /\ call.gets + 1 \in 0..Getting - 1
      BY <1>1, <1>2, HandlerState DEF CallType, CallAssumption
    <2>1. /\ call' \in CallType /\ call'.at = call.at /\ call'.cur = call.cur
          /\ call'.error = call.error /\ call'.guard = call.guard
          /\ call'.pending = call.pending /\ call'.first = call.first
          /\ call'.tries = call.tries
          /\ call'.interruptions = call.interruptions /\ call'.outcome = call.outcome
      BY <1>2, <2>0 DEF CallType
    <2>2. Members' = Members
      BY <1>1 DEF Members
    <2>3. SettleInv' /\ RowsInv'
      BY <1>1, <2>1, <2>2, HandlerState DEF SettleInv, RowsInv
    <2>4. PathInv' /\ DoneInv'
      BY <1>1, <2>1 DEF PathInv, DoneInv, Happy, Handling
    <2>5. TypeOK'
      BY <1>1, <2>1 DEF IInv, TypeOK, CallType
    <2> QED BY <2>3, <2>4, <2>5 DEF IInv
  <1>3. CASE call' = Settle("unsettled", call)
    BY <1>1, <1>3, GivenUpKeeps
  <1>4. CASE MayInterrupt /\ call' = Settle("interruption", Interrupted)
    BY <1>1, <1>4, GivenUpKeeps
  <1> QED BY <1>2, <1>3, <1>4 DEF ReloadRaises

\* Recording the failure of a running run: its code is the reason of the call.
LEMMA RowFailedHolds ==
    ASSUME CallAssumption, IInv, call.at = "record",
           UNCHANGED <<kind, stored>>, row' \in {row, RowFailed},
           call'.error = call.error, call'.interruptions >= call.interruptions,
           call'.interruptions \in Nat
    PROVE  /\ row' \in [1..Size -> Rows]
           /\ \A i \in Members : i # call.cur => row'[i] = row[i]
           /\ RowFailed[call.cur].status = "failed"
           /\ RowsInv'
  <1>1. call.at \in Handling /\ Members' = Members
    BY DEF Handling, Members
  <1>2. /\ row[call.cur] = Running
        /\ call.guard => call.interruptions > 0
        /\ ~call.guard => call.error \in Errors
        /\ call.interruptions \in Nat
    BY <1>1, HandlerState DEF SettleInv, CallType, CallAssumption
  <1>3. FailureCode \in Errors \cup {"interrupted"}
    BY <1>2 DEF FailureCode
  <1>4. RowFailed \in [1..Size -> Rows]
    BY <1>1, <1>3, HandlerState DEF RowFailed, Rows
  <1>5. /\ RowFailed[call.cur].status = "failed" /\ RowFailed[call.cur].output = FailureCode
        /\ \A i \in Members : i # call.cur => RowFailed[i] = row[i]
    BY <1>1, HandlerState, MembersAreRows DEF RowFailed, Failed
  <1>6. row' \in [1..Size -> Rows] /\ \A i \in Members : i # call.cur => row'[i] = row[i]
    BY <1>1, <1>4, <1>5, HandlerState
  <1>7. \A i \in Members : row[i].status # "succeeded"
    <2>1. row[call.cur].status # "succeeded" /\ call.cur \in Members
      BY <1>1, <1>2, HandlerState DEF Running
    <2> QED BY <1>1, <2>1, HandlerState DEF RowsInv
  <1>8. row'[call.cur] = row[call.cur] \/ row'[call.cur] = RowFailed[call.cur]
    OBVIOUS
  <1>9. row'[call.cur].status # "succeeded"
    BY <1>2, <1>5, <1>8 DEF Running
  <1>10. \A i \in Members : row'[i].status # "succeeded"
    BY <1>6, <1>7, <1>9
  <1>11. \A i \in Members : row'[i].status = "failed" =>
            \/ row'[i].output = call'.error
            \/ row'[i].output = "interrupted" /\ call'.interruptions > 0
    <2>1. SUFFICES ASSUME NEW i \in Members, row'[i].status = "failed"
                   PROVE  \/ row'[i].output = call'.error
                          \/ row'[i].output = "interrupted" /\ call'.interruptions > 0
      OBVIOUS
    <2>2. call.interruptions > 0 => call'.interruptions > 0
      BY <1>2
    <2>3. CASE row'[i] = row[i]
      BY <1>1, <2>1, <2>2, <2>3, HandlerState DEF RowsInv
    <2>4. CASE row'[i] # row[i]
      <3>1. i = call.cur /\ row'[i].output = FailureCode
        BY <1>5, <1>6, <1>8, <2>4
      <3> QED BY <1>2, <2>2, <3>1 DEF FailureCode
    <2> QED BY <2>3, <2>4
  <1> QED BY <1>1, <1>5, <1>6, <1>10, <1>11 DEF RowsInv

LEMMA RecordKeeps ==
    ASSUME CallAssumption, IInv, Record
    PROVE  IInv'
  <1>1. /\ call.at = "record" /\ call.at \in Handling /\ UNCHANGED <<kind, stored, life>>
        /\ row' = RowFailed /\ call' = Settle(Reraised("none", call), call)
    BY DEF Record, Handling
  <1>2. MaySettle(Reraised("none", call), call)
    BY <1>1, MaySettleReraised
  <1>3. Reraised("none", call) \in {"none", "interruption"}
    BY DEF Reraised
  <1>4. call \in CallType /\ call.interruptions \in Nat
    BY <1>1, HandlerState DEF CallType, CallAssumption
  <1>5. /\ \A i \in Members : i # call.cur => RowFailed[i] = row[i]
        /\ RowFailed[call.cur].status = "failed"
    BY <1>1, HandlerState, MembersAreRows DEF RowFailed, Failed
  <1>6. RowsSettled(Reraised("none", call), call, RowFailed)
    BY <1>1, <1>3, <1>5, RowsAreSettled
  <1>7. /\ call' \in CallType /\ call'.error = call.error
        /\ call'.interruptions = call.interruptions /\ PathInv' /\ SettleInv' /\ DoneInv'
    BY <1>1, <1>2, <1>6, SettleHolds
  <1>8. row' \in [1..Size -> Rows] /\ RowsInv'
    BY <1>1, <1>4, <1>7, RowFailedHolds
  <1>9. TypeOK'
    BY <1>1, <1>7, <1>8 DEF IInv, TypeOK, CallType
  <1> QED BY <1>7, <1>8, <1>9 DEF IInv

LEMMA RecordRaisesKeeps ==
    ASSUME CallAssumption, IInv, RecordRaises
    PROVE  IInv'
  <1>1. /\ call.at = "record" /\ call.at \in Handling /\ UNCHANGED <<kind, stored, life>>
        /\ row' \in {row, RowFailed}
    BY DEF RecordRaises, Handling
  <1> DEFINE again == [call EXCEPT !.at = "reload", !.gets = 0, !.tries = AfterFailedRecord]
  <1>2. /\ call.tries + 1 \in 0..Recording /\ life[call.cur].started
        /\ call.interruptions \in Nat /\ 0 \in 0..(Getting - 1)
    BY <1>1, HandlerState DEF SettleInv, CallType, CallAssumption
  <1>3. /\ again \in CallType /\ again.at = "reload" /\ again.cur = call.cur
        /\ again.error = call.error /\ again.guard = call.guard
        /\ again.pending = call.pending /\ again.first = call.first
        /\ again.interruptions = call.interruptions /\ again.outcome = call.outcome
    BY <1>1, <1>2, HandlerState DEF CallType, Places, AfterFailedRecord
  <1>4. \/ call' = again
        \/ MayInterrupt /\ call' = [again EXCEPT !.pending = TRUE, !.interruptions = @ + 1]
    BY DEF RecordRaises
  <1> HIDE DEF again
  <1>5. /\ call' \in CallType /\ call'.at = "reload" /\ call'.cur = call.cur
        /\ call'.error = call.error /\ call'.guard = call.guard
        /\ call'.first = call.first /\ call'.outcome = call.outcome
        /\ \/ call'.pending = call.pending /\ call'.interruptions = call.interruptions
           \/ call'.pending /\ call'.interruptions = call.interruptions + 1
    <2>1. CASE call' = again
      BY <1>3, <2>1
    <2>2. CASE MayInterrupt /\ call' = [again EXCEPT !.pending = TRUE, !.interruptions = @ + 1]
      <3>1. again.interruptions + 1 \in 0..MaxInterruptions
        BY <1>2, <1>3, <2>2 DEF MayInterrupt, CallAssumption
      <3>2. call' = [again EXCEPT !.pending = TRUE, !.interruptions = again.interruptions + 1]
        BY <1>3, <2>2
      <3>3. /\ call' \in CallType /\ call'.pending
            /\ call'.interruptions = again.interruptions + 1
            /\ call'.at = again.at /\ call'.cur = again.cur /\ call'.error = again.error
            /\ call'.guard = again.guard /\ call'.first = again.first
            /\ call'.outcome = again.outcome
        BY <1>3, <3>1, <3>2 DEF CallType
      <3> QED BY <1>3, <3>3
    <2> QED BY <1>4, <2>1, <2>2
  <1>6. Members' = Members
    BY <1>1 DEF Members
  <1>7. /\ row' \in [1..Size -> Rows] /\ RowsInv'
        /\ \A i \in Members : i # call.cur => row'[i] = row[i]
    BY <1>1, <1>2, <1>5, RowFailedHolds
  <1>8. call.first = "none" => \A i \in Members : i < call.cur => row'[i].status # "running"
    <2>1. \A i \in Members : i \in Int /\ call.cur \in Int
      BY <1>1, HandlerState, MembersAreRows
    <2> QED BY <1>1, <1>7, <2>1, HandlerState DEF SettleInv
  <1>9. SettleInv'
    BY <1>1, <1>2, <1>5, <1>6, <1>8, HandlerState DEF SettleInv
  <1>10. PathInv' /\ DoneInv'
    BY <1>5 DEF PathInv, DoneInv, Happy
  <1>11. TypeOK'
    BY <1>1, <1>5, <1>7 DEF IInv, TypeOK, CallType
  <1> QED BY <1>7, <1>9, <1>10, <1>11 DEF IInv

LEMMA RecoverKeeps ==
    ASSUME CallAssumption, IInv, Recover
    PROVE  IInv'
  <1>1. call.at = "recover" /\ call.at \in Handling /\ UNCHANGED <<kind, row, stored, life>>
    BY DEF Recover, Handling
  <1>2. CASE call' = Settle(Reraised("recovered", call), call)
    <2>1. MaySettle(Reraised("recovered", call), call)
      BY <1>1, MaySettleReraised
    <2>2. Reraised("recovered", call) \in {"recovered", "interruption"}
      BY DEF Reraised
    <2>3. RowsSettled(Reraised("recovered", call), call, row)
      <3>1. row[call.cur].status = "succeeded"
        BY <1>1, HandlerState DEF SettleInv
      <3> QED BY <1>1, <2>2, <3>1, RowsAreSettled
    <2>4. call.interruptions >= call.interruptions
      BY <1>1, HandlerState DEF CallType, CallAssumption
    <2>5. life' \in [1..Size -> [started : BOOLEAN, packet : Packets \cup {None}]]
      BY <1>1, HandlerState
    <2> QED BY <1>1, <1>2, <2>1, <2>3, <2>4, <2>5, SettleUnchanged
  <1>3. CASE call' = Settle("unsettled", call)
    BY <1>1, <1>3, GivenUpKeeps
  <1> QED BY <1>2, <1>3 DEF Recover

LEMMA RecoverRaisesKeeps ==
    ASSUME CallAssumption, IInv, RecoverRaises
    PROVE  IInv'
  BY GivenUpKeeps DEF RecoverRaises, Handling

LEMMA KillKeeps ==
    ASSUME CallAssumption, IInv, Kill
    PROVE  IInv'
  <1>1. call \in CallType /\ UNCHANGED <<kind, row, stored, life>> /\ Members' = Members
    BY DEF IInv, TypeOK, CallType, Kill, Members
  <1>2. /\ call' \in CallType /\ call'.at = "done" /\ call'.outcome = "killed"
        /\ call'.error = call.error /\ call'.interruptions = call.interruptions
    BY <1>1 DEF Kill, End, CallType, Places, Outcomes
  <1>3. PathInv' /\ SettleInv' /\ DoneInv'
    BY <1>2 DEF PathInv, SettleInv, DoneInv, Happy, Handling, EndedRunsAreTerminal
  <1>4. RowsInv'
    BY <1>1, <1>2 DEF IInv, RowsInv
  <1>5. TypeOK'
    BY <1>1, <1>2 DEF IInv, TypeOK, CallType
  <1> QED BY <1>3, <1>4, <1>5 DEF IInv

----------------------------------------------------------------------------
(* The theorems *)

LEMMA StepHolds ==
    ASSUME CallAssumption, IInv, [Next]_vars
    PROVE  IInv'
  <1>1. CASE Step
    BY <1>1, RequestKeeps, BeginKeeps, BeginRaisesKeeps, BuildKeeps, BuildRaisesKeeps,
       CompleteKeeps, CompleteRaisesKeeps, ReloadKeeps, ReloadRaisesKeeps,
       RecordKeeps, RecordRaisesKeeps, RecoverKeeps, RecoverRaisesKeeps
       DEF Step
  <1>2. CASE Kill
    BY <1>2, KillKeeps
  <1>3. CASE UNCHANGED vars
    BY <1>3 DEF vars, IInv, TypeOK, PathInv, SettleInv, RowsInv, DoneInv, Members,
                EndedRunsAreTerminal
  <1> QED BY <1>1, <1>2, <1>3 DEF Next

LEMMA AlwaysIInv ==
    ASSUME CallAssumption
    PROVE  Spec => []IInv
  <1>1. Init => IInv
    BY InitHolds
  <1>2. IInv /\ [Next]_vars => IInv'
    BY StepHolds
  <1> QED BY <1>1, <1>2, PTL DEF Spec

\* The state of a call keeps its types.
THEOREM CallTypeCorrect ==
    ASSUME CallAssumption
    PROVE  Spec => []TypeOK
  <1>1. IInv => TypeOK
    BY DEF IInv
  <1> QED BY <1>1, AlwaysIInv, PTL

\* Whatever raised and whenever, a call of any batch size that ends with a
\* result, an error of its own or one interruption leaves no run running.
THEOREM EndedRunsAreAlwaysTerminal ==
    ASSUME CallAssumption
    PROVE  Spec => []EndedRunsAreTerminal
  <1>1. IInv => EndedRunsAreTerminal
    <2>1. SUFFICES ASSUME IInv PROVE EndedRunsAreTerminal
      OBVIOUS
    <2>2. CASE call.at = "done"
      BY <2>1, <2>2 DEF IInv, DoneInv
    <2>3. CASE call.at # "done"
      <3>1. call.outcome = "none"
        BY <2>1, <2>3 DEF IInv, TypeOK, Places, PathInv, SettleInv, Happy, Handling
      <3> QED BY <3>1 DEF EndedRunsAreTerminal
    <2> QED BY <2>2, <2>3
  <1> QED BY <1>1, AlwaysIInv, PTL

\* What the caller is told is what the rows say, and runs succeed together, each
\* with the packet it should have.
THEOREM OutcomesAlwaysMatchRows ==
    ASSUME CallAssumption
    PROVE  Spec => []OutcomeMatchesRows
  <1>1. IInv => OutcomeMatchesRows
    <2>1. SUFFICES ASSUME IInv PROVE OutcomeMatchesRows
      OBVIOUS
    <2> DEFINE succeeded == {i \in Members : row[i].status = "succeeded"}
    <2>2. succeeded = {} \/ succeeded = Members
      BY <2>1 DEF IInv, RowsInv
    <2>3. \A i \in succeeded : row[i].output = i /\ i \in stored
      BY <2>1 DEF IInv, RowsInv
    <2>4. call.outcome # "none" => call.at = "done"
      BY <2>1 DEF IInv, TypeOK, Places, PathInv, SettleInv, Happy, Handling
    <2>5. call.outcome = "result" => succeeded = Members
      BY <2>1, <2>4 DEF IInv, DoneInv
    <2>6. call.outcome = "error" /\ kind # "batch" => succeeded = {}
      BY <2>1, <2>4 DEF IInv, DoneInv
    <2> QED BY <2>2, <2>3, <2>5, <2>6 DEF OutcomeMatchesRows
  <1> QED BY <1>1, AlwaysIInv, PTL

\* No interruption is turned into a result or into the error of the call, and
\* a failed run has the reason of its call.
THEOREM InterruptionsAreReported ==
    ASSUME CallAssumption
    PROVE  Spec => []InterruptionIsReported
  <1>1. IInv => InterruptionIsReported
    <2>1. SUFFICES ASSUME IInv PROVE InterruptionIsReported
      OBVIOUS
    <2>2. call.outcome # "none" => call.at = "done"
      BY <2>1 DEF IInv, TypeOK, Places, PathInv, SettleInv, Happy, Handling
    <2> QED BY <2>1, <2>2 DEF IInv, DoneInv, RowsInv, InterruptionIsReported
  <1> QED BY <1>1, AlwaysIInv, PTL
====
