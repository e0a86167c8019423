---- MODULE RecallRun ----
(***************************************************************************)
(* The lifecycle of one RecallService call (recall/service.py): recall,    *)
(* replay, or a batch of recalls in one scope.  The call persists its      *)
(* requests, begins one ProcessingRun for each, builds the packets and     *)
(* completes the runs in one transaction.  Every store call may raise      *)
(* before or after its commit, and an interruption (KeyboardInterrupt,     *)
(* cancellation) may arrive in any of them, those of the error handlers    *)
(* included; the handlers settle the call against what the rows say.       *)
(*                                                                         *)
(* The rows belong to this call alone: their IDs are fresh random values.  *)
(* RecallStore models what the completion writes and verifies.             *)
(***************************************************************************)
EXTENDS Integers

CONSTANTS
    Size,              \* the requests of a batch
    Getting,           \* attempts of _reload_lifecycle
    Recording,         \* attempts of _record_failed_run
    MaxInterruptions   \* bound: interruptions of one call

ASSUME CallAssumption ==
    /\ Size \in Nat \ {0, 1}
    /\ Getting \in Nat \ {0}
    /\ Recording \in Nat \ {0}
    /\ MaxInterruptions \in Nat

VARIABLES
    kind,        \* which call: recall, replay or batch
    row,         \* the processing_runs rows of the call
    stored,      \* the packets in evidence_packets
    life,        \* the _RecallLifecycle objects: started, packet
    call         \* where the call is

vars == <<kind, row, stored, life, call>>

Members == 1..(IF kind = "batch" THEN Size ELSE 1)

\* Run i should produce packet i (a replay: the original); 0 is another packet.
Wrong == 0
None == -1
Packets == 0..Size

Errors == {"persistence", "execution", "mismatch"}
Absent == [status |-> "absent", output |-> "none"]
Running == [status |-> "running", output |-> "none"]
Failed(code) == [status |-> "failed", output |-> code]
Succeeded(p) == [status |-> "succeeded", output |-> p]

Init ==
    /\ kind \in {"recall", "replay", "batch"}
    /\ row = [i \in 1..Size |-> Absent]
    /\ stored = IF kind = "replay" THEN {1} ELSE {}
    /\ life = [i \in 1..Size |-> [started |-> FALSE, packet |-> None]]
    /\ call = [at            |-> "request",
               cur           |-> 1,        \* the run it is working on
               error         |-> "none",   \* the typed error being handled
               guard         |-> FALSE,    \* in the outer guard for interruptions
               gets          |-> 0,        \* failed reloads of the current run
               tries         |-> 0,        \* failed attempts to record the failure
               pending       |-> FALSE,    \* an interruption held back by them
               first         |-> "none",   \* first reconciliation failure of a batch
               interruptions |-> 0,
               outcome       |-> "none"]

----------------------------------------------------------------------------
(* Leaving the happy path *)

End(outcome) == [call EXCEPT !.at = "done", !.outcome = outcome]

\* Start to settle run i.
Settling(c, i) ==
    [c EXCEPT !.at = "reload", !.cur = i, !.gets = 0, !.tries = 0, !.pending = FALSE]

\* except Exception: settle every run, then raise the typed error.
Handle(error) == Settling([call EXCEPT !.error = error], 1)

\* except BaseException: settle every run, then raise the interruption.
Guard(c) == Settling([c EXCEPT !.guard = TRUE, !.first = "none"], 1)

Interrupted == [call EXCEPT !.interruptions = @ + 1]
MayInterrupt == call.interruptions < MaxInterruptions

\* A step of the call raises.
Raises(error) ==
    \/ call' = Handle(error)
    \/ MayInterrupt /\ call' = Guard(Interrupted)

\* How a call ends whose runs are all settled without a failure.  Only a single
\* call hands a recovered success to its caller; a batch raises its error.
SettledOutcome(result, c) ==
    CASE c.guard -> "interrupted"
      [] ~c.guard /\ result = "recovered" /\ kind # "batch" -> "result"
      [] OTHER -> "error"

\* The last run is settled: the first failure is raised, and an interruption
\* raised by the ordinary handler enters the guard.
Conclude(result, c) ==
    CASE c.first = "none" ->
            [c EXCEPT !.at = "done", !.outcome = SettledOutcome(result, c)]
      [] c.first = "unsettled" ->
            [c EXCEPT !.at = "done", !.outcome = "unsettled"]
      [] c.first = "interruption" ->
            IF c.guard THEN [c EXCEPT !.at = "done", !.outcome = "interrupted"]
            ELSE Guard(c)

\* One run is settled: recovered, nothing to do, or a failure to settle it.
Settle(result, c) ==
    LET d == [c EXCEPT !.first = IF @ = "none" /\ result \in {"unsettled", "interruption"}
                                 THEN result ELSE @]
    IN IF c.cur + 1 \in Members THEN Settling(d, c.cur + 1) ELSE Conclude(result, d)

\* Broken variant: an interruption during the recording is dropped.
NotReraised(result, c) == result

\* An interruption that arrived while the failure was recorded is raised after
\* it, unless the guard is about to raise one anyway.
Reraised(result, c) == IF c.pending /\ ~c.guard THEN "interruption" ELSE result

----------------------------------------------------------------------------
(* The call *)

\* persist_query_request and its reload come before any run exists.
PersistRequests ==
    /\ call.at = "request"
    /\ \/ call' = [call EXCEPT !.at = "begin"]
       \/ call' = [End("error") EXCEPT !.error = "persistence"]
       \/ MayInterrupt /\ call' = [End("interrupted") EXCEPT !.interruptions = @ + 1]
    /\ UNCHANGED <<kind, row, stored, life>>

NextRun(place) ==
    IF call.cur + 1 \in Members THEN [call EXCEPT !.cur = @ + 1]
                                ELSE [call EXCEPT !.cur = 1, !.at = place]

\* begin_recall_run inserts the row and its event, commits, and reads it back.
Begin ==
    /\ call.at = "begin"
    /\ row' = [row EXCEPT ![call.cur] = Running]
    /\ life' = [life EXCEPT ![call.cur].started = TRUE]
    /\ call' = NextRun("build")
    /\ UNCHANGED <<kind, stored>>

\* It raises, and nobody knows whether the row is there.
BeginRaises ==
    /\ call.at = "begin"
    /\ row' \in {row, [row EXCEPT ![call.cur] = Running]}
    /\ Raises("persistence")
    /\ UNCHANGED <<kind, stored, life>>

\* Authorize, read, search and assemble; a replay may find something else.
Built == IF kind = "replay" THEN {call.cur, Wrong} ELSE {call.cur}

Reproduces(p) == kind = "replay" => p = call.cur

\* The lifecycle has its packet before a replay compares it.
Build ==
    /\ call.at = "build"
    /\ \E p \in Built :
          /\ life' = [life EXCEPT ![call.cur].packet = p]
          /\ IF Reproduces(p) THEN call' = NextRun("complete")
                              ELSE call' = Handle("mismatch")
    /\ UNCHANGED <<kind, row, stored>>

BuildRaises ==
    /\ call.at = "build"
    /\ Raises("execution")
    /\ UNCHANGED <<kind, row, stored, life>>

\* Broken variant: a batch completes its runs one transaction at a time.
AnyPrefix == {1..n : n \in Members}

\* The runs that one transaction completes: all of them.
Completed == {Members}

Commit ==
    \E done \in Completed :
        /\ row' = [i \in DOMAIN row |-> IF i \in done THEN Succeeded(life[i].packet) ELSE row[i]]
        /\ stored' = stored \cup {life[i].packet : i \in done}

Complete ==
    /\ call.at = "complete"
    /\ Commit
    /\ call' = End("result")
    /\ UNCHANGED <<kind, life>>

\* It raises before its commit, or after it.
CompleteRaises ==
    /\ call.at = "complete"
    /\ Commit \/ UNCHANGED <<row, stored>>
    /\ Raises("persistence")
    /\ UNCHANGED <<kind, life>>

----------------------------------------------------------------------------
(* Settling a run against the rows *)

Current == row[call.cur]

\* Broken variant: a run whose start raised is taken for one that never began.
NeverStarted == ~life[call.cur].started

Missing == Current.status = "absent" /\ ~life[call.cur].started

\* get_processing_run finds the row and _settle_failed_lifecycle decides.  A
\* run whose start was ambiguous is adopted.
Reload ==
    /\ call.at = "reload"
    /\ IF Missing
       THEN call' = Settle("none", call) /\ UNCHANGED life
       ELSE /\ life' = [life EXCEPT ![call.cur].started = TRUE]
            /\ call' = CASE Current.status = "succeeded" -> [call EXCEPT !.at = "recover"]
                         [] Current.status = "failed" -> Settle(Reraised("none", call), call)
                         [] Current.status = "running" /\ call.tries < Recording ->
                                [call EXCEPT !.at = "record"]
                         [] OTHER -> Settle("unsettled", call)
    /\ UNCHANGED <<kind, row, stored>>

ReloadRaises ==
    /\ call.at = "reload"
    /\ \/ call' = IF call.gets + 1 < Getting THEN [call EXCEPT !.gets = @ + 1]
                                             ELSE Settle("unsettled", call)
       \/ MayInterrupt /\ call' = Settle("interruption", Interrupted)
    /\ UNCHANGED <<kind, row, stored, life>>

FailureCode == IF call.guard THEN "interrupted" ELSE call.error
RowFailed == [row EXCEPT ![call.cur] = Failed(FailureCode)]

\* Broken variant: the attempts to record a failure are not counted.
RetryForEver == call.tries

AfterFailedRecord == call.tries + 1

\* fail_recall_run
Record ==
    /\ call.at = "record"
    /\ row' = RowFailed
    /\ call' = Settle(Reraised("none", call), call)
    /\ UNCHANGED <<kind, stored, life>>

\* It raises before or after its commit: reload and try again.
RecordRaises ==
    /\ call.at = "record"
    /\ row' \in {row, RowFailed}
    /\ LET again == [call EXCEPT !.at = "reload", !.gets = 0, !.tries = AfterFailedRecord]
       IN \/ call' = again
          \/ /\ MayInterrupt
             /\ call' = [again EXCEPT !.pending = TRUE, !.interruptions = @ + 1]
    /\ UNCHANGED <<kind, stored, life>>

\* A success was committed: it stands only if it is the packet of this call
\* and the packet can be read back.
Recover ==
    /\ call.at = "recover"
    /\ LET packet == life[call.cur].packet
       IN IF packet = Current.output /\ packet \in stored
          THEN call' = Settle(Reraised("recovered", call), call)
          ELSE call' = Settle("unsettled", call)
    /\ UNCHANGED <<kind, row, stored, life>>

RecoverRaises ==
    /\ call.at = "recover"
    /\ \/ call' = Settle("unsettled", call)
       \/ MayInterrupt /\ call' = Settle("interruption", Interrupted)
    /\ UNCHANGED <<kind, row, stored, life>>

\* The process dies; nothing settles the rows of a dead process.
Kill ==
    /\ call.at # "done"
    /\ call' = End("killed")
    /\ UNCHANGED <<kind, row, stored, life>>

Step ==
    \/ PersistRequests \/ Begin \/ BeginRaises \/ Build \/ BuildRaises
    \/ Complete \/ CompleteRaises \/ Reload \/ ReloadRaises
    \/ Record \/ RecordRaises \/ Recover \/ RecoverRaises

Next == Step \/ Kill

Spec == Init /\ [][Next]_vars

\* A running call takes its next step; nothing makes the store calls succeed.
FairSpec == Spec /\ WF_vars(Step)

----------------------------------------------------------------------------
(* Correctness *)

Places == {"request", "begin", "build", "complete", "reload", "record", "recover", "done"}
Outcomes == {"none", "result", "error", "unsettled", "interrupted", "killed"}
Rows == {Absent, Running} \cup {Failed(code) : code \in Errors \cup {"interrupted"}}
            \cup {Succeeded(p) : p \in Packets}

TypeOK ==
    /\ kind \in {"recall", "replay", "batch"}
    /\ row \in [1..Size -> Rows]
    /\ stored \subseteq Packets
    /\ life \in [1..Size -> [started : BOOLEAN, packet : Packets \cup {None}]]
    /\ call \in [at : Places, cur : 1..Size, error : Errors \cup {"none"}, guard : BOOLEAN,
                 gets : 0..(Getting - 1), tries : 0..Recording, pending : BOOLEAN,
                 first : {"none", "unsettled", "interruption"},
                 interruptions : 0..MaxInterruptions, outcome : Outcomes]

\* A call that ends with its result, with its own error, or interrupted once,
\* leaves no run in state running, whichever of its store calls raised and
\* whether or not they had committed.
EndedRunsAreTerminal ==
    \/ call.outcome \in {"result", "error"}
    \/ call.outcome = "interrupted" /\ call.interruptions = 1
    => \A i \in Members : row[i].status # "running"

\* What the caller is told is what the rows say.  A result means every run
\* succeeded; the error of a single call means that its run did not.  A run
\* that succeeded has the packet it should have, readable, and a batch
\* succeeds as a whole.
OutcomeMatchesRows ==
    LET succeeded == {i \in Members : row[i].status = "succeeded"}
    IN /\ call.outcome = "result" => succeeded = Members
       /\ call.outcome = "error" /\ kind # "batch" => succeeded = {}
       /\ succeeded \in {{}, Members}
       /\ \A i \in succeeded : row[i].output = i /\ i \in stored

\* An interruption is never turned into a result or into the error of the call -
\* only the failure to settle the rows may hide it - and a run is recorded as
\* interrupted only if one arrived; otherwise it failed with the error raised.
InterruptionIsReported ==
    /\ call.interruptions > 0 => call.outcome \notin {"result", "error"}
    /\ \A i \in Members : row[i].status = "failed" =>
          \/ row[i].output = call.error
          \/ row[i].output = "interrupted" /\ call.interruptions > 0

\* Every call ends, even if every store call raises for ever: the attempts of
\* the handlers are bounded.
CallEnds == <>(call.outcome # "none")
====
