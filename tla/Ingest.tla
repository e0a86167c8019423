---- MODULE Ingest ----
(***************************************************************************)
(* Ingest runs (ingest/service.py): ingest_collection discovers the files  *)
(* of each root, takes the lock of one file's canonical URI, captures its  *)
(* bytes, reuses or parses them, checks that the file has not changed,     *)
(* promotes the blob, records the version and, at the end, completes the   *)
(* run with a CoverageReport of one outcome for every input.               *)
(*                                                                         *)
(* Runs are concurrent threads or processes; users edit the files          *)
(* meanwhile, calls fail and processes are killed.  Lineage and events are *)
(* Provenance's, the steps inside promote are BlobStore's.                 *)
(***************************************************************************)
EXTENDS Integers, Sequences

CONSTANTS
    Files,         \* canonical URIs
    Roots,
    RootOrder,     \* the Collection's roots in order; they may be nested
    FilesUnder,    \* Root -> the sequence of its possible files, sorted
    Contents,
    Missing,       \* what a generation leaves that is not a readable file
    ContentOf,     \* File -> generation -> the bytes the user leaves there
    Parses,        \* the contents whose parse is PROCESSED
    Runs,
    Nobody,        \* the lock is free
    WholeRoot,     \* relative_path is None
    MaxEdits,      \* bound: edits of one file
    MaxFaults      \* bound: calls that raise and processes that are killed

NoRepeats(list) == \A i, j \in DOMAIN list : list[i] = list[j] => i = j

ASSUME IngestAssumption ==
    /\ RootOrder \in Seq(Roots) /\ NoRepeats(RootOrder)
    /\ FilesUnder \in [Roots -> Seq(Files)]
    /\ \A root \in Roots : NoRepeats(FilesUnder[root])
    /\ Parses \subseteq Contents
    /\ Missing \notin Contents
    /\ ContentOf \in [Files -> [1..MaxEdits -> Contents \cup {Missing}]]
    /\ Nobody \notin Runs
    /\ WholeRoot \notin Files
    /\ MaxEdits \in Nat \ {0}
    /\ MaxFaults \in Nat

VARIABLES
    disk,          \* File -> generation: counts what the user did to it
    head,          \* File -> the generation whose bytes are current, 0 if none
    blobs,         \* contents in the blob store
    lock,          \* File -> holder of its "sources" lock
    status,        \* processing_runs.status
    report,        \* the outcomes in the run's CoverageReport
    at,            \* where each run is
    left,          \* the roots it has not discovered yet
    todo,          \* the positions, in the root it is at, of the inputs not begun
    input,         \* current_root_id and current_relative_path
    captured,      \* the generation it has read
    outcomes,      \* its list of outcomes
    found,         \* history: every input it discovered
    wrote,         \* history: every input it committed a transaction for
    faults

vars == <<disk, head, blobs, lock, status, report, at, left, todo, input,
          captured, outcomes, found, wrote, faults>>
store == <<head, blobs>>
run == <<status, report>>
plan == <<left, todo, found>>

Input(r, f) == [root |-> r, path |-> f]
Outcome(i, result) == [input |-> i, result |-> result]

Init ==
    /\ disk = [f \in Files |-> 1]
    /\ head = [f \in Files |-> 0]
    /\ blobs = {}
    /\ lock = [f \in Files |-> Nobody]
    /\ status = [r \in Runs |-> "none"]
    /\ report = [r \in Runs |-> <<>>]
    /\ at = [r \in Runs |-> "start"]
    /\ left = [r \in Runs |-> <<>>]
    /\ todo = [r \in Runs |-> {}]
    /\ input = [r \in Runs |-> Input("root_none", WholeRoot)]
    /\ captured = [r \in Runs |-> 0]
    /\ outcomes = [r \in Runs |-> <<>>]
    /\ found = [r \in Runs |-> {}]
    /\ wrote = [r \in Runs |-> {}]
    /\ faults = 0

GoTo(r, place) == at' = [at EXCEPT ![r] = place]

\* The user writes, replaces or removes a file.
Edit(f) ==
    /\ disk[f] < MaxEdits
    /\ disk' = [disk EXCEPT ![f] = @ + 1]
    /\ UNCHANGED <<store, lock, run, at, plan, input, captured, outcomes, wrote, faults>>

----------------------------------------------------------------------------
(* ingest_collection *)

\* begin_ingest_run commits the row of the run.
Begin(r) ==
    /\ at[r] = "start"
    /\ status' = [status EXCEPT ![r] = "running"]
    /\ left' = [left EXCEPT ![r] = RootOrder]
    /\ GoTo(r, "next")
    /\ UNCHANGED <<disk, store, lock, report, todo, input, captured, outcomes, found, wrote, faults>>

Present(f) == ContentOf[f][disk[f]] # Missing

\* discover_source_paths of the next root: its files in their sorted order.
Discover(r) ==
    /\ at[r] = "next" /\ todo[r] = {} /\ left[r] # <<>>
    /\ LET root == left[r][1]
           there == {i \in DOMAIN FilesUnder[root] : Present(FilesUnder[root][i])}
       IN /\ todo' = [todo EXCEPT ![r] = there]
          /\ found' = [found EXCEPT ![r] = @ \cup {Input(root, FilesUnder[root][i]) : i \in there}]
          /\ input' = [input EXCEPT ![r] = Input(root, WholeRoot)]
    /\ left' = [left EXCEPT ![r] = Tail(@)]
    /\ UNCHANGED <<disk, store, lock, run, at, captured, outcomes, wrote, faults>>

\* The root cannot be scanned: one failed outcome for all of it, and on.
DiscoverFails(r) ==
    /\ at[r] = "next" /\ todo[r] = {} /\ left[r] # <<>>
    /\ faults < MaxFaults
    /\ faults' = faults + 1
    /\ input' = [input EXCEPT ![r] = Input(left[r][1], WholeRoot)]
    /\ outcomes' = [outcomes EXCEPT ![r] =
                       Append(@, Outcome(Input(left[r][1], WholeRoot), "failed"))]
    /\ left' = [left EXCEPT ![r] = Tail(@)]
    /\ UNCHANGED <<disk, store, lock, run, at, todo, captured, found, wrote>>

\* Broken variant: the lock of the canonical URI is not waited for.
NotWaitedFor(f) == TRUE

LockIsFree(f) == lock[f] = Nobody

IsFirst(i, positions) == i \in positions /\ \A j \in positions : i <= j

At(r, i) == Input(input[r].root, FilesUnder[input[r].root][i])

TakeLock(r) ==
    /\ at[r] = "next"
    /\ \E i \in todo[r] :
          /\ IsFirst(i, todo[r])
          /\ LockIsFree(At(r, i).path)
          /\ lock' = [lock EXCEPT ![At(r, i).path] = r]
          /\ input' = [input EXCEPT ![r] = At(r, i)]
          /\ todo' = [todo EXCEPT ![r] = @ \ {i}]
    /\ GoTo(r, "locked")
    /\ UNCHANGED <<disk, store, run, left, captured, outcomes, found, wrote, faults>>

\* Broken variant: an input that ends without a version keeps its lock.
KeptUnlessProcessed(r, result) ==
    IF result = "processed" THEN [f \in Files |-> IF lock[f] = r THEN Nobody ELSE lock[f]]
    ELSE lock

Released(r, result) == [f \in Files |-> IF lock[f] = r THEN Nobody ELSE lock[f]]

Reported(r, result) == Append(outcomes[r], Outcome(input[r], result))

\* _ingest_one returns: the lock is released and the outcome appended.
Return(r, result) ==
    /\ lock' = Released(r, result)
    /\ outcomes' = [outcomes EXCEPT ![r] = Reported(r, result)]
    /\ captured' = [captured EXCEPT ![r] = 0]
    /\ GoTo(r, "next")

Path(r) == input[r].path
Captured(r) == ContentOf[Path(r)][captured[r]]

\* The file cannot be captured: it is gone, not regular, too large, ...
Reject(r) ==
    /\ at[r] = "locked"
    /\ ~Present(Path(r))
    /\ Return(r, "failed")
    /\ UNCHANGED <<disk, store, run, plan, input, wrote, faults>>

\* One consistent read: a file that changes under it is refused.
Capture(r) ==
    /\ at[r] = "locked"
    /\ Present(Path(r))
    /\ captured' = [captured EXCEPT ![r] = disk[Path(r)]]
    /\ GoTo(r, "captured")
    /\ UNCHANGED <<disk, store, lock, run, plan, input, outcomes, wrote, faults>>

\* The bytes are those of the head, and its blob verifies.
IsCurrent(r) ==
    /\ head[Path(r)] # 0
    /\ ContentOf[Path(r)][head[Path(r)]] = Captured(r)
    /\ Captured(r) \in blobs

\* find_reusable_unchanged_source, outside any transaction.
FindReusable(r) ==
    /\ at[r] = "captured"
    /\ GoTo(r, IF IsCurrent(r) THEN "reuse" ELSE "parse")
    /\ UNCHANGED <<disk, store, lock, run, plan, input, captured, outcomes, wrote, faults>>

\* validate_source_unchanged: same inode, size, time and bytes as captured.
Unchanged(r) == disk[Path(r)] = captured[r]

Reuse(r) ==
    /\ at[r] = "reuse"
    /\ Unchanged(r)
    /\ Return(r, "processed")
    /\ UNCHANGED <<disk, store, run, plan, input, wrote, faults>>

\* parse_source did not yield fragments: SKIPPED or FAILED.
NotParsed(r) ==
    /\ at[r] = "parse"
    /\ Unchanged(r)
    /\ Captured(r) \notin Parses
    /\ Return(r, "failed")
    /\ UNCHANGED <<disk, store, run, plan, input, wrote, faults>>

Changed(r) ==
    /\ at[r] \in {"reuse", "parse"}
    /\ ~Unchanged(r)
    /\ Return(r, "failed")
    /\ UNCHANGED <<disk, store, run, plan, input, wrote, faults>>

\* Parsed: the blob is promoted before any row names it.
Promote(r) ==
    /\ at[r] = "parse"
    /\ Unchanged(r)
    /\ Captured(r) \in Parses
    /\ blobs' = blobs \cup {Captured(r)}
    /\ GoTo(r, "record")
    /\ UNCHANGED <<disk, head, lock, run, plan, input, captured, outcomes, wrote, faults>>

\* record_processed_source, one transaction: these bytes are current now.
Record(r) ==
    /\ at[r] = "record"
    /\ head' = [head EXCEPT ![Path(r)] = captured[r]]
    /\ wrote' = [wrote EXCEPT ![r] = @ \cup {input[r]}]
    /\ Return(r, "processed")
    /\ UNCHANGED <<disk, blobs, run, plan, input, faults>>

\* complete_ingest_run: the report and the status commit together.
Succeed(r) ==
    /\ at[r] = "next" /\ todo[r] = {} /\ left[r] = <<>>
    /\ status[r] = "running"
    /\ status' = [status EXCEPT ![r] = "succeeded"]
    /\ report' = [report EXCEPT ![r] = outcomes[r]]
    /\ GoTo(r, "completed")
    /\ UNCHANGED <<disk, store, lock, plan, input, captured, outcomes, wrote, faults>>

\* The completed run and its report are loaded and returned.
End(r) ==
    /\ at[r] = "completed"
    /\ GoTo(r, "done")
    /\ UNCHANGED <<disk, store, lock, run, plan, input, captured, outcomes, wrote, faults>>

----------------------------------------------------------------------------
(* Failures *)

\* The input an exception is charged to, in a set of its own.
Charged(r) ==
    IF at[r] = "next" /\ todo[r] # {}
    THEN {At(r, i) : i \in {k \in todo[r] : IsFirst(k, todo[r])}}
    ELSE {IF at[r] = "next" /\ left[r] # <<>> THEN Input(left[r][1], WholeRoot) ELSE input[r]}

\* Broken variant: the failure takes the place of whatever was reported last.
LastReplaced(list, o) ==
    IF list = <<>> THEN <<o>> ELSE [list EXCEPT ![Len(list)] = o]

\* _replace_or_append_outcome.
ReplacedOrAppended(list, o) ==
    IF list # <<>> /\ list[Len(list)].input = o.input
    THEN [list EXCEPT ![Len(list)] = o]
    ELSE Append(list, o)

\* Any error that is no IngestError: the database is busy, the lineage is
\* refused, a blob does not verify.  The rest of the run is given up.
Raise(r) ==
    /\ at[r] \notin {"start", "failing", "done", "lost"}
    /\ faults < MaxFaults
    /\ faults' = faults + 1
    /\ \E c \in Charged(r) :
          outcomes' = [outcomes EXCEPT ![r] =
                          ReplacedOrAppended(@, Outcome(c, "infrastructure"))]
    /\ lock' = Released(r, "processed")
    /\ captured' = [captured EXCEPT ![r] = 0]
    /\ left' = [left EXCEPT ![r] = <<>>]
    /\ todo' = [todo EXCEPT ![r] = {}]
    /\ GoTo(r, "failing")
    /\ UNCHANGED <<disk, store, run, input, found, wrote>>

\* _validate_ingest_run_outcomes accepts the receipt of a failed run.
HasInfrastructureFailure(r) ==
    \E i \in DOMAIN outcomes[r] : outcomes[r][i].result = "infrastructure"

FailRun(r) ==
    /\ at[r] = "failing"
    /\ status[r] = "running"
    /\ HasInfrastructureFailure(r)
    /\ status' = [status EXCEPT ![r] = "failed"]
    /\ report' = [report EXCEPT ![r] = outcomes[r]]
    /\ GoTo(r, "done")
    /\ UNCHANGED <<disk, store, lock, plan, input, captured, outcomes, wrote, faults>>

\* The receipt is not persisted either: the run is terminal already, or the
\* second completion fails as well and the row says running for ever.
GiveUp(r) ==
    /\ at[r] = "failing"
    /\ \/ status[r] # "running" /\ faults' = faults
       \/ faults < MaxFaults /\ faults' = faults + 1
    /\ GoTo(r, "lost")
    /\ UNCHANGED <<disk, store, lock, run, plan, input, captured, outcomes, wrote>>

\* The process is killed; the operating system releases its lock.
Kill(r) ==
    /\ at[r] \notin {"start", "done", "lost"}
    /\ faults < MaxFaults
    /\ faults' = faults + 1
    /\ lock' = Released(r, "processed")
    /\ GoTo(r, "lost")
    /\ UNCHANGED <<disk, store, run, plan, input, captured, outcomes, wrote>>

----------------------------------------------------------------------------

Step(r) ==
    \/ Discover(r) \/ TakeLock(r) \/ Reject(r) \/ Capture(r) \/ FindReusable(r)
    \/ Reuse(r) \/ NotParsed(r) \/ Changed(r) \/ Promote(r) \/ Record(r)
    \/ Succeed(r) \/ End(r) \/ FailRun(r) \/ GiveUp(r)

Next ==
    \/ \E f \in Files : Edit(f)
    \/ \E r \in Runs : Begin(r) \/ Step(r) \/ DiscoverFails(r) \/ Raise(r) \/ Kill(r)

Spec == Init /\ [][Next]_vars

\* A run that is not interrupted takes its next step; flock serves its waiters.
Fairness == \A r \in Runs : WF_vars(Step(r))

FairSpec == Spec /\ Fairness

----------------------------------------------------------------------------
(* Correctness *)

Places == {"start", "next", "locked", "captured", "reuse", "parse", "record",
           "completed", "failing", "done", "lost"}
Working == {"locked", "captured", "reuse", "parse", "record"}
Results == {"processed", "failed", "infrastructure"}

\* The types, and the lock discipline: a run holds the lock of the input it
\* is at and no other lock.
TypeOK ==
    /\ disk \in [Files -> 1..MaxEdits]
    /\ head \in [Files -> 0..MaxEdits]
    /\ blobs \subseteq Parses
    /\ lock \in [Files -> Runs \cup {Nobody}]
    /\ status \in [Runs -> {"none", "running", "succeeded", "failed"}]
    /\ at \in [Runs -> Places]
    /\ left \in [Runs -> Seq(Roots)]
    /\ input \in [Runs -> [root : Roots \cup {"root_none"}, path : Files \cup {WholeRoot}]]
    /\ captured \in [Runs -> 0..MaxEdits]
    /\ \A r \in Runs :
          /\ {f \in Files : lock[f] = r} =
                IF at[r] \in Working THEN {Path(r)} ELSE {}
          /\ todo[r] # {} => /\ input[r].root \in Roots
                             /\ todo[r] \subseteq DOMAIN FilesUnder[input[r].root]
    /\ faults \in 0..MaxFaults

\* The bytes a run records are never older than the bytes that were current:
\* the lock is held from the capture to the commit, so a run that was overtaken
\* by the user's edit and by another run cannot put the old text back.
HeadNeverGoesBack == [][\A f \in Files : head'[f] >= head[f]]_vars

InputsOf(list) == {list[i].input : i \in DOMAIN list}

\* Every input of a report has exactly one terminal classification, with roots
\* that contain one another, failed scans and completions that failed once.
OneOutcomePerInput ==
    \A r \in Runs : \A i, j \in DOMAIN report[r] :
        report[r][i].input = report[r][j].input => i = j

\* A succeeded run accounts for every file it discovered, and claims no
\* infrastructure failure.
SucceededIsComplete ==
    \A r \in Runs : status[r] = "succeeded" =>
        /\ found[r] \subseteq InputsOf(report[r])
        /\ \A i \in DOMAIN report[r] : report[r][i].result # "infrastructure"

\* What a run committed is in its report: as processed, or, once, as the input
\* that the failure of the run is charged to.
CommittedIsReported ==
    \A r \in Runs : status[r] \in {"succeeded", "failed"} =>
        \A i \in wrote[r] : \E n \in DOMAIN report[r] :
            /\ report[r][n].input = i
            /\ \/ report[r][n].result = "processed"
               \/ report[r][n].result = "infrastructure" /\ n = Len(report[r])

\* A report that a run leaves behind is complete, single and true.
ReportsAreTrue == OneOutcomePerInput /\ SucceededIsComplete /\ CommittedIsReported

\* A run that is not killed, and whose failure receipt is not lost, ends: no run
\* waits for ever for a lock, not even for one of its own.
RunsEnd ==
    \A r \in Runs : status[r] = "running" ~> (status[r] # "running" \/ at[r] = "lost")
====
