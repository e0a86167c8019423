---- MODULE Outbox ----
(***************************************************************************)
(* Delivery of the transactional outbox: export_outbox of                  *)
(* persistence/repository.py appends every pending event_outbox row to     *)
(* events.jsonl, fsyncs it, and only then marks the row delivered, all     *)
(* under an flock on the file.  Exporters are threads or processes; they   *)
(* may be stopped between any two steps and the machine may lose power.    *)
(***************************************************************************)
EXTENDS Integers, Sequences

CONSTANTS
    Events,      \* the outbox rows that transactions of the Library insert
    Rank,        \* Event -> its place in (occurred_at, event_id) order
    Exporters,   \* threads or processes that call export_outbox
    Nobody,      \* the lock is free
    NoEvent,
    Faults,      \* subset of {"interrupt", "power"}
    MaxStops     \* bound: exports that end early and power losses

ASSUME OutboxAssumption ==
    /\ Rank \in [Events -> Nat]
    /\ Nobody \notin Exporters
    /\ NoEvent \notin Events
    /\ Faults \subseteq {"interrupt", "power"}
    /\ MaxStops \in Nat

VARIABLES
    rows,        \* event_outbox: absent, pending, delivered
    file,        \* the whole lines of events.jsonl
    tail,        \* the event whose partial line ends the file
    synced,      \* the lines known to be on the disk
    lock,        \* the exporter that holds the flock
    at,          \* where each exporter is in export_outbox
    known,       \* its dictionary of the event IDs in the file
    todo,        \* the pending rows it has listed and not finished
    event,       \* the row it is delivering
    stops        \* how many exports ended early

vars == <<rows, file, tail, synced, lock, at, known, todo, event, stops>>
disk == <<rows, file, tail, synced>>

Lines(f) == {f[i] : i \in DOMAIN f}
Pending == {e \in Events : rows[e] = "pending"}

Init ==
    /\ rows = [e \in Events |-> "absent"]
    /\ file = <<>> /\ tail = NoEvent /\ synced = 0
    /\ lock = Nobody
    /\ at = [x \in Exporters |-> "idle"]
    /\ known = [x \in Exporters |-> {}]
    /\ todo = [x \in Exporters |-> {}]
    /\ event = [x \in Exporters |-> NoEvent]
    /\ stops = 0

\* Some transaction of the Library commits a row; synchronous = FULL makes it
\* durable.
Commit(e) ==
    /\ rows[e] = "absent"
    /\ rows' = [rows EXCEPT ![e] = "pending"]
    /\ UNCHANGED <<file, tail, synced, lock, at, known, todo, event, stops>>

GoTo(x, place) == at' = [at EXCEPT ![x] = place]

\* Leaving the with block: the lock is released and the local state is gone.
Leave(x) ==
    /\ lock' = Nobody
    /\ GoTo(x, "idle")
    /\ known' = [known EXCEPT ![x] = {}]
    /\ todo' = [todo EXCEPT ![x] = {}]
    /\ event' = [event EXCEPT ![x] = NoEvent]

LockIsFree == lock = Nobody

\* Open events.jsonl and take the flock, waiting for it.
Acquire(x) ==
    /\ at[x] = "idle"
    /\ LockIsFree
    /\ lock' = x
    /\ GoTo(x, "read")
    /\ UNCHANGED <<rows, file, tail, synced, known, todo, event, stops>>

\* Read the whole file into the dictionary of known events.
ReadFile(x) ==
    /\ at[x] = "read"
    /\ tail = NoEvent
    /\ known' = [known EXCEPT ![x] = Lines(file)]
    /\ GoTo(x, "list")
    /\ UNCHANGED <<rows, file, tail, synced, lock, todo, event, stops>>

\* A file that ends in a partial line is refused, by this and every later call.
RefuseFile(x) ==
    /\ at[x] = "read"
    /\ tail # NoEvent
    /\ Leave(x)
    /\ UNCHANGED <<rows, file, tail, synced, stops>>

\* Broken variant: rows whose line is in the file are left out.
PendingNotInFile(x) == Pending \ known[x]

Listed(x) == Pending

\* The pending rows are read after the lock was taken, in one query.
ListPending(x) ==
    /\ at[x] = "list"
    /\ todo' = [todo EXCEPT ![x] = Listed(x)]
    /\ GoTo(x, "next")
    /\ UNCHANGED <<rows, file, tail, synced, lock, known, event, stops>>

\* Broken variant: the lines already in the file are not looked at.
AlwaysAppend(x, e) == "write"

\* A line that is there already is neither appended nor synced again.
AfterLookup(x, e) == IF e \in known[x] THEN "mark" ELSE "write"

\* Take the next listed row in delivery order.
Take(x) ==
    /\ at[x] = "next"
    /\ \E e \in todo[x] :
          /\ \A f \in todo[x] : Rank[e] <= Rank[f]
          /\ event' = [event EXCEPT ![x] = e]
          /\ todo' = [todo EXCEPT ![x] = @ \ {e}]
          /\ GoTo(x, AfterLookup(x, e))
    /\ UNCHANGED <<rows, file, tail, synced, lock, known, stops>>

\* os.write may stop short; the loop writes the rest.
WritePart(x) ==
    /\ at[x] = "write"
    /\ tail = NoEvent
    /\ tail' = event[x]
    /\ UNCHANGED <<rows, file, synced, lock, at, known, todo, event, stops>>

\* Broken variant: the row is marked before the line is synced.
MarkUnsynced == "mark"

AfterWrite == "sync"

WriteAll(x) ==
    /\ at[x] = "write"
    /\ file' = Append(file, event[x])
    /\ tail' = NoEvent
    /\ GoTo(x, AfterWrite)
    /\ UNCHANGED <<rows, synced, lock, known, todo, event, stops>>

\* fsync makes every line of the file durable, whoever wrote it.
Sync(x) ==
    /\ at[x] = "sync"
    /\ synced' = Len(file)
    /\ known' = [known EXCEPT ![x] = @ \cup {event[x]}]
    /\ GoTo(x, "mark")
    /\ UNCHANGED <<rows, file, tail, lock, todo, event, stops>>

\* UPDATE event_outbox SET delivered_at, in its own transaction.
Mark(x) ==
    /\ at[x] = "mark"
    /\ rows[event[x]] = "pending"
    /\ rows' = [rows EXCEPT ![event[x]] = "delivered"]
    /\ event' = [event EXCEPT ![x] = NoEvent]
    /\ GoTo(x, "next")
    /\ UNCHANGED <<file, tail, synced, lock, known, todo, stops>>

Finish(x) ==
    /\ at[x] = "next"
    /\ todo[x] = {}
    /\ Leave(x)
    /\ UNCHANGED <<rows, file, tail, synced, stops>>

\* The export ends early.  Outside _append_and_fsync_descriptor any error does
\* it: the after_append hook, a busy database, a row that is not pending any
\* more.  Inside, the process is killed or the system call fails.
Stop(x) ==
    /\ at[x] # "idle"
    /\ at[x] \in {"write", "sync"} => "interrupt" \in Faults
    /\ stops < MaxStops
    /\ stops' = stops + 1
    /\ Leave(x)
    /\ UNCHANGED disk

\* Everything not synced may be lost, down to a partial line.
PowerLoss ==
    /\ "power" \in Faults
    /\ stops < MaxStops
    /\ stops' = stops + 1
    /\ \E n \in synced..Len(file) :
          /\ file' = SubSeq(file, 1, n)
          /\ synced' = n
          /\ tail' \in {NoEvent} \cup (IF n = Len(file) THEN {tail} ELSE {file[n + 1]})
    /\ lock' = Nobody
    /\ at' = [x \in Exporters |-> "idle"]
    /\ known' = [x \in Exporters |-> {}]
    /\ todo' = [x \in Exporters |-> {}]
    /\ event' = [x \in Exporters |-> NoEvent]
    /\ UNCHANGED rows

Step(x) ==
    \/ ReadFile(x) \/ RefuseFile(x) \/ ListPending(x) \/ Take(x)
    \/ WriteAll(x) \/ Sync(x) \/ Mark(x) \/ Finish(x)

PoweredNext ==
    \/ \E e \in Events : Commit(e)
    \/ \E x \in Exporters : Acquire(x) \/ Step(x) \/ WritePart(x) \/ Stop(x)

Next == PoweredNext \/ PowerLoss

Spec == Init /\ [][Next]_vars

\* A running export makes progress, and somebody calls export_outbox again.
Fairness ==
    /\ \A x \in Exporters : WF_vars(Step(x))
    /\ WF_vars(\E x \in Exporters : Acquire(x))

\* The machine keeps its power; processes are interrupted.
FairSpec == Init /\ [][PoweredNext]_vars /\ Fairness

----------------------------------------------------------------------------
(* Correctness *)

Places == {"idle", "read", "list", "next", "write", "sync", "mark"}

TypeOK ==
    /\ rows \in [Events -> {"absent", "pending", "delivered"}]
    /\ file \in Seq(Events)
    /\ tail \in Events \cup {NoEvent}
    /\ synced \in 0..Len(file)
    /\ lock \in Exporters \cup {Nobody}
    /\ at \in [Exporters -> Places]
    /\ known \in [Exporters -> SUBSET Events]
    /\ todo \in [Exporters -> SUBSET Events]
    /\ event \in [Exporters -> Events \cup {NoEvent}]
    /\ \A x \in Exporters : event[x] = NoEvent <=> at[x] \in {"idle", "read", "list", "next"}
    /\ stops \in 0..MaxStops

\* "Append committed events once by ID": no event ID is on two lines, whoever
\* exported, was stopped and retried (a duplicate makes every later export fail).
OncePerEvent == \A i, j \in DOMAIN file : file[i] = file[j] => i = j

\* A row says delivered only if its line is in the file, after any stop, retry
\* or loss of power.
DeliveredIsInFile ==
    \A e \in Events : rows[e] = "delivered" => e \in Lines(file)

\* The row an exporter is about to write or mark is still pending: the error
\* "outbox row changed during delivery" is never raised by another exporter.
NobodyElseDelivers ==
    \A x \in Exporters : event[x] # NoEvent => rows[event[x]] = "pending"

\* Every committed event is delivered at last, unless a stop inside a write
\* left a partial line; then no export succeeds again.
EventuallyDelivered ==
    \A e \in Events : rows[e] = "pending" ~> (rows[e] = "delivered" \/ tail # NoEvent)

\* The outbox implements the log its readers were promised.
Log == INSTANCE EventLog WITH
    committed <- {e \in Events : rows[e] # "absent"},
    published <- file,
    delivered <- {e \in Events : rows[e] = "delivered"}

ImplementsLog == Log!LogSpec
====
