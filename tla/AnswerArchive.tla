---- MODULE AnswerArchive ----
(***************************************************************************)
(* The append-only store of answer projections, role receipts, idea traces *)
(* and closures (persistence/answer_projection.py and reasoning.py).       *)
(* A write looks for the artifact and its parent outside any transaction   *)
(* and then inserts the row together with one outbox event.                *)
(*                                                                         *)
(* An artifact is <<kind, content>>; a role receipt and a closure belong   *)
(* to the content of a projection and of a trace.                          *)
(***************************************************************************)
EXTENDS Naturals, Sequences, FiniteSets, SequencesExt

CONSTANTS
    Writers,      \* processes that keep artifacts in one Library
    NoArtifact,
    MaxWrites     \* bound: calls of persist_*

ASSUME ArchiveAssumption == MaxWrites \in Nat

VARIABLES
    shelf,        \* the rows of the four tables
    log,          \* the events of these tables in event_outbox
    holding,      \* Writer -> what it is about to insert, NoArtifact when idle
    reply,        \* Writer -> <<artifact, what its last call told it>>
    writes        \* how many calls were made

archiveVars == <<shelf, log, holding, reply, writes>>

NoReply == <<NoArtifact, "nothing">>

Parented == {"role_receipt", "closure"}
ParentKind(kind) == IF kind = "closure" THEN "trace" ELSE "projection"

\* The row that has to be there first: the artifact's content names it.
ParentOf(x) == <<ParentKind(x[1]), x[2].about>>

ParentThere(x) == x[1] \in Parented => ParentOf(x) \in shelf

ArchiveInit ==
    /\ shelf = {} /\ log = <<>>
    /\ holding = [w \in Writers |-> NoArtifact]
    /\ reply = [w \in Writers |-> NoReply]
    /\ writes = 0

\* persist_*: the parent is read, then the row itself, both outside the insert.
Look(w, x) ==
    /\ holding[w] = NoArtifact
    /\ writes < MaxWrites
    /\ writes' = writes + 1
    /\ LET told == IF ~ ParentThere(x) THEN "not_found"
                   ELSE IF x \in shelf THEN "kept" ELSE "pending"
       IN  /\ holding' = [holding EXCEPT ![w] = IF told = "pending" THEN x ELSE NoArtifact]
           /\ reply' = [reply EXCEPT ![w] = <<x, told>>]
    /\ UNCHANGED <<shelf, log>>

\* Broken variant: INSERT OR IGNORE, the event written whatever happened.
InsertOrIgnore(w) ==
    LET x == holding[w]
    IN  /\ x # NoArtifact
        /\ shelf' = shelf \cup {x}
        /\ log' = Append(log, x)
        /\ reply' = [reply EXCEPT ![w] = <<x, "kept">>]
        /\ holding' = [holding EXCEPT ![w] = NoArtifact]
        /\ UNCHANGED writes

\* The row and its event commit together, or the primary key refuses both.
Insert(w) ==
    LET x == holding[w]
        free == x \notin shelf
    IN  /\ x # NoArtifact
        /\ shelf' = shelf \cup {x}
        /\ log' = IF free THEN Append(log, x) ELSE log
        /\ reply' = [reply EXCEPT ![w] = <<x, IF free THEN "kept" ELSE "conflict">>]
        /\ holding' = [holding EXCEPT ![w] = NoArtifact]
        /\ UNCHANGED writes

\* The process dies before its transaction commits.
Die(w) ==
    /\ holding[w] # NoArtifact
    /\ holding' = [holding EXCEPT ![w] = NoArtifact]
    /\ reply' = [reply EXCEPT ![w] = NoReply]
    /\ UNCHANGED <<shelf, log, writes>>

----------------------------------------------------------------------------

\* Whatever two writers of one artifact do, the Library has it once, with one
\* event, after its parent; and a writer that is refused lost to the very
\* content it brought (persist_projection, persist_closure and their twins).
KeptOnce ==
    /\ ToSet(log) = shelf
    /\ \A i, j \in DOMAIN log : log[i] = log[j] => i = j
    /\ \A i \in DOMAIN log : log[i][1] \in Parented =>
          \E j \in 1 .. i - 1 : log[j] = ParentOf(log[i])
    /\ \A w \in Writers : reply[w][2] \in {"kept", "conflict"} => reply[w][1] \in shelf
====
