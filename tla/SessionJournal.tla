---- MODULE SessionJournal ----
(***************************************************************************)
(* Research sessions: the hash-chained, append-only event journal of       *)
(* persistence/sessions.py and the idempotent recall command that          *)
(* AgentResearchFacade.recall (interactive/service.py) runs on top of it.  *)
(*                                                                         *)
(* A caller reads the journal, builds the next event and writes it in a    *)
(* later transaction, so another caller may have moved the tip meanwhile.  *)
(* Each action is one read or one BEGIN IMMEDIATE transaction.  An event   *)
(* stands for its own SHA-256 hash: `previous` is the preceding event.     *)
(***************************************************************************)
EXTENDS Integers, Sequences

CONSTANTS
    Sessions,
    Callers,     \* agents, or the transports that retry for them
    Commands,    \* command_id values
    Requests,    \* recall inputs
    SessionOf,   \* Request -> the session it is asked in
    Genesis,     \* GENESIS_EVENT_HASH
    None,
    MaxEvents,   \* bound: events in a journal when a note is added
    MaxStops     \* bound: interrupted calls

ASSUME JournalAssumption ==
    /\ SessionOf \in [Requests -> Sessions]
    /\ MaxEvents \in Nat
    /\ MaxStops \in Nat

VARIABLES
    journal,     \* research_session_events of each session, by sequence
    started,     \* recall_command_started rows of each command
    completed,   \* recall_command_completed rows of each command
    at,          \* where each caller is
    on,          \* the session it works on
    command,     \* the command it runs
    draft,       \* the event it built
    seen,        \* the context it projected
    answers,     \* the turns every call of a command has returned
    stops        \* how many calls were interrupted

shared == <<journal, started, completed>>
local == <<at, on, command, draft, seen>>
vars == <<journal, started, completed, at, on, command, draft, seen, answers, stops>>

\* "note" is every kind that no command writes: answer drafts, candidate links,
\* gaps, rejected paths, decisions, and evidence attached by hand.
Kinds == {"question_asked", "evidence_attached", "note", "session_closed"}

Closed(s) == \E i \in DOMAIN journal[s] : journal[s][i].kind = "session_closed"

Tip(s) == IF journal[s] = <<>> THEN Genesis ELSE journal[s][Len(journal[s])]

\* coordinator.append: the next event of the journal as it is now.
NextEvent(s, kind, c) ==
    [session |-> s, sequence |-> Len(journal[s]) + 1, previous |-> Tip(s),
     kind |-> kind, by |-> c]

\* coordinator.replay of the journal with one more event.
Replays(s, e) ==
    e.sequence = Len(journal[s]) + 1 /\ e.previous = Tip(s) /\ ~Closed(s)

\* What the UNIQUE constraint and the trigger of research_session_events let in.
Accepts(s, e) ==
    /\ \A i \in DOMAIN journal[s] : journal[s][i].sequence # e.sequence
    /\ e.sequence = 1 => e.previous = Genesis
    /\ e.sequence > 1 => \E i \in DOMAIN journal[s] :
                             /\ journal[s][i].sequence = e.sequence - 1
                             /\ journal[s][i] = e.previous
    /\ ~Closed(s)

Init ==
    /\ journal = [s \in Sessions |-> <<>>]
    /\ started = [k \in Commands |-> {}]
    /\ completed = [k \in Commands |-> {}]
    /\ at = [c \in Callers |-> "idle"]
    /\ on = [c \in Callers |-> None]
    /\ command = [c \in Callers |-> None]
    /\ draft = [c \in Callers |-> None]
    /\ seen = [c \in Callers |-> <<>>]
    /\ answers = [k \in Commands |-> {}]
    /\ stops = 0

GoTo(c, place) == at' = [at EXCEPT ![c] = place]

\* The call returns or raises; its local state is gone.
Leave(c) ==
    /\ GoTo(c, "idle")
    /\ on' = [on EXCEPT ![c] = None]
    /\ command' = [command EXCEPT ![c] = None]
    /\ draft' = [draft EXCEPT ![c] = None]
    /\ seen' = [seen EXCEPT ![c] = <<>>]

----------------------------------------------------------------------------
(* append_event: notes and closure *)

\* The tip is read and the event built on it.
BuildNote(c, s, kind) ==
    /\ at[c] = "idle"
    /\ Len(journal[s]) < MaxEvents
    /\ ~Closed(s)
    /\ draft' = [draft EXCEPT ![c] = NextEvent(s, kind, c)]
    /\ on' = [on EXCEPT ![c] = s]
    /\ GoTo(c, "append")
    /\ UNCHANGED <<shared, command, seen, answers, stops>>

\* The event is inserted; the caller may lose the answer and call again.
AppendNote(c) ==
    /\ at[c] = "append"
    /\ Accepts(on[c], draft[c])
    /\ journal' = [journal EXCEPT ![on[c]] = Append(@, draft[c])]
    /\ Leave(c) \/ UNCHANGED local
    /\ UNCHANGED <<started, completed, answers, stops>>

\* An event that is stored is returned; one that does not fit is refused.
EndNote(c) ==
    /\ at[c] = "append"
    /\ ~Accepts(on[c], draft[c])
    /\ Leave(c)
    /\ UNCHANGED <<shared, answers, stops>>

----------------------------------------------------------------------------
(* recall: begin_recall_command, recall_in_session, complete_recall_command *)

\* Broken variant: the receipt of an earlier call is not looked for.
AlwaysNew(k) == TRUE

NotStarted(k) == started[k] = {}

\* The question event and the start receipt commit together.
BeginNew(c, k, r) ==
    LET s == SessionOf[r]
        question == NextEvent(s, "question_asked", c)
    IN /\ at[c] = "idle"
       /\ NotStarted(k)
       /\ ~Closed(s)
       /\ journal' = [journal EXCEPT ![s] = Append(@, question)]
       /\ started' = [started EXCEPT ![k] = @ \cup {[request |-> r, question |-> question]}]
       /\ on' = [on EXCEPT ![c] = s]
       /\ command' = [command EXCEPT ![c] = k]
       /\ GoTo(c, "begun")
       /\ UNCHANGED <<completed, draft, seen, answers, stops>>

\* Broken variant: a retry is refused.
NoRetry(k, r) == FALSE

\* The command was started with the same input.  More than one row is refused.
SameInput(k, r) == \E q \in started[k] : q.request = r /\ started[k] = {q}

\* A retry resumes from the one question event; another input is refused.
BeginAgain(c, k, r) ==
    /\ at[c] = "idle"
    /\ SameInput(k, r)
    /\ on' = [on EXCEPT ![c] = SessionOf[r]]
    /\ command' = [command EXCEPT ![c] = k]
    /\ GoTo(c, "begun")
    /\ UNCHANGED <<shared, draft, seen, answers, stops>>

\* The persisted completion is what the call returns.
ReturnCompleted(c) ==
    /\ at[c] \in {"begun", "projected", "checked"}
    /\ \E turn \in completed[command[c]] :
          /\ completed[command[c]] = {turn}
          /\ answers' = [answers EXCEPT ![command[c]] = @ \cup {turn}]
    /\ Leave(c)
    /\ UNCHANGED <<shared, stops>>

\* No completion yet: run the retrieval.
Retrieve(c) ==
    /\ at[c] = "begun"
    /\ completed[command[c]] = {}
    /\ GoTo(c, "retrieved")
    /\ UNCHANGED <<shared, on, command, draft, seen, answers, stops>>

\* The evidence event is built on the tip.
BuildEvidence(c) ==
    /\ at[c] = "retrieved"
    /\ ~Closed(on[c])
    /\ draft' = [draft EXCEPT ![c] = NextEvent(on[c], "evidence_attached", c)]
    /\ GoTo(c, "built")
    /\ UNCHANGED <<shared, on, command, seen, answers, stops>>

\* The journal is read again to project the context the turn will carry.
Project(c) ==
    /\ at[c] = "built"
    /\ Replays(on[c], draft[c])
    /\ seen' = [seen EXCEPT ![c] = Append(journal[on[c]], draft[c])]
    /\ GoTo(c, "projected")
    /\ UNCHANGED <<shared, on, command, draft, answers, stops>>

\* complete_recall_command looks for a completion before its transaction.
CheckCompletion(c) ==
    /\ at[c] = "projected"
    /\ completed[command[c]] = {}
    /\ GoTo(c, "checked")
    /\ UNCHANGED <<shared, on, command, draft, seen, answers, stops>>

\* Broken variant: the transaction neither replays nor looks again.
OnceChecked(c) == TRUE

\* Inside the transaction the completion and the tip are looked at again.
StillNext(c) == completed[command[c]] = {} /\ Replays(on[c], draft[c])

\* Broken variant: the context is the journal the transaction finds.
ContextFound(c) == journal[on[c]]

StoredContext(c) == seen[c]

\* The evidence event and the completion receipt commit together.
Complete(c) ==
    LET turn == [evidence |-> draft[c], context |-> StoredContext(c)]
    IN /\ at[c] = "checked"
       /\ StillNext(c)
       /\ journal' = [journal EXCEPT ![on[c]] = Append(@, draft[c])]
       /\ completed' = [completed EXCEPT ![command[c]] = @ \cup {turn}]
       /\ answers' = [answers EXCEPT ![command[c]] = @ \cup {turn}]
       /\ Leave(c)
       /\ UNCHANGED <<started, stops>>

\* The journal moved or was closed under the call: it raises, and the command
\* stays started.
Refuse(c) ==
    /\ \/ at[c] = "retrieved" /\ Closed(on[c])
       \/ at[c] \in {"built", "checked"} /\ ~Replays(on[c], draft[c])
    /\ Leave(c)
    /\ UNCHANGED <<shared, answers, stops>>

\* The process dies, or something else in the call fails.
Stop(c) ==
    /\ at[c] # "idle"
    /\ stops < MaxStops
    /\ stops' = stops + 1
    /\ Leave(c)
    /\ UNCHANGED <<shared, answers>>

----------------------------------------------------------------------------

Step(c) ==
    \/ AppendNote(c) \/ EndNote(c)
    \/ ReturnCompleted(c) \/ Retrieve(c) \/ BuildEvidence(c) \/ Project(c)
    \/ CheckCompletion(c) \/ Complete(c) \/ Refuse(c)

Next ==
    \E c \in Callers :
        \/ \E s \in Sessions, kind \in {"note", "session_closed"} : BuildNote(c, s, kind)
        \/ \E k \in Commands, r \in Requests : BeginNew(c, k, r) \/ BeginAgain(c, k, r)
        \/ Step(c)
        \/ Stop(c)

Spec == Init /\ [][Next]_vars

\* A call that runs makes progress, and a command without an answer is called
\* again with its input: strongly fair, because a caller of the model is busy
\* with one command at a time and no transport gives up on its own.
Fairness ==
    /\ \A c \in Callers : WF_vars(Step(c))
    /\ \A k \in Commands :
          SF_vars(completed[k] = {} /\ \E c \in Callers, r \in Requests : BeginAgain(c, k, r))

FairSpec == Spec /\ Fairness

----------------------------------------------------------------------------
(* Correctness *)

Places == {"idle", "append", "begun", "retrieved", "built", "projected", "checked"}

TypeOK ==
    /\ DOMAIN journal = Sessions
    /\ \A s \in Sessions : \A i \in DOMAIN journal[s] :
          journal[s][i].kind \in Kinds /\ journal[s][i].by \in Callers
    /\ \A k \in Commands : \A q \in started[k] : q.request \in Requests
    /\ at \in [Callers -> Places]
    /\ on \in [Callers -> Sessions \cup {None}]
    /\ command \in [Callers -> Commands \cup {None}]
    /\ \A c \in Callers :
          /\ on[c] = None <=> at[c] = "idle"
          /\ command[c] = None <=> at[c] \in {"idle", "append"}
          /\ draft[c] = None <=> at[c] \in {"idle", "begun", "retrieved"}
          /\ command[c] # None =>
                \E q \in started[command[c]] : on[c] = SessionOf[q.request]
    /\ stops \in 0..MaxStops

\* A journal is one chain: sequences without a gap, each event on the hash of
\* the one before, nothing after closure, whoever raced whom for the tip.
ChainIntact ==
    \A s \in Sessions : \A i \in DOMAIN journal[s] :
        /\ journal[s][i].sequence = i
        /\ journal[s][i].previous = IF i = 1 THEN Genesis ELSE journal[s][i - 1]
        /\ journal[s][i].kind = "session_closed" => i = Len(journal[s])

\* The database refuses exactly what replay refuses: an event some caller
\* built fits the trigger if and only if the journal replays with it.
TriggerMatchesReplay ==
    \A c \in Callers : draft[c] # None =>
        (Accepts(on[c], draft[c]) <=> Replays(on[c], draft[c]))

EventsOf(s) == {journal[s][i] : i \in DOMAIN journal[s]}

\* A command asks once: it has at most one start receipt, which names a question
\* event of its session, no question event belongs to two commands and none to
\* no command, after any retries.
OneQuestionPerCommand ==
    /\ \A k \in Commands : \A p, q \in started[k] : p = q
    /\ \A k \in Commands : \A q \in started[k] :
          q.question \in EventsOf(SessionOf[q.request])
    /\ \A k, h \in Commands : \A p \in started[k], q \in started[h] :
          p.question = q.question => k = h
    /\ \A s \in Sessions : \A e \in EventsOf(s) : e.kind = "question_asked" =>
          \E k \in Commands : \E q \in started[k] : q.question = e

\* A command is answered once, after its question, and the evidence events of
\* the journals are exactly those of the completions.
OneEvidencePerCommand ==
    /\ \A k \in Commands : \A t, u \in completed[k] : t = u
    /\ \A k \in Commands : \A t \in completed[k] : \E q \in started[k] :
          /\ t.evidence \in EventsOf(SessionOf[q.request])
          /\ q.question.sequence < t.evidence.sequence
    /\ \A k, h \in Commands : \A t \in completed[k], u \in completed[h] :
          t.evidence = u.evidence => k = h
    /\ \A s \in Sessions : \A e \in EventsOf(s) : e.kind = "evidence_attached" =>
          \E k \in Commands : \E t \in completed[k] : t.evidence = e

\* The context stored with a turn is the journal up to and including its
\* evidence event, although it was projected before the transaction.
ContextIsWhatFollowed ==
    \A k \in Commands : \A t \in completed[k], q \in started[k] :
        t.context = SubSeq(journal[SessionOf[q.request]], 1, t.evidence.sequence)

\* Every call of a command returns the same turn, and it is the persisted one.
RepliesAgree ==
    \A k \in Commands : answers[k] \subseteq completed[k] /\ \A t, u \in answers[k] : t = u

\* Every journal is one chain that nothing follows once it is closed, and the
\* trigger of its table refuses exactly what replay would refuse.
JournalsHold == ChainIntact /\ TriggerMatchesReplay

\* However often and by whomever it is called, a command asks one question, is
\* answered by one later evidence event, shares neither with another command,
\* and returns that one turn to every call.
CommandsHold == OneQuestionPerCommand /\ OneEvidencePerCommand /\ RepliesAgree

\* A started command is answered, unless its session is closed first.
StartedIsAnswered ==
    \A k \in Commands, r \in Requests :
        (\E q \in started[k] : q.request = r)
            ~> (completed[k] # {} \/ Closed(SessionOf[r]))
====
