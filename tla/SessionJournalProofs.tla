---- MODULE SessionJournalProofs ----
(***************************************************************************)
(* Proofs about SessionJournal for any sessions, callers, commands and     *)
(* bounds.  A journal only grows by an event that fits its tip; everything *)
(* else follows from what a caller's draft was built on.                   *)
(***************************************************************************)
EXTENDS SessionJournal, TLAPS

----------------------------------------------------------------------------
(* Journals as sequences: no set of events is needed to type them. *)

IsSeq(q) == q \in Seq({q[i] : i \in DOMAIN q})

\* What Append does to a sequence of anything.
LEMMA Appended ==
    ASSUME NEW q, IsSeq(q), NEW e
    PROVE  /\ IsSeq(Append(q, e))
           /\ Len(q) \in Nat /\ DOMAIN q = 1..Len(q)
           /\ Len(Append(q, e)) = Len(q) + 1
           /\ DOMAIN Append(q, e) = 1..Len(q) + 1
           /\ Append(q, e)[Len(q) + 1] = e
           /\ \A i \in 1..Len(q) : Append(q, e)[i] = q[i]
<1> DEFINE S == {q[i] : i \in DOMAIN q} \cup {e}
           a == Append(q, e)
<1>1. q \in Seq(S) /\ e \in S
  BY DEF IsSeq
<1>2. /\ Len(q) \in Nat /\ DOMAIN q = 1..Len(q)
      /\ Len(a) = Len(q) + 1
      /\ DOMAIN a = 1..Len(q) + 1
      /\ a[Len(q) + 1] = e
      /\ \A i \in 1..Len(q) : a[i] = q[i]
  BY <1>1
<1>3. a \in Seq({a[i] : i \in DOMAIN a})
  <2> DEFINE T == {a[i] : i \in DOMAIN a}
  <2>1. q \in Seq(T)
    <3>1. \A i \in 1..Len(q) : q[i] \in T
      <4> TAKE i \in 1..Len(q)
      <4>1. i \in DOMAIN a /\ a[i] = q[i]
        BY <1>2
      <4> QED BY <4>1
    <3> HIDE DEF T
    <3> QED BY <1>1, <1>2, <3>1
  <2>2. e \in T
    BY <1>2
  <2> HIDE DEF T
  <2> QED BY <2>1, <2>2
<1> QED BY <1>2, <1>3 DEF IsSeq

----------------------------------------------------------------------------
(* The inductive invariant of the journal *)

JournalsAreSeqs ==
    /\ DOMAIN journal = Sessions
    /\ \A s \in Sessions : IsSeq(journal[s])

\* A caller that is past BuildNote or BuildEvidence holds an event with a
\* sequence number, for a session that exists.
DraftsAreEvents ==
    /\ DOMAIN at = Callers /\ DOMAIN on = Callers /\ DOMAIN draft = Callers
    /\ \A c \in Callers :
          /\ at[c] \in Places
          /\ at[c] # "idle" => on[c] \in Sessions
          /\ at[c] \in {"idle", "begun", "retrieved"} => draft[c] = None
          /\ at[c] \notin {"idle", "begun", "retrieved"} =>
                draft[c].sequence \in Nat \ {0} /\ draft[c].session = on[c]

EventsAreOwn ==
    \A s \in Sessions : \A i \in DOMAIN journal[s] : journal[s][i].session = s

JournalInv == JournalsAreSeqs /\ DraftsAreEvents /\ EventsAreOwn /\ ChainIntact

\* A journal in which nothing is wrong accepts through its trigger exactly the
\* events it replays with.
LEMMA TriggerIsReplay ==
    ASSUME JournalsAreSeqs, ChainIntact, NEW s \in Sessions, NEW e,
           e.sequence \in Nat \ {0}
    PROVE  Accepts(s, e) <=> Replays(s, e)
<1> DEFINE j == journal[s]
<1>1. /\ Len(j) \in Nat /\ DOMAIN j = 1..Len(j)
      /\ (j = <<>>) <=> (Len(j) = 0)
  BY DEF JournalsAreSeqs, IsSeq
<1>2. \A i \in 1..Len(j) : j[i].sequence = i
  BY <1>1 DEF ChainIntact
<1>3. ASSUME Accepts(s, e) PROVE Replays(s, e)
  <2>1. e.sequence \notin 1..Len(j)
    BY <1>1, <1>2, <1>3 DEF Accepts
  <2>2. CASE e.sequence = 1
    <3>1. Len(j) = 0
      BY <1>1, <2>1, <2>2
    <3> QED BY <1>1, <1>3, <2>2, <3>1 DEF Accepts, Replays, Tip
  <2>3. CASE e.sequence > 1
    <3>1. PICK i \in 1..Len(j) : j[i].sequence = e.sequence - 1 /\ j[i] = e.previous
      BY <1>1, <1>3, <2>3 DEF Accepts
    <3>2. i = e.sequence - 1
      BY <1>2, <3>1
    <3>3. i = Len(j) /\ e.sequence = Len(j) + 1
      BY <1>1, <2>1, <3>2
    <3> QED BY <1>1, <1>3, <3>1, <3>3 DEF Accepts, Replays, Tip
  <2> QED BY <2>2, <2>3
<1>4. ASSUME Replays(s, e) PROVE Accepts(s, e)
  <2>1. e.sequence = Len(j) + 1 /\ e.previous = Tip(s) /\ ~Closed(s)
    BY <1>4 DEF Replays
  <2>2. \A i \in DOMAIN j : j[i].sequence # e.sequence
    BY <1>1, <1>2, <2>1
  <2>3. e.sequence = 1 => e.previous = Genesis
    BY <1>1, <2>1 DEF Tip
  <2>4. ASSUME e.sequence > 1
        PROVE  \E i \in DOMAIN j : j[i].sequence = e.sequence - 1 /\ j[i] = e.previous
    <3>1. Len(j) \in DOMAIN j /\ Len(j) = e.sequence - 1 /\ e.previous = j[Len(j)]
      BY <1>1, <2>1, <2>4 DEF Tip
    <3> QED BY <1>2, <3>1
  <2> QED BY <2>1, <2>2, <2>3, <2>4 DEF Accepts
<1> QED BY <1>3, <1>4

\* An event that fits the tip extends the chain.
LEMMA ChainGrows ==
    ASSUME JournalsAreSeqs, EventsAreOwn, ChainIntact,
           NEW s \in Sessions, NEW e, Replays(s, e), e.session = s,
           journal' = [journal EXCEPT ![s] = Append(@, e)]
    PROVE  JournalsAreSeqs' /\ EventsAreOwn' /\ ChainIntact'
<1>1. PICK j : j = journal[s]
  OBVIOUS
<1>2. PICK k : k = Append(j, e)
  OBVIOUS
<1>3. /\ IsSeq(k) /\ Len(j) \in Nat /\ DOMAIN j = 1..Len(j)
      /\ Len(k) = Len(j) + 1 /\ DOMAIN k = 1..Len(j) + 1
      /\ k[Len(j) + 1] = e
      /\ \A i \in 1..Len(j) : k[i] = j[i]
  <2>1. IsSeq(j)
    BY <1>1 DEF JournalsAreSeqs
  <2> QED BY <1>2, <2>1, Appended
<1>4. /\ DOMAIN journal' = Sessions
      /\ journal'[s] = k
      /\ \A t \in Sessions \ {s} : journal'[t] = journal[t]
  BY <1>1, <1>2 DEF JournalsAreSeqs
<1>5. JournalsAreSeqs'
  <2>1. \A t \in Sessions : IsSeq(journal'[t])
    BY <1>3, <1>4 DEF JournalsAreSeqs
  <2> QED BY <1>4, <2>1 DEF JournalsAreSeqs
<1>6. /\ e.sequence = Len(j) + 1
      /\ e.previous = IF Len(j) = 0 THEN Genesis ELSE j[Len(j)]
      /\ \A i \in 1..Len(j) : j[i].kind # "session_closed"
  <2>1. (j = <<>>) <=> (Len(j) = 0)
    BY <1>1 DEF JournalsAreSeqs, IsSeq
  <2> QED BY <1>1, <1>3, <2>1 DEF Replays, Tip, Closed
<1>7. \A i \in 1..Len(j) : /\ j[i].sequence = i
                           /\ j[i].previous = (IF i = 1 THEN Genesis ELSE j[i - 1])
                           /\ j[i].session = s
  BY <1>1, <1>3 DEF ChainIntact, EventsAreOwn
<1>8. \A i \in DOMAIN k : /\ k[i].sequence = i
                          /\ k[i].previous = (IF i = 1 THEN Genesis ELSE k[i - 1])
                          /\ k[i].kind = "session_closed" => i = Len(k)
                          /\ k[i].session = s
  <2> TAKE i \in DOMAIN k
  <2>1. CASE i \in 1..Len(j)
    <3>1. k[i] = j[i] /\ (i # 1 => i - 1 \in 1..Len(j) /\ k[i - 1] = j[i - 1])
      BY <1>3, <2>1
    <3> QED BY <1>6, <1>7, <2>1, <3>1
  <2>2. CASE i = Len(j) + 1
    <3>1. k[i] = e /\ (Len(j) # 0 => k[i - 1] = j[Len(j)])
      BY <1>3, <2>2
    <3> QED BY <1>3, <1>6, <2>2, <3>1
  <2> QED BY <1>3, <2>1, <2>2
<1>9. EventsAreOwn'
  <2> SUFFICES ASSUME NEW t \in Sessions, NEW i \in DOMAIN journal'[t]
               PROVE  journal'[t][i].session = t
    BY DEF EventsAreOwn
  <2> QED BY <1>4, <1>8 DEF EventsAreOwn
<1>10. ChainIntact'
  <2> SUFFICES ASSUME NEW t \in Sessions, NEW i \in DOMAIN journal'[t]
               PROVE  /\ journal'[t][i].sequence = i
                      /\ journal'[t][i].previous = (IF i = 1 THEN Genesis ELSE journal'[t][i - 1])
                      /\ journal'[t][i].kind = "session_closed" => i = Len(journal'[t])
    BY DEF ChainIntact
  <2>1. CASE t = s
    BY <1>4, <1>8, <2>1
  <2>2. CASE t # s
    BY <1>4, <2>2 DEF ChainIntact
  <2> QED BY <2>1, <2>2
<1> QED BY <1>5, <1>9, <1>10

\* The next event of a journal fits its tip.
LEMMA NextFits ==
    ASSUME JournalsAreSeqs, NEW s \in Sessions, NEW kind, NEW c
    PROVE  /\ NextEvent(s, kind, c).sequence \in Nat \ {0}
           /\ NextEvent(s, kind, c).session = s
           /\ ~Closed(s) => Replays(s, NextEvent(s, kind, c))
<1>1. Len(journal[s]) \in Nat
  BY DEF JournalsAreSeqs, IsSeq
<1> QED BY <1>1 DEF NextEvent, Replays

LEMMA JournalInit == Init => JournalInv
<1> SUFFICES ASSUME Init PROVE JournalInv
  OBVIOUS
<1>1. JournalsAreSeqs
  BY DEF Init, JournalsAreSeqs, IsSeq
<1>2. \A s \in Sessions : DOMAIN journal[s] = {}
  <2>1. \A s \in Sessions : journal[s] = <<>>
    BY DEF Init
  <2>2. DOMAIN <<>> = {}
    OBVIOUS
  <2> QED BY <2>1, <2>2
<1>3. DraftsAreEvents
  BY DEF Init, DraftsAreEvents, Places
<1> QED BY <1>1, <1>2, <1>3 DEF JournalInv, EventsAreOwn, ChainIntact

LEMMA JournalStep == ASSUME JournalInv, [Next]_vars PROVE JournalInv'
<1> USE JournalAssumption
<1>0. JournalsAreSeqs /\ DraftsAreEvents /\ EventsAreOwn /\ ChainIntact
  BY DEF JournalInv
<1>1. ASSUME UNCHANGED journal PROVE JournalsAreSeqs' /\ EventsAreOwn' /\ ChainIntact'
  BY <1>0, <1>1 DEF JournalsAreSeqs, EventsAreOwn, ChainIntact
<1>2. ASSUME NEW c \in Callers, Leave(c) PROVE DraftsAreEvents'
  BY <1>0, <1>2 DEF DraftsAreEvents, Leave, GoTo, Places
<1>3. ASSUME UNCHANGED local PROVE DraftsAreEvents'
  BY <1>0, <1>3 DEF DraftsAreEvents, local
<1>4. ASSUME NEW c \in Callers, NEW s \in Sessions, NEW kind, BuildNote(c, s, kind)
      PROVE  JournalInv'
  <2>1. DraftsAreEvents'
    BY <1>0, <1>4, NextFits DEF BuildNote, DraftsAreEvents, GoTo, Places
  <2> QED BY <1>1, <1>4, <2>1 DEF BuildNote, shared, JournalInv
<1>5. ASSUME NEW c \in Callers, AppendNote(c) PROVE JournalInv'
  <2>1. PICK s \in Sessions : s = on[c]
    BY <1>0, <1>5 DEF AppendNote, DraftsAreEvents
  <2>2. PICK e : e = draft[c]
    OBVIOUS
  <2>3. e.sequence \in Nat \ {0} /\ e.session = s
    BY <1>0, <1>5, <2>1, <2>2 DEF AppendNote, DraftsAreEvents
  <2>4. Replays(s, e)
    BY <1>0, <1>5, <2>1, <2>2, <2>3, TriggerIsReplay DEF AppendNote
  <2>5. journal' = [journal EXCEPT ![s] = Append(@, e)]
    BY <1>5, <2>1, <2>2 DEF AppendNote
  <2>6. JournalsAreSeqs' /\ EventsAreOwn' /\ ChainIntact'
    BY <1>0, <2>3, <2>4, <2>5, ChainGrows
  <2>7. DraftsAreEvents'
    BY <1>2, <1>3, <1>5 DEF AppendNote
  <2> QED BY <2>6, <2>7 DEF JournalInv
<1>6. ASSUME NEW c \in Callers, NEW k \in Commands, NEW r \in Requests, BeginNew(c, k, r)
      PROVE  JournalInv'
  <2>1. PICK s \in Sessions : s = SessionOf[r]
    OBVIOUS
  <2>2. PICK e : e = NextEvent(s, "question_asked", c)
    OBVIOUS
  <2>3. e.session = s /\ Replays(s, e)
    BY <1>0, <1>6, <2>1, <2>2, NextFits DEF BeginNew
  <2>4. journal' = [journal EXCEPT ![s] = Append(@, e)]
    BY <1>6, <2>1, <2>2 DEF BeginNew
  <2>5. JournalsAreSeqs' /\ EventsAreOwn' /\ ChainIntact'
    BY <1>0, <2>3, <2>4, ChainGrows
  <2>6. DraftsAreEvents'
    BY <1>0, <1>6, <2>1 DEF BeginNew, DraftsAreEvents, GoTo, Places
  <2> QED BY <2>5, <2>6 DEF JournalInv
<1>7. ASSUME NEW c \in Callers, NEW k \in Commands, NEW r \in Requests, BeginAgain(c, k, r)
      PROVE  JournalInv'
  <2>1. DraftsAreEvents'
    BY <1>0, <1>7 DEF BeginAgain, DraftsAreEvents, GoTo, Places
  <2> QED BY <1>1, <1>7, <2>1 DEF BeginAgain, shared, JournalInv
<1>8. ASSUME NEW c \in Callers, Complete(c) PROVE JournalInv'
  <2>1. PICK s \in Sessions : s = on[c]
    BY <1>0, <1>8 DEF Complete, DraftsAreEvents
  <2>2. PICK e : e = draft[c]
    OBVIOUS
  <2>3. e.session = s /\ Replays(s, e)
    BY <1>0, <1>8, <2>1, <2>2 DEF Complete, StillNext, DraftsAreEvents
  <2>4. journal' = [journal EXCEPT ![s] = Append(@, e)]
    BY <1>8, <2>1, <2>2 DEF Complete
  <2>5. JournalsAreSeqs' /\ EventsAreOwn' /\ ChainIntact'
    BY <1>0, <2>3, <2>4, ChainGrows
  <2>6. DraftsAreEvents'
    BY <1>2, <1>8 DEF Complete
  <2> QED BY <2>5, <2>6 DEF JournalInv
<1>9. ASSUME NEW c \in Callers, BuildEvidence(c) PROVE JournalInv'
  <2>1. DraftsAreEvents'
    <3>1. on[c] \in Sessions
      BY <1>0, <1>9 DEF BuildEvidence, DraftsAreEvents
    <3> QED BY <1>0, <1>9, <3>1, NextFits DEF BuildEvidence, DraftsAreEvents, GoTo, Places
  <2> QED BY <1>1, <1>9, <2>1 DEF BuildEvidence, shared, JournalInv
<1>10. ASSUME NEW c \in Callers, Retrieve(c) \/ Project(c) \/ CheckCompletion(c)
       PROVE  JournalInv'
  <2>1. DraftsAreEvents'
    BY <1>0, <1>10 DEF Retrieve, Project, CheckCompletion, DraftsAreEvents, GoTo, Places
  <2> QED BY <1>1, <1>10, <2>1 DEF Retrieve, Project, CheckCompletion, shared, JournalInv
<1>11. ASSUME NEW c \in Callers, EndNote(c) \/ ReturnCompleted(c) \/ Refuse(c) \/ Stop(c)
       PROVE  JournalInv'
  <2>1. Leave(c) /\ UNCHANGED journal
    BY <1>11 DEF EndNote, ReturnCompleted, Refuse, Stop, shared
  <2> QED BY <1>1, <1>2, <2>1 DEF JournalInv
<1>12. CASE UNCHANGED vars
  BY <1>1, <1>3, <1>12 DEF vars, local, JournalInv
<1> QED BY <1>4, <1>5, <1>6, <1>7, <1>8, <1>9, <1>10, <1>11, <1>12 DEF Next, Step

\* The inductive invariant of the journal, in every reachable state.
LEMMA JournalAlways == Spec => []JournalInv
<1>1. Init => JournalInv
  BY JournalInit
<1>2. JournalInv /\ [Next]_vars => JournalInv'
  BY JournalStep
<1> QED BY <1>1, <1>2, PTL DEF Spec

\* Whoever races whom for the tip, a journal is one chain and nothing follows
\* its closure (append_event, begin_ and complete_recall_command).
THEOREM JournalIsChain == Spec => []ChainIntact
<1>1. JournalInv => ChainIntact
  BY DEF JournalInv
<1> QED BY <1>1, JournalAlways, PTL

\* The trigger of research_session_events refuses exactly what replay refuses.
THEOREM TriggerIsExact == Spec => []TriggerMatchesReplay
<1>1. JournalInv => TriggerMatchesReplay
  <2> SUFFICES ASSUME JournalInv, NEW c \in Callers, draft[c] # None
               PROVE  Accepts(on[c], draft[c]) <=> Replays(on[c], draft[c])
    BY DEF TriggerMatchesReplay
  <2>1. on[c] \in Sessions /\ draft[c].sequence \in Nat \ {0}
    BY DEF JournalInv, DraftsAreEvents
  <2> QED BY <2>1, TriggerIsReplay DEF JournalInv
<1> QED BY <1>1, JournalAlways, PTL

----------------------------------------------------------------------------
(* The inductive invariant of the recall commands *)

Recalling == {"begun", "retrieved", "built", "projected", "checked"}

\* What a caller projected is the journal below its draft, and its draft.
SawPrefix(c) ==
    /\ draft[c].sequence - 1 <= Len(journal[on[c]])
    /\ IsSeq(seen[c])
    /\ Len(seen[c]) = draft[c].sequence
    /\ seen[c][draft[c].sequence] = draft[c]
    /\ \A i \in 1..draft[c].sequence - 1 : seen[c][i] = journal[on[c]][i]

Knows(c) ==
    /\ at[c] \in Recalling =>
          /\ command[c] \in Commands
          /\ \E q \in started[command[c]] : on[c] = SessionOf[q.request]
    /\ at[c] = "append" => draft[c].kind \in {"note", "session_closed"}
    /\ at[c] \in {"built", "projected", "checked"} => draft[c].kind = "evidence_attached"
    /\ at[c] \in {"projected", "checked"} => SawPrefix(c)

CallersKnow ==
    /\ DOMAIN command = Callers /\ DOMAIN seen = Callers
    /\ \A c \in Callers : Knows(c)

ReceiptsAreTyped ==
    /\ DOMAIN started = Commands /\ DOMAIN completed = Commands /\ DOMAIN answers = Commands
    /\ \A k \in Commands : \A q \in started[k] : q.request \in Requests

Tables ==
    /\ ReceiptsAreTyped
    /\ OneQuestionPerCommand /\ OneEvidencePerCommand
    /\ ContextIsWhatFollowed /\ RepliesAgree

CommandInv == CallersKnow /\ Tables

\* Sequences are equal when their elements are.
LEMMA SameSeq ==
    ASSUME NEW p, NEW q, IsSeq(p), IsSeq(q), Len(p) = Len(q),
           \A i \in 1..Len(p) : p[i] = q[i]
    PROVE  p = q
<1>1. p = [i \in 1..Len(p) |-> p[i]] /\ q = [i \in 1..Len(q) |-> q[i]]
  BY DEF IsSeq
<1> QED BY <1>1

\* A prefix of a sequence, and the whole of it.
LEMMA Prefix ==
    ASSUME NEW p, NEW q, IsSeq(p), IsSeq(q), NEW n \in Nat, n <= Len(p), n <= Len(q),
           \A i \in 1..n : p[i] = q[i]
    PROVE  SubSeq(p, 1, n) = SubSeq(q, 1, n) /\ SubSeq(p, 1, Len(p)) = p
<1>1. SubSeq(p, 1, n) = [i \in 1..n |-> p[i]] /\ SubSeq(q, 1, n) = [i \in 1..n |-> q[i]]
  BY DEF IsSeq
<1>2. SubSeq(p, 1, Len(p)) = [i \in 1..Len(p) |-> p[i]] /\ p = [i \in 1..Len(p) |-> p[i]]
  BY DEF IsSeq
<1> QED BY <1>1, <1>2

\* What every step does to the journals.
JournalGrows ==
    \A t \in Sessions : /\ Len(journal[t]) \in Nat /\ Len(journal'[t]) \in Nat
                        /\ Len(journal'[t]) >= Len(journal[t])
                        /\ \A i \in 1..Len(journal[t]) : journal'[t][i] = journal[t][i]

\* One event was appended to the journal of s.
Grew(s, e) ==
    /\ \A t \in Sessions : EventsOf(t)' = EventsOf(t) \cup (IF t = s THEN {e} ELSE {})
    /\ \A t \in Sessions : e \notin EventsOf(t)
    /\ \A t \in Sessions : \A x \in EventsOf(t) :
          x.sequence \in Nat /\ (t = s => x.sequence < e.sequence)
    /\ JournalGrows
    /\ e.sequence = Len(journal[s]) + 1
    /\ Len(journal'[s]) = e.sequence /\ journal'[s][e.sequence] = e

\* A journal that grows keeps its events, and the new one is new everywhere.
LEMMA Grown ==
    ASSUME JournalsAreSeqs, EventsAreOwn, ChainIntact,
           NEW s \in Sessions, NEW e, Replays(s, e), e.session = s,
           journal' = [journal EXCEPT ![s] = Append(@, e)]
    PROVE  Grew(s, e)
<1>1. PICK j : j = journal[s]
  OBVIOUS
<1>2. PICK k : k = Append(j, e)
  OBVIOUS
<1>3. /\ IsSeq(k) /\ Len(j) \in Nat /\ DOMAIN j = 1..Len(j)
      /\ Len(k) = Len(j) + 1 /\ DOMAIN k = 1..Len(j) + 1
      /\ k[Len(j) + 1] = e
      /\ \A i \in 1..Len(j) : k[i] = j[i]
  <2>1. IsSeq(j)
    BY <1>1 DEF JournalsAreSeqs
  <2> QED BY <1>2, <2>1, Appended
<1>4. /\ journal'[s] = k
      /\ \A t \in Sessions \ {s} : journal'[t] = journal[t]
  BY <1>1, <1>2 DEF JournalsAreSeqs
<1>5. e.sequence = Len(j) + 1
  BY <1>1 DEF Replays
<1>6. \A t \in Sessions : Len(journal[t]) \in Nat /\ DOMAIN journal[t] = 1..Len(journal[t])
  BY DEF JournalsAreSeqs, IsSeq
<1>7. \A t \in Sessions : \A x \in EventsOf(t) :
         x.sequence \in 1..Len(journal[t]) /\ x.session = t
  BY <1>6 DEF EventsOf, ChainIntact, EventsAreOwn
<1>8. \A t \in Sessions : EventsOf(t)' = EventsOf(t) \cup (IF t = s THEN {e} ELSE {})
  <2> TAKE t \in Sessions
  <2>1. CASE t = s
    <3>1. {k[i] : i \in 1..Len(j) + 1} = {j[i] : i \in 1..Len(j)} \cup {e}
      BY <1>3
    <3> QED BY <1>1, <1>3, <1>4, <2>1, <3>1 DEF EventsOf
  <2>2. CASE t # s
    BY <1>4, <2>2 DEF EventsOf
  <2> QED BY <2>1, <2>2
<1>9. \A t \in Sessions : e \notin EventsOf(t)
  BY <1>1, <1>3, <1>5, <1>7
<1>10. JournalGrows
  <2> SUFFICES ASSUME NEW t \in Sessions
               PROVE  /\ Len(journal[t]) \in Nat /\ Len(journal'[t]) \in Nat
                      /\ Len(journal'[t]) >= Len(journal[t])
                      /\ \A i \in 1..Len(journal[t]) : journal'[t][i] = journal[t][i]
    BY DEF JournalGrows
  <2>1. CASE t = s
    BY <1>1, <1>3, <1>4, <2>1
  <2>2. CASE t # s
    BY <1>4, <1>6, <2>2
  <2> QED BY <2>1, <2>2
<1> QED BY <1>1, <1>3, <1>4, <1>5, <1>7, <1>8, <1>9, <1>10 DEF Grew

\* What every step does to the start receipts, and what it leaves of a caller.
StartsGrow == \A k \in Commands : started[k] \subseteq started'[k]

SameLocals(c) ==
    /\ at'[c] = at[c] /\ on'[c] = on[c] /\ command'[c] = command[c]
    /\ draft'[c] = draft[c] /\ seen'[c] = seen[c]

\* A caller that did not move knows what it knew.
LEMMA StillKnows ==
    ASSUME DraftsAreEvents, JournalGrows, StartsGrow,
           NEW c \in Callers, Knows(c), SameLocals(c)
    PROVE  Knows(c)'
<1>1. at[c] \in Recalling =>
         /\ command'[c] \in Commands
         /\ \E q \in started'[command'[c]] : on'[c] = SessionOf[q.request]
  BY DEF Knows, SameLocals, StartsGrow
<1>2. at[c] \in {"projected", "checked"} => SawPrefix(c)'
  <2> SUFFICES ASSUME at[c] \in {"projected", "checked"} PROVE SawPrefix(c)'
    OBVIOUS
  <2>1. PICK n : n = draft[c].sequence
    OBVIOUS
  <2>2. PICK s \in Sessions : s = on[c]
    BY DEF DraftsAreEvents
  <2>3. n \in Nat \ {0}
    BY <2>1 DEF DraftsAreEvents
  <2>4. /\ n - 1 <= Len(journal[s])
        /\ IsSeq(seen[c]) /\ Len(seen[c]) = n /\ seen[c][n] = draft[c]
        /\ \A i \in 1..n - 1 : seen[c][i] = journal[s][i]
    BY <2>1, <2>2 DEF Knows, SawPrefix
  <2>5. n - 1 <= Len(journal'[s]) /\ \A i \in 1..n - 1 : seen[c][i] = journal'[s][i]
    <3>1. /\ Len(journal[s]) \in Nat /\ Len(journal'[s]) \in Nat
          /\ Len(journal'[s]) >= Len(journal[s])
      BY DEF JournalGrows
    <3> QED BY <2>3, <2>4, <3>1 DEF JournalGrows
  <2> QED BY <2>1, <2>2, <2>4, <2>5 DEF SawPrefix, SameLocals
<1> QED BY <1>1, <1>2 DEF Knows, SameLocals

\* A stored context is still the beginning of its journal when that grows.
LEMMA ContextKept ==
    ASSUME JournalInv, JournalsAreSeqs', JournalGrows, Tables,
           NEW k \in Commands, NEW t \in completed[k], NEW q \in started[k]
    PROVE  t.context = SubSeq(journal'[SessionOf[q.request]], 1, t.evidence.sequence)
<1>1. PICK s \in Sessions : s = SessionOf[q.request]
  BY JournalAssumption DEF Tables, ReceiptsAreTyped
<1>2. t.evidence \in EventsOf(s)
  <2>1. PICK p \in started[k] : t.evidence \in EventsOf(SessionOf[p.request])
    BY DEF Tables, OneEvidencePerCommand
  <2>2. p = q
    BY DEF Tables, OneQuestionPerCommand
  <2> QED BY <1>1, <2>1, <2>2
<1>3. PICK n : n = t.evidence.sequence
  OBVIOUS
<1>4. PICK v : v = journal[s]
  OBVIOUS
<1>5. PICK w : w = journal'[s]
  OBVIOUS
<1>6. /\ IsSeq(v) /\ IsSeq(w) /\ Len(v) <= Len(w)
      /\ Len(v) \in Nat /\ Len(w) \in Nat /\ DOMAIN v = 1..Len(v)
      /\ \A i \in 1..Len(v) : w[i] = v[i]
  BY <1>4, <1>5 DEF JournalInv, JournalsAreSeqs, JournalGrows, IsSeq
<1>7. n \in 1..Len(v)
  BY <1>2, <1>3, <1>4, <1>6 DEF EventsOf, JournalInv, ChainIntact
<1>8. SubSeq(v, 1, n) = SubSeq(w, 1, n)
  BY <1>6, <1>7, Prefix
<1>9. t.context = SubSeq(v, 1, n)
  BY <1>1, <1>3, <1>4 DEF Tables, ContextIsWhatFollowed
<1> QED BY <1>1, <1>3, <1>5, <1>8, <1>9

\* A note leaves the receipts as they are.
LEMMA TablesAppend ==
    ASSUME JournalInv, JournalInv', Tables,
           NEW s \in Sessions, NEW e, Grew(s, e),
           e.kind \in {"note", "session_closed"},
           UNCHANGED <<started, completed, answers>>
    PROVE  Tables'
<1> USE JournalAssumption
<1>1. /\ \A t \in Sessions : EventsOf(t)' = EventsOf(t) \cup (IF t = s THEN {e} ELSE {})
      /\ JournalGrows
  BY DEF Grew
<1>2. ReceiptsAreTyped' /\ RepliesAgree'
  BY DEF Tables, ReceiptsAreTyped, RepliesAgree
<1>3. \A k \in Commands : \A q \in started[k] : SessionOf[q.request] \in Sessions
  BY DEF Tables, ReceiptsAreTyped
<1>4. OneQuestionPerCommand'
  BY <1>1, <1>3 DEF Tables, OneQuestionPerCommand
<1>5. OneEvidencePerCommand'
  BY <1>1, <1>3 DEF Tables, OneEvidencePerCommand
<1>6. ContextIsWhatFollowed'
  <2>1. \A k \in Commands : \A t \in completed[k], q \in started[k] :
           t.context = SubSeq(journal'[SessionOf[q.request]], 1, t.evidence.sequence)
    BY <1>1, ContextKept DEF JournalInv
  <2> QED BY <2>1 DEF ContextIsWhatFollowed
<1> QED BY <1>2, <1>4, <1>5, <1>6 DEF Tables

\* A command that was not started gets its one question.
LEMMA TablesBegin ==
    ASSUME JournalInv, JournalInv', Tables,
           NEW k \in Commands, started[k] = {},
           NEW r \in Requests, NEW s \in Sessions, s = SessionOf[r],
           NEW e, Grew(s, e), e.kind = "question_asked",
           started' = [started EXCEPT ![k] = @ \cup {[request |-> r, question |-> e]}],
           UNCHANGED <<completed, answers>>
    PROVE  Tables'
<1> USE JournalAssumption
<1>1. /\ \A t \in Sessions : EventsOf(t)' = EventsOf(t) \cup (IF t = s THEN {e} ELSE {})
      /\ \A t \in Sessions : e \notin EventsOf(t)
      /\ JournalGrows
  BY DEF Grew
<1>2. PICK row : row = [request |-> r, question |-> e]
  OBVIOUS
<1>3. row.request = r /\ row.question = e
  BY <1>2
<1>4. /\ DOMAIN started' = Commands /\ started'[k] = {row}
      /\ \A h \in Commands \ {k} : started'[h] = started[h]
  BY <1>2 DEF Tables, ReceiptsAreTyped
<1>5. completed[k] = {}
  BY DEF Tables, OneEvidencePerCommand
<1>6. ReceiptsAreTyped' /\ RepliesAgree'
  <2>1. \A h \in Commands : \A q \in started'[h] : q.request \in Requests
    BY <1>3, <1>4 DEF Tables, ReceiptsAreTyped
  <2> QED BY <1>4, <2>1 DEF Tables, ReceiptsAreTyped, RepliesAgree
<1>7. \A h \in Commands : \A q \in started[h] :
         q.question \in EventsOf(SessionOf[q.request]) /\ SessionOf[q.request] \in Sessions
  BY DEF Tables, ReceiptsAreTyped, OneQuestionPerCommand
<1>8. OneQuestionPerCommand'
  <2>1. \A h \in Commands : \A p, q \in started'[h] : p = q
    BY <1>4 DEF Tables, OneQuestionPerCommand
  <2>2. \A h \in Commands : \A q \in started'[h] :
           q.question \in EventsOf(SessionOf[q.request])'
    <3> TAKE h \in Commands
    <3>1. CASE h = k
      BY <1>1, <1>3, <1>4, <3>1
    <3>2. CASE h # k
      BY <1>1, <1>4, <1>7, <3>2
    <3> QED BY <3>1, <3>2
  <2>3. \A h, g \in Commands : \A p \in started'[h], q \in started'[g] :
           p.question = q.question => h = g
    BY <1>1, <1>3, <1>4, <1>7 DEF Tables, OneQuestionPerCommand
  <2>4. \A t \in Sessions : \A x \in EventsOf(t)' : x.kind = "question_asked" =>
           \E h \in Commands : \E q \in started'[h] : q.question = x
    <3> TAKE t \in Sessions
    <3> SUFFICES ASSUME NEW x \in EventsOf(t)', x.kind = "question_asked"
                 PROVE  \E h \in Commands : \E q \in started'[h] : q.question = x
      OBVIOUS
    <3>1. CASE x = e
      BY <1>3, <1>4, <3>1
    <3>2. CASE x \in EventsOf(t)
      <4>1. PICK h \in Commands : \E q \in started[h] : q.question = x
        BY <3>2 DEF Tables, OneQuestionPerCommand
      <4>2. started[h] \subseteq started'[h]
        BY <1>4
      <4> QED BY <4>1, <4>2
    <3> QED BY <1>1, <3>1, <3>2
  <2> QED BY <2>1, <2>2, <2>3, <2>4 DEF OneQuestionPerCommand
<1>9. OneEvidencePerCommand'
  <2>1. \A h \in Commands : \A t \in completed[h] : h # k /\ started'[h] = started[h]
    BY <1>4, <1>5
  <2>2. \A h \in Commands : \A t \in completed[h] : \E q \in started'[h] :
           /\ t.evidence \in EventsOf(SessionOf[q.request])'
           /\ q.question.sequence < t.evidence.sequence
    BY <1>1, <1>7, <2>1 DEF Tables, OneEvidencePerCommand
  <2>3. \A t \in Sessions : \A x \in EventsOf(t)' : x.kind = "evidence_attached" =>
           \E h \in Commands : \E u \in completed[h] : u.evidence = x
    BY <1>1 DEF Tables, OneEvidencePerCommand
  <2> QED BY <2>2, <2>3 DEF Tables, OneEvidencePerCommand
<1>10. ContextIsWhatFollowed'
  <2>1. \A h \in Commands : \A t \in completed[h], q \in started'[h] :
           t.context = SubSeq(journal'[SessionOf[q.request]], 1, t.evidence.sequence)
    BY <1>1, <1>4, <1>5, ContextKept DEF JournalInv
  <2> QED BY <2>1 DEF ContextIsWhatFollowed
<1> QED BY <1>6, <1>8, <1>9, <1>10 DEF Tables

\* A command that was not completed gets its one turn, whose context is the
\* journal it leaves.
LEMMA TablesComplete ==
    ASSUME JournalInv, JournalInv', Tables,
           NEW k \in Commands, completed[k] = {}, NEW q \in started[k],
           NEW s \in Sessions, s = SessionOf[q.request],
           NEW e, Grew(s, e), e.kind = "evidence_attached",
           NEW turn, turn.evidence = e, turn.context = journal'[s],
           completed' = [completed EXCEPT ![k] = @ \cup {turn}],
           answers' = [answers EXCEPT ![k] = @ \cup {turn}],
           UNCHANGED started
    PROVE  Tables'
<1> USE JournalAssumption
<1>1. /\ \A z \in Sessions : EventsOf(z)' = EventsOf(z) \cup (IF z = s THEN {e} ELSE {})
      /\ \A z \in Sessions : e \notin EventsOf(z)
      /\ \A z \in Sessions : \A x \in EventsOf(z) :
            x.sequence \in Nat /\ (z = s => x.sequence < e.sequence)
      /\ JournalGrows
      /\ Len(journal'[s]) = e.sequence
  BY DEF Grew
<1>2. /\ DOMAIN completed' = Commands /\ completed'[k] = {turn}
      /\ \A h \in Commands \ {k} : completed'[h] = completed[h]
      /\ DOMAIN answers' = Commands /\ answers'[k] = {turn}
      /\ \A h \in Commands \ {k} : answers'[h] = answers[h]
  BY DEF Tables, ReceiptsAreTyped, RepliesAgree
<1>3. ReceiptsAreTyped' /\ RepliesAgree'
  BY <1>2 DEF Tables, ReceiptsAreTyped, RepliesAgree
<1>4. \A h \in Commands : \A p \in started[h] :
         p.question \in EventsOf(SessionOf[p.request]) /\ SessionOf[p.request] \in Sessions
  BY DEF Tables, ReceiptsAreTyped, OneQuestionPerCommand
<1>5. OneQuestionPerCommand'
  <2>1. \A h \in Commands : \A p \in started[h] :
           p.question \in EventsOf(SessionOf[p.request])'
    BY <1>1, <1>4
  <2>2. \A z \in Sessions : \A x \in EventsOf(z)' : x.kind = "question_asked" =>
           \E h \in Commands : \E p \in started[h] : p.question = x
    BY <1>1 DEF Tables, OneQuestionPerCommand
  <2> QED BY <2>1, <2>2 DEF Tables, OneQuestionPerCommand
<1>6. OneEvidencePerCommand'
  <2>1. \A h \in Commands : \A u \in completed[h] :
           \E z \in Sessions : u.evidence \in EventsOf(z)
    BY <1>4 DEF Tables, OneEvidencePerCommand
  <2>2. \A h \in Commands : \A u, v \in completed'[h] : u = v
    BY <1>2 DEF Tables, OneEvidencePerCommand
  <2>3. \A h \in Commands : \A u \in completed'[h] : \E p \in started[h] :
           /\ u.evidence \in EventsOf(SessionOf[p.request])'
           /\ p.question.sequence < u.evidence.sequence
    <3> TAKE h \in Commands
    <3>1. CASE h = k
      BY <1>1, <1>2, <1>4, <3>1
    <3>2. CASE h # k
      BY <1>1, <1>2, <1>4, <3>2 DEF Tables, OneEvidencePerCommand
    <3> QED BY <3>1, <3>2
  <2>4. \A h, g \in Commands : \A u \in completed'[h], v \in completed'[g] :
           u.evidence = v.evidence => h = g
    BY <1>1, <1>2, <2>1 DEF Tables, OneEvidencePerCommand
  <2>5. \A z \in Sessions : \A x \in EventsOf(z)' : x.kind = "evidence_attached" =>
           \E h \in Commands : \E u \in completed'[h] : u.evidence = x
    <3> TAKE z \in Sessions
    <3> SUFFICES ASSUME NEW x \in EventsOf(z)', x.kind = "evidence_attached"
                 PROVE  \E h \in Commands : \E u \in completed'[h] : u.evidence = x
      OBVIOUS
    <3>1. CASE x = e
      BY <1>2, <3>1
    <3>2. CASE x \in EventsOf(z)
      <4>1. PICK h \in Commands : \E u \in completed[h] : u.evidence = x
        BY <3>2 DEF Tables, OneEvidencePerCommand
      <4>2. completed[h] \subseteq completed'[h]
        BY <1>2
      <4> QED BY <4>1, <4>2
    <3> QED BY <1>1, <3>1, <3>2
  <2> QED BY <2>2, <2>3, <2>4, <2>5 DEF OneEvidencePerCommand
<1>7. ContextIsWhatFollowed'
  <2> SUFFICES ASSUME NEW h \in Commands, NEW u \in completed'[h], NEW p \in started[h]
               PROVE  u.context = SubSeq(journal'[SessionOf[p.request]], 1, u.evidence.sequence)
    BY DEF ContextIsWhatFollowed
  <2>1. CASE h = k
    <3>1. p = q /\ u = turn
      BY <1>2, <2>1 DEF Tables, OneQuestionPerCommand
    <3>2. PICK v : v = journal'[s]
      OBVIOUS
    <3>8. turn.context = v
      BY <3>1, <3>2
    <3>3. IsSeq(v) /\ Len(v) \in Nat
      BY <3>2 DEF JournalInv, JournalsAreSeqs, IsSeq
    <3>4. SubSeq(v, 1, Len(v)) = v
      BY <3>3, Prefix
    <3>5. Len(v) = e.sequence /\ u.evidence = e /\ u.context = v
      BY <1>1, <3>1, <3>2, <3>8
    <3>6. v = journal'[SessionOf[p.request]]
      BY <3>1, <3>2
    <3>7. SubSeq(v, 1, e.sequence) = v
      BY <3>4, <3>5
    <3> QED BY <3>5, <3>6, <3>7, Zenon
  <2>2. CASE h # k
    BY <1>1, <1>2, <2>2, ContextKept DEF JournalInv
  <2> QED BY <2>1, <2>2
<1> QED BY <1>3, <1>5, <1>6, <1>7 DEF Tables

LEMMA CommandInit == Init => CommandInv
<1> SUFFICES ASSUME Init PROVE CommandInv
  OBVIOUS
<1>1. \A s \in Sessions : EventsOf(s) = {}
  <2>1. \A s \in Sessions : journal[s] = <<>>
    BY DEF Init
  <2>2. DOMAIN <<>> = {}
    OBVIOUS
  <2> QED BY <2>1, <2>2 DEF EventsOf
<1>2. CallersKnow
  BY DEF Init, CallersKnow, Knows, Recalling
<1>3. Tables
  BY <1>1 DEF Init, Tables, ReceiptsAreTyped, OneQuestionPerCommand,
              OneEvidencePerCommand, ContextIsWhatFollowed, RepliesAgree
<1> QED BY <1>2, <1>3 DEF CommandInv

\* The callers that did not move know what they knew.
LEMMA OthersKnow ==
    ASSUME DraftsAreEvents, CallersKnow, JournalGrows, StartsGrow,
           NEW c \in Callers, \A d \in Callers \ {c} : SameLocals(d), Knows(c)',
           DOMAIN command' = Callers, DOMAIN seen' = Callers
    PROVE  CallersKnow'
<1>1. ASSUME NEW d \in Callers \ {c} PROVE Knows(d)'
  BY <1>1, StillKnows DEF CallersKnow
<1> QED BY <1>1 DEF CallersKnow

\* A step of one caller that writes no table but may return an answer it knows.
LEMMA QuietStep ==
    ASSUME JournalInv, CommandInv, UNCHANGED shared,
           NEW c \in Callers, \A d \in Callers \ {c} : SameLocals(d), Knows(c)',
           DOMAIN command' = Callers, DOMAIN seen' = Callers,
           DOMAIN answers' = Commands,
           \A k \in Commands : answers'[k] \subseteq answers[k] \cup completed[k]
    PROVE  CommandInv'
<1>1. JournalGrows /\ StartsGrow
  BY DEF shared, JournalInv, JournalsAreSeqs, IsSeq, JournalGrows, StartsGrow
<1>2. CallersKnow'
  BY <1>1, OthersKnow DEF JournalInv, CommandInv
<1>3. /\ ReceiptsAreTyped' /\ OneQuestionPerCommand'
      /\ OneEvidencePerCommand' /\ ContextIsWhatFollowed'
  BY DEF shared, CommandInv, Tables, ReceiptsAreTyped, OneQuestionPerCommand,
         OneEvidencePerCommand, ContextIsWhatFollowed, EventsOf
<1>4. RepliesAgree'
  BY DEF shared, CommandInv, Tables, RepliesAgree, OneEvidencePerCommand
<1> QED BY <1>2, <1>3, <1>4 DEF CommandInv, Tables

\* A caller that leaves has nothing to know.
LEMMA LeaveKnows ==
    ASSUME DraftsAreEvents, CallersKnow, NEW c \in Callers, Leave(c)
    PROVE  /\ Knows(c)' /\ \A d \in Callers \ {c} : SameLocals(d)
           /\ DOMAIN command' = Callers /\ DOMAIN seen' = Callers
  BY DEF DraftsAreEvents, CallersKnow, Leave, GoTo, Knows, SameLocals, Recalling

\* A note is appended: the receipts stay.
LEMMA AppendNoteStep ==
    ASSUME JournalInv, JournalInv', CommandInv, NEW c \in Callers, AppendNote(c)
    PROVE  CommandInv'
<1>1. PICK s \in Sessions : s = on[c]
  BY DEF AppendNote, JournalInv, DraftsAreEvents
<1>2. PICK e : e = draft[c]
  OBVIOUS
<1>3. e.sequence \in Nat \ {0} /\ e.session = s /\ e.kind \in {"note", "session_closed"}
  BY <1>1, <1>2 DEF AppendNote, JournalInv, DraftsAreEvents, CommandInv, CallersKnow, Knows
<1>4. Replays(s, e)
  BY <1>1, <1>2, <1>3, TriggerIsReplay DEF AppendNote, JournalInv
<1>5. journal' = [journal EXCEPT ![s] = Append(@, e)]
  BY <1>1, <1>2 DEF AppendNote
<1>6. Grew(s, e)
  BY <1>3, <1>4, <1>5, Grown DEF JournalInv
<1>7. Tables'
  BY <1>3, <1>6, TablesAppend DEF AppendNote, CommandInv
<1>8. JournalGrows /\ StartsGrow
  BY <1>6 DEF Grew, AppendNote, StartsGrow
<1>9. CASE Leave(c)
  BY <1>7, <1>8, <1>9, LeaveKnows, OthersKnow DEF JournalInv, CommandInv
<1>10. CASE UNCHANGED local
  <2>1. \A d \in Callers : SameLocals(d)
    BY <1>10 DEF local, SameLocals
  <2>2. Knows(c)'
    BY <1>8, <2>1, StillKnows DEF JournalInv, CommandInv, CallersKnow
  <2>3. DOMAIN command' = Callers /\ DOMAIN seen' = Callers
    BY <1>10 DEF local, CommandInv, CallersKnow
  <2> QED BY <1>7, <1>8, <2>1, <2>2, <2>3, OthersKnow DEF JournalInv, CommandInv
<1> QED BY <1>9, <1>10 DEF AppendNote

\* A command begins: its question and its start receipt.
LEMMA BeginNewStep ==
    ASSUME JournalInv, JournalInv', CommandInv, NEW c \in Callers,
           NEW k \in Commands, NEW r \in Requests, BeginNew(c, k, r)
    PROVE  CommandInv'
<1>1. PICK s \in Sessions : s = SessionOf[r]
  BY JournalAssumption
<1>2. PICK e : e = NextEvent(s, "question_asked", c)
  OBVIOUS
<1>3. e.session = s /\ Replays(s, e) /\ e.kind = "question_asked"
  BY <1>1, <1>2, NextFits DEF BeginNew, JournalInv, NextEvent
<1>4. journal' = [journal EXCEPT ![s] = Append(@, e)]
  BY <1>1, <1>2 DEF BeginNew
<1>5. Grew(s, e)
  BY <1>3, <1>4, Grown DEF JournalInv
<1>6. started' = [started EXCEPT ![k] = @ \cup {[request |-> r, question |-> e]}]
  BY <1>1, <1>2 DEF BeginNew
<1>7. started[k] = {} /\ UNCHANGED <<completed, answers>>
  BY DEF BeginNew, NotStarted
<1>8. Tables'
  BY <1>1, <1>3, <1>5, <1>6, <1>7, TablesBegin DEF CommandInv
<1>9. PICK row : row = [request |-> r, question |-> e]
  OBVIOUS
<1>10. row.request = r /\ row \in started'[k] /\ StartsGrow
  BY <1>6, <1>9 DEF StartsGrow, CommandInv, Tables, ReceiptsAreTyped
<1>11. Knows(c)'
  BY <1>1, <1>10 DEF BeginNew, GoTo, Knows, Recalling, JournalInv, DraftsAreEvents,
                     CommandInv, CallersKnow
<1>12. /\ \A d \in Callers \ {c} : SameLocals(d)
       /\ DOMAIN command' = Callers /\ DOMAIN seen' = Callers
  BY DEF BeginNew, GoTo, SameLocals, JournalInv, DraftsAreEvents, CommandInv, CallersKnow
<1> QED BY <1>5, <1>8, <1>10, <1>11, <1>12, OthersKnow DEF Grew, JournalInv, CommandInv

\* A command completes: its evidence and its turn.
LEMMA CompleteStep ==
    ASSUME JournalInv, JournalInv', CommandInv, NEW c \in Callers, Complete(c)
    PROVE  CommandInv'
<1>1. PICK s \in Sessions : s = on[c]
  BY DEF Complete, JournalInv, DraftsAreEvents
<1>2. PICK e : e = draft[c]
  OBVIOUS
<1>3. PICK k \in Commands : k = command[c]
  BY DEF Complete, CommandInv, CallersKnow, Knows, Recalling
<1>4. PICK q \in started[k] : s = SessionOf[q.request]
  BY <1>1, <1>3 DEF Complete, CommandInv, CallersKnow, Knows, Recalling
<1>5. /\ e.sequence \in Nat \ {0} /\ e.session = s /\ e.kind = "evidence_attached"
      /\ Replays(s, e) /\ completed[k] = {}
  BY <1>1, <1>2, <1>3 DEF Complete, StillNext, JournalInv, DraftsAreEvents,
                          CommandInv, CallersKnow, Knows
<1>6. journal' = [journal EXCEPT ![s] = Append(@, e)]
  BY <1>1, <1>2 DEF Complete
<1>7. Grew(s, e)
  BY <1>5, <1>6, Grown DEF JournalInv
<1>8. PICK v : v = seen[c]
  OBVIOUS
<1>9. /\ IsSeq(v) /\ Len(v) = e.sequence /\ v[e.sequence] = e
      /\ \A i \in 1..e.sequence - 1 : v[i] = journal[s][i]
  BY <1>1, <1>2, <1>8 DEF Complete, CommandInv, CallersKnow, Knows, SawPrefix
<1>10. v = journal'[s]
  <2>1. PICK w : w = journal'[s]
    OBVIOUS
  <2>2. /\ IsSeq(w) /\ Len(w) = e.sequence /\ w[e.sequence] = e
        /\ \A i \in 1..e.sequence - 1 : w[i] = journal[s][i]
    BY <1>5, <1>7, <2>1 DEF Grew, JournalGrows, JournalInv, JournalsAreSeqs
  <2>3. \A i \in 1..Len(v) : v[i] = w[i]
    BY <1>5, <1>9, <2>2
  <2> QED BY <1>9, <2>1, <2>2, <2>3, SameSeq
<1>11. PICK turn : turn = [evidence |-> e, context |-> v]
  OBVIOUS
<1>12. turn.evidence = e /\ turn.context = journal'[s]
  BY <1>10, <1>11
<1>13. /\ completed' = [completed EXCEPT ![k] = @ \cup {turn}]
       /\ answers' = [answers EXCEPT ![k] = @ \cup {turn}]
       /\ UNCHANGED started
  BY <1>2, <1>3, <1>8, <1>11 DEF Complete, StoredContext
<1>14. Tables'
  BY <1>4, <1>5, <1>7, <1>12, <1>13, TablesComplete DEF CommandInv
<1>15. JournalGrows /\ StartsGrow /\ Leave(c)
  BY <1>7, <1>13 DEF Grew, StartsGrow, Complete
<1> QED BY <1>14, <1>15, LeaveKnows, OthersKnow DEF JournalInv, CommandInv

LEMMA CommandStep ==
    ASSUME JournalInv, JournalInv', CommandInv, [Next]_vars
    PROVE  CommandInv'
<1>0. /\ DOMAIN at = Callers /\ DOMAIN on = Callers /\ DOMAIN draft = Callers
      /\ DOMAIN command = Callers /\ DOMAIN seen = Callers /\ DOMAIN answers = Commands
      /\ \A c \in Callers : Knows(c)
  BY DEF JournalInv, DraftsAreEvents, CommandInv, CallersKnow, Tables, ReceiptsAreTyped
<1>1. ASSUME NEW c \in Callers, NEW s \in Sessions,
             NEW kind \in {"note", "session_closed"}, BuildNote(c, s, kind)
      PROVE  CommandInv'
  <2>1. Knows(c)' /\ \A d \in Callers \ {c} : SameLocals(d)
    BY <1>0, <1>1 DEF BuildNote, GoTo, NextEvent, Knows, Recalling, SameLocals
  <2>2. UNCHANGED shared /\ UNCHANGED <<command, seen, answers>>
    BY <1>1 DEF BuildNote
  <2> QED BY <1>0, <2>1, <2>2, QuietStep
<1>2. ASSUME NEW c \in Callers, NEW k \in Commands, NEW r \in Requests, BeginAgain(c, k, r)
      PROVE  CommandInv'
  <2>1. \E q \in started[k] : q.request = r
    BY <1>2 DEF BeginAgain, SameInput
  <2>2. UNCHANGED shared /\ UNCHANGED <<draft, seen, answers>>
    BY <1>2 DEF BeginAgain
  <2>3. Knows(c)'
    BY <1>0, <1>2, <2>1 DEF BeginAgain, GoTo, Knows, Recalling, shared
  <2>4. \A d \in Callers \ {c} : SameLocals(d)
    BY <1>0, <1>2 DEF BeginAgain, GoTo, SameLocals
  <2>5. DOMAIN command' = Callers
    BY <1>0, <1>2 DEF BeginAgain
  <2> QED BY <1>0, <2>2, <2>3, <2>4, <2>5, QuietStep
<1>3. ASSUME NEW c \in Callers, EndNote(c) \/ Refuse(c) \/ Stop(c) PROVE CommandInv'
  <2>1. Leave(c) /\ UNCHANGED shared /\ UNCHANGED answers
    BY <1>3 DEF EndNote, Refuse, Stop
  <2> QED BY <1>0, <2>1, LeaveKnows, QuietStep DEF JournalInv, CommandInv
<1>4. ASSUME NEW c \in Callers, ReturnCompleted(c) PROVE CommandInv'
  <2>1. Leave(c) /\ UNCHANGED shared
    BY <1>4 DEF ReturnCompleted
  <2>2. command[c] \in Commands
    BY <1>0, <1>4 DEF ReturnCompleted, Knows, Recalling
  <2>3. PICK turn \in completed[command[c]] :
           answers' = [answers EXCEPT ![command[c]] = @ \cup {turn}]
    BY <1>4 DEF ReturnCompleted
  <2>4. /\ DOMAIN answers' = Commands
        /\ \A k \in Commands : answers'[k] \subseteq answers[k] \cup completed[k]
    BY <1>0, <2>2, <2>3
  <2> QED BY <2>1, <2>4, LeaveKnows, QuietStep DEF JournalInv, CommandInv
<1>5. ASSUME NEW c \in Callers, Retrieve(c) \/ CheckCompletion(c) PROVE CommandInv'
  <2>1. UNCHANGED shared /\ UNCHANGED <<on, command, draft, seen, answers>>
    BY <1>5 DEF Retrieve, CheckCompletion
  <2>2. \A d \in Callers \ {c} : SameLocals(d)
    BY <1>0, <1>5 DEF Retrieve, CheckCompletion, GoTo, SameLocals
  <2>3. Knows(c)'
    BY <1>0, <1>5 DEF Retrieve, CheckCompletion, GoTo, Knows, Recalling, shared, SawPrefix
  <2> QED BY <1>0, <2>1, <2>2, <2>3, QuietStep
<1>6. ASSUME NEW c \in Callers, BuildEvidence(c) PROVE CommandInv'
  <2>1. UNCHANGED shared /\ UNCHANGED <<on, command, seen, answers>>
    BY <1>6 DEF BuildEvidence
  <2>2. \A d \in Callers \ {c} : SameLocals(d)
    BY <1>0, <1>6 DEF BuildEvidence, GoTo, SameLocals
  <2>3. Knows(c)'
    BY <1>0, <1>6 DEF BuildEvidence, GoTo, NextEvent, Knows, Recalling, shared
  <2> QED BY <1>0, <2>1, <2>2, <2>3, QuietStep
<1>7. ASSUME NEW c \in Callers, Project(c) PROVE CommandInv'
  <2>1. UNCHANGED shared /\ UNCHANGED <<on, command, draft, answers>>
    BY <1>7 DEF Project
  <2>2. \A d \in Callers \ {c} : SameLocals(d)
    BY <1>0, <1>7 DEF Project, GoTo, SameLocals
  <2>3. PICK s \in Sessions : s = on[c]
    BY <1>7 DEF Project, JournalInv, DraftsAreEvents
  <2>4. PICK e : e = draft[c]
    OBVIOUS
  <2>5. PICK j : j = journal[s]
    OBVIOUS
  <2>6. PICK v : v = Append(j, e)
    OBVIOUS
  <2>7. /\ IsSeq(v) /\ Len(j) \in Nat /\ Len(v) = Len(j) + 1 /\ v[Len(j) + 1] = e
        /\ \A i \in 1..Len(j) : v[i] = j[i]
    <3>1. IsSeq(j)
      BY <2>5 DEF JournalInv, JournalsAreSeqs
    <3> QED BY <2>6, <3>1, Appended
  <2>8. e.sequence = Len(j) + 1
    BY <1>7, <2>3, <2>4, <2>5 DEF Project, Replays
  <2>9. /\ seen'[c] = v /\ draft'[c] = e /\ on'[c] = s /\ journal'[s] = j
    BY <1>0, <1>7, <2>1, <2>3, <2>4, <2>5, <2>6 DEF Project, shared
  <2>10. SawPrefix(c)'
    BY <2>7, <2>8, <2>9 DEF SawPrefix
  <2>11. Knows(c)'
    BY <1>0, <1>7, <2>10 DEF Project, GoTo, Knows, Recalling, shared
  <2>12. DOMAIN seen' = Callers
    BY <1>0, <1>7 DEF Project
  <2> QED BY <1>0, <2>1, <2>2, <2>11, <2>12, QuietStep
<1>8. CASE UNCHANGED vars
  BY <1>8 DEF vars, CommandInv, CallersKnow, Knows, SawPrefix, Tables, ReceiptsAreTyped,
              OneQuestionPerCommand, OneEvidencePerCommand, ContextIsWhatFollowed,
              RepliesAgree, EventsOf
<1>9. CASE Next
  BY <1>1, <1>2, <1>3, <1>4, <1>5, <1>6, <1>7, <1>9,
     AppendNoteStep, BeginNewStep, CompleteStep DEF Next, Step
<1> QED BY <1>8, <1>9

\* The inductive invariant of the recall commands, in every reachable state.
LEMMA CommandAlways == Spec => []CommandInv
<1>1. Init => JournalInv /\ CommandInv
  BY JournalInit, CommandInit
<1>2. JournalInv /\ CommandInv /\ [Next]_vars => JournalInv' /\ CommandInv'
  BY JournalStep, CommandStep
<1> QED BY <1>1, <1>2, PTL DEF Spec

\* However often it is retried and whoever runs it, a command has one question,
\* and every question belongs to one command (begin_recall_command).
THEOREM OneQuestionAlways == Spec => []OneQuestionPerCommand
<1>1. CommandInv => OneQuestionPerCommand
  BY DEF CommandInv, Tables
<1> QED BY <1>1, CommandAlways, PTL

\* A command is answered at most once, by an evidence event after its question
\* that no other command shares (complete_recall_command).
THEOREM OneEvidenceAlways == Spec => []OneEvidencePerCommand
<1>1. CommandInv => OneEvidencePerCommand
  BY DEF CommandInv, Tables
<1> QED BY <1>1, CommandAlways, PTL

\* The context stored with a turn, projected before the transaction that stores
\* it, is the journal up to the evidence event, then and ever after.
THEOREM ContextIsExact == Spec => []ContextIsWhatFollowed
<1>1. CommandInv => ContextIsWhatFollowed
  BY DEF CommandInv, Tables
<1> QED BY <1>1, CommandAlways, PTL

\* Every call of a command, first or retried, returns the one persisted turn.
THEOREM OneReply == Spec => []RepliesAgree
<1>1. CommandInv => RepliesAgree
  BY DEF CommandInv, Tables
<1> QED BY <1>1, CommandAlways, PTL

\* Journals are chains, and the database refuses exactly what replay refuses.
THEOREM JournalsAlwaysHold == Spec => []JournalsHold
<1>1. ChainIntact /\ TriggerMatchesReplay => JournalsHold
  BY DEF JournalsHold
<1> QED BY <1>1, JournalIsChain, TriggerIsExact, PTL

\* One question, one answer and one reply for every command, under any retries.
THEOREM CommandsAlwaysHold == Spec => []CommandsHold
<1>1. OneQuestionPerCommand /\ OneEvidencePerCommand /\ RepliesAgree => CommandsHold
  BY DEF CommandsHold
<1> QED BY <1>1, OneQuestionAlways, OneEvidenceAlways, OneReply, PTL
====
