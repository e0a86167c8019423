# TLA+ models of Dithyramba

Dithyramba keeps a researcher's local memory: it captures files read-only, stores their
bytes and exact fragments, freezes snapshots, retrieves evidence for an agent, prepares and
validates answers, and records sessions, candidates and human decisions in one SQLite
database per Library. This directory holds its formal models: TLA+ modules translated from
the source under `src/`, TLC configurations that check them on small instances, and proofs
checked by TLAPS for every value of the constants. All paths below are relative to
`src/src/dithyramba/` unless they name a document.

`PROJECT.json` lists the components, the runs, a mutant for every checked property, the
source lines of every definition, the findings, the hazards and the theorems.

## The system

| Component | State | Operations | What is hard | What makes it correct |
|---|---|---|---|---|
| Provenance graph (`persistence/repository.py`) | collections, sources, families, identities, versions, heads, memberships, snapshots | `create_collection`, `record_processed_source`, `freeze_snapshot` | long sequences over two Collections and two ways to decide lineage | one root per family, bytes and identities stay in one family, snapshots stay loadable, events tell the heads |
| Outbox (`repository.py`) | `event_outbox` rows, `events.jsonl` | insert with each transaction, `export_outbox` | stop between append, fsync and mark; two exporters | one line per event, a delivered line stays, all are delivered |
| Blob store (`provenance/blobs.py`) | leaves, temporary names, locks | `promote`, `verify`, recovery of stale links | stop or power loss between any two system calls | a leaf is exact, a row has its blob, nothing blocks a digest |
| Ingest (`ingest/service.py`, `reader.py`) | runs, coverage reports | `ingest_collection`, `ingest_path` | files edited meanwhile, concurrent runs, failures charged to inputs | no old text comes back, reports account for every input once, runs end |
| Sessions (`sessions/`, `persistence/sessions.py`) | hash-chained journal, command receipts | `append_event`, `begin_recall_command`, `complete_recall_command` | tips read outside transactions, retries | one chain, one answer per command |
| Recall calls (`recall/service.py`) | `processing_runs` | recall, replay, batch; reload, record, recover | error or interruption around the commit, and inside its handlers | a run ends as what was committed, and the caller is told so |
| Recall rows (`persistence/recall.py`) | requests, receipts, read sets, packets, cache of validated scopes | three completion paths, `load_evidence_packet` | rows shared by content, reduced verification, several versions of the program | what was stored can be read, and reduced checks refuse what full ones do |
| Access (`access/`, `authorize_read`) | policies, snapshots, issued authorizations | compile, authorize, revalidate, read | authorization used after heads and memberships moved | no fragment outside the compiled scope is read |
| Facade and evidence gate (`interactive/service.py`, `evidence/coverage.py`) | scope sessions | `recall`, `prepare_answer`, `record_draft`, notes | read, compute, then write; compute again later | a preparation replays; a draft rests on enough independent evidence and no more |
| Meaning and Relations (`meaning/`, `persistence/meaning.py`, `relations.py`) | candidates, runs with their import keys, Relations, path receipts | import, extract, import Relations, traverse | content-named rows that grow under their reviews; backlog read before it is filled | backlog bounded, paths run through permitted text |
| Review (`review/`, `persistence/review.py`) | append-only decisions, review sessions | decide, supersede | two superseders, a budget counted over three tables | one decision in force, none withdrawn twice, none wider than what was seen |
| Answers and reasoning (`answers/`, `reasoning/`, `research/service.py`) | none: artifacts passed by callers | exact contract, coverage, entailment, projection, roles, trace, closure | every artifact may have been made for an earlier answer, packet or file | what is accepted, shown or reviewed was judged as it is |
| Answer archive (`persistence/answer_projection.py`, `reasoning.py`) | projections, role receipts, traces, closures, their events | `persist_*` | look and insert are apart | kept once, one event, after its parent |
| Structure (`structure/`, `persistence/structure.py`) | generations, units, read receipts | prepare, persist, resolve, read | other policies, exclusions and generations than those it was made under | whole sections, permitted to the reader, and every passage accounted for |
| Backup (`backup/`) | bundles, restored roots | create, verify, restore | cut of three stores that move on; restores that fail, are killed, or race | a bundle is closed, an open Library is whole and stays |

Interactions: ingest takes the lock of a file, asks the repository whether the file is
unchanged, promotes the blob, and calls `record_processed_source`, whose transaction writes
the provenance graph and its outbox rows together; `export_outbox` delivers those rows
later. The facade writes the session journal and asks recall for packets; recall, structure
and preparation read only through an authorized snapshot. Generators and importers put
candidates beside the provenance graph, reviewers decide on them, and only admitted
Relations carry paths. SQLite serialises writers (`BEGIN IMMEDIATE`, `synchronous = FULL`),
so every transaction is one action of a model; file system calls and reads outside a
transaction are actions of their own.

## Modules

A module is extended where components share state: `Backup` extends `Outbox` (a restored
Library goes on exporting), `Preparation` and `Structure` extend `RecallStore` (both read
through its snapshots and access), `Candidates` extends `MeaningGraph`, `AnswerReview`
extends `AnswerGates` and `AnswerArchive`. `Outbox` is shown to implement `EventLog`.

### Provenance (with MCProvenance, ProvenanceProofs)

`persistence/repository.py` 213-280, 579-662, 1116-1607, 2108-2212, 2710-3131. One action
per outcome of `record_processed_source`: a new root, a new relative (duplicate or
derivative), a change, an unchanged file, a revert; one for `create_collection`; one for
`freeze_snapshot`. Every call is one transaction; a refused call changes nothing and has no
action. A Source is its URI, bytes are their digest, a declaration of an identity manifest
is a model value that names its logical URI, a family is its number. `RootUris` and
`Declaration` are the Collections' configuration. A snapshot stores its scope, its rows and,
in place of the manifest hash, the manifest itself: `Reconstruct` looks lineage and bytes up
in the present state as the code does. Of the outbox only the kind, subject and version of
an event are kept.

Abstracted: fragments and parsing (a profile stands for them), access policies, times.
`create_collection` freezes the configuration, so the same Collection never changes roots.

### EventLog, Outbox (with MCOutbox, OutboxProofs)

`EventLog` is what the docstring of `export_outbox` promises: an event is committed, then
published at most once, then called delivered, and only the undelivered tail can be lost.
`Outbox` is the code, step by step: lock, read the file, list the pending rows, look each
one up, write (perhaps in parts), fsync, mark. `file` holds complete lines, `tail` the event
of a partial last line, `synced` how many lines are on the disk. `Stop` ends an export
anywhere; `PowerLoss` keeps any prefix that contains the synced lines. `Faults` says which
of the two happens inside a write. `Next` has both; `PoweredNext`, of the fair
specification, is a machine that keeps its power. `ImplementsLog` is the refinement:
`committed`, `published` and `delivered` are the rows that exist, the lines, and the rows
marked.

### Backup (with MCBackup, OutboxProofs)

`backup/bundle.py` and the root creation of the Library layout. A backup copies the database
in one cut, writes the event log **from that copy** (every row, in the order of its time
stamps, delivered or not), and copies the blobs the copy refers to, while the actions of
`Outbox` and further ingests go on. A restore makes the root, which must not exist, and
fills and opens it file by file; `FailRestore` removes what it made, `KillRestore` does not.
Once a root is open, the variables of `Outbox` follow it, so that later exports meet rows
that are pending and lines that are already there. Path checks, modes and the inspection
commands are left out.

`OpenLeftOver` records a fact worth knowing: `open_library` looks at the layout and the
database only, so a restore that was killed after its database leaves a root that opens with
fewer blobs and lines than its rows say. `half` marks that Library; the property exempts it.

### BlobStore (with MCBlobStore, BlobStoreProofs)

`provenance/blobs.py`. One shard directory with per-digest locks. A file is named by the
temporary name it was created under; `names` and `leaf` are the directory as processes see
it, `disk` what was fsynced (and the names born since, which may or may not survive),
`synced` the files whose bytes were fsynced. `Fail` is a raised error or interrupt, with the
`finally` clauses that unlink the temporary name; `Kill` leaves it; after `PowerLoss`
every unsynced name and every unsynced content is kept or lost independently. `exposed` is a
history variable: the digests whose publication or recovery ended before the fsync of the
shard. Directories above the shard, their creation and modes are abstracted: the promotion
of the first blob of a shard has the same window one level up.

### Ingest (with MCIngest, IngestProofs)

`ingest/service.py` 71-147 and 218-387, `ingest/reader.py`. A generation counts what the
user did to a file; `ContentOf` gives the bytes of each generation (or `Missing`), so equal
bytes at different times are distinguished by when they were captured. Runs take the lock of
the file, capture, ask for a reusable version, compare the file again, promote, record and
append the outcome. `todo` is the set of positions of the current root still to do, as the
files of a root are found once and in an order of their own. `Raise` is any exception that
is not an `IngestError`, from any place, charged as the code charges it; `GiveUp` is a
failure receipt that cannot be written; `Kill` ends the process. What the transaction of
`Record` writes is Provenance's subject, what happens inside `Promote` BlobStore's.

### SessionJournal (with MCSessionJournal, SessionJournalProofs)

`persistence/sessions.py`, `sessions/service.py`, the trigger of
`research_session_events`, and `recall` of `interactive/service.py`. An event stands for its
own hash: `previous` is the preceding event. A call is a sequence of reads and transactions:
begin (question and receipt), look for a completion, retrieve, build the evidence event,
project the context, look again, and complete in a transaction that replays the journal once
more. The start and completion receipts of a command are sets of rows, as the query finds
them; a command with more than one row is refused, and that there never is more than one is
a property and not a type. "note" is every kind that a single `append_event` writes. Artifact references,
the canonical forms, and the bound of the projected context are abstracted.

### RecallRun (with MCRecallRun, RecallRunProofs)

`recall/service.py` 734-1226. One call: a recall, a replay, or a batch of `Size` recalls in
one scope. It persists its requests, begins a run for each, builds the packets and completes
all runs in one transaction. Every store call may raise before or after its commit, and an
interruption may arrive in any of them, those of the handlers included; the handlers reload
each run, record a failure or recover a committed success. The loops of
`_reload_lifecycle` and `_record_failed_run` keep their limits (`Getting`, `Recording`).
The rows belong to one call, whose IDs are fresh, so calls need not be interleaved here.
`Kill` ends the process; that it leaves a run "running" is the one case the properties
except.

### RecallStore (with RecallStoreProofs)

`persistence/recall.py`, `access/compiler.py`, `authorize_read` and its revalidation. A row
is its content; a Source version is one fragment. Runs of several versions of the program
(`Codes`) take one of three paths to a completion: the full verification, a scope session
through the in-process cache of validated scopes (`Capacity`, evicted in order, emptied by a
restart), or a batch whose later members are verified against its first. Receipts, read sets
and packets are inserted unless they are there. `Loads` is `load_evidence_packet`, which
verifies everything again. Policies, exclusions and holdouts are in `Terms`, `Holdouts` and
`Feeds`; ingests and freezes go on. The properties of a full verification
are stated over every request of the Library, not only over those that a run happened to
make. Size limits and the ephemeral search that persists nothing are left out.

### Preparation (with MCPreparation, RecallStoreProofs)

`interactive/service.py` (`prepare_answer`, `record_draft`) and `evidence/coverage.py`. It
refines RecallStore's versions into passages: `Broad` are those that a bounded recall brings
up; noise, anchors and rank are constants, the noise the same for every question. The gate
is the code's: requirements with their selectors, anchors and forbidden anchors, counted in
independent families, a total, a decision, one drilldown inside a few Sources
(`MaxSources`), and the compaction that drops passages from the last. Candidates are a set;
their order, the broad ones by rank and then those of the drilldown, is what `Place` gives
the compaction, and nothing else depends on it. The drilldown reads
the corpus of a scope session or a fresh read, and both are in the model. The eviction of
scope sessions beyond the facade's capacity is not; `MayPrepare` lets a session be there or
not at any time.

### MeaningGraph, Candidates (with MCCandidates, CandidatesProofs)

`meaning/validation.py`, `persistence/meaning.py`, `relations.py`, `review.py`.
`MeaningGraph` has the rows and what is computed from them: the grounding of a node, the
Collections it reaches, the permitted nodes and paths. `Candidates` has two clients that
import proposals, call a generator, import Relations, decide, supersede, and store the
receipts of paths. Each operation reads first and writes later in one immediate transaction;
`op` holds what it read, which may be stale by then. Entities are like Concepts without
meanings, time contexts like voices. A proposal has succeeded with a graph or failed
(`ValidProposal`), and a generator's answer is an oracle over the proposals. Three facts that the
model brought out, none of them contradicting the documents:

- a refused import stays refused under its import key, while a refused extraction may be
  tried again;
- imports of Relations do not pass the backlog check, so `BacklogBounded` is about the
  candidates of meaning;
- a target that was resolved can become unresolved again: a later import lets it
  reach a Collection that no decision in force covers.

### AnswerGates, AnswerArchive, AnswerReview (with MCAnswerReview, ProvenanceProofs)

`AnswerGates` has no state: the validity of an answer, the exact quotation contract, the
coverage spec, the entailment receipt, the unified validation, the projection with its role
receipt, the trace and its closure, one operator each. `AnswerReview` lets agents, judges and
authors hand in artifacts in any order while the draft, the route (packet and spec) and the
local files change, so that each gate meets artifacts made for something else.
`AnswerArchive` is the append-only store: parent and row are looked for outside the
transaction that inserts the row and its event. Schema versions, prompts, and the gaps and
experiments of a trace are left out.

### Structure (with MCStructure, RecallStoreProofs)

`structure/` and `persistence/structure.py`, on RecallStore's snapshots and access. Sections
are maximal runs of passages with one heading path in a Markdown version whose permitted
passages have no gap; the rest is omitted or excluded, with the code's reasons. A section's ID
covers its content and not its generation: the primary key therefore refuses a second
generation that holds a section of the first (`InsertUnits`). That is why a client that
persisted all sections of a request cannot persist a page of them afterwards; the refusal
is an error of the store and loses nothing. The process's cache of loaded
generations is in the model and is emptied by a restart.

## Runs

| Run | Module | Shows |
|---|---|---|
| `mixed` | MCProvenance | lineage, identities, snapshots and events over two Collections, with and without a manifest |
| `interrupt` | MCOutbox | delivery at last, and the refinement of EventLog, with exports stopped anywhere |
| `unsynced` | MCOutbox | finding: stop inside a write, retry, loss of power lose a delivered line |
| `backup` | MCBackup | closed bundles, a whole Library and no lost root, beside exports and losses of power |
| `stops` | MCBlobStore | exact leaves, rows with blobs outside the one window, no digest blocked |
| `nested` | MCIngest | concurrent runs over nested roots with edits and faults |
| `retry` | MCSessionJournal | the journal and the command receipts under racing callers; a started command is answered |
| `settle` | MCRecallRun | runs and reports agree under errors and interruptions anywhere; the call ends |
| `receipts` | MCPreparation | packets stay readable, reduced checks suffice, only permitted text is read, preparations replay, drafts cite what they need |
| `candidates` | MCCandidates | backlog, decisions, admissions and paths under two concurrent clients |
| `answers` | MCAnswerReview | no stale artifact is accepted, shown, reviewed or kept twice |
| `sections` | MCStructure | sections stay whole, readable and accounted for |

Bounds and why they suffice.

- `mixed`: three files, two contents, one profile, two versions of a file, eight events.
  Three files are needed for a family with a root, a relative and a Source that might belong
  elsewhere; two contents to change and revert; two Collections for a file that is declared
  and undeclared. The theorems remove these bounds for all five properties.
- `interrupt`, `unsynced`: three events, one of which commits last and sorts first (its time
  stamp is taken before its transaction), two exporters, three and two stops: one for each
  of write, fsync and mark, or a stop and a loss of power on top of a retry.
- `backup`: the same three events, two blobs (one shared by two events), one exporter with
  power lost inside its writes (`PowerOnly`), two stops, two restorers for the race for one
  root, two failures or kills: one of the backup and one of a restore, or of both restores.
- `stops`: one digest, two promoters, three stops, four temporary files, so that a stop, a
  recovery that is itself stopped and a loss of power can follow one another; a fourth stop
  adds no new place. Deadlock is checked: no state leaves all promoters stuck.
- `nested`: two runs, an outer and an inner root with one common file, three generations of
  each file (one file is changed and changed back, the other becomes unparsable and
  vanishes), two faults. Deadlock is off because all runs end.
- `retry`: two callers, two commands of one request in one session, one stopped call; notes
  are added up to two events, so that a note, a closure or the other command can fall
  between any two steps of a call. Deadlock is off because a closed journal admits nothing.
- `settle`: a batch of two (its first member and its last), two readings and three
  recordings, which are the attempts the code makes, and two interruptions: one of the call
  and one of its handler. Errors are unbounded. Deadlock is off because the call ends.
- `receipts`: two Sources in two families, three Collections of which one is a holdout, one
  version of each file, one snapshot (what is ingested afterwards must not show), two codes,
  two runs (the second finds the rows of the first), one scope session and a cache of one,
  two questions, two policies of which one excludes a family, two passages of which the
  recall brings up one, one gate that the recall alone does not satisfy, and one
  preparation. One snapshot is enough for the properties of packets because
  RecallStoreProofs has them for any number, and for any number of versions; `sections` has
  two of both.
- `candidates`: two clients, two Collections, two fragments, two Relations, three proposals
  and a failed one from the generator, a backlog of five that two concurrent imports could
  exceed, a budget of two decisions in one review session, three decisions (an acceptance, a
  rival and a supersession), two runs and one path receipt.
- `answers`: two routes, five drafts (one reworded, one empty, one malformed), two states of
  the files, seven receipts (among them incomplete, doubled and crossed ones); one change,
  one receipt and two artifacts after the first, which is one artifact for every stale use;
  two writers, three writes (one artifact twice and its parent).
- `sections`: one client that builds and one that reads, two Sources, one with two sections,
  one of them too long until its second version, and one that is no Markdown; two snapshots
  and generations, and two requests, one of which hides passages at the end of a section and
  in the middle of another; two reads and one resolution.

Deadlock is off in the runs whose bounds use up every action (all but `interrupt`,
`unsynced` and `stops`). Symmetry is used for contents (`mixed`), codes (`receipts`), clients
(`candidates`) and writers (`answers`), and not in runs with liveness properties. The type invariants
of the modules with a proof module are proved where the theorems list them, and are not
properties of a run.

## Fairness

- Outbox: a running export takes its next step, and somebody exports again. Nothing under
  `src/dithyramba` calls `export_outbox`: it is offered to the embedding application, whose
  part it is to call it, and to call it again after a stop as the tests do. Without a further
  call nothing is delivered, so the liveness property is about that use, on a machine that
  keeps its power.
- BlobStore: a running call takes its next step and a waiter for a digest's lock gets it at
  last (strong, as the lock is taken in turns); the ingest of a digest is repeated until its
  row is committed.
- Ingest: a run that is not cut off takes its next step. Nothing is assumed of users, faults
  or repeated runs.
- SessionJournal: a running call takes its next step, and a command without an answer is
  called again. Idempotent commands exist for exactly this retry; a transport that gives up
  leaves the command started.
- RecallRun: the call takes its next step, which may be an error each time: errors of the
  store are unlimited and the loops of the handlers end by their own limits. Interruptions
  are bounded, since somebody who interrupts every handler for ever keeps a call from ending.
- The other modules state safety only: their operations are single calls that nobody waits
  for, or are served by the loops above.

## Proofs

`ProvenanceProofs` proves, for any Collections, files, contents, manifests and bounds:
`TypeCorrect`, `LineageCorrect`, `SameBytesCorrect` (together `FamiliesAlwaysHold`),
`IdentityCorrect` and `SnapshotsDurable`. `TypeOK` is inductive with its clause that a Source
has a version and its head is one of them. `OneRootPerFamily` is inductive over types because
a family is created with its root and a relative takes the root of a lineage that resolves.
`SameBytesSameFamily` needs that `CompatibleBytes` compares with every holder, not only the
first found. `IdentityNeverRebound` needs that an identity's family was created for it alone.
`SnapshotsReconstruct` rests on three monotonic facts: a version is never changed, a member
row is never changed, and a row of a snapshot names a version that exists.
`DuplicatesKeepTheirTwins` gives `DuplicateHasTwin`: a Source has the status because another
held its bytes, and content is never taken from a version (`BytesKept`).
`OutboxAlwaysReplaysHeads` speaks of the rows of a Source by their place in the order of
commits. `OutboxTold` is inductive: version events of a Source are numbered as its versions
are, and the last event about it names its head. Each action appends one row or none, which
leaves every earlier place as it was (`RowsAsBefore`).

Its second part is about AnswerReview. `ArchiveInv`: the log names each artifact on the shelf
once and after its parent, and a writer past its look has the parent on the shelf already,
since no row is removed; this gives `EverythingIsKeptOnce`. `ReviewInv` says of what lies on
the desk that a result, if it was accepted, is `Sound` (it is the validation of the very
answer, packet and spec that its case set names, over a receipt that judges every case once),
that a projection is well formed (`Projected`) and a trace valid (`ValidTrace`), and with them
the two properties of what was displayed and closed. `AcceptedIsJudged` unfolds Sound.
`DisplayedIsAlwaysRouted` needs that propositions that follow each other without a gap have
the answer's text when they are put together (`TextIsShown`). `ReviewedIsAlwaysGrounded` needs
`NoCircle`: premises come earlier, so a set of steps that only lead to each other has no
first one.

`OutboxProofs` proves `TypeCorrect`, `LockedDelivery` (the inductive invariant: only the
holder of the lock is past it; what it knows is in the file; no line is twice; the row it
works on is pending), `NeverTwice` and `DeliveryUndisturbed` for any set of events, exporters
and faults, with losses of power. `DeliveredStays` and `OutboxImplementsLog` assume
`RetryIsSafe`: not both interruption inside a write and loss of power. Without that
assumption they are false, which is the finding of run `unsynced`. Their invariant adds that
what an exporter knows, and what is delivered, lies below the synced length of the file
whenever power can be lost.

For Backup, which extends Outbox, `BackupCorrect` proves `BackupInv`: the draft of a bundle is
a cut (`DraftIsACut`: rows, then the whole log of those rows, then blobs), a published bundle
is sound (`BundleIsSound`), one restorer at a time is between making the root and opening it
(`OneRestorer`), and what a restore has written is part of the bundle (`TargetIsPart`).
`BundlesAreClosed` rests on the fact that the log is written from the copy and not from the
file that goes on growing. `LibraryStaysWhole` (under `RetryIsSafe`, as DeliveredStays) adds
that a Library is half restored or durable; `OpenedLibrariesStay` is the action property.

`SessionJournalProofs` proves every safety property of the run, for any sessions, callers,
commands, requests and bounds. `JournalInv` is the inductive invariant
of the journal: each one is a sequence of its own events, chained, and a caller past the
building of an event holds one with a sequence number for its session. It makes the trigger
equivalent to replay (`TriggerIsReplay`), hence a note that the database lets in extends the
chain (`ChainGrows`). `CommandInv` adds what a caller knows: the session of its command's
request, the kind of its draft, and, once it has projected, that the context it holds is the
journal below its draft's sequence and the draft itself (`SawPrefix`). Journals only grow
(`Grown`), so that stays true whatever the other callers do (`StillKnows`); the replay
inside the transaction then leaves one possibility, that the context is the journal the
transaction writes.

`BlobStoreProofs` proves `TypeCorrect`, `PublishedIsAlwaysExact` and `RowsKeepTheirBlobs`, for
any promoters, digests, files and stops. `Exact` says who owns which temporary file and that
it is whole and synced before it is linked; a leaf's file is therefore synced from its
first moment. `Durable` says of each leaf either that the disk has its name, or that a call
between link and fsync still has to put it there, or that the digest is exposed.

`IngestProofs` proves `TypeCorrect` (with the lock discipline: a run holds exactly the lock
of the input it is at), `HeadsNeverGoBack` and `ReportsAreAlwaysTrue`, for any files, nested
roots, runs, edits and faults. `InOrder` places what a run has captured between what is
current and what is on the disk; one run per file (from the locks) makes a commit of it
go forward. `AllAccounts` places each input of a run in one of four: still to be found,
pending, in hand, or with its one outcome; the last outcome is where an exception
charges its failure.

`RecallRunProofs` proves `CallTypeCorrect`, `EndedRunsAreAlwaysTerminal`,
`OutcomesAlwaysMatchRows` and `InterruptionsAreReported`, for any size of batch, limits and
number of interruptions. The properties speak of ended calls; the invariant says how far the
happy path has got (`PathInv`), what the handlers have settled and which interruption they
still owe (`SettleInv`), and what rows there can be (`RowsInv`).

`RecallStoreProofs` proves `PacketsAlwaysReadable`, `ReducedChecksAlwaysSuffice` and
`OnlyPermittedIsEverRead`, for any Library, policies, sessions, runs and versions of the
program. Every packet is the function of its request and its code that `Assemble` and
`Prepare` define (`Good`), sessions and cache entries hold the prepared corpus of their
scope, and nothing changes a frozen snapshot; then the code that verifies less accepts
nothing else. `ReceiptInv` gives every shared receipt a succeeded run whose packet has it.

It also proves what reads through RecallStore. For Structure, `SectionsAlwaysReadable`,
`WholeSectionsAreEverRead` and `PermittedIsAlwaysAccountedFor`: a unit row belongs to a single
persisted generation and is a natural section (`UnitsInv`), a resolved unit is of a
generation of its request, which may read all of it (`ResolvedInv`), and what a client has in
hand is natural and whole as well (`ClientsInv`). The last of the three has no invariant: it is a fact about the
generator's operators, that a permitted passage lies in one run of one heading or in none
(`RunAround`, `OneRunAround`). For Preparation, `PreparationsAlwaysReplay` and
`DraftsAreAlwaysGrounded`: a preparation is the function of its packet that a protected read of
the packet's scope determines (`PreparationInv`), hence any session that may ask computes the
same. That one pass of the compaction is enough (`CompactIsMinimal`) needs that coverage only
grows with passages (`SatisfiedGrows`: a passage that was missed while there were more is
missed to the end) and that no two candidates share a place (`PlacesDiffer`).

`CandidatesProofs` proves `DecisionsStayConsistent`, `GrowthAlwaysEndsAdmission`,
`BacklogAlwaysBounded` and `PathsAlwaysPermitted`, for any graph, clients, sessions and limits.
`Review` says of every prepared decision that the decision it would supersede exists and that
its scope fitted the closure when it was examined; rows are only appended (`OneMore`), so the
checks inside the transaction decide.
An admission names the closure its reviewer saw, and closures only grow.

`BacklogAlwaysBounded` needs `Backlog`: what is submitted with a graph has succeeded, the stored
graph is finite, and a candidate without a decision is unresolved, because every node reaches
some Collection (`UndecidedIsUnresolved`). What is undecided after an import is then within the
unresolved and the new candidates that its transaction counts (`PersistBacklog`).
`PathsAlwaysPermitted` holds as each step of a path is an authorized Relation to an authorized
node (`StepsArePermitted`) and a path is found and its grounding judged in one transaction.

Assumptions: only the named ASSUMEs of the component modules, on the constants, and
`RetryIsSafe` where it is named. What the ASSUMEs say is what the code's own types and
contracts establish before any of these calls: well-formed proposals (`ValidProposal`, the
checks of `MeaningProposal`), layouts and receipts of the declared shapes
(`ReviewAssumption`), ranks that tell passages apart, and a finite Library
(`PreparationAssumption`). TLC evaluates each of them on the instance of a run.

Model-checked only: liveness under fairness (`EventuallyDelivered`, `EventuallyStored`,
`RunsEnd`, `StartedIsAnswered`, `CallEnds`), which with ENABLED is beyond the proof system as
it is set up here. Every other property of a passing run is a theorem. The library's
induction theorems cannot be instantiated either; where a proof goes by induction over Nat
it takes a least counterexample, which well-foundedness gives (`WFMin`). No module uses
RECURSIVE.

## Findings

`unsynced`: the deduplicating branch of `export_outbox` (`repository.py:2592`) marks a row for
a line it found without syncing that line. An export killed between write and fsync, a retry
and a loss of power take the line of a delivered row away, against the docstring at
`repository.py:2562-2567`. One more fsync closes it.

Three further edges of the code are in the models and bound what the properties say:

- The branch of `promote` for an existing leaf (`blobs.py:184`) does not sync the shard, so a
  retry after a stop can commit a row whose blob name a loss of power still takes.
  `RowHasBlobUnlessExposed` names exactly this window with `exposed`.
- An identity binding belongs to one version. A change through a Collection without a
  manifest leaves the current version unbound, and the Collection with the manifest is then
  refused the unchanged file (`repository.py:2823`); its run fails until the file changes.
- `record_draft` cites the packet and the first 31 matched fragments (`service.py:442`), the
  limit of an event's references; nothing tells of what is cut off. No instance has so many.

## Not modelled

- Parsers and the PDF worker: the parse is an oracle of Ingest; the worker's timeout and memory
  monitor are threads over a subprocess.
- Scores, tokens and noise rules of retrieval, fragment text, canonical JSON and SHA-256: a
  hash stands for what it covers; ranks and noise are constants.
- The LRU that closes scope sessions of the facade beyond its capacity, and the renderings
  of turns.
- Store and migrations: there is one migration at this commit, applied in one transaction to a
  database under a fresh root.
- Atlas, ontology, timelines, reading room: projections without state of their own.
- HTTP, MCP, command line, connectors: transports and formats over the modelled services.
- Collection value objects, path boundaries, private modes: input checks and I/O.

`PROJECT.json` gives the reason for each, and for the hazards that no property covers.

## Plan

Done: Provenance, Outbox and EventLog, SessionJournal, BlobStore, Ingest, RecallRun, RecallStore
with access, Preparation, Candidates, Answers, Structure, Backup.

Left, in this order:

1. The facade's LRU of scope sessions, composed with Preparation, and two concurrent calls of
   one command that each persist a recall (`interactive/service.py` 184 and 510-524).
2. Provenance and Ingest composed: the transaction of `Record` as the actions of Provenance.
3. Creation of one Library by two processes (`store/database.py` 111).
