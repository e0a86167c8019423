---- MODULE Backup ----
(***************************************************************************)
(* Backup and restore of a Library that goes on working.                   *)
(* create_backup_bundle of backup/bundle.py copies the database in one     *)
(* consistent cut, writes the event log from that copy and then copies the *)
(* blobs the copy refers to, while other processes commit and export.      *)
(* restore_backup_bundle builds a new root file by file and opens it at    *)
(* last.  Once a restored Library is open, the variables of Outbox follow  *)
(* it and no longer the original.                                          *)
(***************************************************************************)
EXTENDS Outbox, FiniteSets

CONSTANTS
    Blobs,        \* content digests
    BlobsOf,      \* Event -> the blobs that its transaction's rows refer to
    Restorers,    \* processes that restore the bundle under one data root
    NoBundle,
    MaxKills      \* bound: backups and restores that fail or are killed

ASSUME BackupAssumption ==
    /\ BlobsOf \in [Events -> SUBSET Blobs]
    /\ \A e, f \in Events : Rank[e] = Rank[f] => e = f
    /\ MaxKills \in Nat

VARIABLES
    leaves,       \* the blobs in the live Library's store
    draft,        \* the staging directory of the running backup
    bundle,       \* the backup under its final name
    root,         \* the root to restore into: none, made, open
    target,       \* what that root holds until it is open
    restorer,     \* where each restorer is
    kills,        \* how many backups and restores ended early
    half          \* the open Library was left half restored

bundleVars == <<leaves, draft, bundle>>
restoreVars == <<root, target, restorer, half>>
allVars == <<vars, bundleVars, restoreVars, kills>>

NoRows == [e \in Events |-> "absent"]
EmptyCopy == [rows |-> NoRows, lines |-> <<>>, blobs |-> {}]

RowsIn(table) == {e \in Events : table[e] # "absent"}
BlobsIn(table) == UNION {BlobsOf[e] : e \in RowsIn(table)}

\* Every row of event_outbox, delivered or not, by (occurred_at, event_id).
NumberOf(e, table) == Cardinality({f \in RowsIn(table) : Rank[f] <= Rank[e]})
EventLogOf(table) ==
    [i \in 1..Cardinality(RowsIn(table)) |-> CHOOSE e \in RowsIn(table) : NumberOf(e, table) = i]

BackupInit ==
    /\ Init
    /\ leaves = {}
    /\ draft = NoBundle /\ bundle = NoBundle
    /\ root = "none" /\ target = NoBundle
    /\ restorer = [r \in Restorers |-> "idle"]
    /\ kills = 0 /\ half = FALSE

----------------------------------------------------------------------------
(* The Library at work *)

\* An ingest promotes its blobs before it commits the rows that name them.
StoreBlob(b) ==
    /\ leaves' = leaves \cup {b}
    /\ leaves' # leaves
    /\ UNCHANGED <<vars, draft, bundle, restoreVars, kills>>

CommitSource(e) ==
    /\ BlobsOf[e] \subseteq leaves
    /\ Commit(e)
    /\ UNCHANGED <<bundleVars, restoreVars, kills>>

Export(x) ==
    /\ Acquire(x) \/ Step(x) \/ WritePart(x) \/ Stop(x)
    /\ UNCHANGED <<bundleVars, restoreVars, kills>>

LosePower ==
    /\ PowerLoss
    /\ UNCHANGED <<bundleVars, restoreVars, kills>>

----------------------------------------------------------------------------
(* create_backup_bundle *)

CopyDatabase ==
    /\ draft = NoBundle /\ bundle = NoBundle
    /\ draft' = [at |-> "copied", rows |-> rows, lines |-> <<>>, blobs |-> {}]
    /\ UNCHANGED <<vars, leaves, bundle, restoreVars, kills>>

\* Broken variant: the log is derived from the live rows.
LiveRows(copy) == EventLogOf(rows)

LogToKeep(copy) == EventLogOf(copy.rows)

WriteEvents ==
    /\ draft # NoBundle /\ draft.at = "copied"
    /\ draft' = [draft EXCEPT !.at = "logged", !.lines = LogToKeep(draft)]
    /\ UNCHANGED <<vars, leaves, bundle, restoreVars, kills>>

BlobsToKeep(copy) == BlobsIn(copy.rows)

CopyBlob(b) ==
    /\ draft # NoBundle /\ draft.at = "logged"
    /\ b \in BlobsToKeep(draft) \ draft.blobs
    /\ b \in leaves
    /\ draft' = [draft EXCEPT !.blobs = @ \cup {b}]
    /\ UNCHANGED <<vars, leaves, bundle, restoreVars, kills>>

\* Every hash the manifest states is recomputed from the bundle: the event log
\* from the database, the blobs from its rows.
Verified(copy) ==
    /\ copy.lines = EventLogOf(copy.rows)
    /\ copy.blobs = BlobsIn(copy.rows)

\* os.replace gives the bundle its name, then verify_backup_bundle reads it.
PublishBundle ==
    /\ draft # NoBundle /\ draft.at = "logged"
    /\ BlobsToKeep(draft) \subseteq draft.blobs
    /\ draft' = NoBundle
    /\ bundle' = [rows |-> draft.rows, lines |-> draft.lines, blobs |-> draft.blobs]
    /\ UNCHANGED <<vars, leaves, restoreVars, kills>>

EndEarly == kills < MaxKills /\ kills' = kills + 1

\* An error removes the staging directory; after a kill nobody looks at it.
StopBackup ==
    /\ draft # NoBundle
    /\ EndEarly
    /\ draft' = NoBundle
    /\ UNCHANGED <<vars, leaves, bundle, restoreVars>>

----------------------------------------------------------------------------
(* restore_backup_bundle *)

RestorerAt(r, place) == restorer' = [restorer EXCEPT ![r] = place]

\* The bundle is verified and the destination is looked at ...
BeginRestore(r) ==
    /\ restorer[r] = "idle"
    /\ bundle # NoBundle
    /\ Verified(bundle)
    /\ RestorerAt(r, IF root = "none" THEN "make" ELSE "refused")
    /\ UNCHANGED <<vars, bundleVars, root, target, half, kills>>

\* ... mkdir decides who makes it: an empty database, an empty log, no blobs.
MakeRoot(r) ==
    /\ restorer[r] = "make"
    /\ root = "none"
    /\ root' = "made"
    /\ target' = EmptyCopy
    /\ RestorerAt(r, "database")
    /\ UNCHANGED <<vars, bundleVars, half, kills>>

\* Broken variant: whoever fails removes the root by its path.
RemovesByPath(r) == TRUE

\* Only the call that made the root has set "paths".
RemovesRoot(r) == restorer[r] \notin {"idle", "make"}

CleanUp(r) ==
    IF RemovesRoot(r) THEN root' = "none" /\ target' = NoBundle ELSE UNCHANGED <<root, target>>

LoseRace(r) ==
    /\ restorer[r] = "make"
    /\ root # "none"
    /\ CleanUp(r)
    /\ RestorerAt(r, "refused")
    /\ UNCHANGED <<vars, bundleVars, half, kills>>

\* Its next step needs the root it made.
Building(r, place) == restorer[r] = place /\ root = "made"

RestoreDatabase(r) ==
    /\ Building(r, "database")
    /\ target' = [target EXCEPT !.rows = bundle.rows]
    /\ RestorerAt(r, "events")
    /\ UNCHANGED <<vars, bundleVars, root, half, kills>>

RestoredLog == bundle.lines

RestoreEvents(r) ==
    /\ Building(r, "events")
    /\ target' = [target EXCEPT !.lines = RestoredLog]
    /\ RestorerAt(r, "blobs")
    /\ UNCHANGED <<vars, bundleVars, root, half, kills>>

RestoreBlob(r, b) ==
    /\ Building(r, "blobs")
    /\ b \in bundle.blobs \ target.blobs
    /\ target' = [target EXCEPT !.blobs = @ \cup {b}]
    /\ UNCHANGED <<vars, bundleVars, root, restorer, half, kills>>

\* From here on the outbox is the opened Library's: nobody exports it yet.
FollowTarget ==
    /\ rows' = target.rows /\ file' = target.lines /\ leaves' = target.blobs
    /\ synced' = Len(target.lines) /\ tail' = NoEvent
    /\ lock' = Nobody
    /\ at' = [x \in Exporters |-> "idle"]
    /\ known' = [x \in Exporters |-> {}]
    /\ todo' = [x \in Exporters |-> {}]
    /\ event' = [x \in Exporters |-> NoEvent]
    /\ root' = "open"
    /\ UNCHANGED stops

\* Opened, compared with the manifest once more and returned.
ReturnRestored(r) ==
    /\ Building(r, "blobs")
    /\ bundle.blobs \subseteq target.blobs
    /\ target.rows = bundle.rows /\ Verified(target)
    /\ FollowTarget
    /\ RestorerAt(r, "done")
    /\ UNCHANGED <<draft, bundle, target, half, kills>>

Restoring == {"database", "events", "blobs"}

\* An error: the call that made the root removes it.
FailRestore(r) ==
    /\ restorer[r] \in Restoring
    /\ EndEarly
    /\ CleanUp(r)
    /\ RestorerAt(r, "idle")
    /\ UNCHANGED <<vars, bundleVars, half>>

\* A kill: the root stays as it is, and every later restore is refused.
KillRestore(r) ==
    /\ restorer[r] \in Restoring
    /\ EndEarly
    /\ RestorerAt(r, "dead")
    /\ UNCHANGED <<vars, bundleVars, root, target, half>>

\* open_library looks at the layout and the database only: a killed restore
\* that got as far as the database has left a Library that opens.
OpenLeftOver ==
    /\ root = "made"
    /\ \A r \in Restorers : restorer[r] \notin Restoring
    /\ target.rows # NoRows
    /\ FollowTarget
    /\ half' = TRUE
    /\ UNCHANGED <<draft, bundle, target, restorer, kills>>

----------------------------------------------------------------------------
BackupNext ==
    \/ \E b \in Blobs : StoreBlob(b) \/ CopyBlob(b)
    \/ \E e \in Events : CommitSource(e)
    \/ \E x \in Exporters : Export(x)
    \/ LosePower
    \/ CopyDatabase \/ WriteEvents \/ PublishBundle \/ StopBackup
    \/ \E r \in Restorers :
          \/ BeginRestore(r) \/ MakeRoot(r) \/ LoseRace(r)
          \/ RestoreDatabase(r) \/ RestoreEvents(r) \/ ReturnRestored(r)
          \/ FailRestore(r) \/ KillRestore(r)
          \/ \E b \in Blobs : RestoreBlob(r, b)
    \/ OpenLeftOver

BackupSpec == BackupInit /\ [][BackupNext]_allVars

----------------------------------------------------------------------------
(* Correctness *)

\* A published bundle is closed whatever was committed or exported while it was
\* made: its log has every event of its database once and nothing later, and
\* its blobs are those its rows refer to.  (No restore would accept it else.)
BundleIsClosed == bundle # NoBundle => Verified(bundle)

\* The Library in use, the original or the restored one, writes no event twice,
\* tells no row delivered without its line and names no blob it lacks, through
\* every later commit, export and loss of power.  Restored rows that are pending
\* have their lines in the file already; only a restore that was killed may leave
\* a Library that opens and has less than its rows say.
LibraryIsWhole ==
    /\ OncePerEvent
    /\ half \/ (DeliveredIsInFile /\ BlobsIn(rows) \subseteq leaves)

\* A Library that a restore has opened is never removed, nor replaced, by
\* another restore that loses the race for its root or fails.
OpenedStays == [][root = "open" => root' = "open" /\ half' = half]_allVars
====
