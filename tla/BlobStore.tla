---- MODULE BlobStore ----
(***************************************************************************)
(* One shard of the content-addressed blob store (provenance/blobs.py):    *)
(* promote writes a temporary file, fsyncs it, links it to the leaf named  *)
(* by the digest, unlinks the temporary name and fsyncs the directory, all *)
(* under a per-digest lock; then record_processed_source verifies the blob *)
(* and commits its row.  A call may raise or be killed between two system  *)
(* calls, and the machine may lose power: data and names that were not     *)
(* fsynced may then be kept or lost, each on its own.                      *)
(*                                                                         *)
(* A file is named by the temporary name it was created under.             *)
(***************************************************************************)
EXTENDS Integers

CONSTANTS
    Digests,     \* SHA-256 values whose first two digits name this shard
    Promoters,   \* threads and processes that ingest
    Files,       \* files, by their random temporary names
    NoDigest,
    NoFile,
    Nobody,      \* the lock is free
    MaxStops     \* bound: calls that end early and losses of power

ASSUME BlobAssumption ==
    /\ NoDigest \notin Digests
    /\ NoFile \notin Files
    /\ Nobody \notin Promoters
    /\ MaxStops \in Nat

VARIABLES
    bytes,       \* File -> "part" or "all" of its digest's bytes
    synced,      \* files whose bytes are on the disk
    names,       \* the temporary names in the shard
    leaf,        \* Digest -> the file its leaf name is a link to
    disk,        \* the shard at its last fsync, and the names born since
    rows,        \* the blobs table, written with the rows that need it
    lock,        \* Digest -> holder of its "blobs" lock
    at,          \* where each promoter is
    digest,      \* what it promotes
    temp,        \* its temporary file
    exposed,     \* digests published by a call that ended before its fsync
    stops

vars == <<bytes, synced, names, leaf, disk, rows, lock, at, digest, temp, exposed, stops>>
files == <<bytes, synced>>
shard == <<names, leaf, disk>>
local == <<lock, at, digest, temp>>

Init ==
    /\ bytes = [f \in Files |-> "part"]
    /\ synced = {}
    /\ names = {}
    /\ leaf = [d \in Digests |-> NoFile]
    /\ disk = [names |-> {}, leaf |-> leaf, born |-> {}]
    /\ rows = {}
    /\ lock = [d \in Digests |-> Nobody]
    /\ at = [p \in Promoters |-> "idle"]
    /\ digest = [p \in Promoters |-> NoDigest]
    /\ temp = [p \in Promoters |-> NoFile]
    /\ exposed = {}
    /\ stops = 0

GoTo(p, place) == at' = [at EXCEPT ![p] = place]

\* The call is over, whichever way: descriptors closed, lock released.
Leave(p) ==
    /\ lock' = [d \in Digests |-> IF lock[d] = p THEN Nobody ELSE lock[d]]
    /\ GoTo(p, "idle")
    /\ digest' = [digest EXCEPT ![p] = NoDigest]
    /\ temp' = [temp EXCEPT ![p] = NoFile]

Release(p, place) ==
    /\ lock' = [lock EXCEPT ![digest[p]] = Nobody]
    /\ GoTo(p, place)
    /\ UNCHANGED <<digest, temp>>

\* fsync of the shard: every name in it, and every name gone from it.
SyncNames ==
    /\ disk' = [names |-> names, leaf |-> leaf, born |-> {}]
    /\ exposed' = {d \in exposed : leaf[d] = NoFile}
    /\ UNCHANGED <<names, leaf>>

----------------------------------------------------------------------------
(* promote *)

\* Some source has these bytes: take the lock of their digest.
Acquire(p, d) ==
    /\ at[p] = "idle"
    /\ lock[d] = Nobody
    /\ lock' = [lock EXCEPT ![d] = p]
    /\ digest' = [digest EXCEPT ![p] = d]
    /\ GoTo(p, "open")
    /\ UNCHANGED <<files, shard, rows, temp, exposed, stops>>

\* The random temporary names never meet one that is, or may be, in use.
Fresh == Files \ (names \cup disk.names \cup disk.born
                  \cup {leaf[d] : d \in Digests} \cup {disk.leaf[d] : d \in Digests})

\* There is no leaf: create a temporary file.
Create(p) ==
    /\ at[p] = "open"
    /\ leaf[digest[p]] = NoFile
    /\ Fresh # {}
    /\ LET f == CHOOSE g \in Fresh : TRUE IN
          /\ bytes' = [bytes EXCEPT ![f] = "part"]
          /\ synced' = synced \ {f}
          /\ names' = names \cup {f}
          /\ disk' = [disk EXCEPT !.born = @ \cup {f}]
          /\ temp' = [temp EXCEPT ![p] = f]
    /\ GoTo(p, "write")
    /\ UNCHANGED <<leaf, rows, lock, digest, exposed, stops>>

\* Broken variant: the file is linked before its bytes are on the disk.
LinkUnsynced == "link"

AfterWrite == "sync"

Write(p) ==
    /\ at[p] = "write"
    /\ bytes' = [bytes EXCEPT ![temp[p]] = "all"]
    /\ GoTo(p, AfterWrite)
    /\ UNCHANGED <<synced, shard, rows, lock, digest, temp, exposed, stops>>

\* fsync and verify the temporary file.
SyncFile(p) ==
    /\ at[p] = "sync"
    /\ synced' = synced \cup {temp[p]}
    /\ GoTo(p, "link")
    /\ UNCHANGED <<bytes, shard, rows, lock, digest, temp, exposed, stops>>

AfterLink == "unlink"

\* Publish without replacing.
Link(p) ==
    /\ at[p] = "link"
    /\ leaf[digest[p]] = NoFile
    /\ leaf' = [leaf EXCEPT ![digest[p]] = temp[p]]
    /\ GoTo(p, AfterLink)
    /\ UNCHANGED <<files, names, disk, rows, lock, digest, temp, exposed, stops>>

\* Broken variant: the directory is not synced after publication.
NeverSynced == "final"

AfterUnlink == "syncdir"

Unlink(p) ==
    /\ at[p] = "unlink"
    /\ names' = names \ {temp[p]}
    /\ temp' = [temp EXCEPT ![p] = NoFile]
    /\ GoTo(p, AfterUnlink)
    /\ UNCHANGED <<files, leaf, disk, rows, lock, digest, exposed, stops>>

SyncShard(p) ==
    /\ at[p] = "syncdir"
    /\ SyncNames
    /\ GoTo(p, "final")
    /\ UNCHANGED <<files, rows, lock, digest, temp, stops>>

\* Broken variant: a stale temporary name is never recognised.
NoAlias(d) == FALSE

\* The leaf still has a second, temporary name: nlink is 2.
Linked(d) == leaf[d] # NoFile /\ leaf[d] \in names
HasStaleName(d) == Linked(d)

\* _open_blob removes the stale name ...
Recover(p) ==
    /\ at[p] = "open"
    /\ HasStaleName(digest[p])
    /\ names' = names \ {leaf[digest[p]]}
    /\ GoTo(p, "recovered")
    /\ UNCHANGED <<files, leaf, disk, rows, lock, digest, temp, exposed, stops>>

\* ... and fsyncs the shard before it goes on.
SyncRecovered(p) ==
    /\ at[p] = "recovered"
    /\ SyncNames
    /\ GoTo(p, "open")
    /\ UNCHANGED <<files, rows, lock, digest, temp, stops>>

\* The leaf is there already: nothing is written.
OpenExisting(p) ==
    /\ at[p] = "open"
    /\ leaf[digest[p]] # NoFile
    /\ ~Linked(digest[p])
    /\ GoTo(p, "final")
    /\ UNCHANGED <<files, shard, rows, lock, digest, temp, exposed, stops>>

\* Another link, or other bytes, would be refused with BlobIntegrityError.
Verifies(d) == leaf[d] # NoFile /\ ~Linked(d) /\ bytes[leaf[d]] = "all"

\* The leaf is opened again, hashed, and the promotion returned.
Promoted(p) ==
    /\ at[p] = "final"
    /\ Verifies(digest[p])
    /\ Release(p, "promoted")
    /\ UNCHANGED <<files, shard, rows, exposed, stops>>

----------------------------------------------------------------------------
(* record_processed_source *)

\* BlobStore.verify takes the lock again before BEGIN IMMEDIATE.
StartVerify(p) ==
    /\ at[p] = "promoted"
    /\ lock[digest[p]] = Nobody
    /\ lock' = [lock EXCEPT ![digest[p]] = p]
    /\ GoTo(p, "verify")
    /\ UNCHANGED <<files, shard, rows, digest, temp, exposed, stops>>

Verified(p) ==
    /\ at[p] = "verify"
    /\ Verifies(digest[p])
    /\ Release(p, "verified")
    /\ UNCHANGED <<files, shard, rows, exposed, stops>>

\* The row commits with the SourceVersion that needs it; synchronous = FULL.
CommitRow(p) ==
    /\ at[p] = "verified"
    /\ rows' = rows \cup {digest[p]}
    /\ Leave(p)
    /\ UNCHANGED <<files, shard, exposed, stops>>

----------------------------------------------------------------------------
(* Calls that end early *)

\* Ended with the temporary name gone and the shard not yet fsynced.
Expose(p, places) ==
    exposed' = IF at[p] \in places THEN exposed \cup {digest[p]} ELSE exposed

\* A system call fails, or the call is interrupted: the finally clauses unlink
\* the temporary name.
Fail(p) ==
    /\ at[p] # "idle"
    /\ stops < MaxStops
    /\ stops' = stops + 1
    /\ names' = names \ {temp[p]}
    /\ Expose(p, {"unlink", "syncdir", "recovered"})
    /\ Leave(p)
    /\ UNCHANGED <<files, leaf, disk, rows>>

\* The process is killed; the temporary name stays.
Kill(p) ==
    /\ at[p] # "idle"
    /\ stops < MaxStops
    /\ stops' = stops + 1
    /\ Expose(p, {"syncdir", "recovered"})
    /\ Leave(p)
    /\ UNCHANGED <<files, shard, rows>>

PowerLoss ==
    /\ stops < MaxStops
    /\ stops' = stops + 1
    /\ \E truncated \in SUBSET (Files \ synced) :
          bytes' = [f \in Files |-> IF f \in truncated THEN "part" ELSE bytes[f]]
    /\ synced' = Files
    /\ \E kept \in SUBSET (disk.names \cup disk.born),
          lost \in SUBSET {d \in Digests : disk.leaf[d] # leaf[d]} :
          /\ disk.names \cap names \subseteq kept
          /\ names' = kept
          /\ leaf' = [d \in Digests |-> IF d \in lost THEN disk.leaf[d] ELSE leaf[d]]
    /\ disk' = [names |-> names', leaf |-> leaf', born |-> {}]
    /\ lock' = [d \in Digests |-> Nobody]
    /\ at' = [p \in Promoters |-> "idle"]
    /\ digest' = [p \in Promoters |-> NoDigest]
    /\ temp' = [p \in Promoters |-> NoFile]
    /\ UNCHANGED <<rows, exposed>>

Step(p) ==
    \/ Create(p) \/ Write(p) \/ SyncFile(p) \/ Link(p) \/ Unlink(p) \/ SyncShard(p)
    \/ OpenExisting(p) \/ Recover(p) \/ SyncRecovered(p) \/ Promoted(p)
    \/ StartVerify(p) \/ Verified(p) \/ CommitRow(p)

Next ==
    \/ \E p \in Promoters :
          \/ \E d \in Digests : Acquire(p, d)
          \/ Step(p) \/ Fail(p) \/ Kill(p)
    \/ PowerLoss

Spec == Init /\ [][Next]_vars

\* A call that runs makes progress, and one that waits for a lock gets it at
\* last (flock queues its waiters); the user repeats the ingest of every digest
\* until its row is committed.
Fairness ==
    /\ \A p \in Promoters : WF_vars(Step(p)) /\ SF_vars(StartVerify(p))
    /\ \A d \in Digests : SF_vars(d \notin rows /\ \E p \in Promoters : Acquire(p, d))

FairSpec == Spec /\ Fairness

----------------------------------------------------------------------------
(* Correctness *)

Places == {"idle", "open", "write", "sync", "link", "unlink", "syncdir", "final",
           "promoted", "verify", "verified", "recovered"}

TypeOK ==
    /\ bytes \in [Files -> {"part", "all"}]
    /\ synced \subseteq Files
    /\ names \subseteq Files
    /\ leaf \in [Digests -> Files \cup {NoFile}]
    /\ disk \in [names : SUBSET Files, leaf : [Digests -> Files \cup {NoFile}],
                born : SUBSET Files]
    /\ rows \subseteq Digests
    /\ lock \in [Digests -> Promoters \cup {Nobody}]
    /\ at \in [Promoters -> Places]
    /\ digest \in [Promoters -> Digests \cup {NoDigest}]
    /\ temp \in [Promoters -> Files \cup {NoFile}]
    /\ \A p \in Promoters :
          /\ digest[p] = NoDigest <=> at[p] = "idle"
          /\ temp[p] = NoFile <=> at[p] \notin {"write", "sync", "link", "unlink"}
          /\ {d \in Digests : lock[d] = p} =
                IF at[p] \in {"idle", "promoted", "verified"} THEN {} ELSE {digest[p]}
    /\ exposed \subseteq Digests
    /\ stops \in 0..MaxStops

\* Whatever name survives, it names all the bytes: a leaf is never a partial
\* file, after any stop and loss of power.
PublishedIsExact ==
    \A d \in Digests : leaf[d] # NoFile => bytes[leaf[d]] = "all"

\* A committed row has its blob, after any stop and any loss of power, unless
\* a call that published or recovered it ended between the unlink of the
\* temporary name and the fsync of the shard: the retry finds one link and does
\* not sync.
RowHasBlobUnlessExposed ==
    \A d \in rows : leaf[d] # NoFile \/ d \in exposed

\* No state that a stop leaves behind blocks a digest: repeated calls commit it.
EventuallyStored == \A d \in Digests : <>(d \in rows)
====
