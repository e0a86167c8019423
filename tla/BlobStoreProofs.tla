---- MODULE BlobStoreProofs ----
(***************************************************************************)
(* Proofs about BlobStore for any digests, promoters, files and stops.     *)
(* Exact is the inductive invariant of the bytes, Durable that of the      *)
(* names: what of a leaf is on the disk, or who still has to put it there. *)
(***************************************************************************)
EXTENDS BlobStore, TLAPS

\* What promoters hold: files of their own, named in the shard.
TempsAreOwn ==
    \A p \in Promoters : temp[p] # NoFile =>
        /\ temp[p] \in names
        /\ \A q \in Promoters : temp[q] = temp[p] => q = p

\* A temporary file is not a leaf until it is linked; then it is that leaf.
TempsAreApart ==
    \A p \in Promoters :
        /\ at[p] \in {"write", "sync", "link"} => \A d \in Digests : leaf[d] # temp[p]
        /\ at[p] = "unlink" => leaf[digest[p]] = temp[p]

\* Its bytes, by how far the call has come.
TempsAreWritten ==
    \A p \in Promoters :
        /\ at[p] \in {"sync", "link", "unlink"} => bytes[temp[p]] = "all"
        /\ at[p] \in {"link", "unlink"} => temp[p] \in synced

\* A leaf is a file of its own whose bytes are on the disk, and it is never
\* taken away: the disk has it, or has nothing yet.
LeavesAreSynced ==
    \A d \in Digests :
        /\ leaf[d] # NoFile => leaf[d] \in synced /\ bytes[leaf[d]] = "all"
        /\ disk.leaf[d] \in {NoFile, leaf[d]}
        /\ \A e \in Digests : leaf[d] # NoFile /\ leaf[e] = leaf[d] => e = d

Exact == TempsAreOwn /\ TempsAreApart /\ TempsAreWritten /\ LeavesAreSynced

----------------------------------------------------------------------------
(* Types *)

LEMMA TypeInit == Init => TypeOK
BY BlobAssumption DEF Init, TypeOK, Places

LEMMA TypeStep == TypeOK /\ [Next]_vars => TypeOK'
<1> SUFFICES ASSUME TypeOK, [Next]_vars PROVE TypeOK'
    OBVIOUS
<1> USE BlobAssumption DEF TypeOK, Places, files, shard, local, GoTo
<1>1. ASSUME NEW p \in Promoters, NEW d \in Digests, Acquire(p, d) PROVE TypeOK'
    BY <1>1 DEF Acquire
<1>2. ASSUME NEW p \in Promoters, Create(p) PROVE TypeOK'
    <2>1. PICK f \in Fresh : /\ bytes' = [bytes EXCEPT ![f] = "part"]
                             /\ synced' = synced \ {f}
                             /\ names' = names \cup {f}
                             /\ disk' = [disk EXCEPT !.born = @ \cup {f}]
                             /\ temp' = [temp EXCEPT ![p] = f]
        BY <1>2 DEF Create
    <2>2. f \in Files
        BY DEF Fresh
    <2> QED BY <1>2, <2>1, <2>2 DEF Create
<1>3. ASSUME NEW p \in Promoters, Write(p) PROVE TypeOK'
    BY <1>3 DEF Write, AfterWrite
<1>4. ASSUME NEW p \in Promoters, SyncFile(p) PROVE TypeOK'
    BY <1>4 DEF SyncFile
<1>5. ASSUME NEW p \in Promoters, Link(p) PROVE TypeOK'
    BY <1>5 DEF Link, AfterLink
<1>6. ASSUME NEW p \in Promoters, Unlink(p) PROVE TypeOK'
    BY <1>6 DEF Unlink, AfterUnlink
<1>7. ASSUME NEW p \in Promoters, SyncShard(p) PROVE TypeOK'
    BY <1>7 DEF SyncShard, SyncNames
<1>8. ASSUME NEW p \in Promoters, OpenExisting(p) PROVE TypeOK'
    BY <1>8 DEF OpenExisting
<1>9. ASSUME NEW p \in Promoters, Recover(p) PROVE TypeOK'
    BY <1>9 DEF Recover
<1>10. ASSUME NEW p \in Promoters, SyncRecovered(p) PROVE TypeOK'
    BY <1>10 DEF SyncRecovered, SyncNames
<1>11. ASSUME NEW p \in Promoters, Promoted(p) PROVE TypeOK'
    BY <1>11 DEF Promoted, Release
<1>12. ASSUME NEW p \in Promoters, StartVerify(p) PROVE TypeOK'
    BY <1>12 DEF StartVerify
<1>13. ASSUME NEW p \in Promoters, Verified(p) PROVE TypeOK'
    BY <1>13 DEF Verified, Release
<1>14. ASSUME NEW p \in Promoters, CommitRow(p) PROVE TypeOK'
    BY <1>14 DEF CommitRow, Leave
<1>15. ASSUME NEW p \in Promoters, Fail(p) PROVE TypeOK'
    BY <1>15 DEF Fail, Leave, Expose
<1>16. ASSUME NEW p \in Promoters, Kill(p) PROVE TypeOK'
    BY <1>16 DEF Kill, Leave, Expose
<1>17. ASSUME PowerLoss PROVE TypeOK'
    BY <1>17 DEF PowerLoss
<1>18. CASE UNCHANGED vars
    BY <1>18 DEF vars
<1> QED
    BY <1>1, <1>2, <1>3, <1>4, <1>5, <1>6, <1>7, <1>8, <1>9, <1>10, <1>11, <1>12,
       <1>13, <1>14, <1>15, <1>16, <1>17, <1>18 DEF Next, Step

\* The types of the blob store hold.
THEOREM TypeCorrect == Spec => []TypeOK
<1>1. Init => TypeOK
    BY TypeInit
<1>2. TypeOK /\ [Next]_vars => TypeOK'
    BY TypeStep
<1> QED BY <1>1, <1>2, PTL DEF Spec

----------------------------------------------------------------------------
(* Bytes *)

LEMMA ExactInit == Init => Exact
BY BlobAssumption DEF Init, Exact, TempsAreOwn, TempsAreApart, TempsAreWritten, LeavesAreSynced

LEMMA ExactStep == TypeOK /\ TypeOK' /\ Exact /\ [Next]_vars => Exact'
<1> SUFFICES ASSUME TypeOK, TypeOK', Exact, [Next]_vars PROVE Exact'
    OBVIOUS
<1> USE BlobAssumption DEF Exact, TempsAreOwn, TempsAreApart, TempsAreWritten, LeavesAreSynced,
        TypeOK, Places, files, shard, local, GoTo
<1>1. ASSUME NEW p \in Promoters, NEW d \in Digests, Acquire(p, d) PROVE Exact'
    BY <1>1 DEF Acquire
<1>2. ASSUME NEW p \in Promoters, Create(p) PROVE Exact'
    <2>1. PICK f \in Fresh : /\ bytes' = [bytes EXCEPT ![f] = "part"]
                             /\ synced' = synced \ {f}
                             /\ names' = names \cup {f}
                             /\ disk' = [disk EXCEPT !.born = @ \cup {f}]
                             /\ temp' = [temp EXCEPT ![p] = f]
        BY <1>2 DEF Create
    <2>2. f \in Files /\ f \notin names /\ \A d \in Digests : leaf[d] # f
        BY DEF Fresh
    <2> DEFINE others == Promoters \ {p}
    <2>3. /\ temp'[p] = f /\ at'[p] = "write"
          /\ \A q \in others : at'[q] = at[q] /\ temp'[q] = temp[q] /\ temp[q] # f
        BY <1>2, <2>1, <2>2 DEF Create
    <2>4. TempsAreOwn'
        BY <2>1, <2>2, <2>3
    <2>5. TempsAreApart'
        BY <1>2, <2>1, <2>2 DEF Create
    <2>6. TempsAreWritten'
        <3>1. ASSUME NEW q \in others, at[q] \in {"sync", "link", "unlink"}
              PROVE temp[q] \in Files \ {f}
            BY <2>3, <3>1
        <3> QED BY <2>1, <2>2, <2>3, <3>1
    <2>7. LeavesAreSynced'
        BY <1>2, <2>1, <2>2 DEF Create
    <2> QED BY <2>4, <2>5, <2>6, <2>7
<1>3. ASSUME NEW p \in Promoters, Write(p) PROVE Exact'
    BY <1>3 DEF Write, AfterWrite
<1>4. ASSUME NEW p \in Promoters, SyncFile(p) PROVE Exact'
    BY <1>4 DEF SyncFile
<1>5. ASSUME NEW p \in Promoters, Link(p) PROVE Exact'
    <2>1. TempsAreOwn' /\ TempsAreWritten'
        BY <1>5 DEF Link, AfterLink
    <2>2. TempsAreApart'
        BY <1>5 DEF Link, AfterLink
    <2>3. LeavesAreSynced'
        BY <1>5 DEF Link, AfterLink
    <2> QED BY <2>1, <2>2, <2>3
<1>6. ASSUME NEW p \in Promoters, Unlink(p) PROVE Exact'
    BY <1>6 DEF Unlink, AfterUnlink
<1>7. ASSUME NEW p \in Promoters, SyncShard(p) PROVE Exact'
    BY <1>7 DEF SyncShard, SyncNames
<1>8. ASSUME NEW p \in Promoters, OpenExisting(p) PROVE Exact'
    BY <1>8 DEF OpenExisting
<1>9. ASSUME NEW p \in Promoters, Recover(p) PROVE Exact'
    <2>1. \A q \in Promoters : temp[q] # NoFile => temp[q] # leaf[digest[p]]
        BY <1>9 DEF Recover, HasStaleName, Linked
    <2> QED BY <1>9, <2>1 DEF Recover
<1>10. ASSUME NEW p \in Promoters, SyncRecovered(p) PROVE Exact'
    BY <1>10 DEF SyncRecovered, SyncNames
<1>11. ASSUME NEW p \in Promoters, Promoted(p) PROVE Exact'
    BY <1>11 DEF Promoted, Release
<1>12. ASSUME NEW p \in Promoters, StartVerify(p) PROVE Exact'
    BY <1>12 DEF StartVerify
<1>13. ASSUME NEW p \in Promoters, Verified(p) PROVE Exact'
    BY <1>13 DEF Verified, Release
<1>14. ASSUME NEW p \in Promoters, CommitRow(p) PROVE Exact'
    BY <1>14 DEF CommitRow, Leave
<1>15. ASSUME NEW p \in Promoters, Fail(p) PROVE Exact'
    BY <1>15 DEF Fail, Leave, Expose
<1>16. ASSUME NEW p \in Promoters, Kill(p) PROVE Exact'
    BY <1>16 DEF Kill, Leave, Expose
<1>17. ASSUME PowerLoss PROVE Exact'
    BY <1>17 DEF PowerLoss
<1>18. CASE UNCHANGED vars
    BY <1>18 DEF vars
<1> QED
    BY <1>1, <1>2, <1>3, <1>4, <1>5, <1>6, <1>7, <1>8, <1>9, <1>10, <1>11, <1>12,
       <1>13, <1>14, <1>15, <1>16, <1>17, <1>18 DEF Next, Step

\* Whatever stops and losses of power, and whoever recovers whose names, no leaf
\* ever names a partial file.
THEOREM PublishedIsAlwaysExact == Spec => []PublishedIsExact
<1>1. Init => TypeOK /\ Exact
    BY TypeInit, ExactInit
<1>2. TypeOK /\ Exact /\ [Next]_vars => (TypeOK /\ Exact)'
    BY TypeStep, ExactStep
<1>3. Exact => PublishedIsExact
    BY DEF Exact, LeavesAreSynced, PublishedIsExact
<1> QED BY <1>1, <1>2, <1>3, PTL DEF Spec

----------------------------------------------------------------------------
(* Names *)

\* The leaf of a digest is on the disk, or its call was cut off before it was.
Kept(d) == disk.leaf[d] # NoFile \/ d \in exposed

\* Every leaf is kept, or still linked to its temporary name, or somebody is
\* about to sync it.
LeavesAreKept ==
    \A d \in Digests : leaf[d] # NoFile =>
        \/ Kept(d)
        \/ leaf[d] \in names
        \/ \E p \in Promoters : digest[p] = d /\ at[p] \in {"syncdir", "recovered"}

\* A call past its publication has a leaf, and one past the sync a kept one.
CallsAreKept ==
    \A p \in Promoters :
        /\ at[p] \in {"unlink", "syncdir", "recovered"} => leaf[digest[p]] # NoFile
        /\ at[p] \in {"final", "promoted", "verify", "verified"} =>
              leaf[digest[p]] # NoFile /\ Kept(digest[p])

RowsAreKept == \A d \in rows : Kept(d)

Durable == LeavesAreKept /\ CallsAreKept /\ RowsAreKept /\ RowHasBlobUnlessExposed

LEMMA DurableInit == Init => Durable
BY DEF Init, Durable, LeavesAreKept, CallsAreKept, RowsAreKept, Kept, RowHasBlobUnlessExposed

LEMMA DurableStep == TypeOK /\ TypeOK' /\ Exact /\ Durable /\ [Next]_vars => Durable'
<1> SUFFICES ASSUME TypeOK, TypeOK', Exact, Durable, [Next]_vars PROVE Durable'
    OBVIOUS
<1> USE BlobAssumption DEF Durable, LeavesAreKept, CallsAreKept, RowsAreKept, Kept,
        RowHasBlobUnlessExposed, TypeOK, Places, files, shard, local, GoTo
<1>0. TempsAreOwn /\ TempsAreApart /\ LeavesAreSynced
    BY DEF Exact
<1>1. ASSUME NEW p \in Promoters, NEW d \in Digests, Acquire(p, d) PROVE Durable'
    BY <1>1 DEF Acquire
<1>2. ASSUME NEW p \in Promoters, Create(p) PROVE Durable'
    <2>1. PICK f \in Fresh : /\ names' = names \cup {f}
                             /\ disk' = [disk EXCEPT !.born = @ \cup {f}]
        BY <1>2 DEF Create
    <2> QED BY <1>2, <2>1 DEF Create
<1>3. ASSUME NEW p \in Promoters, Write(p) PROVE Durable'
    BY <1>3 DEF Write, AfterWrite
<1>4. ASSUME NEW p \in Promoters, SyncFile(p) PROVE Durable'
    BY <1>4 DEF SyncFile
<1>5. ASSUME NEW p \in Promoters, Link(p) PROVE Durable'
    BY <1>0, <1>5 DEF Link, AfterLink, TempsAreOwn
<1>6. ASSUME NEW p \in Promoters, Unlink(p) PROVE Durable'
    BY <1>0, <1>6 DEF Unlink, AfterUnlink, TempsAreApart, LeavesAreSynced
<1>7. ASSUME NEW p \in Promoters, SyncShard(p) PROVE Durable'
    BY <1>7 DEF SyncShard, SyncNames
<1>8. ASSUME NEW p \in Promoters, OpenExisting(p) PROVE Durable'
    BY <1>8 DEF OpenExisting, Linked
<1>9. ASSUME NEW p \in Promoters, Recover(p) PROVE Durable'
    BY <1>0, <1>9 DEF Recover, HasStaleName, Linked, LeavesAreSynced
<1>10. ASSUME NEW p \in Promoters, SyncRecovered(p) PROVE Durable'
    BY <1>10 DEF SyncRecovered, SyncNames
<1>11. ASSUME NEW p \in Promoters, Promoted(p) PROVE Durable'
    BY <1>11 DEF Promoted, Release
<1>12. ASSUME NEW p \in Promoters, StartVerify(p) PROVE Durable'
    BY <1>12 DEF StartVerify
<1>13. ASSUME NEW p \in Promoters, Verified(p) PROVE Durable'
    BY <1>13 DEF Verified, Release
<1>14. ASSUME NEW p \in Promoters, CommitRow(p) PROVE Durable'
    BY <1>14 DEF CommitRow, Leave
<1>15. ASSUME NEW p \in Promoters, Fail(p) PROVE Durable'
    BY <1>0, <1>15 DEF Fail, Leave, Expose, TempsAreApart, LeavesAreSynced
<1>16. ASSUME NEW p \in Promoters, Kill(p) PROVE Durable'
    BY <1>16 DEF Kill, Leave, Expose
<1>17. ASSUME PowerLoss PROVE Durable'
    BY <1>0, <1>17 DEF PowerLoss, LeavesAreSynced
<1>18. CASE UNCHANGED vars
    BY <1>18 DEF vars
<1> QED
    BY <1>1, <1>2, <1>3, <1>4, <1>5, <1>6, <1>7, <1>8, <1>9, <1>10, <1>11, <1>12,
       <1>13, <1>14, <1>15, <1>16, <1>17, <1>18 DEF Next, Step

\* A committed row has its blob for ever, but for the one window of a call that
\* ended before its fsync and was taken over by another.
THEOREM RowsKeepTheirBlobs == Spec => []RowHasBlobUnlessExposed
<1>1. Init => TypeOK /\ Exact /\ Durable
    BY TypeInit, ExactInit, DurableInit
<1>2. TypeOK /\ Exact /\ Durable /\ [Next]_vars => (TypeOK /\ Exact /\ Durable)'
    BY TypeStep, ExactStep, DurableStep
<1>3. Durable => RowHasBlobUnlessExposed
    BY DEF Durable
<1> QED BY <1>1, <1>2, <1>3, PTL DEF Spec
====
