---- MODULE Provenance ----
(***************************************************************************)
(* The provenance graph of one Library: Collections, physical Sources,     *)
(* their SourceFamilies, immutable SourceVersions, the movable source      *)
(* heads, Collection memberships, content-addressed CorpusSnapshots and    *)
(* the outbox rows committed with them.                                    *)
(*                                                                         *)
(* Every action is one BEGIN IMMEDIATE transaction of LibraryRepository    *)
(* (persistence/repository.py): SQLite serialises the writers, so an       *)
(* action is atomic, and a refused call rolls back and changes nothing.    *)
(***************************************************************************)
EXTENDS Integers, Sequences

CONSTANTS
    Collections,    \* Collection IDs
    Holdouts,       \* the Collections of kind "holdout"
    Uris,           \* canonical file URIs: a Source is identified by its URI
    RootUris,       \* Collection -> the URIs below one of its roots
    Contents,       \* captured bytes, named by their SHA-256
    Profiles,       \* parser profiles
    Logicals,       \* logical source URIs an identity manifest may declare
    Declarations,   \* SourceIdentityDeclaration values
    LogicalUri,     \* Declaration -> the logical source URI it names
    Declaration,    \* Collection -> URI -> the declaration of its manifest
    Undeclared,     \* the root has no identity manifest
    NoUri,          \* root_source_id IS NULL
    MaxVersions,    \* bound: SourceVersions of one Source
    MaxEvents       \* bound: outbox rows

ASSUME ConstantsAssumption ==
    /\ Holdouts \subseteq Collections
    /\ RootUris \in [Collections -> SUBSET Uris]
    /\ LogicalUri \in [Declarations -> Logicals]
    /\ Declaration \in [Collections -> [Uris -> Declarations \cup {Undeclared}]]
    /\ Undeclared \notin Declarations
    /\ NoUri \notin Uris
    /\ MaxVersions \in Nat
    /\ MaxEvents \in Nat

VARIABLES
    created,        \* collections
    member,         \* source_family_members, by Source
    families,       \* source_families: families 1..families exist
    identity,       \* source_family_identities: logical URI -> family, 0 if none
    versions,       \* source_versions and source_identity_bindings, by Source
    head,           \* source_heads: index of the current version, 0 if none
    membership,     \* collection_memberships: <<Collection, Source>>
    snapshots,      \* corpus_snapshots with their snapshot_members
    outbox          \* event_outbox, in commit order

vars == <<created, member, families, identity, versions, head, membership,
          snapshots, outbox>>

Roles == {"root", "duplicate", "derivative"}
NoMember == [family |-> 0, role |-> "none", root |-> NoUri]
MemberRows == [family : Nat \ {0}, role : Roles, root : Uris \cup {NoUri}]
VersionRows == [content : Contents, profile : Profiles,
                bound : Declarations \cup {Undeclared}]

IsSource(u) == member[u].family # 0

----------------------------------------------------------------------------
(* Lineage *)

\* (family, root Source) of a Source.
LineageOf(u) == [family |-> member[u].family,
                 root   |-> IF member[u].role = "root" THEN u ELSE member[u].root]

\* The row of a non-root Source names a root member of the same family; when
\* it does not, the code raises SourceLineageIntegrityError.
Resolves(u) ==
    member[u].role # "root" =>
        /\ member[u].root \in Uris
        /\ member[member[u].root].role = "root"
        /\ member[member[u].root].family = member[u].family

HasBytes(u, b) == \E i \in DOMAIN versions[u] : versions[u][i].content = b
HasVersion(u, b, p) ==
    \E i \in DOMAIN versions[u] : versions[u][i].content = b /\ versions[u][i].profile = p
Holders(b) == {u \in Uris : HasBytes(u, b)}
RootsOf(f) == {u \in Uris : member[u].family = f /\ member[u].role = "root"}

\* Bytes without a declaration join the family of every Source that ever held
\* them; a declaration joins the family of its logical URI, whatever the bytes.
JoinableLineages(b, d) ==
    IF d = Undeclared
    THEN {LineageOf(u) : u \in Holders(b)}
    ELSE {[family |-> identity[LogicalUri[d]], root |-> u] :
             u \in RootsOf(identity[LogicalUri[d]])}

\* More than one candidate lineage, or a family without its single root, is
\* refused.
LineageIsUnambiguous(b, d) ==
    /\ \A l, k \in JoinableLineages(b, d) : l = k
    /\ IF d = Undeclared
       THEN \A u \in Holders(b) : Resolves(u)
       ELSE identity[LogicalUri[d]] # 0 => JoinableLineages(b, d) # {}

DeclaredContentExists(f, b) ==
    \E u \in Uris : /\ member[u].family = f
                    /\ \E i \in DOMAIN versions[u] :
                           versions[u][i].content = b /\ versions[u][i].bound # Undeclared

\* Broken variant: every relative is called a duplicate.
AlwaysDuplicate(l, b, d) == "duplicate"

JoinRole(l, b, d) ==
    IF d = Undeclared \/ DeclaredContentExists(l.family, b)
    THEN "duplicate" ELSE "derivative"

\* Broken variant: a changed Source is not compared with the other holders.
AnyBytes(u, b) == TRUE

\* Undeclared bytes that another Source already holds may only enter a Source
\* of the same family; otherwise SourceLineageIntegrityError.
CompatibleBytes(u, b) ==
    \A h \in Holders(b) \ {u} : Resolves(h) /\ LineageOf(h) = LineageOf(u)

\* Broken variant: a Source may be declared anew.
MayRebind(u, d) == TRUE

\* A Source ingested under a declaration keeps its logical identity: it must
\* have a binding already, in the family of that logical URI.
KeepsIdentity(u, d) ==
    d # Undeclared =>
        /\ \E i \in DOMAIN versions[u] : versions[u][i].bound # Undeclared
        /\ identity[LogicalUri[d]] = member[u].family

\* The version to be current again carries exactly this declaration.
BoundAs(u, i, d) == d # Undeclared => versions[u][i].bound = d

----------------------------------------------------------------------------
(* create_collection and record_processed_source *)

Event(type, subject, version) ==
    [type |-> type, subject |-> subject, version |-> version]

CreateCollection(c) ==
    /\ c \notin created
    /\ Len(outbox) < MaxEvents
    /\ created' = created \cup {c}
    /\ outbox' = Append(outbox, Event("collection.created", c, 0))
    /\ UNCHANGED <<member, families, identity, versions, head, membership, snapshots>>

\* The Collection exists and one of its roots contains the captured file.
Ingestible(c, u) == c \in created /\ u \in RootUris[c]

\* A new immutable version becomes current; version, binding, head, membership
\* and events commit together.
AppendVersion(c, u, b, p, d) ==
    /\ Len(versions[u]) < MaxVersions
    /\ Len(outbox) + 1 < MaxEvents
    /\ versions' = [versions EXCEPT ![u] =
                       Append(@, [content |-> b, profile |-> p, bound |-> d])]
    /\ head' = [head EXCEPT ![u] = Len(versions[u]) + 1]
    /\ membership' = membership \cup {<<c, u>>}
    /\ outbox' = outbox \o
                   (IF d = Undeclared THEN <<>>
                    ELSE <<Event("source_identity.binding_recorded", u, Len(versions[u]) + 1)>>)
                   \o <<Event("source_version.recorded", u, Len(versions[u]) + 1)>>

\* ADDED, first Source of a new family.
RecordRoot(c, u, b, p) ==
    LET d == Declaration[c][u] IN
    /\ Ingestible(c, u)
    /\ ~IsSource(u)
    /\ LineageIsUnambiguous(b, d)
    /\ JoinableLineages(b, d) = {}
    /\ families' = families + 1
    /\ member' = [member EXCEPT ![u] =
                     [family |-> families + 1, role |-> "root", root |-> NoUri]]
    /\ identity' = IF d = Undeclared THEN identity
                   ELSE [identity EXCEPT ![LogicalUri[d]] = families + 1]
    /\ AppendVersion(c, u, b, p, d)
    /\ UNCHANGED <<created, snapshots>>

\* ADDED, duplicate or derivative Source of an existing family.
RecordRelative(c, u, b, p) ==
    LET d == Declaration[c][u] IN
    /\ Ingestible(c, u)
    /\ ~IsSource(u)
    /\ LineageIsUnambiguous(b, d)
    /\ \E l \in JoinableLineages(b, d) :
          member' = [member EXCEPT ![u] =
                        [family |-> l.family, role |-> JoinRole(l, b, d), root |-> l.root]]
    /\ AppendVersion(c, u, b, p, d)
    /\ UNCHANGED <<created, families, identity, snapshots>>

\* CHANGED: bytes or profile this Source never had.
RecordChanged(c, u, b, p) ==
    LET d == Declaration[c][u] IN
    /\ Ingestible(c, u)
    /\ IsSource(u)
    /\ Resolves(u)
    /\ KeepsIdentity(u, d)
    /\ ~HasVersion(u, b, p)
    /\ d = Undeclared => CompatibleBytes(u, b)
    /\ AppendVersion(c, u, b, p, d)
    /\ UNCHANGED <<created, member, families, identity, snapshots>>

IsVersion(u, i, b, p) ==
    i \in DOMAIN versions[u] /\ versions[u][i].content = b /\ versions[u][i].profile = p

\* UNCHANGED: the head already is these bytes under this profile. Only a
\* missing Collection membership is written, and no event.
RecordUnchanged(c, u, b, p) ==
    LET d == Declaration[c][u] IN
    /\ Ingestible(c, u)
    /\ IsSource(u)
    /\ Resolves(u)
    /\ KeepsIdentity(u, d)
    /\ IsVersion(u, head[u], b, p)
    /\ BoundAs(u, head[u], d)
    /\ membership' = membership \cup {<<c, u>>}
    /\ UNCHANGED <<created, member, families, identity, versions, head, snapshots, outbox>>

\* Broken variant: moving a head back is not announced.
SilentRevert(u, i) == <<>>

RevertEvent(u, i) == <<Event("source_head.reverted", u, i)>>

\* REVERTED: an older version is current again; no version is written.
RecordReverted(c, u, b, p) ==
    LET d == Declaration[c][u] IN
    /\ Ingestible(c, u)
    /\ IsSource(u)
    /\ Resolves(u)
    /\ KeepsIdentity(u, d)
    /\ Len(outbox) < MaxEvents
    /\ \E i \in DOMAIN versions[u] \ {head[u]} :
          /\ IsVersion(u, i, b, p)
          /\ BoundAs(u, i, d)
          /\ head' = [head EXCEPT ![u] = i]
          /\ outbox' = outbox \o RevertEvent(u, i)
    /\ membership' = membership \cup {<<c, u>>}
    /\ UNCHANGED <<created, member, families, identity, versions, snapshots>>

----------------------------------------------------------------------------
(* freeze_snapshot *)

\* One snapshot_members row; the lineage is not stored with it.
Row(c, u) == [collection |-> c, uri |-> u, version |-> head[u],
              state |-> IF c \in Holdouts THEN "holdout" ELSE "active"]

\* Broken variant: the bytes are those of the head, not of the frozen version.
HeadEntry(r) ==
    [row |-> r, content |-> versions[r.uri][head[r.uri]].content,
     lineage |-> LineageOf(r.uri), role |-> member[r.uri].role]

\* The manifest entry of a row, with the bytes and the lineage looked up now.
\* The manifest hash covers the set of these entries.
ManifestEntry(r) ==
    [row |-> r, content |-> versions[r.uri][r.version].content,
     lineage |-> LineageOf(r.uri), role |-> member[r.uri].role]

\* The rows of a scope: the current head of every membership.
CurrentRows(scope) == {Row(m[1], m[2]) : m \in {n \in membership : n[1] \in scope}}

\* Load a snapshot: rebuild its manifest from its rows.
Reconstruct(s) == {ManifestEntry(r) : r \in s.rows}

\* Freeze the current heads of a scope. A manifest that is already stored is
\* returned as it is, with no write.
FreezeSnapshot(scope) ==
    LET rows == CurrentRows(scope)
        snapshot == [scope |-> scope, rows |-> rows,
                     manifest |-> {ManifestEntry(r) : r \in rows}]
    IN /\ scope # {} /\ scope \subseteq created
       /\ \A r \in rows : r.version # 0 /\ Resolves(r.uri)
       /\ \A s \in snapshots : s.scope # scope \/ s.manifest # snapshot.manifest
       /\ Len(outbox) < MaxEvents
       /\ snapshots' = snapshots \cup {snapshot}
       /\ outbox' = Append(outbox, Event("corpus_snapshot.frozen", scope, 0))
       /\ UNCHANGED <<created, member, families, identity, versions, head, membership>>

----------------------------------------------------------------------------

Init ==
    /\ created = {}
    /\ member = [u \in Uris |-> NoMember]
    /\ families = 0
    /\ identity = [l \in Logicals |-> 0]
    /\ versions = [u \in Uris |-> <<>>]
    /\ head = [u \in Uris |-> 0]
    /\ membership = {}
    /\ snapshots = {}
    /\ outbox = <<>>

Record(c, u, b, p) ==
    \/ RecordRoot(c, u, b, p)
    \/ RecordRelative(c, u, b, p)
    \/ RecordChanged(c, u, b, p)
    \/ RecordUnchanged(c, u, b, p)
    \/ RecordReverted(c, u, b, p)

Next ==
    \/ \E c \in Collections : CreateCollection(c)
    \/ \E c \in Collections, u \in Uris, b \in Contents, p \in Profiles : Record(c, u, b, p)
    \/ \E scope \in SUBSET Collections : FreezeSnapshot(scope)

Spec == Init /\ [][Next]_vars

----------------------------------------------------------------------------
(* Correctness *)

\* Every table holds rows of its type; a Source has a version and a head that
\* is one of its own versions (source_heads_validate_insert and _update).
TypeOK ==
    /\ created \subseteq Collections
    /\ member \in [Uris -> MemberRows \cup {NoMember}]
    /\ families \in Nat
    /\ identity \in [Logicals -> 0..families]
    /\ versions \in [Uris -> Seq(VersionRows)]
    /\ head \in [Uris -> Nat]
    /\ \A u \in Uris : /\ member[u].family \in 0..families
                       /\ IsSource(u) <=> head[u] \in DOMAIN versions[u]
                       /\ ~IsSource(u) => versions[u] = <<>> /\ head[u] = 0
    /\ membership \subseteq created \X {u \in Uris : IsSource(u)}
    /\ \A s \in snapshots : s.scope \subseteq created

\* One family has one root, every other member names that root, and every
\* family has a root: the branches that raise SourceLineageIntegrityError for
\* a dangling or missing root are never reached by the program's own writes.
OneRootPerFamily ==
    /\ \A u \in Uris : IsSource(u) => Resolves(u)
    /\ \A f \in 1..families : \E r \in Uris :
          /\ RootsOf(f) = {r}
          /\ \A u \in Uris : member[u].family = f => LineageOf(u).root = r

\* Bytes recorded without a declaration never span two families: two Sources
\* that hold the same bytes in undeclared versions share family and root,
\* whatever order they were added, changed and reverted in.
SameBytesSameFamily ==
    \A u, v \in Uris :
        (\E i \in DOMAIN versions[u], j \in DOMAIN versions[v] :
            /\ versions[u][i].content = versions[v][j].content
            /\ versions[u][i].bound = Undeclared
            /\ versions[v][j].bound = Undeclared)
        => LineageOf(u) = LineageOf(v)

\* The lineage that every reader of a family relies on.
FamiliesHold == OneRootPerFamily /\ SameBytesSameFamily

\* A declared logical identity is never rebound: every binding of every Source
\* of a family names the one logical URI that family was created for, across
\* all the manifests that declare the file.
IdentityNeverRebound ==
    /\ \A u \in Uris : \A i \in DOMAIN versions[u] :
          versions[u][i].bound # Undeclared =>
              identity[LogicalUri[versions[u][i].bound]] = member[u].family
    /\ \A l, k \in Logicals : identity[l] = identity[k] /\ identity[l] # 0 => l = k

\* The role "duplicate" is a claim about bytes: what the Source held when it
\* was added is also held by another Source of its family.
DuplicateHasTwin ==
    \A u \in Uris : member[u].role = "duplicate" =>
        \E v \in Uris \ {u} : /\ member[v].family = member[u].family
                              /\ HasBytes(v, versions[u][1].content)

\* A frozen snapshot can be loaded for ever: rebuilt from its rows and from
\* the lineage and bytes found now, it is the manifest that was hashed when it
\* was frozen, after any later change, revert or new relative.
SnapshotsReconstruct == \A s \in snapshots : Reconstruct(s) = s.manifest

\* The rows about a Source of these types, by their place in commit order.
RowsAbout(u, types) ==
    {k \in DOMAIN outbox : outbox[k].subject = u /\ outbox[k].type \in types}

\* The committed events tell the whole story of the heads: every version of a
\* Source was announced once, in the order of the versions, and the last of its
\* version and revert events in commit order names its current head.
OutboxReplaysHeads ==
    \A u \in Uris :
        LET recorded == RowsAbout(u, {"source_version.recorded"})
            moves == RowsAbout(u, {"source_version.recorded", "source_head.reverted"})
        IN /\ {outbox[k].version : k \in recorded} = DOMAIN versions[u]
           /\ \A k, l \in recorded : k < l => outbox[k].version < outbox[l].version
           /\ IF moves = {} THEN head[u] = 0
              ELSE \E k \in moves : /\ \A l \in moves : l <= k
                                    /\ outbox[k].version = head[u]
====
