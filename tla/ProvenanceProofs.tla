---- MODULE ProvenanceProofs ----
(***************************************************************************)
(* Proofs about Provenance for every set of Collections, files, bytes and  *)
(* declarations: the lineage rules, the durability of snapshots, and what  *)
(* the events tell of the heads.                                           *)
(*                                                                         *)
(* And, in its last part, proofs about AnswerReview, a specification of    *)
(* its own with no variable in common, for every set of routes, drafts,    *)
(* files, judges, layouts and steps: what the gates let through, and what  *)
(* the archive keeps of it.                                                *)
(***************************************************************************)
EXTENDS Provenance, AnswerReview, FiniteSetTheorems, SequenceTheorems,
        WellFoundedInduction, TLAPS

----------------------------------------------------------------------------
(* What the helpers return *)

\* Recording a version appends one row to one Source and makes it current.
LEMMA AppendedVersions ==
    ASSUME TypeOK, NEW c \in Collections, NEW u \in Uris, NEW b \in Contents,
           NEW p \in Profiles, NEW d \in Declarations \cup {Undeclared},
           AppendVersion(c, u, b, p, d)
    PROVE  /\ versions' \in [Uris -> Seq(VersionRows)]
           /\ head' \in [Uris -> Nat]
           /\ head'[u] \in DOMAIN versions'[u]
           /\ DOMAIN versions'[u] = 1 .. Len(versions[u]) + 1
           /\ DOMAIN versions[u] = 1 .. Len(versions[u])
           /\ versions'[u][Len(versions[u]) + 1] = [content |-> b, profile |-> p, bound |-> d]
           /\ \A i \in DOMAIN versions[u] : versions'[u][i] = versions[u][i]
           /\ \A v \in Uris \ {u} : versions'[v] = versions[v] /\ head'[v] = head[v]
<1> DEFINE row == [content |-> b, profile |-> p, bound |-> d]
<1>1. row \in VersionRows
  BY DEF VersionRows
<1>2. versions[u] \in Seq(VersionRows) /\ Len(versions[u]) \in Nat
  BY DEF TypeOK
<1>3. versions' = [versions EXCEPT ![u] = Append(versions[u], row)]
  BY DEF AppendVersion
<1>4. Append(versions[u], row) \in Seq(VersionRows)
  BY <1>1, <1>2
<1>5. versions'[u] = Append(versions[u], row)
  BY <1>3 DEF TypeOK
<1>6. /\ DOMAIN versions'[u] = 1 .. Len(versions[u]) + 1
      /\ DOMAIN versions[u] = 1 .. Len(versions[u])
      /\ versions'[u][Len(versions[u]) + 1] = row
      /\ \A i \in DOMAIN versions[u] : versions'[u][i] = versions[u][i]
  BY <1>1, <1>2, <1>5
<1>7. versions' \in [Uris -> Seq(VersionRows)]
  BY <1>3, <1>4 DEF TypeOK
<1>8. head' \in [Uris -> Nat] /\ head'[u] = Len(versions[u]) + 1
  BY <1>2 DEF AppendVersion, TypeOK
<1>9. \A v \in Uris \ {u} : versions'[v] = versions[v] /\ head'[v] = head[v]
  BY <1>3 DEF AppendVersion, TypeOK
<1> QED
  BY <1>2, <1>6, <1>7, <1>8, <1>9

\* The declaration an ingest runs under is one the constants describe.
LEMMA DeclarationTyped ==
    ASSUME NEW c \in Collections, NEW u \in Uris
    PROVE  /\ Declaration[c][u] \in Declarations \cup {Undeclared}
           /\ Declaration[c][u] # Undeclared => LogicalUri[Declaration[c][u]] \in Logicals
BY ConstantsAssumption DEF ConstantsAssumption

\* A candidate lineage is that of a stored Source.
LEMMA JoinableTyped ==
    ASSUME TypeOK, NEW c \in Collections, NEW u \in Uris, NEW b \in Contents,
           NEW l \in JoinableLineages(b, Declaration[c][u])
    PROVE  /\ l.family \in 1..families
           /\ l.root \in Uris \cup {NoUri}
           /\ \E v \in Uris : IsSource(v) /\ l = LineageOf(v)
<1> DEFINE d == Declaration[c][u]
<1>1. CASE d = Undeclared
  <2>1. PICK v \in Holders(b) : l = LineageOf(v)
    BY <1>1 DEF JoinableLineages
  <2>2. v \in Uris /\ DOMAIN versions[v] # {}
    BY <2>1 DEF Holders, HasBytes
  <2>3. IsSource(v)
    BY <2>2 DEF TypeOK
  <2> QED
    BY <2>1, <2>2, <2>3 DEF TypeOK, LineageOf, IsSource, MemberRows, NoMember
<1>2. CASE d # Undeclared
  <2> DEFINE f == identity[LogicalUri[d]]
  <2>1. PICK v \in RootsOf(f) : l = [family |-> f, root |-> v]
    BY <1>2 DEF JoinableLineages
  <2>2. v \in Uris /\ member[v].family = f /\ member[v].role = "root"
    BY <2>1 DEF RootsOf
  <2>3. member[v] \in MemberRows
    BY <2>2 DEF TypeOK, NoMember
  <2>4. IsSource(v) /\ f \in 1..families
    BY <2>2, <2>3 DEF TypeOK, IsSource, MemberRows
  <2> QED
    BY <2>1, <2>2, <2>4 DEF LineageOf
<1> QED
  BY <1>1, <1>2

----------------------------------------------------------------------------
(* Type correctness *)

LEMMA TypeInit == ASSUME Init PROVE TypeOK
BY DEF Init, TypeOK, IsSource, NoMember

\* Every recording action that writes a version keeps the types, given that
\* the family table still fits.
LEMMA TypeAppend ==
    ASSUME TypeOK, NEW c \in created, NEW u \in Uris, NEW b \in Contents,
           NEW p \in Profiles, AppendVersion(c, u, b, p, Declaration[c][u]),
           families' \in Nat, families' >= families,
           identity' \in [Logicals -> 0..families'],
           member' \in [Uris -> MemberRows \cup {NoMember}],
           member'[u].family \in 1..families',
           \A v \in Uris \ {u} : member'[v] = member[v],
           UNCHANGED <<created, snapshots>>
    PROVE  TypeOK'
<1> DEFINE d == Declaration[c][u]
<1>1. c \in Collections /\ d \in Declarations \cup {Undeclared}
  BY DeclarationTyped DEF TypeOK
<1>2. /\ versions' \in [Uris -> Seq(VersionRows)]
      /\ head' \in [Uris -> Nat]
      /\ head'[u] \in DOMAIN versions'[u]
      /\ \A v \in Uris \ {u} : versions'[v] = versions[v] /\ head'[v] = head[v]
  BY <1>1, AppendedVersions
<1>3. \A v \in Uris : member'[v].family \in 0..families'
  <2> TAKE v \in Uris
  <2>1. CASE v = u
    BY <2>1
  <2>2. CASE v # u
    <3>1. member'[v].family \in 0..families
      BY <2>2 DEF TypeOK
    <3> QED BY <3>1 DEF TypeOK
  <2> QED BY <2>1, <2>2
<1>4. \A v \in Uris : /\ IsSource(v)' <=> head'[v] \in DOMAIN versions'[v]
                      /\ ~IsSource(v)' => versions'[v] = <<>> /\ head'[v] = 0
  <2> TAKE v \in Uris
  <2>1. CASE v = u
    BY <1>2, <2>1 DEF IsSource
  <2>2. CASE v # u
    BY <1>2, <2>2 DEF TypeOK, IsSource
  <2> QED BY <2>1, <2>2
<1>5. \A v \in Uris : IsSource(v) => IsSource(v)'
  BY DEF IsSource
<1>6. membership' \subseteq created' \X {v \in Uris : IsSource(v)'}
  <2>1. membership' = membership \cup {<<c, u>>} /\ IsSource(u)'
    BY DEF AppendVersion, IsSource
  <2> QED BY <2>1, <1>5 DEF TypeOK
<1> QED
  BY <1>2, <1>3, <1>4, <1>6 DEF TypeOK

LEMMA TypeStep == ASSUME TypeOK, [Next]_vars PROVE TypeOK'
<1>1. ASSUME NEW c \in Collections, CreateCollection(c) PROVE TypeOK'
  BY <1>1 DEF CreateCollection, TypeOK, IsSource
<1>2. ASSUME NEW c \in Collections, NEW u \in Uris, NEW b \in Contents,
             NEW p \in Profiles, Record(c, u, b, p)
      PROVE  TypeOK'
  <2> DEFINE d == Declaration[c][u]
  <2>0. d \in Declarations \cup {Undeclared} /\ (d # Undeclared => LogicalUri[d] \in Logicals)
    BY DeclarationTyped
  <2>1. CASE RecordRoot(c, u, b, p)
    <3> DEFINE row == [family |-> families + 1, role |-> "root", root |-> NoUri]
    <3>1. row \in MemberRows /\ families + 1 \in Nat
      BY DEF MemberRows, Roles, TypeOK
    <3>2. member' = [member EXCEPT ![u] = row] /\ families' = families + 1
      BY <2>1 DEF RecordRoot
    <3>3. identity' \in [Logicals -> 0..families']
      BY <2>0, <2>1, <3>1 DEF RecordRoot, TypeOK
    <3>4. member' \in [Uris -> MemberRows \cup {NoMember}] /\ member'[u] = row
          /\ \A v \in Uris \ {u} : member'[v] = member[v]
      BY <3>1, <3>2 DEF TypeOK
    <3>5. /\ c \in created /\ AppendVersion(c, u, b, p, d)
          /\ UNCHANGED <<created, snapshots>>
      BY <2>1 DEF RecordRoot, Ingestible
    <3>6. families' \in Nat /\ families' >= families /\ member'[u].family \in 1..families'
      BY <3>1, <3>2, <3>4 DEF TypeOK
    <3> QED BY <3>3, <3>4, <3>5, <3>6, TypeAppend
  <2>2. CASE RecordRelative(c, u, b, p)
    <3>1. PICK l \in JoinableLineages(b, d) :
             member' = [member EXCEPT ![u] =
                           [family |-> l.family, role |-> JoinRole(l, b, d), root |-> l.root]]
      BY <2>2 DEF RecordRelative
    <3>2. l.family \in 1..families /\ l.root \in Uris \cup {NoUri}
      BY <3>1, JoinableTyped
    <3>3. [family |-> l.family, role |-> JoinRole(l, b, d), root |-> l.root] \in MemberRows
      BY <3>2 DEF MemberRows, Roles, JoinRole, TypeOK
    <3>4. member' \in [Uris -> MemberRows \cup {NoMember}] /\ member'[u].family = l.family
          /\ \A v \in Uris \ {u} : member'[v] = member[v]
      BY <3>1, <3>3 DEF TypeOK
    <3>5. /\ c \in created /\ AppendVersion(c, u, b, p, d)
          /\ UNCHANGED <<created, snapshots, families, identity>>
      BY <2>2 DEF RecordRelative, Ingestible
    <3>6. families' \in Nat /\ families' >= families
          /\ identity' \in [Logicals -> 0..families'] /\ member'[u].family \in 1..families'
      BY <3>2, <3>4, <3>5 DEF TypeOK
    <3> QED BY <3>4, <3>5, <3>6, TypeAppend
  <2>3. CASE RecordChanged(c, u, b, p)
    <3>1. /\ c \in created /\ AppendVersion(c, u, b, p, d) /\ IsSource(u)
          /\ UNCHANGED <<created, snapshots, families, identity, member>>
      BY <2>3 DEF RecordChanged, Ingestible
    <3>2. families' \in Nat /\ families' >= families
          /\ identity' \in [Logicals -> 0..families']
          /\ member' \in [Uris -> MemberRows \cup {NoMember}]
          /\ member'[u].family \in 1..families'
          /\ \A v \in Uris \ {u} : member'[v] = member[v]
      BY <3>1 DEF TypeOK, IsSource
    <3> QED BY <3>1, <3>2, TypeAppend
  <2>4. CASE RecordUnchanged(c, u, b, p)
    BY <2>4 DEF RecordUnchanged, Ingestible, TypeOK, IsSource
  <2>5. CASE RecordReverted(c, u, b, p)
    BY <2>5 DEF RecordReverted, Ingestible, TypeOK, IsSource
  <2> QED
    BY <1>2, <2>1, <2>2, <2>3, <2>4, <2>5 DEF Record
<1>3. ASSUME NEW scope \in SUBSET Collections, FreezeSnapshot(scope) PROVE TypeOK'
  BY <1>3 DEF FreezeSnapshot, TypeOK, IsSource
<1>4. CASE UNCHANGED vars
  BY <1>4 DEF vars, TypeOK, IsSource
<1> QED
  BY <1>1, <1>2, <1>3, <1>4 DEF Next

\* Every reachable state is well typed, and every Source has a current version
\* of its own.
THEOREM TypeCorrect == Spec => []TypeOK
BY TypeInit, TypeStep, PTL DEF Spec

----------------------------------------------------------------------------
(* Lineage: one root per family *)

\* The lineage a relative joins is headed by the root of an existing family.
LEMMA JoinableRooted ==
    ASSUME TypeOK, OneRootPerFamily, NEW c \in Collections, NEW u \in Uris,
           NEW b \in Contents, NEW l \in JoinableLineages(b, Declaration[c][u])
    PROVE  /\ l.family \in 1..families /\ l.root \in Uris
           /\ RootsOf(l.family) = {l.root}
           /\ member[l.root].family = l.family /\ member[l.root].role = "root"
<1>1. l.family \in 1..families
  BY JoinableTyped
<1>2. PICK v \in Uris : IsSource(v) /\ l = LineageOf(v)
  BY JoinableTyped
<1>3. member[v].family = l.family
  BY <1>2 DEF LineageOf
<1>4. PICK r \in Uris : /\ RootsOf(l.family) = {r}
                       /\ \A w \in Uris : member[w].family = l.family => LineageOf(w).root = r
  BY <1>1 DEF OneRootPerFamily
<1>5. l.root = r
  BY <1>2, <1>3, <1>4
<1>6. member[r].family = l.family /\ member[r].role = "root"
  BY <1>4 DEF RootsOf
<1> QED
  BY <1>1, <1>4, <1>5, <1>6

\* A Source added to the family table disturbs no other member.
LEMMA RootsAfterAdding ==
    ASSUME TypeOK, NEW u \in Uris, ~IsSource(u),
           NEW row \in MemberRows, member' = [member EXCEPT ![u] = row]
    PROVE  /\ member'[u] = row
           /\ \A v \in Uris \ {u} : member'[v] = member[v]
           /\ \A v \in Uris : IsSource(v) => v # u
           /\ \A f \in 1..families : f # row.family \/ row.role # "root" => RootsOf(f)' = RootsOf(f)
<1>1. member'[u] = row /\ \A v \in Uris \ {u} : member'[v] = member[v]
  BY DEF TypeOK
<1>2. \A v \in Uris : IsSource(v) => v # u
  OBVIOUS
<1>3. ASSUME NEW f \in 1..families, f # row.family \/ row.role # "root"
      PROVE  RootsOf(f)' = RootsOf(f)
  <2>1. member[u].family # f
    BY DEF IsSource, TypeOK
  <2>2. \A v \in Uris : (member'[v].family = f /\ member'[v].role = "root")
                           <=> (member[v].family = f /\ member[v].role = "root")
    BY <1>1, <1>3, <2>1
  <2> QED BY <2>2 DEF RootsOf
<1> QED BY <1>1, <1>2, <1>3

LEMMA RootStepRoot ==
    ASSUME TypeOK, OneRootPerFamily, NEW c \in Collections, NEW u \in Uris,
           NEW b \in Contents, NEW p \in Profiles, RecordRoot(c, u, b, p)
    PROVE  OneRootPerFamily'
<1> DEFINE row == [family |-> families + 1, role |-> "root", root |-> NoUri]
<1>1. row \in MemberRows
  BY DEF MemberRows, Roles, TypeOK
<1>2. member' = [member EXCEPT ![u] = row] /\ ~IsSource(u) /\ families' = families + 1
  BY DEF RecordRoot
<1>3. /\ member'[u] = row
      /\ \A v \in Uris \ {u} : member'[v] = member[v]
      /\ \A v \in Uris : IsSource(v) => v # u
      /\ \A f \in 1..families : f # row.family \/ row.role # "root" => RootsOf(f)' = RootsOf(f)
  BY <1>1, <1>2, RootsAfterAdding
<1>4. ASSUME NEW v \in Uris, IsSource(v)' PROVE Resolves(v)'
  <2>1. CASE v = u
    BY <1>3, <2>1 DEF Resolves
  <2>2. CASE v # u
    <3>1. member'[v] = member[v] /\ IsSource(v) /\ Resolves(v)
      BY <1>3, <1>4, <2>2 DEF IsSource, OneRootPerFamily
    <3>2. member[v].role # "root" => member[member[v].root].family # 0
      BY <3>1 DEF Resolves, IsSource
    <3> QED BY <1>3, <3>1, <3>2 DEF Resolves, IsSource
  <2> QED BY <2>1, <2>2
<1>5. ASSUME NEW f \in 1..families'
      PROVE  \E r \in Uris : /\ RootsOf(f)' = {r}
                             /\ \A v \in Uris : member'[v].family = f => LineageOf(v)'.root = r
  <2>1. CASE f = families + 1
    <3>1. \A v \in Uris : member[v].family # f
      BY <2>1 DEF TypeOK
    <3>2. \A v \in Uris : member'[v].family = f <=> v = u
      BY <1>3, <2>1, <3>1
    <3>3. RootsOf(f)' = {u}
      BY <1>3, <2>1, <3>2 DEF RootsOf
    <3>4. LineageOf(u)'.root = u
      BY <1>3 DEF LineageOf
    <3> QED BY <3>2, <3>3, <3>4
  <2>2. CASE f # families + 1
    <3>1. f \in 1..families
      BY <1>2, <2>2 DEF TypeOK
    <3>2. PICK r \in Uris : /\ RootsOf(f) = {r}
                           /\ \A v \in Uris : member[v].family = f => LineageOf(v).root = r
      BY <3>1 DEF OneRootPerFamily
    <3>3. RootsOf(f)' = {r}
      BY <1>3, <2>2, <3>1, <3>2
    <3>4. \A v \in Uris : member'[v].family = f => v # u /\ member[v].family = f
      BY <1>3, <2>2
    <3>5. \A v \in Uris : member'[v].family = f => LineageOf(v)'.root = r
      BY <1>3, <3>2, <3>4 DEF LineageOf
    <3> QED BY <3>3, <3>5
  <2> QED BY <2>1, <2>2
<1> QED BY <1>4, <1>5 DEF OneRootPerFamily

LEMMA RootStepRelative ==
    ASSUME TypeOK, OneRootPerFamily, NEW c \in Collections, NEW u \in Uris,
           NEW b \in Contents, NEW p \in Profiles, RecordRelative(c, u, b, p)
    PROVE  OneRootPerFamily'
<1> DEFINE d == Declaration[c][u]
<1>1. PICK l \in JoinableLineages(b, d) :
         member' = [member EXCEPT ![u] =
                       [family |-> l.family, role |-> JoinRole(l, b, d), root |-> l.root]]
  BY DEF RecordRelative
<1>2. /\ l.family \in 1..families /\ l.root \in Uris
      /\ RootsOf(l.family) = {l.root}
      /\ member[l.root].family = l.family /\ member[l.root].role = "root"
  BY JoinableRooted
<1>3. PICK row \in MemberRows :
         /\ row = [family |-> l.family, role |-> JoinRole(l, b, d), root |-> l.root]
         /\ row.family = l.family /\ row.root = l.root /\ row.role # "root"
  <2> DEFINE r == [family |-> l.family, role |-> JoinRole(l, b, d), root |-> l.root]
  <2>1. r \in MemberRows
    BY <1>2 DEF MemberRows, Roles, JoinRole, TypeOK
  <2>2. r.family = l.family /\ r.root = l.root /\ r.role # "root"
    BY DEF JoinRole
  <2> QED BY <2>1, <2>2
<1>4. ~IsSource(u) /\ families' = families /\ member' = [member EXCEPT ![u] = row]
  BY <1>1, <1>3 DEF RecordRelative
<1>5. /\ member'[u] = row
      /\ \A v \in Uris \ {u} : member'[v] = member[v]
      /\ \A v \in Uris : IsSource(v) => v # u
      /\ \A f \in 1..families : RootsOf(f)' = RootsOf(f)
  BY <1>3, <1>4, RootsAfterAdding
<1>6. l.root # u
  BY <1>2, <1>4 DEF IsSource, TypeOK
<1>7. ASSUME NEW v \in Uris, IsSource(v)' PROVE Resolves(v)'
  <2>1. CASE v = u
    BY <1>2, <1>5, <1>6, <1>3, <2>1 DEF Resolves
  <2>2. CASE v # u
    <3>1. member'[v] = member[v] /\ IsSource(v) /\ Resolves(v)
      BY <1>5, <1>7, <2>2 DEF IsSource, OneRootPerFamily
    <3>2. member[v].role # "root" => member[member[v].root].family # 0
      BY <3>1 DEF Resolves, IsSource
    <3> QED BY <1>5, <3>1, <3>2 DEF Resolves, IsSource
  <2> QED BY <2>1, <2>2
<1>8. ASSUME NEW f \in 1..families'
      PROVE  \E r \in Uris : /\ RootsOf(f)' = {r}
                             /\ \A v \in Uris : member'[v].family = f => LineageOf(v)'.root = r
  <2>1. PICK r \in Uris : /\ RootsOf(f) = {r}
                         /\ \A v \in Uris : member[v].family = f => LineageOf(v).root = r
    BY <1>4 DEF OneRootPerFamily
  <2>2. RootsOf(f)' = {r}
    BY <1>4, <1>5, <2>1
  <2>3. ASSUME NEW v \in Uris, member'[v].family = f PROVE LineageOf(v)'.root = r
    <3>1. CASE v = u
      <4>1. f = l.family /\ r = l.root
        BY <1>2, <1>5, <1>3, <2>1, <2>3, <3>1
      <4> QED BY <1>3, <1>5, <3>1, <4>1 DEF LineageOf
    <3>2. CASE v # u
      BY <1>5, <2>1, <2>3, <3>2 DEF LineageOf
    <3> QED BY <3>1, <3>2
  <2> QED BY <2>2, <2>3
<1> QED BY <1>7, <1>8 DEF OneRootPerFamily

\* The other actions leave the family table alone.
LEMMA RootStep == ASSUME TypeOK, OneRootPerFamily, [Next]_vars PROVE OneRootPerFamily'
<1>1. ASSUME NEW c \in Collections, NEW u \in Uris, NEW b \in Contents,
             NEW p \in Profiles, RecordRoot(c, u, b, p) \/ RecordRelative(c, u, b, p)
      PROVE  OneRootPerFamily'
  BY <1>1, RootStepRoot, RootStepRelative
<1>2. CASE UNCHANGED <<member, families>>
  BY <1>2 DEF OneRootPerFamily, IsSource, Resolves, RootsOf, LineageOf
<1>3. \/ \E c \in Collections, u \in Uris, b \in Contents, p \in Profiles :
            RecordRoot(c, u, b, p) \/ RecordRelative(c, u, b, p)
      \/ UNCHANGED <<member, families>>
  BY DEF Next, vars, Record, CreateCollection, RecordChanged, RecordUnchanged,
         RecordReverted, FreezeSnapshot
<1> QED BY <1>1, <1>2, <1>3

\* Whatever is ingested, every family keeps exactly one root and every member
\* resolves to it, so no later read trips over a broken lineage.
THEOREM LineageCorrect == Spec => []OneRootPerFamily
<1>1. Init => OneRootPerFamily
  BY DEF Init, OneRootPerFamily, IsSource, NoMember
<1>2. TypeOK /\ OneRootPerFamily /\ [Next]_vars => OneRootPerFamily'
  BY RootStep
<1> QED BY <1>1, <1>2, TypeCorrect, PTL DEF Spec

----------------------------------------------------------------------------
(* What no step may do: move a Source to another family, rewrite a version *)

LEMMA MemberKept ==
    ASSUME TypeOK, [Next]_vars, NEW v \in Uris, IsSource(v)
    PROVE  member'[v] = member[v]
<1>1. ASSUME NEW c \in Collections, NEW u \in Uris, NEW b \in Contents,
             NEW p \in Profiles, RecordRoot(c, u, b, p) \/ RecordRelative(c, u, b, p)
      PROVE  member'[v] = member[v]
  <2>1. ~IsSource(u) /\ \E row : member' = [member EXCEPT ![u] = row]
    BY <1>1 DEF RecordRoot, RecordRelative
  <2>2. u # v
    BY <2>1
  <2> QED BY <2>1, <2>2 DEF TypeOK
<1>2. \/ \E c \in Collections, u \in Uris, b \in Contents, p \in Profiles :
            RecordRoot(c, u, b, p) \/ RecordRelative(c, u, b, p)
      \/ UNCHANGED member
  BY DEF Next, vars, Record, CreateCollection, RecordChanged, RecordUnchanged,
         RecordReverted, FreezeSnapshot
<1> QED BY <1>1, <1>2

LEMMA VersionKept ==
    ASSUME TypeOK, [Next]_vars, NEW v \in Uris, NEW i \in DOMAIN versions[v]
    PROVE  i \in DOMAIN versions'[v] /\ versions'[v][i] = versions[v][i]
<1>1. ASSUME NEW c \in Collections, NEW u \in Uris, NEW b \in Contents,
             NEW p \in Profiles, AppendVersion(c, u, b, p, Declaration[c][u])
      PROVE  i \in DOMAIN versions'[v] /\ versions'[v][i] = versions[v][i]
  <2>1. Declaration[c][u] \in Declarations \cup {Undeclared}
    BY DeclarationTyped
  <2>2. /\ DOMAIN versions'[u] = 1 .. Len(versions[u]) + 1
        /\ DOMAIN versions[u] = 1 .. Len(versions[u])
        /\ \A j \in DOMAIN versions[u] : versions'[u][j] = versions[u][j]
        /\ \A w \in Uris \ {u} : versions'[w] = versions[w]
    BY <1>1, <2>1, AppendedVersions
  <2>3. Len(versions[u]) \in Nat
    BY DEF TypeOK
  <2> QED BY <2>2, <2>3
<1>2. \/ \E c \in Collections, u \in Uris, b \in Contents, p \in Profiles :
            AppendVersion(c, u, b, p, Declaration[c][u])
      \/ UNCHANGED versions
  BY DEF Next, vars, Record, CreateCollection, RecordRoot, RecordRelative, RecordChanged,
         RecordUnchanged, RecordReverted, FreezeSnapshot
<1> QED BY <1>1, <1>2

----------------------------------------------------------------------------
(* Identical bytes *)

\* A version appended to u is the only new one.
LEMMA SameBytesAppend ==
    ASSUME TypeOK, SameBytesSameFamily, [Next]_vars,
           NEW c \in Collections, NEW u \in Uris, NEW b \in Contents, NEW p \in Profiles,
           AppendVersion(c, u, b, p, Declaration[c][u]),
           Declaration[c][u] = Undeclared =>
               \A w \in Holders(b) \ {u} : LineageOf(w) = LineageOf(u)'
    PROVE  SameBytesSameFamily'
<1> DEFINE d == Declaration[c][u]
<1>1. /\ versions'[u][Len(versions[u]) + 1] = [content |-> b, profile |-> p, bound |-> d]
      /\ DOMAIN versions'[u] = 1 .. Len(versions[u]) + 1
      /\ DOMAIN versions[u] = 1 .. Len(versions[u])
      /\ \A i \in DOMAIN versions[u] : versions'[u][i] = versions[u][i]
      /\ \A v \in Uris \ {u} : versions'[v] = versions[v]
  BY DeclarationTyped, AppendedVersions
<1>2. Len(versions[u]) \in Nat
  BY DEF TypeOK
<1>3. \A v \in Uris : versions[v] # <<>> => IsSource(v)
  BY DEF TypeOK
<1>4. \A v \in Uris : IsSource(v) => LineageOf(v)' = LineageOf(v)
  BY MemberKept DEF LineageOf
<1>5. ASSUME NEW v \in Uris, NEW i \in DOMAIN versions[v] PROVE LineageOf(v)' = LineageOf(v)
  <2>1. versions[v] # <<>>
    BY <1>5
  <2> QED BY <2>1, <1>3, <1>4
\* The new row against a row another Source already had.
<1>6. ASSUME NEW w \in Uris, w # u, NEW j \in DOMAIN versions[w],
             versions[w][j].content = b, d = Undeclared
      PROVE  LineageOf(w)' = LineageOf(u)'
  <2>1. w \in Holders(b) \ {u}
    BY <1>6 DEF Holders, HasBytes
  <2> QED BY <1>5, <1>6, <2>1
<1>7. ASSUME NEW v \in Uris, NEW w \in Uris,
             NEW i \in DOMAIN versions'[v], NEW j \in DOMAIN versions'[w],
             versions'[v][i].content = versions'[w][j].content,
             versions'[v][i].bound = Undeclared, versions'[w][j].bound = Undeclared
      PROVE  LineageOf(v)' = LineageOf(w)'
  <2>1. CASE i \in DOMAIN versions[v] /\ j \in DOMAIN versions[w]
    <3>1. versions'[v][i] = versions[v][i] /\ versions'[w][j] = versions[w][j]
      BY <1>1, <2>1
    <3>2. LineageOf(v) = LineageOf(w)
      BY <1>7, <2>1, <3>1 DEF SameBytesSameFamily
    <3> QED BY <1>5, <2>1, <3>2
  <2>2. CASE i \notin DOMAIN versions[v]
    <3>1. v = u /\ i = Len(versions[u]) + 1
      BY <1>1, <1>2, <1>7, <2>2
    <3>2. versions'[v][i].content = b /\ d = Undeclared
      BY <1>1, <1>7, <3>1
    <3>3. CASE w = u
      BY <3>1, <3>3
    <3>4. CASE w # u
      <4>1. j \in DOMAIN versions[w] /\ versions[w][j].content = b
        BY <1>1, <1>7, <3>2, <3>4
      <4> QED BY <1>6, <3>1, <3>2, <3>4, <4>1
    <3> QED BY <3>3, <3>4
  <2>3. CASE j \notin DOMAIN versions[w]
    <3>1. w = u /\ j = Len(versions[u]) + 1
      BY <1>1, <1>2, <1>7, <2>3
    <3>2. versions'[w][j].content = b /\ d = Undeclared
      BY <1>1, <1>7, <3>1
    <3>3. CASE v = u
      BY <3>1, <3>3
    <3>4. CASE v # u
      <4>1. i \in DOMAIN versions[v] /\ versions[v][i].content = b
        BY <1>1, <1>7, <3>2, <3>4
      <4> QED BY <1>6, <3>1, <3>2, <3>4, <4>1
    <3> QED BY <3>3, <3>4
  <2> QED BY <2>1, <2>2, <2>3
<1> QED BY <1>7 DEF SameBytesSameFamily

LEMMA SameBytesStep ==
    ASSUME TypeOK, SameBytesSameFamily, [Next]_vars PROVE SameBytesSameFamily'
<1>1. ASSUME NEW c \in Collections, NEW u \in Uris, NEW b \in Contents,
             NEW p \in Profiles, RecordRoot(c, u, b, p)
      PROVE  SameBytesSameFamily'
  <2>1. Declaration[c][u] = Undeclared => Holders(b) = {}
    BY <1>1 DEF RecordRoot, JoinableLineages
  <2>2. AppendVersion(c, u, b, p, Declaration[c][u])
    BY <1>1 DEF RecordRoot
  <2> QED BY <2>1, <2>2, SameBytesAppend
<1>2. ASSUME NEW c \in Collections, NEW u \in Uris, NEW b \in Contents,
             NEW p \in Profiles, RecordRelative(c, u, b, p)
      PROVE  SameBytesSameFamily'
  <2> DEFINE d == Declaration[c][u]
  <2>1. PICK l \in JoinableLineages(b, d) :
           member' = [member EXCEPT ![u] =
                         [family |-> l.family, role |-> JoinRole(l, b, d), root |-> l.root]]
    BY <1>2 DEF RecordRelative
  <2>2. member'[u].family = l.family /\ member'[u].root = l.root /\ member'[u].role # "root"
    BY <2>1 DEF TypeOK, JoinRole
  <2>3. l = [family |-> l.family, root |-> l.root]
    BY JoinableTyped, <2>1 DEF LineageOf
  <2>4. LineageOf(u)' = l
    BY <2>2, <2>3 DEF LineageOf
  <2>5. d = Undeclared => \A w \in Holders(b) : LineageOf(w) = l
    BY <1>2, <2>1 DEF RecordRelative, LineageIsUnambiguous, JoinableLineages
  <2>6. AppendVersion(c, u, b, p, d)
    BY <1>2 DEF RecordRelative
  <2> QED BY <2>4, <2>5, <2>6, SameBytesAppend
<1>3. ASSUME NEW c \in Collections, NEW u \in Uris, NEW b \in Contents,
             NEW p \in Profiles, RecordChanged(c, u, b, p)
      PROVE  SameBytesSameFamily'
  <2>1. Declaration[c][u] = Undeclared =>
            \A w \in Holders(b) \ {u} : LineageOf(w) = LineageOf(u)
    BY <1>3 DEF RecordChanged, CompatibleBytes
  <2>2. LineageOf(u)' = LineageOf(u)
    BY <1>3 DEF RecordChanged, LineageOf
  <2>3. AppendVersion(c, u, b, p, Declaration[c][u])
    BY <1>3 DEF RecordChanged
  <2> QED BY <2>1, <2>2, <2>3, SameBytesAppend
<1>4. CASE UNCHANGED <<member, versions>>
  BY <1>4 DEF SameBytesSameFamily, LineageOf
<1>5. \/ \E c \in Collections, u \in Uris, b \in Contents, p \in Profiles :
            RecordRoot(c, u, b, p) \/ RecordRelative(c, u, b, p) \/ RecordChanged(c, u, b, p)
      \/ UNCHANGED <<member, versions>>
  BY DEF Next, vars, Record, CreateCollection, RecordUnchanged, RecordReverted, FreezeSnapshot
<1> QED BY <1>1, <1>2, <1>3, <1>4, <1>5

\* Undeclared copies of the same bytes are one family in every reachable state.
THEOREM SameBytesCorrect == Spec => []SameBytesSameFamily
<1>1. Init => SameBytesSameFamily
  BY DEF Init, SameBytesSameFamily
<1>2. TypeOK /\ SameBytesSameFamily /\ [Next]_vars => SameBytesSameFamily'
  BY SameBytesStep
<1> QED BY <1>1, <1>2, TypeCorrect, PTL DEF Spec

\* Roots and equal bytes, for any Collections, files, contents and manifests.
THEOREM FamiliesAlwaysHold == Spec => []FamiliesHold
BY LineageCorrect, SameBytesCorrect, PTL DEF FamiliesHold

----------------------------------------------------------------------------
(* Declared identity *)

LEMMA IdentityAppend ==
    ASSUME TypeOK, IdentityNeverRebound, [Next]_vars,
           NEW c \in Collections, NEW u \in Uris, NEW b \in Contents, NEW p \in Profiles,
           AppendVersion(c, u, b, p, Declaration[c][u]),
           Declaration[c][u] # Undeclared =>
               identity'[LogicalUri[Declaration[c][u]]] = member'[u].family,
           \A k \in Logicals : identity[k] # 0 => identity'[k] = identity[k],
           \A l, k \in Logicals : identity'[l] = identity'[k] /\ identity'[l] # 0 => l = k
    PROVE  IdentityNeverRebound'
<1> DEFINE d == Declaration[c][u]
<1>1. /\ versions' \in [Uris -> Seq(VersionRows)]
      /\ versions'[u][Len(versions[u]) + 1] = [content |-> b, profile |-> p, bound |-> d]
      /\ DOMAIN versions'[u] = 1 .. Len(versions[u]) + 1
      /\ DOMAIN versions[u] = 1 .. Len(versions[u])
      /\ \A i \in DOMAIN versions[u] : versions'[u][i] = versions[u][i]
      /\ \A v \in Uris \ {u} : versions'[v] = versions[v]
  BY DeclarationTyped, AppendedVersions
<1>2. Len(versions[u]) \in Nat
  BY DEF TypeOK
<1>3. ASSUME NEW v \in Uris, NEW i \in DOMAIN versions'[v], versions'[v][i].bound # Undeclared
      PROVE  identity'[LogicalUri[versions'[v][i].bound]] = member'[v].family
  <2>1. CASE i \in DOMAIN versions[v]
    <3>1. versions'[v][i] = versions[v][i]
      BY <1>1, <2>1
    <3>2. versions[v][i] \in VersionRows /\ IsSource(v)
      BY <2>1 DEF TypeOK
    <3>3. LogicalUri[versions[v][i].bound] \in Logicals
      BY <1>3, <3>1, <3>2, ConstantsAssumption DEF VersionRows, ConstantsAssumption
    <3>4. identity[LogicalUri[versions[v][i].bound]] = member[v].family
      BY <1>3, <2>1, <3>1 DEF IdentityNeverRebound
    <3>5. member[v].family # 0 /\ member'[v] = member[v]
      BY <3>2, MemberKept DEF IsSource
    <3> QED BY <3>1, <3>3, <3>4, <3>5
  <2>2. CASE i \notin DOMAIN versions[v]
    <3>1. v = u /\ i = Len(versions[u]) + 1
      BY <1>1, <1>2, <1>3, <2>2
    <3> QED BY <1>1, <1>3, <3>1
  <2> QED BY <2>1, <2>2
<1> QED BY <1>3 DEF IdentityNeverRebound

LEMMA IdentityStep ==
    ASSUME TypeOK, IdentityNeverRebound, [Next]_vars PROVE IdentityNeverRebound'
<1>1. ASSUME NEW c \in Collections, NEW u \in Uris, NEW b \in Contents,
             NEW p \in Profiles, RecordRoot(c, u, b, p)
      PROVE  IdentityNeverRebound'
  <2> DEFINE d == Declaration[c][u]
  <2>1. /\ AppendVersion(c, u, b, p, d)
        /\ member'[u].family = families + 1
        /\ families \in Nat
        /\ \A k \in Logicals : identity[k] \in 0..families
    BY <1>1 DEF RecordRoot, TypeOK
  <2>2. CASE d = Undeclared
    <3>1. identity' = identity
      BY <1>1, <2>2 DEF RecordRoot
    <3> QED BY <2>1, <2>2, <3>1, IdentityAppend DEF IdentityNeverRebound
  <2>3. CASE d # Undeclared
    <3>1. LogicalUri[d] \in Logicals /\ identity[LogicalUri[d]] = 0
      BY <1>1, <2>3, DeclarationTyped DEF RecordRoot, LineageIsUnambiguous
    <3>2. /\ identity'[LogicalUri[d]] = families + 1
          /\ \A k \in Logicals \ {LogicalUri[d]} : identity'[k] = identity[k]
      BY <1>1, <2>3, <3>1 DEF RecordRoot, TypeOK
    <3>3. \A k \in Logicals : identity[k] # 0 => identity'[k] = identity[k]
      BY <3>1, <3>2
    <3>4. \A l, k \in Logicals : identity'[l] = identity'[k] /\ identity'[l] # 0 => l = k
      BY <2>1, <3>1, <3>2 DEF IdentityNeverRebound
    <3> QED BY <2>1, <3>2, <3>3, <3>4, IdentityAppend
  <2> QED BY <2>2, <2>3
<1>2. ASSUME NEW c \in Collections, NEW u \in Uris, NEW b \in Contents,
             NEW p \in Profiles, RecordRelative(c, u, b, p)
      PROVE  IdentityNeverRebound'
  <2> DEFINE d == Declaration[c][u]
  <2>1. PICK l \in JoinableLineages(b, d) :
           member' = [member EXCEPT ![u] =
                         [family |-> l.family, role |-> JoinRole(l, b, d), root |-> l.root]]
    BY <1>2 DEF RecordRelative
  <2>2. member'[u].family = l.family
    BY <2>1 DEF TypeOK
  <2>3. d # Undeclared => identity[LogicalUri[d]] = l.family
    BY <2>1 DEF JoinableLineages
  <2>4. AppendVersion(c, u, b, p, d) /\ identity' = identity
    BY <1>2 DEF RecordRelative
  <2> QED BY <2>2, <2>3, <2>4, IdentityAppend DEF IdentityNeverRebound
<1>3. ASSUME NEW c \in Collections, NEW u \in Uris, NEW b \in Contents,
             NEW p \in Profiles, RecordChanged(c, u, b, p)
      PROVE  IdentityNeverRebound'
  <2>1. /\ AppendVersion(c, u, b, p, Declaration[c][u])
        /\ KeepsIdentity(u, Declaration[c][u])
        /\ identity' = identity /\ member' = member
    BY <1>3 DEF RecordChanged
  <2> QED BY <2>1, IdentityAppend DEF IdentityNeverRebound, KeepsIdentity
<1>4. CASE UNCHANGED <<member, versions, identity>>
  BY <1>4 DEF IdentityNeverRebound
<1>5. \/ \E c \in Collections, u \in Uris, b \in Contents, p \in Profiles :
            RecordRoot(c, u, b, p) \/ RecordRelative(c, u, b, p) \/ RecordChanged(c, u, b, p)
      \/ UNCHANGED <<member, versions, identity>>
  BY DEF Next, vars, Record, CreateCollection, RecordUnchanged, RecordReverted, FreezeSnapshot
<1> QED BY <1>1, <1>2, <1>3, <1>4, <1>5

\* Whatever manifests declare a file, its bindings name one logical work.
THEOREM IdentityCorrect == Spec => []IdentityNeverRebound
<1>1. Init => IdentityNeverRebound
  BY DEF Init, IdentityNeverRebound
<1>2. TypeOK /\ IdentityNeverRebound /\ [Next]_vars => IdentityNeverRebound'
  BY IdentityStep
<1> QED BY <1>1, <1>2, TypeCorrect, PTL DEF Spec

----------------------------------------------------------------------------
(* Snapshots *)

\* What makes SnapshotsReconstruct inductive: the rows of a snapshot name
\* stored versions.
RowsStored ==
    \A s \in snapshots : \A r \in s.rows :
        r.uri \in Uris /\ IsSource(r.uri) /\ r.version \in DOMAIN versions[r.uri]

SnapshotInv == RowsStored /\ SnapshotsReconstruct

\* The entry of a row does not change once the row can be looked up.
LEMMA EntryKept ==
    ASSUME TypeOK, [Next]_vars, NEW s \in snapshots, RowsStored, NEW r \in s.rows
    PROVE  /\ ManifestEntry(r)' = ManifestEntry(r)
           /\ IsSource(r.uri)' /\ r.version \in DOMAIN versions'[r.uri]
<1>1. r.uri \in Uris /\ IsSource(r.uri) /\ r.version \in DOMAIN versions[r.uri]
  BY DEF RowsStored
<1>2. member'[r.uri] = member[r.uri]
  BY <1>1, MemberKept
<1>3. /\ r.version \in DOMAIN versions'[r.uri]
      /\ versions'[r.uri][r.version] = versions[r.uri][r.version]
  BY <1>1, VersionKept
<1> QED BY <1>1, <1>2, <1>3 DEF ManifestEntry, LineageOf, IsSource

LEMMA SnapshotStep == ASSUME TypeOK, SnapshotInv, [Next]_vars PROVE SnapshotInv'
<1>1. ASSUME NEW s \in snapshots
      PROVE  /\ Reconstruct(s)' = s.manifest
             /\ \A r \in s.rows : r.uri \in Uris /\ IsSource(r.uri)'
                                   /\ r.version \in DOMAIN versions'[r.uri]
  <2>1. \A r \in s.rows : /\ ManifestEntry(r)' = ManifestEntry(r)
                          /\ r.uri \in Uris /\ IsSource(r.uri)'
                          /\ r.version \in DOMAIN versions'[r.uri]
    BY EntryKept DEF SnapshotInv, RowsStored
  <2>2. Reconstruct(s) = s.manifest
    BY DEF SnapshotInv, SnapshotsReconstruct
  <2> QED BY <2>1, <2>2 DEF Reconstruct
<1>2. ASSUME NEW scope \in SUBSET Collections, FreezeSnapshot(scope)
      PROVE  SnapshotInv'
  <2>1. PICK new : new = [scope |-> scope, rows |-> CurrentRows(scope),
                         manifest |-> {ManifestEntry(r) : r \in CurrentRows(scope)}]
    OBVIOUS
  <2>2. snapshots' = snapshots \cup {new} /\ UNCHANGED <<member, versions, head, membership>>
    BY <1>2, <2>1 DEF FreezeSnapshot
  <2>3. \A r \in new.rows : r.uri \in Uris /\ IsSource(r.uri)
                            /\ r.version \in DOMAIN versions[r.uri]
    BY <2>1 DEF CurrentRows, Row, TypeOK
  <2>4. \A r \in new.rows : ManifestEntry(r)' = ManifestEntry(r)
    BY <2>2 DEF ManifestEntry, LineageOf
  <2>5. Reconstruct(new)' = new.manifest
    BY <2>1, <2>4 DEF Reconstruct
  <2>6. RowsStored'
    BY <1>1, <2>2, <2>3 DEF RowsStored, IsSource
  <2>7. SnapshotsReconstruct'
    BY <1>1, <2>2, <2>5 DEF SnapshotsReconstruct
  <2> QED BY <2>6, <2>7 DEF SnapshotInv
<1>3. CASE UNCHANGED snapshots
  BY <1>1, <1>3 DEF SnapshotInv, RowsStored, SnapshotsReconstruct
<1>4. (\E scope \in SUBSET Collections : FreezeSnapshot(scope)) \/ UNCHANGED snapshots
  BY DEF Next, vars, Record, CreateCollection, RecordRoot, RecordRelative, RecordChanged,
         RecordUnchanged, RecordReverted
<1> QED BY <1>2, <1>3, <1>4

\* A frozen snapshot rebuilds to the manifest it was hashed as, for ever.
THEOREM SnapshotsDurable == Spec => []SnapshotsReconstruct
<1>1. Init => SnapshotInv
  BY DEF Init, SnapshotInv, RowsStored, SnapshotsReconstruct
<1>2. TypeOK /\ SnapshotInv /\ [Next]_vars => SnapshotInv'
  BY SnapshotStep
<1>3. SnapshotInv => SnapshotsReconstruct
  BY DEF SnapshotInv
<1> QED BY <1>1, <1>2, <1>3, TypeCorrect, PTL DEF Spec

----------------------------------------------------------------------------
(* Duplicates *)

\* What a Source holds it holds for ever, and its first version is the first.
LEMMA BytesKept ==
    ASSUME TypeOK, [Next]_vars, NEW u \in Uris
    PROVE  /\ \A b : HasBytes(u, b) => HasBytes(u, b)'
           /\ IsSource(u) => versions'[u][1] = versions[u][1]
<1>1. \A i \in DOMAIN versions[u] : /\ i \in DOMAIN versions'[u]
                                     /\ versions'[u][i] = versions[u][i]
  BY VersionKept
<1>2. IsSource(u) => 1 \in DOMAIN versions[u]
  <2>1. versions[u] \in Seq(VersionRows) /\ DOMAIN versions[u] = 1 .. Len(versions[u])
    BY DEF TypeOK
  <2> QED BY <2>1 DEF TypeOK
<1> QED BY <1>1, <1>2 DEF HasBytes

\* A Source that is added as a duplicate is added beside a holder of its bytes.
LEMMA TwinOfAdded ==
    ASSUME TypeOK, NEW c \in Collections, NEW u \in Uris, NEW b \in Contents,
           NEW p \in Profiles, RecordRelative(c, u, b, p), member'[u].role = "duplicate"
    PROVE  \E v \in Uris \ {u} : member[v].family = member'[u].family /\ HasBytes(v, b)
<1> DEFINE d == Declaration[c][u]
<1>1. PICK l \in JoinableLineages(b, d) :
         member' = [member EXCEPT ![u] =
                       [family |-> l.family, role |-> JoinRole(l, b, d), root |-> l.root]]
  BY DEF RecordRelative
<1>2. member'[u].family = l.family /\ JoinRole(l, b, d) = "duplicate"
  BY <1>1 DEF TypeOK
<1>3. ~HasBytes(u, b)
  BY DEF RecordRelative, TypeOK, HasBytes
<1>4. CASE d = Undeclared
  <2>1. PICK v \in Holders(b) : l = LineageOf(v)
    BY <1>1, <1>4 DEF JoinableLineages
  <2> QED BY <1>2, <1>3, <2>1 DEF Holders, LineageOf
<1>5. CASE d # Undeclared
  <2>1. DeclaredContentExists(l.family, b)
    BY <1>2, <1>5 DEF JoinRole
  <2> QED BY <1>2, <1>3, <2>1 DEF DeclaredContentExists, HasBytes
<1> QED BY <1>4, <1>5

LEMMA TwinStep == ASSUME TypeOK, DuplicateHasTwin, [Next]_vars PROVE DuplicateHasTwin'
<1> SUFFICES ASSUME NEW u \in Uris, member'[u].role = "duplicate"
             PROVE  \E v \in Uris \ {u} : /\ member'[v].family = member'[u].family
                                          /\ HasBytes(v, versions[u][1].content)'
  BY DEF DuplicateHasTwin
<1>1. CASE IsSource(u)
  <2>1. member'[u] = member[u] /\ versions'[u][1] = versions[u][1]
    BY <1>1, MemberKept, BytesKept
  <2>2. PICK b : b = versions[u][1].content
    OBVIOUS
  <2>3. PICK v \in Uris \ {u} : member[v].family = member[u].family /\ HasBytes(v, b)
    BY <2>1, <2>2 DEF DuplicateHasTwin
  <2>4. IsSource(v)
    BY <1>1, <2>3 DEF IsSource
  <2>5. member'[v] = member[v]
    BY <2>4, MemberKept
  <2>6. HasBytes(v, b)'
    BY <2>3, BytesKept
  <2> QED BY <2>1, <2>3, <2>5, <2>6, <2>2 DEF HasBytes
<1>2. CASE ~IsSource(u)
  <2>1. member[u] = NoMember
    BY <1>2 DEF IsSource, TypeOK, MemberRows
  <2>2. PICK c \in Collections, b \in Contents, p \in Profiles : RecordRelative(c, u, b, p)
    <3>1. member'[u] # member[u] /\ member'[u].role # "root"
      BY <2>1 DEF NoMember
    <3>2. PICK c \in Collections, w \in Uris, b \in Contents, p \in Profiles :
             RecordRoot(c, w, b, p) \/ RecordRelative(c, w, b, p)
      BY <3>1 DEF Next, vars, Record, CreateCollection, RecordChanged, RecordUnchanged,
         RecordReverted, FreezeSnapshot
    <3>3. w = u
      BY <3>1, <3>2 DEF RecordRoot, RecordRelative, TypeOK
    <3>4. ~RecordRoot(c, u, b, p)
      BY <3>1 DEF RecordRoot, TypeOK
    <3> QED BY <3>2, <3>3, <3>4
  <2>3. PICK v \in Uris \ {u} : member[v].family = member'[u].family /\ HasBytes(v, b)
    BY <2>2, TwinOfAdded
  <2>4. member'[v] = member[v] /\ HasBytes(v, b)'
    BY <2>2, <2>3, BytesKept DEF RecordRelative, TypeOK
  <2>5. versions'[u][1].content = b
    <3>1. AppendVersion(c, u, b, p, Declaration[c][u]) /\ Len(versions[u]) = 0
      BY <2>2 DEF RecordRelative, TypeOK
    <3>2. Declaration[c][u] \in Declarations \cup {Undeclared}
      BY DeclarationTyped
    <3>3. versions'[u][Len(versions[u]) + 1]
              = [content |-> b, profile |-> p, bound |-> Declaration[c][u]]
      BY <3>1, <3>2, AppendedVersions
    <3> QED BY <3>1, <3>3
  <2> QED BY <2>3, <2>4, <2>5 DEF HasBytes
<1> QED BY <1>1, <1>2

\* Whatever is recorded afterwards, a duplicate has a relative with the bytes it
\* was added with.
THEOREM DuplicatesKeepTheirTwins == Spec => []DuplicateHasTwin
<1>1. Init => DuplicateHasTwin
  BY DEF Init, DuplicateHasTwin, NoMember
<1>2. TypeOK /\ DuplicateHasTwin /\ [Next]_vars => DuplicateHasTwin'
  BY TwinStep
<1> QED BY <1>1, <1>2, TypeCorrect, PTL DEF Spec

----------------------------------------------------------------------------
(* The events and the heads *)

EventTypes == {"collection.created", "source_identity.binding_recorded",
               "source_version.recorded", "source_head.reverted", "corpus_snapshot.frozen"}

EventRows == [type : EventTypes, subject : Collections \cup Uris \cup SUBSET Collections,
              version : Nat]

\* What OutboxReplaysHeads says of one Source.
HeadsTold(u) ==
    LET recorded == RowsAbout(u, {"source_version.recorded"})
        moves == RowsAbout(u, {"source_version.recorded", "source_head.reverted"})
    IN /\ {outbox[k].version : k \in recorded} = DOMAIN versions[u]
       /\ \A k, l \in recorded : k < l => outbox[k].version < outbox[l].version
       /\ IF moves = {} THEN head[u] = 0
          ELSE \E k \in moves : /\ \A l \in moves : l <= k
                                /\ outbox[k].version = head[u]

OutboxTold == outbox \in Seq(EventRows) /\ \A u \in Uris : HeadsTold(u)

\* A longer outbox keeps its rows; nothing is told of a Source by new rows about
\* something else.
LEMMA RowsAsBefore ==
    ASSUME outbox \in Seq(EventRows), outbox' \in Seq(EventRows), Len(outbox) <= Len(outbox'),
           \A k \in 1..Len(outbox) : outbox'[k] = outbox[k], NEW u, NEW types,
           \A k \in Len(outbox) + 1..Len(outbox') :
              ~(outbox'[k].subject = u /\ outbox'[k].type \in types)
    PROVE  RowsAbout(u, types)' = RowsAbout(u, types)
  <1>1. /\ DOMAIN outbox = 1..Len(outbox) /\ DOMAIN outbox' = 1..Len(outbox')
        /\ Len(outbox) \in Nat /\ Len(outbox') \in Nat
    OBVIOUS
  <1> QED BY <1>1 DEF RowsAbout

\* The last of the new rows may be the only one that tells of a Source.
LEMMA LastRowAdded ==
    ASSUME outbox \in Seq(EventRows), outbox' \in Seq(EventRows), Len(outbox) < Len(outbox'),
           \A k \in 1..Len(outbox) : outbox'[k] = outbox[k], NEW u, NEW types,
           outbox'[Len(outbox')].subject = u, outbox'[Len(outbox')].type \in types,
           \A k \in Len(outbox) + 1..Len(outbox') - 1 :
              ~(outbox'[k].subject = u /\ outbox'[k].type \in types)
    PROVE  RowsAbout(u, types)' = RowsAbout(u, types) \cup {Len(outbox')}
  <1>1. /\ DOMAIN outbox = 1..Len(outbox) /\ DOMAIN outbox' = 1..Len(outbox')
        /\ Len(outbox) \in Nat /\ Len(outbox') \in Nat
    OBVIOUS
  <1>2. ASSUME NEW k \in RowsAbout(u, types)' PROVE k \in RowsAbout(u, types) \cup {Len(outbox')}
    BY <1>1, <1>2 DEF RowsAbout
  <1>3. ASSUME NEW k \in RowsAbout(u, types) \cup {Len(outbox')} PROVE k \in RowsAbout(u, types)'
    BY <1>1, <1>3 DEF RowsAbout
  <1> QED BY <1>2, <1>3

\* A Source is told of as before when no new row is about its head.
LEMMA ToldAsBefore ==
    ASSUME outbox \in Seq(EventRows), outbox' \in Seq(EventRows), Len(outbox) <= Len(outbox'),
           \A k \in 1..Len(outbox) : outbox'[k] = outbox[k],
           NEW u \in Uris, HeadsTold(u), versions'[u] = versions[u], head'[u] = head[u],
           \A k \in Len(outbox) + 1..Len(outbox') :
              outbox'[k].subject # u
              \/ outbox'[k].type \notin {"source_version.recorded", "source_head.reverted"}
    PROVE  HeadsTold(u)'
  <1> DEFINE recorded == RowsAbout(u, {"source_version.recorded"})
             moves == RowsAbout(u, {"source_version.recorded", "source_head.reverted"})
  <1>1. recorded' = recorded
    <2>1. \A k \in Len(outbox) + 1..Len(outbox') :
             ~(outbox'[k].subject = u /\ outbox'[k].type \in {"source_version.recorded"})
      OBVIOUS
    <2> QED BY <2>1, RowsAsBefore
  <1>2. moves' = moves
    <2>1. \A k \in Len(outbox) + 1..Len(outbox') :
             ~(outbox'[k].subject = u
               /\ outbox'[k].type \in {"source_version.recorded", "source_head.reverted"})
      OBVIOUS
    <2> QED BY <2>1, RowsAsBefore
  <1>3. \A k \in recorded \cup moves : outbox'[k] = outbox[k]
    BY DEF RowsAbout
  <1>4. /\ {outbox[k].version : k \in recorded} = DOMAIN versions[u]
        /\ \A k, l \in recorded : k < l => outbox[k].version < outbox[l].version
        /\ IF moves = {} THEN head[u] = 0
           ELSE \E k \in moves : (\A l \in moves : l <= k) /\ outbox[k].version = head[u]
    BY DEF HeadsTold
  <1> HIDE DEF recorded, moves
  <1>5. /\ {outbox'[k].version : k \in recorded} = DOMAIN versions'[u]
        /\ \A k, l \in recorded : k < l => outbox'[k].version < outbox'[l].version
        /\ IF moves = {} THEN head'[u] = 0
           ELSE \E k \in moves : (\A l \in moves : l <= k) /\ outbox'[k].version = head'[u]
    BY <1>3, <1>4
  <1> QED BY <1>1, <1>2, <1>5 DEF HeadsTold, recorded, moves

\* The rows AppendVersion adds: a binding, if the file is declared, and the version.
LEMMA AppendedRows ==
    ASSUME TypeOK, outbox \in Seq(EventRows), NEW c, NEW u \in Uris, NEW b, NEW p, NEW d,
           AppendVersion(c, u, b, p, d)
    PROVE  /\ outbox' \in Seq(EventRows) /\ Len(outbox) < Len(outbox')
           /\ \A k \in 1..Len(outbox) : outbox'[k] = outbox[k]
           /\ outbox'[Len(outbox')] = Event("source_version.recorded", u, Len(versions[u]) + 1)
           /\ \A k \in Len(outbox) + 1..Len(outbox') - 1 :
                 outbox'[k].type = "source_identity.binding_recorded"
  <1> DEFINE bound == Event("source_identity.binding_recorded", u, Len(versions[u]) + 1)
             recorded == Event("source_version.recorded", u, Len(versions[u]) + 1)
  <1>1. Len(versions[u]) \in Nat
    BY DEF TypeOK
  <1>2. /\ bound \in EventRows /\ bound.type = "source_identity.binding_recorded"
        /\ recorded \in EventRows
    BY <1>1 DEF EventRows, EventTypes, Event
  <1>3. outbox' = (outbox \o (IF d = Undeclared THEN <<>> ELSE <<bound>>)) \o <<recorded>>
    BY DEF AppendVersion
  <1> HIDE DEF bound, recorded
  <1>4. CASE d = Undeclared
    <2>1. outbox \o <<>> = outbox
      OBVIOUS
    <2>2. outbox' = outbox \o <<recorded>>
      BY <1>3, <1>4, <2>1
    <2>3. /\ outbox' \in Seq(EventRows) /\ Len(outbox') = Len(outbox) + 1
          /\ Len(outbox) \in Nat
          /\ \A k \in 1..Len(outbox) : outbox'[k] = outbox[k]
          /\ outbox'[Len(outbox) + 1] = recorded
      BY <1>2, <2>2
    <2>4. Len(outbox) + 1..Len(outbox') - 1 = {}
      BY <2>3
    <2> QED BY <2>3, <2>4 DEF recorded
  <1>5. CASE d # Undeclared
    <2> DEFINE longer == outbox \o <<bound>>
    <2>1. /\ longer \in Seq(EventRows) /\ Len(longer) = Len(outbox) + 1
          /\ Len(outbox) \in Nat
          /\ \A k \in 1..Len(outbox) : longer[k] = outbox[k]
          /\ longer[Len(outbox) + 1] = bound
      BY <1>2
    <2>2. outbox' = longer \o <<recorded>>
      BY <1>3, <1>5
    <2> HIDE DEF longer
    <2>3. /\ outbox' \in Seq(EventRows) /\ Len(outbox') = Len(longer) + 1
          /\ \A k \in 1..Len(longer) : outbox'[k] = longer[k]
          /\ outbox'[Len(longer) + 1] = recorded
      BY <1>2, <2>1, <2>2
    <2>4. \A k \in Len(outbox) + 1..Len(outbox') - 1 : outbox'[k] = bound
      BY <2>1, <2>3
    <2> QED BY <1>2, <2>1, <2>3, <2>4 DEF recorded
  <1> QED BY <1>4, <1>5

\* A new version is announced by one row, behind those of the older versions.
LEMMA VersionTold ==
    ASSUME TypeOK, OutboxTold, NEW c \in Collections, NEW u \in Uris, NEW b \in Contents,
           NEW p \in Profiles, NEW d \in Declarations \cup {Undeclared},
           AppendVersion(c, u, b, p, d)
    PROVE  OutboxTold'
  <1> DEFINE added == Len(outbox')
  <1>1. /\ outbox' \in Seq(EventRows) /\ Len(outbox) < Len(outbox')
        /\ \A k \in 1..Len(outbox) : outbox'[k] = outbox[k]
        /\ outbox'[added] = Event("source_version.recorded", u, Len(versions[u]) + 1)
        /\ \A k \in Len(outbox) + 1..added - 1 :
              outbox'[k].type = "source_identity.binding_recorded"
    BY AppendedRows DEF OutboxTold
  <1>2. /\ outbox'[added].type = "source_version.recorded" /\ outbox'[added].subject = u
        /\ outbox'[added].version = Len(versions[u]) + 1
    BY <1>1 DEF Event
  <1>3. /\ outbox \in Seq(EventRows) /\ Len(outbox) \in Nat /\ Len(outbox') \in Nat
        /\ DOMAIN outbox = 1..Len(outbox)
    BY <1>1 DEF OutboxTold
  <1>4. ASSUME NEW v \in Uris \ {u} PROVE HeadsTold(v)'
    <2>1. HeadsTold(v) /\ versions'[v] = versions[v] /\ head'[v] = head[v]
      BY AppendedVersions DEF OutboxTold
    <2>2. \A k \in Len(outbox) + 1..Len(outbox') :
             \/ outbox'[k].subject # v
             \/ outbox'[k].type \notin {"source_version.recorded", "source_head.reverted"}
      <3>1. \A k \in Len(outbox) + 1..Len(outbox') : k = added \/ k \in Len(outbox) + 1..added - 1
        BY <1>3
      <3> QED BY <1>1, <1>2, <3>1
    <2> QED BY <1>1, <1>3, <2>1, <2>2, ToldAsBefore
  <1>5. HeadsTold(u)'
    <2> DEFINE recorded == RowsAbout(u, {"source_version.recorded"})
               moves == RowsAbout(u, {"source_version.recorded", "source_head.reverted"})
    <2>1. recorded' = recorded \cup {added}
      <3>1. /\ outbox'[added].type \in {"source_version.recorded"}
            /\ \A k \in Len(outbox) + 1..Len(outbox') - 1 :
                  ~(outbox'[k].subject = u /\ outbox'[k].type \in {"source_version.recorded"})
        BY <1>1, <1>2
      <3> QED BY <1>1, <1>2, <1>3, <3>1, LastRowAdded
    <2>2. moves' = moves \cup {added}
      <3>1. /\ outbox'[added].type \in {"source_version.recorded", "source_head.reverted"}
            /\ \A k \in Len(outbox) + 1..Len(outbox') - 1 :
                  ~(outbox'[k].subject = u
                    /\ outbox'[k].type \in {"source_version.recorded", "source_head.reverted"})
        BY <1>1, <1>2
      <3> QED BY <1>1, <1>2, <1>3, <3>1, LastRowAdded
    <2>3. /\ recorded \subseteq 1..Len(outbox) /\ moves \subseteq 1..Len(outbox)
      BY <1>3 DEF RowsAbout
    <2>4. /\ {outbox[k].version : k \in recorded} = DOMAIN versions[u]
          /\ \A k, l \in recorded : k < l => outbox[k].version < outbox[l].version
      BY DEF HeadsTold, OutboxTold
    <2>5. /\ DOMAIN versions'[u] = DOMAIN versions[u] \cup {Len(versions[u]) + 1}
          /\ DOMAIN versions[u] = 1..Len(versions[u]) /\ Len(versions[u]) \in Nat
      <3>1. DOMAIN versions'[u] = 1..Len(versions[u]) + 1
        BY AppendedVersions
      <3>2. versions[u] \in Seq(VersionRows)
        BY DEF TypeOK
      <3> QED BY <3>1, <3>2
    <2>6. head'[u] = Len(versions[u]) + 1
      BY DEF AppendVersion, TypeOK
    <2> HIDE DEF recorded, moves
    <2>7. \A k \in recorded : outbox'[k] = outbox[k] /\ outbox[k].version \in DOMAIN versions[u]
                              /\ k < added
      BY <1>1, <1>3, <2>3, <2>4
    <2>8. {outbox'[k].version : k \in recorded'} = DOMAIN versions'[u]
      BY <1>2, <2>1, <2>4, <2>5, <2>7
    <2>9. \A k, l \in recorded' : k < l => outbox'[k].version < outbox'[l].version
      <3>1. ASSUME NEW k \in recorded', NEW l \in recorded', k < l
            PROVE  outbox'[k].version < outbox'[l].version
        <4>1. k \in recorded
          BY <1>3, <2>1, <2>3, <2>7, <3>1
        <4>2. CASE l \in recorded
          BY <2>4, <2>7, <3>1, <4>1, <4>2
        <4>3. CASE l = added
          BY <1>2, <2>5, <2>7, <4>1, <4>3
        <4> QED BY <2>1, <4>2, <4>3
      <3> QED BY <3>1
    <2>10. /\ added \in moves' /\ \A l \in moves' : l <= added
           /\ outbox'[added].version = head'[u]
      BY <1>1, <1>2, <1>3, <2>2, <2>3, <2>6
    <2>11. /\ moves' # {}
           /\ \E k \in moves' : (\A l \in moves' : l <= k) /\ outbox'[k].version = head'[u]
      BY <2>10
    <2> QED BY <2>8, <2>9, <2>11 DEF HeadsTold, recorded, moves
  <1> QED BY <1>1, <1>4, <1>5 DEF OutboxTold

\* A row about anything else than a head leaves what is told.
LEMMA OtherTold ==
    ASSUME OutboxTold, NEW e \in EventRows, outbox' = Append(outbox, e),
           e.type \notin {"source_version.recorded", "source_head.reverted"},
           UNCHANGED <<versions, head>>
    PROVE  OutboxTold'
  <1>1. /\ outbox' \in Seq(EventRows) /\ Len(outbox') = Len(outbox) + 1 /\ Len(outbox) \in Nat
        /\ \A k \in 1..Len(outbox) : outbox'[k] = outbox[k]
        /\ outbox'[Len(outbox) + 1] = e
    BY DEF OutboxTold
  <1>2. \A k \in Len(outbox) + 1..Len(outbox') : outbox'[k] = e
    BY <1>1
  <1>3. ASSUME NEW u \in Uris PROVE HeadsTold(u)'
    <2>1. HeadsTold(u) /\ versions'[u] = versions[u] /\ head'[u] = head[u]
      BY DEF OutboxTold
    <2>2. \A k \in Len(outbox) + 1..Len(outbox') :
             \/ outbox'[k].subject # u
             \/ outbox'[k].type \notin {"source_version.recorded", "source_head.reverted"}
      BY <1>2
    <2>3. outbox \in Seq(EventRows) /\ Len(outbox) <= Len(outbox')
      BY <1>1 DEF OutboxTold
    <2> QED BY <1>1, <2>1, <2>2, <2>3, ToldAsBefore
  <1> QED BY <1>1, <1>3 DEF OutboxTold

\* A head moved back is announced by one row.
LEMMA RevertTold ==
    ASSUME TypeOK, OutboxTold, NEW u \in Uris, NEW i \in DOMAIN versions[u],
           head' = [head EXCEPT ![u] = i], outbox' = outbox \o RevertEvent(u, i),
           UNCHANGED versions
    PROVE  OutboxTold'
  <1> DEFINE reverted == Event("source_head.reverted", u, i)
             added == Len(outbox) + 1
  <1>1. i \in Nat
    BY DEF TypeOK
  <1>2. /\ reverted \in EventRows /\ reverted.type = "source_head.reverted"
        /\ reverted.subject = u /\ reverted.version = i
    BY <1>1 DEF EventRows, EventTypes, Event
  <1>3. outbox' = outbox \o <<reverted>>
    BY DEF RevertEvent
  <1> HIDE DEF reverted
  <1>4. /\ outbox \in Seq(EventRows) /\ outbox' \in Seq(EventRows) /\ Len(outbox') = added
        /\ Len(outbox) \in Nat /\ DOMAIN outbox = 1..Len(outbox)
        /\ \A k \in 1..Len(outbox) : outbox'[k] = outbox[k]
        /\ outbox'[added] = reverted
    BY <1>2, <1>3 DEF OutboxTold
  <1>5. \A k \in Len(outbox) + 1..Len(outbox') : outbox'[k] = reverted
    BY <1>4
  <1>6. ASSUME NEW v \in Uris \ {u} PROVE HeadsTold(v)'
    <2>1. HeadsTold(v) /\ versions'[v] = versions[v] /\ head'[v] = head[v]
      BY DEF OutboxTold, TypeOK
    <2>2. \A k \in Len(outbox) + 1..Len(outbox') :
             \/ outbox'[k].subject # v
             \/ outbox'[k].type \notin {"source_version.recorded", "source_head.reverted"}
      BY <1>2, <1>5
    <2> QED BY <1>4, <2>1, <2>2, ToldAsBefore
  <1>7. HeadsTold(u)'
    <2> DEFINE recorded == RowsAbout(u, {"source_version.recorded"})
               moves == RowsAbout(u, {"source_version.recorded", "source_head.reverted"})
    <2>1. recorded' = recorded
      <3>1. \A k \in Len(outbox) + 1..Len(outbox') :
               ~(outbox'[k].subject = u /\ outbox'[k].type \in {"source_version.recorded"})
        BY <1>2, <1>5
      <3> QED BY <1>4, <3>1, RowsAsBefore
    <2>2. moves' = moves \cup {added}
      <3>1. /\ outbox'[Len(outbox')].subject = u
            /\ outbox'[Len(outbox')].type \in {"source_version.recorded", "source_head.reverted"}
        BY <1>2, <1>4
      <3>2. Len(outbox) + 1..Len(outbox') - 1 = {}
        BY <1>4
      <3> QED BY <1>4, <3>1, <3>2, LastRowAdded
    <2>3. /\ recorded \subseteq 1..Len(outbox) /\ moves \subseteq 1..Len(outbox)
      BY <1>4 DEF RowsAbout
    <2>4. /\ {outbox[k].version : k \in recorded} = DOMAIN versions[u]
          /\ \A k, l \in recorded : k < l => outbox[k].version < outbox[l].version
      BY DEF HeadsTold, OutboxTold
    <2>5. head'[u] = i
      BY DEF TypeOK
    <2> HIDE DEF recorded, moves
    <2>6. /\ {outbox'[k].version : k \in recorded'} = DOMAIN versions'[u]
          /\ \A k, l \in recorded' : k < l => outbox'[k].version < outbox'[l].version
      <3>1. \A k \in recorded : outbox'[k] = outbox[k]
        BY <1>4, <2>3
      <3> QED BY <2>1, <2>4, <3>1
    <2>7. /\ added \in moves' /\ \A l \in moves' : l <= added
          /\ outbox'[added].version = head'[u]
      BY <1>2, <1>4, <2>2, <2>3, <2>5
    <2>8. /\ moves' # {}
          /\ \E k \in moves' : (\A l \in moves' : l <= k) /\ outbox'[k].version = head'[u]
      BY <2>7
    <2> QED BY <2>6, <2>8 DEF HeadsTold, recorded, moves
  <1> QED BY <1>4, <1>6, <1>7 DEF OutboxTold

LEMMA ToldStep == ASSUME TypeOK, OutboxTold, [Next]_vars PROVE OutboxTold'
<1>1. ASSUME NEW c \in Collections, CreateCollection(c) PROVE OutboxTold'
  <2> DEFINE e == Event("collection.created", c, 0)
  <2>1. e \in EventRows /\ e.type = "collection.created"
    BY DEF EventRows, EventTypes, Event
  <2>2. outbox' = Append(outbox, e) /\ UNCHANGED <<versions, head>>
    BY <1>1 DEF CreateCollection
  <2> HIDE DEF e
  <2> QED BY <2>1, <2>2, OtherTold
<1>2. ASSUME NEW scope \in SUBSET Collections, FreezeSnapshot(scope) PROVE OutboxTold'
  <2> DEFINE e == Event("corpus_snapshot.frozen", scope, 0)
  <2>1. e \in EventRows /\ e.type = "corpus_snapshot.frozen"
    BY DEF EventRows, EventTypes, Event
  <2>2. outbox' = Append(outbox, e) /\ UNCHANGED <<versions, head>>
    BY <1>2 DEF FreezeSnapshot
  <2> HIDE DEF e
  <2> QED BY <2>1, <2>2, OtherTold
<1>3. ASSUME NEW c \in Collections, NEW u \in Uris, NEW b \in Contents, NEW p \in Profiles,
             AppendVersion(c, u, b, p, Declaration[c][u])
      PROVE  OutboxTold'
  BY <1>3, DeclarationTyped, VersionTold
<1>4. ASSUME NEW c \in Collections, NEW u \in Uris, NEW b \in Contents, NEW p \in Profiles,
             RecordReverted(c, u, b, p)
      PROVE  OutboxTold'
  <2>1. PICK i \in DOMAIN versions[u] :
           head' = [head EXCEPT ![u] = i] /\ outbox' = outbox \o RevertEvent(u, i)
    BY <1>4 DEF RecordReverted
  <2>2. UNCHANGED versions
    BY <1>4 DEF RecordReverted
  <2> QED BY <2>1, <2>2, RevertTold
<1>5. ASSUME UNCHANGED <<outbox, versions, head>> PROVE OutboxTold'
  BY <1>5 DEF OutboxTold, HeadsTold, RowsAbout
<1>6. ASSUME NEW c \in Collections, NEW u \in Uris, NEW b \in Contents, NEW p \in Profiles,
             Record(c, u, b, p)
      PROVE  OutboxTold'
  BY <1>3, <1>4, <1>5, <1>6
     DEF Record, RecordRoot, RecordRelative, RecordChanged, RecordUnchanged
<1> QED BY <1>1, <1>2, <1>5, <1>6 DEF Next, vars

\* What the committed events tell of the heads is true for ever: each version is
\* announced once and in order, and the last word about a Source is its head.
THEOREM OutboxAlwaysReplaysHeads == Spec => []OutboxReplaysHeads
<1>1. Init => OutboxTold
  BY DEF Init, OutboxTold, HeadsTold, RowsAbout
<1>2. TypeOK /\ OutboxTold /\ [Next]_vars => OutboxTold'
  BY ToldStep
<1>3. OutboxTold => OutboxReplaysHeads
  BY DEF OutboxTold, HeadsTold, OutboxReplaysHeads
<1> QED BY <1>1, <1>2, <1>3, TypeCorrect, PTL DEF Spec

----------------------------------------------------------------------------
(* The archive of answers                                                  *)
(* What a writer is about to insert has its parent on the shelf already,   *)
(* for rows are never removed, and whatever is on the shelf is in the log. *)

ArchiveInv ==
    /\ log \in Seq(shelf)
    /\ \A x \in shelf : \E i \in 1..Len(log) : log[i] = x
    /\ \A i, j \in 1..Len(log) : log[i] = log[j] => i = j
    /\ \A i \in 1..Len(log) :
          log[i][1] \in Parented => \E j \in 1 .. i - 1 : log[j] = ParentOf(log[i])
    /\ \A w \in Writers : holding[w] # NoArtifact => ParentThere(holding[w])
    /\ \A w \in Writers : reply[w][2] \in {"kept", "conflict"} => reply[w][1] \in shelf
    /\ DOMAIN holding = Writers /\ DOMAIN reply = Writers

LEMMA ArchiveStarts == ASSUME ArchiveInit PROVE ArchiveInv
  BY DEF ArchiveInit, ArchiveInv, NoReply

LEMMA LookKeeps ==
    ASSUME ArchiveInv, NEW w \in Writers, NEW x, Look(w, x)
    PROVE  ArchiveInv'
  <1> DEFINE told == IF ~ ParentThere(x) THEN "not_found"
                     ELSE IF x \in shelf THEN "kept" ELSE "pending"
  <1>1. /\ holding' = [holding EXCEPT ![w] = IF told = "pending" THEN x ELSE NoArtifact]
        /\ reply' = [reply EXCEPT ![w] = <<x, told>>]
        /\ shelf' = shelf /\ log' = log
    BY DEF Look
  <1>2. told = "pending" => ParentThere(x)
    OBVIOUS
  <1>3. told \in {"kept", "conflict"} => x \in shelf
    OBVIOUS
  <1>4. \A y : ParentThere(y)' <=> ParentThere(y)
    BY <1>1 DEF ParentThere
  <1> HIDE DEF told
  <1>5. \A v \in Writers : holding'[v] # NoArtifact => ParentThere(holding'[v])
    BY <1>1, <1>2 DEF ArchiveInv
  <1>6. \A v \in Writers : reply'[v][2] \in {"kept", "conflict"} => reply'[v][1] \in shelf
    BY <1>1, <1>3 DEF ArchiveInv
  <1> QED BY <1>1, <1>4, <1>5, <1>6 DEF ArchiveInv

LEMMA InsertKeeps ==
    ASSUME ArchiveInv, NEW w \in Writers, Insert(w)
    PROVE  ArchiveInv'
  <1> DEFINE x == holding[w]
             n == Len(log)
  <1>1. /\ n \in Nat /\ DOMAIN log = 1..n
        /\ \A i \in 1..n : log[i] \in shelf
    BY DEF ArchiveInv
  <1>2. /\ x # NoArtifact /\ shelf' = shelf \cup {x}
        /\ holding' = [holding EXCEPT ![w] = NoArtifact]
        /\ reply' = [reply EXCEPT ![w] = <<x, IF x \notin shelf THEN "kept" ELSE "conflict">>]
    BY DEF Insert
  <1>3. ParentThere(x)
    BY <1>2 DEF ArchiveInv
  <1>4. (\A v \in Writers : holding[v] # NoArtifact => ParentThere(holding[v]))'
    BY <1>2 DEF ArchiveInv, ParentThere
  <1>5. (\A v \in Writers : reply[v][2] \in {"kept", "conflict"} => reply[v][1] \in shelf)'
    <2> SUFFICES ASSUME NEW v \in Writers, reply'[v][2] \in {"kept", "conflict"}
                 PROVE  reply'[v][1] \in shelf'
      OBVIOUS
    <2>1. CASE v = w
      <3>1. reply'[v][1] = x
        BY <1>2, <2>1 DEF ArchiveInv
      <3> QED BY <1>2, <3>1
    <2>2. CASE v # w
      BY <1>2, <2>2 DEF ArchiveInv
    <2> QED BY <2>1, <2>2
  <1>6. DOMAIN holding' = Writers /\ DOMAIN reply' = Writers
    BY <1>2 DEF ArchiveInv
  <1>7. ASSUME x \in shelf PROVE shelf' = shelf /\ log' = log
    BY <1>2, <1>7 DEF Insert
  <1>8. ASSUME x \notin shelf
        PROVE  /\ log' \in Seq(shelf') /\ Len(log') = n + 1
               /\ log'[n + 1] = x
               /\ \A i \in 1..n : log'[i] = log[i]
    <2>1. log' = Append(log, x)
      BY <1>8 DEF Insert
    <2>2. log \in Seq(shelf')
      BY <1>1, <1>2 DEF ArchiveInv
    <2> QED BY <1>2, <2>1, <2>2
  <1> HIDE DEF x
  <1>9. ASSUME x \notin shelf PROVE ArchiveInv'
    <2>1. \A y \in shelf' : \E i \in 1..Len(log') : log'[i] = y
      BY <1>1, <1>2, <1>8, <1>9 DEF ArchiveInv
    <2>2. \A i, j \in 1..Len(log') : log'[i] = log'[j] => i = j
      BY <1>1, <1>8, <1>9 DEF ArchiveInv
    <2>3. ASSUME NEW i \in 1..Len(log'), log'[i][1] \in Parented
          PROVE  \E j \in 1 .. i - 1 : log'[j] = ParentOf(log'[i])
      <3>1. CASE i = n + 1
        <4>1. ParentOf(x) \in shelf
          BY <1>3, <1>8, <1>9, <2>3, <3>1 DEF ParentThere
        <4> QED BY <1>1, <1>8, <1>9, <3>1, <4>1 DEF ArchiveInv
      <3>2. CASE i # n + 1
        <4>1. i \in 1..n /\ log'[i] = log[i]
          BY <1>1, <1>8, <1>9, <3>2
        <4>2. PICK j \in 1 .. i - 1 : log[j] = ParentOf(log[i])
          BY <2>3, <4>1 DEF ArchiveInv
        <4> QED BY <1>1, <1>8, <1>9, <4>1, <4>2
      <3> QED BY <3>1, <3>2
    <2> QED BY <1>4, <1>5, <1>6, <1>8, <1>9, <2>1, <2>2, <2>3 DEF ArchiveInv
  <1>10. ASSUME x \in shelf PROVE ArchiveInv'
    BY <1>4, <1>5, <1>6, <1>7, <1>10 DEF ArchiveInv
  <1> QED BY <1>9, <1>10

LEMMA DieKeeps ==
    ASSUME ArchiveInv, NEW w \in Writers, Die(w)
    PROVE  ArchiveInv'
  <1>1. /\ shelf' = shelf /\ log' = log
        /\ holding' = [holding EXCEPT ![w] = NoArtifact]
        /\ reply' = [reply EXCEPT ![w] = NoReply]
    BY DEF Die
  <1>2. (\A v \in Writers : holding[v] # NoArtifact => ParentThere(holding[v]))'
    BY <1>1 DEF ArchiveInv, ParentThere
  <1>3. (\A v \in Writers : reply[v][2] \in {"kept", "conflict"} => reply[v][1] \in shelf)'
    BY <1>1 DEF ArchiveInv, NoReply
  <1> QED BY <1>1, <1>2, <1>3 DEF ArchiveInv

LEMMA ArchiveKept == ASSUME ArchiveInv, UNCHANGED archiveVars PROVE ArchiveInv'
  BY DEF ArchiveInv, archiveVars, ParentThere

\* Only a writer touches the archive.
LEMMA DeskLeavesArchive == ASSUME Desk \/ Stop PROVE UNCHANGED archiveVars
  BY DEF Desk, Change, Judge, Validate, Project, JudgeRoles, Show, Reason, Close, Stop,
         WriteOut, kept

LEMMA ArchiveStep == ASSUME ArchiveInv, [ReviewNext]_reviewVars PROVE ArchiveInv'
  <1>1. CASE Desk \/ Stop \/ UNCHANGED reviewVars
    BY <1>1, DeskLeavesArchive, ArchiveKept DEF reviewVars, kept
  <1>2. CASE \E w \in Writers : Archive(w)
    BY <1>2, LookKeeps, InsertKeeps, DieKeeps DEF Archive
  <1> QED BY <1>1, <1>2 DEF ReviewNext

\* The Library has every artifact once, with one event, after its parent, and
\* no writer is told of a row that is not there.
THEOREM EverythingIsKeptOnce == ReviewSpec => []KeptOnce
  <1>1. ReviewInit => ArchiveInv
    BY ArchiveStarts DEF ReviewInit
  <1>2. ArchiveInv /\ [ReviewNext]_reviewVars => ArchiveInv'
    BY ArchiveStep
  <1>3. ASSUME ArchiveInv PROVE KeptOnce
    <2>1. DOMAIN log = 1..Len(log) /\ \A i \in 1..Len(log) : log[i] \in shelf
      BY <1>3 DEF ArchiveInv
    <2>2. ToSet(log) = shelf
      BY <1>3, <2>1 DEF ArchiveInv, ToSet
    <2> QED BY <1>3, <2>1, <2>2 DEF ArchiveInv, KeptOnce
  <1> QED BY <1>1, <1>2, <1>3, PTL DEF ReviewSpec

----------------------------------------------------------------------------
(* What the gates let through                                              *)
(* A result that was accepted is the unified validation of its own answer, *)
(* over the packet and the coverage spec that its case set names, and its  *)
(* receipt judges every case of that set once.                             *)

Sound(v) ==
    \/ v.decision = "accepted"
    \/ v.semantic.decision = "passed"
    => LET s == v.semantic
           c == s.cases
       IN  /\ v.decision = "accepted" /\ s.decision = "passed"
           /\ v.answer \in Drafts /\ ValidSpec(c.spec)
           /\ c = CaseSet(v.answer, Task, c.packet, c.spec)
           /\ ValidAnswer(v.answer)
           /\ ExactAccepts(v.answer, Task, c.packet, v.files)
           /\ CoverageComplete(v.answer, c.spec, c.packet)
           /\ CanBuild(v.answer, Task, c.packet, c.spec)
           /\ s.receipt # None /\ IsList(s.receipt.judgments)
           /\ s = SemanticResult(c, s.receipt, v.expected)

\* A semantic result names what it was computed from, and passes over a
\* receipt only.
LEMMA SemanticFields ==
    ASSUME NEW c, NEW r, NEW expected
    PROVE  LET s == SemanticResult(c, r, expected)
           IN  /\ s.cases = c /\ s.receipt = r
               /\ s.decision = "passed" => r # None
  BY DEF SemanticResult

LEMMA ValidationSound ==
    ASSUME NEW a \in Drafts, NEW packet, NEW spec, ValidSpec(spec), NEW there, NEW given,
           given # None => IsList(given.judgments), NEW expected
    PROVE  LET v == Validation(a, Task, packet, spec, there, given, expected)
           IN  Sound([decision |-> v.decision, answer |-> v.answer, semantic |-> v.semantic,
                      files |-> there, expected |-> expected])
  <1> DEFINE v == Validation(a, Task, packet, spec, there, given, expected)
             c == CaseSet(a, Task, packet, spec)
             s == SemanticResult(c, given, expected)
             gates == /\ ValidAnswer(a)
                      /\ ExactAccepts(a, Task, packet, there)
                      /\ CoverageComplete(a, spec, packet)
             built == CanBuild(a, Task, packet, spec)
             w == [decision |-> v.decision, answer |-> v.answer, semantic |-> v.semantic,
                   files |-> there, expected |-> expected]
  <1> SUFFICES Sound(w)
    OBVIOUS
  <1>1. c.packet = packet /\ c.spec = spec
    BY DEF CaseSet
  <1>2. /\ s.cases = c /\ s.receipt = given
        /\ s.decision = "passed" => given # None
    BY SemanticFields
  <1>3. Unchecked.decision = "unchecked"
    BY DEF Unchecked
  <1>4. /\ v.answer = a
        /\ ~ (gates /\ built) => v.decision # "accepted" /\ v.semantic = Unchecked
        /\ gates /\ built => v.semantic = s /\ (v.decision = "accepted" <=> s.decision = "passed")
    BY <1>3 DEF Validation
  <1> HIDE DEF v, c, s
  <1>5. /\ w.decision = v.decision /\ w.answer = v.answer /\ w.semantic = v.semantic
        /\ w.files = there /\ w.expected = expected
    OBVIOUS
  <1> HIDE DEF w
  <1>6. CASE gates /\ built /\ s.decision = "passed"
    <2>1. w.semantic = s /\ w.decision = "accepted" /\ w.answer = a
      BY <1>4, <1>5, <1>6
    <2>2. w.semantic.cases = c /\ w.semantic.receipt = given /\ given # None
      BY <1>2, <1>6, <2>1
    <2>3. c = CaseSet(a, Task, c.packet, c.spec)
      BY <1>1 DEF c
    <2>4. s = SemanticResult(c, given, expected)
      BY DEF s, c
    <2>5. /\ ValidAnswer(a)
          /\ ExactAccepts(a, Task, c.packet, there)
          /\ CoverageComplete(a, c.spec, c.packet)
          /\ CanBuild(a, Task, c.packet, c.spec)
      BY <1>1, <1>6
    <2>6. ValidSpec(c.spec) /\ IsList(given.judgments)
      BY <1>1, <2>2
    <2> QED BY <1>5, <1>6, <2>1, <2>2, <2>3, <2>4, <2>5, <2>6 DEF Sound
  <1>7. CASE ~ (gates /\ built /\ s.decision = "passed")
    <2>1. w.decision # "accepted" /\ w.semantic.decision # "passed"
      BY <1>3, <1>4, <1>5, <1>7
    <2> QED BY <2>1 DEF Sound
  <1> QED BY <1>6, <1>7

LEMMA Decisions ==
    ASSUME NEW state, NEW verdict
    PROVE  ClaimDecision(state, verdict) \in {"passed", "failed", "review_required"}
  BY DEF ClaimDecision

\* A semantic result that passed was computed over a receipt for these very
\* cases, and each of them passed.
LEMMA PassedSemantics ==
    ASSUME NEW c, NEW r, NEW expected,
           SemanticResult(c, r, expected).decision = "passed"
    PROVE  /\ r.about = c /\ expected \in {AnyJudge, r.judge}
           /\ JudgmentsClose(c, r)
           /\ SemanticResult(c, r, expected).outcomes
                  = [i \in DOMAIN c.cases |-> OutcomeOf(c.cases[i], r)]
           /\ \A i \in DOMAIN c.cases : OutcomeOf(c.cases[i], r).decision = "passed"
  <1> DEFINE outcomes == [i \in DOMAIN c.cases |-> OutcomeOf(c.cases[i], r)]
             decided == {outcomes[i].decision : i \in DOMAIN outcomes}
             s == SemanticResult(c, r, expected)
  <1>1. /\ r # None
        /\ ReceiptTrusted(c, r, expected) /\ JudgmentsClose(c, r)
        /\ "failed" \notin decided /\ "review_required" \notin decided
    BY DEF SemanticResult
  <1>2. s.outcomes = outcomes
    BY <1>1 DEF SemanticResult
  <1>3. ASSUME NEW i \in DOMAIN c.cases PROVE OutcomeOf(c.cases[i], r).decision = "passed"
    <2>1. OutcomeOf(c.cases[i], r).decision \in decided
      OBVIOUS
    <2>2. OutcomeOf(c.cases[i], r).decision \in {"passed", "failed", "review_required"}
      BY Decisions DEF OutcomeOf
    <2> QED BY <1>1, <2>1, <2>2
  <1> QED BY <1>1, <1>2, <1>3 DEF ReceiptTrusted

\* The first judgment of a case that has one is that one.
LEMMA OneJudgment ==
    ASSUME NEW case, NEW r, IsList(r.judgments), NEW i \in DOMAIN r.judgments,
           JudgmentsOf(case, r) = {i}
    PROVE  JudgmentOf(case, r) = r.judgments[i]
  <1>1. i \in Nat
    BY DEF IsList
  <1>2. Min({i}) = i
    BY <1>1 DEF Min
  <1> QED BY <1>2 DEF JudgmentOf

\* When the judgments of a receipt close over the cases, each case has one
\* judgment, and it names the claim of the case.
LEMMA ClosedJudgments ==
    ASSUME NEW c, NEW r, JudgmentsClose(c, r), IsList(r.judgments),
           NEW case \in Values(c.cases)
    PROVE  \E i \in DOMAIN r.judgments :
              JudgmentsOf(case, r) = {i} /\ r.judgments[i].claim = case.claim
  <1> DEFINE judged == [i \in DOMAIN r.judgments |-> r.judgments[i].case]
             own == JudgmentsOf(case, r)
  <1>1. Distinct(judged) /\ Values(judged) = Values(c.cases)
    BY DEF JudgmentsClose
  <1>2. JudgmentOf(case, r).claim = case.claim
    BY DEF JudgmentsClose
  <1>3. case \in Values(judged)
    BY <1>1
  <1>4. PICK i \in DOMAIN r.judgments : r.judgments[i].case = case
    BY <1>3 DEF Values, ToSet
  <1>5. \A j \in DOMAIN r.judgments : r.judgments[j].case = case => j = i
    BY <1>1, <1>4 DEF Distinct, IsInjective
  <1>6. own = {i}
    BY <1>4, <1>5 DEF JudgmentsOf
  <1>7. JudgmentOf(case, r) = r.judgments[i]
    BY <1>6, OneJudgment
  <1> QED BY <1>2, <1>6, <1>7

\* Every claim was judged once, as this claim, with the verdict that its
\* outcome repeats, and passed.
LEMMA JudgedOnce ==
    ASSUME NEW a, NEW c, NEW r, NEW expected,
           DOMAIN c.cases = DOMAIN a.claims,
           \A i \in DOMAIN a.claims : c.cases[i] = CaseOf(a.claims[i], a),
           IsList(r.judgments),
           SemanticResult(c, r, expected).decision = "passed",
           NEW k \in DOMAIN a.claims
    PROVE  \E i \in DOMAIN r.judgments :
              /\ JudgmentsOf(CaseOf(a.claims[k], a), r) = {i}
              /\ r.judgments[i].claim = a.claims[k].id
              /\ ClaimDecision(a.claims[k].state, r.judgments[i].verdict) = "passed"
              /\ SemanticResult(c, r, expected).outcomes[k]
                    = [claim |-> a.claims[k].id, state |-> a.claims[k].state,
                       verdict |-> r.judgments[i].verdict, decision |-> "passed"]
  <1> DEFINE case == CaseOf(a.claims[k], a)
             outcomes == SemanticResult(c, r, expected).outcomes
  <1>1. k \in DOMAIN c.cases /\ c.cases[k] = case /\ case \in Values(c.cases)
    BY DEF Values, ToSet
  <1>2. case.claim = a.claims[k].id /\ case.state = a.claims[k].state
    BY DEF CaseOf
  <1>3. /\ JudgmentsClose(c, r)
        /\ outcomes = [i \in DOMAIN c.cases |-> OutcomeOf(c.cases[i], r)]
        /\ \A i \in DOMAIN c.cases : OutcomeOf(c.cases[i], r).decision = "passed"
    BY PassedSemantics
  <1> HIDE DEF case, outcomes
  <1>4. PICK i \in DOMAIN r.judgments :
              JudgmentsOf(case, r) = {i} /\ r.judgments[i].claim = case.claim
    BY <1>1, <1>3, ClosedJudgments
  <1>5. /\ JudgmentsOf(case, r) = {i}
        /\ r.judgments[i].claim = case.claim
        /\ JudgmentOf(case, r) = r.judgments[i]
    BY <1>1, <1>4, OneJudgment
  <1>6. outcomes[k] = OutcomeOf(case, r) /\ OutcomeOf(case, r).decision = "passed"
    BY <1>1, <1>3
  <1>7. OutcomeOf(case, r) = [claim |-> a.claims[k].id, state |-> a.claims[k].state,
                              verdict |-> r.judgments[i].verdict,
                              decision |-> ClaimDecision(a.claims[k].state,
                                                         r.judgments[i].verdict)]
    BY <1>2, <1>5 DEF OutcomeOf
  <1>8. ClaimDecision(a.claims[k].state, r.judgments[i].verdict) = "passed"
    BY <1>6, <1>7
  <1> QED BY <1>2, <1>5, <1>6, <1>7, <1>8 DEF outcomes, case

Passed(v) == v.decision = "accepted" \/ v.semantic.decision = "passed"

\* The same of the result that a gate or an author has at hand.
LEMMA SoundJudged ==
    ASSUME NEW v, Sound(v), Passed(v)
    PROVE  LET r == v.semantic.receipt
           IN  /\ r.about = v.semantic.cases
               /\ v.expected \in {AnyJudge, r.judge}
               /\ DOMAIN v.semantic.outcomes = DOMAIN v.answer.claims
               /\ DOMAIN v.semantic.cases.cases = DOMAIN v.answer.claims
               /\ \A k \in DOMAIN v.answer.claims :
                     v.semantic.cases.cases[k] = CaseOf(v.answer.claims[k], v.answer)
               /\ \A k \in DOMAIN v.answer.claims : \E i \in DOMAIN r.judgments :
                     /\ JudgmentsOf(CaseOf(v.answer.claims[k], v.answer), r) = {i}
                     /\ r.judgments[i].claim = v.answer.claims[k].id
                     /\ ClaimDecision(v.answer.claims[k].state, r.judgments[i].verdict)
                            = "passed"
                     /\ v.semantic.outcomes[k]
                          = [claim |-> v.answer.claims[k].id, state |-> v.answer.claims[k].state,
                             verdict |-> r.judgments[i].verdict, decision |-> "passed"]
  <1> DEFINE s == v.semantic
             c == s.cases
             r == s.receipt
             a == v.answer
  <1>1. /\ s.decision = "passed" /\ s = SemanticResult(c, r, v.expected)
        /\ c = CaseSet(a, Task, c.packet, c.spec)
        /\ IsList(r.judgments)
    BY DEF Sound, Passed
  <1>2. c.cases = [i \in DOMAIN a.claims |-> CaseOf(a.claims[i], a)]
    BY <1>1 DEF CaseSet
  <1>3. /\ DOMAIN c.cases = DOMAIN a.claims
        /\ \A i \in DOMAIN a.claims : c.cases[i] = CaseOf(a.claims[i], a)
    BY <1>2
  <1> HIDE DEF s, c, r, a
  <1>4. SemanticResult(c, r, v.expected).decision = "passed"
    BY <1>1
  <1>5. /\ r.about = c /\ v.expected \in {AnyJudge, r.judge}
        /\ s.outcomes = [i \in DOMAIN c.cases |-> OutcomeOf(c.cases[i], r)]
    BY <1>1, <1>4, PassedSemantics
  <1>6. ASSUME NEW k \in DOMAIN a.claims
        PROVE  \E i \in DOMAIN r.judgments :
                 /\ JudgmentsOf(CaseOf(a.claims[k], a), r) = {i}
                 /\ r.judgments[i].claim = a.claims[k].id
                 /\ ClaimDecision(a.claims[k].state, r.judgments[i].verdict) = "passed"
                 /\ SemanticResult(c, r, v.expected).outcomes[k]
                       = [claim |-> a.claims[k].id, state |-> a.claims[k].state,
                          verdict |-> r.judgments[i].verdict, decision |-> "passed"]
    BY <1>1, <1>3, <1>4, JudgedOnce
  <1> QED BY <1>1, <1>3, <1>5, <1>6 DEF s, c, r, a

\* A spec that is covered has a facet with evidence that a claim uses.
LEMMA CoveredUses ==
    ASSUME NEW a, NEW spec, ValidSpec(spec), NEW packet, CoverageComplete(a, spec, packet)
    PROVE  a.claims # <<>>
  <1>1. PICK f \in spec.facets : f.min >= 1
    BY DEF ValidSpec, ValidFacet
  <1>2. Cardinality(f.any \cap Used(a)) >= f.min
    BY DEF CoverageComplete, FacetCovered
  <1>3. f.min \in Int
    BY DEF ValidSpec, ValidFacet
  <1>4. Used(a) # {}
    <2>1. Cardinality({}) = 0
      BY FS_EmptySet
    <2> QED BY <1>1, <1>2, <1>3, <2>1
  <1> QED BY <1>4 DEF Used, Values, ToSet

\* A quotation that the exact contract accepts is in the file.
LEMMA QuotedOnDisk ==
    ASSUME NEW a, NEW packet, NEW there, ExactAccepts(a, Task, packet, there),
           NEW c \in Values(a.citations), c.source \in packet.sources
    PROVE  there[c.evidence] # None /\ c.quote \in there[c.evidence]
  <1>1. Member(c, packet) /\ ExactOnDisk(c, packet, there)
    BY DEF ExactAccepts
  <1> QED BY <1>1 DEF Member, ExactOnDisk

LEMMA AcceptedHolds ==
    ASSUME ReviewAssumption, NEW v, Sound(v), v.decision = "accepted"
    PROVE  AcceptedResult(v)
  <1> DEFINE r == v.semantic.receipt
             a == v.answer
             c == v.semantic.cases
  <1>1. /\ a \in Drafts /\ ValidSpec(c.spec)
        /\ c = CaseSet(a, Task, c.packet, c.spec)
        /\ ExactAccepts(a, Task, c.packet, v.files)
        /\ CoverageComplete(a, c.spec, c.packet)
        /\ CanBuild(a, Task, c.packet, c.spec)
    BY DEF Sound
  <1>2. a.claims # <<>>
    BY <1>1, CoveredUses
  <1>3. c.answer = a
    BY <1>1 DEF CaseSet
  <1>4. r.about = c /\ v.expected \in {AnyJudge, r.judge}
    BY SoundJudged DEF Passed
  <1>5. ASSUME NEW claim \in Values(a.claims)
        PROVE  \E i \in JudgmentsFor(claim, a, r) :
                  /\ JudgmentsFor(claim, a, r) = {i}
                  /\ r.judgments[i].verdict \in Carries(claim.state)
    <2>1. PICK k \in DOMAIN a.claims : claim = a.claims[k]
      BY DEF Values, ToSet
    <2>2. PICK i \in DOMAIN r.judgments :
             /\ JudgmentsOf(CaseOf(claim, a), r) = {i}
             /\ r.judgments[i].claim = claim.id
             /\ ClaimDecision(claim.state, r.judgments[i].verdict) = "passed"
      BY <2>1, SoundJudged DEF Passed
    <2>3. JudgmentsFor(claim, a, r) = {i}
      BY <2>2 DEF JudgmentsOf, JudgmentsFor
    <2>4. claim.state \in ClaimStates
      BY <1>1 DEF ReviewAssumption
    <2>5. r.judgments[i].verdict \in Carries(claim.state)
      BY <2>2, <2>4 DEF ClaimDecision, Carries, ClaimStates, Supporting
    <2> QED BY <2>3, <2>5
  <1>6. ASSUME NEW claim \in Values(a.claims), NEW e \in claim.evidence
        PROVE  \E d \in Values(a.citations) :
                  d.evidence = e /\ v.files[e] # None /\ d.quote \in v.files[e]
    <2>1. PICK d \in Values(a.citations) : d.evidence = e /\ d.source \in c.packet.sources
      BY <1>1, <1>6 DEF CanBuild
    <2> QED BY <1>1, <2>1, QuotedOnDisk
  <1> QED BY <1>2, <1>3, <1>4, <1>5, <1>6 DEF AcceptedResult

\* A set of numbers that is not empty has a least one.
LEMMA LeastNumber ==
    ASSUME NEW S \in SUBSET Nat, S # {}
    PROVE  \E i \in S : \A j \in S : i <= j
  <1>1. PICK i \in S : \A j \in S : ~ (<<j, i>> \in OpToRel(<, Nat))
    BY NatLessThanWellFounded, WFMin
  <1>2. \A j \in S : ~(j < i)
    <2> SUFFICES ASSUME NEW j \in S, j < i PROVE FALSE
      OBVIOUS
    <2>1. <<j, i>> \in Nat \X Nat
      OBVIOUS
    <2>2. <<j, i>> \in OpToRel(<, Nat)
      BY <2>1 DEF OpToRel
    <2> QED BY <1>1, <2>2, Zenon
  <1> QED BY <1>2

\* Premises come earlier, so the first step of any set rests on none of it.
LEMMA NoCircle ==
    ASSUME NEW t, ValidTrace(t), IsList(t.steps),
           NEW S \in SUBSET DOMAIN t.steps, S # {}
    PROVE  \E i \in S : t.steps[i].premises \cap S = {}
  <1>1. S \subseteq Nat
    BY DEF IsList
  <1>2. PICK i \in S : \A j \in S : i <= j
    BY <1>1, LeastNumber
  <1>3. t.steps[i].premises \subseteq 1 .. i - 1
    BY DEF ValidTrace
  <1> QED BY <1>1, <1>2, <1>3

\* A step of a trace that passes is a case whose outcome passed, by an
\* operation that suits it.
LEMMA StepPasses ==
    ASSUME NEW step, NEW c, NEW s,
           "violation" \notin StepFindings(step, c, s), "review" \notin StepFindings(step, c, s)
    PROVE  \E k \in DOMAIN c.cases :
              /\ c.cases[k] = step.case /\ step.case.claim = step.claim
              /\ k \in DOMAIN s.outcomes /\ s.outcomes[k].decision = "passed"
              /\ ~ OperationWrong(step, step.case.state, s.outcomes[k].verdict)
  <1> DEFINE own == {d \in Values(c.cases) : d = step.case}
             at == CHOOSE i \in DOMAIN c.cases : c.cases[i] = step.case
             outcome == s.outcomes[at]
             stale == own = {} \/ step.case.claim # step.claim \/ step.case.text # step.text
             known == UNION {{d.evidence : d \in e.citations} : e \in Values(c.cases)}
  <1>1. own # {} /\ at \in DOMAIN s.outcomes
    BY DEF StepFindings
  <1>2. StepFindings(step, c, s) =
          (IF stale \/ ~ step.counter \subseteq known THEN {"review"} ELSE {})
             \cup (IF outcome.decision = "failed" THEN {"violation"}
                   ELSE IF outcome.decision # "passed" THEN {"review"} ELSE {})
             \cup (IF OperationWrong(step, step.case.state, outcome.verdict)
                   THEN {"violation"} ELSE {})
    BY <1>1 DEF StepFindings
  <1>3. at \in DOMAIN c.cases /\ c.cases[at] = step.case
    <2>1. \E i \in DOMAIN c.cases : c.cases[i] = step.case
      BY <1>1 DEF Values, ToSet
    <2> QED BY <2>1
  <1> HIDE DEF at, own, known
  <1>4. ~ stale /\ outcome.decision = "passed"
        /\ ~ OperationWrong(step, step.case.state, outcome.verdict)
    BY <1>2
  <1> QED BY <1>1, <1>3, <1>4

Grounded(t, v) ==
    LET derived == {i \in DOMAIN t.steps : Derived(t.steps[i])}
    IN  /\ v.decision = "accepted" /\ t.answer = v.answer
        /\ \A S \in (SUBSET derived) \ {{}} : \E i \in S : t.steps[i].premises \cap S = {}
        /\ \A i \in DOMAIN t.steps \ derived : \E o \in Values(v.semantic.outcomes) :
              o.claim = t.steps[i].claim /\ o.state # "inference"
              /\ o.verdict = "directly_supported"

LEMMA PassedIsGrounded ==
    ASSUME NEW t, ValidTrace(t), IsList(t.steps), NEW v, Sound(v),
           ClosureDecision(t, v.semantic.cases, v.semantic) = "passed"
    PROVE  Grounded(t, v)
  <1> DEFINE s == v.semantic
             c == s.cases
             a == v.answer
             derived == {i \in DOMAIN t.steps : Derived(t.steps[i])}
             findings == UNION {StepFindings(x, c, s) : x \in Values(t.steps)}
  <1>1. /\ TraceBound(t, c, s) /\ s.decision = "passed"
        /\ "violation" \notin findings /\ "review" \notin findings
    BY DEF ClosureDecision
  <1>2. v.decision = "accepted" /\ c = CaseSet(a, Task, c.packet, c.spec)
    BY <1>1 DEF Sound
  <1>3. t.answer = a
    <2>1. t.answer = c.answer
      BY <1>1 DEF TraceBound
    <2> QED BY <1>2, <2>1 DEF CaseSet
  <1>4. ASSUME NEW S \in (SUBSET derived) \ {{}}
        PROVE  \E i \in S : t.steps[i].premises \cap S = {}
    BY NoCircle
  <1>5. ASSUME NEW i \in DOMAIN t.steps, ~ Derived(t.steps[i])
        PROVE  \E o \in Values(s.outcomes) :
                  o.claim = t.steps[i].claim /\ o.state # "inference"
                  /\ o.verdict = "directly_supported"
    <2> DEFINE step == t.steps[i]
    <2>1. /\ "violation" \notin StepFindings(step, c, s)
          /\ "review" \notin StepFindings(step, c, s)
      BY <1>1 DEF Values, ToSet
    <2>2. ~ Derived(step)
      BY <1>5
    <2> HIDE DEF step
    <2>3. PICK k \in DOMAIN c.cases :
              /\ c.cases[k] = step.case /\ step.case.claim = step.claim
              /\ ~ OperationWrong(step, step.case.state, s.outcomes[k].verdict)
      BY <2>1, StepPasses
    <2>4. /\ s.outcomes[k].verdict = "directly_supported"
          /\ step.case.state # "inference"
      BY <2>2, <2>3 DEF OperationWrong
    <2>5. /\ DOMAIN s.outcomes = DOMAIN a.claims /\ DOMAIN c.cases = DOMAIN a.claims
          /\ \A l \in DOMAIN a.claims :
                /\ c.cases[l] = CaseOf(a.claims[l], a)
                /\ s.outcomes[l].claim = a.claims[l].id
                /\ s.outcomes[l].state = a.claims[l].state
      <3>1. Passed(v)
        BY <1>2 DEF Passed
      <3>2. /\ DOMAIN s.outcomes = DOMAIN a.claims /\ DOMAIN c.cases = DOMAIN a.claims
            /\ \A l \in DOMAIN a.claims : c.cases[l] = CaseOf(a.claims[l], a)
        BY <3>1, SoundJudged
      <3>3. ASSUME NEW l \in DOMAIN a.claims
            PROVE  /\ s.outcomes[l].claim = a.claims[l].id
                   /\ s.outcomes[l].state = a.claims[l].state
        <4>1. PICK j \in DOMAIN s.receipt.judgments :
                  s.outcomes[l] = [claim |-> a.claims[l].id, state |-> a.claims[l].state,
                                   verdict |-> s.receipt.judgments[j].verdict,
                                   decision |-> "passed"]
          BY <3>1, SoundJudged
        <4> QED BY <4>1
      <3> QED BY <3>2, <3>3
    <2>6. /\ k \in DOMAIN s.outcomes /\ step.case = CaseOf(a.claims[k], a)
          /\ s.outcomes[k].claim = a.claims[k].id
          /\ s.outcomes[k].state = a.claims[k].state
      BY <2>3, <2>5
    <2>7. step.case.claim = a.claims[k].id /\ step.case.state = a.claims[k].state
      BY <2>6 DEF CaseOf
    <2>8. s.outcomes[k] \in Values(s.outcomes)
      BY <2>6 DEF Values, ToSet
    <2> QED BY <2>3, <2>4, <2>6, <2>7, <2>8 DEF step
  <1> QED BY <1>2, <1>3, <1>4, <1>5 DEF Grounded

----------------------------------------------------------------------------
(* The displayed spans *)

\* What FlattenSeq computes, step by step.
LEMMA Flattening ==
    ASSUME NEW seqs, Len(seqs) # 0,
           \E g : g = [i \in 1..Len(seqs) |-> IF i = 1 THEN seqs[i] ELSE g[i - 1] \o seqs[i]]
    PROVE  \E f : /\ f = [i \in 1..Len(seqs) |->
                               IF i = 1 THEN seqs[i] ELSE f[i - 1] \o seqs[i]]
                  /\ FlattenSeq(seqs) = f[Len(seqs)]
  <1> DEFINE f == CHOOSE g : g = [i \in 1..Len(seqs) |->
                                     IF i = 1 THEN seqs[i] ELSE g[i - 1] \o seqs[i]]
  <1>1. f = [i \in 1..Len(seqs) |-> IF i = 1 THEN seqs[i] ELSE f[i - 1] \o seqs[i]]
    OBVIOUS
  <1>2. FlattenSeq(seqs) = f[Len(seqs)]
    BY DEF FlattenSeq
  <1> QED BY <1>1, <1>2

\* The spans of a projection: each starts where the one before it ends, the
\* last ends with the text, and each shows what the text has there.
Covers(ps, n, t) ==
    /\ ps[1].start = 0
    /\ \A i \in 2..n : ps[i].start = End(ps[i - 1])
    /\ End(ps[n]) = Len(t)
    /\ \A i \in 1..n : SubSeq(t, ps[i].start + 1, End(ps[i])) = ps[i].text

LEMMA SpansEndInside ==
    ASSUME NEW S, NEW t \in Seq(S), NEW n \in Nat, n >= 1, NEW ps,
           \A i \in 1..n : ps[i].start \in Nat /\ ps[i].text \in Seq(S),
           Covers(ps, n, t)
    PROVE  \A i \in 1..n : /\ End(ps[i]) \in ps[i].start..Len(t)
                           /\ i > 1 => End(ps[i - 1]) \in 0..End(ps[i])
  <1> DEFINE e(i) == End(ps[i])
             late == {j \in 0..n - 1 : e(n - j) > Len(t)}
  <1>1. \A i \in 1..n : e(i) \in Nat /\ ps[i].start <= e(i)
    BY DEF End
  <1>2. \A i \in 2..n : e(i - 1) <= e(i) /\ ps[i].start = e(i - 1)
    BY <1>1 DEF Covers
  <1>3. e(n) = Len(t) /\ Len(t) \in Nat
    BY DEF Covers
  <1> HIDE DEF e
  <1>4. late = {}
    <2> SUFFICES ASSUME late # {} PROVE FALSE
      OBVIOUS
    <2>1. late \in SUBSET Nat
      OBVIOUS
    <2> HIDE DEF late
    <2>2. PICK j \in late : \A l \in late : j <= l
      BY <2>1, LeastNumber
    <2>3. j \in 0..n - 1 /\ e(n - j) > Len(t)
      BY <2>2 DEF late
    <2>4. j # 0
      BY <1>3, <2>3
    <2>5. n - j + 1 \in 2..n /\ j - 1 \in 0..n - 1 /\ n - (j - 1) = n - j + 1
          /\ (n - j + 1) - 1 = n - j
      BY <2>3, <2>4
    <2>6. e(n - j) <= e(n - j + 1)
      BY <1>2, <2>5
    <2>7. e(n - (j - 1)) > Len(t)
      <3>1. e(n - j) \in Nat /\ e(n - j + 1) \in Nat
        BY <1>1, <2>3, <2>5
      <3> QED BY <1>3, <2>3, <2>5, <2>6, <3>1
    <2>8. j - 1 \in late
      BY <2>5, <2>7 DEF late
    <2> QED BY <2>2, <2>3, <2>8
  <1>5. \A i \in 1..n : e(i) <= Len(t)
    <2> SUFFICES ASSUME NEW i \in 1..n, e(i) > Len(t) PROVE FALSE
      BY <1>1, <1>3
    <2>1. n - i \in 0..n - 1 /\ n - (n - i) = i
      OBVIOUS
    <2>2. n - i \in late
      BY <2>1
    <2> QED BY <1>4, <2>2
  <1>6. \A i \in 1..n : i > 1 => e(i - 1) \in 0..e(i)
    BY <1>1, <1>2
  <1>7. \A i \in 1..n : e(i) \in ps[i].start..Len(t)
    BY <1>1, <1>3, <1>5
  <1> QED BY <1>6, <1>7 DEF e

LEMMA SpansAreTheText ==
    ASSUME NEW S, NEW t \in Seq(S), NEW n \in Nat, n >= 1, NEW ps,
           \A i \in 1..n : ps[i].start \in Nat /\ ps[i].text \in Seq(S),
           Covers(ps, n, t)
    PROVE  FlattenSeq([i \in 1..n |-> ps[i].text]) = t
  <1> DEFINE texts == [i \in 1..n |-> ps[i].text]
             e(i) == End(ps[i])
             g == [i \in 1..n |-> SubSeq(t, 1, e(i))]
  <1>1. \A i \in 1..n : /\ e(i) \in 0..Len(t)
                        /\ i > 1 => e(i - 1) \in 0..e(i)
    BY SpansEndInside
  <1>2. texts[1] = SubSeq(t, 1, e(1)) /\ e(n) = Len(t)
    <2>1. ps[1].start + 1 = 1 /\ texts[1] = ps[1].text
      BY DEF Covers
    <2>2. /\ \A i \in 1..n : SubSeq(t, ps[i].start + 1, e(i)) = ps[i].text
          /\ e(n) = Len(t)
      BY DEF Covers
    <2> HIDE DEF e, texts
    <2>3. SubSeq(t, ps[1].start + 1, e(1)) = ps[1].text
      BY <2>2
    <2> QED BY <2>1, <2>2, <2>3
  <1>3. ASSUME NEW i \in 2..n PROVE texts[i] = SubSeq(t, e(i - 1) + 1, e(i))
    <2>1. ps[i].start = e(i - 1) /\ texts[i] = ps[i].text
      BY DEF Covers
    <2>2. ps[i].text = SubSeq(t, ps[i].start + 1, e(i))
      BY DEF Covers
    <2> QED BY <2>1, <2>2
  <1>4. Len(texts) = n
    OBVIOUS
  <1> HIDE DEF texts, e
  <1>5. ASSUME NEW i \in 2..n
        PROVE  SubSeq(t, 1, e(i - 1)) \o texts[i] = SubSeq(t, 1, e(i))
    <2> DEFINE k == e(i - 1)
               m == e(i)
    <2>a. i \in 1..n /\ i > 1 /\ Len(t) \in Nat
      OBVIOUS
    <2>b. m \in 0..Len(t) /\ k \in 0..m
      BY <1>1, <2>a
    <2>c. texts[i] = SubSeq(t, k + 1, m)
      BY <1>3
    <2> HIDE DEF k, m
    <2>1. m \in 0..Len(t) /\ k \in 0..m /\ texts[i] = SubSeq(t, k + 1, m) /\ Len(t) \in Nat
      BY <2>a, <2>b, <2>c
    <2>2. /\ 1 \in 1..Len(t) + 1 /\ k \in 1 - 1 .. Len(t) /\ m \in k..Len(t)
      BY <2>1
    <2>3. SubSeq(t, 1, k) \o SubSeq(t, k + 1, m) = SubSeq(t, 1, m)
      BY <2>2, ConcatAdjacentSubSeq
    <2> QED BY <2>1, <2>3 DEF k, m
  <1>6. g = [i \in 1..n |-> IF i = 1 THEN texts[i] ELSE g[i - 1] \o texts[i]]
    <2>1. \A i \in 1..n : g[i] = IF i = 1 THEN texts[i] ELSE g[i - 1] \o texts[i]
      <3> TAKE i \in 1..n
      <3>1. CASE i = 1
        BY <1>2, <3>1
      <3>2. CASE i # 1
        <4>1. i \in 2..n /\ i - 1 \in 1..n
          BY <3>2
        <4>2. g[i] = SubSeq(t, 1, e(i)) /\ g[i - 1] = SubSeq(t, 1, e(i - 1))
          BY <4>1
        <4> QED BY <1>5, <3>2, <4>1, <4>2
      <3> QED BY <3>1, <3>2
    <2>2. g = [i \in 1..n |-> g[i]]
      OBVIOUS
    <2> HIDE DEF g
    <2> QED BY <2>1, <2>2
  <1> HIDE DEF g
  <1>7. PICK f : /\ f = [i \in 1..n |-> IF i = 1 THEN texts[i] ELSE f[i - 1] \o texts[i]]
                 /\ FlattenSeq(texts) = f[n]
    <2>1. Len(texts) # 0
      BY <1>4
    <2>2. \E h : h = [i \in 1..Len(texts) |-> IF i = 1 THEN texts[i] ELSE h[i - 1] \o texts[i]]
      BY <1>4, <1>6
    <2>3. \E f : /\ f = [i \in 1..Len(texts) |->
                             IF i = 1 THEN texts[i] ELSE f[i - 1] \o texts[i]]
                 /\ FlattenSeq(texts) = f[Len(texts)]
      BY <2>1, <2>2, Flattening
    <2> QED BY <1>4, <2>3
  <1>8. {i \in 1..n : f[i] # SubSeq(t, 1, e(i))} = {}
    <2> DEFINE wrong == {i \in 1..n : f[i] # SubSeq(t, 1, e(i))}
    <2> SUFFICES ASSUME wrong # {} PROVE FALSE
      OBVIOUS
    <2>0. wrong \in SUBSET Nat
      OBVIOUS
    <2> HIDE DEF wrong
    <2>1. PICK i \in wrong : \A j \in wrong : i <= j
      BY <2>0, LeastNumber
    <2> USE DEF wrong
    <2>2. i # 1
      BY <1>2, <1>7, <2>1
    <2>3. i - 1 \in 1..n /\ i \in 2..n /\ i - 1 \notin wrong
      BY <2>1, <2>2
    <2>4. f[i - 1] = SubSeq(t, 1, e(i - 1)) /\ f[i] = f[i - 1] \o texts[i]
      BY <1>7, <2>2, <2>3
    <2> QED BY <1>5, <2>1, <2>3, <2>4
  <1>9. f[n] = SubSeq(t, 1, Len(t))
    BY <1>2, <1>8
  <1> QED BY <1>7, <1>9, SubSeqFull DEF texts

\* A projection as an author makes it.
Projected(p) ==
    /\ ValidProjection(p)
    /\ IsList(p.propositions)
    /\ \A x \in Values(p.propositions) : x.start \in Nat /\ x.text \in Seq(Words)

LEMMA TextIsShown ==
    ASSUME NEW p, Projected(p), NEW a, a.text \in Seq(Words), TextIsExact(a, p)
    PROVE  FlattenSeq([i \in DOMAIN p.propositions |-> p.propositions[i].text]) = a.text
  <1> DEFINE ps == p.propositions
             n == Len(ps)
  <1>1. /\ ps \in Seq(Values(ps)) /\ ps # <<>>
        /\ \A x \in Values(ps) : x.start \in Nat /\ x.text \in Seq(Words)
        /\ ps[1].start = 0
        /\ \A i \in 2..n : ps[i].start = End(ps[i - 1])
    BY DEF Projected, ValidProjection, IsList
  <1>2. /\ End(ps[n]) = Len(a.text)
        /\ \A x \in Values(ps) : SubSeq(a.text, x.start + 1, End(x)) = x.text
    BY DEF TextIsExact
  <1> HIDE DEF ps
  <1>3. /\ n \in Nat /\ n >= 1 /\ DOMAIN ps = 1..n
        /\ \A i \in 1..n : ps[i] \in Values(ps)
    BY <1>1 DEF Values, ToSet
  <1>4. /\ \A i \in 1..n : ps[i].start \in Nat /\ ps[i].text \in Seq(Words)
        /\ \A i \in 1..n : SubSeq(a.text, ps[i].start + 1, End(ps[i])) = ps[i].text
    BY <1>1, <1>2, <1>3
  <1>5. Covers(ps, n, a.text)
    BY <1>1, <1>2, <1>4 DEF Covers
  <1> HIDE DEF n
  <1>6. FlattenSeq([i \in 1..n |-> ps[i].text]) = a.text
    BY <1>3, <1>4, <1>5, SpansAreTheText
  <1> QED BY <1>3, <1>6 DEF ps

\* A premise of a fact that the routes accept is a claim that is no inference,
\* with an outcome that directly supports it.
LEMMA RouteClear ==
    ASSUME NEW p, p.kind = "fact", NEW id, NEW a, NEW s,
           "violation" \notin RouteFindings(p, id, a, s), "review" \notin RouteFindings(p, id, a, s)
    PROVE  \E claim \in Values(a.claims), outcome \in Values(s.outcomes) :
              /\ claim.id = id /\ claim.state # "inference"
              /\ outcome.claim = id /\ outcome.verdict = "directly_supported"
  <1> DEFINE claims == {c \in Values(a.claims) : c.id = id}
             outcomes == {o \in Values(s.outcomes) : o.claim = id}
             claim == CHOOSE c \in claims : TRUE
             outcome == CHOOSE o \in outcomes : TRUE
             wrong == \/ outcome.verdict \notin Supporting
                      \/ p.kind = "fact" /\ \/ claim.state = "inference"
                                            \/ outcome.verdict # "directly_supported"
  <1>1. claims # {} /\ outcomes # {}
    BY DEF RouteFindings
  <1>2. RouteFindings(p, id, a, s) = IF outcome.decision # "passed" THEN {"review"}
                                     ELSE IF wrong THEN {"violation"} ELSE {}
    BY <1>1 DEF RouteFindings
  <1>3. ~ wrong
    <2> HIDE DEF wrong, outcome
    <2> QED BY <1>2
  <1>4. claim \in claims /\ outcome \in outcomes
    BY <1>1
  <1> QED BY <1>3, <1>4

\* In a sound result, what is directly supported by its outcome is directly
\* supported by every judgment of its claim.
LEMMA ClaimIsDirect ==
    ASSUME NEW v, Sound(v), Passed(v),
           NEW claim \in Values(v.answer.claims), NEW outcome \in Values(v.semantic.outcomes),
           outcome.claim = claim.id, outcome.verdict = "directly_supported"
    PROVE  \A i \in JudgmentsFor(claim, v.answer, v.semantic.receipt) :
              v.semantic.receipt.judgments[i].verdict = "directly_supported"
  <1> DEFINE a == v.answer
             s == v.semantic
             r == s.receipt
  <1>1. PICK k \in DOMAIN a.claims : claim = a.claims[k]
    BY DEF Values, ToSet
  <1>2. PICK l \in DOMAIN s.outcomes : outcome = s.outcomes[l]
    BY DEF Values, ToSet
  <1>3. DOMAIN s.outcomes = DOMAIN a.claims
    BY SoundJudged
  <1>4. PICK j \in DOMAIN r.judgments :
           /\ JudgmentsOf(CaseOf(a.claims[l], a), r) = {j}
           /\ s.outcomes[l] = [claim |-> a.claims[l].id, state |-> a.claims[l].state,
                               verdict |-> r.judgments[j].verdict, decision |-> "passed"]
    BY <1>2, <1>3, SoundJudged
  <1>5. a.claims[l].id = a.claims[k].id
    BY <1>1, <1>2, <1>4
  <1>6. Distinct(Ids(a.claims))
    BY DEF Sound, Passed, ValidAnswer
  <1>7. k = l
    BY <1>1, <1>2, <1>3, <1>5, <1>6 DEF Distinct, IsInjective, Ids
  <1>8. r.judgments[j].verdict = "directly_supported"
    BY <1>2, <1>4
  <1>9. JudgmentsFor(claim, a, r) \subseteq {j}
    BY <1>1, <1>4, <1>7 DEF JudgmentsFor, JudgmentsOf
  <1> QED BY <1>8, <1>9

Displayed(p, a, v) ==
    LET ps == p.propositions
        texts == [i \in DOMAIN ps |-> ps[i].text]
    IN  /\ v.decision = "accepted" /\ v.answer = a
        /\ FlattenSeq(texts) = a.text
        /\ \A x \in Values(ps) : x.kind = "fact" =>
              /\ x.claims # {}
              /\ \A id \in x.claims : \E c \in Values(a.claims) :
                    /\ c.id = id /\ c.state # "inference"
                    /\ \A i \in JudgmentsFor(c, a, v.semantic.receipt) :
                          v.semantic.receipt.judgments[i].verdict = "directly_supported"

LEMMA PassedIsDisplayed ==
    ASSUME ReviewAssumption, NEW p, Projected(p), NEW a, NEW v, Sound(v),
           NEW judged, NEW expected,
           DisplayDecision(a, v.semantic.cases, v.semantic, p, judged, expected) = "passed"
    PROVE  Displayed(p, a, v)
  <1> DEFINE s == v.semantic
             c == s.cases
             ps == p.propositions
             findings == UNION {SpanFindings(x, a, s, judged) : x \in Values(ps)}
  <1>1. /\ ProjectionBound(a, c, s, p) /\ TextIsExact(a, p)
        /\ "violation" \notin findings /\ "review" \notin findings
    BY DEF DisplayDecision
  <1>2. s.decision = "passed" /\ c.answer = a
    BY <1>1 DEF ProjectionBound
  <1>3. /\ v.decision = "accepted" /\ Passed(v) /\ v.answer \in Drafts
        /\ c = CaseSet(v.answer, Task, c.packet, c.spec)
    BY <1>2 DEF Sound, Passed
  <1>4. v.answer = a
    BY <1>2, <1>3 DEF CaseSet
  <1>5. FlattenSeq([i \in DOMAIN ps |-> ps[i].text]) = a.text
    <2>1. a.text \in Seq(Words)
      BY <1>3, <1>4 DEF ReviewAssumption
    <2> QED BY <1>1, <2>1, TextIsShown
  <1>6. ASSUME NEW x \in Values(ps), x.kind = "fact" PROVE x.claims # {}
    BY <1>6 DEF Projected, ValidProjection, ValidProposition
  <1>7. ASSUME NEW x \in Values(ps), x.kind = "fact", NEW id \in x.claims
        PROVE  \E d \in Values(a.claims) :
                  /\ d.id = id /\ d.state # "inference"
                  /\ \A i \in JudgmentsFor(d, a, s.receipt) :
                        s.receipt.judgments[i].verdict = "directly_supported"
    <2>1. RouteFindings(x, id, a, s) \subseteq findings
      BY DEF SpanFindings
    <2>2. PICK d \in Values(a.claims), o \in Values(s.outcomes) :
              /\ d.id = id /\ d.state # "inference"
              /\ o.claim = id /\ o.verdict = "directly_supported"
      BY <1>1, <1>7, <2>1, RouteClear
    <2>3. \A i \in JudgmentsFor(d, a, s.receipt) :
             s.receipt.judgments[i].verdict = "directly_supported"
      BY <1>3, <1>4, <2>2, ClaimIsDirect
    <2> QED BY <2>2, <2>3
  <1> QED BY <1>3, <1>4, <1>5, <1>6, <1>7 DEF Displayed

----------------------------------------------------------------------------
(* The desk: whatever lies on it was made by its gates *)

ReviewInv ==
    /\ ~ ended => route \in Routes /\ answer \in Drafts
    /\ receipt # None => IsList(receipt.judgments)
    /\ result # None => Sound(result)
    /\ projection # None => Projected(projection)
    /\ trace # None => ValidTrace(trace) /\ IsList(trace.steps)
    /\ DisplayedIsRouted
    /\ ReviewedIsGrounded

LEMMA MappedList ==
    ASSUME NEW list, IsList(list), NEW f, f = [i \in DOMAIN list |-> f[i]]
    PROVE  IsList(f)
  <1>1. Len(list) \in Nat /\ DOMAIN list = 1..Len(list)
    BY DEF IsList
  <1>2. \A i \in DOMAIN f : f[i] \in Values(f)
    BY DEF Values, ToSet
  <1> QED BY <1>1, <1>2 DEF IsList

LEMMA ReviewStarts == ASSUME ReviewInit PROVE ReviewInv
  BY DEF ReviewInit, ReviewInv, DisplayedIsRouted, ReviewedIsGrounded

LEMMA ReviewKept ==
    ASSUME ReviewInv, UNCHANGED <<receipt, result, display, reasoning>>,
           ~ ended' => ~ ended, ~ ended' => route' \in Routes /\ answer' \in Drafts
    PROVE  ReviewInv'
  BY DEF ReviewInv, display, reasoning, DisplayedIsRouted, ReviewedIsGrounded

LEMMA ChangeKeeps == ASSUME ReviewInv, ~ ended, Change PROVE ReviewInv'
  <1>1. /\ UNCHANGED <<receipt, result, display, reasoning>> /\ ended' = ended
        /\ route' \in Routes /\ answer' \in Drafts
    BY DEF Change, ReviewInv, kept
  <1> QED BY <1>1, ReviewKept

LEMMA JudgeKeeps ==
    ASSUME ReviewAssumption, ReviewInv, NEW j \in Judges, NEW list \in Lists, Judge(j, list)
    PROVE  ReviewInv'
  <1>1. /\ receipt' = [about |-> Cases, judge |-> j,
                       judgments |-> [i \in DOMAIN list |-> Judgment(Cases, list[i])]]
        /\ UNCHANGED <<world, result, display, reasoning, ended>>
    BY DEF Judge, kept
  <1>2. IsList(list)
    BY DEF ReviewAssumption
  <1>3. IsList(receipt'.judgments)
    <2> DEFINE f == [i \in DOMAIN list |-> Judgment(Cases, list[i])]
    <2>1. f = [i \in DOMAIN list |-> f[i]] /\ receipt'.judgments = f
      BY <1>1
    <2> HIDE DEF f
    <2> QED BY <1>2, <2>1, MappedList
  <1> QED BY <1>1, <1>3
          DEF ReviewInv, world, display, reasoning, DisplayedIsRouted, ReviewedIsGrounded

LEMMA ValidateKeeps ==
    ASSUME ReviewAssumption, ReviewInv, ~ ended,
           NEW expected, NEW given \in {None, receipt}, Validate(expected, given)
    PROVE  ReviewInv'
  <1> DEFINE v == Validation(answer, Task, route.packet, route.spec, files, given, expected)
  <1>1. /\ result' = [decision |-> v.decision, answer |-> v.answer,
                      semantic |-> v.semantic, files |-> files, expected |-> expected]
        /\ UNCHANGED <<world, receipt, display, reasoning, ended>>
    BY DEF Validate, kept
  <1>2. /\ answer \in Drafts /\ route \in Routes /\ ValidSpec(route.spec)
        /\ given # None => IsList(given.judgments)
    BY DEF ReviewInv, ReviewAssumption
  <1>3. Sound([decision |-> v.decision, answer |-> v.answer, semantic |-> v.semantic,
               files |-> files, expected |-> expected])
    BY <1>2, ValidationSound
  <1>4. Sound(result')
    BY <1>1, <1>3
  <1> QED BY <1>1, <1>4
          DEF ReviewInv, world, display, reasoning, DisplayedIsRouted, ReviewedIsGrounded

LEMMA ProjectKeeps ==
    ASSUME ReviewAssumption, ReviewInv, NEW layout \in Layouts, Project(layout)
    PROVE  ReviewInv'
  <1>1. /\ projection'.propositions = layout /\ ValidProjection(projection')
        /\ UNCHANGED <<world, receipt, result, roles, shown, reasoning, ended>>
    BY DEF Project, WriteOut
  <1>2. Projected(projection')
    BY <1>1 DEF Projected, ReviewAssumption
  <1> QED BY <1>1, <1>2
          DEF ReviewInv, world, reasoning, DisplayedIsRouted, ReviewedIsGrounded

LEMMA ShowKeeps ==
    ASSUME ReviewAssumption, ReviewInv, NEW expected, Show(expected)
    PROVE  ReviewInv'
  <1> DEFINE s == result.semantic
             decision == DisplayDecision(answer, s.cases, s, projection, roles, expected)
  <1>1. /\ projection # None /\ result # None
        /\ shown' = [decision |-> decision, answer |-> answer, result |-> result,
                     projection |-> projection]
        /\ UNCHANGED <<world, receipt, result, projection, roles, reasoning, ended>>
    BY DEF Show, kept
  <1>2. decision = "passed" => Displayed(projection, answer, result)
    BY <1>1, PassedIsDisplayed DEF ReviewInv
  <1> HIDE DEF decision
  <1>3. /\ shown'.decision = decision /\ shown'.answer = answer /\ shown'.result = result
        /\ shown'.projection = projection
    BY <1>1
  <1>4. DisplayedIsRouted'
    BY <1>2, <1>3 DEF Displayed, DisplayedIsRouted
  <1> QED BY <1>1, <1>4 DEF ReviewInv, world, reasoning, ReviewedIsGrounded

LEMMA ReasonKeeps ==
    ASSUME ReviewAssumption, ReviewInv, NEW list \in StepLists, Reason(list)
    PROVE  ReviewInv'
  <1>1. /\ trace'.steps = [i \in DOMAIN list |-> Step(result.semantic.cases, list[i])]
        /\ ValidTrace(trace')
        /\ UNCHANGED <<world, receipt, result, display, closure, ended>>
    BY DEF Reason, WriteOut
  <1>2. IsList(trace'.steps)
    <2> DEFINE f == [i \in DOMAIN list |-> Step(result.semantic.cases, list[i])]
    <2>1. f = [i \in DOMAIN list |-> f[i]] /\ trace'.steps = f
      BY <1>1
    <2>2. IsList(list)
      BY DEF ReviewAssumption
    <2> HIDE DEF f
    <2> QED BY <2>1, <2>2, MappedList
  <1> QED BY <1>1, <1>2
          DEF ReviewInv, world, display, DisplayedIsRouted, ReviewedIsGrounded

LEMMA CloseKeeps == ASSUME ReviewInv, Close PROVE ReviewInv'
  <1> DEFINE s == result.semantic
             decision == ClosureDecision(trace, s.cases, s)
  <1>1. /\ trace # None /\ result # None
        /\ closure' = [decision |-> decision, about |-> trace, result |-> result]
        /\ UNCHANGED <<world, receipt, result, display, trace, ended>>
    BY DEF Close, WriteOut
  <1>2. decision = "passed" => Grounded(trace, result)
    BY <1>1, PassedIsGrounded DEF ReviewInv
  <1> HIDE DEF decision
  <1>3. closure'.decision = decision /\ closure'.about = trace /\ closure'.result = result
    BY <1>1
  <1>4. ReviewedIsGrounded'
    BY <1>2, <1>3 DEF Grounded, ReviewedIsGrounded
  <1> QED BY <1>1, <1>4 DEF ReviewInv, world, display, DisplayedIsRouted

LEMMA ReviewStep ==
    ASSUME ReviewAssumption, ReviewInv, [ReviewNext]_reviewVars
    PROVE  ReviewInv'
  <1>1. CASE ~ ended /\ Desk
    <2>1. ASSUME NEW j \in Judges, NEW list \in RoleLists, JudgeRoles(j, list)
          PROVE  ReviewInv'
      <3>1. UNCHANGED <<world, receipt, result, projection, shown, reasoning, ended>>
        BY <2>1 DEF JudgeRoles, WriteOut
      <3> QED BY <3>1
              DEF ReviewInv, world, reasoning, DisplayedIsRouted, ReviewedIsGrounded
    <2> QED BY <1>1, <2>1, ChangeKeeps, JudgeKeeps, ValidateKeeps, ProjectKeeps, ShowKeeps,
               ReasonKeeps, CloseKeeps DEF Desk
  <1>2. CASE Stop
    BY <1>2 DEF Stop, ReviewInv, DisplayedIsRouted, ReviewedIsGrounded
  <1>3. CASE UNCHANGED reviewVars \/ \E w \in Writers : Archive(w)
    <2>1. UNCHANGED <<world, receipt, result, display, reasoning, ended>>
      BY <1>3 DEF reviewVars, kept, Archive
    <2> QED BY <2>1, ReviewKept DEF world, ReviewInv
  <1> QED BY <1>1, <1>2, <1>3 DEF ReviewNext

LEMMA AlwaysReviewInv == ReviewAssumption => (ReviewSpec => []ReviewInv)
  <1> SUFFICES ASSUME ReviewAssumption PROVE ReviewSpec => []ReviewInv
    OBVIOUS
  <1>1. ReviewInit => ReviewInv
    BY ReviewStarts
  <1>2. ReviewInv /\ [ReviewNext]_reviewVars => ReviewInv'
    BY ReviewStep
  <1> QED BY <1>1, <1>2, PTL DEF ReviewSpec

\* An accepted answer was judged claim by claim, over this very answer, by a
\* judge the caller asked for, and quotes files as they were then.
THEOREM AcceptedIsJudged == ReviewSpec => []PromotedIsJudged
  <1>1. ReviewInv => PromotedIsJudged
    BY ReviewAssumption, AcceptedHolds DEF ReviewInv, PromotedIsJudged
  <1> QED BY <1>1, ReviewAssumption, AlwaysReviewInv, PTL

\* A displayed answer is the accepted one to its last word, and its facts are
\* directly supported.
THEOREM DisplayedIsAlwaysRouted == ReviewSpec => []DisplayedIsRouted
  <1>1. ReviewInv => DisplayedIsRouted
    BY DEF ReviewInv
  <1> QED BY <1>1, ReviewAssumption, AlwaysReviewInv, PTL

\* A trace that is ready for review never reasons in a circle.
THEOREM ReviewedIsAlwaysGrounded == ReviewSpec => []ReviewedIsGrounded
  <1>1. ReviewInv => ReviewedIsGrounded
    BY DEF ReviewInv
  <1> QED BY <1>1, ReviewAssumption, AlwaysReviewInv, PTL
====
