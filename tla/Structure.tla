---- MODULE Structure ----
(***************************************************************************)
(* Natural sections of Markdown versions (structure/, persistence/         *)
(* structure.py): a client prepares the sections that a request may see,   *)
(* persists them in one or several generations, resolves the units around  *)
(* fragments it found, and reads units under a policy and exclusions that  *)
(* need not be those of the generation.  Access is compiled as RecallStore *)
(* does it; the Library goes on changing; recalls write other tables and   *)
(* are left out.                                                           *)
(*                                                                         *)
(* A passage is one exact fragment, <<version, ordinal>>.  Units,          *)
(* generations and receipts are their contents, as their IDs are.          *)
(***************************************************************************)
EXTENDS RecallStore

CONSTANTS
    Outline,      \* version -> the heading path of each passage; <<>> if not Markdown
    PagesOf,      \* version -> how many passages it has
    Hidden,       \* the sets of passages that a request excludes
    Maxima,       \* maximum_members of the profiles in use
    Builders, Readers,
    Nothing,      \* a client that holds nothing
    MaxGenerations, MaxReads, MaxResolved  \* bounds: what the run keeps of each

ASSUME StructureAssumption ==
    /\ PagesOf \in [Fragments -> Nat]
    /\ \A v \in Fragments : Len(Outline[v]) \in {0, PagesOf[v]}
    /\ \A m \in Maxima : m \in 2..128

VARIABLES
    generations,  \* structure_unit_generations
    units,        \* structure_units with their members, each with its generation
    unitReads,    \* structure_unit_read_receipts with their items
    cached,       \* _generation_cache of the running process
    build,        \* Builder -> the proposals it has prepared
    batch,        \* Reader -> the receipts of the units it has rendered
    resolved      \* history: what resolve_permitted_units has returned

structure == <<generations, units, unitReads, cached, build, batch, resolved>>
structureState == <<vars, structure>>

Passages == UNION {{v} \X (1..PagesOf[v]) : v \in Fragments}

\* The same policy, Collections and exclusions, bound to a snapshot.
StructureRequests == [snapshot : snapshots, terms : Terms, hidden : Hidden]

\* authorize_read: a version is permitted as a whole, but for the passages the
\* request excludes itself.
Permitted(request) ==
    LET compiled == Compile(request.snapshot, request.terms)
    IN {p \in Passages : p[1] \in compiled.permitted} \ request.hidden

StructureInit ==
    /\ Init
    /\ generations = {} /\ units = {} /\ unitReads = {} /\ cached = {} /\ resolved = {}
    /\ build = [x \in Builders |-> Nothing]
    /\ batch = [y \in Readers |-> {}]

----------------------------------------------------------------------------
(* Natural sections *)

IsMarkdown(v) == Outline[v] # <<>>

OrdinalsOf(v, passages) == {i \in 1..PagesOf[v] : <<v, i>> \in passages}

Interval(set) == \A i, j \in set : \A k \in i..j : k \in set

\* The Markdown versions whose permitted passages have no gap.
Contiguous(request) ==
    {v \in Fragments : LET ordinals == OrdinalsOf(v, Permitted(request))
                       IN IsMarkdown(v) /\ ordinals # {} /\ Interval(ordinals)}

\* Broken variant: what the request excludes is left to the test for gaps.
NothingHidden(request) == FALSE

\* A request that excludes passages could cut a section anywhere.
HidesPassages(request) == request.hidden # {}

\* What reaches the Markdown builder.
Described(request) == IF HidesPassages(request) THEN {} ELSE Contiguous(request)

\* A maximal run of passages a..b with one heading path.
NaturalRun(v, a, b, present) ==
    /\ a..b \subseteq present
    /\ \A i \in a..b : Outline[v][i] = Outline[v][a]
    /\ a - 1 \in present => Outline[v][a - 1] # Outline[v][a]
    /\ b + 1 \in present => Outline[v][b + 1] # Outline[v][a]

Unit(v, a, b) == [version |-> v, first |-> a, last |-> b, label |-> Outline[v][a]]

RunsOf(request) ==
    UNION {LET present == OrdinalsOf(v, Permitted(request))
           IN {Unit(v, ends[1], ends[2]) :
                  ends \in {ab \in present \X present :
                               ab[1] <= ab[2] /\ NaturalRun(v, ab[1], ab[2], present)}}
           : v \in Described(request)}

Members(unit) == {unit.version} \X (unit.first..unit.last)

FitsProfile(unit, maximum) == Cardinality(Members(unit)) \in 2..maximum

Proposals(request, maximum) == {unit \in RunsOf(request) : FitsProfile(unit, maximum)}

\* A run too short or too long is reported and never split.
Omissions(request, maximum) == RunsOf(request) \ Proposals(request, maximum)

\* What the test of the versions leaves out, and why.
LeftOut(request) ==
    {<<p, IF IsMarkdown(p[1]) THEN "noncontiguous_permitted_version"
          ELSE "unsupported_source_address">> :
        p \in {q \in Permitted(request) : q[1] \notin Contiguous(request)}}

\* Broken variant: a gap stays reported when its passage is reported as hidden.
KeptWithGaps(exclusions) == exclusions

KeptBesideHidden(exclusions) == {e \in exclusions : e[2] = "unsupported_source_address"}

Exclusions(request) ==
    IF ~HidesPassages(request) THEN LeftOut(request)
    ELSE KeptBesideHidden(LeftOut(request))
            \cup {<<p, "fragment_level_exclusion_present">> :
                     p \in {q \in Permitted(request) : IsMarkdown(q[1])}}

----------------------------------------------------------------------------
(* Generations *)

\* prepare_markdown_structure: metadata is read, nothing is written.
PrepareSections(x, request, maximum) ==
    /\ build[x] = Nothing
    /\ Proposals(request, maximum) # {}
    /\ build' = [build EXCEPT ![x] =
                    [request |-> request, proposals |-> Proposals(request, maximum)]]
    /\ UNCHANGED <<vars, generations, units, unitReads, cached, batch, resolved>>

Generation(request, page) ==
    [request |-> request, permitted |-> Permitted(request), units |-> page]

UnitsIn(table, g) == {row.unit : row \in {r \in table : r.generation = g}}

RowsFor(g) == {[unit |-> u, generation |-> g] : u \in g.units}

\* Broken variant: INSERT OR REPLACE takes a unit from its generation.
InsertOrReplace(g) == {{row \in units : row.unit \notin g.units} \cup RowsFor(g)}

\* The triggers: a section lies in a version of the snapshot and inside it.
FitsLineage(unit, request) ==
    /\ \E m \in request.snapshot.members : m[2] = unit.version
    /\ Members(unit) \subseteq Passages

\* structure_unit_id, the primary key, covers the section and not its
\* generation: a section that another generation holds aborts the insert.
InsertUnits(g) ==
    {table \in {units \cup RowsFor(g)} : /\ \A row \in units : row.unit \notin g.units
                                         /\ \A u \in g.units : FitsLineage(u, g.request)}

\* _load_generation
LoadsGeneration(g) == g \in cached \/ UnitsIn(units, g) = g.units

\* persist_generation, with all the proposals or a page of them: authorized
\* again, content-addressed, and compared with what is loaded afterwards.
PersistGeneration(x, page) ==
    LET request == build[x].request
        g == Generation(request, page)
    IN /\ build[x] # Nothing
       /\ page # {} /\ page \subseteq build[x].proposals
       /\ UNION {Members(u) : u \in page} \subseteq Permitted(request)
       /\ \/ g \in generations /\ UNCHANGED <<generations, units>>
          \/ /\ g \notin generations
             /\ generations' = generations \cup {g}
             /\ Cardinality(generations') <= MaxGenerations
             /\ units' \in InsertUnits(g)
       /\ UnitsIn(units', g) = g.units
       /\ cached' = cached \cup {g}
       /\ UNCHANGED <<vars, unitReads, build, batch, resolved>>

\* The client is done, or its call was refused.
Drop(x) ==
    /\ build[x] # Nothing
    /\ build' = [build EXCEPT ![x] = Nothing]
    /\ UNCHANGED <<vars, generations, units, unitReads, cached, batch, resolved>>

----------------------------------------------------------------------------
(* Resolving and reading *)

\* Only the closure that made the generation may resolve its units.
SameClosure(g, request) == g.request = request /\ g.permitted = Permitted(request)

Around(g, anchors) == {u \in UnitsIn(units, g) : Members(u) \cap anchors # {}}

\* resolve_permitted_units
Resolve(g, request, anchors) ==
    /\ LoadsGeneration(g)
    /\ SameClosure(g, request)
    /\ anchors \subseteq Permitted(request)
    /\ \A u \in Around(g, anchors) : Members(u) \subseteq Permitted(request)
    /\ cached' = cached \cup {g}
    /\ resolved' = resolved \cup {[request |-> request, unit |-> u] : u \in Around(g, anchors)}
    /\ Cardinality(resolved') <= MaxResolved
    /\ UNCHANGED <<vars, generations, units, unitReads, build, batch>>

GenerationsOf(wanted) == {row.generation : row \in {r \in units : r.unit \in wanted}}

\* Every passage must be in the manifest of the reader's own authorization.
MayRead(wanted, request) == UNION {Members(u) : u \in wanted} \subseteq Permitted(request)

\* Any policy and exclusions of the generation's snapshot may read its units.
Readable(wanted, request) ==
    /\ \A u \in wanted : \E row \in units : row.unit = u
    /\ \A g \in GenerationsOf(wanted) :
          LoadsGeneration(g) /\ g.request.snapshot = request.snapshot
    /\ MayRead(wanted, request)

\* The fragments of a unit in their order: what the rendered text is made of.
Items(unit) == [i \in 1..(unit.last - unit.first + 1) |-> <<unit.version, unit.first + i - 1>>]

\* Each unit's receipt is bound to the reader's closure and lists its members.
Rendered(unit, request) ==
    [unit |-> unit, request |-> request, permitted |-> Permitted(request), items |-> Items(unit)]

\* read_units: all are rendered before the first receipt is written.
ReadUnits(y, wanted, request) ==
    /\ batch[y] = {} /\ wanted # {}
    /\ Readable(wanted, request)
    /\ cached' = cached \cup GenerationsOf(wanted)
    /\ batch' = [batch EXCEPT ![y] = {Rendered(u, request) : u \in wanted}]
    /\ UNCHANGED <<vars, generations, units, unitReads, build, resolved>>

\* Each in a transaction of its own; one that is there is left alone.
StoreUnitRead(y) ==
    \E read \in batch[y] :
        /\ unitReads' = unitReads \cup {read}
        /\ Cardinality(unitReads') <= MaxReads
        /\ batch' = [batch EXCEPT ![y] = @ \ {read}]
        /\ UNCHANGED <<vars, generations, units, cached, build, resolved>>

\* The process ends between two steps; its instance's cache goes with it.
EndProcess ==
    /\ Restart
    /\ cached' = {}
    /\ build' = [x \in Builders |-> Nothing]
    /\ batch' = [y \in Readers |-> {}]
    /\ UNCHANGED <<generations, units, unitReads, resolved>>

StructureNext ==
    \/ /\ \/ \E feed \in Feeds : Ingest(feed[1], feed[2])
          \/ \E scope \in Scopes : Freeze(scope)
       /\ UNCHANGED structure
    \/ \E x \in Builders :
          \/ \E request \in StructureRequests, m \in Maxima : PrepareSections(x, request, m)
          \/ \E page \in SUBSET (IF build[x] = Nothing THEN {} ELSE build[x].proposals) :
                PersistGeneration(x, page)
          \/ Drop(x)
    \/ \E g \in generations, request \in StructureRequests :
          \E p \in Passages : Resolve(g, request, {p})
    \/ \E y \in Readers :
          \/ \E request \in StructureRequests, wanted \in SUBSET {row.unit : row \in units} :
                ReadUnits(y, wanted, request)
          \/ StoreUnitRead(y)
    \/ EndProcess

StructureSpec == StructureInit /\ [][StructureNext]_structureState

----------------------------------------------------------------------------
(* Correctness *)

\* What was persisted or found stays so, after new versions, snapshots,
\* generations of the same sections and restarts: a generation loads in any
\* later process with exactly the units it was persisted with, and a unit that
\* was resolved for a request can be read by that request.
SectionsStayReadable ==
    /\ \A g \in generations : UnitsIn(units, g) = g.units
    /\ \A r \in resolved : Readable({r.unit}, r.request)

\* A receipt of a read names a whole section - all the passages under one
\* heading, none cut off by what a request may not see - and every passage it
\* lists was permitted to the reader by its own policy and exclusions.
WholeSectionsAreRead ==
    \A read \in unitReads :
        LET listed == {read.items[i] : i \in DOMAIN read.items}
        IN /\ listed \subseteq Permitted(read.request)
           /\ \E v \in Fragments : \E a, b \in 1..PagesOf[v] :
                 /\ listed = {v} \X (a..b)
                 /\ NaturalRun(v, a, b, 1..PagesOf[v])

\* "Reported and never split": each passage that a request is permitted is in
\* one proposal, in one omission or under one exclusion, and in one only.
PermittedIsAccountedFor ==
    \A request \in StructureRequests, maximum \in Maxima :
        \A p \in Permitted(request) :
            LET sections == Proposals(request, maximum) \cup Omissions(request, maximum)
                parts == {u \in sections : p \in Members(u)}
                reasons == {e \in Exclusions(request) : e[1] = p}
            IN Cardinality(parts) + Cardinality(reasons) = 1
====
