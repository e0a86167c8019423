---- MODULE MeaningGraph ----
(***************************************************************************)
(* The candidate graph of a Library (meaning/validation.py, the rows of    *)
(* persistence/meaning.py and persistence/relations.py): Statements with   *)
(* their EvidenceLinks and Voices, Concepts with their mentions,           *)
(* ConceptMeanings, and Relations between nodes.                           *)
(*                                                                         *)
(* Every row is named by its content, and the rows under a node are not    *)
(* part of its name: later imports add EvidenceLinks to a Statement, and   *)
(* mentions and meanings to a Concept, that are already there.  So what a  *)
(* node rests on - its grounding - and the Collections it reaches - its    *)
(* closure - grow while reviews and paths refer to them.                   *)
(*                                                                         *)
(* Entities are as Concepts without meanings, TimeContexts as Voices.  A   *)
(* node is <<type, id>>; the Collections of a Relation's endpoint that is  *)
(* a structure unit are those of its snapshot and do not grow.             *)
(***************************************************************************)
EXTENDS Integers, Sequences, FiniteSets

CONSTANTS
    Collections,
    HeldBy,        \* SourceFragment -> the Collections it is read through
    StatementIn,   \* Statement -> its Collection
    VoiceOf,       \* Statement -> its Voice
    MeaningOf,     \* ConceptMeaning -> its concept, voice and supporting statements
    RelationOf     \* Relation -> its subject, object and evidence links

Fragments == DOMAIN HeldBy
Statements == DOMAIN StatementIn

ASSUME GraphAssumption ==
    /\ HeldBy \in [Fragments -> (SUBSET Collections) \ {{}}]
    /\ StatementIn \in [Statements -> Collections]
    /\ Statements = DOMAIN VoiceOf
    /\ \A m \in DOMAIN MeaningOf :
          /\ MeaningOf[m].supports # {} /\ MeaningOf[m].supports \subseteq Statements
          /\ \A s \in MeaningOf[m].supports : VoiceOf[s] = MeaningOf[m].voice
    /\ \A r \in DOMAIN RelationOf :
          /\ RelationOf[r].evidence # {}
          /\ RelationOf[r].evidence \subseteq Statements \X Fragments

VARIABLES
    links,         \* evidence_links: <<Statement, SourceFragment>>
    mentions,      \* concept_mentions: <<Concept, Collection, SourceFragment>>
    meanings,      \* concept_meanings
    relations      \* relations, each with its relation_evidence_links

rows == <<links, mentions, meanings, relations>>

NoRows == links = {} /\ mentions = {} /\ meanings = {} /\ relations = {}

\* The graph that a set of rows stands for.
Graph(l, m, cm) == [links |-> l, mentions |-> m, meanings |-> cm]
Stored == Graph(links, mentions, meanings)
Both(g, h) == Graph(g.links \cup h.links, g.mentions \cup h.mentions, g.meanings \cup h.meanings)

NodesOf(g) ==
    (UNION {{<<"statement", l[1]>>, <<"voice", VoiceOf[l[1]]>>} : l \in g.links})
    \cup {<<"concept", m[1]>> : m \in g.mentions}
    \cup UNION {{<<"concept_meaning", cm>>, <<"concept", MeaningOf[cm].concept>>} : cm \in g.meanings}

\* MeaningOutputManifest: what an import proposes for review.
OutputOf(g) == NodesOf(g) \cup {<<"evidence_link", l>> : l \in g.links}

\* _candidate_stubs: everything that is there to be reviewed.
Candidates == OutputOf(Stored) \cup {<<"relation", r>> : r \in relations}

\* prepare_meaning_graph: each reference lies in the fragments that were read,
\* and there in the Collection it declares; each meaning rests on Statements of
\* the same proposal.
Grounded(g, permitted, scope) ==
    LET ReadThrough(f, c) == f \in permitted /\ c \in HeldBy[f] \cap scope
    IN /\ \A l \in g.links : ReadThrough(l[2], StatementIn[l[1]])
       /\ \A m \in g.mentions : ReadThrough(m[3], m[2])
       /\ \A cm \in g.meanings : MeaningOf[cm].supports \subseteq {l[1] : l \in g.links}

----------------------------------------------------------------------------
(* Closures and grounding *)

\* The Statements whose Collections a target takes over.
StatementsUnder(t) ==
    {s \in {l[1] : l \in links} : t \in {<<"statement", s>>, <<"voice", VoiceOf[s]>>}}
    \cup {l[1] : l \in {k \in links : t = <<"evidence_link", k>>}}
    \cup UNION {MeaningOf[cm].supports :
                   cm \in {x \in meanings : t \in {<<"concept_meaning", x>>,
                                                   <<"concept", MeaningOf[x].concept>>,
                                                   <<"voice", MeaningOf[x].voice>>}}}

\* _target_collections
NodeClosure(t) ==
    {StatementIn[s] : s \in StatementsUnder(t)}
    \cup {m[2] : m \in {x \in mentions : t = <<"concept", x[1]>>}}

\* _relation_target_collections: the evidence and both endpoints.
RelationClosure(r) ==
    {StatementIn[l[1]] : l \in RelationOf[r].evidence}
    \cup NodeClosure(RelationOf[r].subject) \cup NodeClosure(RelationOf[r].object)

Closure(t) ==
    NodeClosure(t) \cup UNION {RelationClosure(r) : r \in {x \in relations : t = <<"relation", x>>}}

\* _node_grounding_fragments: the text a node was read from.
Grounding(n) ==
    {l[2] : l \in {k \in links :
                      \/ n \in {<<"statement", k[1]>>, <<"voice", VoiceOf[k[1]]>>}
                      \/ \E cm \in meanings : /\ n = <<"concept_meaning", cm>>
                                              /\ k[1] \in MeaningOf[cm].supports}}
    \cup {m[3] : m \in {x \in mentions : n = <<"concept", x[1]>>}}

\* Broken variant: a node is visible as soon as some of its text is.
SomeGroundingPermitted(permitted) ==
    {n \in NodesOf(Stored) : Grounding(n) \cap permitted # {}}

\* _prepare_authorized_nodes: the nodes whose grounding is permitted completely.
AuthorizedNodes(permitted) ==
    {n \in NodesOf(Stored) : Grounding(n) # {} /\ Grounding(n) \subseteq permitted}

\* _prepare_authorized_edges: the Relations between such nodes whose evidence is
\* permitted completely.
AuthorizedRelations(permitted) ==
    {r \in relations : /\ {RelationOf[r].subject, RelationOf[r].object}
                             \subseteq AuthorizedNodes(permitted)
                       /\ \A l \in RelationOf[r].evidence : l[2] \in permitted}

\* _validate_proposal: a Relation is imported on the same terms, and an endpoint
\* that is a Statement or a meaning has its own evidence in it.
Importable(r, permitted) ==
    LET evidence == RelationOf[r].evidence
        cited == {l[1] : l \in evidence}
        ends == {RelationOf[r].subject, RelationOf[r].object}
    IN /\ evidence \subseteq links
       /\ \A l \in evidence : l[2] \in permitted
       /\ ends \subseteq NodesOf(Stored)
       /\ \A n \in ends : Grounding(n) # {} /\ Grounding(n) \subseteq permitted
       /\ \A s \in Statements : <<"statement", s>> \in ends => s \in cited
       /\ \A cm \in meanings : <<"concept_meaning", cm>> \in ends =>
                                  MeaningOf[cm].supports \cap cited # {}

----------------------------------------------------------------------------
(* Paths *)

\* One step of the recursive query: the next Relation and the node it leads to.
StepsFrom(n, permitted, direction) ==
    {<<r, RelationOf[r].object>> :
        r \in {x \in AuthorizedRelations(permitted) :
                  direction # "incoming" /\ RelationOf[x].subject = n}}
    \cup {<<r, RelationOf[r].subject>> :
        r \in {x \in AuthorizedRelations(permitted) :
                  direction # "outgoing" /\ RelationOf[x].object = n}}

\* A path visits no node twice and has at most hops Relations.
PathsFrom(seed, permitted, direction, hops) ==
    LET onward == [n \in AuthorizedNodes(permitted) |-> StepsFrom(n, permitted, direction)]
        steps == UNION {onward[n] : n \in DOMAIN onward}
        Before(p, i) == IF i = 1 THEN seed ELSE p[i - 1][2]
    IN {p \in UNION {[1..n -> steps] : n \in 1..hops} :
           \A i \in DOMAIN p : /\ Before(p, i) \in DOMAIN onward
                               /\ p[i] \in onward[Before(p, i)]
                               /\ p[i][2] # seed
                               /\ \A j \in 1..(i - 1) : p[j][2] # p[i][2]}
====
