------------------------------- MODULE Reading -------------------------------
(***************************************************************************)
(* Recall and Context (internal/engine/recall.go and context_engine.go)    *)
(* beside the writer of MemoryEngine: the daemon serves a read in the      *)
(* goroutine of its request, while the write worker goes on.               *)
(*                                                                         *)
(* A read takes no snapshot.  The vector search, the listing of the keys,  *)
(* every load of one memory, every look at the graph and every listing of  *)
(* a namespace is a critical section or a transaction of its own, and the  *)
(* writer may take any of its steps between two of them.  One action here  *)
(* is one of those.  A recall ends after its hits are ranked; a context    *)
(* goes on from there to the graph, then the entities, the facts and the   *)
(* relations.  (What is cut to the token budget afterwards, without        *)
(* another look at the store, is ContextBudget.)                           *)
(*                                                                         *)
(* A question stands for a query text; Cosine is its similarity with a     *)
(* text and Overlap that of their words, in tenths.                        *)
(***************************************************************************)
EXTENDS MemoryEngine, Integers

CONSTANTS
  Questions,
  Cosine,      \* [Questions \X Texts -> -10..10]
  Overlap,     \* [Questions \X Texts -> 0..10]
  Queries,     \* what a reader may ask: [question, scope, context, graph]
  TopK,        \* top_k of a query
  MaxReads     \* bound: reads begun

Query == [question : Questions, scope : Scopes, context : BOOLEAN, graph : BOOLEAN]

ASSUME ReadingAssumption ==
  /\ Cosine \in [Questions \X Texts -> -10..10]
  /\ Overlap \in [Questions \X Texts -> 0..10]
  /\ Queries \subseteq Query /\ None \notin Query
  /\ TopK \in Nat \ {0} /\ MaxReads \in Nat

VARIABLES
  step,          \* where the read stands
  query,         \* what it was asked
  hits,          \* the ids its vector search returned
  left,          \* ids this step has still to load
  listed,        \* memory values loaded by the listing
  found,         \* memory values loaded for the hits
  near,          \* ids of graph neighbours still to load
  shown,         \* memory values of the answer
  shownEntities, \* with the source each had when it was loaded
  shownFacts, shownRelations,
  known,         \* history: ids that had been acknowledged when it began
  reads

readVars ==
  <<step, query, hits, left, listed, found, near, shown,
    shownEntities, shownFacts, shownRelations, known, reads>>

ReadSteps == {"list", "listed", "hits", "rank", "expand", "near", "entities", "facts",
              "relations", "done"}

ReadTypeOK ==
  /\ step \in {"none"} \cup ReadSteps
  /\ query \in Query \cup {None}
  /\ step # "none" => query # None
  /\ hits \subseteq Ids /\ left \subseteq Ids /\ near \subseteq Ids
  /\ listed \cup found \cup shown \subseteq Memory
  /\ shownEntities \subseteq [id : EntityIds, of : Ids]
  /\ shownFacts \subseteq [id : FactIds, of : Ids]
  /\ shownRelations \subseteq Relation
  /\ known \subseteq Ids /\ reads \in 0..MaxReads

IdsOf(ms) == {m.id : m \in ms}

-----------------------------------------------------------------------------
(* Recall. *)

(* At most TopK of S, none of them worse than one that is left out; which  *)
(* of equals is left open.                                                 *)
Best(S, score(_)) ==
  {T \in SUBSET S :
     /\ \A a \in T, b \in S \ T : score(a) >= score(b)
     /\ IF Cardinality(S) <= TopK THEN T = S ELSE Cardinality(T) = TopK}

(* The entries of the scope whose cosine is not negative.                  *)
VectorHits(q) ==
  {i \in Ids : /\ vectorIndex[i] # None
               /\ vectorIndex[i].scope = q.scope
               /\ Cosine[<<q.question, vectorIndex[i].text>>] >= 0}

(* The query is embedded and the vector index searched.                    *)
BeginRead(q) ==
  /\ open /\ step = "none" /\ reads < MaxReads
  /\ reads' = reads + 1
  /\ query' = q
  /\ hits' \in Best(VectorHits(q), LAMBDA i : Cosine[<<q.question, vectorIndex[i].text>>])
  /\ known' = {a.id : a \in acked}
  /\ step' = "list"
  /\ UNCHANGED <<left, listed, found, near, shown, shownEntities, shownFacts, shownRelations>>

(* Faulty variant: what is not enriched yet is not read.                   *)
ListSynced ==
  /\ step = "list" /\ step' = "listed"
  /\ left' = InStatus("synced")
  /\ UNCHANGED <<query, hits, listed, found, near, shown,
                 shownEntities, shownFacts, shownRelations, known, reads>>

ListKeys ==
  /\ step = "list" /\ step' = "listed"
  /\ left' = Stored
  /\ UNCHANGED <<query, hits, listed, found, near, shown,
                 shownEntities, shownFacts, shownRelations, known, reads>>

(* listMemories loads the memories one by one.                             *)
LoadListed ==
  /\ step = "listed"
  /\ IF left = {}
     THEN step' = "hits" /\ left' = hits /\ UNCHANGED listed
     ELSE \E i \in left :
            /\ listed' = listed \cup ({memories[i]} \ {None})
            /\ left' = left \ {i}
            /\ UNCHANGED step
  /\ UNCHANGED <<query, hits, found, near, shown,
                 shownEntities, shownFacts, shownRelations, known, reads>>

(* And the hits of the vector search are loaded again; one that is not     *)
(* stored is passed over.                                                  *)
LoadHit ==
  /\ step = "hits"
  /\ IF left = {}
     THEN step' = "rank" /\ UNCHANGED <<left, found>>
     ELSE \E i \in left :
            /\ found' = found \cup ({memories[i]} \ {None})
            /\ left' = left \ {i}
            /\ UNCHANGED step
  /\ UNCHANGED <<query, hits, listed, near, shown,
                 shownEntities, shownFacts, shownRelations, known, reads>>

OverlapWith(m) == Overlap[<<query.question, m.text>>]

(* Faulty variant: a memory both searches find is there twice.             *)
AddTwice(ms) ==
  ms \cup {m \in listed : m.scope = query.scope /\ OverlapWith(m) > 0}

(* The memories of the listing, in the scope, that share a word with the   *)
(* query join the hits; of a hit the value loaded for it is kept.          *)
WithLexical(ms) ==
  ms \cup {m \in listed : /\ m.scope = query.scope
                          /\ OverlapWith(m) > 0
                          /\ m.id \notin IdsOf(ms)}

(* 0.7 of the cosine, for a hit of the vector search, and 0.3 of the words *)
Score(m) ==
  (IF m \in found THEN 7 * Cosine[<<query.question, m.text>>] ELSE 0) + 3 * OverlapWith(m)

Rank ==
  /\ step = "rank"
  /\ shown' \in Best(WithLexical(found), Score)
  /\ step' = IF ~query.context THEN "done" ELSE IF query.graph THEN "expand" ELSE "entities"
  /\ left' = IF query.context /\ query.graph THEN IdsOf(shown') ELSE {}
  /\ UNCHANGED <<query, hits, listed, found, near,
                 shownEntities, shownFacts, shownRelations, known, reads>>

-----------------------------------------------------------------------------
(* Context. *)

Adjacent(i) == {j \in nodes : \E e \in edges : i # j /\ e.ends = {i, j}}

(* Faulty variant: two steps along the edges instead of one.               *)
TwoAway(i) ==
  IF i \in nodes THEN UNION {Adjacent(j) : j \in Adjacent(i)} \cup Adjacent(i) ELSE {}

(* Related(id, 1); a memory without a node has no neighbours.              *)
Neighbours(i) == IF i \in nodes THEN Adjacent(i) ELSE {}

(* The neighbours of one recalled memory are asked for under the lock of   *)
(* the graph.  An entity among them is no memory and is not loaded.        *)
ExpandGraph ==
  /\ step = "expand"
  /\ IF left = {}
     THEN step' = "entities" /\ UNCHANGED <<left, near>>
     ELSE \E i \in left :
            /\ near' = (Neighbours(i) \cap Ids) \ IdsOf(shown)
            /\ left' = left \ {i}
            /\ step' = "near"
  /\ UNCHANGED <<query, hits, listed, found, shown,
                 shownEntities, shownFacts, shownRelations, known, reads>>

LoadNeighbour ==
  /\ step = "near"
  /\ IF near = {}
     THEN step' = "expand" /\ UNCHANGED <<near, shown>>
     ELSE \E i \in near :
            /\ shown' = shown \cup ({memories[i]} \ {None})
            /\ near' = near \ {i}
            /\ UNCHANGED step
  /\ UNCHANGED <<query, hits, left, listed, found,
                 shownEntities, shownFacts, shownRelations, known, reads>>

(* Faulty variant: the entities are not filtered by their source.          *)
LoadEveryEntity ==
  /\ step = "entities" /\ step' = "facts"
  /\ shownEntities' = {s \in [id : EntityIds, of : Ids] : entities[s.id] = s.of}
  /\ UNCHANGED <<query, hits, left, listed, found, near, shown, shownFacts,
                 shownRelations, known, reads>>

(* The entities whose source is a memory of the answer, and the facts.     *)
LoadEntities ==
  /\ step = "entities" /\ step' = "facts"
  /\ shownEntities' = {s \in [id : EntityIds, of : IdsOf(shown)] : entities[s.id] = s.of}
  /\ UNCHANGED <<query, hits, left, listed, found, near, shown, shownFacts,
                 shownRelations, known, reads>>

LoadFacts ==
  /\ step = "facts" /\ step' = "relations"
  /\ shownFacts' = {s \in [id : FactIds, of : IdsOf(shown)] : facts[s.id] = s.of}
  /\ UNCHANGED <<query, hits, left, listed, found, near, shown, shownEntities,
                 shownRelations, known, reads>>

(* Faulty variant: both ends have to be shown.                             *)
RelationsAmong(ms) == {r \in relations : r.ends \subseteq IdsOf(ms)}

(* A relation belongs to a memory at either of its ends.                   *)
RelationsOf(ms) == {r \in relations : r.ends \cap IdsOf(ms) # {}}

LoadRelations ==
  /\ step = "relations" /\ step' = "done"
  /\ shownRelations' = RelationsOf(shown)
  /\ UNCHANGED <<query, hits, left, listed, found, near, shown, shownEntities,
                 shownFacts, known, reads>>

Forget ==
  /\ step' = "none" /\ query' = None
  /\ hits' = {} /\ left' = {} /\ near' = {}
  /\ listed' = {} /\ found' = {} /\ shown' = {}
  /\ shownEntities' = {} /\ shownFacts' = {} /\ shownRelations' = {}
  /\ known' = {}
  /\ UNCHANGED reads

Answer == step = "done" /\ Forget

ReadStep ==
  \/ ListKeys \/ LoadListed \/ LoadHit \/ Rank
  \/ ExpandGraph \/ LoadNeighbour \/ LoadEntities \/ LoadFacts \/ LoadRelations
  \/ Answer

(* The store refuses one of the read's transactions, or has been closed:   *)
(* the error is returned.                                                  *)
ReadFails ==
  /\ \/ step \in {"list", "entities", "facts", "relations"}
     \/ step \in {"listed", "hits"} /\ left # {}
  /\ faults < MaxFaults /\ faults' = faults + 1
  /\ Forget
  /\ UNCHANGED <<dataVars, graphVars, indexVars, opVars, acked, clock>>

(* A neighbour that cannot be loaded is only passed over.                  *)
SkipNeighbour ==
  /\ step = "near"
  /\ faults < MaxFaults /\ faults' = faults + 1
  /\ \E i \in near : near' = near \ {i}
  /\ UNCHANGED <<step, query, hits, left, listed, found, shown,
                 shownEntities, shownFacts, shownRelations, known, reads>>
  /\ UNCHANGED <<dataVars, graphVars, indexVars, opVars, acked, clock>>

-----------------------------------------------------------------------------
(* A step of the writer; the end of the process is the end of the read.    *)
WriterStep == Next /\ IF open /\ ~open' THEN Forget ELSE UNCHANGED readVars

ReadInit ==
  /\ Init
  /\ step = "none" /\ query = None
  /\ hits = {} /\ left = {} /\ near = {}
  /\ listed = {} /\ found = {} /\ shown = {}
  /\ shownEntities = {} /\ shownFacts = {} /\ shownRelations = {}
  /\ known = {} /\ reads = 0

ReadNext ==
  \/ WriterStep
  \/ \E q \in Queries : BeginRead(q) /\ UNCHANGED vars
  \/ ReadStep /\ UNCHANGED vars
  \/ ReadFails \/ SkipNeighbour

ReadSpec == ReadInit /\ [][ReadNext]_<<vars, readVars>>

-----------------------------------------------------------------------------
(* Properties. *)

Answered == step = "done"

(* A read never answers with anything of another scope: not with a memory  *)
(* reached through the graph, where memories of different scopes are       *)
(* joined to one and the same entity, not with a relation of such a        *)
(* memory, and not with an entity or a fact whose source, as it was read,  *)
(* is one: a Sync in another scope may take an entity over before the read *)
(* comes to it.  (Neither expandGraphMemories nor the loaders of entities, *)
(* facts and relations look at a scope.)                                   *)
OnlyTheScopeAskedFor ==
  Answered =>
    /\ \A m \in shown : m.scope = query.scope
    /\ \A s \in shownEntities \cup shownFacts : memories[s.of].scope = query.scope
    /\ \A r \in shownRelations, i \in Ids :
         i \in r.ends => memories[i].scope = query.scope

(* What had been acknowledged before the read began and matches it, by a   *)
(* word or by a vector, is in the answer, whatever the writer does in the  *)
(* meantime, unless TopK others are there.                                 *)
NothingAckedIsMissed ==
  Answered /\ Cardinality(shown) < TopK =>
    \A i \in known :
      /\ memories[i].scope = query.scope
      /\ \/ Overlap[<<query.question, memories[i].text>>] > 0
         \/ Cosine[<<query.question, memories[i].text>>] >= 0
      => i \in IdsOf(shown)

(* A memory is loaded up to three times in one read, and changes between   *)
(* them; the answer shows one value of it.                                 *)
OneValueOfEach == \A m, n \in shown : m.id = n.id => m = n

(* A context that shows a memory as synced shows its enrichment: all of    *)
(* its relations, to its entities and to the memories shown with it that   *)
(* are synced too, though the relations are read last and the memory may   *)
(* have been read before the Sync of the others was done.                  *)
SyncedIsShownWhole ==
  Answered /\ query.context =>
    \A m \in {s \in shown : s.status = "synced"} :
      /\ \A e \in Entities[m.text] : Associated(m, e) \in shownRelations
      /\ \A o \in {s \in shown : s.status = "synced"} :
           o # m /\ <<m.text, o.text>> \in Related /\ Cardinality(Ids) <= SyncTopK
           /\ vectors[m.id] # None /\ vectors[o.id] # None
             => ClassifiedAs(m, o) \in shownRelations
=============================================================================
