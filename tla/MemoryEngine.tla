---------------------------- MODULE MemoryEngine ----------------------------
(***************************************************************************)
(* The FireMemory engine (internal/engine) over one open brainfile:        *)
(* Remember with its two-level deduplication, Sync with its enrichment of  *)
(* the knowledge graph, closing, crashing and reopening.                   *)
(*                                                                         *)
(* Every Put and Delete of the store is a bbolt transaction of its own, so *)
(* the process may die, or the store may refuse the write, between any two *)
(* of them.  One action is one such transaction together with the code     *)
(* that runs up to the next one.  The engine has a single writer at a time *)
(* (the daemon's write worker, or a command-line process that holds the    *)
(* file lock), whose place in its operation is pc; readers run in the      *)
(* daemon concurrently, and what they can see is any state of the model.   *)
(*                                                                         *)
(* Abstractions.  A text stands for the content of a memory: Hash[t] is    *)
(* the hash of its normalised form, <<t, u>> \in Similar says that the     *)
(* cosine of the two embeddings reaches the deduplication threshold 0.92,  *)
(* Related that it reaches the 0.40 of Sync, and OutOfRange that its       *)
(* floating-point value exceeds 1 and the classifier rejects it.  An       *)
(* UpdatedAt time stamp is the number of stamps taken so far.  The graph   *)
(* keeps an in-memory copy of its two namespaces that it changes, under    *)
(* its lock, right after the store: one variable stands for both.          *)
(***************************************************************************)
EXTENDS Naturals, FiniteSets

CONSTANTS
  Ids,             \* memory identifiers (the time stamps of newMemoryID)
  Texts,           \* contents a client may send
  Hashes,          \* values of the content hash
  Hash,            \* [Texts -> Hashes]
  Scopes, Kinds,   \* scopes and kinds of memories
  Similar,         \* pairs of texts at or above the deduplication threshold
  Related,         \* pairs of texts at or above the threshold of Sync
  OutOfRange,      \* pairs of texts whose computed similarity exceeds 1
  EntityIds, FactIds,
  Entities,        \* [Texts -> SUBSET EntityIds], what the extractor finds
  Facts,           \* [Texts -> SUBSET FactIds]
  Types,           \* relation types
  RelationType,    \* [Texts \X Texts -> Types], the classifier's verdict
  SyncTopK,        \* hits one Sync search returns at most, itself included
  Limits,          \* limits clients pass to Sync, 0 being "no limit"
  MaxStamps,       \* bound: no Remember starts after this many time stamps
  MaxFaults,       \* bound: crashes and refused store operations
  None             \* "no value"

Symmetric(R) == \A p \in R : <<p[2], p[1]>> \in R

ASSUME ConstantsAssumption ==
  /\ Hash \in [Texts -> Hashes]
  /\ Similar \subseteq Texts \X Texts /\ Symmetric(Similar)
  /\ \A t \in Texts : <<t, t>> \in Similar
  /\ Related \subseteq Texts \X Texts /\ Symmetric(Related)
  /\ Similar \subseteq Related
  /\ OutOfRange \subseteq Similar
  /\ Entities \in [Texts -> SUBSET EntityIds]
  /\ Facts \in [Texts -> SUBSET FactIds]
  /\ RelationType \in [Texts \X Texts -> Types]
  /\ Ids \cap EntityIds = {}
  /\ SyncTopK \in Nat \ {0}
  /\ Limits \subseteq Nat
  /\ MaxStamps \in Nat /\ MaxFaults \in Nat

VARIABLES
  (* namespaces of the brainfile *)
  memories,     \* [Ids -> Memory or None]
  vectors,      \* [Ids -> Embedding or None]
  hashStore,    \* [Hashes -> Ids or None], the hash_index namespace
  syncQueue,    \* ids with a record in sync_queue
  traces,       \* <<id, action>> with a record in traces
  entities,     \* [EntityIds -> Ids or None], the source memory of each entity
  facts,        \* [FactIds -> Ids or None], the source memory of each fact
  relations,    \* records of relations
  nodes, edges, \* graph_nodes and graph_edges
  (* memory of the process that has the brainfile open *)
  open,         \* is the engine open
  vectorIndex,  \* what LinearVectorIndex holds
  hashIndex,    \* what InMemoryHashIndex holds
  (* the operation in progress *)
  pc,           \* what the writer does next
  action,       \* what the operation turned out to be
  req,          \* the request of a Remember
  mem,          \* the memory value the operation works on (a copy)
  batch,        \* memory values a Sync has read and not handled yet
  todo, item,   \* entities, facts or related memories left, and the current one
  (* history and bounds *)
  acked,        \* requests whose Remember returned without error, with the id
  clock, faults

dataVars  == <<memories, vectors, hashStore, syncQueue, traces>>
graphVars == <<entities, facts, relations, nodes, edges>>
indexVars == <<open, vectorIndex, hashIndex>>
opVars    == <<pc, action, req, mem, batch, todo, item>>
histVars  == <<acked, clock, faults>>
vars == <<dataVars, graphVars, indexVars, opVars, histVars>>

Statuses == {"pending_sync", "synced"}
Embedding == [text : Texts, scope : Scopes, kind : Kinds]
Memory == [id : Ids, text : Texts, scope : Scopes, kind : Kinds,
           status : Statuses, updatedAt : Nat]
Relation == [ends : SUBSET (Ids \cup EntityIds), type : Types \cup {"associated"}]

ASSUME NoneAssumption == None \notin Ids \cup EntityIds \cup Embedding \cup Memory

RememberSteps == {"save", "persist_vector", "add_vector", "set_hash", "put_hash",
                  "enqueue", "trace"}
SyncSteps == {"next", "entity", "entity_node", "entity_relation", "entity_edge",
              "fact", "search", "relate", "relation", "edge", "mark", "dequeue",
              "sync_trace"}

TypeOK ==
  /\ memories \in [Ids -> Memory \cup {None}]
  /\ \A i \in Ids : memories[i] # None => memories[i].id = i
  /\ vectors \in [Ids -> Embedding \cup {None}]
  /\ hashStore \in [Hashes -> Ids \cup {None}]
  /\ syncQueue \subseteq Ids
  /\ traces \subseteq Ids \X {"create_new", "reinforce", "sync"}
  /\ entities \in [EntityIds -> Ids \cup {None}]
  /\ facts \in [FactIds -> Ids \cup {None}]
  /\ relations \subseteq Relation
  /\ edges \subseteq Relation
  /\ nodes \subseteq Ids \cup EntityIds
  /\ open \in BOOLEAN
  /\ vectorIndex \in [Ids -> Embedding \cup {None}]
  /\ hashIndex \in [Hashes -> Ids \cup {None}]
  /\ pc \in {"idle"} \cup RememberSteps \cup SyncSteps
  /\ action \in {"none", "create_new", "reinforce", "sync"}
  /\ req \in Embedding \cup {None}
  /\ mem \in Memory \cup {None}
  /\ pc \in RememberSteps => req # None
  /\ pc \in (RememberSteps \cup SyncSteps) \ {"next"} => mem # None
  /\ batch \subseteq Memory
  /\ todo \subseteq Ids \cup EntityIds \cup FactIds
  /\ item \in Ids \cup EntityIds \cup {None}
  /\ acked \subseteq [req : Embedding, id : Ids]
  /\ clock \in Nat
  /\ faults \in Nat

-----------------------------------------------------------------------------
(* Helpers. *)

Stored == {i \in Ids : memories[i] # None}
InStatus(status) == {i \in Stored : memories[i].status = status}
EmbeddingOf(m) == [text |-> m.text, scope |-> m.scope, kind |-> m.kind]
Stamped(m, status) ==
  [id |-> m.id, text |-> m.text, scope |-> m.scope, kind |-> m.kind,
   status |-> status, updatedAt |-> clock + 1]
RelationBetween(a, b, t) == [ends |-> {a, b}, type |-> t]
Associated(m, e) == RelationBetween(m.id, e, "associated")
ClassifiedAs(m, o) == RelationBetween(m.id, o.id, RelationType[<<m.text, o.text>>])

(* The entries of the vector index that the deduplication search returns   *)
(* for r: same scope, same kind, similar enough.                           *)
VectorMatches(r) ==
  {i \in Ids : /\ vectorIndex[i] # None
               /\ vectorIndex[i].scope = r.scope
               /\ vectorIndex[i].kind = r.kind
               /\ <<r.text, vectorIndex[i].text>> \in Similar}

(* The entries the search of classifyRelatedMemories may return: scope but *)
(* not kind, the lower threshold, and the memory itself among them.        *)
RelatedCandidates(e) ==
  {i \in Ids : /\ vectorIndex[i] # None
               /\ vectorIndex[i].scope = e.scope
               /\ <<e.text, vectorIndex[i].text>> \in Related}

(* A search returns its SyncTopK best candidates; which ones those are     *)
(* when there are more is left open.                                       *)
SearchResults(e) ==
  {S \in SUBSET RelatedCandidates(e) :
     IF Cardinality(RelatedCandidates(e)) <= SyncTopK
     THEN S = RelatedCandidates(e)
     ELSE Cardinality(S) = SyncTopK}

Pending == {memories[i] : i \in InStatus("pending_sync")}
Older(m, n) == m.updatedAt <= n.updatedAt

(* Faulty variant: Sync works off sync_queue.                              *)
QueuedBatches(limit) ==
  LET queued == {m \in Pending : m.id \in syncQueue}
  IN {S \in SUBSET queued :
        /\ \A m \in S, n \in queued \ S : Older(m, n)
        /\ IF limit = 0 \/ Cardinality(queued) <= limit
           THEN S = queued
           ELSE Cardinality(S) = limit}

(* pendingMemories(limit): the memories in status pending_sync, whatever   *)
(* sync_queue says, the least recently updated first, cut at limit.        *)
Batches(limit) ==
  {S \in SUBSET Pending :
     /\ \A m \in S, n \in Pending \ S : Older(m, n)
     /\ IF limit = 0 \/ Cardinality(Pending) <= limit
        THEN S = Pending
        ELSE Cardinality(S) = limit}

(* Leaving an operation, by a return or by an error.                       *)
OpReset ==
  /\ pc' = "idle" /\ action' = "none"
  /\ req' = None /\ mem' = None
  /\ batch' = {} /\ todo' = {} /\ item' = None

Goto(step) == pc' = step /\ UNCHANGED <<action, req, mem, batch, todo, item>>

-----------------------------------------------------------------------------
(* Remember. *)

Begin(act, r, m) ==
  /\ pc' = "save" /\ action' = act /\ req' = r /\ mem' = m
  /\ clock' = clock + 1
  /\ UNCHANGED <<dataVars, graphVars, indexVars, batch, todo, item, acked, faults>>

(* reinforceExistingMemory: a matched id without a memory is an error and  *)
(* changes nothing.                                                        *)
Reinforce(r, i) ==
  IF memories[i] = None
  THEN UNCHANGED vars
  ELSE Begin("reinforce", r, Stamped(memories[i], "pending_sync"))

Create(r, i) ==
  Begin("create_new", r, [id |-> i, text |-> r.text, scope |-> r.scope, kind |-> r.kind,
                          status |-> "pending_sync", updatedAt |-> clock + 1])

(* Faulty variant: the exact match is looked up in the scope of r only.    *)
ScopedRemember(r) ==
  /\ open /\ pc = "idle" /\ clock < MaxStamps
  /\ LET bound == hashIndex[Hash[r.text]]
         exact == bound # None /\ memories[bound].scope = r.scope
     IN \/ exact /\ Reinforce(r, bound)
        \/ ~exact /\ \E i \in VectorMatches(r) : Reinforce(r, i)
        \/ /\ ~exact /\ VectorMatches(r) = {}
           /\ \E i \in Ids \ Stored : Create(r, i)

(* Remember runs the detector: an exact match of the content hash, in any  *)
(* scope and of any kind; else the best match of the vector search; else   *)
(* a new memory under an unused id.                                        *)
Remember(r) ==
  /\ open /\ pc = "idle" /\ clock < MaxStamps
  /\ LET exact == hashIndex[Hash[r.text]]
     IN \/ exact # None /\ Reinforce(r, exact)
        \/ exact = None /\ \E i \in VectorMatches(r) : Reinforce(r, i)
        \/ /\ exact = None /\ VectorMatches(r) = {}
           /\ \E i \in Ids \ Stored : Create(r, i)

(* Faulty variant: the memory of a Remember is not written.                *)
SaveNothing ==
  /\ pc = "save"
  /\ Goto(IF action = "create_new" THEN "persist_vector" ELSE "set_hash")
  /\ UNCHANGED <<dataVars, graphVars, indexVars, histVars>>

SaveMemory ==
  /\ pc = "save"
  /\ memories' = [memories EXCEPT ![mem.id] = mem]
  /\ Goto(IF action = "create_new" THEN "persist_vector" ELSE "set_hash")
  /\ UNCHANGED <<vectors, hashStore, syncQueue, traces, graphVars, indexVars, histVars>>

(* Faulty variant: the vector goes to the index only.                      *)
PersistNoVector ==
  /\ pc = "persist_vector"
  /\ Goto("add_vector")
  /\ UNCHANGED <<dataVars, graphVars, indexVars, histVars>>

PersistVector ==
  /\ pc = "persist_vector"
  /\ vectors' = [vectors EXCEPT ![mem.id] = EmbeddingOf(mem)]
  /\ Goto("add_vector")
  /\ UNCHANGED <<memories, hashStore, syncQueue, traces, graphVars, indexVars, histVars>>

(* Faulty variant: the vector goes to the store only.                      *)
AddNoVector ==
  /\ pc = "add_vector"
  /\ Goto("set_hash")
  /\ UNCHANGED <<dataVars, graphVars, indexVars, histVars>>

AddVector ==
  /\ pc = "add_vector"
  /\ vectorIndex' = [vectorIndex EXCEPT ![mem.id] = EmbeddingOf(mem)]
  /\ Goto("set_hash")
  /\ UNCHANGED <<dataVars, graphVars, open, hashIndex, histVars>>

(* persistHashMatch changes the in-memory index first, then the store.     *)
SetHash ==
  /\ pc = "set_hash"
  /\ hashIndex' = [hashIndex EXCEPT ![Hash[req.text]] = mem.id]
  /\ Goto("put_hash")
  /\ UNCHANGED <<dataVars, graphVars, open, vectorIndex, histVars>>

PutHash ==
  /\ pc = "put_hash"
  /\ hashStore' = [hashStore EXCEPT ![Hash[req.text]] = mem.id]
  /\ Goto("enqueue")
  /\ UNCHANGED <<memories, vectors, syncQueue, traces, graphVars, indexVars, histVars>>

EnqueueSync ==
  /\ pc = "enqueue"
  /\ syncQueue' = syncQueue \cup {mem.id}
  /\ Goto("trace")
  /\ UNCHANGED <<memories, vectors, hashStore, traces, graphVars, indexVars, histVars>>

(* The last write of a Remember; the caller gets its result.               *)
PersistTrace ==
  /\ pc = "trace"
  /\ traces' = traces \cup {<<mem.id, action>>}
  /\ acked' = acked \cup {[req |-> req, id |-> mem.id]}
  /\ OpReset
  /\ UNCHANGED <<memories, vectors, hashStore, syncQueue, graphVars, indexVars, clock, faults>>

-----------------------------------------------------------------------------
(* Sync. *)

Sync(limit) ==
  /\ open /\ pc = "idle"
  /\ \E S \in Batches(limit) : batch' = S
  /\ pc' = "next" /\ action' = "sync"
  /\ UNCHANGED <<dataVars, graphVars, indexVars, histVars, req, mem, todo, item>>

SyncReturn ==
  /\ pc = "next" /\ batch = {}
  /\ OpReset
  /\ UNCHANGED <<dataVars, graphVars, indexVars, histVars>>

(* PersistentGraph.AddNode. *)
AddNode(n) == nodes' = nodes \cup {n}

(* Faulty variant: a memory with a node is taken for enriched already.     *)
SyncNextSkipsKnown ==
  /\ pc = "next"
  /\ \E m \in batch :
       /\ \A n \in batch : Older(m, n)
       /\ mem' = m
       /\ batch' = batch \ {m}
       /\ AddNode(m.id)
       /\ todo' = IF m.id \in nodes THEN {} ELSE Entities[m.text]
  /\ pc' = "entity"
  /\ UNCHANGED <<dataVars, entities, facts, relations, edges, indexVars, histVars,
                 action, req, item>>

(* The next memory of the batch, as it was read when the Sync began: its   *)
(* graph node, then its entities.                                          *)
SyncNext ==
  /\ pc = "next"
  /\ \E m \in batch :
       /\ \A n \in batch : Older(m, n)
       /\ mem' = m
       /\ batch' = batch \ {m}
       /\ AddNode(m.id)
       /\ todo' = Entities[m.text]
  /\ pc' = "entity"
  /\ UNCHANGED <<dataVars, entities, facts, relations, edges, indexVars, histVars,
                 action, req, item>>

(* An entity is keyed by its type and name only: the memory synced last is *)
(* recorded as its source.                                                 *)
PersistEntity ==
  /\ pc = "entity"
  /\ \E e \in todo :
       /\ entities' = [entities EXCEPT ![e] = mem.id]
       /\ item' = e
       /\ todo' = todo \ {e}
  /\ pc' = "entity_node"
  /\ UNCHANGED <<dataVars, facts, relations, nodes, edges, indexVars, histVars,
                 action, req, mem, batch>>

AddEntityNode ==
  /\ pc = "entity_node"
  /\ AddNode(item)
  /\ Goto("entity_relation")
  /\ UNCHANGED <<dataVars, entities, facts, relations, edges, indexVars, histVars>>

PersistEntityRelation ==
  /\ pc = "entity_relation"
  /\ relations' = relations \cup {Associated(mem, item)}
  /\ Goto("entity_edge")
  /\ UNCHANGED <<dataVars, entities, facts, nodes, edges, indexVars, histVars>>

(* AddEdge refuses an edge whose ends are not both nodes.                  *)
AddEdge(r, then) ==
  IF r.ends \subseteq nodes
  THEN edges' = edges \cup {r} /\ Goto(then)
  ELSE OpReset /\ UNCHANGED edges

AddEntityEdge ==
  /\ pc = "entity_edge"
  /\ AddEdge(Associated(mem, item), "entity")
  /\ UNCHANGED <<dataVars, entities, facts, relations, nodes, indexVars, histVars>>

EntitiesDone ==
  /\ pc = "entity" /\ todo = {}
  /\ pc' = "fact" /\ todo' = Facts[mem.text]
  /\ UNCHANGED <<dataVars, graphVars, indexVars, histVars, action, req, mem, batch, item>>

PersistFact ==
  /\ pc = "fact"
  /\ \E f \in todo :
       /\ facts' = [facts EXCEPT ![f] = mem.id]
       /\ todo' = todo \ {f}
  /\ UNCHANGED <<dataVars, entities, relations, nodes, edges, indexVars, histVars,
                 pc, action, req, mem, batch, item>>

FactsDone ==
  /\ pc = "fact" /\ todo = {}
  /\ Goto("search")
  /\ UNCHANGED <<dataVars, graphVars, indexVars, histVars>>

(* classifyRelatedMemories reads the stored vector; without one there is   *)
(* nothing to relate.                                                      *)
SearchRelated ==
  /\ pc = "search"
  /\ IF vectors[mem.id] = None
     THEN todo' = {}
     ELSE \E S \in SearchResults(vectors[mem.id]) : todo' = S \ {mem.id}
  /\ pc' = "relate"
  /\ UNCHANGED <<dataVars, graphVars, indexVars, histVars, action, req, mem, batch, item>>

(* Faulty variant: a memory that is synced counts as related already.      *)
RelatePendingHit ==
  /\ pc = "relate"
  /\ \E i \in todo :
       IF memories[i] = None \/ memories[i].status = "synced"
       THEN todo' = todo \ {i} /\ UNCHANGED <<nodes, pc, action, req, mem, batch, item>>
       ELSE /\ AddNode(i)
            /\ IF <<mem.text, memories[i].text>> \in OutOfRange
               THEN OpReset
               ELSE /\ pc' = "relation" /\ item' = i /\ todo' = todo \ {i}
                    /\ UNCHANGED <<action, req, mem, batch>>
  /\ UNCHANGED <<dataVars, entities, facts, relations, edges, indexVars, histVars>>

(* One hit: a memory that is not stored is skipped; otherwise its node is  *)
(* ensured and the pair classified, which fails on a similarity above 1    *)
(* and ends the whole Sync.                                                *)
RelateHit ==
  /\ pc = "relate"
  /\ \E i \in todo :
       IF memories[i] = None
       THEN todo' = todo \ {i} /\ UNCHANGED <<nodes, pc, action, req, mem, batch, item>>
       ELSE /\ AddNode(i)
            /\ IF <<mem.text, memories[i].text>> \in OutOfRange
               THEN OpReset
               ELSE /\ pc' = "relation" /\ item' = i /\ todo' = todo \ {i}
                    /\ UNCHANGED <<action, req, mem, batch>>
  /\ UNCHANGED <<dataVars, entities, facts, relations, edges, indexVars, histVars>>

PersistRelation ==
  /\ pc = "relation"
  /\ relations' = relations \cup {ClassifiedAs(mem, memories[item])}
  /\ Goto("edge")
  /\ UNCHANGED <<dataVars, entities, facts, nodes, edges, indexVars, histVars>>

AddRelationEdge ==
  /\ pc = "edge"
  /\ AddEdge(ClassifiedAs(mem, memories[item]), "relate")
  /\ UNCHANGED <<dataVars, entities, facts, relations, nodes, indexVars, histVars>>

RelatedDone ==
  /\ pc = "relate" /\ todo = {}
  /\ Goto("mark")
  /\ UNCHANGED <<dataVars, graphVars, indexVars, histVars>>

(* Only now the memory, the copy read when the Sync began, is saved as     *)
(* synced.                                                                 *)
MarkSynced ==
  /\ pc = "mark"
  /\ memories' = [memories EXCEPT ![mem.id] = Stamped(mem, "synced")]
  /\ clock' = clock + 1
  /\ Goto("dequeue")
  /\ UNCHANGED <<vectors, hashStore, syncQueue, traces, graphVars, indexVars, acked, faults>>

(* Faulty variant: a Sync empties the queue.                               *)
DequeueAll ==
  /\ pc = "dequeue"
  /\ syncQueue' = {}
  /\ Goto("sync_trace")
  /\ UNCHANGED <<memories, vectors, hashStore, traces, graphVars, indexVars, histVars>>

Dequeue ==
  /\ pc = "dequeue"
  /\ syncQueue' = syncQueue \ {mem.id}
  /\ Goto("sync_trace")
  /\ UNCHANGED <<memories, vectors, hashStore, traces, graphVars, indexVars, histVars>>

PersistSyncTrace ==
  /\ pc = "sync_trace"
  /\ traces' = traces \cup {<<mem.id, "sync">>}
  /\ Goto("next")
  /\ UNCHANGED <<memories, vectors, hashStore, syncQueue, graphVars, indexVars, histVars>>

-----------------------------------------------------------------------------
(* Failures, closing and opening. *)

(* The writer is about to use the store.                                   *)
UsesStore ==
  \/ pc \in {"save", "persist_vector", "put_hash", "enqueue", "trace", "entity_node",
             "entity_relation", "entity_edge", "search", "relation", "edge", "mark",
             "dequeue", "sync_trace"}
  \/ pc \in {"entity", "fact", "relate"} /\ todo # {}
  \/ pc = "next" /\ batch # {}

(* The store refuses an operation, whose transaction is rolled back; the   *)
(* engine returns the error and undoes nothing of what it did before.      *)
StoreFails ==
  /\ UsesStore /\ faults < MaxFaults
  /\ faults' = faults + 1
  /\ OpReset
  /\ UNCHANGED <<dataVars, graphVars, indexVars, acked, clock>>

ProcessEnds ==
  /\ open /\ open' = FALSE
  /\ vectorIndex' = [i \in Ids |-> None]
  /\ hashIndex' = [h \in Hashes |-> None]
  /\ OpReset
  /\ UNCHANGED <<dataVars, graphVars, acked, clock>>

Close ==
  /\ pc = "idle" /\ ProcessEnds /\ UNCHANGED faults

Crash ==
  /\ faults < MaxFaults /\ faults' = faults + 1 /\ ProcessEnds

(* Open rebuilds both indexes from their namespaces and loads the graph.   *)
RebuildVectorIndex == vectorIndex' = vectors

(* Faulty variant: the hash index is not rebuilt.                          *)
NoHashIndex == UNCHANGED hashIndex

RebuildHashIndex == hashIndex' = hashStore

(* The graph's copy in memory becomes that of the store again: nodes and   *)
(* edges stand for both, which never differ while the engine is open.      *)
LoadGraph == UNCHANGED <<nodes, edges>>

Open ==
  /\ ~open /\ open' = TRUE
  /\ RebuildVectorIndex /\ RebuildHashIndex /\ LoadGraph
  /\ UNCHANGED <<dataVars, entities, facts, relations, opVars, histVars>>

-----------------------------------------------------------------------------
Init ==
  /\ memories = [i \in Ids |-> None]
  /\ vectors = [i \in Ids |-> None]
  /\ hashStore = [h \in Hashes |-> None]
  /\ syncQueue = {} /\ traces = {}
  /\ entities = [e \in EntityIds |-> None]
  /\ facts = [f \in FactIds |-> None]
  /\ relations = {} /\ nodes = {} /\ edges = {}
  /\ open = FALSE
  /\ vectorIndex = [i \in Ids |-> None]
  /\ hashIndex = [h \in Hashes |-> None]
  /\ pc = "idle" /\ action = "none"
  /\ req = None /\ mem = None
  /\ batch = {} /\ todo = {} /\ item = None
  /\ acked = {} /\ clock = 0 /\ faults = 0

RememberStep ==
  \/ SaveMemory \/ PersistVector \/ AddVector \/ SetHash \/ PutHash
  \/ EnqueueSync \/ PersistTrace

SyncStep ==
  \/ SyncNext \/ SyncReturn
  \/ PersistEntity \/ AddEntityNode \/ PersistEntityRelation \/ AddEntityEdge
  \/ EntitiesDone \/ PersistFact \/ FactsDone
  \/ SearchRelated \/ RelateHit \/ PersistRelation \/ AddRelationEdge \/ RelatedDone
  \/ MarkSynced \/ Dequeue \/ PersistSyncTrace

Next ==
  \/ \E r \in Embedding : Remember(r)
  \/ \E limit \in Limits : Sync(limit)
  \/ RememberStep
  \/ SyncStep
  \/ StoreFails \/ Crash \/ Close \/ Open

Spec == Init /\ [][Next]_vars

(* An operation that has begun runs on; the program is started again after *)
(* it ended; and clients call sync again and again.                        *)
Fairness ==
  /\ WF_vars(RememberStep \/ SyncStep)
  /\ WF_vars(Open)
  /\ SF_vars(\E limit \in Limits : Sync(limit))

FairSpec == Spec /\ Fairness

-----------------------------------------------------------------------------
(* Safety. *)

MemoryEnds(r) == r.ends \cap Ids

(* Every record that names a memory names one that is stored: a vector, a  *)
(* hash, a queue entry, an entity's or a fact's source, a relation or an   *)
(* edge never outlives or precedes its memory, in the store or in the      *)
(* indexes, whenever the process dies (remember.go and sync.go write them  *)
(* one transaction at a time); and an edge joins two nodes of the graph,   *)
(* which load (graph.go) does not check.                                   *)
NoDanglingReference ==
  /\ \A i \in Ids : vectors[i] # None \/ vectorIndex[i] # None => i \in Stored
  /\ \A h \in Hashes : {hashStore[h], hashIndex[h]} \subseteq Stored \cup {None}
  /\ syncQueue \subseteq Stored
  /\ \A e \in EntityIds : entities[e] \in Stored \cup {None}
  /\ \A f \in FactIds : facts[f] \in Stored \cup {None}
  /\ \A r \in relations \cup edges : MemoryEnds(r) \subseteq Stored
  /\ nodes \cap Ids \subseteq Stored
  /\ \A r \in edges : r.ends \subseteq nodes

(* The brainfile never holds two vectors that the detector calls the same: *)
(* Remember, interrupted anywhere and repeated, does not get past its      *)
(* vector search (dedup.go) with a text whose like is already stored, even *)
(* while the index is being rebuilt from the store.                        *)
NoNearDuplicates ==
  \A i, j \in Ids :
    /\ i # j /\ vectors[i] # None /\ vectors[j] # None
    /\ vectors[i].scope = vectors[j].scope
    /\ vectors[i].kind = vectors[j].kind
    => <<vectors[i].text, vectors[j].text>> \notin Similar

(* What a caller was told stands: after Remember has answered with an id,  *)
(* that memory, its vector, the hash of the text sent and a trace are in   *)
(* the store, through every later Remember and Sync, failure and crash.    *)
AckedDurable ==
  \A a \in acked :
    /\ a.id \in Stored
    /\ vectors[a.id] # None
    /\ hashStore[Hash[a.req.text]] = a.id
    /\ \E act \in {"create_new", "reinforce"} : <<a.id, act>> \in traces

(* A memory in status synced has its whole enrichment in the store: its    *)
(* node, its entities with their nodes, relations and edges, and its       *)
(* facts.  A Sync that dies half way must leave it pending.                *)
SyncedIsEnriched ==
  \A i \in InStatus("synced") :
    /\ i \in nodes
    /\ \A e \in Entities[memories[i].text] :
         /\ entities[e] # None
         /\ e \in nodes
         /\ Associated(memories[i], e) \in relations \cap edges
    /\ \A f \in Facts[memories[i].text] : facts[f] # None

(* Two memories are never related twice, though each Sync of either one    *)
(* classifies the pair again, from its own side: the key of a relation     *)
(* sorts the two ids and the classifier is symmetric.                      *)
OneRelationPerPair ==
  \A r, s \in relations : r.ends = s.ends /\ r.ends \subseteq Ids => r = s

(* Sync takes one side of a pair at a time, in an order of its own, and    *)
(* may see the other before, after or long since its enrichment: once both *)
(* are synced, two memories of one scope that are similar enough are       *)
(* related, and joined in the graph.  (Up to SyncTopK memories; beyond     *)
(* that the search is cut.)                                                *)
RelatedPairsLinked ==
  Cardinality(Ids) <= SyncTopK =>
    \A i, j \in InStatus("synced") :
      /\ i # j /\ vectors[i] # None /\ vectors[j] # None
      /\ vectors[i].scope = vectors[j].scope
      /\ <<vectors[i].text, vectors[j].text>> \in Related
      => ClassifiedAs(memories[i], memories[j]) \in relations \cap edges

(* Between operations and as long as nothing has failed, sync_queue lists  *)
(* exactly the memories in status pending_sync.  (Nothing reads the queue; *)
(* a crash between the two writes of Remember or of Sync makes them        *)
(* differ, which is why Sync goes by the status.)                          *)
QueueMatchesStatus ==
  faults = 0 /\ pc = "idle" => syncQueue = InStatus("pending_sync")

(* As long as nothing has failed, one content is one memory, whatever the  *)
(* scopes and kinds it was sent under.  (A crash between the write of a    *)
(* memory and that of its vector leaves a second one behind.)              *)
UniqueContent ==
  faults = 0 =>
    \A i, j \in Stored : Hash[memories[i].text] = Hash[memories[j].text] => i = j

(* A content bound to a memory is never bound to another, nor released:    *)
(* neither by a Remember in another scope nor by one that follows a crash. *)
HashBindingsPermanent ==
  [][\A h \in Hashes : hashStore[h] # None => hashStore'[h] = hashStore[h]]_vars

(* The engine keeps the promises of MemoryBook.                            *)
BookStatus ==
  [i \in Ids |-> IF i \in Stored THEN memories[i].status ELSE "absent"]
BookAnswers == {<<Hash[a.req.text], a.id>> : a \in acked}

Book == INSTANCE MemoryBook WITH
  status <- BookStatus, binding <- hashStore, answers <- BookAnswers

KeepsTheBook == Book!Spec

-----------------------------------------------------------------------------
(* Liveness. *)

(* Every memory stored as pending is enriched in the end: no crash between *)
(* two writes hides it from Sync, and no memory makes Sync fail for ever.  *)
EventuallySynced ==
  \A i \in Ids : i \in InStatus("pending_sync") ~> i \in InStatus("synced")
=============================================================================
