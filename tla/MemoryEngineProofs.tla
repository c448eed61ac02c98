------------------------- MODULE MemoryEngineProofs -------------------------
(***************************************************************************)
(* Theorems about MemoryEngine and, in the second half, about Reading, for *)
(* all values of their constants.                                          *)
(*                                                                         *)
(* IInv says what the store and the indexes are in the middle of an        *)
(* operation; from it follow the properties of Remember and the refinement *)
(* of MemoryBook.  FullInv adds to it what a Sync has done so far of the   *)
(* memory it enriches; from it follow the properties of Sync.  LinksOf,    *)
(* about pairs, needs verdicts that are the same from either side, as      *)
(* those of the classifier are shown to be.                                *)
(*                                                                         *)
(* A read goes on beside the writer.  WriterInv is what readers rely on of *)
(* the writer: FullInv, and that relations stay within a scope and that a  *)
(* memory in the making is in no index yet.  ReaderInv says of each step   *)
(* of a read what it has loaded so far and still has to load, in words     *)
(* that stay true whatever the writer does next; from it follow the        *)
(* properties of the answer.  ReadLinkInv, about the pairs that are shown, *)
(* adds to the memories that are synced those that a reader holds as       *)
(* synced though they are pending again.                                   *)
(***************************************************************************)
EXTENDS Reading, RelationClassifier, FiniteSetTheorems, TLAPS

EntitySteps == {"entity", "entity_node", "entity_relation", "entity_edge"}
RelateSteps == {"relate", "relation", "edge"}

(* What the writer has at hand, by its place in the operation.             *)
OperationInv ==
  /\ ~open => pc = "idle"
  /\ pc \in RememberSteps =>
       /\ action \in {"create_new", "reinforce"}
       /\ action = "create_new" => EmbeddingOf(mem) = req
       /\ pc # "save" \/ action = "reinforce" => mem.id \in Stored
       /\ pc = "save" => mem.status = "pending_sync"
  /\ pc \in {"persist_vector", "add_vector"} => action = "create_new"
  /\ pc \in EntitySteps => todo \subseteq EntityIds
  /\ pc \in EntitySteps \ {"entity"} => item \in EntityIds
  /\ pc = "fact" => todo \subseteq FactIds
  /\ pc \in RelateSteps => todo \subseteq Ids
  /\ pc \in {"relation", "edge"} => item \in Stored

(* The memories a Sync has read are still as they were read.               *)
BatchInv ==
  /\ pc \notin SyncSteps => batch = {}
  /\ \A m \in batch : memories[m.id] = m /\ m.status = "pending_sync"
  /\ pc \in SyncSteps \ {"next"} =>
       /\ mem.id \in Stored
       /\ pc \notin {"dequeue", "sync_trace"} =>
            memories[mem.id] = mem /\ mem.status = "pending_sync"
       /\ \A m \in batch : m.id # mem.id

(* The indexes agree with the namespaces they are built from, but for the  *)
(* one entry being written.                                                *)
IndexInv ==
  /\ open => /\ \A i \in Ids : vectorIndex[i] = vectors[i] \/ (pc = "add_vector" /\ i = mem.id)
             /\ \A h \in Hashes : hashStore[h] \in {None, hashIndex[h]}
  /\ ~open => /\ \A i \in Ids : vectorIndex[i] = None
              /\ \A h \in Hashes : hashIndex[h] = None
  /\ pc = "add_vector" => vectors[mem.id] = EmbeddingOf(mem)

(* Nothing points to a memory that is not stored; a memory bound to a      *)
(* content has its vector.                                                 *)
VectorInv ==
  /\ \A i \in Ids : vectors[i] # None \/ vectorIndex[i] # None => i \in Stored
  /\ pc = "save" /\ action = "create_new" => mem.id \notin Stored
  /\ pc \in RememberSteps /\ action = "reinforce" => vectors[mem.id] # None
  /\ pc \in RememberSteps \ {"save", "persist_vector"} => vectors[mem.id] # None

HasVector(i) == i # None => i \in Stored /\ vectors[i] # None

HashInv ==
  /\ \A h \in Hashes : HasVector(hashStore[h]) /\ HasVector(hashIndex[h])
  /\ pc \in RememberSteps => hashIndex[Hash[req.text]] \in {None, mem.id}
  /\ pc = "put_hash" => hashIndex[Hash[req.text]] = mem.id
  /\ pc \in {"enqueue", "trace"} => hashStore[Hash[req.text]] = mem.id

(* While a new memory has no vector yet, the store holds none like it.     *)
FreshInv ==
  pc \in {"save", "persist_vector"} /\ action = "create_new" =>
    \A i \in Ids : vectors[i] # None =>
      ~ /\ vectors[i].scope = mem.scope
        /\ vectors[i].kind = mem.kind
        /\ <<mem.text, vectors[i].text>> \in Similar

GraphInv ==
  /\ syncQueue \subseteq Stored
  /\ \A e \in EntityIds : entities[e] \in Stored \cup {None}
  /\ \A f \in FactIds : facts[f] \in Stored \cup {None}
  /\ \A r \in relations \cup edges : MemoryEnds(r) \subseteq Stored
  /\ nodes \cap Ids \subseteq Stored
  /\ \A r \in edges : r.ends \subseteq nodes

IInv ==
  /\ TypeOK /\ OperationInv /\ BatchInv
  /\ IndexInv /\ VectorInv /\ HashInv
  /\ NoNearDuplicates /\ FreshInv
  /\ GraphInv /\ AckedDurable

-----------------------------------------------------------------------------
(* Facts about the constants and the initial state. *)

USE DEF vars, dataVars, graphVars, indexVars, opVars, histVars,
        RebuildVectorIndex, RebuildHashIndex, LoadGraph

(* What the extractor finds in a text.                                     *)
LEMMA ExtractorTypes ==
  /\ Entities \in [Texts -> SUBSET EntityIds]
  /\ Facts \in [Texts -> SUBSET FactIds]
BY ConstantsAssumption

(* Every request has a content hash.                                       *)
LEMMA HashType == \A r \in Embedding : Hash[r.text] \in Hashes
BY ConstantsAssumption DEF Embedding

(* Memories and entities have identifiers of their own.                    *)
LEMMA IdsApart == Ids \cap EntityIds = {}
BY ConstantsAssumption

(* The classifier gives every pair of texts a type.                        *)
LEMMA RelationTypeType == RelationType \in [Texts \X Texts -> Types]
BY ConstantsAssumption

(* A new brainfile, with no process, has the types of TypeOK.              *)
LEMMA TypesInit == Init => TypeOK
<1> SUFFICES ASSUME Init PROVE TypeOK
  OBVIOUS
<1>1. [i \in Ids |-> None] \in [Ids -> Memory \cup {None}]
  OBVIOUS
<1>2. clock \in Nat /\ faults \in Nat
  BY DEF Init
<1> QED
  BY <1>1, <1>2 DEF Init, TypeOK, RememberSteps, SyncSteps

(* The detector matched the memory of an exact hash, or else one of the    *)
(* vector search.                                                          *)
ReinforceBegins(r) ==
  /\ open /\ pc = "idle"
  /\ \E i \in Stored :
       /\ \/ hashIndex[Hash[r.text]] = i
          \/ hashIndex[Hash[r.text]] = None /\ i \in VectorMatches(r)
       /\ Begin("reinforce", r, Stamped(memories[i], "pending_sync"))

CreateBegins(r) ==
  /\ open /\ pc = "idle"
  /\ hashIndex[Hash[r.text]] = None
  /\ VectorMatches(r) = {}
  /\ \E i \in Ids \ Stored : Create(r, i)

(* A Remember that begins (remember.go, Remember) does one of three        *)
(* things: nothing, when the detector matched a memory that is not there;  *)
(* or it goes on to reinforce a match; or to create a new memory.          *)
LEMMA RememberCases ==
  ASSUME TypeOK, NEW r \in Embedding, Remember(r)
  PROVE  UNCHANGED vars \/ ReinforceBegins(r) \/ CreateBegins(r)
<1>1. hashIndex[Hash[r.text]] \in Ids \cup {None}
  BY ConstantsAssumption DEF TypeOK, Embedding
<1>2. VectorMatches(r) \subseteq Ids
  BY DEF VectorMatches
<1> QED
  BY <1>1, <1>2 DEF Remember, Reinforce, ReinforceBegins, CreateBegins, Stored

(* pendingMemories returns memories.                                       *)
LEMMA PendingType == TypeOK => Pending \subseteq Memory
BY DEF TypeOK, Pending, InStatus, Stored

(* Every step keeps the types.                                             *)
LEMMA TypesStep ==
  ASSUME TypeOK, OperationInv, Next
  PROVE  TypeOK'
<1>1. ASSUME NEW r \in Embedding, Remember(r) PROVE TypeOK'
  <2>1. CASE UNCHANGED vars
    BY <2>1 DEF TypeOK
  <2>2. CASE ReinforceBegins(r)
    <3>1. PICK i \in Stored : Begin("reinforce", r, Stamped(memories[i], "pending_sync"))
      BY <2>2 DEF ReinforceBegins
    <3>2. Stamped(memories[i], "pending_sync") \in Memory /\ clock + 1 \in Nat
      BY DEF TypeOK, Stored, Stamped, Memory, Statuses
    <3> QED
      BY <3>1, <3>2, NoneAssumption DEF Begin, TypeOK, RememberSteps, SyncSteps
  <2>3. CASE CreateBegins(r)
    <3>1. PICK i \in Ids \ Stored : Create(r, i)
      BY <2>3 DEF CreateBegins
    <3>2. clock + 1 \in Nat
      BY DEF TypeOK
    <3> QED
      BY <3>1, <3>2, NoneAssumption
      DEF Create, Begin, TypeOK, RememberSteps, SyncSteps, Memory, Statuses, Embedding
  <2> QED
    BY <1>1, <2>1, <2>2, <2>3, RememberCases
<1>2. ASSUME NEW limit \in Limits, Sync(limit) PROVE TypeOK'
  <2>1. batch' \subseteq Memory
    BY <1>2, PendingType DEF Sync, Batches
  <2> QED
    BY <1>2, <2>1 DEF Sync, TypeOK, RememberSteps, SyncSteps
<1>3. CASE SaveMemory
  BY <1>3, RelationTypeType, NoneAssumption DEF SaveMemory, Goto, TypeOK,
     OperationInv, RememberSteps, SyncSteps, EntitySteps, RelateSteps, Memory,
     Embedding, Relation, Statuses, Stored, EmbeddingOf
<1>4. CASE PersistVector
  BY <1>4, RelationTypeType, NoneAssumption DEF PersistVector, Goto,
     EmbeddingOf, TypeOK, OperationInv, RememberSteps, SyncSteps, EntitySteps,
     RelateSteps, Memory, Embedding, Relation, Statuses, Stored, EmbeddingOf
<1>5. CASE AddVector
  BY <1>5, RelationTypeType, NoneAssumption DEF AddVector, Goto, EmbeddingOf,
     TypeOK, OperationInv, RememberSteps, SyncSteps, EntitySteps, RelateSteps,
     Memory, Embedding, Relation, Statuses, Stored, EmbeddingOf
<1>6. CASE SetHash
  BY <1>6, RelationTypeType, NoneAssumption DEF SetHash, Goto, TypeOK,
     OperationInv, RememberSteps, SyncSteps, EntitySteps, RelateSteps, Memory,
     Embedding, Relation, Statuses, Stored, EmbeddingOf
<1>7. CASE PutHash
  BY <1>7, RelationTypeType, NoneAssumption DEF PutHash, Goto, TypeOK,
     OperationInv, RememberSteps, SyncSteps, EntitySteps, RelateSteps, Memory,
     Embedding, Relation, Statuses, Stored, EmbeddingOf
<1>8. CASE EnqueueSync
  BY <1>8, RelationTypeType, NoneAssumption DEF EnqueueSync, Goto, TypeOK,
     OperationInv, RememberSteps, SyncSteps, EntitySteps, RelateSteps, Memory,
     Embedding, Relation, Statuses, Stored, EmbeddingOf
<1>9. CASE PersistTrace
  BY <1>9, RelationTypeType, NoneAssumption DEF PersistTrace, OpReset, TypeOK,
     OperationInv, RememberSteps, SyncSteps, EntitySteps, RelateSteps, Memory,
     Embedding, Relation, Statuses, Stored, EmbeddingOf
<1>10. CASE SyncNext
  BY <1>10, RelationTypeType, NoneAssumption, ExtractorTypes DEF SyncNext,
     TypeOK, OperationInv, RememberSteps, SyncSteps, EntitySteps, RelateSteps,
     Memory, Embedding, Relation, Statuses, Stored, EmbeddingOf, AddNode
<1>11. CASE SyncReturn
  BY <1>11, RelationTypeType, NoneAssumption DEF SyncReturn, OpReset, TypeOK,
     OperationInv, RememberSteps, SyncSteps, EntitySteps, RelateSteps, Memory,
     Embedding, Relation, Statuses, Stored, EmbeddingOf
<1>12. CASE PersistEntity
  BY <1>12, RelationTypeType, NoneAssumption DEF PersistEntity, TypeOK,
     OperationInv, RememberSteps, SyncSteps, EntitySteps, RelateSteps, Memory,
     Embedding, Relation, Statuses, Stored, EmbeddingOf
<1>13. CASE AddEntityNode
  BY <1>13, RelationTypeType, NoneAssumption DEF AddEntityNode, Goto, TypeOK,
     OperationInv, RememberSteps, SyncSteps, EntitySteps, RelateSteps, Memory,
     Embedding, Relation, Statuses, Stored, EmbeddingOf, AddNode
<1>14. CASE PersistEntityRelation
  BY <1>14, RelationTypeType, NoneAssumption DEF PersistEntityRelation, Goto,
     Associated, RelationBetween, TypeOK, OperationInv, RememberSteps,
     SyncSteps, EntitySteps, RelateSteps, Memory, Embedding, Relation,
     Statuses, Stored, EmbeddingOf
<1>15. CASE AddEntityEdge
  BY <1>15, RelationTypeType, NoneAssumption DEF AddEntityEdge, AddEdge, Goto,
     OpReset, Associated, RelationBetween, TypeOK, OperationInv, RememberSteps,
     SyncSteps, EntitySteps, RelateSteps, Memory, Embedding, Relation,
     Statuses, Stored, EmbeddingOf
<1>16. CASE EntitiesDone
  BY <1>16, RelationTypeType, NoneAssumption, ExtractorTypes DEF EntitiesDone,
     TypeOK, OperationInv, RememberSteps, SyncSteps, EntitySteps, RelateSteps,
     Memory, Embedding, Relation, Statuses, Stored, EmbeddingOf
<1>17. CASE PersistFact
  BY <1>17, RelationTypeType, NoneAssumption DEF PersistFact, TypeOK,
     OperationInv, RememberSteps, SyncSteps, EntitySteps, RelateSteps, Memory,
     Embedding, Relation, Statuses, Stored, EmbeddingOf
<1>18. CASE FactsDone
  BY <1>18, RelationTypeType, NoneAssumption DEF FactsDone, Goto, TypeOK,
     OperationInv, RememberSteps, SyncSteps, EntitySteps, RelateSteps, Memory,
     Embedding, Relation, Statuses, Stored, EmbeddingOf
<1>19. CASE SearchRelated
  <2>1. todo' \subseteq Ids
    BY <1>19 DEF SearchRelated, SearchResults, RelatedCandidates
  <2> QED
    BY <1>19, <2>1 DEF SearchRelated, TypeOK, RememberSteps, SyncSteps
<1>20. CASE RelateHit
  BY <1>20, RelationTypeType, NoneAssumption DEF RelateHit, OpReset, TypeOK,
     OperationInv, RememberSteps, SyncSteps, EntitySteps, RelateSteps, Memory,
     Embedding, Relation, Statuses, Stored, EmbeddingOf, AddNode
<1>21. CASE PersistRelation
  BY <1>21, RelationTypeType, NoneAssumption DEF PersistRelation, Goto,
     ClassifiedAs, RelationBetween, TypeOK, OperationInv, RememberSteps,
     SyncSteps, EntitySteps, RelateSteps, Memory, Embedding, Relation,
     Statuses, Stored, EmbeddingOf
<1>22. CASE AddRelationEdge
  BY <1>22, RelationTypeType, NoneAssumption DEF AddRelationEdge, AddEdge,
     Goto, OpReset, ClassifiedAs, RelationBetween, TypeOK, OperationInv,
     RememberSteps, SyncSteps, EntitySteps, RelateSteps, Memory, Embedding,
     Relation, Statuses, Stored, EmbeddingOf
<1>23. CASE RelatedDone
  BY <1>23, RelationTypeType, NoneAssumption DEF RelatedDone, Goto, TypeOK,
     OperationInv, RememberSteps, SyncSteps, EntitySteps, RelateSteps, Memory,
     Embedding, Relation, Statuses, Stored, EmbeddingOf
<1>24. CASE MarkSynced
  <2>1. mem \in Memory
    BY <1>24 DEF MarkSynced, TypeOK, SyncSteps
  <2>2. Stamped(mem, "synced") \in Memory /\ Stamped(mem, "synced").id = mem.id
    BY <2>1 DEF TypeOK, Memory, Statuses, Stamped
  <2>3. memories' \in [Ids -> Memory \cup {None}]
    BY <1>24, <2>2 DEF MarkSynced, TypeOK
  <2>4. \A i \in Ids : memories'[i] # None => memories'[i].id = i
    BY <1>24, <2>1, <2>2 DEF MarkSynced, TypeOK, Memory
  <2>5. clock' \in Nat
    BY <1>24 DEF MarkSynced, TypeOK
  <2> QED
    BY <1>24, <2>3, <2>4, <2>5 DEF MarkSynced, Goto, TypeOK, RememberSteps, SyncSteps
<1>25. CASE Dequeue
  BY <1>25, RelationTypeType, NoneAssumption DEF Dequeue, Goto, TypeOK,
     OperationInv, RememberSteps, SyncSteps, EntitySteps, RelateSteps, Memory,
     Embedding, Relation, Statuses, Stored, EmbeddingOf
<1>26. CASE PersistSyncTrace
  BY <1>26, RelationTypeType, NoneAssumption DEF PersistSyncTrace, Goto,
     TypeOK, OperationInv, RememberSteps, SyncSteps, EntitySteps, RelateSteps,
     Memory, Embedding, Relation, Statuses, Stored, EmbeddingOf
<1>27. CASE StoreFails
  BY <1>27, RelationTypeType, NoneAssumption DEF StoreFails, OpReset, TypeOK,
     OperationInv, RememberSteps, SyncSteps, EntitySteps, RelateSteps, Memory,
     Embedding, Relation, Statuses, Stored, EmbeddingOf
<1>28. CASE Crash
  <2> SUFFICES ASSUME Crash PROVE TypeOK'
    BY <1>28
  <2>1. [i \in Ids |-> None] \in [Ids -> Embedding \cup {None}]
    OBVIOUS
  <2>2. [h \in Hashes |-> None] \in [Hashes -> Ids \cup {None}]
    OBVIOUS
  <2>3. faults' \in Nat
    BY <1>28 DEF Crash, TypeOK
  <2> QED
    BY <2>1, <2>2, <2>3 DEF Crash, ProcessEnds, OpReset, TypeOK, RememberSteps, SyncSteps
<1>29. CASE Close
  <2> SUFFICES ASSUME Close PROVE TypeOK'
    BY <1>29
  <2>1. [i \in Ids |-> None] \in [Ids -> Embedding \cup {None}]
    OBVIOUS
  <2>2. [h \in Hashes |-> None] \in [Hashes -> Ids \cup {None}]
    OBVIOUS
  <2> QED
    BY <2>1, <2>2 DEF Close, ProcessEnds, OpReset, TypeOK, RememberSteps, SyncSteps
<1>30. CASE Open
  BY <1>30, RelationTypeType, NoneAssumption DEF Open, TypeOK, OperationInv,
     RememberSteps, SyncSteps, EntitySteps, RelateSteps, Memory, Embedding,
     Relation, Statuses, Stored, EmbeddingOf
<1> QED
  BY <1>1, <1>2, <1>3, <1>4, <1>5, <1>6, <1>7, <1>8, <1>9, <1>10, <1>11, <1>12,
     <1>13, <1>14, <1>15, <1>16, <1>17, <1>18, <1>19, <1>20, <1>21, <1>22,
     <1>23, <1>24, <1>25, <1>26, <1>27, <1>28, <1>29, <1>30 DEF Next,
     RememberStep, SyncStep

-----------------------------------------------------------------------------
(* Frames. *)

(* No step removes a memory: neither Remember nor Sync deletes one, and    *)
(* both write records, never an absence of one.                            *)
LEMMA StoredGrows ==
  ASSUME TypeOK, OperationInv, Next
  PROVE  Stored \subseteq Stored'
<1>1. CASE memories' = memories
  BY <1>1 DEF Stored
<1>2. CASE SaveMemory
  BY <1>2, NoneAssumption DEF SaveMemory, TypeOK, Stored, RememberSteps
<1>3. CASE MarkSynced
  <2>1. Stamped(mem, "synced") \in Memory
    BY <1>3 DEF MarkSynced, TypeOK, SyncSteps, Stamped, Memory, Statuses
  <2> QED
    BY <1>3, <2>1, NoneAssumption DEF MarkSynced, TypeOK, Stored
<1> QED
  BY <1>1, <1>2, <1>3, RememberCases DEF Next, RememberStep, SyncStep, Sync,
     ReinforceBegins, CreateBegins, Create, Begin, PersistVector, Goto,
     EmbeddingOf, AddVector, SetHash, PutHash, EnqueueSync, PersistTrace,
     OpReset, SyncNext, SyncReturn, PersistEntity, AddEntityNode,
     PersistEntityRelation, Associated, RelationBetween, AddEntityEdge,
     AddEdge, EntitiesDone, PersistFact, FactsDone, SearchRelated,
     SearchResults, RelatedCandidates, RelateHit, PersistRelation,
     ClassifiedAs, AddRelationEdge, RelatedDone, Dequeue, PersistSyncTrace,
     StoreFails, Crash, ProcessEnds, Close, Open, AddNode

(* A step of Sync leaves the vectors, the hashes, both indexes and the     *)
(* answers alone.                                                          *)
LEMMA SyncFrame ==
  ASSUME SyncStep
  PROVE  /\ UNCHANGED <<vectors, hashStore, indexVars, acked>>
         /\ traces \subseteq traces'
         /\ pc \in SyncSteps /\ pc' \in SyncSteps \cup {"idle"}
BY DEF SyncStep, SyncNext, SyncReturn, OpReset, PersistEntity, AddEntityNode, Goto,
   PersistEntityRelation, Associated, RelationBetween, AddEntityEdge, AddEdge,
   EntitiesDone, PersistFact, FactsDone, SearchRelated, SearchResults,
   RelatedCandidates, RelateHit, PersistRelation, ClassifiedAs, AddRelationEdge,
   RelatedDone, MarkSynced, Dequeue, PersistSyncTrace, SyncSteps, AddNode

(* A step of Remember leaves the graph alone.                              *)
LEMMA RememberFrame ==
  ASSUME RememberStep
  PROVE  UNCHANGED graphVars /\ pc \in RememberSteps
BY DEF RememberStep, SaveMemory, Goto, PersistVector, EmbeddingOf, AddVector, SetHash,
   PutHash, EnqueueSync, PersistTrace, OpReset, RememberSteps

(* What a Remember that has begun has at hand.                             *)
LEMMA ReinforcedMemory ==
  ASSUME TypeOK, NEW r \in Embedding, ReinforceBegins(r)
  PROVE  /\ UNCHANGED <<dataVars, graphVars, indexVars, batch, acked>>
         /\ open /\ pc = "idle" /\ pc' = "save" /\ action' = "reinforce" /\ req' = r
         /\ mem'.id \in Stored /\ mem'.status = "pending_sync"
         /\ \/ hashIndex[Hash[r.text]] = mem'.id
            \/ hashIndex[Hash[r.text]] = None /\ mem'.id \in VectorMatches(r)
<1>1. PICK i \in Stored :
        /\ \/ hashIndex[Hash[r.text]] = i
           \/ hashIndex[Hash[r.text]] = None /\ i \in VectorMatches(r)
        /\ Begin("reinforce", r, Stamped(memories[i], "pending_sync"))
  BY DEF ReinforceBegins
<1>2. mem'.id = i /\ mem'.status = "pending_sync"
  BY <1>1 DEF TypeOK, Stored, Begin, Stamped
<1> QED
  BY <1>1, <1>2 DEF ReinforceBegins, Begin

(* The same of createNewMemory: the identifier is unused, and neither the  *)
(* hash nor a vector matched.                                              *)
LEMMA CreatedMemory ==
  ASSUME TypeOK, NEW r \in Embedding, CreateBegins(r)
  PROVE  /\ UNCHANGED <<dataVars, graphVars, indexVars, batch, acked>>
         /\ open /\ pc = "idle" /\ pc' = "save" /\ action' = "create_new" /\ req' = r
         /\ mem'.id \in Ids \ Stored /\ mem'.status = "pending_sync"
         /\ EmbeddingOf(mem') = r
         /\ hashIndex[Hash[r.text]] = None /\ VectorMatches(r) = {}
<1>1. PICK i \in Ids \ Stored : Create(r, i)
  BY DEF CreateBegins
<1>2. EmbeddingOf(mem') = r /\ mem'.id = i /\ mem'.status = "pending_sync"
  BY <1>1 DEF Create, Begin, Embedding, EmbeddingOf
<1> QED
  BY <1>1, <1>2 DEF CreateBegins, Create, Begin

-----------------------------------------------------------------------------
(* The operation in progress. *)

(* Every step keeps OperationInv.                                          *)
LEMMA OperationStep ==
  ASSUME TypeOK, OperationInv, Next
  PROVE  OperationInv'
<1>1. ASSUME NEW r \in Embedding, Remember(r) PROVE OperationInv'
  <2>1. CASE UNCHANGED vars
    BY <2>1 DEF OperationInv, Stored, EmbeddingOf
  <2>2. CASE ReinforceBegins(r)
    BY <2>2, ReinforcedMemory DEF OperationInv, Stored, RememberSteps, SyncSteps,
       EntitySteps, RelateSteps
  <2>3. CASE CreateBegins(r)
    BY <2>3, CreatedMemory DEF OperationInv, Stored, EmbeddingOf, RememberSteps,
       SyncSteps, EntitySteps, RelateSteps
  <2> QED
    BY <1>1, <2>1, <2>2, <2>3, RememberCases
<1>2. ASSUME NEW limit \in Limits, Sync(limit) PROVE OperationInv'
  BY <1>2, StoredGrows DEF Sync, Batches, TypeOK, OperationInv, Stored, Memory,
     RememberSteps, SyncSteps, EntitySteps, RelateSteps
<1>3. CASE SaveMemory
  BY <1>3, StoredGrows, NoneAssumption DEF SaveMemory, Goto, TypeOK,
     OperationInv, Stored, Memory, RememberSteps, SyncSteps, EntitySteps,
     RelateSteps
<1>4. CASE PersistVector
  BY <1>4, StoredGrows DEF PersistVector, Goto, EmbeddingOf, TypeOK,
     OperationInv, Stored, Memory, RememberSteps, SyncSteps, EntitySteps,
     RelateSteps
<1>5. CASE AddVector
  BY <1>5, StoredGrows DEF AddVector, Goto, EmbeddingOf, TypeOK, OperationInv,
     Stored, Memory, RememberSteps, SyncSteps, EntitySteps, RelateSteps
<1>6. CASE SetHash
  BY <1>6, StoredGrows DEF SetHash, Goto, TypeOK, OperationInv, Stored, Memory,
     RememberSteps, SyncSteps, EntitySteps, RelateSteps
<1>7. CASE PutHash
  BY <1>7, StoredGrows DEF PutHash, Goto, TypeOK, OperationInv, Stored, Memory,
     RememberSteps, SyncSteps, EntitySteps, RelateSteps
<1>8. CASE EnqueueSync
  BY <1>8, StoredGrows DEF EnqueueSync, Goto, TypeOK, OperationInv, Stored,
     Memory, RememberSteps, SyncSteps, EntitySteps, RelateSteps
<1>9. CASE PersistTrace
  BY <1>9, StoredGrows DEF PersistTrace, OpReset, TypeOK, OperationInv, Stored,
     Memory, RememberSteps, SyncSteps, EntitySteps, RelateSteps
<1>10. CASE SyncNext
  BY <1>10, StoredGrows, ExtractorTypes DEF SyncNext, TypeOK, OperationInv,
     Stored, Memory, RememberSteps, SyncSteps, EntitySteps, RelateSteps, AddNode
<1>11. CASE SyncReturn
  BY <1>11, StoredGrows DEF SyncReturn, OpReset, TypeOK, OperationInv, Stored,
     Memory, RememberSteps, SyncSteps, EntitySteps, RelateSteps
<1>12. CASE PersistEntity
  BY <1>12, StoredGrows DEF PersistEntity, TypeOK, OperationInv, Stored,
     Memory, RememberSteps, SyncSteps, EntitySteps, RelateSteps
<1>13. CASE AddEntityNode
  BY <1>13, StoredGrows DEF AddEntityNode, Goto, TypeOK, OperationInv, Stored,
     Memory, RememberSteps, SyncSteps, EntitySteps, RelateSteps, AddNode
<1>14. CASE PersistEntityRelation
  BY <1>14, StoredGrows DEF PersistEntityRelation, Goto, Associated,
     RelationBetween, TypeOK, OperationInv, Stored, Memory, RememberSteps,
     SyncSteps, EntitySteps, RelateSteps
<1>15. CASE AddEntityEdge
  BY <1>15, StoredGrows DEF AddEntityEdge, AddEdge, Goto, OpReset, Associated,
     RelationBetween, TypeOK, OperationInv, Stored, Memory, RememberSteps,
     SyncSteps, EntitySteps, RelateSteps
<1>16. CASE EntitiesDone
  BY <1>16, StoredGrows, ExtractorTypes DEF EntitiesDone, TypeOK, OperationInv,
     Stored, Memory, RememberSteps, SyncSteps, EntitySteps, RelateSteps
<1>17. CASE PersistFact
  BY <1>17, StoredGrows DEF PersistFact, TypeOK, OperationInv, Stored, Memory,
     RememberSteps, SyncSteps, EntitySteps, RelateSteps
<1>18. CASE FactsDone
  BY <1>18, StoredGrows DEF FactsDone, Goto, TypeOK, OperationInv, Stored,
     Memory, RememberSteps, SyncSteps, EntitySteps, RelateSteps
<1>19. CASE SearchRelated
  BY <1>19, StoredGrows DEF SearchRelated, SearchResults, RelatedCandidates,
     TypeOK, OperationInv, Stored, Memory, RememberSteps, SyncSteps,
     EntitySteps, RelateSteps
<1>20. CASE RelateHit
  BY <1>20, StoredGrows DEF RelateHit, OpReset, TypeOK, OperationInv, Stored,
     Memory, RememberSteps, SyncSteps, EntitySteps, RelateSteps, AddNode
<1>21. CASE PersistRelation
  BY <1>21, StoredGrows DEF PersistRelation, Goto, ClassifiedAs,
     RelationBetween, TypeOK, OperationInv, Stored, Memory, RememberSteps,
     SyncSteps, EntitySteps, RelateSteps
<1>22. CASE AddRelationEdge
  BY <1>22, StoredGrows DEF AddRelationEdge, AddEdge, Goto, OpReset,
     ClassifiedAs, RelationBetween, TypeOK, OperationInv, Stored, Memory,
     RememberSteps, SyncSteps, EntitySteps, RelateSteps
<1>23. CASE RelatedDone
  BY <1>23, StoredGrows DEF RelatedDone, Goto, TypeOK, OperationInv, Stored,
     Memory, RememberSteps, SyncSteps, EntitySteps, RelateSteps
<1>24. CASE MarkSynced
  BY <1>24, StoredGrows DEF MarkSynced, Goto, TypeOK, OperationInv, Stored,
     Memory, RememberSteps, SyncSteps, EntitySteps, RelateSteps
<1>25. CASE Dequeue
  BY <1>25, StoredGrows DEF Dequeue, Goto, TypeOK, OperationInv, Stored,
     Memory, RememberSteps, SyncSteps, EntitySteps, RelateSteps
<1>26. CASE PersistSyncTrace
  BY <1>26, StoredGrows DEF PersistSyncTrace, Goto, TypeOK, OperationInv,
     Stored, Memory, RememberSteps, SyncSteps, EntitySteps, RelateSteps
<1>27. CASE StoreFails
  BY <1>27, StoredGrows DEF StoreFails, OpReset, TypeOK, OperationInv, Stored,
     Memory, RememberSteps, SyncSteps, EntitySteps, RelateSteps
<1>28. CASE Crash
  BY <1>28, StoredGrows DEF Crash, ProcessEnds, OpReset, TypeOK, OperationInv,
     Stored, Memory, RememberSteps, SyncSteps, EntitySteps, RelateSteps
<1>29. CASE Close
  BY <1>29, StoredGrows DEF Close, ProcessEnds, OpReset, TypeOK, OperationInv,
     Stored, Memory, RememberSteps, SyncSteps, EntitySteps, RelateSteps
<1>30. CASE Open
  BY <1>30, StoredGrows DEF Open, TypeOK, OperationInv, Stored, Memory,
     RememberSteps, SyncSteps, EntitySteps, RelateSteps
<1> QED
  BY <1>1, <1>2, <1>3, <1>4, <1>5, <1>6, <1>7, <1>8, <1>9, <1>10, <1>11, <1>12,
     <1>13, <1>14, <1>15, <1>16, <1>17, <1>18, <1>19, <1>20, <1>21, <1>22,
     <1>23, <1>24, <1>25, <1>26, <1>27, <1>28, <1>29, <1>30 DEF Next,
     RememberStep, SyncStep

(* Every step keeps BatchInv: the engine has one writer, so that the       *)
(* copies a Sync works on do not go stale.                                 *)
LEMMA BatchStep ==
  ASSUME TypeOK, OperationInv, BatchInv, Next
  PROVE  BatchInv'
<1>1. ASSUME NEW r \in Embedding, Remember(r) PROVE BatchInv'
  <2>1. CASE UNCHANGED vars
    BY <2>1 DEF BatchInv, Stored
  <2>2. CASE ReinforceBegins(r)
    BY <2>2, ReinforcedMemory DEF BatchInv, RememberSteps, SyncSteps,
       EntitySteps, RelateSteps
  <2>3. CASE CreateBegins(r)
    BY <2>3, CreatedMemory DEF BatchInv, RememberSteps, SyncSteps, EntitySteps,
       RelateSteps
  <2> QED
    BY <1>1, <2>1, <2>2, <2>3, RememberCases
<1>2. ASSUME NEW limit \in Limits, Sync(limit) PROVE BatchInv'
  <2>1. batch' \subseteq Pending
    BY <1>2 DEF Sync, Batches
  <2> QED
    BY <1>2, <2>1 DEF Sync, BatchInv, Pending, InStatus, Stored, TypeOK, SyncSteps
<1>3. CASE SaveMemory
  BY <1>3 DEF SaveMemory, Goto, TypeOK, BatchInv, Stored, RememberSteps,
     SyncSteps, EntitySteps, RelateSteps
<1>4. CASE PersistVector
  BY <1>4 DEF PersistVector, Goto, EmbeddingOf, TypeOK, BatchInv, Stored,
     RememberSteps, SyncSteps, EntitySteps, RelateSteps
<1>5. CASE AddVector
  BY <1>5 DEF AddVector, Goto, EmbeddingOf, TypeOK, BatchInv, Stored,
     RememberSteps, SyncSteps, EntitySteps, RelateSteps
<1>6. CASE SetHash
  BY <1>6 DEF SetHash, Goto, TypeOK, BatchInv, Stored, RememberSteps,
     SyncSteps, EntitySteps, RelateSteps
<1>7. CASE PutHash
  BY <1>7 DEF PutHash, Goto, TypeOK, BatchInv, Stored, RememberSteps,
     SyncSteps, EntitySteps, RelateSteps
<1>8. CASE EnqueueSync
  BY <1>8 DEF EnqueueSync, Goto, TypeOK, BatchInv, Stored, RememberSteps,
     SyncSteps, EntitySteps, RelateSteps
<1>9. CASE PersistTrace
  BY <1>9 DEF PersistTrace, OpReset, TypeOK, BatchInv, Stored, RememberSteps,
     SyncSteps, EntitySteps, RelateSteps
<1>10. CASE SyncNext
  BY <1>10, NoneAssumption DEF SyncNext, Memory, TypeOK, BatchInv, Stored,
     RememberSteps, SyncSteps, EntitySteps, RelateSteps, AddNode
<1>11. CASE SyncReturn
  BY <1>11 DEF SyncReturn, OpReset, TypeOK, BatchInv, Stored, RememberSteps,
     SyncSteps, EntitySteps, RelateSteps
<1>12. CASE PersistEntity
  BY <1>12 DEF PersistEntity, TypeOK, BatchInv, Stored, RememberSteps,
     SyncSteps, EntitySteps, RelateSteps
<1>13. CASE AddEntityNode
  BY <1>13 DEF AddEntityNode, Goto, TypeOK, BatchInv, Stored, RememberSteps,
     SyncSteps, EntitySteps, RelateSteps, AddNode
<1>14. CASE PersistEntityRelation
  BY <1>14 DEF PersistEntityRelation, Goto, Associated, RelationBetween,
     TypeOK, BatchInv, Stored, RememberSteps, SyncSteps, EntitySteps,
     RelateSteps
<1>15. CASE AddEntityEdge
  BY <1>15 DEF AddEntityEdge, AddEdge, Goto, OpReset, Associated,
     RelationBetween, TypeOK, BatchInv, Stored, RememberSteps, SyncSteps,
     EntitySteps, RelateSteps
<1>16. CASE EntitiesDone
  BY <1>16 DEF EntitiesDone, TypeOK, BatchInv, Stored, RememberSteps,
     SyncSteps, EntitySteps, RelateSteps
<1>17. CASE PersistFact
  BY <1>17 DEF PersistFact, TypeOK, BatchInv, Stored, RememberSteps, SyncSteps,
     EntitySteps, RelateSteps
<1>18. CASE FactsDone
  BY <1>18 DEF FactsDone, Goto, TypeOK, BatchInv, Stored, RememberSteps,
     SyncSteps, EntitySteps, RelateSteps
<1>19. CASE SearchRelated
  BY <1>19 DEF SearchRelated, SearchResults, RelatedCandidates, TypeOK,
     BatchInv, Stored, RememberSteps, SyncSteps, EntitySteps, RelateSteps
<1>20. CASE RelateHit
  BY <1>20 DEF RelateHit, OpReset, TypeOK, BatchInv, Stored, RememberSteps,
     SyncSteps, EntitySteps, RelateSteps, AddNode
<1>21. CASE PersistRelation
  BY <1>21 DEF PersistRelation, Goto, ClassifiedAs, RelationBetween, TypeOK,
     BatchInv, Stored, RememberSteps, SyncSteps, EntitySteps, RelateSteps
<1>22. CASE AddRelationEdge
  BY <1>22 DEF AddRelationEdge, AddEdge, Goto, OpReset, ClassifiedAs,
     RelationBetween, TypeOK, BatchInv, Stored, RememberSteps, SyncSteps,
     EntitySteps, RelateSteps
<1>23. CASE RelatedDone
  BY <1>23 DEF RelatedDone, Goto, TypeOK, BatchInv, Stored, RememberSteps,
     SyncSteps, EntitySteps, RelateSteps
<1>24. CASE MarkSynced
  <2>1. mem \in Memory /\ mem.id \in Stored /\ \A m \in batch : m.id # mem.id
    BY <1>24 DEF MarkSynced, TypeOK, BatchInv, SyncSteps
  <2>2. mem.id \in Stored' /\ \A m \in batch : memories'[m.id] = memories[m.id]
    BY <1>24, <2>1, StoredGrows DEF MarkSynced, TypeOK, Memory
  <2> QED
    BY <1>24, <2>1, <2>2 DEF MarkSynced, Goto, BatchInv, SyncSteps
<1>25. CASE Dequeue
  BY <1>25 DEF Dequeue, Goto, TypeOK, BatchInv, Stored, RememberSteps,
     SyncSteps, EntitySteps, RelateSteps
<1>26. CASE PersistSyncTrace
  BY <1>26 DEF PersistSyncTrace, Goto, TypeOK, BatchInv, Stored, RememberSteps,
     SyncSteps, EntitySteps, RelateSteps
<1>27. CASE StoreFails
  BY <1>27 DEF StoreFails, OpReset, TypeOK, BatchInv, Stored, RememberSteps,
     SyncSteps, EntitySteps, RelateSteps
<1>28. CASE Crash
  BY <1>28 DEF Crash, ProcessEnds, OpReset, TypeOK, BatchInv, Stored,
     RememberSteps, SyncSteps, EntitySteps, RelateSteps
<1>29. CASE Close
  BY <1>29 DEF Close, ProcessEnds, OpReset, TypeOK, BatchInv, Stored,
     RememberSteps, SyncSteps, EntitySteps, RelateSteps
<1>30. CASE Open
  BY <1>30 DEF Open, TypeOK, BatchInv, Stored, RememberSteps, SyncSteps,
     EntitySteps, RelateSteps
<1> QED
  BY <1>1, <1>2, <1>3, <1>4, <1>5, <1>6, <1>7, <1>8, <1>9, <1>10, <1>11, <1>12,
     <1>13, <1>14, <1>15, <1>16, <1>17, <1>18, <1>19, <1>20, <1>21, <1>22,
     <1>23, <1>24, <1>25, <1>26, <1>27, <1>28, <1>29, <1>30 DEF Next,
     RememberStep, SyncStep

-----------------------------------------------------------------------------
(* The indexes and what they point to. *)

(* Every step keeps IndexInv, Open because it rebuilds both indexes.       *)
LEMMA IndexStep ==
  ASSUME TypeOK, OperationInv, IndexInv, HashInv, Next
  PROVE  IndexInv'
<1>1. ASSUME NEW r \in Embedding, Remember(r) PROVE IndexInv'
  <2>1. CASE UNCHANGED vars
    BY <2>1 DEF IndexInv, TypeOK, EmbeddingOf
  <2>2. CASE ReinforceBegins(r)
    BY <2>2, ReinforcedMemory DEF IndexInv, TypeOK
  <2>3. CASE CreateBegins(r)
    BY <2>3, CreatedMemory DEF IndexInv, TypeOK
  <2> QED
    BY <1>1, <2>1, <2>2, <2>3, RememberCases
<1>2. ASSUME NEW limit \in Limits, Sync(limit) PROVE IndexInv'
  BY <1>2 DEF Sync, Batches, TypeOK, OperationInv, IndexInv, RememberSteps
<1>3. CASE SaveMemory
  BY <1>3 DEF SaveMemory, Goto, TypeOK, OperationInv, IndexInv, RememberSteps
<1>4. CASE PersistVector
  BY <1>4, NoneAssumption DEF PersistVector, Goto, EmbeddingOf, Memory, TypeOK,
     OperationInv, IndexInv, RememberSteps
<1>5. CASE AddVector
  BY <1>5 DEF AddVector, Goto, EmbeddingOf, TypeOK, OperationInv, IndexInv,
     RememberSteps
<1>6. CASE SetHash
  BY <1>6, HashType DEF SetHash, Goto, HashInv, TypeOK, OperationInv, IndexInv,
     RememberSteps
<1>7. CASE PutHash
  BY <1>7, HashType DEF PutHash, Goto, HashInv, TypeOK, OperationInv, IndexInv,
     RememberSteps
<1>8. CASE EnqueueSync
  BY <1>8 DEF EnqueueSync, Goto, TypeOK, OperationInv, IndexInv, RememberSteps
<1>9. CASE PersistTrace
  BY <1>9 DEF PersistTrace, OpReset, TypeOK, OperationInv, IndexInv,
     RememberSteps
<1>10. CASE SyncStep
  BY <1>10, SyncFrame DEF IndexInv, SyncSteps
<1>11. CASE StoreFails
  BY <1>11 DEF StoreFails, OpReset, UsesStore, TypeOK, OperationInv, IndexInv,
     RememberSteps
<1>12. CASE Crash
  BY <1>12 DEF Crash, ProcessEnds, OpReset, TypeOK, OperationInv, IndexInv,
     RememberSteps
<1>13. CASE Close
  BY <1>13 DEF Close, ProcessEnds, OpReset, TypeOK, OperationInv, IndexInv,
     RememberSteps
<1>14. CASE Open
  BY <1>14 DEF Open, TypeOK, OperationInv, IndexInv, RememberSteps
<1> QED
  BY <1>1, <1>2, <1>3, <1>4, <1>5, <1>6, <1>7, <1>8, <1>9, <1>10, <1>11, <1>12,
     <1>13, <1>14 DEF Next, RememberStep

(* Every step keeps VectorInv.                                             *)
LEMMA VectorStep ==
  ASSUME TypeOK, OperationInv, IndexInv, VectorInv, HashInv, Next
  PROVE  VectorInv'
<1>1. ASSUME NEW r \in Embedding, Remember(r) PROVE VectorInv'
  <2>1. CASE UNCHANGED vars
    BY <2>1 DEF VectorInv, Stored
  <2>2. CASE ReinforceBegins(r)
    <3>1. vectors[mem'.id] # None
      <4>1. CASE hashIndex[Hash[r.text]] = mem'.id
        BY <4>1, <2>2, ReinforcedMemory, HashType, NoneAssumption DEF HashInv, HasVector, Stored
      <4>2. CASE mem'.id \in VectorMatches(r)
        BY <4>2, <2>2, ReinforcedMemory DEF VectorMatches, IndexInv
      <4> QED
        BY <4>1, <4>2, <2>2, ReinforcedMemory
    <3> QED
      BY <3>1, <2>2, ReinforcedMemory DEF VectorInv, Stored, RememberSteps
  <2>3. CASE CreateBegins(r)
    BY <2>3, CreatedMemory DEF VectorInv, Stored, RememberSteps
  <2> QED
    BY <1>1, <2>1, <2>2, <2>3, RememberCases
<1>2. ASSUME NEW limit \in Limits, Sync(limit) PROVE VectorInv'
  BY <1>2, StoredGrows, NoneAssumption DEF Sync, Batches, TypeOK, OperationInv,
     IndexInv, VectorInv, RememberSteps, Stored, Memory
<1>3. CASE SaveMemory
  BY <1>3, StoredGrows, NoneAssumption DEF SaveMemory, Goto, TypeOK,
     OperationInv, IndexInv, VectorInv, RememberSteps, Stored, Memory
<1>4. CASE PersistVector
  BY <1>4, StoredGrows, NoneAssumption DEF PersistVector, Goto, EmbeddingOf,
     TypeOK, OperationInv, IndexInv, VectorInv, RememberSteps, Stored, Memory
<1>5. CASE AddVector
  BY <1>5, StoredGrows, NoneAssumption DEF AddVector, Goto, EmbeddingOf,
     TypeOK, OperationInv, IndexInv, VectorInv, RememberSteps, Stored, Memory
<1>6. CASE SetHash
  BY <1>6, StoredGrows, NoneAssumption DEF SetHash, Goto, TypeOK, OperationInv,
     IndexInv, VectorInv, RememberSteps, Stored, Memory
<1>7. CASE PutHash
  BY <1>7, StoredGrows, NoneAssumption DEF PutHash, Goto, TypeOK, OperationInv,
     IndexInv, VectorInv, RememberSteps, Stored, Memory
<1>8. CASE EnqueueSync
  BY <1>8, StoredGrows, NoneAssumption DEF EnqueueSync, Goto, TypeOK,
     OperationInv, IndexInv, VectorInv, RememberSteps, Stored, Memory
<1>9. CASE PersistTrace
  BY <1>9, StoredGrows, NoneAssumption DEF PersistTrace, OpReset, TypeOK,
     OperationInv, IndexInv, VectorInv, RememberSteps, Stored, Memory
<1>10. CASE SyncStep
  BY <1>10, SyncFrame, StoredGrows DEF VectorInv, IndexInv, RememberSteps, SyncSteps
<1>11. CASE StoreFails
  BY <1>11, StoredGrows, NoneAssumption DEF StoreFails, OpReset, TypeOK,
     OperationInv, IndexInv, VectorInv, RememberSteps, Stored, Memory
<1>12. CASE Crash
  BY <1>12, StoredGrows, NoneAssumption DEF Crash, ProcessEnds, OpReset,
     TypeOK, OperationInv, IndexInv, VectorInv, RememberSteps, Stored, Memory
<1>13. CASE Close
  BY <1>13, StoredGrows, NoneAssumption DEF Close, ProcessEnds, OpReset,
     TypeOK, OperationInv, IndexInv, VectorInv, RememberSteps, Stored, Memory
<1>14. CASE Open
  BY <1>14, StoredGrows, NoneAssumption DEF Open, TypeOK, OperationInv,
     IndexInv, VectorInv, RememberSteps, Stored, Memory
<1> QED
  BY <1>1, <1>2, <1>3, <1>4, <1>5, <1>6, <1>7, <1>8, <1>9, <1>10, <1>11, <1>12,
     <1>13, <1>14 DEF Next, RememberStep

(* Every step keeps HashInv.                                               *)
LEMMA HashStep ==
  ASSUME TypeOK, OperationInv, IndexInv, VectorInv, HashInv, Next
  PROVE  HashInv'
<1>1. ASSUME NEW r \in Embedding, Remember(r) PROVE HashInv'
  <2>1. CASE UNCHANGED vars
    BY <2>1 DEF HashInv, HasVector, Stored
  <2>2. CASE ReinforceBegins(r)
    BY <2>2, ReinforcedMemory DEF HashInv, HasVector, Stored, RememberSteps
  <2>3. CASE CreateBegins(r)
    BY <2>3, CreatedMemory DEF HashInv, HasVector, Stored, RememberSteps
  <2> QED
    BY <1>1, <2>1, <2>2, <2>3, RememberCases
<1>2. ASSUME NEW limit \in Limits, Sync(limit) PROVE HashInv'
  BY <1>2, StoredGrows, NoneAssumption DEF Sync, Batches, TypeOK, OperationInv,
     HashInv, HasVector, RememberSteps, Embedding
<1>3. CASE SaveMemory
  BY <1>3, StoredGrows, NoneAssumption DEF SaveMemory, Goto, TypeOK,
     OperationInv, HashInv, HasVector, RememberSteps, Embedding
<1>4. CASE PersistVector
  BY <1>4, StoredGrows, NoneAssumption DEF PersistVector, Goto, EmbeddingOf,
     TypeOK, OperationInv, HashInv, HasVector, RememberSteps, Embedding
<1>5. CASE AddVector
  BY <1>5, StoredGrows, NoneAssumption DEF AddVector, Goto, EmbeddingOf,
     TypeOK, OperationInv, HashInv, HasVector, RememberSteps, Embedding
<1>6. CASE SetHash
  <2>1. /\ mem.id \in Stored /\ vectors[mem.id] # None
       /\ UNCHANGED <<memories, vectors, hashStore, action, req, mem>> /\ pc' = "put_hash"
       /\ hashIndex[Hash[req.text]] \in {None, mem.id}
    BY <1>6 DEF SetHash, Goto, OperationInv, VectorInv, HashInv, RememberSteps
  <2>2. Hash[req.text] \in Hashes
    BY <1>6, HashType DEF SetHash, TypeOK, RememberSteps
  <2>3. /\ hashIndex'[Hash[req.text]] = mem.id
       /\ \A h \in Hashes : hashIndex'[h] \in {hashIndex[h], mem.id}
    BY <1>6, <2>2 DEF SetHash, TypeOK
  <2> QED
    BY <1>6, <2>1, <2>2, <2>3 DEF SetHash, HashInv, HasVector, Stored, RememberSteps
<1>7. CASE PutHash
  <2>1. /\ mem.id \in Stored /\ vectors[mem.id] # None
       /\ UNCHANGED <<memories, vectors, hashIndex, action, req, mem>> /\ pc' = "enqueue"
       /\ hashIndex[Hash[req.text]] \in {None, mem.id}
    BY <1>7 DEF PutHash, Goto, OperationInv, VectorInv, HashInv, RememberSteps
  <2>2. Hash[req.text] \in Hashes
    BY <1>7, HashType DEF PutHash, TypeOK, RememberSteps
  <2>3. /\ hashStore'[Hash[req.text]] = mem.id
       /\ \A h \in Hashes : hashStore'[h] \in {hashStore[h], mem.id}
    BY <1>7, <2>2 DEF PutHash, TypeOK
  <2> QED
    BY <1>7, <2>1, <2>2, <2>3 DEF PutHash, HashInv, HasVector, Stored, RememberSteps
<1>8. CASE EnqueueSync
  BY <1>8, StoredGrows, NoneAssumption DEF EnqueueSync, Goto, TypeOK,
     OperationInv, HashInv, HasVector, RememberSteps, Embedding
<1>9. CASE PersistTrace
  BY <1>9, StoredGrows, NoneAssumption DEF PersistTrace, OpReset, TypeOK,
     OperationInv, HashInv, HasVector, RememberSteps, Embedding
<1>10. CASE SyncStep
  BY <1>10, SyncFrame, StoredGrows DEF HashInv, HasVector, RememberSteps, SyncSteps
<1>11. CASE StoreFails
  BY <1>11, StoredGrows, NoneAssumption DEF StoreFails, OpReset, TypeOK,
     OperationInv, HashInv, HasVector, RememberSteps, Embedding
<1>12. CASE Crash
  BY <1>12, StoredGrows, NoneAssumption DEF Crash, ProcessEnds, OpReset,
     TypeOK, OperationInv, HashInv, HasVector, RememberSteps, Embedding
<1>13. CASE Close
  BY <1>13, StoredGrows, NoneAssumption DEF Close, ProcessEnds, OpReset,
     TypeOK, OperationInv, HashInv, HasVector, RememberSteps, Embedding
<1>14. CASE Open
  BY <1>14, StoredGrows, NoneAssumption DEF Open, TypeOK, OperationInv,
     HashInv, HasVector, RememberSteps, Embedding
<1> QED
  BY <1>1, <1>2, <1>3, <1>4, <1>5, <1>6, <1>7, <1>8, <1>9, <1>10, <1>11, <1>12,
     <1>13, <1>14 DEF Next, RememberStep

-----------------------------------------------------------------------------
(* No two vectors alike. *)

(* Every step keeps FreshInv: createNewMemory is reached only when the     *)
(* vector search found nothing.                                            *)
LEMMA FreshStep ==
  ASSUME TypeOK, OperationInv, IndexInv, FreshInv, Next
  PROVE  FreshInv'
<1>1. ASSUME NEW r \in Embedding, Remember(r) PROVE FreshInv'
  <2>1. CASE UNCHANGED vars
    BY <2>1 DEF FreshInv, TypeOK
  <2>2. CASE ReinforceBegins(r)
    BY <2>2, ReinforcedMemory DEF FreshInv
  <2>3. CASE CreateBegins(r)
    BY <2>3, CreatedMemory DEF FreshInv, IndexInv, VectorMatches, EmbeddingOf,
       Embedding
  <2> QED
    BY <1>1, <2>1, <2>2, <2>3, RememberCases
<1>2. ASSUME NEW limit \in Limits, Sync(limit) PROVE FreshInv'
  BY <1>2 DEF Sync, Batches, OperationInv, FreshInv, RememberSteps
<1>3. CASE SaveMemory
  BY <1>3 DEF SaveMemory, Goto, OperationInv, FreshInv, RememberSteps
<1>4. CASE PersistVector
  BY <1>4 DEF PersistVector, Goto, EmbeddingOf, OperationInv, FreshInv,
     RememberSteps
<1>5. CASE AddVector
  BY <1>5 DEF AddVector, Goto, EmbeddingOf, OperationInv, FreshInv,
     RememberSteps
<1>6. CASE SetHash
  BY <1>6 DEF SetHash, Goto, OperationInv, FreshInv, RememberSteps
<1>7. CASE PutHash
  BY <1>7 DEF PutHash, Goto, OperationInv, FreshInv, RememberSteps
<1>8. CASE EnqueueSync
  BY <1>8 DEF EnqueueSync, Goto, OperationInv, FreshInv, RememberSteps
<1>9. CASE PersistTrace
  BY <1>9 DEF PersistTrace, OpReset, OperationInv, FreshInv, RememberSteps
<1>10. CASE SyncStep
  BY <1>10, SyncFrame DEF FreshInv, SyncSteps
<1>11. CASE StoreFails
  BY <1>11 DEF StoreFails, OpReset, OperationInv, FreshInv, RememberSteps
<1>12. CASE Crash
  BY <1>12 DEF Crash, ProcessEnds, OpReset, OperationInv, FreshInv,
     RememberSteps
<1>13. CASE Close
  BY <1>13 DEF Close, ProcessEnds, OpReset, OperationInv, FreshInv,
     RememberSteps
<1>14. CASE Open
  BY <1>14 DEF Open, OperationInv, FreshInv, RememberSteps
<1> QED
  BY <1>1, <1>2, <1>3, <1>4, <1>5, <1>6, <1>7, <1>8, <1>9, <1>10, <1>11, <1>12,
     <1>13, <1>14 DEF Next, RememberStep

(* Every step keeps NoNearDuplicates; only persistVector could break it.   *)
LEMMA NoNearDuplicatesStep ==
  ASSUME TypeOK, OperationInv, FreshInv, NoNearDuplicates, Next
  PROVE  NoNearDuplicates'
<1>1. ASSUME NEW r \in Embedding, Remember(r) PROVE NoNearDuplicates'
  <2>1. CASE UNCHANGED vars
    BY <2>1 DEF NoNearDuplicates, TypeOK
  <2>2. CASE ReinforceBegins(r)
    BY <2>2, ReinforcedMemory DEF NoNearDuplicates, NoNearDuplicates
  <2>3. CASE CreateBegins(r)
    BY <2>3, CreatedMemory DEF NoNearDuplicates, NoNearDuplicates
  <2> QED
    BY <1>1, <2>1, <2>2, <2>3, RememberCases
<1>2. ASSUME NEW limit \in Limits, Sync(limit) PROVE NoNearDuplicates'
  BY <1>2 DEF Sync, Batches, NoNearDuplicates
<1>3. CASE SaveMemory
  BY <1>3 DEF SaveMemory, Goto, NoNearDuplicates
<1>4. CASE PersistVector
  <2>1. /\ mem \in Memory /\ action = "create_new"
       /\ vectors' = [vectors EXCEPT ![mem.id] = EmbeddingOf(mem)]
    BY <1>4 DEF PersistVector, TypeOK, OperationInv, RememberSteps
  <2>2. SUFFICES ASSUME NEW i \in Ids, NEW j \in Ids, i # j,
                        vectors'[i] # None, vectors'[j] # None,
                        vectors'[i].scope = vectors'[j].scope,
                        vectors'[i].kind = vectors'[j].kind
                 PROVE  <<vectors'[i].text, vectors'[j].text>> \notin Similar
    BY DEF NoNearDuplicates
  <2>3. CASE i # mem.id /\ j # mem.id
    BY <2>1, <2>2, <2>3 DEF NoNearDuplicates, TypeOK
  <2>4. CASE i = mem.id
    BY <1>4, <2>1, <2>2, <2>4 DEF PersistVector, FreshInv, EmbeddingOf, TypeOK
  <2>5. CASE j = mem.id
    <3>1. <<vectors'[j].text, vectors'[i].text>> \notin Similar
      BY <1>4, <2>1, <2>2, <2>5 DEF PersistVector, FreshInv, EmbeddingOf, TypeOK
    <3>2. \A p \in Similar : <<p[2], p[1]>> \in Similar
      BY ConstantsAssumption DEF Symmetric
    <3> QED
      BY <3>1, <3>2
  <2> QED
    BY <2>3, <2>4, <2>5
<1>5. CASE AddVector
  BY <1>5 DEF AddVector, Goto, EmbeddingOf, NoNearDuplicates
<1>6. CASE SetHash
  BY <1>6 DEF SetHash, Goto, NoNearDuplicates
<1>7. CASE PutHash
  BY <1>7 DEF PutHash, Goto, NoNearDuplicates
<1>8. CASE EnqueueSync
  BY <1>8 DEF EnqueueSync, Goto, NoNearDuplicates
<1>9. CASE PersistTrace
  BY <1>9 DEF PersistTrace, OpReset, NoNearDuplicates
<1>10. CASE SyncStep
  BY <1>10, SyncFrame DEF NoNearDuplicates
<1>11. CASE StoreFails
  BY <1>11 DEF StoreFails, OpReset, NoNearDuplicates
<1>12. CASE Crash
  BY <1>12 DEF Crash, ProcessEnds, OpReset, NoNearDuplicates
<1>13. CASE Close
  BY <1>13 DEF Close, ProcessEnds, OpReset, NoNearDuplicates
<1>14. CASE Open
  BY <1>14 DEF Open, NoNearDuplicates
<1> QED
  BY <1>1, <1>2, <1>3, <1>4, <1>5, <1>6, <1>7, <1>8, <1>9, <1>10, <1>11, <1>12,
     <1>13, <1>14 DEF Next, RememberStep

-----------------------------------------------------------------------------
(* What a caller was told. *)

(* Every step keeps AckedDurable: PersistTrace adds an answer when all it  *)
(* promises is written, and no other step takes any of it away.            *)
LEMMA AckedStep ==
  ASSUME TypeOK, OperationInv, IndexInv, VectorInv, HashInv, AckedDurable, Next
  PROVE  AckedDurable'
<1>1. ASSUME NEW r \in Embedding, Remember(r) PROVE AckedDurable'
  <2>1. CASE UNCHANGED vars
    BY <2>1 DEF AckedDurable, Stored
  <2>2. CASE ReinforceBegins(r)
    BY <2>2, ReinforcedMemory DEF AckedDurable, Stored
  <2>3. CASE CreateBegins(r)
    BY <2>3, CreatedMemory DEF AckedDurable, Stored
  <2> QED
    BY <1>1, <2>1, <2>2, <2>3, RememberCases
<1>2. ASSUME NEW limit \in Limits, Sync(limit) PROVE AckedDurable'
  BY <1>2 DEF Sync, Batches, AckedDurable, Stored
<1>3. CASE SaveMemory
  BY <1>3, StoredGrows DEF SaveMemory, AckedDurable
<1>4. CASE PersistVector
  <2>1. EmbeddingOf(mem) # None
    BY <1>4, NoneAssumption DEF PersistVector, TypeOK, RememberSteps, Memory, Embedding, EmbeddingOf
  <2>2. \A i \in Ids : vectors[i] # None => vectors'[i] # None
    BY <1>4, <2>1 DEF PersistVector, TypeOK
  <2> QED
    BY <1>4, <2>2 DEF PersistVector, AckedDurable, Stored
<1>5. CASE AddVector
  BY <1>5 DEF AddVector, Goto, EmbeddingOf, AckedDurable, Stored
<1>6. CASE SetHash
  BY <1>6 DEF SetHash, Goto, AckedDurable, Stored
<1>7. CASE PutHash
  <2>1. ASSUME NEW a \in acked
        PROVE  hashStore'[Hash[a.req.text]] = a.id
    <3>1. Hash[a.req.text] \in Hashes /\ Hash[req.text] \in Hashes
      BY <1>7, HashType DEF PutHash, TypeOK, RememberSteps
    <3>2. hashStore[Hash[a.req.text]] = a.id /\ a.id \in Ids /\ a.id # None
      BY NoneAssumption DEF AckedDurable, Stored
    <3>3. hashIndex[Hash[a.req.text]] = a.id
      BY <1>7, <3>1, <3>2 DEF PutHash, IndexInv, OperationInv
    <3>4. hashIndex[Hash[req.text]] = mem.id
      BY <1>7 DEF PutHash, HashInv
    <3> QED
      BY <1>7, <3>1, <3>2, <3>3, <3>4 DEF PutHash, TypeOK
  <2> QED
    BY <1>7, <2>1 DEF PutHash, AckedDurable, Stored
<1>8. CASE EnqueueSync
  BY <1>8 DEF EnqueueSync, Goto, AckedDurable, Stored
<1>9. CASE PersistTrace
  <2>1. /\ mem.id \in Stored /\ vectors[mem.id] # None
        /\ hashStore[Hash[req.text]] = mem.id
        /\ action \in {"create_new", "reinforce"}
    BY <1>9 DEF PersistTrace, OperationInv, VectorInv, HashInv, RememberSteps
  <2>2. UNCHANGED <<memories, vectors, hashStore>>
    BY <1>9 DEF PersistTrace
  <2>3. SUFFICES ASSUME NEW a \in acked'
        PROVE  /\ a.id \in Stored /\ vectors[a.id] # None
               /\ hashStore[Hash[a.req.text]] = a.id
               /\ \E act \in {"create_new", "reinforce"} : <<a.id, act>> \in traces'
    BY <2>2 DEF AckedDurable, Stored
  <2>4. CASE a \in acked
    BY <1>9, <2>4 DEF PersistTrace, AckedDurable
  <2>5. CASE a = [req |-> req, id |-> mem.id]
    BY <1>9, <2>1, <2>5 DEF PersistTrace
  <2> QED
    BY <1>9, <2>4, <2>5 DEF PersistTrace
<1>10. CASE SyncStep
  BY <1>10, SyncFrame, StoredGrows DEF AckedDurable
<1>11. CASE StoreFails
  BY <1>11 DEF StoreFails, OpReset, AckedDurable, Stored
<1>12. CASE Crash
  BY <1>12 DEF Crash, ProcessEnds, OpReset, AckedDurable, Stored
<1>13. CASE Close
  BY <1>13 DEF Close, ProcessEnds, OpReset, AckedDurable, Stored
<1>14. CASE Open
  BY <1>14 DEF Open, AckedDurable, Stored
<1> QED
  BY <1>1, <1>2, <1>3, <1>4, <1>5, <1>6, <1>7, <1>8, <1>9, <1>10, <1>11, <1>12,
     <1>13, <1>14 DEF Next, RememberStep

-----------------------------------------------------------------------------
(* The graph and the queue. *)

(* Every step keeps GraphInv: Sync writes a node before what refers to it, *)
(* and refers to stored memories only.                                     *)
LEMMA GraphStep ==
  ASSUME TypeOK, OperationInv, BatchInv, GraphInv, Next
  PROVE  GraphInv'
<1>1. ASSUME NEW r \in Embedding, Remember(r) PROVE GraphInv'
  <2>1. CASE UNCHANGED vars
    BY <2>1 DEF GraphInv, Stored, MemoryEnds
  <2>2. CASE ReinforceBegins(r)
    BY <2>2, ReinforcedMemory DEF GraphInv, Stored, MemoryEnds
  <2>3. CASE CreateBegins(r)
    BY <2>3, CreatedMemory DEF GraphInv, Stored, MemoryEnds
  <2> QED
    BY <1>1, <2>1, <2>2, <2>3, RememberCases
<1>2. ASSUME NEW limit \in Limits, Sync(limit) PROVE GraphInv'
  BY <1>2, StoredGrows DEF Sync, Batches, TypeOK, OperationInv, BatchInv,
     GraphInv, MemoryEnds, SyncSteps, EntitySteps, RelateSteps
<1>3. CASE SaveMemory
  BY <1>3, StoredGrows DEF SaveMemory, Goto, TypeOK, OperationInv, BatchInv,
     GraphInv, MemoryEnds, SyncSteps, EntitySteps, RelateSteps
<1>4. CASE PersistVector
  BY <1>4, StoredGrows DEF PersistVector, Goto, EmbeddingOf, TypeOK,
     OperationInv, BatchInv, GraphInv, MemoryEnds, SyncSteps, EntitySteps,
     RelateSteps
<1>5. CASE AddVector
  BY <1>5, StoredGrows DEF AddVector, Goto, EmbeddingOf, TypeOK, OperationInv,
     BatchInv, GraphInv, MemoryEnds, SyncSteps, EntitySteps, RelateSteps
<1>6. CASE SetHash
  BY <1>6, StoredGrows DEF SetHash, Goto, TypeOK, OperationInv, BatchInv,
     GraphInv, MemoryEnds, SyncSteps, EntitySteps, RelateSteps
<1>7. CASE PutHash
  BY <1>7, StoredGrows DEF PutHash, Goto, TypeOK, OperationInv, BatchInv,
     GraphInv, MemoryEnds, SyncSteps, EntitySteps, RelateSteps
<1>8. CASE EnqueueSync
  BY <1>8, StoredGrows DEF EnqueueSync, Goto, TypeOK, OperationInv, BatchInv,
     GraphInv, MemoryEnds, SyncSteps, EntitySteps, RelateSteps
<1>9. CASE PersistTrace
  BY <1>9, StoredGrows DEF PersistTrace, OpReset, TypeOK, OperationInv,
     BatchInv, GraphInv, MemoryEnds, SyncSteps, EntitySteps, RelateSteps
<1>10. CASE SyncNext
  <2>1. \A m \in batch : m.id \in Stored
    BY NoneAssumption DEF BatchInv, TypeOK, Memory, Stored
  <2> QED
    BY <1>10, <2>1, StoredGrows DEF SyncNext, GraphInv, MemoryEnds, Stored, AddNode
<1>11. CASE SyncReturn
  BY <1>11, StoredGrows DEF SyncReturn, OpReset, TypeOK, OperationInv,
     BatchInv, GraphInv, MemoryEnds, SyncSteps, EntitySteps, RelateSteps
<1>12. CASE PersistEntity
  BY <1>12, StoredGrows DEF PersistEntity, TypeOK, OperationInv, BatchInv,
     GraphInv, MemoryEnds, SyncSteps, EntitySteps, RelateSteps
<1>13. CASE AddEntityNode
  BY <1>13, StoredGrows, IdsApart DEF AddEntityNode, Goto, Stored, TypeOK,
     OperationInv, BatchInv, GraphInv, MemoryEnds, SyncSteps, EntitySteps,
     RelateSteps, AddNode
<1>14. CASE PersistEntityRelation
  <2>1. item \in EntityIds /\ mem.id \in Stored
    BY <1>14 DEF PersistEntityRelation, OperationInv, BatchInv, EntitySteps, SyncSteps
  <2>2. MemoryEnds(Associated(mem, item)) \subseteq Stored
    BY <2>1, IdsApart DEF MemoryEnds, Associated, RelationBetween
  <2> QED
    BY <1>14, <2>2 DEF PersistEntityRelation, Goto, GraphInv, MemoryEnds, Stored
<1>15. CASE AddEntityEdge
  BY <1>15, StoredGrows DEF AddEntityEdge, AddEdge, Goto, OpReset, Associated,
     RelationBetween, TypeOK, OperationInv, BatchInv, GraphInv, MemoryEnds,
     SyncSteps, EntitySteps, RelateSteps
<1>16. CASE EntitiesDone
  BY <1>16, StoredGrows DEF EntitiesDone, TypeOK, OperationInv, BatchInv,
     GraphInv, MemoryEnds, SyncSteps, EntitySteps, RelateSteps
<1>17. CASE PersistFact
  BY <1>17, StoredGrows DEF PersistFact, TypeOK, OperationInv, BatchInv,
     GraphInv, MemoryEnds, SyncSteps, EntitySteps, RelateSteps
<1>18. CASE FactsDone
  BY <1>18, StoredGrows DEF FactsDone, Goto, TypeOK, OperationInv, BatchInv,
     GraphInv, MemoryEnds, SyncSteps, EntitySteps, RelateSteps
<1>19. CASE SearchRelated
  BY <1>19, StoredGrows DEF SearchRelated, SearchResults, RelatedCandidates,
     TypeOK, OperationInv, BatchInv, GraphInv, MemoryEnds, SyncSteps,
     EntitySteps, RelateSteps
<1>20. CASE RelateHit
  BY <1>20, StoredGrows DEF RelateHit, OpReset, Stored, TypeOK, OperationInv,
     BatchInv, GraphInv, MemoryEnds, SyncSteps, EntitySteps, RelateSteps, AddNode
<1>21. CASE PersistRelation
  <2>1. item \in Stored /\ memories[item].id = item /\ mem.id \in Stored
    BY <1>21 DEF PersistRelation, OperationInv, BatchInv, TypeOK, Stored, SyncSteps
  <2>2. MemoryEnds(ClassifiedAs(mem, memories[item])) \subseteq Stored
    BY <2>1 DEF MemoryEnds, ClassifiedAs, RelationBetween
  <2> QED
    BY <1>21, <2>2 DEF PersistRelation, Goto, GraphInv, MemoryEnds, Stored
<1>22. CASE AddRelationEdge
  BY <1>22, StoredGrows DEF AddRelationEdge, AddEdge, Goto, OpReset,
     ClassifiedAs, RelationBetween, TypeOK, OperationInv, BatchInv, GraphInv,
     MemoryEnds, SyncSteps, EntitySteps, RelateSteps
<1>23. CASE RelatedDone
  BY <1>23, StoredGrows DEF RelatedDone, Goto, TypeOK, OperationInv, BatchInv,
     GraphInv, MemoryEnds, SyncSteps, EntitySteps, RelateSteps
<1>24. CASE MarkSynced
  BY <1>24, StoredGrows DEF MarkSynced, Goto, TypeOK, OperationInv, BatchInv,
     GraphInv, MemoryEnds, SyncSteps, EntitySteps, RelateSteps
<1>25. CASE Dequeue
  BY <1>25, StoredGrows DEF Dequeue, Goto, TypeOK, OperationInv, BatchInv,
     GraphInv, MemoryEnds, SyncSteps, EntitySteps, RelateSteps
<1>26. CASE PersistSyncTrace
  BY <1>26, StoredGrows DEF PersistSyncTrace, Goto, TypeOK, OperationInv,
     BatchInv, GraphInv, MemoryEnds, SyncSteps, EntitySteps, RelateSteps
<1>27. CASE StoreFails
  BY <1>27, StoredGrows DEF StoreFails, OpReset, TypeOK, OperationInv,
     BatchInv, GraphInv, MemoryEnds, SyncSteps, EntitySteps, RelateSteps
<1>28. CASE Crash
  BY <1>28, StoredGrows DEF Crash, ProcessEnds, OpReset, TypeOK, OperationInv,
     BatchInv, GraphInv, MemoryEnds, SyncSteps, EntitySteps, RelateSteps
<1>29. CASE Close
  BY <1>29, StoredGrows DEF Close, ProcessEnds, OpReset, TypeOK, OperationInv,
     BatchInv, GraphInv, MemoryEnds, SyncSteps, EntitySteps, RelateSteps
<1>30. CASE Open
  BY <1>30, StoredGrows DEF Open, TypeOK, OperationInv, BatchInv, GraphInv,
     MemoryEnds, SyncSteps, EntitySteps, RelateSteps
<1> QED
  BY <1>1, <1>2, <1>3, <1>4, <1>5, <1>6, <1>7, <1>8, <1>9, <1>10, <1>11, <1>12,
     <1>13, <1>14, <1>15, <1>16, <1>17, <1>18, <1>19, <1>20, <1>21, <1>22,
     <1>23, <1>24, <1>25, <1>26, <1>27, <1>28, <1>29, <1>30 DEF Next,
     RememberStep, SyncStep

-----------------------------------------------------------------------------
(* The theorems. *)

(* The inductive invariant holds at first.                                 *)
LEMMA InitInv == Init => IInv
<1> SUFFICES ASSUME Init PROVE IInv
  OBVIOUS
<1>1. TypeOK
  BY TypesInit
<1>2. OperationInv /\ BatchInv
  BY DEF Init, OperationInv, BatchInv, RememberSteps, SyncSteps, EntitySteps, RelateSteps
<1>3. IndexInv /\ VectorInv /\ HashInv
  BY DEF Init, IndexInv, VectorInv, HashInv, HasVector, RememberSteps
<1>4. NoNearDuplicates /\ FreshInv
  BY DEF Init, NoNearDuplicates, FreshInv
<1>5. GraphInv /\ AckedDurable
  BY DEF Init, GraphInv, AckedDurable
<1> QED
  BY <1>1, <1>2, <1>3, <1>4, <1>5 DEF IInv

(* The inductive invariant is kept by every step.                          *)
LEMMA StepInv == IInv /\ [Next]_vars => IInv'
<1> SUFFICES ASSUME IInv, [Next]_vars PROVE IInv'
  OBVIOUS
<1>1. CASE Next
  BY <1>1, TypesStep, OperationStep, BatchStep, IndexStep, VectorStep, HashStep,
     FreshStep, NoNearDuplicatesStep, GraphStep, AckedStep DEF IInv
<1>2. CASE UNCHANGED vars
  <2>1. TypeOK' /\ OperationInv' /\ BatchInv'
    BY <1>2 DEF IInv, TypeOK, OperationInv, BatchInv, Stored, EmbeddingOf
  <2>2. IndexInv' /\ VectorInv' /\ HashInv'
    BY <1>2 DEF IInv, IndexInv, VectorInv, HashInv, HasVector, Stored, EmbeddingOf
  <2>3. NoNearDuplicates' /\ FreshInv'
    BY <1>2 DEF IInv, NoNearDuplicates, FreshInv
  <2>4. GraphInv' /\ AckedDurable'
    BY <1>2 DEF IInv, GraphInv, AckedDurable, MemoryEnds, Stored
  <2> QED
    BY <2>1, <2>2, <2>3, <2>4 DEF IInv
<1> QED
  BY <1>1, <1>2

(* IInv holds in every reachable state.                                    *)
THEOREM InductiveInvariant == Spec => []IInv
BY InitInv, StepInv, PTL DEF Spec

(* Every variable of the engine keeps its type.                            *)
THEOREM TypeCorrect == Spec => []TypeOK
<1>1. IInv => TypeOK
  BY DEF IInv
<1> QED
  BY <1>1, InductiveInvariant, PTL

(* Nothing in the brainfile or in the indexes refers to a memory that is   *)
(* not stored, wherever an operation stops.                                *)
THEOREM ReferencesSafe == Spec => []NoDanglingReference
<1>1. IInv => NoDanglingReference
  BY DEF IInv, VectorInv, HashInv, HasVector, GraphInv, NoDanglingReference
<1> QED
  BY <1>1, InductiveInvariant, PTL

(* Two vectors of one scope and kind never reach the threshold of the      *)
(* detector, whatever fails between the writes of Remember.                *)
THEOREM VectorsApart == Spec => []NoNearDuplicates
<1>1. IInv => NoNearDuplicates
  BY DEF IInv
<1> QED
  BY <1>1, InductiveInvariant, PTL

(* What Remember has answered stays in the store.                          *)
THEOREM AcksDurable == Spec => []AckedDurable
<1>1. IInv => AckedDurable
  BY DEF IInv
<1> QED
  BY <1>1, InductiveInvariant, PTL

(* No step rebinds a hash: persistHashMatch writes the id that the hash    *)
(* index, which agrees with the store, already holds.                      *)
LEMMA BindingStep ==
  ASSUME IInv, [Next]_vars, NEW h \in Hashes, hashStore[h] # None
  PROVE  hashStore'[h] = hashStore[h]
<1>1. CASE PutHash
  <2>1. hashIndex[Hash[req.text]] = mem.id /\ open /\ Hash[req.text] \in Hashes
    BY <1>1, HashType DEF PutHash, IInv, HashInv, OperationInv, TypeOK, RememberSteps
  <2>2. hashStore[h] = hashIndex[h]
    BY <2>1 DEF IInv, IndexInv
  <2> QED
    BY <1>1, <2>1, <2>2 DEF PutHash, IInv, TypeOK
<1>2. CASE UNCHANGED hashStore
  BY <1>2
<1> QED
  BY <1>1, <1>2, SyncFrame, RememberCases DEF IInv, Next, RememberStep, Sync,
     ReinforceBegins, CreateBegins, Create, Begin, SaveMemory, Goto,
     PersistVector, EmbeddingOf, AddVector, SetHash, EnqueueSync, PersistTrace,
     OpReset, StoreFails, Crash, ProcessEnds, Close, Open

(* A content hash, once bound to a memory, is bound to it for good.        *)
THEOREM BindingsPermanent == Spec => HashBindingsPermanent
<1>1. IInv /\ [Next]_vars =>
        [\A h \in Hashes : hashStore[h] # None => hashStore'[h] = hashStore[h]]_vars
  BY BindingStep
<1> QED
  BY <1>1, InductiveInvariant, PTL DEF Spec, HashBindingsPermanent

-----------------------------------------------------------------------------
(* Refinement. *)

(* A new brainfile is an empty book.                                       *)
LEMMA BookInit == Init => Book!Init
<1> SUFFICES ASSUME Init PROVE Book!Init
  OBVIOUS
<1>1. BookStatus = [i \in Ids |-> "absent"]
  BY DEF Init, BookStatus, Stored
<1>2. BookAnswers = {}
  BY DEF Init, BookAnswers
<1> QED
  BY <1>1, <1>2 DEF Init, Book!Init

(* saveMemory of a Remember is a Write of the book, that of a Sync an      *)
(* Enrich, persistHashMatch a Bind, the end of a Remember an Answer; every *)
(* other step leaves the book as it is.                                    *)
LEMMA BookStep == IInv /\ [Next]_vars => [Book!Next]_Book!vars
<1> SUFFICES ASSUME IInv, [Next]_vars PROVE [Book!Next]_Book!vars
  OBVIOUS
<1>1. CASE SaveMemory
  <2>1. mem \in Memory /\ mem.id \in Ids /\ mem.status = "pending_sync"
    BY <1>1 DEF SaveMemory, IInv, TypeOK, OperationInv, RememberSteps, Memory
  <2>2. BookStatus' = [BookStatus EXCEPT ![mem.id] = "pending_sync"]
    BY <1>1, <2>1, NoneAssumption DEF SaveMemory, BookStatus, Stored, IInv, TypeOK
  <2>3. Book!Write(mem.id)
    BY <1>1, <2>2 DEF SaveMemory, Book!Write, BookAnswers
  <2> QED
    BY <2>1, <2>3 DEF Book!Next, Memory
<1>2. CASE MarkSynced
  <2>1. /\ mem \in Memory /\ mem.id \in Stored
        /\ memories[mem.id] = mem /\ mem.status = "pending_sync"
    BY <1>2 DEF MarkSynced, IInv, TypeOK, BatchInv, SyncSteps
  <2>2. Stamped(mem, "synced") \in Memory /\ Stamped(mem, "synced").status = "synced"
    BY <2>1 DEF IInv, TypeOK, Stamped, Memory, Statuses
  <2>3. BookStatus' = [BookStatus EXCEPT ![mem.id] = "synced"]
    BY <1>2, <2>1, <2>2, NoneAssumption DEF MarkSynced, BookStatus, Stored, IInv, TypeOK
  <2>4. BookStatus[mem.id] = "pending_sync" /\ mem.id \in Ids
    BY <2>1 DEF BookStatus, Stored
  <2>5. Book!Enrich(mem.id)
    BY <1>2, <2>3, <2>4 DEF MarkSynced, Book!Enrich, BookAnswers
  <2> QED
    BY <2>4, <2>5 DEF Book!Next
<1>3. CASE PutHash
  <2> DEFINE h == Hash[req.text]
  <2>1. h \in Hashes /\ mem.id \in Stored /\ hashIndex[h] = mem.id /\ open
    BY <1>3, HashType DEF PutHash, IInv, TypeOK, OperationInv, HashInv, RememberSteps
  <2>2. hashStore[h] \in {None, mem.id}
    BY <2>1 DEF IInv, IndexInv
  <2>3. UNCHANGED <<BookStatus, BookAnswers>>
    BY <1>3 DEF PutHash, BookStatus, BookAnswers, Stored
  <2>4. CASE hashStore[h] = mem.id
    <3>1. hashStore' = hashStore
      BY <1>3, <2>1, <2>4 DEF PutHash, IInv, TypeOK
    <3> QED
      BY <2>3, <3>1 DEF Book!vars
  <2>5. CASE hashStore[h] = None
    <3>1. BookStatus[mem.id] # "absent" /\ mem.id \in Ids
      BY <2>1 DEF BookStatus, Stored, IInv, TypeOK, Memory, Statuses
    <3>2. Book!Bind(h, mem.id)
      BY <1>3, <2>3, <2>5, <3>1 DEF PutHash, Book!Bind
    <3> QED
      BY <2>1, <3>1, <3>2 DEF Book!Next
  <2> QED
    BY <2>2, <2>4, <2>5
<1>4. CASE PersistTrace
  <2> DEFINE h == Hash[req.text]
  <2>1. h \in Hashes /\ hashStore[h] = mem.id /\ mem.id # None
    BY <1>4, HashType, NoneAssumption
    DEF PersistTrace, IInv, TypeOK, OperationInv, HashInv, RememberSteps, Stored
  <2>2. BookAnswers' = BookAnswers \cup {<<h, hashStore[h]>>}
    <3> DEFINE told == [req |-> req, id |-> mem.id]
    <3>1. acked' = acked \cup {told}
      BY <1>4 DEF PersistTrace
    <3>2. BookAnswers' = {<<Hash[a.req.text], a.id>> : a \in acked'}
      BY DEF BookAnswers
    <3>3. <<Hash[told.req.text], told.id>> = <<h, hashStore[h]>>
      BY <2>1
    <3> HIDE DEF told
    <3> QED
      BY <3>1, <3>2, <3>3 DEF BookAnswers
  <2>3. Book!Answer(h)
    BY <1>4, <2>1, <2>2 DEF PersistTrace, Book!Answer, BookStatus, Stored
  <2> QED
    BY <2>1, <2>3 DEF Book!Next
<1>5. CASE UNCHANGED <<memories, hashStore, acked>>
  BY <1>5 DEF Book!vars, BookStatus, BookAnswers, Stored
<1> QED

  BY <1>1, <1>2, <1>3, <1>4, <1>5, RememberCases DEF IInv, Next, RememberStep,
     SyncStep, Sync, ReinforceBegins, CreateBegins, Create, Begin,
     PersistVector, Goto, EmbeddingOf, AddVector, SetHash, EnqueueSync,
     SyncNext, SyncReturn, OpReset, PersistEntity, AddEntityNode,
     PersistEntityRelation, Associated, RelationBetween, AddEntityEdge,
     AddEdge, EntitiesDone, PersistFact, FactsDone, SearchRelated,
     SearchResults, RelatedCandidates, RelateHit, PersistRelation,
     ClassifiedAs, AddRelationEdge, RelatedDone, Dequeue, PersistSyncTrace,
     StoreFails, Crash, ProcessEnds, Close, Open, AddNode

(* Whatever the engine does, and wherever it stops, is a behaviour of      *)
(* MemoryBook: each of its steps is one step of the book or none.          *)
THEOREM BookKept == Spec => KeepsTheBook
  BY BookInit, BookStep, InductiveInvariant, PTL DEF Spec, Book!Spec, KeepsTheBook

-----------------------------------------------------------------------------
(* What the graph, the queue and the bindings hold.  The second inductive  *)
(* invariant rests on the first: it says of every place in an operation    *)
(* what of its work is already written.                                    *)

(* A stored memory keeps what it says, and where it belongs: its copies,   *)
(* those an operation works on and its vector, say the same.               *)
CopyInv ==
  /\ pc = "save" /\ action = "reinforce" => EmbeddingOf(memories[mem.id]) = EmbeddingOf(mem)
  /\ pc \in RememberSteps \ {"save"} => memories[mem.id] = mem /\ mem.status = "pending_sync"
  /\ \A i \in Ids : vectors[i] # None => vectors[i] = EmbeddingOf(memories[i])

(* What is in the graph stays there: no step removes a node, a relation or *)
(* an edge, nor an entity or a fact.                                       *)
LEMMA GraphGrows ==
  ASSUME TypeOK, Next
  PROVE  /\ nodes \subseteq nodes' /\ relations \subseteq relations' /\ edges \subseteq edges'
         /\ \A e \in EntityIds : entities[e] # None => entities'[e] # None
         /\ \A f \in FactIds : facts[f] # None => facts'[f] # None
<1>1. CASE UNCHANGED graphVars
  BY <1>1
<1>2. CASE PersistEntity
  <2>1. mem.id # None
    BY <1>2, NoneAssumption DEF PersistEntity, TypeOK, SyncSteps, Memory
  <2> QED
    BY <1>2, <2>1 DEF PersistEntity, TypeOK
<1>3. CASE PersistFact
  <2>1. mem.id # None
    BY <1>3, NoneAssumption DEF PersistFact, TypeOK, SyncSteps, Memory
  <2> QED
    BY <1>3, <2>1 DEF PersistFact, TypeOK
<1>4. CASE SyncNext \/ AddEntityNode \/ RelateHit
  BY <1>4 DEF SyncNext, AddEntityNode, RelateHit, AddNode
<1>5. CASE PersistEntityRelation \/ PersistRelation
  BY <1>5 DEF PersistEntityRelation, PersistRelation
<1>6. CASE AddEntityEdge \/ AddRelationEdge
  BY <1>6 DEF AddEntityEdge, AddRelationEdge, AddEdge
<1>7. ASSUME NEW r \in Embedding, Remember(r) PROVE UNCHANGED graphVars
  BY <1>7, RememberCases DEF ReinforceBegins, CreateBegins, Create, Begin
<1>8. CASE StoreFails \/ Crash \/ Close \/ Open
  BY <1>8 DEF StoreFails, Crash, Close, ProcessEnds, Open
<1>9. CASE SyncReturn \/ EntitiesDone \/ FactsDone \/ SearchRelated \/ RelatedDone
           \/ MarkSynced \/ Dequeue \/ PersistSyncTrace
  BY <1>9 DEF SyncReturn, EntitiesDone, FactsDone, SearchRelated, RelatedDone,
     MarkSynced, Dequeue, PersistSyncTrace
<1>10. ASSUME NEW limit \in Limits, Sync(limit) PROVE UNCHANGED graphVars
  BY <1>10 DEF Sync
<1> QED
  BY <1>1, <1>2, <1>3, <1>4, <1>5, <1>6, <1>7, <1>8, <1>9, <1>10, RememberFrame
  DEF Next, SyncStep

(* Only saveMemory, of Remember or of Sync, changes a memory.              *)
LEMMA MemoryFrame ==
  ASSUME TypeOK, Next
  PROVE  memories' = memories \/ SaveMemory \/ MarkSynced
BY RememberCases DEF Next, RememberStep, SyncStep, Sync,
     ReinforceBegins, CreateBegins, Create, Begin, PersistVector, Goto,
     AddVector, SetHash, PutHash, EnqueueSync, PersistTrace,
     OpReset, SyncNext, SyncReturn, PersistEntity, AddEntityNode,
     PersistEntityRelation, AddEntityEdge,
     AddEdge, EntitiesDone, PersistFact, FactsDone, SearchRelated,
     RelateHit, PersistRelation, AddRelationEdge, RelatedDone, Dequeue,
     PersistSyncTrace, StoreFails, Crash, ProcessEnds, Close, Open, AddNode

(* What saveMemory changes: the record of mem, which says what it said.    *)
LEMMA SavedMemory ==
  ASSUME IInv, CopyInv, SaveMemory
  PROVE  /\ mem \in Memory /\ mem.id \in Ids /\ mem # None
         /\ memories'[mem.id] = mem /\ mem.status = "pending_sync"
         /\ \A i \in Ids \ {mem.id} : memories'[i] = memories[i]
         /\ mem.id \in Stored => EmbeddingOf(memories[mem.id]) = EmbeddingOf(mem)
         /\ Stored' = Stored \cup {mem.id}
<1>1. mem \in Memory /\ mem.id \in Ids /\ mem # None /\ pc = "save"
  BY NoneAssumption DEF SaveMemory, IInv, TypeOK, RememberSteps, Memory
<1>2. mem.status = "pending_sync" /\ (action = "create_new" \/ action = "reinforce")
  BY <1>1 DEF IInv, OperationInv, RememberSteps
<1>3. mem.id \in Stored => action = "reinforce"
  BY <1>1, <1>2 DEF IInv, VectorInv
<1>4. memories' = [memories EXCEPT ![mem.id] = mem] /\ memories \in [Ids -> Memory \cup {None}]
  BY DEF SaveMemory, IInv, TypeOK
<1>5. memories'[mem.id] = mem /\ \A i \in Ids \ {mem.id} : memories'[i] = memories[i]
  BY <1>1, <1>4
<1> QED
  BY <1>1, <1>2, <1>3, <1>5 DEF Stored, CopyInv

(* What the end of the sync of a memory changes: its status.               *)
LEMMA MarkedMemory ==
  ASSUME IInv, MarkSynced
  PROVE  /\ mem \in Memory /\ mem.id \in Stored
         /\ memories[mem.id] = mem /\ mem.status = "pending_sync"
         /\ memories'[mem.id] \in Memory /\ memories'[mem.id].status = "synced"
         /\ memories'[mem.id].id = mem.id
         /\ EmbeddingOf(memories'[mem.id]) = EmbeddingOf(mem)
         /\ memories'[mem.id].text = mem.text
         /\ \A i \in Ids \ {mem.id} : memories'[i] = memories[i]
         /\ Stored' = Stored
<1>1. mem \in Memory /\ mem.id \in Stored /\ memories[mem.id] = mem
      /\ mem.status = "pending_sync"
  BY DEF MarkSynced, IInv, TypeOK, BatchInv, SyncSteps
<1>2. memories' = [memories EXCEPT ![mem.id] = Stamped(mem, "synced")]
      /\ memories \in [Ids -> Memory \cup {None}] /\ mem.id \in Ids
  BY <1>1 DEF MarkSynced, IInv, TypeOK, Stored
<1>3. /\ memories'[mem.id] = Stamped(mem, "synced")
      /\ \A i \in Ids \ {mem.id} : memories'[i] = memories[i]
  BY <1>2
<1>4. Stamped(mem, "synced") \in Memory /\ Stamped(mem, "synced").status = "synced"
      /\ Stamped(mem, "synced").id = mem.id
      /\ Stamped(mem, "synced").text = mem.text
      /\ EmbeddingOf(Stamped(mem, "synced")) = EmbeddingOf(mem)
  BY <1>1 DEF Stamped, EmbeddingOf, Memory, Statuses, IInv, TypeOK
<1>5. Stored' = Stored
  BY <1>1, <1>3, <1>4, NoneAssumption DEF Stored
<1> QED
  BY <1>1, <1>3, <1>4, <1>5

(* A stored memory keeps its content, scope and kind.                      *)
LEMMA ContentKept ==
  ASSUME IInv, CopyInv, Next, NEW i \in Stored
  PROVE  /\ i \in Stored' /\ i \in Ids
         /\ EmbeddingOf(memories'[i]) = EmbeddingOf(memories[i])
         /\ memories'[i].text = memories[i].text
         /\ memories'[i].id = i /\ memories[i].id = i
<1>1. i \in Stored' /\ i \in Ids
  BY StoredGrows DEF IInv, Stored
<1>2. TypeOK'
  BY TypesStep DEF IInv
<1>3. EmbeddingOf(memories'[i]) = EmbeddingOf(memories[i])
  <2>1. CASE SaveMemory
    BY <1>1, <2>1, SavedMemory
  <2>2. CASE MarkSynced
    BY <1>1, <2>2, MarkedMemory
  <2>3. CASE memories' = memories
    BY <2>3 DEF EmbeddingOf
  <2> QED
    BY <2>1, <2>2, <2>3, MemoryFrame DEF IInv
<1>4. memories'[i].id = i /\ memories[i].id = i
  BY <1>1, <1>2 DEF IInv, TypeOK, Stored
<1> QED
  BY <1>1, <1>3, <1>4 DEF EmbeddingOf

(* Every step keeps CopyInv.                                               *)
LEMMA CopyStep ==
  ASSUME IInv, CopyInv, Next
  PROVE  CopyInv'
<1> DEFINE VectorsSay == \A i \in Ids : vectors[i] # None => vectors[i] = EmbeddingOf(memories[i])
<1>1. CASE vectors' = vectors
  <2>1. VectorsSay'
    BY <1>1, ContentKept DEF CopyInv, IInv, VectorInv, Stored
  <2>2. ASSUME NEW r \in Embedding, Remember(r) PROVE CopyInv'
    <3>1. CASE UNCHANGED vars
      BY <3>1 DEF CopyInv, EmbeddingOf
    <3>2. CASE ReinforceBegins(r)
      <4>1. PICK i \in Stored : Begin("reinforce", r, Stamped(memories[i], "pending_sync"))
        BY <3>2 DEF ReinforceBegins
      <4>2. mem' = Stamped(memories[i], "pending_sync") /\ pc' = "save" /\ memories' = memories
        BY <4>1 DEF Begin
      <4>3. mem'.id = i /\ EmbeddingOf(mem') = EmbeddingOf(memories[i])
        BY <4>2 DEF Stamped, EmbeddingOf, IInv, TypeOK, Stored
      <4>4. EmbeddingOf(memories'[mem'.id]) = EmbeddingOf(mem')
        BY <4>2, <4>3 DEF EmbeddingOf
      <4> QED
        BY <2>1, <4>2, <4>4 DEF CopyInv, RememberSteps
    <3>3. CASE CreateBegins(r)
      BY <2>1, <3>3, CreatedMemory DEF CopyInv, IInv, RememberSteps
    <3> QED
      BY <2>2, <3>1, <3>2, <3>3, RememberCases DEF IInv
  <2>3. CASE SaveMemory
    <3>1. memories'[mem'.id] = mem' /\ mem'.status = "pending_sync" /\ pc' # "save"
      BY <2>3, SavedMemory DEF SaveMemory, Goto
    <3> QED
      BY <2>1, <3>1 DEF CopyInv
  <2>4. CASE AddVector \/ SetHash \/ PutHash \/ EnqueueSync \/ PersistTrace
    BY <2>1, <2>4 DEF CopyInv, AddVector, SetHash, PutHash, EnqueueSync, PersistTrace,
       OpReset, Goto, RememberSteps
  <2>5. CASE pc' \notin RememberSteps
    BY <2>1, <2>5 DEF CopyInv, RememberSteps
  <2>6. CASE PersistVector
    BY <2>1, <2>6 DEF CopyInv, PersistVector, Goto, RememberSteps
  <2>7. CASE StoreFails \/ Crash \/ Close \/ Open
    <3>1. pc' = "idle"
      BY <2>7 DEF StoreFails, Crash, Close, ProcessEnds, OpReset, Open, IInv, OperationInv
    <3> QED
      BY <2>5, <3>1 DEF RememberSteps
  <2>8. CASE SyncStep
    BY <2>5, <2>8, SyncFrame DEF SyncSteps, RememberSteps
  <2>9. ASSUME NEW limit \in Limits, Sync(limit) PROVE CopyInv'
    BY <2>5, <2>9 DEF Sync, RememberSteps
  <2> QED
    BY <2>2, <2>3, <2>4, <2>6, <2>7, <2>8, <2>9 DEF Next, RememberStep
<1>2. CASE PersistVector
  <2>1. /\ mem \in Memory /\ mem.id \in Ids
        /\ memories[mem.id] = mem /\ mem.status = "pending_sync"
    BY <1>2 DEF PersistVector, IInv, TypeOK, CopyInv, RememberSteps, Memory
  <2>2. VectorsSay'
    BY <1>2, <2>1 DEF PersistVector, CopyInv, IInv, TypeOK, EmbeddingOf
  <2> QED
    BY <1>2, <2>1, <2>2 DEF PersistVector, CopyInv, Goto
<1> QED
  BY <1>1, <1>2, SyncFrame, RememberCases DEF IInv, Next, RememberStep, Sync,
     ReinforceBegins, CreateBegins, Create, Begin, SaveMemory, AddVector,
     SetHash, PutHash, EnqueueSync, PersistTrace, StoreFails, Crash, ProcessEnds,
     Close, Open

-----------------------------------------------------------------------------
(* Enrichment. *)

EntityIn(m, e) ==
  entities[e] # None /\ e \in nodes /\ Associated(m, e) \in relations \cap edges

(* What Sync has already written about the memory at hand, by its place.   *)
LateSteps == {"search", "relate", "relation", "edge", "mark"}
EnrichInv ==
  /\ SyncedIsEnriched
  /\ pc \in EntitySteps \cup {"fact"} \cup LateSteps => mem.id \in nodes
  /\ pc = "entity" => \A e \in Entities[mem.text] \ todo : EntityIn(mem, e)
  /\ pc \in EntitySteps \ {"entity"} =>
       /\ \A e \in Entities[mem.text] \ (todo \cup {item}) : EntityIn(mem, e)
       /\ entities[item] # None
  /\ pc \in {"entity_relation", "entity_edge"} => item \in nodes
  /\ pc = "entity_edge" => Associated(mem, item) \in relations
  /\ pc \in {"fact"} \cup LateSteps => \A e \in Entities[mem.text] : EntityIn(mem, e)
  /\ pc = "fact" => \A f \in Facts[mem.text] \ todo : facts[f] # None
  /\ pc \in LateSteps => \A f \in Facts[mem.text] : facts[f] # None

(* What Sync needs at hand, past the first step with a memory.             *)
LEMMA AtHand ==
  ASSUME IInv, pc \in SyncSteps \ {"next"}
  PROVE  /\ mem \in Memory /\ mem.id \in Ids /\ mem.text \in Texts
         /\ Entities[mem.text] \subseteq EntityIds /\ Facts[mem.text] \subseteq FactIds
BY ExtractorTypes DEF IInv, TypeOK, Memory

(* An entity in the graph stays there, with what associates it.            *)
LEMMA EntityStays ==
  ASSUME IInv, Next, NEW m, NEW e \in EntityIds, EntityIn(m, e)
  PROVE  /\ entities'[e] # None /\ e \in nodes'
         /\ Associated(m, e) \in relations' \cap edges'
BY GraphGrows DEF EntityIn, IInv

(* A memory marked as synced has been enriched; the others still are.      *)
LEMMA SyncedStays ==
  ASSUME IInv, CopyInv, EnrichInv, Next
  PROVE  SyncedIsEnriched'
<1> SUFFICES ASSUME NEW i \in InStatus("synced")'
    PROVE /\ i \in nodes'
          /\ \A e \in Entities[memories'[i].text] :
               /\ entities'[e] # None
               /\ e \in nodes'
               /\ Associated(memories'[i], e) \in relations' \cap edges'
          /\ \A f \in Facts[memories'[i].text] : facts'[f] # None
  BY DEF SyncedIsEnriched, Associated, RelationBetween
<1>1. i \in Ids /\ i \in Stored' /\ memories'[i].status = "synced"
  BY DEF InStatus, Stored
<1>2. CASE i \in InStatus("synced") /\ memories'[i].id = memories[i].id
           /\ memories'[i].text = memories[i].text
  <2>1. memories[i].text \in Texts
    BY <1>2 DEF InStatus, Stored, IInv, TypeOK, Memory
  <2>2. Entities[memories[i].text] \subseteq EntityIds /\ Facts[memories[i].text] \subseteq FactIds
    BY <2>1, ExtractorTypes
  <2>3. Associated(memories'[i], i) = Associated(memories[i], i)
        /\ \A e : Associated(memories'[i], e) = Associated(memories[i], e)
    BY <1>2 DEF Associated, RelationBetween
  <2> QED
    BY <1>2, <2>2, <2>3, GraphGrows DEF EnrichInv, SyncedIsEnriched, IInv
<1>3. CASE MarkSynced /\ i = mem.id
  <2>1. pc = "mark" /\ memories'[i].text = mem.text /\ memories'[i].id = mem.id
    BY <1>3, MarkedMemory DEF MarkSynced
  <2>2. /\ i \in nodes /\ \A e \in Entities[mem.text] : EntityIn(mem, e)
        /\ \A f \in Facts[mem.text] : facts[f] # None
    BY <1>3, <2>1 DEF EnrichInv, LateSteps
  <2>3. Entities[mem.text] \subseteq EntityIds /\ Facts[mem.text] \subseteq FactIds
    BY <2>1, AtHand DEF SyncSteps
  <2>4. \A e : Associated(memories'[i], e) = Associated(mem, e)
    BY <2>1 DEF Associated, RelationBetween
  <2> QED
    BY <2>1, <2>2, <2>3, <2>4, GraphGrows, EntityStays DEF IInv
<1>4. CASE memories' = memories
  BY <1>1, <1>2, <1>4 DEF InStatus, Stored
<1>5. CASE MarkSynced /\ i # mem.id
  BY <1>1, <1>2, <1>5, MarkedMemory DEF InStatus
<1>6. CASE SaveMemory
  <2>1. i # mem.id
    BY <1>1, <1>6, SavedMemory
  <2> QED
    BY <1>1, <1>2, <1>6, <2>1, SavedMemory DEF InStatus, Stored
<1> QED
  BY <1>3, <1>4, <1>5, <1>6, MemoryFrame DEF IInv

(* Every step keeps EnrichInv: what is left in todo is what is not written *)
(* yet, and the memory is marked when nothing is left.                     *)
LEMMA EnrichStep ==
  ASSUME IInv, CopyInv, EnrichInv, Next
  PROVE  EnrichInv'
<1>1. SyncedIsEnriched'
  BY SyncedStays
<1>2. /\ nodes \subseteq nodes' /\ relations \subseteq relations' /\ edges \subseteq edges'
      /\ \A e \in EntityIds : entities[e] # None => entities'[e] # None
      /\ \A f \in FactIds : facts[f] # None => facts'[f] # None
  BY GraphGrows DEF IInv
<1>3. ASSUME pc \in SyncSteps \ {"next"}, mem' = mem, NEW e \in Entities[mem.text], EntityIn(mem, e)
      PROVE  EntityIn(mem, e)'
  <2>1. e \in EntityIds
    BY <1>3, AtHand
  <2>2. Associated(mem, e) = Associated(mem, e)'
    BY <1>3 DEF Associated, RelationBetween
  <2> QED
    BY <1>3, <2>1, <2>2, EntityStays DEF EntityIn
<1>4. CASE SyncNext
  <2>1. /\ pc' = "entity" /\ mem'.id \in nodes' /\ todo' = Entities[mem'.text]
    BY <1>4 DEF SyncNext, AddNode
  <2> QED
    BY <1>1, <2>1 DEF EnrichInv, EntitySteps, LateSteps
<1>5. CASE PersistEntity
  <2>1. PICK e \in todo : /\ entities' = [entities EXCEPT ![e] = mem.id]
                          /\ item' = e /\ todo' = todo \ {e}
    BY <1>5 DEF PersistEntity
  <2>2. pc = "entity" /\ pc' = "entity_node" /\ mem' = mem /\ mem.id \in nodes
    BY <1>5 DEF PersistEntity, EnrichInv, EntitySteps
  <2>3. mem.id # None /\ e \in EntityIds
    BY <2>1, <2>2, AtHand, NoneAssumption DEF IInv, OperationInv, EntitySteps, SyncSteps
  <2>4. entities'[item'] # None
    BY <2>1, <2>3 DEF IInv, TypeOK
  <2>5. ASSUME NEW x \in Entities[mem.text] \ (todo' \cup {item'}) PROVE EntityIn(mem, x)'
    <3>1. EntityIn(mem, x)
      BY <2>1, <2>2, <2>5 DEF EnrichInv
    <3> QED
      BY <1>3, <2>2, <3>1 DEF SyncSteps
  <2> QED
    BY <1>1, <1>2, <2>2, <2>4, <2>5 DEF EnrichInv, EntitySteps, LateSteps
<1>6. CASE AddEntityNode
  <2>1. pc = "entity_node" /\ pc' = "entity_relation" /\ UNCHANGED <<mem, todo, item, entities>>
        /\ item \in nodes'
    BY <1>6 DEF AddEntityNode, AddNode, Goto
  <2>2. \A x \in Entities[mem.text] \ (todo \cup {item}) : EntityIn(mem, x)'
    BY <1>3, <2>1 DEF EnrichInv, EntitySteps, SyncSteps
  <2> QED
    BY <1>1, <1>2, <2>1, <2>2 DEF EnrichInv, EntitySteps, LateSteps
<1>7. CASE PersistEntityRelation
  <2>1. pc = "entity_relation" /\ pc' = "entity_edge" /\ UNCHANGED <<mem, todo, item, entities>>
        /\ Associated(mem, item) \in relations'
    BY <1>7 DEF PersistEntityRelation, Goto
  <2>2. \A x \in Entities[mem.text] \ (todo \cup {item}) : EntityIn(mem, x)'
    BY <1>3, <2>1 DEF EnrichInv, EntitySteps, SyncSteps
  <2>3. Associated(mem, item)' \in relations'
    BY <2>1 DEF Associated, RelationBetween
  <2> QED
    BY <1>1, <1>2, <2>1, <2>2, <2>3 DEF EnrichInv, EntitySteps, LateSteps
<1>8. CASE AddEntityEdge
  <2>1. CASE pc' = "idle"
    BY <1>1, <2>1 DEF EnrichInv, EntitySteps, LateSteps
  <2>2. CASE pc' # "idle"
    <3>1. pc = "entity_edge" /\ pc' = "entity" /\ UNCHANGED <<mem, todo, item, entities>>
          /\ Associated(mem, item) \in edges'
      BY <1>8, <2>2 DEF AddEntityEdge, AddEdge, Goto, OpReset
    <3>2. EntityIn(mem, item)'
      <4>1. Associated(mem, item)' = Associated(mem, item)
        BY <3>1 DEF Associated, RelationBetween
      <4>2. entities[item] # None /\ item \in nodes /\ Associated(mem, item) \in relations
        BY <3>1 DEF EnrichInv, EntitySteps
      <4> QED
        BY <1>2, <3>1, <4>1, <4>2 DEF EntityIn
    <3>3. \A x \in Entities[mem.text] \ (todo \cup {item}) : EntityIn(mem, x)'
      BY <1>3, <3>1 DEF EnrichInv, EntitySteps, SyncSteps
    <3>4. \A x \in Entities[mem'.text] \ todo' : EntityIn(mem, x)'
      BY <3>1, <3>2, <3>3
    <3> QED
      BY <1>1, <1>2, <3>1, <3>4 DEF EnrichInv, EntitySteps, LateSteps
  <2> QED
    BY <2>1, <2>2
<1>9. CASE EntitiesDone
  <2>1. pc = "entity" /\ todo = {} /\ pc' = "fact" /\ mem' = mem /\ todo' = Facts[mem.text]
    BY <1>9 DEF EntitiesDone
  <2>2. \A x \in Entities[mem.text] : EntityIn(mem, x)'
    BY <1>3, <2>1 DEF EnrichInv, SyncSteps
  <2> QED
    BY <1>1, <1>2, <2>1, <2>2 DEF EnrichInv, EntitySteps, LateSteps
<1>10. CASE PersistFact
  <2>1. PICK f \in todo : facts' = [facts EXCEPT ![f] = mem.id] /\ todo' = todo \ {f}
    BY <1>10 DEF PersistFact
  <2>2. pc = "fact" /\ pc' = "fact" /\ mem' = mem
    BY <1>10 DEF PersistFact
  <2>3. mem.id # None /\ f \in FactIds
    BY <2>1, <2>2, AtHand, NoneAssumption DEF IInv, OperationInv, EntitySteps, SyncSteps
  <2>4. facts'[f] # None
    BY <2>1, <2>3 DEF IInv, TypeOK
  <2>5. \A g \in Facts[mem.text] \ todo' : facts'[g] # None
    <3>1. \A g \in Facts[mem.text] \ todo : facts[g] # None /\ g \in FactIds
      BY <2>2, AtHand DEF EnrichInv, SyncSteps
    <3> QED
      BY <1>2, <2>1, <2>4, <3>1
  <2>6. \A x \in Entities[mem.text] : EntityIn(mem, x)'
    BY <1>3, <2>2 DEF EnrichInv, SyncSteps
  <2> QED
    BY <1>1, <1>2, <2>2, <2>5, <2>6 DEF EnrichInv, EntitySteps, LateSteps
<1>11. CASE pc \in {"fact"} \cup LateSteps /\ pc' \in LateSteps /\ mem' = mem
            /\ (pc = "fact" => todo = {})
  <2>1. \A x \in Entities[mem.text] : EntityIn(mem, x)'
    BY <1>3, <1>11 DEF EnrichInv, SyncSteps, LateSteps
  <2>2. \A f \in Facts[mem.text] : facts[f] # None /\ f \in FactIds
    BY <1>11, AtHand DEF EnrichInv, SyncSteps, LateSteps
  <2>3. mem.id \in nodes
    BY <1>11 DEF EnrichInv, LateSteps
  <2> QED
    BY <1>1, <1>2, <1>11, <2>1, <2>2, <2>3 DEF EnrichInv, EntitySteps, LateSteps
<1>12. CASE FactsDone \/ SearchRelated \/ PersistRelation \/ RelatedDone
  BY <1>11, <1>12 DEF FactsDone, SearchRelated, PersistRelation, RelatedDone, Goto, LateSteps
<1>13. CASE pc' \notin EntitySteps \cup {"fact"} \cup LateSteps
  BY <1>1, <1>13 DEF EnrichInv, EntitySteps, LateSteps
<1>14. CASE RelateHit \/ AddRelationEdge
  <2>1. CASE pc' = "idle"
    BY <1>13, <2>1 DEF EntitySteps, LateSteps
  <2>2. CASE pc' # "idle"
    BY <1>11, <1>14, <2>2 DEF RelateHit, AddRelationEdge, AddEdge, OpReset, Goto, LateSteps
  <2> QED
    BY <2>1, <2>2
<1>15. CASE SyncReturn \/ MarkSynced \/ Dequeue \/ PersistSyncTrace
  BY <1>13, <1>15 DEF SyncReturn, MarkSynced, Dequeue, PersistSyncTrace, OpReset, Goto,
     EntitySteps, LateSteps
<1>16. CASE StoreFails \/ Crash \/ Close \/ Open
  BY <1>13, <1>16 DEF StoreFails, Crash, Close, ProcessEnds, OpReset, Open, IInv, OperationInv,
     EntitySteps, LateSteps
<1>17. CASE RememberStep
  BY <1>13, <1>17 DEF RememberStep, SaveMemory, PersistVector, AddVector, SetHash, PutHash,
     EnqueueSync, PersistTrace, OpReset, Goto, EntitySteps, LateSteps
<1>18. ASSUME NEW limit \in Limits, Sync(limit) PROVE EnrichInv'
  BY <1>13, <1>18 DEF Sync, EntitySteps, LateSteps
<1>19. ASSUME NEW r \in Embedding, Remember(r) PROVE EnrichInv'
  <2>1. pc' \in {"idle", "save"}
    BY <1>19, RememberCases DEF IInv, Remember, ReinforceBegins, CreateBegins, Create, Begin
  <2> QED
    BY <1>13, <2>1 DEF EntitySteps, LateSteps
<1> QED
  BY <1>4, <1>5, <1>6, <1>7, <1>8, <1>9, <1>10, <1>12, <1>14, <1>15, <1>16, <1>17,
     <1>18, <1>19 DEF Next, SyncStep

-----------------------------------------------------------------------------
(* Relations. *)

(* A relation between memories is what the classifier says of them.        *)
RelationInv ==
  \A r \in relations : r.ends \subseteq Ids =>
    \E a, b \in Stored : r = ClassifiedAs(memories[a], memories[b])

(* Every step keeps RelationInv, for the texts of stored memories stay.    *)
LEMMA RelationStep ==
  ASSUME IInv, CopyInv, RelationInv, Next
  PROVE  RelationInv'
<1> SUFFICES ASSUME NEW r \in relations', r.ends \subseteq Ids
    PROVE \E a, b \in Stored' : r = ClassifiedAs(memories'[a], memories'[b])
  BY DEF RelationInv, ClassifiedAs, RelationBetween
<1>1. ASSUME NEW a \in Stored, NEW b \in Stored, r = ClassifiedAs(memories[a], memories[b])
      PROVE  a \in Stored' /\ b \in Stored' /\ r = ClassifiedAs(memories'[a], memories'[b])
  BY <1>1, ContentKept DEF ClassifiedAs
<1>2. CASE r \in relations
  BY <1>1, <1>2 DEF RelationInv
<1>3. CASE PersistEntityRelation /\ r = Associated(mem, item)
  <2>1. item \in EntityIds
    BY <1>3 DEF PersistEntityRelation, IInv, OperationInv, EntitySteps
  <2>2. item \in r.ends
    BY <1>3 DEF Associated, RelationBetween
  <2> QED
    BY <2>1, <2>2, IdsApart
<1>4. CASE PersistRelation /\ r = ClassifiedAs(mem, memories[item])
  <2>1. mem.id \in Stored /\ mem = memories[mem.id] /\ item \in Stored
    BY <1>4 DEF PersistRelation, IInv, BatchInv, OperationInv, SyncSteps
  <2> QED
    BY <1>1, <1>4, <2>1
<1>5. CASE relations' = relations
  BY <1>2, <1>5
<1>6. \/ relations' = relations
      \/ PersistEntityRelation /\ relations' = relations \cup {Associated(mem, item)}
      \/ PersistRelation /\ relations' = relations \cup {ClassifiedAs(mem, memories[item])}
  BY RememberFrame, RememberCases DEF IInv, Next, SyncStep, Sync,
     ReinforceBegins, CreateBegins, Create, Begin, SyncNext, SyncReturn,
     PersistEntity, AddEntityNode, PersistEntityRelation, AddEntityEdge, EntitiesDone,
     PersistFact, FactsDone, SearchRelated, RelateHit, PersistRelation, AddRelationEdge,
     RelatedDone, MarkSynced, Dequeue, PersistSyncTrace, StoreFails, Crash, Close,
     ProcessEnds, Open
<1> QED
  BY <1>2, <1>3, <1>4, <1>5, <1>6

(* The classifier's verdict on a pair does not depend on the side.         *)
SymmetricVerdicts == \A t, u \in Texts : RelationType[<<t, u>>] = RelationType[<<u, t>>]

(* Classifying a pair from its other side gives the same relation.         *)
LEMMA ClassifiedEitherWay ==
  ASSUME SymmetricVerdicts, NEW m \in Memory, NEW o \in Memory
  PROVE  ClassifiedAs(m, o) = ClassifiedAs(o, m)
BY DEF SymmetricVerdicts, ClassifiedAs, RelationBetween, Memory

(* Two relations of one pair are then the same.                            *)
LEMMA RelationsUnique ==
  ASSUME IInv, RelationInv, SymmetricVerdicts
  PROVE  OneRelationPerPair
<1> SUFFICES ASSUME NEW r \in relations, NEW s \in relations, r.ends = s.ends, r.ends \subseteq Ids
    PROVE r = s
  BY DEF OneRelationPerPair
<1>1. PICK a, b \in Stored : r = ClassifiedAs(memories[a], memories[b])
  BY DEF RelationInv
<1>2. PICK c, d \in Stored : s = ClassifiedAs(memories[c], memories[d])
  BY DEF RelationInv
<1>3. \A i \in Stored : memories[i] \in Memory /\ memories[i].id = i
  BY DEF IInv, TypeOK, Stored
<1>4. r.ends = {a, b} /\ s.ends = {c, d}
  BY <1>1, <1>2, <1>3 DEF ClassifiedAs, RelationBetween
<1>5. (a = c /\ b = d) \/ (a = d /\ b = c)
  <2>1. {a, b} = {c, d}
    BY <1>4
  <2>2. a \in {c, d} /\ b \in {c, d} /\ c \in {a, b} /\ d \in {a, b}
    BY <2>1
  <2> QED
    BY <2>2
<1>6. CASE a = c /\ b = d
  BY <1>1, <1>2, <1>6
<1>7. CASE a = d /\ b = c
  BY <1>1, <1>2, <1>3, <1>7, ClassifiedEitherWay
<1> QED
  BY <1>5, <1>6, <1>7

-----------------------------------------------------------------------------
(* Related memories. *)

(* Two memories that a search from either one finds the other for.         *)
Alike(i, j) ==
  /\ i # j /\ vectors[i] # None /\ vectors[j] # None
  /\ vectors[i].scope = vectors[j].scope
  /\ <<vectors[i].text, vectors[j].text>> \in Related
Linked(i, j) == ClassifiedAs(memories[i], memories[j]) \in relations \cap edges
LinkedTo(W, i) == \A j \in W : Alike(i, j) => Linked(i, j)

(* The memories of W are linked to each other, and the one that is being   *)
(* related to those of W that have had their turn.                         *)
LinksOf(W) ==
  /\ \A i \in W : LinkedTo(W, i)
  /\ pc = "relate" => LinkedTo(W \ todo, mem.id)
  /\ pc \in {"relation", "edge"} => LinkedTo(W \ (todo \cup {item}), mem.id)
  /\ pc = "edge" => ClassifiedAs(mem, memories[item]) \in relations
  /\ pc = "mark" => LinkedTo(W, mem.id)

(* The stored memories that are synced, and some that have been, maybe.    *)
WereSynced(W) ==
  /\ InStatus("synced") \subseteq W /\ W \subseteq Stored
  /\ pc = "persist_vector" => mem.id \notin W

(* A search is not cut: it may return as many memories as there are.       *)
SearchesWhole == IsFiniteSet(Ids) /\ Cardinality(Ids) <= SyncTopK

(* Being alike does not depend on the side.                                *)
LEMMA AlikeEitherWay ==
  ASSUME NEW i, NEW j, Alike(i, j)
  PROVE  Alike(j, i)
BY ConstantsAssumption DEF Alike, Symmetric

(* Nor does being linked.                                                  *)
LEMMA LinkedEitherWay ==
  ASSUME IInv, SymmetricVerdicts, NEW i \in Stored, NEW j \in Stored, Linked(i, j)
  PROVE  Linked(j, i)
<1>1. memories[i] \in Memory /\ memories[j] \in Memory
  BY DEF IInv, TypeOK, Stored
<1> QED
  BY <1>1, ClassifiedEitherWay DEF Linked

(* What is linked stays linked.                                            *)
LEMMA LinkStays ==
  ASSUME IInv, CopyInv, Next, NEW i \in Stored, NEW j \in Stored, Linked(i, j)
  PROVE  Linked(i, j)'
<1>1. ClassifiedAs(memories[i], memories[j])' = ClassifiedAs(memories[i], memories[j])
  BY ContentKept DEF ClassifiedAs
<1> QED
  BY <1>1, GraphGrows DEF Linked, IInv

(* A memory gets its vector, if it gets one, as long as it is pending.     *)
LEMMA VectorOnce ==
  ASSUME IInv, CopyInv, Next,
         NEW i \in Ids, ~ (pc = "persist_vector" /\ i = mem.id)
  PROVE  vectors'[i] = vectors[i]
<1>1. CASE PersistVector
  <2>1. i # mem.id /\ mem.id \in Ids
    BY <1>1 DEF PersistVector, IInv, TypeOK, Memory, RememberSteps
  <2> QED
    BY <1>1, <2>1 DEF PersistVector, IInv, TypeOK
<1>2. CASE vectors' = vectors
  BY <1>2
<1> QED
  BY <1>1, <1>2, SyncFrame, RememberCases DEF IInv, Next, RememberStep, Sync,
     ReinforceBegins, CreateBegins, Create, Begin, SaveMemory, AddVector,
     SetHash, PutHash, EnqueueSync, PersistTrace, StoreFails, Crash, ProcessEnds,
     Close, Open

(* The memories that are synced after a step were before, or it marked one.*)
LEMMA SyncedBefore ==
  ASSUME IInv, CopyInv, Next, NEW j \in InStatus("synced")', ~ (MarkSynced /\ j = mem.id)
  PROVE  /\ j \in InStatus("synced") /\ j \in Stored /\ j \in Ids
         /\ vectors'[j] = vectors[j]
<1>1. j \in Ids /\ memories'[j] # None /\ memories'[j].status = "synced"
  BY DEF InStatus, Stored
<1>2. memories'[j] = memories[j]
  <2>1. CASE SaveMemory
    BY <1>1, <2>1, SavedMemory
  <2>2. CASE MarkSynced
    BY <1>1, <2>2, MarkedMemory
  <2> QED
    BY <2>1, <2>2, MemoryFrame DEF IInv
<1>3. j \in InStatus("synced") /\ j \in Stored
  BY <1>1, <1>2 DEF InStatus, Stored
<1>4. ~ (pc = "persist_vector" /\ j = mem.id)
  BY <1>3 DEF InStatus, CopyInv, RememberSteps
<1> QED
  BY <1>1, <1>3, <1>4, VectorOnce

(* A memory that was linked to some of W still is.                         *)
LEMMA LinksStay ==
  ASSUME IInv, CopyInv, Next, NEW W, WereSynced(W), NEW V \in SUBSET W,
         NEW i \in Stored, ~ (pc = "persist_vector" /\ i = mem.id), LinkedTo(V, i)
  PROVE  LinkedTo(V, i)'
<1> SUFFICES ASSUME NEW j \in V, Alike(i, j)'
    PROVE Linked(i, j)'
  BY DEF LinkedTo
<1>1. j \in Stored /\ vectors'[j] = vectors[j] /\ vectors'[i] = vectors[i]
  BY VectorOnce DEF WereSynced, Stored
<1>2. Alike(i, j)
  BY <1>1 DEF Alike
<1>3. Linked(i, j)
  BY <1>2 DEF LinkedTo
<1> QED
  BY <1>1, <1>3, LinkStays

(* And so is the one that is being related.                                *)
LEMMA CurrentLinksStay ==
  ASSUME IInv, CopyInv, Next, NEW W, WereSynced(W), NEW V \in SUBSET W,
         pc \in SyncSteps \ {"next"}, mem' = mem, LinkedTo(V, mem.id)
  PROVE  LinkedTo(V, mem.id)'
<1>1. mem.id \in Stored /\ pc # "persist_vector"
  BY DEF IInv, BatchInv, SyncSteps
<1>2. PICK i \in Stored : i = mem.id
  BY <1>1
<1>3. LinkedTo(V, i)'
  BY <1>1, <1>2, LinksStay
<1> QED
  BY <1>2, <1>3 DEF LinkedTo, Alike, Linked

(* The search finds whatever is alike.                                     *)
LEMMA SearchFindsAlike ==
  ASSUME IInv, CopyInv, SearchRelated, SearchesWhole, NEW j \in Stored, Alike(mem.id, j)
  PROVE  j \in todo'
<1>1. pc = "search" /\ mem.id \in Ids /\ open /\ vectors[mem.id] # None /\ j # mem.id
  BY AtHand DEF SearchRelated, SyncSteps, IInv, OperationInv, Alike
<1>2. PICK S \in SearchResults(vectors[mem.id]) : todo' = S \ {mem.id}
  BY <1>1 DEF SearchRelated
<1>3. RelatedCandidates(vectors[mem.id]) \subseteq Ids
  BY DEF RelatedCandidates
<1>4. /\ Cardinality(RelatedCandidates(vectors[mem.id])) \in Nat
      /\ Cardinality(Ids) \in Nat /\ SyncTopK \in Nat
      /\ Cardinality(RelatedCandidates(vectors[mem.id])) <= Cardinality(Ids)
  BY <1>3, FS_Subset, FS_CardinalityType, ConstantsAssumption DEF SearchesWhole
<1>5. S = RelatedCandidates(vectors[mem.id])
  BY <1>2, <1>4 DEF SearchResults, SearchesWhole
<1>6. vectorIndex[j] = vectors[j] /\ j \in Ids
  BY <1>1 DEF IInv, IndexInv, Stored
<1>7. j \in S
  BY <1>5, <1>6 DEF Alike, RelatedCandidates
<1> QED
  BY <1>1, <1>2, <1>7

(* Every step keeps the links of W: the search finds whatever is alike,    *)
(* and what has left todo is linked, or is not stored.  The memory that is *)
(* marked joins W.                                                         *)
LEMMA LinkStep ==
  ASSUME IInv, CopyInv, NEW W, WereSynced(W), LinksOf(W), Next, SymmetricVerdicts,
         SearchesWhole, NEW V \in SUBSET (W \cup InStatus("synced")')
  PROVE  LinksOf(V)'
<1>v. ~ MarkSynced => V \subseteq W
  BY SyncedBefore DEF WereSynced
<1>m. V \subseteq W \cup {mem.id}
  BY SyncedBefore DEF WereSynced
<1>w. \A i \in W : i \in Stored /\ ~ (pc = "persist_vector" /\ i = mem.id)
  BY DEF WereSynced
<1>1. ASSUME ~ MarkSynced PROVE \A i \in V : LinkedTo(V, i)'
  <2> SUFFICES ASSUME NEW i \in V PROVE LinkedTo(V, i)'
    OBVIOUS
  <2>1. i \in W /\ LinkedTo(V, i)
    BY <1>v, <1>1 DEF LinksOf, LinkedTo
  <2> QED
    BY <1>v, <1>w, <1>1, <2>1, LinksStay
<1>2. ASSUME ~ MarkSynced, pc \in SyncSteps \ {"next"}, mem' = mem,
             NEW but, LinkedTo(W \ but, mem.id)
      PROVE  LinkedTo(V \ but, mem.id)'
  <2>1. V \ but \in SUBSET W /\ LinkedTo(V \ but, mem.id)
    BY <1>v, <1>2 DEF LinkedTo
  <2> QED
    BY <1>2, <2>1, CurrentLinksStay
<1>3. CASE ~ MarkSynced /\ pc' \notin RelateSteps \cup {"mark"}
  BY <1>1, <1>3 DEF LinksOf, RelateSteps
<1>4. CASE SearchRelated
  <2>1. pc = "search" /\ pc' = "relate" /\ mem' = mem /\ ~ MarkSynced
    BY <1>4 DEF SearchRelated, MarkSynced
  <2>2. PICK but : but = todo'
    OBVIOUS
  <2>3. LinkedTo(W \ but, mem.id)
    BY <1>4, <1>w, <2>2, SearchFindsAlike DEF LinkedTo
  <2>4. LinkedTo(V \ but, mem.id)'
    BY <1>2, <2>1, <2>3 DEF SyncSteps
  <2> QED
    BY <1>1, <2>1, <2>2, <2>4 DEF LinksOf, LinkedTo
<1>5. CASE RelateHit
  <2>1. PICK i \in todo :
          \/ memories[i] = None /\ todo' = todo \ {i} /\ pc' = "relate" /\ mem' = mem
          \/ pc' = "idle"
          \/ pc' = "relation" /\ item' = i /\ todo' = todo \ {i} /\ mem' = mem
    BY <1>5 DEF RelateHit, OpReset
  <2>2. pc = "relate" /\ ~ MarkSynced /\ LinkedTo(W \ todo, mem.id)
    BY <1>5 DEF RelateHit, MarkSynced, LinksOf
  <2>3. PICK but : but = todo
    OBVIOUS
  <2>4. mem' = mem => LinkedTo(V \ but, mem.id)'
    BY <1>2, <2>2, <2>3 DEF SyncSteps
  <2>5. CASE memories[i] = None /\ todo' = todo \ {i} /\ pc' = "relate" /\ mem' = mem
    <3>1. i \notin V
      BY <1>v, <1>w, <2>2, <2>5 DEF Stored
    <3>2. LinkedTo(V \ todo, mem.id)'
      BY <2>3, <2>4, <2>5, <3>1 DEF LinkedTo
    <3> QED
      BY <1>1, <2>2, <2>5, <3>2 DEF LinksOf
  <2>6. CASE pc' = "idle"
    BY <1>3, <2>2, <2>6 DEF RelateSteps
  <2>7. CASE pc' = "relation" /\ item' = i /\ todo' = todo \ {i} /\ mem' = mem
    <3>1. LinkedTo(V \ (todo \cup {item}), mem.id)'
      BY <2>3, <2>4, <2>7 DEF LinkedTo
    <3> QED
      BY <1>1, <2>2, <2>7, <3>1 DEF LinksOf
  <2> QED
    BY <2>1, <2>5, <2>6, <2>7
<1>6. CASE PersistRelation
  <2>1. /\ pc = "relation" /\ pc' = "edge" /\ UNCHANGED <<mem, todo, item, memories>>
        /\ ClassifiedAs(mem, memories[item]) \in relations' /\ ~ MarkSynced
    BY <1>6 DEF PersistRelation, Goto, MarkSynced
  <2>2. PICK but : but = todo \cup {item}
    OBVIOUS
  <2>3. LinkedTo(W \ but, mem.id)
    BY <2>1, <2>2 DEF LinksOf
  <2>4. LinkedTo(V \ but, mem.id)'
    BY <1>2, <2>1, <2>3 DEF SyncSteps
  <2>5. LinkedTo(V \ (todo \cup {item}), mem.id)'
    BY <2>1, <2>2, <2>4 DEF LinkedTo
  <2>6. ClassifiedAs(mem, memories[item])' \in relations'
    BY <2>1 DEF ClassifiedAs
  <2> QED
    BY <1>1, <2>1, <2>5, <2>6 DEF LinksOf
<1>7. CASE AddRelationEdge
  <2>1. pc = "edge" /\ ~ MarkSynced
    BY <1>7 DEF AddRelationEdge, MarkSynced
  <2>2. CASE pc' = "idle"
    BY <1>3, <2>1, <2>2 DEF RelateSteps
  <2>3. CASE pc' # "idle"
    <3>1. /\ pc' = "relate" /\ UNCHANGED <<mem, todo, item, memories, relations>>
          /\ ClassifiedAs(mem, memories[item]) \in edges'
      BY <1>7, <2>3 DEF AddRelationEdge, AddEdge, Goto, OpReset
    <3>2. PICK but : but = todo \cup {item}
      OBVIOUS
    <3>3. LinkedTo(W \ but, mem.id)
      BY <2>1, <3>2 DEF LinksOf
    <3>4. LinkedTo(V \ but, mem.id)'
      BY <1>2, <2>1, <3>1, <3>3 DEF SyncSteps
    <3>5. memories[mem.id] = mem
      BY <2>1 DEF IInv, BatchInv, SyncSteps
    <3>6. Linked(mem.id, item)'
      BY <2>1, <3>1, <3>5 DEF Linked, LinksOf, ClassifiedAs
    <3>7. LinkedTo(V \ todo, mem.id)'
      BY <3>1, <3>2, <3>4, <3>6 DEF LinkedTo
    <3> QED
      BY <1>1, <2>1, <3>1, <3>7 DEF LinksOf
  <2> QED
    BY <2>2, <2>3
<1>8. CASE RelatedDone
  <2>1. /\ pc = "relate" /\ pc' = "mark" /\ mem' = mem /\ todo = {} /\ ~ MarkSynced
    BY <1>8 DEF RelatedDone, Goto, MarkSynced
  <2>2. LinkedTo(W \ {}, mem.id)
    BY <2>1 DEF LinksOf
  <2>3. LinkedTo(V \ {}, mem.id)'
    BY <1>2, <2>1, <2>2 DEF SyncSteps
  <2>4. LinkedTo(V, mem.id)'
    BY <2>3 DEF LinkedTo
  <2> QED
    BY <1>1, <2>1, <2>4 DEF LinksOf
<1>9. CASE MarkSynced
  <2>1. /\ pc = "mark" /\ pc' = "dequeue" /\ mem.id \in Stored /\ LinkedTo(W, mem.id)
        /\ vectors' = vectors
    BY <1>9, MarkedMemory DEF MarkSynced, Goto, LinksOf
  <2>2. ASSUME NEW i \in V, NEW j \in V, Alike(i, j)'
        PROVE  Linked(i, j)'
    <3>1. Alike(i, j) /\ i # j
      BY <2>1, <2>2 DEF Alike
    <3>2. i \in Stored /\ j \in Stored
      BY <1>m, <1>w, <2>1
    <3>3. CASE i \in W /\ j \in W
      BY <3>1, <3>2, <3>3, LinkStays DEF LinksOf, LinkedTo
    <3>4. CASE i = mem.id /\ j \in W
      BY <2>1, <3>1, <3>2, <3>4, LinkStays DEF LinkedTo
    <3>5. CASE j = mem.id /\ i \in W
      <4>1. Linked(j, i)
        BY <2>1, <3>1, <3>2, <3>5, AlikeEitherWay DEF LinkedTo
      <4> QED
        BY <3>2, <4>1, LinkedEitherWay, LinkStays
    <3> QED
      BY <1>m, <3>1, <3>3, <3>4, <3>5
  <2>3. \A i \in V : LinkedTo(V, i)'
    BY <2>2 DEF LinkedTo
  <2> QED
    BY <2>1, <2>3 DEF LinksOf
<1>10. CASE pc # "mark" /\ pc' \notin RelateSteps \cup {"mark"}
  BY <1>3, <1>10 DEF MarkSynced
<1>11. CASE SyncNext \/ SyncReturn \/ PersistEntity \/ AddEntityNode \/ PersistEntityRelation
            \/ AddEntityEdge \/ EntitiesDone \/ PersistFact \/ FactsDone \/ Dequeue
            \/ PersistSyncTrace
  BY <1>10, <1>11 DEF SyncNext, SyncReturn, PersistEntity, AddEntityNode, PersistEntityRelation,
     AddEntityEdge, AddEdge, EntitiesDone, PersistFact, FactsDone, Dequeue, PersistSyncTrace,
     OpReset, Goto, RelateSteps
<1>12. CASE StoreFails \/ Crash \/ Close \/ Open
  <2>1. pc' = "idle" /\ memories' = memories /\ clock' = clock
    BY <1>12 DEF StoreFails, Crash, Close, ProcessEnds, OpReset, Open, IInv, OperationInv
  <2>2. ~ MarkSynced
    BY <2>1 DEF MarkSynced, Goto
  <2> QED
    BY <1>3, <2>1, <2>2 DEF RelateSteps
<1>13. CASE RememberStep
  <2>1. pc # "mark"
    BY <1>13, RememberFrame DEF RememberSteps
  <2> QED
    BY <1>10, <1>13, <2>1 DEF RememberStep, SaveMemory, PersistVector, AddVector, SetHash, PutHash,
       EnqueueSync, PersistTrace, OpReset, Goto, RelateSteps
<1>14. ASSUME NEW limit \in Limits, Sync(limit) PROVE LinksOf(V)'
  BY <1>10, <1>14 DEF Sync, RelateSteps
<1>15. ASSUME NEW r \in Embedding, Remember(r) PROVE LinksOf(V)'
  <2>1. pc = "idle" /\ pc' \in {"idle", "save"}
    BY <1>15, RememberCases DEF IInv, Remember, ReinforceBegins, CreateBegins, Create, Begin
  <2> QED
    BY <1>10, <2>1 DEF RelateSteps
<1> QED
  BY <1>4, <1>5, <1>6, <1>7, <1>8, <1>9, <1>11, <1>12, <1>13, <1>14, <1>15 DEF Next, SyncStep

-----------------------------------------------------------------------------
(* Without faults. *)

(* As long as nothing has failed, the queue lists the pending memories, up *)
(* to the one whose entry is being written or removed.                     *)
Queued ==
  IF pc \in RememberSteps \ {"save", "trace"} THEN syncQueue \cup {mem.id}
  ELSE IF pc = "dequeue" THEN syncQueue \ {mem.id}
  ELSE syncQueue
QueueInv == faults = 0 => InStatus("pending_sync") = Queued

(* As long as nothing has failed, every memory is bound to its content, up *)
(* to the one being created, and no other has the content of that one.     *)
UnboundSteps == {"persist_vector", "add_vector", "set_hash", "put_hash"}
UniqueInv ==
  faults = 0 =>
    /\ \A i \in Stored :
         \/ hashStore[Hash[memories[i].text]] = i
         \/ pc \in UnboundSteps /\ action = "create_new" /\ i = mem.id
    /\ pc \in {"save"} \cup UnboundSteps /\ action = "create_new" =>
         \A i \in Stored \ {mem.id} : Hash[memories[i].text] # Hash[mem.text]

(* A step that fails is counted, and nothing is forgotten.                 *)
LEMMA FaultsCounted ==
  ASSUME TypeOK, Next, faults' = 0
  PROVE  faults = 0 /\ ~ StoreFails /\ ~ Crash
<1>1. faults \in Nat
  BY DEF TypeOK
<1>2. ~ StoreFails /\ ~ Crash
  BY <1>1 DEF StoreFails, Crash
<1>3. faults' = faults
  BY <1>2, RememberFrame, RememberCases DEF Next, RememberStep, SyncStep, Sync,
     ReinforceBegins, CreateBegins, Create, Begin, SaveMemory, PersistVector, AddVector, SetHash,
     PutHash, EnqueueSync, PersistTrace, SyncNext, SyncReturn, PersistEntity, AddEntityNode,
     PersistEntityRelation, AddEntityEdge, EntitiesDone, PersistFact, FactsDone,
     SearchRelated, RelateHit, PersistRelation, AddRelationEdge, RelatedDone,
     MarkSynced, Dequeue, PersistSyncTrace, Close, Open
<1> QED
  BY <1>2, <1>3

(* Every step keeps QueueInv.                                              *)
LEMMA QueueStep ==
  ASSUME IInv, CopyInv, QueueInv, Next
  PROVE  QueueInv'
<1> SUFFICES ASSUME faults' = 0 PROVE InStatus("pending_sync")' = Queued'
  BY DEF QueueInv
<1>1. InStatus("pending_sync") = Queued /\ ~ StoreFails /\ ~ Crash
  BY FaultsCounted DEF QueueInv, IInv
<1>2. ASSUME memories' = memories PROVE InStatus("pending_sync")' = InStatus("pending_sync")
  BY <1>2 DEF InStatus, Stored
<1>3. CASE SaveMemory
  <2>1. InStatus("pending_sync")' = InStatus("pending_sync") \cup {mem.id}
    BY <1>3, SavedMemory DEF InStatus, Stored
  <2>2. pc = "save" /\ pc' \in {"persist_vector", "set_hash"} /\ UNCHANGED <<mem, syncQueue>>
    BY <1>3 DEF SaveMemory, Goto
  <2> QED
    BY <1>1, <2>1, <2>2 DEF Queued, RememberSteps
<1>4. CASE EnqueueSync
  BY <1>1, <1>2, <1>4 DEF EnqueueSync, Goto, Queued, RememberSteps
<1>5. CASE MarkSynced
  <2>1. InStatus("pending_sync")' = InStatus("pending_sync") \ {mem.id}
    BY <1>5, MarkedMemory DEF InStatus, Stored
  <2>2. pc = "mark" /\ pc' = "dequeue" /\ UNCHANGED <<mem, syncQueue>>
    BY <1>5 DEF MarkSynced, Goto
  <2> QED
    BY <1>1, <2>1, <2>2 DEF Queued, RememberSteps
<1>6. CASE Dequeue
  BY <1>1, <1>2, <1>6 DEF Dequeue, Goto, Queued, RememberSteps
<1>7. CASE PersistVector \/ AddVector \/ SetHash \/ PutHash \/ PersistTrace
  BY <1>1, <1>2, <1>7 DEF PersistVector, AddVector, SetHash, PutHash, PersistTrace, Goto,
     OpReset, Queued, RememberSteps
<1>8. CASE /\ UNCHANGED <<memories, syncQueue>>
           /\ pc \notin RememberSteps \cup {"dequeue"} /\ pc' \notin RememberSteps \ {"save"}
           /\ pc' # "dequeue"
  BY <1>1, <1>2, <1>8 DEF Queued
<1>9. CASE SyncStep
  BY <1>5, <1>6, <1>8, <1>9 DEF SyncStep, SyncNext, SyncReturn, PersistEntity, AddEntityNode,
     PersistEntityRelation, AddEntityEdge, AddEdge, EntitiesDone, PersistFact, FactsDone,
     SearchRelated, RelateHit, PersistRelation, AddRelationEdge, RelatedDone, PersistSyncTrace,
     OpReset, Goto, RememberSteps
<1>10. CASE Close \/ Open
  BY <1>8, <1>10 DEF Close, ProcessEnds, OpReset, Open, IInv, OperationInv, RememberSteps
<1>11. ASSUME NEW limit \in Limits, Sync(limit) PROVE InStatus("pending_sync")' = Queued'
  BY <1>8, <1>11 DEF Sync, RememberSteps
<1>12. ASSUME NEW r \in Embedding, Remember(r) PROVE InStatus("pending_sync")' = Queued'
  <2>1. pc = "idle" /\ pc' \in {"idle", "save"} /\ UNCHANGED <<memories, syncQueue>>
    BY <1>12, RememberCases DEF IInv, Remember, ReinforceBegins, CreateBegins, Create, Begin
  <2> QED
    BY <1>8, <2>1 DEF RememberSteps
<1> QED
  BY <1>1, <1>3, <1>4, <1>7, <1>9, <1>10, <1>11, <1>12 DEF Next, RememberStep

(* Every step keeps UniqueInv: a content that is stored is bound, so that  *)
(* the detector matches it before it searches.                             *)
LEMMA UniqueStep ==
  ASSUME IInv, CopyInv, UniqueInv, Next
  PROVE  UniqueInv'
<1> DEFINE Bound(i) == hashStore[Hash[memories[i].text]] = i
<1> DEFINE Others == \A i \in Stored \ {mem.id} : Hash[memories[i].text] # Hash[mem.text]
<1> DEFINE Kept ==
      /\ \A i \in Stored' :
           Bound(i)' \/ (pc' \in UnboundSteps /\ action' = "create_new" /\ i = mem'.id)
      /\ pc' \in {"save"} \cup UnboundSteps /\ action' = "create_new" => Others'
<1> SUFFICES ASSUME faults' = 0 PROVE Kept
  BY DEF UniqueInv
<1>1. /\ \A i \in Stored : Bound(i) \/ (pc \in UnboundSteps /\ action = "create_new" /\ i = mem.id)
      /\ pc \in {"save"} \cup UnboundSteps /\ action = "create_new" => Others
  BY FaultsCounted DEF UniqueInv, IInv
<1>2. ASSUME NEW i \in Stored, Bound(i) PROVE Bound(i)'
  <2>1. Hash[memories[i].text] \in Hashes /\ memories'[i].text = memories[i].text /\ i # None
    BY ContentKept, NoneAssumption, ConstantsAssumption DEF IInv, TypeOK, Stored, Memory
  <2> QED
    BY <1>2, <2>1, BindingStep
<1>3. \A i \in Stored : memories'[i].text = memories[i].text
  BY ContentKept
<1>4. CASE pc \notin UnboundSteps /\ Stored' = Stored /\ pc' \notin {"save"} \cup UnboundSteps
  BY <1>1, <1>2, <1>4
<1>5. CASE SaveMemory
  <2>1. /\ pc = "save" /\ pc' \in UnboundSteps /\ UNCHANGED <<action, mem>>
        /\ action \in {"create_new", "reinforce"}
    BY <1>5 DEF SaveMemory, Goto, UnboundSteps, IInv, OperationInv, RememberSteps
  <2>2. Stored' = Stored \cup {mem.id} /\ (action = "reinforce" => mem.id \in Stored)
    BY <1>5, <2>1, SavedMemory DEF IInv, OperationInv, RememberSteps
  <2> QED
    BY <1>1, <1>2, <1>3, <2>1, <2>2 DEF UnboundSteps
<1>6. CASE PersistVector \/ AddVector \/ SetHash
  <2>1. /\ pc \in UnboundSteps /\ pc' \in UnboundSteps /\ UNCHANGED <<action, mem, memories>>
        /\ Stored' = Stored
    BY <1>6 DEF PersistVector, AddVector, SetHash, Goto, UnboundSteps, Stored
  <2> QED
    BY <1>1, <1>2, <1>3, <2>1
<1>7. CASE PutHash
  <2>1. /\ pc = "put_hash" /\ pc' = "enqueue" /\ UNCHANGED <<action, mem, memories>>
        /\ Stored' = Stored /\ hashStore' = [hashStore EXCEPT ![Hash[req.text]] = mem.id]
    BY <1>7 DEF PutHash, Goto, Stored
  <2>2. action = "create_new" => Bound(mem.id)'
    <3>1. action = "create_new" => mem.text = req.text
      BY <2>1 DEF IInv, OperationInv, RememberSteps, EmbeddingOf
    <3>2. memories[mem.id] = mem /\ mem.text \in Texts
      BY <2>1 DEF IInv, TypeOK, CopyInv, RememberSteps, Memory
    <3>3. Hash[mem.text] \in Hashes
      BY <3>2, ConstantsAssumption
    <3> QED
      BY <2>1, <3>1, <3>2, <3>3 DEF IInv, TypeOK
  <2> QED
    BY <1>1, <1>2, <2>1, <2>2 DEF UnboundSteps
<1>8. CASE EnqueueSync \/ PersistTrace
  BY <1>4, <1>8 DEF EnqueueSync, PersistTrace, Goto, OpReset, UnboundSteps, Stored
<1>9. CASE SyncStep
  <2>1. Stored' = Stored
    <3>1. ~ SaveMemory
      BY <1>9, SyncFrame DEF SaveMemory, SyncSteps
    <3> QED
      BY <3>1, MemoryFrame, MarkedMemory DEF IInv, Stored
  <2> QED
    BY <1>4, <1>9, <2>1, SyncFrame DEF SyncSteps, UnboundSteps
<1>10. CASE Close \/ Open
  BY <1>4, <1>10 DEF Close, ProcessEnds, OpReset, Open, IInv, OperationInv, UnboundSteps, Stored
<1>11. ASSUME NEW limit \in Limits, Sync(limit) PROVE Kept
  <2>1. pc \notin UnboundSteps /\ Stored' = Stored /\ pc' \notin {"save"} \cup UnboundSteps
    BY <1>11 DEF Sync, UnboundSteps, Stored
  <2> QED
    BY <1>4, <2>1
<1>12. ASSUME NEW r \in Embedding, Remember(r)
       PROVE  /\ pc \notin UnboundSteps /\ Stored' = Stored /\ pc' \notin UnboundSteps
              /\ pc' = "save" /\ action' = "create_new" => Others'
  <2>1. CASE UNCHANGED vars
    BY <1>12, <2>1 DEF Remember, Stored, UnboundSteps
  <2>2. CASE ReinforceBegins(r)
    BY <2>2 DEF ReinforceBegins, Begin, UnboundSteps, Stored
  <2>3. CASE CreateBegins(r)
    <3>1. /\ open /\ pc = "idle" /\ pc' = "save" /\ memories' = memories /\ hashStore' = hashStore
          /\ EmbeddingOf(mem') = r /\ hashIndex[Hash[r.text]] = None
      BY <2>3, CreatedMemory DEF IInv
    <3>2. mem'.text = r.text
      BY <3>1 DEF EmbeddingOf
    <3>3. hashStore[Hash[r.text]] = None
      BY <3>1, HashType DEF IInv, IndexInv
    <3>4. \A i \in Stored : hashStore[Hash[memories[i].text]] = i /\ i # None
      BY <1>1, <3>1, NoneAssumption DEF UnboundSteps, Stored
    <3> QED
      BY <3>1, <3>2, <3>3, <3>4 DEF UnboundSteps, Stored
  <2> QED
    BY <1>12, <2>1, <2>2, <2>3, RememberCases DEF IInv
<1>13. ASSUME NEW r \in Embedding, Remember(r) PROVE Kept
  BY <1>1, <1>2, <1>12, <1>13
<1>14. ~ StoreFails /\ ~ Crash
  BY FaultsCounted DEF IInv
<1> HIDE DEF Kept
<1> QED
  BY <1>5, <1>6, <1>7, <1>8, <1>9, <1>10, <1>11, <1>13, <1>14 DEF Next, RememberStep

(* A content that is stored twice would be bound twice.                    *)
LEMMA OneMemoryPerContent == CopyInv /\ UniqueInv => UniqueContent
<1> SUFFICES ASSUME CopyInv, UniqueInv, faults = 0, NEW i \in Stored, NEW j \in Stored,
                    Hash[memories[i].text] = Hash[memories[j].text], i # j
    PROVE FALSE
  BY DEF UniqueContent
<1>1. CASE i = mem.id \/ j = mem.id
  <2>1. ~ (pc \in UnboundSteps /\ action = "create_new")
    <3>1. pc \in UnboundSteps => memories[mem.id] = mem
      BY DEF CopyInv, UnboundSteps, RememberSteps
    <3> QED
      BY <1>1, <3>1 DEF UniqueInv
  <2> QED
    BY <2>1 DEF UniqueInv
<1>2. CASE i # mem.id /\ j # mem.id
  BY <1>2 DEF UniqueInv
<1> QED
  BY <1>1, <1>2

-----------------------------------------------------------------------------
(* The theorems about the graph, the queue and the bindings. *)

FullInv == IInv /\ CopyInv /\ EnrichInv /\ RelationInv /\ QueueInv /\ UniqueInv

(* The second invariant holds at first.                                    *)
LEMMA FullInit == Init => FullInv
<1> SUFFICES ASSUME Init PROVE FullInv
  OBVIOUS
<1>1. IInv /\ Stored = {}
  BY InitInv DEF Init, Stored
<1>2. CopyInv /\ EnrichInv
  BY <1>1 DEF Init, CopyInv, EnrichInv, SyncedIsEnriched, InStatus, RememberSteps,
     EntitySteps, LateSteps
<1>3. RelationInv /\ QueueInv /\ UniqueInv
  BY <1>1 DEF Init, RelationInv, QueueInv, Queued, UniqueInv, InStatus, RememberSteps, UnboundSteps
<1> QED
  BY <1>1, <1>2, <1>3 DEF FullInv

(* The second invariant is kept by every step.                             *)
LEMMA FullStep == FullInv /\ [Next]_vars => FullInv'
<1> SUFFICES ASSUME FullInv, [Next]_vars PROVE FullInv'
  OBVIOUS
<1>1. CASE Next
  BY <1>1, StepInv, CopyStep, EnrichStep, RelationStep, QueueStep, UniqueStep DEF FullInv
<1>2. CASE UNCHANGED vars
  <2>1. Stored' = Stored /\ \A s : InStatus(s)' = InStatus(s)
    BY <1>2 DEF Stored, InStatus
  <2>2. IInv' /\ CopyInv'
    BY <1>2, StepInv DEF FullInv, CopyInv, EmbeddingOf
  <2>3. EnrichInv'
    BY <1>2, <2>1 DEF FullInv, EnrichInv, EntityIn, SyncedIsEnriched, Associated, RelationBetween
  <2>4. RelationInv'
    BY <1>2, <2>1 DEF FullInv, RelationInv, ClassifiedAs, RelationBetween
  <2>5. QueueInv' /\ UniqueInv'
    BY <1>2, <2>1 DEF FullInv, QueueInv, Queued, UniqueInv
  <2> QED
    BY <2>2, <2>3, <2>4, <2>5 DEF FullInv
<1> QED
  BY <1>1, <1>2

(* FullInv holds in every reachable state.                                 *)
THEOREM FullInvariant == Spec => []FullInv
BY FullInit, FullStep, PTL DEF Spec

(* What a memory is about never changes, once it is stored: no Remember    *)
(* that matches it, in whatever words, and no Sync rewrites its content,   *)
(* scope or kind (reinforceExistingMemory, Sync).                          *)
THEOREM ContentsPermanent ==
  Spec => [][\A i \in Stored : EmbeddingOf(memories'[i]) = EmbeddingOf(memories[i])]_vars
<1>1. FullInv /\ [Next]_vars =>
        [\A i \in Stored : EmbeddingOf(memories'[i]) = EmbeddingOf(memories[i])]_vars
  BY ContentKept DEF FullInv
<1> QED
  BY <1>1, FullInvariant, PTL DEF Spec

(* A memory in status synced has all of its enrichment in the store, how   *)
(* often a Sync may have died half way before: the status is written last. *)
THEOREM EnrichmentWhole == Spec => []SyncedIsEnriched
<1>1. FullInv => SyncedIsEnriched
  BY DEF FullInv, EnrichInv
<1> QED
  BY <1>1, FullInvariant, PTL

(* Until something fails, sync_queue and the status of the memories agree  *)
(* between operations.                                                     *)
THEOREM QueueKept == Spec => []QueueMatchesStatus
<1>1. FullInv => QueueMatchesStatus
  BY DEF FullInv, QueueInv, Queued, QueueMatchesStatus, RememberSteps
<1> QED
  BY <1>1, FullInvariant, PTL

(* Until something fails, one content is one memory, whatever the scopes   *)
(* and kinds it was sent under.                                            *)
THEOREM ContentUnique == Spec => []UniqueContent
<1>1. FullInv => UniqueContent
  BY OneMemoryPerContent DEF FullInv
<1> QED
  BY <1>1, FullInvariant, PTL

(* Two memories are related once at most, from whichever side Sync came.   *)
THEOREM RelationsOnce ==
  ASSUME SymmetricVerdicts
  PROVE  Spec => []OneRelationPerPair
<1>1. FullInv => OneRelationPerPair
  BY RelationsUnique DEF FullInv
<1> QED
  BY <1>1, FullInvariant, PTL

(* Whichever of two alike memories was synced first, and whether the other *)
(* was there then, they are related and joined once both are synced.       *)
THEOREM PairsLinked ==
  ASSUME SymmetricVerdicts, IsFiniteSet(Ids)
  PROVE  Spec => []RelatedPairsLinked
<1> DEFINE LinkInv == Cardinality(Ids) <= SyncTopK => LinksOf(InStatus("synced"))
<1>1. FullInv /\ LinkInv /\ [Next]_vars => LinkInv'
  <2> SUFFICES ASSUME FullInv, LinksOf(InStatus("synced")), [Next]_vars, SearchesWhole
               PROVE  LinksOf(InStatus("synced"))'
    BY DEF SearchesWhole
  <2>1. CASE Next
    <3>1. PICK W : W = InStatus("synced")
      OBVIOUS
    <3>2. PICK V : V = InStatus("synced")'
      OBVIOUS
    <3>3. WereSynced(W) /\ LinksOf(W)
      BY <3>1 DEF FullInv, WereSynced, CopyInv, InStatus, RememberSteps
    <3>4. LinksOf(V)'
      BY <2>1, <3>2, <3>3, LinkStep DEF FullInv
    <3> QED
      BY <3>2, <3>4 DEF LinksOf, LinkedTo
  <2>2. CASE UNCHANGED vars
    BY <2>2 DEF LinksOf, LinkedTo, Alike, Linked, InStatus, Stored, ClassifiedAs,
       RelationBetween
  <2> QED
    BY <2>1, <2>2
<1>2. LinkInv => RelatedPairsLinked
  BY DEF RelatedPairsLinked, LinksOf, LinkedTo, Alike, Linked
<1>3. Init => LinkInv
  BY DEF Init, LinksOf, LinkedTo, InStatus, Stored
<1> HIDE DEF LinkInv
<1> QED
  BY <1>1, <1>2, <1>3, FullInvariant, PTL DEF Spec

-----------------------------------------------------------------------------
(* The heuristic classifier in the place of RelationType. *)

(* The same pair gets the same verdict from either side                    *)
(* (relation_classifier.go, Classify).                                     *)
THEOREM VerdictIsSymmetric ==
  ASSUME NEW l, NEW r, NEW similarity
  PROVE  Classify(l, r, similarity) = Classify(r, l, similarity)
<1>1. Shared(l, r) = Shared(r, l) /\ Either(l, r) = Either(r, l)
  BY DEF Shared, Either
<1>2. ASSUME NEW p PROVE OverlapAtLeast(l, r, p) <=> OverlapAtLeast(r, l, p)
  BY <1>1 DEF OverlapAtLeast
<1>3. OverlapAtLeast(l, r, 30) <=> OverlapAtLeast(r, l, 30)
  BY <1>2
<1>4. OverlapAtLeast(l, r, 45) <=> OverlapAtLeast(r, l, 45)
  BY <1>2
<1>5. OverlapAtLeast(l, r, 85) <=> OverlapAtLeast(r, l, 85)
  BY <1>2
<1>6. OverlapAtLeast(l, r, 88) <=> OverlapAtLeast(r, l, 88)
  BY <1>2
<1>7. IsDuplicate(l, r, similarity) <=> IsDuplicate(r, l, similarity)
  BY <1>5 DEF IsDuplicate
<1>8. IsConflict(l, r) <=> IsConflict(r, l)
  BY <1>1 DEF IsConflict
<1>9. IsUpdate(l, r) <=> IsUpdate(r, l)
  BY <1>1, <1>4 DEF IsUpdate
<1>10. Cardinality(Shared(l, r)) = Cardinality(Shared(r, l))
  BY <1>1
<1> QED
  BY <1>3, <1>6, <1>7, <1>8, <1>9, <1>10 DEF Classify

(* What contradicts is never taken for an update of the other, nor for its *)
(* confirmation: two memories that share two words, or 30 of a hundred,    *)
(* and of which one reports success and the other trouble, are duplicates  *)
(* or in conflict, however similar they are otherwise.                     *)
THEOREM ContradictionIsSeen ==
  ASSUME NEW l, NEW r, NEW similarity,
         Positive(l), Negative(r), Shared(l, r) # {},
         OverlapAtLeast(l, r, 30) \/ Cardinality(Shared(l, r)) >= 2
  PROVE  Classify(l, r, similarity) \in {"duplicate", "conflict"}
BY DEF Classify, IsConflict

(* The verdicts are the classifier's on what it sees of two texts and on   *)
(* the similarity of their embeddings, which is a cosine.                  *)
VerdictsOfClassifier(seen, similarity) ==
  \A t, u \in Texts :
    /\ similarity[<<t, u>>] = similarity[<<u, t>>]
    /\ RelationType[<<t, u>>] = Classify(seen[t], seen[u], similarity[<<t, u>>])

(* Its verdicts are symmetric, which is what the theorems above assume.    *)
LEMMA ClassifierIsSymmetric ==
  ASSUME NEW seen, NEW similarity, VerdictsOfClassifier(seen, similarity)
  PROVE  SymmetricVerdicts
<1> SUFFICES ASSUME NEW t \in Texts, NEW u \in Texts
    PROVE RelationType[<<t, u>>] = RelationType[<<u, t>>]
  BY DEF SymmetricVerdicts
<1>1. /\ similarity[<<t, u>>] = similarity[<<u, t>>]
      /\ RelationType[<<t, u>>] = Classify(seen[t], seen[u], similarity[<<t, u>>])
      /\ RelationType[<<u, t>>] = Classify(seen[u], seen[t], similarity[<<u, t>>])
  BY DEF VerdictsOfClassifier
<1>2. Classify(seen[t], seen[u], similarity[<<t, u>>])
        = Classify(seen[u], seen[t], similarity[<<t, u>>])
  BY VerdictIsSymmetric
<1> QED
  BY <1>1, <1>2

(* With the classifier of the engine (relation_classifier.go), whatever    *)
(* its cues, two memories are related once at most.                        *)
THEOREM ClassifierRelatesOnce ==
  ASSUME NEW seen, NEW similarity, VerdictsOfClassifier(seen, similarity)
  PROVE  Spec => []OneRelationPerPair
BY ClassifierIsSymmetric, RelationsOnce

-----------------------------------------------------------------------------
(* Reading: a recall or a context beside the write worker. *)

(* What the reader holds of memories, as they were when it loaded them.    *)
Loaded == listed \cup found \cup shown
OnceEach(ms) == \A m, n \in ms : m.id = n.id => m = n
SyncedOf(ms) == {m \in ms : m.status = "synced"}

AfterListing == ReadSteps \ {"list", "listed"}
AfterLoading == AfterListing \ {"hits"}
AfterRanking == AfterLoading \ {"rank"}

-----------------------------------------------------------------------------
(* What the writer does, beyond FullInv, that readers rely on. *)

(* Memories that are related, or about to be, are of one scope.            *)
ScopeInv ==
  /\ \A r \in relations \cup edges : \A i, j \in MemoryEnds(r) :
       memories[i].scope = memories[j].scope
  /\ pc \in RelateSteps => \A i \in todo \cap Stored : memories[i].scope = mem.scope
  /\ pc \in {"relation", "edge"} => memories[item].scope = mem.scope

(* A memory that is being created is in no index, nor acknowledged.        *)
Creating == pc \in {"save", "persist_vector", "add_vector"} /\ action = "create_new"
NewInv ==
  Creating => vectorIndex[mem.id] = None /\ \A a \in acked : a.id # mem.id

WriterInv == FullInv /\ ScopeInv /\ NewInv

-----------------------------------------------------------------------------
(* What the reader holds. *)

(* What a step has not come to yet is empty.                               *)
EmptyInv ==
  /\ step \in {"none", "list"} => listed = {}
  /\ step \in {"none", "list", "listed"} => found = {}
  /\ step \notin AfterRanking => shown = {}
  /\ step # "near" => near = {}
  /\ step # "done" => shownRelations = {}

(* What is loaded, or to be, is stored, and says what it said then; it is  *)
(* not the memory that is being created, or not as synced.                 *)
LoadInv ==
  /\ hits \cup near \cup known \subseteq Stored
  /\ \A m \in Loaded : m.id \in Stored /\ EmbeddingOf(m) = EmbeddingOf(memories[m.id])
  /\ Creating => mem.id \notin IdsOf(SyncedOf(Loaded))

(* All of it but the listing is of the scope that was asked for.           *)
AskedInv ==
  /\ \A i \in hits \cup near : memories[i].scope = query.scope
  /\ \A m \in found \cup shown : m.scope = query.scope
  /\ step \in {"expand", "near"} => left \subseteq IdsOf(shown)
  /\ \A s \in shownEntities \cup shownFacts : s.of \in IdsOf(shown)
  /\ \A r \in shownRelations : r \in relations /\ r.ends \cap IdsOf(shown) # {}

(* No loop loads a memory twice.                                           *)
OnceInv ==
  /\ OnceEach(listed) /\ OnceEach(found) /\ OnceEach(shown)
  /\ step = "listed" => left \cap IdsOf(listed) = {}
  /\ step = "hits" => left \cap IdsOf(found) = {} /\ left \subseteq hits
  /\ step = "near" => near \cap IdsOf(shown) = {}
  /\ IdsOf(found) \subseteq hits

(* What was known at the beginning and matches is a hit or in the listing, *)
(* and in the answer, unless TopK others are there.                        *)
InScope(i) == memories[i].scope = query.scope
Near(i) == Cosine[<<query.question, memories[i].text>>] >= 0
ByWord(i) == Overlap[<<query.question, memories[i].text>>] > 0

KnownInv ==
  /\ IsFiniteSet(listed) /\ IsFiniteSet(found) /\ IsFiniteSet(shown)
  /\ step # "none" =>
       Cardinality(hits) = TopK \/ \A i \in known : InScope(i) /\ Near(i) => i \in hits
  /\ step = "listed" => known \subseteq left \cup IdsOf(listed)
  /\ step \in AfterListing => known \subseteq IdsOf(listed)
  /\ step = "hits" => hits \subseteq left \cup IdsOf(found)
  /\ step \in AfterLoading => hits \subseteq IdsOf(found)
  /\ step \in AfterRanking =>
       \/ Cardinality(shown) >= TopK
       \/ \A i \in known : InScope(i) /\ (Near(i) \/ ByWord(i)) => i \in IdsOf(shown)

(* What was loaded as synced has its entities, and they are shown with it. *)
WholeInv == \A m \in SyncedOf(Loaded) : \A e \in Entities[m.text] : Associated(m, e) \in relations
ShownInv ==
  step = "done" /\ query.context =>
    \A m \in SyncedOf(shown) : \A e \in Entities[m.text] : Associated(m, e) \in shownRelations

ReaderInv ==
  /\ ReadTypeOK /\ EmptyInv /\ LoadInv /\ AskedInv /\ OnceInv /\ KnownInv
  /\ WholeInv /\ ShownInv
ReadInv == WriterInv /\ ReaderInv

USE DEF readVars

(* A refused transaction of the reader is counted as a fault, and changes  *)
(* nothing of what the writer relies on.                                   *)
LEMMA FaultAside ==
  ASSUME WriterInv, faults' = faults + 1,
         UNCHANGED <<dataVars, graphVars, indexVars, opVars, acked, clock>>
  PROVE  WriterInv'
<1>1. faults' \in Nat /\ faults' # 0
  BY DEF WriterInv, FullInv, IInv, TypeOK
<1>2. Stored' = Stored /\ \A s : InStatus(s)' = InStatus(s)
  BY DEF Stored, InStatus
<1>3. TypeOK'
  BY <1>1 DEF WriterInv, FullInv, IInv, TypeOK
<1>4. OperationInv' /\ BatchInv' /\ IndexInv' /\ VectorInv' /\ HashInv'
  BY <1>2 DEF WriterInv, FullInv, IInv, OperationInv, BatchInv, IndexInv, VectorInv, HashInv,
     HasVector, EmbeddingOf
<1>5. NoNearDuplicates' /\ FreshInv' /\ GraphInv' /\ AckedDurable'
  BY <1>2 DEF WriterInv, FullInv, IInv, NoNearDuplicates, FreshInv, GraphInv, AckedDurable,
     MemoryEnds
<1>6. CopyInv'
  BY DEF WriterInv, FullInv, CopyInv, EmbeddingOf
<1>7. EnrichInv'
  BY <1>2 DEF WriterInv, FullInv, EnrichInv, EntityIn, SyncedIsEnriched, Associated,
     RelationBetween
<1>8. RelationInv'
  BY <1>2 DEF WriterInv, FullInv, RelationInv, ClassifiedAs, RelationBetween
<1>9. QueueInv' /\ UniqueInv'
  BY <1>1 DEF QueueInv, UniqueInv
<1>10. ScopeInv' /\ NewInv'
  BY <1>2 DEF WriterInv, ScopeInv, MemoryEnds, NewInv, Creating
<1> QED
  BY <1>3, <1>4, <1>5, <1>6, <1>7, <1>8, <1>9, <1>10 DEF WriterInv, FullInv, IInv

(* A memory that is being created was not stored when that began.          *)
LEMMA CreatingStep ==
  ASSUME FullInv, Next, Creating'
  PROVE  /\ acked' = acked /\ vectorIndex' = vectorIndex
         /\ \/ Creating /\ mem' = mem
            \/ mem'.id \notin Stored /\ memories' = memories
<1>1. ASSUME NEW r \in Embedding, Remember(r)
      PROVE  \/ Creating /\ mem' = mem /\ UNCHANGED <<acked, vectorIndex>>
             \/ mem'.id \notin Stored /\ memories' = memories /\ UNCHANGED <<acked, vectorIndex>>
  <2>1. CASE CreateBegins(r)
    BY <2>1 DEF CreateBegins, Create, Begin
  <2>2. CASE ReinforceBegins(r)
    BY <2>2 DEF ReinforceBegins, Begin, Creating
  <2>3. CASE UNCHANGED vars
    BY <2>3 DEF Creating
  <2> QED
    BY <1>1, <2>1, <2>2, <2>3, RememberCases DEF FullInv, IInv
<1>2. ASSUME RememberStep PROVE Creating /\ mem' = mem /\ UNCHANGED <<acked, vectorIndex>>
  BY <1>2 DEF RememberStep, SaveMemory, PersistVector, AddVector, SetHash, PutHash,
     EnqueueSync, PersistTrace, OpReset, Goto, Creating
<1>3. ASSUME SyncStep PROVE FALSE
  BY <1>3 DEF SyncStep, SyncNext, SyncReturn, PersistEntity, AddEntityNode,
     PersistEntityRelation, AddEntityEdge, AddEdge, EntitiesDone, PersistFact, FactsDone,
     SearchRelated, RelateHit, PersistRelation, AddRelationEdge, RelatedDone, MarkSynced,
     Dequeue, PersistSyncTrace, OpReset, Goto, Creating
<1>4. ASSUME StoreFails \/ Crash \/ Close \/ Open PROVE FALSE
  BY <1>4 DEF StoreFails, Crash, Close, ProcessEnds, OpReset, Open, FullInv, IInv, OperationInv,
     Creating
<1>5. ASSUME NEW limit \in Limits, Sync(limit) PROVE FALSE
  BY <1>5 DEF Sync, Creating
<1> QED
  BY <1>1, <1>2, <1>3, <1>4, <1>5 DEF Next

(* So it is not acknowledged before it has its trace.                      *)
LEMMA NewStep ==
  ASSUME FullInv, NewInv, Next
  PROVE  NewInv'
<1> SUFFICES ASSUME Creating'
             PROVE  vectorIndex'[mem'.id] = None /\ \A a \in acked' : a.id # mem'.id
  BY DEF NewInv
<1>1. \A a \in acked : a.id \in Stored
  BY DEF FullInv, IInv, AckedDurable
<1>2. CASE Creating /\ mem' = mem
  BY <1>2, CreatingStep DEF NewInv
<1>3. CASE mem'.id \notin Stored
  <2>1. mem'.id \in Ids
    <3>1. mem' \in Memory
      BY FullStep DEF FullInv, IInv, TypeOK, Creating, RememberSteps
    <3> QED
      BY <3>1 DEF Memory
  <2>2. vectorIndex[mem'.id] = None
    BY <1>3, <2>1 DEF FullInv, IInv, VectorInv
  <2> QED
    BY <1>1, <1>3, <2>2, CreatingStep
<1> QED
  BY <1>2, <1>3, CreatingStep
(* The scope of a stored memory is permanent.                              *)
LEMMA ScopeKept ==
  ASSUME FullInv, Next, NEW i \in Stored
  PROVE  memories'[i].scope = memories[i].scope /\ i \in Stored'
BY ContentKept DEF FullInv, EmbeddingOf

(* What a search finds is of the scope of the memory it is for.            *)
LEMMA FoundInScope ==
  ASSUME FullInv, SearchRelated, NEW i \in todo', i \in Stored
  PROVE  memories[i].scope = mem.scope
<1>1. pc = "search" /\ open /\ i \in Ids /\ mem.id \in Ids /\ mem = memories[mem.id]
  BY AtHand DEF SearchRelated, FullInv, IInv, OperationInv, BatchInv, SyncSteps, Stored
<1>2. vectors[mem.id] # None
  BY DEF SearchRelated
<1>3. i \in RelatedCandidates(vectors[mem.id])
  BY <1>2 DEF SearchRelated, SearchResults
<1>4. vectorIndex[i] # None /\ vectorIndex[i].scope = vectors[mem.id].scope
  BY <1>3 DEF RelatedCandidates
<1>5. vectorIndex[i] = vectors[i]
  BY <1>1 DEF FullInv, IInv, IndexInv
<1>6. vectors[i] = EmbeddingOf(memories[i]) /\ vectors[mem.id] = EmbeddingOf(mem)
  BY <1>1, <1>2, <1>4, <1>5 DEF FullInv, CopyInv
<1> QED
  BY <1>4, <1>5, <1>6 DEF EmbeddingOf

(* Relations stay within a scope: an entity is joined to one memory at a   *)
(* time, and a memory to what a search in its scope has found.             *)
LEMMA ScopeStep ==
  ASSUME FullInv, ScopeInv, Next
  PROVE  ScopeInv'
<1>1. ASSUME NEW r \in relations \cup edges, NEW i \in MemoryEnds(r), NEW j \in MemoryEnds(r)
      PROVE  memories'[i].scope = memories'[j].scope
  <2>1. i \in Stored /\ j \in Stored
    BY <1>1 DEF FullInv, IInv, GraphInv
  <2> QED
    BY <1>1, <2>1, ScopeKept DEF ScopeInv
<1>2. ASSUME PersistEntityRelation \/ AddEntityEdge,
             NEW i \in MemoryEnds(Associated(mem, item)),
             NEW j \in MemoryEnds(Associated(mem, item))
      PROVE  i = j
  <2>1. item \in EntityIds
    BY <1>2 DEF PersistEntityRelation, AddEntityEdge, FullInv, IInv, OperationInv, EntitySteps
  <2> QED
    BY <1>2, <2>1, IdsApart DEF MemoryEnds, Associated, RelationBetween
<1>3. ASSUME PersistRelation \/ AddRelationEdge,
             NEW i \in MemoryEnds(ClassifiedAs(mem, memories[item])),
             NEW j \in MemoryEnds(ClassifiedAs(mem, memories[item]))
      PROVE  memories'[i].scope = memories'[j].scope
  <2>1. /\ pc \in {"relation", "edge"} /\ memories' = memories
        /\ item \in Stored /\ mem.id \in Stored /\ memories[mem.id] = mem
    BY <1>3 DEF PersistRelation, AddRelationEdge, FullInv, IInv, OperationInv, BatchInv, SyncSteps
  <2>2. memories[item].id = item /\ memories[item].scope = mem.scope
    BY <2>1 DEF FullInv, IInv, TypeOK, Stored, ScopeInv
  <2>3. i \in {mem.id, item} /\ j \in {mem.id, item}
    BY <1>3, <2>2 DEF MemoryEnds, ClassifiedAs, RelationBetween
  <2> QED
    BY <2>1, <2>2, <2>3
<1>4. \A r \in (relations \cup edges)' : \A i, j \in MemoryEnds(r) :
        memories'[i].scope = memories'[j].scope
  <2>1. \/ UNCHANGED <<relations, edges>>
        \/ /\ PersistEntityRelation
           /\ relations' = relations \cup {Associated(mem, item)} /\ edges' = edges
        \/ /\ AddEntityEdge
           /\ relations' = relations /\ edges' = edges \cup {Associated(mem, item)}
        \/ /\ PersistRelation
           /\ relations' = relations \cup {ClassifiedAs(mem, memories[item])} /\ edges' = edges
        \/ /\ AddRelationEdge
           /\ relations' = relations /\ edges' = edges \cup {ClassifiedAs(mem, memories[item])}
    <3>1. CASE AddEntityEdge
      BY <3>1 DEF AddEntityEdge, AddEdge
    <3>2. CASE AddRelationEdge
      <4>1. PICK r : /\ r = ClassifiedAs(mem, memories[item]) /\ AddEdge(r, "relate")
                     /\ relations' = relations
        BY <3>2 DEF AddRelationEdge
      <4>2. edges' = edges \/ edges' = edges \cup {r}
        BY <4>1 DEF AddEdge
      <4> QED
        BY <3>2, <4>1, <4>2
    <3>3. CASE PersistEntityRelation
      BY <3>3 DEF PersistEntityRelation
    <3>4. CASE PersistRelation
      BY <3>4 DEF PersistRelation
    <3>5. ASSUME \/ SyncNext \/ SyncReturn \/ PersistEntity \/ AddEntityNode \/ EntitiesDone
                 \/ PersistFact \/ FactsDone \/ SearchRelated \/ RelateHit \/ RelatedDone
                 \/ MarkSynced \/ Dequeue \/ PersistSyncTrace \/ StoreFails \/ Crash \/ Close
                 \/ Open
          PROVE  UNCHANGED <<relations, edges>>
      BY <3>5 DEF SyncNext, SyncReturn, PersistEntity, AddEntityNode, EntitiesDone, PersistFact,
         FactsDone, SearchRelated, RelateHit, RelatedDone, MarkSynced, Dequeue, PersistSyncTrace,
         StoreFails, Crash, Close, ProcessEnds, Open
    <3>6. ASSUME NEW limit \in Limits, Sync(limit) PROVE UNCHANGED <<relations, edges>>
      BY <3>6 DEF Sync
    <3>7. ASSUME NEW r \in Embedding, Remember(r) PROVE UNCHANGED <<relations, edges>>
      BY <3>7, RememberCases DEF FullInv, IInv, ReinforceBegins, CreateBegins, Create, Begin
    <3> QED
      BY <3>1, <3>2, <3>3, <3>4, <3>5, <3>6, <3>7, RememberFrame DEF Next, SyncStep
  <2> QED
    BY <1>1, <1>2, <1>3, <2>1
<1>5. ASSUME pc' \in RelateSteps
      PROVE  /\ \A i \in todo' \cap Stored' : memories'[i].scope = mem'.scope
             /\ pc' \in {"relation", "edge"} => memories'[item'].scope = mem'.scope
  <2>1. CASE SearchRelated
    <3>1. memories' = memories /\ mem' = mem /\ Stored' = Stored /\ pc' = "relate"
      BY <2>1 DEF SearchRelated, Stored
    <3> QED
      BY <2>1, <3>1, FoundInScope
  <2>2. CASE RelateHit
    <3>1. pc = "relate" /\ memories' = memories /\ Stored' = Stored /\ mem' = mem
          /\ todo' \subseteq todo /\ todo \subseteq Ids
      BY <1>5, <2>2 DEF RelateHit, Stored, OpReset, RelateSteps, FullInv, IInv, OperationInv
    <3>2. pc' \in {"relation", "edge"} => item' \in todo \cap Stored
      BY <2>2, <3>1 DEF RelateHit, Stored, OpReset
    <3> QED
      BY <3>1, <3>2 DEF ScopeInv, RelateSteps
  <2>3. CASE PersistRelation \/ AddRelationEdge
    <3>1. /\ memories' = memories /\ Stored' = Stored /\ mem' = mem /\ todo' = todo
          /\ item' = item /\ pc \in {"relation", "edge"}
      BY <1>5, <2>3 DEF PersistRelation, AddRelationEdge, AddEdge, Goto, OpReset, RelateSteps,
         Stored
    <3> QED
      BY <3>1 DEF ScopeInv, RelateSteps
  <2>4. CASE RememberStep \/ SyncNext \/ SyncReturn \/ PersistEntity \/ AddEntityNode
             \/ PersistEntityRelation \/ AddEntityEdge \/ EntitiesDone \/ PersistFact \/ FactsDone
             \/ RelatedDone \/ MarkSynced \/ Dequeue \/ PersistSyncTrace
    BY <1>5, <2>4 DEF RememberStep, SaveMemory, PersistVector, AddVector, SetHash, PutHash,
       EnqueueSync, PersistTrace, SyncNext, SyncReturn, PersistEntity, AddEntityNode,
       PersistEntityRelation, AddEntityEdge, AddEdge, EntitiesDone, PersistFact, FactsDone,
       RelatedDone, MarkSynced, Dequeue, PersistSyncTrace, OpReset, Goto, RelateSteps
  <2>5. CASE StoreFails \/ Crash \/ Close \/ Open
    BY <1>5, <2>5 DEF StoreFails, Crash, Close, ProcessEnds, OpReset, Open, FullInv, IInv,
       OperationInv, RelateSteps
  <2>6. ASSUME NEW limit \in Limits, Sync(limit) PROVE FALSE
    BY <1>5, <2>6 DEF Sync, RelateSteps
  <2>7. ASSUME NEW r \in Embedding, Remember(r) PROVE FALSE
    BY <1>5, <2>7, RememberCases DEF FullInv, IInv, Remember, ReinforceBegins, CreateBegins,
       Create, Begin, RelateSteps
  <2> QED
    BY <2>1, <2>2, <2>3, <2>4, <2>5, <2>6, <2>7 DEF Next, SyncStep
<1> QED
  BY <1>4, <1>5 DEF ScopeInv, MemoryEnds, RelateSteps

(* What readers rely on holds at first.                                    *)
LEMMA WriterInit == Init => WriterInv
<1>1. Init => FullInv
  BY FullInit
<1> QED
  BY <1>1 DEF Init, WriterInv, ScopeInv, NewInv, Creating, RelateSteps

(* No step of the writer or of a reader breaks it.                         *)
LEMMA WriterKept == WriterInv /\ [Next]_vars => WriterInv'
<1> SUFFICES ASSUME WriterInv, [Next]_vars PROVE WriterInv'
  OBVIOUS
<1>1. FullInv'
  BY FullStep DEF WriterInv
<1>2. CASE Next
  BY <1>1, <1>2, ScopeStep, NewStep DEF WriterInv
<1>3. CASE UNCHANGED vars
  BY <1>1, <1>3 DEF WriterInv, ScopeInv, NewInv, Creating, MemoryEnds, Stored
<1> QED
  BY <1>2, <1>3


-----------------------------------------------------------------------------
(* The reader beside the writer. *)

(* A reader that forgets everything holds nothing that could be wrong.     *)
LEMMA ForgetKeeps ==
  ASSUME ReaderInv, Forget
  PROVE  ReaderInv'
<1>1. ReadTypeOK' /\ EmptyInv' /\ LoadInv' /\ AskedInv' /\ OnceInv'
  BY DEF Forget, ReaderInv, ReadTypeOK, EmptyInv, LoadInv, AskedInv, OnceInv, OnceEach, Loaded,
     SyncedOf, IdsOf, AfterRanking, AfterLoading, AfterListing, ReadSteps
<1>2. KnownInv'
  BY FS_EmptySet DEF Forget, KnownInv, AfterRanking, AfterLoading, AfterListing, ReadSteps
<1>3. WholeInv' /\ ShownInv'
  BY DEF Forget, WholeInv, ShownInv, Loaded, SyncedOf
<1> QED
  BY <1>1, <1>2, <1>3 DEF ReaderInv

(* What has been loaded stays true of the store, but for the status and    *)
(* the time of a memory.                                                   *)
LEMMA LoadedStays ==
  ASSUME WriterInv, ReaderInv, Next, UNCHANGED readVars
  PROVE  LoadInv'
<1>1. \A i \in Stored : i \in Stored' /\ EmbeddingOf(memories'[i]) = EmbeddingOf(memories[i])
  BY ContentKept DEF WriterInv, FullInv
<1>2. hits' \cup near' \cup known' \subseteq Stored'
  BY <1>1 DEF ReaderInv, LoadInv
<1>3. \A m \in Loaded' : m.id \in Stored' /\ EmbeddingOf(m) = EmbeddingOf(memories'[m.id])
  BY <1>1 DEF ReaderInv, LoadInv, Loaded
<1>4. Creating' => mem'.id \notin IdsOf(SyncedOf(Loaded))
  BY CreatingStep DEF WriterInv, ReaderInv, LoadInv, IdsOf, SyncedOf
<1> QED
  BY <1>2, <1>3, <1>4 DEF LoadInv, Loaded, IdsOf, SyncedOf, EmbeddingOf

(* So the writer may take any step while the reader waits.                 *)
LEMMA ReaderByWriter ==
  ASSUME WriterInv, ReaderInv, Next, UNCHANGED readVars
  PROVE  ReaderInv'
<1>1. \A i \in Stored : /\ i \in Stored' /\ memories'[i].scope = memories[i].scope
                        /\ memories'[i].text = memories[i].text
  BY ContentKept DEF WriterInv, FullInv, EmbeddingOf
<1>2. relations \subseteq relations'
  BY GraphGrows DEF WriterInv, FullInv, IInv
<1>3. ReadTypeOK' /\ EmptyInv' /\ OnceInv'
  BY DEF ReaderInv, ReadTypeOK, EmptyInv, OnceInv, OnceEach, IdsOf
<1>4. LoadInv'
  BY LoadedStays
<1>5. AskedInv'
  <2>1. \A i \in hits \cup near : memories'[i].scope = query.scope
    BY <1>1 DEF ReaderInv, AskedInv, LoadInv
  <2> QED
    BY <1>2, <2>1 DEF ReaderInv, AskedInv, IdsOf
<1>6. KnownInv'
  <2>1. \A i \in known : /\ InScope(i)' <=> InScope(i)
                         /\ Near(i)' <=> Near(i)
                         /\ ByWord(i)' <=> ByWord(i)
    BY <1>1 DEF ReaderInv, LoadInv, InScope, Near, ByWord
  <2> QED
    BY <2>1 DEF ReaderInv, KnownInv, IdsOf
<1>7. WholeInv' /\ ShownInv'
  BY <1>2 DEF ReaderInv, WholeInv, ShownInv, Loaded, SyncedOf, Associated, RelationBetween
<1> QED
  BY <1>3, <1>4, <1>5, <1>6, <1>7 DEF ReaderInv

-----------------------------------------------------------------------------
(* The steps of the reader. *)

(* What was acknowledged is in the vector index, and as it was stored.     *)
LEMMA KnownIndexed ==
  ASSUME WriterInv, open, NEW a \in acked
  PROVE  /\ a.id \in Stored /\ vectorIndex[a.id] # None
         /\ vectorIndex[a.id] = EmbeddingOf(memories[a.id])
<1>1. a.id \in Stored /\ a.id \in Ids /\ vectors[a.id] # None
  BY DEF WriterInv, FullInv, IInv, AckedDurable, Stored
<1>2. ~ (pc = "add_vector" /\ a.id = mem.id)
  BY DEF WriterInv, FullInv, IInv, OperationInv, NewInv, Creating
<1>3. vectorIndex[a.id] = vectors[a.id]
  BY <1>1, <1>2 DEF WriterInv, FullInv, IInv, IndexInv
<1> QED
  BY <1>1, <1>3 DEF WriterInv, FullInv, CopyInv

(* A vector that is in the index is that of a stored memory.               *)
LEMMA IndexedStored ==
  ASSUME WriterInv, open, NEW i \in Ids, vectorIndex[i] # None
  PROVE  i \in Stored /\ vectorIndex[i] = EmbeddingOf(memories[i])
<1>1. i \in Stored
  BY DEF WriterInv, FullInv, IInv, VectorInv
<1>2. vectorIndex[i] = vectors[i]
  BY DEF WriterInv, FullInv, IInv, IndexInv, OperationInv, NewInv, Creating
<1> QED
  BY <1>1, <1>2 DEF WriterInv, FullInv, CopyInv

(* Before a memory is shown, no entity or fact is.                         *)
LEMMA NothingFromNothing ==
  ASSUME ReaderInv, shown = {}
  PROVE  shownEntities = {} /\ shownFacts = {}
BY DEF ReaderInv, AskedInv, IdsOf

(* What the vector search returns is stored and of the scope asked for, and *)
(* what is known and near enough is among it, or top_k others are.         *)
LEMMA BeginKeeps ==
  ASSUME WriterInv, ReaderInv, NEW q \in Queries, BeginRead(q), UNCHANGED vars
  PROVE  ReaderInv'
<1> DEFINE V == VectorHits(q)
<1>1. hits' \subseteq V /\ (hits' = V \/ Cardinality(hits') = TopK)
  BY DEF BeginRead, Best
<1>2. \A i \in V : /\ i \in Stored /\ memories[i].scope = q.scope
  <2> SUFFICES ASSUME NEW i \in V PROVE i \in Stored /\ memories[i].scope = q.scope
    OBVIOUS
  <2>1. i \in Ids /\ vectorIndex[i] # None /\ vectorIndex[i].scope = q.scope /\ open
    BY DEF VectorHits, BeginRead
  <2>2. i \in Stored /\ vectorIndex[i] = EmbeddingOf(memories[i])
    BY <2>1, IndexedStored
  <2> QED
    BY <2>1, <2>2 DEF EmbeddingOf
<1>3. ASSUME NEW i \in known', memories[i].scope = q.scope,
             Cosine[<<q.question, memories[i].text>>] >= 0
      PROVE  i \in V
  <2>1. i \in Stored /\ vectorIndex[i] # None /\ vectorIndex[i] = EmbeddingOf(memories[i])
    BY KnownIndexed DEF BeginRead
  <2> QED
    BY <1>3, <2>1 DEF VectorHits, EmbeddingOf, Stored
<1>4. known' \subseteq Stored
  BY KnownIndexed DEF BeginRead
<1> HIDE DEF V
<1>5. step = "none" /\ step' = "list" /\ query' = q /\ reads < MaxReads /\ reads' = reads + 1
      /\ UNCHANGED <<left, listed, found, near, shown, shownEntities, shownFacts, shownRelations>>
  BY DEF BeginRead
<1>6. q \in Query
  BY ReadingAssumption
<1>7. ReadTypeOK'
  <2>1. hits' \subseteq Ids /\ known' \subseteq Ids
    BY <1>1, <1>2, <1>4 DEF Stored
  <2>2. q # None
    BY <1>6, ReadingAssumption
  <2>3. reads' \in 0..MaxReads
    BY <1>5, ReadingAssumption DEF ReaderInv, ReadTypeOK
  <2> QED
    BY <1>5, <1>6, <2>1, <2>2, <2>3 DEF ReaderInv, ReadTypeOK, ReadSteps
<1>8. EmptyInv'
  BY <1>5 DEF ReaderInv, EmptyInv, AfterRanking, AfterLoading, AfterListing, ReadSteps
<1>9. listed = {} /\ found = {} /\ shown = {} /\ shownRelations = {}
  BY <1>5 DEF ReaderInv, EmptyInv, AfterRanking, AfterLoading, AfterListing, ReadSteps
<1>10. LoadInv'
  <2>1. near = {}
    BY <1>5 DEF ReaderInv, EmptyInv
  <2>2. hits' \cup near' \cup known' \subseteq Stored'
    BY <1>1, <1>2, <1>4, <1>5, <2>1 DEF Stored
  <2> QED
    BY <1>5, <1>9, <2>2 DEF LoadInv, Loaded, SyncedOf, IdsOf
<1>11. AskedInv'
  <2>1. near = {}
    BY <1>5 DEF ReaderInv, EmptyInv
  <2>2. shownEntities = {} /\ shownFacts = {}
    BY <1>9, NothingFromNothing
  <2> QED
    BY <1>1, <1>2, <1>5, <1>9, <2>1, <2>2 DEF AskedInv
<1>12. OnceInv'
  BY <1>5, <1>9 DEF OnceInv, OnceEach, IdsOf
<1>13. KnownInv'
  <2>1. \A i \in known' : InScope(i)' /\ Near(i)' => i \in V
    BY <1>3, <1>5 DEF InScope, Near
  <2>2. Cardinality(hits') = TopK \/ \A i \in known' : InScope(i)' /\ Near(i)' => i \in hits'
    BY <1>1, <2>1
  <2>3. IsFiniteSet(listed') /\ IsFiniteSet(found') /\ IsFiniteSet(shown')
    BY <1>5, <1>9, FS_EmptySet
  <2> QED
    BY <1>5, <2>2, <2>3 DEF KnownInv, AfterRanking, AfterLoading, AfterListing, ReadSteps
<1>14. WholeInv' /\ ShownInv'
  BY <1>5, <1>9 DEF WholeInv, ShownInv, Loaded, SyncedOf
<1> QED
  BY <1>7, <1>8, <1>10, <1>11, <1>12, <1>13, <1>14 DEF ReaderInv

(* Each memory that has joined what is loaded is as it is stored now.      *)
Loads(ms, ns) == \A m \in ns : m \in ms \/ (m.id \in Stored /\ m = memories[m.id])

(* Such a memory is not the one being created, or is not synced.           *)
LEMMA LoadedNow ==
  ASSUME WriterInv, NEW i \in Stored
  PROVE  /\ memories[i] \in Memory /\ memories[i].id = i
         /\ Creating /\ mem.id = i => memories[i].status # "synced"
         /\ memories[i].status = "synced" =>
              \A e \in Entities[memories[i].text] : Associated(memories[i], e) \in relations
<1>1. memories[i] \in Memory /\ memories[i].id = i
  BY DEF WriterInv, FullInv, IInv, TypeOK, Stored
<1>2. Creating /\ mem.id = i => memories[i].status # "synced"
  BY DEF WriterInv, FullInv, IInv, Creating, CopyInv, VectorInv, RememberSteps
<1>3. memories[i].status = "synced" =>
        \A e \in Entities[memories[i].text] : Associated(memories[i], e) \in relations
  BY DEF WriterInv, FullInv, EnrichInv, SyncedIsEnriched, InStatus
<1> QED
  BY <1>1, <1>2, <1>3

(* Whatever has been loaded so far may be joined by what is loaded now.    *)
LEMMA LoadKeeps ==
  ASSUME WriterInv, ReaderInv, UNCHANGED vars, Loads(Loaded, Loaded'),
         hits' \cup near' \cup known' \subseteq Stored
  PROVE  LoadInv' /\ WholeInv'
<1>1. \A m \in Loaded' : m.id \in Stored /\ EmbeddingOf(m) = EmbeddingOf(memories[m.id])
  BY DEF ReaderInv, LoadInv, Loads
<1>2. \A m \in SyncedOf(Loaded') : /\ Creating => m.id # mem.id
                                   /\ \A e \in Entities[m.text] : Associated(m, e) \in relations
  <2> SUFFICES ASSUME NEW m \in Loaded', m.status = "synced"
               PROVE  /\ Creating => m.id # mem.id
                      /\ \A e \in Entities[m.text] : Associated(m, e) \in relations
    BY DEF SyncedOf
  <2>1. CASE m \in Loaded
    BY <2>1 DEF ReaderInv, LoadInv, WholeInv, SyncedOf, IdsOf
  <2>2. CASE m.id \in Stored /\ m = memories[m.id]
    BY <2>2, LoadedNow
  <2> QED
    BY <2>1, <2>2 DEF Loads
<1>3. LoadInv'
  BY <1>1, <1>2 DEF LoadInv, Stored, SyncedOf, IdsOf, Creating, EmbeddingOf
<1>4. WholeInv'
  BY <1>2 DEF WholeInv, SyncedOf, Associated, RelationBetween
<1> QED
  BY <1>3, <1>4

(* Loading a memory of those that are left.                                *)
LEMMA LoadOne ==
  ASSUME WriterInv, NEW ms, IsFiniteSet(ms), OnceEach(ms), NEW i \in Ids, i \notin IdsOf(ms),
         NEW ns, ns = ms \cup ({memories[i]} \ {None})
  PROVE  /\ IsFiniteSet(ns) /\ OnceEach(ns) /\ Loads(ms, ns)
         /\ \A m \in ns : m \in ms \/ (m \in Memory /\ m.id = i /\ m = memories[i])
         /\ IdsOf(ns) = IdsOf(ms) \cup ({i} \cap Stored)
<1>1. CASE memories[i] = None
  <2>1. ns = ms /\ i \notin Stored
    BY <1>1 DEF Stored
  <2>2. IsFiniteSet(ns) /\ OnceEach(ns)
    BY <2>1
  <2>3. IdsOf(ns) = IdsOf(ms) \cup ({i} \cap Stored)
    BY <2>1
  <2>4. Loads(ms, ns) /\ \A m \in ns : m \in ms
    BY <2>1 DEF Loads
  <2> QED
    BY <2>2, <2>3, <2>4
<1>2. CASE memories[i] # None
  <2>1. ns = ms \cup {memories[i]} /\ i \in Stored
    BY <1>2 DEF Stored
  <2>2. memories[i] \in Memory /\ memories[i].id = i
    BY <2>1, LoadedNow
  <2>3. IsFiniteSet(ns)
    <3>1. PICK m : m = memories[i]
      OBVIOUS
    <3>2. IsFiniteSet(ms \cup {m})
      BY FS_AddElement
    <3> QED
      BY <2>1, <3>1, <3>2
  <2>4. IdsOf(ns) = IdsOf(ms) \cup {i}
    BY <2>1, <2>2 DEF IdsOf
  <2>5. OnceEach(ns)
    BY <2>1, <2>2 DEF OnceEach, IdsOf
  <2> QED
    BY <2>1, <2>2, <2>3, <2>4, <2>5 DEF Loads
<1> QED
  BY <1>1, <1>2

(* All that is known is in the listing of the keys.                        *)
LEMMA ListKeysKeeps ==
  ASSUME WriterInv, ReaderInv, ListKeys, UNCHANGED vars
  PROVE  ReaderInv'
<1>1. /\ step = "list" /\ step' = "listed" /\ left' = Stored
      /\ UNCHANGED <<query, hits, listed, found, near, shown, shownEntities, shownFacts,
                     shownRelations, known, reads>>
  BY DEF ListKeys
<1>2. listed = {} /\ found = {} /\ shown = {} /\ near = {} /\ shownRelations = {}
  BY <1>1 DEF ReaderInv, EmptyInv, AfterRanking, AfterLoading, AfterListing, ReadSteps
<1>3. ReadTypeOK' /\ EmptyInv'
  BY <1>1, <1>2 DEF ReaderInv, ReadTypeOK, EmptyInv, ReadSteps, Stored
<1>4. LoadInv' /\ WholeInv'
  BY <1>1, LoadKeeps DEF ReaderInv, LoadInv, Loads, Loaded
<1>5. AskedInv' /\ OnceInv' /\ ShownInv'
  BY <1>1, <1>2 DEF ReaderInv, AskedInv, OnceInv, OnceEach, IdsOf, ShownInv
<1>6. KnownInv'
  BY <1>1, <1>2 DEF ReaderInv, KnownInv, LoadInv, IdsOf, InScope, Near, AfterRanking,
     AfterLoading, AfterListing, ReadSteps
<1> QED
  BY <1>3, <1>4, <1>5, <1>6 DEF ReaderInv

(* It is loaded, and no memory twice, while others come to be.             *)
LEMMA LoadListedKeeps ==
  ASSUME WriterInv, ReaderInv, LoadListed, UNCHANGED vars
  PROVE  ReaderInv'
<1>1. /\ step = "listed"
      /\ UNCHANGED <<query, hits, found, near, shown, shownEntities, shownFacts,
                     shownRelations, known, reads>>
  BY DEF LoadListed
<1>2. found = {} /\ shown = {} /\ near = {} /\ shownRelations = {}
  BY <1>1 DEF ReaderInv, EmptyInv, AfterRanking, AfterLoading, AfterListing, ReadSteps
<1>3. hits' \cup near' \cup known' \subseteq Stored
  BY <1>1 DEF ReaderInv, LoadInv
<1>4. CASE left = {} /\ step' = "hits" /\ left' = hits /\ listed' = listed
  <2>1. ReadTypeOK' /\ EmptyInv'
    BY <1>1, <1>2, <1>4 DEF ReaderInv, ReadTypeOK, EmptyInv, ReadSteps, AfterRanking,
       AfterLoading, AfterListing
  <2>2. LoadInv' /\ WholeInv'
    BY <1>1, <1>3, <1>4, LoadKeeps DEF Loads, Loaded
  <2>3. AskedInv' /\ OnceInv' /\ ShownInv'
    BY <1>1, <1>2, <1>4 DEF ReaderInv, AskedInv, OnceInv, OnceEach, IdsOf, ShownInv
  <2>4. KnownInv'
    BY <1>1, <1>2, <1>4 DEF ReaderInv, KnownInv, IdsOf, InScope, Near, AfterRanking,
       AfterLoading, AfterListing, ReadSteps
  <2> QED
    BY <2>1, <2>2, <2>3, <2>4 DEF ReaderInv
<1>5. CASE step' = step /\ left # {}
  <2>1. PICK i \in left : /\ listed' = listed \cup ({memories[i]} \ {None})
                          /\ left' = left \ {i}
    BY <1>1, <1>5 DEF LoadListed
  <2>2. i \in Ids /\ i \notin IdsOf(listed) /\ IsFiniteSet(listed) /\ OnceEach(listed)
    BY <1>1, <2>1 DEF ReaderInv, ReadTypeOK, OnceInv, KnownInv
  <2>3. PICK ns : ns = listed'
    OBVIOUS
  <2>4. /\ IsFiniteSet(ns) /\ OnceEach(ns) /\ Loads(listed, ns)
        /\ \A m \in ns : m \in listed \/ (m \in Memory /\ m.id = i /\ m = memories[i])
        /\ IdsOf(ns) = IdsOf(listed) \cup ({i} \cap Stored)
    BY <2>1, <2>2, <2>3, LoadOne
  <2>5. ReadTypeOK' /\ EmptyInv'
    <3>1. listed' \subseteq Memory /\ left' \subseteq Ids
      BY <2>1, <2>3, <2>4 DEF ReaderInv, ReadTypeOK
    <3> QED
      BY <1>1, <1>5, <3>1 DEF ReaderInv, ReadTypeOK, EmptyInv
  <2>6. LoadInv' /\ WholeInv'
    BY <1>1, <1>3, <2>3, <2>4, LoadKeeps DEF Loads, Loaded
  <2>7. AskedInv' /\ ShownInv'
    BY <1>1, <1>2, <1>5 DEF ReaderInv, AskedInv, ShownInv
  <2>8. OnceInv'
    BY <1>1, <1>5, <2>1, <2>3, <2>4 DEF ReaderInv, OnceInv, OnceEach, IdsOf
  <2>9. KnownInv'
    <3>1. known' \subseteq left' \cup IdsOf(listed')
      BY <1>1, <1>3, <2>1, <2>3, <2>4 DEF ReaderInv, KnownInv, IdsOf
    <3> QED
      BY <1>1, <1>5, <2>3, <2>4, <3>1 DEF ReaderInv, KnownInv, IdsOf, InScope, Near,
         AfterRanking, AfterLoading, AfterListing, ReadSteps
  <2> QED
    BY <2>5, <2>6, <2>7, <2>8, <2>9 DEF ReaderInv
<1> QED
  BY <1>1, <1>4, <1>5 DEF LoadListed

(* So are the hits.                                                        *)
LEMMA LoadHitKeeps ==
  ASSUME WriterInv, ReaderInv, LoadHit, UNCHANGED vars
  PROVE  ReaderInv'
<1>1. /\ step = "hits"
      /\ UNCHANGED <<query, hits, listed, near, shown, shownEntities, shownFacts,
                     shownRelations, known, reads>>
  BY DEF LoadHit
<1>2. shown = {} /\ near = {} /\ shownRelations = {}
  BY <1>1 DEF ReaderInv, EmptyInv, AfterRanking, AfterLoading, AfterListing, ReadSteps
<1>3. hits' \cup near' \cup known' \subseteq Stored
  BY <1>1 DEF ReaderInv, LoadInv
<1>4. CASE left = {} /\ step' = "rank" /\ left' = left /\ found' = found
  <2>1. ReadTypeOK' /\ EmptyInv'
    BY <1>1, <1>2, <1>4 DEF ReaderInv, ReadTypeOK, EmptyInv, ReadSteps, AfterRanking,
       AfterLoading, AfterListing
  <2>2. LoadInv' /\ WholeInv'
    BY <1>1, <1>3, <1>4, LoadKeeps DEF Loads, Loaded
  <2>3. AskedInv' /\ OnceInv' /\ ShownInv'
    BY <1>1, <1>2, <1>4 DEF ReaderInv, AskedInv, OnceInv, OnceEach, IdsOf, ShownInv
  <2>4. KnownInv'
    BY <1>1, <1>2, <1>4 DEF ReaderInv, KnownInv, IdsOf, InScope, Near, AfterRanking,
       AfterLoading, AfterListing, ReadSteps
  <2> QED
    BY <2>1, <2>2, <2>3, <2>4 DEF ReaderInv
<1>5. CASE step' = step /\ left # {}
  <2>1. PICK i \in left : /\ found' = found \cup ({memories[i]} \ {None})
                          /\ left' = left \ {i}
    BY <1>1, <1>5 DEF LoadHit
  <2>2. /\ i \in Ids /\ i \notin IdsOf(found) /\ IsFiniteSet(found) /\ OnceEach(found)
        /\ i \in hits /\ i \in Stored
    BY <1>1, <2>1 DEF ReaderInv, ReadTypeOK, OnceInv, KnownInv, LoadInv
  <2>3. PICK ns : ns = found'
    OBVIOUS
  <2>4. /\ IsFiniteSet(ns) /\ OnceEach(ns) /\ Loads(found, ns)
        /\ \A m \in ns : m \in found \/ (m \in Memory /\ m.id = i /\ m = memories[i])
        /\ IdsOf(ns) = IdsOf(found) \cup ({i} \cap Stored)
    BY <2>1, <2>2, <2>3, LoadOne
  <2>5. ReadTypeOK' /\ EmptyInv'
    <3>1. found' \subseteq Memory /\ left' \subseteq Ids
      BY <2>1, <2>3, <2>4 DEF ReaderInv, ReadTypeOK
    <3> QED
      BY <1>1, <1>5, <3>1 DEF ReaderInv, ReadTypeOK, EmptyInv
  <2>6. LoadInv' /\ WholeInv'
    BY <1>1, <1>3, <2>3, <2>4, LoadKeeps DEF Loads, Loaded
  <2>7. AskedInv' /\ ShownInv'
    <3>1. \A m \in found' : m.scope = query.scope
      BY <2>2, <2>3, <2>4 DEF ReaderInv, AskedInv
    <3> QED
      BY <1>1, <1>2, <1>5, <3>1 DEF ReaderInv, AskedInv, ShownInv
  <2>8. OnceInv'
    BY <1>1, <1>5, <2>1, <2>2, <2>3, <2>4 DEF ReaderInv, OnceInv, OnceEach, IdsOf
  <2>9. KnownInv'
    <3>1. hits' \subseteq left' \cup IdsOf(found')
      BY <1>1, <2>1, <2>2, <2>3, <2>4 DEF ReaderInv, KnownInv, IdsOf
    <3> QED
      BY <1>1, <1>5, <2>3, <2>4, <3>1 DEF ReaderInv, KnownInv, IdsOf, InScope, Near,
         AfterRanking, AfterLoading, AfterListing, ReadSteps
  <2> QED
    BY <2>5, <2>6, <2>7, <2>8, <2>9 DEF ReaderInv
<1> QED
  BY <1>1, <1>4, <1>5 DEF LoadHit

(* The hits and the listing, each memory once.                             *)
LEMMA RankedFrom ==
  ASSUME WriterInv, ReaderInv, Rank
  PROVE  /\ shown' \subseteq found \cup listed
         /\ OnceEach(shown') /\ IsFiniteSet(shown')
         /\ \A m \in shown' : m.scope = query.scope
         /\ shown' = WithLexical(found) \/ Cardinality(shown') = TopK
<1> DEFINE W == WithLexical(found)
<1>1. shown' \subseteq W /\ (shown' = W \/ Cardinality(shown') = TopK)
  BY DEF Rank, Best
<1>2. W \subseteq found \cup listed /\ \A m \in W : m.scope = query.scope
  BY DEF WithLexical, ReaderInv, AskedInv
<1>3. OnceEach(W)
  BY DEF WithLexical, ReaderInv, OnceInv, OnceEach, IdsOf
<1>4. IsFiniteSet(shown')
  <2>1. IsFiniteSet(found \cup listed)
    BY FS_Union DEF ReaderInv, KnownInv
  <2> QED
    BY <1>1, <1>2, <2>1, FS_Subset
<1> HIDE DEF W
<1>5. OnceEach(shown')
  BY <1>1, <1>3 DEF OnceEach
<1> QED
  BY <1>1, <1>2, <1>4, <1>5 DEF W

(* As many are shown as are loaded, at least, if none is left out.         *)
LEMMA FoundAtLeast ==
  ASSUME ReaderInv, step = "rank", NEW S, IsFiniteSet(S), found \subseteq S
  PROVE  Cardinality(hits) \in Nat /\ Cardinality(S) \in Nat /\ Cardinality(S) >= Cardinality(hits)
<1>1. IsFiniteSet(found) /\ hits = IdsOf(found)
  BY DEF ReaderInv, KnownInv, OnceInv, AfterLoading, AfterListing, ReadSteps
<1> DEFINE f == [m \in found |-> m.id]
<1>2. f \in Surjection(found, hits)
  BY <1>1 DEF IdsOf, Surjection
<1> HIDE DEF f
<1>3. IsFiniteSet(hits) /\ Cardinality(hits) <= Cardinality(found)
  BY <1>1, <1>2, FS_Surjection
<1>4. Cardinality(found) <= Cardinality(S)
  BY FS_Subset
<1> QED
  BY <1>1, <1>3, <1>4, FS_CardinalityType

(* Whatever matches is loaded as a hit, or shares a word and is listed.    *)
LEMMA MatchesRanked ==
  ASSUME WriterInv, ReaderInv, step = "rank", NEW i \in known, InScope(i),
         i \in hits \/ ByWord(i)
  PROVE  i \in IdsOf(WithLexical(found))
<1>1. i \in hits => i \in IdsOf(found)
  BY DEF ReaderInv, KnownInv, AfterLoading, AfterListing, ReadSteps
<1>2. PICK m \in listed : m.id = i
  BY DEF ReaderInv, KnownInv, AfterListing, ReadSteps, IdsOf
<1>3. m.scope = memories[i].scope /\ m.text = memories[i].text
  BY <1>2 DEF ReaderInv, LoadInv, Loaded, EmbeddingOf
<1>4. CASE i \in IdsOf(found)
  BY <1>4 DEF IdsOf, WithLexical
<1>5. CASE i \notin IdsOf(found)
  <2>1. OverlapWith(m) > 0 /\ m.scope = query.scope
    BY <1>1, <1>3, <1>5 DEF InScope, ByWord, OverlapWith
  <2>2. m \in WithLexical(found)
    BY <1>2, <1>5, <2>1 DEF WithLexical
  <2> QED
    BY <1>2, <2>2 DEF IdsOf
<1> QED
  BY <1>4, <1>5

(* What is left out by the ranking had to make room for top_k others.      *)
LEMMA RankKeeps ==
  ASSUME WriterInv, ReaderInv, Rank, UNCHANGED vars
  PROVE  ReaderInv'
<1>1. /\ step = "rank" /\ step' \in {"done", "expand", "entities"}
      /\ step' = "done" => ~ query.context
      /\ left' \subseteq IdsOf(shown')
      /\ UNCHANGED <<query, hits, listed, found, near, shownEntities, shownFacts,
                     shownRelations, known, reads>>
  BY DEF Rank
<1>2. near = {} /\ shownRelations = {}
  BY <1>1 DEF ReaderInv, EmptyInv
<1>3. PICK ns : ns = shown'
  OBVIOUS
<1>4. /\ ns \subseteq found \cup listed /\ OnceEach(ns) /\ IsFiniteSet(ns)
      /\ \A m \in ns : m.scope = query.scope
      /\ ns = WithLexical(found) \/ Cardinality(ns) = TopK
  BY <1>3, RankedFrom
<1>5. ReadTypeOK'
  <2>1. ns \subseteq Memory
    BY <1>4 DEF ReaderInv, ReadTypeOK
  <2>2. IdsOf(ns) \subseteq Ids
    BY <2>1 DEF IdsOf, Memory
  <2> QED
    BY <1>1, <1>3, <2>1, <2>2 DEF ReaderInv, ReadTypeOK, ReadSteps
<1>6. EmptyInv'
  BY <1>1, <1>2 DEF EmptyInv, AfterRanking, AfterLoading, AfterListing, ReadSteps
<1>7. LoadInv' /\ WholeInv'
  <2>1. Loads(Loaded, Loaded')
    BY <1>1, <1>3, <1>4 DEF Loads, Loaded
  <2> QED
    BY <1>1, <2>1, LoadKeeps DEF ReaderInv, LoadInv
<1>8. AskedInv'
  <2>1. shown = {}
    BY <1>1 DEF ReaderInv, EmptyInv, AfterRanking, AfterLoading, AfterListing, ReadSteps
  <2>2. shownEntities = {} /\ shownFacts = {}
    BY <2>1, NothingFromNothing
  <2> QED
    BY <1>1, <1>2, <1>3, <1>4, <2>2 DEF ReaderInv, AskedInv
<1>9. OnceInv' /\ ShownInv'
  BY <1>1, <1>2, <1>3, <1>4 DEF ReaderInv, OnceInv, OnceEach, IdsOf, ShownInv
<1>10. KnownInv'
  <2>1. \/ Cardinality(ns) >= TopK
        \/ \A i \in known : InScope(i) /\ (Near(i) \/ ByWord(i)) => i \in IdsOf(ns)
    <3>1. CASE Cardinality(ns) = TopK
      BY <3>1, ReadingAssumption
    <3>2. CASE ns = WithLexical(found) /\ Cardinality(hits) = TopK
      <4>1. found \subseteq ns
        BY <3>2 DEF WithLexical
      <4> QED
        BY <1>1, <1>4, <3>2, <4>1, FoundAtLeast
    <3>3. CASE ns = WithLexical(found) /\ Cardinality(hits) # TopK
      <4>1. \A i \in known : InScope(i) /\ Near(i) => i \in hits
        BY <1>1, <3>3 DEF ReaderInv, KnownInv
      <4> QED
        BY <1>1, <3>3, <4>1, MatchesRanked
    <3> QED
      BY <1>4, <3>1, <3>2, <3>3
  <2>2. \A i : (InScope(i)' <=> InScope(i)) /\ (Near(i)' <=> Near(i)) /\ (ByWord(i)' <=> ByWord(i))
    BY <1>1 DEF InScope, Near, ByWord
  <2>3. IsFiniteSet(shown')
    BY <1>3, <1>4
  <2>4. \/ Cardinality(shown') >= TopK
        \/ \A i \in known : InScope(i)' /\ (Near(i)' \/ ByWord(i)') => i \in IdsOf(shown')
    BY <1>3, <2>1, <2>2
  <2>5. Cardinality(hits) = TopK \/ \A i \in known : InScope(i)' /\ Near(i)' => i \in hits
    BY <1>1, <2>2 DEF ReaderInv, KnownInv
  <2>6. known \subseteq IdsOf(listed) /\ hits \subseteq IdsOf(found)
    BY <1>1 DEF ReaderInv, KnownInv, AfterLoading, AfterListing, ReadSteps
  <2>7. IsFiniteSet(listed) /\ IsFiniteSet(found)
    BY DEF ReaderInv, KnownInv
  <2> QED
    BY <1>1, <2>3, <2>4, <2>5, <2>6, <2>7 DEF KnownInv, IdsOf
<1> QED
  BY <1>5, <1>6, <1>7, <1>8, <1>9, <1>10 DEF ReaderInv

(* The neighbours of what is shown are stored, and of its scope.           *)
LEMMA NeighboursInScope ==
  ASSUME WriterInv, ReaderInv, NEW i \in IdsOf(shown), NEW j \in Neighbours(i) \cap Ids
  PROVE  j \in Stored /\ memories[j].scope = query.scope
<1>1. PICK m \in shown : m.id = i
  BY DEF IdsOf
<1>2. i \in Stored /\ memories[i].scope = query.scope
  BY <1>1 DEF ReaderInv, LoadInv, AskedInv, Loaded, EmbeddingOf
<1>3. PICK e \in edges : i # j /\ e.ends = {i, j}
  BY DEF Neighbours, Adjacent
<1>4. i \in MemoryEnds(e) /\ j \in MemoryEnds(e)
  BY <1>2, <1>3 DEF MemoryEnds, Stored
<1>5. j \in Stored
  BY <1>4 DEF WriterInv, FullInv, IInv, GraphInv
<1>6. memories[i].scope = memories[j].scope
  BY <1>4 DEF WriterInv, ScopeInv
<1> QED
  BY <1>2, <1>5, <1>6

(* What comes through the graph has not been shown yet.                    *)
LEMMA ExpandKeeps ==
  ASSUME WriterInv, ReaderInv, ExpandGraph, UNCHANGED vars
  PROVE  ReaderInv'
<1>1. /\ step = "expand" /\ step' \in {"entities", "near"}
      /\ left' \subseteq left
      /\ step' = "near" \/ near' = near
      /\ UNCHANGED <<query, hits, listed, found, shown, shownEntities, shownFacts,
                     shownRelations, known, reads>>
  BY DEF ExpandGraph
<1>2. near = {} /\ shownRelations = {} /\ left \subseteq IdsOf(shown)
  BY <1>1 DEF ReaderInv, EmptyInv, AskedInv
<1>3. /\ near' \subseteq Stored /\ near' \cap IdsOf(shown) = {}
      /\ \A j \in near' : memories[j].scope = query.scope
  <2>1. CASE near' = near
    BY <1>2, <2>1
  <2>2. CASE step' = "near"
    <3>1. PICK i \in left : near' = (Neighbours(i) \cap Ids) \ IdsOf(shown)
      BY <2>2 DEF ExpandGraph
    <3> QED
      BY <1>2, <3>1, NeighboursInScope
  <2> QED
    BY <1>1, <2>1, <2>2
<1>4. ReadTypeOK' /\ EmptyInv'
  BY <1>1, <1>2, <1>3 DEF ReaderInv, ReadTypeOK, EmptyInv, AfterRanking, AfterLoading,
     AfterListing, ReadSteps, Stored
<1>5. LoadInv' /\ WholeInv'
  <2>1. hits' \cup near' \cup known' \subseteq Stored
    BY <1>1, <1>3 DEF ReaderInv, LoadInv
  <2> QED
    BY <1>1, <2>1, LoadKeeps DEF Loads, Loaded
<1>6. AskedInv'
  BY <1>1, <1>2, <1>3 DEF ReaderInv, AskedInv, IdsOf
<1>7. OnceInv' /\ ShownInv'
  BY <1>1, <1>3 DEF ReaderInv, OnceInv, OnceEach, IdsOf, ShownInv
<1>8. KnownInv'
  BY <1>1 DEF ReaderInv, KnownInv, IdsOf, InScope, Near, ByWord, AfterRanking, AfterLoading,
     AfterListing, ReadSteps
<1> QED
  BY <1>4, <1>5, <1>6, <1>7, <1>8 DEF ReaderInv

(* Neighbours only add to what is shown.                                   *)
LEMMA LoadNeighbourKeeps ==
  ASSUME WriterInv, ReaderInv, LoadNeighbour, UNCHANGED vars
  PROVE  ReaderInv'
<1>1. /\ step = "near" /\ step' \in {"expand", "near"} /\ near' \subseteq near
      /\ UNCHANGED <<query, hits, left, listed, found, shownEntities, shownFacts,
                     shownRelations, known, reads>>
  BY DEF LoadNeighbour
<1>2. shownRelations = {} /\ left \subseteq IdsOf(shown)
  BY <1>1 DEF ReaderInv, EmptyInv, AskedInv
<1>3. hits' \cup near' \cup known' \subseteq Stored
  BY <1>1 DEF ReaderInv, LoadInv
<1>4. CASE near = {} /\ step' = "expand" /\ near' = near /\ shown' = shown
  <2>1. ReadTypeOK' /\ EmptyInv'
    BY <1>1, <1>2, <1>4 DEF ReaderInv, ReadTypeOK, EmptyInv, ReadSteps, AfterRanking,
       AfterLoading, AfterListing
  <2>2. LoadInv' /\ WholeInv'
    BY <1>1, <1>3, <1>4, LoadKeeps DEF Loads, Loaded
  <2>3. AskedInv' /\ OnceInv' /\ ShownInv'
    BY <1>1, <1>2, <1>4 DEF ReaderInv, AskedInv, OnceInv, OnceEach, IdsOf, ShownInv
  <2>4. KnownInv'
    BY <1>1, <1>4 DEF ReaderInv, KnownInv, IdsOf, InScope, Near, ByWord, AfterRanking,
       AfterLoading, AfterListing, ReadSteps
  <2> QED
    BY <2>1, <2>2, <2>3, <2>4 DEF ReaderInv
<1>5. CASE step' = step /\ near # {}
  <2>1. PICK i \in near : /\ shown' = shown \cup ({memories[i]} \ {None})
                          /\ near' = near \ {i}
    BY <1>1, <1>5 DEF LoadNeighbour
  <2>2. /\ i \in Ids /\ i \notin IdsOf(shown) /\ IsFiniteSet(shown) /\ OnceEach(shown)
        /\ memories[i].scope = query.scope
    BY <1>1, <2>1 DEF ReaderInv, ReadTypeOK, OnceInv, KnownInv, AskedInv
  <2>3. PICK ns : ns = shown'
    OBVIOUS
  <2>4. /\ IsFiniteSet(ns) /\ OnceEach(ns) /\ Loads(shown, ns)
        /\ \A m \in ns : m \in shown \/ (m \in Memory /\ m.id = i /\ m = memories[i])
        /\ IdsOf(ns) = IdsOf(shown) \cup ({i} \cap Stored)
    BY <2>1, <2>2, <2>3, LoadOne
  <2>5. ReadTypeOK' /\ EmptyInv'
    <3>1. shown' \subseteq Memory /\ near' \subseteq Ids
      BY <2>1, <2>3, <2>4 DEF ReaderInv, ReadTypeOK
    <3> QED
      BY <1>1, <1>2, <1>5, <3>1 DEF ReaderInv, ReadTypeOK, EmptyInv, AfterRanking,
         AfterLoading, AfterListing, ReadSteps
  <2>6. LoadInv' /\ WholeInv'
    BY <1>1, <1>3, <2>3, <2>4, LoadKeeps DEF Loads, Loaded
  <2>7. AskedInv' /\ ShownInv'
    <3>1. \A m \in shown' : m.scope = query.scope
      BY <2>2, <2>3, <2>4 DEF ReaderInv, AskedInv
    <3>2. left' \subseteq IdsOf(shown') /\ IdsOf(shown) \subseteq IdsOf(shown')
      BY <1>1, <1>2, <2>3, <2>4
    <3> QED
      BY <1>1, <1>2, <1>5, <3>1, <3>2 DEF ReaderInv, AskedInv, ShownInv
  <2>8. OnceInv'
    BY <1>1, <1>5, <2>1, <2>3, <2>4 DEF ReaderInv, OnceInv, OnceEach, IdsOf
  <2>9. KnownInv'
    <3>1. Cardinality(shown) >= TopK => Cardinality(ns) >= TopK
      <4>1. Cardinality(shown) <= Cardinality(ns)
        BY <2>1, <2>3, <2>4, FS_Subset
      <4> QED
        BY <2>2, <2>4, <4>1, FS_CardinalityType, ReadingAssumption
    <3>2. \/ Cardinality(shown) >= TopK
          \/ \A i_1 \in known : InScope(i_1) /\ (Near(i_1) \/ ByWord(i_1)) => i_1 \in IdsOf(shown)
      BY <1>1 DEF ReaderInv, KnownInv, AfterRanking, AfterLoading, AfterListing, ReadSteps
    <3> QED
      BY <1>1, <1>5, <2>3, <2>4, <3>1, <3>2 DEF ReaderInv, KnownInv, IdsOf, InScope, Near,
         ByWord, AfterRanking, AfterLoading, AfterListing, ReadSteps
  <2> QED
    BY <2>5, <2>6, <2>7, <2>8, <2>9 DEF ReaderInv
<1> QED
  BY <1>1, <1>4, <1>5 DEF LoadNeighbour

(* A neighbour that is passed over is missing from what is still to load.  *)
LEMMA SkipKeeps ==
  ASSUME WriterInv, ReaderInv, SkipNeighbour
  PROVE  ReaderInv'
<1>1. /\ step = "near" /\ near' \subseteq near
      /\ UNCHANGED <<step, query, hits, left, listed, found, shown, shownEntities, shownFacts,
                     shownRelations, known, reads>>
      /\ UNCHANGED <<dataVars, graphVars, indexVars, opVars>>
  BY DEF SkipNeighbour
<1>2. ReadTypeOK' /\ EmptyInv'
  BY <1>1 DEF ReaderInv, ReadTypeOK, EmptyInv
<1>3. LoadInv' /\ WholeInv'
  BY <1>1 DEF ReaderInv, LoadInv, WholeInv, Loaded, Creating, IdsOf, SyncedOf, Stored,
     Associated, RelationBetween
<1>4. AskedInv' /\ OnceInv' /\ ShownInv'
  BY <1>1 DEF ReaderInv, AskedInv, OnceInv, OnceEach, IdsOf, ShownInv, SyncedOf, Associated,
     RelationBetween
<1>5. KnownInv'
  BY <1>1 DEF ReaderInv, KnownInv, IdsOf, InScope, Near, ByWord
<1> QED
  BY <1>2, <1>3, <1>4, <1>5 DEF ReaderInv

(* Entities and facts are of no memory that is not shown.                  *)
LEMMA LoadSourcesKeeps ==
  ASSUME WriterInv, ReaderInv, LoadEntities \/ LoadFacts, UNCHANGED vars
  PROVE  ReaderInv'
<1>1. /\ step \in {"entities", "facts"} /\ step' \in {"facts", "relations"}
      /\ UNCHANGED <<query, hits, left, listed, found, near, shown, shownRelations, known, reads>>
      /\ shownEntities' \subseteq shownEntities \cup [id : EntityIds, of : IdsOf(shown)]
      /\ shownFacts' \subseteq shownFacts \cup [id : FactIds, of : IdsOf(shown)]
  BY DEF LoadEntities, LoadFacts
<1>i. \A m \in shown : m.id \in Ids
  BY DEF ReaderInv, ReadTypeOK, Memory
<1>2. ReadTypeOK' /\ EmptyInv'
  <2>1. IdsOf(shown) \subseteq Ids
    BY <1>i DEF IdsOf
  <2>2. /\ shownEntities' \subseteq [id : EntityIds, of : Ids]
        /\ shownFacts' \subseteq [id : FactIds, of : Ids]
    BY <1>1, <2>1 DEF ReaderInv, ReadTypeOK
  <2> QED
    BY <1>1, <2>2 DEF ReaderInv, ReadTypeOK, EmptyInv, AfterRanking, AfterLoading,
       AfterListing, ReadSteps
<1>3. LoadInv' /\ WholeInv'
  BY <1>1, LoadKeeps DEF ReaderInv, LoadInv, Loads, Loaded
<1>4. AskedInv' /\ OnceInv' /\ ShownInv'
  <2>1. \A s \in shownEntities' \cup shownFacts' : s.of \in IdsOf(shown)
    BY <1>1 DEF ReaderInv, AskedInv
  <2>2. IdsOf(shown)' = IdsOf(shown)
    BY <1>1 DEF IdsOf
  <2>3. AskedInv'
    BY <1>1, <2>1, <2>2 DEF ReaderInv, AskedInv
  <2> QED
    BY <1>1, <2>3 DEF ReaderInv, OnceInv, OnceEach, IdsOf, ShownInv
<1>5. KnownInv'
  BY <1>1 DEF ReaderInv, KnownInv, IdsOf, InScope, Near, ByWord, AfterRanking, AfterLoading,
     AfterListing, ReadSteps
<1> QED
  BY <1>2, <1>3, <1>4, <1>5 DEF ReaderInv

(* A relation to an entity of what is shown is a relation of it.           *)
LEMMA LoadRelationsKeeps ==
  ASSUME WriterInv, ReaderInv, LoadRelations, UNCHANGED vars
  PROVE  ReaderInv'
<1>1. /\ step = "relations" /\ step' = "done"
      /\ UNCHANGED <<query, hits, left, listed, found, near, shown, shownEntities, shownFacts,
                     known, reads>>
      /\ shownRelations' = RelationsOf(shown)
  BY DEF LoadRelations
<1>2. ReadTypeOK' /\ EmptyInv'
  <2>1. shownRelations' \subseteq Relation
    BY <1>1 DEF RelationsOf, WriterInv, FullInv, IInv, TypeOK
  <2> QED
    BY <1>1, <2>1 DEF ReaderInv, ReadTypeOK, EmptyInv, AfterRanking, AfterLoading,
       AfterListing, ReadSteps
<1>3. LoadInv' /\ WholeInv'
  BY <1>1, LoadKeeps DEF ReaderInv, LoadInv, Loads, Loaded
<1>4. AskedInv' /\ OnceInv'
  BY <1>1 DEF ReaderInv, AskedInv, OnceInv, OnceEach, IdsOf, RelationsOf
<1>5. ShownInv'
  <2>1. ASSUME NEW m \in SyncedOf(shown), NEW e \in Entities[m.text]
        PROVE  Associated(m, e) \in RelationsOf(shown)
    <3>1. Associated(m, e) \in relations
      BY <2>1 DEF ReaderInv, WholeInv, SyncedOf, Loaded
    <3>2. m.id \in Associated(m, e).ends \cap IdsOf(shown)
      BY <2>1 DEF Associated, RelationBetween, IdsOf, SyncedOf
    <3> QED
      BY <3>1, <3>2 DEF RelationsOf
  <2> QED
    BY <1>1, <2>1 DEF ShownInv, SyncedOf, Associated, RelationBetween
<1>6. KnownInv'
  BY <1>1 DEF ReaderInv, KnownInv, IdsOf, InScope, Near, ByWord, AfterRanking, AfterLoading,
     AfterListing, ReadSteps
<1> QED
  BY <1>2, <1>3, <1>4, <1>5, <1>6 DEF ReaderInv

-----------------------------------------------------------------------------
(* Nothing has been read at first.                                         *)
LEMMA ReadInitInv == ReadInit => ReadInv
<1> SUFFICES ASSUME ReadInit PROVE ReadInv
  OBVIOUS
<1>1. WriterInv
  BY WriterInit DEF ReadInit
<1>2. ReadTypeOK
  BY ReadingAssumption DEF ReadInit, ReadTypeOK
<1>3. EmptyInv /\ LoadInv /\ AskedInv /\ OnceInv
  BY DEF ReadInit, EmptyInv, LoadInv, AskedInv, OnceInv, OnceEach, Loaded, SyncedOf, IdsOf
<1>4. KnownInv
  BY FS_EmptySet DEF ReadInit, KnownInv, AfterRanking, AfterLoading, AfterListing, ReadSteps
<1>5. WholeInv /\ ShownInv
  BY DEF ReadInit, WholeInv, ShownInv, Loaded, SyncedOf
<1> QED
  BY <1>1, <1>2, <1>3, <1>4, <1>5 DEF ReadInv, ReaderInv

(* No step of the writer or of a reader breaks the invariant of either.    *)
LEMMA ReadStepInv == ReadInv /\ [ReadNext]_<<vars, readVars>> => ReadInv'
<1> SUFFICES ASSUME ReadInv, [ReadNext]_<<vars, readVars>> PROVE ReadInv'
  OBVIOUS
<1>1. ASSUME UNCHANGED vars PROVE WriterInv'
  BY <1>1, WriterKept DEF ReadInv
<1>2. CASE WriterStep
  <2>1. Next /\ (Forget \/ UNCHANGED readVars)
    BY <1>2 DEF WriterStep
  <2>2. WriterInv'
    BY <2>1, WriterKept DEF ReadInv
  <2>3. ReaderInv'
    BY <2>1, ForgetKeeps, ReaderByWriter DEF ReadInv
  <2> QED
    BY <2>2, <2>3 DEF ReadInv
<1>3. CASE \E q \in Queries : BeginRead(q) /\ UNCHANGED vars
  BY <1>1, <1>3, BeginKeeps DEF ReadInv
<1>4. CASE ReadStep /\ UNCHANGED vars
  <2>1. ReaderInv'
    BY <1>4, ListKeysKeeps, LoadListedKeeps, LoadHitKeeps, RankKeeps, ExpandKeeps,
       LoadNeighbourKeeps, LoadSourcesKeeps, LoadRelationsKeeps, ForgetKeeps
       DEF ReadInv, ReadStep, Answer
  <2> QED
    BY <1>1, <1>4, <2>1 DEF ReadInv
<1>5. CASE ReadFails
  BY <1>5, FaultAside, ForgetKeeps DEF ReadFails, ReadInv
<1>7. CASE SkipNeighbour
  BY <1>7, FaultAside, SkipKeeps DEF SkipNeighbour, ReadInv
<1>6. CASE UNCHANGED <<vars, readVars>>
  <2>1. ReaderInv'
    BY <1>6 DEF ReadInv, ReaderInv, ReadTypeOK, EmptyInv, LoadInv, AskedInv, OnceInv, OnceEach,
       KnownInv, InScope, Near, ByWord, WholeInv, ShownInv, Loaded, SyncedOf, IdsOf, Stored,
       Creating, Associated, RelationBetween
  <2> QED
    BY <1>1, <1>6, <2>1 DEF ReadInv
<1> QED
  BY <1>2, <1>3, <1>4, <1>5, <1>6, <1>7 DEF ReadNext

(* What readers rely on of the writer, and what each has loaded so far,    *)
(* hold of recall.go and context_engine.go beside the write worker.        *)
THEOREM ReadInvariant == ReadSpec => []ReadInv
BY ReadInitInv, ReadStepInv, PTL DEF ReadSpec

(* Every variable of a read keeps its type.                                *)
THEOREM ReadTypes == ReadSpec => []ReadTypeOK
<1>1. ReadInv => ReadTypeOK
  BY DEF ReadInv, ReaderInv
<1> QED
  BY <1>1, ReadInvariant, PTL

(* A recall or a context shows memories, entities, facts and relations of  *)
(* the scope that was asked for and of no other, though neither            *)
(* expandGraphMemories nor the loaders after it look at the scope.         *)
THEOREM ScopeOfAnswers == ReadSpec => []OnlyTheScopeAskedFor
<1>1. ReadInv => OnlyTheScopeAskedFor
  <2> SUFFICES ASSUME ReadInv PROVE OnlyTheScopeAskedFor
    OBVIOUS
  <2>1. \A i \in IdsOf(shown) : i \in Ids /\ memories[i].scope = query.scope
    BY DEF ReadInv, ReaderInv, LoadInv, AskedInv, Loaded, EmbeddingOf, Stored, IdsOf
  <2>2. \A s \in shownEntities \cup shownFacts : memories[s.of].scope = query.scope
    BY <2>1 DEF ReadInv, ReaderInv, AskedInv
  <2>3. ASSUME NEW r \in shownRelations, NEW i \in Ids, i \in r.ends
        PROVE  memories[i].scope = query.scope
    <3>1. r \in relations /\ r.ends \cap IdsOf(shown) # {}
      BY DEF ReadInv, ReaderInv, AskedInv
    <3>2. PICK j \in IdsOf(shown) : j \in r.ends
      BY <3>1
    <3> QED
      BY <2>1, <2>3, <3>1, <3>2 DEF ReadInv, WriterInv, ScopeInv, MemoryEnds
  <2> QED
    BY <2>2, <2>3 DEF ReadInv, ReaderInv, AskedInv, OnlyTheScopeAskedFor
<1> QED
  BY <1>1, ReadInvariant, PTL

(* A memory that is loaded up to three times is shown with one value.      *)
THEOREM OneValueShown == ReadSpec => []OneValueOfEach
<1>1. ReadInv => OneValueOfEach
  BY DEF ReadInv, ReaderInv, OnceInv, OnceEach, OneValueOfEach
<1> QED
  BY <1>1, ReadInvariant, PTL

(* What was acknowledged before the read began, and matches it by a word   *)
(* or by its vector, is shown, whatever the write worker does meanwhile,   *)
(* unless top_k others are.                                                *)
THEOREM AckedIsShown == ReadSpec => []NothingAckedIsMissed
<1>1. ReadInv => NothingAckedIsMissed
  <2> SUFFICES ASSUME ReadInv, step = "done", Cardinality(shown) < TopK
               PROVE  \A i \in known : InScope(i) /\ (Near(i) \/ ByWord(i)) => i \in IdsOf(shown)
    BY DEF NothingAckedIsMissed, Answered, InScope, Near, ByWord
  <2>1. ~ (Cardinality(shown) >= TopK)
    BY FS_CardinalityType, ReadingAssumption DEF ReadInv, ReaderInv, KnownInv
  <2> QED
    BY <2>1 DEF ReadInv, ReaderInv, KnownInv, AfterRanking, AfterLoading, AfterListing, ReadSteps
<1> QED
  BY <1>1, ReadInvariant, PTL

-----------------------------------------------------------------------------
(* What is shown as synced is shown with what it is linked to. *)

(* The memories that are synced, and those that a reader holds as synced,  *)
(* which a Remember may have made pending again.                           *)
WasSynced == InStatus("synced") \cup IdsOf(SyncedOf(Loaded))

ShownLinks ==
  step = "done" /\ query.context =>
    \A m, o \in SyncedOf(shown) : Alike(m.id, o.id) => ClassifiedAs(m, o) \in shownRelations

ReadLinkInv == LinksOf(WasSynced) /\ ShownLinks

(* What a reader holds as synced is stored, and has the vector it will have. *)
LEMMA HeldWereSynced ==
  ASSUME ReadInv
  PROVE  WereSynced(WasSynced)
<1>1. InStatus("synced") \subseteq WasSynced /\ WasSynced \subseteq Stored
  BY DEF WasSynced, InStatus, ReadInv, ReaderInv, LoadInv, IdsOf, SyncedOf
<1>2. ASSUME pc = "persist_vector" PROVE mem.id \notin WasSynced
  <2>1. Creating
    BY <1>2 DEF Creating, ReadInv, WriterInv, FullInv, IInv, OperationInv
  <2>2. mem.id \notin IdsOf(SyncedOf(Loaded))
    BY <2>1 DEF ReadInv, ReaderInv, LoadInv
  <2>3. mem.id \notin InStatus("synced")
    BY <1>2 DEF InStatus, ReadInv, WriterInv, FullInv, CopyInv, RememberSteps
  <2> QED
    BY <2>2, <2>3 DEF WasSynced
<1> QED
  BY <1>1, <1>2 DEF WereSynced

(* What a reader comes to hold as synced is synced when it is loaded.      *)
LEMMA ReadLoads ==
  ASSUME ReadInv, ReadStep, UNCHANGED vars
  PROVE  Loads(Loaded, Loaded')
<1>1. \A i \in Ids : memories[i] # None => i \in Stored /\ memories[i].id = i
  BY LoadedNow DEF ReadInv, Stored
<1>2. left \subseteq Ids /\ near \subseteq Ids
  BY DEF ReadInv, ReaderInv, ReadTypeOK
<1>3. CASE LoadListed
  BY <1>1, <1>2, <1>3 DEF LoadListed, Loads, Loaded
<1>4. CASE LoadHit
  BY <1>1, <1>2, <1>4 DEF LoadHit, Loads, Loaded
<1>5. CASE LoadNeighbour
  BY <1>1, <1>2, <1>5 DEF LoadNeighbour, Loads, Loaded
<1>6. CASE Rank
  <2>1. shown' \subseteq found \cup listed /\ listed' = listed /\ found' = found
    BY <1>6, RankedFrom DEF Rank, ReadInv
  <2> QED
    BY <2>1 DEF Loads, Loaded
<1>7. CASE ListKeys \/ ExpandGraph \/ LoadEntities \/ LoadFacts \/ LoadRelations
  <2>1. UNCHANGED <<listed, found, shown>>
    BY <1>7 DEF ListKeys, ExpandGraph, LoadEntities, LoadFacts, LoadRelations
  <2> QED
    BY <2>1 DEF Loads, Loaded
<1>8. CASE Answer
  BY <1>8 DEF Answer, Forget, Loads, Loaded
<1> QED
  BY <1>3, <1>4, <1>5, <1>6, <1>7, <1>8 DEF ReadStep

(* Fewer memories are no less linked.                                      *)
LEMMA LinksOfFewer ==
  ASSUME NEW W, LinksOf(W), UNCHANGED <<dataVars, graphVars, indexVars, opVars>>,
         NEW V \in SUBSET W
  PROVE  LinksOf(V)'
BY DEF LinksOf, LinkedTo, Alike, Linked, ClassifiedAs, RelationBetween

(* What has been shown with its relations stays so beside the writer.      *)
LEMMA ShownLinksStay ==
  ASSUME ReadInv, ReadLinkInv, Next, UNCHANGED readVars
  PROVE  ShownLinks'
<1> SUFFICES ASSUME step = "done", query.context, NEW m \in SyncedOf(shown),
                    NEW o \in SyncedOf(shown), Alike(m.id, o.id)'
             PROVE  ClassifiedAs(m, o) \in shownRelations
  BY DEF ShownLinks, SyncedOf, ClassifiedAs, RelationBetween
<1>1. m.id \in WasSynced /\ o.id \in WasSynced
  BY DEF WasSynced, IdsOf, SyncedOf, Loaded
<1>2. ASSUME NEW i \in WasSynced PROVE vectors'[i] = vectors[i]
  <2>1. i \in Ids /\ ~ (pc = "persist_vector" /\ i = mem.id)
    BY HeldWereSynced DEF WereSynced, Stored
  <2> QED
    BY <2>1, VectorOnce DEF ReadInv, WriterInv, FullInv
<1>3. Alike(m.id, o.id)
  BY <1>1, <1>2 DEF Alike
<1> QED
  BY <1>3 DEF ReadLinkInv, ShownLinks

(* What is held as synced is shown with its relations.                     *)
LEMMA ShownLinksBegin ==
  ASSUME ReadInv, ReadLinkInv, LoadRelations, UNCHANGED vars
  PROVE  ShownLinks'
<1>1. shown' = shown /\ shownRelations' = RelationsOf(shown)
  BY DEF LoadRelations
<1> SUFFICES ASSUME NEW m \in SyncedOf(shown), NEW o \in SyncedOf(shown), Alike(m.id, o.id)
             PROVE  ClassifiedAs(m, o) \in RelationsOf(shown)
  BY <1>1 DEF ShownLinks, SyncedOf, ClassifiedAs, RelationBetween, Alike
<1>2. m.id \in WasSynced /\ o.id \in WasSynced /\ m \in Loaded /\ o \in Loaded /\ m \in shown
  BY DEF WasSynced, IdsOf, SyncedOf, Loaded
<1>3. Linked(m.id, o.id)
  BY <1>2 DEF ReadLinkInv, LinksOf, LinkedTo
<1>4. /\ memories[m.id].id = m.id /\ memories[m.id].text = m.text
      /\ memories[o.id].id = o.id /\ memories[o.id].text = o.text
  <2>1. \A n \in Loaded : n.id \in Stored /\ memories[n.id].text = n.text
    BY DEF ReadInv, ReaderInv, LoadInv, EmbeddingOf
  <2> QED
    BY <1>2, <2>1, LoadedNow DEF ReadInv
<1>5. ClassifiedAs(memories[m.id], memories[o.id]) = ClassifiedAs(m, o)
  BY <1>4 DEF ClassifiedAs, RelationBetween
<1>6. ClassifiedAs(m, o) \in relations
  BY <1>3, <1>5 DEF Linked
<1>7. m.id \in ClassifiedAs(m, o).ends \cap IdsOf(shown)
  BY <1>2 DEF ClassifiedAs, RelationBetween, IdsOf
<1> QED
  BY <1>6, <1>7 DEF RelationsOf

(* Every step keeps the links of what is synced or held as synced.         *)
LEMMA ReadLinkStep ==
  ASSUME ReadInv, ReadLinkInv, [ReadNext]_<<vars, readVars>>, SymmetricVerdicts, SearchesWhole
  PROVE  ReadLinkInv'
<1>1. PICK W : W = WasSynced
  OBVIOUS
<1>2. PICK V : V = WasSynced'
  OBVIOUS
<1>3. WereSynced(W) /\ LinksOf(W)
  BY <1>1, HeldWereSynced DEF ReadLinkInv
<1>4. LinksOf(V)' => LinksOf(WasSynced)'
  BY <1>2 DEF LinksOf, LinkedTo
<1>5. Forget => ShownLinks' /\ Loaded' = {}
  BY DEF Forget, ShownLinks, Loaded
<1>6. CASE WriterStep
  <2>1. Next /\ (Forget \/ UNCHANGED readVars)
    BY <1>6 DEF WriterStep
  <2>2. Loaded' \subseteq Loaded
    BY <1>5, <2>1 DEF Loaded
  <2>3. V \subseteq W \cup InStatus("synced")'
    BY <1>1, <1>2, <2>2 DEF WasSynced, IdsOf, SyncedOf
  <2>4. LinksOf(V)'
    BY <1>3, <2>1, <2>3, LinkStep DEF ReadInv, WriterInv, FullInv
  <2>5. ShownLinks'
    BY <1>5, <2>1, ShownLinksStay
  <2> QED
    BY <1>4, <2>4, <2>5 DEF ReadLinkInv
<1>7. ASSUME UNCHANGED <<dataVars, graphVars, indexVars, opVars>>, Loads(Loaded, Loaded')
      PROVE  LinksOf(V)'
  <2>1. InStatus("synced")' = InStatus("synced")
    BY <1>7 DEF InStatus, Stored
  <2>2. IdsOf(SyncedOf(Loaded')) \subseteq WasSynced
    BY <1>7 DEF Loads, IdsOf, SyncedOf, WasSynced, InStatus
  <2>3. V \subseteq W
    BY <1>1, <1>2, <2>1, <2>2 DEF WasSynced, IdsOf, SyncedOf
  <2> QED
    BY <1>3, <1>7, <2>3, LinksOfFewer
<1>8. CASE \E q \in Queries : BeginRead(q) /\ UNCHANGED vars
  <2>1. step' = "list" /\ Loaded' = Loaded
    BY <1>8 DEF BeginRead, Loaded
  <2>2. ShownLinks'
    BY <2>1 DEF ShownLinks
  <2> QED
    BY <1>4, <1>7, <1>8, <2>1, <2>2 DEF ReadLinkInv, Loads
<1>9. CASE ReadStep /\ UNCHANGED vars
  <2>1. LinksOf(V)'
    BY <1>7, <1>9, ReadLoads
  <2>2. ShownLinks'
    <3>1. CASE LoadRelations
      BY <1>9, <3>1, ShownLinksBegin
    <3>2. CASE Rank
      BY <3>2 DEF Rank, ShownLinks
    <3>3. CASE Answer
      BY <1>5, <3>3 DEF Answer
    <3>4. CASE ListKeys \/ LoadListed \/ LoadHit \/ ExpandGraph \/ LoadNeighbour
               \/ LoadEntities \/ LoadFacts
      BY <3>4 DEF ListKeys, LoadListed, LoadHit, ExpandGraph, LoadNeighbour, LoadEntities,
         LoadFacts, ShownLinks
    <3> QED
      BY <1>9, <3>1, <3>2, <3>3, <3>4 DEF ReadStep
  <2> QED
    BY <1>4, <2>1, <2>2 DEF ReadLinkInv
<1>10. CASE ReadFails
  BY <1>4, <1>5, <1>7, <1>10 DEF ReadFails, ReadLinkInv, Loads
<1>12. CASE SkipNeighbour
  <2>1. step' = "near" /\ Loaded' = Loaded
    BY <1>12 DEF SkipNeighbour, Loaded
  <2>2. ShownLinks'
    BY <2>1 DEF ShownLinks
  <2> QED
    BY <1>4, <1>7, <1>12, <2>1, <2>2 DEF SkipNeighbour, ReadLinkInv, Loads
<1>11. CASE UNCHANGED <<vars, readVars>>
  <2>1. Loaded' = Loaded
    BY <1>11 DEF Loaded
  <2>2. LinksOf(V)'
    BY <1>7, <1>11, <2>1 DEF Loads
  <2>3. ShownLinks'
    BY <1>11 DEF ReadLinkInv, ShownLinks, SyncedOf, Alike, ClassifiedAs, RelationBetween
  <2> QED
    BY <1>4, <2>2, <2>3 DEF ReadLinkInv
<1> QED
  BY <1>6, <1>8, <1>9, <1>10, <1>11, <1>12 DEF ReadNext

(* A memory that a context shows as synced is shown with the relations to  *)
(* all its entities, and to the memories shown as synced that it is alike, *)
(* though either may have been read before the relations were written.     *)
THEOREM SyncedShownWhole ==
  ASSUME SymmetricVerdicts, IsFiniteSet(Ids)
  PROVE  ReadSpec => []SyncedIsShownWhole
<1> DEFINE L == Cardinality(Ids) <= SyncTopK => ReadLinkInv
<1>1. ReadInit => L
  BY DEF ReadInit, Init, ReadLinkInv, ShownLinks, LinksOf, LinkedTo, WasSynced, InStatus,
     Stored, Loaded, SyncedOf, IdsOf
<1>2. ReadInv /\ L /\ [ReadNext]_<<vars, readVars>> => L'
  BY ReadLinkStep DEF SearchesWhole
<1>3. ReadInv /\ L => SyncedIsShownWhole
  <2> SUFFICES ASSUME ReadInv, L, step = "done", query.context, NEW m \in SyncedOf(shown)
               PROVE  /\ \A e \in Entities[m.text] : Associated(m, e) \in shownRelations
                      /\ \A o \in SyncedOf(shown) :
                           o # m /\ <<m.text, o.text>> \in Related /\ Cardinality(Ids) <= SyncTopK
                           /\ vectors[m.id] # None /\ vectors[o.id] # None
                             => ClassifiedAs(m, o) \in shownRelations
    BY DEF SyncedIsShownWhole, Answered, SyncedOf
  <2>1. \A e \in Entities[m.text] : Associated(m, e) \in shownRelations
    BY DEF ReadInv, ReaderInv, ShownInv
  <2>2. ASSUME NEW o \in SyncedOf(shown), o # m, <<m.text, o.text>> \in Related,
               Cardinality(Ids) <= SyncTopK, vectors[m.id] # None, vectors[o.id] # None
        PROVE  ClassifiedAs(m, o) \in shownRelations
    <3>1. m \in shown /\ o \in shown /\ m.id # o.id
      BY <2>2 DEF ReadInv, ReaderInv, OnceInv, OnceEach, SyncedOf
    <3>2. m.scope = o.scope
      BY <3>1 DEF ReadInv, ReaderInv, AskedInv
    <3>3. /\ m.id \in Ids /\ EmbeddingOf(m) = EmbeddingOf(memories[m.id])
          /\ o.id \in Ids /\ EmbeddingOf(o) = EmbeddingOf(memories[o.id])
      BY <3>1 DEF ReadInv, ReaderInv, LoadInv, Loaded, Stored
    <3>4. vectors[m.id] = EmbeddingOf(m) /\ vectors[o.id] = EmbeddingOf(o)
      BY <2>2, <3>3 DEF ReadInv, WriterInv, FullInv, CopyInv
    <3>5. Alike(m.id, o.id)
      BY <2>2, <3>1, <3>2, <3>4 DEF Alike, EmbeddingOf
    <3> QED
      BY <2>2, <3>5 DEF ReadLinkInv, ShownLinks
  <2> QED
    BY <2>1, <2>2
<1> HIDE DEF L
<1> QED
  BY <1>1, <1>2, <1>3, ReadInvariant, PTL DEF ReadSpec

=============================================================================
