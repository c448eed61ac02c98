SPECIFICATION Spec
CONSTANTS
  m1 = m1  m2 = m2  m3 = m3  e1 = e1  f1 = f1  None = None
  Ids = {m1, m2, m3}
  Texts <- MCTexts
  Hashes <- MCHashes
  Hash <- MCHash
  Scopes = {"a", "b"}
  Kinds = {"note"}
  Similar <- MCSimilar
  Related <- MCRelated
  OutOfRange = {}
  EntityIds = {e1}
  FactIds = {f1}
  Entities <- MCEntities
  Facts <- MCFacts
  Types <- MCTypes
  RelationType <- MCRelationType
  SyncTopK = 4
  Limits = {0, 1}
  MaxStamps = 4
  MaxFaults = 1
SYMMETRY IdSymmetry
INVARIANTS
  NoDanglingReference
  NoNearDuplicates
  AckedDurable
  SyncedIsEnriched
  OneRelationPerPair
  RelatedPairsLinked
  QueueMatchesStatus
  UniqueContent
PROPERTIES
  HashBindingsPermanent
  KeepsTheBook
