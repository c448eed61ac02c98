SPECIFICATION ReadSpec
CONSTANTS
  m1 = m1  m2 = m2  e1 = e1  f1 = f1  None = None
  Ids = {m1, m2}
  Texts <- MCTexts
  Hashes <- MCTexts
  Hash <- MCHash
  Scopes = {"a", "b"}
  Kinds = {"note"}
  Similar <- MCSimilar
  Related <- MCRelated
  OutOfRange = {}
  EntityIds = {e1}
  FactIds = {f1}
  Entities <- MCEntities
  Facts <- MCFacts
  Types = {"complement"}
  RelationType <- MCRelationType
  SyncTopK = 4
  Limits = {0}
  MaxStamps = 2
  MaxFaults = 1
  Questions = {"who"}
  Cosine <- MCCosine
  Overlap <- MCOverlap
  Queries <- MCQueries
  TopK = 2
  MaxReads = 1
INVARIANTS
  OnlyTheScopeAskedFor
  NothingAckedIsMissed
  OneValueOfEach
  SyncedIsShownWhole
