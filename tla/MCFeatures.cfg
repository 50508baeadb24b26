SPECIFICATION FairSpec
CONSTANTS
  c1 = c1
  c2 = c2
  f1 = f1
  f2 = f2
  CollectionIds = {c1, c2}
  FeatureIds = {f1, f2}
  Titles = {"old", "new"}
  PropertyNames = {"speed"}
  Instants = {1, 2}
  Requests <- CoreRequests
  Faults = {"sql", "kill", "database", "client gone"}
  NameOrder <- MCNameOrder
  Limits = {0, 1, 3}
  MaxSerial = 3
  NoRequest = NoRequest
  NoId = NoId
INVARIANTS
  TypeOK
  RefusedBatchKeepsPrefix
  RefusedReplaceLosesAtMostItsFeature
  AcceptedTookEffect
  GeometriesInTheirCollection
PROPERTIES
  ImplementsContract
  OtherCollectionsUntouched
  OnlyUnguardedReadsPoison
  PoisonIsCleared
  RequestsEnd
