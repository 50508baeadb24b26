SPECIFICATION Spec
CONSTANTS
  c1 = c1
  c2 = c2
  f1 = f1
  f2 = f2
  CollectionIds = {c1, c2}
  FeatureIds = {f1, f2}
  Titles = {"old", "new"}
  PropertyNames = {"speed"}
  Instants = {1, 2, 3}
  Requests <- TrackRequests
  Faults = {"sql", "kill", "database", "client gone"}
  NameOrder <- MCNameOrder
  Limits = {0, 1, 3}
  MaxSerial = 4
  NoRequest = NoRequest
  NoId = NoId
INVARIANTS
  AcceptedTookEffect
  DeleteLeavesAMember
  ExtentsCurrentOrUnset
PROPERTIES
  BulkIsAtomic
  ImplementsContract
