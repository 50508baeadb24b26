SPECIFICATION Spec
SYMMETRY Symmetric
CONSTANTS
  c1 = c1
  c2 = c2
  f1 = f1
  f2 = f2
  CollectionIds = {c1, c2}
  FeatureIds = {f1, f2}
  Crs <- MCCrs
  Absent = "absent"
  DefaultCrs = "crs84"
  FirstNumber <- MCFirstNumber
  EpsgCode <- MCEpsgCode
INVARIANTS PostedInItsSystem OneSystemIsServed
