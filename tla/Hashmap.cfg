SPECIFICATION Spec
CONSTANTS
  k1 = k1
  k2 = k2
  k3 = k3
  k4 = k4
  NULL = NULL
  Values = {v1, v2}
  initialCapacity = 1
  Keys <- MCKeys
  hash <- MChash
INVARIANTS HashmapTypeOK WellPlaced
PROPERTY ImplementsMap
