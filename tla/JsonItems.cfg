SPECIFICATION Spec

CONSTANTS
  Items = {i1, i2, i3, i4, i5}
  Names = {x}
  NULL = NULL
  MaxCount = 2

SYMMETRY Interchangeable

INVARIANT WellLinked
PROPERTY ImplementsTree
