SPECIFICATION Spec
CONSTANTS
  Pointers = {p1, p2}
  NULL = NULL
  Junk = Junk
  PointerSize = 8
  MaxCapacity = 5
  Sizes = {0, 2, 5, 6}
  Growing = FALSE
INVARIANT ArrayTypeOK
PROPERTY ImplementsArray
