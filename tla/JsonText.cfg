SPECIFICATION Spec
CONSTANTS
  NULL = NULL
  Values <- MCValues
  MaxMallocs = 12
  Prebuffers = {1, 16}
INVARIANTS
  FitsItsBlock
  NothingLeaks
  PrintersAgree
  ReadBack
