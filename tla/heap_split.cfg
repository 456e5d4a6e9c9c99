\* Programs that ask for any size: a free block between others is split.
SPECIFICATION Spec
CONSTANTS
  Align = 2
  Header = 2
  HeapSize = 16
  WordMod = 32
  Requests = {1, 3, 6}
  Callocs <- SomeCallocs
  SplitInside = TRUE
INVARIANTS
  Coalesced
