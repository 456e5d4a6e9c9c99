\* Programs that split only the last block.
SPECIFICATION Spec
CONSTANTS
  Align = 2
  Header = 2
  HeapSize = 16
  WordMod = 32
  Requests = {1, 3, 6}
  Callocs <- SomeCallocs
  SplitInside = FALSE
INVARIANTS
  TypeOK
  BlocksTile
  OwnersDisjoint
  Coalesced
  NothingLeaks
