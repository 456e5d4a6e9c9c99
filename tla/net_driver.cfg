\* One client of the network service, the user program: its calls in any order,
\* a slow chip, and one frame cut short or one loss of the chip's power.
SPECIFICATION FairSpec
CONSTANTS
  Clients = {"user"}
  Ops <- UserOps
  Tries = 2
  Lengths = {2}
  BufLen = 1
  TxSize = 4
  RxSize = 6
  MaxSends = 2
  MaxRx = 6
  MaxFaults = 1
INVARIANTS
  TypeOK
  UnreapedHasOutcome
PROPERTIES
  DatagramsWhole
  OkMeansHealthy
  ReceivedInOrder
  ServiceContract
  EveryCallReturns
