\* Two clients of the network service: the user program and the CLI.
SPECIFICATION Spec
CONSTANTS
  Clients = {"user", "cli"}
  Ops <- UserAndCliOps
  Tries = 2
  Lengths = {1, 2}
  BufLen = 1
  TxSize = 2
  RxSize = 4
  MaxSends = 0
  MaxRx = 4
  MaxFaults = 0
INVARIANTS
  RepliesWritten
