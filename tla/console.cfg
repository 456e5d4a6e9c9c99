\* The CLI and a task that logs; no task loses the processor within a ring
\* function, and the host waits for room.
SPECIFICATION FairSpec
CONSTANTS
  Size = 3
  Writers = {"cli", "net"}
  Preemption = FALSE
  Paced = TRUE
  EarlyBytes = FALSE
  Letters = {"x"}
  LineMax = 2
  RebootLine <- RebootXX
  MaxKeys = 3
  MaxLogs = 1
INVARIANTS
  TypeOK
  UnitsMatchBytes
  ScreenShowsLine
PROPERTIES
  TxIsQueue
  RxIsQueue
  OutputFlows
  KeysAreRead
CHECK_DEADLOCK FALSE
