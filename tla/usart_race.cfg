\* As console with a single writer, which may lose the processor within a ring
\* function: net_task shares the CLI's priority and a tick switches between equals.
SPECIFICATION FairSpec
CONSTANTS
  Size = 3
  Writers = {"cli"}
  Preemption = TRUE
  Paced = TRUE
  EarlyBytes = FALSE
  Letters = {"x"}
  LineMax = 2
  RebootLine <- RebootXX
  MaxKeys = 1
  MaxLogs = 0
PROPERTIES
  TxIsQueue
CHECK_DEADLOCK FALSE
