\* Nested locks, chains of owners and cycles of them, tasks that share a priority.
SPECIFICATION FairSpec
CONSTANTS
  NTasks = 4
  NSems = 1
  NMutexes = 2
  MaxPrio = 2
  BootPrio <- BootShare
  TickMod = 2
  Syscalls = {"mutex_lock", "sleep"}
  NewPrios = {}
  MaxCount = 1
  MaxSleep = 1
  SleepOverWrap = FALSE
  Nesting = TRUE
  RxInterrupts = FALSE
INVARIANTS
  PriorityInheritanceExact
PROPERTIES
  HandlersReturn
  EqualsTakeTurns
