\* Every system call, nested locks, and closed semaphores: what holds
\* whatever the programs do.
SPECIFICATION Spec
CONSTANTS
  NTasks = 3
  NSems = 1
  NMutexes = 2
  MaxPrio = 2
  BootPrio <- BootTwo
  TickMod = 2
  Syscalls = {"sem_create", "sem_wait", "sem_post", "sem_close", "mutex_lock", "mutex_unlock", "task_create", "task_exit"}
  NewPrios = {0}
  MaxCount = 1
  MaxSleep = 0
  SleepOverWrap = TRUE
  Nesting = TRUE
  RxInterrupts = TRUE
INVARIANTS
  TypeOK
  EveryTaskOnItsList
  OnlyRunningTaskExecutes
  NoUnitBesideWaiter
  WaitersHaveAnOwner
