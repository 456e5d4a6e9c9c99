\* A semaphore is closed while tasks wait on it.
SPECIFICATION Spec
CONSTANTS
  NTasks = 4
  NSems = 2
  NMutexes = 0
  MaxPrio = 2
  BootPrio <- BootThree
  TickMod = 2
  Syscalls = {"yield", "sem_wait", "sem_close", "sem_post", "mutex_lock", "mutex_unlock"}
  NewPrios = {}
  MaxCount = 1
  MaxSleep = 0
  SleepOverWrap = FALSE
  Nesting = FALSE
  RxInterrupts = TRUE
INVARIANTS
  BlockedTasksCanBeWoken
