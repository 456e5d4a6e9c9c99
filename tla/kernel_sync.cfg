\* Semaphores, mutexes, sleep and exit of programs that hold one mutex at a time;
\* every wake-up but the console interrupt's asks for a switch.
SPECIFICATION Spec
CONSTANTS
  NTasks = 4
  NSems = 1
  NMutexes = 2
  MaxPrio = 2
  BootPrio <- BootThree
  TickMod = 3
  Syscalls = {"yield", "sem_wait", "sem_post", "mutex_lock", "mutex_unlock", "sleep", "task_exit"}
  NewPrios = {}
  MaxCount = 1
  MaxSleep = 2
  SleepOverWrap = FALSE
  Nesting = FALSE
  RxInterrupts = FALSE
INVARIANTS
  QueuesSorted
  PriorityInheritanceExact
  MostUrgentTaskExecutes
  FinishedTasksOwnNothing
PROPERTIES
  WokenOnTime
