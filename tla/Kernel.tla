------------------------------- MODULE Kernel -------------------------------
(***************************************************************************)
(* The kernel core: the task pool, the priority ready queue, counting      *)
(* semaphores, priority-inheritance mutexes, the sleep list, SVC dispatch, *)
(* SysTick and PendSV.                                                     *)
(*                                                                         *)
(* Pointers into the static pools are numbers, 0 is the null pointer.  An  *)
(* intrusive list (tcb_list_t) is the sequence of its elements; the lists  *)
(* of owned mutexes keep their links, because mutex_unlock relinks a mutex *)
(* while it is still on another list.                                      *)
(*                                                                         *)
(* A step is a stretch of code no other context can observe half done: a   *)
(* section under irq_save(), or code that only the same exception level    *)
(* touches.  The two loops that run under irq_save() (the recursion of     *)
(* task_raise_priority and the loop of sleep_tick) take one step for each  *)
(* round, and nothing else is enabled until they are over.                 *)
(***************************************************************************)
EXTENDS Naturals, FiniteSets, SequencesExt

CONSTANTS
  NTasks,      \* N_TASKS: slots of the task pool
  NSems,       \* N_SEMAPHORES: slots of the semaphore pool
  NMutexes,    \* mutexes the programs use
  MaxPrio,     \* the idle task's priority (0xFF); 0 is the most urgent
  BootPrio,    \* priorities of the tasks main() creates, idle first
  TickMod,     \* system_ticks counts modulo this (2^32)
  Syscalls,    \* the system calls the programs make
  NewPrios,    \* priorities they pass to sys_task_create
  MaxCount,    \* bound on a semaphore's count
  MaxSleep,    \* bound on the argument of sys_sleep
  SleepOverWrap, \* whether a wake_tick may lie past the wrap of the ticks
  Nesting,     \* whether a task may lock a mutex while it owns another
  RxInterrupts \* whether bytes arrive at the console

Tasks == 1..NTasks
Sems == 1..NSems
Mutexes == 1..NMutexes
Prios == 0..MaxPrio
None == 0
Idle == 1
RxSem == 1

SyscallNames ==
  {"yield", "sem_create", "sem_wait", "sem_post", "sem_close", "mutex_lock",
   "mutex_unlock", "task_create", "task_exit", "sleep"}

ASSUME SizesAssumption ==
  /\ NTasks \in Nat \ {0} /\ NSems \in Nat \ {0} /\ NMutexes \in Nat
  /\ MaxPrio \in Nat /\ MaxCount \in Nat /\ MaxSleep \in Nat
  /\ TickMod \in Nat \ {0}
ASSUME BootAssumption ==
  /\ BootPrio \in Seq(Prios) /\ Len(BootPrio) \in 1..NTasks
  /\ BootPrio[Idle] = MaxPrio
ASSUME UseAssumption ==
  /\ Syscalls \subseteq SyscallNames /\ NewPrios \subseteq Prios
  /\ {Nesting, RxInterrupts, SleepOverWrap} \subseteq BOOLEAN

VARIABLES
  \* the task pool (tcb_t)
  state, base_priority, effective_priority, waiting_on, waiting_on_type,
  wake_tick, owned_mutexes,
  \* scheduler.c and sleep.c
  ready_queue, current_task, next_task, sleep_list, system_ticks,
  \* semaphore_t and mutex_t
  sem_state, count, sem_queue, owner, mutex_queue, next_owned,
  \* the processor: the handler in progress below SysTick, whether SysTick
  \* is in sleep_tick, the PENDSVSET bit, and how far main() has booted
  mode, in_tick, pendsv, booted,
  \* the arguments of task_raise_priority and the loop variable of
  \* mutex_unlock_all_owned, meaningful in the modes "raise" and "exit"
  raise_task, raise_prio, exit_mutex

prioVars == <<base_priority, effective_priority>>
waitVars == <<waiting_on, waiting_on_type>>
semVars == <<sem_state, count, sem_queue>>
mutexVars == <<owner, mutex_queue, next_owned, owned_mutexes>>
sleepVars == <<wake_tick, sleep_list>>
cpuVars == <<current_task, next_task, system_ticks, in_tick, pendsv, booted>>
loopVars == <<raise_task, raise_prio, exit_mutex>>
vars == <<state, ready_queue, mode, prioVars, waitVars, semVars, mutexVars,
          sleepVars, cpuVars, loopVars>>

-----------------------------------------------------------------------------
(* Lists.                                                                  *)

\* Mutant of Passed: an insertion stops in front of its equals.
PassedStrictly(q, key, k) ==
  Cardinality({i \in 1..Len(q) : \A j \in 1..i : key[q[j]] < k})

\* How many elements of q an insertion of key k walks past.
Passed(q, key, k) ==
  Cardinality({i \in 1..Len(q) : \A j \in 1..i : key[q[j]] <= k})

\* priority_queue_push and sleep_queue_push: behind the equals.
OrderedPush(q, t, key) == InsertAt(q, Passed(q, key, key[t]) + 1, t)

\* priority_queue_remove; a task that is not in q changes nothing.
Unlink(q, t) ==
  IF \E i \in 1..Len(q) : q[i] = t
  THEN RemoveAt(q, CHOOSE i \in 1..Len(q) : q[i] = t)
  ELSE q

\* Mutant of Reorder: the task goes to the tail of its list.
ReorderAtTail(q, t, key) == Append(Unlink(q, t), t)

\* priority_queue_reoder, and the remove and push of scheduler_put_task.
Reorder(q, t, key) == OrderedPush(Unlink(q, t), t, key)

\* The mutexes a walk along next_owned from head h visits.  (On a cyclic list,
\* which only released nested locks make, the walk of the code does not end.)
Listed(h, nxt) ==
  {m \in Mutexes : \A S \in SUBSET Mutexes :
     (/\ h # None => h \in S
      /\ \A x \in S : nxt[x] # None => nxt[x] \in S) => m \in S}

\* mutex_queue_push(&owned_mutexes[t], m), as the pair <<heads, links>>.
OwnedPush(own, nxt, t, m) ==
  <<[own EXCEPT ![t] = m], [nxt EXCEPT ![m] = own[t]]>>

\* mutex_queue_remove(&owned_mutexes[t], m).
OwnedRemove(own, nxt, t, m) ==
  IF own[t] = m
  THEN <<[own EXCEPT ![t] = nxt[m]], [nxt EXCEPT ![m] = None]>>
  ELSE LET prevs == {p \in Listed(own[t], nxt) : nxt[p] = m} IN
       IF prevs = {} THEN <<own, nxt>>
       ELSE <<own, [nxt EXCEPT ![CHOOSE p \in prevs : TRUE] = nxt[m],
                               ![m] = None]>>

\* Mutant of Recalculated: an unlock leaves the inherited priority.
RecalculatedStale(t, own, nxt, mq, eff) == eff[t]

\* task_recalculate_priority(t): the first waiter of every mutex on t's list.
Recalculated(t, own, nxt, mq, eff) ==
  LET firsts == {m \in Listed(own[t], nxt) : mq[m] # <<>>}
      claims == {base_priority[t]} \cup {eff[Head(mq[m])] : m \in firsts}
  IN CHOOSE p \in claims : \A r \in claims : p <= r

-----------------------------------------------------------------------------
(* Boot: main() after static_memory_init and scheduler_init.  usart2_init  *)
(* has created the receive semaphore.                                      *)

Init ==
  /\ state = [t \in Tasks |-> "UNUSED"]
  /\ base_priority = [t \in Tasks |-> 0]
  /\ effective_priority = [t \in Tasks |-> 0]
  /\ waiting_on = [t \in Tasks |-> None]
  /\ waiting_on_type = [t \in Tasks |-> "NONE"]
  /\ wake_tick = [t \in Tasks |-> 0]
  /\ owned_mutexes = [t \in Tasks |-> None]
  /\ ready_queue = <<>> /\ sleep_list = <<>>
  /\ current_task = None /\ next_task = None
  /\ system_ticks = 0
  /\ sem_state = [s \in Sems |-> IF s = RxSem THEN "OPEN" ELSE "UNUSED"]
  /\ count = [s \in Sems |-> 0]
  /\ sem_queue = [s \in Sems |-> <<>>]
  /\ owner = [m \in Mutexes |-> None]
  /\ mutex_queue = [m \in Mutexes |-> <<>>]
  /\ next_owned = [m \in Mutexes |-> None]
  /\ mode = "thread" /\ in_tick = FALSE /\ pendsv = FALSE /\ booted = 0
  /\ raise_task = None /\ raise_prio = 0 /\ exit_mutex = None

FreeSlots == {t \in Tasks : state[t] \in {"UNUSED", "FINISHED"}}

\* create_task in the slot alloc_task finds, then scheduler_put_task.
CreateTask(p) ==
  LET t == CHOOSE t \in FreeSlots : \A u \in FreeSlots : t <= u IN
  /\ FreeSlots # {}
  /\ state' = [state EXCEPT ![t] = "READY"]
  /\ base_priority' = [base_priority EXCEPT ![t] = p]
  /\ effective_priority' = [effective_priority EXCEPT ![t] = p]
  /\ owned_mutexes' = [owned_mutexes EXCEPT ![t] = None]
  /\ waiting_on' = [waiting_on EXCEPT ![t] = None]
  /\ waiting_on_type' = [waiting_on_type EXCEPT ![t] = "NONE"]
  /\ wake_tick' = [wake_tick EXCEPT ![t] = 0]
  /\ ready_queue' = OrderedPush(ready_queue, t, effective_priority')
  /\ UNCHANGED <<sleep_list, semVars, owner, mutex_queue, next_owned,
                 current_task, next_task, system_ticks, in_tick, pendsv,
                 mode, loopVars>>

\* main() queues idle, cli, user and net before it starts the tick; a task is
\* numbered in the order of the queueing.
BootTask ==
  /\ booted < Len(BootPrio)
  /\ CreateTask(BootPrio[booted + 1])
  /\ booted' = booted + 1

-----------------------------------------------------------------------------
(* The end of a handler.                                                   *)

\* Mutant of RequestContextSwitch: a current task that has stopped is
\* compared like a running one.
RequestByPriority ==
  pendsv' = \/ pendsv
            \/ /\ ready_queue # <<>>
               /\ ~ /\ current_task # None
                    /\ effective_priority[Head(ready_queue)] >
                         effective_priority[current_task]

\* request_context_switch().  With current_task null the code reads the
\* state field at address 4, the reset vector, which is not TASK_RUNNING.
RequestContextSwitch ==
  pendsv' = \/ pendsv
            \/ /\ ready_queue # <<>>
               /\ ~ /\ current_task # None
                    /\ state[current_task] = "RUNNING"
                    /\ effective_priority[Head(ready_queue)] >
                         effective_priority[current_task]

\* The tail of svc_dispatch when should_yield is set.
SvcTail ==
  /\ mode = "svc"
  /\ RequestContextSwitch
  /\ mode' = "thread"
  /\ UNCHANGED <<state, ready_queue, prioVars, waitVars, semVars, mutexVars,
                 sleepVars, loopVars, current_task, next_task, system_ticks,
                 in_tick, booted>>

-----------------------------------------------------------------------------
(* System calls of the current task.  The idle task only executes wfi.     *)

Calls(name) ==
  /\ name \in Syscalls
  /\ mode = "thread" /\ ~in_tick /\ ~pendsv
  /\ current_task \notin {None, Idle}

SysYield ==
  /\ Calls("yield")
  /\ mode' = "svc"
  /\ UNCHANGED <<state, ready_queue, prioVars, waitVars, semVars, mutexVars,
                 sleepVars, cpuVars, loopVars>>

SysTaskCreate ==
  /\ Calls("task_create")
  /\ \E p \in NewPrios : CreateTask(p)
  /\ UNCHANGED booted

FreeSems == {s \in Sems : sem_state[s] = "UNUSED"}

\* alloc_sem, then semaphore_init.
SysSemCreate ==
  LET s == CHOOSE s \in FreeSems : \A r \in FreeSems : s <= r IN
  /\ Calls("sem_create")
  /\ FreeSems # {}
  /\ sem_state' = [sem_state EXCEPT ![s] = "OPEN"]
  /\ \E c \in 0..MaxCount : count' = [count EXCEPT ![s] = c]
  /\ sem_queue' = [sem_queue EXCEPT ![s] = <<>>]
  /\ UNCHANGED <<state, ready_queue, mode, prioVars, waitVars, mutexVars,
                 sleepVars, cpuVars, loopVars>>

\* Mutant of SysSemTake: takes a unit that is not there.
SemTakeUnchecked(s) ==
  /\ Calls("sem_wait")
  /\ sem_state[s] = "OPEN"
  /\ count' = [count EXCEPT ![s] = @ - 1]
  /\ UNCHANGED <<state, ready_queue, mode, prioVars, waitVars, sem_state,
                 sem_queue, mutexVars, sleepVars, cpuVars, loopVars>>

\* semaphore_wait with a unit left: no yield.
SysSemTake(s) ==
  /\ Calls("sem_wait")
  /\ sem_state[s] = "OPEN" /\ count[s] > 0
  /\ count' = [count EXCEPT ![s] = @ - 1]
  /\ UNCHANGED <<state, ready_queue, mode, prioVars, waitVars, sem_state,
                 sem_queue, mutexVars, sleepVars, cpuVars, loopVars>>

\* Mutant of SysSemBlock: the last unit is not given out.
SemBlockEarly(s) ==
  /\ Calls("sem_wait")
  /\ sem_state[s] = "OPEN" /\ count[s] <= 1
  /\ state' = [state EXCEPT ![current_task] = "BLOCKED"]
  /\ waiting_on' = [waiting_on EXCEPT ![current_task] = s]
  /\ waiting_on_type' = [waiting_on_type EXCEPT ![current_task] = "SEM"]
  /\ sem_queue' = [sem_queue EXCEPT ![s] = Append(@, current_task)]
  /\ mode' = "svc"
  /\ UNCHANGED <<ready_queue, prioVars, sem_state, count, mutexVars,
                 sleepVars, cpuVars, loopVars>>

\* semaphore_wait with none left.
SysSemBlock(s) ==
  /\ Calls("sem_wait")
  /\ sem_state[s] = "OPEN" /\ count[s] = 0
  /\ state' = [state EXCEPT ![current_task] = "BLOCKED"]
  /\ waiting_on' = [waiting_on EXCEPT ![current_task] = s]
  /\ waiting_on_type' = [waiting_on_type EXCEPT ![current_task] = "SEM"]
  /\ sem_queue' = [sem_queue EXCEPT ![s] = Append(@, current_task)]
  /\ mode' = "svc"
  /\ UNCHANGED <<ready_queue, prioVars, sem_state, count, mutexVars,
                 sleepVars, cpuVars, loopVars>>

\* semaphore_post on an open semaphore: the unit goes to the first waiter.
SemaphorePost(s) ==
  /\ sem_state[s] = "OPEN"
  /\ \/ /\ sem_queue[s] # <<>>
        /\ LET t == Head(sem_queue[s]) IN
           /\ state' = [state EXCEPT ![t] = "READY"]
           /\ waiting_on' = [waiting_on EXCEPT ![t] = None]
           /\ waiting_on_type' = [waiting_on_type EXCEPT ![t] = "NONE"]
           /\ ready_queue' = Reorder(ready_queue, t, effective_priority)
        /\ sem_queue' = [sem_queue EXCEPT ![s] = Tail(@)]
        /\ UNCHANGED count
     \/ /\ sem_queue[s] = <<>>
        /\ count[s] < MaxCount
        /\ count' = [count EXCEPT ![s] = @ + 1]
        /\ UNCHANGED <<state, waitVars, ready_queue, sem_queue>>
  /\ UNCHANGED <<sem_state, prioVars, mutexVars, sleepVars, cpuVars, loopVars>>

SysSemPost(s) ==
  /\ Calls("sem_post")
  /\ SemaphorePost(s)
  /\ mode' = "svc"

\* semaphore_close, then free_sem.  scheduler_put_task refuses each drained
\* task, because its state is still TASK_BLOCKED.
SysSemClose(s) ==
  /\ Calls("sem_close")
  /\ LET drained == {t \in Tasks : \E i \in 1..Len(sem_queue[s]) :
                                     sem_queue[s][i] = t} IN
     /\ waiting_on' = [t \in Tasks |->
                         IF t \in drained THEN None ELSE waiting_on[t]]
     /\ waiting_on_type' = [t \in Tasks |-> IF t \in drained THEN "NONE"
                                            ELSE waiting_on_type[t]]
  /\ sem_queue' = [sem_queue EXCEPT ![s] = <<>>]
  /\ sem_state' = [sem_state EXCEPT ![s] = "UNUSED"]
  /\ UNCHANGED <<state, ready_queue, mode, prioVars, count, mutexVars,
                 sleepVars, cpuVars, loopVars>>

\* Application discipline: whether t may ask for a further mutex.
MayLock(t) == Nesting \/ \A m \in Mutexes : owner[m] # t

SysMutexTake(m) ==
  LET add == OwnedPush(owned_mutexes, next_owned, current_task, m) IN
  /\ Calls("mutex_lock")
  /\ MayLock(current_task)
  /\ owner[m] = None
  /\ owner' = [owner EXCEPT ![m] = current_task]
  /\ owned_mutexes' = add[1] /\ next_owned' = add[2]
  /\ UNCHANGED <<state, ready_queue, mode, prioVars, waitVars, semVars,
                 mutex_queue, sleepVars, cpuVars, loopVars>>

\* mutex_lock on a mutex another task owns, up to task_raise_priority.  (On
\* its own mutex the caller gets MUTEX_DEADLOCK and nothing changes.)
SysMutexBlock(m) ==
  /\ Calls("mutex_lock")
  /\ MayLock(current_task)
  /\ owner[m] \notin {None, current_task}
  /\ state' = [state EXCEPT ![current_task] = "BLOCKED"]
  /\ waiting_on' = [waiting_on EXCEPT ![current_task] = m]
  /\ waiting_on_type' = [waiting_on_type EXCEPT ![current_task] = "MUTEX"]
  /\ mutex_queue' = [mutex_queue EXCEPT
                       ![m] = OrderedPush(@, current_task, effective_priority)]
  /\ raise_task' = owner[m]
  /\ raise_prio' = effective_priority[current_task]
  /\ mode' = "raise"
  /\ UNCHANGED <<ready_queue, prioVars, semVars, owner, next_owned,
                 owned_mutexes, sleepVars, cpuVars, exit_mutex>>

\* Mutant of Outranked: equals are raised too.
OutrankedOrEqual(t, p) == effective_priority[t] >= p

\* Whether task_raise_priority(t, p) goes past its first test.
Outranked(t, p) == effective_priority[t] > p

\* One call of task_raise_priority that raises somebody; interrupts are off.
TaskRaisePriority ==
  LET t == raise_task
      eff == [effective_priority EXCEPT ![t] = raise_prio]
      w == waiting_on[t]
      chained == state[t] = "BLOCKED" /\ waiting_on_type[t] = "MUTEX"
  IN
  /\ mode = "raise" /\ t # None
  /\ Outranked(t, raise_prio)
  /\ effective_priority' = eff
  /\ ready_queue' = IF state[t] = "READY" THEN Reorder(ready_queue, t, eff)
                    ELSE ready_queue
  /\ mutex_queue' = IF chained
                    THEN [mutex_queue EXCEPT ![w] = Reorder(@, t, eff)]
                    ELSE mutex_queue
  /\ raise_task' = IF chained THEN owner[w] ELSE None
  /\ UNCHANGED <<state, mode, base_priority, waitVars, semVars, owner,
                 next_owned, owned_mutexes, sleepVars, cpuVars, raise_prio,
                 exit_mutex>>

\* Mutant of RaiseDone: the recursion may end anywhere.
RaiseCutShort ==
  /\ mode = "raise"
  /\ mode' = "svc"
  /\ raise_task' = None /\ raise_prio' = 0
  /\ UNCHANGED <<state, ready_queue, prioVars, waitVars, semVars, mutexVars,
                 sleepVars, cpuVars, exit_mutex>>

\* The call that returns at once, and the end of mutex_lock.
RaiseDone ==
  /\ mode = "raise"
  /\ raise_task # None => ~Outranked(raise_task, raise_prio)
  /\ mode' = "svc"
  /\ raise_task' = None /\ raise_prio' = 0
  /\ UNCHANGED <<state, ready_queue, prioVars, waitVars, semVars, mutexVars,
                 sleepVars, cpuVars, exit_mutex>>

\* Mutant of ReleaseMutex: does not look whether somebody waits.
ReleaseUnchecked(c, m) ==
  LET rem == OwnedRemove(owned_mutexes, next_owned, c, m) IN
  /\ owner' = [owner EXCEPT ![m] = None]
  /\ owned_mutexes' = rem[1] /\ next_owned' = rem[2]
  /\ effective_priority' = [effective_priority EXCEPT ![c] =
       Recalculated(c, rem[1], rem[2], mutex_queue, effective_priority)]
  /\ UNCHANGED <<state, ready_queue, waitVars, mutex_queue>>

\* mutex_unlock(m) by its owner c = current_task, nobody waiting.
ReleaseMutex(c, m) ==
  LET rem == OwnedRemove(owned_mutexes, next_owned, c, m) IN
  /\ mutex_queue[m] = <<>>
  /\ owner' = [owner EXCEPT ![m] = None]
  /\ owned_mutexes' = rem[1] /\ next_owned' = rem[2]
  /\ effective_priority' = [effective_priority EXCEPT ![c] =
       Recalculated(c, rem[1], rem[2], mutex_queue, effective_priority)]
  /\ UNCHANGED <<state, ready_queue, waitVars, mutex_queue>>

\* mutex_unlock(m) with waiters: the first one becomes the owner.  m joins
\* the list of the new owner before it leaves the list of the old one.
HandMutexOver(c, m) ==
  LET n == Head(mutex_queue[m])
      mq == [mutex_queue EXCEPT ![m] = Tail(@)]
      add == OwnedPush(owned_mutexes, next_owned, n, m)
      eff == [effective_priority EXCEPT ![n] =
                Recalculated(n, add[1], add[2], mq, effective_priority)]
      rem == OwnedRemove(add[1], add[2], c, m)
  IN
  /\ mutex_queue[m] # <<>>
  /\ owner' = [owner EXCEPT ![m] = n]
  /\ mutex_queue' = mq
  /\ state' = [state EXCEPT ![n] = "READY"]
  /\ waiting_on' = [waiting_on EXCEPT ![n] = None]
  /\ waiting_on_type' = [waiting_on_type EXCEPT ![n] = "NONE"]
  /\ ready_queue' = Reorder(ready_queue, n, eff)
  /\ owned_mutexes' = rem[1] /\ next_owned' = rem[2]
  /\ effective_priority' =
       [eff EXCEPT ![c] = Recalculated(c, rem[1], rem[2], mq, eff)]

MutexUnlock(m) ==
  /\ \/ ReleaseMutex(current_task, m)
     \/ HandMutexOver(current_task, m)
  /\ UNCHANGED <<base_priority, semVars, sleepVars, cpuVars, raise_task,
                 raise_prio>>

\* Mutant of SysMutexUnlock: never yields to the new owner.
MutexUnlockStays(m) ==
  /\ Calls("mutex_unlock")
  /\ owner[m] = current_task
  /\ MutexUnlock(m)
  /\ UNCHANGED <<mode, exit_mutex>>

\* Yields only to a new owner that outranks the caller.
SysMutexUnlock(m) ==
  /\ Calls("mutex_unlock")
  /\ owner[m] = current_task
  /\ MutexUnlock(m)
  /\ mode' = IF owner'[m] # None /\ effective_priority'[owner'[m]] <
                                    effective_priority'[current_task]
             THEN "svc" ELSE "thread"
  /\ UNCHANGED exit_mutex

\* Mutant of SysTaskExit: the loop over the owned mutexes is left out.
TaskExitKeeping ==
  /\ Calls("task_exit")
  /\ state' = [state EXCEPT ![current_task] = "FINISHED"]
  /\ mode' = "svc"
  /\ UNCHANGED <<ready_queue, prioVars, waitVars, semVars, mutexVars,
                 sleepVars, cpuVars, loopVars>>

\* SYS_TASK_EXIT up to the loop of mutex_unlock_all_owned.
SysTaskExit ==
  /\ Calls("task_exit")
  /\ state' = [state EXCEPT ![current_task] = "FINISHED"]
  /\ exit_mutex' = owned_mutexes[current_task]
  /\ mode' = "exit"
  /\ UNCHANGED <<ready_queue, prioVars, waitVars, semVars, mutexVars,
                 sleepVars, cpuVars, raise_task, raise_prio>>

\* One round of the loop: tmp->next_owned is read after the unlock.
ExitUnlock ==
  /\ mode = "exit" /\ exit_mutex # None
  /\ owner[exit_mutex] = current_task
  /\ MutexUnlock(exit_mutex)
  /\ exit_mutex' = next_owned'[exit_mutex]
  /\ UNCHANGED mode

\* A round on a mutex that another task owns (MUTEX_NOT_OWNER).
ExitSkip ==
  /\ mode = "exit" /\ exit_mutex # None
  /\ owner[exit_mutex] # current_task
  /\ exit_mutex' = next_owned[exit_mutex]
  /\ UNCHANGED <<state, ready_queue, mode, prioVars, waitVars, semVars,
                 mutexVars, sleepVars, cpuVars, raise_task, raise_prio>>

ExitDone ==
  /\ mode = "exit" /\ exit_mutex = None
  /\ mode' = "svc"
  /\ UNCHANGED <<state, ready_queue, prioVars, waitVars, semVars, mutexVars,
                 sleepVars, cpuVars, loopVars>>

\* sleep_for_ticks(n); with n = 0, SYS_SLEEP is SysYield.
SysSleep ==
  /\ Calls("sleep")
  /\ \E n \in 1..MaxSleep :
       /\ SleepOverWrap \/ system_ticks + n < TickMod
       /\ wake_tick' = [wake_tick EXCEPT
                          ![current_task] = (system_ticks + n) % TickMod]
       /\ state' = [state EXCEPT ![current_task] = "SLEEPING"]
       /\ sleep_list' = OrderedPush(sleep_list, current_task, wake_tick')
  /\ mode' = "svc"
  /\ UNCHANGED <<ready_queue, prioVars, waitVars, semVars, mutexVars,
                 cpuVars, loopVars>>

-----------------------------------------------------------------------------
(* Interrupts.                                                             *)

\* usart2_handler receives a byte: semaphore_post(rx_sem), no request for a
\* switch.  It preempts every handler, but not code under irq_save().
UsartReceive ==
  /\ RxInterrupts
  /\ mode # "raise" /\ ~in_tick
  /\ SemaphorePost(RxSem)
  /\ UNCHANGED mode

\* systick_handler preempts tasks and PendSV, not SVC.
SysTick ==
  /\ booted = Len(BootPrio)
  /\ mode \in {"thread", "entered", "selected"} /\ ~in_tick
  /\ system_ticks' = (system_ticks + 1) % TickMod
  /\ in_tick' = TRUE
  /\ UNCHANGED <<state, ready_queue, mode, prioVars, waitVars, semVars,
                 mutexVars, sleepVars, loopVars, current_task, next_task,
                 pendsv, booted>>

\* Mutant of Due: > 0.
DueLate(t) ==
  /\ system_ticks # wake_tick[t]
  /\ 2 * ((system_ticks + TickMod - wake_tick[t]) % TickMod) < TickMod

\* (int32_t)(system_ticks - wake_tick) >= 0
Due(t) == 2 * ((system_ticks + TickMod - wake_tick[t]) % TickMod) < TickMod

\* One round of sleep_tick's loop.
SleepTick ==
  /\ in_tick
  /\ sleep_list # <<>> /\ Due(Head(sleep_list))
  /\ LET t == Head(sleep_list) IN
     /\ state' = [state EXCEPT ![t] = "READY"]
     /\ ready_queue' = Reorder(ready_queue, t, effective_priority)
  /\ sleep_list' = Tail(sleep_list)
  /\ UNCHANGED <<mode, wake_tick, prioVars, waitVars, semVars, mutexVars,
                 cpuVars, loopVars>>

\* The loop ends; systick_handler asks for a switch and returns.
SysTickDone ==
  /\ in_tick
  /\ sleep_list # <<>> => ~Due(Head(sleep_list))
  /\ RequestContextSwitch
  /\ in_tick' = FALSE
  /\ UNCHANGED <<state, ready_queue, mode, prioVars, waitVars, semVars,
                 mutexVars, sleepVars, loopVars, current_task, next_task,
                 system_ticks, booted>>

\* pend_sv_handler is entered; the hardware clears PENDSVSET.
PendSvEnter ==
  /\ mode = "thread" /\ ~in_tick /\ pendsv
  /\ pendsv' = FALSE
  /\ mode' = "entered"
  /\ UNCHANGED <<state, ready_queue, prioVars, waitVars, semVars, mutexVars,
                 sleepVars, loopVars, current_task, next_task, system_ticks,
                 in_tick, booted>>

\* Mutant of PutCurrent: a blocked task is queued as ready.
PutBlocked(st) ==
  /\ current_task # None
  /\ st[current_task] \notin {"FINISHED", "SLEEPING"}

\* scheduler_put_task takes the old task back unless it has stopped.
PutCurrent(st) ==
  /\ current_task # None
  /\ st[current_task] \notin {"FINISHED", "BLOCKED", "SLEEPING"}

\* scheduler_select_next()
SchedulerSelectNext ==
  LET st == IF PutCurrent(state) THEN [state EXCEPT ![current_task] = "READY"]
            ELSE state
      rq == IF PutCurrent(state)
            THEN Reorder(ready_queue, current_task, effective_priority)
            ELSE ready_queue
  IN
  /\ mode = "entered" /\ ~in_tick
  /\ IF rq # <<>>
     THEN /\ next_task' = Head(rq)
          /\ ready_queue' = Tail(rq)
          /\ state' = [st EXCEPT ![Head(rq)] = "RUNNING"]
     ELSE /\ next_task' = current_task
          /\ UNCHANGED <<state, ready_queue>>
  /\ mode' = "selected"
  /\ UNCHANGED <<prioVars, waitVars, semVars, mutexVars, sleepVars, loopVars,
                 current_task, system_ticks, in_tick, pendsv, booted>>

\* restore_task: current_task = next_task, and the exception returns.
RestoreTask ==
  /\ mode = "selected" /\ ~in_tick
  /\ current_task' = next_task
  /\ mode' = "thread"
  /\ UNCHANGED <<state, ready_queue, prioVars, waitVars, semVars, mutexVars,
                 sleepVars, loopVars, next_task, system_ticks, in_tick,
                 pendsv, booted>>

-----------------------------------------------------------------------------
Next ==
  \/ BootTask
  \/ SvcTail
  \/ SysYield \/ SysTaskCreate \/ SysSemCreate
  \/ \E s \in Sems : \/ SysSemTake(s) \/ SysSemBlock(s)
                     \/ SysSemPost(s) \/ SysSemClose(s)
  \/ \E m \in Mutexes : SysMutexTake(m) \/ SysMutexBlock(m) \/ SysMutexUnlock(m)
  \/ TaskRaisePriority \/ RaiseDone
  \/ SysTaskExit \/ ExitUnlock \/ ExitSkip \/ ExitDone
  \/ SysSleep
  \/ UsartReceive
  \/ SysTick \/ SleepTick \/ SysTickDone
  \/ PendSvEnter \/ SchedulerSelectNext \/ RestoreTask

Spec == Init /\ [][Next]_vars
-----------------------------------------------------------------------------
(* Properties.                                                             *)

Modes == {"thread", "svc", "raise", "exit", "entered", "selected"}
States == {"UNUSED", "READY", "RUNNING", "BLOCKED", "SLEEPING", "FINISHED"}

\* Every field of every kernel object holds a value of its C type; a pointer
\* is null or points into the pool it belongs to.
TypeOK ==
  /\ state \in [Tasks -> States]
  /\ base_priority \in [Tasks -> Prios]
  /\ effective_priority \in [Tasks -> Prios]
  /\ waiting_on \in [Tasks -> Nat]
  /\ waiting_on_type \in [Tasks -> {"NONE", "SEM", "MUTEX"}]
  /\ \A t \in Tasks :
       /\ waiting_on_type[t] = "SEM" => waiting_on[t] \in Sems
       /\ waiting_on_type[t] = "MUTEX" => waiting_on[t] \in Mutexes
  /\ wake_tick \in [Tasks -> 0..(TickMod - 1)]
  /\ owned_mutexes \in [Tasks -> Mutexes \cup {None}]
  /\ ready_queue \in Seq(Tasks) /\ sleep_list \in Seq(Tasks)
  /\ current_task \in Tasks \cup {None} /\ next_task \in Tasks \cup {None}
  /\ system_ticks \in 0..(TickMod - 1)
  /\ sem_state \in [Sems -> {"UNUSED", "OPEN"}]
  /\ count \in [Sems -> 0..MaxCount]
  /\ sem_queue \in [Sems -> Seq(Tasks)]
  /\ owner \in [Mutexes -> Tasks \cup {None}]
  /\ mutex_queue \in [Mutexes -> Seq(Tasks)]
  /\ next_owned \in [Mutexes -> Mutexes \cup {None}]
  /\ mode \in Modes /\ in_tick \in BOOLEAN /\ pendsv \in BOOLEAN
  /\ booted \in 0..Len(BootPrio)
  /\ raise_task \in Tasks \cup {None} /\ raise_prio \in Prios
  /\ exit_mutex \in Mutexes \cup {None}

In(t, q) == \E i \in 1..Len(q) : q[i] = t

WaitsFor(t, type, x) ==
  state[t] = "BLOCKED" /\ waiting_on_type[t] = type /\ waiting_on[t] = x

\* A TCB has a single next link.  Whatever the interleaving of system calls,
\* ticks, received bytes and context switches, a task is on the list its
\* state names, on no other one, and only once: the ready queue holds the
\* READY tasks, the sleep list the SLEEPING ones, and the wait queue of an
\* object the tasks BLOCKED on it.
EveryTaskOnItsList ==
  /\ \A t \in Tasks :
       /\ In(t, ready_queue) <=> state[t] = "READY"
       /\ In(t, sleep_list) <=> state[t] = "SLEEPING"
       /\ \A s \in Sems : In(t, sem_queue[s]) <=> WaitsFor(t, "SEM", s)
       /\ \A m \in Mutexes : In(t, mutex_queue[m]) <=> WaitsFor(t, "MUTEX", m)
  /\ IsInjective(ready_queue) /\ IsInjective(sleep_list)
  /\ \A s \in Sems : IsInjective(sem_queue[s])
  /\ \A m \in Mutexes : IsInjective(mutex_queue[m])

\* A blocked task waits for an object that can still wake it: semaphore_close
\* wakes every task it takes off the wait queue.
BlockedTasksCanBeWoken ==
  \A t \in Tasks : state[t] = "BLOCKED" => waiting_on_type[t] # "NONE"

\* The processor executes a task's code.
Executing == mode = "thread" /\ ~in_tick /\ ~pendsv /\ current_task # None

\* A task that has blocked, gone to sleep or exited does not execute another
\* instruction, although request_context_switch returns without a switch when
\* the ready queue is empty; and no second task is marked RUNNING.
OnlyRunningTaskExecutes ==
  Executing => \A t \in Tasks : state[t] = "RUNNING" <=> t = current_task

Sorted(q, key) ==
  \A i, j \in 1..Len(q) : i < j => key[q[i]] <= key[q[j]]

\* The ready queue and the wait queues of the mutexes stay in the order of
\* the effective priorities, which change while tasks are queued.
QueuesSorted ==
  /\ Sorted(ready_queue, effective_priority)
  /\ \A m \in Mutexes : Sorted(mutex_queue[m], effective_priority)

\* Once a system call or a tick is over, no ready task is more urgent than
\* the task that executes.
MostUrgentTaskExecutes ==
  Executing => \A t \in Tasks :
    state[t] = "READY" =>
      effective_priority[t] >= effective_priority[current_task]

\* No unit is lost: a semaphore with a unit left has no waiter.
NoUnitBesideWaiter ==
  \A s \in Sems : count[s] > 0 => sem_queue[s] = <<>>

\* What the owner and the waiters of a mutex say of each other: a mutex
\* somebody waits for has an owner, and the owner is not one of the waiters.
WaitersHaveAnOwner ==
  \A m \in Mutexes : mutex_queue[m] # <<>> =>
    owner[m] # None /\ ~In(owner[m], mutex_queue[m])

\* The tasks waiting on mutexes that t holds.
Waiters(t) ==
  {w \in Tasks : \E m \in Mutexes : owner[m] = t /\ In(w, mutex_queue[m])}

\* Outside task_raise_priority, the effective priority of a task is exactly
\* the most urgent of its own and those of the tasks that wait on mutexes it
\* holds, directly or through other owners.
PriorityInheritanceExact ==
  mode # "raise" => \A t \in Tasks :
    LET claims == {base_priority[t]} \cup
                  {effective_priority[w] : w \in Waiters(t)}
    IN /\ effective_priority[t] \in claims
       /\ \A p \in claims : effective_priority[t] <= p

\* SYS_TASK_EXIT releases what the task owned, so that its slot can be reused
\* and nobody waits for a task that is gone.
FinishedTasksOwnNothing ==
  \A m \in Mutexes : owner[m] # None /\ state[owner[m]] = "FINISHED" =>
                       mode = "exit" /\ owner[m] = current_task

\* sleep_tick wakes a task at the tick it asked for, neither early nor late.
WokenOnTime ==
  [][\A t \in Tasks : state[t] = "SLEEPING" /\ state'[t] # "SLEEPING" =>
                        system_ticks = wake_tick[t]]_vars

-----------------------------------------------------------------------------
(* Fairness.  A handler that has started finishes.  The timer keeps firing *)
(* and its period (84000 cycles) is longer than PendSV, so a pending       *)
(* PendSV is delayed by ticks but not forever: strong fairness.  Nothing   *)
(* is assumed of the tasks or of the console.                              *)

FairSpec ==
  /\ Spec
  /\ WF_vars(BootTask) /\ WF_vars(SvcTail)
  /\ WF_vars(TaskRaisePriority \/ RaiseDone)
  /\ WF_vars(ExitUnlock \/ ExitSkip \/ ExitDone)
  /\ SF_vars(SysTick) /\ WF_vars(SleepTick \/ SysTickDone)
  /\ SF_vars(PendSvEnter) /\ SF_vars(SchedulerSelectNext) /\ SF_vars(RestoreTask)

\* No ready task of the most urgent priority is passed over for ever, however
\* many tasks share that priority and whatever they do: the ready queue serves
\* equals in turn, and every tick moves on.
Starved(t) ==
  /\ state[t] = "READY"
  /\ \A u \in Tasks : state[u] \in {"READY", "RUNNING"} =>
                          effective_priority[t] <= effective_priority[u]
EqualsTakeTurns == \A t \in Tasks : []<>~Starved(t)

\* A system call that has started returns, and so does every handler: the
\* priority of an owner is raised along a finite chain, also when tasks wait
\* for each other in a cycle (task_raise_priority).
HandlersReturn == []<>(mode = "thread")
=============================================================================
