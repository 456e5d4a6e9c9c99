------------------------ MODULE KernelPriorityProofs ------------------------
(***************************************************************************)
(* Theorems about Kernel's priorities and about time: the order of the     *)
(* queues, priority inheritance, who executes, and when a sleeper wakes.   *)
(* What a theorem asks of the programs is its hypothesis.                  *)
(***************************************************************************)
EXTENDS KernelProofs

USE DEF prioVars, waitVars, semVars, mutexVars, sleepVars, cpuVars, loopVars

-----------------------------------------------------------------------------
(* The order of the queues, whatever the programs do.                      *)

\* What the proofs below need of the queues and of the types.
LEMMA QueueFacts ==
  ASSUME IInv
  PROVE  /\ ready_queue \in Seq(Tasks) /\ IsInjective(ready_queue)
         /\ mutex_queue \in [Mutexes -> Seq(Tasks)]
         /\ \A m \in Mutexes : IsInjective(mutex_queue[m])
         /\ \A t \in Tasks : In(t, ready_queue) <=> state[t] = "READY"
         /\ \A t \in Tasks, m \in Mutexes :
              In(t, mutex_queue[m]) <=> WaitsFor(t, "MUTEX", m)
         /\ effective_priority \in [Tasks -> Nat]
         /\ effective_priority \in [Tasks -> Prios]
  BY Constants DEF IInv, TypeOK, EveryTaskOnItsList

\* A step that changes neither a priority nor a mutex queue, and takes the
\* ready queue for a sorted one.
LEMMA SameOrder ==
  ASSUME QueuesSorted, UNCHANGED <<effective_priority, mutex_queue>>,
         Sorted(ready_queue', effective_priority)
  PROVE  QueuesSorted'
  BY DEF QueuesSorted

\* create_task.
LEMMA CreateSorted ==
  ASSUME IInv, QueuesSorted, NEW p \in Prios, CreateTask(p)
  PROVE  QueuesSorted'
<1> DEFINE t == CHOOSE t \in FreeSlots : \A u \in FreeSlots : t <= u
<1>1. t \in Tasks /\ state[t] \in {"UNUSED", "FINISHED"}
  BY LeastFreeSlot DEF CreateTask
<1>2. /\ effective_priority' = [effective_priority EXCEPT ![t] = p]
      /\ ready_queue' = OrderedPush(ready_queue, t, effective_priority')
      /\ mutex_queue' = mutex_queue
  BY Zenon DEF CreateTask
<1> HIDE DEF t
<1>3. effective_priority' \in [Tasks -> Nat]
      /\ \A u \in Tasks : u # t => effective_priority'[u] = effective_priority[u]
  BY <1>1, <1>2, QueueFacts, Constants
<1>4. ~In(t, ready_queue) /\ \A m \in Mutexes : ~In(t, mutex_queue[m])
  BY <1>1, QueueFacts DEF WaitsFor
<1>5. Sorted(ready_queue, effective_priority')
  BY <1>3, <1>4, QueueFacts, SortedKeys DEF QueuesSorted
<1>6. Sorted(ready_queue', effective_priority')
  BY <1>1, <1>2, <1>3, <1>5, QueueFacts, PushSorted
<1>7. ASSUME NEW m \in Mutexes
      PROVE  Sorted(mutex_queue[m], effective_priority')
  <2>1. mutex_queue[m] \in Seq(Tasks) /\ Sorted(mutex_queue[m], effective_priority)
    BY QueueFacts DEF QueuesSorted
  <2> QED
    BY <1>3, <1>4, <2>1, SortedKeys
<1> QED
  BY <1>2, <1>6, <1>7 DEF QueuesSorted

\* task_raise_priority moves the task within the one queue that it is on.
LEMMA RaiseSorted ==
  ASSUME IInv, QueuesSorted, TaskRaisePriority
  PROVE  QueuesSorted'
<1> DEFINE t == raise_task
           eff == [effective_priority EXCEPT ![t] = raise_prio]
           w == waiting_on[t]
           chained == state[t] = "BLOCKED" /\ waiting_on_type[t] = "MUTEX"
<1>1. /\ t \in Tasks /\ raise_prio \in Prios
      /\ effective_priority' = eff
      /\ ready_queue' = IF state[t] = "READY" THEN Reorder(ready_queue, t, eff)
                        ELSE ready_queue
      /\ mutex_queue' = IF chained
                        THEN [mutex_queue EXCEPT ![w] = Reorder(mutex_queue[w], t, eff)]
                        ELSE mutex_queue
  BY DEF TaskRaisePriority, IInv, TypeOK
<1>2. eff \in [Tasks -> Nat] /\ \A u \in Tasks : u # t => eff[u] = effective_priority[u]
  BY <1>1, QueueFacts, Constants
<1>3. chained => w \in Mutexes
  BY <1>1 DEF IInv, TypeOK
<1> HIDE DEF eff
<1>4. Sorted(ready_queue', eff)
  <2>1. CASE state[t] = "READY"
    <3>1. /\ ready_queue \in Seq(Tasks) /\ IsInjective(ready_queue)
          /\ Sorted(ready_queue, effective_priority)
      BY QueueFacts DEF QueuesSorted
    <3>2. /\ t \in Tasks /\ eff \in [Tasks -> Nat]
          /\ \A u \in Tasks : u # t => eff[u] = effective_priority[u]
          /\ ready_queue' = Reorder(ready_queue, t, eff)
      BY <1>1, <1>2, <2>1
    <3> HIDE DEF t
    <3>3. Sorted(Reorder(ready_queue, t, eff), eff)
      BY <3>1, <3>2, ReorderSorted
    <3> QED
      BY <3>2, <3>3
  <2>2. CASE state[t] # "READY"
    <3>1. ~In(t, ready_queue)
      BY <1>1, <2>2, QueueFacts
    <3>2. Sorted(ready_queue, eff)
      BY <1>2, <3>1, QueueFacts, SortedKeys DEF QueuesSorted
    <3> QED
      BY <1>1, <2>2, <3>2
  <2> QED
    BY <2>1, <2>2
<1>5. ASSUME NEW m \in Mutexes
      PROVE  Sorted(mutex_queue'[m], eff)
  <2>1. /\ mutex_queue[m] \in Seq(Tasks) /\ IsInjective(mutex_queue[m])
        /\ Sorted(mutex_queue[m], effective_priority)
    BY QueueFacts DEF QueuesSorted
  <2>2. CASE chained /\ m = w
    <3>1. mutex_queue'[m] = Reorder(mutex_queue[m], t, eff)
      BY <1>1, <2>2, QueueFacts
    <3>2. /\ t \in Tasks /\ eff \in [Tasks -> Nat]
          /\ \A u \in Tasks : u # t => eff[u] = effective_priority[u]
      BY <1>1, <1>2
    <3> HIDE DEF t
    <3>3. Sorted(Reorder(mutex_queue[m], t, eff), eff)
      BY <2>1, <3>2, ReorderSorted
    <3> QED
      BY <3>1, <3>3
  <2>3. CASE ~(chained /\ m = w)
    <3>1. mutex_queue'[m] = mutex_queue[m]
      BY <1>1, <1>3, <2>3, QueueFacts
    <3>2. ~In(t, mutex_queue[m])
      BY <1>1, <2>3, QueueFacts DEF WaitsFor
    <3> QED
      BY <1>2, <2>1, <3>1, <3>2, SortedKeys
  <2> QED
    BY <2>2, <2>3
<1> QED
  BY <1>1, <1>4, <1>5 DEF QueuesSorted

\* mutex_unlock: the tasks whose priorities are recalculated are on no queue
\* while they change, and the new owner is queued with its new priority.
LEMMA UnlockSorted ==
  ASSUME IInv, QueuesSorted, current_task \in Tasks,
         state[current_task] \in {"RUNNING", "FINISHED"},
         NEW m \in Mutexes, MutexUnlock(m)
  PROVE  QueuesSorted'
<1> DEFINE c == current_task
<1>1. effective_priority' \in [Tasks -> Prios]
  BY UnlockFacts
<1>2. ~In(c, ready_queue) /\ \A k \in Mutexes : ~In(c, mutex_queue[k])
  BY QueueFacts DEF WaitsFor
<1>3. CASE ReleaseMutex(c, m)
  <2> DEFINE rem == OwnedRemove(owned_mutexes, next_owned, c, m)
             e == Recalculated(c, rem[1], rem[2], mutex_queue, effective_priority)
  <2>1. /\ effective_priority' = [effective_priority EXCEPT ![c] = e]
        /\ UNCHANGED <<ready_queue, mutex_queue>>
    BY <1>3, Zenon DEF ReleaseMutex
  <2> HIDE DEF e
  <2>2. \A u \in Tasks : u # c => effective_priority'[u] = effective_priority[u]
    BY <2>1, QueueFacts
  <2>3. Sorted(ready_queue, effective_priority')
    <3>1. /\ ready_queue \in Seq(Tasks) /\ Sorted(ready_queue, effective_priority)
          /\ \A u \in Tasks : In(u, ready_queue) =>
                                effective_priority'[u] = effective_priority[u]
      BY <1>2, <2>2, QueueFacts DEF QueuesSorted
    <3> QED
      BY <3>1, SortedKeys
  <2>4. ASSUME NEW k \in Mutexes
        PROVE  Sorted(mutex_queue[k], effective_priority')
    <3>1. mutex_queue[k] \in Seq(Tasks) /\ Sorted(mutex_queue[k], effective_priority)
      BY QueueFacts DEF QueuesSorted
    <3> QED
      BY <1>2, <2>2, <3>1, SortedKeys
  <2> QED
    BY <2>1, <2>3, <2>4 DEF QueuesSorted
<1>4. CASE HandMutexOver(c, m)
  <2> DEFINE n == Head(mutex_queue[m])
             mq == [mutex_queue EXCEPT ![m] = Tail(@)]
             add == OwnedPush(owned_mutexes, next_owned, n, m)
             e == Recalculated(n, add[1], add[2], mq, effective_priority)
             eff == [effective_priority EXCEPT ![n] = e]
             rem == OwnedRemove(add[1], add[2], c, m)
             f == Recalculated(c, rem[1], rem[2], mq, eff)
  <2>1. /\ mutex_queue[m] # <<>>
        /\ mutex_queue' = mq
        /\ ready_queue' = Reorder(ready_queue, n, eff)
        /\ effective_priority' = [eff EXCEPT ![c] = f]
    BY <1>4, Zenon DEF HandMutexOver
  <2>2. /\ mutex_queue[m] \in Seq(Tasks) /\ IsInjective(mutex_queue[m])
        /\ Sorted(mutex_queue[m], effective_priority)
    BY QueueFacts DEF QueuesSorted
  <2>3. /\ n \in Tasks /\ In(n, mutex_queue[m])
        /\ Tail(mutex_queue[m]) \in Seq(Tasks)
        /\ \A u : In(u, Tail(mutex_queue[m])) <=> In(u, mutex_queue[m]) /\ u # n
    BY <2>1, <2>2, TailProperties
  <2>4. Sorted(Tail(mutex_queue[m]), effective_priority)
    BY <2>1, <2>2, QueueFacts, TailSorted
  <2>5. /\ mutex_queue'[m] = Tail(mutex_queue[m])
        /\ \A k \in Mutexes : k # m => mutex_queue'[k] = mutex_queue[k]
    BY <2>1, QueueFacts
  <2>6. WaitsFor(n, "MUTEX", m) /\ n # c
    BY <2>3, QueueFacts DEF WaitsFor
  <2> HIDE DEF n, e, f
  <2>7. /\ effective_priority'[n] = eff[n] /\ eff \in [Tasks -> Nat]
        /\ \A u \in Tasks : u # n => eff[u] = effective_priority[u]
        /\ \A u \in Tasks : u # c => effective_priority'[u] = eff[u]
    <3>1. \A u \in Tasks : u # n => eff[u] = effective_priority[u]
      BY <2>3, QueueFacts
    <3>2. \A u \in Tasks : u # c => effective_priority'[u] = eff[u]
      BY <2>1, QueueFacts
    <3>3. effective_priority'[n] = eff[n] /\ effective_priority'[n] \in Nat
      BY <1>1, <2>3, <2>6, <3>2, Constants
    <3>4. \A u \in Tasks : eff[u] \in Nat
      BY <3>1, <3>3, QueueFacts
    <3>5. eff \in [Tasks -> Nat]
      BY <3>4, QueueFacts
    <3> QED
      BY <3>1, <3>2, <3>3, <3>5
  <2> HIDE DEF eff
  <2>8. /\ ready_queue' \in Seq(Tasks)
        /\ \A u : In(u, ready_queue') <=> In(u, ready_queue) \/ u = n
    BY <2>1, <2>3, QueueFacts, ReorderProperties
  <2>9. Sorted(ready_queue', eff)
    <3>1. /\ ready_queue \in Seq(Tasks) /\ IsInjective(ready_queue)
          /\ Sorted(ready_queue, effective_priority)
          /\ n \in Tasks /\ eff \in [Tasks -> Nat]
          /\ \A u \in Tasks : u # n => eff[u] = effective_priority[u]
      BY <2>3, <2>7, QueueFacts DEF QueuesSorted
    <3>2. Sorted(Reorder(ready_queue, n, eff), eff)
      BY <3>1, ReorderSorted
    <3> QED
      BY <2>1, <3>2
  <2>10. Sorted(ready_queue', effective_priority')
    <3>1. \A u \in Tasks : In(u, ready_queue') => effective_priority'[u] = eff[u]
      BY <1>2, <2>6, <2>7, <2>8
    <3> QED
      BY <2>8, <2>9, <3>1, SortedKeys
  <2>11. ASSUME NEW k \in Mutexes
         PROVE  Sorted(mutex_queue'[k], effective_priority')
    <3>1. mutex_queue'[k] \in Seq(Tasks) /\ Sorted(mutex_queue'[k], effective_priority)
      BY <2>3, <2>4, <2>5, QueueFacts DEF QueuesSorted
    <3>2. ~In(n, mutex_queue'[k]) /\ ~In(c, mutex_queue'[k])
      <4>1. CASE k = m
        BY <1>2, <2>3, <2>5, <4>1
      <4>2. CASE k # m
        <5>1. ~WaitsFor(n, "MUTEX", k)
          BY <2>6, <4>2 DEF WaitsFor
        <5> QED
          BY <1>2, <2>3, <2>5, <4>2, <5>1, QueueFacts
      <4> QED
        BY <4>1, <4>2
    <3>3. \A u \in Tasks : In(u, mutex_queue'[k]) =>
                             effective_priority'[u] = effective_priority[u]
      BY <2>7, <3>2
    <3> QED
      BY <3>1, <3>3, SortedKeys
  <2> QED
    BY <2>10, <2>11 DEF QueuesSorted
<1> QED
  BY <1>3, <1>4 DEF MutexUnlock

\* semaphore_post and sleep_tick wake a task at its place.
LEMMA WakeSorted ==
  ASSUME IInv, QueuesSorted, NEW t \in Tasks,
         ready_queue' = Reorder(ready_queue, t, effective_priority),
         UNCHANGED <<effective_priority, mutex_queue>>
  PROVE  QueuesSorted'
<1>1. Sorted(ready_queue', effective_priority)
  BY QueueFacts, ReorderSorted DEF QueuesSorted
<1> QED
  BY <1>1, SameOrder

\* The current task of a system call, and of the loop of SYS_TASK_EXIT.
LEMMA CallerFacts ==
  ASSUME IInv
  PROVE  /\ \A name : Calls(name) => /\ current_task \in Tasks
                                     /\ state[current_task] = "RUNNING"
         /\ mode = "exit" => /\ current_task \in Tasks
                             /\ state[current_task] = "FINISHED"
  BY DEF IInv, RunningPhase, TypeOK, Calls

\* Every step.
LEMMA SortedStep ==
  ASSUME IInv, QueuesSorted, [Next]_vars
  PROVE  QueuesSorted'
<1>1. ASSUME UNCHANGED <<effective_priority, mutex_queue, ready_queue>>
      PROVE  QueuesSorted'
  BY <1>1, SameOrder DEF QueuesSorted
<1>2. CASE BootTask
  <2>1. BootPrio[booted + 1] \in Prios
    BY <1>2, BootType DEF BootTask, IInv, TypeOK
  <2> QED
    BY <1>2, <2>1, CreateSorted DEF BootTask
<1>3. CASE SysTaskCreate
  BY <1>3, CreateSorted, UseAssumption DEF SysTaskCreate
<1>4. ASSUME NEW s \in Sems, SemaphorePost(s)
      PROVE  QueuesSorted'
  <2>1. CASE sem_queue[s] = <<>>
    BY <1>1, <1>4, <2>1 DEF SemaphorePost
  <2>2. CASE sem_queue[s] # <<>>
    <3>1. Head(sem_queue[s]) \in Tasks
      BY <2>2 DEF IInv, TypeOK
    <3> QED
      BY <1>4, <2>2, <3>1, WakeSorted DEF SemaphorePost
  <2> QED
    BY <2>1, <2>2
<1>5. ASSUME NEW s \in Sems,
             SysSemTake(s) \/ SysSemBlock(s) \/ SysSemPost(s) \/ SysSemClose(s)
      PROVE  QueuesSorted'
  BY <1>1, <1>4, <1>5 DEF SysSemTake, SysSemBlock, SysSemPost, SysSemClose
<1>6. CASE UsartReceive
  BY <1>4, <1>6, Constants DEF UsartReceive
<1>7. ASSUME NEW m \in Mutexes, SysMutexBlock(m)
      PROVE  QueuesSorted'
  <2>1. /\ mutex_queue' = [mutex_queue EXCEPT
              ![m] = OrderedPush(mutex_queue[m], current_task, effective_priority)]
        /\ UNCHANGED <<ready_queue, effective_priority>> /\ current_task \in Tasks
    BY <1>7, CallerFacts DEF SysMutexBlock
  <2>2. mutex_queue[m] \in Seq(Tasks) /\ Sorted(mutex_queue[m], effective_priority)
    BY QueueFacts DEF QueuesSorted
  <2>3. Sorted(OrderedPush(mutex_queue[m], current_task, effective_priority),
               effective_priority)
    BY <2>1, <2>2, QueueFacts, PushSorted
  <2>4. ASSUME NEW k \in Mutexes
        PROVE  Sorted(mutex_queue'[k], effective_priority)
    BY <2>1, <2>3, QueueFacts DEF QueuesSorted
  <2> QED
    BY <2>1, <2>4 DEF QueuesSorted
<1>8. ASSUME NEW m \in Mutexes, SysMutexTake(m) \/ SysMutexUnlock(m)
      PROVE  QueuesSorted'
  <2>1. CASE SysMutexTake(m)
    BY <1>1, <2>1 DEF SysMutexTake
  <2>2. CASE SysMutexUnlock(m)
    BY <2>2, CallerFacts, UnlockSorted DEF SysMutexUnlock
  <2> QED
    BY <1>8, <2>1, <2>2
<1>9. CASE TaskRaisePriority
  BY <1>9, RaiseSorted
<1>10. CASE ExitUnlock
  <2>1. exit_mutex \in Mutexes /\ MutexUnlock(exit_mutex) /\ mode = "exit"
    BY <1>10 DEF ExitUnlock, IInv, TypeOK
  <2> QED
    BY <2>1, CallerFacts, UnlockSorted
<1>11. CASE RaiseDone \/ SysTaskExit \/ ExitSkip \/ ExitDone \/ SvcTail
            \/ SysYield \/ SysSemCreate \/ SysSleep
  BY <1>1, <1>11 DEF RaiseDone, SysTaskExit, ExitSkip, ExitDone, SvcTail,
                     SysYield, SysSemCreate, SysSleep
<1>12. CASE SleepTick
  <2>1. Head(sleep_list) \in Tasks
    BY <1>12 DEF SleepTick, IInv, TypeOK
  <2> QED
    BY <1>12, <2>1, WakeSorted DEF SleepTick
<1>13. CASE SysTick \/ SysTickDone \/ PendSvEnter \/ RestoreTask \/ UNCHANGED vars
  BY <1>1, <1>13 DEF SysTick, SysTickDone, PendSvEnter, RestoreTask, vars
<1>14. CASE SchedulerSelectNext
  <2> DEFINE rq == IF PutCurrent(state)
                   THEN Reorder(ready_queue, current_task, effective_priority)
                   ELSE ready_queue
  <2>1. PutCurrent(state) => current_task \in Tasks
    BY DEF PutCurrent, IInv, TypeOK
  <2>2. rq \in Seq(Tasks) /\ Sorted(rq, effective_priority)
    BY <2>1, QueueFacts, ReorderProperties, ReorderSorted DEF QueuesSorted
  <2>3. /\ UNCHANGED <<effective_priority, mutex_queue>>
        /\ IF rq # <<>> THEN ready_queue' = Tail(rq) ELSE ready_queue' = ready_queue
    BY <1>14 DEF SchedulerSelectNext
  <2> HIDE DEF rq
  <2>4. Sorted(ready_queue', effective_priority)
    BY <2>2, <2>3, QueueFacts, TailSorted DEF QueuesSorted
  <2> QED
    BY <2>3, <2>4, SameOrder
<1> QED
  BY <1>2, <1>3, <1>5, <1>6, <1>7, <1>8, <1>9, <1>10, <1>11, <1>12, <1>13,
     <1>14 DEF Next

\* The ready queue and the wait queues of the mutexes stay in the order of the
\* effective priorities while task_raise_priority and mutex_unlock change
\* them; also with nested locks, whatever the programs call.
THEOREM QueuesInOrder == Spec => []QueuesSorted
<1>1. Init => QueuesSorted
  BY DEF Init, QueuesSorted, Sorted
<1>2. IInv /\ QueuesSorted /\ [Next]_vars => QueuesSorted'
  BY SortedStep
<1> QED
  BY <1>1, <1>2, Invariance, PTL DEF Spec

-----------------------------------------------------------------------------
(* Steps that leave the mutexes and the priorities alone.                  *)

\* What such a step may do: it stops or wakes tasks that wait for no mutex.
Quiet ==
  /\ UNCHANGED <<owner, owned_mutexes, next_owned, mutex_queue,
                 base_priority, effective_priority, raise_task, raise_prio,
                 exit_mutex>>
  /\ mode' = "raise" <=> mode = "raise"
  /\ mode' = "exit" <=> mode = "exit"
  /\ mode = "exit" => current_task' = current_task
  /\ \A t \in Tasks : state'[t] \in {"UNUSED", "FINISHED"} => state'[t] = state[t]
  /\ \A t \in Tasks, m \in Mutexes :
       WaitsFor(t, "MUTEX", m)' <=> WaitsFor(t, "MUTEX", m)

\* The steps that are not quiet.
Loud ==
  \/ BootTask \/ SysTaskCreate
  \/ \E m \in Mutexes : SysMutexTake(m) \/ SysMutexBlock(m) \/ SysMutexUnlock(m)
  \/ TaskRaisePriority \/ RaiseDone
  \/ SysTaskExit \/ ExitUnlock \/ ExitSkip \/ ExitDone

\* Every other step is.
LEMMA QuietStep ==
  ASSUME IInv, [Next]_vars
  PROVE  Quiet \/ Loud
<1> DEFINE Frame == UNCHANGED <<owner, owned_mutexes, next_owned, mutex_queue,
                                base_priority, effective_priority, raise_task,
                                raise_prio, exit_mutex>>
           Loops == /\ mode' = "raise" <=> mode = "raise"
                    /\ mode' = "exit" <=> mode = "exit"
                    /\ mode = "exit" => current_task' = current_task
<1>t. /\ state \in [Tasks -> States]
      /\ waiting_on \in [Tasks -> Nat]
      /\ waiting_on_type \in [Tasks -> {"NONE", "SEM", "MUTEX"}]
  BY DEF IInv, TypeOK
<1>1. ASSUME Frame, Loops, UNCHANGED <<state, waitVars>>
      PROVE  Quiet
  BY <1>1 DEF Quiet, WaitsFor
<1>2. ASSUME Frame, Loops, NEW t \in Tasks,
             \A m \in Mutexes : ~WaitsFor(t, "MUTEX", m),
             \A m \in Mutexes : ~WaitsFor(t, "MUTEX", m)',
             state'[t] \notin {"UNUSED", "FINISHED"},
             \A u \in Tasks \ {t} : /\ state'[u] = state[u]
                                    /\ waiting_on'[u] = waiting_on[u]
                                    /\ waiting_on_type'[u] = waiting_on_type[u]
      PROVE  Quiet
  <2>1. \A u \in Tasks, m \in Mutexes :
          WaitsFor(u, "MUTEX", m)' <=> WaitsFor(u, "MUTEX", m)
    BY <1>2 DEF WaitsFor
  <2>2. \A u \in Tasks : state'[u] \in {"UNUSED", "FINISHED"} => state'[u] = state[u]
    BY <1>2
  <2> QED
    BY <1>2, <2>1, <2>2 DEF Quiet
<1>3. ASSUME NEW s \in Sems, SemaphorePost(s), Loops
      PROVE  Quiet
  <2>0. Frame
    BY <1>3 DEF SemaphorePost
  <2>1. CASE UNCHANGED <<state, waiting_on, waiting_on_type>>
    BY <1>1, <1>3, <2>0, <2>1
  <2>2. ASSUME NEW t \in Tasks, WaitsFor(t, "SEM", s),
               state' = [state EXCEPT ![t] = "READY"],
               waiting_on' = [waiting_on EXCEPT ![t] = None],
               waiting_on_type' = [waiting_on_type EXCEPT ![t] = "NONE"]
        PROVE  Quiet
    <3>1. /\ \A m \in Mutexes : ~WaitsFor(t, "MUTEX", m)
          /\ \A m \in Mutexes : ~WaitsFor(t, "MUTEX", m)'
      BY <1>t, <2>2 DEF WaitsFor
    <3>2. /\ state'[t] \notin {"UNUSED", "FINISHED"}
          /\ \A u \in Tasks \ {t} : /\ state'[u] = state[u]
                                    /\ waiting_on'[u] = waiting_on[u]
                                    /\ waiting_on_type'[u] = waiting_on_type[u]
      BY <1>t, <2>2
    <3> QED
      BY <1>2, <1>3, <2>0, <3>1, <3>2
  <2> QED
    BY <1>3, <2>1, <2>2, PostFacts
<1>4. ASSUME NEW s \in Sems, SysSemTake(s) \/ SysSemPost(s)
      PROVE  Quiet
  BY <1>1, <1>3, <1>4 DEF SysSemTake, SysSemPost, Calls
<1>5. CASE UsartReceive
  <2>1. SemaphorePost(RxSem) /\ mode' = mode
    BY <1>5 DEF UsartReceive
  <2>2. current_task' = current_task
    BY <2>1 DEF SemaphorePost
  <2> QED
    BY <1>3, <2>1, <2>2, Constants
<1>6. ASSUME NEW s \in Sems, SysSemBlock(s)
      PROVE  Quiet
  <2>1. PICK c \in Tasks : c = current_task /\ state[c] = "RUNNING"
    BY <1>6, CallerFacts DEF SysSemBlock
  <2>2. Frame /\ Loops
    BY <1>6 DEF SysSemBlock, Calls
  <2>3. /\ state' = [state EXCEPT ![c] = "BLOCKED"]
        /\ waiting_on' = [waiting_on EXCEPT ![c] = s]
        /\ waiting_on_type' = [waiting_on_type EXCEPT ![c] = "SEM"]
    BY <1>6, <2>1 DEF SysSemBlock
  <2>4. /\ \A m \in Mutexes : ~WaitsFor(c, "MUTEX", m)
        /\ \A m \in Mutexes : ~WaitsFor(c, "MUTEX", m)'
    BY <1>t, <2>1, <2>3 DEF WaitsFor
  <2>5. /\ state'[c] \notin {"UNUSED", "FINISHED"}
        /\ \A u \in Tasks \ {c} :
             /\ state'[u] = state[u] /\ waiting_on'[u] = waiting_on[u]
             /\ waiting_on_type'[u] = waiting_on_type[u]
    BY <1>t, <2>1, <2>3
  <2> QED
    BY <1>2, <2>1, <2>2, <2>4, <2>5
<1>7. ASSUME NEW s \in Sems, SysSemClose(s)
      PROVE  Quiet
  <2>1. Frame /\ Loops /\ state' = state
    BY <1>7 DEF SysSemClose, Calls
  <2>2. \A t \in Tasks : In(t, sem_queue[s]) => WaitsFor(t, "SEM", s)
    BY DEF IInv, EveryTaskOnItsList
  <2>3. \A t \in Tasks :
          \/ waiting_on'[t] = waiting_on[t] /\
             waiting_on_type'[t] = waiting_on_type[t]
          \/ WaitsFor(t, "SEM", s) /\ waiting_on_type'[t] = "NONE"
    BY <1>7, <2>2 DEF SysSemClose, In
  <2>4. \A t \in Tasks, m \in Mutexes :
          WaitsFor(t, "MUTEX", m)' <=> WaitsFor(t, "MUTEX", m)
    BY <2>1, <2>3 DEF WaitsFor
  <2> QED
    BY <2>1, <2>4 DEF Quiet
<1>8. CASE SysSleep
  <2>1. PICK c \in Tasks : c = current_task /\ state[c] = "RUNNING"
    BY <1>8, CallerFacts DEF SysSleep
  <2>2. /\ Frame /\ Loops /\ UNCHANGED waitVars
        /\ state' = [state EXCEPT ![c] = "SLEEPING"]
    BY <1>8, <2>1 DEF SysSleep, Calls
  <2>3. /\ \A m \in Mutexes : ~WaitsFor(c, "MUTEX", m)
        /\ \A m \in Mutexes : ~WaitsFor(c, "MUTEX", m)'
    BY <1>t, <2>1, <2>2 DEF WaitsFor
  <2> QED
    BY <1>2, <1>t, <2>1, <2>2, <2>3
<1>9. CASE SleepTick
  <2>1. PICK t \in Tasks : t = Head(sleep_list) /\ state[t] = "SLEEPING"
    <3>1. sleep_list \in Seq(Tasks) /\ sleep_list # <<>> /\ IsInjective(sleep_list)
      BY <1>9 DEF SleepTick, IInv, TypeOK, EveryTaskOnItsList
    <3> QED
      BY <3>1, TailProperties DEF IInv, EveryTaskOnItsList
  <2>2. /\ Frame /\ Loops /\ UNCHANGED waitVars
        /\ state' = [state EXCEPT ![t] = "READY"]
    BY <1>9, <2>1 DEF SleepTick
  <2>3. /\ \A m \in Mutexes : ~WaitsFor(t, "MUTEX", m)
        /\ \A m \in Mutexes : ~WaitsFor(t, "MUTEX", m)'
    BY <1>t, <2>1, <2>2 DEF WaitsFor
  <2> QED
    BY <1>2, <1>t, <2>1, <2>2, <2>3
<1>10. CASE SchedulerSelectNext
  <2>1. /\ Frame /\ Loops /\ UNCHANGED waitVars
    BY <1>10 DEF SchedulerSelectNext
  <2>2. PICK n \in Tasks :
          /\ In(n, ready_queue) \/ (n = current_task /\ PutCurrent(state))
          /\ state'[n] = "RUNNING"
          /\ \A t \in Tasks \ {n} :
               state'[t] = IF t = current_task /\ PutCurrent(state)
                           THEN "READY" ELSE state[t]
    BY <1>10, SelectFacts
  <2>3. state[n] # "BLOCKED"
    BY <2>2, QueueFacts DEF PutCurrent
  <2>4. \A t \in Tasks : state'[t] = "BLOCKED" <=> state[t] = "BLOCKED"
    BY <2>2, <2>3 DEF PutCurrent
  <2>5. \A t \in Tasks : state'[t] \in {"UNUSED", "FINISHED"} => state'[t] = state[t]
    BY <2>2
  <2>6. \A t \in Tasks, m \in Mutexes :
          WaitsFor(t, "MUTEX", m)' <=> WaitsFor(t, "MUTEX", m)
    BY <2>1, <2>4 DEF WaitsFor
  <2> QED
    BY <2>1, <2>5, <2>6 DEF Quiet
<1>11. CASE SvcTail \/ SysYield \/ SysSemCreate
  BY <1>1, <1>11 DEF SvcTail, SysYield, SysSemCreate, Calls
<1>12. CASE SysTick \/ SysTickDone \/ PendSvEnter
  BY <1>1, <1>12 DEF SysTick, SysTickDone, PendSvEnter
<1>13. CASE RestoreTask \/ UNCHANGED vars
  BY <1>1, <1>13 DEF RestoreTask, vars
<1> HIDE DEF Frame, Loops
<1> QED
  BY <1>4, <1>5, <1>6, <1>7, <1>8, <1>9, <1>10, <1>11, <1>12, <1>13 DEF Next, Loud

-----------------------------------------------------------------------------
(* Who owns what.  The lists of owned mutexes are right when no task locks *)
(* a second mutex; otherwise mutex_unlock loses entries of them.           *)

\* The programs never give a mutex up.
KeepsAll == {"mutex_unlock", "task_exit"} \cap Syscalls = {}

\* The programs for which priority inheritance is exact.
Disciplined == Nesting = FALSE \/ KeepsAll

\* No slot that can be reused owns a mutex, but for the task that SYS_TASK_EXIT
\* is about to relieve of its mutexes.
OwnersLive ==
  \A m \in Mutexes : owner[m] # None =>
    /\ state[owner[m]] # "UNUSED"
    /\ state[owner[m]] = "FINISHED" => mode = "exit" /\ owner[m] = current_task

\* The lists of owned mutexes of programs that do not nest: at most one mutex
\* each, the one the task owns, and none for a task that waits.
OwnedLists ==
  /\ \A m \in Mutexes : next_owned[m] = None
  /\ \A t \in Tasks, m \in Mutexes : owner[m] = t <=> owned_mutexes[t] = m
  /\ \A t \in Tasks, m, k \in Mutexes : WaitsFor(t, "MUTEX", m) => owner[k] # t
  /\ mode = "exit" => exit_mutex = owned_mutexes[current_task]

NobodyExits == mode # "exit" /\ \A t \in Tasks : state[t] # "FINISHED"

OwnInv ==
  /\ OwnersLive /\ WaitsForAnother
  /\ Nesting = FALSE => OwnedLists
  /\ KeepsAll => NobodyExits

\* A walk along an empty list, and along a list of one mutex.
LEMMA ListedNone ==
  ASSUME NEW nxt
  PROVE  Listed(None, nxt) = {}
<1>1. {} \in SUBSET Mutexes /\ \A x \in {} : nxt[x] # None => nxt[x] \in {}
  OBVIOUS
<1>2. \A m \in Listed(None, nxt) : m \in {}
  BY <1>1 DEF Listed
<1> QED
  BY <1>2

\* A mutex without a successor is a list of one.
LEMMA ListedOne ==
  ASSUME NEW m \in Mutexes, NEW nxt, nxt[m] = None
  PROVE  Listed(m, nxt) = {m}
<1>1. ASSUME NEW k \in Listed(m, nxt)
      PROVE  k = m
  <2>1. {m} \in SUBSET Mutexes /\ m \in {m}
        /\ \A x \in {m} : nxt[x] # None => nxt[x] \in {m}
    OBVIOUS
  <2>2. k \in {m}
    BY <1>1, <2>1 DEF Listed
  <2> QED
    BY <2>2
<1>2. m \in Listed(m, nxt)
  BY Constants DEF Listed
<1> QED
  BY <1>1, <1>2

\* task_recalculate_priority of a task that owns nothing.
LEMMA RecalculatedNone ==
  ASSUME base_priority \in [Tasks -> Prios], NEW t \in Tasks,
         NEW own, NEW nxt, NEW mq, NEW eff, own[t] = None
  PROVE  Recalculated(t, own, nxt, mq, eff) = base_priority[t]
<1> DEFINE firsts == {m \in Listed(own[t], nxt) : mq[m] # <<>>}
           claims == {base_priority[t]} \cup {eff[Head(mq[m])] : m \in firsts}
<1>1. Listed(own[t], nxt) = {}
  BY ListedNone
<1>2. claims = {base_priority[t]} /\ base_priority[t] \in Nat
  BY <1>1, Constants
<1>3. Recalculated(t, own, nxt, mq, eff) = CHOOSE p \in claims : \A r \in claims : p <= r
  BY Zenon DEF Recalculated
<1> HIDE DEF claims
<1>4. \E p \in claims : \A r \in claims : p <= r
  BY <1>2
<1> QED
  BY <1>2, <1>3, <1>4

\* p is the most urgent of the base priority of t and the priorities in q.
Inherits(p, t, q, eff) ==
  /\ p <= base_priority[t]
  /\ \A w \in Tasks : In(w, q) => p <= eff[w]
  /\ p = base_priority[t] \/ \E w \in Tasks : In(w, q) /\ p = eff[w]

\* task_recalculate_priority of a task that owns one mutex, whose queue is in
\* order: the first waiter stands for all of them.
LEMMA RecalculatedOne ==
  ASSUME base_priority \in [Tasks -> Prios], NEW t \in Tasks,
         NEW own, NEW nxt, NEW eff \in [Tasks -> Prios],
         NEW mq \in [Mutexes -> Seq(Tasks)], NEW m \in Mutexes,
         own[t] = m, nxt[m] = None, Sorted(mq[m], eff)
  PROVE  Inherits(Recalculated(t, own, nxt, mq, eff), t, mq[m], eff)
<1> DEFINE firsts == {k \in Listed(own[t], nxt) : mq[k] # <<>>}
           claims == {base_priority[t]} \cup {eff[Head(mq[k])] : k \in firsts}
           p == Recalculated(t, own, nxt, mq, eff)
<1>1. firsts = {k \in {m} : mq[k] # <<>>}
  BY ListedOne
<1>2. /\ base_priority[t] \in Nat /\ eff \in [Tasks -> Nat] /\ mq[m] \in Seq(Tasks)
      /\ mq[m] # <<>> => /\ Head(mq[m]) \in Tasks /\ In(Head(mq[m]), mq[m])
                         /\ \A w \in Tasks : In(w, mq[m]) => eff[Head(mq[m])] <= eff[w]
  <2>1. base_priority[t] \in Nat /\ eff \in [Tasks -> Nat] /\ mq[m] \in Seq(Tasks)
    BY Constants
  <2>2. ASSUME mq[m] # <<>>
        PROVE  Head(mq[m]) \in Tasks /\ In(Head(mq[m]), mq[m])
    BY <2>1, <2>2 DEF In
  <2>3. ASSUME mq[m] # <<>>
        PROVE  \A w \in Tasks : In(w, mq[m]) => eff[Head(mq[m])] <= eff[w]
    BY <2>1, <2>3, TailSorted
  <2> QED
    BY <2>1, <2>2, <2>3
<1>3. CASE mq[m] = <<>>
  <2>1. claims = {base_priority[t]}
    BY <1>1, <1>3
  <2>2. p = CHOOSE x \in claims : \A r \in claims : x <= r
    BY Zenon DEF Recalculated
  <2>3. \A w \in Tasks : ~In(w, mq[m])
    BY <1>3 DEF In
  <2> HIDE DEF claims, p
  <2>4. \E x \in claims : \A r \in claims : x <= r
    BY <1>2, <2>1
  <2>5. p = base_priority[t]
    BY <2>1, <2>2, <2>4
  <2> QED
    BY <1>2, <2>3, <2>5 DEF p, Inherits
<1>4. CASE mq[m] # <<>>
  <2> DEFINE h == eff[Head(mq[m])]
  <2>1. claims = {base_priority[t], h}
    BY <1>1, <1>4
  <2>2. p = CHOOSE x \in claims : \A r \in claims : x <= r
    BY Zenon DEF Recalculated
  <2>3. h \in Nat
    BY <1>2, <1>4
  <2> HIDE DEF claims, p
  <2>4. \E x \in claims : \A r \in claims : x <= r
    <3> HIDE DEF h
    <3> QED
      BY <1>2, <2>1, <2>3
  <2>5. p \in claims /\ \A r \in claims : p <= r
    BY <2>2, <2>4
  <2>6. /\ p <= base_priority[t] /\ p <= h
        /\ p = base_priority[t] \/ p = h
    BY <2>1, <2>5
  <2>7. \A w \in Tasks : In(w, mq[m]) => p <= eff[w]
    BY <1>2, <1>4, <2>3, <2>6
  <2>8. p = base_priority[t] \/ \E w \in Tasks : In(w, mq[m]) /\ p = eff[w]
    BY <1>2, <1>4, <2>6
  <2> QED
    BY <2>6, <2>7, <2>8 DEF p, Inherits
<1> QED
  BY <1>3, <1>4

\* mutex_unlock by a task that owns no second mutex: it falls back to its base
\* priority, and the new owner inherits from those who still wait.
LEMMA UnlockAlone ==
  ASSUME IInv, QueuesSorted, OwnedLists, current_task \in Tasks,
         state[current_task] \in {"RUNNING", "FINISHED"},
         NEW m \in Mutexes, owner[m] = current_task, MutexUnlock(m)
  PROVE  /\ \A k \in Mutexes : next_owned'[k] = None
         /\ owned_mutexes'[current_task] = None
         /\ effective_priority'[current_task] = base_priority[current_task]
         /\ \/ /\ \A w \in Tasks : ~WaitsFor(w, "MUTEX", m)
               /\ UNCHANGED <<state, waiting_on, waiting_on_type, ready_queue>>
               /\ owner' = [owner EXCEPT ![m] = None]
               /\ \A t \in Tasks \ {current_task} :
                    /\ owned_mutexes'[t] = owned_mutexes[t]
                    /\ effective_priority'[t] = effective_priority[t]
            \/ \E n \in Tasks :
                 /\ n # current_task /\ WaitsFor(n, "MUTEX", m)
                 /\ owner' = [owner EXCEPT ![m] = n]
                 /\ state' = [state EXCEPT ![n] = "READY"]
                 /\ waiting_on' = [waiting_on EXCEPT ![n] = None]
                 /\ waiting_on_type' = [waiting_on_type EXCEPT ![n] = "NONE"]
                 /\ owned_mutexes'[n] = m
                 /\ \A t \in Tasks \ {current_task, n} :
                      /\ owned_mutexes'[t] = owned_mutexes[t]
                      /\ effective_priority'[t] = effective_priority[t]
                 /\ effective_priority'[n] <= base_priority[n]
                 /\ \A w \in Tasks : WaitsFor(w, "MUTEX", m) /\ w # n =>
                      effective_priority'[n] <= effective_priority[w]
                 /\ \/ effective_priority'[n] = base_priority[n]
                    \/ \E w \in Tasks :
                         /\ WaitsFor(w, "MUTEX", m) /\ w # n
                         /\ effective_priority'[n] = effective_priority[w]
<1> DEFINE c == current_task
<1>1. /\ owned_mutexes[c] = m /\ c \in Tasks
      /\ \A k \in Mutexes : next_owned[k] = None
      /\ \A t \in Tasks : owned_mutexes[t] = m => t = c
  BY DEF OwnedLists
<1>2. /\ owned_mutexes \in Heads /\ next_owned \in Links
      /\ base_priority \in [Tasks -> Prios]
      /\ effective_priority \in [Tasks -> Prios]
      /\ mutex_queue \in [Mutexes -> Seq(Tasks)]
  BY DEF IInv, TypeOK, Heads, Links
<1>3. CASE ReleaseMutex(c, m)
  <2> DEFINE rem == OwnedRemove(owned_mutexes, next_owned, c, m)
             e == Recalculated(c, rem[1], rem[2], mutex_queue, effective_priority)
  <2>1. /\ mutex_queue[m] = <<>>
        /\ owner' = [owner EXCEPT ![m] = None]
        /\ owned_mutexes' = rem[1] /\ next_owned' = rem[2]
        /\ effective_priority' = [effective_priority EXCEPT ![c] = e]
        /\ UNCHANGED <<state, ready_queue, waiting_on, waiting_on_type>>
    BY <1>3, Zenon DEF ReleaseMutex
  <2>2. rem = <<[owned_mutexes EXCEPT ![c] = next_owned[m]],
                [next_owned EXCEPT ![m] = None]>>
    BY <1>1 DEF OwnedRemove
  <2>3. /\ \A k \in Mutexes : rem[2][k] = None
        /\ rem[1][c] = None
        /\ \A t \in Tasks \ {c} : rem[1][t] = owned_mutexes[t]
    BY <1>1, <1>2, <2>2 DEF Heads, Links
  <2> HIDE DEF rem
  <2>4. e = base_priority[c]
    BY <1>1, <1>2, <2>3, RecalculatedNone
  <2> HIDE DEF e
  <2>5. \A w \in Tasks : ~WaitsFor(w, "MUTEX", m)
    BY <2>1, QueueFacts DEF In
  <2>6. /\ effective_priority'[c] = base_priority[c]
        /\ \A t \in Tasks \ {c} : effective_priority'[t] = effective_priority[t]
    BY <1>1, <1>2, <2>1, <2>4
  <2> QED
    BY <2>1, <2>3, <2>5, <2>6
<1>4. CASE HandMutexOver(c, m)
  <2> DEFINE n == Head(mutex_queue[m])
             mq == [mutex_queue EXCEPT ![m] = Tail(@)]
             add == OwnedPush(owned_mutexes, next_owned, n, m)
             e == Recalculated(n, add[1], add[2], mq, effective_priority)
             eff == [effective_priority EXCEPT ![n] = e]
             rem == OwnedRemove(add[1], add[2], c, m)
             f == Recalculated(c, rem[1], rem[2], mq, eff)
  <2>1. /\ mutex_queue[m] # <<>>
        /\ owner' = [owner EXCEPT ![m] = n]
        /\ state' = [state EXCEPT ![n] = "READY"]
        /\ waiting_on' = [waiting_on EXCEPT ![n] = None]
        /\ waiting_on_type' = [waiting_on_type EXCEPT ![n] = "NONE"]
        /\ owned_mutexes' = rem[1] /\ next_owned' = rem[2]
        /\ effective_priority' = [eff EXCEPT ![c] = f]
    BY <1>4, Zenon DEF HandMutexOver
  <2>2. /\ mutex_queue[m] \in Seq(Tasks) /\ IsInjective(mutex_queue[m])
        /\ Sorted(mutex_queue[m], effective_priority)
    BY QueueFacts DEF QueuesSorted
  <2>3. /\ n \in Tasks /\ In(n, mutex_queue[m])
        /\ Tail(mutex_queue[m]) \in Seq(Tasks)
        /\ \A u : In(u, Tail(mutex_queue[m])) <=> In(u, mutex_queue[m]) /\ u # n
    BY <2>1, <2>2, TailProperties
  <2>4. Sorted(Tail(mutex_queue[m]), effective_priority)
    BY <2>1, <2>2, QueueFacts, TailSorted
  <2>5. /\ mq \in [Mutexes -> Seq(Tasks)] /\ mq[m] = Tail(mutex_queue[m])
    BY <1>2, <2>3
  <2>6. WaitsFor(n, "MUTEX", m) /\ n # c
    BY <2>3, QueueFacts DEF WaitsFor
  <2> HIDE DEF n
  <2>7. /\ add[1] = [owned_mutexes EXCEPT ![n] = m]
        /\ add[2] = [next_owned EXCEPT ![m] = owned_mutexes[n]]
    BY DEF OwnedPush
  <2>8. owned_mutexes[n] = None
    <3>1. \A k \in Mutexes : owner[k] # n
      BY <2>3, <2>6 DEF OwnedLists
    <3> QED
      BY <1>2, <2>3, <3>1 DEF OwnedLists, Heads
  <2>9. /\ add[1][n] = m /\ add[1][c] = m /\ add[1] \in Heads
        /\ \A t \in Tasks \ {n} : add[1][t] = owned_mutexes[t]
        /\ add[2] \in Links /\ \A k \in Mutexes : add[2][k] = None
    BY <1>1, <1>2, <2>3, <2>6, <2>7, <2>8 DEF Heads, Links
  <2> HIDE DEF add
  <2>10. rem = <<[add[1] EXCEPT ![c] = add[2][m]], [add[2] EXCEPT ![m] = None]>>
    BY <2>9 DEF OwnedRemove
  <2>11. /\ rem[1][c] = None /\ rem[1][n] = m
         /\ \A t \in Tasks \ {c, n} : rem[1][t] = owned_mutexes[t]
         /\ \A k \in Mutexes : rem[2][k] = None
    BY <1>1, <2>3, <2>6, <2>9, <2>10 DEF Heads, Links
  <2> HIDE DEF rem
  <2>12. Inherits(e, n, mq[m], effective_priority)
    <3> DEFINE own == add[1]
               nxt == add[2]
    <3>1. /\ Sorted(mq[m], effective_priority) /\ mq \in [Mutexes -> Seq(Tasks)]
          /\ n \in Tasks /\ own[n] = m /\ nxt[m] = None
          /\ base_priority \in [Tasks -> Prios]
          /\ effective_priority \in [Tasks -> Prios]
      BY <1>2, <2>3, <2>4, <2>5, <2>9
    <3>2. e = Recalculated(n, own, nxt, mq, effective_priority)
      OBVIOUS
    <3> HIDE DEF mq, own, nxt, e
    <3> QED
      BY <3>1, <3>2, RecalculatedOne
  <2>13. f = base_priority[c]
    BY <1>1, <1>2, <2>11, RecalculatedNone
  <2> HIDE DEF e, f, mq
  <2>14. \A w \in Tasks : In(w, mq[m]) <=> WaitsFor(w, "MUTEX", m) /\ w # n
    BY <2>3, <2>5, QueueFacts
  <2>15. /\ effective_priority'[c] = base_priority[c]
         /\ effective_priority'[n] = e
         /\ \A t \in Tasks \ {c, n} : effective_priority'[t] = effective_priority[t]
    BY <1>1, <1>2, <2>1, <2>3, <2>6, <2>13
  <2>16. /\ effective_priority'[n] <= base_priority[n]
         /\ \A w \in Tasks : WaitsFor(w, "MUTEX", m) /\ w # n =>
              effective_priority'[n] <= effective_priority[w]
         /\ \/ effective_priority'[n] = base_priority[n]
            \/ \E w \in Tasks : /\ WaitsFor(w, "MUTEX", m) /\ w # n
                                /\ effective_priority'[n] = effective_priority[w]
    BY <2>12, <2>14, <2>15 DEF Inherits
  <2>17. /\ owned_mutexes'[c] = None /\ owned_mutexes'[n] = m
         /\ \A t \in Tasks \ {c, n} : owned_mutexes'[t] = owned_mutexes[t]
         /\ \A k \in Mutexes : next_owned'[k] = None
    BY <2>1, <2>11
  <2>18. /\ n \in Tasks /\ n # c /\ WaitsFor(n, "MUTEX", m)
         /\ owner' = [owner EXCEPT ![m] = n]
         /\ state' = [state EXCEPT ![n] = "READY"]
         /\ waiting_on' = [waiting_on EXCEPT ![n] = None]
         /\ waiting_on_type' = [waiting_on_type EXCEPT ![n] = "NONE"]
    BY <2>1, <2>3, <2>6
  <2> HIDE DEF n
  <2> QED
    BY <2>15, <2>16, <2>17, <2>18
<1> QED
  BY <1>3, <1>4 DEF MutexUnlock

\* Every step of programs with the discipline keeps the owners right.
LEMMA OwnStep ==
  ASSUME Disciplined, IInv, QueuesSorted, OwnInv, [Next]_vars
  PROVE  OwnInv'
<1>t. /\ owner \in [Mutexes -> Tasks \cup {None}]
      /\ owned_mutexes \in [Tasks -> Mutexes \cup {None}]
      /\ next_owned \in [Mutexes -> Mutexes \cup {None}]
      /\ state \in [Tasks -> States]
      /\ waiting_on \in [Tasks -> Nat]
      /\ waiting_on_type \in [Tasks -> {"NONE", "SEM", "MUTEX"}]
  BY DEF IInv, TypeOK
<1>w. WaitsForAnother'
  BY OwnersStep DEF OwnInv
<1>n. /\ Nesting = FALSE => OwnedLists
      /\ KeepsAll => NobodyExits
      /\ OwnersLive /\ WaitsForAnother
  BY DEF OwnInv
<1>o. \A m \in Mutexes : owner[m] # None => owner[m] \in Tasks
  BY <1>t
\* A step that keeps the owners, their lists and those who wait.
<1>1. ASSUME UNCHANGED <<owner, owned_mutexes, next_owned>>, mode' # "exit",
             \A m \in Mutexes : owner[m] # None /\ state[owner[m]] = "FINISHED" =>
                                  ~(mode = "exit" /\ owner[m] = current_task),
             \A t \in Tasks : state'[t] \in {"UNUSED", "FINISHED"} =>
                                state'[t] = state[t],
             \A t \in Tasks, m \in Mutexes :
               WaitsFor(t, "MUTEX", m)' => WaitsFor(t, "MUTEX", m)
      PROVE  OwnInv'
  <2>1. OwnersLive'
    BY <1>n, <1>o, <1>1 DEF OwnersLive
  <2>2. Nesting = FALSE => OwnedLists'
    BY <1>n, <1>1 DEF OwnedLists
  <2>3. KeepsAll => NobodyExits'
    BY <1>n, <1>1 DEF NobodyExits
  <2> QED
    BY <1>w, <2>1, <2>2, <2>3 DEF OwnInv
<1>2. CASE Quiet
  <2>1. OwnersLive'
    BY <1>n, <1>o, <1>2 DEF OwnersLive, Quiet
  <2>2. Nesting = FALSE => OwnedLists'
    BY <1>n, <1>2 DEF OwnedLists, Quiet
  <2>3. KeepsAll => NobodyExits'
    BY <1>n, <1>2 DEF NobodyExits, Quiet
  <2> QED
    BY <1>w, <2>1, <2>2, <2>3 DEF OwnInv
<1>3. CASE BootTask \/ SysTaskCreate
  <2>1. PICK p \in Prios : CreateTask(p)
    <3>1. CASE BootTask
      BY <3>1, BootType DEF BootTask, IInv, TypeOK
    <3>2. CASE SysTaskCreate
      BY <3>2, UseAssumption DEF SysTaskCreate
    <3> QED
      BY <1>3, <3>1, <3>2
  <2>2. mode = "thread" /\ mode' = mode
    BY <1>3, <2>1 DEF BootTask, SysTaskCreate, Calls, CreateTask, IInv, BootPhase
  <2>3. PICK t \in Tasks :
          /\ state[t] \in {"UNUSED", "FINISHED"}
          /\ state' = [state EXCEPT ![t] = "READY"]
          /\ owned_mutexes' = [owned_mutexes EXCEPT ![t] = None]
          /\ waiting_on_type' = [waiting_on_type EXCEPT ![t] = "NONE"]
          /\ waiting_on' = [waiting_on EXCEPT ![t] = None]
    BY <2>1, CreateFacts
  <2>4. UNCHANGED <<owner, next_owned>>
    BY <2>1 DEF CreateTask
  <2>5. \A m \in Mutexes : owner[m] # t
    BY <1>n, <2>2, <2>3, Constants DEF OwnersLive
  <2>6. OwnersLive'
    BY <1>n, <1>o, <1>t, <2>2, <2>3, <2>4 DEF OwnersLive
  <2>7. \A u \in Tasks, m \in Mutexes :
          WaitsFor(u, "MUTEX", m)' => WaitsFor(u, "MUTEX", m)
    BY <1>t, <2>3 DEF WaitsFor
  <2>8. ASSUME Nesting = FALSE
        PROVE  OwnedLists'
    <3>1. \A u \in Tasks, m \in Mutexes : owner'[m] = u <=> owned_mutexes'[u] = m
      BY <1>n, <1>t, <2>3, <2>4, <2>5, <2>8, Constants DEF OwnedLists
    <3> QED
      BY <1>n, <2>2, <2>4, <2>7, <2>8, <3>1 DEF OwnedLists
  <2>9. KeepsAll => NobodyExits'
    BY <1>n, <1>t, <2>2, <2>3 DEF NobodyExits
  <2> QED
    BY <1>w, <2>6, <2>8, <2>9 DEF OwnInv
<1>4. ASSUME NEW m \in Mutexes, SysMutexTake(m)
      PROVE  OwnInv'
  <2>1. PICK c \in Tasks : c = current_task /\ state[c] = "RUNNING"
    BY <1>4, CallerFacts DEF SysMutexTake
  <2>2. /\ owner[m] = None /\ owner' = [owner EXCEPT ![m] = c]
        /\ UNCHANGED <<state, waitVars, mode>> /\ mode = "thread"
        /\ Nesting = FALSE => \A k \in Mutexes : owner[k] # c
        /\ owned_mutexes' = [owned_mutexes EXCEPT ![c] = m]
        /\ next_owned' = [next_owned EXCEPT ![m] = owned_mutexes[c]]
    BY <1>4, <2>1 DEF SysMutexTake, Calls, MayLock, OwnedPush
  <2>3. OwnersLive'
    BY <1>n, <1>o, <1>t, <2>1, <2>2 DEF OwnersLive
  <2>4. ASSUME Nesting = FALSE
        PROVE  OwnedLists'
    <3>1. owned_mutexes[c] = None
      BY <1>n, <1>t, <2>2, <2>4 DEF OwnedLists
    <3>2. \A k \in Mutexes : next_owned'[k] = None
      BY <1>n, <1>t, <2>2, <2>4, <3>1 DEF OwnedLists
    <3>3. \A u \in Tasks, k \in Mutexes : owner'[k] = u <=> owned_mutexes'[u] = k
      BY <1>n, <1>t, <2>2, <2>4, <3>1, Constants DEF OwnedLists
    <3>4. \A u \in Tasks, k, l \in Mutexes : WaitsFor(u, "MUTEX", k)' => owner'[l] # u
      BY <1>n, <1>t, <2>1, <2>2, <2>4 DEF OwnedLists, WaitsFor
    <3> QED
      BY <2>2, <3>2, <3>3, <3>4 DEF OwnedLists
  <2>5. KeepsAll => NobodyExits'
    BY <1>n, <2>2 DEF NobodyExits
  <2> QED
    BY <1>w, <2>3, <2>4, <2>5 DEF OwnInv
<1>5. ASSUME NEW m \in Mutexes, SysMutexBlock(m)
      PROVE  OwnInv'
  <2>1. PICK c \in Tasks : c = current_task /\ state[c] = "RUNNING"
    BY <1>5, CallerFacts DEF SysMutexBlock
  <2>2. /\ UNCHANGED <<owner, owned_mutexes, next_owned>>
        /\ mode = "thread" /\ mode' = "raise"
        /\ Nesting = FALSE => \A k \in Mutexes : owner[k] # c
        /\ state' = [state EXCEPT ![c] = "BLOCKED"]
        /\ waiting_on' = [waiting_on EXCEPT ![c] = m]
        /\ waiting_on_type' = [waiting_on_type EXCEPT ![c] = "MUTEX"]
    BY <1>5, <2>1 DEF SysMutexBlock, Calls, MayLock
  <2>3. OwnersLive'
    BY <1>n, <1>o, <1>t, <2>2 DEF OwnersLive
  <2>4. ASSUME Nesting = FALSE
        PROVE  OwnedLists'
    <3>1. \A u \in Tasks, k, l \in Mutexes : WaitsFor(u, "MUTEX", k)' => owner'[l] # u
      BY <1>n, <1>t, <2>2, <2>4 DEF OwnedLists, WaitsFor
    <3> QED
      BY <1>n, <2>2, <2>4, <3>1 DEF OwnedLists
  <2>5. KeepsAll => NobodyExits'
    BY <1>n, <1>t, <2>2 DEF NobodyExits
  <2> QED
    BY <1>w, <2>3, <2>4, <2>5 DEF OwnInv
<1>6. CASE TaskRaisePriority \/ RaiseDone
  <2>1. /\ UNCHANGED <<owner, owned_mutexes, next_owned, state, waitVars>>
        /\ mode = "raise" /\ mode' # "exit"
    BY <1>6 DEF TaskRaisePriority, RaiseDone
  <2> QED
    BY <1>1, <2>1 DEF WaitsFor
<1>7. ASSUME NEW m \in Mutexes, MutexUnlock(m), owner[m] = current_task,
             current_task \in Tasks, Nesting = FALSE,
             state[current_task] \in {"RUNNING", "FINISHED"},
             mode' = "exit" => mode = "exit" /\ exit_mutex' = None,
             mode = "exit" => mode' = "exit",
             KeepsAll => NobodyExits'
      PROVE  OwnInv'
  <2>c. PICK c \in Tasks : c = current_task
    BY <1>7
  <2>1. current_task' = c
    BY <1>7, <2>c DEF MutexUnlock
  <2>2. /\ \A k \in Mutexes : next_owned'[k] = None
        /\ owned_mutexes'[c] = None
    BY <1>7, <1>n, <2>c, UnlockAlone
  <2>3. CASE /\ UNCHANGED <<state, waiting_on, waiting_on_type>>
             /\ owner' = [owner EXCEPT ![m] = None]
             /\ \A t \in Tasks \ {c} : owned_mutexes'[t] = owned_mutexes[t]
    <3>1. OwnersLive'
      BY <1>7, <1>n, <1>o, <1>t, <2>1, <2>c, <2>3 DEF OwnersLive
    <3>2. \A u \in Tasks, k \in Mutexes : owner'[k] = u <=> owned_mutexes'[u] = k
      BY <1>7, <1>n, <1>t, <2>c, <2>2, <2>3, Constants DEF OwnedLists
    <3>3. \A u \in Tasks, k, l \in Mutexes : WaitsFor(u, "MUTEX", k)' => owner'[l] # u
      BY <1>7, <1>n, <1>t, <2>3, Constants DEF OwnedLists, WaitsFor
    <3>4. OwnedLists'
      BY <1>7, <2>1, <2>2, <3>2, <3>3 DEF OwnedLists
    <3> QED
      BY <1>7, <1>w, <3>1, <3>4 DEF OwnInv
  <2>4. ASSUME NEW n \in Tasks, n # c, WaitsFor(n, "MUTEX", m),
               owner' = [owner EXCEPT ![m] = n],
               state' = [state EXCEPT ![n] = "READY"],
               waiting_on' = [waiting_on EXCEPT ![n] = None],
               waiting_on_type' = [waiting_on_type EXCEPT ![n] = "NONE"],
               owned_mutexes'[n] = m,
               \A t \in Tasks \ {c, n} : owned_mutexes'[t] = owned_mutexes[t]
        PROVE  OwnInv'
    <3>1. OwnersLive'
      BY <1>7, <1>n, <1>o, <1>t, <2>1, <2>c, <2>4 DEF OwnersLive
    <3>2. \A u \in Tasks, k \in Mutexes : owner'[k] = u <=> owned_mutexes'[u] = k
      <4>1. \A k \in Mutexes : owner[k] = c => k = m
        BY <1>7, <1>n, <2>c DEF OwnedLists
      <4>2. \A k \in Mutexes : owner[k] # n
        BY <1>7, <1>n, <2>4 DEF OwnedLists
      <4> QED
        BY <1>7, <1>n, <1>t, <2>c, <2>2, <2>4, <4>1, <4>2, Constants DEF OwnedLists
    <3>3. \A u \in Tasks, k, l \in Mutexes : WaitsFor(u, "MUTEX", k)' => owner'[l] # u
      BY <1>7, <1>n, <1>t, <2>4 DEF OwnedLists, WaitsFor
    <3>4. OwnedLists'
      BY <1>7, <2>1, <2>2, <3>2, <3>3 DEF OwnedLists
    <3> QED
      BY <1>7, <1>w, <3>1, <3>4 DEF OwnInv
  <2> QED
    BY <1>7, <1>n, <2>c, <2>3, <2>4, UnlockAlone
<1>8. ASSUME NEW m \in Mutexes, SysMutexUnlock(m)
      PROVE  OwnInv'
  <2>1. ~KeepsAll /\ Nesting = FALSE
    BY <1>8 DEF SysMutexUnlock, Calls, KeepsAll, Disciplined
  <2>2. current_task \in Tasks /\ state[current_task] = "RUNNING"
    BY <1>8, CallerFacts DEF SysMutexUnlock
  <2>3. mode = "thread" /\ mode' # "exit" /\ owner[m] = current_task /\ MutexUnlock(m)
    BY <1>8 DEF SysMutexUnlock, Calls
  <2> QED
    BY <1>7, <2>1, <2>2, <2>3
<1>9. CASE SysTaskExit
  <2>1. ~KeepsAll /\ Nesting = FALSE
    BY <1>9 DEF SysTaskExit, Calls, KeepsAll, Disciplined
  <2>2. PICK c \in Tasks : c = current_task /\ state[c] = "RUNNING"
    BY <1>9, CallerFacts DEF SysTaskExit
  <2>3. /\ mode = "thread" /\ mode' = "exit" /\ current_task' = c
        /\ state' = [state EXCEPT ![c] = "FINISHED"]
        /\ exit_mutex' = owned_mutexes[c]
        /\ UNCHANGED <<owner, owned_mutexes, next_owned, waitVars>>
    BY <1>9, <2>2 DEF SysTaskExit, Calls
  <2>4. OwnersLive'
    BY <1>n, <1>o, <1>t, <2>2, <2>3 DEF OwnersLive
  <2>5. \A u \in Tasks, k \in Mutexes :
          WaitsFor(u, "MUTEX", k)' => WaitsFor(u, "MUTEX", k)
    BY <1>t, <2>3 DEF WaitsFor
  <2>6. OwnedLists'
    BY <1>n, <2>1, <2>3, <2>5 DEF OwnedLists
  <2> QED
    BY <1>w, <2>1, <2>4, <2>6 DEF OwnInv
<1>10. CASE ExitUnlock \/ ExitSkip \/ ExitDone
  <2>1. /\ mode = "exit" /\ current_task \in Tasks /\ state[current_task] = "FINISHED"
        /\ ~KeepsAll /\ Nesting = FALSE
    BY <1>10, <1>n, CallerFacts DEF ExitUnlock, ExitSkip, ExitDone, NobodyExits,
                                    Disciplined
  <2>2. OwnedLists /\ exit_mutex = owned_mutexes[current_task]
    BY <1>n, <2>1 DEF OwnedLists
  <2>3. CASE ExitUnlock
    <3>1. /\ exit_mutex \in Mutexes /\ owner[exit_mutex] = current_task
          /\ MutexUnlock(exit_mutex) /\ mode' = "exit"
          /\ exit_mutex' = next_owned'[exit_mutex]
      BY <2>1, <2>3 DEF ExitUnlock, IInv, TypeOK
    <3>2. exit_mutex' = None
      BY <2>1, <2>2, <3>1, UnlockAlone
    <3> QED
      BY <1>7, <2>1, <3>1, <3>2
  <2>4. CASE ExitSkip
    <3>1. exit_mutex \in Mutexes /\ owner[exit_mutex] # current_task
      BY <2>4 DEF ExitSkip, IInv, TypeOK
    <3> QED
      BY <2>1, <2>2, <3>1 DEF OwnedLists
  <2>5. CASE ExitDone
    <3>1. /\ UNCHANGED <<owner, owned_mutexes, next_owned, state, waitVars>>
          /\ mode' # "exit" /\ exit_mutex = None
      BY <2>5 DEF ExitDone
    <3>2. \A m \in Mutexes : owner[m] # current_task
      <4>1. owned_mutexes[current_task] \notin Mutexes
        BY <2>2, <3>1, Constants
      <4> QED
        BY <2>1, <2>2, <4>1 DEF OwnedLists
    <3>3. \A u \in Tasks, k \in Mutexes :
            WaitsFor(u, "MUTEX", k)' => WaitsFor(u, "MUTEX", k)
      BY <3>1 DEF WaitsFor
    <3> QED
      BY <1>1, <3>1, <3>2, <3>3
  <2> QED
    BY <1>10, <2>3, <2>4, <2>5
<1> QED
  BY <1>2, <1>3, <1>4, <1>5, <1>6, <1>8, <1>9, <1>10, QuietStep DEF Loud

\* What is true of the initial state.
LEMMA InitOwn ==
  ASSUME Init
  PROVE  QueuesSorted /\ OwnInv
<1>1. QueuesSorted
  BY DEF Init, QueuesSorted, Sorted
<1>2. OwnersLive /\ WaitsForAnother
  BY DEF Init, OwnersLive, WaitsForAnother, WaitsFor
<1>3. OwnedLists
  <2>1. \A t \in Tasks, m \in Mutexes : owner[m] # t /\ owned_mutexes[t] # m
    BY Constants DEF Init
  <2> QED
    BY <2>1 DEF Init, OwnedLists, WaitsFor
<1>4. NobodyExits
  BY DEF Init, NobodyExits
<1> QED
  BY <1>1, <1>2, <1>3, <1>4 DEF OwnInv

\* When no task locks a second mutex, SYS_TASK_EXIT leaves the task without a
\* mutex: a slot is never reused, and a task never gone, while somebody can
\* still wait for it.
THEOREM ExitReleasesAll == Nesting = FALSE => (Spec => []FinishedTasksOwnNothing)
<1> SUFFICES ASSUME Nesting = FALSE
             PROVE  Spec => []FinishedTasksOwnNothing
  OBVIOUS
<1>1. Init => QueuesSorted /\ OwnInv
  BY InitOwn
<1>2. IInv /\ QueuesSorted /\ OwnInv /\ [Next]_vars => QueuesSorted' /\ OwnInv'
  BY SortedStep, OwnStep DEF Disciplined
<1>3. OwnInv => FinishedTasksOwnNothing
  BY DEF OwnInv, OwnersLive, FinishedTasksOwnNothing
<1> QED
  BY <1>1, <1>2, <1>3, Invariance, PTL DEF Spec

-----------------------------------------------------------------------------
(* Priority inheritance.                                                   *)

\* w waits on a mutex that t owns.
Behind(w, t) == \E m \in Mutexes : owner[m] = t /\ WaitsFor(w, "MUTEX", m)

\* The effective priority of t is its own or that of a task behind it.
Reached(t) ==
  \/ effective_priority[t] = base_priority[t]
  \/ \E w \in Tasks : Behind(w, t) /\ effective_priority[t] = effective_priority[w]

\* The effective priority of t is what PriorityInheritanceExact asks for.
Fitting(t) ==
  /\ effective_priority[t] <= base_priority[t]
  /\ \A w \in Tasks : Behind(w, t) => effective_priority[t] <= effective_priority[w]
  /\ Reached(t)

\* task_raise_priority is about to be called for t: a task behind it has come
\* to raise_prio, and t fits but for that.
Raising(t) ==
  /\ \E w \in Tasks : Behind(w, t) /\ effective_priority[w] = raise_prio
  /\ effective_priority[t] <= base_priority[t]
  /\ \A w \in Tasks : Behind(w, t) =>
       \/ effective_priority[t] <= effective_priority[w]
       \/ raise_prio <= effective_priority[w]
  /\ Reached(t) \/ effective_priority[t] > raise_prio

Inherit ==
  \A t \in Tasks : IF mode = "raise" /\ raise_task = t THEN Raising(t) ELSE Fitting(t)

\* A step that keeps the priorities of a task and of those behind it.
LEMMA FitsStill ==
  ASSUME NEW t \in Tasks, Fitting(t),
         base_priority'[t] = base_priority[t],
         effective_priority'[t] = effective_priority[t],
         \A w \in Tasks : Behind(w, t)' <=> Behind(w, t),
         \A w \in Tasks : Behind(w, t) =>
                            effective_priority'[w] = effective_priority[w]
  PROVE  Fitting(t)'
  BY DEF Fitting, Reached

\* A task waits on at most one mutex.
LEMMA OneMutex ==
  \A t \in Tasks, m, k \in Mutexes :
    WaitsFor(t, "MUTEX", m) /\ WaitsFor(t, "MUTEX", k) => m = k
  BY DEF WaitsFor

\* task_raise_priority hands the raise on to the owner that the raised task
\* waits for.
LEMMA RaiseInherits ==
  ASSUME IInv, WaitsForAnother, Inherit, TaskRaisePriority
  PROVE  Inherit'
<1>t. /\ effective_priority \in [Tasks -> Nat] /\ base_priority \in [Tasks -> Nat]
      /\ raise_prio \in Nat /\ raise_task \in Tasks \cup {None}
      /\ owner \in [Mutexes -> Tasks \cup {None}]
  BY Constants DEF IInv, TypeOK
<1>1. PICK t \in Tasks : t = raise_task
  BY <1>t DEF TaskRaisePriority
<1>2. /\ mode = "raise" /\ mode' = "raise" /\ effective_priority[t] > raise_prio
      /\ effective_priority' = [effective_priority EXCEPT ![t] = raise_prio]
      /\ UNCHANGED <<state, base_priority, waiting_on, waiting_on_type, owner,
                     raise_prio>>
  BY <1>1 DEF TaskRaisePriority, Outranked
<1>3. \A w, u \in Tasks : Behind(w, u)' <=> Behind(w, u)
  BY <1>2 DEF Behind, WaitsFor
<1>4. /\ effective_priority'[t] = raise_prio
      /\ \A u \in Tasks \ {t} : effective_priority'[u] = effective_priority[u]
  BY <1>t, <1>2
<1>5. Raising(t) /\ \A u \in Tasks \ {t} : Fitting(u)
  BY <1>1, <1>2 DEF Inherit
<1>6. ~Behind(t, t)
  BY DEF Behind, WaitsForAnother
<1>7. Fitting(t)'
  <2>1. PICK w \in Tasks : Behind(w, t) /\ effective_priority[w] = raise_prio
    BY <1>5 DEF Raising
  <2>2. w # t
    BY <1>6, <2>1
  <2>3. Reached(t)'
    BY <1>3, <1>4, <2>1, <2>2 DEF Reached
  <2>4. effective_priority'[t] <= base_priority'[t]
    BY <1>t, <1>2, <1>4, <1>5 DEF Raising
  <2>5. ASSUME NEW v \in Tasks, Behind(v, t)
        PROVE  effective_priority'[t] <= effective_priority'[v]
    <3>1. v # t
      BY <1>6, <2>5
    <3>2. \/ effective_priority[t] <= effective_priority[v]
          \/ raise_prio <= effective_priority[v]
      BY <1>5, <2>5 DEF Raising
    <3> QED
      BY <1>t, <1>2, <1>4, <3>1, <3>2
  <2> QED
    BY <1>3, <2>3, <2>4, <2>5 DEF Fitting
<1>8. ASSUME NEW u \in Tasks, u # t, ~Behind(t, u)
      PROVE  Fitting(u)'
  <2>1. \A w \in Tasks : Behind(w, u) =>
                           effective_priority'[w] = effective_priority[w]
    BY <1>4, <1>8
  <2>2. Fitting(u) /\ base_priority'[u] = base_priority[u]
        /\ effective_priority'[u] = effective_priority[u]
        /\ \A w \in Tasks : Behind(w, u)' <=> Behind(w, u)
    BY <1>2, <1>3, <1>4, <1>5, <1>8
  <2> QED
    BY <2>1, <2>2, FitsStill
<1>9. ASSUME NEW u \in Tasks, Behind(t, u)
      PROVE  Raising(u)'
  <2>0. u # t /\ Fitting(u)
    BY <1>5, <1>6, <1>9
  <2>1. \E w \in Tasks : Behind(w, u)' /\ effective_priority'[w] = raise_prio'
    BY <1>2, <1>3, <1>4, <1>9
  <2>2. effective_priority'[u] <= base_priority'[u]
    BY <1>2, <1>4, <2>0 DEF Fitting
  <2>3. ASSUME NEW w \in Tasks, Behind(w, u)
        PROVE  \/ effective_priority'[u] <= effective_priority'[w]
               \/ raise_prio' <= effective_priority'[w]
    <3>1. CASE w = t
      BY <1>t, <1>2, <1>4, <3>1
    <3>2. CASE w # t
      BY <1>4, <2>0, <2>3, <3>2 DEF Fitting
    <3> QED
      BY <3>1, <3>2
  <2>4. Reached(u)' \/ effective_priority'[u] > raise_prio'
    <3>1. CASE effective_priority[u] = base_priority[u]
      BY <1>2, <1>4, <2>0, <3>1 DEF Reached
    <3>2. ASSUME NEW w \in Tasks, Behind(w, u),
                 effective_priority[u] = effective_priority[w]
          PROVE  Reached(u)' \/ effective_priority'[u] > raise_prio'
      <4>1. CASE w = t
        BY <1>2, <1>4, <2>0, <3>2, <4>1
      <4>2. CASE w # t
        BY <1>3, <1>4, <2>0, <3>2, <4>2 DEF Reached
      <4> QED
        BY <4>1, <4>2
    <3> QED
      BY <2>0, <3>1, <3>2 DEF Fitting, Reached
  <2> QED
    BY <1>3, <2>1, <2>2, <2>3, <2>4 DEF Raising
<1>10. \A u \in Tasks : raise_task' = u <=> Behind(t, u)
  <2>1. CASE state[t] = "BLOCKED" /\ waiting_on_type[t] = "MUTEX"
    <3>1. PICK m \in Mutexes : m = waiting_on[t]
      BY <2>1 DEF IInv, TypeOK
    <3>2. WaitsFor(t, "MUTEX", m) /\ raise_task' = owner[m]
      BY <1>1, <2>1, <3>1 DEF WaitsFor, TaskRaisePriority
    <3> QED
      BY <3>2, OneMutex DEF Behind
  <2>2. CASE ~(state[t] = "BLOCKED" /\ waiting_on_type[t] = "MUTEX")
    <3>1. raise_task' = None
      BY <1>1, <2>2 DEF TaskRaisePriority
    <3> QED
      BY <2>2, <3>1, Constants DEF Behind, WaitsFor
  <2> QED
    BY <2>1, <2>2
<1>11. \A u \in Tasks : IF mode' = "raise" /\ raise_task' = u
                        THEN Raising(u)' ELSE Fitting(u)'
  BY <1>2, <1>7, <1>8, <1>9, <1>10
<1> QED
  BY <1>11 DEF Inherit

\* mutex_unlock by a task that owns no second mutex.
LEMMA UnlockInherits ==
  ASSUME IInv, QueuesSorted, OwnedLists, WaitsForAnother, Inherit,
         current_task \in Tasks, state[current_task] \in {"RUNNING", "FINISHED"},
         mode # "raise", mode' # "raise",
         NEW m \in Mutexes, owner[m] = current_task, MutexUnlock(m)
  PROVE  Inherit'
<1>t. /\ effective_priority \in [Tasks -> Nat] /\ base_priority \in [Tasks -> Nat]
      /\ owner \in [Mutexes -> Tasks \cup {None}]
      /\ state \in [Tasks -> States]
      /\ waiting_on \in [Tasks -> Nat]
      /\ waiting_on_type \in [Tasks -> {"NONE", "SEM", "MUTEX"}]
  BY Constants DEF IInv, TypeOK
<1>1. PICK c \in Tasks : c = current_task
  OBVIOUS
<1>2. /\ base_priority' = base_priority
      /\ effective_priority'[c] = base_priority[c]
  BY <1>1, UnlockAlone DEF MutexUnlock
<1>3. \A k \in Mutexes : ~WaitsFor(c, "MUTEX", k)
  BY <1>1 DEF WaitsFor
<1>4. \A t \in Tasks : Fitting(t)
  BY DEF Inherit
<1>5. \A k \in Mutexes : owner[k] = c <=> k = m
  BY <1>1 DEF OwnedLists
<1>6. ASSUME \A w \in Tasks : ~Behind(w, c)'
      PROVE  Fitting(c)'
  BY <1>t, <1>2, <1>6 DEF Fitting, Reached
<1>7. CASE /\ \A w \in Tasks : ~WaitsFor(w, "MUTEX", m)
           /\ UNCHANGED <<state, waiting_on, waiting_on_type>>
           /\ owner' = [owner EXCEPT ![m] = None]
           /\ \A t \in Tasks \ {c} : effective_priority'[t] = effective_priority[t]
  <2>1. \A w, t \in Tasks : Behind(w, t)' <=> Behind(w, t)
    BY <1>t, <1>7, Constants DEF Behind, WaitsFor
  <2>2. \A w \in Tasks : ~Behind(w, c)
    BY <1>5, <1>7 DEF Behind
  <2>3. ASSUME NEW t \in Tasks, t # c
        PROVE  Fitting(t)'
    <3>1. \A w \in Tasks : Behind(w, t) =>
                             effective_priority'[w] = effective_priority[w]
      BY <1>3, <1>7 DEF Behind
    <3>2. /\ Fitting(t) /\ base_priority'[t] = base_priority[t]
          /\ effective_priority'[t] = effective_priority[t]
      BY <1>2, <1>4, <1>7, <2>3
    <3> QED
      BY <2>1, <3>1, <3>2, FitsStill
  <2> QED
    BY <1>6, <2>1, <2>2, <2>3 DEF Inherit
<1>8. ASSUME NEW n \in Tasks, n # c, WaitsFor(n, "MUTEX", m),
             owner' = [owner EXCEPT ![m] = n],
             state' = [state EXCEPT ![n] = "READY"],
             waiting_on' = [waiting_on EXCEPT ![n] = None],
             waiting_on_type' = [waiting_on_type EXCEPT ![n] = "NONE"],
             \A t \in Tasks \ {c, n} : effective_priority'[t] = effective_priority[t],
             effective_priority'[n] <= base_priority[n],
             \A w \in Tasks : WaitsFor(w, "MUTEX", m) /\ w # n =>
               effective_priority'[n] <= effective_priority[w],
             \/ effective_priority'[n] = base_priority[n]
             \/ \E w \in Tasks : /\ WaitsFor(w, "MUTEX", m) /\ w # n
                                 /\ effective_priority'[n] = effective_priority[w]
      PROVE  Inherit'
  <2>1. \A w \in Tasks, k \in Mutexes :
          WaitsFor(w, "MUTEX", k)' <=> WaitsFor(w, "MUTEX", k) /\ w # n
    BY <1>t, <1>8 DEF WaitsFor
  <2>2. \A k \in Mutexes : owner[k] # n
    BY <1>8 DEF OwnedLists
  <2>3. \A k \in Mutexes : owner'[k] = IF k = m THEN n ELSE owner[k]
    BY <1>t, <1>8
  <2>4. \A w \in Tasks : ~Behind(w, c)'
    BY <1>5, <1>8, <2>3 DEF Behind
  <2>5. \A w \in Tasks : Behind(w, n)' <=> WaitsFor(w, "MUTEX", m) /\ w # n
    BY <2>1, <2>2, <2>3 DEF Behind
  <2>6. Fitting(n)'
    <3>1. \A w \in Tasks : WaitsFor(w, "MUTEX", m) /\ w # n =>
                             effective_priority'[w] = effective_priority[w]
      BY <1>3, <1>8
    <3>2. \A w \in Tasks : Behind(w, n)' =>
                             effective_priority'[n] <= effective_priority'[w]
      BY <1>8, <2>5, <3>1
    <3>3. Reached(n)'
      BY <1>2, <1>8, <2>5, <3>1 DEF Reached
    <3> QED
      BY <1>2, <1>8, <3>2, <3>3 DEF Fitting
  <2>7. ASSUME NEW t \in Tasks, t # c, t # n
        PROVE  Fitting(t)'
    <3>1. \A w \in Tasks : Behind(w, t) => w # n /\ w # c
      BY <1>1, <1>3, <1>8, <2>7, OneMutex DEF Behind
    <3>2. \A w \in Tasks : Behind(w, t)' <=> Behind(w, t)
      <4>1. owner[m] # t
        BY <1>1, <2>7
      <4> QED
        BY <2>1, <2>3, <2>7, <3>1, <4>1 DEF Behind
    <3>3. /\ Fitting(t) /\ base_priority'[t] = base_priority[t]
          /\ effective_priority'[t] = effective_priority[t]
          /\ \A w \in Tasks : Behind(w, t) =>
                                effective_priority'[w] = effective_priority[w]
      BY <1>2, <1>4, <1>8, <2>7, <3>1
    <3> QED
      BY <3>2, <3>3, FitsStill
  <2> QED
    BY <1>6, <2>4, <2>6, <2>7 DEF Inherit
<1> QED
  BY <1>1, <1>7, <1>8, UnlockAlone

\* Every step of programs with the discipline.
LEMMA InheritStep ==
  ASSUME Disciplined, IInv, QueuesSorted, OwnInv, Inherit, [Next]_vars
  PROVE  Inherit'
<1>t. /\ effective_priority \in [Tasks -> Nat] /\ base_priority \in [Tasks -> Nat]
      /\ owner \in [Mutexes -> Tasks \cup {None}]
      /\ state \in [Tasks -> States]
      /\ waiting_on \in [Tasks -> Nat]
      /\ waiting_on_type \in [Tasks -> {"NONE", "SEM", "MUTEX"}]
  BY Constants DEF IInv, TypeOK
<1>n. /\ Nesting = FALSE => OwnedLists
      /\ KeepsAll => NobodyExits
      /\ OwnersLive /\ WaitsForAnother
  BY DEF OwnInv
<1>1. ASSUME UNCHANGED <<base_priority, effective_priority>>,
             \A w, t \in Tasks : Behind(w, t)' <=> Behind(w, t),
             mode # "raise", mode' # "raise"
      PROVE  Inherit'
  <2>1. \A t \in Tasks : Fitting(t)
    BY <1>1 DEF Inherit
  <2>2. \A t \in Tasks : Fitting(t)'
    BY <1>1, <2>1, FitsStill
  <2> QED
    BY <1>1, <2>2 DEF Inherit
<1>2. CASE Quiet
  <2>1. /\ UNCHANGED <<base_priority, effective_priority, raise_task, raise_prio>>
        /\ mode' = "raise" <=> mode = "raise"
    BY <1>2 DEF Quiet
  <2>2. \A w, t \in Tasks : Behind(w, t)' <=> Behind(w, t)
    BY <1>2 DEF Quiet, Behind
  <2>3. \A t \in Tasks : Fitting(t) => Fitting(t)'
    BY <2>1, <2>2, FitsStill
  <2>4. \A t \in Tasks : Raising(t) => Raising(t)'
    BY <2>1, <2>2 DEF Raising, Reached
  <2> QED
    BY <2>1, <2>3, <2>4 DEF Inherit
<1>3. CASE BootTask \/ SysTaskCreate
  <2>1. PICK p \in Prios : CreateTask(p)
    <3>1. CASE BootTask
      BY <3>1, BootType DEF BootTask, IInv, TypeOK
    <3>2. CASE SysTaskCreate
      BY <3>2, UseAssumption DEF SysTaskCreate
    <3> QED
      BY <1>3, <3>1, <3>2
  <2>2. mode = "thread" /\ mode' = mode /\ owner' = owner
    BY <1>3, <2>1 DEF BootTask, SysTaskCreate, Calls, CreateTask, IInv, BootPhase
  <2>3. PICK t \in Tasks :
          /\ state[t] \in {"UNUSED", "FINISHED"}
          /\ state' = [state EXCEPT ![t] = "READY"]
          /\ base_priority' = [base_priority EXCEPT ![t] = p]
          /\ effective_priority' = [effective_priority EXCEPT ![t] = p]
          /\ waiting_on_type' = [waiting_on_type EXCEPT ![t] = "NONE"]
          /\ waiting_on' = [waiting_on EXCEPT ![t] = None]
    BY <2>1, CreateFacts
  <2>4. \A m \in Mutexes : owner[m] # t
    BY <1>n, <2>2, <2>3, Constants DEF OwnersLive
  <2>5. \A u \in Tasks, m \in Mutexes :
          WaitsFor(u, "MUTEX", m)' <=> WaitsFor(u, "MUTEX", m)
    BY <1>t, <2>3 DEF WaitsFor
  <2>6. /\ \A w, u \in Tasks : Behind(w, u)' <=> Behind(w, u)
        /\ \A w \in Tasks : ~Behind(w, t) /\ ~Behind(t, w)
    BY <2>2, <2>3, <2>4, <2>5 DEF Behind, WaitsFor
  <2>7. Fitting(t)'
    BY <1>t, <2>3, <2>6, Constants DEF Fitting, Reached
  <2>8. ASSUME NEW u \in Tasks, u # t
        PROVE  Fitting(u)'
    <3>1. /\ Fitting(u) /\ base_priority'[u] = base_priority[u]
          /\ effective_priority'[u] = effective_priority[u]
          /\ \A w \in Tasks : Behind(w, u) =>
                                effective_priority'[w] = effective_priority[w]
      BY <1>t, <2>2, <2>3, <2>6, <2>8 DEF Inherit
    <3> QED
      BY <2>6, <3>1, FitsStill
  <2> QED
    BY <2>2, <2>7, <2>8 DEF Inherit
<1>4. ASSUME NEW m \in Mutexes, SysMutexTake(m)
      PROVE  Inherit'
  <2>1. /\ owner[m] = None /\ owner' = [owner EXCEPT ![m] = current_task]
        /\ UNCHANGED <<state, waitVars, prioVars, mode>> /\ mode = "thread"
    BY <1>4 DEF SysMutexTake, Calls
  <2>2. \A w \in Tasks : ~WaitsFor(w, "MUTEX", m)
    BY <1>n, <2>1, Constants DEF WaitsForAnother
  <2>3. \A w, t \in Tasks : Behind(w, t)' <=> Behind(w, t)
    BY <1>t, <2>1, <2>2 DEF Behind, WaitsFor
  <2> QED
    BY <1>1, <2>1, <2>3
<1>5. ASSUME NEW m \in Mutexes, SysMutexBlock(m)
      PROVE  Inherit'
  <2>1. PICK c \in Tasks : c = current_task /\ state[c] = "RUNNING"
    BY <1>5, CallerFacts DEF SysMutexBlock
  <2>2. PICK o \in Tasks : o = owner[m] /\ o # c
    BY <1>5, <1>t, <2>1 DEF SysMutexBlock
  <2>3. /\ mode = "thread" /\ mode' = "raise" /\ raise_task' = o
        /\ raise_prio' = effective_priority[c]
        /\ UNCHANGED <<owner, prioVars>>
        /\ state' = [state EXCEPT ![c] = "BLOCKED"]
        /\ waiting_on' = [waiting_on EXCEPT ![c] = m]
        /\ waiting_on_type' = [waiting_on_type EXCEPT ![c] = "MUTEX"]
    BY <1>5, <2>1, <2>2 DEF SysMutexBlock, Calls
  <2>4. \A w \in Tasks, k \in Mutexes :
          WaitsFor(w, "MUTEX", k)' <=> WaitsFor(w, "MUTEX", k) \/ (w = c /\ k = m)
    BY <1>t, <2>1, <2>3 DEF WaitsFor
  <2>5. \A w, t \in Tasks : Behind(w, t)' <=> Behind(w, t) \/ (w = c /\ t = o)
    BY <2>2, <2>3, <2>4 DEF Behind
  <2>6. \A t \in Tasks : Fitting(t)
    BY <2>3 DEF Inherit
  <2>7. Raising(o)'
    <3>1. Reached(o)'
      BY <2>3, <2>5, <2>6 DEF Fitting, Reached
    <3>2. \E w \in Tasks : Behind(w, o)' /\ effective_priority'[w] = raise_prio'
      BY <2>3, <2>5
    <3>3. effective_priority'[o] <= base_priority'[o]
      BY <2>3, <2>6 DEF Fitting
    <3>4. ASSUME NEW w \in Tasks, Behind(w, o)'
          PROVE  \/ effective_priority'[o] <= effective_priority'[w]
                 \/ raise_prio' <= effective_priority'[w]
      BY <1>t, <2>3, <2>5, <2>6, <3>4 DEF Fitting
    <3> QED
      BY <3>1, <3>2, <3>3, <3>4 DEF Raising
  <2>8. ASSUME NEW t \in Tasks, t # o
        PROVE  Fitting(t)'
    <3>1. \A w \in Tasks : Behind(w, t)' <=> Behind(w, t)
      BY <2>5, <2>8
    <3> QED
      BY <2>3, <2>6, <3>1, FitsStill
  <2> QED
    BY <2>3, <2>7, <2>8 DEF Inherit
<1>6. CASE TaskRaisePriority
  BY <1>6, <1>n, RaiseInherits
<1>7. CASE RaiseDone
  <2>1. /\ mode = "raise" /\ mode' = "svc"
        /\ raise_task # None => ~(effective_priority[raise_task] > raise_prio)
        /\ UNCHANGED <<owner, prioVars, state, waitVars>>
    BY <1>7 DEF RaiseDone, Outranked
  <2>2. \A w, t \in Tasks : Behind(w, t)' <=> Behind(w, t)
    BY <2>1 DEF Behind, WaitsFor
  <2>3. ASSUME NEW t \in Tasks, Raising(t), t = raise_task
        PROVE  Fitting(t)
    <3>0. raise_prio \in Nat /\ effective_priority[t] \in Nat
      BY <1>t, Constants DEF IInv, TypeOK
    <3>1. effective_priority[t] <= raise_prio
      BY <2>1, <2>3, <3>0, Constants
    <3> QED
      BY <1>t, <2>3, <3>0, <3>1 DEF Raising, Fitting
  <2>4. \A t \in Tasks : Fitting(t)
    BY <2>1, <2>3 DEF Inherit
  <2>5. \A t \in Tasks : Fitting(t)'
    BY <2>1, <2>2, <2>4, FitsStill
  <2> QED
    BY <2>1, <2>5 DEF Inherit
<1>8. ASSUME NEW m \in Mutexes, SysMutexUnlock(m)
      PROVE  Inherit'
  <2>1. OwnedLists
    BY <1>8, <1>n DEF SysMutexUnlock, Calls, KeepsAll, Disciplined
  <2>2. current_task \in Tasks /\ state[current_task] = "RUNNING"
    BY <1>8, CallerFacts DEF SysMutexUnlock
  <2>3. /\ mode # "raise" /\ mode' # "raise"
        /\ owner[m] = current_task /\ MutexUnlock(m)
    BY <1>8 DEF SysMutexUnlock, Calls
  <2> QED
    BY <1>n, <2>1, <2>2, <2>3, UnlockInherits
<1>9. CASE SysTaskExit
  <2>1. PICK c \in Tasks : c = current_task /\ state[c] = "RUNNING"
    BY <1>9, CallerFacts DEF SysTaskExit
  <2>2. /\ mode = "thread" /\ mode' = "exit"
        /\ state' = [state EXCEPT ![c] = "FINISHED"]
        /\ UNCHANGED <<owner, prioVars, waitVars>>
    BY <1>9, <2>1 DEF SysTaskExit, Calls
  <2>3. \A w, t \in Tasks : Behind(w, t)' <=> Behind(w, t)
    BY <1>t, <2>1, <2>2 DEF Behind, WaitsFor
  <2> QED
    BY <1>1, <2>2, <2>3
<1>10. CASE ExitUnlock
  <2>1. /\ mode = "exit" /\ mode' # "raise" /\ exit_mutex \in Mutexes
        /\ owner[exit_mutex] = current_task /\ MutexUnlock(exit_mutex)
    BY <1>10 DEF ExitUnlock, IInv, TypeOK
  <2>2. OwnedLists
    BY <1>n, <2>1 DEF NobodyExits, Disciplined
  <2>3. current_task \in Tasks /\ state[current_task] = "FINISHED"
    BY <2>1, CallerFacts
  <2> QED
    BY <1>n, <2>1, <2>2, <2>3, UnlockInherits
<1>11. CASE ExitSkip \/ ExitDone
  <2>1. /\ mode # "raise" /\ mode' # "raise"
        /\ UNCHANGED <<owner, prioVars, state, waitVars>>
    BY <1>11 DEF ExitSkip, ExitDone
  <2>2. \A w, t \in Tasks : Behind(w, t)' <=> Behind(w, t)
    BY <2>1 DEF Behind, WaitsFor
  <2> QED
    BY <1>1, <2>1, <2>2
<1> QED
  BY <1>2, <1>3, <1>4, <1>5, <1>6, <1>7, <1>8, <1>9, <1>10, <1>11, QuietStep DEF Loud

\* The two views of the waiters agree when every task is on its list.
LEMMA InheritIsExact ==
  ASSUME IInv, Inherit
  PROVE  PriorityInheritanceExact
<1> SUFFICES ASSUME mode # "raise", NEW t \in Tasks
             PROVE  LET claims == {base_priority[t]} \cup
                                  {effective_priority[w] : w \in Waiters(t)}
                    IN /\ effective_priority[t] \in claims
                       /\ \A p \in claims : effective_priority[t] <= p
  BY DEF PriorityInheritanceExact
<1>1. Fitting(t)
  BY DEF Inherit
<1>2. \A w \in Tasks : Behind(w, t) <=> w \in Waiters(t)
  BY QueueFacts DEF Behind, Waiters
<1>3. Waiters(t) \subseteq Tasks
  BY DEF Waiters
<1> QED
  BY <1>1, <1>2, <1>3 DEF Fitting, Reached

\* The invariant of everything about priorities.
PInv == QueuesSorted /\ OwnInv /\ Inherit

\* Nothing is queued or owned at boot.
LEMMA InitPInv ==
  ASSUME Init
  PROVE  PInv
<1>1. \A t \in Tasks : Fitting(t) /\ mode # "raise"
  BY DEF Init, Fitting, Reached, Behind, WaitsFor
<1> QED
  BY <1>1, InitOwn DEF PInv, Inherit

\* Each part is preserved with the help of the others.
LEMMA StepPInv ==
  ASSUME Disciplined, IInv, PInv, [Next]_vars
  PROVE  PInv'
  BY SortedStep, OwnStep, InheritStep DEF PInv

\* Priority inheritance is exact, also along chains of owners: for programs in
\* which no task locks a second mutex, and for programs that nest locks and
\* never give one up.  (A program that nests and unlocks breaks it: the lists
\* of owned mutexes lose entries.)
THEOREM InheritanceIsExact ==
  Disciplined => (Spec => []PriorityInheritanceExact)
<1> SUFFICES ASSUME Disciplined
             PROVE  Spec => []PriorityInheritanceExact
  OBVIOUS
<1>1. Init => PInv
  BY InitPInv
<1>2. IInv /\ PInv /\ [Next]_vars => PInv'
  BY StepPInv
<1>3. IInv /\ PInv => PriorityInheritanceExact
  BY InheritIsExact DEF PInv
<1> QED
  BY <1>1, <1>2, <1>3, Invariance, PTL DEF Spec

-----------------------------------------------------------------------------
(* Who executes.                                                           *)

\* Nobody who is ready outranks the task that executes, or the one that PendSV
\* is about to restore, once no tick and no request for a switch is left.
Urgent ==
  ~in_tick /\ ~pendsv =>
    /\ mode = "thread" /\ current_task # None =>
         \A t \in Tasks : state[t] = "READY" =>
           effective_priority[current_task] <= effective_priority[t]
    /\ mode = "selected" =>
         \A t \in Tasks : state[t] = "READY" =>
           effective_priority[next_task] <= effective_priority[t]

\* request_context_switch compares with the head of the ready queue, which
\* stands for the whole queue.
LEMMA RequestUrgent ==
  ASSUME IInv, QueuesSorted, RequestContextSwitch, ~pendsv'
  PROVE  /\ ~pendsv
         /\ \/ \A t \in Tasks : state[t] # "READY"
            \/ /\ current_task \in Tasks /\ state[current_task] = "RUNNING"
               /\ \A t \in Tasks : state[t] = "READY" =>
                    effective_priority[current_task] <= effective_priority[t]
<1>1. /\ ~pendsv
      /\ \/ ready_queue = <<>>
         \/ /\ current_task # None /\ state[current_task] = "RUNNING"
            /\ ready_queue # <<>>
            /\ effective_priority[Head(ready_queue)] > effective_priority[current_task]
  BY DEF RequestContextSwitch
<1>2. CASE ready_queue = <<>>
  BY <1>1, <1>2, QueueFacts DEF In
<1>3. CASE ready_queue # <<>>
  <2>1. /\ ready_queue \in Seq(Tasks) /\ effective_priority \in [Tasks -> Nat]
        /\ Sorted(ready_queue, effective_priority)
    BY QueueFacts DEF QueuesSorted
  <2>2. \A t : In(t, ready_queue) =>
          effective_priority[Head(ready_queue)] <= effective_priority[t]
    BY <1>3, <2>1, TailSorted
  <2>3. current_task \in Tasks /\ Head(ready_queue) \in Tasks
    BY <1>1, <1>3, <2>1 DEF IInv, TypeOK
  <2>4. \A t \in Tasks : state[t] = "READY" => In(t, ready_queue)
    BY QueueFacts
  <2> QED
    BY <1>1, <1>3, <2>1, <2>2, <2>3, <2>4
<1> QED
  BY <1>2, <1>3

\* mutex_unlock without a yield: a caller that keeps the processor had no
\* priority but its own to lose.
LEMMA UnlockUrgent ==
  ASSUME IInv, PInv, OwnedLists, Urgent, NEW m \in Mutexes, SysMutexUnlock(m),
         mode' = "thread"
  PROVE  Urgent'
<1>t. effective_priority \in [Tasks -> Nat] /\ base_priority \in [Tasks -> Nat]
      /\ owner \in [Mutexes -> Tasks \cup {None}]
      /\ state \in [Tasks -> States]
  BY Constants DEF IInv, TypeOK
<1>1. PICK c \in Tasks : c = current_task /\ state[c] = "RUNNING"
  BY CallerFacts DEF SysMutexUnlock
<1>2. /\ mode = "thread" /\ ~in_tick /\ ~pendsv /\ owner[m] = c /\ MutexUnlock(m)
      /\ UNCHANGED <<in_tick, pendsv, current_task>>
      /\ ~(owner'[m] # None /\ effective_priority'[owner'[m]] < effective_priority'[c])
  BY <1>1 DEF SysMutexUnlock, Calls, MutexUnlock, PInv
<1>3. /\ \A t \in Tasks : state[t] = "READY" =>
                            effective_priority[c] <= effective_priority[t]
      /\ Fitting(c)
  BY <1>1, <1>2, Constants DEF Urgent, PInv, Inherit
<1>4. \A w \in Tasks : Behind(w, c) => WaitsFor(w, "MUTEX", m)
  BY <1>1, <1>2 DEF Behind, OwnedLists
<1>5. effective_priority'[c] = base_priority[c]
  BY <1>1, <1>2, UnlockAlone DEF PInv
<1>6. SUFFICES \A t \in Tasks : state'[t] = "READY" =>
                 effective_priority'[c] <= effective_priority'[t]
  BY <1>1, <1>2 DEF Urgent
<1>7. CASE /\ \A w \in Tasks : ~WaitsFor(w, "MUTEX", m)
           /\ state' = state
           /\ \A t \in Tasks \ {c} : effective_priority'[t] = effective_priority[t]
  <2>1. effective_priority[c] = base_priority[c]
    BY <1>3, <1>4, <1>7 DEF Fitting, Reached
  <2> QED
    BY <1>1, <1>3, <1>5, <1>7, <2>1
<1>8. ASSUME NEW n \in Tasks, n # c, WaitsFor(n, "MUTEX", m),
             owner' = [owner EXCEPT ![m] = n],
             state' = [state EXCEPT ![n] = "READY"],
             \A t \in Tasks \ {c, n} : effective_priority'[t] = effective_priority[t],
             effective_priority'[n] <= base_priority[n],
             \A w \in Tasks : WaitsFor(w, "MUTEX", m) /\ w # n =>
               effective_priority'[n] <= effective_priority[w]
      PROVE  \A t \in Tasks : state'[t] = "READY" =>
               effective_priority'[c] <= effective_priority'[t]
  <2>1. effective_priority'[n] \in Nat /\ effective_priority'[c] \in Nat
    <3>1. effective_priority' \in [Tasks -> Prios]
      BY <1>1, <1>2, UnlockFacts
    <3> QED
      BY <3>1, Constants
  <2>2. effective_priority'[c] <= effective_priority'[n]
    <3>1. owner'[m] = n
      BY <1>t, <1>8
    <3>2. ~(effective_priority'[n] < effective_priority'[c])
      BY <1>2, <1>8, <3>1, Constants
    <3> QED
      BY <2>1, <3>2
  <2>3. effective_priority[n] = base_priority[n]
    <3>1. \A w \in Tasks : ~Behind(w, n)
      BY <1>8 DEF Behind, OwnedLists
    <3>2. Fitting(n)
      BY <1>2 DEF PInv, Inherit
    <3> QED
      BY <3>1, <3>2 DEF Fitting, Reached
  <2>4. effective_priority[c] = base_priority[c]
    <3>1. SUFFICES ASSUME NEW w \in Tasks, Behind(w, c),
                          effective_priority[c] = effective_priority[w]
                   PROVE  effective_priority[c] = base_priority[c]
      BY <1>3 DEF Fitting, Reached
    <3>2. effective_priority'[n] <= effective_priority[w]
      BY <1>4, <1>8, <2>3, <3>1
    <3>3. effective_priority[c] <= base_priority[c]
      BY <1>3 DEF Fitting
    <3> QED
      BY <1>t, <1>5, <2>1, <2>2, <3>1, <3>2, <3>3
  <2>5. ASSUME NEW t \in Tasks, state'[t] = "READY"
        PROVE  effective_priority'[c] <= effective_priority'[t]
    <3>1. CASE t = n
      BY <2>2, <3>1
    <3>2. CASE t # n
      <4>1. state[t] = "READY" /\ t # c
        BY <1>t, <1>1, <1>8, <2>5, <3>2
      <4> QED
        BY <1>3, <1>5, <1>8, <2>4, <3>2, <4>1
    <3> QED
      BY <3>1, <3>2
  <2> QED
    BY <2>5
<1> QED
  BY <1>1, <1>2, <1>7, <1>8, UnlockAlone DEF PInv

\* Every step, but for the two that wake a task and ask for no switch: the
\* console interrupt and SYS_TASK_CREATE.
LEMMA UrgentStep ==
  ASSUME Disciplined, RxInterrupts = FALSE, "task_create" \notin Syscalls,
         IInv, PInv, Urgent, [Next]_vars
  PROVE  Urgent'
<1>1. ASSUME in_tick' = TRUE \/ mode' \notin {"thread", "selected"}
      PROVE  Urgent'
  BY <1>1 DEF Urgent
<1>2. ASSUME UNCHANGED <<state, effective_priority, mode, in_tick, pendsv,
                         current_task, next_task>>
      PROVE  Urgent'
  BY <1>2 DEF Urgent
<1>3. CASE BootTask
  <2>1. mode = "thread" /\ current_task = None
    BY <1>3, BootAssumption DEF BootTask, IInv, BootPhase, TypeOK
  <2>2. mode' = "thread" /\ current_task' = None
    BY <1>3, <2>1 DEF BootTask, CreateTask
  <2> QED
    BY <2>2 DEF Urgent
<1>4. CASE SvcTail
  <2>1. /\ mode' = "thread" /\ RequestContextSwitch
        /\ UNCHANGED <<state, effective_priority, current_task>>
    BY <1>4 DEF SvcTail
  <2> QED
    BY <2>1, RequestUrgent DEF Urgent, PInv
<1>5. CASE SysTickDone
  <2>1. /\ RequestContextSwitch
        /\ UNCHANGED <<state, effective_priority, current_task, next_task, mode>>
    BY <1>5 DEF SysTickDone
  <2>2. mode = "selected" /\ current_task \in Tasks /\ state[current_task] = "RUNNING"
          => current_task = next_task
    BY DEF IInv, RunningPhase
  <2> QED
    BY <2>1, <2>2, RequestUrgent DEF Urgent, PInv
<1>6. ASSUME NEW m \in Mutexes, SysMutexUnlock(m)
      PROVE  Urgent'
  <2>1. OwnedLists
    BY <1>6 DEF SysMutexUnlock, Calls, KeepsAll, Disciplined, PInv, OwnInv
  <2>2. mode' = "thread" \/ mode' = "svc"
    BY <1>6 DEF SysMutexUnlock
  <2> QED
    BY <1>1, <1>6, <2>1, <2>2, UnlockUrgent
<1>7. CASE SchedulerSelectNext
  <2> DEFINE rq == IF PutCurrent(state)
                   THEN Reorder(ready_queue, current_task, effective_priority)
                   ELSE ready_queue
  <2>1. PutCurrent(state) => current_task \in Tasks
    BY DEF PutCurrent, IInv, TypeOK
  <2>2. /\ rq \in Seq(Tasks) /\ Sorted(rq, effective_priority)
        /\ \A u \in Tasks : In(u, rq) <=>
             In(u, ready_queue) \/ (u = current_task /\ PutCurrent(state))
    BY <2>1, QueueFacts, ReorderProperties, ReorderSorted DEF QueuesSorted, PInv
  <2>3. PICK n \in Tasks :
          /\ In(n, ready_queue) \/ (n = current_task /\ PutCurrent(state))
          /\ state'[n] = "RUNNING"
          /\ \A t \in Tasks \ {n} :
               state'[t] = IF t = current_task /\ PutCurrent(state)
                           THEN "READY" ELSE state[t]
    BY <1>7, SelectFacts
  <2>4. /\ rq # <<>> => next_task' = Head(rq)
        /\ mode' = "selected" /\ effective_priority' = effective_priority
    BY <1>7 DEF SchedulerSelectNext
  <2> HIDE DEF rq
  <2>5. rq # <<>>
    BY <2>2, <2>3 DEF In
  <2>6. \A t : In(t, rq) => effective_priority[Head(rq)] <= effective_priority[t]
    BY <2>2, <2>5, QueueFacts, TailSorted
  <2>7. \A t \in Tasks : state'[t] = "READY" => In(t, rq)
    BY <2>2, <2>3, QueueFacts
  <2> QED
    BY <2>4, <2>5, <2>6, <2>7 DEF Urgent
<1>8. CASE RestoreTask
  <2>1. /\ mode = "selected" /\ ~in_tick /\ mode' = "thread"
        /\ current_task' = next_task
        /\ UNCHANGED <<state, effective_priority, in_tick, pendsv>>
    BY <1>8 DEF RestoreTask
  <2> QED
    BY <2>1 DEF Urgent
<1>9. ASSUME NEW s \in Sems,
             SysSemTake(s) \/ SysSemBlock(s) \/ SysSemPost(s) \/ SysSemClose(s)
      PROVE  Urgent'
  BY <1>1, <1>2, <1>9 DEF SysSemTake, SysSemBlock, SysSemPost, SysSemClose
<1>10. ASSUME NEW m \in Mutexes, SysMutexTake(m) \/ SysMutexBlock(m)
       PROVE  Urgent'
  BY <1>1, <1>2, <1>10 DEF SysMutexTake, SysMutexBlock
<1>11. CASE TaskRaisePriority \/ RaiseDone \/ SysTaskExit \/ ExitUnlock
            \/ ExitSkip \/ ExitDone
  BY <1>1, <1>11 DEF TaskRaisePriority, RaiseDone, SysTaskExit, ExitUnlock,
                     ExitSkip, ExitDone
<1>12. CASE SysYield \/ SysSemCreate \/ SysSleep \/ SysTick \/ SleepTick
            \/ PendSvEnter \/ UNCHANGED vars
  BY <1>1, <1>2, <1>12 DEF SysYield, SysSemCreate, SysSleep, SysTick, SleepTick,
                           PendSvEnter, vars
<1>13. ~UsartReceive /\ ~SysTaskCreate
  BY DEF UsartReceive, SysTaskCreate, Calls
<1> QED
  BY <1>3, <1>4, <1>5, <1>6, <1>7, <1>8, <1>9, <1>10, <1>11, <1>12, <1>13 DEF Next

\* No ready task is more urgent than the one that executes, for programs with
\* the discipline, as long as no byte arrives and no task is created: neither
\* the interrupt's semaphore_post nor SYS_TASK_CREATE asks for a switch.
THEOREM MostUrgentExecutes ==
  Disciplined /\ RxInterrupts = FALSE /\ "task_create" \notin Syscalls
    => (Spec => []MostUrgentTaskExecutes)
<1> SUFFICES ASSUME Disciplined, RxInterrupts = FALSE, "task_create" \notin Syscalls
             PROVE  Spec => []MostUrgentTaskExecutes
  OBVIOUS
<1>1. Init => PInv /\ Urgent
  BY InitPInv DEF Init, Urgent
<1>2. IInv /\ PInv /\ Urgent /\ [Next]_vars => PInv' /\ Urgent'
  BY StepPInv, UrgentStep
<1>3. IInv /\ Urgent => MostUrgentTaskExecutes
  <2>1. IInv => /\ current_task \in Tasks \cup {None}
                /\ effective_priority \in [Tasks -> Nat]
    BY Constants DEF IInv, TypeOK
  <2> QED
    BY <2>1 DEF Urgent, MostUrgentTaskExecutes, Executing
<1> QED
  BY <1>1, <1>2, <1>3, Invariance, PTL DEF Spec

-----------------------------------------------------------------------------
(* Sleeping.                                                               *)

\* A step that has nothing to do with sleepers.
Undisturbed ==
  /\ \A t \in Tasks : state'[t] = "SLEEPING" <=> state[t] = "SLEEPING"
  /\ \A t \in Tasks : state[t] = "SLEEPING" => wake_tick'[t] = wake_tick[t]
  /\ UNCHANGED <<sleep_list, system_ticks, in_tick>>

\* Only sleep_for_ticks and the handler of SysTick have to do with them.
LEMMA SleepersStep ==
  ASSUME IInv, [Next]_vars
  PROVE  SysSleep \/ SysTick \/ SleepTick \/ SysTickDone \/ Undisturbed
<1>t. state \in [Tasks -> States] /\ wake_tick \in [Tasks -> 0..(TickMod - 1)]
  BY DEF IInv, TypeOK
<1>1. ASSUME UNCHANGED <<state, wake_tick, sleep_list, system_ticks, in_tick>>
      PROVE  Undisturbed
  BY <1>1 DEF Undisturbed
<1>2. ASSUME UNCHANGED <<wake_tick, sleep_list, system_ticks, in_tick>>,
             NEW t \in Tasks, state[t] # "SLEEPING", NEW x, x # "SLEEPING",
             state' = [state EXCEPT ![t] = x]
      PROVE  Undisturbed
  BY <1>t, <1>2 DEF Undisturbed
<1>3. CASE BootTask \/ SysTaskCreate
  <2>1. PICK p \in Prios : CreateTask(p)
    <3>1. CASE BootTask
      BY <3>1, BootType DEF BootTask, IInv, TypeOK
    <3>2. CASE SysTaskCreate
      BY <3>2, UseAssumption DEF SysTaskCreate
    <3> QED
      BY <1>3, <3>1, <3>2
  <2>2. PICK t \in Tasks :
          /\ state[t] \in {"UNUSED", "FINISHED"}
          /\ state' = [state EXCEPT ![t] = "READY"]
          /\ wake_tick' = [wake_tick EXCEPT ![t] = 0]
    BY <2>1, CreateFacts
  <2>3. UNCHANGED <<sleep_list, system_ticks, in_tick>>
    BY <2>1 DEF CreateTask
  <2> QED
    BY <1>t, <2>2, <2>3 DEF Undisturbed
<1>4. ASSUME NEW s \in Sems, SemaphorePost(s)
      PROVE  Undisturbed
  <2>1. UNCHANGED <<wake_tick, sleep_list, system_ticks, in_tick>>
    BY <1>4 DEF SemaphorePost
  <2>2. \/ state' = state
        \/ \E t \in Tasks : /\ state[t] # "SLEEPING"
                            /\ state' = [state EXCEPT ![t] = "READY"]
    BY <1>4, PostFacts DEF WaitsFor
  <2> QED
    BY <1>1, <1>2, <2>1, <2>2
<1>5. ASSUME NEW m \in Mutexes, current_task \in Tasks, MutexUnlock(m)
      PROVE  Undisturbed
  <2>1. UNCHANGED <<wake_tick, sleep_list, system_ticks, in_tick>>
    BY <1>5 DEF MutexUnlock
  <2>2. \/ state' = state
        \/ \E t \in Tasks : /\ state[t] # "SLEEPING"
                            /\ state' = [state EXCEPT ![t] = "READY"]
    BY <1>5, UnlockFacts DEF WaitsFor
  <2> QED
    BY <1>1, <1>2, <2>1, <2>2
<1>6. CASE SysTaskExit
  <2>1. /\ UNCHANGED <<wake_tick, sleep_list, system_ticks, in_tick>>
        /\ current_task \in Tasks /\ state[current_task] = "RUNNING"
        /\ state' = [state EXCEPT ![current_task] = "FINISHED"]
    BY <1>6, CallerFacts DEF SysTaskExit
  <2> QED
    BY <1>2, <2>1
<1>7. ASSUME NEW m \in Mutexes, SysMutexBlock(m)
      PROVE  Undisturbed
  <2>1. /\ UNCHANGED <<wake_tick, sleep_list, system_ticks, in_tick>>
        /\ current_task \in Tasks /\ state[current_task] = "RUNNING"
        /\ state' = [state EXCEPT ![current_task] = "BLOCKED"]
    BY <1>7, CallerFacts DEF SysMutexBlock
  <2> QED
    BY <1>2, <2>1
<1>8. ASSUME NEW s \in Sems, SysSemBlock(s)
      PROVE  Undisturbed
  <2>1. /\ UNCHANGED <<wake_tick, sleep_list, system_ticks, in_tick>>
        /\ current_task \in Tasks /\ state[current_task] = "RUNNING"
        /\ state' = [state EXCEPT ![current_task] = "BLOCKED"]
    BY <1>8, CallerFacts DEF SysSemBlock
  <2> QED
    BY <1>2, <2>1
<1>9. CASE SchedulerSelectNext
  <2>1. UNCHANGED <<wake_tick, sleep_list, system_ticks, in_tick>>
    BY <1>9 DEF SchedulerSelectNext
  <2>2. PICK n \in Tasks :
          /\ In(n, ready_queue) \/ (n = current_task /\ PutCurrent(state))
          /\ state'[n] = "RUNNING"
          /\ \A t \in Tasks \ {n} :
               state'[t] = IF t = current_task /\ PutCurrent(state)
                           THEN "READY" ELSE state[t]
    BY <1>9, SelectFacts
  <2>3. state[n] # "SLEEPING"
    BY <2>2, QueueFacts DEF PutCurrent
  <2>4. \A t \in Tasks : state'[t] = "SLEEPING" <=> state[t] = "SLEEPING"
    BY <2>2, <2>3 DEF PutCurrent
  <2> QED
    BY <2>1, <2>4 DEF Undisturbed
<1>10. ASSUME NEW s \in Sems, SysSemTake(s) \/ SysSemPost(s) \/ SysSemClose(s)
       PROVE  Undisturbed
  BY <1>1, <1>4, <1>10 DEF SysSemTake, SysSemPost, SysSemClose
<1>11. ASSUME NEW m \in Mutexes, SysMutexTake(m) \/ SysMutexUnlock(m)
       PROVE  Undisturbed
  BY <1>1, <1>5, <1>11, CallerFacts DEF SysMutexTake, SysMutexUnlock
<1>12. CASE UsartReceive
  BY <1>4, <1>12, Constants DEF UsartReceive
<1>13. CASE ExitUnlock
  <2>1. exit_mutex \in Mutexes /\ MutexUnlock(exit_mutex) /\ mode = "exit"
    BY <1>13 DEF ExitUnlock, IInv, TypeOK
  <2> QED
    BY <1>5, <2>1, CallerFacts
<1>14. CASE TaskRaisePriority \/ RaiseDone \/ ExitSkip \/ ExitDone \/ SvcTail
  BY <1>1, <1>14 DEF TaskRaisePriority, RaiseDone, ExitSkip, ExitDone, SvcTail
<1>15. CASE SysYield \/ SysSemCreate \/ PendSvEnter \/ RestoreTask \/ UNCHANGED vars
  BY <1>1, <1>15 DEF SysYield, SysSemCreate, PendSvEnter, RestoreTask, vars
<1> QED
  BY <1>3, <1>6, <1>7, <1>8, <1>9, <1>10, <1>11, <1>12, <1>13, <1>14, <1>15 DEF Next

\* The sleep list is in the order of the wake ticks; no wake tick has passed,
\* and none is further away than a sleep is long.
SleepInv ==
  /\ Sorted(sleep_list, wake_tick)
  /\ \A t \in Tasks : state[t] = "SLEEPING" =>
       /\ system_ticks <= wake_tick[t] /\ wake_tick[t] <= system_ticks + MaxSleep
       /\ IF in_tick THEN wake_tick[t] < system_ticks + MaxSleep
          ELSE system_ticks < wake_tick[t]

\* A tick that has come, or lies less than half the range ahead: what the
\* difference reduced modulo the range says.
LEMMA TickDistance ==
  ASSUME NEW T \in Nat \ {0}, NEW s \in 0..(T - 1), NEW w \in 0..(T - 1),
         NEW M \in Nat, 2 * (M - 1) <= T, s <= w, w < s + M
  PROVE  2 * ((s + T - w) % T) < T <=> w = s
<1>1. CASE w = s
  <2>1. s + T - w = T
    BY <1>1
  <2>2. T % T = 0
    OBVIOUS
  <2>3. 2 * ((s + T - w) % T) = 0
    BY <2>1, <2>2
  <2> QED
    BY <1>1, <2>3
<1>2. CASE w # s
  <2>1. PICK x \in Nat : x = s + T - w
    OBVIOUS
  <2>2. x < T /\ 2 * x >= T
    BY <1>2, <2>1
  <2>3. x % T = x
    BY <2>2
  <2>4. (s + T - w) % T = x
    BY <2>1, <2>3
  <2> QED
    BY <1>2, <2>2, <2>4
<1> QED
  BY <1>1, <1>2

\* The comparison of sleep_tick finds exactly the tasks whose tick has come.
LEMMA DueNow ==
  ASSUME NEW t \in Tasks, wake_tick[t] \in 0..(TickMod - 1),
         system_ticks \in 0..(TickMod - 1), 2 * (MaxSleep - 1) <= TickMod,
         system_ticks <= wake_tick[t], wake_tick[t] < system_ticks + MaxSleep
  PROVE  Due(t) <=> wake_tick[t] = system_ticks
<1>1. 2 * ((system_ticks + TickMod - wake_tick[t]) % TickMod) < TickMod
        <=> wake_tick[t] = system_ticks
  BY TickDistance, SizesAssumption
<1> QED
  BY <1>1 DEF Due

\* Every step keeps it, when wake ticks do not lie past the wrap.
LEMMA SleepStep ==
  ASSUME SleepOverWrap = FALSE, 2 * (MaxSleep - 1) <= TickMod,
         IInv, SleepInv, [Next]_vars
  PROVE  SleepInv'
<1>t. /\ state \in [Tasks -> States] /\ wake_tick \in [Tasks -> 0..(TickMod - 1)]
      /\ system_ticks \in 0..(TickMod - 1) /\ in_tick \in BOOLEAN
      /\ sleep_list \in Seq(Tasks) /\ IsInjective(sleep_list)
      /\ \A t \in Tasks : In(t, sleep_list) <=> state[t] = "SLEEPING"
  BY DEF IInv, TypeOK, EveryTaskOnItsList
<1>s. TickMod \in Nat \ {0} /\ MaxSleep \in Nat
  BY SizesAssumption
<1>k. /\ wake_tick \in [Tasks -> Nat] /\ system_ticks \in Nat
      /\ Sorted(sleep_list, wake_tick)
  BY <1>t, <1>s DEF SleepInv
<1>1. CASE Undisturbed
  <2>1. Sorted(sleep_list, wake_tick')
    <3>1. \A t \in Tasks : In(t, sleep_list) => wake_tick'[t] = wake_tick[t]
      BY <1>1, <1>t DEF Undisturbed
    <3> QED
      BY <1>t, <1>k, <3>1, SortedKeys
  <2> QED
    BY <1>1, <2>1 DEF Undisturbed, SleepInv
<1>2. CASE SysSleep
  <2>1. PICK c \in Tasks : c = current_task /\ state[c] = "RUNNING" /\ ~in_tick
    BY <1>2, CallerFacts DEF SysSleep, Calls
  <2>2. PICK n \in 1..MaxSleep :
          /\ system_ticks + n < TickMod
          /\ wake_tick' = [wake_tick EXCEPT ![c] = (system_ticks + n) % TickMod]
          /\ sleep_list' = OrderedPush(sleep_list, c, wake_tick')
    BY <1>2, <2>1 DEF SysSleep
  <2>3. /\ state' = [state EXCEPT ![c] = "SLEEPING"]
        /\ UNCHANGED <<system_ticks, in_tick>>
    BY <1>2, <2>1 DEF SysSleep
  <2>4. (system_ticks + n) % TickMod = system_ticks + n
    BY <1>k, <1>s, <2>2
  <2>5. /\ wake_tick'[c] = system_ticks + n
        /\ \A t \in Tasks \ {c} : wake_tick'[t] = wake_tick[t]
        /\ wake_tick' \in [Tasks -> Nat]
    BY <1>k, <1>s, <2>2, <2>4
  <2>6. Sorted(sleep_list, wake_tick')
    <3>1. \A t \in Tasks : In(t, sleep_list) => wake_tick'[t] = wake_tick[t]
      BY <1>t, <2>1, <2>5
    <3> QED
      BY <1>t, <1>k, <3>1, SortedKeys
  <2>7. Sorted(sleep_list', wake_tick')
    BY <1>t, <2>2, <2>5, <2>6, PushSorted
  <2>8. ASSUME NEW t \in Tasks, state'[t] = "SLEEPING"
        PROVE  /\ system_ticks < wake_tick'[t]
               /\ wake_tick'[t] <= system_ticks + MaxSleep
    <3>1. CASE t = c
      BY <1>k, <1>s, <2>2, <2>5, <3>1
    <3>2. CASE t # c
      <4>1. state[t] = "SLEEPING"
        BY <1>t, <2>3, <2>8, <3>2
      <4> QED
        BY <2>1, <2>5, <3>2, <4>1 DEF SleepInv
    <3> QED
      BY <3>1, <3>2
  <2> QED
    BY <1>k, <2>1, <2>3, <2>5, <2>7, <2>8 DEF SleepInv
<1>3. CASE SysTick
  <2>1. /\ ~in_tick /\ in_tick' = TRUE
        /\ system_ticks' = (system_ticks + 1) % TickMod
        /\ UNCHANGED <<state, wake_tick, sleep_list>>
    BY <1>3 DEF SysTick
  <2>2. ASSUME NEW t \in Tasks, state[t] = "SLEEPING"
        PROVE  /\ system_ticks' <= wake_tick[t]
               /\ wake_tick[t] < system_ticks' + MaxSleep
    <3>1. /\ system_ticks < wake_tick[t] /\ wake_tick[t] <= system_ticks + MaxSleep
          /\ wake_tick[t] \in 0..(TickMod - 1)
      BY <1>t, <2>1, <2>2 DEF SleepInv
    <3>2. (system_ticks + 1) % TickMod = system_ticks + 1
      <4>1. system_ticks + 1 < TickMod /\ system_ticks + 1 \in Nat
        BY <1>k, <1>s, <3>1
      <4> QED
        BY <1>s, <4>1
    <3>3. system_ticks' = system_ticks + 1
      BY <2>1, <3>2
    <3> QED
      BY <1>k, <1>s, <3>1, <3>3
  <2>3. ASSUME NEW t \in Tasks, state[t] = "SLEEPING"
        PROVE  wake_tick[t] <= system_ticks' + MaxSleep
    <3>1. wake_tick[t] < system_ticks' + MaxSleep
      BY <2>2, <2>3
    <3>2. system_ticks' \in Nat /\ wake_tick[t] \in Nat
      BY <1>k, <1>s, <2>1
    <3> QED
      BY <1>s, <3>1, <3>2
  <2> QED
    BY <1>k, <2>1, <2>2, <2>3 DEF SleepInv
<1>4. CASE SleepTick
  <2>1. PICK h \in Tasks : h = Head(sleep_list)
    BY <1>4, <1>t DEF SleepTick
  <2>2. /\ in_tick /\ sleep_list # <<>> /\ sleep_list' = Tail(sleep_list)
        /\ state' = [state EXCEPT ![h] = "READY"]
        /\ UNCHANGED <<wake_tick, system_ticks, in_tick>>
    BY <1>4, <2>1 DEF SleepTick
  <2>3. Sorted(Tail(sleep_list), wake_tick)
    BY <1>t, <1>k, <2>2, TailSorted
  <2>4. \A t \in Tasks : state'[t] = "SLEEPING" => state[t] = "SLEEPING"
    BY <1>t, <2>2
  <2> QED
    BY <2>2, <2>3, <2>4 DEF SleepInv
<1>5. CASE SysTickDone
  <2>1. /\ in_tick /\ in_tick' = FALSE
        /\ sleep_list # <<>> => ~Due(Head(sleep_list))
        /\ UNCHANGED <<state, wake_tick, sleep_list, system_ticks>>
    BY <1>5 DEF SysTickDone
  <2>2. ASSUME NEW t \in Tasks, state[t] = "SLEEPING"
        PROVE  system_ticks < wake_tick[t]
    <3>1. sleep_list # <<>> /\ In(t, sleep_list)
      BY <1>t, <2>2 DEF In
    <3>2. PICK h \in Tasks : h = Head(sleep_list) /\ state[h] = "SLEEPING"
      BY <1>t, <3>1, TailProperties
    <3>3. /\ system_ticks <= wake_tick[h]
          /\ wake_tick[h] < system_ticks + MaxSleep
          /\ wake_tick[h] \in 0..(TickMod - 1)
      BY <1>t, <2>1, <3>2 DEF SleepInv
    <3>4. wake_tick[h] # system_ticks
      BY <1>t, <2>1, <3>1, <3>2, <3>3, DueNow
    <3>5. wake_tick[h] <= wake_tick[t]
      BY <1>t, <1>k, <3>1, <3>2, TailSorted
    <3> QED
      BY <1>k, <3>3, <3>4, <3>5
  <2> QED
    BY <2>1, <2>2 DEF SleepInv
<1> QED
  BY <1>1, <1>2, <1>3, <1>4, <1>5, SleepersStep

\* sleep_tick wakes the tasks whose tick has come, and nobody else wakes a
\* sleeper: for every length of a sleep up to half the range of the counter,
\* while no wake tick lies past its wrap.
THEOREM SleepersWakeOnTime ==
  SleepOverWrap = FALSE /\ 2 * (MaxSleep - 1) <= TickMod => (Spec => WokenOnTime)
<1> SUFFICES ASSUME SleepOverWrap = FALSE, 2 * (MaxSleep - 1) <= TickMod
             PROVE  Spec => WokenOnTime
  OBVIOUS
<1> DEFINE OnTime == \A t \in Tasks :
                       state[t] = "SLEEPING" /\ state'[t] # "SLEEPING" =>
                         system_ticks = wake_tick[t]
<1>1. Init => SleepInv
  BY DEF Init, SleepInv, Sorted
<1>2. IInv /\ SleepInv /\ [Next]_vars => SleepInv'
  BY SleepStep
<1>3. ASSUME IInv, SleepInv, [Next]_vars
      PROVE  OnTime
  <2>t. /\ state \in [Tasks -> States] /\ wake_tick \in [Tasks -> 0..(TickMod - 1)]
        /\ system_ticks \in 0..(TickMod - 1)
        /\ sleep_list \in Seq(Tasks) /\ IsInjective(sleep_list)
        /\ \A t \in Tasks : In(t, sleep_list) <=> state[t] = "SLEEPING"
    BY <1>3 DEF IInv, TypeOK, EveryTaskOnItsList
  <2>1. CASE Undisturbed
    BY <2>1 DEF Undisturbed
  <2>2. CASE SysSleep
    <3>1. state' = [state EXCEPT ![current_task] = "SLEEPING"]
      BY <2>2 DEF SysSleep
    <3> QED
      BY <2>t, <3>1
  <2>3. CASE SysTick \/ SysTickDone
    BY <2>3 DEF SysTick, SysTickDone
  <2>4. CASE SleepTick
    <3>1. /\ in_tick /\ sleep_list # <<>> /\ Due(Head(sleep_list))
          /\ state' = [state EXCEPT ![Head(sleep_list)] = "READY"]
      BY <2>4 DEF SleepTick
    <3>2. Head(sleep_list) \in Tasks /\ state[Head(sleep_list)] = "SLEEPING"
      BY <2>t, <3>1, TailProperties
    <3>3. wake_tick[Head(sleep_list)] = system_ticks
      <4>1. PICK h \in Tasks : h = Head(sleep_list)
        BY <3>2
      <4>2. /\ system_ticks <= wake_tick[h]
            /\ wake_tick[h] < system_ticks + MaxSleep
            /\ wake_tick[h] \in 0..(TickMod - 1)
        BY <1>3, <2>t, <3>1, <3>2, <4>1 DEF SleepInv
      <4> QED
        BY <2>t, <3>1, <4>1, <4>2, DueNow
    <3> QED
      BY <2>t, <3>1, <3>3
  <2> QED
    BY <1>3, <2>1, <2>2, <2>3, <2>4, SleepersStep
<1>4. IInv /\ SleepInv /\ [Next]_vars => [OnTime]_vars
  BY <1>3
<1> HIDE DEF OnTime
<1>5. Spec => [][OnTime]_vars
  BY <1>1, <1>2, <1>4, Invariance, PTL DEF Spec
<1> QED
  BY <1>5 DEF OnTime, WokenOnTime

=============================================================================
