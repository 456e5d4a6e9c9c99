---------------------------- MODULE KernelProofs ----------------------------
(***************************************************************************)
(* Theorems about Kernel, for every value of its constants: any number of  *)
(* tasks, semaphores, mutexes and priorities, every system call, nested    *)
(* locks, closed semaphores and sleeps across the wrap of the ticks.       *)
(***************************************************************************)
EXTENDS KernelLists

-----------------------------------------------------------------------------
(* The inductive invariant.                                                *)

\* Nothing but the console interrupt happens before main() has booted.
BootPhase ==
  /\ (current_task # None \/ pendsv \/ in_tick \/ mode # "thread") =>
       booted = Len(BootPrio)
  /\ booted = 0 => state[Idle] = "UNUSED"

\* The idle task never stops, so the ready queue is not empty when the
\* current task does.
IdleIsThere == booted > 0 => state[Idle] \in {"READY", "RUNNING"}

\* Which task is RUNNING in which phase of an exception.
RunningPhase ==
  /\ mode \in {"svc", "raise", "exit"} =>
       current_task \in Tasks \ {Idle} /\ ~pendsv /\ ~in_tick
  /\ mode = "exit" => state[current_task] = "FINISHED"
  /\ mode = "thread" /\ ~pendsv /\ current_task # None =>
       state[current_task] = "RUNNING"
  /\ mode = "selected" => next_task \in Tasks /\ state[next_task] = "RUNNING"
  /\ \A t \in Tasks : state[t] = "RUNNING" =>
       t = IF mode = "selected" THEN next_task ELSE current_task

\* A slot of the semaphore pool that can be allocated has no waiters.
UnusedSemsEmpty ==
  \A s \in Sems : sem_state[s] = "UNUSED" => sem_queue[s] = <<>>

IInv ==
  /\ TypeOK
  /\ BootPhase /\ IdleIsThere /\ RunningPhase
  /\ EveryTaskOnItsList
  /\ UnusedSemsEmpty

USE DEF prioVars, waitVars, semVars, mutexVars, sleepVars, cpuVars, loopVars

-----------------------------------------------------------------------------
(* Types.                                                                  *)

\* What the proofs use of the sets of pointers and priorities.
LEMMA Constants ==
  /\ Idle \in Tasks /\ None \notin Tasks /\ RxSem \in Sems
  /\ None \notin Sems /\ None \notin Mutexes
  /\ Tasks \subseteq Nat /\ Sems \subseteq Nat /\ Mutexes \subseteq Nat
  /\ Prios \subseteq Nat /\ 0 \in Prios /\ None \in Nat
  /\ \A t \in Tasks : Idle <= t
  BY SizesAssumption DEF Tasks, Sems, Mutexes, Prios, None, Idle, RxSem

\* A tick count is reduced modulo TickMod.
LEMMA TickType ==
  ASSUME NEW x \in Nat
  PROVE  x % TickMod \in 0..(TickMod - 1)
  BY SizesAssumption

\* A count with a unit left can go down, one below the bound can go up.
LEMMA CountType ==
  ASSUME NEW k \in 0..MaxCount
  PROVE  /\ k > 0 => k - 1 \in 0..MaxCount
         /\ k < MaxCount => k + 1 \in 0..MaxCount
  BY SizesAssumption

\* While main() has tasks left to create, the next one has a priority.
LEMMA BootType ==
  ASSUME NEW b \in 0..Len(BootPrio), b < Len(BootPrio)
  PROVE  b + 1 \in 0..Len(BootPrio) /\ BootPrio[b + 1] \in Prios
<1>1. Len(BootPrio) \in Nat /\ b + 1 \in 1..Len(BootPrio)
  BY BootAssumption
<1>2. \A i \in 1..Len(BootPrio) : BootPrio[i] \in Prios
  BY BootAssumption
<1> QED
  BY <1>1, <1>2

\* The slot alloc_task returns is one of the free ones, and the first.
LEMMA LeastFreeSlot ==
  ASSUME FreeSlots # {}
  PROVE  LET t == CHOOSE t \in FreeSlots : \A u \in FreeSlots : t <= u IN
         /\ t \in Tasks /\ state[t] \in {"UNUSED", "FINISHED"}
         /\ \A u \in FreeSlots : t <= u
<1>1. FreeSlots \in SUBSET Nat
  BY DEF FreeSlots, Tasks
<1>2. \E t \in FreeSlots : \A u \in FreeSlots : t <= u
  BY <1>1, MinExists
<1> QED
  BY <1>2 DEF FreeSlots

\* The slot alloc_sem returns is one of the free ones.
LEMMA LeastFreeSem ==
  ASSUME FreeSems # {}
  PROVE  LET s == CHOOSE s \in FreeSems : \A r \in FreeSems : s <= r IN
         s \in Sems /\ sem_state[s] = "UNUSED"
<1>1. FreeSems \in SUBSET Nat
  BY DEF FreeSems, Sems
<1>2. \E s \in FreeSems : \A r \in FreeSems : s <= r
  BY <1>1, MinExists
<1> QED
  BY <1>2 DEF FreeSems

Heads == [Tasks -> Mutexes \cup {None}]
Links == [Mutexes -> Mutexes \cup {None}]

\* mutex_queue_push and mutex_queue_remove leave heads and links that are
\* null or mutexes.
LEMMA OwnedTypes ==
  ASSUME NEW own \in Heads, NEW nxt \in Links, NEW t \in Tasks,
         NEW m \in Mutexes
  PROVE  /\ OwnedPush(own, nxt, t, m)[1] \in Heads
         /\ OwnedPush(own, nxt, t, m)[2] \in Links
         /\ OwnedRemove(own, nxt, t, m)[1] \in Heads
         /\ OwnedRemove(own, nxt, t, m)[2] \in Links
<1>1. OwnedPush(own, nxt, t, m)[1] \in Heads
  BY DEF OwnedPush, Heads
<1>2. OwnedPush(own, nxt, t, m)[2] \in Links
  BY DEF OwnedPush, Heads, Links
<1> DEFINE prevs == {p \in Listed(own[t], nxt) : nxt[p] = m}
           p == CHOOSE x \in prevs : TRUE
<1>3. CASE own[t] = m
  <2>1. OwnedRemove(own, nxt, t, m) =
          <<[own EXCEPT ![t] = nxt[m]], [nxt EXCEPT ![m] = None]>>
    BY <1>3 DEF OwnedRemove
  <2> QED
    BY <1>1, <1>2, <2>1 DEF Heads, Links
<1>4. CASE own[t] # m /\ prevs = {}
  <2>1. OwnedRemove(own, nxt, t, m) = <<own, nxt>>
    BY <1>4 DEF OwnedRemove
  <2> QED
    BY <1>1, <1>2, <2>1
<1>5. CASE own[t] # m /\ prevs # {}
  <2>1. OwnedRemove(own, nxt, t, m) =
          <<own, [nxt EXCEPT ![p] = nxt[m], ![m] = None]>>
    BY <1>5 DEF OwnedRemove
  <2>2. nxt[m] \in Mutexes \cup {None}
    BY DEF Links
  <2> HIDE DEF p
  <2>3. [nxt EXCEPT ![p] = nxt[m], ![m] = None] \in Links
    BY <2>2 DEF Links
  <2> QED
    BY <1>1, <1>2, <2>1, <2>3
<1> QED
  BY <1>3, <1>4, <1>5

\* task_recalculate_priority returns a priority.
LEMMA RecalculatedType ==
  ASSUME base_priority \in [Tasks -> Prios],
         NEW t \in Tasks, NEW own \in Heads, NEW nxt \in Links,
         NEW mq \in [Mutexes -> Seq(Tasks)], NEW eff \in [Tasks -> Prios]
  PROVE  Recalculated(t, own, nxt, mq, eff) \in Prios
<1> DEFINE firsts == {m \in Listed(own[t], nxt) : mq[m] # <<>>}
           claims == {base_priority[t]} \cup {eff[Head(mq[m])] : m \in firsts}
<1>1. \A m \in firsts : m \in Mutexes /\ mq[m] \in Seq(Tasks) /\ mq[m] # <<>>
  BY DEF Listed
<1>2. \A m \in firsts : Head(mq[m]) \in Tasks
  BY <1>1
<1> HIDE DEF firsts
<1>3. claims \subseteq Prios /\ claims # {}
  BY <1>2
<1> HIDE DEF claims
<1>4. claims \in SUBSET Nat
  BY <1>3 DEF Prios
<1>5. \E p \in claims : \A r \in claims : p <= r
  BY <1>3, <1>4, MinExists
<1>6. (CHOOSE p \in claims : \A r \in claims : p <= r) \in claims
  BY <1>5
<1> QED
  BY <1>3, <1>6, Zenon DEF Recalculated, claims, firsts

-----------------------------------------------------------------------------
(* What the operations several system calls and handlers share do.         *)

\* r is q with t added, once.
Joins(t, q, r) ==
  /\ r \in Seq(Tasks) /\ r # <<>> /\ IsInjective(r)
  /\ \A u : In(u, r) <=> In(u, q) \/ u = t

\* r is q without its first element t.
Leaves(t, q, r) ==
  /\ t \in Tasks /\ In(t, q)
  /\ r \in Seq(Tasks) /\ IsInjective(r)
  /\ \A u : In(u, r) <=> In(u, q) /\ u # t

\* priority_queue_push of a task that is not on the list.
LEMMA PushJoins ==
  ASSUME NEW q \in Seq(Tasks), IsInjective(q), NEW t \in Tasks, ~In(t, q),
         NEW key
  PROVE  Joins(t, q, OrderedPush(q, t, key))
  BY PushProperties DEF Joins

\* priority_queue_reoder, or remove and push, of any task.
LEMMA ReorderJoins ==
  ASSUME NEW q \in Seq(Tasks), IsInjective(q), NEW t \in Tasks, NEW key
  PROVE  Joins(t, q, Reorder(q, t, key))
  BY ReorderProperties DEF Joins

\* queue_pop of a list that is not empty.
LEMMA HeadLeaves ==
  ASSUME NEW q \in Seq(Tasks), IsInjective(q), q # <<>>
  PROVE  Leaves(Head(q), q, Tail(q))
  BY TailProperties DEF Leaves

\* create_task takes a slot that is not in use and queues it.
LEMMA CreateFacts ==
  ASSUME IInv, NEW p \in Prios, CreateTask(p)
  PROVE  \E t \in Tasks :
           /\ state[t] \in {"UNUSED", "FINISHED"}
           /\ \A u \in FreeSlots : t <= u
           /\ state' = [state EXCEPT ![t] = "READY"]
           /\ base_priority' = [base_priority EXCEPT ![t] = p]
           /\ effective_priority' = [effective_priority EXCEPT ![t] = p]
           /\ owned_mutexes' = [owned_mutexes EXCEPT ![t] = None]
           /\ waiting_on' = [waiting_on EXCEPT ![t] = None]
           /\ waiting_on_type' = [waiting_on_type EXCEPT ![t] = "NONE"]
           /\ wake_tick' = [wake_tick EXCEPT ![t] = 0]
           /\ Joins(t, ready_queue, ready_queue')
<1> DEFINE t == CHOOSE t \in FreeSlots : \A u \in FreeSlots : t <= u
<1>1. /\ t \in Tasks /\ state[t] \in {"UNUSED", "FINISHED"}
      /\ \A u \in FreeSlots : t <= u
  BY LeastFreeSlot DEF CreateTask
<1>2. /\ state' = [state EXCEPT ![t] = "READY"]
      /\ base_priority' = [base_priority EXCEPT ![t] = p]
      /\ effective_priority' = [effective_priority EXCEPT ![t] = p]
      /\ owned_mutexes' = [owned_mutexes EXCEPT ![t] = None]
      /\ waiting_on' = [waiting_on EXCEPT ![t] = None]
      /\ waiting_on_type' = [waiting_on_type EXCEPT ![t] = "NONE"]
      /\ wake_tick' = [wake_tick EXCEPT ![t] = 0]
      /\ ready_queue' = OrderedPush(ready_queue, t, effective_priority')
  BY Zenon DEF CreateTask
<1> HIDE DEF t
<1>3. /\ ~In(t, ready_queue) /\ IsInjective(ready_queue)
      /\ ready_queue \in Seq(Tasks)
  BY <1>1 DEF IInv, TypeOK, EveryTaskOnItsList
<1>4. Joins(t, ready_queue, ready_queue')
  BY <1>1, <1>2, <1>3, PushJoins
<1> QED
  BY <1>1, <1>2, <1>4

\* semaphore_post makes the first waiter READY, or counts.
LEMMA PostFacts ==
  ASSUME IInv, NEW s \in Sems, SemaphorePost(s)
  PROVE  \/ \E t \in Tasks :
              /\ WaitsFor(t, "SEM", s)
              /\ state' = [state EXCEPT ![t] = "READY"]
              /\ waiting_on' = [waiting_on EXCEPT ![t] = None]
              /\ waiting_on_type' = [waiting_on_type EXCEPT ![t] = "NONE"]
              /\ Joins(t, ready_queue, ready_queue')
              /\ Leaves(t, sem_queue[s], sem_queue'[s])
              /\ sem_queue' = [sem_queue EXCEPT ![s] = sem_queue'[s]]
              /\ count' = count
         \/ /\ UNCHANGED <<state, waiting_on, waiting_on_type, ready_queue,
                           sem_queue>>
            /\ sem_queue[s] = <<>>
            /\ count[s] < MaxCount /\ count' = [count EXCEPT ![s] = @ + 1]
<1>1. CASE sem_queue[s] = <<>>
  BY <1>1 DEF SemaphorePost
<1>2. CASE sem_queue[s] # <<>>
  <2> DEFINE t == Head(sem_queue[s])
  <2>1. /\ sem_queue[s] \in Seq(Tasks) /\ IsInjective(sem_queue[s])
        /\ ready_queue \in Seq(Tasks) /\ IsInjective(ready_queue)
        /\ sem_queue \in [Sems -> Seq(Tasks)]
    BY DEF IInv, TypeOK, EveryTaskOnItsList
  <2>2. /\ state' = [state EXCEPT ![t] = "READY"]
        /\ waiting_on' = [waiting_on EXCEPT ![t] = None]
        /\ waiting_on_type' = [waiting_on_type EXCEPT ![t] = "NONE"]
        /\ ready_queue' = Reorder(ready_queue, t, effective_priority)
        /\ sem_queue' = [sem_queue EXCEPT ![s] = Tail(sem_queue[s])]
        /\ count' = count
    BY <1>2 DEF SemaphorePost
  <2>3. Leaves(t, sem_queue[s], Tail(sem_queue[s]))
    BY <1>2, <2>1, HeadLeaves
  <2>4. sem_queue'[s] = Tail(sem_queue[s])
    BY <2>1, <2>2
  <2> HIDE DEF t
  <2>5. t \in Tasks /\ In(t, sem_queue[s])
    BY <2>3 DEF Leaves
  <2>6. WaitsFor(t, "SEM", s)
    BY <2>5 DEF IInv, EveryTaskOnItsList
  <2>7. Joins(t, ready_queue, ready_queue')
    BY <2>1, <2>2, <2>5, ReorderJoins
  <2> QED
    BY <2>2, <2>3, <2>4, <2>5, <2>6, <2>7
<1> QED
  BY <1>1, <1>2

\* mutex_unlock frees the mutex or makes its first waiter READY and owner.
LEMMA UnlockFacts ==
  ASSUME IInv, current_task \in Tasks, NEW m \in Mutexes, MutexUnlock(m)
  PROVE  /\ effective_priority' \in [Tasks -> Prios]
         /\ owned_mutexes' \in Heads /\ next_owned' \in Links
         /\ \/ /\ mutex_queue[m] = <<>>
               /\ owner' = [owner EXCEPT ![m] = None]
               /\ UNCHANGED <<state, ready_queue, waiting_on, waiting_on_type,
                              mutex_queue>>
            \/ \E n \in Tasks :
                 /\ WaitsFor(n, "MUTEX", m)
                 /\ owner' = [owner EXCEPT ![m] = n]
                 /\ state' = [state EXCEPT ![n] = "READY"]
                 /\ waiting_on' = [waiting_on EXCEPT ![n] = None]
                 /\ waiting_on_type' = [waiting_on_type EXCEPT ![n] = "NONE"]
                 /\ Joins(n, ready_queue, ready_queue')
                 /\ Leaves(n, mutex_queue[m], mutex_queue'[m])
                 /\ mutex_queue' = [mutex_queue EXCEPT ![m] = mutex_queue'[m]]
<1> DEFINE c == current_task
<1>1. /\ owned_mutexes \in Heads /\ next_owned \in Links
      /\ base_priority \in [Tasks -> Prios]
      /\ effective_priority \in [Tasks -> Prios]
      /\ mutex_queue \in [Mutexes -> Seq(Tasks)]
  BY DEF IInv, TypeOK, Heads, Links
<1>2. CASE ReleaseMutex(c, m)
  <2> DEFINE rem == OwnedRemove(owned_mutexes, next_owned, c, m)
             e == Recalculated(c, rem[1], rem[2], mutex_queue,
                               effective_priority)
  <2>1. rem[1] \in Heads /\ rem[2] \in Links
    BY <1>1, OwnedTypes
  <2>2. /\ owned_mutexes' = rem[1] /\ next_owned' = rem[2]
        /\ effective_priority' = [effective_priority EXCEPT ![c] = e]
        /\ mutex_queue[m] = <<>>
        /\ owner' = [owner EXCEPT ![m] = None]
        /\ UNCHANGED <<state, ready_queue, waiting_on, waiting_on_type,
                       mutex_queue>>
    BY <1>2, Zenon DEF ReleaseMutex
  <2> HIDE DEF rem
  <2>3. e \in Prios
    BY <1>1, <2>1, RecalculatedType
  <2> HIDE DEF e
  <2> QED
    BY <1>1, <2>1, <2>2, <2>3
<1>3. CASE HandMutexOver(c, m)
  <2> DEFINE n == Head(mutex_queue[m])
             mq == [mutex_queue EXCEPT ![m] = Tail(@)]
             add == OwnedPush(owned_mutexes, next_owned, n, m)
             e == Recalculated(n, add[1], add[2], mq, effective_priority)
             eff == [effective_priority EXCEPT ![n] = e]
             rem == OwnedRemove(add[1], add[2], c, m)
             f == Recalculated(c, rem[1], rem[2], mq, eff)
  <2>1. /\ mutex_queue[m] # <<>>
        /\ owner' = [owner EXCEPT ![m] = n]
        /\ mutex_queue' = mq
        /\ state' = [state EXCEPT ![n] = "READY"]
        /\ waiting_on' = [waiting_on EXCEPT ![n] = None]
        /\ waiting_on_type' = [waiting_on_type EXCEPT ![n] = "NONE"]
        /\ ready_queue' = Reorder(ready_queue, n, eff)
        /\ owned_mutexes' = rem[1] /\ next_owned' = rem[2]
        /\ effective_priority' = [eff EXCEPT ![c] = f]
    BY <1>3, Zenon DEF HandMutexOver
  <2>2. /\ mutex_queue[m] \in Seq(Tasks) /\ IsInjective(mutex_queue[m])
        /\ ready_queue \in Seq(Tasks) /\ IsInjective(ready_queue)
    BY DEF IInv, TypeOK, EveryTaskOnItsList
  <2>3. Leaves(n, mutex_queue[m], Tail(mutex_queue[m]))
    BY <2>1, <2>2, HeadLeaves
  <2>4. n \in Tasks /\ In(n, mutex_queue[m])
    BY <2>3, Zenon DEF Leaves
  <2>5. mutex_queue'[m] = Tail(mutex_queue[m]) /\ mq = [mutex_queue EXCEPT ![m] = mutex_queue'[m]]
    BY <1>1, <2>1
  <2>6. mq \in [Mutexes -> Seq(Tasks)]
    BY <1>1, <2>3 DEF Leaves
  <2> HIDE DEF n, mq
  <2>7. add[1] \in Heads /\ add[2] \in Links
    BY <1>1, <2>4, OwnedTypes
  <2> HIDE DEF add
  <2>8. e \in Prios
    BY <1>1, <2>4, <2>6, <2>7, RecalculatedType
  <2> HIDE DEF e
  <2>9. eff \in [Tasks -> Prios]
    BY <1>1, <2>8
  <2> HIDE DEF eff
  <2>10. rem[1] \in Heads /\ rem[2] \in Links
    BY <2>7, OwnedTypes
  <2> HIDE DEF rem
  <2>11. f \in Prios
    BY <1>1, <2>6, <2>9, <2>10, RecalculatedType
  <2> HIDE DEF f
  <2>12. effective_priority' \in [Tasks -> Prios]
    BY <2>1, <2>9, <2>11
  <2>13. WaitsFor(n, "MUTEX", m)
    BY <2>4 DEF IInv, EveryTaskOnItsList
  <2>14. Joins(n, ready_queue, ready_queue')
    BY <2>1, <2>2, <2>4, ReorderJoins
  <2> QED
    BY <2>1, <2>3, <2>4, <2>5, <2>10, <2>12, <2>13, <2>14
<1> QED
  BY <1>2, <1>3 DEF MutexUnlock

\* scheduler_select_next finds a task, because idle is ready or current.
LEMMA SelectFacts ==
  ASSUME IInv, SchedulerSelectNext
  PROVE  \E n \in Tasks :
           /\ next_task' = n
           /\ In(n, ready_queue) \/ (n = current_task /\ PutCurrent(state))
           /\ state' \in [Tasks -> States]
           /\ state'[n] = "RUNNING"
           /\ \A t \in Tasks \ {n} :
                state'[t] = IF t = current_task /\ PutCurrent(state)
                            THEN "READY" ELSE state[t]
           /\ ready_queue' \in Seq(Tasks) /\ IsInjective(ready_queue')
           /\ \A u \in Tasks : In(u, ready_queue') <=>
                /\ u # n
                /\ In(u, ready_queue) \/ (u = current_task /\ PutCurrent(state))
<1> DEFINE st == IF PutCurrent(state)
                 THEN [state EXCEPT ![current_task] = "READY"] ELSE state
           rq == IF PutCurrent(state)
                 THEN Reorder(ready_queue, current_task, effective_priority)
                 ELSE ready_queue
           n == Head(rq)
<1>1. /\ ready_queue \in Seq(Tasks) /\ IsInjective(ready_queue)
      /\ state \in [Tasks -> States]
      /\ current_task \in Tasks \cup {None}
  BY DEF IInv, TypeOK, EveryTaskOnItsList
<1>2. PutCurrent(state) => current_task \in Tasks
  BY <1>1 DEF PutCurrent
<1>3. /\ rq \in Seq(Tasks) /\ IsInjective(rq)
      /\ \A u \in Tasks : In(u, rq) <=>
           In(u, ready_queue) \/ (u = current_task /\ PutCurrent(state))
  BY <1>1, <1>2, ReorderJoins DEF Joins
<1>4. In(Idle, rq)
  <2>1. state[Idle] \in {"READY", "RUNNING"} /\ Idle \in Tasks
    <3>1. booted = Len(BootPrio) /\ Len(BootPrio) > 0
      BY BootAssumption DEF IInv, BootPhase, SchedulerSelectNext
    <3> QED
      BY <3>1, Constants DEF IInv, IdleIsThere
  <2>2. CASE state[Idle] = "READY"
    BY <1>3, <2>1, <2>2 DEF IInv, EveryTaskOnItsList
  <2>3. CASE state[Idle] = "RUNNING"
    <3>1. Idle = current_task
      BY <2>1, <2>3 DEF IInv, RunningPhase, SchedulerSelectNext
    <3>2. PutCurrent(state)
      BY <2>1, <2>3, <3>1, Constants DEF PutCurrent
    <3> QED
      BY <1>3, <2>1, <3>1, <3>2
  <2> QED
    BY <2>1, <2>2, <2>3
<1>5. rq # <<>>
  BY <1>3, <1>4 DEF In
<1>6. /\ next_task' = n /\ ready_queue' = Tail(rq)
      /\ state' = [st EXCEPT ![n] = "RUNNING"]
  BY <1>5 DEF SchedulerSelectNext
<1>7. st \in [Tasks -> States]
  BY <1>1 DEF States
<1>8. \A t \in Tasks : st[t] = IF t = current_task /\ PutCurrent(state)
                               THEN "READY" ELSE state[t]
  BY <1>1
<1> HIDE DEF rq, st
<1>9. Leaves(n, rq, Tail(rq))
  BY <1>3, <1>5, HeadLeaves
<1> HIDE DEF n
<1>10. n \in Tasks /\ In(n, rq)
  BY <1>9 DEF Leaves
<1>11. state' \in [Tasks -> States] /\ state'[n] = "RUNNING"
       /\ \A t \in Tasks \ {n} : state'[t] = st[t]
  BY <1>6, <1>7, <1>10 DEF States
<1>12. /\ ready_queue' \in Seq(Tasks) /\ IsInjective(ready_queue')
       /\ \A u \in Tasks : In(u, ready_queue') <=> In(u, rq) /\ u # n
  BY <1>6, <1>9 DEF Leaves
<1> QED
  BY <1>3, <1>6, <1>8, <1>10, <1>11, <1>12

-----------------------------------------------------------------------------
(* Types.                                                                  *)

\* Every step keeps the types.
LEMMA TypeStep ==
  ASSUME IInv, [Next]_vars
  PROVE  TypeOK'
<1> USE Constants
<1>t. TypeOK
  BY DEF IInv
<1>c. ASSUME NEW p \in Prios, CreateTask(p), booted' \in 0..Len(BootPrio)
      PROVE  TypeOK'
  <2>1. PICK t \in Tasks :
          /\ state' = [state EXCEPT ![t] = "READY"]
          /\ base_priority' = [base_priority EXCEPT ![t] = p]
          /\ effective_priority' = [effective_priority EXCEPT ![t] = p]
          /\ owned_mutexes' = [owned_mutexes EXCEPT ![t] = None]
          /\ waiting_on' = [waiting_on EXCEPT ![t] = None]
          /\ waiting_on_type' = [waiting_on_type EXCEPT ![t] = "NONE"]
          /\ wake_tick' = [wake_tick EXCEPT ![t] = 0]
          /\ Joins(t, ready_queue, ready_queue')
    BY <1>c, CreateFacts, Zenon
  <2>r. ready_queue' \in Seq(Tasks)
    BY <2>1 DEF Joins
  <2>2. 0 \in 0..(TickMod - 1)
    BY SizesAssumption
  <2>3. UNCHANGED <<sleep_list, sem_state, count, sem_queue, owner,
                    mutex_queue, next_owned, current_task, next_task,
                    system_ticks, in_tick, pendsv, mode, raise_task,
                    raise_prio, exit_mutex>>
    BY <1>c DEF CreateTask
  <2>4. /\ state' \in [Tasks -> States]
        /\ base_priority' \in [Tasks -> Prios]
        /\ effective_priority' \in [Tasks -> Prios]
    BY <1>c, <1>t, <2>1 DEF TypeOK, States
  <2>5. /\ waiting_on' \in [Tasks -> Nat]
        /\ waiting_on_type' \in [Tasks -> {"NONE", "SEM", "MUTEX"}]
        /\ \A u \in Tasks :
             /\ waiting_on_type'[u] = "SEM" => waiting_on'[u] \in Sems
             /\ waiting_on_type'[u] = "MUTEX" => waiting_on'[u] \in Mutexes
    BY <1>t, <2>1 DEF TypeOK
  <2>6. /\ wake_tick' \in [Tasks -> 0..(TickMod - 1)]
        /\ owned_mutexes' \in [Tasks -> Mutexes \cup {None}]
    BY <1>t, <2>1, <2>2 DEF TypeOK
  <2> QED
    BY <1>c, <1>t, <2>3, <2>4, <2>5, <2>6, <2>r DEF TypeOK
<1>1. CASE BootTask
  <2>1. booted \in 0..Len(BootPrio) /\ booted < Len(BootPrio)
    BY <1>1, <1>t, Zenon DEF BootTask, TypeOK
  <2>2. booted + 1 \in 0..Len(BootPrio) /\ BootPrio[booted + 1] \in Prios
    BY <2>1, BootType, Zenon
  <2> QED
    BY <1>1, <1>c, <2>2, Zenon DEF BootTask
<1>2. CASE SvcTail
  BY <1>2, <1>t DEF SvcTail, TypeOK, Modes, States, Calls, RequestContextSwitch
<1>3. CASE SysYield
  BY <1>3, <1>t DEF SysYield, TypeOK, Modes, States, Calls
<1>4. CASE SysTaskCreate
  BY <1>4, <1>c, <1>t, UseAssumption DEF SysTaskCreate, TypeOK
<1>5. CASE SysSemCreate
  <2>1. PICK s \in Sems, k \in 0..MaxCount :
          /\ sem_state' = [sem_state EXCEPT ![s] = "OPEN"]
          /\ count' = [count EXCEPT ![s] = k]
          /\ sem_queue' = [sem_queue EXCEPT ![s] = <<>>]
    BY <1>5, LeastFreeSem DEF SysSemCreate
  <2>2. /\ sem_state' \in [Sems -> {"UNUSED", "OPEN"}]
        /\ count' \in [Sems -> 0..MaxCount]
        /\ sem_queue' \in [Sems -> Seq(Tasks)]
    <3>1. /\ sem_state \in [Sems -> {"UNUSED", "OPEN"}]
          /\ count \in [Sems -> 0..MaxCount]
          /\ sem_queue \in [Sems -> Seq(Tasks)]
      BY <1>t DEF TypeOK
    <3>2. <<>> \in Seq(Tasks)
      OBVIOUS
    <3> QED
      BY <2>1, <3>1, <3>2, Zenon
  <2> QED
    BY <1>5, <1>t, <2>2 DEF SysSemCreate, TypeOK, Modes, States
<1>6. ASSUME NEW s \in Sems, SysSemTake(s)
      PROVE  TypeOK'
  <2>1. count[s] - 1 \in 0..MaxCount
    <3>1. count[s] \in 0..MaxCount /\ count[s] > 0
      BY <1>6, <1>t DEF SysSemTake, TypeOK
    <3> QED
      BY <3>1, CountType, Zenon
  <2> QED
    BY <1>6, <1>t, <2>1 DEF SysSemTake, TypeOK, Modes, States
<1>7. ASSUME NEW s \in Sems, SysSemBlock(s)
      PROVE  TypeOK'
  <2>1. current_task \in Tasks /\ Append(sem_queue[s], current_task) \in Seq(Tasks)
    BY <1>7, <1>t, AppendKeeps DEF SysSemBlock, Calls, TypeOK
  <2> QED
    BY <1>7, <1>t, <2>1 DEF SysSemBlock, TypeOK, Modes, States
<1>p. ASSUME NEW s \in Sems, SemaphorePost(s), mode' \in Modes
      PROVE  TypeOK'
  <2> DEFINE wakes(t) ==
               /\ state' = [state EXCEPT ![t] = "READY"]
               /\ waiting_on' = [waiting_on EXCEPT ![t] = None]
               /\ waiting_on_type' = [waiting_on_type EXCEPT ![t] = "NONE"]
               /\ Joins(t, ready_queue, ready_queue')
               /\ Leaves(t, sem_queue[s], sem_queue'[s])
               /\ sem_queue' = [sem_queue EXCEPT ![s] = sem_queue'[s]]
               /\ count' = count
             counts ==
               /\ UNCHANGED <<state, waiting_on, waiting_on_type,
                              ready_queue, sem_queue>>
               /\ count[s] < MaxCount /\ count' = [count EXCEPT ![s] = @ + 1]
  <2>1. (\E t \in Tasks : wakes(t)) \/ counts
    BY <1>p, PostFacts, Zenon
  <2>2. UNCHANGED <<sem_state, prioVars, mutexVars, sleepVars, cpuVars,
                    loopVars>>
    BY <1>p DEF SemaphorePost
  <2>3. CASE \E t \in Tasks : wakes(t)
    <3>1. PICK t \in Tasks : wakes(t)
      BY <2>3
    <3>2. ready_queue' \in Seq(Tasks) /\ sem_queue' \in [Sems -> Seq(Tasks)]
      BY <1>t, <3>1 DEF Joins, Leaves, TypeOK
    <3>3. /\ state' = [state EXCEPT ![t] = "READY"]
          /\ waiting_on' = [waiting_on EXCEPT ![t] = None]
          /\ waiting_on_type' = [waiting_on_type EXCEPT ![t] = "NONE"]
          /\ count' = count
      BY <3>1
    <3> QED
      BY <1>p, <1>t, <2>2, <3>2, <3>3 DEF TypeOK, Modes, States
  <2>4. CASE counts
    <3>1. count[s] + 1 \in 0..MaxCount
      BY <1>t, <2>4, CountType DEF TypeOK
    <3>2. count' \in [Sems -> 0..MaxCount]
      BY <1>t, <2>4, <3>1 DEF TypeOK
    <3> QED
      BY <1>p, <1>t, <2>2, <2>4, <3>2 DEF TypeOK, Modes, States
  <2> QED
    BY <2>1, <2>3, <2>4
<1>8. ASSUME NEW s \in Sems, SysSemPost(s)
      PROVE  TypeOK'
  BY <1>8, <1>p DEF SysSemPost, Modes
<1>9. ASSUME NEW s \in Sems, SysSemClose(s)
      PROVE  TypeOK'
  <2>1. PICK drained \in SUBSET Tasks :
          /\ waiting_on' = [t \in Tasks |->
                              IF t \in drained THEN None ELSE waiting_on[t]]
          /\ waiting_on_type' = [t \in Tasks |-> IF t \in drained THEN "NONE"
                                                 ELSE waiting_on_type[t]]
    BY <1>9 DEF SysSemClose
  <2>2. /\ waiting_on' \in [Tasks -> Nat]
        /\ waiting_on_type' \in [Tasks -> {"NONE", "SEM", "MUTEX"}]
        /\ \A t \in Tasks :
             /\ waiting_on_type'[t] = "SEM" => waiting_on'[t] \in Sems
             /\ waiting_on_type'[t] = "MUTEX" => waiting_on'[t] \in Mutexes
    BY <1>t, <2>1 DEF TypeOK
  <2>3. /\ sem_queue' \in [Sems -> Seq(Tasks)]
        /\ sem_state' \in [Sems -> {"UNUSED", "OPEN"}]
    <3>1. /\ sem_state \in [Sems -> {"UNUSED", "OPEN"}]
          /\ sem_queue \in [Sems -> Seq(Tasks)]
      BY <1>t DEF TypeOK
    <3>2. <<>> \in Seq(Tasks)
      OBVIOUS
    <3>3. /\ sem_queue' = [sem_queue EXCEPT ![s] = <<>>]
          /\ sem_state' = [sem_state EXCEPT ![s] = "UNUSED"]
      BY <1>9 DEF SysSemClose
    <3> QED
      BY <3>1, <3>2, <3>3, Zenon
  <2> QED
    BY <1>9, <1>t, <2>2, <2>3 DEF SysSemClose, TypeOK, Modes, States
<1>10. ASSUME NEW m \in Mutexes, SysMutexTake(m)
      PROVE  TypeOK'
  BY <1>10, <1>t, OwnedTypes DEF SysMutexTake, Calls, Heads, Links, TypeOK, Modes, States
<1>11. ASSUME NEW m \in Mutexes, SysMutexBlock(m)
      PROVE  TypeOK'
  <2>1. /\ current_task \in Tasks
        /\ OrderedPush(mutex_queue[m], current_task, effective_priority)
             \in Seq(Tasks)
    BY <1>11, <1>t, PushProperties DEF SysMutexBlock, Calls, TypeOK
  <2> QED
    BY <1>11, <1>t, <2>1 DEF SysMutexBlock, TypeOK, Modes, States
<1>u. ASSUME NEW m \in Mutexes, current_task \in Tasks, MutexUnlock(m),
             mode' \in Modes, exit_mutex' \in Mutexes \cup {None}
      PROVE  TypeOK'
  <2>1. /\ effective_priority' \in [Tasks -> Prios]
        /\ owned_mutexes' \in Heads /\ next_owned' \in Links
        /\ state' \in [Tasks -> States]
        /\ owner' \in [Mutexes -> Tasks \cup {None}]
        /\ mutex_queue' \in [Mutexes -> Seq(Tasks)]
        /\ ready_queue' \in Seq(Tasks)
    <3>1. /\ state \in [Tasks -> States] /\ ready_queue \in Seq(Tasks)
          /\ owner \in [Mutexes -> Tasks \cup {None}]
          /\ mutex_queue \in [Mutexes -> Seq(Tasks)]
      BY <1>t DEF TypeOK
    <3>2. \/ UNCHANGED <<state, ready_queue, mutex_queue>>
             /\ owner' = [owner EXCEPT ![m] = None]
          \/ \E n \in Tasks :
               /\ owner' = [owner EXCEPT ![m] = n]
               /\ state' = [state EXCEPT ![n] = "READY"]
               /\ Joins(n, ready_queue, ready_queue')
               /\ Leaves(n, mutex_queue[m], mutex_queue'[m])
               /\ mutex_queue' = [mutex_queue EXCEPT ![m] = mutex_queue'[m]]
      BY <1>u, UnlockFacts
    <3>3. /\ effective_priority' \in [Tasks -> Prios]
          /\ owned_mutexes' \in Heads /\ next_owned' \in Links
      BY <1>u, UnlockFacts
    <3>4. CASE /\ UNCHANGED <<state, ready_queue, mutex_queue>>
               /\ owner' = [owner EXCEPT ![m] = None]
      BY <3>1, <3>3, <3>4
    <3>5. ASSUME NEW n \in Tasks,
                 owner' = [owner EXCEPT ![m] = n],
                 state' = [state EXCEPT ![n] = "READY"],
                 Joins(n, ready_queue, ready_queue'),
                 Leaves(n, mutex_queue[m], mutex_queue'[m]),
                 mutex_queue' = [mutex_queue EXCEPT ![m] = mutex_queue'[m]]
          PROVE  /\ state' \in [Tasks -> States]
                 /\ owner' \in [Mutexes -> Tasks \cup {None}]
                 /\ mutex_queue' \in [Mutexes -> Seq(Tasks)]
                 /\ ready_queue' \in Seq(Tasks)
      <4>1. ready_queue' \in Seq(Tasks) /\ mutex_queue'[m] \in Seq(Tasks)
        BY <3>5 DEF Joins, Leaves
      <4>2. state' \in [Tasks -> States] /\ owner' \in [Mutexes -> Tasks \cup {None}]
        BY <3>1, <3>5 DEF States
      <4>3. mutex_queue' \in [Mutexes -> Seq(Tasks)]
        BY <3>1, <3>5, <4>1
      <4> QED
        BY <4>1, <4>2, <4>3
    <3> QED
      BY <3>2, <3>3, <3>4, <3>5
  <2>2. /\ waiting_on' \in [Tasks -> Nat]
        /\ waiting_on_type' \in [Tasks -> {"NONE", "SEM", "MUTEX"}]
        /\ \A t \in Tasks :
             /\ waiting_on_type'[t] = "SEM" => waiting_on'[t] \in Sems
             /\ waiting_on_type'[t] = "MUTEX" => waiting_on'[t] \in Mutexes
    <3>1. /\ waiting_on \in [Tasks -> Nat]
          /\ waiting_on_type \in [Tasks -> {"NONE", "SEM", "MUTEX"}]
          /\ \A t \in Tasks :
               /\ waiting_on_type[t] = "SEM" => waiting_on[t] \in Sems
               /\ waiting_on_type[t] = "MUTEX" => waiting_on[t] \in Mutexes
      BY <1>t DEF TypeOK
    <3>2. \/ UNCHANGED <<waiting_on, waiting_on_type>>
          \/ \E n \in Tasks :
               /\ waiting_on' = [waiting_on EXCEPT ![n] = None]
               /\ waiting_on_type' = [waiting_on_type EXCEPT ![n] = "NONE"]
      BY <1>u, UnlockFacts
    <3> QED
      BY <3>1, <3>2
  <2> QED
    BY <1>u, <1>t, <2>1, <2>2 DEF MutexUnlock, Heads, Links, TypeOK, Modes, States
<1>12. ASSUME NEW m \in Mutexes, SysMutexUnlock(m)
      PROVE  TypeOK'
  BY <1>12, <1>t, <1>u DEF SysMutexUnlock, Calls, TypeOK, Modes, States
<1>13. CASE TaskRaisePriority
  <2> DEFINE w == waiting_on[raise_task]
             eff == [effective_priority EXCEPT ![raise_task] = raise_prio]
  <2>1. /\ raise_task \in Tasks
        /\ Reorder(ready_queue, raise_task, eff) \in Seq(Tasks)
        /\ w \in Mutexes =>
             Reorder(mutex_queue[w], raise_task, eff) \in Seq(Tasks)
    <3>1. raise_task \in Tasks /\ ready_queue \in Seq(Tasks)
          /\ mutex_queue \in [Mutexes -> Seq(Tasks)]
      BY <1>13, <1>t DEF TaskRaisePriority, TypeOK
    <3>2. /\ IsInjective(ready_queue)
          /\ \A m \in Mutexes : IsInjective(mutex_queue[m])
      BY DEF IInv, EveryTaskOnItsList
    <3> HIDE DEF w, eff
    <3> QED
      BY <3>1, <3>2, ReorderProperties
  <2> QED
    BY <1>13, <1>t, <2>1 DEF TaskRaisePriority, TypeOK, Modes, States
<1>14. CASE RaiseDone
  BY <1>14, <1>t DEF RaiseDone, TypeOK, Modes, States, Calls
<1>15. CASE SysTaskExit
  BY <1>15, <1>t DEF SysTaskExit, TypeOK, Modes, States, Calls
<1>16. CASE ExitUnlock
  <2>1. exit_mutex \in Mutexes /\ current_task \in Tasks
    BY <1>16, <1>t DEF ExitUnlock, IInv, RunningPhase, TypeOK
  <2>2. next_owned' \in Links
    BY <1>16, <2>1, UnlockFacts DEF ExitUnlock
  <2> QED
    BY <1>16, <1>t, <1>u, <2>1, <2>2 DEF ExitUnlock, Links, TypeOK, Modes, States
<1>17. CASE ExitSkip
  BY <1>17, <1>t DEF ExitSkip, TypeOK, Modes, States, Calls
<1>18. CASE ExitDone
  BY <1>18, <1>t DEF ExitDone, TypeOK, Modes, States, Calls
<1>19. CASE SysSleep
  <2>1. PICK n \in 1..MaxSleep :
          /\ wake_tick' = [wake_tick EXCEPT
                             ![current_task] = (system_ticks + n) % TickMod]
          /\ state' = [state EXCEPT ![current_task] = "SLEEPING"]
          /\ sleep_list' = OrderedPush(sleep_list, current_task, wake_tick')
    BY <1>19 DEF SysSleep
  <2>2. system_ticks + n \in Nat
    BY <1>t, SizesAssumption DEF TypeOK
  <2>3. (system_ticks + n) % TickMod \in 0..(TickMod - 1)
    BY <2>2, TickType
  <2>4. sleep_list' \in Seq(Tasks)
    <3>1. current_task \in Tasks /\ sleep_list \in Seq(Tasks)
      BY <1>19, <1>t DEF SysSleep, Calls, TypeOK
    <3> QED
      BY <2>1, <3>1, PushProperties
  <2> QED
    BY <1>19, <1>t, <2>1, <2>3, <2>4 DEF SysSleep, TypeOK, Modes, States
<1>20. CASE UsartReceive
  BY <1>20, <1>t, <1>p DEF UsartReceive, TypeOK
<1>21. CASE SysTick
  <2>1. system_ticks + 1 \in Nat
    BY <1>t, SizesAssumption DEF TypeOK
  <2>2. (system_ticks + 1) % TickMod \in 0..(TickMod - 1)
    BY <2>1, TickType
  <2> QED
    BY <1>21, <1>t, <2>2 DEF SysTick, TypeOK, Modes, States
<1>22. CASE SleepTick
  <2>1. Head(sleep_list) \in Tasks /\ Tail(sleep_list) \in Seq(Tasks)
    BY <1>22, <1>t DEF SleepTick, TypeOK
  <2>2. Reorder(ready_queue, Head(sleep_list), effective_priority) \in Seq(Tasks)
    BY <1>t, <2>1, ReorderProperties DEF TypeOK, IInv, EveryTaskOnItsList
  <2> QED
    BY <1>22, <1>t, <2>1, <2>2 DEF SleepTick, TypeOK, Modes, States
<1>23. CASE SysTickDone
  BY <1>23, <1>t DEF SysTickDone, TypeOK, Modes, States, Calls, RequestContextSwitch
<1>24. CASE PendSvEnter
  BY <1>24, <1>t DEF PendSvEnter, TypeOK, Modes, States, Calls
<1>25. CASE SchedulerSelectNext
  <2>1. /\ next_task' \in Tasks /\ ready_queue' \in Seq(Tasks)
        /\ state' \in [Tasks -> States]
    BY <1>25, SelectFacts
  <2> QED
    BY <1>25, <1>t, <2>1 DEF SchedulerSelectNext, TypeOK, Modes, States
<1>26. CASE RestoreTask
  BY <1>26, <1>t DEF RestoreTask, TypeOK, Modes, States, Calls
<1>27. CASE UNCHANGED vars
  BY <1>27, <1>t DEF vars, TypeOK
<1> QED
  BY <1>1, <1>2, <1>3, <1>4, <1>5, <1>6, <1>7, <1>8, <1>9, <1>10, <1>11, <1>12, <1>13, <1>14, <1>15, <1>16, <1>17, <1>18, <1>19, <1>20, <1>21, <1>22, <1>23, <1>24, <1>25, <1>26, <1>27 DEF Next

-----------------------------------------------------------------------------
(* Phases of an exception.                                                 *)

Phases == BootPhase /\ IdleIsThere /\ RunningPhase

cpuPhase == <<current_task, next_task, pendsv, in_tick, booted>>

\* The mode stays, or the system call of a task goes on to SvcTail.
ModeStays ==
  \/ mode' = mode
  \/ /\ mode = "thread" /\ mode' = "svc" /\ ~pendsv /\ ~in_tick
     /\ current_task \in Tasks \ {Idle}

\* A task that becomes READY was neither RUNNING nor, in the loop of
\* mutex_unlock_all_owned, the task that exits.
LEMMA WakeKeepsPhases ==
  ASSUME IInv, NEW t \in Tasks, state[t] \notin {"RUNNING", "READY"},
         mode = "exit" => state[t] # "FINISHED",
         booted > 0 \/ state[t] # "UNUSED",
         UNCHANGED cpuPhase, ModeStays,
         state' = [state EXCEPT ![t] = "READY"]
  PROVE  Phases'
<1>1. state \in [Tasks -> States] /\ Idle \in Tasks /\ None \notin Tasks
  BY Constants DEF IInv, TypeOK
<1>2. booted > 0 => booted # 0
  BY BootAssumption DEF IInv, TypeOK
<1>3. BootPhase' /\ IdleIsThere'
  BY <1>1, <1>2 DEF IInv, BootPhase, IdleIsThere, cpuPhase, ModeStays
<1>4. RunningPhase'
  BY <1>1 DEF IInv, RunningPhase, cpuPhase, ModeStays
<1> QED
  BY <1>3, <1>4 DEF Phases

\* The current task, which is not idle, stops by a system call.
LEMMA StopKeepsPhases ==
  ASSUME IInv, NEW name, Calls(name),
         NEW st \in {"BLOCKED", "SLEEPING", "FINISHED"},
         state' = [state EXCEPT ![current_task] = st],
         UNCHANGED <<current_task, next_task, pendsv, in_tick, booted>>,
         mode' \in {"svc", "raise", "exit"},
         mode' = "exit" => st = "FINISHED"
  PROVE  Phases'
<1>1. /\ state \in [Tasks -> States] /\ Idle \in Tasks
      /\ current_task \in Tasks \ {Idle}
  BY Constants DEF IInv, TypeOK, Calls
<1>2. BootPhase' /\ IdleIsThere'
  BY <1>1 DEF IInv, BootPhase, IdleIsThere, Calls
<1>3. RunningPhase'
  BY <1>1 DEF IInv, RunningPhase, Calls
<1> QED
  BY <1>2, <1>3 DEF Phases

\* Every step keeps the phases.
LEMMA PhaseStep ==
  ASSUME IInv, [Next]_vars
  PROVE  Phases'
<1>b. booted \in 0..Len(BootPrio) /\ Len(BootPrio) \in Nat \ {0}
  BY BootAssumption DEF IInv, TypeOK
<1>t. /\ state \in [Tasks -> States] /\ Idle \in Tasks /\ None \notin Tasks
      /\ current_task \in Tasks \cup {None} /\ mode \in Modes
      /\ in_tick \in BOOLEAN /\ pendsv \in BOOLEAN
  BY Constants DEF IInv, TypeOK
<1>a. BootPhase /\ IdleIsThere /\ RunningPhase
  BY DEF IInv
<1>k. ASSUME UNCHANGED <<state, cpuPhase>>, ModeStays
      PROVE  Phases'
  BY <1>a, <1>k, <1>t DEF Phases, BootPhase, IdleIsThere, RunningPhase, cpuPhase,
                    ModeStays
<1>p. ASSUME NEW s \in Sems, SemaphorePost(s), ModeStays
      PROVE  Phases'
  <2>1. UNCHANGED cpuPhase
    BY <1>p DEF SemaphorePost, cpuPhase
  <2>2. \/ UNCHANGED state
        \/ \E t \in Tasks : /\ state[t] = "BLOCKED"
                             /\ state' = [state EXCEPT ![t] = "READY"]
    BY <1>p, PostFacts DEF WaitsFor
  <2> QED
    BY <1>p, <1>k, <2>1, <2>2, WakeKeepsPhases
<1>u. ASSUME NEW m \in Mutexes, current_task \in Tasks, MutexUnlock(m),
             ModeStays
      PROVE  Phases'
  <2>1. UNCHANGED cpuPhase
    BY <1>u DEF MutexUnlock, cpuPhase
  <2>2. \/ UNCHANGED state
        \/ \E t \in Tasks : /\ state[t] = "BLOCKED"
                             /\ state' = [state EXCEPT ![t] = "READY"]
    BY <1>u, UnlockFacts DEF WaitsFor
  <2> QED
    BY <1>u, <1>k, <2>1, <2>2, WakeKeepsPhases
<1>c. ASSUME NEW name, Calls(name)
      PROVE  /\ current_task \in Tasks \ {Idle}
             /\ mode = "thread" /\ ~pendsv /\ ~in_tick
  BY <1>c, <1>t DEF Calls
<1>1. CASE BootTask
  <2>1. booted < Len(BootPrio) /\ booted' = booted + 1
    BY <1>1 DEF BootTask
  <2>2. /\ booted # Len(BootPrio) /\ booted' > 0 /\ booted' # 0
        /\ booted = 0 \/ booted > 0
    BY <1>b, <2>1
  <2>3. /\ current_task = None /\ ~pendsv /\ ~in_tick /\ mode = "thread"
    BY <1>a, <2>2 DEF BootPhase
  <2>4. BootPrio[booted + 1] \in Prios /\ CreateTask(BootPrio[booted + 1])
    BY <1>1, <1>b, <2>1, BootType DEF BootTask
  <2>5. PICK t \in Tasks : /\ state[t] \in {"UNUSED", "FINISHED"}
                           /\ \A u \in FreeSlots : t <= u
                           /\ state' = [state EXCEPT ![t] = "READY"]
    BY <2>4, CreateFacts
  <2>6. UNCHANGED <<current_task, next_task, pendsv, in_tick, mode>>
    BY <2>4 DEF CreateTask
  <2>7. booted = 0 => t = Idle
    <3>1. booted = 0 => Idle \in FreeSlots
      BY <1>a, <1>t DEF BootPhase, FreeSlots
    <3>2. t \in Nat /\ Idle \in Nat /\ Idle <= t
      BY Constants
    <3> QED
      BY <2>5, <3>1, <3>2
  <2>8. BootPhase'
    BY <2>2, <2>3, <2>6 DEF BootPhase
  <2>9. IdleIsThere'
    BY <1>a, <1>t, <2>2, <2>5, <2>7 DEF IdleIsThere
  <2>10. RunningPhase'
    BY <1>a, <1>t, <2>3, <2>5, <2>6 DEF RunningPhase
  <2> QED
    BY <2>8, <2>9, <2>10 DEF Phases
<1>2. CASE SvcTail
  <2>1. /\ UNCHANGED <<state, current_task, next_task, in_tick, booted>>
        /\ mode = "svc" /\ mode' = "thread" /\ ~pendsv /\ ~in_tick
        /\ current_task \in Tasks \ {Idle}
    BY <1>2, <1>a DEF SvcTail, RunningPhase
  <2>2. booted = Len(BootPrio)
    BY <1>a, <2>1 DEF BootPhase
  <2>3. state[Idle] = "READY"
    BY <1>a, <1>b, <1>t, <2>1, <2>2 DEF IdleIsThere, RunningPhase
  <2>4. ready_queue # <<>>
    <3>1. In(Idle, ready_queue)
      BY <1>t, <2>3 DEF IInv, EveryTaskOnItsList
    <3> QED
      BY <3>1 DEF In
  <2>5. ~pendsv' => state[current_task] = "RUNNING"
    BY <1>2, <2>1, <2>4 DEF SvcTail, RequestContextSwitch
  <2>6. BootPhase' /\ IdleIsThere'
    BY <1>a, <2>1, <2>2 DEF BootPhase, IdleIsThere
  <2>7. RunningPhase'
    BY <1>a, <2>1, <2>5 DEF RunningPhase
  <2> QED
    BY <2>6, <2>7 DEF Phases
<1>3. CASE SysYield
  BY <1>3, <1>c, <1>k DEF SysYield, ModeStays, cpuPhase
<1>4. CASE SysTaskCreate
  <2>1. PICK p \in Prios : CreateTask(p)
    BY <1>4, UseAssumption DEF SysTaskCreate
  <2>2. PICK t \in Tasks : /\ state[t] \in {"UNUSED", "FINISHED"}
                           /\ state' = [state EXCEPT ![t] = "READY"]
    BY <2>1, CreateFacts
  <2>3. UNCHANGED cpuPhase /\ mode' = mode
    BY <1>4, <2>1 DEF CreateTask, SysTaskCreate, cpuPhase
  <2>4. mode = "thread" /\ current_task # None
    BY <1>4 DEF SysTaskCreate, Calls
  <2>5. booted > 0
    BY <1>a, <1>b, <2>4 DEF BootPhase
  <2> QED
    BY <2>2, <2>3, <2>4, <2>5, WakeKeepsPhases DEF ModeStays
<1>5. CASE SysSemCreate
  BY <1>5, <1>k DEF SysSemCreate, ModeStays, cpuPhase
<1>6. ASSUME NEW s \in Sems, SysSemTake(s)
      PROVE  Phases'
  BY <1>6, <1>k DEF SysSemTake, ModeStays, cpuPhase
<1>7. ASSUME NEW s \in Sems, SysSemBlock(s)
      PROVE  Phases'
  BY <1>7, StopKeepsPhases DEF SysSemBlock
<1>8. ASSUME NEW s \in Sems, SysSemPost(s)
      PROVE  Phases'
  BY <1>8, <1>c, <1>p DEF SysSemPost, ModeStays
<1>9. ASSUME NEW s \in Sems, SysSemClose(s)
      PROVE  Phases'
  BY <1>9, <1>k DEF SysSemClose, ModeStays, cpuPhase
<1>10. ASSUME NEW m \in Mutexes, SysMutexTake(m)
      PROVE  Phases'
  BY <1>10, <1>k DEF SysMutexTake, ModeStays, cpuPhase
<1>11. ASSUME NEW m \in Mutexes, SysMutexBlock(m)
      PROVE  Phases'
  BY <1>11, StopKeepsPhases DEF SysMutexBlock
<1>12. ASSUME NEW m \in Mutexes, SysMutexUnlock(m)
      PROVE  Phases'
  <2>1. Calls("mutex_unlock") /\ MutexUnlock(m) /\ mode' \in {"svc", "thread"}
    BY <1>12 DEF SysMutexUnlock
  <2> QED
    BY <1>c, <1>u, <2>1 DEF ModeStays
<1>13. CASE TaskRaisePriority
  BY <1>13, <1>k DEF TaskRaisePriority, ModeStays, cpuPhase
<1>14. CASE RaiseDone
  BY <1>14, <1>a DEF RaiseDone, Phases, BootPhase, IdleIsThere, RunningPhase
<1>15. CASE SysTaskExit
  BY <1>15, StopKeepsPhases DEF SysTaskExit
<1>16. CASE ExitUnlock
  <2>1. exit_mutex \in Mutexes /\ current_task \in Tasks
    BY <1>16, <1>a DEF ExitUnlock, RunningPhase, IInv, TypeOK
  <2> QED
    BY <1>16, <1>u, <2>1 DEF ExitUnlock, ModeStays
<1>17. CASE ExitSkip
  BY <1>17, <1>k DEF ExitSkip, ModeStays, cpuPhase
<1>18. CASE ExitDone
  BY <1>18, <1>a DEF ExitDone, Phases, BootPhase, IdleIsThere, RunningPhase
<1>19. CASE SysSleep
  BY <1>19, StopKeepsPhases DEF SysSleep
<1>20. CASE UsartReceive
  BY <1>20, <1>p, Constants DEF UsartReceive, ModeStays
<1>21. CASE SysTick
  BY <1>21, <1>a DEF SysTick, Phases, BootPhase, IdleIsThere, RunningPhase
<1>22. CASE SleepTick
  <2>1. /\ Head(sleep_list) \in Tasks /\ In(Head(sleep_list), sleep_list)
    BY <1>22, TailProperties DEF SleepTick, IInv, TypeOK, EveryTaskOnItsList
  <2>2. state[Head(sleep_list)] = "SLEEPING"
    BY <2>1 DEF IInv, EveryTaskOnItsList
  <2>3. /\ state' = [state EXCEPT ![Head(sleep_list)] = "READY"]
        /\ UNCHANGED cpuPhase /\ mode' = mode
    BY <1>22 DEF SleepTick, cpuPhase
  <2> QED
    BY <2>1, <2>2, <2>3, WakeKeepsPhases DEF ModeStays
<1>23. CASE SysTickDone
  <2>1. /\ UNCHANGED <<state, current_task, next_task, mode, booted>>
        /\ in_tick /\ ~in_tick' /\ (pendsv => pendsv')
    BY <1>23, <1>t DEF SysTickDone, RequestContextSwitch
  <2>2. booted = Len(BootPrio)
    BY <1>a, <2>1 DEF BootPhase
  <2>3. mode \notin {"svc", "raise", "exit"}
    BY <1>a, <2>1 DEF RunningPhase
  <2>4. BootPhase' /\ IdleIsThere'
    BY <1>a, <2>1, <2>2 DEF BootPhase, IdleIsThere
  <2>5. RunningPhase'
    BY <1>a, <2>1, <2>3 DEF RunningPhase
  <2> QED
    BY <2>4, <2>5 DEF Phases
<1>24. CASE PendSvEnter
  BY <1>24, <1>a DEF PendSvEnter, Phases, BootPhase, IdleIsThere, RunningPhase
<1>25. CASE SchedulerSelectNext
  <2>1. PICK n \in Tasks :
          /\ next_task' = n
          /\ In(n, ready_queue) \/ (n = current_task /\ PutCurrent(state))
          /\ state'[n] = "RUNNING"
          /\ \A t \in Tasks \ {n} :
               state'[t] = IF t = current_task /\ PutCurrent(state)
                           THEN "READY" ELSE state[t]
    BY <1>25, SelectFacts
  <2>2. /\ mode = "entered" /\ ~in_tick /\ mode' = "selected"
        /\ UNCHANGED <<current_task, in_tick, pendsv, booted>>
    BY <1>25 DEF SchedulerSelectNext
  <2>3. booted = Len(BootPrio)
    BY <1>a, <2>2 DEF BootPhase
  <2>4. BootPhase'
    BY <1>b, <2>2, <2>3 DEF BootPhase
  <2>5. IdleIsThere'
    BY <1>a, <1>t, <2>1, <2>2 DEF IdleIsThere
  <2>6. \A t \in Tasks : state'[t] = "RUNNING" => t = n
    <3> SUFFICES ASSUME NEW t \in Tasks \ {n}, state'[t] = "RUNNING"
                 PROVE  FALSE
      OBVIOUS
    <3>1. state[t] = "RUNNING" /\ ~(t = current_task /\ PutCurrent(state))
      BY <2>1
    <3>2. t = current_task
      BY <1>a, <2>2, <3>1 DEF RunningPhase
    <3> QED
      BY <1>t, <3>1, <3>2 DEF PutCurrent
  <2>7. RunningPhase'
    BY <2>1, <2>2, <2>6 DEF RunningPhase
  <2> QED
    BY <2>4, <2>5, <2>7 DEF Phases
<1>26. CASE RestoreTask
  BY <1>26, <1>a, <1>t DEF RestoreTask, Phases, BootPhase, IdleIsThere, RunningPhase
<1>27. CASE UNCHANGED vars
  BY <1>27, <1>k DEF vars, cpuPhase, ModeStays
<1> QED
  BY <1>1, <1>2, <1>3, <1>4, <1>5, <1>6, <1>7, <1>8, <1>9, <1>10, <1>11,
     <1>12, <1>13, <1>14, <1>15, <1>16, <1>17, <1>18, <1>19, <1>20, <1>21,
     <1>22, <1>23, <1>24, <1>25, <1>26, <1>27 DEF Next

-----------------------------------------------------------------------------
(* Lists.                                                                  *)

\* The lists of one task.
Placed(t) ==
  /\ In(t, ready_queue) <=> state[t] = "READY"
  /\ In(t, sleep_list) <=> state[t] = "SLEEPING"
  /\ \A s \in Sems : In(t, sem_queue[s]) <=> WaitsFor(t, "SEM", s)
  /\ \A m \in Mutexes : In(t, mutex_queue[m]) <=> WaitsFor(t, "MUTEX", m)

\* No list holds a task twice.
NoDuplicates ==
  /\ IsInjective(ready_queue) /\ IsInjective(sleep_list)
  /\ \A s \in Sems : IsInjective(sem_queue[s])
  /\ \A m \in Mutexes : IsInjective(mutex_queue[m])

\* The two parts of the property.
LEMMA ListParts ==
  EveryTaskOnItsList <=> (\A t \in Tasks : Placed(t)) /\ NoDuplicates
  BY Zenon DEF EveryTaskOnItsList, Placed, NoDuplicates

\* Every step keeps every task on the list its state names.
LEMMA ListStep ==
  ASSUME IInv, [Next]_vars
  PROVE  EveryTaskOnItsList'
<1>t. /\ state \in [Tasks -> States] /\ ready_queue \in Seq(Tasks)
      /\ waiting_on \in [Tasks -> Nat]
      /\ waiting_on_type \in [Tasks -> {"NONE", "SEM", "MUTEX"}]
      /\ sleep_list \in Seq(Tasks) /\ sem_queue \in [Sems -> Seq(Tasks)]
      /\ mutex_queue \in [Mutexes -> Seq(Tasks)]
      /\ current_task \in Tasks \cup {None}
      /\ None \notin Tasks
  BY Constants DEF IInv, TypeOK
<1>a. (\A t \in Tasks : Placed(t)) /\ NoDuplicates
  BY ListParts DEF IInv
<1> SUFFICES (\A t \in Tasks : Placed(t)') /\ NoDuplicates'
  BY DEF EveryTaskOnItsList, Placed, NoDuplicates
<1> DEFINE Goal == (\A t \in Tasks : Placed(t)') /\ NoDuplicates'
<1>k. ASSUME UNCHANGED <<state, waitVars, ready_queue, sleep_list, sem_queue,
                         mutex_queue>>
      PROVE  Goal
  BY <1>a, <1>k DEF Placed, NoDuplicates, WaitsFor
<1>r. ASSUME NEW name, Calls(name)
      PROVE  current_task \in Tasks /\ state[current_task] = "RUNNING"
  BY <1>r, <1>t DEF Calls, IInv, RunningPhase
<1>c. ASSUME NEW p \in Prios, CreateTask(p)
      PROVE  Goal
  <2>1. PICK t \in Tasks :
          /\ state[t] \in {"UNUSED", "FINISHED"}
          /\ state' = [state EXCEPT ![t] = "READY"]
          /\ waiting_on' = [waiting_on EXCEPT ![t] = None]
          /\ waiting_on_type' = [waiting_on_type EXCEPT ![t] = "NONE"]
          /\ Joins(t, ready_queue, ready_queue')
    BY <1>c, CreateFacts, Zenon
  <2>2. UNCHANGED <<sleep_list, sem_queue, mutex_queue>>
    BY <1>c DEF CreateTask
  <2>3. NoDuplicates'
    BY <1>a, <2>1, <2>2 DEF NoDuplicates, Joins
  <2>4. ASSUME NEW u \in Tasks
        PROVE  Placed(u)'
    BY <1>a, <1>t, <2>1, <2>2 DEF Placed, WaitsFor, Joins
  <2> QED
    BY <2>3, <2>4
<1>p. ASSUME NEW s \in Sems, SemaphorePost(s)
      PROVE  Goal
  <2> DEFINE wakes(t) ==
               /\ WaitsFor(t, "SEM", s)
               /\ state' = [state EXCEPT ![t] = "READY"]
               /\ waiting_on' = [waiting_on EXCEPT ![t] = None]
               /\ waiting_on_type' = [waiting_on_type EXCEPT ![t] = "NONE"]
               /\ Joins(t, ready_queue, ready_queue')
               /\ Leaves(t, sem_queue[s], sem_queue'[s])
               /\ sem_queue' = [sem_queue EXCEPT ![s] = sem_queue'[s]]
  <2>1. \/ \E t \in Tasks : wakes(t)
        \/ UNCHANGED <<state, waitVars, ready_queue, sem_queue>>
    BY <1>p, PostFacts
  <2>2. UNCHANGED <<sleep_list, mutex_queue>>
    BY <1>p DEF SemaphorePost
  <2>3. ASSUME NEW t \in Tasks, wakes(t)
        PROVE  Goal
    <3>1. \A r \in Sems \ {s} : sem_queue'[r] = sem_queue[r]
      BY <1>t, <2>3
    <3>2. NoDuplicates'
      BY <1>a, <2>2, <2>3, <3>1 DEF NoDuplicates, Joins, Leaves
    <3>3. /\ \A u : In(u, ready_queue') <=> In(u, ready_queue) \/ u = t
          /\ \A u : In(u, sem_queue'[s]) <=> In(u, sem_queue[s]) /\ u # t
      BY <2>3 DEF Joins, Leaves
    <3>4. \A u \in Tasks \ {t} :
            /\ state'[u] = state[u] /\ waiting_on'[u] = waiting_on[u]
            /\ waiting_on_type'[u] = waiting_on_type[u]
      BY <1>t, <2>3
    <3>5. state[t] = "BLOCKED" /\ waiting_on_type[t] = "SEM" /\ waiting_on[t] = s
          /\ state'[t] = "READY"
      BY <1>t, <2>3 DEF WaitsFor
    <3>6. Placed(t)'
      BY <1>a, <2>2, <3>1, <3>3, <3>5 DEF Placed, WaitsFor
    <3>7. ASSUME NEW u \in Tasks, u # t
          PROVE  Placed(u)'
      BY <1>a, <2>2, <3>1, <3>3, <3>4, <3>7 DEF Placed, WaitsFor
    <3> QED
      BY <3>2, <3>6, <3>7
  <2> QED
    BY <1>k, <2>1, <2>2, <2>3
<1>u. ASSUME NEW m \in Mutexes, current_task \in Tasks, MutexUnlock(m)
      PROVE  Goal
  <2> DEFINE wakes(t) ==
               /\ WaitsFor(t, "MUTEX", m)
               /\ state' = [state EXCEPT ![t] = "READY"]
               /\ waiting_on' = [waiting_on EXCEPT ![t] = None]
               /\ waiting_on_type' = [waiting_on_type EXCEPT ![t] = "NONE"]
               /\ Joins(t, ready_queue, ready_queue')
               /\ Leaves(t, mutex_queue[m], mutex_queue'[m])
               /\ mutex_queue' = [mutex_queue EXCEPT ![m] = mutex_queue'[m]]
  <2>1. \/ \E t \in Tasks : wakes(t)
        \/ UNCHANGED <<state, waitVars, ready_queue, mutex_queue>>
    BY <1>u, UnlockFacts
  <2>2. UNCHANGED <<sleep_list, sem_queue>>
    BY <1>u DEF MutexUnlock
  <2>3. ASSUME NEW t \in Tasks, wakes(t)
        PROVE  Goal
    <3>1. \A r \in Mutexes \ {m} : mutex_queue'[r] = mutex_queue[r]
      BY <1>t, <2>3
    <3>2. NoDuplicates'
      BY <1>a, <2>2, <2>3, <3>1 DEF NoDuplicates, Joins, Leaves
    <3>3. /\ \A u : In(u, ready_queue') <=> In(u, ready_queue) \/ u = t
          /\ \A u : In(u, mutex_queue'[m]) <=> In(u, mutex_queue[m]) /\ u # t
      BY <2>3 DEF Joins, Leaves
    <3>4. \A u \in Tasks \ {t} :
            /\ state'[u] = state[u] /\ waiting_on'[u] = waiting_on[u]
            /\ waiting_on_type'[u] = waiting_on_type[u]
      BY <1>t, <2>3
    <3>5. state[t] = "BLOCKED" /\ waiting_on_type[t] = "MUTEX" /\ waiting_on[t] = m
          /\ state'[t] = "READY"
      BY <1>t, <2>3 DEF WaitsFor
    <3>6. Placed(t)'
      BY <1>a, <2>2, <3>1, <3>3, <3>5 DEF Placed, WaitsFor
    <3>7. ASSUME NEW u \in Tasks, u # t
          PROVE  Placed(u)'
      BY <1>a, <2>2, <3>1, <3>3, <3>4, <3>7 DEF Placed, WaitsFor
    <3> QED
      BY <3>2, <3>6, <3>7
  <2> QED
    BY <1>k, <2>1, <2>2, <2>3
<1>1. CASE BootTask
  <2>1. BootPrio[booted + 1] \in Prios
    BY <1>1, BootType DEF BootTask, IInv, TypeOK
  <2> QED
    BY <1>1, <1>c, <2>1 DEF BootTask
<1>2. CASE SvcTail
  BY <1>2, <1>k DEF SvcTail
<1>3. CASE SysYield
  BY <1>3, <1>k DEF SysYield
<1>4. CASE SysTaskCreate
  BY <1>4, <1>c, UseAssumption DEF SysTaskCreate
<1>5. CASE SysSemCreate
  <2>1. PICK s \in Sems : /\ sem_state[s] = "UNUSED"
                          /\ sem_queue' = [sem_queue EXCEPT ![s] = <<>>]
    BY <1>5, LeastFreeSem DEF SysSemCreate
  <2>2. sem_queue[s] = <<>>
    BY <2>1 DEF IInv, UnusedSemsEmpty
  <2>3. sem_queue' = sem_queue
    BY <1>t, <2>1, <2>2, Zenon
  <2> QED
    BY <1>5, <1>k, <2>3 DEF SysSemCreate
<1>6. ASSUME NEW s \in Sems, SysSemTake(s)
      PROVE  Goal
  BY <1>6, <1>k DEF SysSemTake
<1>7. ASSUME NEW s \in Sems, SysSemBlock(s)
      PROVE  Goal
  <2>1. current_task \in Tasks /\ state[current_task] = "RUNNING"
    BY <1>7, <1>r DEF SysSemBlock
  <2> DEFINE c == current_task
             r == Append(sem_queue[s], c)
  <2>2. /\ state' = [state EXCEPT ![c] = "BLOCKED"]
        /\ waiting_on' = [waiting_on EXCEPT ![c] = s]
        /\ waiting_on_type' = [waiting_on_type EXCEPT ![c] = "SEM"]
        /\ sem_queue' = [sem_queue EXCEPT ![s] = r]
        /\ UNCHANGED <<ready_queue, sleep_list, mutex_queue>>
    BY <1>7, Zenon DEF SysSemBlock
  <2>3. ~In(c, sem_queue[s]) /\ IsInjective(sem_queue[s])
    BY <1>a, <2>1 DEF Placed, WaitsFor, NoDuplicates
  <2>4. /\ IsInjective(r)
        /\ \A u : In(u, r) <=> In(u, sem_queue[s]) \/ u = c
    BY <1>t, <2>1, <2>3, AppendKeeps
  <2> HIDE DEF c, r
  <2>5. sem_queue'[s] = r /\ \A x \in Sems \ {s} : sem_queue'[x] = sem_queue[x]
    BY <1>t, <2>2
  <2>6. NoDuplicates'
    BY <1>a, <2>2, <2>4, <2>5 DEF NoDuplicates
  <2>7. ASSUME NEW u \in Tasks
        PROVE  Placed(u)'
    BY <1>a, <1>t, <2>1, <2>2, <2>4, <2>5 DEF Placed, WaitsFor, c
  <2> QED
    BY <2>6, <2>7
<1>8. ASSUME NEW s \in Sems, SysSemPost(s)
      PROVE  Goal
  BY <1>8, <1>p DEF SysSemPost
<1>9. ASSUME NEW s \in Sems, SysSemClose(s)
      PROVE  Goal
  <2> DEFINE drained == {t \in Tasks : In(t, sem_queue[s])}
  <2>1. /\ waiting_on' = [t \in Tasks |->
                            IF t \in drained THEN None ELSE waiting_on[t]]
        /\ waiting_on_type' = [t \in Tasks |-> IF t \in drained THEN "NONE"
                                               ELSE waiting_on_type[t]]
        /\ sem_queue' = [sem_queue EXCEPT ![s] = <<>>]
        /\ UNCHANGED <<state, ready_queue, sleep_list, mutex_queue>>
    BY <1>9 DEF SysSemClose, In
  <2>2. /\ sem_queue'[s] = <<>>
        /\ \A x \in Sems \ {s} : sem_queue'[x] = sem_queue[x]
    BY <1>t, <2>1
  <2>3. IsInjective(<<>>) /\ \A t : ~In(t, <<>>)
    BY DEF IsInjective, In
  <2>4. NoDuplicates'
    BY <1>a, <2>1, <2>2, <2>3 DEF NoDuplicates
  <2>5. ASSUME NEW u \in Tasks
        PROVE  Placed(u)'
    BY <1>a, <1>t, <2>1, <2>2, <2>3 DEF Placed, WaitsFor
  <2> QED
    BY <2>4, <2>5
<1>10. ASSUME NEW m \in Mutexes, SysMutexTake(m)
      PROVE  Goal
  BY <1>10, <1>k DEF SysMutexTake
<1>11. ASSUME NEW m \in Mutexes, SysMutexBlock(m)
      PROVE  Goal
  <2>1. current_task \in Tasks /\ state[current_task] = "RUNNING"
    BY <1>11, <1>r DEF SysMutexBlock
  <2> DEFINE c == current_task
             r == OrderedPush(mutex_queue[m], c, effective_priority)
  <2>2. /\ state' = [state EXCEPT ![c] = "BLOCKED"]
        /\ waiting_on' = [waiting_on EXCEPT ![c] = m]
        /\ waiting_on_type' = [waiting_on_type EXCEPT ![c] = "MUTEX"]
        /\ mutex_queue' = [mutex_queue EXCEPT ![m] = r]
        /\ UNCHANGED <<ready_queue, sleep_list, sem_queue>>
    BY <1>11, Zenon DEF SysMutexBlock
  <2>3. ~In(c, mutex_queue[m]) /\ IsInjective(mutex_queue[m])
    BY <1>a, <2>1 DEF Placed, WaitsFor, NoDuplicates
  <2>4. Joins(c, mutex_queue[m], r)
    BY <1>t, <2>1, <2>3, PushJoins
  <2> HIDE DEF c, r
  <2>5. mutex_queue'[m] = r
        /\ \A x \in Mutexes \ {m} : mutex_queue'[x] = mutex_queue[x]
    BY <1>t, <2>2
  <2>6. NoDuplicates'
    BY <1>a, <2>2, <2>4, <2>5 DEF NoDuplicates, Joins
  <2>7. ASSUME NEW u \in Tasks
        PROVE  Placed(u)'
    BY <1>a, <1>t, <2>1, <2>2, <2>4, <2>5 DEF Placed, WaitsFor, Joins, c
  <2> QED
    BY <2>6, <2>7
<1>12. ASSUME NEW m \in Mutexes, SysMutexUnlock(m)
      PROVE  Goal
  BY <1>12, <1>r, <1>u DEF SysMutexUnlock
<1>13. CASE TaskRaisePriority
  <2> DEFINE t == raise_task
             w == waiting_on[t]
             eff == [effective_priority EXCEPT ![t] = raise_prio]
             chained == state[t] = "BLOCKED" /\ waiting_on_type[t] = "MUTEX"
  <2>1. t \in Tasks /\ (chained => w \in Mutexes)
    BY <1>13 DEF TaskRaisePriority, IInv, TypeOK
  <2>2. /\ UNCHANGED <<state, waitVars, sleep_list, sem_queue>>
        /\ ready_queue' = IF state[t] = "READY"
                          THEN Reorder(ready_queue, t, eff) ELSE ready_queue
        /\ mutex_queue' = IF chained
                          THEN [mutex_queue EXCEPT
                                  ![w] = Reorder(mutex_queue[w], t, eff)]
                          ELSE mutex_queue
    BY <1>13 DEF TaskRaisePriority
  <2> HIDE DEF t, eff
  <2>3. \/ ready_queue' = ready_queue
        \/ state[t] = "READY" /\ Joins(t, ready_queue, ready_queue')
    BY <1>a, <1>t, <2>1, <2>2, ReorderJoins DEF NoDuplicates
  <2>4. IsInjective(ready_queue') /\
        \A u \in Tasks : In(u, ready_queue') <=> In(u, ready_queue)
    BY <1>a, <2>1, <2>3 DEF Joins, NoDuplicates, Placed
  <2>5. chained => Joins(t, mutex_queue[w], Reorder(mutex_queue[w], t, eff))
    BY <1>a, <1>t, <2>1, ReorderJoins DEF NoDuplicates
  <2>6. chained => In(t, mutex_queue[w])
    BY <1>a, <2>1 DEF Placed, WaitsFor
  <2>7. \A m \in Mutexes :
          /\ IsInjective(mutex_queue'[m])
          /\ \A u \in Tasks : In(u, mutex_queue'[m]) <=> In(u, mutex_queue[m])
    <3>1. CASE chained
      <4> DEFINE r == Reorder(mutex_queue[w], t, eff)
      <4>1. mutex_queue' = [mutex_queue EXCEPT ![w] = r] /\ w \in Mutexes
        BY <2>1, <2>2, <3>1
      <4>2. /\ IsInjective(r)
            /\ \A u : In(u, r) <=> In(u, mutex_queue[w])
        BY <2>5, <2>6, <3>1 DEF Joins
      <4> HIDE DEF w, chained, r
      <4>3. /\ mutex_queue'[w] = r
            /\ \A m \in Mutexes \ {w} : mutex_queue'[m] = mutex_queue[m]
        BY <1>t, <4>1
      <4> QED
        BY <1>a, <4>2, <4>3 DEF NoDuplicates
    <3>2. CASE ~chained
      BY <1>a, <2>2, <3>2 DEF NoDuplicates
    <3> QED
      BY <3>1, <3>2
  <2> QED
    BY <1>a, <2>2, <2>4, <2>7 DEF Placed, WaitsFor, NoDuplicates
<1>14. CASE RaiseDone
  BY <1>14, <1>k DEF RaiseDone
<1>15. CASE SysTaskExit
  <2>1. current_task \in Tasks /\ state[current_task] = "RUNNING"
    BY <1>15, <1>r DEF SysTaskExit
  <2>2. /\ state' = [state EXCEPT ![current_task] = "FINISHED"]
        /\ UNCHANGED <<ready_queue, waitVars, sleep_list, sem_queue, mutex_queue>>
    BY <1>15 DEF SysTaskExit
  <2> QED
    BY <1>a, <1>t, <2>1, <2>2 DEF Placed, WaitsFor, NoDuplicates
<1>16. CASE ExitUnlock
  <2>1. exit_mutex \in Mutexes /\ current_task \in Tasks
    BY <1>16 DEF ExitUnlock, RunningPhase, IInv, TypeOK
  <2> QED
    BY <1>16, <1>u, <2>1 DEF ExitUnlock
<1>17. CASE ExitSkip
  BY <1>17, <1>k DEF ExitSkip
<1>18. CASE ExitDone
  BY <1>18, <1>k DEF ExitDone
<1>19. CASE SysSleep
  <2>1. current_task \in Tasks /\ state[current_task] = "RUNNING"
    BY <1>19, <1>r DEF SysSleep
  <2>2. /\ state' = [state EXCEPT ![current_task] = "SLEEPING"]
        /\ sleep_list' = OrderedPush(sleep_list, current_task, wake_tick')
        /\ UNCHANGED <<ready_queue, waitVars, sem_queue, mutex_queue>>
    BY <1>19 DEF SysSleep
  <2>3. Joins(current_task, sleep_list, sleep_list')
    BY <1>a, <1>t, <2>1, <2>2, PushJoins DEF Placed, NoDuplicates
  <2>4. NoDuplicates'
    BY <1>a, <2>2, <2>3 DEF NoDuplicates, Joins
  <2>5. ASSUME NEW u \in Tasks
        PROVE  Placed(u)'
    BY <1>a, <1>t, <2>1, <2>2, <2>3 DEF Placed, WaitsFor, Joins
  <2> QED
    BY <2>4, <2>5
<1>20. CASE UsartReceive
  BY <1>20, <1>p, Constants DEF UsartReceive
<1>21. CASE SysTick
  BY <1>21, <1>k DEF SysTick
<1>22. CASE SleepTick
  <2> DEFINE t == Head(sleep_list)
  <2>1. /\ sleep_list # <<>>
        /\ state' = [state EXCEPT ![t] = "READY"]
        /\ ready_queue' = Reorder(ready_queue, t, effective_priority)
        /\ sleep_list' = Tail(sleep_list)
        /\ UNCHANGED <<waitVars, sem_queue, mutex_queue>>
    BY <1>22 DEF SleepTick
  <2>2. Leaves(t, sleep_list, sleep_list')
    BY <1>a, <1>t, <2>1, HeadLeaves DEF NoDuplicates
  <2> HIDE DEF t
  <2>3. t \in Tasks /\ state[t] = "SLEEPING"
    BY <1>a, <2>2 DEF Leaves, Placed
  <2>4. Joins(t, ready_queue, ready_queue')
    BY <1>a, <1>t, <2>1, <2>3, ReorderJoins DEF NoDuplicates
  <2>5. NoDuplicates'
    BY <1>a, <2>1, <2>2, <2>4 DEF NoDuplicates, Joins, Leaves
  <2>6. ASSUME NEW u \in Tasks
        PROVE  Placed(u)'
    BY <1>a, <1>t, <2>1, <2>2, <2>3, <2>4 DEF Placed, WaitsFor, Joins, Leaves
  <2> QED
    BY <2>5, <2>6
<1>23. CASE SysTickDone
  BY <1>23, <1>k DEF SysTickDone
<1>24. CASE PendSvEnter
  BY <1>24, <1>k DEF PendSvEnter
<1>25. CASE SchedulerSelectNext
  <2>1. PICK n \in Tasks :
          /\ In(n, ready_queue) \/ (n = current_task /\ PutCurrent(state))
          /\ state'[n] = "RUNNING"
          /\ \A t \in Tasks \ {n} :
               state'[t] = IF t = current_task /\ PutCurrent(state)
                           THEN "READY" ELSE state[t]
          /\ IsInjective(ready_queue')
          /\ \A u \in Tasks : In(u, ready_queue') <=>
               /\ u # n
               /\ In(u, ready_queue) \/ (u = current_task /\ PutCurrent(state))
    BY <1>25, SelectFacts
  <2>2. UNCHANGED <<waitVars, sleep_list, sem_queue, mutex_queue>>
    BY <1>25 DEF SchedulerSelectNext
  <2>3. NoDuplicates'
    BY <1>a, <2>1, <2>2 DEF NoDuplicates
  <2>4. PutCurrent(state) => state[current_task] \notin {"BLOCKED", "SLEEPING"}
    BY DEF PutCurrent
  <2>5. ASSUME NEW u \in Tasks
        PROVE  Placed(u)'
    BY <1>a, <2>1, <2>2, <2>4 DEF Placed, WaitsFor
  <2> QED
    BY <2>3, <2>5
<1>26. CASE RestoreTask
  BY <1>26, <1>k DEF RestoreTask
<1>27. CASE UNCHANGED vars
  BY <1>27, <1>k DEF vars
<1> QED
  BY <1>1, <1>2, <1>3, <1>4, <1>5, <1>6, <1>7, <1>8, <1>9, <1>10, <1>11,
     <1>12, <1>13, <1>14, <1>15, <1>16, <1>17, <1>18, <1>19, <1>20, <1>21,
     <1>22, <1>23, <1>24, <1>25, <1>26, <1>27 DEF Next

\* A semaphore that is freed has just been drained, and only an open one is
\* waited on.
LEMMA UnusedStep ==
  ASSUME IInv, [Next]_vars
  PROVE  UnusedSemsEmpty'
<1>t. /\ sem_state \in [Sems -> {"UNUSED", "OPEN"}]
      /\ sem_queue \in [Sems -> Seq(Tasks)] /\ UnusedSemsEmpty
  BY DEF IInv, TypeOK
<1>1. ASSUME UNCHANGED <<sem_state, sem_queue>>
      PROVE  UnusedSemsEmpty'
  BY <1>1, <1>t DEF UnusedSemsEmpty
<1>2. ASSUME NEW s \in Sems, SemaphorePost(s)
      PROVE  UnusedSemsEmpty'
  <2>1. /\ sem_state[s] = "OPEN" /\ sem_state' = sem_state
        /\ \/ sem_queue' = [sem_queue EXCEPT ![s] = Tail(sem_queue[s])]
           \/ sem_queue' = sem_queue
    BY <1>2 DEF SemaphorePost
  <2> QED
    BY <1>t, <2>1 DEF UnusedSemsEmpty
<1>3. ASSUME NEW s \in Sems, SysSemBlock(s)
      PROVE  UnusedSemsEmpty'
  <2>1. /\ sem_state[s] = "OPEN" /\ sem_state' = sem_state
        /\ sem_queue' = [sem_queue EXCEPT
                           ![s] = Append(sem_queue[s], current_task)]
    BY <1>3 DEF SysSemBlock
  <2> QED
    BY <1>t, <2>1 DEF UnusedSemsEmpty
<1>4. ASSUME NEW s \in Sems, SysSemClose(s)
      PROVE  UnusedSemsEmpty'
  <2>1. /\ sem_state' = [sem_state EXCEPT ![s] = "UNUSED"]
        /\ sem_queue' = [sem_queue EXCEPT ![s] = <<>>]
    BY <1>4 DEF SysSemClose
  <2> QED
    BY <1>t, <2>1 DEF UnusedSemsEmpty
<1>5. CASE SysSemCreate
  <2>1. PICK s \in Sems : /\ sem_state' = [sem_state EXCEPT ![s] = "OPEN"]
                          /\ sem_queue' = [sem_queue EXCEPT ![s] = <<>>]
    BY <1>5, LeastFreeSem DEF SysSemCreate
  <2> QED
    BY <1>t, <2>1 DEF UnusedSemsEmpty
<1>6. CASE BootTask \/ SysTaskCreate
  BY <1>1, <1>6 DEF BootTask, SysTaskCreate, CreateTask
<1>7. ASSUME NEW m \in Mutexes,
             SysMutexTake(m) \/ SysMutexBlock(m) \/ SysMutexUnlock(m)
      PROVE  UnusedSemsEmpty'
  BY <1>1, <1>7 DEF SysMutexTake, SysMutexBlock, SysMutexUnlock, MutexUnlock
<1>8. CASE TaskRaisePriority \/ RaiseDone \/ SysTaskExit \/ ExitUnlock
           \/ ExitSkip \/ ExitDone
  BY <1>1, <1>8 DEF TaskRaisePriority, RaiseDone, SysTaskExit, ExitUnlock,
                    MutexUnlock, ExitSkip, ExitDone
<1>9. CASE SvcTail \/ SysYield \/ SysSleep \/ SysTick \/ SleepTick \/ SysTickDone
  BY <1>1, <1>9 DEF SvcTail, SysYield, SysSleep, SysTick, SleepTick, SysTickDone
<1>10. CASE PendSvEnter \/ SchedulerSelectNext \/ RestoreTask
  BY <1>1, <1>10 DEF PendSvEnter, SchedulerSelectNext, RestoreTask
<1>11. CASE UNCHANGED vars
  BY <1>1, <1>11 DEF vars
<1>12. ASSUME NEW s \in Sems, SysSemTake(s) \/ SysSemPost(s)
       PROVE  UnusedSemsEmpty'
  BY <1>1, <1>2, <1>12 DEF SysSemTake, SysSemPost
<1>13. CASE UsartReceive
  BY <1>2, <1>13, Constants DEF UsartReceive
<1> QED
  BY <1>3, <1>4, <1>5, <1>6, <1>7, <1>8, <1>9, <1>10, <1>11, <1>12, <1>13
     DEF Next

-----------------------------------------------------------------------------
(* The theorems.                                                           *)

\* The state main() starts the scheduler from satisfies the invariant.
LEMMA InitIInv ==
  ASSUME Init
  PROVE  IInv
<1>1. TypeOK
  <2>1. <<>> \in Seq(Tasks)
    OBVIOUS
  <2>2. 0 \in 0..(TickMod - 1) /\ 0 \in 0..MaxCount /\ 0 \in 0..Len(BootPrio)
    BY SizesAssumption, BootAssumption
  <2> QED
    BY <2>1, <2>2, Constants DEF Init, TypeOK, States, Modes
<1>2. BootPhase /\ IdleIsThere /\ RunningPhase
  BY Constants DEF Init, BootPhase, IdleIsThere, RunningPhase
<1>3. EveryTaskOnItsList
  <2>1. IsInjective(<<>>) /\ \A t : ~In(t, <<>>)
    BY DEF IsInjective, In
  <2> QED
    BY <2>1 DEF Init, EveryTaskOnItsList, WaitsFor
<1>4. UnusedSemsEmpty
  BY DEF Init, UnusedSemsEmpty
<1> QED
  BY <1>1, <1>2, <1>3, <1>4 DEF IInv

\* The invariant is inductive.
LEMMA StepIInv ==
  ASSUME IInv, [Next]_vars
  PROVE  IInv'
  BY TypeStep, PhaseStep, ListStep, UnusedStep DEF IInv, Phases

\* The inductive invariant holds in every reachable state.
THEOREM Invariance == Spec => []IInv
<1>1. Init => IInv
  BY InitIInv
<1>2. IInv /\ [Next]_vars => IInv'
  BY StepIInv
<1> QED
  BY <1>1, <1>2, PTL DEF Spec

\* Type correctness: no handler, in any interleaving, stores a pointer that
\* leaves its pool, a priority above 0xFF or a count below 0.
THEOREM TypeCorrect == Spec => []TypeOK
<1>1. IInv => TypeOK
  BY DEF IInv
<1> QED
  BY <1>1, Invariance, PTL

\* The kernel's lists: the single next link of a TCB is used by one list at a
\* time, the one the task's state names.  It holds also for programs that
\* close semaphores with waiters and nest locks.
THEOREM ListsCorrect == Spec => []EveryTaskOnItsList
<1>1. IInv => EveryTaskOnItsList
  BY DEF IInv
<1> QED
  BY <1>1, Invariance, PTL

\* A task that stopped in a system call never returns from it before it is
\* scheduled again: idle is always ready, so SvcTail always requests PendSV.
THEOREM ExecutionCorrect == Spec => []OnlyRunningTaskExecutes
<1>1. IInv => OnlyRunningTaskExecutes
  BY DEF IInv, RunningPhase, OnlyRunningTaskExecutes, Executing
<1> QED
  BY <1>1, Invariance, PTL

-----------------------------------------------------------------------------
(* Semaphores.                                                             *)

\* A unit is counted only when the wait queue is empty, a task is queued only
\* when there is no unit, and nothing else changes both.
LEMMA UnitsStep ==
  ASSUME IInv, NoUnitBesideWaiter, [Next]_vars
  PROVE  NoUnitBesideWaiter'
<1>t. /\ count \in [Sems -> 0..MaxCount]
      /\ sem_queue \in [Sems -> Seq(Tasks)] /\ NoUnitBesideWaiter
  BY DEF IInv, TypeOK
<1>1. ASSUME UNCHANGED <<count, sem_queue>>
      PROVE  NoUnitBesideWaiter'
  BY <1>1, <1>t DEF NoUnitBesideWaiter
<1>2. ASSUME NEW s \in Sems, SemaphorePost(s)
      PROVE  NoUnitBesideWaiter'
  <2>1. \/ /\ sem_queue[s] # <<>> /\ count' = count
           /\ sem_queue' = [sem_queue EXCEPT ![s] = Tail(sem_queue[s])]
        \/ /\ sem_queue[s] = <<>> /\ sem_queue' = sem_queue
           /\ count' = [count EXCEPT ![s] = count[s] + 1]
    BY <1>2 DEF SemaphorePost
  <2> QED
    BY <1>t, <2>1 DEF NoUnitBesideWaiter
<1>3. ASSUME NEW s \in Sems, SysSemBlock(s)
      PROVE  NoUnitBesideWaiter'
  <2>1. /\ count[s] = 0 /\ count' = count
        /\ sem_queue' = [sem_queue EXCEPT
                           ![s] = Append(sem_queue[s], current_task)]
    BY <1>3 DEF SysSemBlock
  <2>2. ~(count[s] > 0)
    BY <2>1
  <2> QED
    BY <1>t, <2>1, <2>2 DEF NoUnitBesideWaiter
<1>4. ASSUME NEW s \in Sems, SysSemClose(s)
      PROVE  NoUnitBesideWaiter'
  <2>1. count' = count /\ sem_queue' = [sem_queue EXCEPT ![s] = <<>>]
    BY <1>4 DEF SysSemClose
  <2> QED
    BY <1>t, <2>1 DEF NoUnitBesideWaiter
<1>5. CASE SysSemCreate
  <2>1. PICK s \in Sems : /\ \E c \in 0..MaxCount : count' = [count EXCEPT ![s] = c]
                          /\ sem_queue' = [sem_queue EXCEPT ![s] = <<>>]
    BY <1>5, LeastFreeSem DEF SysSemCreate
  <2> QED
    BY <1>t, <2>1 DEF NoUnitBesideWaiter
<1>6. ASSUME NEW s \in Sems, SysSemTake(s)
      PROVE  NoUnitBesideWaiter'
  <2>1. /\ count[s] > 0 /\ sem_queue' = sem_queue
        /\ count' = [count EXCEPT ![s] = count[s] - 1]
    BY <1>6 DEF SysSemTake
  <2> QED
    BY <1>t, <2>1 DEF NoUnitBesideWaiter
<1>7. CASE BootTask \/ SysTaskCreate
  BY <1>1, <1>7 DEF BootTask, SysTaskCreate, CreateTask
<1>8. ASSUME NEW m \in Mutexes,
             SysMutexTake(m) \/ SysMutexBlock(m) \/ SysMutexUnlock(m)
      PROVE  NoUnitBesideWaiter'
  BY <1>1, <1>8 DEF SysMutexTake, SysMutexBlock, SysMutexUnlock, MutexUnlock
<1>9. CASE TaskRaisePriority \/ RaiseDone \/ SysTaskExit \/ ExitUnlock
           \/ ExitSkip \/ ExitDone
  BY <1>1, <1>9 DEF TaskRaisePriority, RaiseDone, SysTaskExit, ExitUnlock,
                    MutexUnlock, ExitSkip, ExitDone
<1>10. CASE SvcTail \/ SysYield \/ SysSleep \/ SysTick \/ SleepTick \/ SysTickDone
  BY <1>1, <1>10 DEF SvcTail, SysYield, SysSleep, SysTick, SleepTick, SysTickDone
<1>11. CASE PendSvEnter \/ SchedulerSelectNext \/ RestoreTask
  BY <1>1, <1>11 DEF PendSvEnter, SchedulerSelectNext, RestoreTask
<1>12. CASE UNCHANGED vars
  BY <1>1, <1>12 DEF vars
<1>13. ASSUME NEW s \in Sems, SysSemPost(s)
       PROVE  NoUnitBesideWaiter'
  BY <1>2, <1>13 DEF SysSemPost
<1>14. CASE UsartReceive
  BY <1>2, <1>14, Constants DEF UsartReceive
<1> QED
  BY <1>3, <1>4, <1>5, <1>6, <1>7, <1>8, <1>9, <1>10, <1>11, <1>12, <1>13,
     <1>14 DEF Next

\* No unit of a semaphore is ever left over beside a task that waits for one,
\* although posts come from tasks and from the console interrupt.
THEOREM NoUnitLost == Spec => []NoUnitBesideWaiter
<1>1. Init => NoUnitBesideWaiter
  BY DEF Init, NoUnitBesideWaiter
<1>2. IInv /\ NoUnitBesideWaiter /\ [Next]_vars => NoUnitBesideWaiter'
  BY UnitsStep
<1> QED
  BY <1>1, <1>2, Invariance, PTL DEF Spec

-----------------------------------------------------------------------------
(* Mutexes.                                                                *)

\* WaitersHaveAnOwner seen from the waiters, whom mutex queues only reorder.
WaitsForAnother ==
  \A t \in Tasks, m \in Mutexes :
    WaitsFor(t, "MUTEX", m) => owner[m] \in Tasks /\ owner[m] # t

\* The two views agree when every task is on its list.
LEMMA ViewsAgree ==
  ASSUME IInv
  PROVE  WaitsForAnother => WaitersHaveAnOwner
<1> SUFFICES ASSUME WaitsForAnother, NEW m \in Mutexes, mutex_queue[m] # <<>>
             PROVE  owner[m] # None /\ ~In(owner[m], mutex_queue[m])
  BY DEF WaitersHaveAnOwner
<1>1. \A t \in Tasks : In(t, mutex_queue[m]) <=> WaitsFor(t, "MUTEX", m)
  BY DEF IInv, EveryTaskOnItsList
<1>2. mutex_queue[m] \in Seq(Tasks)
  BY DEF IInv, TypeOK
<1>3. mutex_queue[m][1] \in Tasks /\ In(mutex_queue[m][1], mutex_queue[m])
  BY <1>2 DEF In
<1>4. owner[m] \in Tasks
  BY <1>1, <1>3 DEF WaitsForAnother
<1> QED
  BY <1>1, <1>4, Constants DEF WaitsForAnother

\* A task blocks on a mutex of somebody else; a mutex changes hands to a task
\* that no longer waits, and is freed only when nobody waits for it.
LEMMA OwnersStep ==
  ASSUME IInv, WaitsForAnother, [Next]_vars
  PROVE  WaitsForAnother'
<1>t. /\ owner \in [Mutexes -> Tasks \cup {None}]
      /\ state \in [Tasks -> States]
      /\ waiting_on \in [Tasks -> Nat]
      /\ waiting_on_type \in [Tasks -> {"NONE", "SEM", "MUTEX"}]
      /\ mutex_queue \in [Mutexes -> Seq(Tasks)]
  BY DEF IInv, TypeOK
<1>1. ASSUME UNCHANGED owner,
             \A t \in Tasks, m \in Mutexes :
               WaitsFor(t, "MUTEX", m)' => WaitsFor(t, "MUTEX", m)
      PROVE  WaitsForAnother'
  BY <1>1 DEF WaitsForAnother
<1>2. ASSUME UNCHANGED <<owner, state, waitVars>>
      PROVE  WaitsForAnother'
  BY <1>1, <1>2 DEF WaitsFor
<1>3. CASE BootTask \/ SysTaskCreate
  <2>1. PICK t \in Tasks :
          /\ owner' = owner
          /\ waiting_on_type' = [waiting_on_type EXCEPT ![t] = "NONE"]
          /\ state' = [state EXCEPT ![t] = "READY"]
          /\ waiting_on' = [waiting_on EXCEPT ![t] = None]
    BY <1>3, LeastFreeSlot DEF BootTask, SysTaskCreate, CreateTask
  <2> QED
    BY <1>1, <1>t, <2>1 DEF WaitsFor
<1>4. ASSUME NEW s \in Sems, SemaphorePost(s)
      PROVE  WaitsForAnother'
  <2>1. /\ owner' = owner
        /\ \/ UNCHANGED <<state, waitVars>>
           \/ \E t \in Tasks :
                /\ state' = [state EXCEPT ![t] = "READY"]
                /\ waiting_on' = [waiting_on EXCEPT ![t] = None]
                /\ waiting_on_type' = [waiting_on_type EXCEPT ![t] = "NONE"]
    <3>1. sem_queue[s] \in Seq(Tasks)
      BY DEF IInv, TypeOK
    <3> QED
      BY <1>4, <3>1 DEF SemaphorePost
  <2> QED
    BY <1>1, <1>t, <2>1 DEF WaitsFor
<1>5. ASSUME NEW s \in Sems, SysSemBlock(s)
      PROVE  WaitsForAnother'
  <2>1. /\ owner' = owner
        /\ state' = [state EXCEPT ![current_task] = "BLOCKED"]
        /\ waiting_on' = [waiting_on EXCEPT ![current_task] = s]
        /\ waiting_on_type' = [waiting_on_type EXCEPT ![current_task] = "SEM"]
    BY <1>5 DEF SysSemBlock
  <2> QED
    BY <1>1, <1>t, <2>1 DEF WaitsFor
<1>6. ASSUME NEW s \in Sems, SysSemClose(s)
      PROVE  WaitsForAnother'
  <2>1. /\ owner' = owner /\ state' = state
        /\ \A t \in Tasks :
             \/ waiting_on'[t] = waiting_on[t] /\
                waiting_on_type'[t] = waiting_on_type[t]
             \/ waiting_on_type'[t] = "NONE"
    BY <1>6 DEF SysSemClose
  <2> QED
    BY <1>1, <1>t, <2>1 DEF WaitsFor
<1>7. ASSUME NEW m \in Mutexes, SysMutexTake(m)
      PROVE  WaitsForAnother'
  <2>1. /\ owner[m] = None
        /\ owner' = [owner EXCEPT ![m] = current_task]
        /\ UNCHANGED <<state, waitVars>>
    BY <1>7 DEF SysMutexTake
  <2>2. \A t \in Tasks : ~WaitsFor(t, "MUTEX", m)
    BY <2>1, Constants DEF WaitsForAnother
  <2> QED
    BY <1>t, <2>1, <2>2 DEF WaitsForAnother, WaitsFor
<1>8. ASSUME NEW m \in Mutexes, SysMutexBlock(m)
      PROVE  WaitsForAnother'
  <2>1. /\ owner' = owner
        /\ owner[m] \notin {None, current_task}
        /\ state' = [state EXCEPT ![current_task] = "BLOCKED"]
        /\ waiting_on' = [waiting_on EXCEPT ![current_task] = m]
        /\ waiting_on_type' = [waiting_on_type EXCEPT ![current_task] = "MUTEX"]
    BY <1>8 DEF SysMutexBlock
  <2>2. owner[m] \in Tasks
    BY <1>t, <2>1
  <2> QED
    BY <1>t, <2>1, <2>2 DEF WaitsForAnother, WaitsFor
<1>9. ASSUME NEW m \in Mutexes, current_task \in Tasks, MutexUnlock(m)
      PROVE  WaitsForAnother'
  <2>1. CASE /\ mutex_queue[m] = <<>>
             /\ owner' = [owner EXCEPT ![m] = None]
             /\ UNCHANGED <<state, waiting_on, waiting_on_type>>
    <3>1. \A t \in Tasks : ~In(t, mutex_queue[m])
      BY <2>1 DEF In
    <3>2. \A t \in Tasks : ~WaitsFor(t, "MUTEX", m)
      BY <3>1 DEF IInv, EveryTaskOnItsList
    <3> QED
      BY <1>t, <2>1, <3>2 DEF WaitsForAnother, WaitsFor
  <2>2. ASSUME NEW n \in Tasks,
               owner' = [owner EXCEPT ![m] = n],
               state' = [state EXCEPT ![n] = "READY"],
               waiting_on' = [waiting_on EXCEPT ![n] = None],
               waiting_on_type' = [waiting_on_type EXCEPT ![n] = "NONE"]
        PROVE  WaitsForAnother'
    BY <1>t, <2>2 DEF WaitsForAnother, WaitsFor
  <2> QED
    BY <1>9, <2>1, <2>2, UnlockFacts
<1>10. ASSUME NEW m \in Mutexes, SysMutexUnlock(m)
       PROVE  WaitsForAnother'
  <2>1. current_task \in Tasks
    BY <1>10 DEF SysMutexUnlock, Calls, IInv, TypeOK
  <2> QED
    BY <1>9, <1>10, <2>1 DEF SysMutexUnlock
<1>11. CASE ExitUnlock
  <2>1. exit_mutex \in Mutexes /\ current_task \in Tasks
    BY <1>11 DEF ExitUnlock, IInv, RunningPhase, TypeOK
  <2> QED
    BY <1>9, <1>11, <2>1 DEF ExitUnlock
<1>12. CASE SysTaskExit \/ SysSleep
  <2>1. /\ UNCHANGED <<owner, waitVars>>
        /\ \/ state' = [state EXCEPT ![current_task] = "FINISHED"]
           \/ state' = [state EXCEPT ![current_task] = "SLEEPING"]
    BY <1>12 DEF SysTaskExit, SysSleep
  <2> QED
    BY <1>1, <1>t, <2>1 DEF WaitsFor
<1>13. CASE SleepTick
  <2>1. /\ UNCHANGED <<owner, waitVars>>
        /\ state' = [state EXCEPT ![Head(sleep_list)] = "READY"]
    BY <1>13 DEF SleepTick
  <2> QED
    BY <1>1, <1>t, <2>1 DEF WaitsFor
<1>14. CASE SchedulerSelectNext
  <2>1. PICK n \in Tasks :
          /\ state'[n] = "RUNNING"
          /\ \A t \in Tasks \ {n} :
               state'[t] = IF t = current_task /\ PutCurrent(state)
                           THEN "READY" ELSE state[t]
    BY <1>14, SelectFacts
  <2>2. UNCHANGED <<owner, waitVars>>
    BY <1>14 DEF SchedulerSelectNext
  <2> QED
    BY <1>1, <2>1, <2>2 DEF WaitsFor
<1>15. CASE TaskRaisePriority \/ RaiseDone \/ ExitSkip \/ ExitDone
            \/ SvcTail \/ SysYield \/ SysSemCreate
  BY <1>2, <1>15 DEF TaskRaisePriority, RaiseDone, ExitSkip, ExitDone, SvcTail,
                     SysYield, SysSemCreate
<1>16. CASE SysTick \/ SysTickDone \/ PendSvEnter \/ RestoreTask \/ UNCHANGED vars
  BY <1>2, <1>16 DEF SysTick, SysTickDone, PendSvEnter, RestoreTask, vars
<1>17. ASSUME NEW s \in Sems, SysSemTake(s) \/ SysSemPost(s)
       PROVE  WaitsForAnother'
  BY <1>2, <1>4, <1>17 DEF SysSemTake, SysSemPost
<1>18. CASE UsartReceive
  BY <1>4, <1>18, Constants DEF UsartReceive
<1> QED
  BY <1>3, <1>5, <1>6, <1>7, <1>8, <1>10, <1>11, <1>12, <1>13, <1>14, <1>15,
     <1>16, <1>17, <1>18 DEF Next

\* A mutex somebody waits for always has an owner who can hand it over, and
\* who is not itself one of the waiters; also with nested locks, where the
\* lists of owned mutexes go wrong.
THEOREM NoWaiterForgotten == Spec => []WaitersHaveAnOwner
<1>1. Init => WaitsForAnother
  BY DEF Init, WaitsForAnother, WaitsFor
<1>2. IInv /\ WaitsForAnother /\ [Next]_vars => WaitsForAnother'
  BY OwnersStep
<1>3. IInv /\ WaitsForAnother => WaitersHaveAnOwner
  BY ViewsAgree
<1> QED
  BY <1>1, <1>2, <1>3, Invariance, PTL DEF Spec

=============================================================================
