---------------------------- MODULE Sched_proofs ----------------------------
(***************************************************************************)
(* The scheduler keeps its run queue exact, for any number of tasks,       *)
(* priorities, semaphores and interrupts.  Then its semaphores and its     *)
(* sleepers.                                                               *)
(***************************************************************************)
EXTENDS Sched, TaskQ_proofs, NaturalsInduction, WellFoundedInduction

\* The abbreviations of the model are always expanded.
USE DEF ENQUEUE, Available, SemaWakes, intr_go

\* What a task's state says about it beyond its queue.
RunStates ==
    /\ state[curtask] \in {"TS_RUN", "TS_FREE", "TS_FREEING"}
    /\ \A t \in Task : state[t] \in {"TS_RUN", "TS_FREEING"} => t = curtask
    /\ \A t \in Task : state[t] = "TS_FREEING" => pc[t] = "exiting"
    /\ \A t \in Task : pc[t] = "exiting" => cs[t] = {}

\* Idle never leaves the last bucket.
IdleStays ==
    /\ links.owner[Idle] = PRI_IDLE /\ pri[Idle] = PRI_IDLE
    /\ pc[Idle] = "run" /\ cs[Idle] = {}
    /\ ~ process[Idle] /\ ~ IsIrqTask(Idle)

\* The free list holds free tasks, each once.
FreeList ==
    /\ \A i, j \in 1..Len(freel) : freel[i] = freel[j] => i = j
    /\ \A i \in 1..Len(freel) :
          /\ state[freel[i]] = "TS_FREE" /\ links.owner[freel[i]] = NULL
          /\ pc[freel[i]] \in {"none", "gone"} /\ cs[freel[i]] = {}
          /\ ~ IsIrqTask(freel[i])

\* The bit of i is set, or it may have been cleared by an EOI gone astray.
Serving(i) == i \in isr \/ "eoi" \in astray

\* A step ends the service of no interrupt.
ServingKept == \A i \in Irq : Serving(i) => Serving(i)'

\* An interrupt task is either finished, or its interrupt is in service;
\* if it does not wait for a semaphore it then can run, and nothing less
\* urgent is running.
IrqTasks ==
    \A i \in Irq : irqtask[i] # NULL =>
        /\ pri[irqtask[i]] = i /\ ~ process[irqtask[i]]
        /\ \/ /\ state[irqtask[i]] = "TS_BLOCKED" /\ pc[irqtask[i]] = "none"
              /\ links.owner[irqtask[i]] = NULL
           \/ /\ Serving(i) /\ pc[irqtask[i]] \in {"run"} \cup Sema
              /\ links.owner[irqtask[i]] \in {i} \cup Sema
              /\ pc[irqtask[i]] = "run" => /\ links.owner[irqtask[i]] = i
                                           /\ pri[curtask] <= i

Inv == /\ TypeOK
       /\ WellFormed(links)
       /\ RunQueueExact
       /\ CurtaskHeadsBucket
       /\ IdleOnlyWhenIdle
       /\ RunStates
       /\ IdleStays
       /\ FreeList
       /\ IrqTasks
       /\ panic # "No runnable tasks!"
-----------------------------------------------------------------------------
(* Facts about the queues, and about choosing the next task                *)

\* The run queue buckets, semaphores, wait queues and sleepers are apart.
LEMMA Kinds ==
    /\ Pri \subseteq Queue /\ Sema \subseteq Queue /\ WaitQ \subseteq Queue
    /\ Sleeping \in Queue /\ PRI_IDLE \in Pri /\ PRI_NORM \in Pri
    /\ \A p \in Pri : p \notin Sema /\ p \notin WaitQ /\ p # Sleeping
    /\ \A p \in Pri : p # NULL
    /\ \A s \in Sema : s # NULL /\ s \notin WaitQ /\ s # Sleeping
    /\ NULL \notin Task /\ NULL \notin Queue
    /\ Sleeping # NULL /\ \A w \in WaitQ : w # NULL /\ w # Sleeping
  BY SchedAssumption, NullAssumption

\* Priorities are numbers, idle has the greatest.
LEMMA Priorities == \A p \in Pri : p \in Nat /\ p <= PRI_IDLE
  BY SchedAssumption

\* Taking a task off its queue and putting it on another moves the owner of
\* that task only, and no head that was not that task.
LEMMA MoveWellFormed ==
    ASSUME NEW L \in Links, WellFormed(L), NEW q \in Queue, NEW t \in Task,
           NEW M, M = taskq_push(task_dequeue(L, t), q, t)
    PROVE  /\ M \in Links
           /\ WellFormed(M)
           /\ M.owner = [L.owner EXCEPT ![t] = q]
           /\ \A r \in Queue : L.head[r] # NULL /\ L.head[r] # t =>
                  M.head[r] = L.head[r]
<1> DEFINE D == task_dequeue(L, t)
<1>1. /\ D \in Links /\ WellFormed(D)
      /\ D.owner = [L.owner EXCEPT ![t] = NULL]
      /\ \A r \in Queue : L.head[r] # t => D.head[r] = L.head[r]
  BY DequeueWellFormed
<1>2. D.owner[t] = NULL
  BY <1>1 DEF Links
<1>3. M = taskq_push(D, q, t)
  OBVIOUS
<1> HIDE DEF D
<1>4. /\ M \in Links /\ WellFormed(M)
      /\ M.owner = [D.owner EXCEPT ![t] = q]
      /\ \A r \in Queue : M.head[r] =
             IF r = q /\ D.head[r] = NULL THEN t ELSE D.head[r]
  <2>1. D \in Links
    BY <1>1
  <2>2. WellFormed(D)
    BY <1>1
  <2> QED
    BY <2>1, <2>2, <1>2, <1>3, PushWellFormed
<1>5. M.owner = [L.owner EXCEPT ![t] = q]
  BY <1>1, <1>4 DEF Links
<1>6. \A r \in Queue : L.head[r] # NULL /\ L.head[r] # t =>
          M.head[r] = L.head[r]
  BY <1>1, <1>4
<1> QED
  BY <1>4, <1>5, <1>6

\* Some bucket that is not empty comes first.
LEMMA FirstBucket ==
    ASSUME NEW L, Busy(L)
    PROVE  \E p \in Pri : /\ L.head[p] # NULL
                          /\ \A r \in Pri : L.head[r] # NULL => p <= r
<1> DEFINE T == {p \in Pri : L.head[p] # NULL}
<1>1. T \subseteq Nat /\ T # {}
  BY Priorities DEF Busy
<1>2. PICK p \in T : \A r \in T : p <= r
  <2> HIDE DEF T
  <2> QED
    BY <1>1, LeastElement
<1> QED
  BY <1>2

\* A switch finds a task: it heads the first bucket that is not empty.
LEMMA Switched ==
    ASSUME NEW L \in Links, WellFormed(L), NEW st, L.owner[Idle] = PRI_IDLE,
           SwitchTo(L, st)
    PROVE  /\ links' = L /\ panic' = panic /\ curtask' \in Task
           /\ state' = [st EXCEPT ![curtask'] = "TS_RUN"]
           /\ L.owner[curtask'] \in Pri
           /\ L.head[L.owner[curtask']] = curtask'
           /\ \A r \in Pri : L.head[r] # NULL => L.owner[curtask'] <= r
<1>1. L.head[PRI_IDLE] # NULL
  BY HeadOwned, Kinds, SchedAssumption
<1>2. Busy(L)
  BY <1>1, Kinds DEF Busy
<1> DEFINE p == CHOOSE p \in Pri : /\ L.head[p] # NULL
                                   /\ \A r \in Pri : L.head[r] # NULL => p <= r
<1>3. /\ p \in Pri /\ L.head[p] # NULL
      /\ \A r \in Pri : L.head[r] # NULL => p <= r
  BY <1>2, FirstBucket
<1>4. task_runnable(L) = L.head[p]
  BY DEF task_runnable
<1> HIDE DEF p
<1>5. L.head[p] \in Task /\ L.owner[L.head[p]] = p
  BY <1>3, HeadOwned, Kinds
<1> QED
  BY <1>2, <1>3, <1>4, <1>5 DEF SwitchTo

\* If everybody in a bucket is ready, and all who are ready are in their
\* bucket, then the run queue is exact after the switch.
LEMMA SwitchedExact ==
    ASSUME NEW L \in Links, WellFormed(L), NEW st \in [Task -> State],
           pri \in [Task -> Pri], L.owner[Idle] = PRI_IDLE,
           SwitchTo(L, st), pri' = pri,
           \A t \in Task : L.owner[t] \in Pri =>
               L.owner[t] = pri[t] /\ st[t] = "TS_READY",
           \A t \in Task : st[t] = "TS_READY" => L.owner[t] = pri[t],
           \A t \in Task : st[t] \notin {"TS_RUN", "TS_FREEING"}
    PROVE  /\ links' = L /\ panic' = panic /\ curtask' \in Task
           /\ state' \in [Task -> State]
           /\ state'[curtask'] = "TS_RUN" /\ st[curtask'] = "TS_READY"
           /\ \A t \in Task : t # curtask' => state'[t] = st[t]
           /\ RunQueueExact' /\ CurtaskHeadsBucket' /\ IdleOnlyWhenIdle'
           /\ \A r \in Pri : L.head[r] # NULL => pri[curtask'] <= r
<1>1. /\ links' = L /\ panic' = panic /\ curtask' \in Task
      /\ state' = [st EXCEPT ![curtask'] = "TS_RUN"]
      /\ L.owner[curtask'] \in Pri
      /\ L.head[L.owner[curtask']] = curtask'
      /\ \A r \in Pri : L.head[r] # NULL => L.owner[curtask'] <= r
  BY Switched
<1>2. L.owner[curtask'] = pri[curtask'] /\ st[curtask'] = "TS_READY"
  BY <1>1
<1>3. /\ state' \in [Task -> State] /\ state'[curtask'] = "TS_RUN"
      /\ \A t \in Task : t # curtask' => state'[t] = st[t]
  BY <1>1 DEF State
<1>4. RunQueueExact'
  BY <1>1, <1>2, <1>3 DEF RunQueueExact
<1>5. CurtaskHeadsBucket'
  BY <1>1, <1>2 DEF CurtaskHeadsBucket
<1>6. IdleOnlyWhenIdle'
  <2> SUFFICES ASSUME curtask' = Idle, NEW r \in Pri \ {PRI_IDLE}
               PROVE  L.head[r] = NULL
    BY <1>1 DEF IdleOnlyWhenIdle
  <2>1. r < PRI_IDLE
    BY Priorities, Kinds
  <2>2. L.head[r] # NULL => PRI_IDLE <= r
    BY <1>1
  <2> QED
    BY <2>1, <2>2, Priorities, Kinds
<1> QED
  BY <1>1, <1>2, <1>3, <1>4, <1>5, <1>6

\* An element of a sequence over S is in S.
LEMMA InSeq ==
    ASSUME NEW S, NEW s \in Seq(S), NEW i \in 1..Len(s)
    PROVE  s[i] \in S
  OBVIOUS

\* The constants of the clock.
LEMMA Ticks == TickMod \in Nat /\ TickMod > 0 /\ SleepTicks \subseteq Nat
  BY SchedAssumption

\* What the constants say about tasks, interrupts and semaphores.
LEMMA Interrupts ==
    /\ Idle \in Task /\ Main \in Task /\ Idle # Main /\ PRI_NORM # PRI_IDLE
    /\ \A i \in Irq : i \in 0..15 /\ i # 2 /\ i \in Pri /\ i # PRI_IDLE
    /\ \A p \in StartPri : p \in Pri
    /\ IrqSema \subseteq Sema
    /\ \A s \in Sema : s # "none" /\ s # "run" /\ s # "exiting" /\ s # "gone"
  BY SchedAssumption

\* A sleeper that is not due before the head goes in as taskq_push puts it.
LEMMA SleepIsPush ==
    ASSUME NEW L \in Links, WellFormed(L), NEW t \in Task, L.owner[t] = NULL,
           NEW d, L.head[Sleeping] # NULL => ~ (d < due[L.head[Sleeping]])
    PROVE  SleepInsert(L, t, d) = taskq_push(L, Sleeping, t)
<1> DEFINE p == L.head[Sleeping]
           N == taskq_push(L, Sleeping, t)
           M == SleepInsert(L, t, d)
<1>1. Sleeping \in Queue /\ Sleeping # NULL
  BY Kinds
<1>2. N \in Links
  BY <1>1, PushWellFormed
<1>3. CASE p = NULL
  BY <1>3 DEF SleepInsert
<1>4. CASE p # NULL
  <2>1. p \in Task /\ L.owner[p] = Sleeping
    BY <1>1, <1>4, HeadOwned
  <2>2. L.prev[p] \in Task /\ L.prev[p] # t
    <3>1. L.prev[p] \in Task /\ L.owner[L.prev[p]] = Sleeping
      BY <2>1, <1>1, Neighbours
    <3> QED
      BY <3>1, <1>1
  <2>3. /\ N.head = L.head /\ N.owner = [L.owner EXCEPT ![t] = Sleeping]
        /\ N.next = [L.next EXCEPT ![L.prev[p]] = t, ![t] = p]
        /\ N.prev = [L.prev EXCEPT ![t] = L.prev[p], ![p] = t]
    BY <1>4 DEF taskq_push
  <2>4. [L.next EXCEPT ![t] = p, ![L.prev[p]] = t] = N.next
    BY <2>2, <2>3 DEF Links
  <2>5. [L.head EXCEPT ![Sleeping] = L.head[Sleeping]] = L.head
    BY DEF Links
  <2>6. M = [head |-> [L.head EXCEPT ![Sleeping] = L.head[Sleeping]],
             next |-> [L.next EXCEPT ![t] = p, ![L.prev[p]] = t],
             prev |-> N.prev, owner |-> N.owner]
    BY <1>4, <2>3 DEF SleepInsert
  <2>7. M = [head |-> L.head, next |-> N.next, prev |-> N.prev, owner |-> N.owner]
    BY <2>4, <2>5, <2>6
  <2> HIDE DEF N, M
  <2> QED
    BY <2>3, <2>7, <1>2 DEF Links, N, M
<1> QED
  BY <1>3, <1>4

\* The sleeper goes in as taskq_push would put it, with the head moved back
\* onto it if it is due before the head.
LEMMA SleepWellFormed ==
    ASSUME NEW L \in Links, WellFormed(L), NEW t \in Task, L.owner[t] = NULL,
           NEW d, NEW M, M = SleepInsert(L, t, d)
    PROVE  /\ M \in Links
           /\ WellFormed(M)
           /\ M.owner = [L.owner EXCEPT ![t] = Sleeping]
           /\ \A r \in Pri : M.head[r] = L.head[r]
<1> DEFINE p == L.head[Sleeping]
           N == taskq_push(L, Sleeping, t)
<1>1. Sleeping \in Queue /\ Sleeping # NULL /\ \A r \in Pri : r \in Queue /\ r # Sleeping
  BY Kinds
<1>2. N \in Links /\ WellFormed(N) /\ N.owner = [L.owner EXCEPT ![t] = Sleeping]
      /\ \A r \in Queue : N.head[r] =
             IF r = Sleeping /\ L.head[r] = NULL THEN t ELSE L.head[r]
  BY <1>1, PushWellFormed
<1>3. CASE p = NULL
  <2>1. M = N
    BY <1>3 DEF SleepInsert
  <2> QED
    BY <1>1, <1>2, <2>1
<1>4. CASE p # NULL
  <2>1. p \in Task /\ L.owner[p] = Sleeping
    BY <1>1, <1>4, HeadOwned
  <2>2. L.prev[p] \in Task /\ L.prev[p] # t
    <3>1. L.prev[p] \in Task /\ L.owner[L.prev[p]] = Sleeping
      BY <2>1, <1>1, Neighbours
    <3> QED
      BY <3>1, <1>1
  <2>3. /\ N.head = L.head /\ N.owner = [L.owner EXCEPT ![t] = Sleeping]
        /\ N.next = [L.next EXCEPT ![L.prev[p]] = t, ![t] = p]
        /\ N.prev = [L.prev EXCEPT ![t] = L.prev[p], ![p] = t]
    BY <1>4 DEF taskq_push
  <2>4. [L.next EXCEPT ![t] = p, ![L.prev[p]] = t] = N.next
    BY <2>2, <2>3 DEF Links
  <2>5. N.prev[p] = t
    BY <2>1, <2>3 DEF Links
  <2>6. CASE d < due[p]
    <3>1. M = SetHead(N, Sleeping, t)
      BY <1>4, <2>3, <2>4, <2>6 DEF SleepInsert, SetHead
    <3> HIDE DEF N
    <3>2. /\ N.head[Sleeping] # NULL
          /\ t \in {N.next[N.head[Sleeping]], N.prev[N.head[Sleeping]]}
      BY <1>4, <2>3, <2>5
    <3>3. M \in Links /\ WellFormed(M) /\ M.owner = N.owner
          /\ \A r \in Queue : r # Sleeping => M.head[r] = N.head[r]
      BY <3>1, <3>2, <1>1, <1>2, RotateWellFormed
    <3> QED
      BY <3>3, <1>1, <1>2
  <2>7. CASE ~ (d < due[p])
    <3>1. M = N
      BY <2>7, SleepIsPush
    <3> QED
      BY <3>1, <1>1, <1>2
  <2> QED
    BY <2>6, <2>7
<1> QED
  BY <1>3, <1>4
-----------------------------------------------------------------------------
(* Keeping the invariant: the two shapes of action                         *)

\* The part of TypeOK about what neither a switch nor a push assigns.
RestTyped ==
    /\ pri \in [Task -> Pri] /\ due \in [Task -> Nat]
    /\ process \in [Task -> BOOLEAN] /\ freel \in Seq(Task)
    /\ tickcnt \in Nat /\ count \in [Sema -> Int]
    /\ last_owner \in [Sema -> Task \cup {NULL}]
    /\ irqtask \in [Irq -> Task \cup {NULL}] /\ isr \subseteq 0..15
    /\ astray \subseteq Stray /\ cpu \in {"task", "timer"} /\ pc \in [Task -> Place]
    /\ cs \in [Task -> SUBSET Sema]

\* FreeList and IrqTasks, of the queues L and the states st.
FreeListAt(L, st) ==
    /\ \A i, j \in 1..Len(freel) : freel[i] = freel[j] => i = j
    /\ \A i \in 1..Len(freel) :
          /\ st[freel[i]] = "TS_FREE" /\ L.owner[freel[i]] = NULL
          /\ pc[freel[i]] \in {"none", "gone"} /\ cs[freel[i]] = {}
          /\ ~ IsIrqTask(freel[i])

IrqTaskAt(L, st, i) ==
    LET t == irqtask[i] IN
    /\ pri[t] = i /\ ~ process[t]
    /\ \/ st[t] = "TS_BLOCKED" /\ pc[t] = "none" /\ L.owner[t] = NULL
       \/ /\ Serving(i) /\ pc[t] \in {"run"} \cup Sema
          /\ L.owner[t] \in {i} \cup Sema
          /\ pc[t] = "run" => L.owner[t] = i

\* A switch keeps the invariant, if the code before it left every bucket
\* with ready tasks only and every ready task in its bucket.
Switches(L, st) ==
    /\ L \in Links /\ WellFormed(L) /\ st \in [Task -> State]
    /\ SwitchTo(L, st)
    /\ pri' = pri /\ process' = process /\ irqtask' = irqtask
    /\ L.owner[Idle] = PRI_IDLE
    /\ \A t \in Task : L.owner[t] \in Pri =>
           L.owner[t] = pri[t] /\ st[t] = "TS_READY"
    /\ \A t \in Task : st[t] = "TS_READY" => L.owner[t] = pri[t]
    /\ \A t \in Task : st[t] \notin {"TS_RUN", "TS_FREEING"}
    /\ RestTyped' /\ pc'[Idle] = "run" /\ cs'[Idle] = {}
    /\ \A t \in Task : pc'[t] = "exiting" => cs'[t] = {}
    /\ FreeListAt(L, st)'
    /\ \A i \in Irq : irqtask[i] # NULL => IrqTaskAt(L, st, i)'

\* A switch to the first runnable task keeps what it needs of Inv.
LEMMA SwitchKeeps ==
    ASSUME Inv, NEW L, NEW st, Switches(L, st)
    PROVE  Inv'
<1> USE DEF Switches
<1>1. pri \in [Task -> Pri] /\ panic \in Message /\ panic # "No runnable tasks!"
      /\ pri[Idle] = PRI_IDLE /\ ~ process[Idle] /\ ~ IsIrqTask(Idle)
      /\ irqtask \in [Irq -> Task \cup {NULL}]
  BY DEF Inv, TypeOK, IdleStays
<1>2. /\ links' = L /\ panic' = panic /\ curtask' \in Task
      /\ state' \in [Task -> State]
      /\ state'[curtask'] = "TS_RUN" /\ st[curtask'] = "TS_READY"
      /\ \A t \in Task : t # curtask' => state'[t] = st[t]
      /\ RunQueueExact' /\ CurtaskHeadsBucket' /\ IdleOnlyWhenIdle'
      /\ \A r \in Pri : L.head[r] # NULL => pri[curtask'] <= r
  BY <1>1, SwitchedExact
<1>3. TypeOK'
  BY <1>1, <1>2 DEF TypeOK, RestTyped
<1>4. RunStates'
  BY <1>2 DEF RunStates, State
<1>5. IdleStays'
  BY <1>1, <1>2 DEF IdleStays, IsIrqTask
<1>6. FreeList'
  <2>1. \A i \in 1..Len(freel') : freel'[i] \in Task
    BY DEF RestTyped
  <2>2. \A i \in 1..Len(freel') : state'[freel'[i]] = st[freel'[i]]
    BY <1>2, <2>1 DEF FreeListAt
  <2> QED
    BY <1>2, <2>2 DEF FreeListAt, FreeList
<1>7. IrqTasks'
  <2> SUFFICES ASSUME NEW i \in Irq, irqtask[i] # NULL
               PROVE  LET t == irqtask[i] IN
                      /\ pri[t] = i /\ ~ process[t]
                      /\ \/ /\ state'[t] = "TS_BLOCKED" /\ pc'[t] = "none"
                            /\ L.owner[t] = NULL
                         \/ /\ Serving(i)' /\ pc'[t] \in {"run"} \cup Sema
                            /\ L.owner[t] \in {i} \cup Sema
                            /\ pc'[t] = "run" => /\ L.owner[t] = i
                                                 /\ pri[curtask'] <= i
    BY <1>2 DEF IrqTasks
  <2> DEFINE t == irqtask[i]
  <2>1. t \in Task
    BY <1>1
  <2>2. IrqTaskAt(L, st, i)'
    OBVIOUS
  <2>3. st[t] = "TS_BLOCKED" => state'[t] = "TS_BLOCKED"
    BY <1>2, <2>1
  <2>4. L.owner[t] = i => pri[curtask'] <= i
    <3>1. i \in Pri /\ i \in Queue /\ i # NULL
      BY Kinds, Interrupts
    <3>2. L.owner[t] = i => L.head[i] # NULL
      BY <2>1, <3>1, HeadOwned
    <3> QED
      BY <3>1, <3>2, <1>2
  <2> QED
    BY <2>2, <2>3, <2>4 DEF IrqTaskAt
<1> QED
  BY <1>1, <1>2, <1>3, <1>4, <1>5, <1>6, <1>7 DEF Inv

\* Putting a task that cannot run into its bucket keeps the invariant.
Pushes(t) ==
    /\ links.owner[t] \notin Pri
    /\ links' \in Links /\ WellFormed(links')
    /\ links'.owner = [links.owner EXCEPT ![t] = pri'[t]]
    /\ \A r \in Queue : links.head[r] # NULL /\ links.head[r] # t =>
           links'.head[r] = links.head[r]
    /\ state' = [state EXCEPT ![t] = "TS_READY"]
    /\ RestTyped'
    /\ curtask' = curtask /\ (curtask = Idle => cpu' # "task")
    /\ \A u \in Task : u # t => pri'[u] = pri[u] /\ process'[u] = process[u]
    /\ \A u \in Task : u # t => pc'[u] = pc[u]
    /\ pc'[t] = pc[t] \/ (~ IsIrqTask(t) /\ pc'[t] = "run")
    /\ IsIrqTask(t) => /\ pri'[t] = pri[t] /\ process'[t] = process[t]
                       /\ links.owner[t] # NULL
    /\ \A u \in Task : cs'[u] \subseteq cs[u]
    /\ irqtask' = irqtask /\ ServingKept
    /\ panic' \in Message /\ panic' # "No runnable tasks!"
    /\ \A i, j \in 1..Len(freel') : freel'[i] = freel'[j] => i = j
    /\ \A i \in 1..Len(freel') : /\ freel'[i] # t
                                 /\ \E j \in 1..Len(freel) : freel'[i] = freel[j]

\* Pushing a task into the bucket of its priority keeps the queues exact.
LEMMA PushKeeps ==
    ASSUME Inv, NEW t \in Task, Pushes(t)
    PROVE  Inv'
<1> USE DEF Pushes
<1>1. TypeOK /\ WellFormed(links) /\ RunQueueExact /\ CurtaskHeadsBucket
      /\ IdleOnlyWhenIdle /\ RunStates /\ IdleStays /\ FreeList /\ IrqTasks
  BY DEF Inv
<1>2. links \in Links /\ state \in [Task -> State] /\ curtask \in Task
      /\ pri \in [Task -> Pri] /\ pri' \in [Task -> Pri]
      /\ irqtask \in [Irq -> Task \cup {NULL}]
  BY <1>1 DEF TypeOK, RestTyped
<1>3. t # curtask /\ t # Idle
  <2>1. links.owner[t] \notin Pri
    OBVIOUS
  <2> HIDE DEF Pushes
  <2>2. t # curtask
    BY <1>1, <1>2, <2>1 DEF RunQueueExact
  <2>3. t # Idle
    BY <1>1, <1>2, <2>1, Kinds DEF RunQueueExact, IdleStays
  <2> QED
    BY <2>2, <2>3
<1>4. links'.owner[t] = pri'[t] /\ \A u \in Task : u # t => links'.owner[u] = links.owner[u]
  <2>1. links'.owner = [links.owner EXCEPT ![t] = pri'[t]]
    OBVIOUS
  <2>2. DOMAIN links.owner = Task
    BY <1>2 DEF Links
  <2> HIDE DEF Pushes
  <2> QED
    BY <2>1, <2>2
<1>5. state'[t] = "TS_READY" /\ \A u \in Task : u # t => state'[u] = state[u]
  BY <1>2
<1>6. TypeOK'
  <2>1. state' \in [Task -> State]
    BY <1>2 DEF State
  <2> QED
    BY <1>2, <2>1 DEF TypeOK, RestTyped
<1>7. RunQueueExact'
  <2> SUFFICES ASSUME NEW u \in Task
               PROVE  /\ links'.owner[u] \in Pri =>
                            /\ links'.owner[u] = pri'[u]
                            /\ u = curtask' \/ state'[u] = "TS_READY"
                      /\ u = curtask' \/ state'[u] = "TS_READY" => links'.owner[u] = pri'[u]
    BY DEF RunQueueExact
  <2>1. CASE u = t
    BY <1>4, <1>5, <2>1
  <2>2. CASE u # t
    <3>1. /\ links'.owner[u] = links.owner[u] /\ state'[u] = state[u] /\ pri'[u] = pri[u]
          /\ curtask' = curtask
      BY <1>4, <1>5, <2>2
    <3> QED
      BY <1>1, <3>1 DEF RunQueueExact
  <2> QED
    BY <2>1, <2>2
<1>8. CurtaskHeadsBucket'
  <2>1. pri[curtask] \in Queue /\ curtask # NULL
    BY <1>2, Kinds
  <2> QED
    BY <2>1, <1>1, <1>2, <1>3 DEF CurtaskHeadsBucket
<1>9. IdleOnlyWhenIdle'
  BY DEF IdleOnlyWhenIdle
<1>10. RunStates'
  <2>1. state'[curtask'] = state[curtask]
    BY <1>2, <1>3, <1>5
  <2>2. \A u \in Task : state'[u] \in {"TS_RUN", "TS_FREEING"} => u = curtask
    BY <1>1, <1>5 DEF RunStates
  <2>3. \A u \in Task : state'[u] = "TS_FREEING" => pc'[u] = "exiting"
    BY <1>1, <1>5 DEF RunStates
  <2>4. \A u \in Task : pc'[u] = "exiting" => cs'[u] = {}
    <3>1. \A u \in Task : pc'[u] = pc[u] \/ pc'[u] = "run"
      OBVIOUS
    <3>2. \A u \in Task : cs'[u] \subseteq cs[u]
      OBVIOUS
    <3>3. \A u \in Task : pc[u] = "exiting" => cs[u] = {}
      BY <1>1 DEF RunStates
    <3> HIDE DEF Pushes
    <3> QED
      BY <3>1, <3>2, <3>3
  <2> QED
    BY <2>1, <2>2, <2>3, <2>4, <1>1 DEF RunStates
<1>11. IdleStays'
  BY <1>1, <1>3, <1>4, Interrupts DEF IdleStays, IsIrqTask
<1>12. FreeList'
  <2>1. ASSUME NEW i \in 1..Len(freel')
        PROVE  /\ state'[freel'[i]] = "TS_FREE"
               /\ links'.owner[freel'[i]] = NULL
               /\ pc'[freel'[i]] \in {"none", "gone"}
               /\ cs'[freel'[i]] = {} /\ ~ IsIrqTask(freel'[i])
    <3>1. PICK j \in 1..Len(freel) : freel'[i] = freel[j]
      OBVIOUS
    <3>2. freel'[i] # t /\ freel'[i] \in Task
      <4>1. freel' \in Seq(Task)
        BY DEF RestTyped
      <4>2. freel'[i] \in Task
        BY <4>1, InSeq
      <4> QED
        BY <4>2
    <3>3. /\ state[freel[j]] = "TS_FREE" /\ links.owner[freel[j]] = NULL
          /\ pc[freel[j]] \in {"none", "gone"} /\ cs[freel[j]] = {}
          /\ ~ IsIrqTask(freel[j])
      BY <1>1 DEF FreeList
    <3>4. PICK f \in Task : f = freel'[i] /\ f = freel[j] /\ f # t
      BY <3>1, <3>2
    <3>5. links'.owner[f] = links.owner[f] /\ state'[f] = state[f] /\ pc'[f] = pc[f]
      BY <3>4, <1>4, <1>5
    <3>6. cs'[f] \subseteq cs[f] /\ (IsIrqTask(f)' <=> IsIrqTask(f))
      BY <3>4 DEF IsIrqTask
    <3> HIDE DEF Pushes
    <3> QED
      BY <3>3, <3>4, <3>5, <3>6 DEF IsIrqTask
  <2>2. \A i, j \in 1..Len(freel') : freel'[i] = freel'[j] => i = j
    OBVIOUS
  <2>3. irqtask' = irqtask
    OBVIOUS
  <2> HIDE DEF Pushes
  <2> QED
    BY <2>1, <2>2, <2>3 DEF FreeList, IsIrqTask
<1>13. IrqTasks'
  <2> SUFFICES ASSUME NEW i \in Irq, irqtask[i] # NULL
               PROVE  LET u == irqtask[i] IN
                      /\ pri'[u] = i /\ ~ process'[u]
                      /\ \/ /\ state'[u] = "TS_BLOCKED" /\ pc'[u] = "none"
                            /\ links'.owner[u] = NULL
                         \/ /\ Serving(i)' /\ pc'[u] \in {"run"} \cup Sema
                            /\ links'.owner[u] \in {i} \cup Sema
                            /\ pc'[u] = "run" => /\ links'.owner[u] = i
                                                 /\ pri[curtask] <= i
    BY <1>2, <1>3 DEF IrqTasks
  <2> PICK u : u = irqtask[i]
    OBVIOUS
  <2>0. Serving(i) => Serving(i)'
    BY DEF ServingKept
  <2>1. u \in Task /\ IsIrqTask(u)
    <3>1. irqtask[i] \in Task \cup {NULL}
      BY <1>2
    <3>2. IsIrqTask(u)
      BY Zenon DEF IsIrqTask
    <3> QED
      BY <3>1, <3>2
  <2>2. /\ pri[u] = i /\ ~ process[u]
        /\ \/ /\ state[u] = "TS_BLOCKED" /\ pc[u] = "none"
              /\ links.owner[u] = NULL
           \/ /\ Serving(i) /\ pc[u] \in {"run"} \cup Sema
              /\ links.owner[u] \in {i} \cup Sema
              /\ pc[u] = "run" => /\ links.owner[u] = i
                                  /\ pri[curtask] <= i
    BY <1>1 DEF IrqTasks
  <2>3. CASE u # t
    BY <2>0, <2>1, <2>2, <2>3, <1>4, <1>5
  <2>4. CASE u = t
    <3>1. links.owner[u] # i /\ links.owner[u] # NULL
      BY <2>1, <2>4, Interrupts
    <3>2. /\ Serving(i)' /\ pc[u] \in {"run"} \cup Sema /\ pc[u] # "run"
      BY <2>0, <2>2, <3>1, <2>4
    <3>3. pri'[u] = i /\ ~ process'[u]
      BY <2>1, <2>2, <2>4
    <3>4. links'.owner[u] = i
      BY <1>4, <2>4, <3>3
    <3>5. pc'[u] = pc[u]
      BY <2>1, <2>4
    <3> HIDE DEF Pushes
    <3> QED
      BY <3>2, <3>3, <3>4, <3>5
  <2> QED
    BY <2>3, <2>4
<1> QED
  BY <1>6, <1>7, <1>8, <1>9, <1>10, <1>11, <1>12, <1>13 DEF Inv
-----------------------------------------------------------------------------
(* The actions that put a task into its bucket and do not switch           *)

\* The parts of the invariant that every action starts from.
LEMMA Start ==
    ASSUME Inv
    PROVE  /\ links \in Links /\ WellFormed(links) /\ RestTyped
           /\ state \in [Task -> State] /\ curtask \in Task
           /\ pri \in [Task -> Pri] /\ panic \in Message
           /\ links.owner[curtask] = pri[curtask]
           /\ \A t \in Task : t # curtask /\ state[t] # "TS_READY" =>
                  links.owner[t] \notin Pri
           /\ panic # "No runnable tasks!"
  BY DEF Inv, TypeOK, RestTyped, RunQueueExact

\* The owner of an interrupt task that is on a queue, or past its start.
LEMMA ActiveIrqTask ==
    ASSUME Inv, NEW t \in Task, IsIrqTask(t), pc[t] # "none" \/ links.owner[t] # NULL
    PROVE  links.owner[t] # NULL
<1>1. PICK i \in Irq : irqtask[i] = t
  BY DEF IsIrqTask
<1>2. i # NULL /\ \A s \in Sema : s # NULL
  BY Kinds, Interrupts
<1> QED
  BY <1>1, <1>2, Kinds DEF Inv, IrqTasks

\* MoveWellFormed, of the kernel's own queues.
LEMMA Moved ==
    ASSUME Inv, NEW q \in Queue, NEW t \in Task,
           NEW M, M = taskq_push(task_dequeue(links, t), q, t)
    PROVE  /\ M \in Links
           /\ WellFormed(M)
           /\ M.owner = [links.owner EXCEPT ![t] = q]
           /\ \A r \in Queue : links.head[r] # NULL /\ links.head[r] # t =>
                  M.head[r] = links.head[r]
<1>1. links \in Links
  BY Start
<1>2. WellFormed(links)
  BY Start
<1> QED
  BY <1>1, <1>2, MoveWellFormed

\* What the invariant says about a task of the free list.
LEMMA FreeTasks ==
    ASSUME Inv, NEW i \in 1..Len(freel)
    PROVE  /\ freel[i] \in Task /\ freel[i] # curtask
           /\ state[freel[i]] = "TS_FREE" /\ links.owner[freel[i]] = NULL
           /\ pc[freel[i]] \in {"none", "gone"} /\ cs[freel[i]] = {}
           /\ ~ IsIrqTask(freel[i])
<1>1. freel \in Seq(Task)
  BY Start DEF RestTyped
<1>2. freel[i] \in Task
  BY <1>1, InSeq
<1>3. /\ state[freel[i]] = "TS_FREE" /\ links.owner[freel[i]] = NULL
      /\ pc[freel[i]] \in {"none", "gone"} /\ cs[freel[i]] = {}
      /\ ~ IsIrqTask(freel[i])
  BY DEF Inv, FreeList
<1>4. freel[i] # curtask
  <2>1. links.owner[curtask] # NULL
    BY Start, Kinds
  <2> QED
    BY <1>3, <2>1
<1> QED
  BY <1>2, <1>3, <1>4

\* What the invariant says about the task of an interrupt.
LEMMA IrqTaskNow ==
    ASSUME Inv, NEW i \in Irq, NEW t, t = irqtask[i], t # NULL
    PROVE  /\ t \in Task /\ IsIrqTask(t) /\ pri[t] = i /\ ~ process[t]
           /\ \/ /\ state[t] = "TS_BLOCKED" /\ pc[t] = "none"
                 /\ links.owner[t] = NULL
              \/ /\ Serving(i) /\ pc[t] \in {"run"} \cup Sema
                 /\ links.owner[t] \in {i} \cup Sema
                 /\ pc[t] = "run" => /\ links.owner[t] = i
                                     /\ pri[curtask] <= i
<1>1. irqtask \in [Irq -> Task \cup {NULL}]
  BY Start DEF RestTyped
<1>2. irqtask[i] \in Task \cup {NULL}
  BY <1>1
<1>3. IsIrqTask(t)
  BY Zenon DEF IsIrqTask
<1> QED
  BY <1>2, <1>3 DEF Inv, IrqTasks

\* task_start and task_from_proc: a free task becomes ready.
LEMMA LaunchKeeps ==
    ASSUME Inv, Ordinary(curtask), freel # <<>>, NEW p \in Pri,
           NEW b \in BOOLEAN, Launch(Head(freel), p, b)
    PROVE  Inv'
<1> DEFINE t == Head(freel)
<1>1. /\ freel \in Seq(Task) /\ t = freel[1] /\ 1 \in 1..Len(freel)
      /\ t \in Task
  <2>1. freel \in Seq(Task)
    BY Start DEF RestTyped
  <2> QED
    BY <2>1
<1>2. FreeList
  BY DEF Inv
<1>3. /\ state[t] = "TS_FREE" /\ links.owner[t] = NULL /\ ~ IsIrqTask(t)
  BY <1>1, <1>2 DEF FreeList
<1>4. Tail(freel) \in Seq(Task) /\ Len(Tail(freel)) = Len(freel) - 1
      /\ \A i \in 1..Len(Tail(freel)) : Tail(freel)[i] = freel[i+1] /\ i + 1 \in 1..Len(freel)
  BY <1>1
<1> HIDE DEF t
<1>5. /\ freel' = Tail(freel) /\ pri' = [pri EXCEPT ![t] = p]
      /\ process' = [process EXCEPT ![t] = b]
      /\ state' = [state EXCEPT ![t] = "TS_READY"]
      /\ pc' = [pc EXCEPT ![t] = "run"]
      /\ links' = taskq_push(links, p, t)
      /\ due' = due /\ curtask' = curtask /\ tickcnt' = tickcnt /\ cpu' = cpu
      /\ panic' = panic /\ count' = count /\ last_owner' = last_owner
      /\ cs' = cs /\ irqtask' = irqtask /\ isr' = isr /\ astray' = astray /\ ServingKept
  BY DEF Launch, semvars, irqvars, ServingKept, Serving, t
<1>6. p \in Queue /\ NULL \notin Pri
  BY Kinds
<1>7. /\ links' \in Links /\ WellFormed(links')
      /\ links'.owner = [links.owner EXCEPT ![t] = p]
      /\ \A r \in Queue : links'.head[r] =
             IF r = p /\ links.head[r] = NULL THEN t ELSE links.head[r]
  <2>1. links \in Links
    BY Start
  <2>2. WellFormed(links)
    BY Start
  <2>3. PICK M : M = taskq_push(links, p, t)
    OBVIOUS
  <2>4. /\ M \in Links /\ WellFormed(M)
        /\ M.owner = [links.owner EXCEPT ![t] = p]
        /\ \A r \in Queue : M.head[r] =
               IF r = p /\ links.head[r] = NULL THEN t ELSE links.head[r]
    BY <1>1, <1>3, <1>6, <2>1, <2>2, <2>3, PushWellFormed
  <2>5. links' = M
    BY <1>5, <2>3
  <2> QED
    BY <2>4, <2>5
<1>8. RestTyped'
  BY <1>1, <1>4, <1>5, Start DEF RestTyped, Place
<1>9. /\ pri'[t] = p /\ pc'[t] = "run"
      /\ \A u \in Task : u # t => pri'[u] = pri[u] /\ process'[u] = process[u]
      /\ \A u \in Task : u # t => pc'[u] = pc[u]
  BY <1>1, <1>5, Start DEF RestTyped
<1>10. curtask # Idle
  BY DEF Ordinary
<1>11. \A i, j \in 1..Len(freel') : freel'[i] = freel'[j] => i = j
  BY <1>1, <1>2, <1>4, <1>5 DEF FreeList
<1>12. \A i \in 1..Len(freel') : /\ freel'[i] # t
                                 /\ \E j \in 1..Len(freel) : freel'[i] = freel[j]
  BY <1>1, <1>2, <1>4, <1>5 DEF FreeList
<1>13. links.owner[t] \notin Pri
  BY <1>3, <1>6
<1>14. panic' \in Message /\ panic' # "No runnable tasks!"
  BY <1>5, Start
<1>15. /\ links'.owner = [links.owner EXCEPT ![t] = pri'[t]]
       /\ \A r \in Queue : links.head[r] # NULL /\ links.head[r] # t =>
              links'.head[r] = links.head[r]
       /\ curtask' = curtask /\ curtask = Idle => cpu' # "task"
       /\ pc'[t] = pc[t] \/ (~ IsIrqTask(t) /\ pc'[t] = "run")
       /\ IsIrqTask(t) => /\ pri'[t] = pri[t] /\ process'[t] = process[t]
                          /\ links.owner[t] # NULL
       /\ \A u \in Task : cs'[u] \subseteq cs[u]
       /\ irqtask' = irqtask /\ isr' = isr /\ astray' = astray /\ ServingKept
  BY <1>3, <1>5, <1>7, <1>9, <1>10
<1>16. links' \in Links /\ WellFormed(links')
  BY <1>7
<1>17. Pushes(t)
  BY <1>5, <1>8, <1>9, <1>11, <1>12, <1>13, <1>14, <1>15, <1>16 DEF Pushes
<1> QED
  BY <1>1, <1>17, PushKeeps

\* A task that waits somewhere moves into its bucket: what task_unblock,
\* sema_up and task_wake have in common.
Wakes(t) ==
    /\ links.owner[t] \notin Pri
    /\ IsIrqTask(t) => pc[t] # "none" \/ links.owner[t] # NULL
    /\ links.owner[t] # NULL \/ state[t] = "TS_BLOCKED"
    /\ links' = taskq_push(task_dequeue(links, t), pri[t], t)
    /\ state' = [state EXCEPT ![t] = "TS_READY"]
    /\ RestTyped'
    /\ curtask' = curtask /\ (curtask = Idle => cpu' # "task")
    /\ pri' = pri /\ process' = process /\ pc' = pc /\ freel' = freel
    /\ \A u \in Task : cs'[u] \subseteq cs[u]
    /\ irqtask' = irqtask /\ ServingKept
    /\ panic' \in Message /\ panic' # "No runnable tasks!"

\* A blocked task becomes ready, in its bucket.
LEMMA WakeKeeps ==
    ASSUME Inv, NEW t \in Task, Wakes(t)
    PROVE  Inv'
<1>1. PICK q \in Queue : q = pri[t]
  BY Start, Kinds
<1>2. PICK M : M = taskq_push(task_dequeue(links, t), q, t)
  OBVIOUS
<1>3. /\ M \in Links /\ WellFormed(M)
      /\ M.owner = [links.owner EXCEPT ![t] = q]
      /\ \A r \in Queue : links.head[r] # NULL /\ links.head[r] # t =>
             M.head[r] = links.head[r]
  BY <1>2, Moved
<1>4. links' = M /\ pri'[t] = q
  BY <1>1, <1>2 DEF Wakes
<1>5. FreeList /\ freel \in Seq(Task)
  BY Start DEF Inv, RestTyped
<1>6. \A i \in 1..Len(freel) : freel[i] # t
  BY <1>5 DEF FreeList, Wakes
<1>7. freel' = freel /\ \A i, j \in 1..Len(freel) : freel[i] = freel[j] => i = j
  BY <1>5 DEF FreeList, Wakes
<1>8. IsIrqTask(t) => links.owner[t] # NULL
  BY ActiveIrqTask DEF Wakes
<1>9. /\ links' \in Links /\ WellFormed(links')
      /\ links'.owner = [links.owner EXCEPT ![t] = pri'[t]]
      /\ \A r \in Queue : links.head[r] # NULL /\ links.head[r] # t =>
             links'.head[r] = links.head[r]
  BY <1>3, <1>4
<1>10. Pushes(t)
  BY <1>6, <1>7, <1>8, <1>9 DEF Wakes, Pushes
<1> QED
  BY <1>10, PushKeeps

\* A step that changes nothing.
LEMMA StutterKeeps ==
    ASSUME Inv, UNCHANGED vars
    PROVE  Inv'
<1> USE DEF vars, semvars, taskvars, irqvars, ServingKept, Serving
<1>1. TypeOK'
  BY DEF Inv, TypeOK
<1>2. WellFormed(links')
  BY DEF Inv
<1>3. RunQueueExact' /\ CurtaskHeadsBucket' /\ IdleOnlyWhenIdle'
  BY DEF Inv, RunQueueExact, CurtaskHeadsBucket, IdleOnlyWhenIdle
<1>4. RunStates' /\ IdleStays'
  BY DEF Inv, RunStates, IdleStays, IsIrqTask
<1>5. FreeList'
  BY DEF Inv, FreeList, IsIrqTask
<1>6. IrqTasks'
  BY DEF Inv, IrqTasks
<1> QED
  BY <1>1, <1>2, <1>3, <1>4, <1>5, <1>6 DEF Inv

\* task_unblock: a blocked task moves to its bucket, any other stays.
LEMMA UnblockKeeps ==
    ASSUME Inv, NEW t \in Task \cup {NULL}, Running(curtask), curtask # Idle,
           t # NULL => pc[t] # "none" \/ links.owner[t] # NULL, Unblock(t),
           astray' = astray \/ (t # NULL /\ state[t] = "TS_BLOCKED"),
           astray \subseteq astray', astray' \subseteq Stray
    PROVE  Inv'
<1>1. /\ curtask' = curtask /\ tickcnt' = tickcnt /\ cpu' = cpu /\ pc' = pc
      /\ panic' = panic /\ count' = count /\ last_owner' = last_owner
      /\ cs' = cs /\ pri' = pri /\ due' = due /\ process' = process
      /\ freel' = freel /\ irqtask' = irqtask /\ isr' = isr /\ ServingKept
  BY DEF Unblock, semvars, taskvars, irqvars, ServingKept, Serving
<1>2. RestTyped'
  BY <1>1, Start DEF RestTyped
<1>3. CASE t # NULL /\ state[t] = "TS_BLOCKED"
  <2>1. t \in Task
    BY <1>3
  <2>2. /\ links' = taskq_push(task_dequeue(links, t), pri[t], t)
        /\ state' = [state EXCEPT ![t] = "TS_READY"]
    BY <1>3 DEF Unblock
  <2>3. t # curtask
    BY <1>3 DEF Inv, RunStates
  <2>4. links.owner[t] \notin Pri
    BY <1>3, <2>1, <2>3, Start
  <2>5. /\ panic' \in Message /\ panic' # "No runnable tasks!"
        /\ \A u \in Task : cs'[u] \subseteq cs[u]
    BY <1>1, Start
  <2>6. Wakes(t)
    BY <1>1, <1>2, <1>3, <2>2, <2>4, <2>5 DEF Wakes
  <2> QED
    BY <2>1, <2>6, WakeKeeps
<1>4. CASE ~ (t # NULL /\ state[t] = "TS_BLOCKED")
  <2>1. links' = links /\ state' = state
    BY <1>4 DEF Unblock
  <2> QED
    BY <1>1, <1>4, <2>1, StutterKeeps DEF vars, semvars, taskvars, irqvars
<1> QED
  BY <1>3, <1>4

\* Unblocking the head of a wait queue.
LEMMA task_unblock_Keeps ==
    ASSUME Inv, NEW q \in WaitQ, task_unblock(q)
    PROVE  Inv'
<1>1. PICK t : t = links.head[q]
  OBVIOUS
<1>2. q \in Queue /\ q # NULL
  BY Kinds
<1>3. links \in Links /\ WellFormed(links)
  BY Start
<1>4. t \in Task \cup {NULL}
  BY <1>1, <1>2, <1>3 DEF Links
<1>5. t # NULL => links.owner[t] # NULL
  BY <1>1, <1>2, <1>3, HeadOwned
<1>6. /\ Running(curtask) /\ curtask # Idle /\ Unblock(t)
      /\ astray' = astray
  BY <1>1 DEF task_unblock
<1>7. astray \subseteq Stray
  BY Start DEF RestTyped
<1> QED
  BY <1>4, <1>5, <1>6, <1>7, UnblockKeeps

\* Unblocking a task by name, wherever it is blocked.
LEMMA task_unblock_named_Keeps ==
    ASSUME Inv, NEW t \in EchoTask, task_unblock_named(t)
    PROVE  Inv'
<1>1. t \in Task
  BY SchedAssumption
<1>2. Running(curtask) /\ curtask # Idle /\ pc[t] # "none" /\ Unblock(t)
  BY DEF task_unblock_named
<1>3. astray \subseteq Stray
  BY Start DEF RestTyped
<1>4. /\ astray' = astray \/ state[t] = "TS_BLOCKED"
      /\ astray \subseteq astray' /\ astray' \subseteq Stray
  BY <1>3 DEF task_unblock_named, WaitsForSema, Stray
<1>5. t # NULL
  BY <1>1, Kinds
<1> QED
  BY <1>1, <1>2, <1>4, <1>5, UnblockKeeps

\* The timer wakes the first sleeper.
LEMMA task_wake_Keeps ==
    ASSUME Inv, task_wake
    PROVE  Inv'
<1>1. PICK p : p = links.head[Sleeping]
  OBVIOUS
<1>2. Sleeping \in Queue /\ Sleeping \notin Pri /\ Sleeping # NULL
  BY Kinds
<1>3. links \in Links /\ WellFormed(links)
  BY Start
<1>4. p # NULL
  BY <1>1 DEF task_wake, SleeperDue
<1>5. p \in Task /\ links.owner[p] = Sleeping
  BY <1>1, <1>2, <1>3, <1>4, HeadOwned
<1>6. /\ links' = taskq_push(task_dequeue(links, p), pri[p], p)
      /\ state' = [state EXCEPT ![p] = "TS_READY"]
      /\ curtask' = curtask /\ tickcnt' = tickcnt /\ cpu' = cpu /\ pc' = pc
      /\ panic' = panic /\ count' = count /\ last_owner' = last_owner
      /\ cs' = cs /\ pri' = pri /\ due' = due /\ process' = process
      /\ freel' = freel /\ irqtask' = irqtask /\ isr' = isr /\ astray' = astray /\ ServingKept /\ cpu = "timer"
  BY <1>1 DEF task_wake, semvars, taskvars, irqvars, ServingKept, Serving
<1>7. RestTyped' /\ panic' \in Message /\ panic' # "No runnable tasks!"
  BY <1>6, Start DEF RestTyped
<1>8. Wakes(p)
  BY <1>2, <1>5, <1>6, <1>7 DEF Wakes
<1> QED
  BY <1>5, <1>8, WakeKeeps
-----------------------------------------------------------------------------
(* The actions that leave the queues alone                                 *)

Quiet ==
    /\ links' = links /\ state' = state /\ curtask' = curtask /\ pri' = pri
    /\ process' = process /\ freel' = freel /\ irqtask' = irqtask
    /\ ServingKept /\ RestTyped'
    /\ panic' \in Message /\ panic' # "No runnable tasks!"
    /\ cpu' = "task" => cpu = "task"
    /\ \A t \in Task : t # curtask => pc'[t] = pc[t] /\ cs'[t] = cs[t]
    /\ pc'[curtask] = pc[curtask] \/ (pc[curtask] \in Sema /\ pc'[curtask] = "run")
    /\ pc[curtask] = "exiting" \/ curtask = Idle => cs'[curtask] \subseteq cs[curtask]

\* A step that only changes what the run queue does not depend on.
LEMMA QuietKeeps ==
    ASSUME Inv, Quiet
    PROVE  Inv'
<1> USE DEF Quiet
<1>1. TypeOK'
  BY DEF Inv, TypeOK, RestTyped
<1>2. WellFormed(links')
  BY DEF Inv
<1>3. RunQueueExact' /\ CurtaskHeadsBucket' /\ IdleOnlyWhenIdle'
  BY DEF Inv, RunQueueExact, CurtaskHeadsBucket, IdleOnlyWhenIdle
<1>4. curtask \in Task /\ links.owner[curtask] = pri[curtask]
      /\ pri[curtask] \in Pri /\ pri[curtask] # NULL
  BY Start, Kinds
<1>5. RunStates'
  <2>1. \A t \in Task : state[t] = "TS_FREEING" => pc'[t] = "exiting"
    BY <1>4, Interrupts DEF Inv, RunStates
  <2>2. \A t \in Task : pc'[t] = "exiting" => pc[t] = "exiting" /\ cs'[t] \subseteq cs[t]
    BY <1>4, Interrupts
  <2> QED
    BY <2>1, <2>2, <1>4 DEF Inv, RunStates
<1>6. IdleStays'
  BY <1>4, Interrupts DEF Inv, IdleStays, IsIrqTask
<1>7. FreeList'
  <2>1. \A i \in 1..Len(freel) :
            /\ freel[i] \in Task /\ freel[i] # curtask
            /\ state[freel[i]] = "TS_FREE" /\ links.owner[freel[i]] = NULL
            /\ pc[freel[i]] \in {"none", "gone"} /\ cs[freel[i]] = {}
            /\ ~ IsIrqTask(freel[i])
    BY FreeTasks
  <2>2. \A i, j \in 1..Len(freel) : freel[i] = freel[j] => i = j
    BY DEF Inv, FreeList
  <2> QED
    BY <2>1, <2>2 DEF FreeList, IsIrqTask
<1>8. IrqTasks'
  <2> SUFFICES ASSUME NEW i \in Irq, irqtask[i] # NULL
               PROVE  LET t == irqtask[i] IN
                      /\ pri[t] = i /\ ~ process[t]
                      /\ \/ /\ state[t] = "TS_BLOCKED" /\ pc'[t] = "none"
                            /\ links.owner[t] = NULL
                         \/ /\ Serving(i)' /\ pc'[t] \in {"run"} \cup Sema
                            /\ links.owner[t] \in {i} \cup Sema
                            /\ pc'[t] = "run" => /\ links.owner[t] = i
                                                 /\ pri[curtask] <= i
    BY DEF IrqTasks
  <2> PICK t : t = irqtask[i]
    OBVIOUS
  <2>0. Serving(i) => Serving(i)'
    BY DEF ServingKept
  <2>1. /\ t \in Task /\ pri[t] = i /\ ~ process[t]
        /\ \/ /\ state[t] = "TS_BLOCKED" /\ pc[t] = "none"
              /\ links.owner[t] = NULL
           \/ /\ Serving(i) /\ pc[t] \in {"run"} \cup Sema
              /\ links.owner[t] \in {i} \cup Sema
              /\ pc[t] = "run" => /\ links.owner[t] = i
                                  /\ pri[curtask] <= i
    BY IrqTaskNow
  <2>3. CASE t # curtask
    BY <2>0, <2>1, <2>3
  <2>4. CASE t = curtask
    <3>1. links.owner[t] = i /\ links.owner[t] # NULL /\ pri[curtask] <= i
      <4> HIDE DEF Quiet
      <4>1. pri[curtask] = i
        BY <2>1, <2>4
      <4>2. i <= i
        <5>1. i \in 0..15
          BY Interrupts
        <5> QED
          BY <5>1
      <4> QED
        BY <4>1, <4>2, <1>4, <2>4
    <3>2. /\ Serving(i) /\ pc[t] \in {"run"} \cup Sema
          /\ links.owner[t] \in {i} \cup Sema
      BY <2>1, <3>1
    <3>3. pc'[t] \in {"run"} \cup Sema
      BY <2>4, <3>2
    <3> QED
      BY <2>0, <2>1, <3>1, <3>2, <3>3
  <2> QED
    BY <2>3, <2>4
<1> QED
  BY <1>1, <1>2, <1>3, <1>5, <1>6, <1>7, <1>8 DEF Inv

\* The actions that leave the run queue alone.
LEMMA QuietActions ==
    ASSUME Inv, \/ task_start_fails \/ timer_handler
                \/ \E s \in Sema : sema_down(s) \/ sema_down_resumes(s)
    PROVE  Inv'
<1> USE DEF semvars, taskvars, irqvars, ServingKept, Serving
<1>0. RestTyped /\ curtask \in Task /\ panic \in Message /\ panic # "No runnable tasks!"
  BY Start
<1>1. CASE task_start_fails
  <2>1. Quiet
    BY <1>0, <1>1 DEF task_start_fails, Quiet, RestTyped, Message
  <2> QED
    BY <2>1, QuietKeeps
<1>2. CASE timer_handler
  <2>1. tickcnt' \in Nat
    <3>1. tickcnt \in Nat
      BY <1>0 DEF RestTyped
    <3>2. tickcnt' = (tickcnt + 1) % TickMod
      BY <1>2 DEF timer_handler
    <3> QED
      BY <3>1, <3>2, Ticks
  <2>2. Quiet
    BY <1>0, <1>2, <2>1 DEF timer_handler, Quiet, RestTyped
  <2> QED
    BY <2>2, QuietKeeps
<1>3. ASSUME NEW s \in Sema, sema_down(s) PROVE Inv'
  <2>1. /\ count' = [count EXCEPT ![s] = @ - 1]
        /\ last_owner' = [last_owner EXCEPT ![s] = curtask]
        /\ cs' = [cs EXCEPT ![curtask] = @ \cup {s}]
    BY <1>3 DEF sema_down
  <2>2. count' \in [Sema -> Int]
    <3>1. count \in [Sema -> Int]
      BY <1>0 DEF RestTyped
    <3> QED
      BY <2>1, <3>1
  <2>3. last_owner' \in [Sema -> Task \cup {NULL}]
    BY <1>0, <2>1 DEF RestTyped
  <2>4. /\ cs' \in [Task -> SUBSET Sema]
        /\ \A t \in Task : t # curtask => cs'[t] = cs[t]
    BY <1>0, <2>1 DEF RestTyped
  <2>5. pc[curtask] = "run" /\ pc' = pc /\ curtask # Idle
    BY <1>3 DEF sema_down, MayTake, Running
  <2>6. Quiet
    BY <1>0, <1>3, <2>2, <2>3, <2>4, <2>5 DEF sema_down, Quiet, RestTyped
  <2> QED
    BY <2>6, QuietKeeps
<1>4. ASSUME NEW s \in Sema, sema_down_resumes(s) PROVE Inv'
  <2>1. /\ last_owner' = [last_owner EXCEPT ![s] = curtask]
        /\ cs' = [cs EXCEPT ![curtask] = @ \cup {s}]
        /\ pc' = [pc EXCEPT ![curtask] = "run"] /\ pc[curtask] = s
    BY <1>4 DEF sema_down_resumes
  <2>2. last_owner' \in [Sema -> Task \cup {NULL}]
    BY <1>0, <2>1 DEF RestTyped
  <2>3. /\ cs' \in [Task -> SUBSET Sema]
        /\ \A t \in Task : t # curtask => cs'[t] = cs[t]
    BY <1>0, <2>1 DEF RestTyped
  <2>4. /\ pc' \in [Task -> Place] /\ pc'[curtask] = "run"
        /\ \A t \in Task : t # curtask => pc'[t] = pc[t]
    BY <1>0, <2>1 DEF RestTyped, Place
  <2>5. s # "exiting" /\ curtask # Idle
    BY <2>1, Interrupts DEF Inv, IdleStays
  <2>6. Quiet
    BY <1>0, <1>4, <2>1, <2>2, <2>3, <2>4, <2>5 DEF sema_down_resumes, Quiet, RestTyped
  <2> QED
    BY <2>6, QuietKeeps
<1> QED
  BY <1>1, <1>2, <1>3, <1>4

\* sema_up: the head of the semaphore moves to its bucket, if any.
LEMMA sema_up_Keeps ==
    ASSUME Inv, NEW s \in Sema, sema_up(s)
    PROVE  Inv'
<1> USE DEF taskvars, irqvars, ServingKept, Serving
<1>0. RestTyped /\ curtask \in Task /\ panic \in Message /\ panic # "No runnable tasks!"
  BY Start
<1>1. /\ count' \in [Sema -> Int] /\ last_owner' \in [Sema -> Task \cup {NULL}]
      /\ cs' \in [Task -> SUBSET Sema]
      /\ \A t \in Task : cs'[t] \subseteq cs[t]
      /\ \A t \in Task : t # curtask => cs'[t] = cs[t]
  <2>1. /\ count' = [count EXCEPT ![s] = @ + 1]
        /\ last_owner' = [last_owner EXCEPT ![s] = NULL]
        /\ cs' = [cs EXCEPT ![curtask] = @ \ {s}]
    BY DEF sema_up
  <2>2. count' \in [Sema -> Int]
    <3>1. count \in [Sema -> Int]
      BY <1>0 DEF RestTyped
    <3> QED
      BY <2>1, <3>1
  <2>3. last_owner' \in [Sema -> Task \cup {NULL}]
    BY <1>0, <2>1 DEF RestTyped
  <2>4. /\ cs' \in [Task -> SUBSET Sema]
        /\ \A t \in Task : cs'[t] \subseteq cs[t]
        /\ \A t \in Task : t # curtask => cs'[t] = cs[t]
    BY <1>0, <2>1 DEF RestTyped
  <2> QED
    BY <2>2, <2>3, <2>4
<1>2. RestTyped'
  BY <1>0, <1>1 DEF sema_up, RestTyped
<1>3. panic' \in Message /\ panic' # "No runnable tasks!"
  BY <1>0 DEF sema_up, Message
<1>5. PICK t : t = links.head[s]
  OBVIOUS
<1>6. CASE count[s] + 1 <= 0 /\ t # NULL
  <2>1. s \in Queue /\ s \notin Pri /\ s # NULL
    BY Kinds
  <2>2. links \in Links /\ WellFormed(links)
    BY Start
  <2>3. t \in Task /\ links.owner[t] = s
    BY <1>5, <1>6, <2>1, <2>2, HeadOwned
  <2>4. taskq_pop(links, s) = task_dequeue(links, t)
    BY <1>5, <1>6, <2>1, <2>2, PopIsDequeue
  <2>5. /\ links' = taskq_push(task_dequeue(links, t), pri[t], t)
        /\ state' = [state EXCEPT ![t] = "TS_READY"]
    BY <1>5, <1>6, <2>4 DEF sema_up
  <2>6. curtask # Idle
    BY DEF sema_up, Inv, IdleStays
  <2>7. Wakes(t)
    BY <1>1, <1>2, <1>3, <2>1, <2>3, <2>5, <2>6 DEF Wakes, sema_up
  <2> QED
    BY <2>3, <2>7, WakeKeeps
<1>7. CASE ~ (count[s] + 1 <= 0 /\ t # NULL)
  <2>1. links' = links /\ state' = state
    BY <1>5, <1>7 DEF sema_up
  <2>2. /\ curtask' = curtask /\ pri' = pri /\ process' = process
        /\ freel' = freel /\ irqtask' = irqtask /\ isr' = isr /\ astray' = astray /\ ServingKept /\ cpu' = cpu
        /\ pc' = pc
    BY DEF sema_up
  <2>3. Quiet
    BY <1>0, <1>1, <1>2, <1>3, <2>1, <2>2 DEF Quiet
  <2> QED
    BY <2>3, QuietKeeps
<1> QED
  BY <1>6, <1>7

\* _exit marks the running task.
LEMMA exit_mark_Keeps ==
    ASSUME Inv, exit_mark
    PROVE  Inv'
<1>1. /\ process' = [process EXCEPT ![curtask] = FALSE]
      /\ state' = [state EXCEPT ![curtask] = "TS_FREEING"]
      /\ pc' = [pc EXCEPT ![curtask] = "exiting"]
      /\ links' = links /\ pri' = pri /\ due' = due /\ freel' = freel
      /\ curtask' = curtask /\ tickcnt' = tickcnt /\ cpu' = cpu
      /\ panic' = panic /\ count' = count /\ last_owner' = last_owner
      /\ cs' = cs /\ irqtask' = irqtask /\ isr' = isr /\ astray' = astray /\ ServingKept
  BY DEF exit_mark, semvars, irqvars, ServingKept, Serving
<1>2. curtask # Idle /\ ~ IsIrqTask(curtask) /\ cs[curtask] = {}
  BY DEF exit_mark, Ordinary
<1>3. RestTyped /\ state \in [Task -> State] /\ curtask \in Task
  BY Start
<1>4. /\ RestTyped' /\ state' \in [Task -> State]
      /\ state'[curtask] = "TS_FREEING" /\ pc'[curtask] = "exiting"
      /\ \A t \in Task : t # curtask =>
             state'[t] = state[t] /\ pc'[t] = pc[t] /\ process'[t] = process[t]
  BY <1>1, <1>3 DEF RestTyped, State, Place
<1>5. TypeOK'
  BY <1>1, <1>4 DEF Inv, TypeOK, RestTyped
<1>6. WellFormed(links')
  BY <1>1 DEF Inv
<1>7. RunQueueExact'
  BY <1>1, <1>4 DEF Inv, RunQueueExact
<1>8. CurtaskHeadsBucket' /\ IdleOnlyWhenIdle'
  BY <1>1 DEF Inv, CurtaskHeadsBucket, IdleOnlyWhenIdle
<1>9. RunStates'
  BY <1>1, <1>2, <1>3, <1>4 DEF Inv, RunStates
<1>10. IdleStays'
  BY <1>1, <1>2, <1>4, Interrupts DEF Inv, IdleStays, IsIrqTask
<1>11. FreeList'
  <2>1. \A i \in 1..Len(freel) :
            /\ freel[i] \in Task /\ freel[i] # curtask
            /\ state[freel[i]] = "TS_FREE" /\ links.owner[freel[i]] = NULL
            /\ pc[freel[i]] \in {"none", "gone"} /\ cs[freel[i]] = {}
            /\ ~ IsIrqTask(freel[i])
    BY FreeTasks
  <2>2. \A i, j \in 1..Len(freel) : freel[i] = freel[j] => i = j
    BY DEF Inv, FreeList
  <2> QED
    BY <1>1, <1>4, <2>1, <2>2 DEF FreeList, IsIrqTask
<1>12. IrqTasks'
  <2> SUFFICES ASSUME NEW i \in Irq, irqtask[i] # NULL
               PROVE  LET u == irqtask[i] IN
                      /\ pri[u] = i /\ ~ process'[u]
                      /\ \/ /\ state'[u] = "TS_BLOCKED" /\ pc'[u] = "none"
                            /\ links.owner[u] = NULL
                         \/ /\ Serving(i)' /\ pc'[u] \in {"run"} \cup Sema
                            /\ links.owner[u] \in {i} \cup Sema
                            /\ pc'[u] = "run" => /\ links.owner[u] = i
                                                 /\ pri[curtask] <= i
    BY <1>1 DEF IrqTasks
  <2> PICK u : u = irqtask[i]
    OBVIOUS
  <2>0. Serving(i) => Serving(i)'
    BY <1>1 DEF ServingKept
  <2>1. /\ u \in Task /\ IsIrqTask(u) /\ pri[u] = i /\ ~ process[u]
        /\ \/ /\ state[u] = "TS_BLOCKED" /\ pc[u] = "none"
              /\ links.owner[u] = NULL
           \/ /\ Serving(i) /\ pc[u] \in {"run"} \cup Sema
              /\ links.owner[u] \in {i} \cup Sema
              /\ pc[u] = "run" => /\ links.owner[u] = i
                                  /\ pri[curtask] <= i
    BY IrqTaskNow
  <2>2. u # curtask
    BY <1>2, <2>1
  <2> QED
    BY <2>0, <1>4, <2>1, <2>2
<1> QED
  BY <1>1, <1>5, <1>6, <1>7, <1>8, <1>9, <1>10, <1>11, <1>12 DEF Inv

\* A free task becomes the task of an interrupt.
LEMMA intr_add_handler_Keeps ==
    ASSUME Inv, NEW k \in Irq, intr_add_handler(k)
    PROVE  Inv'
<1>1. PICK t : t = Head(freel)
  OBVIOUS
<1>2. /\ freel \in Seq(Task) /\ freel # <<>>
      /\ t = freel[1] /\ 1 \in 1..Len(freel)
  <2>1. freel \in Seq(Task) /\ freel # <<>>
    BY Start DEF RestTyped, intr_add_handler
  <2> QED
    BY <1>1, <2>1
<1>3. /\ t \in Task /\ t # curtask /\ state[t] = "TS_FREE"
      /\ links.owner[t] = NULL /\ cs[t] = {} /\ ~ IsIrqTask(t)
  BY <1>2, FreeTasks
<1>4. Tail(freel) \in Seq(Task) /\ Len(Tail(freel)) = Len(freel) - 1
      /\ \A i \in 1..Len(Tail(freel)) : Tail(freel)[i] = freel[i+1] /\ i + 1 \in 1..Len(freel)
  BY <1>2
<1>5. /\ irqtask' = [irqtask EXCEPT ![k] = t] /\ pri' = [pri EXCEPT ![t] = k]
      /\ process' = [process EXCEPT ![t] = FALSE]
      /\ due' = [due EXCEPT ![t] = 0]
      /\ state' = [state EXCEPT ![t] = "TS_BLOCKED"]
      /\ pc' = [pc EXCEPT ![t] = "none"]
      /\ freel' = Tail(freel) /\ links' = links /\ curtask' = curtask
      /\ tickcnt' = tickcnt /\ cpu' = cpu /\ panic' = panic /\ count' = count
      /\ last_owner' = last_owner /\ cs' = cs /\ isr' = isr /\ astray' = astray /\ ServingKept
  BY <1>1 DEF intr_add_handler, semvars, ServingKept, Serving
<1>6. /\ RestTyped /\ state \in [Task -> State] /\ curtask \in Task
      /\ panic \in Message /\ links \in Links
  BY Start
<1>7. k \in Pri /\ NULL \notin Pri /\ k # NULL
  BY Kinds, Interrupts
<1>8. /\ irqtask' \in [Irq -> Task \cup {NULL}] /\ irqtask'[k] = t
      /\ \A i \in Irq : i # k => irqtask'[i] = irqtask[i]
  BY <1>3, <1>5, <1>6 DEF RestTyped
<1>9. /\ pri' \in [Task -> Pri] /\ process' \in [Task -> BOOLEAN]
      /\ due' \in [Task -> Nat]
      /\ pri'[t] = k /\ ~ process'[t]
      /\ \A u \in Task : u # t => pri'[u] = pri[u] /\ process'[u] = process[u]
  BY <1>3, <1>5, <1>6, <1>7 DEF RestTyped
<1>10. /\ state' \in [Task -> State] /\ pc' \in [Task -> Place]
       /\ state'[t] = "TS_BLOCKED" /\ pc'[t] = "none"
       /\ \A u \in Task : u # t => state'[u] = state[u] /\ pc'[u] = pc[u]
  BY <1>3, <1>5, <1>6 DEF RestTyped, State, Place
<1>11. TypeOK'
  BY <1>4, <1>5, <1>6, <1>8, <1>9, <1>10 DEF TypeOK, RestTyped
<1>12. WellFormed(links')
  BY <1>5 DEF Inv
<1>13. RunQueueExact'
  BY <1>3, <1>5, <1>7, <1>9, <1>10 DEF Inv, RunQueueExact
<1>14. CurtaskHeadsBucket' /\ IdleOnlyWhenIdle'
  BY <1>3, <1>5, <1>6, <1>9 DEF Inv, CurtaskHeadsBucket, IdleOnlyWhenIdle
<1>15. RunStates'
  BY <1>3, <1>5, <1>6, <1>10 DEF Inv, RunStates
<1>16. t # Idle /\ PRI_IDLE # NULL
  BY <1>3, Kinds DEF Inv, IdleStays
<1>17. \A u \in Task : u # t /\ ~ IsIrqTask(u) => ~ (\E i \in Irq : irqtask'[i] = u)
  BY <1>8 DEF IsIrqTask
<1>18. IdleStays'
  BY <1>5, <1>9, <1>10, <1>16, <1>17, Interrupts DEF Inv, IdleStays, IsIrqTask
<1>19. FreeList'
  <2>1. \A i, j \in 1..Len(freel) : freel[i] = freel[j] => i = j
    BY DEF Inv, FreeList
  <2>2. \A i, j \in 1..Len(freel') : freel'[i] = freel'[j] => i = j
    BY <1>2, <1>4, <1>5, <2>1
  <2>3. \A i \in 1..Len(freel') : /\ freel'[i] # t
                                  /\ \E j \in 1..Len(freel) : freel'[i] = freel[j]
    BY <1>2, <1>4, <1>5, <2>1
  <2>4. \A i \in 1..Len(freel) :
            /\ freel[i] \in Task
            /\ state[freel[i]] = "TS_FREE" /\ links.owner[freel[i]] = NULL
            /\ pc[freel[i]] \in {"none", "gone"} /\ cs[freel[i]] = {}
            /\ ~ IsIrqTask(freel[i])
    BY FreeTasks
  <2>5. \A i \in 1..Len(freel') :
            /\ state'[freel'[i]] = "TS_FREE" /\ links'.owner[freel'[i]] = NULL
            /\ pc'[freel'[i]] \in {"none", "gone"} /\ cs'[freel'[i]] = {}
            /\ ~ (\E j \in Irq : irqtask'[j] = freel'[i])
    <3> SUFFICES ASSUME NEW i \in 1..Len(freel')
                 PROVE  /\ state'[freel'[i]] = "TS_FREE"
                        /\ links'.owner[freel'[i]] = NULL
                        /\ pc'[freel'[i]] \in {"none", "gone"}
                        /\ cs'[freel'[i]] = {}
                        /\ ~ (\E j \in Irq : irqtask'[j] = freel'[i])
      OBVIOUS
    <3>1. PICK u : u = freel'[i]
      OBVIOUS
    <3>2. PICK j \in 1..Len(freel) : u = freel[j]
      BY <3>1, <2>3
    <3>3. /\ u # t /\ u \in Task /\ state[u] = "TS_FREE"
          /\ links.owner[u] = NULL /\ pc[u] \in {"none", "gone"}
          /\ cs[u] = {} /\ ~ IsIrqTask(u)
      BY <2>3, <2>4, <3>1, <3>2
    <3>4. /\ state'[u] = "TS_FREE" /\ links'.owner[u] = NULL
          /\ pc'[u] \in {"none", "gone"} /\ cs'[u] = {}
      BY <3>3, <1>5, <1>10
    <3>5. ~ (\E l \in Irq : irqtask'[l] = u)
      BY <3>3, <1>17
    <3> QED
      BY <3>1, <3>4, <3>5
  <2> QED
    BY <2>2, <2>5 DEF FreeList, IsIrqTask
<1>20. IrqTasks'
  <2> SUFFICES ASSUME NEW i \in Irq, irqtask'[i] # NULL
               PROVE  LET u == irqtask'[i] IN
                      /\ pri'[u] = i /\ ~ process'[u]
                      /\ \/ /\ state'[u] = "TS_BLOCKED" /\ pc'[u] = "none"
                            /\ links.owner[u] = NULL
                         \/ /\ Serving(i)' /\ pc'[u] \in {"run"} \cup Sema
                            /\ links.owner[u] \in {i} \cup Sema
                            /\ pc'[u] = "run" => /\ links.owner[u] = i
                                                 /\ pri'[curtask] <= i
    BY <1>5 DEF IrqTasks
  <2> PICK u : u = irqtask'[i]
    OBVIOUS
  <2>0. Serving(i) => Serving(i)'
    BY <1>5 DEF ServingKept
  <2>1. CASE i = k
    BY <2>1, <1>3, <1>8, <1>9, <1>10
  <2>2. CASE i # k
    <3>1. u = irqtask[i] /\ u # NULL
      BY <2>2, <1>8
    <3>2. /\ u \in Task /\ IsIrqTask(u) /\ pri[u] = i /\ ~ process[u]
          /\ \/ /\ state[u] = "TS_BLOCKED" /\ pc[u] = "none"
                /\ links.owner[u] = NULL
             \/ /\ Serving(i) /\ pc[u] \in {"run"} \cup Sema
                /\ links.owner[u] \in {i} \cup Sema
                /\ pc[u] = "run" => /\ links.owner[u] = i
                                    /\ pri[curtask] <= i
      BY <3>1, IrqTaskNow
    <3>3. u # t /\ pri'[curtask] = pri[curtask]
      BY <3>2, <1>3, <1>6, <1>9
    <3> QED
      BY <2>0, <3>2, <3>3, <1>9, <1>10
  <2> QED
    BY <2>1, <2>2
<1> QED
  BY <1>5, <1>11, <1>12, <1>13, <1>14, <1>15, <1>18, <1>19, <1>20 DEF Inv
-----------------------------------------------------------------------------
(* The actions in which the running task leaves its bucket                 *)

\* curtask goes to q, which is no bucket, in the state x.
Leaves(L, q, x) ==
    /\ L \in Links /\ WellFormed(L)
    /\ L.owner = [links.owner EXCEPT ![curtask] = q]
    /\ q \notin Pri /\ x \in {"TS_FREE", "TS_BLOCKED"}
    /\ SwitchTo(L, [state EXCEPT ![curtask] = x])
    /\ pri' = pri /\ process' = process /\ irqtask' = irqtask /\ cs' = cs
    /\ RestTyped' /\ curtask # Idle
    /\ \A t \in Task : t # curtask => pc'[t] = pc[t]
    /\ pc'[curtask] # "exiting"
    /\ \A i, j \in 1..Len(freel') : freel'[i] = freel'[j] => i = j
    /\ \A i \in 1..Len(freel') :
           \/ \E j \in 1..Len(freel) : freel'[i] = freel[j]
           \/ /\ freel'[i] = curtask /\ x = "TS_FREE" /\ q = NULL
              /\ pc'[curtask] = "gone" /\ cs[curtask] = {}
              /\ ~ IsIrqTask(curtask)
    /\ \A i \in Irq : /\ irqtask[i] # NULL /\ irqtask[i] # curtask
                      /\ Serving(i) /\ links.owner[irqtask[i]] # NULL
                      => Serving(i)'
    /\ IsIrqTask(curtask) =>
           /\ x = "TS_BLOCKED"
           /\ \/ q = NULL /\ pc'[curtask] = "none"
              \/ /\ q \in Sema /\ ServingKept
                 /\ pc'[curtask] \in Sema

\* The running task leaves its bucket and another one runs.
LEMMA LeavesKeeps ==
    ASSUME Inv, NEW L, NEW q, NEW x, Leaves(L, q, x)
    PROVE  Inv'
<1>0. PICK st : st = [state EXCEPT ![curtask] = x]
  OBVIOUS
<1>1. /\ links \in Links /\ RestTyped /\ state \in [Task -> State]
      /\ curtask \in Task /\ pri \in [Task -> Pri]
      /\ links.owner[curtask] = pri[curtask]
  BY Start
<1>2. /\ st \in [Task -> State] /\ st[curtask] = x
      /\ \A t \in Task : t # curtask => st[t] = state[t]
  BY <1>0, <1>1 DEF Leaves, State
<1>3. SwitchTo(L, st)
  BY <1>0 DEF Leaves
<1>4. /\ L.owner[curtask] = q
      /\ \A t \in Task : t # curtask => L.owner[t] = links.owner[t]
  BY <1>1 DEF Leaves, Links
<1>5. RunQueueExact /\ RunStates /\ IdleStays
  BY DEF Inv
<1>6. \A t \in Task : L.owner[t] \in Pri => L.owner[t] = pri[t] /\ st[t] = "TS_READY"
  BY <1>2, <1>4, <1>5 DEF RunQueueExact, Leaves
<1>7. \A t \in Task : st[t] = "TS_READY" => L.owner[t] = pri[t]
  BY <1>2, <1>4, <1>5 DEF RunQueueExact, Leaves
<1>8. \A t \in Task : st[t] \notin {"TS_RUN", "TS_FREEING"}
  BY <1>2, <1>5 DEF RunStates, Leaves
<1>9. L.owner[Idle] = PRI_IDLE /\ pc'[Idle] = "run" /\ cs'[Idle] = {}
  BY <1>4, <1>5, Interrupts DEF IdleStays, Leaves
<1>10. \A t \in Task : pc'[t] = "exiting" => cs'[t] = {}
  BY <1>5 DEF RunStates, Leaves
<1>11. FreeListAt(L, st)'
  <2> SUFFICES ASSUME NEW i \in 1..Len(freel')
               PROVE  /\ st[freel'[i]] = "TS_FREE"
                      /\ L.owner[freel'[i]] = NULL
                      /\ pc'[freel'[i]] \in {"none", "gone"}
                      /\ cs'[freel'[i]] = {} /\ ~ IsIrqTask(freel'[i])
    BY DEF FreeListAt, IsIrqTask, Leaves
  <2>1. PICK u : u = freel'[i]
    OBVIOUS
  <2>2. ASSUME NEW j \in 1..Len(freel), u = freel[j]
        PROVE  /\ st[u] = "TS_FREE" /\ L.owner[u] = NULL
               /\ pc'[u] \in {"none", "gone"} /\ cs'[u] = {} /\ ~ IsIrqTask(u)
    <3>1. /\ u \in Task /\ u # curtask /\ state[u] = "TS_FREE"
          /\ links.owner[u] = NULL /\ pc[u] \in {"none", "gone"}
          /\ cs[u] = {} /\ ~ IsIrqTask(u)
      BY <2>2, FreeTasks
    <3> QED
      BY <3>1, <1>2, <1>4 DEF Leaves
  <2>3. ASSUME u = curtask, x = "TS_FREE", q = NULL,
               pc'[curtask] = "gone", cs[curtask] = {}, ~ IsIrqTask(curtask)
        PROVE  /\ st[u] = "TS_FREE" /\ L.owner[u] = NULL
               /\ pc'[u] \in {"none", "gone"} /\ cs'[u] = {} /\ ~ IsIrqTask(u)
    BY <2>3, <1>2, <1>4 DEF Leaves
  <2>4. \/ \E j \in 1..Len(freel) : u = freel[j]
        \/ /\ u = curtask /\ x = "TS_FREE" /\ q = NULL
           /\ pc'[curtask] = "gone" /\ cs[curtask] = {}
           /\ ~ IsIrqTask(curtask)
    BY <2>1 DEF Leaves
  <2> QED
    BY <2>1, <2>2, <2>3, <2>4
<1>12. ASSUME NEW i \in Irq, irqtask[i] # NULL PROVE IrqTaskAt(L, st, i)'
  <2>1. PICK u : u = irqtask[i]
    OBVIOUS
  <2>2. /\ u \in Task /\ IsIrqTask(u) /\ pri[u] = i /\ ~ process[u]
        /\ \/ /\ state[u] = "TS_BLOCKED" /\ pc[u] = "none"
              /\ links.owner[u] = NULL
           \/ /\ Serving(i) /\ pc[u] \in {"run"} \cup Sema
              /\ links.owner[u] \in {i} \cup Sema
              /\ pc[u] = "run" => /\ links.owner[u] = i
                                  /\ pri[curtask] <= i
    BY <1>12, <2>1, IrqTaskNow
  <2>3. i # NULL /\ i \in Pri /\ \A s \in Sema : s # NULL
    BY Kinds, Interrupts
  <2>4. \/ st[u] = "TS_BLOCKED" /\ pc'[u] = "none" /\ L.owner[u] = NULL
        \/ /\ Serving(i)' /\ pc'[u] \in {"run"} \cup Sema
           /\ L.owner[u] \in {i} \cup Sema
           /\ pc'[u] = "run" => L.owner[u] = i
    <3>1. CASE u # curtask
      <4>1. st[u] = state[u] /\ L.owner[u] = links.owner[u] /\ pc'[u] = pc[u]
        BY <3>1, <2>2, <1>2, <1>4 DEF Leaves
      <4>2. Serving(i) /\ links.owner[u] # NULL => Serving(i)'
        BY <1>12, <2>1, <3>1 DEF Leaves
      <4> QED
        BY <2>2, <2>3, <4>1, <4>2
    <3>2. CASE u = curtask
      <4>1. Serving(i)
        BY <3>2, <2>2, <1>1, <2>3
      <4>2. /\ x = "TS_BLOCKED"
            /\ \/ q = NULL /\ pc'[u] = "none"
               \/ /\ q \in Sema /\ ServingKept
                  /\ pc'[u] \in Sema
        BY <3>2, <2>2 DEF Leaves
      <4> QED
        BY <3>2, <4>1, <4>2, <1>2, <1>4, Interrupts DEF ServingKept
    <3> QED
      BY <3>1, <3>2
  <2>5. irqtask' = irqtask /\ pri' = pri /\ process' = process
    BY DEF Leaves
  <2> QED
    BY <2>1, <2>2, <2>4, <2>5 DEF IrqTaskAt
<1>13. Switches(L, st)
  BY <1>2, <1>3, <1>6, <1>7, <1>8, <1>9, <1>10, <1>11, <1>12 DEF Leaves, Switches
<1> QED
  BY <1>13, SwitchKeeps

\* The in-service bits are interrupt numbers.
LEMMA IsrTyped == ASSUME Inv PROVE isr \subseteq 0..15
  BY Start DEF RestTyped

\* task_block: the running task leaves for a wait queue.
LEMMA task_block_Keeps ==
    ASSUME Inv, NEW q \in WaitQ, task_block(q)
    PROVE  Inv'
<1>1. curtask \in Task /\ RestTyped
  BY Start
<1>2. q \in Queue /\ q \notin Pri
  BY Kinds
<1>3. PICK L : L = taskq_push(task_dequeue(links, curtask), q, curtask)
  OBVIOUS
<1>4. /\ L \in Links /\ WellFormed(L)
      /\ L.owner = [links.owner EXCEPT ![curtask] = q]
  BY <1>1, <1>2, <1>3, Moved
<1>5. /\ SwitchTo(L, [state EXCEPT ![curtask] = "TS_BLOCKED"])
      /\ curtask # Idle /\ ~ IsIrqTask(curtask) /\ pc[curtask] = "run"
      /\ tickcnt' = tickcnt /\ cpu' = cpu /\ pc' = pc /\ count' = count
      /\ last_owner' = last_owner /\ cs' = cs /\ pri' = pri /\ due' = due
      /\ process' = process /\ freel' = freel /\ irqtask' = irqtask
      /\ isr' = isr /\ astray' = astray /\ ServingKept
  BY <1>3 DEF task_block, Ordinary, Running, semvars, taskvars, irqvars, ServingKept, Serving
<1>6. RestTyped'
  BY <1>1, <1>5 DEF RestTyped
<1>7. \A i, j \in 1..Len(freel) : freel[i] = freel[j] => i = j
  BY DEF Inv, FreeList
<1>8. Leaves(L, q, "TS_BLOCKED")
  BY <1>2, <1>4, <1>5, <1>6, <1>7 DEF Leaves, ServingKept
<1> QED
  BY <1>8, LeavesKeeps

\* sema_down: the running task leaves for the semaphore.
LEMMA sema_down_waits_Keeps ==
    ASSUME Inv, NEW s \in Sema, sema_down_waits(s)
    PROVE  Inv'
<1>1. curtask \in Task /\ RestTyped
  BY Start
<1>2. s \in Queue /\ s \notin Pri
  BY Kinds
<1>3. PICK L : L = taskq_push(task_dequeue(links, curtask), s, curtask)
  OBVIOUS
<1>4. /\ L \in Links /\ WellFormed(L)
      /\ L.owner = [links.owner EXCEPT ![curtask] = s]
  BY <1>1, <1>2, <1>3, Moved
<1>5. /\ SwitchTo(L, [state EXCEPT ![curtask] = "TS_BLOCKED"])
      /\ curtask # Idle /\ (IsIrqTask(curtask) => s \in IrqSema)
  BY <1>3 DEF sema_down_waits, MayTake
<1>6. /\ tickcnt' = tickcnt /\ cpu' = cpu /\ pc' = [pc EXCEPT ![curtask] = s]
      /\ count' = [count EXCEPT ![s] = @ - 1]
      /\ last_owner' = last_owner /\ cs' = cs /\ pri' = pri /\ due' = due
      /\ process' = process /\ freel' = freel /\ irqtask' = irqtask
      /\ isr' = isr /\ astray' = astray /\ ServingKept
  BY DEF sema_down_waits, taskvars, irqvars, ServingKept, Serving
<1>7. /\ pc' \in [Task -> Place] /\ pc'[curtask] = s
      /\ \A t \in Task : t # curtask => pc'[t] = pc[t]
  BY <1>1, <1>6 DEF RestTyped, Place
<1>8. count' \in [Sema -> Int]
  <2>1. count \in [Sema -> Int]
    BY <1>1 DEF RestTyped
  <2> QED
    BY <1>6, <2>1
<1>9. RestTyped'
  BY <1>1, <1>6, <1>7, <1>8 DEF RestTyped
<1>10. \A i, j \in 1..Len(freel) : freel[i] = freel[j] => i = j
  BY DEF Inv, FreeList
<1>11. s # "exiting" /\ (IsIrqTask(curtask) => IrqSema # {})
  BY <1>5, Interrupts
<1>12. curtask # Idle
  BY DEF sema_down_waits, MayTake
<1>13. Leaves(L, s, "TS_BLOCKED")
  BY <1>2, <1>4, <1>5, <1>6, <1>7, <1>9, <1>10, <1>11, <1>12 DEF Leaves, ServingKept
<1> QED
  BY <1>13, LeavesKeeps

\* task_sleep: the running task leaves for the sleepers.
LEMMA task_sleep_Keeps ==
    ASSUME Inv, NEW n \in SleepTicks, task_sleep(n)
    PROVE  Inv'
<1>1. curtask \in Task /\ RestTyped /\ links \in Links /\ WellFormed(links)
  BY Start
<1>2. Sleeping \in Queue /\ Sleeping \notin Pri
  BY Kinds
<1>3. PICK d : d = (tickcnt + (IF n = 0 THEN 1 ELSE n)) % TickMod
  OBVIOUS
<1>4. d \in Nat
  <2>1. tickcnt \in Nat /\ n \in Nat
    BY <1>1, Ticks DEF RestTyped
  <2>2. tickcnt + (IF n = 0 THEN 1 ELSE n) \in Nat
    BY <2>1
  <2> QED
    BY <1>3, <2>2, Ticks
<1>5. PICK D : D = task_dequeue(links, curtask)
  OBVIOUS
<1>6. /\ D \in Links /\ WellFormed(D)
      /\ D.owner = [links.owner EXCEPT ![curtask] = NULL]
  BY <1>1, <1>5, DequeueWellFormed
<1>7. D.owner[curtask] = NULL
  BY <1>1, <1>6 DEF Links
<1>8. PICK L : L = SleepInsert(D, curtask, d)
  OBVIOUS
<1>9. /\ L \in Links /\ WellFormed(L)
      /\ L.owner = [D.owner EXCEPT ![curtask] = Sleeping]
  <2>1. D \in Links
    BY <1>6
  <2>2. WellFormed(D)
    BY <1>6
  <2>3. PICK t \in Task : t = curtask
    BY <1>1
  <2>4. D.owner[t] = NULL /\ L = SleepInsert(D, t, d)
    BY <1>7, <1>8, <2>3
  <2>5. /\ L \in Links /\ WellFormed(L)
        /\ L.owner = [D.owner EXCEPT ![t] = Sleeping]
    BY <2>1, <2>2, <2>4, SleepWellFormed
  <2> QED
    BY <2>3, <2>5
<1>10. L.owner = [links.owner EXCEPT ![curtask] = Sleeping]
  BY <1>1, <1>6, <1>9 DEF Links
<1>11. /\ SwitchTo(L, [state EXCEPT ![curtask] = "TS_BLOCKED"])
       /\ due' = [due EXCEPT ![curtask] = d]
       /\ curtask # Idle /\ ~ IsIrqTask(curtask) /\ pc[curtask] = "run"
       /\ tickcnt' = tickcnt /\ cpu' = cpu /\ pc' = pc /\ count' = count
       /\ last_owner' = last_owner /\ cs' = cs /\ pri' = pri
       /\ process' = process /\ freel' = freel /\ irqtask' = irqtask
       /\ isr' = isr /\ astray' = astray /\ ServingKept
  BY <1>3, <1>5, <1>8 DEF task_sleep, Ordinary, Running, semvars, irqvars, ServingKept, Serving
<1>12. due' \in [Task -> Nat]
  BY <1>1, <1>4, <1>11 DEF RestTyped
<1>13. RestTyped'
  BY <1>1, <1>11, <1>12 DEF RestTyped
<1>14. \A i, j \in 1..Len(freel) : freel[i] = freel[j] => i = j
  BY DEF Inv, FreeList
<1>15. Leaves(L, Sleeping, "TS_BLOCKED")
  BY <1>2, <1>9, <1>10, <1>11, <1>13, <1>14 DEF Leaves, ServingKept
<1> QED
  BY <1>15, LeavesKeeps

\* A sequence with one more element in front.
LEMMA Consed ==
    ASSUME NEW S, NEW s \in Seq(S), NEW e \in S
    PROVE  /\ <<e>> \o s \in Seq(S) /\ Len(<<e>> \o s) = Len(s) + 1
           /\ (<<e>> \o s)[1] = e
           /\ \A i \in 1..Len(<<e>> \o s) : i # 1 =>
                  i - 1 \in 1..Len(s) /\ (<<e>> \o s)[i] = s[i-1]
  OBVIOUS

\* task_exit after _exit: the running task leaves for the free list.
LEMMA exit_return_Keeps ==
    ASSUME Inv, exit_return
    PROVE  Inv'
<1>1. curtask \in Task /\ RestTyped /\ links \in Links /\ WellFormed(links)
  BY Start
<1>2. PICK L : L = task_dequeue(links, curtask)
  OBVIOUS
<1>3. /\ L \in Links /\ WellFormed(L)
      /\ L.owner = [links.owner EXCEPT ![curtask] = NULL]
  BY <1>1, <1>2, DequeueWellFormed
<1>4. PICK x : x = IF state[curtask] = "TS_FREEING" THEN "TS_FREE" ELSE "TS_BLOCKED"
  OBVIOUS
<1>5. /\ SwitchTo(L, [state EXCEPT ![curtask] = x])
      /\ freel' = IF state[curtask] = "TS_FREEING" THEN <<curtask>> \o freel ELSE freel
      /\ pc[curtask] = "exiting" /\ pc' = [pc EXCEPT ![curtask] = "gone"]
      /\ tickcnt' = tickcnt /\ cpu' = cpu /\ count' = count
      /\ last_owner' = last_owner /\ cs' = cs /\ pri' = pri /\ due' = due
      /\ process' = process /\ irqtask' = irqtask /\ isr' = isr /\ astray' = astray /\ ServingKept
  BY <1>2, <1>4 DEF exit_return, task_exit, semvars, irqvars, ServingKept, Serving
<1>6. /\ pc' \in [Task -> Place] /\ pc'[curtask] = "gone"
      /\ \A t \in Task : t # curtask => pc'[t] = pc[t]
  BY <1>1, <1>5 DEF RestTyped, Place
<1>7. cs[curtask] = {} /\ curtask # Idle
  BY <1>1, <1>5 DEF Inv, RunStates, IdleStays
<1>8. ~ IsIrqTask(curtask)
  <2>1. ASSUME NEW i \in Irq, irqtask[i] = curtask PROVE FALSE
    <3>1. curtask # NULL
      BY <1>1, Kinds
    <3>2. pc[curtask] = "none" \/ pc[curtask] \in {"run"} \cup Sema
      BY <2>1, <3>1, IrqTaskNow
    <3> QED
      BY <3>2, <1>5, Interrupts
  <2> QED
    BY <2>1 DEF IsIrqTask
<1>9. freel \in Seq(Task) /\ \A i, j \in 1..Len(freel) : freel[i] = freel[j] => i = j
  BY <1>1 DEF Inv, FreeList, RestTyped
<1>10. \A i \in 1..Len(freel) : freel[i] # curtask
  BY FreeTasks
<1>11. NULL \notin Pri
  BY Kinds
<1>12. CASE state[curtask] = "TS_FREEING"
  <2>1. freel' = <<curtask>> \o freel /\ x = "TS_FREE"
    BY <1>4, <1>5, <1>12
  <2>2. /\ freel' \in Seq(Task) /\ Len(freel') = Len(freel) + 1
        /\ freel'[1] = curtask
        /\ \A i \in 1..Len(freel') : i # 1 =>
               i - 1 \in 1..Len(freel) /\ freel'[i] = freel[i-1]
    BY <1>1, <1>9, <2>1, Consed
  <2>3. ASSUME NEW i \in 1..Len(freel'), NEW j \in 1..Len(freel'), freel'[i] = freel'[j]
        PROVE  i = j
    <3>1. CASE i = 1 \/ j = 1
      BY <2>2, <2>3, <3>1, <1>10
    <3>2. CASE i # 1 /\ j # 1
      <4>1. i - 1 = j - 1
        BY <2>2, <2>3, <3>2, <1>9
      <4>2. i \in Int /\ j \in Int
        OBVIOUS
      <4> QED
        BY <4>1, <4>2
    <3> QED
      BY <3>1, <3>2
  <2>4. \A i \in 1..Len(freel') : \/ \E j \in 1..Len(freel) : freel'[i] = freel[j]
                                  \/ freel'[i] = curtask
    BY <2>2
  <2>5. RestTyped'
    BY <1>1, <1>5, <1>6, <2>2 DEF RestTyped
  <2>6. Leaves(L, NULL, x)
    BY <1>3, <1>5, <1>6, <1>7, <1>8, <1>11, <2>1, <2>3, <2>4, <2>5 DEF Leaves, ServingKept
  <2> QED
    BY <2>6, LeavesKeeps
<1>13. CASE state[curtask] # "TS_FREEING"
  <2>1. freel' = freel /\ x = "TS_BLOCKED"
    BY <1>4, <1>5, <1>13
  <2>2. RestTyped'
    BY <1>1, <1>5, <1>6, <2>1 DEF RestTyped
  <2>3. Leaves(L, NULL, x)
    BY <1>3, <1>5, <1>6, <1>7, <1>8, <1>9, <1>11, <2>1, <2>2 DEF Leaves, ServingKept
  <2> QED
    BY <2>3, LeavesKeeps
<1> QED
  BY <1>12, <1>13

\* What the nonspecific EOI leaves: not the lowest bit in service, so every
\* bit above one that is in service.
LEMMA EoiKeeps ==
    ASSUME NEW S, S \subseteq 0..15, NEW i \in S, NEW j \in S, i < j
    PROVE  j \in PicEoi(S)
<1>1. S \subseteq Nat /\ S # {}
  OBVIOUS
<1>2. \E m \in S : \A r \in S : m <= r
  BY <1>1, LeastElement
<1>3. Lowest(S) \in S /\ \A r \in S : Lowest(S) <= r
  BY <1>2 DEF Lowest
<1>4. PICK m \in S : m = Lowest(S) /\ m <= i
  BY <1>3
<1>5. m # j
  BY <1>1, <1>4
<1> QED
  BY <1>1, <1>4, <1>5 DEF PicEoi

\* task_exit of an interrupt task, after its EOI.
LEMMA intr_handler_ends_Keeps ==
    ASSUME Inv, NEW i \in Irq, intr_handler_ends(i)
    PROVE  Inv'
<1>1. /\ curtask \in Task /\ RestTyped /\ links \in Links /\ WellFormed(links)
      /\ links.owner[curtask] = pri[curtask] /\ pri[curtask] \in Pri
  BY Start
<1>2. /\ irqtask[i] = curtask /\ pc[curtask] = "run" /\ curtask # NULL
      /\ cs[curtask] = {}
  BY <1>1, Kinds DEF intr_handler_ends, Running
<1>3. NULL \notin Pri
  BY Kinds
<1>4. /\ IsIrqTask(curtask) /\ pri[curtask] = i /\ Serving(i)
  <2>1. /\ IsIrqTask(curtask) /\ pri[curtask] = i
        /\ links.owner[curtask] = NULL \/ Serving(i)
    BY <1>2, IrqTaskNow
  <2> QED
    BY <2>1, <1>1, <1>3
<1>5. curtask # Idle /\ state[curtask] # "TS_FREEING"
  BY <1>1, <1>2, <1>4 DEF Inv, IdleStays, RunStates
<1>6. PICK L : L = task_dequeue(links, curtask)
  OBVIOUS
<1>7. /\ L \in Links /\ WellFormed(L)
      /\ L.owner = [links.owner EXCEPT ![curtask] = NULL]
  BY <1>1, <1>6, DequeueWellFormed
<1>8. /\ SwitchTo(L, [state EXCEPT ![curtask] = "TS_BLOCKED"])
      /\ freel' = freel /\ pc' = [pc EXCEPT ![curtask] = "none"]
      /\ tickcnt' = tickcnt /\ cpu' = cpu /\ count' = count
      /\ last_owner' = last_owner /\ cs' = cs /\ pri' = pri /\ due' = due
      /\ process' = process /\ irqtask' = irqtask
      /\ isr' = PicEoi(Master(isr)) \cup
                (IF i >= 8 THEN PicEoi(Slave(isr)) ELSE Slave(isr))
      /\ astray' = IF EndsOther(i) THEN astray \cup {"eoi"} ELSE astray
  BY <1>2, <1>5, <1>6 DEF intr_handler_ends, task_exit, intr_eoi, semvars
<1>9. /\ pc' \in [Task -> Place] /\ pc'[curtask] = "none"
      /\ \A t \in Task : t # curtask => pc'[t] = pc[t]
  BY <1>1, <1>8 DEF RestTyped, Place
<1>10. isr \subseteq 0..15
  BY IsrTyped
<1>11. isr' \subseteq 0..15
  BY <1>8, <1>10 DEF PicEoi, Master, Slave
<1>12. RestTyped'
  <2>1. astray' \subseteq Stray
    BY <1>1, <1>8 DEF RestTyped, Stray
  <2> QED
    BY <2>1, <1>1, <1>8, <1>9, <1>11 DEF RestTyped
<1>13. ASSUME NEW j \in Irq, irqtask[j] # NULL, irqtask[j] # curtask,
              Serving(j), links.owner[irqtask[j]] # NULL
       PROVE  Serving(j)'
  <2> SUFFICES ASSUME "eoi" \notin astray' PROVE j \in isr'
    BY DEF Serving
  <2>0. "eoi" \notin astray /\ ~ EndsOther(i)
    BY <1>8
  <2>1. j # i
    BY <1>2, <1>13
  <2>2. SUFFICES ASSUME j \notin isr' PROVE FALSE
    OBVIOUS
  <2>3. i \in isr /\ j \in isr
    BY <1>4, <1>13, <2>0 DEF Serving
  <2>4. pc[irqtask[j]] \notin Sema
    BY <1>13, <2>0, <2>1, <2>2, <2>3 DEF EndsOther
  <2>41. pri[curtask] <= j
    BY <1>13, <2>4, IrqTaskNow
  <2>42. i < j /\ i \in 0..15 /\ j \in 0..15
    BY <1>4, <2>1, <2>41, Interrupts
  <2>5. CASE j < 8
    <3>1. Master(isr) \subseteq 0..15 /\ i \in Master(isr) /\ j \in Master(isr)
      BY <2>3, <2>42, <2>5 DEF Master
    <3>2. j \in PicEoi(Master(isr))
      BY <3>1, <2>42, EoiKeeps
    <3> QED
      BY <3>2, <2>2, <1>8
  <2>6. CASE j >= 8 /\ i < 8
    BY <1>8, <2>2, <2>3, <2>42, <2>6 DEF Slave
  <2>7. CASE i >= 8
    <3>1. Slave(isr) \subseteq 0..15 /\ i \in Slave(isr) /\ j \in Slave(isr)
      BY <2>3, <2>42, <2>7 DEF Slave
    <3>2. j \in PicEoi(Slave(isr))
      BY <3>1, <2>42, EoiKeeps
    <3> QED
      BY <3>2, <2>2, <2>7, <1>8
  <2> QED
    BY <2>42, <2>5, <2>6, <2>7
<1>14. \A a, b \in 1..Len(freel) : freel[a] = freel[b] => a = b
  BY DEF Inv, FreeList
<1>15. Leaves(L, NULL, "TS_BLOCKED")
  BY <1>3, <1>5, <1>7, <1>8, <1>9, <1>12, <1>13, <1>14 DEF Leaves
<1> QED
  BY <1>15, LeavesKeeps
-----------------------------------------------------------------------------
(* The actions in which the running task stays ready                       *)

\* iswitch from the queues L0 and states st0, which are those of the state
\* before or have one more ready task.
Yields(L0, st0) ==
    /\ L0 \in Links /\ WellFormed(L0) /\ st0 \in [Task -> State]
    /\ iswitch(L0, st0)
    /\ L0.head[pri[curtask]] = curtask
    /\ L0.owner[Idle] = PRI_IDLE
    /\ \A t \in Task : L0.owner[t] \in Pri =>
           L0.owner[t] = pri[t] /\ (t = curtask \/ st0[t] = "TS_READY")
    /\ \A t \in Task : t = curtask \/ st0[t] = "TS_READY" => L0.owner[t] = pri[t]
    /\ \A t \in Task : st0[t] \in {"TS_RUN", "TS_FREEING"} => t = curtask
    /\ pri' = pri /\ process' = process /\ irqtask' = irqtask
    /\ RestTyped' /\ pc'[Idle] = "run" /\ cs'[Idle] = {}
    /\ \A t \in Task : pc'[t] = "exiting" => cs'[t] = {}
    /\ FreeListAt(L0, st0)'
    /\ \A i \in Irq : irqtask[i] # NULL => IrqTaskAt(L0, st0, i)'

\* The running task stays ready and another one may run.
LEMMA YieldsKeeps ==
    ASSUME Inv, NEW L0, NEW st0, Yields(L0, st0)
    PROVE  Inv'
<1>1. curtask \in Task /\ pri[curtask] \in Pri /\ irqtask \in [Irq -> Task \cup {NULL}]
  BY Start DEF RestTyped
<1>2. pri[curtask] \in Queue /\ curtask # NULL /\ NULL \notin Pri
  BY <1>1, Kinds
<1>3. PICK u : u = L0.next[curtask]
  OBVIOUS
<1>4. PICK p \in Queue : p = pri[curtask]
  BY <1>2
<1>5. PICK L : L = SetHead(L0, p, u)
  OBVIOUS
<1>6. L0 \in Links /\ WellFormed(L0)
  BY DEF Yields
<1>7. L0.head[p] # NULL /\ u \in {L0.next[L0.head[p]], L0.prev[L0.head[p]]}
  BY <1>2, <1>3, <1>4 DEF Yields
<1>8. L \in Links /\ WellFormed(L) /\ L.owner = L0.owner
  BY <1>5, <1>6, <1>7, RotateWellFormed
<1>9. PICK st : st = [st0 EXCEPT ![curtask] = "TS_READY"]
  OBVIOUS
<1>10. /\ st \in [Task -> State] /\ st[curtask] = "TS_READY"
       /\ \A t \in Task : t # curtask => st[t] = st0[t]
  BY <1>1, <1>9 DEF Yields, State
<1>11. SwitchTo(L, st)
  BY <1>3, <1>4, <1>5, <1>9 DEF Yields, iswitch
<1>12. /\ \A t \in Task : L.owner[t] \in Pri => L.owner[t] = pri[t] /\ st[t] = "TS_READY"
       /\ \A t \in Task : st[t] = "TS_READY" => L.owner[t] = pri[t]
       /\ \A t \in Task : st[t] \notin {"TS_RUN", "TS_FREEING"}
       /\ L.owner[Idle] = PRI_IDLE
  BY <1>8, <1>10 DEF Yields
<1>13. L0.owner[curtask] # NULL
  BY <1>1, <1>2 DEF Yields
<1>14. FreeListAt(L, st)'
  <2>1. freel' \in Seq(Task)
    BY DEF Yields, RestTyped
  <2>2. \A i \in 1..Len(freel') : freel'[i] \in Task
    BY <2>1, InSeq
  <2>3. \A i \in 1..Len(freel') : freel'[i] # curtask
    BY <1>13 DEF Yields, FreeListAt
  <2>4. \A i \in 1..Len(freel') : st[freel'[i]] = st0[freel'[i]]
    BY <1>10, <2>2, <2>3
  <2> QED
    BY <1>8, <2>4 DEF Yields, FreeListAt
<1>15. ASSUME NEW i \in Irq, irqtask[i] # NULL PROVE IrqTaskAt(L, st, i)'
  <2>1. PICK t : t = irqtask[i]
    OBVIOUS
  <2>2. t \in Task
    BY <1>1, <1>15, <2>1
  <2>3. IrqTaskAt(L0, st0, i)'
    BY <1>15 DEF Yields
  <2>4. L0.owner[t] = NULL => st[t] = st0[t]
    BY <1>10, <1>13, <2>2
  <2>5. irqtask' = irqtask
    BY DEF Yields
  <2> QED
    BY <1>8, <2>1, <2>3, <2>4, <2>5 DEF IrqTaskAt
<1>16. Switches(L, st)
  BY <1>8, <1>10, <1>11, <1>12, <1>14, <1>15 DEF Yields, Switches
<1> QED
  BY <1>16, SwitchKeeps

\* The timer switches: the bucket of curtask is rotated.
LEMMA timer_switch_Keeps ==
    ASSUME Inv, timer_switch
    PROVE  Inv'
<1>1. PICK L0 : L0 = links
  OBVIOUS
<1>2. PICK st0 : st0 = state
  OBVIOUS
<1>3. /\ L0 \in Links /\ WellFormed(L0) /\ st0 \in [Task -> State] /\ RestTyped
  BY <1>1, <1>2, Start
<1>4. /\ iswitch(L0, st0) /\ cpu' = "task"
      /\ tickcnt' = tickcnt /\ pc' = pc /\ count' = count
      /\ last_owner' = last_owner /\ cs' = cs /\ pri' = pri /\ due' = due
      /\ process' = process /\ freel' = freel /\ irqtask' = irqtask
      /\ isr' = isr /\ astray' = astray /\ ServingKept
  BY <1>1, <1>2 DEF timer_switch, semvars, taskvars, irqvars, ServingKept, Serving
<1>5. RestTyped'
  BY <1>3, <1>4 DEF RestTyped
<1>6. /\ L0.head[pri[curtask]] = curtask
      /\ L0.owner[Idle] = PRI_IDLE /\ pc'[Idle] = "run" /\ cs'[Idle] = {}
      /\ \A t \in Task : L0.owner[t] \in Pri =>
             L0.owner[t] = pri[t] /\ (t = curtask \/ st0[t] = "TS_READY")
      /\ \A t \in Task : t = curtask \/ st0[t] = "TS_READY" => L0.owner[t] = pri[t]
      /\ \A t \in Task : st0[t] \in {"TS_RUN", "TS_FREEING"} => t = curtask
      /\ \A t \in Task : pc'[t] = "exiting" => cs'[t] = {}
  BY <1>1, <1>2, <1>4 DEF Inv, CurtaskHeadsBucket, IdleStays, RunQueueExact, RunStates
<1>7. FreeListAt(L0, st0)'
  BY <1>1, <1>2, <1>4 DEF Inv, FreeList, FreeListAt, IsIrqTask
<1>8. \A i \in Irq : irqtask[i] # NULL => IrqTaskAt(L0, st0, i)'
  BY <1>1, <1>2, <1>4 DEF Inv, IrqTasks, IrqTaskAt, ServingKept
<1>9. Yields(L0, st0)
  BY <1>3, <1>4, <1>5, <1>6, <1>7, <1>8 DEF Yields
<1> QED
  BY <1>9, YieldsKeeps

\* The controllers hold back an interrupt that is in service.
LEMMA Raised ==
    ASSUME Inv, NEW i \in Irq, PicRaises(i)
    PROVE  i \notin isr
<1>1. i \in 0..15
  BY Interrupts
<1>2. CASE i < 8
  BY <1>1, <1>2 DEF PicRaises, Master, Line
<1>3. CASE i >= 8
  BY <1>1, <1>3 DEF PicRaises, Slave
<1> QED
  BY <1>1, <1>2, <1>3

\* An interrupt starts its task and switches.
LEMMA intr_Keeps ==
    ASSUME Inv, NEW i \in Irq, intr(i)
    PROVE  Inv'
<1>1. PICK t : t = irqtask[i]
  OBVIOUS
<1>2. t # NULL /\ ~ Serving(i)
  BY <1>1, Raised DEF intr, Serving
<1>3. /\ t \in Task /\ IsIrqTask(t) /\ pri[t] = i /\ ~ process[t]
      /\ state[t] = "TS_BLOCKED" /\ pc[t] = "none" /\ links.owner[t] = NULL
  BY <1>1, <1>2, IrqTaskNow
<1>4. /\ links \in Links /\ WellFormed(links) /\ state \in [Task -> State]
      /\ RestTyped /\ curtask \in Task /\ pri \in [Task -> Pri]
      /\ links.owner[curtask] = pri[curtask]
  BY Start
<1>5. i \in Queue /\ i \in Pri /\ i # NULL /\ i \in 0..15 /\ NULL \notin Pri
      /\ NULL \notin Task
  BY Kinds, Interrupts
<1>6. t # curtask /\ t # Idle
  BY <1>3, <1>4, <1>5 DEF Inv, IdleStays
<1>7. PICK L0 : L0 = taskq_push(links, i, t)
  OBVIOUS
<1>8. /\ L0 \in Links /\ WellFormed(L0)
      /\ L0.owner = [links.owner EXCEPT ![t] = i]
      /\ \A r \in Queue : L0.head[r] =
             IF r = i /\ links.head[r] = NULL THEN t ELSE links.head[r]
  <2>1. links \in Links
    BY <1>4
  <2>2. WellFormed(links)
    BY <1>4
  <2> QED
    BY <1>3, <1>5, <1>7, <2>1, <2>2, PushWellFormed
<1>9. L0.owner[t] = i /\ \A u \in Task : u # t => L0.owner[u] = links.owner[u]
  BY <1>3, <1>4, <1>8 DEF Links
<1>10. PICK st0 : st0 = [state EXCEPT ![t] = "TS_READY"]
  OBVIOUS
<1>11. /\ st0 \in [Task -> State] /\ st0[t] = "TS_READY"
       /\ \A u \in Task : u # t => st0[u] = state[u]
  BY <1>3, <1>4, <1>10 DEF State
<1>12. /\ iswitch(L0, st0) /\ pc' = [pc EXCEPT ![t] = "run"]
       /\ isr' = isr \cup {i, Line(i)} /\ astray' = astray
       /\ tickcnt' = tickcnt /\ cpu' = cpu /\ count' = count
       /\ last_owner' = last_owner /\ cs' = cs /\ pri' = pri /\ due' = due
       /\ process' = process /\ freel' = freel /\ irqtask' = irqtask
  BY <1>1, <1>3, <1>7, <1>10 DEF intr, semvars, taskvars
<1>13. /\ pc' \in [Task -> Place] /\ pc'[t] = "run"
       /\ \A u \in Task : u # t => pc'[u] = pc[u]
  BY <1>3, <1>4, <1>12 DEF RestTyped, Place
<1>14. isr' \subseteq 0..15
  BY <1>5, <1>12, IsrTyped DEF Line
<1>15. RestTyped'
  BY <1>4, <1>12, <1>13, <1>14 DEF RestTyped
<1>16. L0.head[pri[curtask]] = curtask
  <2>1. links.head[pri[curtask]] = curtask /\ pri[curtask] \in Queue
    BY <1>4, Kinds DEF Inv, CurtaskHeadsBucket
  <2> QED
    BY <2>1, <1>4, <1>5, <1>8
<1>17. /\ L0.owner[Idle] = PRI_IDLE /\ pc'[Idle] = "run" /\ cs'[Idle] = {}
  BY <1>6, <1>9, <1>12, <1>13, Interrupts DEF Inv, IdleStays
<1>18. /\ \A u \in Task : L0.owner[u] \in Pri =>
              L0.owner[u] = pri[u] /\ (u = curtask \/ st0[u] = "TS_READY")
       /\ \A u \in Task : u = curtask \/ st0[u] = "TS_READY" => L0.owner[u] = pri[u]
  BY <1>3, <1>6, <1>9, <1>11 DEF Inv, RunQueueExact
<1>19. \A u \in Task : st0[u] \in {"TS_RUN", "TS_FREEING"} => u = curtask
  BY <1>11 DEF Inv, RunStates
<1>20. \A u \in Task : pc'[u] = "exiting" => cs'[u] = {}
  BY <1>12, <1>13 DEF Inv, RunStates
<1>21. FreeListAt(L0, st0)'
  <2>1. \A j \in 1..Len(freel) :
            /\ freel[j] \in Task
            /\ state[freel[j]] = "TS_FREE" /\ links.owner[freel[j]] = NULL
            /\ pc[freel[j]] \in {"none", "gone"} /\ cs[freel[j]] = {}
            /\ ~ IsIrqTask(freel[j])
    BY FreeTasks
  <2>2. \A j \in 1..Len(freel) : freel[j] # t
    BY <1>3, <2>1
  <2>3. \A j, k \in 1..Len(freel) : freel[j] = freel[k] => j = k
    BY DEF Inv, FreeList
  <2>4. \A j \in 1..Len(freel) :
            /\ st0[freel[j]] = "TS_FREE" /\ L0.owner[freel[j]] = NULL
            /\ pc'[freel[j]] \in {"none", "gone"}
    BY <1>9, <1>11, <1>13, <2>1, <2>2
  <2> QED
    BY <1>12, <2>1, <2>3, <2>4 DEF FreeListAt, IsIrqTask
<1>22. ASSUME NEW j \in Irq, irqtask[j] # NULL PROVE IrqTaskAt(L0, st0, j)'
  <2>1. PICK u : u = irqtask[j]
    OBVIOUS
  <2>2. /\ u \in Task /\ pri[u] = j /\ ~ process[u]
        /\ \/ /\ state[u] = "TS_BLOCKED" /\ pc[u] = "none"
              /\ links.owner[u] = NULL
           \/ /\ Serving(j) /\ pc[u] \in {"run"} \cup Sema
              /\ links.owner[u] \in {j} \cup Sema
              /\ pc[u] = "run" => links.owner[u] = j
    BY <1>22, <2>1, IrqTaskNow
  <2>3. (Serving(j) => Serving(j)') /\ Serving(i)'
    BY <1>12 DEF Serving
  <2>4. \/ st0[u] = "TS_BLOCKED" /\ pc'[u] = "none" /\ L0.owner[u] = NULL
        \/ /\ Serving(j)' /\ pc'[u] \in {"run"} \cup Sema
           /\ L0.owner[u] \in {j} \cup Sema
           /\ pc'[u] = "run" => L0.owner[u] = j
    <3>1. CASE u = t
      BY <3>1, <1>3, <1>9, <1>13, <2>2, <2>3
    <3>2. CASE u # t
      BY <3>2, <1>9, <1>11, <1>13, <2>2, <2>3
    <3> QED
      BY <3>1, <3>2
  <2> QED
    BY <1>12, <2>1, <2>2, <2>4 DEF IrqTaskAt
<1>23. Yields(L0, st0)
  BY <1>8, <1>11, <1>12, <1>15, <1>16, <1>17, <1>18, <1>19, <1>20, <1>21, <1>22
     DEF Yields
<1> QED
  BY <1>23, YieldsKeeps

\* idle_task finds nobody but itself.
LEMMA idle_task_Keeps ==
    ASSUME Inv, idle_task
    PROVE  Inv'
<1>1. /\ links \in Links /\ WellFormed(links) /\ state \in [Task -> State]
      /\ RestTyped /\ pri \in [Task -> Pri]
  BY Start
<1>2. /\ curtask = Idle /\ cpu = "task" /\ SwitchTo(links, state)
      /\ tickcnt' = tickcnt /\ cpu' = cpu /\ pc' = pc /\ count' = count
      /\ last_owner' = last_owner /\ cs' = cs /\ pri' = pri /\ due' = due
      /\ process' = process /\ freel' = freel /\ irqtask' = irqtask
      /\ isr' = isr /\ astray' = astray /\ ServingKept
  BY DEF idle_task, Running, semvars, taskvars, irqvars, ServingKept, Serving
<1>3. links.owner[Idle] = PRI_IDLE /\ pri[Idle] = PRI_IDLE /\ pc[Idle] = "run"
      /\ cs[Idle] = {}
  BY DEF Inv, IdleStays
<1>4. PICK L : L = links
  OBVIOUS
<1>5. /\ curtask' \in Task /\ L.owner[curtask'] \in Pri
      /\ L.head[L.owner[curtask']] = curtask'
      /\ state' = [state EXCEPT ![curtask'] = "TS_RUN"]
      /\ panic' = panic /\ links' = L
  <2>1. L \in Links
    BY <1>1, <1>4
  <2>2. WellFormed(L)
    BY <1>1, <1>4
  <2>3. PICK st0 : st0 = state
    OBVIOUS
  <2>4. SwitchTo(L, st0) /\ L.owner[Idle] = PRI_IDLE
    BY <1>2, <1>3, <1>4, <2>3
  <2> QED
    BY <2>1, <2>2, <2>3, <2>4, Switched
<1>6. curtask' = Idle
  <2>1. \A p \in Pri \ {PRI_IDLE} : links.head[p] = NULL
    BY <1>2 DEF Inv, IdleOnlyWhenIdle
  <2>2. curtask' # NULL
    BY <1>5, Kinds
  <2>3. L.owner[curtask'] = PRI_IDLE
    BY <1>4, <1>5, <2>1, <2>2
  <2>4. links.head[PRI_IDLE] = Idle
    BY <1>2, <1>3 DEF Inv, CurtaskHeadsBucket
  <2> QED
    BY <1>4, <1>5, <2>3, <2>4
<1>7. PICK st : st = [state EXCEPT ![Idle] = "TS_READY"]
  OBVIOUS
<1>8. /\ st \in [Task -> State] /\ st[Idle] = "TS_READY"
      /\ \A t \in Task : t # Idle => st[t] = state[t]
  BY <1>1, <1>7, Interrupts DEF State
<1>9. [st EXCEPT ![Idle] = "TS_RUN"] = [state EXCEPT ![Idle] = "TS_RUN"]
  BY <1>1, <1>7
<1>10. Busy(L) /\ task_runnable(L) = Idle
  <2>1. Busy(L)
    <3>1. L.head[PRI_IDLE] = Idle
      BY <1>2, <1>3, <1>4 DEF Inv, CurtaskHeadsBucket
    <3> QED
      BY <3>1, Kinds, Interrupts DEF Busy
  <2>2. curtask' = task_runnable(L)
    BY <1>2, <1>4, <2>1 DEF SwitchTo
  <2> QED
    BY <1>6, <2>1, <2>2
<1>11. SwitchTo(L, st)
  BY <1>5, <1>6, <1>9, <1>10 DEF SwitchTo
<1>12. RestTyped'
  BY <1>1, <1>2 DEF RestTyped
<1>13. /\ \A t \in Task : L.owner[t] \in Pri => L.owner[t] = pri[t] /\ st[t] = "TS_READY"
       /\ \A t \in Task : st[t] = "TS_READY" => L.owner[t] = pri[t]
       /\ \A t \in Task : st[t] \notin {"TS_RUN", "TS_FREEING"}
       /\ \A t \in Task : pc'[t] = "exiting" => cs'[t] = {}
  BY <1>2, <1>3, <1>4, <1>8 DEF Inv, RunQueueExact, RunStates
<1>14. FreeListAt(L, st)'
  <2>1. \A i \in 1..Len(freel) :
            /\ freel[i] \in Task /\ freel[i] # Idle
            /\ state[freel[i]] = "TS_FREE" /\ links.owner[freel[i]] = NULL
            /\ pc[freel[i]] \in {"none", "gone"} /\ cs[freel[i]] = {}
            /\ ~ IsIrqTask(freel[i])
    BY <1>2, FreeTasks
  <2>2. \A i, j \in 1..Len(freel) : freel[i] = freel[j] => i = j
    BY DEF Inv, FreeList
  <2>3. \A i \in 1..Len(freel) : st[freel[i]] = "TS_FREE"
    BY <1>8, <2>1
  <2> QED
    BY <1>2, <1>4, <2>1, <2>2, <2>3 DEF FreeListAt, IsIrqTask
<1>15. ASSUME NEW i \in Irq, irqtask[i] # NULL PROVE IrqTaskAt(L, st, i)'
  <2>1. PICK u : u = irqtask[i]
    OBVIOUS
  <2>2. /\ u \in Task /\ IsIrqTask(u) /\ pri[u] = i /\ ~ process[u]
        /\ \/ /\ state[u] = "TS_BLOCKED" /\ pc[u] = "none"
              /\ links.owner[u] = NULL
           \/ /\ Serving(i) /\ pc[u] \in {"run"} \cup Sema
              /\ links.owner[u] \in {i} \cup Sema
              /\ pc[u] = "run" => links.owner[u] = i
    BY <1>15, <2>1, IrqTaskNow
  <2>3. st[u] = state[u]
    BY <1>8, <2>2 DEF Inv, IdleStays
  <2> QED
    BY <1>2, <1>4, <2>1, <2>2, <2>3 DEF IrqTaskAt, ServingKept
<1>16. Switches(L, st)
  BY <1>1, <1>2, <1>3, <1>4, <1>8, <1>11, <1>12, <1>13, <1>14, <1>15 DEF Switches
<1> QED
  BY <1>16, SwitchKeeps
-----------------------------------------------------------------------------
(* The theorems                                                            *)

\* Empty queues are well formed.
LEMMA EmptyWellFormed == EmptyLinks \in Links /\ WellFormed(EmptyLinks)
<1>1. EmptyLinks \in Links
  BY DEF EmptyLinks, Links
<1>2. ASSUME NEW q \in Queue PROVE Ring(EmptyLinks, q, <<>>)
  <2>1. EmptyLinks.head[q] = NULL /\ \A t \in Task : EmptyLinks.owner[t] = NULL
    BY DEF EmptyLinks
  <2>2. q # NULL /\ Len(<<>>) = 0
    BY NullAssumption
  <2> QED
    BY <2>1, <2>2 DEF Ring
<1>3. <<>> \in Seq(Task)
  OBVIOUS
<1> QED
  BY <1>1, <1>2, <1>3 DEF WellFormed

\* The invariant holds when task_init is done.
LEMMA InitInv == Init => Inv
<1> SUFFICES ASSUME Init PROVE Inv
  OBVIOUS
<1>1. /\ Main \in Task /\ Idle \in Task /\ Idle # Main /\ PRI_NORM \in Pri
      /\ PRI_IDLE \in Pri /\ PRI_NORM \in Queue /\ PRI_IDLE \in Queue
      /\ PRI_NORM # PRI_IDLE /\ NULL \notin Pri /\ NULL \notin Task
      /\ NULL \notin Queue
  BY Kinds, Interrupts
<1>2. PICK E : E = EmptyLinks
  OBVIOUS
<1>3. /\ E \in Links /\ WellFormed(E) /\ \A t \in Task : E.owner[t] = NULL
      /\ \A q \in Queue : E.head[q] = NULL
  BY <1>2, EmptyWellFormed DEF EmptyLinks
<1>4. PICK M : M = taskq_push(E, PRI_NORM, Main)
  OBVIOUS
<1>5. /\ M \in Links /\ WellFormed(M)
      /\ M.owner = [E.owner EXCEPT ![Main] = PRI_NORM]
      /\ \A r \in Queue : M.head[r] =
             IF r = PRI_NORM /\ E.head[r] = NULL THEN Main ELSE E.head[r]
  <2>1. E \in Links /\ E.owner[Main] = NULL
    BY <1>1, <1>3
  <2>2. WellFormed(E)
    BY <1>3
  <2> QED
    BY <1>1, <1>4, <2>1, <2>2, PushWellFormed
<1>6. M.owner[Main] = PRI_NORM /\ \A t \in Task : t # Main => M.owner[t] = NULL
  BY <1>1, <1>3, <1>5 DEF Links
<1>7. links = taskq_push(M, PRI_IDLE, Idle)
  BY <1>2, <1>4 DEF Init
<1>8. PICK N : N = links
  OBVIOUS
<1>9. /\ N \in Links /\ WellFormed(N)
      /\ N.owner = [M.owner EXCEPT ![Idle] = PRI_IDLE]
      /\ \A r \in Queue : N.head[r] =
             IF r = PRI_IDLE /\ M.head[r] = NULL THEN Idle ELSE M.head[r]
  <2>1. M \in Links /\ M.owner[Idle] = NULL
    BY <1>1, <1>5, <1>6
  <2>2. WellFormed(M)
    BY <1>5
  <2> QED
    BY <1>1, <1>7, <1>8, <2>1, <2>2, PushWellFormed
<1>10. /\ links.owner[Main] = PRI_NORM /\ links.owner[Idle] = PRI_IDLE
       /\ \A t \in Task : t # Main /\ t # Idle => links.owner[t] = NULL
       /\ links.head[PRI_NORM] = Main
  BY <1>1, <1>3, <1>5, <1>6, <1>8, <1>9 DEF Links
<1>11. links \in Links /\ WellFormed(links)
  BY <1>8, <1>9
<1>12. TableRest \in Seq(Task \ {Main, Idle})
       /\ \A i, j \in 1..Len(TableRest) : TableRest[i] = TableRest[j] => i = j
  <2>1. TableRest \in Seq(Task \ {Main, Idle})
    BY SchedAssumption
  <2>2. DOMAIN TableRest = 1..Len(TableRest)
    BY <2>1
  <2> QED
    BY <2>1, <2>2, SchedAssumption
<1>13. freel \in Seq(Task) /\ \A i \in 1..Len(freel) : freel[i] \in Task \ {Main, Idle}
  <2>1. freel = TableRest
    BY DEF Init
  <2>2. \A i \in 1..Len(freel) : freel[i] \in Task \ {Main, Idle}
    BY <1>12, <2>1, InSeq
  <2> QED
    BY <1>12, <2>1, <2>2
<1>14. TypeOK
  <2>1. /\ state \in [Task -> State] /\ pc \in [Task -> Place]
        /\ pri \in [Task -> Pri]
    BY <1>1 DEF Init, State, Place
  <2>2. due \in [Task -> Nat] /\ tickcnt \in Nat
    BY DEF Init
  <2>3. process \in [Task -> BOOLEAN] /\ cs \in [Task -> SUBSET Sema]
    BY DEF Init
  <2>4. count \in [Sema -> Int]
    <3>1. count = [s \in Sema |-> 1]
      BY DEF Init
    <3>2. [s \in Sema |-> 1] \in [Sema -> Int]
      OBVIOUS
    <3> QED
      BY <3>1, <3>2, Zenon
  <2>5. /\ last_owner \in [Sema -> Task \cup {NULL}]
        /\ irqtask \in [Irq -> Task \cup {NULL}]
    BY DEF Init
  <2>6. /\ curtask \in Task /\ isr \subseteq 0..15 /\ astray \subseteq Stray
        /\ cpu \in {"task", "timer"} /\ panic \in Message
    BY <1>1 DEF Init, Message
  <2> QED
    BY <1>11, <1>13, <2>1, <2>2, <2>3, <2>4, <2>5, <2>6 DEF TypeOK
<1>15. RunQueueExact
  BY <1>1, <1>10 DEF Init, RunQueueExact
<1>16. CurtaskHeadsBucket /\ IdleOnlyWhenIdle
  BY <1>1, <1>10 DEF Init, CurtaskHeadsBucket, IdleOnlyWhenIdle
<1>17. RunStates
  BY <1>1 DEF Init, RunStates
<1>18. \A t \in Task : ~ IsIrqTask(t)
  BY <1>1 DEF Init, IsIrqTask
<1>19. IdleStays
  BY <1>1, <1>10, <1>18 DEF Init, IdleStays
<1>20. FreeList
  <2>1. freel = TableRest
    BY DEF Init
  <2>2. \A t \in Task \ {Main, Idle} : /\ state[t] = "TS_FREE" /\ pc[t] = "none"
                                       /\ cs[t] = {} /\ links.owner[t] = NULL
    BY <1>10 DEF Init
  <2> QED
    BY <1>12, <1>13, <1>18, <2>1, <2>2 DEF FreeList
<1>21. IrqTasks
  BY DEF Init, IrqTasks
<1> QED
  BY <1>11, <1>14, <1>15, <1>16, <1>17, <1>19, <1>20, <1>21 DEF Inv, Init

\* Every step keeps the invariant.
LEMMA NextInv ==
    ASSUME Inv, [Next]_vars
    PROVE  Inv'
<1>1. CASE UNCHANGED vars
  BY <1>1, StutterKeeps
<1>2. ASSUME NEW p \in StartPri, task_start(p) PROVE Inv'
  <2>1. p \in Pri /\ FALSE \in BOOLEAN
    BY Interrupts
  <2>2. Ordinary(curtask) /\ freel # <<>> /\ Launch(Head(freel), p, FALSE)
    BY <1>2 DEF task_start
  <2> QED
    BY <2>1, <2>2, LaunchKeeps
<1>3. CASE task_from_proc
  <2>1. PRI_NORM \in Pri /\ TRUE \in BOOLEAN
    BY Kinds
  <2>2. Ordinary(curtask) /\ freel # <<>> /\ Launch(Head(freel), PRI_NORM, TRUE)
    BY <1>3 DEF task_from_proc
  <2> QED
    BY <2>1, <2>2, LaunchKeeps
<1>4. CASE task_start_fails \/ timer_handler
  BY <1>4, QuietActions
<1>5. CASE exit_mark
  BY <1>5, exit_mark_Keeps
<1>6. CASE exit_return
  BY <1>6, exit_return_Keeps
<1>7. ASSUME NEW i \in Irq, intr_add_handler(i) \/ intr(i) \/ intr_handler_ends(i)
      PROVE  Inv'
  BY <1>7, intr_add_handler_Keeps, intr_Keeps, intr_handler_ends_Keeps
<1>8. ASSUME NEW q \in WaitQ, task_block(q) \/ task_unblock(q) PROVE Inv'
  BY <1>8, task_block_Keeps, task_unblock_Keeps
<1>9. ASSUME NEW t \in EchoTask, task_unblock_named(t) PROVE Inv'
  BY <1>9, task_unblock_named_Keeps
<1>10. ASSUME NEW n \in SleepTicks, task_sleep(n) PROVE Inv'
  BY <1>10, task_sleep_Keeps
<1>11. ASSUME NEW s \in Sema, sema_down(s) \/ sema_down_resumes(s) PROVE Inv'
  BY <1>11, QuietActions
<1>12. ASSUME NEW s \in Sema, sema_down_waits(s) \/ sema_up(s) PROVE Inv'
  BY <1>12, sema_down_waits_Keeps, sema_up_Keeps
<1>13. CASE task_wake \/ timer_switch
  BY <1>13, task_wake_Keeps, timer_switch_Keeps
<1>14. CASE idle_task
  BY <1>14, idle_task_Keeps
<1>15. CASE Panicked
  BY <1>15, StutterKeeps DEF Panicked
<1> QED
  BY <1>1, <1>2, <1>3, <1>4, <1>5, <1>6, <1>7, <1>8, <1>9, <1>10, <1>11,
     <1>12, <1>13, <1>14, <1>15 DEF Next

\* The invariant says that a raised interrupt finds its task finished.
LEMMA IrqTaskFinished == Inv => IrqTaskIsFree
<1> SUFFICES ASSUME Inv, NEW i \in Irq, irqtask[i] # NULL, PicRaises(i),
                    "eoi" \notin astray
             PROVE  /\ links.owner[irqtask[i]] = NULL
                    /\ state[irqtask[i]] = "TS_BLOCKED"
                    /\ pc[irqtask[i]] = "none"
  BY DEF IrqTaskIsFree
<1>1. PICK t : t = irqtask[i]
  OBVIOUS
<1>2. ~ Serving(i)
  BY Raised DEF Serving
<1> QED
  BY <1>1, <1>2, IrqTaskNow

\* Whatever the numbers of tasks, queues and interrupts: the type invariant
\* holds and all queues are rings, in every state the scheduler reaches.
THEOREM QueuesWellFormed ==
    Spec => [](TypeOK /\ WellFormed(links))
<1>1. Init => Inv
  BY InitInv
<1>2. Inv /\ [Next]_vars => Inv'
  BY NextInv
<1>3. Inv => TypeOK /\ WellFormed(links)
  BY DEF Inv
<1> QED
  BY <1>1, <1>2, <1>3, PTL DEF Spec

\* Every queue, read off its links from its head, is one ring of exactly the
\* tasks that name it as their owner: no handler pushes a task that is still
\* linked elsewhere, or leaves a link to a task that has gone.
THEOREM QueuesStayRings ==
    Spec => []QueuesAreRings
<1>1. Init => Inv
  BY InitInv
<1>2. Inv /\ [Next]_vars => Inv'
  BY NextInv
<1>3. Inv => QueuesAreRings
  <2> SUFFICES ASSUME Inv PROVE QueuesAreRings
    OBVIOUS
  <2>1. links \in Links /\ WellFormed(links)
    BY DEF Inv, TypeOK
  <2> QED
    BY <2>1, ContentsAreRing DEF QueuesAreRings
<1> QED
  BY <1>1, <1>2, <1>3, PTL DEF Spec

\* A task is in a bucket of the run queue exactly when it can run: no switch,
\* block, wakeup, exit or interrupt loses a task or leaves a blocked one in.
THEOREM RunQueueStaysExact ==
    Spec => []RunQueueExact
<1>1. Init => Inv
  BY InitInv
<1>2. Inv /\ [Next]_vars => Inv'
  BY NextInv
<1>3. Inv => RunQueueExact
  BY DEF Inv
<1> QED
  BY <1>1, <1>2, <1>3, PTL DEF Spec

\* The running task heads its bucket, which is what lets iswitch rotate the
\* bucket by assigning its head.
THEOREM RunningTaskHeadsBucket ==
    Spec => []CurtaskHeadsBucket
<1>1. Init => Inv
  BY InitInv
<1>2. Inv /\ [Next]_vars => Inv'
  BY NextInv
<1>3. Inv => CurtaskHeadsBucket
  BY DEF Inv
<1> QED
  BY <1>1, <1>2, <1>3, PTL DEF Spec

\* Idle runs only when every other bucket is empty, although it yields with
\* interrupts on and never leaves its own bucket.
THEOREM IdleIsLast ==
    Spec => []IdleOnlyWhenIdle
<1>1. Init => Inv
  BY InitInv
<1>2. Inv /\ [Next]_vars => Inv'
  BY NextInv
<1>3. Inv => IdleOnlyWhenIdle
  BY DEF Inv
<1> QED
  BY <1>1, <1>2, <1>3, PTL DEF Spec

\* An interrupt that the controllers let through finds its task finished:
\* the EOI of a handler never clears the bit of another that has not ended,
\* until it clears that of one that waits for a semaphore (IrqTaskIsFree).
THEOREM InterruptFindsTaskFree ==
    Spec => []IrqTaskIsFree
<1>1. Init => Inv
  BY InitInv
<1>2. Inv /\ [Next]_vars => Inv'
  BY NextInv
<1>3. Inv => IrqTaskIsFree
  BY IrqTaskFinished
<1> QED
  BY <1>1, <1>2, <1>3, PTL DEF Spec

-----------------------------------------------------------------------------
(***************************************************************************)
(* What an interrupt that gets through preempts: everything.  Its task has *)
(* the number of the interrupt as its priority, and so have no other       *)
(* tasks; a task in a bucket before it would be the task of an interrupt   *)
(* in service that the controllers let through before this one.            *)
(*                                                                         *)
(* Assumed of the numbers: the interrupts come before the priorities of    *)
(* tasks, and not both an interrupt of the second controller and one of    *)
(* 3 to 7 have handlers: the controllers let the first interrupt the       *)
(* second, the priorities do not.                                          *)
(***************************************************************************)

UrgentFirst == /\ \A p \in Pri \ Irq, i \in Irq : i < p
               /\ \A i, j \in Irq : i >= 8 => j \notin 3..7

\* An interrupt's priority is that of its task only.
Ranks == \A t \in Task : pri[t] \in Irq => irqtask[pri[t]] = t

LEMMA RanksInit == Init => Ranks
<1> SUFFICES ASSUME Init, NEW t \in Task
             PROVE  pri[t] \notin Irq
  BY DEF Ranks
<1>1. pri = [u \in Task |-> IF u = Idle THEN PRI_IDLE ELSE PRI_NORM]
  BY DEF Init
<1>2. pri[t] = PRI_IDLE \/ pri[t] = PRI_NORM
  BY <1>1
<1> QED
  BY <1>2, SchedAssumption

\* A new task gets a priority that is no interrupt's.
LEMMA LaunchRanks ==
    ASSUME Inv, Ranks, NEW t, NEW p \in Pri \ Irq,
           pri' = [pri EXCEPT ![t] = p], irqtask' = irqtask
    PROVE  Ranks'
<1>1. pri \in [Task -> Pri]
  BY Start
<1> SUFFICES ASSUME NEW u \in Task, pri'[u] \in Irq
             PROVE  irqtask'[pri'[u]] = u
  BY DEF Ranks
<1>2. u # t
  BY <1>1
<1>3. pri'[u] = pri[u]
  BY <1>1, <1>2
<1> QED
  BY <1>3 DEF Ranks

\* A task reserved for interrupt i gets the priority i.
LEMMA AddHandlerRanks ==
    ASSUME Inv, Ranks, NEW i \in Irq, intr_add_handler(i)
    PROVE  Ranks'
<1>1. PICK t : t = Head(freel)
  OBVIOUS
<1>2. /\ pri \in [Task -> Pri] /\ irqtask \in [Irq -> Task \cup {NULL}]
      /\ NULL \notin Task
  BY Start, Kinds DEF RestTyped
<1>3. /\ irqtask[i] = NULL /\ irqtask' = [irqtask EXCEPT ![i] = t]
      /\ pri' = [pri EXCEPT ![t] = i]
  BY <1>1 DEF intr_add_handler
<1> SUFFICES ASSUME NEW u \in Task, pri'[u] \in Irq
             PROVE  irqtask'[pri'[u]] = u
  BY DEF Ranks
<1>4. CASE u = t
  <2>1. pri'[u] = i
    BY <1>2, <1>3, <1>4
  <2> QED
    BY <1>2, <1>3, <1>4, <2>1
<1>5. CASE u # t
  <2>1. PICK j \in Irq : j = pri[u] /\ j = pri'[u]
    BY <1>2, <1>3, <1>5
  <2>2. irqtask[j] = u
    BY <2>1 DEF Ranks
  <2>3. j # i
    BY <1>2, <1>3, <2>2
  <2> QED
    BY <1>2, <1>3, <2>1, <2>2, <2>3
<1> QED
  BY <1>4, <1>5

LEMMA RanksNext == Inv /\ Ranks /\ [Next]_vars => Ranks'
<1> SUFFICES ASSUME Inv, Ranks, [Next]_vars PROVE Ranks'
  OBVIOUS
<1>1. ASSUME pri' = pri, irqtask' = irqtask PROVE Ranks'
  BY <1>1 DEF Ranks
<1>2. CASE UNCHANGED vars \/ Panicked
  BY <1>1, <1>2 DEF Panicked, vars, taskvars, irqvars
<1>3. CASE task_from_proc \/ \E p \in StartPri : task_start(p)
  <2>1. PRI_NORM \in Pri \ Irq /\ \A p \in StartPri : p \in Pri \ Irq
    BY SchedAssumption
  <2>2. \E p \in Pri \ Irq : /\ pri' = [pri EXCEPT ![Head(freel)] = p]
                             /\ irqtask' = irqtask
    BY <1>3, <2>1 DEF task_from_proc, task_start, Launch, irqvars
  <2> QED
    BY <2>2, LaunchRanks
<1>4. ASSUME NEW i \in Irq, intr_add_handler(i) PROVE Ranks'
  BY <1>4, AddHandlerRanks
<1>5. CASE task_start_fails \/ exit_mark \/ exit_return
           \/ \E i \in Irq : intr(i) \/ intr_handler_ends(i)
  BY <1>1, <1>5 DEF task_start_fails, exit_mark, exit_return, intr,
                    intr_handler_ends, taskvars, irqvars
<1>6. CASE \/ \E q \in WaitQ : task_block(q) \/ task_unblock(q)
           \/ \E t \in EchoTask : task_unblock_named(t)
           \/ \E n \in SleepTicks : task_sleep(n)
  BY <1>1, <1>6 DEF task_block, task_unblock, task_unblock_named, Unblock,
                    task_sleep, taskvars, irqvars
<1>7. CASE \E s \in Sema : \/ sema_down(s) \/ sema_down_waits(s)
                           \/ sema_down_resumes(s) \/ sema_up(s)
  BY <1>1, <1>7 DEF sema_down, sema_down_waits, sema_down_resumes, sema_up,
                    taskvars, irqvars
<1>8. CASE timer_handler \/ task_wake \/ timer_switch \/ idle_task
  BY <1>1, <1>8 DEF timer_handler, task_wake, timer_switch, idle_task,
                    taskvars, irqvars
<1> QED
  BY <1>2, <1>3, <1>4, <1>5, <1>6, <1>7, <1>8 DEF Next

\* No interrupt in service before interrupt i lets it through, if the
\* numbers are right.
LEMMA NoneBefore ==
    ASSUME UrgentFirst, NEW i \in Irq, NEW p \in Irq, PicRaises(i), p < i
    PROVE  p \notin isr
<1>1. i \in 0..15 /\ p \in 0..15 /\ p # 2 /\ i # 2
  BY Interrupts
<1>2. CASE i < 8
  BY <1>1, <1>2 DEF PicRaises, Master, Line
<1>3. CASE i >= 8 /\ p >= 8
  BY <1>1, <1>3 DEF PicRaises, Slave
<1>4. CASE i >= 8 /\ p < 8
  <2>1. p \notin 3..7
    BY <1>4 DEF UrgentFirst
  <2>2. p < 2
    BY <1>1, <1>4, <2>1
  <2> QED
    BY <1>1, <1>4, <2>2 DEF PicRaises, Master, Line
<1> QED
  BY <1>1, <1>2, <1>3, <1>4

\* The interrupt's task is the one that runs next.
LEMMA HandlerRuns ==
    ASSUME UrgentFirst, Inv, Inv', Ranks', NEW i \in Irq, intr(i)
    PROVE  curtask' = irqtask[i]
<1>1. PICK t : t = irqtask[i]
  OBVIOUS
<1>2. t # NULL /\ i \notin isr /\ PicRaises(i) /\ ~ Serving(i)
      /\ "eoi" \notin astray
  BY <1>1, Raised DEF intr, Serving
<1>3. t \in Task /\ pri[t] = i /\ links.owner[t] = NULL
  BY <1>1, <1>2, IrqTaskNow
<1>4. /\ state \in [Task -> State] /\ curtask \in Task /\ pri \in [Task -> Pri]
      /\ links.owner[curtask] = pri[curtask]
  BY Start
<1>5. t # curtask
  BY <1>3, <1>4, Kinds
<1>6. PICK st : /\ st = [[state EXCEPT ![t] = "TS_READY"] EXCEPT ![curtask] = "TS_READY"]
                /\ SwitchTo(links', st)
  BY <1>1 DEF intr, iswitch, SwitchTo
<1>7. pri' = pri /\ irqtask' = irqtask /\ isr' = isr \cup {i, Line(i)}
      /\ astray' = astray
  BY DEF intr, taskvars
<1>8. /\ links' \in Links /\ WellFormed(links') /\ links'.owner[Idle] = PRI_IDLE
      /\ RunQueueExact' /\ IrqTasks'
  BY DEF Inv, TypeOK, IdleStays
<1>9. PICK u \in Task : u = curtask'
  BY <1>6, <1>8, Switched
<1>10. /\ state' = [st EXCEPT ![u] = "TS_RUN"] /\ links'.owner[u] \in Pri
       /\ \A r \in Pri : links'.head[r] # NULL => links'.owner[u] <= r
  BY <1>6, <1>8, <1>9, Switched
<1>11. PICK p \in Pri : p = links'.owner[u] /\ p = pri'[u]
  BY <1>8, <1>9, <1>10 DEF RunQueueExact
<1>12. i \in Pri /\ i \in Nat /\ p \in Nat
  BY Interrupts, Priorities
<1>13. p <= i
  <2>1. CASE t = u
    BY <1>3, <1>7, <1>11, <1>12, <2>1
  <2>2. CASE t # u
    <3>1. st[t] = "TS_READY"
      BY <1>3, <1>4, <1>5, <1>6
    <3>2. state'[t] = "TS_READY"
      BY <1>3, <1>4, <1>6, <1>10, <2>2, <3>1
    <3>3. links'.owner[t] = i
      BY <1>3, <1>7, <1>8, <3>2 DEF RunQueueExact
    <3>4. links'.head[i] # NULL
      BY <1>3, <1>8, <1>12, <3>3, HeadOwned, Kinds
    <3> QED
      BY <1>10, <1>11, <1>12, <3>4
  <2> QED
    BY <2>1, <2>2
<1>14. CASE p = i
  BY <1>1, <1>7, <1>9, <1>11, <1>14 DEF Ranks
<1>15. CASE p < i
  <2>1. p \in Irq
    BY <1>11, <1>12, <1>15 DEF UrgentFirst
  <2>2. irqtask'[p] = u
    BY <1>11, <2>1 DEF Ranks
  <2>3. u # NULL /\ links'.owner[u] # NULL
    BY <1>11, Kinds
  <2>4. p \in isr'
    <3>1. Serving(p)'
      BY <1>8, <2>1, <2>2, <2>3 DEF IrqTasks
    <3>2. "eoi" \notin astray'
      BY <1>2, <1>7
    <3> QED
      BY <3>1, <3>2 DEF Serving
  <2>5. p # i /\ p # 2 /\ i # 2 /\ p \in 0..15 /\ i \in 0..15
    BY <1>12, <1>15, <2>1, Interrupts
  <2>6. p \in isr
    BY <1>7, <2>4, <2>5 DEF Line
  <2> QED
    BY <1>2, <1>15, <2>1, <2>6, NoneBefore
<1> QED
  BY <1>12, <1>13, <1>14, <1>15

\* Only an interrupt that gets through sets bits of the controllers.
LEMMA InterruptStep ==
    ASSUME UrgentFirst, Inv, Inv', Ranks', [Next]_vars,
           NEW i \in Irq, i \in isr' \ isr
    PROVE  curtask' = irqtask[i]
<1>1. CASE \E j \in Irq : intr(j)
  <2>1. PICK j \in Irq : intr(j)
    BY <1>1
  <2>2. isr' = isr \cup {j, Line(j)}
    BY <2>1 DEF intr
  <2>3. i = j
    BY <2>2, Interrupts DEF Line
  <2> QED
    BY <2>1, <2>3, HandlerRuns
<1>2. CASE \E j \in Irq : intr_handler_ends(j)
  <2>1. isr' \subseteq isr
    BY <1>2 DEF intr_handler_ends, intr_eoi, PicEoi, Master, Slave
  <2> QED
    BY <2>1
<1>3. CASE UNCHANGED vars \/ Panicked
  BY <1>3 DEF Panicked, vars, irqvars
<1>4. CASE \/ task_from_proc \/ task_start_fails \/ exit_mark \/ exit_return
           \/ \E p \in StartPri : task_start(p)
           \/ \E j \in Irq : intr_add_handler(j)
  BY <1>4 DEF task_from_proc, task_start, Launch, task_start_fails, exit_mark,
              exit_return, intr_add_handler, irqvars
<1>5. CASE \/ \E q \in WaitQ : task_block(q) \/ task_unblock(q)
           \/ \E t \in EchoTask : task_unblock_named(t)
           \/ \E n \in SleepTicks : task_sleep(n)
  BY <1>5 DEF task_block, task_unblock, task_unblock_named, Unblock,
              task_sleep, irqvars
<1>6. CASE \E s \in Sema : \/ sema_down(s) \/ sema_down_waits(s)
                           \/ sema_down_resumes(s) \/ sema_up(s)
  BY <1>6 DEF sema_down, sema_down_waits, sema_down_resumes, sema_up, irqvars
<1>7. CASE timer_handler \/ task_wake \/ timer_switch \/ idle_task
  BY <1>7 DEF timer_handler, task_wake, timer_switch, idle_task, irqvars
<1> QED
  BY <1>1, <1>2, <1>3, <1>4, <1>5, <1>6, <1>7 DEF Next

\* An interrupt that the controllers let through starts its handler in the
\* same step, whatever was running and however the interrupts nest (intr_go,
\* "0-15 are hardware interrupts, same priority as PIC").
THEOREM InterruptStartsHandler ==
    ASSUME UrgentFirst
    PROVE  Spec => InterruptRunsAtOnce
<1>1. Init => Inv /\ Ranks
  BY InitInv, RanksInit
<1>2. Inv /\ Ranks /\ [Next]_vars => (Inv /\ Ranks)'
  BY NextInv, RanksNext
<1>3. Inv /\ Ranks /\ (Inv /\ Ranks)' /\ [Next]_vars
      => [\A i \in Irq : i \in isr' \ isr => curtask' = irqtask[i]]_vars
  BY InterruptStep
<1> QED
  BY <1>1, <1>2, <1>3, PTL DEF Spec, InterruptRunsAtOnce

-----------------------------------------------------------------------------
(***************************************************************************)
(* The semaphores (semap.c) are sound for any number of tasks, semaphores  *)
(* and interrupts: the count of a semaphore tells exactly who is inside    *)
(* and how many wait, so two tasks are never inside and sema_up never      *)
(* finds its queue empty when the count says otherwise.                    *)
(*                                                                         *)
(* That is so until a task on a semaphore's queue is unblocked by name,    *)
(* which takes it off without the count's knowledge (ttyc_putc unblocks    *)
(* pc->echotask wherever it is blocked).                                   *)
(***************************************************************************)

Inconsistent == "semaphore: count not consistent with queue state"

\* The tasks that s has let in: those in the critical section, and the one
\* that sema_up has taken off the queue and that has not come back from its
\* switch.  A count of 1 says there is none, any other that there is one.
Inside(s) == {t \in Task : s \in cs[t] \/ (pc[t] = s /\ links.owner[t] # s)}

SemaAt(s) ==
    /\ \A t \in Task : links.owner[t] = s => pc[t] = s
    /\ \A t \in Task : pc[t] = s => s \notin cs[t]
    /\ count[s] <= 1
    /\ Cardinality(Members(links, s)) = IF count[s] < 0 THEN -count[s] ELSE 0
    /\ \A t, u \in Inside(s) : t = u
    /\ count[s] = 1 <=> Inside(s) = {}

Sound == (\A s \in Sema : SemaAt(s)) /\ panic # Inconsistent
SemaInv == "named" \in astray \/ Sound
-----------------------------------------------------------------------------
\* A step leaves semaphore s alone: the same tasks are on its queue, waiting
\* for it and inside.
LeavesAlone(s) ==
    /\ count'[s] = count[s]
    /\ \A t \in Task : /\ links'.owner[t] = s <=> links.owner[t] = s
                       /\ pc'[t] = s <=> pc[t] = s
                       /\ s \in cs'[t] <=> s \in cs[t]

LEMMA AloneKeeps ==
    ASSUME NEW s \in Sema, SemaAt(s), LeavesAlone(s)
    PROVE  SemaAt(s)'
<1>1. Members(links, s)' = Members(links, s)
  BY DEF Members, LeavesAlone
<1>2. Inside(s)' = Inside(s)
  BY DEF Inside, LeavesAlone
<1> QED
  BY <1>1, <1>2 DEF SemaAt, LeavesAlone

\* A step that moves one task between queues that are no semaphores, and to
\* a place that is no wait for one, leaves all semaphores alone.
LEMMA MoveAlone ==
    ASSUME Inv, NEW s \in Sema, NEW t \in Task, NEW q,
           links.owner[t] # s, q # s, links'.owner = [links.owner EXCEPT ![t] = q],
           pc[t] # s, pc' = pc \/ \E w : w # s /\ pc' = [pc EXCEPT ![t] = w],
           cs' = cs, count' = count
    PROVE  LeavesAlone(s)
<1>1. links.owner \in [Task -> Queue \cup {NULL}] /\ pc \in [Task -> Place]
  BY Start DEF Links, RestTyped
<1>2. links'.owner[t] = q /\ \A u \in Task : u # t => links'.owner[u] = links.owner[u]
  BY <1>1
<1>3. \A u \in Task : pc'[u] = s <=> pc[u] = s
  BY <1>1
<1> QED
  BY <1>2, <1>3 DEF LeavesAlone

\* What Inv says about the running task and the semaphores.
LEMMA Runner ==
    ASSUME Inv, NEW s \in Sema
    PROVE  /\ curtask \in Task /\ links \in Links /\ WellFormed(links)
           /\ links.owner[curtask] \in Pri /\ links.owner[curtask] # s
           /\ links.owner[Idle] = PRI_IDLE /\ Idle \in Task
           /\ s # NULL /\ s \in Queue /\ s \notin Pri /\ s \notin WaitQ
           /\ s # Sleeping /\ s \notin {"none", "run", "exiting", "gone"}
           /\ pc \in [Task -> Place] /\ cs \in [Task -> SUBSET Sema]
           /\ count \in [Sema -> Int]
  BY Start, Kinds, Interrupts DEF Inv, IdleStays, RestTyped

-----------------------------------------------------------------------------
(* The actions that have nothing to do with semaphores                     *)

\* A task that starts was on no queue.
LEMMA LaunchAlone ==
    ASSUME Inv, NEW s \in Sema, NEW p \in Pri, NEW b, freel # <<>>,
           Launch(Head(freel), p, b)
    PROVE  LeavesAlone(s)
<1>1. PICK t : t = Head(freel)
  OBVIOUS
<1>2. freel \in Seq(Task)
  BY Start DEF RestTyped
<1>3. t = freel[1] /\ 1 \in 1..Len(freel)
  BY <1>1, <1>2
<1>4. t \in Task /\ links.owner[t] = NULL /\ pc[t] \in {"none", "gone"}
  BY <1>3, FreeTasks
<1>5. links'.owner = [links.owner EXCEPT ![t] = p]
  <2>1. links' = taskq_push(links, p, t)
    BY <1>1 DEF Launch
  <2>2. p \in Queue
    BY Kinds
  <2>3. PICK L : L = links
    OBVIOUS
  <2>4. L \in Links /\ WellFormed(L)
    BY <2>3, Runner
  <2>5. t \in Task /\ L.owner[t] = NULL
    BY <2>3, <1>4
  <2>6. PICK M : M = taskq_push(L, p, t)
    OBVIOUS
  <2>7. M.owner = [L.owner EXCEPT ![t] = p]
    BY <2>2, <2>4, <2>5, <2>6, PushWellFormed
  <2> QED
    BY <2>1, <2>3, <2>6, <2>7
<1>6. pc' = [pc EXCEPT ![t] = "run"] /\ cs' = cs /\ count' = count
  BY <1>1 DEF Launch, semvars
<1> QED
  BY <1>4, <1>5, <1>6, Runner, MoveAlone

\* An interrupt task that is made was on no queue either.
LEMMA AddHandlerAlone ==
    ASSUME Inv, NEW s \in Sema, NEW i \in Irq, intr_add_handler(i)
    PROVE  LeavesAlone(s)
<1>1. PICK t : t = Head(freel)
  OBVIOUS
<1>2. freel \in Seq(Task) /\ freel # <<>>
  BY Start DEF RestTyped, intr_add_handler
<1>3. t = freel[1] /\ 1 \in 1..Len(freel)
  BY <1>1, <1>2
<1>4. t \in Task /\ links.owner[t] = NULL /\ pc[t] \in {"none", "gone"}
  BY <1>3, FreeTasks
<1>5. links' = links /\ pc' = [pc EXCEPT ![t] = "none"] /\ cs' = cs
      /\ count' = count
  BY <1>1 DEF intr_add_handler, semvars
<1> QED
  BY <1>4, <1>5, Runner DEF LeavesAlone

\* A task that ends was running, or about to.
LEMMA ExitAlone ==
    ASSUME Inv, NEW s \in Sema,
           exit_return \/ \E i \in Irq : intr_handler_ends(i)
    PROVE  LeavesAlone(s)
<1>1. PICK t : t = curtask
  OBVIOUS
<1>2. PICK w \in {"gone", "none"} : pc' = [pc EXCEPT ![t] = w]
  BY <1>1 DEF exit_return, intr_handler_ends
<1>3. pc[t] \in {"exiting", "run"} /\ links' = task_dequeue(links, t)
      /\ cs' = cs /\ count' = count
  BY <1>1 DEF exit_return, intr_handler_ends, Running, task_exit, SwitchTo,
              semvars
<1>4. links'.owner = [links.owner EXCEPT ![t] = NULL]
  BY <1>1, <1>3, Runner, DequeueWellFormed
<1> QED
  BY <1>1, <1>2, <1>3, <1>4, Runner, MoveAlone

\* A task that blocks elsewhere leaves its bucket for that queue.
LEMMA BlockAlone ==
    ASSUME Inv, NEW s \in Sema,
           \/ \E q \in WaitQ : task_block(q)
           \/ \E n \in SleepTicks : task_sleep(n)
    PROVE  LeavesAlone(s)
<1>1. curtask \in Task /\ links \in Links /\ WellFormed(links)
  BY Runner
<1>2. pc[curtask] = "run" /\ pc' = pc /\ cs' = cs /\ count' = count
  BY DEF task_block, task_sleep, Ordinary, Running, semvars
<1>3. PICK q : q # s /\ links'.owner = [links.owner EXCEPT ![curtask] = q]
  <2>1. ASSUME NEW q \in WaitQ, task_block(q)
        PROVE  q # s /\ links'.owner = [links.owner EXCEPT ![curtask] = q]
    <3>1. links' = taskq_push(task_dequeue(links, curtask), q, curtask)
      BY <2>1 DEF task_block, SwitchTo
    <3>2. q \in Queue /\ q # s
      BY Kinds
    <3> QED
      BY <1>1, <3>1, <3>2, Moved
  <2>2. ASSUME NEW n \in SleepTicks, task_sleep(n)
        PROVE  /\ Sleeping # s
               /\ links'.owner = [links.owner EXCEPT ![curtask] = Sleeping]
    <3>1. PICK d : links' = SleepInsert(task_dequeue(links, curtask), curtask, d)
      BY <2>2 DEF task_sleep, SwitchTo
    <3>2. PICK D : D = task_dequeue(links, curtask)
      OBVIOUS
    <3>3. /\ D \in Links /\ WellFormed(D)
          /\ D.owner = [links.owner EXCEPT ![curtask] = NULL]
      BY <1>1, <3>2, DequeueWellFormed
    <3>4. D.owner[curtask] = NULL
      BY <1>1, <3>3 DEF Links
    <3>5. links'.owner = [D.owner EXCEPT ![curtask] = Sleeping]
      <4>1. PICK M : M = SleepInsert(D, curtask, d)
        OBVIOUS
      <4>2. PICK t \in Task : t = curtask
        BY <1>1
      <4>3. D \in Links /\ D.owner[t] = NULL
        BY <3>3, <3>4, <4>2
      <4>4. WellFormed(D)
        BY <3>3
      <4>5. M = SleepInsert(D, t, d)
        BY <4>1, <4>2
      <4>6. M.owner = [D.owner EXCEPT ![t] = Sleeping]
        BY <4>3, <4>4, <4>5, SleepWellFormed
      <4> QED
        BY <3>1, <3>2, <4>1, <4>2, <4>6
    <3> QED
      BY <1>1, <3>3, <3>5, Kinds DEF Links
  <2> QED
    BY <2>1, <2>2
<1> QED
  BY <1>1, <1>2, <1>3, Runner, MoveAlone

\* A task that is woken leaves a queue that is no semaphore for its bucket.
LEMMA WakeAlone ==
    ASSUME Inv, NEW s \in Sema, task_wake \/ \E q \in WaitQ : task_unblock(q)
    PROVE  LeavesAlone(s)
<1>1. links \in Links /\ WellFormed(links) /\ pri \in [Task -> Pri]
  BY Start
<1>2. pc' = pc /\ cs' = cs /\ count' = count
  BY DEF task_wake, task_unblock, Unblock, semvars
<1>3. CASE links' = links
  BY <1>2, <1>3 DEF LeavesAlone
<1>4. CASE links' # links
  <2>1. PICK q \in WaitQ \cup {Sleeping} :
            /\ links.head[q] # NULL
            /\ links' = ENQUEUE(task_dequeue(links, links.head[q]), links.head[q])
    BY <1>4 DEF task_wake, SleeperDue, task_unblock, Unblock
  <2>2. PICK t : t = links.head[q]
    OBVIOUS
  <2>3. q \in Queue /\ q # s
    BY Kinds
  <2>4. t \in Task /\ links.owner[t] = q
    BY <1>1, <2>1, <2>2, <2>3, HeadOwned
  <2>5. pri[t] \in Queue /\ pri[t] # s
    BY <1>1, <2>4, Kinds
  <2>6. links'.owner = [links.owner EXCEPT ![t] = pri[t]]
    BY <2>1, <2>2, <2>4, <2>5, Moved DEF ENQUEUE
  <2> QED
    BY <1>1, <1>2, <2>3, <2>4, <2>5, <2>6, Runner DEF LeavesAlone, Links
<1> QED
  BY <1>3, <1>4

\* So does a task that is unblocked by name.
LEMMA NamedAlone ==
    ASSUME Inv, NEW s \in Sema, NEW t \in Task, task_unblock_named(t),
           links.owner[t] # s \/ state[t] # "TS_BLOCKED"
    PROVE  LeavesAlone(s)
<1>1. links \in Links /\ WellFormed(links) /\ pri \in [Task -> Pri]
  BY Start
<1>2. pc' = pc /\ cs' = cs /\ count' = count
  BY DEF task_unblock_named, Unblock, semvars
<1>3. CASE links' = links
  BY <1>2, <1>3 DEF LeavesAlone
<1>4. CASE links' # links
  <2>0. links.owner[t] # s
    BY <1>4 DEF task_unblock_named, Unblock
  <2>1. links' = ENQUEUE(task_dequeue(links, t), t)
    BY <1>4 DEF task_unblock_named, Unblock
  <2>2. pri[t] \in Queue /\ pri[t] # s /\ pri[t] # NULL
    BY <1>1, Kinds
  <2>3. links'.owner = [links.owner EXCEPT ![t] = pri[t]]
    <3>1. PICK q : q = pri[t]
      OBVIOUS
    <3>2. links' = taskq_push(task_dequeue(links, t), q, t)
      BY <2>1, <3>1 DEF ENQUEUE
    <3> QED
      BY <2>2, <3>1, <3>2, Moved
  <2> QED
    BY <1>1, <1>2, <2>0, <2>2, <2>3 DEF LeavesAlone, Links
<1> QED
  BY <1>3, <1>4

\* The timer and idle_task switch, and rotate a bucket at most.
LEMMA SwitchAlone ==
    ASSUME Inv, NEW s \in Sema, timer_switch \/ idle_task
    PROVE  LeavesAlone(s)
<1>1. pc' = pc /\ cs' = cs /\ count' = count
  BY DEF timer_switch, idle_task, semvars
<1>2. links'.owner = links.owner
  <2>1. CASE timer_switch
    <3>1. links' = SetHead(links, pri[curtask], links.next[curtask])
      BY <2>1 DEF timer_switch, iswitch, SwitchTo
    <3> QED
      BY <3>1 DEF SetHead
  <2>2. CASE idle_task
    BY <2>2 DEF idle_task, SwitchTo
  <2> QED
    BY <2>1, <2>2
<1> QED
  BY <1>1, <1>2 DEF LeavesAlone

\* An interrupt starts a task that was on no queue.
LEMMA IntrAlone ==
    ASSUME Inv, NEW s \in Sema, NEW i \in Irq, intr(i)
    PROVE  LeavesAlone(s)
<1>1. PICK t : t = irqtask[i]
  OBVIOUS
<1>2. t # NULL /\ PicRaises(i) /\ "eoi" \notin astray
  BY <1>1 DEF intr
<1>3. ~ Serving(i)
  BY <1>2, Raised DEF Serving
<1>4. t \in Task /\ pri[t] = i /\ pc[t] = "none" /\ links.owner[t] = NULL
  BY <1>1, <1>2, <1>3, IrqTaskNow
<1>5. i \in Queue /\ i # s
  BY Kinds, Interrupts
<1>6. PICK N : N = ENQUEUE(links, t)
  OBVIOUS
<1>7. N.owner = [links.owner EXCEPT ![t] = i]
  BY <1>4, <1>5, <1>6, Runner, PushWellFormed DEF ENQUEUE
<1>8. links'.owner = N.owner
  BY <1>1, <1>6 DEF intr, intr_go, iswitch, SwitchTo, SetHead
<1>9. pc' = [pc EXCEPT ![t] = "run"] /\ cs' = cs /\ count' = count
  BY <1>1 DEF intr, semvars
<1> QED
  BY <1>4, <1>5, <1>7, <1>8, <1>9, Runner, MoveAlone

\* _exit, the timer's interrupt and a failing task_start move no task.
LEMMA StillAlone ==
    ASSUME Inv, NEW s \in Sema, exit_mark \/ timer_handler \/ task_start_fails
    PROVE  LeavesAlone(s)
<1>1. links' = links /\ cs' = cs /\ count' = count
  BY DEF exit_mark, timer_handler, task_start_fails, semvars
<1>2. pc' = pc \/ (pc' = [pc EXCEPT ![curtask] = "exiting"] /\ pc[curtask] = "run")
  BY DEF exit_mark, timer_handler, task_start_fails, Ordinary, Running
<1> QED
  BY <1>1, <1>2, Runner DEF LeavesAlone

\* What has no semaphore in it leaves all of them alone.
LEMMA OthersAlone ==
    ASSUME Inv, NEW s \in Sema,
           \/ UNCHANGED vars
           \/ \E p \in StartPri : task_start(p)
           \/ task_start_fails \/ task_from_proc \/ exit_mark \/ exit_return
           \/ \E i \in Irq : intr_add_handler(i) \/ intr(i) \/ intr_handler_ends(i)
           \/ \E q \in WaitQ : task_block(q) \/ task_unblock(q)
           \/ \E n \in SleepTicks : task_sleep(n)
           \/ timer_handler \/ task_wake \/ timer_switch
           \/ idle_task \/ Panicked
    PROVE  LeavesAlone(s)
<1>1. CASE UNCHANGED vars \/ Panicked
  BY <1>1 DEF LeavesAlone, Panicked, vars, semvars
<1>2. CASE task_from_proc \/ \E p \in StartPri : task_start(p)
  BY <1>2, LaunchAlone, Kinds, Interrupts DEF task_start, task_from_proc
<1>3. CASE \E i \in Irq : intr_add_handler(i) \/ intr(i) \/ intr_handler_ends(i)
  BY <1>3, AddHandlerAlone, IntrAlone, ExitAlone
<1>4. CASE \/ \E q \in WaitQ : task_block(q) \/ task_unblock(q)
           \/ \E n \in SleepTicks : task_sleep(n)
           \/ task_wake
  BY <1>4, BlockAlone, WakeAlone
<1>5. CASE task_start_fails \/ exit_mark \/ timer_handler
  BY <1>5, StillAlone
<1>6. CASE exit_return \/ timer_switch \/ idle_task
  BY <1>6, ExitAlone, SwitchAlone
<1> QED
  BY <1>1, <1>2, <1>3, <1>4, <1>5, <1>6
-----------------------------------------------------------------------------
(* The semaphores' own actions                                             *)

LEMMA MembersFinite ==
    ASSUME NEW L, NEW q
    PROVE  IsFiniteSet(Members(L, q)) /\ Cardinality(Members(L, q)) \in Nat
<1>1. IsFiniteSet(Task) /\ Members(L, q) \subseteq Task
  BY SchedAssumption DEF Members
<1> QED
  BY <1>1, FS_Subset, FS_CardinalityType

\* sema_down of a free semaphore: the caller is the one inside.
LEMMA DownKeeps ==
    ASSUME Inv, NEW s \in Sema, NEW r \in Sema, SemaAt(r), sema_down(s)
    PROVE  SemaAt(r)'
<1>1. PICK t : t = curtask
  OBVIOUS
<1>2. /\ t \in Task /\ pc[t] = "run" /\ links.owner[t] # r /\ pc[t] # r
      /\ count[s] > 0 /\ links' = links /\ pc' = pc
  BY <1>1, Runner DEF sema_down, MayTake, Running, Available
<1>3. /\ count' = [count EXCEPT ![s] = @ - 1]
      /\ cs' = [cs EXCEPT ![t] = @ \cup {s}]
  BY <1>1 DEF sema_down
<1>4. CASE r # s
  <2>1. LeavesAlone(r)
    BY <1>2, <1>3, <1>4, Runner DEF LeavesAlone
  <2> QED
    BY <2>1, AloneKeeps
<1>5. CASE r = s
  <2>1. count[s] = 1 /\ count'[s] = 0
    BY <1>2, <1>3, <1>5, Runner DEF SemaAt
  <2>2. Inside(s) = {}
    BY <1>5, <2>1 DEF SemaAt
  <2>3. Inside(s)' = {t}
    BY <1>2, <1>3, <2>2, Runner DEF Inside
  <2>4. Members(links, s)' = Members(links, s)
    BY <1>2 DEF Members
  <2>5. \A u \in Task : pc'[u] = s => s \notin cs'[u]
    BY <1>2, <1>3, <1>5, Runner DEF SemaAt
  <2> QED
    BY <1>2, <1>5, <2>1, <2>3, <2>4, <2>5 DEF SemaAt
<1> QED
  BY <1>4, <1>5

\* sema_down that waits: one more on the queue, and the count says so.
LEMMA WaitKeeps ==
    ASSUME Inv, NEW s \in Sema, NEW r \in Sema, SemaAt(r), sema_down_waits(s)
    PROVE  SemaAt(r)'
<1>1. PICK t : t = curtask
  OBVIOUS
<1>2. /\ t \in Task /\ pc[t] = "run" /\ pc[t] # r /\ links.owner[t] # r
      /\ s \notin cs[t] /\ count[s] <= 0
  <2>1. pc[t] = "run" /\ s \notin cs[t] /\ ~ (count[s] > 0)
    BY <1>1 DEF sema_down_waits, MayTake, Running, Available
  <2>2. t \in Task /\ links.owner[t] # r /\ r # "run" /\ count[s] \in Int
    BY <1>1, Runner
  <2> QED
    BY <2>1, <2>2
<1>3. /\ count' = [count EXCEPT ![s] = @ - 1] /\ cs' = cs
      /\ pc' = [pc EXCEPT ![t] = s]
      /\ links' = taskq_push(task_dequeue(links, t), s, t)
  BY <1>1 DEF sema_down_waits, SwitchTo
<1>4. /\ links'.owner = [links.owner EXCEPT ![t] = s]
      /\ links.owner \in [Task -> Queue \cup {NULL}]
  BY <1>2, <1>3, Moved, Runner DEF Links
<1>5. CASE r # s
  <2>1. LeavesAlone(r)
    BY <1>2, <1>3, <1>4, <1>5, Runner DEF LeavesAlone
  <2> QED
    BY <2>1, AloneKeeps
<1>6. CASE r = s
  <2>1. count[s] \in Int /\ count'[s] = count[s] - 1
    BY <1>3, Runner
  <2>2. Members(links, s)' = Members(links, s) \cup {t} /\ t \notin Members(links, s)
    BY <1>2, <1>4, <1>6 DEF Members
  <2>3. Cardinality(Members(links, s)') = Cardinality(Members(links, s)) + 1
    BY <2>2, MembersFinite, FS_AddElement
  <2>4. Cardinality(Members(links, s)') = -count'[s]
    BY <1>2, <1>6, <2>1, <2>3 DEF SemaAt
  <2>5. Inside(s)' = Inside(s)
    BY <1>2, <1>3, <1>4, <1>6, Runner DEF Inside
  <2>6. \A u \in Task : /\ links'.owner[u] = s => pc'[u] = s
                        /\ pc'[u] = s => s \notin cs'[u]
    BY <1>2, <1>3, <1>4, <1>6, Runner DEF SemaAt
  <2> QED
    BY <1>2, <1>6, <2>1, <2>4, <2>5, <2>6 DEF SemaAt
<1> QED
  BY <1>5, <1>6

\* sema_down comes back: the task that was let in is in the section.
LEMMA ResumeKeeps ==
    ASSUME Inv, NEW s \in Sema, NEW r \in Sema, SemaAt(r), sema_down_resumes(s)
    PROVE  SemaAt(r)'
<1>1. PICK t : t = curtask
  OBVIOUS
<1>2. /\ t \in Task /\ pc[t] = s /\ links.owner[t] # s
      /\ count' = count /\ links' = links
      /\ cs' = [cs EXCEPT ![t] = @ \cup {s}] /\ pc' = [pc EXCEPT ![t] = "run"]
  BY <1>1, Runner DEF sema_down_resumes
<1>3. CASE r # s
  <2>1. LeavesAlone(r)
    BY <1>2, <1>3, Runner DEF LeavesAlone
  <2> QED
    BY <2>1, AloneKeeps
<1>4. CASE r = s
  <2>1. Inside(s)' = Inside(s)
    BY <1>2, <1>4, Runner DEF Inside
  <2>2. Members(links, s)' = Members(links, s)
    BY <1>2 DEF Members
  <2>3. \A u \in Task : /\ links'.owner[u] = s => pc'[u] = s
                        /\ pc'[u] = s => s \notin cs'[u]
    BY <1>2, <1>4, Runner DEF SemaAt
  <2> QED
    BY <1>2, <1>4, <2>1, <2>2, <2>3 DEF SemaAt
<1> QED
  BY <1>3, <1>4

\* sema_up: the semaphore goes to the head of its queue, or is free.
LEMMA UpKeeps ==
    ASSUME Inv, NEW s \in Sema, SemaAt(s), NEW r \in Sema, SemaAt(r), sema_up(s)
    PROVE  SemaAt(r)' /\ panic' = panic
<1>1. PICK t : t = curtask
  OBVIOUS
<1>2. /\ t \in Task /\ s \in cs[t] /\ pc[t] = "run" /\ links.owner[t] # r
      /\ count' = [count EXCEPT ![s] = @ + 1] /\ pc' = pc
      /\ cs' = [cs EXCEPT ![t] = @ \ {s}]
  BY <1>1, Runner DEF sema_up, Running
<1>3. t \in Inside(s) /\ Inside(s) = {t}
  BY <1>2 DEF SemaAt, Inside
<1>4. count[s] \in Int /\ count[s] <= 0 /\ count'[s] = count[s] + 1
  BY <1>2, <1>3, Runner DEF SemaAt
<1>5. PICK n : n = links.head[s]
  OBVIOUS
<1>6. CASE count[s] = 0
  <2>1. links' = links /\ panic' = panic
    BY <1>6 DEF sema_up, SemaWakes
  <2>2. CASE r # s
    <3>1. LeavesAlone(r)
      BY <1>2, <2>1, <2>2, Runner DEF LeavesAlone
    <3> QED
      BY <2>1, <3>1, AloneKeeps
  <2>3. CASE r = s
    <3>1. Inside(s)' = {}
      BY <1>2, <1>3, <2>1, Runner DEF Inside
    <3>2. Members(links, s)' = Members(links, s)
      BY <2>1 DEF Members
    <3>3. \A u \in Task : pc'[u] = s => s \notin cs'[u]
      BY <1>2, <2>3, Runner DEF SemaAt
    <3> QED
      BY <1>2, <1>4, <1>6, <2>1, <2>3, <3>1, <3>2, <3>3 DEF SemaAt
  <2> QED
    BY <2>1, <2>2, <2>3
<1>7. CASE count[s] < 0
  <2>1. Members(links, s) # {}
    <3>1. Cardinality(Members(links, s)) = -count[s]
      BY <1>7 DEF SemaAt
    <3> QED
      BY <1>4, <1>7, <3>1, FS_EmptySet
  <2>2. n \in Task /\ n # NULL /\ links.owner[n] = s /\ s \in Queue
    BY <1>5, <2>1, HeadOwned, Runner, NullAssumption DEF Members
  <2>3. SemaWakes(s)
    BY <1>4, <1>7 DEF SemaWakes
  <2>4. /\ links' = ENQUEUE(taskq_pop(links, s), n) /\ panic' = panic
    BY <1>5, <2>2, <2>3 DEF sema_up
  <2>5. taskq_pop(links, s) = task_dequeue(links, n)
    BY <1>5, <2>2, Runner, PopIsDequeue
  <2>6. pri[n] \in Pri /\ pri[n] \in Queue /\ pri[n] # s /\ pri[n] # r
    BY <2>2, Start, Kinds
  <2>7. /\ links'.owner = [links.owner EXCEPT ![n] = pri[n]]
        /\ links.owner \in [Task -> Queue \cup {NULL}]
    BY <2>2, <2>4, <2>5, <2>6, Moved, Runner DEF ENQUEUE, Links
  <2>8. CASE r # s
    <3>1. LeavesAlone(r)
      BY <1>2, <2>2, <2>6, <2>7, <2>8, Runner DEF LeavesAlone
    <3> QED
      BY <2>4, <3>1, AloneKeeps
  <2>9. CASE r = s
    <3>1. pc[n] = s /\ n # t
      BY <1>2, <2>2, Runner DEF SemaAt
    <3>2. Inside(s)' = {n}
      BY <1>2, <1>3, <2>2, <2>6, <2>7, <3>1, Runner DEF Inside
    <3>3. Members(links, s)' = Members(links, s) \ {n} /\ n \in Members(links, s)
      BY <2>2, <2>6, <2>7 DEF Members
    <3>4. Cardinality(Members(links, s)') = Cardinality(Members(links, s)) - 1
      BY <3>3, MembersFinite, FS_RemoveElement
    <3>5. \A u \in Task : /\ links'.owner[u] = s => pc'[u] = s
                          /\ pc'[u] = s => s \notin cs'[u]
      BY <1>2, <2>2, <2>6, <2>7, <2>9, Runner DEF SemaAt
    <3> QED
      BY <1>4, <1>7, <2>4, <2>9, <3>2, <3>4, <3>5 DEF SemaAt
  <2> QED
    BY <2>8, <2>9
<1> QED
  BY <1>4, <1>6, <1>7
-----------------------------------------------------------------------------
\* At first every semaphore is free.
LEMMA SemaInit == Init => SemaInv
<1> SUFFICES ASSUME Init PROVE SemaInv
  OBVIOUS
<1>1. panic # Inconsistent
  BY DEF Init, Inconsistent
<1>2. PICK E : E = EmptyLinks
  OBVIOUS
<1>3. /\ E \in Links /\ WellFormed(E) /\ \A t \in Task : E.owner[t] = NULL
  BY <1>2, EmptyWellFormed DEF EmptyLinks
<1>4. /\ Main \in Task /\ Idle \in Task /\ Idle # Main
      /\ PRI_NORM \in Queue /\ PRI_IDLE \in Queue
  BY Kinds, Interrupts
<1>5. PICK M : M = taskq_push(E, PRI_NORM, Main)
  OBVIOUS
<1>6. /\ M \in Links /\ WellFormed(M) /\ M.owner = [E.owner EXCEPT ![Main] = PRI_NORM]
  BY <1>3, <1>4, <1>5, PushWellFormed
<1>7. M.owner[Idle] = NULL
  BY <1>3, <1>4, <1>6 DEF Links
<1>8. links.owner = [M.owner EXCEPT ![Idle] = PRI_IDLE]
  <2>1. PICK N : N = links
    OBVIOUS
  <2>2. N = taskq_push(M, PRI_IDLE, Idle)
    BY <1>2, <1>5, <2>1 DEF Init
  <2>3. M \in Links /\ M.owner[Idle] = NULL
    BY <1>6, <1>7
  <2>4. WellFormed(M)
    BY <1>6
  <2> QED
    BY <1>4, <2>1, <2>2, <2>3, <2>4, PushWellFormed
<1>9. ASSUME NEW s \in Sema PROVE SemaAt(s)
  <2>1. count[s] = 1 /\ \A t \in Task : pc[t] # s /\ cs[t] = {}
    BY Interrupts DEF Init
  <2>2. \A t \in Task : links.owner[t] # s
    BY <1>3, <1>6, <1>8, Kinds DEF Links
  <2>3. Members(links, s) = {} /\ Inside(s) = {}
    BY <2>1, <2>2 DEF Members, Inside
  <2> QED
    BY <2>1, <2>2, <2>3, FS_EmptySet DEF SemaAt
<1> QED
  BY <1>1, <1>9 DEF SemaInv, Sound

\* What has gone astray is not forgotten.
LEMMA AstrayKeeps == [Next]_vars => astray \subseteq astray'
<1> SUFFICES ASSUME [Next]_vars PROVE astray \subseteq astray'
  OBVIOUS
<1>1. ASSUME UNCHANGED irqvars PROVE astray \subseteq astray'
  BY <1>1 DEF irqvars
<1>2. CASE UNCHANGED vars \/ Panicked
  BY <1>2 DEF Panicked, vars, irqvars
<1>3. CASE \/ task_from_proc \/ task_start_fails \/ exit_mark \/ exit_return
           \/ \E p \in StartPri : task_start(p)
  BY <1>1, <1>3 DEF task_from_proc, task_start, Launch, task_start_fails,
                    exit_mark, exit_return
<1>4. CASE \E i \in Irq : intr_add_handler(i) \/ intr(i) \/ intr_handler_ends(i)
  BY <1>4 DEF intr_add_handler, intr, intr_handler_ends
<1>5. CASE \/ \E q \in WaitQ : task_block(q) \/ task_unblock(q)
           \/ \E t \in EchoTask : task_unblock_named(t)
           \/ \E n \in SleepTicks : task_sleep(n)
  BY <1>5 DEF task_block, task_unblock, task_unblock_named, task_sleep, irqvars
<1>6. CASE \E s \in Sema : \/ sema_down(s) \/ sema_down_waits(s)
                           \/ sema_down_resumes(s) \/ sema_up(s)
  BY <1>1, <1>6 DEF sema_down, sema_down_waits, sema_down_resumes, sema_up
<1>7. CASE timer_handler \/ task_wake \/ timer_switch \/ idle_task
  BY <1>1, <1>7 DEF timer_handler, task_wake, timer_switch, idle_task
<1> QED
  BY <1>2, <1>3, <1>4, <1>5, <1>6, <1>7 DEF Next

\* Every step keeps the semaphores sound, but one that unblocks by name a
\* task that waits for one.
LEMMA SoundNext ==
    ASSUME Inv, Sound, [Next]_vars
    PROVE  SemaInv'
<1>1. panic # Inconsistent /\ \A s \in Sema : SemaAt(s)
  BY DEF Sound
<1>2. ASSUME NEW s \in Sema, sema_down(s) PROVE SemaInv'
  <2>1. panic' = panic
    BY <1>2 DEF sema_down
  <2> QED
    BY <1>1, <1>2, <2>1, DownKeeps DEF SemaInv, Sound
<1>3. ASSUME NEW s \in Sema, sema_down_waits(s) PROVE SemaInv'
  <2>1. panic' # Inconsistent
    BY <1>1, <1>3 DEF sema_down_waits, SwitchTo, Inconsistent
  <2> QED
    BY <1>1, <1>3, <2>1, WaitKeeps DEF SemaInv, Sound
<1>4. ASSUME NEW s \in Sema, sema_down_resumes(s) PROVE SemaInv'
  <2>1. panic' = panic
    BY <1>4 DEF sema_down_resumes
  <2> QED
    BY <1>1, <1>4, <2>1, ResumeKeeps DEF SemaInv, Sound
<1>5. ASSUME NEW s \in Sema, sema_up(s) PROVE SemaInv'
  <2>1. ASSUME NEW r \in Sema PROVE SemaAt(r)' /\ panic' = panic
    BY <1>1, <1>5, UpKeeps
  <2> QED
    BY <1>1, <2>1 DEF SemaInv, Sound
<1>6. ASSUME \A s \in Sema : LeavesAlone(s), panic' # Inconsistent
      PROVE  SemaInv'
  BY <1>1, <1>6, AloneKeeps DEF SemaInv, Sound
<1>7. CASE UNCHANGED vars \/ Panicked
  BY <1>1, <1>6, <1>7, OthersAlone DEF Panicked, vars
<1>8. CASE \/ \E p \in StartPri : task_start(p)
           \/ task_start_fails \/ task_from_proc \/ exit_mark
           \/ \E i \in Irq : intr_add_handler(i)
           \/ \E q \in WaitQ : task_unblock(q)
           \/ timer_handler \/ task_wake
  <2>1. panic' # Inconsistent
    BY <1>1, <1>8
       DEF task_start, Launch, task_start_fails, task_from_proc, exit_mark,
           intr_add_handler, task_unblock, Unblock, timer_handler, task_wake,
           Inconsistent
  <2> QED
    BY <1>6, <1>8, <2>1, OthersAlone
<1>9. CASE \/ exit_return \/ timer_switch \/ idle_task
           \/ \E i \in Irq : intr(i) \/ intr_handler_ends(i)
           \/ \E q \in WaitQ : task_block(q)
           \/ \E n \in SleepTicks : task_sleep(n)
  <2>1. PICK L, st : SwitchTo(L, st)
    BY <1>9 DEF exit_return, intr_handler_ends, task_exit, timer_switch,
                idle_task, intr, intr_go, iswitch, task_block, task_sleep
  <2>2. panic' # Inconsistent
    BY <1>1, <2>1 DEF SwitchTo, Inconsistent
  <2> QED
    BY <1>6, <1>9, <2>2, OthersAlone
<1>10. ASSUME NEW t \in EchoTask, task_unblock_named(t)
       PROVE  SemaInv'
  <2>1. t \in Task /\ panic' = panic
    BY <1>10, SchedAssumption DEF task_unblock_named, Unblock
  <2>2. CASE WaitsForSema(t)
    BY <1>10, <2>2 DEF task_unblock_named, SemaInv
  <2>3. CASE ~ WaitsForSema(t)
    <3>1. ASSUME NEW s \in Sema
          PROVE  links.owner[t] # s \/ state[t] # "TS_BLOCKED"
      BY <1>1, <2>1, <2>3 DEF SemaAt, WaitsForSema
    <3> QED
      BY <1>1, <1>6, <1>10, <2>1, <3>1, NamedAlone
  <2> QED
    BY <2>2, <2>3
<1> QED
  BY <1>2, <1>3, <1>4, <1>5, <1>7, <1>8, <1>9, <1>10 DEF Next

LEMMA SemaNext == ASSUME Inv, SemaInv, [Next]_vars PROVE SemaInv'
<1>1. CASE "named" \in astray
  BY <1>1, AstrayKeeps DEF SemaInv
<1>2. CASE Sound
  BY <1>2, SoundNext
<1> QED
  BY <1>1, <1>2 DEF SemaInv

\* The invariant says that the semaphores are sound.
LEMMA SemaSound == Inv /\ SemaInv => SemaphoresSound /\ NoSchedulerPanic
<1> SUFFICES ASSUME Inv, SemaInv PROVE SemaphoresSound /\ NoSchedulerPanic
  OBVIOUS
<1>1. panic \in Message /\ panic # "No runnable tasks!"
  BY Start
<1>2. CASE "named" \in astray
  BY <1>1, <1>2 DEF Message, NoSchedulerPanic, SemaphoresSound
<1>3. CASE Sound
  <2>1. CountMatchesQueue
    BY <1>3 DEF Sound, SemaAt, CountMatchesQueue
  <2>2. MutualExclusion
    <3> SUFFICES ASSUME NEW t \in Task, NEW u \in Task, NEW s,
                        s \in cs[t] \cap cs[u]
                 PROVE  t = u
      BY DEF MutualExclusion
    <3>1. s \in Sema
      BY Start DEF RestTyped
    <3>2. t \in Inside(s) /\ u \in Inside(s)
      BY DEF Inside
    <3> QED
      BY <1>3, <3>1, <3>2 DEF Sound, SemaAt
  <2>3. NoSchedulerPanic
    BY <1>1, <1>3, Start DEF Message, NoSchedulerPanic, Sound, Inconsistent
  <2> QED
    BY <2>1, <2>2, <2>3 DEF SemaphoresSound
<1> QED
  BY <1>2, <1>3 DEF SemaInv

\* Two tasks are never in the same critical section, and the count of a
\* semaphore is the number of tasks that wait: sema_down and sema_up, which
\* decide by the count alone, are right whatever switches, interrupts and
\* wakeups come in between, until a task that waits is unblocked by name.
THEOREM CriticalSectionsExclude == Spec => []SemaphoresSound
<1>1. Init => Inv /\ SemaInv
  BY InitInv, SemaInit
<1>2. Inv /\ SemaInv /\ [Next]_vars => (Inv /\ SemaInv)'
  BY NextInv, SemaNext
<1>3. Inv /\ SemaInv => SemaphoresSound
  BY SemaSound
<1> QED
  BY <1>1, <1>2, <1>3, PTL DEF Spec

\* The scheduler never panics because nothing is runnable, nor, until a
\* task that waits is unblocked by name, because a semaphore's queue does
\* not agree with its count.
THEOREM SchedulerNeverPanics == Spec => []NoSchedulerPanic
<1>1. Init => Inv /\ SemaInv
  BY InitInv, SemaInit
<1>2. Inv /\ SemaInv /\ [Next]_vars => (Inv /\ SemaInv)'
  BY NextInv, SemaNext
<1>3. Inv /\ SemaInv => NoSchedulerPanic
  BY SemaSound
<1> QED
  BY <1>1, <1>2, <1>3, PTL DEF Spec
-----------------------------------------------------------------------------
(***************************************************************************)
(* Sleepers.  task_sleep does not keep the list in the order of due: it    *)
(* puts a task before the head or at the end.  That is the order as long   *)
(* as all tasks sleep for the same time, the clock does not wrap, and then *)
(* task_wake, which looks at the head alone, misses nobody.                *)
(***************************************************************************)

Sleepers == Contents(links, Sleeping)

\* The times D of s are in order, and from lo to hi.
InOrderOf(s, D) == \A i, j \in 1..Len(s) : i <= j => D[s[i]] <= D[s[j]]
Between(s, D, lo, hi) == \A i \in 1..Len(s) : lo <= D[s[i]] /\ D[s[i]] <= hi

\* Only the timer handler finds a sleeper whose tick has come.
Soonest == IF cpu = "task" THEN tickcnt + 1 ELSE tickcnt

SleepInv(k) ==
    /\ InOrderOf(Sleepers, due) /\ Between(Sleepers, due, Soonest, tickcnt + k)
    /\ tickcnt <= MaxTick

\* One of s may be missing from z, the others are as they were.
Thins(s, z) == z = s \/ \E m \in 1..Len(s) : z = Without(s, m)

\* What takes at most one task off the sleeping queue, and puts none on it.
KeepsSleepers ==
    /\ Thins(Sleepers, Contents(links', Sleeping))
    /\ tickcnt' = tickcnt /\ cpu' = cpu
    /\ \A t \in Task : links.owner[t] = Sleeping => due'[t] = due[t]

\* What Without leaves are the elements before k and those after it.
LEMMA WithoutHas ==
    ASSUME NEW s \in Seq(Task), NEW k \in 1..Len(s)
    PROVE  /\ Without(s, k) \in Seq(Task) /\ Len(Without(s, k)) = Len(s) - 1
           /\ \A i \in 1..(Len(s) - 1) :
                 Without(s, k)[i] = IF i < k THEN s[i] ELSE s[i+1]
<1>1. PICK n \in Nat : n = Len(s)
  BY LenProperties
<1>2. PICK z : z = [i \in 1..(n - 1) |-> IF i < k THEN s[i] ELSE s[i+1]]
  OBVIOUS
<1>3. k \in 1..n /\ n - 1 \in Nat
  BY <1>1
<1>4. z \in Seq(Task) /\ Len(z) = n - 1
      /\ \A i \in 1..(n - 1) : z[i] = IF i < k THEN s[i] ELSE s[i+1]
  <2>1. \A i \in 1..(n - 1) : (IF i < k THEN s[i] ELSE s[i+1]) \in Task
    BY <1>1, <1>3, InSeq
  <2>2. z \in [1..(n - 1) -> Task]
    BY <1>2, <2>1
  <2>3. z \in Seq(Task)
    BY <1>3, <2>2, SeqDef
  <2> QED
    BY <1>2, <1>3, <2>2, <2>3, LenProperties
<1>5. z = Without(s, k)
  <2>1. Len(z) = Len(s) - 1 /\ 1..Len(z) = 1..(n - 1)
    BY <1>1, <1>4
  <2>2. \A i \in 1..Len(z) : z[i] = IF i < k THEN s[i] ELSE s[i+1]
    BY <1>4, <2>1
  <2> QED
    BY <1>4, <2>1, <2>2, WithoutIs
<1> QED
  BY <1>1, <1>4, <1>5

\* What is left of an ordered queue is ordered.
LEMMA ThinnedInOrder ==
    ASSUME NEW s \in Seq(Task), NEW z, Thins(s, z), NEW D, NEW lo, NEW hi,
           InOrderOf(s, D), Between(s, D, lo, hi)
    PROVE  InOrderOf(z, D) /\ Between(z, D, lo, hi)
<1>1. CASE z = s
  BY <1>1
<1>2. ASSUME NEW m \in 1..Len(s), z = Without(s, m)
      PROVE  InOrderOf(z, D) /\ Between(z, D, lo, hi)
  <2>1. PICK n \in Nat : n = Len(s)
    BY LenProperties
  <2>2. /\ Len(z) = n - 1 /\ m \in 1..n
        /\ \A i \in 1..(n - 1) : z[i] = IF i < m THEN s[i] ELSE s[i+1]
    BY <1>2, <2>1, WithoutHas
  <2>3. PICK up : up = [i \in 1..(n - 1) |-> IF i < m THEN i ELSE i + 1]
    OBVIOUS
  <2>4. \A i \in 1..(n - 1) : up[i] \in 1..n /\ z[i] = s[up[i]]
    BY <2>2, <2>3
  <2>5. \A i, j \in 1..(n - 1) : i <= j => up[i] <= up[j]
    BY <2>2, <2>3
  <2>6. /\ \A i, j \in 1..n : i <= j => D[s[i]] <= D[s[j]]
        /\ \A i \in 1..n : lo <= D[s[i]] /\ D[s[i]] <= hi
    BY <2>1 DEF InOrderOf, Between
  <2>9. Len(z) = n - 1 /\ \A i \in 1..(n - 1) : up[i] \in 1..n /\ z[i] = s[up[i]]
    BY <2>2, <2>4
  <2>7. InOrderOf(z, D)
    <3>1. ASSUME NEW i \in 1..(n - 1), NEW j \in 1..(n - 1), i <= j
          PROVE  D[z[i]] <= D[z[j]]
      BY <2>5, <2>6, <2>9, <3>1
    <3> QED
      BY <2>9, <3>1 DEF InOrderOf
  <2>8. Between(z, D, lo, hi)
    BY <2>6, <2>9 DEF Between
  <2> QED
    BY <2>7, <2>8
<1> QED
  BY <1>1, <1>2 DEF Thins

\* The invariant needs no more than that.
LEMMA SleepersKeep ==
    ASSUME Inv, NEW k, SleepInv(k), KeepsSleepers
    PROVE  SleepInv(k)'
<1>1. PICK L, s : L = links /\ s = Contents(L, Sleeping)
  OBVIOUS
<1>2. L \in Links /\ WellFormed(L) /\ Sleeping \in Queue
  BY <1>1, Start, Kinds
<1>3. s \in Seq(Task) /\ Ring(L, Sleeping, s)
  BY <1>1, <1>2, ContentsAreRing
<1>4. \A i \in 1..Len(s) : s[i] \in Task /\ L.owner[s[i]] = Sleeping
  BY <1>3, InSeq DEF Ring
<1>5. PICK E : E = due'
  OBVIOUS
<1>6. \A i \in 1..Len(s) : E[s[i]] = due[s[i]]
  BY <1>1, <1>4, <1>5 DEF KeepsSleepers
<1>7. PICK lo, hi : lo = Soonest /\ hi = tickcnt + k
  OBVIOUS
<1>8. InOrderOf(s, E) /\ Between(s, E, lo, hi)
  BY <1>1, <1>6, <1>7 DEF SleepInv, Sleepers, InOrderOf, Between
<1>9. PICK z : z = Contents(links', Sleeping)
  OBVIOUS
<1>10. Thins(s, z)
  BY <1>1, <1>9 DEF KeepsSleepers, Sleepers
<1>11. InOrderOf(z, E) /\ Between(z, E, lo, hi)
  BY <1>3, <1>8, <1>10, ThinnedInOrder
<1>12. Soonest' = lo /\ (tickcnt + k)' = hi /\ tickcnt' <= MaxTick
  BY <1>7 DEF Soonest, KeepsSleepers, SleepInv
<1> QED
  BY <1>5, <1>9, <1>11, <1>12 DEF SleepInv, Sleepers
-----------------------------------------------------------------------------
(* What the routines of taskq.c do to another queue                        *)

\* A task pushed elsewhere.
LEMMA PushElsewhere ==
    ASSUME Inv, NEW q \in Queue, q # Sleeping, NEW t \in Task,
           links.owner[t] = NULL
    PROVE  Thins(Sleepers, Contents(taskq_push(links, q, t), Sleeping))
<1>1. PICK L : L = links
  OBVIOUS
<1>2. PICK M : M = taskq_push(L, q, t)
  OBVIOUS
<1>3. L \in Links /\ WellFormed(L) /\ Sleeping \in Queue \ {q} /\ L.owner[t] = NULL
  BY <1>1, Start, Kinds
<1>4. Pushed(L, M, q, t)
  BY <1>2, <1>3, PushWellFormed
<1>5. Contents(M, Sleeping) = Contents(L, Sleeping)
  BY <1>3, <1>4 DEF Pushed
<1> QED
  BY <1>1, <1>2, <1>5 DEF Thins, Sleepers

\* A task taken off whatever queue it is on.
LEMMA DequeueAnywhere ==
    ASSUME Inv, NEW t \in Task
    PROVE  Thins(Sleepers, Contents(task_dequeue(links, t), Sleeping))
<1>1. PICK L : L = links
  OBVIOUS
<1>2. PICK M : M = task_dequeue(L, t)
  OBVIOUS
<1>3. L \in Links /\ WellFormed(L) /\ Sleeping \in Queue /\ Sleeping # NULL
  BY <1>1, Start, Kinds
<1>4. Unlinked(L, M, t)
  BY <1>2, <1>3, DequeueWellFormed
<1>5. CASE L.owner[t] = Sleeping
  BY <1>1, <1>2, <1>3, <1>4, <1>5 DEF Unlinked, Thins, Sleepers
<1>6. CASE L.owner[t] # Sleeping
  BY <1>1, <1>2, <1>3, <1>4, <1>6 DEF Unlinked, Thins, Sleepers
<1> QED
  BY <1>5, <1>6

\* A task moved from whatever queue it is on to another.
LEMMA MoveElsewhere ==
    ASSUME Inv, NEW q \in Queue, q # Sleeping, NEW t \in Task
    PROVE  Thins(Sleepers,
                 Contents(taskq_push(task_dequeue(links, t), q, t), Sleeping))
<1>1. PICK L : L = links
  OBVIOUS
<1>2. PICK D : D = task_dequeue(L, t)
  OBVIOUS
<1>3. PICK M : M = taskq_push(D, q, t)
  OBVIOUS
<1>4. L \in Links /\ WellFormed(L) /\ Sleeping \in Queue \ {q}
  BY <1>1, Start, Kinds
<1>5. D \in Links /\ WellFormed(D) /\ D.owner = [L.owner EXCEPT ![t] = NULL]
  BY <1>2, <1>4, DequeueWellFormed
<1>6. D.owner[t] = NULL
  BY <1>4, <1>5 DEF Links
<1>7. Pushed(D, M, q, t)
  BY <1>3, <1>5, <1>6, PushWellFormed
<1>8. Contents(M, Sleeping) = Contents(D, Sleeping)
  BY <1>4, <1>7 DEF Pushed
<1>9. Thins(Sleepers, Contents(D, Sleeping))
  BY <1>1, <1>2, DequeueAnywhere
<1> QED
  BY <1>1, <1>2, <1>3, <1>8, <1>9

\* The head of another queue moved.
LEMMA SetHeadElsewhere ==
    ASSUME NEW L \in Links, NEW q, q # Sleeping, NEW u
    PROVE  Contents(SetHead(L, q, u), Sleeping) = Contents(L, Sleeping)
<1>1. PICK M : M = SetHead(L, q, u)
  OBVIOUS
<1>2. M.owner = L.owner /\ M.next = L.next /\ M.head = [L.head EXCEPT ![q] = u]
  BY <1>1 DEF SetHead
<1>3. M.head[Sleeping] = L.head[Sleeping]
  BY <1>2, Kinds DEF Links
<1>4. Members(M, Sleeping) = Members(L, Sleeping)
  BY <1>2 DEF Members
<1> QED
  BY <1>1, <1>2, <1>3, <1>4 DEF Contents
-----------------------------------------------------------------------------
(* The actions that put nobody to sleep                                    *)

\* What moves no task.
LEMMA StillSleepers ==
    ASSUME \/ UNCHANGED vars \/ Panicked \/ task_start_fails \/ exit_mark
           \/ idle_task
           \/ \E s \in Sema : sema_down(s) \/ sema_down_resumes(s)
    PROVE  KeepsSleepers
<1>1. links' = links /\ tickcnt' = tickcnt /\ cpu' = cpu /\ due' = due
  BY DEF vars, taskvars, Panicked, task_start_fails, exit_mark, idle_task,
         SwitchTo, sema_down, sema_down_resumes
<1> QED
  BY <1>1 DEF KeepsSleepers, Thins, Sleepers

\* A task of the free list does not sleep.
LEMMA FreeSleepers ==
    ASSUME Inv,
           \/ task_from_proc \/ \E p \in StartPri : task_start(p)
           \/ \E i \in Irq : intr_add_handler(i)
    PROVE  KeepsSleepers
<1>1. PICK t : t = Head(freel)
  OBVIOUS
<1>2. freel \in Seq(Task) /\ freel # <<>>
  BY Start DEF RestTyped, task_from_proc, task_start, intr_add_handler
<1>3. t = freel[1] /\ 1 \in 1..Len(freel)
  BY <1>1, <1>2
<1>4. t \in Task /\ links.owner[t] = NULL
  BY <1>3, FreeTasks
<1>5. CASE task_from_proc \/ \E p \in StartPri : task_start(p)
  <2>1. PICK p \in Pri : \E b : Launch(t, p, b)
    BY <1>1, <1>5, Kinds, Interrupts DEF task_from_proc, task_start
  <2>2. /\ links' = taskq_push(links, p, t) /\ tickcnt' = tickcnt /\ cpu' = cpu
        /\ due' = due
    BY <2>1 DEF Launch
  <2>3. p \in Queue /\ p # Sleeping
    BY Kinds
  <2> QED
    BY <1>4, <2>2, <2>3, PushElsewhere DEF KeepsSleepers
<1>6. CASE \E i \in Irq : intr_add_handler(i)
  <2>1. /\ links' = links /\ tickcnt' = tickcnt /\ cpu' = cpu
        /\ due' = [due EXCEPT ![t] = 0]
    BY <1>1, <1>6 DEF intr_add_handler
  <2>2. due \in [Task -> Nat] /\ NULL # Sleeping
    BY Start, Kinds DEF RestTyped
  <2> QED
    BY <1>4, <2>1, <2>2 DEF KeepsSleepers, Thins, Sleepers
<1> QED
  BY <1>5, <1>6

\* A task that ends is taken off its queue.
LEMMA ExitSleepers ==
    ASSUME Inv, exit_return \/ \E i \in Irq : intr_handler_ends(i)
    PROVE  KeepsSleepers
<1>1. links' = task_dequeue(links, curtask) /\ tickcnt' = tickcnt /\ cpu' = cpu
      /\ due' = due
  BY DEF exit_return, intr_handler_ends, task_exit, SwitchTo
<1> QED
  BY <1>1, Start, DequeueAnywhere DEF KeepsSleepers

\* A task that blocks, or waits for a semaphore, goes to another queue.
LEMMA BlockSleepers ==
    ASSUME Inv,
           \/ \E q \in WaitQ : task_block(q)
           \/ \E s \in Sema : sema_down_waits(s)
    PROVE  KeepsSleepers
<1>1. PICK q \in Queue : q # Sleeping
          /\ links' = taskq_push(task_dequeue(links, curtask), q, curtask)
  BY Kinds DEF task_block, sema_down_waits, SwitchTo
<1>2. tickcnt' = tickcnt /\ cpu' = cpu /\ due' = due
  BY DEF task_block, sema_down_waits, taskvars
<1> QED
  BY <1>1, <1>2, Start, MoveElsewhere DEF KeepsSleepers

\* So does a task that is woken, which may have been asleep.
LEMMA WakeSleepers ==
    ASSUME Inv,
           \/ \E q \in WaitQ : task_unblock(q)
           \/ \E t \in EchoTask : task_unblock_named(t)
           \/ \E s \in Sema : sema_up(s)
           \/ task_wake
    PROVE  KeepsSleepers
<1>1. tickcnt' = tickcnt /\ cpu' = cpu /\ due' = due
  BY DEF task_unblock, task_unblock_named, Unblock, sema_up, task_wake, taskvars
<1>2. CASE links' = links
  BY <1>1, <1>2 DEF KeepsSleepers, Thins, Sleepers
<1>3. CASE links' # links
  <2>1. PICK t \in Task : links' = ENQUEUE(task_dequeue(links, t), t)
    <3>1. \A q \in Queue : links.head[q] # NULL => links.head[q] \in Task
      BY Start, HeadOwned
    <3>2. CASE \/ \E q \in WaitQ : task_unblock(q)
               \/ \E t \in EchoTask : task_unblock_named(t)
      <4>1. PICK t \in Task \cup {NULL} : Unblock(t)
        <5>1. \A q \in WaitQ : links.head[q] \in Task \cup {NULL}
          BY <3>1, Kinds
        <5> QED
          BY <3>2, <5>1, SchedAssumption DEF task_unblock, task_unblock_named
      <4>2. t # NULL /\ links' = ENQUEUE(task_dequeue(links, t), t)
        BY <1>3, <4>1 DEF Unblock
      <4> QED
        BY <4>2
    <3>3. ASSUME NEW s \in Sema, sema_up(s)
          PROVE  \E t \in Task : links' = ENQUEUE(task_dequeue(links, t), t)
      <4>1. PICK t : t = links.head[s]
        OBVIOUS
      <4>2. t # NULL /\ links' = ENQUEUE(taskq_pop(links, s), t)
        BY <1>3, <3>3, <4>1 DEF sema_up
      <4>3. taskq_pop(links, s) = task_dequeue(links, t) /\ t \in Task
        BY <3>1, <4>1, <4>2, Start, Kinds, PopIsDequeue
      <4> QED
        BY <4>2, <4>3
    <3>4. CASE task_wake
      <4>1. PICK t : t = links.head[Sleeping]
        OBVIOUS
      <4>2. t # NULL /\ links' = ENQUEUE(task_dequeue(links, t), t)
        BY <3>4, <4>1 DEF task_wake, SleeperDue
      <4> QED
        BY <3>1, <4>1, <4>2, Kinds
    <3> QED
      BY <3>2, <3>3, <3>4
  <2>2. pri[t] \in Queue /\ pri[t] # Sleeping
    BY Start, Kinds
  <2> QED
    BY <1>1, <2>1, <2>2, MoveElsewhere DEF KeepsSleepers, ENQUEUE
<1> QED
  BY <1>2, <1>3

\* An interrupt starts a task that was on no queue, and a bucket rotates.
LEMMA IntrSleepers ==
    ASSUME Inv, NEW i \in Irq, intr(i)
    PROVE  KeepsSleepers
<1>1. PICK t : t = irqtask[i]
  OBVIOUS
<1>2. t # NULL /\ PicRaises(i) /\ "eoi" \notin astray
  BY <1>1 DEF intr
<1>3. ~ Serving(i)
  BY <1>2, Raised DEF Serving
<1>4. t \in Task /\ pri[t] = i /\ links.owner[t] = NULL
  BY <1>1, <1>2, <1>3, IrqTaskNow
<1>5. i \in Queue /\ i # Sleeping
  BY Kinds, Interrupts
<1>6. PICK N : N = taskq_push(links, i, t)
  OBVIOUS
<1>7. N \in Links
  BY <1>4, <1>5, <1>6, Start, PushWellFormed
<1>8. Thins(Sleepers, Contents(N, Sleeping))
  BY <1>4, <1>5, <1>6, PushElsewhere
<1>9. links' = SetHead(N, pri[curtask], N.next[curtask])
  BY <1>1, <1>4, <1>6 DEF intr, intr_go, iswitch, SwitchTo, ENQUEUE
<1>10. pri[curtask] # Sleeping
  BY Start, Kinds
<1>11. tickcnt' = tickcnt /\ cpu' = cpu /\ due' = due
  BY DEF intr, taskvars
<1> QED
  BY <1>7, <1>8, <1>9, <1>10, <1>11, SetHeadElsewhere DEF KeepsSleepers
-----------------------------------------------------------------------------
(* The timer, and going to sleep                                           *)

\* The clock ticks: a sleeper may be due now.
LEMMA TickSleepers ==
    ASSUME Inv, NEW k \in Nat, MaxTick + k < TickMod, SleepInv(k), timer_handler
    PROVE  SleepInv(k)'
<1>1. PICK s : s = Sleepers
  OBVIOUS
<1>2. PICK now \in Nat : now = tickcnt
  BY Start DEF RestTyped
<1>3. /\ now < MaxTick /\ cpu = "task" /\ cpu' = "timer" /\ due' = due
      /\ tickcnt' = (now + 1) % TickMod /\ Sleepers' = s
  BY <1>1, <1>2 DEF timer_handler, taskvars, Sleepers
<1>4. MaxTick \in Nat /\ TickMod \in Nat /\ TickMod > 0
  BY SchedAssumption
<1>5. tickcnt' = now + 1
  BY <1>3, <1>4
<1>6. InOrderOf(s, due) /\ Between(s, due, now + 1, now + k)
  BY <1>1, <1>2, <1>3 DEF SleepInv, Soonest
<1>7. s \in Seq(Task) /\ due \in [Task -> Nat]
  BY <1>1, Start, Kinds, ContentsAreRing DEF RestTyped, Sleepers
<1>8. \A i \in 1..Len(s) : due[s[i]] \in Nat
  BY <1>7, InSeq
<1>9. Between(s, due, now + 1, now + 1 + k)
  BY <1>6, <1>8 DEF Between
<1>10. Soonest' = now + 1 /\ tickcnt' <= MaxTick
  BY <1>3, <1>4, <1>5 DEF Soonest
<1> QED
  BY <1>3, <1>5, <1>6, <1>9, <1>10 DEF SleepInv

\* The timer handler ends with nobody due at the head, and so with nobody
\* due at all: the head is the first to be woken.
LEMMA SwitchSleepers ==
    ASSUME Inv, NEW k \in Nat, SleepInv(k), timer_switch
    PROVE  SleepInv(k)'
<1>1. PICK L, s : L = links /\ s = Contents(L, Sleeping)
  OBVIOUS
<1>2. L \in Links /\ WellFormed(L) /\ Sleeping \in Queue /\ due \in [Task -> Nat]
  BY <1>1, Start, Kinds DEF RestTyped
<1>3. s \in Seq(Task) /\ Ring(L, Sleeping, s)
  BY <1>1, <1>2, ContentsAreRing
<1>4. PICK now \in Nat : now = tickcnt
  BY Start DEF RestTyped
<1>5. /\ cpu = "timer" /\ cpu' = "task" /\ due' = due /\ tickcnt' = now
      /\ links' = SetHead(L, pri[curtask], L.next[curtask])
  BY <1>1, <1>4 DEF timer_switch, taskvars, iswitch, SwitchTo
<1>6. L.head[Sleeping] # NULL => due[L.head[Sleeping]] # now
  BY <1>1, <1>4 DEF timer_switch, SleeperDue
<1>7. InOrderOf(s, due) /\ Between(s, due, now, now + k) /\ now <= MaxTick
  BY <1>1, <1>4, <1>5 DEF SleepInv, Sleepers, Soonest
<1>8. Between(s, due, now + 1, now + k)
  <2> SUFFICES ASSUME NEW i \in 1..Len(s)
               PROVE  now + 1 <= due[s[i]] /\ due[s[i]] <= now + k
    BY DEF Between
  <2>1. 1 \in 1..Len(s) /\ 1 <= i /\ s # <<>>
    BY <1>3
  <2>2. s[1] \in Task /\ s[i] \in Task
    BY <1>3, <2>1, InSeq
  <2>3. L.head[Sleeping] = s[1] /\ s[1] # NULL
    BY <1>3, <2>1, <2>2, Kinds DEF Ring
  <2>4. due[s[1]] # now /\ now <= due[s[1]] /\ due[s[1]] <= due[s[i]]
    BY <1>6, <1>7, <2>1, <2>3 DEF InOrderOf, Between
  <2>5. due[s[1]] \in Nat /\ due[s[i]] \in Nat
    BY <1>2, <2>2
  <2>6. due[s[i]] <= now + k
    BY <1>7 DEF Between
  <2>7. now + 1 <= due[s[1]]
    BY <2>4, <2>5
  <2> QED
    BY <2>4, <2>5, <2>6, <2>7
<1>9. Sleepers' = s
  <2>1. pri[curtask] # Sleeping
    BY Start, Kinds
  <2> QED
    BY <1>1, <1>2, <1>5, <2>1, SetHeadElsewhere DEF Sleepers
<1>10. Soonest' = now + 1
  BY <1>5 DEF Soonest
<1> QED
  BY <1>5, <1>7, <1>8, <1>9, <1>10 DEF SleepInv

\* A task that goes to sleep is due last, and goes to the end.
LEMMA SleepSleepers ==
    ASSUME Inv, NEW k \in Nat \ {0}, MaxTick + k < TickMod, SleepInv(k),
           NEW n \in SleepTicks, (IF n = 0 THEN 1 ELSE n) = k, task_sleep(n)
    PROVE  SleepInv(k)'
<1>1. PICK L, s : L = links /\ s = Contents(L, Sleeping)
  OBVIOUS
<1>2. L \in Links /\ WellFormed(L) /\ Sleeping \in Queue /\ due \in [Task -> Nat]
  BY <1>1, Start, Kinds DEF RestTyped
<1>3. s \in Seq(Task) /\ Ring(L, Sleeping, s)
  BY <1>1, <1>2, ContentsAreRing
<1>4. PICK now \in Nat : now = tickcnt
  BY Start DEF RestTyped
<1>5. PICK t \in Task : t = curtask
  BY Start
<1>6. L.owner[t] \in Pri /\ L.owner[t] # Sleeping
  BY <1>1, <1>5, Start, Kinds
<1>7. cpu = "task" /\ cpu' = cpu /\ tickcnt' = now
  BY <1>4 DEF task_sleep, Ordinary, Running
<1>8. /\ InOrderOf(s, due) /\ Between(s, due, now + 1, now + k)
      /\ now <= MaxTick
  BY <1>1, <1>4, <1>7 DEF SleepInv, Sleepers, Soonest
<1>9. PICK d \in Nat : d = now + k
  OBVIOUS
<1>10. (now + k) % TickMod = d
  <2>1. MaxTick \in Nat /\ TickMod \in Nat /\ TickMod > 0
    BY SchedAssumption
  <2> QED
    BY <1>8, <1>9, <2>1
<1>11. PICK D : D = task_dequeue(L, t)
  OBVIOUS
<1>12. due' = [due EXCEPT ![t] = d] /\ links' = SleepInsert(D, t, d)
  BY <1>1, <1>4, <1>5, <1>10, <1>11 DEF task_sleep, SwitchTo
<1>13. /\ D \in Links /\ WellFormed(D) /\ D.owner = [L.owner EXCEPT ![t] = NULL]
       /\ Contents(D, Sleeping) = s
  <2>1. /\ D \in Links /\ WellFormed(D) /\ Unlinked(L, D, t)
        /\ D.owner = [L.owner EXCEPT ![t] = NULL]
    BY <1>2, <1>11, DequeueWellFormed
  <2> QED
    BY <1>1, <1>2, <1>6, <2>1 DEF Unlinked
<1>14. D.owner[t] = NULL
  BY <1>2, <1>13 DEF Links
<1>15. D.head[Sleeping] # NULL => ~ (d < due[D.head[Sleeping]])
  <2> SUFFICES ASSUME D.head[Sleeping] # NULL PROVE ~ (d < due[D.head[Sleeping]])
    OBVIOUS
  <2>1. Ring(D, Sleeping, s)
    BY <1>2, <1>13, ContentsAreRing
  <2>2. s # <<>> /\ D.head[Sleeping] = s[1]
    BY <2>1 DEF Ring
  <2>3. 1 \in 1..Len(s) /\ s[1] \in Task
    BY <1>3, <2>2
  <2>4. due[s[1]] \in Nat /\ due[s[1]] <= now + k
    BY <1>2, <1>8, <2>3 DEF Between
  <2> QED
    BY <1>9, <2>2, <2>4
<1>16. SleepInsert(D, t, d) = taskq_push(D, Sleeping, t)
  BY <1>13, <1>14, <1>15, SleepIsPush
<1>17. PICK z : z = Contents(links', Sleeping)
  OBVIOUS
<1>18. z = Append(s, t)
  <2>1. PICK M : M = taskq_push(D, Sleeping, t)
    OBVIOUS
  <2>2. Pushed(D, M, Sleeping, t)
    BY <1>2, <1>13, <1>14, <2>1, PushWellFormed
  <2> QED
    BY <1>12, <1>13, <1>16, <1>17, <2>1, <2>2 DEF Pushed
<1>19. PICK m \in Nat : m = Len(s)
  BY <1>3, LenProperties
<1>20. PICK E : E = due'
  OBVIOUS
<1>21. E[t] = d /\ \A i \in 1..m : E[s[i]] = due[s[i]] /\ due[s[i]] \in Nat
  <2>1. \A i \in 1..m : s[i] \in Task /\ s[i] # t
    BY <1>3, <1>6, <1>19, InSeq DEF Ring
  <2> QED
    BY <1>2, <1>12, <1>20, <2>1
<1>22. /\ Len(z) = m + 1 /\ z[m + 1] = t
       /\ \A i \in 1..m : z[i] = s[i]
  BY <1>3, <1>18, <1>19
<1>23. \A i \in 1..(m + 1) :
          /\ E[z[i]] \in Nat /\ now + 1 <= E[z[i]] /\ E[z[i]] <= d
          /\ i = m + 1 => E[z[i]] = d
  <2> TAKE i \in 1..(m + 1)
  <2>1. CASE i = m + 1
    BY <1>9, <1>21, <1>22, <2>1
  <2>2. CASE i # m + 1
    <3>1. i \in 1..m
      BY <2>2
    <3>2. now + 1 <= due[s[i]] /\ due[s[i]] <= now + k
      BY <1>8, <1>19, <3>1 DEF Between
    <3> QED
      BY <1>9, <1>21, <1>22, <2>2, <3>1, <3>2
  <2> QED
    BY <2>1, <2>2
<1>24. InOrderOf(z, E)
  <2> SUFFICES ASSUME NEW i \in 1..(m + 1), NEW j \in 1..(m + 1), i <= j
               PROVE  E[z[i]] <= E[z[j]]
    BY <1>22 DEF InOrderOf
  <2>1. CASE j = m + 1
    BY <1>23, <2>1
  <2>2. CASE j # m + 1
    <3>1. i \in 1..m /\ j \in 1..m
      BY <2>2
    <3>2. due[s[i]] <= due[s[j]]
      BY <1>8, <1>19, <3>1 DEF InOrderOf
    <3> QED
      BY <1>21, <1>22, <3>1, <3>2
  <2> QED
    BY <2>1, <2>2
<1>25. Between(z, E, now + 1, now + k)
  BY <1>9, <1>22, <1>23 DEF Between
<1>26. Soonest' = now + 1
  BY <1>7 DEF Soonest
<1> QED
  BY <1>7, <1>8, <1>17, <1>20, <1>24, <1>25, <1>26 DEF SleepInv, Sleepers
-----------------------------------------------------------------------------
\* At first nobody sleeps.
LEMMA SleepInit == ASSUME NEW k, Init PROVE SleepInv(k)
<1>1. PICK E : E = EmptyLinks
  OBVIOUS
<1>2. /\ E \in Links /\ WellFormed(E) /\ \A t \in Task : E.owner[t] = NULL
  BY <1>1, EmptyWellFormed DEF EmptyLinks
<1>3. Contents(E, Sleeping) = <<>>
  <2>1. Contents(E, Sleeping) \in Seq(Task) /\ Ring(E, Sleeping, Contents(E, Sleeping))
    BY <1>2, Kinds, ContentsAreRing
  <2>2. E.head[Sleeping] = NULL
    BY <1>1, Kinds DEF EmptyLinks
  <2>3. PICK s : s = Contents(E, Sleeping)
    OBVIOUS
  <2>4. s # <<>> => s[1] \in Task /\ E.head[Sleeping] = s[1]
    BY <2>1, <2>3 DEF Ring
  <2> QED
    BY <2>2, <2>3, <2>4, Kinds
<1>4. /\ Main \in Task /\ Idle \in Task /\ Idle # Main
      /\ PRI_NORM \in Queue /\ PRI_IDLE \in Queue
      /\ Sleeping \in Queue \ {PRI_NORM, PRI_IDLE}
  BY Kinds, Interrupts
<1>5. PICK M : M = taskq_push(E, PRI_NORM, Main)
  OBVIOUS
<1>6. /\ M \in Links /\ WellFormed(M) /\ M.owner = [E.owner EXCEPT ![Main] = PRI_NORM]
      /\ Pushed(E, M, PRI_NORM, Main)
  BY <1>2, <1>4, <1>5, PushWellFormed
<1>7. M.owner[Idle] = NULL
  BY <1>2, <1>4, <1>6 DEF Links
<1>8. PICK N : N = taskq_push(M, PRI_IDLE, Idle)
  OBVIOUS
<1>9. Pushed(M, N, PRI_IDLE, Idle)
  BY <1>4, <1>6, <1>7, <1>8, PushWellFormed
<1>10. Contents(N, Sleeping) = <<>>
  BY <1>3, <1>4, <1>6, <1>9 DEF Pushed
<1>11. links = N
  BY <1>1, <1>5, <1>8 DEF Init
<1>12. Sleepers = <<>> /\ Len(<<>>) = 0
  BY <1>10, <1>11 DEF Sleepers
<1>13. tickcnt <= MaxTick
  <2>1. MaxTick \in Nat
    BY SchedAssumption
  <2>2. tickcnt = 0
    BY DEF Init
  <2> QED
    BY <2>1, <2>2
<1> QED
  BY <1>12, <1>13 DEF SleepInv, InOrderOf, Between

\* The time that every task sleeps: a task that asks for 0 ticks sleeps one.
OneDelay(k) == /\ k \in Nat \ {0} /\ MaxTick + k < TickMod
               /\ \A n \in SleepTicks : (IF n = 0 THEN 1 ELSE n) = k

LEMMA SleepNext ==
    ASSUME Inv, NEW k, OneDelay(k), SleepInv(k), [Next]_vars
    PROVE  SleepInv(k)'
<1>1. k \in Nat \ {0} /\ k \in Nat /\ MaxTick + k < TickMod
  BY DEF OneDelay
<1>2. CASE timer_handler
  BY <1>1, <1>2, TickSleepers
<1>3. CASE timer_switch
  BY <1>3, <1>1, SwitchSleepers
<1>4. ASSUME NEW n \in SleepTicks, task_sleep(n) PROVE SleepInv(k)'
  <2>1. (IF n = 0 THEN 1 ELSE n) = k
    BY DEF OneDelay
  <2> QED
    BY <1>1, <1>4, <2>1, SleepSleepers
<1>5. CASE \/ UNCHANGED vars \/ Panicked \/ task_start_fails \/ exit_mark
           \/ idle_task
           \/ \E s \in Sema : sema_down(s) \/ sema_down_resumes(s)
  BY <1>5, StillSleepers, SleepersKeep
<1>6. CASE \/ task_from_proc \/ \E p \in StartPri : task_start(p)
           \/ \E i \in Irq : intr_add_handler(i)
  BY <1>6, FreeSleepers, SleepersKeep
<1>7. CASE exit_return \/ \E i \in Irq : intr_handler_ends(i)
  BY <1>7, ExitSleepers, SleepersKeep
<1>8. CASE \/ \E q \in WaitQ : task_block(q)
           \/ \E s \in Sema : sema_down_waits(s)
  BY <1>8, BlockSleepers, SleepersKeep
<1>9. CASE \/ \E q \in WaitQ : task_unblock(q)
           \/ \E t \in EchoTask : task_unblock_named(t)
           \/ \E s \in Sema : sema_up(s)
           \/ task_wake
  BY <1>9, WakeSleepers, SleepersKeep
<1>10. CASE \E i \in Irq : intr(i)
  BY <1>10, IntrSleepers, SleepersKeep
<1> QED
  BY <1>2, <1>3, <1>4, <1>5, <1>6, <1>7, <1>8, <1>9, <1>10 DEF Next

\* Who sleeps is one of the sleepers.
LEMMA NobodyOverdue == ASSUME Inv, NEW k, SleepInv(k) PROVE NoOverdueSleeper
<1> SUFFICES ASSUME cpu = "task", NEW t \in Members(links, Sleeping)
             PROVE  due[t] > tickcnt
  BY DEF NoOverdueSleeper
<1>1. PICK s : s = Sleepers
  OBVIOUS
<1>2. t \in Task /\ links.owner[t] = Sleeping
  BY DEF Members
<1>3. Ring(links, Sleeping, s) /\ tickcnt \in Nat /\ due[t] \in Nat
  BY <1>1, <1>2, Start, Kinds, ContentsAreRing DEF Sleepers, RestTyped
<1>4. PICK i \in 1..Len(s) : s[i] = t
  BY <1>2, <1>3 DEF Ring
<1>5. tickcnt + 1 <= due[t]
  BY <1>1, <1>4 DEF SleepInv, Between, Soonest
<1> QED
  BY <1>3, <1>5

\* A task whose tick has come is not left asleep: as long as all tasks sleep
\* for the same time and the clock does not wrap, the head of the queue, at
\* which task_wake looks, is the first to be woken, whatever wakes a sleeper
\* by name, interrupts or blocks in between.
THEOREM SleepersWakeInTime ==
    ASSUME NEW k, OneDelay(k)
    PROVE  Spec => []NoOverdueSleeper
<1>1. Init => Inv /\ SleepInv(k)
  BY InitInv, SleepInit
<1>2. Inv /\ SleepInv(k) /\ [Next]_vars => (Inv /\ SleepInv(k))'
  BY NextInv, SleepNext
<1>3. Inv /\ SleepInv(k) => NoOverdueSleeper
  BY NobodyOverdue
<1> QED
  BY <1>1, <1>2, <1>3, PTL DEF Spec
=============================================================================
