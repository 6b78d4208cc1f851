------------------------------- MODULE Sched --------------------------------
(***************************************************************************)
(* The preemptive scheduler of the kernel: kernel/sched/TASK.C, semap.c,   *)
(* tasksw.asm, and the interrupt tasks of kernel/INTR.C and INTRA.ASM.     *)
(*                                                                         *)
(* There is one CPU.  The code between a cli and the matching sti is one   *)
(* action; between two actions the timer or a device may interrupt.  The   *)
(* task that runs is curtask; what it does is any sequence of the calls    *)
(* the kernel offers, as long as it keeps the callers' discipline: a       *)
(* semaphore is used as a critical section (CS_ENTER, CS_LEAVE), the only  *)
(* use the kernel makes of one.                                            *)
(***************************************************************************)
EXTENDS TaskQ, Integers

CONSTANTS
    Main, Idle,         \* the first two tasks of the table (task_init)
    TableRest,          \* the others, in table order
    Pri,                \* the priorities in use; tqueue[p] is the queue p
    PRI_NORM, PRI_IDLE,
    StartPri,           \* the priorities given to task_start
    Sema,               \* a semaphore, which is also the queue s->blocked
    WaitQ,              \* the other blocked queues: readers, waiter, waitq...
    Sleeping,           \* the queue of sleeping tasks
    Irq,                \* the interrupts that get a handler
    IrqSema,            \* the semaphores that interrupt handlers take
    EchoTask,           \* tasks that are unblocked by name: task_unblock(t)
    SleepTicks,         \* the arguments of task_sleep
    TickMod,            \* tickcnt counts modulo TickMod (2^32)
    MaxTick             \* bound: no timer tick after this one

ASSUME SchedAssumption ==
    /\ Main \in Task /\ Idle \in Task /\ Main # Idle /\ IsFiniteSet(Task)
    /\ TableRest \in Seq(Task \ {Main, Idle})
    /\ \A i, j \in DOMAIN TableRest : TableRest[i] = TableRest[j] => i = j
    /\ Pri \subseteq Nat /\ PRI_NORM \in Pri /\ PRI_IDLE \in Pri
    /\ PRI_NORM < PRI_IDLE /\ \A p \in Pri : p <= PRI_IDLE
    /\ StartPri \subseteq Pri /\ PRI_IDLE \notin StartPri
    /\ Irq \subseteq 0..15 /\ Irq \cap {0, 2} = {} /\ Irq \subseteq Pri
    /\ PRI_NORM \notin Irq /\ PRI_IDLE \notin Irq /\ StartPri \cap Irq = {}
    /\ Queue = Pri \cup Sema \cup WaitQ \cup {Sleeping}
    /\ Pri \cap Sema = {} /\ Pri \cap WaitQ = {} /\ Sema \cap WaitQ = {}
    /\ Sleeping \notin Pri \cup Sema \cup WaitQ
    /\ Sema \cap {"none", "run", "exiting", "gone"} = {}
    /\ IrqSema \subseteq Sema /\ EchoTask \subseteq Task
    /\ TickMod \in Nat \ {0} /\ SleepTicks \subseteq Nat /\ MaxTick \in Nat

VARIABLES
    links,      \* the queues and the links of the tasks
    state,      \* task->state
    pri,        \* task->pri
    due,        \* task->due
    process,    \* task->process # NULL
    curtask,
    freel,      \* the free list from tsk_freel on
    tickcnt,
    count,      \* s->count
    last_owner, \* s->last_owner
    irqtask,    \* intrs[i].task
    isr,        \* the in-service bits of the two interrupt controllers
    astray,     \* history: what has gone astray in this behaviour
    cpu,        \* "task", or "timer": in the timer handler, interrupts off
    pc,         \* where a task is in the kernel
    cs,         \* the critical sections a task is in
    panic       \* the message of the panic that stopped the machine

semvars  == <<count, last_owner, cs>>
taskvars == <<pri, due, process, freel>>
irqvars  == <<irqtask, isr, astray>>
vars == <<links, state, curtask, tickcnt, cpu, pc, panic,
          semvars, taskvars, irqvars>>

State == {"TS_FREE", "TS_RUN", "TS_READY", "TS_BLOCKED", "TS_FREEING"}

\* pc[t] = s: t is inside sema_down(s), past task_yield_to.
\* "exiting": t has returned from _exit and is on its way to task_exit.
Place == {"none", "run", "exiting", "gone"} \cup Sema

\* "" while the machine runs, else what panic() has printed
Message == {"", "out of tasks or stack space", "No runnable tasks!",
            "semaphore: count not consistent with queue state"}

\* "eoi": the EOI of a handler has ended the interrupt of another handler,
\* one that waits for a semaphore.
\* "named": a task waiting for a semaphore was unblocked by name.
Stray == {"eoi", "named"}

TypeOK ==
    /\ links \in Links
    /\ state \in [Task -> State]
    /\ pri \in [Task -> Pri]
    /\ due \in [Task -> Nat]
    /\ process \in [Task -> BOOLEAN]
    /\ curtask \in Task
    /\ freel \in Seq(Task)
    /\ tickcnt \in Nat
    /\ count \in [Sema -> Int]
    /\ last_owner \in [Sema -> Task \cup {NULL}]
    /\ irqtask \in [Irq -> Task \cup {NULL}]
    /\ isr \subseteq 0..15
    /\ astray \subseteq Stray
    /\ cpu \in {"task", "timer"}
    /\ pc \in [Task -> Place]
    /\ cs \in [Task -> SUBSET Sema]
    /\ panic \in Message

-----------------------------------------------------------------------------
(* Choosing and switching to a task                                        *)

Busy(L) == \E p \in Pri : L.head[p] # NULL

\* task_runnable: the head of the first bucket that has one
task_runnable(L) ==
    L.head[CHOOSE p \in Pri : /\ L.head[p] # NULL
                              /\ \A r \in Pri : L.head[r] # NULL => p <= r]

\* swtosi: the chosen task runs.  L and st are the queues and the task
\* states as the code before the switch has left them.
SwitchTo(L, st) ==
    LET t == task_runnable(L) IN
    /\ links' = L
    /\ curtask' = IF Busy(L) THEN t ELSE curtask
    /\ state' = IF Busy(L) THEN [st EXCEPT ![t] = "TS_RUN"] ELSE st
    /\ panic' = IF Busy(L) THEN panic ELSE "No runnable tasks!"

\* fault: the bucket is not rotated
iswitch_in_place(L, st) == SwitchTo(L, [st EXCEPT ![curtask] = "TS_READY"])

\* iswitch: curtask is ready again and goes to the back of its bucket
iswitch(L, st) ==
    SwitchTo(SetHead(L, pri[curtask], L.next[curtask]),
             [st EXCEPT ![curtask] = "TS_READY"])

\* fault: every task is woken at the normal priority
ENQUEUE_norm(L, t) == taskq_push(L, PRI_NORM, t)

\* ENQUEUE: t goes to the back of the bucket of its priority
ENQUEUE(L, t) == taskq_push(L, pri[t], t)

\* curtask executes its own code, interrupts on
Running(t) == panic = "" /\ cpu = "task" /\ t = curtask /\ pc[t] = "run"

IsIrqTask(t) == \E i \in Irq : irqtask[i] = t

\* a task that may make any call: neither idle_task nor a handler
Ordinary(t) == Running(t) /\ t # Idle /\ ~ IsIrqTask(t)
-----------------------------------------------------------------------------
(* Creating and ending tasks                                               *)

\* task_init has run: its caller is the first task, and its state is still
\* the zero of the memset, TS_FREE.
Init ==
    /\ links = taskq_push(taskq_push(EmptyLinks, PRI_NORM, Main),
                          PRI_IDLE, Idle)
    /\ state = [t \in Task |-> IF t = Idle THEN "TS_READY" ELSE "TS_FREE"]
    /\ pri = [t \in Task |-> IF t = Idle THEN PRI_IDLE ELSE PRI_NORM]
    /\ due = [t \in Task |-> 0]
    /\ process = [t \in Task |-> FALSE]
    /\ curtask = Main
    /\ freel = TableRest
    /\ tickcnt = 0
    /\ count = [s \in Sema |-> 1]
    /\ last_owner = [s \in Sema |-> NULL]
    /\ irqtask = [i \in Irq |-> NULL]
    /\ isr = {}
    /\ astray = {}
    /\ cpu = "task"
    /\ pc = [t \in Task |-> IF t \in {Main, Idle} THEN "run" ELSE "none"]
    /\ cs = [t \in Task |-> {}]
    /\ panic = ""

\* a task of the free list starts at priority p: the part that task_start
\* and task_from_proc share.  The task is nobody else's between task_alloc
\* and ENQUEUE, so the two are one step.
Launch(t, p, isproc) ==
    /\ freel' = Tail(freel)
    /\ pri' = [pri EXCEPT ![t] = p]
    /\ process' = [process EXCEPT ![t] = isproc]
    /\ state' = [state EXCEPT ![t] = "TS_READY"]
    /\ pc' = [pc EXCEPT ![t] = "run"]
    /\ links' = taskq_push(links, p, t)
    /\ UNCHANGED <<due, curtask, tickcnt, cpu, panic, semvars, irqvars>>

task_start(p) ==
    /\ Ordinary(curtask)
    /\ freel # <<>>
    /\ Launch(Head(freel), p, FALSE)

\* task_start does not come back without a task
task_start_fails ==
    /\ Ordinary(curtask)
    /\ freel = <<>>
    /\ panic' = "out of tasks or stack space"
    /\ UNCHANGED <<links, state, curtask, tickcnt, cpu, pc, semvars, taskvars,
                   irqvars>>

\* task_from_proc returns NULL when the table is full, and nothing changes
task_from_proc ==
    /\ Ordinary(curtask)
    /\ freel # <<>>
    /\ Launch(Head(freel), PRI_NORM, TRUE)

\* fault: the task's priority is off by one
intr_add_handler_off_by_one(i) ==
    /\ Ordinary(curtask)
    /\ irqtask[i] = NULL
    /\ freel # <<>>
    /\ LET t == Head(freel) IN
       /\ irqtask' = [irqtask EXCEPT ![i] = t]
       /\ pri' = [pri EXCEPT ![t] = i + 1]
       /\ state' = [state EXCEPT ![t] = "TS_BLOCKED"]
    /\ freel' = Tail(freel)
    /\ UNCHANGED <<links, curtask, tickcnt, cpu, pc, due, process, panic,
                   semvars, isr, astray>>

\* intr_add_handler, with its task_reserve: the first handler of interrupt
\* i gets the interrupt a task of its own, at the interrupt's priority.
intr_add_handler(i) ==
    /\ Ordinary(curtask)
    /\ irqtask[i] = NULL
    /\ freel # <<>>
    /\ LET t == Head(freel) IN
       /\ irqtask' = [irqtask EXCEPT ![i] = t]
       /\ pri' = [pri EXCEPT ![t] = i]
       /\ process' = [process EXCEPT ![t] = FALSE]
       /\ due' = [due EXCEPT ![t] = 0]
       /\ state' = [state EXCEPT ![t] = "TS_BLOCKED"]
       /\ pc' = [pc EXCEPT ![t] = "none"]
    /\ freel' = Tail(freel)
    /\ UNCHANGED <<links, curtask, tickcnt, cpu, panic, semvars, isr, astray>>

\* _exit marks the task of the calling process; the task goes away later,
\* in the system call's return path.  Nothing keeps interrupts off between.
exit_mark ==
    /\ Ordinary(curtask)
    /\ process[curtask] /\ cs[curtask] = {}
    /\ process' = [process EXCEPT ![curtask] = FALSE]
    /\ state' = [state EXCEPT ![curtask] = "TS_FREEING"]
    /\ pc' = [pc EXCEPT ![curtask] = "exiting"]
    /\ UNCHANGED <<links, pri, due, freel, curtask, tickcnt, cpu, panic,
                   semvars, irqvars>>

\* task_exit: free the task if it is still marked, else leave it blocked
task_exit(t) ==
    LET freeing == state[t] = "TS_FREEING" IN
    /\ SwitchTo(task_dequeue(links, t),
                [state EXCEPT ![t] = IF freeing THEN "TS_FREE"
                                     ELSE "TS_BLOCKED"])
    /\ freel' = IF freeing THEN <<t>> \o freel ELSE freel

exit_return ==
    LET t == curtask IN
    /\ panic = "" /\ cpu = "task" /\ pc[t] = "exiting"
    /\ task_exit(t)
    /\ pc' = [pc EXCEPT ![t] = "gone"]
    /\ UNCHANGED <<pri, due, process, tickcnt, cpu, semvars, irqvars>>
-----------------------------------------------------------------------------
(* Blocking and waking                                                     *)

\* task_block: curtask leaves its bucket for the blocked queue q
task_block(q) ==
    LET t == curtask IN
    /\ Ordinary(t)
    /\ SwitchTo(taskq_push(task_dequeue(links, t), q, t),
                [state EXCEPT ![t] = "TS_BLOCKED"])
    /\ UNCHANGED <<tickcnt, cpu, pc, semvars, taskvars, irqvars>>

\* task_unblock(t): only a blocked task moves.  No switch happens here.
Unblock(t) ==
    LET blocked == t # NULL /\ state[t] = "TS_BLOCKED" IN
    /\ links' = IF blocked
                THEN ENQUEUE(task_dequeue(links, t), t)
                ELSE links
    /\ state' = IF blocked THEN [state EXCEPT ![t] = "TS_READY"] ELSE state
    /\ UNCHANGED <<curtask, tickcnt, cpu, pc, panic, semvars, taskvars,
                   irqtask, isr>>

\* task_unblock(q.head), by a task or by a handler
task_unblock(q) ==
    /\ Running(curtask) /\ curtask # Idle
    /\ Unblock(links.head[q])
    /\ UNCHANGED astray

\* t waits for a semaphore
WaitsForSema(t) == state[t] = "TS_BLOCKED" /\ pc[t] \in Sema

\* task_unblock(pc->echotask): the task is named, wherever it is blocked.
\* One that waits for a semaphore goes on as if it had been handed it.
task_unblock_named(t) ==
    /\ Running(curtask) /\ curtask # Idle /\ pc[t] # "none" /\ pc[t] # "gone"
    /\ Unblock(t)
    /\ astray' = IF WaitsForSema(t) THEN astray \cup {"named"} ELSE astray

\* fault: the last sleeper's next is not moved to the new one
SleepInsert_half_linked(L, t, d) ==
    LET p == L.head[Sleeping] IN
    IF p = NULL THEN taskq_push(L, Sleeping, t)
    ELSE [head  |-> [L.head EXCEPT ![Sleeping] = IF d < due[p] THEN t ELSE @],
          next  |-> [L.next EXCEPT ![t] = p],
          prev  |-> [L.prev EXCEPT ![t] = L.prev[p], ![p] = t],
          owner |-> [L.owner EXCEPT ![t] = Sleeping]]

\* task_sleep: the list starts with the task due first or so it is meant:
\* the loop never moves p on from the head.
SleepInsert(L, t, d) ==
    LET p == L.head[Sleeping] IN
    IF p = NULL THEN taskq_push(L, Sleeping, t)
    ELSE [head  |-> [L.head EXCEPT ![Sleeping] = IF d < due[p] THEN t ELSE @],
          next  |-> [L.next EXCEPT ![t] = p, ![L.prev[p]] = t],
          prev  |-> [L.prev EXCEPT ![t] = L.prev[p], ![p] = t],
          owner |-> [L.owner EXCEPT ![t] = Sleeping]]

task_sleep(n) ==
    LET t == curtask
        d == (tickcnt + (IF n = 0 THEN 1 ELSE n)) % TickMod
    IN
    /\ Ordinary(t)
    /\ due' = [due EXCEPT ![t] = d]
    /\ SwitchTo(SleepInsert(task_dequeue(links, t), t, d),
                [state EXCEPT ![t] = "TS_BLOCKED"])
    /\ UNCHANGED <<tickcnt, cpu, pc, pri, process, freel, semvars, irqvars>>
-----------------------------------------------------------------------------
(* Semaphores                                                              *)

MayTake(t, s) == /\ Running(t) /\ t # Idle /\ s \notin cs[t]
                 /\ IsIrqTask(t) => s \in IrqSema

\* fault: a count of zero lets one more task in
Available_at_zero(s) == count[s] >= 0

\* a unit of s is left: sema_down need not wait
Available(s) == count[s] > 0

\* sema_down that finds the count positive.  (Its search of s->blocked for
\* curtask finds nothing: curtask is owned by its bucket, RunQueueExact.)
sema_down(s) ==
    LET t == curtask IN
    /\ MayTake(t, s)
    /\ Available(s)
    /\ count' = [count EXCEPT ![s] = @ - 1]
    /\ last_owner' = [last_owner EXCEPT ![s] = t]
    /\ cs' = [cs EXCEPT ![t] = @ \cup {s}]
    /\ UNCHANGED <<links, state, curtask, tickcnt, cpu, pc, panic, taskvars,
                   irqvars>>

\* sema_down that has to wait, up to the switch
sema_down_waits(s) ==
    LET t == curtask IN
    /\ MayTake(t, s)
    /\ ~ Available(s)
    /\ count' = [count EXCEPT ![s] = @ - 1]
    /\ pc' = [pc EXCEPT ![t] = s]
    /\ SwitchTo(taskq_push(task_dequeue(links, t), s, t),
                [state EXCEPT ![t] = "TS_BLOCKED"])
    /\ UNCHANGED <<tickcnt, cpu, last_owner, cs, taskvars, irqvars>>

\* sema_down comes back from its switch
sema_down_resumes(s) ==
    LET t == curtask IN
    /\ panic = "" /\ cpu = "task" /\ pc[t] = s
    /\ last_owner' = [last_owner EXCEPT ![s] = t]
    /\ cs' = [cs EXCEPT ![t] = @ \cup {s}]
    /\ pc' = [pc EXCEPT ![t] = "run"]
    /\ UNCHANGED <<links, state, curtask, tickcnt, cpu, panic, count, taskvars,
                   irqvars>>

\* faults: the last waiter is not woken; the count is tested before it is
\* raised
SemaWakes_not_last(s)  == count[s] + 1 < 0
SemaWakes_old_count(s) == count[s] <= 0

\* someone waits for s, going by the count once it is raised
SemaWakes(s) == count[s] + 1 <= 0

\* sema_up hands the semaphore to the task at the head of its queue
sema_up(s) ==
    LET next == links.head[s]
        wake == SemaWakes(s)
    IN
    /\ Running(curtask) /\ s \in cs[curtask]
    /\ count' = [count EXCEPT ![s] = @ + 1]
    /\ cs' = [cs EXCEPT ![curtask] = @ \ {s}]
    /\ links' = IF wake /\ next # NULL
                THEN ENQUEUE(taskq_pop(links, s), next)
                ELSE links
    /\ state' = IF wake /\ next # NULL
                THEN [state EXCEPT ![next] = "TS_READY"] ELSE state
    /\ panic' = IF wake /\ next = NULL
                THEN "semaphore: count not consistent with queue state"
                ELSE panic
    /\ last_owner' = [last_owner EXCEPT ![s] = NULL]
    /\ UNCHANGED <<curtask, tickcnt, cpu, pc, taskvars, irqvars>>
-----------------------------------------------------------------------------
(* Interrupts                                                              *)

\* the timer interrupts: interrupts stay off until timer_switch
timer_handler ==
    /\ panic = "" /\ cpu = "task" /\ tickcnt < MaxTick
    /\ tickcnt' = (tickcnt + 1) % TickMod
    /\ cpu' = "timer"
    /\ UNCHANGED <<links, state, curtask, pc, panic, semvars, taskvars,
                   irqvars>>

\* fault: a sleeper is woken one tick late
SleeperDueLate == /\ links.head[Sleeping] # NULL
                  /\ due[links.head[Sleeping]] < tickcnt

\* one turn of the loop of task_wake
SleeperDue == /\ links.head[Sleeping] # NULL
              /\ due[links.head[Sleeping]] = tickcnt

task_wake ==
    LET p == links.head[Sleeping] IN
    /\ panic = "" /\ cpu = "timer" /\ SleeperDue
    /\ links' = ENQUEUE(task_dequeue(links, p), p)
    /\ state' = [state EXCEPT ![p] = "TS_READY"]
    /\ UNCHANGED <<curtask, tickcnt, cpu, pc, panic, semvars, taskvars,
                   irqvars>>

\* nobody left to wake: the handler ends in iswitch
timer_switch ==
    /\ panic = "" /\ cpu = "timer" /\ ~ SleeperDue
    /\ cpu' = "task"
    /\ iswitch(links, state)
    /\ UNCHANGED <<tickcnt, pc, semvars, taskvars, irqvars>>

\* The controllers, two 8259s in fully nested mode, the second behind line
\* 2 of the first: whether i gets through, the bits it sets, and what the
\* nonspecific EOI of intr_eoi clears.
Lowest(S) == CHOOSE i \in S : \A j \in S : i <= j
Master(S) == S \cap 0..7
Slave(S)  == S \cap 8..15
Line(i)   == IF i < 8 THEN i ELSE 2

PicRaises(i) == /\ \A j \in Master(isr) : Line(i) < j
                /\ i >= 8 => \A j \in Slave(isr) : i < j
PicEoi(S)    == IF S = {} THEN S ELSE S \ {Lowest(S)}

\* fault: the first controller is told twice
intr_eoi_twice(i) == isr' = PicEoi(PicEoi(Master(isr))) \cup
                            (IF i >= 8 THEN PicEoi(Slave(isr)) ELSE Slave(isr))

intr_eoi(i) == isr' = PicEoi(Master(isr)) \cup
                      (IF i >= 8 THEN PicEoi(Slave(isr)) ELSE Slave(isr))

\* fault: no switch
intr_go_stays(t) ==
    /\ links' = ENQUEUE(links, t)
    /\ state' = [state EXCEPT ![t] = "TS_READY"]
    /\ UNCHANGED <<curtask, panic>>

\* intr_go: task_sch_async starts t anew, then curtask gives up the CPU
intr_go(t) == iswitch(ENQUEUE(links, t),
                      [state EXCEPT ![t] = "TS_READY"])

\* interrupt i gets through and starts its task.  Once an EOI has gone
\* astray no more interrupts are followed: one could start a task anew that
\* has not ended, in the middle of its own stack.
intr(i) ==
    LET t == irqtask[i] IN
    /\ panic = "" /\ cpu = "task" /\ t # NULL
    /\ PicRaises(i) /\ "eoi" \notin astray
    /\ isr' = isr \cup {i, Line(i)}
    /\ pc' = [pc EXCEPT ![t] = "run"]
    /\ intr_go(t)
    /\ UNCHANGED <<tickcnt, cpu, semvars, taskvars, irqtask, astray>>

\* the EOI of i clears the bit of a handler that waits for a semaphore, or
\* has been handed it and not run since
EndsOther(i) == \E j \in Irq \ {i} : /\ j \in isr \ isr'
                                      /\ irqtask[j] # NULL
                                      /\ pc[irqtask[j]] \in Sema

\* the end of intr_handler: cli, EOI, and the return into task_exit
intr_handler_ends(i) ==
    LET t == irqtask[i] IN
    /\ t = curtask /\ Running(t) /\ cs[t] = {}
    /\ intr_eoi(i)
    /\ astray' = IF EndsOther(i) THEN astray \cup {"eoi"} ELSE astray
    /\ task_exit(t)
    /\ pc' = [pc EXCEPT ![t] = "none"]
    /\ UNCHANGED <<pri, due, process, tickcnt, cpu, semvars, irqtask>>

\* idle_task after hlt: task_yield_to(task_runnable()), with interrupts on
\* and without taking itself off its bucket
idle_task ==
    /\ Running(Idle)
    /\ SwitchTo(links, state)
    /\ UNCHANGED <<tickcnt, cpu, pc, semvars, taskvars, irqvars>>

\* panic() does not return
Panicked == panic # "" /\ UNCHANGED vars
-----------------------------------------------------------------------------
Next ==
    \/ \E p \in StartPri : task_start(p)
    \/ task_start_fails \/ task_from_proc \/ exit_mark \/ exit_return
    \/ \E i \in Irq : intr_add_handler(i) \/ intr(i) \/ intr_handler_ends(i)
    \/ \E q \in WaitQ : task_block(q) \/ task_unblock(q)
    \/ \E t \in EchoTask : task_unblock_named(t)
    \/ \E n \in SleepTicks : task_sleep(n)
    \/ \E s \in Sema : \/ sema_down(s) \/ sema_down_waits(s)
                       \/ sema_down_resumes(s) \/ sema_up(s)
    \/ timer_handler \/ task_wake \/ timer_switch
    \/ idle_task \/ Panicked

Spec == Init /\ [][Next]_vars
-----------------------------------------------------------------------------
(* Safety                                                                  *)

\* Every queue is one well linked ring, in every state the kernel reaches:
\* no call pushes a task that is still linked elsewhere (taskq.c).
QueuesAreRings == \A q \in Queue : Ring(links, q, Contents(links, q))

\* A task is in a bucket of the run queue if and only if it can run, and
\* the bucket is that of its priority: a ready task outside would never run
\* again, a blocked one inside would be switched to (task_runnable).
RunQueueExact ==
    \A t \in Task :
        /\ links.owner[t] \in Pri =>
              links.owner[t] = pri[t] /\ (t = curtask \/ state[t] = "TS_READY")
        /\ t = curtask \/ state[t] = "TS_READY" => links.owner[t] = pri[t]

\* The running task is at the head of its bucket: iswitch overwrites that
\* head with curtask->next and would drop tasks if it were not.
CurtaskHeadsBucket == links.head[pri[curtask]] = curtask

\* Idle runs only when nothing else can: idle_task yields with interrupts
\* on and stays in its bucket, which is sound only if it yields to itself.
IdleOnlyWhenIdle ==
    cpu = "task" /\ curtask = Idle =>
        \A p \in Pri \ {PRI_IDLE} : links.head[p] = NULL

\* A semaphore's negative count is the number of tasks on its queue.
CountMatchesQueue ==
    \A s \in Sema : Cardinality(Members(links, s)) =
                     IF count[s] < 0 THEN -count[s] ELSE 0

\* Two tasks are never in the same critical section.
MutualExclusion ==
    \A t, u \in Task : t # u => cs[t] \cap cs[u] = {}

\* sema_down and sema_up decide by the sign of the count alone: the count
\* tells who waits, and nobody is let in while another is inside; until a
\* task that waits is unblocked by name.
SemaphoresSound ==
    "named" \notin astray => CountMatchesQueue /\ MutualExclusion

\* None of the scheduler's own panics happens, and only a full task table
\* stops the machine, until a task that waits is unblocked by name: then the
\* queue may be empty when the count says that somebody waits.
NoSchedulerPanic ==
    panic \in {"", "out of tasks or stack space"} \cup
              (IF "named" \in astray
               THEN {"semaphore: count not consistent with queue state"}
               ELSE {})

\* An interrupt that gets through the controllers finds its task finished:
\* task_sch_async overwrites the task's stack and pushes it, whatever it
\* was doing.  That is so until one handler ends the interrupt of another,
\* which waits for a semaphore (the EOI in INTR.C is nonspecific).
IrqTaskIsFree ==
    \A i \in Irq : irqtask[i] # NULL /\ PicRaises(i) =>
        \/ "eoi" \in astray
        \/ /\ links.owner[irqtask[i]] = NULL
           /\ state[irqtask[i]] = "TS_BLOCKED"
           /\ pc[irqtask[i]] = "none"

\* Every sleeper is still due: a task whose tick has come was woken by that
\* tick (task_wake).
NoOverdueSleeper ==
    cpu = "task" => \A t \in Members(links, Sleeping) : due[t] > tickcnt

\* A task that went through task_exit after _exit is back on the free list.
ExitedTaskIsFree == \A t \in Task : pc[t] = "gone" => state[t] = "TS_FREE"

\* "0-15 are hardware interrupts, same priority as PIC": an interrupt that
\* the controllers let through starts its handler at once.
InterruptRunsAtOnce ==
    [][\A i \in Irq : i \in isr' \ isr => curtask' = irqtask[i]]_vars
-----------------------------------------------------------------------------
(* Liveness                                                                *)

TimerStep == timer_handler \/ task_wake \/ timer_switch

\* The timer keeps ticking, and a task that is given the CPU again and again
\* gets to leave its critical section or to end its handler.
Fairness ==
    /\ WF_vars(TimerStep)
    /\ \A t \in Task, s \in Sema :
          /\ SF_vars(curtask = t /\ sema_up(s))
          /\ SF_vars(curtask = t /\ sema_down_resumes(s))
    /\ \A i \in Irq : SF_vars(intr_handler_ends(i))

LiveSpec == Spec /\ Fairness

\* Round robin: a ready task is not passed over for ever.
ReadyRuns ==
    \A t \in Task \ {Idle} :
        state[t] = "TS_READY" ~> (state[t] # "TS_READY" \/ panic # "")

\* A task that waits for a critical section gets into it.
WaiterEnters ==
    \A t \in Task, s \in Sema : pc[t] = s ~> (s \in cs[t] \/ panic # "")
=============================================================================
