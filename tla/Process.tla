------------------------------- MODULE Process ------------------------------
(***************************************************************************)
(* Processes: kernel/PROCESS.C, exec of kernel/EXEC.C, and the system call *)
(* path of kernel/SCDSP.ASM with its kernel stacks.                        *)
(*                                                                         *)
(* Any task that is not blocked may run next (Sched has the scheduler).    *)
(* What happens with interrupts off or inside critsect is one step; exec,  *)
(* exit and wait are several, since a timer tick may come in between.      *)
(* The descriptors of a process are in Files.  What the timer does to a    *)
(* task that is already marked TS_FREEING is in Sched (exit_mark).         *)
(***************************************************************************)
EXTENDS Naturals, Sequences, FiniteSets

CONSTANTS
    MAX_PROCESS,
    KSTACKS,    \* the kernel stacks of sc_init: 4
    Thread,       \* the task table
    Kernel,     \* the kernel task that starts the first shell
    Shells,     \* the slots whose programs call exec and wait
    DupFails,   \* dup_handles may fail: the open file table is full
    MaxPid,     \* bound: no exec after this many
    NoProc

Slot == 0 .. MAX_PROCESS - 1

ASSUME ProcessAssumption ==
    /\ MAX_PROCESS \in Nat \ {0} /\ KSTACKS \in Nat /\ MaxPid \in Nat
    /\ Kernel \in Thread /\ Shells \subseteq Slot /\ DupFails \in BOOLEAN
    /\ NoProc \notin Thread \cup Nat

VARIABLES
    proc,       \* the table: [pid, parent, task, zombie, image]
    waitq,      \* proc[i].waitq
    nextpid,
    process,    \* task->process
    freeing,    \* task->state = TS_FREEING
    pc,         \* where a task is
    at,         \* the slot that a call of the task works on
    child,      \* in exec the new task, in _exit the task to be ended
    images,     \* the pids whose program is in memory
    freestk,    \* the number of free kernel stacks
    halted

procvars == <<proc, waitq, nextpid, process, freeing, pc, at, child, images,
          freestk, halted>>

\* "free": in the free list.  "user": in its program.  "stuck": task_exit
\* found it not marked and has left it blocked, on no queue.
Place == {"free", "user", "exec", "allocated", "started", "linked", "wait",
          "blocked", "reap", "exit", "marking", "exiting", "stuck", "done"}

InCall == {"exec", "allocated", "started", "linked", "wait", "blocked",
           "reap", "exit", "marking", "exiting"}

ProcInit ==
    /\ proc = [i \in Slot |-> [pid |-> 0, parent |-> NoProc, task |-> NoProc,
                               zombie |-> FALSE, image |-> NoProc]]
    /\ waitq = [i \in Slot |-> <<>>]
    /\ nextpid = 1
    /\ process = [t \in Thread |-> NoProc]
    /\ freeing = [t \in Thread |-> FALSE]
    /\ pc = [t \in Thread |-> IF t = Kernel THEN "exec" ELSE "free"]
    /\ at = [t \in Thread |-> NoProc]
    /\ child = [t \in Thread |-> NoProc]
    /\ images = {}
    /\ freestk = KSTACKS
    /\ halted = FALSE

Goto(t, place) == pc' = [pc EXCEPT ![t] = place]

\* proc_free, without the files: slot i of the table P is given up, and the
\* image it names is freed
proc_free(P, i) ==
    /\ proc' = [P EXCEPT ![i].image = NoProc, ![i].task = NoProc,
                         ![i].zombie = FALSE, ![i].pid = 0]
    /\ images' = images \ {P[i].image}
-----------------------------------------------------------------------------
(* System calls                                                            *)

\* the system calls about processes, of the table that sc_disp looks into
Calls == {"exec", "wait", "exit"}

\* disp: a call takes a kernel stack, or the machine stops
disp(t, call) ==
    /\ ~ halted /\ pc[t] = "user"
    /\ call # "exit" => process[t] \in Shells
    /\ call = "exec" => nextpid <= MaxPid
    /\ IF freestk = 0
       THEN halted' = TRUE /\ UNCHANGED <<freestk, pc>>
       ELSE /\ freestk' = freestk - 1 /\ Goto(t, call)
            /\ UNCHANGED halted
    /\ UNCHANGED <<proc, waitq, nextpid, process, freeing, at, child, images>>

\* fault: the stack is not given back
Return_keeps_stack(t) == Goto(t, IF t = Kernel THEN "done" ELSE "user")
                         /\ UNCHANGED freestk

\* a call returns to the program; the kernel's own exec has no stack to
\* give back
Return(t) ==
    IF t = Kernel THEN Goto(t, "done") /\ UNCHANGED freestk
    ELSE Goto(t, "user") /\ freestk' = freestk + 1
-----------------------------------------------------------------------------
(* exec                                                                    *)

\* the file cannot be opened, read or relocated, or there is no slot
exec_fails(t) ==
    /\ ~ halted /\ pc[t] = "exec"
    /\ Return(t)
    /\ UNCHANGED <<proc, waitq, nextpid, process, freeing, at, child, images,
                   halted>>

Unused == {i \in Slot : proc[i].pid = 0}

\* proc_alloc: what it does inside critsect
proc_alloc(t) ==
    /\ ~ halted /\ pc[t] = "exec" /\ Unused # {}
    /\ \E i \in Unused :
        /\ \A j \in Unused : i <= j
        /\ proc' = [proc EXCEPT ![i].pid = nextpid]
        /\ at' = [at EXCEPT ![t] = i]
    /\ nextpid' = nextpid + 1
    /\ Goto(t, "allocated")
    /\ UNCHANGED <<waitq, process, freeing, child, images, freestk, halted>>

\* The rest of proc_alloc, which initialises the slot 0 and not the new one
\* (proc is the array), the image, and task_from_proc: the new task is
\* ready, and may run, before exec knows of it.
Initialised(i, data) ==
    [proc EXCEPT ![0].image = NoProc, ![0].zombie = FALSE, ![i].image = data]

make_process(t) ==
    /\ ~ halted /\ pc[t] = "allocated"
    /\ \E c \in Thread :
        /\ pc[c] = "free"
        /\ proc' = Initialised(at[t], proc[at[t]].pid)
        /\ process' = [process EXCEPT ![c] = at[t]]
        /\ freeing' = [freeing EXCEPT ![c] = FALSE]
        /\ pc' = [pc EXCEPT ![c] = "user", ![t] = "started"]
        /\ child' = [child EXCEPT ![t] = c]
        /\ images' = images \cup {proc[at[t]].pid}
    /\ waitq' = [waitq EXCEPT ![0] = <<>>]
    /\ UNCHANGED <<nextpid, at, freestk, halted>>

\* task_from_proc finds no task
make_process_fails(t) ==
    /\ ~ halted /\ pc[t] = "allocated" /\ \A c \in Thread : pc[c] # "free"
    /\ proc_free(Initialised(at[t], NoProc), at[t])
    /\ waitq' = [waitq EXCEPT ![0] = <<>>]
    /\ Return(t)
    /\ UNCHANGED <<nextpid, process, freeing, at, child, halted>>

\* proc->task = task_from_proc(...)
set_task(t) ==
    /\ ~ halted /\ pc[t] = "started"
    /\ proc' = [proc EXCEPT ![at[t]].task = child[t]]
    /\ Goto(t, "linked")
    /\ UNCHANGED <<waitq, nextpid, process, freeing, at, child, images, freestk,
                   halted>>

\* proc->parent = get_curproc(), then dup_handles; if that fails, exec frees
\* the process, which may be running
set_parent(t, dupfails) ==
    LET P == [proc EXCEPT ![at[t]].parent = process[t]] IN
    /\ ~ halted /\ pc[t] = "linked" /\ (dupfails => process[t] # NoProc)
    /\ IF dupfails THEN proc_free(P, at[t])
       ELSE proc' = P /\ UNCHANGED images
    /\ Return(t)
    /\ UNCHANGED <<waitq, nextpid, process, freeing, at, child, halted>>
-----------------------------------------------------------------------------
(* exit and wait                                                           *)

\* fault: nobody is woken
Woken_nobody(q) == {}

\* task_unblock(waitq.head): the task that waits first
Woken(q) == IF q = <<>> THEN {} ELSE {Head(q)}

\* _exit up to the marking of the task.  With a parent the process becomes
\* a zombie and the head of the parent's queue is woken; else it is freed.
exit_process(t) ==
    LET i == process[t]
        p == proc[i].parent
        P == [proc EXCEPT ![i].task = NoProc]
    IN
    /\ ~ halted /\ pc[t] = "exit"
    /\ child' = [child EXCEPT ![t] = proc[i].task]
    /\ IF p # NoProc
       THEN /\ proc' = [P EXCEPT ![i].zombie = TRUE]
            /\ waitq' = [waitq EXCEPT ![p] =
                            IF Woken(@) = {} THEN @ ELSE Tail(@)]
            /\ pc' = [u \in Thread |-> IF u = t THEN "marking"
                                     ELSE IF u \in Woken(waitq[p]) THEN "wait"
                                     ELSE pc[u]]
            /\ UNCHANGED images
       ELSE proc_free(P, i) /\ Goto(t, "marking") /\ UNCHANGED waitq
    /\ UNCHANGED <<nextpid, process, freeing, at, freestk, halted>>

\* the task that proc->task was is marked; NULL is no task
mark_task(t) ==
    LET c == child[t] IN
    /\ ~ halted /\ pc[t] = "marking"
    /\ process' = [u \in Thread |-> IF u = c THEN NoProc ELSE process[u]]
    /\ freeing' = [u \in Thread |-> u = c \/ freeing[u]]
    /\ Goto(t, "exiting")
    /\ UNCHANGED <<proc, waitq, nextpid, at, child, images, freestk, halted>>

\* the return path of _exit gives the stack back and calls task_exit
exit_return(t) ==
    /\ ~ halted /\ pc[t] = "exiting"
    /\ freestk' = freestk + 1
    /\ freeing' = [freeing EXCEPT ![t] = FALSE]
    /\ Goto(t, IF freeing[t] THEN "free" ELSE "stuck")
    /\ UNCHANGED <<proc, waitq, nextpid, process, at, child, images, halted>>

\* fault: any child will do
Zombies_alive(t) == {i \in Slot : /\ proc[i].pid # 0
                                  /\ proc[i].parent = process[t]}

Zombies(t) == {i \in Slot : /\ proc[i].pid # 0 /\ proc[i].zombie
                            /\ proc[i].parent = process[t]}

\* one turn of the loop of _wait, interrupts off: it finds a zombie, or
\* blocks on the queue of slot 0 (proc is the array)
wait(t) ==
    /\ ~ halted /\ pc[t] = "wait"
    /\ \/ \E i \in Zombies(t) :
            /\ \A j \in Zombies(t) : i <= j
            /\ at' = [at EXCEPT ![t] = i]
            /\ Goto(t, "reap") /\ UNCHANGED waitq
       \/ /\ Zombies(t) = {}
          /\ waitq' = [waitq EXCEPT ![0] = Append(@, t)]
          /\ Goto(t, "blocked") /\ UNCHANGED at
    /\ UNCHANGED <<proc, nextpid, process, freeing, child, images, freestk,
                   halted>>

reap(t) ==
    /\ ~ halted /\ pc[t] = "reap"
    /\ proc_free(proc, at[t])
    /\ Return(t)
    /\ UNCHANGED <<waitq, nextpid, process, freeing, at, child, halted>>

\* the machine has stopped, or everyone waits or is gone
Stopped == /\ \/ halted
              \/ \A t \in Thread :
                    pc[t] \in {"free", "blocked", "stuck", "done"}
           /\ UNCHANGED procvars

ProcNext ==
    \/ \E t \in Thread :
        \/ \E call \in Calls : disp(t, call)
        \/ exec_fails(t) \/ proc_alloc(t) \/ make_process(t)
        \/ make_process_fails(t) \/ set_task(t)
        \/ \E dupfails \in {FALSE, DupFails} : set_parent(t, dupfails)
        \/ exit_process(t) \/ mark_task(t) \/ exit_return(t)
        \/ wait(t) \/ reap(t)
    \/ Stopped

ProcSpec == ProcInit /\ [][ProcNext]_procvars
-----------------------------------------------------------------------------
\* A program that runs has a slot of its own and stays in memory, whoever
\* execs, exits and reaps in between: even if it ends before the exec that
\* has started it is through, no later program loses its slot by that.
RunningHasSlot ==
    \A t \in Thread \ {Kernel} : pc[t] = "user" =>
        /\ process[t] # NoProc /\ proc[process[t]].pid \in images
        /\ \A u \in Thread : u # t /\ pc[u] = "user" => process[u] # process[t]

\* Nobody sleeps in wait while a child of his has ended.
NoLostWakeup == \A t \in Thread : pc[t] = "blocked" => Zombies(t) = {}

\* Every kernel stack is free or carries one call, whatever way calls end.
StacksConserved ==
    freestk + Cardinality({t \in Thread \ {Kernel} : pc[t] \in InCall})
        = KSTACKS
=============================================================================
