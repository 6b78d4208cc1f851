----------------------------- MODULE TaskQSpec ------------------------------
(***************************************************************************)
(* The task queues under every sequence of calls their callers may make:   *)
(* a task that is on no queue is pushed, any queue popped, any task        *)
(* dequeued, and the head moved on as iswitch in tasksw.asm does it.       *)
(* Callers hold interrupts off, so the calls are atomic.                   *)
(***************************************************************************)
EXTENDS TaskQ

VARIABLE links

TaskQInit == links = EmptyLinks

\* "It must not already be on another queue"
Push(q, t) == links.owner[t] = NULL /\ links' = taskq_push(links, q, t)

Pop(q) == links' = taskq_pop(links, q)

Dequeue(t) == links' = task_dequeue(links, t)

\* iswitch: the head of curtask's queue becomes curtask->next.  Its caller
\* runs at the head of its queue.
Rotate(q) == /\ links.head[q] # NULL
             /\ links' = SetHead(links, q, links.next[links.head[q]])

TaskQNext ==
    \/ \E q \in Queue : Pop(q) \/ Rotate(q)
    \/ \E q \in Queue, t \in Task : Push(q, t)
    \/ \E t \in Task : Dequeue(t)

TaskQBehaviour == TaskQInit /\ [][TaskQNext]_links

\* Pushing, popping, dequeueing and rotating the rings is appending to,
\* taking from, deleting from and rotating FIFO sequences.  (Fifo!Spec, said
\* of the steps that change something here.)
Queues == [q \in Queue |-> Contents(links, q)]
Fifo == INSTANCE FifoQueues WITH fifo <- Queues
ImplementsFifo == Fifo!Init /\ [][UNCHANGED links \/ Fifo!Next]_Queues
=============================================================================
