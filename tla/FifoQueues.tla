----------------------------- MODULE FifoQueues -----------------------------
(***************************************************************************)
(* What the task queues promise their callers: every queue is a sequence   *)
(* of tasks, no task is in two places, a task is added at the back, and    *)
(* removed from the front, or from wherever it is.  The head may also be   *)
(* moved on by one, which is how the scheduler gives the next task of a    *)
(* priority its turn.                                                      *)
(***************************************************************************)
EXTENDS Naturals, Sequences, SequencesExt

CONSTANTS Task, Queue

VARIABLE fifo       \* fifo[q] is the sequence of tasks on queue q

InQueue(t) == \E q \in Queue : Contains(fifo[q], t)

Init == fifo = [q \in Queue |-> <<>>]

Push(q, t) == ~ InQueue(t) /\ fifo' = [fifo EXCEPT ![q] = Append(@, t)]

Pop(q) == fifo[q] # <<>> /\ fifo' = [fifo EXCEPT ![q] = Tail(@)]

Unlink(t) == \E q \in Queue : \E i \in 1..Len(fifo[q]) :
                /\ fifo[q][i] = t
                /\ fifo' = [fifo EXCEPT ![q] = RemoveAt(@, i)]

Rotate(q) == fifo[q] # <<>>
             /\ fifo' = [fifo EXCEPT ![q] = Append(Tail(@), Head(@))]

Next == \/ \E q \in Queue : Pop(q) \/ Rotate(q)
        \/ \E q \in Queue, t \in Task : Push(q, t)
        \/ \E t \in Task : Unlink(t)

Spec == Init /\ [][Next]_fifo
=============================================================================
