------------------------------- MODULE TaskQ -------------------------------
(***************************************************************************)
(* The intrusive task queues of kernel/sched/taskq.c.                      *)
(*                                                                         *)
(* A queue is one pointer to its head; the links live in the tasks         *)
(* (task->next, task->prev, task->owner), so a task is on one queue at     *)
(* most and every queue is a ring.  The whole pointer structure is one     *)
(* record L:                                                               *)
(*    L.head[q]   q->head       L.next[t], L.prev[t]   t->next, t->prev    *)
(*    L.owner[t]  t->owner                                                 *)
(* The operators below are the routines of taskq.c as functions from one   *)
(* such record to the next; the callers hold interrupts off around them.   *)
(***************************************************************************)
EXTENDS Naturals, Sequences, FiniteSets

CONSTANTS Task,     \* the task table tasks[MAX_TASK]
          Queue,    \* every taskq_t of the kernel
          NULL

ASSUME NullAssumption == NULL \notin Task /\ NULL \notin Queue

Links == [head  : [Queue -> Task \cup {NULL}],
          next  : [Task -> Task \cup {NULL}],
          prev  : [Task -> Task \cup {NULL}],
          owner : [Task -> Queue \cup {NULL}]]

\* taskq_init on every queue, over a zeroed task table
EmptyLinks == [head  |-> [q \in Queue |-> NULL],
               next  |-> [t \in Task |-> NULL],
               prev  |-> [t \in Task |-> NULL],
               owner |-> [t \in Task |-> NULL]]

\* fault: the task goes in before the head and becomes the head
taskq_push_front(L, q, t) ==
    LET h == L.head[q] IN
    IF h # NULL
    THEN [head  |-> [L.head EXCEPT ![q] = t],
          next  |-> [L.next EXCEPT ![L.prev[h]] = t, ![t] = h],
          prev  |-> [L.prev EXCEPT ![t] = L.prev[h], ![h] = t],
          owner |-> [L.owner EXCEPT ![t] = q]]
    ELSE [head  |-> [L.head EXCEPT ![q] = t],
          next  |-> [L.next EXCEPT ![t] = t],
          prev  |-> [L.prev EXCEPT ![t] = t],
          owner |-> [L.owner EXCEPT ![t] = q]]

\* taskq_push: t goes in just before the head, which is the back of the ring
taskq_push(L, q, t) ==
    LET h == L.head[q] IN
    IF h # NULL
    THEN [head  |-> L.head,
          next  |-> [L.next EXCEPT ![L.prev[h]] = t, ![t] = h],
          prev  |-> [L.prev EXCEPT ![t] = L.prev[h], ![h] = t],
          owner |-> [L.owner EXCEPT ![t] = q]]
    ELSE [head  |-> [L.head EXCEPT ![q] = t],
          next  |-> [L.next EXCEPT ![t] = t],
          prev  |-> [L.prev EXCEPT ![t] = t],
          owner |-> [L.owner EXCEPT ![t] = q]]

\* task_dequeue: unlink t from whatever queue owns it; none is no error
task_dequeue(L, t) ==
    LET q == L.owner[t]
        n == L.next[t]
        p == L.prev[t]
    IN  IF q = NULL
        THEN [head  |-> L.head,
              next  |-> [L.next EXCEPT ![t] = NULL],
              prev  |-> [L.prev EXCEPT ![t] = NULL],
              owner |-> [L.owner EXCEPT ![t] = NULL]]
        ELSE IF n = t
        THEN [head  |-> [L.head EXCEPT ![q] = NULL],
              next  |-> [L.next EXCEPT ![t] = NULL],
              prev  |-> [L.prev EXCEPT ![t] = NULL],
              owner |-> [L.owner EXCEPT ![t] = NULL]]
        ELSE [head  |-> [L.head EXCEPT ![q] = IF @ = t THEN n ELSE @],
              next  |-> [L.next EXCEPT ![p] = n, ![t] = NULL],
              prev  |-> [L.prev EXCEPT ![n] = p, ![t] = NULL],
              owner |-> [L.owner EXCEPT ![t] = NULL]]

\* taskq_pop: unlink the head; an empty queue stays as it is.  The task
\* returned is L.head[q], NULL when the queue is empty.
taskq_pop(L, q) ==
    LET h == L.head[q]
        n == L.next[h]
    IN  IF h = NULL THEN L
        ELSE IF n = h
        THEN [head  |-> [L.head EXCEPT ![q] = NULL],
              next  |-> [L.next EXCEPT ![h] = NULL],
              prev  |-> [L.prev EXCEPT ![h] = NULL],
              owner |-> [L.owner EXCEPT ![h] = NULL]]
        ELSE [head  |-> [L.head EXCEPT ![q] = n],
              next  |-> [L.next EXCEPT ![L.prev[h]] = n, ![h] = NULL],
              prev  |-> [L.prev EXCEPT ![n] = L.prev[h], ![h] = NULL],
              owner |-> [L.owner EXCEPT ![h] = NULL]]

\* queue->head = t
SetHead(L, q, t) == [head  |-> [L.head EXCEPT ![q] = t],
                     next  |-> L.next,
                     prev  |-> L.prev,
                     owner |-> L.owner]

(***************************************************************************)
(* What a well formed queue is: the tasks it owns are exactly one ring     *)
(* that starts at the head, here as the sequence s of its tasks.           *)
(***************************************************************************)
Ring(L, q, s) ==
    /\ L.head[q] = IF s = <<>> THEN NULL ELSE s[1]
    /\ \A i, j \in 1..Len(s) : s[i] = s[j] => i = j
    /\ \A t \in Task : L.owner[t] = q <=> \E i \in 1..Len(s) : s[i] = t
    /\ \A i \in 1..Len(s) :
          /\ L.next[s[i]] = IF i = Len(s) THEN s[1] ELSE s[i+1]
          /\ L.prev[s[i]] = IF i = 1 THEN s[Len(s)] ELSE s[i-1]

WellFormed(L) == \A q \in Queue : \E s \in Seq(Task) : Ring(L, q, s)

\* the tasks owned by q, and the queue read off its links from the head
Members(L, q) == {t \in Task : L.owner[t] = q}

Contents(L, q) ==
    LET at[i \in 1..Cardinality(Members(L, q))] ==
            IF i = 1 THEN L.head[q] ELSE L.next[at[i-1]]
    IN  at
=============================================================================
