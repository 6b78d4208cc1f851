-------------------------- MODULE TaskQSpec_proofs --------------------------
(***************************************************************************)
(* The rings of taskq.c implement FIFO queues, for any number of tasks and *)
(* queues: read off its links, every queue starts empty, and every call    *)
(* does to it what FifoQueues says or leaves it as it is.                  *)
(***************************************************************************)
EXTENDS TaskQSpec, TaskQ_proofs

\* The links keep their types and the rings their form.
RingsInv == links \in Links /\ WellFormed(links)

\* An empty ring has no contents, and one with a head begins with it.
LEMMA EmptyContents ==
    ASSUME NEW L \in Links, WellFormed(L), NEW q \in Queue
    PROVE  /\ L.head[q] = NULL <=> Contents(L, q) = <<>>
           /\ L.head[q] # NULL => Head(Contents(L, q)) = L.head[q]
<1> DEFINE s == Contents(L, q)
<1>1. s \in Seq(Task) /\ Ring(L, q, s)
  BY ContentsAreRing
<1> HIDE DEF s
<1>2. CASE s = <<>>
  BY <1>1, <1>2 DEF Ring, s
<1>3. CASE s # <<>>
  <2>1. 1 \in 1..Len(s) /\ s[1] \in Task /\ Head(s) = s[1]
    BY <1>1, <1>3
  <2>2. L.head[q] = s[1]
    BY <1>1, <1>3 DEF Ring
  <2> QED
    BY <1>3, <2>1, <2>2, NullAssumption DEF s
<1> QED
  BY <1>2, <1>3

\* A task is somewhere in the contents of a queue exactly when the queue
\* owns it, so a task without an owner is in none.
LEMMA InContents ==
    ASSUME NEW L \in Links, WellFormed(L), NEW q \in Queue, NEW t \in Task
    PROVE  L.owner[t] = q <=> \E i \in 1..Len(Contents(L, q)) : Contents(L, q)[i] = t
BY ContentsAreRing DEF Ring

\* taskq_pop takes the first task of its queue and leaves the others alone.
LEMMA PopContents ==
    ASSUME NEW L \in Links, WellFormed(L), NEW q \in Queue, L.head[q] # NULL,
           NEW M, M = taskq_pop(L, q)
    PROVE  /\ M \in Links /\ WellFormed(M)
           /\ Contents(M, q) = Tail(Contents(L, q))
           /\ \A r \in Queue : r # q => Contents(M, r) = Contents(L, r)
<1> DEFINE h == L.head[q]
           s == Contents(L, q)
<1>1. h \in Task /\ L.owner[h] = q /\ q # NULL
  BY HeadOwned, NullAssumption
<1>2. M = task_dequeue(L, h)
  BY PopIsDequeue
<1>3. s \in Seq(Task) /\ Ring(L, q, s)
  BY ContentsAreRing
<1>4. M \in Links /\ WellFormed(M) /\ Unlinked(L, M, h)
  BY <1>1, <1>2, DequeueWellFormed
<1> HIDE DEF h, s
<1>5. /\ \A r \in Queue : r # q => Contents(M, r) = Contents(L, r)
      /\ \E k \in 1..Len(s) : s[k] = h /\ Contents(M, q) = Without(s, k)
  BY <1>1, <1>4 DEF Unlinked, s
<1> HIDE DEF s
<1>6. PICK k \in 1..Len(s) : s[k] = h /\ Contents(M, q) = Without(s, k)
  BY <1>5
<1>7. s # <<>> /\ 1 \in 1..Len(s) /\ s[1] = h
  <2>1. Len(s) \in Nat /\ s # <<>> /\ 1 \in 1..Len(s)
    BY <1>3, <1>6
  <2> QED
    BY <2>1, <1>3 DEF Ring, h
<1>8. k = 1
  BY <1>3, <1>6, <1>7 DEF Ring
<1>9. Without(s, 1) = Tail(s)
  <2>1. SubSeq(s, 1, 1 - 1) = <<>>
    BY SubSeqEmpty
  <2>2. Tail(s) = SubSeq(s, 2, Len(s)) /\ Tail(s) \in Seq(Task)
    BY <1>3, <1>7, TailIsSubSeq, HeadTailProperties
  <2>3. <<>> \o Tail(s) = Tail(s)
    BY <2>2, ConcatEmptySeq
  <2>4. 1 + 1 = 2
    OBVIOUS
  <2> QED
    BY <2>1, <2>2, <2>3, <2>4 DEF Without
<1> QED
  BY <1>4, <1>5, <1>6, <1>8, <1>9 DEF s

\* Every step keeps the rings and does what FifoQueues says, or nothing.
LEMMA TaskQStep ==
    ASSUME RingsInv, TaskQNext
    PROVE  RingsInv' /\ (UNCHANGED Queues \/ Fifo!Next)
<1> USE DEF RingsInv
<1>1. PICK L : L = links
  OBVIOUS
<1>2. PICK M : M = links'
  OBVIOUS
<1>3. L \in Links /\ WellFormed(L)
  BY <1>1
<1>4. /\ Queues = [r \in Queue |-> Contents(L, r)]
      /\ Queues' = [r \in Queue |-> Contents(M, r)]
  BY <1>1, <1>2 DEF Queues
<1>5. ASSUME NEW q \in Queue, Pop(q)
      PROVE  RingsInv' /\ (UNCHANGED Queues \/ Fifo!Next)
  <2>1. M = taskq_pop(L, q)
    BY <1>1, <1>2, <1>5 DEF Pop
  <2>2. CASE L.head[q] = NULL
    <3>1. M = L
      BY <2>1, <2>2 DEF taskq_pop
    <3> QED
      BY <3>1, <1>1, <1>2, <1>3, <1>4
  <2>3. CASE L.head[q] # NULL
    <3>1. /\ M \in Links /\ WellFormed(M)
          /\ Contents(M, q) = Tail(Contents(L, q))
          /\ \A r \in Queue : r # q => Contents(M, r) = Contents(L, r)
      BY <1>3, <2>1, <2>3, PopContents
    <3>2. Contents(L, q) # <<>>
      BY <1>3, <2>3, EmptyContents
    <3>3. Fifo!Pop(q)
      BY <3>1, <3>2, <1>4 DEF Fifo!Pop
    <3> QED
      BY <3>1, <3>3, <1>2, <1>5 DEF Fifo!Next
  <2> QED
    BY <2>2, <2>3
<1>6. ASSUME NEW q \in Queue, Rotate(q)
      PROVE  RingsInv' /\ (UNCHANGED Queues \/ Fifo!Next)
  <2>1. L.head[q] # NULL /\ M = SetHead(L, q, L.next[L.head[q]])
    BY <1>1, <1>2, <1>6 DEF Rotate
  <2>2. /\ M \in Links /\ WellFormed(M)
        /\ \A r \in Queue : r # q => Contents(M, r) = Contents(L, r)
        /\ Contents(M, q) = Append(Tail(Contents(L, q)), Head(Contents(L, q)))
    BY <1>3, <2>1, RotateWellFormed
  <2>3. Contents(L, q) # <<>>
    BY <1>3, <2>1, EmptyContents
  <2>4. Fifo!Rotate(q)
    BY <2>2, <2>3, <1>4 DEF Fifo!Rotate
  <2> QED
    BY <2>2, <2>4, <1>2, <1>6 DEF Fifo!Next
<1>7. ASSUME NEW q \in Queue, NEW t \in Task, Push(q, t)
      PROVE  RingsInv' /\ (UNCHANGED Queues \/ Fifo!Next)
  <2>1. L.owner[t] = NULL /\ M = taskq_push(L, q, t)
    BY <1>1, <1>2, <1>7 DEF Push
  <2>2. M \in Links /\ WellFormed(M) /\ Pushed(L, M, q, t)
    BY <1>3, <2>1, PushWellFormed
  <2>3. ~ Fifo!InQueue(t)
    <3>1. ASSUME NEW r \in Queue PROVE ~ Fifo!Contains(Contents(L, r), t)
      <4>1. L.owner[t] # r
        BY <2>1, NullAssumption
      <4> QED
        BY <4>1, <1>3, InContents DEF Fifo!Contains
    <3> QED
      BY <3>1, <1>4 DEF Fifo!InQueue
  <2>4. Fifo!Push(q, t)
    BY <2>2, <2>3, <1>4 DEF Fifo!Push, Pushed
  <2> QED
    BY <2>2, <2>4, <1>2, <1>7 DEF Fifo!Next
<1>8. ASSUME NEW t \in Task, Dequeue(t)
      PROVE  RingsInv' /\ (UNCHANGED Queues \/ Fifo!Next)
  <2>1. M = task_dequeue(L, t)
    BY <1>1, <1>2, <1>8 DEF Dequeue
  <2>2. /\ M \in Links /\ WellFormed(M) /\ Unlinked(L, M, t)
    BY <1>3, <2>1, DequeueWellFormed
  <2>3. CASE L.owner[t] = NULL
    <3>1. \A r \in Queue : Contents(M, r) = Contents(L, r)
      BY <2>2, <2>3, NullAssumption DEF Unlinked
    <3> QED
      BY <2>2, <3>1, <1>2, <1>4
  <2>4. CASE L.owner[t] # NULL
    <3> DEFINE q == L.owner[t]
    <3>1. q \in Queue
      BY <1>3, <2>4 DEF Links
    <3>2. PICK k \in 1..Len(Contents(L, q)) :
             Contents(L, q)[k] = t /\ Contents(M, q) = Without(Contents(L, q), k)
      BY <2>2, <2>4 DEF Unlinked
    <3>3. Queues' = [Queues EXCEPT ![q] = Fifo!RemoveAt(@, k)]
      BY <2>2, <3>1, <3>2, <1>4 DEF Unlinked, Without, Fifo!RemoveAt
    <3>4. Fifo!Unlink(t)
      BY <3>1, <3>2, <3>3, <1>4 DEF Fifo!Unlink
    <3> QED
      BY <2>2, <3>4, <1>2, <1>8 DEF Fifo!Next
  <2> QED
    BY <2>3, <2>4
<1> QED
  BY <1>5, <1>6, <1>7, <1>8 DEF TaskQNext

\* taskq_init leaves every ring well formed and empty.
LEMMA TaskQInitially ==
    ASSUME TaskQInit
    PROVE  RingsInv /\ Fifo!Init
<1>1. links \in Links
  BY DEF TaskQInit, EmptyLinks, Links
<1>2. \A q \in Queue : Ring(links, q, <<>>)
  <2> SUFFICES ASSUME NEW q \in Queue PROVE Ring(links, q, <<>>)
    OBVIOUS
  <2>1. q # NULL
    BY NullAssumption
  <2> QED
    BY <2>1 DEF TaskQInit, EmptyLinks, Ring
<1>3. <<>> \in Seq(Task)
  OBVIOUS
<1>4. WellFormed(links)
  BY <1>2, <1>3 DEF WellFormed
<1>5. \A q \in Queue : Contents(links, q) = <<>>
  BY <1>1, <1>2, <1>3, ContentsIsRing
<1> QED
  BY <1>1, <1>4, <1>5 DEF RingsInv, Queues, Fifo!Init

\* The queues of taskq.c, read off their links, start empty and change as
\* FIFO sequences do: taskq_push adds at the back, taskq_pop takes the
\* front, task_dequeue cuts one task out of where it is, and iswitch's move
\* of the head is a rotation.
THEOREM QueuesAreFifo ==
    TaskQBehaviour => ImplementsFifo
<1>1. TaskQInit => RingsInv /\ Fifo!Init
  BY TaskQInitially
<1>2. RingsInv /\ [TaskQNext]_links =>
          RingsInv' /\ [UNCHANGED links \/ Fifo!Next]_Queues
  <2>1. CASE TaskQNext
    BY <2>1, TaskQStep
  <2>2. CASE UNCHANGED links
    BY <2>2 DEF RingsInv, Queues
  <2> QED
    BY <2>1, <2>2
<1> QED
  BY <1>1, <1>2, PTL DEF TaskQBehaviour, ImplementsFifo
=============================================================================
