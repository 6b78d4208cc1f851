---------------------------- MODULE TaskQ_proofs ----------------------------
(***************************************************************************)
(* The routines of taskq.c keep every queue a ring, for any number of      *)
(* tasks and queues.                                                       *)
(***************************************************************************)
EXTENDS TaskQ, FiniteSetTheorems, SequenceTheorems, WellFoundedInduction, TLAPS

\* A set of naturals that is not empty has a least element.
LEMMA LeastElement ==
  ASSUME NEW D, D \subseteq Nat, D # {}
  PROVE \E m \in D : \A k \in D : m <= k
<1> DEFINE R == OpToRel(<, Nat)
<1>1. IsWellFoundedOn(R, Nat)
  BY NatLessThanWellFounded
<1>2. \A i, j \in Nat : i < j => <<i, j>> \in R
  BY DEF OpToRel
<1> HIDE DEF R
<1>3. PICK x \in D : \A y \in D : ~(<<y, x>> \in R)
  BY <1>1, WFMin
<1>5. \A y \in D : ~(y < x)
  BY <1>2, <1>3
<1> QED BY <1>5

\* A ring has as many tasks as its queue owns.
LEMMA RingLength ==
    ASSUME NEW L \in Links, NEW q \in Queue, NEW s \in Seq(Task), Ring(L, q, s)
    PROVE  Cardinality(Members(L, q)) = Len(s)
<1>1. s \in Bijection(1..Len(s), Members(L, q))
  <2>1. s \in [1..Len(s) -> Members(L, q)]
    BY DEF Ring, Members
  <2>2. \A i, j \in 1..Len(s) : s[i] = s[j] => i = j
    BY DEF Ring
  <2>3. \A t \in Members(L, q) : \E i \in 1..Len(s) : s[i] = t
    BY DEF Ring, Members
  <2> QED
    BY <2>1, <2>2, <2>3 DEF Bijection, Injection, Surjection, IsInjective
<1>2. Len(s) \in Nat
  OBVIOUS
<1> QED
  BY <1>1, <1>2, FS_CountingElements DEF ExistsBijection

\* The queue read off its links from the head, as the scheduler and ps walk
\* it, is the ring: were it to differ, it would differ first at some place
\* whose predecessor is right, and the link there leads to the next of the
\* ring.
LEMMA ContentsIsRing ==
    ASSUME NEW L \in Links, NEW q \in Queue, NEW s \in Seq(Task), Ring(L, q, s)
    PROVE  Contents(L, q) = s
<1> DEFINE n == Len(s)
           Walk(f) == [i \in 1..n |-> IF i = 1 THEN L.head[q] ELSE L.next[f[i-1]]]
           at == CHOOSE f : f = Walk(f)
<1>1. n \in Nat /\ s \in [1..n -> Task]
  OBVIOUS
<1>2. Contents(L, q) = at
  BY RingLength DEF Contents
<1>3. \A i \in 1..n : s[i] = IF i = 1 THEN L.head[q] ELSE L.next[s[i-1]]
  <2> SUFFICES ASSUME NEW i \in 1..n
               PROVE  s[i] = IF i = 1 THEN L.head[q] ELSE L.next[s[i-1]]
    OBVIOUS
  <2>1. CASE i = 1
    <3>1. s # <<>>
      BY <1>1, <2>1
    <3> QED
      BY <2>1, <3>1 DEF Ring
  <2>2. CASE i # 1
    <3>1. i - 1 \in 1..n /\ i - 1 # n /\ (i - 1) + 1 = i
      BY <1>1, <2>2
    <3>2. L.next[s[i-1]] = s[(i-1)+1]
      BY <3>1 DEF Ring
    <3> QED
      BY <3>1, <3>2, <2>2
  <2> QED
    BY <2>1, <2>2
<1>4. s = Walk(s)
  BY <1>1, <1>3
<1>5. at = Walk(at)
  <2>1. \E f : f = Walk(f)
    BY <1>4
  <2> QED
    BY <2>1
<1> HIDE DEF at
<1>6. \A i \in 1..n : at[i] = IF i = 1 THEN L.head[q] ELSE L.next[at[i-1]]
  BY <1>5
<1> DEFINE D == {i \in 1..n : at[i] # s[i]}
<1>7. D = {}
  <2> SUFFICES ASSUME D # {} PROVE FALSE
    OBVIOUS
  <2>1. PICK m \in D : \A k \in D : m <= k
    BY LeastElement, D \subseteq Nat
  <2>2. CASE m = 1
    BY <1>3, <1>6, <2>1, <2>2
  <2>3. CASE m # 1
    <3>1. m \in 1..n /\ m - 1 \in 1..n /\ m - 1 \notin D
      BY <1>1, <2>1, <2>3
    <3> QED
      BY <1>3, <1>6, <2>1, <2>3, <3>1
  <2> QED
    BY <2>2, <2>3
<1>8. at = [i \in 1..n |-> at[i]]
  BY <1>5
<1> QED
  BY <1>1, <1>2, <1>7, <1>8

\* So the contents of a well formed queue are its ring.
LEMMA ContentsAreRing ==
    ASSUME NEW L \in Links, WellFormed(L), NEW q \in Queue
    PROVE  Contents(L, q) \in Seq(Task) /\ Ring(L, q, Contents(L, q))
<1>1. PICK s \in Seq(Task) : Ring(L, q, s)
  BY DEF WellFormed
<1> QED
  BY <1>1, ContentsIsRing

\* A well formed queue is empty exactly when no task names it as its owner,
\* and its head is a task of its own.
LEMMA HeadOwned ==
    ASSUME NEW L \in Links, WellFormed(L), NEW q \in Queue
    PROVE  /\ L.head[q] = NULL => \A t \in Task : L.owner[t] # q
           /\ L.head[q] # NULL => L.head[q] \in Task /\ L.owner[L.head[q]] = q
<1>1. PICK s \in Seq(Task) : Ring(L, q, s)
  BY DEF WellFormed
<1>2. CASE s = <<>>
  BY <1>1, <1>2 DEF Ring
<1>3. CASE s # <<>>
  <2>1. Len(s) \in Nat /\ Len(s) >= 1 /\ 1 \in 1..Len(s) /\ s[1] \in Task
    BY <1>3
  <2>2. L.head[q] = s[1]
    BY <1>1, <1>3 DEF Ring
  <2>3. L.owner[s[1]] = q
    BY <1>1, <2>1 DEF Ring
  <2> QED
    BY <2>1, <2>2, <2>3, NullAssumption
<1> QED
  BY <1>2, <1>3

\* The neighbours of a queued task are tasks of the same queue, and a task
\* that is its own neighbour is alone.
LEMMA Neighbours ==
    ASSUME NEW L \in Links, WellFormed(L), NEW t \in Task, L.owner[t] # NULL
    PROVE  /\ L.next[t] \in Task /\ L.owner[L.next[t]] = L.owner[t]
           /\ L.prev[t] \in Task /\ L.owner[L.prev[t]] = L.owner[t]
<1> DEFINE q == L.owner[t]
<1>1. q \in Queue
  BY DEF Links
<1>2. PICK s \in Seq(Task) : Ring(L, q, s)
  BY <1>1 DEF WellFormed
<1>3. PICK i \in 1..Len(s) : s[i] = t
  BY <1>2 DEF Ring
<1>4. Len(s) \in Nat
  OBVIOUS
<1>5. \A j \in 1..Len(s) : s[j] \in Task /\ L.owner[s[j]] = q
  BY <1>2 DEF Ring
<1>6. /\ L.next[t] = IF i = Len(s) THEN s[1] ELSE s[i+1]
      /\ L.prev[t] = IF i = 1 THEN s[Len(s)] ELSE s[i-1]
  BY <1>2, <1>3 DEF Ring
<1> QED
  BY <1>3, <1>4, <1>5, <1>6

\* A change to the tasks and to the head of one queue leaves the rings of
\* the others as they are.
LEMMA OtherRings ==
    ASSUME NEW L \in Links, NEW M \in Links, NEW q \in Queue, NEW r \in Queue,
           NEW s \in Seq(Task), Ring(L, r, s),
           M.head[r] = L.head[r],
           \A t \in Task : M.owner[t] = r <=> L.owner[t] = r,
           \A t \in Task : L.owner[t] = r =>
               M.next[t] = L.next[t] /\ M.prev[t] = L.prev[t]
    PROVE  Ring(M, r, s)
<1>1. \A i \in 1..Len(s) : s[i] \in Task /\ L.owner[s[i]] = r
  BY DEF Ring
<1> QED
  BY <1>1 DEF Ring

\* M has the queues of L, and t at the back of q.
Pushed(L, M, q, t) ==
    /\ Contents(M, q) = Append(Contents(L, q), t)
    /\ \A r \in Queue \ {q} : Contents(M, r) = Contents(L, r)

\* taskq_push keeps the queues well formed when the task is on none.
LEMMA PushWellFormed ==
    ASSUME NEW L \in Links, WellFormed(L), NEW q \in Queue, NEW t \in Task,
           L.owner[t] = NULL, NEW M, M = taskq_push(L, q, t)
    PROVE  /\ M \in Links
           /\ WellFormed(M)
           /\ M.owner = [L.owner EXCEPT ![t] = q]
           /\ \A r \in Queue : M.head[r] =
                 IF r = q /\ L.head[r] = NULL THEN t ELSE L.head[r]
           /\ Pushed(L, M, q, t)
<1> DEFINE h == L.head[q]
<1>1. PICK s \in Seq(Task) : Ring(L, q, s)
  BY DEF WellFormed
<1>2. Len(s) \in Nat /\ \A i \in 1..Len(s) : s[i] \in Task /\ L.owner[s[i]] = q
  BY <1>1 DEF Ring
<1>3. \A i \in 1..Len(s) : s[i] # t
  BY <1>2, NullAssumption
<1>4. /\ M \in Links
      /\ M.owner = [L.owner EXCEPT ![t] = q]
      /\ M.head = [L.head EXCEPT ![q] = IF @ = NULL THEN t ELSE @]
  <2>1. CASE h = NULL
    BY <2>1 DEF taskq_push, Links
  <2>2. CASE h # NULL
    <3>1. h \in Task /\ L.owner[h] = q
      BY <2>2, HeadOwned
    <3>2. L.prev[h] \in Task
      BY <3>1, Neighbours, NullAssumption
    <3> QED
      BY <2>2, <3>1, <3>2 DEF taskq_push, Links
  <2> QED
    BY <2>1, <2>2
<1>5. Ring(M, q, Append(s, t))
  <2>1. CASE s = <<>>
    <3>1. h = NULL
      BY <1>1, <2>1 DEF Ring
    <3>2. /\ M.head[q] = t /\ M.next[t] = t /\ M.prev[t] = t
          /\ \A u \in Task : M.owner[u] = q <=> u = t
      BY <3>1, <1>1, <2>1 DEF taskq_push, Links, Ring
    <3>3. Append(s, t) = <<t>>
      BY <2>1
    <3> QED
      BY <3>2, <3>3 DEF Ring
  <2>2. CASE s # <<>>
    <3>1. h = s[1] /\ h # NULL /\ h \in Task /\ Len(s) >= 1
      BY <1>1, <1>2, <2>2, NullAssumption DEF Ring
    <3>2. L.prev[h] = s[Len(s)]
      BY <1>1, <3>1 DEF Ring
    <3>3. /\ M.head = L.head
          /\ M.next = [L.next EXCEPT ![s[Len(s)]] = t, ![t] = h]
          /\ M.prev = [L.prev EXCEPT ![t] = s[Len(s)], ![h] = t]
      BY <3>1, <3>2 DEF taskq_push
    <3> DEFINE a == Append(s, t)
    <3>4. /\ Len(a) = Len(s) + 1 /\ a[Len(s) + 1] = t
          /\ \A i \in 1..Len(s) : a[i] = s[i]
      OBVIOUS
    <3>5. a # <<>> /\ a[1] = h
      BY <3>1, <3>4
    <3> HIDE DEF a
    <3>6. \A i, j \in 1..Len(a) : a[i] = a[j] => i = j
      <4>1. \A i \in 1..Len(a) : \/ i = Len(s) + 1 /\ a[i] = t
                                 \/ i \in 1..Len(s) /\ a[i] = s[i] /\ a[i] # t
        BY <1>2, <1>3, <3>4
      <4>2. \A i, j \in 1..Len(s) : s[i] = s[j] => i = j
        BY <1>1 DEF Ring
      <4> QED
        BY <4>1, <4>2
    <3>7. \A u \in Task : M.owner[u] = q <=> \E i \in 1..Len(a) : a[i] = u
      <4> SUFFICES ASSUME NEW u \in Task
                   PROVE  M.owner[u] = q <=> \E i \in 1..Len(a) : a[i] = u
        OBVIOUS
      <4>1. CASE u = t
        BY <4>1, <1>4, <1>2, <3>4 DEF Links
      <4>2. CASE u # t
        <5>1. M.owner[u] = L.owner[u]
          BY <4>2, <1>4 DEF Links
        <5>2. L.owner[u] = q <=> \E i \in 1..Len(s) : s[i] = u
          BY <1>1 DEF Ring
        <5> QED
          BY <5>1, <5>2, <4>2, <3>4, <1>2
      <4> QED
        BY <4>1, <4>2
    <3>8. \A i \in 1..Len(a) :
            /\ M.next[a[i]] = IF i = Len(a) THEN a[1] ELSE a[i+1]
            /\ M.prev[a[i]] = IF i = 1 THEN a[Len(a)] ELSE a[i-1]
      <4> SUFFICES ASSUME NEW i \in 1..Len(a)
                   PROVE  /\ M.next[a[i]] = IF i = Len(a) THEN a[1] ELSE a[i+1]
                          /\ M.prev[a[i]] = IF i = 1 THEN a[Len(a)] ELSE a[i-1]
        OBVIOUS
      <4>1. L.next \in [Task -> Task \cup {NULL}] /\ L.prev \in [Task -> Task \cup {NULL}]
        BY DEF Links
      <4>2. CASE i = Len(a)
        BY <4>1, <4>2, <1>2, <1>3, <3>1, <3>3, <3>4, <3>5
      <4>3. CASE i # Len(a)
        <5>1. i \in 1..Len(s) /\ a[i] = s[i] /\ s[i] \in Task /\ s[i] # t
          BY <4>3, <3>4, <1>2, <1>3
        <5>2. /\ L.next[s[i]] = IF i = Len(s) THEN s[1] ELSE s[i+1]
              /\ L.prev[s[i]] = IF i = 1 THEN s[Len(s)] ELSE s[i-1]
          BY <1>1, <5>1 DEF Ring
        <5>3. s[i] = s[Len(s)] => i = Len(s)
          BY <1>1, <1>2, <3>1, <5>1 DEF Ring
        <5>4. s[i] = s[1] => i = 1
          BY <1>1, <1>2, <3>1, <5>1 DEF Ring
        <5>5. M.next[a[i]] = IF i = Len(a) THEN a[1] ELSE a[i+1]
          BY <4>1, <4>3, <5>1, <5>2, <5>3, <3>3, <3>4, <1>2
        <5>6. M.prev[a[i]] = IF i = 1 THEN a[Len(a)] ELSE a[i-1]
          BY <4>1, <4>3, <5>1, <5>2, <5>4, <3>1, <3>3, <3>4, <1>2
        <5> QED
          BY <5>5, <5>6
      <4> QED
        BY <4>2, <4>3
    <3>9. M.head[q] = IF a = <<>> THEN NULL ELSE a[1]
      BY <3>3, <3>5
    <3> QED
      BY <3>6, <3>7, <3>8, <3>9 DEF Ring, a
  <2> QED
    BY <2>1, <2>2
<1>6. ASSUME NEW r \in Queue, r # q
      PROVE  /\ \E z \in Seq(Task) : Ring(M, r, z)
             /\ Contents(M, r) = Contents(L, r)
  <2>1. PICK z \in Seq(Task) : Ring(L, r, z)
    BY DEF WellFormed
  <2>2. \A u \in Task : M.owner[u] = r <=> L.owner[u] = r
    BY <1>4, <1>6, NullAssumption DEF Links
  <2>3. M.head[r] = L.head[r]
    BY <1>4, <1>6 DEF Links
  <2>4. \A u \in Task : L.owner[u] = r =>
            M.next[u] = L.next[u] /\ M.prev[u] = L.prev[u]
    <3>1. CASE h = NULL
      BY <3>1, NullAssumption DEF taskq_push, Links
    <3>2. CASE h # NULL
      <4>1. h \in Task /\ L.owner[h] = q
        BY <3>2, HeadOwned
      <4>2. L.prev[h] \in Task /\ L.owner[L.prev[h]] = q
        BY <4>1, Neighbours, NullAssumption
      <4> QED
        BY <3>2, <4>1, <4>2, <1>6, NullAssumption DEF taskq_push, Links
    <3> QED
      BY <3>1, <3>2
  <2>5. Ring(M, r, z)
    BY <2>1, <2>2, <2>3, <2>4, <1>4, OtherRings
  <2>6. Contents(M, r) = z /\ Contents(L, r) = z
    BY <2>1, <2>5, <1>4, ContentsIsRing
  <2> QED
    BY <2>5, <2>6
<1>7. Append(s, t) \in Seq(Task)
  OBVIOUS
<1>8. WellFormed(M)
  BY <1>5, <1>6, <1>7 DEF WellFormed
<1>9. \A r \in Queue : M.head[r] =
         IF r = q /\ L.head[r] = NULL THEN t ELSE L.head[r]
  BY <1>4 DEF Links
<1>10. Contents(M, q) = Append(Contents(L, q), t)
  BY <1>1, <1>4, <1>5, <1>7, ContentsIsRing
<1>11. \A r \in Queue \ {q} : Contents(M, r) = Contents(L, r)
  BY <1>6
<1> QED
  BY <1>4, <1>8, <1>9, <1>10, <1>11 DEF Pushed

\* A sequence without its element at place k.
Without(s, k) == SubSeq(s, 1, k - 1) \o SubSeq(s, k + 1, Len(s))

\* M has the queues of L, but for t, which is cut out of where it was.
Unlinked(L, M, t) ==
    /\ \A r \in Queue : r # L.owner[t] => Contents(M, r) = Contents(L, r)
    /\ L.owner[t] # NULL =>
         \E k \in 1..Len(Contents(L, L.owner[t])) :
            /\ Contents(L, L.owner[t])[k] = t
            /\ Contents(M, L.owner[t]) = Without(Contents(L, L.owner[t]), k)

\* A sequence without one element is shorter by one, and what followed place k moves up.
LEMMA WithoutIs ==
    ASSUME NEW s \in Seq(Task), NEW k \in 1..Len(s), NEW z \in Seq(Task),
           Len(z) = Len(s) - 1,
           \A i \in 1..Len(z) : z[i] = IF i < k THEN s[i] ELSE s[i+1]
    PROVE  z = Without(s, k)
<1> DEFINE a == SubSeq(s, 1, k - 1)
           b == SubSeq(s, k + 1, Len(s))
<1>1. Len(s) \in Nat
  OBVIOUS
<1>2. /\ a \in Seq(Task) /\ Len(a) = k - 1
      /\ \A i \in 1..(k - 1) : a[i] = s[i]
  <2>1. \A i \in 1..(k - 1) : s[i] \in Task
    BY <1>1
  <2> QED
    BY <1>1, <2>1, SubSeqProperties
<1>3. /\ b \in Seq(Task) /\ Len(b) = Len(s) - k
      /\ \A i \in 1..(Len(s) - k) : b[i] = s[k + i]
  <2>1. \A i \in (k + 1)..Len(s) : s[i] \in Task
    BY <1>1
  <2>2. /\ b \in Seq(Task) /\ Len(b) = IF k + 1 <= Len(s) THEN Len(s) - (k + 1) + 1 ELSE 0
        /\ \A i \in 1..(Len(s) - (k + 1) + 1) : b[i] = s[(k + 1) + i - 1]
    <3>1. k + 1 \in Int /\ Len(s) \in Int
      BY <1>1
    <3> QED
      BY <2>1, <3>1, SubSeqProperties
  <2>3. Len(s) - (k + 1) + 1 = Len(s) - k
    BY <1>1
  <2> HIDE DEF b
  <2>4. \A i \in 1..(Len(s) - k) : (k + 1) + i - 1 = k + i
    BY <1>1
  <2>5. Len(b) = Len(s) - k
    BY <1>1, <2>2
  <2>6. \A i \in 1..(Len(s) - k) : b[i] = s[k + i]
    BY <2>2, <2>3, <2>4
  <2> QED
    BY <2>2, <2>5, <2>6
<1> HIDE DEF a, b
<1>4. /\ a \o b \in Seq(Task) /\ Len(a \o b) = Len(s) - 1
      /\ \A i \in 1..(Len(s) - 1) :
            (a \o b)[i] = IF i <= Len(a) THEN a[i] ELSE b[i - Len(a)]
  <2>1. /\ a \o b \in Seq(Task) /\ Len(a \o b) = Len(a) + Len(b)
        /\ \A i \in 1..(Len(a) + Len(b)) :
              (a \o b)[i] = IF i <= Len(a) THEN a[i] ELSE b[i - Len(a)]
    BY <1>2, <1>3, ConcatProperties
  <2>2. Len(a) + Len(b) = Len(s) - 1
    BY <1>1, <1>2, <1>3
  <2> QED
    BY <2>1, <2>2
<1>5. \A i \in 1..(Len(s) - 1) : (a \o b)[i] = z[i]
  <2> SUFFICES ASSUME NEW i \in 1..(Len(s) - 1) PROVE (a \o b)[i] = z[i]
    OBVIOUS
  <2>1. CASE i < k
    <3>1. i \in 1..(k - 1) /\ i <= Len(a) /\ i \in 1..Len(z)
      BY <2>1, <1>1, <1>2
    <3>2. (a \o b)[i] = a[i] /\ a[i] = s[i]
      BY <3>1, <1>2, <1>4
    <3> QED
      BY <2>1, <3>1, <3>2
  <2>2. CASE i >= k
    <3>1. i - (k - 1) \in 1..(Len(s) - k) /\ k + (i - (k - 1)) = i + 1
      BY <2>2, <1>1
    <3>2. b[i - (k - 1)] = s[i + 1]
      BY <3>1, <1>3
    <3>3. (a \o b)[i] = b[i - (k - 1)]
      BY <2>2, <1>1, <1>2, <1>4
    <3> QED
      BY <2>2, <3>2, <3>3, <1>1
  <2>3. i < k \/ i >= k
    BY <1>1
  <2> QED
    BY <2>1, <2>2, <2>3
<1>6. z = a \o b
  BY <1>1, <1>4, <1>5, SeqEqual
<1> QED
  BY <1>6 DEF Without, a, b

\* task_dequeue keeps the queues well formed, whatever queue the task is on.
LEMMA DequeueWellFormed ==
    ASSUME NEW L \in Links, WellFormed(L), NEW t \in Task,
           NEW M, M = task_dequeue(L, t)
    PROVE  /\ M \in Links
           /\ WellFormed(M)
           /\ M.owner = [L.owner EXCEPT ![t] = NULL]
           /\ \A r \in Queue : L.head[r] # t => M.head[r] = L.head[r]
           /\ Unlinked(L, M, t)
<1> DEFINE q == L.owner[t]
           n == L.next[t]
           p == L.prev[t]
<1>1. CASE q = NULL
  <2>1. /\ M \in Links
        /\ M.head = L.head
        /\ M.owner = L.owner
        /\ \A u \in Task : u # t =>
              M.next[u] = L.next[u] /\ M.prev[u] = L.prev[u]
    BY <1>1 DEF task_dequeue, Links
  <2>2. [L.owner EXCEPT ![t] = NULL] = L.owner
    BY <1>1 DEF Links
  <2>3. ASSUME NEW r \in Queue
        PROVE  /\ \E z \in Seq(Task) : Ring(M, r, z)
               /\ Contents(M, r) = Contents(L, r)
    <3>1. PICK z \in Seq(Task) : Ring(L, r, z)
      BY DEF WellFormed
    <3>2. \A u \in Task : L.owner[u] = r => u # t
      BY <1>1, NullAssumption
    <3>3. Ring(M, r, z)
      BY <2>1, <3>1, <3>2, OtherRings
    <3>4. Contents(M, r) = z /\ Contents(L, r) = z
      BY <2>1, <3>1, <3>3, ContentsIsRing
    <3> QED
      BY <3>3, <3>4
  <2>4. WellFormed(M)
    BY <2>3 DEF WellFormed
  <2> QED
    BY <1>1, <2>1, <2>2, <2>3, <2>4 DEF Unlinked
<1>2. CASE q # NULL
  <2>1. q \in Queue
    BY <1>2 DEF Links
  <2>2. PICK s \in Seq(Task) : Ring(L, q, s)
    BY <2>1 DEF WellFormed
  <2>3. Len(s) \in Nat /\ \A i \in 1..Len(s) : s[i] \in Task /\ L.owner[s[i]] = q
    BY <2>2 DEF Ring
  <2>4. PICK k \in 1..Len(s) : s[k] = t
    BY <2>2 DEF Ring
  <2>5. \A i \in 1..Len(s) : s[i] = t => i = k
    BY <2>2, <2>4 DEF Ring
  <2>6. /\ n = IF k = Len(s) THEN s[1] ELSE s[k+1]
        /\ p = IF k = 1 THEN s[Len(s)] ELSE s[k-1]
    BY <2>2, <2>4 DEF Ring
  <2>7. n \in Task /\ p \in Task /\ L.owner[n] = q /\ L.owner[p] = q
    BY <1>2, Neighbours
  <2>8. n = t <=> Len(s) = 1
    <3>1. CASE Len(s) = 1
      BY <3>1, <2>4, <2>6
    <3>2. CASE Len(s) # 1 /\ k = Len(s)
      <4>1. 1 \in 1..Len(s) /\ 1 # k
        BY <3>2, <2>3, <2>4
      <4> QED
        BY <3>2, <4>1, <2>5, <2>6
    <3>3. CASE k # Len(s)
      <4>1. k + 1 \in 1..Len(s) /\ k + 1 # k /\ Len(s) # 1
        BY <3>3, <2>3, <2>4
      <4> QED
        BY <3>3, <4>1, <2>5, <2>6
    <3> QED
      BY <3>1, <3>2, <3>3
  <2>9. L.head[q] = s[1]
    BY <2>2, <2>4, <2>3 DEF Ring
  <2>10. /\ M \in Links
         /\ M.owner = [L.owner EXCEPT ![t] = NULL]
    <3>1. CASE n = t
      BY <3>1, <1>2, <2>1 DEF task_dequeue, Links
    <3>2. CASE n # t
      BY <3>2, <1>2, <2>1, <2>7 DEF task_dequeue, Links
    <3> QED
      BY <3>1, <3>2
  <2>11. /\ M.head[q] = IF n = t THEN NULL ELSE IF s[1] = t THEN n ELSE s[1]
         /\ \A r \in Queue : r # q => M.head[r] = L.head[r]
    BY <1>2, <2>1, <2>9 DEF task_dequeue, Links
  <2>12. \A u \in Task : u # t =>
            /\ M.next[u] = IF u = p THEN n ELSE L.next[u]
            /\ M.prev[u] = IF u = n THEN p ELSE L.prev[u]
    <3>1. CASE n = t
      <4>1. Len(s) = 1 /\ k = 1
        <5>1. Len(s) = 1
          BY <3>1, <2>8
        <5> QED
          BY <5>1
      <4>2. p = t
        BY <4>1, <2>4, <2>6
      <4>3. /\ M.next = [L.next EXCEPT ![t] = NULL]
            /\ M.prev = [L.prev EXCEPT ![t] = NULL]
        BY <3>1, <1>2 DEF task_dequeue
      <4> QED
        BY <3>1, <4>2, <4>3 DEF Links
    <3>2. CASE n # t
      BY <3>2, <1>2, <2>7 DEF task_dequeue, Links
    <3> QED
      BY <3>1, <3>2
  <2> DEFINE z == [i \in 1..(Len(s) - 1) |-> IF i < k THEN s[i] ELSE s[i+1]]
  <2>13. /\ z \in Seq(Task) /\ Len(z) = Len(s) - 1
         /\ \A i \in 1..Len(z) : z[i] = IF i < k THEN s[i] ELSE s[i+1]
    <3>1. Len(s) - 1 \in Nat
      BY <2>3, <2>4
    <3>2. \A i \in 1..(Len(s) - 1) : (IF i < k THEN s[i] ELSE s[i+1]) \in Task
      BY <2>3, <2>4
    <3> QED
      BY <3>1, <3>2
  <2> HIDE DEF z
  <2>14. \A i, j \in 1..Len(z) : z[i] = z[j] => i = j
    BY <2>2, <2>3, <2>4, <2>13 DEF Ring
  <2>15. \A u \in Task : M.owner[u] = q <=> \E i \in 1..Len(z) : z[i] = u
    <3> SUFFICES ASSUME NEW u \in Task
                 PROVE  M.owner[u] = q <=> \E i \in 1..Len(z) : z[i] = u
      OBVIOUS
    <3>1. CASE u = t
      <4>1. M.owner[u] # q
        BY <3>1, <2>10, <1>2 DEF Links
      <4>2. \A i \in 1..Len(z) : z[i] # t
        BY <2>3, <2>4, <2>5, <2>13
      <4> QED
        BY <3>1, <4>1, <4>2
    <3>2. CASE u # t
      <4>1. M.owner[u] = L.owner[u]
        BY <3>2, <2>10 DEF Links
      <4>2. L.owner[u] = q <=> \E i \in 1..Len(s) : s[i] = u
        BY <2>2 DEF Ring
      <4>3. ASSUME NEW i \in 1..Len(s), s[i] = u
            PROVE  \E j \in 1..Len(z) : z[j] = u
        <5>1. i # k
          BY <4>3, <3>2, <2>4
        <5>2. CASE i < k
          BY <5>2, <4>3, <2>3, <2>4, <2>13
        <5>3. CASE i > k
          <6>1. i - 1 \in 1..Len(z) /\ z[i-1] = s[i]
            BY <5>3, <2>3, <2>4, <2>13
          <6> QED
            BY <6>1, <4>3
        <5> QED
          BY <5>1, <5>2, <5>3, <2>3, <2>4
      <4>4. ASSUME NEW j \in 1..Len(z), z[j] = u
            PROVE  \E i \in 1..Len(s) : s[i] = u
        BY <4>4, <2>3, <2>4, <2>13
      <4> QED
        BY <4>1, <4>2, <4>3, <4>4
    <3> QED
      BY <3>1, <3>2
  <2>16. \A i \in 1..Len(z) :
            /\ M.next[z[i]] = IF i = Len(z) THEN z[1] ELSE z[i+1]
            /\ M.prev[z[i]] = IF i = 1 THEN z[Len(z)] ELSE z[i-1]
    <3> SUFFICES ASSUME NEW i \in 1..Len(z)
                 PROVE  /\ M.next[z[i]] = IF i = Len(z) THEN z[1] ELSE z[i+1]
                        /\ M.prev[z[i]] = IF i = 1 THEN z[Len(z)] ELSE z[i-1]
      OBVIOUS
    <3> DEFINE j == IF i < k THEN i ELSE i + 1
    <3>1. j \in 1..Len(s) /\ j # k /\ z[i] = s[j] /\ s[j] \in Task /\ s[j] # t
      BY <2>3, <2>4, <2>5, <2>13
    <3>2. /\ L.next[s[j]] = IF j = Len(s) THEN s[1] ELSE s[j+1]
          /\ L.prev[s[j]] = IF j = 1 THEN s[Len(s)] ELSE s[j-1]
      BY <2>2, <3>1 DEF Ring
    <3>3. \A a, b \in 1..Len(s) : s[a] = s[b] => a = b
      BY <2>2 DEF Ring
    <3>4. s[j] = p <=> (IF k = 1 THEN j = Len(s) ELSE j = k - 1)
      BY <2>3, <2>4, <2>6, <3>1, <3>3
    <3>5. s[j] = n <=> (IF k = Len(s) THEN j = 1 ELSE j = k + 1)
      BY <2>3, <2>4, <2>6, <3>1, <3>3
    <3>6. /\ M.next[s[j]] = IF s[j] = p THEN n ELSE L.next[s[j]]
          /\ M.prev[s[j]] = IF s[j] = n THEN p ELSE L.prev[s[j]]
      BY <2>12, <3>1
    <3> HIDE DEF n, p
    <3>7. M.next[z[i]] = IF i = Len(z) THEN z[1] ELSE z[i+1]
      <4>1. CASE s[j] = p
        BY <4>1, <2>3, <2>4, <2>6, <2>13, <3>1, <3>4, <3>6
      <4>2. CASE s[j] # p
        BY <4>2, <2>3, <2>4, <2>13, <3>1, <3>2, <3>4, <3>6
      <4> QED
        BY <4>1, <4>2
    <3>8. M.prev[z[i]] = IF i = 1 THEN z[Len(z)] ELSE z[i-1]
      <4>1. CASE s[j] = n
        BY <4>1, <2>3, <2>4, <2>6, <2>13, <3>1, <3>5, <3>6
      <4>2. CASE s[j] # n
        BY <4>2, <2>3, <2>4, <2>13, <3>1, <3>2, <3>5, <3>6
      <4> QED
        BY <4>1, <4>2
    <3> QED
      BY <3>7, <3>8
  <2>17. M.head[q] = IF z = <<>> THEN NULL ELSE z[1]
    <3>1. z = <<>> <=> Len(z) = 0
      BY <2>13
    <3> QED
      BY <3>1, <2>3, <2>4, <2>5, <2>6, <2>8, <2>11, <2>13
  <2>18. Ring(M, q, z)
    BY <2>14, <2>15, <2>16, <2>17 DEF Ring
  <2>19. ASSUME NEW r \in Queue, r # q
         PROVE  /\ \E y \in Seq(Task) : Ring(M, r, y)
                /\ Contents(M, r) = Contents(L, r)
    <3>1. PICK y \in Seq(Task) : Ring(L, r, y)
      BY DEF WellFormed
    <3>2. \A u \in Task : M.owner[u] = r <=> L.owner[u] = r
      BY <2>10, <2>19, NullAssumption DEF Links
    <3>3. \A u \in Task : L.owner[u] = r =>
              M.next[u] = L.next[u] /\ M.prev[u] = L.prev[u]
      BY <2>7, <2>12, <2>19
    <3>4. Ring(M, r, y)
      BY <3>1, <3>2, <3>3, <2>10, <2>11, <2>19, OtherRings
    <3>5. Contents(M, r) = y /\ Contents(L, r) = y
      BY <3>1, <3>4, <2>10, ContentsIsRing
    <3> QED
      BY <3>4, <3>5
  <2>20. WellFormed(M)
    BY <2>13, <2>18, <2>19 DEF WellFormed
  <2>21. \A r \in Queue : L.head[r] # t => M.head[r] = L.head[r]
    <3>1. ASSUME L.head[q] # t PROVE M.head[q] = L.head[q]
      <4>1. s[1] # t
        BY <3>1, <2>9
      <4>2. n # t
        BY <4>1, <2>4, <2>8, <2>3
      <4> QED
        BY <4>1, <4>2, <2>9, <2>11
    <3> QED
      BY <3>1, <2>11
  <2>22. z = Without(s, k)
    BY <2>13, <2>4, WithoutIs
  <2>23. Contents(L, q) = s /\ Contents(M, q) = z
    BY <2>1, <2>2, <2>10, <2>13, <2>18, ContentsIsRing
  <2>24. Unlinked(L, M, t)
    BY <2>4, <2>19, <2>22, <2>23 DEF Unlinked
  <2> QED
    BY <2>10, <2>20, <2>21, <2>24
<1> QED
  BY <1>1, <1>2

\* taskq_pop is task_dequeue of the head.
LEMMA PopIsDequeue ==
    ASSUME NEW L \in Links, WellFormed(L), NEW q \in Queue, L.head[q] # NULL
    PROVE  taskq_pop(L, q) = task_dequeue(L, L.head[q])
<1> DEFINE h == L.head[q]
<1>1. h \in Task /\ L.owner[h] = q /\ q # NULL
  BY HeadOwned, NullAssumption
<1>2. [L.head EXCEPT ![q] = L.next[h]] =
      [L.head EXCEPT ![q] = IF @ = h THEN L.next[h] ELSE @]
  BY DEF Links
<1> QED
  BY <1>1, <1>2 DEF taskq_pop, task_dequeue

\* Moving the head of a queue on by one, or back by one, keeps it a ring.
LEMMA RotateWellFormed ==
    ASSUME NEW L \in Links, WellFormed(L), NEW q \in Queue, L.head[q] # NULL,
           NEW u \in {L.next[L.head[q]], L.prev[L.head[q]]},
           NEW M, M = SetHead(L, q, u)
    PROVE  /\ M \in Links
           /\ WellFormed(M)
           /\ M.owner = L.owner
           /\ u \in Task /\ M.head[q] = u
           /\ \A r \in Queue : r # q => M.head[r] = L.head[r]
           /\ \A r \in Queue : r # q => Contents(M, r) = Contents(L, r)
           /\ u = L.next[L.head[q]] =>
                Contents(M, q) =
                   Append(Tail(Contents(L, q)), Head(Contents(L, q)))
<1> DEFINE h == L.head[q]
<1>1. h \in Task /\ L.owner[h] = q
  BY HeadOwned
<1>2. u \in Task /\ L.owner[u] = q
  BY <1>1, Neighbours, NullAssumption
<1>3. /\ M \in Links /\ M.owner = L.owner /\ M.next = L.next
      /\ M.prev = L.prev /\ M.head = [L.head EXCEPT ![q] = u]
  BY <1>2 DEF Links, SetHead
<1>4. PICK s \in Seq(Task) : Ring(L, q, s)
  BY DEF WellFormed
<1>5. /\ Len(s) \in Nat /\ Len(s) >= 1 /\ s[1] = h
      /\ \A i \in 1..Len(s) : s[i] \in Task /\ L.owner[s[i]] = q
  <2>1. s # <<>>
    BY <1>4 DEF Ring
  <2> QED
    BY <2>1, <1>4 DEF Ring
<1>6. M.head[q] = u
  BY <1>3 DEF Links
<1>7. \A v \in Task : M.owner[v] = q <=> \E i \in 1..Len(s) : s[i] = v
  BY <1>3, <1>4 DEF Ring
<1>8. \A i \in 1..Len(s) :
        /\ L.next[s[i]] = IF i = Len(s) THEN s[1] ELSE s[i+1]
        /\ L.prev[s[i]] = IF i = 1 THEN s[Len(s)] ELSE s[i-1]
  BY <1>4 DEF Ring
<1>9. \A i, j \in 1..Len(s) : s[i] = s[j] => i = j
  BY <1>4 DEF Ring
<1>10. /\ \E z \in Seq(Task) : Ring(M, q, z)
       /\ u = L.next[h] => Ring(M, q, Append(Tail(s), Head(s)))
  <2>1. CASE u = L.next[h]
    <3> DEFINE z == [i \in 1..Len(s) |-> IF i = Len(s) THEN s[1] ELSE s[i+1]]
    <3>1. /\ z \in Seq(Task) /\ Len(z) = Len(s)
          /\ \A i \in 1..Len(s) : z[i] = IF i = Len(s) THEN s[1] ELSE s[i+1]
      BY <1>5
    <3> HIDE DEF z
    <3>2. z # <<>>
      BY <3>1, <1>5
    <3>3. z[1] = u
      BY <3>1, <1>5, <1>8, <2>1
    <3>4. \A i, j \in 1..Len(z) : z[i] = z[j] => i = j
      <4> SUFFICES ASSUME NEW i \in 1..Len(z), NEW j \in 1..Len(z), z[i] = z[j]
                   PROVE  i = j
        OBVIOUS
      <4> DEFINE at(k) == IF k = Len(s) THEN 1 ELSE k + 1
      <4>1. /\ at(i) \in 1..Len(s) /\ z[i] = s[at(i)]
            /\ at(j) \in 1..Len(s) /\ z[j] = s[at(j)]
        BY <3>1, <1>5
      <4>2. at(i) = at(j)
        BY <4>1, <1>9
      <4> QED
        BY <4>2, <3>1, <1>5
    <3>5. \A i \in 1..Len(s) : \E j \in 1..Len(z) : z[j] = s[i]
      <4> SUFFICES ASSUME NEW i \in 1..Len(s)
                   PROVE  \E j \in 1..Len(z) : z[j] = s[i]
        OBVIOUS
      <4>1. CASE i = 1
        BY <4>1, <1>5, <3>1
      <4>2. CASE i # 1
        <5>1. i - 1 \in 1..Len(z) /\ z[i-1] = s[i]
          BY <4>2, <1>5, <3>1
        <5> QED
          BY <5>1
      <4> QED
        BY <4>1, <4>2
    <3>6. \A j \in 1..Len(z) : \E i \in 1..Len(s) : z[j] = s[i]
      BY <1>5, <3>1
    <3>7. \A v \in Task : M.owner[v] = q <=> \E i \in 1..Len(z) : z[i] = v
      <4> SUFFICES ASSUME NEW v \in Task
                   PROVE  M.owner[v] = q <=> \E i \in 1..Len(z) : z[i] = v
        OBVIOUS
      <4>1. ASSUME NEW i \in 1..Len(s), s[i] = v
            PROVE  \E j \in 1..Len(z) : z[j] = v
        BY <4>1, <3>5
      <4>2. ASSUME NEW j \in 1..Len(z), z[j] = v
            PROVE  \E i \in 1..Len(s) : s[i] = v
        BY <4>2, <3>6
      <4> QED
        BY <1>7, <4>1, <4>2
    <3>8. \A i \in 1..Len(z) :
            /\ M.next[z[i]] = IF i = Len(z) THEN z[1] ELSE z[i+1]
            /\ M.prev[z[i]] = IF i = 1 THEN z[Len(z)] ELSE z[i-1]
      <4> SUFFICES ASSUME NEW i \in 1..Len(s)
                   PROVE  /\ L.next[z[i]] = IF i = Len(s) THEN z[1] ELSE z[i+1]
                          /\ L.prev[z[i]] = IF i = 1 THEN z[Len(s)] ELSE z[i-1]
        BY <1>3, <3>1
      <4>1. CASE i = Len(s)
        BY <4>1, <1>5, <1>8, <3>1
      <4>2. CASE i # Len(s)
        BY <4>2, <1>5, <1>8, <3>1
      <4> QED
        BY <4>1, <4>2
    <3>9. Ring(M, q, z)
      BY <3>2, <3>3, <3>4, <3>7, <3>8, <1>6 DEF Ring
    <3>10. z = Append(Tail(s), Head(s))
      <4>1. s # <<>>
        BY <1>5
      <4>2. /\ Tail(s) \in Seq(Task) /\ Len(Tail(s)) = Len(s) - 1
            /\ \A i \in 1..(Len(s) - 1) : Tail(s)[i] = s[i+1]
            /\ Head(s) = s[1] /\ s[1] \in Task
        BY <4>1, <1>5, HeadTailProperties
      <4> DEFINE a == Append(Tail(s), Head(s))
      <4>3. /\ a \in Seq(Task) /\ Len(a) = Len(s)
            /\ \A i \in 1..Len(s) :
                  a[i] = IF i = Len(s) THEN s[1] ELSE s[i+1]
        <5> DEFINE b == Tail(s)
        <5>1. \A c \in Task :
                 /\ Append(b, c) \in Seq(Task) /\ Len(Append(b, c)) = Len(b) + 1
                 /\ \A i \in 1..Len(b) : Append(b, c)[i] = b[i]
                 /\ Append(b, c)[Len(b) + 1] = c
          <6>1. b \in Seq(Task)
            BY <4>2
          <6> HIDE DEF b
          <6> QED
            BY <6>1
        <5>2. \A i \in 1..Len(s) : i # Len(s) => i \in 1..(Len(s) - 1)
          BY <1>5
        <5>3. Len(b) + 1 = Len(s)
          BY <4>2, <1>5
        <5> HIDE DEF b
        <5>4. a = Append(b, s[1])
          BY <4>2 DEF b
        <5>5. \A i \in 1..(Len(s) - 1) : b[i] = s[i+1]
          BY <4>2 DEF b
        <5>6. Len(b) = Len(s) - 1
          BY <4>2 DEF b
        <5> HIDE DEF a
        <5>7. /\ a \in Seq(Task) /\ Len(a) = Len(s) /\ a[Len(s)] = s[1]
              /\ \A i \in 1..Len(b) : a[i] = b[i]
          BY <4>2, <5>1, <5>3, <5>4
        <5>8. \A i \in 1..Len(s) : i # Len(s) => a[i] = s[i+1]
          BY <5>2, <5>5, <5>6, <5>7
        <5> QED
          BY <5>7, <5>8
      <4> HIDE DEF a
      <4>4. z = a
        BY <4>3, <3>1, SeqEqual
      <4> QED
        BY <4>4 DEF a
    <3> QED
      BY <3>1, <3>9, <3>10
  <2>2. CASE u = L.prev[h] /\ u # L.next[h]
    <3> DEFINE z == [i \in 1..Len(s) |-> IF i = 1 THEN s[Len(s)] ELSE s[i-1]]
    <3>1. /\ z \in Seq(Task) /\ Len(z) = Len(s)
          /\ \A i \in 1..Len(s) : z[i] = IF i = 1 THEN s[Len(s)] ELSE s[i-1]
      BY <1>5
    <3> HIDE DEF z
    <3>2. z # <<>>
      BY <3>1, <1>5
    <3>3. z[1] = u
      BY <3>1, <1>5, <1>8, <2>2
    <3>4. \A i, j \in 1..Len(z) : z[i] = z[j] => i = j
      <4> SUFFICES ASSUME NEW i \in 1..Len(z), NEW j \in 1..Len(z), z[i] = z[j]
                   PROVE  i = j
        OBVIOUS
      <4> DEFINE at(k) == IF k = 1 THEN Len(s) ELSE k - 1
      <4>1. /\ at(i) \in 1..Len(s) /\ z[i] = s[at(i)]
            /\ at(j) \in 1..Len(s) /\ z[j] = s[at(j)]
        BY <3>1, <1>5
      <4>2. at(i) = at(j)
        BY <4>1, <1>9
      <4> QED
        BY <4>2, <3>1, <1>5
    <3>5. \A i \in 1..Len(s) : \E j \in 1..Len(z) : z[j] = s[i]
      <4> SUFFICES ASSUME NEW i \in 1..Len(s)
                   PROVE  \E j \in 1..Len(z) : z[j] = s[i]
        OBVIOUS
      <4>1. CASE i = Len(s)
        BY <4>1, <1>5, <3>1
      <4>2. CASE i # Len(s)
        <5>1. i + 1 \in 1..Len(z) /\ z[i+1] = s[i]
          BY <4>2, <1>5, <3>1
        <5> QED
          BY <5>1
      <4> QED
        BY <4>1, <4>2
    <3>6. \A j \in 1..Len(z) : \E i \in 1..Len(s) : z[j] = s[i]
      BY <1>5, <3>1
    <3>7. \A v \in Task : M.owner[v] = q <=> \E i \in 1..Len(z) : z[i] = v
      <4> SUFFICES ASSUME NEW v \in Task
                   PROVE  M.owner[v] = q <=> \E i \in 1..Len(z) : z[i] = v
        OBVIOUS
      <4>1. ASSUME NEW i \in 1..Len(s), s[i] = v
            PROVE  \E j \in 1..Len(z) : z[j] = v
        BY <4>1, <3>5
      <4>2. ASSUME NEW j \in 1..Len(z), z[j] = v
            PROVE  \E i \in 1..Len(s) : s[i] = v
        BY <4>2, <3>6
      <4> QED
        BY <1>7, <4>1, <4>2
    <3>8. \A i \in 1..Len(z) :
            /\ M.next[z[i]] = IF i = Len(z) THEN z[1] ELSE z[i+1]
            /\ M.prev[z[i]] = IF i = 1 THEN z[Len(z)] ELSE z[i-1]
      BY <1>3, <1>5, <1>8, <3>1
    <3>9. Ring(M, q, z)
      BY <3>2, <3>3, <3>4, <3>7, <3>8, <1>6 DEF Ring
    <3> QED
      BY <2>2, <3>1, <3>9
  <2> QED
    BY <2>1, <2>2
<1>11. ASSUME NEW r \in Queue, r # q
       PROVE  /\ \E z \in Seq(Task) : Ring(M, r, z)
              /\ Contents(M, r) = Contents(L, r)
  <2>1. PICK z \in Seq(Task) : Ring(L, r, z)
    BY DEF WellFormed
  <2>2. M.head[r] = L.head[r]
    BY <1>3, <1>11 DEF Links
  <2>3. Ring(M, r, z)
    BY <2>1, <2>2, <1>3, OtherRings
  <2>4. Contents(M, r) = z /\ Contents(L, r) = z
    BY <2>1, <2>3, <1>3, ContentsIsRing
  <2> QED
    BY <2>3, <2>4
<1>12. WellFormed(M)
  BY <1>10, <1>11 DEF WellFormed
<1>13. \A r \in Queue : r # q => M.head[r] = L.head[r]
  BY <1>3 DEF Links
<1>14. ASSUME u = L.next[h]
       PROVE  Contents(M, q) = Append(Tail(Contents(L, q)), Head(Contents(L, q)))
  <2>1. Contents(L, q) = s
    BY <1>4, ContentsIsRing
  <2>2. Append(Tail(s), Head(s)) \in Seq(Task)
    <3>1. s # <<>>
      BY <1>5
    <3> QED
      BY <3>1
  <2>3. Contents(M, q) = Append(Tail(s), Head(s))
    BY <1>3, <1>10, <1>14, <2>2, ContentsIsRing
  <2> QED
    BY <2>1, <2>3
<1> QED
  BY <1>2, <1>3, <1>6, <1>11, <1>12, <1>13, <1>14
=============================================================================
