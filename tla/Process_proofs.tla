--------------------------- MODULE Process_proofs ---------------------------
(***************************************************************************)
(* Processes keep their slots and their images, no wakeup of wait is lost  *)
(* and no kernel stack leaks, for any number of tasks, slots and stacks,   *)
(* as long as the program in slot 0, the shell, is the only one that calls *)
(* exec and wait, and the open file table does not fill up.  A descriptor  *)
(* of a process refers to what was opened for it, for any number of        *)
(* processes, descriptors, entries and calls of open and exec.             *)
(***************************************************************************)
EXTENDS Process, Files, FiniteSetTheorems, TLAPS

OneShell == Shells \subseteq {0} /\ DupFails = FALSE

ProcRecord == [pid : Nat, parent : Slot \cup {NoProc}, task : Thread \cup {NoProc},
               zombie : BOOLEAN, image : Nat \cup {NoProc}]
Table == [Slot -> ProcRecord]

ProcTypeOK ==
    /\ proc \in Table
    /\ waitq \in [Slot -> Seq(Thread)]
    /\ nextpid \in Nat \ {0}
    /\ process \in [Thread -> Slot \cup {NoProc}]
    /\ freeing \in [Thread -> BOOLEAN]
    /\ pc \in [Thread -> Place]
    /\ at \in [Thread -> Slot \cup {NoProc}]
    /\ child \in [Thread -> Thread \cup {NoProc}]
    /\ freestk \in Nat

\* Where a task is that still needs the slot of its process.
Living == {"user", "exec", "allocated", "started", "linked", "wait",
           "blocked", "reap", "exit"}
Alive(t) == t # Kernel /\ pc[t] \in Living

\* Slots: every task that lives has one of its own, which is in use, is no
\* zombie and names an image in memory.
AliveHasSlot ==
    \A t \in Thread : Alive(t) =>
        /\ process[t] \in Slot
        /\ proc[process[t]].pid \in images
        /\ ~ proc[process[t]].zombie
        /\ \A u \in Thread : Alive(u) /\ u # t => process[u] # process[t]

\* Pids are not used twice, and what a slot names is its own image.
PidsDiffer ==
    /\ images \subseteq Nat \ {0}
    /\ \A i \in Slot :
        /\ proc[i].pid < nextpid
        /\ proc[i].image \in {NoProc, proc[i].pid} \ {0}
        /\ proc[i].zombie => proc[i].pid # 0
        /\ \A j \in Slot : proc[i].pid # 0 /\ proc[i].pid = proc[j].pid => i = j

\* Only the shell is inside exec and wait, the kernel's exec works on slot 0,
\* before anything else is there, and the shell's on another one.
KernelFirst ==
    /\ pc[Kernel] \in {"exec", "allocated", "started", "linked", "done"}
    /\ process[Kernel] = NoProc
    /\ pc[Kernel] \in {"exec", "allocated"} =>
          \A t \in Thread : t # Kernel => pc[t] = "free"
    /\ pc[Kernel] = "exec" => \A i \in Slot : proc[i].pid = 0
    /\ pc[Kernel] = "allocated" => \A i \in Slot : i # 0 => proc[i].pid = 0
    /\ pc[Kernel] \in {"allocated", "started", "linked"} => at[Kernel] = 0
    /\ \A t \in Thread : Alive(t) /\ pc[t] \notin {"user", "exit"} => process[t] = 0

ExecSlots ==
    /\ \A t \in Thread : pc[t] \in {"allocated", "started", "linked"} =>
          /\ at[t] \in Slot /\ (t # Kernel => at[t] # 0)
          /\ pc[t] = "allocated" =>
                /\ proc[at[t]].pid # 0 /\ ~ proc[at[t]].zombie
                /\ \A u \in Thread : Alive(u) => process[u] # at[t]
    /\ \A t \in Thread : pc[t] = "reap" => at[t] \in Slot /\ proc[at[t]].zombie

\* A task is named in one place at most: by the exec that has started it, by
\* the slot of its process, or by an exit that is about to mark it.
Started(t, c) == pc[t] = "started" /\ child[t] = c
Marking(t, c) == pc[t] = "marking" /\ child[t] = c
OnceNamed(c) ==
    /\ \A t, u \in Thread : Started(t, c) /\ Started(u, c) => t = u
    /\ \A t, u \in Thread : Marking(t, c) /\ Marking(u, c) => t = u
    /\ \A i, j \in Slot : proc[i].task = c /\ proc[j].task = c => i = j
    /\ \A t, u \in Thread : ~ (Started(t, c) /\ Marking(u, c))
    /\ \A t \in Thread, i \in Slot : ~ (Started(t, c) /\ proc[i].task = c)
    /\ \A t \in Thread, i \in Slot : ~ (Marking(t, c) /\ proc[i].task = c)
NamedOnce == \A c \in Thread : OnceNamed(c)

\* One that lives is named for its own slot, and one that is marked or free
\* nowhere.
NotNamed(c) == /\ \A t \in Thread : ~ Started(t, c) /\ ~ Marking(t, c)
               /\ \A i \in Slot : proc[i].task # c
NamedForOwn(c) == /\ \A t \in Thread : Started(t, c) => at[t] = process[c]
                  /\ \A t \in Thread : ~ Marking(t, c)
                  /\ \A i \in Slot : proc[i].task = c => i = process[c]
RightlyNamed(c) == /\ Alive(c) => NamedForOwn(c)
                   /\ freeing[c] \/ pc[c] = "free" \/ c = Kernel => NotNamed(c)
NamedRight == \A c \in Thread : RightlyNamed(c)

\* A shell that waits is the one task on the queue of slot 0, and has no
\* child that has ended; children have the shell as parent, or none.
Waits ==
    /\ \A i \in Slot : proc[i].parent \in {0, NoProc}
    /\ \A i \in Slot : i # 0 => waitq[i] = <<>>
    /\ waitq[0] = <<>> \/ \E t \in Thread : waitq[0] = <<t>> /\ pc[t] = "blocked"
    /\ \A t \in Thread : pc[t] = "blocked" =>
          /\ waitq[0] = <<t>>
          /\ \A i \in Slot : proc[i].parent = 0 => ~ proc[i].zombie

\* The kernel stacks in use are counted.
Calling == {t \in Thread \ {Kernel} : pc[t] \in InCall}
Stacks == IsFiniteSet(Calling) /\ freestk + Cardinality(Calling) = KSTACKS

ProcInv == /\ ProcTypeOK /\ AliveHasSlot /\ PidsDiffer /\ KernelFirst
           /\ ExecSlots /\ NamedOnce /\ NamedRight /\ Waits /\ Stacks

-----------------------------------------------------------------------------
LEMMA Nulls ==
    /\ 0 \in Slot /\ Slot \subseteq Nat
    /\ NoProc \notin Thread /\ NoProc \notin Slot /\ NoProc \notin Nat
    /\ Kernel \in Thread
BY ProcessAssumption DEF Slot

\* What the table Q is, if P has been changed: slot i has got the pid x, the
\* image d, or has been given up.
PidChanged(P, Q, i, x) ==
    /\ Q[i].pid = x /\ \A j \in Slot \ {i} : Q[j].pid = P[j].pid
    /\ \A j \in Slot : /\ Q[j].parent = P[j].parent /\ Q[j].task = P[j].task
                       /\ Q[j].zombie <=> P[j].zombie
                       /\ Q[j].image = P[j].image

ImageChanged(P, Q, i, d) ==
    \A j \in Slot :
        /\ Q[j].pid = P[j].pid /\ Q[j].parent = P[j].parent
        /\ Q[j].task = P[j].task
        /\ Q[j].zombie <=> j # 0 /\ P[j].zombie
        /\ Q[j].image = IF j = i THEN d ELSE IF j = 0 THEN NoProc ELSE P[j].image

GivenUp(P, Q, i) ==
    /\ \A j \in Slot : Q[j].parent = P[j].parent
    /\ \A j \in Slot \ {i} : Q[j] = P[j]
    /\ Q[i].pid = 0 /\ Q[i].task = NoProc /\ ~ Q[i].zombie /\ Q[i].image = NoProc

LEMMA PidSet ==
    ASSUME NEW P \in Table, NEW i \in Slot, NEW x \in Nat
    PROVE  /\ [P EXCEPT ![i].pid = x] \in Table
           /\ PidChanged(P, [P EXCEPT ![i].pid = x], i, x)
<1> DEFINE r == [P[i] EXCEPT !.pid = x]
           Q == [P EXCEPT ![i] = r]
<1>1. [P EXCEPT ![i].pid = x] = Q
  OBVIOUS
<1>2. /\ r \in ProcRecord /\ r.pid = x /\ r.parent = P[i].parent
      /\ r.task = P[i].task /\ (r.zombie <=> P[i].zombie) /\ r.image = P[i].image
  BY DEF Table, ProcRecord
<1> HIDE DEF r
<1>3. Q \in Table /\ Q[i] = r /\ \A j \in Slot \ {i} : Q[j] = P[j]
  BY <1>2 DEF Table
<1> HIDE DEF Q
<1>4. Q[i].pid = x /\ \A j \in Slot \ {i} : Q[j].pid = P[j].pid
  BY <1>2, <1>3
<1>5. ASSUME NEW j \in Slot
      PROVE  /\ Q[j].parent = P[j].parent /\ Q[j].task = P[j].task
             /\ Q[j].zombie <=> P[j].zombie
             /\ Q[j].image = P[j].image
  <2>1. CASE j = i
    BY <1>2, <1>3, <2>1
  <2>2. CASE j # i
    BY <1>3, <2>2
  <2> QED
    BY <2>1, <2>2
<1>6. PidChanged(P, Q, i, x)
  BY <1>4, <1>5 DEF PidChanged
<1> QED
  BY <1>1, <1>3, <1>6

LEMMA InitialisedIs ==
    ASSUME proc \in Table, NEW i \in Slot, NEW d \in Nat \cup {NoProc}
    PROVE  /\ Initialised(i, d) \in Table
           /\ ImageChanged(proc, Initialised(i, d), i, d)
<1> DEFINE A == [proc EXCEPT ![0] = [@ EXCEPT !.image = NoProc]]
           B == [A EXCEPT ![0] = [@ EXCEPT !.zombie = FALSE]]
           C == [B EXCEPT ![i] = [@ EXCEPT !.image = d]]
<1>1. Initialised(i, d) = C
  BY DEF Initialised
<1>2. A \in Table
  BY Nulls DEF Table, ProcRecord
<1>3. B \in Table
  <2> HIDE DEF A
  <2> QED
    BY <1>2, Nulls DEF Table, ProcRecord
<1>4. C \in Table
  <2> HIDE DEF B
  <2> QED
    BY <1>3 DEF Table, ProcRecord
<1>5. \A j \in Slot : /\ A[j].pid = proc[j].pid /\ A[j].parent = proc[j].parent
                      /\ A[j].task = proc[j].task /\ (A[j].zombie <=> proc[j].zombie)
                      /\ A[j].image = IF j = 0 THEN NoProc ELSE proc[j].image
  BY Nulls DEF Table, ProcRecord
<1>6. \A j \in Slot : /\ B[j].pid = A[j].pid /\ B[j].parent = A[j].parent
                      /\ B[j].task = A[j].task /\ B[j].image = A[j].image
                      /\ B[j].zombie <=> j # 0 /\ A[j].zombie
  <2> HIDE DEF A
  <2> QED
    BY <1>2, Nulls DEF Table, ProcRecord
<1>7. \A j \in Slot : /\ C[j].pid = B[j].pid /\ C[j].parent = B[j].parent
                      /\ C[j].task = B[j].task /\ (C[j].zombie <=> B[j].zombie)
                      /\ C[j].image = IF j = i THEN d ELSE B[j].image
  <2> HIDE DEF B
  <2> QED
    BY <1>3 DEF Table, ProcRecord
<1> HIDE DEF A, B, C
<1> QED
  <2>1. ImageChanged(proc, C, i, d)
    BY <1>5, <1>6, <1>7 DEF ImageChanged
  <2> QED
    BY <1>1, <1>4, <2>1

LEMMA FreedIs ==
    ASSUME NEW P \in Table, NEW i \in Slot, proc_free(P, i)
    PROVE  /\ proc' \in Table /\ images' = images \ {P[i].image}
           /\ GivenUp(P, proc', i)
<1> DEFINE A == [P EXCEPT ![i] = [@ EXCEPT !.image = NoProc]]
           B == [A EXCEPT ![i] = [@ EXCEPT !.task = NoProc]]
           C == [B EXCEPT ![i] = [@ EXCEPT !.zombie = FALSE]]
           D == [C EXCEPT ![i] = [@ EXCEPT !.pid = 0]]
<1>1. proc' = D /\ images' = images \ {P[i].image}
  BY DEF proc_free
<1>2. /\ A \in Table /\ A[i].image = NoProc /\ A[i].parent = P[i].parent
      /\ \A j \in Slot \ {i} : A[j] = P[j]
  BY DEF Table, ProcRecord
<1> HIDE DEF A
<1>3. /\ B \in Table /\ B[i].image = A[i].image /\ B[i].parent = A[i].parent
      /\ B[i].task = NoProc
      /\ \A j \in Slot \ {i} : B[j] = A[j]
  BY <1>2 DEF Table, ProcRecord
<1> HIDE DEF B
<1>4. /\ C \in Table /\ C[i].image = B[i].image /\ C[i].parent = B[i].parent
      /\ C[i].task = B[i].task /\ ~ C[i].zombie
      /\ \A j \in Slot \ {i} : C[j] = B[j]
  <2> DEFINE r == [B[i] EXCEPT !.zombie = FALSE]
  <2>1. /\ r \in ProcRecord /\ r.image = B[i].image /\ r.parent = B[i].parent
        /\ r.task = B[i].task /\ ~ r.zombie
    <3>1. B[i] \in ProcRecord
      BY <1>3 DEF Table
    <3>2. r \in ProcRecord /\ r.zombie = FALSE
      BY <3>1 DEF ProcRecord
    <3>3. r.image = B[i].image /\ r.parent = B[i].parent /\ r.task = B[i].task
      BY <3>1 DEF ProcRecord
    <3> HIDE DEF r
    <3> QED
      BY <3>2, <3>3
  <2>2. C = [B EXCEPT ![i] = r]
    BY DEF C
  <2> HIDE DEF r, C
  <2>3. C \in Table /\ C[i] = r /\ \A j \in Slot \ {i} : C[j] = B[j]
    BY <1>3, <2>1, <2>2 DEF Table
  <2> QED
    BY <2>1, <2>3
<1> HIDE DEF C
<1>5. /\ D \in Table /\ D[i].image = C[i].image /\ D[i].parent = C[i].parent
      /\ D[i].task = C[i].task /\ (D[i].zombie <=> C[i].zombie) /\ D[i].pid = 0
      /\ \A j \in Slot \ {i} : D[j] = C[j]
  BY <1>4, Nulls DEF Table, ProcRecord
<1> HIDE DEF D
<1> QED
  BY <1>1, <1>2, <1>3, <1>4, <1>5 DEF GivenUp

LEMMA Typed ==
    ASSUME ProcInv
    PROVE  /\ proc \in Table /\ waitq \in [Slot -> Seq(Thread)]
           /\ nextpid \in Nat /\ nextpid # 0 /\ process \in [Thread -> Slot \cup {NoProc}]
           /\ freeing \in [Thread -> BOOLEAN] /\ pc \in [Thread -> Place]
           /\ at \in [Thread -> Slot \cup {NoProc}]
           /\ child \in [Thread -> Thread \cup {NoProc}] /\ freestk \in Nat
           /\ \A j \in Slot : proc[j].pid \in Nat
BY DEF ProcInv, ProcTypeOK, Table, ProcRecord

\* Two tasks that are inside exec or wait are one, or one is the kernel's.
LEMMA ShellAlone ==
    ASSUME ProcInv, NEW t \in Thread, NEW u \in Thread,
           t # Kernel, u # Kernel, Alive(t), Alive(u),
           pc[t] \notin {"user", "exit"}, pc[u] \notin {"user", "exit"}
    PROVE  t = u
BY DEF ProcInv, KernelFirst, AliveHasSlot

\* The kernel's task does nothing but its one exec.
LEMMA KernelPlace ==
    ASSUME ProcInv, NEW t \in Thread,
           pc[t] \notin {"exec", "allocated", "started", "linked", "done"}
    PROVE  t # Kernel
BY DEF ProcInv, KernelFirst

\* As long as the kernel has not started the shell there is no other task.
LEMMA KernelAlone ==
    ASSUME ProcInv, NEW t \in Thread, t # Kernel, pc[t] # "free"
    PROVE  pc[Kernel] \in {"started", "linked", "done"}
BY DEF ProcInv, KernelFirst

\* A task enters a system call, and takes a stack.
LEMMA TakesStack ==
    ASSUME ProcInv, NEW t \in Thread, t # Kernel, pc[t] \notin InCall,
           NEW x \in InCall, freestk # 0, freestk' = freestk - 1,
           pc' = [pc EXCEPT ![t] = x]
    PROVE  Stacks' /\ freestk' \in Nat
<1>1. freestk \in Nat /\ pc \in [Thread -> Place] /\ KSTACKS \in Nat
  BY ProcessAssumption DEF ProcInv, ProcTypeOK
<1>2. IsFiniteSet(Calling) /\ freestk + Cardinality(Calling) = KSTACKS
  BY DEF ProcInv, Stacks
<1>3. t \notin Calling /\ Calling' = Calling \cup {t}
  BY <1>1 DEF Calling
<1>4. IsFiniteSet(Calling') /\ Cardinality(Calling') = Cardinality(Calling) + 1
  BY <1>2, <1>3, FS_AddElement
<1>5. Cardinality(Calling) \in Nat
  BY <1>2, FS_CardinalityType
<1> HIDE DEF Calling
<1> QED
  BY <1>1, <1>2, <1>4, <1>5 DEF Stacks

\* A task leaves its call, and gives the stack back.
LEMMA GivesStack ==
    ASSUME ProcInv, NEW t \in Thread, t # Kernel, pc[t] \in InCall,
           NEW x, x \notin InCall, freestk' = freestk + 1,
           pc' = [pc EXCEPT ![t] = x]
    PROVE  Stacks' /\ freestk' \in Nat
<1>1. freestk \in Nat /\ pc \in [Thread -> Place] /\ KSTACKS \in Nat
  BY ProcessAssumption DEF ProcInv, ProcTypeOK
<1>2. IsFiniteSet(Calling) /\ freestk + Cardinality(Calling) = KSTACKS
  BY DEF ProcInv, Stacks
<1>3. t \in Calling /\ Calling' = Calling \ {t}
  BY <1>1 DEF Calling
<1>4. IsFiniteSet(Calling') /\ Cardinality(Calling') = Cardinality(Calling) - 1
  BY <1>2, <1>3, FS_RemoveElement
<1>5. Cardinality(Calling) \in Nat
  BY <1>2, FS_CardinalityType
<1> HIDE DEF Calling
<1> QED
  BY <1>1, <1>2, <1>4, <1>5 DEF Stacks

\* A task goes on inside its call, or outside.
LEMMA KeepsStack ==
    ASSUME ProcInv, freestk' = freestk, pc' \in [Thread -> Place],
           \A t \in Thread : t # Kernel => (pc'[t] \in InCall <=> pc[t] \in InCall)
    PROVE  Stacks' /\ freestk' \in Nat
<1>1. Calling' = Calling
  BY DEF Calling
<1> QED
  BY <1>1 DEF Stacks, ProcInv, ProcTypeOK

\* Return does one of the two.
LEMMA ReturnStacks ==
    ASSUME ProcInv, NEW t \in Thread, pc[t] \in InCall, Return(t)
    PROVE  /\ Stacks' /\ freestk' \in Nat
           /\ pc' = [pc EXCEPT ![t] = IF t = Kernel THEN "done" ELSE "user"]
<1>0. pc \in [Thread -> Place]
  BY DEF ProcInv, ProcTypeOK
<1>1. CASE t = Kernel
  <2>1. pc' = [pc EXCEPT ![t] = "done"] /\ freestk' = freestk
    BY <1>1 DEF Return, Goto
  <2>2. pc' \in [Thread -> Place]
    BY <1>0, <2>1 DEF Place
  <2>3. \A u \in Thread : u # Kernel => (pc'[u] \in InCall <=> pc[u] \in InCall)
    BY <1>0, <1>1, <2>1
  <2> QED
    BY <1>1, <2>1, <2>2, <2>3, KeepsStack
<1>2. CASE t # Kernel
  <2>1. pc' = [pc EXCEPT ![t] = "user"] /\ freestk' = freestk + 1
    BY <1>2 DEF Return, Goto
  <2>2. "user" \notin InCall
    BY DEF InCall
  <2> QED
    BY <1>2, <2>1, <2>2, GivesStack
<1> QED
  BY <1>1, <1>2

\* Nobody names a task who did not before.
LEMMA NamesKept ==
    ASSUME NEW c \in Thread,
           \A u \in Thread : Started(u, c)' => Started(u, c),
           \A u \in Thread : Marking(u, c)' => Marking(u, c),
           \A j \in Slot : proc'[j].task = c => proc[j].task = c
    PROVE  /\ OnceNamed(c) => OnceNamed(c)'
           /\ NotNamed(c) => NotNamed(c)'
           /\ NamedForOwn(c) /\ process'[c] = process[c]
                 /\ (\A u \in Thread : Started(u, c)' => at'[u] = at[u])
              => NamedForOwn(c)'
<1>1. OnceNamed(c) => OnceNamed(c)'
  BY DEF OnceNamed
<1>2. NotNamed(c) => NotNamed(c)'
  BY DEF NotNamed
<1>3. NamedForOwn(c) /\ process'[c] = process[c]
         /\ (\A u \in Thread : Started(u, c)' => at'[u] = at[u])
      => NamedForOwn(c)'
  BY DEF NamedForOwn
<1> QED
  BY <1>1, <1>2, <1>3

-----------------------------------------------------------------------------
(* The actions keep the invariant.                                         *)

\* The shell enters or leaves a call, or the kernel's exec ends: nothing but
\* the place of a task changes.
LEMMA PlaceKeeps ==
    ASSUME ProcInv, NEW t \in Thread, NEW x \in {"user", "exec", "wait", "exit", "done"},
           UNCHANGED <<proc, waitq, nextpid, process, freeing, at, child, images>>,
           pc' = [pc EXCEPT ![t] = x], Stacks', freestk' \in Nat,
           IF t = Kernel THEN x = "done"
           ELSE x # "done" /\ pc[t] \in Living /\ pc[t] # "blocked",
           t = Kernel \/ x \in {"user", "exit"} \/ process[t] = 0
    PROVE  ProcInv'
<1>1. ProcTypeOK'
  BY DEF ProcInv, ProcTypeOK, Place
<1>2. /\ pc'[t] = x /\ \A u \in Thread : u # t => pc'[u] = pc[u]
  BY DEF ProcInv, ProcTypeOK
<1>3. \A u \in Thread : Alive(u)' <=> Alive(u)
  BY <1>2 DEF Alive, Living
<1>4. AliveHasSlot' /\ PidsDiffer'
  BY <1>3 DEF ProcInv, AliveHasSlot, PidsDiffer
<1>5. KernelFirst'
  <2>1. KernelFirst
    BY DEF ProcInv
  <2>2. pc'[Kernel] \in {"exec", "allocated"} =>
           pc'[Kernel] = pc[Kernel] /\ t # Kernel
    BY <1>2, Nulls
  <2>3. pc'[Kernel] \in {"exec", "allocated"} => FALSE
    BY <2>1, <2>2 DEF KernelFirst, Living
  <2>4. /\ pc'[Kernel] \in {"exec", "allocated", "started", "linked", "done"}
        /\ pc'[Kernel] \in {"allocated", "started", "linked"} =>
              pc'[Kernel] = pc[Kernel]
    BY <2>1, <1>2, Nulls DEF KernelFirst
  <2>5. \A u \in Thread : Alive(u)' /\ pc'[u] \notin {"user", "exit"} => process[u] = 0
    BY <2>1, <1>2, <1>3 DEF KernelFirst, Alive, Living
  <2> QED
    BY <2>1, <2>3, <2>4, <2>5 DEF KernelFirst
<1>6. \A u \in Thread : pc'[u] \in {"allocated", "started", "linked", "reap", "blocked", "marking", "free"} =>
          pc'[u] = pc[u]
  BY <1>2
<1>7. ExecSlots'
  BY <1>3, <1>6 DEF ProcInv, ExecSlots
<1>8. \A u, c \in Thread : /\ Started(u, c)' => Started(u, c)
                           /\ Marking(u, c)' => Marking(u, c)
  BY <1>6 DEF Started, Marking
<1>9. NamedOnce'
  BY <1>8, NamesKept DEF ProcInv, NamedOnce
<1>10. NamedRight'
  BY <1>3, <1>6, <1>8, NamesKept DEF ProcInv, NamedRight, RightlyNamed
<1>11. Waits'
  <2>1. Waits
    BY DEF ProcInv
  <2>2. \A u \in Thread : pc[u] = "blocked" <=> pc'[u] = "blocked"
    <3>1. pc[t] # "blocked"
      BY DEF ProcInv, KernelFirst
    <3> QED
      BY <3>1, <1>2
  <2> QED
    BY <2>1, <2>2 DEF Waits
<1> QED
  BY <1>1, <1>4, <1>5, <1>7, <1>9, <1>10, <1>11 DEF ProcInv

LEMMA disp_Keeps ==
    ASSUME ProcInv, OneShell, NEW t \in Thread, NEW call \in Calls, disp(t, call)
    PROVE  ProcInv'
<1>1. pc[t] = "user" /\ t # Kernel
  BY KernelPlace DEF disp
<1>2. call \in {"exec", "wait", "exit"} /\ (call = "exit" \/ process[t] = 0)
  BY DEF disp, Calls, OneShell
<1>3. UNCHANGED <<proc, waitq, nextpid, process, freeing, at, child, images>>
  BY DEF disp
<1>4. CASE freestk = 0
  <2>1. UNCHANGED <<freestk, pc>>
    BY <1>4 DEF disp
  <2> QED
    BY <2>1, <1>3 DEF ProcInv, ProcTypeOK, AliveHasSlot, Alive, PidsDiffer,
       KernelFirst, ExecSlots, NamedOnce, OnceNamed, NamedRight, RightlyNamed,
       NamedForOwn, NotNamed, Started, Marking, Waits,
       Stacks, Calling
<1>5. CASE freestk # 0
  <2>1. freestk' = freestk - 1 /\ pc' = [pc EXCEPT ![t] = call]
    BY <1>5 DEF disp, Goto
  <2>2. Stacks' /\ freestk' \in Nat
    <3>1. call \in InCall /\ pc[t] \notin InCall
      BY <1>1, <1>2 DEF InCall
    <3> QED
      BY <1>1, <1>5, <2>1, <3>1, TakesStack
  <2>3. pc[t] \in Living /\ pc[t] # "blocked"
    BY <1>1 DEF Living
  <2> QED
    BY <1>1, <1>2, <1>3, <2>1, <2>2, <2>3, PlaceKeeps
<1> QED
  BY <1>4, <1>5

LEMMA exec_fails_Keeps ==
    ASSUME ProcInv, NEW t \in Thread, exec_fails(t)
    PROVE  ProcInv'
<1>1. pc[t] = "exec" /\ Return(t)
      /\ UNCHANGED <<proc, waitq, nextpid, process, freeing, at, child, images>>
  BY DEF exec_fails
<1>2. Stacks' /\ freestk' \in Nat
      /\ pc' = [pc EXCEPT ![t] = IF t = Kernel THEN "done" ELSE "user"]
  <2>1. pc[t] \in InCall
    BY <1>1 DEF InCall
  <2> QED
    BY <1>1, <2>1, ReturnStacks
<1>3. pc[t] \in Living /\ pc[t] # "blocked"
  BY <1>1 DEF Living
<1>4. CASE t = Kernel
  BY <1>1, <1>2, <1>4, PlaceKeeps
<1>5. CASE t # Kernel
  BY <1>1, <1>2, <1>3, <1>5, PlaceKeeps
<1> QED
  BY <1>4, <1>5

\* proc_alloc: the slot it reserves is nobody's.
LEMMA proc_alloc_Keeps ==
    ASSUME ProcInv, NEW t \in Thread, proc_alloc(t)
    PROVE  ProcInv'
<1>1. pc[t] = "exec" /\ pc' = [pc EXCEPT ![t] = "allocated"] /\ nextpid' = nextpid + 1
      /\ UNCHANGED <<waitq, process, freeing, child, images, freestk>>
  BY DEF proc_alloc, Goto
<1>2. PICK i \in Unused : /\ \A j \in Unused : i <= j
                          /\ proc' = [proc EXCEPT ![i].pid = nextpid]
                          /\ at' = [at EXCEPT ![t] = i]
  BY DEF proc_alloc
<1>3. i \in Slot /\ proc[i].pid = 0 /\ nextpid \in Nat /\ nextpid # 0
  BY <1>2 DEF Unused, ProcInv, ProcTypeOK
<1>4. ProcTypeOK'
  <2>1. proc' \in Table
    BY <1>2, <1>3, Typed, PidSet
  <2>2. at' \in [Thread -> Slot \cup {NoProc}]
    BY <1>2, <1>3, Typed
  <2>3. pc' \in [Thread -> Place] /\ nextpid' \in Nat \ {0}
    BY <1>1, <1>3, Typed DEF Place
  <2> QED
    BY <1>1, <2>1, <2>2, <2>3, Typed DEF ProcTypeOK
<1>5. /\ pc'[t] = "allocated" /\ \A u \in Thread : u # t => pc'[u] = pc[u]
      /\ at'[t] = i /\ \A u \in Thread : u # t => at'[u] = at[u]
      /\ \A u \in Thread : Alive(u)' <=> Alive(u)
  BY <1>1, <1>2 DEF ProcInv, ProcTypeOK, Alive, Living
<1>6. PidChanged(proc, proc', i, nextpid)
  BY <1>2, <1>3, Typed, PidSet
<1>7. \A u \in Thread : Alive(u) => process[u] # i
  BY <1>3 DEF ProcInv, AliveHasSlot, PidsDiffer
<1>8. ~ proc[i].zombie /\ proc[i].image = NoProc
  BY <1>3 DEF ProcInv, PidsDiffer
<1>9. AliveHasSlot'
  BY <1>1, <1>5, <1>6, <1>7 DEF ProcInv, AliveHasSlot, PidChanged
<1>10. PidsDiffer'
  <2>1. PidsDiffer /\ \A j \in Slot : proc[j].pid \in Nat
    BY Typed DEF ProcInv
  <2> QED
    BY <2>1, <1>1, <1>3, <1>6, <1>8 DEF PidsDiffer, PidChanged
<1>11. t # Kernel => i # 0 /\ pc[Kernel] \in {"started", "linked", "done"}
  <2>1. ASSUME t # Kernel PROVE i # 0
    <3>1. Alive(t) /\ process[t] = 0
      BY <2>1, <1>1 DEF ProcInv, KernelFirst, Alive, Living
    <3> QED
      BY <3>1, <1>7
  <2> QED
    BY <2>1, <1>1, KernelAlone
<1>12. t = Kernel => i = 0 /\ \A j \in Slot : proc[j].pid = 0
  <2> SUFFICES ASSUME t = Kernel PROVE i = 0 /\ \A j \in Slot : proc[j].pid = 0
    OBVIOUS
  <2>1. \A j \in Slot : proc[j].pid = 0
    BY <1>1 DEF ProcInv, KernelFirst
  <2>2. 0 \in Unused
    BY <2>1, Nulls DEF Unused
  <2>3. i <= 0 /\ i \in Nat
    BY <2>2, <1>2, <1>3, Nulls
  <2> QED
    BY <2>1, <2>3
<1>13. KernelFirst'
  <2>1. KernelFirst
    BY DEF ProcInv
  <2>2. \A u \in Thread : Alive(u)' /\ pc'[u] \notin {"user", "exit"} => process[u] = 0
    BY <2>1, <1>1, <1>5 DEF KernelFirst
  <2>3. CASE t = Kernel
    BY <2>1, <2>2, <2>3, <1>1, <1>5, <1>6, <1>12 DEF KernelFirst, PidChanged
  <2>4. CASE t # Kernel
    <3>1. pc'[Kernel] = pc[Kernel] /\ at'[Kernel] = at[Kernel]
      BY <2>4, <1>5, Nulls
    <3> QED
      BY <2>1, <2>2, <2>4, <3>1, <1>1, <1>11 DEF KernelFirst
  <2> QED
    BY <2>3, <2>4
<1>14. ExecSlots'
  <2>1. ASSUME NEW u \in Thread, pc'[u] \in {"allocated", "started", "linked"}
        PROVE  /\ at'[u] \in Slot /\ (u # Kernel => at'[u] # 0)
               /\ pc'[u] = "allocated" =>
                     /\ proc'[at'[u]].pid # 0 /\ ~ proc'[at'[u]].zombie
                     /\ \A v \in Thread : Alive(v)' => process'[v] # at'[u]
    <3>1. CASE u = t
      BY <3>1, <1>1, <1>3, <1>5, <1>6, <1>7, <1>8, <1>11 DEF PidChanged
    <3>2. CASE u # t
      <4>1. /\ at[u] \in Slot /\ (u # Kernel => at[u] # 0)
            /\ pc[u] = "allocated" =>
                  /\ proc[at[u]].pid # 0 /\ ~ proc[at[u]].zombie
                  /\ \A v \in Thread : Alive(v) => process[v] # at[u]
        BY <2>1, <3>2, <1>5 DEF ProcInv, ExecSlots
      <4> QED
        BY <3>2, <4>1, <1>1, <1>3, <1>5, <1>6 DEF PidChanged
    <3> QED
      BY <3>1, <3>2
  <2>2. ASSUME NEW u \in Thread, pc'[u] = "reap"
        PROVE  at'[u] \in Slot /\ proc'[at'[u]].zombie
    BY <2>2, <1>5, <1>6 DEF ProcInv, ExecSlots, PidChanged
  <2> QED
    BY <2>1, <2>2 DEF ExecSlots
<1>15. \A u, c \in Thread : /\ Started(u, c)' => Started(u, c)
                            /\ Marking(u, c)' => Marking(u, c)
  BY <1>1, <1>5 DEF Started, Marking
<1>16. NamedOnce'
  BY <1>6, <1>15, NamesKept DEF ProcInv, NamedOnce, PidChanged
<1>17. NamedRight'
  <2>1. \A u, c \in Thread : Started(u, c)' => at'[u] = at[u]
    BY <1>5 DEF Started
  <2>2. \A c \in Thread : pc'[c] = "free" => pc[c] = "free"
    BY <1>5
  <2> QED
    BY <2>1, <2>2, <1>1, <1>5, <1>6, <1>15, NamesKept
       DEF ProcInv, NamedRight, RightlyNamed, PidChanged
<1>18. Waits'
  <2>1. \A u \in Thread : pc[u] = "blocked" <=> pc'[u] = "blocked"
    BY <1>1, <1>5
  <2> QED
    BY <2>1, <1>1, <1>6 DEF ProcInv, Waits, PidChanged
<1>19. Stacks'
  <2>1. \A u \in Thread : u # Kernel => (pc'[u] \in InCall <=> pc[u] \in InCall)
    BY <1>1, <1>5 DEF InCall
  <2>2. pc' \in [Thread -> Place]
    BY <1>4 DEF ProcTypeOK
  <2> QED
    BY <2>1, <2>2, <1>1, KeepsStack
<1> QED
  BY <1>4, <1>9, <1>10, <1>13, <1>14, <1>16, <1>17, <1>18, <1>19 DEF ProcInv

\* make_process: the new task gets the slot that was reserved for it.
LEMMA make_process_Keeps ==
    ASSUME ProcInv, NEW t \in Thread, make_process(t)
    PROVE  ProcInv'
<1> DEFINE i == at[t]
           d == proc[at[t]].pid
<1>1. pc[t] = "allocated" /\ UNCHANGED <<nextpid, at, freestk>>
      /\ waitq' = [waitq EXCEPT ![0] = <<>>]
  BY DEF make_process
<1>2. PICK c \in Thread :
        /\ pc[c] = "free"
        /\ proc' = Initialised(i, d)
        /\ process' = [process EXCEPT ![c] = i]
        /\ freeing' = [freeing EXCEPT ![c] = FALSE]
        /\ pc' = [pc EXCEPT ![c] = "user", ![t] = "started"]
        /\ child' = [child EXCEPT ![t] = c]
        /\ images' = images \cup {d}
  BY DEF make_process
<1>3. /\ i \in Slot /\ (t # Kernel => i # 0) /\ (t = Kernel => i = 0)
      /\ proc[i].pid = d /\ d \in Nat /\ d # 0 /\ ~ proc[i].zombie
      /\ \A u \in Thread : Alive(u) => process[u] # i
  BY <1>1, Typed DEF ProcInv, ExecSlots, KernelFirst
<1>4. c # t /\ c # Kernel /\ ~ Alive(c)
  BY <1>1, <1>2, KernelPlace DEF Alive, Living
<1> HIDE DEF i, d
<1>5. /\ proc' \in Table
      /\ \A j \in Slot : /\ proc'[j].pid = proc[j].pid
                         /\ proc'[j].parent = proc[j].parent
                         /\ proc'[j].task = proc[j].task
                         /\ proc'[j].zombie <=> j # 0 /\ proc[j].zombie
                         /\ proc'[j].image = IF j = i THEN d ELSE IF j = 0 THEN NoProc
                                             ELSE proc[j].image
  <2>1. d \in Nat \cup {NoProc} /\ proc \in Table /\ proc' = Initialised(i, d)
    BY <1>2, <1>3, Typed
  <2>2. proc' \in Table /\ ImageChanged(proc, proc', i, d)
    BY <1>3, <2>1, InitialisedIs
  <2> QED
    BY <2>2 DEF ImageChanged
<1>6. /\ pc'[t] = "started" /\ pc'[c] = "user"
      /\ \A u \in Thread : u # t /\ u # c => pc'[u] = pc[u]
      /\ child'[t] = c /\ \A u \in Thread : u # t => child'[u] = child[u]
      /\ process'[c] = i /\ \A u \in Thread : u # c => process'[u] = process[u]
      /\ ~ freeing'[c] /\ \A u \in Thread : u # c => freeing'[u] = freeing[u]
      /\ waitq'[0] = <<>> /\ \A j \in Slot : j # 0 => waitq'[j] = waitq[j]
  BY <1>1, <1>2, <1>4, Nulls DEF ProcInv, ProcTypeOK
<1>7. ProcTypeOK'
  <2>1. waitq' \in [Slot -> Seq(Thread)]
    <3>1. <<>> \in Seq(Thread)
      OBVIOUS
    <3> QED
      BY <1>1, <3>1, Typed
  <2>2. process' \in [Thread -> Slot \cup {NoProc}] /\ freeing' \in [Thread -> BOOLEAN]
    BY <1>2, <1>3, Typed
  <2>3. pc' \in [Thread -> Place]
    BY <1>2, Typed DEF Place
  <2>4. child' \in [Thread -> Thread \cup {NoProc}]
    BY <1>2, Typed
  <2> QED
    BY <1>1, <1>5, <2>1, <2>2, <2>3, <2>4, Typed DEF ProcTypeOK
<1>8. /\ Alive(c)'
      /\ \A u \in Thread : u # c => (Alive(u)' <=> Alive(u))
  BY <1>1, <1>4, <1>6 DEF Alive, Living
<1>9. AliveHasSlot'
  <2> SUFFICES ASSUME NEW u \in Thread, Alive(u)'
               PROVE  /\ process'[u] \in Slot
                      /\ proc'[process'[u]].pid \in images'
                      /\ ~ proc'[process'[u]].zombie
                      /\ \A v \in Thread : Alive(v)' /\ v # u => process'[v] # process'[u]
    BY DEF AliveHasSlot
  <2>1. CASE u = c
    <3>1. process'[u] = i /\ proc'[i].pid = d /\ d \in images'
      BY <2>1, <1>2, <1>3, <1>5, <1>6
    <3>2. ~ proc'[i].zombie
      BY <1>3, <1>5
    <3>3. ASSUME NEW v \in Thread, Alive(v)', v # u PROVE process'[v] # i
      BY <2>1, <3>3, <1>3, <1>6, <1>8
    <3> QED
      BY <3>1, <3>2, <3>3, <1>3
  <2>2. CASE u # c
    <3>1. /\ process[u] \in Slot /\ process[u] # i
          /\ proc[process[u]].pid \in images
          /\ ~ proc[process[u]].zombie
          /\ \A v \in Thread : Alive(v) /\ v # u => process[v] # process[u]
      BY <2>2, <1>3, <1>8 DEF ProcInv, AliveHasSlot
    <3>2. process'[u] = process[u]
      BY <2>2, <1>6
    <3>3. proc'[process[u]].pid \in images' /\ ~ proc'[process[u]].zombie
      BY <3>1, <1>2, <1>5
    <3>4. ASSUME NEW v \in Thread, Alive(v)', v # u PROVE process'[v] # process[u]
      BY <2>2, <3>1, <3>4, <1>6, <1>8
    <3> QED
      BY <3>1, <3>2, <3>3, <3>4
  <2> QED
    BY <2>1, <2>2
<1>10. PidsDiffer'
  <2>1. PidsDiffer
    BY DEF ProcInv
  <2>2. images' \subseteq Nat \ {0} /\ nextpid' = nextpid
    BY <2>1, <1>1, <1>2, <1>3 DEF PidsDiffer
  <2>3. ASSUME NEW j \in Slot
        PROVE  /\ proc'[j].pid < nextpid
               /\ proc'[j].image \in {NoProc, proc'[j].pid} \ {0}
               /\ proc'[j].zombie => proc'[j].pid # 0
    <3>1. /\ proc[j].pid < nextpid
          /\ proc[j].image \in {NoProc, proc[j].pid} \ {0}
          /\ proc[j].zombie => proc[j].pid # 0
      BY <2>1 DEF PidsDiffer
    <3>2. proc'[j].image \in {NoProc, proc[j].pid} \ {0}
      BY <3>1, <1>3, <1>5, Nulls
    <3> QED
      BY <3>1, <3>2, <1>5
  <2> QED
    BY <2>1, <2>2, <2>3, <1>5 DEF PidsDiffer
<1>11. t # Kernel => /\ Alive(t) /\ process[t] = 0
                     /\ pc[Kernel] \in {"started", "linked", "done"}
  BY <1>1, KernelAlone DEF ProcInv, KernelFirst, Alive, Living
<1>12. \A u \in Thread : u # t => pc[u] \notin {"exec", "allocated", "wait", "blocked", "reap"}
  <2> SUFFICES ASSUME NEW u \in Thread, u # t,
                      pc[u] \in {"exec", "allocated", "wait", "blocked", "reap"}
               PROVE  FALSE
    OBVIOUS
  <2>1. CASE t = Kernel
    BY <2>1, <1>1 DEF ProcInv, KernelFirst
  <2>2. CASE t # Kernel
    <3>1. u # Kernel
      BY <2>2, <1>11
    <3>2. Alive(u)
      BY <3>1 DEF Alive, Living
    <3> QED
      BY <2>2, <3>1, <3>2, <1>1, <1>11, ShellAlone
  <2> QED
    BY <2>1, <2>2
<1>13. KernelFirst'
  <2>1. KernelFirst
    BY DEF ProcInv
  <2>2. pc'[Kernel] \in {"started", "linked", "done"} /\ process'[Kernel] = NoProc
    BY <2>1, <1>4, <1>6, <1>11, Nulls DEF KernelFirst
  <2>3. pc'[Kernel] \in {"started", "linked"} => at'[Kernel] = 0
    BY <2>1, <1>1, <1>4, <1>6, Nulls DEF KernelFirst
  <2>4. ASSUME NEW u \in Thread, Alive(u)', pc'[u] \notin {"user", "exit"}
        PROVE  process'[u] = 0
    <3>1. u # c /\ Alive(u) /\ process'[u] = process[u]
      BY <2>4, <1>6, <1>8
    <3>2. pc[u] \notin {"user", "exit"}
      BY <2>4, <3>1, <1>1, <1>6
    <3> QED
      BY <2>1, <3>1, <3>2 DEF KernelFirst
  <2> QED
    BY <2>2, <2>3, <2>4 DEF KernelFirst
<1>14. ExecSlots'
  <2>1. ASSUME NEW u \in Thread
        PROVE  pc'[u] # "allocated" /\ pc'[u] # "reap"
               /\ (pc'[u] \in {"started", "linked"} =>
                      pc[u] \in {"allocated", "started", "linked"})
    BY <1>1, <1>6, <1>12
  <2> QED
    BY <2>1, <1>1 DEF ProcInv, ExecSlots
<1>15. /\ \A u, a \in Thread : u # t /\ Started(u, a)' => Started(u, a)
       /\ \A u, a \in Thread : Marking(u, a)' => Marking(u, a)
       /\ \A a \in Thread : Started(t, a)' <=> a = c
  BY <1>1, <1>6 DEF Started, Marking
<1>16. NotNamed(c)
  BY <1>2 DEF ProcInv, NamedRight, RightlyNamed
<1>17. NamedOnce'
  <2> SUFFICES ASSUME NEW a \in Thread PROVE OnceNamed(a)'
    BY DEF NamedOnce
  <2>1. OnceNamed(a)
    BY DEF ProcInv, NamedOnce
  <2>2. CASE a = c
    BY <2>2, <1>5, <1>15, <1>16 DEF OnceNamed, NotNamed
  <2>3. CASE a # c
    BY <2>1, <2>3, <1>5, <1>15, NamesKept
  <2> QED
    BY <2>2, <2>3
<1>18. NamedRight'
  <2> SUFFICES ASSUME NEW a \in Thread PROVE RightlyNamed(a)'
    BY DEF NamedRight
  <2>1. RightlyNamed(a)
    BY DEF ProcInv, NamedRight
  <2>2. CASE a = c
    <3>1. ~ freeing'[c] /\ pc'[c] # "free" /\ c # Kernel
      BY <1>4, <1>6
    <3>2. NamedForOwn(c)'
      BY <1>1, <1>5, <1>6, <1>15, <1>16 DEF NamedForOwn, NotNamed, i
    <3> QED
      BY <2>2, <3>1, <3>2 DEF RightlyNamed
  <2>3. CASE a # c
    BY <2>1, <2>3, <1>1, <1>5, <1>6, <1>8, <1>15, NamesKept DEF RightlyNamed
  <2> QED
    BY <2>2, <2>3
<1>19. Waits'
  <2>1. \A u \in Thread : pc'[u] # "blocked"
    BY <1>1, <1>6, <1>12
  <2> QED
    BY <2>1, <1>5, <1>6 DEF ProcInv, Waits
<1>20. Stacks'
  <2>1. \A u \in Thread : u # Kernel => (pc'[u] \in InCall <=> pc[u] \in InCall)
    BY <1>1, <1>2, <1>6 DEF InCall
  <2>2. pc' \in [Thread -> Place]
    BY <1>7 DEF ProcTypeOK
  <2> QED
    BY <2>1, <2>2, <1>1, KeepsStack
<1> QED
  BY <1>7, <1>9, <1>10, <1>13, <1>14, <1>17, <1>18, <1>19, <1>20 DEF ProcInv

\* A task inside exec or wait is there alone, but for the kernel's one exec.
LEMMA OthersOut ==
    ASSUME ProcInv, NEW t \in Thread, pc[t] # "free",
           t # Kernel => Alive(t) /\ pc[t] \notin {"user", "exit"},
           t = Kernel => pc[t] \in {"exec", "allocated"}
    PROVE  \A u \in Thread : u # t =>
              pc[u] \notin {"exec", "allocated", "wait", "blocked", "reap"}
<1> SUFFICES ASSUME NEW u \in Thread, u # t,
                    pc[u] \in {"exec", "allocated", "wait", "blocked", "reap"}
             PROVE  FALSE
  OBVIOUS
<1>1. CASE t = Kernel
  BY <1>1 DEF ProcInv, KernelFirst
<1>2. CASE t # Kernel
  <2>1. u # Kernel
    BY <1>2, KernelAlone
  <2>2. Alive(u)
    BY <2>1 DEF Alive, Living
  <2> QED
    BY <1>2, <2>1, <2>2, ShellAlone
<1> QED
  BY <1>1, <1>2

\* What a step of another task leaves true of the kernel's exec.
LEMMA KernelKept ==
    ASSUME ProcInv, NEW t \in Thread, t # Kernel, pc[t] # "free",
           pc'[Kernel] = pc[Kernel], process'[Kernel] = process[Kernel],
           at'[Kernel] = at[Kernel],
           \A u \in Thread : Alive(u)' /\ pc'[u] \notin {"user", "exit"} => process'[u] = 0
    PROVE  KernelFirst'
BY KernelAlone DEF ProcInv, KernelFirst

\* A slot that no living task has is given up: the others keep their slots,
\* and their images stay in memory.
LEMMA GivenUpKeeps ==
    ASSUME ProcInv, NEW i \in Slot, NEW P \in Table, proc_free(P, i),
           \A j \in Slot : /\ P[j].pid = proc[j].pid
                           /\ P[j].zombie => proc[j].zombie
                           /\ P[j].image \in {proc[j].image, NoProc},
           \A u \in Thread : Alive(u)' => Alive(u) /\ process[u] # i,
           process' = process, nextpid' = nextpid
    PROVE  AliveHasSlot' /\ PidsDiffer'
<1>1. /\ proc' \in Table /\ images' = images \ {P[i].image}
      /\ GivenUp(P, proc', i)
  BY FreedIs
<1>2. PidsDiffer
  BY DEF ProcInv
<1>3. /\ proc'[i].pid = 0 /\ ~ proc'[i].zombie /\ proc'[i].image = NoProc
      /\ \A j \in Slot : j # i => /\ proc'[j].pid = proc[j].pid
                                  /\ proc'[j].zombie => proc[j].zombie
                                  /\ proc'[j].image \in {proc[j].image, NoProc}
  BY <1>1 DEF GivenUp
<1>4. AliveHasSlot'
  <2> SUFFICES ASSUME NEW u \in Thread, Alive(u)'
               PROVE  /\ process[u] \in Slot
                      /\ proc'[process[u]].pid \in images'
                      /\ ~ proc'[process[u]].zombie
                      /\ \A v \in Thread : Alive(v)' /\ v # u => process[v] # process[u]
    BY DEF AliveHasSlot
  <2>1. /\ process[u] \in Slot /\ process[u] # i
        /\ proc[process[u]].pid \in images
        /\ ~ proc[process[u]].zombie
        /\ \A v \in Thread : Alive(v) /\ v # u => process[v] # process[u]
    BY DEF ProcInv, AliveHasSlot
  <2>2. proc[process[u]].pid # 0 /\ proc[process[u]].pid \in Nat
    BY <1>2, <2>1 DEF PidsDiffer
  <2>3. proc[process[u]].pid # P[i].image
    <3>1. P[i].image \in {NoProc, proc[i].pid}
      BY <1>2 DEF PidsDiffer
    <3>2. proc[process[u]].pid # proc[i].pid
      BY <1>2, <2>1, <2>2 DEF PidsDiffer
    <3> QED
      BY <3>1, <3>2, <2>2, Nulls
  <2> QED
    BY <1>1, <1>3, <2>1, <2>3
<1>5. PidsDiffer'
  <2>1. images' \subseteq Nat \ {0}
    BY <1>1, <1>2 DEF PidsDiffer
  <2>2. ASSUME NEW j \in Slot
        PROVE  /\ proc'[j].pid < nextpid
               /\ proc'[j].image \in {NoProc, proc'[j].pid} \ {0}
               /\ proc'[j].zombie => proc'[j].pid # 0
    <3>1. /\ proc[j].pid < nextpid
          /\ proc[j].image \in {NoProc, proc[j].pid} \ {0}
          /\ proc[j].zombie => proc[j].pid # 0
      BY <1>2 DEF PidsDiffer
    <3>2. CASE j = i
      BY <1>3, <3>2, Typed, Nulls
    <3>3. CASE j # i
      BY <1>3, <3>1, <3>3, Nulls
    <3> QED
      BY <3>2, <3>3
  <2>3. ASSUME NEW j \in Slot, NEW k \in Slot, proc'[j].pid # 0, proc'[j].pid = proc'[k].pid
        PROVE  j = k
    BY <1>2, <1>3, <2>3 DEF PidsDiffer
  <2> QED
    BY <2>1, <2>2, <2>3 DEF PidsDiffer
<1> QED
  BY <1>4, <1>5

\* make_process_fails: the slot that was reserved is given up.
LEMMA make_process_fails_Keeps ==
    ASSUME ProcInv, NEW t \in Thread, make_process_fails(t)
    PROVE  ProcInv'
<1> DEFINE i == at[t]
           P == Initialised(i, NoProc)
<1>1. /\ pc[t] = "allocated" /\ proc_free(P, i) /\ Return(t)
      /\ waitq' = [waitq EXCEPT ![0] = <<>>]
      /\ UNCHANGED <<nextpid, process, freeing, at, child>>
  BY DEF make_process_fails
<1>2. /\ i \in Slot /\ (t = Kernel => i = 0)
      /\ \A u \in Thread : Alive(u) => process[u] # i
  BY <1>1 DEF ProcInv, ExecSlots, KernelFirst
<1>3. P \in Table /\ ImageChanged(proc, P, i, NoProc)
  BY <1>2, Typed, InitialisedIs
<1> HIDE DEF P, i
<1>4. Stacks' /\ freestk' \in Nat
      /\ pc' = [pc EXCEPT ![t] = IF t = Kernel THEN "done" ELSE "user"]
  <2>1. pc[t] \in InCall
    BY <1>1 DEF InCall
  <2> QED
    BY <1>1, <2>1, ReturnStacks
<1>5. /\ pc'[t] = IF t = Kernel THEN "done" ELSE "user"
      /\ \A u \in Thread : u # t => pc'[u] = pc[u]
  BY <1>4, Typed
<1>6. \A u \in Thread : Alive(u)' <=> Alive(u)
  BY <1>1, <1>5 DEF Alive, Living
<1>7. proc' \in Table /\ GivenUp(P, proc', i)
  BY <1>1, <1>2, <1>3, FreedIs
<1>8. \A j \in Slot : /\ proc'[j].parent = proc[j].parent
                      /\ proc'[j].task \in {proc[j].task, NoProc}
                      /\ proc'[j].zombie => proc[j].zombie
  BY <1>3, <1>7 DEF ImageChanged, GivenUp
<1>9. ProcTypeOK'
  <2>1. waitq' \in [Slot -> Seq(Thread)]
    <3>1. <<>> \in Seq(Thread)
      OBVIOUS
    <3> QED
      BY <1>1, <3>1, Typed
  <2>2. pc' \in [Thread -> Place]
    BY <1>4, Typed DEF Place
  <2> QED
    BY <1>1, <1>4, <1>7, <2>1, <2>2, Typed DEF ProcTypeOK
<1>10. AliveHasSlot' /\ PidsDiffer'
  <2>1. \A j \in Slot : /\ P[j].pid = proc[j].pid
                        /\ P[j].zombie => proc[j].zombie
                        /\ P[j].image \in {proc[j].image, NoProc}
    BY <1>3 DEF ImageChanged
  <2> QED
    BY <1>1, <1>2, <1>3, <1>6, <2>1, GivenUpKeeps
<1>11. t # Kernel => Alive(t) /\ process[t] = 0
  BY <1>1 DEF ProcInv, KernelFirst, Alive, Living
<1>12. \A u \in Thread : u # t => pc[u] \notin {"exec", "allocated", "wait", "blocked", "reap"}
  BY <1>1, <1>11, OthersOut
<1>13. \A u \in Thread : /\ pc'[u] \notin {"exec", "allocated", "blocked", "reap"}
                         /\ pc'[u] \in {"started", "linked", "marking", "free"}
                               => pc'[u] = pc[u]
  BY <1>5, <1>12
<1>14. KernelFirst'
  <2>1. \A u \in Thread : Alive(u)' /\ pc'[u] \notin {"user", "exit"} => process'[u] = 0
    BY <1>1, <1>5, <1>6 DEF ProcInv, KernelFirst
  <2>2. CASE t = Kernel
    BY <2>1, <2>2, <1>1, <1>5 DEF ProcInv, KernelFirst
  <2>3. CASE t # Kernel
    BY <2>1, <2>3, <1>1, <1>5, Nulls, KernelKept
  <2> QED
    BY <2>2, <2>3
<1>15. ExecSlots'
  BY <1>1, <1>13 DEF ProcInv, ExecSlots
<1>16. \A u, c \in Thread : /\ Started(u, c)' => Started(u, c)
                            /\ Marking(u, c)' => Marking(u, c)
  BY <1>1, <1>13 DEF Started, Marking
<1>17. \A j \in Slot, c \in Thread : proc'[j].task = c => proc[j].task = c
  BY <1>8, Nulls
<1>18. NamedOnce'
  BY <1>16, <1>17, NamesKept DEF ProcInv, NamedOnce
<1>19. NamedRight'
  BY <1>1, <1>6, <1>13, <1>16, <1>17, NamesKept DEF ProcInv, NamedRight, RightlyNamed
<1>20. Waits'
  <2>1. waitq'[0] = <<>> /\ \A j \in Slot : j # 0 => waitq'[j] = waitq[j]
    BY <1>1, Typed, Nulls
  <2> QED
    BY <2>1, <1>8, <1>13 DEF ProcInv, Waits
<1> QED
  BY <1>4, <1>9, <1>10, <1>14, <1>15, <1>18, <1>19, <1>20 DEF ProcInv

\* Other changes of the table: the task or the parent of slot i is another,
\* or the process in it has become a zombie.
TaskChanged(P, Q, i, c) ==
    /\ Q[i].task = c /\ \A j \in Slot \ {i} : Q[j].task = P[j].task
    /\ \A j \in Slot : /\ Q[j].pid = P[j].pid /\ Q[j].parent = P[j].parent
                       /\ Q[j].zombie <=> P[j].zombie
                       /\ Q[j].image = P[j].image

ParentChanged(P, Q, i, p) ==
    /\ Q[i].parent = p /\ \A j \in Slot \ {i} : Q[j].parent = P[j].parent
    /\ \A j \in Slot : /\ Q[j].pid = P[j].pid /\ Q[j].task = P[j].task
                       /\ Q[j].zombie <=> P[j].zombie
                       /\ Q[j].image = P[j].image

ZombieMade(P, Q, i) ==
    /\ Q[i].zombie /\ \A j \in Slot \ {i} : (Q[j].zombie <=> P[j].zombie)
    /\ \A j \in Slot : /\ Q[j].pid = P[j].pid /\ Q[j].task = P[j].task
                       /\ Q[j].parent = P[j].parent /\ Q[j].image = P[j].image

LEMMA TaskSet ==
    ASSUME NEW P \in Table, NEW i \in Slot, NEW c \in Thread \cup {NoProc}
    PROVE  /\ [P EXCEPT ![i].task = c] \in Table
           /\ TaskChanged(P, [P EXCEPT ![i].task = c], i, c)
<1> DEFINE r == [P[i] EXCEPT !.task = c]
           Q == [P EXCEPT ![i] = r]
<1>1. [P EXCEPT ![i].task = c] = Q
  OBVIOUS
<1>2. /\ r \in ProcRecord /\ r.task = c /\ r.parent = P[i].parent
      /\ r.pid = P[i].pid /\ (r.zombie <=> P[i].zombie) /\ r.image = P[i].image
  BY DEF Table, ProcRecord
<1> HIDE DEF r
<1>3. Q \in Table /\ Q[i] = r /\ \A j \in Slot \ {i} : Q[j] = P[j]
  BY <1>2 DEF Table
<1> HIDE DEF Q
<1> QED
  BY <1>1, <1>2, <1>3 DEF TaskChanged

LEMMA ParentSet ==
    ASSUME NEW P \in Table, NEW i \in Slot, NEW p \in Slot \cup {NoProc}
    PROVE  /\ [P EXCEPT ![i].parent = p] \in Table
           /\ ParentChanged(P, [P EXCEPT ![i].parent = p], i, p)
<1> DEFINE r == [P[i] EXCEPT !.parent = p]
           Q == [P EXCEPT ![i] = r]
<1>1. [P EXCEPT ![i].parent = p] = Q
  OBVIOUS
<1>2. /\ r \in ProcRecord /\ r.task = P[i].task /\ r.parent = p
      /\ r.pid = P[i].pid /\ (r.zombie <=> P[i].zombie) /\ r.image = P[i].image
  BY DEF Table, ProcRecord
<1> HIDE DEF r
<1>3. Q \in Table /\ Q[i] = r /\ \A j \in Slot \ {i} : Q[j] = P[j]
  BY <1>2 DEF Table
<1> HIDE DEF Q
<1> QED
  BY <1>1, <1>2, <1>3 DEF ParentChanged

LEMMA ZombieSet ==
    ASSUME NEW P \in Table, NEW i \in Slot
    PROVE  /\ [P EXCEPT ![i].zombie = TRUE] \in Table
           /\ ZombieMade(P, [P EXCEPT ![i].zombie = TRUE], i)
<1> DEFINE r == [P[i] EXCEPT !.zombie = TRUE]
           Q == [P EXCEPT ![i] = r]
<1>1. [P EXCEPT ![i].zombie = TRUE] = Q
  OBVIOUS
<1>2. P[i] \in ProcRecord
  BY DEF Table
<1>3. /\ r \in ProcRecord /\ r.task = P[i].task /\ r.parent = P[i].parent
      /\ r.pid = P[i].pid /\ r.zombie = TRUE /\ r.image = P[i].image
  BY <1>2 DEF ProcRecord
<1> HIDE DEF r
<1>4. Q \in Table /\ Q[i] = r /\ \A j \in Slot \ {i} : Q[j] = P[j]
  BY <1>3 DEF Table
<1> HIDE DEF Q
<1> QED
  BY <1>1, <1>3, <1>4 DEF ZombieMade

\* set_task: the exec that has started a task hands its name to the slot.
LEMMA set_task_Keeps ==
    ASSUME ProcInv, NEW t \in Thread, set_task(t)
    PROVE  ProcInv'
<1> DEFINE i == at[t]
           c == child[t]
<1>1. /\ pc[t] = "started" /\ proc' = [proc EXCEPT ![i].task = c]
      /\ pc' = [pc EXCEPT ![t] = "linked"]
      /\ UNCHANGED <<waitq, nextpid, process, freeing, at, child, images, freestk>>
  BY DEF set_task, Goto
<1>2. i \in Slot /\ c \in Thread \cup {NoProc} /\ Started(t, c) /\ (t = Kernel => i = 0)
  BY <1>1, Typed DEF ProcInv, ExecSlots, KernelFirst, Started
<1>3. i = at[t]
  OBVIOUS
<1> HIDE DEF i, c
<1>4. proc' \in Table /\ TaskChanged(proc, proc', i, c)
  BY <1>1, <1>2, Typed, TaskSet
<1>5. \A j \in Slot : /\ proc'[j].pid = proc[j].pid /\ proc'[j].parent = proc[j].parent
                      /\ proc'[j].zombie <=> proc[j].zombie
                      /\ proc'[j].image = proc[j].image
  BY <1>4 DEF TaskChanged
<1>6. pc'[t] = "linked" /\ \A u \in Thread : u # t => pc'[u] = pc[u]
  BY <1>1, Typed
<1>7. \A u \in Thread : Alive(u)' <=> Alive(u)
  BY <1>1, <1>6 DEF Alive, Living
<1>8. pc' \in [Thread -> Place]
  BY <1>1, Typed DEF Place
<1>9. ProcTypeOK'
  BY <1>1, <1>4, <1>8, Typed DEF ProcTypeOK
<1>10. AliveHasSlot'
  BY <1>1, <1>5, <1>7 DEF ProcInv, AliveHasSlot
<1>11. PidsDiffer'
  BY <1>1, <1>5 DEF ProcInv, PidsDiffer
<1>12. \A u \in Thread : Alive(u)' /\ pc'[u] \notin {"user", "exit"} => process'[u] = 0
  BY <1>1, <1>6, <1>7 DEF ProcInv, KernelFirst
<1>13. KernelFirst'
  <2>1. CASE t = Kernel
    BY <2>1, <1>1, <1>6, <1>12 DEF ProcInv, KernelFirst
  <2>2. CASE t # Kernel
    BY <2>2, <1>1, <1>6, <1>12, Nulls, KernelKept
  <2> QED
    BY <2>1, <2>2
<1>14. \A u \in Thread : pc'[u] \in {"allocated", "started", "reap", "marking", "free", "blocked"}
                            => u # t /\ pc'[u] = pc[u]
  BY <1>6
<1>15. ExecSlots'
  <2>1. \A u \in Thread : pc'[u] \in {"allocated", "started", "linked"} =>
           pc[u] \in {"allocated", "started", "linked"}
    BY <1>1, <1>6
  <2> QED
    BY <2>1, <1>1, <1>5, <1>7, <1>14 DEF ProcInv, ExecSlots
<1>16. \A u, a \in Thread : /\ Started(u, a)' => Started(u, a) /\ u # t
                            /\ Marking(u, a)' => Marking(u, a)
  BY <1>1, <1>14 DEF Started, Marking
<1>17. \A a \in Thread : a # c => \A j \in Slot : proc'[j].task = a => proc[j].task = a
  BY <1>4 DEF TaskChanged
<1>18. \A a \in Thread : a = c => /\ OnceNamed(a) /\ RightlyNamed(a) /\ ~ NotNamed(a)
                                  /\ \A u \in Thread : ~ Started(u, a)' /\ ~ Marking(u, a)'
                                  /\ \A j \in Slot : proc'[j].task = a => j = i
  <2> SUFFICES ASSUME NEW a \in Thread, a = c
               PROVE  /\ OnceNamed(a) /\ RightlyNamed(a) /\ ~ NotNamed(a)
                      /\ \A u \in Thread : ~ Started(u, a)' /\ ~ Marking(u, a)'
                      /\ \A j \in Slot : proc'[j].task = a => j = i
    OBVIOUS
  <2>1. OnceNamed(a) /\ RightlyNamed(a)
    BY DEF ProcInv, NamedOnce, NamedRight
  <2>2. Started(t, a)
    BY <1>2
  <2>3. ~ NotNamed(a)
    BY <2>2 DEF NotNamed
  <2>4. \A u \in Thread : ~ Started(u, a)' /\ ~ Marking(u, a)'
    BY <2>1, <2>2, <1>16 DEF OnceNamed
  <2>5. \A j \in Slot : proc'[j].task = a => j = i
    BY <2>1, <2>2, <1>4 DEF OnceNamed, TaskChanged
  <2> QED
    BY <2>1, <2>3, <2>4, <2>5
<1>19. NamedOnce'
  <2> SUFFICES ASSUME NEW a \in Thread PROVE OnceNamed(a)'
    BY DEF NamedOnce
  <2>1. CASE a = c
    BY <2>1, <1>18 DEF OnceNamed
  <2>2. CASE a # c
    BY <2>2, <1>16, <1>17, NamesKept DEF ProcInv, NamedOnce
  <2> QED
    BY <2>1, <2>2
<1>20. NamedRight'
  <2> SUFFICES ASSUME NEW a \in Thread PROVE RightlyNamed(a)'
    BY DEF NamedRight
  <2>1. CASE a = c
    <3>1. Alive(a) => at[t] = process[a]
      BY <2>1, <1>2, <1>18 DEF RightlyNamed, NamedForOwn
    <3>2. ~ (freeing[a] \/ pc[a] = "free" \/ a = Kernel)
      BY <2>1, <1>18 DEF RightlyNamed
    <3>3. Alive(a)' => NamedForOwn(a)'
      BY <2>1, <3>1, <1>1, <1>3, <1>7, <1>18 DEF NamedForOwn
    <3>4. pc'[a] = "free" => pc[a] = "free"
      BY <1>14
    <3> QED
      BY <3>2, <3>3, <3>4, <1>1 DEF RightlyNamed
  <2>2. CASE a # c
    BY <2>2, <1>1, <1>7, <1>14, <1>16, <1>17, NamesKept
       DEF ProcInv, NamedRight, RightlyNamed
  <2> QED
    BY <2>1, <2>2
<1>21. Waits'
  <2>1. \A u \in Thread : pc[u] = "blocked" <=> pc'[u] = "blocked"
    BY <1>1, <1>6
  <2> QED
    BY <2>1, <1>1, <1>5 DEF ProcInv, Waits
<1>22. Stacks'
  <2>1. \A u \in Thread : u # Kernel => (pc'[u] \in InCall <=> pc[u] \in InCall)
    BY <1>1, <1>6 DEF InCall
  <2> QED
    BY <2>1, <1>1, <1>8, KeepsStack
<1> QED
  BY <1>9, <1>10, <1>11, <1>13, <1>15, <1>19, <1>20, <1>21, <1>22 DEF ProcInv

\* set_parent, with room in the open file table.
LEMMA set_parent_Keeps ==
    ASSUME ProcInv, NEW t \in Thread, set_parent(t, FALSE)
    PROVE  ProcInv'
<1> DEFINE i == at[t]
           p == process[t]
<1>1. /\ pc[t] = "linked" /\ proc' = [proc EXCEPT ![i].parent = p] /\ Return(t)
      /\ UNCHANGED <<waitq, nextpid, process, freeing, at, child, images>>
  BY DEF set_parent
<1>2. i \in Slot /\ p \in {0, NoProc} /\ (t = Kernel => p = NoProc)
  <2>1. t # Kernel => p = 0
    BY <1>1 DEF ProcInv, KernelFirst, Alive, Living
  <2> QED
    BY <2>1, <1>1 DEF ProcInv, ExecSlots, KernelFirst
<1>3. t # Kernel => Alive(t)
  BY <1>1 DEF Alive, Living
<1> HIDE DEF i, p
<1>4. proc' \in Table /\ ParentChanged(proc, proc', i, p)
  <2>1. p \in Slot \cup {NoProc}
    BY <1>2, Nulls
  <2> QED
    BY <2>1, <1>1, <1>2, Typed, ParentSet
<1>5. \A j \in Slot : /\ proc'[j].pid = proc[j].pid /\ proc'[j].task = proc[j].task
                      /\ proc'[j].zombie <=> proc[j].zombie
                      /\ proc'[j].image = proc[j].image
  BY <1>4 DEF ParentChanged
<1>6. Stacks' /\ freestk' \in Nat
      /\ pc' = [pc EXCEPT ![t] = IF t = Kernel THEN "done" ELSE "user"]
  <2>1. pc[t] \in InCall
    BY <1>1 DEF InCall
  <2> QED
    BY <1>1, <2>1, ReturnStacks
<1>7. /\ pc'[t] = IF t = Kernel THEN "done" ELSE "user"
      /\ \A u \in Thread : u # t => pc'[u] = pc[u]
  BY <1>6, Typed
<1>8. \A u \in Thread : Alive(u)' <=> Alive(u)
  BY <1>1, <1>7 DEF Alive, Living
<1>9. ProcTypeOK'
  <2>1. pc' \in [Thread -> Place]
    BY <1>6, Typed DEF Place
  <2> QED
    BY <2>1, <1>1, <1>4, <1>6, Typed DEF ProcTypeOK
<1>10. AliveHasSlot'
  BY <1>1, <1>5, <1>8 DEF ProcInv, AliveHasSlot
<1>11. PidsDiffer'
  BY <1>1, <1>5 DEF ProcInv, PidsDiffer
<1>12. \A u \in Thread : Alive(u)' /\ pc'[u] \notin {"user", "exit"} => process'[u] = 0
  BY <1>1, <1>7, <1>8 DEF ProcInv, KernelFirst
<1>13. KernelFirst'
  <2>1. CASE t = Kernel
    BY <2>1, <1>1, <1>7, <1>12 DEF ProcInv, KernelFirst
  <2>2. CASE t # Kernel
    BY <2>2, <1>1, <1>7, <1>12, Nulls, KernelKept
  <2> QED
    BY <2>1, <2>2
<1>14. \A u \in Thread : pc'[u] \in {"allocated", "started", "linked", "reap", "marking", "free", "blocked"}
                            => u # t /\ pc'[u] = pc[u]
  BY <1>7
<1>15. ExecSlots'
  BY <1>1, <1>5, <1>8, <1>14 DEF ProcInv, ExecSlots
<1>16. \A u, a \in Thread : /\ Started(u, a)' => Started(u, a)
                            /\ Marking(u, a)' => Marking(u, a)
  BY <1>1, <1>14 DEF Started, Marking
<1>17. NamedOnce'
  BY <1>5, <1>16, NamesKept DEF ProcInv, NamedOnce
<1>18. NamedRight'
  BY <1>1, <1>5, <1>8, <1>14, <1>16, NamesKept DEF ProcInv, NamedRight, RightlyNamed
<1>19. Waits'
  <2>1. Waits
    BY DEF ProcInv
  <2>2. \A j \in Slot : proc'[j].parent \in {0, NoProc}
    BY <2>1, <1>2, <1>4 DEF Waits, ParentChanged
  <2>3. \A u \in Thread : pc[u] = "blocked" <=> pc'[u] = "blocked"
    BY <1>1, <1>7
  <2>4. CASE t = Kernel
    <3>1. \A j \in Slot : proc'[j].parent = 0 => proc[j].parent = 0
      BY <2>4, <1>2, <1>4, Nulls DEF ParentChanged
    <3> QED
      BY <2>1, <2>2, <2>3, <3>1, <1>1, <1>5 DEF Waits
  <2>5. CASE t # Kernel
    <3>1. \A u \in Thread : pc'[u] # "blocked"
      BY <2>5, <1>1, <1>3, <1>7, OthersOut
    <3> QED
      BY <2>1, <2>2, <2>3, <3>1, <1>1 DEF Waits
  <2> QED
    BY <2>4, <2>5
<1> QED
  BY <1>6, <1>9, <1>10, <1>11, <1>13, <1>15, <1>17, <1>18, <1>19 DEF ProcInv

\* mark_task: the task that is marked lives no more and is named nowhere.
LEMMA mark_task_Keeps ==
    ASSUME ProcInv, NEW t \in Thread, mark_task(t)
    PROVE  ProcInv'
<1> DEFINE c == child[t]
<1>1. /\ pc[t] = "marking" /\ pc' = [pc EXCEPT ![t] = "exiting"]
      /\ process' = [u \in Thread |-> IF u = c THEN NoProc ELSE process[u]]
      /\ freeing' = [u \in Thread |-> u = c \/ freeing[u]]
      /\ UNCHANGED <<proc, waitq, nextpid, at, child, images, freestk>>
  BY DEF mark_task, Goto
<1>2. t # Kernel /\ Marking(t, c)
  BY <1>1, KernelPlace DEF Marking
<1> HIDE DEF c
<1>3. pc'[t] = "exiting" /\ \A u \in Thread : u # t => pc'[u] = pc[u]
  BY <1>1, Typed
<1>4. \A u \in Thread : /\ u # c => process'[u] = process[u] /\ (freeing'[u] <=> freeing[u])
                        /\ u = c => process'[u] = NoProc
  BY <1>1
<1>5. \A u \in Thread : Alive(u)' <=> Alive(u)
  BY <1>1, <1>3 DEF Alive, Living
<1>6. \A a \in Thread : a = c => /\ ~ Alive(a) /\ a # Kernel
                                 /\ \A u \in Thread : ~ Started(u, a) /\ (Marking(u, a) => u = t)
                                 /\ \A j \in Slot : proc[j].task # a
  <2> SUFFICES ASSUME NEW a \in Thread, a = c
               PROVE  /\ ~ Alive(a) /\ a # Kernel
                      /\ \A u \in Thread : ~ Started(u, a) /\ (Marking(u, a) => u = t)
                      /\ \A j \in Slot : proc[j].task # a
    OBVIOUS
  <2>1. Marking(t, a)
    BY <1>2
  <2>2. OnceNamed(a) /\ RightlyNamed(a)
    BY DEF ProcInv, NamedOnce, NamedRight
  <2>3. ~ Alive(a) /\ a # Kernel
    BY <2>1, <2>2 DEF RightlyNamed, NamedForOwn, NotNamed
  <2>4. /\ \A u \in Thread : ~ Started(u, a) /\ (Marking(u, a) => u = t)
        /\ \A j \in Slot : proc[j].task # a
    BY <2>1, <2>2 DEF OnceNamed
  <2> QED
    BY <2>3, <2>4
<1>7. \A u \in Thread : Alive(u) => process'[u] = process[u]
  BY <1>4, <1>6
<1>8. pc' \in [Thread -> Place]
  BY <1>1, Typed DEF Place
<1>9. ProcTypeOK'
  <2>1. process' \in [Thread -> Slot \cup {NoProc}]
    BY <1>1, Typed
  <2>2. freeing' \in [Thread -> BOOLEAN]
    BY <1>1, Typed
  <2> QED
    BY <2>1, <2>2, <1>1, <1>8, Typed DEF ProcTypeOK
<1>10. AliveHasSlot'
  BY <1>1, <1>5, <1>7 DEF ProcInv, AliveHasSlot
<1>11. PidsDiffer'
  BY <1>1 DEF ProcInv, PidsDiffer
<1>12. KernelFirst'
  <2>1. \A u \in Thread : Alive(u)' /\ pc'[u] \notin {"user", "exit"} => process'[u] = 0
    BY <1>3, <1>5, <1>7 DEF ProcInv, KernelFirst, Alive, Living
  <2>2. process'[Kernel] = process[Kernel]
    BY <1>4, <1>6, Nulls
  <2> QED
    BY <2>1, <2>2, <1>1, <1>2, <1>3, Nulls, KernelKept
<1>13. \A u \in Thread : pc'[u] \in {"allocated", "started", "linked", "reap", "marking", "free", "blocked"}
                            => u # t /\ pc'[u] = pc[u]
  BY <1>3
<1>14. ExecSlots'
  BY <1>1, <1>5, <1>7, <1>13 DEF ProcInv, ExecSlots
<1>15. \A u, a \in Thread : /\ Started(u, a)' => Started(u, a)
                            /\ Marking(u, a)' => Marking(u, a) /\ u # t
  BY <1>1, <1>13 DEF Started, Marking
<1>16. NamedOnce'
  BY <1>1, <1>15, NamesKept DEF ProcInv, NamedOnce
<1>17. NamedRight'
  <2> SUFFICES ASSUME NEW a \in Thread PROVE RightlyNamed(a)'
    BY DEF NamedRight
  <2>1. CASE a = c
    <3>1. NotNamed(a)'
      BY <2>1, <1>1, <1>6, <1>15 DEF NotNamed
    <3>2. ~ Alive(a)'
      BY <2>1, <1>5, <1>6
    <3> QED
      BY <3>1, <3>2 DEF RightlyNamed
  <2>2. CASE a # c
    BY <2>2, <1>1, <1>4, <1>5, <1>13, <1>15, NamesKept
       DEF ProcInv, NamedRight, RightlyNamed
  <2> QED
    BY <2>1, <2>2
<1>18. Waits'
  <2>1. \A u \in Thread : pc[u] = "blocked" <=> pc'[u] = "blocked"
    BY <1>1, <1>3
  <2> QED
    BY <2>1, <1>1 DEF ProcInv, Waits
<1>19. Stacks'
  <2>1. \A u \in Thread : u # Kernel => (pc'[u] \in InCall <=> pc[u] \in InCall)
    BY <1>1, <1>3 DEF InCall
  <2> QED
    BY <2>1, <1>1, <1>8, KeepsStack
<1> QED
  BY <1>9, <1>10, <1>11, <1>12, <1>14, <1>16, <1>17, <1>18, <1>19 DEF ProcInv

\* exit_return: a task that is marked goes to the free list, named by nobody.
LEMMA exit_return_Keeps ==
    ASSUME ProcInv, NEW t \in Thread, exit_return(t)
    PROVE  ProcInv'
<1>1. /\ pc[t] = "exiting" /\ freestk' = freestk + 1
      /\ pc' = [pc EXCEPT ![t] = IF freeing[t] THEN "free" ELSE "stuck"]
      /\ freeing' = [freeing EXCEPT ![t] = FALSE]
      /\ UNCHANGED <<proc, waitq, nextpid, process, at, child, images>>
  BY DEF exit_return, Goto
<1>2. t # Kernel
  BY <1>1, KernelPlace
<1> DEFINE x == IF freeing[t] THEN "free" ELSE "stuck"
<1>3. /\ pc' = [pc EXCEPT ![t] = x] /\ x \in {"free", "stuck"}
      /\ x = "free" => freeing[t]
  BY <1>1
<1> HIDE DEF x
<1>4. pc'[t] = x /\ \A u \in Thread : u # t => pc'[u] = pc[u]
  BY <1>3, Typed
<1>5. ~ freeing'[t] /\ \A u \in Thread : u # t => (freeing'[u] <=> freeing[u])
  BY <1>1, Typed
<1>6. \A u \in Thread : Alive(u)' <=> Alive(u)
  BY <1>1, <1>3, <1>4 DEF Alive, Living
<1>7. Stacks' /\ freestk' \in Nat
  <2>1. pc[t] \in InCall /\ x \notin InCall
    BY <1>1, <1>3 DEF InCall
  <2> QED
    BY <2>1, <1>1, <1>2, <1>3, GivesStack
<1>8. ProcTypeOK'
  <2>1. pc' \in [Thread -> Place]
    BY <1>3, Typed DEF Place
  <2>2. freeing' \in [Thread -> BOOLEAN]
    BY <1>1, Typed
  <2> QED
    BY <2>1, <2>2, <1>1, <1>7, Typed DEF ProcTypeOK
<1>9. AliveHasSlot' /\ PidsDiffer'
  BY <1>1, <1>6 DEF ProcInv, AliveHasSlot, PidsDiffer
<1>10. KernelFirst'
  <2>1. \A u \in Thread : Alive(u)' /\ pc'[u] \notin {"user", "exit"} => process'[u] = 0
    BY <1>1, <1>4, <1>6 DEF ProcInv, KernelFirst, Alive, Living
  <2> QED
    BY <2>1, <1>1, <1>2, <1>4, Nulls, KernelKept
<1>11. \A u \in Thread : pc'[u] \in {"started", "allocated", "linked", "reap", "marking", "blocked"}
                            => pc'[u] = pc[u]
  BY <1>3, <1>4
<1>12. ExecSlots'
  BY <1>1, <1>6, <1>11 DEF ProcInv, ExecSlots
<1>13. \A u, a \in Thread : /\ Started(u, a)' => Started(u, a)
                            /\ Marking(u, a)' => Marking(u, a)
  BY <1>1, <1>11 DEF Started, Marking
<1>14. NamedOnce'
  BY <1>1, <1>13, NamesKept DEF ProcInv, NamedOnce
<1>15. NamedRight'
  <2> SUFFICES ASSUME NEW a \in Thread PROVE RightlyNamed(a)'
    BY DEF NamedRight
  <2>1. RightlyNamed(a)
    BY DEF ProcInv, NamedRight
  <2>2. Alive(a)' => NamedForOwn(a)'
    BY <2>1, <1>1, <1>6, <1>13, NamesKept DEF RightlyNamed
  <2>3. freeing'[a] \/ pc'[a] = "free" \/ a = Kernel
           => freeing[a] \/ pc[a] = "free" \/ a = Kernel
    BY <1>3, <1>4, <1>5
  <2>4. freeing'[a] \/ pc'[a] = "free" \/ a = Kernel => NotNamed(a)'
    BY <2>1, <2>3, <1>1, <1>13, NamesKept DEF RightlyNamed
  <2> QED
    BY <2>2, <2>4 DEF RightlyNamed
<1>16. Waits'
  <2>1. \A u \in Thread : pc[u] = "blocked" <=> pc'[u] = "blocked"
    BY <1>1, <1>3, <1>4
  <2> QED
    BY <2>1, <1>1 DEF ProcInv, Waits
<1> QED
  BY <1>7, <1>8, <1>9, <1>10, <1>12, <1>14, <1>15, <1>16 DEF ProcInv

\* wait: the shell finds a zombie, or it goes to sleep with none there.
LEMMA wait_Keeps ==
    ASSUME ProcInv, NEW t \in Thread, wait(t)
    PROVE  ProcInv'
<1>1. /\ pc[t] = "wait"
      /\ UNCHANGED <<proc, nextpid, process, freeing, child, images, freestk>>
  BY DEF wait
<1>2. t # Kernel /\ Alive(t)
  BY <1>1, KernelPlace DEF Alive, Living
<1>3. process[t] = 0
  BY <1>1, <1>2 DEF ProcInv, KernelFirst
<1>4. \A u \in Thread : pc[u] # "blocked"
  BY <1>1, <1>2, OthersOut
<1>5. waitq[0] = <<>>
  BY <1>4 DEF ProcInv, Waits
<1>6. PICK x \in {"reap", "blocked"} :
         /\ pc' = [pc EXCEPT ![t] = x]
         /\ x = "reap" => /\ waitq' = waitq
                          /\ \E i \in Zombies(t) : at' = [at EXCEPT ![t] = i]
         /\ x = "blocked" => /\ Zombies(t) = {} /\ at' = at
                             /\ waitq' = [waitq EXCEPT ![0] = Append(@, t)]
  <2>1. CASE Zombies(t) = {} /\ waitq' = [waitq EXCEPT ![0] = Append(@, t)]
             /\ pc' = [pc EXCEPT ![t] = "blocked"] /\ UNCHANGED at
    BY <2>1
  <2>2. CASE \E i \in Zombies(t) : at' = [at EXCEPT ![t] = i]
                /\ pc' = [pc EXCEPT ![t] = "reap"] /\ UNCHANGED waitq
    BY <2>2
  <2> QED
    BY <2>1, <2>2 DEF wait, Goto
<1>7. pc'[t] = x /\ \A u \in Thread : u # t => pc'[u] = pc[u]
  BY <1>6, Typed
<1>8. \A u \in Thread : Alive(u)' <=> Alive(u)
  BY <1>2, <1>7 DEF Alive, Living
<1>9. /\ at' \in [Thread -> Slot \cup {NoProc}]
      /\ \A u \in Thread : u # t => at'[u] = at[u]
      /\ x = "reap" => at'[t] \in Slot /\ proc[at'[t]].zombie
  BY <1>6, Typed DEF Zombies
<1>10. /\ \A j \in Slot : j # 0 => waitq'[j] = waitq[j]
       /\ x = "blocked" => waitq'[0] = <<t>>
       /\ x = "reap" => waitq'[0] = <<>>
       /\ waitq' \in [Slot -> Seq(Thread)]
  <2>1. Append(<<>>, t) = <<t>> /\ <<t>> \in Seq(Thread)
    OBVIOUS
  <2>2. x = "blocked" => waitq' = [waitq EXCEPT ![0] = <<t>>]
    BY <2>1, <1>5, <1>6
  <2>3. CASE x = "reap"
    BY <2>3, <1>5, <1>6, Typed
  <2>4. CASE x = "blocked"
    <3>1. waitq \in [Slot -> Seq(Thread)] /\ 0 \in Slot
      BY Typed, Nulls
    <3> QED
      BY <2>1, <2>2, <2>4, <3>1
  <2> QED
    BY <2>3, <2>4
<1>11. pc' \in [Thread -> Place]
  BY <1>6, Typed DEF Place
<1>12. ProcTypeOK'
  BY <1>1, <1>9, <1>10, <1>11, Typed DEF ProcTypeOK
<1>13. AliveHasSlot' /\ PidsDiffer'
  BY <1>1, <1>8 DEF ProcInv, AliveHasSlot, PidsDiffer
<1>14. KernelFirst'
  <2>1. \A u \in Thread : Alive(u)' /\ pc'[u] \notin {"user", "exit"} => process'[u] = 0
    BY <1>1, <1>3, <1>7, <1>8 DEF ProcInv, KernelFirst
  <2> QED
    BY <2>1, <1>1, <1>2, <1>7, <1>9, Nulls, KernelKept
<1>15. \A u \in Thread : pc'[u] \in {"started", "allocated", "linked", "marking", "free"}
                            => u # t /\ pc'[u] = pc[u]
  BY <1>6, <1>7
<1>16. ExecSlots'
  <2>1. \A u \in Thread : pc'[u] = "reap" => at'[u] \in Slot /\ proc'[at'[u]].zombie
    BY <1>1, <1>7, <1>9 DEF ProcInv, ExecSlots
  <2> QED
    BY <2>1, <1>1, <1>8, <1>9, <1>15 DEF ProcInv, ExecSlots
<1>17. \A u, a \in Thread : /\ Started(u, a)' => Started(u, a) /\ u # t
                            /\ Marking(u, a)' => Marking(u, a)
  BY <1>1, <1>15 DEF Started, Marking
<1>18. NamedOnce'
  BY <1>1, <1>17, NamesKept DEF ProcInv, NamedOnce
<1>19. NamedRight'
  BY <1>1, <1>8, <1>9, <1>15, <1>17, NamesKept DEF ProcInv, NamedRight, RightlyNamed
<1>20. Waits'
  <2>1. Waits /\ PidsDiffer
    BY DEF ProcInv
  <2>2. \A u \in Thread : pc'[u] = "blocked" => u = t /\ x = "blocked"
    BY <1>4, <1>7
  <2>3. x = "blocked" => \A j \in Slot : proc[j].parent = 0 => ~ proc[j].zombie
    BY <2>1, <1>3, <1>6 DEF PidsDiffer, Zombies
  <2> QED
    BY <2>1, <2>2, <2>3, <1>1, <1>6, <1>7, <1>10 DEF Waits
<1>21. Stacks'
  <2>1. \A u \in Thread : u # Kernel => (pc'[u] \in InCall <=> pc[u] \in InCall)
    BY <1>1, <1>6, <1>7 DEF InCall
  <2> QED
    BY <2>1, <1>1, <1>11, KeepsStack
<1> QED
  BY <1>12, <1>13, <1>14, <1>16, <1>18, <1>19, <1>20, <1>21 DEF ProcInv

\* reap: the slot of the zombie is given up.
LEMMA reap_Keeps ==
    ASSUME ProcInv, NEW t \in Thread, reap(t)
    PROVE  ProcInv'
<1> DEFINE i == at[t]
<1>1. /\ pc[t] = "reap" /\ proc_free(proc, i) /\ Return(t)
      /\ UNCHANGED <<waitq, nextpid, process, freeing, at, child>>
  BY DEF reap
<1>2. t # Kernel /\ Alive(t)
  BY <1>1, KernelPlace DEF Alive, Living
<1>3. i \in Slot /\ proc[i].zombie
  BY <1>1 DEF ProcInv, ExecSlots
<1> HIDE DEF i
<1>4. Stacks' /\ freestk' \in Nat /\ pc' = [pc EXCEPT ![t] = "user"]
  <2>1. pc[t] \in InCall
    BY <1>1 DEF InCall
  <2> QED
    BY <1>1, <1>2, <2>1, ReturnStacks
<1>5. pc'[t] = "user" /\ \A u \in Thread : u # t => pc'[u] = pc[u]
  BY <1>4, Typed
<1>6. \A u \in Thread : Alive(u)' <=> Alive(u)
  BY <1>2, <1>5 DEF Alive, Living
<1>7. proc' \in Table /\ GivenUp(proc, proc', i)
  BY <1>1, <1>3, Typed, FreedIs
<1>8. /\ \A j \in Slot : /\ proc'[j].parent = proc[j].parent
                         /\ proc'[j].task \in {proc[j].task, NoProc}
                         /\ proc'[j].zombie => proc[j].zombie
      /\ \A j \in Slot : j # i => proc'[j] = proc[j]
  BY <1>7 DEF GivenUp
<1>9. ProcTypeOK'
  <2>1. pc' \in [Thread -> Place]
    BY <1>4, Typed DEF Place
  <2> QED
    BY <2>1, <1>1, <1>4, <1>7, Typed DEF ProcTypeOK
<1>10. AliveHasSlot' /\ PidsDiffer'
  <2>1. \A u \in Thread : Alive(u) => process[u] # i
    BY <1>3 DEF ProcInv, AliveHasSlot
  <2>2. proc \in Table
    BY Typed
  <2> QED
    BY <1>1, <1>3, <1>6, <2>1, <2>2, GivenUpKeeps
<1>11. KernelFirst'
  <2>1. \A u \in Thread : Alive(u)' /\ pc'[u] \notin {"user", "exit"} => process'[u] = 0
    BY <1>1, <1>5, <1>6 DEF ProcInv, KernelFirst
  <2> QED
    BY <2>1, <1>1, <1>2, <1>5, Nulls, KernelKept
<1>12. \A u \in Thread : u # t => pc[u] \notin {"exec", "allocated", "wait", "blocked", "reap"}
  BY <1>1, <1>2, OthersOut
<1>13. \A u \in Thread : /\ pc'[u] \notin {"allocated", "blocked", "reap"}
                         /\ pc'[u] \in {"started", "linked", "marking", "free"}
                               => pc'[u] = pc[u]
  BY <1>5, <1>12
<1>14. ExecSlots'
  BY <1>1, <1>13 DEF ProcInv, ExecSlots
<1>15. \A u, c \in Thread : /\ Started(u, c)' => Started(u, c)
                            /\ Marking(u, c)' => Marking(u, c)
  BY <1>1, <1>13 DEF Started, Marking
<1>16. \A j \in Slot, c \in Thread : proc'[j].task = c => proc[j].task = c
  BY <1>8, Nulls
<1>17. NamedOnce'
  BY <1>15, <1>16, NamesKept DEF ProcInv, NamedOnce
<1>18. NamedRight'
  BY <1>1, <1>6, <1>13, <1>15, <1>16, NamesKept DEF ProcInv, NamedRight, RightlyNamed
<1>19. Waits'
  <2>1. Waits /\ \A u \in Thread : pc[u] # "blocked"
    BY <1>1, <1>12 DEF ProcInv
  <2> QED
    BY <2>1, <1>1, <1>8, <1>13 DEF Waits
<1> QED
  BY <1>4, <1>9, <1>10, <1>11, <1>14, <1>17, <1>18, <1>19 DEF ProcInv

\* exit_process: the one that sleeps in wait, if any, is woken.
LEMMA exit_process_Keeps ==
    ASSUME ProcInv, NEW t \in Thread, exit_process(t)
    PROVE  ProcInv'
<1> DEFINE i == process[t]
           c == proc[i].task
           P == [proc EXCEPT ![i].task = NoProc]
           p == proc[i].parent
           w == Woken(waitq[0])
<1>1. pc[t] = "exit" /\ child' = [child EXCEPT ![t] = c]
      /\ UNCHANGED <<nextpid, process, freeing, at, freestk>>
  BY DEF exit_process
<1>2. t # Kernel /\ Alive(t)
  BY <1>1, KernelPlace DEF Alive, Living
<1>3. /\ i \in Slot /\ ~ proc[i].zombie /\ proc[i].pid \in images /\ proc[i].pid # 0
      /\ \A u \in Thread : Alive(u) /\ u # t => process[u] # i
  BY <1>2 DEF ProcInv, AliveHasSlot, PidsDiffer
<1>4. c \in Thread \cup {NoProc}
  BY <1>3, Typed DEF Table, ProcRecord
<1>5. p \in {0, NoProc}
  BY <1>3 DEF ProcInv, Waits
<1>6. P \in Table /\ TaskChanged(proc, P, i, NoProc)
  BY <1>3, Typed, TaskSet
<1>7. IF p # NoProc
      THEN /\ proc' = [P EXCEPT ![i].zombie = TRUE]
           /\ waitq' = [waitq EXCEPT ![p] = IF Woken(@) = {} THEN @ ELSE Tail(@)]
           /\ pc' = [u \in Thread |-> IF u = t THEN "marking"
                                    ELSE IF u \in Woken(waitq[p]) THEN "wait"
                                    ELSE pc[u]]
           /\ UNCHANGED images
      ELSE proc_free(P, i) /\ pc' = [pc EXCEPT ![t] = "marking"] /\ UNCHANGED waitq
  BY DEF exit_process, Goto
<1>8. i = process[t] /\ c = proc[i].task
  OBVIOUS
<1> HIDE DEF i, c, P, p
\* who sleeps
<1>9. /\ \A u \in w : u \in Thread /\ u # t /\ u # Kernel /\ pc[u] = "blocked"
      /\ \A u \in Thread : pc[u] = "blocked" => u \in w
      /\ (IF w = {} THEN waitq[0] ELSE Tail(waitq[0])) = <<>>
  <2>1. CASE waitq[0] = <<>>
    BY <2>1 DEF ProcInv, Waits, Woken
  <2>2. ASSUME NEW u \in Thread, waitq[0] = <<u>>, pc[u] = "blocked"
        PROVE  /\ \A v \in w : v \in Thread /\ v # t /\ v # Kernel /\ pc[v] = "blocked"
               /\ \A v \in Thread : pc[v] = "blocked" => v \in w
               /\ (IF w = {} THEN waitq[0] ELSE Tail(waitq[0])) = <<>>
    <3>1. Head(<<u>>) = u /\ Tail(<<u>>) = <<>> /\ <<u>> # <<>>
      OBVIOUS
    <3>2. w = {u} /\ Tail(waitq[0]) = <<>>
      BY <2>2, <3>1 DEF Woken
    <3>3. \A v \in Thread : pc[v] = "blocked" => <<v>> = <<u>>
      BY <2>2 DEF ProcInv, Waits
    <3>4. \A v \in Thread : <<v>> = <<u>> => v = u
      OBVIOUS
    <3>5. u # t /\ u # Kernel
      BY <2>2, <1>1, KernelPlace
    <3> QED
      BY <2>2, <3>2, <3>3, <3>4, <3>5
  <2> QED
    BY <2>1, <2>2 DEF ProcInv, Waits
<1>10. /\ pc'[t] = "marking" /\ pc' \in [Thread -> Place]
       /\ p = NoProc => \A u \in Thread : u # t => pc'[u] = pc[u]
       /\ p # NoProc => \A u \in Thread : u # t =>
             pc'[u] = IF u \in w THEN "wait" ELSE pc[u]
  <2>1. CASE p = NoProc
    BY <2>1, <1>7, Typed DEF Place
  <2>2. CASE p # NoProc
    <3>1. p = 0 /\ pc' = [u \in Thread |-> IF u = t THEN "marking"
                                      ELSE IF u \in w THEN "wait" ELSE pc[u]]
      BY <2>2, <1>5, <1>7
    <3> HIDE DEF w
    <3>2. pc' \in [Thread -> Place]
      BY <3>1, Typed DEF Place
    <3> QED
      BY <2>2, <3>1, <3>2
  <2> QED
    BY <2>1, <2>2
<1>11. /\ waitq' \in [Slot -> Seq(Thread)]
       /\ \A j \in Slot : j # 0 => waitq'[j] = waitq[j]
       /\ p # NoProc => waitq'[0] = <<>>
       /\ p = NoProc => waitq' = waitq
  <2>1. CASE p = NoProc
    BY <2>1, <1>7, Typed
  <2>2. CASE p # NoProc
    <3> DEFINE rest == IF w = {} THEN waitq[0] ELSE Tail(waitq[0])
    <3>1. waitq' = [waitq EXCEPT ![0] = rest]
      BY <2>2, <1>5, <1>7
    <3>2. rest = <<>> /\ <<>> \in Seq(Thread)
      BY <1>9
    <3> HIDE DEF rest
    <3>3. rest \in Seq(Thread)
      BY <3>2
    <3>4. /\ waitq' \in [Slot -> Seq(Thread)] /\ waitq'[0] = rest
          /\ \A j \in Slot : j # 0 => waitq'[j] = waitq[j]
      BY <3>1, <3>3, Typed, Nulls
    <3> QED
      BY <2>2, <3>2, <3>4
  <2> QED
    BY <2>1, <2>2
<1> HIDE DEF w
\* what is left of the table
<1>12. /\ proc' \in Table
       /\ \A j \in Slot : j # i => /\ proc'[j].pid = proc[j].pid
                                   /\ proc'[j].task = proc[j].task
                                   /\ proc'[j].image = proc[j].image
                                   /\ proc'[j].zombie <=> proc[j].zombie
       /\ \A j \in Slot : proc'[j].parent = proc[j].parent
       /\ proc'[i].task = NoProc
       /\ proc'[i].zombie <=> p # NoProc
  <2>1. CASE p = NoProc
    <3>1. proc' \in Table /\ GivenUp(P, proc', i)
      BY <2>1, <1>3, <1>6, <1>7, FreedIs
    <3> QED
      BY <2>1, <3>1, <1>3, <1>6 DEF GivenUp, TaskChanged
  <2>2. CASE p # NoProc
    <3>1. proc' \in Table /\ ZombieMade(P, proc', i)
      BY <2>2, <1>3, <1>6, <1>7, ZombieSet
    <3> QED
      BY <2>2, <3>1, <1>3, <1>6 DEF ZombieMade, TaskChanged
  <2> QED
    BY <2>1, <2>2
<1>13. \A u \in Thread : Alive(u)' <=> Alive(u) /\ u # t
  <2> SUFFICES ASSUME NEW u \in Thread PROVE Alive(u)' <=> Alive(u) /\ u # t
    OBVIOUS
  <2>1. CASE u = t
    BY <2>1, <1>10 DEF Alive, Living
  <2>2. CASE u # t /\ (u \notin w \/ p = NoProc)
    BY <2>2, <1>10 DEF Alive
  <2>3. CASE u # t /\ u \in w /\ p # NoProc
    BY <2>3, <1>9, <1>10 DEF Alive, Living
  <2> QED
    BY <2>1, <2>2, <2>3
<1>14. ProcTypeOK'
  <2>1. child' \in [Thread -> Thread \cup {NoProc}]
    BY <1>1, <1>4, Typed
  <2>2. images' = images \/ images' \subseteq images
    BY <1>7 DEF proc_free
  <2> QED
    BY <2>1, <1>1, <1>10, <1>11, <1>12, Typed DEF ProcTypeOK
<1>15. AliveHasSlot' /\ PidsDiffer'
  <2>1. CASE p = NoProc
    <3>1. \A j \in Slot : /\ P[j].pid = proc[j].pid
                          /\ P[j].zombie => proc[j].zombie
                          /\ P[j].image \in {proc[j].image, NoProc}
      BY <1>6 DEF TaskChanged
    <3>2. \A u \in Thread : Alive(u)' => Alive(u) /\ process[u] # i
      BY <1>3, <1>13
    <3>3. proc_free(P, i) /\ process' = process /\ nextpid' = nextpid
      BY <2>1, <1>1, <1>7
    <3> QED
      BY <3>1, <3>2, <3>3, <1>3, <1>6, GivenUpKeeps
  <2>2. CASE p # NoProc
    <3>1. images' = images /\ ZombieMade(P, proc', i)
      BY <2>2, <1>3, <1>6, <1>7, ZombieSet
    <3>2. \A j \in Slot : proc'[j].pid = proc[j].pid /\ proc'[j].image = proc[j].image
      BY <3>1, <1>6 DEF ZombieMade, TaskChanged
    <3>3. AliveHasSlot'
      BY <3>1, <3>2, <1>1, <1>3, <1>12, <1>13 DEF ProcInv, AliveHasSlot
    <3>4. PidsDiffer'
      BY <3>1, <3>2, <1>1, <1>3, <1>12 DEF ProcInv, PidsDiffer
    <3> QED
      BY <3>3, <3>4
  <2> QED
    BY <2>1, <2>2
<1>16. KernelFirst'
  <2>1. ASSUME NEW u \in Thread, Alive(u)', pc'[u] \notin {"user", "exit"}
        PROVE  process'[u] = 0
    <3>1. Alive(u) /\ u # t
      BY <2>1, <1>13
    <3>2. pc[u] \notin {"user", "exit"}
      BY <2>1, <3>1, <1>9, <1>10
    <3> QED
      BY <3>1, <3>2, <1>1 DEF ProcInv, KernelFirst
  <2>2. pc'[Kernel] = pc[Kernel]
    BY <1>2, <1>9, <1>10, Nulls
  <2> QED
    BY <2>1, <2>2, <1>1, <1>2, KernelKept
<1>17. \A u \in Thread : pc'[u] \in {"allocated", "started", "linked", "reap", "free"}
                            => u # t /\ pc'[u] = pc[u]
  BY <1>10
<1>18. ExecSlots'
  <2>1. \A u \in Thread : pc[u] = "allocated" => at[u] # i
    BY <1>2, <1>8 DEF ProcInv, ExecSlots
  <2>2. \A u \in Thread : pc[u] = "reap" => at[u] # i
    BY <1>3 DEF ProcInv, ExecSlots
  <2> QED
    BY <2>1, <2>2, <1>1, <1>12, <1>13, <1>17 DEF ProcInv, ExecSlots
<1>19. /\ \A u, a \in Thread : Started(u, a)' => Started(u, a)
       /\ \A u, a \in Thread : Marking(u, a)' /\ u # t => Marking(u, a)
       /\ \A a \in Thread : Marking(t, a)' => a = c
  <2>1. \A u \in Thread : pc'[u] = "marking" /\ u # t => pc[u] = "marking"
    BY <1>10
  <2>2. child'[t] = c /\ \A u \in Thread : u # t => child'[u] = child[u]
    BY <1>1, Typed
  <2> QED
    BY <2>1, <2>2, <1>17 DEF Started, Marking
<1>20. \A j \in Slot, a \in Thread : proc'[j].task = a => j # i /\ proc[j].task = a
  BY <1>12, Nulls
<1>21. \A a \in Thread : a = c => /\ \A u \in Thread : ~ Started(u, a) /\ ~ Marking(u, a)
                                  /\ \A j \in Slot : proc[j].task = a => j = i
                                  /\ ~ Alive(a)' /\ ~ NotNamed(a) /\ RightlyNamed(a)
  <2> SUFFICES ASSUME NEW a \in Thread, a = c
               PROVE  /\ \A u \in Thread : ~ Started(u, a) /\ ~ Marking(u, a)
                      /\ \A j \in Slot : proc[j].task = a => j = i
                      /\ ~ Alive(a)' /\ ~ NotNamed(a) /\ RightlyNamed(a)
    OBVIOUS
  <2>1. OnceNamed(a) /\ RightlyNamed(a)
    BY DEF ProcInv, NamedOnce, NamedRight
  <2>2. proc[i].task = a
    BY <1>8
  <2>3. /\ \A u \in Thread : ~ Started(u, a) /\ ~ Marking(u, a)
        /\ \A j \in Slot : proc[j].task = a => j = i
    BY <2>1, <2>2, <1>3 DEF OnceNamed
  <2>4. ~ NotNamed(a)
    BY <2>2, <1>3 DEF NotNamed
  <2>5. Alive(a) => i = process[a]
    BY <2>1, <2>2, <1>3 DEF RightlyNamed, NamedForOwn
  <2> QED
    BY <2>1, <2>3, <2>4, <2>5, <1>3, <1>13
<1>22. NamedOnce'
  <2> SUFFICES ASSUME NEW a \in Thread PROVE OnceNamed(a)'
    BY DEF NamedOnce
  <2>1. CASE a = c
    BY <2>1, <1>19, <1>20, <1>21 DEF OnceNamed
  <2>2. CASE a # c
    BY <2>2, <1>19, <1>20, NamesKept DEF ProcInv, NamedOnce
  <2> QED
    BY <2>1, <2>2
<1>23. NamedRight'
  <2> SUFFICES ASSUME NEW a \in Thread PROVE RightlyNamed(a)'
    BY DEF NamedRight
  <2>1. CASE a = c
    BY <2>1, <1>1, <1>17, <1>21 DEF RightlyNamed
  <2>2. CASE a # c
    BY <2>2, <1>1, <1>13, <1>17, <1>19, <1>20, NamesKept
       DEF ProcInv, NamedRight, RightlyNamed
  <2> QED
    BY <2>1, <2>2
<1>24. Waits'
  <2>1. Waits
    BY DEF ProcInv
  <2>2. CASE p = NoProc
    <3>1. \A u \in Thread : pc'[u] = "blocked" <=> pc[u] = "blocked"
      BY <2>2, <1>1, <1>10
    <3>2. \A j \in Slot : proc'[j].zombie => proc[j].zombie
      BY <2>2, <1>12
    <3> QED
      BY <2>1, <2>2, <3>1, <3>2, <1>11, <1>12 DEF Waits
  <2>3. CASE p # NoProc
    <3>1. \A u \in Thread : pc'[u] # "blocked"
      BY <2>3, <1>9, <1>10
    <3> QED
      BY <2>1, <2>3, <3>1, <1>11, <1>12 DEF Waits
  <2> QED
    BY <2>2, <2>3
<1>25. Stacks'
  <2>1. ASSUME NEW u \in Thread PROVE pc'[u] \in InCall <=> pc[u] \in InCall
    <3>1. CASE u = t
      BY <3>1, <1>1, <1>10 DEF InCall
    <3>2. CASE u # t /\ (u \notin w \/ p = NoProc)
      BY <3>2, <1>10
    <3>3. CASE u # t /\ u \in w /\ p # NoProc
      BY <3>3, <1>9, <1>10 DEF InCall
    <3> QED
      BY <3>1, <3>2, <3>3
  <2> QED
    BY <2>1, <1>1, <1>10, KeepsStack
<1> QED
  BY <1>14, <1>15, <1>16, <1>18, <1>22, <1>23, <1>24, <1>25 DEF ProcInv

-----------------------------------------------------------------------------
LEMMA ProcInitially == ProcInit => ProcInv
<1> SUFFICES ASSUME ProcInit PROVE ProcInv
  OBVIOUS
<1> USE Nulls, ProcessAssumption DEF ProcInit
<1>1. ProcTypeOK
  BY DEF ProcTypeOK, Table, ProcRecord, Place
<1>2. \A t \in Thread : ~ Alive(t) /\ (t # Kernel => pc[t] = "free")
  BY DEF Alive, Living
<1>3. AliveHasSlot /\ PidsDiffer
  BY <1>2 DEF AliveHasSlot, PidsDiffer
<1>4. KernelFirst
  BY <1>2 DEF KernelFirst
<1>5. \A t \in Thread : pc[t] \in {"exec", "free"}
  OBVIOUS
<1>6. ExecSlots /\ Waits
  BY <1>5 DEF ExecSlots, Waits
<1>7. \A t, c \in Thread : ~ Started(t, c) /\ ~ Marking(t, c)
  BY <1>5 DEF Started, Marking
<1>8. \A i \in Slot, c \in Thread : proc[i].task # c
  OBVIOUS
<1>9. NamedOnce
  BY <1>7, <1>8 DEF NamedOnce, OnceNamed
<1>10. NamedRight
  BY <1>2, <1>7, <1>8 DEF NamedRight, RightlyNamed, NotNamed
<1>11. Stacks
  <2>1. Calling = {}
    BY DEF Calling, InCall
  <2> QED
    BY <2>1, FS_EmptySet DEF Stacks
<1> QED
  BY <1>1, <1>3, <1>4, <1>6, <1>9, <1>10, <1>11 DEF ProcInv

LEMMA NothingKeeps ==
    ASSUME ProcInv, UNCHANGED procvars
    PROVE  ProcInv'
BY DEF procvars, ProcInv, ProcTypeOK, AliveHasSlot, Alive, PidsDiffer,
   KernelFirst, ExecSlots, NamedOnce, OnceNamed, NamedRight, RightlyNamed,
   NamedForOwn, NotNamed, Started, Marking, Waits, Stacks, Calling

LEMMA ProcStep ==
    ASSUME OneShell, ProcInv, [ProcNext]_procvars
    PROVE  ProcInv'
<1>1. CASE UNCHANGED procvars
  BY <1>1, NothingKeeps
<1>2. CASE Stopped
  BY <1>2, NothingKeeps DEF Stopped
<1>3. ASSUME NEW t \in Thread, NEW call \in Calls, disp(t, call) PROVE ProcInv'
  BY <1>3, disp_Keeps
<1>4. ASSUME NEW t \in Thread,
             exec_fails(t) \/ proc_alloc(t) \/ make_process(t)
                \/ make_process_fails(t) \/ set_task(t)
      PROVE  ProcInv'
  BY <1>4, exec_fails_Keeps, proc_alloc_Keeps, make_process_Keeps,
     make_process_fails_Keeps, set_task_Keeps
<1>5. ASSUME NEW t \in Thread, NEW dupfails \in {FALSE, DupFails},
             set_parent(t, dupfails)
      PROVE  ProcInv'
  <2>1. dupfails = FALSE
    BY DEF OneShell
  <2>2. set_parent(t, FALSE)
    BY <1>5, <2>1, Zenon
  <2> QED
    BY <2>2, set_parent_Keeps
<1>6. ASSUME NEW t \in Thread,
             exit_process(t) \/ mark_task(t) \/ exit_return(t) \/ wait(t) \/ reap(t)
      PROVE  ProcInv'
  BY <1>6, exit_process_Keeps, mark_task_Keeps, exit_return_Keeps, wait_Keeps,
     reap_Keeps
<1> QED
  BY <1>1, <1>2, <1>3, <1>4, <1>5, <1>6, Zenon DEF ProcNext

\* The invariant holds in every state.
LEMMA ProcInvariant ==
    ASSUME OneShell
    PROVE  ProcSpec => []ProcInv
<1>1. ProcInit => ProcInv
  BY ProcInitially
<1>2. ProcInv /\ [ProcNext]_procvars => ProcInv'
  BY ProcStep
<1> QED
  BY <1>1, <1>2, PTL DEF ProcSpec

\* A program that runs has a slot of its own and its image in memory, however
\* exec, exit and wait interleave, with one shell and room for the handles.
THEOREM ProgramsKeepTheirSlots ==
    ASSUME OneShell
    PROVE  ProcSpec => []RunningHasSlot
<1>1. ProcInv => RunningHasSlot
  <2> SUFFICES ASSUME ProcInv, NEW t \in Thread \ {Kernel}, pc[t] = "user"
               PROVE  /\ process[t] # NoProc /\ proc[process[t]].pid \in images
                      /\ \A u \in Thread : u # t /\ pc[u] = "user"
                            => process[u] # process[t]
    BY DEF RunningHasSlot
  <2>1. Alive(t)
    BY DEF Alive, Living
  <2>2. \A u \in Thread : pc[u] = "user" => Alive(u)
    BY KernelPlace DEF Alive, Living
  <2> QED
    BY <2>1, <2>2, Nulls DEF ProcInv, AliveHasSlot
<1> QED
  BY <1>1, ProcInvariant, PTL

\* The shell never sleeps in _wait while a child of it is a zombie.
THEOREM ShellIsWoken ==
    ASSUME OneShell
    PROVE  ProcSpec => []NoLostWakeup
<1>1. ProcInv => NoLostWakeup
  <2> SUFFICES ASSUME ProcInv, NEW t \in Thread, pc[t] = "blocked"
               PROVE  Zombies(t) = {}
    BY DEF NoLostWakeup
  <2>1. process[t] = 0
    BY KernelPlace DEF ProcInv, KernelFirst, Alive, Living
  <2> QED
    BY <2>1 DEF ProcInv, Waits, Zombies
<1> QED
  BY <1>1, ProcInvariant, PTL

\* The stacks of the system calls are all there: free, or under one call.
THEOREM NoStackIsLost ==
    ASSUME OneShell
    PROVE  ProcSpec => []StacksConserved
<1>1. ProcInv => StacksConserved
  BY DEF ProcInv, Stacks, Calling, StacksConserved
<1> QED
  BY <1>1, ProcInvariant, PTL

-----------------------------------------------------------------------------
(***************************************************************************)
(* The open files                                                          *)
(***************************************************************************)

Purpose == File \cup {""}
OftRecord == [refcnt : Nat, file : Purpose]
Descriptor == Kfd \cup {-1}
JobRecord == [at : {"out", "lookup", "device", "started", "dup", "wait"},
              kfd : Descriptor, fd : Handle \cup {-1}, child : Proc \cup {""}]

FilesTypeOK ==
    /\ oft \in [Kfd -> OftRecord]
    /\ fds \in [Proc -> [Handle -> Descriptor]]
    /\ meant \in [Proc -> [Handle -> Purpose]]
    /\ state \in [Proc -> {"unused", "runs", "zombie", "freed"}]
    /\ job \in [Proc -> JobRecord]

\* the process is in kopen
Opening(p) == job[p].at \in {"lookup", "device"}

\* What a process in a call works on.  It is running: nobody takes the slot
\* from under it.
JobsRight ==
    \A p \in Proc :
        /\ job[p].at # "out" => state[p] = "runs"
        /\ Opening(p) => job[p].kfd \in Kfd /\ job[p].fd \in Handle
        /\ job[p].at = "started" => job[p].child \in Proc
        /\ job[p].at = "dup" => job[p].fd \in Handle /\ job[p].child \in Proc

\* n counts the members of U and O.  It may be larger: dup_handles leaves
\* counts behind when it sets descriptors of a child that has exited.
Counted(n, U, O) ==
    IsFiniteSet(U) /\ IsFiniteSet(O) /\ n >= Cardinality(U) + Cardinality(O)
EntriesCounted == \A i \in Kfd : Counted(oft[i].refcnt, Users(i), Openers(i))

\* An entry that an open is about to fill in is nobody else's.
OneOpener ==
    \A p \in Proc : Opening(p) =>
        /\ Users(job[p].kfd) = {}
        /\ \A q \in Proc : Opening(q) /\ job[q].kfd = job[p].kfd => q = p

FileMeant ==
    \A p \in Proc, j \in Handle : state[p] # "unused" /\ fds[p][j] # -1 =>
        oft[fds[p][j]].file = meant[p][j]

FilesInv == FilesTypeOK /\ JobsRight /\ EntriesCounted /\ OneOpener /\ FileMeant

-----------------------------------------------------------------------------
(* Counts.                                                                 *)

LEMMA CountedSwap ==
    ASSUME NEW n, NEW U, NEW O, Counted(n, U, O)
    PROVE  Counted(n, O, U)
<1>1. IsFiniteSet(U) /\ IsFiniteSet(O) /\ n >= Cardinality(U) + Cardinality(O)
  BY DEF Counted
<1>2. Cardinality(U) \in Nat /\ Cardinality(O) \in Nat
  BY <1>1, FS_CardinalityType
<1>3. Cardinality(U) + Cardinality(O) = Cardinality(O) + Cardinality(U)
  BY <1>2
<1> QED
  BY <1>1, <1>3 DEF Counted

LEMMA CountedLess ==
    ASSUME NEW n \in Nat, NEW U, NEW O, Counted(n, U, O),
           NEW V, V \subseteq U, NEW P, P \subseteq O
    PROVE  Counted(n, V, P)
<1>1. IsFiniteSet(U) /\ IsFiniteSet(O) /\ n >= Cardinality(U) + Cardinality(O)
  BY DEF Counted
<1>2. IsFiniteSet(V) /\ Cardinality(V) <= Cardinality(U)
  BY <1>1, FS_Subset
<1>3. IsFiniteSet(P) /\ Cardinality(P) <= Cardinality(O)
  BY <1>1, FS_Subset
<1>4. /\ Cardinality(U) \in Nat /\ Cardinality(O) \in Nat
      /\ Cardinality(V) \in Nat /\ Cardinality(P) \in Nat
  BY <1>1, <1>2, <1>3, FS_CardinalityType
<1>5. n >= Cardinality(V) + Cardinality(P)
  BY <1>1, <1>2, <1>3, <1>4
<1> QED
  BY <1>2, <1>3, <1>5 DEF Counted

LEMMA CountedMore ==
    ASSUME NEW n \in Nat, NEW U, NEW O, Counted(n, U, O), NEW x
    PROVE  Counted(n + 1, U \cup {x}, O)
<1>1. IsFiniteSet(U) /\ IsFiniteSet(O) /\ n >= Cardinality(U) + Cardinality(O)
  BY DEF Counted
<1>2. IsFiniteSet(U \cup {x})
  BY <1>1, FS_AddElement
<1>3. Cardinality(U \cup {x}) = Cardinality(U) \/ Cardinality(U \cup {x}) = Cardinality(U) + 1
  BY <1>1, FS_AddElement
<1>4. Cardinality(U) \in Nat /\ Cardinality(O) \in Nat
  BY <1>1, FS_CardinalityType
<1>5. n + 1 >= Cardinality(U \cup {x}) + Cardinality(O)
  BY <1>1, <1>3, <1>4
<1> QED
  BY <1>1, <1>2, <1>5 DEF Counted

LEMMA CountedGone ==
    ASSUME NEW n \in Nat, NEW U, NEW O, Counted(n, U, O), NEW x \in U
    PROVE  n - 1 \in Nat /\ Counted(n - 1, U \ {x}, O)
<1>1. IsFiniteSet(U) /\ IsFiniteSet(O) /\ n >= Cardinality(U) + Cardinality(O)
  BY DEF Counted
<1>2. IsFiniteSet(U \ {x}) /\ Cardinality(U \ {x}) = Cardinality(U) - 1
  BY <1>1, FS_RemoveElement
<1>3. Cardinality(U \ {x}) \in Nat /\ Cardinality(U) \in Nat /\ Cardinality(O) \in Nat
  BY <1>1, <1>2, FS_CardinalityType
<1>4. n - 1 \in Nat /\ n - 1 >= Cardinality(U \ {x}) + Cardinality(O)
  BY <1>1, <1>2, <1>3
<1> QED
  BY <1>1, <1>2, <1>4 DEF Counted

LEMMA CountedNone ==
    ASSUME NEW U, NEW O, Counted(0, U, O)
    PROVE  U = {} /\ O = {}
<1>1. IsFiniteSet(U) /\ IsFiniteSet(O) /\ 0 >= Cardinality(U) + Cardinality(O)
  BY DEF Counted
<1>2. Cardinality(U) \in Nat /\ Cardinality(O) \in Nat
  BY <1>1, FS_CardinalityType
<1>3. Cardinality(U) = 0 /\ Cardinality(O) = 0
  BY <1>1, <1>2
<1> QED
  BY <1>1, <1>3, FS_EmptySet

LEMMA CountedEmpty ==
    ASSUME NEW n \in Nat
    PROVE  Counted(n, {}, {})
BY FS_EmptySet DEF Counted

-----------------------------------------------------------------------------
(* What the parts of the state are after a step.                           *)

\* The first of a set of numbers is a member of it.
LEMMA LeastIsIn ==
    ASSUME NEW S, S \subseteq Nat, S # {}
    PROVE  Least(S) \in S
<1> DEFINE R == OpToRel(<, Nat)
<1>1. IsWellFoundedOn(R, Nat)
  BY NatLessThanWellFounded
<1>2. \A i, j \in Nat : i < j => <<i, j>> \in R
  BY DEF OpToRel
<1> HIDE DEF R
<1>3. PICK m \in S : \A k \in S : ~ (<<k, m>> \in R)
  BY <1>1, WFMin
<1>4. \A k \in S : ~ (k < m)
  BY <1>2, <1>3
<1>5. \A k \in S : m <= k
  BY <1>4
<1> QED
  BY <1>5 DEF Least

LEMMA Numbers ==
    /\ Kfd \subseteq Nat /\ Handle \subseteq Nat
    /\ -1 \notin Kfd /\ -1 \notin Handle /\ 0 \in Handle
BY FilesAssumption DEF Kfd, Handle

\* One element of a table of tables is set.
With(F, p, j, x) == [F EXCEPT ![p][j] = x]
SetTo(F, G, p, j, x) ==
    \A q \in Proc, k \in Handle : G[q][k] = IF q = p /\ k = j THEN x ELSE F[q][k]

LEMMA SetsOne ==
    ASSUME NEW V, NEW F \in [Proc -> [Handle -> V]], NEW p \in Proc,
           NEW j \in Handle, NEW x \in V, NEW G, G = With(F, p, j, x)
    PROVE  G \in [Proc -> [Handle -> V]] /\ SetTo(F, G, p, j, x)
BY DEF SetTo, With

LEMMA SetsMeant ==
    ASSUME NEW p \in Proc, NEW j \in Handle, NEW x \in Purpose,
           meant \in [Proc -> [Handle -> Purpose]], meant' = With(meant, p, j, x)
    PROVE  meant' \in [Proc -> [Handle -> Purpose]] /\ SetTo(meant, meant', p, j, x)
BY SetsOne

\* The count of one entry is set.
CountSet(H, Q, i, n) ==
    \A k \in Kfd : /\ Q[k].file = H[k].file
                   /\ Q[k].refcnt = IF k = i THEN n ELSE H[k].refcnt

LEMMA SetsCount ==
    ASSUME NEW H \in [Kfd -> OftRecord], NEW i \in Kfd, NEW n \in Nat,
           NEW Q, Q = [H EXCEPT ![i].refcnt = n]
    PROVE  Q \in [Kfd -> OftRecord] /\ CountSet(H, Q, i, n)
<1> DEFINE r == [H[i] EXCEPT !.refcnt = n]
<1>1. H[i] \in OftRecord
  OBVIOUS
<1>2. r \in OftRecord /\ r.file = H[i].file /\ r.refcnt = n
  BY <1>1 DEF OftRecord
<1>3. Q = [H EXCEPT ![i] = r]
  OBVIOUS
<1> HIDE DEF r
<1> QED
  BY <1>2, <1>3 DEF CountSet

\* No process has come to use an entry or to open one.
NoNewUsers ==
    \A q \in Proc, k \in Handle : (state'[q] # "unused" /\ fds'[q][k] # -1) =>
        /\ state[q] # "unused" /\ fds'[q][k] = fds[q][k]
        /\ meant'[q][k] = meant[q][k]
NoNewOpeners ==
    \A q \in Proc : Opening(q)' => Opening(q) /\ job'[q].kfd = job[q].kfd

LEMMA FewerUsers ==
    ASSUME NoNewUsers, NEW i \in Kfd
    PROVE  Users(i)' \subseteq Users(i)
<1> SUFFICES ASSUME NEW u \in Users(i)' PROVE u \in Users(i)
  OBVIOUS
<1>1. /\ u \in Proc \X Handle /\ u[1] \in Proc /\ u[2] \in Handle
      /\ state'[u[1]] # "unused" /\ fds'[u[1]][u[2]] = i
  BY DEF Users
<1>2. i # -1
  BY Numbers
<1>3. state[u[1]] # "unused" /\ fds[u[1]][u[2]] = i
  BY <1>1, <1>2 DEF NoNewUsers
<1> QED
  BY <1>1, <1>3 DEF Users

LEMMA FewerOpeners ==
    ASSUME NoNewOpeners, NEW i \in Kfd
    PROVE  Openers(i)' \subseteq Openers(i)
BY DEF NoNewOpeners, Openers, Opening

LEMMA OpenersAre ==
    ASSUME NEW i, NEW p \in Proc
    PROVE  p \in Openers(i) <=> Opening(p) /\ job[p].kfd = i
BY DEF Openers, Opening

LEMMA UsersAre ==
    ASSUME NEW i, NEW p \in Proc, NEW j \in Handle
    PROVE  <<p, j>> \in Users(i) <=> state[p] # "unused" /\ fds[p][j] = i
BY DEF Users

-----------------------------------------------------------------------------
(* What several actions do.                                                *)

LEMMA FilesTyped ==
    ASSUME FilesInv, NEW p \in Proc
    PROVE  /\ job[p] \in JobRecord /\ job[p].kfd \in Descriptor
           /\ fds[p] \in [Handle -> Descriptor]
           /\ \A j \in Handle : /\ fds[p][j] \in Descriptor
                                /\ meant[p][j] \in Purpose
           /\ \A i \in Kfd : /\ oft[i] \in OftRecord /\ oft[i].refcnt \in Nat
                             /\ oft[i].file \in Purpose
<1>1. job[p] \in JobRecord
  BY DEF FilesInv, FilesTypeOK
<1>2. job[p].kfd \in Descriptor
  BY <1>1 DEF JobRecord
<1>3. fds[p] \in [Handle -> Descriptor] /\ meant[p] \in [Handle -> Purpose]
  BY DEF FilesInv, FilesTypeOK
<1>4. \A i \in Kfd : oft[i] \in OftRecord
  BY DEF FilesInv, FilesTypeOK
<1>5. \A i \in Kfd : oft[i].refcnt \in Nat /\ oft[i].file \in Purpose
  BY <1>4 DEF OftRecord
<1> QED
  BY <1>1, <1>2, <1>3, <1>4, <1>5

LEMMA OneOpenerStays ==
    ASSUME FilesInv, NoNewUsers, NoNewOpeners
    PROVE  OneOpener'
<1> SUFFICES ASSUME NEW p \in Proc, Opening(p)'
             PROVE  /\ Users(job[p].kfd)' = {}
                    /\ \A q \in Proc : (Opening(q) /\ job[q].kfd = job[p].kfd)' => q = p
  BY DEF OneOpener
<1>1. Opening(p) /\ job'[p].kfd = job[p].kfd
  BY DEF NoNewOpeners
<1>2. PICK i \in Kfd : i = job[p].kfd
  BY <1>1 DEF FilesInv, JobsRight
<1>3. /\ Users(i) = {}
      /\ \A q \in Proc : Opening(q) /\ job[q].kfd = i => q = p
  BY <1>1, <1>2 DEF FilesInv, OneOpener
<1>4. job'[p].kfd = i
  BY <1>1, <1>2
<1>5. Users(i)' = {}
  BY <1>2, <1>3, FewerUsers
<1>6. \A q \in Proc : Opening(q)' /\ job'[q].kfd = i => q = p
  BY <1>3 DEF NoNewOpeners
<1>7. Users(job[p].kfd)' = {}
  BY <1>4, <1>5 DEF Users
<1> QED
  BY <1>4, <1>6, <1>7

LEMMA FileMeantStays ==
    ASSUME FilesInv, NoNewUsers, \A k \in Kfd : oft'[k].file = oft[k].file
    PROVE  FileMeant'
<1> SUFFICES ASSUME NEW p \in Proc, NEW j \in Handle,
                    state'[p] # "unused", fds'[p][j] # -1
             PROVE  oft'[fds'[p][j]].file = meant'[p][j]
  BY DEF FileMeant
<1>1. /\ state[p] # "unused" /\ fds'[p][j] = fds[p][j]
      /\ meant'[p][j] = meant[p][j]
  BY DEF NoNewUsers
<1>2. fds[p][j] \in Kfd
  BY <1>1, FilesTyped DEF Descriptor
<1>3. oft[fds[p][j]].file = meant[p][j]
  BY <1>1 DEF FilesInv, FileMeant
<1> QED
  BY <1>1, <1>2, <1>3

\* A step that leaves the table alone.
LEMMA CalmStep ==
    ASSUME FilesInv, oft' = oft, NoNewUsers, NoNewOpeners
    PROVE  EntriesCounted' /\ OneOpener' /\ FileMeant'
<1>1. EntriesCounted'
  <2> SUFFICES ASSUME NEW i \in Kfd
               PROVE  Counted(oft'[i].refcnt, Users(i)', Openers(i)')
    BY DEF EntriesCounted
  <2>1. Users(i)' \subseteq Users(i) /\ Openers(i)' \subseteq Openers(i)
    BY FewerUsers, FewerOpeners
  <2>2. oft[i].refcnt \in Nat /\ Counted(oft[i].refcnt, Users(i), Openers(i))
    BY DEF FilesInv, FilesTypeOK, OftRecord, EntriesCounted
  <2> QED
    BY <2>1, <2>2, CountedLess
<1>2. OneOpener'
  BY OneOpenerStays
<1>3. FileMeant'
  BY FileMeantStays
<1> QED
  BY <1>1, <1>2, <1>3

\* A descriptor is closed.
LEMMA CloseStep ==
    ASSUME FilesInv, NEW p \in Proc, NEW j \in Handle,
           state[p] # "unused", fds[p][j] # -1, kclose(fds[p][j]),
           fds' = [fds EXCEPT ![p][j] = -1],
           meant' = [meant EXCEPT ![p][j] = ""], state' = state, job' = job
    PROVE  FilesInv'
<1>1. PICK i \in Kfd : i = fds[p][j]
  BY FilesTyped DEF Descriptor
<1>2. PICK n \in Nat : n = oft[i].refcnt
  BY FilesTyped
<1>3. Counted(n, Users(i), Openers(i))
  BY <1>2 DEF FilesInv, EntriesCounted
<1>4. PICK m \in Nat : m = n - 1 /\ Counted(m, Users(i) \ {<<p, j>>}, Openers(i))
  <2>1. <<p, j>> \in Users(i)
    BY <1>1, UsersAre
  <2> QED
    BY <2>1, <1>3, CountedGone
<1>5. oft' = [oft EXCEPT ![i].refcnt = m]
  BY <1>1, <1>2, <1>4 DEF kclose
<1>6. oft \in [Kfd -> OftRecord]
  BY DEF FilesInv, FilesTypeOK
<1>7. oft' \in [Kfd -> OftRecord] /\ CountSet(oft, oft', i, m)
  BY <1>5, <1>6, SetsCount
<1>8. fds' \in [Proc -> [Handle -> Descriptor]] /\ SetTo(fds, fds', p, j, -1)
  <2>1. -1 \in Descriptor
    BY DEF Descriptor
  <2>2. fds \in [Proc -> [Handle -> Descriptor]]
    BY DEF FilesInv, FilesTypeOK
  <2>3. fds' = With(fds, p, j, -1)
    BY Zenon DEF With
  <2> QED
    BY <2>1, <2>2, <2>3, SetsOne
<1>9. meant' \in [Proc -> [Handle -> Purpose]] /\ SetTo(meant, meant', p, j, "")
  <2>1. "" \in Purpose
    BY DEF Purpose
  <2>2. meant \in [Proc -> [Handle -> Purpose]]
    BY DEF FilesInv, FilesTypeOK
  <2>3. meant' = With(meant, p, j, "")
    BY Zenon DEF With
  <2> QED
    BY <2>1, <2>2, <2>3, SetsOne
<1>10. NoNewUsers /\ NoNewOpeners
  <2>1. NoNewUsers
    BY <1>8, <1>9 DEF NoNewUsers, SetTo
  <2>2. NoNewOpeners
    BY DEF NoNewOpeners, Opening
  <2> QED
    BY <2>1, <2>2
<1>11. EntriesCounted'
  <2> SUFFICES ASSUME NEW k \in Kfd
               PROVE  Counted(oft'[k].refcnt, Users(k)', Openers(k)')
    BY DEF EntriesCounted
  <2>1. Users(k)' \subseteq Users(k) /\ Openers(k)' \subseteq Openers(k)
    BY <1>10, FewerUsers, FewerOpeners
  <2>2. oft[k].refcnt \in Nat /\ Counted(oft[k].refcnt, Users(k), Openers(k))
    BY DEF FilesInv, FilesTypeOK, OftRecord, EntriesCounted
  <2>3. CASE k = i
    <3>1. fds'[p][j] = -1
      BY <1>8 DEF SetTo
    <3>2. <<p, j>> \notin Users(i)'
      <4>1. i # -1
        BY Numbers
      <4> QED
        BY <3>1, <4>1 DEF Users
    <3>3. Users(i)' \subseteq Users(i) \ {<<p, j>>}
      BY <2>1, <2>3, <3>2
    <3>4. oft'[i].refcnt = m
      BY <1>7 DEF CountSet
    <3>5. Counted(m, Users(i)', Openers(i)')
      BY <1>4, <2>1, <2>3, <3>3, CountedLess
    <3> QED
      BY <2>3, <3>4, <3>5
  <2>4. CASE k # i
    <3>1. oft'[k].refcnt = oft[k].refcnt
      BY <1>7, <2>4 DEF CountSet
    <3>2. Counted(oft[k].refcnt, Users(k)', Openers(k)')
      BY <2>1, <2>2, CountedLess
    <3> QED
      BY <3>1, <3>2
  <2> QED
    BY <2>3, <2>4
<1>12. OneOpener' /\ FileMeant'
  BY <1>7, <1>10, OneOpenerStays, FileMeantStays DEF CountSet
<1>13. FilesTypeOK' /\ JobsRight'
  <2>1. state' = state /\ job' = job
    OBVIOUS
  <2> QED
    BY <2>1, <1>7, <1>8, <1>9 DEF FilesInv, FilesTypeOK, JobsRight, Opening
<1> QED
  BY <1>11, <1>12, <1>13 DEF FilesInv

\* A descriptor of c becomes a copy of one of p.
Duplicated(p, j, c, k) ==
    /\ oft' = kdup(fds[p][j])
    /\ fds' = [fds EXCEPT ![c][k] = fds[p][j]]
    /\ meant' = [meant EXCEPT ![c][k] = meant[p][j]]
    /\ state' = state

TablesOK ==
    /\ oft \in [Kfd -> OftRecord]
    /\ fds \in [Proc -> [Handle -> Descriptor]]
    /\ meant \in [Proc -> [Handle -> Purpose]]

LEMMA CopyStep ==
    ASSUME FilesInv, NEW p \in Proc, NEW j \in Handle, NEW c \in Proc, NEW k \in Handle,
           state[p] # "unused", fds[p][j] # -1, Duplicated(p, j, c, k), NoNewOpeners
    PROVE  TablesOK' /\ EntriesCounted' /\ OneOpener' /\ FileMeant'
<1>1. PICK i \in Kfd : i = fds[p][j]
  BY FilesTyped DEF Descriptor
<1>2. PICK n \in Nat : n = oft[i].refcnt + 1
  BY FilesTyped
<1>3. \A q \in Proc : Opening(q) => job[q].kfd # i
  <2>1. <<p, j>> \in Users(i)
    BY <1>1, UsersAre
  <2> QED
    BY <2>1 DEF FilesInv, OneOpener
<1>4. oft' = [oft EXCEPT ![i].refcnt = n]
  BY <1>1, <1>2 DEF Duplicated, kdup
<1>5. fds' = [fds EXCEPT ![c][k] = i] /\ meant' = [meant EXCEPT ![c][k] = meant[p][j]]
  BY <1>1 DEF Duplicated
<1>6. oft[i].file = meant[p][j]
  BY <1>1 DEF FilesInv, FileMeant
<1>7. state' = state
  BY DEF Duplicated
<1>8. oft' \in [Kfd -> OftRecord] /\ CountSet(oft, oft', i, n)
  <2>1. oft \in [Kfd -> OftRecord]
    BY DEF FilesInv, FilesTypeOK
  <2> QED
    BY <2>1, <1>4, SetsCount
<1>9. fds' \in [Proc -> [Handle -> Descriptor]] /\ SetTo(fds, fds', c, k, i)
  <2>1. i \in Descriptor
    BY DEF Descriptor
  <2>2. fds \in [Proc -> [Handle -> Descriptor]]
    BY DEF FilesInv, FilesTypeOK
  <2>3. fds' = With(fds, c, k, i)
    BY <1>5, Zenon DEF With
  <2> QED
    BY <2>1, <2>2, <2>3, SetsOne
<1>10. /\ meant' \in [Proc -> [Handle -> Purpose]]
       /\ SetTo(meant, meant', c, k, meant[p][j])
  <2>1. PICK x \in Purpose : x = meant[p][j]
    BY FilesTyped
  <2>2. meant \in [Proc -> [Handle -> Purpose]]
    BY DEF FilesInv, FilesTypeOK
  <2>3. meant' = With(meant, c, k, x)
    BY <1>5, <2>1, Zenon DEF With
  <2>4. meant' \in [Proc -> [Handle -> Purpose]] /\ SetTo(meant, meant', c, k, x)
    BY <2>1, <2>2, <2>3, SetsMeant
  <2> QED
    BY <2>1, <2>4, Zenon
<1>11. ASSUME NEW l \in Kfd
       PROVE  IF l = i THEN Users(l)' \subseteq Users(l) \cup {<<c, k>>}
                       ELSE Users(l)' \subseteq Users(l)
  <2>1. ASSUME NEW u \in Users(l)', l # i \/ u # <<c, k>>
        PROVE  u \in Users(l)
    <3>1. /\ u \in Proc \X Handle /\ u[1] \in Proc /\ u[2] \in Handle
          /\ state'[u[1]] # "unused" /\ fds'[u[1]][u[2]] = l
      BY <2>1 DEF Users
    <3>2. u = <<u[1], u[2]>>
      BY <3>1
    <3>3. fds[u[1]][u[2]] = l
      BY <3>1, <3>2, <2>1, <1>9 DEF SetTo
    <3> QED
      BY <3>1, <3>3, <1>7 DEF Users
  <2> QED
    BY <2>1
<1>12. EntriesCounted'
  <2> SUFFICES ASSUME NEW l \in Kfd
               PROVE  Counted(oft'[l].refcnt, Users(l)', Openers(l)')
    BY DEF EntriesCounted
  <2>1. Openers(l)' \subseteq Openers(l)
    BY FewerOpeners
  <2>2. oft[l].refcnt \in Nat /\ Counted(oft[l].refcnt, Users(l), Openers(l))
    BY DEF FilesInv, FilesTypeOK, OftRecord, EntriesCounted
  <2>3. CASE l = i
    <3>1. oft'[l].refcnt = n
      BY <2>3, <1>8 DEF CountSet
    <3>2. Counted(n, Users(l) \cup {<<c, k>>}, Openers(l))
      <4>1. Counted(oft[l].refcnt + 1, Users(l) \cup {<<c, k>>}, Openers(l))
        BY <2>2, CountedMore
      <4> QED
        BY <4>1, <2>3, <1>2
    <3>3. Users(l)' \subseteq Users(l) \cup {<<c, k>>}
      BY <2>3, <1>11
    <3>4. Counted(n, Users(l)', Openers(l)')
      BY <2>1, <3>1, <3>2, <3>3, CountedLess
    <3> QED
      BY <3>1, <3>4
  <2>4. CASE l # i
    <3>1. oft'[l].refcnt = oft[l].refcnt
      BY <1>8, <2>4 DEF CountSet
    <3>2. Users(l)' \subseteq Users(l)
      BY <2>4, <1>11
    <3>3. Counted(oft[l].refcnt, Users(l)', Openers(l)')
      BY <2>1, <2>2, <3>2, CountedLess
    <3> QED
      BY <3>1, <3>3
  <2> QED
    BY <2>3, <2>4
<1>13. OneOpener'
  <2> SUFFICES ASSUME NEW q \in Proc, Opening(q)'
               PROVE  /\ Users(job[q].kfd)' = {}
                      /\ \A r \in Proc : (Opening(r) /\ job[r].kfd = job[q].kfd)' => r = q
    BY DEF OneOpener
  <2>1. Opening(q) /\ job'[q].kfd = job[q].kfd
    BY DEF NoNewOpeners
  <2>2. PICK l \in Kfd : l = job[q].kfd
    BY <2>1 DEF FilesInv, JobsRight
  <2>3. Users(l) = {} /\ l # i
    BY <2>1, <2>2, <1>3 DEF FilesInv, OneOpener
  <2>4. Users(l)' = {}
    BY <2>3, <1>11
  <2>5. Users(job[q].kfd)' = {}
    BY <2>1, <2>2, <2>4 DEF Users
  <2>6. \A r \in Proc : Opening(r) /\ job[r].kfd = l => r = q
    BY <2>1, <2>2 DEF FilesInv, OneOpener
  <2>7. \A r \in Proc : Opening(r)' /\ job'[r].kfd = l => r = q
    BY <2>6 DEF NoNewOpeners
  <2> QED
    BY <2>1, <2>2, <2>5, <2>7
<1>14. FileMeant'
  <2> SUFFICES ASSUME NEW q \in Proc, NEW m \in Handle,
                      state'[q] # "unused", fds'[q][m] # -1
               PROVE  oft'[fds'[q][m]].file = meant'[q][m]
    BY DEF FileMeant
  <2>1. CASE q = c /\ m = k
    <3>1. fds'[q][m] = i /\ meant'[q][m] = meant[p][j]
      BY <2>1, <1>9, <1>10 DEF SetTo
    <3>2. oft'[i].file = oft[i].file
      BY <1>1, <1>8 DEF CountSet
    <3> QED
      BY <3>1, <3>2, <1>6
  <2>2. CASE ~ (q = c /\ m = k)
    <3>1. fds'[q][m] = fds[q][m] /\ meant'[q][m] = meant[q][m]
      BY <2>2, <1>9, <1>10 DEF SetTo
    <3>2. fds[q][m] \in Kfd /\ state[q] # "unused"
      BY <3>1, <1>7, FilesTyped DEF Descriptor
    <3>3. oft[fds[q][m]].file = meant[q][m]
      BY <3>1, <3>2, Numbers DEF FilesInv, FileMeant
    <3>4. oft'[fds[q][m]].file = oft[fds[q][m]].file
      BY <3>2, <1>8 DEF CountSet
    <3> QED
      BY <3>1, <3>3, <3>4
  <2> QED
    BY <2>1, <2>2
<1> QED
  BY <1>8, <1>9, <1>10, <1>12, <1>13, <1>14 DEF TablesOK

-----------------------------------------------------------------------------
(* The actions.                                                            *)

\* The call of one process is set.
JobSet(p, r) ==
    /\ job' \in [Proc -> JobRecord] /\ job'[p] = r
    /\ \A q \in Proc : q # p => job'[q] = job[q]

LEMMA SetsJob ==
    ASSUME FilesInv, NEW p \in Proc, NEW r \in JobRecord, job' = [job EXCEPT ![p] = r]
    PROVE  JobSet(p, r)
<1>1. job \in [Proc -> JobRecord]
  BY DEF FilesInv, FilesTypeOK
<1> QED
  BY <1>1 DEF JobSet

LEMMA IdleIs ==
    Idle \in JobRecord /\ Idle.at = "out"
BY DEF Idle, JobRecord, Descriptor

\* A process that is in no call is in kopen for nobody.
LEMMA NotOpening ==
    ASSUME FilesInv, NEW p \in Proc, job[p].at \notin {"lookup", "device"}, NEW i
    PROVE  p \notin Openers(i) /\ ~ Opening(p)
BY DEF Openers, Opening

LEMMA OpenStep ==
    ASSUME FilesInv, NEW p \in Proc, open(p)
    PROVE  FilesInv'
<1> DEFINE unused == {i \in Kfd : oft[i].refcnt = 0}
<1>1. /\ state[p] = "runs" /\ job[p].at = "out" /\ FreeFds(p) # {} /\ unused # {}
      /\ oft' = Reserved(Least(unused))
      /\ job' = [job EXCEPT ![p] = [Idle EXCEPT !.at = "lookup",
                    !.fd = Least(FreeFds(p)), !.kfd = Least(unused)]]
      /\ fds' = fds /\ meant' = meant /\ state' = state
  BY DEF open, InProgram
<1>2. PICK i \in Kfd : i = Least(unused) /\ oft[i].refcnt = 0
  <2>1. unused \subseteq Nat
    BY Numbers
  <2>2. Least(unused) \in unused
    BY <1>1, <2>1, LeastIsIn
  <2> QED
    BY <2>2
<1>3. PICK j \in Handle : j = Least(FreeFds(p))
  <2>1. FreeFds(p) \subseteq Nat
    BY Numbers DEF FreeFds
  <2>2. Least(FreeFds(p)) \in FreeFds(p)
    BY <1>1, <2>1, LeastIsIn
  <2> QED
    BY <2>2 DEF FreeFds
<1> HIDE DEF unused
<1>4. PICK r \in JobRecord : r.at = "lookup" /\ r.kfd = i /\ r.fd = j
                             /\ job' = [job EXCEPT ![p] = r]
  <2> DEFINE r == [Idle EXCEPT !.at = "lookup", !.fd = j, !.kfd = i]
  <2>1. Idle \in JobRecord
    BY IdleIs
  <2>2. r \in JobRecord /\ r.at = "lookup" /\ r.kfd = i /\ r.fd = j
    BY <2>1 DEF JobRecord, Descriptor
  <2>3. job' = [job EXCEPT ![p] = r]
    BY <1>1, <1>2, <1>3
  <2> HIDE DEF r
  <2> QED
    BY <2>2, <2>3
<1>5. JobSet(p, r)
  BY <1>4, SetsJob
<1>6. oft' \in [Kfd -> OftRecord] /\ CountSet(oft, oft', i, 1)
  <2>1. oft' = [oft EXCEPT ![i].refcnt = 1]
    BY <1>1, <1>2 DEF Reserved
  <2>2. oft \in [Kfd -> OftRecord]
    BY DEF FilesInv, FilesTypeOK
  <2> QED
    BY <2>1, <2>2, SetsCount
<1>7. Users(i) = {} /\ Openers(i) = {}
  <2>1. Counted(0, Users(i), Openers(i))
    BY <1>2 DEF FilesInv, EntriesCounted
  <2> QED
    BY <2>1, CountedNone
<1>8. \A k : Users(k)' = Users(k)
  BY <1>1 DEF Users
<1>9. ~ Opening(p) /\ \A k : p \notin Openers(k)
  BY <1>1, NotOpening
<1>10. \A k \in Kfd : k # i => Openers(k)' \subseteq Openers(k)
  BY <1>4, <1>5 DEF Openers, JobSet
<1>11. Openers(i)' \subseteq Openers(i) \cup {p}
  BY <1>5 DEF Openers, JobSet
<1>12. EntriesCounted'
  <2> SUFFICES ASSUME NEW k \in Kfd
               PROVE  Counted(oft'[k].refcnt, Users(k)', Openers(k)')
    BY DEF EntriesCounted
  <2>1. CASE k = i
    <3>1. Counted(0, {}, {})
      BY CountedEmpty
    <3>2. Counted(0 + 1, {} \cup {p}, {})
      BY <3>1, CountedMore
    <3>3. Counted(1, {p}, {})
      BY <3>2
    <3>4. Counted(1, {}, {p})
      BY <3>3, CountedSwap
    <3>5. Counted(1, Users(k)', Openers(k)')
      BY <3>4, <2>1, <1>7, <1>8, <1>11, CountedLess
    <3> QED
      BY <3>5, <2>1, <1>6 DEF CountSet
  <2>2. CASE k # i
    <3>1. oft[k].refcnt \in Nat /\ Counted(oft[k].refcnt, Users(k), Openers(k))
      BY DEF FilesInv, FilesTypeOK, OftRecord, EntriesCounted
    <3>2. oft'[k].refcnt = oft[k].refcnt
      BY <2>2, <1>6 DEF CountSet
    <3>3. Counted(oft[k].refcnt, Users(k)', Openers(k)')
      BY <3>1, <2>2, <1>8, <1>10, CountedLess
    <3> QED
      BY <3>2, <3>3
  <2> QED
    BY <2>1, <2>2
<1>13. OneOpener'
  <2> SUFFICES ASSUME NEW q \in Proc, Opening(q)'
               PROVE  /\ Users(job[q].kfd)' = {}
                      /\ \A s \in Proc : (Opening(s) /\ job[s].kfd = job[q].kfd)' => s = q
    BY DEF OneOpener
  <2>1. \A s \in Proc : s # p /\ Opening(s)' => Opening(s) /\ job'[s].kfd = job[s].kfd
    BY <1>5 DEF JobSet, Opening
  <2>2. \A s \in Proc : s # p /\ Opening(s)' => job'[s].kfd # i
    BY <2>1, <1>7, OpenersAre
  <2>3. job'[p].kfd = i
    BY <1>4, <1>5 DEF JobSet
  <2>4. CASE q = p
    <3>1. Users(job[q].kfd)' = {}
      BY <2>3, <2>4, <1>7, <1>8 DEF Users
    <3> QED
      BY <3>1, <2>2, <2>3, <2>4
  <2>5. CASE q # p
    <3>1. Opening(q) /\ job'[q].kfd = job[q].kfd
      BY <2>1, <2>5
    <3>2. Users(job[q].kfd) = {}
      BY <3>1 DEF FilesInv, OneOpener
    <3>3. Users(job[q].kfd)' = {}
      BY <3>1, <3>2, <1>1 DEF Users
    <3>4. ASSUME NEW s \in Proc, Opening(s)', job'[s].kfd = job'[q].kfd
          PROVE  s = q
      <4>1. s # p
        BY <3>4, <2>2, <2>3, <2>5
      <4>2. Opening(s) /\ job[s].kfd = job[q].kfd
        BY <4>1, <3>1, <3>4, <2>1
      <4> QED
        BY <4>2, <3>1 DEF FilesInv, OneOpener
    <3> QED
      BY <3>3, <3>4
  <2> QED
    BY <2>4, <2>5
<1>14. FileMeant'
  <2>1. NoNewUsers
    BY <1>1 DEF NoNewUsers
  <2> QED
    BY <2>1, <1>6, FileMeantStays DEF CountSet
<1>15. FilesTypeOK'
  BY <1>1, <1>5, <1>6 DEF FilesInv, FilesTypeOK, JobSet
<1>16. JobsRight'
  <2> SUFFICES ASSUME NEW q \in Proc
               PROVE  /\ job'[q].at # "out" => state'[q] = "runs"
                      /\ Opening(q)' => job'[q].kfd \in Kfd /\ job'[q].fd \in Handle
                      /\ job'[q].at = "started" => job'[q].child \in Proc
                      /\ job'[q].at = "dup" => job'[q].fd \in Handle /\ job'[q].child \in Proc
    BY DEF JobsRight
  <2>1. CASE q = p
    BY <2>1, <1>1, <1>4, <1>5 DEF JobSet
  <2>2. CASE q # p
    BY <2>2, <1>1, <1>5 DEF JobSet, FilesInv, JobsRight, Opening
  <2> QED
    BY <2>1, <2>2
<1> QED
  BY <1>12, <1>13, <1>14, <1>15, <1>16 DEF FilesInv

\* The rest of what FilesInv says of a process's call, when that of one is set.
JobRight(r, s) ==
    /\ r.at # "out" => s = "runs"
    /\ r.at \in {"lookup", "device"} => r.kfd \in Kfd /\ r.fd \in Handle
    /\ r.at = "started" => r.child \in Proc
    /\ r.at = "dup" => r.fd \in Handle /\ r.child \in Proc

LEMMA JobsStayRight ==
    ASSUME FilesInv, NEW p \in Proc, NEW r, JobSet(p, r), JobRight(r, state'[p]),
           \A q \in Proc : q # p /\ state[q] = "runs" => state'[q] = "runs"
    PROVE  JobsRight'
<1> SUFFICES ASSUME NEW q \in Proc
             PROVE  /\ job'[q].at # "out" => state'[q] = "runs"
                    /\ Opening(q)' => job'[q].kfd \in Kfd /\ job'[q].fd \in Handle
                    /\ job'[q].at = "started" => job'[q].child \in Proc
                    /\ job'[q].at = "dup" => job'[q].fd \in Handle /\ job'[q].child \in Proc
  BY DEF JobsRight
<1>1. CASE q = p
  BY <1>1 DEF JobSet, JobRight, Opening
<1>2. CASE q # p
  BY <1>2 DEF JobSet, FilesInv, JobsRight, Opening
<1> QED
  BY <1>1, <1>2

LEMMA JobRightIs ==
    ASSUME FilesInv, NEW p \in Proc
    PROVE  JobRight(job[p], state[p])
BY DEF FilesInv, JobsRight, JobRight, Opening

LEMMA IdleRight == \A s : JobRight(Idle, s)
BY IdleIs DEF JobRight

\* The call of p is set, and is none that opens a file other than before.
LEMMA NoOpener ==
    ASSUME FilesInv, NEW p \in Proc, NEW r, JobSet(p, r),
           r.at \in {"lookup", "device"} => Opening(p) /\ r.kfd = job[p].kfd
    PROVE  NoNewOpeners
BY DEF NoNewOpeners, JobSet, Opening

LEMMA FailsStep ==
    ASSUME FilesInv, NEW p \in Proc, Opening(p),
           oft' = [oft EXCEPT ![job[p].kfd].refcnt = @ - 1],
           job' = [job EXCEPT ![p] = Idle],
           fds' = fds, meant' = meant, state' = state
    PROVE  FilesInv'
<1>1. PICK i \in Kfd : i = job[p].kfd
  BY DEF FilesInv, JobsRight
<1>2. PICK n \in Nat : n = oft[i].refcnt
  BY FilesTyped
<1>3. JobSet(p, Idle)
  BY IdleIs, SetsJob
<1>4. NoNewUsers /\ NoNewOpeners
  <2>1. NoNewUsers
    BY DEF NoNewUsers
  <2>2. NoNewOpeners
    BY <1>3, IdleIs, NoOpener
  <2> QED
    BY <2>1, <2>2
<1>5. PICK m \in Nat : m = n - 1 /\ Counted(m, Users(i), Openers(i) \ {p})
  <2>1. p \in Openers(i)
    BY <1>1, OpenersAre
  <2>2. Counted(n, Users(i), Openers(i))
    BY <1>2 DEF FilesInv, EntriesCounted
  <2>3. Counted(n, Openers(i), Users(i))
    BY <2>2, CountedSwap
  <2>4. n - 1 \in Nat /\ Counted(n - 1, Openers(i) \ {p}, Users(i))
    BY <2>1, <2>3, CountedGone
  <2>5. Counted(n - 1, Users(i), Openers(i) \ {p})
    BY <2>4, CountedSwap
  <2> QED
    BY <2>4, <2>5
<1>6. oft' \in [Kfd -> OftRecord] /\ CountSet(oft, oft', i, m)
  <2>1. oft' = [oft EXCEPT ![i].refcnt = m]
    BY <1>1, <1>2, <1>5
  <2>2. oft \in [Kfd -> OftRecord]
    BY DEF FilesInv, FilesTypeOK
  <2> QED
    BY <2>1, <2>2, SetsCount
<1>7. EntriesCounted'
  <2> SUFFICES ASSUME NEW k \in Kfd
               PROVE  Counted(oft'[k].refcnt, Users(k)', Openers(k)')
    BY DEF EntriesCounted
  <2>1. Users(k)' \subseteq Users(k) /\ Openers(k)' \subseteq Openers(k)
    BY <1>4, FewerUsers, FewerOpeners
  <2>2. p \notin Openers(k)'
    BY <1>3, IdleIs DEF Openers, JobSet
  <2>3. CASE k = i
    <3>1. Openers(k)' \subseteq Openers(i) \ {p} /\ Users(k)' \subseteq Users(i)
      BY <2>1, <2>2, <2>3
    <3>2. Counted(m, Users(k)', Openers(k)')
      BY <3>1, <1>5, CountedLess
    <3> QED
      BY <3>2, <2>3, <1>6 DEF CountSet
  <2>4. CASE k # i
    <3>1. oft[k].refcnt \in Nat /\ Counted(oft[k].refcnt, Users(k), Openers(k))
      BY DEF FilesInv, FilesTypeOK, OftRecord, EntriesCounted
    <3>2. oft'[k].refcnt = oft[k].refcnt
      BY <2>4, <1>6 DEF CountSet
    <3>3. Counted(oft[k].refcnt, Users(k)', Openers(k)')
      BY <2>1, <3>1, CountedLess
    <3> QED
      BY <3>2, <3>3
  <2> QED
    BY <2>3, <2>4
<1>8. OneOpener' /\ FileMeant'
  BY <1>4, <1>6, OneOpenerStays, FileMeantStays DEF CountSet
<1>9. JobsRight'
  <2>1. JobRight(Idle, state'[p])
    BY IdleRight
  <2> QED
    BY <2>1, <1>3, JobsStayRight
<1>10. FilesTypeOK'
  BY <1>3, <1>6 DEF FilesInv, FilesTypeOK, JobSet
<1> QED
  BY <1>7, <1>8, <1>9, <1>10 DEF FilesInv

LEMMA FindsStep ==
    ASSUME FilesInv, NEW p \in Proc, NEW f \in File, kopen_finds(p, f)
    PROVE  FilesInv'
<1>1. /\ job[p].at = "lookup" /\ oft' = [oft EXCEPT ![job[p].kfd].file = f]
      /\ job' = [job EXCEPT ![p].at = "device"]
      /\ fds' = fds /\ meant' = meant /\ state' = state
  BY DEF kopen_finds
<1>2. PICK i \in Kfd : i = job[p].kfd
  BY <1>1 DEF FilesInv, JobsRight, Opening
<1>3. Users(i) = {}
  BY <1>1, <1>2 DEF FilesInv, OneOpener, Opening
<1>4. /\ oft' \in [Kfd -> OftRecord]
      /\ \A k \in Kfd : oft'[k].refcnt = oft[k].refcnt
                        /\ (k # i => oft'[k].file = oft[k].file)
  <2> DEFINE r == [oft[i] EXCEPT !.file = f]
  <2>1. oft \in [Kfd -> OftRecord] /\ oft[i] \in OftRecord
    BY DEF FilesInv, FilesTypeOK
  <2>2. r \in OftRecord /\ r.refcnt = oft[i].refcnt
    BY <2>1 DEF OftRecord, Purpose
  <2>3. oft' = [oft EXCEPT ![i] = r]
    BY <1>1, <1>2
  <2> HIDE DEF r
  <2> QED
    BY <2>1, <2>2, <2>3
<1>5. PICK r \in JobRecord : /\ r.at = "device" /\ r.kfd = i /\ r.fd = job[p].fd
                             /\ job' = [job EXCEPT ![p] = r]
  <2> DEFINE r == [job[p] EXCEPT !.at = "device"]
  <2>1. job[p] \in JobRecord
    BY FilesTyped
  <2>2. r \in JobRecord /\ r.at = "device" /\ r.kfd = i /\ r.fd = job[p].fd
    BY <2>1, <1>2 DEF JobRecord
  <2>3. job' = [job EXCEPT ![p] = r]
    BY <1>1
  <2> HIDE DEF r
  <2> QED
    BY <2>2, <2>3
<1>6. JobSet(p, r)
  BY <1>5, SetsJob
<1>7. NoNewUsers /\ NoNewOpeners
  <2>1. NoNewUsers
    BY <1>1 DEF NoNewUsers
  <2>2. NoNewOpeners
    BY <1>1, <1>2, <1>5, <1>6, NoOpener DEF Opening
  <2> QED
    BY <2>1, <2>2
<1>8. EntriesCounted'
  <2> SUFFICES ASSUME NEW k \in Kfd
               PROVE  Counted(oft'[k].refcnt, Users(k)', Openers(k)')
    BY DEF EntriesCounted
  <2>1. Users(k)' \subseteq Users(k) /\ Openers(k)' \subseteq Openers(k)
    BY <1>7, FewerUsers, FewerOpeners
  <2>2. oft[k].refcnt \in Nat /\ Counted(oft[k].refcnt, Users(k), Openers(k))
    BY DEF FilesInv, FilesTypeOK, OftRecord, EntriesCounted
  <2>3. Counted(oft[k].refcnt, Users(k)', Openers(k)')
    BY <2>1, <2>2, CountedLess
  <2> QED
    BY <2>3, <1>4
<1>9. OneOpener'
  BY <1>7, OneOpenerStays
<1>10. FileMeant'
  <2> SUFFICES ASSUME NEW q \in Proc, NEW j \in Handle,
                      state[q] # "unused", fds[q][j] # -1
               PROVE  oft'[fds[q][j]].file = meant[q][j]
    BY <1>1 DEF FileMeant
  <2>1. fds[q][j] \in Kfd
    BY FilesTyped DEF Descriptor
  <2>2. fds[q][j] # i
    BY <1>3, UsersAre
  <2>3. oft[fds[q][j]].file = meant[q][j]
    BY DEF FilesInv, FileMeant
  <2> QED
    BY <2>1, <2>2, <2>3, <1>4
<1>11. JobsRight'
  <2>1. JobRight(r, state'[p])
    BY <1>1, <1>2, <1>5 DEF JobRight, FilesInv, JobsRight, Opening
  <2> QED
    BY <2>1, <1>1, <1>6, JobsStayRight
<1>12. FilesTypeOK'
  BY <1>1, <1>4, <1>6 DEF FilesInv, FilesTypeOK, JobSet
<1> QED
  BY <1>8, <1>9, <1>10, <1>11, <1>12 DEF FilesInv

\* The open succeeds: the descriptor takes over the count of the opener.
LEMMA TakesOver ==
    ASSUME FilesInv, NEW p \in Proc, job[p].at = "device", oft' = oft,
           fds' = [fds EXCEPT ![p][job[p].fd] = job[p].kfd],
           meant' = [meant EXCEPT ![p][job[p].fd] = oft[job[p].kfd].file],
           job' = [job EXCEPT ![p] = Idle], state' = state
    PROVE  FilesInv'
<1>1. PICK i \in Kfd, j \in Handle : i = job[p].kfd /\ j = job[p].fd
  BY DEF FilesInv, JobsRight, Opening
<1>2. Opening(p)
  BY DEF Opening
<1>3. JobSet(p, Idle) /\ ~ Opening(p)'
  <2>1. JobSet(p, Idle)
    BY IdleIs, SetsJob
  <2> QED
    BY <2>1, IdleIs DEF JobSet, Opening
<1>4. NoNewOpeners
  BY <1>3, IdleIs, NoOpener
<1>5. fds' \in [Proc -> [Handle -> Descriptor]] /\ SetTo(fds, fds', p, j, i)
  <2>1. i \in Descriptor
    BY DEF Descriptor
  <2>2. fds \in [Proc -> [Handle -> Descriptor]]
    BY DEF FilesInv, FilesTypeOK
  <2>3. fds' = With(fds, p, j, i)
    BY <1>1, Zenon DEF With
  <2> QED
    BY <2>1, <2>2, <2>3, SetsOne
<1>6. PICK f \in Purpose : f = oft[i].file
  BY FilesTyped
<1>7. meant' \in [Proc -> [Handle -> Purpose]] /\ SetTo(meant, meant', p, j, f)
  <2>1. meant \in [Proc -> [Handle -> Purpose]]
    BY DEF FilesInv, FilesTypeOK
  <2>2. meant' = With(meant, p, j, f)
    BY <1>1, <1>6, Zenon DEF With
  <2> QED
    BY <2>1, <2>2, SetsMeant
<1>8. /\ Users(i) = {}
      /\ \A q \in Proc : Opening(q) /\ job[q].kfd = i => q = p
  BY <1>1, <1>2 DEF FilesInv, OneOpener
<1>9. ASSUME NEW l \in Kfd
      PROVE  IF l = i THEN Users(l)' \subseteq {<<p, j>>}
                      ELSE Users(l)' \subseteq Users(l)
  <2>1. ASSUME NEW u \in Users(l)', l # i \/ u # <<p, j>>
        PROVE  u \in Users(l)
    <3>1. /\ u \in Proc \X Handle /\ u[1] \in Proc /\ u[2] \in Handle
          /\ state'[u[1]] # "unused" /\ fds'[u[1]][u[2]] = l
      BY <2>1 DEF Users
    <3>2. u = <<u[1], u[2]>>
      BY <3>1
    <3>3. fds[u[1]][u[2]] = l
      BY <3>1, <3>2, <2>1, <1>5 DEF SetTo
    <3> QED
      BY <3>1, <3>3 DEF Users
  <2> QED
    BY <2>1, <1>8
<1>10. EntriesCounted'
  <2> SUFFICES ASSUME NEW l \in Kfd
               PROVE  Counted(oft[l].refcnt, Users(l)', Openers(l)')
    BY DEF EntriesCounted
  <2>1. Openers(l)' \subseteq Openers(l) /\ p \notin Openers(l)'
    BY <1>3, <1>4, FewerOpeners, IdleIs DEF Openers, JobSet
  <2>2. PICK n \in Nat : n = oft[l].refcnt
    BY FilesTyped
  <2>3. Counted(n, Users(l), Openers(l))
    BY <2>2 DEF FilesInv, EntriesCounted
  <2>4. CASE l = i
    <3>1. Counted(n, Openers(l), Users(l))
      BY <2>3, CountedSwap
    <3>2. p \in Openers(l)
      BY <2>4, <1>1, <1>2, OpenersAre
    <3>3. PICK m \in Nat : m = n - 1 /\ Counted(m, Openers(l) \ {p}, Users(l))
      BY <3>1, <3>2, CountedGone
    <3>4. Counted(m, Users(l), Openers(l) \ {p})
      BY <3>3, CountedSwap
    <3>5. Counted(m + 1, Users(l) \cup {<<p, j>>}, Openers(l) \ {p})
      BY <3>4, CountedMore
    <3>6. m + 1 = n
      BY <3>3
    <3>7. Counted(n, Users(l) \cup {<<p, j>>}, Openers(l) \ {p})
      BY <3>5, <3>6
    <3>8. /\ Users(l)' \subseteq Users(l) \cup {<<p, j>>}
          /\ Openers(l)' \subseteq Openers(l) \ {p}
      BY <2>1, <2>4, <1>9
    <3>9. Counted(n, Users(l)', Openers(l)')
      BY <3>7, <3>8, CountedLess
    <3> QED
      BY <3>9, <2>2
  <2>5. CASE l # i
    <3>1. Users(l)' \subseteq Users(l)
      BY <2>5, <1>9
    <3>2. Counted(n, Users(l)', Openers(l)')
      BY <3>1, <2>1, <2>3, CountedLess
    <3> QED
      BY <3>2, <2>2
  <2> QED
    BY <2>4, <2>5
<1>11. OneOpener'
  <2> SUFFICES ASSUME NEW q \in Proc, Opening(q)'
               PROVE  /\ Users(job[q].kfd)' = {}
                      /\ \A r \in Proc : (Opening(r) /\ job[r].kfd = job[q].kfd)' => r = q
    BY DEF OneOpener
  <2>1. Opening(q) /\ job'[q].kfd = job[q].kfd /\ q # p
    BY <1>3, <1>4 DEF NoNewOpeners
  <2>2. PICK l \in Kfd : l = job[q].kfd
    BY <2>1 DEF FilesInv, JobsRight
  <2>3. Users(l) = {} /\ l # i
    BY <2>1, <2>2, <1>8 DEF FilesInv, OneOpener
  <2>4. Users(l)' = {}
    BY <2>3, <1>9
  <2>5. Users(job[q].kfd)' = {}
    BY <2>1, <2>2, <2>4 DEF Users
  <2>6. \A r \in Proc : Opening(r) /\ job[r].kfd = l => r = q
    BY <2>1, <2>2 DEF FilesInv, OneOpener
  <2>7. \A r \in Proc : Opening(r)' /\ job'[r].kfd = l => r = q
    BY <2>6, <1>4 DEF NoNewOpeners
  <2> QED
    BY <2>1, <2>2, <2>5, <2>7
<1>12. FileMeant'
  <2> SUFFICES ASSUME NEW q \in Proc, NEW m \in Handle,
                      state[q] # "unused", fds'[q][m] # -1
               PROVE  oft[fds'[q][m]].file = meant'[q][m]
    BY DEF FileMeant
  <2>1. CASE q = p /\ m = j
    BY <2>1, <1>5, <1>6, <1>7 DEF SetTo
  <2>2. CASE ~ (q = p /\ m = j)
    <3>1. fds'[q][m] = fds[q][m] /\ meant'[q][m] = meant[q][m]
      BY <2>2, <1>5, <1>7 DEF SetTo
    <3> QED
      BY <3>1 DEF FilesInv, FileMeant
  <2> QED
    BY <2>1, <2>2
<1>13. JobsRight'
  <2>1. JobRight(Idle, state'[p])
    BY IdleRight
  <2> QED
    BY <2>1, <1>3, JobsStayRight
<1>14. FilesTypeOK'
  BY <1>3, <1>5, <1>7 DEF FilesInv, FilesTypeOK, JobSet
<1> QED
  BY <1>10, <1>11, <1>12, <1>13, <1>14 DEF FilesInv

LEMMA OpensStep ==
    ASSUME FilesInv, NEW p \in Proc, kopen_opens(p)
    PROVE  FilesInv'
<1> DEFINE i == job[p].kfd
           f == oft[i].file
<1>1. /\ job[p].at = "device" /\ job' = [job EXCEPT ![p] = Idle] /\ state' = state
      /\ IF f \in opened
         THEN oft' = [oft EXCEPT ![i].refcnt = @ - 1] /\ fds' = fds /\ meant' = meant
         ELSE /\ fds' = [fds EXCEPT ![p][job[p].fd] = i] /\ oft' = oft
              /\ meant' = [meant EXCEPT ![p][job[p].fd] = f]
  BY DEF kopen_opens
<1>2. CASE f \in opened
  <2>1. Opening(p)
    BY <1>1 DEF Opening
  <2> QED
    BY <2>1, <1>1, <1>2, FailsStep
<1>3. CASE f \notin opened
  BY <1>1, <1>3, TakesOver
<1> QED
  BY <1>2, <1>3

LEMMA DupStep ==
    ASSUME FilesInv, NEW p \in Proc, NEW j \in Handle, dup(p, j)
    PROVE  FilesInv'
<1>1. /\ state[p] = "runs" /\ fds[p][j] # -1 /\ FreeFds(p) # {}
      /\ oft' = kdup(fds[p][j])
      /\ fds' = [fds EXCEPT ![p][Least(FreeFds(p))] = fds[p][j]]
      /\ meant' = [meant EXCEPT ![p][Least(FreeFds(p))] = meant[p][j]]
      /\ state' = state /\ job' = job
  BY DEF dup, InProgram
<1>2. PICK k \in Handle : k = Least(FreeFds(p))
  <2>1. FreeFds(p) \subseteq Nat
    BY Numbers DEF FreeFds
  <2>2. Least(FreeFds(p)) \in FreeFds(p)
    BY <1>1, <2>1, LeastIsIn
  <2> QED
    BY <2>2 DEF FreeFds
<1>3. Duplicated(p, j, p, k)
  BY <1>1, <1>2 DEF Duplicated
<1>4. NoNewOpeners
  BY <1>1 DEF NoNewOpeners, Opening
<1>5. TablesOK' /\ EntriesCounted' /\ OneOpener' /\ FileMeant'
  BY <1>1, <1>3, <1>4, CopyStep
<1>6. FilesTypeOK' /\ JobsRight'
  BY <1>1, <1>5 DEF FilesInv, FilesTypeOK, TablesOK, JobsRight, Opening
<1> QED
  BY <1>5, <1>6 DEF FilesInv

\* The steps of exec, exit and wait that leave the table alone.
LEMMA CalmKeeps ==
    ASSUME FilesInv, FilesTypeOK', JobsRight', oft' = oft, NoNewUsers, NoNewOpeners
    PROVE  FilesInv'
BY CalmStep DEF FilesInv

LEMMA StartsStep ==
    ASSUME FilesInv, NEW p \in Proc, NEW c \in Proc, make_process_starts(p, c)
    PROVE  FilesInv'
<1>1. /\ state[p] = "runs" /\ job[p].at = "out" /\ state[c] = "unused"
      /\ state' = [state EXCEPT ![c] = "runs"] /\ oft' = oft
      /\ fds' = [fds EXCEPT ![c] = NoFds] /\ meant' = [meant EXCEPT ![c] = NoFile]
      /\ job' = [job EXCEPT ![p] = [Idle EXCEPT !.at = "started", !.child = c]]
  BY DEF make_process_starts, InProgram
<1>2. PICK r \in JobRecord : /\ r.at = "started" /\ r.child = c
                             /\ job' = [job EXCEPT ![p] = r]
  <2> DEFINE r == [Idle EXCEPT !.at = "started", !.child = c]
  <2>1. Idle \in JobRecord
    BY IdleIs
  <2>2. r \in JobRecord /\ r.at = "started" /\ r.child = c
    BY <2>1 DEF JobRecord
  <2>3. job' = [job EXCEPT ![p] = r]
    BY <1>1
  <2> HIDE DEF r
  <2> QED
    BY <2>2, <2>3
<1>3. JobSet(p, r)
  BY <1>2, SetsJob
<1>4. /\ state \in [Proc -> {"unused", "runs", "zombie", "freed"}]
      /\ fds \in [Proc -> [Handle -> Descriptor]]
      /\ meant \in [Proc -> [Handle -> Purpose]] /\ oft \in [Kfd -> OftRecord]
  BY DEF FilesInv, FilesTypeOK
<1>5. NoFds \in [Handle -> Descriptor] /\ NoFile \in [Handle -> Purpose]
  BY DEF NoFds, NoFile, Descriptor, Purpose
<1>6. NoNewUsers
  <2> SUFFICES ASSUME NEW q \in Proc, NEW k \in Handle,
                      state'[q] # "unused", fds'[q][k] # -1
               PROVE  /\ state[q] # "unused" /\ fds'[q][k] = fds[q][k]
                      /\ meant'[q][k] = meant[q][k]
    BY DEF NoNewUsers
  <2>1. NoFds[k] = -1
    BY DEF NoFds
  <2>2. q # c
    BY <2>1, <1>1, <1>4
  <2> QED
    BY <2>2, <1>1, <1>4
<1>7. NoNewOpeners
  BY <1>2, <1>3, NoOpener
<1>8. JobsRight'
  <2>1. state'[p] = "runs" /\ \A q \in Proc : state[q] = "runs" => state'[q] = "runs"
    BY <1>1, <1>4
  <2>2. JobRight(r, state'[p])
    BY <2>1, <1>2 DEF JobRight
  <2> QED
    BY <2>1, <2>2, <1>3, JobsStayRight
<1>9. FilesTypeOK'
  BY <1>1, <1>3, <1>4, <1>5 DEF FilesTypeOK, JobSet
<1> QED
  BY <1>1, <1>6, <1>7, <1>8, <1>9, CalmKeeps

LEMMA LinksStep ==
    ASSUME FilesInv, NEW p \in Proc, make_process_links(p)
    PROVE  FilesInv'
<1>1. /\ job[p].at = "started" /\ job' = [job EXCEPT ![p].at = "dup", ![p].fd = 0]
      /\ oft' = oft /\ fds' = fds /\ state' = state /\ meant' = meant
  BY DEF make_process_links
<1>2. PICK r \in JobRecord : /\ r.at = "dup" /\ r.fd = 0 /\ r.child = job[p].child
                             /\ job' = [job EXCEPT ![p] = r]
  <2> DEFINE r == [job[p] EXCEPT !.at = "dup", !.fd = 0]
  <2>1. job[p] \in JobRecord /\ job \in [Proc -> JobRecord]
    BY DEF FilesInv, FilesTypeOK
  <2>2. r \in JobRecord /\ r.at = "dup" /\ r.fd = 0 /\ r.child = job[p].child
    BY <2>1, Numbers DEF JobRecord
  <2>3. job' = [job EXCEPT ![p] = r]
    BY <1>1, <2>1
  <2> HIDE DEF r
  <2> QED
    BY <2>2, <2>3
<1>3. JobSet(p, r)
  BY <1>2, SetsJob
<1>4. NoNewUsers /\ NoNewOpeners
  <2>1. NoNewUsers
    BY <1>1 DEF NoNewUsers
  <2>2. NoNewOpeners
    BY <1>2, <1>3, NoOpener
  <2> QED
    BY <2>1, <2>2
<1>5. JobsRight'
  <2>1. JobRight(r, state'[p])
    BY <1>1, <1>2, Numbers DEF JobRight, FilesInv, JobsRight
  <2> QED
    BY <2>1, <1>1, <1>3, JobsStayRight
<1>6. FilesTypeOK'
  BY <1>1, <1>3 DEF FilesInv, FilesTypeOK, JobSet
<1> QED
  BY <1>1, <1>4, <1>5, <1>6, CalmKeeps

LEMMA DupHandlesStep ==
    ASSUME FilesInv, NEW p \in Proc, dup_handles(p)
    PROVE  FilesInv'
<1>1. PICK j \in Handle, c \in Proc : job[p].at = "dup" /\ j = job[p].fd /\ c = job[p].child
  BY DEF dup_handles, FilesInv, JobsRight
<1>2. /\ state[p] = "runs" /\ state' = state
      /\ job' = [job EXCEPT ![p] = IF j + 1 \in Handle
                                   THEN [@ EXCEPT !.fd = j + 1] ELSE Idle]
      /\ IF fds[p][j] = -1 THEN oft' = oft /\ fds' = fds /\ meant' = meant
         ELSE /\ oft' = kdup(fds[p][j]) /\ fds' = [fds EXCEPT ![c][j] = fds[p][j]]
              /\ meant' = [meant EXCEPT ![c][j] = meant[p][j]]
  BY <1>1 DEF dup_handles, FilesInv, JobsRight
<1>3. PICK r \in JobRecord : /\ r.at \in {"dup", "out"}
                             /\ r.at = "dup" => r.fd \in Handle /\ r.child = c
                             /\ job' = [job EXCEPT ![p] = r]
  <2>1. CASE j + 1 \in Handle
    <3> DEFINE r == [job[p] EXCEPT !.fd = j + 1]
    <3>1. job[p] \in JobRecord
      BY FilesTyped
    <3>2. r \in JobRecord /\ r.at = "dup" /\ r.fd = j + 1 /\ r.child = c
      BY <3>1, <2>1, <1>1 DEF JobRecord
    <3>3. job' = [job EXCEPT ![p] = r]
      BY <2>1, <1>2
    <3> HIDE DEF r
    <3> QED
      BY <3>2, <3>3, <2>1
  <2>2. CASE j + 1 \notin Handle
    <3>1. job' = [job EXCEPT ![p] = Idle]
      BY <2>2, <1>2
    <3> QED
      BY <3>1, IdleIs
  <2> QED
    BY <2>1, <2>2
<1>4. JobSet(p, r)
  BY <1>3, SetsJob
<1>5. NoNewOpeners
  BY <1>3, <1>4, NoOpener
<1>6. JobsRight'
  <2>1. JobRight(r, state'[p])
    BY <1>2, <1>3 DEF JobRight
  <2> QED
    BY <2>1, <1>2, <1>4, JobsStayRight
<1>7. CASE fds[p][j] = -1
  <2>1. oft' = oft /\ fds' = fds /\ meant' = meant
    BY <1>2, <1>7
  <2>2. NoNewUsers
    BY <2>1, <1>2 DEF NoNewUsers
  <2>3. FilesTypeOK'
    BY <2>1, <1>2, <1>4 DEF FilesInv, FilesTypeOK, JobSet
  <2> QED
    BY <2>1, <2>2, <2>3, <1>5, <1>6, CalmKeeps
<1>8. CASE fds[p][j] # -1
  <2>1. Duplicated(p, j, c, j)
    BY <1>2, <1>8 DEF Duplicated
  <2>2. TablesOK' /\ EntriesCounted' /\ OneOpener' /\ FileMeant'
    BY <2>1, <1>2, <1>5, <1>8, CopyStep
  <2>3. FilesTypeOK'
    BY <2>2, <1>2, <1>4 DEF FilesInv, FilesTypeOK, TablesOK, JobSet
  <2> QED
    BY <2>2, <2>3, <1>6 DEF FilesInv
<1> QED
  BY <1>7, <1>8

LEMMA ExitStep ==
    ASSUME FilesInv, NEW p \in Proc, exit_ends(p)
    PROVE  FilesInv'
<1>1. /\ state[p] = "runs" /\ job[p].at = "out"
      /\ oft' = oft /\ fds' = fds /\ job' = job /\ meant' = meant
  BY DEF exit_ends, InProgram
<1>2. PICK s \in {"zombie", "freed"} : state' = [state EXCEPT ![p] = s]
  BY DEF exit_ends
<1>3. /\ state' \in [Proc -> {"unused", "runs", "zombie", "freed"}]
      /\ state'[p] = s /\ \A q \in Proc : q # p => state'[q] = state[q]
  BY <1>2 DEF FilesInv, FilesTypeOK
<1>4. NoNewUsers /\ NoNewOpeners
  <2>1. NoNewUsers
    BY <1>1, <1>3 DEF NoNewUsers
  <2>2. NoNewOpeners
    BY <1>1 DEF NoNewOpeners, Opening
  <2> QED
    BY <2>1, <2>2
<1>5. JobsRight'
  BY <1>1, <1>3 DEF FilesInv, JobsRight, Opening
<1>6. FilesTypeOK'
  BY <1>1, <1>3 DEF FilesInv, FilesTypeOK
<1> QED
  BY <1>1, <1>4, <1>5, <1>6, CalmKeeps

LEMMA WaitStep ==
    ASSUME FilesInv, NEW p \in Proc, NEW c \in Proc, wait_begins(p, c)
    PROVE  FilesInv'
<1>1. /\ state[p] = "runs" /\ job[p].at = "out" /\ state[c] = "zombie"
      /\ state' = [state EXCEPT ![c] = "freed"]
      /\ job' = [job EXCEPT ![p] = [Idle EXCEPT !.at = "wait", !.child = c]]
      /\ oft' = oft /\ fds' = fds /\ meant' = meant
  BY DEF wait_begins, InProgram
<1>2. PICK r \in JobRecord : r.at = "wait" /\ job' = [job EXCEPT ![p] = r]
  <2> DEFINE r == [Idle EXCEPT !.at = "wait", !.child = c]
  <2>1. Idle \in JobRecord
    BY IdleIs
  <2>2. r \in JobRecord /\ r.at = "wait"
    BY <2>1 DEF JobRecord
  <2>3. job' = [job EXCEPT ![p] = r]
    BY <1>1
  <2> HIDE DEF r
  <2> QED
    BY <2>2, <2>3
<1>3. JobSet(p, r)
  BY <1>2, SetsJob
<1>4. /\ state' \in [Proc -> {"unused", "runs", "zombie", "freed"}]
      /\ state'[c] = "freed" /\ \A q \in Proc : q # c => state'[q] = state[q]
  BY <1>1 DEF FilesInv, FilesTypeOK
<1>5. NoNewUsers /\ NoNewOpeners
  <2>1. NoNewUsers
    BY <1>1, <1>4 DEF NoNewUsers
  <2>2. NoNewOpeners
    BY <1>2, <1>3, NoOpener
  <2> QED
    BY <2>1, <2>2
<1>6. JobsRight'
  <2>1. \A q \in Proc : state[q] = "runs" => state'[q] = "runs"
    BY <1>1, <1>4
  <2>2. JobRight(r, state'[p])
    BY <2>1, <1>1, <1>2 DEF JobRight
  <2> QED
    BY <2>1, <2>2, <1>3, JobsStayRight
<1>7. FilesTypeOK'
  BY <1>1, <1>3, <1>4 DEF FilesInv, FilesTypeOK, JobSet
<1> QED
  BY <1>1, <1>5, <1>6, <1>7, CalmKeeps

LEMMA FreeClosesStep ==
    ASSUME FilesInv, NEW c \in Proc, proc_free_closes(c)
    PROVE  FilesInv'
<1> DEFINE S == {k \in Handle : fds[c][k] # -1}
<1>1. /\ state[c] = "freed" /\ fds[c] # NoFds /\ kclose(fds[c][Least(S)])
      /\ fds' = [fds EXCEPT ![c][Least(S)] = -1]
      /\ meant' = [meant EXCEPT ![c][Least(S)] = ""]
      /\ state' = state /\ job' = job
  BY DEF proc_free_closes
<1>2. S # {}
  <2> SUFFICES ASSUME S = {} PROVE FALSE
    OBVIOUS
  <2>1. fds[c] \in [Handle -> Descriptor] /\ \A k \in Handle : fds[c][k] = -1
    BY FilesTyped
  <2>2. fds[c] = NoFds
    BY <2>1 DEF NoFds
  <2> QED
    BY <2>2, <1>1
<1>3. S \subseteq Nat
  BY Numbers
<1>4. Least(S) \in S
  BY <1>2, <1>3, LeastIsIn
<1>5. PICK j \in Handle : j = Least(S) /\ fds[c][j] # -1
  BY <1>4
<1> HIDE DEF S
<1>6. /\ kclose(fds[c][j]) /\ fds' = [fds EXCEPT ![c][j] = -1]
      /\ meant' = [meant EXCEPT ![c][j] = ""]
  BY <1>1, <1>5
<1>7. state[c] # "unused"
  BY <1>1
<1> QED
  BY <1>1, <1>5, <1>6, <1>7, CloseStep

LEMMA FreeEndsStep ==
    ASSUME FilesInv, NEW c \in Proc, proc_free_ends(c)
    PROVE  FilesInv'
<1>1. /\ state[c] = "freed" /\ state' = [state EXCEPT ![c] = "unused"]
      /\ job' = [p \in Proc |-> IF job[p].at = "wait" /\ job[p].child = c
                                THEN Idle ELSE job[p]]
      /\ oft' = oft /\ fds' = fds /\ meant' = meant
  BY DEF proc_free_ends
<1>2. /\ job \in [Proc -> JobRecord] /\ Idle \in JobRecord /\ Idle.at = "out"
  BY IdleIs DEF FilesInv, FilesTypeOK
<1>3. /\ job' \in [Proc -> JobRecord]
      /\ \A q \in Proc : job'[q] = job[q] \/ job'[q].at = "out"
  BY <1>1, <1>2
<1>4. /\ state' \in [Proc -> {"unused", "runs", "zombie", "freed"}]
      /\ state'[c] = "unused" /\ \A q \in Proc : q # c => state'[q] = state[q]
  BY <1>1 DEF FilesInv, FilesTypeOK
<1>5. NoNewUsers /\ NoNewOpeners
  <2>1. NoNewUsers
    BY <1>1, <1>4 DEF NoNewUsers
  <2>2. NoNewOpeners
    BY <1>3 DEF NoNewOpeners, Opening
  <2> QED
    BY <2>1, <2>2
<1>6. JobsRight'
  BY <1>1, <1>3, <1>4 DEF FilesInv, JobsRight, Opening
<1>7. FilesTypeOK'
  BY <1>1, <1>3, <1>4 DEF FilesInv, FilesTypeOK
<1> QED
  BY <1>1, <1>5, <1>6, <1>7, CalmKeeps

-----------------------------------------------------------------------------
LEMMA FilesInitInv == FilesInit => FilesInv
<1> SUFFICES ASSUME FilesInit PROVE FilesInv
  OBVIOUS
<1>1. /\ oft = [i \in Kfd |-> [refcnt |-> 0, file |-> ""]]
      /\ fds = [p \in Proc |-> NoFds] /\ meant = [p \in Proc |-> NoFile]
      /\ job = [p \in Proc |-> Idle]
  BY DEF FilesInit
<1>2. state \in [Proc -> {"unused", "runs", "zombie", "freed"}]
  BY DEF FilesInit
<1>3. NoFds \in [Handle -> Descriptor] /\ NoFile \in [Handle -> Purpose]
  BY DEF NoFds, NoFile, Descriptor, Purpose
<1>4. \A p \in Proc, j \in Handle : fds[p][j] = -1
  BY <1>1 DEF NoFds
<1>5. \A p \in Proc : job[p].at = "out"
  BY <1>1, IdleIs
<1>6. FilesTypeOK
  BY <1>1, <1>2, <1>3, IdleIs DEF FilesTypeOK, OftRecord, Purpose
<1>7. JobsRight /\ OneOpener /\ FileMeant
  BY <1>4, <1>5 DEF JobsRight, OneOpener, FileMeant, Opening
<1>8. EntriesCounted
  <2> SUFFICES ASSUME NEW i \in Kfd
               PROVE  Counted(oft[i].refcnt, Users(i), Openers(i))
    BY DEF EntriesCounted
  <2>1. oft[i].refcnt = 0
    BY <1>1
  <2>2. i # -1
    BY Numbers
  <2>3. Users(i) = {}
    BY <1>4, <2>2 DEF Users
  <2>4. Openers(i) = {}
    BY <1>5 DEF Openers
  <2> QED
    BY <2>1, <2>3, <2>4, CountedEmpty
<1> QED
  BY <1>6, <1>7, <1>8 DEF FilesInv

LEMMA FilesStep == FilesInv /\ [FilesNext]_filevars => FilesInv'
<1> SUFFICES ASSUME FilesInv, [FilesNext]_filevars PROVE FilesInv'
  OBVIOUS
<1>1. ASSUME NEW p \in Proc, open(p) PROVE FilesInv'
  BY <1>1, OpenStep
<1>2. ASSUME NEW p \in Proc, kopen_fails(p) PROVE FilesInv'
  BY <1>2, FailsStep DEF kopen_fails, Opening
<1>3. ASSUME NEW p \in Proc, kopen_opens(p) PROVE FilesInv'
  BY <1>3, OpensStep
<1>4. ASSUME NEW p \in Proc, NEW f \in File, kopen_finds(p, f) PROVE FilesInv'
  BY <1>4, FindsStep
<1>5. ASSUME NEW p \in Proc, NEW j \in Handle, close(p, j) PROVE FilesInv'
  <2>1. /\ state[p] # "unused" /\ fds[p][j] # -1 /\ kclose(fds[p][j])
        /\ fds' = [fds EXCEPT ![p][j] = -1] /\ meant' = [meant EXCEPT ![p][j] = ""]
        /\ state' = state /\ job' = job
    BY <1>5 DEF close, InProgram
  <2> QED
    BY <2>1, CloseStep
<1>6. ASSUME NEW p \in Proc, NEW j \in Handle, dup(p, j) PROVE FilesInv'
  BY <1>6, DupStep
<1>7. ASSUME NEW p \in Proc, NEW c \in Proc, make_process_starts(p, c) PROVE FilesInv'
  BY <1>7, StartsStep
<1>8. ASSUME NEW p \in Proc, NEW c \in Proc, wait_begins(p, c) PROVE FilesInv'
  BY <1>8, WaitStep
<1>9. ASSUME NEW p \in Proc, make_process_links(p) PROVE FilesInv'
  BY <1>9, LinksStep
<1>10. ASSUME NEW p \in Proc, dup_handles(p) PROVE FilesInv'
  BY <1>10, DupHandlesStep
<1>11. ASSUME NEW p \in Proc, exit_ends(p) PROVE FilesInv'
  BY <1>11, ExitStep
<1>12. ASSUME NEW p \in Proc, proc_free_closes(p) PROVE FilesInv'
  BY <1>12, FreeClosesStep
<1>13. ASSUME NEW p \in Proc, proc_free_ends(p) PROVE FilesInv'
  BY <1>13, FreeEndsStep
<1>14. CASE UNCHANGED filevars
  <2>1. /\ oft' = oft /\ fds' = fds /\ state' = state /\ job' = job
        /\ meant' = meant
    BY <1>14 DEF filevars
  <2>2. NoNewUsers /\ NoNewOpeners
    BY <2>1 DEF NoNewUsers, NoNewOpeners, Opening
  <2>3. FilesTypeOK' /\ JobsRight'
    BY <2>1 DEF FilesInv, FilesTypeOK, JobsRight, Opening
  <2> QED
    BY <2>1, <2>2, <2>3, CalmKeeps
<1>15. CASE FilesNext
  BY <1>1, <1>2, <1>3, <1>4, <1>5, <1>6, <1>7, <1>8, <1>9, <1>10, <1>11, <1>12,
     <1>13, <1>15 DEF FilesNext
<1> QED
  BY <1>14, <1>15

LEMMA InvKeepsFile == FilesInv => DescriptorKeepsFile
<1> SUFFICES ASSUME FilesInv PROVE DescriptorKeepsFile
  OBVIOUS
<1>1. \A i \in Kfd : oft[i].refcnt >= Cardinality(Users(i)) + Cardinality(Openers(i))
  BY DEF FilesInv, EntriesCounted, Counted
<1>2. \A p \in Proc, j \in Handle : state[p] # "unused" /\ fds[p][j] # -1 =>
          oft[fds[p][j]].file = meant[p][j]
  BY DEF FilesInv, FileMeant
<1> QED
  BY <1>1, <1>2 DEF DescriptorKeepsFile

\* An entry of the table of open files is not given up while a descriptor
\* refers to it or a kopen is about to, and a descriptor refers to what was
\* opened for it, however processes open, close, dup, exec and exit.
THEOREM DescriptorsKeepFiles == FilesSpec => []DescriptorKeepsFile
<1>1. FilesInit => FilesInv
  BY FilesInitInv
<1>2. FilesInv /\ [FilesNext]_filevars => FilesInv'
  BY FilesStep
<1>3. FilesInv => DescriptorKeepsFile
  BY InvKeepsFile
<1> QED
  BY <1>1, <1>2, <1>3, PTL DEF FilesSpec
=============================================================================
