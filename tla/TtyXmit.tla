------------------------------ MODULE TtyXmit -------------------------------
(***************************************************************************)
(* The sending side of one serial port of kernel/tty/TTY.C: tty_write, the *)
(* transmit interrupt, the lists of blocks, and the echo task and its ring *)
(* of kernel/ttycook/TTYCOOK.C.                                            *)
(*                                                                         *)
(* What is done inside csxmit or echocs is one step; tty_freeiob has no    *)
(* lock, and other tasks and the interrupt come between its steps.         *)
(***************************************************************************)
EXTENDS Naturals, FiniteSets

CONSTANTS
    Writer,     \* the tasks that call tty_write
    Echo,       \* the echo task
    Iob,        \* the blocks that memory has room for
    Lens,       \* lengths of writes, after cooking
    Echoed,     \* how much is echoed at once: 1 to 3 characters
    TTYC_ECHO_QUEUE, \* the size of the echo ring: 32
    Depth,      \* how many characters the transmitter holds
    FIFO_SIZE,  \* how many the driver believes it holds: 16
    MaxWrites,  \* bound: calls of tty_write by Writer
    NULL

ASSUME XmitAssumption ==
    /\ Echo \notin Writer /\ NULL \notin Iob
    /\ Lens \cup Echoed \subseteq Nat \ {0}
    /\ {TTYC_ECHO_QUEUE, Depth, FIFO_SIZE} \subseteq Nat \ {0}
    /\ MaxWrites \in Nat /\ IsFiniteSet(Iob)

VARIABLES
    lists,      \* [txhead, txtail, freeiob, next, left]: the two lists, and
                \* of each block the next one and how much is to be sent
    used,       \* the blocks that are allocated
    xmit,       \* how many characters are in the transmitter
    txrdy,      \* its interrupt is pending
    overrun,    \* a character met a full transmitter
    echo,       \* how many characters are in the echo ring
    task,       \* of each task: where it is, how much it writes, and what
                \* tty_freeiob has read: the head and its next
    before,     \* history: <<b, c>>, the call that queued b was first
    writes,
    raced       \* tty_freeiob has freed a block that was not its to free

xmitvars == <<lists, used, xmit, txrdy, overrun, echo, task, before, writes,
              raced>>

Lists == [txhead : Iob \cup {NULL}, txtail : Iob \cup {NULL},
          freeiob : Iob \cup {NULL}, next : [Iob -> Iob \cup {NULL}],
          left : [Iob -> Nat]]

XTask == Writer \cup {Echo}

\* a, g of a, g of that, and so on
Turns(g, a) ==
    LET turn[k \in Nat] == IF k = 0 THEN a ELSE g[turn[k - 1]] IN turn

XmitInit ==
    /\ lists = [txhead |-> NULL, txtail |-> NULL, freeiob |-> NULL,
                next |-> [b \in Iob |-> NULL], left |-> [b \in Iob |-> 0]]
    /\ used = {} /\ xmit = 0 /\ txrdy = FALSE /\ overrun = FALSE /\ echo = 0
    /\ task = [t \in XTask |-> [at |-> IF t = Echo THEN "check" ELSE "out",
                               len |-> 0, iob |-> NULL, nxt |-> NULL]]
    /\ before = {} /\ writes = 0 /\ raced = FALSE
-----------------------------------------------------------------------------
(* Sending                                                                 *)

\* LSR_TX_RDY: the transmitter is empty
TxReady == xmit = 0

\* a finished block at the head of the list goes to the free list
FinishOne[L \in Lists] ==
    LET b == L.txhead IN
    IF b = NULL \/ L.left[b] > 0 THEN L
    ELSE [L EXCEPT !.txhead = L.next[b],
                   !.txtail = IF L.next[b] = NULL THEN NULL ELSE @,
                   !.next[b] = L.freeiob, !.freeiob = b]

\* and so do all, of which there are as many as blocks at most
Finish[L \in Lists] == Turns(FinishOne, L)[Cardinality(Iob)]

\* the lists, and how many characters have been put
Filling == [lists : Lists, out : Nat]

\* one turn of the loop of tty_xmit_intr
PutOne[S \in Filling] ==
    LET F == Finish[S.lists] IN
    IF F.txhead = NULL THEN [S EXCEPT !.lists = F]
    ELSE [lists |-> [F EXCEPT !.left[F.txhead] = @ - 1], out |-> S.out + 1]

Fill(L) == Turns(PutOne, [lists |-> L, out |-> 0])[FIFO_SIZE]

tty_xmit_intr(L) ==
    IF L.txhead = NULL \/ ~ TxReady
    THEN lists' = L /\ UNCHANGED <<xmit, overrun>>
    ELSE LET S == Fill(L)
             n == xmit + S.out
         IN  /\ lists' = S.lists
             /\ overrun' = (overrun \/ n > Depth)
             /\ xmit' = IF n > Depth THEN Depth ELSE n

\* tty_intr: the transmitter became empty
tty_intr ==
    /\ txrdy /\ txrdy' = FALSE /\ tty_xmit_intr(lists)
    /\ UNCHANGED <<used, echo, task, before, writes, raced>>

\* the line takes a character
Sends ==
    /\ xmit > 0 /\ xmit' = xmit - 1 /\ txrdy' = (txrdy \/ xmit = 1)
    /\ UNCHANGED <<lists, used, overrun, echo, task, before, writes, raced>>
-----------------------------------------------------------------------------
(* Writing                                                                 *)

tty_write(t) ==
    /\ task[t].at = "out" /\ writes < MaxWrites /\ writes' = writes + 1
    /\ \E n \in Lens :
        task' = [task EXCEPT ![t].at = "freeing", ![t].len = n]
    /\ UNCHANGED <<lists, used, xmit, txrdy, overrun, echo, before, raced>>

\* tty_freeiob reads the head of the free list and its next
tty_freeiob_reads(t) ==
    /\ task[t].at = "freeing"
    /\ task' = IF lists.freeiob = NULL THEN [task EXCEPT ![t].at = "queue"]
               ELSE [task EXCEPT ![t].at = "unlink", ![t].iob = lists.freeiob,
                                 ![t].nxt = lists.next[lists.freeiob]]
    /\ UNCHANGED <<lists, used, xmit, txrdy, overrun, echo, before, writes,
                   raced>>

\* the block that comes next, if any
Follower == [b \in Iob \cup {NULL} |-> IF b = NULL THEN NULL ELSE lists.next[b]]

\* the blocks along the links from b, each with its place, and NULL after
\* the last
Along(b) == [k \in 0..Cardinality(Iob) |-> Turns(Follower, b)[k]]

\* the blocks along the links from b
Chained(b) == {Along(b)[k] : k \in 0..Cardinality(Iob)} \ {NULL}

\* The block is still where it was.  That it need not be the head: one that
\* the interrupt has put before it is then lost.
StillFree(b, nxt) ==
    /\ b \in Chained(lists.freeiob)
    /\ lists.next[b] = nxt

\* and unlinks and frees it
tty_freeiob_frees(t) ==
    LET b == task[t].iob IN
    /\ task[t].at = "unlink"
    /\ lists' = [lists EXCEPT !.freeiob = task[t].nxt]
    /\ raced' = ~ StillFree(b, task[t].nxt)
    /\ used' = used \ {b}
    /\ task' = [task EXCEPT ![t].at = "freeing", ![t].iob = NULL,
                            ![t].nxt = NULL]
    /\ UNCHANGED <<xmit, txrdy, overrun, echo, before, writes>>

\* fault: the tail stays where it is
Linked_tail(L, b) == [L EXCEPT !.next[L.txtail] = b]

\* a block is put behind the last one
Linked(L, b) == [L EXCEPT !.next[L.txtail] = b, !.txtail = b]

\* a block with something to be sent
Waiting == {b \in Iob : lists.left[b] > 0}

\* ttyc_cook_output gets a block of t's length, or none, and tty_write
\* queues it; a first block is sent on the spot
tty_write_queues(t) ==
    /\ task[t].at = "queue"
    /\ task' = [task EXCEPT ![t].at = IF t = Echo THEN "check" ELSE "out",
                            ![t].len = 0]
    /\ \/ used = Iob /\ UNCHANGED <<lists, used, before, xmit, overrun>>
       \/ \E b \in Iob \ used :
            LET N == [lists EXCEPT !.left[b] = task[t].len, !.next[b] = NULL]
            IN /\ used' = used \cup {b}
               /\ before' = (before \cap (Waiting \X Waiting))
                                \cup (Waiting \X {b})
               /\ IF lists.txhead = NULL
                  THEN tty_xmit_intr([N EXCEPT !.txhead = b, !.txtail = b])
                  ELSE lists' = Linked(N, b) /\ UNCHANGED <<xmit, overrun>>
    /\ UNCHANGED <<txrdy, echo, writes, raced>>
-----------------------------------------------------------------------------
(* Echoing                                                                 *)

\* fault: nobody is woken
Unblocked_not(at) == at

\* task_unblock
Unblocked(at) == IF at = "blocked" THEN "check" ELSE at

\* The echo task may wait for csxmit, which a writer has: task_unblock, by
\* name, then takes it off the queue of the semaphore.
MayWait == task[Echo].at = "queue" /\ \E t \in Writer : task[t].at = "queue"

\* ttyc_putc, at interrupt priority: TTYC_ECHO n times, without a test for a
\* full ring
TTYC_ECHO(n) ==
    /\ echo' = (echo + n) % TTYC_ECHO_QUEUE
    /\ \/ task' = [task EXCEPT ![Echo].at = Unblocked(@)]
       \/ MayWait /\ task' = [task EXCEPT ![Echo].at = "intruder"]
    /\ UNCHANGED <<lists, used, xmit, txrdy, overrun, before, writes, raced>>

\* ttyc_echotask: nothing to echo, or up to 16 characters that it then writes
ttyc_echotask ==
    /\ task[Echo].at = "check"
    /\ LET n == IF echo < 16 THEN echo ELSE 16 IN
        /\ echo' = echo - n
        /\ task' = IF n = 0 THEN [task EXCEPT ![Echo].at = "empty"]
                   ELSE [task EXCEPT ![Echo].at = "freeing", ![Echo].len = n]
    /\ UNCHANGED <<lists, used, xmit, txrdy, overrun, before, writes, raced>>

\* task_block; echocs was left before
ttyc_echotask_blocks ==
    /\ task[Echo].at = "empty" /\ task' = [task EXCEPT ![Echo].at = "blocked"]
    /\ UNCHANGED <<lists, used, xmit, txrdy, overrun, echo, before, writes,
                   raced>>
-----------------------------------------------------------------------------
Runs(t) == tty_freeiob_reads(t) \/ tty_freeiob_frees(t) \/ tty_write_queues(t)
EchoRuns == Runs(Echo) \/ ttyc_echotask \/ ttyc_echotask_blocks
Types == \E n \in Echoed : TTYC_ECHO(n)

\* After a block was freed twice or in use, or with two tasks let into csxmit,
\* anything may happen: the model ends there.
Followed == ~ raced /\ task[Echo].at # "intruder"
XmitNext ==
    /\ Followed
    /\ \/ \E t \in Writer : tty_write(t) \/ Runs(t)
       \/ EchoRuns \/ tty_intr \/ Sends \/ Types

XmitSpec == XmitInit /\ [][XmitNext]_xmitvars
-----------------------------------------------------------------------------
\* No character is written to a transmitter that has no room.  What is to be
\* sent is on the list, in the order of the calls, and allocated.
SentInOrder ==
    LET tx == Along(lists.txhead) IN
    /\ ~ overrun
    /\ ~ raced => /\ Waiting \subseteq Chained(lists.txhead) \cap used
                  /\ \A i, j \in DOMAIN tx :
                        {tx[i], tx[j]} \subseteq Waiting =>
                            (i < j <=> <<tx[i], tx[j]>> \in before)

\* The echo task is woken by what is typed next; a character that came while
\* it was about to block waits for that one, or for a ring that wraps to
\* empty.
EchoTaskWakes == task[Echo].at = "blocked" ~> task[Echo].at # "blocked" \/ raced
=============================================================================
