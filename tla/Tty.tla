-------------------------------- MODULE Tty ---------------------------------
(***************************************************************************)
(* The receiving side of one serial port of kernel/tty/TTY.C: open, close, *)
(* read and the receive interrupt, with line editing.  TtyXmit has the     *)
(* other side.                                                             *)
(*                                                                         *)
(* The interrupt's task has a higher priority than those that use the unit *)
(* and comes between any two of their steps.  What is done inside refcs or *)
(* csrecv is one step.                                                     *)
(***************************************************************************)
EXTENDS TtyCook, FiniteSets, SequencesExt

CONSTANTS
    Task,       \* the tasks that use the unit
    ReadSizes,
    MaxOpens,   \* bound: tty_open calls that succeed
    MaxCrs      \* bound: no character comes if more lines than this are counted

ASSUME TtyAssumption == /\ ReadSizes \subseteq Nat \ {0}
                        /\ MaxOpens \in Nat /\ MaxCrs \in Nat

VARIABLES
    open, zombcount,
    cooker,         \* the record of TtyCook
    readers,        \* the queue of blocked readers
    ier,            \* the port's interrupts are enabled
    pc, size,       \* where a task is, and the size of its read
    opens,          \* how often the unit was opened
    line            \* what was typed, accepted, not erased and not read yet

ttyvars == <<open, zombcount, cooker, readers, ier, pc, size, opens, line>>

\* "opening": the unit is marked open and its hardware is not set up.
\* "closing": the readers are still to be dealt with.  "woken": task_unblock
\* has made the reader ready, in task_block.
Place == {"out", "opening", "closing", "read", "empty", "blocked", "woken"}

TtyInit ==
    /\ open = FALSE /\ zombcount = 0 /\ cooker = NewCook /\ readers = <<>>
    /\ ier = FALSE
    /\ pc = [t \in Task |-> "out"] /\ size = [t \in Task |-> 0]
    /\ opens = 0 /\ line = <<>>

Goto(t, place) == pc' = [pc EXCEPT ![t] = place]

\* while (readers.head) task_unblock(readers.head)
Awakened(place) == [u \in Task |-> IF u \in Range(readers) THEN "woken"
                                   ELSE place[u]]
-----------------------------------------------------------------------------
(* open and close                                                          *)

\* tty_open up to the flag, which refcs protects
tty_open(t) ==
    /\ pc[t] = "out" /\ ~ open /\ readers = <<>> /\ opens < MaxOpens
    /\ open' = TRUE /\ opens' = opens + 1 /\ Goto(t, "opening")
    /\ UNCHANGED <<zombcount, cooker, readers, ier, size, line>>

\* the rest: the interrupts that were pending are cleared, the line is empty,
\* and the port may interrupt.  Or they cannot be cleared.
tty_opened(t) ==
    /\ pc[t] = "opening" /\ Goto(t, "out")
    /\ \/ /\ ier' = TRUE /\ cooker' = ttyc_init(cooker) /\ line' = <<>>
          /\ UNCHANGED open
       \/ open' = FALSE /\ UNCHANGED <<ier, cooker, line>>
    /\ UNCHANGED <<zombcount, readers, size, opens>>

\* tty_close up to the point where no more interrupts come
tty_close(t) ==
    /\ pc[t] = "out" /\ open /\ ier' = FALSE /\ Goto(t, "closing")
    /\ UNCHANGED <<open, zombcount, cooker, readers, size, opens, line>>

\* the readers that wait are counted and woken
tty_closed(t) ==
    /\ pc[t] = "closing"
    /\ zombcount' = Len(readers) /\ readers' = <<>> /\ open' = FALSE
    /\ pc' = Awakened([pc EXCEPT ![t] = "out"])
    /\ UNCHANGED <<cooker, ier, size, opens, line>>
-----------------------------------------------------------------------------
(* read                                                                    *)

tty_read(t) ==
    /\ pc[t] = "out" /\ open /\ Goto(t, "read")
    /\ \E n \in ReadSizes : size' = [size EXCEPT ![t] = n]
    /\ UNCHANGED <<open, zombcount, cooker, readers, ier, opens, line>>

Return(t) == Goto(t, "out") /\ size' = [size EXCEPT ![t] = 0]

\* a turn of the loop inside csrecv
tty_read_tries(t) ==
    LET n == Taken(cooker, size[t]) IN
    /\ pc[t] = "read"
    /\ cooker' = ttyc_read(cooker, size[t])
    /\ line' = SubSeq(line, n + 1, Len(line))
    /\ IF n > 0 THEN Return(t) ELSE Goto(t, "empty") /\ UNCHANGED size
    /\ UNCHANGED <<open, zombcount, readers, ier, opens>>

\* task_block; csrecv was left before
tty_read_blocks(t) ==
    /\ pc[t] = "empty" /\ Goto(t, "blocked") /\ readers' = Append(readers, t)
    /\ UNCHANGED <<open, zombcount, cooker, ier, size, opens, line>>

\* back from task_block: was the unit closed?
tty_read_woken(t) ==
    /\ pc[t] = "woken"
    /\ IF zombcount > 0 THEN zombcount' = zombcount - 1 /\ Return(t)
       ELSE Goto(t, "read") /\ UNCHANGED <<zombcount, size>>
    /\ UNCHANGED <<open, cooker, readers, ier, opens, line>>
-----------------------------------------------------------------------------
(* The interrupt                                                           *)

\* tty_intr and tty_recv_intr, one character: it is edited into the line, and
\* every reader is woken
tty_recv_intr(ch) ==
    /\ ier /\ cooker.crs <= MaxCrs
    /\ cooker' = ttyc_putc(cooker, ch)
    /\ line' = IF Erases(cooker, ch) THEN SubSeq(line, 1, Len(line) - 1)
               ELSE IF Accepts(cooker, ch) THEN Append(line, ch) ELSE line
    /\ readers' = <<>> /\ pc' = Awakened(pc)
    /\ UNCHANGED <<open, zombcount, ier, size, opens>>
-----------------------------------------------------------------------------
Reads(t) == tty_read_tries(t) \/ tty_read_blocks(t) \/ tty_read_woken(t)
Receives == \E ch \in Char : tty_recv_intr(ch)

TtyNext ==
    \/ \E t \in Task : \/ tty_open(t) \/ tty_opened(t) \/ tty_close(t)
                       \/ tty_closed(t) \/ tty_read(t) \/ Reads(t)
    \/ Receives

TtySpec == TtyInit /\ [][TtyNext]_ttyvars
-----------------------------------------------------------------------------
\* The ring holds exactly what was typed and not erased or read: it never
\* overtakes itself, wherever in the ring the line lies.  And a complete line
\* can be read: the count of lines is not below the lines in the ring.  (It
\* may be above: erasing a newline does not change it.)
RingHoldsLine ==
    Contents(cooker) = line /\ Cardinality(NewLines(line)) <= cooker.crs

\* A reader that waits on an open unit is woken by what is typed next.
ReaderWakes ==
    \A t \in Task : pc[t] = "blocked" ~> \/ pc[t] # "blocked"
                                         \/ ~ ier \/ cooker.crs > MaxCrs
=============================================================================
