------------------------------ MODULE TtyCook -------------------------------
(***************************************************************************)
(* Line editing, kernel/ttycook/TTYCOOK.C, as functions on the record of a *)
(* unit: a ring of characters that are read line by line.  What is echoed  *)
(* goes out with the writes (TtyXmit).                                     *)
(***************************************************************************)
EXTENDS Naturals, Sequences

CONSTANT TTYC_LINE_SIZE \* the size of the ring: 128

ASSUME CookAssumption == TTYC_LINE_SIZE \in Nat \ {0, 1, 2}

\* a newline, for which \r counts too; the erase characters; any other
Char == {"nl", "bs", "x"}

Q_NEXT(i) == (i + 1) % TTYC_LINE_SIZE
Q_PREV(i) == (i + TTYC_LINE_SIZE - 1) % TTYC_LINE_SIZE

\* ttyc_init, at each open: the characters are left where they are
ttyc_init(pc) == [pc EXCEPT !.head = 0, !.tail = 0, !.crs = 0]

NewCook == [head |-> 0, tail |-> 0, crs |-> 0,
            buf |-> [i \in 0 .. TTYC_LINE_SIZE - 1 |-> "x"]]

\* fault: one place more
Left_all(pc) == IF pc.head <= pc.tail
                THEN TTYC_LINE_SIZE - pc.tail + pc.head + 1
                ELSE pc.head - pc.tail + 1

Left(pc) == IF pc.head <= pc.tail
            THEN TTYC_LINE_SIZE - pc.tail + pc.head - 1
            ELSE pc.head - pc.tail

Erases(pc, ch) == ch = "bs" /\ pc.head # pc.tail
Accepts(pc, ch) == ch # "bs" /\ Left(pc) > (IF ch = "nl" THEN 1 ELSE 2)

ttyc_putc(pc, ch) ==
    IF Erases(pc, ch) THEN [pc EXCEPT !.tail = Q_PREV(@)]
    ELSE IF Accepts(pc, ch)
    THEN [pc EXCEPT !.buf[pc.tail] = ch, !.tail = Q_NEXT(@),
                    !.crs = IF ch = "nl" THEN @ + 1 ELSE @]
    ELSE pc

\* the characters in the ring, first to last
Contents(pc) ==
    LET n == (pc.tail + TTYC_LINE_SIZE - pc.head) % TTYC_LINE_SIZE
    IN [i \in 1 .. n |-> pc.buf[(pc.head + i - 1) % TTYC_LINE_SIZE]]

NewLines(s) == {i \in DOMAIN s : s[i] = "nl"}

\* how many characters ttyc_read takes: up to a newline, to the end of the
\* ring, or to the size of the caller's buffer, whichever is first
Taken(pc, size) ==
    LET s == Contents(pc)
        ends == NewLines(s) \cup {Len(s), size}
    IN IF pc.crs = 0 \/ s = <<>> THEN 0
       ELSE CHOOSE n \in ends : \A m \in ends : n <= m

ttyc_read(pc, size) ==
    LET n == Taken(pc, size) IN
    [pc EXCEPT !.head = (@ + n) % TTYC_LINE_SIZE,
               !.crs = IF n > 0 /\ Contents(pc)[n] = "nl" THEN @ - 1 ELSE @]
=============================================================================
