------------------------------- MODULE Stdio --------------------------------
(***************************************************************************)
(* The buffered streams of clib/lib/stdio.c, and getc and putc of stdio.h, *)
(* over the calls open, read, write and close of the kernel.  The kernel   *)
(* may take fewer bytes than it is given, deliver fewer than it is asked   *)
(* for, and fail.                                                          *)
(*                                                                         *)
(* The i-th byte that a program writes to a stream is i, and so is the     *)
(* i-th byte of a file that is read; Junk is a byte from anywhere else.    *)
(***************************************************************************)
EXTENDS Integers, Sequences

CONSTANTS MAXFILE,      \* number of streams
          StdFiles,     \* those of them that _init_stdio opens
          DEF_BUFSIZE,  \* size of a buffer
          MaxBytes,     \* bound: the bytes of a file, or written to a stream
          MaxRead       \* bound: the bytes that one fread asks for

ASSUME StdioAssumption ==
    /\ {MAXFILE, StdFiles, DEF_BUFSIZE, MaxBytes, MaxRead} \subseteq Nat
    /\ 1 < StdFiles /\ StdFiles <= MAXFILE /\ DEF_BUFSIZE > 0

Stream == 0 .. MAXFILE - 1
stdin  == 0
stdout == 1
Junk   == 0

Writes(flags) == "WRITE" \in flags
Ended(flags)  == flags \cap {"EOF", "ERR"} # {}

VARIABLES fp,       \* the streams: [flags, buf, next, cnt]
          put,      \* history: how many bytes were written to a stream,
          sent,     \* those the kernel took,
          got,      \* those that were read from a stream
          exiting   \* the program has called exit

stdiovars == <<fp, put, sent, got, exiting>>

Closed == [flags |-> {}, buf |-> <<>>, next |-> 0, cnt |-> 0]
Fresh(flags) == [Closed EXCEPT !.flags = flags,
                               !.buf = [i \in 1..DEF_BUFSIZE |-> Junk]]

\* _init_stdio
StdioInit ==
    /\ fp = [f \in Stream |-> IF f = stdin THEN Fresh({"READ"})
                              ELSE IF f < StdFiles THEN Fresh({"WRITE"})
                              ELSE Closed]
    /\ put = [f \in Stream |-> 0]
    /\ sent = [f \in Stream |-> <<>>]
    /\ got = [f \in Stream |-> <<>>]
    /\ exiting = FALSE

\* parse_mode lets no mode with a + through
ModeFlags == {{"READ"}, {"WRITE"}, {"APP", "WRITE"}}

\* the first free stream
get_empty_file(f) ==
    fp[f].flags = {} /\ \A g \in 0..(f - 1) : fp[g].flags # {}

\* with a stream, a buffer and a file; without, nothing changes
fopen(f, flags) ==
    /\ get_empty_file(f)
    /\ fp' = [fp EXCEPT ![f] = Fresh(flags)]
    /\ put' = [put EXCEPT ![f] = 0]
    /\ sent' = [sent EXCEPT ![f] = <<>>]
    /\ got' = [got EXCEPT ![f] = <<>>]

\* fault: what a write leaves over stays in the buffer's accounts only
Emptied_not(s) == [s EXCEPT !.cnt = DEF_BUFSIZE]

Emptied(s) == [s EXCEPT !.next = 0, !.cnt = DEF_BUFSIZE]

\* fflush of a stream s whose writes have reached the kernel as w: the
\* stream and what has reached the kernel after it.  A write may fail or
\* take k of the bytes; less than all is an error.
Flushed(s, w) ==
    IF Ended(s.flags) THEN {[s |-> s, w |-> w]}
    ELSE IF ~ Writes(s.flags) \/ s.next = 0 THEN {[s |-> Emptied(s), w |-> w]}
    ELSE {[s |-> Emptied([s EXCEPT !.flags = @ \cup
                             IF k < s.next THEN {"ERR"} ELSE {}]),
           w |-> w \o SubSeq(s.buf, 1, k)] : k \in 0..s.next}

fflush(f) ==
    /\ Writes(fp[f].flags)
    /\ \E r \in Flushed(fp[f], sent[f]) :
        fp' = [fp EXCEPT ![f] = r.s] /\ sent' = [sent EXCEPT ![f] = r.w]
    /\ UNCHANGED <<put, got>>

\* A stream that could not write is closed with what it holds.  A program
\* leaves its standard streams to exit.
fclose(f) ==
    /\ fp[f].flags # {}
    /\ IF exiting THEN \A g \in 0..(f - 1) : fp[g].flags = {} ELSE f >= StdFiles
    /\ \E r \in IF Writes(fp[f].flags) THEN Flushed(fp[f], sent[f])
                ELSE {[s |-> fp[f], w |-> sent[f]]} :
        /\ sent' = [sent EXCEPT ![f] = r.w]
        /\ put' = [put EXCEPT ![f] = IF "ERR" \in r.s.flags THEN Len(r.w)
                                     ELSE @]
    /\ fp' = [fp EXCEPT ![f] = Closed]
    /\ UNCHANGED <<got, exiting>>

Stored(s, ch) == [s EXCEPT !.buf[s.next + 1] = ch, !.next = @ + 1]

\* putc, with _fflush when the buffer is full or was never used
putc(f) ==
    LET ch == put[f] + 1
        s  == [fp[f] EXCEPT !.cnt = @ - 1]
    IN
    /\ Writes(fp[f].flags) /\ ch <= MaxBytes
    /\ put' = [put EXCEPT ![f] = ch] /\ UNCHANGED got
    /\ \/ s.cnt >= 0 /\ fp' = [fp EXCEPT ![f] = Stored(s, ch)]
          /\ UNCHANGED sent
       \/ s.cnt < 0 /\ Ended(s.flags) /\ fp' = [fp EXCEPT ![f] = s]
          /\ UNCHANGED sent
       \/ /\ s.cnt < 0 /\ ~ Ended(s.flags)
          /\ \E r \in Flushed(s, sent[f]) :
                /\ fp' = [fp EXCEPT ![f] =
                                [Stored(r.s, ch) EXCEPT !.cnt = @ - 1]]
                /\ sent' = [sent EXCEPT ![f] = r.w]

\* read: how many bytes it may deliver from position pos of a file; -1 for
\* an error
Delivered(pos, size) == -1 .. (IF MaxBytes - pos < size THEN MaxBytes - pos
                               ELSE size)
Possible(pos, size)  == {n \in Delivered(pos, size) : n # 0 \/ pos = MaxBytes}

\* the bytes of the file that have left the kernel
Pos(f) == Len(got[f]) + (IF fp[f].cnt > 0 THEN fp[f].cnt ELSE 0)

\* a buffer after a read of n bytes into it
Filled(buf, pos, n) ==
    [i \in DOMAIN buf |-> IF i <= n THEN pos + i ELSE buf[i]]

\* _ffill: stdin flushes stdout before it reads
PromptFirst(f) ==
    IF f = stdin /\ fp[stdout].flags # {}
    THEN Flushed(fp[stdout], sent[stdout])
    ELSE {[s |-> fp[stdout], w |-> sent[stdout]]}

\* bound: nobody goes on reading a stream after it has said EOF
getc(f) ==
    LET s == [fp[f] EXCEPT !.cnt = @ - 1] IN
    /\ "READ" \in fp[f].flags /\ fp[f].cnt >= 0 /\ UNCHANGED put
    /\ \/ /\ s.cnt >= 0
          /\ fp' = [fp EXCEPT ![f] = [s EXCEPT !.next = @ + 1]]
          /\ got' = [got EXCEPT ![f] = Append(@, s.buf[s.next + 1])]
          /\ UNCHANGED sent
       \/ /\ s.cnt < 0
          /\ \E r \in PromptFirst(f) :
                /\ sent' = [sent EXCEPT ![stdout] = r.w]
                /\ \/ /\ Ended(s.flags)
                      /\ fp' = [fp EXCEPT ![stdout] = r.s, ![f] = s]
                      /\ UNCHANGED got
                   \/ \E n \in Possible(Pos(f), DEF_BUFSIZE) :
                      /\ ~ Ended(s.flags)
                      /\ fp' = [fp EXCEPT ![stdout] = r.s, ![f] =
                           [s EXCEPT !.cnt = IF n > 0 THEN n - 1 ELSE n,
                                     !.next = IF n > 0 THEN 1 ELSE 0,
                                     !.buf = Filled(@, Pos(f), n),
                                     !.flags = @ \cup IF n = -1 THEN {"ERR"}
                                               ELSE IF n = 0 THEN {"EOF"}
                                               ELSE {}]]
                      /\ got' = IF n > 0
                                THEN [got EXCEPT ![f] = Append(@, Pos(f) + 1)]
                                ELSE got

\* fread of single bytes: first what the buffer holds, then from the file.
\* memcpy has its arguments the wrong way round: the program's memory goes
\* into the buffer, and the program gets what was there before.
Copied(f, size) == IF fp[f].cnt < size THEN fp[f].cnt ELSE size
fread(f, size) ==
    LET copy == Copied(f, size)
        s    == [fp[f] EXCEPT !.cnt = @ - copy, !.next = @ + copy,
                              !.buf = [i \in DOMAIN @ |->
                                        IF i - fp[f].next \in 1..copy THEN Junk
                                        ELSE @[i]]]
        junk == [i \in 1..copy |-> Junk]
    IN
    /\ "READ" \in fp[f].flags /\ ~ Ended(fp[f].flags)
    /\ UNCHANGED <<put, sent>>
    /\ \/ /\ copy = size
          /\ fp' = [fp EXCEPT ![f] = s]
          /\ got' = [got EXCEPT ![f] = @ \o junk]
       \/ \E n \in Possible(Pos(f), size - copy) :
          /\ copy < size
          /\ fp' = [fp EXCEPT ![f] = [s EXCEPT !.flags = @ \cup
                        IF n = -1 THEN {"ERR"}
                        ELSE IF copy + n = 0 THEN {"EOF"} ELSE {}]]
          /\ got' = [got EXCEPT ![f] = @ \o junk
                        \o [i \in 1..n |-> Pos(f) + i]]

\* exit: _close_stdio closes what is open, one stream after the other
exit == exiting' = TRUE /\ UNCHANGED <<fp, put, sent, got>>

StdioNext ==
    \/ /\ ~ exiting
       /\ \/ exit
          \/ /\ UNCHANGED exiting
             /\ \E f \in Stream :
                \/ \E flags \in ModeFlags : fopen(f, flags)
                \/ fflush(f) \/ putc(f) \/ getc(f)
                \/ \E size \in 1..MaxRead : fread(f, size)
    \/ \E f \in Stream : fclose(f)

StdioSpec == StdioInit /\ [][StdioNext]_stdiovars
-----------------------------------------------------------------------------
\* Short of an error, what the kernel has of a stream and what the stream
\* still holds are together what the program has written, in its order:
\* through full buffers, flushes by stdin, and the close, which leaves
\* nothing behind.
Held(s) == SubSeq(s.buf, 1, s.next)
OutputInOrder ==
    \A f \in Stream :
        "READ" \in fp[f].flags \/ "ERR" \in fp[f].flags
            \/ sent[f] \o Held(fp[f]) = [i \in 1..put[f] |-> i]

\* Nothing that a program reads is skipped or read twice, whether it comes
\* through the buffer or around it; fread puts junk for what was buffered.
InputInOrder ==
    \A f \in Stream, i \in 1..MaxBytes :
        i <= Len(got[f]) => got[f][i] \in {i, Junk}

StreamsInOrder == OutputInOrder /\ InputInOrder
=============================================================================
