------------------------------ MODULE Console -------------------------------
(***************************************************************************)
(* The keyboard of the console, kernel/console/CONSOLE.C: the interrupt    *)
(* that queues scancodes, the decoder that makes characters of them in the *)
(* task that reads, and con_read.                                          *)
(*                                                                         *)
(* Few keys stand for the keyboard: a letter, the 8 of the keypad, the     *)
(* arrow that sends the same code behind a prefix, shift, the number lock, *)
(* and F1, which enters the debugger.  The session with the debugger       *)
(* itself is left out.                                                     *)
(***************************************************************************)
EXTENDS Naturals, Sequences, FiniteSets, SequencesExt

CONSTANTS
    Reader,     \* the tasks that read the console
    MAXQ,       \* the size of both rings: 32
    ConSizes,   \* the sizes of reads
    MaxTyped,   \* bound: characters typed and not read yet
    MaxDown,    \* bound: keys held down at once
    Keys        \* the keys in use

ASSUME ConsoleAssumption ==
    /\ Keys \subseteq {"a", "kp8", "up", "shift", "num", "f1"}
    /\ MAXQ \in Nat \ {0, 1} /\ {MaxTyped, MaxDown} \subseteq Nat
    /\ ConSizes \subseteq Nat \ {0}

VARIABLES
    scqueue,    \* the scancodes from qhead to qtail; cli protects them
    kq,         \* [head, tail, buf]: kqhead, kqtail, keyqueue; nothing does
    prefix,     \* the code before was SC_EXT_PREFIX
    meta,
    con_readers,
    rd,         \* of each reader: where it is and what it holds
    down, locked,   \* the keys that are held down, and the lock is on
    sending,    \* the scancodes that the keyboard has ready
    typed,      \* the characters typed and not read
    spoiled     \* a code was lost, or the rings were reset under a reader
                \* or with a shift key in them

convars == <<scqueue, kq, prefix, meta, con_readers, rd, down, locked, sending,
             typed, spoiled>>
kbdvars == <<down, locked, sending>>

\* where there is no key or no character
NoKey == "none"

con_init ==
    /\ scqueue = <<>> /\ prefix = FALSE /\ meta = {} /\ con_readers = <<>>
    /\ kq = [head |-> 0, tail |-> 0, buf |-> [i \in 0 .. MAXQ - 1 |-> NoKey]]
    /\ rd = [t \in Reader |-> [at |-> "out", size |-> 0, i |-> 0, by |-> NoKey,
                               sc |-> [key |-> NoKey, up |-> FALSE]]]
    /\ down = {} /\ locked = FALSE /\ sending = <<>>
    /\ typed = <<>> /\ spoiled = FALSE
-----------------------------------------------------------------------------
(* The keyboard                                                            *)

\* one code, or a prefix and a code
Codes(k, up) ==
    IF k = "up"
    THEN <<[key |-> "E0", up |-> FALSE], [key |-> "kp8", up |-> up]>>
    ELSE <<[key |-> k, up |-> up]>>

\* what the user expects to read
Means(k) == CASE k = "a" -> IF "shift" \in down THEN <<"A">> ELSE <<"a">>
              [] k = "kp8" -> IF locked THEN <<"8">> ELSE <<"UP">>
              [] k = "up" -> <<"UP">>
              [] OTHER -> <<>>

Press(k) ==
    /\ sending = <<>> /\ k \notin down /\ Cardinality(down) < MaxDown
    /\ Len(typed) + Len(Means(k)) <= MaxTyped
    /\ down' = down \cup {k} /\ sending' = Codes(k, FALSE)
    /\ locked' = IF k = "num" THEN ~ locked ELSE locked
    /\ typed' = typed \o Means(k)
    /\ UNCHANGED <<scqueue, kq, prefix, meta, con_readers, rd, spoiled>>

Release(k) ==
    /\ sending = <<>> /\ k \in down
    /\ down' = down \ {k} /\ sending' = Codes(k, TRUE)
    /\ UNCHANGED <<scqueue, kq, prefix, meta, con_readers, rd, locked, typed,
                   spoiled>>
-----------------------------------------------------------------------------
(* The interrupt                                                           *)

IsDebug(sc) == sc = [key |-> "f1", up |-> FALSE]

\* task_unblock of each
ConAwakened == [t \in Reader |-> IF t \in Range(con_readers)
                                 THEN [rd[t] EXCEPT !.at = "scan"] ELSE rd[t]]

\* fault: the release of a key wakes nobody
kbd_wakes_press(codes) == ~ Last(codes).up

kbd_wakes(codes) == codes # <<>>

\* n codes are ready and all are queued: the readers are woken
kbd_intr_queues(n) ==
    LET codes == SubSeq(sending, 1, n) IN
    /\ Len(scqueue) + n < MAXQ /\ \A i \in 1 .. n : ~ IsDebug(codes[i])
    /\ scqueue' = scqueue \o codes
    /\ sending' = SubSeq(sending, n + 1, Len(sending))
    /\ IF kbd_wakes(codes) THEN con_readers' = <<>> /\ rd' = ConAwakened
       ELSE UNCHANGED <<con_readers, rd>>
    /\ UNCHANGED <<kq, prefix, meta, down, locked, typed, spoiled>>

\* the i-th code that is ready finds the ring full: it is lost, and nobody
\* is woken for those before it
kbd_intr_full(i) ==
    /\ Len(scqueue) + i = MAXQ /\ \A j \in 1 .. i : ~ IsDebug(sending[j])
    /\ scqueue' = scqueue \o SubSeq(sending, 1, i - 1)
    /\ sending' = SubSeq(sending, i + 1, Len(sending))
    /\ spoiled' = TRUE
    /\ UNCHANGED <<kq, prefix, meta, con_readers, rd, down, locked, typed>>

\* F1: both rings are emptied before the debugger is entered
kbd_intr_debug ==
    /\ IsDebug(Head(sending))
    /\ sending' = Tail(sending)
    /\ scqueue' = <<>> /\ kq' = [kq EXCEPT !.head = 0, !.tail = 0]
    /\ typed' = <<>>
    /\ spoiled' = (\/ prefix
                   \/ \E sc \in Range(scqueue) : sc.key \in {"shift", "num"}
                   \/ \E t \in Reader :
                        rd[t].at \in {"descan", "store", "stored", "taken"})
    /\ UNCHANGED <<prefix, meta, con_readers, rd, down, locked>>

kbd_intr ==
    /\ sending # <<>>
    /\ \/ \E n \in 1 .. Len(sending) : kbd_intr_queues(n) \/ kbd_intr_full(n)
       \/ kbd_intr_debug
-----------------------------------------------------------------------------
(* Reading                                                                 *)

At(t, place) == rd' = [rd EXCEPT ![t].at = place]

con_read(t) ==
    /\ rd[t].at = "out"
    /\ \E n \in ConSizes : rd' = [rd EXCEPT ![t].at = "scan", ![t].size = n]
    /\ UNCHANGED <<scqueue, kq, prefix, meta, con_readers, kbdvars, typed,
                   spoiled>>

\* a scancode leaves its ring, with interrupts off; or there is none
con_descan_all(t) ==
    /\ rd[t].at = "scan"
    /\ IF scqueue = <<>> THEN At(t, "check") /\ UNCHANGED scqueue
       ELSE /\ rd' = [rd EXCEPT ![t].at = "descan", ![t].sc = Head(scqueue)]
            /\ scqueue' = Tail(scqueue)
    /\ UNCHANGED <<kq, prefix, meta, con_readers, kbdvars, typed, spoiled>>

KeyQueueFull == (kq.tail + 1) % MAXQ = kq.head

\* shift flags: a lock is toggled when its key is pressed, a shift key is
\* held
NewMeta(sc) ==
    IF sc.key = "num"
    THEN IF sc.up THEN meta ELSE (meta \ {"num"}) \cup ({"num"} \ meta)
    ELSE IF sc.up THEN meta \ {sc.key} ELSE meta \cup {sc.key}

\* the character of a code, if it has one
Key(sc, ext) ==
    IF sc.up THEN NoKey
    ELSE CASE sc.key = "a" ->
                IF ext THEN NoKey ELSE IF "shift" \in meta THEN "A" ELSE "a"
           [] sc.key = "kp8" -> IF ~ ext /\ "num" \in meta THEN "8" ELSE "UP"
           [] OTHER -> NoKey

\* fault: the prefix is forgotten with a press only
PrefixAfter_press(sc) == prefix /\ sc.up

PrefixAfter(sc) == FALSE

\* a full ring drops any code, a prefix or a release as well
con_descan(t) ==
    LET sc == rd[t].sc
        key == Key(sc, prefix)
    IN
    /\ rd[t].at = "descan"
    /\ IF KeyQueueFull
       THEN At(t, "scan") /\ spoiled' = TRUE /\ UNCHANGED <<prefix, meta>>
       ELSE /\ prefix' = IF sc.key = "E0" THEN TRUE ELSE PrefixAfter(sc)
            /\ meta' = IF sc.key \in {"shift", "num"} /\ ~ prefix
                       THEN NewMeta(sc) ELSE meta
            /\ rd' = [rd EXCEPT ![t].at = IF key = NoKey THEN "scan" ELSE "store",
                                ![t].by = key]
            /\ UNCHANGED spoiled
    /\ UNCHANGED <<scqueue, kq, con_readers, kbdvars, typed>>

\* keyqueue[kqtail] = key
con_descan_stores(t) ==
    /\ rd[t].at = "store"
    /\ kq' = [kq EXCEPT !.buf[kq.tail] = rd[t].by]
    /\ rd' = [rd EXCEPT ![t].at = "stored", ![t].by = NoKey, ![t].i = kq.tail]
    /\ UNCHANGED <<scqueue, prefix, meta, con_readers, kbdvars, typed, spoiled>>

\* kqtail = (kqtail + 1) % MAXQ
con_descan_stored(t) ==
    /\ rd[t].at = "stored"
    /\ kq' = [kq EXCEPT !.tail = (rd[t].i + 1) % MAXQ]
    /\ rd' = [rd EXCEPT ![t].at = "scan", ![t].i = 0]
    /\ UNCHANGED <<scqueue, prefix, meta, con_readers, kbdvars, typed, spoiled>>

\* is there a character?
con_read_checks(t) ==
    /\ rd[t].at = "check"
    /\ At(t, IF kq.head # kq.tail THEN "take" ELSE "empty")
    /\ UNCHANGED <<scqueue, kq, prefix, meta, con_readers, kbdvars, typed,
                   spoiled>>

\* task_block
con_read_blocks(t) ==
    /\ rd[t].at = "empty" /\ At(t, "blocked")
    /\ con_readers' = Append(con_readers, t)
    /\ UNCHANGED <<scqueue, kq, prefix, meta, kbdvars, typed, spoiled>>

\* by = keyqueue[kqhead], if there is one and the buffer has room
con_read_takes(t) ==
    /\ rd[t].at = "take"
    /\ IF kq.head = kq.tail \/ rd[t].size = 0
       THEN rd' = [rd EXCEPT ![t].at = "out", ![t].size = 0]
       ELSE rd' = [rd EXCEPT ![t].at = "taken", ![t].size = @ - 1,
                             ![t].by = kq.buf[kq.head], ![t].i = kq.head]
    /\ UNCHANGED <<scqueue, kq, prefix, meta, con_readers, kbdvars, typed,
                   spoiled>>

\* kqhead = (kqhead + 1) % MAXQ
con_read_taken(t) ==
    /\ rd[t].at = "taken"
    /\ kq' = [kq EXCEPT !.head = (rd[t].i + 1) % MAXQ]
    /\ rd' = [rd EXCEPT ![t].at = "take", ![t].by = NoKey, ![t].i = 0]
    /\ typed' = IF typed = <<>> THEN typed ELSE Tail(typed)
    /\ UNCHANGED <<scqueue, prefix, meta, con_readers, kbdvars, spoiled>>
-----------------------------------------------------------------------------
ConReads(t) ==
    \/ con_descan_all(t) \/ con_descan(t)
    \/ con_descan_stores(t) \/ con_descan_stored(t)
    \/ con_read_checks(t) \/ con_read_blocks(t)
    \/ con_read_takes(t) \/ con_read_taken(t)

Strikes == \E k \in Keys : Press(k) \/ Release(k)

\* What a reader gets after a code was lost is not followed.
ConNext == /\ ~ spoiled
           /\ \/ Strikes \/ kbd_intr
              \/ \E t \in Reader : con_read(t) \/ ConReads(t)

ConSpec == con_init /\ [][ConNext]_convars
-----------------------------------------------------------------------------
Buffered == [i \in 1 .. (kq.tail + MAXQ - kq.head) % MAXQ |->
                kq.buf[(kq.head + i - 1) % MAXQ]]

\* no scancode is on its way to the ring of characters
AllDecoded == /\ scqueue = <<>> /\ sending = <<>>
              /\ \A t \in Reader : rd[t].at \notin {"descan", "store", "stored"}

\* What is read is what was typed, in order and with the shift keys of that
\* moment, however the interrupt and the reader interleave: as long as no
\* ring was full and no reader was between two steps when F1 came.
KeysInOrder ==
    ~ spoiled => /\ IsPrefix(Buffered, typed)
                 /\ AllDecoded => Buffered = typed
                 /\ \A t \in Reader : rd[t].at = "taken" => <<rd[t].by>> =
                                        SubSeq(typed, 1, 1)

\* A task that waits for a key is woken by what is typed, unless the ring is
\* full.
ConReaderWakes == \A t \in Reader : rd[t].at = "blocked" ~>
                    rd[t].at # "blocked" \/ spoiled \/ Len(scqueue) = MAXQ - 1
=============================================================================
