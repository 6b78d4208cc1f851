------------------------------ MODULE UserHeap ------------------------------
(***************************************************************************)
(* The heap of a user program: malloc, free and realloc of                 *)
(* clib/lib/malloc.c over the one block that clib/crt0/start.asm sets up.  *)
(*                                                                         *)
(* ublk maps the address of every header of the ring to that header.       *)
(* malloc decides to cut a block without asking whether the rest can hold  *)
(* a header.  When it cannot, the new header lies over the next one, or    *)
(* behind the heap, with a size that has wrapped.  realloc links the block *)
(* that is left of a free one it has grown into to that block's own old    *)
(* header, which now lies in the program's data, or to itself.  torn says  *)
(* that one of the two has happened, and in which call; the model stops.   *)
(***************************************************************************)
EXTENDS Integers

CONSTANTS HeapBase,     \* where start.asm puts the first header
          HeapBytes,    \* the bytes behind that header
          Request       \* the sizes asked for; 65535 would be rounded to 0

ASSUME UserHeapAssumption ==
    /\ HeapBase \in Nat /\ HeapBytes \in Nat /\ HeapBytes % 2 = 0
    /\ HeapBase + HeapBytes < 65536
    /\ Request \subseteq Nat /\ \A asked \in Request : asked < 65535

HBHDR == 4          \* sizeof(hbhdr_t): two words

VARIABLES ublk,     \* the headers: [next, bytes, used]
          uptr,     \* the blocks the program holds: [at, asked]
          torn      \* "", or the call that has torn the ring

heapvars == <<ublk, uptr, torn>>

UHeader(next, bytes, used) == [next |-> next, bytes |-> bytes, used |-> used]

\* start.asm: one free block, its own successor
HeapInit == /\ ublk = [x \in {HeapBase} |-> UHeader(HeapBase, HeapBytes, FALSE)]
            /\ uptr = {} /\ torn = ""

Even(bytes) == ((bytes + 1) \div 2) * 2
Pub(h)      == h + HBHDR            \* the pointer behind a header

\* the ring starts at HeapBase and goes up: the first fit is the lowest
Roomy(B, bytes)    == {h \in DOMAIN B : ~ B[h].used /\ B[h].bytes >= bytes}
FirstRoom(B, bytes) ==
    CHOOSE h \in Roomy(B, bytes) : \A g \in Roomy(B, bytes) : h <= g

\* is a block that was found worth cutting?  what would be left of it?
Splits(B, h)      == B[h].bytes >= 2 * HBHDR
Left(B, h, bytes) == B[h].bytes - bytes - HBHDR
Tears(B, h, bytes) == Splits(B, h) /\ Left(B, h, bytes) < 0

\* block h keeps bytes, and a free block takes the rest up to header next
Cut(B, h, bytes, rest, next) ==
    LET n == Pub(h) + bytes IN
    [x \in DOMAIN B \cup {n} |->
        IF x = h THEN UHeader(n, bytes, TRUE)
        ELSE IF x = n THEN UHeader(next, rest, FALSE)
        ELSE B[x]]

Mark(B, h, used) == [B EXCEPT ![h].used = used]

\* malloc has chosen h
Taken(B, h, bytes) ==
    IF Splits(B, h) THEN Cut(B, h, bytes, Left(B, h, bytes), B[h].next)
    ELSE Mark(B, h, TRUE)

\* fault: blocks are merged across the end of the ring
Behind_ring(h, n) == h # n

\* n is the successor of h: does it lie behind it?
Behind(h, n) == h < n

\* block h swallows its successor
Swallow(B, h) ==
    LET n == B[h].next IN
    [x \in DOMAIN B \ {n} |->
        IF x = h THEN UHeader(B[n].next, B[h].bytes + HBHDR + B[n].bytes,
                              B[h].used)
        ELSE B[x]]

\* block h goes back, merged with what is free before and behind it
Given(B, h) ==
    LET p    == CHOOSE x \in DOMAIN B : B[x].next = h
        F    == Mark(B, h, FALSE)
        back == Behind(p, h) /\ ~ F[p].used
        G    == IF back THEN Swallow(F, p) ELSE F
        c    == IF back THEN p ELSE h
    IN  IF Behind(c, G[c].next) /\ ~ G[G[c].next].used THEN Swallow(G, c)
        ELSE G

\* a block that keeps its place is cut down when that is worth it ...
Shrunk(B, h, bytes) ==
    IF B[h].bytes - bytes >= 2 * HBHDR
    THEN Cut(B, h, bytes, Left(B, h, bytes), B[h].next) ELSE B

\* ... or takes the free block behind it, and gives back what it can spare
Spare(B, h, bytes) == B[h].bytes + HBHDR + B[B[h].next].bytes - bytes
Grows(B, h, bytes) ==
    LET n == B[h].next IN
    Behind(h, n) /\ ~ B[n].used /\ Spare(B, h, bytes) >= 0
GivesBack(B, h, bytes) == Spare(B, h, bytes) > 2 * HBHDR

\* The header of the rest gets curr->next for its successor, which is still
\* the block that was swallowed, and not that block's successor.
Grown(B, h, bytes) ==
    IF GivesBack(B, h, bytes)
    THEN Cut([x \in DOMAIN B \ {B[h].next} |-> B[x]], h, bytes,
             Spare(B, h, bytes) - HBHDR, B[h].next)
    ELSE Swallow(B, h)

malloc(asked) ==
    LET h == FirstRoom(ublk, Even(asked)) IN
    /\ torn = "" /\ Roomy(ublk, Even(asked)) # {}
    /\ IF Tears(ublk, h, Even(asked)) THEN torn' = "malloc" /\ UNCHANGED ublk
       ELSE ublk' = Taken(ublk, h, Even(asked)) /\ UNCHANGED torn
    /\ uptr' = uptr \cup {[at |-> Pub(h), asked |-> asked]}

free(u) == /\ torn = ""
           /\ ublk' = Given(ublk, u.at - HBHDR)
           /\ uptr' = uptr \ {u}
           /\ UNCHANGED torn

\* realloc of a block to a size that is not 0, where it lies
resize(u, asked) ==
    LET h == u.at - HBHDR
        bytes == Even(asked)
    IN
    /\ torn = "" /\ asked # 0
    /\ \/ /\ bytes < ublk[h].bytes
          /\ ublk' = Shrunk(ublk, h, bytes) /\ UNCHANGED torn
       \/ /\ bytes >= ublk[h].bytes /\ Grows(ublk, h, bytes)
          /\ ublk' = Grown(ublk, h, bytes)
          /\ torn' = IF GivesBack(ublk, h, bytes) THEN "realloc" ELSE ""
    /\ uptr' = (uptr \ {u}) \cup {[at |-> u.at, asked |-> asked]}

\* realloc of a block that has to move: malloc, memcpy, and free of the old
\* one, which is kept when malloc fails
move(u, asked) ==
    LET h == u.at - HBHDR
        bytes == Even(asked)
        g == FirstRoom(ublk, bytes)
    IN
    /\ torn = "" /\ asked # 0
    /\ bytes >= ublk[h].bytes /\ ~ Grows(ublk, h, bytes)
    /\ Roomy(ublk, bytes) # {}
    /\ IF Tears(ublk, g, bytes) THEN torn' = "malloc" /\ UNCHANGED ublk
       ELSE ublk' = Given(Taken(ublk, g, bytes), h) /\ UNCHANGED torn
    /\ uptr' = (uptr \ {u}) \cup {[at |-> Pub(g), asked |-> asked]}

HeapNext == \/ \E asked \in Request : malloc(asked)
            \/ \E u \in uptr : free(u)
            \/ \E u \in uptr, asked \in Request : resize(u, asked)
            \/ \E u \in uptr, asked \in Request : move(u, asked)
            \/ torn # "" /\ UNCHANGED heapvars

HeapSpec == HeapInit /\ [][HeapNext]_heapvars
-----------------------------------------------------------------------------
\* Until a call tears the ring, the blocks lie one behind the other and fill
\* the heap, and what the program holds is exactly the blocks in use, each
\* at least as long as was asked for: through every cut of malloc, every
\* merge, every realloc that shrinks or takes all of the next block, and
\* every move.
UserHeapTiled ==
    \/ torn # ""
    \/      /\ \A h \in DOMAIN ublk :
                LET end == Pub(h) + ublk[h].bytes IN
                ublk[h].next = IF end = Pub(HeapBase) + HeapBytes
                               THEN HeapBase ELSE end
            /\ {u.at : u \in uptr} = {Pub(h) : h \in {x \in DOMAIN ublk :
                                                        ublk[x].used}}
            /\ \A u \in uptr : ublk[u.at - HBHDR].bytes >= u.asked

\* "if the block is big enough to be worth it, split it and make a free
\* block out of what's left": what is left can hold its header.
CutsHoldHeader == torn # "malloc"

\* "if there's a free block after, we might be able to just expand": the
\* ring still runs through the blocks of the heap and nothing else, each
\* behind one other.
RingHoldsTogether == {ublk[h].next : h \in DOMAIN ublk} = DOMAIN ublk
=============================================================================
