------------------------------ MODULE ParaHeap ------------------------------
(***************************************************************************)
(* A heap of paragraphs, as kernel/MEMORY.C keeps two of: the far heap     *)
(* (kmalloc, kfree) and the DMA heap (mem_dma_alloc, mem_dma_free).  Each  *)
(* block is a header of one paragraph and the paragraphs behind it; the    *)
(* headers are linked in the order of their addresses.                     *)
(*                                                                         *)
(* A heap H maps the address of every header of the list to that header.   *)
(* The operators are the routines of MEMORY.C as functions from a heap to  *)
(* the next; addresses count paragraphs, in the DMA heap too.              *)
(***************************************************************************)
EXTENDS Naturals

CONSTANT Nil        \* the next of the last header: 0, or DMANULL

Header(next, para, used) == [next |-> next, para |-> para, used |-> used]

\* ROUND_TO_PARA: the paragraphs that hold size bytes
PARASIZE == 16
ROUND_TO_PARA(size) == (size + PARASIZE - 1) \div PARASIZE

\* mem_init: one free block behind the header at base, up to end
mem_init(base, end) == [h \in {base} |-> Header(Nil, end - base - 1, FALSE)]

\* fault: the search does not look at the size of a block
Fits_any(H, sz) == {h \in DOMAIN H : ~ H[h].used}

\* the free blocks that can hold sz paragraphs; the search takes the first
Fits(H, sz) == {h \in DOMAIN H : ~ H[h].used /\ H[h].para >= sz}
FirstFit(H, sz) == CHOOSE h \in Fits(H, sz) : \A g \in Fits(H, sz) : h <= g

\* a block of para paragraphs is cut when something is left behind the
\* header of the rest
Cuts(para, sz)   == para > sz + 1
Rest(para, sz)   == para - 1 - sz
NewHeader(h, sz) == h + sz + 1

\* the search's result h is marked, and cut to sz paragraphs
Take(H, h, sz) ==
    LET n == NewHeader(h, sz) IN
    IF Cuts(H[h].para, sz)
    THEN [x \in DOMAIN H \cup {n} |->
            IF x = h THEN Header(n, sz, TRUE)
            ELSE IF x = n THEN Header(H[h].next, Rest(H[h].para, sz), FALSE)
            ELSE H[x]]
    ELSE [H EXCEPT ![h] = Header(H[h].next, H[h].para, TRUE)]

\* block h swallows its successor
Merge(H, h) ==
    LET n == H[h].next IN
    [x \in DOMAIN H \ {n} |->
        IF x = h THEN Header(H[n].next, H[h].para + 1 + H[n].para, H[h].used)
        ELSE H[x]]

\* the header that the search for h has passed last; Nil if h is the first
Prev(H, h) == IF \E p \in DOMAIN H : H[p].next = h
              THEN CHOOSE p \in DOMAIN H : H[p].next = h
              ELSE Nil

IsFree(H, h) == h # Nil /\ ~ H[h].used

\* fault: the block before is not looked at
Give_forward(H, h) ==
    LET A == IF IsFree(H, H[h].next) THEN Merge(H, h) ELSE H
    IN  [A EXCEPT ![h] = Header(A[h].next, A[h].para, FALSE)]

\* h goes back, merged with the free blocks before and behind it
Give(H, h) ==
    LET p == Prev(H, h)
        A == IF IsFree(H, p) THEN Merge(H, p) ELSE H
        c == IF IsFree(H, p) THEN p ELSE h
        B == IF IsFree(A, A[c].next) THEN Merge(A, c) ELSE A
    IN  [B EXCEPT ![c] = Header(B[c].next, B[c].para, FALSE)]
=============================================================================
