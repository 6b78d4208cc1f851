------------------------------ MODULE NearHeap ------------------------------
(***************************************************************************)
(* The near heap of kernel/MEMORY.C: near_malloc and near_free, which give *)
(* the kernel its small objects and the kernel tasks their stacks.         *)
(*                                                                         *)
(* hdr is the memory of the heap, as far as headers were ever written to   *)
(* it: a header that was merged away stays in memory.  That matters, since *)
(* near_malloc does not set the next of a header nx that it cuts off:      *)
(* nx->next is the word that lies there.  The model takes it to be zero,   *)
(* as in memory never used, or what an earlier header at that place has    *)
(* left; a caller can have left any other.  A call is one step, as in      *)
(* Memory.                                                                 *)
(***************************************************************************)
EXTENDS Naturals

CONSTANTS HeapSize,     \* NEAR_HEAP_SIZE, and the bound of the model: it
                        \* stops when a block runs past the end of the heap
          Size,         \* the sizes asked for; rounded up, multiples of HDR, so
                        \* that no two headers overlap in part
          NULL

HDR == 4            \* sizeof(nearhdr_t)

RoundUp(size) == ((size + 1) \div 2) * 2

VARIABLES hdr,      \* the header at an address: [next, size, used]
          live,     \* the blocks that callers hold: [at, size]
          panic

vars == <<hdr, live, panic>>

Header(next, size, used) == [next |-> next, size |-> size, used |-> used]

\* mem_init: NHDR_FIRST() is at address 0
Init == /\ hdr = [x \in {0} |-> Header(NULL, HeapSize - HDR, FALSE)]
        /\ live = {} /\ panic = ""

\* the list: the header that a walk from NHDR_FIRST() comes to at step i
Step == 0 .. HeapSize \div HDR
Walk[i \in Step] ==
    IF i = 0 THEN 0
    ELSE IF Walk[i-1] = NULL THEN NULL ELSE hdr[Walk[i-1]].next

Fits(x, size) == x # NULL /\ ~ hdr[x].used /\ hdr[x].size >= size

\* the first fit of the list
FirstFit(p, size) ==
    \E i \in Step : /\ Walk[i] = p /\ Fits(p, size)
                    /\ \A j \in 0..(i-1) : ~ Fits(Walk[j], size)

\* what nx->next may be
Words(nx) == {NULL} \cup {hdr[x].next : x \in DOMAIN hdr \cap {nx}}

Cuts(left) == left > 2 * HDR
Rest(left) == left - HDR

InBounds == \A x \in DOMAIN hdr : x + HDR + hdr[x].size <= HeapSize
Running  == panic = "" /\ InBounds

near_malloc(bytes) ==
    LET size == RoundUp(bytes) IN
    /\ Running
    /\ \E p \in DOMAIN hdr :
        LET nx   == p + HDR + size
            left == hdr[p].size - size
        IN
        /\ FirstFit(p, size)
        /\ \/ /\ Cuts(left)
              /\ \E word \in Words(nx) :
                    hdr' = [x \in DOMAIN hdr \cup {nx} |->
                              IF x = p THEN Header(nx, size, TRUE)
                              ELSE IF x = nx
                                   THEN Header(word, Rest(left), FALSE)
                              ELSE hdr[x]]
           \/ ~ Cuts(left) /\ hdr' = [hdr EXCEPT ![p].used = TRUE]
        /\ live' = live \cup {[at |-> p, size |-> size]}
    /\ UNCHANGED panic

\* header h swallows the one behind it, which stays in memory as it is
Merge(H, h) ==
    LET n == H[h].next IN
    [H EXCEPT ![h] = Header(H[n].next, @.size + HDR + H[n].size, @.used)]

\* header c goes back; p is the one the search has passed before it
Give(p, c) ==
    LET back == p # NULL /\ ~ hdr[p].used
        A == IF back THEN Merge(hdr, p) ELSE hdr
        h == IF back THEN p ELSE c
        B == IF A[h].next # NULL /\ ~ A[A[h].next].used THEN Merge(A, h)
             ELSE A
    IN  [B EXCEPT ![h].used = FALSE]

near_free(b) ==
    /\ Running /\ live' = live \ {b}
    /\ \/ /\ \A i \in Step : Walk[i] # b.at
          /\ panic' = "near_free: pointer is not an alloc'ed block"
          /\ UNCHANGED hdr
       \/ \E i \in Step :
            /\ Walk[i] = b.at /\ \A j \in 0..(i-1) : Walk[j] # b.at
            /\ hdr' = Give(IF i = 0 THEN NULL ELSE Walk[i-1], b.at)
            /\ UNCHANGED panic

Stopped == ~ Running /\ UNCHANGED vars

Next == \/ \E size \in Size : near_malloc(size)
        \/ \E b \in live : near_free(b)
        \/ Stopped

Spec == Init /\ [][Next]_vars
-----------------------------------------------------------------------------
\* "pointer is not an alloc'ed block": near_free says so of such pointers
\* only, and finds every block that it has handed out.
FreeFindsBlock == panic = ""
=============================================================================
