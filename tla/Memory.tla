------------------------------- MODULE Memory -------------------------------
(***************************************************************************)
(* The far heap and the DMA heap of kernel/MEMORY.C under every sequence   *)
(* of allocations and of frees of pointers that were handed out.  A call   *)
(* is one step here.  MEMORY.C has no lock, so that is an assumption on    *)
(* the callers: two tasks that allocate at once are outside the model.     *)
(* A call that returns NULL changes nothing.                               *)
(***************************************************************************)
EXTENDS ParaHeap

CONSTANTS FarBase, FarEnd,  \* ksegend and topseg
          DmaBase, DmaEnd,  \* DMA_START and dmaend
          Size              \* the sizes asked for, in bytes

ASSUME MemoryAssumption ==
    /\ FarBase \in Nat /\ FarEnd \in Nat /\ FarBase < FarEnd
    /\ DmaBase \in Nat /\ DmaEnd \in Nat /\ DmaBase < DmaEnd
    /\ FarEnd < 65536 /\ DmaEnd < 65536
    /\ Size \subseteq Nat /\ Nil \notin Nat

VARIABLES far, dma,         \* the two heaps
          farptr, dmaptr,   \* the pointers that their callers hold
          mem_panic

memvars == <<far, dma, farptr, dmaptr, mem_panic>>

MemInit ==
    /\ far = mem_init(FarBase, FarEnd)
    /\ dma = mem_init(DmaBase, DmaEnd)
    /\ farptr = {} /\ dmaptr = {} /\ mem_panic = ""

\* the pointer behind a header, and back
ToPointer(h) == h + 1
ToHeader(p)  == p - 1

\* the most bytes that can be asked for, and a count of 16 bits
KMALLOC_MAX == 1048560
DMA_MAX     == 65520
Uint16(n)   == n % 65536

kmalloc(size) ==
    LET sz == Uint16(ROUND_TO_PARA(size))
        h  == FirstFit(far, sz)
    IN
    /\ mem_panic = "" /\ size <= KMALLOC_MAX /\ Fits(far, sz) # {}
    /\ far' = Take(far, h, sz)
    /\ farptr' = farptr \cup {ToPointer(h)}
    /\ UNCHANGED <<dma, dmaptr, mem_panic>>

kfree(p) ==
    LET found == ToHeader(p) \in DOMAIN far IN
    /\ mem_panic = ""
    /\ far' = IF found THEN Give(far, ToHeader(p)) ELSE far
    /\ farptr' = farptr \ {p}
    /\ mem_panic' = IF found THEN "" ELSE "pointer is not an alloc'ed block"
    /\ UNCHANGED <<dma, dmaptr>>

mem_dma_alloc(size) ==
    LET sz == ROUND_TO_PARA(size)
        h  == FirstFit(dma, sz)
    IN
    /\ mem_panic = "" /\ size <= DMA_MAX /\ Fits(dma, sz) # {}
    /\ dma' = Take(dma, h, sz)
    /\ dmaptr' = dmaptr \cup {ToPointer(h)}
    /\ UNCHANGED <<far, farptr, mem_panic>>

mem_dma_free(p) ==
    LET found == ToHeader(p) \in DOMAIN dma IN
    /\ mem_panic = ""
    /\ dma' = IF found THEN Give(dma, ToHeader(p)) ELSE dma
    /\ dmaptr' = dmaptr \ {p}
    /\ mem_panic' = IF found THEN "" ELSE "pointer is not an alloc'ed block"
    /\ UNCHANGED <<far, farptr>>

MemNext ==
    \/ \E size \in Size : kmalloc(size) \/ mem_dma_alloc(size)
    \/ \E p \in farptr : kfree(p)
    \/ \E p \in dmaptr : mem_dma_free(p)

MemSpec == MemInit /\ [][MemNext]_memvars
-----------------------------------------------------------------------------
\* The blocks of a heap lie one behind the other and fill it, and no two
\* neighbours are both free: no cut and no merge loses a paragraph or lets
\* two blocks share one, and freeing everything gives back one block,
\* whatever the order.
Tiles(H, end) ==
    \A h \in DOMAIN H :
        /\ h + H[h].para < end
        /\ H[h].next = IF h + H[h].para + 1 = end THEN Nil
                       ELSE h + H[h].para + 1
        /\ H[h].next # Nil => H[h].next \in DOMAIN H
Merged(H) == \A h \in DOMAIN H : ~ (IsFree(H, h) /\ IsFree(H, H[h].next))
HeapsAreTiled ==
    Tiles(far, FarEnd) /\ Tiles(dma, DmaEnd) /\ Merged(far) /\ Merged(dma)

\* Both heaps are allocators: whatever came before, kmalloc(size) hands out
\* a region that holds the size of this very call, and that has nothing in
\* common with any other that is out; and kfree takes back the region of its
\* pointer and no other.
Regions(H, ptr) == {[start |-> p, len |-> H[ToHeader(p)].para] : p \in ptr}
FarRegions == Regions(far, farptr)
DmaRegions == Regions(dma, dmaptr)
FarAllocator == INSTANCE Allocator WITH Base <- FarBase, End <- FarEnd,
                                        Para <- PARASIZE, live <- FarRegions
DmaAllocator == INSTANCE Allocator WITH Base <- DmaBase, End <- DmaEnd,
                                        Para <- PARASIZE, live <- DmaRegions
ImplementsAllocator ==
    /\ FarAllocator!Init /\ DmaAllocator!Init
    /\ [][\/ UNCHANGED far
          \/ /\ \A size \in Size : kmalloc(size) => FarAllocator!Allocate(size)
             /\ \A p \in farptr : kfree(p) => FarAllocator!Release(p)
             /\ FarAllocator!Next]_<<far, farptr>>
    /\ [][\/ UNCHANGED dma
          \/ /\ \A size \in Size :
                    mem_dma_alloc(size) => DmaAllocator!Allocate(size)
             /\ \A p \in dmaptr : mem_dma_free(p) => DmaAllocator!Release(p)
             /\ DmaAllocator!Next]_<<dma, dmaptr>>
=============================================================================
