--------------------------- MODULE Memory_proofs ----------------------------
(***************************************************************************)
(* The heaps.  The far heap and the DMA heap of MEMORY.C stay tiled by     *)
(* their blocks, and implement an allocator, for heaps of any size and     *)
(* requests of any size, whatever the order in which blocks are asked for  *)
(* and given back.  So does the heap of a user program (malloc.c), until a *)
(* header is torn.  And the streams of a program skip nothing and reorder  *)
(* nothing, for buffers of any size.                                       *)
(***************************************************************************)
EXTENDS Memory, UserHeap, Stdio, SequenceTheorems, WellFoundedInduction,
        TLAPS

\* A heap from base to end.  Beyond Tiles and Merged: no header lies inside
\* a block, and every header but the first is the next of another.
HeaderRecord == [next : Nat \cup {Nil}, para : Nat, used : BOOLEAN]
HeapTypeOK(H, base, end) ==
    /\ DOMAIN H \subseteq Nat /\ base \in DOMAIN H
    /\ H \in [DOMAIN H -> HeaderRecord]
    /\ \A h \in DOMAIN H : base <= h
Apart(H) == \A h, g \in DOMAIN H : h < g => h + H[h].para < g
Linked(H, base) == \A g \in DOMAIN H : g # base => \E h \in DOMAIN H : H[h].next = g
Heap(H, base, end) ==
    /\ HeapTypeOK(H, base, end) /\ Apart(H) /\ Linked(H, base)
    /\ Tiles(H, end) /\ Merged(H)

\* A set of naturals that is not empty has a least element.
LEMMA LeastHeader ==
    ASSUME NEW D, D \subseteq Nat, D # {}
    PROVE  \E m \in D : \A k \in D : m <= k
<1> DEFINE R == OpToRel(<, Nat)
<1>1. IsWellFoundedOn(R, Nat)
  BY NatLessThanWellFounded
<1>2. \A i, j \in Nat : i < j => <<i, j>> \in R
  BY DEF OpToRel
<1> HIDE DEF R
<1>3. PICK x \in D : \A y \in D : ~ (<<y, x>> \in R)
  BY <1>1, WFMin
<1>4. \A y \in D : ~ (y < x)
  BY <1>2, <1>3
<1> QED
  BY <1>4

\* mem_init makes a heap of one free block.
LEMMA InitIsHeap ==
    ASSUME NEW base \in Nat, NEW end \in Nat, base < end, Nil \notin Nat
    PROVE  Heap(mem_init(base, end), base, end)
BY DEF Heap, HeapTypeOK, HeaderRecord, Apart, Linked, Tiles, Merged, IsFree,
   mem_init, Header

\* The search finds a free block that is large enough, if there is one.
LEMMA FirstFitFits ==
    ASSUME NEW H, DOMAIN H \subseteq Nat, NEW sz, Fits(H, sz) # {}
    PROVE  FirstFit(H, sz) \in Fits(H, sz)
<1>1. Fits(H, sz) \subseteq Nat
  BY DEF Fits
<1>2. \E h \in Fits(H, sz) : \A g \in Fits(H, sz) : h <= g
  BY <1>1, LeastHeader
<1> QED
  BY <1>2 DEF FirstFit

-----------------------------------------------------------------------------
(* Taking a block.                                                         *)

\* What the parts of Heap say of one header, or of two.
LEMMA HeapFacts ==
    ASSUME NEW H, NEW base \in Nat, NEW end \in Nat, Nil \notin Nat,
           HeapTypeOK(H, base, end), Apart(H), Linked(H, base), Tiles(H, end),
           NEW h \in DOMAIN H
    PROVE  /\ h \in Nat /\ base <= h /\ H[h].para \in Nat /\ H[h].used \in BOOLEAN
           /\ H[h].next \in Nat \cup {Nil} /\ h + H[h].para < end
           /\ H[h].next # Nil => /\ H[h].next = h + H[h].para + 1
                                 /\ H[h].next \in DOMAIN H
           /\ H[h].next = Nil => h + H[h].para + 1 = end
           /\ \A g \in DOMAIN H : h < g => h + H[h].para < g
<1>1. h \in Nat /\ base <= h /\ H[h] \in HeaderRecord
  BY DEF HeapTypeOK
<1>2. /\ h + H[h].para < end
      /\ H[h].next = IF h + H[h].para + 1 = end THEN Nil ELSE h + H[h].para + 1
      /\ H[h].next # Nil => H[h].next \in DOMAIN H
  BY DEF Tiles
<1>3. H[h].para \in Nat /\ H[h].used \in BOOLEAN /\ H[h].next \in Nat \cup {Nil}
  BY <1>1 DEF HeaderRecord
<1>4. \A g \in DOMAIN H : h < g => h + H[h].para < g
  BY DEF Apart
<1>5. h + H[h].para + 1 \in Nat
  BY <1>1, <1>3
<1> QED
  BY <1>1, <1>2, <1>3, <1>4, <1>5

\* A header is the next of one other at most.
LEMMA NextDiffers ==
    ASSUME NEW H, NEW base \in Nat, NEW end \in Nat, Nil \notin Nat,
           HeapTypeOK(H, base, end), Apart(H), Linked(H, base), Tiles(H, end),
           NEW h \in DOMAIN H, NEW g \in DOMAIN H, H[h].next # Nil,
           H[h].next = H[g].next
    PROVE  h = g
<1>1. /\ h \in Nat /\ H[h].para \in Nat /\ H[h].next = h + H[h].para + 1
      /\ h < g => h + H[h].para < g
  BY HeapFacts
<1>2. /\ g \in Nat /\ H[g].para \in Nat /\ H[g].next = g + H[g].para + 1
      /\ g < h => g + H[g].para < h
  BY HeapFacts
<1>3. h + H[h].para + 1 = g + H[g].para + 1
  BY <1>1, <1>2
<1>4. ~ (h < g)
  BY <1>1, <1>2, <1>3
<1>5. ~ (g < h)
  BY <1>1, <1>2, <1>3
<1> QED
  BY <1>1, <1>2, <1>4, <1>5

\* What Take leaves of the heap H: block h is in use, and cut if it was
\* larger by more than a header.
TakenFrom(H, Q, h, sz) ==
    LET n == NewHeader(h, sz) IN
    /\ \A x \in DOMAIN H : x # h => Q[x] = H[x]
    /\ Q[h].used
    /\ IF Cuts(H[h].para, sz)
       THEN /\ DOMAIN Q = DOMAIN H \cup {n} /\ n \notin DOMAIN H
            /\ Q[h] = Header(n, sz, TRUE)
            /\ Q[n] = Header(H[h].next, Rest(H[h].para, sz), FALSE)
       ELSE DOMAIN Q = DOMAIN H /\ Q[h] = Header(H[h].next, H[h].para, TRUE)

LEMMA TakeIs ==
    ASSUME NEW H, NEW base \in Nat, NEW end \in Nat, Nil \notin Nat,
           Heap(H, base, end), NEW sz \in Nat, NEW h \in Fits(H, sz)
    PROVE  TakenFrom(H, Take(H, h, sz), h, sz)
<1>1. h \in DOMAIN H
  BY DEF Fits
<1>2. /\ h \in Nat /\ H[h].para \in Nat
      /\ \A g \in DOMAIN H : h < g => h + H[h].para < g
  BY <1>1, HeapFacts DEF Heap
<1>3. CASE Cuts(H[h].para, sz)
  <2> DEFINE n == NewHeader(h, sz)
  <2>1. n \in Nat /\ n # h /\ n \notin DOMAIN H
    BY <1>2, <1>3 DEF Cuts, NewHeader
  <2>2. Take(H, h, sz) = [x \in DOMAIN H \cup {n} |->
            IF x = h THEN Header(n, sz, TRUE)
            ELSE IF x = n THEN Header(H[h].next, Rest(H[h].para, sz), FALSE)
            ELSE H[x]]
    BY <1>3 DEF Take
  <2>3. Header(n, sz, TRUE).used
    BY DEF Header
  <2> HIDE DEF n
  <2>4. /\ DOMAIN Take(H, h, sz) = DOMAIN H \cup {n}
        /\ Take(H, h, sz)[h] = Header(n, sz, TRUE)
        /\ Take(H, h, sz)[n] = Header(H[h].next, Rest(H[h].para, sz), FALSE)
        /\ \A x \in DOMAIN H : x # h => Take(H, h, sz)[x] = H[x]
    BY <1>1, <2>1, <2>2
  <2> QED
    BY <1>3, <2>1, <2>3, <2>4 DEF TakenFrom, n
<1>4. CASE ~ Cuts(H[h].para, sz)
  <2>1. Take(H, h, sz) = [H EXCEPT ![h] = Header(H[h].next, H[h].para, TRUE)]
    BY <1>4 DEF Take
  <2>2. Header(H[h].next, H[h].para, TRUE).used
    BY DEF Header
  <2>3. /\ DOMAIN Take(H, h, sz) = DOMAIN H
        /\ Take(H, h, sz)[h] = Header(H[h].next, H[h].para, TRUE)
        /\ \A x \in DOMAIN H : x # h => Take(H, h, sz)[x] = H[x]
    BY <1>1, <2>1 DEF Heap, HeapTypeOK
  <2> QED
    BY <1>4, <2>2, <2>3 DEF TakenFrom
<1> QED
  BY <1>3, <1>4

\* A heap is still a heap when a block of it has been taken.
LEMMA TakeKeepsHeap ==
    ASSUME NEW H, NEW base \in Nat, NEW end \in Nat, Nil \notin Nat,
           Heap(H, base, end), NEW sz \in Nat, NEW h \in Fits(H, sz),
           NEW Q, Q = Take(H, h, sz)
    PROVE  Heap(Q, base, end)
<1>1. h \in DOMAIN H /\ ~ H[h].used /\ H[h].para >= sz
  BY DEF Fits
<1>2. TakenFrom(H, Q, h, sz)
  BY TakeIs
<1>3. /\ HeapTypeOK(H, base, end) /\ Apart(H) /\ Linked(H, base)
      /\ Tiles(H, end) /\ Merged(H)
  BY DEF Heap
<1>4. /\ h \in Nat /\ base <= h /\ H[h].para \in Nat
      /\ H[h].next \in Nat \cup {Nil} /\ h + H[h].para < end
      /\ H[h].next # Nil => H[h].next = h + H[h].para + 1 /\ H[h].next \in DOMAIN H
      /\ H[h].next = Nil => h + H[h].para + 1 = end
      /\ \A g \in DOMAIN H : h < g => h + H[h].para < g
  BY <1>1, <1>3, HeapFacts
<1>5. ~ IsFree(H, H[h].next)
  BY <1>1, <1>3, <1>4 DEF Merged, IsFree
<1>6. CASE Cuts(H[h].para, sz)
  <2> DEFINE n == NewHeader(h, sz)
             rest == Rest(H[h].para, sz)
  <2>1. /\ n = h + sz + 1 /\ n \in Nat /\ rest \in Nat
        /\ n + rest = h + H[h].para /\ h < n /\ n < end /\ n # base
    BY <1>4, <1>6 DEF Cuts, NewHeader, Rest
  <2>2. /\ DOMAIN Q = DOMAIN H \cup {n} /\ n \notin DOMAIN H
        /\ Q[h].next = n /\ Q[h].para = sz /\ Q[h].used
        /\ Q[n].next = H[h].next /\ Q[n].para = rest /\ ~ Q[n].used
        /\ Q[h] = [next |-> n, para |-> sz, used |-> TRUE]
        /\ Q[n] = [next |-> H[h].next, para |-> rest, used |-> FALSE]
        /\ \A x \in DOMAIN H : x # h => Q[x] = H[x]
    BY <1>2, <1>6 DEF TakenFrom, Header
  <2> HIDE DEF n, rest
  <2>3. HeapTypeOK(Q, base, end)
    <3>1. DOMAIN Q \subseteq Nat /\ base \in DOMAIN Q /\ \A x \in DOMAIN Q : base <= x
      BY <1>3, <1>4, <2>1, <2>2 DEF HeapTypeOK
    <3>2. Q[h] \in HeaderRecord /\ Q[n] \in HeaderRecord
      BY <1>4, <2>1, <2>2 DEF HeaderRecord
    <3>3. \A x \in DOMAIN Q : Q[x] \in HeaderRecord
      BY <1>3, <2>2, <3>2 DEF HeapTypeOK
    <3>4. Q = [x \in DOMAIN Q |-> Q[x]]
      BY <1>6 DEF Take
    <3> QED
      BY <3>1, <3>3, <3>4 DEF HeapTypeOK
  <2>4. Apart(Q)
    <3> SUFFICES ASSUME NEW x \in DOMAIN Q, NEW y \in DOMAIN Q, x < y
                 PROVE  x + Q[x].para < y
      BY DEF Apart
    <3>1. CASE x \in DOMAIN H /\ x # h /\ y \in DOMAIN H
      BY <3>1, <1>3, <2>2 DEF Apart
    <3>2. CASE x = h
      <4>1. y = n \/ (y \in DOMAIN H /\ h + H[h].para < y)
        BY <3>2, <1>4, <2>2
      <4>2. y \in Nat
        BY <1>3, <2>1, <2>2 DEF HeapTypeOK
      <4> QED
        BY <3>2, <4>1, <4>2, <1>4, <2>1, <2>2
    <3>3. CASE x = n
      <4>1. y \in DOMAIN H /\ y \in Nat
        BY <3>3, <1>3, <2>1, <2>2 DEF HeapTypeOK
      <4>2. h + H[h].para < y
        BY <3>3, <4>1, <1>4, <2>1
      <4> QED
        BY <3>3, <4>1, <4>2, <2>1, <2>2
    <3>4. CASE x \in DOMAIN H /\ x # h /\ y = n
      <4>1. x \in Nat /\ H[x].para \in Nat /\ (x < h => x + H[x].para < h)
        BY <3>4, <1>1, <1>3, HeapFacts
      <4>2. ~ (h < x)
        BY <3>4, <4>1, <1>4, <2>1
      <4> QED
        BY <3>4, <4>1, <4>2, <1>4, <2>1, <2>2
    <3> QED
      BY <3>1, <3>2, <3>3, <3>4, <2>2
  <2>5. Linked(Q, base)
    <3> SUFFICES ASSUME NEW g \in DOMAIN Q, g # base
                 PROVE  \E x \in DOMAIN Q : Q[x].next = g
      BY DEF Linked
    <3>1. CASE g = n
      BY <3>1, <1>1, <2>2
    <3>2. CASE g # n
      <4>1. PICK x \in DOMAIN H : H[x].next = g
        BY <3>2, <1>3, <2>2 DEF Linked
      <4>2. CASE x = h
        BY <4>1, <4>2, <2>2
      <4>3. CASE x # h
        BY <4>1, <4>3, <2>2
      <4> QED
        BY <4>2, <4>3
    <3> QED
      BY <3>1, <3>2
  <2>6. Tiles(Q, end)
    <3> SUFFICES ASSUME NEW x \in DOMAIN Q
                 PROVE  /\ x + Q[x].para < end
                        /\ Q[x].next = IF x + Q[x].para + 1 = end THEN Nil
                                       ELSE x + Q[x].para + 1
                        /\ Q[x].next # Nil => Q[x].next \in DOMAIN Q
      BY DEF Tiles
    <3>1. CASE x = h
      BY <3>1, <1>4, <2>1, <2>2
    <3>2. CASE x = n
      <4>1. x + Q[x].para = h + H[h].para
        BY <3>2, <2>1, <2>2
      <4> QED
        BY <3>2, <4>1, <1>1, <1>3, <2>2 DEF Tiles
    <3>3. CASE x # h /\ x # n
      BY <3>3, <1>3, <2>2 DEF Tiles
    <3> QED
      BY <3>1, <3>2, <3>3
  <2>7. Merged(Q)
    <3> SUFFICES ASSUME NEW x \in DOMAIN Q, IsFree(Q, x), IsFree(Q, Q[x].next)
                 PROVE  FALSE
      BY DEF Merged
    <3>1. CASE x = h
      BY <3>1, <2>2 DEF IsFree
    <3>2. CASE x = n
      <4>1. H[h].next # Nil /\ H[h].next # h /\ H[h].next \in DOMAIN H
        BY <3>2, <1>4, <2>2 DEF IsFree
      <4>2. IsFree(H, H[h].next)
        BY <3>2, <4>1, <2>2 DEF IsFree
      <4> QED
        BY <4>2, <1>5
    <3>3. CASE x # h /\ x # n
      <4>1. x \in DOMAIN H /\ Q[x] = H[x] /\ H[x].next # Nil
        BY <3>3, <2>2 DEF IsFree
      <4>2. H[x].next \in DOMAIN H
        BY <4>1, <1>3, HeapFacts
      <4>3. H[x].next # h
        BY <4>1, <2>2 DEF IsFree
      <4> QED
        BY <4>1, <4>2, <4>3, <1>3, <2>2 DEF IsFree, Merged
    <3> QED
      BY <3>1, <3>2, <3>3
  <2> QED
    BY <2>3, <2>4, <2>5, <2>6, <2>7 DEF Heap
<1>7. CASE ~ Cuts(H[h].para, sz)
  <2>1. /\ DOMAIN Q = DOMAIN H
        /\ Q[h] = [next |-> H[h].next, para |-> H[h].para, used |-> TRUE]
        /\ Q[h].next = H[h].next /\ Q[h].para = H[h].para /\ Q[h].used
        /\ \A x \in DOMAIN H : x # h => Q[x] = H[x]
    BY <1>2, <1>7 DEF TakenFrom, Header
  <2>2. \A x \in DOMAIN H : Q[x].next = H[x].next /\ Q[x].para = H[x].para
    BY <2>1
  <2>3. HeapTypeOK(Q, base, end)
    <3>1. Q[h] \in HeaderRecord
      BY <1>4, <2>1 DEF HeaderRecord
    <3>2. \A x \in DOMAIN Q : Q[x] \in HeaderRecord
      BY <1>3, <2>1, <3>1 DEF HeapTypeOK
    <3>3. Q = [x \in DOMAIN Q |-> Q[x]]
      BY <1>3, <1>7 DEF Take, HeapTypeOK
    <3> QED
      BY <1>3, <2>1, <3>2, <3>3 DEF HeapTypeOK
  <2>4. Apart(Q) /\ Linked(Q, base) /\ Tiles(Q, end)
    BY <1>3, <2>1, <2>2 DEF Apart, Linked, Tiles
  <2>5. Merged(Q)
    <3> SUFFICES ASSUME NEW x \in DOMAIN Q, IsFree(Q, x), IsFree(Q, Q[x].next)
                 PROVE  FALSE
      BY DEF Merged
    <3>1. x # h /\ Q[x] = H[x] /\ H[x].next # Nil
      BY <2>1 DEF IsFree
    <3>2. H[x].next \in DOMAIN H /\ H[x].next # h
      BY <3>1, <1>3, <2>1, HeapFacts DEF IsFree
    <3> QED
      BY <3>1, <3>2, <1>3, <2>1 DEF IsFree, Merged
  <2> QED
    BY <2>3, <2>4, <2>5 DEF Heap
<1> QED
  BY <1>6, <1>7

-----------------------------------------------------------------------------
(* Giving a block back.                                                    *)

\* A heap in which free neighbours may not have been merged yet.
Raw(H, base, end) ==
    HeapTypeOK(H, base, end) /\ Apart(H) /\ Linked(H, base) /\ Tiles(H, end)

\* What Merge leaves of the heap H: n, the block behind h, is part of h.
Joined(H, Q, h, n) ==
    /\ n \in DOMAIN H /\ n = h + H[h].para + 1 /\ h < n
    /\ DOMAIN Q = DOMAIN H \ {n} /\ h \in DOMAIN Q
    /\ \A x \in DOMAIN H \ {n} : x # h => Q[x] = H[x]
    /\ Q[h].next = H[n].next /\ Q[h].para = H[h].para + 1 + H[n].para
    /\ (Q[h].used <=> H[h].used)
    /\ Q \in [DOMAIN Q -> HeaderRecord]

LEMMA MergeIs ==
    ASSUME NEW H, NEW base \in Nat, NEW end \in Nat, Nil \notin Nat,
           Raw(H, base, end), NEW h \in DOMAIN H, H[h].next # Nil
    PROVE  Joined(H, Merge(H, h), h, H[h].next)
<1> DEFINE Q == Merge(H, h)
           n == H[h].next
<1>1. /\ h \in Nat /\ base <= h /\ H[h].para \in Nat /\ H[h].used \in BOOLEAN
      /\ n = h + H[h].para + 1 /\ n \in DOMAIN H
  BY HeapFacts DEF Raw
<1>2. /\ n \in Nat /\ h < n /\ n # base
  BY <1>1
<1>3. /\ H[n].para \in Nat /\ H[n].next \in Nat \cup {Nil}
  BY <1>1, HeapFacts DEF Raw
<1> DEFINE r == Header(H[n].next, H[h].para + 1 + H[n].para, H[h].used)
<1>4. Q = [x \in DOMAIN H \ {n} |-> IF x = h THEN r ELSE H[x]]
  BY DEF Merge
<1>5. /\ r \in HeaderRecord /\ r.next = H[n].next
      /\ r.para = H[h].para + 1 + H[n].para /\ (r.used <=> H[h].used)
  BY <1>1, <1>3 DEF HeaderRecord, Header
<1> HIDE DEF r
<1>6. h # n
  BY <1>1, <1>2
<1>7. /\ DOMAIN Q = DOMAIN H \ {n} /\ h \in DOMAIN Q /\ Q[h] = r
      /\ \A x \in DOMAIN H \ {n} : x # h => Q[x] = H[x]
  BY <1>4, <1>6
<1>8. Q \in [DOMAIN Q -> HeaderRecord]
  <2>1. \A x \in DOMAIN H : H[x] \in HeaderRecord
    BY DEF Raw, HeapTypeOK
  <2> QED
    BY <2>1, <1>4, <1>5
<1> HIDE DEF Q, n
<1>9. Joined(H, Q, h, n)
  BY <1>1, <1>2, <1>5, <1>7, <1>8 DEF Joined
<1> QED
  BY <1>9 DEF Q, n

LEMMA MergeKeepsRaw ==
    ASSUME NEW H, NEW base \in Nat, NEW end \in Nat, Nil \notin Nat,
           Raw(H, base, end), NEW h \in DOMAIN H, H[h].next # Nil,
           NEW Q, Q = Merge(H, h)
    PROVE  Raw(Q, base, end)
<1> DEFINE n == H[h].next
<1>b. Joined(H, Q, h, n)
  BY MergeIs
<1>a. h \in Nat /\ base <= h /\ H[h].para \in Nat /\ base \in Nat
  BY HeapFacts DEF Raw
<1>1. /\ n \in DOMAIN H /\ n = h + H[h].para + 1 /\ h < n /\ n # base
      /\ DOMAIN Q = DOMAIN H \ {n} /\ h \in DOMAIN Q
      /\ \A x \in DOMAIN H \ {n} : x # h => Q[x] = H[x]
      /\ Q[h].next = H[n].next /\ Q[h].para = H[h].para + 1 + H[n].para
      /\ Q \in [DOMAIN Q -> HeaderRecord]
  BY <1>b, <1>a DEF Joined
<1>2. n = H[h].next
  OBVIOUS
<1> HIDE DEF n
<1>3. HeapTypeOK(H, base, end) /\ Apart(H) /\ Linked(H, base) /\ Tiles(H, end)
  BY DEF Raw
<1>4. /\ h \in Nat /\ H[h].para \in Nat /\ \A g \in DOMAIN H : h < g => h + H[h].para < g
  BY <1>3, HeapFacts
<1>5. /\ n \in Nat /\ H[n].para \in Nat /\ n + H[n].para < end
      /\ H[n].next # Nil => H[n].next \in DOMAIN H
      /\ \A g \in DOMAIN H : n < g => n + H[n].para < g
  BY <1>1, <1>3, HeapFacts
<1>6. h + Q[h].para = n + H[n].para
  BY <1>1, <1>4, <1>5
<1>7. \A x \in DOMAIN H \ {n} : x # h => H[x].next # n
  BY <1>1, <1>2, <1>3, NextDiffers
<1>8. HeapTypeOK(Q, base, end)
  BY <1>1, <1>3 DEF HeapTypeOK
<1>9. Apart(Q)
  <2> SUFFICES ASSUME NEW x \in DOMAIN Q, NEW y \in DOMAIN Q, x < y
               PROVE  x + Q[x].para < y
    BY DEF Apart
  <2>1. CASE x = h
    <3>1. y \in DOMAIN H /\ y # n /\ y \in Nat
      BY <1>1, <1>3 DEF HeapTypeOK
    <3>2. h + H[h].para < y
      BY <2>1, <3>1, <1>4
    <3>3. n < y
      BY <3>1, <3>2, <1>1, <1>4, <1>5
    <3> QED
      BY <2>1, <3>1, <3>3, <1>5, <1>6
  <2>2. CASE x # h
    BY <2>2, <1>1, <1>3 DEF Apart
  <2> QED
    BY <2>1, <2>2
<1>10. Linked(Q, base)
  <2> SUFFICES ASSUME NEW g \in DOMAIN Q, g # base
               PROVE  \E x \in DOMAIN Q : Q[x].next = g
    BY DEF Linked
  <2>1. PICK x \in DOMAIN H : H[x].next = g
    BY <1>1, <1>3 DEF Linked
  <2>2. CASE x = n
    BY <2>1, <2>2, <1>1
  <2>3. CASE x = h
    BY <2>1, <2>3, <1>1, <1>2
  <2>4. CASE x # n /\ x # h
    BY <2>1, <2>4, <1>1
  <2> QED
    BY <2>2, <2>3, <2>4
<1>11. Tiles(Q, end)
  <2> SUFFICES ASSUME NEW x \in DOMAIN Q
               PROVE  /\ x + Q[x].para < end
                      /\ Q[x].next = IF x + Q[x].para + 1 = end THEN Nil
                                     ELSE x + Q[x].para + 1
                      /\ Q[x].next # Nil => Q[x].next \in DOMAIN Q
    BY DEF Tiles
  <2>1. CASE x = h
    <3>1. H[n].next = IF n + H[n].para + 1 = end THEN Nil ELSE n + H[n].para + 1
      BY <1>1, <1>3 DEF Tiles
    <3>2. H[n].next # n
      <4>1. n + H[n].para + 1 # n
        BY <1>5
      <4> QED
        BY <3>1, <4>1, <1>5
    <3> QED
      BY <2>1, <3>1, <3>2, <1>1, <1>5, <1>6
  <2>2. CASE x # h
    BY <2>2, <1>1, <1>3, <1>7 DEF Tiles
  <2> QED
    BY <2>1, <2>2
<1> QED
  BY <1>8, <1>9, <1>10, <1>11 DEF Raw

\* The blocks in use but h stay where they are.
UsedStay(H, Q, h) ==
    \A x \in DOMAIN H : H[x].used /\ x # h =>
        x \in DOMAIN Q /\ Q[x].used /\ Q[x].para = H[x].para

\* Merged, but for block c and the blocks beside it; the one before c is in use.
MergedBut(H, c) ==
    \A x \in DOMAIN H : /\ x # c => ~ (IsFree(H, x) /\ IsFree(H, H[x].next))
                        /\ H[x].next = c => H[x].used

\* The first merge of Give, with the block before.
LEMMA MergedBefore ==
    ASSUME NEW H, NEW base \in Nat, NEW end \in Nat, Nil \notin Nat,
           Heap(H, base, end), NEW h \in DOMAIN H, H[h].used,
           NEW p, p = Prev(H, h),
           NEW A, A = IF IsFree(H, p) THEN Merge(H, p) ELSE H,
           NEW c, c = IF IsFree(H, p) THEN p ELSE h
    PROVE  /\ Raw(A, base, end) /\ c \in DOMAIN A /\ MergedBut(A, c)
           /\ UsedStay(H, A, h)
           /\ c # h => ~ H[c].used
<1>1. Raw(H, base, end) /\ Merged(H) /\ h \in Nat /\ h # Nil
  BY DEF Heap, Raw, HeapTypeOK
<1>2. p = Nil \/ (p \in DOMAIN H /\ H[p].next = h)
  BY DEF Prev
<1>3. \A x \in DOMAIN H : H[x].next = h => x = p
  <2> SUFFICES ASSUME NEW x \in DOMAIN H, H[x].next = h PROVE x = p
    OBVIOUS
  <2>1. p \in DOMAIN H /\ H[p].next = h
    BY DEF Prev
  <2> QED
    BY <2>1, <1>1, NextDiffers DEF Raw
<1>4. CASE IsFree(H, p)
  <2>1. p \in DOMAIN H /\ H[p].next = h /\ ~ H[p].used
    BY <1>2, <1>4 DEF IsFree
  <2>2. A = Merge(H, p) /\ c = p
    BY <1>4
  <2>3. /\ DOMAIN A = DOMAIN H \ {h} /\ p \in DOMAIN A /\ p < h
        /\ \A x \in DOMAIN H \ {h} : x # p => A[x] = H[x]
        /\ A[p].next = H[h].next /\ (A[p].used <=> H[p].used)
    <3>1. Joined(H, A, p, h)
      BY <1>1, <2>1, <2>2, MergeIs
    <3> QED
      BY <3>1 DEF Joined
  <2>4. Raw(A, base, end)
    BY <1>1, <2>1, <2>2, MergeKeepsRaw
  <2>5. UsedStay(H, A, h)
    BY <2>1, <2>3 DEF UsedStay
  <2>6. H[h].next # p
    <3>1. H[h].next # Nil => H[h].next = h + H[h].para + 1 /\ H[h].para \in Nat
      BY <1>1, HeapFacts DEF Raw
    <3>2. p \in Nat
      BY <1>1, <2>1 DEF Raw, HeapTypeOK
    <3> QED
      BY <3>1, <3>2, <2>3, <1>1
  <2>7. MergedBut(A, p)
    <3> SUFFICES ASSUME NEW x \in DOMAIN A
                 PROVE  /\ x # p => ~ (IsFree(A, x) /\ IsFree(A, A[x].next))
                        /\ A[x].next = p => A[x].used
      BY DEF MergedBut
    <3>1. CASE x = p
      <4>1. A[x].next # p
        BY <3>1, <2>3, <2>6
      <4> QED
        BY <3>1, <4>1
    <3>2. CASE x # p
      <4>1. x \in DOMAIN H /\ x # h /\ A[x] = H[x] /\ H[x].next # h
        BY <3>2, <1>3, <2>3
      <4>2. H[x].next # Nil => H[x].next \in DOMAIN H
        BY <4>1, <1>1, HeapFacts DEF Raw
      <4>3. H[x].next = p => H[x].used
        BY <4>1, <1>1, <1>4 DEF Merged, IsFree, Raw, HeapTypeOK
      <4>4. CASE H[x].next = p
        BY <3>2, <4>1, <4>3, <4>4 DEF IsFree
      <4>5. CASE H[x].next # p
        <5>1. IsFree(A, A[x].next) => IsFree(H, H[x].next)
          BY <4>1, <4>2, <4>5, <2>3 DEF IsFree
        <5> QED
          BY <4>1, <4>5, <5>1, <1>1 DEF IsFree, Merged
      <4> QED
        BY <4>4, <4>5
    <3> QED
      BY <3>1, <3>2
  <2> QED
    BY <2>1, <2>2, <2>3, <2>4, <2>5, <2>7
<1>5. CASE ~ IsFree(H, p)
  <2>1. A = H /\ c = h
    BY <1>5
  <2>2. \A x \in DOMAIN H : H[x].next = h => H[x].used
    BY <1>1, <1>3, <1>5 DEF IsFree, Raw, HeapTypeOK
  <2>3. MergedBut(H, h)
    BY <2>2, <1>1 DEF MergedBut, Merged
  <2>4. UsedStay(H, H, h)
    BY DEF UsedStay
  <2> QED
    BY <2>1, <2>3, <2>4, <1>1
<1> QED
  BY <1>4, <1>5

\* The second one, with the block behind.
LEMMA MergedBehind ==
    ASSUME NEW A, NEW base \in Nat, NEW end \in Nat, Nil \notin Nat,
           Raw(A, base, end), NEW c \in DOMAIN A, MergedBut(A, c),
           NEW B, B = IF IsFree(A, A[c].next) THEN Merge(A, c) ELSE A
    PROVE  /\ Raw(B, base, end) /\ c \in DOMAIN B /\ MergedBut(B, c)
           /\ ~ IsFree(B, B[c].next) /\ UsedStay(A, B, c)
<1>1. CASE IsFree(A, A[c].next)
  <2> DEFINE n == A[c].next
  <2>1. /\ n \in DOMAIN A /\ n # Nil /\ c < n
        /\ DOMAIN B = DOMAIN A \ {n} /\ c \in DOMAIN B
        /\ \A x \in DOMAIN A \ {n} : x # c => B[x] = A[x]
        /\ B[c].next = A[n].next /\ ~ A[n].used
    <3>1. B = Merge(A, c) /\ n # Nil /\ ~ A[n].used
      BY <1>1 DEF IsFree
    <3>2. Joined(A, B, c, n)
      BY <3>1, MergeIs
    <3> QED
      BY <3>1, <3>2 DEF Joined
  <2>2. Raw(B, base, end)
    BY <1>1, MergeKeepsRaw DEF IsFree
  <2>3. UsedStay(A, B, c)
    BY <2>1 DEF UsedStay
  <2>4. n = A[c].next
    OBVIOUS
  <2> HIDE DEF n
  <2>5. n # c /\ n \in Nat /\ c \in Nat
    BY <2>1 DEF Raw, HeapTypeOK
  <2>6. \A x \in DOMAIN A : x # c => A[x].next # n
    BY <2>1, <2>4, NextDiffers DEF Raw
  <2>7. \A x \in DOMAIN A : A[x].next # Nil => A[x].next \in DOMAIN A
    BY HeapFacts DEF Raw
  <2>8. A[n].next # c /\ ~ IsFree(A, A[n].next)
    BY <2>1, <2>5 DEF MergedBut, IsFree
  <2>9. ~ IsFree(B, B[c].next)
    <3>1. A[n].next # n
      BY <2>1, <2>5, <2>6
    <3> QED
      BY <3>1, <2>1, <2>7, <2>8 DEF IsFree
  <2>10. MergedBut(B, c)
    <3> SUFFICES ASSUME NEW x \in DOMAIN B
                 PROVE  /\ x # c => ~ (IsFree(B, x) /\ IsFree(B, B[x].next))
                        /\ B[x].next = c => B[x].used
      BY DEF MergedBut
    <3>1. CASE x = c
      BY <3>1, <2>1, <2>8
    <3>2. CASE x # c
      <4>1. x \in DOMAIN A /\ B[x] = A[x] /\ A[x].next # n
        BY <3>2, <2>1, <2>6
      <4>2. A[x].next = c => A[x].used
        BY <4>1 DEF MergedBut
      <4>3. CASE A[x].next = c
        BY <4>1, <4>2, <4>3 DEF IsFree
      <4>4. CASE A[x].next # c
        <5>1. IsFree(B, B[x].next) => IsFree(A, A[x].next)
          BY <4>1, <4>4, <2>1, <2>7 DEF IsFree
        <5> QED
          BY <3>2, <4>1, <4>4, <5>1 DEF IsFree, MergedBut
      <4> QED
        BY <4>3, <4>4
    <3> QED
      BY <3>1, <3>2
  <2> QED
    BY <2>1, <2>2, <2>3, <2>9, <2>10
<1>2. CASE ~ IsFree(A, A[c].next)
  <2>1. B = A
    BY <1>2
  <2>2. UsedStay(A, A, c)
    BY DEF UsedStay
  <2> QED
    BY <2>1, <2>2, <1>2
<1> QED
  BY <1>1, <1>2

\* A heap is still a heap when a block of it has been given back.
LEMMA GiveKeepsHeap ==
    ASSUME NEW H, NEW base \in Nat, NEW end \in Nat, Nil \notin Nat,
           Heap(H, base, end), NEW h \in DOMAIN H, H[h].used,
           NEW Q, Q = Give(H, h)
    PROVE  Heap(Q, base, end) /\ UsedStay(H, Q, h)
<1> DEFINE p == Prev(H, h)
           A == IF IsFree(H, p) THEN Merge(H, p) ELSE H
           c == IF IsFree(H, p) THEN p ELSE h
           B == IF IsFree(A, A[c].next) THEN Merge(A, c) ELSE A
<1>1. /\ Raw(A, base, end) /\ c \in DOMAIN A /\ MergedBut(A, c)
      /\ UsedStay(H, A, h)
      /\ c # h => ~ H[c].used
  BY MergedBefore
<1>2. Q = [B EXCEPT ![c] = Header(B[c].next, B[c].para, FALSE)]
  BY DEF Give
<1> HIDE DEF A, c
<1>3. /\ Raw(B, base, end) /\ c \in DOMAIN B /\ MergedBut(B, c)
      /\ ~ IsFree(B, B[c].next) /\ UsedStay(A, B, c)
  BY <1>1, MergedBehind
<1> HIDE DEF B
<1> DEFINE r == Header(B[c].next, B[c].para, FALSE)
<1>4. B[c] \in HeaderRecord /\ B \in [DOMAIN B -> HeaderRecord] /\ c \in Nat
  BY <1>3 DEF Raw, HeapTypeOK
<1>5. r \in HeaderRecord /\ r.next = B[c].next /\ r.para = B[c].para /\ ~ r.used
  BY <1>4 DEF HeaderRecord, Header
<1> HIDE DEF r
<1>6. /\ DOMAIN Q = DOMAIN B /\ Q \in [DOMAIN Q -> HeaderRecord] /\ Q[c] = r
      /\ \A x \in DOMAIN B : x # c => Q[x] = B[x]
  BY <1>2, <1>3, <1>4, <1>5 DEF r
<1>7. \A x \in DOMAIN B : Q[x].next = B[x].next /\ Q[x].para = B[x].para
  BY <1>5, <1>6
<1>8. HeapTypeOK(Q, base, end) /\ Apart(Q) /\ Linked(Q, base) /\ Tiles(Q, end)
  <2>1. HeapTypeOK(Q, base, end)
    BY <1>3, <1>6 DEF Raw, HeapTypeOK
  <2>2. Apart(Q) /\ Linked(Q, base) /\ Tiles(Q, end)
    BY <1>3, <1>6, <1>7 DEF Raw, Apart, Linked, Tiles
  <2> QED
    BY <2>1, <2>2
<1>9. Merged(Q)
  <2> SUFFICES ASSUME NEW x \in DOMAIN Q, IsFree(Q, x), IsFree(Q, Q[x].next)
               PROVE  FALSE
    BY DEF Merged
  <2>1. B[x].next # Nil /\ B[x].next \in DOMAIN B /\ Q[x].next = B[x].next
    BY <1>3, <1>6, <1>7, HeapFacts DEF IsFree, Raw
  <2>2. CASE x = c
    <3>1. B[c].next # c
      <4>1. B[c].next = c + B[c].para + 1 /\ B[c].para \in Nat
        BY <2>1, <2>2, <1>3, HeapFacts DEF Raw
      <4> QED
        BY <4>1, <1>4
    <3> QED
      BY <3>1, <2>1, <2>2, <1>3, <1>6 DEF IsFree
  <2>3. CASE x # c
    <3>1. Q[x] = B[x] /\ ~ B[x].used
      BY <2>3, <1>6 DEF IsFree
    <3>2. B[x].next # c
      BY <3>1, <1>3, <1>6 DEF MergedBut
    <3>3. IsFree(B, x) /\ IsFree(B, B[x].next)
      BY <3>1, <3>2, <2>1, <1>6 DEF IsFree
    <3> QED
      BY <2>3, <3>3, <1>3, <1>6 DEF MergedBut
  <2> QED
    BY <2>2, <2>3
<1>10. UsedStay(H, Q, h)
  <2> SUFFICES ASSUME NEW x \in DOMAIN H, H[x].used, x # h
               PROVE  x \in DOMAIN Q /\ Q[x].used /\ Q[x].para = H[x].para
    BY DEF UsedStay
  <2>1. x # c /\ x \in DOMAIN A /\ A[x].used /\ A[x].para = H[x].para
    BY <1>1 DEF UsedStay
  <2>2. x \in DOMAIN B /\ B[x].used /\ B[x].para = A[x].para
    BY <2>1, <1>3 DEF UsedStay
  <2> QED
    BY <2>1, <2>2, <1>6
<1> QED
  BY <1>8, <1>9, <1>10 DEF Heap

-----------------------------------------------------------------------------
(* The pointers handed out.                                                *)

\* Each pointer is that of a block in use.
Lent(H, ptr) ==
    \A p \in ptr : /\ p \in Nat /\ p - 1 \in DOMAIN H /\ H[p - 1].used

\* A region [start, len] of the heap from base to end, of at least sz
\* paragraphs and with nothing in common with the regions in live.
NewRegion(r, sz, live, base, end) ==
    /\ r \in [start : base..end, len : 0..(end - base)]
    /\ r.len >= sz /\ r.start + r.len <= end
    /\ \A l \in live :
          /\ l.start # r.start
          /\ (l.start .. (l.start + l.len - 1)) \cap (r.start .. (r.start + r.len - 1)) = {}

RegionOf(H, p) == [start |-> p, len |-> H[p - 1].para]

LEMMA RegionsAre ==
    ASSUME NEW H, NEW ptr
    PROVE  Regions(H, ptr) = {RegionOf(H, p) : p \in ptr}
BY DEF Regions, RegionOf, ToHeader

\* What a block's region is, and that two blocks' regions are apart.
LEMMA RegionsApart ==
    ASSUME NEW H, NEW base \in Nat, NEW end \in Nat, Nil \notin Nat,
           Heap(H, base, end), NEW h \in DOMAIN H, NEW g \in DOMAIN H, g # h
    PROVE  (g + 1 .. (g + 1 + H[g].para - 1)) \cap (h + 1 .. (h + 1 + H[h].para - 1)) = {}
<1>1. /\ h \in Nat /\ H[h].para \in Nat
      /\ \A x \in DOMAIN H : h < x => h + H[h].para < x
  BY HeapFacts DEF Heap
<1>2. /\ g \in Nat /\ H[g].para \in Nat
      /\ \A x \in DOMAIN H : g < x => g + H[g].para < x
  BY HeapFacts DEF Heap
<1>3. h < g => h + H[h].para < g
  BY <1>1
<1>4. g < h => g + H[g].para < h
  BY <1>2
<1>5. h < g \/ g < h
  BY <1>1, <1>2
<1> QED
  BY <1>1, <1>2, <1>3, <1>4, <1>5

\* Taking block h hands out a region that is large enough and that nobody has.
HandedOut(H, Q, ptr, p, sz, base, end) ==
    /\ Lent(Q, ptr \cup {p})
    /\ Regions(Q, ptr \cup {p}) = Regions(H, ptr) \cup {RegionOf(Q, p)}
    /\ NewRegion(RegionOf(Q, p), sz, Regions(H, ptr), base, end)

LEMMA TakeHandsOut ==
    ASSUME NEW H, NEW base \in Nat, NEW end \in Nat, Nil \notin Nat,
           Heap(H, base, end), NEW sz \in Nat, NEW h \in Fits(H, sz),
           NEW Q, Q = Take(H, h, sz), NEW ptr, Lent(H, ptr)
    PROVE  HandedOut(H, Q, ptr, ToPointer(h), sz, base, end)
<1> DEFINE r == RegionOf(Q, h + 1)
<1>1. TakenFrom(H, Q, h, sz) /\ Heap(Q, base, end)
  BY TakeIs, TakeKeepsHeap
<1>2. h \in DOMAIN H /\ ~ H[h].used /\ H[h].para >= sz
  BY DEF Fits
<1>3. h \in Nat /\ base <= h /\ H[h].para \in Nat
  BY <1>2, HeapFacts DEF Heap
<1>4. /\ Q[h].used /\ DOMAIN H \subseteq DOMAIN Q /\ Q[h].para >= sz
      /\ \A x \in DOMAIN H : x # h => Q[x] = H[x]
  <2>1. CASE Cuts(H[h].para, sz)
    BY <1>1, <2>1 DEF TakenFrom, Header
  <2>2. CASE ~ Cuts(H[h].para, sz)
    BY <1>1, <1>2, <2>2 DEF TakenFrom, Header
  <2> QED
    BY <2>1, <2>2
<1>5. Q[h].para \in Nat /\ h + Q[h].para < end
  BY <1>1, <1>2, <1>4, HeapFacts DEF Heap
<1>6. h + 1 \in Nat /\ h + 1 - 1 = h
  BY <1>3
<1>7. \A p \in ptr : /\ p \in Nat /\ p - 1 \in DOMAIN H /\ p - 1 # h
                     /\ H[p - 1].used /\ Q[p - 1] = H[p - 1]
  BY <1>2, <1>4 DEF Lent
<1>8. Lent(Q, ptr \cup {h + 1})
  <2> SUFFICES ASSUME NEW p \in ptr \cup {h + 1}
               PROVE  p \in Nat /\ p - 1 \in DOMAIN Q /\ Q[p - 1].used
    BY DEF Lent
  <2>1. CASE p \in ptr
    BY <2>1, <1>4, <1>7
  <2>2. CASE p = h + 1
    BY <2>2, <1>2, <1>3, <1>4, <1>6
  <2> QED
    BY <2>1, <2>2
<1>9. \A p \in ptr : RegionOf(Q, p) = RegionOf(H, p)
  BY <1>7 DEF RegionOf
<1>10. Regions(Q, ptr \cup {h + 1}) = Regions(H, ptr) \cup {r}
  <2>1. Regions(Q, ptr \cup {h + 1}) = {RegionOf(Q, p) : p \in ptr \cup {h + 1}}
    BY RegionsAre
  <2>2. Regions(H, ptr) = {RegionOf(H, p) : p \in ptr}
    BY RegionsAre
  <2> QED
    BY <1>9, <2>1, <2>2
<1>11. r = [start |-> h + 1, len |-> Q[h].para]
  <2> DEFINE p == h + 1
  <2>1. p - 1 = h
    BY <1>3
  <2> HIDE DEF p
  <2>2. RegionOf(Q, p) = [start |-> p, len |-> Q[p - 1].para]
    BY Zenon DEF RegionOf
  <2>3. RegionOf(Q, p) = [start |-> p, len |-> Q[h].para]
    BY <2>1, <2>2, Zenon
  <2> QED
    BY <2>3, Zenon DEF p
<1> HIDE DEF r
<1>12. NewRegion(r, sz, Regions(H, ptr), base, end)
  <2>1. r.start = h + 1 /\ r.len = Q[h].para
    BY <1>11
  <2>2. h + 1 \in base..end /\ Q[h].para \in 0..(end - base) /\ h + 1 + Q[h].para <= end
    BY <1>3, <1>5
  <2>3. r \in [start : base..end, len : 0..(end - base)]
    BY <1>11, <2>2
  <2>4. ASSUME NEW l \in Regions(H, ptr)
        PROVE  /\ l.start # r.start
               /\ (l.start .. (l.start + l.len - 1))
                    \cap (r.start .. (r.start + r.len - 1)) = {}
    <3>1. PICK p \in ptr : l = RegionOf(H, p)
      BY <2>4, RegionsAre
    <3>2. l.start = p /\ l.len = H[p - 1].para
      BY <3>1 DEF RegionOf
    <3> DEFINE g == p - 1
    <3>3. /\ p \in Nat /\ g \in DOMAIN H /\ g # h /\ Q[g] = H[g]
      BY <1>7
    <3>4. g \in Nat /\ p = g + 1
      BY <3>3, HeapFacts DEF Heap
    <3>5. g \in DOMAIN Q /\ h \in DOMAIN Q
      BY <1>2, <1>4, <3>3
    <3>6. l.len = Q[g].para
      BY <3>2, <3>3
    <3> HIDE DEF g
    <3>7. (g + 1 .. (g + 1 + Q[g].para - 1)) \cap (h + 1 .. (h + 1 + Q[h].para - 1)) = {}
      BY <1>1, <3>3, <3>5, RegionsApart
    <3>8. l.start = g + 1 /\ r.start = h + 1
      BY <2>1, <3>2, <3>4
    <3>9. l.start # r.start
      BY <3>3, <3>4, <3>8, <1>3
    <3> QED
      BY <3>6, <3>7, <3>8, <3>9, <2>1
  <2>5. r.len >= sz /\ r.start + r.len <= end
    BY <1>4, <2>1, <2>2
  <2> QED
    BY <2>3, <2>4, <2>5 DEF NewRegion
<1> QED
  BY <1>8, <1>10, <1>12, Zenon DEF HandedOut, ToPointer, r

\* Giving back the block of p takes back its region and no other.
TakenBack(H, Q, ptr, p, base, end) ==
    /\ Heap(Q, base, end) /\ Lent(Q, ptr \ {p})
    /\ Regions(Q, ptr \ {p}) = Regions(H, ptr) \ {RegionOf(H, p)}
    /\ RegionOf(H, p) \in Regions(H, ptr)

LEMMA GiveTakesBack ==
    ASSUME NEW H, NEW base \in Nat, NEW end \in Nat, Nil \notin Nat,
           Heap(H, base, end), NEW ptr, Lent(H, ptr), NEW p \in ptr,
           NEW Q, Q = Give(H, ToHeader(p))
    PROVE  TakenBack(H, Q, ptr, p, base, end)
<1>0. Q = Give(H, p - 1)
  BY Zenon DEF ToHeader
<1>1. p \in Nat /\ p - 1 \in DOMAIN H /\ H[p - 1].used
  BY DEF Lent
<1>2. Heap(Q, base, end) /\ UsedStay(H, Q, p - 1)
  BY <1>0, <1>1, GiveKeepsHeap
<1>3. ASSUME NEW k \in ptr \ {p}
      PROVE  /\ k \in Nat /\ k - 1 \in DOMAIN Q /\ Q[k - 1].used
             /\ Q[k - 1].para = H[k - 1].para
  <2>1. k \in Nat /\ k - 1 \in DOMAIN H /\ H[k - 1].used /\ k # p
    BY DEF Lent
  <2>2. k - 1 # p - 1
    BY <1>1, <2>1
  <2> QED
    BY <1>2, <2>1, <2>2 DEF UsedStay
<1>4. Lent(Q, ptr \ {p})
  BY <1>3 DEF Lent
<1>5. \A k \in ptr \ {p} : RegionOf(Q, k) = RegionOf(H, k)
  BY <1>3 DEF RegionOf
<1>6. \A k \in ptr : k # p => RegionOf(H, k) # RegionOf(H, p)
  BY DEF RegionOf
<1>7. /\ Regions(Q, ptr \ {p}) = {RegionOf(Q, k) : k \in ptr \ {p}}
      /\ Regions(H, ptr) = {RegionOf(H, k) : k \in ptr}
  BY RegionsAre
<1>8. /\ Regions(Q, ptr \ {p}) = Regions(H, ptr) \ {RegionOf(H, p)}
      /\ RegionOf(H, p) \in Regions(H, ptr)
  BY <1>5, <1>6, <1>7
<1> QED
  BY <1>2, <1>4, <1>8 DEF TakenBack

-----------------------------------------------------------------------------
(* The two heaps.                                                          *)

MemInv ==
    /\ mem_panic = ""
    /\ Heap(far, FarBase, FarEnd) /\ Lent(far, farptr)
    /\ Heap(dma, DmaBase, DmaEnd) /\ Lent(dma, dmaptr)

\* The paragraphs that a size needs: the 16 bits of kmalloc's count hold them.
LEMMA ParagraphsOf ==
    ASSUME NEW size \in Nat
    PROVE  /\ ROUND_TO_PARA(size) \in Nat
           /\ size <= KMALLOC_MAX => Uint16(ROUND_TO_PARA(size)) = ROUND_TO_PARA(size)
BY SMT DEF ROUND_TO_PARA, PARASIZE, KMALLOC_MAX, Uint16

LEMMA MemInitInv ==
    MemInit => MemInv /\ FarRegions = {} /\ DmaRegions = {}
<1> SUFFICES ASSUME MemInit PROVE MemInv /\ FarRegions = {} /\ DmaRegions = {}
  OBVIOUS
<1>0. /\ FarBase \in Nat /\ FarEnd \in Nat /\ FarBase < FarEnd
      /\ DmaBase \in Nat /\ DmaEnd \in Nat /\ DmaBase < DmaEnd /\ Nil \notin Nat
  BY MemoryAssumption
<1>1. Heap(far, FarBase, FarEnd)
  <2>1. Heap(mem_init(FarBase, FarEnd), FarBase, FarEnd)
    BY <1>0, InitIsHeap
  <2> QED
    BY <2>1, Zenon DEF MemInit
<1>2. Heap(dma, DmaBase, DmaEnd)
  <2>1. Heap(mem_init(DmaBase, DmaEnd), DmaBase, DmaEnd)
    BY <1>0, InitIsHeap
  <2> QED
    BY <2>1, Zenon DEF MemInit
<1>3. farptr = {} /\ dmaptr = {} /\ mem_panic = ""
  BY DEF MemInit
<1> QED
  BY <1>1, <1>2, <1>3 DEF MemInv, Lent, FarRegions, DmaRegions, Regions

\* What a call does to one heap, seen from an allocator.
Allocates(size, live, after, base, end) ==
    \E r \in [start : base..end, len : 0..(end - base)] :
        NewRegion(r, ROUND_TO_PARA(size), live, base, end) /\ after = live \cup {r}
Releases(p, live, after) == \E r \in live : r.start = p /\ after = live \ {r}

LEMMA KmallocStep ==
    ASSUME MemInv, NEW size \in Size, kmalloc(size)
    PROVE  /\ MemInv' /\ UNCHANGED <<dma, dmaptr>>
           /\ Allocates(size, FarRegions, FarRegions', FarBase, FarEnd)
<1> DEFINE sz == ROUND_TO_PARA(size)
           h == FirstFit(far, sz)
           r == RegionOf(far', ToPointer(h))
<1>1. size \in Nat /\ FarBase \in Nat /\ FarEnd \in Nat /\ Nil \notin Nat
  BY MemoryAssumption
<1>2. size <= KMALLOC_MAX
  BY Zenon DEF kmalloc
<1>3. sz \in Nat
  BY <1>1, ParagraphsOf
<1>4. Uint16(sz) = sz
  BY <1>1, <1>2, ParagraphsOf
<1>5. /\ Fits(far, sz) # {} /\ far' = Take(far, h, sz)
      /\ farptr' = farptr \cup {ToPointer(h)} /\ UNCHANGED <<dma, dmaptr, mem_panic>>
  BY <1>4, Zenon DEF kmalloc
<1>6. Heap(far, FarBase, FarEnd) /\ Lent(far, farptr)
  BY DEF MemInv
<1>7. h \in Fits(far, sz)
  BY <1>5, <1>6, FirstFitFits DEF Heap, HeapTypeOK
<1>8. sz = ROUND_TO_PARA(size)
  OBVIOUS
<1> HIDE DEF sz, h
<1>9. Heap(far', FarBase, FarEnd)
  BY <1>1, <1>3, <1>5, <1>6, <1>7, TakeKeepsHeap
<1>10. /\ Lent(far', farptr \cup {ToPointer(h)})
      /\ Regions(far', farptr \cup {ToPointer(h)}) = Regions(far, farptr) \cup {r}
      /\ NewRegion(r, sz, Regions(far, farptr), FarBase, FarEnd)
  <2>1. HandedOut(far, far', farptr, ToPointer(h), sz, FarBase, FarEnd)
    BY <1>1, <1>3, <1>5, <1>6, <1>7, TakeHandsOut
  <2> QED
    BY <2>1, Zenon DEF HandedOut
<1>11. MemInv'
  BY <1>5, <1>9, <1>10 DEF MemInv
<1>12. FarRegions' = FarRegions \cup {r}
  BY <1>5, <1>10 DEF FarRegions
<1>13. NewRegion(r, ROUND_TO_PARA(size), FarRegions, FarBase, FarEnd)
  BY <1>8, <1>10 DEF FarRegions
<1>14. r \in [start : FarBase..FarEnd, len : 0..(FarEnd - FarBase)]
  BY <1>13 DEF NewRegion
<1>15. Allocates(size, FarRegions, FarRegions', FarBase, FarEnd)
  BY <1>12, <1>13, <1>14 DEF Allocates
<1> QED
  BY <1>5, <1>11, <1>15

LEMMA DmaAllocStep ==
    ASSUME MemInv, NEW size \in Size, mem_dma_alloc(size)
    PROVE  /\ MemInv' /\ UNCHANGED <<far, farptr>>
           /\ Allocates(size, DmaRegions, DmaRegions', DmaBase, DmaEnd)
<1> DEFINE sz == ROUND_TO_PARA(size)
           h == FirstFit(dma, sz)
           r == RegionOf(dma', ToPointer(h))
<1>1. size \in Nat /\ DmaBase \in Nat /\ DmaEnd \in Nat /\ Nil \notin Nat
  BY MemoryAssumption
<1>3. sz \in Nat
  BY <1>1, ParagraphsOf
<1>4. /\ Fits(dma, sz) # {} /\ dma' = Take(dma, h, sz)
      /\ dmaptr' = dmaptr \cup {ToPointer(h)} /\ UNCHANGED <<far, farptr, mem_panic>>
  BY Zenon DEF mem_dma_alloc
<1>5. Heap(dma, DmaBase, DmaEnd) /\ Lent(dma, dmaptr)
  BY DEF MemInv
<1>6. h \in Fits(dma, sz)
  BY <1>4, <1>5, FirstFitFits DEF Heap, HeapTypeOK
<1>7. sz = ROUND_TO_PARA(size)
  OBVIOUS
<1> HIDE DEF sz, h
<1>8. Heap(dma', DmaBase, DmaEnd)
  BY <1>1, <1>3, <1>4, <1>5, <1>6, TakeKeepsHeap
<1>9. /\ Lent(dma', dmaptr \cup {ToPointer(h)})
      /\ Regions(dma', dmaptr \cup {ToPointer(h)}) = Regions(dma, dmaptr) \cup {r}
      /\ NewRegion(r, sz, Regions(dma, dmaptr), DmaBase, DmaEnd)
  <2>1. HandedOut(dma, dma', dmaptr, ToPointer(h), sz, DmaBase, DmaEnd)
    BY <1>1, <1>3, <1>4, <1>5, <1>6, TakeHandsOut
  <2> QED
    BY <2>1, Zenon DEF HandedOut
<1>10. MemInv'
  BY <1>4, <1>8, <1>9 DEF MemInv
<1>11. DmaRegions' = DmaRegions \cup {r}
  BY <1>4, <1>9 DEF DmaRegions
<1>12. NewRegion(r, ROUND_TO_PARA(size), DmaRegions, DmaBase, DmaEnd)
  BY <1>7, <1>9 DEF DmaRegions
<1>13. r \in [start : DmaBase..DmaEnd, len : 0..(DmaEnd - DmaBase)]
  BY <1>12 DEF NewRegion
<1>14. Allocates(size, DmaRegions, DmaRegions', DmaBase, DmaEnd)
  BY <1>11, <1>12, <1>13 DEF Allocates
<1> QED
  BY <1>4, <1>10, <1>14

LEMMA KfreeStep ==
    ASSUME MemInv, NEW p \in farptr, kfree(p)
    PROVE  /\ MemInv' /\ UNCHANGED <<dma, dmaptr>>
           /\ Releases(p, FarRegions, FarRegions')
<1>1. FarBase \in Nat /\ FarEnd \in Nat /\ Nil \notin Nat
  BY MemoryAssumption
<1>2. Heap(far, FarBase, FarEnd) /\ Lent(far, farptr)
  BY DEF MemInv
<1>3. p - 1 \in DOMAIN far
  BY <1>2 DEF Lent
<1>4. /\ far' = Give(far, ToHeader(p)) /\ farptr' = farptr \ {p}
      /\ mem_panic' = "" /\ UNCHANGED <<dma, dmaptr>>
  BY <1>3 DEF kfree, ToHeader
<1>5. /\ Heap(far', FarBase, FarEnd) /\ Lent(far', farptr \ {p})
      /\ Regions(far', farptr \ {p}) = Regions(far, farptr) \ {RegionOf(far, p)}
      /\ RegionOf(far, p) \in Regions(far, farptr)
  <2>1. TakenBack(far, far', farptr, p, FarBase, FarEnd)
    BY <1>1, <1>2, <1>4, GiveTakesBack
  <2> QED
    BY <2>1, Zenon DEF TakenBack
<1>6. MemInv'
  BY <1>4, <1>5 DEF MemInv
<1>7. Releases(p, FarRegions, FarRegions')
  BY <1>4, <1>5 DEF Releases, FarRegions, RegionOf
<1> QED
  BY <1>4, <1>6, <1>7

LEMMA DmaFreeStep ==
    ASSUME MemInv, NEW p \in dmaptr, mem_dma_free(p)
    PROVE  /\ MemInv' /\ UNCHANGED <<far, farptr>>
           /\ Releases(p, DmaRegions, DmaRegions')
<1>1. DmaBase \in Nat /\ DmaEnd \in Nat /\ Nil \notin Nat
  BY MemoryAssumption
<1>2. Heap(dma, DmaBase, DmaEnd) /\ Lent(dma, dmaptr)
  BY DEF MemInv
<1>3. p - 1 \in DOMAIN dma
  BY <1>2 DEF Lent
<1>4. /\ dma' = Give(dma, ToHeader(p)) /\ dmaptr' = dmaptr \ {p}
      /\ mem_panic' = "" /\ UNCHANGED <<far, farptr>>
  BY <1>3 DEF mem_dma_free, ToHeader
<1>5. /\ Heap(dma', DmaBase, DmaEnd) /\ Lent(dma', dmaptr \ {p})
      /\ Regions(dma', dmaptr \ {p}) = Regions(dma, dmaptr) \ {RegionOf(dma, p)}
      /\ RegionOf(dma, p) \in Regions(dma, dmaptr)
  <2>1. TakenBack(dma, dma', dmaptr, p, DmaBase, DmaEnd)
    BY <1>1, <1>2, <1>4, GiveTakesBack
  <2> QED
    BY <2>1, Zenon DEF TakenBack
<1>6. MemInv'
  BY <1>4, <1>5 DEF MemInv
<1>7. Releases(p, DmaRegions, DmaRegions')
  BY <1>4, <1>5 DEF Releases, DmaRegions, RegionOf
<1> QED
  BY <1>4, <1>6, <1>7

LEMMA MemStep == MemInv /\ [MemNext]_memvars => MemInv'
<1> SUFFICES ASSUME MemInv, [MemNext]_memvars PROVE MemInv'
  OBVIOUS
<1>1. ASSUME NEW size \in Size, kmalloc(size) PROVE MemInv'
  BY <1>1, KmallocStep
<1>2. ASSUME NEW size \in Size, mem_dma_alloc(size) PROVE MemInv'
  BY <1>2, DmaAllocStep
<1>3. ASSUME NEW p \in farptr, kfree(p) PROVE MemInv'
  BY <1>3, KfreeStep
<1>4. ASSUME NEW p \in dmaptr, mem_dma_free(p) PROVE MemInv'
  BY <1>4, DmaFreeStep
<1>5. CASE UNCHANGED memvars
  BY <1>5 DEF memvars, MemInv
<1> QED
  BY <1>1, <1>2, <1>3, <1>4, <1>5 DEF MemNext

\* A region of as many paragraphs as a size needs holds that size.
LEMMA HoldsSize ==
    ASSUME NEW size \in Nat, NEW len \in Nat, len >= ROUND_TO_PARA(size)
    PROVE  len * PARASIZE >= size
BY SMT DEF ROUND_TO_PARA, PARASIZE

\* The calls are those of an allocator.
LEMMA KmallocAllocates ==
    ASSUME MemInv, NEW size \in Size, kmalloc(size)
    PROVE  FarAllocator!Allocate(size)
<1>1. PICK r \in [start : FarBase..FarEnd, len : 0..(FarEnd - FarBase)] :
          /\ NewRegion(r, ROUND_TO_PARA(size), FarRegions, FarBase, FarEnd)
          /\ FarRegions' = FarRegions \cup {r}
  BY KmallocStep DEF Allocates
<1>2. r.len * PARASIZE >= size
  BY <1>1, HoldsSize, MemoryAssumption DEF NewRegion
<1> QED
  BY <1>1, <1>2 DEF FarAllocator!Allocate, FarAllocator!Region,
                    FarAllocator!Paragraphs, NewRegion

LEMMA DmaAllocAllocates ==
    ASSUME MemInv, NEW size \in Size, mem_dma_alloc(size)
    PROVE  DmaAllocator!Allocate(size)
<1>1. PICK r \in [start : DmaBase..DmaEnd, len : 0..(DmaEnd - DmaBase)] :
          /\ NewRegion(r, ROUND_TO_PARA(size), DmaRegions, DmaBase, DmaEnd)
          /\ DmaRegions' = DmaRegions \cup {r}
  BY DmaAllocStep DEF Allocates
<1>2. r.len * PARASIZE >= size
  BY <1>1, HoldsSize, MemoryAssumption DEF NewRegion
<1> QED
  BY <1>1, <1>2 DEF DmaAllocator!Allocate, DmaAllocator!Region,
                    DmaAllocator!Paragraphs, NewRegion

LEMMA KfreeReleases ==
    ASSUME MemInv, NEW p \in farptr, kfree(p)
    PROVE  FarAllocator!Release(p) /\ \E r \in FarRegions : r.start = p
BY KfreeStep DEF Releases, FarAllocator!Release

LEMMA DmaFreeReleases ==
    ASSUME MemInv, NEW p \in dmaptr, mem_dma_free(p)
    PROVE  DmaAllocator!Release(p) /\ \E r \in DmaRegions : r.start = p
BY DmaFreeStep DEF Releases, DmaAllocator!Release

\* The steps of each heap, as ImplementsAllocator says them.
FarCall ==
    \/ UNCHANGED far
    \/ /\ \A size \in Size : kmalloc(size) => FarAllocator!Allocate(size)
       /\ \A p \in farptr : kfree(p) => FarAllocator!Release(p)
       /\ FarAllocator!Next
DmaCall ==
    \/ UNCHANGED dma
    \/ /\ \A size \in Size : mem_dma_alloc(size) => DmaAllocator!Allocate(size)
       /\ \A p \in dmaptr : mem_dma_free(p) => DmaAllocator!Release(p)
       /\ DmaAllocator!Next

LEMMA FarAllocates == MemInv /\ [MemNext]_memvars => [FarCall]_<<far, farptr>>
<1> SUFFICES ASSUME MemInv, [MemNext]_memvars, ~ UNCHANGED <<far, farptr>>
             PROVE  FarCall
  OBVIOUS
<1>1. \A size \in Size : kmalloc(size) => FarAllocator!Allocate(size)
  BY KmallocAllocates
<1>2. \A p \in farptr : kfree(p) => /\ FarAllocator!Release(p)
                                   /\ \E r \in FarRegions : r.start = p
  BY KfreeReleases
<1>3. FarAllocator!Next
  <2>1. ASSUME NEW size \in Size, kmalloc(size) PROVE FarAllocator!Next
    BY <1>1, <2>1 DEF FarAllocator!Next
  <2>2. ASSUME NEW p \in farptr, kfree(p) PROVE FarAllocator!Next
    BY <1>2, <2>2 DEF FarAllocator!Next
  <2>3. ASSUME NEW size \in Size, mem_dma_alloc(size) PROVE FALSE
    BY <2>3 DEF mem_dma_alloc
  <2>4. ASSUME NEW p \in dmaptr, mem_dma_free(p) PROVE FALSE
    BY <2>4 DEF mem_dma_free
  <2> QED
    BY <2>1, <2>2, <2>3, <2>4 DEF MemNext, memvars
<1> QED
  BY <1>1, <1>2, <1>3 DEF FarCall

LEMMA DmaAllocates == MemInv /\ [MemNext]_memvars => [DmaCall]_<<dma, dmaptr>>
<1> SUFFICES ASSUME MemInv, [MemNext]_memvars, ~ UNCHANGED <<dma, dmaptr>>
             PROVE  DmaCall
  OBVIOUS
<1>1. \A size \in Size : mem_dma_alloc(size) => DmaAllocator!Allocate(size)
  BY DmaAllocAllocates
<1>2. \A p \in dmaptr : mem_dma_free(p) => /\ DmaAllocator!Release(p)
                                          /\ \E r \in DmaRegions : r.start = p
  BY DmaFreeReleases
<1>3. DmaAllocator!Next
  <2>1. ASSUME NEW size \in Size, mem_dma_alloc(size) PROVE DmaAllocator!Next
    BY <1>1, <2>1 DEF DmaAllocator!Next
  <2>2. ASSUME NEW p \in dmaptr, mem_dma_free(p) PROVE DmaAllocator!Next
    BY <1>2, <2>2 DEF DmaAllocator!Next
  <2>3. ASSUME NEW size \in Size, kmalloc(size) PROVE FALSE
    BY <2>3 DEF kmalloc
  <2>4. ASSUME NEW p \in farptr, kfree(p) PROVE FALSE
    BY <2>4 DEF kfree
  <2> QED
    BY <2>1, <2>2, <2>3, <2>4 DEF MemNext, memvars
<1> QED
  BY <1>1, <1>2, <1>3 DEF DmaCall

\* The blocks of both heaps of MEMORY.C always lie one behind the other and
\* fill the heap, and no two neighbours are free.
THEOREM HeapsStayTiled == MemSpec => []HeapsAreTiled
<1>1. MemInit => MemInv
  BY MemInitInv
<1>2. MemInv /\ [MemNext]_memvars => MemInv'
  BY MemStep
<1>3. MemInv => HeapsAreTiled
  BY DEF MemInv, Heap, HeapsAreTiled
<1> QED
  BY <1>1, <1>2, <1>3, PTL DEF MemSpec

\* kmalloc and kfree, and mem_dma_alloc and mem_dma_free, are the calls of an
\* allocator: a call for some size hands out a region that holds that size,
\* lies in the heap and has nothing in common with those that are out.
THEOREM HeapsAllocate == MemSpec => ImplementsAllocator
<1>1. MemInit => MemInv /\ FarAllocator!Init /\ DmaAllocator!Init
  BY MemInitInv DEF FarAllocator!Init, DmaAllocator!Init
<1>2. MemInv /\ [MemNext]_memvars => MemInv'
  BY MemStep
<1>3. MemInv /\ [MemNext]_memvars => [FarCall]_<<far, farptr>>
  BY FarAllocates
<1>4. MemInv /\ [MemNext]_memvars => [DmaCall]_<<dma, dmaptr>>
  BY DmaAllocates
<1> QED
  BY <1>1, <1>2, <1>3, <1>4, PTL
     DEF MemSpec, ImplementsAllocator, FarCall, DmaCall

-----------------------------------------------------------------------------
(* The heap of a program: malloc.c.                                        *)

\* A ring of blocks from HeapBase to HeapEnd.  Beyond what UserHeapTiled
\* says: no header lies inside a block, and every header is the next of one.
HeapEnd == Pub(HeapBase) + HeapBytes
UHeaderRecord == [next : Nat, bytes : Nat, used : BOOLEAN]
RingTypeOK(B) ==
    /\ DOMAIN B \subseteq Nat /\ HeapBase \in DOMAIN B
    /\ B \in [DOMAIN B -> UHeaderRecord]
    /\ \A h \in DOMAIN B : HeapBase <= h
BlockEnd(B, h) == Pub(h) + B[h].bytes
RingTiles(B) ==
    \A h \in DOMAIN B :
        /\ BlockEnd(B, h) <= HeapEnd
        /\ B[h].next = IF BlockEnd(B, h) = HeapEnd THEN HeapBase ELSE BlockEnd(B, h)
        /\ B[h].next \in DOMAIN B
RingApart(B) == \A h, g \in DOMAIN B : h < g => BlockEnd(B, h) <= g
RingCloses(B) == \A g \in DOMAIN B : \E h \in DOMAIN B : B[h].next = g
Ring(B) == RingTypeOK(B) /\ RingTiles(B) /\ RingApart(B) /\ RingCloses(B)

\* What the program holds is exactly the blocks in use.
Used(B) == {h \in DOMAIN B : B[h].used}
Holds(B, P) ==
    /\ P \subseteq [at : Nat, asked : Nat]
    /\ \A u \in P : \E h \in Used(B) : u.at = Pub(h) /\ B[h].bytes >= u.asked
    /\ \A h \in Used(B) : \E u \in P : u.at = Pub(h)
    /\ \A u, v \in P : u.at = v.at => u = v

\* The inductive invariant.
UserHeapInv == torn # "" \/ (Ring(ublk) /\ Holds(ublk, uptr))

\* What the parts of Ring say of one header.
LEMMA RingFacts ==
    ASSUME NEW B, Ring(B), NEW h \in DOMAIN B
    PROVE  /\ h \in Nat /\ HeapBase \in Nat /\ HeapEnd \in Nat /\ HeapBase <= h
           /\ B[h].bytes \in Nat /\ B[h].used \in BOOLEAN /\ B[h].next \in Nat
           /\ Pub(h) = h + 4 /\ BlockEnd(B, h) = h + 4 + B[h].bytes
           /\ BlockEnd(B, h) <= HeapEnd /\ B[h].next \in DOMAIN B
           /\ h < B[h].next => B[h].next = BlockEnd(B, h) /\ B[h].next < HeapEnd
           /\ ~ (h < B[h].next) => B[h].next = HeapBase /\ BlockEnd(B, h) = HeapEnd
           /\ \A g \in DOMAIN B : h < g => BlockEnd(B, h) <= g
<1>1. /\ HeapBase \in Nat /\ HeapBytes \in Nat /\ HeapEnd = HeapBase + 4 + HeapBytes
  BY UserHeapAssumption DEF HeapEnd, Pub, HBHDR
<1>2. h \in Nat /\ HeapBase <= h /\ B[h] \in UHeaderRecord
  BY DEF Ring, RingTypeOK
<1>3. B[h].bytes \in Nat /\ B[h].used \in BOOLEAN /\ B[h].next \in Nat
  BY <1>2 DEF UHeaderRecord
<1>4. Pub(h) = h + 4 /\ BlockEnd(B, h) = h + 4 + B[h].bytes
  BY DEF Pub, HBHDR, BlockEnd
<1>5. /\ BlockEnd(B, h) <= HeapEnd /\ B[h].next \in DOMAIN B
      /\ B[h].next = IF BlockEnd(B, h) = HeapEnd THEN HeapBase ELSE BlockEnd(B, h)
  BY DEF Ring, RingTiles
<1>6. \A g \in DOMAIN B : h < g => BlockEnd(B, h) <= g
  BY DEF Ring, RingApart
<1> QED
  BY <1>1, <1>2, <1>3, <1>4, <1>5, <1>6

\* The block that start.asm sets up is a ring.
LEMMA StartIsRing ==
    HeapInit => Ring(ublk) /\ Holds(ublk, uptr)
<1> SUFFICES ASSUME HeapInit PROVE Ring(ublk) /\ Holds(ublk, uptr)
  OBVIOUS
<1>1. /\ HeapBase \in Nat /\ HeapBytes \in Nat
  BY UserHeapAssumption
<1>2. /\ DOMAIN ublk = {HeapBase} /\ uptr = {}
      /\ ublk[HeapBase] = [next |-> HeapBase, bytes |-> HeapBytes, used |-> FALSE]
      /\ ublk \in [{HeapBase} -> UHeaderRecord]
  BY <1>1 DEF HeapInit, UHeader, UHeaderRecord
<1>3. BlockEnd(ublk, HeapBase) = HeapEnd
  BY <1>2 DEF BlockEnd, HeapEnd
<1>4. HeapEnd \in Nat
  BY <1>1 DEF HeapEnd, Pub, HBHDR
<1>5. RingTypeOK(ublk)
  BY <1>1, <1>2 DEF RingTypeOK
<1>6. RingTiles(ublk)
  BY <1>2, <1>3, <1>4 DEF RingTiles
<1>7. RingApart(ublk) /\ RingCloses(ublk)
  BY <1>1, <1>2 DEF RingApart, RingCloses
<1>8. Holds(ublk, uptr)
  BY <1>2 DEF Holds, Used
<1> QED
  BY <1>5, <1>6, <1>7, <1>8 DEF Ring

\* The search finds a free block that is large enough, if there is one.
LEMMA FirstRoomFits ==
    ASSUME NEW B, Ring(B), NEW bytes, Roomy(B, bytes) # {}
    PROVE  LET h == FirstRoom(B, bytes) IN
           h \in DOMAIN B /\ ~ B[h].used /\ B[h].bytes >= bytes
<1>1. Roomy(B, bytes) \subseteq Nat
  BY DEF Roomy, Ring, RingTypeOK
<1>2. \E h \in Roomy(B, bytes) : \A g \in Roomy(B, bytes) : h <= g
  BY <1>1, LeastHeader
<1>3. FirstRoom(B, bytes) \in Roomy(B, bytes)
  BY <1>2 DEF FirstRoom
<1> QED
  BY <1>3 DEF Roomy

\* Marking a block changes nothing but the mark.
Marked(B, Q, h, mark) ==
    /\ DOMAIN Q = DOMAIN B
    /\ \A x \in DOMAIN B : Q[x].next = B[x].next /\ Q[x].bytes = B[x].bytes
    /\ \A x \in DOMAIN B \ {h} : Q[x].used = B[x].used
    /\ Q[h].used = mark

LEMMA MarkIs ==
    ASSUME NEW B, Ring(B), NEW h \in DOMAIN B, NEW mark \in BOOLEAN,
           NEW Q, Q = Mark(B, h, mark)
    PROVE  Marked(B, Q, h, mark) /\ Q \in [DOMAIN Q -> UHeaderRecord]
<1>1. B \in [DOMAIN B -> UHeaderRecord]
  BY DEF Ring, RingTypeOK
<1> DEFINE r == [B[h] EXCEPT !.used = mark]
<1>2. B[h] \in UHeaderRecord
  BY <1>1
<1>3. r \in UHeaderRecord /\ r.next = B[h].next /\ r.bytes = B[h].bytes /\ r.used = mark
  BY <1>2 DEF UHeaderRecord
<1>4. Q = [B EXCEPT ![h] = r]
  BY DEF Mark
<1> HIDE DEF r
<1>5. /\ DOMAIN Q = DOMAIN B /\ Q[h] = r /\ \A x \in DOMAIN B \ {h} : Q[x] = B[x]
      /\ Q \in [DOMAIN Q -> UHeaderRecord]
  BY <1>1, <1>3, <1>4
<1> QED
  BY <1>3, <1>5 DEF Marked

LEMMA MarkKeepsRing ==
    ASSUME NEW B, Ring(B), NEW h \in DOMAIN B, NEW mark \in BOOLEAN,
           NEW Q, Q = Mark(B, h, mark)
    PROVE  Ring(Q)
<1>1. Marked(B, Q, h, mark) /\ Q \in [DOMAIN Q -> UHeaderRecord]
  BY MarkIs
<1>2. /\ DOMAIN Q = DOMAIN B
      /\ \A x \in DOMAIN B : Q[x].next = B[x].next /\ Q[x].bytes = B[x].bytes
  BY <1>1 DEF Marked
<1>3. \A x \in DOMAIN B : BlockEnd(Q, x) = BlockEnd(B, x)
  BY <1>2 DEF BlockEnd
<1>4. RingTypeOK(B) /\ RingTiles(B) /\ RingApart(B) /\ RingCloses(B)
  BY DEF Ring
<1>5. RingTypeOK(Q)
  BY <1>1, <1>2, <1>4 DEF RingTypeOK
<1>6. RingTiles(Q)
  BY <1>2, <1>3, <1>4 DEF RingTiles
<1>7. RingApart(Q) /\ RingCloses(Q)
  BY <1>2, <1>3, <1>4 DEF RingApart, RingCloses
<1> QED
  BY <1>5, <1>6, <1>7 DEF Ring

\* Block h of B is cut: it keeps bytes, and a free block n takes the rest.
CutInTwo(B, Q, h, n, bytes, rest) ==
    /\ n \notin DOMAIN B /\ DOMAIN Q = DOMAIN B \cup {n}
    /\ Q[h].next = n /\ Q[h].bytes = bytes /\ Q[h].used
    /\ Q[n].next = B[h].next /\ Q[n].bytes = rest /\ ~ Q[n].used
    /\ \A x \in DOMAIN B \ {h} : Q[x] = B[x]

LEMMA CutIs ==
    ASSUME NEW B, Ring(B), NEW h \in DOMAIN B, NEW bytes \in Nat, NEW rest \in Nat,
           B[h].bytes = bytes + 4 + rest,
           NEW Q, Q = Cut(B, h, bytes, rest, B[h].next)
    PROVE  /\ CutInTwo(B, Q, h, Pub(h) + bytes, bytes, rest)
           /\ Q \in [DOMAIN Q -> UHeaderRecord]
<1> DEFINE n == Pub(h) + bytes
           r == UHeader(n, bytes, TRUE)
           f == UHeader(B[h].next, rest, FALSE)
<1>1. /\ h \in Nat /\ B[h].next \in Nat /\ n = h + 4 + bytes
      /\ BlockEnd(B, h) = h + 4 + B[h].bytes
      /\ \A g \in DOMAIN B : h < g => BlockEnd(B, h) <= g
  BY RingFacts
<1>2. n \in Nat /\ h < n /\ n < BlockEnd(B, h)
  BY <1>1
<1>3. n \notin DOMAIN B /\ n # h
  BY <1>1, <1>2
<1>4. /\ r \in UHeaderRecord /\ r.next = n /\ r.bytes = bytes /\ r.used
      /\ f \in UHeaderRecord /\ f.next = B[h].next /\ f.bytes = rest /\ ~ f.used
  BY <1>1, <1>2 DEF UHeader, UHeaderRecord
<1>5. Q = [x \in DOMAIN B \cup {n} |-> IF x = h THEN r ELSE IF x = n THEN f ELSE B[x]]
  BY DEF Cut
<1> HIDE DEF r, f, n
<1>6. /\ DOMAIN Q = DOMAIN B \cup {n} /\ Q[h] = r /\ Q[n] = f
      /\ \A x \in DOMAIN B \ {h} : Q[x] = B[x]
  BY <1>3, <1>5
<1>7. \A x \in DOMAIN B : B[x] \in UHeaderRecord
  BY DEF Ring, RingTypeOK
<1>8. Q \in [DOMAIN Q -> UHeaderRecord]
  BY <1>4, <1>5, <1>6, <1>7
<1>9. CutInTwo(B, Q, h, n, bytes, rest)
  BY <1>3, <1>4, <1>6 DEF CutInTwo
<1> QED
  BY <1>8, <1>9 DEF n

LEMMA CutKeepsRing ==
    ASSUME NEW B, Ring(B), NEW h \in DOMAIN B, NEW bytes \in Nat, NEW rest \in Nat,
           B[h].bytes = bytes + 4 + rest,
           NEW Q, Q = Cut(B, h, bytes, rest, B[h].next)
    PROVE  Ring(Q)
<1>0. PICK n : n = Pub(h) + bytes
  OBVIOUS
<1>1. CutInTwo(B, Q, h, n, bytes, rest) /\ Q \in [DOMAIN Q -> UHeaderRecord]
  BY <1>0, CutIs
<1>2. /\ n \notin DOMAIN B /\ DOMAIN Q = DOMAIN B \cup {n}
      /\ Q[h].next = n /\ Q[h].bytes = bytes
      /\ Q[n].next = B[h].next /\ Q[n].bytes = rest
      /\ \A x \in DOMAIN B \ {h} : Q[x] = B[x]
  BY <1>1 DEF CutInTwo
<1>3. /\ h \in Nat /\ HeapBase \in Nat /\ HeapEnd \in Nat /\ HeapBase <= h
      /\ B[h].bytes \in Nat /\ Pub(h) = h + 4
      /\ BlockEnd(B, h) = h + 4 + B[h].bytes /\ BlockEnd(B, h) <= HeapEnd
      /\ B[h].next \in DOMAIN B
      /\ \A g \in DOMAIN B : h < g => BlockEnd(B, h) <= g
  BY RingFacts
<1>4. n = h + 4 + bytes /\ n \in Nat /\ h < n /\ n + 4 + rest = BlockEnd(B, h)
  BY <1>0, <1>3
<1>5. /\ BlockEnd(Q, h) = n /\ BlockEnd(Q, n) = BlockEnd(B, h)
      /\ \A x \in DOMAIN B \ {h} : BlockEnd(Q, x) = BlockEnd(B, x)
  BY <1>2, <1>3, <1>4 DEF BlockEnd, Pub, HBHDR
<1>6. RingTypeOK(B) /\ RingTiles(B) /\ RingApart(B) /\ RingCloses(B)
  BY DEF Ring
<1>7. RingTypeOK(Q)
  BY <1>1, <1>2, <1>3, <1>4, <1>6 DEF RingTypeOK
<1>8. RingTiles(Q)
  <2> SUFFICES ASSUME NEW x \in DOMAIN Q
               PROVE  /\ BlockEnd(Q, x) <= HeapEnd
                      /\ Q[x].next = IF BlockEnd(Q, x) = HeapEnd THEN HeapBase
                                     ELSE BlockEnd(Q, x)
                      /\ Q[x].next \in DOMAIN Q
    BY DEF RingTiles
  <2>1. CASE x = h
    BY <2>1, <1>2, <1>3, <1>4, <1>5
  <2>2. CASE x = n
    BY <2>2, <1>2, <1>5, <1>6 DEF RingTiles
  <2>3. CASE x # h /\ x # n
    BY <2>3, <1>2, <1>5, <1>6 DEF RingTiles
  <2> QED
    BY <2>1, <2>2, <2>3
<1>9. RingApart(Q)
  <2> SUFFICES ASSUME NEW x \in DOMAIN Q, NEW y \in DOMAIN Q, x < y
               PROVE  BlockEnd(Q, x) <= y
    BY DEF RingApart
  <2>1. x \in Nat /\ y \in Nat
    BY <1>7 DEF RingTypeOK
  <2>2. CASE x = h
    BY <2>1, <2>2, <1>2, <1>3, <1>4, <1>5
  <2>3. CASE x = n
    BY <2>1, <2>3, <1>2, <1>3, <1>4, <1>5
  <2>4. CASE x # h /\ x # n
    <3>1. x \in DOMAIN B /\ BlockEnd(Q, x) = BlockEnd(B, x)
      BY <2>4, <1>2, <1>5
    <3>2. CASE y \in DOMAIN B
      BY <3>1, <3>2, <1>6 DEF RingApart
    <3>3. CASE y = n
      <4>1. ~ (h < x)
        BY <3>1, <3>3, <2>1, <1>3, <1>4
      <4>2. x < h
        BY <4>1, <2>1, <2>4, <1>3
      <4>3. BlockEnd(B, x) <= h /\ BlockEnd(B, x) \in Nat
        BY <3>1, <4>2, RingFacts
      <4> QED
        BY <3>1, <3>3, <4>3, <1>3, <1>4
    <3> QED
      BY <3>2, <3>3, <1>2
  <2> QED
    BY <2>2, <2>3, <2>4
<1>10. RingCloses(Q)
  <2> SUFFICES ASSUME NEW g \in DOMAIN Q
               PROVE  \E x \in DOMAIN Q : Q[x].next = g
    BY DEF RingCloses
  <2>1. CASE g = n
    BY <2>1, <1>2
  <2>2. CASE g # n
    <3>1. PICK x \in DOMAIN B : B[x].next = g
      BY <2>2, <1>2, <1>6 DEF RingCloses
    <3>2. CASE x = h
      BY <3>1, <3>2, <1>2
    <3>3. CASE x # h
      BY <3>1, <3>3, <1>2
    <3> QED
      BY <3>2, <3>3
  <2> QED
    BY <2>1, <2>2
<1> QED
  BY <1>7, <1>8, <1>9, <1>10 DEF Ring

\* Block h of B has swallowed the one behind it.
Swallowed(B, Q, h, n) ==
    /\ h < n /\ n \in DOMAIN B /\ DOMAIN Q = DOMAIN B \ {n} /\ h \in DOMAIN Q
    /\ Q[h].next = B[n].next /\ Q[h].bytes = B[h].bytes + 4 + B[n].bytes
    /\ Q[h].used = B[h].used
    /\ \A x \in DOMAIN B \ {h, n} : Q[x] = B[x]

LEMMA SwallowIs ==
    ASSUME NEW B, Ring(B), NEW h \in DOMAIN B, Behind(h, B[h].next),
           NEW Q, Q = Swallow(B, h)
    PROVE  Swallowed(B, Q, h, B[h].next) /\ Q \in [DOMAIN Q -> UHeaderRecord]
<1>0. PICK n : n = B[h].next
  OBVIOUS
<1>1. h \in Nat /\ n \in DOMAIN B /\ B[h].bytes \in Nat /\ B[h].used \in BOOLEAN /\ h < n
  BY <1>0, RingFacts DEF Behind
<1>2. n \in Nat /\ B[n].bytes \in Nat /\ B[n].next \in Nat
  BY <1>1, RingFacts
<1> DEFINE r == UHeader(B[n].next, B[h].bytes + HBHDR + B[n].bytes, B[h].used)
<1>3. /\ r \in UHeaderRecord /\ r.next = B[n].next /\ r.used = B[h].used
      /\ r.bytes = B[h].bytes + 4 + B[n].bytes
  BY <1>1, <1>2 DEF UHeader, UHeaderRecord, HBHDR
<1>4. Q = [x \in DOMAIN B \ {n} |-> IF x = h THEN r ELSE B[x]]
  BY <1>0 DEF Swallow
<1> HIDE DEF r
<1>5. h # n
  BY <1>1, <1>2
<1>6. /\ DOMAIN Q = DOMAIN B \ {n} /\ h \in DOMAIN Q /\ Q[h] = r
      /\ \A x \in DOMAIN B \ {h, n} : Q[x] = B[x]
  BY <1>4, <1>5
<1>7. \A x \in DOMAIN B : B[x] \in UHeaderRecord
  BY DEF Ring, RingTypeOK
<1>8. Q \in [DOMAIN Q -> UHeaderRecord]
  BY <1>3, <1>4, <1>6, <1>7
<1>9. Swallowed(B, Q, h, n)
  BY <1>1, <1>3, <1>6 DEF Swallowed
<1> QED
  BY <1>0, <1>8, <1>9

LEMMA SwallowKeepsRing ==
    ASSUME NEW B, Ring(B), NEW h \in DOMAIN B, Behind(h, B[h].next),
           NEW Q, Q = Swallow(B, h)
    PROVE  Ring(Q)
<1>0. PICK n : n = B[h].next
  OBVIOUS
<1>1. Swallowed(B, Q, h, n) /\ Q \in [DOMAIN Q -> UHeaderRecord]
  BY <1>0, SwallowIs
<1>2. /\ h < n /\ n \in DOMAIN B /\ DOMAIN Q = DOMAIN B \ {n} /\ h \in DOMAIN Q
      /\ Q[h].next = B[n].next /\ Q[h].bytes = B[h].bytes + 4 + B[n].bytes
      /\ \A x \in DOMAIN B \ {h, n} : Q[x] = B[x]
  BY <1>1 DEF Swallowed
<1>3. /\ h \in Nat /\ HeapBase \in Nat /\ HeapBase <= h /\ B[h].bytes \in Nat
      /\ BlockEnd(B, h) = h + 4 + B[h].bytes /\ n = BlockEnd(B, h)
      /\ \A g \in DOMAIN B : h < g => BlockEnd(B, h) <= g
  BY <1>0, <1>2, RingFacts
<1>4. /\ n \in Nat /\ B[n].bytes \in Nat /\ BlockEnd(B, n) = n + 4 + B[n].bytes
      /\ \A g \in DOMAIN B : n < g => BlockEnd(B, n) <= g
  BY <1>2, RingFacts
<1>5. /\ BlockEnd(Q, h) = BlockEnd(B, n)
      /\ \A x \in DOMAIN B \ {h, n} : BlockEnd(Q, x) = BlockEnd(B, x)
  BY <1>2, <1>3, <1>4 DEF BlockEnd, Pub, HBHDR
<1>6. RingTypeOK(B) /\ RingTiles(B) /\ RingApart(B) /\ RingCloses(B)
  BY DEF Ring
<1>7. \A x \in DOMAIN B \ {h} : B[x].next # n
  <2> SUFFICES ASSUME NEW x \in DOMAIN B, x # h, B[x].next = n PROVE FALSE
    OBVIOUS
  <2>1. /\ x \in Nat /\ B[x].bytes \in Nat /\ BlockEnd(B, x) = x + 4 + B[x].bytes
        /\ x < h => BlockEnd(B, x) <= h
        /\ x < n => n = BlockEnd(B, x)
        /\ ~ (x < n) => n = HeapBase
    BY RingFacts
  <2>2. x < n
    BY <2>1, <1>2, <1>3
  <2>3. ~ (x < h)
    BY <2>1, <2>2, <1>2, <1>3, <1>4
  <2>4. h < x
    BY <2>1, <2>3, <1>3
  <2>5. BlockEnd(B, h) <= x
    BY <2>4, <1>3
  <2> QED
    BY <2>1, <2>2, <2>5, <1>3
<1>8. RingTypeOK(Q)
  <2>1. HeapBase # n
    BY <1>2, <1>3
  <2> QED
    BY <2>1, <1>1, <1>2, <1>6 DEF RingTypeOK
<1>9. RingTiles(Q)
  <2> SUFFICES ASSUME NEW x \in DOMAIN Q
               PROVE  /\ BlockEnd(Q, x) <= HeapEnd
                      /\ Q[x].next = IF BlockEnd(Q, x) = HeapEnd THEN HeapBase
                                     ELSE BlockEnd(Q, x)
                      /\ Q[x].next \in DOMAIN Q
    BY DEF RingTiles
  <2>1. CASE x = h
    <3>1. B[n].next # n
      <4>1. HeapBase # n /\ BlockEnd(B, n) # n
        BY <1>2, <1>3, <1>4
      <4> QED
        BY <4>1, <1>2, <1>6 DEF RingTiles
    <3> QED
      BY <2>1, <3>1, <1>2, <1>5, <1>6 DEF RingTiles
  <2>2. CASE x # h
    BY <2>2, <1>2, <1>5, <1>6, <1>7 DEF RingTiles
  <2> QED
    BY <2>1, <2>2
<1>10. RingApart(Q)
  <2> SUFFICES ASSUME NEW x \in DOMAIN Q, NEW y \in DOMAIN Q, x < y
               PROVE  BlockEnd(Q, x) <= y
    BY DEF RingApart
  <2>1. x \in Nat /\ y \in Nat
    BY <1>8 DEF RingTypeOK
  <2>2. CASE x = h
    <3>1. BlockEnd(B, h) <= y /\ y # n
      BY <2>2, <1>2, <1>3
    <3>2. n < y
      BY <3>1, <2>1, <1>3, <1>4
    <3> QED
      BY <2>2, <3>2, <1>2, <1>4, <1>5
  <2>3. CASE x # h
    BY <2>3, <1>2, <1>5, <1>6 DEF RingApart
  <2> QED
    BY <2>2, <2>3
<1>11. RingCloses(Q)
  <2> SUFFICES ASSUME NEW g \in DOMAIN Q
               PROVE  \E x \in DOMAIN Q : Q[x].next = g
    BY DEF RingCloses
  <2>1. PICK x \in DOMAIN B : B[x].next = g
    BY <1>2, <1>6 DEF RingCloses
  <2>2. CASE x = n
    BY <2>1, <2>2, <1>2
  <2>3. CASE x # n
    <3>1. x # h
      BY <2>1, <1>0, <1>2
    <3> QED
      BY <2>1, <2>3, <3>1, <1>2
  <2> QED
    BY <2>2, <2>3
<1> QED
  BY <1>8, <1>9, <1>10, <1>11 DEF Ring

-----------------------------------------------------------------------------
(* What a call does to the blocks in use.                                  *)

\* malloc has cut or marked the block h it has found.
LEMMA TakenIs ==
    ASSUME NEW B, Ring(B), NEW h \in DOMAIN B, ~ B[h].used, NEW bytes \in Nat,
           B[h].bytes >= bytes, ~ Tears(B, h, bytes),
           NEW Q, Q = Taken(B, h, bytes)
    PROVE  /\ Ring(Q) /\ Q[h].bytes >= bytes
           /\ Used(Q) = Used(B) \cup {h}
           /\ \A x \in Used(B) : Q[x].bytes = B[x].bytes
<1>1. h \in Nat /\ B[h].bytes \in Nat
  BY RingFacts
<1>2. CASE Splits(B, h)
  <2>0. PICK rest : rest = Left(B, h, bytes)
    OBVIOUS
  <2>1. rest \in Nat /\ B[h].bytes = bytes + 4 + rest
    BY <1>1, <1>2, <2>0 DEF Tears, Left, HBHDR
  <2>2. Q = Cut(B, h, bytes, rest, B[h].next)
    BY <1>2, <2>0 DEF Taken
  <2>3. Ring(Q)
    BY <2>1, <2>2, CutKeepsRing
  <2>4. PICK n : CutInTwo(B, Q, h, n, bytes, rest)
    BY <2>1, <2>2, CutIs
  <2>5. /\ n \notin DOMAIN B /\ DOMAIN Q = DOMAIN B \cup {n}
        /\ Q[h].bytes = bytes /\ Q[h].used /\ ~ Q[n].used
        /\ \A x \in DOMAIN B \ {h} : Q[x] = B[x]
    BY <2>4 DEF CutInTwo
  <2>6. Used(Q) = Used(B) \cup {h}
    BY <2>5 DEF Used
  <2>7. \A x \in Used(B) : Q[x].bytes = B[x].bytes
    BY <2>5 DEF Used
  <2>8. Q[h].bytes >= bytes
    BY <2>5
  <2> QED
    BY <2>3, <2>6, <2>7, <2>8
<1>3. CASE ~ Splits(B, h)
  <2>1. Q = Mark(B, h, TRUE)
    BY <1>3 DEF Taken
  <2>2. Ring(Q) /\ Marked(B, Q, h, TRUE)
    BY <2>1, MarkKeepsRing, MarkIs
  <2>3. Used(Q) = Used(B) \cup {h}
    BY <2>2 DEF Marked, Used
  <2> QED
    BY <2>2, <2>3 DEF Marked, Used
<1> QED
  BY <1>2, <1>3

\* A block that swallows a free one: the blocks in use are the same.
LEMMA SwallowFree ==
    ASSUME NEW B, Ring(B), NEW h \in DOMAIN B, Behind(h, B[h].next),
           ~ B[B[h].next].used, NEW Q, Q = Swallow(B, h)
    PROVE  /\ Ring(Q) /\ h \in DOMAIN Q /\ Q[h].used = B[h].used
           /\ Used(Q) = Used(B)
           /\ \A x \in Used(B) : x # h => Q[x].bytes = B[x].bytes
<1>1. Ring(Q)
  BY SwallowKeepsRing
<1>2. Swallowed(B, Q, h, B[h].next)
  BY SwallowIs
<1>3. Used(Q) = Used(B)
  BY <1>2 DEF Swallowed, Used
<1>4. \A x \in Used(B) : x # h => Q[x].bytes = B[x].bytes
  BY <1>2 DEF Swallowed, Used
<1> QED
  BY <1>1, <1>2, <1>3, <1>4 DEF Swallowed

\* free has put the block h back.
LEMMA GivenIs ==
    ASSUME NEW B, Ring(B), NEW h \in DOMAIN B, B[h].used,
           NEW Q, Q = Given(B, h)
    PROVE  /\ Ring(Q) /\ Used(Q) = Used(B) \ {h}
           /\ \A x \in Used(Q) : Q[x].bytes = B[x].bytes
<1> DEFINE p == CHOOSE x \in DOMAIN B : B[x].next = h
           F == Mark(B, h, FALSE)
           back == Behind(p, h) /\ ~ F[p].used
           G == IF back THEN Swallow(F, p) ELSE F
           c == IF back THEN p ELSE h
<1>1. p \in DOMAIN B /\ B[p].next = h
  BY DEF Ring, RingCloses
<1>2. Q = IF Behind(c, G[c].next) /\ ~ G[G[c].next].used THEN Swallow(G, c) ELSE G
  BY DEF Given
<1> HIDE DEF p
<1>3. Ring(F) /\ Marked(B, F, h, FALSE)
  BY MarkKeepsRing, MarkIs
<1> HIDE DEF F
<1>4. /\ p \in DOMAIN F /\ h \in DOMAIN F /\ F[p].next = h /\ ~ F[h].used
      /\ Used(F) = Used(B) \ {h}
      /\ \A x \in Used(F) : F[x].bytes = B[x].bytes
  BY <1>1, <1>3 DEF Marked, Used
<1>5. /\ Ring(G) /\ c \in DOMAIN G /\ ~ G[c].used /\ Used(G) = Used(F)
      /\ \A x \in Used(F) : G[x].bytes = F[x].bytes
  <2>1. CASE back
    <3>1. /\ Behind(p, F[p].next) /\ ~ F[p].used /\ ~ F[F[p].next].used
          /\ G = Swallow(F, p) /\ c = p
      BY <2>1, <1>4
    <3>2. /\ Ring(G) /\ p \in DOMAIN G /\ G[p].used = F[p].used /\ Used(G) = Used(F)
          /\ \A x \in Used(F) : x # p => G[x].bytes = F[x].bytes
      BY <3>1, <1>3, <1>4, SwallowFree
    <3> QED
      BY <3>1, <3>2 DEF Used
  <2>2. CASE ~ back
    <3>1. G = F /\ c = h
      BY <2>2
    <3> QED
      BY <3>1, <1>3, <1>4
  <2> QED
    BY <2>1, <2>2
<1> HIDE DEF G, c
<1>6. /\ Ring(Q) /\ Used(Q) = Used(G)
      /\ \A x \in Used(G) : Q[x].bytes = G[x].bytes
  <2>1. CASE Behind(c, G[c].next) /\ ~ G[G[c].next].used
    <3>1. /\ Ring(Q) /\ Used(Q) = Used(G)
          /\ \A x \in Used(G) : x # c => Q[x].bytes = G[x].bytes
      BY <2>1, <1>2, <1>5, SwallowFree
    <3> QED
      BY <3>1, <1>5 DEF Used
  <2>2. CASE ~ (Behind(c, G[c].next) /\ ~ G[G[c].next].used)
    BY <2>2, <1>2, <1>5
  <2> QED
    BY <2>1, <2>2
<1> QED
  BY <1>4, <1>5, <1>6

\* realloc has cut its block down.
LEMMA ShrunkIs ==
    ASSUME NEW B, Ring(B), NEW h \in DOMAIN B, B[h].used, NEW bytes \in Nat,
           bytes < B[h].bytes, NEW Q, Q = Shrunk(B, h, bytes)
    PROVE  /\ Ring(Q) /\ Q[h].bytes >= bytes /\ Used(Q) = Used(B)
           /\ \A x \in Used(B) : x # h => Q[x].bytes = B[x].bytes
<1>1. h \in Nat /\ B[h].bytes \in Nat
  BY RingFacts
<1>2. CASE B[h].bytes - bytes >= 2 * HBHDR
  <2>0. PICK rest : rest = Left(B, h, bytes)
    OBVIOUS
  <2>1. rest \in Nat /\ B[h].bytes = bytes + 4 + rest
    BY <1>1, <1>2, <2>0 DEF Left, HBHDR
  <2>2. Q = Cut(B, h, bytes, rest, B[h].next)
    BY <1>2, <2>0 DEF Shrunk
  <2>3. Ring(Q)
    BY <2>1, <2>2, CutKeepsRing
  <2>4. PICK n : CutInTwo(B, Q, h, n, bytes, rest)
    BY <2>1, <2>2, CutIs
  <2>5. Used(Q) = Used(B)
    BY <2>4 DEF CutInTwo, Used
  <2>6. \A x \in Used(B) : x # h => Q[x].bytes = B[x].bytes
    BY <2>4 DEF CutInTwo, Used
  <2>7. Q[h].bytes >= bytes
    BY <2>4 DEF CutInTwo
  <2> QED
    BY <2>3, <2>5, <2>6, <2>7
<1>3. CASE ~ (B[h].bytes - bytes >= 2 * HBHDR)
  <2>1. Q = B
    BY <1>3 DEF Shrunk
  <2> QED
    BY <2>1, <1>1
<1> QED
  BY <1>2, <1>3

\* realloc has taken all of the free block behind.
LEMMA GrownIs ==
    ASSUME NEW B, Ring(B), NEW h \in DOMAIN B, B[h].used, NEW bytes \in Nat,
           Grows(B, h, bytes), ~ GivesBack(B, h, bytes),
           NEW Q, Q = Grown(B, h, bytes)
    PROVE  /\ Ring(Q) /\ Q[h].bytes >= bytes /\ Used(Q) = Used(B)
           /\ \A x \in Used(B) : x # h => Q[x].bytes = B[x].bytes
<1>0. PICK n : n = B[h].next
  OBVIOUS
<1>1. /\ Behind(h, B[h].next) /\ ~ B[B[h].next].used /\ Spare(B, h, bytes) >= 0
      /\ Q = Swallow(B, h)
  BY DEF Grows, Grown
<1>2. /\ Ring(Q) /\ h \in DOMAIN Q /\ Used(Q) = Used(B)
      /\ \A x \in Used(B) : x # h => Q[x].bytes = B[x].bytes
  BY <1>1, SwallowFree
<1>3. Swallowed(B, Q, h, n)
  BY <1>0, <1>1, SwallowIs
<1>4. n \in DOMAIN B /\ Q[h].bytes = B[h].bytes + 4 + B[n].bytes
  BY <1>3 DEF Swallowed
<1>5. B[h].bytes \in Nat /\ B[n].bytes \in Nat /\ Q[h].bytes \in Nat
  BY <1>2, <1>4, RingFacts
<1>6. Spare(B, h, bytes) = Q[h].bytes - bytes
  BY <1>0, <1>4, <1>5 DEF Spare, HBHDR
<1> QED
  BY <1>1, <1>2, <1>5, <1>6

-----------------------------------------------------------------------------
(* What a call does to what the program holds.                             *)

UPointer(h, asked) == [at |-> Pub(h), asked |-> asked]

\* A block that is held lies behind its header.
LEMMA HeldBlock ==
    ASSUME NEW B, Ring(B), NEW P, Holds(B, P), NEW u \in P
    PROVE  /\ u.at - HBHDR \in Used(B) /\ u.at = Pub(u.at - HBHDR)
           /\ B[u.at - HBHDR].bytes >= u.asked
<1>1. PICK h \in Used(B) : u.at = Pub(h) /\ B[h].bytes >= u.asked
  BY DEF Holds
<1>2. h \in Nat
  BY <1>1, RingFacts DEF Used
<1>3. u.at - HBHDR = h
  BY <1>1, <1>2 DEF Pub, HBHDR
<1> QED
  BY <1>1, <1>3

\* A block h that was free is in use now.
LEMMA HoldsMore ==
    ASSUME NEW B, Ring(B), NEW P, Holds(B, P), NEW h \in DOMAIN B, ~ B[h].used,
           NEW asked \in Nat, NEW Q, Q[h].bytes >= asked,
           Used(Q) = Used(B) \cup {h}, \A x \in Used(B) : Q[x].bytes = B[x].bytes
    PROVE  Holds(Q, P \cup {UPointer(h, asked)})
<1>0. PICK v : v = UPointer(h, asked)
  OBVIOUS
<1>1. h \in Nat /\ Pub(h) = h + 4
  BY RingFacts
<1>2. v \in [at : Nat, asked : Nat] /\ v.at = Pub(h) /\ v.asked = asked
  BY <1>0, <1>1 DEF UPointer
<1>3. \A u \in P : \E x \in Used(B) : u.at = Pub(x) /\ B[x].bytes >= u.asked
  BY DEF Holds
<1>4. \A u \in P : u.at # v.at
  <2> SUFFICES ASSUME NEW u \in P, u.at = Pub(h) PROVE FALSE
    BY <1>2
  <2>1. PICK x \in Used(B) : u.at = Pub(x)
    BY <1>3
  <2>2. x \in Nat /\ Pub(x) = x + 4
    BY RingFacts DEF Used
  <2>3. x = h
    BY <1>1, <2>1, <2>2
  <2> QED
    BY <2>3 DEF Used
<1>5. \A u \in P \cup {v} : \E x \in Used(Q) : u.at = Pub(x) /\ Q[x].bytes >= u.asked
  BY <1>2, <1>3
<1>6. \A x \in Used(Q) : \E u \in P \cup {v} : u.at = Pub(x)
  BY <1>2 DEF Holds
<1>7. \A u, w \in P \cup {v} : u.at = w.at => u = w
  BY <1>4 DEF Holds
<1> QED
  BY <1>0, <1>2, <1>5, <1>6, <1>7 DEF Holds

\* A block that was held is free now.
LEMMA HoldsLess ==
    ASSUME NEW B, Ring(B), NEW P, Holds(B, P), NEW u \in P, NEW h \in Used(B),
           u.at = Pub(h), NEW Q, Used(Q) = Used(B) \ {h},
           \A x \in Used(Q) : Q[x].bytes = B[x].bytes
    PROVE  Holds(Q, P \ {u})
<1>1. h \in Nat /\ Pub(h) = h + 4
  BY RingFacts DEF Used
<1>2. \A w \in P \ {u} : \E x \in Used(Q) : w.at = Pub(x) /\ Q[x].bytes >= w.asked
  <2> SUFFICES ASSUME NEW w \in P \ {u}
               PROVE  \E x \in Used(Q) : w.at = Pub(x) /\ Q[x].bytes >= w.asked
    OBVIOUS
  <2>1. PICK x \in Used(B) : w.at = Pub(x) /\ B[x].bytes >= w.asked
    BY DEF Holds
  <2>2. x # h
    BY <2>1 DEF Holds
  <2> QED
    BY <2>1, <2>2
<1>3. \A x \in Used(Q) : \E w \in P \ {u} : w.at = Pub(x)
  <2> SUFFICES ASSUME NEW x \in Used(Q) PROVE \E w \in P \ {u} : w.at = Pub(x)
    OBVIOUS
  <2>1. PICK w \in P : w.at = Pub(x)
    BY DEF Holds
  <2>2. x \in Nat /\ Pub(x) = x + 4 /\ x # h
    BY RingFacts DEF Used
  <2>3. w # u
    BY <1>1, <2>1, <2>2
  <2> QED
    BY <2>1, <2>3
<1> QED
  BY <1>2, <1>3 DEF Holds

\* A block that is held has another size.
LEMMA HoldsResized ==
    ASSUME NEW B, Ring(B), NEW P, Holds(B, P), NEW u \in P, NEW h \in Used(B),
           u.at = Pub(h), NEW asked \in Nat, NEW Q, Used(Q) = Used(B),
           Q[h].bytes >= asked, \A x \in Used(B) : x # h => Q[x].bytes = B[x].bytes
    PROVE  Holds(Q, (P \ {u}) \cup {[at |-> u.at, asked |-> asked]})
<1>0. PICK v : v = [at |-> u.at, asked |-> asked]
  OBVIOUS
<1>1. v \in [at : Nat, asked : Nat] /\ v.at = u.at /\ v.asked = asked
  BY <1>0 DEF Holds
<1>2. \A w \in P \ {u} : \E x \in Used(Q) : w.at = Pub(x) /\ Q[x].bytes >= w.asked
  <2> SUFFICES ASSUME NEW w \in P \ {u}
               PROVE  \E x \in Used(Q) : w.at = Pub(x) /\ Q[x].bytes >= w.asked
    OBVIOUS
  <2>1. PICK x \in Used(B) : w.at = Pub(x) /\ B[x].bytes >= w.asked
    BY DEF Holds
  <2>2. x # h
    BY <2>1 DEF Holds
  <2> QED
    BY <2>1, <2>2
<1>3. \A w \in (P \ {u}) \cup {v} : \E x \in Used(Q) : w.at = Pub(x) /\ Q[x].bytes >= w.asked
  BY <1>1, <1>2
<1>4. \A x \in Used(Q) : \E w \in (P \ {u}) \cup {v} : w.at = Pub(x)
  BY <1>1 DEF Holds
<1>5. \A w, z \in (P \ {u}) \cup {v} : w.at = z.at => w = z
  BY <1>1 DEF Holds
<1> QED
  BY <1>0, <1>1, <1>3, <1>4, <1>5 DEF Holds

\* Sizes are rounded up.
LEMMA EvenBytes ==
    ASSUME NEW asked \in Request, NEW bytes, bytes = Even(asked)
    PROVE  asked \in Nat /\ bytes \in Nat /\ bytes >= asked
<1>1. asked \in Nat
  BY UserHeapAssumption
<1> QED
  BY <1>1 DEF Even

LEMMA MallocKeeps ==
    ASSUME UserHeapInv, NEW asked \in Request, malloc(asked)
    PROVE  UserHeapInv'
<1>0. PICK bytes, h : bytes = Even(asked) /\ h = FirstRoom(ublk, bytes)
  OBVIOUS
<1>1. /\ Roomy(ublk, bytes) # {}
      /\ \/ torn' = "malloc"
         \/ ~ Tears(ublk, h, bytes) /\ ublk' = Taken(ublk, h, bytes)
      /\ uptr' = uptr \cup {UPointer(h, asked)}
  BY <1>0 DEF malloc, UPointer
<1>2. Ring(ublk) /\ Holds(ublk, uptr)
  BY DEF UserHeapInv, malloc
<1>3. asked \in Nat /\ bytes \in Nat /\ bytes >= asked
  BY <1>0, EvenBytes
<1>4. h \in DOMAIN ublk /\ ~ ublk[h].used /\ ublk[h].bytes >= bytes
  BY <1>0, <1>1, <1>2, FirstRoomFits
<1>5. CASE torn' = ""
  <2>1. ublk' = Taken(ublk, h, bytes) /\ ~ Tears(ublk, h, bytes)
    BY <1>1, <1>5
  <2>2. /\ Ring(ublk') /\ ublk'[h].bytes >= bytes
        /\ Used(ublk') = Used(ublk) \cup {h}
        /\ \A x \in Used(ublk) : ublk'[x].bytes = ublk[x].bytes
    BY <1>2, <1>3, <1>4, <2>1, TakenIs
  <2>3. ublk'[h].bytes >= asked
    <3>1. h \in Used(ublk')
      BY <2>2
    <3>2. ublk'[h].bytes \in Nat
      BY <2>2, <3>1, RingFacts DEF Used
    <3> QED
      BY <1>3, <2>2, <3>2
  <2>4. Holds(ublk', uptr \cup {UPointer(h, asked)})
    BY <1>2, <1>3, <1>4, <2>2, <2>3, HoldsMore
  <2> QED
    BY <1>1, <2>2, <2>4 DEF UserHeapInv
<1> QED
  BY <1>5 DEF UserHeapInv

LEMMA FreeKeeps ==
    ASSUME UserHeapInv, NEW u \in uptr, free(u)
    PROVE  UserHeapInv'
<1>0. PICK h : h = u.at - HBHDR
  OBVIOUS
<1>1. torn = "" /\ ublk' = Given(ublk, h) /\ uptr' = uptr \ {u}
  BY <1>0 DEF free
<1>2. Ring(ublk) /\ Holds(ublk, uptr)
  BY <1>1 DEF UserHeapInv
<1>3. h \in Used(ublk) /\ u.at = Pub(h)
  BY <1>0, <1>2, HeldBlock
<1>4. /\ Ring(ublk') /\ Used(ublk') = Used(ublk) \ {h}
      /\ \A x \in Used(ublk') : ublk'[x].bytes = ublk[x].bytes
  <2>1. ublk' = Given(ublk, h)
    BY <1>1
  <2>2. h \in DOMAIN ublk /\ ublk[h].used
    BY <1>3 DEF Used
  <2> QED
    BY <1>2, <2>1, <2>2, GivenIs
<1>5. Holds(ublk', uptr \ {u})
  BY <1>2, <1>3, <1>4, HoldsLess
<1> QED
  <2>1. Ring(ublk') /\ Holds(ublk', uptr')
    BY <1>1, <1>4, <1>5
  <2> QED
    BY <2>1 DEF UserHeapInv

LEMMA ResizeKeeps ==
    ASSUME UserHeapInv, NEW u \in uptr, NEW asked \in Request, resize(u, asked)
    PROVE  UserHeapInv'
<1>0. PICK h, bytes : h = u.at - HBHDR /\ bytes = Even(asked)
  OBVIOUS
<1>1. /\ torn = ""
      /\ \/ bytes < ublk[h].bytes /\ ublk' = Shrunk(ublk, h, bytes)
         \/ /\ Grows(ublk, h, bytes) /\ ublk' = Grown(ublk, h, bytes)
            /\ torn' = IF GivesBack(ublk, h, bytes) THEN "realloc" ELSE ""
      /\ uptr' = (uptr \ {u}) \cup {[at |-> u.at, asked |-> asked]}
  BY <1>0 DEF resize
<1>a. SUFFICES ASSUME torn' = "" PROVE UserHeapInv'
  BY DEF UserHeapInv
<1>2. Ring(ublk) /\ Holds(ublk, uptr)
  BY <1>1 DEF UserHeapInv
<1>3. asked \in Nat /\ bytes \in Nat /\ bytes >= asked
  BY <1>0, EvenBytes
<1>4. h \in Used(ublk) /\ u.at = Pub(h)
  BY <1>0, <1>2, HeldBlock
<1>5. h \in DOMAIN ublk /\ ublk[h].used
  BY <1>4 DEF Used
<1>6. /\ Ring(ublk') /\ ublk'[h].bytes >= bytes /\ Used(ublk') = Used(ublk)
      /\ \A x \in Used(ublk) : x # h => ublk'[x].bytes = ublk[x].bytes
  <2>1. CASE bytes < ublk[h].bytes /\ ublk' = Shrunk(ublk, h, bytes)
    BY <2>1, <1>2, <1>3, <1>5, ShrunkIs
  <2>2. CASE /\ Grows(ublk, h, bytes) /\ ublk' = Grown(ublk, h, bytes)
             /\ ~ GivesBack(ublk, h, bytes)
    BY <2>2, <1>2, <1>3, <1>5, GrownIs
  <2> QED
    BY <2>1, <2>2, <1>1, <1>a
<1>7. ublk'[h].bytes >= asked
  <2>1. ublk'[h].bytes \in Nat
    BY <1>4, <1>6, RingFacts DEF Used
  <2> QED
    BY <2>1, <1>3, <1>6
<1>8. Holds(ublk', (uptr \ {u}) \cup {[at |-> u.at, asked |-> asked]})
  BY <1>2, <1>3, <1>4, <1>6, <1>7, HoldsResized
<1> QED
  BY <1>1, <1>6, <1>8 DEF UserHeapInv

LEMMA MoveKeeps ==
    ASSUME UserHeapInv, NEW u \in uptr, NEW asked \in Request, move(u, asked)
    PROVE  UserHeapInv'
<1>0. PICK h, bytes : h = u.at - HBHDR /\ bytes = Even(asked)
  OBVIOUS
<1>a. PICK g : g = FirstRoom(ublk, bytes)
  OBVIOUS
<1>b. PICK v : v = UPointer(g, asked)
  OBVIOUS
<1>1. /\ torn = "" /\ Roomy(ublk, bytes) # {}
      /\ \/ torn' = "malloc"
         \/ ~ Tears(ublk, g, bytes) /\ ublk' = Given(Taken(ublk, g, bytes), h)
      /\ uptr' = (uptr \ {u}) \cup {v}
  BY <1>0, <1>a, <1>b DEF move, UPointer
<1>2. Ring(ublk) /\ Holds(ublk, uptr)
  BY <1>1 DEF UserHeapInv
<1>3. asked \in Nat /\ bytes \in Nat /\ bytes >= asked
  BY <1>0, EvenBytes
<1>4. g \in DOMAIN ublk /\ ~ ublk[g].used /\ ublk[g].bytes >= bytes
  BY <1>a, <1>1, <1>2, FirstRoomFits
<1>5. h \in Used(ublk) /\ u.at = Pub(h)
  BY <1>0, <1>2, HeldBlock
<1>6. CASE torn' = ""
  <2>0. PICK T : T = Taken(ublk, g, bytes)
    OBVIOUS
  <2>1. ublk' = Given(T, h) /\ ~ Tears(ublk, g, bytes)
    BY <1>1, <1>6, <2>0
  <2>2. /\ Ring(T) /\ T[g].bytes >= bytes /\ Used(T) = Used(ublk) \cup {g}
        /\ \A x \in Used(ublk) : T[x].bytes = ublk[x].bytes
    BY <1>2, <1>3, <1>4, <2>0, <2>1, TakenIs
  <2>3. T[g].bytes >= asked
    <3>1. g \in Used(T)
      BY <2>2
    <3>2. T[g].bytes \in Nat
      BY <2>2, <3>1, RingFacts DEF Used
    <3> QED
      BY <1>3, <2>2, <3>2
  <2>4. Holds(T, uptr \cup {v})
    BY <1>2, <1>3, <1>4, <1>b, <2>2, <2>3, HoldsMore
  <2>5. h \in Used(T) /\ h \in DOMAIN T /\ T[h].used
    BY <1>5, <2>2 DEF Used
  <2>6. /\ Ring(ublk') /\ Used(ublk') = Used(T) \ {h}
        /\ \A x \in Used(ublk') : ublk'[x].bytes = T[x].bytes
    BY <2>1, <2>2, <2>5, GivenIs
  <2>7. Holds(ublk', (uptr \cup {v}) \ {u})
    BY <1>5, <2>2, <2>4, <2>5, <2>6, HoldsLess
  <2>8. u # v
    <3>1. h \in Nat /\ g \in Nat /\ h # g
      BY <1>2, <1>4, <1>5, RingFacts DEF Used
    <3> QED
      BY <3>1, <1>5, <1>b DEF UPointer, Pub, HBHDR
  <2>9. (uptr \cup {v}) \ {u} = uptr'
    BY <1>1, <2>8
  <2> QED
    BY <2>6, <2>7, <2>9 DEF UserHeapInv
<1> QED
  BY <1>6 DEF UserHeapInv

LEMMA HeapStep == UserHeapInv /\ [HeapNext]_heapvars => UserHeapInv'
<1> SUFFICES ASSUME UserHeapInv, [HeapNext]_heapvars PROVE UserHeapInv'
  OBVIOUS
<1>1. ASSUME NEW asked \in Request, malloc(asked) PROVE UserHeapInv'
  BY <1>1, MallocKeeps
<1>2. ASSUME NEW u \in uptr, free(u) PROVE UserHeapInv'
  BY <1>2, FreeKeeps
<1>3. ASSUME NEW u \in uptr, NEW asked \in Request, resize(u, asked) PROVE UserHeapInv'
  BY <1>3, ResizeKeeps
<1>4. ASSUME NEW u \in uptr, NEW asked \in Request, move(u, asked) PROVE UserHeapInv'
  BY <1>4, MoveKeeps
<1>5. CASE UNCHANGED heapvars
  BY <1>5 DEF heapvars, UserHeapInv
<1> QED
  BY <1>1, <1>2, <1>3, <1>4, <1>5 DEF HeapNext

\* A ring whose blocks in use are held is what UserHeapTiled asks for.
LEMMA RingIsTiled == UserHeapInv => UserHeapTiled
<1> SUFFICES ASSUME Ring(ublk), Holds(ublk, uptr) PROVE UserHeapTiled
  BY DEF UserHeapInv, UserHeapTiled
<1>1. \A h \in DOMAIN ublk :
        LET end == Pub(h) + ublk[h].bytes IN
        ublk[h].next = IF end = Pub(HeapBase) + HeapBytes THEN HeapBase ELSE end
  BY DEF Ring, RingTiles, BlockEnd, HeapEnd
<1>2. {u.at : u \in uptr} = {Pub(h) : h \in {x \in DOMAIN ublk : ublk[x].used}}
  BY DEF Holds, Used
<1>3. \A u \in uptr : ublk[u.at - HBHDR].bytes >= u.asked
  BY HeldBlock
<1> QED
  BY <1>1, <1>2, <1>3 DEF UserHeapTiled

\* Until malloc writes a header over the next one, or realloc grows a block
\* into a part of the free one behind it, the blocks of a program's heap lie
\* one behind the other and fill it, and the program holds exactly those in
\* use, each as long as it asked for, whatever it asks for and in whatever
\* order it frees, shrinks, moves and merges.
THEOREM UserHeapStaysTiled == HeapSpec => []UserHeapTiled
<1>1. HeapInit => UserHeapInv
  BY StartIsRing DEF UserHeapInv
<1>2. UserHeapInv /\ [HeapNext]_heapvars => UserHeapInv'
  BY HeapStep
<1>3. UserHeapInv => UserHeapTiled
  BY RingIsTiled
<1> QED
  BY <1>1, <1>2, <1>3, PTL DEF HeapSpec

-----------------------------------------------------------------------------
(***************************************************************************)
(* The streams of a program                                                *)
(***************************************************************************)

Flag == {"READ", "WRITE", "APP", "EOF", "ERR"}
StreamRecord == [flags : SUBSET Flag, buf : Seq(Nat), next : Nat, cnt : Int]

\* The i-th byte of w is i.
InOrder(w) == \A i \in 1 .. Len(w) : w[i] = i

\* The bytes that follow the first n, or junk, are in w.
From(n, w) == \A j \in 1 .. Len(w) : w[j] \in {n + j, Junk}

\* A stream s that writes, of which the program has written p bytes and the
\* kernel has taken w: the buffer goes on where w ends.
Fills(s, p, w) ==
    /\ Len(w) + s.next = p
    /\ \A j \in 1 .. s.next : s.buf[j] = Len(w) + j
Output(s, p, w) ==
    /\ s.flags \cap {"READ", "EOF"} = {}
    /\ Len(s.buf) = DEF_BUFSIZE /\ s.next <= DEF_BUFSIZE
    /\ s.next + s.cnt <= DEF_BUFSIZE
    /\ "ERR" \notin s.flags => Fills(s, p, w)

\* A stream s that reads, of which the program has got g: the cnt bytes from
\* next on are those that come next.
Input(s, p, w, g) ==
    /\ "WRITE" \notin s.flags /\ p = 0 /\ w = <<>>
    /\ Len(s.buf) = DEF_BUFSIZE /\ s.next + s.cnt <= DEF_BUFSIZE
    /\ s.cnt < 0 => Ended(s.flags)
    /\ \A j \in 1 .. s.cnt : s.buf[s.next + j] = Len(g) + j

StreamTyped(s, p, w, g) ==
    s \in StreamRecord /\ p \in Nat /\ w \in Seq(Nat) /\ g \in Seq(Nat)

StreamOK(s, p, w, g) ==
    /\ StreamTyped(s, p, w, g)
    /\ InOrder(w) /\ From(0, g)
    /\ s.flags = {} \/ "WRITE" \in s.flags \/ "READ" \in s.flags
    /\ s.flags = {} => s.next = 0 /\ Len(w) = p
    /\ "WRITE" \in s.flags => Output(s, p, w)
    /\ "READ" \in s.flags => Input(s, p, w, g)

\* All the streams F, of which P has been written, W sent and G got; each
\* is a function on Stream.
Streams(F, P, W, G) ==
    /\ F = [f \in Stream |-> F[f]] /\ P = [f \in Stream |-> P[f]]
    /\ W = [f \in Stream |-> W[f]] /\ G = [f \in Stream |-> G[f]]
    /\ \A f \in Stream : StreamOK(F[f], P[f], W[f], G[f])

\* While the program runs nobody has closed stdout, which stdin flushes.
StdioInv ==
    /\ Streams(fp, put, sent, got)
    /\ exiting \in BOOLEAN
    /\ ~ exiting => Writes(fp[stdout].flags)

\* What StdioAssumption says of each constant.
LEMMA StdioSizes ==
    /\ MAXFILE \in Nat /\ StdFiles \in Nat /\ DEF_BUFSIZE \in Nat
    /\ MaxBytes \in Nat /\ MaxRead \in Nat
    /\ 1 < StdFiles /\ StdFiles <= MAXFILE /\ DEF_BUFSIZE > 0
    /\ stdin \in Stream /\ stdout \in Stream /\ stdin # stdout
BY StdioAssumption DEF Stream, stdin, stdout

-----------------------------------------------------------------------------
(* One stream                                                              *)

\* A stream is opened with an empty buffer.
LEMMA FreshOK ==
  ASSUME NEW flags \in SUBSET Flag, flags \in ModeFlags \cup {{"READ"}, {"WRITE"}}
  PROVE  StreamOK(Fresh(flags), 0, <<>>, <<>>)
<1> DEF_BUFSIZE \in Nat
  BY StdioSizes
<1>1. PICK b : b = [i \in 1 .. DEF_BUFSIZE |-> Junk]
  OBVIOUS
<1>2. b \in Seq(Nat) /\ Len(b) = DEF_BUFSIZE
  <2>1. b \in [1 .. DEF_BUFSIZE -> Nat]
    BY <1>1 DEF Junk
  <2>2. b \in Seq(Nat)
    BY <2>1, SeqDef
  <2> QED BY <2>1, <2>2, LenProperties
<1>3. PICK s : s = Fresh(flags)
  OBVIOUS
<1>4. s = [flags |-> flags, buf |-> b, next |-> 0, cnt |-> 0]
  BY <1>1, <1>3 DEF Fresh, Closed
<1>5. s \in StreamRecord
  BY <1>2, <1>4 DEF StreamRecord
<1>6. flags = {"READ"} \/ flags = {"WRITE"} \/ flags = {"APP", "WRITE"}
  BY DEF ModeFlags
<1>7. <<>> \in Seq(Nat) /\ Len(<<>>) = 0
  OBVIOUS
<1>8. s.flags = flags /\ s.buf = b /\ s.next = 0 /\ s.cnt = 0
  BY <1>4
<1>9. CASE flags = {"READ"}
  <2>1. s.flags # {} /\ "READ" \in s.flags /\ "WRITE" \notin s.flags
    BY <1>8, <1>9
  <2>2. Input(s, 0, <<>>, <<>>)
    BY <1>2, <1>8, <2>1 DEF Input
  <2> QED BY <1>3, <1>5, <1>7, <2>1, <2>2 DEF StreamOK, StreamTyped, InOrder, From
<1>10. CASE flags = {"WRITE"} \/ flags = {"APP", "WRITE"}
  <2>1. /\ s.flags # {} /\ "READ" \notin s.flags /\ "WRITE" \in s.flags
        /\ s.flags \cap {"READ", "EOF"} = {}
    BY <1>8, <1>10
  <2>2. Output(s, 0, <<>>)
    BY <1>2, <1>7, <1>8, <2>1 DEF Output, Fills
  <2> QED BY <1>3, <1>5, <1>7, <2>1, <2>2 DEF StreamOK, StreamTyped, InOrder, From
<1> QED BY <1>6, <1>9, <1>10

\* Closing: what was written is what has been sent.
LEMMA ClosedOK ==
  ASSUME NEW s, NEW p, NEW w, NEW g, StreamOK(s, p, w, g), NEW n \in Nat, n = Len(w)
  PROVE  StreamOK(Closed, n, w, g)
<1>1. /\ Closed \in StreamRecord /\ Closed.flags = {} /\ Closed.next = 0
  BY DEF Closed, StreamRecord
<1> QED BY <1>1 DEF StreamOK, StreamTyped

\* What Flushed says of a stream that writes.
LEMMA FlushedOK ==
  ASSUME NEW s, NEW p, NEW w, NEW g, StreamOK(s, p, w, g), Writes(s.flags),
         NEW r \in Flushed(s, w)
  PROVE  /\ StreamOK(r.s, p, r.w, g) /\ Writes(r.s.flags)
         /\ Ended(s.flags) => r.s = s /\ r.w = w
         /\ "ERR" \notin r.s.flags => r.s.next = 0 \/ Ended(s.flags)
         /\ ~ Ended(s.flags) => r.s.cnt = DEF_BUFSIZE /\ r.s.next = 0
<1> DEF_BUFSIZE \in Nat /\ DEF_BUFSIZE > 0
  BY StdioSizes
<1>w. "WRITE" \in s.flags
  BY DEF Writes
<1>0. "WRITE" \in s.flags => Output(s, p, w)
  BY DEF StreamOK
<1>1. Output(s, p, w)
  BY <1>0, <1>w
<1>2. s \in StreamRecord /\ p \in Nat /\ w \in Seq(Nat) /\ g \in Seq(Nat) /\ InOrder(w)
  BY DEF StreamOK, StreamTyped
<1>3. CASE Ended(s.flags)
  BY <1>3 DEF Flushed
<1>4. CASE ~ Ended(s.flags) /\ s.next = 0
  <2>1. r = [s |-> Emptied(s), w |-> w]
    BY <1>4 DEF Flushed
  <2>2. PICK e : e = Emptied(s)
    OBVIOUS
  <2>3. e \in StreamRecord /\ e.flags = s.flags /\ e.buf = s.buf /\ e.next = 0
        /\ e.cnt = DEF_BUFSIZE
    <3>1. PICK h : h = [s EXCEPT !.next = 0]
      OBVIOUS
    <3>2. h \in StreamRecord /\ h.flags = s.flags /\ h.buf = s.buf /\ h.next = 0
      BY <1>2, <3>1 DEF StreamRecord
    <3>3. e = [h EXCEPT !.cnt = DEF_BUFSIZE]
      BY <2>2, <3>1 DEF Emptied
    <3> QED BY <3>2, <3>3 DEF StreamRecord
  <2>4. "ERR" \notin s.flags
    BY <1>4 DEF Ended
  <2>5. Len(w) + 0 = p
    BY <1>1, <1>4, <2>4 DEF Output, Fills
  <2>6. Output(e, p, w)
    BY <1>1, <2>3, <2>5 DEF Output, Fills
  <2>7. StreamOK(e, p, w, g)
    BY <1>w, <1>1, <1>2, <2>3, <2>6 DEF StreamOK, StreamTyped, Output
  <2> QED BY <1>w, <1>4, <2>1, <2>2, <2>3, <2>7 DEF Writes
<1>5. CASE ~ Ended(s.flags) /\ s.next # 0
  <2>1. PICK k \in 0 .. s.next :
          r = [s |-> Emptied([s EXCEPT !.flags = @ \cup
                                 IF k < s.next THEN {"ERR"} ELSE {}]),
               w |-> w \o SubSeq(s.buf, 1, k)]
    BY <1>w, <1>5 DEF Flushed, Writes
  <2>2. PICK fl : fl = s.flags \cup IF k < s.next THEN {"ERR"} ELSE {}
    OBVIOUS
  <2>3. PICK d : d = [s EXCEPT !.flags = fl]
    OBVIOUS
  <2>4. fl \in SUBSET Flag
    BY <1>2, <2>2 DEF StreamRecord, Flag
  <2>5. d \in StreamRecord /\ d.flags = fl /\ d.buf = s.buf
    BY <1>2, <2>3, <2>4 DEF StreamRecord
  <2>6. PICK e : e = Emptied(d)
    OBVIOUS
  <2>7. e \in StreamRecord /\ e.flags = fl /\ e.buf = s.buf /\ e.next = 0
        /\ e.cnt = DEF_BUFSIZE
    <3>1. PICK h : h = [d EXCEPT !.next = 0]
      OBVIOUS
    <3>2. h \in StreamRecord /\ h.flags = fl /\ h.buf = s.buf /\ h.next = 0
      BY <2>5, <3>1 DEF StreamRecord
    <3>3. e = [h EXCEPT !.cnt = DEF_BUFSIZE]
      BY <2>6, <3>1 DEF Emptied
    <3> QED BY <3>2, <3>3 DEF StreamRecord
  <2>8. PICK a : a = SubSeq(s.buf, 1, k)
    OBVIOUS
  <2>9. PICK v : v = w \o a
    OBVIOUS
  <2>10. r = [s |-> e, w |-> v]
    BY <2>1, <2>2, <2>3, <2>6, <2>8, <2>9
  <2>11. "ERR" \notin s.flags
    BY <1>5 DEF Ended
  <2>12. /\ Len(w) + s.next = p /\ s.next <= DEF_BUFSIZE /\ Len(s.buf) = DEF_BUFSIZE
         /\ \A j \in 1 .. s.next : s.buf[j] = Len(w) + j
    BY <1>1, <2>11 DEF Output, Fills
  <2>13. s.next \in Nat /\ s.buf \in Seq(Nat)
    BY <1>2 DEF StreamRecord
  <2>14. /\ a \in Seq(Nat) /\ Len(a) = k
         /\ \A j \in 1 .. k : a[j] = s.buf[j]
    <3>1. \A j \in 1 .. k : s.buf[j] \in Nat
      BY <2>12, <2>13
    <3> QED BY <2>8, <2>13, <3>1, SubSeqProperties
  <2>15. /\ v \in Seq(Nat) /\ Len(v) = Len(w) + k /\ InOrder(v)
    <3>1. /\ v \in Seq(Nat) /\ Len(v) = Len(w) + k
          /\ \A i \in 1 .. Len(w) + k :
                v[i] = IF i <= Len(w) THEN w[i] ELSE a[i - Len(w)]
      BY <1>2, <2>9, <2>14, ConcatProperties
    <3>2. Len(w) \in Nat
      BY <1>2, LenProperties
    <3>3. ASSUME NEW i \in 1 .. Len(v) PROVE v[i] = i
      <4>1. CASE i <= Len(w)
        <5>1. \A n \in 1 .. Len(w) : w[n] = n
          BY <1>2 DEF InOrder
        <5>2. i \in 1 .. Len(w)
          BY <3>1, <3>2, <4>1
        <5>3. v[i] = w[i]
          BY <3>1, <4>1
        <5> QED BY <5>1, <5>2, <5>3
      <4>2. CASE ~ i <= Len(w)
        <5>1. PICK j : j = i - Len(w)
          OBVIOUS
        <5>2. j \in 1 .. k /\ Len(w) + j = i
          BY <3>1, <3>2, <4>2, <5>1
        <5>3. v[i] = a[j]
          BY <3>1, <3>2, <4>2, <5>1
        <5>4. j \in 1 .. s.next
          BY <2>13, <5>2
        <5> QED BY <2>12, <2>14, <5>2, <5>3, <5>4
      <4> QED BY <4>1, <4>2
    <3> QED BY <3>1, <3>3 DEF InOrder
  <2>16. "ERR" \notin fl => k = s.next
    BY <2>2, <2>13
  <2>17. Output(e, p, v)
    <3>1. fl \cap {"READ", "EOF"} = {}
      BY <1>1, <2>2 DEF Output
    <3>2. "ERR" \notin fl => Fills(e, p, v)
      BY <2>7, <2>12, <2>15, <2>16 DEF Fills
    <3> QED BY <2>7, <2>12, <3>1, <3>2 DEF Output
  <2>18. "WRITE" \in fl /\ "READ" \notin fl
    BY <1>w, <1>1, <2>2 DEF Output
  <2>19. StreamOK(e, p, v, g)
    BY <1>2, <2>7, <2>15, <2>17, <2>18 DEF StreamOK, StreamTyped
  <2> QED BY <1>5, <2>7, <2>10, <2>18, <2>19 DEF Writes
<1> QED BY <1>3, <1>4, <1>5

\* More bytes are got, where the last ones ended.
LEMMA GotOn ==
  ASSUME NEW g \in Seq(Nat), NEW h \in Seq(Nat), From(0, g), From(Len(g), h)
  PROVE  g \o h \in Seq(Nat) /\ Len(g \o h) = Len(g) + Len(h) /\ From(0, g \o h)
<1>1. PICK v : v = g \o h
  OBVIOUS
<1>2. /\ v \in Seq(Nat) /\ Len(v) = Len(g) + Len(h)
      /\ \A i \in 1 .. Len(g) + Len(h) :
            v[i] = IF i <= Len(g) THEN g[i] ELSE h[i - Len(g)]
  BY <1>1, ConcatProperties
<1>3. Len(g) \in Nat /\ Len(h) \in Nat
  BY LenProperties
<1>4. ASSUME NEW i \in 1 .. Len(v) PROVE v[i] \in {0 + i, Junk}
  <2>1. CASE i <= Len(g)
    <3>1. v[i] = g[i] /\ i \in 1 .. Len(g)
      BY <1>2, <1>3, <2>1
    <3> QED BY <3>1 DEF From
  <2>2. CASE ~ i <= Len(g)
    <3>1. PICK j : j = i - Len(g)
      OBVIOUS
    <3>2. j \in 1 .. Len(h) /\ Len(g) + j = i /\ v[i] = h[j]
      BY <1>2, <1>3, <2>2, <3>1
    <3>3. h[j] \in {Len(g) + j, Junk}
      BY <3>2 DEF From
    <3> QED BY <3>2, <3>3
  <2> QED BY <2>1, <2>2
<1> QED BY <1>1, <1>2, <1>4 DEF From

\* The count of a stream is touched: a byte less is in it, or none is.
LEMMA CountOK ==
  ASSUME NEW s, NEW p, NEW w, NEW g, StreamOK(s, p, w, g), "WRITE" \in s.flags,
         NEW e, e = [s EXCEPT !.cnt = @ - 1]
  PROVE  /\ StreamOK(e, p, w, g) /\ e.flags = s.flags /\ e.next = s.next
         /\ e.buf = s.buf /\ e.cnt = s.cnt - 1
<1> DEF_BUFSIZE \in Nat /\ DEF_BUFSIZE > 0
  BY StdioSizes
<1>1. s \in StreamRecord
  BY DEF StreamOK, StreamTyped
<1>2. /\ e \in StreamRecord /\ e.flags = s.flags /\ e.next = s.next
      /\ e.buf = s.buf /\ e.cnt = s.cnt - 1
  BY <1>1 DEF StreamRecord
<1>3. Output(s, p, w) /\ "READ" \notin s.flags
  BY DEF StreamOK, Output
<1>4. s.next \in Nat /\ s.cnt \in Int
  BY <1>1 DEF StreamRecord
<1>5. Output(e, p, w)
  BY <1>2, <1>3, <1>4 DEF Output, Fills
<1> QED BY <1>2, <1>3, <1>5 DEF StreamOK, StreamTyped

\* A byte is put where the last one ended.
LEMMA StoredOK ==
  ASSUME NEW s, NEW p, NEW w, NEW g, StreamOK(s, p, w, g), "WRITE" \in s.flags,
         s.next < DEF_BUFSIZE, s.next + s.cnt + 1 <= DEF_BUFSIZE,
         NEW e, e = Stored(s, p + 1)
  PROVE  StreamOK(e, p + 1, w, g) /\ e.flags = s.flags
<1> DEF_BUFSIZE \in Nat /\ DEF_BUFSIZE > 0
  BY StdioSizes
<1>1. s \in StreamRecord /\ p \in Nat /\ w \in Seq(Nat) /\ g \in Seq(Nat)
  BY DEF StreamOK, StreamTyped
<1>2. Output(s, p, w) /\ "READ" \notin s.flags
  BY DEF StreamOK, Output
<1>3. /\ s.next \in Nat /\ s.cnt \in Int /\ s.buf \in Seq(Nat)
      /\ Len(s.buf) = DEF_BUFSIZE
  BY <1>1, <1>2 DEF StreamRecord, Output
<1>4. PICK n : n = s.next + 1
  OBVIOUS
<1>5. PICK b : b = [s.buf EXCEPT ![n] = p + 1]
  OBVIOUS
<1>6. n \in 1 .. Len(s.buf) /\ n \in Nat /\ n <= DEF_BUFSIZE
  BY <1>3, <1>4
<1>7. b \in Seq(Nat) /\ Len(b) = DEF_BUFSIZE /\ b[n] = p + 1
      /\ \A j \in 1 .. DEF_BUFSIZE : j # n => b[j] = s.buf[j]
  <2>1. p + 1 \in Nat
    BY <1>1
  <2> QED BY <1>3, <1>5, <1>6, <2>1, ExceptSeq
<1>8. PICK h : h = [s EXCEPT !.buf = b]
  OBVIOUS
<1>9. e = [h EXCEPT !.next = n]
  <2>1. e = [[s EXCEPT !.buf[n] = p + 1] EXCEPT !.next = n]
    BY <1>1, <1>4 DEF Stored, StreamRecord
  <2>2. [s EXCEPT !.buf[n] = p + 1] = h
    BY <1>5, <1>8
  <2> QED BY <2>1, <2>2
<1>10. h \in StreamRecord /\ h.flags = s.flags /\ h.next = s.next
       /\ h.buf = b /\ h.cnt = s.cnt
  BY <1>1, <1>7, <1>8 DEF StreamRecord
<1>11. e \in StreamRecord /\ e.flags = s.flags /\ e.next = n
       /\ e.buf = b /\ e.cnt = s.cnt
  BY <1>6, <1>9, <1>10 DEF StreamRecord
<1>12. "ERR" \notin s.flags => Fills(e, p + 1, w)
  <2> SUFFICES ASSUME "ERR" \notin s.flags PROVE Fills(e, p + 1, w)
    OBVIOUS
  <2>1. Len(w) + s.next = p /\ \A j \in 1 .. s.next : s.buf[j] = Len(w) + j
    BY <1>2 DEF Output, Fills
  <2>2. Len(w) \in Nat
    BY <1>1, LenProperties
  <2>0. Len(w) + n = p + 1
    <3>1. PICK m, k : m = Len(w) /\ k = s.next
      OBVIOUS
    <3>2. m \in Nat /\ k \in Nat /\ p \in Nat
      BY <1>1, <1>3, <2>2, <3>1
    <3>3. m + k = p /\ n = k + 1
      BY <1>4, <2>1, <3>1
    <3>4. m + n = p + 1
      BY <3>2, <3>3
    <3> QED BY <3>1, <3>4
  <2>3. ASSUME NEW j \in 1 .. n PROVE b[j] = Len(w) + j
    <3>1. CASE j = n
      <4>1. Len(w) + n = p + 1
        BY <2>0
      <4>2. b[n] = p + 1
        BY <1>7
      <4> QED BY <3>1, <4>1, <4>2
    <3>2. CASE j # n
      <4>1. j \in 1 .. s.next /\ j \in 1 .. DEF_BUFSIZE
        BY <1>3, <1>4, <1>6, <3>2
      <4> QED BY <1>7, <2>1, <3>2, <4>1
    <3> QED BY <3>1, <3>2
  <2> QED BY <1>11, <2>0, <2>3 DEF Fills
<1>13. Output(e, p + 1, w)
  <2>1. n + s.cnt <= DEF_BUFSIZE
    BY <1>3, <1>4
  <2> QED BY <1>2, <1>6, <1>7, <1>11, <1>12, <2>1 DEF Output
<1> QED BY <1>1, <1>2, <1>11, <1>13 DEF StreamOK, StreamTyped

\* One more byte is got.
LEMMA GotOne ==
  ASSUME NEW g \in Seq(Nat), NEW x \in Nat, From(0, g), x \in {Len(g) + 1, Junk}
  PROVE  Append(g, x) \in Seq(Nat) /\ Len(Append(g, x)) = Len(g) + 1
         /\ From(0, Append(g, x))
<1>1. PICK v : v = Append(g, x)
  OBVIOUS
<1>2. Len(g) \in Nat
  BY LenProperties
<1>3. /\ v \in Seq(Nat) /\ Len(v) = Len(g) + 1
      /\ \A i \in 1 .. Len(g) : v[i] = g[i]
      /\ v[Len(g) + 1] = x
  BY <1>1, <1>2, AppendProperties
<1>4. ASSUME NEW i \in 1 .. Len(v) PROVE v[i] \in {0 + i, Junk}
  <2>1. i \in 1 .. Len(g) \/ i = Len(g) + 1
    BY <1>2, <1>3
  <2>2. CASE i \in 1 .. Len(g)
    BY <1>3, <2>2 DEF From
  <2>3. CASE i = Len(g) + 1
    BY <1>2, <1>3, <2>3
  <2> QED BY <2>1, <2>2, <2>3
<1> QED BY <1>1, <1>3, <1>4 DEF From

\* k bytes are taken out of a buffer: the rest of it is what comes next.
LEMMA TakenOK ==
  ASSUME NEW s, NEW p, NEW w, NEW g, StreamOK(s, p, w, g), "READ" \in s.flags,
         NEW k \in Nat, k <= s.cnt,
         NEW e \in StreamRecord, e.flags = s.flags, e.next = s.next + k,
         e.cnt = s.cnt - k, Len(e.buf) = DEF_BUFSIZE,
         \A j \in 1 .. DEF_BUFSIZE : j > s.next + k => e.buf[j] = s.buf[j],
         NEW h \in Seq(Nat), Len(h) = Len(g) + k, From(0, h)
  PROVE  StreamOK(e, p, w, h)
<1> DEF_BUFSIZE \in Nat /\ DEF_BUFSIZE > 0
  BY StdioSizes
<1>1. s \in StreamRecord /\ p \in Nat /\ w \in Seq(Nat) /\ g \in Seq(Nat) /\ InOrder(w)
  BY DEF StreamOK, StreamTyped
<1>2. Input(s, p, w, g)
  BY DEF StreamOK
<1>3. s.next \in Nat /\ s.cnt \in Int /\ Len(g) \in Nat
  BY <1>1, LenProperties DEF StreamRecord
<1>4. e.next + e.cnt <= DEF_BUFSIZE /\ e.cnt >= 0
  BY <1>2, <1>3 DEF Input
<1>5. ASSUME NEW j \in 1 .. e.cnt PROVE e.buf[e.next + j] = Len(h) + j
  <2>1. PICK i : i = k + j
    OBVIOUS
  <2>2. i \in 1 .. s.cnt
    BY <1>3, <2>1
  <2>3. s.buf[s.next + i] = Len(g) + i
    BY <1>2, <2>2 DEF Input
  <2>4. PICK n : n = s.next + i
    OBVIOUS
  <2>0. e.next = s.next + k /\ k \in Nat /\ s.next \in Nat
    BY <1>3
  <2>a. n = s.next + (k + j)
    BY <2>1, <2>4
  <2>8. n = e.next + j /\ n > s.next + k /\ n \in Nat
    BY <2>0, <2>a
  <2>9. n <= DEF_BUFSIZE
    <3>1. e.cnt \in Int /\ e.next \in Nat /\ j \in Int /\ j <= e.cnt
      BY <1>3, <2>0
    <3> QED BY <1>4, <2>8, <3>1
  <2>b. n > 0
    BY <2>0, <2>8
  <2>5. n = e.next + j /\ n \in 1 .. DEF_BUFSIZE /\ n > s.next + k
    BY <2>8, <2>9, <2>b
  <2>6. e.buf[n] = s.buf[n]
    BY <2>5
  <2>7. Len(g) + i = Len(h) + j
    BY <1>3, <2>1
  <2> QED BY <2>3, <2>4, <2>5, <2>6, <2>7
<1>6. Input(e, p, w, h)
  <2>1. ~ e.cnt < 0
    BY <1>3, <1>4
  <2>2. "WRITE" \notin e.flags /\ p = 0 /\ w = <<>>
    BY <1>2 DEF Input
  <2> QED BY <1>4, <1>5, <2>1, <2>2 DEF Input
<1>7. "WRITE" \notin e.flags /\ e.flags # {}
  BY <1>2 DEF Input
<1> QED BY <1>1, <1>6, <1>7 DEF StreamOK, StreamTyped

\* From a stream with an empty buffer the program reads past the buffer.
LEMMA PastOK ==
  ASSUME NEW s, NEW p, NEW w, NEW g, StreamOK(s, p, w, g), "READ" \in s.flags,
         s.cnt = 0, NEW x \in SUBSET {"EOF", "ERR"},
         NEW e, e = [s EXCEPT !.flags = @ \cup x],
         NEW h \in Seq(Nat), From(0, h)
  PROVE  StreamOK(e, p, w, h)
<1> DEF_BUFSIZE \in Nat /\ DEF_BUFSIZE > 0
  BY StdioSizes
<1>1. s \in StreamRecord /\ p \in Nat /\ w \in Seq(Nat) /\ g \in Seq(Nat) /\ InOrder(w)
  BY DEF StreamOK, StreamTyped
<1>2. Input(s, p, w, g)
  BY DEF StreamOK
<1>3. PICK fl : fl = s.flags \cup x
  OBVIOUS
<1>4. fl \in SUBSET Flag /\ "READ" \in fl /\ fl # {} /\ "WRITE" \notin fl
  <2>1. s.flags \in SUBSET Flag
    BY <1>1 DEF StreamRecord
  <2>2. "WRITE" \notin s.flags
    BY <1>2 DEF Input
  <2>3. x \in SUBSET Flag
    BY DEF Flag
  <2>4. "WRITE" \notin x
    OBVIOUS
  <2> QED BY <1>3, <2>1, <2>2, <2>3, <2>4
<1>5. e = [s EXCEPT !.flags = fl]
  BY <1>3
<1>6. /\ e \in StreamRecord /\ e.flags = fl /\ e.next = s.next
      /\ e.buf = s.buf /\ e.cnt = 0
  BY <1>1, <1>4, <1>5 DEF StreamRecord
<1>7. Input(e, p, w, h)
  BY <1>2, <1>4, <1>6 DEF Input
<1> QED BY <1>1, <1>4, <1>6, <1>7 DEF StreamOK, StreamTyped

-----------------------------------------------------------------------------
(* All streams                                                             *)

\* One of the streams changes.
LEMMA StreamSet ==
  ASSUME NEW F, NEW P, NEW W, NEW G, Streams(F, P, W, G), NEW f \in Stream,
         NEW s, NEW p, NEW w, NEW g, StreamOK(s, p, w, g)
  PROVE  Streams([F EXCEPT ![f] = s], [P EXCEPT ![f] = p], [W EXCEPT ![f] = w],
                 [G EXCEPT ![f] = g])
BY DEF Streams

\* Nothing changes where the same is put again.
LEMMA SameAgain ==
  ASSUME NEW F, NEW P, NEW W, NEW G, Streams(F, P, W, G), NEW f \in Stream
  PROVE  /\ F = [F EXCEPT ![f] = F[f]] /\ P = [P EXCEPT ![f] = P[f]]
         /\ W = [W EXCEPT ![f] = W[f]] /\ G = [G EXCEPT ![f] = G[f]]
         /\ StreamOK(F[f], P[f], W[f], G[f])
BY DEF Streams

\* _init_stdio
LEMMA StdioStart == StdioInit => StdioInv
<1> SUFFICES ASSUME StdioInit PROVE StdioInv
  OBVIOUS
<1>1. StreamOK(Closed, 0, <<>>, <<>>)
  <2>1. Closed \in StreamRecord /\ Closed.flags = {} /\ Closed.next = 0
    BY DEF Closed, StreamRecord
  <2> QED BY <2>1 DEF StreamOK, StreamTyped, InOrder, From
<1>2. StreamOK(Fresh({"READ"}), 0, <<>>, <<>>) /\ StreamOK(Fresh({"WRITE"}), 0, <<>>, <<>>)
  BY FreshOK DEF Flag
<1>3. ASSUME NEW f \in Stream PROVE StreamOK(fp[f], put[f], sent[f], got[f])
  BY <1>1, <1>2 DEF StdioInit
<1>4. fp[stdout] = Fresh({"WRITE"})
  BY StdioSizes DEF StdioInit, stdout
<1>5. Writes(fp[stdout].flags)
  BY <1>4 DEF Fresh, Closed, Writes
<1> QED BY <1>3, <1>5 DEF StdioInit, StdioInv, Streams

-----------------------------------------------------------------------------
(* The calls                                                               *)

\* What is known of every stream.
LEMMA StreamKept ==
  ASSUME StdioInv, NEW f \in Stream
  PROVE  StreamOK(fp[f], put[f], sent[f], got[f])
BY DEF StdioInv, Streams

\* A call that changes one stream.
LEMMA OneStream ==
  ASSUME StdioInv, UNCHANGED exiting, NEW f \in Stream,
         NEW s, NEW p, NEW w, NEW g, StreamOK(s, p, w, g),
         fp' = [fp EXCEPT ![f] = s], put' = [put EXCEPT ![f] = p],
         sent' = [sent EXCEPT ![f] = w], got' = [got EXCEPT ![f] = g],
         f = stdout => exiting \/ Writes(s.flags)
  PROVE  StdioInv'
<1>1. Streams(fp, put, sent, got)
  BY DEF StdioInv
<1>2. Streams(fp', put', sent', got')
  BY <1>1, StreamSet
<1>3. ~ exiting' => Writes(fp'[stdout].flags)
  BY <1>1, StdioSizes DEF StdioInv, Streams
<1> QED BY <1>2, <1>3 DEF StdioInv

LEMMA FopenStep ==
  ASSUME StdioInv, ~ exiting, UNCHANGED exiting, NEW f \in Stream,
         NEW flags \in ModeFlags, fopen(f, flags)
  PROVE  StdioInv'
<1>1. StreamOK(Fresh(flags), 0, <<>>, <<>>)
  BY FreshOK DEF ModeFlags, Flag
<1>2. f # stdout
  BY DEF StdioInv, fopen, get_empty_file, Writes
<1> QED BY <1>1, <1>2, OneStream DEF fopen

LEMMA FflushStep ==
  ASSUME StdioInv, UNCHANGED exiting, NEW f \in Stream, fflush(f)
  PROVE  StdioInv'
<1>1. PICK r \in Flushed(fp[f], sent[f]) :
        fp' = [fp EXCEPT ![f] = r.s] /\ sent' = [sent EXCEPT ![f] = r.w]
  BY DEF fflush
<1>2. StreamOK(r.s, put[f], r.w, got[f]) /\ Writes(r.s.flags)
  BY StreamKept, FlushedOK DEF fflush
<1>3. put' = [put EXCEPT ![f] = put[f]] /\ got' = [got EXCEPT ![f] = got[f]]
  BY SameAgain DEF StdioInv, fflush
<1> QED BY <1>1, <1>2, <1>3, OneStream

LEMMA FcloseStep ==
  ASSUME StdioInv, NEW f \in Stream, fclose(f)
  PROVE  StdioInv'
<1>1. PICK r \in IF Writes(fp[f].flags) THEN Flushed(fp[f], sent[f])
                 ELSE {[s |-> fp[f], w |-> sent[f]]} :
        /\ sent' = [sent EXCEPT ![f] = r.w]
        /\ put' = [put EXCEPT ![f] = IF "ERR" \in r.s.flags THEN Len(r.w)
                                     ELSE @]
  BY DEF fclose
<1>2. StreamOK(fp[f], put[f], sent[f], got[f]) /\ fp[f].flags # {}
  BY StreamKept DEF fclose
<1>3. PICK n : n = IF "ERR" \in r.s.flags THEN Len(r.w) ELSE put[f]
  OBVIOUS
<1>4. StreamOK(r.s, put[f], r.w, got[f]) /\ n = Len(r.w)
  <2>1. CASE Writes(fp[f].flags)
    <3>1. /\ StreamOK(r.s, put[f], r.w, got[f]) /\ Writes(r.s.flags)
          /\ Ended(fp[f].flags) => r.s = fp[f] /\ r.w = sent[f]
          /\ ~ Ended(fp[f].flags) => r.s.next = 0
      BY <1>1, <1>2, <2>1, FlushedOK
    <3>2. Output(r.s, put[f], r.w)
      BY <3>1 DEF StreamOK, Writes
    <3>3. ASSUME "ERR" \notin r.s.flags PROVE put[f] = Len(r.w)
      <4>1. "EOF" \notin r.s.flags /\ ~ Ended(r.s.flags)
        BY <3>2, <3>3 DEF Output, Ended
      <4>2. r.s.next = 0
        BY <3>1, <4>1
      <4>3. Len(r.w) + 0 = put[f]
        BY <3>2, <3>3, <4>2 DEF Output, Fills
      <4>4. Len(r.w) \in Nat
        BY <3>1, LenProperties DEF StreamOK, StreamTyped
      <4> QED BY <4>3, <4>4
    <3> QED BY <1>3, <3>1, <3>3
  <2>2. CASE ~ Writes(fp[f].flags)
    <3>1. r.s = fp[f] /\ r.w = sent[f]
      BY <1>1, <2>2
    <3>2. Input(fp[f], put[f], sent[f], got[f])
      BY <1>2, <2>2 DEF StreamOK, Writes
    <3>3. put[f] = 0 /\ Len(sent[f]) = 0
      BY <3>2 DEF Input
    <3> QED BY <1>2, <1>3, <3>1, <3>3
  <2> QED BY <2>1, <2>2
<1>5. n \in Nat
  BY <1>4, LenProperties DEF StreamOK, StreamTyped
<1>6. StreamOK(Closed, n, r.w, got[f])
  BY <1>4, <1>5, ClosedOK
<1>7. put' = [put EXCEPT ![f] = n]
  BY <1>1, <1>3
<1>8. got' = [got EXCEPT ![f] = got[f]] /\ UNCHANGED exiting
  BY SameAgain DEF StdioInv, fclose
<1>9. f = stdout => exiting
  <2>1. ~ exiting => f >= StdFiles
    BY Zenon DEF fclose
  <2>2. f >= StdFiles => f # stdout
    BY StdioSizes DEF stdout, Stream
  <2> QED BY <2>1, <2>2
<1>10. fp' = [fp EXCEPT ![f] = Closed] /\ sent' = [sent EXCEPT ![f] = r.w]
  BY <1>1 DEF fclose
<1> QED BY <1>6, <1>7, <1>8, <1>9, <1>10, OneStream

LEMMA PutcStep ==
  ASSUME StdioInv, UNCHANGED exiting, NEW f \in Stream, putc(f)
  PROVE  StdioInv'
<1> DEF_BUFSIZE \in Nat /\ DEF_BUFSIZE > 0
  BY StdioSizes
<1>1. PICK s : s = [fp[f] EXCEPT !.cnt = @ - 1]
  OBVIOUS
<1>2. PICK ch : ch = put[f] + 1
  OBVIOUS
<1>3. StreamOK(fp[f], put[f], sent[f], got[f]) /\ "WRITE" \in fp[f].flags
  BY StreamKept DEF putc, Writes
<1>4. /\ StreamOK(s, put[f], sent[f], got[f]) /\ s.flags = fp[f].flags
      /\ s.next = fp[f].next /\ s.cnt = fp[f].cnt - 1
  BY <1>1, <1>3, CountOK
<1>5. /\ Output(fp[f], put[f], sent[f]) /\ Output(s, put[f], sent[f])
      /\ fp[f] \in StreamRecord /\ s \in StreamRecord /\ put[f] \in Nat
  BY <1>3, <1>4 DEF StreamOK, StreamTyped
<1>6. /\ fp[f].next \in Nat /\ fp[f].cnt \in Int
      /\ fp[f].next + fp[f].cnt <= DEF_BUFSIZE
  BY <1>5 DEF StreamRecord, Output
<1>7. got' = [got EXCEPT ![f] = got[f]] /\ put' = [put EXCEPT ![f] = ch]
  BY <1>2, SameAgain DEF StdioInv, putc
<1>8. CASE s.cnt >= 0 /\ fp' = [fp EXCEPT ![f] = Stored(s, ch)] /\ UNCHANGED sent
  <2>1. s.next < DEF_BUFSIZE /\ s.next + s.cnt + 1 <= DEF_BUFSIZE
    BY <1>4, <1>6, <1>8
  <2>2. StreamOK(Stored(s, ch), ch, sent[f], got[f]) /\ Stored(s, ch).flags = s.flags
    BY <1>2, <1>3, <1>4, <2>1, StoredOK
  <2>3. sent' = [sent EXCEPT ![f] = sent[f]]
    BY <1>8, SameAgain DEF StdioInv
  <2>4. Writes(Stored(s, ch).flags)
    BY <1>3, <1>4, <2>2 DEF Writes
  <2> QED BY <1>7, <1>8, <2>2, <2>3, <2>4, OneStream
<1>9. CASE Ended(s.flags) /\ fp' = [fp EXCEPT ![f] = s] /\ UNCHANGED sent
  <2>1. "ERR" \in s.flags
    BY <1>5, <1>9 DEF Output, Ended
  <2>2. ch \in Nat /\ Output(s, ch, sent[f])
    BY <1>2, <1>5, <2>1 DEF Output
  <2>3. "READ" \notin s.flags /\ s.flags # {}
    BY <1>5, <2>1 DEF Output
  <2>4. StreamOK(s, ch, sent[f], got[f])
    BY <1>4, <2>2, <2>3 DEF StreamOK, StreamTyped
  <2>5. sent' = [sent EXCEPT ![f] = sent[f]]
    BY <1>9, SameAgain DEF StdioInv
  <2>6. Writes(s.flags)
    BY <1>3, <1>4 DEF Writes
  <2> QED BY <1>7, <1>9, <2>4, <2>5, <2>6, OneStream
<1>10. ASSUME ~ Ended(s.flags), NEW r \in Flushed(s, sent[f]),
              fp' = [fp EXCEPT ![f] = [Stored(r.s, ch) EXCEPT !.cnt = @ - 1]],
              sent' = [sent EXCEPT ![f] = r.w]
       PROVE  StdioInv'
  <2>1. /\ StreamOK(r.s, put[f], r.w, got[f]) /\ "WRITE" \in r.s.flags
        /\ r.s.cnt = DEF_BUFSIZE /\ r.s.next = 0
    BY <1>3, <1>4, <1>10, FlushedOK DEF Writes
  <2>2. PICK d : d = [r.s EXCEPT !.cnt = @ - 1]
    OBVIOUS
  <2>3. /\ StreamOK(d, put[f], r.w, got[f]) /\ d.flags = r.s.flags /\ d.next = 0
        /\ d.cnt = DEF_BUFSIZE - 1
    BY <2>1, <2>2, CountOK
  <2>4. d.next < DEF_BUFSIZE /\ d.next + d.cnt + 1 <= DEF_BUFSIZE
    BY <2>3
  <2>5. PICK e : e = Stored(d, ch)
    OBVIOUS
  <2>6. StreamOK(e, ch, r.w, got[f]) /\ e.flags = d.flags
    BY <1>2, <2>1, <2>3, <2>4, <2>5, StoredOK
  <2>7. e = [Stored(r.s, ch) EXCEPT !.cnt = @ - 1]
    <3>1. r.s \in StreamRecord
      BY <2>1 DEF StreamOK, StreamTyped
    <3> QED BY <2>1, <2>2, <2>5, <3>1 DEF Stored, StreamRecord
  <2>8. Writes(e.flags)
    BY <2>1, <2>3, <2>6 DEF Writes
  <2> QED BY <1>7, <1>10, <2>6, <2>7, <2>8, OneStream
<1> QED BY <1>1, <1>2, <1>8, <1>9, <1>10 DEF putc

\* stdin flushes stdout.
LEMMA Prompted ==
  ASSUME StdioInv, ~ exiting, NEW f \in Stream, NEW r \in PromptFirst(f)
  PROVE  StreamOK(r.s, put[stdout], r.w, got[stdout]) /\ Writes(r.s.flags)
<1>1. /\ StreamOK(fp[stdout], put[stdout], sent[stdout], got[stdout])
      /\ Writes(fp[stdout].flags)
  BY StreamKept, StdioSizes DEF StdioInv
<1>2. CASE r \in Flushed(fp[stdout], sent[stdout])
  BY <1>1, <1>2, FlushedOK
<1>3. CASE r = [s |-> fp[stdout], w |-> sent[stdout]]
  BY <1>1, <1>3
<1> QED BY <1>2, <1>3 DEF PromptFirst

\* stdout is flushed and another stream changes.
LEMMA TwoStreams ==
  ASSUME StdioInv, ~ exiting, UNCHANGED <<exiting, put>>,
         NEW f \in Stream, f # stdout, NEW r \in PromptFirst(f),
         NEW s, NEW g, StreamOK(s, put[f], sent[f], g),
         fp' = [fp EXCEPT ![stdout] = r.s, ![f] = s],
         sent' = [sent EXCEPT ![stdout] = r.w], got' = [got EXCEPT ![f] = g]
  PROVE  StdioInv'
<1>1. Streams(fp, put, sent, got) /\ stdout \in Stream
  BY StdioSizes DEF StdioInv
<1>2. StreamOK(r.s, put[stdout], r.w, got[stdout]) /\ Writes(r.s.flags)
  BY Prompted
<1>3. PICK F : F = [fp EXCEPT ![stdout] = r.s]
  OBVIOUS
<1>4. PICK W : W = [sent EXCEPT ![stdout] = r.w]
  OBVIOUS
<1>5. Streams(F, put, W, got)
  <2>1. Streams(F, [put EXCEPT ![stdout] = put[stdout]], W,
                [got EXCEPT ![stdout] = got[stdout]])
    BY <1>1, <1>2, <1>3, <1>4, StreamSet
  <2>2. /\ put = [put EXCEPT ![stdout] = put[stdout]]
        /\ got = [got EXCEPT ![stdout] = got[stdout]]
    BY <1>1, SameAgain
  <2> QED BY <2>1, <2>2
<1>6. W[f] = sent[f] /\ W = [W EXCEPT ![f] = W[f]] /\ put = [put EXCEPT ![f] = put[f]]
  <2>1. W[f] = sent[f]
    BY <1>1, <1>4 DEF Streams
  <2> QED BY <2>1, <1>5, SameAgain
<1>7. Streams([F EXCEPT ![f] = s], put, W, [got EXCEPT ![f] = g])
  <2>1. Streams([F EXCEPT ![f] = s], [put EXCEPT ![f] = put[f]],
                [W EXCEPT ![f] = W[f]], [got EXCEPT ![f] = g])
    <3>1. StreamOK(s, put[f], W[f], g)
      BY <1>6
    <3> QED BY <1>5, <3>1, StreamSet
  <2> QED BY <1>6, <2>1
<1>8. fp' = [F EXCEPT ![f] = s]
  BY <1>1, <1>3 DEF Streams
<1>9. Streams(fp', put', sent', got')
  BY <1>4, <1>7, <1>8
<1>10. fp'[stdout] = r.s
  BY <1>1, <1>3, <1>8 DEF Streams
<1> QED BY <1>2, <1>9, <1>10 DEF StdioInv

\* A stream d into whose buffer n bytes of a file have been read from pos on,
\* and what has been got after the first of them.
Refilled(d, pos, n) ==
    [d EXCEPT !.cnt = IF n > 0 THEN n - 1 ELSE n,
              !.next = IF n > 0 THEN 1 ELSE 0,
              !.buf = Filled(@, pos, n),
              !.flags = @ \cup IF n = -1 THEN {"ERR"}
                        ELSE IF n = 0 THEN {"EOF"} ELSE {}]
GotFirst(g, pos, n) == IF n > 0 THEN Append(g, pos + 1) ELSE g

\* The fields of a stream.
LEMMA Fields ==
  ASSUME NEW a, NEW b, NEW c, NEW d, NEW e,
         e = [flags |-> a, buf |-> b, next |-> c, cnt |-> d]
  PROVE  e.flags = a /\ e.buf = b /\ e.next = c /\ e.cnt = d
OBVIOUS

LEMMA FilledOK ==
  ASSUME NEW s, NEW p, NEW w, NEW g, StreamOK(s, p, w, g), "READ" \in s.flags,
         NEW pos \in Nat, pos = Len(g), NEW n \in -1 .. DEF_BUFSIZE,
         NEW d \in StreamRecord, d.flags = s.flags, d.buf = s.buf
  PROVE  StreamOK(Refilled(d, pos, n), p, w, GotFirst(g, pos, n))
<1>e. PICK e : e = Refilled(d, pos, n)
  OBVIOUS
<1>h. PICK h : h = GotFirst(g, pos, n)
  OBVIOUS
<1> DEF_BUFSIZE \in Nat /\ DEF_BUFSIZE > 0
  BY StdioSizes
<1>1. /\ s \in StreamRecord /\ p \in Nat /\ w \in Seq(Nat) /\ g \in Seq(Nat)
      /\ InOrder(w) /\ From(0, g)
  BY DEF StreamOK, StreamTyped
<1>2. Input(s, p, w, g)
  BY DEF StreamOK
<1>3. PICK cn : cn = IF n > 0 THEN n - 1 ELSE n
  OBVIOUS
<1>4. PICK nx : nx = IF n > 0 THEN 1 ELSE 0
  OBVIOUS
<1>5. PICK b : b = Filled(s.buf, pos, n)
  OBVIOUS
<1>6. PICK x : x = IF n = -1 THEN {"ERR"} ELSE IF n = 0 THEN {"EOF"} ELSE {}
  OBVIOUS
<1>7. PICK fl : fl = s.flags \cup x
  OBVIOUS
<1>8. e = [flags |-> fl, buf |-> b, next |-> nx, cnt |-> cn]
  <2>1. d = [flags |-> s.flags, buf |-> s.buf, next |-> d.next, cnt |-> d.cnt]
    BY DEF StreamRecord
  <2>2. e = [d EXCEPT !.cnt = cn, !.next = nx, !.buf = Filled(@, pos, n),
                      !.flags = @ \cup x]
    BY <1>e, <1>3, <1>4, <1>6 DEF Refilled
  <2>3. e = [d EXCEPT !.cnt = cn, !.next = nx, !.buf = b, !.flags = fl]
    BY <1>5, <1>7, <2>1, <2>2
  <2> QED BY <2>1, <2>3
<1>9. s.buf \in Seq(Nat) /\ Len(s.buf) = DEF_BUFSIZE
  BY <1>1, <1>2 DEF StreamRecord, Input
<1>10. /\ b \in Seq(Nat) /\ Len(b) = DEF_BUFSIZE
       /\ \A j \in 1 .. DEF_BUFSIZE : j <= n => b[j] = pos + j
  <2>1. /\ DOMAIN s.buf = 1 .. DEF_BUFSIZE
        /\ \A j \in 1 .. DEF_BUFSIZE : s.buf[j] \in Nat
    BY <1>9, LenProperties
  <2>2. b = [j \in 1 .. DEF_BUFSIZE |-> IF j <= n THEN pos + j ELSE s.buf[j]]
    BY <1>5, <2>1 DEF Filled
  <2>3. b \in [1 .. DEF_BUFSIZE -> Nat]
    BY <2>1, <2>2
  <2>4. b \in Seq(Nat)
    BY <2>3, SeqDef
  <2> QED BY <2>2, <2>3, <2>4, LenProperties
<1>11. /\ x \in SUBSET {"EOF", "ERR"}
       /\ n <= 0 => Ended(fl)
  BY <1>6, <1>7 DEF Ended
<1>12. /\ fl \in SUBSET Flag /\ "READ" \in fl /\ fl # {} /\ "WRITE" \notin fl
  <2>1. s.flags \in SUBSET Flag
    BY <1>1 DEF StreamRecord
  <2>2. "WRITE" \notin s.flags
    BY <1>2 DEF Input
  <2>3. x \in SUBSET Flag
    BY <1>11 DEF Flag
  <2>4. "WRITE" \notin x
    BY <1>11
  <2> QED BY <1>7, <2>1, <2>2, <2>3, <2>4
<1>13. /\ cn \in Int /\ nx \in Nat /\ nx + cn <= DEF_BUFSIZE
       /\ cn < 0 => n <= 0
  BY <1>3, <1>4
<1>14. e \in StreamRecord
  BY <1>8, <1>10, <1>12, <1>13 DEF StreamRecord
<1>15. h \in Seq(Nat) /\ From(0, h) /\ (n > 0 => Len(h) = pos + 1)
  <2>1. CASE n > 0
    BY <1>1, <1>h, <2>1, GotOne DEF GotFirst
  <2>2. CASE ~ n > 0
    BY <1>1, <1>h, <2>2 DEF GotFirst
  <2> QED BY <2>1, <2>2
<1>16. ASSUME NEW j \in 1 .. cn PROVE b[nx + j] = Len(h) + j
  <2>1. n > 0 /\ cn = n - 1 /\ nx = 1
    BY <1>3, <1>4
  <2>2. PICK i : i = 1 + j
    OBVIOUS
  <2>3. i \in 1 .. DEF_BUFSIZE /\ i <= n /\ pos + i = pos + 1 + j
    BY <2>1, <2>2
  <2> QED BY <1>10, <1>15, <2>1, <2>2, <2>3
<1>17. e.flags = fl /\ e.buf = b /\ e.next = nx /\ e.cnt = cn
  BY <1>8, Fields
<1>18. p = 0 /\ w = <<>>
  BY <1>2 DEF Input
<1>19. Input(e, p, w, h)
  BY <1>10, <1>11, <1>12, <1>13, <1>16, <1>17, <1>18 DEF Input
<1>20. StreamOK(e, p, w, h)
  BY <1>1, <1>12, <1>14, <1>15, <1>17, <1>19 DEF StreamOK, StreamTyped
<1> QED BY <1>e, <1>h, <1>20

LEMMA GetcStep ==
  ASSUME StdioInv, ~ exiting, UNCHANGED exiting, NEW f \in Stream, getc(f)
  PROVE  StdioInv'
<1> DEF_BUFSIZE \in Nat /\ DEF_BUFSIZE > 0
  BY StdioSizes
<1>1. PICK s : s = [fp[f] EXCEPT !.cnt = @ - 1]
  OBVIOUS
<1>2. /\ StreamOK(fp[f], put[f], sent[f], got[f]) /\ "READ" \in fp[f].flags
      /\ fp[f].cnt >= 0 /\ UNCHANGED put
  BY StreamKept DEF getc
<1>3. /\ Input(fp[f], put[f], sent[f], got[f]) /\ fp[f] \in StreamRecord
      /\ got[f] \in Seq(Nat) /\ From(0, got[f]) /\ put[f] \in Nat /\ sent[f] \in Seq(Nat)
      /\ InOrder(sent[f])
  BY <1>2 DEF StreamOK, StreamTyped
<1>4. f # stdout
  BY <1>3 DEF StdioInv, Input, Writes
<1>5. /\ fp[f].cnt \in Int /\ fp[f].next \in Nat /\ fp[f].buf \in Seq(Nat)
      /\ Len(fp[f].buf) = DEF_BUFSIZE /\ fp[f].next + fp[f].cnt <= DEF_BUFSIZE
  BY <1>3 DEF StreamRecord, Input
<1>6. /\ s \in StreamRecord /\ s.flags = fp[f].flags /\ s.next = fp[f].next
      /\ s.buf = fp[f].buf /\ s.cnt = fp[f].cnt - 1
  <2>1. PICK c : c = fp[f].cnt - 1
    OBVIOUS
  <2>2. c \in Int
    BY <1>5, <2>1
  <2>3. s = [fp[f] EXCEPT !.cnt = c]
    BY <1>1, <2>1
  <2> QED BY <1>3, <2>1, <2>2, <2>3 DEF StreamRecord
<1>7. put' = [put EXCEPT ![f] = put[f]]
  BY <1>2, SameAgain DEF StdioInv
<1>8. CASE /\ s.cnt >= 0
           /\ fp' = [fp EXCEPT ![f] = [s EXCEPT !.next = @ + 1]]
           /\ got' = [got EXCEPT ![f] = Append(@, s.buf[s.next + 1])]
           /\ UNCHANGED sent
  <2>1. PICK e : e = [s EXCEPT !.next = @ + 1]
    OBVIOUS
  <2>2. /\ e \in StreamRecord /\ e.flags = s.flags /\ e.next = s.next + 1
        /\ e.buf = s.buf /\ e.cnt = s.cnt
    <3>1. PICK n : n = s.next + 1
      OBVIOUS
    <3>2. n \in Nat
      BY <1>5, <1>6, <3>1
    <3>3. e = [s EXCEPT !.next = n]
      BY <2>1, <3>1
    <3> QED BY <1>6, <3>1, <3>2, <3>3 DEF StreamRecord
  <2>3. PICK h : h = Append(got[f], s.buf[s.next + 1])
    OBVIOUS
  <2>4. s.buf[s.next + 1] = Len(got[f]) + 1
    <3>1. 1 \in 1 .. fp[f].cnt
      BY <1>5, <1>6, <1>8
    <3> QED BY <1>3, <1>6, <3>1 DEF Input
  <2>5. h \in Seq(Nat) /\ Len(h) = Len(got[f]) + 1 /\ From(0, h)
    <3>1. Len(got[f]) \in Nat
      BY <1>3, LenProperties
    <3> QED BY <1>3, <2>3, <2>4, <3>1, GotOne
  <2>6. StreamOK(e, put[f], sent[f], h)
    <3>1. PICK k : k = 1
      OBVIOUS
    <3>2. /\ k \in Nat /\ k <= fp[f].cnt /\ e.flags = fp[f].flags
          /\ e.next = fp[f].next + k /\ e.cnt = fp[f].cnt - k
          /\ Len(e.buf) = DEF_BUFSIZE /\ Len(h) = Len(got[f]) + k
          /\ e.buf = fp[f].buf
      BY <1>5, <1>6, <1>8, <2>2, <2>5, <3>1
    <3> QED BY <1>2, <2>2, <2>5, <3>2, TakenOK
  <2>7. fp' = [fp EXCEPT ![f] = e] /\ got' = [got EXCEPT ![f] = h]
    BY <1>8, <2>1, <2>3
  <2>8. sent' = [sent EXCEPT ![f] = sent[f]]
    BY <1>8, SameAgain DEF StdioInv
  <2> QED BY <1>4, <1>7, <2>6, <2>7, <2>8, OneStream
<1>9. ASSUME s.cnt < 0, NEW r \in PromptFirst(f), Ended(s.flags),
             sent' = [sent EXCEPT ![stdout] = r.w],
             fp' = [fp EXCEPT ![stdout] = r.s, ![f] = s], UNCHANGED got
      PROVE  StdioInv'
  <2>1. /\ "WRITE" \notin s.flags /\ s.flags # {} /\ put[f] = 0 /\ sent[f] = <<>>
        /\ "READ" \in s.flags
    BY <1>2, <1>3, <1>6 DEF Input
  <2>2. s.next + s.cnt <= DEF_BUFSIZE /\ \A j \in 1 .. s.cnt : FALSE
    BY <1>5, <1>6, <1>9
  <2>3. Input(s, put[f], sent[f], got[f])
    BY <1>5, <1>6, <1>9, <2>1, <2>2 DEF Input
  <2>4. StreamOK(s, put[f], sent[f], got[f])
    BY <1>3, <1>6, <2>1, <2>3 DEF StreamOK, StreamTyped
  <2>5. got' = [got EXCEPT ![f] = got[f]]
    BY <1>9, SameAgain DEF StdioInv
  <2> QED BY <1>2, <1>4, <1>9, <2>4, <2>5, TwoStreams
<1>10. ASSUME s.cnt < 0, NEW r \in PromptFirst(f), NEW n \in Possible(Pos(f), DEF_BUFSIZE),
              sent' = [sent EXCEPT ![stdout] = r.w],
              fp' = [fp EXCEPT ![stdout] = r.s, ![f] =
                           [s EXCEPT !.cnt = IF n > 0 THEN n - 1 ELSE n,
                                     !.next = IF n > 0 THEN 1 ELSE 0,
                                     !.buf = Filled(@, Pos(f), n),
                                     !.flags = @ \cup IF n = -1 THEN {"ERR"}
                                               ELSE IF n = 0 THEN {"EOF"}
                                               ELSE {}]],
              got' = IF n > 0 THEN [got EXCEPT ![f] = Append(@, Pos(f) + 1)]
                     ELSE got
       PROVE  StdioInv'
  <2>1. PICK pos : pos = Pos(f)
    OBVIOUS
  <2>2. pos = Len(got[f]) /\ pos \in Nat /\ fp[f].cnt = 0
    <3>1. fp[f].cnt = 0
      BY <1>2, <1>5, <1>6, <1>10
    <3>2. Len(got[f]) \in Nat
      BY <1>3, LenProperties
    <3> QED BY <2>1, <3>1, <3>2 DEF Pos
  <2>3. n \in -1 .. DEF_BUFSIZE
    BY <2>1, <2>2, StdioSizes, <1>10 DEF Possible, Delivered
  <2>4. PICK e : e = Refilled(s, pos, n)
    OBVIOUS
  <2>5. PICK h : h = GotFirst(got[f], pos, n)
    OBVIOUS
  <2>6. StreamOK(e, put[f], sent[f], h)
    BY <1>2, <1>6, <2>2, <2>3, <2>4, <2>5, FilledOK
  <2>7. fp' = [fp EXCEPT ![stdout] = r.s, ![f] = e]
    BY <1>10, <2>1, <2>4 DEF Refilled
  <2>8. got' = [got EXCEPT ![f] = h]
    <3>1. CASE n > 0
      BY <1>10, <2>1, <2>5, <3>1 DEF GotFirst
    <3>2. CASE ~ n > 0
      <4>1. got' = got /\ h = got[f]
        BY <1>10, <2>5, <3>2 DEF GotFirst
      <4> QED BY <4>1, SameAgain DEF StdioInv
    <3> QED BY <3>1, <3>2
  <2> QED BY <1>2, <1>4, <1>10, <2>6, <2>7, <2>8, TwoStreams
<1> QED BY <1>1, <1>8, <1>9, <1>10 DEF getc

LEMMA FreadStep ==
  ASSUME StdioInv, UNCHANGED exiting, NEW f \in Stream, NEW size \in Nat,
         fread(f, size)
  PROVE  StdioInv'
<1> DEF_BUFSIZE \in Nat /\ DEF_BUFSIZE > 0
  BY StdioSizes
<1> DEFINE copy == Copied(f, size)
           junk == [i \in 1..copy |-> Junk]
           b == [i \in DOMAIN fp[f].buf |->
                       IF i - fp[f].next \in 1..copy THEN Junk ELSE fp[f].buf[i]]
           s == [fp[f] EXCEPT !.cnt = @ - copy, !.next = @ + copy, !.buf = b]
           x(n) == IF n = -1 THEN {"ERR"} ELSE IF copy + n = 0 THEN {"EOF"} ELSE {}
<1>1. copy = Copied(f, size)
  OBVIOUS
<1>2. junk = [i \in 1..copy |-> Junk]
  OBVIOUS
<1>3. b = [i \in DOMAIN fp[f].buf |->
                       IF i - fp[f].next \in 1..copy THEN Junk ELSE fp[f].buf[i]]
  OBVIOUS
<1>4. s = [fp[f] EXCEPT !.cnt = @ - copy, !.next = @ + copy, !.buf = b]
  OBVIOUS
<1>19. \/ fp' = [fp EXCEPT ![f] = s] /\ got' = [got EXCEPT ![f] = @ \o junk]
       \/ \E n \in Possible(Pos(f), size - copy) :
             /\ copy < size
             /\ fp' = [fp EXCEPT ![f] = [s EXCEPT !.flags = @ \cup x(n)]]
             /\ got' = [got EXCEPT ![f] = @ \o junk \o [i \in 1..n |-> Pos(f) + i]]
  BY Zenon DEF fread
<1>20. \A n : x(n) = IF n = -1 THEN {"ERR"}
                     ELSE IF copy + n = 0 THEN {"EOF"} ELSE {}
  OBVIOUS
<1> HIDE DEF copy, junk, b, s, x
<1>5. /\ StreamOK(fp[f], put[f], sent[f], got[f]) /\ "READ" \in fp[f].flags
      /\ ~ Ended(fp[f].flags) /\ UNCHANGED <<put, sent>>
  BY StreamKept DEF fread
<1>6. /\ Input(fp[f], put[f], sent[f], got[f]) /\ fp[f] \in StreamRecord
      /\ got[f] \in Seq(Nat) /\ From(0, got[f])
  BY <1>5 DEF StreamOK, StreamTyped
<1>7. f = stdout => exiting
  BY <1>6 DEF StdioInv, Input, Writes
<1>8. /\ fp[f].cnt \in Nat /\ fp[f].next \in Nat /\ fp[f].buf \in Seq(Nat)
      /\ Len(fp[f].buf) = DEF_BUFSIZE /\ fp[f].next + fp[f].cnt <= DEF_BUFSIZE
  <2>1. fp[f].cnt \in Int /\ fp[f].next \in Nat /\ fp[f].buf \in Seq(Nat)
    BY <1>6 DEF StreamRecord
  <2>2. ~ fp[f].cnt < 0
    BY <1>5, <1>6 DEF Input
  <2> QED BY <1>6, <2>1, <2>2 DEF Input
<1>9. /\ copy \in Nat /\ copy <= fp[f].cnt /\ copy <= size
      /\ copy < size => fp[f].cnt = copy
  BY <1>1, <1>8 DEF Copied
<1>10. /\ b \in Seq(Nat) /\ Len(b) = DEF_BUFSIZE
       /\ \A j \in 1 .. DEF_BUFSIZE : j > fp[f].next + copy => b[j] = fp[f].buf[j]
  <2>1. /\ DOMAIN fp[f].buf = 1 .. DEF_BUFSIZE
        /\ \A j \in 1 .. DEF_BUFSIZE : fp[f].buf[j] \in Nat
    BY <1>8, LenProperties
  <2>2. b = [i \in 1 .. DEF_BUFSIZE |->
                IF i - fp[f].next \in 1..copy THEN Junk ELSE fp[f].buf[i]]
    BY <1>3, <2>1
  <2>3. b \in [1 .. DEF_BUFSIZE -> Nat]
    BY <2>1, <2>2 DEF Junk
  <2>4. b \in Seq(Nat)
    BY <2>3, SeqDef
  <2>5. ASSUME NEW j \in 1 .. DEF_BUFSIZE, j > fp[f].next + copy
        PROVE  b[j] = fp[f].buf[j]
    <3>1. ~ j - fp[f].next \in 1 .. copy
      BY <1>8, <1>9, <2>5
    <3> QED BY <2>2, <3>1
  <2> QED BY <2>3, <2>4, <2>5, LenProperties
<1>11. /\ s \in StreamRecord /\ s.flags = fp[f].flags /\ s.next = fp[f].next + copy
       /\ s.buf = b /\ s.cnt = fp[f].cnt - copy
  <2>1. PICK c : c = fp[f].cnt - copy
    OBVIOUS
  <2>2. PICK n : n = fp[f].next + copy
    OBVIOUS
  <2>3. c \in Int /\ n \in Nat
    <3>1. fp[f].cnt \in Nat /\ fp[f].next \in Nat /\ copy \in Nat
      BY <1>8, <1>9
    <3> QED BY <2>1, <2>2, <3>1
  <2>4. s = [fp[f] EXCEPT !.cnt = c, !.next = n, !.buf = b]
    BY <1>4, <2>1, <2>2
  <2>5. s = [flags |-> fp[f].flags, buf |-> b, next |-> n, cnt |-> c]
    BY <1>6, <2>4 DEF StreamRecord
  <2>6. fp[f].flags \in SUBSET Flag
    BY <1>6 DEF StreamRecord
  <2> QED BY <1>10, <2>1, <2>2, <2>3, <2>5, <2>6 DEF StreamRecord
<1>12. junk \in Seq(Nat) /\ Len(junk) = copy /\ From(Len(got[f]), junk)
  <2>1. junk \in [1 .. copy -> Nat]
    BY <1>2 DEF Junk
  <2>2. junk \in Seq(Nat)
    BY <1>9, <2>1, SeqDef
  <2>3. Len(junk) = copy
    BY <1>9, <2>1, <2>2, LenProperties
  <2>4. \A i \in 1 .. copy : junk[i] = Junk
    BY <1>2
  <2> QED BY <2>2, <2>3, <2>4 DEF From
<1>13. PICK h : h = got[f] \o junk
  OBVIOUS
<1>14. h \in Seq(Nat) /\ Len(h) = Len(got[f]) + copy /\ From(0, h)
  BY <1>6, <1>12, <1>13, GotOn
<1>15. StreamOK(s, put[f], sent[f], h)
  BY <1>5, <1>8, <1>9, <1>10, <1>11, <1>14, TakenOK
<1>16. /\ put' = [put EXCEPT ![f] = put[f]]
       /\ sent' = [sent EXCEPT ![f] = sent[f]]
  BY <1>5, SameAgain DEF StdioInv
<1>17. CASE fp' = [fp EXCEPT ![f] = s] /\ got' = [got EXCEPT ![f] = @ \o junk]
  <2>1. got' = [got EXCEPT ![f] = h]
    BY <1>13, <1>17
  <2> QED BY <1>7, <1>15, <1>16, <1>17, <2>1, OneStream
<1>18. ASSUME NEW n \in Possible(Pos(f), size - copy), copy < size,
              fp' = [fp EXCEPT ![f] = [s EXCEPT !.flags = @ \cup x(n)]],
              got' = [got EXCEPT ![f] = @ \o junk \o [i \in 1..n |-> Pos(f) + i]]
       PROVE  StdioInv'
  <2>2. x(n) \in SUBSET {"EOF", "ERR"}
    BY <1>20
  <2>3. PICK e : e = [s EXCEPT !.flags = @ \cup x(n)]
    OBVIOUS
  <2>4. PICK pos : pos = Pos(f)
    OBVIOUS
  <2>5. pos = Len(h) /\ pos \in Nat /\ s.cnt = 0
    <3>1. Len(got[f]) \in Nat
      BY <1>6, LenProperties
    <3>2. pos = Len(got[f]) + fp[f].cnt
      BY <1>8, <2>4, <3>1 DEF Pos
    <3> QED BY <1>8, <1>9, <1>11, <1>14, <1>18, <3>1, <3>2
  <2>6. n \in Int /\ n >= -1
    BY <1>9, <2>4, <2>5, StdioSizes DEF Possible, Delivered
  <2>7. PICK a : a = [i \in 1..n |-> pos + i]
    OBVIOUS
  <2>8. PICK m \in Nat : 1 .. n = 1 .. m
    <3>1. CASE n >= 0
      BY <2>6, <3>1
    <3>2. CASE n < 0
      <4>1. 1 .. n = 1 .. 0
        BY <2>6, <3>2
      <4> QED BY <4>1
    <3> QED BY <2>6, <3>1, <3>2
  <2>9. a \in Seq(Nat) /\ From(Len(h), a)
    <3>4. a = [i \in 1..m |-> pos + i]
      BY <2>7, <2>8
    <3>5. \A i \in 1 .. m : pos + i \in Nat
      BY <2>5, <2>8
    <3>1. a \in [1 .. m -> Nat] /\ \A i \in 1 .. m : a[i] = pos + i
      BY <3>4, <3>5
    <3>2. a \in Seq(Nat)
      BY <3>1, SeqDef
    <3>3. Len(a) = m
      BY <3>1, <3>2, LenProperties
    <3> QED BY <2>5, <3>1, <3>2, <3>3 DEF From
  <2>10. PICK v : v = h \o a
    OBVIOUS
  <2>11. v \in Seq(Nat) /\ From(0, v)
    BY <1>14, <2>9, <2>10, GotOn
  <2>12. StreamOK(e, put[f], sent[f], v)
    BY <1>5, <1>11, <1>15, <2>2, <2>3, <2>5, <2>11, PastOK
  <2>13. fp' = [fp EXCEPT ![f] = e]
    BY <1>18, <2>3
  <2>14. got' = [got EXCEPT ![f] = v]
    BY <1>13, <1>18, <2>4, <2>7, <2>10
  <2> QED BY <1>7, <1>16, <2>12, <2>13, <2>14, OneStream
<1> QED BY <1>17, <1>18, <1>19

\* Every call of every program keeps the invariant.
LEMMA StdioStep == StdioInv /\ [StdioNext]_stdiovars => StdioInv'
<1> SUFFICES ASSUME StdioInv, [StdioNext]_stdiovars PROVE StdioInv'
  OBVIOUS
<1>1. CASE exit
  BY <1>1 DEF exit, StdioInv
<1>2. ASSUME ~ exiting, UNCHANGED exiting, NEW f \in Stream,
             NEW flags \in ModeFlags, fopen(f, flags)
      PROVE  StdioInv'
  BY <1>2, FopenStep
<1>3. ASSUME ~ exiting, UNCHANGED exiting, NEW f \in Stream,
             fflush(f) \/ putc(f) \/ getc(f)
      PROVE  StdioInv'
  BY <1>3, FflushStep, PutcStep, GetcStep
<1>4. ASSUME ~ exiting, UNCHANGED exiting, NEW f \in Stream,
             NEW size \in 1 .. MaxRead, fread(f, size)
      PROVE  StdioInv'
  BY <1>4, FreadStep, StdioSizes
<1>5. ASSUME NEW f \in Stream, fclose(f) PROVE StdioInv'
  BY <1>5, FcloseStep
<1>6. CASE UNCHANGED stdiovars
  BY <1>6 DEF stdiovars, StdioInv
<1> QED BY <1>1, <1>2, <1>3, <1>4, <1>5, <1>6 DEF StdioNext

\* What the invariant says of what has been written and read.
LEMMA StdioInOrder == StdioInv => StreamsInOrder
<1> SUFFICES ASSUME StdioInv PROVE StreamsInOrder
  OBVIOUS
<1>1. ASSUME NEW f \in Stream, "READ" \notin fp[f].flags, "ERR" \notin fp[f].flags
      PROVE  sent[f] \o Held(fp[f]) = [i \in 1..put[f] |-> i]
  <2>1. StreamOK(fp[f], put[f], sent[f], got[f])
    BY StreamKept
  <2>2. /\ fp[f] \in StreamRecord /\ put[f] \in Nat /\ sent[f] \in Seq(Nat)
        /\ InOrder(sent[f])
    BY <2>1 DEF StreamOK, StreamTyped
  <2>3. /\ fp[f].next \in Nat /\ Len(sent[f]) \in Nat
        /\ Len(sent[f]) + fp[f].next = put[f]
        /\ \A j \in 1 .. fp[f].next : fp[f].buf[j] = Len(sent[f]) + j
    <3>1. fp[f].next \in Nat /\ Len(sent[f]) \in Nat
      BY <2>2, LenProperties DEF StreamRecord
    <3>2. CASE fp[f].flags = {}
      BY <2>1, <3>1, <3>2 DEF StreamOK
    <3>3. CASE "WRITE" \in fp[f].flags
      <4>1. Output(fp[f], put[f], sent[f])
        BY <2>1, <3>3 DEF StreamOK
      <4> QED BY <1>1, <3>1, <4>1 DEF Output, Fills
    <3> QED BY <1>1, <2>1, <3>2, <3>3 DEF StreamOK
  <2>4. PICK a : a = Held(fp[f])
    OBVIOUS
  <2>5. /\ a \in Seq(Nat) /\ Len(a) = fp[f].next
        /\ \A j \in 1 .. fp[f].next : a[j] = fp[f].buf[j]
    <3>1. \A j \in 1 .. fp[f].next : fp[f].buf[j] \in Nat
      BY <2>3
    <3> QED BY <2>3, <2>4, <3>1, SubSeqProperties DEF Held
  <2>6. PICK v : v = sent[f] \o a
    OBVIOUS
  <2>7. /\ v \in Seq(Nat) /\ Len(v) = put[f]
        /\ \A i \in 1 .. Len(sent[f]) + Len(a) :
              v[i] = IF i <= Len(sent[f]) THEN sent[f][i] ELSE a[i - Len(sent[f])]
    BY <2>2, <2>3, <2>5, <2>6, ConcatProperties
  <2>8. ASSUME NEW i \in 1 .. put[f] PROVE v[i] = i
    <3>1. CASE i <= Len(sent[f])
      <4>1. i \in 1 .. Len(sent[f]) /\ v[i] = sent[f][i]
        BY <2>2, <2>3, <2>5, <2>7, <3>1
      <4> QED BY <2>2, <4>1 DEF InOrder
    <3>2. CASE ~ i <= Len(sent[f])
      <4>1. PICK j : j = i - Len(sent[f])
        OBVIOUS
      <4>3. i \in 1 .. Len(sent[f]) + Len(a)
        BY <2>2, <2>3, <2>5
      <4>4. v[i] = a[j]
        BY <2>7, <3>2, <4>1, <4>3
      <4>5. i \in 1 .. Len(sent[f]) + fp[f].next
        BY <2>3
      <4>2. j \in 1 .. fp[f].next /\ Len(sent[f]) + j = i
        <5>1. PICK l : l = Len(sent[f])
          OBVIOUS
        <5>2. PICK n : n = fp[f].next
          OBVIOUS
        <5>3. l \in Nat /\ n \in Nat /\ i \in 1 .. l + n /\ ~ i <= l /\ j = i - l
          BY <2>3, <3>2, <4>1, <4>5, <5>1, <5>2
        <5>4. j \in 1 .. n /\ l + j = i
          BY <5>3
        <5> QED BY <5>1, <5>2, <5>4
      <4> QED BY <2>3, <2>5, <4>2, <4>4
    <3> QED BY <3>1, <3>2
  <2>9. v = [i \in 1..put[f] |-> i]
    <3>1. DOMAIN v = 1 .. put[f] /\ v = [i \in DOMAIN v |-> v[i]]
      BY <2>7, LenProperties
    <3> QED BY <2>8, <3>1
  <2> QED BY <2>4, <2>6, <2>9
<1>2. ASSUME NEW f \in Stream, NEW i \in 1 .. MaxBytes, i <= Len(got[f])
      PROVE  got[f][i] \in {i, Junk}
  <2>1. From(0, got[f]) /\ Len(got[f]) \in Nat
    BY StreamKept, LenProperties DEF StreamOK, StreamTyped
  <2>2. i \in 1 .. Len(got[f])
    BY <1>2, <2>1
  <2> QED BY <2>1, <2>2 DEF From
<1> QED BY <1>1, <1>2 DEF StreamsInOrder, OutputInOrder, InputInOrder

\* Whatever the kernel takes, delivers and refuses, and in whatever order a
\* program writes, reads, flushes and closes its streams: what it wrote to a
\* stream without an error reaches the kernel whole and in order (putc,
\* fflush, fclose, exit), and what getc and fread give it is the next byte of
\* the file, or junk where fread copies the wrong way.
THEOREM StreamsStayInOrder == StdioSpec => []StreamsInOrder
<1>1. StdioSpec => []StdioInv
  BY StdioStart, StdioStep, PTL DEF StdioSpec
<1> QED BY <1>1, StdioInOrder, PTL
=============================================================================
