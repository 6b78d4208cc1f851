----------------------------- MODULE Fat_proofs -----------------------------
(***************************************************************************)
(* Files: the block cache gives every block one buffer and loses no        *)
(* change, the kernel's FAT file system keeps its directories sound and    *)
(* reads what a file holds, and that of the host tools keeps the chains of *)
(* its files whole and implements a store of bytes, for any number of      *)
(* buffers, clients, clusters and entries, and files of any size.          *)
(***************************************************************************)
EXTENDS BlkCache, KFat, HostFat, FiniteSetTheorems, SequenceTheorems,
        WellFoundedInduction, TLAPS

\* A set of naturals that is not empty has a least element.
LEMMA LeastElement ==
    ASSUME NEW D, D \subseteq Nat, D # {}
    PROVE  \E m \in D : \A k \in D : m <= k
<1> DEFINE R == OpToRel(<, Nat)
<1>1. IsWellFoundedOn(R, Nat)
  BY NatLessThanWellFounded
<1>2. \A i, j \in Nat : i < j => <<i, j>> \in R
  BY DEF OpToRel
<1> HIDE DEF R
<1>3. PICK m \in D : \A k \in D : ~ (<<k, m>> \in R)
  BY <1>1, WFMin
<1>4. \A k \in D : ~ (k < m)
  BY <1>2, <1>3
<1> QED
  BY <1>4

-----------------------------------------------------------------------------
(***************************************************************************)
(* The block cache                                                         *)
(***************************************************************************)

Content == [of : Block \cup {NoBlock}, ver : Nat]

CacheTypeOK ==
    /\ buf \in [Buffer -> [blkno : Block \cup {NoBlock}, inuse : Nat,
                           dirty : BOOLEAN, data : Content]]
    /\ blocklist \in Buffer
    /\ disk \in [Block -> Content]
    /\ held \in [Client -> {0} \cup Buffer]
    /\ ver \in [Block -> Nat]

Holders(i) == {c \in Client : held[c] = i}

\* A block is in one buffer at most, a buffer's count is the number of its
\* holders, and only a buffer of some block has any.
OneBuffer == \A i, j \in Buffer :
                buf[i].blkno \in Block /\ buf[i].blkno = buf[j].blkno => i = j

HoldersCounted == \A i \in Buffer : /\ IsFiniteSet(Holders(i))
                             /\ buf[i].inuse = Cardinality(Holders(i))

HeldIsTagged == \A c \in Client : held[c] # 0 => buf[held[c]].blkno \in Block

RefInv == CacheTypeOK /\ OneBuffer /\ HoldersCounted /\ HeldIsTagged

\* The copy in the cache is the last one, the disk holds each block in its
\* own place, and what the disk lacks is in a buffer held and marked.
Current == \A i \in Buffer : buf[i].blkno \in Block =>
              buf[i].data = [of |-> buf[i].blkno, ver |-> ver[buf[i].blkno]]

DiskHas == \A b \in Block :
              /\ disk[b].of = b
              /\ \/ disk[b].ver = ver[b]
                 \/ \E i \in Buffer : /\ buf[i].blkno = b
                                      /\ buf[i].inuse > 0 /\ buf[i].dirty

ChangeInv == RefInv /\ Current /\ DiskHas

\* A search of the ring finds a buffer of the set it looks for, and the
\* place after a buffer is a buffer.
LEMMA Found ==
    ASSUME NEW S, S \subseteq Buffer, S # {}, blocklist \in Buffer
    PROVE  FirstFrom(S) \in S
<1> DEFINE far(i) == (i - blocklist) % NBuf
           D == {far(i) : i \in S}
<1>1. NBuf \in Nat /\ NBuf > 0 /\ \A i \in S : i - blocklist \in Int
  BY CacheAssumption DEF Buffer
<1>2. \A i \in S : far(i) \in Nat
  BY <1>1
<1> HIDE DEF far
<1>3. PICK m \in D : \A k \in D : m <= k
  <2>1. D \subseteq Nat /\ D # {}
    BY <1>2
  <2> HIDE DEF D
  <2> QED
    BY <2>1, LeastElement
<1>4. PICK i \in S : far(i) = m
  BY <1>3
<1>5. \A j \in S : far(i) <= far(j)
  BY <1>3, <1>4
<1>6. FirstFrom(S) = CHOOSE k \in S : \A j \in S : far(k) <= far(j)
  BY DEF FirstFrom, far
<1> QED
  BY <1>5, <1>6

LEMMA NextInRing ==
    ASSUME NEW i \in Buffer
    PROVE  After(i) \in Buffer
<1>1. NBuf \in Nat /\ NBuf > 0 /\ i \in Nat
  BY CacheAssumption DEF Buffer
<1>2. i % NBuf \in 0..(NBuf - 1)
  BY <1>1
<1> QED
  BY <1>1, <1>2 DEF After, Buffer

\* bc_get counts the reference that it hands out.
LEMMA GetCounts ==
    ASSUME CacheTypeOK, HoldersCounted, NEW c \in Client, NEW i \in Buffer,
           held[c] = 0, held' = [held EXCEPT ![c] = i],
           buf'[i].inuse = buf[i].inuse + 1,
           \A j \in Buffer : j # i => buf'[j].inuse = buf[j].inuse
    PROVE  HoldersCounted'
<1>1. 0 \notin Buffer
  BY DEF Buffer
<1>2. c \notin Holders(i) /\ Holders(i)' = Holders(i) \cup {c}
  BY <1>1 DEF Holders, CacheTypeOK
<1>3. IsFiniteSet(Holders(i)') /\ buf'[i].inuse = Cardinality(Holders(i)')
  <2>1. IsFiniteSet(Holders(i)) /\ buf[i].inuse = Cardinality(Holders(i))
    BY DEF HoldersCounted
  <2> QED
    BY <1>2, <2>1, FS_AddElement
<1>4. ASSUME NEW j \in Buffer, j # i
      PROVE  IsFiniteSet(Holders(j)') /\ buf'[j].inuse = Cardinality(Holders(j)')
  <2>1. Holders(j)' = Holders(j)
    BY <1>1, <1>4 DEF Holders, CacheTypeOK
  <2> QED
    BY <1>4, <2>1 DEF HoldersCounted
<1> QED
  BY <1>3, <1>4 DEF HoldersCounted

\* bc_put takes away the one that it is given.
LEMMA PutCounts ==
    ASSUME CacheTypeOK, HoldersCounted, NEW c \in Client, NEW i \in Buffer,
           held[c] = i, held' = [held EXCEPT ![c] = 0],
           buf'[i].inuse = buf[i].inuse - 1,
           \A j \in Buffer : j # i => buf'[j].inuse = buf[j].inuse
    PROVE  HoldersCounted' /\ buf[i].inuse > 0
<1>1. 0 \notin Buffer
  BY DEF Buffer
<1>2. c \in Holders(i) /\ Holders(i)' = Holders(i) \ {c}
  BY <1>1 DEF Holders, CacheTypeOK
<1>3. IsFiniteSet(Holders(i)') /\ buf'[i].inuse = Cardinality(Holders(i)')
  <2>1. IsFiniteSet(Holders(i)) /\ buf[i].inuse = Cardinality(Holders(i))
    BY DEF HoldersCounted
  <2> QED
    BY <1>2, <2>1, FS_RemoveElement
<1>4. ASSUME NEW j \in Buffer, j # i
      PROVE  IsFiniteSet(Holders(j)') /\ buf'[j].inuse = Cardinality(Holders(j)')
  <2>1. Holders(j)' = Holders(j)
    BY <1>1, <1>4 DEF Holders, CacheTypeOK
  <2> QED
    BY <1>4, <2>1 DEF HoldersCounted
<1>5. buf[i].inuse > 0
  <2>1. IsFiniteSet(Holders(i)) /\ buf[i].inuse = Cardinality(Holders(i))
    BY DEF HoldersCounted
  <2>2. Holders(i) # {} /\ Cardinality(Holders(i)) # 0
    BY <1>2, <2>1, FS_EmptySet
  <2>3. Cardinality(Holders(i)) \in Nat
    BY <2>1, FS_CardinalityType
  <2> QED
    BY <2>1, <2>2, <2>3
<1> QED
  BY <1>3, <1>4, <1>5 DEF HoldersCounted

\* A buffer that is held has its count above zero.
LEMMA HeldCounts ==
    ASSUME CacheTypeOK, HoldersCounted, NEW c \in Client, held[c] # 0
    PROVE  held[c] \in Buffer /\ buf[held[c]].inuse > 0
<1>1. held[c] \in Buffer
  BY DEF CacheTypeOK
<1> DEFINE i == held[c]
<1>2. IsFiniteSet(Holders(i)) /\ buf[i].inuse = Cardinality(Holders(i))
  BY <1>1 DEF HoldersCounted
<1>3. Holders(i) # {}
  BY DEF Holders
<1> HIDE DEF i
<1>4. Cardinality(Holders(i)) # 0 /\ Cardinality(Holders(i)) \in Nat
  BY <1>2, <1>3, FS_EmptySet, FS_CardinalityType
<1> QED
  BY <1>1, <1>2, <1>4 DEF i

-----------------------------------------------------------------------------
(* The actions keep the references right, whether or not the device fails. *)

\* bc_get of a block that is there.
LEMMA HitKeeps ==
    ASSUME RefInv, NEW c \in Client, NEW b \in Block, bc_get_hit(c, b)
    PROVE  RefInv'
<1> DEFINE i == FirstFrom(Cached(b))
<1>1. i \in Buffer /\ buf[i].blkno = b
  <2>1. Cached(b) \subseteq Buffer /\ Cached(b) # {} /\ blocklist \in Buffer
    BY DEF bc_get_hit, Cached, RefInv, CacheTypeOK
  <2>2. i \in Cached(b)
    BY <2>1, Found
  <2> QED
    BY <2>2 DEF Cached
<1>2. /\ held[c] = 0 /\ held' = [held EXCEPT ![c] = i]
      /\ buf' = [buf EXCEPT ![i].inuse = buf[i].inuse + 1]
      /\ blocklist' = blocklist /\ disk' = disk /\ ver' = ver
  BY DEF bc_get_hit, Referenced
<1> HIDE DEF i
<1>3. /\ buf'[i] = [buf[i] EXCEPT !.inuse = buf[i].inuse + 1]
      /\ \A j \in Buffer : j # i => buf'[j] = buf[j]
      /\ \A j \in Buffer : buf'[j].blkno = buf[j].blkno
      /\ buf'[i].inuse = buf[i].inuse + 1
  BY <1>1, <1>2 DEF RefInv, CacheTypeOK
<1>4. CacheTypeOK'
  BY <1>1, <1>2 DEF RefInv, CacheTypeOK
<1>5. OneBuffer'
  BY <1>3 DEF RefInv, OneBuffer
<1>6. HoldersCounted'
  <2>1. CacheTypeOK /\ HoldersCounted
    BY DEF RefInv
  <2>2. \A j \in Buffer : j # i => buf'[j].inuse = buf[j].inuse
    BY <1>3
  <2> QED
    BY <1>1, <1>2, <1>3, <2>1, <2>2, GetCounts
<1>7. HeldIsTagged'
  BY <1>1, <1>2, <1>3 DEF RefInv, HeldIsTagged, CacheTypeOK
<1> QED
  BY <1>4, <1>5, <1>6, <1>7 DEF RefInv

\* bc_get takes buffer i, which is nobody's, for block b and client c.
Takes(c, b, i, fails) ==
    /\ buf[i].inuse = 0 /\ \A d \in Client : held[d] # i
    /\ \A j \in Buffer : j # i => buf'[j] = buf[j]
    /\ buf'[i] = IF fails THEN [buf[i] EXCEPT !.blkno = b]
                 ELSE [buf[i] EXCEPT !.blkno = b, !.data = disk[b],
                                     !.inuse = 1]
    /\ held' = IF fails THEN held ELSE [held EXCEPT ![c] = i]
    /\ buf' \in [Buffer -> [blkno : Block \cup {NoBlock}, inuse : Nat,
                            dirty : BOOLEAN, data : Content]]

\* That is what a miss does.
LEMMA MissDoes ==
    ASSUME RefInv, NEW c \in Client, NEW b \in Block, NEW fails,
           bc_get_miss(c, b, fails)
    PROVE  /\ \A j \in Buffer : buf[j].blkno # b
           /\ held[c] = 0 /\ disk' = disk /\ ver' = ver
           /\ blocklist' \in Buffer
           /\ \E i \in Buffer : Takes(c, b, i, fails)
<1> DEFINE i == FirstFrom(Unreferenced)
<1>1. i \in Buffer /\ buf[i].inuse = 0
  <2>1. Unreferenced \subseteq Buffer /\ Unreferenced # {} /\ blocklist \in Buffer
    BY DEF bc_get_miss, Unreferenced, RefInv, CacheTypeOK
  <2>2. i \in Unreferenced
    BY <2>1, Found
  <2> QED
    BY <2>2 DEF Unreferenced
<1>2. /\ held[c] = 0 /\ disk' = disk /\ ver' = ver /\ blocklist' = After(i)
      /\ buf' = IF fails THEN [buf EXCEPT ![i].blkno = b]
                ELSE [buf EXCEPT ![i].blkno = b, ![i].data = disk[b],
                                 ![i].inuse = buf[i].inuse + 1]
      /\ held' = IF fails THEN held ELSE [held EXCEPT ![c] = i]
      /\ Cached(b) = {}
  BY DEF bc_get_miss, Referenced
<1> HIDE DEF i
<1>3. \A d \in Client : held[d] # i
  BY <1>1, HeldCounts DEF RefInv, Buffer
<1>4. blocklist' \in Buffer
  BY <1>1, <1>2, NextInRing
<1>5. \A j \in Buffer : buf[j].blkno # b
  BY <1>2 DEF Cached
<1>6. /\ \A j \in Buffer : j # i => buf'[j] = buf[j]
      /\ buf'[i] = IF fails THEN [buf[i] EXCEPT !.blkno = b]
                   ELSE [buf[i] EXCEPT !.blkno = b, !.data = disk[b], !.inuse = 1]
      /\ buf' \in [Buffer -> [blkno : Block \cup {NoBlock}, inuse : Nat,
                              dirty : BOOLEAN, data : Content]]
  <2>1. disk[b] \in Content /\ buf[i].inuse + 1 = 1
    BY <1>1 DEF RefInv, CacheTypeOK
  <2>2. CASE fails
    BY <2>2, <1>1, <1>2 DEF RefInv, CacheTypeOK
  <2>3. CASE ~ fails
    BY <2>1, <2>3, <1>1, <1>2 DEF RefInv, CacheTypeOK
  <2> QED
    BY <2>2, <2>3
<1> QED
  BY <1>1, <1>2, <1>3, <1>4, <1>5, <1>6 DEF Takes

\* bc_get of a block that has to be read.
LEMMA MissKeeps ==
    ASSUME RefInv, NEW c \in Client, NEW b \in Block, NEW fails,
           bc_get_miss(c, b, fails)
    PROVE  RefInv'
<1>1. /\ \A j \in Buffer : buf[j].blkno # b
      /\ held[c] = 0 /\ disk' = disk /\ ver' = ver /\ blocklist' \in Buffer
      /\ \E i \in Buffer : Takes(c, b, i, fails)
  BY MissDoes, Zenon
<1>10. PICK i \in Buffer : Takes(c, b, i, fails)
  BY <1>1
<1>2. /\ buf[i].inuse = 0 /\ \A d \in Client : held[d] # i
      /\ \A j \in Buffer : j # i => buf'[j] = buf[j]
      /\ buf'[i] = IF fails THEN [buf[i] EXCEPT !.blkno = b]
                   ELSE [buf[i] EXCEPT !.blkno = b, !.data = disk[b],
                                       !.inuse = 1]
      /\ held' = IF fails THEN held ELSE [held EXCEPT ![c] = i]
      /\ buf' \in [Buffer -> [blkno : Block \cup {NoBlock}, inuse : Nat,
                              dirty : BOOLEAN, data : Content]]
  BY <1>10 DEF Takes
<1>3. buf'[i].blkno = b /\ buf'[i].inuse = IF fails THEN 0 ELSE 1
  BY <1>2 DEF RefInv, CacheTypeOK
<1>4. CacheTypeOK'
  BY <1>1, <1>2 DEF RefInv, CacheTypeOK
<1>5. OneBuffer'
  <2>1. /\ \A j \in Buffer : j # i => buf'[j].blkno = buf[j].blkno /\ buf'[j].blkno # b
        /\ buf'[i].blkno = b
    BY <1>1, <1>2, <1>3
  <2>2. OneBuffer
    BY DEF RefInv
  <2> QED
    BY <2>1, <2>2 DEF OneBuffer
<1>6. HoldersCounted'
  <2>1. CASE fails
    <3>1. held' = held /\ \A j \in Buffer : buf'[j].inuse = buf[j].inuse
      BY <2>1, <1>2, <1>3
    <3> QED
      BY <3>1 DEF RefInv, HoldersCounted, Holders
  <2>2. CASE ~ fails
    <3>1. /\ held' = [held EXCEPT ![c] = i]
          /\ buf'[i].inuse = buf[i].inuse + 1
          /\ \A j \in Buffer : j # i => buf'[j].inuse = buf[j].inuse
      BY <2>2, <1>2, <1>3
    <3> QED
      BY <3>1, <1>1, GetCounts DEF RefInv
  <2> QED
    BY <2>1, <2>2
<1>7. HeldIsTagged'
  <2> SUFFICES ASSUME NEW d \in Client, held'[d] # 0
               PROVE  buf'[held'[d]].blkno \in Block
    BY DEF HeldIsTagged
  <2>1. CASE held'[d] = i
    BY <2>1, <1>3
  <2>2. CASE held'[d] # i
    <3>1. held'[d] = held[d] /\ held[d] \in Buffer
      BY <2>2, <1>2 DEF RefInv, CacheTypeOK
    <3> QED
      BY <2>2, <3>1, <1>2 DEF RefInv, HeldIsTagged
  <2> QED
    BY <2>1, <2>2
<1> QED
  BY <1>4, <1>5, <1>6, <1>7 DEF RefInv

\* A client changes what it holds.
LEMMA ChangeKeeps ==
    ASSUME RefInv, NEW c \in Client, Change(c)
    PROVE  RefInv'
<1> DEFINE i == held[c]
           b == buf[i].blkno
<1>1. i \in Buffer /\ b \in Block
  BY DEF Change, RefInv, CacheTypeOK, HeldIsTagged
<1>2. /\ held' = held /\ disk' = disk /\ blocklist' = blocklist
      /\ ver' = [ver EXCEPT ![b] = ver[b] + 1]
      /\ buf' = [buf EXCEPT ![i].data.ver = ver[b] + 1, ![i].dirty = TRUE]
  BY DEF Change
<1> HIDE DEF i, b
<1>3. ver[b] + 1 \in Nat
  BY <1>1 DEF RefInv, CacheTypeOK
<1>4. CacheTypeOK'
  <2>1. buf' \in [Buffer -> [blkno : Block \cup {NoBlock}, inuse : Nat,
                             dirty : BOOLEAN, data : Content]]
    <3>1. PICK d \in Content : d = [buf[i].data EXCEPT !.ver = ver[b] + 1]
      BY <1>1, <1>3 DEF RefInv, CacheTypeOK, Content
    <3>2. buf' = [buf EXCEPT ![i].data = d, ![i].dirty = TRUE]
      BY <1>2, <3>1
    <3> QED
      BY <1>1, <3>2 DEF RefInv, CacheTypeOK
  <2>2. ver' \in [Block -> Nat]
    BY <1>1, <1>2, <1>3 DEF RefInv, CacheTypeOK
  <2> QED
    BY <1>2, <2>1, <2>2 DEF RefInv, CacheTypeOK
<1>5. \A j \in Buffer : buf'[j].blkno = buf[j].blkno /\ buf'[j].inuse = buf[j].inuse
  BY <1>1, <1>2 DEF RefInv, CacheTypeOK, Content
<1>6. OneBuffer'
  BY <1>5 DEF RefInv, OneBuffer
<1>7. HoldersCounted'
  <2>1. \A j \in Buffer : Holders(j)' = Holders(j)
    BY <1>2 DEF Holders
  <2> QED
    BY <1>5, <2>1 DEF RefInv, HoldersCounted
<1>8. HeldIsTagged'
  <2>1. \A d \in Client : held[d] # 0 => held[d] \in Buffer
    BY DEF RefInv, CacheTypeOK
  <2> QED
    BY <1>2, <1>5, <2>1 DEF RefInv, HeldIsTagged
<1> QED
  BY <1>4, <1>6, <1>7, <1>8 DEF RefInv

\* What bc_put does: its last reference to a changed block writes it.
LEMMA PutDoes ==
    ASSUME RefInv, NEW c \in Client, NEW fails, bc_put(c, fails)
    PROVE  LET i == held[c]
               wb == buf[i].inuse - 1 = 0 /\ buf[i].dirty
           IN  /\ i \in Buffer /\ buf[i].blkno \in Block /\ (fails => wb)
               /\ buf[i].inuse > 0
               /\ buf' = [buf EXCEPT ![i].inuse = buf[i].inuse - 1]
               /\ disk' = IF wb /\ ~ fails
                          THEN [disk EXCEPT ![buf[i].blkno] = buf[i].data]
                          ELSE disk
               /\ held' = [held EXCEPT ![c] = 0]
               /\ blocklist' = blocklist /\ ver' = ver
<1> DEFINE i == held[c]
           n == buf[i].inuse - 1
           wb == n = 0 /\ buf[i].dirty
<1>1. i \in Buffer /\ buf[i].blkno \in Block /\ buf[i].inuse > 0
  BY HeldCounts DEF bc_put, RefInv, HeldIsTagged
<1>2. WritesBack(n, buf[i].dirty) <=> wb
  BY DEF WritesBack
<1>3. /\ buf' = [buf EXCEPT ![i].inuse = n,
                     ![i].dirty = IF wb /\ (IF ~ wb THEN 0 ELSE IF fails THEN -1 ELSE BLKSIZE) = 0
                                  THEN FALSE ELSE buf[i].dirty]
      /\ disk' = IF wb /\ ~ fails
                 THEN [disk EXCEPT ![buf[i].blkno] = buf[i].data] ELSE disk
      /\ held' = [held EXCEPT ![c] = 0]
      /\ blocklist' = blocklist /\ ver' = ver /\ (fails => wb)
  BY <1>2 DEF bc_put
<1> HIDE DEF i, n, wb
<1>4. ~ (wb /\ (IF ~ wb THEN 0 ELSE IF fails THEN -1 ELSE BLKSIZE) = 0)
  BY DEF BLKSIZE
<1>5. buf' = [buf EXCEPT ![i].inuse = n]
  <2>1. buf' = [buf EXCEPT ![i].inuse = n, ![i].dirty = buf[i].dirty]
    BY <1>3, <1>4
  <2> QED
    BY <2>1, <1>1 DEF RefInv, CacheTypeOK
<1> QED
  BY <1>1, <1>3, <1>5 DEF i, n, wb

\* bc_put.
LEMMA PutKeeps ==
    ASSUME RefInv, NEW c \in Client, NEW fails, bc_put(c, fails)
    PROVE  RefInv'
<1> DEFINE i == held[c]
           b == buf[i].blkno
<1>1. /\ i \in Buffer /\ b \in Block /\ buf[i].inuse > 0
      /\ buf' = [buf EXCEPT ![i].inuse = buf[i].inuse - 1]
      /\ disk' = disk \/ disk' = [disk EXCEPT ![b] = buf[i].data]
      /\ held' = [held EXCEPT ![c] = 0]
      /\ blocklist' = blocklist /\ ver' = ver
  BY PutDoes
<1>2. held[c] = i
  OBVIOUS
<1> HIDE DEF i, b
<1>3. buf[i].inuse - 1 \in Nat
  BY <1>1 DEF RefInv, CacheTypeOK
<1>4. CacheTypeOK'
  <2>1. buf' \in [Buffer -> [blkno : Block \cup {NoBlock}, inuse : Nat,
                             dirty : BOOLEAN, data : Content]]
    BY <1>1, <1>3 DEF RefInv, CacheTypeOK
  <2>2. disk' \in [Block -> Content]
    BY <1>1 DEF RefInv, CacheTypeOK
  <2> QED
    BY <2>1, <2>2, <1>1 DEF RefInv, CacheTypeOK
<1>5. /\ \A j \in Buffer : buf'[j].blkno = buf[j].blkno
      /\ buf'[i].inuse = buf[i].inuse - 1
      /\ \A j \in Buffer : j # i => buf'[j].inuse = buf[j].inuse
  BY <1>1 DEF RefInv, CacheTypeOK
<1>6. OneBuffer'
  BY <1>5 DEF RefInv, OneBuffer
<1>7. HoldersCounted'
  BY <1>1, <1>2, <1>5, PutCounts DEF RefInv
<1>8. HeldIsTagged'
  BY <1>1, <1>5 DEF RefInv, HeldIsTagged, CacheTypeOK
<1> QED
  BY <1>4, <1>6, <1>7, <1>8 DEF RefInv

\* Nothing that the references depend on changes.
LEMMA NothingKeeps ==
    ASSUME RefInv, UNCHANGED <<buf, blocklist, disk, held, ver>>
    PROVE  RefInv'
<1>1. \A i : Holders(i)' = Holders(i)
  BY DEF Holders
<1>2. CacheTypeOK'
  BY DEF RefInv, CacheTypeOK
<1>3. OneBuffer' /\ HeldIsTagged'
  BY DEF RefInv, OneBuffer, HeldIsTagged
<1>4. HoldersCounted'
  BY <1>1 DEF RefInv, HoldersCounted
<1> QED
  BY <1>2, <1>3, <1>4 DEF RefInv

LEMMA CacheStep ==
    ASSUME RefInv, [CacheNext]_cachevars
    PROVE  RefInv'
<1>1. ASSUME UNCHANGED cachevars PROVE RefInv'
  BY <1>1, NothingKeeps DEF cachevars
<1>2. ASSUME NEW c \in Client, NEW b \in Block, bc_get_panics(c, b)
      PROVE  RefInv'
  BY <1>2, NothingKeeps DEF bc_get_panics
<1>3. ASSUME NEW c \in Client, NEW b \in Block, bc_get_hit(c, b)
      PROVE  RefInv'
  BY <1>3, HitKeeps
<1>4. ASSUME NEW c \in Client, NEW b \in Block,
             NEW fails \in {FALSE} \cup {"read" \in MayFail},
             bc_get_miss(c, b, fails)
      PROVE  RefInv'
  BY <1>4, MissKeeps, Zenon
<1>5. ASSUME NEW c \in Client, Change(c) PROVE RefInv'
  BY <1>5, ChangeKeeps
<1>6. ASSUME NEW c \in Client,
             NEW fails \in {FALSE} \cup {"write" \in MayFail}, bc_put(c, fails)
      PROVE  RefInv'
  BY <1>6, PutKeeps, Zenon
<1>7. CASE CacheNext
  BY <1>1, <1>2, <1>3, <1>4, <1>5, <1>6, <1>7 DEF CacheNext, Panicked
<1> QED
  BY <1>1, <1>7

LEMMA CacheInitially ==
    ASSUME CacheInit
    PROVE  ChangeInv
<1>1. CacheTypeOK
  <2>1. NBuf \in Nat /\ NBuf > 0 /\ 1 \in Buffer
    BY CacheAssumption DEF Buffer
  <2>2. \A b \in Block \cup {NoBlock} : [of |-> b, ver |-> 0] \in Content
    BY DEF Content
  <2>3. blocklist \in Buffer /\ disk \in [Block -> Content]
        /\ held \in [Client -> {0} \cup Buffer] /\ ver \in [Block -> Nat]
    BY <2>1, <2>2 DEF CacheInit
  <2> DEFINE e == [blkno |-> NoBlock, inuse |-> 0, dirty |-> FALSE,
                   data |-> [of |-> NoBlock, ver |-> 0]]
  <2>4. e \in [blkno : Block \cup {NoBlock}, inuse : Nat, dirty : BOOLEAN,
               data : Content]
    BY <2>2
  <2>5. buf = [i \in Buffer |-> e]
    BY DEF CacheInit
  <2> HIDE DEF e
  <2> QED
    BY <2>3, <2>4, <2>5 DEF CacheTypeOK
<1>2. \A i \in Buffer : buf[i].blkno \notin Block /\ buf[i].inuse = 0
  BY CacheAssumption DEF CacheInit
<1>3. \A c \in Client : held[c] = 0
  BY DEF CacheInit
<1>4. OneBuffer /\ HeldIsTagged /\ Current
  BY <1>2, <1>3 DEF OneBuffer, HeldIsTagged, Current
<1>5. HoldersCounted
  <2> SUFFICES ASSUME NEW i \in Buffer
               PROVE  IsFiniteSet(Holders(i)) /\ buf[i].inuse = Cardinality(Holders(i))
    BY DEF HoldersCounted
  <2>1. Holders(i) = {}
    BY <1>3 DEF Holders, Buffer
  <2> QED
    BY <1>2, <2>1, FS_EmptySet
<1>6. DiskHas
  BY DEF CacheInit, DiskHas
<1> QED
  BY <1>1, <1>4, <1>5, <1>6 DEF RefInv, ChangeInv

\* A block is in one buffer at most, and the count of a buffer is the number
\* of clients that hold it, even if the device fails: bc_get looks for the
\* block before it takes a buffer, takes only one that nobody has, and bc_put
\* gives back what bc_get has counted.
THEOREM ReferencesStayCounted ==
    CacheSpec => []ReferencesCounted
<1>1. CacheInit => RefInv
  BY CacheInitially DEF ChangeInv
<1>2. RefInv /\ [CacheNext]_cachevars => RefInv'
  BY CacheStep
<1>3. RefInv => ReferencesCounted
  <2> SUFFICES ASSUME RefInv PROVE ReferencesCounted
    OBVIOUS
  <2>1. \A i \in Buffer :
           buf[i].inuse = Cardinality({c \in Client : held[c] = i})
    BY DEF RefInv, HoldersCounted, Holders
  <2>2. ASSUME NEW b \in Block PROVE Cardinality(Cached(b)) <= 1
    <3>1. CASE Cached(b) = {}
      BY <3>1, FS_EmptySet
    <3>2. CASE Cached(b) # {}
      <4>1. PICK i : i \in Cached(b)
        BY <3>2
      <4>2. Cached(b) = {i}
        BY <4>1 DEF Cached, RefInv, OneBuffer
      <4>3. Cardinality({i}) = 1
        BY FS_Singleton
      <4> QED
        BY <4>2, <4>3
    <3> QED
      BY <3>1, <3>2
  <2> QED
    BY <2>1, <2>2 DEF ReferencesCounted
<1> QED
  BY <1>1, <1>2, <1>3, PTL DEF CacheSpec

-----------------------------------------------------------------------------
(* While the device does not fail, no change is lost.                      *)

\* bc_get of a block that is there changes no copy.
LEMMA HitLoses ==
    ASSUME ChangeInv, NEW c \in Client, NEW b \in Block, bc_get_hit(c, b)
    PROVE  Current' /\ DiskHas'
<1> DEFINE i == FirstFrom(Cached(b))
<1>1. i \in Buffer
  <2>1. Cached(b) \subseteq Buffer /\ Cached(b) # {} /\ blocklist \in Buffer
    BY DEF bc_get_hit, Cached, ChangeInv, RefInv, CacheTypeOK
  <2> QED
    BY <2>1, Found
<1>2. /\ buf' = [buf EXCEPT ![i].inuse = buf[i].inuse + 1]
      /\ disk' = disk /\ ver' = ver
  BY DEF bc_get_hit, Referenced
<1> HIDE DEF i
<1>3. CacheTypeOK
  BY DEF ChangeInv, RefInv
<1>4. \A j \in Buffer : /\ buf'[j].blkno = buf[j].blkno /\ buf'[j].data = buf[j].data
                        /\ buf'[j].dirty = buf[j].dirty
                        /\ buf[j].inuse > 0 => buf'[j].inuse > 0
  BY <1>1, <1>2, <1>3 DEF CacheTypeOK
<1>5. Current'
  BY <1>2, <1>4 DEF ChangeInv, Current
<1>6. DiskHas'
  BY <1>2, <1>4 DEF ChangeInv, DiskHas
<1> QED
  BY <1>5, <1>6

\* A miss takes a buffer that nobody holds, so what was in it is on the disk;
\* and the block it reads is in no buffer, so the disk has the last copy.
LEMMA MissLoses ==
    ASSUME ChangeInv, NEW c \in Client, NEW b \in Block,
           bc_get_miss(c, b, FALSE)
    PROVE  Current' /\ DiskHas'
<1>1. RefInv /\ CacheTypeOK /\ DiskHas /\ Current
  BY DEF ChangeInv, RefInv
<1>2. /\ \A j \in Buffer : buf[j].blkno # b
      /\ disk' = disk /\ ver' = ver
      /\ \E i \in Buffer : Takes(c, b, i, FALSE)
  BY <1>1, MissDoes, Zenon
<1>3. PICK i \in Buffer : Takes(c, b, i, FALSE)
  BY <1>2
<1>4. /\ buf[i].inuse = 0
      /\ \A j \in Buffer : j # i => buf'[j] = buf[j]
      /\ buf'[i].blkno = b /\ buf'[i].data = disk[b]
  BY <1>1, <1>3 DEF Takes, CacheTypeOK
<1>5. disk[b] = [of |-> b, ver |-> ver[b]]
  <2>1. disk[b] \in Content
    BY <1>1 DEF CacheTypeOK
  <2>2. disk[b].of = b /\ disk[b].ver = ver[b]
    BY <1>1, <1>2 DEF DiskHas
  <2> QED
    BY <2>1, <2>2 DEF Content
<1>6. Current'
  <2> SUFFICES ASSUME NEW j \in Buffer, buf'[j].blkno \in Block
               PROVE  buf'[j].data = [of |-> buf'[j].blkno, ver |-> ver[buf'[j].blkno]]
    BY <1>2 DEF Current
  <2>1. CASE j = i
    BY <2>1, <1>4, <1>5
  <2>2. CASE j # i
    BY <2>2, <1>1, <1>4 DEF Current
  <2> QED
    BY <2>1, <2>2
<1>7. DiskHas'
  <2> SUFFICES ASSUME NEW a \in Block
               PROVE  /\ disk[a].of = a
                      /\ \/ disk[a].ver = ver[a]
                         \/ \E j \in Buffer : /\ buf'[j].blkno = a
                                              /\ buf'[j].inuse > 0 /\ buf'[j].dirty
    BY <1>2 DEF DiskHas
  <2>1. CASE disk[a].ver = ver[a]
    BY <2>1, <1>1 DEF DiskHas
  <2>2. CASE disk[a].ver # ver[a]
    <3>1. PICK j \in Buffer : buf[j].blkno = a /\ buf[j].inuse > 0 /\ buf[j].dirty
      BY <2>2, <1>1 DEF DiskHas
    <3>2. j # i
      BY <3>1, <1>4
    <3> QED
      BY <3>1, <3>2, <1>1, <1>4 DEF DiskHas
  <2> QED
    BY <2>1, <2>2
<1> QED
  BY <1>6, <1>7

\* A client that changes a block changes its only copy, and marks it.
LEMMA ChangeLoses ==
    ASSUME ChangeInv, NEW c \in Client, Change(c)
    PROVE  Current' /\ DiskHas'
<1> DEFINE i == held[c]
           b == buf[i].blkno
<1>1. RefInv /\ CacheTypeOK /\ OneBuffer /\ DiskHas /\ Current /\ HoldersCounted
      /\ HeldIsTagged
  BY DEF ChangeInv, RefInv
<1>2. /\ i \in Buffer /\ b \in Block /\ buf[i].inuse > 0
  BY <1>1, HeldCounts DEF Change, HeldIsTagged
<1>3. /\ disk' = disk /\ ver' = [ver EXCEPT ![b] = ver[b] + 1]
      /\ buf' = [buf EXCEPT ![i].data.ver = ver[b] + 1, ![i].dirty = TRUE]
  BY DEF Change
<1>4. b = buf[i].blkno
  OBVIOUS
<1> HIDE DEF i, b
<1>5. buf[i].data = [of |-> b, ver |-> ver[b]]
  BY <1>1, <1>2, <1>4 DEF Current
<1>6. /\ buf'[i].blkno = b /\ buf'[i].inuse > 0 /\ buf'[i].dirty
      /\ buf'[i].data = [buf[i].data EXCEPT !.ver = ver[b] + 1]
      /\ \A j \in Buffer : j # i => buf'[j] = buf[j]
  BY <1>1, <1>2, <1>3, <1>4 DEF CacheTypeOK
<1>7. buf'[i].data = [of |-> b, ver |-> ver[b] + 1]
  BY <1>5, <1>6
<1>8. /\ ver'[b] = ver[b] + 1
      /\ \A a \in Block : a # b => ver'[a] = ver[a]
  BY <1>1, <1>2, <1>3 DEF CacheTypeOK
<1>9. Current'
  <2> SUFFICES ASSUME NEW j \in Buffer, buf'[j].blkno \in Block
               PROVE  buf'[j].data = [of |-> buf'[j].blkno, ver |-> ver'[buf'[j].blkno]]
    BY DEF Current
  <2>1. CASE j = i
    BY <2>1, <1>6, <1>7, <1>8
  <2>2. CASE j # i
    <3>1. buf'[j] = buf[j] /\ buf[j].blkno # b
      BY <2>2, <1>1, <1>2, <1>4, <1>6 DEF OneBuffer
    <3> QED
      BY <3>1, <1>1, <1>8 DEF Current
  <2> QED
    BY <2>1, <2>2
<1>10. DiskHas'
  <2> SUFFICES ASSUME NEW a \in Block
               PROVE  /\ disk[a].of = a
                      /\ \/ disk[a].ver = ver'[a]
                         \/ \E j \in Buffer : /\ buf'[j].blkno = a
                                              /\ buf'[j].inuse > 0 /\ buf'[j].dirty
    BY <1>3 DEF DiskHas
  <2>1. CASE a = b
    BY <2>1, <1>1, <1>2, <1>6 DEF DiskHas
  <2>2. CASE a # b
    <3>1. ver'[a] = ver[a]
      BY <2>2, <1>8
    <3>2. ASSUME NEW j \in Buffer, buf[j].blkno = a
          PROVE  buf'[j] = buf[j]
      BY <3>2, <2>2, <1>4, <1>6
    <3> QED
      BY <3>1, <3>2, <1>1 DEF DiskHas
  <2> QED
    BY <2>1, <2>2
<1> QED
  BY <1>9, <1>10

\* The last to put a changed block writes it, and an unchanged one was on the
\* disk, for no other buffer holds that block.
LEMMA PutLoses ==
    ASSUME ChangeInv, NEW c \in Client, bc_put(c, FALSE)
    PROVE  Current' /\ DiskHas'
<1> DEFINE i == held[c]
           b == buf[i].blkno
<1>1. RefInv /\ CacheTypeOK /\ OneBuffer /\ DiskHas /\ Current
  BY DEF ChangeInv, RefInv
<1>2. /\ i \in Buffer /\ b \in Block /\ buf[i].inuse > 0
      /\ buf' = [buf EXCEPT ![i].inuse = buf[i].inuse - 1]
      /\ disk' = IF buf[i].inuse - 1 = 0 /\ buf[i].dirty
                 THEN [disk EXCEPT ![b] = buf[i].data] ELSE disk
      /\ ver' = ver
  BY <1>1, PutDoes
<1>3. b = buf[i].blkno
  OBVIOUS
<1> HIDE DEF i, b
<1>4. buf[i].data = [of |-> b, ver |-> ver[b]]
  BY <1>1, <1>2, <1>3 DEF Current
<1>5. /\ \A j \in Buffer : /\ buf'[j].blkno = buf[j].blkno
                           /\ buf'[j].data = buf[j].data
                           /\ buf'[j].dirty = buf[j].dirty
      /\ buf'[i].inuse = buf[i].inuse - 1
      /\ \A j \in Buffer : j # i => buf'[j] = buf[j]
  BY <1>1, <1>2 DEF CacheTypeOK
<1>6. Current'
  BY <1>1, <1>2, <1>5 DEF Current
<1>7. DiskHas'
  <2> SUFFICES ASSUME NEW a \in Block
               PROVE  /\ disk'[a].of = a
                      /\ \/ disk'[a].ver = ver[a]
                         \/ \E j \in Buffer : /\ buf'[j].blkno = a
                                              /\ buf'[j].inuse > 0 /\ buf'[j].dirty
    BY <1>2 DEF DiskHas
  <2>1. CASE a # b
    <3>1. disk'[a] = disk[a]
      BY <2>1, <1>1, <1>2 DEF CacheTypeOK
    <3>2. ASSUME NEW j \in Buffer, buf[j].blkno = a
          PROVE  buf'[j] = buf[j]
      BY <3>2, <2>1, <1>3, <1>5
    <3> QED
      BY <3>1, <3>2, <1>1 DEF DiskHas
  <2>2. CASE a = b /\ buf[i].inuse - 1 = 0 /\ buf[i].dirty
    <3>1. disk'[b] = [of |-> b, ver |-> ver[b]]
      BY <2>2, <1>1, <1>2, <1>4 DEF CacheTypeOK
    <3> QED
      BY <2>2, <3>1
  <2>3. CASE a = b /\ buf[i].inuse - 1 = 0 /\ ~ buf[i].dirty
    <3>1. disk' = disk
      BY <2>3, <1>2
    <3>2. \A j \in Buffer : buf[j].blkno = b => j = i
      BY <1>1, <1>2, <1>3 DEF OneBuffer
    <3>3. disk[b].ver = ver[b] /\ disk[b].of = b
      BY <2>3, <3>2, <1>1, <1>2 DEF DiskHas
    <3> QED
      BY <2>3, <3>1, <3>3
  <2>4. CASE a = b /\ buf[i].inuse - 1 # 0
    <3>1. disk' = disk
      BY <2>4, <1>2
    <3>2. buf'[i].inuse > 0
      BY <2>4, <1>1, <1>2, <1>5 DEF CacheTypeOK
    <3>3. \A j \in Buffer : buf[j].blkno = b => j = i
      BY <1>1, <1>2, <1>3 DEF OneBuffer
    <3> QED
      BY <2>4, <3>1, <3>2, <3>3, <1>1, <1>2, <1>5 DEF DiskHas
  <2> QED
    BY <2>1, <2>2, <2>3, <2>4
<1> QED
  BY <1>6, <1>7

LEMMA ChangeStep ==
    ASSUME MayFail = {}, ChangeInv, [CacheNext]_cachevars
    PROVE  ChangeInv'
<1>1. RefInv'
  BY CacheStep DEF ChangeInv
<1>2. ASSUME UNCHANGED <<buf, disk, ver>> PROVE Current' /\ DiskHas'
  BY <1>2 DEF ChangeInv, Current, DiskHas
<1>3. ASSUME NEW c \in Client, NEW b \in Block,
             NEW fails \in {FALSE} \cup {"read" \in MayFail},
             bc_get_miss(c, b, fails)
      PROVE  Current' /\ DiskHas'
  <2>1. fails = FALSE \/ fails = ("read" \in MayFail)
    BY Zenon
  <2>2. ("read" \in MayFail) = FALSE
    OBVIOUS
  <2>3. bc_get_miss(c, b, FALSE)
    BY <1>3, <2>1, <2>2, Zenon
  <2> QED
    BY <2>3, MissLoses
<1>4. ASSUME NEW c \in Client,
             NEW fails \in {FALSE} \cup {"write" \in MayFail}, bc_put(c, fails)
      PROVE  Current' /\ DiskHas'
  <2>1. fails = FALSE \/ fails = ("write" \in MayFail)
    BY Zenon
  <2>2. ("write" \in MayFail) = FALSE
    OBVIOUS
  <2>3. bc_put(c, FALSE)
    BY <1>4, <2>1, <2>2, Zenon
  <2> QED
    BY <2>3, PutLoses
<1>5. CASE UNCHANGED cachevars
  BY <1>1, <1>2, <1>5 DEF cachevars, ChangeInv
<1>6. CASE CacheNext
  <2>1. Current' /\ DiskHas'
    BY <1>2, <1>3, <1>4, <1>6, HitLoses, ChangeLoses
    DEF CacheNext, Panicked, cachevars, bc_get_panics
  <2> QED
    BY <1>1, <2>1 DEF ChangeInv
<1> QED
  BY <1>5, <1>6

\* Whatever the order in which clients share, change and put a block, its
\* last change is on the device or in a buffer that is held and marked, as
\* long as the device does not fail.
THEOREM ChangesAreKept ==
    ASSUME MayFail = {}
    PROVE  CacheSpec => []NoChangeLost
<1>1. CacheInit => ChangeInv
  BY CacheInitially
<1>2. ChangeInv /\ [CacheNext]_cachevars => ChangeInv'
  BY ChangeStep
<1>3. ChangeInv => NoChangeLost
  <2> SUFFICES ASSUME ChangeInv, NEW b \in Block, disk[b].ver # ver[b]
               PROVE  \E i \in Cached(b) : /\ buf[i].inuse > 0 /\ buf[i].dirty
                                           /\ buf[i].data.ver = ver[b]
    BY DEF NoChangeLost
  <2>1. PICK i \in Buffer : buf[i].blkno = b /\ buf[i].inuse > 0 /\ buf[i].dirty
    BY DEF ChangeInv, DiskHas
  <2>2. buf[i].data = [of |-> b, ver |-> ver[b]]
    BY <2>1 DEF ChangeInv, Current
  <2>3. buf[i].data.ver = ver[b]
    BY <2>2
  <2> QED
    BY <2>1, <2>3 DEF Cached
<1> QED
  BY <1>1, <1>2, <1>3, PTL DEF CacheSpec

-----------------------------------------------------------------------------
(***************************************************************************)
(* Walks: a function of the naturals that is given by its first value and  *)
(* by each from the one before.                                            *)
(***************************************************************************)

\* f is the walk along g from a, as far as n.
Walks(f, g, a, n) == f[0] = a /\ \A i \in 1 .. n : f[i] = g[f[i - 1]]

\* Two walks from the same place are the same as far as both go.
LEMMA OneWalk ==
    ASSUME NEW f, NEW g, NEW h, NEW a, NEW n \in Nat, NEW m \in Nat, n <= m,
           Walks(f, g, a, n), Walks(h, g, a, m)
    PROVE  \A i \in 0 .. n : f[i] = h[i]
<1> DEFINE D == {i \in 0 .. n : f[i] # h[i]}
<1> SUFFICES ASSUME D # {} PROVE FALSE
  OBVIOUS
<1>1. D \subseteq Nat
  OBVIOUS
<1>2. PICK k \in D : \A j \in D : k <= j
  BY <1>1, LeastElement
<1>3. k \in 0 .. n /\ f[k] # h[k]
  BY <1>2
<1>4. k # 0
  BY <1>3 DEF Walks
<1>5. k - 1 \in 0 .. n /\ k \in 1 .. n /\ k \in 1 .. m
  BY <1>3, <1>4
<1>6. f[k - 1] = h[k - 1]
  BY <1>2, <1>5
<1> QED
  BY <1>3, <1>5, <1>6 DEF Walks

\* A walk in S without end, and what takes the same steps as long as it is
\* in S.
Endless(f, g, a, S) == f \in [Nat -> S] /\ \A n \in Nat : Walks(f, g, a, n)
Follows(h, g, a, S, k) ==
    h[0] = a /\ \A i \in 1 .. k : h[i - 1] \in S => h[i] = g[h[i - 1]]
Same(h, f, k) == \A i \in 0 .. k : h[i] = f[i]

\* What takes the same steps as an endless walk is a beginning of it.
LEMMA FollowsWalk ==
    ASSUME NEW S, NEW g, NEW a, NEW f, NEW h, NEW k \in Nat,
           Endless(f, g, a, S), Follows(h, g, a, S, k)
    PROVE  Same(h, f, k)
<1> USE DEF Endless, Follows, Same
<1> DEFINE D == {i \in 0 .. k : h[i] # f[i]}
<1> SUFFICES ASSUME D # {} PROVE FALSE
  OBVIOUS
<1>1. PICK m \in D : \A j \in D : m <= j
  <2>1. D \subseteq Nat
    OBVIOUS
  <2> QED
    BY <2>1, LeastElement
<1>2. m \in 0 .. k /\ h[m] # f[m] /\ Walks(f, g, a, k)
  BY <1>1
<1>3. m # 0
  BY <1>2 DEF Walks
<1>4. m - 1 \in 0 .. k /\ m \in 1 .. k /\ m - 1 \in Nat
  BY <1>2, <1>3
<1>5. h[m - 1] = f[m - 1] /\ f[m - 1] \in S
  BY <1>1, <1>4
<1> QED
  BY <1>2, <1>4, <1>5 DEF Walks

\* There is a walk of any length, and so one without end.
LEMMA WalkOfLength ==
    ASSUME NEW S, NEW g \in [S -> S], NEW a \in S, NEW n \in Nat
    PROVE  \E f \in [0 .. n -> S] : Walks(f, g, a, n)
<1> DEFINE Can(k) == \E f \in [0 .. k -> S] : Walks(f, g, a, k)
           D == {k \in Nat : ~ Can(k)}
<1> SUFFICES ASSUME ~ Can(n) PROVE FALSE
  OBVIOUS
<1>1. D \subseteq Nat /\ D # {}
  OBVIOUS
<1>2. PICK k \in D : \A j \in D : k <= j
  BY <1>1, LeastElement
<1>3. k \in Nat /\ ~ Can(k)
  BY <1>2
<1>4. CASE k = 0
  <2>1. PICK f : f = [i \in 0 .. 0 |-> a]
    OBVIOUS
  <2>2. f \in [0 .. k -> S] /\ Walks(f, g, a, k)
    BY <1>4, <2>1 DEF Walks
  <2> QED
    BY <1>3, <2>2
<1>5. CASE k # 0
  <2>1. k - 1 \in Nat /\ k - 1 \notin D
    BY <1>2, <1>3, <1>5
  <2>2. PICK f \in [0 .. (k - 1) -> S] : Walks(f, g, a, k - 1)
    BY <2>1
  <2>3. PICK h : h = [i \in 0 .. k |-> IF i = k THEN g[f[k - 1]] ELSE f[i]]
    OBVIOUS
  <2>4. h \in [0 .. k -> S]
    BY <1>3, <2>1, <2>3
  <2>5. \A i \in 1 .. k : h[i] = g[h[i - 1]]
    BY <1>3, <1>5, <2>1, <2>2, <2>3 DEF Walks
  <2>6. h[0] = a
    BY <1>3, <1>5, <2>2, <2>3 DEF Walks
  <2> QED
    BY <1>3, <2>4, <2>5, <2>6 DEF Walks
<1> QED
  BY <1>4, <1>5

LEMMA EndlessWalk ==
    ASSUME NEW S, NEW g \in [S -> S], NEW a \in S
    PROVE  \E f : Endless(f, g, a, S)
<1> DEFINE W(n) == CHOOSE f \in [0 .. n -> S] : Walks(f, g, a, n)
<1>1. \A n \in Nat : W(n) \in [0 .. n -> S] /\ Walks(W(n), g, a, n)
  BY WalkOfLength
<1> HIDE DEF W
<1>2. PICK f : f = [n \in Nat |-> W(n)[n]]
  OBVIOUS
<1>3. f \in [Nat -> S]
  <2>1. \A n \in Nat : W(n)[n] \in S
    BY <1>1
  <2> QED
    BY <1>2, <2>1
<1>4. ASSUME NEW n \in Nat, NEW i \in 1 .. n PROVE f[i] = g[f[i - 1]]
  <2>1. i \in Nat /\ i - 1 \in Nat /\ i - 1 <= i /\ i \in 1 .. i /\ i - 1 \in 0 .. (i - 1)
    OBVIOUS
  <2>2. W(i)[i] = g[W(i)[i - 1]]
    BY <1>1, <2>1 DEF Walks
  <2>3. W(i - 1)[i - 1] = W(i)[i - 1]
    BY <1>1, <2>1, OneWalk
  <2> QED
    BY <1>2, <2>1, <2>2, <2>3
<1>5. f[0] = a
  BY <1>1, <1>2 DEF Walks
<1> QED
  BY <1>3, <1>4, <1>5 DEF Walks, Endless

-----------------------------------------------------------------------------
(***************************************************************************)
(* The directories of the FAT file system                                  *)
(***************************************************************************)

Link == FileClus \cup DirClus \cup {EOF}
AnyName == OldName \cup NewName \cup BlankNames
EntRecord == [name : AnyName, isdir : BOOLEAN, cluster0 : Link, size : Int]

\* The name of the k-th entry of d.
NameAt(d, k) == ent[d][k].name

\* Every entry is one, and what is marked as a directory is one.
EntriesOK ==
    /\ Root \in DOMAIN ent /\ DOMAIN ent \subseteq {Root} \cup DirClus
    /\ ent = [d \in DOMAIN ent |-> ent[d]]
    /\ \A d \in DOMAIN ent : ent[d] \in [Visits(d) -> EntRecord]
    /\ \A d \in DOMAIN ent : \A k \in Visits(d) :
            ent[d][k].isdir => ent[d][k].cluster0 \in DOMAIN ent \ {Root}

\* A place of an entry.
IsPlace(p) == \E d \in DOMAIN ent : \E k \in Visits(d) : p = EntOf(d, k)

\* A file that is created at entry k of d: no entry before it is blank, and
\* as long as nobody has overtaken its maker its name is not in d.
CreatedIn(d, k, c) ==
    /\ k \in Visits(d) /\ c.at = EntOf(d, k) /\ c.name \in NewName
    /\ \A j \in Visits(d) : j < k => NameAt(d, j) \notin BlankNames
    /\ ~ raced /\ NameAt(d, k) \in BlankNames =>
            \A j \in Visits(d) : NameAt(d, j) # c.name

CreatingOK ==
    /\ creating = [t \in Caller |-> creating[t]]
    /\ \A t \in Caller : creating[t] # NoEnt =>
            \E d \in DOMAIN ent : \E k \in Visits(d) : CreatedIn(d, k, creating[t])

\* The files that were there, where nobody is about to write.
Spared(n) ==
    \E k \in Visits(Root) :
        /\ NameAt(Root, k) = n
        /\ \A t \in Caller : creating[t] # NoEnt => creating[t].at # EntOf(Root, k)

KFatInv ==
    /\ EntriesOK /\ CreatingOK /\ raced \in BOOLEAN
    /\ \A d \in DOMAIN ent : Packed(d) /\ (raced \/ Unique(d))
    /\ Spared("d") /\ Spared("f")

\* What KFatAssumption says of each constant.
LEMMA KFatSizes ==
    /\ SecSize \in Nat /\ SecPerClus \in Nat /\ EntPerSec \in Nat /\ RootSecs \in Nat
    /\ EntPerSec > 0 /\ SecPerClus > 0 /\ RootSecs > 0 /\ SecSize > 0
    /\ FileClus \subseteq Nat /\ DirClus \subseteq Nat /\ Root \notin DirClus
    /\ IsFiniteSet(FileClus) /\ IsFiniteSet(DirClus)
    /\ DirClus \cap FileClus = {} /\ MaxSize \in Nat
<1>1. /\ SecSize \in Nat \ {0} /\ SecPerClus \in Nat \ {0}
      /\ EntPerSec \in Nat \ {0} /\ RootSecs \in Nat \ {0} /\ MaxSize \in Nat
  BY KFatAssumption
<1>2. FileClus \cup DirClus \subseteq Nat \ {EOF}
  BY KFatAssumption
<1>3. IsFiniteSet(FileClus) /\ IsFiniteSet(DirClus) /\ DirClus \cap FileClus = {}
  BY KFatAssumption
<1> QED BY <1>1, <1>2, <1>3 DEF EOF, Root

\* ... and of the names.
LEMMA KFatNames ==
    /\ "d" \in OldName /\ "f" \in OldName
    /\ \A n \in OldName : n \notin BlankNames
    /\ \A n \in NewName : n \notin BlankNames
    /\ EndMark \in BlankNames /\ Deleted \in BlankNames
<1>1. {"d", "f"} \subseteq OldName
  BY KFatAssumption
<1>2. BlankNames \cap (OldName \cup NewName) = {}
  BY KFatAssumption
<1>3. EndMark \in BlankNames /\ Deleted \in BlankNames
  BY DEF BlankNames
<1> QED BY <1>1, <1>2, <1>3

\* Entries are counted, and a place is that of one entry and of none.
LEMMA EntryIs ==
  ASSUME NEW d \in {Root} \cup DirClus, NEW k \in Visits(d)
  PROVE  /\ k \in Nat /\ EntOf(d, k).dir = d /\ EntOf(d, k).k = k
         /\ EntOf(d, k) # NoEnt /\ EntOf(d, k) # Ino512
<1>1. k \in 0 .. (Room(d) - 1)
  BY DEF Visits
<1>2. EntOf(d, k) \notin {NoEnt, Ino512}
  BY <1>1, KFatAssumption
<1>3. EntOf(d, k).dir = d /\ EntOf(d, k).k = k
  BY DEF EntOf
<1>4. Room(d) \in Int
  <2>1. PICK C : C = Cardinality(DirClus)
    OBVIOUS
  <2>2. C \in Nat
    BY <2>1, KFatSizes, FS_CardinalityType
  <2>3. C * SecPerClus \in Nat
    BY <2>2, KFatSizes
  <2>4. PICK s \in Nat : s = IF d = Root THEN RootSecs ELSE C * SecPerClus
    BY <2>3, KFatSizes
  <2>5. s * EntPerSec \in Nat
    BY KFatSizes
  <2> QED BY <2>1, <2>4, <2>5 DEF Room
<1>5. k \in Nat
  BY <1>1, <1>4
<1> QED BY <1>2, <1>3, <1>5

\* The first of some entries.
LEMMA EarliestIs ==
  ASSUME NEW K \in SUBSET Nat, K # {}
  PROVE  /\ Earliest(K) \in K
         /\ \A j \in K : Earliest(K) <= j
<1>1. PICK m \in K : \A j \in K : m <= j
  BY LeastElement
<1> QED BY <1>1 DEF Earliest

-----------------------------------------------------------------------------
(* What the calls find                                                     *)

\* The entries of a directory are counted.
LEMMA VisitsAre ==
  ASSUME EntriesOK, NEW d \in DOMAIN ent
  PROVE  d \in {Root} \cup DirClus /\ Visits(d) \in SUBSET Nat
<1>1. d \in {Root} \cup DirClus
  BY DEF EntriesOK
<1>2. \A k \in Visits(d) : k \in Nat
  BY <1>1, EntryIs
<1> QED BY <1>1, <1>2

\* What is found is an entry of the directory.
LEMMA FoundThere ==
  ASSUME EntriesOK, NEW d \in DOMAIN ent, NEW name, dir_find_ent(d, name) # NoEnt
  PROVE  IsPlace(dir_find_ent(d, name))
<1>1. PICK K : K = Stops(d, name)
  OBVIOUS
<1>2. K \in SUBSET Nat /\ K \subseteq Visits(d)
  BY <1>1, VisitsAre DEF Stops
<1>3. K # {} /\ dir_find_ent(d, name) = EntOf(d, Earliest(K))
  BY <1>1 DEF dir_find_ent
<1>4. Earliest(K) \in Visits(d)
  BY <1>2, <1>3, EarliestIs
<1> QED BY <1>3, <1>4 DEF IsPlace

\* A name that is there is found.
LEMMA ThereFound ==
  ASSUME EntriesOK, NEW d \in DOMAIN ent, Packed(d), NEW k \in Visits(d),
         NameAt(d, k) # EndMark
  PROVE  dir_find_ent(d, NameAt(d, k)) # NoEnt
<1>1. PICK name : name = NameAt(d, k)
  OBVIOUS
<1>2. PICK K : K = Stops(d, name)
  OBVIOUS
<1>3. K \in SUBSET Nat /\ K \subseteq Visits(d) /\ k \in K
  BY <1>1, <1>2, VisitsAre DEF Stops, NameAt
<1>4. PICK m : m = Earliest(K)
  OBVIOUS
<1>5. m \in K /\ m <= k /\ m \in Visits(d) /\ m \in Nat /\ k \in Nat
  BY <1>3, <1>4, EarliestIs
<1>6. ent[d][m].name # EndMark
  <2> SUFFICES ASSUME ent[d][m].name = EndMark PROVE FALSE
    OBVIOUS
  <2>1. ent[d][k].name # EndMark
    BY DEF NameAt
  <2>2. m < k
    <3>1. m # k
      BY <2>1
    <3> QED BY <1>5, <3>1
  <2> QED BY <1>5, <2>1, <2>2 DEF Packed
<1>7. dir_find_ent(d, name) = EntOf(d, m)
  BY <1>2, <1>3, <1>4, <1>6 DEF dir_find_ent
<1>8. EntOf(d, m) # NoEnt
  BY <1>5, VisitsAre, EntryIs
<1> QED BY <1>1, <1>7, <1>8

\* The blank entry is the first one.
LEMMA BlankIs ==
  ASSUME EntriesOK, NEW d \in DOMAIN ent, BlankEnt(d) # NoEnt
  PROVE  \E k \in Visits(d) :
            /\ BlankEnt(d) = EntOf(d, k) /\ NameAt(d, k) \in BlankNames
            /\ \A j \in Visits(d) : j < k => NameAt(d, j) \notin BlankNames
<1>1. PICK B : B = {k \in Visits(d) : ent[d][k].name \in BlankNames}
  OBVIOUS
<1>2. B \in SUBSET Nat /\ B \subseteq Visits(d)
  BY <1>1, VisitsAre
<1>3. PICK k : k = Earliest(B)
  OBVIOUS
<1>4. B # {} /\ BlankEnt(d) = EntOf(d, k)
  BY <1>1, <1>3 DEF BlankEnt
<1>5. k \in B /\ \A j \in B : k <= j
  BY <1>2, <1>3, <1>4, EarliestIs
<1>6. ASSUME NEW j \in Visits(d), j < k, NameAt(d, j) \in BlankNames PROVE FALSE
  <2>1. j \in B
    BY <1>1, <1>6 DEF NameAt
  <2>2. k <= j /\ k \in Nat /\ j \in Nat
    BY <1>2, <1>5, <2>1
  <2> QED BY <1>6, <2>2
<1>7. k \in Visits(d) /\ NameAt(d, k) \in BlankNames
  BY <1>1, <1>5 DEF NameAt
<1> QED BY <1>4, <1>6, <1>7

\* A path leads to one of the directories.
LEMMA ParentIs ==
  ASSUME EntriesOK, NEW path, Parent(path) # -1
  PROVE  Parent(path) \in DOMAIN ent
<1>0. Root \in DOMAIN ent
  BY DEF EntriesOK
<1>1. CASE Parent(path) = Root
  BY <1>0, <1>1
<1>2. CASE Parent(path) # Root
  <2>1. PICK p : p = dir_find_ent(Root, path[1])
    OBVIOUS
  <2>2. p # NoEnt /\ EntAt(p).isdir /\ Parent(path) = EntAt(p).cluster0
    BY <1>2, <2>1 DEF Parent
  <2>3. PICK d \in DOMAIN ent : \E k \in Visits(d) : p = EntOf(d, k)
    BY <1>0, <2>1, <2>2, FoundThere DEF IsPlace
  <2>4. PICK k \in Visits(d) : p = EntOf(d, k)
    BY <2>3
  <2>5. EntAt(p) = ent[d][k]
    BY <2>4 DEF EntAt, EntOf
  <2> QED BY <2>2, <2>5 DEF EntriesOK
<1> QED BY <1>1, <1>2

-----------------------------------------------------------------------------
(* The steps                                                               *)

\* A blank entry is found: none is before it, and the name is not there.
LEMMA CreateStep ==
  ASSUME KFatInv, NEW t \in Caller, NEW path, NEW n \in NewName,
         Name(path) = n, fobj_create(t, path)
  PROVE  KFatInv'
<1>1. PICK d : d = Parent(path)
  OBVIOUS
<1>2. PICK c : c = [at |-> BlankEnt(d), name |-> n]
  OBVIOUS
<1>3. /\ d # -1 /\ dir_find_path(path) = NoEnt /\ BlankEnt(d) # NoEnt
      /\ creating' = [creating EXCEPT ![t] = c] /\ UNCHANGED <<next, ent, raced>>
  BY <1>1, <1>2 DEF fobj_create
<1>4. d \in DOMAIN ent
  BY <1>1, <1>3, ParentIs DEF KFatInv
<1>5. dir_find_ent(d, n) = NoEnt
  BY <1>1, <1>3 DEF dir_find_path
<1>6. n # EndMark
  BY KFatNames
<1>7. \A j \in Visits(d) : NameAt(d, j) # n
  BY <1>4, <1>5, <1>6, ThereFound DEF KFatInv
<1>8. PICK k \in Visits(d) : /\ c.at = EntOf(d, k) /\ NameAt(d, k) \in BlankNames
                             /\ \A j \in Visits(d) : j < k => NameAt(d, j) \notin BlankNames
  BY <1>2, <1>3, <1>4, BlankIs DEF KFatInv
<1>9. c.name = n
  BY <1>2
<1>10. CreatedIn(d, k, c)
  BY <1>7, <1>8, <1>9 DEF CreatedIn
<1>11. \A g, j : Visits(g)' = Visits(g) /\ NameAt(g, j)' = NameAt(g, j)
  BY <1>3 DEF Visits, Walk, NameAt
<1>12. \A g, j, b : CreatedIn(g, j, b)' <=> CreatedIn(g, j, b)
  BY <1>3, <1>11 DEF CreatedIn
<1>13. /\ creating' = [u \in Caller |-> creating'[u]]
       /\ \A u \in Caller : creating'[u] = IF u = t THEN c ELSE creating[u]
  BY <1>3 DEF KFatInv, CreatingOK
<1>14. CreatingOK'
  <2>1. ASSUME NEW u \in Caller, creating'[u] # NoEnt
        PROVE  \E g \in DOMAIN ent : \E j \in Visits(g) : CreatedIn(g, j, creating[u])'
    <3>1. PICK b : b = creating'[u]
      OBVIOUS
    <3>2. PICK g \in DOMAIN ent : \E j \in Visits(g) : CreatedIn(g, j, b)
      <4>1. CASE u = t
        BY <1>4, <1>8, <1>10, <1>13, <3>1, <4>1
      <4>2. CASE u # t
        BY <1>13, <2>1, <3>1, <4>2 DEF KFatInv, CreatingOK
      <4> QED BY <4>1, <4>2
    <3>3. PICK j \in Visits(g) : CreatedIn(g, j, b)
      BY <3>2
    <3>4. CreatedIn(g, j, b)'
      BY <1>12, <3>3
    <3>5. CreatedIn(g, j, creating[u])'
      BY <3>1, <3>4 DEF CreatedIn
    <3> QED BY <3>5
  <2> QED BY <1>3, <1>11, <1>13, <2>1 DEF CreatingOK
<1>15. ASSUME NEW o \in OldName, Spared(o) PROVE Spared(o)'
  <2>1. PICK j \in Visits(Root) :
            /\ NameAt(Root, j) = o
            /\ \A u \in Caller : creating[u] # NoEnt => creating[u].at # EntOf(Root, j)
    BY <1>15 DEF Spared
  <2>2. c.at # EntOf(Root, j)
    <3> SUFFICES ASSUME EntOf(d, k) = EntOf(Root, j) PROVE FALSE
      BY <1>8
    <3>1. d = Root /\ k = j
      BY DEF EntOf
    <3> QED BY <1>8, <2>1, <3>1, KFatNames
  <2>3. \A u \in Caller : creating'[u] # NoEnt => creating'[u].at # EntOf(Root, j)
    BY <1>13, <2>1, <2>2
  <2> QED BY <1>11, <2>1, <2>3 DEF Spared
<1>16. EntriesOK'
  BY <1>3, <1>11 DEF KFatInv, EntriesOK
<1>17. \A g \in DOMAIN ent : Packed(g)' /\ (raced \/ Unique(g)')
  BY <1>3, <1>11 DEF KFatInv, Packed, Unique
<1>18. Spared("d")' /\ Spared("f")'
  BY <1>15, KFatNames DEF KFatInv
<1>19. raced' \in BOOLEAN
  BY <1>3 DEF KFatInv
<1> QED BY <1>3, <1>14, <1>16, <1>17, <1>18, <1>19 DEF KFatInv

\* fobj_create writes a name that is no directory's and leaves the other
\* entries alone.
LEMMA WritesEntry ==
  ASSUME EntriesOK, NEW t \in Caller, fobj_create_write(t), NEW d \in DOMAIN ent,
         NEW k \in Visits(d), creating[t].at = EntOf(d, k), creating[t].name \in NewName
  PROVE  /\ EntriesOK' /\ DOMAIN ent' = DOMAIN ent /\ \A g : Visits(g)' = Visits(g)
         /\ NameAt(d, k)' = creating[t].name
         /\ \A g \in DOMAIN ent : \A j \in Visits(g) :
                g # d \/ j # k => ent'[g][j] = ent[g][j]
<1>1. PICK c : c = creating[t].name
  OBVIOUS
<1>2. ent' = [ent EXCEPT ![d][k].name = c, ![d][k].isdir = FALSE]
  BY <1>1 DEF fobj_create_write, EntOf
<1>3. ent = [g \in DOMAIN ent |-> ent[g]] /\ ent[d] \in [Visits(d) -> EntRecord]
  BY DEF EntriesOK
<1>4. PICK x : x = [ent[d][k] EXCEPT !.name = c]
  OBVIOUS
<1>5. PICK e : e = [x EXCEPT !.isdir = FALSE]
  OBVIOUS
<1>6. e \in EntRecord /\ e.name = c /\ e.isdir = FALSE
  <2>1. ent[d][k] \in EntRecord /\ c \in AnyName
    BY <1>1, <1>3 DEF AnyName
  <2>2. x \in EntRecord /\ x.name = c
    BY <1>4, <2>1 DEF EntRecord
  <2> QED BY <1>5, <2>2 DEF EntRecord
<1>7. PICK b : b = [ent[d] EXCEPT ![k] = e]
  OBVIOUS
<1>8. ent' = [ent EXCEPT ![d] = b]
  <2>1. PICK A : A = [ent EXCEPT ![d][k].name = c]
    OBVIOUS
  <2>2. A = [ent EXCEPT ![d] = [ent[d] EXCEPT ![k] = x]]
    BY <1>4, <2>1
  <2>3. ent' = [A EXCEPT ![d] = [A[d] EXCEPT ![k] = [A[d][k] EXCEPT !.isdir = FALSE]]]
    BY <1>2, <2>1
  <2>4. A[d] = [ent[d] EXCEPT ![k] = x]
    BY <1>3, <2>2
  <2>5. A[d][k] = x
    BY <1>3, <2>4
  <2>6. ent' = [A EXCEPT ![d] = [[ent[d] EXCEPT ![k] = x] EXCEPT ![k] = e]]
    BY <1>5, <2>3, <2>4, <2>5
  <2>7. [[ent[d] EXCEPT ![k] = x] EXCEPT ![k] = e] = b
    BY <1>7
  <2>8. ent' = [A EXCEPT ![d] = b]
    BY <2>6, <2>7
  <2>9. [A EXCEPT ![d] = b] = [ent EXCEPT ![d] = b]
    BY <2>2
  <2> QED BY <2>8, <2>9
<1>9. b \in [Visits(d) -> EntRecord] /\ b[k] = e /\ \A j \in Visits(d) : j # k => b[j] = ent[d][j]
  BY <1>3, <1>6, <1>7
<1>10. /\ DOMAIN ent' = DOMAIN ent /\ ent'[d] = b
       /\ \A g \in DOMAIN ent : g # d => ent'[g] = ent[g]
       /\ ent' = [g \in DOMAIN ent |-> ent'[g]]
  BY <1>3, <1>8
<1>11. \A g : Visits(g)' = Visits(g)
  BY DEF fobj_create_write, Visits, Walk
<1>12. NameAt(d, k)' = c
  BY <1>6, <1>9, <1>10 DEF NameAt
<1>13. ASSUME NEW g \in DOMAIN ent, NEW j \in Visits(g), g # d \/ j # k
       PROVE  ent'[g][j] = ent[g][j]
  <2>1. CASE g # d
    BY <1>10, <2>1
  <2>2. CASE g = d
    <3>1. j # k
      BY <1>13, <2>2
    <3> QED BY <1>9, <1>10, <2>2, <3>1
  <2> QED BY <2>1, <2>2
<1>14. EntriesOK'
  <2>1. ASSUME NEW g \in DOMAIN ent PROVE ent'[g] \in [Visits(g) -> EntRecord]
    <3>1. CASE g = d
      BY <1>9, <1>10, <3>1
    <3>2. CASE g # d
      BY <1>10, <3>2 DEF EntriesOK
    <3> QED BY <3>1, <3>2
  <2>2. ASSUME NEW g \in DOMAIN ent, NEW j \in Visits(g), ent'[g][j].isdir
        PROVE  ent'[g][j].cluster0 \in DOMAIN ent \ {Root}
    <3>1. ent'[g][j] = ent[g][j]
      <4> SUFFICES ASSUME g = d, j = k PROVE FALSE
        BY <1>13
      <4>1. ent'[g][j] = e
        BY <1>9, <1>10
      <4> QED BY <1>6, <2>2, <4>1
    <3> QED BY <2>2, <3>1 DEF EntriesOK
  <2>3. Root \in DOMAIN ent /\ DOMAIN ent \subseteq {Root} \cup DirClus
    BY DEF EntriesOK
  <2> QED BY <1>10, <1>11, <2>1, <2>2, <2>3 DEF EntriesOK
<1> QED BY <1>1, <1>10, <1>11, <1>12, <1>13, <1>14

\* The name is written; whoever wanted the same entry comes too late.
LEMMA WriteStep ==
  ASSUME KFatInv, NEW t \in Caller, fobj_create_write(t)
  PROVE  KFatInv'
<1>1. PICK c : c = creating[t]
  OBVIOUS
<1>2. c # NoEnt
  BY <1>1 DEF fobj_create_write
<1>3. PICK d \in DOMAIN ent : \E j \in Visits(d) : CreatedIn(d, j, c)
  BY <1>1, <1>2 DEF KFatInv, CreatingOK
<1>4. PICK k \in Visits(d) : CreatedIn(d, k, c)
  BY <1>3
<1>5. /\ c.at = EntOf(d, k) /\ c.name \in NewName
      /\ \A j \in Visits(d) : j < k => NameAt(d, j) \notin BlankNames
      /\ ~ raced /\ NameAt(d, k) \in BlankNames => \A j \in Visits(d) : NameAt(d, j) # c.name
  BY <1>4 DEF CreatedIn
<1>6. c.name \notin BlankNames /\ c.name # EndMark
  BY <1>5, KFatNames
<1>7. /\ EntriesOK' /\ DOMAIN ent' = DOMAIN ent /\ \A g : Visits(g)' = Visits(g)
      /\ NameAt(d, k)' = c.name
      /\ \A g \in DOMAIN ent : \A j \in Visits(g) :
            g # d \/ j # k => ent'[g][j] = ent[g][j]
  BY <1>1, <1>5, WritesEntry DEF KFatInv
<1>8. \A g \in DOMAIN ent : \A j \in Visits(g) :
            g # d \/ j # k => NameAt(g, j)' = NameAt(g, j)
  BY <1>7 DEF NameAt
<1>9. /\ raced' \in BOOLEAN
      /\ ~ raced' => ~ raced /\ NameAt(d, k) \in BlankNames
  <2>1. EntAt(c.at) = ent[d][k]
    BY <1>5 DEF EntAt, EntOf
  <2>2. raced' = (raced \/ EntAt(c.at).name \notin BlankNames)
    BY <1>1 DEF fobj_create_write
  <2> QED BY <2>1, <2>2 DEF NameAt
<1>10. \A g \in DOMAIN ent : Visits(g) \in SUBSET Nat
  BY VisitsAre DEF KFatInv
<1>11. ASSUME NEW g \in DOMAIN ent PROVE Packed(g)'
  <2>1. ASSUME NEW i \in Visits(g), NEW j \in Visits(g), i < j, NameAt(g, i)' = EndMark
        PROVE  NameAt(g, j)' = EndMark
    <3>1. g # d \/ i # k
      BY <1>6, <1>7, <2>1
    <3>2. NameAt(g, i) = EndMark
      BY <1>8, <2>1, <3>1
    <3>3. g # d \/ j # k
      <4> SUFFICES ASSUME g = d, j = k PROVE FALSE
        OBVIOUS
      <4>1. NameAt(d, i) \notin BlankNames
        BY <1>5, <2>1
      <4> QED BY <3>2, <4>1, KFatNames
    <3>4. NameAt(g, j) = EndMark
      BY <2>1, <3>2 DEF KFatInv, Packed, NameAt
    <3> QED BY <1>8, <3>3, <3>4
  <2> QED BY <1>7, <2>1 DEF Packed, NameAt
<1>12. ASSUME NEW g \in DOMAIN ent, ~ raced' PROVE Unique(g)'
  <2>1. Unique(g) /\ \A j \in Visits(d) : NameAt(d, j) # c.name
    BY <1>5, <1>9, <1>12 DEF KFatInv
  <2>2. ASSUME NEW i \in Visits(g), NEW j \in Visits(g), i # j, NameAt(g, i)' = NameAt(g, j)'
        PROVE  NameAt(g, i)' \in BlankNames
    <3>1. CASE (g # d \/ i # k) /\ (g # d \/ j # k)
      <4>1. NameAt(g, i)' = NameAt(g, i) /\ NameAt(g, j)' = NameAt(g, j)
        BY <1>8, <3>1
      <4>2. NameAt(g, i) = NameAt(g, j)
        BY <2>2, <4>1
      <4>3. NameAt(g, i) \in BlankNames
        BY <2>1, <2>2, <4>2 DEF Unique, NameAt
      <4> QED BY <4>1, <4>3
    <3>2. ASSUME NEW h \in Visits(d), h # k, NameAt(d, h)' = NameAt(d, k)' PROVE FALSE
      BY <1>7, <1>8, <2>1, <3>2
    <3>3. CASE g = d /\ i = k
      BY <2>2, <3>2, <3>3
    <3>4. CASE g = d /\ j = k
      BY <2>2, <3>2, <3>4
    <3> QED BY <3>1, <3>3, <3>4
  <2> QED BY <1>7, <2>2 DEF Unique, NameAt
<1>13. /\ creating' = [u \in Caller |-> creating'[u]]
       /\ \A u \in Caller : creating'[u] = IF u = t THEN NoEnt ELSE creating[u]
  BY DEF KFatInv, CreatingOK, fobj_create_write
<1>14. ASSUME NEW u \in Caller, creating'[u] # NoEnt
       PROVE  \E g \in DOMAIN ent : \E j \in Visits(g) : CreatedIn(g, j, creating[u])'
  <2>1. PICK b : b = creating[u]
    OBVIOUS
  <2>2. creating'[u] = b /\ b # NoEnt
    BY <1>13, <1>14, <2>1
  <2>3. PICK g \in DOMAIN ent : \E i \in Visits(g) : CreatedIn(g, i, b)
    BY <2>1, <2>2 DEF KFatInv, CreatingOK
  <2>4. PICK m \in Visits(g) : CreatedIn(g, m, b)
    BY <2>3
  <2>5. /\ b.at = EntOf(g, m) /\ b.name \in NewName
        /\ \A j \in Visits(g) : j < m => NameAt(g, j) \notin BlankNames
        /\ ~ raced /\ NameAt(g, m) \in BlankNames => \A j \in Visits(g) : NameAt(g, j) # b.name
    BY <2>4 DEF CreatedIn
  <2>6. ASSUME NEW j \in Visits(g), j < m PROVE NameAt(g, j)' \notin BlankNames
    <3>1. CASE g # d \/ j # k
      BY <1>8, <2>5, <2>6, <3>1
    <3>2. CASE g = d /\ j = k
      BY <1>6, <1>7, <3>2
    <3> QED BY <3>1, <3>2
  <2>7. ASSUME ~ raced', NameAt(g, m)' \in BlankNames, NEW j \in Visits(g)
        PROVE  NameAt(g, j)' # b.name
    <3>1. g # d \/ m # k
      BY <1>6, <1>7, <2>7
    <3>2. NameAt(g, m) \in BlankNames
      BY <1>8, <2>7, <3>1
    <3>3. ~ raced /\ NameAt(d, k) \in BlankNames
      BY <1>9, <2>7
    <3>4. g # d
      <4> SUFFICES ASSUME g = d PROVE FALSE
        OBVIOUS
      <4>1. m \in Nat /\ k \in Nat /\ m # k
        BY <1>10, <3>1
      <4>2. CASE m < k
        BY <1>5, <3>2, <4>2
      <4>3. CASE k < m
        BY <2>5, <3>3, <4>3
      <4> QED BY <4>1, <4>2, <4>3
    <3>5. NameAt(g, j)' = NameAt(g, j)
      BY <1>8, <3>4
    <3> QED BY <2>5, <3>2, <3>3, <3>5
  <2>8. CreatedIn(g, m, b)'
    BY <1>7, <2>5, <2>6, <2>7 DEF CreatedIn
  <2>9. CreatedIn(g, m, creating[u])'
    BY <2>2, <2>8 DEF CreatedIn
  <2> QED BY <2>9
<1>15. CreatingOK'
  BY <1>7, <1>13, <1>14 DEF CreatingOK
<1>16. ASSUME NEW o, Spared(o) PROVE Spared(o)'
  <2>1. PICK j \in Visits(Root) :
            /\ NameAt(Root, j) = o
            /\ \A u \in Caller : creating[u] # NoEnt => creating[u].at # EntOf(Root, j)
    BY <1>16 DEF Spared
  <2>2. Root \in DOMAIN ent
    BY DEF KFatInv, EntriesOK
  <2>3. d # Root \/ k # j
    BY <1>1, <1>2, <1>5, <2>1
  <2>4. NameAt(Root, j)' = o
    BY <1>8, <2>1, <2>2, <2>3
  <2>5. \A u \in Caller : creating'[u] # NoEnt => creating'[u].at # EntOf(Root, j)
    BY <1>13, <2>1
  <2> QED BY <1>7, <2>4, <2>5 DEF Spared
<1>17. Spared("d")' /\ Spared("f")'
  BY <1>16 DEF KFatInv
<1>18. \A g \in DOMAIN ent' : Packed(g)' /\ (raced' \/ Unique(g)')
  BY <1>7, <1>9, <1>11, <1>12
<1> QED BY <1>7, <1>9, <1>15, <1>17, <1>18 DEF KFatInv

\* An entry that Init makes.
OldOne(e, n, c0, d0, size) ==
    \/ e = Ent(n, TRUE, d0, 0)
    \/ e = Ent(n, FALSE, c0, size)
    \/ e = Ent(n, FALSE, c0, ClusBytes + 1)
    \/ e = Ent(n, FALSE, EOF, 0)
FitsOld(e, n, d0) ==
    e \in EntRecord /\ e.name = n /\ (e.isdir => e.cluster0 = d0)
LEMMA OldIs ==
  ASSUME NEW n \in OldName \cup {Deleted}, NEW c0 \in Link, NEW d0 \in Link, NEW size \in Int,
         NEW e, OldOne(e, n, c0, d0, size)
  PROVE  FitsOld(e, n, d0)
<1>1. n \in AnyName /\ EOF \in Link /\ 0 \in Int
  BY KFatNames DEF AnyName, Link
<1>2. ClusBytes + 1 \in Int
  <2>1. ClusBytes \in Int
    BY KFatSizes DEF ClusBytes
  <2> QED BY <2>1
<1>3. \A k \in BOOLEAN, x \in Link, s \in Int :
        /\ Ent(n, k, x, s) \in EntRecord /\ Ent(n, k, x, s).name = n
        /\ Ent(n, k, x, s).isdir = k /\ Ent(n, k, x, s).cluster0 = x
  BY <1>1 DEF Ent, EntRecord
<1>4. CASE e = Ent(n, TRUE, d0, 0)
  <2>1. /\ Ent(n, TRUE, d0, 0) \in EntRecord /\ Ent(n, TRUE, d0, 0).name = n
        /\ Ent(n, TRUE, d0, 0).cluster0 = d0
    BY <1>1, <1>3
  <2> QED BY <1>4, <2>1 DEF FitsOld
<1>5. CASE e = Ent(n, FALSE, c0, size)
  BY <1>3, <1>5 DEF FitsOld
<1>6. CASE e = Ent(n, FALSE, c0, ClusBytes + 1)
  BY <1>2, <1>3, <1>6 DEF FitsOld
<1>7. CASE e = Ent(n, FALSE, EOF, 0)
  BY <1>1, <1>3, <1>7 DEF FitsOld
<1> QED BY <1>4, <1>5, <1>6, <1>7 DEF OldOne

\* A chain begins with one of its clusters.
LEMMA ChainOf ==
  ASSUME NEW C, IsFiniteSet(C), NEW c \in Chains(C)
  PROVE  Len(c) \in Nat /\ Len(c) >= 1 /\ c \in [1 .. Len(c) -> C] /\ c[1] \in C
<1>1. PICK N : N = Cardinality(C)
  OBVIOUS
<1>2. N \in Nat
  BY <1>1, FS_CardinalityType
<1>3. PICK n \in 1 .. N : c \in [1 .. n -> C]
  BY <1>1 DEF Chains
<1>4. n \in Nat /\ n >= 1
  BY <1>2
<1>5. Len(c) = n
  <2>1. c \in Seq(C)
    BY <1>3, <1>4, SeqDef
  <2> QED BY <1>3, <1>4, <2>1, LenProperties
<1>6. 1 \in 1 .. n
  BY <1>4
<1> QED BY <1>3, <1>4, <1>5, <1>6

\* A list of names is a directory that is sound.
LEMMA ListSound ==
  ASSUME NEW d \in {Root} \cup DirClus, NEW l, NEW room, Listing(l, room),
         \A k \in Visits(d) :
            NameAt(d, k) = IF k < Len(l) THEN l[k + 1] ELSE EndMark
  PROVE  Packed(d) /\ Unique(d)
<1>1. l \in Seq(OldName \cup {Deleted}) /\ Len(l) \in Nat /\ DOMAIN l = 1 .. Len(l)
  BY DEF Listing
<1>2. ASSUME NEW k \in Visits(d)
      PROVE  /\ k \in Nat
             /\ k < Len(l) => /\ k + 1 \in DOMAIN l /\ NameAt(d, k) = l[k + 1]
                             /\ NameAt(d, k) # EndMark
             /\ ~ k < Len(l) => NameAt(d, k) = EndMark
  <2>1. k \in Nat
    BY EntryIs
  <2>2. k < Len(l) => k + 1 \in DOMAIN l /\ NameAt(d, k) = l[k + 1]
    BY <1>1, <2>1
  <2>3. ASSUME k < Len(l) PROVE NameAt(d, k) # EndMark
    <3>1. l[k + 1] \in OldName \cup {Deleted}
      BY <1>1, <2>2, <2>3
    <3>2. Deleted # EndMark
      BY DEF Deleted, EndMark
    <3> QED BY <2>2, <2>3, <3>1, <3>2, KFatNames
  <2> QED BY <2>1, <2>2, <2>3
<1>3. Packed(d)
  <2>1. ASSUME NEW i \in Visits(d), NEW j \in Visits(d), i < j, NameAt(d, i) = EndMark
        PROVE  NameAt(d, j) = EndMark
    <3>1. ~ i < Len(l) /\ i \in Nat /\ j \in Nat
      BY <1>2, <2>1
    <3>2. ~ j < Len(l)
      BY <1>1, <2>1, <3>1
    <3> QED BY <1>2, <3>2
  <2> QED BY <2>1 DEF Packed, NameAt
<1>4. Unique(d)
  <2>1. ASSUME NEW i \in Visits(d), NEW j \in Visits(d), i # j, NameAt(d, i) = NameAt(d, j)
        PROVE  NameAt(d, i) \in BlankNames
    <3>1. CASE ~ i < Len(l)
      BY <1>2, <3>1, KFatNames
    <3>2. CASE ~ j < Len(l)
      BY <1>2, <2>1, <3>2, KFatNames
    <3>3. CASE i < Len(l) /\ j < Len(l)
      <4>1. /\ i + 1 \in DOMAIN l /\ j + 1 \in DOMAIN l /\ i + 1 # j + 1
            /\ l[i + 1] = l[j + 1] /\ NameAt(d, i) = l[i + 1]
        BY <1>2, <2>1, <3>3
      <4>2. l[i + 1] = Deleted
        BY <4>1 DEF Listing
      <4> QED BY <4>1, <4>2, KFatNames
    <3> QED BY <3>1, <3>2, <3>3
  <2> QED BY <2>1 DEF Unique, NameAt
<1> QED BY <1>3, <1>4

\* The directories hold the names of the lists that are drawn.
LEMMA DirsStart ==
  ASSUME NEW c \in Chains(FileClus), NEW dc \in Chains(DirClus), NEW last \in 1 .. ClusBytes,
         NEW root \in RootLists, NEW sub \in DirLists, Starts(c, dc, last, root, sub)
  PROVE  KFatInv
<1>1. Len(c) \in Nat /\ c[1] \in Link /\ dc[1] \in DirClus /\ dc[1] \in Link /\ dc[1] # Root
  BY KFatSizes, ChainOf DEF Link
<1>2. PICK size : size = (Len(c) - 1) * ClusBytes + last
  OBVIOUS
<1>3. size \in Int
  <2>1. ClusBytes \in Int
    BY KFatSizes DEF ClusBytes
  <2>2. (Len(c) - 1) * ClusBytes \in Int /\ last \in Int
    BY <1>1, <2>1
  <2> QED BY <1>2, <2>2
<1> DEFINE Old(n) == CASE n = "d"     -> Ent(n, TRUE, dc[1], 0)
                       [] n = "f"     -> Ent(n, FALSE, c[1], size)
                       [] n = Deleted -> Ent(n, FALSE, c[1], ClusBytes + 1)
                       [] OTHER       -> Ent(n, FALSE, EOF, 0)
           List(d) == IF d = Root THEN root ELSE sub
           Made(d, k) == IF k < Len(List(d)) THEN Old(List(d)[k + 1]) ELSE NoName
<1>4. /\ ent = [d \in {Root, dc[1]} |-> [k \in Visits(d) |-> Made(d, k)]]
      /\ creating = [t \in Caller |-> NoEnt] /\ raced = FALSE
  BY <1>2 DEF Starts
<1>5. DOMAIN ent = {Root, dc[1]} /\ \A d \in DOMAIN ent : d \in {Root} \cup DirClus
  BY <1>1, <1>4
<1>6. Listing(root, Room(Root)) /\ Listing(sub, SecPerClus * EntPerSec)
  BY KFatAssumption
<1>7. ASSUME NEW d \in DOMAIN ent
      PROVE  \E room : Listing(List(d), room)
  BY <1>6
<1>8. \A n \in OldName \cup {Deleted} :
            Old(n) \in EntRecord /\ Old(n).name = n /\ (Old(n).isdir => Old(n).cluster0 = dc[1])
  <2> TAKE n \in OldName \cup {Deleted}
  <2>0. PICK c0 \in Link, d0 \in Link : c0 = c[1] /\ d0 = dc[1]
    BY <1>1
  <2>1. ASSUME n = "d" PROVE Old(n) = Ent(n, TRUE, d0, 0)
    BY <2>0, <2>1 DEF Deleted
  <2>2. ASSUME n # "d" /\ n = "f" PROVE Old(n) = Ent(n, FALSE, c0, size)
    BY <2>0, <2>2 DEF Deleted
  <2>3. ASSUME n # "d" /\ n # "f" /\ n = Deleted PROVE Old(n) = Ent(n, FALSE, c0, ClusBytes + 1)
    BY <2>0, <2>3 DEF Deleted
  <2>4. ASSUME n # "d" /\ n # "f" /\ n # Deleted PROVE Old(n) = Ent(n, FALSE, EOF, 0)
    BY <2>0, <2>4 DEF Deleted
  <2>5. PICK e : e = Old(n)
    OBVIOUS
  <2> HIDE DEF Old
  <2>6. OldOne(e, n, c0, d0, size)
    <3>1. CASE n = "d"
      BY <2>1, <2>5, <3>1 DEF OldOne
    <3>2. CASE n # "d" /\ n = "f"
      BY <2>2, <2>5, <3>2 DEF OldOne
    <3>3. CASE n # "d" /\ n # "f" /\ n = Deleted
      BY <2>3, <2>5, <3>3 DEF OldOne
    <3>4. CASE n # "d" /\ n # "f" /\ n # Deleted
      BY <2>4, <2>5, <3>4 DEF OldOne
    <3> QED BY <3>1, <3>2, <3>3, <3>4
  <2>7. FitsOld(e, n, d0)
    BY <1>3, <2>6, OldIs
  <2> QED BY <2>0, <2>5, <2>7 DEF FitsOld
<1> HIDE DEF Old, List
<1>9. NoName \in EntRecord /\ NoName.name = EndMark /\ NoName.isdir = FALSE
  BY KFatNames DEF NoName, Ent, EntRecord, AnyName, Link
<1>10. ASSUME NEW d \in DOMAIN ent, NEW k \in Visits(d)
       PROVE  /\ Made(d, k) \in EntRecord
              /\ Made(d, k).name = IF k < Len(List(d)) THEN List(d)[k + 1] ELSE EndMark
              /\ Made(d, k).isdir => Made(d, k).cluster0 = dc[1]
  <2>1. PICK l : l = List(d)
    OBVIOUS
  <2>2. l \in Seq(OldName \cup {Deleted})
    BY <1>7, <2>1 DEF Listing
  <2>3. k \in Nat
    BY <1>5, EntryIs
  <2>4. CASE k < Len(l)
    <3>1. k + 1 \in 1 .. Len(l)
      BY <2>2, <2>3, <2>4
    <3>2. l[k + 1] \in OldName \cup {Deleted}
      BY <2>2, <3>1
    <3>3. Made(d, k) = Old(l[k + 1])
      BY <2>1, <2>4
    <3> QED BY <1>8, <2>1, <2>4, <3>2, <3>3
  <2>5. CASE ~ k < Len(l)
    <3>1. Made(d, k) = NoName
      BY <2>1, <2>5
    <3> QED BY <1>9, <2>1, <2>5, <3>1
  <2> QED BY <2>4, <2>5
<1>11. \A d \in DOMAIN ent : ent[d] = [k \in Visits(d) |-> Made(d, k)]
  BY <1>4, <1>5
<1> HIDE DEF Made
<1>12. \A d \in DOMAIN ent : \A k \in Visits(d) : ent[d][k] = Made(d, k)
  BY <1>11
<1>13. EntriesOK
  <2>1. \A d \in DOMAIN ent : ent[d] \in [Visits(d) -> EntRecord]
    BY <1>10, <1>11
  <2>2. \A d \in DOMAIN ent : \A k \in Visits(d) :
            ent[d][k].isdir => ent[d][k].cluster0 \in DOMAIN ent \ {Root}
    BY <1>1, <1>5, <1>10, <1>12
  <2>3. ent = [d \in DOMAIN ent |-> ent[d]]
    BY <1>4
  <2> QED BY <1>1, <1>5, <2>1, <2>2, <2>3 DEF EntriesOK
<1>14. ASSUME NEW d \in DOMAIN ent PROVE Packed(d) /\ Unique(d)
  <2>1. PICK room : Listing(List(d), room)
    BY <1>7
  <2>2. \A k \in Visits(d) :
            NameAt(d, k) = IF k < Len(List(d)) THEN List(d)[k + 1] ELSE EndMark
    BY <1>10, <1>12 DEF NameAt
  <2> QED BY <1>5, <2>1, <2>2, ListSound
<1>15. CreatingOK
  BY <1>4 DEF CreatingOK
<1>16. ASSUME NEW n, NEW i \in DOMAIN root, root[i] = n PROVE Spared(n)
  <2>1. Len(root) \in Nat /\ i \in 1 .. Len(root) /\ Len(root) <= Room(Root)
    BY <1>6 DEF Listing
  <2>2. i - 1 \in Nat /\ i - 1 < Len(root) /\ (i - 1) + 1 = i
    BY <2>1
  <2>3. Room(Root) \in Int
    <3>1. RootSecs * EntPerSec \in Int
      BY KFatSizes
    <3> QED BY <3>1 DEF Room
  <2>4. i - 1 \in 0 .. (Room(Root) - 1)
    BY <2>1, <2>2, <2>3
  <2>5. i - 1 \in Visits(Root)
    BY <2>4 DEF Visits
  <2>6. List(Root) = root
    BY DEF List
  <2>7. NameAt(Root, i - 1) = n
    BY <1>5, <1>10, <1>12, <1>16, <2>2, <2>5, <2>6 DEF NameAt
  <2> QED BY <1>4, <2>5, <2>7 DEF Spared
<1>17. Spared("d") /\ Spared("f")
  <2>1. \E i, j \in DOMAIN root : root[i] = "d" /\ root[j] = "f"
    BY KFatAssumption
  <2> QED BY <1>16, <2>1
<1>18. raced \in BOOLEAN
  BY <1>4
<1> QED BY <1>13, <1>14, <1>15, <1>17, <1>18 DEF KFatInv

\* Only the steps of fobj_create touch a directory.
LEMMA KFatStep == KFatInv /\ [KFatNext]_kfatvars => KFatInv'
<1> SUFFICES ASSUME KFatInv, [KFatNext]_kfatvars PROVE KFatInv'
  OBVIOUS
<1>1. ASSUME UNCHANGED <<next, ent, creating, raced>> PROVE KFatInv'
  <2>1. \A g, j : Visits(g)' = Visits(g) /\ NameAt(g, j)' = NameAt(g, j)
    BY <1>1 DEF Visits, Walk, NameAt
  <2>2. EntriesOK'
    BY <1>1, <2>1 DEF KFatInv, EntriesOK
  <2>3. CreatingOK'
    BY <1>1, <2>1 DEF KFatInv, CreatingOK, CreatedIn
  <2>4. \A g \in DOMAIN ent' : Packed(g)' /\ (raced' \/ Unique(g)')
    BY <1>1, <2>1 DEF KFatInv, Packed, Unique
  <2>5. Spared("d")' /\ Spared("f")'
    BY <1>1, <2>1 DEF KFatInv, Spared
  <2> QED BY <1>1, <2>2, <2>3, <2>4, <2>5 DEF KFatInv
<1>2. ASSUME NEW t \in Caller, NEW n \in NewName,
             fobj_create(t, <<n>>) \/ fobj_create(t, <<"d", n>>)
      PROVE  KFatInv'
  <2>1. Name(<<n>>) = n /\ Name(<<"d", n>>) = n
    BY DEF Name
  <2> QED BY <1>2, <2>1, CreateStep
<1>3. ASSUME NEW t \in Caller, fobj_create_write(t) PROVE KFatInv'
  BY <1>3, WriteStep
<1>4. ASSUME NEW path \in Paths, NEW writes \in BOOLEAN, fat_ino_get(path, writes)
      PROVE  KFatInv'
  BY <1>1, <1>4 DEF fat_ino_get
<1>5. ASSUME NEW path \in Paths, Stumbles(path) PROVE KFatInv'
  BY <1>1, <1>5 DEF Stumbles
<1>6. ASSUME fat_stat PROVE KFatInv'
  BY <1>1, <1>6 DEF fat_stat
<1>7. ASSUME NEW off, NEW size, fat_read(off, size) PROVE KFatInv'
  BY <1>1, <1>7 DEF fat_read
<1>8. CASE UNCHANGED kfatvars
  BY <1>1, <1>8 DEF kfatvars
<1> QED BY <1>2, <1>3, <1>4, <1>5, <1>6, <1>7, <1>8 DEF KFatNext

\* The invariant says what is claimed of the directories.
LEMMA KFatSound == KFatInv => DirectoriesSound
<1> SUFFICES ASSUME KFatInv PROVE DirectoriesSound
  OBVIOUS
<1>1. ASSUME NEW n \in OldName, Spared(n) PROVE dir_find_ent(Root, n) # NoEnt
  <2>1. PICK k \in Visits(Root) : NameAt(Root, k) = n
    BY <1>1 DEF Spared
  <2>2. n # EndMark /\ Root \in DOMAIN ent /\ EntriesOK /\ Packed(Root)
    BY KFatNames DEF KFatInv, EntriesOK
  <2> QED BY <2>1, <2>2, ThereFound
<1>2. dir_find_ent(Root, "d") # NoEnt /\ dir_find_ent(Root, "f") # NoEnt
  BY <1>1, KFatNames DEF KFatInv
<1> QED BY <1>2 DEF KFatInv, DirectoriesSound

\* Among any number of tasks that look names up, read files and create them
\* at once, each in two steps between which the others go on: no entry comes
\* behind an end mark, the files that were there are still found, and until
\* one task has written over what another has created no name is twice in a
\* directory (fat/fileobj.c, fat/dir.c).
THEOREM DirectoriesStaySound == KFatSpec => []DirectoriesSound
<1>1. KFatInit => KFatInv
  BY DirsStart DEF KFatInit
<1>2. KFatSpec => []KFatInv
  BY <1>1, KFatStep, PTL DEF KFatSpec
<1> QED BY <1>2, KFatSound, PTL
-----------------------------------------------------------------------------
(***************************************************************************)
(* Reading a file of the kernel                                            *)
(***************************************************************************)

\* Quotient and remainder are the only ones there are.
LEMMA DivIs ==
    ASSUME NEW b \in Nat \ {0}, NEW q \in Nat, NEW r \in 0 .. (b - 1), NEW x,
           x = q * b + r
    PROVE  x \div b = q /\ x % b = r
OBVIOUS

\* Every number has them.
LEMMA DivThere ==
    ASSUME NEW b \in Nat \ {0}, NEW x \in Nat
    PROVE  /\ x \div b \in Nat /\ (x % b) \in 0 .. (b - 1)
           /\ x = (x \div b) * b + (x % b)
OBVIOUS
\* Position x is in the c-th cluster of its file, in the n-th sector of that,
\* at place o.
Digits(x, c, n, o) ==
    /\ c \in Nat /\ n \in 0 .. (SecPerClus - 1) /\ o \in 0 .. (SecSize - 1)
    /\ x = (c * SecPerClus + n) * SecSize + o

\* Products as the provers take them.
LEMMA ClusIs ==
    ASSUME NEW c \in Nat, NEW n \in Nat
    PROVE  /\ c * ClusBytes = (c * SecPerClus) * SecSize
           /\ (c * SecPerClus + n) * SecSize = c * ClusBytes + n * SecSize
<1>1. SecSize \in Nat /\ SecPerClus \in Nat
  BY KFatSizes
<1>2. c * (SecSize * SecPerClus) = (c * SecPerClus) * SecSize
  BY <1>1
<1>3. (c * SecPerClus + n) * SecSize = (c * SecPerClus) * SecSize + n * SecSize
  BY <1>1
<1> QED
  BY <1>2, <1>3 DEF ClusBytes

LEMMA DigitsAre ==
    ASSUME NEW x, NEW c, NEW n, NEW o, Digits(x, c, n, o)
    PROVE  /\ x \in Nat /\ x \div ClusBytes = c
           /\ (x % ClusBytes) \div SecSize = n /\ x % SecSize = o
<1>1. /\ SecSize \in Nat \ {0} /\ SecPerClus \in Nat \ {0}
      /\ c \in Nat /\ n \in Nat /\ n <= SecPerClus - 1
      /\ o \in Nat /\ o <= SecSize - 1 /\ o \in 0 .. (SecSize - 1)
  BY KFatSizes DEF Digits
<1>2. PICK b \in Nat \ {0} : b = ClusBytes
  BY <1>1 DEF ClusBytes
<1>3. PICK r \in Nat : r = n * SecSize + o
  BY <1>1
<1>4. x = c * b + r
  BY <1>1, <1>2, <1>3, ClusIs DEF Digits
<1>5. r \in 0 .. (b - 1)
  <2>1. PICK k \in Nat : SecPerClus = n + 1 + k
    <3>1. SecPerClus - n - 1 \in Nat /\ SecPerClus = n + 1 + (SecPerClus - n - 1)
      BY <1>1
    <3> QED
      BY <3>1
  <2>2. SecSize * (n + 1 + k) = n * SecSize + SecSize + k * SecSize
    BY <1>1
  <2>3. PICK u \in Nat : u = k * SecSize
    BY <1>1
  <2>4. PICK v \in Nat : v = n * SecSize
    BY <1>1
  <2>5. b = v + SecSize + u
    BY <1>2, <2>1, <2>2, <2>3, <2>4 DEF ClusBytes
  <2> QED
    BY <1>1, <1>3, <2>3, <2>4, <2>5
<1>6. x \in Nat
  <2>1. PICK a \in Nat : a = c * b
    BY <1>1, <1>2
  <2> QED
    BY <1>3, <1>4, <2>1
<1>7. x \div b = c /\ x % b = r
  BY <1>1, <1>4, <1>5, DivIs
<1>8. r \div SecSize = n
  BY <1>1, <1>3, DivIs
<1>9. x % SecSize = o
  <2>1. PICK q \in Nat : q = c * SecPerClus + n
    BY <1>1
  <2>2. x = q * SecSize + o
    BY <2>1 DEF Digits
  <2> QED
    BY <1>1, <2>2, DivIs
<1> QED
  BY <1>2, <1>6, <1>7, <1>8, <1>9

LEMMA DigitsThere ==
    ASSUME NEW x \in Nat
    PROVE  \E c, n, o : Digits(x, c, n, o)
<1>1. SecSize \in Nat \ {0} /\ SecPerClus \in Nat \ {0}
  BY KFatSizes
<1>2. PICK q \in Nat, o \in 0 .. (SecSize - 1) : x = q * SecSize + o
  BY <1>1, DivThere
<1>3. PICK c \in Nat, n \in 0 .. (SecPerClus - 1) : q = c * SecPerClus + n
  BY <1>1, <1>2, DivThere
<1> QED
  BY <1>2, <1>3 DEF Digits
-----------------------------------------------------------------------------
\* The FAT has a next cluster, or the end, for every cluster.
FatOK == next \in [FileClus \cup DirClus -> Link]

\* A step along a chain, past whose end it stays at the end.
StepFrom(x) == IF x = EOF THEN EOF ELSE next[x]

\* One cluster more is one step more.
LEMMA WalkIs ==
    ASSUME FatOK, NEW c \in Link
    PROVE  /\ Walk(c, 0) = c
           /\ \A k \in Nat : /\ Walk(c, k) \in Link
                             /\ Walk(c, k + 1) = StepFrom(Walk(c, k))
<1> DEFINE g == [x \in Link |-> StepFrom(x)]
<1>1. g \in [Link -> Link]
  BY DEF FatOK, StepFrom, Link
<1>2. \A x \in Link : g[x] = StepFrom(x)
  OBVIOUS
<1> HIDE DEF g
<1>3. PICK f : Endless(f, g, c, Link)
  BY <1>1, EndlessWalk
<1>7. f \in [Nat -> Link] /\ \A n \in Nat : Walks(f, g, c, n)
  BY <1>3 DEF Endless
<1>4. ASSUME NEW k \in Nat PROVE Walk(c, k) = f[k]
  <2> DEFINE To(w) == [i \in 0 .. k |-> IF i = 0 THEN c ELSE StepFrom(w[i - 1])]
             W == CHOOSE w : w = To(w)
  <2>1. Walk(c, k) = W[k]
    BY DEF Walk, StepFrom
  <2>2. PICK h : h = [i \in 0 .. k |-> f[i]]
    OBVIOUS
  <2>3. h = To(h)
    <3>1. ASSUME NEW i \in 0 .. k
          PROVE  f[i] = IF i = 0 THEN c ELSE StepFrom(h[i - 1])
      <4>1. CASE i = 0
        BY <1>7, <4>1 DEF Walks
      <4>2. CASE i # 0
        <5>1. i \in 1 .. k /\ i - 1 \in 0 .. k /\ i - 1 \in Nat
          BY <4>2
        <5>2. f[i] = g[f[i - 1]] /\ h[i - 1] = f[i - 1] /\ f[i - 1] \in Link
          BY <1>7, <2>2, <5>1 DEF Walks
        <5> QED
          BY <1>2, <4>2, <5>2
      <4> QED
        BY <4>1, <4>2
    <3> QED
      BY <2>2, <3>1
  <2>4. PICK w : w = To(w) /\ Walk(c, k) = w[k]
    BY <2>1, <2>3
  <2>5. w[0] = c /\ \A i \in 1 .. k : w[i] = StepFrom(w[i - 1])
    BY <2>4
  <2>6. Follows(w, g, c, Link, k)
    BY <1>2, <2>5 DEF Follows
  <2>7. Same(w, f, k)
    BY <1>3, <2>6, FollowsWalk
  <2> QED
    BY <2>4, <2>7 DEF Same
<1>5. ASSUME NEW k \in Nat PROVE f[k + 1] = StepFrom(f[k])
  <2>1. k + 1 \in 1 .. (k + 1) /\ (k + 1) - 1 = k /\ f[k] \in Link
    BY <1>7
  <2> QED
    BY <1>2, <1>7, <2>1 DEF Walks
<1>6. f[0] = c
  BY <1>7 DEF Walks
<1> QED
  BY <1>4, <1>5, <1>6, <1>7
\* What the loop of fat_read works on.
Byte == [sec : [of : Link, n : Nat], k : Nat]
Reading == [ci : Link, n : Nat, secleft : Int, off : Nat, size : Nat, bytes : Seq(Byte)]

\* The cluster and the sector of position x are at hand.
AtHand(r, e, x) ==
    \E c, n, o : /\ Digits(x, c, n, o)
                 /\ r.ci = Walk(e.cluster0, c) /\ r.n = n
                 /\ r.secleft = SecPerClus - n

\* Of size bytes from position x on, the loop has some and knows where the
\* next ones are.
Reads(r, e, x, size) ==
    /\ r \in Reading /\ Len(r.bytes) + r.size = size
    /\ \A j \in 1 .. Len(r.bytes) : r.bytes[j] = ByteAt(e, x + j - 1)
    /\ r.off + (x \div ClusBytes) * ClusBytes = x + Len(r.bytes)
    /\ r.size > 0 => AtHand(r, e, x + Len(r.bytes))

\* The byte at a position with given digits.
LEMMA ByteIs ==
    ASSUME NEW e, NEW x, NEW c, NEW n, NEW o, Digits(x, c, n, o)
    PROVE  ByteAt(e, x) = [sec |-> Sec(Walk(e.cluster0, c), n), k |-> o]
BY DigitsAre DEF ByteAt

\* The remainder that fat_read takes of its offset is that of the position.
LEMMA OffsetDigit ==
    ASSUME NEW x, NEW c, NEW n, NEW o, Digits(x, c, n, o),
           NEW k \in Nat, NEW y \in Nat, y + k * ClusBytes = x
    PROVE  y % SecSize = o
<1>1. SecSize \in Nat \ {0} /\ SecPerClus \in Nat
  BY KFatSizes
<1>2. PICK q \in Nat, p \in 0 .. (SecSize - 1) : y = q * SecSize + p /\ y % SecSize = p
  BY <1>1, DivThere
<1>3. PICK a \in Nat : a = k * SecPerClus
  BY <1>1
<1>4. k * ClusBytes = a * SecSize
  BY <1>3, ClusIs
<1>5. x = (q + a) * SecSize + p
  <2>1. (q + a) * SecSize = q * SecSize + a * SecSize
    BY <1>1
  <2>2. PICK u \in Nat : u = q * SecSize
    BY <1>1
  <2>3. PICK v \in Nat : v = a * SecSize
    BY <1>1
  <2> QED
    BY <1>2, <1>4, <2>1, <2>2, <2>3
<1>6. x % SecSize = p
  <2>1. PICK w \in Nat : w = q + a
    BY <1>2, <1>3
  <2>2. x = w * SecSize + p
    BY <1>5, <2>1
  <2> QED
    BY <1>1, <2>2, DivIs
<1>7. x % SecSize = o
  BY DigitsAre
<1> QED
  BY <1>2, <1>6, <1>7

\* The place after the end of a sector.
LEMMA NextSector ==
    ASSUME NEW x, NEW c, NEW n, NEW o, Digits(x, c, n, o)
    PROVE  IF n = SecPerClus - 1 THEN Digits(x + (SecSize - o), c + 1, 0, 0)
           ELSE Digits(x + (SecSize - o), c, n + 1, 0)
<1>1. /\ SecSize \in Nat \ {0} /\ SecPerClus \in Nat \ {0} /\ c \in Nat
      /\ n \in 0 .. (SecPerClus - 1) /\ o \in 0 .. (SecSize - 1) /\ n \in Nat
  BY KFatSizes DEF Digits
<1>2. PICK q \in Nat : q = c * SecPerClus
  BY <1>1
<1>3. x = (q + n) * SecSize + o
  BY <1>2 DEF Digits
<1>4. PICK u \in Nat : u = (q + n) * SecSize
  BY <1>1
<1>5. x + (SecSize - o) = u + SecSize
  BY <1>1, <1>3, <1>4
<1>6. ((q + n) + 1) * SecSize = (q + n) * SecSize + SecSize
  BY <1>1
<1>7. x + (SecSize - o) = ((q + n) + 1) * SecSize
  BY <1>4, <1>5, <1>6
<1>8. CASE n = SecPerClus - 1
  <2>1. (c + 1) * SecPerClus = c * SecPerClus + SecPerClus
    BY <1>1
  <2>2. (c + 1) * SecPerClus = q + SecPerClus
    BY <1>2, <2>1
  <2>3. (c + 1) * SecPerClus + 0 = (q + n) + 1
    BY <1>1, <1>8, <2>2
  <2>4. x + (SecSize - o) = ((c + 1) * SecPerClus + 0) * SecSize + 0
    <3>1. PICK v \in Nat : v = ((q + n) + 1) * SecSize
      BY <1>1
    <3> QED
      BY <1>7, <2>3, <3>1
  <2>5. c + 1 \in Nat /\ 0 \in 0 .. (SecPerClus - 1) /\ 0 \in 0 .. (SecSize - 1)
    BY <1>1
  <2> QED
    BY <1>8, <2>4, <2>5 DEF Digits
<1>9. CASE n # SecPerClus - 1
  <2>1. c * SecPerClus + (n + 1) = (q + n) + 1
    BY <1>1, <1>2
  <2>2. x + (SecSize - o) = (c * SecPerClus + (n + 1)) * SecSize + 0
    <3>1. PICK v \in Nat : v = ((q + n) + 1) * SecSize
      BY <1>1
    <3> QED
      BY <1>7, <2>1, <3>1
  <2>3. n + 1 \in 0 .. (SecPerClus - 1) /\ 0 \in 0 .. (SecSize - 1)
    BY <1>1, <1>9
  <2> QED
    BY <1>1, <1>9, <2>2, <2>3 DEF Digits
<1> QED
  BY <1>8, <1>9
\* A turn of the loop takes what is left of the sector, or of the request.
LEMMA TurnReads ==
    ASSUME FatOK, NEW e, e.cluster0 \in Link, NEW x \in Nat, NEW size \in Nat,
           NEW r, Reads(r, e, x, size), r.size > 0
    PROVE  Reads(Turn(r), e, x, size) /\ Turn(r).size < r.size
<1>1. /\ r \in Reading /\ r.ci \in Link /\ r.n \in Nat /\ r.secleft \in Int
      /\ r.off \in Nat /\ r.size \in Nat /\ r.bytes \in Seq(Byte)
  BY DEF Reads, Reading
<1>2. PICK d \in Nat : d = Len(r.bytes)
  BY <1>1
<1>3. PICK c, n, o : /\ Digits(x + d, c, n, o)
                     /\ r.ci = Walk(e.cluster0, c) /\ r.n = n
                     /\ r.secleft = SecPerClus - n
  BY <1>2 DEF Reads, AtHand
<1>4. /\ SecSize \in Nat \ {0} /\ SecPerClus \in Nat \ {0} /\ c \in Nat
      /\ n \in 0 .. (SecPerClus - 1) /\ o \in 0 .. (SecSize - 1)
  BY <1>3, KFatSizes DEF Digits
<1>5. r.off % SecSize = o
  <2>1. PICK k \in Nat : k = x \div ClusBytes
    <3>1. ClusBytes \in Nat \ {0}
      BY <1>4 DEF ClusBytes
    <3> QED
      BY <3>1, DivThere
  <2>2. r.off + k * ClusBytes = x + d
    BY <1>2, <2>1 DEF Reads
  <2> QED
    BY <1>1, <1>3, <2>2, OffsetDigit
<1>6. PICK len : len = Lower(SecSize - o, r.size)
  OBVIOUS
<1>7. PICK rest \in Nat : rest = r.size /\ rest > 0
  BY <1>1
<1>22. len \in Nat /\ len > 0 /\ len <= rest /\ len <= SecSize - o
  BY <1>4, <1>6, <1>7 DEF Lower
<1>23. len = rest \/ len = SecSize - o
  BY <1>6, <1>7 DEF Lower
<1>24. o \in Nat /\ n \in Nat /\ SecSize \in Nat /\ SecPerClus \in Nat
  BY <1>4
<1>8. PICK t : t = [k \in 1 .. len |-> [sec |-> Sec(r.ci, r.n), k |-> o + k - 1]]
  OBVIOUS
<1>9. t \in Seq(Byte) /\ Len(t) = len
  <2>1. \A k \in 1 .. len : [sec |-> Sec(r.ci, r.n), k |-> o + k - 1] \in Byte
    BY <1>1, <1>22, <1>24 DEF Byte, Sec
  <2>2. t \in [1 .. len -> Byte]
    BY <1>8, <2>1
  <2> QED
    BY <1>22, <2>2
<1>10. \A k \in 1 .. len : t[k] = ByteAt(e, x + d + k - 1)
  <2> SUFFICES ASSUME NEW k \in 1 .. len PROVE t[k] = ByteAt(e, x + d + k - 1)
    OBVIOUS
  <2>1. o + k - 1 \in 0 .. (SecSize - 1)
    BY <1>22, <1>24
  <2>2. PICK u \in Nat : u = (c * SecPerClus + n) * SecSize
    BY <1>4
  <2>3. x + d + k - 1 = u + (o + k - 1)
    BY <1>3, <1>22, <1>24, <2>2 DEF Digits
  <2>4. Digits(x + d + k - 1, c, n, o + k - 1)
    BY <1>4, <2>1, <2>2, <2>3 DEF Digits
  <2> QED
    BY <1>3, <1>8, <2>4, ByteIs
<1>11. PICK s : s = Turn(r)
  OBVIOUS
<1>14. PICK b : b = r.bytes \o t
  OBVIOUS
<1>25. r.size # 0
  BY <1>7
<1>13. s = [ci |-> IF n = SecPerClus - 1 THEN StepFrom(r.ci) ELSE r.ci,
            n |-> IF n = SecPerClus - 1 THEN 0 ELSE n + 1,
            secleft |-> IF n = SecPerClus - 1 THEN SecPerClus ELSE (SecPerClus - n) - 1,
            off |-> r.off + len, size |-> r.size - len, bytes |-> b]
  <2>1. r.secleft = 1 <=> n = SecPerClus - 1
    BY <1>3, <1>24
  <2> QED
    BY <1>3, <1>5, <1>6, <1>8, <1>11, <1>14, <1>25, <2>1 DEF Turn, StepFrom
<1>15. /\ b \in Seq(Byte) /\ Len(b) = d + len
       /\ \A j \in 1 .. Len(b) : b[j] = IF j <= d THEN r.bytes[j] ELSE t[j - d]
  <2>1. PICK a \in Seq(Byte) : a = r.bytes
    BY <1>1
  <2>2. /\ b \in Seq(Byte) /\ Len(b) = Len(a) + Len(t)
        /\ \A j \in 1 .. Len(a) + Len(t) : b[j] = IF j <= Len(a) THEN a[j] ELSE t[j - Len(a)]
    BY <1>9, <1>14, <2>1, ConcatProperties
  <2>3. Len(a) = d /\ Len(t) = len
    BY <1>2, <1>9, <2>1
  <2> QED
    BY <2>1, <2>2, <2>3
<1>26. Len(b) \in Nat /\ Len(b) = d + len
  BY <1>15, <1>22
<1>16. s \in Reading
  <2>1. StepFrom(r.ci) \in Link
    BY <1>1 DEF FatOK, StepFrom, Link
  <2>4. n + 1 \in Nat /\ (SecPerClus - n) - 1 \in Int /\ SecPerClus \in Int
    BY <1>24
  <2>2. /\ (IF n = SecPerClus - 1 THEN StepFrom(r.ci) ELSE r.ci) \in Link
        /\ (IF n = SecPerClus - 1 THEN 0 ELSE n + 1) \in Nat
        /\ (IF n = SecPerClus - 1 THEN SecPerClus ELSE (SecPerClus - n) - 1) \in Int
    BY <1>1, <2>1, <2>4
  <2>5. r.off \in Nat
    BY <1>1
  <2>6. r.off + len \in Nat
    BY <1>22, <2>5
  <2>7. r.size - len \in Nat
    BY <1>7, <1>22
  <2>3. r.off + len \in Nat /\ r.size - len \in Nat /\ b \in Seq(Byte)
    BY <1>15, <2>6, <2>7
  <2> QED
    BY <1>13, <2>2, <2>3 DEF Reading
<1>17. s.bytes = b /\ s.size = rest - len /\ s.off = r.off + len
  BY <1>7, <1>13
<1>18. \A j \in 1 .. Len(b) : b[j] = ByteAt(e, x + j - 1)
  <2> SUFFICES ASSUME NEW j \in 1 .. Len(b) PROVE b[j] = ByteAt(e, x + j - 1)
    OBVIOUS
  <2>1. CASE j <= d
    <3>1. j \in 1 .. Len(r.bytes) /\ b[j] = r.bytes[j]
      BY <1>2, <1>15, <1>26, <2>1
    <3> QED
      BY <3>1 DEF Reads
  <2>2. CASE ~ j <= d
    <3>1. j - d \in 1 .. len /\ x + d + (j - d) - 1 = x + j - 1
      BY <1>22, <1>26, <2>2
    <3> QED
      BY <1>10, <1>15, <2>2, <3>1
  <2> QED
    BY <2>1, <2>2
<1>19. s.off + (x \div ClusBytes) * ClusBytes = x + Len(b)
  <2>1. PICK m : m = (x \div ClusBytes) * ClusBytes
    OBVIOUS
  <2>2. m \in Int
    <3>1. ClusBytes \in Nat \ {0}
      BY <1>4 DEF ClusBytes
    <3>2. x \div ClusBytes \in Nat
      BY <3>1, DivThere
    <3> QED
      BY <2>1, <3>1, <3>2
  <2>3. r.off + m = x + d
    BY <1>2, <2>1 DEF Reads
  <2>4. PICK y \in Nat : y = r.off
    BY <1>1
  <2>6. s.off + m = (y + len) + m
    BY <1>17, <2>4
  <2>5. y + m = x + d
    BY <2>3, <2>4, Zenon
  <2>7. (y + len) + m = x + (d + len)
    BY <1>22, <2>2, <2>5
  <2> QED
    BY <1>26, <2>1, <2>6, <2>7
<1>20. ASSUME s.size > 0 PROVE AtHand(s, e, x + Len(b))
  <2>1. len = SecSize - o
    BY <1>17, <1>20, <1>22, <1>23
  <2>2. x + Len(b) = x + d + (SecSize - o)
    BY <1>24, <1>26, <2>1
  <2>3. CASE n = SecPerClus - 1
    <3>1. Digits(x + Len(b), c + 1, 0, 0)
      BY <1>3, <2>2, <2>3, NextSector
    <3>3. Walk(e.cluster0, c + 1) = StepFrom(r.ci)
      BY <1>3, <1>4, WalkIs
    <3>4. s.ci = Walk(e.cluster0, c + 1) /\ s.n = 0 /\ s.secleft = SecPerClus - 0
      BY <1>24, <1>13, <2>3, <3>3
    <3> QED
      BY <3>1, <3>4 DEF AtHand
  <2>4. CASE n # SecPerClus - 1
    <3>1. Digits(x + Len(b), c, n + 1, 0)
      BY <1>3, <2>2, <2>4, NextSector
    <3>3. s.ci = Walk(e.cluster0, c) /\ s.n = n + 1 /\ s.secleft = SecPerClus - (n + 1)
      BY <1>3, <1>13, <1>24, <2>4
    <3> QED
      BY <3>1, <3>3 DEF AtHand
  <2> QED
    BY <2>3, <2>4
<1>21. Len(b) + s.size = size /\ s.size < r.size
  <2>1. d + rest = size
    BY <1>2, <1>7 DEF Reads
  <2> QED
    BY <1>7, <1>17, <1>22, <1>26, <2>1
<1> QED
  BY <1>11, <1>16, <1>17, <1>18, <1>19, <1>20, <1>21 DEF Reads
\* R is the loop from r0.
Turns(R, r0) == R = [i \in 0 .. MaxSize |-> IF i = 0 THEN r0 ELSE Turn(R[i - 1])]

\* After MaxSize turns, all the bytes asked for are there.
LEMMA TurnsRead ==
    ASSUME FatOK, NEW e, e.cluster0 \in Link, NEW x \in Nat,
           NEW size \in 0 .. MaxSize, NEW r0, Reads(r0, e, x, size), NEW R,
           Turns(R, r0)
    PROVE  Reads(R[MaxSize], e, x, size) /\ R[MaxSize].size = 0
<1>1. MaxSize \in Nat /\ size \in Nat
  BY KFatAssumption
<1> DEFINE Good(i) == /\ Reads(R[i], e, x, size)
                      /\ R[i].size = 0 \/ R[i].size + i <= size
           D == {i \in 0 .. MaxSize : ~ Good(i)}
<1>2. R[0] = r0 /\ \A i \in 1 .. MaxSize : R[i] = Turn(R[i - 1])
  BY <1>1 DEF Turns
<1>3. D = {}
  <2> SUFFICES ASSUME D # {} PROVE FALSE
    OBVIOUS
  <2>1. D \subseteq Nat
    OBVIOUS
  <2>2. PICK i \in D : \A j \in D : i <= j
    BY <2>1, LeastElement
  <2>3. i \in 0 .. MaxSize /\ ~ Good(i)
    BY <2>2
  <2>4. CASE i = 0
    <3>1. r0.size \in Nat /\ Len(r0.bytes) \in Nat /\ Len(r0.bytes) + r0.size = size
      BY DEF Reads, Reading
    <3>2. R[0] = r0
      BY <1>2
    <3>3. r0.size + 0 <= size
      <4>1. PICK k \in Nat, l \in Nat : k = r0.size /\ l = Len(r0.bytes)
        BY <3>1
      <4> QED
        BY <3>1, <4>1
    <3>4. Good(0)
      BY <3>2, <3>3, Zenon
    <3> QED
      BY <2>3, <2>4, <3>4, Zenon
  <2>5. CASE i # 0
    <3>0. i \in 0 .. MaxSize
      BY <2>3, Zenon
    <3>1. i \in 1 .. MaxSize /\ i - 1 \in 0 .. MaxSize /\ ~ i <= i - 1
      <4> HIDE DEF Good, D
      <4>1. PICK j \in 0 .. MaxSize : j = i
        BY <3>0
      <4>2. j \in 1 .. MaxSize /\ j - 1 \in 0 .. MaxSize /\ ~ j <= j - 1
        BY <1>1, <2>5, <4>1
      <4> QED
        BY <4>1, <4>2
    <3>2. Good(i - 1)
      <4> HIDE DEF Good
      <4>1. i - 1 \in D => i <= i - 1
        BY <2>2, Zenon
      <4> QED
        BY <3>1, <4>1
    <3>3. PICK r : r = R[i - 1]
      OBVIOUS
    <3>4. R[i] = Turn(r) /\ Reads(r, e, x, size)
      BY <1>2, <3>1, <3>2, <3>3
    <3>5. PICK k \in Nat : k = r.size
      BY <3>4 DEF Reads, Reading
    <3>6. k = 0 \/ k + (i - 1) <= size
      BY <3>2, <3>3, <3>5
    <3>7. CASE k = 0
      BY <2>3, <3>4, <3>5, <3>7 DEF Turn
    <3>8. CASE k # 0
      <4>1. r.size > 0
        BY <3>5, <3>8
      <4>2. Reads(Turn(r), e, x, size) /\ Turn(r).size < k
        BY <1>1, <3>4, <3>5, <4>1, TurnReads
      <4>3. PICK m \in Nat : m = Turn(r).size
        BY <4>2 DEF Reads, Reading
      <4>4. m + i <= size
        BY <1>1, <2>3, <3>6, <3>8, <4>2, <4>3
      <4> QED
        BY <2>3, <3>4, <4>2, <4>3, <4>4
    <3> QED
      BY <3>7, <3>8
  <2> QED
    BY <2>4, <2>5
<1>4. Good(MaxSize)
  <2> HIDE DEF Good
  <2>1. MaxSize \in 0 .. MaxSize
    BY <1>1
  <2> QED
    BY <1>3, <2>1, Zenon
<1>5. R[MaxSize].size \in Nat
  BY <1>4 DEF Reads, Reading
<1> QED
  BY <1>1, <1>4, <1>5

\* The turns of the loop can be taken.
LEMMA TurnsThere ==
    ASSUME FatOK, NEW e, e.cluster0 \in Link, NEW x \in Nat,
           NEW size \in 0 .. MaxSize, NEW r0, Reads(r0, e, x, size)
    PROVE  \E R : Turns(R, r0)
<1>1. MaxSize \in Nat /\ size \in Nat
  BY KFatAssumption
<1>2. PICK S : S = {r \in Reading : Reads(r, e, x, size)}
  OBVIOUS
<1>3. r0 \in S
  BY <1>2 DEF Reads
<1>4. PICK g : g = [r \in S |-> Turn(r)]
  OBVIOUS
<1>5. ASSUME NEW r \in S PROVE Turn(r) \in S
  <2>1. Reads(r, e, x, size) /\ r \in Reading
    BY <1>2
  <2>2. CASE r.size = 0
    BY <2>2 DEF Turn
  <2>3. CASE r.size # 0
    <3>1. r.size > 0
      BY <2>1, <2>3 DEF Reading
    <3>2. Reads(Turn(r), e, x, size)
      BY <1>1, <2>1, <3>1, TurnReads
    <3> QED
      BY <1>2, <3>2 DEF Reads
  <2> QED
    BY <2>2, <2>3
<1>6. g \in [S -> S] /\ \A r \in S : g[r] = Turn(r)
  BY <1>4, <1>5
<1>7. PICK f \in [0 .. MaxSize -> S] : Walks(f, g, r0, MaxSize)
  BY <1>1, <1>3, <1>6, WalkOfLength
<1>8. ASSUME NEW i \in 0 .. MaxSize
      PROVE  f[i] = IF i = 0 THEN r0 ELSE Turn(f[i - 1])
  <2>1. CASE i = 0
    BY <1>7, <2>1 DEF Walks
  <2>2. CASE i # 0
    <3>1. i \in 1 .. MaxSize /\ i - 1 \in 0 .. MaxSize
      BY <1>1, <2>2
    <3> QED
      BY <1>6, <1>7, <2>2, <3>1 DEF Walks
  <2> QED
    BY <2>1, <2>2
<1>9. Turns(f, r0)
  BY <1>7, <1>8 DEF Turns
<1> QED
  BY <1>9

\* Behind the end a walk stays at the end.
LEMMA AfterEnd ==
    ASSUME FatOK, NEW c \in Link, NEW j \in Nat, NEW k \in Nat, j <= k,
           Walk(c, j) = EOF
    PROVE  Walk(c, k) = EOF
<1>1. PICK D : D = {i \in Nat : j <= i /\ Walk(c, i) # EOF}
  OBVIOUS
<1>2. D = {}
  <2> SUFFICES ASSUME D # {} PROVE FALSE
    OBVIOUS
  <2>1. PICK i \in D : \A m \in D : i <= m
    BY <1>1, LeastElement
  <2>2. i \in Nat /\ j <= i /\ Walk(c, i) # EOF
    BY <1>1
  <2>3. i # j
    BY <2>2
  <2>4. PICK m : m = i - 1
    OBVIOUS
  <2>5. m \in Nat /\ j <= m /\ m + 1 = i /\ ~ i <= m
    BY <2>2, <2>3, <2>4
  <2>6. Walk(c, m) = EOF
    BY <1>1, <2>1, <2>5
  <2>7. Walk(c, m + 1) = StepFrom(Walk(c, m))
    BY <2>5, WalkIs
  <2>8. Walk(c, i) = EOF
    BY <2>5, <2>6, <2>7 DEF StepFrom
  <2> QED BY <2>2, <2>8
<1> QED BY <1>1, <1>2

\* The cluster of an earlier place is no later one, and only the end of a
\* file that fills its last cluster is in the cluster behind that.
LEMMA ClusterOf ==
    ASSUME NEW b \in Nat \ {0}, NEW x \in Nat, NEW size \in Nat \ {0}
    PROVE  /\ x \div b \in Nat /\ (size - 1) \div b \in Nat
           /\ x < size => x \div b <= (size - 1) \div b
           /\ x <= size /\ ~ x \div b <= (size - 1) \div b => x = size /\ x % b = 0
<1>1. PICK a \in Nat, r \in 0 .. (b - 1) : x = a * b + r /\ x \div b = a /\ x % b = r
  BY DivThere
<1>2. PICK q \in Nat, s \in 0 .. (b - 1) : size - 1 = q * b + s /\ (size - 1) \div b = q
  <2>1. size - 1 \in Nat
    OBVIOUS
  <2> QED BY <2>1, DivThere
<1>3. ASSUME ~ a <= q PROVE x >= size /\ (x = size => r = 0)
  <2>1. PICK k \in Nat : a = q + 1 + k
    <3>1. a - q - 1 \in Nat /\ a = q + 1 + (a - q - 1)
      BY <1>3
    <3> QED BY <3>1
  <2>2. PICK u \in Nat : u = q * b
    OBVIOUS
  <2>3. PICK v \in Nat : v = k * b
    OBVIOUS
  <2>4. (q + 1 + k) * b = q * b + b + k * b
    OBVIOUS
  <2>5. a * b = u + b + v
    BY <2>1, <2>2, <2>3, <2>4
  <2>6. x = u + b + v + r
    BY <1>1, <2>5
  <2>7. size = u + s + 1
    BY <1>2, <2>2
  <2> QED BY <2>6, <2>7
<1> QED BY <1>1, <1>2, <1>3

\* fat_read delivers what it is asked for, as far as the file goes, and
\* fails at most at the end of a file that fills its last cluster.
LEMMA ReadDelivers ==
    ASSUME FatOK, NEW e \in EntRecord, NEW off \in Nat, NEW asked \in 1 .. MaxSize,
           off <= e.size, NEW result, result = Read(e, off, asked)
    PROVE  /\ Whole(e) => \/ result.rc = "ok"
                          \/ result.rc = "EIO" /\ off = e.size /\ off % ClusBytes = 0
           /\ result.rc = "ok" =>
                result.bytes = [i \in 1 .. Lower(asked, e.size - off) |-> ByteAt(e, off + i - 1)]
<1>2. e.cluster0 \in Link /\ e.size \in Int
  BY DEF EntRecord
<1>3. MaxSize \in Nat /\ asked \in Nat
  BY KFatAssumption
<1>4. off <= e.size /\ e.size \in Nat
  BY <1>2
<1>5. PICK size : size = IF off + asked > e.size THEN e.size - off ELSE asked
  OBVIOUS
<1>6. size \in 0 .. MaxSize /\ size = Lower(asked, e.size - off)
  BY <1>3, <1>4, <1>5 DEF Lower
<1>7. PICK c, n, o : Digits(off, c, n, o)
  BY DigitsThere
<1>8. /\ SecSize \in Nat \ {0} /\ SecPerClus \in Nat \ {0} /\ c \in Nat
      /\ n \in 0 .. (SecPerClus - 1) /\ o \in 0 .. (SecSize - 1)
  BY <1>7, KFatSizes DEF Digits
<1>9. PICK rest : rest = off - c * ClusBytes
  OBVIOUS
<1>10. rest \in Nat /\ rest = n * SecSize + o
  <2>1. PICK a \in Nat : a = n * SecSize
    BY <1>8
  <2>2. PICK b \in Nat : b = c * ClusBytes
    BY <1>8 DEF ClusBytes
  <2>3. off = b + a + o
    BY <1>7, <1>8, <2>1, <2>2, ClusIs DEF Digits
  <2> QED
    BY <1>8, <1>9, <2>1, <2>2, <2>3
<1>11. off \div ClusBytes = c /\ rest \div SecSize = n
  <2>1. off \div ClusBytes = c
    BY <1>7, DigitsAre
  <2>2. SecSize \in Nat \ {0} /\ n \in Nat /\ o \in 0 .. (SecSize - 1)
    BY <1>8
  <2>3. rest \div SecSize = n
    BY <1>10, <2>2, DivIs
  <2> QED
    BY <2>1, <2>3
<1>12. PICK r0 : r0 = [ci |-> Walk(e.cluster0, c), n |-> n, secleft |-> SecPerClus - n,
                       off |-> rest, size |-> size, bytes |-> <<>>]
  OBVIOUS
<1>13. Reads(r0, e, off, size)
  <2>1. Walk(e.cluster0, c) \in Link /\ n \in Nat /\ SecPerClus - n \in Int /\ size \in Nat
    BY <1>2, <1>6, <1>8, WalkIs
  <2>2. r0 \in Reading /\ r0.bytes = <<>> /\ r0.size = size /\ r0.off = rest
    BY <1>10, <1>12, <2>1 DEF Reading
  <2>3. Len(r0.bytes) = 0 /\ off + Len(r0.bytes) = off /\ Len(r0.bytes) + r0.size = size
    BY <2>1, <2>2
  <2>4. r0.off + (off \div ClusBytes) * ClusBytes = off
    <3>1. PICK b \in Nat : b = c * ClusBytes
      BY <1>8 DEF ClusBytes
    <3> QED
      BY <1>9, <1>11, <2>2, <3>1
  <2>5. AtHand(r0, e, off)
    BY <1>7, <1>12 DEF AtHand
  <2> QED
    BY <2>2, <2>3, <2>4, <2>5 DEF Reads
<1> DEFINE To(f) == [i \in 0 .. MaxSize |-> IF i = 0 THEN r0 ELSE Turn(f[i - 1])]
           R == CHOOSE f : f = To(f)
           Gone == c > 0 /\ Walk(e.cluster0, c) = EOF
<1>14. result = IF Gone THEN [rc |-> "EIO", bytes |-> <<>>]
                ELSE [rc |-> IF \E j \in DOMAIN R[MaxSize].bytes : R[MaxSize].bytes[j].sec.of = EOF
                             THEN "beyond" ELSE "ok",
                      bytes |-> R[MaxSize].bytes]
  <2> DEFINE cl == off \div ClusBytes
             left == off - cl * ClusBytes
             s0 == IF off + asked > e.size THEN e.size - off ELSE asked
             q0 == [ci |-> Walk(e.cluster0, cl), n |-> left \div SecSize,
                    secleft |-> SecLeft(left \div SecSize), off |-> left,
                    size |-> s0, bytes |-> <<>>]
             Ends(q, x) ==
                IF x > 0 /\ Walk(e.cluster0, x) = EOF THEN [rc |-> "EIO", bytes |-> <<>>]
                ELSE [rc |-> IF \E j \in DOMAIN q[MaxSize].bytes : q[MaxSize].bytes[j].sec.of = EOF
                             THEN "beyond" ELSE "ok",
                      bytes |-> q[MaxSize].bytes]
             Via(q) == CHOOSE f : f = [i \in 0 .. MaxSize |-> IF i = 0 THEN q ELSE Turn(f[i - 1])]
  <2>1. Read(e, off, asked) = Ends(Via(q0), cl)
    BY Zenon DEF Read
  <2>2. SecLeft(n) = SecPerClus - n
    BY DEF SecLeft
  <2>3. left = rest
    BY <1>9, <1>11
  <2>4. q0 = r0
    BY <1>5, <1>11, <1>12, <2>2, <2>3
  <2> HIDE DEF q0, cl, left
  <2>5. Read(e, off, asked) = Ends(Via(r0), c)
    BY <1>11, <2>1, <2>4 DEF cl
  <2> QED
    BY <2>5
<1>15. R = To(R)
  <2>1. PICK f : Turns(f, r0)
    BY <1>2, <1>6, <1>13, TurnsThere
  <2>2. f = To(f)
    BY <2>1 DEF Turns
  <2> QED
    BY <2>2
<1> HIDE DEF R, Gone
<1>16. Reads(R[MaxSize], e, off, size) /\ R[MaxSize].size = 0
  <2>1. PICK Q : Q = R
    OBVIOUS
  <2>2. Turns(Q, r0)
    BY <1>15, <2>1 DEF Turns
  <2> HIDE DEF To
  <2>3. Reads(Q[MaxSize], e, off, size) /\ Q[MaxSize].size = 0
    BY <1>2, <1>6, <1>13, <2>2, TurnsRead
  <2> QED
    BY <2>1, <2>3
<1> HIDE DEF To
<1>17. PICK b : b = R[MaxSize].bytes
  OBVIOUS
<1>18. /\ b \in Seq(Byte) /\ Len(b) = size
       /\ \A j \in 1 .. Len(b) : b[j] = ByteAt(e, off + j - 1)
  <2>1. PICK r : r = R[MaxSize]
    OBVIOUS
  <2>2. r \in Reading /\ r.bytes = b /\ Len(b) + r.size = size /\ r.size = 0
    BY <1>16, <1>17, <2>1 DEF Reads
  <2>3. b \in Seq(Byte) /\ Len(b) + 0 = size
    BY <2>2 DEF Reading
  <2>4. Len(b) = size
    BY <2>3
  <2>5. \A j \in 1 .. Len(b) : b[j] = ByteAt(e, off + j - 1)
    BY <1>16, <2>1, <2>2 DEF Reads
  <2> QED
    BY <2>3, <2>4, <2>5
<1>19. b = [j \in 1 .. size |-> ByteAt(e, off + j - 1)]
  BY <1>18
<1>20. result = IF Gone THEN [rc |-> "EIO", bytes |-> <<>>]
                ELSE [rc |-> IF \E j \in DOMAIN b : b[j].sec.of = EOF THEN "beyond" ELSE "ok",
                      bytes |-> b]
  BY <1>14, <1>17
<1>21. PICK B \in Nat \ {0} : B = ClusBytes
  BY <1>8 DEF ClusBytes
<1>22. ASSUME Whole(e), NEW x \in Nat, x < e.size PROVE Walk(e.cluster0, x \div B) # EOF
  <2>1. PICK q : q = (e.size - 1) \div B
    OBVIOUS
  <2>2. e.size \in Nat \ {0}
    BY <1>4, <1>22
  <2>3. q \in Nat /\ x \div B \in Nat /\ x \div B <= q
    BY <1>22, <2>1, <2>2, ClusterOf
  <2>4. Walk(e.cluster0, q) # EOF
    BY <1>21, <1>22, <2>1, <2>2 DEF Whole
  <2> QED
    BY <1>2, <2>3, <2>4, AfterEnd
<1>23. ASSUME Whole(e), Gone PROVE off = e.size /\ off % ClusBytes = 0
  <2>1. c > 0 /\ Walk(e.cluster0, c) = EOF
    BY <1>23 DEF Gone
  <2>2. off \div B = c
    BY <1>11, <1>21
  <2>3. off = e.size
    BY <1>4, <1>22, <1>23, <2>1, <2>2
  <2>4. e.size # 0
    <3> SUFFICES ASSUME e.size = 0 PROVE FALSE
      OBVIOUS
    <3>1. off = 0 * B + 0 /\ 0 \in 0 .. (B - 1)
      BY <2>3
    <3>2. off \div B = 0
      BY <3>1, DivIs
    <3> QED BY <1>8, <2>1, <2>2, <3>2
  <2>5. PICK q : q = (e.size - 1) \div B
    OBVIOUS
  <2>6. e.size \in Nat \ {0}
    BY <1>4, <2>4
  <2>7. q \in Nat /\ Walk(e.cluster0, q) # EOF
    BY <1>21, <1>23, <2>5, <2>6, ClusterOf DEF Whole
  <2>8. ~ c <= q
    BY <1>2, <1>8, <2>1, <2>7, AfterEnd
  <2>9. off % B = 0
    BY <1>4, <2>2, <2>5, <2>6, <2>8, ClusterOf
  <2> QED BY <1>21, <2>3, <2>9
<1>24. ASSUME Whole(e), NEW j \in DOMAIN b PROVE b[j].sec.of # EOF
  <2>1. j \in 1 .. size /\ b[j] = ByteAt(e, off + j - 1)
    BY <1>18, <1>24
  <2>2. size \in Int /\ size <= e.size - off /\ off \in Int
    BY <1>3, <1>4, <1>6 DEF Lower
  <2>3. off + j - 1 \in Nat /\ off + j - 1 < e.size
    BY <1>4, <2>1, <2>2
  <2>4. b[j].sec.of = Walk(e.cluster0, (off + j - 1) \div B)
    BY <1>21, <2>1 DEF ByteAt, Sec
  <2> QED
    BY <1>22, <1>24, <2>3, <2>4
<1>25. CASE Gone
  <2>1. result.rc = "EIO" /\ result.rc # "ok"
    BY <1>20, <1>25
  <2> QED BY <1>23, <1>25, <2>1
<1>26. CASE ~ Gone
  <2>1. /\ result.bytes = b
        /\ (\A j \in DOMAIN b : b[j].sec.of # EOF) => result.rc = "ok"
    BY <1>20, <1>26
  <2>2. Whole(e) => result.rc = "ok"
    BY <1>24, <2>1
  <2>3. result.bytes = [i \in 1 .. Lower(asked, e.size - off) |-> ByteAt(e, off + i - 1)]
    BY <1>6, <1>19, <2>1
  <2> QED BY <2>2, <2>3
<1> QED BY <1>25, <1>26
-----------------------------------------------------------------------------
(* The invariant of the reads                                              *)

\* What has been found, and what is being created, is an entry.
FoundOK == found \notin {NoEnt, Ino512} => IsPlace(found)
TargetsOK ==
    /\ creating = [t \in Caller |-> creating[t]]
    /\ \A t \in Caller : creating[t] # NoEnt =>
            /\ creating[t].name \in NewName
            /\ \E d \in DOMAIN ent : \E k \in Visits(d) : creating[t].at = EntOf(d, k)
ReadInv == EntriesOK /\ FatOK /\ FoundOK /\ TargetsOK /\ ReadsRight

\* The next cluster in a chain is one of its clusters.
LEMMA NextInIs ==
    ASSUME NEW C, IsFiniteSet(C), NEW c \in Chains(C), NEW x \in Inner(c)
    PROVE  NextIn(c, x) \in C
<1>1. Len(c) \in Nat /\ c \in [1 .. Len(c) -> C]
  BY ChainOf
<1>2. PICK j : j = CHOOSE i \in 1 .. (Len(c) - 1) : c[i] = x
  OBVIOUS
<1>3. j \in 1 .. (Len(c) - 1)
  BY <1>2 DEF Inner
<1>4. 1 + j \in 1 .. Len(c)
  BY <1>1, <1>3
<1> QED
  BY <1>1, <1>2, <1>4 DEF NextIn

\* The chains of the file and the directory are links.
LEMMA FatStart ==
    ASSUME NEW c \in Chains(FileClus), NEW dc \in Chains(DirClus), NEW last,
           NEW root, NEW sub, Starts(c, dc, last, root, sub)
    PROVE  FatOK
<1>1. next = [x \in FileClus \cup DirClus |->
                IF x \in Inner(c) THEN NextIn(c, x)
                ELSE IF x \in Inner(dc) THEN NextIn(dc, x) ELSE EOF]
  BY DEF Starts
<1>2. ASSUME NEW x PROVE /\ x \in Inner(c) => NextIn(c, x) \in FileClus
                         /\ x \in Inner(dc) => NextIn(dc, x) \in DirClus
  BY KFatSizes, NextInIs
<1> QED
  BY <1>1, <1>2 DEF FatOK, Link

LEMMA ReadStart == KFatInit => ReadInv
<1> SUFFICES ASSUME KFatInit PROVE ReadInv
  OBVIOUS
<1>1. PICK c \in Chains(FileClus), dc \in Chains(DirClus), last \in 1 .. ClusBytes,
           root \in RootLists, sub \in DirLists : Starts(c, dc, last, root, sub)
  BY DEF KFatInit
<1>2. EntriesOK
  BY <1>1, DirsStart DEF KFatInv
<1>3. FatOK
  BY <1>1, FatStart
<1>4. /\ creating = [t \in Caller |-> NoEnt] /\ found = NoEnt /\ was = NoRead
  BY <1>1 DEF Starts
<1>5. FoundOK /\ TargetsOK
  BY <1>4 DEF FoundOK, TargetsOK
<1>6. ReadsRight
  BY <1>4 DEF NoRead, ReadsRight
<1> QED
  BY <1>2, <1>3, <1>5, <1>6 DEF ReadInv

\* Where the directories stay as they are, entries stay entries.
LEMMA PlacesStay ==
    ASSUME ReadInv, UNCHANGED <<next, ent>>
    PROVE  EntriesOK' /\ FatOK' /\ \A p : IsPlace(p)' <=> IsPlace(p)
<1>1. \A d : Visits(d)' = Visits(d)
  BY DEF Visits, Walk
<1> QED
  BY <1>1 DEF ReadInv, EntriesOK, FatOK, IsPlace

\* What is being created stays.
LEMMA TargetsStay ==
    ASSUME ReadInv, UNCHANGED <<next, ent, creating>>
    PROVE  TargetsOK'
<1>1. \A d : Visits(d)' = Visits(d)
  BY DEF Visits, Walk
<1> QED
  BY <1>1 DEF ReadInv, TargetsOK

\* A path leads to an entry, or to none.
LEMMA PathIs ==
    ASSUME EntriesOK, NEW path, dir_find_path(path) # NoEnt
    PROVE  IsPlace(dir_find_path(path))
<1>1. Parent(path) # -1 /\ dir_find_path(path) = dir_find_ent(Parent(path), Name(path))
  BY DEF dir_find_path
<1>2. Parent(path) \in DOMAIN ent
  BY <1>1, ParentIs
<1> QED
  BY <1>1, <1>2, FoundThere

\* A look-up changes nothing but what is found.
LEMMA FindsEntry ==
    ASSUME ReadInv, NEW path, NEW writes,
           fat_ino_get(path, writes) \/ Stumbles(path) \/ fat_stat
    PROVE  ReadInv'
<1>1. UNCHANGED <<next, ent, creating>> /\ was' = NoRead
  BY DEF fat_ino_get, Stumbles, fat_stat
<1>2. PICK p : p = dir_find_path(path)
  OBVIOUS
<1>3. found' \in {p, NoEnt, Ino512, found}
  BY <1>2 DEF fat_ino_get, Stumbles, fat_stat
<1>4. p # NoEnt => IsPlace(p)
  BY <1>2, PathIs DEF ReadInv
<1>5. EntriesOK' /\ FatOK' /\ \A q : IsPlace(q)' <=> IsPlace(q)
  BY <1>1, PlacesStay
<1>6. FoundOK'
  <2>1. PICK q : q = found'
    OBVIOUS
  <2>2. q \notin {NoEnt, Ino512} => IsPlace(q)
    BY <1>3, <1>4, <2>1 DEF ReadInv, FoundOK
  <2>3. q \notin {NoEnt, Ino512} => IsPlace(q)'
    BY <1>5, <2>2
  <2> QED
    BY <2>1, <2>3 DEF FoundOK, IsPlace
<1>7. ReadsRight'
  BY <1>1 DEF ReadsRight, NoRead
<1>8. TargetsOK'
  BY <1>1, TargetsStay
<1> QED
  BY <1>5, <1>6, <1>7, <1>8 DEF ReadInv

\* A blank entry is found to be written.
LEMMA FindsBlank ==
    ASSUME ReadInv, NEW t \in Caller, NEW path, Name(path) \in NewName, fobj_create(t, path)
    PROVE  ReadInv'
<1>1. PICK d : d = Parent(path)
  OBVIOUS
<1>2. PICK c : c = [at |-> BlankEnt(d), name |-> Name(path)]
  OBVIOUS
<1>3. /\ d # -1 /\ BlankEnt(d) # NoEnt /\ creating' = [creating EXCEPT ![t] = c]
      /\ UNCHANGED <<next, ent, found>> /\ was' = NoRead
  BY <1>1, <1>2 DEF fobj_create
<1>4. d \in DOMAIN ent
  BY <1>1, <1>3, ParentIs DEF ReadInv
<1>5. PICK k \in Visits(d) : BlankEnt(d) = EntOf(d, k)
  BY <1>3, <1>4, BlankIs DEF ReadInv
<1>6. c.at = EntOf(d, k) /\ c.name \in NewName
  BY <1>2, <1>5
<1>7. \A g : Visits(g)' = Visits(g)
  BY <1>3 DEF Visits, Walk
<1>8. TargetsOK'
  <2>1. /\ creating' = [u \in Caller |-> creating'[u]]
        /\ \A u \in Caller : creating'[u] = IF u = t THEN c ELSE creating[u]
    BY <1>3 DEF ReadInv, TargetsOK
  <2>2. ASSUME NEW u \in Caller, creating'[u] # NoEnt
        PROVE  /\ creating'[u].name \in NewName
               /\ \E g \in DOMAIN ent : \E j \in Visits(g) : creating'[u].at = EntOf(g, j)
    <3>1. CASE u = t
      BY <1>4, <1>6, <2>1, <3>1
    <3>2. CASE u # t
      BY <2>1, <2>2, <3>2 DEF ReadInv, TargetsOK
    <3> QED
      BY <3>1, <3>2
  <2> QED
    BY <1>3, <1>7, <2>1, <2>2 DEF TargetsOK
<1>9. EntriesOK' /\ FatOK' /\ \A q : IsPlace(q)' <=> IsPlace(q)
  BY <1>3, PlacesStay
<1>10. FoundOK'
  BY <1>3, <1>7 DEF ReadInv, FoundOK, IsPlace
<1>11. ReadsRight'
  BY <1>3 DEF ReadsRight, NoRead
<1> QED
  BY <1>8, <1>9, <1>10, <1>11 DEF ReadInv

\* The entry is written.
LEMMA FillsBlank ==
    ASSUME ReadInv, NEW t \in Caller, fobj_create_write(t)
    PROVE  ReadInv'
<1>1. creating[t] # NoEnt /\ creating[t].name \in NewName
  BY DEF fobj_create_write, ReadInv, TargetsOK
<1>2. PICK d \in DOMAIN ent : \E k \in Visits(d) : creating[t].at = EntOf(d, k)
  BY <1>1 DEF ReadInv, TargetsOK
<1>3. PICK k \in Visits(d) : creating[t].at = EntOf(d, k)
  BY <1>2
<1>4. EntriesOK' /\ DOMAIN ent' = DOMAIN ent /\ \A g : Visits(g)' = Visits(g)
  BY <1>1, <1>3, WritesEntry DEF ReadInv
<1>5. /\ found' \in {creating[t].at, Ino512} /\ creating' = [creating EXCEPT ![t] = NoEnt]
      /\ was' = NoRead /\ next' = next
  BY DEF fobj_create_write
<1>6. FoundOK'
  <2>1. found' # Ino512 => found' = EntOf(d, k)
    BY <1>3, <1>5
  <2> QED
    BY <1>4, <2>1 DEF FoundOK, IsPlace
<1>7. FatOK'
  BY <1>5 DEF FatOK, ReadInv
<1>8. TargetsOK'
  BY <1>4, <1>5 DEF ReadInv, TargetsOK
<1>9. ReadsRight'
  BY <1>5 DEF ReadsRight, NoRead
<1> QED
  BY <1>4, <1>6, <1>7, <1>8, <1>9 DEF ReadInv

\* A read leaves everything but its result.
LEMMA ReadsEntry ==
    ASSUME ReadInv, NEW off \in Nat, NEW asked \in 1 .. MaxSize, fat_read(off, asked)
    PROVE  ReadInv'
<1>1. UNCHANGED <<next, ent, creating, found>> /\ found # NoEnt
  BY DEF fat_read
<1>2. EntriesOK' /\ FatOK' /\ \A q : IsPlace(q)' <=> IsPlace(q)
  BY <1>1, PlacesStay
<1>3. FoundOK'
  BY <1>1, <1>2 DEF ReadInv, FoundOK
<1>4. TargetsOK'
  BY <1>1, TargetsStay
<1>5. ReadsRight'
  <2>1. CASE was' = NoRead
    BY <2>1 DEF ReadsRight, NoRead
  <2>2. CASE was' # NoRead
    <3>1. PICK e : e = EntAt(found)
      OBVIOUS
    <3>2. PICK r : r = Read(e, off, asked)
      OBVIOUS
    <3>3. /\ found # Ino512 /\ ~ off > e.size
          /\ was' = [at |-> found, off |-> off, size |-> asked, rc |-> r.rc, bytes |-> r.bytes]
      BY <2>2, <3>1, <3>2 DEF fat_read
    <3>4. PICK d \in DOMAIN ent : \E k \in Visits(d) : found = EntOf(d, k)
      BY <1>1, <3>3 DEF ReadInv, FoundOK, IsPlace
    <3>5. PICK k \in Visits(d) : found = EntOf(d, k)
      BY <3>4
    <3>6. e \in EntRecord
      <4>1. e = ent[d][k]
        BY <3>1, <3>5 DEF EntAt, EntOf
      <4>2. ent[d] \in [Visits(d) -> EntRecord]
        BY DEF ReadInv, EntriesOK
      <4> QED BY <4>1, <4>2
    <3>7. off <= e.size
      <4>1. e.size \in Int
        BY <3>6 DEF EntRecord
      <4> QED BY <3>3, <4>1
    <3>8. /\ Whole(e) => \/ r.rc = "ok"
                         \/ r.rc = "EIO" /\ off = e.size /\ off % ClusBytes = 0
          /\ r.rc = "ok" =>
                r.bytes = [i \in 1 .. Lower(asked, e.size - off) |-> ByteAt(e, off + i - 1)]
      BY <3>2, <3>6, <3>7, ReadDelivers DEF ReadInv
    <3>9. /\ was'.at = found /\ was'.off = off /\ was'.size = asked
          /\ was'.rc = r.rc /\ was'.bytes = r.bytes
      BY <3>3
    <3>10. EntAt(was.at)' = e
      BY <1>1, <3>1, <3>9 DEF EntAt
    <3>11. (Whole(e)' <=> Whole(e)) /\ \A o : ByteAt(e, o)' = ByteAt(e, o)
      BY <1>1 DEF Whole, ByteAt, Walk
    <3>12. Whole(EntAt(was.at))' => \/ was'.rc = "ok"
                                    \/ was'.rc = "EIO" /\ was'.off = e.size /\ was'.off % ClusBytes = 0
      <4>1. Whole(EntAt(was.at))' <=> Whole(e)
        BY <3>10, <3>11 DEF Whole, Walk
      <4> QED BY <3>8, <3>9, <4>1
    <3>13. was'.rc = "ok" =>
              was'.bytes = [i \in 1 .. Lower(was'.size, e.size - was'.off) |->
                                ByteAt(e, was'.off + i - 1)]
      BY <3>8, <3>9
    <3>14. \A i : ByteAt(EntAt(was.at), was.off + i - 1)' = ByteAt(e, was'.off + i - 1)
      BY <1>1, <3>10 DEF ByteAt, Walk
    <3>15. was'.rc = "ok" =>
              was'.bytes = [i \in 1 .. Lower(was'.size, e.size - was'.off) |->
                                ByteAt(EntAt(was.at), was.off + i - 1)']
      BY <3>13, <3>14
    <3> QED
      BY <3>10, <3>12, <3>15 DEF ReadsRight, Lower
  <2> QED
    BY <2>1, <2>2
<1> QED
  BY <1>2, <1>3, <1>4, <1>5 DEF ReadInv

LEMMA ReadStep == ReadInv /\ [KFatNext]_kfatvars => ReadInv'
<1> SUFFICES ASSUME ReadInv, [KFatNext]_kfatvars PROVE ReadInv'
  OBVIOUS
<1>1. ASSUME NEW path \in Paths, NEW writes \in BOOLEAN, fat_ino_get(path, writes)
      PROVE  ReadInv'
  BY <1>1, FindsEntry
<1>2. ASSUME NEW path \in Paths, Stumbles(path) PROVE ReadInv'
  BY <1>2, FindsEntry
<1>3. ASSUME fat_stat PROVE ReadInv'
  BY <1>3, FindsEntry
<1>4. ASSUME NEW t \in Caller, NEW n \in NewName,
             fobj_create(t, <<n>>) \/ fobj_create(t, <<"d", n>>)
      PROVE  ReadInv'
  <2>1. Name(<<n>>) = n /\ Name(<<"d", n>>) = n
    BY DEF Name
  <2> QED
    BY <1>4, <2>1, FindsBlank
<1>5. ASSUME NEW t \in Caller, fobj_create_write(t) PROVE ReadInv'
  BY <1>5, FillsBlank
<1>6. ASSUME NEW off \in 0 .. (Cardinality(FileClus) * ClusBytes + 1), NEW size \in 1 .. MaxSize,
             fat_read(off, size)
      PROVE  ReadInv'
  <2>1. off \in Nat
    OBVIOUS
  <2> QED
    BY <1>6, <2>1, ReadsEntry
<1>7. CASE UNCHANGED kfatvars
  <2>1. UNCHANGED <<next, ent, creating, found, was>>
    BY <1>7 DEF kfatvars
  <2>2. EntriesOK' /\ FatOK' /\ TargetsOK' /\ \A q : IsPlace(q)' <=> IsPlace(q)
    BY <2>1, PlacesStay, TargetsStay
  <2>3. FoundOK'
    BY <2>1, <2>2 DEF ReadInv, FoundOK
  <2>4. ReadsRight'
    <3>1. \A e, o : ByteAt(e, o)' = ByteAt(e, o) /\ (Whole(e)' <=> Whole(e))
      BY <2>1 DEF ByteAt, Whole, Walk
    <3>2. PICK e : e = EntAt(was.at)
      OBVIOUS
    <3>3. was.at # NoEnt =>
            /\ Whole(e) => \/ was.rc = "ok"
                           \/ was.rc = "EIO" /\ was.off = e.size /\ was.off % ClusBytes = 0
            /\ was.rc = "ok" =>
                was.bytes = [i \in 1 .. Lower(was.size, e.size - was.off) |->
                                ByteAt(e, was.off + i - 1)]
      BY <3>2 DEF ReadInv, ReadsRight
    <3>4. was' = was /\ EntAt(was.at)' = e /\ (Whole(EntAt(was.at))' <=> Whole(e))
      BY <2>1, <3>2 DEF EntAt, Whole, Walk
    <3>5. \A i : ByteAt(EntAt(was.at), was.off + i - 1)' = ByteAt(e, was.off + i - 1)
      BY <2>1, <3>4 DEF ByteAt, Walk
    <3>6. was.rc = "ok" /\ was.at # NoEnt =>
            was.bytes = [i \in 1 .. Lower(was.size, e.size - was.off) |->
                            ByteAt(EntAt(was.at), was.off + i - 1)']
      BY <3>3, <3>5
    <3> QED
      BY <3>3, <3>4, <3>6 DEF ReadsRight, Lower
  <2> QED
    BY <2>2, <2>3, <2>4 DEF ReadInv
<1> QED
  BY <1>1, <1>2, <1>3, <1>4, <1>5, <1>6, <1>7 DEF KFatNext

\* In whatever order tasks look files up, create them and read, fat_read
\* delivers the bytes that the format puts at the offset asked for, as many as
\* were asked for or as the file has left (fat/fileops.c).
THEOREM ReadsDeliverFile == KFatSpec => []ReadsRight
<1>1. ReadInv => ReadsRight
  BY DEF ReadInv
<1> QED
  BY <1>1, ReadStart, ReadStep, PTL DEF KFatSpec
-----------------------------------------------------------------------------
(***************************************************************************)
(* The chains of the host tools' FAT                                       *)
(***************************************************************************)

\* The tables there are.
Tables == [0 .. NClus - 1 -> Cluster \cup {Free, EOC}]

\* A is what Along computes from c.
RunsAlong(F, c, A) ==
    /\ A = [m \in Steps |-> A[m]] /\ A[0] = c
    /\ \A m \in 1 .. NClus : A[m] = IF A[m - 1] = EOC THEN EOC ELSE F[A[m - 1]]

\* It leads through L clusters, no one twice, to an end.
Ends(A, L) ==
    /\ L \in 1 .. NClus
    /\ \A m \in 0 .. (L - 1) : A[m] \in Cluster
    /\ \A m \in L .. NClus : A[m] = EOC
    /\ \A m, n \in 0 .. (L - 1) : A[m] = A[n] => m = n

\* There is a chain of L clusters from c, and these are its clusters.
IsChain(F, c, L) == RunsAlong(F, c, Along(F, c)) /\ Ends(Along(F, c), L)
Cells(F, c) == {Along(F, c)[m] : m \in Steps} \ {EOC}

LEMMA FatSizes ==
    /\ NClus \in Nat /\ NClus > 1 /\ ClusSize \in Nat /\ ClusSize > 0
    /\ RootEntries \in Nat /\ DirEntries \in Nat /\ MaxWrite \in Nat /\ MaxLen \in Nat
    /\ EOC \in Nat /\ EOC \notin Cluster /\ EOC # Free /\ Free \notin Cluster
    /\ EOC = NClus /\ Free = 0
<1>1. NClus \in Nat \ {0, 1} /\ ClusSize \in Nat \ {0}
  BY HostFatAssumption
<1>2. RootEntries \in Nat /\ DirEntries \in Nat /\ MaxWrite \in Nat /\ MaxLen \in Nat
  BY HostFatAssumption
<1> QED
  BY <1>1, <1>2 DEF EOC, Free, Cluster

\* The walk is what its steps say it is.
LEMMA AlongIs ==
    ASSUME NEW F, NEW c, NEW A, RunsAlong(F, c, A)
    PROVE  Along(F, c) = A
<1> DEFINE Next(x) == IF x = EOC THEN EOC ELSE F[x]
           To(w) == [i \in Steps |-> IF i = 0 THEN c ELSE Next(w[i - 1])]
           W == CHOOSE w : w = To(w)
<1>1. Along(F, c) = W
  BY DEF Along
<1>2. A = To(A)
  <2>1. ASSUME NEW i \in Steps PROVE A[i] = IF i = 0 THEN c ELSE Next(A[i - 1])
    <3>1. CASE i = 0
      BY <3>1 DEF RunsAlong
    <3>2. CASE i # 0
      <4>1. i \in 1 .. NClus
        BY <3>2, FatSizes DEF Steps
      <4> QED
        BY <3>2, <4>1 DEF RunsAlong
    <3> QED
      BY <3>1, <3>2
  <2> QED
    BY <2>1 DEF RunsAlong
<1>3. W = To(W)
  BY <1>2
<1> HIDE DEF W
<1>4. /\ W = [i \in Steps |-> W[i]] /\ W[0] = c
      /\ \A i \in 1 .. NClus : W[i] = Next(W[i - 1])
  <2>1. 0 \in Steps /\ \A i \in 1 .. NClus : i \in Steps /\ i # 0
    BY FatSizes DEF Steps
  <2> QED
    BY <1>3, <2>1
<1>5. /\ A = [i \in Steps |-> A[i]] /\ A[0] = c
      /\ \A i \in 1 .. NClus : A[i] = Next(A[i - 1])
  BY DEF RunsAlong
<1> HIDE DEF Next
<1>6. \A i \in Steps : W[i] = A[i]
  <2> DEFINE D == {i \in Steps : W[i] # A[i]}
  <2> SUFFICES ASSUME D # {} PROVE FALSE
    OBVIOUS
  <2>1. D \subseteq Nat
    BY DEF Steps
  <2>2. PICK k \in D : \A j \in D : k <= j
    BY <2>1, LeastElement
  <2>3. k \in Steps /\ W[k] # A[k]
    BY <2>2
  <2>4. k # 0
    BY <1>4, <1>5, <2>3
  <2>5. k \in 1 .. NClus /\ k - 1 \in Steps /\ ~ k <= k - 1
    BY <2>3, <2>4, FatSizes DEF Steps
  <2>6. W[k - 1] = A[k - 1]
    BY <2>2, <2>5
  <2> QED
    BY <1>4, <1>5, <2>3, <2>5, <2>6
<1> QED
  BY <1>1, <1>4, <1>5, <1>6

\* What a chain is, and its clusters.
LEMMA ChainIs ==
    ASSUME NEW F, NEW c, NEW L, IsChain(F, c, L), NEW A, A = Along(F, c)
    PROVE  /\ L \in 1 .. NClus /\ L \in Nat /\ A[0] = c /\ c \in Cluster
           /\ A = [m \in Steps |-> A[m]]
           /\ \A m \in 0 .. (L - 1) :
                /\ A[m] \in Cluster /\ m + 1 \in 1 .. NClus /\ m \in Steps
                /\ F[A[m]] = A[m + 1] /\ A[m + 1] \in Cluster \cup {EOC}
           /\ A[L] = EOC /\ \A m \in L .. NClus : A[m] = EOC
           /\ \A m, n \in 0 .. (L - 1) : A[m] = A[n] => m = n
           /\ Cells(F, c) = {A[m] : m \in 0 .. (L - 1)}
<1>1. RunsAlong(F, c, A) /\ Ends(A, L)
  BY DEF IsChain
<1>2. /\ L \in 1 .. NClus /\ L \in Nat /\ NClus \in Nat /\ 0 \in 0 .. (L - 1)
      /\ L \in L .. NClus
  BY <1>1, FatSizes DEF Ends
<1>3. ASSUME NEW m \in 0 .. (L - 1)
      PROVE  /\ A[m] \in Cluster /\ m + 1 \in 1 .. NClus /\ m \in Steps
             /\ F[A[m]] = A[m + 1] /\ A[m + 1] \in Cluster \cup {EOC}
  <2>1. m + 1 \in 1 .. NClus /\ m \in Steps /\ (m + 1) - 1 = m
    BY <1>2 DEF Steps
  <2>2. A[m] \in Cluster /\ A[m] # EOC
    BY <1>1, FatSizes DEF Ends
  <2>3. F[A[m]] = A[m + 1]
    BY <1>1, <2>1, <2>2 DEF RunsAlong
  <2>4. m + 1 \in 0 .. (L - 1) \/ m + 1 \in L .. NClus
    BY <1>2
  <2>5. A[m + 1] \in Cluster \cup {EOC}
    BY <1>1, <2>4 DEF Ends
  <2> QED
    BY <2>1, <2>2, <2>3, <2>5
<1>4. Cells(F, c) = {A[m] : m \in 0 .. (L - 1)}
  <2>1. \A m \in Steps : m \in 0 .. (L - 1) \/ m \in L .. NClus
    BY <1>2 DEF Steps
  <2>2. \A m \in 0 .. (L - 1) : m \in Steps /\ A[m] # EOC
    BY <1>3, FatSizes
  <2> QED
    BY <1>1, <2>1, <2>2 DEF Ends, Cells
<1> QED
  BY <1>1, <1>2, <1>3, <1>4 DEF RunsAlong, Ends

\* The clusters of a chain are taken.
LEMMA CellsTaken ==
    ASSUME NEW F, NEW c, NEW L, IsChain(F, c, L), NEW x \in Cells(F, c)
    PROVE  x \in Cluster /\ F[x] # Free
<1>1. PICK A : A = Along(F, c)
  OBVIOUS
<1>2. PICK m \in 0 .. (L - 1) : x = A[m]
  BY <1>1, ChainIs
<1>3. A[m] \in Cluster /\ F[A[m]] \in Cluster \cup {EOC}
  BY <1>1, ChainIs
<1> QED
  BY <1>2, <1>3, FatSizes

\* A chain is what it was, where the table is what it was.
LEMMA ChainKept ==
    ASSUME NEW F, NEW G, NEW c, NEW L, IsChain(F, c, L),
           \A x \in Cells(F, c) : G[x] = F[x]
    PROVE  IsChain(G, c, L) /\ Along(G, c) = Along(F, c) /\ Cells(G, c) = Cells(F, c)
<1>1. PICK A : A = Along(F, c)
  OBVIOUS
<1>2. RunsAlong(F, c, A) /\ Ends(A, L)
  BY <1>1 DEF IsChain
<1>3. /\ L \in 1 .. NClus /\ Cells(F, c) = {A[m] : m \in 0 .. (L - 1)}
      /\ \A m \in L .. NClus : A[m] = EOC
  BY <1>1, ChainIs
<1>4. ASSUME NEW m \in 1 .. NClus
      PROVE  A[m] = IF A[m - 1] = EOC THEN EOC ELSE G[A[m - 1]]
  <2>1. m - 1 \in 0 .. (L - 1) \/ m - 1 \in L .. NClus
    BY <1>3, FatSizes
  <2>2. A[m - 1] = EOC \/ G[A[m - 1]] = F[A[m - 1]]
    BY <1>3, <2>1
  <2> QED
    BY <1>2, <2>2 DEF RunsAlong
<1>5. RunsAlong(G, c, A)
  BY <1>2, <1>4 DEF RunsAlong
<1>6. Along(G, c) = A
  BY <1>5, AlongIs
<1> QED
  BY <1>1, <1>2, <1>5, <1>6 DEF IsChain, Cells
\* A chain that misses a cluster has room to grow.
LEMMA ChainRoom ==
    ASSUME NEW F, NEW c, NEW L, IsChain(F, c, L), NEW x \in Cluster, x \notin Cells(F, c)
    PROVE  L + 1 \in 1 .. NClus
<1>1. PICK A : A = Along(F, c)
  OBVIOUS
<1>2. /\ L \in 1 .. NClus /\ Cells(F, c) = {A[m] : m \in 0 .. (L - 1)}
      /\ \A m \in 0 .. (L - 1) : A[m] \in Cluster
      /\ \A m, n \in 0 .. (L - 1) : A[m] = A[n] => m = n
  BY <1>1, ChainIs
<1>3. PICK f : f = [i \in 0 .. L |-> IF i = L THEN x ELSE A[i]]
  OBVIOUS
<1>4. \A i \in 0 .. L : i = L \/ i \in 0 .. (L - 1)
  BY <1>2
<1>5. f \in [0 .. L -> Cluster]
  BY <1>2, <1>3, <1>4
<1>6. \A i, j \in 0 .. L : f[i] = f[j] => i = j
  BY <1>2, <1>3, <1>4
<1>7. IsFiniteSet(0 .. L) /\ Cardinality(0 .. L) = L + 1
  <2>1. 0 \in Int /\ L \in Int /\ ~ 0 > L
    BY <1>2
  <2>2. IsFiniteSet(0 .. L) /\ Cardinality(0 .. L) = IF 0 > L THEN 0 ELSE L - 0 + 1
    BY <2>1, FS_Interval
  <2> QED
    BY <2>1, <2>2
<1>8. IsFiniteSet(Cluster) /\ Cardinality(Cluster) = NClus - 2
  <2>1. 2 \in Int /\ NClus - 1 \in Int /\ NClus >= 2
    BY FatSizes
  <2>2. /\ IsFiniteSet(2 .. NClus - 1)
        /\ Cardinality(2 .. NClus - 1) = IF 2 > NClus - 1 THEN 0 ELSE (NClus - 1) - 2 + 1
    BY <2>1, FS_Interval
  <2> QED
    BY <2>1, <2>2, FatSizes DEF Cluster
<1>9. ~ Cardinality(Cluster) < Cardinality(0 .. L)
  <2> SUFFICES ASSUME Cardinality(Cluster) < Cardinality(0 .. L) PROVE FALSE
    OBVIOUS
  <2>1. PICK S : S = 0 .. L
    OBVIOUS
  <2>2. PICK i \in S, j \in S : i # j /\ f[i] = f[j]
    BY <1>5, <1>7, <1>8, <2>1, FS_PigeonHole, Zenon
  <2> QED
    BY <1>6, <2>1, <2>2
<1> QED
  BY <1>2, <1>7, <1>8, <1>9, FatSizes

\* clus_alloc takes a cluster that is free.
LEMMA LowestIs ==
    ASSUME NEW F, FreeClusters(F) # {}
    PROVE  Lowest(FreeClusters(F)) \in Cluster /\ F[Lowest(FreeClusters(F))] = Free
<1>1. FreeClusters(F) \subseteq Nat
  BY FatSizes DEF FreeClusters, Cluster
<1>2. \E m \in FreeClusters(F) : \A k \in FreeClusters(F) : m <= k
  BY <1>1, LeastElement
<1>3. Lowest(FreeClusters(F)) \in FreeClusters(F)
  BY <1>2 DEF Lowest
<1> QED
  BY <1>3 DEF FreeClusters

\* A cluster is linked behind the last one of a chain.
LEMMA ChainGrows ==
    ASSUME NEW F \in Tables, NEW c, NEW L, IsChain(F, c, L),
           NEW x \in Cluster, F[x] = Free, NEW A, A = Along(F, c)
    PROVE  LET G == Grow(F, A[L - 1], x) IN
           /\ G \in Tables /\ IsChain(G, c, L + 1)
           /\ Along(G, c) = [m \in Steps |-> IF m = L THEN x ELSE A[m]]
           /\ Cells(G, c) = Cells(F, c) \cup {x}
           /\ \A y \in Cluster : y \notin Cells(G, c) => G[y] = F[y]
<1>1. /\ L \in 1 .. NClus /\ A[0] = c /\ A = [m \in Steps |-> A[m]]
      /\ Cells(F, c) = {A[m] : m \in 0 .. (L - 1)}
      /\ \A m \in 0 .. (L - 1) :
            A[m] \in Cluster /\ F[A[m]] = A[m + 1] /\ A[m + 1] \in Cluster \cup {EOC}
      /\ \A m \in L .. NClus : A[m] = EOC
      /\ \A m, n \in 0 .. (L - 1) : A[m] = A[n] => m = n
  BY ChainIs
<1>2. x \notin Cells(F, c)
  BY CellsTaken
<1>3. L + 1 \in 1 .. NClus
  BY <1>2, ChainRoom
<1>4. PICK p : p = A[L - 1]
  OBVIOUS
<1>5. p \in Cluster /\ p # 0 /\ p # x /\ L - 1 \in 0 .. (L - 1)
  BY <1>1, <1>2, <1>4, FatSizes
<1>6. PICK G : G = Grow(F, p, x)
  OBVIOUS
<1>7. /\ G \in Tables /\ G[x] = EOC /\ G[p] = x
      /\ \A y \in Cluster : y # x /\ y # p => G[y] = F[y]
  <2>1. x \in 0 .. NClus - 1 /\ p \in 0 .. NClus - 1 /\ \A y \in Cluster : y \in 0 .. NClus - 1
    BY <1>5, FatSizes DEF Cluster
  <2>2. G = [F EXCEPT ![x] = EOC, ![p] = x]
    BY <1>5, <1>6 DEF Grow
  <2> QED
    BY <1>5, <2>1, <2>2 DEF Tables
<1>8. PICK B : B = [m \in Steps |-> IF m = L THEN x ELSE A[m]]
  OBVIOUS
<1>9. /\ \A m \in 0 .. (L - 1) : B[m] = A[m]
      /\ B[L] = x /\ \A m \in L + 1 .. NClus : B[m] = EOC
  <2>1. \A m \in 0 .. (L - 1) : m \in Steps /\ m # L
    BY <1>1, FatSizes DEF Steps
  <2>2. L \in Steps /\ \A m \in L + 1 .. NClus : m \in Steps /\ m # L /\ m \in L .. NClus
    BY <1>1, FatSizes DEF Steps
  <2> QED
    BY <1>1, <1>8, <2>1, <2>2
<1>10. ASSUME NEW m \in 1 .. NClus
       PROVE  B[m] = IF B[m - 1] = EOC THEN EOC ELSE G[B[m - 1]]
  <2>1. CASE m < L
    <3>1. m \in 0 .. (L - 1) /\ m - 1 \in 0 .. (L - 1) /\ (m - 1) + 1 = m /\ m - 1 # L - 1
      BY <1>1, <2>1
    <3>2. A[m - 1] \in Cluster /\ F[A[m - 1]] = A[m] /\ A[m - 1] # p
      BY <1>1, <1>4, <1>5, <3>1
    <3>3. A[m - 1] # x /\ A[m - 1] # EOC
      BY <1>1, <1>2, <3>1, <3>2, FatSizes
    <3> QED
      BY <1>7, <1>9, <3>1, <3>2, <3>3
  <2>2. CASE m = L
    <3>1. B[m - 1] = p /\ p # EOC
      BY <1>4, <1>5, <1>9, <2>2, FatSizes
    <3> QED
      BY <1>7, <1>9, <2>2, <3>1
  <2>3. CASE m = L + 1
    <3>1. m - 1 = L /\ m \in L + 1 .. NClus
      BY <1>1, <2>3, FatSizes
    <3> QED
      BY <1>7, <1>9, <3>1, FatSizes
  <2>4. CASE m > L + 1
    <3>1. m - 1 \in L + 1 .. NClus /\ m \in L + 1 .. NClus
      BY <1>1, <2>4, FatSizes
    <3> QED
      BY <1>9, <3>1
  <2> QED
    BY <1>1, <2>1, <2>2, <2>3, <2>4
<1>11. RunsAlong(G, c, B)
  <2>1. B = [m \in Steps |-> B[m]] /\ 0 \in 0 .. (L - 1)
    BY <1>1, <1>8
  <2> QED
    BY <1>1, <1>9, <1>10, <2>1 DEF RunsAlong
<1>12. Along(G, c) = B
  BY <1>11, AlongIs
<1>13. Ends(B, L + 1)
  <2>1. \A m \in 0 .. ((L + 1) - 1) : m = L \/ m \in 0 .. (L - 1)
    BY <1>1
  <2>2. \A m \in 0 .. ((L + 1) - 1) : B[m] \in Cluster
    BY <1>1, <1>9, <2>1
  <2>3. ASSUME NEW m \in 0 .. ((L + 1) - 1), NEW n \in 0 .. ((L + 1) - 1), B[m] = B[n]
        PROVE  m = n
    <3>1. \A k \in 0 .. (L - 1) : B[k] = A[k] /\ A[k] # x
      <4>1. \A k \in 0 .. (L - 1) : A[k] \in Cells(F, c)
        BY <1>1, Zenon
      <4> QED
        BY <1>2, <1>9, <4>1
    <3>0. B[L] = x /\ \A k \in 0 .. ((L + 1) - 1) : k # L => B[k] # x
      BY <1>9, <2>1, <3>1
    <3>2. CASE m = L
      <4>1. B[n] = x
        BY <2>3, <3>0, <3>2
      <4> QED
        BY <3>0, <3>2, <4>1
    <3>3. CASE n = L
      <4>1. B[m] = x
        BY <2>3, <3>0, <3>3
      <4> QED
        BY <3>0, <3>3, <4>1
    <3>4. CASE m # L /\ n # L
      BY <1>1, <2>1, <2>3, <3>1, <3>4
    <3> QED
      BY <3>2, <3>3, <3>4
  <2> QED
    BY <1>3, <1>9, <2>2, <2>3 DEF Ends
<1>14. IsChain(G, c, L + 1)
  BY <1>11, <1>12, <1>13 DEF IsChain
<1>15. Cells(G, c) = Cells(F, c) \cup {x}
  <2>1. Cells(G, c) = {B[m] : m \in 0 .. ((L + 1) - 1)}
    BY <1>12, <1>14, ChainIs
  <2>2. /\ \A m \in 0 .. ((L + 1) - 1) : m = L \/ m \in 0 .. (L - 1)
        /\ L \in 0 .. ((L + 1) - 1) /\ \A m \in 0 .. (L - 1) : m \in 0 .. ((L + 1) - 1)
    BY <1>1
  <2>3. PICK N, M : N = 0 .. ((L + 1) - 1) /\ M = 0 .. (L - 1)
    OBVIOUS
  <2>4. Cells(G, c) = {B[m] : m \in N} /\ Cells(F, c) = {A[m] : m \in M}
    BY <1>1, <2>1, <2>3
  <2>5. (\A m \in N : m = L \/ m \in M) /\ L \in N /\ \A m \in M : m \in N
    BY <2>2, <2>3
  <2>6. B[L] = x /\ \A m \in M : B[m] = A[m]
    BY <1>9, <2>3
  <2> QED
    BY <2>4, <2>5, <2>6
<1>16. \A y \in Cluster : y \notin Cells(G, c) => G[y] = F[y]
  <2>1. p \in Cells(G, c) /\ x \in Cells(G, c)
    BY <1>1, <1>4, <1>5, <1>15
  <2> QED
    BY <1>7, <2>1
<1> QED
  BY <1>4, <1>6, <1>7, <1>8, <1>12, <1>14, <1>15, <1>16

\* A cluster begins a chain.
LEMMA ChainBegins ==
    ASSUME NEW F \in Tables, NEW x \in Cluster, NEW G, G = Grow(F, 0, x)
    PROVE  /\ G \in Tables /\ IsChain(G, x, 1) /\ Along(G, x)[0] = x /\ Cells(G, x) = {x}
           /\ \A y \in Cluster : y # x => G[y] = F[y]
<1>1. x \in 0 .. NClus - 1 /\ \A y \in Cluster : y \in 0 .. NClus - 1
  BY FatSizes DEF Cluster
<1>2. G \in Tables /\ G[x] = EOC /\ \A y \in Cluster : y # x => G[y] = F[y]
  BY <1>1 DEF Tables, Grow
<1>3. PICK B : B = [m \in Steps |-> IF m = 0 THEN x ELSE EOC]
  OBVIOUS
<1>4. B[0] = x /\ \A m \in 1 .. NClus : B[m] = EOC
  BY <1>3, FatSizes DEF Steps
<1>5. ASSUME NEW m \in 1 .. NClus
      PROVE  B[m] = IF B[m - 1] = EOC THEN EOC ELSE G[B[m - 1]]
  <2>1. m - 1 = 0 \/ m - 1 \in 1 .. NClus
    BY FatSizes
  <2> QED
    BY <1>2, <1>4, <2>1, FatSizes
<1>6. RunsAlong(G, x, B)
  <2>1. B = [m \in Steps |-> B[m]]
    BY <1>3
  <2> QED
    BY <1>4, <1>5, <2>1 DEF RunsAlong
<1>7. Along(G, x) = B
  BY <1>6, AlongIs
<1>8. Ends(B, 1)
  <2>1. 1 \in 1 .. NClus /\ \A m \in 0 .. (1 - 1) : m = 0
    BY FatSizes
  <2> QED
    BY <1>4, <2>1 DEF Ends
<1>9. IsChain(G, x, 1)
  BY <1>6, <1>7, <1>8 DEF IsChain
<1>10. Cells(G, x) = {x}
  <2>1. Cells(G, x) = {B[m] : m \in 0 .. (1 - 1)} /\ 0 .. (1 - 1) = {0}
    BY <1>7, <1>9, ChainIs
  <2> QED
    BY <1>4, <2>1
<1> QED
  BY <1>2, <1>4, <1>7, <1>9, <1>10
-----------------------------------------------------------------------------
(* A chain grows by several clusters.                                      *)

\* The clusters of what starts at c, which may be nothing.
CellsOf(F, c) == IF c = 0 THEN {} ELSE Cells(F, c)

\* From c a chain of L clusters leads to p, its last one.
Linked(F, c, p, L) ==
    IF L = 0 THEN c = 0 /\ p = 0 ELSE IsChain(F, c, L) /\ p = Along(F, c)[L - 1]

\* What the loop of fobj_extend works on, and one turn of it.
Growing == [fat : Tables, info : EntryRecord, p : 0 .. NClus, ok : BOOLEAN]
GrowTurn(e) ==
    LET c == Lowest(FreeClusters(e.fat)) IN
    IF ~ e.ok \/ FreeClusters(e.fat) = {} THEN [e EXCEPT !.ok = FALSE]
    ELSE [fat |-> Grow(e.fat, e.p, c), p |-> c, ok |-> TRUE,
          info |-> IF e.p # 0 THEN e.info ELSE [e.info EXCEPT !.cluster0 = c]]

\* Of a chain of K clusters from info.cluster0 in F has become one of L in G:
\* the clusters it had are where they were, the others were free, and the
\* rest of the table is as it was.
Longer(F, info, K, G, c, L) ==
    /\ K <= L
    /\ K > 0 => c = info.cluster0 /\ \A m \in 0 .. (K - 1) : Along(G, c)[m] = Along(F, c)[m]
    /\ \A x \in CellsOf(G, c) : x \in CellsOf(F, info.cluster0) \/ F[x] = Free
    /\ \A x \in Cluster : x \notin CellsOf(G, c) => G[x] = F[x]

\* After i turns.
Grown(e, F, info, K, i) ==
    /\ e \in Growing /\ e.info = [info EXCEPT !.cluster0 = e.info.cluster0]
    /\ \E L \in Nat :
        /\ Linked(e.fat, e.info.cluster0, e.p, L)
        /\ Longer(F, info, K, e.fat, e.info.cluster0, L)
        /\ e.ok => L = K + i

LEMMA TurnTyped ==
    ASSUME NEW e \in Growing
    PROVE  GrowTurn(e) \in Growing
<1>1. e.fat \in Tables /\ e.info \in EntryRecord /\ e.p \in 0 .. NClus /\ e.ok \in BOOLEAN
  BY DEF Growing
<1>2. CASE ~ e.ok \/ FreeClusters(e.fat) = {}
  BY <1>2 DEF GrowTurn, Growing
<1>3. CASE e.ok /\ FreeClusters(e.fat) # {}
  <2>1. PICK c : c = Lowest(FreeClusters(e.fat))
    OBVIOUS
  <2>2. c \in Cluster
    BY <1>3, <2>1, LowestIs
  <2>3. c \in 0 .. NClus
    BY <2>2, FatSizes DEF Cluster
  <2>4. Grow(e.fat, e.p, c) \in Tables
    BY <1>1, <2>2, FatSizes DEF Grow, Tables
  <2>5. (IF e.p # 0 THEN e.info ELSE [e.info EXCEPT !.cluster0 = c]) \in EntryRecord
    BY <1>1, <2>3 DEF EntryRecord
  <2>6. GrowTurn(e) = [fat |-> Grow(e.fat, e.p, c), p |-> c, ok |-> TRUE,
                       info |-> IF e.p # 0 THEN e.info ELSE [e.info EXCEPT !.cluster0 = c]]
    BY <1>3, <2>1 DEF GrowTurn
  <2> QED
    BY <2>3, <2>4, <2>5, <2>6 DEF Growing
<1> QED
  BY <1>2, <1>3

\* The cluster that is taken was free at the start.
LEMMA TakesFree ==
    ASSUME NEW F, NEW info, NEW K \in Nat, NEW G, NEW c, NEW p, NEW L \in Nat,
           Linked(G, c, p, L), Longer(F, info, K, G, c, L),
           NEW x \in Cluster, G[x] = Free
    PROVE  F[x] = Free /\ x \notin CellsOf(G, c)
<1>1. x \notin CellsOf(G, c)
  <2>1. CASE c = 0
    BY <2>1 DEF CellsOf
  <2>2. CASE c # 0
    <3>1. IsChain(G, c, L)
      BY <2>2 DEF Linked
    <3> QED
      BY <2>2, <3>1, CellsTaken DEF CellsOf
  <2> QED
    BY <2>1, <2>2
<1> QED
  BY <1>1 DEF Longer

\* One more cluster.
LEMMA OneLonger ==
    ASSUME NEW F, NEW info, NEW K \in Nat, NEW G \in Tables, NEW c, NEW p, NEW L \in Nat,
           Linked(G, c, p, L), Longer(F, info, K, G, c, L),
           NEW x \in Cluster, G[x] = Free,
           NEW H, H = Grow(G, p, x), NEW d, d = IF p # 0 THEN c ELSE x
    PROVE  Linked(H, d, x, L + 1) /\ Longer(F, info, K, H, d, L + 1)
<1>1. F[x] = Free /\ x \notin CellsOf(G, c)
  BY TakesFree
<1>2. CASE L = 0
  <2>1. c = 0 /\ p = 0 /\ K = 0 /\ d = x /\ x # 0
    BY <1>2, FatSizes DEF Linked, Longer
  <2>2. H = Grow(G, 0, x)
    BY <2>1
  <2>3. /\ IsChain(H, x, 1) /\ Along(H, x)[0] = x /\ Cells(H, x) = {x}
        /\ \A y \in Cluster : y # x => H[y] = G[y]
    BY <2>2, ChainBegins
  <2>4. CellsOf(G, c) = {} /\ CellsOf(H, d) = {x}
    BY <2>1, <2>3 DEF CellsOf
  <2>5. Linked(H, d, x, L + 1)
    BY <1>2, <2>1, <2>3 DEF Linked
  <2>6. ASSUME NEW y \in Cluster, y \notin CellsOf(H, d) PROVE H[y] = F[y]
    <3>1. H[y] = G[y]
      BY <2>3, <2>4, <2>6
    <3>2. y \notin CellsOf(G, c)
      BY <2>4
    <3>3. G[y] = F[y]
      BY <3>2 DEF Longer
    <3> QED
      BY <3>1, <3>3
  <2>7. Longer(F, info, K, H, d, L + 1)
    BY <1>1, <1>2, <2>1, <2>4, <2>6 DEF Longer
  <2> QED
    BY <2>5, <2>7
<1>3. CASE L # 0
  <2>1. PICK A : A = Along(G, c)
    OBVIOUS
  <2>2. IsChain(G, c, L) /\ p = A[L - 1]
    BY <1>3, <2>1 DEF Linked
  <2>3. c \in Cluster /\ p \in Cluster /\ L \in 1 .. NClus
    <3>1. L - 1 \in 0 .. (L - 1)
      BY <1>3
    <3> QED
      BY <2>1, <2>2, <3>1, ChainIs
  <2>4. c # 0 /\ p # 0 /\ d = c
    BY <2>3, FatSizes
  <2>5. PICK B : B = [m \in Steps |-> IF m = L THEN x ELSE A[m]]
    OBVIOUS
  <2>6. /\ IsChain(H, c, L + 1) /\ Along(H, c) = B
        /\ Cells(H, c) = Cells(G, c) \cup {x}
        /\ \A y \in Cluster : y \notin Cells(H, c) => H[y] = G[y]
    BY <2>1, <2>2, <2>5, ChainGrows
  <2>7. L \in Steps /\ (L + 1) - 1 = L /\ L + 1 # 0
    BY <2>3, FatSizes DEF Steps
  <2>8. Linked(H, d, x, L + 1)
    BY <2>4, <2>5, <2>6, <2>7 DEF Linked
  <2>9. CellsOf(H, d) = CellsOf(G, c) \cup {x}
    BY <2>4, <2>6 DEF CellsOf
  <2>10. \A y \in Cluster : y \notin CellsOf(H, d) => H[y] = F[y]
    BY <2>4, <2>6, <2>9 DEF CellsOf, Longer
  <2>11. \A y \in CellsOf(H, d) : y \in CellsOf(F, info.cluster0) \/ F[y] = Free
    BY <1>1, <2>9 DEF Longer
  <2>12. K <= L /\ K <= L + 1
    BY DEF Longer
  <2>13. ASSUME K > 0
         PROVE  d = info.cluster0 /\ \A m \in 0 .. (K - 1) : Along(H, d)[m] = Along(F, d)[m]
    <3>1. c = info.cluster0 /\ \A m \in 0 .. (K - 1) : A[m] = Along(F, c)[m]
      BY <2>1, <2>13 DEF Longer
    <3>2. \A m \in 0 .. (K - 1) : m \in Steps /\ m # L
      BY <2>3, <2>12, FatSizes DEF Steps
    <3>3. \A m \in 0 .. (K - 1) : B[m] = A[m]
      BY <2>5, <3>2
    <3> QED
      BY <2>4, <2>6, <3>1, <3>3
  <2> QED
    BY <2>8, <2>10, <2>11, <2>12, <2>13 DEF Longer
<1> QED
  BY <1>2, <1>3

LEMMA TurnGrows ==
    ASSUME NEW F, NEW info \in EntryRecord, NEW K \in Nat, NEW i \in Nat,
           NEW e, Grown(e, F, info, K, i)
    PROVE  Grown(GrowTurn(e), F, info, K, i + 1)
<1>1. e \in Growing /\ e.info = [info EXCEPT !.cluster0 = e.info.cluster0]
  BY DEF Grown
<1>2. e.fat \in Tables /\ e.info \in EntryRecord /\ e.p \in 0 .. NClus /\ e.ok \in BOOLEAN
  BY <1>1 DEF Growing
<1>3. PICK L \in Nat :
        /\ Linked(e.fat, e.info.cluster0, e.p, L)
        /\ Longer(F, info, K, e.fat, e.info.cluster0, L)
        /\ e.ok => L = K + i
  BY DEF Grown
<1>4. PICK t : t = GrowTurn(e)
  OBVIOUS
<1>5. t \in Growing
  BY <1>1, <1>4, TurnTyped
<1>6. CASE ~ e.ok \/ FreeClusters(e.fat) = {}
  <2>1. t = [e EXCEPT !.ok = FALSE]
    BY <1>4, <1>6 DEF GrowTurn
  <2>2. t.fat = e.fat /\ t.info = e.info /\ t.p = e.p /\ ~ t.ok
    BY <1>1, <2>1 DEF Growing
  <2> QED
    BY <1>1, <1>3, <1>4, <1>5, <2>2 DEF Grown
<1>7. CASE e.ok /\ FreeClusters(e.fat) # {}
  <2>1. PICK x : x = Lowest(FreeClusters(e.fat))
    OBVIOUS
  <2>2. x \in Cluster /\ e.fat[x] = Free
    BY <1>7, <2>1, LowestIs
  <2>3. t = [fat |-> Grow(e.fat, e.p, x), p |-> x, ok |-> TRUE,
             info |-> IF e.p # 0 THEN e.info ELSE [e.info EXCEPT !.cluster0 = x]]
    BY <1>4, <1>7, <2>1 DEF GrowTurn
  <2>4. PICK d : d = IF e.p # 0 THEN e.info.cluster0 ELSE x
    OBVIOUS
  <2>5. t.info.cluster0 = d /\ t.info = [info EXCEPT !.cluster0 = d]
    BY <1>1, <1>2, <2>3, <2>4 DEF EntryRecord
  <2>6. t.fat = Grow(e.fat, e.p, x) /\ t.p = x
    BY <2>3
  <2>7. Linked(t.fat, d, x, L + 1) /\ Longer(F, info, K, t.fat, d, L + 1)
    BY <1>2, <1>3, <2>2, <2>4, <2>6, OneLonger
  <2>8. L + 1 = K + (i + 1) /\ L + 1 \in Nat
    BY <1>3, <1>7
  <2> QED
    BY <1>4, <1>5, <2>5, <2>6, <2>7, <2>8 DEF Grown
<1> QED
  BY <1>6, <1>7
\* fobj_extend makes a chain as much longer as it says, or as it can.
LEMMA ExtendedIs ==
    ASSUME NEW F \in Tables, NEW info \in EntryRecord, NEW p \in 0 .. NClus, NEW K \in Nat,
           Linked(F, info.cluster0, p, K), NEW k \in Nat
    PROVE  Grown(Extended(F, info, p, k), F, info, K, k)
<1>1. PICK e : e = [fat |-> F, info |-> info, p |-> p, ok |-> TRUE]
  OBVIOUS
<1>2. Grown(e, F, info, K, 0)
  <2>1. e \in Growing /\ e.fat = F /\ e.info = info /\ e.p = p
    BY <1>1 DEF Growing
  <2>2. info = [info EXCEPT !.cluster0 = info.cluster0]
    BY DEF EntryRecord
  <2>3. Longer(F, info, K, F, info.cluster0, K)
    BY DEF Longer
  <2>4. K = K + 0
    OBVIOUS
  <2> QED
    BY <2>1, <2>2, <2>3, <2>4 DEF Grown
<1> DEFINE To(w) == [i \in 0 .. k |-> IF i = 0 THEN e ELSE GrowTurn(w[i - 1])]
           W == CHOOSE w : w = To(w)
<1>3. Extended(F, info, p, k) = W[k]
  BY <1>1 DEF Extended, GrowTurn
<1>4. \E w : w = To(w)
  <2>1. PICK g : g = [x \in Growing |-> GrowTurn(x)]
    OBVIOUS
  <2>2. g \in [Growing -> Growing] /\ \A x \in Growing : g[x] = GrowTurn(x)
    BY <2>1, TurnTyped
  <2>3. e \in Growing
    BY <1>2 DEF Grown
  <2>4. PICK f \in [0 .. k -> Growing] : Walks(f, g, e, k)
    BY <2>2, <2>3, WalkOfLength
  <2>5. ASSUME NEW i \in 0 .. k PROVE f[i] = IF i = 0 THEN e ELSE GrowTurn(f[i - 1])
    <3>1. CASE i = 0
      BY <2>4, <3>1 DEF Walks
    <3>2. CASE i # 0
      <4>1. i \in 1 .. k /\ i - 1 \in 0 .. k
        BY <3>2
      <4> QED
        BY <2>2, <2>4, <3>2, <4>1 DEF Walks
    <3> QED
      BY <3>1, <3>2
  <2>6. f = To(f)
    BY <2>4, <2>5
  <2> QED
    BY <2>6
<1>5. W = To(W)
  BY <1>4
<1> HIDE DEF W
<1>6. W[0] = e /\ \A i \in 1 .. k : W[i] = GrowTurn(W[i - 1])
  BY <1>5
<1> HIDE DEF To
<1>7. \A i \in 0 .. k : Grown(W[i], F, info, K, i)
  <2> DEFINE D == {i \in 0 .. k : ~ Grown(W[i], F, info, K, i)}
  <2> SUFFICES ASSUME D # {} PROVE FALSE
    OBVIOUS
  <2>1. D \subseteq Nat
    OBVIOUS
  <2>2. PICK i \in D : \A j \in D : i <= j
    BY <2>1, LeastElement
  <2>3. i \in 0 .. k /\ ~ Grown(W[i], F, info, K, i)
    BY <2>2
  <2>4. i # 0
    BY <1>2, <1>6, <2>3
  <2>5. i \in 1 .. k /\ i - 1 \in 0 .. k /\ i - 1 \in Nat /\ ~ i <= i - 1 /\ (i - 1) + 1 = i
    BY <2>3, <2>4
  <2>6. Grown(W[i - 1], F, info, K, i - 1)
    BY <2>2, <2>5
  <2>7. Grown(GrowTurn(W[i - 1]), F, info, K, (i - 1) + 1)
    BY <2>5, <2>6, TurnGrows
  <2> QED
    BY <1>6, <2>3, <2>5, <2>7
<1> QED
  BY <1>3, <1>7
-----------------------------------------------------------------------------
(* Lengths                                                                 *)

\* Clusters of a length hold it, and every position before it is in one of
\* them.
LEMMA ClustersHold ==
    ASSUME NEW length \in Nat
    PROVE  /\ Clusters(length) \in Nat /\ ClusSize * Clusters(length) >= length
           /\ Clusters(0) = 0 /\ (length > 0 => Clusters(length) > 0)
<1>1. ClusSize \in Nat \ {0}
  BY FatSizes
<1>2. (length + ClusSize) - 1 \in Nat
  BY <1>1
<1>3. PICK q \in Nat, r \in 0 .. (ClusSize - 1) :
        Clusters(length) = q /\ (length + ClusSize) - 1 = q * ClusSize + r
  BY <1>1, <1>2, DivThere DEF Clusters
<1>4. PICK m \in Nat : m = ClusSize * q
  BY <1>1
<1>5. q * ClusSize = m
  BY <1>1, <1>4
<1>6. m >= length
  BY <1>1, <1>3, <1>5
<1>7. Clusters(0) = 0
  <2>1. (0 + ClusSize) - 1 = 0 * ClusSize + (ClusSize - 1) /\ ClusSize - 1 \in 0 .. (ClusSize - 1)
    BY <1>1
  <2> QED
    BY <1>1, <2>1, DivIs DEF Clusters
<1>8. length > 0 => q > 0
  <2>1. q = 0 => m = 0
    BY <1>1, <1>4
  <2> QED
    BY <1>6, <2>1
<1> QED
  BY <1>3, <1>4, <1>6, <1>7, <1>8

\* A position before the end of L clusters is in one of them.
LEMMA PositionIn ==
    ASSUME NEW o \in Nat, NEW L \in Nat, o < ClusSize * L
    PROVE  /\ o \div ClusSize \in 0 .. (L - 1) /\ (o % ClusSize) + 1 \in 1 .. ClusSize
           /\ o \div ClusSize \in Nat
<1>1. ClusSize \in Nat \ {0}
  BY FatSizes
<1>2. PICK q \in Nat, r \in 0 .. (ClusSize - 1) :
        o \div ClusSize = q /\ (o % ClusSize) = r /\ o = q * ClusSize + r
  BY <1>1, DivThere
<1>3. q < L
  <2> SUFFICES ASSUME q >= L PROVE FALSE
    OBVIOUS
  <2>1. PICK d \in Nat : q = L + d
    <3>1. q - L \in Nat /\ q = L + (q - L)
      OBVIOUS
    <3> QED
      BY <3>1
  <2>2. (L + d) * ClusSize = ClusSize * L + d * ClusSize
    BY <1>1
  <2>3. PICK u \in Nat, v \in Nat : u = ClusSize * L /\ v = d * ClusSize
    BY <1>1
  <2> QED
    BY <1>2, <2>1, <2>2, <2>3
<1> QED
  BY <1>1, <1>2, <1>3

\* Different positions are at different places.
LEMMA PositionsDiffer ==
    ASSUME NEW o \in Nat, NEW u \in Nat, o \div ClusSize = u \div ClusSize,
           (o % ClusSize) + 1 = (u % ClusSize) + 1
    PROVE  o = u
<1>1. ClusSize \in Nat \ {0}
  BY FatSizes
<1>2. PICK q \in Nat, r \in 0 .. (ClusSize - 1) :
        o \div ClusSize = q /\ (o % ClusSize) = r /\ o = q * ClusSize + r
  BY <1>1, DivThere
<1>3. PICK p \in Nat, s \in 0 .. (ClusSize - 1) :
        u \div ClusSize = p /\ (u % ClusSize) = s /\ u = p * ClusSize + s
  BY <1>1, DivThere
<1>4. q = p /\ r = s
  BY <1>2, <1>3
<1> QED
  BY <1>2, <1>3, <1>4
-----------------------------------------------------------------------------
(* fobj_trunc                                                              *)

\* The walk to the target ends there or at the end of the chain.
LEMMA WalkedIs ==
    ASSUME NEW F, NEW info, NEW p, NEW K \in Nat, Linked(F, info.cluster0, p, K),
           NEW target \in Nat
    PROVE  Walked(F, info, target) = IF target < K THEN target ELSE K
<1>1. CASE K = 0
  BY <1>1 DEF Linked, Walked
<1>2. CASE K # 0
  <2>1. PICK A : A = Along(F, info.cluster0)
    OBVIOUS
  <2>2. IsChain(F, info.cluster0, K)
    BY <1>2 DEF Linked
  <2>3. /\ info.cluster0 \in Cluster /\ K \in 1 .. NClus /\ A[K] = EOC
        /\ \A m \in 0 .. (K - 1) : A[m] # EOC
    BY <2>1, <2>2, ChainIs, FatSizes
  <2>4. PICK w : w = IF target < K THEN target ELSE K
    OBVIOUS
  <2>5. w \in 0 .. target /\ (w = target \/ A[w] = EOC) /\ \A m \in 0 .. (w - 1) : A[m] # EOC
    <3>1. w \in 0 .. target /\ (w = target \/ w = K) /\ \A m \in 0 .. (w - 1) : m \in 0 .. (K - 1)
      BY <1>2, <2>4
    <3> QED
      BY <2>3, <3>1
  <2>6. ASSUME NEW n \in 0 .. target, n = target \/ A[n] = EOC,
               \A m \in 0 .. (n - 1) : A[m] # EOC
        PROVE  n = w
    <3>1. ~ n < w
      <4> SUFFICES ASSUME n < w PROVE FALSE
        OBVIOUS
      <4>1. n # target /\ n \in 0 .. (K - 1)
        BY <2>4
      <4> QED
        BY <2>3, <2>6, <4>1
    <3>2. ~ w < n
      <4> SUFFICES ASSUME w < n PROVE FALSE
        OBVIOUS
      <4>1. w = K /\ w \in 0 .. (n - 1)
        BY <2>4
      <4> QED
        BY <2>3, <2>6, <4>1
    <3> QED
      BY <2>4, <3>1, <3>2
  <2>7. info.cluster0 # 0
    BY <2>3, FatSizes
  <2>8. Walked(F, info, target) =
            CHOOSE n \in 0 .. target : /\ n = target \/ A[n] = EOC
                                       /\ \A m \in 0 .. (n - 1) : A[m] # EOC
    BY <2>1, <2>7 DEF Walked
  <2> QED
    BY <2>4, <2>5, <2>6, <2>8
<1> QED
  BY <1>1, <1>2
\* A file that gets longer than its chain: the chain grows.
LEMMA TruncGrows ==
    ASSUME NEW F \in Tables, NEW info \in EntryRecord, NEW p, NEW K \in Nat,
           Linked(F, info.cluster0, p, K), NEW length \in Nat, K < Clusters(length)
    PROVE  \E e : /\ Grown(e, F, info, K, Clusters(length) - K)
                  /\ Trunc(F, info, length) =
                        IF e.ok THEN [e EXCEPT !.info.size = length] ELSE e
<1>1. PICK target \in Nat : target = Clusters(length)
  BY ClustersHold
<1>2. Walked(F, info, target) = K
  <2>1. Walked(F, info, target) = IF target < K THEN target ELSE K
    BY WalkedIs, Zenon
  <2> QED
    BY <1>1, <2>1
<1>3. p \in 0 .. NClus /\ p = Previous(F, info, K)
  <2>1. CASE K = 0
    BY <2>1, FatSizes DEF Linked, Previous
  <2>2. CASE K # 0
    <3>1. IsChain(F, info.cluster0, K) /\ p = Along(F, info.cluster0)[K - 1]
      BY <2>2 DEF Linked
    <3>2. K - 1 \in 0 .. (K - 1)
      BY <2>2
    <3>3. p \in Cluster
      BY <3>1, <3>2, ChainIs
    <3> QED
      BY <2>2, <3>1, <3>3, FatSizes DEF Previous, Cluster
  <2> QED
    BY <2>1, <2>2
<1>4. PICK k \in Nat : k = target - K
  BY <1>1
<1>5. PICK e : e = Extended(F, info, p, k)
  OBVIOUS
<1>6. Grown(e, F, info, K, k)
  BY <1>3, <1>5, ExtendedIs
<1>7. Trunc(F, info, length) = IF e.ok THEN [e EXCEPT !.info.size = length] ELSE e
  BY <1>1, <1>2, <1>3, <1>4, <1>5 DEF Trunc
<1> QED
  BY <1>1, <1>4, <1>6, <1>7

\* A file of no length has no chain.
Emptied(F, info, t) ==
    /\ t.fat \in Tables /\ t.info = [info EXCEPT !.size = 0, !.cluster0 = 0]
    /\ \A x \in Cluster : x \notin CellsOf(F, info.cluster0) => t.fat[x] = F[x]

LEMMA TruncZero ==
    ASSUME NEW F \in Tables, NEW info \in EntryRecord, NEW p, NEW K \in Nat,
           Linked(F, info.cluster0, p, K)
    PROVE  Emptied(F, info, Trunc(F, info, 0))
<1> PICK t : t = Trunc(F, info, 0)
  OBVIOUS
<1>0. 0 \in Nat
  OBVIOUS
<1>1. Clusters(0) = 0
  BY <1>0, ClustersHold, Zenon
<1>2. Walked(F, info, 0) = 0
  <2>1. Walked(F, info, 0) = IF 0 < K THEN 0 ELSE K
    BY <1>0, WalkedIs, Zenon
  <2> QED
    BY <2>1
<1>3. /\ t.info = [info EXCEPT !.size = 0, !.cluster0 = 0]
      /\ t.fat = IF info.cluster0 = 0 THEN F
                 ELSE [c \in DOMAIN F |-> IF c \in Freed(F, info, 0) THEN Free ELSE F[c]]
  <2>1. ~ 0 < 0
    OBVIOUS
  <2>2. t = [fat |-> IF info.cluster0 = 0 THEN F
                     ELSE [c \in DOMAIN F |-> IF c \in Freed(F, info, 0) THEN Free ELSE F[c]],
             info |-> [info EXCEPT !.size = 0, !.cluster0 = 0], p |-> 0, ok |-> TRUE]
    BY <1>1, <1>2, <2>1, Zenon DEF Trunc
  <2> QED
    BY <2>2
<1>4. t.fat \in Tables
  BY <1>3 DEF Tables
<1>5. ASSUME NEW x \in Cluster, x \notin CellsOf(F, info.cluster0)
      PROVE  t.fat[x] = F[x]
  <2>1. CASE info.cluster0 = 0
    BY <1>3, <2>1
  <2>2. CASE info.cluster0 # 0
    <3>1. x # EOC
      BY FatSizes
    <3>2. x \notin Freed(F, info, 0)
      BY <1>5, <2>2, <3>1 DEF CellsOf, Cells, Freed, Steps
    <3>3. x \in DOMAIN F
      BY FatSizes DEF Tables, Cluster
    <3> QED
      BY <1>3, <2>2, <3>2, <3>3
  <2> QED
    BY <2>1, <2>2
<1> QED
  BY <1>3, <1>4, <1>5 DEF Emptied
-----------------------------------------------------------------------------
(***************************************************************************)
(* The chains of several places                                            *)
(***************************************************************************)

\* Places of entries.
Ats == (0 .. NClus - 1) \X (1 .. RootEntries + DirEntries)

\* hd gives each place the start of its chain, or nothing; no two share a
\* cluster.
ChainsApart(F, hd) ==
    /\ hd \in [Ats -> 0 .. NClus]
    /\ \A bt \in Ats : \E p : \E L \in Nat : Linked(F, hd[bt], p, L)
    /\ \A bt, ct \in Ats : bt # ct => CellsOf(F, hd[bt]) \cap CellsOf(F, hd[ct]) = {}

\* What starts at c is in G what it is in F.
SameChain(F, G, c) ==
    /\ \A p : \A L \in Nat : Linked(F, c, p, L) => Linked(G, c, p, L)
    /\ CellsOf(G, c) = CellsOf(F, c) /\ (c # 0 => Along(G, c) = Along(F, c))

\* Of the clusters, G changes those of a chain, and free ones.
ChangesAt(F, G, c) ==
    \A x \in Cluster : x \notin CellsOf(F, c) /\ F[x] # Free => G[x] = F[x]

\* A chain without a free cluster is kept by a change elsewhere.
LEMMA SameElsewhere ==
    ASSUME NEW F, NEW G, NEW c, NEW d, ChangesAt(F, G, c),
           NEW p, NEW L \in Nat, Linked(F, d, p, L),
           CellsOf(F, c) \cap CellsOf(F, d) = {}
    PROVE  SameChain(F, G, d)
<1>1. CASE d = 0
  <2>1. \A q : \A M \in Nat : Linked(F, d, q, M) => Linked(G, d, q, M)
    <3> SUFFICES ASSUME NEW q, NEW M \in Nat, Linked(F, d, q, M) PROVE Linked(G, d, q, M)
      OBVIOUS
    <3>1. CASE M = 0
      BY <3>1 DEF Linked
    <3>2. CASE M # 0
      <4>1. IsChain(F, d, M)
        BY <3>2 DEF Linked
      <4>2. d \in Cluster
        BY <4>1, ChainIs
      <4> QED
        BY <1>1, <4>2, FatSizes
    <3> QED
      BY <3>1, <3>2
  <2> QED
    BY <1>1, <2>1 DEF SameChain, CellsOf
<1>2. CASE d # 0
  <2>1. IsChain(F, d, L)
    BY <1>2 DEF Linked
  <2>2. \A x \in Cells(F, d) : G[x] = F[x]
    <3> SUFFICES ASSUME NEW x \in Cells(F, d) PROVE G[x] = F[x]
      OBVIOUS
    <3>1. x \in Cluster /\ F[x] # Free
      BY <2>1, CellsTaken
    <3>2. x \notin CellsOf(F, c)
      BY <1>2 DEF CellsOf
    <3> QED
      BY <3>1, <3>2 DEF ChangesAt
  <2>3. Along(G, d) = Along(F, d) /\ Cells(G, d) = Cells(F, d)
    BY <2>1, <2>2, ChainKept
  <2>4. \A q : \A M \in Nat : Linked(F, d, q, M) => Linked(G, d, q, M)
    <3> SUFFICES ASSUME NEW q, NEW M \in Nat, Linked(F, d, q, M) PROVE Linked(G, d, q, M)
      OBVIOUS
    <3>1. M # 0 /\ IsChain(F, d, M) /\ q = Along(F, d)[M - 1]
      BY <1>2 DEF Linked
    <3>2. IsChain(G, d, M)
      BY <2>2, <3>1, ChainKept
    <3> QED
      BY <2>3, <3>1, <3>2 DEF Linked
  <2> QED
    BY <1>2, <2>3, <2>4 DEF SameChain, CellsOf
<1> QED
  BY <1>1, <1>2

\* The chain of one place is replaced by one that takes its clusters, or free
\* ones.
LEMMA ChainsKept ==
    ASSUME NEW F, NEW hd, ChainsApart(F, hd), NEW G, NEW at \in Ats,
           NEW c \in 0 .. NClus, NEW p, NEW L \in Nat, Linked(G, c, p, L),
           ChangesAt(F, G, hd[at]),
           \A x \in CellsOf(G, c) : x \in CellsOf(F, hd[at]) \/ F[x] = Free
    PROVE  /\ ChainsApart(G, [hd EXCEPT ![at] = c])
           /\ \A bt \in Ats : bt # at => SameChain(F, G, hd[bt])
<1>1. PICK h : h = [hd EXCEPT ![at] = c]
  OBVIOUS
<1>2. hd \in [Ats -> 0 .. NClus]
  BY DEF ChainsApart
<1>3. h \in [Ats -> 0 .. NClus] /\ h[at] = c /\ \A bt \in Ats : bt # at => h[bt] = hd[bt]
  BY <1>1, <1>2
<1>4. ASSUME NEW bt \in Ats, bt # at PROVE SameChain(F, G, hd[bt])
  <2>1. PICK q : \E M \in Nat : Linked(F, hd[bt], q, M)
    BY DEF ChainsApart
  <2>2. PICK M \in Nat : Linked(F, hd[bt], q, M)
    BY <2>1
  <2>3. CellsOf(F, hd[at]) \cap CellsOf(F, hd[bt]) = {}
    BY <1>4 DEF ChainsApart
  <2> QED
    BY <2>2, <2>3, SameElsewhere
<1>5. ASSUME NEW bt \in Ats PROVE \E q : \E M \in Nat : Linked(G, h[bt], q, M)
  <2>1. CASE bt = at
    BY <1>3, <2>1
  <2>2. CASE bt # at
    BY <1>3, <1>4, <2>2 DEF ChainsApart, SameChain
  <2> QED
    BY <2>1, <2>2
<1>6. ASSUME NEW bt \in Ats, bt # at PROVE CellsOf(G, c) \cap CellsOf(G, hd[bt]) = {}
  <2> SUFFICES ASSUME NEW x \in CellsOf(G, c), x \in CellsOf(G, hd[bt]) PROVE FALSE
    OBVIOUS
  <2>1. x \in CellsOf(F, hd[bt])
    BY <1>4, <1>6 DEF SameChain
  <2>2. x \notin CellsOf(F, hd[at])
    BY <1>6, <2>1 DEF ChainsApart
  <2>3. F[x] = Free
    BY <2>2
  <2>4. PICK q : \E M \in Nat : Linked(F, hd[bt], q, M)
    BY DEF ChainsApart
  <2>5. PICK M \in Nat : Linked(F, hd[bt], q, M)
    BY <2>4
  <2>6. hd[bt] # 0 /\ x \in Cells(F, hd[bt])
    BY <2>1 DEF CellsOf
  <2>7. IsChain(F, hd[bt], M)
    BY <2>5, <2>6 DEF Linked
  <2> QED
    BY <2>3, <2>6, <2>7, CellsTaken
<1>7. ASSUME NEW bt \in Ats, NEW ct \in Ats, bt # ct
      PROVE  CellsOf(G, h[bt]) \cap CellsOf(G, h[ct]) = {}
  <2>1. CASE bt = at
    BY <1>3, <1>6, <1>7, <2>1
  <2>2. CASE ct = at
    BY <1>3, <1>6, <1>7, <2>2
  <2>3. CASE bt # at /\ ct # at
    BY <1>3, <1>4, <1>7, <2>3 DEF SameChain, ChainsApart
  <2> QED
    BY <2>1, <2>2, <2>3
<1>8. ChainsApart(G, h)
  BY <1>3, <1>5, <1>7 DEF ChainsApart
<1> QED
  BY <1>1, <1>4, <1>8
-----------------------------------------------------------------------------
(* Entries and their places                                                *)

NSlots(d) == IF d = 0 THEN RootEntries ELSE DirEntries
Slot == UNION {{d} \X Slots(d) : d \in DOMAIN dir}
Live == Entries("file") \cup Entries("dir")

DirTyped ==
    /\ dir = [d \in DOMAIN dir |-> dir[d]]
    /\ 0 \in DOMAIN dir /\ DOMAIN dir \subseteq 0 .. NClus - 1
    /\ \A d \in DOMAIN dir : dir[d] \in [1 .. NSlots(d) -> EntryRecord]

\* An entry that is blank has nothing.
BlankOK == \A at \in Slot : At(at).name \in {UnusedEnt, Erased} =>
                                At(at).cluster0 = 0 /\ At(at).size = 0

LEMMA SlotIs ==
    ASSUME DirTyped
    PROVE  /\ \A d \in DOMAIN dir : Slots(d) = 1 .. NSlots(d) /\ NSlots(d) \in Nat
           /\ \A d \in DOMAIN dir : \A i \in Slots(d) : <<d, i>> \in Slot
           /\ \A at \in Slot : /\ at \in Ats /\ at = <<at[1], at[2]>> /\ At(at) \in EntryRecord
                               /\ at[1] \in DOMAIN dir /\ at[2] \in 1 .. NSlots(at[1])
<1>1. ASSUME NEW d \in DOMAIN dir PROVE Slots(d) = 1 .. NSlots(d) /\ NSlots(d) \in Nat
  <2>1. NSlots(d) \in Nat
    BY FatSizes DEF NSlots
  <2>2. PICK n \in Nat : n = NSlots(d)
    BY <2>1
  <2>3. dir[d] \in [1 .. n -> EntryRecord]
    BY <2>2 DEF DirTyped
  <2>4. Len(dir[d]) = n
    BY <2>3
  <2> QED
    BY <2>1, <2>2, <2>4 DEF Slots
<1>2. ASSUME NEW at \in Slot
      PROVE  /\ at \in Ats /\ at = <<at[1], at[2]>> /\ At(at) \in EntryRecord
             /\ at[1] \in DOMAIN dir /\ at[2] \in 1 .. NSlots(at[1])
  <2>1. PICK d \in DOMAIN dir : at \in {d} \X Slots(d)
    BY DEF Slot
  <2>2. PICK i \in 1 .. NSlots(d) : at = <<d, i>>
    BY <1>1, <2>1
  <2>3. d \in 0 .. NClus - 1 /\ i \in 1 .. RootEntries + DirEntries
    <3>1. d \in 0 .. NClus - 1
      BY DEF DirTyped
    <3>2. i \in 1 .. RootEntries + DirEntries
      BY FatSizes DEF NSlots
    <3> QED
      BY <3>1, <3>2
  <2>4. at \in Ats
    BY <2>2, <2>3 DEF Ats
  <2>5. dir[d][i] \in EntryRecord
    BY DEF DirTyped
  <2> QED
    BY <2>2, <2>4, <2>5 DEF At
<1>3. ASSUME NEW d \in DOMAIN dir, NEW i \in Slots(d) PROVE <<d, i>> \in Slot
  BY DEF Slot
<1> QED
  BY <1>1, <1>2, <1>3

LEMMA EntriesAre ==
    ASSUME NEW kind, NEW at
    PROVE  at \in Entries(kind) <=> at \in Slot /\ At(at).kind = kind /\ At(at).name \notin Special
BY DEF Entries, Slot, At, Special

\* The entry at a place becomes e; what places there are new are no files and
\* no directories, and the other entries stay.
Sets(at, e) ==
    /\ DirTyped' /\ at \in Slot /\ Slot \subseteq Slot' /\ At(at)' = e
    /\ \A bt \in Slot : bt # at => At(bt)' = At(bt)
    /\ \A bt \in Slot' : bt \notin Slot => At(bt)'.name \in Special

LEMMA EntriesSet ==
    ASSUME NEW at, NEW e, Sets(at, e), NEW kind
    PROVE  /\ at \in Entries(kind)' <=> e.kind = kind /\ e.name \notin Special
           /\ \A bt : bt # at => (bt \in Entries(kind)' <=> bt \in Entries(kind))
<1>1. \A bt : bt \in Entries(kind)' <=>
                bt \in Slot' /\ At(bt)'.kind = kind /\ At(bt)'.name \notin Special
  BY DEF Entries, Slot, At, Special
<1>2. at \in Slot' /\ At(at)' = e
  BY DEF Sets
<1>3. ASSUME NEW bt, bt # at PROVE bt \in Entries(kind)' <=> bt \in Entries(kind)
  <2>1. CASE bt \in Slot
    <3>1. bt \in Slot' /\ At(bt)' = At(bt)
      BY <1>3, <2>1 DEF Sets
    <3> QED
      BY <1>1, <2>1, <3>1, EntriesAre
  <2>2. CASE bt \notin Slot
    BY <1>1, <2>2, EntriesAre DEF Sets
  <2> QED
    BY <2>1, <2>2
<1> QED
  BY <1>1, <1>2, <1>3

\* An entry is stored.
Stores(d, i, e) == /\ d \in DOMAIN dir /\ i \in Slots(d) /\ e \in EntryRecord
                   /\ dir' = [dir EXCEPT ![d][i] = e]

LEMMA StoredEntry ==
    ASSUME DirTyped, NEW d, NEW i, NEW e, Stores(d, i, e)
    PROVE  Sets(<<d, i>>, e) /\ Slot' = Slot
<1> USE DEF Stores
<1>1. PICK D : D = DOMAIN dir
  OBVIOUS
<1>2. DOMAIN dir' = D /\ dir' = [c \in D |-> dir'[c]]
  BY <1>1 DEF DirTyped
<1>3. ASSUME NEW c \in D PROVE dir'[c] \in [1 .. NSlots(c) -> EntryRecord]
  BY <1>1, <1>3 DEF DirTyped
<1>4. DirTyped'
  BY <1>1, <1>2, <1>3 DEF DirTyped, NSlots
<1>5. \A c \in D : Slots(c)' = Slots(c)
  <2>1. \A c \in D : Slots(c)' = 1 .. NSlots(c)
    BY <1>2, <1>3, <1>4, FatSizes DEF Slots, NSlots
  <2>2. \A c \in D : Slots(c) = 1 .. NSlots(c)
    BY <1>1, SlotIs
  <2> QED
    BY <2>1, <2>2
<1>6. Slot' = Slot
  BY <1>1, <1>2, <1>5 DEF Slot
<1>7. <<d, i>> \in Slot
  BY SlotIs
<1>8. At(<<d, i>>)' = e
  <2>1. i \in 1 .. NSlots(d)
    BY SlotIs
  <2> QED
    BY <2>1 DEF DirTyped, At
<1>9. ASSUME NEW bt \in Slot, bt # <<d, i>> PROVE At(bt)' = At(bt)
  <2>1. bt = <<bt[1], bt[2]>> /\ bt[1] \in DOMAIN dir /\ bt[2] \in 1 .. NSlots(bt[1])
    BY SlotIs
  <2>2. CASE bt[1] # d
    <3>1. dir'[bt[1]] = dir[bt[1]]
      BY <2>1, <2>2
    <3> QED
      BY <3>1 DEF At
  <2>3. CASE bt[1] = d
    <3>1. bt[2] # i
      BY <1>9, <2>1, <2>3
    <3>2. dir'[d] = [dir[d] EXCEPT ![i] = e] /\ dir[d] \in [1 .. NSlots(d) -> EntryRecord]
      BY DEF DirTyped
    <3>3. dir'[d][bt[2]] = dir[d][bt[2]]
      BY <2>1, <2>3, <3>1, <3>2
    <3> QED
      BY <2>3, <3>3 DEF At
  <2> QED
    BY <2>2, <2>3
<1> QED
  BY <1>4, <1>6, <1>7, <1>8, <1>9 DEF Sets
-----------------------------------------------------------------------------
(* The invariant                                                           *)

\* The chain of a file or a directory has room for its size; its entry tells
\* where it starts, or knows of none.
SizesOK(hd) ==
    \A at \in Live :
        /\ \E p : \E L \in Nat : Linked(fat, hd[at], p, L) /\ At(at).size <= ClusSize * L
        /\ At(at).cluster0 = hd[at] \/ (At(at).cluster0 = 0 /\ At(at).size = 0)

\* The cluster of a directory is one of a chain.
DirHeads(hd) == \A d \in DOMAIN dir : d # 0 => \E at \in Entries("dir") : hd[at] = d

\* An open file knows where its chain starts, even when its entry does not.
OpenHeads(hd) == \A fd \in Opened : hd[openfiles[fd].at] = openfiles[fd].info.cluster0

HeadsOK(hd) == ChainsApart(fat, hd) /\ SizesOK(hd) /\ DirHeads(hd) /\ OpenHeads(hd)

\* A file is open once, at a place that its size, and that of its entry, has.
OpenOK ==
    /\ openfiles \in [Fd -> OpenFile \cup {None}]
    /\ \A fd \in Opened : /\ openfiles[fd].at \in Entries("file")
                          /\ openfiles[fd].info.size = At(openfiles[fd].at).size
                          /\ openfiles[fd].offset <= openfiles[fd].info.size
    /\ \A fd, gd \in Opened : openfiles[fd].at = openfiles[gd].at => fd = gd

HostFatInv ==
    /\ fat \in Tables /\ DirTyped /\ BlankOK /\ OpenOK
    /\ \E hd : HeadsOK(hd)

\* The place at gets a chain of its old clusters and of free ones, with room
\* for the size of its new entry.
Rechains(hd, at, e, c, L) ==
    /\ \E p : Linked(fat', c, p, L)
    /\ ChangesAt(fat, fat', hd[at])
    /\ \A x \in CellsOf(fat', c) : x \in CellsOf(fat, hd[at]) \/ fat[x] = Free
    /\ e.name \notin Special => /\ e.size <= ClusSize * L
                                /\ e.cluster0 = c \/ (e.cluster0 = 0 /\ e.size = 0)
    /\ \A d \in DOMAIN dir' : d \in DOMAIN dir \/ d = 0 \/
            (d = c /\ e.kind = "dir" /\ e.name \notin Special)

\* The chains are then those of h.
Rechained(hd, at, h) ==
    /\ ChainsApart(fat', h) /\ SizesOK(h)' /\ DirHeads(h)'
    /\ \A bt \in Ats : bt # at => SameChain(fat, fat', hd[bt])

\* A step that touches the entry, the chain and the descriptor of one file.
LEMMA HeadsStep ==
    ASSUME DirTyped, NEW hd, ChainsApart(fat, hd), SizesOK(hd), DirHeads(hd),
           NEW at, NEW e, Sets(at, e), at \notin Entries("dir"),
           NEW c \in 0 .. NClus, NEW L \in Nat, Rechains(hd, at, e, c, L)
    PROVE  Rechained(hd, at, [hd EXCEPT ![at] = c])
<1> PICK h : h = [hd EXCEPT ![at] = c]
  OBVIOUS
<1> PICK p : Linked(fat', c, p, L)
  BY DEF Rechains
<1>a. /\ ChangesAt(fat, fat', hd[at])
      /\ \A x \in CellsOf(fat', c) : x \in CellsOf(fat, hd[at]) \/ fat[x] = Free
      /\ e.name \notin Special => /\ e.size <= ClusSize * L
                                  /\ e.cluster0 = c \/ (e.cluster0 = 0 /\ e.size = 0)
      /\ \A d \in DOMAIN dir' : d \in DOMAIN dir \/ d = 0 \/
              (d = c /\ e.kind = "dir" /\ e.name \notin Special)
  BY DEF Rechains
<1>1. at \in Ats
  BY SlotIs DEF Sets
<1>2. PICK G : G = fat'
  OBVIOUS
<1>3. ChainsApart(G, h) /\ \A bt \in Ats : bt # at => SameChain(fat, G, hd[bt])
  BY <1>1, <1>2, <1>a, ChainsKept
<1>4. hd \in [Ats -> 0 .. NClus]
  BY DEF ChainsApart
<1>5. h[at] = c /\ \A bt \in Ats : bt # at => h[bt] = hd[bt]
  BY <1>1, <1>4
<1>6. \A bt : bt \in Live' => bt \in Live \/ bt = at
  BY EntriesSet DEF Live
<1>7. ASSUME NEW bt \in Live'
      PROVE  /\ \E q : \E M \in Nat : Linked(G, h[bt], q, M) /\ At(bt)'.size <= ClusSize * M
             /\ At(bt)'.cluster0 = h[bt] \/ (At(bt)'.cluster0 = 0 /\ At(bt)'.size = 0)
  <2>1. CASE bt = at
    <3>1. At(bt)' = e
      BY <2>1 DEF Sets
    <3>2. e.name \notin Special
      BY <2>1, EntriesSet DEF Live
    <3>3. e.size <= ClusSize * L /\ (e.cluster0 = c \/ (e.cluster0 = 0 /\ e.size = 0))
      BY <1>a, <3>2
    <3> QED
      BY <1>2, <1>5, <2>1, <3>1, <3>3
  <2>2. CASE bt # at
    <3>1. bt \in Live
      BY <1>6, <2>2
    <3>2. bt \in Slot
      BY <3>1, EntriesAre DEF Live
    <3>3. bt \in Ats /\ At(bt)' = At(bt) /\ h[bt] = hd[bt]
      BY <1>5, <2>2, <3>2, SlotIs DEF Sets
    <3>4. SameChain(fat, G, hd[bt])
      BY <1>3, <2>2, <3>3
    <3>5. PICK q : \E M \in Nat : Linked(fat, hd[bt], q, M) /\ At(bt).size <= ClusSize * M
      BY <3>1 DEF SizesOK
    <3>6. PICK M \in Nat : Linked(fat, hd[bt], q, M) /\ At(bt).size <= ClusSize * M
      BY <3>5
    <3>7. Linked(G, hd[bt], q, M)
      BY <3>4, <3>6 DEF SameChain
    <3>8. At(bt).cluster0 = hd[bt] \/ (At(bt).cluster0 = 0 /\ At(bt).size = 0)
      BY <3>1 DEF SizesOK
    <3> QED
      BY <3>3, <3>6, <3>7, <3>8
  <2> QED
    BY <2>1, <2>2
<1>8. SizesOK(h)'
  BY <1>2, <1>7 DEF SizesOK
<1>9. DirHeads(h)'
  <2> SUFFICES ASSUME NEW d \in DOMAIN dir', d # 0
               PROVE  \E bt \in Entries("dir")' : h[bt] = d
    BY DEF DirHeads
  <2>1. CASE d \in DOMAIN dir
    <3>1. PICK bt \in Entries("dir") : hd[bt] = d
      BY <2>1 DEF DirHeads
    <3>2. bt # at /\ bt \in Slot
      BY EntriesAre
    <3>3. bt \in Entries("dir")' /\ bt \in Ats
      BY <3>2, EntriesSet, SlotIs
    <3> QED
      BY <1>5, <3>1, <3>2, <3>3
  <2>2. CASE d \notin DOMAIN dir
    <3>1. d = c /\ e.kind = "dir" /\ e.name \notin Special
      BY <1>a, <2>2
    <3>2. at \in Entries("dir")'
      BY <3>1, EntriesSet
    <3> QED
      BY <1>5, <3>1, <3>2
  <2> QED
    BY <2>1, <2>2
<1> QED
  BY <1>2, <1>3, <1>8, <1>9 DEF Rechained

\* A descriptor gets what a file has that no other has open.
SetsOpen(fd, of) ==
    /\ fd \in Fd /\ of \in OpenFile /\ of.offset <= of.info.size
    /\ openfiles' = [openfiles EXCEPT ![fd] = of]
    /\ \A gd \in Opened : gd # fd => openfiles[gd].at # of.at

LEMMA OpenStep ==
    ASSUME OpenOK, NEW hd, hd \in [Ats -> 0 .. NClus], OpenHeads(hd), NEW at \in Ats,
           NEW e, Sets(at, e), e.kind = "file", e.name \notin Special,
           NEW fd, NEW of, SetsOpen(fd, of), of.at = at, of.info.size = e.size
    PROVE  OpenOK' /\ OpenHeads([hd EXCEPT ![at] = of.info.cluster0])'
<1>0. PICK h : h = [hd EXCEPT ![at] = of.info.cluster0]
  OBVIOUS
<1>a. /\ fd \in Fd /\ of \in OpenFile /\ of.offset <= of.info.size
      /\ openfiles' = [openfiles EXCEPT ![fd] = of]
      /\ \A gd \in Opened : gd # fd => openfiles[gd].at # at
  BY DEF SetsOpen
<1>1. openfiles \in [Fd -> OpenFile \cup {None}]
  BY DEF OpenOK
<1>2. /\ openfiles' \in [Fd -> OpenFile \cup {None}] /\ openfiles'[fd] = of
      /\ \A gd \in Fd : gd # fd => openfiles'[gd] = openfiles[gd]
  BY <1>1, <1>a
<1>3. of # None
  BY <1>a, HostFatAssumption
<1>4. Opened' = Opened \cup {fd}
  BY <1>2, <1>3, <1>a DEF Opened
<1>5. h[at] = of.info.cluster0 /\ \A bt \in Ats : bt # at => h[bt] = hd[bt]
  BY <1>0
<1>6. /\ at \in Entries("file")' /\ At(at)' = e
      /\ \A bt : bt # at => (bt \in Entries("file")' <=> bt \in Entries("file"))
  BY EntriesSet DEF Sets
<1>7. ASSUME NEW gd \in Opened, gd # fd
      PROVE  /\ openfiles[gd].at \in Entries("file")' /\ openfiles[gd].at \in Ats
             /\ openfiles[gd].at # at
             /\ \E bt : bt = openfiles[gd].at /\ openfiles[gd].info.size = At(bt)'.size
             /\ openfiles[gd].offset <= openfiles[gd].info.size
             /\ openfiles'[gd] = openfiles[gd]
  <2>1. PICK bt : bt = openfiles[gd].at
    OBVIOUS
  <2>2. bt # at /\ bt \in Entries("file") /\ openfiles[gd].info.size = At(bt).size
    BY <1>7, <1>a, <2>1 DEF OpenOK
  <2>3. bt \in Slot
    BY <2>2, EntriesAre
  <2>4. At(bt)' = At(bt) /\ bt \in Entries("file")'
    BY <1>6, <2>2, <2>3 DEF Sets
  <2>5. gd \in Fd /\ openfiles[gd] \in OpenFile
    BY <1>1 DEF Opened
  <2>6. bt \in Ats
    BY <2>1, <2>5 DEF OpenFile, Ats
  <2> QED
    BY <1>2, <1>7, <1>a, <2>1, <2>2, <2>4, <2>5, <2>6 DEF OpenOK
<1>8. ASSUME NEW gd \in Opened'
      PROVE  /\ openfiles'[gd].at \in Entries("file")'
             /\ openfiles'[gd].info.size = At(openfiles[gd].at)'.size
             /\ openfiles'[gd].offset <= openfiles'[gd].info.size
             /\ h[openfiles'[gd].at] = openfiles'[gd].info.cluster0
             /\ gd # fd => gd \in Opened /\ openfiles'[gd].at # at
  <2>1. CASE gd = fd
    <3>1. openfiles'[gd] = of
      BY <1>2, <2>1
    <3>2. At(openfiles[gd].at)' = At(at)'
      BY <3>1 DEF At
    <3> QED
      BY <1>5, <1>6, <1>a, <2>1, <3>1, <3>2
  <2>2. CASE gd # fd
    <3>1. gd \in Opened
      BY <1>4, <2>2
    <3>2. hd[openfiles[gd].at] = openfiles[gd].info.cluster0
      BY <3>1 DEF OpenHeads
    <3>3. PICK bt : bt = openfiles[gd].at /\ openfiles[gd].info.size = At(bt)'.size
      BY <1>7, <2>2, <3>1
    <3>4. openfiles'[gd] = openfiles[gd]
      BY <1>7, <2>2, <3>1
    <3>5. At(openfiles[gd].at)' = At(bt)'
      BY <3>3, <3>4 DEF At
    <3> QED
      BY <1>5, <1>7, <2>2, <3>1, <3>2, <3>3, <3>4, <3>5
  <2> QED
    BY <2>1, <2>2
<1>9. ASSUME NEW gd \in Opened', NEW kd \in Opened', openfiles'[gd].at = openfiles'[kd].at
      PROVE  gd = kd
  <2>1. openfiles'[fd].at = at
    BY <1>2
  <2>2. CASE gd = fd \/ kd = fd
    BY <1>8, <1>9, <2>1, <2>2
  <2>3. CASE gd # fd /\ kd # fd
    <3>1. gd \in Opened /\ kd \in Opened
      BY <1>8, <2>3
    <3>2. openfiles[gd].at = openfiles[kd].at
      BY <1>7, <1>9, <2>3, <3>1
    <3> QED
      BY <3>1, <3>2 DEF OpenOK
  <2> QED
    BY <2>2, <2>3
<1> QED
  BY <1>0, <1>2, <1>8, <1>9 DEF OpenOK, OpenHeads
-----------------------------------------------------------------------------
(* The steps                                                               *)

LEMMA HostFatStart == FatInit => HostFatInv
<1> SUFFICES ASSUME FatInit PROVE HostFatInv
  OBVIOUS
<1>1. fat \in Tables
  BY FatSizes DEF FatInit, Tables, Cluster
<1>2. NoEntry \in EntryRecord /\ NoEntry.cluster0 = 0 /\ NoEntry.size = 0 /\ NoEntry.name \in Special
  <2>1. 0 \in 0 .. NClus /\ 0 \in 0 .. MaxLen
    BY FatSizes
  <2> QED
    BY <2>1 DEF NoEntry, Entry, EntryRecord, Special
<1>3. DirTyped
  BY <1>2, FatSizes DEF FatInit, DirTyped, NSlots
<1>4. \A at \in Slot : At(at) = NoEntry
  BY <1>3, SlotIs DEF FatInit, At, NSlots
<1>5. BlankOK
  BY <1>2, <1>4 DEF BlankOK
<1>6. Opened = {}
  BY DEF FatInit, Opened
<1>7. OpenOK
  BY <1>6 DEF OpenOK, FatInit
<1>8. Live = {}
  BY <1>2, <1>4, EntriesAre DEF Live
<1>9. PICK hd : hd = [bt \in Ats |-> 0]
  OBVIOUS
<1>10. ChainsApart(fat, hd)
  <2>1. 0 \in 0 .. NClus /\ 0 \in Nat
    BY FatSizes
  <2>2. Linked(fat, 0, 0, 0)
    BY DEF Linked
  <2> QED
    BY <1>9, <2>1, <2>2 DEF ChainsApart, CellsOf
<1>11. SizesOK(hd) /\ OpenHeads(hd)
  BY <1>6, <1>8 DEF SizesOK, OpenHeads
<1>12. DirHeads(hd)
  BY DEF DirHeads, FatInit
<1> QED
  BY <1>1, <1>3, <1>5, <1>7, <1>10, <1>11, <1>12 DEF HostFatInv, HeadsOK

\* The place in an open file may change, and a file may be closed.
LEMMA MovesPlace ==
    ASSUME HostFatInv, UNCHANGED <<fat, dir>>,
           openfiles' \in [Fd -> OpenFile \cup {None}],
           \A fd \in Opened' :
                /\ fd \in Opened /\ openfiles'[fd].at = openfiles[fd].at
                /\ openfiles'[fd].info = openfiles[fd].info
                /\ openfiles'[fd].offset <= openfiles[fd].info.size
    PROVE  HostFatInv'
<1>1. PICK hd : HeadsOK(hd)
  BY DEF HostFatInv
<1>2. fat' \in Tables /\ DirTyped' /\ BlankOK'
  BY DEF HostFatInv, DirTyped, BlankOK, Slot, Slots, At
<1>3. /\ \A kind : Entries(kind)' = Entries(kind)
      /\ \A at : At(at)' = At(at)
  BY DEF Entries, Slots, At
<1>4. OpenOK'
  <2>1. ASSUME NEW fd \in Opened'
        PROVE  /\ openfiles'[fd].at \in Entries("file")'
               /\ openfiles'[fd].info.size = At(openfiles[fd].at)'.size
               /\ openfiles'[fd].offset <= openfiles'[fd].info.size
    <3>1. fd \in Opened /\ At(openfiles[fd].at)' = At(openfiles[fd].at)
      BY DEF At
    <3> QED
      BY <1>3, <3>1 DEF HostFatInv, OpenOK
  <2>2. \A fd, gd \in Opened' : openfiles'[fd].at = openfiles'[gd].at => fd = gd
    BY DEF HostFatInv, OpenOK
  <2> QED
    BY <2>1, <2>2 DEF OpenOK
<1>5. ChainsApart(fat, hd)' /\ DirHeads(hd)' /\ OpenHeads(hd)'
  BY <1>1, <1>3 DEF HeadsOK, DirHeads, OpenHeads
<1>6. SizesOK(hd)'
  <2>1. Live' = Live
    BY <1>3 DEF Live
  <2> QED
    BY <1>1, <1>3, <2>1 DEF HeadsOK, SizesOK
<1> QED
  BY <1>2, <1>4, <1>5, <1>6 DEF HostFatInv, HeadsOK

LEMMA CloseStep ==
    ASSUME HostFatInv, NEW fd \in Fd, f_close(fd)
    PROVE  HostFatInv'
<1>1. openfiles \in [Fd -> OpenFile \cup {None}]
  BY DEF HostFatInv, OpenOK
<1>2. openfiles' = [openfiles EXCEPT ![fd] = None] /\ UNCHANGED <<fat, dir>>
  BY DEF f_close
<1>3. openfiles' \in [Fd -> OpenFile \cup {None}]
  BY <1>1, <1>2
<1>4. ASSUME NEW gd \in Opened'
      PROVE  gd \in Opened /\ openfiles'[gd] = openfiles[gd]
  BY <1>1, <1>2 DEF Opened
<1>5. \A gd \in Opened : openfiles[gd].offset <= openfiles[gd].info.size
  BY DEF HostFatInv, OpenOK
<1> QED
  BY <1>2, <1>3, <1>4, <1>5, MovesPlace

\* The descriptor gets another offset in its file.
LEMMA NewOffset ==
    ASSUME HostFatInv, NEW fd \in Opened, NEW offset \in Nat,
           offset <= openfiles[fd].info.size, UNCHANGED <<fat, dir>>,
           openfiles' = [openfiles EXCEPT ![fd].offset = offset]
    PROVE  HostFatInv'
<1>1. openfiles \in [Fd -> OpenFile \cup {None}] /\ fd \in Fd /\ openfiles[fd] # None
  BY DEF HostFatInv, OpenOK, Opened
<1>2. PICK of \in OpenFile : of = openfiles[fd]
  BY <1>1
<1>3. offset \in 0 .. MaxLen
  <2>1. of.info.size \in 0 .. MaxLen
    BY DEF OpenFile, EntryRecord
  <2> QED
    BY <1>2, <2>1, FatSizes
<1>4. PICK o : o = [of EXCEPT !.offset = offset]
  OBVIOUS
<1>5. o \in OpenFile /\ o.at = of.at /\ o.info = of.info /\ o.offset = offset
  BY <1>3, <1>4 DEF OpenFile
<1>6. openfiles' = [openfiles EXCEPT ![fd] = o]
  BY <1>1, <1>2, <1>4
<1>7. openfiles' \in [Fd -> OpenFile \cup {None}]
  BY <1>1, <1>5, <1>6
<1>8. ASSUME NEW gd \in Opened'
      PROVE  /\ gd \in Opened /\ openfiles'[gd].at = openfiles[gd].at
             /\ openfiles'[gd].info = openfiles[gd].info
             /\ openfiles'[gd].offset <= openfiles[gd].info.size
  <2>1. CASE gd = fd
    BY <1>1, <1>2, <1>5, <1>6, <2>1
  <2>2. CASE gd # fd
    <3>1. gd \in Opened /\ openfiles'[gd] = openfiles[gd]
      BY <1>1, <1>6, <2>2 DEF Opened
    <3> QED
      BY <3>1 DEF HostFatInv, OpenOK
  <2> QED
    BY <2>1, <2>2
<1> QED
  BY <1>7, <1>8, MovesPlace

LEMMA SeekStep ==
    ASSUME HostFatInv, NEW fd \in Fd, f_lseek(fd)
    PROVE  HostFatInv'
<1>1. fd \in Opened /\ UNCHANGED <<fat, dir>>
  BY DEF f_lseek
<1>2. PICK offset \in {0, openfiles[fd].info.size} :
            openfiles' = [openfiles EXCEPT ![fd].offset = offset]
  BY DEF f_lseek
<1>3. openfiles[fd].info.size \in Nat
  BY <1>1 DEF HostFatInv, OpenOK, Opened, OpenFile, EntryRecord
<1>4. offset \in Nat /\ offset <= openfiles[fd].info.size
  BY <1>2, <1>3
<1> QED
  BY <1>1, <1>2, <1>4, NewOffset

\* What f_read is asked for, as far as the file goes.
LEMMA ReadSize ==
    ASSUME OpenOK, NEW fd \in Opened, NEW size \in Nat, NEW n,
           n = IF openfiles[fd].offset + size > openfiles[fd].info.size
               THEN openfiles[fd].info.size - openfiles[fd].offset ELSE size
    PROVE  /\ n \in Nat /\ openfiles[fd].offset \in Nat /\ openfiles[fd].info.size \in Nat
           /\ openfiles[fd].offset + n <= openfiles[fd].info.size
<1>1. PICK of \in OpenFile : of = openfiles[fd]
  BY DEF OpenOK, Opened
<1>2. PICK s \in Nat, o \in Nat : s = of.info.size /\ o = of.offset
  BY DEF OpenFile, EntryRecord
<1>3. o <= s
  BY <1>1, <1>2 DEF OpenOK
<1>4. n \in Nat /\ o + n <= s
  BY <1>1, <1>2, <1>3
<1> QED
  BY <1>1, <1>2, <1>4

LEMMA ReadFileStep ==
    ASSUME HostFatInv, NEW fd \in Fd, NEW size \in Nat, f_read(fd, size)
    PROVE  HostFatInv'
<1>1. PICK n : n = IF openfiles[fd].offset + size > openfiles[fd].info.size
                   THEN openfiles[fd].info.size - openfiles[fd].offset ELSE size
  OBVIOUS
<1>2. /\ fd \in Opened /\ UNCHANGED <<fat, dir>>
      /\ openfiles' = [openfiles EXCEPT ![fd].offset = @ + n]
  BY <1>1 DEF f_read
<1>3. PICK offset : offset = openfiles[fd].offset + n
  OBVIOUS
<1>4. offset \in Nat /\ offset <= openfiles[fd].info.size
  BY <1>1, <1>2, <1>3, ReadSize DEF HostFatInv
<1>5. openfiles' = [openfiles EXCEPT ![fd].offset = offset]
  BY <1>2, <1>3
<1> QED
  BY <1>2, <1>4, <1>5, NewOffset
\* Blank entries are neither files nor directories.
LEMMA BlankNotLive ==
    ASSUME BlankOK, NEW d \in DOMAIN dir, NEW i \in Slots(d), Blank(d, i)
    PROVE  /\ <<d, i>> \notin Entries("file") /\ <<d, i>> \notin Entries("dir")
           /\ dir[d][i].cluster0 = 0 /\ dir[d][i].size = 0
<1>1. At(<<d, i>>) = dir[d][i] /\ <<d, i>> \in Slot
  BY DEF At, Slot
<1>2. dir[d][i].name \in {UnusedEnt, Erased}
  BY DEF Blank
<1> QED
  BY <1>1, <1>2, EntriesAre DEF Special, BlankOK

\* A new name makes an entry of a blank one.
LEMMA NamedIs ==
    ASSUME DirTyped, BlankOK, NEW d \in DOMAIN dir, NEW i \in Slots(d), Blank(d, i),
           NEW path, Last(path) \in Special \cup DirName \cup {p[Len(p)] : p \in Path},
           NEW kind \in {"file", "dir", "dev"}, NEW e, e = Named(d, i, path, kind)
    PROVE  /\ e \in EntryRecord /\ e.name = Last(path) /\ e.kind = kind
           /\ e.cluster0 = 0 /\ e.size = 0
<1>1. PICK r \in EntryRecord : r = dir[d][i]
  BY SlotIs DEF DirTyped
<1>2. r.cluster0 = 0 /\ r.size = 0
  BY <1>1, BlankNotLive
<1>3. PICK name : name = Last(path) /\ name \in Special \cup DirName \cup {p[Len(p)] : p \in Path}
  OBVIOUS
<1>4. e = [r EXCEPT !.name = name, !.kind = kind]
  BY <1>1, <1>3 DEF Named
<1>5. e \in EntryRecord
  BY <1>3, <1>4 DEF EntryRecord
<1>6. e.name = name /\ e.kind = kind /\ e.cluster0 = 0 /\ e.size = 0
  BY <1>2, <1>4 DEF EntryRecord
<1> QED
  BY <1>3, <1>5, <1>6

\* The entry that f_open works on: a file's, or one that is made of a blank
\* one.  What it tells of its chain is true.
OpensEntry(d, i, e, hd, fresh) ==
    /\ d \in DOMAIN dir /\ i \in Slots(d)
    /\ e \in EntryRecord /\ e.kind = "file" /\ e.name \notin Special
    /\ <<d, i>> \notin Entries("dir")
    /\ e.cluster0 \in {0, hd[<<d, i>>]}
    /\ \E p : \E K \in Nat : Linked(fat, e.cluster0, p, K) /\ e.size <= ClusSize * K
    /\ IF fresh THEN <<d, i>> \notin Entries("file") /\ e.size = 0
       ELSE <<d, i>> \in Entries("file") /\ e = At(<<d, i>>)

LEMMA OpensIs ==
    ASSUME DirTyped, BlankOK, NEW hd, SizesOK(hd), NEW path \in Path,
           NEW d \in DOMAIN dir, NEW i \in Slots(d), d = DirOf(path), NEW e,
           IF Exists(path) THEN i = EntrySlot(d, Last(path)) /\ dir[d][i].kind = "file"
           ELSE FirstBlank(d, i),
           e = IF Exists(path) THEN dir[d][i] ELSE Named(d, i, path, "file")
    PROVE  OpensEntry(d, i, e, hd, ~ Exists(path))
<1>1. PICK at : at = <<d, i>>
  OBVIOUS
<1>2. at \in Slot /\ At(at) = dir[d][i] /\ At(at) \in EntryRecord
  BY <1>1, SlotIs DEF At
<1>3. Last(path) \notin Special /\ Last(path) \in {p[Len(p)] : p \in Path}
  BY HostFatAssumption DEF Last
<1>4. Linked(fat, 0, 0, 0)
  BY DEF Linked
<1>5. CASE Exists(path)
  <2>1. \E j \in Slots(d) : Finds(d, j, Last(path))
    BY <1>5 DEF Exists, Has
  <2>2. Finds(d, i, Last(path))
    BY <1>5, <2>1 DEF EntrySlot
  <2>3. e = At(at) /\ e.kind = "file" /\ e.name = Last(path)
    BY <1>2, <1>5, <2>2 DEF Finds
  <2>4. at \in Entries("file")
    BY <1>2, <1>3, <2>3, EntriesAre
  <2>5. at \notin Entries("dir")
    BY <2>3, EntriesAre
  <2>6. /\ \E p : \E K \in Nat : Linked(fat, hd[at], p, K) /\ e.size <= ClusSize * K
        /\ e.cluster0 = hd[at] \/ (e.cluster0 = 0 /\ e.size = 0)
    BY <2>3, <2>4 DEF SizesOK, Live
  <2>7. \E p : \E K \in Nat : Linked(fat, e.cluster0, p, K) /\ e.size <= ClusSize * K
    <3>1. CASE e.cluster0 = hd[at]
      BY <2>6, <3>1
    <3>2. CASE e.cluster0 # hd[at]
      <4>1. e.cluster0 = 0 /\ e.size = 0
        BY <2>6, <3>2
      <4>2. 0 <= ClusSize * 0
        BY FatSizes
      <4>3. 0 \in Nat /\ Linked(fat, e.cluster0, 0, 0) /\ e.size <= ClusSize * 0
        BY <1>4, <4>1, <4>2
      <4> QED
        BY <4>3
    <3> QED
      BY <3>1, <3>2
  <2> QED
    BY <1>1, <1>2, <1>3, <1>5, <2>3, <2>4, <2>5, <2>6, <2>7 DEF OpensEntry
<1>6. CASE ~ Exists(path)
  <2>1. Blank(d, i)
    BY <1>6 DEF FirstBlank
  <2>2. PICK kind : kind = "file"
    OBVIOUS
  <2>3. e = Named(d, i, path, kind) /\ kind \in {"file", "dir", "dev"}
    BY <1>6, <2>2
  <2>4. /\ e \in EntryRecord /\ e.name = Last(path) /\ e.kind = "file"
        /\ e.cluster0 = 0 /\ e.size = 0
    BY <1>3, <2>1, <2>2, <2>3, NamedIs
  <2>5. at \notin Entries("file") /\ at \notin Entries("dir")
    BY <1>1, <2>1, BlankNotLive
  <2>6. 0 \in Nat /\ Linked(fat, e.cluster0, 0, 0) /\ e.size <= ClusSize * 0
    BY <1>4, <2>4, FatSizes
  <2>7. \E p : \E K \in Nat : Linked(fat, e.cluster0, p, K) /\ e.size <= ClusSize * K
    BY <2>6
  <2> QED
    BY <1>1, <1>3, <1>6, <2>4, <2>5, <2>7 DEF OpensEntry
<1> QED
  BY <1>5, <1>6

\* What becomes of it: t, after a truncation or without one.
Opens(at, e, hd, trunc, t) ==
    /\ t.fat \in Tables /\ t.info \in EntryRecord /\ t.info.kind = "file"
    /\ t.info.name \notin Special
    /\ ChangesAt(fat, t.fat, hd[at])
    /\ \A x \in CellsOf(t.fat, t.info.cluster0) : x \in CellsOf(fat, hd[at])
    /\ \E p : \E K \in Nat :
         Linked(t.fat, t.info.cluster0, p, K) /\ t.info.size <= ClusSize * K
    /\ IF trunc THEN t.info.size = 0 ELSE t.fat = fat /\ t.info = e

LEMMA OpensFile ==
    ASSUME fat \in Tables, NEW hd, ChainsApart(fat, hd), NEW d, NEW i, NEW e, NEW fresh,
           <<d, i>> \in Ats, OpensEntry(d, i, e, hd, fresh), NEW trunc
    PROVE  Opens(<<d, i>>, e, hd, trunc,
                 IF trunc THEN Trunc(fat, e, 0) ELSE [fat |-> fat, info |-> e])
<1> PICK t : t = IF trunc THEN Trunc(fat, e, 0) ELSE [fat |-> fat, info |-> e]
  OBVIOUS
<1>1. PICK at : at = <<d, i>>
  OBVIOUS
<1>2. /\ e \in EntryRecord /\ e.kind = "file" /\ e.name \notin Special
      /\ e.cluster0 \in {0, hd[at]}
      /\ \E p : \E K \in Nat : Linked(fat, e.cluster0, p, K) /\ e.size <= ClusSize * K
  BY <1>1 DEF OpensEntry
<1>3. PICK p : \E K \in Nat : Linked(fat, e.cluster0, p, K) /\ e.size <= ClusSize * K
  BY <1>2
<1>4. PICK K \in Nat : Linked(fat, e.cluster0, p, K) /\ e.size <= ClusSize * K
  BY <1>3
<1>5. \A x \in CellsOf(fat, e.cluster0) : x \in CellsOf(fat, hd[at])
  BY <1>2 DEF CellsOf
<1>6. CASE trunc
  <2>1. t = Trunc(fat, e, 0)
    BY <1>6
  <2>2. /\ t.fat \in Tables /\ t.info = [e EXCEPT !.size = 0, !.cluster0 = 0]
        /\ \A x \in Cluster : x \notin CellsOf(fat, e.cluster0) => t.fat[x] = fat[x]
    <3>1. e \in EntryRecord /\ Linked(fat, e.cluster0, p, K)
      BY <1>2, <1>4
    <3>2. Emptied(fat, e, t)
      BY <2>1, <3>1, TruncZero
    <3> QED
      BY <3>2 DEF Emptied
  <2>3. /\ t.info \in EntryRecord /\ t.info.kind = "file" /\ t.info.name \notin Special
        /\ t.info.cluster0 = 0 /\ t.info.size = 0
    <3>1. 0 \in 0 .. NClus /\ 0 \in 0 .. MaxLen
      BY FatSizes
    <3> QED
      BY <1>2, <2>2, <3>1 DEF EntryRecord
  <2>4. ChangesAt(fat, t.fat, hd[at])
    BY <1>5, <2>2 DEF ChangesAt
  <2>5. CellsOf(t.fat, t.info.cluster0) = {}
    BY <2>3 DEF CellsOf
  <2>6. 0 \in Nat /\ Linked(t.fat, t.info.cluster0, 0, 0) /\ t.info.size <= ClusSize * 0
    BY <2>3, FatSizes DEF Linked
  <2> QED
    BY <1>1, <1>6, <2>2, <2>3, <2>4, <2>5, <2>6 DEF Opens
<1>7. CASE ~ trunc
  <2>1. t.fat = fat /\ t.info = e
    BY <1>7
  <2>2. ChangesAt(fat, t.fat, hd[at])
    BY <2>1 DEF ChangesAt
  <2> QED
    BY <1>1, <1>2, <1>4, <1>5, <1>7, <2>1, <2>2 DEF Opens
<1> QED
  BY <1>1, <1>6, <1>7

\* The step sets the entry at a place; the chains of the other places stay.
Keeps(hd, at, e) ==
    /\ HeadsOK(hd) /\ Sets(at, e)
    /\ \A bt \in Ats : bt # at => SameChain(fat, fat', hd[bt])

\* What f_open does: the entry e becomes that of t.
OpenDone(fd, hd, at, e, t, trunc, fresh) ==
    /\ Keeps(hd, at, t.info) /\ fat' = t.fat /\ data' = data /\ readback' = <<>>
    /\ openfiles[fd] = None /\ at \in Ats
    /\ openfiles' = [openfiles EXCEPT ![fd] = [at |-> at, info |-> t.info, offset |-> 0]]
    /\ t.info \in EntryRecord /\ t.info.kind = "file" /\ t.info.name \notin Special
    /\ IF trunc THEN t.info.size = 0 ELSE t.fat = fat /\ t.info = e
    /\ IF fresh THEN at \notin Entries("file") /\ e.size = 0
       ELSE at \in Entries("file") /\ e = At(at)
    /\ HostFatInv'

LEMMA OpenFileStep ==
    ASSUME HostFatInv, NEW fd \in Fd, NEW path \in Path, NEW creat, NEW trunc,
           f_open(fd, path, creat, trunc)
    PROVE  \E hd, at, e, t, fresh : OpenDone(fd, hd, at, e, t, trunc, fresh)
<1>1. PICK d \in DOMAIN dir, i \in 1 .. RootEntries + DirEntries :
        /\ unused_fd(fd) /\ d = DirOf(path) /\ i \in Slots(d) /\ Apart(<<d, i>>)
        /\ IF Exists(path)
           THEN i = EntrySlot(d, Last(path)) /\ dir[d][i].kind = "file"
           ELSE creat /\ FirstBlank(d, i)
        /\ LET e == IF Exists(path) THEN dir[d][i]
                    ELSE Named(d, i, path, "file")
               t == IF trunc THEN Trunc(fat, e, 0)
                    ELSE [fat |-> fat, info |-> e]
           IN
           /\ fat' = t.fat
           /\ dir' = [dir EXCEPT ![d][i] = t.info]
           /\ openfiles' = [openfiles EXCEPT ![fd] =
                            [at |-> <<d, i>>, info |-> t.info, offset |-> 0]]
        /\ readback' = <<>> /\ UNCHANGED data
  BY DEF f_open
<1>2. PICK e : e = IF Exists(path) THEN dir[d][i] ELSE Named(d, i, path, "file")
  OBVIOUS
<1>3. PICK t : t = IF trunc THEN Trunc(fat, e, 0) ELSE [fat |-> fat, info |-> e]
  OBVIOUS
<1>4. PICK of : of = [at |-> <<d, i>>, info |-> t.info, offset |-> 0]
  OBVIOUS
<1>5. /\ fat' = t.fat /\ dir' = [dir EXCEPT ![d][i] = t.info]
      /\ openfiles' = [openfiles EXCEPT ![fd] = of]
  BY <1>1, <1>2, <1>3, <1>4
<1>6. PICK hd : HeadsOK(hd)
  BY DEF HostFatInv
<1>7. /\ fat \in Tables /\ DirTyped /\ BlankOK /\ OpenOK
      /\ ChainsApart(fat, hd) /\ SizesOK(hd) /\ DirHeads(hd) /\ OpenHeads(hd)
  BY <1>6 DEF HostFatInv, HeadsOK
<1>8. PICK at : at = <<d, i>>
  OBVIOUS
<1>9. at \in Slot /\ at \in Ats /\ i \in Slots(d)
  BY <1>1, <1>7, <1>8, SlotIs
<1>10. OpensEntry(d, i, e, hd, ~ Exists(path))
  <2>1. IF Exists(path) THEN i = EntrySlot(d, Last(path)) /\ dir[d][i].kind = "file"
        ELSE FirstBlank(d, i)
    BY <1>1
  <2> QED
    BY <1>1, <1>2, <1>7, <1>9, <2>1, OpensIs
<1>11. /\ t.fat \in Tables /\ t.info \in EntryRecord /\ t.info.kind = "file"
       /\ t.info.name \notin Special
       /\ ChangesAt(fat, t.fat, hd[at])
       /\ \A x \in CellsOf(t.fat, t.info.cluster0) : x \in CellsOf(fat, hd[at])
       /\ \E p : \E K \in Nat :
            Linked(t.fat, t.info.cluster0, p, K) /\ t.info.size <= ClusSize * K
       /\ IF trunc THEN t.info.size = 0 ELSE t.fat = fat /\ t.info = e
  <2>1. Opens(at, e, hd, trunc, t)
    BY <1>3, <1>7, <1>8, <1>9, <1>10, OpensFile
  <2> QED
    BY <2>1 DEF Opens
<1>12. PICK p : \E K \in Nat :
            Linked(t.fat, t.info.cluster0, p, K) /\ t.info.size <= ClusSize * K
  BY <1>11
<1>13. PICK K \in Nat : Linked(t.fat, t.info.cluster0, p, K) /\ t.info.size <= ClusSize * K
  BY <1>12
<1>14. Sets(at, t.info) /\ Slot' = Slot
  <2>1. Stores(d, i, t.info)
    BY <1>1, <1>5, <1>11 DEF Stores
  <2> QED
    BY <1>7, <1>8, <2>1, StoredEntry
<1>15. PICK c \in 0 .. NClus : c = t.info.cluster0
  BY <1>11 DEF EntryRecord
<1>16. PICK h : h = [hd EXCEPT ![at] = c]
  OBVIOUS
<1>17. /\ ChainsApart(fat', h) /\ SizesOK(h)' /\ DirHeads(h)'
       /\ \A bt \in Ats : bt # at => SameChain(fat, fat', hd[bt])
  <2>1. at \notin Entries("dir")
    BY <1>8, <1>10 DEF OpensEntry
  <2>2. \A g \in DOMAIN dir' : g \in DOMAIN dir
    BY <1>5, <1>7 DEF DirTyped
  <2>3. Linked(fat', c, p, K) /\ t.info.size <= ClusSize * K /\ t.info.cluster0 = c
    BY <1>5, <1>13, <1>15
  <2>4. ChangesAt(fat, fat', hd[at])
    BY <1>5, <1>11
  <2>5. \A x \in CellsOf(fat', c) : x \in CellsOf(fat, hd[at]) \/ fat[x] = Free
    BY <1>5, <1>11, <1>15
  <2> QED
    <3>1. Rechains(hd, at, t.info, c, K)
      BY <2>2, <2>3, <2>4, <2>5 DEF Rechains
    <3>2. Rechained(hd, at, h)
      BY <1>7, <1>14, <1>16, <2>1, <3>1, HeadsStep
    <3> QED
      BY <3>2 DEF Rechained
<1>18. OpenOK' /\ OpenHeads(h)'
  <2>1. of \in OpenFile /\ of.at = at /\ of.info = t.info /\ of.offset = 0
    <3>1. 0 \in 0 .. MaxLen /\ at \in (0 .. NClus - 1) \X (1 .. RootEntries + DirEntries)
      BY <1>9, FatSizes DEF Ats
    <3> QED
      BY <1>4, <1>8, <1>11, <3>1 DEF OpenFile
  <2>2. of.offset <= of.info.size
    <3>1. t.info.size \in Nat
      BY <1>11 DEF EntryRecord
    <3> QED
      BY <2>1, <3>1
  <2>3. \A gd \in Opened : gd # fd => openfiles[gd].at # at
    BY <1>1, <1>8 DEF Apart
  <2>4. hd \in [Ats -> 0 .. NClus]
    BY <1>7 DEF ChainsApart
  <2>5. of.info.size = t.info.size /\ h = [hd EXCEPT ![at] = of.info.cluster0]
    BY <1>15, <1>16, <2>1
  <2>6. SetsOpen(fd, of)
    BY <1>5, <2>1, <2>2, <2>3 DEF SetsOpen
  <2> QED
    BY <1>7, <1>9, <1>11, <1>14, <2>1, <2>4, <2>5, <2>6, OpenStep
<1>19. BlankOK'
  <2>1. t.info.name \notin {UnusedEnt, Erased}
    BY <1>11 DEF Special
  <2> QED
    BY <1>7, <1>14, <2>1 DEF BlankOK, Sets
<1>20. fat' \in Tables /\ DirTyped'
  BY <1>5, <1>11, <1>14 DEF Sets
<1>21. HostFatInv'
  BY <1>17, <1>18, <1>19, <1>20 DEF HostFatInv, HeadsOK
<1>22. Keeps(hd, at, t.info)
  BY <1>6, <1>14, <1>17 DEF Keeps
<1>23. PICK fresh : fresh = ~ Exists(path)
  OBVIOUS
<1>24. IF fresh THEN at \notin Entries("file") /\ e.size = 0
       ELSE at \in Entries("file") /\ e = At(at)
  BY <1>8, <1>10, <1>23 DEF OpensEntry
<1>25. openfiles[fd] = None /\ data' = data /\ readback' = <<>>
  BY <1>1 DEF unused_fd
<1>26. openfiles' = [openfiles EXCEPT ![fd] = [at |-> at, info |-> t.info, offset |-> 0]]
  BY <1>4, <1>5, <1>8
<1>27. OpenDone(fd, hd, at, e, t, trunc, fresh)
  BY <1>5, <1>9, <1>11, <1>21, <1>22, <1>24, <1>25, <1>26 DEF OpenDone
<1> QED
  BY <1>27
\* What f_write has of the chain and of the copy of the entry.
WriteTo(of, n) ==
    IF of.offset + n > of.info.size THEN Trunc(fat, of.info, of.offset + n)
    ELSE [fat |-> fat, info |-> of.info, ok |-> TRUE]

\* The chain of K clusters has become one of L, which the bytes fit in if
\* all went well.
Writable(of, K, n, t, L) ==
    /\ t.fat \in Tables /\ t.info \in EntryRecord
    /\ \E p : Linked(t.fat, t.info.cluster0, p, L)
    /\ Longer(fat, of.info, K, t.fat, t.info.cluster0, L)
    /\ t.info.size <= ClusSize * L
    /\ t.ok => /\ of.offset + n <= t.info.size
               /\ t.info.size = IF of.offset + n > of.info.size THEN of.offset + n
                                ELSE of.info.size
    /\ ~ t.ok => t.info.size = of.info.size

LEMMA MoreRoom ==
    ASSUME NEW size \in Nat, NEW K \in Nat, NEW L \in Nat, K <= L, size <= ClusSize * K
    PROVE  size <= ClusSize * L
<1>1. PICK d \in Nat : L = K + d
  <2>1. L - K \in Nat /\ L = K + (L - K)
    OBVIOUS
  <2> QED
    BY <2>1
<1>2. PICK b \in Nat : b = ClusSize
  BY FatSizes
<1>3. b * (K + d) = b * K + b * d
  OBVIOUS
<1>4. PICK u \in Nat, v \in Nat : u = b * K /\ v = b * d
  OBVIOUS
<1> QED
  BY <1>1, <1>2, <1>3, <1>4

LEMMA WriteGrows ==
    ASSUME ~ CopiesOver, fat \in Tables, NEW of \in OpenFile, NEW p, NEW K \in Nat,
           Linked(fat, of.info.cluster0, p, K), of.info.size <= ClusSize * K,
           NEW n \in Nat, of.offset + n <= MaxLen, of.offset + n > of.info.size,
           ~ GrowsInPlace(of.info, of.offset + n)
    PROVE  \E L \in Nat : Writable(of, K, n, WriteTo(of, n), L)
<1>1. PICK info \in EntryRecord, offset \in Nat, size \in Nat :
        info = of.info /\ offset = of.offset /\ size = info.size
  BY DEF OpenFile, EntryRecord
<1>2. PICK length \in Nat : length = offset + n
  BY <1>1
<1>3. length \in 0 .. MaxLen /\ length > size /\ length > 0
  BY <1>1, <1>2, FatSizes
<1>4. PICK target \in Nat : target = Clusters(length) /\ target > 0 /\ ClusSize * target >= length
  BY <1>2, <1>3, ClustersHold
<1>5. Linked(fat, info.cluster0, p, K)
  BY <1>1
<1>6. K < target
  <2>1. Walked(fat, info, target) = IF target < K THEN target ELSE K
    BY <1>5, WalkedIs, Zenon
  <2>2. Walked(fat, info, target) # target
    BY <1>1, <1>2, <1>4 DEF GrowsInPlace
  <2> QED
    BY <2>1, <2>2
<1>7. PICK e : /\ Grown(e, fat, info, K, target - K)
               /\ Trunc(fat, info, length) = IF e.ok THEN [e EXCEPT !.info.size = length] ELSE e
  BY <1>4, <1>5, <1>6, TruncGrows
<1>8. PICK t : t = WriteTo(of, n)
  OBVIOUS
<1>9. t = IF e.ok THEN [e EXCEPT !.info.size = length] ELSE e
  BY <1>1, <1>2, <1>7, <1>8 DEF WriteTo
<1>10. e \in Growing /\ e.info = [info EXCEPT !.cluster0 = e.info.cluster0]
  BY <1>7 DEF Grown
<1>11. e.fat \in Tables /\ e.info \in EntryRecord /\ e.ok \in BOOLEAN /\ e.info.size = size
  BY <1>1, <1>10 DEF Growing, EntryRecord
<1>12. PICK L \in Nat : /\ Linked(e.fat, e.info.cluster0, e.p, L)
                        /\ Longer(fat, info, K, e.fat, e.info.cluster0, L)
                        /\ e.ok => L = K + (target - K)
  BY <1>7 DEF Grown
<1>13. /\ t.fat = e.fat /\ t.ok = e.ok /\ t.info \in EntryRecord
       /\ t.info.cluster0 = e.info.cluster0
       /\ t.info.size = IF e.ok THEN length ELSE size
  <2>1. CASE e.ok
    <3>1. t = [e EXCEPT !.info.size = length]
      BY <1>9, <2>1
    <3> QED
      BY <1>3, <1>10, <1>11, <2>1, <3>1 DEF Growing, EntryRecord
  <2>2. CASE ~ e.ok
    BY <1>9, <1>11, <2>2
  <2> QED
    BY <2>1, <2>2
<1>14. t.info.size <= ClusSize * L
  <2>1. CASE e.ok
    <3>1. L = target
      BY <1>12, <2>1
    <3> QED
      BY <1>4, <1>13, <2>1, <3>1, FatSizes
  <2>2. CASE ~ e.ok
    <3>1. K <= L
      BY <1>12 DEF Longer
    <3>2. size <= ClusSize * K
      BY <1>1
    <3>3. size <= ClusSize * L
      BY <3>1, <3>2, MoreRoom
    <3> QED
      BY <1>13, <2>2, <3>3
  <2> QED
    BY <2>1, <2>2
<1>15. /\ t.ok => /\ of.offset + n <= t.info.size
                  /\ t.info.size = IF of.offset + n > of.info.size THEN of.offset + n
                                   ELSE of.info.size
       /\ ~ t.ok => t.info.size = of.info.size
  BY <1>1, <1>2, <1>13
<1>16. /\ t.fat \in Tables /\ Linked(t.fat, t.info.cluster0, e.p, L)
       /\ Longer(fat, of.info, K, t.fat, t.info.cluster0, L)
  BY <1>1, <1>11, <1>12, <1>13
<1>17. Writable(of, K, n, t, L)
  BY <1>13, <1>14, <1>15, <1>16 DEF Writable
<1> QED
  BY <1>8, <1>17

LEMMA WriteFits ==
    ASSUME ~ CopiesOver, fat \in Tables, NEW of \in OpenFile, NEW p, NEW K \in Nat,
           Linked(fat, of.info.cluster0, p, K), of.info.size <= ClusSize * K,
           NEW n \in Nat, of.offset + n <= MaxLen,
           of.offset + n > of.info.size => ~ GrowsInPlace(of.info, of.offset + n)
    PROVE  \E L \in Nat : Writable(of, K, n, WriteTo(of, n), L)
<1>1. CASE of.offset + n > of.info.size
  BY <1>1, WriteGrows
<1>2. CASE ~ of.offset + n > of.info.size
  <2>1. PICK t : t = WriteTo(of, n)
    OBVIOUS
  <2>2. t.fat = fat /\ t.info = of.info /\ t.ok
    BY <1>2, <2>1 DEF WriteTo
  <2>3. Longer(fat, of.info, K, t.fat, t.info.cluster0, K)
    BY <2>2 DEF Longer
  <2>4. PICK offset \in Nat, size \in Nat : offset = of.offset /\ size = of.info.size
    BY DEF OpenFile, EntryRecord
  <2>5. of.offset + n <= of.info.size
    BY <1>2, <2>4
  <2>6. of.info \in EntryRecord
    BY DEF OpenFile
  <2>7. Writable(of, K, n, t, K)
    BY <1>2, <2>2, <2>3, <2>5, <2>6 DEF Writable
  <2> QED
    BY <2>1, <2>7
<1> QED
  BY <1>1, <1>2
\* What f_write does.
WriteDone(fd, n, hd, K, t, L, e) ==
    /\ Keeps(hd, openfiles[fd].at, e) /\ fat' = t.fat
    /\ \E p : Linked(fat, openfiles[fd].info.cluster0, p, K)
    /\ openfiles[fd].info.size <= ClusSize * K
    /\ Writable(openfiles[fd], K, n, t, L)
    /\ t = WriteTo(openfiles[fd], n)
    /\ e \in EntryRecord /\ e.kind = "file" /\ e.name \notin Special
    /\ IF t.ok THEN e.size = t.info.size /\ e.cluster0 = t.info.cluster0
       ELSE e = At(openfiles[fd].at)
    /\ HostFatInv'

\* The entry stays what it is.
LEMMA SameEntry ==
    ASSUME DirTyped, NEW at \in Slot, dir' = dir
    PROVE  Sets(at, At(at)) /\ Slot' = Slot
<1>1. DirTyped' /\ Slot' = Slot
  BY DEF DirTyped, Slot, Slots
<1>2. \A bt : At(bt)' = At(bt)
  BY DEF At
<1> QED
  BY <1>1, <1>2 DEF Sets

\* The entry and the chain of a file that is written to.
EntryFor(r, t) ==
    IF t.ok THEN [r EXCEPT !.size = t.info.size, !.cluster0 = t.info.cluster0] ELSE r
Describes(e, t, L) ==
    /\ e \in EntryRecord /\ e.kind = "file" /\ e.name \notin Special
    /\ t.info.cluster0 \in 0 .. NClus
    /\ e.size = t.info.size
    /\ e.size <= ClusSize * L
    /\ e.cluster0 = t.info.cluster0 \/ (e.cluster0 = 0 /\ e.size = 0)
    /\ t.ok => e.cluster0 = t.info.cluster0

LEMMA WrittenEntry ==
    ASSUME HostFatInv, NEW fd \in Opened, NEW n, NEW t, NEW hd, HeadsOK(hd),
           NEW K \in Nat, NEW p, Linked(fat, openfiles[fd].info.cluster0, p, K),
           NEW L \in Nat, Writable(openfiles[fd], K, n, t, L)
    PROVE  Describes(EntryFor(At(openfiles[fd].at), t), t, L)
<1> PICK r : r = At(openfiles[fd].at)
  OBVIOUS
<1> PICK e : e = EntryFor(r, t)
  OBVIOUS
<1>0. e = IF t.ok THEN [r EXCEPT !.size = t.info.size, !.cluster0 = t.info.cluster0] ELSE r
  BY DEF EntryFor
<1>1. PICK at : at = openfiles[fd].at
  OBVIOUS
<1>2. at \in Entries("file") /\ openfiles[fd].info.size = r.size
  BY <1>1 DEF HostFatInv, OpenOK
<1>3. at \in Slot /\ r.kind = "file" /\ r.name \notin Special
  BY <1>1, <1>2, EntriesAre
<1>4. r \in EntryRecord
  BY <1>1, <1>3, SlotIs DEF HostFatInv
<1>5. t.info \in EntryRecord /\ t.info.size <= ClusSize * L
  BY DEF Writable
<1>6. t.info.cluster0 \in 0 .. NClus /\ t.info.size \in 0 .. MaxLen
  BY <1>5 DEF EntryRecord
<1>7. CASE t.ok
  <2>1. e \in EntryRecord /\ e.kind = r.kind /\ e.name = r.name
    BY <1>0, <1>4, <1>6, <1>7 DEF EntryRecord
  <2>2. e.size = t.info.size /\ e.cluster0 = t.info.cluster0
    BY <1>0, <1>4, <1>7 DEF EntryRecord
  <2> QED
    BY <1>3, <1>5, <1>6, <2>1, <2>2 DEF Describes
<1>8. CASE ~ t.ok
  <2>1. e = r /\ t.info.size = r.size
    BY <1>0, <1>2, <1>8 DEF Writable
  <2>2. hd[at] = openfiles[fd].info.cluster0
    BY <1>1 DEF HeadsOK, OpenHeads
  <2>3. r.cluster0 = hd[at] \/ (r.cluster0 = 0 /\ r.size = 0)
    BY <1>1, <1>2 DEF HeadsOK, SizesOK, Live
  <2>4. hd[at] = t.info.cluster0 \/ hd[at] = 0
    <3>1. K > 0 => t.info.cluster0 = hd[at]
      BY <2>2 DEF Writable, Longer
    <3>2. K = 0 => hd[at] = 0
      BY <2>2 DEF Linked
    <3> QED
      BY <3>1, <3>2
  <2>5. hd[at] = 0 => r.size = 0
    <3> SUFFICES ASSUME hd[at] = 0 PROVE r.size = 0
      OBVIOUS
    <3>1. PICK q : \E M \in Nat : Linked(fat, hd[at], q, M) /\ r.size <= ClusSize * M
      BY <1>1, <1>2 DEF HeadsOK, SizesOK, Live
    <3>2. PICK M \in Nat : Linked(fat, hd[at], q, M) /\ r.size <= ClusSize * M
      BY <3>1
    <3>3. M = 0
      <4> SUFFICES ASSUME M # 0 PROVE FALSE
        OBVIOUS
      <4>1. IsChain(fat, hd[at], M)
        BY <3>2 DEF Linked
      <4>2. hd[at] \in Cluster
        BY <4>1, ChainIs
      <4> QED
        BY <4>2, FatSizes
    <3>4. ClusSize * M = 0
      BY <3>3, FatSizes
    <3>5. r.size \in Nat
      BY <1>4 DEF EntryRecord
    <3> QED
      BY <3>2, <3>4, <3>5
  <2> QED
    BY <1>3, <1>4, <1>5, <1>6, <1>8, <2>1, <2>3, <2>4, <2>5 DEF Describes
<1> QED
  BY <1>7, <1>8
LEMMA WriteFileStep ==
    ASSUME HostFatInv, ~ CopiesOver, NEW fd \in Fd, NEW n \in Nat, f_write(fd, n)
    PROVE  \E hd : \E K, L \in Nat : \E t, e : WriteDone(fd, n, hd, K, t, L, e)
<1>1. PICK of \in OpenFile : of = openfiles[fd]
  <2>1. fd \in Opened
    BY DEF f_write
  <2> QED
    BY <2>1 DEF HostFatInv, OpenOK, Opened
<1>2. PICK t : t = WriteTo(of, n)
  OBVIOUS
<1>3. PICK at : at = of.at
  OBVIOUS
<1>4. PICK r : r = At(at)
  OBVIOUS
<1>5. PICK e : e = IF t.ok THEN [r EXCEPT !.size = t.info.size, !.cluster0 = t.info.cluster0]
                   ELSE r
  OBVIOUS
<1>6. /\ fd \in Opened /\ of.offset + n <= MaxLen /\ fat' = t.fat
      /\ of.offset + n > of.info.size /\ GrowsInPlace(of.info, of.offset + n) => CopiesOver
  BY <1>1, <1>2 DEF f_write, WriteTo
<1>7. /\ t.ok => /\ dir' = [dir EXCEPT ![of.at[1]][of.at[2]] =
                            [@ EXCEPT !.size = t.info.size, !.cluster0 = t.info.cluster0]]
                 /\ openfiles' = [openfiles EXCEPT ![fd].info = t.info, ![fd].offset = @ + n]
      /\ ~ t.ok => dir' = dir /\ openfiles' = [openfiles EXCEPT ![fd].info = t.info]
  BY <1>1, <1>2 DEF f_write, WriteTo
<1>8. PICK hd : HeadsOK(hd)
  BY DEF HostFatInv
<1>9. /\ fat \in Tables /\ DirTyped /\ BlankOK /\ OpenOK
      /\ ChainsApart(fat, hd) /\ SizesOK(hd) /\ DirHeads(hd) /\ OpenHeads(hd)
  BY <1>8 DEF HostFatInv, HeadsOK
<1>10. /\ at \in Entries("file") /\ of.info.size = r.size /\ of.offset <= of.info.size
       /\ hd[at] = of.info.cluster0
       /\ \A gd \in Opened : gd # fd => openfiles[gd].at # at
  BY <1>1, <1>3, <1>4, <1>6, <1>9 DEF OpenOK, OpenHeads
<1>11. at \in Slot /\ at \in Ats /\ at = <<at[1], at[2]>> /\ at[1] \in DOMAIN dir /\ at[2] \in Slots(at[1])
  <2>1. at \in Slot
    BY <1>10, EntriesAre
  <2> QED
    BY <1>9, <2>1, SlotIs
<1>12. at \notin Entries("dir")
  BY <1>10, EntriesAre
<1>13. PICK p : \E K \in Nat : Linked(fat, hd[at], p, K) /\ r.size <= ClusSize * K
  BY <1>4, <1>9, <1>10 DEF SizesOK, Live
<1>14. PICK K \in Nat : Linked(fat, of.info.cluster0, p, K) /\ of.info.size <= ClusSize * K
  BY <1>10, <1>13
<1>15. \E L \in Nat : Writable(of, K, n, t, L)
  <2>1. of.offset + n > of.info.size => ~ GrowsInPlace(of.info, of.offset + n)
    BY <1>6
  <2> QED
    BY <1>2, <1>6, <1>9, <1>14, <2>1, WriteFits
<1>16. PICK L \in Nat : Writable(of, K, n, t, L)
  BY <1>15
<1>17. /\ e \in EntryRecord /\ e.kind = "file" /\ e.name \notin Special
       /\ t.info.cluster0 \in 0 .. NClus
       /\ e.size = t.info.size
       /\ e.size <= ClusSize * L
       /\ e.cluster0 = t.info.cluster0 \/ (e.cluster0 = 0 /\ e.size = 0)
       /\ t.ok => e.cluster0 = t.info.cluster0
  <2>1. Linked(fat, openfiles[fd].info.cluster0, p, K) /\ Writable(openfiles[fd], K, n, t, L)
    BY <1>1, <1>14, <1>16
  <2>2. e = EntryFor(At(openfiles[fd].at), t)
    BY <1>1, <1>3, <1>4, <1>5 DEF EntryFor
  <2>3. Describes(e, t, L)
    BY <1>6, <1>8, <2>1, <2>2, WrittenEntry
  <2> QED
    BY <2>3 DEF Describes
<1>18. Sets(at, e) /\ Slot' = Slot
  <2>1. CASE t.ok
    <3>1. PICK d \in DOMAIN dir : d = at[1]
      BY <1>11
    <3>2. PICK i \in Slots(d) : i = at[2]
      BY <1>11, <3>1
    <3>3. r = dir[d][i]
      BY <1>4, <3>1, <3>2 DEF At
    <3>4. dir' = [dir EXCEPT ![d][i] = e]
      BY <1>3, <1>5, <1>7, <2>1, <3>1, <3>2, <3>3
    <3>5. Stores(d, i, e)
      BY <1>17, <3>4 DEF Stores
    <3>6. at = <<d, i>>
      BY <1>11, <3>1, <3>2
    <3> QED
      BY <1>9, <3>5, <3>6, StoredEntry
  <2>2. CASE ~ t.ok
    <3>1. dir' = dir /\ e = At(at)
      BY <1>4, <1>5, <1>7, <2>2
    <3> QED
      BY <1>9, <1>11, <3>1, SameEntry
  <2> QED
    BY <2>1, <2>2
<1>19. PICK c \in 0 .. NClus : c = t.info.cluster0
  BY <1>17
<1>20. PICK q : Linked(fat', c, q, L)
  BY <1>6, <1>16, <1>19 DEF Writable
<1>21. /\ \A x \in CellsOf(fat', c) : x \in CellsOf(fat, hd[at]) \/ fat[x] = Free
       /\ \A x \in Cluster : x \notin CellsOf(fat', c) => fat'[x] = fat[x]
  BY <1>6, <1>10, <1>16, <1>19 DEF Writable, Longer
<1>22. ChangesAt(fat, fat', hd[at])
  BY <1>21 DEF ChangesAt
<1>23. PICK h : h = [hd EXCEPT ![at] = c]
  OBVIOUS
<1>24. /\ ChainsApart(fat', h) /\ SizesOK(h)' /\ DirHeads(h)'
       /\ \A bt \in Ats : bt # at => SameChain(fat, fat', hd[bt])
  <2>1. \A g \in DOMAIN dir' : g \in DOMAIN dir
    BY <1>7, <1>9 DEF DirTyped
  <2>2. e.size <= ClusSize * L /\ (e.cluster0 = c \/ (e.cluster0 = 0 /\ e.size = 0))
    BY <1>17, <1>19
  <2> QED
    <3>1. Rechains(hd, at, e, c, L)
      BY <1>20, <1>21, <1>22, <2>1, <2>2 DEF Rechains
    <3>2. Rechained(hd, at, h)
      BY <1>9, <1>12, <1>18, <1>23, <3>1, HeadsStep
    <3> QED
      BY <3>2 DEF Rechained
<1>25. PICK o : o = IF t.ok THEN [of EXCEPT !.info = t.info, !.offset = of.offset + n]
                    ELSE [of EXCEPT !.info = t.info]
  OBVIOUS
<1>26. /\ o \in OpenFile /\ o.at = at /\ o.info = t.info /\ o.offset <= o.info.size
  <2>1. t.info \in EntryRecord /\ t.info.size \in 0 .. MaxLen
    BY <1>16 DEF Writable, EntryRecord
  <2>2. of.offset \in 0 .. MaxLen
    BY DEF OpenFile
  <2>3. CASE t.ok
    <3>1. of.offset + n <= t.info.size
      BY <1>16, <2>3 DEF Writable
    <3>2. of.offset + n \in 0 .. MaxLen
      BY <1>6, <2>2, FatSizes
    <3> QED
      BY <1>3, <1>25, <2>1, <2>3, <3>1, <3>2 DEF OpenFile
  <2>4. CASE ~ t.ok
    <3>1. t.info.size = of.info.size
      BY <1>16, <2>4 DEF Writable
    <3> QED
      BY <1>3, <1>10, <1>25, <2>1, <2>4, <3>1 DEF OpenFile
  <2> QED
    BY <2>3, <2>4
<1>27. openfiles' = [openfiles EXCEPT ![fd] = o]
  <2>1. openfiles \in [Fd -> OpenFile \cup {None}]
    BY <1>9 DEF OpenOK
  <2>2. CASE t.ok
    BY <1>1, <1>7, <1>25, <2>1, <2>2 DEF OpenFile
  <2>3. CASE ~ t.ok
    BY <1>1, <1>7, <1>25, <2>1, <2>3
  <2> QED
    BY <2>2, <2>3
<1>28. OpenOK' /\ OpenHeads(h)'
  <2>1. SetsOpen(fd, o)
    BY <1>10, <1>26, <1>27 DEF SetsOpen
  <2>2. o.info.size = e.size
    BY <1>17, <1>26
  <2>3. hd \in [Ats -> 0 .. NClus]
    BY <1>9 DEF ChainsApart
  <2>4. h = [hd EXCEPT ![at] = o.info.cluster0]
    BY <1>19, <1>23, <1>26
  <2> QED
    BY <1>9, <1>11, <1>17, <1>18, <1>26, <2>1, <2>2, <2>3, <2>4, OpenStep
<1>29. BlankOK'
  <2>1. e.name \notin {UnusedEnt, Erased}
    BY <1>17 DEF Special
  <2> QED
    BY <1>9, <1>18, <2>1 DEF BlankOK, Sets
<1>30. fat' \in Tables /\ DirTyped'
  BY <1>6, <1>16, <1>18 DEF Sets, Writable
<1>31. HostFatInv'
  BY <1>24, <1>28, <1>29, <1>30 DEF HostFatInv, HeadsOK
<1>32. Keeps(hd, at, e)
  BY <1>8, <1>18, <1>24 DEF Keeps
<1>33. IF t.ok THEN e.size = t.info.size /\ e.cluster0 = t.info.cluster0 ELSE e = At(at)
  BY <1>4, <1>5, <1>17
<1>34. WriteDone(fd, n, hd, K, t, L, e)
  BY <1>1, <1>2, <1>3, <1>6, <1>14, <1>16, <1>17, <1>31, <1>32, <1>33 DEF WriteDone
<1> QED
  BY <1>34
\* What f_mkdir and f_mknod do: the entry is no file's, before and after.
MakeDone(hd, at, e) ==
    /\ Keeps(hd, at, e) /\ at \notin Entries("file") /\ e.kind # "file"
    /\ UNCHANGED <<data, openfiles>> /\ readback' = <<>>
    /\ HostFatInv'

\* The open files are others.
LEMMA OpenKept ==
    ASSUME OpenOK, NEW hd, hd \in [Ats -> 0 .. NClus], OpenHeads(hd),
           NEW at, NEW e, Sets(at, e), at \notin Entries("file"), openfiles' = openfiles, NEW c
    PROVE  OpenOK' /\ OpenHeads([hd EXCEPT ![at] = c])'
<1>1. PICK h : h = [hd EXCEPT ![at] = c]
  OBVIOUS
<1>2. Opened' = Opened
  BY DEF Opened
<1>3. ASSUME NEW gd \in Opened
      PROVE  /\ openfiles[gd].at \in Entries("file")'
             /\ openfiles[gd].info.size = At(openfiles[gd].at)'.size
             /\ h[openfiles[gd].at] = openfiles[gd].info.cluster0
  <2>1. PICK bt : bt = openfiles[gd].at
    OBVIOUS
  <2>2. bt # at /\ bt \in Entries("file") /\ openfiles[gd].info.size = At(bt).size
    BY <2>1 DEF OpenOK
  <2>3. bt \in Slot
    BY <2>2, EntriesAre
  <2>4. At(bt)' = At(bt) /\ bt \in Entries("file")'
    BY <2>2, <2>3, EntriesSet DEF Sets
  <2>5. openfiles[gd] \in OpenFile
    BY DEF OpenOK, Opened
  <2>6. bt \in Ats
    BY <2>1, <2>5 DEF OpenFile, Ats
  <2>7. h[bt] = hd[bt]
    BY <1>1, <2>2, <2>6
  <2>8. hd[bt] = openfiles[gd].info.cluster0
    BY <2>1 DEF OpenHeads
  <2>9. At(openfiles[gd].at)' = At(bt)'
    BY <2>1 DEF At
  <2> QED
    BY <2>1, <2>2, <2>4, <2>7, <2>8, <2>9
<1>4. OpenOK'
  BY <1>2, <1>3 DEF OpenOK
<1>5. OpenHeads(h)'
  BY <1>2, <1>3 DEF OpenHeads
<1> QED
  BY <1>1, <1>4, <1>5

\* An entry that was blank gets a chain, or none.
LEMMA MakeStep ==
    ASSUME HostFatInv, NEW hd, HeadsOK(hd), NEW at, NEW e, Sets(at, e),
           at \notin Entries("file"), at \notin Entries("dir"), e.kind # "file",
           BlankOK', fat' \in Tables, openfiles' = openfiles, data' = data, readback' = <<>>,
           NEW c \in 0 .. NClus, NEW L \in Nat, Rechains(hd, at, e, c, L)
    PROVE  MakeDone(hd, at, e)
<1>1. PICK h : h = [hd EXCEPT ![at] = c]
  OBVIOUS
<1>2. /\ DirTyped /\ OpenOK
      /\ ChainsApart(fat, hd) /\ SizesOK(hd) /\ DirHeads(hd) /\ OpenHeads(hd)
  BY DEF HostFatInv, HeadsOK
<1>3. Rechained(hd, at, h)
  BY <1>1, <1>2, HeadsStep
<1>4. OpenOK' /\ OpenHeads(h)'
  BY <1>1, <1>2, OpenKept DEF ChainsApart
<1>5. DirTyped'
  BY DEF Sets
<1>6. HostFatInv'
  BY <1>3, <1>4, <1>5 DEF HostFatInv, HeadsOK, Rechained
<1> QED
  BY <1>3, <1>6 DEF MakeDone, Keeps, Rechained

\* ... none: the table stays.
LEMMA NoChain ==
    ASSUME HostFatInv, NEW hd, NEW at, NEW e, fat' = fat, e \in EntryRecord,
           e.cluster0 = 0, e.size = 0, DOMAIN dir' = DOMAIN dir
    PROVE  Rechains(hd, at, e, 0, 0)
<1>1. Linked(fat', 0, 0, 0) /\ CellsOf(fat', 0) = {}
  BY DEF Linked, CellsOf
<1>2. ChangesAt(fat, fat', hd[at])
  BY DEF ChangesAt
<1>3. e.size <= ClusSize * 0
  BY FatSizes
<1> QED
  BY <1>1, <1>2, <1>3 DEF Rechains

LEMMA MknodStep ==
    ASSUME HostFatInv, NEW path \in Path, f_mknod(path)
    PROVE  \E hd, at, e : MakeDone(hd, at, e)
<1>1. PICK d \in DOMAIN dir, i \in 1..RootEntries + DirEntries :
        /\ i \in Slots(d) /\ Creates(path, d, i)
        /\ dir' = [dir EXCEPT ![d][i] = Named(d, i, path, "dev")]
        /\ readback' = <<>> /\ UNCHANGED <<fat, data, openfiles>>
  BY DEF f_mknod
<1>2. DirTyped /\ BlankOK /\ fat \in Tables
  BY DEF HostFatInv
<1>3. PICK kind : kind = "dev"
  OBVIOUS
<1>4. PICK e : e = Named(d, i, path, kind)
  OBVIOUS
<1>5. Blank(d, i)
  BY <1>1 DEF Creates, FirstBlank
<1>6. Last(path) \in {p[Len(p)] : p \in Path} /\ Last(path) \notin Special
  BY HostFatAssumption DEF Last
<1>7. /\ e \in EntryRecord /\ e.name = Last(path) /\ e.kind = kind
      /\ e.cluster0 = 0 /\ e.size = 0
  BY <1>1, <1>2, <1>3, <1>4, <1>5, <1>6, NamedIs
<1>8. PICK at : at = <<d, i>>
  OBVIOUS
<1>9. at \notin Entries("file") /\ at \notin Entries("dir")
  BY <1>1, <1>2, <1>5, <1>8, BlankNotLive
<1>10. Stores(d, i, e)
  BY <1>1, <1>3, <1>4, <1>7 DEF Stores
<1>11. Sets(at, e) /\ Slot' = Slot
  BY <1>2, <1>8, <1>10, StoredEntry
<1>12. PICK hd : HeadsOK(hd)
  BY DEF HostFatInv
<1>13. DOMAIN dir' = DOMAIN dir
  BY <1>1
<1>14. Rechains(hd, at, e, 0, 0)
  BY <1>1, <1>7, <1>13, NoChain
<1>15. BlankOK'
  BY <1>2, <1>7, <1>11 DEF BlankOK, Sets
<1>16. 0 \in 0 .. NClus /\ 0 \in Nat
  BY FatSizes
<1>17. e.kind # "file" /\ fat' \in Tables
  BY <1>1, <1>2, <1>3, <1>7
<1>18. MakeDone(hd, at, e)
  BY <1>1, <1>9, <1>11, <1>12, <1>14, <1>15, <1>16, <1>17, MakeStep, Zenon
<1> QED
  BY <1>18
\* What f_mkdir makes of the root directory and of the new one, c.
MakesDir(c, i, e) ==
    dir' = [d \in DOMAIN dir \cup {c} |->
                IF d = c THEN [k \in 1..DirEntries |->
                    IF k = 1 THEN Entry(Dot, "dir", c, 0)
                    ELSE IF k = 2 THEN Entry(DotDot, "dir", 0, 0)
                    ELSE NoEntry]
                ELSE IF d = 0 THEN [dir[0] EXCEPT ![i] = e]
                ELSE dir[d]]

LEMMA MadeDirectory ==
    ASSUME DirTyped, NEW c \in Cluster, c \notin DOMAIN dir, NEW i \in Slots(0),
           NEW e \in EntryRecord, MakesDir(c, i, e)
    PROVE  /\ Sets(<<0, i>>, e)
           /\ BlankOK /\ e.name \notin {UnusedEnt, Erased} => BlankOK'
<1>1. PICK D : D = DOMAIN dir
  OBVIOUS
<1>2. 0 \in D /\ D \subseteq 0 .. NClus - 1 /\ c # 0 /\ c \in 0 .. NClus - 1 /\ c \notin D
  BY <1>1, FatSizes DEF DirTyped, Cluster
<1>3. PICK R : R = [k \in 1..DirEntries |->
                    IF k = 1 THEN Entry(Dot, "dir", c, 0)
                    ELSE IF k = 2 THEN Entry(DotDot, "dir", 0, 0)
                    ELSE NoEntry]
  OBVIOUS
<1>4. dir' = [d \in D \cup {c} |-> IF d = c THEN R
                ELSE IF d = 0 THEN [dir[0] EXCEPT ![i] = e] ELSE dir[d]]
  BY <1>1, <1>3 DEF MakesDir
<1>5. /\ DOMAIN dir' = D \cup {c} /\ dir'[c] = R /\ dir'[0] = [dir[0] EXCEPT ![i] = e]
      /\ \A d \in D : d # 0 => dir'[d] = dir[d]
      /\ dir' = [d \in DOMAIN dir' |-> dir'[d]]
  BY <1>2, <1>4
<1>6. ASSUME NEW k \in 1..DirEntries
      PROVE  /\ R[k] \in EntryRecord /\ R[k].name \in Special
             /\ R[k].name \in {UnusedEnt, Erased} => R[k].cluster0 = 0 /\ R[k].size = 0
  <2>1. 0 \in 0 .. NClus /\ 0 \in 0 .. MaxLen /\ c \in 0 .. NClus
    BY FatSizes DEF Cluster
  <2>2. R[k] \in {Entry(Dot, "dir", c, 0), Entry(DotDot, "dir", 0, 0), NoEntry}
    BY <1>3
  <2> QED
    BY <2>1, <2>2 DEF Entry, NoEntry, EntryRecord, Special, Dot, DotDot, UnusedEnt, Erased
<1>7. R \in [1..DirEntries -> EntryRecord]
  BY <1>3, <1>6
<1>8. i \in 1 .. NSlots(0)
  BY SlotIs DEF DirTyped
<1>9. ASSUME NEW d \in D PROVE dir'[d] \in [1 .. NSlots(d) -> EntryRecord]
  <2>1. dir[d] \in [1 .. NSlots(d) -> EntryRecord]
    BY <1>1 DEF DirTyped
  <2>2. CASE d = 0
    BY <1>5, <1>8, <2>1, <2>2
  <2>3. CASE d # 0
    BY <1>5, <2>1, <2>3
  <2> QED
    BY <2>2, <2>3
<1>10. dir'[c] \in [1 .. NSlots(c) -> EntryRecord]
  BY <1>2, <1>5, <1>7 DEF NSlots
<1>11. DirTyped'
  BY <1>2, <1>5, <1>9, <1>10 DEF DirTyped, NSlots
<1>12. /\ \A d \in D : Slots(d)' = Slots(d)
       /\ Slots(c)' = 1..DirEntries
  <2>1. \A d \in D \cup {c} : NSlots(d) \in Nat
    BY FatSizes DEF NSlots
  <2>2. \A d \in D \cup {c} : Slots(d)' = 1 .. NSlots(d)
    BY <1>9, <1>10, <2>1 DEF Slots
  <2>3. \A d \in D : Slots(d) = 1 .. NSlots(d)
    BY <1>1, SlotIs
  <2> QED
    BY <1>2, <2>2, <2>3 DEF NSlots
<1>13. Slot' = Slot \cup ({c} \X (1..DirEntries))
  <2>1. PICK S : S = [d \in D \cup {c} |-> Slots(d)']
    OBVIOUS
  <2>2. Slot' = UNION {{d} \X S[d] : d \in D \cup {c}}
    BY <1>5, <2>1 DEF Slot
  <2>3. Slot = UNION {{d} \X S[d] : d \in D}
    BY <1>1, <1>12, <2>1 DEF Slot
  <2>4. S[c] = 1..DirEntries
    BY <1>12, <2>1
  <2> QED
    BY <2>2, <2>3, <2>4
<1>14. <<0, i>> \in Slot /\ At(<<0, i>>)' = e
  <2>1. <<0, i>> \in Slot
    BY <1>1, <1>2, SlotIs
  <2>2. dir[0] \in [1 .. NSlots(0) -> EntryRecord]
    BY DEF DirTyped
  <2>3. dir'[0][i] = e
    BY <1>5, <1>8, <2>2
  <2> QED
    BY <2>1, <2>3 DEF At
<1>15. ASSUME NEW bt \in Slot, bt # <<0, i>> PROVE At(bt)' = At(bt)
  <2>1. bt = <<bt[1], bt[2]>> /\ bt[1] \in D /\ bt[2] \in 1 .. NSlots(bt[1])
    BY <1>1, SlotIs
  <2>2. CASE bt[1] # 0
    BY <1>5, <2>1, <2>2 DEF At
  <2>3. CASE bt[1] = 0
    <3>1. bt[2] # i
      BY <1>15, <2>1, <2>3
    <3>2. dir[0] \in [1 .. NSlots(0) -> EntryRecord]
      BY DEF DirTyped
    <3>3. dir'[0][bt[2]] = dir[0][bt[2]]
      BY <1>5, <2>1, <2>3, <3>1, <3>2
    <3> QED
      BY <2>3, <3>3 DEF At
  <2> QED
    BY <2>2, <2>3
<1>16. ASSUME NEW bt \in Slot', bt \notin Slot
       PROVE  /\ At(bt)'.name \in Special
              /\ At(bt)'.name \in {UnusedEnt, Erased} => At(bt)'.cluster0 = 0 /\ At(bt)'.size = 0
  <2>1. PICK k \in 1..DirEntries : bt = <<c, k>>
    BY <1>13, <1>16
  <2>2. At(bt)' = R[k]
    BY <1>5, <2>1 DEF At
  <2> QED
    BY <1>6, <2>2
<1>17. Sets(<<0, i>>, e)
  BY <1>11, <1>13, <1>14, <1>15, <1>16 DEF Sets
<1>18. ASSUME BlankOK, e.name \notin {UnusedEnt, Erased} PROVE BlankOK'
  <2> SUFFICES ASSUME NEW bt \in Slot', At(bt)'.name \in {UnusedEnt, Erased}
               PROVE  At(bt)'.cluster0 = 0 /\ At(bt)'.size = 0
    BY DEF BlankOK
  <2>1. CASE bt \notin Slot
    BY <1>16, <2>1
  <2>2. CASE bt = <<0, i>>
    BY <1>14, <1>18, <2>2
  <2>3. CASE bt \in Slot /\ bt # <<0, i>>
    BY <1>15, <1>18, <2>3 DEF BlankOK
  <2> QED
    BY <2>1, <2>2, <2>3
<1> QED
  BY <1>17, <1>18
\* The cluster of a directory is taken.
LEMMA DirsTaken ==
    ASSUME HostFatInv, NEW d \in DOMAIN dir, d # 0
    PROVE  fat[d] # Free
<1>1. PICK hd : HeadsOK(hd)
  BY DEF HostFatInv
<1>2. PICK at \in Entries("dir") : hd[at] = d
  BY <1>1 DEF HeadsOK, DirHeads
<1>3. PICK p : \E L \in Nat : Linked(fat, d, p, L) /\ At(at).size <= ClusSize * L
  BY <1>1, <1>2 DEF HeadsOK, SizesOK, Live
<1>4. PICK L \in Nat : Linked(fat, d, p, L)
  BY <1>3
<1>5. IsChain(fat, d, L)
  BY <1>4 DEF Linked
<1>6. PICK A : A = Along(fat, d)
  OBVIOUS
<1>7. d \in Cells(fat, d)
  <2>1. L \in 1 .. NClus /\ A[0] = d /\ d \in Cluster /\ 0 \in Steps
    BY <1>5, <1>6, ChainIs, FatSizes DEF Steps
  <2>2. d # EOC
    BY <2>1, FatSizes
  <2> QED
    BY <1>6, <2>1, <2>2 DEF Cells
<1> QED
  BY <1>5, <1>7, CellsTaken

LEMMA MkdirStep ==
    ASSUME HostFatInv, NEW name \in DirName, f_mkdir(<<name>>)
    PROVE  \E hd, at, e : MakeDone(hd, at, e)
<1>1. PICK path : path = <<name>>
  OBVIOUS
<1>2. PICK e : \E i \in Slots(0) : e = Named(0, i, path, "dir")
    /\ Creates(path, 0, i)
    /\ \/ /\ FreeClusters(fat) = {}
          /\ dir' = [dir EXCEPT ![0][i] = [e EXCEPT !.name = Erased]]
          /\ UNCHANGED fat
       \/ /\ FreeClusters(fat) # {}
          /\ fat' = [fat EXCEPT ![Lowest(FreeClusters(fat))] = EOC]
          /\ dir' = [d \in DOMAIN dir \cup {Lowest(FreeClusters(fat))} |->
                IF d = Lowest(FreeClusters(fat)) THEN [k \in 1..DirEntries |->
                    IF k = 1 THEN Entry(Dot, "dir", Lowest(FreeClusters(fat)), 0)
                    ELSE IF k = 2 THEN Entry(DotDot, "dir", e.cluster0, 0)
                    ELSE NoEntry]
                ELSE IF d = 0 THEN [dir[0] EXCEPT ![i] =
                                        [e EXCEPT !.cluster0 = Lowest(FreeClusters(fat))]]
                ELSE dir[d]]
  BY <1>1 DEF f_mkdir
<1>3. PICK i \in Slots(0) : e = Named(0, i, path, "dir")
    /\ Creates(path, 0, i)
    /\ \/ /\ FreeClusters(fat) = {}
          /\ dir' = [dir EXCEPT ![0][i] = [e EXCEPT !.name = Erased]]
          /\ UNCHANGED fat
       \/ /\ FreeClusters(fat) # {}
          /\ fat' = [fat EXCEPT ![Lowest(FreeClusters(fat))] = EOC]
          /\ dir' = [d \in DOMAIN dir \cup {Lowest(FreeClusters(fat))} |->
                IF d = Lowest(FreeClusters(fat)) THEN [k \in 1..DirEntries |->
                    IF k = 1 THEN Entry(Dot, "dir", Lowest(FreeClusters(fat)), 0)
                    ELSE IF k = 2 THEN Entry(DotDot, "dir", e.cluster0, 0)
                    ELSE NoEntry]
                ELSE IF d = 0 THEN [dir[0] EXCEPT ![i] =
                                        [e EXCEPT !.cluster0 = Lowest(FreeClusters(fat))]]
                ELSE dir[d]]
  BY <1>2
<1>4. UNCHANGED <<data, openfiles>> /\ readback' = <<>>
  BY DEF f_mkdir
<1>5. DirTyped /\ BlankOK /\ fat \in Tables
  BY DEF HostFatInv
<1>6. PICK kind : kind = "dir"
  OBVIOUS
<1>7. PICK zero : zero = 0 /\ zero \in DOMAIN dir /\ i \in Slots(zero)
  BY <1>5 DEF DirTyped
<1>8. Blank(zero, i)
  BY <1>3, <1>7 DEF Creates, FirstBlank
<1>9. Last(path) = name
  BY <1>1 DEF Last
<1>10. /\ e \in EntryRecord /\ e.name = name /\ e.kind = kind
       /\ e.cluster0 = 0 /\ e.size = 0
  <2>1. e = Named(zero, i, path, kind)
    BY <1>3, <1>6, <1>7
  <2> QED
    BY <1>5, <1>6, <1>7, <1>8, <1>9, <2>1, NamedIs
<1>11. PICK at : at = <<zero, i>>
  OBVIOUS
<1>12. at \notin Entries("file") /\ at \notin Entries("dir")
  BY <1>5, <1>7, <1>8, <1>11, BlankNotLive
<1>13. PICK hd : HeadsOK(hd)
  BY DEF HostFatInv
<1>14. name \notin Special
  BY HostFatAssumption
<1>15. CASE FreeClusters(fat) = {}
  <2>1. PICK r : r = [e EXCEPT !.name = Erased]
    OBVIOUS
  <2>2. r \in EntryRecord /\ r.kind = kind /\ r.cluster0 = 0 /\ r.size = 0 /\ r.name = Erased
    BY <1>10, <2>1 DEF EntryRecord, Special
  <2>3. fat' = fat /\ dir' = [dir EXCEPT ![zero][i] = r]
    BY <1>3, <1>7, <1>15, <2>1
  <2>4. Stores(zero, i, r)
    BY <1>7, <2>2, <2>3 DEF Stores
  <2>5. Sets(at, r) /\ Slot' = Slot
    BY <1>5, <1>11, <2>4, StoredEntry
  <2>6. DOMAIN dir' = DOMAIN dir
    BY <2>3
  <2>7. Rechains(hd, at, r, 0, 0)
    BY <2>2, <2>3, <2>6, NoChain
  <2>8. BlankOK'
    BY <1>5, <2>2, <2>5 DEF BlankOK, Sets
  <2>9. 0 \in 0 .. NClus /\ 0 \in Nat
    BY FatSizes
  <2>10. r.kind # "file" /\ fat' \in Tables
    BY <1>5, <1>6, <2>2, <2>3
  <2>11. MakeDone(hd, at, r)
    BY <1>4, <1>12, <1>13, <2>5, <2>7, <2>8, <2>9, <2>10, MakeStep, Zenon
  <2> QED
    BY <2>11
<1>16. CASE FreeClusters(fat) # {}
  <2>1. PICK c : c = Lowest(FreeClusters(fat))
    OBVIOUS
  <2>2. c \in Cluster /\ fat[c] = Free
    BY <1>16, <2>1, LowestIs
  <2>3. c # 0 /\ c \in 0 .. NClus
    BY <2>2, FatSizes DEF Cluster
  <2>4. c \notin DOMAIN dir
    BY <2>2, <2>3, DirsTaken
  <2>5. PICK r : r = [e EXCEPT !.cluster0 = c]
    OBVIOUS
  <2>6. r \in EntryRecord /\ r.kind = kind /\ r.cluster0 = c /\ r.size = 0 /\ r.name = name
    BY <1>10, <2>3, <2>5 DEF EntryRecord
  <2>7. fat' = [fat EXCEPT ![c] = EOC] /\ MakesDir(c, i, r)
    BY <1>3, <1>10, <1>16, <2>1, <2>5 DEF MakesDir
  <2>8. Sets(at, r) /\ BlankOK'
    <3>1. r.name \notin {UnusedEnt, Erased}
      BY <1>14, <2>6 DEF Special
    <3> QED
      BY <1>5, <1>7, <1>11, <2>2, <2>4, <2>6, <2>7, <3>1, MadeDirectory
  <2>9. fat' = Grow(fat, 0, c)
    BY <2>7 DEF Grow
  <2>10. /\ IsChain(fat', c, 1) /\ Along(fat', c)[0] = c /\ Cells(fat', c) = {c}
         /\ \A y \in Cluster : y # c => fat'[y] = fat[y]
    BY <1>5, <2>2, <2>9, ChainBegins
  <2>11. Linked(fat', c, c, 1) /\ CellsOf(fat', c) = {c}
    <3>1. 1 - 1 = 0 /\ 1 # 0
      OBVIOUS
    <3> QED
      BY <2>3, <2>10, <3>1 DEF Linked, CellsOf
  <2>12. ChangesAt(fat, fat', hd[at])
    BY <2>2, <2>10 DEF ChangesAt
  <2>13. \A d \in DOMAIN dir' : d \in DOMAIN dir \/ d = c
    BY <2>7 DEF MakesDir
  <2>14. r.size <= ClusSize * 1
    BY <2>6, FatSizes
  <2>15. Rechains(hd, at, r, c, 1)
    BY <1>6, <1>14, <2>2, <2>6, <2>11, <2>12, <2>13, <2>14 DEF Rechains
  <2>16. r.kind # "file" /\ fat' \in Tables
    BY <1>5, <1>6, <2>2, <2>6, <2>7, FatSizes DEF Tables
  <2>17. 1 \in Nat
    OBVIOUS
  <2>18. MakeDone(hd, at, r)
    BY <1>4, <1>12, <1>13, <2>3, <2>8, <2>15, <2>16, <2>17, MakeStep, Zenon
  <2> QED
    BY <2>18
<1> QED
  BY <1>15, <1>16
-----------------------------------------------------------------------------
(***************************************************************************)
(* The theorem of the chains                                               *)
(***************************************************************************)

\* A chain of L clusters has L clusters.
LEMMA CellsCount ==
    ASSUME NEW F, NEW c, NEW L, IsChain(F, c, L)
    PROVE  Cardinality(Cells(F, c)) = L
<1>1. PICK A : A = Along(F, c)
  OBVIOUS
<1>2. PICK S : S = 0 .. (L - 1)
  OBVIOUS
<1>3. PICK T : T = Cells(F, c)
  OBVIOUS
<1>4. PICK f : f = [m \in S |-> A[m]]
  OBVIOUS
<1>5. /\ L \in Nat /\ L > 0 /\ T = {A[m] : m \in S}
      /\ \A m, n \in S : A[m] = A[n] => m = n
  <2>1. L \in 1 .. NClus /\ L \in Nat
    BY <1>1, ChainIs
  <2> QED
    BY <1>1, <1>2, <1>3, <2>1, ChainIs
<1>6. IsFiniteSet(S) /\ Cardinality(S) = L
  <2>1. 0 \in Int /\ L - 1 \in Int /\ ~ 0 > L - 1 /\ ((L - 1) - 0) + 1 = L
    BY <1>5
  <2> QED
    BY <1>2, <2>1, FS_Interval
<1>7. f \in Surjection(S, T)
  BY <1>4, <1>5 DEF Surjection
<1>8. f \in Injection(S, T)
  BY <1>4, <1>5, <1>7 DEF Injection, Surjection, IsInjective
<1>9. f \in Bijection(S, T)
  BY <1>7, <1>8 DEF Bijection
<1>10. ExistsBijection(S, T)
  BY <1>9 DEF ExistsBijection
<1> QED
  BY <1>3, <1>6, <1>10, FS_Bijection

LEMMA InvMeansWhole == HostFatInv => ChainsWhole
<1> SUFFICES ASSUME HostFatInv PROVE ChainsWhole
  OBVIOUS
<1>1. PICK hd : HeadsOK(hd)
  BY DEF HostFatInv
<1>2. ASSUME NEW at \in Live
      PROVE  /\ at \in Ats /\ Chain(At(at)) \subseteq CellsOf(fat, hd[at])
             /\ \A x \in Chain(At(at)) : x \in Cluster /\ fat[x] # Free
             /\ ClusSize * Cardinality(Chain(At(at))) >= At(at).size
  <2>1. PICK e : e = At(at)
    OBVIOUS
  <2>2. at \in Slot
    BY EntriesAre DEF Live
  <2>3. at \in Ats /\ e.size \in Nat
    BY <2>1, <2>2, SlotIs DEF HostFatInv, EntryRecord
  <2>4. e.cluster0 = hd[at] \/ (e.cluster0 = 0 /\ e.size = 0)
    BY <1>1, <2>1 DEF HeadsOK, SizesOK
  <2>5. PICK p : \E L \in Nat : Linked(fat, hd[at], p, L) /\ e.size <= ClusSize * L
    BY <1>1, <2>1 DEF HeadsOK, SizesOK
  <2>6. PICK L \in Nat : Linked(fat, hd[at], p, L) /\ e.size <= ClusSize * L
    BY <2>5
  <2>7. Chain(e) = CellsOf(fat, e.cluster0)
    BY DEF Chain, CellsOf, Cells
  <2>8. CASE e.cluster0 = 0
    <3>1. Chain(e) = {} /\ Cardinality(Chain(e)) = 0
      BY <2>7, <2>8, FS_EmptySet DEF CellsOf
    <3>2. e.size = 0
      <4>1. CASE hd[at] = 0
        <5>1. L = 0
          <6> SUFFICES ASSUME L # 0 PROVE FALSE
            OBVIOUS
          <6>1. IsChain(fat, hd[at], L)
            BY <2>6 DEF Linked
          <6>2. hd[at] \in Cluster
            BY <6>1, ChainIs
          <6> QED
            BY <4>1, <6>2, FatSizes
        <5>2. ClusSize * L = 0
          BY <5>1, FatSizes
        <5> QED
          BY <2>3, <2>6, <5>2
      <4>2. CASE hd[at] # 0
        BY <2>4, <2>8, <4>2
      <4> QED
        BY <4>1, <4>2
    <3>3. ClusSize * 0 >= 0
      BY FatSizes
    <3> QED
      BY <2>1, <2>3, <3>1, <3>2, <3>3
  <2>9. CASE e.cluster0 # 0
    <3>1. e.cluster0 = hd[at] /\ Chain(e) = Cells(fat, hd[at]) /\ CellsOf(fat, hd[at]) = Cells(fat, hd[at])
      BY <2>4, <2>7, <2>9 DEF CellsOf
    <3>2. IsChain(fat, hd[at], L)
      BY <2>6, <2>9, <3>1 DEF Linked
    <3>3. \A x \in Cells(fat, hd[at]) : x \in Cluster /\ fat[x] # Free
      BY <3>2, CellsTaken
    <3>4. Cardinality(Cells(fat, hd[at])) = L
      BY <3>2, CellsCount
    <3>5. PICK m \in Nat : m = ClusSize * L
      BY FatSizes
    <3>6. m >= e.size
      BY <2>3, <2>6, <3>5
    <3> QED
      BY <2>1, <2>3, <3>1, <3>3, <3>4, <3>5, <3>6
  <2> QED
    BY <2>8, <2>9
<1>3. ASSUME NEW at \in Live, NEW other \in Live, at # other
      PROVE  Chain(At(at)) \cap Chain(At(other)) = {}
  <2>1. CellsOf(fat, hd[at]) \cap CellsOf(fat, hd[other]) = {}
    BY <1>1, <1>2, <1>3 DEF HeadsOK, ChainsApart
  <2> QED
    BY <1>2, <2>1
<1> QED
  BY <1>2, <1>3, FatSizes DEF ChainsWhole, Live

LEMMA HostFatStep ==
    ASSUME ~ CopiesOver, HostFatInv, [FatNext]_fatvars
    PROVE  HostFatInv'
<1>1. CASE UNCHANGED fatvars
  <2>1. \A fd \in Opened : openfiles[fd].offset <= openfiles[fd].info.size
    BY DEF HostFatInv, OpenOK
  <2>2. openfiles' \in [Fd -> OpenFile \cup {None}] /\ Opened' = Opened
    BY <1>1 DEF HostFatInv, OpenOK, fatvars, Opened
  <2> QED
    BY <1>1, <2>1, <2>2, MovesPlace DEF fatvars
<1>2. ASSUME NEW fd \in Fd, NEW path \in Path, NEW creat \in BOOLEAN, NEW trunc \in BOOLEAN,
             f_open(fd, path, creat, trunc)
      PROVE  HostFatInv'
  BY <1>2, OpenFileStep DEF OpenDone
<1>3. ASSUME NEW fd \in Fd, NEW n \in 1..MaxWrite, f_write(fd, n)
      PROVE  HostFatInv'
  <2>1. n \in Nat
    OBVIOUS
  <2> QED
    BY <1>3, <2>1, WriteFileStep DEF WriteDone
<1>4. ASSUME NEW fd \in Fd, NEW n \in 1..MaxWrite, f_read(fd, n)
      PROVE  HostFatInv'
  <2>1. n \in Nat
    OBVIOUS
  <2> QED
    BY <1>4, <2>1, ReadFileStep
<1>5. ASSUME NEW d \in DirName, f_mkdir(<<d>>) PROVE HostFatInv'
  BY <1>5, MkdirStep DEF MakeDone
<1>6. ASSUME NEW path \in Path, f_mknod(path) PROVE HostFatInv'
  BY <1>6, MknodStep DEF MakeDone
<1> QED
  BY <1>1, <1>2, <1>3, <1>4, <1>5, <1>6, CloseStep, SeekStep DEF FatNext

\* The chain of every file and of every directory runs through clusters that
\* are taken to an end, has room for the file, and is no other's, for any
\* number of clusters, files and descriptors, however allocations fail: as
\* long as no file grows within its last cluster, where fobj_trunc shrinks
\* the chain by the cluster that the file has to keep (hosted/fat: f_open and
\* f_write, fobj_trunc and fobj_extend, clus_alloc).
THEOREM ChainsStayWhole ==
    ASSUME ~ CopiesOver
    PROVE  FatSpec => []ChainsWhole
<1>1. HostFatInv /\ [FatNext]_fatvars => HostFatInv'
  BY HostFatStep
<1> QED
  BY <1>1, HostFatStart, InvMeansWhole, PTL DEF FatSpec
-----------------------------------------------------------------------------
(***************************************************************************)
(* The calls are those of a store of files                                 *)
(***************************************************************************)

\* Where a byte of a file is.
LEMMA BytePlace ==
    ASSUME HostFatInv, NEW hd, HeadsOK(hd), NEW bt \in Entries("file"),
           NEW o \in Nat, o < At(bt).size
    PROVE  /\ At(bt).cluster0 = hd[bt] /\ hd[bt] # 0
           /\ ClusterAt(fat, At(bt), o) = Along(fat, hd[bt])[o \div ClusSize]
           /\ ClusterAt(fat, At(bt), o) \in CellsOf(fat, hd[bt])
           /\ (o % ClusSize) + 1 \in 1 .. ClusSize
<1>1. PICK e : e = At(bt)
  OBVIOUS
<1>2. bt \in Slot
  BY EntriesAre
<1>3. PICK size \in Nat : size = e.size
  BY <1>1, <1>2, SlotIs DEF HostFatInv, EntryRecord
<1>4. e.cluster0 = hd[bt]
  BY <1>1, <1>3 DEF HeadsOK, SizesOK, Live
<1>5. PICK p : \E L \in Nat : Linked(fat, hd[bt], p, L) /\ e.size <= ClusSize * L
  BY <1>1 DEF HeadsOK, SizesOK, Live
<1>6. PICK L \in Nat : Linked(fat, hd[bt], p, L) /\ e.size <= ClusSize * L
  BY <1>5
<1>7. o < ClusSize * L
  <2>1. PICK m \in Nat : m = ClusSize * L
    BY FatSizes
  <2> QED
    BY <1>1, <1>3, <1>6, <2>1
<1>8. PICK q \in 0 .. (L - 1) : q = o \div ClusSize /\ (o % ClusSize) + 1 \in 1 .. ClusSize
  BY <1>7, PositionIn
<1>9. L # 0
  BY <1>8
<1>10. IsChain(fat, hd[bt], L)
  BY <1>6, <1>9 DEF Linked
<1>11. hd[bt] \in Cluster /\ Along(fat, hd[bt])[q] \in Cells(fat, hd[bt])
  BY <1>10, ChainIs
<1>12. hd[bt] # 0
  BY <1>11, FatSizes
<1> QED
  BY <1>1, <1>4, <1>8, <1>11, <1>12 DEF ClusterAt, CellsOf

\* A file whose chain and whose bytes stay has the bytes that it had.
LEMMA SameBytes ==
    ASSUME HostFatInv, NEW hd, HeadsOK(hd), NEW bt \in Entries("file"),
           SameChain(fat, fat', hd[bt]),
           \A x \in CellsOf(fat, hd[bt]) : \A k \in 1 .. ClusSize : data'[x][k] = data[x][k],
           NEW e, e = At(bt)
    PROVE  BytesOf(e)' = BytesOf(e)
<1>1. bt \in Slot
  BY EntriesAre
<1>2. PICK size \in Nat : size = e.size
  BY <1>1, SlotIs DEF HostFatInv, EntryRecord
<1>3. ASSUME NEW i \in 1 .. size
      PROVE  data'[ClusterAt(fat, e, i - 1)'][((i - 1) % ClusSize) + 1]
                = data[ClusterAt(fat, e, i - 1)][((i - 1) % ClusSize) + 1]
  <2>1. PICK o \in Nat : o = i - 1 /\ o < size
    BY <1>3
  <2>2. /\ e.cluster0 = hd[bt] /\ hd[bt] # 0
        /\ ClusterAt(fat, e, o) = Along(fat, hd[bt])[o \div ClusSize]
        /\ ClusterAt(fat, e, o) \in CellsOf(fat, hd[bt])
        /\ (o % ClusSize) + 1 \in 1 .. ClusSize
    BY <1>2, <2>1, BytePlace
  <2>3. ClusterAt(fat, e, o)' = Along(fat', hd[bt])[o \div ClusSize]
    BY <2>2 DEF ClusterAt
  <2>4. ClusterAt(fat, e, o)' = ClusterAt(fat, e, o)
    BY <2>2, <2>3 DEF SameChain
  <2> QED
    BY <2>1, <2>2, <2>4
<1> QED
  BY <1>2, <1>3 DEF BytesOf

\* One file is changed, or made, or none is.
LEMMA FilesFrame ==
    ASSUME HostFatInv, NEW hd, NEW at, NEW e, Keeps(hd, at, e),
           \A bt \in Entries("file") : bt # at =>
                \A x \in CellsOf(fat, hd[bt]) : \A k \in 1 .. ClusSize : data'[x][k] = data[x][k]
    PROVE  /\ at \in Entries("file")' <=> e.kind = "file" /\ e.name \notin Special
           /\ \A bt : bt # at => (bt \in Entries("file")' <=> bt \in Entries("file"))
           /\ \A bt \in Entries("file") : bt # at => FileBytes'[bt] = FileBytes[bt]
           /\ at \in Entries("file")' => FileBytes'[at] = BytesOf(e)'
<1>1. /\ at \in Entries("file")' <=> e.kind = "file" /\ e.name \notin Special
      /\ \A bt : bt # at => (bt \in Entries("file")' <=> bt \in Entries("file"))
  BY EntriesSet DEF Keeps
<1>2. ASSUME NEW bt \in Entries("file"), bt # at PROVE FileBytes'[bt] = FileBytes[bt]
  <2>1. PICK r : r = At(bt)
    OBVIOUS
  <2>2. bt \in Slot
    BY EntriesAre
  <2>3. bt \in Ats
    BY <2>2, SlotIs DEF HostFatInv
  <2>4. SameChain(fat, fat', hd[bt]) /\ HeadsOK(hd)
    BY <1>2, <2>3 DEF Keeps
  <2>5. \A x \in CellsOf(fat, hd[bt]) : \A k \in 1 .. ClusSize : data'[x][k] = data[x][k]
    BY <1>2
  <2>6. BytesOf(r)' = BytesOf(r)
    BY <2>1, <2>4, <2>5, SameBytes
  <2>7. At(bt)' = r /\ bt \in Entries("file")'
    BY <1>1, <1>2, <2>1, <2>2 DEF Keeps, Sets
  <2>8. FileBytes[bt] = BytesOf(r)
    BY <2>1 DEF FileBytes
  <2>9. FileBytes'[bt] = BytesOf(r)'
    BY <2>7 DEF FileBytes, BytesOf
  <2> QED
    BY <2>6, <2>8, <2>9
<1>3. ASSUME at \in Entries("file")' PROVE FileBytes'[at] = BytesOf(e)'
  <2>1. At(at)' = e
    BY DEF Keeps, Sets
  <2> QED
    BY <1>3, <2>1 DEF FileBytes, BytesOf
<1> QED
  BY <1>1, <1>2, <1>3
\* A descriptor's place in its file.
LEMMA HandleIs ==
    ASSUME HostFatInv
    PROVE  /\ \A fd \in Opened :
                /\ fd \in Fd /\ Handles[fd] # None
                /\ Handles[fd] = [file |-> openfiles[fd].at, offset |-> openfiles[fd].offset]
                /\ Handles[fd].file = openfiles[fd].at
                /\ Handles[fd].offset = openfiles[fd].offset
                /\ FileBytes[openfiles[fd].at] = BytesOf(At(openfiles[fd].at))
                /\ openfiles[fd].at \in Entries("file")
                /\ At(openfiles[fd].at).size = openfiles[fd].info.size
                /\ openfiles[fd].info.size \in Nat /\ openfiles[fd].offset \in Nat
           /\ \A fd \in Fd \ Opened : Handles[fd] = None
<1>1. ASSUME NEW fd \in Opened
      PROVE  /\ fd \in Fd /\ Handles[fd] # None
             /\ Handles[fd] = [file |-> openfiles[fd].at, offset |-> openfiles[fd].offset]
             /\ Handles[fd].file = openfiles[fd].at
             /\ Handles[fd].offset = openfiles[fd].offset
             /\ openfiles[fd].info.size \in Nat /\ openfiles[fd].offset \in Nat
  <2>1. fd \in Fd /\ openfiles[fd] \in OpenFile
    BY DEF HostFatInv, OpenOK, Opened
  <2>2. Handles[fd] = [file |-> openfiles[fd].at, offset |-> openfiles[fd].offset]
    BY <2>1 DEF Handles
  <2>3. PICK of \in OpenFile : of = openfiles[fd]
    BY <2>1
  <2>4. [file |-> of.at, offset |-> of.offset] \in OpenHandle
    BY DEF OpenFile, OpenHandle
  <2>5. of.info.size \in Nat /\ of.offset \in Nat
    BY DEF OpenFile, EntryRecord
  <2> QED
    BY <2>1, <2>2, <2>3, <2>4, <2>5, HostFatAssumption
<1>2. ASSUME NEW fd \in Opened
      PROVE  /\ FileBytes[openfiles[fd].at] = BytesOf(At(openfiles[fd].at))
             /\ openfiles[fd].at \in Entries("file")
             /\ At(openfiles[fd].at).size = openfiles[fd].info.size
  BY DEF HostFatInv, OpenOK, FileBytes
<1>3. \A fd \in Fd \ Opened : Handles[fd] = None
  BY DEF Handles
<1> QED
  BY <1>1, <1>2, <1>3

\* The files that are open stay so; one descriptor's place changes.
LEMMA HandleMoves ==
    ASSUME HostFatInv, NEW fd \in Opened, NEW offset, Opened' = Opened,
           \A gd \in Opened : /\ openfiles'[gd].at = openfiles[gd].at
                              /\ gd # fd => openfiles'[gd].offset = openfiles[gd].offset,
           openfiles'[fd].offset = offset
    PROVE  Handles' = [Handles EXCEPT ![fd].offset = offset]
<1>1. PICK H : H = Handles
  OBVIOUS
<1>2. PICK G : G = Handles'
  OBVIOUS
<1>3. H = [gd \in Fd |-> H[gd]] /\ G = [gd \in Fd |-> G[gd]]
  BY <1>1, <1>2 DEF Handles
<1>4. ASSUME NEW gd \in Fd
      PROVE  G[gd] = IF gd \notin Opened THEN None
                     ELSE [file |-> openfiles'[gd].at, offset |-> openfiles'[gd].offset]
  BY <1>2 DEF Handles
<1>5. ASSUME NEW gd \in Fd, gd # fd PROVE G[gd] = H[gd]
  BY <1>1, <1>4, <1>5 DEF Handles
<1>6. fd \in Fd /\ H[fd] = [file |-> openfiles[fd].at, offset |-> openfiles[fd].offset]
  BY <1>1, HandleIs
<1>7. G[fd] = [H[fd] EXCEPT !.offset = offset]
  BY <1>4, <1>6
<1> QED
  BY <1>1, <1>2, <1>3, <1>5, <1>6, <1>7

LEMMA SameFiles ==
    ASSUME UNCHANGED <<fat, dir, data>>
    PROVE  FileBytes' = FileBytes
BY DEF FileBytes, Entries, Slots, At, BytesOf, ClusterAt

\* A file has as many bytes as its entry says.
LEMMA LengthIs ==
    ASSUME NEW e, e.size \in Nat
    PROVE  Len(BytesOf(e)) = e.size
<1>1. PICK n \in Nat : n = e.size
  OBVIOUS
<1>2. PICK s : s = BytesOf(e)
  OBVIOUS
<1>3. s = [i \in 1 .. n |-> s[i]]
  BY <1>1, <1>2 DEF BytesOf
<1>4. Len(s) = n
  BY <1>3
<1> QED
  BY <1>1, <1>2, <1>4

LEMMA StoreCloses ==
    ASSUME HostFatInv, NEW fd \in Fd, f_close(fd)
    PROVE  Store!Close(fd)
<1>1. FileBytes' = FileBytes
  BY SameFiles DEF f_close
<1>2. openfiles \in [Fd -> OpenFile \cup {None}]
  BY DEF HostFatInv, OpenOK
<1>3. openfiles' = [openfiles EXCEPT ![fd] = None] /\ readback' = <<>>
  BY DEF f_close
<1>4. Opened' = Opened \ {fd}
  BY <1>2, <1>3 DEF Opened
<1>5. \A gd \in Fd : gd # fd => openfiles'[gd] = openfiles[gd]
  BY <1>2, <1>3
<1>6. Handles' = [Handles EXCEPT ![fd] = None]
  BY <1>4, <1>5 DEF Handles
<1> QED
  BY <1>1, <1>3, <1>6 DEF Store!Close

LEMMA StoreSeeks ==
    ASSUME HostFatInv, NEW fd \in Fd, f_lseek(fd)
    PROVE  Store!Seek(fd)
<1>1. FileBytes' = FileBytes
  BY SameFiles DEF f_lseek
<1>2. openfiles \in [Fd -> OpenFile \cup {None}]
  BY DEF HostFatInv, OpenOK
<1>3. PICK offset \in {0, openfiles[fd].info.size} :
            openfiles' = [openfiles EXCEPT ![fd].offset = offset]
  BY DEF f_lseek
<1>4. fd \in Opened /\ readback' = <<>>
  BY DEF f_lseek
<1>5. openfiles[fd] # None /\ openfiles[fd] \in OpenFile
  BY <1>2, <1>4 DEF Opened
<1>6. PICK o : o = [openfiles[fd] EXCEPT !.offset = offset]
  OBVIOUS
<1>7. /\ openfiles' = [openfiles EXCEPT ![fd] = o] /\ o.at = openfiles[fd].at
      /\ o.offset = offset
  BY <1>2, <1>3, <1>5, <1>6 DEF OpenFile
<1>8. o # None
  <2>1. openfiles[fd].info.size \in 0 .. MaxLen /\ 0 \in 0 .. MaxLen
    BY <1>5, FatSizes DEF OpenFile, EntryRecord
  <2>2. o \in OpenFile
    BY <1>5, <1>6, <2>1 DEF OpenFile
  <2> QED
    BY <2>2, HostFatAssumption
<1>9. Opened' = Opened
  BY <1>2, <1>5, <1>7, <1>8 DEF Opened
<1>10. \A gd \in Opened : /\ openfiles'[gd].at = openfiles[gd].at
                          /\ gd # fd => openfiles'[gd].offset = openfiles[gd].offset
  BY <1>2, <1>7 DEF Opened
<1>11. Handles' = [Handles EXCEPT ![fd].offset = offset]
  BY <1>2, <1>4, <1>7, <1>9, <1>10, HandleMoves
<1>12. /\ Handles[fd] # None /\ Handles[fd].file = openfiles[fd].at
       /\ FileBytes[openfiles[fd].at] = BytesOf(At(openfiles[fd].at))
       /\ At(openfiles[fd].at).size = openfiles[fd].info.size
       /\ openfiles[fd].info.size \in Nat
  BY <1>4, HandleIs
<1>13. Len(FileBytes[Handles[fd].file]) = openfiles[fd].info.size
  BY <1>12, LengthIs
<1>14. offset \in 0 .. Len(FileBytes[Handles[fd].file])
  BY <1>12, <1>13
<1> QED
  BY <1>1, <1>4, <1>11, <1>12, <1>14 DEF Store!Seek
\* What f_read delivers is what the file has there.
LEMMA ReadBytes ==
    ASSUME HostFatInv, NEW fd \in Opened, NEW n \in Nat,
           openfiles[fd].offset + n <= openfiles[fd].info.size, NEW r,
           r = [i \in 1..n |->
                  data[ClusterAt(fat, openfiles[fd].info, openfiles[fd].offset + i - 1)]
                      [((openfiles[fd].offset + i - 1) % ClusSize) + 1]]
    PROVE  /\ Len(r) = n
           /\ r = SubSeq(FileBytes[openfiles[fd].at], openfiles[fd].offset + 1,
                         openfiles[fd].offset + n)
<1>1. PICK at : at = openfiles[fd].at
  OBVIOUS
<1>2. PICK e : e = At(at)
  OBVIOUS
<1>3. PICK from \in Nat, size \in Nat : from = openfiles[fd].offset /\ size = e.size
  BY <1>1, <1>2, HandleIs
<1>4. from + n <= size /\ at \in Entries("file") /\ FileBytes[at] = BytesOf(e)
  BY <1>1, <1>2, <1>3, HandleIs
<1>5. PICK s : s = BytesOf(e)
  OBVIOUS
<1>6. s = [i \in 1..size |-> data[ClusterAt(fat, e, i - 1)][((i - 1) % ClusSize) + 1]]
  BY <1>3, <1>5 DEF BytesOf
<1>7. PICK hd : HeadsOK(hd)
  BY DEF HostFatInv
<1>8. PICK info : info = openfiles[fd].info
  OBVIOUS
<1>9. r = [i \in 1..n |-> data[ClusterAt(fat, info, from + i - 1)][((from + i - 1) % ClusSize) + 1]]
  BY <1>3, <1>8
<1>10. ASSUME NEW i \in 1..n PROVE r[i] = s[from + i]
  <2>1. PICK o \in Nat : o = from + i - 1 /\ o < size /\ from + i \in 1..size /\ (from + i) - 1 = o
    <3>1. from + i - 1 \in Nat /\ from + i - 1 < size /\ from + i \in 1..size /\ (from + i) - 1 = from + i - 1
      BY <1>4, <1>10
    <3> QED
      BY <3>1
  <2>2. e.cluster0 = hd[at]
    BY <1>2, <1>3, <1>4, <1>7, <2>1, BytePlace
  <2>3. hd[at] = info.cluster0
    BY <1>1, <1>7, <1>8 DEF HeadsOK, OpenHeads
  <2>4. ClusterAt(fat, e, o) = ClusterAt(fat, info, o)
    BY <2>2, <2>3 DEF ClusterAt
  <2>5. r[i] = data[ClusterAt(fat, info, o)][(o % ClusSize) + 1]
    BY <1>9, <1>10, <2>1
  <2>6. s[from + i] = data[ClusterAt(fat, e, o)][(o % ClusSize) + 1]
    BY <1>6, <2>1
  <2> QED
    BY <2>4, <2>5, <2>6
<1>11. PICK S : S = {s[i] : i \in from + 1 .. from + n}
  OBVIOUS
<1>12. PICK u : u = SubSeq(s, from + 1, from + n)
  OBVIOUS
<1>13. /\ u \in Seq(S) /\ Len(u) = n
       /\ \A i \in 1..n : u[i] = s[from + i]
  <2>1. from + 1 \in Int /\ from + n \in Int /\ \A i \in from + 1 .. from + n : s[i] \in S
    BY <1>11
  <2>2. /\ SubSeq(s, from + 1, from + n) \in Seq(S)
        /\ Len(SubSeq(s, from + 1, from + n)) = IF from + 1 <= from + n THEN (from + n) - (from + 1) + 1 ELSE 0
        /\ \A i \in 1 .. (from + n) - (from + 1) + 1 :
                SubSeq(s, from + 1, from + n)[i] = s[(from + 1) + i - 1]
    BY <2>1, SubSeqProperties
  <2>3. (from + n) - (from + 1) + 1 = n /\ (from + 1 <= from + n <=> n > 0)
    OBVIOUS
  <2>4. \A i \in 1..n : (from + 1) + i - 1 = from + i
    OBVIOUS
  <2> QED
    BY <1>12, <2>2, <2>3, <2>4
<1>14. u = [i \in 1..n |-> u[i]]
  BY <1>13
<1>15. r = u
  BY <1>9, <1>10, <1>13, <1>14
<1> QED
  BY <1>1, <1>3, <1>4, <1>5, <1>12, <1>13, <1>15

LEMMA StoreReads ==
    ASSUME HostFatInv, NEW fd \in Fd, NEW size \in Nat, f_read(fd, size)
    PROVE  Store!Read(fd)
<1>1. FileBytes' = FileBytes
  BY SameFiles DEF f_read
<1>2. PICK n : n = IF openfiles[fd].offset + size > openfiles[fd].info.size
                   THEN openfiles[fd].info.size - openfiles[fd].offset ELSE size
  OBVIOUS
<1>3. /\ fd \in Opened
      /\ readback' = [i \in 1..n |->
                data[ClusterAt(fat, openfiles[fd].info, openfiles[fd].offset + i - 1)]
                    [((openfiles[fd].offset + i - 1) % ClusSize) + 1]]
      /\ openfiles' = [openfiles EXCEPT ![fd].offset = @ + n]
  BY <1>2 DEF f_read
<1>4. /\ n \in Nat /\ openfiles[fd].offset \in Nat
      /\ openfiles[fd].offset + n <= openfiles[fd].info.size
  BY <1>2, <1>3, ReadSize DEF HostFatInv
<1>5. PICK r : r = readback'
  OBVIOUS
<1>6. /\ Len(r) = n
      /\ r = SubSeq(FileBytes[openfiles[fd].at], openfiles[fd].offset + 1,
                    openfiles[fd].offset + n)
  BY <1>3, <1>4, <1>5, ReadBytes
<1>7. openfiles \in [Fd -> OpenFile \cup {None}]
  BY DEF HostFatInv, OpenOK
<1>8. openfiles[fd] # None /\ openfiles[fd] \in OpenFile
  BY <1>3, <1>7 DEF Opened
<1>9. PICK offset : offset = openfiles[fd].offset + n
  OBVIOUS
<1>10. PICK o : o = [openfiles[fd] EXCEPT !.offset = offset]
  OBVIOUS
<1>11. /\ openfiles' = [openfiles EXCEPT ![fd] = o] /\ o.at = openfiles[fd].at
       /\ o.offset = offset
  BY <1>3, <1>7, <1>8, <1>9, <1>10 DEF OpenFile
<1>12. o # None
  <2>1. offset \in 0 .. MaxLen
    <3>1. openfiles[fd].info.size \in 0 .. MaxLen
      BY <1>8 DEF OpenFile, EntryRecord
    <3> QED
      BY <1>4, <1>9, <3>1, FatSizes
  <2>2. o \in OpenFile
    BY <1>8, <1>10, <2>1 DEF OpenFile
  <2> QED
    BY <2>2, HostFatAssumption
<1>13. Opened' = Opened
  BY <1>7, <1>8, <1>11, <1>12 DEF Opened
<1>14. \A gd \in Opened : /\ openfiles'[gd].at = openfiles[gd].at
                          /\ gd # fd => openfiles'[gd].offset = openfiles[gd].offset
  BY <1>7, <1>11 DEF Opened
<1>15. Handles' = [Handles EXCEPT ![fd].offset = offset]
  BY <1>3, <1>7, <1>11, <1>13, <1>14, HandleMoves
<1>16. /\ Handles[fd] # None /\ Handles[fd].file = openfiles[fd].at
       /\ Handles[fd].offset = openfiles[fd].offset
  BY <1>3, HandleIs
<1>17. offset = Handles[fd].offset + Len(readback')
  BY <1>5, <1>6, <1>9, <1>16
<1>18. Handles' = [Handles EXCEPT ![fd].offset = @ + Len(readback')]
  BY <1>15, <1>17
<1>19. readback' = SubSeq(FileBytes[Handles[fd].file], Handles[fd].offset + 1,
                          Handles[fd].offset + Len(readback'))
  BY <1>5, <1>6, <1>16
<1> QED
  BY <1>1, <1>16, <1>18, <1>19 DEF Store!Read
LEMMA StoreMakes ==
    ASSUME HostFatInv, NEW hd, NEW at, NEW e, MakeDone(hd, at, e)
    PROVE  Store!Fail
<1>1. /\ Keeps(hd, at, e) /\ at \notin Entries("file") /\ e.kind # "file"
      /\ data' = data /\ openfiles' = openfiles /\ readback' = <<>>
  BY DEF MakeDone
<1>2. /\ at \notin Entries("file")'
      /\ \A bt : bt # at => (bt \in Entries("file")' <=> bt \in Entries("file"))
      /\ \A bt \in Entries("file") : bt # at => FileBytes'[bt] = FileBytes[bt]
  BY <1>1, FilesFrame
<1>3. PICK E : E = Entries("file")
  OBVIOUS
<1>4. Entries("file")' = E
  BY <1>1, <1>2, <1>3
<1>5. PICK S : S = FileBytes
  OBVIOUS
<1>6. PICK T : T = FileBytes'
  OBVIOUS
<1>7. S = [bt \in E |-> S[bt]] /\ T = [bt \in E |-> T[bt]]
  BY <1>3, <1>4, <1>5, <1>6 DEF FileBytes
<1>8. \A bt \in E : T[bt] = S[bt]
  BY <1>1, <1>2, <1>3, <1>5, <1>6
<1>9. FileBytes' = FileBytes
  BY <1>5, <1>6, <1>7, <1>8
<1>10. Handles' = Handles
  BY <1>1 DEF Handles, Opened
<1> QED
  BY <1>1, <1>9, <1>10 DEF Store!Fail

\* One file is given new bytes, the others keep theirs.
LEMMA FilesWith ==
    ASSUME HostFatInv, NEW hd, NEW at, NEW e, Keeps(hd, at, e),
           e.kind = "file", e.name \notin Special,
           \A bt \in Entries("file") : bt # at =>
                \A x \in CellsOf(fat, hd[bt]) : \A k \in 1 .. ClusSize : data'[x][k] = data[x][k],
           NEW s, BytesOf(e)' = s
    PROVE  FileBytes' = Store!With(at, s)
<1>1. /\ at \in Entries("file")'
      /\ \A bt : bt # at => (bt \in Entries("file")' <=> bt \in Entries("file"))
      /\ \A bt \in Entries("file") : bt # at => FileBytes'[bt] = FileBytes[bt]
      /\ FileBytes'[at] = s
  BY FilesFrame
<1>2. PICK E : E = Entries("file")
  OBVIOUS
<1>3. Entries("file")' = E \cup {at}
  BY <1>1, <1>2
<1>4. PICK S : S = FileBytes
  OBVIOUS
<1>5. PICK T : T = FileBytes'
  OBVIOUS
<1>6. DOMAIN S = E /\ T = [bt \in E \cup {at} |-> T[bt]]
  BY <1>2, <1>3, <1>4, <1>5 DEF FileBytes
<1>7. T[at] = s /\ \A bt \in E : bt # at => T[bt] = S[bt]
  BY <1>1, <1>2, <1>4, <1>5
<1>8. T = [g \in E \cup {at} |-> IF g = at THEN s ELSE S[g]]
  BY <1>6, <1>7
<1> QED
  BY <1>4, <1>5, <1>6, <1>8 DEF Store!With

LEMMA StoreOpens ==
    ASSUME HostFatInv, NEW fd \in Fd, NEW hd, NEW at, NEW e, NEW t, NEW trunc, NEW fresh,
           OpenDone(fd, hd, at, e, t, trunc, fresh)
    PROVE  at \in Ats /\ Store!Open(fd, at)
<1>1. /\ Keeps(hd, at, t.info) /\ fat' = t.fat /\ data' = data /\ readback' = <<>>
      /\ openfiles[fd] = None /\ at \in Ats
      /\ openfiles' = [openfiles EXCEPT ![fd] = [at |-> at, info |-> t.info, offset |-> 0]]
      /\ t.info \in EntryRecord /\ t.info.kind = "file" /\ t.info.name \notin Special
      /\ IF trunc THEN t.info.size = 0 ELSE t.fat = fat /\ t.info = e
      /\ IF fresh THEN at \notin Entries("file") /\ e.size = 0
         ELSE at \in Entries("file") /\ e = At(at)
  BY DEF OpenDone
<1>2. \A bt \in Entries("file") : bt # at =>
            \A x \in CellsOf(fat, hd[bt]) : \A k \in 1 .. ClusSize : data'[x][k] = data[x][k]
  BY <1>1
<1>3. ASSUME trunc \/ fresh PROVE FileBytes' = Store!With(at, <<>>)
  <2>1. t.info.size = 0
    BY <1>1, <1>3
  <2>2. PICK r : r = t.info
    OBVIOUS
  <2>3. BytesOf(r)' = <<>>
    BY <2>1, <2>2 DEF BytesOf
  <2>4. FileBytes' = Store!With(at, <<>>)
    BY <1>1, <1>2, <2>2, <2>3, FilesWith
  <2> QED
    BY <2>4
<1>4. ASSUME ~ trunc, ~ fresh PROVE FileBytes' = FileBytes /\ at \in DOMAIN FileBytes
  <2>1. fat' = fat /\ t.info = e /\ at \in Entries("file") /\ e = At(at)
    BY <1>1, <1>4
  <2>2. BytesOf(e)' = BytesOf(e)
    BY <1>1, <2>1 DEF BytesOf, ClusterAt
  <2>3. /\ at \in Entries("file")'
        /\ \A bt : bt # at => (bt \in Entries("file")' <=> bt \in Entries("file"))
        /\ \A bt \in Entries("file") : bt # at => FileBytes'[bt] = FileBytes[bt]
        /\ FileBytes'[at] = BytesOf(e)'
    BY <1>1, <1>2, <2>1, FilesFrame
  <2>4. PICK E : E = Entries("file")
    OBVIOUS
  <2>5. Entries("file")' = E
    BY <2>1, <2>3, <2>4
  <2>6. PICK S : S = FileBytes
    OBVIOUS
  <2>7. PICK T : T = FileBytes'
    OBVIOUS
  <2>8. S = [bt \in E |-> S[bt]] /\ T = [bt \in E |-> T[bt]]
    BY <2>4, <2>5, <2>6, <2>7 DEF FileBytes
  <2>9. S[at] = BytesOf(e)
    BY <2>1, <2>6 DEF FileBytes
  <2>10. \A bt \in E : T[bt] = S[bt]
    BY <2>2, <2>3, <2>4, <2>6, <2>7, <2>9
  <2>11. FileBytes' = FileBytes /\ at \in DOMAIN FileBytes
    BY <2>1, <2>4, <2>6, <2>7, <2>8, <2>10
  <2> QED
    BY <2>11
<1>5. openfiles \in [Fd -> OpenFile \cup {None}]
  BY DEF HostFatInv, OpenOK
<1>6. PICK o : o = [at |-> at, info |-> t.info, offset |-> 0]
  OBVIOUS
<1>7. openfiles' = [openfiles EXCEPT ![fd] = o] /\ o.at = at /\ o.offset = 0
  BY <1>1, <1>6
<1>8. o # None
  <2>1. 0 \in 0 .. MaxLen /\ at \in (0 .. NClus - 1) \X (1 .. RootEntries + DirEntries)
    BY <1>1, FatSizes DEF Ats
  <2>2. o \in OpenFile
    BY <1>1, <1>6, <2>1 DEF OpenFile
  <2> QED
    BY <2>2, HostFatAssumption
<1>9. Opened' = Opened \cup {fd} /\ fd \notin Opened
  BY <1>1, <1>5, <1>7, <1>8 DEF Opened
<1>10. openfiles'[fd] = o /\ \A gd \in Fd : gd # fd => openfiles'[gd] = openfiles[gd]
  BY <1>5, <1>7
<1>11. Handles' = [Handles EXCEPT ![fd] = [file |-> at, offset |-> 0]]
  <2>1. PICK H : H = Handles
    OBVIOUS
  <2>2. PICK G : G = Handles'
    OBVIOUS
  <2>3. H = [gd \in Fd |-> H[gd]] /\ G = [gd \in Fd |-> G[gd]]
    BY <2>1, <2>2 DEF Handles
  <2>4. G[fd] = [file |-> at, offset |-> 0]
    BY <1>7, <1>9, <1>10, <2>2 DEF Handles
  <2>5. ASSUME NEW gd \in Fd, gd # fd PROVE G[gd] = H[gd]
    BY <1>9, <1>10, <2>1, <2>2, <2>5 DEF Handles
  <2> QED
    BY <2>1, <2>2, <2>3, <2>4, <2>5
<1>12. Handles[fd] = None
  BY <1>9, HandleIs
<1> QED
  BY <1>1, <1>3, <1>4, <1>11, <1>12 DEF Store!Open
\* The bytes that f_write puts into the chain are new at their places alone.
WritesAt(F, of, n, L) ==
    /\ of.offset \in Nat /\ of.offset + n <= ClusSize * L
    /\ \E p : Linked(F, of.info.cluster0, p, L)
Written(F, of, n, L, places) ==
    /\ \A o \in of.offset .. of.offset + n - 1 :
            /\ o \in Nat /\ ClusterAt(F, of.info, o) \in Cluster
            /\ (o % ClusSize) + 1 \in 1 .. ClusSize
            /\ \E w \in places : w.clus = ClusterAt(F, of.info, o) /\ w.k = (o % ClusSize) + 1
            /\ \A w \in places : w.clus = ClusterAt(F, of.info, o) /\ w.k = (o % ClusSize) + 1
                                => w.byte = <<of.at, o>>
    /\ \A u \in Nat : u < ClusSize * L /\ u \notin of.offset .. of.offset + n - 1 =>
            ~ \E w \in places : w.clus = ClusterAt(F, of.info, u) /\ w.k = (u % ClusSize) + 1
    /\ \A w \in places : w.clus \in CellsOf(F, of.info.cluster0)
LEMMA WrittenAt ==
    ASSUME NEW F, NEW of, NEW n \in Nat, NEW L \in Nat, WritesAt(F, of, n, L)
    PROVE  Written(F, of, n, L, Places(F, of, n))
<1> PICK at, info, places :
        of.at = at /\ of.info = info /\ places = Places(F, of, n)
  OBVIOUS
<1> PICK p : Linked(F, info.cluster0, p, L)
  BY DEF WritesAt
<1> of.offset \in Nat /\ of.offset + n <= ClusSize * L
  BY DEF WritesAt
<1>1. PICK A : A = Along(F, info.cluster0)
  OBVIOUS
<1>2. PICK from \in Nat : from = of.offset
  OBVIOUS
<1>3. PICK m \in Nat : m = ClusSize * L
  BY FatSizes
<1>4. places = {[clus |-> A[o \div ClusSize], k |-> (o % ClusSize) + 1,
                 byte |-> <<at, o>>] : o \in from .. from + n - 1}
  BY <1>1, <1>2 DEF Places, ClusterAt
<1>5. ASSUME NEW o \in Nat, o < m
      PROVE  /\ o \div ClusSize \in 0 .. (L - 1) /\ (o % ClusSize) + 1 \in 1 .. ClusSize
             /\ A[o \div ClusSize] \in CellsOf(F, info.cluster0)
             /\ A[o \div ClusSize] \in Cluster
             /\ \A u \in Nat : u < m /\ A[o \div ClusSize] = A[u \div ClusSize]
                               /\ (o % ClusSize) + 1 = (u % ClusSize) + 1 => o = u
  <2>1. o \div ClusSize \in 0 .. (L - 1) /\ (o % ClusSize) + 1 \in 1 .. ClusSize
    BY <1>3, <1>5, PositionIn
  <2>2. L # 0
    BY <2>1
  <2>3. IsChain(F, info.cluster0, L)
    BY <2>2 DEF Linked
  <2>4. /\ \A i, j \in 0 .. (L - 1) : A[i] = A[j] => i = j
        /\ Cells(F, info.cluster0) = {A[i] : i \in 0 .. (L - 1)} /\ info.cluster0 \in Cluster
    BY <1>1, <2>3, ChainIs
  <2>5. info.cluster0 # 0
    BY <2>4, FatSizes
  <2>6. A[o \div ClusSize] \in CellsOf(F, info.cluster0)
    BY <2>1, <2>4, <2>5 DEF CellsOf
  <2>7. ASSUME NEW u \in Nat, u < m, A[o \div ClusSize] = A[u \div ClusSize],
               (o % ClusSize) + 1 = (u % ClusSize) + 1
        PROVE  o = u
    <3>1. u \div ClusSize \in 0 .. (L - 1)
      BY <1>3, <2>7, PositionIn
    <3>2. o \div ClusSize = u \div ClusSize
      BY <2>1, <2>4, <2>7, <3>1
    <3> QED
      BY <2>7, <3>2, PositionsDiffer
  <2>8. A[o \div ClusSize] \in Cluster
    BY <1>1, <2>1, <2>3, ChainIs
  <2> QED
    BY <2>1, <2>6, <2>7, <2>8
<1>6. \A o \in from .. from + n - 1 : o \in Nat /\ o < m
  BY <1>2, <1>3
<1>7. \A w \in places : \E o \in from .. from + n - 1 :
        w.clus = A[o \div ClusSize] /\ w.k = (o % ClusSize) + 1 /\ w.byte = <<at, o>>
  BY <1>4
<1>8. ASSUME NEW o \in from .. from + n - 1
      PROVE  /\ o \in Nat
             /\ \E w \in places : w.clus = A[o \div ClusSize] /\ w.k = (o % ClusSize) + 1
             /\ \A w \in places :
                    w.clus = A[o \div ClusSize] /\ w.k = (o % ClusSize) + 1 => w.byte = <<at, o>>
  <2>1. \E w \in places : w.clus = A[o \div ClusSize] /\ w.k = (o % ClusSize) + 1
    <3>1. PICK w : w = [clus |-> A[o \div ClusSize], k |-> (o % ClusSize) + 1, byte |-> <<at, o>>]
      OBVIOUS
    <3>2. w \in places
      BY <1>4, <3>1
    <3> QED
      BY <3>1, <3>2
  <2>2. ASSUME NEW w \in places, w.clus = A[o \div ClusSize], w.k = (o % ClusSize) + 1
        PROVE  w.byte = <<at, o>>
    <3>1. PICK u \in from .. from + n - 1 :
            w.clus = A[u \div ClusSize] /\ w.k = (u % ClusSize) + 1 /\ w.byte = <<at, u>>
      BY <1>7
    <3>2. o \in Nat /\ o < m /\ u \in Nat /\ u < m
      BY <1>6
    <3>3. o = u
      BY <1>5, <2>2, <3>1, <3>2
    <3> QED
      BY <3>1, <3>3
  <2> QED
    BY <1>6, <2>1, <2>2
<1>9. ASSUME NEW u \in Nat, u < m, u \notin from .. from + n - 1, NEW w \in places,
             w.clus = A[u \div ClusSize], w.k = (u % ClusSize) + 1
      PROVE  FALSE
  <2>1. PICK o \in from .. from + n - 1 : w.clus = A[o \div ClusSize] /\ w.k = (o % ClusSize) + 1
    BY <1>7
  <2>2. o \in Nat /\ o < m
    BY <1>6
  <2> QED
    BY <1>5, <1>9, <2>1, <2>2
<1>10. \A w \in places : w.clus \in CellsOf(F, info.cluster0)
  BY <1>5, <1>6, <1>7
<1>11. \A o : ClusterAt(F, info, o) = A[o \div ClusSize]
  BY <1>1 DEF ClusterAt
<1> QED
  <2>1. \A o \in of.offset .. of.offset + n - 1 :
            /\ A[o \div ClusSize] \in Cluster /\ (o % ClusSize) + 1 \in 1 .. ClusSize
    BY <1>2, <1>5, <1>6
  <2>2. \A o \in of.offset .. of.offset + n - 1 :
            /\ o \in Nat
            /\ \E w \in places : w.clus = A[o \div ClusSize] /\ w.k = (o % ClusSize) + 1
            /\ \A w \in places :
                    w.clus = A[o \div ClusSize] /\ w.k = (o % ClusSize) + 1 => w.byte = <<at, o>>
    BY <1>2, <1>8
  <2>3. \A u \in Nat : u < ClusSize * L /\ u \notin of.offset .. of.offset + n - 1 =>
            ~ \E w \in places : w.clus = A[u \div ClusSize] /\ w.k = (u % ClusSize) + 1
    BY <1>2, <1>3, <1>9
  <2> QED
    BY <1>10, <1>11, <2>1, <2>2, <2>3 DEF Written
\* What a step of f_write is, in parts.
WriteParts(fd, n, hd, K, t, L, e, of) ==
    /\ of = openfiles[fd]
    /\ fd \in Opened /\ of \in OpenFile /\ HeadsOK(hd) /\ Keeps(hd, of.at, e)
    /\ of.at \in Entries("file") /\ of.at \in Ats /\ At(of.at).size = of.info.size
    /\ hd[of.at] = of.info.cluster0
    /\ of.offset \in Nat /\ of.info.size \in Nat /\ of.offset <= of.info.size
    /\ \E p : Linked(fat, of.info.cluster0, p, K)
    /\ of.info.size <= ClusSize * K
    /\ fat' = t.fat /\ Writable(of, K, n, t, L)
    /\ e \in EntryRecord /\ e.kind = "file" /\ e.name \notin Special
    /\ readback' = <<>>
    /\ t.ok => /\ e.size = t.info.size /\ e.cluster0 = t.info.cluster0
               /\ data' = OnDisk(Places(fat', [of EXCEPT !.info = t.info], n))
               /\ openfiles' = [openfiles EXCEPT ![fd].info = t.info, ![fd].offset = @ + n]
    /\ ~ t.ok => /\ e = At(of.at) /\ data' = data
                 /\ openfiles' = [openfiles EXCEPT ![fd].info = t.info]
LEMMA WriteIs ==
    ASSUME HostFatInv, NEW fd \in Fd, NEW n \in Nat, f_write(fd, n),
           NEW hd, NEW K \in Nat, NEW t, NEW L \in Nat, NEW e,
           WriteDone(fd, n, hd, K, t, L, e)
    PROVE  \E of : WriteParts(fd, n, hd, K, t, L, e, of)
<1> PICK of : of = openfiles[fd]
  OBVIOUS
<1>1. fd \in Opened /\ readback' = <<>>
  BY DEF f_write
<1>2. of \in OpenFile
  BY <1>1 DEF HostFatInv, OpenOK, Opened
<1>3. t = WriteTo(of, n) /\ fat' = t.fat
  BY DEF WriteDone
<1>4. /\ t.ok => /\ data' = OnDisk(Places(t.fat, [of EXCEPT !.info = t.info], n))
                 /\ openfiles' = [openfiles EXCEPT ![fd].info = t.info, ![fd].offset = @ + n]
      /\ ~ t.ok => data' = data /\ openfiles' = [openfiles EXCEPT ![fd].info = t.info]
  BY <1>3 DEF f_write, WriteTo
<1>5. Keeps(hd, of.at, e) /\ HeadsOK(hd)
  BY DEF WriteDone, Keeps
<1>6. of.at \in Entries("file") /\ At(of.at).size = of.info.size /\ of.offset <= of.info.size
  BY <1>1 DEF HostFatInv, OpenOK
<1>7. hd[of.at] = of.info.cluster0
  BY <1>1, <1>5 DEF HeadsOK, OpenHeads
<1>8. of.offset \in Nat /\ of.info.size \in Nat
  BY <1>2 DEF OpenFile, EntryRecord
<1>9. of.at \in Ats
  BY <1>2 DEF OpenFile, Ats
<1>10. /\ \E p : Linked(fat, of.info.cluster0, p, K)
       /\ of.info.size <= ClusSize * K /\ Writable(of, K, n, t, L)
       /\ e \in EntryRecord /\ e.kind = "file" /\ e.name \notin Special
       /\ IF t.ok THEN e.size = t.info.size /\ e.cluster0 = t.info.cluster0 ELSE e = At(of.at)
  BY DEF WriteDone
<1> QED
  BY <1>1, <1>2, <1>3, <1>4, <1>5, <1>6, <1>7, <1>8, <1>9, <1>10 DEF WriteParts

\* The bytes that the file had are where they were.
StaysAt(of, t, u) ==
    /\ At(of.at).cluster0 = t.info.cluster0
    /\ Along(fat', t.info.cluster0)[u \div ClusSize] = ClusterAt(fat, At(of.at), u)
    /\ (u % ClusSize) + 1 \in 1 .. ClusSize
    /\ ClusterAt(fat, At(of.at), u) \in Cluster
LEMMA OldPlace ==
    ASSUME HostFatInv, NEW fd, NEW n, NEW hd, NEW K \in Nat, NEW t, NEW L \in Nat,
           NEW e, NEW of, WriteParts(fd, n, hd, K, t, L, e, of),
           NEW u \in Nat, u < of.info.size
    PROVE  StaysAt(of, t, u)
<1> PICK p : Linked(fat, of.info.cluster0, p, K)
  BY DEF WriteParts
<1> HeadsOK(hd) /\ Writable(of, K, n, t, L) /\ fat' = t.fat
  BY DEF WriteParts
<1> /\ of.at \in Entries("file") /\ hd[of.at] = of.info.cluster0
    /\ At(of.at).size = of.info.size /\ of.info.size \in Nat
    /\ of.info.size <= ClusSize * K
  BY DEF WriteParts
<1>1. PICK m \in Nat : m = ClusSize * K
  BY FatSizes
<1>2. u < m
  BY <1>1
<1>3. /\ At(of.at).cluster0 = hd[of.at] /\ hd[of.at] # 0
      /\ ClusterAt(fat, At(of.at), u) = Along(fat, hd[of.at])[u \div ClusSize]
      /\ (u % ClusSize) + 1 \in 1 .. ClusSize
  BY BytePlace
<1>4. u \div ClusSize \in 0 .. (K - 1)
  BY <1>1, <1>2, PositionIn
<1>5. K > 0
  BY <1>4
<1>6. t.info.cluster0 = of.info.cluster0
  BY <1>5 DEF Writable, Longer
<1>7. \A i \in 0 .. (K - 1) : Along(fat', t.info.cluster0)[i] = Along(fat, t.info.cluster0)[i]
  BY <1>5 DEF Writable, Longer
<1>8. IsChain(fat, of.info.cluster0, K)
  BY <1>5 DEF Linked
<1>9. Along(fat, of.info.cluster0)[u \div ClusSize] \in Cluster
  BY <1>4, <1>8, ChainIs
<1>10. PICK v : v = u \div ClusSize
  OBVIOUS
<1>11. PICK c : c = ClusterAt(fat, At(of.at), u)
  OBVIOUS
<1>12. /\ At(of.at).cluster0 = t.info.cluster0 /\ c \in Cluster
       /\ Along(fat', t.info.cluster0)[v] = c
  BY <1>3, <1>4, <1>6, <1>7, <1>9, <1>10, <1>11
<1> QED
  BY <1>3, <1>10, <1>11, <1>12 DEF StaysAt

\* A failed write leaves every file what it was.
LEMMA StoreFails ==
    ASSUME HostFatInv, NEW fd \in Fd, NEW n \in Nat, f_write(fd, n),
           NEW hd, NEW K \in Nat, NEW t, NEW L \in Nat, NEW e,
           WriteDone(fd, n, hd, K, t, L, e), ~ t.ok
    PROVE  Store!Fail
<1>1. PICK of : WriteParts(fd, n, hd, K, t, L, e, of)
  BY WriteIs
<1>2. /\ fd \in Opened /\ of \in OpenFile /\ HeadsOK(hd) /\ Keeps(hd, of.at, e)
      /\ of.at \in Entries("file") /\ of.at \in Ats /\ At(of.at).size = of.info.size
      /\ of.offset \in Nat /\ of.info.size \in Nat
      /\ Writable(of, K, n, t, L) /\ of = openfiles[fd]
      /\ e.kind = "file" /\ e.name \notin Special /\ readback' = <<>>
      /\ e = At(of.at) /\ data' = data
      /\ openfiles' = [openfiles EXCEPT ![fd].info = t.info]
  BY <1>1 DEF WriteParts
<1>3. PICK at : at = of.at
  OBVIOUS
<1>5. PICK size \in Nat : size = of.info.size /\ size = e.size
  BY <1>2
<1>6. ASSUME NEW i \in 1 .. size
      PROVE  data'[ClusterAt(fat, e, i - 1)'][((i - 1) % ClusSize) + 1]
                = data[ClusterAt(fat, e, i - 1)][((i - 1) % ClusSize) + 1]
  <2>1. PICK u \in Nat : u = i - 1 /\ u < of.info.size
    BY <1>5, <1>6
  <2>4. u < of.info.size
    BY <2>1
  <2>5. StaysAt(of, t, u)
    BY <1>1, <2>4, OldPlace
  <2>2. /\ At(of.at).cluster0 = t.info.cluster0
        /\ Along(fat', t.info.cluster0)[u \div ClusSize] = ClusterAt(fat, At(of.at), u)
    BY <2>5 DEF StaysAt
  <2>3. ClusterAt(fat, e, u)' = ClusterAt(fat, e, u)
    BY <1>2, <2>2 DEF ClusterAt
  <2> QED
    BY <1>2, <2>1, <2>3
<1>7. BytesOf(e)' = BytesOf(e)
  BY <1>5, <1>6 DEF BytesOf
<1>8. \A bt \in Entries("file") : bt # at =>
            \A x \in CellsOf(fat, hd[bt]) : \A k \in 1 .. ClusSize : data'[x][k] = data[x][k]
  BY <1>2
<1>25. Keeps(hd, at, e)
  BY <1>2, <1>3
<1>9. /\ at \in Entries("file")'
      /\ \A bt : bt # at => (bt \in Entries("file")' <=> bt \in Entries("file"))
      /\ \A bt \in Entries("file") : bt # at => FileBytes'[bt] = FileBytes[bt]
      /\ FileBytes'[at] = BytesOf(e)'
  BY <1>2, <1>8, <1>25, FilesFrame
<1>10. PICK E : E = Entries("file")
  OBVIOUS
<1>26. at \in E
  BY <1>2, <1>3, <1>10
<1>11. Entries("file")' = E
  BY <1>9, <1>10, <1>26
<1>12. PICK S : S = FileBytes
  OBVIOUS
<1>13. PICK T : T = FileBytes'
  OBVIOUS
<1>14. S = [bt \in E |-> S[bt]] /\ T = [bt \in E |-> T[bt]]
  BY <1>10, <1>11, <1>12, <1>13 DEF FileBytes
<1>15. S[at] = BytesOf(e)
  BY <1>2, <1>3, <1>12 DEF FileBytes
<1>16. \A bt \in E : T[bt] = S[bt]
  BY <1>7, <1>9, <1>10, <1>12, <1>13, <1>15
<1>17. FileBytes' = FileBytes
  BY <1>12, <1>13, <1>14, <1>16
<1>18. openfiles \in [Fd -> OpenFile \cup {None}] /\ openfiles[fd] # None
  BY <1>2 DEF HostFatInv, OpenOK, Opened
<1>19. PICK o : o = [of EXCEPT !.info = t.info]
  OBVIOUS
<1>20. o # None /\ o.at = of.at /\ o.offset = of.offset
  <2>1. o \in OpenFile
    BY <1>2, <1>19 DEF OpenFile, Writable
  <2> QED
    BY <1>2, <1>19, <2>1, HostFatAssumption DEF OpenFile
<1>21. openfiles' = [openfiles EXCEPT ![fd] = o]
  BY <1>1, <1>2, <1>18, <1>19
<1>22. Opened' = Opened
  BY <1>18, <1>20, <1>21 DEF Opened
<1>23. \A gd \in Opened : openfiles'[gd].at = openfiles[gd].at /\ openfiles'[gd].offset = openfiles[gd].offset
  <2>1. openfiles'[fd] = o /\ \A gd \in Fd : gd # fd => openfiles'[gd] = openfiles[gd]
    BY <1>18, <1>21
  <2> QED
    BY <1>2, <1>20, <2>1 DEF Opened
<1>24. Handles' = Handles
  BY <1>22, <1>23 DEF Handles
<1> QED
  BY <1>2, <1>17, <1>24 DEF Store!Fail
\* The chain has room for the bytes that are written.
LEMMA WrittenFits ==
    ASSUME NEW fd, NEW n \in Nat, NEW hd, NEW K \in Nat, NEW t, NEW L \in Nat,
           NEW e, NEW of, WriteParts(fd, n, hd, K, t, L, e, of), t.ok,
           NEW o, o = [of EXCEPT !.info = t.info]
    PROVE  /\ o.info = t.info /\ o.at = of.at /\ o.offset = of.offset
           /\ WritesAt(fat', o, n, L)
<1>1. of \in OpenFile /\ Writable(of, K, n, t, L) /\ fat' = t.fat /\ of.offset \in Nat
  BY DEF WriteParts
<1>2. o.info = t.info /\ o.at = of.at /\ o.offset = of.offset
  BY <1>1 DEF OpenFile
<1>3. \E p : Linked(fat', o.info.cluster0, p, L)
  BY <1>1, <1>2 DEF Writable
<1>4. PICK m \in Nat : m = ClusSize * L
  BY FatSizes
<1>5. of.offset + n <= t.info.size /\ t.info.size <= ClusSize * L /\ t.info.size \in Nat
  BY <1>1 DEF Writable, EntryRecord
<1>6. o.offset + n <= ClusSize * L
  BY <1>1, <1>2, <1>4, <1>5
<1> QED
  BY <1>1, <1>2, <1>3, <1>6 DEF WritesAt

\* What the clusters hold then.
LEMMA OnDiskIs ==
    ASSUME NEW places, data' = OnDisk(places), NEW c \in Cluster, NEW k \in 1 .. ClusSize
    PROVE  /\ (~ \E w \in places : w.clus = c /\ w.k = k) => data'[c][k] = data[c][k]
           /\ \A b : /\ \E w \in places : w.clus = c /\ w.k = k
                     /\ \A w \in places : w.clus = c /\ w.k = k => w.byte = b
                     => data'[c][k] = b
<1>1. data'[c][k] = IF \E w \in places : w.clus = c /\ w.k = k
                    THEN (CHOOSE w \in places : w.clus = c /\ w.k = k).byte
                    ELSE data[c][k]
  BY DEF OnDisk
<1>2. ASSUME NEW b, \E w \in places : w.clus = c /\ w.k = k,
             \A w \in places : w.clus = c /\ w.k = k => w.byte = b
      PROVE  data'[c][k] = b
  <2>1. PICK v : v = CHOOSE w \in places : w.clus = c /\ w.k = k
    OBVIOUS
  <2>2. v \in places /\ v.clus = c /\ v.k = k
    BY <1>2, <2>1
  <2> QED
    BY <1>1, <1>2, <2>1, <2>2
<1> QED
  BY <1>1, <1>2

\* f_write touches no byte of another file.
LEMMA OthersKeep ==
    ASSUME HostFatInv, NEW fd, NEW n \in Nat, NEW hd, NEW K \in Nat, NEW t, NEW L \in Nat,
           NEW e, NEW of, WriteParts(fd, n, hd, K, t, L, e, of), t.ok,
           NEW bt \in Entries("file"), bt # of.at, NEW x \in CellsOf(fat, hd[bt]),
           NEW k \in 1 .. ClusSize
    PROVE  data'[x][k] = data[x][k]
<1>1. /\ ChainsApart(fat, hd) /\ Longer(fat, of.info, K, fat', t.info.cluster0, L)
      /\ hd[of.at] = of.info.cluster0 /\ of.at \in Ats
  BY DEF WriteParts, Writable, HeadsOK
<1>2. bt \in Ats
  BY EntriesAre, SlotIs DEF HostFatInv, Live
<1>3. x \in Cluster /\ fat[x] # Free
  <2>1. hd[bt] # 0 /\ x \in Cells(fat, hd[bt])
    BY DEF CellsOf
  <2>2. PICK p : \E M \in Nat : Linked(fat, hd[bt], p, M)
    BY <1>1, <1>2 DEF ChainsApart
  <2>3. PICK M \in Nat : Linked(fat, hd[bt], p, M)
    BY <2>2
  <2>4. IsChain(fat, hd[bt], M)
    BY <2>1, <2>3 DEF Linked
  <2> QED
    BY <2>1, <2>4, CellsTaken
<1>4. x \notin CellsOf(fat, of.info.cluster0)
  BY <1>1, <1>2 DEF ChainsApart
<1>5. x \notin CellsOf(fat', t.info.cluster0)
  BY <1>1, <1>3, <1>4 DEF Longer
<1>6. PICK o : o = [of EXCEPT !.info = t.info]
  OBVIOUS
<1>7. PICK places : places = Places(fat', o, n)
  OBVIOUS
<1>8. \A w \in places : w.clus \in CellsOf(fat', t.info.cluster0)
  <2>1. o.info = t.info /\ WritesAt(fat', o, n, L)
    BY <1>6, WrittenFits
  <2>2. Written(fat', o, n, L, Places(fat', o, n))
    BY <2>1, WrittenAt
  <2> QED
    BY <1>7, <2>1, <2>2 DEF Written
<1>9. data' = OnDisk(places)
  BY <1>6, <1>7 DEF WriteParts
<1>10. ~ \E w \in places : w.clus = x /\ w.k = k
  BY <1>5, <1>8
<1> QED
  BY <1>3, <1>9, <1>10, OnDiskIs
\* Read through its entry, the file then holds what was written, and what
\* it held elsewhere.
HasByte(e, i) == i \in Nat /\ 0 < i /\ i <= e.size
NewByte(e, of, n, i) ==
    BytesOf(e)'[i] = IF i \in of.offset + 1 .. of.offset + n THEN <<of.at, i - 1>>
                     ELSE BytesOf(At(of.at))[i]
LEMMA NewBytes ==
    ASSUME HostFatInv, NEW fd, NEW n \in Nat, NEW hd, NEW K \in Nat, NEW t, NEW L \in Nat,
           NEW e, NEW of, WriteParts(fd, n, hd, K, t, L, e, of), t.ok,
           NEW i, HasByte(e, i)
    PROVE  NewByte(e, of, n, i)
<1> i \in Nat /\ 0 < i /\ i <= e.size
  BY DEF HasByte
<1>1. PICK o : o = [of EXCEPT !.info = t.info]
  OBVIOUS
<1>2. o.info = t.info /\ o.at = of.at /\ o.offset = of.offset /\ WritesAt(fat', o, n, L)
  BY <1>1, WrittenFits
<1>3. PICK places : places = Places(fat', o, n)
  OBVIOUS
<1>4. Written(fat', o, n, L, places)
  BY <1>2, <1>3, WrittenAt
<1>5. /\ e.size = t.info.size /\ e.cluster0 = t.info.cluster0 /\ Writable(of, K, n, t, L)
      /\ of.offset \in Nat /\ of.info.size \in Nat /\ At(of.at).size = of.info.size
      /\ of.offset <= of.info.size
  BY DEF WriteParts
<1>6. data' = OnDisk(places)
  BY <1>1, <1>3 DEF WriteParts
<1>7. PICK u \in Nat : u = i - 1 /\ i = u + 1
  OBVIOUS
<1>8. PICK c : c = ClusterAt(fat', t.info, u)
  OBVIOUS
<1>9. PICK k : k = (u % ClusSize) + 1
  OBVIOUS
<1>10. BytesOf(e)'[i] = data'[c][k]
  <2>1. e.size \in Nat
    BY <1>5 DEF Writable, EntryRecord
  <2>2. i \in 1 .. e.size
    BY <2>1
  <2>3. BytesOf(e)'[i] = data'[ClusterAt(fat, e, i - 1)'][((i - 1) % ClusSize) + 1]
    BY <2>2 DEF BytesOf
  <2>4. ClusterAt(fat, e, u)' = c
    BY <1>5, <1>8 DEF ClusterAt
  <2> QED
    BY <1>7, <1>9, <2>3, <2>4
<1>11. ASSUME i \in of.offset + 1 .. of.offset + n
       PROVE  BytesOf(e)'[i] = <<of.at, i - 1>>
  <2>1. u \in of.offset .. of.offset + n - 1
    BY <1>5, <1>7, <1>11
  <2>2. /\ c \in Cluster /\ k \in 1 .. ClusSize
        /\ \E w \in places : w.clus = c /\ w.k = k
        /\ \A w \in places : w.clus = c /\ w.k = k => w.byte = <<of.at, u>>
    BY <1>2, <1>4, <1>8, <1>9, <2>1 DEF Written
  <2>3. data'[c][k] = <<of.at, u>>
    BY <1>6, <2>2, OnDiskIs
  <2> QED
    BY <1>7, <1>10, <2>3
<1>12. ASSUME i \notin of.offset + 1 .. of.offset + n
       PROVE  BytesOf(e)'[i] = BytesOf(At(of.at))[i]
  <2>1. u \notin of.offset .. of.offset + n - 1
    BY <1>5, <1>7, <1>12
  <2>2. u < of.info.size
    <3>1. e.size \in Nat
      BY <1>5 DEF Writable, EntryRecord
    <3>2. t.info.size = IF of.offset + n > of.info.size THEN of.offset + n ELSE of.info.size
      BY <1>5 DEF Writable
    <3> QED
      BY <1>5, <1>7, <1>12, <3>1, <3>2
  <2>3. StaysAt(of, t, u)
    BY <2>2, OldPlace
  <2>4. c = ClusterAt(fat, At(of.at), u) /\ c \in Cluster /\ k \in 1 .. ClusSize
    BY <1>8, <1>9, <2>3 DEF StaysAt, ClusterAt
  <2>5. u < ClusSize * L
    <3>1. PICK m \in Nat : m = ClusSize * L
      BY FatSizes
    <3>2. t.info.size <= m /\ t.info.size \in Nat
      BY <1>5, <3>1 DEF Writable, EntryRecord
    <3> QED
      BY <1>5, <1>7, <3>1, <3>2
  <2>6. ~ \E w \in places : w.clus = c /\ w.k = k
    BY <1>2, <1>4, <1>8, <1>9, <2>1, <2>5 DEF Written
  <2>7. data'[c][k] = data[c][k]
    BY <1>6, <2>4, <2>6, OnDiskIs
  <2>8. BytesOf(At(of.at))[i] = data[c][k]
    <3>1. PICK r : r = At(of.at)
      OBVIOUS
    <3>2. i \in 1 .. r.size
      BY <1>5, <1>7, <2>2, <3>1
    <3>3. BytesOf(r)[i] = data[ClusterAt(fat, r, i - 1)][((i - 1) % ClusSize) + 1]
      BY <3>2 DEF BytesOf
    <3> QED
      BY <1>7, <1>9, <2>4, <3>1, <3>3
  <2> QED
    BY <1>10, <2>7, <2>8
<1> QED
  BY <1>11, <1>12 DEF NewByte

LEMMA StoreWrites ==
    ASSUME HostFatInv, NEW fd \in Fd, NEW n \in Nat, f_write(fd, n),
           NEW hd, NEW K \in Nat, NEW t, NEW L \in Nat, NEW e,
           WriteDone(fd, n, hd, K, t, L, e), t.ok
    PROVE  Store!Write(fd, n)
<1>1. PICK of : WriteParts(fd, n, hd, K, t, L, e, of)
  BY WriteIs
<1>2. /\ fd \in Opened /\ of \in OpenFile /\ HeadsOK(hd) /\ Keeps(hd, of.at, e)
      /\ of.offset \in Nat /\ of.info.size \in Nat
      /\ Writable(of, K, n, t, L) /\ of = openfiles[fd]
      /\ e.kind = "file" /\ e.name \notin Special /\ readback' = <<>>
      /\ e.size = t.info.size /\ e \in EntryRecord
      /\ openfiles' = [openfiles EXCEPT ![fd].info = t.info, ![fd].offset = @ + n]
  BY <1>1 DEF WriteParts
<1>3. PICK at : at = of.at
  OBVIOUS
<1>4. Keeps(hd, at, e)
  BY <1>2, <1>3
<1>5. PICK from \in Nat : from = of.offset
  BY <1>2
<1>6. /\ Handles[fd] # None /\ Handles[fd].file = at /\ Handles[fd].offset = from
      /\ FileBytes[at] = BytesOf(At(at)) /\ At(at).size = of.info.size
  BY <1>2, <1>3, <1>5, HandleIs
<1>7. PICK old : old = BytesOf(At(at))
  OBVIOUS
<1>8. Len(old) = of.info.size
  BY <1>2, <1>6, <1>7, LengthIs
<1>9. PICK len \in Nat : len = e.size
  BY <1>2 DEF EntryRecord
<1>10. len = IF from + n > Len(old) THEN from + n ELSE Len(old)
  BY <1>2, <1>5, <1>8, <1>9 DEF Writable
<1>11. PICK s : s = BytesOf(e)'
  OBVIOUS
<1>12. s = [i \in 1 .. len |-> s[i]]
  BY <1>9, <1>11 DEF BytesOf
<1>13. ASSUME NEW i \in 1 .. len
       PROVE  s[i] = IF i \in (from + 1)..(from + n) THEN <<at, i - 1>> ELSE old[i]
  <2>1. HasByte(e, i)
    BY <1>9 DEF HasByte
  <2>3. NewByte(e, of, n, i)
    BY <1>1, <2>1, NewBytes
  <2>2. BytesOf(e)'[i] = IF i \in of.offset + 1 .. of.offset + n THEN <<of.at, i - 1>>
                         ELSE BytesOf(At(of.at))[i]
    BY <2>3 DEF NewByte
  <2> QED
    BY <1>3, <1>5, <1>7, <1>11, <2>2
<1>14. s = [i \in 1 .. len |-> IF i \in (from + 1)..(from + n) THEN <<at, i - 1>> ELSE old[i]]
  BY <1>12, <1>13
<1>15. \A bt \in Entries("file") : bt # at =>
            \A x \in CellsOf(fat, hd[bt]) : \A k \in 1 .. ClusSize : data'[x][k] = data[x][k]
  <2>1. ASSUME NEW bt \in Entries("file"), bt # of.at, NEW x \in CellsOf(fat, hd[bt]),
               NEW k \in 1 .. ClusSize
        PROVE  data'[x][k] = data[x][k]
    BY <1>1, <2>1, OthersKeep
  <2> QED
    BY <1>3, <2>1
<1>16. FileBytes' = Store!With(at, s)
  BY <1>2, <1>4, <1>11, <1>15, FilesWith
<1>17. openfiles \in [Fd -> OpenFile \cup {None}] /\ openfiles[fd] # None
  BY <1>2 DEF HostFatInv, OpenOK, Opened
<1>18. PICK o : o = [of EXCEPT !.info = t.info, !.offset = from + n]
  OBVIOUS
<1>19. o # None /\ o.at = at /\ o.offset = from + n
  <2>1. from + n \in 0 .. MaxLen
    BY <1>2, <1>5 DEF f_write
  <2>2. o \in OpenFile
    BY <1>2, <1>18, <2>1 DEF OpenFile, Writable
  <2> QED
    BY <1>2, <1>3, <1>18, <2>2, HostFatAssumption DEF OpenFile
<1>20. openfiles' = [openfiles EXCEPT ![fd] = o]
  BY <1>2, <1>5, <1>17, <1>18
<1>21. Opened' = Opened
  BY <1>17, <1>19, <1>20 DEF Opened
<1>22. \A gd \in Opened : /\ openfiles'[gd].at = openfiles[gd].at
                          /\ gd # fd => openfiles'[gd].offset = openfiles[gd].offset
  <2>1. openfiles'[fd] = o /\ \A gd \in Fd : gd # fd => openfiles'[gd] = openfiles[gd]
    BY <1>17, <1>20
  <2> QED
    BY <1>2, <1>3, <1>19, <2>1 DEF Opened
<1>23. openfiles'[fd].offset = from + n
  BY <1>17, <1>19, <1>20
<1>24. Handles' = [Handles EXCEPT ![fd].offset = from + n]
  BY <1>2, <1>21, <1>22, <1>23, HandleMoves
<1>25. Handles' = [Handles EXCEPT ![fd].offset = @ + n]
  BY <1>6, <1>24
<1>26. /\ Handles[fd].file = at /\ Handles[fd].offset = from
       /\ FileBytes[Handles[fd].file] = old
  BY <1>6, <1>7
<1>27. FileBytes' = Store!With(at, [i \in 1 .. (IF from + n > Len(old) THEN from + n ELSE Len(old)) |->
                IF i \in (from + 1)..(from + n) THEN <<at, i - 1>> ELSE old[i]])
  BY <1>10, <1>14, <1>16
<1> QED
  BY <1>2, <1>6, <1>25, <1>26, <1>27 DEF Store!Write
\* Nothing is there at first.
LEMMA StoreStart == FatInit => Store!Init
<1> SUFFICES ASSUME FatInit PROVE Store!Init
  OBVIOUS
<1>1. \A d \in DOMAIN dir : \A i \in Slots(d) : dir[d][i] = NoEntry
  <2>1. DOMAIN dir = {0} /\ dir[0] = [i \in 1..RootEntries |-> NoEntry]
    BY DEF FatInit
  <2>2. Slots(0) = 1 .. RootEntries
    BY <2>1, HostFatAssumption DEF Slots
  <2> QED
    BY <2>1, <2>2
<1>2. Entries("file") = {}
  <2> SUFFICES ASSUME NEW at \in Entries("file") PROVE FALSE
    OBVIOUS
  <2>1. PICK d \in DOMAIN dir : at \in {d} \X Slots(d)
    BY DEF Entries
  <2>2. at[1] = d /\ at[2] \in Slots(d)
    BY <2>1
  <2>3. dir[at[1]][at[2]].name = UnusedEnt
    BY <1>1, <2>2 DEF NoEntry, Entry
  <2> QED
    BY <2>3 DEF Entries
<1>3. FileBytes = [f \in {} |-> <<>>]
  BY <1>2 DEF FileBytes
<1>4. Opened = {}
  BY DEF FatInit, Opened
<1>5. Handles = [fd \in Fd |-> None]
  BY <1>4 DEF Handles
<1> QED
  BY <1>3, <1>5 DEF Store!Init, FatInit

\* The calls of the file system are those of a store of files.
LEMMA StoreStep ==
    ASSUME ~ CopiesOver, HostFatInv, [FatNext]_fatvars
    PROVE  [UNCHANGED fatvars \/ Store!Next]_<<FileBytes, Handles, readback>>
<1> SUFFICES UNCHANGED fatvars \/ Store!Next
  OBVIOUS
<1>1. ASSUME NEW fd \in Fd, NEW path \in Path, NEW creat \in BOOLEAN, NEW trunc \in BOOLEAN,
             f_open(fd, path, creat, trunc)
      PROVE  Store!Next
  <2>1. PICK hd, at, e, t, fresh : OpenDone(fd, hd, at, e, t, trunc, fresh)
    BY <1>1, OpenFileStep
  <2>2. at \in Ats /\ Store!Open(fd, at)
    BY <2>1, StoreOpens
  <2> QED
    BY <2>2 DEF Store!Next, Ats
<1>2. ASSUME NEW fd \in Fd, NEW n \in 1..MaxWrite, f_write(fd, n)
      PROVE  Store!Next
  <2>1. n \in Nat
    OBVIOUS
  <2>2. PICK hd : \E K \in Nat : \E t : \E L \in Nat : \E e : WriteDone(fd, n, hd, K, t, L, e)
    BY <1>2, <2>1, WriteFileStep
  <2>3. PICK K \in Nat : \E t : \E L \in Nat : \E e : WriteDone(fd, n, hd, K, t, L, e)
    BY <2>2
  <2>4. PICK t : \E L \in Nat : \E e : WriteDone(fd, n, hd, K, t, L, e)
    BY <2>3
  <2>5. PICK L \in Nat : \E e : WriteDone(fd, n, hd, K, t, L, e)
    BY <2>4
  <2>6. PICK e : WriteDone(fd, n, hd, K, t, L, e)
    BY <2>5
  <2>7. CASE t.ok
    <3>1. Store!Write(fd, n)
      BY <1>2, <2>1, <2>6, <2>7, StoreWrites
    <3> QED
      BY <3>1 DEF Store!Next
  <2>8. CASE ~ t.ok
    <3>1. Store!Fail
      BY <1>2, <2>1, <2>6, <2>8, StoreFails
    <3> QED
      BY <3>1 DEF Store!Next
  <2> QED
    BY <2>7, <2>8
<1>3. ASSUME NEW fd \in Fd, NEW n \in 1..MaxWrite, f_read(fd, n)
      PROVE  Store!Next
  <2>1. n \in Nat
    OBVIOUS
  <2>2. Store!Read(fd)
    BY <1>3, <2>1, StoreReads
  <2> QED
    BY <2>2 DEF Store!Next
<1>4. ASSUME NEW d \in DirName, f_mkdir(<<d>>) PROVE Store!Next
  <2>1. \E hd, at, e : MakeDone(hd, at, e)
    BY <1>4, MkdirStep
  <2>2. Store!Fail
    BY <2>1, StoreMakes
  <2> QED
    BY <2>2 DEF Store!Next
<1>5. ASSUME NEW path \in Path, f_mknod(path) PROVE Store!Next
  <2>1. \E hd, at, e : MakeDone(hd, at, e)
    BY <1>5, MknodStep
  <2>2. Store!Fail
    BY <2>1, StoreMakes
  <2> QED
    BY <2>2 DEF Store!Next
<1>6. ASSUME NEW fd \in Fd, f_close(fd) PROVE Store!Next
  BY <1>6, StoreCloses DEF Store!Next
<1>7. ASSUME NEW fd \in Fd, f_lseek(fd) PROVE Store!Next
  BY <1>7, StoreSeeks DEF Store!Next
<1> QED
  BY <1>1, <1>2, <1>3, <1>4, <1>5, <1>6, <1>7 DEF FatNext

\* What f_open, f_write, f_read, f_lseek and f_close of hosted/fat do to the
\* files, seen through their entries, and to the descriptors, and what f_read
\* delivers, is what a store does in which each file is a sequence of bytes of
\* its own; f_mkdir, f_mknod and a write without the clusters change no file.
\* This for any number of clusters, files and descriptors, as long as no file
\* grows within its last cluster.
THEOREM HostFatImplementsStore ==
    ASSUME ~ CopiesOver
    PROVE  FatSpec => ImplementsStore
<1>1. HostFatInv /\ [FatNext]_fatvars => HostFatInv'
  BY HostFatStep
<1>2. HostFatInv /\ [FatNext]_fatvars
        => [UNCHANGED fatvars \/ Store!Next]_<<FileBytes, Handles, readback>>
  BY StoreStep
<1> QED
  BY <1>1, <1>2, HostFatStart, StoreStart, PTL DEF FatSpec, ImplementsStore
=============================================================================
