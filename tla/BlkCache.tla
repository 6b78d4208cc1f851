------------------------------ MODULE BlkCache ------------------------------
(***************************************************************************)
(* The block cache of kernel/blkcache.c, between the FAT file system and   *)
(* the floppy driver.  bc_get and bc_put hold block_cs from end to end,    *)
(* the device transfer included, so each is one step; between them the     *)
(* clients hold references, and change what they refer to.                 *)
(*                                                                         *)
(* What a block holds is written [of, ver]: the block it was read from and *)
(* how often that was changed.  bc_read has no caller (it calls itself on  *)
(* what it does not find) and is left out.                                 *)
(***************************************************************************)
EXTENDS Naturals, Integers, FiniteSets

CONSTANTS NBuf,         \* MAX_BLOCK
          Block,        \* the blocks of the device
          NoBlock,      \* the tag of a buffer after bc_init: device -1
          Client,       \* the tasks that use the cache, one block each
          MayFail,      \* the transfers that may fail: "read", "write"
          MaxVer        \* bound: a block is changed this often

ASSUME CacheAssumption ==
    /\ NBuf \in Nat \ {0} /\ NoBlock \notin Block /\ MaxVer \in Nat
    /\ MayFail \subseteq {"read", "write"}

Buffer == 1..NBuf
BLKSIZE == 512

VARIABLES
    buf,        \* the ring of buffers: [blkno, inuse, dirty, data]
    blocklist,  \* where a search of the ring starts
    disk,       \* what the device holds
    held,       \* the buffer a client has a reference to, 0 if none
    ver,        \* how often a block was changed
    bc_panic

cachevars == <<buf, blocklist, disk, held, ver, bc_panic>>

CacheInit ==
    /\ buf = [i \in Buffer |-> [blkno |-> NoBlock, inuse |-> 0,
                                dirty |-> FALSE,
                                data |-> [of |-> NoBlock, ver |-> 0]]]
    /\ blocklist = 1
    /\ disk = [b \in Block |-> [of |-> b, ver |-> 0]]
    /\ held = [c \in Client |-> 0]
    /\ ver = [b \in Block |-> 0]
    /\ bc_panic = ""

After(i) == (i % NBuf) + 1

\* the first buffer of S from blocklist on
FirstFrom(S) == CHOOSE i \in S : \A j \in S :
                (i - blocklist) % NBuf <= (j - blocklist) % NBuf

Cached(b) == {i \in Buffer : buf[i].blkno = b}

\* fault: only the first reference is counted
Referenced_once(n) == 1

\* what bc_get may use for another block
Unreferenced == {i \in Buffer : buf[i].inuse = 0}
Referenced(n) == n + 1

\* bc_get of a block that is there
bc_get_hit(c, b) ==
    /\ bc_panic = "" /\ held[c] = 0 /\ Cached(b) # {}
    /\ LET i == FirstFrom(Cached(b)) IN
       /\ buf' = [buf EXCEPT ![i].inuse = Referenced(@)]
       /\ held' = [held EXCEPT ![c] = i]
    /\ UNCHANGED <<blocklist, disk, ver, bc_panic>>

\* bc_get of a block that has to be read.  The buffer gets its tag before
\* the device is asked, and keeps it if the device fails.
bc_get_miss(c, b, fails) ==
    /\ bc_panic = "" /\ held[c] = 0 /\ Cached(b) = {} /\ Unreferenced # {}
    /\ LET i == FirstFrom(Unreferenced) IN
       /\ IF fails
          THEN /\ buf' = [buf EXCEPT ![i].blkno = b]
               /\ UNCHANGED held
          ELSE /\ buf' = [buf EXCEPT ![i].blkno = b, ![i].data = disk[b],
                                     ![i].inuse = Referenced(@)]
               /\ held' = [held EXCEPT ![c] = i]
       /\ blocklist' = After(i)
    /\ UNCHANGED <<disk, ver, bc_panic>>

bc_get_panics(c, b) ==
    /\ bc_panic = "" /\ held[c] = 0 /\ Cached(b) = {} /\ Unreferenced = {}
    /\ bc_panic' = "bc_get: all blocks are in use!"
    /\ UNCHANGED <<buf, blocklist, disk, held, ver>>

\* the file system changes a block that it holds, and marks it
Change(c) ==
    LET i == held[c]
        b == buf[i].blkno
    IN
    /\ bc_panic = "" /\ i # 0 /\ ver[b] < MaxVer
    /\ ver' = [ver EXCEPT ![b] = @ + 1]
    /\ buf' = [buf EXCEPT ![i].data.ver = ver[b] + 1, ![i].dirty = TRUE]
    /\ UNCHANGED <<blocklist, disk, held, bc_panic>>

\* fault: the block is written although someone else still changes it, and
\* not when the last reference goes
WritesBack_first(n, dirty) == n > 0 /\ dirty

\* the last reference to a changed block is gone
WritesBack(n, dirty) == n = 0 /\ dirty

\* bc_put.  The device returns the number of bytes it has written, which
\* bc_put takes for an error: dirty is not cleared.
bc_put(c, fails) ==
    LET i  == held[c]
        n  == buf[i].inuse - 1
        wb == WritesBack(n, buf[i].dirty)
        rc == IF ~ wb THEN 0 ELSE IF fails THEN -1 ELSE BLKSIZE
    IN
    /\ bc_panic = "" /\ i # 0 /\ (fails => wb)
    /\ buf' = [buf EXCEPT ![i].inuse = n,
                          ![i].dirty = IF wb /\ rc = 0 THEN FALSE ELSE @]
    /\ disk' = IF wb /\ ~ fails
               THEN [disk EXCEPT ![buf[i].blkno] = buf[i].data] ELSE disk
    /\ held' = [held EXCEPT ![c] = 0]
    /\ UNCHANGED <<blocklist, ver, bc_panic>>

Panicked == bc_panic # "" /\ UNCHANGED cachevars

CacheNext ==
    \/ \E c \in Client, b \in Block :
          \/ bc_get_hit(c, b) \/ bc_get_panics(c, b)
          \/ \E fails \in {FALSE} \cup {"read" \in MayFail} :
                bc_get_miss(c, b, fails)
    \/ \E c \in Client :
          \/ Change(c)
          \/ \E fails \in {FALSE} \cup {"write" \in MayFail} : bc_put(c, fails)
    \/ Panicked

CacheSpec == CacheInit /\ [][CacheNext]_cachevars
-----------------------------------------------------------------------------
\* A block is in one buffer at most ("duplicate blocks in cache"), and a
\* buffer's count is the number of clients that hold it: two clients that
\* change a block change the same copy, no buffer is given away under a
\* client, and none stays pinned.
ReferencesCounted ==
    /\ \A b \in Block : Cardinality(Cached(b)) <= 1
    /\ \A i \in Buffer :
            buf[i].inuse = Cardinality({c \in Client : held[c] = i})

\* A change is on the device, or in a buffer that is still held and marked:
\* whatever the order in which clients share, change and put a block.  True
\* as long as the device does not fail.
NoChangeLost ==
    \A b \in Block :
        \/ disk[b].ver = ver[b]
        \/ \E i \in Cached(b) : /\ buf[i].inuse > 0 /\ buf[i].dirty
                                /\ buf[i].data.ver = ver[b]
=============================================================================
