-------------------------------- MODULE KFat --------------------------------
(***************************************************************************)
(* The FAT file system of the kernel, kernel/fat: names are looked up and  *)
(* created, files are read.  The kernel never changes the FAT or a file.   *)
(* Init draws the chain of a file; where its bytes are is then a matter of *)
(* the walks in fat_read, against the definition of the format.            *)
(*                                                                         *)
(* A look-up and a read see nothing that others change, and are one step   *)
(* each.  fobj_create looks for a blank entry, gives the sector back and   *)
(* gets it again to write: two steps, and other tasks come between.        *)
(*                                                                         *)
(* Two habits of the calls decide what they return, and are kept track of. *)
(* A look-up that stops at an end mark, and fat_stat, never give their     *)
(* sector back: it is pinned.  bc_put writes a changed sector that nobody  *)
(* holds, and then returns the 512 of the device, with the buffer still    *)
(* marked as changed: every caller takes that for an error, or an inode.   *)
(***************************************************************************)
EXTENDS Integers, Sequences, FiniteSets

CONSTANTS Caller,
          Creators,     \* bound: how many tasks create a file at once
          SecSize,      \* bytes_per_sector
          SecPerClus,   \* sector_per_cluster
          EntPerSec,    \* entries in a sector
          RootSecs,     \* sectors of the root directory
          FileClus,     \* clusters for the file that Init makes
          DirClus,      \* clusters for the directory "d"
          RootLists,    \* the names that Init may put into the root directory
          DirLists,     \* ... and into "d"
          OldName,      \* names in these lists
          NewName,      \* names that are created
          MaxSize,      \* bound: bytes of one read
          MaxPinned,    \* bound: sectors that are not given back; with all
                        \* buffers taken, bc_get panics
          NoEnt,
          Ino512        \* 512 as an inode: some place on the disk

EOF == 0            \* a next cluster from 0xff0
Root == 0
ClusBytes == SecSize * SecPerClus

\* a sector is [of, n]: the n-th of the root directory or of a cluster
Sec(of, n) == [of |-> of, n |-> n]

Ent(name, isdir, cluster0, size) ==
    [name |-> name, isdir |-> isdir, cluster0 |-> cluster0, size |-> size]
EndMark == "end"    \* a name that starts with a 0
Deleted == "deleted"  \* ... with DELETE_FLAG
BlankNames == {EndMark, Deleted}
NoName == Ent(EndMark, FALSE, EOF, 0)

VARIABLES next,     \* the FAT
          ent,      \* the entries of each directory, in the order of a search
          creating, \* what fobj_create is about to write: [at, name], or NoEnt
          found,    \* the entry that fat_ino_get has found last
          was,      \* the last read: [at, off, size, rc, bytes]
          pinned,   \* sectors that are never given back
          stained,  \* whether a buffer is marked as changed for good
          raced     \* whether an entry was written that was blank no more

kfatvars == <<next, ent, creating, found, was, pinned, stained, raced>>

\* entries there is room for in directory d
Room(d) == (IF d = Root THEN RootSecs ELSE Cardinality(DirClus) * SecPerClus) * EntPerSec
EntOf(d, k) == [dir |-> d, k |-> k]

\* a directory as it may be found on a disk
Listing(l, room) ==
    /\ l \in Seq(OldName \cup {Deleted}) /\ Len(l) <= room
    /\ \A i, j \in DOMAIN l : l[i] = l[j] /\ i # j => l[i] = Deleted

ASSUME KFatAssumption ==
    /\ {SecSize, SecPerClus, EntPerSec, RootSecs} \subseteq Nat \ {0}
    /\ {MaxSize, MaxPinned, Creators} \subseteq Nat
    /\ IsFiniteSet(Caller) /\ IsFiniteSet(FileClus) /\ IsFiniteSet(DirClus)
    /\ FileClus \cup DirClus \subseteq Nat \ {EOF} /\ DirClus \cap FileClus = {}
    /\ {"d", "f"} \subseteq OldName /\ BlankNames \cap (OldName \cup NewName) = {}
    /\ \A l \in RootLists : /\ Listing(l, Room(Root))
                             /\ \E i, j \in DOMAIN l : l[i] = "d" /\ l[j] = "f"
    /\ \A l \in DirLists : Listing(l, SecPerClus * EntPerSec)
    /\ NoEnt # Ino512
    /\ \A d \in {Root} \cup DirClus : \A k \in 0..(Room(d) - 1) :
            EntOf(d, k) \notin {NoEnt, Ino512}

NoRead == [at |-> NoEnt, off |-> 0, size |-> 0, rc |-> "none", bytes |-> <<>>]
-----------------------------------------------------------------------------
\* clus_get_next k times, from c
Walk(c, k) ==
    LET Step(x) == IF x = EOF THEN EOF ELSE next[x]
        W[i \in 0..k] == IF i = 0 THEN c ELSE Step(W[i-1])
    IN  W[k]

\* dir_find_ent visits the entries of directory d in this order: those of
\* the root directory, or cluster after cluster to the end of the chain
Visits(d) ==
    {k \in 0..(Room(d) - 1) :
        d # Root => Walk(d, k \div (SecPerClus * EntPerSec)) # EOF}

\* the sector of an entry
SecOf(p) ==
    LET n == p.k \div EntPerSec IN
    IF p.dir = Root THEN Sec(Root, n)
    ELSE Sec(Walk(p.dir, n \div SecPerClus), n % SecPerClus)

\* the chains there are through some clusters
Distinct(c) == \A i, j \in DOMAIN c : i # j => c[i] # c[j]
Chains(C) == {c \in UNION {[1..n -> C] : n \in 1..Cardinality(C)} : Distinct(c)}
NextIn(c, x) == c[1 + CHOOSE i \in 1..(Len(c) - 1) : c[i] = x]
Inner(c) == {c[i] : i \in 1..(Len(c) - 1)}

\* the file "f" has the chain c, and fills its last cluster or does not; the
\* directory "d" has the chain dc; root and sub are the names in them.  Other
\* files are empty, and an erased entry still says what the file was.
Starts(c, dc, last, root, sub) ==
    LET Old(n) == CASE n = "d"    -> Ent(n, TRUE, dc[1], 0)
                    [] n = "f"    -> Ent(n, FALSE, c[1], (Len(c) - 1) * ClusBytes + last)
                    [] n = Deleted -> Ent(n, FALSE, c[1], ClusBytes + 1)
                    [] OTHER      -> Ent(n, FALSE, EOF, 0)
        List(d) == IF d = Root THEN root ELSE sub
    IN
    /\ next = [x \in FileClus \cup DirClus |->
                IF x \in Inner(c) THEN NextIn(c, x)
                ELSE IF x \in Inner(dc) THEN NextIn(dc, x) ELSE EOF]
    /\ ent = [d \in {Root, dc[1]} |-> [k \in Visits(d) |->
                IF k < Len(List(d)) THEN Old(List(d)[k + 1]) ELSE NoName]]
    /\ creating = [t \in Caller |-> NoEnt]
    /\ found = NoEnt /\ was = NoRead
    /\ pinned = {} /\ stained = FALSE /\ raced = FALSE

KFatInit ==
    \E c \in Chains(FileClus), dc \in Chains(DirClus), last \in 1..ClusBytes,
       root \in RootLists, sub \in DirLists : Starts(c, dc, last, root, sub)
-----------------------------------------------------------------------------
EntAt(p) == ent[p.dir][p.k]
Earliest(K) == CHOOSE k \in K : \A j \in K : k <= j

\* where a search for a name stops
Stops(d, name) == {k \in Visits(d) : ent[d][k].name \in {name, EndMark}}

\* the entry with a name, or NoEnt
dir_find_ent(d, name) ==
    LET K == Stops(d, name) IN
    IF K = {} \/ ent[d][Earliest(K)].name = EndMark THEN NoEnt
    ELSE EntOf(d, Earliest(K))

\* a search that stops at an end mark does not give its sector back
Leaks(d, name) ==
    LET K == Stops(d, name) IN
    IF K = {} \/ ent[d][Earliest(K)].name # EndMark THEN {}
    ELSE {SecOf(EntOf(d, Earliest(K)))}

\* sectors are not given back
Pins(S) == pinned' = pinned \cup S /\ Cardinality(pinned') <= MaxPinned

\* fault: the last blank entry
BlankEnt_last(d) ==
    LET B == {k \in Visits(d) : ent[d][k].name \in BlankNames} IN
    IF B = {} THEN NoEnt
    ELSE EntOf(d, CHOOSE k \in B : \A j \in B : j <= k)

\* ... and with no name, a blank one
BlankEnt(d) ==
    LET B == {k \in Visits(d) : ent[d][k].name \in BlankNames} IN
    IF B = {} THEN NoEnt ELSE EntOf(d, Earliest(B))

\* the directory that holds the last element of a path; -1 if there is none
Parent(path) ==
    LET p == dir_find_ent(Root, path[1]) IN
    IF Len(path) = 1 THEN Root
    ELSE IF p # NoEnt /\ EntAt(p).isdir THEN EntAt(p).cluster0 ELSE -1
Name(path) == path[Len(path)]
dir_find_path(path) ==
    IF Parent(path) = -1 THEN NoEnt ELSE dir_find_ent(Parent(path), Name(path))
PathLeaks(path) ==
    IF Parent(path) = -1 THEN Leaks(Root, path[1]) ELSE Leaks(Parent(path), Name(path))

\* fat_ino_get of a name; a directory is opened to be read only
fat_ino_get(path, writes) ==
    LET p == dir_find_path(path) IN
    /\ found' = IF p # NoEnt /\ EntAt(p).isdir /\ writes THEN NoEnt ELSE p
    /\ Pins(PathLeaks(path))
    /\ was' = NoRead /\ UNCHANGED <<next, ent, creating, stained, raced>>

\* ... in which a bc_put comes to a buffer marked as changed: its 512 ends
\* the look-up, or the one of fobj_create behind it
Stumbles(path) ==
    /\ stained /\ found' = Ino512
    /\ \E S \in {{}, PathLeaks(path)} : Pins(S)
    /\ was' = NoRead /\ UNCHANGED <<next, ent, creating, stained, raced>>

\* ... with O_CREAT, and fobj_create up to the blank entry it has found
fobj_create(t, path) ==
    /\ creating[t] = NoEnt /\ dir_find_path(path) = NoEnt /\ Parent(path) # -1
    /\ Cardinality({u \in Caller : creating[u] # NoEnt}) < Creators
    /\ BlankEnt(Parent(path)) # NoEnt
    /\ creating' = [creating EXCEPT ![t] =
                        [at |-> BlankEnt(Parent(path)), name |-> Name(path)]]
    /\ Pins(PathLeaks(path))
    /\ was' = NoRead /\ UNCHANGED <<next, ent, found, stained, raced>>

\* ... and the write; cluster0 and size stay what they were.  The inode is
\* the entry's only if somebody holds its sector still.
fobj_create_write(t) ==
    /\ creating[t] # NoEnt
    /\ LET p == creating[t].at
           held == SecOf(p) \in pinned
       IN
       /\ raced' = (raced \/ EntAt(p).name \notin BlankNames)
       /\ ent' = [ent EXCEPT ![p.dir][p.k].name = creating[t].name,
                             ![p.dir][p.k].isdir = FALSE]
       /\ stained' = (stained \/ ~ held)
       /\ found' = IF held THEN p ELSE Ino512
    /\ creating' = [creating EXCEPT ![t] = NoEnt]
    /\ was' = NoRead /\ UNCHANGED <<next, pinned>>

\* fat_stat keeps the sector of the entry
fat_stat ==
    /\ found \notin {NoEnt, Ino512}
    /\ Pins({SecOf(found)})
    /\ was' = NoRead /\ UNCHANGED <<next, ent, creating, found, stained, raced>>
-----------------------------------------------------------------------------
Lower(a, b) == IF a < b THEN a ELSE b

\* fault: the first cluster counts its sectors from its start
SecLeft_whole(sec) == SecPerClus

\* sectors of the cluster from sec on
SecLeft(sec) == SecPerClus - sec

\* one turn of the loop of fat_read: a sector, and the place of the next
Turn(r) ==
    IF r.size = 0 THEN r ELSE
    LET offs == r.off % SecSize
        len  == Lower(SecSize - offs, r.size)
        last == r.secleft = 1
        ci   == IF last THEN (IF r.ci = EOF THEN EOF ELSE next[r.ci]) ELSE r.ci
    IN  [ci |-> ci, n |-> IF last THEN 0 ELSE r.n + 1,
         secleft |-> IF last THEN SecPerClus ELSE r.secleft - 1,
         off |-> r.off + len, size |-> r.size - len,
         bytes |-> r.bytes \o [k \in 1..len |-> [sec |-> Sec(r.ci, r.n),
                                                k |-> offs + k - 1]]]

\* what fat_read of a file returns; "beyond" is what the device says of a
\* sector behind the end of the chain
Read(e, off, asked) ==
    LET size == IF off + asked > e.size THEN e.size - off ELSE asked
        clcnt == off \div ClusBytes
        rest == off - clcnt * ClusBytes
        n    == rest \div SecSize
        R[i \in 0..MaxSize] ==
            IF i = 0 THEN [ci |-> Walk(e.cluster0, clcnt), n |-> n,
                           secleft |-> SecLeft(n), off |-> rest,
                           size |-> size, bytes |-> <<>>]
            ELSE Turn(R[i-1])
    IN
    IF clcnt > 0 /\ Walk(e.cluster0, clcnt) = EOF THEN [rc |-> "EIO", bytes |-> <<>>]
    ELSE LET b == R[MaxSize].bytes IN
         [rc |-> IF \E j \in DOMAIN b : b[j].sec.of = EOF THEN "beyond" ELSE "ok",
          bytes |-> b]

\* fat_read.  Behind the end of the file the size that is left wraps: what is
\* read then is not followed, and what an inode or a bc_put of 512 leads to
\* is not either.
fat_read(off, asked) ==
    /\ found # NoEnt
    /\ was' = IF found = Ino512 \/ stained \/ off > EntAt(found).size THEN NoRead
              ELSE LET r == Read(EntAt(found), off, asked) IN
                   [at |-> found, off |-> off, size |-> asked,
                    rc |-> r.rc, bytes |-> r.bytes]
    /\ UNCHANGED <<next, ent, creating, found, pinned, stained, raced>>

Paths == {<<n>> : n \in {"d", "f"} \cup NewName}
         \cup {<<m, n>> : m \in {"d", "f"}, n \in NewName}

KFatNext ==
    \/ \E path \in Paths, writes \in BOOLEAN : fat_ino_get(path, writes)
    \/ \E path \in Paths : Stumbles(path)
    \/ \E t \in Caller, n \in NewName :
            fobj_create(t, <<n>>) \/ fobj_create(t, <<"d", n>>)
    \/ \E t \in Caller : fobj_create_write(t)
    \/ fat_stat
    \/ \E off \in 0..(Cardinality(FileClus) * ClusBytes + 1), size \in 1..MaxSize :
            fat_read(off, size)

KFatSpec == KFatInit /\ [][KFatNext]_kfatvars
-----------------------------------------------------------------------------
\* the o-th byte of a file is byte o mod SecSize of its sector, in the
\* cluster that its chain has at o div ClusBytes
ByteAt(e, o) ==
    [sec |-> Sec(Walk(e.cluster0, o \div ClusBytes),
                 (o % ClusBytes) \div SecSize),
     k |-> o % SecSize]

\* the chain of a file has a cluster for its last byte
Whole(e) == e.size > 0 => Walk(e.cluster0, (e.size - 1) \div ClusBytes) # EOF

\* A read of a file (fat_read) delivers its bytes from the offset on, up to
\* its end, wherever the offset is in its chain; only at the end of a file
\* that fills its last cluster does it fail.
ReadsRight ==
    was.at # NoEnt =>
        LET e == EntAt(was.at) IN
        /\ Whole(e) =>
                \/ was.rc = "ok"
                \/ was.rc = "EIO" /\ was.off = e.size /\ was.off % ClusBytes = 0
        /\ was.rc = "ok" =>
                was.bytes = [i \in 1..Lower(was.size, e.size - was.off) |->
                                ByteAt(e, was.off + i - 1)]

\* Whatever tasks create at once (fobj_create): no entry comes behind an end
\* mark, where no search gets; the files that were there are still found;
\* and no name is twice in a directory, until one task has written over what
\* another has created.
Packed(d) ==
    \A j, k \in Visits(d) :
        j < k /\ ent[d][j].name = EndMark => ent[d][k].name = EndMark
Unique(d) ==
    \A j, k \in Visits(d) :
        j # k /\ ent[d][j].name = ent[d][k].name => ent[d][j].name \in BlankNames
DirectoriesSound ==
    /\ \A d \in DOMAIN ent : Packed(d) /\ (raced \/ Unique(d))
    /\ \A n \in {"d", "f"} : dir_find_ent(Root, n) # NoEnt
=============================================================================
