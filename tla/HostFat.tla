------------------------------ MODULE HostFat -------------------------------
(***************************************************************************)
(* The FAT file system of the host tools, hosted/fat, as fscopy and mkfs   *)
(* use it: files are created, written, read and truncated, directories and *)
(* device nodes are made.  A tool runs alone, so that a call is one step;  *)
(* the disk is what the tool's own calls see, through its block cache.     *)
(*                                                                         *)
(* A cluster is one sector, as on the floppies that mkfs formats, and the  *)
(* FAT is one sector: clus_set_next writes the entries of every sector of  *)
(* the FAT but the first to the wrong place.  The model has no failure of  *)
(* the device: what fails is a search or an allocation.                    *)
(*                                                                         *)
(* The byte that is written at an offset of a file is the pair of the two. *)
(***************************************************************************)
EXTENDS Integers, Sequences, FiniteSets

CONSTANTS NClus,        \* n_clus: the clusters are 2 .. NClus - 1
          ClusSize,     \* bytes in a cluster
          RootEntries,  \* entries of the root directory
          DirEntries,   \* entries of a cluster of another directory
          Path,         \* of files and devices: <<name>>, <<directory, name>>
          DirName,      \* names of directories
          Fd,           \* descriptors
          MaxWrite,     \* bound: bytes of one write
          MaxLen,       \* bound: length of a file
          CopiesOver,   \* may a file grow within its last cluster?
          None

Cluster == 2 .. NClus - 1
EOC     == NClus        \* any value from 0xff0: the end of a chain
Free    == 0

Dot    == "."
DotDot == ".."
UnusedEnt == "unused"      \* a name that starts with a 0
Erased == "erased"      \* ... or with DELETE_FLAG

VARIABLES fat,          \* the next cluster of each cluster
          dir,          \* the entries of the root directory, 0, and of the
                        \* directories in clusters
          data,         \* the bytes of the clusters
          openfiles,    \* [at, info, offset]: info is a copy of the entry
          readback      \* what the last f_read has delivered

fatvars == <<fat, dir, data, openfiles, readback>>

Entry(name, kind, cluster0, size) ==
    [name |-> name, kind |-> kind, cluster0 |-> cluster0, size |-> size]
NoEntry == Entry(UnusedEnt, "file", 0, 0)

\* what the fields of an entry and of an open file are taken from
Special == {UnusedEnt, Erased, Dot, DotDot}
EntryRecord == [name : Special \cup DirName \cup {p[Len(p)] : p \in Path},
                kind : {"file", "dir", "dev"}, cluster0 : 0 .. NClus, size : 0 .. MaxLen]
OpenFile == [at : (0 .. NClus - 1) \X (1 .. RootEntries + DirEntries),
             info : EntryRecord, offset : 0 .. MaxLen]
OpenHandle == [file : (0 .. NClus - 1) \X (1 .. RootEntries + DirEntries),
               offset : 0 .. MaxLen]

ASSUME HostFatAssumption ==
    /\ NClus \in Nat \ {0, 1} /\ ClusSize \in Nat \ {0}
    /\ {RootEntries, DirEntries, MaxWrite, MaxLen} \subseteq Nat
    /\ \A p \in Path : Len(p) \in {1, 2} /\ p[Len(p)] \notin Special
    /\ DirName \cap Special = {}
    /\ None \notin OpenFile \cup OpenHandle

\* mkfs: write_fat, write_rootdir; entries 0 and 1 hold the media descriptor
FatInit ==
    /\ fat = [c \in 0 .. NClus - 1 |-> IF c < 2 THEN EOC ELSE Free]
    /\ dir = [d \in {0} |-> [i \in 1..RootEntries |-> NoEntry]]
    /\ data = [c \in Cluster |-> [i \in 1..ClusSize |-> None]]
    /\ openfiles = [fd \in Fd |-> None]
    /\ readback = <<>>

\* clus_get_next along a chain from c, i times; cluster 0 leads to the end
Steps == 0 .. NClus
Along(F, c) ==
    LET Step(x) == IF x = EOC THEN EOC ELSE F[x]
        A[i \in Steps] == IF i = 0 THEN c ELSE Step(A[i-1])
    IN  A

\* clus_alloc takes the lowest free cluster
FreeClusters(F) == {c \in Cluster : F[c] = Free}
Lowest(S) == CHOOSE c \in S : \A d \in S : c <= d

\* clus_alloc and clus_set_next: chain of info, whose last cluster is p or
\* which has none, grows by one cluster.  Fault: the new one is not marked.
Grow_unmarked(F, p, c) == IF p = 0 THEN F ELSE [F EXCEPT ![p] = c]
Grow(F, p, c) == IF p = 0 THEN [F EXCEPT ![c] = EOC]
                 ELSE [F EXCEPT ![c] = EOC, ![p] = c]

\* ... by k clusters, or by as many as there are
Extended(F0, info, p0, k) ==
    LET E[i \in 0..k] ==
            IF i = 0 THEN [fat |-> F0, info |-> info, p |-> p0, ok |-> TRUE]
            ELSE LET e == E[i-1]
                     c == Lowest(FreeClusters(e.fat))
                 IN  IF ~ e.ok \/ FreeClusters(e.fat) = {}
                     THEN [e EXCEPT !.ok = FALSE]
                     ELSE [fat |-> Grow(e.fat, e.p, c), p |-> c, ok |-> TRUE,
                           info |-> IF e.p # 0 THEN e.info
                                    ELSE [e.info EXCEPT !.cluster0 = c]]
    IN  E[k]

\* clusters that hold length bytes
Clusters(length) == ((length + ClusSize) - 1) \div ClusSize

\* fobj_trunc walks to the target, or to the end of the chain if that comes
\* first: so many steps
Walked(F, info, target) ==
    IF info.cluster0 = 0 THEN 0
    ELSE CHOOSE n \in 0..target :
            /\ n = target \/ Along(F, info.cluster0)[n] = EOC
            /\ \A m \in 0..(n-1) : Along(F, info.cluster0)[m] # EOC

\* The cluster before step n.  "Shrink" frees it with all that follow: with
\* target 0 these are all there are, otherwise the last one to keep is lost.
Previous(F, info, n) == IF n = 0 THEN 0 ELSE Along(F, info.cluster0)[n-1]
Freed(F, info, n) ==
    {Along(F, info.cluster0)[m] : m \in (IF n = 0 THEN 0 ELSE n-1) .. NClus}
        \cap Cluster

Trunc(F, info, length) ==
    LET target == Clusters(length)
        n == Walked(F, info, target)
        e == Extended(F, info, Previous(F, info, n), target - n)
    IN  IF n < target
        THEN IF e.ok THEN [e EXCEPT !.info.size = length] ELSE e
        ELSE [fat |-> IF info.cluster0 = 0 THEN F
                      ELSE [c \in DOMAIN F |-> IF c \in Freed(F, info, n)
                                               THEN Free ELSE F[c]],
              info |-> [info EXCEPT !.size = length,
                                    !.cluster0 = IF n = 0 THEN 0 ELSE @],
              p |-> 0, ok |-> TRUE]

\* a file grows to a length that its chain has the clusters for already
GrowsInPlace(info, length) ==
    LET target == Clusters(length) IN
    target > 0 /\ Walked(fat, info, target) = target
-----------------------------------------------------------------------------
\* dir_find_ent: the entries of directory d, in order, and the first with a
\* name, up to the first that is unused
Slots(d) == 1 .. Len(dir[d])
Finds(d, i, name) ==
    /\ dir[d][i].name = name
    /\ \A j \in 1..(i-1) : dir[d][j].name \notin {name, UnusedEnt}
Has(d, name) == \E i \in Slots(d) : Finds(d, i, name)
EntrySlot(d, name) == CHOOSE i \in Slots(d) : Finds(d, i, name)

\* ... or the first that is free
Blank(d, i) == dir[d][i].name \in {UnusedEnt, Erased}
FirstBlank(d, i) ==
    i \in Slots(d) /\ Blank(d, i) /\ \A j \in 1..(i-1) : ~ Blank(d, j)

\* dir_find_path: the directory of a path of one or two elements; -1 if there
\* is none
NoDir == -1
DirOf(path) ==
    IF Len(path) = 1 THEN 0
    ELSE IF Has(0, path[1]) /\ dir[0][EntrySlot(0, path[1])].kind = "dir"
         THEN dir[0][EntrySlot(0, path[1])].cluster0 ELSE NoDir
Last(path) == path[Len(path)]
Exists(path) == DirOf(path) # NoDir /\ Has(DirOf(path), Last(path))

\* fobj_create: the entry keeps what a cluster0 and a size were there
Creates(path, d, i) ==
    /\ d = DirOf(path) /\ d # NoDir /\ ~ Has(d, Last(path)) /\ FirstBlank(d, i)
Named(d, i, path, kind) == [dir[d][i] EXCEPT !.name = Last(path), !.kind = kind]

unused_fd(fd) ==
    openfiles[fd] = None /\ \A e \in Fd : e < fd => openfiles[e] # None

\* The tools have a file open once, and open no directory and no device.
Opened == {fd \in Fd : openfiles[fd] # None}
Apart(at) == \A fd \in Opened : openfiles[fd].at # at

\* f_open with O_CREAT and without, with O_TRUNC and without
f_open(fd, path, creat, trunc) ==
    \E d \in DOMAIN dir, i \in 1..RootEntries + DirEntries :
        /\ unused_fd(fd) /\ d = DirOf(path) /\ i \in Slots(d) /\ Apart(<<d, i>>)
        /\ IF Exists(path)
           THEN i = EntrySlot(d, Last(path)) /\ dir[d][i].kind = "file"
           ELSE creat /\ FirstBlank(d, i)
        /\ LET e == IF Exists(path) THEN dir[d][i]
                    ELSE Named(d, i, path, "file")
               t == IF trunc THEN Trunc(fat, e, 0)
                    ELSE [fat |-> fat, info |-> e]
           IN
           /\ fat' = t.fat
           /\ dir' = [dir EXCEPT ![d][i] = t.info]
           /\ openfiles' = [openfiles EXCEPT ![fd] =
                            [at |-> <<d, i>>, info |-> t.info, offset |-> 0]]
        /\ readback' = <<>> /\ UNCHANGED data

f_close(fd) ==
    /\ fd \in Opened
    /\ openfiles' = [openfiles EXCEPT ![fd] = None]
    /\ readback' = <<>> /\ UNCHANGED <<fat, dir, data>>

\* fault: the chain is not followed
ClusterAt_first(F, info, offs) == Along(F, info.cluster0)[0]

\* fobj_get_sec_at_offs: the cluster of the byte at offs
ClusterAt(F, info, offs) == Along(F, info.cluster0)[offs \div ClusSize]

\* f_write of n bytes; without the clusters, it changes no more than the
\* chain and the copy of the entry
Places(F, of, n) ==
    {[clus |-> ClusterAt(F, of.info, o), k |-> (o % ClusSize) + 1,
      byte |-> <<of.at, o>>] : o \in of.offset .. of.offset + n - 1}
OnDisk(places) ==
    [c \in Cluster |-> [k \in 1..ClusSize |->
        IF \E p \in places : p.clus = c /\ p.k = k
        THEN (CHOOSE p \in places : p.clus = c /\ p.k = k).byte
        ELSE data[c][k]]]

f_write(fd, n) ==
    LET of == openfiles[fd]
        grows == of.offset + n > of.info.size
        t == IF grows THEN Trunc(fat, of.info, of.offset + n)
             ELSE [fat |-> fat, info |-> of.info, ok |-> TRUE]
    IN
    /\ fd \in Opened /\ of.offset + n <= MaxLen
    /\ grows /\ GrowsInPlace(of.info, of.offset + n) => CopiesOver
    /\ fat' = t.fat /\ readback' = <<>>
    /\ IF t.ok
       THEN /\ dir' = [dir EXCEPT ![of.at[1]][of.at[2]] =
                            [@ EXCEPT !.size = t.info.size,
                                      !.cluster0 = t.info.cluster0]]
            /\ data' = OnDisk(Places(t.fat, [of EXCEPT !.info = t.info], n))
            /\ openfiles' = [openfiles EXCEPT ![fd].info = t.info,
                                              ![fd].offset = @ + n]
       ELSE /\ openfiles' = [openfiles EXCEPT ![fd].info = t.info]
            /\ UNCHANGED <<dir, data>>

\* f_read, clamped to the size in the copy of the entry
f_read(fd, size) ==
    LET of == openfiles[fd]
        n == IF of.offset + size > of.info.size THEN of.info.size - of.offset
             ELSE size
        Byte(o) == data[ClusterAt(fat, of.info, o)][(o % ClusSize) + 1]
    IN
    /\ fd \in Opened
    /\ readback' = [i \in 1..n |-> Byte(of.offset + i - 1)]
    /\ openfiles' = [openfiles EXCEPT ![fd].offset = @ + n]
    /\ UNCHANGED <<fat, dir, data>>

\* f_lseek, to the start or the end of the file
f_lseek(fd) ==
    /\ fd \in Opened
    /\ \E offset \in {0, openfiles[fd].info.size} :
            openfiles' = [openfiles EXCEPT ![fd].offset = offset]
    /\ readback' = <<>> /\ UNCHANGED <<fat, dir, data>>

\* f_mkdir in the root directory: without a cluster, the entry is erased
f_mkdir(path) ==
    \E i \in Slots(0) :
        LET e == Named(0, i, path, "dir")
            c == Lowest(FreeClusters(fat))
        IN
        /\ Creates(path, 0, i)
        /\ \/ /\ FreeClusters(fat) = {}
              /\ dir' = [dir EXCEPT ![0][i] = [e EXCEPT !.name = Erased]]
              /\ UNCHANGED fat
           \/ /\ FreeClusters(fat) # {}
              /\ fat' = [fat EXCEPT ![c] = EOC]
              /\ dir' = [d \in DOMAIN dir \cup {c} |->
                    IF d = c THEN [k \in 1..DirEntries |->
                        IF k = 1 THEN Entry(Dot, "dir", c, 0)
                        ELSE IF k = 2 THEN Entry(DotDot, "dir", e.cluster0, 0)
                        ELSE NoEntry]
                    ELSE IF d = 0 THEN [dir[0] EXCEPT ![i] =
                                            [e EXCEPT !.cluster0 = c]]
                    ELSE dir[d]]
        /\ readback' = <<>> /\ UNCHANGED <<data, openfiles>>

f_mknod(path) ==
    \E d \in DOMAIN dir, i \in 1..RootEntries + DirEntries :
        /\ i \in Slots(d) /\ Creates(path, d, i)
        /\ dir' = [dir EXCEPT ![d][i] = Named(d, i, path, "dev")]
        /\ readback' = <<>> /\ UNCHANGED <<fat, data, openfiles>>

FatNext ==
    \/ \E fd \in Fd :
        \/ \E path \in Path, creat, trunc \in BOOLEAN :
                f_open(fd, path, creat, trunc)
        \/ f_close(fd) \/ f_lseek(fd)
        \/ \E n \in 1..MaxWrite : f_write(fd, n) \/ f_read(fd, n)
    \/ \E d \in DirName : f_mkdir(<<d>>)
    \/ \E path \in {p \in Path : Len(p) = 2} : f_mknod(path)

FatSpec == FatInit /\ [][FatNext]_fatvars
-----------------------------------------------------------------------------
\* the places of the entries of a kind
Entries(kind) ==
    {at \in UNION {{d} \X Slots(d) : d \in DOMAIN dir} :
        LET e == dir[at[1]][at[2]] IN
        e.kind = kind /\ e.name \notin {UnusedEnt, Erased, Dot, DotDot}}
At(at) == dir[at[1]][at[2]]
Chain(e) == IF e.cluster0 = 0 THEN {}
            ELSE {Along(fat, e.cluster0)[m] : m \in Steps} \ {EOC}

\* The chain of every file and directory runs through clusters that are
\* marked as taken to an end, has room for the size in the entry, and shares
\* no cluster with another: across allocations that fail half way.
ChainsWhole ==
    \A at \in Entries("file") \cup Entries("dir") :
        /\ Free \notin Chain(At(at))
        /\ \A c \in Chain(At(at)) \cap Cluster : fat[c] # Free
        /\ ClusSize * Cardinality(Chain(At(at))) >= At(at).size
        /\ \A other \in Entries("file") \cup Entries("dir") :
                at # other => Chain(At(at)) \cap Chain(At(other)) = {}

\* Read through its entry, a file is what was written to it: the tools'
\* calls are those of a store of files.  (Store!Spec, said of the steps that
\* change something here.)
BytesOf(e) == [i \in 1..e.size |->
                data[ClusterAt(fat, e, i - 1)][((i - 1) % ClusSize) + 1]]
FileBytes == [at \in Entries("file") |-> BytesOf(At(at))]
Handles == [fd \in Fd |-> IF fd \notin Opened THEN None
                          ELSE [file |-> openfiles[fd].at,
                                offset |-> openfiles[fd].offset]]
Store == INSTANCE FileStore WITH
    File <- (0 .. NClus - 1) \X (1 .. RootEntries + DirEntries),
    store <- FileBytes, handle <- Handles, got <- readback
ImplementsStore ==
    Store!Init /\ [][UNCHANGED fatvars \/ Store!Next]_<<FileBytes, Handles, readback>>
=============================================================================
