------------------------------- MODULE Files --------------------------------
(***************************************************************************)
(* Open files: the table of kernel/FILEIO.C with its counts of references, *)
(* the descriptors of processes in kernel/UFILEIO.C, and what exec, exit   *)
(* and wait do with them (EXEC.C, PROCESS.C; Process has the rest).        *)
(*                                                                         *)
(* A process runs as soon as exec has made its task ready: before its      *)
(* parent is known and while its descriptors are still being set.  What    *)
(* critsect protects is one step; kopen leaves it to look the file up, and *)
(* the drivers may block.  Positions in files are in KFat.                 *)
(***************************************************************************)
EXTENDS Integers, FiniteSets

CONSTANTS
    Proc,           \* the slots of processes
    PROC_FILES,     \* descriptors of a process: 8
    MAX_OPEN_FILE,  \* entries of the table: 10
    File,           \* what can be opened: regular files and devices
    Minor,          \* the minor number of a character device; -1 of others
    Exclusive,      \* the devices that one opener has to himself: serial ports
    MaxCalls        \* bound: calls of open and exec

ASSUME FilesAssumption ==
    /\ Minor \in [File -> Int] /\ Exclusive \subseteq File
    /\ \A d \in Exclusive : Minor[d] \in 0 .. MAX_OPEN_FILE - 1
    /\ {PROC_FILES, MAX_OPEN_FILE} \subseteq Nat \ {0} /\ MaxCalls \in Nat

Handle == 0 .. PROC_FILES - 1
Kfd == 0 .. MAX_OPEN_FILE - 1

VARIABLES
    oft,        \* [refcnt, file]: file is what ops, ino, maj and min say
    fds,        \* fds[p][j].kfd
    opened,     \* the exclusive devices that their drivers hold open
    state,      \* of a slot: "unused", "runs", "zombie" or "freed" (proc_free
                \* is at work)
    parent,     \* proc->parent, which proc_alloc leaves as it was
    job,        \* of each process, the call it is in: [at, kfd, fd, child]
    meant,      \* meant[p][j]: the file that descriptor is for
    calls

filevars == <<oft, fds, opened, state, parent, job, meant, calls>>

Idle == [at |-> "out", kfd |-> -1, fd |-> -1, child |-> ""]
NoFds == [j \in Handle |-> -1]
NoFile == [j \in Handle |-> ""]

FilesInit ==
    /\ oft = [i \in Kfd |-> [refcnt |-> 0, file |-> ""]]
    /\ fds = [p \in Proc |-> NoFds] /\ meant = [p \in Proc |-> NoFile]
    /\ opened = {}
    /\ LET first == CHOOSE p \in Proc : TRUE IN
       state = [p \in Proc |-> IF p = first THEN "runs" ELSE "unused"]
    /\ parent = [p \in Proc |-> ""]
    /\ job = [p \in Proc |-> Idle] /\ calls = 0

Least(S) == CHOOSE i \in S : \A k \in S : i <= k

FreeFds(p) == {j \in Handle : fds[p][j] = -1}

\* the process is in its program
InProgram(p) == state[p] = "runs" /\ job[p].at = "out"
-----------------------------------------------------------------------------
(* open                                                                    *)

\* kopen takes a free entry, inside critsect
Reserved(i) == [oft EXCEPT ![i].refcnt = @ + 1]

open(p) ==
    LET unused == {i \in Kfd : oft[i].refcnt = 0} IN
    /\ InProgram(p) /\ FreeFds(p) # {} /\ unused # {}
    /\ calls < MaxCalls /\ calls' = calls + 1
    /\ oft' = Reserved(Least(unused))
    /\ job' = [job EXCEPT ![p] = [Idle EXCEPT !.at = "lookup",
                    !.fd = Least(FreeFds(p)), !.kfd = Least(unused)]]
    /\ UNCHANGED <<fds, opened, state, parent, meant>>

\* ino_get and ino_stat find nothing, or there is an error
kopen_fails(p) ==
    /\ job[p].at = "lookup"
    /\ oft' = [oft EXCEPT ![job[p].kfd].refcnt = @ - 1]
    /\ job' = [job EXCEPT ![p] = Idle]
    /\ UNCHANGED <<fds, opened, state, parent, meant, calls>>

\* or the entry is filled in
kopen_finds(p, f) ==
    /\ job[p].at = "lookup"
    /\ oft' = [oft EXCEPT ![job[p].kfd].file = f]
    /\ job' = [job EXCEPT ![p].at = "device"]
    /\ UNCHANGED <<fds, opened, state, parent, meant, calls>>

\* the driver is opened, if there is one: an exclusive device is busy when it
\* is open already
kopen_opens(p) ==
    LET i == job[p].kfd
        f == oft[i].file
    IN
    /\ job[p].at = "device"
    /\ job' = [job EXCEPT ![p] = Idle]
    /\ IF f \in opened
       THEN /\ oft' = [oft EXCEPT ![i].refcnt = @ - 1]
            /\ UNCHANGED <<fds, opened, meant>>
       ELSE /\ opened' = opened \cup ({f} \cap Exclusive)
            /\ fds' = [fds EXCEPT ![p][job[p].fd] = i]
            /\ meant' = [meant EXCEPT ![p][job[p].fd] = f]
            /\ UNCHANGED oft
    /\ UNCHANGED <<state, parent, calls>>
-----------------------------------------------------------------------------
(* close and dup                                                           *)

\* The device that cdev_close closes is that of the entry whose number is the
\* minor number of the one that is given up: kclose passes oft[fd].min where
\* cdev_close takes an fd.
Closes(i) ==
    IF Minor[oft[i].file] \notin Kfd THEN {} ELSE {oft[Minor[oft[i].file]].file}

LastReference(i) == oft[i].refcnt = 1

\* kclose, inside critsect from end to end
kclose(i) ==
    /\ oft' = [oft EXCEPT ![i].refcnt = @ - 1]
    /\ opened' = IF LastReference(i) THEN opened \ Closes(i) ELSE opened

close(p, j) ==
    /\ InProgram(p) /\ fds[p][j] # -1
    /\ kclose(fds[p][j])
    /\ fds' = [fds EXCEPT ![p][j] = -1] /\ meant' = [meant EXCEPT ![p][j] = ""]
    /\ UNCHANGED <<state, parent, job, calls>>

\* fault: the entry is not counted again
kdup_uncounted(i) == oft

kdup(i) == [oft EXCEPT ![i].refcnt = @ + 1]

dup(p, j) ==
    LET k == Least(FreeFds(p)) IN
    /\ InProgram(p) /\ fds[p][j] # -1 /\ FreeFds(p) # {}
    /\ oft' = kdup(fds[p][j])
    /\ fds' = [fds EXCEPT ![p][k] = fds[p][j]]
    /\ meant' = [meant EXCEPT ![p][k] = meant[p][j]]
    /\ UNCHANGED <<opened, state, parent, job, calls>>
-----------------------------------------------------------------------------
(* exec, exit and wait                                                     *)

\* proc_alloc, and task_from_proc makes the task ready
make_process_starts(p, c) ==
    /\ InProgram(p) /\ state[c] = "unused"
    /\ calls < MaxCalls /\ calls' = calls + 1
    /\ state' = [state EXCEPT ![c] = "runs"]
    /\ fds' = [fds EXCEPT ![c] = NoFds] /\ meant' = [meant EXCEPT ![c] = NoFile]
    /\ job' = [job EXCEPT ![p] = [Idle EXCEPT !.at = "started", !.child = c]]
    /\ UNCHANGED <<oft, opened, parent>>

make_process_links(p) ==
    /\ job[p].at = "started"
    /\ parent' = [parent EXCEPT ![job[p].child] = p]
    /\ job' = [job EXCEPT ![p].at = "dup", ![p].fd = 0]
    /\ UNCHANGED <<oft, fds, opened, state, meant, calls>>

\* dup_handles, one descriptor; it looks neither at what the child has done
\* nor at whether it is still there
dup_handles(p) ==
    LET j == job[p].fd
        i == fds[p][j]
        c == job[p].child
    IN
    /\ job[p].at = "dup"
    /\ IF i = -1 THEN UNCHANGED <<oft, fds, meant>>
       ELSE /\ oft' = kdup(i) /\ fds' = [fds EXCEPT ![c][j] = i]
            /\ meant' = [meant EXCEPT ![c][j] = meant[p][j]]
    /\ job' = [job EXCEPT ![p] = IF j + 1 \in Handle
                                 THEN [@ EXCEPT !.fd = j + 1] ELSE Idle]
    /\ UNCHANGED <<opened, state, parent, calls>>

\* _exit: a zombie, or freed at once if it has no parent
exit_ends(p) ==
    /\ InProgram(p)
    /\ state' = [state EXCEPT ![p] = IF parent[p] = "" THEN "freed"
                                     ELSE "zombie"]
    /\ UNCHANGED <<oft, fds, opened, parent, job, meant, calls>>

\* _wait finds a zombie, and proc_free begins
wait_begins(p, c) ==
    /\ InProgram(p) /\ state[c] = "zombie" /\ parent[c] = p
    /\ state' = [state EXCEPT ![c] = "freed"]
    /\ job' = [job EXCEPT ![p] = [Idle EXCEPT !.at = "wait", !.child = c]]
    /\ UNCHANGED <<oft, fds, opened, parent, meant, calls>>

\* it closes one descriptor after the other, first to last
proc_free_closes(c) ==
    LET j == Least({k \in Handle : fds[c][k] # -1}) IN
    /\ state[c] = "freed" /\ fds[c] # NoFds
    /\ kclose(fds[c][j])
    /\ fds' = [fds EXCEPT ![c][j] = -1] /\ meant' = [meant EXCEPT ![c][j] = ""]
    /\ UNCHANGED <<state, parent, job, calls>>

\* and gives up the slot; _wait returns
proc_free_ends(c) ==
    /\ state[c] = "freed" /\ fds[c] = NoFds
    /\ state' = [state EXCEPT ![c] = "unused"]
    /\ job' = [p \in Proc |-> IF job[p].at = "wait" /\ job[p].child = c
                              THEN Idle ELSE job[p]]
    /\ UNCHANGED <<oft, fds, opened, parent, meant, calls>>
-----------------------------------------------------------------------------
FilesNext ==
    \E p \in Proc :
        \/ open(p) \/ kopen_fails(p) \/ kopen_opens(p)
        \/ \E f \in File : kopen_finds(p, f)
        \/ \E j \in Handle : close(p, j) \/ dup(p, j)
        \/ \E c \in Proc : make_process_starts(p, c) \/ wait_begins(p, c)
        \/ make_process_links(p) \/ dup_handles(p) \/ exit_ends(p)
        \/ proc_free_closes(p) \/ proc_free_ends(p)

FilesSpec == FilesInit /\ [][FilesNext]_filevars
-----------------------------------------------------------------------------
\* the descriptors of processes, and the entry that an open is about to give
\* to one
Users(i) == {u \in Proc \X Handle : state[u[1]] # "unused" /\ fds[u[1]][u[2]] = i}
Openers(i) ==
    {p \in Proc : job[p].at \in {"lookup", "device"} /\ job[p].kfd = i}

\* An entry is not given up while a descriptor refers to it or an open is
\* about to, whatever processes dup, exec and exit meanwhile: so that a
\* descriptor refers to what was opened for it, and its entry is never
\* reused under it.
DescriptorKeepsFile ==
    /\ \A i \in Kfd :
            oft[i].refcnt >= Cardinality(Users(i)) + Cardinality(Openers(i))
    /\ \A p \in Proc, j \in Handle :
            state[p] # "unused" /\ fds[p][j] # -1 =>
                oft[fds[p][j]].file = meant[p][j]
=============================================================================
