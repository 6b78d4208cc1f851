----------------------------- MODULE FileStore ------------------------------
(***************************************************************************)
(* What a file system promises to a program that copies files to it: a     *)
(* file has a sequence of bytes, a descriptor has a place in one of them,  *)
(* what was written is what is read, and a file changes only by calls on   *)
(* that file.  A call may fail, and then changes no file.                  *)
(***************************************************************************)
EXTENDS Integers, Sequences

CONSTANTS Fd, File, None,
          MaxWrite      \* bytes of one call

VARIABLES store,    \* the bytes of the files there are
          handle,   \* the open files: [file, offset], or None
          got       \* what the last read has delivered

vars == <<store, handle, got>>

Init == /\ store = [f \in {} |-> <<>>]
        /\ handle = [fd \in Fd |-> None]
        /\ got = <<>>

\* store with file f holding s
With(f, s) == [g \in DOMAIN store \cup {f} |-> IF g = f THEN s ELSE store[g]]

Open(fd, f) ==
    /\ handle[fd] = None
    /\ handle' = [handle EXCEPT ![fd] = [file |-> f, offset |-> 0]]
    /\ got' = <<>>
    /\ \/ f \in DOMAIN store /\ store' = store
       \/ store' = With(f, <<>>)

Close(fd) == /\ handle' = [handle EXCEPT ![fd] = None]
             /\ got' = <<>> /\ UNCHANGED store

\* n bytes go to the descriptor's place, which may be the end of the file
Write(fd, n) ==
    LET f    == handle[fd].file
        from == handle[fd].offset
        old  == store[f]
        len  == IF from + n > Len(old) THEN from + n ELSE Len(old)
    IN
    /\ handle[fd] # None
    /\ store' = With(f, [i \in 1..len |-> IF i \in (from + 1)..(from + n)
                                          THEN <<f, i - 1>> ELSE old[i]])
    /\ handle' = [handle EXCEPT ![fd].offset = @ + n]
    /\ got' = <<>>

Read(fd) ==
    LET from == handle[fd].offset IN
    /\ handle[fd] # None
    /\ handle' = [handle EXCEPT ![fd].offset = @ + Len(got')]
    /\ got' = SubSeq(store[handle[fd].file], from + 1, from + Len(got'))
    /\ UNCHANGED store

Seek(fd) == /\ handle[fd] # None
            /\ \E offset \in 0..Len(store[handle[fd].file]) :
                    handle' = [handle EXCEPT ![fd].offset = offset]
            /\ got' = <<>> /\ UNCHANGED store

Fail == got' = <<>> /\ UNCHANGED <<store, handle>>

Next == \/ \E fd \in Fd, f \in File : Open(fd, f)
        \/ \E fd \in Fd : Close(fd) \/ Seek(fd) \/ Read(fd)
        \/ \E fd \in Fd, n \in 1..MaxWrite : Write(fd, n)
        \/ Fail

Spec == Init /\ [][Next]_vars
=============================================================================
