------------------------------- MODULE MCParts ------------------------------
(***************************************************************************)
(* The parts that share no state, one in each behaviour: their states are  *)
(* added up and not multiplied.                                            *)
(*   queues    four tasks and two queues: a queue long enough for a middle *)
(*             element to have two neighbours that are not each other      *)
(*   memory    a far heap of nine paragraphs and a DMA heap of three: four *)
(*             blocks side by side, an exact fit, a rest too small for a   *)
(*             header, requests of nothing and beyond the limits           *)
(*   process   the kernel task and three others, three slots               *)
(*   files     two processes, two descriptors each, three table entries,   *)
(*             a regular file and a serial port                            *)
(*   cache     three clients and three blocks over two buffers: blocks are *)
(*             shared, buffers are used again, and run out                 *)
(*   kfat      two tasks, a file of up to three clusters of two sectors, a *)
(*             directory of one or two; erased entries in both directories *)
(*   hostfat   three clusters, a file in the root, one in a directory       *)
(*   malloc    a heap that holds four blocks                               *)
(*   stdio     three streams with buffers of two bytes                     *)
(***************************************************************************)
EXTENDS TaskQSpec, Memory, Process, Files, BlkCache, KFat, HostFat, UserHeap,
        Stdio
LOCAL INSTANCE FiniteSetsExt

CONSTANTS t1, t2, t3, t4, q1, q2, c1, c2, c3, b1, b2, b3
MCPath == {<<"a">>, <<"d", "a">>}
MCMinor == [f \in {"doc", "tty1"} |-> IF f = "doc" THEN -1 ELSE 1]

\* Names in the root directory, and in "d": with an erased entry in front,
\* in the middle and behind, in a sector of its own and not; up to the end
\* of a cluster and of the root directory.
MCRootLists == {<<"d", "f">>, <<Deleted, "d", "f">>, <<"d", "f", Deleted, "h">>,
                <<"d", "f", "g", "h">>}
MCDirLists == {<<"g">>, <<"g", Deleted, "h">>, <<"g", "h", "i", "j">>}

\* bound: the bytes that pass through all streams of a program
MaxPassed == 5
Passed == MapThenSumSet(LAMBDA f : put[f] + Len(got[f]), Stream)

VARIABLE side

Part == {"queues", "memory", "process", "files", "cache", "kfat", "hostfat",
         "malloc", "stdio"}

\* the parts but p stand still
Others(p) ==
    /\ p # "queues" => UNCHANGED links
    /\ p # "memory" => UNCHANGED memvars
    /\ p # "process" => UNCHANGED procvars
    /\ p # "files" => UNCHANGED filevars
    /\ p # "cache" => UNCHANGED cachevars
    /\ p # "kfat" => UNCHANGED kfatvars
    /\ p # "hostfat" => UNCHANGED fatvars
    /\ p # "malloc" => UNCHANGED heapvars
    /\ p # "stdio" => UNCHANGED stdiovars

\* chains that go up, down, and both
MCChains == {<<3>>, <<2, 3>>, <<4, 2>>, <<2, 3, 4>>, <<4, 2, 3>>}

\* KFat draws the disk it starts with: a file of one to three clusters, and
\* full directories; or a short file, a directory of one or two clusters, and
\* names of all kinds in both
KFatDraws ==
    \/ \E c \in MCChains, last \in 1..ClusBytes :
            Starts(c, <<5>>, last, <<"d", "f", "g", "h">>, <<"g", "h", "i", "j">>)
    \/ Starts(<<2>>, <<6, 5>>, 1, <<"d", "f">>, <<"g", "h", "i", "j">>)
    \/ Starts(<<2>>, <<5>>, 1, <<Deleted, "d", "f">>, <<"g", Deleted, "h">>)
    \/ Starts(<<3, 2>>, <<6, 5>>, 1, <<"d", "f", Deleted, "h">>, <<"g">>)
Init ==
    /\ side \in Part
    /\ IF side = "kfat" THEN KFatDraws ELSE Starts(<<2>>, <<5>>, 1, <<"d", "f">>, <<>>)
    /\ TaskQInit /\ MemInit /\ ProcInit /\ FilesInit /\ CacheInit /\ FatInit
    /\ HeapInit /\ StdioInit

Next ==
    /\ UNCHANGED side /\ Others(side)
    /\ \/ side = "queues" /\ TaskQNext
       \/ side = "memory" /\ MemNext
       \/ side = "process" /\ ProcNext
       \/ side = "files" /\ FilesNext
       \/ side = "cache" /\ CacheNext
       \/ side = "kfat" /\ KFatNext
       \/ side = "hostfat" /\ FatNext
       \/ side = "malloc" /\ HeapNext
       \/ side = "stdio" /\ StdioNext /\ Passed' <= MaxPassed

Spec == Init /\ [][Next]_<<side, links, memvars, procvars, filevars, cachevars,
                          kfatvars, fatvars, heapvars, stdiovars>>
=============================================================================
