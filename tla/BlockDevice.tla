---------------------------- MODULE BlockDevice -----------------------------
(***************************************************************************)
(* What the block cache expects of a device: calls are served one after    *)
(* the other, and one that reports success has moved its block between the *)
(* disk and the caller's buffer.  A call that fails may have done so.      *)
(***************************************************************************)
EXTENDS Naturals, Sequences

CONSTANTS Client, Block, Val

VARIABLES
    disk,       \* what each block holds
    buf,        \* what each client's buffer holds
    queue,      \* the calls to be served, [c, b, doread, moved]
    result      \* of each client's last call

DevInit ==
    /\ disk \in [Block -> Val] /\ buf \in [Client -> Val]
    /\ queue = <<>>
    /\ result = [c \in Client |-> "none"]

Calling(c) == \E i \in DOMAIN queue : queue[i].c = c

Ask(c, b, doread, v) ==
    /\ ~ Calling(c)
    /\ queue' = Append(queue, [c |-> c, b |-> b, doread |-> doread,
                               moved |-> FALSE])
    /\ buf' = [buf EXCEPT ![c] = v]
    /\ result' = [result EXCEPT ![c] = "none"]
    /\ UNCHANGED disk

Move ==
    /\ queue # <<>>
    /\ LET q == Head(queue) IN
        IF q.doread THEN buf' = [buf EXCEPT ![q.c] = disk[q.b]]
                         /\ UNCHANGED disk
        ELSE disk' = [disk EXCEPT ![q.b] = buf[q.c]] /\ UNCHANGED buf
    /\ queue' = [queue EXCEPT ![1].moved = TRUE]
    /\ UNCHANGED result

Answer(res) ==
    /\ queue # <<>> /\ (res = "ok" => Head(queue).moved)
    /\ result' = [result EXCEPT ![Head(queue).c] = res]
    /\ queue' = Tail(queue)
    /\ UNCHANGED <<disk, buf>>

DevNext == \/ \E c \in Client, b \in Block, doread \in BOOLEAN, v \in Val :
                Ask(c, b, doread, v)
           \/ Move
           \/ \E res \in {"ok", "error"} : Answer(res)

DevSpec == DevInit /\ [][DevNext]_<<disk, buf, queue, result>>
=============================================================================
