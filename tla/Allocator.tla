----------------------------- MODULE Allocator ------------------------------
(***************************************************************************)
(* What a heap promises: it hands out regions of memory of at least the    *)
(* size asked for, within its bounds, that have nothing in common with     *)
(* each other, and takes them back.                                        *)
(***************************************************************************)
EXTENDS Naturals

CONSTANTS Base, End,    \* the paragraphs Base .. End - 1 belong to the heap
          Para,         \* the bytes of a paragraph
          Size          \* the sizes asked for, in bytes

VARIABLE live           \* the regions handed out: [start, len]

Region == [start : Base..End, len : 0..(End - Base)]

Paragraphs(r) == r.start .. (r.start + r.len - 1)

Init == live = {}

\* whoever asks for size bytes gets a region that holds them
Allocate(size) ==
    \E r \in Region :
        /\ r.len * Para >= size /\ r.start + r.len <= End
        /\ \A l \in live : /\ l.start # r.start
                           /\ Paragraphs(l) \cap Paragraphs(r) = {}
        /\ live' = live \cup {r}

\* the region that starts at p comes back
Release(p) == \E r \in live : r.start = p /\ live' = live \ {r}

Next == \/ \E size \in Size : Allocate(size)
        \/ \E r \in live : Release(r.start)

Spec == Init /\ [][Next]_live
=============================================================================
