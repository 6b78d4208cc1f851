----------------------------- MODULE MCNearHeap -----------------------------
(* Room for four small blocks.  One size is odd; two leave a rest too      *)
(* small for a header when they reuse a larger block.                      *)
EXTENDS NearHeap
=============================================================================
