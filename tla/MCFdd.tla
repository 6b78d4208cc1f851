------------------------------- MODULE MCFdd --------------------------------
(***************************************************************************)
(* Instances of Fdd for TLC.                                               *)
(***************************************************************************)
EXTENDS Fdd
=============================================================================
