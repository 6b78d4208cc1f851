------------------------------ MODULE MCHostFat -----------------------------
(* Three clusters of two bytes, one file.                                  *)
EXTENDS HostFat
MCPath == {<<"a">>}
=============================================================================
