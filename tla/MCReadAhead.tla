---------------------------- MODULE MCReadAhead ----------------------------
(* Instance of ReadAhead for TLC: the three buffers of the program and a range *)
(* that uses each of them more than twice.                                     *)
EXTENDS ReadAhead
=============================================================================
