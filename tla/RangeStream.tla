---------------------------- MODULE RangeStream ----------------------------
(***************************************************************************)
(* What both pipelines of installer/engine/src/pipeline.rs promise: the    *)
(* blocks of a range are processed once each and in order, and the range   *)
(* is reported good only when all of them were.                            *)
(***************************************************************************)
EXTENDS Naturals, Sequences

CONSTANT Total \* blocks in the range

VARIABLES taken, \* the blocks processed so far
          answer \* "none", then "ok" or "err" for good

vars == <<taken, answer>>

Init == taken = <<>> /\ answer = "none"

Advance == /\ answer = "none" /\ Len(taken) < Total
           /\ taken' = Append(taken, Len(taken))
           /\ UNCHANGED answer

Succeed == /\ answer = "none" /\ Len(taken) = Total
           /\ answer' = "ok"
           /\ UNCHANGED taken

Refuse == answer = "none" /\ answer' = "err" /\ UNCHANGED taken

Next == Advance \/ Succeed \/ Refuse

Spec == Init /\ [][Next]_vars
=============================================================================
