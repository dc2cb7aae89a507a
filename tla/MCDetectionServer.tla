------------------------- MODULE MCDetectionServer -------------------------
(* Instances of DetectionServer for TLC.  The safety run has the program's own *)
(* three workers and two inference slots, four connection slots (one more than *)
(* workers, so that one connection waits and another is refused) and three     *)
(* clients that may reconnect while their last connection is being closed.     *)
(* Workers and clients are interchangeable; the liveness run has fewer of both *)
(* and no symmetry.                                                            *)
EXTENDS DetectionServer, TLC

Symmetry == Permutations(Clients) \cup Permutations(Workers)
=============================================================================
