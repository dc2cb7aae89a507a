---------------------------- MODULE MCWriteGate ----------------------------
(* Instances of WriteGate for TLC. *)
EXTENDS WriteGate, TLC

CONSTANTS g1, g2, s1, m1, r1, f1

\* Two GUIs on one PC: the first with a storage write, a maintenance run and a
\* plain command, the second with a manufacturer write.
TwoAppOf == (s1 :> g1) @@ (m1 :> g1) @@ (r1 :> g1) @@ (f1 :> g2)
TwoKindOf == (s1 :> "storage") @@ (m1 :> "maintenance") @@ (r1 :> "read")
             @@ (f1 :> "factory")

\* One GUI, where three commands queue on `busy'; r1 is the device poll.
OneAppOf == (s1 :> g1) @@ (m1 :> g1) @@ (f1 :> g1) @@ (r1 :> g1)
OneKindOf == (s1 :> "storage") @@ (m1 :> "maintenance") @@ (f1 :> "factory")
             @@ (r1 :> "poll")
=============================================================================
