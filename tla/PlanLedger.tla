----------------------------- MODULE PlanLedger -----------------------------
(***************************************************************************)
(* What the installer promises about a storage plan (api-contract.md:      *)
(* 116-130): it is offered, consumed once, and everything its journal will *)
(* ever say is said in the one run that consumed it.  A run may stop at    *)
(* any moment; nothing is retried or undone.                               *)
(***************************************************************************)
CONSTANT None

VARIABLES offered,  \* plans waiting for confirmation
          consumed, \* plans used up
          active,   \* the consumed plan being carried out, or None
          records   \* journal records, each naming its plan

vars == <<offered, consumed, active, records>>

Init == offered = {} /\ consumed = {} /\ active = None /\ records = {}

Offer == \E p \in offered' : /\ p \notin consumed
                             /\ offered' = offered \cup {p}
                             /\ UNCHANGED <<consumed, active, records>>

Consume == \E p \in offered : /\ active = None
                              /\ p \notin consumed
                              /\ offered' = offered \ {p}
                              /\ consumed' = consumed \cup {p}
                              /\ active' = p
                              /\ UNCHANGED records

Record == /\ active # None
          /\ \E e \in records' : e.plan = active /\ records' = records \cup {e}
          /\ active' \in {active, None}
          /\ UNCHANGED <<offered, consumed>>

Stop == active' = None /\ UNCHANGED <<offered, consumed, records>>

Next == Offer \/ Consume \/ Record \/ Stop

Spec == Init /\ [][Next]_vars
=============================================================================
