------------------------------- MODULE Ledger -------------------------------
(***************************************************************************)
(* What the backfill state file promises: it records models only after     *)
(* their walk returned, one at a time, and forgets them only when the      *)
(* operator resets it; and a model it records is not walked again.         *)
(***************************************************************************)
CONSTANT Models

VARIABLES recorded,     \* the models the file lists as completed
          walked,       \* the models whose walk has returned at least once
          walking       \* the model whose walk is under way, if there is one

vars == <<recorded, walked, walking>>

Init == recorded = {} /\ walked = {} /\ walking = {}

(* A save adds one of the models walked, or none.                          *)
Save == recorded' \in {recorded} \cup {recorded \cup {m} : m \in walked}

Begin(m) == /\ walking = {}
            /\ Save
            /\ m \notin recorded'
            /\ walking' = {m}
            /\ UNCHANGED walked

Return(m) == /\ walking = {m}
             /\ walked' = walked \cup {m}
             /\ walking' = {}
             /\ UNCHANGED recorded

GiveUp == walking' = {} /\ UNCHANGED <<recorded, walked>>

Record == walking = {} /\ Save /\ UNCHANGED <<walked, walking>>

Reset == walking = {} /\ recorded' = {} /\ UNCHANGED <<walked, walking>>

Work == (\E m \in Models : Begin(m) \/ Return(m)) \/ GiveUp \/ Record

Next == Work \/ Reset

Spec == Init /\ [][Next]_vars
=============================================================================
