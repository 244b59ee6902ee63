----------------------------- MODULE MCListWalk -----------------------------
(* An instance of ListWalk: three listings of one model, two to a page, so *)
(* that a stop on the first page leaves a listing behind.                  *)
EXTENDS ListWalk

CONSTANT wide

MCThree == 1 .. 3
MCDepths == {2, 3}
MCCounts == {2, 3}
MCOneModel == [i \in MCThree |-> {wide}]
=============================================================================
