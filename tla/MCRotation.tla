----------------------------- MODULE MCRotation -----------------------------
(* An instance of Planner with short years: with 2 buckets a year of 5     *)
(* days ends in the first, one of 6 days in the second bucket of the       *)
(* rotation, as 365 and 366 days do in other buckets of 14.                *)
EXTENDS Planner

MCYears == {5, 6}
MCDays == {1, 2}

(* A plan that began yesterday, one of the UTC date, one of the next.      *)
MCStarts == {-1, 0, 1}
=============================================================================
