------------------------------ MODULE Vitrine ------------------------------
(***************************************************************************)
(* What the catalogue promises, one committed change at a time: `cars` is  *)
(* the cars table, `visible` the rows with is_primary = TRUE, which is     *)
(* what every page of the web application filters on.  A change is either  *)
(* the upsert of one listing or a whole dedup pass.  Catalog.tla shows     *)
(* what becomes of this when passes and upserts take several statements.   *)
(***************************************************************************)
EXTENDS Dedup

CONSTANTS Ids,          \* the encar_ids that may be listed
          MaxId,        \* encar_id is a BigInteger: ids are bounded
          Rows          \* the rows a detail page may parse to

ASSUME IdsAssumption == MaxId \in Nat /\ Ids \subseteq 0 .. MaxId

VARIABLES cars,         \* encar_id -> row, for the listings stored so far
          visible,      \* the ids whose row has is_primary = TRUE
          touched       \* history: rows written since flags were last set

vitrineVars == <<cars, visible, touched>>

Put(table, i, row) ==
    [j \in DOMAIN table \cup {i} |-> IF j = i THEN row ELSE table[j]]

VitrineInit == /\ cars = [i \in {} |-> NULL]
               /\ visible = {}
               /\ touched = {}

(* upsert_car: a new row gets is_primary = TRUE from the column default,   *)
(* the update of a known row leaves is_primary alone.                      *)
Upsert(i, row) ==
    /\ cars' = Put(cars, i, row)
    /\ visible' = IF i \in DOMAIN cars THEN visible ELSE visible \cup {i}
    /\ touched' = touched \cup {i}

MarkOnly ==                             \* the reset is forgotten
    /\ visible' = visible \cup Primaries(cars)
    /\ touched' = {}
    /\ UNCHANGED cars

(* run_dedup followed by the caller's commit.                              *)
RunDedup ==
    /\ visible' = Primaries(cars)
    /\ touched' = {}
    /\ UNCHANGED cars

VitrineNext == \/ \E i \in Ids, row \in Rows : Upsert(i, row)
               \/ RunDedup

VitrineSpec == VitrineInit /\ [][VitrineNext]_vitrineVars

-----------------------------------------------------------------------------
VitrineTypeOK == /\ DOMAIN cars \subseteq Ids
                 /\ cars \in [DOMAIN cars -> Rows]
                 /\ visible \subseteq DOMAIN cars
                 /\ touched \subseteq DOMAIN cars

(* A row is hidden only behind a newer visible listing of the same car     *)
(* (dedup.py: the largest encar_id of a group wins, the rest are hidden),  *)
(* as long as neither of the two was rewritten after the pass.  So a car   *)
(* never disappears from the vitrine because of a dedup pass.              *)
HiddenBehindNewer ==
    \A i \in DOMAIN cars \ visible :
        \/ i \in touched
        \/ \E j \in visible :
              j > i /\ (j \in touched \/ Duplicates(cars[i], cars[j]))

(* Two visible rows with the same complete key exist only until the next   *)
(* pass: one of them was written after the last one (dedup.py: the vitrine *)
(* must show each physical car exactly once).                              *)
NoVisibleTwins ==
    \A i, j \in visible :
        i # j /\ SameKey(cars[i], cars[j]) => {i, j} \cap touched # {}

=============================================================================
