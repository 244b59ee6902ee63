------------------------------- MODULE Dedup -------------------------------
(***************************************************************************)
(* The pure part of encar_parser/dedup.py: which listings of a catalogue   *)
(* are duplicates of one physical car, and which of them stays visible.    *)
(*                                                                         *)
(* A catalogue is a function from encar_id to a row.  A row keeps the      *)
(* columns that run_dedup reads: the five key columns, of which three may  *)
(* be NULL, and photo_urls, a sequence or NULL.  Everything here is        *)
(* defined by set comprehension, so the module can be used from proofs.    *)
(***************************************************************************)
EXTENDS Naturals, Sequences, FiniteSets, Functions

CONSTANT NULL          \* SQL NULL

KeyColumns == {"brand", "model", "year_month", "mileage_km", "color_original"}
NullableKeyColumns == {"year_month", "mileage_km", "color_original"}

(* make_key returns None when one of the nullable columns is NULL ...      *)
HasKey(row) == \A f \in NullableKeyColumns : row[f] # NULL

(* ... and otherwise the 5-tuple that two rows are compared on.            *)
SameKey(a, b) == /\ HasKey(a)
                 /\ HasKey(b)
                 /\ \A f \in KeyColumns : a[f] = b[f]

(* photo_groups: frozenset(photo_urls), neither NULL nor empty.            *)
PhotoSet(row) == IF row.photo_urls = NULL THEN {} ELSE Range(row.photo_urls)
SamePhotos(a, b) == PhotoSet(a) # {} /\ PhotoSet(a) = PhotoSet(b)

(* The two signals for one physical car.                                   *)
Duplicates(a, b) == SameKey(a, b) \/ SamePhotos(a, b)

(* Plausible bugs, each the replacement of the definition that follows it, *)
(* are named Bug...; the runs must refute them.                            *)
BugSelectPrimary(group) == CHOOSE i \in group : \A j \in group : i <= j
SelectPrimary(group) == CHOOSE i \in group : \A j \in group : j <= i

(* group_by_key: the bucket of i, empty when i has no key.                 *)
KeyGroup(cars, i) == {j \in DOMAIN cars : SameKey(cars[i], cars[j])}

(* key_car_ids: members of the key buckets with more than one member.      *)
KeyCarIds(cars) == {i \in DOMAIN cars : \E j \in KeyGroup(cars, i) : j # i}

(* The photo fallback sees only the cars no key bucket decided on.         *)
Unassigned(cars) == DOMAIN cars \ KeyCarIds(cars)
PhotoGroup(cars, i) == {j \in Unassigned(cars) : SamePhotos(cars[i], cars[j])}

DuplicateGroups(cars) ==
    {KeyGroup(cars, i) : i \in KeyCarIds(cars)}
      \cup {g \in {PhotoGroup(cars, i) : i \in Unassigned(cars)} :
              \E i, j \in g : i # j}

(* hidden_ids and primary_ids of _collect_duplicates and run_dedup: every  *)
(* member of a group but its winner is hidden, all other rows are primary. *)
Hidden(cars) ==
    UNION {g \ {SelectPrimary(g)} : g \in DuplicateGroups(cars)}
Primaries(cars) == DOMAIN cars \ Hidden(cars)

=============================================================================
