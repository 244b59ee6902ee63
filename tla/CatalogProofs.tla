--------------------------- MODULE CatalogProofs ---------------------------
(***************************************************************************)
(* What the grouping of dedup.py guarantees for every catalogue whose      *)
(* encar_ids are bounded (the column is a BigInteger); that Vitrine keeps  *)
(* its promises, and that Catalog does for any number of processes and     *)
(* listings, each undisturbed step being one of Vitrine; that the parsers  *)
(* of Listing make of every spelling of a payload a row of its car; and so *)
(* that the vitrine shows each car once.                                   *)
(***************************************************************************)
EXTENDS Catalog, Payloads, DataLemmas, TLAPS

-----------------------------------------------------------------------------
(* The grouping.                                                           *)

(* select_primary returns the largest id of its group.                     *)
LEMMA SelectPrimaryIsMax ==
    ASSUME NEW N \in Nat, NEW S, S \subseteq 0 .. N, S # {}
    PROVE  /\ SelectPrimary(S) \in S
           /\ \A x \in S : x <= SelectPrimary(S)
BY MaxExists DEF SelectPrimary

-----------------------------------------------------------------------------
(* Having the same complete key, or the same photos, is symmetric and      *)
(* transitive.                                                             *)
LEMMA SameKeyEquivalence ==
    ASSUME NEW a, NEW b, NEW c
    PROVE  /\ HasKey(a) => SameKey(a, a)
           /\ SameKey(a, b) => HasKey(a) /\ SameKey(b, a)
           /\ SameKey(a, b) /\ SameKey(b, c) => SameKey(a, c)
BY Zenon DEF SameKey

(* photo_groups partitions the rows that have photos.                      *)
LEMMA SamePhotosEquivalence ==
    ASSUME NEW a, NEW b, NEW c
    PROVE  /\ SamePhotos(a, b) => SamePhotos(a, a) /\ SamePhotos(b, a)
           /\ SamePhotos(a, b) /\ SamePhotos(b, c) => SamePhotos(a, c)
BY DEF SamePhotos

(* A key bucket with more than one member is the bucket of each of them.   *)
LEMMA KeyGroupMembers ==
    ASSUME NEW table, NEW i \in KeyCarIds(table)
    PROVE  /\ i \in KeyGroup(table, i)
           /\ KeyGroup(table, i) \subseteq KeyCarIds(table)
           /\ \A j \in KeyGroup(table, i) : KeyGroup(table, j) = KeyGroup(table, i)
<1>1. PICK k \in KeyGroup(table, i) : k # i
  BY DEF KeyCarIds
<1>2. i \in DOMAIN table /\ k \in DOMAIN table /\ SameKey(table[i], table[k])
  BY <1>1 DEF KeyGroup, KeyCarIds
<1>3. i \in KeyGroup(table, i)
  BY <1>2, SameKeyEquivalence DEF KeyGroup
<1>4. ASSUME NEW j \in KeyGroup(table, i)
      PROVE  j \in KeyCarIds(table) /\ KeyGroup(table, j) = KeyGroup(table, i)
  <2>1. j \in DOMAIN table /\ SameKey(table[i], table[j]) /\ SameKey(table[j], table[i])
    BY SameKeyEquivalence DEF KeyGroup
  <2>2. KeyGroup(table, j) = KeyGroup(table, i)
    BY <2>1, SameKeyEquivalence DEF KeyGroup
  <2> QED  BY <1>1, <1>3, <2>1, <2>2 DEF KeyCarIds
<1> QED  BY <1>3, <1>4

(* The same for a photo bucket; its members are duplicates by photos.      *)
LEMMA PhotoGroupMembers ==
    ASSUME NEW table, NEW i \in Unassigned(table), NEW j \in PhotoGroup(table, i)
    PROVE  /\ j \in Unassigned(table)
           /\ SamePhotos(table[i], table[j])
           /\ PhotoGroup(table, j) = PhotoGroup(table, i)
<1>1. j \in Unassigned(table) /\ SamePhotos(table[i], table[j])
  BY DEF PhotoGroup
<1>2. PhotoGroup(table, j) = PhotoGroup(table, i)
  BY <1>1, SamePhotosEquivalence DEF PhotoGroup
<1> QED  BY <1>1, <1>2

(* What every duplicate group is.                                          *)
LEMMA GroupShape ==
    ASSUME NEW table, NEW g \in DuplicateGroups(table)
    PROVE  /\ g # {}
           /\ g \subseteq DOMAIN table
           /\ \A i, j \in g : Duplicates(table[i], table[j])
<1>1. CASE \E i \in KeyCarIds(table) : g = KeyGroup(table, i)
  <2>1. PICK i \in KeyCarIds(table) : g = KeyGroup(table, i)
    BY <1>1
  <2>2. \A j, k \in g : SameKey(table[j], table[k])
    BY <2>1, SameKeyEquivalence DEF KeyGroup
  <2>3. i \in g /\ g \subseteq DOMAIN table
    BY <2>1, KeyGroupMembers DEF KeyGroup
  <2> QED  BY <2>2, <2>3 DEF Duplicates
<1>2. CASE \E i \in Unassigned(table) : g = PhotoGroup(table, i) /\ \E j, k \in g : j # k
  <2>1. PICK i \in Unassigned(table) : g = PhotoGroup(table, i)
    BY <1>2
  <2>2. \A j, k \in g : SamePhotos(table[j], table[k])
    BY <2>1, SamePhotosEquivalence DEF PhotoGroup
  <2>3. g # {} /\ g \subseteq DOMAIN table
    BY <1>2, <2>1 DEF PhotoGroup, Unassigned
  <2> QED  BY <2>2, <2>3 DEF Duplicates
<1> QED  BY <1>1, <1>2 DEF DuplicateGroups

(* No listing is in two groups: the photo fallback never re-classifies a   *)
(* row the key pass decided on.                                            *)
LEMMA GroupsDisjoint ==
    ASSUME NEW table, NEW g \in DuplicateGroups(table),
           NEW h \in DuplicateGroups(table), NEW i \in g, i \in h
    PROVE  g = h
<1> DEFINE IsKeyGroup(s) == i \in KeyCarIds(table) /\ s = KeyGroup(table, i)
           IsPhotoGroup(s) == i \in Unassigned(table) /\ s = PhotoGroup(table, i)
<1>1. ASSUME NEW s \in DuplicateGroups(table), i \in s
      PROVE  IsKeyGroup(s) \/ IsPhotoGroup(s)
  <2>1. CASE \E j \in KeyCarIds(table) : s = KeyGroup(table, j)
    BY <1>1, <2>1, KeyGroupMembers
  <2>2. CASE \E j \in Unassigned(table) : s = PhotoGroup(table, j)
    BY <1>1, <2>2, PhotoGroupMembers
  <2> QED  BY <2>1, <2>2 DEF DuplicateGroups
<1>2. ~(i \in KeyCarIds(table) /\ i \in Unassigned(table))
  BY DEF Unassigned
<1> QED  BY <1>1, <1>2

-----------------------------------------------------------------------------
(* No listing is hidden without a newer listing of the same car that stays *)
(* visible: a dedup pass never makes a car disappear.                      *)
THEOREM HiddenHasNewerPrimary ==
    ASSUME NEW N \in Nat, NEW table, DOMAIN table \subseteq 0 .. N,
           NEW i \in DOMAIN table, i \notin Primaries(table)
    PROVE  \E j \in Primaries(table) : j > i /\ Duplicates(table[i], table[j])
<1>1. PICK g \in DuplicateGroups(table) : i \in g /\ i # SelectPrimary(g)
  BY DEF Primaries, Hidden
<1> DEFINE w == SelectPrimary(g)
<1>2. g # {} /\ g \subseteq 0 .. N /\ g \subseteq DOMAIN table
  BY GroupShape
<1>3. w \in g /\ i <= w
  BY <1>1, <1>2, SelectPrimaryIsMax
<1>4. w > i
  BY <1>1, <1>2, <1>3
<1>5. ASSUME NEW h \in DuplicateGroups(table), w \in h
      PROVE  w = SelectPrimary(h)
  BY <1>3, <1>5, GroupsDisjoint
<1>6. w \in Primaries(table)
  BY <1>2, <1>3, <1>5 DEF Primaries, Hidden
<1>7. Duplicates(table[i], table[w])
  BY <1>1, <1>3, GroupShape
<1> QED  BY <1>4, <1>6, <1>7

(* No two listings that stay visible have the same complete key: a car     *)
(* with a complete key is shown exactly once.                              *)
THEOREM PrimariesHaveDistinctKeys ==
    ASSUME NEW table, NEW i \in Primaries(table), NEW j \in Primaries(table),
           i # j
    PROVE  ~SameKey(table[i], table[j])
<1> SUFFICES ASSUME SameKey(table[i], table[j]) PROVE FALSE
  OBVIOUS
<1>1. i \in DOMAIN table /\ j \in DOMAIN table
  BY DEF Primaries
<1>2. j \in KeyGroup(table, i) /\ i \in KeyCarIds(table)
  BY <1>1 DEF KeyGroup, KeyCarIds
<1> DEFINE g == KeyGroup(table, i)
<1>3. g \in DuplicateGroups(table) /\ i \in g /\ j \in g
  BY <1>2, KeyGroupMembers DEF DuplicateGroups
<1>4. i = SelectPrimary(g) /\ j = SelectPrimary(g)
  BY <1>3 DEF Primaries, Hidden
<1> QED  BY <1>4

-----------------------------------------------------------------------------
(* The statements.                                                         *)

(* The effect of a committed write on the table and on the histories.      *)
LEMMA WriteEffect ==
    ASSUME TypeOK, NEW i \in Ids, NEW row \in Rows, Write(i, row)
    PROVE  /\ DOMAIN cars' = DOMAIN cars \cup {i}
           /\ cars' \in [DOMAIN cars' -> Rows]
           /\ \A j \in DOMAIN cars : j # i => cars'[j] = cars[j]
           /\ touched' = touched \cup {i}
           /\ missed' \in [Procs -> SUBSET DOMAIN cars']
           /\ \A p \in Procs : InDedup(p) => missed'[p] = missed[p] \cup {i}
<1>1. cars' = [j \in DOMAIN cars \cup {i} |-> IF j = i THEN row ELSE cars[j]]
  BY DEF Write, Put
<1>2. cars \in [DOMAIN cars -> Rows] /\ missed \in [Procs -> SUBSET DOMAIN cars]
  BY DEF TypeOK, VitrineTypeOK
<1>3. missed' = [p \in Procs |-> IF InDedup(p) THEN missed[p] \cup {i} ELSE {}]
  BY DEF Write
<1> QED  BY <1>1, <1>2, <1>3 DEF Write

(* The record of a process, by the statement it is at.                     *)
LEMMA ProcShape ==
    ASSUME TypeOK, NEW p \in Procs
    PROVE  /\ proc[p].at \in {"insert", "update"} =>
                  proc[p].id \in Ids /\ proc[p].row \in Rows
           /\ proc[p].at = "update" =>
                  proc[p].loaded \in Rows /\ proc[p].id \in DOMAIN cars
           /\ proc[p].at = "selected" =>
                  proc[p] \in [at : {"selected"}, winners : SUBSET Ids]
           /\ proc[p].at \in {"waiting", "applied"} =>
                  proc[p] \in [at : {"waiting", "applied"},
                               winners : SUBSET Ids, rows : SUBSET Ids]
<1>1. proc[p] \in ProcState
  BY DEF TypeOK, VitrineTypeOK
<1> QED  BY <1>1 DEF ProcState, Idle, Broken, TypeOK, VitrineTypeOK

-----------------------------------------------------------------------------
(* A write after which the process is idle keeps the types.                *)
LEMMA TypeWrite ==
    ASSUME TypeOK, NEW p \in Procs, NEW i \in Ids, NEW row \in Rows,
           Write(i, row), proc' = [proc EXCEPT ![p] = Idle],
           visible' \subseteq visible \cup {i}, locker' = locker
    PROVE  TypeOK'
<1>1. Idle \in ProcState /\ Idle.at = "idle"
  BY DEF ProcState, Idle
<1>2. proc' \in [Procs -> ProcState]
  BY <1>1 DEF TypeOK, VitrineTypeOK
<1>3. \A q \in Procs : proc'[q].at = "update" => proc[q].at = "update" /\ proc'[q] = proc[q]
  BY <1>1 DEF TypeOK, VitrineTypeOK
<1>4. /\ DOMAIN cars' = DOMAIN cars \cup {i}
      /\ cars' \in [DOMAIN cars' -> Rows]
      /\ touched' = touched \cup {i}
      /\ missed' \in [Procs -> SUBSET DOMAIN cars']
  BY WriteEffect
<1> QED  BY <1>2, <1>3, <1>4 DEF TypeOK, VitrineTypeOK

(* The SELECT of upsert_car only fills the record of its process.          *)
LEMMA TypeUpsert ==
    ASSUME TypeOK, NEW p \in Procs, NEW i \in Ids, NEW row \in Rows,
           UpsertSelect(p, i, row)
    PROVE  TypeOK'
<1> DEFINE new == IF i \in DOMAIN cars
                  THEN [at |-> "update", id |-> i, row |-> row, loaded |-> cars[i]]
                  ELSE [at |-> "insert", id |-> i, row |-> row]
<1>1. new \in ProcState
  BY DEF TypeOK, VitrineTypeOK, ProcState
<1>2. proc' = [proc EXCEPT ![p] = new] /\ UNCHANGED <<cars, visible, locker, touched, missed>>
  BY DEF UpsertSelect
<1>3. new.at = "update" => new.id \in DOMAIN cars
  OBVIOUS
<1> HIDE DEF new
<1> QED  BY <1>1, <1>2, <1>3 DEF TypeOK, VitrineTypeOK

(* An INSERT adds a row and makes it visible, or breaks the session.       *)
LEMMA TypeInsert ==
    ASSUME TypeOK, NEW p \in Procs, Insert(p)
    PROVE  TypeOK'
<1> DEFINE i == proc[p].id
<1>1. i \in Ids /\ proc[p].row \in Rows
  BY ProcShape DEF Insert
<1>2. Idle \in ProcState /\ Broken \in ProcState /\ Idle.at = "idle" /\ Broken.at = "broken"
  BY DEF ProcState, Idle, Broken
<1>3. CASE i \in DOMAIN cars
  <2>1. /\ proc' = [proc EXCEPT ![p] = Broken]
        /\ UNCHANGED <<cars, visible, locker, touched, missed>>
    BY <1>3 DEF Insert
  <2> QED  BY <1>2, <2>1 DEF TypeOK, VitrineTypeOK
<1>4. CASE i \notin DOMAIN cars
  <2>1. /\ Write(i, proc[p].row)
        /\ visible' = visible \cup {i}
        /\ proc' = [proc EXCEPT ![p] = Idle]
        /\ locker' = locker
    BY <1>4 DEF Insert
  <2> QED  BY <1>1, <2>1, TypeWrite
<1> QED  BY <1>3, <1>4

(* An UPDATE merges two rows, which ColumnsIndependent makes a row.        *)
LEMMA TypeUpdate ==
    ASSUME ColumnsIndependent, TypeOK, NEW p \in Procs, Update(p)
    PROVE  TypeOK'
<1> DEFINE i == proc[p].id
           row == Merge(cars[i], proc[p].loaded, proc[p].row)
<1>1. /\ i \in Ids /\ i \in DOMAIN cars
      /\ proc[p].row \in Rows /\ proc[p].loaded \in Rows /\ cars[i] \in Rows
  BY ProcShape DEF Update, TypeOK, VitrineTypeOK
<1>2. row \in Rows
  BY <1>1 DEF ColumnsIndependent
<1>3. /\ Write(i, row)
      /\ proc' = [proc EXCEPT ![p] = Idle]
      /\ UNCHANGED <<visible, locker>>
  BY DEF Update
<1> HIDE DEF row
<1> QED  BY <1>1, <1>2, <1>3, TypeWrite

(* The statements of a pass keep the types: its winners are ids.           *)
LEMMA TypeDedup ==
    ASSUME TypeOK, PassSound, NEW p \in Procs,
           \/ DedupSelect(p) \/ DedupReset(p) \/ DedupApply(p)
           \/ DedupCommit(p) \/ Exit(p)
    PROVE  TypeOK'
<1>1. Primaries(cars) \subseteq Ids
  BY DEF Primaries, TypeOK, VitrineTypeOK
<1>2. Idle \in ProcState /\ Idle.at = "idle"
  BY DEF ProcState, Idle
<1>3. ASSUME DedupSelect(p) PROVE TypeOK'
  <2> DEFINE new == [at |-> "selected", winners |-> Primaries(cars)]
  <2>1. new \in ProcState /\ new.at = "selected"
    BY <1>1 DEF ProcState
  <2>2. /\ proc' = [proc EXCEPT ![p] = new] /\ missed' = [missed EXCEPT ![p] = {}]
        /\ UNCHANGED <<cars, visible, locker, touched>>
    BY <1>3 DEF DedupSelect
  <2> HIDE DEF new
  <2> QED  BY <2>1, <2>2 DEF TypeOK, VitrineTypeOK
<1>4. ASSUME DedupReset(p) PROVE TypeOK'
  <2> DEFINE new == [at |-> "waiting", winners |-> proc[p].winners, rows |-> DOMAIN cars]
  <2>1. proc[p].winners \in SUBSET Ids
    BY <1>4, ProcShape DEF DedupReset
  <2>2. new \in ProcState /\ new.at = "waiting"
    BY <2>1 DEF ProcState, TypeOK, VitrineTypeOK
  <2>3. /\ proc' = [proc EXCEPT ![p] = new]
        /\ UNCHANGED <<cars, visible, locker, touched, missed>>
    BY <1>4 DEF DedupReset
  <2> HIDE DEF new
  <2> QED  BY <2>2, <2>3 DEF TypeOK, VitrineTypeOK
<1>5. ASSUME DedupApply(p) PROVE TypeOK'
  <2> DEFINE new == [proc[p] EXCEPT !.at = "applied"]
  <2>1. proc[p] \in [at : {"waiting", "applied"}, winners : SUBSET Ids, rows : SUBSET Ids]
    BY <1>5, ProcShape DEF DedupApply
  <2>2. new \in ProcState /\ new.at = "applied"
    BY <2>1 DEF ProcState
  <2>3. /\ proc' = [proc EXCEPT ![p] = new] /\ locker' = p
        /\ UNCHANGED <<cars, visible, touched, missed>>
    BY <1>5 DEF DedupApply
  <2> HIDE DEF new
  <2> QED  BY <2>2, <2>3 DEF TypeOK, VitrineTypeOK
<1>6. ASSUME DedupCommit(p) PROVE TypeOK'
  <2>1. proc[p].winners \subseteq DOMAIN cars
    BY <1>6 DEF DedupCommit, PassSound, PassOK, InDedup
  <2> QED  BY <1>2, <1>6, <2>1 DEF DedupCommit, TypeOK, VitrineTypeOK
<1>7. ASSUME Exit(p) PROVE TypeOK'
  BY <1>2, <1>7 DEF Exit, TypeOK, VitrineTypeOK
<1> QED  BY <1>3, <1>4, <1>5, <1>6, <1>7

-----------------------------------------------------------------------------
(* A pass stays sound when nothing it depends on changes ...               *)
LEMMA PassFrame ==
    ASSUME NEW q \in Procs, PassOK(q), proc'[q] = proc[q],
           cars' = cars, missed'[q] = missed[q]
    PROVE  PassOK(q)'
BY DEF PassOK

(* ... and when another process commits a listing, because that listing is *)
(* then one of the rows the pass missed.                                   *)
LEMMA PassWrite ==
    ASSUME TypeOK, NEW i \in Ids, NEW row \in Rows, Write(i, row),
           NEW q \in Procs, InDedup(q), PassOK(q), proc'[q] = proc[q]
    PROVE  PassOK(q)'
<1> DEFINE winners == proc[q].winners
<1>1. /\ DOMAIN cars' = DOMAIN cars \cup {i}
      /\ \A j \in DOMAIN cars : j # i => cars'[j] = cars[j]
      /\ missed'[q] = missed[q] \cup {i}
  BY WriteEffect
<1>2. winners \subseteq DOMAIN cars'
  BY <1>1 DEF PassOK
<1>3. ASSUME NEW h \in DOMAIN cars' \ winners
      PROVE  \/ h \in missed'[q]
             \/ \E j \in winners :
                   j > h /\ (j \in missed'[q] \/ Duplicates(cars'[h], cars'[j]))
  <2>1. CASE h = i \/ h \in missed[q]
    BY <1>1, <2>1
  <2>2. CASE h # i /\ h \notin missed[q]
    <3>1. PICK j \in winners :
             j > h /\ (j \in missed[q] \/ Duplicates(cars[h], cars[j]))
      BY <1>1, <2>2 DEF PassOK
    <3>2. j \in DOMAIN cars
      BY DEF PassOK
    <3>3. CASE j = i
      BY <1>1, <3>1, <3>3
    <3>4. CASE j # i
      BY <1>1, <2>2, <3>1, <3>2, <3>4
    <3> QED  BY <3>3, <3>4
  <2> QED  BY <2>1, <2>2
<1>4. ASSUME NEW j \in winners, NEW k \in winners, j # k, SameKey(cars'[j], cars'[k])
      PROVE  {j, k} \cap missed'[q] # {}
  <2>1. j \in DOMAIN cars /\ k \in DOMAIN cars
    BY DEF PassOK
  <2>2. CASE j = i \/ k = i
    BY <1>1, <2>2
  <2>3. CASE j # i /\ k # i
    <3>1. SameKey(cars[j], cars[k])
      BY <1>1, <1>4, <2>1, <2>3
    <3>2. {j, k} \cap missed[q] # {}
      BY <1>4, <3>1 DEF PassOK
    <3> QED  BY <1>1, <3>2
  <2> QED  BY <2>2, <2>3
<1>5. proc[q].at # "selected" =>
         winners \subseteq proc[q].rows /\ DOMAIN cars' \ proc[q].rows \subseteq missed'[q]
  BY <1>1 DEF PassOK
<1> QED  BY <1>2, <1>3, <1>4, <1>5 DEF PassOK

(* The SELECT of a pass: the grouping of dedup.py is sound on the rows it  *)
(* has just read.                                                          *)
LEMMA PassBegins ==
    ASSUME TypeOK, NEW p \in Procs, DedupSelect(p)
    PROVE  PassOK(p)'
<1>1. /\ proc'[p].at = "selected" /\ proc'[p].winners = Primaries(cars)
      /\ missed'[p] = {} /\ cars' = cars
  BY DEF DedupSelect, TypeOK, VitrineTypeOK
<1>2. DOMAIN cars \subseteq 0 .. MaxId /\ MaxId \in Nat
  BY IdsAssumption DEF TypeOK, VitrineTypeOK
<1>3. Primaries(cars) \subseteq DOMAIN cars
  BY DEF Primaries
<1>4. \A i \in DOMAIN cars \ Primaries(cars) :
         \E j \in Primaries(cars) : j > i /\ Duplicates(cars[i], cars[j])
  BY <1>2, HiddenHasNewerPrimary
<1>5. \A i, j \in Primaries(cars) : i # j => ~SameKey(cars[i], cars[j])
  BY PrimariesHaveDistinctKeys
<1> QED  BY <1>1, <1>3, <1>4, <1>5 DEF PassOK

(* Whatever any process does, the passes in flight stay sound.             *)
LEMMA PassStep ==
    ASSUME ColumnsIndependent, TypeOK, PassSound, Next
    PROVE  PassSound'
<1> SUFFICES ASSUME NEW q \in Procs, InDedup(q)' PROVE PassOK(q)'
  BY DEF PassSound
<1>1. ASSUME NEW p \in Procs, NEW i \in Ids, NEW row \in Rows,
             UpsertSelect(p, i, row)
      PROVE  PassOK(q)'
  <2>1. q # p
    BY <1>1 DEF UpsertSelect, InDedup, TypeOK, VitrineTypeOK
  <2>2. proc'[q] = proc[q] /\ cars' = cars /\ missed' = missed
    BY <1>1, <2>1 DEF UpsertSelect, TypeOK, VitrineTypeOK
  <2> QED  BY <2>2, PassFrame DEF PassSound, InDedup
<1>2. ASSUME NEW p \in Procs, Insert(p) \/ Update(p)
      PROVE  PassOK(q)'
  <2>1. q # p
    BY <1>2 DEF Insert, Update, InDedup, TypeOK, VitrineTypeOK, Idle, Broken
  <2>2. proc'[q] = proc[q]
    BY <1>2, <2>1 DEF Insert, Update, TypeOK, VitrineTypeOK
  <2>3. InDedup(q) /\ PassOK(q)
    BY <2>2 DEF InDedup, PassSound
  <2>4. CASE cars' = cars /\ missed' = missed
    BY <2>2, <2>3, <2>4, PassFrame
  <2>5. CASE \E i \in Ids, row \in Rows : Write(i, row)
    BY <2>2, <2>3, <2>5, PassWrite
  <2>6. CASE Insert(p)
    BY <2>4, <2>5, <2>6, ProcShape DEF Insert
  <2>7. CASE Update(p)
    <3>1. Merge(cars[proc[p].id], proc[p].loaded, proc[p].row) \in Rows
      BY <2>7, ProcShape DEF ColumnsIndependent, Update, TypeOK, VitrineTypeOK
    <3> QED  BY <2>5, <2>7, <3>1, ProcShape DEF Update
  <2> QED  BY <1>2, <2>6, <2>7
<1>3. ASSUME NEW p \in Procs, DedupSelect(p)
      PROVE  PassOK(q)'
  <2>1. CASE q = p
    BY <1>3, <2>1, PassBegins
  <2>2. CASE q # p
    <3>1. proc'[q] = proc[q] /\ cars' = cars /\ missed'[q] = missed[q]
      BY <1>3, <2>2 DEF DedupSelect, TypeOK, VitrineTypeOK
    <3> QED  BY <3>1, PassFrame DEF PassSound, InDedup
  <2> QED  BY <2>1, <2>2
<1>4. ASSUME NEW p \in Procs, DedupReset(p)
      PROVE  PassOK(q)'
  <2>1. CASE q = p
    <3>1. PassOK(p)
      BY <1>4 DEF DedupReset, PassSound, InDedup
    <3>2. /\ proc'[p].winners = proc[p].winners /\ proc'[p].rows = DOMAIN cars
          /\ cars' = cars /\ missed' = missed
      BY <1>4 DEF DedupReset, TypeOK, VitrineTypeOK
    <3> QED  BY <2>1, <3>1, <3>2 DEF PassOK
  <2>2. CASE q # p
    <3>1. proc'[q] = proc[q] /\ cars' = cars /\ missed' = missed
      BY <1>4, <2>2 DEF DedupReset, TypeOK, VitrineTypeOK
    <3> QED  BY <3>1, PassFrame DEF PassSound, InDedup
  <2> QED  BY <2>1, <2>2
<1>5. ASSUME NEW p \in Procs, DedupApply(p)
      PROVE  PassOK(q)'
  <2>1. CASE q = p
    <3>1. PassOK(p) /\ proc[p].at = "waiting"
      BY <1>5 DEF DedupApply, PassSound, InDedup
    <3>2. /\ proc'[p].winners = proc[p].winners /\ proc'[p].rows = proc[p].rows
          /\ cars' = cars /\ missed' = missed
      BY <1>5, ProcShape DEF DedupApply, TypeOK, VitrineTypeOK
    <3> QED  BY <2>1, <3>1, <3>2 DEF PassOK
  <2>2. CASE q # p
    <3>1. proc'[q] = proc[q] /\ cars' = cars /\ missed' = missed
      BY <1>5, <2>2 DEF DedupApply, TypeOK, VitrineTypeOK
    <3> QED  BY <3>1, PassFrame DEF PassSound, InDedup
  <2> QED  BY <2>1, <2>2
<1>6. ASSUME NEW p \in Procs, DedupCommit(p) \/ Exit(p)
      PROVE  PassOK(q)'
  <2>1. q # p
    BY <1>6 DEF DedupCommit, Exit, InDedup, TypeOK, VitrineTypeOK, Idle
  <2>2. proc'[q] = proc[q] /\ cars' = cars /\ missed'[q] = missed[q]
    BY <1>6, <2>1 DEF DedupCommit, Exit, TypeOK, VitrineTypeOK
  <2> QED  BY <2>2, PassFrame DEF PassSound, InDedup
<1> QED
  BY <1>1, <1>2, <1>3, <1>4, <1>5, <1>6 DEF Next, UpsertStep, DedupStep

-----------------------------------------------------------------------------
Promises == HiddenBehindNewer /\ NoVisibleTwins

(* A write keeps the promises because it marks its row as touched.         *)
LEMMA PutKeepsPromises ==
    ASSUME VitrineTypeOK, Promises, NEW i \in Ids, NEW row \in Rows,
           cars' = Put(cars, i, row), touched' = touched \cup {i},
           visible \subseteq visible', visible' \subseteq visible \cup {i},
           i \in DOMAIN cars \/ i \in visible'
    PROVE  Promises'
<1>1. /\ DOMAIN cars' = DOMAIN cars \cup {i}
      /\ \A j \in DOMAIN cars : j # i => cars'[j] = cars[j]
  BY DEF Put
<1>2. visible \subseteq DOMAIN cars
  BY DEF VitrineTypeOK
<1>3. ASSUME NEW h \in DOMAIN cars' \ visible'
      PROVE  \/ h \in touched'
             \/ \E j \in visible' :
                   j > h /\ (j \in touched' \/ Duplicates(cars'[h], cars'[j]))
  <2>1. CASE h = i \/ h \in touched
    BY <2>1
  <2>2. CASE h # i /\ h \notin touched
    <3>1. PICK j \in visible :
             j > h /\ (j \in touched \/ Duplicates(cars[h], cars[j]))
      BY <1>1, <2>2 DEF Promises, HiddenBehindNewer
    <3>2. j = i \/ (cars'[j] = cars[j] /\ cars'[h] = cars[h])
      BY <1>1, <1>2, <2>2
    <3> QED  BY <1>1, <3>1, <3>2
  <2> QED  BY <2>1, <2>2
<1>4. ASSUME NEW j \in visible', NEW k \in visible', j # k,
             SameKey(cars'[j], cars'[k])
      PROVE  {j, k} \cap touched' # {}
  <2>1. CASE j = i \/ k = i
    BY <2>1
  <2>2. CASE j # i /\ k # i
    <3>1. j \in visible /\ k \in visible /\ SameKey(cars[j], cars[k])
      BY <1>1, <1>2, <1>4, <2>2
    <3>2. {j, k} \cap touched # {}
      BY <1>4, <3>1 DEF Promises, NoVisibleTwins
    <3> QED  BY <3>2
  <2> QED  BY <2>1, <2>2
<1> QED  BY <1>3, <1>4 DEF Promises, HiddenBehindNewer, NoVisibleTwins

(* A whole pass at once establishes them, because the grouping is sound.   *)
LEMMA PassEstablishesPromises ==
    ASSUME VitrineTypeOK, RunDedup
    PROVE  Promises'
<1>1. cars' = cars /\ visible' = Primaries(cars)
  BY DEF RunDedup
<1>2. DOMAIN cars \subseteq 0 .. MaxId /\ MaxId \in Nat
  BY IdsAssumption DEF VitrineTypeOK
<1>3. \A i \in DOMAIN cars \ Primaries(cars) :
         \E j \in Primaries(cars) : j > i /\ Duplicates(cars[i], cars[j])
  BY <1>2, HiddenHasNewerPrimary
<1>4. \A i, j \in Primaries(cars) : i # j => ~SameKey(cars[i], cars[j])
  BY PrimariesHaveDistinctKeys
<1> QED  BY <1>1, <1>3, <1>4 DEF Promises, HiddenBehindNewer, NoVisibleTwins

(* Vitrine: its types and its promises, inductive together.                *)
VitrineInv == VitrineTypeOK /\ Promises

LEMMA InitVitrine == VitrineInit => VitrineInv
BY DEF VitrineInit, VitrineInv, VitrineTypeOK, Promises, HiddenBehindNewer, NoVisibleTwins

LEMMA NextVitrine == VitrineInv /\ [VitrineNext]_vitrineVars => VitrineInv'
<1> SUFFICES ASSUME VitrineInv, [VitrineNext]_vitrineVars PROVE VitrineInv'
  OBVIOUS
<1>1. ASSUME NEW i \in Ids, NEW row \in Rows, Upsert(i, row)
      PROVE  VitrineInv'
  <2>1. VitrineTypeOK'
    BY <1>1 DEF VitrineInv, VitrineTypeOK, Upsert, Put
  <2>2. Promises'
    BY <1>1, PutKeepsPromises DEF VitrineInv, Upsert
  <2> QED  BY <2>1, <2>2 DEF VitrineInv
<1>2. CASE RunDedup
  <2>1. VitrineTypeOK'
    BY <1>2 DEF VitrineInv, VitrineTypeOK, RunDedup, Primaries
  <2>2. Promises'
    BY <1>2, PassEstablishesPromises DEF VitrineInv
  <2> QED  BY <2>1, <2>2 DEF VitrineInv
<1>3. CASE UNCHANGED vitrineVars
  BY <1>3 DEF vitrineVars, VitrineInv, VitrineTypeOK, Promises, HiddenBehindNewer,
              NoVisibleTwins
<1> QED  BY <1>1, <1>2, <1>3 DEF VitrineNext

(* The types of the vitrine.                                               *)
THEOREM VitrineTypes == VitrineSpec => []VitrineTypeOK
<1>1. VitrineInv => VitrineTypeOK
  BY DEF VitrineInv
<1> QED  BY InitVitrine, NextVitrine, <1>1, PTL DEF VitrineSpec

(* One change at a time, no car disappears from the vitrine because of a   *)
(* dedup pass (run_dedup): a row is hidden only behind a newer visible     *)
(* listing of the same car, unless one of the two was rewritten since.     *)
THEOREM VitrineHiddenBehindNewer == VitrineSpec => []HiddenBehindNewer
<1>1. VitrineInv => HiddenBehindNewer
  BY DEF VitrineInv, Promises
<1> QED  BY InitVitrine, NextVitrine, <1>1, PTL DEF VitrineSpec

(* One change at a time, a car with complete data is shown once, until it  *)
(* is rewritten (dedup.py:3).                                              *)
THEOREM VitrineNoVisibleTwins == VitrineSpec => []NoVisibleTwins
<1>1. VitrineInv => NoVisibleTwins
  BY DEF VitrineInv, Promises
<1> QED  BY InitVitrine, NextVitrine, <1>1, PTL DEF VitrineSpec

-----------------------------------------------------------------------------
(* Every step of Catalog keeps the promises: a commit of a pass because    *)
(* the pass is sound, a write because it marks its row as touched.         *)
LEMMA PromisesStep ==
    ASSUME ColumnsIndependent, TypeOK, PassSound, Promises, Next
    PROVE  Promises'
<1>1. ASSUME NEW i \in Ids, NEW row \in Rows, Write(i, row),
             visible \subseteq visible', visible' \subseteq visible \cup {i},
             i \in DOMAIN cars \/ i \in visible'
      PROVE  Promises'
  BY <1>1, PutKeepsPromises DEF Write, TypeOK
<1>2. ASSUME UNCHANGED <<cars, visible, touched>>
      PROVE  Promises'
  BY <1>2 DEF Promises, HiddenBehindNewer, NoVisibleTwins
<1>3. ASSUME NEW p \in Procs, Insert(p)
      PROVE  Promises'
  <2>1. CASE proc[p].id \in DOMAIN cars
    BY <1>2, <1>3, <2>1 DEF Insert
  <2>2. CASE proc[p].id \notin DOMAIN cars
    BY <1>1, <1>3, <2>2, ProcShape DEF Insert
  <2> QED  BY <2>1, <2>2
<1>4. ASSUME NEW p \in Procs, Update(p)
      PROVE  Promises'
  <2>1. Merge(cars[proc[p].id], proc[p].loaded, proc[p].row) \in Rows
    BY <1>4, ProcShape DEF ColumnsIndependent, Update, TypeOK, VitrineTypeOK
  <2>2. proc[p].id \in Ids /\ proc[p].id \in DOMAIN cars
    BY <1>4, ProcShape DEF Update
  <2>3. Write(proc[p].id, Merge(cars[proc[p].id], proc[p].loaded, proc[p].row))
        /\ visible' = visible
    BY <1>4 DEF Update
  <2> QED  BY <1>1, <2>1, <2>2, <2>3
<1>5. ASSUME NEW p \in Procs, DedupCommit(p)
      PROVE  Promises'
  <2> DEFINE winners == proc[p].winners
             rows == proc[p].rows
  <2>1. PassOK(p) /\ winners \subseteq rows /\ DOMAIN cars \ rows \subseteq missed[p]
    BY <1>5 DEF DedupCommit, PassSound, PassOK, InDedup
  <2>2. /\ cars' = cars /\ touched' = missed[p]
        /\ visible' = (visible \ rows) \cup winners
    BY <1>5, <2>1 DEF DedupCommit
  <2>3. visible \subseteq DOMAIN cars /\ winners \subseteq DOMAIN cars
    BY <2>1 DEF TypeOK, VitrineTypeOK, PassOK
  <2>4. ASSUME NEW h \in DOMAIN cars' \ visible'
        PROVE  \/ h \in touched'
               \/ \E j \in visible' :
                     j > h /\ (j \in touched' \/ Duplicates(cars'[h], cars'[j]))
    BY <2>1, <2>2, <2>4 DEF PassOK
  <2>5. ASSUME NEW j \in visible', NEW k \in visible', j # k,
               SameKey(cars'[j], cars'[k])
        PROVE  {j, k} \cap touched' # {}
    <3>1. CASE j \in winners /\ k \in winners
      BY <2>1, <2>2, <2>5, <3>1 DEF PassOK
    <3>2. CASE j \notin winners \/ k \notin winners
      BY <2>1, <2>2, <2>3, <3>2
    <3> QED  BY <3>1, <3>2
  <2> QED  BY <2>4, <2>5 DEF Promises, HiddenBehindNewer, NoVisibleTwins
<1>6. ASSUME NEW p \in Procs, NEW i \in Ids, NEW row \in Rows,
             UpsertSelect(p, i, row)
      PROVE  Promises'
  BY <1>2, <1>6 DEF UpsertSelect
<1>7. ASSUME NEW p \in Procs,
             DedupSelect(p) \/ DedupReset(p) \/ DedupApply(p) \/ Exit(p)
      PROVE  Promises'
  BY <1>2, <1>7 DEF DedupSelect, DedupReset, DedupApply, Exit
<1> QED
  BY <1>3, <1>4, <1>5, <1>6, <1>7 DEF Next, UpsertStep, DedupStep

-----------------------------------------------------------------------------
(* The inductive invariant: types, soundness of the passes in flight, and  *)
(* the promises that rest on it when such a pass is committed.             *)
IInv == TypeOK /\ PassSound /\ Promises

(* An empty table keeps every promise.                                     *)
LEMMA InitIInv == Init => IInv
<1> SUFFICES ASSUME Init PROVE IInv
  OBVIOUS
<1>1. TypeOK
  BY DEF Init, VitrineInit, TypeOK, VitrineTypeOK, ProcState, Idle
<1>2. PassSound
  BY DEF Init, PassSound, InDedup, Idle
<1>3. Promises
  BY DEF Init, VitrineInit, Promises, HiddenBehindNewer, NoVisibleTwins
<1> QED  BY <1>1, <1>2, <1>3 DEF IInv

(* The types, the soundness of passes and the promises are inductive       *)
(* together.                                                               *)
LEMMA NextIInv ==
    ASSUME ColumnsIndependent
    PROVE  IInv /\ [Next]_vars => IInv'
<1> SUFFICES ASSUME IInv, [Next]_vars PROVE IInv'
  OBVIOUS
<1>1. CASE Next
  <2>1. TypeOK'
    BY <1>1, TypeUpsert, TypeInsert, TypeUpdate, TypeDedup
       DEF IInv, Next, UpsertStep, DedupStep
  <2>2. PassSound' /\ Promises'
    BY <1>1, PassStep, PromisesStep DEF IInv
  <2> QED  BY <2>1, <2>2 DEF IInv
<1>2. CASE UNCHANGED vars
  BY <1>2 DEF vars, IInv, TypeOK, VitrineTypeOK, PassSound, PassOK, InDedup, Promises,
              HiddenBehindNewer, NoVisibleTwins
<1> QED  BY <1>1, <1>2

(* The strengthened invariant holds in every behaviour.                    *)
LEMMA SpecIInv ==
    ASSUME ColumnsIndependent
    PROVE  Spec => []IInv
<1>1. IInv /\ [Next]_vars => IInv'
  BY NextIInv
<1> QED  BY InitIInv, <1>1, PTL DEF Spec

(* Types.                                                                  *)
THEOREM CatalogTypes ==
    ASSUME ColumnsIndependent
    PROVE  Spec => []TypeOK
<1>1. IInv => TypeOK
  BY DEF IInv
<1>2. Spec => []IInv
  BY SpecIInv
<1> QED  BY <1>1, <1>2, PTL

(* However processes interleave, whatever pass is in flight may be         *)
(* committed without hiding a car it should not hide.                      *)
THEOREM CatalogPassSound ==
    ASSUME ColumnsIndependent
    PROVE  Spec => []PassSound
<1>1. IInv => PassSound
  BY DEF IInv
<1>2. Spec => []IInv
  BY SpecIInv
<1> QED  BY <1>1, <1>2, PTL

(* However processes interleave, a row is hidden only behind a newer       *)
(* visible listing of the same car, unless one of the two was just         *)
(* written.                                                                *)
THEOREM CatalogHiddenBehindNewer ==
    ASSUME ColumnsIndependent
    PROVE  Spec => []HiddenBehindNewer
<1>1. IInv => HiddenBehindNewer
  BY DEF IInv, Promises
<1>2. Spec => []IInv
  BY SpecIInv
<1> QED  BY <1>1, <1>2, PTL

(* However processes interleave, two visible rows share a complete key     *)
(* only if one of them was just written.                                   *)
THEOREM CatalogNoVisibleTwins ==
    ASSUME ColumnsIndependent
    PROVE  Spec => []NoVisibleTwins
<1>1. IInv => NoVisibleTwins
  BY DEF IInv, Promises
<1>2. Spec => []IInv
  BY SpecIInv
<1> QED  BY <1>1, <1>2, PTL

-----------------------------------------------------------------------------
(* The refinement.  A pass after whose SELECT nothing was written still    *)
(* has the winners of the present table.                                   *)
WinnersCurrent ==
    \A p \in Procs : InDedup(p) /\ missed[p] = {} => proc[p].winners = Primaries(cars)

(* A write is missed by every pass in flight.                              *)
LEMMA WriteCurrent ==
    ASSUME TypeOK, WinnersCurrent, NEW p \in Procs, NEW i \in Ids, NEW row \in Rows,
           Write(i, row), proc' = [proc EXCEPT ![p] = Idle]
    PROVE  WinnersCurrent'
<1> SUFFICES ASSUME NEW q \in Procs, InDedup(q)'
             PROVE  missed'[q] # {}
  BY DEF WinnersCurrent
<1>1. InDedup(q)
  BY DEF InDedup, Idle, TypeOK, VitrineTypeOK
<1> QED  BY <1>1, WriteEffect

(* One case per action; only a SELECT computes winners.                    *)
LEMMA NextCurrent ==
    ASSUME ColumnsIndependent, TypeOK, WinnersCurrent, [Next]_vars
    PROVE  WinnersCurrent'
<1>1. ASSUME NEW p \in Procs, Insert(p) PROVE WinnersCurrent'
  <2>1. proc[p].id \in Ids /\ proc[p].row \in Rows
    BY <1>1, ProcShape DEF Insert
  <2>2. CASE proc[p].id \notin DOMAIN cars
    BY <1>1, <2>1, <2>2, WriteCurrent DEF Insert
  <2>3. CASE proc[p].id \in DOMAIN cars
    BY <1>1, <2>3 DEF Insert, WinnersCurrent, InDedup, Broken, TypeOK, VitrineTypeOK
  <2> QED  BY <2>2, <2>3
<1>2. ASSUME NEW p \in Procs, Update(p) PROVE WinnersCurrent'
  <2> DEFINE row == Merge(cars[proc[p].id], proc[p].loaded, proc[p].row)
  <2>1. proc[p].id \in Ids /\ row \in Rows
    BY <1>2, ProcShape DEF ColumnsIndependent, Update, TypeOK, VitrineTypeOK
  <2>2. Write(proc[p].id, row) /\ proc' = [proc EXCEPT ![p] = Idle]
    BY <1>2 DEF Update
  <2> HIDE DEF row
  <2> QED  BY <2>1, <2>2, WriteCurrent
<1>3. ASSUME NEW p \in Procs, DedupSelect(p) PROVE WinnersCurrent'
  <2>1. proc'[p].winners = Primaries(cars) /\ cars' = cars
    BY <1>3 DEF DedupSelect, TypeOK, VitrineTypeOK
  <2>2. \A q \in Procs \ {p} : proc'[q] = proc[q] /\ missed'[q] = missed[q]
    BY <1>3 DEF DedupSelect, TypeOK, VitrineTypeOK
  <2>3. Primaries(cars)' = Primaries(cars)
    BY <2>1
  <2> QED  BY <2>1, <2>2, <2>3 DEF WinnersCurrent, InDedup
<1>4. ASSUME NEW p \in Procs, DedupReset(p) \/ DedupApply(p) PROVE WinnersCurrent'
  <2>1. /\ InDedup(p) /\ proc'[p].winners = proc[p].winners
        /\ UNCHANGED <<cars, missed>>
    <3>1. p \in DOMAIN proc
      BY DEF TypeOK, VitrineTypeOK
    <3>2. CASE DedupReset(p)
      BY <3>1, <3>2 DEF DedupReset, InDedup
    <3>3. CASE DedupApply(p)
      <4>1. /\ proc[p].at = "waiting" /\ UNCHANGED <<cars, missed>>
            /\ proc' = [proc EXCEPT ![p] = [proc[p] EXCEPT !.at = "applied"]]
        BY <3>3 DEF DedupApply
      <4>2. proc[p] \in [at : {"waiting", "applied"}, winners : SUBSET Ids, rows : SUBSET Ids]
        BY <4>1, ProcShape
      <4>3. [proc[p] EXCEPT !.at = "applied"].winners = proc[p].winners
        BY <4>2
      <4> QED  BY <3>1, <4>1, <4>3 DEF InDedup
    <3> QED  BY <1>4, <3>2, <3>3
  <2>2. \A q \in Procs \ {p} : proc'[q] = proc[q]
    BY <1>4 DEF DedupReset, DedupApply, TypeOK, VitrineTypeOK
  <2>3. Primaries(cars)' = Primaries(cars)
    BY <2>1
  <2> QED  BY <2>1, <2>2, <2>3 DEF WinnersCurrent, InDedup
<1>5. ASSUME NEW p \in Procs, DedupCommit(p) \/ Exit(p) PROVE WinnersCurrent'
  <2>1. proc'[p] = Idle /\ cars' = cars
    BY <1>5 DEF DedupCommit, Exit, TypeOK, VitrineTypeOK
  <2>2. \A q \in Procs \ {p} : proc'[q] = proc[q] /\ missed'[q] = missed[q]
    BY <1>5 DEF DedupCommit, Exit, TypeOK, VitrineTypeOK
  <2>3. Primaries(cars)' = Primaries(cars)
    BY <2>1
  <2> QED  BY <2>1, <2>2, <2>3 DEF WinnersCurrent, InDedup, Idle
<1>6. ASSUME NEW p \in Procs, NEW i \in Ids, NEW row \in Rows, UpsertSelect(p, i, row)
      PROVE  WinnersCurrent'
  <2>1. proc'[p].at \in {"insert", "update"} /\ UNCHANGED <<cars, missed>>
    BY <1>6 DEF UpsertSelect, TypeOK, VitrineTypeOK
  <2>2. \A q \in Procs \ {p} : proc'[q] = proc[q]
    BY <1>6 DEF UpsertSelect, TypeOK, VitrineTypeOK
  <2>3. Primaries(cars)' = Primaries(cars)
    BY <2>1
  <2> QED  BY <2>1, <2>2, <2>3 DEF WinnersCurrent, InDedup
<1>7. CASE UNCHANGED vars
  <2>1. Primaries(cars)' = Primaries(cars)
    BY <1>7 DEF vars
  <2> QED  BY <1>7, <2>1 DEF vars, WinnersCurrent, InDedup
<1> QED
  BY <1>1, <1>2, <1>3, <1>4, <1>5, <1>6, <1>7 DEF Next, UpsertStep, DedupStep

VitrineStep == \/ [VitrineNext]_vitrineVars
               \/ \E p \in Procs : Disturbed(p) /\ (Update(p) \/ DedupCommit(p))

(* An INSERT, or an UPDATE of a row that is as it was loaded, is an upsert *)
(* of the vitrine.                                                         *)
LEMMA UpsertMaps ==
    ASSUME ColumnsIndependent, TypeOK, NEW p \in Procs, Insert(p) \/ Update(p)
    PROVE  VitrineStep
<1>1. CASE Insert(p)
  <2>1. proc[p].id \in Ids /\ proc[p].row \in Rows
    BY <1>1, ProcShape DEF Insert
  <2>2. CASE proc[p].id \in DOMAIN cars
    BY <1>1, <2>2 DEF Insert, VitrineStep, vitrineVars
  <2>3. CASE proc[p].id \notin DOMAIN cars
    <3>1. Upsert(proc[p].id, proc[p].row)
      BY <1>1, <2>3 DEF Insert, Write, Upsert
    <3> QED  BY <2>1, <3>1 DEF VitrineStep, VitrineNext
  <2> QED  BY <2>2, <2>3
<1>2. CASE Update(p) /\ ~Disturbed(p)
  <2>1. /\ proc[p].id \in Ids /\ proc[p].id \in DOMAIN cars
        /\ proc[p].row \in Rows /\ proc[p].loaded \in Rows
        /\ cars[proc[p].id] = proc[p].loaded
    BY <1>2, ProcShape DEF Update, Disturbed
  <2>2. Merge(cars[proc[p].id], proc[p].loaded, proc[p].row) = proc[p].row
    BY <2>1 DEF ColumnsIndependent
  <2>3. Write(proc[p].id, proc[p].row) /\ visible' = visible
    BY <1>2, <2>2 DEF Update
  <2>4. Upsert(proc[p].id, proc[p].row)
    BY <2>1, <2>3 DEF Write, Upsert
  <2> QED  BY <2>1, <2>4 DEF VitrineStep, VitrineNext
<1>3. CASE Update(p) /\ Disturbed(p)
  BY <1>3 DEF VitrineStep
<1> QED  BY <1>1, <1>2, <1>3

(* The commit of a pass that missed nothing is a whole pass at once.       *)
LEMMA CommitMaps ==
    ASSUME TypeOK, PassSound, WinnersCurrent, NEW p \in Procs, DedupCommit(p)
    PROVE  VitrineStep
<1>1. CASE Disturbed(p)
  BY <1>1 DEF VitrineStep
<1>2. CASE ~Disturbed(p)
  <2>1. proc[p].at = "applied" /\ missed[p] = {} /\ InDedup(p)
    BY <1>2 DEF DedupCommit, Disturbed, InDedup
  <2>2. proc[p].winners = Primaries(cars)
    BY <2>1 DEF WinnersCurrent
  <2>3. proc[p].winners \subseteq proc[p].rows /\ DOMAIN cars \subseteq proc[p].rows
    BY <2>1 DEF PassSound, PassOK
  <2>4. visible' = Primaries(cars) /\ touched' = {} /\ cars' = cars
    BY <2>1, <2>2, <2>3 DEF DedupCommit, TypeOK, VitrineTypeOK
  <2>5. RunDedup
    BY <2>4 DEF RunDedup
  <2> QED  BY <2>5 DEF VitrineStep, VitrineNext
<1> QED  BY <1>1, <1>2

LEMMA NextMaps ==
    ASSUME ColumnsIndependent, IInv, WinnersCurrent, [Next]_vars
    PROVE  VitrineStep
<1>1. ASSUME NEW p \in Procs,
             \/ \E i \in Ids, row \in Rows : UpsertSelect(p, i, row)
             \/ DedupSelect(p) \/ DedupReset(p) \/ DedupApply(p) \/ Exit(p)
      PROVE  VitrineStep
  BY <1>1 DEF UpsertSelect, DedupSelect, DedupReset, DedupApply, Exit, VitrineStep, vitrineVars
<1>2. CASE UNCHANGED vars
  BY <1>2 DEF vars, VitrineStep, vitrineVars
<1> QED  BY <1>1, <1>2, UpsertMaps, CommitMaps DEF IInv, Next, UpsertStep, DedupStep

(* As long as no process gets in the way of another, the statements of     *)
(* upsert_car and run_dedup amount to single changes of the vitrine.       *)
THEOREM CatalogImplementsVitrine ==
    ASSUME ColumnsIndependent
    PROVE  Spec => ImplementsVitrine
<1>1. Init => VitrineInit /\ WinnersCurrent
  BY DEF Init, WinnersCurrent, InDedup, Idle
<1>2. IInv /\ WinnersCurrent /\ [Next]_vars => WinnersCurrent'
  BY NextCurrent DEF IInv
<1>3. IInv /\ WinnersCurrent /\ [Next]_vars => [VitrineStep]_vars
  BY NextMaps
<1>4. ImplementsVitrine <=> VitrineInit /\ [][VitrineStep]_vars
  BY DEF ImplementsVitrine, VitrineStep
<1>5. Spec => []IInv
  BY SpecIInv
<1> QED  BY <1>1, <1>2, <1>3, <1>4, <1>5, PTL DEF Spec

-----------------------------------------------------------------------------
(* int(), \d+ and str() on the texts that payloads are made of: the        *)
(* parsers of parsers/details.py, as Listing has them.                     *)

(* The ten digits.                                                         *)
LEMMA DigitsAre == Digits = {"0", "1", "2", "3", "4", "5", "6", "7", "8", "9"}
<1>1. /\ DOMAIN DigitSeq = 1 .. 10
      /\ DigitSeq[1] = "0" /\ DigitSeq[2] = "1" /\ DigitSeq[3] = "2" /\ DigitSeq[4] = "3"
      /\ DigitSeq[5] = "4" /\ DigitSeq[6] = "5" /\ DigitSeq[7] = "6" /\ DigitSeq[8] = "7"
      /\ DigitSeq[9] = "8" /\ DigitSeq[10] = "9"
  BY DEF DigitSeq
<1>2. \A d \in 1 .. 10 : \/ d = 1 \/ d = 2 \/ d = 3 \/ d = 4 \/ d = 5
                         \/ d = 6 \/ d = 7 \/ d = 8 \/ d = 9 \/ d = 10
  OBVIOUS
<1>3. \A c \in Digits : \E d \in 1 .. 10 : DigitSeq[d] = c
  BY <1>1 DEF Digits, Range
<1>4. \A d \in 1 .. 10 : DigitSeq[d] \in Digits
  BY <1>1 DEF Digits, Range
<1>5. \A c \in Digits : c \in {"0", "1", "2", "3", "4", "5", "6", "7", "8", "9"}
  BY <1>1, <1>2, <1>3
<1>6. \A c \in {"0", "1", "2", "3", "4", "5", "6", "7", "8", "9"} : c \in Digits
  <2>1. 1 \in 1 .. 10 /\ 2 \in 1 .. 10 /\ 3 \in 1 .. 10 /\ 4 \in 1 .. 10 /\ 5 \in 1 .. 10
    OBVIOUS
  <2>2. 6 \in 1 .. 10 /\ 7 \in 1 .. 10 /\ 8 \in 1 .. 10 /\ 9 \in 1 .. 10 /\ 10 \in 1 .. 10
    OBVIOUS
  <2> QED  BY <1>1, <1>4, <2>1, <2>2
<1> QED  BY <1>5, <1>6

(* A digit is told by its value.                                           *)
LEMMA DigitValues ==
    /\ \A c \in Digits : DigitOf(c) \in 0 .. 9 /\ DigitSeq[DigitOf(c) + 1] = c
    /\ DigitOf("0") = 0 /\ DigitOf("1") = 1 /\ DigitOf("2") = 2 /\ DigitOf("9") = 9
<1>1. \A c \in Digits : \E d \in 1 .. 10 : DigitSeq[d] = c
  BY DEF Digits, DigitSeq, Range
<1>2. ASSUME NEW c \in Digits
      PROVE  \E d \in 1 .. 10 : DigitSeq[d] = c /\ DigitOf(c) = d - 1
  <2> DEFINE d == CHOOSE d \in 1 .. 10 : DigitSeq[d] = c
  <2>1. d \in 1 .. 10 /\ DigitSeq[d] = c
    BY <1>1
  <2> QED  BY <2>1 DEF DigitOf
<1>3. ASSUME NEW c \in Digits
      PROVE  DigitOf(c) \in 0 .. 9 /\ DigitSeq[DigitOf(c) + 1] = c
  <2>1. PICK d \in 1 .. 10 : DigitSeq[d] = c /\ DigitOf(c) = d - 1
    BY <1>2
  <2>2. d - 1 \in 0 .. 9 /\ (d - 1) + 1 = d
    OBVIOUS
  <2> QED  BY <2>1, <2>2
<1>4. /\ DigitSeq[1] = "0" /\ DigitSeq[2] = "1" /\ DigitSeq[3] = "2" /\ DigitSeq[4] = "3"
      /\ DigitSeq[5] = "4" /\ DigitSeq[6] = "5" /\ DigitSeq[7] = "6" /\ DigitSeq[8] = "7"
      /\ DigitSeq[9] = "8" /\ DigitSeq[10] = "9"
  BY DEF DigitSeq
<1>5. \A d \in 1 .. 10 : /\ DigitSeq[d] = "0" => d = 1
                         /\ DigitSeq[d] = "1" => d = 2
                         /\ DigitSeq[d] = "2" => d = 3
                         /\ DigitSeq[d] = "9" => d = 10
  <2> SUFFICES ASSUME NEW d \in 1 .. 10
               PROVE  /\ DigitSeq[d] = "0" => d = 1
                      /\ DigitSeq[d] = "1" => d = 2
                      /\ DigitSeq[d] = "2" => d = 3
                      /\ DigitSeq[d] = "9" => d = 10
    OBVIOUS
  <2>1. \/ d = 1 \/ d = 2 \/ d = 3 \/ d = 4 \/ d = 5
        \/ d = 6 \/ d = 7 \/ d = 8 \/ d = 9 \/ d = 10
    OBVIOUS
  <2> QED  BY <1>4, <2>1
<1>6. {"0", "1", "2", "9"} \subseteq Digits
  BY DigitsAre
<1>7. /\ DigitOf("0") = 0 /\ DigitOf("1") = 1 /\ DigitOf("2") = 2 /\ DigitOf("9") = 9
  <2>1. PICK d \in 1 .. 10 : DigitSeq[d] = "0" /\ DigitOf("0") = d - 1
    BY <1>2, <1>6
  <2>2. PICK e \in 1 .. 10 : DigitSeq[e] = "1" /\ DigitOf("1") = e - 1
    BY <1>2, <1>6
  <2>3. PICK f \in 1 .. 10 : DigitSeq[f] = "2" /\ DigitOf("2") = f - 1
    BY <1>2, <1>6
  <2>4. PICK g \in 1 .. 10 : DigitSeq[g] = "9" /\ DigitOf("9") = g - 1
    BY <1>2, <1>6
  <2>5. d = 1 /\ e = 2 /\ f = 3 /\ g = 10
    BY <1>5, <2>1, <2>2, <2>3, <2>4
  <2> QED  BY <2>1, <2>2, <2>3, <2>4, <2>5
<1> QED  BY <1>3, <1>7

(* No mark of a date or a number is a digit, nor one of another kind.      *)
LEMMA OtherMarks ==
    /\ KrYear \notin Digits /\ KrMonth \notin Digits /\ " " \notin Digits
    /\ DateMarks \cap Digits = {} /\ Separators \cap Digits = {}
    /\ KrYear \notin DateMarks /\ KrMonth \notin DateMarks
    /\ KrYear # KrMonth
BY DigitsAre DEF KrYear, KrMonth, DateMarks, Separators

(* The values of the leading digits of s.                                  *)
IntUpTo(s, f) ==
    f = [n \in 0 .. Len(s) |-> IF n = 0 THEN 0 ELSE 10 * f[n - 1] + DigitOf(s[n])]

(* IntOf is what it is defined by: the recursive function exists.          *)
LEMMA IntOfIsRecursive ==
    ASSUME NEW s \in Seq(Digits)
    PROVE  \E f : /\ IntOf(s) = f[Len(s)]
                  /\ f[0] = 0
                  /\ \A n \in 1 .. Len(s) : f[n] = 10 * f[n - 1] + DigitOf(s[n])
<1> DEFINE N == Len(s)
           step == [x \in Nat \X (1 .. N) |-> 10 * x[1] + DigitOf(s[x[2]])]
<1>1. N \in Nat /\ \A n \in 1 .. N : s[n] \in Digits /\ DigitOf(s[n]) \in 0 .. 9
  BY DigitValues
<1>2. \A x \in Nat, n \in 1 .. N : step[<<x, n>>] = 10 * x + DigitOf(s[n])
  OBVIOUS
<1>3. \A x \in Nat, n \in 1 .. N : 10 * x + DigitOf(s[n]) \in Nat
  BY <1>1
<1> HIDE DEF step
<1>4. PICK f : Recursive(f, 0, step, Nat, N)
  <2>1. Stays(step, Nat, N)
    BY <1>2, <1>3 DEF Stays
  <2> QED  BY <1>1, <2>1, RecursionExists
<1>5. f \in [0 .. N -> Nat] /\ f[0] = 0 /\ \A n \in 1 .. N : f[n] = step[<<f[n - 1], n>>]
  BY <1>4 DEF Recursive
<1>6. ASSUME NEW n \in 0 .. N
      PROVE  f[n] = IF n = 0 THEN 0 ELSE 10 * f[n - 1] + DigitOf(s[n])
  <2>1. n # 0 => n \in 1 .. N /\ f[n - 1] \in Nat
    BY <1>5
  <2> QED  BY <1>2, <1>5, <2>1
<1>7. IntUpTo(s, f)
  <2>1. f = [n \in 0 .. N |-> f[n]]
    BY <1>5
  <2> QED  BY <1>6, <2>1 DEF IntUpTo
<1> DEFINE F == CHOOSE g : IntUpTo(s, g)
<1>8. IntOf(s) = F[N]
  BY DEF IntOf, IntUpTo
<1>9. IntUpTo(s, F)
  BY <1>7
<1> HIDE DEF F
<1>10. F[0] = 0 /\ \A n \in 1 .. N : F[n] = 10 * F[n - 1] + DigitOf(s[n])
  BY <1>1, <1>9 DEF IntUpTo
<1> QED  BY <1>8, <1>10

(* The value of one digit, of two and of four.                             *)
LEMMA IntOfOne ==
    ASSUME NEW a \in Digits
    PROVE  IntOf(<<a>>) = DigitOf(a)
<1>1. <<a>> \in Seq(Digits) /\ Len(<<a>>) = 1 /\ <<a>>[1] = a /\ DigitOf(a) \in 0 .. 9
  BY DigitValues
<1>2. PICK f : /\ IntOf(<<a>>) = f[1]
               /\ f[0] = 0
               /\ \A n \in 1 .. 1 : f[n] = 10 * f[n - 1] + DigitOf(<<a>>[n])
  BY <1>1, IntOfIsRecursive
<1>3. f[1] = 10 * f[0] + DigitOf(a)
  BY <1>1, <1>2
<1> QED  BY <1>1, <1>2, <1>3

LEMMA IntOfTwo ==
    ASSUME NEW s \in Seq(Digits), Len(s) = 2
    PROVE  IntOf(s) = 10 * DigitOf(s[1]) + DigitOf(s[2]) /\ IntOf(s) \in 0 .. 99
<1>1. \A k \in 1 .. 2 : s[k] \in Digits
  OBVIOUS
<1>2. \A k \in 1 .. 2 : DigitOf(s[k]) \in 0 .. 9
  BY <1>1, DigitValues
<1>3. PICK f : /\ IntOf(s) = f[2]
               /\ f[0] = 0
               /\ \A k \in 1 .. 2 : f[k] = 10 * f[k - 1] + DigitOf(s[k])
  BY IntOfIsRecursive
<1>4. PICK a \in 0 .. 9 : a = DigitOf(s[1])
  BY <1>2
<1>5. PICK b \in 0 .. 9 : b = DigitOf(s[2])
  BY <1>2
<1>6. f[1] = a
  <2>1. f[1] = 10 * f[0] + a
    BY <1>3, <1>4
  <2> QED  BY <2>1, <1>3
<1>7. f[2] = 10 * a + b
  <2>1. f[2] = 10 * f[1] + b
    BY <1>3, <1>5
  <2> QED  BY <2>1, <1>6
<1>8. 10 * a + b \in 0 .. 99
  OBVIOUS
<1> QED  BY <1>3, <1>4, <1>5, <1>7, <1>8

LEMMA IntOfFour ==
    ASSUME NEW s \in Seq(Digits), Len(s) = 4
    PROVE  IntOf(s) = 1000 * DigitOf(s[1]) + 100 * DigitOf(s[2])
                        + 10 * DigitOf(s[3]) + DigitOf(s[4])
<1>1. \A k \in 1 .. 4 : s[k] \in Digits
  OBVIOUS
<1>2. \A k \in 1 .. 4 : DigitOf(s[k]) \in 0 .. 9
  BY <1>1, DigitValues
<1>3. PICK f : /\ IntOf(s) = f[4]
               /\ f[0] = 0
               /\ \A k \in 1 .. 4 : f[k] = 10 * f[k - 1] + DigitOf(s[k])
  BY IntOfIsRecursive
<1>4. PICK a \in 0 .. 9 : a = DigitOf(s[1])
  BY <1>2
<1>5. PICK b \in 0 .. 9 : b = DigitOf(s[2])
  BY <1>2
<1>6. PICK c \in 0 .. 9 : c = DigitOf(s[3])
  BY <1>2
<1>7. PICK d \in 0 .. 9 : d = DigitOf(s[4])
  BY <1>2
<1>8. f[1] = a
  <2>1. f[1] = 10 * f[0] + a
    BY <1>3, <1>4
  <2> QED  BY <2>1, <1>3
<1>9. f[2] = 10 * a + b
  <2>1. f[2] = 10 * f[1] + b
    BY <1>3, <1>5
  <2> QED  BY <2>1, <1>8
<1>10. f[3] = 100 * a + 10 * b + c
  <2>1. f[3] = 10 * f[2] + c
    BY <1>3, <1>6
  <2> QED  BY <2>1, <1>9
<1>11. f[4] = 1000 * a + 100 * b + 10 * c + d
  <2>1. f[4] = 10 * f[3] + d
    BY <1>3, <1>7
  <2> QED  BY <2>1, <1>10
<1> QED  BY <1>3, <1>4, <1>5, <1>6, <1>7, <1>11

(* The digit of n at a power of ten.                                       *)
Place(n, p) == (n \div p) % 10

(* The six digits of a number are those it was written with.               *)
LEMMA PlacesOfSix ==
    ASSUME NEW s \in Seq(Digits), Len(s) = 6
    PROVE  LET n == IntOf(s) IN
           /\ Place(n, 100000) = DigitOf(s[1]) /\ Place(n, 10000) = DigitOf(s[2])
           /\ Place(n, 1000) = DigitOf(s[3]) /\ Place(n, 100) = DigitOf(s[4])
           /\ Place(n, 10) = DigitOf(s[5]) /\ Place(n, 1) = DigitOf(s[6])
<1>1. \A k \in 1 .. 6 : s[k] \in Digits
  BY ElementOfSeq
<1>2. \A k \in 1 .. 6 : DigitOf(s[k]) \in 0 .. 9
  BY <1>1, DigitValues
<1>3. PICK f : /\ IntOf(s) = f[6]
               /\ f[0] = 0
               /\ \A k \in 1 .. 6 : f[k] = 10 * f[k - 1] + DigitOf(s[k])
  BY IntOfIsRecursive
<1>4. PICK a \in 0 .. 9 : a = DigitOf(s[1])
  BY <1>2
<1>5. PICK b \in 0 .. 9 : b = DigitOf(s[2])
  BY <1>2
<1>6. PICK c \in 0 .. 9 : c = DigitOf(s[3])
  BY <1>2
<1>7. PICK d \in 0 .. 9 : d = DigitOf(s[4])
  BY <1>2
<1>8. PICK e \in 0 .. 9 : e = DigitOf(s[5])
  BY <1>2
<1>9. PICK g \in 0 .. 9 : g = DigitOf(s[6])
  BY <1>2
<1>10. f[1] = a
  <2>1. f[1] = 10 * f[0] + a
    BY <1>3, <1>4
  <2> QED  BY <2>1, <1>3
<1>11. f[2] = 10 * a + b
  <2>1. f[2] = 10 * f[1] + b
    BY <1>3, <1>5
  <2> QED  BY <2>1, <1>10
<1>12. f[3] = 100 * a + 10 * b + c
  <2>1. f[3] = 10 * f[2] + c
    BY <1>3, <1>6
  <2> QED  BY <2>1, <1>11
<1>13. f[4] = 1000 * a + 100 * b + 10 * c + d
  <2>1. f[4] = 10 * f[3] + d
    BY <1>3, <1>7
  <2> QED  BY <2>1, <1>12
<1>14. f[5] = 10000 * a + 1000 * b + 100 * c + 10 * d + e
  <2>1. f[5] = 10 * f[4] + e
    BY <1>3, <1>8
  <2> QED  BY <2>1, <1>13
<1>15. f[6] = 100000 * a + 10000 * b + 1000 * c + 100 * d + 10 * e + g
  <2>1. f[6] = 10 * f[5] + g
    BY <1>3, <1>9
  <2> QED  BY <2>1, <1>14
<1>16. PICK n \in Nat :
          n = f[6] /\ n = 100000 * a + 10000 * b + 1000 * c + 100 * d + 10 * e + g
  BY <1>15
<1>17. Place(n, 100000) = a
  <2>1. n \div 100000 = a
    BY <1>16
  <2>2. (a) % 10 = a
    OBVIOUS
  <2> QED  BY <2>1, <2>2 DEF Place
<1>18. Place(n, 10000) = b
  <2>1. n \div 10000 = 10 * a + b
    BY <1>16
  <2>2. (10 * a + b) % 10 = b
    OBVIOUS
  <2> QED  BY <2>1, <2>2 DEF Place
<1>19. Place(n, 1000) = c
  <2>1. n \div 1000 = 100 * a + 10 * b + c
    BY <1>16
  <2>2. (100 * a + 10 * b + c) % 10 = c
    OBVIOUS
  <2> QED  BY <2>1, <2>2 DEF Place
<1>20. Place(n, 100) = d
  <2>1. n \div 100 = 1000 * a + 100 * b + 10 * c + d
    BY <1>16
  <2>2. (1000 * a + 100 * b + 10 * c + d) % 10 = d
    OBVIOUS
  <2> QED  BY <2>1, <2>2 DEF Place
<1>21. Place(n, 10) = e
  <2>1. n \div 10 = 10000 * a + 1000 * b + 100 * c + 10 * d + e
    BY <1>16
  <2>2. (10000 * a + 1000 * b + 100 * c + 10 * d + e) % 10 = e
    OBVIOUS
  <2> QED  BY <2>1, <2>2 DEF Place
<1>22. Place(n, 1) = g
  <2>1. n \div 1 = 100000 * a + 10000 * b + 1000 * c + 100 * d + 10 * e + g
    BY <1>16
  <2>2. (100000 * a + 10000 * b + 1000 * c + 100 * d + 10 * e + g) % 10 = g
    OBVIOUS
  <2> QED  BY <2>1, <2>2 DEF Place
<1>23. IntOf(s) = n
  BY <1>3, <1>16
<1> QED
  BY <1>4, <1>5, <1>6, <1>7, <1>8, <1>9,
     <1>17, <1>18, <1>19, <1>20, <1>21, <1>22, <1>23

(* So str() of a number with six digits is its digits again.               *)
LEMMA StrOfNumber ==
    ASSUME NEW s \in Seq(Digits), Len(s) = 6
    PROVE  Str(Number(IntOf(s))) = s
<1>1. \A k \in 1 .. 6 : s[k] \in Digits
  BY ElementOfSeq
<1>2. s = [k \in 1 .. 6 |-> s[k]]
  OBVIOUS
<1> DEFINE n == IntOf(s)
           power == <<100000, 10000, 1000, 100, 10, 1>>
<1>3. \A k \in 1 .. 6 : DigitSeq[DigitOf(s[k]) + 1] = s[k]
  BY <1>1, DigitValues
<1>4. Str(Number(n)) = [k \in 1 .. 6 |-> DigitSeq[Place(n, power[k]) + 1]]
  BY DEF Str, Number, Place
<1>5. /\ power[1] = 100000 /\ power[2] = 10000 /\ power[3] = 1000
      /\ power[4] = 100 /\ power[5] = 10 /\ power[6] = 1
  OBVIOUS
<1> HIDE DEF n, power
<1>6. /\ Place(n, 100000) = DigitOf(s[1]) /\ Place(n, 10000) = DigitOf(s[2])
      /\ Place(n, 1000) = DigitOf(s[3]) /\ Place(n, 100) = DigitOf(s[4])
      /\ Place(n, 10) = DigitOf(s[5]) /\ Place(n, 1) = DigitOf(s[6])
  BY PlacesOfSix DEF n
<1>7. ASSUME NEW k \in 1 .. 6 PROVE Place(n, power[k]) = DigitOf(s[k])
  <2>1. k = 1 \/ k = 2 \/ k = 3 \/ k = 4 \/ k = 5 \/ k = 6
    OBVIOUS
  <2> QED  BY <1>5, <1>6, <2>1
<1>8. Str(Number(n)) = s
  BY <1>2, <1>3, <1>4, <1>7
<1> QED  BY <1>8 DEF n

(* \d+ takes the digits that stand at k, up to the next other character.   *)
LEMMA DigitRunIs ==
    ASSUME NEW S, NEW s \in Seq(S), NEW t \in Seq(Digits), t \in Seq(S),
           NEW k, StandsAt(s, k, t),
           NEW most \in Nat, Len(t) > 0, Len(t) <= most,
           \/ Len(t) = most
           \/ k + Len(t) = Len(s) + 1
           \/ s[k + Len(t)] \notin Digits
    PROVE  DigitRun(s, k, most) = t
<1>1. /\ k \in Nat \ {0} /\ Len(t) \in Nat \ {0} /\ Len(s) \in Nat
      /\ k + Len(t) <= Len(s) + 1
      /\ \A i \in 1 .. Len(t) : s[k + i - 1] = t[i]
  BY DEF StandsAt
<1>2. PICK m \in Nat : m = k + Len(t) - 1 /\ k <= m /\ m <= Len(s) /\ m + 1 = k + Len(t)
  BY <1>1
<1> DEFINE ends == {j \in k .. Len(s) :
                      j - k < most /\ \A i \in k .. j : s[i] \in Digits}
<1>3. ASSUME NEW i \in k .. m PROVE s[i] \in Digits
  <2>1. PICK n \in 1 .. Len(t) : k + n - 1 = i
    <3>1. i - k + 1 \in 1 .. Len(t) /\ k + (i - k + 1) - 1 = i
      BY <1>1, <1>2
    <3> QED  BY <3>1
  <2>2. t[n] \in Digits
    BY ElementOfSeq
  <2> QED  BY <1>1, <2>1, <2>2
<1>4. m \in ends
  BY <1>1, <1>2, <1>3
<1>5. ASSUME NEW j \in ends PROVE j <= m
  <2> SUFFICES ASSUME ~(j <= m) PROVE FALSE
    OBVIOUS
  <2>1. m + 1 \in k .. j /\ j - k < most /\ j <= Len(s) /\ j \in Nat
    BY <1>1, <1>2
  <2>2. s[m + 1] \in Digits
    BY <2>1
  <2>3. ~(Len(t) = most) /\ ~(k + Len(t) = Len(s) + 1)
    BY <1>1, <1>2, <2>1
  <2> QED  BY <1>2, <2>2, <2>3
<1>6. Max(ends) = m
  <2>1. \A q \in ends : q \in Nat
    BY <1>1
  <2>2. \A q \in ends : (\A x \in ends : q >= x) => q = m
    BY <1>4, <1>5, <2>1
  <2>3. \A x \in ends : m >= x
    BY <1>5, <2>1
  <2> HIDE DEF ends
  <2> QED  BY <1>4, <2>2, <2>3 DEF Max
<1>7. SubSeq(s, k, m) = t
  BY <1>2, SubSeqAt
<1> QED  BY <1>4, <1>6, <1>7 DEF DigitRun

(* There is no run where there is no digit.                                *)
LEMMA NoDigitRun ==
    ASSUME NEW s, NEW k \in Nat, s[k] \notin Digits, NEW most
    PROVE  DigitRun(s, k, most) = <<>>
<1>1. ASSUME NEW j \in k .. Len(s) PROVE k \in k .. j
  OBVIOUS
<1> QED  BY <1>1 DEF DigitRun

(* A text of digits is one run.                                            *)
LEMMA WholeRun ==
    ASSUME NEW s \in Seq(Digits), NEW l \in Nat, Len(s) = l, l > 0
    PROVE  DigitRun(s, 1, l) = s /\ Min({k \in DOMAIN s : s[k] \in Digits}) = 1
<1>1. StandsAt(s, 1, s)
  <2>1. \A i \in 1 .. Len(s) : 1 + i - 1 = i
    OBVIOUS
  <2>2. \A i \in 1 .. Len(s) : s[1 + i - 1] = s[i]
    BY <2>1
  <2>3. 1 \in Nat \ {0} /\ 1 + Len(s) <= Len(s) + 1
    OBVIOUS
  <2> QED  BY <2>2, <2>3 DEF StandsAt
<1>2. DigitRun(s, 1, l) = s
  BY <1>1, DigitRunIs
<1> DEFINE starts == {k \in DOMAIN s : s[k] \in Digits}
<1>3. Min(starts) = 1
  <2>1. 1 \in DOMAIN s
    OBVIOUS
  <2>2. s[1] \in Digits
    BY <2>1, ElementOfSeq
  <2>3. 1 \in starts /\ starts \subseteq Nat /\ \A k \in starts : 1 <= k
    BY <2>1, <2>2
  <2> HIDE DEF starts
  <2> QED  BY <2>3, MinOfSet
<1> QED  BY <1>2, <1>3

-----------------------------------------------------------------------------
(* _parse_year_month and _to_int, on every way to write a month or a       *)
(* mileage.                                                                *)

(* The characters of a date.                                               *)
Characters == Digits \cup DateMarks \cup {KrYear, KrMonth, " "}

Blanks == {" "}

(* The last two digits of a year are enough to tell it.                    *)
LEMMA YearOfTwoDigits ==
    ASSUME NEW x, IsMonth(x)
    PROVE  LET yy == SubSeq(x.yyyy, 3, 4) IN
           /\ yy \in Seq(Digits) /\ Len(yy) = 2
           /\ IntOf(x.yyyy) = FullYear(IntOf(yy))
<1> DEFINE s == x.yyyy
           yy == SubSeq(s, 3, 4)
<1>1. /\ s \in Seq(Digits) /\ Len(s) = 4
      /\ SubSeq(s, 1, 2) = IF IntOf(yy) < 50 THEN <<"2", "0">> ELSE <<"1", "9">>
  BY DEF IsMonth
<1> HIDE DEF s
<1>2. /\ SubSeq(s, 1, 2)[1] = s[1] /\ SubSeq(s, 1, 2)[2] = s[2]
      /\ yy \in Seq(Digits) /\ Len(yy) = 2 /\ yy[1] = s[3] /\ yy[2] = s[4]
  <2>1. 1 + 1 = 2 /\ 3 + 1 = 4
    OBVIOUS
  <2> QED  BY <1>1, <2>1, SubSeqOfTwo
<1>3. \A k \in 1 .. 4 : DigitOf(s[k]) \in 0 .. 9
  BY <1>1, ElementOfSeq, DigitValues
<1>4. PICK c \in 0 .. 9 : c = DigitOf(s[3])
  BY <1>3
<1>5. PICK d \in 0 .. 9 : d = DigitOf(s[4])
  BY <1>3
<1> HIDE DEF yy
<1>6. IntOf(yy) = 10 * c + d
  BY <1>2, <1>4, <1>5, IntOfTwo
<1>7. IntOf(s) = 1000 * DigitOf(s[1]) + 100 * DigitOf(s[2]) + 10 * c + d
  BY <1>1, <1>4, <1>5, IntOfFour
<1>8. CASE IntOf(yy) < 50
  <2>1. s[1] = "2" /\ s[2] = "0"
    <3>1. SubSeq(s, 1, 2) = <<"2", "0">>
      BY <1>1, <1>8
    <3>2. <<"2", "0">>[1] = "2" /\ <<"2", "0">>[2] = "0"
      OBVIOUS
    <3> QED  BY <1>2, <3>1, <3>2
  <2>2. DigitOf(s[1]) = 2 /\ DigitOf(s[2]) = 0
    BY <2>1, DigitValues
  <2>3. IntOf(s) = 2000 + (10 * c + d)
    BY <1>7, <2>2
  <2> QED  BY <1>2, <1>6, <1>8, <2>3 DEF s, yy, FullYear
<1>9. CASE ~(IntOf(yy) < 50)
  <2>1. s[1] = "1" /\ s[2] = "9"
    <3>1. SubSeq(s, 1, 2) = <<"1", "9">>
      BY <1>1, <1>9
    <3>2. <<"1", "9">>[1] = "1" /\ <<"1", "9">>[2] = "9"
      OBVIOUS
    <3> QED  BY <1>2, <3>1, <3>2
  <2>2. DigitOf(s[1]) = 1 /\ DigitOf(s[2]) = 9
    BY <2>1, DigitValues
  <2>3. IntOf(s) = 1900 + (10 * c + d)
    BY <1>7, <2>2
  <2> QED  BY <1>2, <1>6, <1>9, <2>3 DEF s, yy, FullYear
<1> QED  BY <1>8, <1>9

(* A leading zero of a month may be left out.                              *)
LEMMA ShortMonth ==
    ASSUME NEW x, IsMonth(x), NEW m \in ShortMonths(x)
    PROVE  m \in Seq(Digits) /\ Len(m) \in 1 .. 2 /\ IntOf(m) = IntOf(x.mm)
<1>1. x.mm \in Seq(Digits) /\ Len(x.mm) = 2
  BY DEF IsMonth
<1>2. CASE m = x.mm
  BY <1>1, <1>2
<1>3. CASE x.mm[1] = "0" /\ m = <<x.mm[2]>>
  <2>1. x.mm[1] \in Digits /\ x.mm[2] \in Digits
    BY <1>1, ElementOfSeq
  <2>2. m \in Seq(Digits) /\ Len(m) = 1
    BY <1>3, <2>1
  <2>3. PICK d \in 0 .. 9 : d = DigitOf(x.mm[2])
    BY <2>1, DigitValues
  <2>4. IntOf(x.mm) = 10 * DigitOf(x.mm[1]) + DigitOf(x.mm[2])
    BY <1>1, IntOfTwo
  <2>5. DigitOf(x.mm[1]) = 0
    BY <1>3, DigitValues
  <2>6. IntOf(x.mm) = d
    BY <2>3, <2>4, <2>5
  <2>7. IntOf(m) = d
    BY <1>3, <2>1, <2>3, IntOfOne
  <2> QED  BY <2>2, <2>6, <2>7
<1> QED  BY <1>2, <1>3 DEF ShortMonths

(* The cap at 12 leaves a month alone.                                     *)
LEMMA CappedMonth ==
    ASSUME NEW n \in 1 .. 12
    PROVE  Min({n, 12}) = n
<1>1. n \in {n, 12} /\ {n, 12} \subseteq Nat /\ \A y \in {n, 12} : n <= y
  OBVIOUS
<1> QED  BY <1>1, MinOfSet

(* date() of a month.                                                      *)
LEMMA DateOf ==
    ASSUME NEW y, NEW n \in 1 .. 12
    PROVE  Date(y, n) = [year |-> y, month |-> n]
BY DEF Date

(* str() of a text.                                                        *)
LEMMA StrOfText ==
    ASSUME NEW t
    PROVE  Str(Text(t)) = t /\ Text(t) # Number(0) /\ (Text(t) = Text(<<>>) => t = <<>>)
<1>1. Text(t).type = "text" /\ Text(t).chars = t
  BY DEF Text
<1>2. Number(0).type = "number" /\ Text(<<>>).chars = <<>>
  BY DEF Number, Text
<1> QED  BY <1>1, <1>2 DEF Str

(* yyyymm: the parts of the text,                                          *)
LEMMA FourAndTwo ==
    ASSUME NEW y \in Seq(Digits), Len(y) = 4, NEW m \in Seq(Digits), Len(m) = 2
    PROVE  /\ y \o m \in Seq(Digits) /\ Len(y \o m) = 6 /\ y \o m # <<>>
           /\ StandsAt(y \o m, 1, y) /\ StandsAt(y \o m, 5, m)
           /\ SubSeq(y \o m, 1, 4) = y /\ SubSeq(y \o m, 5, 6) = m
<1> DEFINE s == y \o m
<1>1. /\ s \in Seq(Digits) /\ Len(s) = Len(y) + Len(m)
      /\ StandsAt(s, 1, y) /\ StandsAt(s, Len(y) + 1, m)
  BY ConcatAt
<1>2. Len(y) + Len(m) = 6 /\ Len(y) + 1 = 5 /\ Len(<<>>) = 0
  OBVIOUS
<1> HIDE DEF s
<1>3. SubSeq(s, 1, 1 + Len(y) - 1) = y /\ SubSeq(s, Len(y) + 1, Len(y) + 1 + Len(m) - 1) = m
  <2>1. Len(y) > 0 /\ Len(m) > 0
    OBVIOUS
  <2> QED  BY <1>1, <2>1, SubSeqAt
<1>4. 1 + Len(y) - 1 = 4 /\ Len(y) + 1 + Len(m) - 1 = 6
  OBVIOUS
<1>5. ASSUME s = <<>> PROVE FALSE
  <2>1. Len(s) = 0
    BY <1>5
  <2> QED  BY <1>1, <1>2, <2>1
<1> QED  BY <1>1, <1>2, <1>3, <1>4, <1>5 DEF s

(* and what is read from them,                                             *)
LEMMA CompactMonth ==
    ASSUME NEW y \in Seq(Digits), Len(y) = 4,
           NEW m \in Seq(Digits), Len(m) = 2, NEW n \in 1 .. 12, IntOf(m) = n,
           NEW v, Str(v) = y \o m, v # NULL, v # Number(0), v # Text(<<>>)
    PROVE  ParseYearMonth(v) = [year |-> IntOf(y), month |-> n]
<1> DEFINE s == y \o m
<1>1. s \in Seq(Digits) /\ Len(s) = 6 /\ SubSeq(s, 1, 4) = y /\ SubSeq(s, 5, 6) = m
  BY FourAndTwo
<1> HIDE DEF s
<1>2. IsCompact(s)
  <2>1. Range(s) \subseteq Digits
    BY <1>1, RangeOfSeq
  <2> QED  BY <1>1, <2>1 DEF IsCompact
<1>3. Str(v) = s
  BY DEF s
<1>4. ParseYearMonth(v) = Date(IntOf(SubSeq(s, 1, 4)), IntOf(SubSeq(s, 5, 6)))
  BY <1>2, <1>3 DEF ParseYearMonth
<1> QED  BY <1>1, <1>4, DateOf

(* whether it is given as a text                                           *)
LEMMA CompactTextMonth ==
    ASSUME NEW y \in Seq(Digits), Len(y) = 4,
           NEW m \in Seq(Digits), Len(m) = 2, NEW n \in 1 .. 12, IntOf(m) = n,
           Text(y \o m) # NULL
    PROVE  ParseYearMonth(Text(y \o m)) = [year |-> IntOf(y), month |-> n]
<1> DEFINE v == Text(y \o m)
<1>1. Str(v) = y \o m /\ v # Number(0) /\ (v = Text(<<>>) => y \o m = <<>>)
  BY StrOfText
<1>2. y \o m # <<>>
  BY FourAndTwo
<1> HIDE DEF v
<1>3. v # NULL
  BY DEF v
<1>4. ParseYearMonth(v) = [year |-> IntOf(y), month |-> n]
  BY <1>1, <1>2, <1>3, CompactMonth
<1> QED  BY <1>4 DEF v

(* or as a number, which is not 0.                                         *)
LEMMA StrOfZero == Str(Number(0)) = [k \in 1 .. 6 |-> "0"]
<1> DEFINE power == <<100000, 10000, 1000, 100, 10, 1>>
<1>1. Str(Number(0)) = [k \in 1 .. 6 |-> DigitSeq[((0 \div power[k]) % 10) + 1]]
  BY DEF Str, Number
<1>2. ASSUME NEW k \in 1 .. 6 PROVE ((0 \div power[k]) % 10) + 1 = 1
  <2>1. /\ power[1] = 100000 /\ power[2] = 10000 /\ power[3] = 1000
        /\ power[4] = 100 /\ power[5] = 10 /\ power[6] = 1
    OBVIOUS
  <2>2. k = 1 \/ k = 2 \/ k = 3 \/ k = 4 \/ k = 5 \/ k = 6
    OBVIOUS
  <2> HIDE DEF power
  <2>3. PICK p \in Nat \ {0} : power[k] = p
    BY <2>1, <2>2
  <2>4. (0 \div p) % 10 = 0
    OBVIOUS
  <2> QED  BY <2>3, <2>4
<1>3. DigitSeq[1] = "0"
  BY DEF DigitSeq
<1> HIDE DEF power
<1> QED  BY <1>1, <1>2, <1>3

LEMMA NumberMonth ==
    ASSUME NEW y \in Seq(Digits), Len(y) = 4,
           NEW m \in Seq(Digits), Len(m) = 2, NEW n \in 1 .. 12, IntOf(m) = n,
           Number(IntOf(y \o m)) # NULL
    PROVE  ParseYearMonth(Number(IntOf(y \o m))) = [year |-> IntOf(y), month |-> n]
<1> DEFINE s == y \o m
           v == Number(IntOf(s))
<1>1. s \in Seq(Digits) /\ Len(s) = 6 /\ StandsAt(s, 5, m)
  BY FourAndTwo
<1> HIDE DEF s
<1>2. Str(v) = s
  BY <1>1, StrOfNumber
<1>3. v # Text(<<>>)
  <2>1. v.type = "number" /\ Text(<<>>).type = "text"
    BY DEF Number, Text
  <2> QED  BY <2>1
<1>4. ASSUME v = Number(0) PROVE FALSE
  <2>1. s = [k \in 1 .. 6 |-> "0"]
    BY <1>2, <1>4, StrOfZero
  <2>2. s[5] = "0" /\ s[6] = "0"
    BY <2>1
  <2>3. m[1] = "0" /\ m[2] = "0"
    <3>1. \A i \in 1 .. 2 : s[5 + i - 1] = m[i]
      BY <1>1 DEF StandsAt
    <3>2. 5 + 1 - 1 = 5 /\ 5 + 2 - 1 = 6 /\ 1 \in 1 .. 2 /\ 2 \in 1 .. 2
      OBVIOUS
    <3>3. s[5 + 1 - 1] = m[1] /\ s[5 + 2 - 1] = m[2]
      BY <3>1, <3>2
    <3> QED  BY <2>2, <3>2, <3>3
  <2>4. IntOf(m) = 10 * DigitOf(m[1]) + DigitOf(m[2])
    BY IntOfTwo
  <2>5. IntOf(m) = 0
    BY <2>3, <2>4, DigitValues
  <2> QED  BY <2>5
<1>5. v # NULL /\ Str(v) = y \o m
  BY <1>2 DEF s
<1> HIDE DEF v
<1>6. ParseYearMonth(v) = [year |-> IntOf(y), month |-> n]
  BY <1>3, <1>4, <1>5, CompactMonth
<1> QED  BY <1>6 DEF s, v

(* yyyy-mm and yyyy.mm: the parts of the text, and what is read from them. *)
LEMMA IsoParts ==
    ASSUME NEW E, NEW y \in Seq(E), Len(y) = 4, NEW mark \in E, NEW m \in Seq(E)
    PROVE  LET s == y \o <<mark>> \o m IN
           /\ s \in Seq(E) /\ Len(s) = 5 + Len(m)
           /\ StandsAt(s, 1, y) /\ s[5] = mark /\ StandsAt(s, 6, m)
<1> DEFINE u == y \o <<mark>>
           s == u \o m
<1>1. <<mark>> \in Seq(E)
  OBVIOUS
<1>2. Len(<<mark>>) = 1 /\ <<mark>>[1] = mark
  OBVIOUS
<1>3. u \in Seq(E) /\ Len(u) = 5 /\ StandsAt(u, 1, y) /\ StandsAt(u, 5, <<mark>>)
  <2>1. /\ u \in Seq(E) /\ Len(u) = Len(y) + Len(<<mark>>)
        /\ StandsAt(u, 1, y) /\ StandsAt(u, Len(y) + 1, <<mark>>)
    BY <1>1, ConcatAt
  <2>2. Len(y) + Len(<<mark>>) = 5 /\ Len(y) + 1 = 5
    BY <1>2
  <2> QED  BY <2>1, <2>2
<1> HIDE DEF u
<1>4. s \in Seq(E) /\ Len(s) = 5 + Len(m) /\ StandsAt(s, 1, u) /\ StandsAt(s, 6, m)
  <2>1. /\ s \in Seq(E) /\ Len(s) = Len(u) + Len(m)
        /\ StandsAt(s, 1, u) /\ StandsAt(s, Len(u) + 1, m)
    BY <1>1, <1>3, ConcatAt
  <2>2. Len(u) + 1 = 6
    BY <1>3
  <2> QED  BY <1>3, <2>1, <2>2
<1> HIDE DEF s
<1>5. StandsAt(s, 1, y) /\ StandsAt(s, 5, <<mark>>)
  <2>1. 1 + 1 - 1 = 1 /\ 1 + 5 - 1 = 5
    OBVIOUS
  <2>2. StandsAt(s, 1 + 1 - 1, y) /\ StandsAt(s, 1 + 5 - 1, <<mark>>)
    BY <1>1, <1>3, <1>4, StandsAtWithin
  <2> QED  BY <2>1, <2>2
<1>6. s[5] = mark
  <2>1. \A i \in 1 .. 1 : s[5 + i - 1] = <<mark>>[i]
    BY <1>2, <1>5 DEF StandsAt
  <2>2. s[5 + 1 - 1] = <<mark>>[1] /\ 5 + 1 - 1 = 5
    BY <2>1
  <2> QED  BY <1>2, <2>2
<1>7. /\ s \in Seq(E) /\ Len(s) = 5 + Len(m)
      /\ StandsAt(s, 1, y) /\ s[5] = mark /\ StandsAt(s, 6, m)
  BY <1>4, <1>5, <1>6
<1> QED  BY <1>7 DEF s, u

LEMMA IsoMonth ==
    ASSUME NEW y \in Seq(Digits), Len(y) = 4, NEW mark \in DateMarks,
           NEW m \in Seq(Digits), NEW l \in 1 .. 2, Len(m) = l,
           NEW n \in 1 .. 12, IntOf(m) = n, Text(y \o <<mark>> \o m) # NULL
    PROVE  ParseYearMonth(Text(y \o <<mark>> \o m)) = [year |-> IntOf(y), month |-> n]
<1> DEFINE s == y \o <<mark>> \o m
           E == Characters
<1>1. mark \in E /\ Digits \subseteq E
  BY DEF Characters
<1> HIDE DEF E
<1>2. y \in Seq(E) /\ m \in Seq(E)
  BY <1>1, SeqSubset
<1>3. /\ s \in Seq(E) /\ Len(s) = 5 + Len(m)
      /\ StandsAt(s, 1, y) /\ s[5] = mark /\ StandsAt(s, 6, m)
  BY <1>1, <1>2, IsoParts
<1>4. Text(s) # NULL
  OBVIOUS
<1> HIDE DEF s
<1>5. SubSeq(s, 1, 4) = y
  <2>1. SubSeq(s, 1, 1 + Len(y) - 1) = y
    <3>1. Len(y) > 0
      OBVIOUS
    <3> QED  BY <1>3, <1>2, <3>1, SubSeqAt
  <2>2. 1 + Len(y) - 1 = 4
    OBVIOUS
  <2> QED  BY <2>1, <2>2
<1>6. ~IsCompact(s)
  <2>1. 5 \in DOMAIN s
    BY <1>3
  <2>2. s[5] \in Range(s) /\ s[5] \notin Digits
    BY <1>3, <2>1, OtherMarks DEF Range
  <2> QED  BY <2>2 DEF IsCompact
<1>7. IsIso(s)
  <2>1. Len(s) > 5
    BY <1>3
  <2>2. Range(SubSeq(s, 1, 4)) \subseteq Digits
    BY <1>5, RangeOfSeq
  <2>3. s[6] \in Digits
    <3>1. 1 \in 1 .. Len(m) /\ 6 + 1 - 1 = 6
      OBVIOUS
    <3>2. s[6 + 1 - 1] = m[1]
      BY <1>3, <3>1 DEF StandsAt
    <3> QED  BY <3>1, <3>2, ElementOfSeq
  <2> QED  BY <1>3, <2>1, <2>2, <2>3 DEF IsIso
<1>8. DigitRun(s, 6, 2) = m
  <2>1. 6 + Len(m) = Len(s) + 1 /\ Len(m) <= 2 /\ Len(m) > 0
    BY <1>3
  <2> QED  BY <1>3, <1>2, <2>1, DigitRunIs
<1>9. Capped(m) = IntOf(m)
  BY CappedMonth DEF Capped
<1>10. s # <<>>
  <2>1. ASSUME s = <<>> PROVE FALSE
    <3>1. Len(s) = 0
      BY <2>1
    <3> QED  BY <1>3, <3>1
  <2> QED  BY <2>1
<1> DEFINE v == Text(s)
<1>11. Str(v) = s /\ v # Number(0) /\ v # Text(<<>>) /\ v # NULL
  BY <1>4, <1>10, StrOfText
<1> HIDE DEF v
<1>12. ParseYearMonth(v) =
          Date(IntOf(SubSeq(s, 1, 4)), Capped(DigitRun(s, 6, 2)))
  BY <1>6, <1>7, <1>11 DEF ParseYearMonth
<1>13. ParseYearMonth(v) = [year |-> IntOf(y), month |-> n]
  BY <1>5, <1>8, <1>9, <1>12, DateOf
<1> QED  BY <1>13 DEF s, v

(* yynyeon and mwol, with or without a blank in between: the parts of the  *)
(* text.                                                                   *)
LEMMA KoreanParts ==
    ASSUME NEW E, NEW yy \in Seq(E), Len(yy) = 2, NEW blank \in Seq(E), NEW m \in Seq(E),
           NEW a \in E, NEW b \in E, NEW c \in Nat, Len(blank) = c, NEW l \in Nat, Len(m) = l
    PROVE  LET s == yy \o <<a>> \o blank \o m \o <<b>> IN
           /\ s \in Seq(E) /\ Len(s) = 4 + c + l
           /\ StandsAt(s, 1, yy) /\ StandsAt(s, 3, <<a>>) /\ StandsAt(s, 4, blank)
           /\ StandsAt(s, 4 + c, m) /\ StandsAt(s, 4 + c + l, <<b>>)
<1> DEFINE s1 == yy \o <<a>>
           s2 == s1 \o blank
           s3 == s2 \o m
           s == s3 \o <<b>>
<1>1. /\ <<a>> \in Seq(E) /\ Len(<<a>>) = 1 /\ <<a>>[1] = a
      /\ <<b>> \in Seq(E) /\ Len(<<b>>) = 1 /\ <<b>>[1] = b
  OBVIOUS
<1>2. s1 \in Seq(E) /\ Len(s1) = 3 /\ StandsAt(s1, 1, yy) /\ StandsAt(s1, 3, <<a>>)
  <2>1. /\ s1 \in Seq(E) /\ Len(s1) = Len(yy) + Len(<<a>>)
        /\ StandsAt(s1, 1, yy) /\ StandsAt(s1, Len(yy) + 1, <<a>>)
    BY <1>1, ConcatAt
  <2>2. Len(yy) + Len(<<a>>) = 3 /\ Len(yy) + 1 = 3
    BY <1>1
  <2> QED  BY <2>1, <2>2
<1> HIDE DEF s1
<1>3. s2 \in Seq(E) /\ Len(s2) = 3 + c /\ StandsAt(s2, 1, s1) /\ StandsAt(s2, 4, blank)
  <2>1. /\ s2 \in Seq(E) /\ Len(s2) = Len(s1) + Len(blank)
        /\ StandsAt(s2, 1, s1) /\ StandsAt(s2, Len(s1) + 1, blank)
    BY <1>2, ConcatAt
  <2>2. Len(s1) + Len(blank) = 3 + c /\ Len(s1) + 1 = 4
    BY <1>2
  <2> QED  BY <2>1, <2>2
<1> HIDE DEF s2
<1>4. s3 \in Seq(E) /\ Len(s3) = 3 + c + l /\ StandsAt(s3, 1, s2) /\ StandsAt(s3, 4 + c, m)
  <2>1. /\ s3 \in Seq(E) /\ Len(s3) = Len(s2) + Len(m)
        /\ StandsAt(s3, 1, s2) /\ StandsAt(s3, Len(s2) + 1, m)
    BY <1>3, ConcatAt
  <2>2. Len(s2) + Len(m) = 3 + c + l /\ Len(s2) + 1 = 4 + c
    BY <1>3
  <2> QED  BY <2>1, <2>2
<1> HIDE DEF s3
<1>5. s \in Seq(E) /\ Len(s) = 4 + c + l /\ StandsAt(s, 1, s3) /\ StandsAt(s, 4 + c + l, <<b>>)
  <2>1. /\ s \in Seq(E) /\ Len(s) = Len(s3) + Len(<<b>>)
        /\ StandsAt(s, 1, s3) /\ StandsAt(s, Len(s3) + 1, <<b>>)
    BY <1>1, <1>4, ConcatAt
  <2>2. Len(s3) + Len(<<b>>) = 4 + c + l /\ Len(s3) + 1 = 4 + c + l
    BY <1>1, <1>4
  <2> QED  BY <2>1, <2>2
<1> HIDE DEF s
<1>6. StandsAt(s, 4 + c, m) /\ StandsAt(s, 1, s2)
  <2>1. StandsAt(s, 1 + (4 + c) - 1, m) /\ StandsAt(s, 1 + 1 - 1, s2)
    BY <1>3, <1>4, <1>5, StandsAtWithin
  <2>2. 1 + (4 + c) - 1 = 4 + c /\ 1 + 1 - 1 = 1
    OBVIOUS
  <2> QED  BY <2>1, <2>2
<1>7. StandsAt(s, 4, blank) /\ StandsAt(s, 1, s1)
  <2>1. StandsAt(s, 1 + 4 - 1, blank) /\ StandsAt(s, 1 + 1 - 1, s1)
    BY <1>2, <1>3, <1>5, <1>6, StandsAtWithin
  <2>2. 1 + 4 - 1 = 4 /\ 1 + 1 - 1 = 1
    OBVIOUS
  <2> QED  BY <2>1, <2>2
<1>8. StandsAt(s, 1, yy) /\ StandsAt(s, 3, <<a>>)
  <2>1. StandsAt(s, 1 + 1 - 1, yy) /\ StandsAt(s, 1 + 3 - 1, <<a>>)
    BY <1>1, <1>2, <1>5, <1>7, StandsAtWithin
  <2>2. 1 + 1 - 1 = 1 /\ 1 + 3 - 1 = 3
    OBVIOUS
  <2> QED  BY <2>1, <2>2
<1>9. /\ s \in Seq(E) /\ Len(s) = 4 + c + l
      /\ StandsAt(s, 1, yy) /\ StandsAt(s, 3, <<a>>) /\ StandsAt(s, 4, blank)
      /\ StandsAt(s, 4 + c, m) /\ StandsAt(s, 4 + c + l, <<b>>)
  BY <1>5, <1>6, <1>7, <1>8
<1> QED  BY <1>9 DEF s, s3, s2, s1

(* The digits of the Korean pattern are found where they stand,            *)
LEMMA KoreanMonthFound ==
    ASSUME NEW E, NEW s \in Seq(E), NEW m \in Seq(Digits), m \in Seq(E),
           NEW c \in 0 .. 1, NEW l \in 1 .. 2, Len(m) = l, Len(s) = 4 + c + l,
           NEW yy \in Seq(Digits), Len(yy) = 2,
           NEW blank \in Seq(Blanks), Len(blank) = c,
           StandsAt(s, 1, yy), StandsAt(s, 3, <<KrYear>>), StandsAt(s, 4, blank),
           StandsAt(s, 4 + c, m), StandsAt(s, 4 + c + l, <<KrMonth>>)
    PROVE  KrMonthAt(s, 1) = 4 + c /\ DigitRun(s, 4 + c, 2) = m
<1> DEFINE Found(j) == /\ \A i \in 1 + 3 .. j - 1 : s[i] = " "
                       /\ LET run == DigitRun(s, j, 2) IN
                          /\ run # <<>>
                          /\ j + Len(run) <= Len(s)
                          /\ s[j + Len(run)] = KrMonth
           months == {j \in 1 + 3 .. Len(s) : Found(j)}
<1>1. DigitRun(s, 4 + c, 2) = m
  <2>1. s[4 + c + Len(m)] = KrMonth
    BY StandsAtOne
  <2>2. Len(m) > 0 /\ Len(m) <= 2
    OBVIOUS
  <2> QED  BY <2>1, <2>2, OtherMarks, DigitRunIs
<1>2. m # <<>>
  <2>1. ASSUME m = <<>> PROVE FALSE
    <3>1. Len(m) = 0
      BY <2>1
    <3> QED  BY <3>1
  <2> QED  BY <2>1
<1>3. m[1] \in Digits /\ s[4 + c] = m[1]
  <2>1. 1 \in 1 .. Len(m) /\ (4 + c) + 1 - 1 = 4 + c
    OBVIOUS
  <2>2. s[(4 + c) + 1 - 1] = m[1]
    BY <2>1 DEF StandsAt
  <2> QED  BY <2>1, <2>2, ElementOfSeq
<1>4. ASSUME c = 1 PROVE s[4] = " "
  <2>1. 1 \in 1 .. Len(blank) /\ 4 + 1 - 1 = 4
    BY <1>4
  <2>2. s[4 + 1 - 1] = blank[1]
    BY <2>1 DEF StandsAt
  <2>3. blank[1] \in Blanks
    BY <2>1, ElementOfSeq
  <2> QED  BY <2>1, <2>2, <2>3 DEF Blanks
<1>5. 4 + c \in 1 + 3 .. Len(s) /\ Found(4 + c)
  <2>1. 4 + c \in 1 + 3 .. Len(s) /\ (4 + c) + Len(m) <= Len(s)
    OBVIOUS
  <2>2. ASSUME NEW i \in 1 + 3 .. (4 + c) - 1 PROVE s[i] = " "
    <3>1. c = 1 /\ i = 4
      OBVIOUS
    <3> QED  BY <1>4, <3>1
  <2>3. s[(4 + c) + Len(m)] = KrMonth
    BY StandsAtOne
  <2> QED  BY <1>1, <1>2, <2>1, <2>2, <2>3
<1>6. ASSUME NEW j \in 1 + 3 .. Len(s), Found(j) PROVE j = 4 + c
  <2>1. DigitRun(s, j, 2) # <<>> /\ (4 + c \in 1 + 3 .. j - 1 => s[4 + c] = " ")
    BY <1>6
  <2> HIDE DEF Found
  <2>2. CASE j < 4 + c
    <3>1. c = 1 /\ j = 4
      BY <2>2
    <3>2. s[4] \notin Digits
      BY <1>4, <3>1, OtherMarks
    <3>3. DigitRun(s, 4, 2) = <<>>
      BY <3>2, NoDigitRun
    <3> QED  BY <2>1, <3>1, <3>3
  <2>3. CASE 4 + c < j
    <3>1. 4 + c \in 1 + 3 .. j - 1
      BY <2>3
    <3> QED  BY <1>3, <2>1, <3>1, OtherMarks
  <2> QED  BY <2>2, <2>3
<1> HIDE DEF Found
<1>7. Min(months) = 4 + c /\ months # {}
  <2>1. 4 + c \in months /\ months \subseteq Nat
    BY <1>5
  <2>2. \A j \in months : 4 + c <= j
    BY <1>6
  <2> HIDE DEF months
  <2> QED  BY <2>1, <2>2, MinOfSet
<1>8. s[1] \in Digits /\ s[1 + 1] \in Digits
  <2>1. 1 \in 1 .. Len(yy) /\ 2 \in 1 .. Len(yy) /\ 1 + 1 - 1 = 1 /\ 1 + 2 - 1 = 2 /\ 1 + 1 = 2
    OBVIOUS
  <2>2. s[1 + 1 - 1] = yy[1] /\ s[1 + 2 - 1] = yy[2]
    BY <2>1 DEF StandsAt
  <2>3. yy[1] \in Digits /\ yy[2] \in Digits
    BY <2>1, ElementOfSeq
  <2> QED  BY <2>1, <2>2, <2>3
<1>9. 1 + 2 < Len(s) /\ s[1 + 2] = KrYear
  <2>1. 1 + 2 = 3 /\ 3 < Len(s)
    OBVIOUS
  <2>2. s[3] = KrYear
    BY StandsAtOne
  <2> QED  BY <2>1, <2>2
<1>10. KrMonthAt(s, 1) = Min(months)
  <2> HIDE DEF months
  <2>1. {s[1], s[1 + 1]} \subseteq Digits
    BY <1>8
  <2> QED  BY <1>7, <1>9, <2>1 DEF KrMonthAt, months, Found
<1> QED  BY <1>1, <1>7, <1>10

(* the two patterns before it do not match,                                *)
LEMMA KoreanOnly ==
    ASSUME NEW E, NEW s \in Seq(E), NEW m \in Seq(Digits),
           NEW c \in 0 .. 1, NEW l \in 1 .. 2, Len(m) = l, Len(s) = 4 + c + l,
           StandsAt(s, 3, <<KrYear>>), StandsAt(s, 4 + c, m)
    PROVE  ~IsCompact(s) /\ ~IsIso(s)
<1>1. 3 \in DOMAIN s /\ s[3] = KrYear
  <2>1. 3 \in 1 .. Len(s)
    OBVIOUS
  <2> QED  BY <2>1, StandsAtOne
<1>2. ~IsCompact(s)
  <2>1. KrYear \in Range(s)
    BY <1>1 DEF Range
  <2> QED  BY <2>1, OtherMarks DEF IsCompact
<1>3. ASSUME Len(s) > 5 PROVE s[5] \in Digits
  <2>1. PICK i \in 1 .. Len(m) : (4 + c) + i - 1 = 5
    <3>1. CASE c = 0
      <4>1. 2 \in 1 .. Len(m) /\ (4 + c) + 2 - 1 = 5
        BY <1>3, <3>1
      <4> QED  BY <4>1
    <3>2. CASE c = 1
      <4>1. 1 \in 1 .. Len(m) /\ (4 + c) + 1 - 1 = 5
        BY <3>2
      <4> QED  BY <4>1
    <3> QED  BY <3>1, <3>2
  <2>2. s[(4 + c) + i - 1] = m[i]
    BY DEF StandsAt
  <2> QED  BY <2>1, <2>2, ElementOfSeq
<1>4. \A d \in Digits : d \notin DateMarks
  BY OtherMarks
<1>5. IsIso(s) => Len(s) > 5 /\ s[5] \in DateMarks
  BY DEF IsIso
<1> QED  BY <1>2, <1>3, <1>4, <1>5

(* and it matches nowhere else;                                            *)
LEMMA KoreanYearOnce ==
    ASSUME NEW E, NEW yy \in Seq(Digits), NEW m \in Seq(Digits), NEW blank \in Seq(Blanks),
           NEW s \in Seq(E), NEW c \in 0 .. 1, NEW l \in 1 .. 2,
           Len(yy) = 2, Len(m) = l, Len(blank) = c, Len(s) = 4 + c + l,
           StandsAt(s, 1, yy), StandsAt(s, 4, blank),
           StandsAt(s, 4 + c, m), StandsAt(s, 4 + c + l, <<KrMonth>>),
           NEW k \in 1 .. Len(s), k # 1, k + 2 < Len(s)
    PROVE  s[k + 2] # KrYear
<1>1. CASE k + 2 < 4 + c
  <2>1. k + 2 = 4 /\ c = 1
    BY <1>1
  <2>2. 1 \in 1 .. Len(blank) /\ 4 + 1 - 1 = 4
    BY <2>1
  <2>3. s[4 + 1 - 1] = blank[1]
    BY <2>2 DEF StandsAt
  <2>4. blank[1] \in Blanks
    BY <2>2, ElementOfSeq
  <2>5. s[k + 2] \in Blanks
    BY <2>1, <2>2, <2>3, <2>4
  <2>6. KrYear \notin Blanks
    BY DEF KrYear, Blanks
  <2> QED  BY <2>5, <2>6
<1>2. CASE 4 + c <= k + 2
  <2>1. PICK i \in 1 .. Len(m) : (4 + c) + i - 1 = k + 2
    <3>1. (k + 2) - (4 + c) + 1 \in 1 .. Len(m)
          /\ (4 + c) + ((k + 2) - (4 + c) + 1) - 1 = k + 2
      BY <1>2
    <3> QED  BY <3>1
  <2>2. s[(4 + c) + i - 1] = m[i]
    BY DEF StandsAt
  <2>3. s[k + 2] \in Digits
    BY <2>1, <2>2, ElementOfSeq
  <2> QED  BY <2>3, OtherMarks
<1> QED  BY <1>1, <1>2

(* so year and month are read.                                             *)
LEMMA KoreanMonth ==
    ASSUME NEW yy \in Seq(Digits), Len(yy) = 2,
           NEW blank \in Seq(Blanks), NEW c \in 0 .. 1, Len(blank) = c,
           NEW m \in Seq(Digits), NEW l \in 1 .. 2, Len(m) = l,
           NEW n \in 1 .. 12, IntOf(m) = n,
           Text(yy \o <<KrYear>> \o blank \o m \o <<KrMonth>>) # NULL
    PROVE  ParseYearMonth(Text(yy \o <<KrYear>> \o blank \o m \o <<KrMonth>>)) =
              [year |-> FullYear(IntOf(yy)), month |-> n]
<1> DEFINE s == yy \o <<KrYear>> \o blank \o m \o <<KrMonth>>
           E == Characters
<1>1. Digits \subseteq E /\ Blanks \subseteq E /\ KrYear \in E /\ KrMonth \in E
  BY DEF Characters, Blanks
<1> HIDE DEF E
<1>2. yy \in Seq(E) /\ blank \in Seq(E) /\ m \in Seq(E)
  BY <1>1, SeqSubset
<1>3. c \in Nat /\ l \in Nat
  OBVIOUS
<1>4. /\ s \in Seq(E) /\ Len(s) = 4 + c + l
      /\ StandsAt(s, 1, yy) /\ StandsAt(s, 3, <<KrYear>>) /\ StandsAt(s, 4, blank)
      /\ StandsAt(s, 4 + c, m) /\ StandsAt(s, 4 + c + l, <<KrMonth>>)
  BY <1>1, <1>2, <1>3, KoreanParts
<1>5. Text(s) # NULL
  OBVIOUS
<1> HIDE DEF s
<1>6. ~IsCompact(s) /\ ~IsIso(s)
  BY <1>4, KoreanOnly
<1>7. KrMonthAt(s, 1) = 4 + c /\ DigitRun(s, 4 + c, 2) = m
  BY <1>2, <1>4, KoreanMonthFound
<1>8. ASSUME NEW k \in DOMAIN s, k # 1 PROVE KrMonthAt(s, k) = 0
  <2>1. k \in 1 .. Len(s)
    BY <1>4
  <2>2. CASE k + 2 < Len(s)
    <3>1. s[k + 2] # KrYear
      BY <1>4, <1>8, <2>1, <2>2, KoreanYearOnce
    <3> QED  BY <3>1 DEF KrMonthAt
  <2>3. CASE ~(k + 2 < Len(s))
    BY <2>3 DEF KrMonthAt
  <2> QED  BY <2>2, <2>3
<1> DEFINE kr == KrStarts(s)
<1>9. kr # {} /\ Min(kr) = 1
  <2>1. 1 \in DOMAIN s /\ 4 + c # 0
    BY <1>4
  <2>2. 1 \in kr /\ \A k \in kr : k = 1
    BY <1>7, <1>8, <2>1 DEF KrStarts
  <2> HIDE DEF kr
  <2>3. kr \subseteq Nat /\ \A k \in kr : 1 <= k
    BY <2>2
  <2>4. Min(kr) = 1
    BY <2>2, <2>3, MinOfSet
  <2> QED  BY <2>2, <2>4
<1> HIDE DEF kr
<1>10. SubSeq(s, 1, 1 + 1) = yy
  <2>1. Len(yy) > 0 /\ 1 + Len(yy) - 1 = 1 + 1
    OBVIOUS
  <2>2. SubSeq(s, 1, 1 + Len(yy) - 1) = yy
    BY <1>2, <1>4, <2>1, SubSeqAt
  <2> QED  BY <2>1, <2>2
<1>11. Capped(m) = n
  BY CappedMonth DEF Capped
<1>12. s # <<>>
  <2>1. ASSUME s = <<>> PROVE FALSE
    <3>1. Len(s) = 0
      BY <2>1
    <3> QED  BY <1>4, <3>1
  <2> QED  BY <2>1
<1> DEFINE v == Text(s)
<1>13. Str(v) = s /\ v # Number(0) /\ v # Text(<<>>) /\ v # NULL
  BY <1>5, <1>12, StrOfText
<1> HIDE DEF v
<1>14. ParseYearMonth(v) = Date(FullYear(IntOf(yy)), Capped(DigitRun(s, KrMonthAt(s, 1), 2)))
  BY <1>6, <1>9, <1>10, <1>13 DEF ParseYearMonth, kr
<1>15. ParseYearMonth(v) = [year |-> FullYear(IntOf(yy)), month |-> n]
  BY <1>7, <1>11, <1>14, DateOf
<1> QED  BY <1>15 DEF s, v

(* _parse_year_month reads the month of a car from each way to write it.   *)
LEMMA MonthParses ==
    ASSUME NEW x, IsMonth(x), NEW v \in MonthValues(x), v # NULL
    PROVE  ParseYearMonth(v) = [year |-> IntOf(x.yyyy), month |-> IntOf(x.mm)]
<1> DEFINE y == x.yyyy
           mm == x.mm
           yy == SubSeq(y, 3, 4)
<1>1. y \in Seq(Digits) /\ Len(y) = 4 /\ mm \in Seq(Digits) /\ Len(mm) = 2
  BY DEF IsMonth
<1>2. PICK n \in 1 .. 12 : IntOf(mm) = n
  BY DEF IsMonth
<1>3. yy \in Seq(Digits) /\ Len(yy) = 2 /\ IntOf(y) = FullYear(IntOf(yy))
  BY YearOfTwoDigits
<1>4. ASSUME NEW m \in ShortMonths(x)
      PROVE  m \in Seq(Digits) /\ IntOf(m) = n /\ \E l \in 1 .. 2 : Len(m) = l
  BY <1>2, ShortMonth
<1>5. \/ v = Text(y \o mm)
      \/ v = Number(IntOf(y \o mm))
      \/ \E m \in ShortMonths(x) : v \in IsoTexts(y, m) \/ v \in KoreanTexts(yy, m)
  BY DEF MonthValues
<1> HIDE DEF y, mm, yy
<1>6. CASE v = Text(y \o mm)
  <2>1. ParseYearMonth(Text(y \o mm)) = [year |-> IntOf(y), month |-> n]
    BY <1>1, <1>2, <1>6, CompactTextMonth
  <2> QED  BY <1>2, <1>6, <2>1 DEF y, mm
<1>7. CASE v = Number(IntOf(y \o mm))
  <2>1. ParseYearMonth(Number(IntOf(y \o mm))) = [year |-> IntOf(y), month |-> n]
    BY <1>1, <1>2, <1>7, NumberMonth
  <2> QED  BY <1>2, <1>7, <2>1 DEF y, mm
<1>8. ASSUME NEW m \in ShortMonths(x), v \in IsoTexts(y, m) \/ v \in KoreanTexts(yy, m)
      PROVE  ParseYearMonth(v) = [year |-> IntOf(x.yyyy), month |-> IntOf(x.mm)]
  <2>1. PICK l \in 1 .. 2 : Len(m) = l
    BY <1>4
  <2>2. m \in Seq(Digits) /\ IntOf(m) = n
    BY <1>4
  <2>3. ASSUME NEW mark \in DateMarks, v = Text(y \o <<mark>> \o m)
        PROVE  ParseYearMonth(v) = [year |-> IntOf(y), month |-> n]
    <3>1. ParseYearMonth(Text(y \o <<mark>> \o m)) = [year |-> IntOf(y), month |-> n]
      BY <1>1, <2>1, <2>2, <2>3, IsoMonth
    <3> QED  BY <2>3, <3>1
  <2>4. ASSUME NEW blank, NEW c \in 0 .. 1, blank \in Seq(Blanks), Len(blank) = c,
               v = Text(yy \o <<KrYear>> \o blank \o m \o <<KrMonth>>)
        PROVE  ParseYearMonth(v) = [year |-> IntOf(y), month |-> n]
    <3> DEFINE w == Text(yy \o <<KrYear>> \o blank \o m \o <<KrMonth>>)
    <3>1. ParseYearMonth(w) = [year |-> FullYear(IntOf(yy)), month |-> n]
      BY <1>3, <2>1, <2>2, <2>4, KoreanMonth
    <3> HIDE DEF w
    <3>2. v = w
      BY <2>4 DEF w
    <3> QED  BY <1>3, <3>1, <3>2
  <2>5. ASSUME v \in IsoTexts(y, m)
        PROVE ParseYearMonth(v) = [year |-> IntOf(y), month |-> n]
    BY <2>3, <2>5 DEF IsoTexts
  <2>6. ASSUME v \in KoreanTexts(yy, m)
        PROVE ParseYearMonth(v) = [year |-> IntOf(y), month |-> n]
    <3>1. <<>> \in Seq(Blanks) /\ Len(<<>>) = 0 /\ <<" ">> \in Seq(Blanks) /\ Len(<<" ">>) = 1
      BY DEF Blanks
    <3>2. 0 \in 0 .. 1 /\ 1 \in 0 .. 1
      OBVIOUS
    <3>3. \/ v = Text(yy \o <<KrYear>> \o <<>> \o m \o <<KrMonth>>)
          \/ v = Text(yy \o <<KrYear>> \o <<" ">> \o m \o <<KrMonth>>)
      BY <2>6 DEF KoreanTexts
    <3> QED  BY <2>4, <3>1, <3>2, <3>3
  <2> QED  BY <1>2, <1>8, <2>5, <2>6 DEF y, mm
<1> QED  BY <1>5, <1>6, <1>7, <1>8

(* Without its separators the text of a number is made of digits.          *)
LEMMA BareDigits ==
    ASSUME NEW t \in Seq(Digits \cup Separators), Range(t) \cap Digits # {}
    PROVE  Bare(t) \in Seq(Digits) /\ Len(Bare(t)) > 0
<1> DEFINE S == Range(t) \ Separators
           r == Only(t, S)
<1>1. r \in Seq((Digits \cup Separators) \cap S) /\ Range(r) = Range(t) \cap S
  BY OnlyRange
<1>2. (Digits \cup Separators) \cap S \subseteq Digits
  OBVIOUS
<1>3. Bare(t) = r
  BY DEF Bare
<1>4. Range(r) # {}
  BY <1>1, OtherMarks
<1> HIDE DEF r, S
<1>5. r \in Seq(Digits)
  BY <1>1, <1>2, SeqSubset
<1>6. Len(r) > 0
  <2>1. \E k \in DOMAIN r : TRUE
    BY <1>4 DEF Range
  <2> QED  BY <1>5, <2>1
<1> QED  BY <1>3, <1>5, <1>6

(* _to_int reads the mileage of a car from each way to write it.           *)
LEMMA MileageParses ==
    ASSUME CarsAssumption, WrittenAssumption,
           NEW car \in Cars, NEW v \in MileageValues(car.mileage), v # NULL
    PROVE  ToInt(v) = car.mileage
<1>1. CASE v = Number(car.mileage)
  <2>1. v.type = "number" /\ v.value = car.mileage
    BY <1>1 DEF Number
  <2> QED  BY <2>1 DEF ToInt
<1>2. ASSUME NEW t \in Written[car.mileage], v = Text(t) PROVE ToInt(v) = car.mileage
  <2>1. /\ t \in Seq(Digits \cup Separators) /\ Range(t) \cap Digits # {}
        /\ IntOf(Bare(t)) = car.mileage
    BY DEF WrittenAssumption
  <2>2. Bare(t) \in Seq(Digits) /\ Len(Bare(t)) > 0
    BY <2>1, BareDigits
  <2>3. v.type = "text" /\ v.chars = t
    BY <1>2 DEF Text
  <2> DEFINE s == Bare(t)
             starts == {k \in DOMAIN s : s[k] \in Digits}
  <2>4. Len(s) \in Nat /\ 1 \in DOMAIN s
    BY <2>2
  <2> HIDE DEF s
  <2>5. s \in Seq(Digits) /\ Len(s) > 0
    BY <2>2 DEF s
  <2>6. DigitRun(s, 1, Len(s)) = s /\ Min(starts) = 1
    BY <2>4, <2>5, WholeRun
  <2>7. starts # {}
    BY <2>4, <2>5, ElementOfSeq
  <2>8. ToInt(v) = IntOf(DigitRun(s, Min(starts), Len(s)))
    BY <2>3, <2>7 DEF ToInt, s
  <2> QED  BY <2>1, <2>6, <2>8 DEF s
<1> QED  BY <1>1, <1>2 DEF MileageValues

-----------------------------------------------------------------------------
(* parse_search_list and parse_car_detail, in both shapes of a payload.    *)

(* An item of a list has the names of its car, or leaves them out.         *)
LEMMA ItemNames ==
    ASSUME CarsAssumption, DetailsAssumption, NEW car \in Cars, NEW item \in Items(car)
    PROVE  item.brand \in {car.brand, ""} /\ item.model \in {car.model, ""}
<1>1. PICK page \in Pages[car] : item \in Range(ParseSearchList(page))
  BY DEF Items
<1> DEFINE results == ExtractResults(page)
           S == {entry \in Range(results) : HasId(entry)}
           entries == Only(results, S)
<1>2. /\ results \in Seq(Range(results))
      /\ \A entry \in Range(results) :
            HasId(entry) => /\ GetOr(entry, "Manufacturer", "") \in {car.brand, ""}
                            /\ GetOr(entry, "Model", "") \in {car.model, ""}
  BY DEF DetailsAssumption, Offers
<1>3. PICK k \in DOMAIN entries :
         item = [encar_id |-> ToInt(entries[k].Id),
                 brand |-> StrOrNone(GetOr(entries[k], "Manufacturer", "")),
                 model |-> StrOrNone(GetOr(entries[k], "Model", ""))]
  BY <1>1 DEF ParseSearchList, Range
<1> HIDE DEF results
<1>4. Range(entries) = Range(results) \cap S
  BY <1>2, OnlyRange
<1>5. entries[k] \in Range(entries)
  <2> HIDE DEF entries
  <2> QED  BY DEF Range
<1>6. entries[k] \in Range(results) /\ HasId(entries[k])
  <2> HIDE DEF entries
  <2> QED  BY <1>4, <1>5
<1> HIDE DEF entries
<1>7. item.brand = StrOrNone(GetOr(entries[k], "Manufacturer", ""))
      /\ item.model = StrOrNone(GetOr(entries[k], "Model", ""))
  BY <1>3
<1>8. NULL \notin {car.brand, car.model, ""}
  BY NullAssumption DEF CarsAssumption
<1> QED  BY <1>2, <1>6, <1>7, <1>8 DEF StrOrNone

(* A name is taken from the detail when the item has none.                 *)
LEMMA NameOfCar ==
    ASSUME NEW object, NEW key, Get(object, key) \notin {NULL, ""},
           NEW a, a = Get(object, key) \/ a = ""
    PROVE  Or(a, GetOr(object, key, "")) = Get(object, key)
BY DEF Get, GetOr, Or

(* The month and the mileage of a row, where the detail states them.       *)
LEMMA StatedMonth ==
    ASSUME CarsAssumption, NEW car \in Cars, NEW v \in MonthValues(car.month) \cup {NULL}
    PROVE  /\ ParseYearMonth(v) = IF v = NULL THEN NULL ELSE KeyOf(car).year_month
           /\ ParseYearMonth(v) # ValueError
           /\ KeyOf(car).year_month # NULL
<1> DEFINE x == car.month
           ym == [year |-> IntOf(x.yyyy), month |-> IntOf(x.mm)]
<1>1. IsMonth(x) /\ NULL # ValueError /\ NULL \notin [year : Nat, month : Nat]
  BY DEF CarsAssumption
<1>2. KeyOf(car).year_month = ym
  BY DEF KeyOf
<1>3. IntOf(x.yyyy) \in Nat /\ IntOf(x.mm) \in Nat
  <2> DEFINE yy == SubSeq(x.yyyy, 3, 4)
  <2>1. yy \in Seq(Digits) /\ Len(yy) = 2 /\ IntOf(x.yyyy) = FullYear(IntOf(yy))
    BY <1>1, YearOfTwoDigits
  <2> HIDE DEF yy
  <2>2. IntOf(yy) \in 0 .. 99
    BY <2>1, IntOfTwo
  <2>3. \A n \in 0 .. 99 : FullYear(n) \in Nat
    BY DEF FullYear
  <2>4. IntOf(x.mm) \in 1 .. 12
    BY <1>1 DEF IsMonth
  <2>5. FullYear(IntOf(yy)) \in Nat
    BY <2>2, <2>3
  <2>6. IntOf(x.yyyy) \in Nat
    BY <2>1, <2>5
  <2> HIDE DEF x
  <2>7. IntOf(x.mm) \in Nat
    BY <2>4
  <2> QED  BY <2>6, <2>7
<1>4. ym \in [year : Nat, month : Nat]
  BY <1>3
<1>5. ym # NULL
  BY <1>1, <1>4
<1>6. ym # ValueError
  <2>1. "year" \in DOMAIN ym /\ "year" \notin DOMAIN ValueError
    BY DEF ValueError
  <2> QED  BY <2>1
<1> HIDE DEF ym
<1>7. v # NULL => ParseYearMonth(v) = ym
  BY <1>1, MonthParses DEF ym
<1>8. v = NULL => ParseYearMonth(v) = NULL
  BY DEF ParseYearMonth
<1> QED  BY <1>1, <1>2, <1>5, <1>6, <1>7, <1>8

LEMMA StatedMileage ==
    ASSUME CarsAssumption, WrittenAssumption,
           NEW car \in Cars, NEW v \in MileageValues(car.mileage) \cup {NULL}
    PROVE  /\ ToInt(v) = IF v = NULL THEN NULL ELSE car.mileage
           /\ car.mileage # NULL
<1>1. v # NULL => ToInt(v) = car.mileage
  BY MileageParses
<1>2. v = NULL => ToInt(v) = NULL
  BY DEF ToInt
<1>3. car.mileage # NULL
  BY DEF CarsAssumption
<1> QED  BY <1>1, <1>2, <1>3

(* Every photo that is kept is the one of the car, in the legacy shape     *)
LEMMA TextPhotos ==
    ASSUME NEW car, NEW photos \in Seq(PhotosOf(car))
    PROVE  Range(Only(photos, {photo \in Range(photos) : photo.shape = "text"}))
              \subseteq {PhotoText(car)}
<1> DEFINE S == {photo \in Range(photos) : photo.shape = "text"}
<1>1. Range(Only(photos, S)) = Range(photos) \cap S
  BY OnlyRange
<1>2. Range(photos) \subseteq PhotosOf(car)
  BY RangeOfSeq
<1>3. ASSUME NEW photo \in PhotosOf(car), photo.shape = "text" PROVE photo = PhotoText(car)
  BY <1>3 DEF PhotosOf
<1> QED  BY <1>1, <1>2, <1>3

(* and in the other one, where the host is added.                          *)
LEMMA DictPhotos ==
    ASSUME NEW car, NEW photos \in Seq(PhotosOf(car))
    PROVE  Range(PhotoUrls(photos)) \subseteq {PhotoText(car)}
<1> DEFINE S == {photo \in Range(photos) : photo.shape = "dict" /\ photo.path # NULL}
           withPath == Only(photos, S)
           urls == [k \in DOMAIN withPath |->
                      [withPath[k] EXCEPT !.shape = "text", !.host = Or(@, CDN)]]
<1>1. Range(withPath) = Range(photos) \cap S
  BY OnlyRange
<1>2. Range(photos) \subseteq PhotosOf(car)
  BY RangeOfSeq
<1>3. ASSUME NEW photo \in PhotosOf(car), photo.shape = "dict", photo.path # NULL
      PROVE  [photo EXCEPT !.shape = "text", !.host = Or(@, CDN)] = PhotoText(car)
  <2>1. photo \in [shape : {"dict"}, host : {"", CDN}, path : {NULL, car.photo}]
    <3>1. photo \in {PhotoText(car)} \/ photo \in [shape : {"dict"}, host : {"", CDN},
                                                   path : {NULL, car.photo}]
      BY DEF PhotosOf
    <3>2. PhotoText(car).shape = "text"
      BY DEF PhotoText
    <3> QED  BY <1>3, <3>1, <3>2
  <2>2. Or(photo.host, CDN) = CDN
    BY <2>1 DEF Or
  <2>3. photo.path = car.photo
    BY <1>3, <2>1
  <2>4. ASSUME NEW h, NEW p, photo = [shape |-> "dict", host |-> h, path |-> p]
        PROVE  [photo EXCEPT !.shape = "text", !.host = Or(@, CDN)] =
                  [shape |-> "text", host |-> Or(h, CDN), path |-> p]
    <3> DEFINE k == Or(h, CDN)
    <3>1. [photo EXCEPT !.shape = "text", !.host = Or(@, CDN)] =
             [photo EXCEPT !.shape = "text", !.host = k]
      BY <2>4
    <3> HIDE DEF k
    <3> DEFINE u == [photo EXCEPT !.shape = "text", !.host = k]
    <3>2. DOMAIN u = {"shape", "host", "path"}
      BY <2>4
    <3>3. u.shape = "text" /\ u.host = k /\ u.path = p
      BY <2>4
    <3>4. u = [x \in {"shape", "host", "path"} |-> u[x]]
      <4>1. u = [x \in DOMAIN u |-> u[x]]
        BY <2>4
      <4> HIDE DEF u
      <4> QED  BY <3>2, <4>1
    <3> HIDE DEF u
    <3>5. u = [shape |-> "text", host |-> k, path |-> p]
      BY <3>3, <3>4
    <3>6. [photo EXCEPT !.shape = "text", !.host = k] =
             [shape |-> "text", host |-> k, path |-> p]
      BY <3>5 DEF u
    <3> QED  BY <3>1, <3>6 DEF k
  <2>5. photo = [shape |-> "dict", host |-> photo.host, path |-> photo.path]
    BY <2>1
  <2>6. [photo EXCEPT !.shape = "text", !.host = Or(@, CDN)] =
           [shape |-> "text", host |-> Or(photo.host, CDN), path |-> photo.path]
    BY <2>4, <2>5
  <2> QED  BY <2>2, <2>3, <2>6 DEF PhotoText
<1>4. PhotoUrls(photos) = urls
  BY DEF PhotoUrls
<1> HIDE DEF withPath
<1>5. ASSUME NEW k \in DOMAIN withPath PROVE urls[k] = PhotoText(car)
  <2>1. withPath[k] \in Range(withPath)
    BY DEF Range
  <2>2. withPath[k] \in PhotosOf(car) /\ withPath[k].shape = "dict" /\ withPath[k].path # NULL
    BY <1>1, <1>2, <2>1
  <2> QED  BY <1>3, <2>2
<1>6. DOMAIN urls = DOMAIN withPath
  OBVIOUS
<1> HIDE DEF urls
<1>7. \A x \in Range(urls) : x = PhotoText(car)
  BY <1>5, <1>6 DEF Range
<1> QED  BY <1>4, <1>7

(* What a row shows of the car that its payload describes.                 *)
Shows(row, stated, car) ==
    /\ row.brand = car.brand /\ row.model = car.model
    /\ row.year_month = IF stated.month = NULL THEN NULL ELSE KeyOf(car).year_month
    /\ row.mileage_km = IF stated.mileage = NULL THEN NULL ELSE car.mileage
    /\ row.color_original = stated.color /\ stated.color \in {car.color, NULL}
    /\ PhotoSet(row) \subseteq {PhotoText(car)}

(* A row made of what the detail states shows the car.                     *)
LEMMA RowShowsCar ==
    ASSUME CarsAssumption, WrittenAssumption, NEW car \in Cars, NEW stated,
           stated.month \in MonthValues(car.month) \cup {NULL},
           stated.mileage \in MileageValues(car.mileage) \cup {NULL},
           stated.color \in {car.color, NULL},
           NEW price, NEW photos, NEW raw, Range(photos) \subseteq {PhotoText(car)}
    PROVE  Shows(Row(car.brand, car.model, ParseYearMonth(stated.month),
                     ToInt(stated.mileage), stated.color, price, photos, raw), stated, car)
<1> DEFINE row == Row(car.brand, car.model, ParseYearMonth(stated.month),
                      ToInt(stated.mileage), stated.color, price, photos, raw)
<1>1. /\ ParseYearMonth(stated.month) =
            IF stated.month = NULL THEN NULL ELSE KeyOf(car).year_month
      /\ ParseYearMonth(stated.month) # ValueError
  BY StatedMonth
<1>2. ToInt(stated.mileage) = IF stated.mileage = NULL THEN NULL ELSE car.mileage
  BY StatedMileage
<1>3. /\ row.brand = car.brand /\ row.model = car.model
      /\ row.year_month = ParseYearMonth(stated.month)
      /\ row.mileage_km = ToInt(stated.mileage)
      /\ row.color_original = stated.color
      /\ row.photo_urls = photos
  BY <1>1 DEF Row
<1> HIDE DEF row
<1>4. PhotoSet(row) \subseteq {PhotoText(car)}
  BY <1>3 DEF PhotoSet
<1>5. Shows(row, stated, car)
  BY <1>1, <1>2, <1>3, <1>4 DEF Shows
<1> QED  BY <1>5 DEF row

(* Whatever the shape and the spelling of a payload, parse_car_detail      *)
(* makes of it a row with the key columns and the photos of its car, NULL  *)
(* where the payload leaves one out (the normalised key of dedup.py:3      *)
(* needs no more).                                                         *)
THEOREM DetailShowsCar ==
    ASSUME CarsAssumption, WrittenAssumption, DetailsAssumption,
           NEW car \in Cars, NEW detail \in Details[car], NEW item \in Items(car)
    PROVE  Shows(ParseCarDetail(detail, item), Stated(detail), car)
<1> DEFINE stated == Stated(detail)
<1>1. /\ stated.brand = car.brand /\ stated.model = car.model
      /\ stated.month \in MonthValues(car.month) \cup {NULL}
      /\ stated.mileage \in MileageValues(car.mileage) \cup {NULL}
      /\ stated.color \in {car.color, NULL}
      /\ stated.photos \in Seq(PhotosOf(car))
  BY DEF DetailsAssumption, Describes
<1>2. item.brand \in {car.brand, ""} /\ item.model \in {car.model, ""}
  BY ItemNames
<1>3. car.brand \notin {NULL, ""} /\ car.model \notin {NULL, ""}
  BY DEF CarsAssumption
<1>4. CASE "car" \in DOMAIN detail
  <2> DEFINE legacy == detail.car
             price == ToInt(Get(legacy, "price"))
             photos == Only(stated.photos,
                            {photo \in Range(stated.photos) : photo.shape = "text"})
             raw == IF legacy = <<>> THEN NULL ELSE legacy
  <2>1. /\ Get(legacy, "manufacturer") = stated.brand
        /\ Get(legacy, "model") = stated.model
    BY <1>4 DEF Stated
  <2>2. /\ Or(item.brand, GetOr(legacy, "manufacturer", "")) = car.brand
        /\ Or(item.model, GetOr(legacy, "model", "")) = car.model
    <3> HIDE DEF stated, legacy
    <3>1. Or(item.brand, GetOr(legacy, "manufacturer", "")) = car.brand
      BY <1>1, <1>2, <1>3, <2>1, NameOfCar
    <3>2. Or(item.model, GetOr(legacy, "model", "")) = car.model
      BY <1>1, <1>2, <1>3, <2>1, NameOfCar
    <3> QED  BY <3>1, <3>2
  <2>3. ParseCarDetail(detail, item) =
           Row(Or(item.brand, GetOr(legacy, "manufacturer", "")),
               Or(item.model, GetOr(legacy, "model", "")),
               ParseYearMonth(stated.month), ToInt(stated.mileage), stated.color,
               price, photos, raw)
    BY <1>4 DEF ParseCarDetail, ParseLegacy, Stated
  <2>4. Range(photos) \subseteq {PhotoText(car)}
    BY <1>1, TextPhotos
  <2> HIDE DEF stated, price, photos, raw
  <2>5. Shows(Row(car.brand, car.model, ParseYearMonth(stated.month),
                  ToInt(stated.mileage), stated.color, price, photos, raw), stated, car)
    BY <1>1, <2>4, RowShowsCar
  <2> QED  BY <2>2, <2>3, <2>5 DEF stated
<1>5. CASE "car" \notin DOMAIN detail
  <2> DEFINE category == Section(detail, "category")
             amount == ToInt(Get(Section(detail, "advertisement"), "price"))
             price == IF amount = NULL THEN NULL ELSE amount * 10000
             photos == PhotoUrls(stated.photos)
  <2>1. /\ Get(category, "manufacturerName") = stated.brand
        /\ Get(category, "modelName") = stated.model
    BY <1>5 DEF Stated
  <2>2. /\ Or(item.brand, GetOr(category, "manufacturerName", "")) = car.brand
        /\ Or(item.model, GetOr(category, "modelName", "")) = car.model
    <3> HIDE DEF stated, category
    <3>1. Or(item.brand, GetOr(category, "manufacturerName", "")) = car.brand
      BY <1>1, <1>2, <1>3, <2>1, NameOfCar
    <3>2. Or(item.model, GetOr(category, "modelName", "")) = car.model
      BY <1>1, <1>2, <1>3, <2>1, NameOfCar
    <3> QED  BY <3>1, <3>2
  <2>3. ParseCarDetail(detail, item) =
           Row(Or(item.brand, GetOr(category, "manufacturerName", "")),
               Or(item.model, GetOr(category, "modelName", "")),
               ParseYearMonth(stated.month), ToInt(stated.mileage), stated.color,
               price, photos, detail)
    <3>1. /\ stated.month = Get(category, "yearMonth")
          /\ stated.mileage = Get(Section(detail, "spec"), "mileage")
          /\ stated.color = Get(Section(detail, "spec"), "colorName")
          /\ stated.photos = Section(detail, "photos")
      BY <1>5 DEF Stated
    <3>2. ParseCarDetail(detail, item) = ParseReal(detail, item)
      BY <1>5 DEF ParseCarDetail
    <3>3. ParseReal(detail, item) =
             Row(Or(item.brand, GetOr(category, "manufacturerName", "")),
                 Or(item.model, GetOr(category, "modelName", "")),
                 ParseYearMonth(Get(category, "yearMonth")),
                 ToInt(Get(Section(detail, "spec"), "mileage")),
                 Get(Section(detail, "spec"), "colorName"),
                 price, PhotoUrls(Section(detail, "photos")), detail)
      <4> HIDE DEF stated
      <4> QED  BY DEF ParseReal
    <3> HIDE DEF stated, category, price
    <3> QED  BY <3>1, <3>2, <3>3
  <2>4. Range(photos) \subseteq {PhotoText(car)}
    BY <1>1, DictPhotos
  <2> HIDE DEF stated, price, photos
  <2>5. Shows(Row(car.brand, car.model, ParseYearMonth(stated.month),
                  ToInt(stated.mileage), stated.color, price, photos, detail), stated, car)
    BY <1>1, <2>4, RowShowsCar
  <2> QED  BY <2>2, <2>3, <2>5 DEF stated
<1> QED  BY <1>4, <1>5

-----------------------------------------------------------------------------
(* The rows of a car are what run_dedup takes for one car.                 *)

(* The key and the photos of a row are those of its car.                   *)
LEMMA RowOfCar ==
    ASSUME CarsAssumption, WrittenAssumption, DetailsAssumption,
           NEW car \in Cars, NEW row \in RowsOf[car]
    PROVE  /\ HasKey(row) => \A f \in KeyColumns : row[f] = KeyOf(car)[f]
           /\ PhotoSet(row) \subseteq {PhotoText(car)}
<1>1. PICK detail \in Details[car] :
         \E item \in Items(car) : row = ParseCarDetail(detail, item)
  BY DEF RowsOf
<1>2. PICK item \in Items(car) : row = ParseCarDetail(detail, item)
  BY <1>1
<1>3. Shows(row, Stated(detail), car)
  BY <1>2, DetailShowsCar
<1>4. ASSUME HasKey(row)
      PROVE  /\ row.brand = car.brand /\ row.model = car.model
             /\ row.year_month = KeyOf(car).year_month
             /\ row.mileage_km = car.mileage
             /\ row.color_original = car.color
  <2>1. row.year_month # NULL /\ row.mileage_km # NULL /\ row.color_original # NULL
    BY <1>4 DEF HasKey, NullableKeyColumns
  <2> QED  BY <1>3, <2>1 DEF Shows
<1>5. /\ KeyOf(car).brand = car.brand /\ KeyOf(car).model = car.model
      /\ KeyOf(car).mileage_km = car.mileage
      /\ KeyOf(car).color_original = car.color
  BY DEF KeyOf
<1>6. HasKey(row) => \A f \in KeyColumns : row[f] = KeyOf(car)[f]
  BY <1>4, <1>5 DEF KeyColumns
<1>7. PhotoSet(row) \subseteq {PhotoText(car)}
  BY <1>3 DEF Shows
<1> QED  BY <1>6, <1>7

(* A payload that states everything makes a row with a key.                *)
LEMMA CompleteRowOfCar ==
    ASSUME CarsAssumption, WrittenAssumption, DetailsAssumption,
           NEW car \in Cars, NEW row \in CompleteRowsOf[car]
    PROVE  row \in RowsOf[car] /\ HasKey(row)
<1>1. PICK detail \in {d \in Details[car] : Complete(d)} :
         \E item \in Items(car) : row = ParseCarDetail(detail, item)
  BY DEF CompleteRowsOf
<1>2. PICK item \in Items(car) : row = ParseCarDetail(detail, item)
  BY <1>1
<1> DEFINE stated == Stated(detail)
<1>3. stated.month # NULL /\ stated.mileage # NULL /\ stated.color # NULL
  BY DEF Complete
<1>4. KeyOf(car).year_month # NULL
  BY StatedMonth
<1>5. car.mileage # NULL
  BY StatedMileage
<1>6. Shows(row, stated, car)
  BY <1>2, DetailShowsCar
<1> HIDE DEF stated
<1>7. row.year_month # NULL /\ row.mileage_km # NULL /\ row.color_original # NULL
  BY <1>3, <1>4, <1>5, <1>6 DEF Shows
<1>8. HasKey(row)
  BY <1>7 DEF HasKey, NullableKeyColumns
<1>9. row \in RowsOf[car]
  BY <1>2 DEF RowsOf
<1> QED  BY <1>8, <1>9

(* Two rows of which run_dedup makes one are of one car.                   *)
LEMMA DuplicatesOfOneCar ==
    ASSUME CarsAssumption, WrittenAssumption, DetailsAssumption,
           NEW a \in Cars, NEW b \in Cars, NEW r \in RowsOf[a], NEW s \in RowsOf[b],
           Duplicates(r, s)
    PROVE  a = b
<1>1. SUFFICES ASSUME a # b PROVE FALSE
  OBVIOUS
<1>2. KeyOf(a) # KeyOf(b) /\ a.photo # b.photo
  BY <1>1 DEF CarsAssumption
<1>3. CASE SameKey(r, s)
  <2>1. \A f \in KeyColumns : KeyOf(a)[f] = KeyOf(b)[f]
    BY <1>3, RowOfCar DEF SameKey
  <2>2. \A c \in {a, b} : KeyOf(c) = [f \in KeyColumns |-> KeyOf(c)[f]]
    BY DEF KeyOf, KeyColumns
  <2> QED  BY <1>2, <2>1, <2>2
<1>4. CASE SamePhotos(r, s)
  <2>1. PICK x : x \in PhotoSet(r) /\ x \in PhotoSet(s)
    BY <1>4 DEF SamePhotos
  <2>2. x = PhotoText(a) /\ x = PhotoText(b)
    BY <2>1, RowOfCar
  <2>3. a.photo = b.photo
    BY <2>2 DEF PhotoText
  <2> QED  BY <1>2, <2>3
<1> QED  BY <1>3, <1>4 DEF Duplicates

(* Two complete rows of one car have the same key.                         *)
LEMMA CompleteRowsSameKey ==
    ASSUME CarsAssumption, WrittenAssumption, DetailsAssumption,
           NEW car \in Cars, NEW r \in CompleteRowsOf[car], NEW s \in CompleteRowsOf[car]
    PROVE  SameKey(r, s)
BY CompleteRowOfCar, RowOfCar DEF SameKey

(* What Vitrine promises of rows is a promise about cars.                  *)
LEMMA OnceWhereNoTwins ==
    ASSUME CarsAssumption, WrittenAssumption, DetailsAssumption, ListedAssumption,
           VitrineTypeOK, HiddenBehindNewer, NoVisibleTwins
    PROVE  EachCarOnce
<1>1. ASSUME NEW i \in visible \ touched, NEW j \in visible \ touched, i # j,
             NEW car \in Cars, {cars[i], cars[j]} \subseteq CompleteRowsOf[car]
      PROVE  FALSE
  <2>1. SameKey(cars[i], cars[j])
    BY <1>1, CompleteRowsSameKey
  <2> QED  BY <1>1, <2>1 DEF NoVisibleTwins
<1>2. ASSUME NEW i \in DOMAIN cars \ (visible \cup touched)
      PROVE  \E j \in visible :
                j \in touched \/ \E car \in Cars : {cars[i], cars[j]} \subseteq RowsOf[car]
  <2>1. PICK j \in visible : j \in touched \/ Duplicates(cars[i], cars[j])
    BY <1>2 DEF HiddenBehindNewer
  <2>2. cars[i] \in Rows /\ cars[j] \in Rows
    BY <1>2 DEF VitrineTypeOK
  <2>3. PICK a \in Cars : cars[i] \in RowsOf[a]
    BY <2>2 DEF ListedAssumption
  <2>4. PICK b \in Cars : cars[j] \in RowsOf[b]
    BY <2>2 DEF ListedAssumption
  <2>5. Duplicates(cars[i], cars[j]) => a = b
    BY <2>3, <2>4, DuplicatesOfOneCar
  <2> QED  BY <2>1, <2>3, <2>4, <2>5
<1> QED  BY <1>1, <1>2 DEF EachCarOnce

(* One change at a time, and given that two cars differ in their key and   *)
(* in their photo: right after a pass no two visible listings with         *)
(* complete data are of one car, however encar spells them, and a listing  *)
(* is hidden only behind one of the same car (dedup.py:3).                 *)
THEOREM VitrineEachCarOnce == VitrineSpec => []EachCarOnce
<1>1. VitrineInv => EachCarOnce
  BY OnceWhereNoTwins, CarsAssumption, WrittenAssumption, DetailsAssumption, ListedAssumption
     DEF VitrineInv, Promises
<1> QED  BY InitVitrine, NextVitrine, <1>1, PTL DEF VitrineSpec
=============================================================================
