------------------------------ MODULE Rotation ------------------------------
(***************************************************************************)
(* The rotation over the calendar: every day the bucket of that day is     *)
(* offered to run-incremental (scheduler.bucket_for).  The bucket depends  *)
(* on the day of the year, so the sequence of buckets starts again on      *)
(* every 1 January, and on the index of a model among the enabled ones, so *)
(* every sync may move a model to another bucket.                          *)
(***************************************************************************)
EXTENDS Scheduler

CONSTANTS NumModels,    \* models ever enabled, in (priority, slug) order
          BucketCount,  \* settings.scheduler_bucket_count
          YearLengths,  \* {365, 366}
          MaxSyncs      \* bound: changes of the pool in a behaviour

ASSUME CalendarAssumption ==
    /\ NumModels \in Nat /\ MaxSyncs \in Nat
    /\ BucketCount \in Nat \ {0}
    /\ YearLengths \subseteq Nat \ {0}
    /\ YearLengths # {}

Models == 1 .. NumModels

VARIABLES yday,         \* tm_yday of today
          yearLength,   \* days of this year
          enabled,      \* search_models with enabled = TRUE
          wait,         \* history: days since a model was in the bucket of
                        \* the day, or since the pool changed
          syncs         \* changes of the pool so far

vars == <<yday, yearLength, enabled, wait, syncs>>

(* Two rotations; where `wait` stops counting.                             *)
MaxWait == 2 * BucketCount

Today == BucketFor(enabled, yday, BucketCount)

Init == /\ yearLength \in YearLengths
        /\ yday \in 1 .. yearLength
        /\ enabled \in SUBSET Models
        /\ wait = [m \in Models |-> 0]
        /\ syncs = 0

NextDay ==
    \/ /\ yday < yearLength
       /\ yday' = yday + 1
       /\ UNCHANGED yearLength
    \/ /\ yday = yearLength
       /\ yday' = 1
       /\ yearLength' \in YearLengths

NewDay ==
    /\ NextDay
    /\ UNCHANGED <<enabled, syncs>>
    /\ wait' = [m \in Models |->
                  IF m \notin enabled \ Today' THEN 0
                  ELSE IF wait[m] < MaxWait THEN wait[m] + 1 ELSE MaxWait]

(* sync enables and disables models; the others change index with them.    *)
Sync ==
    /\ syncs < MaxSyncs
    /\ syncs' = syncs + 1
    /\ enabled' \in SUBSET Models
    /\ wait' = [m \in Models |-> 0]
    /\ UNCHANGED <<yday, yearLength>>

Next == NewDay \/ Sync

Spec == Init /\ [][Next]_vars

(* Days go by.                                                             *)
FairSpec == Spec /\ WF_vars(NewDay)

-----------------------------------------------------------------------------
TypeOK == /\ yearLength \in YearLengths
          /\ yday \in 1 .. yearLength
          /\ enabled \in SUBSET Models
          /\ wait \in [Models -> 0 .. MaxWait]
          /\ syncs \in 0 .. MaxSyncs

(* Every 1 January cuts a rotation short, so a model may have to wait for  *)
(* the rest of one rotation and most of the next one, but never longer:    *)
(* its bucket comes up again within 2 * bucket_count - 1 days.  (The one   *)
(* rotation that plan.py:227 and tests/unit/test_scheduler.py:71 promise   *)
(* is right only between two 1 Januaries.)                                 *)
WaitIsBounded == \A m \in enabled : wait[m] <= 2 * BucketCount - 2

(* A pool that no longer changes is visited again and again, across years  *)
(* of any lengths, as long as no year has fewer days than there are        *)
(* buckets; otherwise the last buckets never have a day.                   *)
EveryModelComesUp ==
    \A m \in Models : <>[](m \in enabled) => []<>(m \in Today)
=============================================================================
