------------------------------ MODULE Planner ------------------------------
(***************************************************************************)
(* The plan command (plan.py): what it says about the days to come, next   *)
(* to the rotation that then takes place.  A plan reads the enabled models,*)
(* their last_run_at and a cache of counts; it writes only the cache.      *)
(*                                                                         *)
(* Ages are whole days since a run, up to one more than the cooldown; a    *)
(* model that was never run is as ready as one that ran long ago.          *)
(*                                                                         *)
(* The calendar of Rotation is that of run-incremental, which takes the    *)
(* date in UTC.  A plan begins with the date of --day or, without it, with *)
(* the local date, which east of Greenwich is already tomorrow's for a     *)
(* part of every day; so the first date of a plan is given in days from    *)
(* the UTC date on which it is made, and need not be 0 even without --day. *)
(***************************************************************************)
EXTENDS Rotation, Integers

CONSTANTS Cooldown,     \* in days
          Days,         \* the values of --days
          Starts        \* first dates of a plan: 0 and 1 for the local date
                        \* in Seoul, anything with --day

ASSUME PlannerAssumption == /\ Cooldown \in Nat
                            /\ Days \subseteq Nat \ {0}
                            /\ Starts \subseteq Int

VARIABLES age,          \* last_run_at
          counts,       \* the models listed in the cache of counts
          plan,         \* the last plan, until the pool changes or it is over
          ahead,        \* days, in UTC, since that plan was made
          ran           \* history: models run since then

plannerVars == <<vars, age, counts, plan, ahead, ran>>

NoPlan == [buckets |-> 0]
Never == Cooldown + 1

PlannerInit == /\ Init
               /\ age = [m \in Models |-> Never]
               /\ counts = {}
               /\ plan = NoPlan
               /\ ahead = 0
               /\ ran = {}

-----------------------------------------------------------------------------
(* tm_yday of the day k days from today, if that is less than a year away; *)
(* last is the length of the year before this one.                         *)
BugYdayIn(k, last) == yday + k          \* the year does not end
YdayIn(k, last) == IF yday + k < 1 THEN yday + k + last
                   ELSE IF yday + k <= yearLength THEN yday + k
                   ELSE yday + k - yearLength

(* build_day_plan: the bucket of that day, split by the cooldown as it is  *)
(* when the plan is made; a count is measured or the average.              *)
BuildDayPlan(day, buckets, cache) ==
    LET bucket == BucketFor(enabled, day, buckets)
        ready == Ready(bucket, age, Cooldown, Never)
    IN [models |-> ready, skipped |-> bucket \ ready, measured |-> ready \cap cache]

(* run_plan_cli: one day with the buckets of the settings, or `days` days  *)
(* with as many buckets as days (build_rotation_plan).  The two counts run *)
(* over the days, so what they count is pairs of a day and a model.        *)
RunPlan(start, days, last, cache) ==
    LET buckets == IF days <= 1 THEN BucketCount ELSE days
        day == [k \in 0 .. days - 1 |->
                   BuildDayPlan(YdayIn(start + k, last), buckets, cache)]
    IN [buckets |-> buckets, start |-> start, days |-> days, day |-> day,
        measured_models |-> Cardinality({x \in (0 .. days - 1) \X enabled :
                                            x[2] \in day[x[1]].measured}),
        fallback_models |-> Cardinality({x \in (0 .. days - 1) \X enabled :
                                            x[2] \in day[x[1]].models \ day[x[1]].measured})]

(* With --probe every enabled model is counted first, 0 for a failed probe,*)
(* and the cache is replaced; otherwise the cache is read, if it can be.   *)
Plan(start, days, probe) ==
    /\ counts' = IF probe THEN enabled ELSE counts
    /\ \E cache \in IF probe THEN {enabled} ELSE {counts, {}} :
          \E last \in YearLengths : plan' = RunPlan(start, days, last, cache)
    /\ ahead' = 0
    /\ ran' = {}
    /\ UNCHANGED <<vars, age>>

(* run-incremental takes models of the bucket that are ready (not all if   *)
(* it is capped, fails or is killed).                                      *)
Run ==
    /\ \E some \in SUBSET PlanToday(enabled, yday, BucketCount, age, Cooldown, Never) :
          /\ some # {}
          /\ age' = [m \in Models |-> IF m \in some THEN 0 ELSE age[m]]
          /\ ran' = IF plan = NoPlan THEN {} ELSE ran \cup some
    /\ UNCHANGED <<vars, counts, plan, ahead>>

Drop == plan' = NoPlan /\ ahead' = 0 /\ ran' = {}

(* A plan is over when none of its dates is left.                          *)
DayPasses ==
    /\ NewDay
    /\ age' = [m \in Models |-> IF age[m] = Never THEN Never ELSE age[m] + 1]
    /\ IF plan # NoPlan /\ ahead + 1 < plan.start + plan.days
       THEN ahead' = ahead + 1 /\ UNCHANGED <<plan, ran>>
       ELSE Drop
    /\ UNCHANGED counts

PoolChanges == Sync /\ Drop /\ UNCHANGED <<age, counts>>

PlannerNext == \/ \E start \in Starts, days \in Days, probe \in BOOLEAN :
                     Plan(start, days, probe)
               \/ Run
               \/ DayPasses
               \/ PoolChanges

PlannerSpec == PlannerInit /\ [][PlannerNext]_plannerVars

(* Days go by.                                                             *)
FairPlannerSpec == PlannerSpec /\ WF_plannerVars(DayPasses)

-----------------------------------------------------------------------------
(* A plan with the buckets of the settings comes true as far as it can:    *)
(* each of its days is the bucket that run-incremental is offered on the   *)
(* UTC date which the plan names, however long before it was made and      *)
(* across 1 January too, and a model it announces is ready then unless it  *)
(* was run after the plan was made.  A plan of a whole rotation within the *)
(* year has each enabled model on exactly one day, days that differ by one *)
(* model at most, and counts every model it announces once as measured or  *)
(* estimated (plan.py:216-252).  Plans with another number of days         *)
(* announce a rotation that never takes place.                             *)
PlanComesTrue ==
    plan.buckets = BucketCount =>
      LET today == ahead - plan.start     \* the day of the plan that is today
          first == yday - today           \* tm_yday of its first day
          Bucket(k) == plan.day[k].models \cup plan.day[k].skipped
      IN /\ today \in DOMAIN plan.day =>
              /\ Bucket(today) = Today
              /\ plan.day[today].models \ Ready(Today, age, Cooldown, Never) \subseteq ran
         /\ /\ plan.days = BucketCount
            /\ yday > ahead
            /\ 1 <= first
            /\ first + BucketCount - 1 <= yearLength
            => /\ \A m \in enabled : \E k \in DOMAIN plan.day :
                     m \in Bucket(k) /\ \A j \in DOMAIN plan.day \ {k} : m \notin Bucket(j)
               /\ \A j, k \in DOMAIN plan.day :
                     Cardinality(Bucket(j)) <= Cardinality(Bucket(k)) + 1
               /\ plan.measured_models + plan.fallback_models =
                     Cardinality(UNION {plan.day[k].models : k \in DOMAIN plan.day})
=============================================================================
