----------------------------- MODULE Scheduler -----------------------------
(***************************************************************************)
(* The pure functions of encar_parser/scheduler.py: which of the enabled   *)
(* models a daily run takes.  A model is its position in (priority, slug)  *)
(* order among all models there are, so the sort of bucket_for is the      *)
(* order of the numbers; ages are times since last_run_at.                 *)
(***************************************************************************)
EXTENDS Naturals, FiniteSets

(* The next model of a loop over a list of models.                         *)
First(models) == CHOOSE m \in models : \A k \in models : m <= k

(* models[:max_models], when max_models is given (not 0) and too small.    *)
Truncate(models, maxModels) ==
    IF maxModels = 0 THEN models
    ELSE {m \in models : Cardinality({k \in models : k <= m}) <= maxModels}

(* enumerate(sorted_models): the index of m among the models given.        *)
Index(models, m) == Cardinality({k \in models : k < m})

(* (today.timetuple().tm_yday - 1) % bucket_count                          *)
BucketIndex(yday, bucketCount) == (yday - 1) % bucketCount

(* Two plausible bugs: the index is not taken modulo the number of         *)
(* buckets, and the position among all models is taken for the index.      *)
BucketNoWrap(models, yday, bucketCount) ==
    {m \in models : Index(models, m) = BucketIndex(yday, bucketCount)}
BucketOfAll(models, yday, bucketCount) ==
    {m \in models : m % bucketCount = BucketIndex(yday, bucketCount)}

BucketFor(models, yday, bucketCount) ==
    {m \in models : Index(models, m) % bucketCount = BucketIndex(yday, bucketCount)}

(* filter_by_cooldown: ready if never parsed, or parsed strictly more than *)
(* the cooldown ago.                                                       *)
Ready(models, age, cooldown, Never) ==
    {m \in models : age[m] = Never \/ age[m] > cooldown}

(* today_models of plan_today.                                             *)
PlanToday(models, yday, bucketCount, age, cooldown, Never) ==
    Ready(BucketFor(models, yday, bucketCount), age, cooldown, Never)
=============================================================================
