------------------------------ MODULE ListWalk ------------------------------
(***************************************************************************)
(* The walk of one search model (encar_parser/pipeline.py): page after     *)
(* page of the list is requested, and each listed car is fetched, stored   *)
(* and linked to the model.  run_model walks the whole list;               *)
(* run_model_incremental stops at the first page whose first car was seen  *)
(* within the cooldown, because the list is sorted newest first.           *)
(*                                                                         *)
(* The feed is encar's side and changes while a walk is under way.  Its    *)
(* answers are not to be relied on: the Count may be missing or wrong,     *)
(* entries may be malformed, and past a certain depth pages are empty.     *)
(* Ages (times since last_seen_at and last_run_at) count in ticks and      *)
(* saturate beyond the cooldown, which is all the code compares them with. *)
(* A detail page that cannot be fetched, parsed or stored is skipped.      *)
(***************************************************************************)
EXTENDS Scheduler, SequencesExt

CONSTANTS Models,           \* search models
          Ids,              \* encar_ids
          Matches,          \* encar_id -> the models whose filter it matches
          PageSize,         \* limit of the model's list request
          AssumedPageSize,  \* _infer_page_size: 20, the default limit
          MaxPages,         \* settings.max_pages
          DepthCaps,        \* how many results encar may serve of a list
          Counts,           \* the numbers encar may give as the Count
          None,             \* a Count that is missing or not an integer
          Cooldown,         \* settings.scheduler_cooldown_hours, in ticks
          MaxEvents,        \* bound: feed changes, failures and kills
          Never

ASSUME WalkAssumption ==
    /\ Matches \in [Ids -> SUBSET Models]
    /\ {PageSize, AssumedPageSize, MaxPages} \subseteq Nat \ {0}
    /\ Cooldown \in Nat /\ MaxEvents \in Nat
    /\ DepthCaps \subseteq Nat /\ Counts \subseteq Nat
    /\ Never \notin Nat /\ None \notin Nat
    /\ IsFiniteSet(Ids)

Modes == {"full", "incremental"}

VARIABLES feed,     \* model -> its list, newest ModifiedDate first
          depth,    \* encar serves so many results of a list: about 1000
          seen,     \* encar_id -> age of last_seen_at, Never if not stored
          linked,   \* car_model_matches: pairs <<model, encar_id>>
          lastRun,  \* model -> age of last_run_at, Never if NULL
          walk,     \* the walk under way, or Off
          calm,     \* history: so far no request failed, no command was
                    \* killed, no known listing returned to the top, no
                    \* list was too long, the answers were sound and the
                    \* feed changed between walks only
          events    \* feed changes, failures and kills so far

vars == <<feed, depth, seen, linked, lastRun, walk, calm, events>>

Off == [at |-> "off"]

(* What encar may list when it is first looked at: no car twice.           *)
Lists(m) == SetToAllKPermutations({i \in Ids : m \in Matches[i]})

(* A walk gets to the end of the list: the page size it assumes is not     *)
(* above the one it asks for, MaxPages pages are enough, and encar serves  *)
(* all of the list (pipeline.py:195: it returns empty pages past ~1000).   *)
Fits(list) == /\ PageSize >= AssumedPageSize
              /\ Len(list) <= MaxPages * PageSize
              /\ Len(list) <= depth

Init == /\ feed \in {f \in [Models -> UNION {Lists(m) : m \in Models}] :
                        \A m \in Models : f[m] \in Lists(m)}
        /\ depth \in DepthCaps
        /\ seen = [i \in Ids |-> Never]
        /\ linked = {}
        /\ lastRun = [m \in Models |-> Never]
        /\ walk = Off
        /\ calm = \A m \in Models : Fits(feed[m])
        /\ events = 0

Older(age) == IF age = Never THEN Never
              ELSE IF age > Cooldown THEN age ELSE age + 1

Event == /\ events < MaxEvents
         /\ events' = events + 1

-----------------------------------------------------------------------------
(* Outside: time, encar's feed, the operator.                              *)

Tick == /\ seen' = [i \in Ids |-> Older(seen[i])]
        /\ lastRun' = [m \in Models |-> Older(lastRun[m])]
        /\ UNCHANGED <<feed, depth, linked, walk, calm, events>>

Listed(i) == \E m \in Models : i \in Range(feed[m])

(* What the feed does to the walk under way: `stayed` are the listings it  *)
(* can be blamed for, its own `calm` is lost.                              *)
Disturbed(w, withdrawn) ==
    IF w = Off THEN Off
    ELSE [w EXCEPT !.stayed = @ \ withdrawn, !.calm = FALSE]

(* A new or modified listing goes to the top of every list it matches.     *)
Publish(i) ==
    /\ Event
    /\ feed' = [m \in Models |-> IF m \in Matches[i]
                                 THEN <<i>> \o RemoveFirst(feed[m], i) ELSE feed[m]]
    /\ walk' = Disturbed(walk, {})
    /\ calm' = (calm /\ walk = Off /\ ~Listed(i) /\ seen[i] = Never
                     /\ \A m \in Matches[i] : Fits(feed'[m]))
    /\ UNCHANGED <<depth, seen, linked, lastRun>>

(* A listing is sold.                                                      *)
Withdraw(i) ==
    /\ Event
    /\ Listed(i)
    /\ feed' = [m \in Models |-> RemoveFirst(feed[m], i)]
    /\ walk' = Disturbed(walk, {i})
    /\ calm' = (calm /\ walk = Off)
    /\ UNCHANGED <<depth, seen, linked, lastRun>>

Kill == /\ Event
        /\ walk # Off
        /\ walk' = Off
        /\ calm' = FALSE
        /\ UNCHANGED <<feed, depth, seen, linked, lastRun>>

(* run-incremental takes models out of their cooldown only; backfill takes *)
(* every model.                                                            *)
StartWalk(m, mode) ==
    /\ walk = Off
    /\ mode = "incremental" => m \in Ready({m}, lastRun, Cooldown, Never)
    /\ walk' = [at |-> "list", model |-> m, mode |-> mode, page |-> 1,
                items |-> <<>>, got |-> 0, reported |-> None, collected |-> 0,
                fetched |-> 0, stayed |-> Range(feed[m]), calm |-> TRUE]
    /\ UNCHANGED <<feed, depth, seen, linked, lastRun, calm, events>>

-----------------------------------------------------------------------------
(* The walk.                                                               *)

(* What encar serves as page p: nothing past its depth.                    *)
Page(m, p) == SubSeq(feed[m], (p - 1) * PageSize + 1,
                     Min({p * PageSize, Len(feed[m]), depth}))

(* parse_search_list skips malformed entries: any of the page may be lost, *)
(* the others stay in order.                                               *)
Kept(n) == {f \in UNION {[1 .. k -> 1 .. n] : k \in 0 .. n} :
                \A i, j \in DOMAIN f : i < j => f[i] < f[j]}
Parsed(page) == {[k \in DOMAIN f |-> page[f[k]]] : f \in Kept(Len(page))}

(* A Count that would end the walk before the end of the list.             *)
TooLow(count, list) == count # None /\ count < Len(list)

SeenEver(i) == seen[i] # Never          \* a plausible bug: for however long
SeenRecently(i) == seen[i] # Never /\ seen[i] <= Cooldown

(* Plausible bugs: the last car of the page is looked at instead of the    *)
(* first, the full walk stops as well.                                     *)
StopsAtLast(mode, items) ==
    items = <<>> \/ (mode = "incremental" /\ SeenRecently(items[Len(items)]))
StopsInAnyMode(mode, items) == items = <<>> \/ SeenRecently(items[1])

(* No page, or (incremental) a page that begins with a recent car.         *)
StopsBefore(mode, items) ==
    items = <<>> \/ (mode = "incremental" /\ SeenRecently(items[1]))

(* The Count of the first page is kept, right or wrong, if there is one.   *)
FetchPage ==
    /\ walk.at = "list"
    /\ LET page == Page(walk.model, walk.page)
           first == walk.page = 1 IN
       \E count \in Counts \cup {None}, items \in Parsed(page) :
          LET stops == StopsBefore(walk.mode, items)
              sound == /\ items = page
                       /\ first => ~TooLow(count, feed[walk.model]) IN
          /\ walk' = [walk EXCEPT
                        !.reported = IF first THEN count ELSE @,
                        !.at = IF stops THEN "done" ELSE "items",
                        !.items = IF stops THEN <<>> ELSE items,
                        !.got = Len(items),
                        !.collected = IF stops THEN @ ELSE @ + Len(items),
                        !.calm = @ /\ sound]
          /\ calm' = (calm /\ sound)
    /\ UNCHANGED <<feed, depth, seen, linked, lastRun, events>>

(* The list request fails: the walk raises and leaves last_run_at alone.   *)
ListFails ==
    /\ Event
    /\ walk.at = "list"
    /\ walk' = Off
    /\ calm' = FALSE
    /\ UNCHANGED <<feed, depth, seen, linked, lastRun>>

LinkOnly ==                             \* a plausible bug: no upsert
    /\ walk.at = "items"
    /\ walk.items # <<>>
    /\ linked' = linked \cup {<<walk.model, Head(walk.items)>>}
    /\ walk' = [walk EXCEPT !.items = Tail(@), !.fetched = @ + 1]
    /\ UNCHANGED <<feed, depth, seen, lastRun, calm, events>>

(* upsert_car and its commit ...                                           *)
Store ==
    /\ walk.at = "items"
    /\ walk.items # <<>>
    /\ seen' = [seen EXCEPT ![Head(walk.items)] = 0]
    /\ walk' = [walk EXCEPT !.at = "link"]
    /\ UNCHANGED <<feed, depth, linked, lastRun, calm, events>>

(* ... then link_car_to_model and its commit.                              *)
Link ==
    /\ walk.at = "link"
    /\ linked' = linked \cup {<<walk.model, Head(walk.items)>>}
    /\ walk' = [walk EXCEPT !.at = "items", !.items = Tail(@), !.fetched = @ + 1]
    /\ UNCHANGED <<feed, depth, seen, lastRun, calm, events>>

(* Whatever goes wrong with one car is logged and the next one is taken.   *)
CarFails ==
    /\ Event
    /\ walk.at \in {"items", "link"}
    /\ walk.items # <<>>
    /\ walk' = [walk EXCEPT !.at = "items", !.items = Tail(@), !.calm = FALSE]
    /\ calm' = FALSE
    /\ UNCHANGED <<feed, depth, seen, linked, lastRun>>

(* A plausible bug: a missing Count is taken for 0.                        *)
StopsWithoutCount(w) == \/ w.reported = None \/ w.collected >= w.reported
                        \/ w.got < AssumedPageSize
                        \/ w.page = MaxPages

(* The three reasons to stop after a page.                                 *)
StopsAfter(w) == \/ w.reported # None /\ w.collected >= w.reported
                 \/ w.got < AssumedPageSize
                 \/ w.page = MaxPages

PageEnd ==
    /\ walk.at = "items"
    /\ walk.items = <<>>
    /\ walk' = IF StopsAfter(walk) THEN [walk EXCEPT !.at = "done"]
               ELSE [walk EXCEPT !.at = "list", !.page = @ + 1]
    /\ UNCHANGED <<feed, depth, seen, linked, lastRun, calm, events>>

(* A full walk always sets last_run_at, an incremental one only if it      *)
(* stored a car.  run-incremental detaches all objects from the session    *)
(* after each model, so from its second model on the commit writes nothing.*)
EndWalk ==
    /\ walk.at = "done"
    /\ \/ /\ walk.mode = "full" \/ walk.fetched > 0
          /\ lastRun' = [lastRun EXCEPT ![walk.model] = 0]
       \/ /\ walk.mode = "incremental"
          /\ UNCHANGED lastRun
    /\ walk' = Off
    /\ UNCHANGED <<feed, depth, seen, linked, calm, events>>

Step == FetchPage \/ Store \/ Link \/ PageEnd \/ EndWalk

Next == \/ Tick
        \/ \E i \in Ids : Publish(i) \/ Withdraw(i)
        \/ \E m \in Models, mode \in Modes : StartWalk(m, mode)
        \/ Step
        \/ ListFails \/ CarFails \/ Kill

Spec == Init /\ [][Next]_vars

(* Time passes, a walk moves on (its requests have timeouts) and cron      *)
(* comes back to every model; a backfill is nothing one can count on.      *)
Fairness == /\ WF_vars(Tick)
            /\ WF_vars(Step)
            /\ \A m \in Models : SF_vars(StartWalk(m, "incremental"))

FairSpec == Spec /\ Fairness

-----------------------------------------------------------------------------
Ages == 0 .. Cooldown + 1

Walk == [at : {"list", "items", "link", "done"}, model : Models, mode : Modes,
         page : 1 .. MaxPages, items : Seq(Ids), got : 0 .. PageSize,
         reported : Nat \cup {None}, collected : Nat, fetched : Nat, stayed : SUBSET Ids,
         calm : BOOLEAN]

TypeOK == /\ feed \in [Models -> Seq(Ids)]
          /\ depth \in DepthCaps
          /\ \A m \in Models : IsInjective(feed[m])
          /\ seen \in [Ids -> Ages \cup {Never}]
          /\ linked \subseteq Models \X {i \in Ids : seen[i] # Never}
          /\ lastRun \in [Models -> Ages \cup {Never}]
          /\ walk = Off \/ walk \in Walk
          /\ calm \in BOOLEAN
          /\ events \in 0 .. MaxEvents

(* Every car that was in the list from the start is stored and linked.     *)
Covered == \A i \in walk.stayed : <<walk.model, i>> \in linked

OverlapsAnother(m) == \E i \in Ids : m \in Matches[i] /\ Matches[i] # {m}

(* A full walk in which nothing fails, whose answers are sound and during  *)
(* which the feed is stable has covered the list when it ends ("list all   *)
(* cars (paginated), fetch each", pipeline.py:152), whatever happened to   *)
(* earlier walks; provided the list is neither too long for it nor longer  *)
(* than encar serves.  Sound answers: every entry of a page can be parsed, *)
(* and the Count of the first page, if there is one, is not below the      *)
(* length of the list (pipeline.py:60-65, 181-184).                        *)
FullWalkCovers ==
    walk.at = "done" /\ walk.mode = "full" /\ walk.calm
      /\ Fits(feed[walk.model]) => Covered

(* An incremental walk has covered the list when it ends, as long as       *)
(* nothing ever failed or was killed, new cars are all that appears at the *)
(* top, no list is too long, every answer was sound, the feed is stable    *)
(* during walks, and the list of the model does not overlap with another.  *)
(* Every one of these conditions is needed: the walk stops at a page whose *)
(* first car is recent.                                                    *)
IncrementalWalkCovers ==
    walk.at = "done" /\ calm /\ ~OverlapsAnother(walk.model) => Covered

(* What either kind of walk may claim when it ends.  An incremental walk   *)
(* cannot claim the first part: after a walk that was killed in the middle *)
(* of a page the first car is recent and the ones behind it are unstored   *)
(* (pipeline.py:286-288 assumes they are older than what we have).         *)
WalkCoversList == FullWalkCovers /\ IncrementalWalkCovers

(* Whatever failed, was killed or was answered wrongly on the way, a       *)
(* listing that stays is stored and linked in the end (pipeline.py:290-291:*)
(* a model that's been idle for cooldown_hours picks up where it left off) *)
(* if from some time on its list fits and the walks of its model go        *)
(* undisturbed and get sound answers; unless the list overlaps with that   *)
(* of another model: the walks of the other then keep the cars at its top  *)
(* recent, and the cars behind them may never be read.  What stays behind  *)
(* encar's depth, a Count that is too low or a page that is short because  *)
(* of malformed entries is never promised to be linked.                    *)
WalksAreSound(m) == walk # Off /\ walk.model = m => walk.calm

EveryListingLinked ==
    \A m \in Models, i \in Ids :
        <>[](i \in Range(feed[m]) /\ Fits(feed[m]) /\ WalksAreSound(m))
          /\ ~OverlapsAnother(m) => <>(<<m, i>> \in linked)
=============================================================================
