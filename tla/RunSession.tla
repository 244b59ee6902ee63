----------------------------- MODULE RunSession -----------------------------
(***************************************************************************)
(* One run-incremental command and its database session (cli.py,           *)
(* _run_incremental_async).  All models of the day share one SQLAlchemy    *)
(* session, and two things happen to it on the way:                        *)
(*                                                                         *)
(*   - after every model expunge_all detaches every object, also the       *)
(*     search models still to come, so what is assigned to them later is   *)
(*     never flushed;                                                      *)
(*   - a commit whose flush fails (a value the column cannot hold, a key   *)
(*     another process inserted, a lost connection) leaves the session in  *)
(*     need of a rollback that nobody issues: every later statement raises,*)
(*     and so does reading an attribute of an object still attached.       *)
(*                                                                         *)
(* What a walk stores is modelled in ListWalk; here it is only whether it  *)
(* stored a car.  Ages are as in ListWalk.                                 *)
(***************************************************************************)
EXTENDS Scheduler

CONSTANTS NumModels, BucketCount, Cooldown,
          Caps,         \* values of --max-models
          MaxEvents,    \* bound: rejected rows, lost connections, kills
          Never

ASSUME SessionAssumption ==
    /\ NumModels \in Nat /\ Cooldown \in Nat /\ MaxEvents \in Nat
    /\ BucketCount \in Nat \ {0}
    /\ Caps \subseteq Nat
    /\ Never \notin Nat

Models == 1 .. NumModels

VARIABLES lastRun,      \* model -> age of search_models.last_run_at, or Never
          ran,          \* history: model -> age of its last walk that
                        \* stored a car and ended normally, or Never
          unfolded,     \* history: a car was stored since the last dedup
          cmd,          \* the command under way, or Off
          events        \* rejected rows, lost connections, kills so far

vars == <<lastRun, ran, unfolded, cmd, events>>

Off == [at |-> "off"]

Init == /\ lastRun = [m \in Models |-> Never]
        /\ ran = [m \in Models |-> Never]
        /\ unfolded = FALSE
        /\ cmd = Off
        /\ events = 0

Older(age) == IF age = Never THEN Never
              ELSE IF age > Cooldown THEN age ELSE age + 1

Event == /\ events < MaxEvents
         /\ events' = events + 1

-----------------------------------------------------------------------------
Tick == /\ lastRun' = [m \in Models |-> Older(lastRun[m])]
        /\ ran' = [m \in Models |-> Older(ran[m])]
        /\ UNCHANGED <<unfolded, cmd, events>>

(* plan_today and the cap.  With nothing to do the command ends at once.   *)
Start(yday, cap) ==
    /\ cmd = Off
    /\ LET plan == PlanToday(Models, yday, BucketCount, lastRun, Cooldown, Never)
       IN /\ plan # {}
          /\ cmd' = [at |-> "next", todo |-> Truncate(plan, cap),
                     fetched |-> FALSE, attached |-> TRUE, dead |-> FALSE]
    /\ UNCHANGED <<lastRun, ran, unfolded, events>>

BeginAnyway ==                          \* a plausible bug
    /\ cmd.at = "next"
    /\ cmd' = [cmd EXCEPT !.at = "cars", !.fetched = FALSE]
    /\ UNCHANGED <<lastRun, ran, unfolded, events>>

BeginModel ==
    /\ cmd.at = "next"
    /\ cmd.todo # {}
    /\ cmd' = [cmd EXCEPT !.at = "cars", !.fetched = FALSE]
    /\ UNCHANGED <<lastRun, ran, unfolded, events>>

(* A car of the list is stored.  Cars that cannot be fetched or parsed,    *)
(* and all cars once the session is dead, are skipped.                     *)
StoreCar ==
    /\ cmd.at = "cars"
    /\ ~cmd.dead
    /\ cmd' = [cmd EXCEPT !.fetched = TRUE]
    /\ unfolded' = TRUE
    /\ UNCHANGED <<lastRun, ran, events>>

(* The database rejects the row.  The handler of _process_items logs the   *)
(* slug of the model, and so does the one in the loop of the command: both *)
(* raise if the model is attached, and the command ends.                   *)
RowRejected ==
    /\ Event
    /\ cmd.at = "cars"
    /\ ~cmd.dead
    /\ cmd' = IF cmd.attached THEN Off ELSE [cmd EXCEPT !.dead = TRUE]
    /\ UNCHANGED <<lastRun, ran, unfolded>>

(* The connection is lost under a SELECT: the session is as dead, but no   *)
(* object expires, so the handlers do not raise.                           *)
ConnectionLost ==
    /\ Event
    /\ cmd.at = "cars"
    /\ cmd' = [cmd EXCEPT !.dead = TRUE]
    /\ UNCHANGED <<lastRun, ran, unfolded>>

(* expunge_all and on to the next model.                                   *)
NextModel(c) == [c EXCEPT !.at = "next", !.todo = @ \ {First(@)}, !.attached = FALSE]

(* A plausible bug: last_run_at is set even if no car was stored.          *)
EndAlways ==
    /\ cmd.at = "cars"
    /\ ~cmd.dead
    /\ lastRun' = IF cmd.attached
                  THEN [lastRun EXCEPT ![First(cmd.todo)] = 0] ELSE lastRun
    /\ ran' = IF cmd.fetched THEN [ran EXCEPT ![First(cmd.todo)] = 0] ELSE ran
    /\ cmd' = NextModel(cmd)
    /\ UNCHANGED <<unfolded, events>>

(* The walk ends.  If it stored a car, it sets last_run_at and commits,    *)
(* which writes the row only if the model is attached.                     *)
EndModel ==
    /\ cmd.at = "cars"
    /\ ~cmd.dead
    /\ lastRun' = IF cmd.fetched /\ cmd.attached
                  THEN [lastRun EXCEPT ![First(cmd.todo)] = 0] ELSE lastRun
    /\ ran' = IF cmd.fetched THEN [ran EXCEPT ![First(cmd.todo)] = 0] ELSE ran
    /\ cmd' = NextModel(cmd)
    /\ UNCHANGED <<unfolded, events>>

RaiseEndsCommand ==                     \* a plausible bug: no try around it
    /\ cmd.at = "cars"
    /\ cmd' = Off
    /\ UNCHANGED <<lastRun, ran, unfolded, events>>

(* The walk raises: a list request failed, or the session is dead.  The    *)
(* loop counts the error and goes on.                                      *)
ModelRaises ==
    /\ cmd.at = "cars"
    /\ cmd' = NextModel(cmd)
    /\ UNCHANGED <<lastRun, ran, unfolded, events>>

(* A plausible bug: dedup only if the last model stored something.         *)
DedupIfLastFetched ==
    /\ cmd.at = "next"
    /\ cmd.todo = {}
    /\ unfolded' = (unfolded /\ (cmd.dead \/ ~cmd.fetched))
    /\ cmd' = Off
    /\ UNCHANGED <<lastRun, ran, events>>

(* run_dedup and the commit; both raise on a dead session.                 *)
Dedup ==
    /\ cmd.at = "next"
    /\ cmd.todo = {}
    /\ unfolded' = (unfolded /\ cmd.dead)
    /\ cmd' = Off
    /\ UNCHANGED <<lastRun, ran, events>>

Kill == /\ Event
        /\ cmd # Off
        /\ cmd' = Off
        /\ UNCHANGED <<lastRun, ran, unfolded>>

Step == BeginModel \/ EndModel \/ ModelRaises \/ Dedup

Next == \/ Tick
        \/ \E yday \in 1 .. BucketCount, cap \in Caps : Start(yday, cap)
        \/ Step
        \/ StoreCar \/ RowRejected \/ ConnectionLost \/ Kill

Spec == Init /\ [][Next]_vars

(* Time passes, a command moves on, cron starts one every day.             *)
Fairness ==
    /\ WF_vars(Tick)
    /\ WF_vars(Step)
    /\ \A yday \in 1 .. BucketCount : SF_vars(Start(yday, 0))

FairSpec == Spec /\ Fairness

-----------------------------------------------------------------------------
Ages == 0 .. Cooldown + 1

TypeOK == /\ {lastRun, ran} \subseteq [Models -> Ages \cup {Never}]
          /\ unfolded \in BOOLEAN
          /\ cmd = Off \/ cmd \in [at : {"next", "cars"}, todo : SUBSET Models,
                                   fetched : BOOLEAN, attached : BOOLEAN,
                                   dead : BOOLEAN]
          /\ cmd.at = "cars" => cmd.todo # {}
          /\ events \in 0 .. MaxEvents

(* A model is deferred only because it did run: last_run_at is never       *)
(* younger than the last walk that stored a car, whatever aborts or raises *)
(* (pipeline.py:379-381, otherwise the cooldown filter would keep skipping *)
(* a model we never did any work for).                                     *)
DeferralEarned ==
    \A m \in Models :
        lastRun[m] # Never => ran[m] # Never /\ ran[m] <= lastRun[m]

(* Whatever is killed or rejected now and then, every model is walked      *)
(* again and again, and stored cars are folded by a later dedup.           *)
EveryModelWalked ==
    \A m \in Models : []<>(cmd.at = "cars" /\ First(cmd.todo) = m)
FoldedInTheEnd == unfolded ~> ~unfolded

(* cli.py:363-364 says that a model that ran recently is skipped, even if  *)
(* it is in today's bucket (config.py:51: leave it alone).  It fails for   *)
(* every model but the first of a command: its last_run_at is never        *)
(* written, and a second command walks it again.                           *)
CooldownRespected ==
    [][\A yday \in 1 .. BucketCount, cap \in Caps :
          Start(yday, cap) =>
              \A m \in cmd'.todo : ran[m] = Never \/ ran[m] > Cooldown]_vars

(* cli.py:364-365 says that after processing dedup runs at the end, so     *)
(* that new listings collapse into the existing groups.  It fails after a  *)
(* single rejected row, which _process_items means to skip.                *)
EveryRunFolds ==
    [][cmd # Off /\ cmd' = Off => ~unfolded' \/ Kill]_vars
=============================================================================
