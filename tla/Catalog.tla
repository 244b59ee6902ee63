------------------------------ MODULE Catalog ------------------------------
(***************************************************************************)
(* The cars table under several parser processes.  Nothing in the code     *)
(* keeps the nightly run-incremental, a backfill that lasts for days and a *)
(* manual dedup apart, so their statements interleave under PostgreSQL's   *)
(* READ COMMITTED.  An upsert is a SELECT and, a flush later, an INSERT or *)
(* an UPDATE of the columns that differ from what the SELECT returned; a   *)
(* dedup pass is a SELECT of the table, an UPDATE of all rows to           *)
(* is_primary = FALSE and one of the winners to TRUE, and the caller's     *)
(* commit.                                                                 *)
(***************************************************************************)
EXTENDS Vitrine

CONSTANT Procs         \* the processes that write to the database

(* The UPDATE of an upsert: the ORM writes the columns whose new value     *)
(* differs from the value it loaded, the others keep what is in the table. *)
Merge(old, loaded, new) ==
    [f \in DOMAIN old |-> IF new[f] # loaded[f] THEN new[f] ELSE old[f]]

(* Columns are independent, so a mix of rows is a row; and all rows have   *)
(* the same columns.  What the theorems about upserts rest on.             *)
ColumnsIndependent ==
    \A old, loaded, new \in Rows : /\ Merge(old, loaded, new) \in Rows
                                   /\ Merge(old, old, new) = new

(* `cars` and `visible` are what is committed; `touched` are the rows      *)
(* written since the SELECT on which the committed flags rest.             *)
VARIABLES proc,        \* what each process is doing
          locker,      \* the process whose UPDATE holds the row locks
          missed       \* history: rows written since p's dedup SELECT

vars == <<cars, visible, proc, locker, touched, missed>>

(* One record per process: the statement it is at and the values it holds. *)
(*   idle      between two operations, or with a fresh session             *)
(*   insert    upsert_car found no row and is about to flush an INSERT     *)
(*   update    upsert_car loaded a row and is about to flush an UPDATE     *)
(*   broken    a flush failed; every statement of the session now raises   *)
(*   selected  run_dedup has read the table                                *)
(*   waiting   its first UPDATE has begun and needs the row locks          *)
(*   applied   both updates are done, the transaction is not committed     *)
Idle == [at |-> "idle"]
Broken == [at |-> "broken"]

Init == /\ VitrineInit
        /\ proc = [p \in Procs |-> Idle]
        /\ locker = NULL
        /\ missed = [p \in Procs |-> {}]

-----------------------------------------------------------------------------
(* upsert_car                                                              *)

(* A plausible bug, like the other definitions that no action uses: the    *)
(* row becomes visible before it is stored.                                *)
SelectShows(p, i, row) ==
    /\ proc[p].at = "idle"
    /\ i \notin DOMAIN cars
    /\ proc' = [proc EXCEPT ![p] = [at |-> "insert", id |-> i, row |-> row]]
    /\ visible' = visible \cup {i}
    /\ UNCHANGED <<cars, locker, touched, missed>>

UpsertSelect(p, i, row) ==
    /\ proc[p].at = "idle"
    /\ proc' = [proc EXCEPT ![p] =
                  IF i \in DOMAIN cars
                  THEN [at |-> "update", id |-> i, row |-> row, loaded |-> cars[i]]
                  ELSE [at |-> "insert", id |-> i, row |-> row]]
    /\ UNCHANGED <<cars, visible, locker, touched, missed>>

InDedup(p) == proc[p].at \in {"selected", "waiting", "applied"}

Write(i, row) ==
    /\ cars' = Put(cars, i, row)
    /\ touched' = touched \cup {i}
    /\ missed' = [p \in Procs |-> IF InDedup(p) THEN missed[p] \cup {i} ELSE {}]

InsertHidden(p) ==
    /\ proc[p].at = "insert"
    /\ proc[p].id \notin DOMAIN cars
    /\ Write(proc[p].id, proc[p].row)
    /\ proc' = [proc EXCEPT ![p] = Idle]
    /\ UNCHANGED <<visible, locker>>

(* flush and commit of a new row: is_primary takes its default TRUE, and   *)
(* the primary key rejects a row another process stored after the SELECT.  *)
Insert(p) ==
    /\ proc[p].at = "insert"
    /\ LET i == proc[p].id IN
       IF i \in DOMAIN cars
       THEN /\ proc' = [proc EXCEPT ![p] = Broken]         \* IntegrityError
            /\ UNCHANGED <<cars, visible, touched, missed>>
       ELSE /\ Write(i, proc[p].row)
            /\ visible' = visible \cup {i}
            /\ proc' = [proc EXCEPT ![p] = Idle]
    /\ UNCHANGED locker

(* flush and commit of a known row: it waits for the row lock of a dedup   *)
(* transaction, and never writes is_primary.                               *)
Update(p) ==
    /\ proc[p].at = "update"
    /\ LET i == proc[p].id IN
       /\ locker # NULL => i \notin proc[locker].rows
       /\ Write(i, Merge(cars[i], proc[p].loaded, proc[p].row))
    /\ proc' = [proc EXCEPT ![p] = Idle]
    /\ UNCHANGED <<visible, locker>>

-----------------------------------------------------------------------------
(* run_dedup and the commit of its caller                                  *)

SelectVisibleOnly(p) ==
    /\ proc[p].at = "idle"
    /\ proc' = [proc EXCEPT ![p] =
                  [at |-> "selected",
                   winners |-> Primaries([i \in visible |-> cars[i]])]]
    /\ missed' = [missed EXCEPT ![p] = {}]
    /\ UNCHANGED <<cars, visible, locker, touched>>

DedupSelect(p) ==
    /\ proc[p].at = "idle"
    /\ proc' = [proc EXCEPT ![p] =
                  [at |-> "selected", winners |-> Primaries(cars)]]
    /\ missed' = [missed EXCEPT ![p] = {}]
    /\ UNCHANGED <<cars, visible, locker, touched>>

(* UPDATE cars SET is_primary = FALSE covers the rows that are committed   *)
(* when the statement begins, listings that arrived after the SELECT       *)
(* included, and not those that arrive while it waits for row locks.       *)
DedupReset(p) ==
    /\ proc[p].at = "selected"
    /\ proc' = [proc EXCEPT ![p] =
                  [at |-> "waiting", winners |-> proc[p].winners,
                   rows |-> DOMAIN cars]]
    /\ UNCHANGED <<cars, visible, locker, touched, missed>>

(* The locks are granted, then the winners are set back to TRUE.           *)
DedupApply(p) ==
    /\ proc[p].at = "waiting"
    /\ locker = NULL
    /\ locker' = p
    /\ proc' = [proc EXCEPT ![p].at = "applied"]
    /\ UNCHANGED <<cars, visible, touched, missed>>

CommitSwapped(p) ==                     \* the reset comes last
    /\ proc[p].at = "applied"
    /\ visible' = visible \ proc[p].rows
    /\ touched' = missed[p]
    /\ missed' = [missed EXCEPT ![p] = {}]
    /\ locker' = NULL
    /\ proc' = [proc EXCEPT ![p] = Idle]
    /\ UNCHANGED cars

CommitNoReset(p) ==
    /\ proc[p].at = "applied"
    /\ visible' = visible \cup (proc[p].winners \cap proc[p].rows)
    /\ touched' = missed[p]
    /\ missed' = [missed EXCEPT ![p] = {}]
    /\ locker' = NULL
    /\ proc' = [proc EXCEPT ![p] = Idle]
    /\ UNCHANGED cars

DedupCommit(p) ==
    /\ proc[p].at = "applied"
    /\ visible' = (visible \ proc[p].rows) \cup (proc[p].winners \cap proc[p].rows)
    /\ touched' = missed[p]
    /\ missed' = [missed EXCEPT ![p] = {}]
    /\ locker' = NULL
    /\ proc' = [proc EXCEPT ![p] = Idle]
    /\ UNCHANGED cars

-----------------------------------------------------------------------------
(* The process ends, killed or after its commands failed: its transaction  *)
(* is rolled back and the next command starts with a fresh session.        *)
Exit(p) ==
    /\ proc[p].at # "idle"
    /\ proc' = [proc EXCEPT ![p] = Idle]
    /\ missed' = [missed EXCEPT ![p] = {}]
    /\ locker' = IF locker = p THEN NULL ELSE locker
    /\ UNCHANGED <<cars, visible, touched>>

UpsertStep(p) == Insert(p) \/ Update(p)
DedupStep(p) == DedupReset(p) \/ DedupApply(p) \/ DedupCommit(p)

Next == \E p \in Procs :
           \/ \E i \in Ids, row \in Rows : UpsertSelect(p, i, row)
           \/ UpsertStep(p)
           \/ DedupSelect(p)
           \/ DedupStep(p)
           \/ Exit(p)

Spec == Init /\ [][Next]_vars

-----------------------------------------------------------------------------
ProcState ==
    {Idle, Broken}
      \cup [at : {"insert"}, id : Ids, row : Rows]
      \cup [at : {"update"}, id : Ids, row : Rows, loaded : Rows]
      \cup [at : {"selected"}, winners : SUBSET Ids]
      \cup [at : {"waiting", "applied"}, winners : SUBSET Ids, rows : SUBSET Ids]

TypeOK == /\ VitrineTypeOK
          /\ proc \in [Procs -> ProcState]
          /\ \A p \in Procs : proc[p].at = "update" => proc[p].id \in DOMAIN cars
          /\ locker \in Procs \cup {NULL}
          /\ missed \in [Procs -> SUBSET DOMAIN cars]

(* Catalog implements Vitrine for as long as no process gets in the way of *)
(* another: a commit is then one upsert or one whole dedup pass, and every *)
(* other statement is invisible.  The steps that map to neither are the    *)
(* update of a row that changed after it was loaded and the commit of a    *)
(* pass after whose SELECT a row was written.                              *)
Disturbed(p) ==
    \/ proc[p].at = "update" /\ cars[proc[p].id] # proc[p].loaded
    \/ proc[p].at = "applied" /\ missed[p] # {}

ImplementsVitrine ==
    /\ VitrineInit
    /\ [][\/ [VitrineNext]_vitrineVars
          \/ \E p \in Procs : Disturbed(p) /\ (Update(p) \/ DedupCommit(p))]_vars

(* What a pass in flight may still commit: the rows it will hide have a    *)
(* newer winner of the same car, its winners have distinct keys, and a row *)
(* its UPDATE does not cover arrived after its SELECT, except where a row  *)
(* was written since.  This is what makes the two promises of the vitrine  *)
(* inductive, which survive any interleaving: what a concurrent pass gets  *)
(* wrong is confined to rows written after its SELECT.                     *)
PassOK(p) ==
    LET winners == proc[p].winners IN
    /\ winners \subseteq DOMAIN cars
    /\ \A i \in DOMAIN cars \ winners :
          \/ i \in missed[p]
          \/ \E j \in winners :
                j > i /\ (j \in missed[p] \/ Duplicates(cars[i], cars[j]))
    /\ \A i, j \in winners :
          i # j /\ SameKey(cars[i], cars[j]) => {i, j} \cap missed[p] # {}
    /\ proc[p].at # "selected" =>
          /\ winners \subseteq proc[p].rows
          /\ DOMAIN cars \ proc[p].rows \subseteq missed[p]

PassSound == \A p \in Procs : InDedup(p) => PassOK(p)

(* The rows a pass got wrong are put right by later passes: once no        *)
(* process writes listings any more, the flags end up matching the data    *)
(* and stay so (dedup.py:32-35: always recomputed from current data).      *)
FlagsHeal ==
    <>[](\A p \in Procs : proc[p].at \notin {"insert", "update"})
        => <>[](visible = Primaries(cars))

(* Cron starts a run every day and each run ends with a dedup pass, so     *)
(* passes are never given up for good, whatever is killed in between.      *)
Fairness == \A p \in Procs : /\ SF_vars(DedupSelect(p))
                             /\ SF_vars(DedupReset(p))
                             /\ SF_vars(DedupApply(p))
                             /\ SF_vars(DedupCommit(p))
                             /\ WF_vars(Exit(p) /\ proc[p].at = "broken")

FairSpec == Spec /\ Fairness
=============================================================================
