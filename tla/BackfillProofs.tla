--------------------------- MODULE BackfillProofs ---------------------------
(***************************************************************************)
(* For any number of models and of backfill commands side by side: what is *)
(* recorded was walked, and a command that ends has covered its models.    *)
(***************************************************************************)
EXTENDS Backfill, DataLemmas, FiniteSetTheorems, TLAPS

USE DEF Models

(* First is one of the models it chooses from.                            *)
LEMMA FirstIn ==
    ASSUME NEW S, S \subseteq Models, S # {}
    PROVE  First(S) \in S
<1>1. PICK m \in S : \A k \in S : m <= k
  <2>1. S \subseteq Nat
    BY ModelsAssumption
  <2> QED  BY <2>1, MinExists
<1> QED  BY <1>1 DEF First

(* The cap only drops models, and 0 drops none.                            *)
LEMMA TruncateIn ==
    ASSUME NEW S, NEW n
    PROVE  /\ Truncate(S, n) \subseteq S
           /\ n = 0 => Truncate(S, n) = S
BY DEF Truncate

(* A command in progress, by the point it is at.                           *)
LEMMA CommandShape ==
    ASSUME TypeOK, NEW p \in Procs, cmd[p].at # "off"
    PROVE  cmd[p] \in Command
BY DEF TypeOK, Off

-----------------------------------------------------------------------------
(* The strengthening: what a command was asked for is walked or still on   *)
(* its list, from the moment it reads the file to its end.                 *)
NothingDropped ==
    \A p \in Procs :
        cmd[p].at # "off" /\ cmd[p].opts.cap = 0 =>
            cmd[p].asked \subseteq walked \cup cmd[p].todo

EndIsEmpty == \A p \in Procs : cmd[p].at = "ended" => cmd[p].todo = {}
ModelHasWork == \A p \in Procs : cmd[p].at = "model" => cmd[p].todo # {}
FileHasStatus == file.exists => file.status # "none"

IInv == /\ TypeOK /\ CompletedWasWalked /\ NothingDropped
        /\ EndIsEmpty /\ ModelHasWork /\ FileHasStatus

(* No command runs yet and nothing is recorded.                            *)
LEMMA InitIInv == Init => IInv
BY ModelsAssumption DEF Init, IInv, TypeOK, CompletedWasWalked, NothingDropped,
   EndIsEmpty, ModelHasWork, FileHasStatus, NoFile, Off

(* A new command has everything it was asked for before it, or recorded,   *)
(* unless --max-models cut it.                                             *)
LEMMA StartStep ==
    ASSUME IInv, NEW p \in Procs, NEW opts \in Options, Start(p, opts)
    PROVE  IInv'
<1> DEFINE offered == IF opts.resume THEN FilterRemaining(enabled, file') ELSE enabled
           new == [at |-> "offered", opts |-> opts, asked |-> enabled,
                   todo |-> Truncate(offered, opts.cap),
                   completed |-> {}, status |-> "running"]
<1>1. file' = IF opts.reset THEN NoFile ELSE file
  BY DEF Start
<1>2. cmd' = [cmd EXCEPT ![p] = new] /\ UNCHANGED <<enabled, walked>>
  BY DEF Start
<1>3. file'.completed \subseteq walked
  BY <1>1 DEF IInv, CompletedWasWalked, NoFile
<1>4. new.todo \subseteq enabled /\ (opts.cap = 0 => new.asked \subseteq walked \cup new.todo)
  <2>1. enabled \subseteq walked \cup offered /\ offered \subseteq enabled
    BY <1>3 DEF FilterRemaining
  <2> QED  BY <2>1, TruncateIn
<1>5. new \in Command
  BY <1>4 DEF Command, IInv, TypeOK
<1>6. events' \in 0 .. MaxEvents
  BY ModelsAssumption DEF Start, IInv, TypeOK
<1>7. TypeOK'
  BY <1>1, <1>2, <1>5, <1>6 DEF IInv, TypeOK, NoFile
<1>8. new.at = "offered" /\ new.completed = {} /\ new.opts = opts
  OBVIOUS
<1> HIDE DEF new
<1>9. cmd'[p] = new /\ \A q \in Procs \ {p} : cmd'[q] = cmd[q]
  BY <1>2 DEF IInv, TypeOK
<1>10. CompletedWasWalked'
  BY <1>2, <1>3, <1>8, <1>9 DEF IInv, CompletedWasWalked
<1>11. NothingDropped'
  BY <1>2, <1>4, <1>8, <1>9 DEF IInv, NothingDropped
<1>12. EndIsEmpty'
  BY <1>8, <1>9 DEF IInv, EndIsEmpty
<1>13. ModelHasWork' /\ FileHasStatus'
  BY <1>1, <1>8, <1>9 DEF IInv, ModelHasWork, FileHasStatus, NoFile
<1> QED  BY <1>7, <1>10, <1>11, <1>12, <1>13 DEF IInv

(* A step that replaces the record of p by new, or switches p off, while   *)
(* the histories grow.                                                     *)
LEMMA ReplaceStep ==
    ASSUME IInv, NEW p \in Procs, NEW new \in Command,
           cmd' = [cmd EXCEPT ![p] = new],
           enabled' = enabled, walked \subseteq walked', walked' \subseteq Models,
           events' = events,
           file' \in [exists : BOOLEAN, completed : SUBSET Models,
                      current : Models \cup {None},
                      status : {"none", "running", "interrupted", "done"}],
           file'.completed \subseteq walked', new.completed \subseteq walked',
           new.opts.cap = 0 => new.asked \subseteq walked' \cup new.todo,
           new.at = "ended" => new.todo = {},
           new.at = "model" => new.todo # {},
           file'.exists => file'.status # "none"
    PROVE  IInv'
<1>1. cmd'[p] = new /\ \A q \in Procs \ {p} : cmd'[q] = cmd[q]
  BY DEF IInv, TypeOK
<1>2. TypeOK'
  BY DEF IInv, TypeOK
<1>3. CompletedWasWalked'
  BY <1>1 DEF IInv, CompletedWasWalked
<1>4. NothingDropped'
  BY <1>1 DEF IInv, NothingDropped
<1>5. EndIsEmpty' /\ ModelHasWork' /\ FileHasStatus'
  BY <1>1 DEF IInv, EndIsEmpty, ModelHasWork, FileHasStatus
<1> QED  BY <1>2, <1>3, <1>4, <1>5 DEF IInv

(* A command that ends or dies takes nothing with it but its memory.       *)
LEMMA OffStep ==
    ASSUME IInv, NEW p \in Procs, cmd' = [cmd EXCEPT ![p] = Off],
           UNCHANGED <<enabled, walked>>,
           events' \in 0 .. MaxEvents,
           file' \in [exists : BOOLEAN, completed : SUBSET Models,
                      current : Models \cup {None},
                      status : {"none", "running", "interrupted", "done"}],
           file'.completed \subseteq walked,
           file'.exists => file'.status # "none"
    PROVE  IInv'
<1>1. cmd'[p] = Off /\ Off.at = "off" /\ \A q \in Procs \ {p} : cmd'[q] = cmd[q]
  BY DEF IInv, TypeOK, Off
<1>2. TypeOK'
  BY DEF IInv, TypeOK
<1>3. CompletedWasWalked'
  BY <1>1 DEF IInv, CompletedWasWalked
<1>4. NothingDropped'
  BY <1>1 DEF IInv, NothingDropped
<1>5. EndIsEmpty' /\ ModelHasWork' /\ FileHasStatus'
  BY <1>1 DEF IInv, EndIsEmpty, ModelHasWork, FileHasStatus
<1> QED  BY <1>2, <1>3, <1>4, <1>5 DEF IInv

(* walk_backfill loads the file: what it drops from the list is recorded,  *)
(* and what is recorded was walked.                                        *)
LEMMA LoadStep ==
    ASSUME IInv, NEW p \in Procs, Load(p)
    PROVE  IInv'
<1> DEFINE new == [cmd[p] EXCEPT !.at = "next",
                                 !.todo = FilterRemaining(@, file),
                                 !.completed = file'.completed,
                                 !.status = file'.status]
<1>1. cmd[p] \in Command /\ file' = IF file.exists THEN file ELSE Saved({}, None, "running")
  BY CommandShape DEF Load, IInv
<1>2. file'.status \in {"running", "interrupted", "done"}
      /\ file' \in [exists : BOOLEAN, completed : SUBSET Models,
                    current : Models \cup {None},
                    status : {"none", "running", "interrupted", "done"}]
  BY <1>1 DEF IInv, TypeOK, Saved, FileHasStatus
<1>3. file'.completed \subseteq walked
  BY <1>1 DEF IInv, CompletedWasWalked, Saved
<1>4. new \in Command /\ new.completed = file'.completed
      /\ new.opts = cmd[p].opts /\ new.asked = cmd[p].asked
      /\ new.at = "next" /\ new.todo = cmd[p].todo \ file.completed
  BY <1>1, <1>2 DEF Command, FilterRemaining
<1>5. cmd' = [cmd EXCEPT ![p] = new]
  BY DEF Load
<1>6. file.completed \subseteq walked
  BY DEF IInv, CompletedWasWalked
<1>7. new.opts.cap = 0 => new.asked \subseteq walked \cup new.todo
  BY <1>4, <1>6 DEF IInv, NothingDropped, Load
<1>8. walked \subseteq Models
  BY DEF IInv, TypeOK
<1>9. UNCHANGED <<enabled, walked, events>>
  BY DEF Load
<1> HIDE DEF new
<1> QED  BY <1>2, <1>3, <1>4, <1>5, <1>7, <1>8, <1>9, ReplaceStep

(* The save before a model writes what the memory of the command lists.    *)
LEMMA BeginModelStep ==
    ASSUME IInv, NEW p \in Procs, BeginModel(p)
    PROVE  IInv'
<1> DEFINE new == [cmd[p] EXCEPT !.at = "model"]
<1>1. cmd[p] \in Command
  BY CommandShape DEF BeginModel, IInv
<1>2. First(cmd[p].todo) \in Models
  BY <1>1, FirstIn DEF BeginModel, Command
<1>3. file' \in [exists : BOOLEAN, completed : SUBSET Models,
                 current : Models \cup {None},
                 status : {"none", "running", "interrupted", "done"}]
  BY <1>1, <1>2 DEF BeginModel, Saved, Command
<1>4. new \in Command /\ new.completed = cmd[p].completed /\ new.at = "model"
      /\ new.opts = cmd[p].opts /\ new.asked = cmd[p].asked /\ new.todo = cmd[p].todo
  BY <1>1 DEF Command
<1>5. cmd[p].completed \subseteq walked /\ file'.completed = cmd[p].completed
  BY DEF IInv, CompletedWasWalked, BeginModel, Saved
<1>6. cmd' = [cmd EXCEPT ![p] = new] /\ UNCHANGED <<enabled, walked, events>>
  BY DEF BeginModel
<1>7. new.opts.cap = 0 => new.asked \subseteq walked \cup new.todo
  BY <1>4 DEF IInv, NothingDropped, BeginModel
<1>8. walked \subseteq Models
  BY DEF IInv, TypeOK
<1>9. new.todo # {} /\ (file'.exists => file'.status # "none")
  BY <1>1, <1>4 DEF BeginModel, Saved, Command
<1> HIDE DEF new
<1> QED  BY <1>9, <1>3, <1>4, <1>5, <1>6, <1>7, <1>8, ReplaceStep

(* A model joins the memory of the command after its walk returned.        *)
LEMMA ModelDoneStep ==
    ASSUME IInv, NEW p \in Procs, ModelDone(p)
    PROVE  IInv'
<1> DEFINE m == First(cmd[p].todo)
           new == [cmd[p] EXCEPT !.at = "next", !.todo = @ \ {m}, !.completed = @ \cup {m}]
<1>1. cmd[p] \in Command
  BY CommandShape DEF ModelDone, IInv
<1>2. m \in Models
  BY <1>1, FirstIn DEF ModelDone, Command, IInv, ModelHasWork
<1>3. new \in Command /\ new.completed = cmd[p].completed \cup {m} /\ new.at = "next"
      /\ new.opts = cmd[p].opts /\ new.asked = cmd[p].asked
      /\ new.todo = cmd[p].todo \ {m}
  BY <1>1, <1>2 DEF Command
<1>4. walked' = walked \cup {m}
  BY DEF ModelDone
<1>5. cmd[p].completed \subseteq walked /\ file.completed \subseteq walked
  BY DEF IInv, CompletedWasWalked, ModelDone
<1>6. cmd' = [cmd EXCEPT ![p] = new] /\ UNCHANGED <<enabled, file, events>>
  BY DEF ModelDone
<1>7. new.opts.cap = 0 => new.asked \subseteq walked' \cup new.todo
  BY <1>3, <1>4 DEF IInv, NothingDropped, ModelDone
<1>8. walked \subseteq Models
      /\ file \in [exists : BOOLEAN, completed : SUBSET Models,
                   current : Models \cup {None},
                   status : {"none", "running", "interrupted", "done"}]
  BY DEF IInv, TypeOK
<1>9. new.completed \subseteq walked' /\ file'.completed \subseteq walked'
      /\ walked \subseteq walked' /\ walked' \subseteq Models
  BY <1>2, <1>3, <1>4, <1>5, <1>6, <1>8
<1>10. file.exists => file.status # "none"
  BY DEF IInv, FileHasStatus
<1> HIDE DEF new, m
<1> QED  BY <1>10, <1>3, <1>6, <1>7, <1>8, <1>9, ReplaceStep

(* A failing model ends the command; the interrupted state is saved.       *)
LEMMA ModelFailsStep ==
    ASSUME IInv, NEW p \in Procs, ModelFails(p)
    PROVE  IInv'
<1>1. cmd[p] \in Command
  BY CommandShape DEF ModelFails, IInv
<1>2. First(cmd[p].todo) \in Models
  BY <1>1, FirstIn DEF ModelFails, Command, IInv, ModelHasWork
<1>3. file' \in [exists : BOOLEAN, completed : SUBSET Models,
                 current : Models \cup {None},
                 status : {"none", "running", "interrupted", "done"}]
  BY <1>1, <1>2 DEF ModelFails, Saved, Command
<1>4. file'.completed \subseteq walked
  BY DEF IInv, CompletedWasWalked, ModelFails, Saved
<1>5. file'.exists => file'.status # "none"
  BY DEF ModelFails, Saved
<1> QED  BY <1>3, <1>4, <1>5, OffStep DEF ModelFails, IInv, TypeOK

(* The loop ends only when the list is empty, which makes the end complete.*)
LEMMA FinishStep ==
    ASSUME IInv, NEW p \in Procs, Finish(p)
    PROVE  IInv'
<1> DEFINE new == [cmd[p] EXCEPT !.at = "ended"]
<1>1. cmd[p] \in Command
  BY CommandShape DEF Finish, IInv
<1>2. file' \in [exists : BOOLEAN, completed : SUBSET Models,
                 current : Models \cup {None},
                 status : {"none", "running", "interrupted", "done"}]
  BY <1>1 DEF Finish, Saved, Command
<1>3. new \in Command /\ new.completed = cmd[p].completed /\ new.todo = {}
      /\ new.opts = cmd[p].opts /\ new.asked = cmd[p].asked /\ new.todo = cmd[p].todo
  BY <1>1 DEF Command, Finish
<1>4. cmd[p].completed \subseteq walked /\ file'.completed = cmd[p].completed
  BY DEF IInv, CompletedWasWalked, Finish, Saved
<1>5. cmd' = [cmd EXCEPT ![p] = new] /\ UNCHANGED <<enabled, walked, events>>
  BY DEF Finish
<1>6. new.opts.cap = 0 => new.asked \subseteq walked \cup new.todo
  BY <1>3 DEF IInv, NothingDropped, Finish
<1>7. walked \subseteq Models
  BY DEF IInv, TypeOK
<1>8. new.at = "ended" /\ (file'.exists => file'.status # "none")
  BY <1>1 DEF Finish, Saved, Command
<1> HIDE DEF new
<1> QED  BY <1>8, <1>2, <1>3, <1>4, <1>5, <1>6, <1>7, ReplaceStep

-----------------------------------------------------------------------------
(* One case per action of Next.                                            *)
LEMMA NextIInv == IInv /\ [Next]_vars => IInv'
<1> SUFFICES ASSUME IInv, [Next]_vars PROVE IInv'
  OBVIOUS
<1>1. ASSUME NEW p \in Procs, NEW opts \in Options, Start(p, opts) PROVE IInv'
  BY <1>1, StartStep
<1>2. ASSUME NEW p \in Procs, Exit(p) \/ Kill(p) PROVE IInv'
  <2>1. events' \in 0 .. MaxEvents
    BY <1>2, ModelsAssumption DEF Exit, Kill, IInv, TypeOK
  <2>2. /\ cmd' = [cmd EXCEPT ![p] = Off]
        /\ UNCHANGED <<enabled, file, walked>>
    BY <1>2 DEF Exit, Kill
  <2> QED
    BY <2>1, <2>2, OffStep DEF IInv, TypeOK, CompletedWasWalked, FileHasStatus
<1>3. CASE Sync
  <2>1. TypeOK'
    BY <1>3, ModelsAssumption DEF Sync, IInv, TypeOK
  <2> QED
    BY <1>3, <2>1 DEF Sync, IInv, CompletedWasWalked, NothingDropped, EndIsEmpty,
       ModelHasWork, FileHasStatus
<1>4. CASE UNCHANGED vars
  BY <1>4 DEF vars, IInv, TypeOK, CompletedWasWalked, NothingDropped, EndIsEmpty,
     ModelHasWork, FileHasStatus
<1> QED
  BY <1>1, <1>2, <1>3, <1>4, LoadStep, BeginModelStep, ModelDoneStep,
     ModelFailsStep, FinishStep DEF Next, Step

(* The strengthened invariant holds in every behaviour.                    *)
LEMMA Inductive == Spec => []IInv
BY InitIInv, NextIInv, PTL DEF Spec

(* Every behaviour keeps the types (search_models, the state file and the  *)
(* memory of the commands).                                                *)
THEOREM BackfillTypes == Spec => []TypeOK
BY Inductive, PTL DEF IInv

(* walk_backfill never records a model whose run_one did not return, with  *)
(* any number of commands racing on the file, kills and failures.          *)
THEOREM BackfillCompletedWasWalked == Spec => []CompletedWasWalked
BY Inductive, PTL DEF IInv

(* A command that reaches the end of the loop has left none of the models  *)
(* it was asked for unwalked.                                              *)
THEOREM BackfillEndCoversAsked == Spec => []EndCoversAsked
<1>1. IInv => EndCoversAsked
  BY DEF IInv, NothingDropped, EndIsEmpty, EndCoversAsked
<1> QED  BY <1>1, Inductive, PTL

-----------------------------------------------------------------------------
(* One command at a time: nobody else writes the file, and the memory of   *)
(* the command and the file differ by the model just walked at most.       *)
OneShell == \A p, q \in Procs : p = q

Ahead(p) == \E m \in walked : cmd[p].completed = file.completed \cup {m}

InStep ==
    /\ ~file.exists => file.completed = {}
    /\ \A p \in Procs :
          /\ cmd[p].at = "next" => cmd[p].completed = file.completed \/ Ahead(p)
          /\ cmd[p].at \in {"model", "ended"} => cmd[p].completed = file.completed
          /\ cmd[p].at \in {"next", "model"} => cmd[p].todo \cap cmd[p].completed = {}

LEMMA InitInStep == Init => InStep
BY DEF Init, InStep, NoFile, Off

(* The only shell there is takes the step.                                 *)
LEMMA ShellInStep ==
    ASSUME OneShell, IInv, InStep, NEW p \in Procs,
           (\E opts \in Options : Start(p, opts)) \/ Step(p) \/ Kill(p)
    PROVE  InStep'
<1>1. \A q \in Procs : q = p
  BY DEF OneShell
<1>2. cmd \in [Procs -> {Off} \cup Command]
  BY DEF IInv, TypeOK
<1>3. ASSUME NEW opts \in Options, Start(p, opts)
      PROVE  InStep'
  <2>1. cmd'[p].at = "offered" /\ file' = IF opts.reset THEN NoFile ELSE file
    BY <1>2, <1>3 DEF Start
  <2> QED  BY <1>1, <2>1 DEF InStep, NoFile
<1>4. CASE Load(p)
  <2>1. cmd[p] \in Command
    BY <1>4, CommandShape DEF Load, IInv
  <2>2. cmd'[p].completed = file'.completed /\ cmd'[p].at = "next"
    BY <1>2, <1>4, <2>1 DEF Load, Command
  <2>3. ~file'.exists => file'.completed = {}
    BY <1>4 DEF Load, Saved, InStep
  <2>4. cmd'[p].todo = cmd[p].todo \ file.completed
    BY <1>2, <1>4, <2>1 DEF Load, Command, FilterRemaining
  <2>5. file'.completed = file.completed
    BY <1>4 DEF Load, Saved, InStep
  <2> QED  BY <1>1, <2>2, <2>3, <2>4, <2>5 DEF InStep
<1>5. CASE BeginModel(p)
  <2>1. cmd[p] \in Command
    BY <1>5, CommandShape DEF BeginModel, IInv
  <2>2. /\ cmd'[p].completed = cmd[p].completed /\ cmd'[p].at = "model"
        /\ cmd'[p].todo = cmd[p].todo
        /\ file'.completed = cmd[p].completed /\ file'.exists
    BY <1>2, <1>5, <2>1 DEF BeginModel, Command, Saved
  <2>3. cmd[p].todo \cap cmd[p].completed = {}
    BY <1>5 DEF BeginModel, InStep
  <2> QED  BY <1>1, <2>2, <2>3 DEF InStep
<1>6. CASE ModelDone(p)
  <2> DEFINE m == First(cmd[p].todo)
  <2>1. cmd[p] \in Command
    BY <1>6, CommandShape DEF ModelDone, IInv
  <2>2. /\ cmd'[p].completed = cmd[p].completed \cup {m} /\ cmd'[p].at = "next"
        /\ cmd'[p].todo = cmd[p].todo \ {m}
        /\ file' = file /\ walked' = walked \cup {m}
    BY <1>2, <1>6, <2>1 DEF ModelDone, Command
  <2>3. /\ cmd[p].completed = file.completed
        /\ cmd[p].todo \cap cmd[p].completed = {}
    BY <1>6 DEF ModelDone, InStep
  <2> HIDE DEF m
  <2> QED  BY <1>1, <2>2, <2>3 DEF InStep, Ahead
<1>7. CASE ModelFails(p)
  <2>1. cmd'[p] = Off /\ file'.exists
    BY <1>2, <1>7 DEF ModelFails, Saved
  <2> QED  BY <1>1, <2>1 DEF InStep, Off
<1>8. CASE Finish(p)
  <2>1. cmd[p] \in Command
    BY <1>8, CommandShape DEF Finish, IInv
  <2>2. /\ cmd'[p].completed = cmd[p].completed /\ cmd'[p].at = "ended"
        /\ file'.completed = cmd[p].completed /\ file'.exists
    BY <1>2, <1>8, <2>1 DEF Finish, Command, Saved
  <2> QED  BY <1>1, <2>2 DEF InStep
<1>9. CASE Exit(p) \/ Kill(p)
  <2>1. cmd'[p] = Off /\ file' = file
    BY <1>2, <1>9 DEF Exit, Kill
  <2> QED  BY <1>1, <2>1 DEF InStep, Off
<1> QED  BY <1>3, <1>4, <1>5, <1>6, <1>7, <1>8, <1>9 DEF Step

LEMMA NextInStep ==
    ASSUME OneShell, IInv, InStep, [Next]_vars
    PROVE  InStep'
<1>1. CASE Sync \/ UNCHANGED vars
  BY <1>1 DEF Sync, vars, InStep, Ahead
<1> QED  BY <1>1, ShellInStep DEF Next

LEMMA InductiveInStep ==
    ASSUME OneShell
    PROVE  Spec => [](IInv /\ InStep)
<1>1. IInv /\ InStep /\ [Next]_vars => (IInv /\ InStep)'
  BY NextInStep, NextIInv
<1> QED  BY <1>1, InitIInv, InitInStep, PTL DEF Spec

(* Without a second command beside it, a killed backfill loses one         *)
(* completion at most, whatever the number of models (walk_backfill).      *)
THEOREM BackfillAtMostOneUnsaved ==
    ASSUME OneShell
    PROVE  Spec => []AtMostOneUnsaved
<1>1. IInv /\ InStep => AtMostOneUnsaved
  <2> SUFFICES ASSUME InStep, NEW p \in Procs, cmd[p].at \in {"next", "model", "ended"}
               PROVE  /\ file.completed \subseteq cmd[p].completed
                      /\ Cardinality(cmd[p].completed \ file.completed) <= 1
    BY DEF AtMostOneUnsaved
  <2>1. cmd[p].completed = file.completed \/ Ahead(p)
    BY DEF InStep
  <2>2. CASE cmd[p].completed \ file.completed = {}
    BY <2>1, <2>2, FS_EmptySet DEF Ahead
  <2>3. CASE cmd[p].completed \ file.completed # {}
    <3>1. PICK m : cmd[p].completed = file.completed \cup {m}
      BY <2>1, <2>3 DEF Ahead
    <3>2. cmd[p].completed \ file.completed = {m}
      BY <2>3, <3>1
    <3> QED  BY <3>1, <3>2, FS_Singleton
  <2> QED  BY <2>2, <2>3
<1> QED  BY <1>1, InductiveInStep, PTL

-----------------------------------------------------------------------------
(* The refinement: what a command does to the file, to the models walked   *)
(* and to the one under way is a step of the ledger, or none.              *)
LedgerStep == L!Work \/ (L!Reset /\ Resets)

(* With one shell, what is under way is what its command walks.            *)
WalksFirst ==
    \A p \in Procs :
        UnderWay = IF cmd[p].at = "model" THEN {First(cmd[p].todo)} ELSE {}

LEMMA UnderWayIs ==
    ASSUME OneShell
    PROVE  IInv => WalksFirst
<1> SUFFICES ASSUME IInv, NEW p \in Procs
             PROVE  UnderWay = IF cmd[p].at = "model" THEN {First(cmd[p].todo)} ELSE {}
  BY DEF WalksFirst
<1>1. UnderWay = {m \in Models : cmd[p].at = "model" /\ m = First(cmd[p].todo)}
  BY DEF UnderWay, OneShell
<1>2. CASE cmd[p].at = "model"
  <2>1. cmd[p] \in Command /\ cmd[p].todo # {}
    BY <1>2, CommandShape DEF IInv, ModelHasWork
  <2>2. First(cmd[p].todo) \in Models
    BY <2>1, FirstIn DEF Command
  <2> QED  BY <1>1, <1>2, <2>2
<1>3. CASE cmd[p].at # "model"
  BY <1>1, <1>3
<1> QED  BY <1>2, <1>3

(* A save adds nothing, or the model just walked.                          *)
LEMMA SaveRecords ==
    ASSUME IInv, InStep, NEW p \in Procs, cmd[p].at = "next",
           file'.completed = cmd[p].completed
    PROVE  L!Save
<1>1. CASE cmd[p].completed = file.completed
  BY <1>1 DEF L!Save
<1>2. CASE Ahead(p)
  BY <1>2 DEF Ahead, L!Save
<1> QED  BY <1>1, <1>2 DEF InStep

LEMMA NextLedger ==
    ASSUME OneShell, IInv, InStep, WalksFirst, WalksFirst', [Next]_vars
    PROVE  [LedgerStep]_(L!vars)
<1>0. cmd \in [Procs -> {Off} \cup Command]
  BY DEF IInv, TypeOK
<1>1. ASSUME NEW p \in Procs, NEW opts \in Options, Start(p, opts)
      PROVE  [LedgerStep]_(L!vars)
  <2>1. cmd[p].at # "model" /\ cmd'[p].at # "model"
    BY <1>0, <1>1 DEF Start, Off
  <2>2. UnderWay = {} /\ UnderWay' = {}
    BY <2>1 DEF WalksFirst
  <2>3. CASE opts.reset
    <3>1. L!Reset /\ Resets
      BY <1>1, <2>2, <2>3 DEF Start, L!Reset, NoFile, Resets
    <3> QED  BY <3>1 DEF LedgerStep
  <2>4. CASE ~opts.reset
    BY <1>1, <2>2, <2>4 DEF Start, L!vars
  <2> QED  BY <2>3, <2>4
<1>2. ASSUME NEW p \in Procs, Load(p)
      PROVE  [LedgerStep]_(L!vars)
  <2>1. cmd[p].at # "model" /\ cmd'[p].at # "model"
    BY <1>0, <1>2, CommandShape DEF Load, IInv, Command
  <2>2. UnderWay' = UnderWay
    BY <2>1 DEF WalksFirst
  <2> QED  BY <1>2, <2>2 DEF Load, Saved, InStep, L!vars
<1>3. ASSUME NEW p \in Procs, BeginModel(p)
      PROVE  [LedgerStep]_(L!vars)
  <2> DEFINE m == First(cmd[p].todo)
  <2>1. cmd[p] \in Command
    BY <1>3, CommandShape DEF BeginModel, IInv
  <2>2. /\ cmd[p].at = "next" /\ cmd'[p].at = "model" /\ cmd'[p].todo = cmd[p].todo
        /\ file'.completed = cmd[p].completed /\ walked' = walked
    BY <1>0, <1>3, <2>1 DEF BeginModel, Saved, Command
  <2>3. m \in cmd[p].todo /\ m \in Models
    BY <1>3, <2>1, FirstIn DEF BeginModel, Command
  <2>4. m \notin file'.completed
    BY <2>2, <2>3 DEF InStep
  <2>5. UnderWay = {} /\ UnderWay' = {m}
    BY <2>2 DEF WalksFirst
  <2>6. L!Save
    BY <2>2, SaveRecords
  <2>7. L!Begin(m)
    BY <2>2, <2>4, <2>5, <2>6 DEF L!Begin
  <2> QED  BY <2>3, <2>7 DEF LedgerStep, L!Work
<1>4. ASSUME NEW p \in Procs, ModelDone(p)
      PROVE  [LedgerStep]_(L!vars)
  <2> DEFINE m == First(cmd[p].todo)
  <2>1. cmd[p] \in Command /\ cmd[p].todo # {}
    BY <1>4, CommandShape DEF ModelDone, IInv, ModelHasWork
  <2>2. m \in Models
    BY <2>1, FirstIn DEF Command
  <2>3. /\ cmd[p].at = "model" /\ cmd'[p].at = "next"
        /\ walked' = walked \cup {m} /\ file' = file
    BY <1>0, <1>4, <2>1 DEF ModelDone, Command
  <2>4. UnderWay = {m} /\ UnderWay' = {}
    BY <2>3 DEF WalksFirst
  <2>5. L!Return(m)
    BY <2>3, <2>4 DEF L!Return
  <2> QED  BY <2>2, <2>5 DEF LedgerStep, L!Work
<1>5. ASSUME NEW p \in Procs, ModelFails(p) \/ Exit(p) \/ Kill(p)
      PROVE  [LedgerStep]_(L!vars)
  <2>1. cmd'[p].at # "model" /\ walked' = walked
    BY <1>0, <1>5 DEF ModelFails, Exit, Kill, Off
  <2>2. file'.completed = file.completed
    BY <1>5 DEF ModelFails, Exit, Kill, Saved, InStep
  <2>3. UnderWay' = {}
    BY <2>1 DEF WalksFirst
  <2>4. L!GiveUp
    BY <2>1, <2>2, <2>3 DEF L!GiveUp
  <2> QED  BY <2>4 DEF LedgerStep, L!Work
<1>6. ASSUME NEW p \in Procs, Finish(p)
      PROVE  [LedgerStep]_(L!vars)
  <2>1. cmd[p] \in Command
    BY <1>6, CommandShape DEF Finish, IInv
  <2>2. /\ cmd[p].at = "next" /\ cmd'[p].at = "ended"
        /\ file'.completed = cmd[p].completed /\ walked' = walked
    BY <1>0, <1>6, <2>1 DEF Finish, Saved, Command
  <2>3. UnderWay = {} /\ UnderWay' = {}
    BY <2>2 DEF WalksFirst
  <2>4. L!Save
    BY <2>2, SaveRecords
  <2>5. L!Record
    BY <2>2, <2>3, <2>4 DEF L!Record
  <2> QED  BY <2>5 DEF LedgerStep, L!Work
<1>7. CASE Sync \/ UNCHANGED vars
  BY <1>7 DEF Sync, vars, UnderWay, L!vars
<1> QED  BY <1>1, <1>2, <1>3, <1>4, <1>5, <1>6, <1>7 DEF Next, Step

(* One backfill command at a time implements the ledger: the file records  *)
(* models after their walk and forgets them with --reset only, and what it *)
(* records is not walked again (walk_backfill, backfill.py:172-174).       *)
THEOREM BackfillImplementsLedger ==
    ASSUME OneShell
    PROVE  Spec => ImplementsLedger
<1>1. Init => L!Init
  BY DEF Init, L!Init, NoFile, UnderWay, Off
<1>2. IInv => WalksFirst
  BY UnderWayIs
<1>3. IInv /\ InStep /\ WalksFirst /\ WalksFirst' /\ [Next]_vars => [LedgerStep]_(L!vars)
  BY NextLedger
<1>4. ImplementsLedger <=> L!Init /\ [][LedgerStep]_(L!vars)
  BY DEF ImplementsLedger, LedgerStep
<1> QED  BY <1>1, <1>2, <1>3, <1>4, InductiveInStep, PTL DEF Spec
=============================================================================
