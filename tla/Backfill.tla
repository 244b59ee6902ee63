------------------------------ MODULE Backfill ------------------------------
(***************************************************************************)
(* The resumable backfill (encar_parser/backfill.py and the backfill       *)
(* command of cli.py): a command walks the enabled models one after the    *)
(* other and keeps its progress in a JSON file, so that the next command   *)
(* can skip what was completed.  The file is replaced atomically; between  *)
(* two saves progress lives in the memory of the command.                  *)
(*                                                                         *)
(* A model is its rank in (priority, slug) order, which is the order in    *)
(* which get_enabled_models returns it.  chunk_size, models_total and the  *)
(* timestamps are informational and left out.                              *)
(***************************************************************************)
EXTENDS Scheduler

CONSTANTS NumModels,    \* how many models models.yaml has ever had
          Failing,      \* models whose list request always fails
          Procs,        \* shells that may run the backfill command
          MaxEvents,    \* bound: resets, syncs and kills in a behaviour
          MaxCap,       \* bound: largest --max-models tried
          None

ASSUME ModelsAssumption == /\ NumModels \in Nat
                           /\ Failing \subseteq 1 .. NumModels
                           /\ MaxEvents \in Nat /\ MaxCap \in Nat

Models == 1 .. NumModels

VARIABLES enabled,      \* models with enabled = TRUE in search_models
          file,         \* the state file, or NoFile
          cmd,          \* one backfill command per shell, or Off
          walked,       \* history: models whose run_model has returned
          events        \* resets, syncs and kills so far

vars == <<enabled, file, cmd, walked, events>>

NoFile == [exists |-> FALSE, completed |-> {}, current |-> None, status |-> "none"]
Saved(completed, current, status) ==
    [exists |-> TRUE, completed |-> completed, current |-> current, status |-> status]

(* The options of a command: --resume/--no-resume, --reset, --max-models   *)
(* (0 for no cap).  --max-pages shortens the walk of a model (ListWalk).   *)
Options == [resume : BOOLEAN, reset : BOOLEAN, cap : 0 .. MaxCap]
PlainOptions == [resume |-> TRUE, reset |-> FALSE, cap |-> 0]

Off == [at |-> "off"]

Init == /\ enabled \in SUBSET Models
        /\ file = NoFile
        /\ cmd = [p \in Procs |-> Off]
        /\ walked = {}
        /\ events = 0

-----------------------------------------------------------------------------
FilterRemaining(models, state) == models \ state.completed

(* _backfill_async up to walk_backfill: the reset, the enabled models, the *)
(* state file when --resume is given, the cap.                             *)
Start(p, opts) ==
    /\ cmd[p] = Off
    /\ file' = IF opts.reset THEN NoFile ELSE file
    /\ cmd' = [cmd EXCEPT ![p] =
          [at |-> "offered", opts |-> opts, asked |-> enabled,
           todo |-> LET offered == IF opts.resume THEN FilterRemaining(enabled, file')
                                                  ELSE enabled
                    IN Truncate(offered, opts.cap),
           completed |-> {}, status |-> "running"]]
    /\ events' = events + (IF opts.reset THEN 1 ELSE 0)
    /\ events' <= MaxEvents
    /\ UNCHANGED <<enabled, walked>>

(* walk_backfill up to the loop.  It loads the file and filters again,     *)
(* whatever --resume says.  A missing file is created; an existing one is  *)
(* continued with the status it has.                                       *)
LoadForgets(p) ==
    /\ cmd[p].at = "offered"
    /\ file' = IF file.exists THEN file ELSE Saved({}, None, "running")
    /\ cmd' = [cmd EXCEPT ![p].at = "next",
                          ![p].todo = FilterRemaining(@, file)]
    /\ UNCHANGED <<enabled, walked, events>>

LoadUnfiltered(p) ==                    \* --resume/--no-resume is trusted
    /\ cmd[p].at = "offered"
    /\ file' = IF file.exists THEN file ELSE Saved({}, None, "running")
    /\ cmd' = [cmd EXCEPT ![p].at = "next",
                          ![p].completed = file'.completed,
                          ![p].status = file'.status]
    /\ UNCHANGED <<enabled, walked, events>>

Load(p) ==
    /\ cmd[p].at = "offered"
    /\ file' = IF file.exists THEN file ELSE Saved({}, None, "running")
    /\ cmd' = [cmd EXCEPT ![p].at = "next",
                          ![p].todo = FilterRemaining(@, file),
                          ![p].completed = file'.completed,
                          ![p].status = file'.status]
    /\ UNCHANGED <<enabled, walked, events>>

(* The save before a model.  It is also what records the previous one.     *)
BeginEarly(p) ==
    /\ cmd[p].at = "next"
    /\ cmd[p].todo # {}
    /\ LET m == First(cmd[p].todo) IN
       /\ file' = Saved(cmd[p].completed \cup {m}, m, cmd[p].status)
       /\ cmd' = [cmd EXCEPT ![p].at = "model", ![p].completed = @ \cup {m}]
    /\ UNCHANGED <<enabled, walked, events>>

BeginUnsaved(p) ==
    /\ cmd[p].at = "next"
    /\ cmd[p].todo # {}
    /\ cmd' = [cmd EXCEPT ![p].at = "model"]
    /\ UNCHANGED <<enabled, file, walked, events>>

BeginModel(p) ==
    /\ cmd[p].at = "next"
    /\ cmd[p].todo # {}
    /\ file' = Saved(cmd[p].completed, First(cmd[p].todo), cmd[p].status)
    /\ cmd' = [cmd EXCEPT ![p].at = "model"]
    /\ UNCHANGED <<enabled, walked, events>>

(* run_one returns; the model is completed in memory only.                 *)
ModelDone(p) ==
    /\ cmd[p].at = "model"
    /\ LET m == First(cmd[p].todo) IN
       /\ m \notin Failing
       /\ cmd' = [cmd EXCEPT ![p].at = "next",
                             ![p].todo = @ \ {m},
                             ![p].completed = @ \cup {m}]
       /\ walked' = walked \cup {m}
    /\ UNCHANGED <<enabled, file, events>>

(* run_one raises: the walk stops here, whatever models are left.          *)
SkipFailed(p) ==
    /\ cmd[p].at = "model"
    /\ file' = Saved(cmd[p].completed, First(cmd[p].todo), cmd[p].status)
    /\ cmd' = [cmd EXCEPT ![p].at = "next", ![p].todo = @ \ {First(@)}]
    /\ UNCHANGED <<enabled, walked, events>>

FailedStatus(p) ==
    /\ cmd[p].at = "model"
    /\ file' = Saved(cmd[p].completed, First(cmd[p].todo), "failed")
    /\ cmd' = [cmd EXCEPT ![p] = Off]
    /\ UNCHANGED <<enabled, walked, events>>

ModelFails(p) ==
    /\ cmd[p].at = "model"
    /\ file' = Saved(cmd[p].completed, First(cmd[p].todo), "interrupted")
    /\ cmd' = [cmd EXCEPT ![p] = Off]
    /\ UNCHANGED <<enabled, walked, events>>

(* The loop ends.                                                          *)
Finish(p) ==
    /\ cmd[p].at = "next"
    /\ cmd[p].todo = {}
    /\ file' = Saved(cmd[p].completed, None, "done")
    /\ cmd' = [cmd EXCEPT ![p].at = "ended"]
    /\ UNCHANGED <<enabled, walked, events>>

(* The command deduplicates (Catalog.tla), prints its summary and exits.   *)
Exit(p) ==
    /\ cmd[p].at = "ended"
    /\ cmd' = [cmd EXCEPT ![p] = Off]
    /\ UNCHANGED <<enabled, file, walked, events>>

(* The process dies; its memory is lost, the file stays.  This is also a   *)
(* command whose handler of a failed walk raises itself, before its save   *)
(* (backfill.py:210 reads the slug of an object that a failed flush has    *)
(* expired).                                                               *)
Kill(p) ==
    /\ cmd[p].at \notin {"off", "ended"}
    /\ events < MaxEvents
    /\ events' = events + 1
    /\ cmd' = [cmd EXCEPT ![p] = Off]
    /\ UNCHANGED <<enabled, file, walked>>

(* sync rewrites the enabled flags from models.yaml.                       *)
Sync ==
    /\ events < MaxEvents
    /\ events' = events + 1
    /\ enabled' \in SUBSET Models
    /\ UNCHANGED <<file, cmd, walked>>

Step(p) == \/ Load(p) \/ BeginModel(p) \/ ModelDone(p) \/ ModelFails(p)
           \/ Finish(p) \/ Exit(p)

Next == \/ \E p \in Procs : \/ \E opts \in Options : Start(p, opts)
                            \/ Step(p)
                            \/ Kill(p)
        \/ Sync

Spec == Init /\ [][Next]_vars

(* The operator starts the plain command again and again (other commands   *)
(* may run in between, hence SF) and kills it finitely often (MaxEvents).  *)
(* A command moves on, every request it makes has a timeout, and a model   *)
(* that is not Failing is not refused for ever.                            *)
Fairness == \A p \in Procs :
    /\ SF_vars(Start(p, PlainOptions))
    /\ WF_vars(Step(p))
    /\ \A m \in Models : SF_vars(cmd[p].at = "model" /\ First(cmd[p].todo) = m /\ ModelDone(p))

FairSpec == Spec /\ Fairness

-----------------------------------------------------------------------------
Command == [at : {"offered", "next", "model", "ended"}, opts : Options, asked : SUBSET Models,
            todo : SUBSET Models, completed : SUBSET Models,
            status : {"running", "interrupted", "done"}]

TypeOK == /\ enabled \in SUBSET Models
          /\ file \in [exists : BOOLEAN, completed : SUBSET Models,
                       current : Models \cup {None},
                       status : {"none", "running", "interrupted", "done"}]
          /\ cmd \in [Procs -> {Off} \cup Command]
          /\ walked \in SUBSET Models
          /\ events \in 0 .. MaxEvents

(* Whatever commands run side by side, are killed or fail, the file and    *)
(* the memory of a command list only models whose walk has returned.       *)
CompletedWasWalked ==
    /\ file.completed \subseteq walked
    /\ \A p \in Procs : cmd[p].at # "off" => cmd[p].completed \subseteq walked

(* A command without --max-models that reaches its end leaves no model it  *)
(* was asked for unwalked (backfill.py: walk every model once).            *)
EndCoversAsked ==
    \A p \in Procs :
        cmd[p].at = "ended" /\ cmd[p].opts.cap = 0 =>
            cmd[p].asked \subseteq walked

(* A killed command loses the completion of at most one model, the one     *)
(* that returned after the last save: the memory of a command is never     *)
(* more than one model ahead of the file.                                  *)
AtMostOneUnsaved ==
    \A p \in Procs :
        cmd[p].at \in {"next", "model", "ended"} =>
                        /\ file.completed \subseteq cmd[p].completed
                        /\ Cardinality(cmd[p].completed \ file.completed) <= 1

(* One command at a time implements the ledger: a model is recorded only   *)
(* after its walk and one at a time, what is recorded is forgotten by      *)
(* nothing but a command that was started with --reset, and a model that   *)
(* is recorded is not walked again (backfill.py:172-174 skips it, whatever *)
(* --resume and the cap say, and after any kill).                          *)
UnderWay == {m \in Models : \E p \in Procs :
                cmd[p].at = "model" /\ m = First(cmd[p].todo)}
L == INSTANCE Ledger WITH recorded <- file.completed, walking <- UnderWay
Resets == \E p \in Procs, opts \in Options : opts.reset /\ Start(p, opts)
ImplementsLedger ==
    /\ L!Init
    /\ [][L!Work \/ (L!Reset /\ Resets)]_(L!vars)

(* Whatever is killed or fails now and then, every model that stays        *)
(* enabled and can be listed is walked in the end (backfill.py:1, walks    *)
(* every enabled model).  It fails when some other model is Failing: the   *)
(* walk stops there and every later command begins with the same model.    *)
EveryModelWalked ==
    \A m \in Models \ Failing : <>[](m \in enabled) => <>(m \in walked)

=============================================================================
