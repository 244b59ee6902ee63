-------------------------- MODULE RunSessionProofs --------------------------
(***************************************************************************)
(* For any number of models, any cooldown and whatever breaks the session: *)
(* a model is deferred only because a walk of it has stored a car.         *)
(***************************************************************************)
EXTENDS RunSession, TLAPS

Command == [at : {"next", "cars"}, todo : SUBSET Models, fetched : BOOLEAN,
            attached : BOOLEAN, dead : BOOLEAN]

(* last_run_at is written together with the history of walks, and both     *)
(* grow old together.                                                      *)
IInv == TypeOK /\ DeferralEarned

(* TypeOK, conjunct by conjunct.                                           *)
LEMMA TypeParts ==
    TypeOK <=> /\ lastRun \in [Models -> Ages \cup {Never}]
               /\ ran \in [Models -> Ages \cup {Never}]
               /\ unfolded \in BOOLEAN
               /\ cmd = Off \/ cmd \in Command
               /\ cmd.at = "cars" => cmd.todo # {}
               /\ events \in 0 .. MaxEvents
BY DEF TypeOK, Command

(* No model has ever run.                                                  *)
LEMMA InitIInv == Init => IInv
<1> SUFFICES ASSUME Init PROVE IInv
  OBVIOUS
<1>1. unfolded \in BOOLEAN
  BY Zenon DEF Init
<1>2. TypeOK
  BY <1>1, SessionAssumption DEF Init, TypeOK, Off, Ages
<1> QED  BY <1>2 DEF Init, IInv, DeferralEarned

(* An age stays an age, and the older of two ages stays the older one.     *)
LEMMA OlderKeepsOrder ==
    ASSUME NEW a \in Ages \cup {Never}, NEW b \in Ages \cup {Never}
    PROVE  /\ Older(a) \in Ages \cup {Never}
           /\ (a # Never => b # Never /\ b <= a)
                => (Older(a) # Never => Older(b) # Never /\ Older(b) <= Older(a))
BY SessionAssumption DEF Older, Ages

(* Time passes.                                                            *)
LEMMA TickIInv ==
    ASSUME IInv, Tick
    PROVE  IInv'
<1>1. /\ lastRun \in [Models -> Ages \cup {Never}]
      /\ ran \in [Models -> Ages \cup {Never}]
  BY TypeParts DEF IInv
<1>2. /\ lastRun' = [m \in Models |-> Older(lastRun[m])]
      /\ ran' = [m \in Models |-> Older(ran[m])]
      /\ UNCHANGED <<unfolded, cmd, events>>
  BY DEF Tick
<1>3. \A m \in Models : /\ Older(lastRun[m]) \in Ages \cup {Never}
                        /\ Older(ran[m]) \in Ages \cup {Never}
  BY <1>1, OlderKeepsOrder
<1>4. TypeOK'
  BY <1>2, <1>3 DEF IInv, TypeOK, Ages
<1>5. DeferralEarned'
  <2> SUFFICES ASSUME NEW m \in Models, lastRun'[m] # Never
               PROVE  ran'[m] # Never /\ ran'[m] <= lastRun'[m]
    BY DEF DeferralEarned
  <2>1. lastRun[m] # Never => ran[m] # Never /\ ran[m] <= lastRun[m]
    BY DEF IInv, DeferralEarned
  <2>2. lastRun'[m] = Older(lastRun[m]) /\ ran'[m] = Older(ran[m])
    BY <1>2
  <2> QED  BY <1>1, <2>1, <2>2, OlderKeepsOrder
<1> QED  BY <1>4, <1>5 DEF IInv

(* The end of a walk writes both or only the history.                      *)
LEMMA EndModelIInv ==
    ASSUME IInv, EndModel
    PROVE  IInv'
<1> DEFINE m == First(cmd.todo)
<1>1. /\ lastRun \in [Models -> Ages \cup {Never}]
      /\ ran \in [Models -> Ages \cup {Never}]
      /\ cmd \in Command
  BY TypeParts DEF IInv, EndModel, Off
<1>2. /\ lastRun' = IF cmd.fetched /\ cmd.attached
                    THEN [lastRun EXCEPT ![m] = 0] ELSE lastRun
      /\ ran' = IF cmd.fetched THEN [ran EXCEPT ![m] = 0] ELSE ran
      /\ cmd' = NextModel(cmd)
      /\ UNCHANGED <<unfolded, events>>
  BY DEF EndModel
<1> HIDE DEF m
<1>3. 0 \in Ages /\ 0 # Never /\ 0 <= 0 /\ \A a \in Ages : 0 <= a
  BY SessionAssumption DEF Ages
<1>4. cmd' \in Command /\ cmd'.at # "cars"
  BY <1>1, <1>2 DEF NextModel, Command
<1>5. /\ lastRun' \in [Models -> Ages \cup {Never}]
      /\ ran' \in [Models -> Ages \cup {Never}]
  BY <1>1, <1>2, <1>3
<1>6. TypeOK'
  BY <1>2, <1>4, <1>5 DEF IInv, TypeOK, Command, Ages
<1>7. DeferralEarned'
  <2> SUFFICES ASSUME NEW k \in Models, lastRun'[k] # Never
               PROVE  ran'[k] # Never /\ ran'[k] <= lastRun'[k]
    BY DEF DeferralEarned
  <2>1. CASE k = m /\ cmd.fetched
    <3>1. ran'[k] = 0
      BY <1>1, <1>2, <2>1
    <3>2. lastRun'[k] \in Ages
      BY <1>5
    <3> QED  BY <1>3, <3>1, <3>2
  <2>2. CASE ~(k = m /\ cmd.fetched)
    <3>1. ran'[k] = ran[k] /\ lastRun'[k] = lastRun[k]
      BY <1>1, <1>2, <2>2
    <3> QED  BY <3>1 DEF IInv, DeferralEarned
  <2> QED  BY <2>1, <2>2
<1> QED  BY <1>6, <1>7 DEF IInv

(* The other steps change the command only.                                *)
LEMMA CommandIInv ==
    ASSUME IInv, lastRun' = lastRun, ran' = ran, unfolded' \in BOOLEAN,
           cmd' = Off \/ (cmd' \in Command /\ (cmd'.at = "cars" => cmd'.todo # {})),
           events' \in 0 .. MaxEvents
    PROVE  IInv'
<1>1. TypeOK'
  BY DEF IInv, TypeOK, Command, Off, Ages
<1> QED  BY <1>1 DEF IInv, DeferralEarned

LEMMA StartIInv ==
    ASSUME IInv, NEW yday, NEW cap, Start(yday, cap)
    PROVE  IInv'
<1>1. PICK plan : /\ plan = PlanToday(Models, yday, BucketCount, lastRun, Cooldown, Never)
                  /\ cmd' = [at |-> "next", todo |-> Truncate(plan, cap),
                             fetched |-> FALSE, attached |-> TRUE, dead |-> FALSE]
  BY DEF Start
<1>2. Truncate(plan, cap) \subseteq Models
  BY <1>1 DEF Truncate, PlanToday, Ready, BucketFor
<1>3. cmd' \in Command /\ cmd'.at # "cars"
  BY <1>1, <1>2 DEF Command
<1> QED  BY <1>3, CommandIInv DEF Start, IInv, TypeOK

LEMMA LoopIInv ==
    ASSUME IInv, BeginModel \/ ModelRaises \/ Dedup \/ StoreCar
    PROVE  IInv'
<1>1. cmd \in Command /\ (cmd.at = "cars" => cmd.todo # {})
  BY TypeParts DEF IInv, Off, BeginModel, ModelRaises, Dedup, StoreCar
<1>2. CASE BeginModel
  <2>1. cmd' \in Command /\ cmd'.todo # {}
    BY <1>1, <1>2 DEF BeginModel, Command
  <2> QED  BY <1>2, <2>1, CommandIInv DEF BeginModel, IInv, TypeOK
<1>3. CASE ModelRaises
  <2>1. cmd' \in Command /\ cmd'.at # "cars"
    BY <1>1, <1>3 DEF ModelRaises, NextModel, Command
  <2> QED  BY <1>3, <2>1, CommandIInv DEF ModelRaises, IInv, TypeOK
<1>4. CASE Dedup
  <2>1. unfolded' \in BOOLEAN
    BY <1>4, Zenon DEF Dedup
  <2>2. lastRun' = lastRun /\ ran' = ran /\ events' = events /\ cmd' = Off
    BY <1>4 DEF Dedup
  <2>3. events' \in 0 .. MaxEvents
    BY <2>2 DEF IInv, TypeOK
  <2> QED  BY <2>1, <2>2, <2>3, CommandIInv, Zenon
<1>5. CASE StoreCar
  <2>1. cmd' \in Command /\ cmd'.todo # {}
    BY <1>1, <1>5 DEF StoreCar, Command
  <2> QED  BY <1>5, <2>1, CommandIInv DEF StoreCar, IInv, TypeOK
<1> QED  BY <1>2, <1>3, <1>4, <1>5

(* What breaks the session or the process.                                 *)
LEMMA EventIInv ==
    ASSUME IInv, RowRejected \/ ConnectionLost \/ Kill
    PROVE  IInv'
<1>1. events' \in 0 .. MaxEvents
  BY SessionAssumption DEF IInv, TypeOK, RowRejected, ConnectionLost, Kill, Event
<1>2. CASE RowRejected \/ ConnectionLost
  <2>1. cmd \in Command /\ cmd.todo # {}
    BY <1>2, TypeParts DEF IInv, Off, RowRejected, ConnectionLost
  <2>2. cmd' = Off \/ cmd' = [cmd EXCEPT !.dead = TRUE]
    BY <1>2 DEF RowRejected, ConnectionLost
  <2>3. LET dead == [cmd EXCEPT !.dead = TRUE] IN dead \in Command /\ dead.todo # {}
    BY <2>1 DEF Command
  <2>4. lastRun' = lastRun /\ ran' = ran /\ unfolded' = unfolded
    BY <1>2 DEF RowRejected, ConnectionLost
  <2>5. unfolded' \in BOOLEAN
    BY <2>4 DEF IInv, TypeOK
  <2>6. cmd' = Off \/ (cmd' \in Command /\ (cmd'.at = "cars" => cmd'.todo # {}))
    BY <2>2, <2>3
  <2> QED  BY <1>1, <2>4, <2>5, <2>6, CommandIInv, Zenon
<1>3. CASE Kill
  <2>1. lastRun' = lastRun /\ ran' = ran /\ unfolded' = unfolded /\ cmd' = Off
    BY <1>3 DEF Kill
  <2>2. unfolded' \in BOOLEAN
    BY <2>1 DEF IInv, TypeOK
  <2> QED  BY <1>1, <2>1, <2>2, CommandIInv, Zenon
<1> QED  BY <1>2, <1>3

LEMMA InductiveIInv == Spec => []IInv
<1>1. ASSUME IInv, UNCHANGED vars
      PROVE  IInv'
  BY <1>1 DEF vars, IInv, TypeOK, DeferralEarned, Ages
<1>2. IInv /\ [Next]_vars => IInv'
  BY <1>1, TickIInv, EndModelIInv, StartIInv, LoopIInv, EventIInv DEF Next, Step
<1> QED  BY InitIInv, <1>2, PTL DEF Spec

(* The types of RunSession, for any number of models and events.           *)
THEOREM RunSessionTypes == Spec => []TypeOK
BY InductiveIInv, PTL DEF IInv

(* Whatever breaks the session, last_run_at of a model is never younger    *)
(* than the last walk that stored a car of it (run_model_incremental       *)
(* leaves it alone otherwise, pipeline.py:379-394).                        *)
THEOREM RunSessionDeferralEarned == Spec => []DeferralEarned
BY InductiveIInv, PTL DEF IInv
=============================================================================
