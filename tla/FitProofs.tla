------------------------------ MODULE FitProofs ------------------------------
(***************************************************************************)
(* The loops of the trainers, for every size of the data, number of steps, *)
(* frequency, warm-up and number of crashes, and the stages of one step,   *)
(* for every configuration.                                                *)
(*                                                                         *)
(* First that of the one-step-off-policy trainer: how far a batch is       *)
(* behind the weights it trains, and that no batch is trained on twice.    *)
(***************************************************************************)
EXTENDS OneStepOff, FiniteSetTheorems, TLAPS

PcSet == {"await", "sync", "launch", "train", "validate", "save", "done", "error", "down"}
Versions == 0 .. TotalSteps
Position == 0 .. TotalSteps + MaxCrashes + 1
Batch == [batch : Position, version : Versions, state : {"idle", "running", "ready"}]
Checkpoint ==
  [step : Versions, weights : Versions, trained : SUBSET Position, position : Position]

\* Where the weights of this step are not updated yet, or those of the last step are all.
BeforeUpdate == pc \in {"await", "sync", "launch", "train", "done"}

-----------------------------------------------------------------------------
(* The invariant.                                                          *)

\* The steps are counted up to the last, and each updates the actor once at most.
StepsCounted ==
  /\ pc # "done" => step <= TotalSteps
  /\ saved.step < step
  /\ weights <= step /\ (BeforeUpdate => weights < step)
  /\ saved.weights <= saved.step

\* Each crash, and the generation ahead, takes the data one batch further than the steps.
DataAhead ==
  /\ position <= step + 1 + crashes
  /\ pc \in {"await", "sync", "launch", "done"} => position <= step + crashes
  /\ saved.position <= saved.step + 1 + crashes
  /\ pc = "down" => saved.position <= saved.step + crashes

\* The servers' weights are the actor's, from before the last update at most, and change
\* only while nothing is generated.
OneBehind ==
  /\ future.state = "running" => future.version = rollout
  /\ pc \in {"sync", "launch"} => future.state = "ready"
  /\ pc \in {"await", "sync", "launch", "train", "validate", "save"} =>
       rollout <= weights /\ weights - rollout <= 1
  /\ pc = "await" => future.version = rollout
  /\ pc \in {"train", "validate", "save"} /\ ~IsLastStep => future.version = rollout
  /\ pc = "sync" => batch.version = rollout
  /\ pc \in {"launch", "train"} => rollout = weights /\ weights - batch.version <= 1
  /\ pc = "save" /\ ValidationDue => validated = rollout

\* What is trained next, and what is generated ahead of it, was not trained before; a
\* batch is trained per step.
NewBatches ==
  /\ trained \subseteq 1 .. position /\ saved.trained \subseteq 1 .. saved.position
  /\ Cardinality(saved.trained) = saved.step
  /\ BeforeUpdate => Cardinality(trained) = step - 1
  /\ pc \in {"validate", "save"} => Cardinality(trained) = step
  /\ pc \in {"sync", "launch"} => batch.batch = position /\ position \in 1 .. position \ trained
  /\ pc = "train" => batch.batch \in 1 .. position \ trained
  /\ pc = "train" /\ ~IsLastStep /\ future.batch # 0 =>
       future.batch = position /\ position \in 1 .. position \ (trained \cup {batch.batch})
  /\ (pc = "await" \/ (pc \in {"validate", "save"} /\ ~IsLastStep)) /\ future.batch # 0 =>
       future.batch = position /\ position \in 1 .. position \ trained

Inv == TypeOK /\ StepsCounted /\ DataAhead /\ OneBehind /\ NewBatches

\* TypeOK a variable at a time.
Types ==
  /\ pc \in PcSet /\ step \in Nat /\ 1 <= step /\ step <= TotalSteps + 1
  /\ weights \in Versions /\ rollout \in Versions /\ validated \in Versions
  /\ future \in Batch /\ batch \in Batch
  /\ position \in Position /\ limit \in Nat
  /\ trained \in SUBSET Position /\ saved \in Checkpoint
  /\ crashes \in Nat /\ crashes <= MaxCrashes

LEMMA Constants ==
    ASSUME OneStepOffAssumption
    PROVE  /\ EpochLen \in Nat /\ EpochLen >= 1 /\ TotalEpochs \in Nat /\ TotalEpochs >= 1
           /\ TotalSteps \in Nat /\ TotalSteps >= 1 /\ CriticWarmup \in Nat
           /\ MaxCrashes \in Nat /\ SaveFreq \in Nat /\ SaveFreq >= 1
           /\ TestFreq \in Nat /\ TestFreq >= 1
BY DEF OneStepOffAssumption

LEMMA TypesAre ==
    ASSUME OneStepOffAssumption
    PROVE  TypeOK <=> Types
BY Constants DEF TypeOK, Types, PcSet, Versions, Position, Batch, Checkpoint

LEMMA EndInNat ==
    ASSUME OneStepOffAssumption, NEW p \in Nat
    PROVE  EndOfStream(p) \in Nat
<1>1. /\ EpochLen \in Nat /\ EpochLen >= 1 /\ TotalEpochs \in Nat /\ TotalEpochs >= 1
  BY Constants
<1>2. (p + EpochLen - 1) \div EpochLen \in Nat
  BY <1>1
<1> DEFINE q == (p + EpochLen - 1) \div EpochLen
           e == IF p = 0 THEN TotalEpochs ELSE TotalEpochs - 1
<1>3. e \in Nat
  BY <1>1
<1>4. EndOfStream(p) = q * EpochLen + e * EpochLen
  BY DEF EndOfStream
<1> HIDE DEF q, e
<1>5. q * EpochLen \in Nat /\ e * EpochLen \in Nat
  BY <1>1, <1>2, <1>3 DEF q
<1> QED BY <1>4, <1>5

\* _async_gen_next_batch: the next batch of the stream, or None.
LEMMA DrawIs ==
    ASSUME OneStepOffAssumption, NEW p \in Position, NEW end \in Nat, NEW v \in Versions,
           p < end => p + 1 \in Position
    PROVE  /\ Draw(p, end, v) \in Batch
           /\ Draw(p, end, v).version = v
           /\ p < end => Draw(p, end, v).batch = p + 1
           /\ ~(p < end) => Draw(p, end, v).batch = 0
BY Constants DEF Draw, Batch, Position

-----------------------------------------------------------------------------
(* It holds at the start.                                                  *)

LEMMA AtStart ==
    ASSUME OneStepOffAssumption, Init
    PROVE  Inv
<1>1. EndOfStream(0) \in Nat
  BY EndInNat
<1>2. /\ pc = "await" /\ step = 1 /\ weights = 0 /\ rollout = 0 /\ position = 1
      /\ limit = EndOfStream(0) /\ trained = {} /\ validated = 0 /\ crashes = 0
      /\ saved = [step |-> 0, weights |-> 0, trained |-> {}, position |-> 0]
      /\ future = Draw(0, EndOfStream(0), 0) /\ batch = Idle
  BY DEF Init, Nothing
<1>3. 0 \in Position /\ 1 \in Position /\ 0 \in Versions
  BY Constants DEF Position, Versions
<1>4. future \in Batch /\ future.version = 0 /\ future.batch \in {0, 1}
  BY <1>1, <1>2, <1>3, DrawIs
<1>5. Types
  BY <1>1, <1>2, <1>3, <1>4, Constants DEF Types, PcSet, Idle, Batch, Checkpoint
<1>6. StepsCounted /\ DataAhead
  BY <1>2, Constants DEF StepsCounted, DataAhead, BeforeUpdate
<1>7. OneBehind
  BY <1>2, <1>4 DEF OneBehind
<1>8. NewBatches
  BY <1>2, <1>4, FS_EmptySet DEF NewBatches, BeforeUpdate
<1> QED BY <1>5, <1>6, <1>7, <1>8, TypesAre DEF Inv

-----------------------------------------------------------------------------
(* Every step preserves it.                                                *)

\* What the invariant says in plain numbers.
LEMMA Bounds ==
    ASSUME OneStepOffAssumption, Inv
    PROVE  /\ Types
           /\ TotalSteps \in Nat /\ MaxCrashes \in Nat /\ step \in Nat /\ crashes \in Nat
           /\ {weights, rollout, validated, position, limit} \subseteq Nat
           /\ {saved.step, saved.weights, saved.position} \subseteq Nat
           /\ {future.version, future.batch, batch.version, batch.batch} \subseteq Nat
BY Constants, TypesAre DEF Inv, Types, Versions, Position, Batch, Checkpoint

\* The future that LaunchNext leaves.
LEMMA Launched ==
    ASSUME OneStepOffAssumption, Inv, LaunchNext, ~IsLastStep
    PROVE  /\ position' \in Position /\ position <= position' /\ position' <= position + 1
           /\ future' \in Batch /\ future'.version = rollout
           /\ future'.batch # 0 => future'.batch = position' /\ position' = position + 1
<1>1. /\ pc = "launch" /\ step <= TotalSteps /\ position <= step + crashes
      /\ step < TotalSteps /\ crashes <= MaxCrashes
  BY Bounds DEF LaunchNext, Inv, StepsCounted, DataAhead, IsLastStep, Types
<1>2. position \in Position /\ limit \in Nat /\ rollout \in Versions
  BY Bounds DEF Types
<1>3. position + 1 \in Position
  BY <1>1, Bounds DEF Position
<1>4. /\ future' = Draw(position, limit, rollout)
      /\ position' = IF position < limit THEN position + 1 ELSE position
  BY DEF LaunchNext
<1> QED BY <1>2, <1>3, <1>4, DrawIs, Bounds

\* Where StartFrom leaves the stream.
LEMMA Restarted ==
    ASSUME OneStepOffAssumption, Inv, Restart
    PROVE  /\ pc' = "await" /\ step' = saved.step + 1 /\ saved.step < TotalSteps
           /\ weights' = saved.weights /\ rollout' = weights' /\ trained' = saved.trained
           /\ limit' \in Nat /\ position' \in Position
           /\ saved.position <= position' /\ position' <= saved.position + 1
           /\ saved.position <= saved.step + crashes
           /\ future' \in Batch /\ future'.version = rollout'
           /\ future'.batch # 0 => future'.batch = position' /\ position' = saved.position + 1
           /\ UNCHANGED <<batch, validated, saved, crashes>>
<1>1. /\ pc = "down" /\ saved.step < TotalSteps /\ saved.position <= saved.step + crashes
      /\ crashes <= MaxCrashes
  BY Bounds DEF Restart, Inv, StepsCounted, DataAhead, Types
<1>2. saved.position \in Position /\ saved.weights \in Versions
  BY Bounds DEF Types, Checkpoint
<1>3. saved.position + 1 \in Position
  BY <1>1, Bounds DEF Position
<1>4. EndOfStream(saved.position) \in Nat
  BY EndInNat, Bounds
<1>5. /\ future' = Draw(saved.position, EndOfStream(saved.position), saved.weights)
      /\ position' = IF saved.position < EndOfStream(saved.position)
                     THEN saved.position + 1 ELSE saved.position
      /\ limit' = EndOfStream(saved.position)
      /\ pc' = "await" /\ step' = saved.step + 1 /\ trained' = saved.trained
      /\ weights' = saved.weights /\ rollout' = weights'
      /\ UNCHANGED <<batch, validated, saved, crashes>>
  BY DEF Restart, StartFrom
<1> QED BY <1>1, <1>2, <1>3, <1>4, <1>5, DrawIs, Bounds

LEMMA TypesStep ==
    ASSUME OneStepOffAssumption, Inv, Next
    PROVE  Types'
<1>1. Types /\ StepsCounted /\ DataAhead
  BY Bounds DEF Inv
<1> USE DEF Types
<1>2. CASE GenerationDone
  BY <1>1, <1>2 DEF GenerationDone, dataVars, Batch
<1>3. CASE AwaitBatch
  BY <1>1, <1>3 DEF AwaitBatch, dataVars, PcSet
<1>4. CASE SyncRolloutWeights
  BY <1>1, <1>4 DEF SyncRolloutWeights, SyncedVersion, dataVars, PcSet
<1>5. CASE LaunchNext
  <2>1. position' \in Position /\ future' \in Batch
    BY <1>1, <1>5, Launched DEF LaunchNext
  <2> QED BY <1>1, <1>5, <2>1 DEF LaunchNext, PcSet
<1>6. CASE Train
  <2>1. weights' \in Versions
    BY <1>1, <1>6, Constants DEF Train, StepsCounted, BeforeUpdate, Versions
  <2>2. trained' \in SUBSET Position
    BY <1>1, <1>6 DEF Train, Batch
  <2> QED BY <1>1, <1>6, <2>1, <2>2 DEF Train, dataVars, PcSet
<1>7. CASE Validate
  BY <1>1, <1>7 DEF Validate, dataVars, PcSet
<1>8. CASE EndStep
  <2>1. step \in Versions /\ step <= TotalSteps
    BY <1>1, <1>8, Constants DEF EndStep, StepsCounted, Versions
  <2>2. saved' \in Checkpoint
    BY <1>1, <1>8, <2>1 DEF EndStep, SavedPosition, Checkpoint
  <2>3. pc' \in PcSet
    BY <1>8 DEF EndStep, PcSet
  <2> QED BY <1>1, <1>8, <2>1, <2>2, <2>3, Constants DEF EndStep, dataVars
<1>9. CASE Crash
  <2>1. future' \in Batch
    BY <1>9, Constants DEF Crash, Idle, Batch, Position, Versions
  <2> QED BY <1>1, <1>9, <2>1, Constants DEF Crash, dataVars, PcSet
<1>10. CASE Restart
  <2>1. saved.weights \in Versions /\ saved.trained \in SUBSET Position /\ saved.step \in Nat
    BY <1>1 DEF Checkpoint, Versions
  <2> QED BY <1>1, <1>10, <2>1, Restarted, Constants DEF PcSet
<1> QED BY <1>2, <1>3, <1>4, <1>5, <1>6, <1>7, <1>8, <1>9, <1>10 DEF Next, Fit

LEMMA CountedStep ==
    ASSUME OneStepOffAssumption, Inv, Next
    PROVE  StepsCounted' /\ DataAhead'
<1>1. StepsCounted /\ DataAhead
  BY DEF Inv
<1> USE Bounds DEF StepsCounted, DataAhead, BeforeUpdate
<1>2. CASE GenerationDone
  BY <1>1, <1>2 DEF GenerationDone, dataVars
<1>3. CASE AwaitBatch
  BY <1>1, <1>3 DEF AwaitBatch, dataVars
<1>4. CASE SyncRolloutWeights
  BY <1>1, <1>4 DEF SyncRolloutWeights, dataVars
<1>5. CASE LaunchNext
  <2>1. position' <= position + 1 /\ position' \in Nat
    BY <1>5, Launched DEF LaunchNext, Position
  <2> QED BY <1>1, <1>5, <2>1 DEF LaunchNext
<1>6. CASE Train
  BY <1>1, <1>6 DEF Train, dataVars
<1>7. CASE Validate
  BY <1>1, <1>7 DEF Validate, dataVars
<1>8. CASE EndStep
  BY <1>1, <1>8 DEF EndStep, IsLastStep, SavedPosition, dataVars
<1>9. CASE Crash
  BY <1>1, <1>9 DEF Crash, dataVars
<1>10. CASE Restart
  <2>1. position' \in Nat
    BY <1>10, Restarted DEF Position
  <2> QED BY <1>1, <1>10, <2>1, Restarted
<1> QED BY <1>2, <1>3, <1>4, <1>5, <1>6, <1>7, <1>8, <1>9, <1>10 DEF Next, Fit

LEMMA BehindStep ==
    ASSUME OneStepOffAssumption, Inv, Next
    PROVE  OneBehind'
<1>1. OneBehind
  BY DEF Inv
<1> USE Bounds DEF OneBehind
<1>2. CASE GenerationDone
  <2>1. future'.version = future.version /\ future'.state = "ready"
    BY <1>2, Bounds DEF GenerationDone, Types, Batch
  <2> QED BY <1>1, <1>2, <2>1 DEF GenerationDone, IsLastStep, ValidationDue
<1>3. CASE AwaitBatch
  BY <1>1, <1>3 DEF AwaitBatch, FutureReady
<1>4. CASE SyncRolloutWeights
  BY <1>1, <1>4 DEF SyncRolloutWeights, SyncedVersion
<1>5. CASE LaunchNext
  <2>1. CASE IsLastStep
    BY <1>1, <1>5, <2>1 DEF LaunchNext, IsLastStep
  <2>2. CASE ~IsLastStep
    <3>1. future'.version = rollout
      BY <1>5, <2>2, Launched
    <3> QED BY <1>1, <1>5, <3>1 DEF LaunchNext
  <2> QED BY <2>1, <2>2
<1>6. CASE Train
  BY <1>1, <1>6 DEF Train, IsLastStep
<1>7. CASE Validate
  BY <1>1, <1>7 DEF Validate, IsLastStep, ValidationDue
<1>8. CASE EndStep
  BY <1>1, <1>8 DEF EndStep, IsLastStep
<1>9. CASE Crash
  BY <1>1, <1>9 DEF Crash, Idle
<1>10. CASE Restart
  <2>1. weights' \in Nat /\ weights' - rollout' <= 1 /\ rollout' <= weights'
    BY <1>10, Restarted
  <2>2. pc' = "await" /\ future'.version = rollout'
    BY <1>10, Restarted
  <2> HIDE Bounds
  <2> QED BY <2>1, <2>2
<1> QED BY <1>2, <1>3, <1>4, <1>5, <1>6, <1>7, <1>8, <1>9, <1>10 DEF Next, Fit

LEMMA NewStep ==
    ASSUME OneStepOffAssumption, Inv, Next
    PROVE  NewBatches'
<1>1. NewBatches /\ OneBehind
  BY DEF Inv
<1> USE DEF NewBatches, BeforeUpdate
<1>2. CASE GenerationDone
  <2>1. future'.batch = future.batch
    BY <1>2, Bounds DEF GenerationDone, Types, Batch
  <2> QED BY <1>1, <1>2, <2>1 DEF GenerationDone, IsLastStep, dataVars
<1>3. CASE AwaitBatch
  BY Bounds, <1>1, <1>3 DEF AwaitBatch, dataVars
<1>4. CASE SyncRolloutWeights
  BY Bounds, <1>1, <1>4 DEF SyncRolloutWeights, dataVars
<1>5. CASE LaunchNext
  <2>1. CASE IsLastStep
    BY Bounds, <1>1, <1>5, <2>1 DEF LaunchNext, IsLastStep
  <2>2. CASE ~IsLastStep
    <3>1. /\ position' \in Nat /\ position <= position' /\ position' <= position + 1
          /\ future'.batch # 0 => future'.batch = position' /\ position' = position + 1
      BY <1>5, <2>2, Launched DEF Position
    <3>2. trained' = trained /\ saved' = saved /\ batch' = batch /\ pc' = "train" /\ step' = step
          /\ pc = "launch"
      BY <1>5 DEF LaunchNext
    <3>3. position + 1 \notin trained
      BY <1>1, Bounds
    <3> QED BY <1>1, <3>1, <3>2, <3>3, Bounds
  <2> QED BY <2>1, <2>2
<1>6. CASE Train
  <2>1. /\ pc = "train" /\ pc' = "validate" /\ trained' = trained \cup {batch.batch}
        /\ UNCHANGED <<step, rollout, future, batch, position, limit, validated, saved, crashes>>
    BY <1>6 DEF Train, dataVars
  <2>2. trained \subseteq 1 .. position /\ batch.batch \in 1 .. position \ trained
    BY <1>1, <2>1
  <2>3. IsFiniteSet(trained)
    <3>1. IsFiniteSet(1 .. position)
      BY Bounds, FS_Interval
    <3> QED BY <2>2, <3>1, FS_Subset
  <2>4. Cardinality(trained') = Cardinality(trained) + 1
    BY <2>1, <2>2, <2>3, FS_AddElement
  <2>5. Cardinality(trained) = step - 1 /\ trained' \subseteq 1 .. position
    BY <1>1, <2>1, <2>2
  <2>8. Cardinality(trained') = step
    BY <2>4, <2>5, Bounds
  <2>6. ~IsLastStep /\ future.batch # 0 =>
          future.batch = position /\ position \in 1 .. position \ trained'
    BY <1>1, <2>1
  <2>7. IsLastStep' = IsLastStep
    BY <2>1 DEF IsLastStep
  <2> QED BY <1>1, <2>1, <2>5, <2>6, <2>7, <2>8
<1>7. CASE Validate
  BY Bounds, <1>1, <1>7 DEF Validate, IsLastStep, dataVars
<1>8. CASE EndStep
  <2>1. /\ pc = "save" /\ step' = step + 1
        /\ pc' = IF IsLastStep THEN "done" ELSE "await"
        /\ UNCHANGED <<future, batch, position, trained>>
    BY <1>8 DEF EndStep, dataVars
  <2>2. \/ saved' = saved
        \/ saved' = [step |-> step, weights |-> weights, trained |-> trained,
                     position |-> position]
    BY <1>8 DEF EndStep, SavedPosition
  <2>3. trained \subseteq 1 .. position /\ Cardinality(trained) = step
    BY <1>1, <2>1
  <2>4. /\ saved'.trained \subseteq 1 .. saved'.position
        /\ Cardinality(saved'.trained) = saved'.step
    <3>1. CASE saved' = saved
      BY <1>1, <3>1
    <3>2. CASE saved' # saved
      <4>1. /\ saved'.trained = trained /\ saved'.position = position
            /\ saved'.step = step
        BY <2>2, <3>2
      <4> QED BY <2>3, <4>1
    <3> QED BY <3>1, <3>2
  <2>5. step' - 1 = step
    BY <2>1, Bounds
  <2>6. ~IsLastStep /\ future.batch # 0 =>
          future.batch = position /\ position \in 1 .. position \ trained
    BY <1>1, <2>1
  <2>7. trained' = trained /\ Cardinality(trained) = step' - 1
    BY <2>1, <2>3, <2>5
  <2>8. CASE IsLastStep
    BY <2>1, <2>3, <2>4, <2>7, <2>8
  <2>9. CASE ~IsLastStep
    BY <2>1, <2>3, <2>4, <2>6, <2>7, <2>9
  <2> QED BY <2>8, <2>9
<1>9. CASE Crash
  BY Bounds, <1>1, <1>9 DEF Crash, dataVars
<1>10. CASE Restart
  <2>1. /\ position' \in Nat /\ saved.position <= position'
        /\ saved.trained \subseteq 1 .. saved.position /\ Cardinality(saved.trained) = saved.step
    BY <1>1, <1>10, Restarted DEF Position
  <2>2. /\ saved.position + 1 \notin saved.trained
        /\ saved.trained \subseteq 1 .. position'
    BY <2>1, Bounds
  <2> QED BY <2>1, <2>2, <1>10, Restarted, Bounds
<1> QED BY <1>2, <1>3, <1>4, <1>5, <1>6, <1>7, <1>8, <1>9, <1>10 DEF Next, Fit

LEMMA StepKeeps ==
    ASSUME OneStepOffAssumption, Inv, [Next]_vars
    PROVE  Inv'
<1>1. CASE Next
  <2>1. Types' => TypeOK'
    BY TypesAre, PTL
  <2> QED BY <1>1, <2>1, TypesStep, CountedStep, BehindStep, NewStep DEF Inv
<1>2. CASE UNCHANGED vars
  <2>1. UNCHANGED <<pc, step, weights, rollout, future, batch, position, limit, trained,
                    validated, saved, crashes>>
    BY <1>2 DEF vars, dataVars
  <2> QED BY <2>1 DEF Inv, TypeOK, StepsCounted, BeforeUpdate, DataAhead, OneBehind, NewBatches,
                     IsLastStep, ValidationDue
<1> QED BY <1>1, <1>2

-----------------------------------------------------------------------------
(* What the trainer keeps to.                                              *)

LEMMA InvHolds ==
    ASSUME OneStepOffAssumption
    PROVE  Spec => []Inv
<1>1. Init => Inv
  BY AtStart
<1>2. Inv /\ [Next]_vars => Inv'
  BY StepKeeps
<1> QED BY <1>1, <1>2, PTL DEF Spec

(* Every variable keeps its type: of the data no more is handed out than   *)
(* the steps, the batch generated ahead and a batch for every crash.       *)
THEOREM TypeCorrect ==
    ASSUME OneStepOffAssumption
    PROVE  Spec => []TypeOK
<1>1. Inv => TypeOK
  BY DEF Inv
<1> QED BY <1>1, InvHolds, PTL

(* The weights of the servers never change under a batch, and what is      *)
(* trained was generated by the weights before the last update of the      *)
(* actor or after it: generation and training stay one step apart, through *)
(* the warm-up, crashes and resumes.                                       *)
THEOREM StaysOneStepOff ==
    ASSUME OneStepOffAssumption
    PROVE  Spec => [](OnePolicyPerBatch /\ OneStepOffPolicy)
<1>1. Inv => OnePolicyPerBatch /\ OneStepOffPolicy
  <2> SUFFICES ASSUME Inv PROVE OnePolicyPerBatch /\ OneStepOffPolicy
    OBVIOUS
  <2>1. OneBehind
    BY DEF Inv
  <2>2. pc = "sync" => weights - batch.version <= 1
    BY <2>1, Bounds DEF OneBehind
  <2> QED BY <2>1, <2>2, Bounds DEF OneBehind, OnePolicyPerBatch, OneStepOffPolicy
<1> QED BY <1>1, InvHolds, PTL

(* No batch is trained on twice in what a checkpoint resumes, though every *)
(* crash finds a batch generated ahead: the steps are as many as the       *)
(* batches.                                                                *)
THEOREM BatchesOnce ==
    ASSUME OneStepOffAssumption
    PROVE  Spec => []EveryBatchOnce
<1>1. Inv => EveryBatchOnce
  BY DEF Inv, NewBatches, BeforeUpdate, EveryBatchOnce
<1> QED BY <1>1, InvHolds, PTL

(* A validation, beside which the next batch is generated, measures        *)
(* weights at most one update behind the actor's.                          *)
THEOREM ValidationClose ==
    ASSUME OneStepOffAssumption
    PROVE  Spec => []ValidationAtMostOneBehind
<1>1. Inv => ValidationAtMostOneBehind
  BY Bounds DEF Inv, OneBehind, ValidationAtMostOneBehind
<1> QED BY <1>1, InvHolds, PTL

-----------------------------------------------------------------------------
(* The end of the data.                                                    *)

\* The data of total_epochs epochs is enough: what total_training_steps defaults to.
EnoughData == TotalSteps <= TotalEpochs * EpochLen

\* A process that was not resumed has a batch whenever it awaits one.
FirstProcess ==
  crashes = 0 =>
    /\ pc \notin {"down", "error"} /\ TotalSteps <= limit
    /\ (pc = "await" \/ (pc \in {"train", "validate", "save"} /\ ~IsLastStep)) =>
         future.batch # 0

LEMMA WholeStream ==
    ASSUME OneStepOffAssumption
    PROVE  EndOfStream(0) = TotalEpochs * EpochLen
<1>1. EpochLen \in Nat /\ EpochLen >= 1 /\ TotalEpochs \in Nat
  BY Constants
<1>2. (0 + EpochLen - 1) \div EpochLen = 0
  BY <1>1
<1>3. EndOfStream(0) = 0 * EpochLen + TotalEpochs * EpochLen
  BY <1>2 DEF EndOfStream
<1>4. TotalEpochs * EpochLen \in Nat /\ 0 * EpochLen = 0
  BY <1>1
<1> QED BY <1>3, <1>4

LEMMA FirstAtStart ==
    ASSUME OneStepOffAssumption, EnoughData, Init
    PROVE  FirstProcess
<1>1. TotalSteps <= EndOfStream(0) /\ EndOfStream(0) \in Nat
  BY WholeStream, EndInNat DEF EnoughData
<1>2. 0 < EndOfStream(0)
  BY <1>1, Constants
<1>3. future.batch = 1
  BY <1>2 DEF Init, Draw
<1> QED BY <1>1, <1>3 DEF Init, FirstProcess

LEMMA FirstStep ==
    ASSUME OneStepOffAssumption, Inv, FirstProcess, [Next]_vars
    PROVE  FirstProcess'
<1> USE DEF FirstProcess
<1>1. CASE GenerationDone
  <2>1. future'.batch = future.batch
    BY <1>1, Bounds DEF GenerationDone, Types, Batch
  <2> QED BY <1>1, <2>1 DEF GenerationDone, IsLastStep, dataVars
<1>2. CASE AwaitBatch
  BY <1>2 DEF AwaitBatch, dataVars
<1>3. CASE SyncRolloutWeights
  BY <1>3 DEF SyncRolloutWeights, dataVars
<1>4. CASE LaunchNext
  <2>1. pc = "launch" /\ pc' = "train" /\ step' = step /\ crashes' = crashes /\ limit' = limit
    BY <1>4 DEF LaunchNext
  <2>2. CASE crashes = 0 /\ ~IsLastStep
    <3>1. position <= step + crashes /\ TotalSteps <= limit /\ ~(step >= TotalSteps)
      BY <2>1, <2>2 DEF Inv, DataAhead, IsLastStep
    <3>2. position < limit
      BY <2>2, <3>1, Bounds
    <3>3. future' = [batch |-> position + 1, version |-> rollout, state |-> "running"]
      BY <1>4, <2>2, <3>2 DEF LaunchNext, Draw
    <3>4. future'.batch # 0
      BY <3>3, Bounds
    <3> QED BY <2>1, <3>4
  <2>3. IsLastStep' = IsLastStep
    BY <2>1 DEF IsLastStep
  <2> QED BY <2>1, <2>2, <2>3
<1>5. CASE Train
  BY <1>5 DEF Train, IsLastStep, dataVars
<1>6. CASE Validate
  BY <1>6 DEF Validate, IsLastStep, dataVars
<1>7. CASE EndStep
  BY <1>7 DEF EndStep, IsLastStep, dataVars
<1>8. CASE Crash
  <2>1. crashes' # 0
    BY <1>8, Bounds DEF Crash
  <2> QED BY <2>1
<1>9. CASE Restart
  BY <1>9, Restarted DEF Restart
<1>10. CASE UNCHANGED vars
  BY <1>10 DEF vars, dataVars, IsLastStep
<1> QED BY <1>1, <1>2, <1>3, <1>4, <1>5, <1>6, <1>7, <1>8, <1>9, <1>10 DEF Next, Fit

(* fit() fails for want of data only after a resume, whose iterator ends   *)
(* total_epochs epochs from the start of the one it is in: as long as no   *)
(* crash has happened every step finds its batch.                          *)
THEOREM FailsOnlyResumed ==
    ASSUME OneStepOffAssumption, EnoughData
    PROVE  Spec => [](crashes = 0 => EndsGracefully)
<1>1. Init => FirstProcess
  BY FirstAtStart
<1>2. Inv /\ FirstProcess /\ [Next]_vars => FirstProcess'
  BY FirstStep
<1>3. FirstProcess => (crashes = 0 => EndsGracefully)
  BY DEF FirstProcess, EndsGracefully
<1> QED BY <1>1, <1>2, <1>3, InvHolds, PTL DEF Spec

-----------------------------------------------------------------------------
(***************************************************************************)
(* The loop of the synchronous trainer. Its invariant relates the steps to *)
(* epoch and loader (Counted), in memory and in the checkpoint (SavedAt),  *)
(* also after a resume at the end of an epoch, which loses one (Lost).     *)
(* What both loops have, as step, saved and the sizes, has the same name   *)
(* in both.                                                                *)
(***************************************************************************)
CONSTANTS ProfileSteps, Continuous, Esi

VARIABLES epoch, left, previous, current, profiling, student, teacher, base, atEpochEnd

L == INSTANCE PPOFit

\* What a resume at the end of an epoch has put the epoch ahead of the steps.
Lost == IF atEpochEnd THEN EpochLen ELSE 0
Place == epoch * EpochLen + (EpochLen - left)

\* The steps are the batches of all epochs up to the loader's place.
Counted ==
  /\ pc \in {"next", "done"} => step - 1 + Lost = Place
  /\ L!Running => step + Lost = Place /\ epoch < TotalEpochs
  /\ pc # "down" => /\ atEpochEnd => epoch >= 1
                    /\ ~atEpochEnd \/ left > 0 => epoch < TotalEpochs

\* A checkpoint's step and loader agree: also one of the run after a lost epoch, whose
\* steps lag by a whole epoch.
SavedAt == \E k \in 0 .. TotalEpochs - 1 : saved.step = k * EpochLen + saved.position

\* The last step whose update is over or was skipped.
Done == IF pc \in {"validate", "save", "end"} THEN step ELSE step - 1

\* A crash in the last step takes the steps one further at most.
Limits ==
  /\ saved.step <= TotalSteps + crashes /\ saved.student <= saved.step
  /\ pc = "down" => saved.step < TotalSteps + crashes
  /\ pc = "next" \/ L!Running => step <= TotalSteps + crashes
  /\ pc # "down" => base <= student /\ student <= Done

\* The flags are of this step; between two steps the profilers run on only if continuous.
Profiling ==
  /\ pc # "down" => current = L!Profiled(step)
  /\ pc = "next" => profiling = IF Continuous /\ previous /\ current THEN 1 ELSE 0

\* The last step is validated, then saved, before the loop is left.
Ends ==
  /\ pc = "end" /\ L!IsLastStep => saved.step = step
  /\ pc \in {"save", "end"} /\ L!IsLastStep /\ TestFreq > 0 => validated = step
  /\ pc = "next" /\ step > TotalSteps => saved.step >= TotalSteps /\ validated >= TotalSteps

FitInv ==
  /\ L!TypeOK /\ Counted /\ SavedAt /\ Limits /\ Profiling /\ Ends
  /\ L!ProfilesItsSteps /\ L!TeacherFollows /\ L!EndsWithLastStep

LEMMA FitConstants ==
    ASSUME L!PPOFitAssumption
    PROVE  /\ EpochLen \in Nat /\ EpochLen > 0 /\ TotalEpochs \in Nat /\ TotalEpochs > 0
           /\ TotalSteps \in Nat /\ TotalSteps > 0 /\ TotalSteps <= EpochLen * TotalEpochs
           /\ CriticWarmup \in Nat /\ SaveFreq \in Nat /\ TestFreq \in Nat /\ MaxCrashes \in Nat
           /\ ProfileSteps \subseteq 1 .. TotalSteps /\ Continuous \in BOOLEAN /\ Esi \in BOOLEAN
BY DEF L!PPOFitAssumption

LEMMA Epochs ==
    ASSUME L!PPOFitAssumption, NEW e \in Nat
    PROVE  /\ e * EpochLen \in Nat /\ (e + 1) * EpochLen = e * EpochLen + EpochLen
           /\ e >= 1 => e * EpochLen = (e - 1) * EpochLen + EpochLen /\ e - 1 \in Nat
<1>1. PICK l \in Nat : l = EpochLen
  BY FitConstants
<1>2. e * l \in Nat /\ (e + 1) * l = e * l + l /\ e * l = (e - 1) * l + l
  BY <1>1
<1> QED BY <1>1, <1>2

LEMMA EpochOf ==
    ASSUME L!PPOFitAssumption, NEW k \in Nat, NEW p \in 0 .. EpochLen - 1
    PROVE  L!FirstEpoch(k * EpochLen + p) = k
<1>1. PICK l \in Nat, a \in Nat, n \in Nat : l = EpochLen /\ l > 0 /\ a = k * l /\ n = a + p
  BY FitConstants
<1>2. p \in Nat /\ p < l
  BY <1>1, FitConstants
<1> DEFINE q == n \div l
           r == n % l
<1>3. q \in Int /\ r \in 0 .. l - 1 /\ n = l * q + r
  BY <1>1
<1>4. ~ (q <= k - 1)
  <2> SUFFICES ASSUME q <= k - 1
               PROVE  FALSE
    OBVIOUS
  <2>1. PICK d \in Nat : k = q + 1 + d
    <3>1. k - (q + 1) \in Nat /\ k = q + 1 + (k - (q + 1))
      BY <1>3
    <3> QED BY <3>1
  <2> HIDE DEF q, r
  <2>2. (q + 1 + d) * l = l * q + l + d * l /\ d * l \in Nat /\ l * q \in Int
    BY <1>1, <1>3, <2>1
  <2> QED BY <1>1, <1>2, <1>3, <2>1, <2>2
<1>5. ~ (q >= k + 1)
  <2> SUFFICES ASSUME q >= k + 1
               PROVE  FALSE
    OBVIOUS
  <2>1. PICK d \in Nat : q = k + 1 + d
    <3>1. q - (k + 1) \in Nat /\ q = k + 1 + (q - (k + 1))
      BY <1>3
    <3> QED BY <3>1
  <2> HIDE DEF q, r
  <2>2. l * (k + 1 + d) = k * l + l + d * l /\ d * l \in Nat /\ k * l \in Nat
    BY <1>1, <2>1
  <2> QED BY <1>1, <1>2, <1>3, <2>1, <2>2
<1>6. q = k
  BY <1>3, <1>4, <1>5
<1> QED BY Zenon, <1>1, <1>6 DEF L!FirstEpoch

\* The numbers among the variables.
LEMMA FitNumbers ==
    ASSUME L!PPOFitAssumption, L!TypeOK
    PROVE  /\ step \in Nat /\ step >= 1 /\ step <= TotalSteps + MaxCrashes + 1
           /\ epoch \in Nat /\ epoch <= TotalEpochs /\ left \in Nat /\ left <= EpochLen
           /\ student \in Nat /\ student <= TotalSteps + MaxCrashes
           /\ base \in Nat /\ base <= TotalSteps + MaxCrashes
           /\ validated \in Nat /\ validated <= TotalSteps + MaxCrashes
           /\ crashes \in Nat /\ crashes <= MaxCrashes /\ profiling \in {0, 1}
           /\ saved.step \in Nat /\ saved.student \in Nat /\ saved.position \in 0 .. EpochLen
           /\ previous \in BOOLEAN /\ current \in BOOLEAN /\ atEpochEnd \in BOOLEAN
           /\ epoch * EpochLen \in Nat
<1>1. /\ step \in Nat /\ step >= 1 /\ step <= TotalSteps + MaxCrashes + 1
      /\ epoch \in Nat /\ epoch <= TotalEpochs /\ left \in Nat /\ left <= EpochLen
      /\ student \in Nat /\ student <= TotalSteps + MaxCrashes
      /\ base \in Nat /\ base <= TotalSteps + MaxCrashes
      /\ validated \in Nat /\ validated <= TotalSteps + MaxCrashes
      /\ crashes \in Nat /\ crashes <= MaxCrashes /\ profiling \in {0, 1}
  BY FitConstants DEF L!TypeOK
<1>2. /\ saved.step \in Nat /\ saved.student \in Nat /\ saved.position \in 0 .. EpochLen
  BY FitConstants DEF L!TypeOK
<1>3. /\ previous \in BOOLEAN /\ current \in BOOLEAN /\ atEpochEnd \in BOOLEAN
  BY DEF L!TypeOK
<1> QED BY <1>1, <1>2, <1>3, Epochs

LEMMA FitStart ==
    ASSUME L!PPOFitAssumption, L!Init
    PROVE  FitInv
<1>1. L!TypeOK
  <2>1. /\ 0 \in 0 .. TotalSteps + MaxCrashes /\ 1 \in 1 .. TotalSteps + MaxCrashes + 1
        /\ 0 \in 0 .. TotalEpochs /\ EpochLen \in 0 .. EpochLen /\ 0 \in 0 .. EpochLen
        /\ 0 \in 0 .. 1 /\ 0 \in 0 .. MaxCrashes
    BY FitConstants
  <2>2. {previous, current, atEpochEnd} \subseteq BOOLEAN
    <3>1. L!Profiled(1) \in BOOLEAN
      BY DEF L!Profiled
    <3>2. previous = FALSE /\ current = L!Profiled(1) /\ atEpochEnd = FALSE
      BY DEF L!Init
    <3> QED BY Zenon, <3>1, <3>2
  <2>3. saved \in [step : 0 .. TotalSteps + MaxCrashes, student : 0 .. TotalSteps + MaxCrashes,
                  position : 0 .. EpochLen]
    BY <2>1 DEF L!Init, L!Scratch
  <2>4. /\ step = 1 /\ epoch = 0 /\ left = EpochLen /\ profiling = 0 /\ student = 0 /\ teacher = {}
        /\ validated = 0 /\ base = 0 /\ crashes = 0 /\ pc = "next"
    BY DEF L!Init
  <2> QED BY <2>1, <2>2, <2>3, <2>4 DEF L!TypeOK
<1>2. Counted
  <2>1. 0 * EpochLen = 0
    BY FitConstants
  <2>2. Place = 0 /\ Lost = 0
    BY <2>1, FitConstants DEF L!Init, Place, Lost
  <2> QED BY <2>2, FitConstants DEF L!Init, Counted, L!Running
<1>3. SavedAt
  <2>1. 0 \in 0 .. TotalEpochs - 1 /\ 0 = 0 * EpochLen + 0
    BY FitConstants
  <2>2. saved.step = 0 /\ saved.position = 0
    BY DEF L!Init, L!Scratch
  <2> QED BY <2>1, <2>2 DEF SavedAt
<1>4. Limits /\ Ends
  BY FitConstants DEF L!Init, Limits, Ends, L!Running, Done, L!Scratch, L!IsLastStep
<1>5. Profiling /\ L!ProfilesItsSteps /\ L!TeacherFollows /\ L!EndsWithLastStep
  BY FitConstants
     DEF L!Init, Profiling, L!ProfilesItsSteps, L!TeacherFollows, L!EndsWithLastStep, L!Running
<1> QED BY <1>1, <1>2, <1>3, <1>4, <1>5 DEF FitInv

LEMMA NextBatchStep ==
    ASSUME L!PPOFitAssumption, FitInv, L!NextBatch
    PROVE  FitInv'
<1>1. /\ pc = "next" /\ UNCHANGED <<step, previous, current, student, teacher, saved, validated,
                                    base, atEpochEnd, crashes>>
  BY DEF L!NextBatch, L!flags, L!history
<1>2. /\ L!TypeOK /\ Counted /\ SavedAt /\ Limits /\ Profiling /\ Ends /\ L!TeacherFollows
  BY DEF FitInv
<1>3. /\ step \in Nat /\ epoch \in Nat /\ left \in 0 .. EpochLen /\ step >= 1
      /\ step - 1 + Lost = epoch * EpochLen + (EpochLen - left) /\ epoch <= TotalEpochs
      /\ Lost = (IF atEpochEnd THEN EpochLen ELSE 0) /\ Lost' = Lost
      /\ Place' = epoch' * EpochLen + (EpochLen - left')
      /\ epoch * EpochLen \in Nat /\ step <= TotalSteps + crashes
  <2>1. left \in 0 .. EpochLen
    BY <1>2, FitNumbers
  <2> QED BY <1>1, <1>2, <2>1, FitNumbers DEF Counted, Place, Lost, Limits
<1>4. SavedAt'
  BY <1>1, <1>2 DEF SavedAt
<1>5. L!TeacherFollows'
  BY <1>1, <1>2, FitConstants DEF L!TeacherFollows, L!NextBatch
<1>6. CASE /\ left > 0 /\ pc' = "update" /\ left' = left - 1 /\ epoch' = epoch
           /\ profiling' = profiling + (IF L!Starts THEN 1 ELSE 0)
  <2>1. profiling' = IF L!Profiled(step) THEN 1 ELSE 0
    BY <1>1, <1>2, <1>6, FitConstants DEF Profiling, L!TypeOK, L!Starts
  <2>2. L!TypeOK'
    BY <1>1, <1>2, <1>3, <1>6, <2>1, FitConstants DEF L!TypeOK
  <2>3. Counted'
    <3>1. step + Lost' = Place'
      BY <1>3, <1>6, FitConstants
    <3> QED BY <1>1, <1>2, <1>3, <1>6, <3>1, FitConstants DEF Counted, L!Running
  <2>4. Limits' /\ Ends'
    BY <1>1, <1>2, <1>3, <1>6 DEF Limits, Ends, Done, L!Running
  <2>5. Profiling' /\ L!ProfilesItsSteps' /\ L!EndsWithLastStep'
    BY <1>1, <1>2, <1>6, <2>1
       DEF Profiling, L!ProfilesItsSteps, L!EndsWithLastStep, L!Running, L!Profiled
  <2> QED BY <1>4, <1>5, <2>2, <2>3, <2>4, <2>5 DEF FitInv
<1>7. CASE /\ left = 0 /\ epoch + 1 < TotalEpochs /\ epoch' = epoch + 1 /\ left' = EpochLen
           /\ UNCHANGED <<pc, profiling>>
  <2>1. L!TypeOK'
    BY <1>1, <1>2, <1>3, <1>7, FitConstants DEF L!TypeOK
  <2>2. Counted'
    <3>1. Place' = epoch * EpochLen + EpochLen
      <4>1. (epoch + 1) * EpochLen = epoch * EpochLen + EpochLen
        BY <1>3, Epochs
      <4>2. Place' = (epoch + 1) * EpochLen + (EpochLen - EpochLen)
        BY Zenon, <1>3, <1>7
      <4> QED BY <1>3, <4>1, <4>2, FitConstants
    <3>2. step - 1 + Lost' = Place'
      BY <1>3, <1>7, <3>1, FitConstants
    <3> QED BY <1>1, <1>2, <1>3, <1>7, <3>2, FitConstants DEF Counted, L!Running
  <2>3. Limits' /\ Ends'
    BY <1>1, <1>2, <1>7 DEF Limits, Ends, Done, L!Running
  <2>4. Profiling' /\ L!ProfilesItsSteps' /\ L!EndsWithLastStep'
    BY <1>1, <1>2, <1>7 DEF Profiling, L!ProfilesItsSteps, L!EndsWithLastStep, L!Running, L!Profiled
  <2> QED BY <1>4, <1>5, <2>1, <2>2, <2>3, <2>4 DEF FitInv
<1>8. CASE /\ left = 0 /\ epoch + 1 >= TotalEpochs /\ pc' = "done"
           /\ UNCHANGED <<epoch, left, profiling>>
  <2>1. L!TypeOK'
    BY <1>1, <1>2, <1>8 DEF L!TypeOK
  <2>2. Counted'
    BY <1>1, <1>2, <1>3, <1>8, FitConstants DEF Counted, L!Running, Place
  <2>3. Limits' /\ Ends' /\ Profiling'
    BY <1>1, <1>2, <1>8 DEF Limits, Ends, Done, L!Running, Profiling, L!Profiled
  <2>4. atEpochEnd \/ step > TotalSteps
    <3> SUFFICES ASSUME ~atEpochEnd
                 PROVE  step > TotalSteps
      OBVIOUS
    <3>1. epoch + 1 = TotalEpochs
      BY <1>1, <1>2, <1>3, <1>8, FitConstants DEF Counted
    <3>2. step - 1 = (epoch + 1) * EpochLen
      BY <1>3, <1>8, Epochs, FitConstants
    <3>3. step - 1 = EpochLen * TotalEpochs
      <4>1. PICK t \in Nat, l \in Nat : t = TotalEpochs /\ l = EpochLen
        BY FitConstants
      <4>2. t * l = l * t
        BY <4>1
      <4> QED BY Zenon, <3>1, <3>2, <4>1, <4>2
    <3> QED BY <1>3, <3>3, FitConstants
  <2>5. L!EndsWithLastStep'
    BY <1>1, <1>2, <1>8, <2>4 DEF Ends, L!EndsWithLastStep
  <2>6. L!ProfilesItsSteps'
    <3>1. step > TotalSteps => ~L!Profiled(step)
      BY <1>3, FitConstants DEF L!Profiled
    <3> QED BY <1>1, <1>2, <1>8, <2>4, <3>1 DEF Profiling, L!ProfilesItsSteps, L!Running
  <2> QED BY <1>4, <1>5, <2>1, <2>2, <2>3, <2>5, <2>6 DEF FitInv
<1> QED BY <1>6, <1>7, <1>8 DEF L!NextBatch

LEMMA UpdateStep ==
    ASSUME L!PPOFitAssumption, FitInv, L!UpdateActor
    PROVE  FitInv'
<1>1. /\ pc = "update" /\ pc' = "validate"
      /\ UNCHANGED <<step, epoch, left, previous, current, profiling, saved, validated,
                     base, atEpochEnd, crashes>>
      /\ \/ student' = student + 1 /\ teacher' = teacher \union {student + 1}
         \/ UNCHANGED <<student, teacher>>
  BY DEF L!UpdateActor, L!loop, L!flags, L!history, L!Mixed
<1>2. /\ L!TypeOK /\ Counted /\ SavedAt /\ Limits /\ Profiling /\ Ends /\ L!TeacherFollows
      /\ L!ProfilesItsSteps /\ L!EndsWithLastStep
  BY DEF FitInv
<1>3. /\ base \in Nat /\ student \in Nat /\ base <= student /\ student <= step - 1 /\ step \in Nat
      /\ step <= TotalSteps + crashes /\ crashes \in 0 .. MaxCrashes
      /\ teacher = base + 1 .. student
  <2>1. crashes \in 0 .. MaxCrashes
    BY <1>2 DEF L!TypeOK
  <2> QED BY <1>1, <1>2, <2>1, FitNumbers DEF Limits, Done, L!Running, L!TeacherFollows
<1>4. /\ student' \in Nat /\ student' <= step /\ base <= student'
      /\ student' \in 0 .. TotalSteps + MaxCrashes /\ teacher' = base + 1 .. student'
  <2>1. CASE UNCHANGED <<student, teacher>>
    BY <1>3, <2>1, FitConstants
  <2>2. CASE student' = student + 1 /\ teacher' = teacher \union {student + 1}
    <3>1. base + 1 .. student + 1 = (base + 1 .. student) \union {student + 1}
      BY <1>3
    <3>2. student + 1 \in 0 .. TotalSteps + MaxCrashes
      BY <1>3, FitConstants
    <3>3. teacher' = base + 1 .. student'
      BY <1>3, <2>2, <3>1
    <3> QED BY <1>3, <2>2, <3>2, <3>3
  <2> QED BY <1>1, <2>1, <2>2
<1>5. L!TypeOK'
  <2>1. teacher' \subseteq 0 .. TotalSteps + MaxCrashes
    BY <1>3, <1>4, FitConstants
  <2> QED BY <1>1, <1>2, <1>4, <2>1 DEF L!TypeOK
<1>6. Counted' /\ SavedAt'
  BY <1>1, <1>2 DEF Counted, SavedAt, Place, Lost, L!Running
<1>7. Limits' /\ Ends' /\ L!TeacherFollows'
  BY <1>1, <1>2, <1>3, <1>4 DEF Limits, Ends, Done, L!Running, L!TeacherFollows
<1>8. Profiling' /\ L!ProfilesItsSteps' /\ L!EndsWithLastStep'
  BY <1>1, <1>2 DEF Profiling, L!ProfilesItsSteps, L!EndsWithLastStep, L!Running, L!Profiled
<1> QED BY <1>5, <1>6, <1>7, <1>8 DEF FitInv

LEMMA ValidateStep ==
    ASSUME L!PPOFitAssumption, FitInv, L!Validate
    PROVE  FitInv'
<1>1. /\ pc = "validate" /\ pc' = "save"
      /\ UNCHANGED <<step, epoch, left, previous, current, profiling, student, teacher, saved,
                     base, atEpochEnd, crashes>>
      /\ validated' = step \/ validated' = validated
      /\ TestFreq > 0 /\ L!IsLastStep => validated' = step
  BY DEF L!Validate, L!loop, L!flags, L!history
<1>2. /\ L!TypeOK /\ Counted /\ SavedAt /\ Limits /\ Profiling /\ Ends /\ L!TeacherFollows
      /\ L!ProfilesItsSteps /\ L!EndsWithLastStep
  BY DEF FitInv
<1>3. step \in 0 .. TotalSteps + MaxCrashes
  BY <1>1, <1>2, FitNumbers, FitConstants DEF Limits, L!Running
<1>4. L!TypeOK'
  BY <1>1, <1>2, <1>3 DEF L!TypeOK
<1>5. Counted' /\ SavedAt' /\ Limits' /\ L!TeacherFollows'
  BY <1>1, <1>2 DEF Counted, SavedAt, Place, Lost, L!Running, Limits, Done, L!TeacherFollows
<1>6. Ends' /\ Profiling' /\ L!ProfilesItsSteps' /\ L!EndsWithLastStep'
  BY <1>1, <1>2
     DEF Ends, L!IsLastStep, Profiling, L!ProfilesItsSteps, L!EndsWithLastStep, L!Running,
         L!Profiled
<1> QED BY <1>4, <1>5, <1>6 DEF FitInv

LEMMA SaveStep ==
    ASSUME L!PPOFitAssumption, FitInv, L!Save
    PROVE  FitInv'
<1>1. /\ pc = "save" /\ pc' = "end"
      /\ UNCHANGED <<step, epoch, left, previous, current, profiling, student, teacher,
                     validated, base, atEpochEnd, crashes>>
      /\ \/ saved' = [step |-> step, student |-> student, position |-> EpochLen - left]
         \/ saved' = saved /\ ~L!IsLastStep
  BY DEF L!Save, L!SaveDue, L!loop, L!flags, L!history
<1>2. /\ L!TypeOK /\ Counted /\ SavedAt /\ Limits /\ Profiling /\ Ends /\ L!TeacherFollows
      /\ L!ProfilesItsSteps /\ L!EndsWithLastStep
  BY DEF FitInv
<1>3. /\ step \in 0 .. TotalSteps + MaxCrashes /\ student \in 0 .. TotalSteps + MaxCrashes
      /\ left \in 0 .. EpochLen /\ epoch \in Nat /\ epoch < TotalEpochs /\ student <= step
      /\ step + Lost = epoch * EpochLen + (EpochLen - left) /\ step <= TotalSteps + crashes
      /\ (atEpochEnd => epoch >= 1) /\ crashes \in 0 .. MaxCrashes
  <2>1. step <= TotalSteps + crashes /\ student <= step
    BY <1>1, <1>2 DEF Limits, L!Running, Done
  <2>2. /\ epoch < TotalEpochs /\ step + Lost = epoch * EpochLen + (EpochLen - left)
        /\ (atEpochEnd => epoch >= 1)
    BY <1>1, <1>2 DEF L!Running, Counted, Place
  <2>3. /\ left \in 0 .. EpochLen /\ crashes \in 0 .. MaxCrashes
        /\ student \in 0 .. TotalSteps + MaxCrashes
    BY <1>2 DEF L!TypeOK
  <2>4. step \in 0 .. TotalSteps + MaxCrashes
    BY <1>2, <2>1, FitNumbers, FitConstants
  <2> QED BY <1>2, <2>1, <2>2, <2>3, <2>4, FitNumbers
<1>4. CASE saved' = [step |-> step, student |-> student, position |-> EpochLen - left]
  <2>1. saved'.step = step /\ saved'.student = student /\ saved'.position = EpochLen - left
    BY <1>4
  <2>2. L!TypeOK'
    <3>1. EpochLen - left \in 0 .. EpochLen
      BY <1>3, FitConstants
    <3> QED BY <1>1, <1>2, <1>3, <1>4, <3>1 DEF L!TypeOK
  <2>3. SavedAt'
    <3>1. CASE atEpochEnd
      <4>1. epoch * EpochLen = (epoch - 1) * EpochLen + EpochLen /\ epoch - 1 \in Nat
        BY <1>3, <3>1, Epochs
      <4>2. (epoch - 1) * EpochLen \in Nat /\ epoch - 1 \in 0 .. TotalEpochs - 1
        BY <1>3, <4>1, Epochs, FitConstants
      <4>3. step = (epoch - 1) * EpochLen + (EpochLen - left)
        BY <1>3, <3>1, <4>1, <4>2, FitConstants DEF Lost
      <4> QED BY <2>1, <4>2, <4>3 DEF SavedAt
    <3>2. CASE ~atEpochEnd
      <4>1. epoch * EpochLen \in Nat /\ epoch \in 0 .. TotalEpochs - 1
        BY <1>3, Epochs, FitConstants
      <4>2. step = epoch * EpochLen + (EpochLen - left)
        BY <1>3, <3>2, <4>1, FitConstants DEF Lost
      <4> QED BY <2>1, <4>1, <4>2 DEF SavedAt
    <3> QED BY <3>1, <3>2
  <2>4. Limits' /\ Ends'
    BY <1>1, <1>2, <1>3, <2>1 DEF Limits, Ends, L!Running, Done, L!IsLastStep
  <2> QED BY <2>2, <2>3, <2>4, <1>1, <1>2
          DEF FitInv, Counted, Place, Lost, L!Running, L!TeacherFollows, Profiling,
              L!ProfilesItsSteps, L!EndsWithLastStep, L!Profiled
<1>5. CASE saved' = saved /\ ~L!IsLastStep
  <2>1. L!TypeOK' /\ SavedAt'
    BY <1>1, <1>2, <1>5 DEF L!TypeOK, SavedAt
  <2>2. Limits' /\ Ends'
    BY <1>1, <1>2, <1>5 DEF Limits, Ends, L!Running, Done, L!IsLastStep
  <2> QED BY <2>1, <2>2, <1>1, <1>2
          DEF FitInv, Counted, Place, Lost, L!Running, L!TeacherFollows, Profiling,
              L!ProfilesItsSteps, L!EndsWithLastStep, L!Profiled
<1> QED BY <1>1, <1>4, <1>5

LEMMA EndStepStep ==
    ASSUME L!PPOFitAssumption, FitInv, L!EndStep
    PROVE  FitInv'
<1>1. /\ pc = "end" /\ pc' = (IF L!IsLastStep THEN "done" ELSE "next") /\ step' = step + 1
      /\ profiling' = profiling - (IF L!Stops THEN 1 ELSE 0)
      /\ previous' = current /\ current' = L!Profiled(step + 1)
      /\ UNCHANGED <<epoch, left, student, teacher, saved, validated, base, atEpochEnd, crashes>>
  BY DEF L!EndStep, L!history, L!NextProfiled
<1>2. /\ L!TypeOK /\ Counted /\ SavedAt /\ Limits /\ Profiling /\ Ends /\ L!TeacherFollows
      /\ L!ProfilesItsSteps
  BY DEF FitInv
<1>3. /\ step \in Nat /\ step >= 1 /\ step <= TotalSteps + crashes /\ crashes \in 0 .. MaxCrashes
      /\ profiling = (IF L!Profiled(step) THEN 1 ELSE 0) /\ current = L!Profiled(step)
  <2>1. step <= TotalSteps + crashes
    BY <1>1, <1>2 DEF Limits, L!Running
  <2>2. profiling = (IF L!Profiled(step) THEN 1 ELSE 0) /\ current = L!Profiled(step)
    BY <1>1, <1>2 DEF L!Running, L!ProfilesItsSteps, Profiling
  <2>3. crashes \in 0 .. MaxCrashes
    BY <1>2 DEF L!TypeOK
  <2> QED BY <1>2, <2>1, <2>2, <2>3, FitNumbers
<1>4. profiling' = IF Continuous /\ L!Profiled(step) /\ L!Profiled(step + 1) THEN 1 ELSE 0
  BY <1>1, <1>3, FitConstants DEF L!Stops, L!NextProfiled
<1>5. L!TypeOK'
  BY <1>1, <1>2, <1>3, <1>4, FitConstants DEF L!TypeOK, L!Profiled
<1>6. Counted'
  <2>1. step + Lost = Place /\ Lost' = Lost /\ Place' = Place
    BY <1>1, <1>2 DEF Counted, L!Running, Lost, Place
  <2>2. (step + 1) - 1 + Lost = step + Lost
    BY <1>3, FitConstants DEF Lost
  <2> QED BY <1>1, <1>2, <1>3, <2>1, <2>2 DEF Counted, L!Running
<1>7. SavedAt' /\ L!TeacherFollows'
  BY <1>1, <1>2 DEF SavedAt, L!TeacherFollows
<1>8. Limits'
  <2>1. saved.step \in Nat /\ student \in Nat /\ base \in Nat
    BY <1>2, FitConstants DEF L!TypeOK
  <2> QED BY <1>1, <1>2, <1>3, <2>1, FitConstants DEF Limits, Done, L!Running, L!IsLastStep
<1>9. Ends'
  BY <1>1, <1>3, FitConstants DEF Ends, L!IsLastStep
<1>10. Profiling'
  BY <1>1, <1>3, <1>4, FitConstants DEF Profiling, L!Profiled
<1>11. L!ProfilesItsSteps'
  <2>1. L!IsLastStep => ~L!Profiled(step + 1)
    BY <1>3, FitConstants DEF L!Profiled, L!IsLastStep
  <2> QED BY <1>1, <1>4, <2>1 DEF L!ProfilesItsSteps, L!Running
<1>12. L!EndsWithLastStep'
  BY <1>1, <1>2 DEF Ends, L!EndsWithLastStep, L!IsLastStep
<1> QED BY <1>5, <1>6, <1>7, <1>8, <1>9, <1>10, <1>11, <1>12 DEF FitInv

LEMMA CrashStep ==
    ASSUME L!PPOFitAssumption, FitInv, L!Crash
    PROVE  FitInv'
<1>1. /\ pc \notin {"down", "done"} /\ crashes < MaxCrashes /\ pc' = "down"
      /\ crashes' = crashes + 1
      /\ UNCHANGED <<step, epoch, left, previous, current, profiling, student, teacher, saved,
                     validated, base, atEpochEnd>>
  BY DEF L!Crash, L!loop, L!flags, L!history
<1>2. L!TypeOK /\ SavedAt /\ Limits
  BY DEF FitInv
<1>3. L!TypeOK'
  BY <1>1, <1>2, FitConstants DEF L!TypeOK
<1>4. Limits'
  <2>1. saved.step \in Nat /\ crashes \in Nat
    BY <1>2, FitConstants DEF L!TypeOK
  <2> QED BY <1>1, <1>2, <2>1, FitConstants DEF Limits, L!Running
<1> QED BY <1>1, <1>2, <1>3, <1>4
        DEF FitInv, SavedAt, Counted, L!Running, Profiling, Ends, L!ProfilesItsSteps,
            L!TeacherFollows, L!EndsWithLastStep

LEMMA RestartStep ==
    ASSUME L!PPOFitAssumption, FitInv, L!Restart
    PROVE  FitInv'
<1>1. L!TypeOK /\ SavedAt /\ Limits
  BY DEF FitInv
<1>2. PICK s \in Nat, u \in Nat, p \in 0 .. EpochLen, k \in 0 .. TotalEpochs - 1 :
        /\ s = saved.step /\ u = saved.student /\ p = saved.position
        /\ s = k * EpochLen + p /\ s < TotalSteps + crashes /\ u <= s
        /\ crashes \in 0 .. MaxCrashes
  <2>1. /\ saved.step \in Nat /\ saved.student \in Nat /\ saved.position \in 0 .. EpochLen
        /\ crashes \in 0 .. MaxCrashes
    BY <1>1, FitConstants DEF L!TypeOK
  <2>2. saved.step < TotalSteps + crashes /\ saved.student <= saved.step
    BY <1>1 DEF Limits, L!Restart
  <2> QED BY <1>1, <2>1, <2>2 DEF SavedAt
<1>3. /\ pc' = "next" /\ step' = s + 1 /\ epoch' = L!FirstEpoch(s)
      /\ left' = (IF epoch' < TotalEpochs THEN EpochLen - p ELSE 0)
      /\ previous' = FALSE /\ current' = L!Profiled(step') /\ profiling' = 0
      /\ student' = u /\ teacher' = {} /\ validated' = s /\ base' = u
      /\ atEpochEnd' = (p = EpochLen) /\ saved' = saved /\ crashes' = crashes
  BY <1>2 DEF L!Restart, L!StartFrom
<1>4. k \in Nat /\ k < TotalEpochs /\ k * EpochLen \in Nat
      /\ (k + 1) * EpochLen = k * EpochLen + EpochLen
  BY <1>2, Epochs, FitConstants
<1>5. \/ p < EpochLen /\ epoch' = k
      \/ p = EpochLen /\ epoch' = k + 1
  <2>1. CASE p < EpochLen
    <3>1. p \in 0 .. EpochLen - 1
      BY <2>1, FitConstants
    <3> QED BY <1>2, <1>3, <1>4, <2>1, <3>1, EpochOf
  <2>2. CASE p = EpochLen
    <3>1. s = (k + 1) * EpochLen + 0 /\ 0 \in 0 .. EpochLen - 1 /\ k + 1 \in Nat
      BY <1>2, <1>4, <2>2, FitConstants
    <3>2. L!FirstEpoch(s) = k + 1
      BY Zenon, <3>1, EpochOf
    <3> QED BY <1>3, <2>2, <3>2
  <2> QED BY <2>1, <2>2, FitConstants
<1>6. atEpochEnd' <=> p = EpochLen
  BY Zenon, <1>3
<1>7. left' = EpochLen - p /\ epoch' \in 0 .. TotalEpochs
  BY <1>3, <1>4, <1>5, FitConstants
<1>8. L!TypeOK'
  <2>1. {s, u} \subseteq 0 .. TotalSteps + MaxCrashes /\ left' \in 0 .. EpochLen
    BY <1>2, <1>7, FitConstants
  <2>2. step' \in 1 .. TotalSteps + MaxCrashes + 1
    BY <1>2, <1>3, FitConstants
  <2>3. {previous', current', atEpochEnd'} \subseteq BOOLEAN
    <3>1. L!Profiled(step') \in BOOLEAN /\ (p = EpochLen) \in BOOLEAN
      BY DEF L!Profiled
    <3> QED BY Zenon, <1>3, <3>1
  <2>4. saved' = saved /\ crashes' = crashes /\ teacher' \subseteq 0 .. TotalSteps + MaxCrashes
    BY <1>3
  <2>5. pc' = "next" /\ profiling' \in 0 .. 1
    BY <1>3
  <2>6. {student', base', validated'} \subseteq 0 .. TotalSteps + MaxCrashes
    BY <1>3, <2>1
  <2> QED BY <1>1, <1>7, <2>1, <2>2, <2>3, <2>4, <2>5, <2>6 DEF L!TypeOK
<1>9. Counted'
  <2>1. step' - 1 + Lost' = Place'
    <3>1. CASE p < EpochLen /\ epoch' = k
      <4>1. Lost' = 0 /\ Place' = k * EpochLen + (EpochLen - (EpochLen - p))
        <5>1. ~atEpochEnd'
          BY <1>2, <1>6, <3>1, FitConstants
        <5>2. Lost' = 0
          BY <5>1 DEF Lost
        <5>3. Place' = k * EpochLen + (EpochLen - (EpochLen - p))
          BY Zenon, <1>7, <3>1 DEF Place
        <5> QED BY <5>2, <5>3
      <4> QED BY <1>2, <1>3, <1>4, <4>1, FitConstants
    <3>2. CASE p = EpochLen /\ epoch' = k + 1
      <4>1. Lost' = EpochLen /\ Place' = (k + 1) * EpochLen + (EpochLen - (EpochLen - p))
        BY <1>2, <1>3, <1>7, <3>2 DEF Lost, Place
      <4> QED BY <1>2, <1>3, <1>4, <3>2, <4>1, FitConstants
    <3> QED BY <1>5, <3>1, <3>2
  <2>2. atEpochEnd' => epoch' >= 1
    <3>1. CASE p < EpochLen /\ epoch' = k
      BY <1>2, <1>6, <3>1, FitConstants
    <3>2. CASE p = EpochLen /\ epoch' = k + 1
      BY <1>4, <3>2
    <3> QED BY <1>5, <3>1, <3>2
  <2>3. ~atEpochEnd' \/ left' > 0 => epoch' < TotalEpochs
    <3>1. CASE p < EpochLen /\ epoch' = k
      BY <1>4, <3>1
    <3>2. CASE p = EpochLen /\ epoch' = k + 1
      BY <1>7, <1>6, <3>2, FitConstants
    <3> QED BY <1>5, <3>1, <3>2
  <2> QED BY <1>3, <2>1, <2>2, <2>3 DEF Counted, L!Running
<1>10. SavedAt' /\ Limits'
  <2>1. SavedAt'
    BY <1>1, <1>3 DEF SavedAt
  <2>2. Done' = s
    BY <1>2, <1>3 DEF Done
  <2>3. saved'.step = s /\ saved'.student = u
    BY <1>2, <1>3
  <2>4. s + 1 <= TotalSteps + crashes
    BY <1>2, FitConstants
  <2>5. pc' = "next" /\ step' = s + 1 /\ student' = u /\ base' = u /\ crashes' = crashes
    BY <1>3
  <2>6. u <= u /\ s <= TotalSteps + crashes
    BY <1>2, FitConstants
  <2>7. saved'.step <= TotalSteps + crashes' /\ saved'.student <= saved'.step
    BY Zenon, <1>2, <2>3, <2>5, <2>6
  <2>8. step' <= TotalSteps + crashes' /\ base' <= student' /\ student' <= Done'
    BY Zenon, <1>2, <2>2, <2>4, <2>5, <2>6
  <2>9. Limits'
    BY <2>5, <2>7, <2>8 DEF Limits, L!Running
  <2> QED BY <2>1, <2>9
<1>11. Ends'
  <2>1. saved'.step = s /\ validated' = s /\ step' = s + 1 /\ pc' = "next"
    BY <1>2, <1>3
  <2>2. s + 1 > TotalSteps => s >= TotalSteps
    BY <1>2, FitConstants
  <2>3. step' > TotalSteps => saved'.step >= TotalSteps /\ validated' >= TotalSteps
    BY Zenon, <2>1, <2>2
  <2> QED BY <2>1, <2>3 DEF Ends
<1>12. Profiling' /\ L!ProfilesItsSteps' /\ L!EndsWithLastStep'
  BY <1>3 DEF Profiling, L!ProfilesItsSteps, L!EndsWithLastStep, L!Running, L!Profiled
<1>13. L!TeacherFollows'
  BY <1>2, <1>3 DEF L!TeacherFollows
<1> QED BY <1>8, <1>9, <1>10, <1>11, <1>12, <1>13 DEF FitInv

LEMMA FitKeeps ==
    ASSUME L!PPOFitAssumption, FitInv, [L!Next]_(L!vars)
    PROVE  FitInv'
<1>1. CASE UNCHANGED L!vars
  <2>1. UNCHANGED <<pc, step, epoch, left, previous, current, profiling, student, teacher, saved,
                    validated, base, atEpochEnd, crashes>>
    BY <1>1 DEF L!vars, L!loop, L!flags, L!history
  <2> QED BY <2>1
          DEF FitInv, L!TypeOK, Counted, SavedAt, Limits, Profiling, Ends, L!ProfilesItsSteps,
              L!TeacherFollows, L!EndsWithLastStep, Place, Lost, L!Running, Done, L!IsLastStep,
              L!Profiled
<1> QED BY <1>1, NextBatchStep, UpdateStep, ValidateStep, SaveStep, EndStepStep, CrashStep,
           RestartStep DEF L!Next, L!Fit

LEMMA FitAlways ==
    ASSUME L!PPOFitAssumption
    PROVE  L!Spec => []FitInv
<1>1. L!Init => FitInv
  BY FitStart
<1>2. FitInv /\ [L!Next]_(L!vars) => FitInv'
  BY FitKeeps
<1> QED BY <1>1, <1>2, PTL DEF L!Spec

\* The variables have their types, and no profiler is started twice or stopped twice.
THEOREM FitTypes ==
    ASSUME L!PPOFitAssumption
    PROVE  L!Spec => []L!TypeOK
<1>1. ASSUME FitInv
      PROVE  L!TypeOK
  BY <1>1 DEF FitInv
<1> QED BY <1>1, FitAlways, PTL

\* ProfilesItsSteps: the profilers run in exactly the steps configured, and are off when
\* fit() returns, unless it lost an epoch.
THEOREM ProfilersFollow ==
    ASSUME L!PPOFitAssumption
    PROVE  L!Spec => []L!ProfilesItsSteps
<1>1. ASSUME FitInv
      PROVE  L!ProfilesItsSteps
  BY <1>1 DEF FitInv
<1> QED BY <1>1, FitAlways, PTL

\* DataFollowsSteps: steps, epoch and loader agree through any number of resumes that
\* are not at the end of an epoch.
THEOREM StepsFollowData ==
    ASSUME L!PPOFitAssumption
    PROVE  L!Spec => []L!DataFollowsSteps
<1>1. ASSUME FitInv
      PROVE  L!DataFollowsSteps
  <2>1. CASE pc = "next" /\ ~atEpochEnd
    <3>1. step - 1 + 0 = epoch * EpochLen + (EpochLen - left)
      BY <1>1, <2>1 DEF FitInv, Counted, Lost, Place
    <3>2. step - 1 \in Nat
      BY <1>1, FitConstants DEF FitInv, L!TypeOK
    <3> QED BY <3>1, <3>2 DEF L!DataFollowsSteps
  <2> QED BY <2>1 DEF L!DataFollowsSteps
<1> QED BY <1>1, FitAlways, PTL

\* TeacherFollows: the EMA teacher has taken in each of the process's updates.
THEOREM TeacherInStep ==
    ASSUME L!PPOFitAssumption
    PROVE  L!Spec => []L!TeacherFollows
<1>1. ASSUME FitInv
      PROVE  L!TeacherFollows
  BY <1>1 DEF FitInv
<1> QED BY <1>1, FitAlways, PTL

\* EndsWithLastStep: fit() returns with its last step saved and validated, unless it lost
\* an epoch.
THEOREM LastStepSaved ==
    ASSUME L!PPOFitAssumption
    PROVE  L!Spec => []L!EndsWithLastStep
<1>1. ASSUME FitInv
      PROVE  L!EndsWithLastStep
  BY <1>1 DEF FitInv
<1> QED BY <1>1, FitAlways, PTL

-----------------------------------------------------------------------------
(***************************************************************************)
(* One step of the synchronous trainer, for any set of samples and every   *)
(* configuration. StepInv says which columns the batch has at each stage,  *)
(* by the options alone: then a stage that misses one has an option to     *)
(* blame.                                                                  *)
(***************************************************************************)
CONSTANT Samples

VARIABLES config, columns, mask, lossMode, losses

S == INSTANCE PPOStep

\* What has been done of the step, each as the stages that come after it.
Generated == {"old", "infer", "teacher", "rewards", "advantages", "critic", "actor", "done"}
OldKnown == Generated \ {"old"}
Inferred == OldKnown \ {"infer"}
TeacherBuilt == Inferred \ {"teacher"}
Rewarded == TeacherBuilt \ {"rewards"}
Advanced == Rewarded \ {"advantages"}
CriticUpdated == Advanced \ {"critic"}
Unfinished == {"configure", "generate"} \union Generated

Bypass == config.correction = "bypass"
WorkersMode == IF S!Vopd THEN "vopd" ELSE "vanilla"

\* The driver keeps the loss mode of the workers, but in bypass mode.
ModeKept ==
  /\ pc \in {"generate", "old"} => lossMode = WorkersMode
  /\ pc \in OldKnown => lossMode = IF Bypass THEN "bypass_mode" ELSE WorkersMode

\* The columns of the rollout, of the models' passes and of the rewards.
PassesDone ==
  /\ pc \in Generated =>
       /\ {"responses", "response_mask"} \subseteq columns
       /\ ("rollout_log_probs" \in columns) = config.logProbs
  /\ pc \in OldKnown => "old_log_probs" \in columns /\ (Bypass => config.logProbs)
  /\ pc \in Inferred => /\ config.kl # "none" => "ref_log_prob" \in columns
                        /\ config.critic => "values" \in columns
  /\ pc \in Rewarded => ("token_level_rewards" \in columns) = (~S!RewardFree)
  /\ pc \in Unfinished \ Generated => "rollout_log_probs" \notin columns
  /\ pc \in Unfinished \ Rewarded => "token_level_rewards" \notin columns

\* The teacher's columns, of self-distillation out of bypass mode.
TeacherGiven ==
  /\ pc \in Unfinished \ TeacherBuilt =>
       mask = {} /\ (S!TeacherColumns \union S!ControlColumns) \intersect columns = {}
  /\ pc \in TeacherBuilt /\ (Bypass \/ ~S!Vopd) =>
       mask = {} /\ S!TeacherColumns \intersect columns = {}
  /\ pc \in TeacherBuilt /\ ~Bypass /\ S!Vopd =>
       /\ mask = S!Informed /\ S!TeacherColumns \subseteq columns
       /\ config.vcsd /\ config.teacher = "image" => S!ControlColumns \subseteq columns
  /\ pc \in TeacherBuilt /\ config.vcsd /\ config.teacher # "image" =>
       S!ControlColumns \intersect columns = {}

\* The advantages, unless every sample is distilled.
AdvantagesGiven ==
  /\ pc \in Unfinished \ Advanced => {"advantages", "returns"} \intersect columns = {}
  /\ pc \in Advanced => /\ ("advantages" \in columns) = (~S!Skips)
                        /\ ("returns" \in columns) = (~S!Skips)
                        /\ S!Skips \/ ~S!RewardFree
  /\ pc \in CriticUpdated /\ config.critic => ~S!Skips

StepInv == /\ S!TypeOK /\ ModeKept /\ PassesDone /\ TeacherGiven /\ AdvantagesGiven
           /\ S!EverySampleTrained /\ S!FailsIfUnsupported

\* What the accepted options rule out.
LEMMA Accepted ==
    ASSUME S!TypeOK
    PROVE  /\ config.teacher \in {"none", "reprompt", "image", "hint"}
           /\ config.correction \in {"none", "bypass", "decoupled"}
           /\ config.kl \in {"none", "reward", "loss"}
           /\ {config.fallback, config.vcsd, config.critic, config.logProbs,
               config.oneMiniBatch, config.othersOnly} \subseteq BOOLEAN
           /\ config.given \subseteq Samples /\ config.successful \subseteq Samples
           /\ config.vcsd => config.teacher \in {"reprompt", "image"}
           /\ config.fallback => config.teacher \in {"image", "hint"}
           /\ S!Informed \subseteq Samples
           /\ config.teacher = "none" => S!Informed = {}
<1>1. config \in S!Configurations
  BY DEF S!TypeOK
<1> QED BY <1>1 DEF S!Configurations, S!Informed

LEMMA StagesStart ==
    ASSUME S!Init
    PROVE  StepInv
<1> USE DEF Generated, OldKnown, Inferred, TeacherBuilt, Rewarded, Advanced, CriticUpdated,
            Unfinished
<1>1. config \in S!Configurations
  BY DEF S!Init, S!Configurations
<1>2. S!TypeOK
  BY <1>1 DEF S!Init, S!TypeOK
<1> QED
  BY <1>2 DEF S!Init, StepInv, ModeKept, PassesDone, TeacherGiven, AdvantagesGiven,
              S!EverySampleTrained, S!FailsIfUnsupported

\* Where a step fails, only its configuration matters.
LEMMA Fails ==
    ASSUME pc' = "failed", S!Unsupported', S!TypeOK'
    PROVE  StepInv'
BY DEF StepInv, ModeKept, PassesDone, TeacherGiven, AdvantagesGiven, Generated, OldKnown,
       Inferred, TeacherBuilt, Rewarded, Advanced, CriticUpdated, Unfinished,
       S!EverySampleTrained, S!FailsIfUnsupported

LEMMA ConfigureStep ==
    ASSUME StepInv, S!Configure
    PROVE  StepInv'
<1> USE DEF Generated, OldKnown, Inferred, TeacherBuilt, Rewarded, Advanced, CriticUpdated,
            Unfinished
<1>1. /\ pc = "configure" /\ pc' = "generate" /\ config' \in S!Configurations
      /\ columns' = columns /\ mask' = mask /\ losses' = losses
      /\ lossMode' = IF config'.teacher # "none" THEN "vopd" ELSE "vanilla"
  BY DEF S!Configure
<1>2. S!TypeOK'
  BY <1>1 DEF StepInv, S!TypeOK
<1>3. ModeKept'
  BY <1>1 DEF ModeKept, WorkersMode, S!Vopd
<1>4. PassesDone' /\ TeacherGiven' /\ AdvantagesGiven'
  BY <1>1 DEF StepInv, PassesDone, TeacherGiven, AdvantagesGiven
<1>5. S!EverySampleTrained' /\ S!FailsIfUnsupported'
  BY <1>1 DEF S!EverySampleTrained, S!FailsIfUnsupported
<1> QED BY <1>2, <1>3, <1>4, <1>5 DEF StepInv

LEMMA GenerateStep ==
    ASSUME StepInv, S!Generate
    PROVE  StepInv'
<1> USE DEF Generated, OldKnown, Inferred, TeacherBuilt, Rewarded, Advanced, CriticUpdated,
            Unfinished
<1>1. /\ pc = "generate" /\ pc' = "old" /\ UNCHANGED <<config, mask, lossMode, losses>>
      /\ columns' = columns \union {"responses", "response_mask"} \union
                    (IF config.logProbs THEN {"rollout_log_probs"} ELSE {})
  BY DEF S!Generate, S!Stage
<1>2. S!TypeOK'
  BY <1>1 DEF StepInv, S!TypeOK, S!Columns
<1>3. ModeKept'
  BY <1>1 DEF StepInv, ModeKept, WorkersMode, S!Vopd
<1>4. PassesDone'
  BY <1>1, Accepted DEF StepInv, PassesDone
<1>5. TeacherGiven'
  BY <1>1 DEF StepInv, TeacherGiven, S!TeacherColumns, S!ControlColumns
<1>6. AdvantagesGiven'
  BY <1>1 DEF StepInv, AdvantagesGiven
<1>7. S!EverySampleTrained' /\ S!FailsIfUnsupported'
  BY <1>1 DEF S!EverySampleTrained, S!FailsIfUnsupported
<1> QED BY <1>2, <1>3, <1>4, <1>5, <1>6, <1>7 DEF StepInv

LEMMA OldLogProbsStep ==
    ASSUME StepInv, S!OldLogProbs
    PROVE  StepInv'
<1> USE DEF Generated, OldKnown, Inferred, TeacherBuilt, Rewarded, Advanced, CriticUpdated,
            Unfinished
<1>1. pc = "old" /\ UNCHANGED <<config, mask, losses>>
  BY DEF S!OldLogProbs, S!Stage
<1>2. CASE Bypass /\ ~config.logProbs
  <2>1. pc' = "failed" /\ UNCHANGED <<columns, lossMode>>
    <3>1. "rollout_log_probs" \notin columns
      BY <1>1, <1>2 DEF StepInv, PassesDone
    <3> QED BY <1>2, <3>1 DEF S!OldLogProbs, S!Stage, Bypass
  <2>2. S!Unsupported'
    BY <1>1, <1>2 DEF S!Unsupported, Bypass
  <2>3. S!TypeOK'
    BY <1>1, <2>1 DEF StepInv, S!TypeOK
  <2> QED BY <1>1, <2>1, <2>2, <2>3, Fails
<1>3. CASE ~Bypass \/ config.logProbs
  <2>1. /\ pc' = "infer" /\ lossMode' = IF Bypass THEN "bypass_mode" ELSE lossMode
        /\ \E new \in SUBSET {"old_log_probs", "recomputed"} :
             "old_log_probs" \in new /\ columns' = columns \union new
    <3>1. CASE Bypass
      <4>1. "rollout_log_probs" \in columns
        BY <1>1, <1>3, <3>1 DEF StepInv, PassesDone
      <4>2. /\ columns' = columns \union {"old_log_probs"} /\ pc' = "infer"
            /\ lossMode' = "bypass_mode"
        BY <3>1, <4>1 DEF S!OldLogProbs, S!Stage, Bypass
      <4> QED BY <3>1, <4>2
    <3>2. CASE ~Bypass
      <4> DEFINE new == {"old_log_probs"} \union (IF S!Reuses THEN {} ELSE {"recomputed"})
      <4>1. columns' = columns \union new /\ pc' = "infer" /\ lossMode' = lossMode
        BY <3>2 DEF S!OldLogProbs, S!Stage, Bypass
      <4>2. new \in SUBSET {"old_log_probs", "recomputed"} /\ "old_log_probs" \in new
        OBVIOUS
      <4> QED BY <3>2, <4>1, <4>2
    <3> QED BY <3>1, <3>2
  <2>2. PICK new \in SUBSET {"old_log_probs", "recomputed"} :
          "old_log_probs" \in new /\ columns' = columns \union new
    BY <2>1
  <2>3. S!TypeOK'
    BY <1>1, <2>1, <2>2 DEF StepInv, S!TypeOK, S!Columns, S!TeacherColumns
  <2>4. ModeKept'
    BY <1>1, <2>1 DEF StepInv, ModeKept, WorkersMode, Bypass, S!Vopd
  <2>5. PassesDone'
    BY <1>1, <1>3, <2>1, <2>2 DEF StepInv, PassesDone, Bypass
  <2>6. TeacherGiven'
    BY <1>1, <2>1, <2>2 DEF StepInv, TeacherGiven, S!TeacherColumns, S!ControlColumns
  <2>7. AdvantagesGiven'
    BY <1>1, <2>1, <2>2 DEF StepInv, AdvantagesGiven
  <2>8. S!EverySampleTrained' /\ S!FailsIfUnsupported'
    BY <2>1 DEF S!EverySampleTrained, S!FailsIfUnsupported
  <2> QED BY <2>3, <2>4, <2>5, <2>6, <2>7, <2>8 DEF StepInv
<1> QED BY <1>2, <1>3

LEMMA InferStep ==
    ASSUME StepInv, S!Infer
    PROVE  StepInv'
<1> USE DEF Generated, OldKnown, Inferred, TeacherBuilt, Rewarded, Advanced, CriticUpdated,
            Unfinished
<1>1. /\ pc = "infer" /\ pc' = "teacher" /\ UNCHANGED <<config, mask, lossMode, losses>>
      /\ columns' = columns \union (IF config.kl # "none" THEN {"ref_log_prob"} ELSE {}) \union
                    (IF config.critic THEN {"values"} ELSE {})
  <2>1. pc = "infer"
    BY DEF S!Infer, S!Stage
  <2>2. "responses" \in columns
    BY <2>1 DEF StepInv, PassesDone
  <2> QED BY <2>1, <2>2 DEF S!Infer, S!Stage
<1>2. S!TypeOK'
  BY <1>1 DEF StepInv, S!TypeOK, S!Columns
<1>3. ModeKept'
  BY <1>1 DEF StepInv, ModeKept, WorkersMode, Bypass, S!Vopd
<1>4. PassesDone'
  BY <1>1 DEF StepInv, PassesDone, Bypass
<1>5. TeacherGiven'
  BY <1>1 DEF StepInv, TeacherGiven, S!TeacherColumns, S!ControlColumns
<1>6. AdvantagesGiven'
  BY <1>1 DEF StepInv, AdvantagesGiven
<1>7. S!EverySampleTrained' /\ S!FailsIfUnsupported'
  BY <1>1 DEF S!EverySampleTrained, S!FailsIfUnsupported
<1> QED BY <1>2, <1>3, <1>4, <1>5, <1>6, <1>7 DEF StepInv

LEMMA BuildTeacherStep ==
    ASSUME StepInv, S!BuildTeacher
    PROVE  StepInv'
<1> USE DEF Generated, OldKnown, Inferred, TeacherBuilt, Rewarded, Advanced, CriticUpdated,
            Unfinished
<1>1. pc = "teacher" /\ UNCHANGED <<config, lossMode, losses>> /\ "responses" \in columns
  <2>1. pc = "teacher"
    BY DEF S!BuildTeacher, S!Stage
  <2> QED BY <2>1 DEF StepInv, PassesDone, S!BuildTeacher
<1>2. lossMode = "vopd" <=> ~Bypass /\ S!Vopd
  BY <1>1 DEF StepInv, ModeKept, WorkersMode
<1>3. mask = {} /\ (S!TeacherColumns \union S!ControlColumns) \intersect columns = {}
  BY <1>1 DEF StepInv, TeacherGiven
<1>4. CASE lossMode = "vopd" /\ S!Refuses
  <2>1. pc' = "failed" /\ UNCHANGED <<columns, mask>>
    BY <1>4 DEF S!BuildTeacher
  <2>2. S!Unsupported'
    BY <1>1, <1>4 DEF S!Unsupported, S!Refuses, S!Informed, S!HasSolution
  <2>3. S!TypeOK'
    BY <1>1, <2>1 DEF StepInv, S!TypeOK
  <2> QED BY <1>1, <2>1, <2>2, <2>3, Fails
<1>5. CASE ~(lossMode = "vopd" /\ S!Refuses)
  <2>1. pc' = "rewards"
    BY <1>1, <1>5 DEF S!BuildTeacher, S!Stage
  <2>2. CASE lossMode # "vopd"
    <3>1. columns' = columns /\ mask' = mask
      BY <1>1, <2>2 DEF S!BuildTeacher, S!Stage
    <3>2. S!TypeOK'
      BY <1>1, <2>1, <3>1 DEF StepInv, S!TypeOK
    <3>3. ModeKept'
      BY <1>1, <2>1 DEF StepInv, ModeKept, WorkersMode, Bypass, S!Vopd
    <3>4. PassesDone'
      BY <1>1, <2>1, <3>1 DEF StepInv, PassesDone, Bypass
    <3>5. TeacherGiven'
      BY <1>1, <1>2, <1>3, <2>1, <2>2, <3>1
         DEF TeacherGiven, Bypass, S!Vopd, S!TeacherColumns, S!ControlColumns
    <3>6. AdvantagesGiven'
      BY <1>1, <2>1, <3>1 DEF StepInv, AdvantagesGiven
    <3>7. S!EverySampleTrained' /\ S!FailsIfUnsupported'
      BY <2>1 DEF S!EverySampleTrained, S!FailsIfUnsupported
    <3> QED BY <3>2, <3>3, <3>4, <3>5, <3>6, <3>7 DEF StepInv
  <2>3. CASE lossMode = "vopd"
    <3> DEFINE control == IF config.vcsd /\ config.teacher = "image" THEN S!ControlColumns ELSE {}
    <3>1. columns' = columns \union (S!TeacherColumns \union control) /\ mask' = S!Informed
      BY <1>1, <1>5, <2>3 DEF S!BuildTeacher, S!Stage
    <3>2. S!TypeOK'
      BY <1>1, <2>1, <3>1, Accepted
         DEF StepInv, S!TypeOK, S!Columns, S!TeacherColumns, S!ControlColumns
    <3>3. ModeKept'
      BY <1>1, <2>1 DEF StepInv, ModeKept, WorkersMode, Bypass, S!Vopd
    <3>4. PassesDone'
      BY <1>1, <2>1, <3>1 DEF StepInv, PassesDone, Bypass, S!TeacherColumns, S!ControlColumns
    <3>5. TeacherGiven'
      <4>1. S!Informed' = S!Informed
        BY <1>1 DEF S!Informed, S!HasSolution
      <4> QED
        BY <1>1, <1>2, <1>3, <2>1, <2>3, <3>1, <4>1
           DEF TeacherGiven, Bypass, S!Vopd, S!TeacherColumns, S!ControlColumns
    <3>6. AdvantagesGiven'
      BY <1>1, <2>1, <3>1 DEF StepInv, AdvantagesGiven, S!TeacherColumns, S!ControlColumns
    <3>7. S!EverySampleTrained' /\ S!FailsIfUnsupported'
      BY <2>1 DEF S!EverySampleTrained, S!FailsIfUnsupported
    <3> QED BY <3>2, <3>3, <3>4, <3>5, <3>6, <3>7 DEF StepInv
  <2> QED BY <2>2, <2>3
<1> QED BY <1>4, <1>5

LEMMA RewardsStep ==
    ASSUME StepInv, S!Rewards
    PROVE  StepInv'
<1> USE DEF Generated, OldKnown, Inferred, TeacherBuilt, Rewarded, Advanced, CriticUpdated,
            Unfinished
<1> DEFINE scores == IF S!RewardFree THEN {} ELSE {"token_level_scores", "token_level_rewards"}
<1>1. pc = "rewards" /\ UNCHANGED <<config, mask, lossMode, losses>>
  BY DEF S!Rewards, S!Stage
<1>2. /\ pc' = "advantages"
      /\ \E importance \in SUBSET {"rollout_is_weights"} :
           columns' = columns \union scores \union importance
  <2>1. config.kl = "reward" => {"old_log_probs", "ref_log_prob"} \subseteq columns
    BY <1>1 DEF StepInv, PassesDone
  <2> DEFINE importance == IF config.correction = "decoupled" /\ "rollout_log_probs" \in columns
                        THEN {"rollout_is_weights"} ELSE {}
  <2>2. pc' = "advantages" /\ columns' = columns \union (scores \union importance)
    BY <1>1, <2>1 DEF S!Rewards, S!Stage
  <2>3. importance \in SUBSET {"rollout_is_weights"}
    OBVIOUS
  <2>4. columns' = columns \union scores \union importance
    BY <2>2
  <2> HIDE DEF importance
  <2> QED BY <2>2, <2>3, <2>4
<1>3. PICK importance \in SUBSET {"rollout_is_weights"} :
        columns' = columns \union scores \union importance
  BY <1>2
<1>4. S!TypeOK'
  BY <1>1, <1>2, <1>3 DEF StepInv, S!TypeOK, S!Columns, S!TeacherColumns
<1>5. ModeKept'
  BY <1>1, <1>2 DEF StepInv, ModeKept, WorkersMode, Bypass, S!Vopd
<1>6. PassesDone'
  BY <1>1, <1>2, <1>3 DEF StepInv, PassesDone, Bypass, S!RewardFree
<1>7. TeacherGiven'
  <2>1. S!Informed' = S!Informed
    BY <1>1 DEF S!Informed, S!HasSolution
  <2> QED BY <1>1, <1>2, <1>3, <2>1 DEF StepInv, TeacherGiven, Bypass, S!Vopd, S!TeacherColumns,
     S!ControlColumns
<1>8. AdvantagesGiven'
  BY <1>1, <1>2, <1>3 DEF StepInv, AdvantagesGiven
<1>9. S!EverySampleTrained' /\ S!FailsIfUnsupported'
  BY <1>2 DEF S!EverySampleTrained, S!FailsIfUnsupported
<1> QED BY <1>4, <1>5, <1>6, <1>7, <1>8, <1>9 DEF StepInv

\* Without rewards, only a sample whose teacher was not informed needs advantages.
LEMMA WithoutRewards ==
    ASSUME StepInv, pc \in TeacherBuilt, S!RewardFree, ~S!Skips
    PROVE  S!Unsupported
<1> USE DEF Generated, OldKnown, Inferred, TeacherBuilt, Rewarded, Advanced, CriticUpdated,
            Unfinished
<1>1. S!Vopd /\ ~config.fallback /\ config.teacher \in {"image", "hint"}
  BY DEF S!RewardFree, S!Vopd
<1>2. CASE Bypass
  BY <1>1, <1>2 DEF S!Unsupported, Bypass
<1>3. CASE ~Bypass
  <2>1. lossMode = "vopd" /\ mask = S!Informed
    BY <1>1, <1>3 DEF StepInv, ModeKept, TeacherGiven, WorkersMode
  <2> QED BY <1>1, <2>1 DEF S!Unsupported, S!Skips
<1> QED BY <1>2, <1>3

LEMMA AdvantagesStep ==
    ASSUME StepInv, S!Advantages
    PROVE  StepInv'
<1> USE DEF Generated, OldKnown, Inferred, TeacherBuilt, Rewarded, Advanced, CriticUpdated,
            Unfinished
<1>1. pc = "advantages" /\ UNCHANGED <<config, mask, lossMode, losses>>
  BY DEF S!Advantages, S!Stage
<1>2. /\ ("token_level_rewards" \in columns) = (~S!RewardFree)
      /\ config.critic => "values" \in columns
      /\ {"advantages", "returns"} \intersect columns = {}
  BY <1>1 DEF StepInv, PassesDone, AdvantagesGiven
<1>3. /\ (S!Skips <=> S!Skips') /\ (S!RewardFree <=> S!RewardFree') /\ (S!Vopd <=> S!Vopd')
      /\ S!Informed' = S!Informed
  BY <1>1 DEF S!Skips, S!RewardFree, S!Vopd, S!Informed, S!HasSolution
<1>4. CASE ~S!Skips /\ S!RewardFree
  <2>1. pc' = "failed" /\ columns' = columns
    BY <1>1, <1>2, <1>4 DEF S!Advantages, S!Stage
  <2>2. S!Unsupported
    BY <1>1, <1>4, WithoutRewards
  <2>3. S!Unsupported'
    BY <1>1, <1>3, <2>2 DEF S!Unsupported
  <2>4. S!TypeOK'
    BY <1>1, <2>1 DEF StepInv, S!TypeOK
  <2> QED BY <1>1, <2>1, <2>3, <2>4, Fails
<1>5. CASE S!Skips \/ ~S!RewardFree
  <2>1. /\ pc' = "critic"
        /\ columns' = IF S!Skips THEN columns ELSE columns \union {"advantages", "returns"}
    BY <1>1, <1>2, <1>5 DEF S!Advantages, S!Stage
  <2>2. S!TypeOK'
    BY <1>1, <1>2, <2>1 DEF StepInv, S!TypeOK, S!Columns, S!TeacherColumns
  <2>3. ModeKept'
    BY <1>1, <2>1 DEF StepInv, ModeKept, WorkersMode, Bypass, S!Vopd
  <2>4. PassesDone'
    BY <1>1, <1>3, <2>1 DEF StepInv, PassesDone, Bypass
  <2>5. TeacherGiven'
    BY <1>1, <1>3, <2>1 DEF StepInv, TeacherGiven, Bypass, S!TeacherColumns, S!ControlColumns
  <2>6. AdvantagesGiven'
    BY <1>1, <1>2, <1>3, <1>5, <2>1 DEF AdvantagesGiven
  <2>7. S!EverySampleTrained' /\ S!FailsIfUnsupported'
    BY <2>1 DEF S!EverySampleTrained, S!FailsIfUnsupported
  <2> QED BY <2>2, <2>3, <2>4, <2>5, <2>6, <2>7 DEF StepInv
<1> QED BY <1>4, <1>5

LEMMA UpdateCriticStep ==
    ASSUME StepInv, S!UpdateCritic
    PROVE  StepInv'
<1> USE DEF Generated, OldKnown, Inferred, TeacherBuilt, Rewarded, Advanced, CriticUpdated,
            Unfinished
<1>1. pc = "critic" /\ columns' = columns /\ UNCHANGED <<config, mask, lossMode, losses>>
  BY DEF S!UpdateCritic, S!Stage
<1>2. ("returns" \in columns) = (~S!Skips) /\ (config.critic => "values" \in columns)
  BY <1>1 DEF StepInv, PassesDone, AdvantagesGiven
<1>3. /\ (S!Skips <=> S!Skips') /\ (S!RewardFree <=> S!RewardFree') /\ (S!Vopd <=> S!Vopd')
      /\ S!Informed' = S!Informed
  BY <1>1 DEF S!Skips, S!RewardFree, S!Vopd, S!Informed, S!HasSolution
<1>4. S!TypeOK /\ pc' \in {"actor", "failed"}
  BY DEF StepInv, S!UpdateCritic, S!Stage
<1>5. S!TypeOK'
  BY <1>1, <1>4 DEF S!TypeOK
<1>6. CASE config.critic /\ S!Skips
  <2>1. pc' = "failed"
    BY <1>1, <1>2, <1>6 DEF S!UpdateCritic, S!Stage
  <2>2. S!Unsupported'
    <3>1. lossMode = "vopd" /\ mask = Samples
      BY <1>6 DEF S!Skips
    <3>2. S!Vopd /\ mask = S!Informed
      BY <1>1, <3>1 DEF StepInv, ModeKept, TeacherGiven, WorkersMode
    <3> QED BY <1>1, <1>3, <1>6, <3>1, <3>2 DEF S!Unsupported
  <2> QED BY <1>1, <1>5, <2>1, <2>2, Fails
<1>7. CASE ~(config.critic /\ S!Skips)
  <2>1. pc' = "actor"
    BY <1>1, <1>2, <1>4, <1>7, Accepted DEF S!UpdateCritic, S!Stage
  <2>2. ModeKept'
    BY <1>1, <2>1 DEF StepInv, ModeKept, WorkersMode, Bypass, S!Vopd
  <2>3. PassesDone'
    BY <1>1, <1>3, <2>1 DEF StepInv, PassesDone, Bypass
  <2>4. TeacherGiven'
    BY <1>1, <1>3, <2>1 DEF StepInv, TeacherGiven, Bypass
  <2>5. AdvantagesGiven'
    BY <1>1, <1>3, <1>7, <2>1 DEF StepInv, AdvantagesGiven
  <2>6. S!EverySampleTrained' /\ S!FailsIfUnsupported'
    BY <2>1 DEF S!EverySampleTrained, S!FailsIfUnsupported
  <2> QED BY <1>5, <2>2, <2>3, <2>4, <2>5, <2>6 DEF StepInv
<1> QED BY <1>6, <1>7

\* What the actor's update takes from the batch.
ActorNeeds == S!Selected \union (IF S!Vopd /\ S!FallsBack # {} THEN {"advantages"} ELSE {})

\* The actor's update has its columns where the configuration is supported, and only there.
LEMMA Selects ==
    ASSUME StepInv, pc = "actor"
    PROVE  ActorNeeds \subseteq columns <=> ~S!Unsupported
<1> USE DEF Generated, OldKnown, Inferred, TeacherBuilt, Rewarded, Advanced, CriticUpdated,
            Unfinished
<1>1. /\ {"responses", "response_mask", "old_log_probs"} \subseteq columns
      /\ config.kl = "loss" => "ref_log_prob" \in columns
      /\ Bypass => config.logProbs
      /\ ("advantages" \in columns) = (~S!Skips) /\ (S!Skips \/ ~S!RewardFree)
      /\ config.critic => ~S!Skips
      /\ lossMode = IF Bypass THEN "bypass_mode" ELSE WorkersMode
  BY DEF StepInv, PassesDone, AdvantagesGiven, ModeKept
<1>2. S!TypeOK /\ mask \subseteq Samples
  BY DEF StepInv, S!TypeOK
<1>3. CASE ~S!Vopd
  <2>1. ~S!Skips /\ ~config.vcsd /\ config.teacher = "none"
    BY <1>1, <1>2, <1>3, Accepted DEF S!Skips, WorkersMode, S!Vopd
  <2>2. ActorNeeds \subseteq columns
    BY <1>1, <1>3, <2>1 DEF ActorNeeds, S!Selected
  <2>3. ~S!Unsupported
    BY <1>1, <1>3, <2>1 DEF S!Unsupported, Bypass
  <2> QED BY <2>2, <2>3
<1>4. CASE S!Vopd /\ Bypass
  <2>1. S!TeacherColumns \intersect columns = {}
    BY <1>4 DEF StepInv, TeacherGiven
  <2>2. ~(ActorNeeds \subseteq columns)
    BY <1>4, <2>1 DEF ActorNeeds, S!Selected, S!TeacherColumns
  <2>3. S!Unsupported
    BY <1>4 DEF S!Unsupported, Bypass
  <2> QED BY <2>2, <2>3
<1>5. CASE S!Vopd /\ ~Bypass
  <2>1. /\ mask = S!Informed /\ S!TeacherColumns \subseteq columns
        /\ config.vcsd /\ config.teacher = "image" => S!ControlColumns \subseteq columns
        /\ config.vcsd /\ config.teacher # "image" => S!ControlColumns \intersect columns = {}
        /\ config.vcsd => config.teacher \in {"reprompt", "image"}
    BY <1>2, <1>5, Accepted DEF StepInv, TeacherGiven
  <2>2. S!Skips <=> S!Informed = Samples
    BY <1>1, <1>5, <2>1 DEF S!Skips, WorkersMode
  <2>3. S!FallsBack # {} <=> ~S!Skips
    BY <1>2, <2>1, <2>2 DEF S!FallsBack
  <2>4. (config.vcsd /\ config.teacher = "reprompt") \/ ActorNeeds \subseteq columns
    BY <1>1, <1>5, <2>1, <2>3 DEF ActorNeeds, S!Selected
  <2>5. config.vcsd /\ config.teacher = "reprompt" => ~(ActorNeeds \subseteq columns)
    BY <1>5, <2>1 DEF ActorNeeds, S!Selected, S!ControlColumns
  <2>6. S!Unsupported <=> config.vcsd /\ config.teacher = "reprompt"
    BY <1>1, <1>5, <2>1, <2>2 DEF S!Unsupported, Bypass, S!RewardFree
  <2> QED BY <2>4, <2>5, <2>6
<1> QED BY <1>3, <1>4, <1>5

LEMMA UpdateActorStep ==
    ASSUME StepInv, S!UpdateActor
    PROVE  StepInv'
<1> USE DEF Generated, OldKnown, Inferred, TeacherBuilt, Rewarded, Advanced, CriticUpdated,
            Unfinished
<1>1. pc = "actor" /\ columns' = columns /\ UNCHANGED <<config, mask, lossMode>>
  BY DEF S!UpdateActor, S!Stage
<1>2. /\ (S!Skips <=> S!Skips') /\ (S!RewardFree <=> S!RewardFree') /\ (S!Vopd <=> S!Vopd')
      /\ S!Informed' = S!Informed /\ (S!Unsupported <=> S!Unsupported')
  BY <1>1 DEF S!Skips, S!RewardFree, S!Vopd, S!Informed, S!HasSolution, S!Unsupported
<1>3. S!TypeOK
  BY DEF StepInv
<1>4. CASE S!Unsupported
  <2>1. ~(ActorNeeds \subseteq columns)
    BY <1>1, <1>4, Selects
  <2>2. pc' = "failed" /\ losses' = losses
    BY <1>1, <2>1 DEF ActorNeeds, S!UpdateActor, S!Stage
  <2>3. S!TypeOK'
    BY <1>1, <1>3, <2>2 DEF S!TypeOK
  <2> QED BY <1>1, <1>2, <1>4, <2>2, <2>3, Fails
<1>5. CASE ~S!Unsupported
  <2>1. ActorNeeds \subseteq columns
    BY <1>1, <1>5, Selects
  <2>2. /\ pc' = "done"
        /\ losses' = [s \in Samples |->
                       (IF S!Vopd /\ s \in mask THEN {"distillation"} ELSE {}) \union
                       (IF ~S!Vopd \/ s \in S!FallsBack THEN {"policy"} ELSE {})]
    BY <1>1, <2>1 DEF ActorNeeds, S!UpdateActor, S!Stage
  <2>3. S!TypeOK'
    BY <1>1, <1>3, <2>2 DEF S!TypeOK
  <2>4. ModeKept'
    BY <1>1, <2>2 DEF StepInv, ModeKept, WorkersMode, Bypass, S!Vopd
  <2>5. PassesDone'
    BY <1>1, <1>2, <2>2 DEF StepInv, PassesDone, Bypass
  <2>6. TeacherGiven'
    BY <1>1, <1>2, <2>2 DEF StepInv, TeacherGiven, Bypass
  <2>7. AdvantagesGiven'
    BY <1>1, <1>2, <2>2 DEF StepInv, AdvantagesGiven
  <2>8. S!EverySampleTrained'
    <3>1. S!Vopd => mask = S!Informed
      <4>1. S!Vopd => ~Bypass
        BY <1>5 DEF S!Unsupported, Bypass
      <4> QED BY <1>1, <4>1 DEF StepInv, TeacherGiven
    <3>2. ASSUME NEW s \in Samples
          PROVE  losses'[s] = {IF S!Vopd /\ s \in S!Informed THEN "distillation" ELSE "policy"}
      BY <2>2, <3>1 DEF S!FallsBack
    <3> QED BY <1>2, <3>2 DEF S!EverySampleTrained
  <2>9. S!FailsIfUnsupported'
    BY <1>2, <1>5, <2>2 DEF S!FailsIfUnsupported
  <2> QED BY <2>3, <2>4, <2>5, <2>6, <2>7, <2>8, <2>9 DEF StepInv
<1> QED BY <1>4, <1>5

LEMMA StagesKeep ==
    StepInv /\ [S!Next]_(S!vars) => StepInv'
<1>1. CASE S!Next
  BY <1>1, ConfigureStep, GenerateStep, OldLogProbsStep, InferStep, BuildTeacherStep, RewardsStep,
     AdvantagesStep, UpdateCriticStep, UpdateActorStep DEF S!Next
<1>2. ASSUME StepInv, UNCHANGED S!vars
      PROVE  StepInv'
  <2>1. UNCHANGED <<config, pc, columns, mask, lossMode, losses>>
    BY <1>2 DEF S!vars
  <2>2. S!TypeOK'
    BY <1>2, <2>1 DEF StepInv, S!TypeOK
  <2>3. /\ (S!Skips <=> S!Skips') /\ (S!RewardFree <=> S!RewardFree') /\ (S!Vopd <=> S!Vopd')
        /\ S!Informed' = S!Informed /\ (S!Unsupported <=> S!Unsupported')
    BY <2>1 DEF S!Skips, S!RewardFree, S!Vopd, S!Informed, S!HasSolution, S!Unsupported
  <2>4. ModeKept' /\ PassesDone'
    BY <1>2, <2>1, <2>3 DEF StepInv, ModeKept, PassesDone, WorkersMode, Bypass
  <2>5. TeacherGiven' /\ AdvantagesGiven'
    BY <1>2, <2>1, <2>3 DEF StepInv, TeacherGiven, AdvantagesGiven, Bypass
  <2>6. S!EverySampleTrained' /\ S!FailsIfUnsupported'
    BY <1>2, <2>1, <2>3 DEF StepInv, S!EverySampleTrained, S!FailsIfUnsupported
  <2> QED BY <2>2, <2>4, <2>5, <2>6 DEF StepInv
<1> QED BY <1>1, <1>2

LEMMA StagesAlways == S!Spec => []StepInv
<1>1. S!Init => StepInv
  BY StagesStart
<1>2. StepInv /\ [S!Next]_(S!vars) => StepInv'
  BY StagesKeep
<1> QED BY <1>1, <1>2, PTL DEF S!Spec

\* Every variable of the step has its type: a batch with a mask has the teacher's inputs,
\* and returns come with advantages.
THEOREM StepTypes == S!Spec => []S!TypeOK
<1>1. StepInv => S!TypeOK
  BY DEF StepInv
<1> QED BY <1>1, StagesAlways, PTL

\* EverySampleTrained: a step that succeeds trains each response with one loss, that of
\* distillation if its teacher knew more.
THEOREM OneLossEach == S!Spec => []S!EverySampleTrained
<1>1. StepInv => S!EverySampleTrained
  BY DEF StepInv
<1> QED BY <1>1, StagesAlways, PTL

\* FailsIfUnsupported: the stages agree on the batch's columns in every configuration but
\* those listed, and in none of those does a step succeed.
THEOREM StepFailsIfUnsupported == S!Spec => []S!FailsIfUnsupported
<1>1. StepInv => S!FailsIfUnsupported
  BY DEF StepInv
<1> QED BY <1>1, StagesAlways, PTL

==============================================================================
