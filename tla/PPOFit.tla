------------------------------- MODULE PPOFit -------------------------------
(***************************************************************************)
(* The loop of RayPPOTrainer.fit around its steps: epochs and the stateful *)
(* data loader, the profiler, the actor's update and the EMA teacher that  *)
(* follows it, validation, checkpoints, crashes and resumes.               *)
(* What a step computes is module PPOStep, the pieces of a checkpoint are  *)
(* module TrainerCheckpoint; here each is one action.                      *)
(***************************************************************************)
EXTENDS Naturals, FiniteSets

CONSTANTS
  EpochLen,      \* len(train_dataloader)
  TotalEpochs,   \* trainer.total_epochs
  TotalSteps,    \* total_training_steps; a resume after the last trains one more
  CriticWarmup, SaveFreq, TestFreq,
  ProfileSteps,  \* global_profiler.steps
  Continuous,    \* global_profiler.profile_continuous_steps
  Esi,           \* may the allocation announce that it expires?
  MaxCrashes     \* bound on crashes

PPOFitAssumption ==
  /\ {EpochLen, TotalEpochs, TotalSteps} \subseteq Nat \ {0}
  /\ TotalSteps <= EpochLen * TotalEpochs
  /\ {CriticWarmup, SaveFreq, TestFreq, MaxCrashes} \subseteq Nat
  /\ ProfileSteps \subseteq 1 .. TotalSteps
  /\ {Continuous, Esi} \subseteq BOOLEAN

VARIABLES
  pc,          \* where fit() is
  step,        \* global_steps
  epoch, left, \* the epoch, and the batches left in its iterator
  previous, current,   \* prev_step_profile, curr_step_profile
  profiling,   \* starts of the workers' profilers that no stop has followed
  student,     \* updates in the actor's weights
  teacher,     \* the updates mixed into the EMA teacher
  saved,       \* the last checkpoint: step, student and the loader's position
  validated,   \* the step of the last validation
  base,        \* history: the student this process started with
  atEpochEnd,  \* history: it resumed with the loader at the end of an epoch
  crashes

loop == <<step, epoch, left>>
flags == <<previous, current>>
history == <<base, atEpochEnd>>
vars == <<pc, loop, flags, profiling, student, teacher, saved, validated, history, crashes>>

Profiled(s) == s \in ProfileSteps

\* Mutant: the epochs are counted from the start of the process.
FirstEpochOfProcess(s) == 0

\* current_epoch
FirstEpoch(s) == s \div EpochLen

\* fit() up to its loop, from a checkpoint or from scratch. The teacher is the
\* reference model again: load_checkpoint loads the actor only.
StartFrom(c) ==
  /\ pc' = "next"
  /\ step' = c.step + 1
  /\ epoch' = FirstEpoch(c.step)
  /\ left' = IF epoch' < TotalEpochs THEN EpochLen - c.position ELSE 0
  /\ previous' = FALSE /\ current' = Profiled(step')
  /\ profiling' = 0
  /\ student' = c.student /\ teacher' = {}
  /\ validated' = c.step
  /\ base' = c.student
  /\ atEpochEnd' = (c.position = EpochLen)

Scratch == [step |-> 0, student |-> 0, position |-> 0]

Init ==
  /\ pc = "next" /\ step = 1 /\ epoch = 0 /\ left = EpochLen
  /\ previous = FALSE /\ current = Profiled(1) /\ profiling = 0
  /\ student = 0 /\ teacher = {} /\ validated = 0
  /\ base = 0 /\ atEpochEnd = FALSE
  /\ saved = Scratch /\ crashes = 0

\* Mutant: reached one step late.
IsLastStepLate == step > TotalSteps

IsLastStep == step >= TotalSteps

\* Mutant: the profiler is started in every profiled step.
StartsEachStep == current

Starts == IF Continuous THEN ~previous /\ current ELSE current

\* The next batch, or the next epoch, or the end of the epochs.
NextBatch ==
  /\ pc = "next"
  /\ \/ /\ left > 0
        /\ pc' = "update" /\ left' = left - 1
        /\ profiling' = profiling + (IF Starts THEN 1 ELSE 0)
        /\ UNCHANGED epoch
     \/ /\ left = 0 /\ epoch + 1 < TotalEpochs
        /\ epoch' = epoch + 1 /\ left' = EpochLen
        /\ UNCHANGED <<pc, profiling>>
     \/ /\ left = 0 /\ epoch + 1 >= TotalEpochs
        /\ pc' = "done"
        /\ UNCHANGED <<epoch, left, profiling>>
  /\ UNCHANGED <<step, flags, student, teacher, saved, validated, history, crashes>>

\* Mutant: the teacher is updated before the optimizer's step.
MixedBefore(old, new) == teacher \union {old}

\* _update_teacher, with the weights the update has left.
Mixed(old, new) == teacher \union {new}

\* update_policy: an update whose gradient is not finite is skipped, and then the
\* teacher stays too.
UpdateActor ==
  /\ pc = "update" /\ pc' = "validate"
  /\ \E finite \in BOOLEAN :
       IF CriticWarmup <= step /\ finite
       THEN student' = student + 1 /\ teacher' = Mixed(student, student')
       ELSE UNCHANGED <<student, teacher>>
  /\ UNCHANGED <<loop, flags, profiling, saved, validated, history, crashes>>

Validate ==
  /\ pc = "validate" /\ pc' = "save"
  /\ validated' = IF TestFreq > 0 /\ (IsLastStep \/ step % TestFreq = 0) THEN step ELSE validated
  /\ UNCHANGED <<loop, flags, profiling, student, teacher, saved, history, crashes>>

\* Mutant: what the comment in fit() says, a positive frequency and the rest.
SaveDueByFrequency(expires) == SaveFreq > 0 /\ (step % SaveFreq = 0 \/ expires)

SaveDue(expires) ==
  IsLastStep \/ (SaveFreq > 0 /\ (step % SaveFreq = 0 \/ expires))

Save ==
  /\ pc = "save" /\ pc' = "end"
  /\ \E expires \in {FALSE, Esi} :
       saved' = IF SaveDue(expires)
                THEN [step |-> step, student |-> student, position |-> EpochLen - left]
                ELSE saved
  /\ UNCHANGED <<loop, flags, profiling, student, teacher, validated, history, crashes>>

NextProfiled == Profiled(step + 1)
Stops == IF Continuous THEN current /\ ~NextProfiled ELSE current

EndStep ==
  /\ pc = "end"
  /\ pc' = IF IsLastStep THEN "done" ELSE "next"
  /\ profiling' = profiling - (IF Stops THEN 1 ELSE 0)
  /\ previous' = current /\ current' = NextProfiled
  /\ step' = step + 1
  /\ UNCHANGED <<epoch, left, student, teacher, saved, validated, history, crashes>>

Crash ==
  /\ pc \notin {"down", "done"} /\ crashes < MaxCrashes
  /\ pc' = "down" /\ crashes' = crashes + 1
  /\ UNCHANGED <<loop, flags, profiling, student, teacher, saved, validated, history>>

Restart == pc = "down" /\ StartFrom(saved) /\ UNCHANGED <<saved, crashes>>

Fit == NextBatch \/ UpdateActor \/ Validate \/ Save \/ EndStep \/ Restart
Next == Fit \/ Crash
Spec == Init /\ [][Next]_vars /\ WF_vars(Fit)

----------------------------------------------------------------------------
\* Every variable has its type; profilers are never started twice or stopped twice.
TypeOK ==
  LET Steps == 0 .. TotalSteps + MaxCrashes IN
  /\ pc \in {"next", "update", "validate", "save", "end", "done", "down"}
  /\ step \in 1 .. TotalSteps + MaxCrashes + 1
  /\ epoch \in 0 .. TotalEpochs /\ left \in 0 .. EpochLen
  /\ {previous, current, atEpochEnd} \subseteq BOOLEAN /\ profiling \in 0 .. 1
  /\ {student, base, validated} \subseteq Steps /\ teacher \subseteq Steps
  /\ saved \in [step : Steps, student : Steps, position : 0 .. EpochLen]
  /\ crashes \in 0 .. MaxCrashes

Running == pc \in {"update", "validate", "save", "end"}

\* Whether the steps to profile are continuous or apart, and wherever a process
\* resumes: the profilers run in exactly the steps configured, and are off in the end,
\* unless an epoch was lost (see below) and the last steps of it are to be profiled.
ProfilesItsSteps ==
  /\ Running => profiling = (IF Profiled(step) THEN 1 ELSE 0)
  /\ pc = "done" => profiling = 0 \/ atEpochEnd

\* The step count, the epoch (computed from it) and the place of the loader (restored
\* on its own) agree after every resume that is not at the end of an epoch: no batch
\* is trained twice or left out.
DataFollowsSteps ==
  pc = "next" /\ ~atEpochEnd => step - 1 = epoch * EpochLen + (EpochLen - left)

\* fit() does not return before its last step is trained, validated and saved, unless
\* it resumed at the end of an epoch: the iterator of the next epoch is then empty,
\* so that epoch is lost.
EndsWithLastStep ==
  pc = "done" => \/ saved.step >= TotalSteps /\ (TestFreq > 0 => validated >= TotalSteps)
                 \/ atEpochEnd

\* The EMA teacher has taken in every update of the student since the process
\* started, and nothing else.
TeacherFollows == pc # "down" => teacher = base + 1 .. student

Returned == pc = "done"

\* fit() returns.
Finishes == <>Returned

\* The EMA teacher has taken in every update of the student, also those from before
\* a resume.
TeacherSurvivesResume == pc # "down" => teacher = 1 .. student
=============================================================================
