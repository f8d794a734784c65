------------------------------ MODULE PPOStep -------------------------------
(***************************************************************************)
(* One step of RayPPOTrainer.fit as what each stage takes from the batch   *)
(* and adds to it, for every combination of the options that select the    *)
(* stages: generation, rewards, the old policy's log-probabilities, the    *)
(* teacher's inputs, advantages, and the updates of critic and actor.      *)
(* A stage that misses a column fails, and with it the step.               *)
(***************************************************************************)
CONSTANT Samples   \* the responses to one prompt

VARIABLES
  config,      \* the options, and what the samples have
  pc,          \* the next stage
  columns,     \* the columns of the batch
  mask,        \* the samples set in self_distillation_mask
  lossMode,    \* policy_loss.loss_mode of the driver; the workers keep theirs
  losses       \* sample -> the loss terms the actor's update gave it

vars == <<config, pc, columns, mask, lossMode, losses>>

\* The accepted configurations (SelfDistillationConfig.__post_init__). "none" is any
\* loss mode but vopd; the other teachers are the branches of
\* _maybe_build_self_distillation_batch.
Configurations ==
  { c \in [teacher  : {"none", "reprompt", "image", "hint"},
           fallback : BOOLEAN, vcsd : BOOLEAN,
           critic   : BOOLEAN,                        \* GAE; otherwise GRPO
           kl       : {"none", "reward", "loss"},
           correction : {"none", "bypass", "decoupled"},
           logProbs : BOOLEAN,                        \* rollout.calculate_log_probs
           oneMiniBatch : BOOLEAN,
           given      : SUBSET Samples,  \* has a teacher image, an answer, or feedback
           successful : SUBSET Samples,
           othersOnly : BOOLEAN] :       \* dont_reprompt_on_self_success
      /\ c.vcsd => c.teacher \in {"reprompt", "image"}
      /\ c.fallback => c.teacher \in {"image", "hint"}
      /\ c.teacher = "none" => c.given = {}
      /\ c.teacher # "reprompt" => c.successful = {} /\ ~c.othersOnly }

Vopd == config.teacher # "none"

\* Mutant: the fallback is not looked at.
RewardFreeForAll == config.teacher \in {"image", "hint"}

\* _use_reward_free_teacher_vopd, asked before the driver's loss mode can change.
RewardFree == config.teacher \in {"image", "hint"} /\ ~config.fallback

Init ==
  /\ config = [teacher |-> "none", fallback |-> FALSE, vcsd |-> FALSE, critic |-> FALSE,
               kl |-> "none", correction |-> "none", logProbs |-> FALSE,
               oneMiniBatch |-> FALSE, given |-> {}, successful |-> {}, othersOnly |-> FALSE]
  /\ pc = "configure" /\ columns = {} /\ mask = {}
  /\ lossMode = "vanilla"
  /\ losses = [s \in Samples |-> {}]

Configure ==
  /\ pc = "configure" /\ pc' = "generate"
  /\ config' \in Configurations
  /\ lossMode' = IF config'.teacher # "none" THEN "vopd" ELSE "vanilla"
  /\ UNCHANGED <<columns, mask, losses>>

\* The stage at `here` needs columns `needs`, adds `adds` and is followed by `then`.
Stage(here, needs, adds, then) ==
  /\ pc = here
  /\ pc' = IF needs \subseteq columns THEN then ELSE "failed"
  /\ columns' = IF needs \subseteq columns THEN columns \union adds ELSE columns

Generate ==
  /\ Stage("generate", {}, {"responses", "response_mask"} \union
           (IF config.logProbs THEN {"rollout_log_probs"} ELSE {}), "old")
  /\ UNCHANGED <<config, mask, lossMode, losses>>

\* should_reuse_rollout_log_probs_as_old_log_probs
Reuses == config.oneMiniBatch /\ "rollout_log_probs" \in columns

\* The log-probabilities of the old policy: bypass mode and reuse take those of the
\* rollout. apply_bypass_mode changes the driver's configuration only.
OldLogProbs ==
  /\ IF config.correction = "bypass"
     THEN /\ Stage("old", {"rollout_log_probs"}, {"old_log_probs"}, "infer")
          /\ lossMode' = IF pc' = "failed" THEN lossMode ELSE "bypass_mode"
     ELSE /\ Stage("old", {}, {"old_log_probs"} \union (IF Reuses THEN {} ELSE {"recomputed"}), "infer")
          /\ UNCHANGED lossMode
  /\ UNCHANGED <<config, mask, losses>>

\* compute_ref_log_prob and compute_values
Infer ==
  /\ Stage("infer", {"responses"},
           (IF config.kl # "none" THEN {"ref_log_prob"} ELSE {}) \union
           (IF config.critic THEN {"values"} ELSE {}), "teacher")
  /\ UNCHANGED <<config, mask, lossMode, losses>>

TeacherColumns == {"teacher_input_ids", "self_distillation_mask"}
ControlColumns == {"teacher_ctrl_input_ids"}

\* _get_solution: a successful response to the same prompt.
HasSolution(s) == config.successful \ (IF config.othersOnly THEN {s} ELSE {}) # {}

\* The samples whose teacher knows more than the student.
Informed ==
  config.given \union
  (IF config.teacher = "reprompt" THEN {s \in Samples : HasSolution(s)} ELSE {})

\* An image missing without a fallback is refused at once; an answer is not.
Refuses == config.teacher = "image" /\ ~config.fallback /\ Informed # Samples

\* _maybe_build_self_distillation_batch. The reprompting branch has no control inputs.
BuildTeacher ==
  /\ IF lossMode # "vopd"
     THEN Stage("teacher", {}, {}, "rewards") /\ UNCHANGED mask
     ELSE IF Refuses
     THEN pc = "teacher" /\ pc' = "failed" /\ UNCHANGED <<columns, mask>>
     ELSE /\ Stage("teacher", {"responses"}, TeacherColumns \union
                   (IF config.vcsd /\ config.teacher = "image" THEN ControlColumns ELSE {}), "rewards")
          /\ mask' = Informed
  /\ UNCHANGED <<config, lossMode, losses>>

\* Token-level rewards, and the weights of the rollout correction. A reward-free step
\* has only its placeholder and keeps it out of the batch.
Rewards ==
  /\ Stage("rewards",
           IF config.kl = "reward" /\ ~RewardFree THEN {"old_log_probs", "ref_log_prob"} ELSE {},
           (IF RewardFree THEN {} ELSE {"token_level_scores", "token_level_rewards"}) \union
           (IF config.correction = "decoupled" /\ "rollout_log_probs" \in columns
            THEN {"rollout_is_weights"} ELSE {}),
           "advantages")
  /\ UNCHANGED <<config, mask, lossMode, losses>>

\* Mutant: one distilled sample is enough to skip the advantages.
SkipsForAny == lossMode = "vopd" /\ mask # {}

\* skip_advantage_for_vopd
Skips == lossMode = "vopd" /\ mask = Samples

\* compute_advantage
Advantages ==
  /\ IF Skips THEN Stage("advantages", {}, {}, "critic")
     ELSE Stage("advantages",
                {"token_level_rewards"} \union (IF config.critic THEN {"values"} ELSE {}),
                {"advantages", "returns"}, "critic")
  /\ UNCHANGED <<config, mask, lossMode, losses>>

UpdateCritic ==
  /\ Stage("critic", IF config.critic THEN {"values", "returns"} ELSE {}, {}, "actor")
  /\ UNCHANGED <<config, mask, lossMode, losses>>

\* select_keys of update_policy, by the worker's own loss mode.
Selected ==
  {"responses", "response_mask", "old_log_probs"} \union
  (IF Vopd THEN TeacherColumns \union (IF config.vcsd THEN ControlColumns ELSE {})
   ELSE {"advantages"}) \union
  (IF config.kl = "loss" THEN {"ref_log_prob"} ELSE {})

\* Mutant: the policy loss covers every sample of a batch that needs it.
FallsBackWhole == IF mask = Samples THEN {} ELSE Samples

\* policy_fallback_mask
FallsBack == Samples \ mask

\* update_policy: distillation for the masked samples, the policy loss for the rest,
\* which needs advantages.
UpdateActor ==
  /\ Stage("actor",
           Selected \union (IF Vopd /\ FallsBack # {} THEN {"advantages"} ELSE {}), {}, "done")
  /\ losses' = IF pc' = "failed" THEN losses
               ELSE [s \in Samples |->
                      (IF Vopd /\ s \in mask THEN {"distillation"} ELSE {}) \union
                      (IF ~Vopd \/ s \in FallsBack THEN {"policy"} ELSE {})]
  /\ UNCHANGED <<config, mask, lossMode>>

Next == Configure \/ Generate \/ OldLogProbs \/ Infer \/ BuildTeacher \/ Rewards
          \/ Advantages \/ UpdateCritic \/ UpdateActor
Spec == Init /\ [][Next]_vars

----------------------------------------------------------------------------
Columns == {"responses", "response_mask", "rollout_log_probs", "old_log_probs", "recomputed",
  "ref_log_prob", "values", "token_level_scores", "token_level_rewards", "rollout_is_weights",
  "advantages", "returns"} \union TeacherColumns \union ControlColumns

\* Every variable has its type; whatever has a mask has the teacher's inputs, and
\* returns come with advantages.
TypeOK ==
  /\ config \in Configurations
  /\ pc \in {"configure", "generate", "old", "infer", "teacher", "rewards", "advantages",
             "critic", "actor", "done", "failed"}
  /\ columns \subseteq Columns /\ mask \subseteq Samples
  /\ mask # {} => TeacherColumns \subseteq columns
  /\ ("advantages" \in columns) = ("returns" \in columns)
  /\ losses \in [Samples -> SUBSET {"distillation", "policy"}]

\* A step that succeeds trains every response with exactly one loss: distillation if
\* its teacher knows more than the student, and the policy loss otherwise.
EverySampleTrained ==
  pc = "done" => \A s \in Samples :
    losses[s] = {IF Vopd /\ s \in Informed THEN "distillation" ELSE "policy"}

\* The combinations no step survives: bypass mode without the rollout's
\* log-probabilities, or together with self-distillation (the driver forgets that mode
\* and builds no teacher inputs); the contrast without its control inputs; a missing
\* teacher input and no reward to fall back on; a critic without returns.
Unsupported ==
  \/ config.correction = "bypass" /\ (Vopd \/ ~config.logProbs)
  \/ config.vcsd /\ config.teacher = "reprompt"
  \/ config.teacher \in {"image", "hint"} /\ ~config.fallback /\ Informed # Samples
  \/ Vopd /\ config.critic /\ Informed = Samples

\* The stages agree on the columns in all other configurations, whatever the samples
\* have; and no unsupported one trains anything.
FailsIfUnsupported ==
  /\ pc = "failed" => Unsupported
  /\ pc = "done" => ~Unsupported

\* What a comment in fit() says, that reward-free self-distillation never consumes
\* rewards: advantages are computed from them only where rewards are.
NeverConsumesRewards == pc = "advantages" /\ RewardFree => Skips

\* What a comment in fit() says of the decoupled mode: the weights of the correction
\* compare the rollout with a recomputed policy.
DecoupledRecomputes == "rollout_is_weights" \in columns => "recomputed" \in columns

=============================================================================
