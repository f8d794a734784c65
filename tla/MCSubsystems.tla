---------------------------- MODULE MCSubsystems ----------------------------
(***************************************************************************)
(* The parts of verl that neither share state nor exchange messages with   *)
(* the others, each on a small instance.  A behaviour is one of the system *)
(* chosen in its initial state; the variables of the others stay as their  *)
(* Init has them.                                                          *)
(***************************************************************************)
EXTENDS Integers, Sequences

VARIABLE system   \* the one that runs

\* The variables of each, with a letter of its own before the module's names.
VARIABLES
  h_phase, h_step, h_position, h_previous, h_dirs, h_shards, h_data, h_tracker, h_completed,
  h_inherited, h_crashes,
  t_pc, t_version, t_globalSteps, t_feeding, t_fed, t_taken, t_learned, t_actors, t_critics,
  t_actorPaths, t_criticPaths, t_weights, t_data, t_tracker, t_crashes,
  o_pc, o_step, o_weights, o_rollout, o_future, o_batch, o_position, o_limit, o_trained,
  o_validated, o_saved, o_crashes,
  p_data, p_call, p_server, p_paused, p_event, p_output, p_cancelled, p_phase, p_told,
  p_version, p_generated,
  f_pc, f_step, f_epoch, f_left, f_previous, f_current, f_profiling, f_student, f_teacher,
  f_saved, f_validated, f_base, f_atEpochEnd, f_crashes,
  s_config, s_pc, s_columns, s_mask, s_lossMode, s_losses,
  b_config, b_pc, b_batch, b_sent, b_generated, b_lengths, b_at, b_counts, b_micro, b_computed,
  b_output,
  x_pc, x_buffers, x_send, x_packed, x_offset, x_taken, x_messages, x_notified, x_readable,
  x_current, x_coming, x_reading, x_yielded, x_received,
  n_pc, n_buffers, n_send, n_packed, n_offset, n_taken, n_phase, n_target, n_metadata, n_topic,
  n_subscribed, n_missed, n_current, n_yielded, n_received,
  w_sizes, w_buckets, w_schedule, w_pc, w_turn, w_h2d, w_halves, w_payload, w_loaded, w_replied,
  w_received,
  a_batch, a_estimates,
  g_batch, g_micro, g_engine, g_legacy, g_accumulated,
  e_config, e_pc, e_todo, e_first, e_version, e_stage, e_baseSyncDone, e_collected, e_onGpu,
  e_resident, e_engine, e_cached,
  v_phase, v_malformed, v_pc, v_worker, v_attempt, v_posts, v_sent, v_request_counts, v_awake,
  v_faults,
  l_now, l_tokens, l_updated, l_pc, l_sleeping, l_until, l_executing, l_passed,
  c_config, c_batch, c_pc, c_prompt, c_tokens, c_response_mask, c_response_logprobs,
  c_assistant_turns, c_user_turns, c_calls, c_weights, c_cache, c_served, c_output

handlerVars == <<h_phase, h_step, h_position, h_previous, h_dirs, h_shards, h_data, h_tracker,
      h_completed, h_inherited, h_crashes>>
trainerVars == <<t_pc, t_version, t_globalSteps, t_feeding, t_fed, t_taken, t_learned, t_actors,
      t_critics, t_actorPaths, t_criticPaths, t_weights, t_data, t_tracker, t_crashes>>
oneStepVars == <<o_pc, o_step, o_weights, o_rollout, o_future, o_batch, o_position, o_limit,
      o_trained, o_validated, o_saved, o_crashes>>
partialVars == <<p_data, p_call, p_server, p_paused, p_event, p_output, p_cancelled, p_phase,
      p_told, p_version, p_generated>>
fitVars == <<f_pc, f_step, f_epoch, f_left, f_previous, f_current, f_profiling, f_student,
      f_teacher, f_saved, f_validated, f_base, f_atEpochEnd, f_crashes>>
stepVars == <<s_config, s_pc, s_columns, s_mask, s_lossMode, s_losses>>
batchVars == <<b_config, b_pc, b_batch, b_sent, b_generated, b_lengths, b_at, b_counts, b_micro,
      b_computed, b_output>>
nixlVars == <<x_pc, x_buffers, x_send, x_packed, x_offset, x_taken, x_messages, x_notified,
      x_readable, x_current, x_coming, x_reading, x_yielded, x_received>>
ncclVars == <<n_pc, n_buffers, n_send, n_packed, n_offset, n_taken, n_phase, n_target,
      n_metadata, n_topic, n_subscribed, n_missed, n_current, n_yielded, n_received>>
bucketVars == <<w_sizes, w_buckets, w_schedule, w_pc, w_turn, w_h2d, w_halves, w_payload,
      w_loaded, w_replied, w_received>>
advantageVars == <<a_batch, a_estimates>>
lossVars == <<g_batch, g_micro, g_engine, g_legacy, g_accumulated>>
engineVars == <<e_config, e_pc, e_todo, e_first, e_version, e_stage, e_baseSyncDone,
      e_collected, e_onGpu, e_resident, e_engine, e_cached>>
scoreVars == <<v_phase, v_malformed, v_pc, v_worker, v_attempt, v_posts, v_sent,
      v_request_counts, v_awake, v_faults>>
limiterVars == <<l_now, l_tokens, l_updated, l_pc, l_sleeping, l_until, l_executing, l_passed>>
agentVars == <<c_config, c_batch, c_pc, c_prompt, c_tokens, c_response_mask,
      c_response_logprobs, c_assistant_turns, c_user_turns, c_calls, c_weights, c_cache, c_served,
      c_output>>
vars == <<system, handlerVars, trainerVars, oneStepVars, partialVars, fitVars, stepVars,
          batchVars, nixlVars, ncclVars, bucketVars, advantageVars, lossVars, engineVars,
          scoreVars, limiterVars, agentVars>>

\* The sizes of the weights two engines send, and those of three models: the buckets
\* of BucketBroadcast come out even, single, and of as many turns as ranks, or more.
WeightSizes == <<1, 2, 2, 2, 1, 3>>
WeightModels == {<<1, 1, 2, 2, 1>>, <<3>>, <<2, 1, 2, 1, 2>>}

\* Lengths of twelve responses: of mixed sizes; such that the ranks need different
\* numbers of micro-batches; such that micro-batches cannot be filled; and with ties.
ResponseLengths ==
  {<<1, 3, 3, 1, 3, 1, 2, 4, 1, 1, 1, 1>>, <<2, 2, 1, 2, 1, 2, 1, 2, 1, 1, 1, 1>>,
   <<3, 3, 3, 2, 3, 2, 3, 2, 3, 3, 2, 3>>, <<4, 4, 4, 4, 1, 1, 1, 1, 1, 2, 3, 4>>}

\* Three responses, of one turn or with tokens of a tool between or behind the model's,
\* in one group or in two, with scores that tie or do not.
Responses ==
  {[mask |-> <<1, 1, 1, 1>>, len |-> 4], [mask |-> <<1, 0, 1, 0>>, len |-> 3],
   [mask |-> <<1, 1, 0, 0>>, len |-> 2], [mask |-> <<1, 0, 1, 1>>, len |-> 4],
   [mask |-> <<1, 1, 0, 0>>, len |-> 4]}
RewardedBatches ==
  {[i \in 1 .. 3 |-> [mask |-> r[i].mask, len |-> r[i].len, score |-> s[i], uid |-> u[i]]] :
     r \in [1 .. 3 -> Responses], u \in {<<1, 1, 1>>, <<1, 1, 2>>},
     s \in {<<0, 1, 3>>, <<1, 1, 0>>, <<2, 2, 2>>, <<0, 0, 1>>}}

\* Mini-batches of even and of uneven rows, and of a row no token of which counts.
Row(tokens, sum) == [tokens |-> tokens, sum |-> sum]
MiniBatches ==
  {<<Row(1, 2), Row(3, 1), Row(2, 5), Row(3, 3)>>, <<Row(1, -2), Row(4, 3)>>,
   <<Row(2, 4), Row(0, 0), Row(3, 1), Row(1, 1)>>}

\* A training, with a simulated user or without and with what is too long cut or refused,
\* and validations with a response length of their own, shorter or longer.
Training ==
  [validate |-> FALSE, interaction |-> FALSE, log_probs |-> TRUE, truncation |-> "left",
   val_prompt_length |-> 0, val_response_length |-> 0]
AgentConfigs ==
  {Training, [Training EXCEPT !.interaction = TRUE], [Training EXCEPT !.truncation = "error"],
   [Training EXCEPT !.validate = TRUE, !.val_response_length = 2, !.log_probs = FALSE],
   [Training EXCEPT !.validate = TRUE, !.val_response_length = 5]}

\* The SFT checkpoint handler.
Handler == INSTANCE CheckpointHandler WITH
  Ranks <- {"r0", "r1"}, Rank0 <- "r0", Keep <- 2, SaveFreq <- 1, TotalSteps <- 4,
  MaxCrashes <- 2, phase <- h_phase, step <- h_step, position <- h_position,
  previous <- h_previous, dirs <- h_dirs, shards <- h_shards, data <- h_data,
  tracker <- h_tracker, completed <- h_completed, inherited <- h_inherited, crashes <- h_crashes

\* The checkpoints of the fully asynchronous trainer, and of the synchronous one.
AsyncTrainer == INSTANCE TrainerCheckpoint WITH
  Async <- TRUE, Ahead <- 2, ActorKeep <- 2, CriticKeep <- 3, SaveFreq <- 1, TotalSteps <- 4,
  MaxCrashes <- 2, pc <- t_pc, version <- t_version, globalSteps <- t_globalSteps,
  feeding <- t_feeding, fed <- t_fed, taken <- t_taken, learned <- t_learned,
  actors <- t_actors, critics <- t_critics, actorPaths <- t_actorPaths,
  criticPaths <- t_criticPaths, weights <- t_weights, data <- t_data, tracker <- t_tracker,
  crashes <- t_crashes

SyncTrainer == INSTANCE TrainerCheckpoint WITH
  Async <- FALSE, Ahead <- 2, ActorKeep <- 2, CriticKeep <- 3, SaveFreq <- 2, TotalSteps <- 5,
  MaxCrashes <- 2, pc <- t_pc, version <- t_version, globalSteps <- t_globalSteps,
  feeding <- t_feeding, fed <- t_fed, taken <- t_taken, learned <- t_learned,
  actors <- t_actors, critics <- t_critics, actorPaths <- t_actorPaths,
  criticPaths <- t_criticPaths, weights <- t_weights, data <- t_data, tracker <- t_tracker,
  crashes <- t_crashes

\* The one step off policy trainer: its steps end in the middle of the data, or with it.
OneStep == INSTANCE OneStepOff WITH
  EpochLen <- 2, TotalEpochs <- 3, TotalSteps <- 4, CriticWarmup <- 0, SaveFreq <- 1,
  TestFreq <- 2, MaxCrashes <- 2, pc <- o_pc, step <- o_step, weights <- o_weights,
  rollout <- o_rollout, future <- o_future, batch <- o_batch, position <- o_position,
  limit <- o_limit, trained <- o_trained, validated <- o_validated, saved <- o_saved,
  crashes <- o_crashes

OneEpoch == INSTANCE OneStepOff WITH
  EpochLen <- 4, TotalEpochs <- 1, TotalSteps <- 4, CriticWarmup <- 2, SaveFreq <- 1,
  TestFreq <- 3, MaxCrashes <- 2, pc <- o_pc, step <- o_step, weights <- o_weights,
  rollout <- o_rollout, future <- o_future, batch <- o_batch, position <- o_position,
  limit <- o_limit, trained <- o_trained, validated <- o_validated, saved <- o_saved,
  crashes <- o_crashes

\* The agent loops of a sample under partial rollout: two with tools, one with tools that is
\* interrupted twice, and one of a single turn.
ToolLoop == INSTANCE PartialGeneration WITH
  Loops <- {"l1", "l2"}, Servers <- {"s1"}, MultiTurn <- TRUE, TurnLen <- 2, CallStart <- 1,
  Calls <- 1, ToolLen <- 1, ResponseLength <- 4, MaxTurns <- 2, MaxTokens <- 4, MaxVersion <- 1,
  data <- p_data, call <- p_call, server <- p_server, paused <- p_paused, event <- p_event,
  output <- p_output, cancelled <- p_cancelled, phase <- p_phase, told <- p_told,
  version <- p_version, generated <- p_generated

TwoPauses == INSTANCE PartialGeneration WITH
  Loops <- {"l1"}, Servers <- {"s1", "s2"}, MultiTurn <- TRUE, TurnLen <- 2, CallStart <- 1,
  Calls <- 1, ToolLen <- 1, ResponseLength <- 4, MaxTurns <- 2, MaxTokens <- 4, MaxVersion <- 2,
  data <- p_data, call <- p_call, server <- p_server, paused <- p_paused, event <- p_event,
  output <- p_output, cancelled <- p_cancelled, phase <- p_phase, told <- p_told,
  version <- p_version, generated <- p_generated

SingleTurn == INSTANCE PartialGeneration WITH
  Loops <- {"l1"}, Servers <- {"s1", "s2"}, MultiTurn <- FALSE, TurnLen <- 6, CallStart <- 1,
  Calls <- 0, ToolLen <- 1, ResponseLength <- 4, MaxTurns <- 0, MaxTokens <- 5, MaxVersion <- 2,
  data <- p_data, call <- p_call, server <- p_server, paused <- p_paused, event <- p_event,
  output <- p_output, cancelled <- p_cancelled, phase <- p_phase, told <- p_told,
  version <- p_version, generated <- p_generated

\* The loop of the PPO trainer, and one of its steps.
Fit == INSTANCE PPOFit WITH
  EpochLen <- 2, TotalEpochs <- 3, TotalSteps <- 5, CriticWarmup <- 2, SaveFreq <- 3,
  TestFreq <- 2, ProfileSteps <- {2, 3, 5}, Continuous <- TRUE, Esi <- TRUE, MaxCrashes <- 2,
  pc <- f_pc, step <- f_step, epoch <- f_epoch, left <- f_left, previous <- f_previous,
  current <- f_current, profiling <- f_profiling, student <- f_student, teacher <- f_teacher,
  saved <- f_saved, validated <- f_validated, base <- f_base, atEpochEnd <- f_atEpochEnd,
  crashes <- f_crashes

Step == INSTANCE PPOStep WITH
  Samples <- {"s1", "s2"}, config <- s_config, pc <- s_pc, columns <- s_columns, mask <- s_mask,
  lossMode <- s_lossMode, losses <- s_losses

\* The way of a batch to the ranks and back.
Batch == INSTANCE BatchPath WITH
  Prompts <- 4, TrainCopies <- 3, ValCopies <- 1, AgentWorkers <- 3, Dp <- 2, Sp <- 2,
  MaxTokens <- 4, MicroSize <- 2, Lengths <- ResponseLengths, config <- b_config, pc <- b_pc,
  batch <- b_batch, sent <- b_sent, generated <- b_generated, lengths <- b_lengths, at <- b_at,
  counts <- b_counts, micro <- b_micro, computed <- b_computed, output <- b_output

\* The weight transfers.
Nixl == INSTANCE NixlTransfer WITH
  LastRank <- 2, Sizes <- WeightSizes, BucketSize <- 3, pc <- x_pc, buffers <- x_buffers,
  send <- x_send, packed <- x_packed, offset <- x_offset, taken <- x_taken, messages <- x_messages,
  notified <- x_notified, readable <- x_readable, current <- x_current, coming <- x_coming,
  reading <- x_reading, yielded <- x_yielded, received <- x_received

Nccl == INSTANCE NcclTransfer WITH
  Master <- 0, Receivers <- {1, 2}, Sizes <- WeightSizes, BucketSize <- 3, pc <- n_pc,
  buffers <- n_buffers, send <- n_send, packed <- n_packed, offset <- n_offset, taken <- n_taken,
  phase <- n_phase, target <- n_target, metadata <- n_metadata, topic <- n_topic, subscribed <- n_subscribed,
  missed <- n_missed, current <- n_current, yielded <- n_yielded, received <- n_received

Overlapped == INSTANCE BucketBroadcast WITH
  Actors <- 2, Rollouts <- 1, BufferSize <- 2, Models <- WeightModels, Overlap <- TRUE,
  sizes <- w_sizes, buckets <- w_buckets, schedule <- w_schedule, pc <- w_pc, turn <- w_turn,
  h2d <- w_h2d, halves <- w_halves, payload <- w_payload, loaded <- w_loaded,
  replied <- w_replied, received <- w_received

Buckets == INSTANCE BucketBroadcast WITH
  Actors <- 2, Rollouts <- 1, BufferSize <- 2, Models <- WeightModels, Overlap <- FALSE,
  sizes <- w_sizes, buckets <- w_buckets, schedule <- w_schedule, pc <- w_pc, turn <- w_turn,
  h2d <- w_h2d, halves <- w_halves, payload <- w_payload, loaded <- w_loaded,
  replied <- w_replied, received <- w_received

\* The advantage estimators.
Estimators == INSTANCE Advantages WITH
  Batches <- RewardedBatches, Gamma <- 2, Lam <- 3, Kl <- <<0, 1, 0, 1>>,
  Value <- <<2, 1, 3, 1>>, Energy <- <<1, 2, 1, 3>>, Baseline <- 1, batch <- a_batch,
  estimates <- a_estimates

\* The loss of a mini-batch.
Losses == INSTANCE LossAggregation WITH
  Batches <- MiniBatches, Dp <- 2, Width <- 4, ScaleFactor <- 0, batch <- g_batch,
  micro <- g_micro, engine <- g_engine, legacy <- g_legacy, accumulated <- g_accumulated

\* The hybrid engine.
Engine == INSTANCE HybridEngine WITH
  Replicas <- {{1}, {2}}, Resumed <- {0, 1}, MaxVersion <- 2, config <- e_config, pc <- e_pc,
  todo <- e_todo, first <- e_first, version <- e_version, stage <- e_stage,
  baseSyncDone <- e_baseSyncDone, collected <- e_collected, onGpu <- e_onGpu,
  resident <- e_resident, engine <- e_engine, cached <- e_cached

\* The reward model.
Scorer == INSTANCE RewardLoop WITH
  Requests <- {1, 2, 3}, NumReplicas <- 2, MaxAttempts <- 2, MaxRetries <- 2, Malformed <- {3},
  MaxFaults <- 2, phase <- v_phase, malformed <- v_malformed, pc <- v_pc, worker <- v_worker,
  attempt <- v_attempt, posts <- v_posts, sent <- v_sent, request_counts <- v_request_counts,
  awake <- v_awake, faults <- v_faults

\* The rate limited reward manager.
Limiter == INSTANCE RewardLimiter WITH
  Requests <- {1, 2}, ProcessOf <- <<1, 1>>, Second <- 2, Cost <- [rpm |-> 2, tpm |-> 3],
  MaxConcurrent <- 1, Timeout <- 2, Late <- 1, LastArrival <- 3, Executor <- TRUE, now <- l_now,
  tokens <- l_tokens, updated <- l_updated, pc <- l_pc, sleeping <- l_sleeping,
  until <- l_until, executing <- l_executing, passed <- l_passed

\* The synchronous agent loops: with a cache too small for the sessions, and with a larger.
SmallCache == INSTANCE ToolAgentLoop WITH
  Rows <- {1, 2}, Workers <- {1}, WorkerOf <- <<1, 1>>, Servers <- {1, 2}, CacheSize <- 1,
  Configs <- {Training}, PromptLens <- <<1, 3>>, PromptLength <- 2, ResponseLength <- 4,
  MaxModelLen <- 7, TurnLens <- {1}, TextLens <- {1}, MaxCalls <- 2, MaxParallelCalls <- 2,
  MaxUserTurns <- 2, MaxAssistantTurns <- 3, config <- c_config, batch <- c_batch, pc <- c_pc,
  prompt <- c_prompt, tokens <- c_tokens, response_mask <- c_response_mask,
  response_logprobs <- c_response_logprobs, assistant_turns <- c_assistant_turns,
  user_turns <- c_user_turns, calls <- c_calls, weights <- c_weights, cache <- c_cache,
  served <- c_served, output <- c_output

AgentBatch == INSTANCE ToolAgentLoop WITH
  Rows <- {1, 2}, Workers <- {1}, WorkerOf <- <<1, 1>>, Servers <- {1, 2}, CacheSize <- 2,
  Configs <- AgentConfigs, PromptLens <- <<1, 3>>, PromptLength <- 2, ResponseLength <- 4,
  MaxModelLen <- 7, TurnLens <- {1}, TextLens <- {1, 3}, MaxCalls <- 1, MaxParallelCalls <- 2,
  MaxUserTurns <- 2, MaxAssistantTurns <- 3, config <- c_config, batch <- c_batch, pc <- c_pc,
  prompt <- c_prompt, tokens <- c_tokens, response_mask <- c_response_mask,
  response_logprobs <- c_response_logprobs, assistant_turns <- c_assistant_turns,
  user_turns <- c_user_turns, calls <- c_calls, weights <- c_weights, cache <- c_cache,
  served <- c_served, output <- c_output

\* The instances are such as the modules assume.
ASSUME Assumptions ==
  /\ Handler!HandlerAssumption
  /\ AsyncTrainer!CheckpointAssumption
  /\ SyncTrainer!CheckpointAssumption
  /\ OneStep!OneStepOffAssumption
  /\ OneEpoch!OneStepOffAssumption
  /\ ToolLoop!PartialGenerationAssumption
  /\ TwoPauses!PartialGenerationAssumption
  /\ SingleTurn!PartialGenerationAssumption
  /\ Fit!PPOFitAssumption
  /\ Batch!BatchPathAssumption
  /\ Nixl!NixlAssumption
  /\ Nccl!NcclAssumption
  /\ Overlapped!BroadcastAssumption
  /\ Buckets!BroadcastAssumption
  /\ Estimators!AdvantagesAssumption
  /\ Losses!LossAssumption
  /\ Engine!HybridAssumption
  /\ Scorer!RewardLoopAssumption
  /\ Limiter!LimiterAssumption
  /\ SmallCache!ToolAgentAssumption
  /\ AgentBatch!ToolAgentAssumption

Init ==
  /\ system \in {"handler", "async_trainer", "sync_trainer", "one_step", "one_epoch",
                  "tool_loop", "two_pauses", "single_turn", "fit", "step", "batch", "nixl",
                  "nccl", "overlapped", "buckets", "advantages", "losses", "hybrid",
                  "reward_loop", "limiter", "small_cache", "agent_batch"}
  /\ Handler!Init
  /\ IF system = "sync_trainer" THEN SyncTrainer!Init ELSE AsyncTrainer!Init
  /\ IF system = "one_epoch" THEN OneEpoch!Init ELSE OneStep!Init
  /\ CASE system = "two_pauses" -> TwoPauses!Init
       [] system = "single_turn" -> SingleTurn!Init
       [] OTHER -> ToolLoop!Init
  /\ Fit!Init
  /\ Step!Init
  /\ Batch!Init
  /\ Nixl!Init
  /\ Nccl!Init
  /\ IF system = "buckets" THEN Buckets!Init ELSE Overlapped!Init
  /\ Estimators!Init
  /\ Losses!Init
  /\ Engine!Init
  /\ Scorer!Init
  /\ Limiter!Init
  /\ IF system = "agent_batch" THEN AgentBatch!Init ELSE SmallCache!Init

\* What the systems that do not run do.
Others ==
  /\ IF system \in {"handler"} THEN TRUE ELSE UNCHANGED handlerVars
  /\ IF system \in {"async_trainer", "sync_trainer"} THEN TRUE ELSE UNCHANGED trainerVars
  /\ IF system \in {"one_step", "one_epoch"} THEN TRUE ELSE UNCHANGED oneStepVars
  /\ IF system \in {"tool_loop", "two_pauses", "single_turn"} THEN TRUE ELSE UNCHANGED partialVars
  /\ IF system \in {"fit"} THEN TRUE ELSE UNCHANGED fitVars
  /\ IF system \in {"step"} THEN TRUE ELSE UNCHANGED stepVars
  /\ IF system \in {"batch"} THEN TRUE ELSE UNCHANGED batchVars
  /\ IF system \in {"nixl"} THEN TRUE ELSE UNCHANGED nixlVars
  /\ IF system \in {"nccl"} THEN TRUE ELSE UNCHANGED ncclVars
  /\ IF system \in {"overlapped", "buckets"} THEN TRUE ELSE UNCHANGED bucketVars
  /\ IF system \in {"advantages"} THEN TRUE ELSE UNCHANGED advantageVars
  /\ IF system \in {"losses"} THEN TRUE ELSE UNCHANGED lossVars
  /\ IF system \in {"hybrid"} THEN TRUE ELSE UNCHANGED engineVars
  /\ IF system \in {"reward_loop"} THEN TRUE ELSE UNCHANGED scoreVars
  /\ IF system \in {"limiter"} THEN TRUE ELSE UNCHANGED limiterVars
  /\ IF system \in {"small_cache", "agent_batch"} THEN TRUE ELSE UNCHANGED agentVars

Next ==
  /\ UNCHANGED system /\ Others
  /\ \/ system = "handler" /\ Handler!Next
     \/ system = "async_trainer" /\ AsyncTrainer!Next
     \/ system = "sync_trainer" /\ SyncTrainer!Next
     \/ system = "one_step" /\ OneStep!Next
     \/ system = "one_epoch" /\ OneEpoch!Next
     \/ system = "tool_loop" /\ ToolLoop!Next
     \/ system = "two_pauses" /\ TwoPauses!Next
     \/ system = "single_turn" /\ SingleTurn!Next
     \/ system = "fit" /\ Fit!Next
     \/ system = "step" /\ Step!Next
     \/ system = "batch" /\ Batch!Next
     \/ system = "nixl" /\ Nixl!Next
     \/ system = "nccl" /\ Nccl!Next
     \/ system = "overlapped" /\ Overlapped!Next
     \/ system = "buckets" /\ Buckets!Next
     \/ system = "advantages" /\ Estimators!Next
     \/ system = "losses" /\ Losses!Next
     \/ system = "hybrid" /\ Engine!Next
     \/ system = "reward_loop" /\ Scorer!Next
     \/ system = "limiter" /\ Limiter!Next
     \/ system = "small_cache" /\ SmallCache!Next
     \/ system = "agent_batch" /\ AgentBatch!Next

\* The fairness of each system's own specification.
Fairness ==
  /\ WF_handlerVars(
       /\ system = "handler"
       /\ \/ Handler!TrainStep \/ Handler!Barriers \/ Handler!Restart
          \/ \E r \in {"r0", "r1"} : Handler!RankStep(r))
  /\ WF_trainerVars(system = "async_trainer" /\ AsyncTrainer!Feed)
  /\ WF_trainerVars(
       /\ system = "async_trainer"
       /\ AsyncTrainer!Train \/ AsyncTrainer!Save \/ AsyncTrainer!Restart)
  /\ WF_trainerVars(system = "sync_trainer" /\ SyncTrainer!Feed)
  /\ WF_trainerVars(
       /\ system = "sync_trainer"
       /\ SyncTrainer!Train \/ SyncTrainer!Save \/ SyncTrainer!Restart)
  /\ WF_fitVars(system = "fit" /\ Fit!Fit)
  /\ WF_oneStepVars(system = "one_step" /\ OneStep!GenerationDone)
  /\ WF_oneStepVars(system = "one_step" /\ OneStep!Fit)
  /\ WF_partialVars(system = "tool_loop" /\ ToolLoop!Submit)
  /\ WF_partialVars(system = "tool_loop" /\ ToolLoop!Control)
  /\ \A l \in {"l1", "l2"} : WF_partialVars(system = "tool_loop" /\ ToolLoop!LoopStep(l))
  /\ WF_partialVars(system = "two_pauses" /\ TwoPauses!Submit)
  /\ WF_partialVars(system = "two_pauses" /\ TwoPauses!Control)
  /\ WF_partialVars(system = "two_pauses" /\ TwoPauses!LoopStep("l1"))
  /\ WF_partialVars(system = "single_turn" /\ SingleTurn!Submit)
  /\ WF_partialVars(system = "single_turn" /\ SingleTurn!Control)
  /\ WF_partialVars(system = "single_turn" /\ SingleTurn!LoopStep("l1"))
  /\ WF_batchVars(system = "batch" /\ Batch!Next)
  /\ WF_nixlVars(system = "nixl" /\ Nixl!Sender)
  /\ \A r \in {1, 2} : WF_nixlVars(system = "nixl" /\ Nixl!ReceiverStep(r))
  /\ WF_ncclVars(system = "nccl" /\ Nccl!MasterStep)
  /\ WF_ncclVars(system = "nccl" /\ Nccl!Broadcast)
  /\ \A r \in {1, 2} : WF_ncclVars(system = "nccl" /\ Nccl!ReceiverStep(r))
  /\ WF_bucketVars(system = "overlapped" /\ Overlapped!Collective)
  /\ WF_bucketVars(system = "buckets" /\ Buckets!Collective)
  /\ \A r \in 0 .. 2 :
       /\ WF_bucketVars(system = "overlapped" /\ Overlapped!RankStep(r))
       /\ WF_bucketVars(system = "overlapped" /\ Overlapped!Load(r))
       /\ WF_bucketVars(system = "buckets" /\ Buckets!RankStep(r))
  /\ WF_engineVars(system = "hybrid" /\ Engine!Driver)
  /\ \A w \in {1, 2} : WF_engineVars(system = "hybrid" /\ Engine!WorkerStep(w))
  /\ \A w \in {1, 2} : WF_engineVars(system = "hybrid" /\ Engine!SleepReplica({w}))
  /\ WF_scoreVars(
       /\ system = "reward_loop"
       /\ Scorer!WakeUp \/ Scorer!Sleep \/ Scorer!Raise)
  /\ \A q \in {1, 2, 3} : WF_scoreVars(system = "reward_loop" /\ Scorer!Serve(q))
  /\ WF_limiterVars(
       /\ system = "limiter"
       /\ \/ Limiter!Tick
          \/ \E q \in {1, 2} : Limiter!Step(q))
  /\ WF_agentVars(system = "agent_batch" /\ AgentBatch!Next)
  /\ WF_agentVars(system = "small_cache" /\ SmallCache!Next)

Spec == Init /\ [][Next]_vars /\ Fairness

----------------------------------------------------------------------------
\* Every variable of the system that runs has its type.
TypeOK ==
  CASE system = "handler" -> Handler!TypeOK
    [] system = "async_trainer" -> AsyncTrainer!TypeOK
    [] system = "sync_trainer" -> SyncTrainer!TypeOK
    [] system = "one_step" -> OneStep!TypeOK
    [] system = "one_epoch" -> OneEpoch!TypeOK
    [] system = "tool_loop" -> ToolLoop!TypeOK
    [] system = "two_pauses" -> TwoPauses!TypeOK
    [] system = "single_turn" -> SingleTurn!TypeOK
    [] system = "fit" -> Fit!TypeOK
    [] system = "step" -> Step!TypeOK
    [] system = "batch" -> Batch!TypeOK
    [] system = "nixl" -> Nixl!TypeOK
    [] system = "nccl" -> Nccl!TypeOK
    [] system = "overlapped" -> Overlapped!TypeOK
    [] system = "buckets" -> Buckets!TypeOK
    [] system = "advantages" -> Estimators!TypeOK
    [] system = "losses" -> Losses!TypeOK
    [] system = "hybrid" -> Engine!TypeOK
    [] system = "reward_loop" -> Scorer!TypeOK
    [] system = "limiter" -> Limiter!TypeOK
    [] system = "small_cache" -> SmallCache!TypeOK
    [] system = "agent_batch" -> AgentBatch!TypeOK

\* The checkpoint files, at every instant, a crash included: the SFT handler's tracker
\* names a checkpoint that is on disk with the shards of every rank, of which there are
\* at most Keep while it writes; a restart of the PPO trainers fails only on a tracker
\* that a crash has left empty, as rotation keeps the actor and the critic it names.
CheckpointsKept ==
  /\ Handler!Resumable /\ Handler!Rotates
  /\ IF system = "sync_trainer" THEN SyncTrainer!OnlyTornFails ELSE AsyncTrainer!OnlyTornFails

\* No restart of the SFT trainer resumes from before a save that every rank had
\* finished, and every rank then finds the loader position it saved in it; a restart fails
\* only on a data_<rank>.pt that a crash has torn, of a later step the tracker names already.
NeverLosesASave == Handler!NeverLosesASave

\* Whatever crashes and resumes, the PPO trainers train on no sample twice and skip
\* those in flight when the checkpoint was made and no more; the one step off policy
\* trainer, with a batch generated ahead, trains every step on a batch of its own.
DataOnce ==
  /\ IF system = "sync_trainer" THEN SyncTrainer!NoSampleTwice ELSE AsyncTrainer!NoSampleTwice
  /\ IF system = "sync_trainer"
       THEN SyncTrainer!SkipsOnlyInFlight
       ELSE AsyncTrainer!SkipsOnlyInFlight
  /\ system = "one_epoch" => OneEpoch!EveryBatchOnce

\* The PPO trainer's loop, wherever a process resumes: the profilers run in exactly the
\* configured steps; step, epoch and loader position agree; the EMA teacher has taken in
\* every update of the student made since the process started; fit() returns with its
\* last step trained, validated and saved.
FitResumes ==
  /\ Fit!ProfilesItsSteps /\ Fit!DataFollowsSteps
  /\ Fit!TeacherFollows /\ Fit!EndsWithLastStep

\* The one step off policy trainer: the servers' weights never change under a batch, what
\* is trained was generated by the weights before the last update or after it, and a
\* validation measures weights at most one update old.
OneStepOffPolicy ==
  /\ IF system = "one_epoch"
       THEN OneEpoch!OnePolicyPerBatch /\ OneEpoch!OneStepOffPolicy
       ELSE OneStep!OnePolicyPerBatch /\ OneStep!OneStepOffPolicy
  /\ system = "one_step" => OneStep!ValidationAtMostOneBehind

\* Partial rollout: across cancellations, resumes and tools no token is generated twice
\* or dropped, and the mask marks exactly the tokens of the model.  In the synchronous agent
\* loops mask and log-probabilities stay those of the tokens, which are none of the prompt's;
\* the turns of a row go to one server while the cache holds it, the rows in equal shares
\* to all servers; and long responses of tools fail no batch of training.
ResponsesWhole ==
  /\ CASE system = "tool_loop" -> ToolLoop!NothingRegenerated /\ ToolLoop!MaskMarksModelTokens
       [] system = "two_pauses" -> TwoPauses!NothingRegenerated /\ TwoPauses!MaskMarksModelTokens
       [] OTHER -> SingleTurn!NothingRegenerated
  /\ IF system = "small_cache"
       THEN SmallCache!RowsIntact /\ SmallCache!SessionsBalanced /\ SmallCache!FailsIfUnsupported
       ELSE AgentBatch!RowsIntact /\ AgentBatch!SessionsBalanced /\ AgentBatch!FailsIfUnsupported

\* No request runs over a change of weights: its cancel event is set exactly while its
\* server is paused; and the versions a finished loop is stamped with cover those of its
\* tokens, but for one if it was submitted last between pause() and update_param_version.
VersionsKnown ==
  /\ system = "tool_loop" =>
       /\ ToolLoop!CancelledWhilePaused /\ ToolLoop!StampsCoverTokens
       /\ ToolLoop!OneVersionPerRequest
  /\ system = "two_pauses" =>
       /\ TwoPauses!CancelledWhilePaused /\ TwoPauses!StampsCoverTokens
       /\ TwoPauses!OneVersionPerRequest
  /\ system = "single_turn" => SingleTurn!CancelledWhilePaused /\ SingleTurn!StampsCoverTokens

\* A step of the PPO trainer that completes has trained every sample, with the terms its
\* options ask for, and it fails only for options and samples it does not support.  Its
\* advantages pass over the tokens of tools, are centred in the group of each prompt, and
\* are those of the vectorized estimators; its loss does not depend on how ranks and
\* micro-batches divide a mini-batch.
SamplesTrained ==
  /\ Step!EverySampleTrained /\ Step!FailsIfUnsupported
  /\ Estimators!ToolTokensSkipped /\ Estimators!ReturnsOfOwnTurn
  /\ Estimators!GroupsCentred /\ Estimators!VectorizedAgree /\ Estimators!TurnsCompared
  /\ Losses!EngineInvariant /\ Losses!LegacyInvariant

\* From repeat to collect every row keeps its own response and log-probabilities; the
\* loads of the ranks differ by no more than Dp neighbours in their order; with the
\* prefix grouper the samples of a prompt are on one rank, side by side.
BatchInOrder == Batch!RowsAligned /\ Batch!RanksBalanced /\ Batch!GroupsTogether

\* A bucket of weights stays in its buffer until whoever was told of it has read it, by
\* every engine: NIXL until the next rank has, and none returns before; NCCL until its
\* broadcast ends, after which alone a receiver yields; the broadcast of a bucket never
\* fills the half a thread loads from.  The buckets hold every weight once and fit; a rank
\* of a rollout that has returned has loaded them all, and a transfer by NCCL that has
\* missed a receiver ends nowhere.
BuffersStay ==
  /\ Nixl!AnnouncedStays /\ Nixl!CleanWhenDone /\ Nccl!InFlightStays
  /\ Nccl!MissedBlocks /\ Overlapped!LoadingStays
  /\ IF system = "buckets"
       THEN Buckets!BucketsPartition /\ Buckets!AllLoaded
       ELSE Overlapped!BucketsPartition /\ Overlapped!AllLoaded

\* Each of the engines implements WeightTransfer: its receivers are handed weights with
\* their values, each at most once.
Transfers == Nixl!Transfers /\ Nccl!Transfers /\ Overlapped!Transfers

\* Every rollout of the synchronous trainer is of the actor's policy after its last update,
\* prefix caches included, but for the first one of LoRA training on unloaded base weights;
\* and actor and engine are not in the GPU's memory together.
EngineHoldsActor == Engine!EngineHoldsActor

\* Rewards: the rate limits hold in every window of time, whatever the requests' timers do;
\* the router never counts less than it has sent to a replica and shares the requests out
\* until one fails; a request is sent no more often than its retries allow, to replicas
\* that are awake, and given up only after all of them or at an answer without a body.
RewardsServed ==
  /\ Limiter!RateKept
  /\ Scorer!LoadCounted /\ Scorer!SendsBounded /\ Scorer!GivenUpForCause

\* What agg_loss says of itself: its losses do not depend on the parallelism at all.  The
\* sums normed by a constant do.
AggregationInvariant == Losses!AggregationInvariant

\* What the servers say of validation, that it can request a longer response length, for
\* rows of a single turn.
ValidationLonger == AgentBatch!ValidationLonger

\* Everything ends that was started.  The SFT training with its last step's checkpoint
\* tracked, or at the torn data_<rank>.pt of an unfinished save; the asynchronous and the
\* synchronous trainer at their last version, unless a restart fails, and the loop of the
\* latter with it; the one step off policy trainer at its last step; a batch, no rank of
\* which waits for one that has no micro-batch left; every sample of an agent loop, however
\* often it is interrupted, and every pause of their server; a batch of the synchronous agent
\* loops, with its rows or an error; every score, or with an error that has a cause; a
\* transfer at every rank, with every weight handed over, unless one by NCCL has missed a
\* receiver's subscription.
Completes ==
  /\ system = "handler" => Handler!Finishes
  /\ system = "tool_loop" => ToolLoop!PauseCompletes
  /\ <>(CASE system = "async_trainer" -> AsyncTrainer!Trained
          [] system = "sync_trainer" -> SyncTrainer!Trained
          [] system = "fit" -> Fit!Returned
          [] system = "one_step" -> OneStep!Trained
          [] system = "batch" -> Batch!Returned
          [] system = "tool_loop" -> ToolLoop!SampleFinished
          [] system = "two_pauses" -> TwoPauses!SampleFinished
          [] system = "single_turn" -> SingleTurn!SampleFinished
          [] system = "agent_batch" -> AgentBatch!Ended
          [] system = "small_cache" -> SmallCache!Ended
          [] system = "hybrid" -> Engine!Ends
          [] system = "reward_loop" -> Scorer!Scored
          [] system = "limiter" -> Limiter!AllScored
          [] system = "nixl" -> Nixl!Returned
          [] system = "nccl" -> n_missed \/ Nccl!Returned
          [] system = "overlapped" -> Overlapped!Returned
          [] system = "buckets" -> Buckets!Returned
          [] OTHER -> TRUE)

=============================================================================
