---------------------------- MODULE HybridEngine ----------------------------
(***************************************************************************)
(* The synchronous trainer's hybrid engine: each worker holds a shard of   *)
(* the actor (fsdp_workers.py) and an inference engine (vllm_rollout.py)   *)
(* that share its memory.  The AgentLoopManager wakes all engines up       *)
(* before it generates, which hands them the actor's weights, and puts     *)
(* them to sleep after it (agent_loop.py, vllm_async_server.py).  With     *)
(* LoRA the engine computes with base weights and, if one is loaded, an    *)
(* adapter; adapter 0 is the untrained one, which changes nothing.  The    *)
(* random states that both modes save and restore are left out.            *)
(***************************************************************************)
EXTENDS Integers, FiniteSets

CONSTANTS Replicas,     \* each the set of the workers that are its ranks
          Resumed,      \* the versions a checkpoint may hold
          MaxVersion    \* the version the training ends with

Workers == UNION Replicas

HybridAssumption ==
  /\ IsFiniteSet(Workers) /\ Workers # {}
  /\ {} \notin Replicas /\ \A q, r \in Replicas : q # r => q \cap r = {}
  /\ MaxVersion \in Nat /\ Resumed \subseteq 0 .. MaxVersion

VARIABLES
  config,       \* the options
  pc,           \* what the trainer does
  todo,         \* what it generates next for
  first,        \* whether it has finished no rollout yet
  version,      \* updates of the actor
  stage,        \* by worker, how far rollout_mode is, or trainer mode
  baseSyncDone, \* by worker, base_sync_done
  collected,    \* by worker, what it has collected of the actor
  onGpu,        \* whether its shard is in GPU memory
  resident,     \* what of its engine is
  engine,       \* the versions of the weights its engine holds
  cached        \* by replica, the policies whose keys and values its prefix cache holds

vars == <<config, pc, todo, first, version, stage, baseSyncDone, collected, onGpu, resident, engine,
          cached>>
worker == <<baseSyncDone, collected, onGpu, resident, engine>>

None == -1      \* no adapter loaded
Garbage == -2   \* memory that holds no weights

Options == [lora : BOOLEAN, dummy : BOOLEAN, free : BOOLEAN, offload : BOOLEAN,
            layered : BOOLEAN, level : {1, 2}]

\* layered_summon has the engine keep its weights while it sleeps.
SleepLevel == IF config.layered THEN 1 ELSE config.level

\* The actor: of full fine-tuning its weights, of LoRA an adapter of the base weights.
Actor == IF config.lora THEN [base |-> 0, adapter |-> version]
                        ELSE [base |-> version, adapter |-> 0]

\* What an engine computes: no adapter is as good as an untrained one.
Policy(e) == [base |-> e.base, adapter |-> IF e.adapter = None THEN 0 ELSE e.adapter]

All(s) == \A w \in Workers : stage[w] = s
Everywhere(s) == [w \in Workers |-> s]
Parts == {"weights", "kv_cache"}

Init ==
  /\ config = [lora |-> FALSE, dummy |-> FALSE, free |-> FALSE, offload |-> FALSE,
               layered |-> FALSE, level |-> 1]
  /\ pc = "build" /\ todo = "validate" /\ first = TRUE /\ version = 0
  /\ stage = Everywhere("trainer") /\ baseSyncDone = Everywhere(FALSE)
  /\ collected = Everywhere("nothing") /\ onGpu = Everywhere(FALSE) /\ resident = Everywhere({})
  /\ engine = Everywhere([base |-> Garbage, adapter |-> None])
  /\ cached = [r \in Replicas |-> {}]

\* The workers build their rollouts and the servers launch: an engine loads the base
\* weights of the model's files, or none at all.
Build ==
  /\ pc = "build"
  /\ config' \in Options
  /\ baseSyncDone' = Everywhere(~config'.dummy)
  /\ engine' = Everywhere([base |-> IF config'.dummy THEN Garbage ELSE 0, adapter |-> None])
  /\ resident' = Everywhere(Parts) /\ onGpu' = Everywhere(~config'.offload)
  /\ pc' = "launched"
  /\ UNCHANGED <<todo, first, version, stage, collected, cached>>

\* Mutant: the engine keeps nothing else but its weights after all.
SleptKeepingCache(e, r) == <<e, r \ {"weights"}>>

\* vLLMAsyncRollout.release: sleep at level 2 gives up the weights, at level 1 a copy stays.
Slept(e, r) ==
  IF ~config.free THEN <<e, r>>
  ELSE IF SleepLevel = 1 THEN <<e, {}>>
  ELSE <<[base |-> Garbage, adapter |-> IF e.adapter = None THEN None ELSE Garbage], {}>>

\* trainer_mode of a worker, once its replica's cache is reset.
TrainerMode(w) ==
  LET slept == Slept(engine[w], resident[w]) IN
  /\ stage[w] = "reset"
  /\ stage' = [stage EXCEPT ![w] = "trainer"]
  /\ engine' = [engine EXCEPT ![w] = slept[1]]
  /\ resident' = [resident EXCEPT ![w] = slept[2]]
  /\ UNCHANGED <<config, pc, todo, first, version, baseSyncDone, collected, onGpu, cached>>

\* Mutant: the cache is not reset.
ResetKeepsCache(r) == cached

\* reset_prefix_cache
Reset(r) == [cached EXCEPT ![r] = {}]

\* A replica's server goes to sleep: its engine is idle, as its requests are answered.
SleepReplica(r) ==
  /\ pc \in {"sleeping", "firstSleep"} /\ \A w \in r : stage[w] \in {"rollout", "launched"}
  /\ cached' = Reset(r)
  /\ stage' = [w \in Workers |-> IF w \in r THEN "reset" ELSE stage[w]]
  /\ UNCHANGED <<config, pc, todo, first, version>> /\ UNCHANGED worker

\* AgentLoopManager.__init__: initially the engines sleep.
FirstSleep ==
  /\ pc = "launched"
  /\ IF config.free THEN pc' = "firstSleep" /\ stage' = Everywhere("launched")
                    ELSE pc' = "loading" /\ UNCHANGED stage
  /\ UNCHANGED <<config, todo, first, version, cached>> /\ UNCHANGED worker

\* fit loads the checkpoint, if there is one, and validates first, if it is told to.
LoadCheckpoint ==
  /\ pc = "loading"
  /\ version' \in Resumed
  /\ todo' \in {"validate", "train"}
  /\ pc' = IF version' = MaxVersion THEN "done" ELSE "idle"
  /\ UNCHANGED <<config, first, stage, cached>> /\ UNCHANGED worker

WakeUp ==
  /\ pc = "idle"
  /\ pc' = "waking" /\ stage' = Everywhere("woken")
  /\ UNCHANGED <<config, todo, first, version, cached>> /\ UNCHANGED worker

----------------------------------------------------------------------------
\* What rollout_mode collects: the adapter if the base is synchronized, else all weights.
Params(w) == IF config.lora /\ baseSyncDone[w] THEN "adapter" ELSE "base"

\* With LoRA all ranks gather the parameters together; layer by layer they gather adapters
\* only, for which the engine must have loaded the base.
CollectTogether ==
  /\ config.lora /\ All("woken")
  /\ IF config.layered /\ \E w \in Workers : ~baseSyncDone[w]
       THEN pc' = "failed" /\ UNCHANGED <<stage, collected, onGpu>>
       ELSE /\ collected' = [w \in Workers |-> Params(w)]
            /\ onGpu' = Everywhere(~config.offload)
            /\ stage' = Everywhere("collected") /\ UNCHANGED pc
  /\ UNCHANGED <<config, todo, first, version, baseSyncDone, resident, engine, cached>>

\* Without it each takes its shards.
Collect(w) ==
  /\ ~config.lora /\ stage[w] = "woken"
  /\ collected' = [collected EXCEPT ![w] = Params(w)]
  /\ onGpu' = [onGpu EXCEPT ![w] = ~config.offload]
  /\ stage' = [stage EXCEPT ![w] = "collected"]
  /\ UNCHANGED <<config, pc, todo, first, version, baseSyncDone, resident, engine, cached>>

\* The engine's weights come back once the shard is offloaded.
ResumeWeights(w) ==
  /\ stage[w] = "collected"
  /\ resident' = [resident EXCEPT ![w] = @ \cup IF config.free THEN {"weights"} ELSE {}]
  /\ stage' = [stage EXCEPT ![w] = "resumed"]
  /\ UNCHANGED <<config, pc, todo, first, version, baseSyncDone, collected, onGpu, engine, cached>>

\* Mutant: an adapter is loaded over whatever base there is.
LoadedAdapterOnly(w) ==
  IF collected[w] = "adapter" THEN [engine[w] EXCEPT !.adapter = version]
                              ELSE [engine[w] EXCEPT !.base = Actor.base]

\* What update_weights leaves in the engine; after a sleep at level 2 the base is new too.
Loaded(w) ==
  IF collected[w] = "adapter"
    THEN [adapter |-> version, base |-> IF SleepLevel = 2 THEN Actor.base ELSE engine[w].base]
    ELSE [engine[w] EXCEPT !.base = Actor.base]

\* With LoRA a worker loads what it has gathered.
Load(w) ==
  /\ config.lora /\ stage[w] = "resumed"
  /\ engine' = [engine EXCEPT ![w] = Loaded(w)]
  /\ stage' = [stage EXCEPT ![w] = "loaded"]
  /\ UNCHANGED <<config, pc, todo, first, version, baseSyncDone, collected, onGpu, resident, cached>>

\* Without it the ranks gather each tensor as the engines load it.
LoadTogether ==
  /\ ~config.lora /\ All("resumed")
  /\ engine' = [w \in Workers |-> Loaded(w)]
  /\ stage' = Everywhere("loaded")
  /\ UNCHANGED <<config, pc, todo, first, version, baseSyncDone, collected, onGpu, resident, cached>>

\* Mutant: the base counts as synchronized only where it was from the start.
BaseDoneAsBefore(w) == baseSyncDone[w]

BaseDone(w) == TRUE

RolloutMode(w) ==
  /\ stage[w] = "loaded"
  /\ collected' = [collected EXCEPT ![w] = "nothing"]
  /\ resident' = [resident EXCEPT ![w] = @ \cup IF config.free THEN {"kv_cache"} ELSE {}]
  /\ baseSyncDone' = [baseSyncDone EXCEPT ![w] = BaseDone(w)]
  /\ stage' = [stage EXCEPT ![w] = "rollout"]
  /\ UNCHANGED <<config, pc, todo, first, version, onGpu, engine, cached>>

----------------------------------------------------------------------------
\* All replicas are awake, or asleep.
Awake ==
  /\ pc = "waking" /\ All("rollout")
  /\ pc' = "generating"
  /\ UNCHANGED <<config, todo, first, version, stage, cached>> /\ UNCHANGED worker

\* A replica answers requests, from its prefix cache as far as it can.
Generate(r) ==
  /\ pc = "generating"
  /\ \E w \in r : cached' = [cached EXCEPT ![r] = @ \cup {Policy(engine[w])}]
  /\ UNCHANGED <<config, pc, todo, first, version, stage>> /\ UNCHANGED worker

\* The batch is complete.
Sleep ==
  /\ pc = "generating"
  /\ pc' = "sleeping"
  /\ UNCHANGED <<config, todo, first, version, stage, cached>> /\ UNCHANGED worker

Asleep ==
  /\ pc \in {"sleeping", "firstSleep"} /\ All("trainer")
  /\ pc' = IF pc = "firstSleep" THEN "loading" ELSE IF todo = "train" THEN "training" ELSE "idle"
  /\ todo' = IF pc = "firstSleep" THEN todo ELSE "train"
  /\ first' = (first /\ pc = "firstSleep")
  /\ UNCHANGED <<config, version, stage, cached>> /\ UNCHANGED worker

\* update_actor, on all workers; what they offload is back in host memory after it.
Update ==
  /\ pc = "training"
  /\ version' = version + 1
  /\ onGpu' = Everywhere(~config.offload)
  /\ todo' \in {"validate", "train"}
  /\ pc' = IF version' = MaxVersion THEN "done" ELSE "idle"
  /\ UNCHANGED <<config, first, stage, baseSyncDone, collected, resident, engine, cached>>

WorkerStep(w) ==
  TrainerMode(w) \/ Collect(w) \/ ResumeWeights(w) \/ Load(w) \/ RolloutMode(w)

Driver ==
  \/ Build \/ FirstSleep \/ LoadCheckpoint \/ WakeUp \/ Awake \/ Sleep \/ Asleep \/ Update
  \/ CollectTogether \/ LoadTogether

Next == \/ Driver
        \/ \E w \in Workers : WorkerStep(w)
        \/ \E r \in Replicas : SleepReplica(r) \/ Generate(r)

Spec == /\ Init /\ [][Next]_vars /\ WF_vars(Driver)
        /\ \A w \in Workers : WF_vars(WorkerStep(w))
        /\ \A r \in Replicas : WF_vars(SleepReplica(r))

----------------------------------------------------------------------------
Weights == {None, Garbage} \cup 0 .. MaxVersion

TypeOK ==
  /\ config \in Options /\ todo \in {"validate", "train"}
  /\ first \in BOOLEAN
  /\ pc \in {"build", "launched", "firstSleep", "loading", "idle", "waking", "generating",
             "sleeping", "training", "done", "failed"}
  /\ version \in 0 .. MaxVersion
  /\ stage \in [Workers -> {"trainer", "launched", "woken", "collected", "resumed", "loaded",
                            "rollout", "reset"}]
  /\ baseSyncDone \in [Workers -> BOOLEAN] /\ onGpu \in [Workers -> BOOLEAN]
  /\ collected \in [Workers -> {"nothing", "base", "adapter"}]
  /\ resident \in [Workers -> SUBSET Parts]
  /\ engine \in [Workers -> [base : Weights, adapter : Weights]]
  /\ cached \in [Replicas -> SUBSET [base : Weights, adapter : Weights]]

\* The first rollout of LoRA training whose engines have loaded no base weights hands them
\* the base weights and no adapter.
BaseOnly == config.lora /\ config.dummy /\ first

\* Every engine generates with the policy the actor has after its last update, whatever
\* its sleep has left of its weights, and from keys and values of that policy.
GeneratesWithActor ==
  pc = "generating" =>
    /\ \A w \in Workers :
         Policy(engine[w]) = IF BaseOnly THEN [Actor EXCEPT !.adapter = 0] ELSE Actor
    /\ \A r \in Replicas : \A p \in cached[r] : \A w \in Workers : p = Policy(engine[w])

\* The actor and the engine take turns on the GPU: no part of an engine that frees its
\* memory is there while the actor is trained, none of the actor's shard that is offloaded
\* while the engine is, and the cache never while weights are being loaded.
MemoryShared ==
  \A w \in Workers :
    /\ config.free /\ pc \in {"training", "idle", "done"} => resident[w] = {}
    /\ config.offload /\ resident[w] # {} => ~onGpu[w]
    /\ config.free /\ collected[w] # "nothing" => "kv_cache" \notin resident[w]

\* What generates is what was trained, and both have their turn on the GPU.
EngineHoldsActor == GeneratesWithActor /\ MemoryShared

\* What rollout_mode promises: every rollout is of the actor's policy, the first one after
\* a LoRA training has resumed from a checkpoint included.
AlwaysGeneratesWithActor ==
  pc = "generating" => \A w \in Workers : Policy(engine[w]) = Actor

\* The training ends, or says at its first rollout that it is not supported.
Ends == pc = "done" \/ (pc = "failed" /\ config.layered /\ config.lora /\ config.dummy)
=============================================================================
