--------------------------- MODULE ToolAgentLoop ---------------------------
(***************************************************************************)
(* A batch of the synchronous agent loops (agent_loop.py): each worker     *)
(* runs its rows concurrently, each in a ToolAgentLoop                     *)
(* (tool_agent_loop.py) that generates, calls tools in parallel or         *)
(* interacts with a simulated user, and sends its turns to the server its  *)
(* worker's AsyncLLMServerManager chooses.  The results are cut, padded    *)
(* and concatenated; an exception anywhere fails the batch.  Of a token    *)
(* its author is kept.  Images, rewards and routed experts are left out.   *)
(***************************************************************************)
EXTENDS Integers, Sequences, FiniteSets, SequencesExt

CONSTANTS Rows, Workers,
          WorkerOf,          \* the worker of each row
          Servers,           \* numbered as in server_handles
          CacheSize,         \* of a worker's request_id_to_server
          Configs,           \* the configurations to check
          PromptLens,        \* the length of each row's prompt
          PromptLength, ResponseLength, MaxModelLen,
          TurnLens,          \* lengths of turns, where they may be as long
          TextLens,          \* lengths of what tools or the user say
          MaxCalls,          \* bound on the calls in a turn
          MaxParallelCalls, MaxUserTurns, MaxAssistantTurns

NoLimit == 0

Options ==
  [validate : BOOLEAN, interaction : BOOLEAN, log_probs : BOOLEAN, truncation : {"error", "left"},
   val_prompt_length : Nat, val_response_length : Nat]

ToolAgentAssumption ==
  /\ IsFiniteSet(Rows) /\ WorkerOf \in [Rows -> Workers] /\ Configs \subseteq Options
  /\ \A s \in Servers : s \in Nat
  /\ {CacheSize, PromptLength, ResponseLength} \subseteq Nat \ {0} /\ MaxModelLen \in Nat
  /\ \A r \in Rows : PromptLens[r] \in Nat \ {0} /\ PromptLens[r] + ResponseLength <= MaxModelLen
  /\ TurnLens \subseteq Nat \ {0} /\ TextLens \subseteq Nat
  /\ MaxCalls \in Nat /\ MaxParallelCalls \in Nat \ {0}
  /\ MaxUserTurns \in Nat /\ MaxAssistantTurns \in Nat

VARIABLES
  config,
  batch,             \* whether it is running, returned, or an exception has failed it
  pc,                \* by row, the state of its agent
  prompt,            \* the length of its prompt
  tokens,            \* the authors of what has been added to prompt_ids since
  response_mask, response_logprobs,
  assistant_turns, user_turns,
  calls,             \* how far its tool calls are
  weights,           \* by worker, how many sessions each server was given
  cache,             \* its sessions, the least recently used first
  served,            \* history: the servers a row's turns were sent to
  output             \* what its worker returns

vars == <<config, batch, pc, prompt, tokens, response_mask, response_logprobs, assistant_turns,
          user_turns, calls, weights, cache, served, output>>
history == <<tokens, response_mask, response_logprobs>>
balance == <<weights, cache, served>>

NoOutput == [response_ids |-> <<>>, response_mask |-> <<>>, response_logprobs |-> <<>>]
Smaller(m, n) == IF m <= n THEN m ELSE n
Filled(n, x) == [i \in 1 .. n |-> x]

Init ==
  /\ config \in Configs
  /\ batch = "running" /\ pc = [r \in Rows |-> "pending"] /\ prompt = [r \in Rows |-> 0]
  /\ tokens = [r \in Rows |-> <<>>] /\ response_mask = [r \in Rows |-> <<>>]
  /\ response_logprobs = [r \in Rows |-> <<>>]
  /\ assistant_turns = [r \in Rows |-> 0] /\ user_turns = [r \in Rows |-> 0]
  /\ calls = [r \in Rows |-> <<>>]
  /\ weights = [w \in Workers |-> [s \in Servers |-> 0]] /\ cache = [w \in Workers |-> <<>>]
  /\ served = [r \in Rows |-> {}] /\ output = [r \in Rows |-> NoOutput]

At(r, state) == batch = "running" /\ pc[r] = state

\* _truncate_prompt_ids, which is applied to prompts and to what tools and users say: a
\* validation has a limit of its own, or none.
PromptLimit == IF config.validate THEN config.val_prompt_length ELSE PromptLength
TooLong(n) == PromptLimit # NoLimit /\ n > PromptLimit
Refused(n) == TooLong(n) /\ config.truncation = "error"
Truncated(n) == IF TooLong(n) THEN PromptLimit ELSE n

Pending(r) ==
  /\ At(r, "pending")
  /\ IF Refused(PromptLens[r])
       THEN batch' = "failed" /\ UNCHANGED <<pc, prompt>>
       ELSE /\ prompt' = [prompt EXCEPT ![r] = Truncated(PromptLens[r])]
            /\ pc' = [pc EXCEPT ![r] = "generating"] /\ UNCHANGED batch
  /\ UNCHANGED <<config, assistant_turns, user_turns, calls, output>>
  /\ UNCHANGED <<history, balance>>

----------------------------------------------------------------------------
\* Mutant: a server is chosen for every turn.
FreshSession(r) == {}

\* The row's place in its worker's cache, if it has one.
Session(r) == {i \in DOMAIN cache[WorkerOf[r]] : cache[WorkerOf[r]][i].row = r}

\* The root of the heap: of the servers with the fewest sessions the first.
IsLeastLoaded(w, s) ==
  \A t \in Servers : weights[w][s] < weights[w][t] \/ (weights[w][s] = weights[w][t] /\ s <= t)

\* Mutant: the heap is left with its old root.
CountForgotten(w, s) == weights

Counted(w, s) == [weights EXCEPT ![w][s] = @ + 1]

\* _choose_server: that of the session, else the one with the fewest; the cache forgets
\* the session that was used the longest ago.
Choose(r, s) ==
  LET w == WorkerOf[r] IN
  \/ \E i \in Session(r) :
       /\ s = cache[w][i].server
       /\ cache' = [cache EXCEPT ![w] = Append(RemoveAt(@, i), @[i])]
       /\ UNCHANGED weights
  \/ /\ Session(r) = {} /\ IsLeastLoaded(w, s)
     /\ weights' = Counted(w, s)
     /\ LET grown == Append(cache[w], [row |-> r, server |-> s]) IN
        cache' = [cache EXCEPT ![w] = IF Len(grown) > CacheSize THEN Tail(grown) ELSE grown]

\* The tokens a turn may have, as a server determines them; it refuses to generate none.
MaxTokens(r) ==
  Smaller(IF config.validate /\ config.val_response_length # NoLimit
            THEN config.val_response_length ELSE ResponseLength,
          MaxModelLen - prompt[r] - Len(tokens[r]))

Ask(r) ==
  /\ At(r, "generating")
  /\ \E s \in Servers : Choose(r, s) /\ served' = [served EXCEPT ![r] = @ \cup {s}]
  /\ IF MaxTokens(r) > 0
       THEN pc' = [pc EXCEPT ![r] = "asked"] /\ UNCHANGED batch
       ELSE batch' = "failed" /\ UNCHANGED pc
  /\ UNCHANGED <<config, prompt, assistant_turns, user_turns, calls, output>> /\ UNCHANGED history

\* Mutant: what others say gets no log-probabilities.
LogProbsOfModel(r, author, n) ==
  IF author = "model" /\ config.log_probs
    THEN [response_logprobs EXCEPT ![r] = @ \o Filled(n, author)] ELSE response_logprobs

\* The log-probabilities of the model's tokens, and zeros for those of others.
LogProbs(r, author, n) ==
  IF (author = "model" /\ config.log_probs) \/ response_logprobs[r] # <<>>
    THEN [response_logprobs EXCEPT ![r] = @ \o Filled(n, author)] ELSE response_logprobs

Say(r, author, n) ==
  /\ tokens' = [tokens EXCEPT ![r] = @ \o Filled(n, author)]
  /\ response_mask' = [response_mask EXCEPT ![r] = @ \o Filled(n, IF author = "model" THEN 1 ELSE 0)]
  /\ response_logprobs' = LogProbs(r, author, n)

\* Whether the turn is the last, at the lengths and turns reached.
Stops(length, assistant, user) ==
  \/ length >= ResponseLength
  \/ MaxAssistantTurns # 0 /\ assistant >= MaxAssistantTurns
  \/ MaxUserTurns # 0 /\ user >= MaxUserTurns

\* A turn is generated, with calls of tools or without.
Answer(r) ==
  /\ At(r, "asked")
  /\ \E n \in {k \in TurnLens : k <= MaxTokens(r)} \cup {MaxTokens(r)} : Say(r, "model", n)
  /\ assistant_turns' = [assistant_turns EXCEPT ![r] = @ + 1]
  /\ IF Stops(Len(response_mask'[r]), assistant_turns'[r], user_turns[r])
       THEN pc' = [pc EXCEPT ![r] = "terminated"] /\ UNCHANGED calls
       ELSE \E n \in 0 .. MaxCalls :
              /\ calls' = [calls EXCEPT ![r] = Filled(Smaller(n, MaxParallelCalls), "called")]
              /\ pc' = [pc EXCEPT ![r] = IF n > 0 THEN "calling"
                                         ELSE IF config.interaction THEN "interacting"
                                         ELSE "terminated"]
  /\ UNCHANGED <<config, batch, prompt, user_turns, output>> /\ UNCHANGED balance

----------------------------------------------------------------------------
\* _call_tool: a tool's instance is created, executed and released, whether or not the
\* execution raises; what it raises, or what prevents its creation, is its response.
CallStep(r, i) ==
  /\ At(r, "calling")
  /\ \/ calls[r][i] = "called" /\ \E c \in {"created", "answered"} : calls' = [calls EXCEPT ![r][i] = c]
     \/ calls[r][i] = "created" /\ calls' = [calls EXCEPT ![r][i] = "executed"]
     \/ calls[r][i] = "executed" /\ calls' = [calls EXCEPT ![r][i] = "answered"]
  /\ UNCHANGED <<config, batch, pc, prompt, assistant_turns, user_turns, output>>
  /\ UNCHANGED <<history, balance>>

\* Mutant: what a tool says is taken whatever its length.
AlwaysFits(r, n) == TRUE

Fits(r, n) == Len(response_mask[r]) + n < ResponseLength

\* All calls are answered: the responses are added, or end the loop.
ToolsAnswer(r) ==
  /\ At(r, "calling") /\ \A i \in DOMAIN calls[r] : calls[r][i] = "answered"
  /\ \E n \in TextLens :
       IF Refused(n)
         THEN batch' = "failed" /\ UNCHANGED <<pc, user_turns>> /\ UNCHANGED history
       ELSE IF ~Fits(r, Truncated(n))
         THEN pc' = [pc EXCEPT ![r] = "terminated"] /\ UNCHANGED <<batch, user_turns>> /\ UNCHANGED history
         ELSE /\ Say(r, "tool", Truncated(n))
              /\ user_turns' = [user_turns EXCEPT ![r] = @ + 1]
              /\ pc' = [pc EXCEPT ![r] = "generating"] /\ UNCHANGED batch
  /\ calls' = [calls EXCEPT ![r] = <<>>]
  /\ UNCHANGED <<config, prompt, assistant_turns, output>> /\ UNCHANGED balance

\* The simulated user answers, at whatever length, and may end the loop.
Interact(r) ==
  /\ At(r, "interacting")
  /\ user_turns' = [user_turns EXCEPT ![r] = @ + 1]
  /\ \E n \in TextLens, next \in {"generating", "terminated"} :
       IF Refused(n)
         THEN batch' = "failed" /\ UNCHANGED pc /\ UNCHANGED history
         ELSE Say(r, "user", Truncated(n)) /\ pc' = [pc EXCEPT ![r] = next] /\ UNCHANGED batch
  /\ UNCHANGED <<config, prompt, assistant_turns, calls, output>> /\ UNCHANGED balance

----------------------------------------------------------------------------
Cut(s) == SubSeq(s, 1, Smaller(Len(s), ResponseLength))

\* The response is what is as long as the mask at the end of prompt_ids.
Response(r) ==
  LET prompt_ids == Filled(prompt[r], "prompt") \o tokens[r] IN
  SubSeq(prompt_ids, Len(prompt_ids) - Len(response_mask[r]) + 1, Len(prompt_ids))

Finish(r) ==
  /\ At(r, "terminated")
  /\ output' = [output EXCEPT ![r] =
       [response_ids |-> Cut(Response(r)), response_mask |-> Cut(response_mask[r]),
        response_logprobs |-> Cut(response_logprobs[r])]]
  /\ pc' = [pc EXCEPT ![r] = "done"]
  /\ UNCHANGED <<config, batch, prompt, assistant_turns, user_turns, calls>>
  /\ UNCHANGED <<history, balance>>

\* The width of a row: it is padded to the response length of its kind of batch.
Width(r) ==
  LET padded == IF config.validate /\ config.val_response_length # NoLimit
                  THEN config.val_response_length ELSE ResponseLength
      length == Len(output[r].response_ids)
  IN  IF length > padded THEN length ELSE padded

\* All rows are concatenated, which takes rows of one width.
Return ==
  /\ batch = "running" /\ \A r \in Rows : pc[r] = "done"
  /\ batch' = IF \A q, r \in Rows : Width(q) = Width(r) THEN "returned" ELSE "failed"
  /\ UNCHANGED <<config, pc, prompt, assistant_turns, user_turns, calls, output>>
  /\ UNCHANGED <<history, balance>>

RowStep(r) ==
  \/ Pending(r) \/ Ask(r) \/ Answer(r) \/ ToolsAnswer(r) \/ Interact(r) \/ Finish(r)
  \/ \E i \in DOMAIN calls[r] : CallStep(r, i)

Next == Return \/ \E r \in Rows : RowStep(r)

\* Servers and tools answer: as no step can be repeated, that some row goes on is enough.
Spec == Init /\ [][Next]_vars /\ WF_vars(Next)

----------------------------------------------------------------------------
Authors == {"model", "tool", "user"}

TypeOK ==
  /\ config \in Configs /\ batch \in {"running", "returned", "failed"}
  /\ pc \in [Rows -> {"pending", "generating", "asked", "calling", "interacting", "terminated", "done"}]
  /\ prompt \in [Rows -> Nat] /\ assistant_turns \in [Rows -> Nat] /\ user_turns \in [Rows -> Nat]
  /\ tokens \in [Rows -> Seq(Authors)] /\ response_mask \in [Rows -> Seq({0, 1})]
  /\ response_logprobs \in [Rows -> Seq(Authors)]
  /\ calls \in [Rows -> Seq({"called", "created", "executed", "answered"})]
  /\ served \in [Rows -> SUBSET Servers]
  /\ weights \in [Workers -> [Servers -> Nat]]
  /\ cache \in [Workers -> Seq([row : Rows, server : Servers])]
  /\ output \in [Rows -> [response_ids : Seq(Authors), response_mask : Seq({0, 1}),
                         response_logprobs : Seq(Authors)]]

\* What is returned of a row is at most as long as a response may be and holds nothing of
\* its prompt; its mask marks the model's tokens, and its log-probabilities are those of
\* the same tokens.
RowsIntact ==
  \A r \in Rows : pc[r] = "done" =>
    LET o == output[r] IN
    /\ Len(o.response_ids) = Len(o.response_mask) /\ Len(o.response_ids) <= ResponseLength
    /\ \A i \in DOMAIN o.response_ids :
         /\ o.response_ids[i] \in Authors
         /\ (o.response_mask[i] = 1) = (o.response_ids[i] = "model")
    /\ o.response_logprobs = IF config.log_probs THEN o.response_ids ELSE <<>>

\* Sticky sessions, and least requests: all turns of a row go to one server, unless the
\* worker has more rows than its cache holds, and the sessions a worker has given to its
\* servers differ by at most one even then.
SessionsBalanced ==
  /\ \A r \in Rows :
       Cardinality({q \in Rows : WorkerOf[q] = WorkerOf[r]}) <= CacheSize =>
         Cardinality(served[r]) <= 1
  /\ \A w \in Workers : \A s, t \in Servers : weights[w][s] <= weights[w][t] + 1

\* Without a simulated user, and with truncation of what is too long, a batch of training
\* never fails, however long the tools' responses are; a validation fails only if its
\* responses are to be shorter than the training's.  (All rows then have one width, and no
\* server is asked for a turn that leaves no room in max_model_len.)
FailsIfUnsupported ==
  batch = "failed" =>
    \/ config.interaction \/ config.truncation = "error"
    \/ config.validate /\ config.val_response_length \in 1 .. ResponseLength - 1

\* The batch comes to an end.
Ended == batch # "running"

\* What the servers say of validation, that it can request a longer response length while
\* training keeps the default: what is generated in a single turn is all returned.
ValidationLonger ==
  \A r \in Rows : pc[r] = "done" /\ assistant_turns[r] = 1 =>
    Len(output[r].response_ids) = Len(response_mask[r])

\* The batch of a training with a simulated user does not fail either.
Interacts == config.interaction /\ ~config.validate /\ config.truncation = "left" => batch # "failed"
=============================================================================
