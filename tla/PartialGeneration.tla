------------------------- MODULE PartialGeneration -------------------------
(***************************************************************************)
(* Interruptible generation: the agent loops of one rollout sample, the    *)
(* worker that runs them, the vLLM servers that generate for them, and the *)
(* pause and resume of the rollouter around a change of weights.  Between  *)
(* pause() and resume() the rollouter's lock is free but for               *)
(* update_param_version, and its monitor, which had looked before the      *)
(* pause, may let the processor submit.                                    *)
(*                                                                         *)
(* A token is the version of the weights that generated it, or ToolToken.  *)
(* The model is a script: turns of TurnLen tokens, a tool call in the      *)
(* tokens from CallStart on of each of the first Calls turns.              *)
(***************************************************************************)
EXTENDS Integers, Sequences, SequencesExt

CONSTANTS
  Loops,           \* the rollout.n agent loops of the sample
  Servers,         \* the rollout replicas
  MultiTurn,       \* the tool agent loop, or the single turn one
  TurnLen, CallStart, Calls, ToolLen,
  ResponseLength,  \* rollout.response_length
  MaxTurns,        \* multi_turn.max_assistant_turns; 0 is no limit
  MaxTokens,       \* response tokens the server's max_model_len leaves room for
  MaxVersion       \* bound on parameter synchronizations

PartialGenerationAssumption ==
  /\ {TurnLen, CallStart, ToolLen, ResponseLength, MaxTokens} \subseteq Nat \ {0}
  /\ {Calls, MaxTurns, MaxVersion} \subseteq Nat
  /\ CallStart <= TurnLen /\ ResponseLength <= MaxTokens
  /\ MultiTurn \in BOOLEAN /\ "worker" \notin Servers

VARIABLES
  data,       \* agent_data of each loop, with the loop's state
  call,       \* where each loop is: "out" of the worker, at the top of its "loop",
              \* its request "sent", or "generating"
  server,     \* the server the loop's last request went to
  paused,     \* of each server
  event,      \* cancel_event of each server: "none", "clear" or "set" of each loop
  output,     \* req_output: the tokens of the running request
  cancelled,  \* the worker's cancellation_event
  phase,      \* the synchronization: "run", "cancel" (in pause()), "paused", weights "moved",
              \* version "updated", "resume" (in resume())
  told,       \* the servers and the worker that cancel() or resume() has reached
  version,    \* the weights the servers hold
  generated   \* history: tokens generated for each loop

control == <<paused, cancelled, phase, told, version>>
vars == <<data, call, server, paused, event, output, cancelled, phase, told, version, generated>>

ToolToken == -1
Replicate(n, x) == [i \in 1..n |-> x]

Finished(l) == data[l].state = "terminated"

Fresh == [state |-> "none", ids |-> <<>>, mask |-> <<>>, logprobs |-> 0, chunk |-> 0,
          assistant |-> 0, user |-> 0, start |-> 0, end |-> 0,
          stamp |-> 0,         \* param_version of the sample, at its last submission
          between |-> FALSE]   \* history: which was after pause(), before the version's update

Init ==
  /\ data = [l \in Loops |-> Fresh]
  /\ call = [l \in Loops |-> "out"]
  /\ server \in [Loops -> Servers]
  /\ paused = [s \in Servers |-> FALSE]
  /\ event = [s \in Servers |-> [l \in Loops |-> "none"]]
  /\ output = [l \in Loops |-> <<>>]
  /\ cancelled = FALSE
  /\ phase = "run" /\ told = {} /\ version = 0
  /\ generated = [l \in Loops |-> 0]

-----------------------------------------------------------------------------
(* The script *)

\* Tokens of the turn that the response ends in.
InTurn(ids) ==
  LET tools == {i \in DOMAIN ids : ids[i] = ToolToken}
  IN  IF tools = {} THEN Len(ids) ELSE Len(ids) - Max(tools)

\* extract_tool_calls(response_ids): a call is found when the last chunk has it whole.
HasCall(d) ==
  /\ d.user < Calls
  /\ InTurn(d.ids) - d.chunk < CallStart

-----------------------------------------------------------------------------
(* The agent loops *)

Unfinished == {l \in Loops : ~Finished(l)}

\* The rollouter's current_param_version: behind the servers' weights until
\* update_param_version.
CurrentParamVersion == IF phase = "moved" THEN version - 1 ELSE version

\* What a loop starts with: the saved agent_data, or from scratch.
FromSaved(d) ==
  IF d.state # "none" THEN d
    ELSE [d EXCEPT !.state = "pending", !.start = CurrentParamVersion,
                   !.end = CurrentParamVersion]

\* The processor takes the sample from the pending or the cancel queue, and a
\* worker starts its loops that are not finished.  The processor needs the lock, which
\* pause(), update_param_version and resume() hold while they run.
Submit ==
  /\ phase \in {"run", "paused", "moved", "updated"}
  /\ \E l \in Loops : ~Finished(l)
  /\ \A l \in Loops : call[l] = "out"
  /\ call' = [l \in Loops |-> IF l \in Unfinished THEN "loop" ELSE "out"]
  /\ data' = [l \in Loops |->
       IF Finished(l) THEN data[l]
         ELSE [FromSaved(data[l]) EXCEPT !.stamp = CurrentParamVersion,
                                         !.between = phase \in {"paused", "moved"}]]
  /\ UNCHANGED <<server, event, output, generated, control>>

\* Mutant: the versions of the first submission are kept.
StampedOnce(d) == d

\* A loop that terminates is stamped with the version it was submitted with.
Stamped(d) == IF d.state = "terminated" THEN [d EXCEPT !.end = d.stamp] ELSE d

\* Mutant: the cancellation event is not looked at.
NeverStops == FALSE

\* The state machine stops at the top of its loop. The single turn loop does not look.
Stops == MultiTurn /\ cancelled

Interrupted(l) ==
  /\ call[l] = "loop" /\ Stops
  /\ call' = [call EXCEPT ![l] = "out"]
  /\ UNCHANGED <<data, server, event, output, generated, control>>

Runs(l, state) == call[l] = "loop" /\ ~Stops /\ data[l].state = state

HandlePending(l) ==
  /\ Runs(l, "pending")
  /\ data' = [data EXCEPT ![l].state = "generating"]
  /\ UNCHANGED <<call, server, event, output, generated, control>>

\* _choose_server and the remote call.
Request(l) ==
  /\ Runs(l, "generating")
  /\ \E s \in Servers : server' = [server EXCEPT ![l] = s]
  /\ call' = [call EXCEPT ![l] = "sent"]
  /\ UNCHANGED <<data, event, output, generated, control>>

\* Mutant: the part generated before the interruption is forgotten.
AppendWhole(d, tokens, cancel) ==
  IF cancel THEN [d EXCEPT !.chunk = 0] ELSE
    [d EXCEPT !.chunk = Len(tokens), !.ids = @ \o tokens,
              !.mask = @ \o Replicate(Len(tokens), 1), !.logprobs = @ + Len(tokens)]

\* The tokens of a reply, whole or interrupted, go to prompt_ids, response_mask and
\* response_logprobs; response_ids is this chunk only.
AppendReply(d, tokens, cancel) ==
  [d EXCEPT !.chunk = Len(tokens), !.ids = @ \o tokens,
            !.mask = @ \o Replicate(Len(tokens), 1), !.logprobs = @ + Len(tokens)]

TooLong(d) == Len(d.mask) >= ResponseLength

\* _handle_generating_state_partial, after the reply.
NextState(d, cancel) ==
  CASE TooLong(d) -> "terminated"
    [] cancel /\ ~TooLong(d) -> "generating"
    [] OTHER -> IF MultiTurn /\ (MaxTurns = 0 \/ d.assistant < MaxTurns) /\ HasCall(d)
                  THEN "processing_tools" ELSE "terminated"

HandleReply(d, tokens, cancel) ==
  LET a == AppendReply(d, tokens, cancel)
      b == [a EXCEPT !.assistant = @ + (IF cancel /\ ~TooLong(a) THEN 0 ELSE 1)]
  IN  Stamped([b EXCEPT !.state = NextState(b, cancel)])

\* Mutant: the tool's response is not masked.
MaskTrained == 1

\* Tool tokens are in the mask, but not trained on.
MaskTool == 0

\* _handle_processing_tools_state: a response that reaches response_length is not
\* appended, and ends the loop.
HandleTools(d) ==
  IF Len(d.mask) + ToolLen >= ResponseLength
    THEN Stamped([d EXCEPT !.state = "terminated"])
    ELSE [d EXCEPT !.state = "generating", !.user = @ + 1,
                   !.ids = @ \o Replicate(ToolLen, ToolToken),
                   !.mask = @ \o Replicate(ToolLen, MaskTool),
                   !.logprobs = IF @ = 0 THEN 0 ELSE @ + ToolLen]

ProcessTools(l) ==
  /\ Runs(l, "processing_tools")
  /\ data' = [data EXCEPT ![l] = HandleTools(@)]
  /\ call' = [call EXCEPT ![l] = IF data'[l].state = "terminated" THEN "out" ELSE "loop"]
  /\ UNCHANGED <<server, event, output, generated, control>>

\* Where a loop is after a reply: the single turn loop returns whatever it got.
AfterReply(d) == IF d.state = "terminated" \/ ~MultiTurn THEN "out" ELSE "loop"

Reply(l, tokens, cancel) ==
  /\ data' = [data EXCEPT ![l] = HandleReply(@, tokens, cancel)]
  /\ call' = [call EXCEPT ![l] = AfterReply(data'[l])]

-----------------------------------------------------------------------------
(* A server: generate_for_partial, and the engine behind it *)

\* Mutant: the event a request left behind is used again.
RegisteredAgain(e) == IF e = "none" THEN "clear" ELSE e

\* A request has an event of its own, whatever an earlier one left.
Registered(e) == "clear"

\* A paused server returns at once, with no tokens.
Receive(l) ==
  /\ call[l] = "sent"
  /\ output' = [output EXCEPT ![l] = <<>>]
  /\ IF paused[server[l]]
       THEN Reply(l, <<>>, TRUE) /\ UNCHANGED event
       ELSE /\ call' = [call EXCEPT ![l] = "generating"]
            /\ event' = [event EXCEPT ![server[l]][l] = Registered(@)]
            /\ UNCHANGED data
  /\ UNCHANGED <<server, generated, control>>

\* Mutant: one token of room too many.
EngineDoneLate(l) ==
  \/ InTurn(data[l].ids) + Len(output[l]) = TurnLen
  \/ Len(data[l].ids) + Len(output[l]) > MaxTokens

\* The request is over: the end of the turn, or no room for more.
EngineDone(l) ==
  \/ InTurn(data[l].ids) + Len(output[l]) = TurnLen
  \/ Len(data[l].ids) + Len(output[l]) = MaxTokens

Generate(l) ==
  /\ call[l] = "generating" /\ ~EngineDone(l)
  /\ output' = [output EXCEPT ![l] = Append(@, version)]
  /\ generated' = [generated EXCEPT ![l] = @ + 1]
  /\ UNCHANGED <<data, call, server, event, control>>

\* The generation is done first, or its event is set first. Without any output the
\* early return leaves the event registered.
Return(l) ==
  /\ call[l] = "generating"
  /\ EngineDone(l) \/ event[server[l]][l] = "set"
  /\ Reply(l, output[l], ~EngineDone(l))
  /\ event' = IF output[l] = <<>> THEN event ELSE [event EXCEPT ![server[l]][l] = "none"]
  /\ output' = [output EXCEPT ![l] = <<>>]
  /\ UNCHANGED <<server, generated, control>>

-----------------------------------------------------------------------------
(* pause() and resume() of the rollouter, which reach every server and the *)
(* worker in any order                                                     *)

PauseStarts ==
  /\ phase = "run" /\ version < MaxVersion
  /\ phase' = "cancel" /\ told' = {}
  /\ UNCHANGED <<data, call, server, paused, event, output, cancelled, version, generated>>

\* Mutant: only new requests are refused.
NotSet(e) == e

Set(e) == IF e = "none" THEN "none" ELSE "set"

CancelServer(s) ==
  /\ phase = "cancel" /\ s \notin told
  /\ told' = told \cup {s}
  /\ paused' = [paused EXCEPT ![s] = TRUE]
  /\ event' = [event EXCEPT ![s] = [l \in Loops |-> Set(@[l])]]
  /\ UNCHANGED <<data, call, server, output, cancelled, phase, version, generated>>

CancelWorker ==
  /\ phase = "cancel" /\ "worker" \notin told
  /\ told' = told \cup {"worker"}
  /\ cancelled' = TRUE
  /\ UNCHANGED <<data, call, server, paused, event, output, phase, version, generated>>

\* Mutant: the weights change as soon as everyone has been told.
AllTold == told = Servers \cup {"worker"}

\* cancel() is over, and every active task has returned.
AllReturned == told = Servers \cup {"worker"} /\ \A l \in Loops : call[l] = "out"

PauseEnds ==
  /\ phase = "cancel" /\ AllReturned
  /\ phase' = "paused"
  /\ UNCHANGED <<data, call, server, paused, event, output, cancelled, told, version, generated>>

\* sync_weights: the servers have the new weights.
Synchronize ==
  /\ phase = "paused"
  /\ phase' = "moved" /\ version' = version + 1
  /\ UNCHANGED <<data, call, server, paused, event, output, cancelled, told, generated>>

UpdateParamVersion ==
  /\ phase = "moved"
  /\ phase' = "updated"
  /\ UNCHANGED <<data, call, server, paused, event, output, cancelled, told, version, generated>>

ResumeStarts ==
  /\ phase = "updated"
  /\ phase' = "resume" /\ told' = {}
  /\ UNCHANGED <<data, call, server, paused, event, output, cancelled, version, generated>>

ResumeServer(s) ==
  /\ phase = "resume" /\ s \notin told
  /\ told' = told \cup {s}
  /\ paused' = [paused EXCEPT ![s] = FALSE]
  /\ UNCHANGED <<data, call, server, event, output, cancelled, phase, version, generated>>

\* Mutant: the worker's event is never cleared.
StaysCancelled == TRUE

Cleared == FALSE

ResumeWorker ==
  /\ phase = "resume" /\ "worker" \notin told
  /\ told' = told \cup {"worker"}
  /\ cancelled' = Cleared
  /\ UNCHANGED <<data, call, server, paused, event, output, phase, version, generated>>

Resumed ==
  /\ phase = "resume" /\ told = Servers \cup {"worker"}
  /\ phase' = "run"
  /\ UNCHANGED <<data, call, server, paused, event, output, cancelled, told, version, generated>>

LoopStep(l) ==
  \/ Interrupted(l) \/ HandlePending(l) \/ Request(l) \/ ProcessTools(l)
  \/ Receive(l) \/ Generate(l) \/ Return(l)

Control ==
  \/ \E s \in Servers : CancelServer(s) \/ ResumeServer(s)
  \/ CancelWorker \/ PauseEnds \/ Synchronize \/ UpdateParamVersion
  \/ ResumeStarts \/ ResumeWorker \/ Resumed

Done == /\ phase = "run" /\ \A l \in Loops : Finished(l) /\ call[l] = "out"
        /\ UNCHANGED vars

Next == Submit \/ PauseStarts \/ Control \/ (\E l \in Loops : LoopStep(l)) \/ Done

\* The event loops of worker, servers and rollouter run whatever is ready; an engine
\* generates what it was asked for. Nobody has to start a pause.
Spec == /\ Init /\ [][Next]_vars
        /\ WF_vars(Submit) /\ WF_vars(Control)
        /\ \A l \in Loops : WF_vars(LoopStep(l))

-----------------------------------------------------------------------------
Versions == 0..MaxVersion

\* Every variable has its type, and no response outgrows the server's context.
TypeOK ==
  /\ \A l \in Loops :
       /\ data[l].state \in {"none", "pending", "generating", "processing_tools", "terminated"}
       /\ data[l].ids \in Seq(Versions \cup {ToolToken}) /\ data[l].mask \in Seq({0, 1})
       /\ output[l] \in Seq(Versions)
       /\ Len(data[l].ids) + Len(output[l]) <= MaxTokens
  /\ call \in [Loops -> {"out", "loop", "sent", "generating"}]
  /\ server \in [Loops -> Servers]
  /\ paused \in [Servers -> BOOLEAN] /\ cancelled \in BOOLEAN
  /\ event \in [Servers -> [Loops -> {"none", "clear", "set"}]]
  /\ phase \in {"run", "cancel", "paused", "moved", "updated", "resume"}
  /\ told \subseteq Servers \cup {"worker"}
  /\ version \in Versions

ModelTokens(ids) == {i \in DOMAIN ids : ids[i] # ToolToken}

\* Over any number of interruptions the response, its mask and its log-probabilities
\* stay aligned, and the mask has exactly the tokens the model generated: what a
\* loss computed with them needs.
MaskMarksModelTokens ==
  \A l \in Loops :
    LET d == data[l] IN
      /\ Len(d.mask) = Len(d.ids) /\ d.logprobs = Len(d.ids)
      /\ {i \in DOMAIN d.mask : d.mask[i] = 1} = ModelTokens(d.ids)

\* No token is generated twice or lost: what was generated before an interruption is
\* in the response that is resumed.
NothingRegenerated ==
  \A l \in Loops :
    generated[l] = Cardinality(ModelTokens(data[l].ids)) + Len(output[l])

\* A running request has its own cancel event, and that is set exactly while its
\* server is paused: cancel() misses no request, and an event left behind by an
\* earlier request cancels no later one.
CancelledWhilePaused ==
  \A l \in Loops : call[l] = "generating" =>
    LET s == server[l] IN event[s][l] = IF paused[s] THEN "set" ELSE "clear"

\* No request is running over a change of weights.
OneVersionPerRequest ==
  \A l \in Loops : \A i \in DOMAIN output[l] : output[l][i] = version

\* param_version_start and param_version_end of a finished loop cover every version
\* its tokens come from.  Only if it was submitted last between pause() and
\* update_param_version may its tokens be newer than the end, by one version.
StampsCoverTokens ==
  \A l \in Loops : Finished(l) =>
    \A i \in ModelTokens(data[l].ids) :
      data[l].ids[i] \in data[l].start .. data[l].end + (IF data[l].between THEN 1 ELSE 0)

\* A turn that ended in a tool call is answered, unless a limit ends the loop.
ToolCallsAnswered ==
  \A l \in Loops :
    (Finished(l) /\ MaxTurns = 0 /\ Len(data[l].ids) + ToolLen < ResponseLength)
      => data[l].user = Calls

\* A pause always gets to the change of weights.
PauseCompletes == phase = "cancel" ~> phase = "resume"

SampleFinished == \A l \in Loops : Finished(l) /\ call[l] = "out"

\* The sample is finished, however it was interrupted.
SampleFinishes == <>SampleFinished
=============================================================================
