----------------------------- MODULE RewardLoop -----------------------------
(***************************************************************************)
(* Scoring a batch with a reward model (reward_loop.py): the manager wakes *)
(* the model's replicas up, a task for each response posts it to the       *)
(* router (naive_router.py), which forwards it to the replica it has the   *)
(* fewest requests for, and the replicas sleep again.  Both the task and   *)
(* the router retry, after delays that are left out.  A replica answers,   *)
(* with a score or with nothing the task finds one in, rejects a malformed *)
(* request, or fails; it is left out that it may never do either, for      *)
(* which neither the task nor the router has a timeout, and that the       *)
(* connection between the two may fail.                                    *)
(***************************************************************************)
EXTENDS Naturals, FiniteSets

CONSTANTS Requests,      \* one of each response
          NumReplicas,   \* of the reward model, in the order of the router's worker_urls
          MaxAttempts,   \* of the router, to send a request
          MaxRetries,    \* of a task, to post it
          Malformed,     \* the requests that may be malformed
          MaxFaults      \* bound on the failures of replicas and of their connections

RewardLoopAssumption ==
  /\ IsFiniteSet(Requests) /\ Malformed \subseteq Requests
  /\ NumReplicas \in Nat \ {0}
  /\ MaxAttempts \in Nat \ {0} /\ MaxRetries \in Nat \ {0} /\ MaxFaults \in Nat

Replicas == 1 .. NumReplicas

VARIABLES
  phase,          \* of the manager
  malformed,      \* the requests that are
  pc,             \* of a request
  worker,         \* the replica the router has selected for it
  attempt,        \* the router's, from 0
  posts,          \* the task's, from 0
  sent,           \* history: how often replicas were sent it
  request_counts, \* the router's
  awake,          \* whether the replicas are
  faults

vars == <<phase, malformed, pc, worker, attempt, posts, sent, request_counts, awake, faults>>

Init ==
  /\ phase = "start" /\ malformed = {} /\ awake = FALSE /\ faults = 0
  /\ pc = [q \in Requests |-> "none"] /\ worker = [q \in Requests |-> 1]
  /\ attempt = [q \in Requests |-> 0] /\ posts = [q \in Requests |-> 0]
  /\ sent = [q \in Requests |-> 0]
  /\ request_counts = [w \in Replicas |-> 0]

\* compute_rm_score begins.
WakeUp ==
  /\ phase = "start" /\ phase' = "scoring"
  /\ malformed' \in SUBSET Malformed
  /\ awake' = TRUE
  /\ pc' = [q \in Requests |-> "post"]
  /\ UNCHANGED <<worker, attempt, posts, sent, request_counts, faults>>

\* Mutant: the last one chosen is chosen again.
IsBusiest(w) == \A v \in Replicas : request_counts[v] <= request_counts[w]

\* What min takes of request_counts: the first of the least loaded.
IsLeastLoaded(w) ==
  \A v \in Replicas : \/ request_counts[w] < request_counts[v]
                      \/ request_counts[w] = request_counts[v] /\ w <= v

\* A task posts a request; the router selects a replica for it.
Select(q) ==
  /\ pc[q] = "post"
  /\ \E w \in Replicas :
       /\ IsLeastLoaded(w)
       /\ worker' = [worker EXCEPT ![q] = w]
       /\ request_counts' = [request_counts EXCEPT ![w] = @ + 1]
  /\ attempt' = [attempt EXCEPT ![q] = 0]
  /\ pc' = [pc EXCEPT ![q] = "send"]
  /\ UNCHANGED <<phase, malformed, posts, sent, awake, faults>>

\* The router sends it, to the replica it has selected before if it is sent again.
Send(q) ==
  /\ pc[q] = "send"
  /\ pc' = [pc EXCEPT ![q] = "sent"]
  /\ sent' = [sent EXCEPT ![q] = @ + 1]
  /\ UNCHANGED <<phase, malformed, worker, attempt, posts, request_counts, awake, faults>>

\* The replica has scored it.
Answer(q) ==
  /\ pc[q] = "sent" /\ q \notin malformed
  /\ request_counts' = [request_counts EXCEPT ![worker[q]] = IF @ > 0 THEN @ - 1 ELSE 0]
  /\ pc' = [pc EXCEPT ![q] = "scored"]
  /\ UNCHANGED <<phase, malformed, worker, attempt, posts, sent, awake, faults>>

\* The answer is empty, or the connection breaks while the router reads it: the router
\* makes {} of it, releases the replica and answers 200, and the task looks for a score in
\* it behind the loop that would post it again.
EmptyAnswer(q) ==
  /\ pc[q] = "sent" /\ q \notin malformed /\ faults < MaxFaults
  /\ faults' = faults + 1
  /\ request_counts' = [request_counts EXCEPT ![worker[q]] = IF @ > 0 THEN @ - 1 ELSE 0]
  /\ pc' = [pc EXCEPT ![q] = "unscored"]
  /\ UNCHANGED <<phase, malformed, worker, attempt, posts, sent, awake>>

\* Mutant: the router tells the task what the replica told it.
StatusPassedOn(status) == status

\* What the task gets of an HTTP error that the router has raised.
StatusOfError(status) == 500

\* Mutant: it always posts again.
PostsAlways(q, status) == status >= 500

\* Whether the task posts it again.
PostsAgain(q, status) == status >= 500 /\ posts[q] < MaxRetries - 1

\* A post has failed; the router has not released the replica.
PostFails(q, status) ==
  /\ pc' = [pc EXCEPT ![q] = IF PostsAgain(q, StatusOfError(status)) THEN "post" ELSE "failed"]
  /\ posts' = [posts EXCEPT ![q] = IF PostsAgain(q, StatusOfError(status)) THEN @ + 1 ELSE @]

\* The replica rejects a malformed request, or fails with a status.
ErrorStatus(q) ==
  /\ pc[q] = "sent"
  /\ \/ q \in malformed /\ PostFails(q, 400) /\ UNCHANGED faults
     \/ faults < MaxFaults /\ PostFails(q, 503) /\ faults' = faults + 1
  /\ UNCHANGED <<phase, malformed, worker, attempt, sent, request_counts, awake>>

\* The connection to the replica fails before there is an answer to read.
ConnectionFails(q) ==
  /\ pc[q] = "sent" /\ faults < MaxFaults
  /\ faults' = faults + 1
  /\ IF attempt[q] = MaxAttempts - 1
       THEN PostFails(q, 500) /\ UNCHANGED attempt
       ELSE /\ attempt' = [attempt EXCEPT ![q] = @ + 1]
            /\ pc' = [pc EXCEPT ![q] = "send"]
            /\ UNCHANGED posts
  /\ UNCHANGED <<phase, malformed, worker, sent, request_counts, awake>>

\* compute_rm_score has all scores.
Sleep ==
  /\ phase = "scoring" /\ \A q \in Requests : pc[q] = "scored"
  /\ phase' = "returned" /\ awake' = FALSE
  /\ UNCHANGED <<malformed, pc, worker, attempt, posts, sent, request_counts, faults>>

\* A task has failed: compute_rm_score raises, while the other tasks go on.
Raise ==
  /\ phase = "scoring" /\ \E q \in Requests : pc[q] \in {"failed", "unscored"}
  /\ phase' = "raised"
  /\ UNCHANGED <<malformed, pc, worker, attempt, posts, sent, request_counts, awake, faults>>

Serve(q) ==
  \/ Select(q) \/ Send(q)
  \/ Answer(q) \/ EmptyAnswer(q) \/ ErrorStatus(q) \/ ConnectionFails(q)

Next == WakeUp \/ Sleep \/ Raise \/ \E q \in Requests : Serve(q)

\* A replica answers or fails in the end.
Spec == /\ Init /\ [][Next]_vars
        /\ WF_vars(WakeUp \/ Sleep \/ Raise)
        /\ \A q \in Requests : WF_vars(Serve(q))

----------------------------------------------------------------------------
TypeOK ==
  /\ phase \in {"start", "scoring", "returned", "raised"} /\ malformed \subseteq Malformed
  /\ pc \in [Requests -> {"none", "post", "send", "sent", "scored", "unscored", "failed"}]
  /\ worker \in [Requests -> Replicas] /\ attempt \in [Requests -> 0 .. MaxAttempts - 1]
  /\ posts \in [Requests -> 0 .. MaxRetries - 1]
  /\ sent \in [Requests -> Nat]
  /\ request_counts \in [Replicas -> Nat] /\ awake \in BOOLEAN /\ faults \in 0 .. MaxFaults

\* What the router has to do with a replica.
Load(w) == Cardinality({q \in Requests : worker[q] = w /\ pc[q] \in {"send", "sent"}})

\* The router never counts less than it has for a replica, so that retries, which it does
\* not count, cannot pile up on one; and until it has failed to release one, which a post
\* that fails does, no replica has more than its share of the requests.
LoadCounted ==
  /\ \A w \in Replicas : Load(w) <= request_counts[w]
  /\ (\A q \in Requests : posts[q] = 0 /\ pc[q] # "failed") =>
       \A w \in Replicas :
         (Load(w) - 1) * Cardinality(Replicas) < Cardinality(Requests)

\* A request is sent no more often than task and router may try together, and only to
\* replicas that are awake.
SendsBounded ==
  \A q \in Requests : /\ sent[q] <= MaxRetries * MaxAttempts
                      /\ pc[q] = "sent" => awake

\* A task gives a request up for a cause: all its posts have failed, each by a fault unless
\* the request is malformed, which the task is never told; or it was answered, and what
\* arrived has no score, which takes one fault and no retry.
GivenUpForCause ==
  \A q \in Requests :
    /\ pc[q] = "failed" => /\ posts[q] = MaxRetries - 1
                           /\ q \in malformed \/ MaxRetries <= faults
    /\ pc[q] = "unscored" => q \notin malformed /\ faults > 0

\* A comment of _post_request says "Do not retry on 4xx client errors".
RejectedOnce == \A q \in malformed : faults = 0 => sent[q] <= 1

\* Whatever becomes of a request, the router counts only those it has.
CountsReleased == \A w \in Replicas : request_counts[w] = Load(w)

\* The batch is scored, or scoring it raises and has cause to: a malformed request, a fault
\* for each post of some request, or an answer without a score.
Scored ==
  \/ phase = "returned"
  \/ /\ phase = "raised"
     /\ malformed # {} \/ MaxRetries <= faults \/ \E q \in Requests : pc[q] = "unscored"
=============================================================================
