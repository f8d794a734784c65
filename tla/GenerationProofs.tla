-------------------------- MODULE GenerationProofs --------------------------
(***************************************************************************)
(* Proofs about generation, interrupted and not.                           *)
(*                                                                         *)
(* PartialGeneration, for any number of agent loops and servers, any       *)
(* lengths and limits, and any number of synchronizations: what the loops  *)
(* keep of a response while they are cancelled and resumed.  Then          *)
(* HybridEngine: what the synchronous trainer generates with.  Last        *)
(* ToolAgentLoop: the rows that its agent loops return.                    *)
(***************************************************************************)
EXTENDS PartialGeneration, FiniteSetTheorems, TLAPS

Token == Versions \cup {ToolToken}
LoopStates == {"none", "pending", "generating", "processing_tools", "terminated"}

AgentData ==
  [state : LoopStates, ids : Seq(Token), mask : Seq({0, 1}), logprobs : Nat, chunk : Nat,
   assistant : Nat, user : Nat, start : Versions, end : Versions, stamp : Versions,
   between : BOOLEAN]

PhaseNames == {"run", "cancel", "paused", "moved", "updated", "resume"}

Types ==
  /\ data \in [Loops -> AgentData]
  /\ call \in [Loops -> {"out", "loop", "sent", "generating"}]
  /\ server \in [Loops -> Servers]
  /\ paused \in [Servers -> BOOLEAN] /\ cancelled \in BOOLEAN
  /\ event \in [Servers -> [Loops -> {"none", "clear", "set"}]]
  /\ output \in [Loops -> Seq(Versions)]
  /\ phase \in PhaseNames /\ told \subseteq Servers \cup {"worker"}
  /\ version \in Versions /\ generated \in [Loops -> Nat]

-----------------------------------------------------------------------------
(* The invariant.                                                          *)

\* Response, mask and log-probabilities have the same tokens.
Aligned(d) ==
  /\ Len(d.mask) = Len(d.ids) /\ d.logprobs = Len(d.ids)
  /\ \A i \in 1 .. Len(d.ids) : d.mask[i] = 1 <=> d.ids[i] # ToolToken

\* What the model generated is of the versions from start to v.
Within(d, v) ==
  /\ d.start <= v
  /\ \A i \in 1 .. Len(d.ids) : d.ids[i] # ToolToken => d.start <= d.ids[i] /\ d.ids[i] <= v

\* How many versions its tokens can be newer than its stamp.
Over(d) == IF d.between THEN 1 ELSE 0

\* A loop: its response, what its request has so far, and what is where.
Response(l) ==
  /\ Aligned(data[l]) /\ Within(data[l], version)
  /\ Finished(l) => call[l] = "out" /\ Within(data[l], data[l].end + Over(data[l]))
  /\ data[l].state = "none" => call[l] = "out" /\ data[l] = Fresh /\ generated[l] = 0
  /\ data[l].state = "processing_tools" => data[l].ids # <<>>
  /\ call[l] # "generating" => output[l] = <<>>
  /\ \A i \in 1 .. Len(output[l]) : output[l][i] = version
  /\ Len(data[l].ids) + Len(output[l]) <= MaxTokens
  /\ generated[l] = Cardinality(ModelTokens(data[l].ids)) + Len(output[l])

\* The event of its request.
Event(l) ==
  call[l] = "generating" =>
    event[server[l]][l] = (IF paused[server[l]] THEN "set" ELSE "clear")

\* At most one.
LEMMA OverIsNat == ASSUME NEW d \in AgentData PROVE Over(d) \in Nat
BY DEF Over

\* The stamp of a running loop against the weights: while the servers still have the
\* old ones, everything that runs was submitted after pause().
Stamps(l) ==
  /\ call[l] # "out" => version <= data[l].stamp + Over(data[l])
  /\ call[l] # "out" /\ phase = "paused" => data[l].between /\ version <= data[l].stamp
  /\ call[l] = "generating" /\ phase \notin {"run", "cancel"} => ~paused[server[l]]

Phases ==
  /\ phase \in {"cancel", "paused"} => version < MaxVersion
  /\ phase = "moved" => version > 0
  /\ phase = "cancel" => \A s \in Servers : s \in told => paused[s]
  /\ phase \in {"paused", "moved", "updated"} => \A s \in Servers : paused[s]

Inv == Types /\ Phases /\ \A l \in Loops : Response(l) /\ Event(l) /\ Stamps(l)

-----------------------------------------------------------------------------
(* Sequences of tokens.                                                    *)

LEMMA Joined ==
    ASSUME NEW S, NEW s \in Seq(S), NEW t \in Seq(S)
    PROVE  /\ s \o t \in Seq(S) /\ Len(s \o t) = Len(s) + Len(t)
           /\ \A i \in 1 .. Len(s) : (s \o t)[i] = s[i]
           /\ \A i \in 1 .. Len(t) : (s \o t)[Len(s) + i] = t[i]
OBVIOUS

LEMMA JoinedIs ==
    ASSUME NEW S, NEW s \in Seq(S), NEW t \in Seq(S), NEW m, m = Len(s), NEW n, n = Len(t),
           NEW u, u = s \o t
    PROVE  /\ u \in Seq(S) /\ Len(u) = m + n
           /\ \A i \in 1 .. m : u[i] = s[i]
           /\ \A i \in 1 .. n : u[m + i] = t[i]
BY Joined

\* The places of a concatenation.
LEMMA Places ==
    ASSUME NEW m \in Nat, NEW n \in Nat, NEW i \in 1 .. m + n
    PROVE  \/ i \in 1 .. m
           \/ \E j \in 1 .. n : i = m + j
<1>1. CASE i <= m
  BY <1>1
<1>2. CASE i > m
  <2>1. i - m \in 1 .. n /\ i = m + (i - m)
    BY <1>2
  <2> QED BY <2>1
<1> QED BY <1>1, <1>2

LEMMA Replicated ==
    ASSUME NEW n \in Nat, NEW x, NEW S, x \in S
    PROVE  /\ Replicate(n, x) \in Seq(S) /\ Len(Replicate(n, x)) = n
           /\ \A i \in 1 .. n : Replicate(n, x)[i] = x
BY DEF Replicate

LEMMA Constants ==
    ASSUME PartialGenerationAssumption
    PROVE  /\ MaxTokens \in Nat /\ ResponseLength \in Nat /\ ResponseLength <= MaxTokens
           /\ MaxTokens >= 1 /\ TurnLen \in Nat /\ TurnLen >= 1 /\ ToolLen \in Nat /\ ToolLen >= 1
           /\ MaxVersion \in Nat /\ Versions = 0 .. MaxVersion /\ ToolToken \notin Versions
           /\ Versions \subseteq Nat /\ MultiTurn \in BOOLEAN /\ "worker" \notin Servers
BY DEF PartialGenerationAssumption, Versions, ToolToken

\* What the model generated, when a reply or a tool's answer is appended.
LEMMA Generated ==
    ASSUME PartialGenerationAssumption, NEW ids \in Seq(Token), NEW t \in Seq(Versions)
    PROVE  /\ Cardinality(ModelTokens(ids)) \in Nat
           /\ Cardinality(ModelTokens(ids \o t)) = Cardinality(ModelTokens(ids)) + Len(t)
<1>1. PICK m \in Nat, n \in Nat : m = Len(ids) /\ n = Len(t)
  OBVIOUS
<1> DEFINE new == m + 1 .. m + n
<1>2. t \in Seq(Token)
  BY DEF Token
<1>3. DOMAIN ids = 1 .. m /\ DOMAIN (ids \o t) = 1 .. m + n
  BY <1>1, <1>2
<1>4. \A i \in 1 .. m : (ids \o t)[i] = ids[i]
  BY <1>1, <1>2, Joined
<1>5. \A i \in 1 .. n : (ids \o t)[m + i] = t[i] /\ t[i] # ToolToken
  <2>1. \A i \in 1 .. n : t[i] \in Versions
    BY <1>1
  <2> QED BY <1>1, <1>2, <2>1, Joined, Constants
<1>6. ModelTokens(ids \o t) = ModelTokens(ids) \cup new
  <2>1. ASSUME NEW i \in ModelTokens(ids \o t)
        PROVE  i \in ModelTokens(ids) \cup new
    <3>1. i \in 1 .. m + n /\ (ids \o t)[i] # ToolToken
      BY <1>3 DEF ModelTokens
    <3>2. CASE i \in 1 .. m
      BY <1>3, <1>4, <3>1, <3>2 DEF ModelTokens
    <3>3. CASE i \notin 1 .. m
      BY <3>1, <3>3
    <3> QED BY <3>2, <3>3
  <2>2. ASSUME NEW i \in ModelTokens(ids)
        PROVE  i \in ModelTokens(ids \o t)
    <3>1. i \in 1 .. m /\ ids[i] # ToolToken
      BY <1>3 DEF ModelTokens
    <3>2. i \in 1 .. m + n
      BY <3>1
    <3> QED BY <1>3, <1>4, <3>1, <3>2 DEF ModelTokens
  <2>3. ASSUME NEW i \in new
        PROVE  i \in ModelTokens(ids \o t)
    <3>1. PICK j \in 1 .. n : i = m + j
      <4>1. i - m \in 1 .. n /\ i = m + (i - m)
        OBVIOUS
      <4> QED BY <4>1
    <3>2. i \in 1 .. m + n
      BY <3>1
    <3> QED BY <1>3, <1>5, <3>1, <3>2 DEF ModelTokens
  <2> QED BY <2>1, <2>2, <2>3
<1>7. ModelTokens(ids) \subseteq 1 .. m
  BY <1>3 DEF ModelTokens
<1>8. IsFiniteSet(1 .. m) /\ IsFiniteSet(new) /\ Cardinality(new) = n
  <2>1. IsFiniteSet(1 .. m)
    BY FS_Interval
  <2>2. m + 1 \in Int /\ m + n \in Int
    OBVIOUS
  <2>3. IsFiniteSet(new) /\ Cardinality(new) = (IF m + 1 > m + n THEN 0 ELSE m + n - (m + 1) + 1)
    BY <2>2, FS_Interval
  <2>4. (IF m + 1 > m + n THEN 0 ELSE m + n - (m + 1) + 1) = n
    OBVIOUS
  <2> QED BY <2>1, <2>3, <2>4
<1>9. IsFiniteSet(ModelTokens(ids)) /\ Cardinality(ModelTokens(ids)) \in Nat
  BY <1>7, <1>8, FS_Subset, FS_CardinalityType
<1>10. ModelTokens(ids) \cap new = {}
  BY <1>7
<1> HIDE DEF new
<1>11. Cardinality(ModelTokens(ids) \cup new)
         = Cardinality(ModelTokens(ids)) + Cardinality(new) - Cardinality({})
  BY <1>8, <1>9, <1>10, FS_Union
<1>12. Cardinality({}) = 0
  BY FS_EmptySet
<1> QED BY <1>1, <1>6, <1>8, <1>9, <1>11, <1>12

LEMMA GeneratedByTools ==
    ASSUME PartialGenerationAssumption, NEW ids \in Seq(Token), NEW n \in Nat
    PROVE  ModelTokens(ids \o Replicate(n, ToolToken)) = ModelTokens(ids)
<1> DEFINE t == Replicate(n, ToolToken)
<1>1. PICK m \in Nat : m = Len(ids)
  OBVIOUS
<1>2. t \in Seq(Token) /\ Len(t) = n /\ \A i \in 1 .. n : t[i] = ToolToken
  BY Replicated DEF Token
<1> HIDE DEF t
<1>3. DOMAIN ids = 1 .. m /\ DOMAIN (ids \o t) = 1 .. m + n
  BY <1>1, <1>2
<1>4. \A i \in 1 .. m : (ids \o t)[i] = ids[i]
  BY <1>1, <1>2, Joined
<1>5. \A i \in 1 .. n : (ids \o t)[m + i] = ToolToken
  BY <1>1, <1>2, Joined
<1>6. ASSUME NEW i \in ModelTokens(ids \o t)
      PROVE  i \in ModelTokens(ids)
  <2>1. i \in 1 .. m + n /\ (ids \o t)[i] # ToolToken
    BY <1>3 DEF ModelTokens
  <2>2. ASSUME NEW j \in 1 .. n, i = m + j
        PROVE  FALSE
    BY <1>5, <2>1, <2>2
  <2>3. i \in 1 .. m
    BY <2>1, <2>2, Places
  <2> QED BY <1>3, <1>4, <2>1, <2>3 DEF ModelTokens
<1>7. ASSUME NEW i \in ModelTokens(ids)
      PROVE  i \in ModelTokens(ids \o t)
  <2>1. i \in 1 .. m /\ ids[i] # ToolToken
    BY <1>3 DEF ModelTokens
  <2>2. i \in 1 .. m + n
    BY <2>1
  <2> QED BY <1>3, <1>4, <2>1, <2>2 DEF ModelTokens
<1> QED BY <1>6, <1>7 DEF t

\* Tokens appended to a response, each with its mask.
LEMMA Longer ==
    ASSUME PartialGenerationAssumption, NEW d \in AgentData, Aligned(d),
           NEW e \in AgentData, NEW t \in Seq(Token), NEW b \in {0, 1},
           e.ids = d.ids \o t, e.mask = d.mask \o Replicate(Len(t), b),
           e.logprobs = d.logprobs + Len(t),
           \A i \in 1 .. Len(t) : b = 1 <=> t[i] # ToolToken
    PROVE  Aligned(e) /\ Len(e.ids) = Len(d.ids) + Len(t)
<1>1. PICK m \in Nat, n \in Nat : m = Len(d.ids) /\ n = Len(t) /\ m = Len(d.mask)
  BY DEF Aligned, AgentData
<1>2. d.ids \in Seq(Token) /\ d.mask \in Seq({0, 1})
  BY DEF AgentData
<1>3. /\ Replicate(n, b) \in Seq({0, 1}) /\ Len(Replicate(n, b)) = n
      /\ \A i \in 1 .. n : Replicate(n, b)[i] = b
  BY Replicated
<1>4. PICK r \in Seq({0, 1}) : r = Replicate(n, b)
  BY <1>3
<1>5. /\ Len(e.ids) = m + n
      /\ \A i \in 1 .. m : e.ids[i] = d.ids[i]
      /\ \A i \in 1 .. n : e.ids[m + i] = t[i]
  <2>1. e.ids = d.ids \o t /\ t \in Seq(Token) /\ n = Len(t) /\ m = Len(d.ids)
    BY <1>1
  <2> QED BY <1>2, <2>1, JoinedIs
<1>6. /\ Len(e.mask) = m + n
      /\ \A i \in 1 .. m : e.mask[i] = d.mask[i]
      /\ \A i \in 1 .. n : e.mask[m + i] = r[i]
  <2>1. e.mask = d.mask \o r /\ n = Len(r)
    BY <1>1, <1>3, <1>4
  <2> QED BY <1>1, <1>2, <2>1, JoinedIs
<1>7. \A i \in 1 .. n : e.ids[m + i] = t[i] /\ e.mask[m + i] = b
  BY <1>3, <1>4, <1>5, <1>6
<1>8. ASSUME NEW i \in 1 .. m + n
      PROVE  e.mask[i] = 1 <=> e.ids[i] # ToolToken
  <2>1. CASE i \in 1 .. m
    BY <1>1, <1>5, <1>6, <2>1 DEF Aligned
  <2>2. ASSUME NEW j \in 1 .. n, i = m + j
        PROVE  e.mask[i] = 1 <=> e.ids[i] # ToolToken
    BY <1>1, <1>7, <2>2
  <2> QED BY <2>1, <2>2, Places
<1>9. e.logprobs = m + n
  BY <1>1 DEF Aligned
<1> QED BY <1>1, <1>5, <1>6, <1>8, <1>9 DEF Aligned

\* And those of one version.
LEMMA WithinLonger ==
    ASSUME PartialGenerationAssumption, NEW d \in AgentData, NEW v \in Versions, Within(d, v),
           NEW e \in AgentData, NEW t \in Seq(Token),
           e.ids = d.ids \o t, e.start = d.start,
           \A i \in 1 .. Len(t) : t[i] # ToolToken => t[i] = v
    PROVE  Within(e, v)
<1>1. PICK m \in Nat, n \in Nat : m = Len(d.ids) /\ n = Len(t)
  BY DEF AgentData
<1>2. d.ids \in Seq(Token)
  BY DEF AgentData
<1>3. /\ Len(e.ids) = m + n
      /\ \A i \in 1 .. m : e.ids[i] = d.ids[i]
      /\ \A i \in 1 .. n : e.ids[m + i] = t[i]
  BY <1>1, <1>2, JoinedIs
<1>6. d.start <= v /\ v <= v
  BY Constants DEF Within
<1>7. ASSUME NEW i \in 1 .. m + n, e.ids[i] # ToolToken
      PROVE  e.start <= e.ids[i] /\ e.ids[i] <= v
  <2>1. CASE i \in 1 .. m
    BY <1>1, <1>3, <1>7, <2>1 DEF Within
  <2>2. ASSUME NEW j \in 1 .. n, i = m + j
        PROVE  e.start <= e.ids[i] /\ e.ids[i] <= v
    BY <1>1, <1>3, <1>6, <1>7, <2>2
  <2> QED BY <2>1, <2>2, Places
<1> QED BY <1>3, <1>6, <1>7 DEF Within

\* Also of any later version.
LEMMA WithinLater ==
    ASSUME PartialGenerationAssumption, NEW d \in AgentData, NEW v \in Nat, Within(d, v),
           NEW w \in Nat, v <= w
    PROVE  Within(d, w)
<1>1. d.start \in Nat /\ d.ids \in Seq(Token)
  BY Constants DEF AgentData
<1>2. d.start <= w
  BY <1>1 DEF Within
<1>3. ASSUME NEW i \in 1 .. Len(d.ids), d.ids[i] # ToolToken
      PROVE  d.start <= d.ids[i] /\ d.ids[i] <= w
  <2>1. d.ids[i] \in Nat
    <3>1. d.ids[i] \in Token
      BY <1>1
    <3> QED BY <1>3, <3>1, Constants DEF Token
  <2>2. d.start <= d.ids[i] /\ d.ids[i] <= v
    BY <1>3 DEF Within
  <2> QED BY <2>1, <2>2
<1> QED BY <1>2, <1>3 DEF Within

-----------------------------------------------------------------------------
(* It holds at the start.                                                  *)

LEMMA AtStart ==
    ASSUME PartialGenerationAssumption, Init
    PROVE  Inv
<1>1. Fresh \in AgentData /\ 0 \in Versions
  BY Constants DEF Fresh, AgentData, LoopStates
<1>2. Types
  <2>1. output \in [Loops -> Seq(Versions)] /\ data \in [Loops -> AgentData]
    BY <1>1 DEF Init
  <2>2. /\ call \in [Loops -> {"out", "loop", "sent", "generating"}]
        /\ server \in [Loops -> Servers] /\ paused \in [Servers -> BOOLEAN]
        /\ event \in [Servers -> [Loops -> {"none", "clear", "set"}]]
        /\ generated \in [Loops -> Nat]
    BY DEF Init
  <2>3. cancelled \in BOOLEAN /\ phase \in PhaseNames /\ told = {}
        /\ version \in Versions
    BY <1>1 DEF Init, PhaseNames
  <2> QED BY <2>1, <2>2, <2>3 DEF Types
<1>3. Phases
  BY DEF Init, Phases
<1>4. ASSUME NEW l \in Loops
      PROVE  Response(l) /\ Event(l) /\ Stamps(l)
  <2>1. data[l] = Fresh /\ call[l] = "out" /\ output[l] = <<>> /\ generated[l] = 0 /\ version = 0
    BY DEF Init
  <2>2. /\ Fresh.ids = <<>> /\ Fresh.mask = <<>> /\ Fresh.logprobs = 0 /\ Fresh.state = "none"
        /\ Fresh.start = 0 /\ Fresh.end = 0
    BY DEF Fresh
  <2>3. Aligned(Fresh) /\ Within(Fresh, 0)
    BY <2>2 DEF Aligned, Within
  <2>4. Cardinality(ModelTokens(<<>>)) = 0
    <3>1. ModelTokens(<<>>) = {}
      BY DEF ModelTokens
    <3> QED BY <3>1, FS_EmptySet
  <2>5. Response(l)
    BY <2>1, <2>2, <2>3, <2>4, Constants DEF Response, Finished
  <2>6. Event(l) /\ Stamps(l)
    BY <2>1 DEF Event, Stamps
  <2> QED BY <2>5, <2>6
<1> QED BY <1>2, <1>3, <1>4 DEF Inv

-----------------------------------------------------------------------------
(* The steps of a loop and of its request.                                 *)

\* The types of what loop l has, in plain sets.
LEMMA TypesOf ==
    ASSUME Inv, NEW l \in Loops
    PROVE  /\ Types /\ Phases /\ Response(l) /\ Event(l) /\ Stamps(l)
           /\ data[l] \in AgentData /\ call[l] \in {"out", "loop", "sent", "generating"}
           /\ server[l] \in Servers /\ output[l] \in Seq(Versions) /\ generated[l] \in Nat
           /\ version \in Versions /\ data[l].ids \in Seq(Token) /\ data[l].mask \in Seq({0, 1})
           /\ Len(data[l].ids) \in Nat /\ Len(output[l]) \in Nat
<1>1. /\ Types /\ Phases /\ Response(l) /\ Event(l) /\ Stamps(l)
  BY DEF Inv
<1>2. /\ data[l] \in AgentData /\ call[l] \in {"out", "loop", "sent", "generating"}
      /\ server[l] \in Servers /\ output[l] \in Seq(Versions) /\ generated[l] \in Nat
      /\ version \in Versions
  BY <1>1 DEF Types
<1>3. data[l].ids \in Seq(Token) /\ data[l].mask \in Seq({0, 1})
  BY <1>2 DEF AgentData
<1> QED BY <1>1, <1>2, <1>3

\* What a step leaves of loop q.
Same(q) ==
  /\ data'[q] = data[q] /\ call'[q] = call[q] /\ server'[q] = server[q]
  /\ output'[q] = output[q] /\ generated'[q] = generated[q]

Still(q) == Same(q) /\ \A s \in Servers : event'[s][q] = event[s][q]

LEMMA StillHolds ==
    ASSUME Inv, NEW q \in Loops, Same(q), version' = version
    PROVE  Response(q)'
BY DEF Inv, Same, Response, Finished

\* A running loop's stamp stays, and it generates only where it did or may.
LEMMA StampStays ==
    ASSUME Inv, NEW l \in Loops, call[l] # "out", UNCHANGED control,
           data'[l].stamp = data[l].stamp, data'[l].between = data[l].between,
           call'[l] = "generating" =>
             server'[l] = server[l] /\ (call[l] = "generating" \/ ~paused[server[l]])
    PROVE  Stamps(l)'
<1>1. version' = version /\ paused' = paused /\ phase' = phase
  BY DEF control
<1>2. Stamps(l) /\ Over(data'[l]) = Over(data[l])
  BY TypesOf DEF Over
<1> QED BY <1>1, <1>2 DEF Stamps

LEMMA LoopKeeps ==
    ASSUME Inv, NEW l \in Loops, call[l] # "out", UNCHANGED control, Types',
           \A q \in Loops \ {l} : Still(q), Response(l)', Event(l)', Stamps(l)'
    PROVE  Inv'
<1>1. version' = version /\ paused' = paused /\ phase' = phase /\ told' = told
  BY DEF control
<1>2. Phases'
  BY <1>1, TypesOf DEF Phases
<1>3. ASSUME NEW q \in Loops
      PROVE  Response(q)' /\ Event(q)' /\ Stamps(q)'
  <2>1. CASE q = l
    BY <2>1
  <2>2. CASE q # l
    <3>1. Still(q) /\ server[q] \in Servers
      BY <2>2, TypesOf
    <3>2. Response(q)'
      BY <1>1, <3>1, StillHolds DEF Still
    <3>3. Event(q)'
      BY <1>1, <3>1, TypesOf DEF Still, Same, Event
    <3>4. Stamps(q)'
      BY <1>1, <3>1, TypesOf DEF Still, Same, Stamps, Over
    <3> QED BY <3>2, <3>3, <3>4
  <2> QED BY <2>1, <2>2
<1> QED BY <1>2, <1>3 DEF Inv

\* A reply comes only for a request that ends or is interrupted.
LEMMA ReplyKeeps ==
    ASSUME PartialGenerationAssumption, Inv, NEW l \in Loops, NEW cancel \in BOOLEAN,
           call[l] \in {"sent", "generating"}, ~cancel => EngineDone(l),
           Reply(l, output[l], cancel), output' = [output EXCEPT ![l] = <<>>],
           UNCHANGED <<server, generated, control>>,
           event' \in [Servers -> [Loops -> {"none", "clear", "set"}]],
           \A s \in Servers : \A q \in Loops \ {l} : event'[s][q] = event[s][q]
    PROVE  Inv'
<1>0. PICK d \in AgentData, t \in Seq(Versions) : d = data[l] /\ t = output[l]
  BY TypesOf
<1>1. /\ Types /\ Response(l) /\ Stamps(l) /\ generated[l] \in Nat /\ version \in Versions
      /\ d.ids \in Seq(Token) /\ Len(d.ids) \in Nat /\ Len(t) \in Nat
  BY <1>0, TypesOf
<1>2. PICK e : e = HandleReply(d, t, cancel)
  OBVIOUS
\* What a reply, whole or interrupted, makes of agent_data.
<1>3. /\ e \in AgentData /\ e.ids = d.ids \o t /\ e.start = d.start
      /\ e.mask = d.mask \o Replicate(Len(t), 1) /\ e.logprobs = d.logprobs + Len(t)
      /\ e.state \in {"terminated", "generating", "processing_tools"}
      /\ e.state = "processing_tools" => ~cancel
      /\ e.stamp = d.stamp /\ e.between = d.between
      /\ e.state = "terminated" => e.end = e.stamp
  <2> DEFINE a == AppendReply(d, t, cancel)
             b == [a EXCEPT !.assistant = @ + (IF cancel /\ ~TooLong(a) THEN 0 ELSE 1)]
             state == NextState(b, cancel)
             c == [b EXCEPT !.state = state]
  <2>1. e = Stamped(c)
    BY <1>2 DEF HandleReply
  <2>2. /\ a \in AgentData /\ a.ids = d.ids \o t /\ a.mask = d.mask \o Replicate(Len(t), 1)
        /\ a.logprobs = d.logprobs + Len(t) /\ a.start = d.start
        /\ a.stamp = d.stamp /\ a.between = d.between
    <3>1. d.ids \in Seq(Token) /\ t \in Seq(Token) /\ d.mask \in Seq({0, 1}) /\ d.logprobs \in Nat
          /\ Len(t) \in Nat
      BY DEF AgentData, Token
    <3>2. d.ids \o t \in Seq(Token)
      BY <3>1, Joined
    <3>3. Replicate(Len(t), 1) \in Seq({0, 1})
      BY <3>1, Replicated
    <3>4. d.mask \o Replicate(Len(t), 1) \in Seq({0, 1})
      BY <3>1, <3>3, Joined
    <3>5. d.logprobs + Len(t) \in Nat
      BY <3>1
    <3>6. PICK ids \in Seq(Token), mask \in Seq({0, 1}), logprobs \in Nat, n \in Nat :
            /\ ids = d.ids \o t /\ mask = d.mask \o Replicate(Len(t), 1)
            /\ logprobs = d.logprobs + Len(t) /\ n = Len(t)
      BY <3>1, <3>2, <3>4, <3>5
    <3>7. a = [d EXCEPT !.chunk = n, !.ids = ids, !.mask = mask, !.logprobs = logprobs]
      BY <3>6 DEF AppendReply
    <3> HIDE DEF a
    <3>8. /\ a \in AgentData /\ a.ids = ids /\ a.mask = mask /\ a.logprobs = logprobs
          /\ a.start = d.start /\ a.stamp = d.stamp /\ a.between = d.between
      BY <3>7 DEF AgentData
    <3> QED BY <3>6, <3>8
  <2> HIDE DEF a
  <2>3. /\ b \in AgentData /\ b.ids = a.ids /\ b.mask = a.mask /\ b.logprobs = a.logprobs
        /\ b.start = a.start /\ b.stamp = a.stamp /\ b.between = a.between
    <3>1. a.assistant + (IF cancel /\ ~TooLong(a) THEN 0 ELSE 1) \in Nat
      BY <2>2 DEF AgentData
    <3>2. PICK n \in Nat : n = a.assistant + (IF cancel /\ ~TooLong(a) THEN 0 ELSE 1)
      BY <3>1
    <3>3. b = [a EXCEPT !.assistant = n]
      BY <3>2
    <3> HIDE DEF b
    <3> QED BY <2>2, <3>3 DEF AgentData
  <2> HIDE DEF b
  <2>4. /\ state \in {"terminated", "generating", "processing_tools"}
        /\ state = "processing_tools" => ~cancel
    BY DEF NextState
  <2> HIDE DEF state
  <2>5. /\ c \in AgentData /\ c.ids = b.ids /\ c.mask = b.mask /\ c.logprobs = b.logprobs
        /\ c.start = b.start /\ c.state = state
        /\ c.stamp = b.stamp /\ c.between = b.between
    BY <2>3, <2>4 DEF AgentData, LoopStates
  <2> HIDE DEF c
  <2>6. /\ e \in AgentData /\ e.ids = c.ids /\ e.mask = c.mask /\ e.logprobs = c.logprobs
        /\ e.start = c.start /\ e.state = c.state /\ e.stamp = c.stamp /\ e.between = c.between
        /\ (e.state = "terminated" => e.end = e.stamp)
    BY <1>1, <2>1, <2>5 DEF Stamped, AgentData
  <2> QED BY <2>2, <2>3, <2>4, <2>5, <2>6
<1>4. /\ data' = [data EXCEPT ![l] = e] /\ call' = [call EXCEPT ![l] = AfterReply(e)]
      /\ AfterReply(e) \in {"out", "loop"} /\ (e.state = "terminated" => AfterReply(e) = "out")
  <2>1. data' = [data EXCEPT ![l] = e]
    BY <1>0, <1>2 DEF Reply
  <2>2. data'[l] = e
    BY <1>1, <2>1 DEF Types
  <2> QED BY <2>1, <2>2 DEF Reply, AfterReply
<1>5. /\ data'[l] = e /\ call'[l] = AfterReply(e) /\ output'[l] = <<>>
      /\ \A q \in Loops \ {l} : Still(q)
  BY <1>1, <1>4 DEF Types, Still, Same
<1>6. Types'
  <2>1. /\ data' \in [Loops -> AgentData]
        /\ call' \in [Loops -> {"out", "loop", "sent", "generating"}]
        /\ output' \in [Loops -> Seq(Versions)]
    BY <1>1, <1>3, <1>4 DEF Types
  <2> QED BY <1>1, <2>1 DEF Types, control
<1>7. t \in Seq(Token) /\ \A i \in 1 .. Len(t) : t[i] # ToolToken /\ t[i] = version
  <2>1. \A i \in 1 .. Len(t) : t[i] = version
    BY <1>0, <1>1 DEF Response
  <2>2. t \in Seq(Token)
    BY DEF Token
  <2> QED BY <1>1, <2>1, <2>2, Constants
<1>8. Aligned(e) /\ Len(e.ids) = Len(d.ids) + Len(t) /\ Within(e, version)
  <2>1. Aligned(d) /\ Within(d, version)
    BY <1>0, <1>1 DEF Response
  <2>2. \A i \in 1 .. Len(t) : 1 = 1 <=> t[i] # ToolToken
    BY <1>7
  <2>3. Aligned(e) /\ Len(e.ids) = Len(d.ids) + Len(t)
    BY <1>1, <1>3, <1>7, <2>1, <2>2, Longer
  <2>4. Within(e, version)
    BY <1>1, <1>3, <1>7, <2>1, WithinLonger
  <2> QED BY <2>3, <2>4
<1>9. /\ Len(d.ids) + Len(t) <= MaxTokens
      /\ generated[l] = Cardinality(ModelTokens(d.ids)) + Len(t)
  BY <1>0, <1>1 DEF Response
<1>10. generated[l] = Cardinality(ModelTokens(e.ids)) + 0
  <2>1. /\ Cardinality(ModelTokens(d.ids)) \in Nat
        /\ Cardinality(ModelTokens(e.ids)) = Cardinality(ModelTokens(d.ids)) + Len(t)
    BY <1>1, <1>3, Generated
  <2> QED BY <1>1, <1>9, <2>1
<1>11. e.state = "processing_tools" => e.ids # <<>>
  <2> SUFFICES ASSUME ~cancel, e.ids = <<>> PROVE FALSE
    BY <1>3
  <2>1. Len(d.ids) + Len(t) = 0
    BY <1>8
  <2>2. Len(d.ids) = 0 /\ Len(t) = 0
    BY <1>1, <2>1
  <2>3. d.ids = <<>>
    BY <1>1, <2>2
  <2>4. InTurn(d.ids) = 0
    BY <2>3 DEF InTurn
  <2>5. EngineDone(l)
    OBVIOUS
  <2>6. 0 + 0 = TurnLen \/ 0 + 0 = MaxTokens
    BY <1>0, <2>2, <2>4, <2>5 DEF EngineDone
  <2> QED BY <2>6, Constants
<1>12. Response(l)'
  <2>1. version' = version /\ generated' = generated
    BY DEF control
  <2>2. Len(<<>>) = 0 /\ Len(e.ids) + 0 <= MaxTokens
    BY <1>1, <1>8, <1>9
  <2>3. Finished(l)' => call'[l] = "out" /\ Within(e, e.end + Over(e))
    <3>1. version <= d.stamp + Over(d) /\ Over(e) = Over(d)
      BY <1>0, <1>1, <1>3 DEF Stamps, Over
    <3>2. version <= e.stamp + Over(e) /\ e.stamp + Over(e) \in Nat /\ version \in Nat
      <4>1. e.stamp \in Nat /\ version \in Nat
        BY <1>1, <1>3, Constants DEF AgentData
      <4> QED BY <1>3, <3>1, <4>1, OverIsNat
    <3>3. Within(e, e.stamp + Over(e))
      BY <1>3, <1>8, <3>2, WithinLater
    <3> QED BY <1>3, <1>4, <1>5, <3>3 DEF Finished
  <2>4. /\ Aligned(data'[l]) /\ Within(data'[l], version')
        /\ data'[l].state # "none"
        /\ data'[l].state = "processing_tools" => data'[l].ids # <<>>
    BY <1>3, <1>5, <1>8, <1>11, <2>1
  <2>5. /\ Len(data'[l].ids) + Len(output'[l]) <= MaxTokens
        /\ generated'[l] = Cardinality(ModelTokens(data'[l].ids)) + Len(output'[l])
    BY <1>5, <1>10, <2>1, <2>2
  <2>6. \A i \in 1 .. Len(output'[l]) : output'[l][i] = version'
    BY <1>5
  <2> QED BY <1>5, <2>3, <2>4, <2>5, <2>6 DEF Response
<1>13. Event(l)' /\ Stamps(l)'
  BY <1>0, <1>3, <1>4, <1>5, StampStays DEF Event
<1> QED BY <1>5, <1>6, <1>12, <1>13, LoopKeeps

\* Steps that change only where a loop is, or its state.
LEMMA SmallSteps ==
    ASSUME PartialGenerationAssumption, Inv, NEW l \in Loops,
           Interrupted(l) \/ HandlePending(l) \/ Request(l)
    PROVE  Inv'
<1>1. /\ Types /\ Response(l) /\ Event(l) /\ data[l] \in AgentData /\ call[l] = "loop"
      /\ output[l] = <<>> /\ UNCHANGED <<event, output, generated, control>>
  BY TypesOf DEF Interrupted, HandlePending, Request, Runs, Response
<1>2. version' = version
  BY <1>1 DEF control
<1>3. PICK e \in AgentData : e = [data[l] EXCEPT !.state = "generating"]
  <2>1. [data[l] EXCEPT !.state = "generating"] \in AgentData
    BY <1>1 DEF AgentData, LoopStates
  <2> QED BY <2>1
<1>4. /\ e.state = "generating" /\ e.ids = data[l].ids /\ e.mask = data[l].mask
      /\ e.logprobs = data[l].logprobs /\ e.start = data[l].start
      /\ e.stamp = data[l].stamp /\ e.between = data[l].between
  BY <1>1, <1>3 DEF AgentData
<1>5. /\ data' = data \/ data' = [data EXCEPT ![l] = e]
      /\ \/ call' = [call EXCEPT ![l] = "out"]
         \/ call' = [call EXCEPT ![l] = "sent"]
         \/ call' = call
      /\ server' \in [Loops -> Servers] /\ \A q \in Loops \ {l} : server'[q] = server[q]
  <2>1. Interrupted(l) \/ HandlePending(l) =>
          server' = server /\ server' \in [Loops -> Servers]
    BY <1>1 DEF Types, Interrupted, HandlePending
  <2>2. Request(l) => /\ server' \in [Loops -> Servers]
                      /\ \A q \in Loops \ {l} : server'[q] = server[q]
    BY <1>1 DEF Types, Request
  <2>3. data' = data \/ data' = [data EXCEPT ![l] = e]
    <3>1. HandlePending(l) => data' = [data EXCEPT ![l] = e]
      BY <1>1, <1>3 DEF HandlePending, Types
    <3> QED BY <3>1 DEF Interrupted, Request
  <2>4. \/ call' = [call EXCEPT ![l] = "out"]
        \/ call' = [call EXCEPT ![l] = "sent"]
        \/ call' = call
    BY DEF Interrupted, HandlePending, Request
  <2> QED BY <2>1, <2>2, <2>3, <2>4
<1>6. /\ data'[l] \in {data[l], e} /\ call'[l] \in {"out", "sent", "loop"}
      /\ \A q \in Loops \ {l} : Still(q)
  BY <1>1, <1>5 DEF Types, Still, Same
<1>7. Types'
  <2>1. /\ data' \in [Loops -> AgentData]
        /\ call' \in [Loops -> {"out", "loop", "sent", "generating"}]
    BY <1>1, <1>5 DEF Types
  <2> QED BY <1>1, <1>5, <2>1 DEF Types, control
<1>8. Response(l)'
  <2>1. data[l].state \notin {"none", "terminated"}
    BY <1>1 DEF Response, Finished
  <2>2. Aligned(e) /\ Within(e, version)
    BY <1>1, <1>4 DEF Response, Aligned, Within
  <2>3. CASE data'[l] = data[l]
    BY <1>1, <1>2, <1>6, <2>1, <2>3 DEF Response, Finished
  <2>4. CASE data'[l] = e
    BY <1>1, <1>2, <1>4, <1>6, <2>2, <2>4 DEF Response, Finished
  <2> QED BY <1>6, <2>3, <2>4
<1>9. Event(l)' /\ Stamps(l)'
  BY <1>1, <1>4, <1>6, StampStays DEF Event
<1> QED BY <1>1, <1>6, <1>7, <1>8, <1>9, LoopKeeps

LEMMA ProcessToolsStep ==
    ASSUME PartialGenerationAssumption, Inv, NEW l \in Loops, ProcessTools(l)
    PROVE  Inv'
<1>1. PICK d \in AgentData : d = data[l]
  BY TypesOf
<1> DEFINE ends == Len(d.mask) + ToolLen >= ResponseLength
           answered == [d EXCEPT !.state = "generating", !.user = @ + 1,
                                 !.ids = @ \o Replicate(ToolLen, ToolToken),
                                 !.mask = @ \o Replicate(ToolLen, MaskTool),
                                 !.logprobs = IF @ = 0 THEN 0 ELSE @ + ToolLen]
           stopped == [d EXCEPT !.state = "terminated"]
           e == HandleTools(d)
<1>2. /\ Types /\ Response(l) /\ Stamps(l) /\ call[l] = "loop" /\ d.state = "processing_tools"
      /\ output[l] = <<>> /\ UNCHANGED <<server, event, output, generated, control>>
      /\ d.ids \in Seq(Token) /\ Len(d.ids) \in Nat /\ Len(d.mask) = Len(d.ids)
      /\ d.mask \in Seq({0, 1}) /\ version \in Versions
  BY <1>1, TypesOf DEF ProcessTools, Runs, Response, Aligned
<1>3. version' = version
  BY <1>2 DEF control
<1>4. Aligned(d) /\ Within(d, version) /\ d.ids # <<>>
      /\ generated[l] = Cardinality(ModelTokens(d.ids)) + Len(output[l])
      /\ Len(d.ids) + Len(output[l]) <= MaxTokens
  BY <1>1, <1>2 DEF Response
<1>5. e \in AgentData /\ Aligned(e) /\ Within(e, version)
      /\ e.state = (IF ends THEN "terminated" ELSE "generating")
      /\ e.stamp = d.stamp /\ e.between = d.between
      /\ (e.state = "terminated" => e.end = e.stamp)
      /\ Len(e.ids) <= MaxTokens /\ ModelTokens(e.ids) = ModelTokens(d.ids)
  <2>1. CASE ends
    <3>1. stopped \in AgentData /\ stopped.state = "terminated" /\ stopped.stamp = d.stamp
      BY DEF AgentData, LoopStates
    <3>2. e = [stopped EXCEPT !.end = d.stamp]
      BY <2>1, <3>1 DEF HandleTools, Stamped
    <3>3. /\ e \in AgentData /\ e.state = "terminated" /\ e.end = d.stamp /\ e.ids = d.ids
          /\ e.mask = d.mask /\ e.logprobs = d.logprobs /\ e.start = d.start
          /\ e.stamp = d.stamp /\ e.between = d.between
      <4> HIDE DEF e
      <4> QED BY <1>2, <3>1, <3>2 DEF AgentData
    <3> HIDE DEF e
    <3>4. Aligned(e) /\ Within(e, version)
      BY <1>4, <3>3 DEF Aligned, Within
    <3>5. Len(d.ids) <= MaxTokens
      BY <1>2, <1>4, Constants
    <3> QED BY <2>1, <3>3, <3>4, <3>5
  <2>2. CASE ~ends
    <3>1. PICK n \in Nat : n = ToolLen /\ Len(d.ids) + n <= MaxTokens
      BY <1>2, <2>2, Constants
    <3>2. PICK t \in Seq(Token) : t = Replicate(ToolLen, ToolToken) /\ Len(t) = n
              /\ \A i \in 1 .. n : t[i] = ToolToken
      BY <3>1, Replicated DEF Token
    <3>3. PICK z \in Seq({0, 1}) : z = Replicate(Len(t), 0) /\ z = Replicate(ToolLen, MaskTool)
      BY <3>1, <3>2, Replicated DEF MaskTool
    <3>4. PICK ids \in Seq(Token), mask \in Seq({0, 1}) : ids = d.ids \o t /\ mask = d.mask \o z
      BY <1>2, Joined
    <3>5. d.logprobs \in Nat /\ d.logprobs # 0
      <4>1. d.logprobs = Len(d.ids)
        BY <1>4 DEF Aligned
      <4>2. Len(d.ids) # 0
        BY <1>2, <1>4
      <4> QED BY <1>2, <4>1, <4>2
    <3>6. d.user + 1 \in Nat /\ d.logprobs + n \in Nat
      BY <3>5 DEF AgentData
    <3>7. PICK user \in Nat, logprobs \in Nat : user = d.user + 1 /\ logprobs = d.logprobs + n
      BY <3>6
    <3>8. answered = [d EXCEPT !.state = "generating", !.user = user, !.ids = ids, !.mask = mask,
                               !.logprobs = logprobs]
      BY <3>1, <3>2, <3>3, <3>4, <3>5, <3>7
    <3> HIDE DEF answered
    <3>9. /\ answered \in AgentData /\ answered.state = "generating" /\ answered.ids = d.ids \o t
          /\ answered.mask = d.mask \o z /\ answered.logprobs = d.logprobs + n
          /\ answered.start = d.start /\ answered.stamp = d.stamp
          /\ answered.between = d.between
      BY <3>4, <3>7, <3>8 DEF AgentData, LoopStates
    <3>10. e = answered
      BY <2>2 DEF HandleTools, answered
    <3> HIDE DEF e
    <3>11. Aligned(e) /\ Len(e.ids) = Len(d.ids) + n
      <4>1. \A i \in 1 .. Len(t) : 0 = 1 <=> t[i] # ToolToken
        BY <3>2
      <4>2. e \in AgentData /\ e.ids = d.ids \o t /\ e.mask = d.mask \o Replicate(Len(t), 0)
            /\ e.logprobs = d.logprobs + Len(t)
        BY <3>2, <3>3, <3>9, <3>10
      <4> QED BY <1>4, <3>2, <4>1, <4>2, Longer
    <3>12. Within(e, version)
      <4>1. \A i \in 1 .. Len(t) : t[i] # ToolToken => t[i] = version
        BY <3>2
      <4> QED BY <1>2, <1>4, <3>9, <3>10, <4>1, WithinLonger
    <3>13. ModelTokens(e.ids) = ModelTokens(d.ids)
      <4>1. e.ids = d.ids \o Replicate(n, ToolToken)
        BY <3>1, <3>2, <3>9, <3>10
      <4> QED BY <1>2, <4>1, GeneratedByTools
    <3> QED BY <2>2, <3>1, <3>9, <3>10, <3>11, <3>12, <3>13
  <2> QED BY <2>1, <2>2
<1>6. data' = [data EXCEPT ![l] = e]
  BY <1>1 DEF ProcessTools
<1> HIDE DEF e, ends
<1>7. data'[l] = e /\ \A q \in Loops \ {l} : data'[q] = data[q]
  BY <1>2, <1>6 DEF Types
<1>8. call' = [call EXCEPT ![l] = IF e.state = "terminated" THEN "out" ELSE "loop"]
  BY <1>7 DEF ProcessTools
<1>9. /\ call'[l] = (IF e.state = "terminated" THEN "out" ELSE "loop")
      /\ \A q \in Loops \ {l} : Still(q)
  BY <1>2, <1>7, <1>8 DEF Types, Still, Same
<1>10. Types'
  <2>1. data' \in [Loops -> AgentData] /\ call' \in [Loops -> {"out", "loop", "sent", "generating"}]
    BY <1>2, <1>5, <1>6, <1>8 DEF Types
  <2> QED BY <1>2, <2>1 DEF Types, control
<1>11. Response(l)'
  <2>1. e.state \in {"terminated", "generating"} /\ output'[l] = <<>> /\ generated' = generated
    BY <1>2, <1>5
  <2>2. Finished(l)' => call'[l] = "out" /\ Within(e, e.end + Over(e))
    <3>1. version <= d.stamp + Over(d) /\ Over(e) = Over(d)
      BY <1>1, <1>2, <1>5 DEF Stamps, Over
    <3>2. version <= e.stamp + Over(e) /\ e.stamp + Over(e) \in Nat /\ version \in Nat
      <4>1. e.stamp \in Nat /\ version \in Nat
        BY <1>2, <1>5, Constants DEF AgentData
      <4> QED BY <1>5, <3>1, <4>1, OverIsNat
    <3>3. Within(e, e.stamp + Over(e))
      BY <1>5, <3>2, WithinLater
    <3> QED BY <1>5, <1>7, <1>9, <3>3 DEF Finished
  <2>3. Len(e.ids) + Len(output'[l]) <= MaxTokens
    <3>1. Len(output'[l]) = 0
      BY <2>1
    <3>2. e.ids \in Seq(Token) /\ Len(e.ids) \in Nat
      BY <1>5 DEF AgentData
    <3> QED BY <1>5, <3>1, <3>2
  <2>4. generated'[l] = Cardinality(ModelTokens(e.ids)) + Len(output'[l])
    BY <1>2, <1>4, <1>5
  <2>5. \A i \in 1 .. Len(output'[l]) : output'[l][i] = version'
    BY <2>1
  <2> QED BY <1>3, <1>5, <1>7, <2>1, <2>2, <2>3, <2>4, <2>5 DEF Response
<1>12. Event(l)' /\ Stamps(l)'
  BY <1>1, <1>2, <1>5, <1>7, <1>9, StampStays DEF Event
<1> QED BY <1>2, <1>9, <1>10, <1>11, <1>12, LoopKeeps

LEMMA ReceiveStep ==
    ASSUME PartialGenerationAssumption, Inv, NEW l \in Loops, Receive(l)
    PROVE  Inv'
<1>1. /\ Types /\ Response(l) /\ call[l] = "sent" /\ output[l] = <<>> /\ server[l] \in Servers
      /\ output' = [output EXCEPT ![l] = <<>>] /\ UNCHANGED <<server, generated, control>>
  BY TypesOf DEF Receive, Response
<1>2. CASE paused[server[l]]
  <2>1. Reply(l, output[l], TRUE) /\ event' = event
    BY <1>1, <1>2 DEF Receive
  <2>2. /\ event' \in [Servers -> [Loops -> {"none", "clear", "set"}]]
        /\ \A s \in Servers : \A q \in Loops \ {l} : event'[s][q] = event[s][q]
    BY <1>1, <2>1 DEF Types
  <2> QED BY <1>1, <2>1, <2>2, ReplyKeeps
<1>3. CASE ~paused[server[l]]
  <2>1. /\ call' = [call EXCEPT ![l] = "generating"] /\ data' = data
        /\ event' = [event EXCEPT ![server[l]][l] = "clear"]
    BY <1>1, <1>3 DEF Receive, Registered
  <2>2. output' = output
    BY <1>1 DEF Types
  <2>3. /\ event' \in [Servers -> [Loops -> {"none", "clear", "set"}]]
        /\ event'[server[l]][l] = "clear"
        /\ \A s \in Servers : \A q \in Loops \ {l} : event'[s][q] = event[s][q]
    BY <1>1, <2>1 DEF Types
  <2>4. call'[l] = "generating" /\ \A q \in Loops \ {l} : Still(q)
    BY <1>1, <2>1, <2>2, <2>3 DEF Types, Still, Same
  <2>5. Types'
    <3>1. call' \in [Loops -> {"out", "loop", "sent", "generating"}]
      BY <1>1, <2>1 DEF Types
    <3> QED BY <1>1, <2>1, <2>2, <2>3, <3>1 DEF Types, control
  <2>6. Response(l)'
    <3>1. data[l].state \notin {"none", "terminated"}
      BY <1>1 DEF Response, Finished
    <3> QED BY <1>1, <2>1, <2>2, <2>4, <3>1 DEF Response, Finished, control
  <2>7. Event(l)' /\ Stamps(l)'
    <3>1. Event(l)'
      BY <1>1, <1>3, <2>3 DEF Event, control
    <3>2. Stamps(l)'
      BY <1>1, <1>3, <2>1, StampStays
    <3> QED BY <3>1, <3>2
  <2> QED BY <1>1, <2>4, <2>5, <2>6, <2>7, LoopKeeps
<1> QED BY <1>2, <1>3

LEMMA ReturnStep ==
    ASSUME PartialGenerationAssumption, Inv, NEW l \in Loops, Return(l)
    PROVE  Inv'
<1>1. /\ Types /\ call[l] = "generating" /\ Reply(l, output[l], ~EngineDone(l))
      /\ server[l] \in Servers
      /\ output' = [output EXCEPT ![l] = <<>>] /\ UNCHANGED <<server, generated, control>>
      /\ event' = event \/ event' = [event EXCEPT ![server[l]][l] = "none"]
  BY TypesOf DEF Return
<1>2. /\ event' \in [Servers -> [Loops -> {"none", "clear", "set"}]]
      /\ \A s \in Servers : \A q \in Loops \ {l} : event'[s][q] = event[s][q]
  <2>1. CASE event' = event
    BY <1>1, <2>1 DEF Types
  <2>2. CASE event' = [event EXCEPT ![server[l]][l] = "none"]
    BY <1>1, <2>2 DEF Types
  <2> QED BY <1>1, <2>1, <2>2
<1>3. CASE EngineDone(l)
  <2>1. Reply(l, output[l], FALSE)
    BY <1>1, <1>3
  <2> QED BY <1>1, <1>2, <1>3, <2>1, ReplyKeeps
<1>4. CASE ~EngineDone(l)
  <2>1. Reply(l, output[l], TRUE)
    BY <1>1, <1>4
  <2> QED BY <1>1, <1>2, <2>1, ReplyKeeps
<1> QED BY <1>3, <1>4

LEMMA GenerateStep ==
    ASSUME PartialGenerationAssumption, Inv, NEW l \in Loops, Generate(l)
    PROVE  Inv'
<1>1. /\ Types /\ Response(l) /\ Event(l) /\ call[l] = "generating" /\ ~EngineDone(l)
      /\ output' = [output EXCEPT ![l] = Append(@, version)]
      /\ generated' = [generated EXCEPT ![l] = @ + 1]
      /\ UNCHANGED <<data, call, server, event, control>>
      /\ output[l] \in Seq(Versions) /\ version \in Versions /\ generated[l] \in Nat
      /\ data[l].ids \in Seq(Token) /\ server[l] \in Servers
  BY TypesOf DEF Generate
<1>2. PICK t \in Seq(Versions) : t = Append(output[l], version)
  <2>1. Append(output[l], version) \in Seq(Versions)
    BY <1>1
  <2> QED BY <2>1
<1>3. PICK m \in Nat, n \in Nat : m = Len(data[l].ids) /\ n = Len(output[l])
  BY <1>1
<1>4. /\ output'[l] = t /\ Len(t) = n + 1 /\ generated'[l] = generated[l] + 1
      /\ \A q \in Loops \ {l} : Still(q)
  <2>1. Len(t) = n + 1
    BY <1>1, <1>2, <1>3
  <2>2. output'[l] = t /\ generated'[l] = generated[l] + 1
        /\ \A q \in Loops \ {l} : output'[q] = output[q] /\ generated'[q] = generated[q]
    BY <1>1, <1>2 DEF Types
  <2> QED BY <1>1, <2>1, <2>2 DEF Still, Same
<1>5. Types'
  <2>1. generated[l] + 1 \in Nat
    BY <1>1
  <2>2. output' \in [Loops -> Seq(Versions)]
    BY <1>1, <1>2 DEF Types
  <2>3. generated' \in [Loops -> Nat]
    BY <1>1, <2>1 DEF Types
  <2> QED BY <1>1, <2>2, <2>3 DEF Types, control
<1>6. m + n + 1 <= MaxTokens
  <2>1. m + n <= MaxTokens /\ m + n # MaxTokens
    <3>1. Len(data[l].ids) + Len(output[l]) # MaxTokens
      BY <1>1 DEF EngineDone
    <3>2. Len(data[l].ids) + Len(output[l]) <= MaxTokens
      BY <1>1 DEF Response
    <3>3. Len(data[l].ids) + Len(output[l]) = m + n
      BY <1>3, Zenon
    <3>4. m + n # MaxTokens
      BY <3>1, <3>3, Zenon
    <3>5. m + n <= MaxTokens
      BY <3>2, <3>3, Zenon
    <3> QED BY <3>4, <3>5
  <2>2. MaxTokens \in Nat
    BY Constants
  <2> QED BY <2>1, <2>2
<1>7. Response(l)'
  <2>1. \A i \in 1 .. Len(t) : t[i] = version
    <3>1. \A i \in 1 .. n : output[l][i] = version
      BY <1>1, <1>3 DEF Response
    <3>2. ASSUME NEW i \in 1 .. n + 1
          PROVE  t[i] = version
      <4>1. CASE i \in 1 .. n
        BY <1>1, <1>2, <1>3, <3>1, <4>1
      <4>2. CASE i = n + 1
        BY <1>1, <1>2, <1>3, <4>2
      <4> QED BY <4>1, <4>2
    <3> QED BY <1>4, <3>2
  <2>2. generated'[l] = Cardinality(ModelTokens(data[l].ids)) + Len(t)
    <3>1. Cardinality(ModelTokens(data[l].ids)) \in Nat
      <4>1. <<>> \in Seq(Versions)
        OBVIOUS
      <4> QED BY <1>1, <4>1, Generated
    <3>2. generated[l] = Cardinality(ModelTokens(data[l].ids)) + n
      BY <1>1, <1>3 DEF Response
    <3> QED BY <1>3, <1>4, <3>1, <3>2
  <2>3. Len(data[l].ids) + Len(t) <= MaxTokens
    <3>1. Len(data[l].ids) + Len(t) = m + (n + 1)
      BY <1>3, <1>4, Zenon
    <3>2. m + (n + 1) = m + n + 1
      OBVIOUS
    <3> QED BY <1>6, <3>1, <3>2, Zenon
  <2>4. data[l].state \notin {"none", "terminated"}
    BY <1>1 DEF Response, Finished
  <2> QED BY <1>1, <1>4, <2>1, <2>2, <2>3, <2>4 DEF Response, Finished, control
<1>8. Event(l)' /\ Stamps(l)'
  <2>1. Event(l)'
    BY <1>1 DEF Event, control
  <2>2. Stamps(l)'
    BY <1>1, StampStays
  <2> QED BY <2>1, <2>2
<1> QED BY <1>1, <1>4, <1>5, <1>7, <1>8, LoopKeeps

-----------------------------------------------------------------------------
(* The steps of the rollouter.                                             *)

LEMMA SubmitStep ==
    ASSUME PartialGenerationAssumption, Inv, Submit
    PROVE  Inv'
<1> DEFINE now == CurrentParamVersion
           between == phase \in {"paused", "moved"}
           new(l) == [FromSaved(data[l]) EXCEPT !.stamp = now, !.between = between]
<1>1. /\ phase \in {"run", "paused", "moved", "updated"} /\ \A l \in Loops : call[l] = "out"
      /\ call' = [l \in Loops |-> IF l \in Unfinished THEN "loop" ELSE "out"]
      /\ data' = [l \in Loops |-> IF Finished(l) THEN data[l] ELSE new(l)]
      /\ UNCHANGED <<server, event, output, generated, control>>
  BY DEF Submit
<1>2. Types /\ Phases /\ version \in Versions /\ version \in Nat
  BY Constants DEF Inv, Types
<1>3. /\ now \in Versions /\ now <= version /\ between \in BOOLEAN
      /\ version <= now + (IF between THEN 1 ELSE 0)
      /\ phase = "paused" => between /\ version <= now
  BY <1>2, Constants DEF CurrentParamVersion, Phases
<1> HIDE DEF now, between
<1>4. UNCHANGED <<paused, cancelled, phase, told, version>>
  BY <1>1 DEF control
\* What a loop starts with.
<1>5. ASSUME NEW l \in Loops, ~Finished(l)
      PROVE  /\ new(l) \in AgentData /\ new(l).state \notin {"none", "terminated"}
             /\ new(l).ids = data[l].ids /\ new(l).stamp = now /\ new(l).between = between
             /\ Aligned(new(l)) /\ Within(new(l), version)
             /\ new(l).state = "processing_tools" => new(l).ids # <<>>
  <2>1. PICK d \in AgentData : d = data[l]
    BY TypesOf
  <2>2. PICK f : f = FromSaved(d)
    OBVIOUS
  <2>3. Response(l) /\ d.state # "terminated"
    BY <1>5, <2>1, TypesOf DEF Finished
  <2>4. /\ f \in AgentData /\ f.state \notin {"none", "terminated"} /\ f.ids = d.ids
        /\ Aligned(f) /\ Within(f, version)
        /\ f.state = "processing_tools" => f.ids # <<>>
    <3>1. CASE d.state = "none"
      <4>1. f = [d EXCEPT !.state = "pending", !.start = now, !.end = now]
        BY <2>2, <3>1 DEF FromSaved, now
      <4>2. /\ f \in AgentData /\ f.state = "pending" /\ f.ids = d.ids /\ f.mask = d.mask
            /\ f.logprobs = d.logprobs /\ f.start = now
        BY <1>3, <4>1 DEF AgentData, LoopStates
      <4>3. d.ids = <<>>
        BY <2>1, <2>3, <3>1 DEF Response, Fresh
      <4>4. Aligned(f)
        BY <2>1, <2>3, <4>2 DEF Response, Aligned
      <4>5. Within(f, version)
        BY <1>3, <4>2, <4>3 DEF Within
      <4> QED BY <4>2, <4>4, <4>5
    <3>2. CASE d.state # "none"
      BY <2>1, <2>2, <2>3, <3>2 DEF FromSaved, Response
    <3> QED BY <3>1, <3>2
  <2>5. new(l) = [f EXCEPT !.stamp = now, !.between = between]
    BY <2>1, <2>2
  <2>6. PICK e : e = new(l)
    OBVIOUS
  <2>7. /\ e \in AgentData /\ e.state = f.state /\ e.ids = f.ids /\ e.mask = f.mask
        /\ e.logprobs = f.logprobs /\ e.start = f.start /\ e.stamp = now /\ e.between = between
    BY <1>3, <2>4, <2>5, <2>6 DEF AgentData
  <2>8. Aligned(e) /\ Within(e, version)
    BY <2>4, <2>7 DEF Aligned, Within
  <2> QED BY <2>1, <2>4, <2>6, <2>7, <2>8
<1> HIDE DEF new
<1>6. Types'
  <2>1. data' \in [Loops -> AgentData]
    BY <1>1, <1>2, <1>5 DEF Types
  <2>2. call' \in [Loops -> {"out", "loop", "sent", "generating"}]
    BY <1>1
  <2> QED BY <1>1, <1>2, <1>4, <2>1, <2>2 DEF Types
<1>7. Phases'
  BY <1>2, <1>4 DEF Phases
<1>8. ASSUME NEW l \in Loops
      PROVE  Response(l)' /\ Event(l)' /\ Stamps(l)'
  <2>1. Response(l) /\ call[l] = "out" /\ call'[l] = (IF Finished(l) THEN "out" ELSE "loop")
    BY <1>1, TypesOf DEF Unfinished
  <2>2. CASE Finished(l)
    <3>1. data'[l] = data[l] /\ call'[l] = "out"
      BY <1>1, <2>1, <2>2
    <3> QED BY <1>1, <1>4, <2>1, <2>2, <3>1 DEF Response, Event, Stamps, Finished
  <2>3. CASE ~Finished(l)
    <3>1. data'[l] = new(l) /\ call'[l] = "loop" /\ ~Finished(l)'
      BY <1>1, <1>5, <2>1, <2>3 DEF Finished
    <3>2. Response(l)'
      BY <1>1, <1>4, <1>5, <2>1, <2>3, <3>1 DEF Response
    <3>3. Stamps(l)'
      BY <1>3, <1>4, <1>5, <2>3, <3>1 DEF Stamps, Over
    <3> QED BY <3>1, <3>2, <3>3 DEF Event
  <2> QED BY <2>2, <2>3
<1> QED BY <1>6, <1>7, <1>8 DEF Inv

\* What changes neither the loops nor the weights keeps every response.
LEMMA ControlKeeps ==
    ASSUME Inv, UNCHANGED <<data, call, server, output, version, generated>>,
           Types', Phases', \A l \in Loops : Event(l)' /\ Stamps(l)'
    PROVE  Inv'
<1>1. ASSUME NEW l \in Loops
      PROVE  Response(l)'
  <2>1. Same(l)
    BY DEF Same
  <2> QED BY <2>1, StillHolds
<1> QED BY <1>1 DEF Inv

\* Steps that reach no server and wait for no loop.
LEMMA ControlStep ==
    ASSUME PartialGenerationAssumption, Inv,
           \/ PauseStarts \/ CancelWorker \/ UpdateParamVersion
           \/ ResumeStarts \/ ResumeWorker \/ Resumed
    PROVE  Inv'
<1>1. /\ UNCHANGED <<data, call, server, paused, event, output, version, generated>>
      /\ Types /\ Phases
  BY DEF Inv, PauseStarts, CancelWorker, UpdateParamVersion, ResumeStarts, ResumeWorker, Resumed
<1>2. \/ phase = "run" /\ version < MaxVersion /\ phase' = "cancel" /\ told' = {}
      \/ phase = "cancel" /\ phase' = phase /\ told' = told \cup {"worker"}
      \/ phase = "moved" /\ phase' = "updated" /\ told' = told
      \/ phase = "updated" /\ phase' = "resume" /\ told' = {}
      \/ phase = "resume" /\ phase' = phase /\ told' = told \cup {"worker"}
      \/ phase = "resume" /\ phase' = "run" /\ told' = told
  BY DEF PauseStarts, CancelWorker, UpdateParamVersion, ResumeStarts, ResumeWorker, Resumed
<1>3. Types'
  <2>1. cancelled' \in BOOLEAN
    BY <1>1 DEF Types, PauseStarts, CancelWorker, UpdateParamVersion, ResumeStarts, ResumeWorker,
                Resumed, Cleared
  <2>2. phase' \in PhaseNames
    BY <1>2 DEF PhaseNames
  <2>3. told' \subseteq Servers \cup {"worker"}
    BY <1>1, <1>2 DEF Types
  <2> QED BY <1>1, <2>1, <2>2, <2>3 DEF Types
<1>4. Phases'
  BY <1>1, <1>2, Constants DEF Phases
<1>5. ASSUME NEW l \in Loops
      PROVE  Event(l)' /\ Stamps(l)'
  <2>1. Event(l) /\ Stamps(l) /\ server[l] \in Servers
    BY TypesOf
  <2>2. phase' # "paused"
    BY <1>2
  <2>3. phase' \notin {"run", "cancel"} => phase \notin {"run", "cancel"}
    BY <1>2
  <2> QED BY <1>1, <2>1, <2>2, <2>3 DEF Event, Stamps
<1> QED BY <1>1, <1>3, <1>4, <1>5, ControlKeeps

LEMMA CancelServerStep ==
    ASSUME PartialGenerationAssumption, Inv, NEW s \in Servers, CancelServer(s)
    PROVE  Inv'
<1>1. /\ phase = "cancel" /\ told' = told \cup {s}
      /\ paused' = [paused EXCEPT ![s] = TRUE]
      /\ event' = [event EXCEPT ![s] = [l \in Loops |-> Set(@[l])]]
      /\ UNCHANGED <<data, call, server, output, cancelled, phase, version, generated>>
      /\ Types /\ Phases
  BY DEF CancelServer, Inv
<1>2. /\ event'[s] = [l \in Loops |-> Set(event[s][l])] /\ paused'[s] = TRUE
      /\ \A x \in Servers \ {s} : event'[x] = event[x] /\ paused'[x] = paused[x]
  BY <1>1 DEF Types
<1>3. Types'
  <2>1. [l \in Loops |-> Set(event[s][l])] \in [Loops -> {"none", "clear", "set"}]
    BY <1>1 DEF Types, Set
  <2>2. /\ event' \in [Servers -> [Loops -> {"none", "clear", "set"}]]
        /\ paused' \in [Servers -> BOOLEAN]
    BY <1>1, <1>2, <2>1 DEF Types
  <2>3. told' \subseteq Servers \cup {"worker"}
    BY <1>1 DEF Types
  <2> QED BY <1>1, <2>2, <2>3 DEF Types
<1>4. Phases'
  BY <1>1, <1>2 DEF Phases
<1>5. ASSUME NEW l \in Loops
      PROVE  Event(l)' /\ Stamps(l)'
  <2>1. Event(l) /\ Stamps(l) /\ server[l] \in Servers
    BY TypesOf
  <2>2. CASE server[l] = s
    <3>1. call[l] = "generating" => event'[s][l] = "set"
      BY <1>2, <2>1, <2>2 DEF Event, Set
    <3> QED BY <1>1, <1>2, <2>1, <2>2, <3>1 DEF Event, Stamps
  <2>3. CASE server[l] # s
    BY <1>1, <1>2, <2>1, <2>3 DEF Event, Stamps
  <2> QED BY <2>2, <2>3
<1> QED BY <1>1, <1>3, <1>4, <1>5, ControlKeeps

\* The event of a request that a resumed server runs is clear already.
LEMMA ResumeServerStep ==
    ASSUME PartialGenerationAssumption, Inv, NEW s \in Servers, ResumeServer(s)
    PROVE  Inv'
<1>1. /\ phase = "resume" /\ told' = told \cup {s} /\ paused' = [paused EXCEPT ![s] = FALSE]
      /\ UNCHANGED <<data, call, server, event, output, cancelled, phase, version, generated>>
      /\ Types /\ Phases
  BY DEF ResumeServer, Inv
<1>2. paused'[s] = FALSE /\ \A x \in Servers \ {s} : paused'[x] = paused[x]
  BY <1>1 DEF Types
<1>3. Types'
  <2>1. told' \subseteq Servers \cup {"worker"} /\ paused' \in [Servers -> BOOLEAN]
    BY <1>1 DEF Types
  <2> QED BY <1>1, <2>1 DEF Types
<1>4. Phases'
  BY <1>1 DEF Phases
<1>5. ASSUME NEW l \in Loops
      PROVE  Event(l)' /\ Stamps(l)'
  <2>1. Event(l) /\ Stamps(l) /\ server[l] \in Servers
    BY TypesOf
  <2>2. call[l] = "generating" => ~paused[server[l]] /\ event[server[l]][l] = "clear"
    BY <1>1, <2>1 DEF Event, Stamps
  <2>3. call[l] = "generating" => ~paused'[server[l]]
    BY <1>2, <2>1, <2>2
  <2>4. Event(l)'
    BY <1>1, <2>2, <2>3 DEF Event
  <2>5. Stamps(l)'
    BY <1>1, <2>1, <2>3 DEF Stamps
  <2> QED BY <2>4, <2>5
<1> QED BY <1>1, <1>3, <1>4, <1>5, ControlKeeps

LEMMA PauseEndsStep ==
    ASSUME PartialGenerationAssumption, Inv, PauseEnds
    PROVE  Inv'
<1>1. /\ phase = "cancel" /\ phase' = "paused" /\ told = Servers \cup {"worker"}
      /\ \A l \in Loops : call[l] = "out"
      /\ UNCHANGED <<data, call, server, paused, event, output, cancelled, told, version>>
      /\ generated' = generated
      /\ Types /\ Phases
  BY DEF PauseEnds, AllReturned, Inv
<1>2. Types'
  BY <1>1 DEF Types, PhaseNames
<1>3. Phases'
  BY <1>1 DEF Phases
<1>4. ASSUME NEW l \in Loops
      PROVE  Event(l)' /\ Stamps(l)'
  BY <1>1 DEF Event, Stamps
<1> QED BY <1>1, <1>2, <1>3, <1>4, ControlKeeps

\* The weights change when every server is paused, so that no request is running.
LEMMA SynchronizeStep ==
    ASSUME PartialGenerationAssumption, Inv, Synchronize
    PROVE  Inv'
<1>1. /\ phase = "paused" /\ version' = version + 1 /\ phase' = "moved"
      /\ UNCHANGED <<data, call, server, paused, event, output, cancelled, told, generated>>
  BY DEF Synchronize
<1>2. Types /\ Phases /\ version \in Versions /\ version' \in Versions /\ version \in Nat
  BY <1>1, Constants DEF Inv, Types, Phases
<1>3. Types' /\ Phases'
  BY <1>1, <1>2, Constants DEF Types, Phases, PhaseNames
<1>4. ASSUME NEW l \in Loops
      PROVE  Response(l)' /\ Event(l)' /\ Stamps(l)'
  <2>1. Response(l) /\ Event(l) /\ Stamps(l) /\ data[l] \in AgentData /\ server[l] \in Servers
    BY TypesOf
  <2>2. call[l] # "generating" /\ output[l] = <<>>
    BY <1>1, <1>2, <2>1 DEF Phases, Stamps, Response
  <2>3. PICK d \in AgentData : d = data[l]
    BY <2>1
  <2>4. Within(d, version + 1)
    <3>1. Within(d, version) /\ version <= version + 1 /\ version + 1 \in Nat
      BY <1>2, <2>1, <2>3 DEF Response
    <3> QED BY <1>2, <3>1, WithinLater
  <2>5. \A i \in 1 .. Len(output'[l]) : output'[l][i] = version'
    BY <1>1, <2>2
  <2>6. Response(l)'
    BY <1>1, <2>1, <2>3, <2>4, <2>5 DEF Response, Finished
  <2>7. Event(l)'
    BY <1>1, <2>2 DEF Event
  <2>8. Stamps(l)'
    <3>1. call[l] # "out" => d.between /\ version <= d.stamp
      BY <1>1, <2>1, <2>3 DEF Stamps
    <3>2. d.stamp \in Nat
      BY Constants DEF AgentData
    <3>3. call[l] # "out" => version + 1 <= d.stamp + Over(d)
      BY <1>2, <3>1, <3>2 DEF Over
    <3> QED BY <1>1, <2>2, <2>3, <3>3 DEF Stamps
  <2> QED BY <2>6, <2>7, <2>8
<1> QED BY <1>3, <1>4 DEF Inv

-----------------------------------------------------------------------------
(* The theorems.                                                           *)

LEMMA StepKeeps ==
    ASSUME PartialGenerationAssumption, Inv, [Next]_vars
    PROVE  Inv'
<1>1. ASSUME NEW l \in Loops, LoopStep(l)
      PROVE  Inv'
  BY <1>1, SmallSteps, ProcessToolsStep, ReceiveStep, GenerateStep, ReturnStep DEF LoopStep
<1>2. CASE Submit
  BY <1>2, SubmitStep
<1>3. CASE PauseStarts
  BY <1>3, ControlStep
<1>4. CASE Control
  BY <1>4, ControlStep, CancelServerStep, ResumeServerStep, PauseEndsStep, SynchronizeStep
  DEF Control
<1>5. CASE UNCHANGED vars
  <2>1. UNCHANGED <<data, call, server, paused, event, output, cancelled, phase, told, version,
                    generated>>
    BY <1>5 DEF vars
  <2> QED BY <2>1 DEF Inv, Types, Phases, Response, Event, Stamps, Finished
<1> QED BY <1>1, <1>2, <1>3, <1>4, <1>5 DEF Next, Done

LEMMA Always ==
    ASSUME PartialGenerationAssumption
    PROVE  Spec => []Inv
<1>1. Init => Inv
  BY AtStart
<1>2. Inv /\ [Next]_vars => Inv'
  BY StepKeeps
<1> QED BY <1>1, <1>2, PTL DEF Spec

\* The variables keep their types, and a response, with what its running request has,
\* never outgrows the server's context, however often it was interrupted.
THEOREM TypeCorrect ==
    ASSUME PartialGenerationAssumption
    PROVE  Spec => []TypeOK
<1>1. ASSUME Inv
      PROVE  TypeOK
  <2>1. Types
    BY <1>1 DEF Inv
  <2>2. ASSUME NEW l \in Loops
        PROVE  /\ data[l].state \in {"none", "pending", "generating", "processing_tools",
                                     "terminated"}
               /\ data[l].ids \in Seq(Versions \cup {ToolToken}) /\ data[l].mask \in Seq({0, 1})
               /\ output[l] \in Seq(Versions)
               /\ Len(data[l].ids) + Len(output[l]) <= MaxTokens
    <3>1. data[l] \in AgentData /\ output[l] \in Seq(Versions) /\ Response(l)
      BY <1>1, TypesOf
    <3> QED BY <3>1 DEF AgentData, LoopStates, Token, Response
  <2> QED BY <2>1, <2>2 DEF TypeOK, Types, PhaseNames
<1> QED BY <1>1, Always, PTL

\* MaskMarksModelTokens: response_mask and response_logprobs stay as long as the response
\* through every interruption, and mark exactly what the model generated.
THEOREM MaskAligned ==
    ASSUME PartialGenerationAssumption
    PROVE  Spec => []MaskMarksModelTokens
<1>1. ASSUME Inv
      PROVE  MaskMarksModelTokens
  <2> SUFFICES ASSUME NEW l \in Loops
               PROVE  /\ Len(data[l].mask) = Len(data[l].ids)
                      /\ data[l].logprobs = Len(data[l].ids)
                      /\ {i \in DOMAIN data[l].mask : data[l].mask[i] = 1}
                           = ModelTokens(data[l].ids)
    BY DEF MaskMarksModelTokens
  <2>1. Aligned(data[l]) /\ data[l].ids \in Seq(Token) /\ data[l].mask \in Seq({0, 1})
    BY <1>1, TypesOf DEF Response
  <2>2. /\ DOMAIN data[l].mask = 1 .. Len(data[l].ids)
        /\ DOMAIN data[l].ids = 1 .. Len(data[l].ids)
    BY <2>1 DEF Aligned
  <2> QED BY <2>1, <2>2 DEF Aligned, ModelTokens
<1> QED BY <1>1, Always, PTL

\* NothingRegenerated: every token an engine generated for a loop is in its response or in
\* its running request. An interruption loses none, and a resumed request repeats none.
THEOREM NothingTwice ==
    ASSUME PartialGenerationAssumption
    PROVE  Spec => []NothingRegenerated
<1>1. Inv => NothingRegenerated
  BY DEF Inv, Response, NothingRegenerated
<1> QED BY <1>1, Always, PTL

\* CancelledWhilePaused: cancel() reaches every running request, whether it came to the
\* server before or after, and no event that an earlier request left cancels a later one.
THEOREM CancelsMeet ==
    ASSUME PartialGenerationAssumption
    PROVE  Spec => []CancelledWhilePaused
<1>1. Inv => CancelledWhilePaused
  BY DEF Inv, Event, CancelledWhilePaused
<1> QED BY <1>1, Always, PTL

\* OneVersionPerRequest: the weights never change under a running request.
THEOREM RequestsOfOneVersion ==
    ASSUME PartialGenerationAssumption
    PROVE  Spec => []OneVersionPerRequest
<1>1. ASSUME Inv
      PROVE  OneVersionPerRequest
  <2>1. ASSUME NEW l \in Loops, NEW i \in DOMAIN output[l]
        PROVE  output[l][i] = version
    <3>1. Response(l) /\ output[l] \in Seq(Versions)
      BY <1>1, TypesOf
    <3>2. i \in 1 .. Len(output[l])
      BY <3>1
    <3> QED BY <3>1, <3>2 DEF Response
  <2> QED BY <2>1 DEF OneVersionPerRequest
<1> QED BY <1>1, Always, PTL

\* StampsCoverTokens: param_version_start and param_version_end, which the trainer's
\* staleness is computed from, cover the version of every token of a finished response,
\* but for one version when the loop was submitted last between pause() and
\* update_param_version.
THEOREM StampsCover ==
    ASSUME PartialGenerationAssumption
    PROVE  Spec => []StampsCoverTokens
<1>1. ASSUME Inv
      PROVE  StampsCoverTokens
  <2>1. ASSUME NEW l \in Loops, Finished(l), NEW i \in ModelTokens(data[l].ids)
        PROVE  data[l].ids[i]
                 \in data[l].start .. data[l].end + (IF data[l].between THEN 1 ELSE 0)
    <3>1. PICK d \in AgentData : d = data[l]
      BY <1>1, TypesOf
    <3>2. Within(d, d.end + Over(d)) /\ d.ids \in Seq(Token)
      BY <1>1, <2>1, <3>1, TypesOf DEF Response
    <3>3. i \in 1 .. Len(d.ids) /\ d.ids[i] # ToolToken
      BY <2>1, <3>1, <3>2 DEF ModelTokens
    <3>4. d.ids[i] \in Versions
      BY <3>2, <3>3 DEF Token
    <3>5. d.start \in Nat /\ d.end + Over(d) \in Nat /\ d.ids[i] \in Nat
      BY <3>4, Constants DEF AgentData, Over
    <3>6. d.start <= d.ids[i] /\ d.ids[i] <= d.end + Over(d)
      BY <3>2, <3>3 DEF Within
    <3>7. d.ids[i] \in d.start .. d.end + Over(d)
      BY <3>5, <3>6
    <3> QED BY <3>1, <3>7 DEF Over
  <2> QED BY <2>1 DEF StampsCoverTokens
<1> QED BY <1>1, Always, PTL

-----------------------------------------------------------------------------
(***************************************************************************)
(* HybridEngine, for every number of replicas and workers, every           *)
(* combination of options, every checkpoint and every number of updates:   *)
(* what every rollout is generated with, and that the actor and the engine *)
(* take turns on the GPU.  EngineInv is inductive.  It follows an engine's *)
(* weights round the cycle of wake-up, load, generation and sleep: where   *)
(* the workers are, what each has collected, what its engine holds and     *)
(* what of it is in memory.  The system's variables and constants stand    *)
(* for themselves, but for its version, which is updates here.             *)
(***************************************************************************)
CONSTANTS Replicas, Checkpoints, LastVersion

VARIABLES config, pc, todo, first, updates, stage, baseSyncDone, collected, onGpu, resident,
          engine, cached

E == INSTANCE HybridEngine WITH
       version <- updates, Resumed <- Checkpoints, MaxVersion <- LastVersion

Waking == {"woken", "collected", "resumed", "loaded", "rollout"}

\* Where the workers can be while the trainer is where it is.
Staged ==
  /\ pc \in {"build", "launched", "loading", "idle", "training", "done"} => E!All("trainer")
  /\ pc = "firstSleep" => \A w \in E!Workers : stage[w] \in {"launched", "reset", "trainer"}
  /\ pc \in {"waking", "failed"} => \A w \in E!Workers : stage[w] \in Waking
  /\ pc = "generating" => E!All("rollout")
  /\ pc = "sleeping" => \A w \in E!Workers : stage[w] \in {"rollout", "reset", "trainer"}

\* No update is made after the last one.
UpdatesLeft ==
  pc \in {"idle", "waking", "generating", "sleeping", "training"} => updates < LastVersion

\* The base is synchronized from the start, or from the first rollout on.
Synced ==
  /\ pc = "build" => first
  /\ ~config.dummy \/ ~first => pc = "build" \/ \A w \in E!Workers : baseSyncDone[w]
  /\ \A w \in E!Workers : stage[w] = "rollout" => baseSyncDone[w]
  /\ pc \in {"generating", "sleeping"} => \A w \in E!Workers : baseSyncDone[w]
  /\ config.dummy /\ first /\ pc \notin {"build", "generating", "sleeping"} =>
       \A w \in E!Workers : baseSyncDone[w] => stage[w] = "rollout"

\* What a worker has collected is what it will load.
Gathered ==
  \A w \in E!Workers :
    collected[w] = IF stage[w] \in {"collected", "resumed", "loaded"}
                     THEN E!Params(w) ELSE "nothing"

\* The policy that the next rollout is to be of.
Target == IF E!BaseOnly THEN [E!Actor EXCEPT !.adapter = 0] ELSE E!Actor

\* What an engine holds.
Filled ==
  \A w \in E!Workers :
    /\ stage[w] \in {"loaded", "rollout"} => E!Policy(engine[w]) = Target
    /\ ~config.lora \/ (config.dummy /\ first /\ pc # "build") => engine[w].adapter = E!None
    /\ config.lora /\ baseSyncDone[w] /\ E!SleepLevel = 1 => engine[w].base = 0

\* What of it is in memory if it frees its memory, and where the actor's shard is.
Freed ==
  \A w \in E!Workers :
    /\ onGpu[w] => ~config.offload
    /\ config.free /\ stage[w] = "trainer" /\ pc \notin {"build", "launched"} => resident[w] = {}
    /\ config.free /\ stage[w] \in {"woken", "collected"} => resident[w] = {}
    /\ config.free /\ stage[w] \in {"resumed", "loaded"} => "kv_cache" \notin resident[w]

\* A prefix cache is of the policy at hand, and empty once its replica's workers go to sleep.
CacheOf ==
  /\ pc \notin {"generating", "sleeping"} => \A r \in Replicas : cached[r] = {}
  /\ pc = "sleeping" => \A r \in Replicas : \A w \in r : stage[w] # "rollout" => cached[r] = {}
  /\ \A r \in Replicas : \A p \in cached[r] : p = Target

EngineInv ==
  E!TypeOK /\ Staged /\ UpdatesLeft /\ Synced /\ Gathered /\ Filled /\ Freed /\ CacheOf

\* Every replica has a worker.
LEMMA NoReplicaEmpty == ASSUME E!HybridAssumption, NEW r \in Replicas PROVE \E w \in r : TRUE
<1>1. r # {}
  BY DEF E!HybridAssumption
<1> QED BY <1>1

\* The policies of the actor and of the engines, and what a load and a sleep leave, have
\* their types.
LEMMA Shapes ==
  ASSUME E!HybridAssumption, E!TypeOK
  PROVE  /\ E!Actor \in [base : E!Weights, adapter : E!Weights]
         /\ \A w \in E!Workers : /\ E!Policy(engine[w]) \in [base : E!Weights, adapter : E!Weights]
                               /\ E!Loaded(w) \in [base : E!Weights, adapter : E!Weights]
                               /\ E!Slept(engine[w], resident[w]) \in
                                    [base : E!Weights, adapter : E!Weights] \X SUBSET E!Parts
BY SMTT(30) DEF E!TypeOK, E!HybridAssumption, E!Weights, E!Garbage, E!None, E!Actor, E!Policy,
   E!Loaded, E!Slept, E!Options

\* The engines are built with the base weights or without any.
LEMMA BuildKeeps == ASSUME E!HybridAssumption, EngineInv, E!Build PROVE EngineInv'
<1> USE DEF EngineInv, E!HybridAssumption, E!Everywhere, E!worker, E!Build
<1>1. E!TypeOK'
  BY Shapes DEF E!TypeOK, E!Options, E!Weights, E!Parts
<1>2. Staged' /\ UpdatesLeft' /\ Synced' /\ Gathered'
  BY DEF E!TypeOK, Staged, E!All, Waking, UpdatesLeft, Synced, Gathered, E!Params
<1>3. Filled'
  BY DEF E!TypeOK, Staged, E!All, Filled, Target, E!BaseOnly, E!Actor, E!Policy, E!SleepLevel
<1>4. Freed' /\ CacheOf'
  BY DEF E!TypeOK, Staged, E!All, Freed, E!Parts, CacheOf, Target, E!BaseOnly, E!Actor
<1> QED BY <1>1, <1>2, <1>3, <1>4

\* The engines that free their memory go to sleep for the first time.
LEMMA FirstSleepKeeps == ASSUME E!HybridAssumption, EngineInv, E!FirstSleep PROVE EngineInv'
<1> USE DEF EngineInv, E!HybridAssumption, E!Everywhere, E!worker, E!FirstSleep
<1>1. E!TypeOK'
  BY Shapes DEF E!TypeOK, E!Options, E!Weights, E!Parts
<1>2. Staged' /\ UpdatesLeft' /\ Synced' /\ Gathered'
  BY DEF E!TypeOK, Staged, E!All, Waking, UpdatesLeft, Synced, Gathered, E!Params
<1>3. Filled'
  BY DEF E!TypeOK, Staged, E!All, Filled, Target, E!BaseOnly, E!Actor, E!Policy, E!SleepLevel
<1>4. Freed' /\ CacheOf'
  BY DEF E!TypeOK, Staged, E!All, Freed, E!Parts, CacheOf, Target, E!BaseOnly, E!Actor
<1> QED BY <1>1, <1>2, <1>3, <1>4

\* The trainer starts from a checkpoint, or from nothing.
LEMMA LoadCheckpointKeeps ==
  ASSUME E!HybridAssumption, EngineInv, E!LoadCheckpoint
  PROVE  EngineInv'
<1> USE DEF EngineInv, E!HybridAssumption, E!Everywhere, E!worker, E!LoadCheckpoint
<1>1. E!TypeOK'
  BY Shapes DEF E!TypeOK, E!Options, E!Weights, E!Parts
<1>2. Staged' /\ UpdatesLeft' /\ Synced' /\ Gathered'
  BY DEF E!TypeOK, Staged, E!All, Waking, UpdatesLeft, Synced, Gathered, E!Params
<1>3. Filled'
  BY DEF E!TypeOK, Staged, E!All, Filled, Target, E!BaseOnly, E!Actor, E!Policy, E!SleepLevel
<1>4. Freed' /\ CacheOf'
  BY DEF E!TypeOK, Staged, E!All, Freed, E!Parts, CacheOf, Target, E!BaseOnly, E!Actor
<1> QED BY <1>1, <1>2, <1>3, <1>4

\* All workers wake up.
LEMMA WakeUpKeeps == ASSUME E!HybridAssumption, EngineInv, E!WakeUp PROVE EngineInv'
<1> USE DEF EngineInv, E!HybridAssumption, E!Everywhere, E!worker, E!WakeUp
<1>1. E!TypeOK'
  BY Shapes DEF E!TypeOK, E!Options, E!Weights, E!Parts
<1>2. Staged' /\ UpdatesLeft' /\ Synced' /\ Gathered'
  BY DEF E!TypeOK, Staged, E!All, Waking, UpdatesLeft, Synced, Gathered, E!Params
<1>3. Filled'
  BY DEF E!TypeOK, Staged, E!All, Filled, Target, E!BaseOnly, E!Actor, E!Policy, E!SleepLevel
<1>4. Freed' /\ CacheOf'
  BY DEF E!TypeOK, Staged, E!All, Freed, E!Parts, CacheOf, Target, E!BaseOnly, E!Actor
<1> QED BY <1>1, <1>2, <1>3, <1>4

\* With LoRA the workers collect together, or fail together.
LEMMA CollectTogetherKeeps ==
  ASSUME E!HybridAssumption, EngineInv, E!CollectTogether
  PROVE  EngineInv'
<1> USE DEF EngineInv, E!HybridAssumption, E!Everywhere, E!worker, E!CollectTogether, E!Params
<1>1. E!TypeOK'
  <2>1. [w \in E!Workers |-> E!Params(w)] \in [E!Workers -> {"base", "adapter"}]
    BY DEF E!Params
  <2>2. CASE config.layered /\ \E w \in E!Workers : ~baseSyncDone[w]
    BY <2>2 DEF E!TypeOK
  <2>3. CASE ~(config.layered /\ \E w \in E!Workers : ~baseSyncDone[w])
    <3>1. onGpu' \in [E!Workers -> BOOLEAN]
      BY <2>3
    <3>2. /\ collected' = [w \in E!Workers |-> E!Params(w)]
          /\ stage' = [w \in E!Workers |-> "collected"] /\ pc' = pc
      BY <2>3
    <3> HIDE DEF E!CollectTogether
    <3>3. UNCHANGED <<config, todo, first, updates, baseSyncDone, resident, engine, cached>>
      BY DEF E!CollectTogether
    <3> QED BY <2>1, <3>1, <3>2, <3>3 DEF E!TypeOK
  <2> QED BY <2>2, <2>3
<1>2. Staged' /\ UpdatesLeft' /\ Synced' /\ Gathered'
  BY DEF E!TypeOK, Staged, E!All, Waking, UpdatesLeft, Synced, Gathered, E!Params
<1>3. Filled'
  BY DEF E!TypeOK, Staged, E!All, Filled, Target, E!BaseOnly, E!Actor, E!Policy, E!SleepLevel
<1>4. Freed' /\ CacheOf'
  BY DEF E!TypeOK, Staged, E!All, Freed, E!Parts, CacheOf, Target, E!BaseOnly, E!Actor
<1> QED BY <1>1, <1>2, <1>3, <1>4

\* Without it a worker takes its shards.
LEMMA CollectKeeps ==
  ASSUME E!HybridAssumption, EngineInv, NEW w \in E!Workers, E!Collect(w)
  PROVE  EngineInv'
<1> USE DEF EngineInv, E!HybridAssumption, E!Everywhere, E!worker, E!Collect, E!Params
<1>1. E!TypeOK'
  BY Shapes DEF E!TypeOK, E!Options, E!Weights, E!Parts
<1>2. Staged' /\ UpdatesLeft' /\ Synced' /\ Gathered'
  BY DEF E!TypeOK, Staged, E!All, Waking, UpdatesLeft, Synced, Gathered, E!Params
<1>3. Filled'
  BY DEF E!TypeOK, Staged, E!All, Filled, Target, E!BaseOnly, E!Actor, E!Policy, E!SleepLevel
<1>4. Freed' /\ CacheOf'
  BY DEF E!TypeOK, Staged, E!All, Freed, E!Parts, CacheOf, Target, E!BaseOnly, E!Actor
<1> QED BY <1>1, <1>2, <1>3, <1>4

\* An engine's weights are in memory again.
LEMMA ResumeWeightsKeeps ==
  ASSUME E!HybridAssumption, EngineInv, NEW w \in E!Workers, E!ResumeWeights(w)
  PROVE EngineInv'
<1> USE DEF EngineInv, E!HybridAssumption, E!Everywhere, E!worker, E!ResumeWeights
<1>1. E!TypeOK'
  BY Shapes DEF E!TypeOK, E!Options, E!Weights, E!Parts
<1>2. Staged' /\ UpdatesLeft' /\ Synced' /\ Gathered'
  BY DEF E!TypeOK, Staged, E!All, Waking, UpdatesLeft, Synced, Gathered, E!Params
<1>3. Filled'
  BY DEF E!TypeOK, Staged, E!All, Filled, Target, E!BaseOnly, E!Actor, E!Policy, E!SleepLevel
<1>4. Freed' /\ CacheOf'
  BY DEF E!TypeOK, Staged, E!All, Freed, E!Parts, CacheOf, Target, E!BaseOnly, E!Actor
<1> QED BY <1>1, <1>2, <1>3, <1>4

\* The engines load the actor's weights together.
LEMMA LoadTogetherKeeps == ASSUME E!HybridAssumption, EngineInv, E!LoadTogether PROVE EngineInv'
<1> USE DEF EngineInv, E!HybridAssumption, E!Everywhere, E!worker, E!LoadTogether, E!Loaded
<1>1. E!TypeOK'
  BY Shapes DEF E!TypeOK, E!Options, E!Weights, E!Parts
<1>2. Staged' /\ UpdatesLeft' /\ Synced' /\ Gathered'
  BY DEF E!TypeOK, Staged, E!All, Waking, UpdatesLeft, Synced, Gathered, E!Params
<1>3. Filled'
  <2> SUFFICES ASSUME NEW w \in E!Workers
               PROVE  /\ E!Policy(engine'[w]) = Target'
                      /\ engine'[w].adapter = E!None
    BY DEF E!TypeOK, Filled, Target, E!BaseOnly, E!Actor, E!Policy, E!SleepLevel
  <2>1. collected[w] = "base"
    BY DEF Gathered, E!Params, E!All
  <2>2. engine'[w] = [engine[w] EXCEPT !.base = updates]
    BY <2>1 DEF E!TypeOK, E!Actor
  <2>3. engine[w].adapter = E!None
    BY DEF Filled
  <2> QED BY <2>2, <2>3 DEF E!TypeOK, Target, E!BaseOnly, E!Actor, E!Policy, E!None
<1>4. Freed' /\ CacheOf'
  BY DEF E!TypeOK, Staged, E!All, Freed, E!Parts, CacheOf, Target, E!BaseOnly, E!Actor
<1> QED BY <1>1, <1>2, <1>3, <1>4

\* A worker loads an adapter over the base that its engine's sleep has left or that it
\* hands over again, or the base alone.
LEMMA LoadKeeps ==
  ASSUME E!HybridAssumption, EngineInv, NEW w \in E!Workers, E!Load(w)
  PROVE  EngineInv'
<1> USE DEF EngineInv, E!HybridAssumption, E!Everywhere, E!worker, E!Load, E!Loaded
<1>1. E!TypeOK'
  BY Shapes DEF E!TypeOK, E!Options, E!Weights, E!Parts
<1>2. Staged' /\ UpdatesLeft' /\ Synced' /\ Gathered'
  BY DEF E!TypeOK, Staged, E!All, Waking, UpdatesLeft, Synced, Gathered, E!Params
<1>3. Filled'
  <2>1. ASSUME NEW v \in E!Workers, v # w
        PROVE  /\ stage'[v] = stage[v] /\ engine'[v] = engine[v]
               /\ baseSyncDone'[v] = baseSyncDone[v]
    BY <2>1 DEF E!TypeOK
  <2>2. collected[w] = E!Params(w) /\ engine'[w] = E!Loaded(w) /\ stage'[w] = "loaded"
    BY DEF E!TypeOK, Gathered
  <2>3. CASE baseSyncDone[w]
    <3>0. engine'[w] = [adapter |-> updates,
                        base |-> IF E!SleepLevel = 2 THEN E!Actor.base ELSE engine[w].base]
      BY <2>2, <2>3 DEF E!Params
    <3>a. E!SleepLevel \in {1, 2} /\ E!Actor.base = 0
      BY DEF E!TypeOK, E!Options, E!SleepLevel, E!Actor
    <3>b. E!SleepLevel = 1 => engine[w].base = 0
      BY <2>3 DEF Filled
    <3>1. engine'[w] = [adapter |-> updates, base |-> 0]
      BY <3>0, <3>a, <3>b
    <3>2. ~E!BaseOnly
      BY <2>3 DEF Synced, E!BaseOnly, Staged, E!All, Waking
    <3> QED BY <2>1, <2>3, <3>1, <3>2
            DEF E!TypeOK, Filled, Target, E!BaseOnly, E!Actor, E!Policy, E!SleepLevel, E!None
  <2>4. CASE ~baseSyncDone[w]
    <3>1. engine'[w] = [engine[w] EXCEPT !.base = 0]
      BY <2>2, <2>4 DEF E!Params, E!Actor
    <3>2. E!BaseOnly /\ engine[w].adapter = E!None
      BY <2>4 DEF Synced, Filled, E!BaseOnly, E!TypeOK, Staged, E!All
    <3> QED BY <2>1, <2>4, <3>1, <3>2
            DEF E!TypeOK, Filled, Target, E!BaseOnly, E!Actor, E!Policy, E!SleepLevel, E!None
  <2> QED BY <2>3, <2>4
<1>4. Freed' /\ CacheOf'
  BY DEF E!TypeOK, Staged, E!All, Freed, E!Parts, CacheOf, Target, E!BaseOnly, E!Actor
<1> QED BY <1>1, <1>2, <1>3, <1>4

\* A worker is ready to generate, and its base is synchronized.
LEMMA RolloutModeKeeps ==
  ASSUME E!HybridAssumption, EngineInv, NEW w \in E!Workers, E!RolloutMode(w)
  PROVE EngineInv'
<1> USE DEF EngineInv, E!HybridAssumption, E!Everywhere, E!worker, E!RolloutMode, E!BaseDone
<1>1. E!TypeOK'
  BY Shapes DEF E!TypeOK, E!Options, E!Weights, E!Parts
<1>2. Staged' /\ UpdatesLeft' /\ Synced' /\ Gathered'
  BY DEF E!TypeOK, Staged, E!All, Waking, UpdatesLeft, Synced, Gathered, E!Params
<1>3. Filled'
  BY DEF E!TypeOK, Staged, E!All, Filled, Target, E!BaseOnly, E!Actor, E!Policy, E!SleepLevel
<1>4. Freed' /\ CacheOf'
  BY DEF E!TypeOK, Staged, E!All, Freed, E!Parts, CacheOf, Target, E!BaseOnly, E!Actor
<1> QED BY <1>1, <1>2, <1>3, <1>4

\* All workers are ready.
LEMMA AwakeKeeps == ASSUME E!HybridAssumption, EngineInv, E!Awake PROVE EngineInv'
<1> USE DEF EngineInv, E!HybridAssumption, E!Everywhere, E!worker, E!Awake
<1>1. E!TypeOK'
  BY Shapes DEF E!TypeOK, E!Options, E!Weights, E!Parts
<1>2. Staged' /\ UpdatesLeft' /\ Synced' /\ Gathered'
  BY DEF E!TypeOK, Staged, E!All, Waking, UpdatesLeft, Synced, Gathered, E!Params
<1>3. Filled'
  BY DEF E!TypeOK, Staged, E!All, Filled, Target, E!BaseOnly, E!Actor, E!Policy, E!SleepLevel
<1>4. Freed' /\ CacheOf'
  BY DEF E!TypeOK, Staged, E!All, Freed, E!Parts, CacheOf, Target, E!BaseOnly, E!Actor
<1> QED BY <1>1, <1>2, <1>3, <1>4

\* A replica's prefix cache holds nothing but the target's keys and values.
LEMMA GenerateKeeps ==
  ASSUME E!HybridAssumption, EngineInv, NEW r \in Replicas, E!Generate(r)
  PROVE EngineInv'
<1> USE DEF EngineInv, E!HybridAssumption, E!Everywhere, E!worker, E!Generate
<1>1. E!TypeOK'
  <2>1. PICK w \in r : cached' = [cached EXCEPT ![r] = @ \cup {E!Policy(engine[w])}]
    OBVIOUS
  <2>2. E!Policy(engine[w]) \in [base : E!Weights, adapter : E!Weights]
    BY Shapes DEF E!Workers
  <2>3. cached' \in [Replicas -> SUBSET [base : E!Weights, adapter : E!Weights]]
    BY <2>1, <2>2 DEF E!TypeOK
  <2> QED BY <2>3 DEF E!TypeOK
<1>2. Staged' /\ UpdatesLeft' /\ Synced' /\ Gathered'
  BY DEF E!TypeOK, Staged, E!All, Waking, UpdatesLeft, Synced, Gathered, E!Params
<1>3. Filled'
  BY SMTT(30) DEF E!TypeOK, Staged, E!All, Filled, Target, E!BaseOnly, E!Actor, E!Policy,
     E!SleepLevel
<1>4. Freed' /\ CacheOf'
  <2>1. PICK w \in r : cached' = [cached EXCEPT ![r] = @ \cup {E!Policy(engine[w])}]
    OBVIOUS
  <2>2. E!Policy(engine[w]) = Target
    BY DEF Filled, Staged, E!All, E!Workers
  <2>3. Target' = Target
    BY DEF Target, E!BaseOnly, E!Actor
  <2>4. \A q \in Replicas : \A p \in cached'[q] : p \in cached[q] \/ p = Target
    BY <2>1, <2>2 DEF E!TypeOK
  <2>5. CacheOf'
    BY <2>3, <2>4 DEF CacheOf
  <2>6. Freed'
    BY DEF Freed
  <2> QED BY <2>5, <2>6
<1> QED BY <1>1, <1>2, <1>3, <1>4

\* The batch is complete.
LEMMA SleepKeeps == ASSUME E!HybridAssumption, EngineInv, E!Sleep PROVE EngineInv'
<1> USE DEF EngineInv, E!HybridAssumption, E!Everywhere, E!worker, E!Sleep
<1>1. E!TypeOK'
  BY Shapes DEF E!TypeOK, E!Options, E!Weights, E!Parts
<1>2. Staged' /\ UpdatesLeft' /\ Synced' /\ Gathered'
  BY DEF E!TypeOK, Staged, E!All, Waking, UpdatesLeft, Synced, Gathered, E!Params
<1>3. Filled'
  BY DEF E!TypeOK, Staged, E!All, Filled, Target, E!BaseOnly, E!Actor, E!Policy, E!SleepLevel
<1>4. Freed' /\ CacheOf'
  BY DEF E!TypeOK, Staged, E!All, Freed, E!Parts, CacheOf, Target, E!BaseOnly, E!Actor,
     E!Workers
<1> QED BY <1>1, <1>2, <1>3, <1>4

\* A replica's cache is empty before the first of its workers sleeps.
LEMMA SleepReplicaKeeps ==
  ASSUME E!HybridAssumption, EngineInv, NEW r \in Replicas, E!SleepReplica(r)
  PROVE EngineInv'
<1> USE DEF EngineInv, E!HybridAssumption, E!Everywhere, E!worker, E!SleepReplica, E!Reset
<1>1. E!TypeOK'
  BY Shapes DEF E!TypeOK, E!Options, E!Weights, E!Parts
<1>2. Staged' /\ UpdatesLeft' /\ Synced' /\ Gathered'
  BY DEF E!TypeOK, Staged, E!All, Waking, UpdatesLeft, Synced, Gathered, E!Params
<1>3. Filled'
  BY SMTT(30) DEF E!TypeOK, Staged, E!All, Filled, Target, E!BaseOnly, E!Actor, E!Policy,
     E!SleepLevel
<1>4. Freed' /\ CacheOf'
  <2>1. Freed'
    BY DEF E!TypeOK, Freed, E!Workers
  <2>2. cached' = [cached EXCEPT ![r] = {}] /\ Target' = Target
    BY DEF Target, E!BaseOnly, E!Actor
  <2>3. ASSUME NEW q \in Replicas, NEW w \in q, pc = "sleeping", stage'[w] # "rollout"
        PROVE  cached'[q] = {}
    <3>1. CASE q = r
      BY <2>2, <3>1 DEF E!TypeOK
    <3>2. CASE q # r
      <4>1. w \in E!Workers /\ w \notin r
        BY <3>2 DEF E!Workers
      <4>2. stage[w] # "rollout"
        BY <4>1, <2>3 DEF E!TypeOK
      <4> QED BY <2>2, <2>3, <3>2, <4>2 DEF E!TypeOK, CacheOf
    <3> QED BY <3>1, <3>2
  <2>4. CacheOf'
    BY <2>2, <2>3 DEF E!TypeOK, CacheOf
  <2> QED BY <2>1, <2>4
<1> QED BY <1>1, <1>2, <1>3, <1>4

\* A worker's engine sleeps, at either level.
LEMMA TrainerModeKeeps ==
  ASSUME E!HybridAssumption, EngineInv, NEW w \in E!Workers, E!TrainerMode(w)
  PROVE EngineInv'
<1> USE DEF EngineInv, E!HybridAssumption, E!Everywhere, E!worker, E!TrainerMode, E!Slept
<1>1. E!TypeOK'
  BY Shapes DEF E!TypeOK, E!Options, E!Weights, E!Parts
<1>2. Staged' /\ UpdatesLeft' /\ Synced' /\ Gathered'
  BY DEF E!TypeOK, Staged, E!All, Waking, UpdatesLeft, Synced, Gathered, E!Params
<1>3. Filled'
  BY DEF E!TypeOK, Staged, E!All, Filled, Target, E!BaseOnly, E!Actor, E!Policy, E!SleepLevel
<1>4. Freed' /\ CacheOf'
  BY DEF E!TypeOK, Staged, E!All, Freed, E!Parts, CacheOf, Target, E!BaseOnly, E!Actor
<1> QED BY <1>1, <1>2, <1>3, <1>4

\* All caches are empty once all workers are in trainer mode: no replica is without one.
LEMMA AsleepKeeps == ASSUME E!HybridAssumption, EngineInv, E!Asleep PROVE EngineInv'
<1> USE DEF EngineInv, E!HybridAssumption, E!Everywhere, E!worker, E!Asleep
<1>1. E!TypeOK'
  BY Shapes DEF E!TypeOK, E!Options, E!Weights, E!Parts
<1>2. Staged' /\ UpdatesLeft' /\ Synced' /\ Gathered'
  BY DEF E!TypeOK, Staged, E!All, Waking, UpdatesLeft, Synced, Gathered, E!Params
<1>3. Filled'
  BY DEF E!TypeOK, Staged, E!All, Filled, Target, E!BaseOnly, E!Actor, E!Policy, E!SleepLevel
<1>4. Freed' /\ CacheOf'
  <2>1. Freed'
    BY DEF E!TypeOK, Freed
  <2>2. \A r \in Replicas : cached[r] = {}
    <3>1. \A r \in Replicas : \E w \in r : w \in E!Workers /\ stage[w] # "rollout"
      <4> TAKE r \in Replicas
      <4>1. PICK w \in r : TRUE
        BY NoReplicaEmpty
      <4>2. w \in E!Workers
        BY DEF E!Workers
      <4> QED BY <4>1, <4>2 DEF E!All
    <3> QED BY <3>1 DEF CacheOf
  <2> QED BY <2>1, <2>2 DEF CacheOf
<1> QED BY <1>1, <1>2, <1>3, <1>4

\* The actor changes while nothing is cached and no engine is awake.
LEMMA UpdateKeeps == ASSUME E!HybridAssumption, EngineInv, E!Update PROVE EngineInv'
<1> USE DEF EngineInv, E!HybridAssumption, E!Everywhere, E!worker, E!Update
<1>1. E!TypeOK'
  <2>1. updates + 1 \in 0 .. LastVersion
    BY DEF E!TypeOK, UpdatesLeft
  <2> QED BY <2>1 DEF E!TypeOK
<1>2. Staged' /\ UpdatesLeft' /\ Synced' /\ Gathered'
  BY DEF E!TypeOK, Staged, E!All, Waking, UpdatesLeft, Synced, Gathered, E!Params
<1>3. Filled'
  BY DEF E!TypeOK, Staged, E!All, Filled, Target, E!BaseOnly, E!Actor, E!Policy, E!SleepLevel
<1>4. Freed' /\ CacheOf'
  BY DEF E!TypeOK, Staged, E!All, Freed, E!Parts, CacheOf, Target, E!BaseOnly, E!Actor
<1> QED BY <1>1, <1>2, <1>3, <1>4

-----------------------------------------------------------------------------
\* The invariant holds initially.
LEMMA InitInv == ASSUME E!HybridAssumption, E!Init PROVE EngineInv
<1> USE DEF E!Init, E!Everywhere, E!All
<1>1. E!TypeOK
  BY DEF E!HybridAssumption, E!TypeOK, E!Options, E!Weights, E!Parts, E!Garbage, E!None
<1>2. Staged /\ UpdatesLeft /\ Synced /\ Gathered
  BY DEF Staged, UpdatesLeft, Synced, Gathered
<1>3. Filled /\ Freed /\ CacheOf
  BY DEF Filled, Freed, CacheOf
<1> QED BY <1>1, <1>2, <1>3 DEF EngineInv

\* What changes nothing keeps it.
LEMMA Unchanged == ASSUME EngineInv, UNCHANGED E!vars PROVE EngineInv'
BY DEF EngineInv, E!vars, E!TypeOK, Staged, E!All, UpdatesLeft, Synced, Gathered, E!Params,
   Filled, Target,
       E!BaseOnly, E!Actor, E!Policy, E!SleepLevel, Freed, CacheOf

\* Every step keeps it.
LEMMA NextInv == ASSUME E!HybridAssumption, EngineInv, [E!Next]_(E!vars) PROVE EngineInv'
<1>1. CASE E!Driver
  BY <1>1, BuildKeeps, FirstSleepKeeps, LoadCheckpointKeeps, WakeUpKeeps, AwakeKeeps,
     SleepKeeps,
     AsleepKeeps, UpdateKeeps, CollectTogetherKeeps, LoadTogetherKeeps DEF E!Driver
<1>2. ASSUME NEW w \in E!Workers, E!WorkerStep(w) PROVE EngineInv'
  BY <1>2, TrainerModeKeeps, CollectKeeps, ResumeWeightsKeeps, LoadKeeps, RolloutModeKeeps
  DEF E!WorkerStep
<1>3. ASSUME NEW r \in Replicas, E!SleepReplica(r) \/ E!Generate(r) PROVE EngineInv'
  BY <1>3, SleepReplicaKeeps, GenerateKeeps
<1> QED BY <1>1, <1>2, <1>3, Unchanged DEF E!Next

\* The inductive invariant holds of every behaviour.
LEMMA InvHolds == ASSUME E!HybridAssumption PROVE E!Spec => []EngineInv
<1>1. E!Init => EngineInv
  BY InitInv
<1>2. EngineInv /\ [E!Next]_(E!vars) => EngineInv'
  BY NextInv
<1> QED BY <1>1, <1>2, PTL DEF E!Spec

\* Every variable has its type.
THEOREM EngineTypes == ASSUME E!HybridAssumption PROVE E!Spec => []E!TypeOK
<1>1. EngineInv => E!TypeOK
  BY DEF EngineInv
<1> QED BY <1>1, InvHolds, PTL

\* Every rollout is of the actor's policy, whatever each sleep has left of the engines'
\* weights, and its prefix caches are; and an engine that frees its memory and an offloaded
\* shard of the actor are never on the GPU together.
THEOREM EngineSafe == ASSUME E!HybridAssumption PROVE E!Spec => []E!EngineHoldsActor
<1>1. EngineInv => E!GeneratesWithActor
  BY DEF EngineInv, Staged, E!All, Filled, CacheOf, Target, E!GeneratesWithActor
<1>2. EngineInv => E!MemoryShared
  <2> SUFFICES ASSUME EngineInv, NEW w \in E!Workers
               PROVE  /\ config.free /\ pc \in {"training", "idle", "done"} => resident[w] = {}
                      /\ config.offload /\ resident[w] # {} => ~onGpu[w]
                      /\ config.free /\ collected[w] # "nothing" => "kv_cache" \notin resident[w]
    BY DEF E!MemoryShared
  <2> QED BY DEF EngineInv, E!TypeOK, Staged, E!All, Gathered, Freed
<1>3. EngineInv => E!EngineHoldsActor
  BY <1>1, <1>2 DEF E!EngineHoldsActor
<1> QED BY <1>3, InvHolds, PTL

-----------------------------------------------------------------------------
(***************************************************************************)
(* ToolAgentLoop, for any number of rows, workers and servers, all lengths *)
(* and limits.  AgentInv follows a row from its prompt to what its worker  *)
(* returns (RowAligned, Going, Result), and a worker's sessions through    *)
(* its cache (Sessions) and counts (Balanced).                             *)
(***************************************************************************)
CONSTANTS Rows, Workers, WorkerOf, CacheSize, Configs, PromptLens, PromptLength, MaxModelLen,
          TurnLens, TextLens, MaxCalls, MaxParallelCalls, MaxUserTurns, MaxAssistantTurns

VARIABLES batch, prompt, tokens, response_mask, response_logprobs, assistant_turns, user_turns,
          calls, weights, cache, served

B == INSTANCE ToolAgentLoop

\* Of each token of a row there is a bit of the mask and, if asked for, a log-probability.
RowAligned(r) ==
  /\ Len(response_mask[r]) = Len(tokens[r])
  /\ \A i \in 1 .. Len(tokens[r]) : (response_mask[r][i] = 1) = (tokens[r][i] = "model")
  /\ response_logprobs[r] = IF config.log_probs THEN tokens[r] ELSE <<>>

\* What the loop has found out before it got where it is: the first turn is the model's,
\* a server is asked only for tokens that fit, and only a simulated user fills a response.
Going(r) ==
  /\ pc[r] = "pending" => tokens[r] = <<>>
  /\ pc[r] \in {"calling", "interacting"} => tokens[r] # <<>>
  /\ pc[r] = "asked" => B!MaxTokens(r) > 0
  /\ pc[r] \in {"generating", "calling"} /\ ~config.interaction => Len(tokens[r]) < ResponseLength
  /\ pc[r] = "interacting" => config.interaction
  /\ prompt[r] <= PromptLens[r]

Result(r) ==
  pc[r] = "done" =>
    LET o == output[r] IN
    /\ Len(o.response_ids) = Len(o.response_mask) /\ Len(o.response_ids) <= ResponseLength
    /\ \A i \in DOMAIN o.response_ids :
         /\ o.response_ids[i] \in B!Authors
         /\ (o.response_mask[i] = 1) = (o.response_ids[i] = "model")
    /\ o.response_logprobs = IF config.log_probs THEN o.response_ids ELSE <<>>

RowOf(w) == {q \in Rows : WorkerOf[q] = w}

\* A worker's sessions are of its own rows, one of each; while all of them have room, a
\* row keeps the one it has.
Sessions(w) ==
  /\ \A i, j \in DOMAIN cache[w] : cache[w][i].row = cache[w][j].row => i = j
  /\ \A i \in DOMAIN cache[w] : WorkerOf[cache[w][i].row] = w
  /\ Cardinality(RowOf(w)) <= CacheSize =>
       \A r \in RowOf(w) :
         served[r] # {} => \E i \in DOMAIN cache[w] :
                             cache[w][i].row = r /\ served[r] = {cache[w][i].server}

Balanced(w) == \A s, t \in Servers : weights[w][s] <= weights[w][t] + 1

AgentInv ==
  /\ B!TypeOK
  /\ \A r \in Rows : RowAligned(r) /\ Going(r) /\ Result(r)
  /\ \A w \in Workers : Sessions(w) /\ Balanced(w)
  /\ B!FailsIfUnsupported

-----------------------------------------------------------------------------
\* ToolAgentLoop extends FiniteSets, so its instance has operators of its own.
LEMMA SameSize ==
    ASSUME NEW S
    PROVE  B!Cardinality(S) = Cardinality(S)
BY Zenon DEF B!Cardinality, Cardinality

LEMMA AgentConstants ==
    ASSUME B!ToolAgentAssumption
    PROVE  /\ IsFiniteSet(Rows) /\ WorkerOf \in [Rows -> Workers] /\ Servers \subseteq Nat
           /\ CacheSize \in Nat /\ CacheSize > 0 /\ PromptLength \in Nat /\ PromptLength > 0
           /\ ResponseLength \in Nat /\ ResponseLength > 0 /\ MaxModelLen \in Nat
           /\ \A r \in Rows : PromptLens[r] \in Nat /\ PromptLens[r] + ResponseLength <= MaxModelLen
           /\ TurnLens \subseteq Nat /\ 0 \notin TurnLens /\ TextLens \subseteq Nat
           /\ MaxCalls \in Nat /\ MaxParallelCalls \in Nat
           /\ Configs \subseteq B!Options
<1>1. IsFiniteSet(Rows)
  <2>1. B!IsFiniteSet(Rows)
    BY DEF B!ToolAgentAssumption
  <2> QED BY Zenon, <2>1 DEF B!IsFiniteSet, IsFiniteSet
<1> QED BY <1>1 DEF B!ToolAgentAssumption

LEMMA ConfigTypes ==
    ASSUME B!ToolAgentAssumption, config \in Configs
    PROVE  /\ config.validate \in BOOLEAN /\ config.interaction \in BOOLEAN
           /\ config.log_probs \in BOOLEAN /\ config.truncation \in {"error", "left"}
           /\ config.val_prompt_length \in Nat /\ config.val_response_length \in Nat
BY AgentConstants DEF B!Options

\* n times x.
LEMMA FilledIs ==
    ASSUME NEW S, NEW x \in S, NEW n \in Nat
    PROVE  /\ B!Filled(n, x) \in Seq(S) /\ Len(B!Filled(n, x)) = n
           /\ \A i \in 1 .. n : B!Filled(n, x)[i] = x
BY DEF B!Filled

LEMMA Concatenated ==
    ASSUME NEW S, NEW s \in Seq(S), NEW t \in Seq(S)
    PROVE  /\ s \o t \in Seq(S) /\ Len(s \o t) = Len(s) + Len(t)
           /\ \A i \in 1 .. Len(s) : (s \o t)[i] = s[i]
           /\ \A i \in 1 .. Len(t) : (s \o t)[Len(s) + i] = t[i]
           /\ \A i \in Len(s) + 1 .. Len(s) + Len(t) : (s \o t)[i] = t[i - Len(s)]
OBVIOUS

\* A session that is used moves to the end of the cache.
LEMMA MovedToEnd ==
    ASSUME NEW S, NEW c \in Seq(S), NEW i \in 1 .. Len(c)
    PROVE  /\ Append(B!RemoveAt(c, i), c[i]) \in Seq(S)
           /\ Len(Append(B!RemoveAt(c, i), c[i])) = Len(c)
           /\ \A j \in 1 .. Len(c) :
                Append(B!RemoveAt(c, i), c[i])[j] =
                  IF j < i THEN c[j] ELSE IF j < Len(c) THEN c[j + 1] ELSE c[i]
<1> DEFINE a == SubSeq(c, 1, i - 1)
           b == SubSeq(c, i + 1, Len(c))
<1>1. a \in Seq(S) /\ Len(a) = i - 1 /\ \A j \in 1 .. i - 1 : a[j] = c[j]
  OBVIOUS
<1>2. b \in Seq(S) /\ Len(b) = Len(c) - i /\ \A j \in 1 .. Len(c) - i : b[j] = c[i + j]
  OBVIOUS
<1>3. B!RemoveAt(c, i) = a \o b
  BY DEF B!RemoveAt
<1> HIDE DEF a, b
<1> DEFINE d == a \o b
<1>4. /\ d \in Seq(S) /\ Len(d) = Len(c) - 1
      /\ \A j \in 1 .. Len(c) - 1 : d[j] = IF j < i THEN c[j] ELSE c[j + 1]
  <2>1. d \in Seq(S) /\ Len(d) = Len(c) - 1
    BY <1>1, <1>2
  <2>2. ASSUME NEW j \in 1 .. Len(c) - 1, j < i
        PROVE  d[j] = c[j]
    BY <1>1, <1>2, <2>2
  <2>3. ASSUME NEW j \in 1 .. Len(c) - 1, ~(j < i)
        PROVE  d[j] = c[j + 1]
    <3>1. d[j] = b[j - (i - 1)] /\ j - (i - 1) \in 1 .. Len(c) - i
      BY <1>1, <1>2, <2>3
    <3>2. b[j - (i - 1)] = c[i + (j - (i - 1))] /\ i + (j - (i - 1)) = j + 1
      BY <3>1, <1>2
    <3> QED BY <3>1, <3>2
  <2> QED BY <2>1, <2>2, <2>3
<1> HIDE DEF d
<1>5. c[i] \in S
  OBVIOUS
<1>6. /\ Append(d, c[i]) \in Seq(S) /\ Len(Append(d, c[i])) = Len(c)
      /\ \A j \in 1 .. Len(c) : Append(d, c[i])[j] = IF j < Len(c) THEN d[j] ELSE c[i]
  BY <1>4, <1>5
<1>7. Append(B!RemoveAt(c, i), c[i]) = Append(d, c[i])
  BY <1>3 DEF d
<1>8. ASSUME NEW j \in 1 .. Len(c)
      PROVE  Append(d, c[i])[j] = IF j < i THEN c[j] ELSE IF j < Len(c) THEN c[j + 1] ELSE c[i]
  <2>1. CASE j < Len(c)
    BY <1>4, <1>6, <2>1
  <2>2. CASE j = Len(c)
    BY <1>6, <2>2
  <2>3. Len(c) \in Nat
    OBVIOUS
  <2>4. j < Len(c) \/ j = Len(c)
    BY <2>3
  <2> QED BY <2>1, <2>2, <2>4
<1> QED BY <1>6, <1>7, <1>8

LEMMA TokensAllowed ==
    ASSUME B!ToolAgentAssumption, B!TypeOK, NEW r \in Rows
    PROVE  /\ B!MaxTokens(r) \in Int
           /\ \A n \in {k \in TurnLens : k <= B!MaxTokens(r)} \cup {B!MaxTokens(r)} :
                B!MaxTokens(r) > 0 => n \in Nat /\ n > 0
<1>1. Len(tokens[r]) \in Nat /\ prompt[r] \in Nat
  BY DEF B!TypeOK
<1>2. config.val_response_length \in Nat
  BY ConfigTypes DEF B!TypeOK
<1>3. B!MaxTokens(r) \in Int
  <2> DEFINE a == IF config.validate /\ config.val_response_length # B!NoLimit
                    THEN config.val_response_length ELSE ResponseLength
             b == MaxModelLen - prompt[r] - Len(tokens[r])
  <2>1. a \in Int /\ b \in Int
    BY <1>1, <1>2, AgentConstants
  <2>2. B!MaxTokens(r) = IF a <= b THEN a ELSE b
    BY DEF B!MaxTokens, B!Smaller
  <2> HIDE DEF a, b
  <2> QED BY <2>1, <2>2
<1> HIDE DEF B!MaxTokens
<1>4. TurnLens \subseteq Nat /\ 0 \notin TurnLens
  BY AgentConstants
<1> QED BY <1>3, <1>4

LEMMA CutShort ==
    ASSUME B!ToolAgentAssumption, B!TypeOK, NEW n \in Nat
    PROVE  B!Truncated(n) \in Nat /\ B!Truncated(n) <= n
<1>1. B!PromptLimit \in Nat
  BY AgentConstants, ConfigTypes DEF B!PromptLimit, B!TypeOK
<1> QED BY <1>1 DEF B!Truncated, B!TooLong

\* A row that a step leaves alone.
LEMMA RowStays ==
    ASSUME NEW r \in Rows, RowAligned(r), Going(r), Result(r), config' = config,
           pc'[r] = pc[r], prompt'[r] = prompt[r], tokens'[r] = tokens[r],
           response_mask'[r] = response_mask[r], response_logprobs'[r] = response_logprobs[r],
           output'[r] = output[r]
    PROVE  RowAligned(r)' /\ Going(r)' /\ Result(r)'
<1>1. RowAligned(r)'
  BY DEF RowAligned
<1>2. B!MaxTokens(r)' = B!MaxTokens(r)
  BY DEF B!MaxTokens, B!Smaller
<1>3. Going(r)'
  BY <1>2 DEF Going
<1>4. Result(r)'
  BY DEF Result
<1> QED BY <1>1, <1>3, <1>4

LEMMA WorkersStay ==
    ASSUME \A w \in Workers : Sessions(w) /\ Balanced(w), UNCHANGED B!balance
    PROVE  \A w \in Workers : Sessions(w)' /\ Balanced(w)'
BY DEF B!balance, Sessions, Balanced, RowOf

\* What is said is added to tokens, mask and log-probabilities alike, unless something is
\* said to the model before it has said anything.
LEMMA SaySays ==
    ASSUME B!ToolAgentAssumption, B!TypeOK, NEW r \in Rows, RowAligned(r), NEW author \in B!Authors,
           NEW n \in Nat, author = "model" \/ tokens[r] # <<>>, B!Say(r, author, n),
           config' = config
    PROVE  /\ tokens' \in [Rows -> Seq(B!Authors)] /\ response_mask' \in [Rows -> Seq({0, 1})]
           /\ response_logprobs' \in [Rows -> Seq(B!Authors)]
           /\ RowAligned(r)' /\ Len(tokens'[r]) = Len(tokens[r]) + n
           /\ n > 0 \/ tokens[r] # <<>> => tokens'[r] # <<>>
           /\ \A q \in Rows \ {r} : /\ tokens'[q] = tokens[q]
                                    /\ response_mask'[q] = response_mask[q]
                                   /\ response_logprobs'[q] = response_logprobs[q]
<1> DEFINE bit == IF author = "model" THEN 1 ELSE 0
           t == tokens[r]
           m == response_mask[r]
           added == B!Filled(n, author)
           bits == B!Filled(n, bit)
<1>1. t \in Seq(B!Authors) /\ m \in Seq({0, 1}) /\ response_logprobs[r] \in Seq(B!Authors)
  BY DEF B!TypeOK
<1>2. added \in Seq(B!Authors) /\ Len(added) = n /\ \A i \in 1 .. n : added[i] = author
  BY FilledIs
<1>3. bits \in Seq({0, 1}) /\ Len(bits) = n /\ \A i \in 1 .. n : bits[i] = bit
  <2>1. bit \in {0, 1}
    OBVIOUS
  <2> QED BY <2>1, FilledIs
<1>4. /\ tokens' = [tokens EXCEPT ![r] = t \o added]
      /\ response_mask' = [response_mask EXCEPT ![r] = m \o bits]
  BY DEF B!Say
<1>5. response_logprobs' = IF config.log_probs THEN [response_logprobs EXCEPT ![r] = t \o added]
                           ELSE response_logprobs
  <2>1. response_logprobs[r] = IF config.log_probs THEN t ELSE <<>>
    BY DEF RowAligned
  <2>2. response_logprobs' =
          IF (author = "model" /\ config.log_probs) \/ response_logprobs[r] # <<>>
            THEN [response_logprobs EXCEPT ![r] = response_logprobs[r] \o added]
            ELSE response_logprobs
    BY DEF B!Say, B!LogProbs
  <2>3. CASE config.log_probs
    BY <2>1, <2>2, <2>3
  <2>4. CASE ~config.log_probs
    BY <2>1, <2>2, <2>4
  <2> QED BY <2>3, <2>4
<1> HIDE DEF added, bits
<1>6. /\ t \o added \in Seq(B!Authors) /\ Len(t \o added) = Len(t) + n
      /\ \A i \in 1 .. Len(t) : (t \o added)[i] = t[i]
      /\ \A i \in Len(t) + 1 .. Len(t) + n : (t \o added)[i] = author
  <2>1. /\ t \o added \in Seq(B!Authors) /\ Len(t \o added) = Len(t) + n
        /\ \A i \in 1 .. Len(t) : (t \o added)[i] = t[i]
        /\ \A i \in Len(t) + 1 .. Len(t) + n : (t \o added)[i] = added[i - Len(t)]
    <3>1. /\ t \o added \in Seq(B!Authors) /\ Len(t \o added) = Len(t) + Len(added)
          /\ \A i \in 1 .. Len(t) : (t \o added)[i] = t[i]
          /\ \A i \in Len(t) + 1 .. Len(t) + Len(added) : (t \o added)[i] = added[i - Len(t)]
      <4> HIDE DEF t, m
      <4> QED BY <1>1, <1>2, Concatenated
    <3> QED BY <3>1, <1>2
  <2>2. Len(t) \in Nat
    BY <1>1
  <2>3. \A i \in Len(t) + 1 .. Len(t) + n : i - Len(t) \in 1 .. n
    BY <2>2
  <2> QED BY <2>1, <2>3, <1>2
<1>7. /\ m \o bits \in Seq({0, 1}) /\ Len(m \o bits) = Len(m) + n
      /\ \A i \in 1 .. Len(m) : (m \o bits)[i] = m[i]
      /\ \A i \in Len(m) + 1 .. Len(m) + n : (m \o bits)[i] = bit
  <2>1. /\ m \o bits \in Seq({0, 1}) /\ Len(m \o bits) = Len(m) + n
        /\ \A i \in 1 .. Len(m) : (m \o bits)[i] = m[i]
        /\ \A i \in Len(m) + 1 .. Len(m) + n : (m \o bits)[i] = bits[i - Len(m)]
    <3>1. /\ m \o bits \in Seq({0, 1}) /\ Len(m \o bits) = Len(m) + Len(bits)
          /\ \A i \in 1 .. Len(m) : (m \o bits)[i] = m[i]
          /\ \A i \in Len(m) + 1 .. Len(m) + Len(bits) : (m \o bits)[i] = bits[i - Len(m)]
      <4> HIDE DEF t, m
      <4> QED BY <1>1, <1>3, Concatenated
    <3> QED BY <3>1, <1>3
  <2>2. Len(m) \in Nat
    BY <1>1
  <2>3. \A i \in Len(m) + 1 .. Len(m) + n : i - Len(m) \in 1 .. n
    BY <2>2
  <2> QED BY <2>1, <2>3, <1>3
<1> HIDE DEF t, m
<1>8. tokens \in [Rows -> Seq(B!Authors)] /\ response_mask \in [Rows -> Seq({0, 1})]
      /\ response_logprobs \in [Rows -> Seq(B!Authors)]
  BY DEF B!TypeOK
<1>9. /\ tokens' \in [Rows -> Seq(B!Authors)] /\ response_mask' \in [Rows -> Seq({0, 1})]
      /\ response_logprobs' \in [Rows -> Seq(B!Authors)]
  BY <1>4, <1>5, <1>6, <1>7, <1>8
<1>10. tokens'[r] = t \o added /\ response_mask'[r] = m \o bits
  BY <1>4, <1>8
<1>11. RowAligned(r)'
  <2>1. Len(m) = Len(t) /\ \A i \in 1 .. Len(t) : (m[i] = 1) = (t[i] = "model")
    BY DEF RowAligned, t, m
  <2>2. Len(t) \in Nat
    BY <1>1 DEF t
  <2>3. \A i \in 1 .. Len(t) + n : ((m \o bits)[i] = 1) = ((t \o added)[i] = "model")
    <3> TAKE i \in 1 .. Len(t) + n
    <3>1. CASE i <= Len(t)
      BY <2>1, <2>2, <3>1, <1>6, <1>7
    <3>2. CASE i > Len(t)
      <4>1. (m \o bits)[i] = bit /\ (t \o added)[i] = author
        BY <2>1, <2>2, <3>2, <1>6, <1>7
      <4>2. (bit = 1) = (author = "model")
        <5>1. CASE author = "model"
          BY <5>1
        <5>2. CASE author # "model"
          BY <5>2
        <5> QED BY <5>1, <5>2
      <4> HIDE DEF bit
      <4> QED BY <4>1, <4>2
    <3>3. i <= Len(t) \/ i > Len(t)
      BY <2>2
    <3> QED BY Zenon, <3>1, <3>2, <3>3
  <2>4. response_logprobs'[r] = IF config.log_probs THEN t \o added ELSE <<>>
    <3>1. ~config.log_probs => response_logprobs[r] = <<>>
      BY DEF RowAligned
    <3> QED BY <1>5, <1>8, <3>1
  <2> QED BY <1>6, <1>7, <1>10, <2>1, <2>3, <2>4 DEF RowAligned
<1>12. Len(tokens'[r]) = Len(tokens[r]) + n
  BY <1>6, <1>10 DEF t
<1>13. n > 0 \/ tokens[r] # <<>> => tokens'[r] # <<>>
  BY <1>1, <1>6, <1>10 DEF t
<1>14. \A q \in Rows \ {r} : /\ tokens'[q] = tokens[q] /\ response_mask'[q] = response_mask[q]
                             /\ response_logprobs'[q] = response_logprobs[q]
  BY <1>4, <1>5, <1>8
<1> QED BY <1>9, <1>11, <1>12, <1>13, <1>14

\* A step of one row.
LEMMA OneRow ==
    ASSUME AgentInv, NEW r \in Rows, config' = config, B!TypeOK', B!FailsIfUnsupported',
           RowAligned(r)', Going(r)', Result(r)',
           \A w \in Workers : Sessions(w)' /\ Balanced(w)',
           \A q \in Rows \ {r} :
             /\ pc'[q] = pc[q] /\ prompt'[q] = prompt[q] /\ tokens'[q] = tokens[q]
             /\ response_mask'[q] = response_mask[q]
             /\ response_logprobs'[q] = response_logprobs[q] /\ output'[q] = output[q]
    PROVE  AgentInv'
<1>1. \A q \in Rows \ {r} : RowAligned(q)' /\ Going(q)' /\ Result(q)'
  <2> TAKE q \in Rows \ {r}
  <2>1. RowAligned(q) /\ Going(q) /\ Result(q)
    BY DEF AgentInv
  <2> QED BY <2>1, RowStays
<1> QED BY <1>1 DEF AgentInv

\* FailsIfUnsupported, where the batch does not fail or what is too long is refused.
LEMMA NotFailed ==
    ASSUME B!ToolAgentAssumption, AgentInv, config' = config,
           batch' = batch \/ batch' = "returned" \/ (\E n \in Nat : B!Refused(n))
    PROVE  B!FailsIfUnsupported'
BY DEF AgentInv, B!FailsIfUnsupported, B!Refused

LEMMA PendingKeeps ==
    ASSUME B!ToolAgentAssumption, AgentInv, NEW r \in Rows, B!Pending(r)
    PROVE  AgentInv'
<1>1. /\ B!TypeOK /\ RowAligned(r) /\ Going(r) /\ Result(r)
      /\ \A w \in Workers : Sessions(w) /\ Balanced(w)
  BY DEF AgentInv
<1>2. /\ config' = config /\ UNCHANGED B!history /\ UNCHANGED B!balance
      /\ assistant_turns' = assistant_turns /\ user_turns' = user_turns /\ calls' = calls
      /\ output' = output /\ pc[r] = "pending"
  BY DEF B!Pending, B!At
<1>3. \A w \in Workers : Sessions(w)' /\ Balanced(w)'
  BY <1>1, <1>2, WorkersStay
<1>4. PromptLens[r] \in Nat /\ B!Truncated(PromptLens[r]) \in Nat
      /\ B!Truncated(PromptLens[r]) <= PromptLens[r]
  BY <1>1, AgentConstants, CutShort
<1>5. B!FailsIfUnsupported'
  <2>1. batch' = batch \/ \E n \in Nat : B!Refused(n)
    BY <1>4 DEF B!Pending
  <2> QED BY <1>2, <2>1, NotFailed
<1>6. RowAligned(r)'
  BY <1>1, <1>2 DEF RowAligned, B!history
<1>7. CASE B!Refused(PromptLens[r])
  <2>1. batch' = "failed" /\ pc' = pc /\ prompt' = prompt
    BY <1>7 DEF B!Pending
  <2>2. B!TypeOK'
    BY <1>1, <1>2, <2>1 DEF B!TypeOK, B!history, B!balance
  <2>3. RowAligned(r)' /\ Going(r)' /\ Result(r)'
    BY <1>1, <1>2, <2>1, RowStays DEF B!history
  <2> QED BY <1>2, <1>3, <1>5, <2>1, <2>2, <2>3, OneRow DEF B!history
<1>8. CASE ~B!Refused(PromptLens[r])
  <2>1. /\ prompt' = [prompt EXCEPT ![r] = B!Truncated(PromptLens[r])]
        /\ pc' = [pc EXCEPT ![r] = "generating"] /\ batch' = batch
    BY <1>8 DEF B!Pending
  <2>2. B!TypeOK'
    BY <1>1, <1>2, <1>4, <2>1 DEF B!TypeOK, B!history, B!balance
  <2>3. pc'[r] = "generating" /\ prompt'[r] = B!Truncated(PromptLens[r])
    BY <1>1, <2>1 DEF B!TypeOK
  <2>4. Going(r)'
    <3>1. tokens'[r] = <<>>
      BY <1>1, <1>2 DEF Going, B!history
    <3>2. Len(tokens'[r]) < ResponseLength
      BY <3>1, AgentConstants
    <3> QED BY <1>4, <2>3, <3>2 DEF Going
  <2>5. Result(r)'
    BY <2>3 DEF Result
  <2>6. \A q \in Rows \ {r} : pc'[q] = pc[q] /\ prompt'[q] = prompt[q]
    BY <1>1, <2>1 DEF B!TypeOK
  <2> QED BY <1>2, <1>3, <1>5, <1>6, <2>2, <2>4, <2>5, <2>6, OneRow DEF B!history
<1> QED BY <1>7, <1>8

LEMMA CallStepKeeps ==
    ASSUME B!ToolAgentAssumption, AgentInv, NEW r \in Rows, NEW i \in DOMAIN calls[r],
           B!CallStep(r, i)
    PROVE  AgentInv'
<1>1. /\ B!TypeOK /\ RowAligned(r) /\ Going(r) /\ Result(r)
      /\ \A w \in Workers : Sessions(w) /\ Balanced(w)
  BY DEF AgentInv
<1>2. /\ UNCHANGED <<config, batch, pc, prompt, assistant_turns, user_turns, output>>
      /\ UNCHANGED B!history /\ UNCHANGED B!balance
  BY DEF B!CallStep
<1>3. \E c \in {"created", "executed", "answered"} : calls' = [calls EXCEPT ![r][i] = c]
  BY DEF B!CallStep
<1>4. calls' \in [Rows -> Seq({"called", "created", "executed", "answered"})]
  <2>1. PICK c \in {"created", "executed", "answered"} : calls' = [calls EXCEPT ![r][i] = c]
    BY <1>3
  <2>2. calls[r] \in Seq({"called", "created", "executed", "answered"})
    BY <1>1 DEF B!TypeOK
  <2>3. [calls[r] EXCEPT ![i] = c] \in Seq({"called", "created", "executed", "answered"})
    BY <2>2
  <2> QED BY <1>1, <2>1, <2>3 DEF B!TypeOK
<1>5. B!TypeOK'
  BY <1>1, <1>2, <1>4 DEF B!TypeOK, B!history, B!balance
<1>6. B!FailsIfUnsupported'
  BY <1>2, NotFailed
<1>7. RowAligned(r)' /\ Going(r)' /\ Result(r)'
  BY <1>1, <1>2, RowStays DEF B!history
<1> QED BY <1>1, <1>2, <1>5, <1>6, <1>7, WorkersStay, OneRow DEF B!history

LEMMA AnswerKeeps ==
    ASSUME B!ToolAgentAssumption, AgentInv, NEW r \in Rows, B!Answer(r)
    PROVE  AgentInv'
<1>1. /\ B!TypeOK /\ RowAligned(r) /\ Going(r) /\ Result(r)
      /\ \A w \in Workers : Sessions(w) /\ Balanced(w)
  BY DEF AgentInv
<1>2. /\ UNCHANGED <<config, batch, prompt, user_turns, output>> /\ UNCHANGED B!balance
      /\ assistant_turns' = [assistant_turns EXCEPT ![r] = @ + 1] /\ pc[r] = "asked"
  BY DEF B!Answer, B!At
<1>3. B!MaxTokens(r) > 0
  BY <1>1, <1>2 DEF Going
<1>4. PICK n \in {k \in TurnLens : k <= B!MaxTokens(r)} \cup {B!MaxTokens(r)} : B!Say(r, "model", n)
  BY DEF B!Answer
<1>5. n \in Nat /\ n > 0
  BY <1>1, <1>3, TokensAllowed
<1>6. /\ tokens' \in [Rows -> Seq(B!Authors)] /\ response_mask' \in [Rows -> Seq({0, 1})]
      /\ response_logprobs' \in [Rows -> Seq(B!Authors)]
      /\ RowAligned(r)' /\ tokens'[r] # <<>>
      /\ \A q \in Rows \ {r} : /\ tokens'[q] = tokens[q] /\ response_mask'[q] = response_mask[q]
                              /\ response_logprobs'[q] = response_logprobs[q]
  <2>1. "model" \in B!Authors
    BY DEF B!Authors
  <2> QED BY <1>1, <1>2, <1>4, <1>5, <2>1, SaySays
<1>7. \/ pc' = [pc EXCEPT ![r] = "terminated"] /\ calls' = calls
      \/ /\ ~(Len(response_mask'[r]) >= ResponseLength)
         /\ \E k \in 0 .. MaxCalls :
              /\ calls' = [calls EXCEPT ![r] = B!Filled(B!Smaller(k, MaxParallelCalls), "called")]
              /\ pc' = [pc EXCEPT ![r] = IF k > 0 THEN "calling"
                                         ELSE IF config.interaction THEN "interacting"
                                         ELSE "terminated"]
  BY DEF B!Answer, B!Stops
<1>8. pc'[r] \in {"calling", "interacting", "terminated"} /\ \A q \in Rows \ {r} : pc'[q] = pc[q]
  BY <1>1, <1>7 DEF B!TypeOK
<1>9. pc' \in [Rows -> {"pending", "generating", "asked", "calling",
                        "interacting", "terminated", "done"}]
  BY <1>1, <1>7 DEF B!TypeOK
<1>10. calls' \in [Rows -> Seq({"called", "created", "executed", "answered"})]
  <2>1. CASE calls' = calls
    BY <1>1, <2>1 DEF B!TypeOK
  <2>2. ASSUME NEW k \in 0 .. MaxCalls,
               calls' = [calls EXCEPT ![r] = B!Filled(B!Smaller(k, MaxParallelCalls), "called")]
        PROVE  calls' \in [Rows -> Seq({"called", "created", "executed", "answered"})]
    <3>1. B!Smaller(k, MaxParallelCalls) \in Nat
      BY AgentConstants DEF B!Smaller
    <3>2. B!Filled(B!Smaller(k, MaxParallelCalls), "called")
              \in Seq({"called", "created", "executed", "answered"})
      BY <3>1, FilledIs
    <3> QED BY <1>1, <2>2, <3>2 DEF B!TypeOK
  <2> QED BY <1>7, <2>1, <2>2
<1>11. assistant_turns' \in [Rows -> Nat]
  BY <1>1, <1>2 DEF B!TypeOK
<1>12. B!TypeOK'
  BY <1>1, <1>2, <1>6, <1>9, <1>10, <1>11 DEF B!TypeOK, B!balance
<1>13. Going(r)'
  <2>1. pc'[r] = "calling" => Len(tokens'[r]) < ResponseLength
    <3>1. Len(response_mask'[r]) = Len(tokens'[r])
      BY <1>6 DEF RowAligned
    <3>2. Len(tokens'[r]) \in Nat
      BY <1>6
    <3>3. pc'[r] = "calling" => ~(Len(response_mask'[r]) >= ResponseLength)
      BY <1>1, <1>7 DEF B!TypeOK
    <3> QED BY <3>1, <3>2, <3>3, AgentConstants
  <2>2. pc'[r] = "interacting" => config.interaction
    BY <1>1, <1>7 DEF B!TypeOK
  <2> QED BY <1>1, <1>2, <1>6, <1>8, <2>1, <2>2 DEF Going
<1>14. Result(r)'
  BY <1>8 DEF Result
<1>15. B!FailsIfUnsupported'
  BY <1>2, NotFailed
<1> QED BY <1>1, <1>2, <1>6, <1>8, <1>12, <1>13, <1>14, <1>15, WorkersStay, OneRow

LEMMA ToolsAnswerKeeps ==
    ASSUME B!ToolAgentAssumption, AgentInv, NEW r \in Rows, B!ToolsAnswer(r)
    PROVE  AgentInv'
<1>1. /\ B!TypeOK /\ RowAligned(r) /\ Going(r) /\ Result(r)
      /\ \A w \in Workers : Sessions(w) /\ Balanced(w)
  BY DEF AgentInv
<1>2. /\ UNCHANGED <<config, prompt, assistant_turns, output>> /\ UNCHANGED B!balance
      /\ calls' = [calls EXCEPT ![r] = <<>>] /\ pc[r] = "calling"
  BY DEF B!ToolsAnswer, B!At
<1>3. PICK n \in TextLens :
        \/ /\ B!Refused(n) /\ batch' = "failed"
           /\ UNCHANGED <<pc, user_turns>> /\ UNCHANGED B!history
        \/ /\ pc' = [pc EXCEPT ![r] = "terminated"] /\ UNCHANGED <<batch, user_turns>>
           /\ UNCHANGED B!history
        \/ /\ B!Fits(r, B!Truncated(n)) /\ B!Say(r, "tool", B!Truncated(n))
           /\ user_turns' = [user_turns EXCEPT ![r] = @ + 1]
           /\ pc' = [pc EXCEPT ![r] = "generating"] /\ batch' = batch
  BY DEF B!ToolsAnswer
<1>4. n \in Nat /\ B!Truncated(n) \in Nat
  BY <1>1, AgentConstants, CutShort
<1>5. B!FailsIfUnsupported'
  BY <1>2, <1>3, <1>4, NotFailed
<1>6. calls' \in [Rows -> Seq({"called", "created", "executed", "answered"})]
  <2>1. <<>> \in Seq({"called", "created", "executed", "answered"})
    OBVIOUS
  <2> QED BY <1>1, <1>2, <2>1 DEF B!TypeOK
<1>7. tokens[r] # <<>>
  BY <1>1, <1>2 DEF Going
<1>8. CASE UNCHANGED <<pc, user_turns>> /\ UNCHANGED B!history /\ batch' = "failed"
  <2>1. B!TypeOK'
    BY <1>1, <1>2, <1>6, <1>8 DEF B!TypeOK, B!history, B!balance
  <2>2. RowAligned(r)' /\ Going(r)' /\ Result(r)'
    BY <1>1, <1>2, <1>8, RowStays DEF B!history
  <2> QED BY <1>1, <1>2, <1>5, <1>8, <2>1, <2>2, WorkersStay, OneRow DEF B!history
<1>9. CASE /\ pc' = [pc EXCEPT ![r] = "terminated"] /\ UNCHANGED <<batch, user_turns>>
           /\ UNCHANGED B!history
  <2>1. B!TypeOK'
    BY <1>1, <1>2, <1>6, <1>9 DEF B!TypeOK, B!history, B!balance
  <2>2. pc'[r] = "terminated" /\ \A q \in Rows \ {r} : pc'[q] = pc[q]
    BY <1>1, <1>9 DEF B!TypeOK
  <2>3. RowAligned(r)'
    BY <1>1, <1>2, <1>9 DEF RowAligned, B!history
  <2>4. Going(r)' /\ Result(r)'
    BY <1>1, <1>2, <2>2 DEF Going, Result
  <2> QED BY <1>1, <1>2, <1>5, <1>9, <2>1, <2>2, <2>3, <2>4, WorkersStay, OneRow DEF B!history
<1>10. CASE /\ B!Fits(r, B!Truncated(n)) /\ B!Say(r, "tool", B!Truncated(n))
            /\ user_turns' = [user_turns EXCEPT ![r] = @ + 1]
            /\ pc' = [pc EXCEPT ![r] = "generating"] /\ batch' = batch
  <2>1. /\ tokens' \in [Rows -> Seq(B!Authors)] /\ response_mask' \in [Rows -> Seq({0, 1})]
        /\ response_logprobs' \in [Rows -> Seq(B!Authors)]
        /\ RowAligned(r)' /\ Len(tokens'[r]) = Len(tokens[r]) + B!Truncated(n)
        /\ \A q \in Rows \ {r} : /\ tokens'[q] = tokens[q] /\ response_mask'[q] = response_mask[q]
                                /\ response_logprobs'[q] = response_logprobs[q]
    <3>1. "tool" \in B!Authors
      BY DEF B!Authors
    <3> QED BY <1>1, <1>2, <1>4, <1>7, <1>10, <3>1, SaySays
  <2>2. B!TypeOK'
    <3>1. user_turns' \in [Rows -> Nat]
      BY <1>1, <1>10 DEF B!TypeOK
    <3>2. pc' \in [Rows -> {"pending", "generating", "asked", "calling",
                            "interacting", "terminated", "done"}]
      BY <1>1, <1>10 DEF B!TypeOK
    <3> QED BY <1>1, <1>2, <1>6, <1>10, <2>1, <3>1, <3>2 DEF B!TypeOK, B!balance
  <2>3. pc'[r] = "generating" /\ \A q \in Rows \ {r} : pc'[q] = pc[q]
    BY <1>1, <1>10 DEF B!TypeOK
  <2>4. Len(tokens'[r]) < ResponseLength
    BY <1>1, <1>10, <2>1 DEF B!Fits, RowAligned
  <2>5. Going(r)' /\ Result(r)'
    BY <1>1, <1>2, <2>3, <2>4 DEF Going, Result
  <2> QED BY <1>1, <1>2, <1>5, <1>10, <2>1, <2>2, <2>3, <2>5, WorkersStay, OneRow
<1> QED BY <1>3, <1>8, <1>9, <1>10

LEMMA InteractKeeps ==
    ASSUME B!ToolAgentAssumption, AgentInv, NEW r \in Rows, B!Interact(r)
    PROVE  AgentInv'
<1>1. /\ B!TypeOK /\ RowAligned(r) /\ Going(r) /\ Result(r)
      /\ \A w \in Workers : Sessions(w) /\ Balanced(w)
  BY DEF AgentInv
<1>2. /\ UNCHANGED <<config, prompt, assistant_turns, calls, output>> /\ UNCHANGED B!balance
      /\ user_turns' = [user_turns EXCEPT ![r] = @ + 1] /\ pc[r] = "interacting"
  BY DEF B!Interact, B!At
<1>3. PICK n \in TextLens, next \in {"generating", "terminated"} :
        \/ B!Refused(n) /\ batch' = "failed" /\ UNCHANGED pc /\ UNCHANGED B!history
        \/ B!Say(r, "user", B!Truncated(n)) /\ pc' = [pc EXCEPT ![r] = next] /\ UNCHANGED batch
  BY DEF B!Interact
<1>4. n \in Nat /\ B!Truncated(n) \in Nat
  BY <1>1, AgentConstants, CutShort
<1>5. B!FailsIfUnsupported'
  BY <1>2, <1>3, <1>4, NotFailed
<1>6. tokens[r] # <<>> /\ config.interaction
  BY <1>1, <1>2 DEF Going
<1>9. user_turns' \in [Rows -> Nat]
  BY <1>1, <1>2 DEF B!TypeOK
<1>7. CASE batch' = "failed" /\ UNCHANGED pc /\ UNCHANGED B!history
  <2>1. B!TypeOK'
    BY <1>1, <1>2, <1>7, <1>9 DEF B!TypeOK, B!history, B!balance
  <2>2. RowAligned(r)' /\ Going(r)' /\ Result(r)'
    BY <1>1, <1>2, <1>7, RowStays DEF B!history
  <2> QED BY <1>1, <1>2, <1>5, <1>7, <2>1, <2>2, WorkersStay, OneRow DEF B!history
<1>8. CASE B!Say(r, "user", B!Truncated(n)) /\ pc' = [pc EXCEPT ![r] = next] /\ UNCHANGED batch
  <2>1. /\ tokens' \in [Rows -> Seq(B!Authors)] /\ response_mask' \in [Rows -> Seq({0, 1})]
        /\ response_logprobs' \in [Rows -> Seq(B!Authors)] /\ RowAligned(r)'
        /\ \A q \in Rows \ {r} : /\ tokens'[q] = tokens[q] /\ response_mask'[q] = response_mask[q]
                                /\ response_logprobs'[q] = response_logprobs[q]
    <3>1. "user" \in B!Authors
      BY DEF B!Authors
    <3> QED BY <1>1, <1>2, <1>4, <1>6, <1>8, <3>1, SaySays
  <2>2. B!TypeOK'
    <3>1. pc' \in [Rows -> {"pending", "generating", "asked", "calling",
                            "interacting", "terminated", "done"}]
      BY <1>1, <1>8 DEF B!TypeOK
    <3> QED BY <1>1, <1>2, <1>8, <1>9, <2>1, <3>1 DEF B!TypeOK, B!balance
  <2>3. pc'[r] = next /\ \A q \in Rows \ {r} : pc'[q] = pc[q]
    BY <1>1, <1>8 DEF B!TypeOK
  <2>4. Going(r)' /\ Result(r)'
    BY <1>1, <1>2, <1>6, <2>3 DEF Going, Result
  <2> QED BY <1>1, <1>2, <1>5, <1>8, <2>1, <2>2, <2>3, <2>4, WorkersStay, OneRow
<1> QED BY <1>3, <1>7, <1>8

\* Cut to the response's length.
LEMMA CutIs ==
    ASSUME B!ToolAgentAssumption, NEW S, NEW s \in Seq(S)
    PROVE  /\ B!Cut(s) \in Seq(S) /\ Len(B!Cut(s)) = B!Smaller(Len(s), ResponseLength)
           /\ Len(B!Cut(s)) \in Nat /\ Len(B!Cut(s)) <= Len(s) /\ Len(B!Cut(s)) <= ResponseLength
           /\ \A i \in 1 .. Len(B!Cut(s)) : B!Cut(s)[i] = s[i]
<1>1. PICK n \in Nat : n = B!Smaller(Len(s), ResponseLength) /\ n <= Len(s) /\ n <= ResponseLength
  BY AgentConstants DEF B!Smaller
<1>2. B!Cut(s) = SubSeq(s, 1, n)
  BY <1>1 DEF B!Cut
<1>3. SubSeq(s, 1, n) \in Seq(S) /\ Len(SubSeq(s, 1, n)) = n
      /\ \A i \in 1 .. n : SubSeq(s, 1, n)[i] = s[i]
  BY <1>1
<1> QED BY <1>1, <1>2, <1>3

\* The end of prompt and response that is as long as the response is the response.
LEMMA ResponseIs ==
    ASSUME B!TypeOK, NEW r \in Rows, RowAligned(r)
    PROVE  B!Response(r) = tokens[r]
<1> DEFINE S == B!Authors \cup {"prompt"}
           p == B!Filled(prompt[r], "prompt")
           t == tokens[r]
           b == p \o t
<1>1. prompt[r] \in Nat /\ t \in Seq(B!Authors) /\ t \in Seq(S)
  BY DEF B!TypeOK
<1>2. p \in Seq(S) /\ Len(p) \in Nat
  <2>1. "prompt" \in S
    OBVIOUS
  <2> QED BY <1>1, <2>1, FilledIs
<1>3. B!Response(r) = SubSeq(b, Len(b) - Len(t) + 1, Len(b))
  BY DEF B!Response, RowAligned
<1> HIDE DEF p, t, S
<1>4. /\ b \in Seq(S) /\ Len(b) = Len(p) + Len(t)
      /\ \A i \in 1 .. Len(t) : b[Len(p) + i] = t[i]
  BY <1>1, <1>2, Concatenated
<1>5. Len(t) \in Nat
  BY <1>1
<1>6. B!Response(r) = SubSeq(b, Len(p) + 1, Len(p) + Len(t))
  <2>1. Len(b) - Len(t) + 1 = Len(p) + 1
    BY <1>2, <1>4, <1>5
  <2> QED BY <1>3, <1>4, <2>1
<1> HIDE DEF b
<1>7. /\ SubSeq(b, Len(p) + 1, Len(p) + Len(t)) \in Seq(S)
      /\ Len(SubSeq(b, Len(p) + 1, Len(p) + Len(t))) = Len(t)
      /\ \A i \in 1 .. Len(t) : SubSeq(b, Len(p) + 1, Len(p) + Len(t))[i] = b[Len(p) + i]
  BY <1>2, <1>4, <1>5
<1>8. SubSeq(b, Len(p) + 1, Len(p) + Len(t)) = t
  BY <1>1, <1>4, <1>7
<1> QED BY <1>6, <1>8 DEF t

LEMMA FinishKeeps ==
    ASSUME B!ToolAgentAssumption, AgentInv, NEW r \in Rows, B!Finish(r)
    PROVE  AgentInv'
<1>1. /\ B!TypeOK /\ RowAligned(r) /\ Going(r) /\ Result(r)
      /\ \A w \in Workers : Sessions(w) /\ Balanced(w)
  BY DEF AgentInv
<1>2. /\ UNCHANGED <<config, batch, prompt, assistant_turns, user_turns, calls>>
      /\ UNCHANGED B!history /\ UNCHANGED B!balance /\ pc' = [pc EXCEPT ![r] = "done"]
  BY DEF B!Finish
<1> DEFINE o == [response_ids |-> B!Cut(tokens[r]), response_mask |-> B!Cut(response_mask[r]),
                 response_logprobs |-> B!Cut(response_logprobs[r])]
<1>3. output' = [output EXCEPT ![r] = o]
  BY <1>1, ResponseIs DEF B!Finish
<1>4. /\ tokens[r] \in Seq(B!Authors) /\ response_mask[r] \in Seq({0, 1})
      /\ response_logprobs[r] \in Seq(B!Authors)
  BY <1>1 DEF B!TypeOK
<1>5. /\ B!Cut(tokens[r]) \in Seq(B!Authors) /\ B!Cut(response_mask[r]) \in Seq({0, 1})
      /\ B!Cut(response_logprobs[r]) \in Seq(B!Authors)
  BY <1>4, CutIs
<1>6. B!TypeOK'
  <2>1. o \in [response_ids : Seq(B!Authors), response_mask : Seq({0, 1}),
              response_logprobs : Seq(B!Authors)]
    BY <1>5
  <2> HIDE DEF o
  <2> QED BY <1>1, <1>2, <1>3, <2>1 DEF B!TypeOK, B!history, B!balance
<1>7. pc'[r] = "done" /\ output'[r] = o
      /\ \A q \in Rows \ {r} : pc'[q] = pc[q] /\ output'[q] = output[q]
  BY <1>1, <1>2, <1>3 DEF B!TypeOK
<1>8. RowAligned(r)'
  BY <1>1, <1>2 DEF RowAligned, B!history
<1>9. Going(r)'
  BY <1>1, <1>2, <1>7 DEF Going
<1>10. Result(r)'
  <2>1. Len(o.response_ids) = Len(o.response_mask) /\ Len(o.response_ids) <= ResponseLength
    BY <1>1, <1>4, CutIs DEF RowAligned
  <2>2. ASSUME NEW i \in DOMAIN o.response_ids
        PROVE  /\ o.response_ids[i] \in B!Authors
               /\ (o.response_mask[i] = 1) = (o.response_ids[i] = "model")
    <3>1. i \in 1 .. Len(B!Cut(tokens[r])) /\ i \in 1 .. Len(B!Cut(response_mask[r]))
      BY <1>5, <2>1
    <3>2. B!Cut(tokens[r])[i] = tokens[r][i] /\ B!Cut(response_mask[r])[i] = response_mask[r][i]
      BY <1>4, <3>1, CutIs
    <3>3. i \in 1 .. Len(tokens[r])
      BY <1>4, <3>1, CutIs
    <3>4. (response_mask[r][i] = 1) = (tokens[r][i] = "model")
      BY <1>1, <3>3 DEF RowAligned
    <3>5. tokens[r][i] \in B!Authors
      BY <1>4, <3>3
    <3> QED BY <3>2, <3>4, <3>5
  <2>3. o.response_logprobs = IF config.log_probs THEN o.response_ids ELSE <<>>
    <3>1. CASE config.log_probs
      BY <1>1, <3>1 DEF RowAligned
    <3>2. CASE ~config.log_probs
      <4>1. response_logprobs[r] = <<>>
        BY <1>1, <3>2 DEF RowAligned
      <4>2. B!Cut(<<>>) = <<>>
        <5>1. B!Smaller(0, ResponseLength) = 0
          BY AgentConstants DEF B!Smaller
        <5> QED BY <5>1 DEF B!Cut
      <4> QED BY <3>2, <4>1, <4>2
    <3> QED BY <3>1, <3>2
  <2> HIDE DEF o
  <2> QED BY <1>2, <1>7, <2>1, <2>2, <2>3 DEF Result
<1>11. B!FailsIfUnsupported'
  BY <1>2, NotFailed
<1> QED BY <1>1, <1>2, <1>6, <1>7, <1>8, <1>9, <1>10, <1>11, WorkersStay, OneRow DEF B!history

\* Rows of one width: a training's are padded to ResponseLength, and none is longer.
LEMMA ReturnKeeps ==
    ASSUME B!ToolAgentAssumption, AgentInv, B!Return
    PROVE  AgentInv'
<1>1. B!TypeOK /\ \A r \in Rows : RowAligned(r) /\ Going(r) /\ Result(r)
  BY DEF AgentInv
<1>2. /\ UNCHANGED <<config, pc, prompt, assistant_turns, user_turns, calls, output>>
      /\ UNCHANGED B!history /\ UNCHANGED B!balance /\ \A r \in Rows : pc[r] = "done"
      /\ batch' = IF \A q, r \in Rows : B!Width(q) = B!Width(r) THEN "returned" ELSE "failed"
  BY DEF B!Return
<1>3. B!TypeOK'
  BY <1>1, <1>2 DEF B!TypeOK, B!history, B!balance
<1>4. \A r \in Rows : RowAligned(r)' /\ Going(r)' /\ Result(r)'
  BY <1>1, <1>2, RowStays DEF B!history
<1>5. B!FailsIfUnsupported'
  <2>1. SUFFICES ASSUME ~(config.validate /\ config.val_response_length \in 1 .. ResponseLength - 1)
                 PROVE  batch' = "returned"
    BY <1>2 DEF B!FailsIfUnsupported
  <2>2. PICK width \in Nat : width >= ResponseLength
          /\ width = IF config.validate /\ config.val_response_length # B!NoLimit
                       THEN config.val_response_length ELSE ResponseLength
    <3>1. config.val_response_length \in Nat
      BY <1>1, ConfigTypes DEF B!TypeOK
    <3> QED BY <2>1, <3>1, AgentConstants DEF B!NoLimit
  <2>3. ASSUME NEW r \in Rows
        PROVE  B!Width(r) = width
    <3>1. Len(output[r].response_ids) <= ResponseLength
      BY <1>1, <1>2 DEF Result
    <3>2. Len(output[r].response_ids) \in Nat
      BY <1>1 DEF B!TypeOK
    <3> QED BY <2>2, <3>1, <3>2, AgentConstants DEF B!Width
  <2> QED BY <1>2, <2>3
<1>6. \A w \in Workers : Sessions(w)' /\ Balanced(w)'
  BY <1>2, WorkersStay DEF AgentInv
<1> QED BY <1>3, <1>4, <1>5, <1>6 DEF AgentInv

-----------------------------------------------------------------------------
\* A worker that has a session for none but other rows has room for one more.
LEMMA RoomForOne ==
    ASSUME B!ToolAgentAssumption, B!TypeOK, NEW w \in Workers, Sessions(w), NEW r \in RowOf(w),
           \A i \in DOMAIN cache[w] : cache[w][i].row # r,
           Cardinality(RowOf(w)) <= CacheSize
    PROVE  Len(cache[w]) < CacheSize
<1>1. cache[w] \in Seq([row : Rows, server : Servers])
  BY DEF B!TypeOK
<1> DEFINE f == [i \in 1 .. Len(cache[w]) |-> cache[w][i].row]
           R == RowOf(w) \ {r}
<1>2. Len(cache[w]) \in Nat /\ DOMAIN cache[w] = 1 .. Len(cache[w])
  BY <1>1
<1>3. f \in [1 .. Len(cache[w]) -> R]
  <2>1. ASSUME NEW i \in 1 .. Len(cache[w])
        PROVE  cache[w][i].row \in R
    <3>1. cache[w][i] \in [row : Rows, server : Servers]
      <4> DEFINE T == [row : Rows, server : Servers]
      <4>1. cache[w] \in Seq(T)
        BY <1>1
      <4> HIDE DEF T
      <4>2. cache[w][i] \in T
        BY <2>1, <4>1
      <4> QED BY <4>2 DEF T
    <3>2. WorkerOf[cache[w][i].row] = w /\ cache[w][i].row # r
      BY <1>2, <2>1 DEF Sessions
    <3> QED BY <3>1, <3>2 DEF RowOf
  <2> HIDE DEF R
  <2> QED BY <2>1
<1>4. \A i, j \in 1 .. Len(cache[w]) : f[i] = f[j] => i = j
  BY <1>2 DEF Sessions
<1>5. IsFiniteSet(RowOf(w)) /\ IsFiniteSet(R) /\ Cardinality(R) = Cardinality(RowOf(w)) - 1
      /\ Cardinality(RowOf(w)) \in Nat
  <2>1. IsFiniteSet(RowOf(w))
    BY AgentConstants, FS_Subset DEF RowOf
  <2> QED BY <2>1, FS_RemoveElement, FS_CardinalityType
<1> HIDE DEF f, R
<1>6. f \in Injection(1 .. Len(cache[w]), R)
  BY <1>3, <1>4 DEF Injection, IsInjective
<1>7. Cardinality(1 .. Len(cache[w])) <= Cardinality(R)
  BY <1>5, <1>6, FS_Injection
<1>8. Cardinality(1 .. Len(cache[w])) = Len(cache[w])
  <2>1. ASSUME NEW n \in Nat
        PROVE  Cardinality(1 .. n) = n
    <3>1. Cardinality(1 .. n) = IF 1 > n THEN 0 ELSE n - 1 + 1
      BY FS_Interval
    <3> QED BY <3>1
  <2> QED BY <1>2, <2>1
<1> QED BY <1>2, <1>5, <1>7, <1>8, AgentConstants

\* A worker's cache when a session is used again.
LEMMA SessionUsed ==
    ASSUME B!ToolAgentAssumption, AgentInv, B!TypeOK', NEW r \in Rows, NEW w \in Workers,
           w = WorkerOf[r], NEW i \in B!Session(r),
           cache' = [cache EXCEPT ![w] = Append(B!RemoveAt(@, i), @[i])],
           served' = [served EXCEPT ![r] = @ \cup {cache[w][i].server}]
    PROVE  Sessions(w)'
<1> DEFINE c == cache[w]
           d == cache'[w]
           at == [j \in 1 .. Len(c) |-> IF j < i THEN j ELSE IF j < Len(c) THEN j + 1 ELSE i]
           to == [k \in 1 .. Len(c) |-> IF k < i THEN k ELSE IF k > i THEN k - 1 ELSE Len(c)]
<1>1. B!TypeOK /\ Sessions(w) /\ c \in Seq([row : Rows, server : Servers])
  BY DEF AgentInv, B!TypeOK
<1>2. Len(c) \in Nat /\ DOMAIN c = 1 .. Len(c) /\ i \in 1 .. Len(c) /\ c[i].row = r
  BY <1>1 DEF B!Session
<1>3. d = Append(B!RemoveAt(c, i), c[i])
  BY <1>1 DEF B!TypeOK
<1> HIDE DEF c, d
<1>4. /\ d \in Seq([row : Rows, server : Servers]) /\ Len(d) = Len(c)
      /\ \A j \in 1 .. Len(c) : d[j] = IF j < i THEN c[j] ELSE IF j < Len(c) THEN c[j + 1] ELSE c[i]
  BY <1>1, <1>2, <1>3, MovedToEnd
<1>5. DOMAIN d = 1 .. Len(c)
  BY <1>4
<1>6. \A j \in 1 .. Len(c) : at[j] \in 1 .. Len(c) /\ d[j] = c[at[j]]
  BY <1>2, <1>4
<1>7. \A j, k \in 1 .. Len(c) : at[j] = at[k] => j = k
  BY <1>2
<1>8. \A k \in 1 .. Len(c) : to[k] \in 1 .. Len(c) /\ d[to[k]] = c[k]
  BY <1>2, <1>4
<1>9. to[i] \in 1 .. Len(c) /\ d[to[i]] = c[i]
  BY <1>2, <1>8
<1> HIDE DEF at, to
<1>10. \A j, k \in DOMAIN d : d[j].row = d[k].row => j = k
  <2>1. \A j, k \in DOMAIN c : c[j].row = c[k].row => j = k
    BY <1>1 DEF Sessions, c
  <2> QED BY <1>2, <1>5, <1>6, <1>7, <2>1
<1>11. \A j \in DOMAIN d : WorkerOf[d[j].row] = w
  <2>1. \A j \in DOMAIN c : WorkerOf[c[j].row] = w
    BY <1>1 DEF Sessions, c
  <2> QED BY <1>2, <1>5, <1>6, <2>1
<1>12. ASSUME Cardinality(RowOf(w)) <= CacheSize, NEW q \in RowOf(w), served'[q] # {}
       PROVE  \E j \in DOMAIN d : d[j].row = q /\ served'[q] = {d[j].server}
  <2>1. \A p \in RowOf(w) : served[p] # {} =>
          \E j \in DOMAIN c : c[j].row = p /\ served[p] = {c[j].server}
    BY <1>1, <1>12 DEF Sessions, c
  <2>2. CASE q = r
    <3>1. served'[r] = served[r] \cup {c[i].server}
      BY <1>1 DEF B!TypeOK, c
    <3>2. served[r] = {} \/ served[r] = {c[i].server}
      <4>1. \A j \in DOMAIN c : c[j].row = r => j = i
        BY <1>1, <1>2 DEF Sessions, c
      <4> QED BY <2>1, <2>2, <4>1
    <3> QED BY <1>2, <1>5, <1>9, <2>2, <3>1, <3>2
  <2>3. CASE q # r
    <3>1. served'[q] = served[q]
      BY <1>1, <2>3 DEF B!TypeOK, RowOf
    <3>2. PICK k \in DOMAIN c : c[k].row = q /\ served[q] = {c[k].server}
      BY <1>12, <2>1, <3>1
    <3>3. to[k] \in DOMAIN d /\ d[to[k]] = c[k]
      BY <1>2, <1>5, <1>8
    <3> QED BY <3>1, <3>2, <3>3
  <2> QED BY <2>2, <2>3
<1>13. RowOf(w)' = RowOf(w)
  BY DEF RowOf
<1> QED BY <1>10, <1>11, <1>12, <1>13 DEF Sessions, d

\* And when a row without a session is given one.
LEMMA SessionGiven ==
    ASSUME B!ToolAgentAssumption, AgentInv, B!TypeOK', NEW r \in Rows, NEW w \in Workers,
           w = WorkerOf[r], NEW s \in Servers, B!Session(r) = {},
           cache' = [cache EXCEPT ![w] =
             IF Len(Append(cache[w], [row |-> r, server |-> s])) > CacheSize
             THEN Tail(Append(cache[w], [row |-> r, server |-> s]))
             ELSE Append(cache[w], [row |-> r, server |-> s])],
           served' = [served EXCEPT ![r] = @ \cup {s}]
    PROVE  Sessions(w)'
<1> DEFINE c == cache[w]
           e == [row |-> r, server |-> s]
           g == Append(c, e)
           d == cache'[w]
<1>1. B!TypeOK /\ Sessions(w) /\ c \in Seq([row : Rows, server : Servers])
      /\ e \in [row : Rows, server : Servers] /\ e.row = r /\ e.server = s
  BY DEF AgentInv, B!TypeOK
<1>2. /\ Len(c) \in Nat /\ DOMAIN c = 1 .. Len(c) /\ \A i \in DOMAIN c : c[i].row # r
      /\ r \in RowOf(w)
  BY <1>1 DEF B!Session, RowOf
<1>3. d = IF Len(g) > CacheSize THEN Tail(g) ELSE g
  BY <1>1 DEF B!TypeOK
<1> HIDE DEF c, d, e
<1>4. /\ g \in Seq([row : Rows, server : Servers]) /\ Len(g) = Len(c) + 1
      /\ \A i \in 1 .. Len(c) : g[i] = c[i]
      /\ g[Len(c) + 1] = e
  BY <1>1
<1> HIDE DEF g
<1>5. DOMAIN g = 1 .. Len(c) + 1
  BY <1>4
<1>6. \A i, j \in DOMAIN g : g[i].row = g[j].row => i = j
  <2>1. \A i, j \in DOMAIN c : c[i].row = c[j].row => i = j
    BY <1>1 DEF Sessions, c
  <2> QED BY <1>1, <1>2, <1>4, <1>5, <2>1
<1>7. \A i \in DOMAIN g : WorkerOf[g[i].row] = w
  <2>1. \A j \in DOMAIN c : WorkerOf[c[j].row] = w
    BY <1>1 DEF Sessions, c
  <2> QED BY <1>1, <1>2, <1>4, <1>5, <2>1
<1>8. /\ \A i, j \in DOMAIN d : d[i].row = d[j].row => i = j
      /\ \A i \in DOMAIN d : WorkerOf[d[i].row] = w
  <2>1. CASE d = g
    BY <1>6, <1>7, <2>1
  <2>2. CASE d = Tail(g)
    <3>1. DOMAIN d = 1 .. Len(c) /\ \A i \in 1 .. Len(c) : d[i] = g[i + 1]
      BY <1>2, <1>4, <2>2
    <3>2. \A i \in 1 .. Len(c) : i + 1 \in DOMAIN g
      BY <1>2, <1>5
    <3>3. \A i, j \in 1 .. Len(c) : i + 1 = j + 1 => i = j
      BY <1>2
    <3> QED BY <1>6, <1>7, <3>1, <3>2, <3>3
  <2> QED BY <1>3, <2>1, <2>2
<1>9. ASSUME Cardinality(RowOf(w)) <= CacheSize, NEW q \in RowOf(w), served'[q] # {}
      PROVE  \E j \in DOMAIN d : d[j].row = q /\ served'[q] = {d[j].server}
  <2>1. \A p \in RowOf(w) : served[p] # {} =>
          \E j \in DOMAIN c : c[j].row = p /\ served[p] = {c[j].server}
    BY <1>1, <1>9 DEF Sessions, c
  <2>2. d = g
    <3>1. Len(c) < CacheSize
      BY <1>1, <1>2, <1>9, RoomForOne DEF c
    <3> QED BY <1>2, <1>3, <1>4, <3>1, AgentConstants
  <2>3. CASE q = r
    <3>1. served'[r] = served[r] \cup {s}
      BY <1>1 DEF B!TypeOK
    <3>2. served[r] = {}
      BY <1>2, <2>1
    <3>3. Len(c) + 1 \in DOMAIN d
      BY <1>2, <1>5, <2>2
    <3> QED BY <1>1, <1>4, <2>2, <2>3, <3>1, <3>2, <3>3
  <2>4. CASE q # r
    <3>1. served'[q] = served[q]
      BY <1>1, <2>4 DEF B!TypeOK, RowOf
    <3>2. PICK j \in DOMAIN c : c[j].row = q /\ served[q] = {c[j].server}
      BY <1>9, <2>1, <3>1
    <3>3. j \in DOMAIN d /\ d[j] = c[j]
      BY <1>2, <1>4, <1>5, <2>2
    <3> QED BY <3>1, <3>2, <3>3
  <2> QED BY <2>3, <2>4
<1>10. RowOf(w)' = RowOf(w)
  BY DEF RowOf
<1> QED BY <1>8, <1>9, <1>10 DEF Sessions, d

LEMMA AskKeeps ==
    ASSUME B!ToolAgentAssumption, AgentInv, NEW r \in Rows, B!Ask(r)
    PROVE  AgentInv'
<1>1. /\ B!TypeOK /\ RowAligned(r) /\ Going(r) /\ Result(r)
      /\ \A w \in Workers : Sessions(w) /\ Balanced(w)
  BY DEF AgentInv
<1>2. /\ UNCHANGED <<config, prompt, assistant_turns, user_turns, calls, output>>
      /\ UNCHANGED B!history /\ pc[r] = "generating"
  BY DEF B!Ask, B!At
<1>3. PICK s \in Servers : B!Choose(r, s) /\ served' = [served EXCEPT ![r] = @ \cup {s}]
  BY DEF B!Ask
<1> DEFINE v == WorkerOf[r]
           g == Append(cache[v], [row |-> r, server |-> s])
<1>4. v \in Workers /\ cache[v] \in Seq([row : Rows, server : Servers])
  BY <1>1, AgentConstants DEF B!TypeOK
<1>5. \/ \E i \in B!Session(r) : /\ s = cache[v][i].server
                             /\ cache' = [cache EXCEPT ![v] = Append(B!RemoveAt(@, i), @[i])]
                             /\ weights' = weights
      \/ /\ B!Session(r) = {} /\ B!IsLeastLoaded(v, s)
         /\ weights' = [weights EXCEPT ![v][s] = @ + 1]
         /\ cache' = [cache EXCEPT ![v] = IF Len(g) > CacheSize THEN Tail(g) ELSE g]
  BY <1>3 DEF B!Choose, B!Counted
<1>6. served' \in [Rows -> SUBSET Servers]
  BY <1>1, <1>3 DEF B!TypeOK
<1>7. cache' \in [Workers -> Seq([row : Rows, server : Servers])]
  <2>1. CASE B!Session(r) = {}
    <3>1. g \in Seq([row : Rows, server : Servers]) /\ Len(g) > 0
      BY <1>4
    <3> HIDE DEF g
    <3>2. Tail(g) \in Seq([row : Rows, server : Servers])
      BY <3>1
    <3> QED BY <1>1, <1>5, <2>1, <3>1, <3>2 DEF B!TypeOK
  <2>2. ASSUME NEW i \in B!Session(r),
               cache' = [cache EXCEPT ![v] = Append(B!RemoveAt(@, i), @[i])]
        PROVE  cache' \in [Workers -> Seq([row : Rows, server : Servers])]
    <3>1. i \in 1 .. Len(cache[v])
      BY <1>4 DEF B!Session
    <3>2. Append(B!RemoveAt(cache[v], i), cache[v][i]) \in Seq([row : Rows, server : Servers])
      BY <1>4, <3>1, MovedToEnd
    <3> QED BY <1>1, <2>2, <3>2 DEF B!TypeOK
  <2> QED BY <1>5, <2>1, <2>2
<1>8. weights' \in [Workers -> [Servers -> Nat]]
  <2>1. weights \in [Workers -> [Servers -> Nat]]
    BY <1>1 DEF B!TypeOK
  <2>2. CASE weights' = [weights EXCEPT ![v][s] = @ + 1]
    <3>1. [weights[v] EXCEPT ![s] = @ + 1] \in [Servers -> Nat]
      BY <1>4, <2>1
    <3>2. weights' = [weights EXCEPT ![v] = [weights[v] EXCEPT ![s] = @ + 1]]
      BY <2>2
    <3> HIDE DEF v
    <3> QED BY <1>4, <2>1, <3>1, <3>2
  <2> QED BY <1>5, <2>1, <2>2
<1>9. \/ B!MaxTokens(r) > 0 /\ pc' = [pc EXCEPT ![r] = "asked"] /\ batch' = batch
      \/ ~(B!MaxTokens(r) > 0) /\ batch' = "failed" /\ pc' = pc
  BY DEF B!Ask
<1>10. B!TypeOK'
  <2>1. pc' \in [Rows -> {"pending", "generating", "asked", "calling", "interacting", "terminated",
                          "done"}]
    BY <1>1, <1>9 DEF B!TypeOK
  <2>2. batch' \in {"running", "returned", "failed"}
    BY <1>1, <1>9 DEF B!TypeOK
  <2> QED BY <1>1, <1>2, <1>6, <1>7, <1>8, <2>1, <2>2 DEF B!TypeOK, B!history
<1>11. ASSUME NEW w \in Workers
       PROVE  Balanced(w)'
  <2>1. Balanced(w)
    BY <1>1
  <2>2. CASE weights' = weights
    BY <2>1, <2>2 DEF Balanced
  <2>3. CASE B!IsLeastLoaded(v, s) /\ weights' = [weights EXCEPT ![v][s] = @ + 1]
    <3>1. weights[w] \in [Servers -> Nat] /\ weights[v] \in [Servers -> Nat]
      BY <1>1, <1>4 DEF B!TypeOK
    <3>2. CASE w = v
      <4>1. weights'[w] = [weights[w] EXCEPT ![s] = @ + 1]
        BY <1>1, <2>3, <3>2 DEF B!TypeOK
      <4>2. \A t \in Servers : weights[w][s] <= weights[w][t]
        BY <2>3, <3>1, <3>2 DEF B!IsLeastLoaded
      <4> QED BY <2>1, <3>1, <4>1, <4>2 DEF Balanced
    <3>3. CASE w # v
      <4>1. weights'[w] = weights[w]
        BY <1>1, <2>3, <3>3 DEF B!TypeOK
      <4> QED BY <2>1, <4>1 DEF Balanced
    <3> QED BY <3>2, <3>3
  <2> QED BY <1>5, <2>2, <2>3
<1>12. ASSUME NEW w \in Workers
       PROVE  Sessions(w)'
  <2>1. CASE w # v
    <3>1. cache'[w] = cache[w]
      BY <1>1, <1>5, <2>1 DEF B!TypeOK
    <3>2. \A q \in RowOf(w) : served'[q] = served[q]
      BY <1>1, <1>3, <2>1 DEF B!TypeOK, RowOf
    <3>3. RowOf(w)' = RowOf(w)
      BY DEF RowOf
    <3> QED BY <1>1, <3>1, <3>2, <3>3 DEF Sessions
  <2>2. CASE w = v /\ B!Session(r) # {}
    BY <1>3, <1>5, <1>10, <2>2, SessionUsed
  <2>3. CASE w = v /\ B!Session(r) = {}
    BY <1>3, <1>5, <1>10, <2>3, SessionGiven
  <2> QED BY <2>1, <2>2, <2>3
<1>13. RowAligned(r)'
  BY <1>1, <1>2 DEF RowAligned, B!history
<1>14. Len(tokens[r]) \in Nat /\ prompt[r] \in Nat
  BY <1>1 DEF B!TypeOK
<1>15. CASE B!MaxTokens(r) > 0 /\ pc' = [pc EXCEPT ![r] = "asked"] /\ batch' = batch
  <2>1. pc'[r] = "asked" /\ \A q \in Rows \ {r} : pc'[q] = pc[q]
    BY <1>1, <1>15 DEF B!TypeOK
  <2>2. B!MaxTokens(r)' = B!MaxTokens(r)
    BY <1>2 DEF B!MaxTokens, B!Smaller, B!history
  <2>3. Going(r)' /\ Result(r)'
    BY <1>1, <1>2, <1>15, <2>1, <2>2 DEF Going, Result
  <2>4. B!FailsIfUnsupported'
    BY <1>2, <1>15, NotFailed
  <2> QED BY <1>2, <1>10, <1>11, <1>12, <1>13, <2>1, <2>3, <2>4, OneRow DEF B!history
<1>16. CASE ~(B!MaxTokens(r) > 0) /\ batch' = "failed" /\ pc' = pc
  <2>1. Going(r)' /\ Result(r)'
    BY <1>1, <1>2, <1>16, RowStays DEF B!history
  <2>2. config.interaction
    <3> SUFFICES ASSUME ~config.interaction
                 PROVE  FALSE
      OBVIOUS
    <3>1. Len(tokens[r]) < ResponseLength /\ prompt[r] <= PromptLens[r]
      BY <1>1, <1>2 DEF Going
    <3>2. prompt[r] + Len(tokens[r]) < MaxModelLen
      BY <1>14, <3>1, AgentConstants
    <3>3. config.val_response_length \in Nat
      BY <1>1, ConfigTypes DEF B!TypeOK
    <3> QED BY <1>14, <1>16, <3>2, <3>3, AgentConstants DEF B!MaxTokens, B!Smaller, B!NoLimit
  <2>3. B!FailsIfUnsupported'
    BY <1>2, <2>2 DEF B!FailsIfUnsupported
  <2> QED BY <1>2, <1>10, <1>11, <1>12, <1>13, <1>16, <2>1, <2>3, OneRow DEF B!history
<1> QED BY <1>9, <1>15, <1>16

LEMMA AgentStart ==
    ASSUME B!ToolAgentAssumption, B!Init
    PROVE  AgentInv
<1>1. B!TypeOK
  <2>1. \A S : <<>> \in Seq(S)
    OBVIOUS
  <2> QED BY <2>1 DEF B!Init, B!TypeOK, B!NoOutput
<1>2. \A r \in Rows : RowAligned(r) /\ Going(r) /\ Result(r)
  <2> TAKE r \in Rows
  <2>1. tokens[r] = <<>> /\ response_mask[r] = <<>> /\ response_logprobs[r] = <<>>
        /\ pc[r] = "pending" /\ prompt[r] = 0
    BY DEF B!Init
  <2>2. PromptLens[r] \in Nat
    BY AgentConstants
  <2> QED BY <2>1, <2>2 DEF RowAligned, Going, Result
<1>3. \A w \in Workers : Sessions(w) /\ Balanced(w)
  BY DEF B!Init, Sessions, Balanced, RowOf
<1>4. B!FailsIfUnsupported
  BY DEF B!Init, B!FailsIfUnsupported
<1> QED BY <1>1, <1>2, <1>3, <1>4 DEF AgentInv

LEMMA AgentAlways ==
    ASSUME B!ToolAgentAssumption
    PROVE  B!Spec => []AgentInv
<1>1. B!Init => AgentInv
  BY AgentStart
<1>2. AgentInv /\ [B!Next]_(B!vars) => AgentInv'
  <2> SUFFICES ASSUME AgentInv, [B!Next]_(B!vars)
               PROVE  AgentInv'
    OBVIOUS
  <2>1. CASE UNCHANGED B!vars
    <3>1. UNCHANGED <<config, batch, pc, prompt, assistant_turns, user_turns, calls, output>>
          /\ UNCHANGED B!history /\ UNCHANGED B!balance
      BY <2>1 DEF B!vars, B!history, B!balance
    <3>2. B!TypeOK'
      BY <3>1 DEF AgentInv, B!TypeOK, B!history, B!balance
    <3>3. \A r \in Rows : RowAligned(r)' /\ Going(r)' /\ Result(r)'
      BY <3>1, RowStays DEF AgentInv, B!history
    <3> QED BY <3>1, <3>2, <3>3, WorkersStay, NotFailed DEF AgentInv
  <2>2. CASE B!Return
    BY <2>2, ReturnKeeps
  <2>3. ASSUME NEW r \in Rows, B!RowStep(r)
        PROVE  AgentInv'
    BY <2>3, PendingKeeps, AskKeeps, AnswerKeeps, ToolsAnswerKeeps, InteractKeeps, FinishKeeps,
       CallStepKeeps DEF B!RowStep
  <2> QED BY <2>1, <2>2, <2>3 DEF B!Next
<1> QED BY <1>1, <1>2, PTL DEF B!Spec

\* The variables have their types.
THEOREM AgentTypes ==
    ASSUME B!ToolAgentAssumption
    PROVE  B!Spec => []B!TypeOK
<1>1. ASSUME AgentInv
      PROVE  B!TypeOK
  BY <1>1 DEF AgentInv
<1> QED BY <1>1, AgentAlways, PTL

\* RowsIntact: response, mask and log-probabilities that a worker returns are of the same
\* tokens, none of them the prompt's, and no more than a response may have.
THEOREM RowsReturnedIntact ==
    ASSUME B!ToolAgentAssumption
    PROVE  B!Spec => []B!RowsIntact
<1>1. ASSUME AgentInv
      PROVE  B!RowsIntact
  BY <1>1 DEF AgentInv, B!RowsIntact, Result
<1> QED BY <1>1, AgentAlways, PTL

\* SessionsBalanced: the turns of a row go to one server while its worker's cache has room
\* for all its rows; the servers' numbers of sessions differ by at most one in any case.
THEOREM SessionsStayBalanced ==
    ASSUME B!ToolAgentAssumption
    PROVE  B!Spec => []B!SessionsBalanced
<1>1. ASSUME AgentInv
      PROVE  B!SessionsBalanced
  <2>1. ASSUME NEW r \in Rows,
               Cardinality({q \in Rows : WorkerOf[q] = WorkerOf[r]}) <= CacheSize
        PROVE  Cardinality(served[r]) <= 1
    <3>1. WorkerOf[r] \in Workers /\ r \in RowOf(WorkerOf[r])
      BY AgentConstants DEF RowOf
    <3>2. Cardinality(RowOf(WorkerOf[r])) <= CacheSize
      BY <2>1 DEF RowOf
    <3>3. Sessions(WorkerOf[r])
      BY <1>1, <3>1 DEF AgentInv
    <3>4. served[r] # {} =>
            \E i \in DOMAIN cache[WorkerOf[r]] : served[r] = {cache[WorkerOf[r]][i].server}
      BY <3>1, <3>2, <3>3 DEF Sessions
    <3>5. CASE served[r] = {}
      BY <3>5, FS_EmptySet
    <3>6. CASE served[r] # {}
      <4>1. PICK s : served[r] = {s}
        BY <3>4, <3>6
      <4>2. Cardinality(served[r]) = 1
        BY Zenon, <4>1, FS_Singleton
      <4> QED BY <4>2
    <3> QED BY <3>5, <3>6
  <2>2. \A w \in Workers : \A s, t \in Servers : weights[w][s] <= weights[w][t] + 1
    BY <1>1 DEF AgentInv, Balanced
  <2>3. \A r \in Rows : /\ B!Cardinality({q \in Rows : WorkerOf[q] = WorkerOf[r]}) =
                             Cardinality({q \in Rows : WorkerOf[q] = WorkerOf[r]})
                       /\ B!Cardinality(served[r]) = Cardinality(served[r])
    BY SameSize
  <2> QED BY <2>1, <2>2, <2>3 DEF B!SessionsBalanced
<1> QED BY <1>1, AgentAlways, PTL

\* FailsIfUnsupported: a batch of training does not fail for what tools answer.
THEOREM BatchFailsIfUnsupported ==
    ASSUME B!ToolAgentAssumption
    PROVE  B!Spec => []B!FailsIfUnsupported
<1>1. ASSUME AgentInv
      PROVE  B!FailsIfUnsupported
  BY <1>1 DEF AgentInv
<1> QED BY <1>1, AgentAlways, PTL

==============================================================================
