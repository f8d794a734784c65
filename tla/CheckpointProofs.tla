--------------------------- MODULE CheckpointProofs ---------------------------
(***************************************************************************)
(* The checkpoints of the SFT trainer, for every number of ranks, crashes  *)
(* and steps, every save frequency and retention limit; and then those of  *)
(* the Ray trainers, synchronous and fully asynchronous, for every         *)
(* distance between feeder and trainer too.                                *)
(***************************************************************************)
EXTENDS CheckpointHandler, FiniteSetTheorems, TLAPS

-----------------------------------------------------------------------------
(* The list of saved paths: what ensure_checkpoint_capacity() and          *)
(* register_checkpoint() leave of it is its end.                           *)

LEMMA NewestShape ==
    ASSUME NEW S, NEW paths \in Seq(S), NEW n \in Nat
    PROVE  /\ Newest(paths, n) \in Seq(S)
           /\ Len(Newest(paths, n)) = IF Len(paths) > n THEN n ELSE Len(paths)
           /\ \A i \in 1..Len(Newest(paths, n)) :
                 Newest(paths, n)[i] = paths[i + (Len(paths) - Len(Newest(paths, n)))]
<1>1. Len(paths) \in Nat
  OBVIOUS
<1>2. CASE Len(paths) > n
  <2>1. Newest(paths, n) = SubSeq(paths, Len(paths) - n + 1, Len(paths))
    BY <1>2 DEF Newest
  <2> QED BY <1>1, <1>2, <2>1
<1>3. CASE ~(Len(paths) > n)
  <2>1. Newest(paths, n) = paths
    BY <1>3 DEF Newest
  <2> QED BY <1>1, <1>3, <2>1
<1> QED BY <1>2, <1>3

LEMMA EnsureShape ==
    ASSUME NEW paths \in Seq(Steps), Keep \in Nat
    PROVE  LET rest == PathsAfterEnsure(paths, Keep) IN
           /\ rest \in Seq(Steps) /\ Len(rest) <= Len(paths)
           /\ \A i \in 1..Len(rest) : rest[i] = paths[i + (Len(paths) - Len(rest))]
           /\ Keep > 1 => Len(rest) <= Keep - 1
           /\ Keep # 1 /\ paths # <<>> => rest # <<>>
<1>1. CASE Keep > 1
  <2>1. PathsAfterEnsure(paths, Keep) = Newest(paths, Keep - 1) /\ Keep - 1 \in Nat
    BY <1>1 DEF PathsAfterEnsure
  <2> QED BY <1>1, <2>1, NewestShape
<1>2. CASE ~(Keep > 1)
  <2>1. PathsAfterEnsure(paths, Keep) = paths
    BY <1>2 DEF PathsAfterEnsure
  <2> QED BY <1>2, <2>1
<1> QED BY <1>1, <1>2

LEMMA RegisterShape ==
    ASSUME NEW paths \in Seq(Steps), NEW new \in Steps, Keep \in Nat
    PROVE  LET all  == Append(paths, new)
               rest == PathsAfterRegister(paths, new, Keep)
           IN  /\ rest \in Seq(Steps) /\ Len(rest) <= Len(all) /\ rest # <<>>
               /\ \A i \in 1..Len(rest) : rest[i] = all[i + (Len(all) - Len(rest))]
               /\ Keep > 0 => Len(rest) <= Keep
               /\ Keep # 1 /\ paths # <<>> => Len(rest) > 1
<1> DEFINE all == Append(paths, new)
<1>1. all \in Seq(Steps) /\ Len(all) = Len(paths) + 1 /\ Len(paths) \in Nat
      /\ (paths # <<>> => Len(paths) > 0)
  OBVIOUS
<1>2. CASE Keep > 0
  <2>1. PathsAfterRegister(paths, new, Keep) = Newest(all, Keep)
    BY <1>2 DEF PathsAfterRegister
  <2> HIDE DEF all
  <2>2. /\ Newest(all, Keep) \in Seq(Steps)
        /\ Len(Newest(all, Keep)) = IF Len(all) > Keep THEN Keep ELSE Len(all)
        /\ \A i \in 1..Len(Newest(all, Keep)) :
              Newest(all, Keep)[i] = all[i + (Len(all) - Len(Newest(all, Keep)))]
    BY <1>1, NewestShape
  <2>3. /\ Len(Newest(all, Keep)) <= Len(all) /\ Newest(all, Keep) # <<>>
        /\ Len(Newest(all, Keep)) <= Keep
        /\ Keep # 1 /\ paths # <<>> => Len(Newest(all, Keep)) > 1
    BY <1>1, <1>2, <2>2
  <2> QED BY <2>1, <2>2, <2>3 DEF all
<1>3. CASE ~(Keep > 0)
  <2>1. PathsAfterRegister(paths, new, Keep) = all
    BY <1>3 DEF PathsAfterRegister
  <2> HIDE DEF all
  <2> QED BY <1>1, <1>3, <2>1 DEF all
<1> QED BY <1>2, <1>3

(* The paths that are left are not among what is removed.                  *)
LEMMA DroppedApart ==
    ASSUME NEW before, NEW after, NEW i \in 1..Len(after)
    PROVE  after[i] \notin Dropped(before, after)
  BY DEF Dropped

-----------------------------------------------------------------------------
(* Where the ranks are: between two barriers of a save they are all in the *)
(* same part of it.                                                        *)
Entering == {"enter", "ready"}
Writing == {"write", "written"}
Ending == {"register", "data", "saving", "track", "finish"}
Saving == Entering \cup Writing \cup Ending
Running == ~ At("down") /\ ~ At("failed")

Aligned ==
  \/ At("train") \/ At("down") \/ At("failed")
  \/ /\ step > 0
     /\ \/ \A r \in Ranks : phase[r] \in Entering
        \/ \A r \in Ranks : phase[r] \in Writing
        \/ \A r \in Ranks : phase[r] \in Ending

LEMMA TypeAtStart == HandlerAssumption /\ Init => TypeOK /\ Aligned
<1> SUFFICES ASSUME HandlerAssumption, Init PROVE TypeOK /\ Aligned
  OBVIOUS
<1>1. TypeOK
  BY DEF HandlerAssumption, Init, TypeOK, Phases, NoData, Steps, None, Missing, DataStates
<1>2. At("train")
  BY DEF Init, At
<1> QED BY <1>1, <1>2 DEF Aligned

(* The steps of a rank, by the part of the save it is in.                  *)
LEMMA RankMoves ==
    ASSUME HandlerAssumption, TypeOK, Aligned, NEW r \in Ranks, RankStep(r)
    PROVE  /\ step \in Steps /\ step' = step /\ position' = position
           /\ UNCHANGED auxVars
           /\ phase[r] \in Saving
           /\ \E p \in Saving : /\ phase' = [phase EXCEPT ![r] = p]
                                /\ \/ phase[r] = "enter" /\ p = "ready" /\ EnterSave(r)
                                   \/ phase[r] = "write" /\ p = "written" /\ WriteShard(r)
                                   \/ phase[r] = "register" /\ p = "data" /\ RegisterSave(r)
                                   \/ phase[r] = "data" /\ p = "saving" /\ OpenData(r)
                                   \/ phase[r] = "saving" /\ p = "track" /\ SaveData(r)
                                   \/ phase[r] = "track" /\ p = "finish" /\ Track(r)
<1>1. phase[r] \in {"enter", "write", "register", "data", "saving", "track"}
  BY DEF RankStep, EnterSave, WriteShard, RegisterSave, OpenData, SaveData, Track
<1>2. step \in Steps
  BY <1>1 DEF Aligned, At, TypeOK, Steps
<1>3. step' = step /\ position' = position /\ UNCHANGED auxVars
  BY DEF RankStep, EnterSave, WriteShard, RegisterSave, OpenData, SaveData, Track
<1>4. \E p \in Saving : /\ phase' = [phase EXCEPT ![r] = p]
                        /\ \/ phase[r] = "enter" /\ p = "ready" /\ EnterSave(r)
                           \/ phase[r] = "write" /\ p = "written" /\ WriteShard(r)
                           \/ phase[r] = "register" /\ p = "data" /\ RegisterSave(r)
                           \/ phase[r] = "data" /\ p = "saving" /\ OpenData(r)
                           \/ phase[r] = "saving" /\ p = "track" /\ SaveData(r)
                           \/ phase[r] = "track" /\ p = "finish" /\ Track(r)
  BY DEF RankStep, EnterSave, WriteShard, RegisterSave, OpenData, SaveData, Track, Go, Saving,
     Entering, Writing, Ending
<1> QED BY <1>1, <1>2, <1>3, <1>4 DEF Saving, Entering, Writing, Ending

LEMMA AlignedStep ==
    ASSUME HandlerAssumption, TypeOK, Aligned, [Next]_vars
    PROVE  Aligned'
<1>1. Rank0 \in Ranks /\ phase \in [Ranks -> Phases] /\ step \in Nat
  BY DEF HandlerAssumption, TypeOK
<1>2. CASE TrainStep
  <2>1. \/ phase' = [r \in Ranks |-> "enter"]
        \/ phase' = [r \in Ranks |-> "train"]
    BY <1>2 DEF TrainStep, GoAll
  <2>2. step' = step + 1
    BY <1>2 DEF TrainStep
  <2> QED BY <1>1, <2>1, <2>2 DEF Aligned, At, Entering
<1>3. ASSUME NEW r \in Ranks, RankStep(r) PROVE Aligned'
  <2>1. step' = step /\ step > 0
    BY <1>3, RankMoves DEF Steps
  <2>2. PICK p \in Saving : /\ phase' = [phase EXCEPT ![r] = p]
                            /\ \/ phase[r] = "enter" /\ p = "ready"
                               \/ phase[r] = "write" /\ p = "written"
                               \/ phase[r] = "register" /\ p = "data"
                               \/ phase[r] = "data" /\ p = "saving"
                               \/ phase[r] = "saving" /\ p = "track"
                               \/ phase[r] = "track" /\ p = "finish"
    BY <1>3, RankMoves
  <2>3. \A q \in Ranks : phase'[q] = IF q = r THEN p ELSE phase[q]
    BY <1>1, <2>2
  <2>4. \/ \A q \in Ranks : phase[q] \in Entering
        \/ \A q \in Ranks : phase[q] \in Writing
        \/ \A q \in Ranks : phase[q] \in Ending
    BY <2>2 DEF Aligned, At
  <2>5. \/ \A q \in Ranks : phase'[q] \in Entering
        \/ \A q \in Ranks : phase'[q] \in Writing
        \/ \A q \in Ranks : phase'[q] \in Ending
    BY <2>2, <2>3, <2>4 DEF Entering, Writing, Ending
  <2> QED BY <2>1, <2>5 DEF Aligned
<1>4. CASE Barriers
  <2>1. /\ step' = step /\ phase[Rank0] \in {"ready", "written", "finish"}
        /\ \E p \in {"write", "register", "train"} : phase' = [r \in Ranks |-> p]
    BY <1>1, <1>4 DEF Barriers, Barrier, At, GoAll
  <2>2. step > 0
    BY <1>1, <2>1 DEF Aligned, At
  <2> QED BY <2>1, <2>2 DEF Aligned, At, Writing, Ending
<1>5. CASE Crash \/ Restart
  <2>1. \E p \in {"down", "train", "failed"} : phase' = [r \in Ranks |-> p]
    BY <1>5 DEF Crash, Restart, GoAll
  <2> QED BY <2>1 DEF Aligned, At
<1>6. CASE UNCHANGED vars
  BY <1>6 DEF vars, Aligned, At
<1> QED BY <1>2, <1>3, <1>4, <1>5, <1>6 DEF Next

LEMMA RemoveType ==
    ASSUME TypeOK, NEW S, NEW made \in SUBSET Steps, Remove(S, made)
    PROVE  /\ dirs' \subseteq Steps
           /\ shards' \in [Steps -> SUBSET Ranks]
           /\ data' \in [Steps -> [Ranks -> DataStates]]
<1>1. NoData \in [Ranks -> DataStates]
  BY DEF NoData, DataStates
<1> QED BY <1>1 DEF Remove, TypeOK

LEMMA TypeStep ==
    ASSUME HandlerAssumption, TypeOK, Aligned, [Next]_vars
    PROVE  TypeOK'
<1>1. TotalSteps \in Nat \ {0} /\ Keep \in Nat /\ MaxCrashes \in Nat
  BY DEF HandlerAssumption
<1>2. CASE TrainStep
  <2>1. step' \in 0 .. TotalSteps
    BY <1>1, <1>2 DEF TrainStep, MoreSteps, TypeOK
  <2>2. phase' \in [Ranks -> Phases]
    BY <1>2 DEF TrainStep, GoAll, Phases
  <2>3. position' \in [Ranks -> 0 .. TotalSteps]
    <3>1. position \in [Ranks -> 0 .. TotalSteps]
      BY DEF TypeOK
    <3>2. \A r \in Ranks :
             (IF position[r] < TotalSteps THEN position[r] + 1 ELSE 1) \in 0 .. TotalSteps
      BY <1>1, <3>1
    <3> QED BY <1>2, <3>2 DEF TrainStep
  <2> QED BY <1>2, <2>1, <2>2, <2>3 DEF TypeOK, TrainStep, diskVars, auxVars
<1>3. ASSUME NEW r \in Ranks, RankStep(r) PROVE TypeOK'
  <2>1. /\ step \in Steps /\ UNCHANGED <<step, position, completed, inherited, crashes>>
        /\ phase' \in [Ranks -> Phases]
    <3>1. PICK p \in Saving : phase' = [phase EXCEPT ![r] = p]
      BY <1>3, RankMoves
    <3>2. phase' \in [Ranks -> Phases]
      BY <3>1 DEF TypeOK, Phases, Saving, Entering, Writing, Ending
    <3> QED BY <1>3, <3>2, RankMoves DEF auxVars
  <2>2. CASE EnterSave(r)
    <3>1. previous' \in Seq(Steps)
      BY <1>1, <2>2, EnsureShape DEF EnterSave, TypeOK
    <3>2. Remove(Dropped(previous, previous'), {step}) /\ tracker' = tracker
      BY <2>2 DEF EnterSave
    <3>3. /\ dirs' \subseteq Steps /\ shards' \in [Steps -> SUBSET Ranks]
          /\ data' \in [Steps -> [Ranks -> DataStates]]
      BY <2>1, <3>2, RemoveType
    <3> QED BY <2>1, <3>1, <3>2, <3>3 DEF TypeOK
  <2>3. CASE RegisterSave(r)
    <3>1. previous' \in Seq(Steps)
      BY <1>1, <2>1, <2>3, RegisterShape DEF RegisterSave, TypeOK
    <3>2. Remove(Dropped(Append(previous, step), previous') \ {step}, {}) /\ tracker' = tracker
      BY <2>3 DEF RegisterSave
    <3>3. /\ dirs' \subseteq Steps /\ shards' \in [Steps -> SUBSET Ranks]
          /\ data' \in [Steps -> [Ranks -> DataStates]]
      BY <3>2, RemoveType
    <3> QED BY <2>1, <3>1, <3>2, <3>3 DEF TypeOK
  <2>4. CASE WriteShard(r)
    <3>1. UNCHANGED <<previous, dirs, data, tracker>> /\ shards' \in [Steps -> SUBSET Ranks]
      BY <2>1, <2>4 DEF WriteShard, TypeOK
    <3> QED BY <2>1, <3>1 DEF TypeOK
  <2>5. CASE SaveData(r)
    <3>1. position[r] \in DataStates
      BY DEF TypeOK, DataStates
    <3>2. /\ UNCHANGED <<previous, dirs, shards, tracker>>
          /\ data' \in [Steps -> [Ranks -> DataStates]]
      BY <2>1, <2>5, <3>1 DEF SaveData, TypeOK
    <3> QED BY <2>1, <3>2 DEF TypeOK
  <2>6. CASE Track(r)
    <3>1. UNCHANGED <<previous, dirs, shards, data>> /\ tracker' \in {None} \union Steps
      BY <2>1, <2>6 DEF Track, TypeOK
    <3> QED BY <2>1, <3>1 DEF TypeOK
  <2>7. CASE OpenData(r)
    <3>1. Torn \in DataStates
      BY DEF DataStates
    <3>2. /\ UNCHANGED <<previous, dirs, shards, tracker>>
          /\ data' \in [Steps -> [Ranks -> DataStates]]
      BY <2>1, <2>7, <3>1 DEF OpenData, TypeOK
    <3> QED BY <2>1, <3>2 DEF TypeOK
  <2> QED BY <1>3, <2>2, <2>3, <2>4, <2>5, <2>6, <2>7 DEF RankStep
<1>4. CASE Barriers
  <2>1. /\ UNCHANGED <<step, position, previous, dirs, shards, data, tracker, inherited, crashes>>
        /\ phase' \in [Ranks -> Phases] /\ completed' \in {step, completed}
    BY <1>4 DEF Barriers, Barrier, GoAll, Phases, diskVars
  <2>2. step \in {None} \union Steps
    BY DEF TypeOK, Steps, None
  <2> QED BY <2>1, <2>2 DEF TypeOK
<1>5. CASE Crash
  <2>1. crashes' \in 0 .. MaxCrashes
    BY <1>1, <1>5 DEF Crash, TypeOK
  <2> QED BY <1>5, <2>1 DEF Crash, GoAll, diskVars, TypeOK, Phases
<1>6. CASE Restart
  <2>1. ResumeStep \in 0 .. TotalSteps /\ (ResumeStep # None => ResumeStep \in Steps)
    BY <1>1 DEF ResumeStep, TypeOK, Steps, None
  <2>2. step' \in 0 .. TotalSteps
    BY <1>1, <1>6, <2>1 DEF Restart, TypeOK
  <2>3. position' \in [Ranks -> 0 .. TotalSteps]
    <3>1. CASE position' = [r \in Ranks |-> 0] \/ position' = position
      BY <1>1, <3>1 DEF TypeOK
    <3>2. CASE /\ ResumeStep # None /\ Loads(ResumeStep)
               /\ position' = [r \in Ranks |->
                     IF data[ResumeStep][r] = Missing THEN 0 ELSE data[ResumeStep][r]]
      <4>1. data[ResumeStep] \in [Ranks -> DataStates]
        BY <2>1, <3>2 DEF TypeOK
      <4>2. \A r \in Ranks :
               data[ResumeStep][r] = Missing \/ data[ResumeStep][r] \in 0 .. TotalSteps
        BY <3>2, <4>1 DEF Loads, DataStates
      <4> QED BY <1>1, <3>2, <4>2
    <3> QED BY <1>6, <3>1, <3>2 DEF Restart
  <2>4. /\ phase' \in [Ranks -> Phases] /\ inherited' = dirs
        /\ UNCHANGED <<previous, dirs, shards, data, tracker, completed, crashes>>
    BY <1>6 DEF Restart, GoAll, Phases, diskVars
  <2> QED BY <2>2, <2>3, <2>4 DEF TypeOK
<1>7. CASE UNCHANGED vars
  BY <1>7 DEF vars, diskVars, auxVars, TypeOK
<1> QED BY <1>2, <1>3, <1>4, <1>5, <1>6, <1>7 DEF Next

(* The handler's state keeps its types.                                    *)
THEOREM TypeCorrect ==
    ASSUME HandlerAssumption
    PROVE  Spec => []TypeOK
<1>1. TypeOK /\ Aligned /\ [Next]_vars => TypeOK' /\ Aligned'
  BY AlignedStep, TypeStep
<1> QED BY <1>1, TypeAtStart, PTL DEF Spec

-----------------------------------------------------------------------------
(* The inductive invariant behind what a restart finds.  What each rank    *)
(* has done of the save, it has left on disk; the list of saved paths ends *)
(* with the checkpoint the tracker names, so a limit other than 1 never    *)
(* removes it; and the tracker names no step before a completed save,      *)
(* whose files nothing that is written later touches.                      *)
Last(s) == s[Len(s)]
Registered == phase[Rank0] \in {"data", "saving", "track"}

Written ==
  \A r \in Ranks :
    /\ phase[r] \in {"ready"} \cup Writing \cup Ending => step \in dirs
    /\ phase[r] \in {"written"} \cup Ending => r \in shards[step]
    /\ phase[r] \in {"track", "finish"} => data[step][r] \notin {Missing, Torn}

Listed ==
  /\ At("down") \/ At("failed") => previous = <<>>
  /\ phase[Rank0] \in {"data", "saving", "track", "finish"} =>
        previous # <<>> /\ Last(previous) = step
  /\ ~ Registered /\ previous # <<>> => Last(previous) = tracker
  /\ Registered /\ Len(previous) > 1 => previous[Len(previous) - 1] = tracker

Tracked ==
  /\ Running => tracker <= step
  /\ phase[Rank0] \in Saving \ {"finish"} => tracker < step
  /\ phase[Rank0] = "finish" => tracker = step
  /\ phase[Rank0] \in Saving => completed < step
  /\ completed <= tracker
  /\ completed # None /\ completed = tracker => HoldsPositions(tracker)

HandlerInv == TypeOK /\ Aligned /\ Written /\ Listed /\ Tracked /\ Resumable

LEMMA InvAtStart == HandlerAssumption /\ Init => HandlerInv
<1> SUFFICES ASSUME HandlerAssumption, Init PROVE HandlerInv
  OBVIOUS
<1>1. Rank0 \in Ranks /\ \A r \in Ranks : phase[r] = "train"
  BY DEF HandlerAssumption, Init
<1>2. previous = <<>> /\ tracker = 0 /\ completed = 0 /\ step = 0 /\ None = 0
  BY DEF Init, None
<1>3. Written
  BY <1>1 DEF Written, Writing, Ending
<1>4. Listed
  BY <1>1, <1>2 DEF Listed
<1>5. Tracked /\ Resumable
  BY <1>1, <1>2 DEF Tracked, Resumable, Saving, Entering, Writing, Ending
<1> QED BY <1>3, <1>4, <1>5, TypeAtStart DEF HandlerInv

(* What is removed from the disk: never the directory the tracker names,   *)
(* and not the one that is being written.                                  *)
LEMMA RemoveKeeps ==
    ASSUME TypeOK, NEW S, NEW made, Remove(S, made), NEW s \in Steps, s \notin S
    PROVE  /\ s \in dirs => s \in dirs'
           /\ shards'[s] = shards[s] /\ data'[s] = data[s]
  BY DEF Remove

LEMMA EnterKeeps ==
    ASSUME HandlerAssumption, Keep # 1, HandlerInv, NEW r \in Ranks, EnterSave(r)
    PROVE  /\ step \in Steps /\ step \in dirs'
           /\ tracker # None => /\ tracker \in dirs' /\ shards'[tracker] = shards[tracker]
                                /\ data'[tracker] = data[tracker]
           /\ previous # <<>> <=> previous' # <<>>
           /\ previous # <<>> => Last(previous') = Last(previous)
           /\ tracker' = tracker
<1>1. /\ phase[r] = "enter" /\ Remove(Dropped(previous, previous'), {step})
      /\ previous' = (IF r = Rank0 THEN PathsAfterEnsure(previous, Keep) ELSE previous)
      /\ tracker' = tracker
  BY DEF EnterSave
<1>2. /\ previous \in Seq(Steps) /\ Keep \in Nat /\ Rank0 \in Ranks
      /\ (tracker # None => tracker \in Steps /\ tracker \in dirs)
  BY DEF HandlerInv, TypeOK, HandlerAssumption, Resumable
<1>3. /\ previous' \in Seq(Steps)
      /\ previous # <<>> <=> previous' # <<>>
      /\ previous # <<>> => Last(previous') = Last(previous)
  <2>1. CASE r = Rank0
    <3> DEFINE rest == PathsAfterEnsure(previous, Keep)
    <3>1. /\ rest \in Seq(Steps) /\ Len(rest) <= Len(previous)
          /\ \A i \in 1..Len(rest) : rest[i] = previous[i + (Len(previous) - Len(rest))]
          /\ previous # <<>> => rest # <<>>
      BY <1>2, EnsureShape
    <3>2. previous' = rest
      BY <1>1, <2>1
    <3> HIDE DEF rest
    <3>3. Len(rest) \in Nat /\ Len(previous) \in Nat /\ (rest # <<>> => Len(rest) > 0)
          /\ (previous = <<>> => Len(previous) = 0) /\ (rest = <<>> <=> Len(rest) = 0)
      BY <1>2, <3>1
    <3>4. rest # <<>> => rest[Len(rest)] = previous[Len(previous)]
      BY <3>1, <3>3
    <3> QED BY <3>1, <3>2, <3>3, <3>4 DEF Last
  <2>2. CASE r # Rank0
    BY <1>1, <1>2, <2>2
  <2> QED BY <2>1, <2>2
<1>4. tracker \notin Dropped(previous, previous')
  <2>1. CASE previous = <<>>
    BY <2>1 DEF Dropped
  <2>2. CASE previous # <<>>
    <3>1. ~ Registered
      BY <1>1, <1>2 DEF HandlerInv, Aligned, At, Registered, Entering, Writing, Ending
    <3>2. Last(previous') = tracker /\ previous' # <<>>
      BY <1>3, <2>2, <3>1 DEF HandlerInv, Listed
    <3>3. Len(previous') \in 1..Len(previous')
      BY <1>3, <3>2
    <3> QED BY <3>2, <3>3, DroppedApart DEF Last
  <2> QED BY <2>1, <2>2
<1>5. step \in Steps
  BY <1>1 DEF HandlerInv, TypeOK, Aligned, At, Steps
<1>6. step \in dirs'
  BY <1>1 DEF Remove
<1>7. tracker # None => /\ tracker \in dirs' /\ shards'[tracker] = shards[tracker]
                        /\ data'[tracker] = data[tracker]
  BY <1>1, <1>2, <1>4, RemoveKeeps DEF HandlerInv
<1> QED BY <1>1, <1>3, <1>5, <1>6, <1>7

LEMMA RegisterKeeps ==
    ASSUME HandlerAssumption, Keep # 1, HandlerInv, NEW r \in Ranks, RegisterSave(r)
    PROVE  /\ step \in Steps
           /\ step \in dirs => step \in dirs'
           /\ shards'[step] = shards[step] /\ data'[step] = data[step]
           /\ tracker # None => /\ tracker \in dirs' /\ shards'[tracker] = shards[tracker]
                                /\ data'[tracker] = data[tracker]
           /\ r # Rank0 => previous' = previous
           /\ r = Rank0 => /\ previous' \in Seq(Steps) /\ previous' # <<>>
                           /\ Last(previous') = step
                           /\ Len(previous') > 1 => previous'[Len(previous') - 1] = tracker
           /\ tracker' = tracker
<1> DEFINE all == Append(previous, step)
           S == Dropped(all, previous') \ {step}
<1>1. /\ phase[r] = "register" /\ Remove(S, {}) /\ tracker' = tracker
      /\ previous' = (IF r = Rank0 THEN PathsAfterRegister(previous, step, Keep) ELSE previous)
  BY DEF RegisterSave
<1>2. /\ previous \in Seq(Steps) /\ Keep \in Nat /\ Rank0 \in Ranks
      /\ (tracker # None => tracker \in Steps /\ tracker \in dirs)
  BY DEF HandlerInv, TypeOK, HandlerAssumption, Resumable
<1>3. step \in Steps
  BY <1>1 DEF HandlerInv, TypeOK, Aligned, At, Steps
<1>4. /\ all \in Seq(Steps) /\ Len(all) = Len(previous) + 1 /\ all[Len(all)] = step
      /\ \A i \in 1..Len(previous) : all[i] = previous[i]
      /\ Len(previous) \in Nat /\ (previous = <<>> <=> Len(previous) = 0)
  BY <1>2, <1>3
<1> HIDE DEF all
<1>5. CASE r # Rank0
  <2>1. previous' = previous
    BY <1>1, <1>5
  <2>2. S = {}
    <3>1. \A i \in 1..Len(all) : all[i] = step \/ \E j \in 1..Len(previous) : all[i] = previous[j]
      BY <1>4
    <3> QED BY <2>1, <3>1 DEF Dropped
  <2> HIDE DEF S
  <2>3. /\ step \in dirs => step \in dirs'
        /\ shards'[step] = shards[step] /\ data'[step] = data[step]
    BY <1>1, <1>3, <2>2, RemoveKeeps DEF HandlerInv
  <2>4. tracker # None => /\ tracker \in dirs' /\ shards'[tracker] = shards[tracker]
                          /\ data'[tracker] = data[tracker]
    BY <1>1, <1>2, <2>2, RemoveKeeps DEF HandlerInv
  <2> QED BY <1>1, <1>3, <1>5, <2>1, <2>3, <2>4
<1>6. CASE r = Rank0
  <2>1. /\ previous' \in Seq(Steps) /\ Len(previous') <= Len(all) /\ previous' # <<>>
        /\ \A i \in 1..Len(previous') : previous'[i] = all[i + (Len(all) - Len(previous'))]
        /\ previous # <<>> => Len(previous') > 1
    BY <1>1, <1>2, <1>3, <1>6, RegisterShape DEF all
  <2>2. Len(previous') \in Nat /\ Len(previous') > 0
    BY <2>1
  <2>3. Last(previous') = step
    BY <1>4, <2>1, <2>2 DEF Last
  <2>4. previous # <<>> => Last(previous) = tracker
    BY <1>1, <1>6 DEF HandlerInv, Listed, Registered
  <2>5. Len(previous') > 1 => previous'[Len(previous') - 1] = tracker
    <3> SUFFICES ASSUME Len(previous') > 1 PROVE previous'[Len(previous') - 1] = tracker
      OBVIOUS
    <3>1. Len(previous) > 0 /\ previous # <<>>
      BY <1>4, <2>1, <2>2
    <3>2. previous'[Len(previous') - 1] = all[Len(all) - 1]
      BY <1>4, <2>1, <2>2
    <3>3. all[Len(all) - 1] = previous[Len(previous)]
      BY <1>4, <3>1
    <3> QED BY <2>4, <3>1, <3>2, <3>3 DEF Last
  <2>6. tracker # None => tracker \notin S
    <3>1. CASE previous = <<>>
      <4>1. \A i \in 1..Len(all) : all[i] = step
        BY <1>4, <3>1
      <4> QED BY <4>1 DEF Dropped
    <3>2. CASE previous # <<>>
      <4>1. Len(previous') - 1 \in 1..Len(previous') /\ previous'[Len(previous') - 1] = tracker
        BY <2>1, <2>2, <2>5, <3>2
      <4> QED BY <4>1, DroppedApart
    <3> QED BY <3>1, <3>2
  <2>7. step \notin S
    OBVIOUS
  <2> HIDE DEF S
  <2>8. /\ step \in dirs => step \in dirs'
        /\ shards'[step] = shards[step] /\ data'[step] = data[step]
    BY <1>1, <1>3, <2>7, RemoveKeeps DEF HandlerInv
  <2>9. tracker # None => /\ tracker \in dirs' /\ shards'[tracker] = shards[tracker]
                          /\ data'[tracker] = data[tracker]
    BY <1>1, <1>2, <2>6, RemoveKeeps DEF HandlerInv
  <2> QED BY <1>1, <1>3, <1>6, <2>1, <2>3, <2>5, <2>8, <2>9
<1> QED BY <1>5, <1>6

(* Every step of the trainer keeps the invariant.                          *)
Kept == Written /\ Listed /\ Tracked /\ Resumable

LEMMA TrainKeeps ==
    ASSUME HandlerAssumption, HandlerInv, TrainStep
    PROVE  Kept'
<1>1. /\ \A r \in Ranks : phase[r] = "train" /\ phase'[r] \in {"train", "enter"}
      /\ Rank0 \in Ranks /\ step' = step + 1 /\ step \in Nat
      /\ UNCHANGED <<previous, dirs, shards, data, tracker, completed>>
      /\ ~ Registered
  BY DEF TrainStep, At, GoAll, HandlerInv, TypeOK, HandlerAssumption, diskVars, auxVars,
     Registered
<1>2. tracker \in Nat /\ tracker <= step
  <2>1. Running
    BY <1>1 DEF Running, At
  <2> QED BY <2>1 DEF HandlerInv, Tracked, TypeOK, None, Steps
<1>3. Written'
  BY <1>1 DEF Written, Writing, Ending
<1>4. ~ Registered' /\ ~ At("down")' /\ ~ At("failed")'
  BY <1>1 DEF Registered, At
<1>5. Listed'
  BY <1>1, <1>4 DEF HandlerInv, Listed
<1>6. tracker < step' /\ tracker <= step' /\ phase'[Rank0] # "finish"
  BY <1>1, <1>2
<1>7. Tracked'
  <2>1. /\ completed <= tracker
        /\ completed # None /\ completed = tracker => HoldsPositions(tracker)
        /\ completed \in Nat
    BY DEF HandlerInv, Tracked, TypeOK, None, Steps
  <2>2. completed < step'
    BY <1>1, <1>2, <1>6, <2>1
  <2> QED BY <1>1, <1>6, <2>1, <2>2 DEF Tracked, HoldsPositions
<1>8. Resumable'
  BY <1>1 DEF HandlerInv, Resumable
<1> QED BY <1>3, <1>5, <1>7, <1>8 DEF Kept

LEMMA BarrierKeeps ==
    ASSUME HandlerAssumption, HandlerInv, Barriers
    PROVE  Kept'
<1>1. /\ UNCHANGED <<step, previous, dirs, shards, data, tracker>> /\ Rank0 \in Ranks
      /\ tracker \in Nat /\ step \in Nat /\ completed \in Nat
  BY DEF Barriers, Barrier, HandlerInv, TypeOK, HandlerAssumption, diskVars, None, Steps
<1>2. Resumable'
  BY <1>1 DEF HandlerInv, Resumable
<1>3. CASE Barrier("ready", "write")
  <2>1. \A r \in Ranks : phase[r] = "ready" /\ phase'[r] = "write"
    BY <1>3 DEF Barrier, At, GoAll
  <2>2. completed' = completed
    BY <1>3 DEF Barrier
  <2>3. Written'
    BY <1>1, <2>1 DEF HandlerInv, Written, Writing, Ending
  <2>4. Listed'
    BY <1>1, <2>1 DEF HandlerInv, Listed, Registered, At
  <2>5. Tracked'
    BY <1>1, <2>1, <2>2 DEF HandlerInv, Tracked, Running, At, Saving, Entering, Writing, Ending,
       HoldsPositions
  <2> QED BY <1>2, <2>3, <2>4, <2>5 DEF Kept
<1>4. CASE Barrier("written", "register")
  <2>1. \A r \in Ranks : phase[r] = "written" /\ phase'[r] = "register"
    BY <1>4 DEF Barrier, At, GoAll
  <2>2. completed' = completed
    BY <1>4 DEF Barrier
  <2>3. Written'
    BY <1>1, <2>1 DEF HandlerInv, Written, Writing, Ending
  <2>4. Listed'
    BY <1>1, <2>1 DEF HandlerInv, Listed, Registered, At
  <2>5. Tracked'
    BY <1>1, <2>1, <2>2 DEF HandlerInv, Tracked, Running, At, Saving, Entering, Writing, Ending,
       HoldsPositions
  <2> QED BY <1>2, <2>3, <2>4, <2>5 DEF Kept
<1>5. CASE Barrier("finish", "train")
  <2>1. \A r \in Ranks : phase[r] = "finish" /\ phase'[r] = "train"
    BY <1>5 DEF Barrier, At, GoAll
  <2>2. completed' = step /\ tracker = step
    BY <1>1, <1>5, <2>1 DEF Barrier, HandlerInv, Tracked
  <2>3. Written'
    BY <1>1, <2>1 DEF Written, Writing, Ending
  <2>4. Listed'
    BY <1>1, <2>1, <2>2 DEF HandlerInv, Listed, Registered, At
  <2>5. HoldsPositions(tracker)
    BY <2>1, <2>2 DEF HandlerInv, Written, HoldsPositions
  <2>6. Tracked'
    BY <1>1, <2>1, <2>2, <2>5 DEF Tracked, Saving, Entering, Writing, Ending, HoldsPositions
  <2> QED BY <1>2, <2>3, <2>4, <2>6 DEF Kept
<1> QED BY <1>3, <1>4, <1>5 DEF Barriers

(* What a restart finds: nothing, or a whole checkpoint.                   *)
LEMMA Resumes ==
    ASSUME HandlerInv
    PROVE  /\ ResumeStep = tracker
           /\ ResumeStep # None => shards[ResumeStep] = Ranks
  BY DEF HandlerInv, Resumable, ResumeStep

LEMMA CrashKeeps ==
    ASSUME HandlerAssumption, HandlerInv, Crash \/ Restart
    PROVE  Kept'
<1>1. /\ UNCHANGED <<dirs, shards, data, tracker, completed>> /\ Rank0 \in Ranks
      /\ tracker \in Nat
      /\ \E p \in {"down", "train", "failed"} : \A r \in Ranks : phase'[r] = p
  BY DEF Crash, Restart, GoAll, HandlerInv, TypeOK, HandlerAssumption, diskVars, None,
     Steps
<1>2. previous' = <<>>
  BY DEF Crash, Restart, HandlerInv, Listed
<1>3. Running' => step' = tracker
  BY <1>1, Resumes DEF Crash, Restart, GoAll, Running, At, None
<1>4. Written'
  BY <1>1 DEF Written, Writing, Ending
<1>5. Listed'
  BY <1>1, <1>2 DEF Listed
<1>6. Tracked'
  BY <1>1, <1>3 DEF HandlerInv, Tracked, Saving, Entering, Writing, Ending, HoldsPositions
<1>7. Resumable'
  BY <1>1 DEF HandlerInv, Resumable
<1> QED BY <1>4, <1>5, <1>6, <1>7 DEF Kept

(* A step of one rank's save.                                              *)
LEMMA RankKeeps ==
    ASSUME HandlerAssumption, Keep # 1, HandlerInv, NEW r \in Ranks, RankStep(r)
    PROVE  Kept'
<1>1. /\ step \in Steps /\ step' = step /\ completed' = completed /\ phase[r] \in Saving
      /\ Rank0 \in Ranks /\ phase \in [Ranks -> Phases]
      /\ tracker \in Nat /\ step \in Nat /\ completed \in Nat
  BY RankMoves DEF HandlerInv, auxVars, TypeOK, HandlerAssumption, None, Steps
<1>2. PICK p \in Saving : /\ phase' = [phase EXCEPT ![r] = p]
                          /\ \/ phase[r] = "enter" /\ p = "ready" /\ EnterSave(r)
                             \/ phase[r] = "write" /\ p = "written" /\ WriteShard(r)
                             \/ phase[r] = "register" /\ p = "data" /\ RegisterSave(r)
                             \/ phase[r] = "data" /\ p = "saving" /\ OpenData(r)
                             \/ phase[r] = "saving" /\ p = "track" /\ SaveData(r)
                             \/ phase[r] = "track" /\ p = "finish" /\ Track(r)
  BY RankMoves DEF HandlerInv
<1>3. \A q \in Ranks : phase'[q] = IF q = r THEN p ELSE phase[q]
  BY <1>1, <1>2
<1>4. Running /\ ~ At("down")' /\ ~ At("failed")'
  BY <1>1, <1>2, <1>3 DEF Running, At, Saving, Entering, Writing, Ending
<1>5. Written /\ Listed /\ Tracked /\ Resumable
  BY DEF HandlerInv
<1>6. CASE EnterSave(r)
  <2>1. phase[r] = "enter" /\ p = "ready"
    BY <1>2, <1>6 DEF EnterSave
  <2>2. \A q \in Ranks : phase[q] \in Entering /\ phase'[q] \in Entering
    BY <1>3, <2>1 DEF HandlerInv, Aligned, At, Entering, Writing, Ending
  <2>3. /\ step \in dirs'
        /\ tracker # None => /\ tracker \in dirs' /\ shards'[tracker] = shards[tracker]
                             /\ data'[tracker] = data[tracker]
        /\ previous # <<>> <=> previous' # <<>>
        /\ previous # <<>> => Last(previous') = Last(previous)
        /\ tracker' = tracker
    BY <1>6, EnterKeeps
  <2>4. Written'
    BY <1>1, <2>2, <2>3 DEF Written, Entering, Writing, Ending
  <2>5. Listed'
    BY <1>1, <1>4, <1>5, <2>2, <2>3 DEF Listed, Registered, Entering
  <2>6. tracker < step
    BY <1>1, <1>5, <2>2 DEF Tracked, Saving, Entering
  <2>7. Tracked'
    BY <1>1, <1>5, <2>2, <2>3, <2>6 DEF Tracked, Entering, None, HoldsPositions, Saving
  <2>8. Resumable'
    BY <1>5, <2>3 DEF Resumable
  <2> QED BY <2>4, <2>5, <2>7, <2>8 DEF Kept
<1>7. CASE WriteShard(r)
  <2>1. phase[r] = "write" /\ p = "written"
    BY <1>2, <1>7 DEF WriteShard
  <2>2. \A q \in Ranks : phase[q] \in Writing /\ phase'[q] \in Writing
    BY <1>3, <2>1 DEF HandlerInv, Aligned, At, Entering, Writing, Ending
  <2>3. /\ UNCHANGED <<previous, dirs, data, tracker>>
        /\ shards' = [shards EXCEPT ![step] = @ \union {r}]
        /\ shards \in [Steps -> SUBSET Ranks]
    BY <1>7 DEF WriteShard, HandlerInv, TypeOK
  <2>4. Written'
    BY <1>1, <1>3, <1>5, <2>1, <2>2, <2>3 DEF Written, Writing, Ending
  <2>5. Listed'
    BY <1>1, <1>4, <1>5, <2>2, <2>3 DEF Listed, Registered, Writing
  <2>6. tracker < step
    BY <1>1, <1>5, <2>2 DEF Tracked, Saving, Writing
  <2>7. Tracked'
    BY <1>1, <1>5, <2>2, <2>3, <2>6 DEF Tracked, Writing, HoldsPositions, Saving
  <2>8. Resumable'
    BY <1>1, <1>5, <2>3, <2>6 DEF Resumable, HandlerInv, TypeOK
  <2> QED BY <2>4, <2>5, <2>7, <2>8 DEF Kept
<1>8. CASE RegisterSave(r)
  <2>1. phase[r] = "register" /\ p = "data"
    BY <1>2, <1>8 DEF RegisterSave
  <2>2. \A q \in Ranks : phase[q] \in Ending /\ phase'[q] \in Ending
    BY <1>3, <2>1 DEF HandlerInv, Aligned, At, Entering, Writing, Ending
  <2>3. /\ step \in dirs => step \in dirs'
        /\ shards'[step] = shards[step] /\ data'[step] = data[step]
        /\ tracker # None => /\ tracker \in dirs' /\ shards'[tracker] = shards[tracker]
                             /\ data'[tracker] = data[tracker]
        /\ r # Rank0 => previous' = previous
        /\ r = Rank0 => /\ previous' \in Seq(Steps) /\ previous' # <<>>
                        /\ Last(previous') = step
                        /\ Len(previous') > 1 => previous'[Len(previous') - 1] = tracker
        /\ tracker' = tracker
    BY <1>8, RegisterKeeps
  <2>4. Written'
    BY <1>1, <1>3, <1>5, <2>1, <2>2, <2>3 DEF Written, Ending
  <2>5. Listed'
    <3>1. CASE r = Rank0
      BY <1>1, <1>3, <1>4, <2>1, <2>3, <3>1 DEF Listed, Registered
    <3>2. CASE r # Rank0
      BY <1>1, <1>3, <1>4, <1>5, <2>3, <3>2 DEF Listed, Registered
    <3> QED BY <3>1, <3>2
  <2>6. /\ phase[Rank0] # "finish" => tracker < step
        /\ phase'[Rank0] = "finish" <=> phase[Rank0] = "finish"
    BY <1>1, <1>3, <1>5, <2>1, <2>2 DEF Tracked, Saving
  <2>7. Tracked'
    <3>1. tracker <= step
      BY <1>4, <1>5 DEF Tracked
    <3> QED BY <1>1, <1>5, <2>2, <2>3, <2>6, <3>1 DEF Tracked, None, HoldsPositions, Saving
  <2>8. Resumable'
    BY <1>5, <2>3 DEF Resumable
  <2> QED BY <2>4, <2>5, <2>7, <2>8 DEF Kept
<1>9. CASE SaveData(r)
  <2>1. phase[r] = "saving" /\ p = "track"
    BY <1>2, <1>9 DEF SaveData
  <2>2. \A q \in Ranks : phase[q] \in Ending /\ phase'[q] \in Ending
    BY <1>3, <2>1 DEF HandlerInv, Aligned, At, Entering, Writing, Ending
  <2>3. /\ UNCHANGED <<previous, dirs, shards, tracker>>
        /\ data' = [data EXCEPT ![step][r] = position[r]]
        /\ data \in [Steps -> [Ranks -> DataStates]]
        /\ position[r] \notin {Missing, Torn}
    BY <1>9 DEF SaveData, HandlerInv, TypeOK, Missing, Torn, HandlerAssumption
  <2>4. \A s \in Steps, q \in Ranks : data'[s][q] = IF s = step /\ q = r THEN position[r]
                                                    ELSE data[s][q]
    BY <1>1, <2>3
  <2>5. Written'
    BY <1>1, <1>3, <1>5, <2>1, <2>2, <2>3, <2>4 DEF Written, Ending
  <2>6. Listed'
    BY <1>1, <1>3, <1>4, <1>5, <2>1, <2>2, <2>3 DEF Listed, Registered, Ending
  <2>7. /\ phase[Rank0] # "finish" => tracker < step
        /\ phase'[Rank0] = "finish" <=> phase[Rank0] = "finish"
    BY <1>1, <1>3, <1>5, <2>1, <2>2 DEF Tracked, Saving
  <2>8. Tracked'
    <3>1. tracker <= step
      BY <1>4, <1>5 DEF Tracked
    <3>2. completed # None /\ completed = tracker => HoldsPositions(tracker)'
      <4>1. tracker # None => tracker \in Steps
        BY DEF HandlerInv, TypeOK
      <4>2. completed < step
        BY <1>1, <1>5, <2>2 DEF Tracked, Saving
      <4> QED BY <1>1, <1>5, <2>3, <2>4, <4>1, <4>2 DEF Tracked, HoldsPositions, None
    <3> QED BY <1>1, <1>5, <2>2, <2>3, <2>7, <3>1, <3>2 DEF Tracked, Saving
  <2>9. Resumable'
    BY <1>5, <2>3 DEF Resumable
  <2> QED BY <2>5, <2>6, <2>8, <2>9 DEF Kept
<1>10. CASE Track(r)
  <2>1. phase[r] = "track" /\ p = "finish"
    BY <1>2, <1>10 DEF Track
  <2>2. \A q \in Ranks : phase[q] \in Ending /\ phase'[q] \in Ending
    BY <1>3, <2>1 DEF HandlerInv, Aligned, At, Entering, Writing, Ending
  <2>3. /\ UNCHANGED <<previous, dirs, shards, data>>
        /\ tracker' = (IF r = Rank0 THEN step ELSE tracker)
    BY <1>10 DEF Track
  <2>4. Written'
    BY <1>1, <1>3, <1>5, <2>1, <2>2, <2>3 DEF Written, Ending
  <2>5. step \in dirs /\ shards[step] = Ranks
    BY <1>1, <1>5, <2>2 DEF Written, HandlerInv, TypeOK
  <2>6. CASE r = Rank0
    <3>1. tracker < step
      BY <1>1, <1>5, <2>1, <2>6 DEF Tracked, Saving, Ending
    <3>2. Listed'
      BY <1>1, <1>3, <1>4, <1>5, <2>1, <2>3, <2>6 DEF Listed, Registered
    <3>3. completed < step
      BY <1>1, <1>5, <3>1 DEF Tracked
    <3>4. Tracked'
      BY <1>1, <1>3, <2>1, <2>3, <2>6, <3>3 DEF Tracked, Saving, Ending
    <3>5. Resumable'
      BY <2>3, <2>5, <2>6 DEF Resumable
    <3> QED BY <2>4, <3>2, <3>4, <3>5 DEF Kept
  <2>7. CASE r # Rank0
    <3>1. Listed'
      BY <1>1, <1>3, <1>4, <1>5, <2>3, <2>7 DEF Listed, Registered
    <3>2. Tracked'
      <4>1. tracker <= step
        BY <1>4, <1>5 DEF Tracked
      <4> QED BY <1>1, <1>3, <1>5, <2>3, <2>7, <4>1 DEF Tracked, HoldsPositions
    <3>3. Resumable'
      BY <1>5, <2>3, <2>7 DEF Resumable
    <3> QED BY <2>4, <3>1, <3>2, <3>3 DEF Kept
  <2> QED BY <2>6, <2>7
<1>11. CASE OpenData(r)
  <2>1. phase[r] = "data" /\ p = "saving"
    BY <1>2, <1>11 DEF OpenData
  <2>2. \A q \in Ranks : phase[q] \in Ending /\ phase'[q] \in Ending
    BY <1>3, <2>1 DEF HandlerInv, Aligned, At, Entering, Writing, Ending
  <2>3. /\ UNCHANGED <<previous, dirs, shards, tracker>>
        /\ data' = [data EXCEPT ![step][r] = Torn]
        /\ data \in [Steps -> [Ranks -> DataStates]]
    BY <1>11 DEF OpenData, HandlerInv, TypeOK
  <2>4. \A s \in Steps, q \in Ranks : data'[s][q] = IF s = step /\ q = r THEN Torn
                                                    ELSE data[s][q]
    BY <1>1, <2>3
  <2>5. Written'
    BY <1>1, <1>3, <1>5, <2>1, <2>2, <2>3, <2>4 DEF Written, Ending
  <2>6. Listed'
    BY <1>1, <1>3, <1>4, <1>5, <2>1, <2>2, <2>3 DEF Listed, Registered, Ending
  <2>7. /\ phase[Rank0] # "finish" => tracker < step
        /\ phase'[Rank0] = "finish" <=> phase[Rank0] = "finish"
    BY <1>1, <1>3, <1>5, <2>1, <2>2 DEF Tracked, Saving
  <2>8. Tracked'
    <3>1. tracker <= step
      BY <1>4, <1>5 DEF Tracked
    <3>2. completed # None /\ completed = tracker => HoldsPositions(tracker)'
      <4>1. tracker # None => tracker \in Steps
        BY DEF HandlerInv, TypeOK
      <4>2. completed < step
        BY <1>1, <1>5, <2>2 DEF Tracked, Saving
      <4> QED BY <1>1, <1>5, <2>3, <2>4, <4>1, <4>2 DEF Tracked, HoldsPositions, None
    <3> QED BY <1>1, <1>5, <2>2, <2>3, <2>7, <3>1, <3>2 DEF Tracked, Saving
  <2>9. Resumable'
    BY <1>5, <2>3 DEF Resumable
  <2> QED BY <2>5, <2>6, <2>8, <2>9 DEF Kept
<1> QED BY <1>6, <1>7, <1>8, <1>9, <1>10, <1>11 DEF RankStep

LEMMA InvStep ==
    ASSUME HandlerAssumption, Keep # 1, HandlerInv, [Next]_vars
    PROVE  HandlerInv'
<1>1. TypeOK' /\ Aligned'
  BY AlignedStep, TypeStep DEF HandlerInv
<1>2. CASE UNCHANGED vars
  BY <1>2 DEF HandlerInv, vars, diskVars, auxVars, TypeOK, Aligned, At, Written, Listed,
     Registered, Tracked, Running, Resumable, HoldsPositions
<1>3. CASE Next
  <2>1. Kept'
    BY <1>3, TrainKeeps, RankKeeps, BarrierKeeps, CrashKeeps DEF Next
  <2> QED BY <1>1, <2>1 DEF Kept, HandlerInv
<1> QED BY <1>2, <1>3

LEMMA InvHolds ==
    ASSUME HandlerAssumption, Keep # 1
    PROVE  Spec => []HandlerInv
  BY InvAtStart, InvStep, PTL DEF Spec

(* At every instant, a crash included, the tracker names a checkpoint that *)
(* is on disk with the shards of every rank, for every limit on the number *)
(* of checkpoints but 1, which removes the old one before the tracker      *)
(* names the new.                                                          *)
THEOREM TrackerNamesWhole ==
    ASSUME HandlerAssumption, Keep # 1
    PROVE  Spec => []Resumable
<1>1. HandlerInv => Resumable
  BY DEF HandlerInv
<1> QED BY <1>1, InvHolds, PTL

(* No restart resumes from before a save that every rank had finished, and *)
(* in that save every rank finds the loader position it saved.  A restart  *)
(* fails only on a torn data_<rank>.pt of a later, unfinished save that    *)
(* the tracker names already.                                              *)
THEOREM SavesKept ==
    ASSUME HandlerAssumption, Keep # 1
    PROVE  Spec => NeverLosesASave
<1> DEFINE Restarts ==
      At("down") /\ ~ At("down")' =>
        \/ At("failed")' /\ TrackedTorn
        \/ /\ At("train")' /\ step' >= completed
           /\ completed # None /\ step' = completed => HoldsPositions(completed)
<1>1. ASSUME HandlerInv, [Next]_vars PROVE [Restarts]_vars
  <2> SUFFICES ASSUME At("down"), ~ At("down")', ~ UNCHANGED vars PROVE Restarts
    OBVIOUS
  <2>1. Rank0 \in Ranks /\ phase[Rank0] = "down"
    BY DEF At, HandlerAssumption
  <2>2. Restart
    BY <1>1, <2>1 DEF Next, TrainStep, At, RankStep, EnterSave, WriteShard, RegisterSave,
       OpenData, SaveData, Track, Barriers, Barrier, Crash
  <2>3. completed <= tracker /\ tracker \in Nat /\ completed \in Nat
    BY <1>1 DEF HandlerInv, Tracked, TypeOK, None, Steps
  <2>4. completed # None /\ completed = tracker => HoldsPositions(tracker)
    BY <1>1 DEF HandlerInv, Tracked
  <2>5. CASE ResumeStep = None \/ Loads(ResumeStep)
    <3>1. step' = tracker /\ \A r \in Ranks : phase'[r] = "train"
      BY <1>1, <2>2, <2>5, Resumes DEF Restart, GoAll, None
    <3> QED BY <2>3, <2>4, <3>1 DEF At
  <2>6. CASE ResumeStep # None /\ ~ Loads(ResumeStep)
    <3>1. \A r \in Ranks : phase'[r] = "failed"
      BY <2>2, <2>6 DEF Restart, GoAll
    <3>2. tracker # None /\ \E r \in Ranks : data[tracker][r] = Torn
      BY <1>1, <2>6, Resumes DEF Loads
    <3>3. completed < tracker
      BY <2>3, <2>4, <3>2 DEF HoldsPositions, None
    <3> QED BY <3>1, <3>2, <3>3 DEF At, TrackedTorn
  <2> QED BY <2>5, <2>6
<1>2. Spec => [][Restarts]_vars
  BY <1>1, InvHolds, PTL DEF Spec
<1> QED BY <1>2 DEF NeverLosesASave

-----------------------------------------------------------------------------
(* Rotation.  The directories this process has made are those in the list  *)
(* of saved paths, of limited length, and the one being written.           *)
Paths == {previous[i] : i \in 1 .. Len(previous)}

Room ==
  /\ At("down") => previous = <<>>
  /\ At("train") => dirs \ inherited \subseteq Paths
  /\ Running => dirs \ inherited \subseteq Paths \union {step}
  /\ phase[Rank0] \in {"data", "saving", "track", "finish"} => step \in Paths
  /\ Keep > 0 => Len(previous) <= Keep
  /\ Keep > 1 /\ phase[Rank0] \in {"ready", "register"} \cup Writing => Len(previous) <= Keep - 1

LEMMA PathsCount ==
    ASSUME TypeOK
    PROVE  /\ IsFiniteSet(Paths) /\ Cardinality(Paths) \in Nat
           /\ Cardinality(Paths) <= Len(previous)
<1> DEFINE S == 1 .. Len(previous)
           f == [i \in S |-> previous[i]]
<1>1. Len(previous) \in Nat
  BY DEF TypeOK
<1>2. IsFiniteSet(S) /\ Cardinality(S) = Len(previous)
  <2>1. ASSUME NEW n \in Nat PROVE IsFiniteSet(1..n) /\ Cardinality(1..n) = n
    <3>1. Cardinality(1..n) = IF 1 > n THEN 0 ELSE n - 1 + 1
      BY FS_Interval
    <3> QED BY <3>1, FS_Interval
  <2> QED BY <1>1, <2>1
<1>3. f \in [S -> Paths] /\ \A x \in Paths : \E i \in S : f[i] = x
  BY DEF Paths
<1> HIDE DEF f, S
<1>4. f \in Surjection(S, Paths)
  BY <1>3 DEF Surjection
<1>5. IsFiniteSet(Paths) /\ Cardinality(Paths) <= Cardinality(S)
  BY <1>2, <1>4, FS_Surjection
<1> QED BY <1>2, <1>5, FS_CardinalityType

LEMMA RoomStep ==
    ASSUME HandlerAssumption, TypeOK, Aligned, Room, [Next]_vars
    PROVE  Room'
<1>0. /\ Rank0 \in Ranks /\ Keep \in Nat /\ previous \in Seq(Steps) /\ Len(previous) \in Nat
      /\ phase \in [Ranks -> Phases]
  BY DEF HandlerAssumption, TypeOK
<1>1. CASE TrainStep
  <2>1. /\ \A r \in Ranks : phase[r] = "train" /\ phase'[r] \in {"train", "enter"}
        /\ UNCHANGED <<previous, dirs, inherited>>
    BY <1>1 DEF TrainStep, At, GoAll, diskVars, auxVars
  <2>2. dirs \ inherited \subseteq Paths
    BY <2>1 DEF Room, At
  <2> QED BY <1>0, <2>1, <2>2 DEF Room, Paths, At, Writing
<1>2. CASE Barriers
  <2>1. PICK from \in {"ready", "written", "finish"}, to \in {"write", "register", "train"} :
           /\ \A r \in Ranks : phase[r] = from /\ phase'[r] = to
           /\ \/ from = "ready" /\ to = "write"
              \/ from = "written" /\ to = "register"
              \/ from = "finish" /\ to = "train"
    BY <1>2 DEF Barriers, Barrier, At, GoAll
  <2>2. UNCHANGED <<step, previous, dirs, inherited>>
    BY <1>2 DEF Barriers, Barrier, diskVars
  <2>3. dirs \ inherited \subseteq Paths \union {step}
    BY <1>0, <2>1 DEF Room, Running, At
  <2>4. from = "finish" => step \in Paths
    BY <1>0, <2>1 DEF Room
  <2>5. Keep > 1 /\ from # "finish" => Len(previous) <= Keep - 1
    BY <1>0, <2>1 DEF Room, Writing
  <2> QED BY <1>0, <2>1, <2>2, <2>3, <2>4, <2>5 DEF Room, Paths, At, Writing
<1>3. CASE Crash \/ Restart
  <2>1. /\ \E p \in {"down", "train", "failed"} : \A r \in Ranks : phase'[r] = p
        /\ UNCHANGED dirs /\ previous' = <<>>
    BY <1>3 DEF Crash, Restart, GoAll, diskVars, Room
  <2>2. Running' => inherited' = dirs
    BY <1>0, <1>3 DEF Crash, Restart, GoAll, Running, At
  <2> QED BY <1>0, <2>1, <2>2 DEF Room, Paths, At, Running, Writing
<1>4. ASSUME NEW r \in Ranks, RankStep(r) PROVE Room'
  <2>1. /\ step' = step /\ inherited' = inherited /\ step \in Steps
    BY <1>4, RankMoves DEF auxVars
  <2>2. PICK p \in Saving : /\ phase' = [phase EXCEPT ![r] = p]
                            /\ \/ phase[r] = "enter" /\ p = "ready" /\ EnterSave(r)
                               \/ phase[r] = "write" /\ p = "written" /\ WriteShard(r)
                               \/ phase[r] = "register" /\ p = "data" /\ RegisterSave(r)
                               \/ phase[r] = "data" /\ p = "saving" /\ OpenData(r)
                               \/ phase[r] = "saving" /\ p = "track" /\ SaveData(r)
                               \/ phase[r] = "track" /\ p = "finish" /\ Track(r)
    BY <1>4, RankMoves
  <2>3. \A q \in Ranks : phase'[q] = IF q = r THEN p ELSE phase[q]
    BY <1>0, <2>2
  <2>4. Running /\ ~ At("down")' /\ ~ At("train")'
    BY <2>2, <2>3 DEF Running, At, Saving, Entering, Writing, Ending
  <2>5. dirs \ inherited \subseteq Paths \union {step}
    BY <2>4 DEF Room
  <2>6. CASE EnterSave(r)
    <3>1. /\ phase[r] = "enter" /\ p = "ready"
          /\ previous' = (IF r = Rank0 THEN PathsAfterEnsure(previous, Keep) ELSE previous)
          /\ dirs' = (dirs \ Dropped(previous, previous')) \union {step}
      BY <2>2, <2>6 DEF EnterSave, Remove
    <3>2. dirs' \ inherited' \subseteq Paths' \union {step}
      BY <2>1, <2>5, <3>1 DEF Paths, Dropped
    <3>3. r = Rank0 => /\ Len(previous') <= Len(previous) /\ Len(previous') \in Nat
                       /\ Keep > 1 => Len(previous') <= Keep - 1
      BY <1>0, <3>1, EnsureShape
    <3>4. r # Rank0 => previous' = previous /\ phase'[Rank0] = phase[Rank0]
      BY <1>0, <2>3, <3>1
    <3>5. Keep > 0 => Len(previous') <= Keep
      BY <1>0, <3>3, <3>4 DEF Room
    <3>6. r = Rank0 => phase'[Rank0] = "ready"
      BY <2>3, <3>1
    <3> QED BY <2>1, <2>4, <3>2, <3>3, <3>4, <3>5, <3>6 DEF Room, Paths
  <2>7. CASE RegisterSave(r)
    <3> DEFINE all == Append(previous, step)
    <3>1. /\ phase[r] = "register" /\ p = "data"
          /\ previous' = (IF r = Rank0 THEN PathsAfterRegister(previous, step, Keep) ELSE previous)
          /\ dirs' = dirs \ (Dropped(all, previous') \ {step})
      BY <2>2, <2>7 DEF RegisterSave, Remove
    <3>2. CASE r = Rank0
      <4>1. /\ previous' \in Seq(Steps) /\ Len(previous') <= Len(all) /\ previous' # <<>>
            /\ \A i \in 1..Len(previous') : previous'[i] = all[i + (Len(all) - Len(previous'))]
            /\ Keep > 0 => Len(previous') <= Keep
        BY <1>0, <2>1, <3>1, <3>2, RegisterShape
      <4>2. /\ Len(all) = Len(previous) + 1 /\ all[Len(all)] = step
            /\ \A i \in 1..Len(previous) : all[i] = previous[i]
        BY <1>0, <2>1
      <4> HIDE DEF all
      <4>3. step \in Paths'
        <5>1. Len(previous') \in 1..Len(previous')
          BY <4>1
        <5>2. previous'[Len(previous')] = step
          BY <1>0, <4>1, <4>2, <5>1
        <5> QED BY <5>1, <5>2 DEF Paths
      <4>4. \A x \in Paths : \E i \in 1..Len(all) : x = all[i]
        BY <1>0, <4>2 DEF Paths
      <4>5. dirs' \ inherited' \subseteq Paths' \union {step}
        BY <2>1, <2>5, <3>1, <4>4 DEF Paths, Dropped
      <4>6. phase'[Rank0] = "data"
        BY <2>3, <3>1, <3>2
      <4> QED BY <2>1, <2>4, <4>1, <4>3, <4>5, <4>6 DEF Room, Writing
    <3>3. CASE r # Rank0
      <4>1. UNCHANGED previous /\ phase'[Rank0] = phase[Rank0] /\ dirs' \subseteq dirs
        BY <1>0, <2>3, <3>1, <3>3
      <4> QED BY <2>1, <2>4, <2>5, <4>1 DEF Room, Paths
    <3> QED BY <3>2, <3>3
  <2>8. CASE WriteShard(r) \/ OpenData(r) \/ SaveData(r) \/ Track(r)
    <3>1. UNCHANGED <<previous, dirs>>
      BY <2>8 DEF WriteShard, OpenData, SaveData, Track
    <3>2. /\ phase'[Rank0] \in {"data", "saving", "track", "finish"} =>
                phase[Rank0] \in {"data", "saving", "track", "finish"}
          /\ phase'[Rank0] \in {"ready", "register"} \cup Writing =>
                phase[Rank0] \in {"ready", "register"} \cup Writing
      BY <1>0, <2>2, <2>3, <2>8 DEF WriteShard, OpenData, SaveData, Track, Writing
    <3> QED BY <2>1, <2>4, <2>5, <3>1, <3>2 DEF Room, Paths
  <2> QED BY <1>4, <2>6, <2>7, <2>8 DEF RankStep
<1>5. CASE UNCHANGED vars
  BY <1>5 DEF vars, diskVars, auxVars, Room, Paths, At, Running
<1> QED BY <1>1, <1>2, <1>3, <1>4, <1>5 DEF Next

(* While a checkpoint is being written there are never more than           *)
(* max_ckpt_to_keep directories of this process, the new one included, and *)
(* two for a limit of 1.                                                   *)
THEOREM RotationBounds ==
    ASSUME HandlerAssumption
    PROVE  Spec => []Rotates
<1>1. Init => Room
  <2> SUFFICES ASSUME Init PROVE Room
    OBVIOUS
  <2>1. phase[Rank0] = "train" /\ dirs = {} /\ previous = <<>> /\ Len(previous) = 0 /\ Keep \in Nat
    BY DEF Init, HandlerAssumption
  <2> QED BY <2>1 DEF Room, Writing
<1>2. TypeOK /\ Aligned /\ Room /\ [Next]_vars => TypeOK' /\ Aligned' /\ Room'
  BY AlignedStep, TypeStep, RoomStep
<1>3. TypeOK /\ Aligned /\ Room => Rotates
  <2> SUFFICES ASSUME TypeOK, Aligned, Room, Keep > 0,
                      NEW r \in Ranks, phase[r] \in {"write", "written", "register"}
               PROVE  Cardinality(dirs \ inherited) <= (IF Keep = 1 THEN 2 ELSE Keep)
    BY DEF Rotates
  <2>1. Rank0 \in Ranks /\ Keep \in Nat /\ Len(previous) \in Nat
    BY DEF HandlerAssumption, TypeOK
  <2>2. dirs \ inherited \subseteq Paths \union {step}
    BY DEF Room, Running, At
  <2>3. \/ phase[Rank0] \in {"register"} \cup Writing
        \/ step \in Paths
    BY <2>1 DEF Aligned, At, Room, Entering, Writing, Ending
  <2>4. Len(previous) <= Keep /\ (Keep > 1 /\ step \notin Paths => Len(previous) <= Keep - 1)
    BY <2>1, <2>3 DEF Room
  <2>5. /\ IsFiniteSet(Paths \union {step})
        /\ Cardinality(Paths \union {step}) =
              IF step \in Paths THEN Cardinality(Paths) ELSE Cardinality(Paths) + 1
    BY PathsCount, FS_AddElement
  <2>6. Cardinality(dirs \ inherited) <= Cardinality(Paths \union {step})
        /\ Cardinality(dirs \ inherited) \in Nat
    BY <2>2, <2>5, FS_Subset, FS_CardinalityType
  <2>7. Cardinality(Paths) \in Nat /\ Cardinality(Paths) <= Len(previous)
    BY PathsCount
  <2> QED BY <2>1, <2>4, <2>5, <2>6, <2>7
<1> QED BY <1>1, <1>2, <1>3, TypeAtStart, PTL DEF Spec

-----------------------------------------------------------------------------
(***************************************************************************)
(* The Ray trainers. What both kinds of trainers have, as SaveFreq, data,  *)
(* tracker and crashes, has the same name in both.                         *)
(***************************************************************************)
CONSTANTS Async, Ahead, ActorKeep, CriticKeep

VARIABLES pc, version, globalSteps, feeding, fed, taken, learned,
          actors, critics, actorPaths, criticPaths, weights

T == INSTANCE TrainerCheckpoint

\* TrainerCheckpoint extends FiniteSets, so its instance has a Cardinality of its own.
LEMMA SameSize ==
    ASSUME NEW S
    PROVE  T!Cardinality(S) = Cardinality(S)
BY Zenon DEF T!Cardinality, Cardinality

-----------------------------------------------------------------------------
(* A list of saved paths after a save ends with the new path, and before   *)
(* it, unless the limit is 1, with the one saved last.                     *)

LEMMA NewestEnds ==
    ASSUME NEW S, NEW paths \in Seq(S), NEW n \in Nat \ {0}
    PROVE  /\ T!Newest(paths, n) \in Seq(S)
           /\ paths # <<>> => T!Newest(paths, n) # <<>> /\ Last(T!Newest(paths, n)) = Last(paths)
           /\ n > 1 /\ Len(paths) > 1 =>
                LET rest == T!Newest(paths, n)
                IN  Len(rest) > 1 /\ rest[Len(rest) - 1] = paths[Len(paths) - 1]
<1>1. Len(paths) \in Nat /\ (paths # <<>> => Len(paths) > 0)
  OBVIOUS
<1>2. CASE Len(paths) > n
  <2> DEFINE rest == SubSeq(paths, Len(paths) - n + 1, Len(paths))
  <2>1. T!Newest(paths, n) = rest
    BY <1>2 DEF T!Newest
  <2>2. /\ rest \in Seq(S) /\ Len(rest) = n
        /\ \A i \in 1..n : rest[i] = paths[i + (Len(paths) - n)]
    BY <1>1, <1>2
  <2> HIDE DEF rest
  <2>3. rest # <<>> /\ Last(rest) = Last(paths)
    BY <1>1, <2>2 DEF Last
  <2>4. n > 1 => Len(rest) > 1 /\ rest[Len(rest) - 1] = paths[Len(paths) - 1]
    <3> SUFFICES ASSUME n > 1
                 PROVE  Len(rest) > 1 /\ rest[Len(rest) - 1] = paths[Len(paths) - 1]
      OBVIOUS
    <3>1. n - 1 \in 1..n /\ (n - 1) + (Len(paths) - n) = Len(paths) - 1
      BY <1>1
    <3>2. rest[n - 1] = paths[(n - 1) + (Len(paths) - n)]
      BY <2>2, <3>1
    <3> QED BY <2>2, <3>1, <3>2
  <2> QED BY <2>1, <2>2, <2>3, <2>4
<1>3. CASE ~(Len(paths) > n)
  <2>1. T!Newest(paths, n) = paths
    BY <1>3 DEF T!Newest
  <2> QED BY <2>1
<1> QED BY <1>2, <1>3

LEMMA SaveShape ==
    ASSUME NEW S, NEW paths \in Seq(S), NEW new \in S, NEW keep \in Nat
    PROVE  LET after == T!PathsAfterSave(paths, new, keep) IN
           /\ after \in Seq(S) /\ after # <<>> /\ Last(after) = new
           /\ keep # 1 /\ paths # <<>> => Last(paths) \notin T!Dropped(paths, after)
<1> DEFINE room == T!PathsAfterEnsure(paths, keep)
           all == Append(room, new)
           after == T!PathsAfterRegister(room, new, keep)
<1>1. /\ room \in Seq(S)
      /\ keep # 1 /\ paths # <<>> => room # <<>> /\ Last(room) = Last(paths)
  <2>1. CASE keep > 1
    <3>1. room = T!Newest(paths, keep - 1) /\ keep - 1 \in Nat \ {0}
      BY <2>1 DEF T!PathsAfterEnsure
    <3> QED BY <3>1, NewestEnds
  <2>2. CASE ~(keep > 1)
    BY <2>2 DEF T!PathsAfterEnsure
  <2> QED BY <2>1, <2>2
<1> HIDE DEF room
<1>2. /\ all \in Seq(S) /\ all # <<>> /\ Last(all) = new
      /\ room # <<>> => Len(all) > 1 /\ all[Len(all) - 1] = Last(room)
  <2>1. /\ Len(room) \in Nat /\ Len(all) = Len(room) + 1 /\ all \in Seq(S)
        /\ all[Len(room) + 1] = new /\ \A i \in 1..Len(room) : all[i] = room[i]
        /\ room # <<>> => Len(room) > 0
    BY <1>1
  <2> HIDE DEF all
  <2>2. all # <<>>
    BY <2>1
  <2> QED BY <2>1, <2>2 DEF Last
<1> HIDE DEF all
<1>3. /\ after \in Seq(S) /\ after # <<>> /\ Last(after) = new
      /\ keep # 1 /\ room # <<>> => Len(after) > 1 /\ after[Len(after) - 1] = Last(room)
  <2>1. CASE keep > 0
    <3>1. after = T!Newest(all, keep) /\ keep \in Nat \ {0} /\ (keep # 1 => keep > 1)
      BY <2>1 DEF T!PathsAfterRegister, all
    <3> HIDE DEF after
    <3> QED BY <1>2, <3>1, NewestEnds
  <2>2. CASE ~(keep > 0)
    <3>1. after = all
      BY <2>2 DEF T!PathsAfterRegister, all
    <3> HIDE DEF after
    <3> QED BY <1>2, <3>1
  <2> QED BY <2>1, <2>2
<1>4. after = T!PathsAfterSave(paths, new, keep)
  BY DEF T!PathsAfterSave, room
<1> HIDE DEF after
<1>5. keep # 1 /\ paths # <<>> => Last(paths) \notin T!Dropped(paths, after)
  <2> SUFFICES ASSUME keep # 1, paths # <<>> PROVE Last(paths) \notin T!Dropped(paths, after)
    OBVIOUS
  <2>1. Len(after) - 1 \in 1..Len(after) /\ after[Len(after) - 1] = Last(paths)
    BY <1>1, <1>3
  <2> QED BY <2>1 DEF T!Dropped
<1> QED BY <1>3, <1>4, <1>5

(* What a resume may skip, as a function of the number of resumes.         *)
Skipped(n) == IF Async THEN Ahead * n ELSE 0

LEMMA SkippedBounds ==
    ASSUME T!CheckpointAssumption, NEW n \in Nat
    PROVE  /\ Skipped(n) \in Nat /\ Skipped(0) = 0
           /\ Skipped(n + 1) = Skipped(n) + (IF Async THEN Ahead ELSE 0)
           /\ n <= MaxCrashes => Skipped(n) + n <= MaxCrashes * (Ahead + 1)
<1>1. Ahead \in Nat /\ MaxCrashes \in Nat /\ Async \in BOOLEAN
  BY DEF T!CheckpointAssumption
<1>2. /\ Ahead * n \in Nat /\ Ahead * 0 = 0 /\ Ahead * (n + 1) = Ahead * n + Ahead
      /\ MaxCrashes * (Ahead + 1) = Ahead * MaxCrashes + MaxCrashes
      /\ Ahead * MaxCrashes \in Nat
  BY <1>1
<1>3. n <= MaxCrashes => Ahead * n <= Ahead * MaxCrashes
  <2> SUFFICES ASSUME n <= MaxCrashes PROVE Ahead * n <= Ahead * MaxCrashes
    OBVIOUS
  <2>1. PICK d \in Nat : MaxCrashes = n + d
    <3>1. MaxCrashes - n \in Nat /\ MaxCrashes = n + (MaxCrashes - n)
      BY <1>1
    <3> QED BY <3>1
  <2>2. Ahead * MaxCrashes = Ahead * n + Ahead * d /\ Ahead * d \in Nat
    BY <1>1, <2>1
  <2> QED BY <1>1, <1>2, <2>2
<1>4. Skipped(n) \in Nat /\ Skipped(0) = 0
  BY <1>1, <1>2 DEF Skipped
<1>5. Skipped(n + 1) = Skipped(n) + (IF Async THEN Ahead ELSE 0)
  BY <1>1, <1>2 DEF Skipped
<1>6. n <= MaxCrashes => Skipped(n) + n <= MaxCrashes * (Ahead + 1)
  <2>1. Skipped(n) <= Ahead * n
    BY <1>1, <1>2 DEF Skipped
  <2> QED BY <1>1, <1>2, <1>3, <1>4, <2>1
<1> QED BY <1>4, <1>5, <1>6

LEMMA NextLearned ==
    ASSUME NEW n \in Nat, NEW S \in SUBSET (1..n)
    PROVE  /\ Cardinality(S) \in Nat /\ S \cup {n + 1} \subseteq 1..(n + 1)
           /\ Cardinality(S \cup {n + 1}) = Cardinality(S) + 1
<1>1. IsFiniteSet(S)
  <2>1. IsFiniteSet(1..n)
    BY FS_Interval
  <2> QED BY <2>1, FS_Subset
<1>2. n + 1 \notin S
  OBVIOUS
<1>3. Cardinality(S) \in Nat /\ Cardinality(S \cup {n + 1}) = Cardinality(S) + 1
  BY <1>1, <1>2, FS_CardinalityType, FS_AddElement
<1> QED BY <1>3

-----------------------------------------------------------------------------
(* The invariant of the counts.  Trainer and feeder count the same samples *)
(* from the version they resumed from (Counts); what the tracker names     *)
(* counts alike (Named), and so does what a save has written of itself     *)
(* before the tracker names it (InSave).                                   *)
SaveStages == {"actor", "critic", "data", "open", "write"}
Lives == crashes + (IF T!Up THEN 1 ELSE 0)

Counts ==
  T!Up => /\ learned \subseteq 1..taken /\ Cardinality(learned) = version
        /\ taken <= fed
        /\ fed - taken <= (IF Async THEN Ahead ELSE IF pc = "train" THEN 1 ELSE 0)
        /\ globalSteps = version + (fed - taken) + (IF feeding THEN 1 ELSE 0)
        /\ globalSteps <= TotalSteps + crashes
        /\ taken - version <= Skipped(crashes)

Named ==
  /\ tracker \in T!Versions =>
       /\ weights[tracker] \subseteq 1..data[tracker]
       /\ Cardinality(weights[tracker]) = tracker
       /\ data[tracker] - tracker <= Skipped(Lives)
       /\ tracker < TotalSteps + Lives
       /\ T!Up => tracker <= version
       /\ pc \in SaveStages => tracker < version
  /\ tracker = T!Torn => pc \in {"write", "down", "failed"}

InSave ==
  /\ pc = "down" => crashes > 0
  /\ pc \in SaveStages => version > 0
  /\ pc \in SaveStages \ {"actor"} => weights[version] = learned
  /\ pc \in {"open", "write"} => /\ taken <= data[version]
                                 /\ data[version] - version <= Skipped(crashes + 1)

CountInv == T!TypeOK /\ Counts /\ Named /\ InSave

LEMMA CountsAtStart == T!CheckpointAssumption /\ T!Init => CountInv
<1> SUFFICES ASSUME T!CheckpointAssumption, T!Init PROVE CountInv
  OBVIOUS
<1>1. /\ TotalSteps \in Nat \ {0} /\ MaxCrashes \in Nat /\ Ahead \in Nat \ {0}
      /\ Async \in BOOLEAN
  BY DEF T!CheckpointAssumption
<1>2. T!TypeOK
  BY <1>1 DEF T!Init, T!TypeOK, T!Versions, T!None
<1>3. Cardinality(learned) = 0
  BY FS_EmptySet DEF T!Init
<1>4. Skipped(crashes) = 0
  BY SkippedBounds DEF T!Init
<1>5. Counts
  BY <1>1, <1>3, <1>4 DEF T!Init, Counts
<1>6. Named /\ InSave
  BY <1>1 DEF T!Init, Named, InSave, SaveStages, T!Versions, T!None, T!Torn
<1> QED BY <1>2, <1>5, <1>6 DEF CountInv

(* What is needed of the constants and of the types below.                 *)
LEMMA Numbers ==
    ASSUME T!CheckpointAssumption, T!TypeOK
    PROVE  /\ TotalSteps \in Nat \ {0} /\ MaxCrashes \in Nat /\ Ahead \in Nat \ {0}
           /\ Async \in BOOLEAN /\ ActorKeep \in Nat /\ CriticKeep \in Nat
           /\ version \in Nat /\ fed \in Nat /\ taken \in Nat /\ globalSteps \in Nat
           /\ crashes \in Nat /\ crashes <= MaxCrashes /\ feeding \in BOOLEAN
           /\ Skipped(crashes) \in Nat
           /\ Skipped(crashes + 1) = Skipped(crashes) + (IF Async THEN Ahead ELSE 0)
           /\ Skipped(crashes) + crashes <= MaxCrashes * (Ahead + 1)
           /\ MaxCrashes * (Ahead + 1) \in Nat
<1>1. /\ TotalSteps \in Nat \ {0} /\ MaxCrashes \in Nat /\ Ahead \in Nat \ {0}
      /\ Async \in BOOLEAN /\ ActorKeep \in Nat /\ CriticKeep \in Nat
  BY DEF T!CheckpointAssumption
<1>2. MaxCrashes * (Ahead + 1) \in Nat
  BY <1>1
<1>3. /\ version \in Nat /\ fed \in Nat /\ taken \in Nat /\ globalSteps \in Nat
      /\ crashes \in Nat /\ crashes <= MaxCrashes /\ feeding \in BOOLEAN
  BY <1>1, <1>2 DEF T!TypeOK, T!Versions, T!Samples
<1> QED BY <1>1, <1>2, <1>3, SkippedBounds

LEMMA FeedCounts ==
    ASSUME T!CheckpointAssumption, CountInv, T!Feed
    PROVE  CountInv'
<1>0. T!TypeOK /\ Counts /\ Named /\ InSave
  BY DEF CountInv
<1> USE <1>0
<1>1. /\ T!Up /\ feeding = TRUE /\ fed' = fed + 1
      /\ IF Async THEN fed - taken < Ahead ELSE pc = "train" /\ fed = taken
      /\ pc' = pc /\ taken' = taken /\ learned' = learned /\ version' = version
      /\ UNCHANGED <<actorPaths, criticPaths, actors, critics, weights, data, tracker, crashes>>
  BY DEF T!Feed, T!diskVars, T!TypeOK
<1>2. /\ globalSteps' = version + (fed + 1 - taken) + (IF feeding' THEN 1 ELSE 0)
      /\ globalSteps' <= TotalSteps + crashes /\ globalSteps <= TotalSteps + crashes
      /\ globalSteps' >= globalSteps /\ feeding' \in BOOLEAN
  <2>1. globalSteps = version + (fed - taken) + 1 /\ globalSteps <= TotalSteps + crashes
    BY <1>1 DEF Counts
  <2>2. CASE T!LastSample
    <3>1. globalSteps' = globalSteps /\ feeding' = FALSE
      BY <2>2 DEF T!Feed
    <3>2. /\ globalSteps = version + (fed + 1 - taken) + 0
          /\ globalSteps <= TotalSteps + crashes /\ globalSteps >= globalSteps
      BY <2>1, Numbers
    <3> QED BY <3>1, <3>2
  <2>3. CASE ~ T!LastSample
    <3>1. globalSteps' = globalSteps + 1 /\ feeding' = TRUE
      BY <2>3 DEF T!Feed
    <3>2. globalSteps + 1 <= TotalSteps
      BY <2>3, Numbers DEF T!LastSample
    <3> QED BY <2>1, <3>1, <3>2, Numbers
  <2> QED BY <2>2, <2>3
<1>3. /\ Cardinality(learned) = version /\ learned \subseteq 1..taken
      /\ taken <= fed /\ taken - version <= Skipped(crashes)
      /\ globalSteps = version + (fed - taken) + 1
  BY <1>1 DEF Counts
<1>4. fed + 1 - taken <= (IF Async THEN Ahead ELSE IF pc = "train" THEN 1 ELSE 0)
  <2>1. CASE Async
    BY <1>1, <2>1, Numbers
  <2>2. CASE ~ Async
    BY <1>1, <2>2, Numbers
  <2> QED BY <2>1, <2>2
<1>5. Counts'
  BY <1>1, <1>2, <1>3, <1>4, Numbers DEF Counts, T!Up, Skipped
<1>6. fed + 1 \in T!Samples
  <2>1. fed + 1 <= Skipped(crashes) + (TotalSteps + crashes)
    BY <1>2, <1>3, Numbers
  <2>2. fed + 1 <= TotalSteps + MaxCrashes * (Ahead + 1)
    BY <2>1, Numbers
  <2> QED BY <2>2, Numbers DEF T!Samples
<1>7. globalSteps' \in 1..(TotalSteps + MaxCrashes + 1)
  <2>1. PICK g \in {globalSteps, globalSteps + 1} : globalSteps' = g
    BY DEF T!Feed
  <2>2. 1 <= globalSteps
    BY DEF T!TypeOK
  <2>3. g <= TotalSteps + crashes
    BY <1>2, <2>1
  <2>4. g \in 1..(TotalSteps + MaxCrashes + 1)
    BY <2>1, <2>2, <2>3, Numbers
  <2> QED BY <2>1, <2>4
<1>8. T!TypeOK'
  BY <1>1, <1>2, <1>6, <1>7 DEF T!TypeOK
<1>9. Named' /\ InSave'
  BY <1>1 DEF Named, InSave, T!Up, Lives, Skipped
<1> QED BY <1>5, <1>8, <1>9 DEF CountInv

LEMMA TrainCounts ==
    ASSUME T!CheckpointAssumption, CountInv, T!Train
    PROVE  CountInv'
<1>0. T!TypeOK /\ Counts /\ Named /\ InSave
  BY DEF CountInv
<1> USE <1>0
<1>1. /\ pc = "train" /\ T!Up /\ taken < fed /\ taken' = taken + 1 /\ version' = version + 1
      /\ learned' = learned \cup {taken + 1} /\ pc' \in {"actor", "train"}
      /\ UNCHANGED <<globalSteps, feeding, fed, actorPaths, criticPaths,
                     actors, critics, weights, data, tracker, crashes>>
  BY DEF T!Train, T!Up, T!diskVars, T!feedVars
<1>2. /\ Cardinality(learned) = version /\ learned \subseteq 1..taken
      /\ fed - taken <= (IF Async THEN Ahead ELSE 1)
      /\ globalSteps = version + (fed - taken) + (IF feeding THEN 1 ELSE 0)
      /\ globalSteps <= TotalSteps + crashes /\ taken - version <= Skipped(crashes)
  BY <1>1 DEF Counts
<1>3. /\ Cardinality(learned') = version + 1
      /\ learned' \subseteq 1..(taken + 1)
  BY <1>1, <1>2, Numbers, NextLearned
<1>4. /\ taken + 1 <= fed
      /\ fed - (taken + 1) <= (IF Async THEN Ahead ELSE 0)
      /\ globalSteps = (version + 1) + (fed - (taken + 1)) + (IF feeding THEN 1 ELSE 0)
      /\ (taken + 1) - (version + 1) <= Skipped(crashes)
  BY <1>1, <1>2, Numbers
<1>5. /\ fed - (taken + 1) <= (IF Async THEN Ahead ELSE IF pc' = "train" THEN 1 ELSE 0)
      /\ version + 1 <= TotalSteps + crashes
  BY <1>2, <1>4, Numbers
<1>6. Counts'
  BY <1>1, <1>2, <1>3, <1>4, <1>5 DEF Counts, Skipped
<1>7. T!TypeOK'
  <2>1. version + 1 \in T!Versions
    BY <1>5, Numbers DEF T!Versions
  <2>2. taken + 1 \in T!Samples
    <3>1. fed \in T!Samples
      BY <1>1, Numbers DEF T!TypeOK
    <3> QED BY <1>4, <3>1, Numbers DEF T!Samples
  <2>3. learned' \subseteq T!Samples
    BY <1>1, <2>2 DEF T!TypeOK
  <2> QED BY <1>1, <2>1, <2>2, <2>3 DEF T!TypeOK
<1>8. Named'
  <2>1. Lives' = Lives /\ T!Up'
    BY <1>1 DEF Lives, T!Up
  <2>2. tracker # T!Torn
    BY <1>1 DEF Named
  <2>3. ASSUME tracker \in T!Versions
        PROVE  tracker <= version + 1 /\ tracker < version + 1
    <3>1. tracker <= version /\ tracker \in Nat
      BY <1>1, <2>3 DEF Named, T!Versions
    <3> QED BY <3>1, Numbers
  <2> QED BY <1>1, <2>1, <2>2, <2>3 DEF Named, Skipped, T!Torn
<1>9. InSave'
  BY <1>1, Numbers DEF InSave, SaveStages
<1> QED BY <1>6, <1>7, <1>8, <1>9 DEF CountInv

(* A step that changes only disk, paths and the place in the save keeps    *)
(* what trainer and feeder count.                                          *)
LEMMA SaveKeepsCounts ==
    ASSUME CountInv, T!Save, pc # "train"
    PROVE  /\ T!Up /\ T!Up' /\ pc' # pc /\ Counts'
           /\ UNCHANGED <<version, globalSteps, feeding, fed, taken, learned, crashes>>
<1>1. /\ T!Up /\ T!Up' /\ pc' # pc
      /\ UNCHANGED <<version, globalSteps, feeding, fed, taken, learned, crashes>>
  BY DEF T!Save, T!SaveActor, T!SaveCritic, T!SaveData, T!WriteTracker, T!Up, T!feedVars
<1>2. fed - taken <= (IF Async THEN Ahead ELSE 0)
  BY <1>1 DEF CountInv, Counts
<1>3. fed - taken <= (IF Async THEN Ahead ELSE IF pc' = "train" THEN 1 ELSE 0)
  <2>1. fed \in Nat /\ taken \in Nat
    BY DEF CountInv, T!TypeOK, T!Samples
  <2>2. CASE Async
    BY <1>2, <2>2
  <2>3. CASE ~ Async
    BY <1>2, <2>1, <2>3
  <2> QED BY <2>2, <2>3
<1> QED BY <1>1, <1>3 DEF CountInv, Counts, Skipped

LEMMA SaveCounts ==
    ASSUME T!CheckpointAssumption, CountInv, T!Save
    PROVE  CountInv'
<1>0. T!TypeOK /\ Counts /\ Named /\ InSave
  BY DEF CountInv
<1>1. pc \in SaveStages
  BY DEF T!Save, T!SaveActor, T!SaveCritic, T!SaveData, T!WriteTracker, SaveStages
<1>2. /\ T!Up /\ T!Up' /\ Counts'
      /\ UNCHANGED <<version, globalSteps, feeding, fed, taken, learned, crashes>>
      /\ Lives' = Lives
  <2>1. pc # "train"
    BY <1>1 DEF SaveStages
  <2> QED BY <2>1, SaveKeepsCounts DEF Lives
<1>3. /\ version \in T!Versions /\ version > 0
      /\ tracker \in T!Versions => tracker < version
  <2>1. version > 0
    BY <1>0, <1>1 DEF InSave
  <2> QED BY <1>0, <1>1, <2>1 DEF T!TypeOK, Named
<1>4. CASE T!SaveActor
  <2>1. /\ pc = "actor" /\ pc' = "critic"
        /\ actorPaths' = T!PathsAfterSave(actorPaths, version, ActorKeep)
        /\ actors' = (actors \ T!Dropped(actorPaths, actorPaths')) \cup {version}
        /\ weights' = [weights EXCEPT ![version] = learned]
        /\ UNCHANGED <<criticPaths, critics, data, tracker>>
    BY <1>4 DEF T!SaveActor
  <2>2. actorPaths' \in Seq(T!Versions)
    BY <1>0, <1>3, <2>1, Numbers, SaveShape DEF T!TypeOK
  <2>3. /\ actors' \subseteq T!Versions /\ weights' \in [T!Versions -> SUBSET T!Samples]
        /\ weights'[version] = learned
        /\ \A v \in T!Versions \ {version} : weights'[v] = weights[v]
    BY <1>0, <1>3, <2>1 DEF T!TypeOK
  <2>4. T!TypeOK'
    BY <1>0, <1>2, <2>1, <2>2, <2>3 DEF T!TypeOK
  <2>5. Named'
    <3>1. tracker # T!Torn
      BY <1>0, <2>1 DEF Named
    <3>2. tracker \in T!Versions => weights'[tracker] = weights[tracker]
      <4>1. tracker \in T!Versions => tracker # version
        BY <1>3 DEF T!Versions
      <4> QED BY <2>3, <4>1
    <3> QED BY <1>0, <1>1, <1>2, <2>1, <3>1, <3>2 DEF Named, Skipped, T!Torn, SaveStages
  <2>6. InSave'
    BY <1>2, <1>3, <2>1, <2>3 DEF InSave, SaveStages
  <2> QED BY <1>2, <2>4, <2>5, <2>6 DEF CountInv
<1>5. CASE T!SaveCritic
  <2>1. /\ pc = "critic" /\ pc' = "data"
        /\ criticPaths' = T!PathsAfterSave(criticPaths, version, CriticKeep)
        /\ critics' = (critics \ T!Dropped(criticPaths, criticPaths')) \cup {version}
        /\ UNCHANGED <<actorPaths, actors, weights, data, tracker>>
    BY <1>5 DEF T!SaveCritic
  <2>2. criticPaths' \in Seq(T!Versions) /\ critics' \subseteq T!Versions
    <3>1. criticPaths' \in Seq(T!Versions)
      BY <1>0, <1>3, <2>1, Numbers, SaveShape DEF T!TypeOK
    <3> QED BY <1>0, <1>3, <2>1, <3>1 DEF T!TypeOK
  <2>3. T!TypeOK'
    BY <1>0, <1>2, <2>1, <2>2 DEF T!TypeOK
  <2>4. Named' /\ InSave'
    BY <1>0, <1>1, <1>2, <1>3, <2>1 DEF Named, InSave, Skipped, SaveStages, T!Torn
  <2> QED BY <1>2, <2>3, <2>4 DEF CountInv
<1>6. CASE T!SaveData
  <2>1. /\ pc = "data" /\ pc' = "open" /\ data' = [data EXCEPT ![version] = fed]
        /\ UNCHANGED <<actorPaths, criticPaths, actors, critics, weights, tracker>>
    BY <1>6 DEF T!SaveData, T!SavedPosition
  <2>2. /\ data' \in [T!Versions -> {0} \cup T!Samples] /\ data'[version] = fed
        /\ \A v \in T!Versions \ {version} : data'[v] = data[v]
    BY <1>0, <1>3, <2>1 DEF T!TypeOK
  <2>3. T!TypeOK'
    BY <1>0, <1>2, <2>1, <2>2 DEF T!TypeOK
  <2>4. taken <= fed /\ fed - version <= Skipped(crashes + 1)
    <3>1. /\ taken <= fed /\ taken - version <= Skipped(crashes)
          /\ fed - taken <= (IF Async THEN Ahead ELSE 0)
      BY <1>0, <1>2, <2>1 DEF Counts
    <3> QED BY <1>0, <3>1, Numbers
  <2>5. Named'
    <3>1. tracker # T!Torn
      BY <1>0, <2>1 DEF Named
    <3>2. tracker \in T!Versions => data'[tracker] = data[tracker]
      <4>1. tracker \in T!Versions => tracker # version
        BY <1>3 DEF T!Versions
      <4> QED BY <2>2, <4>1
    <3> QED BY <1>0, <1>1, <1>2, <2>1, <3>1, <3>2 DEF Named, Skipped, T!Torn, SaveStages
  <2>6. InSave'
    <3>1. weights[version] = learned
      BY <1>0, <2>1 DEF InSave, SaveStages
    <3> QED BY <1>2, <1>3, <2>1, <2>2, <2>4, <3>1 DEF InSave, SaveStages, Skipped
  <2> QED BY <1>2, <2>3, <2>5, <2>6 DEF CountInv
<1>7. CASE T!WriteTracker
  <2>1. UNCHANGED <<actorPaths, criticPaths, actors, critics, weights, data>>
    BY <1>7 DEF T!WriteTracker
  <2>2. CASE pc = "open" /\ pc' = "write" /\ tracker' = T!Torn
    <3>1. T!TypeOK'
      BY <1>0, <1>2, <2>1, <2>2 DEF T!TypeOK, T!Torn
    <3>2. T!Torn \notin T!Versions
      BY <1>0, Numbers DEF T!Torn, T!Versions
    <3>3. Named' /\ InSave'
      BY <1>0, <1>2, <2>1, <2>2, <3>2 DEF Named, InSave, SaveStages, Skipped, T!Torn, T!Versions
    <3> QED BY <1>2, <3>1, <3>3 DEF CountInv
  <2>3. CASE pc = "write" /\ pc' = "train" /\ tracker' = version
    <3>1. T!TypeOK'
      BY <1>0, <1>2, <1>3, <2>1, <2>3 DEF T!TypeOK, T!Torn
    <3>2. T!Torn \notin T!Versions
      BY <1>0, Numbers DEF T!Torn, T!Versions
    <3>3. /\ learned \subseteq 1..taken /\ Cardinality(learned) = version
          /\ version <= TotalSteps + crashes
      <4>1. /\ learned \subseteq 1..taken /\ Cardinality(learned) = version /\ taken <= fed
            /\ globalSteps = version + (fed - taken) + (IF feeding THEN 1 ELSE 0)
            /\ globalSteps <= TotalSteps + crashes
        BY <1>0, <1>2 DEF Counts
      <4>2. version <= TotalSteps + crashes
        BY <1>0, <4>1, Numbers
      <4> QED BY <4>1, <4>2
    <3>4. /\ weights[version] = learned /\ taken <= data[version]
          /\ data[version] - version <= Skipped(crashes + 1)
      BY <1>0, <2>3 DEF InSave, SaveStages
    <3>5. /\ learned \subseteq 1..data[version] /\ version < TotalSteps + (crashes + 1)
          /\ version <= version
      <4>1. data[version] \in Nat
        BY <1>0, <1>3 DEF T!TypeOK, T!Samples
      <4> QED BY <1>0, <3>3, <3>4, <4>1, Numbers
    <3>6. Lives' = crashes + 1
      BY <1>2 DEF Lives
    <3>7. Named'
      BY <1>2, <1>3, <2>1, <2>3, <3>2, <3>3, <3>4, <3>5, <3>6
         DEF Named, SaveStages, Skipped, T!Torn, T!Versions
    <3>8. InSave'
      BY <2>3 DEF InSave, SaveStages
    <3> QED BY <1>2, <3>1, <3>7, <3>8 DEF CountInv
  <2> QED BY <1>7, <2>2, <2>3 DEF T!WriteTracker
<1> QED BY <1>4, <1>5, <1>6, <1>7 DEF T!Save

LEMMA CrashCounts ==
    ASSUME T!CheckpointAssumption, CountInv, T!Crash
    PROVE  CountInv'
<1>0. T!TypeOK /\ Counts /\ Named /\ InSave
  BY DEF CountInv
<1>1. /\ T!Up /\ ~ T!Up' /\ pc' = "down" /\ crashes' = crashes + 1 /\ crashes < MaxCrashes
      /\ actorPaths' = <<>> /\ criticPaths' = <<>>
      /\ UNCHANGED <<version, globalSteps, feeding, fed, taken, learned,
                     actors, critics, weights, data, tracker>>
  BY DEF T!Crash, T!Up, T!feedVars, T!diskVars
<1>2. Lives' = Lives
  <2>1. Lives = crashes + 1 /\ Lives' = (crashes + 1) + 0 /\ crashes + 1 = (crashes + 1) + 0
    BY <1>0, <1>1, Numbers DEF Lives
  <2> QED BY <2>1
<1>3. T!TypeOK'
  <2>1. crashes + 1 \in 0..MaxCrashes
    BY <1>0, <1>1, Numbers
  <2> QED BY <1>0, <1>1, <2>1 DEF T!TypeOK, T!Torn
<1>4. Named'
  BY <1>0, <1>1, <1>2 DEF Named, Skipped, SaveStages, T!Torn
<1>5. Counts' /\ InSave'
  <2>1. crashes + 1 > 0
    BY <1>0, Numbers
  <2> QED BY <1>1, <2>1 DEF Counts, InSave, SaveStages
<1> QED BY <1>3, <1>4, <1>5 DEF CountInv

LEMMA RestartCounts ==
    ASSUME T!CheckpointAssumption, CountInv, T!Restart
    PROVE  CountInv'
<1>0. T!TypeOK /\ Counts /\ Named /\ InSave
  BY DEF CountInv
<1>1. /\ pc = "down" /\ ~ T!Up
      /\ UNCHANGED <<actorPaths, criticPaths, actors, critics, weights, data, tracker, crashes>>
  BY DEF T!Restart, T!Up, T!diskVars
<1>2. Lives = crashes /\ T!Torn \notin T!Versions /\ T!None \notin T!Versions
  BY <1>0, <1>1, Numbers DEF Lives, T!Torn, T!None, T!Versions
<1>3. CASE /\ pc' = "failed" /\ UNCHANGED <<version, globalSteps, feeding, fed, taken, learned>>
  <2>1. ~ T!Up' /\ Lives' = crashes /\ pc' \notin SaveStages
    <3>1. ~ T!Up' /\ pc' \notin SaveStages
      BY <1>3 DEF T!Up, SaveStages
    <3>2. Lives' = crashes + 0 /\ crashes + 0 = crashes
      BY <1>0, <1>1, <3>1, Numbers DEF Lives
    <3> QED BY <3>1, <3>2
  <2>2. T!TypeOK'
    BY <1>0, <1>1, <1>3 DEF T!TypeOK, T!Torn
  <2>3. Named'
    BY <1>0, <1>1, <1>2, <1>3, <2>1 DEF Named, Skipped, T!Torn
  <2>4. Counts' /\ InSave'
    BY <1>3, <2>1 DEF Counts, InSave, SaveStages
  <2> QED BY <2>2, <2>3, <2>4 DEF CountInv
<1>4. ASSUME T!Loadable, pc' = "train", version' = tracker,
             learned' = IF tracker = T!None THEN {} ELSE weights[tracker],
             fed' = IF tracker = T!None THEN 0 ELSE data[tracker], taken' = fed',
             globalSteps' = tracker + 1, feeding' = TRUE
      PROVE  CountInv'
  <2>1. T!Up' /\ Lives' = crashes + 1 /\ pc' \notin SaveStages
    BY <1>1, <1>4 DEF T!Up, Lives, SaveStages
  <2>2. tracker = T!None \/ tracker \in T!Versions
    BY <1>0, <1>2, <1>4 DEF T!Loadable, T!TypeOK
  <2> DEFINE stored == IF tracker = T!None THEN 0 ELSE data[tracker]
             knows == IF tracker = T!None THEN {} ELSE weights[tracker]
  <2>3. /\ version' = tracker /\ learned' = knows /\ fed' = stored /\ taken' = stored
        /\ globalSteps' = tracker + 1 /\ feeding' = TRUE
    BY <1>4
  <2>4. /\ stored \in {0} \cup T!Samples /\ stored \in Nat /\ knows \subseteq T!Samples
        /\ tracker \in {0} \cup T!Versions /\ tracker \in Nat
    <3>1. CASE tracker = T!None
      BY <3>1 DEF T!None
    <3>2. CASE tracker # T!None
      BY <1>0, <2>2, <3>2 DEF T!TypeOK, T!Samples, T!Versions
    <3> QED BY <3>1, <3>2
  <2>5. /\ knows \subseteq 1..stored /\ Cardinality(knows) = tracker
        /\ stored - tracker <= Skipped(crashes) /\ tracker + 1 <= TotalSteps + crashes
    <3>1. CASE tracker = T!None
      <4>1. crashes > 0
        BY <1>0, <1>1 DEF InSave
      <4> QED BY <1>0, <3>1, <4>1, FS_EmptySet, Numbers DEF T!None
    <3>2. CASE tracker # T!None
      <4>1. /\ weights[tracker] \subseteq 1..data[tracker]
            /\ Cardinality(weights[tracker]) = tracker
            /\ data[tracker] - tracker <= Skipped(crashes) /\ tracker < TotalSteps + crashes
        BY <1>0, <1>2, <2>2, <3>2 DEF Named
      <4>2. tracker + 1 <= TotalSteps + crashes
        BY <1>0, <2>4, <4>1, Numbers
      <4> QED BY <3>2, <4>1, <4>2
    <3> QED BY <3>1, <3>2
  <2> HIDE DEF stored, knows
  <2>6. T!TypeOK'
    <3>1. tracker + 1 \in 1..(TotalSteps + MaxCrashes + 1)
      BY <1>0, <2>4, <2>5, Numbers
    <3> QED BY <1>0, <1>1, <1>4, <2>3, <2>4, <3>1 DEF T!TypeOK, T!Torn
  <2>7. Counts'
    <3>1. /\ stored <= stored /\ tracker + 1 = tracker + (stored - stored) + 1
          /\ stored - stored <= (IF Async THEN Ahead ELSE 1)
      BY <1>0, <2>4, Numbers
    <3> QED BY <1>1, <1>4, <2>3, <2>5, <3>1 DEF Counts, Skipped
  <2>8. Named'
    <3>1. tracker # T!Torn
      BY <1>2, <2>2, Numbers, <1>0 DEF T!Torn, T!None
    <3>2. tracker \in T!Versions => /\ weights[tracker] \subseteq 1..data[tracker]
                                  /\ Cardinality(weights[tracker]) = tracker
                                  /\ data[tracker] - tracker <= Skipped(crashes + 1)
                                  /\ tracker < TotalSteps + (crashes + 1)
      <4> SUFFICES ASSUME tracker \in T!Versions
                   PROVE  /\ weights[tracker] \subseteq 1..data[tracker]
                          /\ Cardinality(weights[tracker]) = tracker
                          /\ data[tracker] - tracker <= Skipped(crashes + 1)
                          /\ tracker < TotalSteps + (crashes + 1)
        OBVIOUS
      <4>1. /\ weights[tracker] \subseteq 1..data[tracker]
            /\ Cardinality(weights[tracker]) = tracker
            /\ data[tracker] - tracker <= Skipped(crashes) /\ tracker < TotalSteps + crashes
        BY <1>0, <1>2 DEF Named
      <4>2. data[tracker] \in Nat
        BY <1>0 DEF T!TypeOK, T!Samples
      <4> QED BY <1>0, <2>4, <4>1, <4>2, Numbers
    <3>3. tracker <= tracker
      BY <2>4
    <3> QED BY <1>1, <2>1, <2>3, <3>1, <3>2, <3>3 DEF Named, Skipped, T!Torn, T!Versions
  <2>9. InSave'
    BY <2>1, <1>4 DEF InSave, SaveStages
  <2> QED BY <2>6, <2>7, <2>8, <2>9 DEF CountInv
<1>5. \/ pc' = "failed" /\ UNCHANGED <<version, globalSteps, feeding, fed, taken, learned>>
      \/ /\ T!Loadable /\ pc' = "train" /\ version' = tracker
         /\ learned' = IF tracker = T!None THEN {} ELSE weights[tracker]
         /\ fed' = IF tracker = T!None THEN 0 ELSE data[tracker]
         /\ taken' = fed' /\ globalSteps' = tracker + 1 /\ feeding' = TRUE
  BY DEF T!Restart, T!feedVars, T!ResumedCount
<1> QED BY <1>3, <1>4, <1>5

LEMMA CountsStep ==
    ASSUME T!CheckpointAssumption, CountInv, [T!Next]_(T!vars)
    PROVE  CountInv'
<1>1. CASE UNCHANGED T!vars
  BY <1>1 DEF CountInv, T!vars, T!feedVars, T!diskVars, T!TypeOK, Counts, Named, InSave, T!Up, Lives,
     Skipped, SaveStages, T!Torn, T!Versions
<1> QED BY <1>1, FeedCounts, TrainCounts, SaveCounts, CrashCounts, RestartCounts DEF T!Next

(* Every variable keeps its type: the feeder's positions and the versions  *)
(* stay in bounds that only the number of resumes widens.                  *)
THEOREM TrainerTypes ==
    ASSUME T!CheckpointAssumption
    PROVE  T!Spec => []T!TypeOK
<1>1. T!Spec => []CountInv
  BY CountsAtStart, CountsStep, PTL DEF T!Spec
<1>2. CountInv => T!TypeOK
  BY DEF CountInv
<1> QED BY <1>1, <1>2, PTL

(* Whatever crashes and resumes, a version counts as many different        *)
(* samples as its weights have learned.                                    *)
THEOREM TrainedOnce ==
    ASSUME T!CheckpointAssumption
    PROVE  T!Spec => []T!NoSampleTwice
<1>1. T!Spec => []CountInv
  BY CountsAtStart, CountsStep, PTL DEF T!Spec
<1>2. CountInv => T!NoSampleTwice
  BY SameSize DEF CountInv, Counts, T!NoSampleTwice
<1> QED BY <1>1, <1>2, PTL

(* A resume skips at most the samples in flight at its checkpoint.         *)
THEOREM SkipsBounded ==
    ASSUME T!CheckpointAssumption
    PROVE  T!Spec => []T!SkipsOnlyInFlight
<1>1. T!Spec => []CountInv
  BY CountsAtStart, CountsStep, PTL DEF T!Spec
<1>2. CountInv => T!SkipsOnlyInFlight
  <2>1. Cardinality(learned) = T!Cardinality(learned)
    BY SameSize
  <2> QED BY <2>1 DEF CountInv, Counts, T!SkipsOnlyInFlight, Skipped
<1> QED BY <1>1, <1>2, PTL

-----------------------------------------------------------------------------
(* The invariant behind what a restart finds.  Each worker group's list of *)
(* saved paths ends with the checkpoint the tracker names or, from that    *)
(* group's part of a save on, with the new one; so what a limit other than *)
(* 1 removes is neither.                                                   *)
CriticSaved == {"data", "open", "write"}
ActorSaved == {"critic"} \cup CriticSaved
Newer(saved) == IF pc \in saved THEN version ELSE tracker

OnDisk ==
  /\ tracker \in T!Versions => tracker \in actors /\ tracker \in critics
  /\ pc \in ActorSaved => version \in actors
  /\ pc \in CriticSaved => version \in critics

NewestListed ==
  /\ ~ T!Up => actorPaths = <<>> /\ criticPaths = <<>>
  /\ actorPaths # <<>> => Last(actorPaths) = Newer(ActorSaved)
  /\ criticPaths # <<>> => Last(criticPaths) = Newer(CriticSaved)

PathInv == OnDisk /\ NewestListed

LEMMA PathsAtStart == T!Init => PathInv
  BY DEF T!Init, PathInv, OnDisk, NewestListed, T!None, T!Versions, ActorSaved, CriticSaved, T!Up

(* A save of one group: its directory appears, and the one the tracker     *)
(* names stays.                                                            *)
LEMMA SaveKeepsNamed ==
    ASSUME NEW paths \in Seq(T!Versions), NEW keep \in Nat, keep # 1,
           NEW new \in T!Versions, NEW found, NEW named \in found,
           paths # <<>> => Last(paths) = named
    PROVE  named \in (found \ T!Dropped(paths, T!PathsAfterSave(paths, new, keep))) \cup {new}
<1> DEFINE after == T!PathsAfterSave(paths, new, keep)
<1>1. CASE paths # <<>>
  <2>1. Last(paths) \notin T!Dropped(paths, after)
    BY <1>1, SaveShape
  <2> QED BY <1>1, <2>1
<1>2. CASE paths = <<>>
  <2>1. {paths[i] : i \in 1..Len(paths)} = {}
    BY <1>2
  <2> QED BY <2>1 DEF T!Dropped
<1> QED BY <1>1, <1>2

LEMMA PathsStep ==
    ASSUME T!CheckpointAssumption, ActorKeep # 1, CriticKeep # 1, CountInv, PathInv, [T!Next]_(T!vars)
    PROVE  PathInv'
<1>0. /\ T!TypeOK /\ Named /\ InSave /\ OnDisk /\ NewestListed
      /\ ActorKeep \in Nat \ {1} /\ CriticKeep \in Nat \ {1} /\ T!Torn \notin T!Versions
  BY Numbers DEF CountInv, PathInv, T!Torn, T!Versions
<1>1. CASE T!Feed \/ UNCHANGED T!vars
  <2>1. UNCHANGED <<pc, version, actorPaths, criticPaths, actors, critics, tracker>>
    BY <1>1 DEF T!Feed, T!vars, T!diskVars
  <2> QED BY <1>0, <2>1 DEF PathInv, OnDisk, NewestListed, Newer, T!Up, T!Versions
<1>2. CASE T!Train
  <2>1. /\ pc = "train" /\ pc' \in {"actor", "train"}
        /\ UNCHANGED <<actorPaths, criticPaths, actors, critics, tracker>>
    BY <1>2 DEF T!Train, T!diskVars
  <2> QED BY <1>0, <2>1
          DEF PathInv, OnDisk, NewestListed, Newer, T!Up, T!Versions, ActorSaved, CriticSaved
<1>3. CASE T!SaveActor
  <2>1. /\ pc = "actor" /\ pc' = "critic"
        /\ actorPaths' = T!PathsAfterSave(actorPaths, version, ActorKeep)
        /\ actors' = (actors \ T!Dropped(actorPaths, actorPaths')) \cup {version}
        /\ UNCHANGED <<version, criticPaths, critics, tracker>>
    BY <1>3 DEF T!SaveActor
  <2>2. version \in T!Versions /\ actorPaths \in Seq(T!Versions)
    BY <1>0, <2>1 DEF T!TypeOK, InSave, SaveStages
  <2>3. actorPaths # <<>> => Last(actorPaths) = tracker
    BY <1>0, <2>1 DEF NewestListed, Newer, ActorSaved, CriticSaved
  <2>4. actorPaths' # <<>> /\ Last(actorPaths') = version
    BY <1>0, <2>1, <2>2, SaveShape
  <2>5. tracker \in T!Versions => tracker \in actors'
    BY <1>0, <2>1, <2>2, <2>3, SaveKeepsNamed DEF OnDisk
  <2> QED BY <1>0, <2>1, <2>4, <2>5
      DEF PathInv, OnDisk, NewestListed, Newer, T!Up, T!Versions, ActorSaved, CriticSaved
<1>4. CASE T!SaveCritic
  <2>1. /\ pc = "critic" /\ pc' = "data"
        /\ criticPaths' = T!PathsAfterSave(criticPaths, version, CriticKeep)
        /\ critics' = (critics \ T!Dropped(criticPaths, criticPaths')) \cup {version}
        /\ UNCHANGED <<version, actorPaths, actors, tracker>>
    BY <1>4 DEF T!SaveCritic
  <2>2. version \in T!Versions /\ criticPaths \in Seq(T!Versions)
    BY <1>0, <2>1 DEF T!TypeOK, InSave, SaveStages
  <2>3. criticPaths # <<>> => Last(criticPaths) = tracker
    BY <1>0, <2>1 DEF NewestListed, Newer, CriticSaved
  <2>4. criticPaths' # <<>> /\ Last(criticPaths') = version
    BY <1>0, <2>1, <2>2, SaveShape
  <2>5. tracker \in T!Versions => tracker \in critics'
    BY <1>0, <2>1, <2>2, <2>3, SaveKeepsNamed DEF OnDisk
  <2> QED BY <1>0, <2>1, <2>4, <2>5
      DEF PathInv, OnDisk, NewestListed, Newer, T!Up, T!Versions, ActorSaved, CriticSaved
<1>5. CASE T!SaveData
  <2>1. /\ pc = "data" /\ pc' = "open"
        /\ UNCHANGED <<version, actorPaths, criticPaths, actors, critics, tracker>>
    BY <1>5 DEF T!SaveData
  <2> QED BY <1>0, <2>1
          DEF PathInv, OnDisk, NewestListed, Newer, T!Up, T!Versions, ActorSaved, CriticSaved
<1>6. CASE T!WriteTracker
  <2>1. /\ UNCHANGED <<version, actorPaths, criticPaths, actors, critics>>
        /\ \/ pc = "open" /\ pc' = "write" /\ tracker' = T!Torn
           \/ pc = "write" /\ pc' = "train" /\ tracker' = version
    BY <1>6 DEF T!WriteTracker
  <2> QED BY <1>0, <2>1
          DEF PathInv, OnDisk, NewestListed, Newer, T!Up, T!Versions, ActorSaved, CriticSaved
<1>7. CASE T!Crash \/ T!Restart
  <2>1. /\ pc' \in {"down", "train", "failed"} /\ UNCHANGED <<actors, critics, tracker>>
        /\ actorPaths' = <<>> /\ criticPaths' = <<>>
    BY <1>0, <1>7 DEF T!Crash, T!Restart, NewestListed, T!Up, T!diskVars
  <2> QED BY <1>0, <2>1 DEF PathInv, OnDisk, NewestListed, T!Up, T!Versions, ActorSaved, CriticSaved
<1> QED BY <1>1, <1>2, <1>3, <1>4, <1>5, <1>6, <1>7 DEF T!Next, T!Save

(* Unless one of the limits is 1 (MCActorKeepOne shows what happens then), *)
(* a number in the tracker names an actor and a critic that can be loaded: *)
(* only a tracker left empty by a crash makes a restart fail.              *)
THEOREM OnlyTornStops ==
    ASSUME T!CheckpointAssumption, ActorKeep # 1, CriticKeep # 1
    PROVE  T!Spec => []T!OnlyTornFails
<1>1. T!Init => CountInv /\ PathInv
  BY CountsAtStart, PathsAtStart
<1>2. CountInv /\ PathInv /\ [T!Next]_(T!vars) => CountInv' /\ PathInv'
  BY CountsStep, PathsStep
<1>3. CountInv /\ PathInv => T!OnlyTornFails
  BY DEF CountInv, T!TypeOK, PathInv, OnDisk, T!OnlyTornFails, T!Loadable
<1> QED BY <1>1, <1>2, <1>3, PTL DEF T!Spec

=============================================================================
