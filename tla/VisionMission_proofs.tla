-------------------------- MODULE VisionMission_proofs --------------------------
(***************************************************************************)
(* Proofs about VisionMission, for every number of runs, queue depth and    *)
(* number of confirmation frames, whichever services execute calls that     *)
(* were given up on, and whatever mission ids the operator types.           *)
(***************************************************************************)
EXTENDS VisionMission, FiniteSetTheorems, TLAPS

(***************************************************************************)
(* The inductive invariant.  A generation is used once its mission's        *)
(* detector was activated for it: until then no target carries it.  What is *)
(* said of the generation last started excepts those activated by a late    *)
(* call that was meant for another.                                         *)
(***************************************************************************)
Elements(q) == {q[i] : i \in 1 .. Len(q)}

Observed == IF observation = NoObservation THEN {} ELSE {observation.target}

\* The targets under way to the controller, and the one it sees.
Sighted == Elements(wire) \cup Elements(pending) \cup Observed

\* The phases in which the detector may have been activated for this run, and
\* those it ends in.
Past == {"activate", "waiting", "cancel", "disarm", "off"}

\* The detector may have been activated for the mission last started.
Activated ==
  /\ started # 0 /\ granted[started] = lastStarted
  /\ started = run => phase \in Past

Own(g) == g = lastStarted /\ g \notin stray

Good(t) ==
  /\ t.frames = ConfirmationFrames
  /\ t.generation <= lastStarted \/ t.generation \in stray
  /\ Own(t.generation) => Activated /\ (started = run => t.asked = run)

Unused ==
  lastStarted \notin stray =>
    /\ snapshot = 0
    /\ armed => generation # lastStarted
    /\ \A t \in Sighted : t.generation # lastStarted

NumbersAgree ==
  /\ count <= frames
  /\ missionGeneration = lastStarted
  /\ lastStarted <= generationParameter /\ generationParameter <= generation
  /\ generation <= run /\ missionParameter <= run /\ started <= run /\ mission <= run
  /\ \A r \in Run : r > run => granted[r] = 0

\* This run has configured both nodes.
Named == phase = "arm" \/ granted[run] # 0

StagesAgree ==
  /\ phase # "off" => run >= 1
  /\ phase \in {"configure", "arm"} => generation < run /\ granted[run] = 0
  /\ run >= 1 /\ Named => colour = run /\ missionParameter = run
  /\ phase \in {"generation", "start", "activate"} => granted[run] = generation /\ generation >= 1
  /\ phase = "generation" => generationParameter < granted[run]
  /\ phase = "start" => /\ generationParameter = granted[run]
                        /\ lastStarted < granted[run] \/ (started = run /\ Unused)
  /\ phase = "activate" => lastStarted = granted[run] /\ started = run /\ mission = run

SightingsAgree ==
  /\ armed => /\ generation >= 1 /\ (generation <= lastStarted \/ generation \in stray)
              /\ Own(generation) => Activated
  /\ \A t \in Sighted : Good(t)
  /\ \A t \in Observed : t.generation = missionGeneration
  /\ snapshot # 0 => snapshot = lastStarted /\ (Own(snapshot) => Activated)
  /\ mission = started \/ Unused

EventAgrees ==
  event # NoEvent =>
    /\ event.mission \in 1 .. run
    /\ event.generation = granted[event.mission] \/ event.generation \in stray
    /\ event.mission = run /\ event.generation \notin stray => phase \in Past

(***************************************************************************)
(* What a call that waits to be executed may find.                          *)
(***************************************************************************)
ArmMayWait ==
  Call("arm", 0) \in late =>
    /\ phase \in {"off", "configure", "arm"}
    /\ generation < run
    /\ phase # "off" => generation + 1 < run

StartMayWait ==
  Call("start", 0) \in late =>
    /\ phase \notin {"activate", "waiting", "cancel"}
    /\ missionParameter # 0
    /\ lastStarted < generationParameter \/ Unused

NamesMayWait ==
  \A r \in Run :
    Call("color", r) \in late \/ Call("mission", r) \in late => r <= run /\ ~ Named

GenerationMayWait ==
  \A g \in Generation :
    Call("generation", g) \in late =>
      /\ phase \notin {"start", "activate", "waiting", "cancel"}
      /\ generationParameter < g /\ g <= generation
      /\ phase = "generation" => g < generation
      /\ \A h \in Generation : Call("generation", h) \in late => h = g

ActivateMayWait ==
  \A g \in Generation :
    Call("activate", g) \in late =>
      /\ g <= generation
      /\ g = generation => /\ lastStarted = g /\ mission = started /\ Activated
                           /\ Call("start", 0) \notin late

LateAgrees ==
  /\ IsFiniteSet(late)
  /\ ArmMayWait /\ StartMayWait /\ NamesMayWait /\ GenerationMayWait /\ ActivateMayWait

Inductive ==
  TypeOK /\ NumbersAgree /\ StagesAgree /\ SightingsAgree /\ EventAgrees /\ LateAgrees

-----------------------------------------------------------------------------
(* Queues.                                                                  *)

LEMMA TailFacts ==
  ASSUME NEW S, NEW q \in Seq(S), q # <<>>
  PROVE  /\ Head(q) \in S /\ Head(q) \in Elements(q)
         /\ Tail(q) \in Seq(S) /\ Len(Tail(q)) = Len(q) - 1
         /\ Elements(Tail(q)) \subseteq Elements(q)
<1>1. Len(q) \in Nat \ {0} /\ Head(q) = q[1]
  OBVIOUS
<1>2. Tail(q) \in Seq(S) /\ Len(Tail(q)) = Len(q) - 1
  OBVIOUS
<1>3. \A i \in 1 .. Len(Tail(q)) : Tail(q)[i] = q[i + 1] /\ i + 1 \in 1 .. Len(q)
  BY <1>1, <1>2
<1>4. Head(q) \in S
  BY <1>1
<1> QED BY <1>1, <1>2, <1>3, <1>4 DEF Elements

LEMMA QueuedFacts ==
  ASSUME NEW S, NEW q \in Seq(S), NEW m \in S, NEW d \in Nat \ {0}, Len(q) <= d
  PROVE  /\ Queued(q, m, d) \in Seq(S) /\ Len(Queued(q, m, d)) <= d
         /\ Elements(Queued(q, m, d)) \subseteq Elements(q) \cup {m}
<1> DEFINE all == Append(q, m)
<1>1. all \in Seq(S) /\ Len(all) = Len(q) + 1 /\ all # <<>>
  OBVIOUS
<1>2. \A i \in 1 .. Len(all) : all[i] = IF i = Len(q) + 1 THEN m ELSE q[i]
  OBVIOUS
<1>3. Elements(all) \subseteq Elements(q) \cup {m}
  BY <1>1, <1>2 DEF Elements
<1> HIDE DEF all
<1>4. /\ Tail(all) \in Seq(S) /\ Len(Tail(all)) = Len(all) - 1
      /\ Elements(Tail(all)) \subseteq Elements(all)
  BY <1>1, TailFacts
<1>5. Queued(q, m, d) = IF Len(all) > d THEN Tail(all) ELSE all
  BY DEF Queued, all
<1> QED BY <1>1, <1>3, <1>4, <1>5

-----------------------------------------------------------------------------
(* The parts of the invariant that most steps leave alone.                  *)

\* What the constants give ...
LEMMA Constants ==
  /\ MaxRuns \in Nat \ {0} /\ ConfirmationFrames \in Nat /\ ConfirmationFrames >= 2
  /\ MaximumMissingFrames \in Nat \ {0} /\ WireDepth \in Nat \ {0} /\ PendingDepth \in Nat \ {0}
  /\ MaxLate \in Nat /\ Kinds \subseteq {"away", "standoff", "obstacle", "beyond"}
BY DetectorAssumption, FollowerAssumption, LateAssumption

\* ... and the types.
LEMMA NumberTypes ==
  ASSUME TypeOK
  PROVE  /\ run \in Nat /\ generation \in Nat /\ missionParameter \in Nat
         /\ generationParameter \in Nat /\ lastStarted \in Nat /\ started \in Nat
         /\ mission \in Nat /\ snapshot \in Nat /\ count \in Nat /\ frames \in Nat
         /\ granted \in [Run -> Nat]
         /\ generation <= MaxRuns /\ run <= MaxRuns
         /\ run >= 1 => run \in Run /\ granted[run] \in 0 .. MaxRuns
         /\ generation >= 1 => generation \in Generation
<1>1. DetectorTypeOK /\ FollowerTypeOK /\ run \in 0 .. MaxRuns /\ granted \in [Run -> 0 .. MaxRuns]
  BY DEF TypeOK
<1>2. /\ run \in Nat /\ generation \in Nat /\ missionParameter \in Nat
      /\ generationParameter \in Nat /\ lastStarted \in Nat /\ started \in Nat
      /\ mission \in Nat /\ snapshot \in Nat /\ count \in Nat /\ frames \in Nat
      /\ generation <= MaxRuns /\ run <= MaxRuns
  BY <1>1, Constants DEF DetectorTypeOK, FollowerTypeOK
<1>3. granted \in [Run -> Nat]
  BY <1>1, Constants
<1>4. generation >= 1 => generation \in Generation
  BY <1>2, Constants DEF Generation
<1>5. run >= 1 => run \in Run /\ granted[run] \in 0 .. MaxRuns
  BY <1>1, <1>2, Constants DEF Run
<1> QED BY <1>2, <1>3, <1>4, <1>5

\* No target appears, and nothing is activated: what was seen stays as good.
LEMMA SightingsKept ==
  ASSUME Inductive, UNCHANGED <<started, mission, lastStarted, missionGeneration>>,
         Sighted' \subseteq Sighted, Observed' \subseteq Observed,
         armed' => armed /\ generation' = generation,
         snapshot' \in {0, snapshot}, stray' = stray,
         started = run' => started = run,
         Activated => Activated'
  PROVE  SightingsAgree' /\ (Unused => Unused')
<1>1. SightingsAgree
  BY DEF Inductive
<1>2. Unused => Unused'
  BY DEF Unused
<1>3. \A t \in Sighted' : Good(t)'
  BY <1>1 DEF SightingsAgree, Good, Own
<1>4. \A t \in Observed' : t.generation = missionGeneration'
  BY <1>1 DEF SightingsAgree
<1>5. (armed => /\ generation >= 1 /\ (generation <= lastStarted \/ generation \in stray)
                /\ Own(generation) => Activated)'
  BY <1>1 DEF SightingsAgree, Own
<1>6. (snapshot # 0 => snapshot = lastStarted /\ (Own(snapshot) => Activated))'
  BY <1>1 DEF SightingsAgree, Own
<1>7. (mission = started \/ Unused)'
  BY <1>1, <1>2 DEF SightingsAgree
<1> QED BY <1>2, <1>3, <1>4, <1>5, <1>6, <1>7 DEF SightingsAgree

LEMMA InitInductive == Init => Inductive
<1> SUFFICES ASSUME Init
             PROVE  Inductive
  OBVIOUS
<1> USE Constants DEF Init, DetectorInit, FollowerInit
<1>1. TypeOK
  <2>1. DetectorTypeOK /\ FollowerTypeOK
    <3>1. <<>> \in Seq(Target) /\ Len(<<>>) = 0
      OBVIOUS
    <3>2. wire \in Seq(Target) /\ Len(wire) <= WireDepth
      BY <3>1
    <3>3. pending \in Seq(Target) /\ Len(pending) <= PendingDepth
      BY <3>1
    <3>4. 0 \in 0 .. MaxRuns /\ 0 \in 0 .. ConfirmationFrames /\ 0 \in 0 .. MaximumMissingFrames
      OBVIOUS
    <3>5. event \in [mission : 0 .. MaxRuns, generation : 0 .. MaxRuns]
      BY <3>4 DEF NoEvent
    <3> QED BY <3>2, <3>3, <3>4, <3>5 DEF DetectorTypeOK, FollowerTypeOK
  <2>2. Cardinality({}) = 0
    BY FS_EmptySet
  <2>3. missionId \in [Run -> Run] /\ granted \in [Run -> 0 .. MaxRuns]
    OBVIOUS
  <2> QED BY <2>1, <2>2, <2>3 DEF TypeOK, Phases
<1>2. Sighted = {} /\ Observed = {}
  BY DEF Sighted, Elements, Observed
<1>3. LateAgrees
  BY FS_EmptySet DEF LateAgrees, ArmMayWait, StartMayWait, NamesMayWait, GenerationMayWait,
                     ActivateMayWait
<1>4. NumbersAgree
  BY DEF NumbersAgree
<1> QED BY <1>1, <1>2, <1>3, <1>4 DEF Inductive, StagesAgree, SightingsAgree, EventAgrees

-----------------------------------------------------------------------------
(* The follower's own steps.                                                *)

\* What a step of the follower, taken without the operator, leaves alone.
FollowerOnly ==
  /\ UNCHANGED <<detectorVars, operatorVars>>
  /\ UNCHANGED <<missionParameter, generationParameter, mission, missionGeneration,
                 lastStarted, started>>

LEMMA FollowerOnlyAgrees ==
  ASSUME Inductive, FollowerOnly, FollowerTypeOK', SightingsAgree', Unused => Unused', EventAgrees'
  PROVE  Inductive'
<1>1. TypeOK'
  BY DEF Inductive, TypeOK, FollowerOnly, DetectorTypeOK, detectorVars, operatorVars
<1>2. NumbersAgree'
  BY DEF Inductive, NumbersAgree, FollowerOnly, detectorVars, operatorVars
<1>3. StagesAgree'
  BY DEF Inductive, StagesAgree, Named, FollowerOnly, detectorVars, operatorVars
<1>4. LateAgrees'
  <2>1. /\ UNCHANGED <<late, run, phase, granted, generation, missionParameter,
                       generationParameter, lastStarted, mission, started>>
        /\ LateAgrees
    BY DEF Inductive, FollowerOnly, operatorVars, detectorVars
  <2> QED BY <2>1 DEF LateAgrees, ArmMayWait, StartMayWait, NamesMayWait, GenerationMayWait,
                      ActivateMayWait, Named, Activated
<1> QED BY <1>1, <1>2, <1>3, <1>4 DEF Inductive

\* The decision is of the type of the variables it is stored in.
LEMMA DecisionType ==
  ASSUME FollowerTypeOK
  PROVE  /\ TickDecision.state \in {"idle", "searching", "following", "reacquiring"} \cup TerminalStates
         /\ TickDecision.seen \in BOOLEAN
         /\ TickDecision.loss \in {"none", "counting", "over"}
<1> DEFINE Typed(d) == /\ d.state \in {"idle", "searching", "following", "reacquiring"} \cup TerminalStates
                       /\ d.seen \in BOOLEAN
                       /\ d.loss \in {"none", "counting", "over"}
<1>1. \A s \in {"idle", "searching", "following", "reacquiring"} \cup TerminalStates : Typed(Stay(s))
  BY DEF FollowerTypeOK, Stay
<1>2. observation # NoObservation => Typed(Follow)
  <2> SUFFICES ASSUME observation # NoObservation
               PROVE  Typed(Follow)
    OBVIOUS
  <2>1. observation.kind \in {"away", "standoff", "obstacle", "beyond"}
    BY Constants DEF FollowerTypeOK, Observation
  <2>2. "failed" \in TerminalStates
    BY DEF TerminalStates
  <2> QED BY <2>1, <2>2 DEF Follow, Decision
<1>3. Typed(HandleLoss)
  <2>1. "failed" \in TerminalStates
    BY DEF TerminalStates
  <2>2. CASE ~ seen
    BY <2>2 DEF FollowerTypeOK, HandleLoss, Decision
  <2>3. CASE seen /\ loss = "none"
    BY <2>3 DEF HandleLoss, Decision
  <2>4. CASE seen /\ loss = "counting"
    BY <2>4 DEF HandleLoss, Decision
  <2>5. CASE seen /\ loss = "over"
    BY <2>1, <2>5 DEF HandleLoss, Decision
  <2> QED BY <2>2, <2>3, <2>4, <2>5 DEF FollowerTypeOK
<1>4. Typed(Update)
  <2>1. "failed" \in TerminalStates
    BY DEF TerminalStates
  <2>2. expired \in BOOLEAN /\ fresh \in BOOLEAN
    BY DEF FollowerTypeOK
  <2>3. CASE expired
    BY <1>1, <2>1, <2>3 DEF Update
  <2>4. CASE ~ expired /\ observation # NoObservation /\ fresh
    BY <1>2, <2>4 DEF Update
  <2>5. CASE ~ expired /\ ~ (observation # NoObservation /\ fresh)
    BY <1>3, <2>5 DEF Update
  <2> QED BY <2>3, <2>4, <2>5
<1>5. Typed(TickDecision)
  <2>1. "failed" \in TerminalStates
    BY DEF TerminalStates
  <2>2. state \in {"idle", "searching", "following", "reacquiring"} \cup TerminalStates
    BY DEF FollowerTypeOK
  <2>3. CASE ~ Active(state)
    BY <1>1, <2>2, <2>3 DEF TickDecision, Active
  <2>4. CASE Active(state) /\ state = "searching" /\ scan = "complete"
    BY <1>1, <2>1, <2>4 DEF TickDecision
  <2>5. CASE Active(state) /\ ~ (state = "searching" /\ scan = "complete")
    <3>1. TickDecision = IF near THEN Stay(state) ELSE Update
      BY <2>5 DEF TickDecision
    <3>2. Typed(Stay(state))
      BY <1>1, <2>2
    <3> HIDE DEF Typed
    <3> QED BY <1>4, <3>1, <3>2
  <2> HIDE DEF Typed
  <2> QED BY <2>3, <2>4, <2>5
<1> QED BY <1>5

\* A snapshot announced is of the mission under way.
LEMMA SnapshotFacts ==
  ASSUME Inductive, NEW g, TrySnapshot(g), FollowerOnly,
         g # 0 => /\ g = lastStarted /\ g \in 1 .. MaxRuns
                  /\ Own(g) => mission = started /\ Activated
  PROVE  /\ EventAgrees'
         /\ snapshot' \in {0, g}
         /\ written' \subseteq 0 .. MaxRuns
         /\ event' \in [mission : 0 .. MaxRuns, generation : 0 .. MaxRuns]
<1>1. /\ EventAgrees /\ mission <= run /\ FollowerTypeOK
      /\ UNCHANGED <<run, phase, granted, stray>>
  BY DEF Inductive, NumbersAgree, TypeOK, FollowerOnly, operatorVars
<1>2. /\ mission \in 0 .. MaxRuns /\ missionId \in [Run -> Run] /\ MaxRuns \in Nat
      /\ run \in Nat
  BY Constants, NumberTypes DEF Inductive, TypeOK, FollowerTypeOK
<1>3. CASE UNCHANGED <<written, event>>
  <2>1. EventAgrees'
    BY <1>1, <1>3 DEF EventAgrees
  <2>2. snapshot' \in {0, g}
    BY DEF TrySnapshot
  <2> QED BY <1>1, <1>3, <2>1, <2>2 DEF FollowerTypeOK
<1>4. CASE /\ g # 0 /\ mission # 0 /\ snapshot' = 0
           /\ written' = written \cup {missionId[mission]}
           /\ event' = [mission |-> mission, generation |-> g]
  <2>1. event'.mission = mission /\ event'.generation = g
    BY <1>4
  <2>2. event' \in [mission : 0 .. MaxRuns, generation : 0 .. MaxRuns]
    BY <1>2, <1>4
  <2>3. missionId[mission] \in 0 .. MaxRuns
    BY <1>2, <1>4 DEF Run
  <2>4. EventAgrees'
    <3>1. mission \in 1 .. run
      BY <1>1, <1>2, <1>4
    <3>2. g \in stray \/ (mission = started /\ Activated /\ g = lastStarted)
      BY <1>4 DEF Own
    <3> QED BY <1>1, <2>1, <3>1, <3>2 DEF EventAgrees, Activated
  <2> QED BY <1>1, <1>4, <2>2, <2>3, <2>4 DEF FollowerTypeOK
<1> QED BY <1>3, <1>4 DEF TrySnapshot

LEMMA TickStep ==
  ASSUME Inductive, Tick, UNCHANGED <<detectorVars, operatorVars>>
  PROVE  Inductive'
<1>1. FollowerOnly /\ UNCHANGED <<expired, pending, observation, fresh, near, scan>>
  BY DEF Tick, FollowerOnly
<1>2. TrySnapshot(snapshot)
  BY DEF Tick
<1>3. snapshot # 0 => /\ snapshot = lastStarted /\ snapshot \in 1 .. MaxRuns
                      /\ Own(snapshot) => mission = started /\ Activated
  BY Constants DEF Inductive, SightingsAgree, Unused, Own, TypeOK, FollowerTypeOK
<1>4. /\ EventAgrees'
      /\ snapshot' \in {0, snapshot}
      /\ written' \subseteq 0 .. MaxRuns
      /\ event' \in [mission : 0 .. MaxRuns, generation : 0 .. MaxRuns]
  BY <1>1, <1>2, <1>3, SnapshotFacts
<1>5. FollowerTypeOK /\ snapshot' \in 0 .. MaxRuns
  BY <1>4, Constants DEF Inductive, TypeOK, FollowerTypeOK
<1>6. FollowerTypeOK'
  <2>1. /\ state' \in {"idle", "searching", "following", "reacquiring"} \cup TerminalStates
        /\ seen' \in BOOLEAN /\ loss' \in {"none", "counting", "over"}
    BY <1>5, DecisionType DEF Tick
  <2> QED BY <1>1, <1>4, <1>5, <2>1 DEF FollowerTypeOK, FollowerOnly
<1>7. SightingsAgree' /\ (Unused => Unused')
  <2>1. Sighted' = Sighted /\ Observed' = Observed
    BY <1>1 DEF Sighted, Observed, FollowerOnly, detectorVars
  <2>2. (Activated => Activated') /\ UNCHANGED <<run, stray, armed, generation>>
    BY <1>1 DEF Activated, FollowerOnly, operatorVars, detectorVars
  <2> QED BY <1>1, <1>4, <2>1, <2>2, SightingsKept DEF FollowerOnly
<1> QED BY <1>1, <1>4, <1>6, <1>7, FollowerOnlyAgrees

\* The scan, the obstacle and the times.
LEMMA SensorStep ==
  ASSUME Inductive, DepthArrives \/ ScanCompletes \/ ObservationAges \/ LossEnds \/ MissionExpires,
         UNCHANGED <<detectorVars, operatorVars>>
  PROVE  Inductive'
<1>1. FollowerOnly /\ UNCHANGED <<state, seen, pending, observation, snapshot, written, event>>
  BY DEF DepthArrives, ScanCompletes, ObservationAges, LossEnds, MissionExpires, FollowerOnly
<1>2. FollowerTypeOK
  BY DEF Inductive, TypeOK
<1>3. /\ expired' \in BOOLEAN /\ fresh' \in BOOLEAN /\ near' \in BOOLEAN
      /\ loss' \in {"none", "counting", "over"}
      /\ scan' \in {"stopped", "active", "complete"}
  BY <1>2 DEF DepthArrives, ScanCompletes, ObservationAges, LossEnds, MissionExpires, FollowerTypeOK
<1>4. FollowerTypeOK'
  BY <1>1, <1>2, <1>3 DEF FollowerTypeOK, FollowerOnly
<1>5. SightingsAgree' /\ (Unused => Unused')
  <2>1. Sighted' = Sighted /\ Observed' = Observed
    BY <1>1 DEF Sighted, Observed, FollowerOnly, detectorVars
  <2>2. (Activated => Activated') /\ UNCHANGED <<run, stray, armed, generation>>
    BY <1>1 DEF Activated, FollowerOnly, operatorVars, detectorVars
  <2> QED BY <1>1, <2>1, <2>2, SightingsKept DEF FollowerOnly
<1>6. EventAgrees'
  BY <1>1 DEF Inductive, EventAgrees, FollowerOnly, operatorVars
<1> QED BY <1>1, <1>4, <1>5, <1>6, FollowerOnlyAgrees

\* A detection is localized, or dropped.
LEMMA ProcessPendingStep ==
  ASSUME Inductive, ProcessPending, UNCHANGED <<detectorVars, operatorVars>>
  PROVE  Inductive'
<1>1. /\ FollowerOnly /\ UNCHANGED <<state, expired, seen, loss, near>> /\ pending # <<>>
      /\ UNCHANGED <<wire, armed, generation, run, stray>>
  BY DEF ProcessPending, FollowerOnly, detectorVars, operatorVars
<1>2. FollowerTypeOK /\ pending \in Seq(Target)
  BY DEF Inductive, TypeOK, FollowerTypeOK
<1>3. /\ Head(pending) \in Target /\ Head(pending) \in Elements(pending)
      /\ pending' \in Seq(Target) /\ Len(pending') <= PendingDepth
      /\ Elements(pending') \subseteq Elements(pending)
  <2>1. /\ Head(pending) \in Target /\ Head(pending) \in Elements(pending)
        /\ Tail(pending) \in Seq(Target) /\ Len(Tail(pending)) = Len(pending) - 1
        /\ Elements(Tail(pending)) \subseteq Elements(pending)
    BY <1>1, <1>2, TailFacts
  <2>2. CASE pending' = Tail(pending)
    BY <1>2, <2>1, <2>2, Constants DEF FollowerTypeOK
  <2>3. CASE pending' = <<>>
    BY <2>1, <2>3, Constants DEF Elements
  <2> QED BY <2>2, <2>3 DEF ProcessPending
<1>4. CASE UNCHANGED <<observation, fresh, scan, snapshot, written, event>>
  <2>1. FollowerTypeOK'
    BY <1>1, <1>2, <1>3, <1>4 DEF FollowerTypeOK, FollowerOnly
  <2>2. Sighted' \subseteq Sighted /\ Observed' = Observed
    BY <1>1, <1>3, <1>4 DEF Sighted, Observed
  <2>3. Activated => Activated'
    BY <1>1 DEF Activated, FollowerOnly, operatorVars
  <2>4. SightingsAgree' /\ (Unused => Unused')
    BY <1>1, <1>4, <2>2, <2>3, SightingsKept DEF FollowerOnly
  <2>5. EventAgrees'
    BY <1>1, <1>4 DEF Inductive, EventAgrees, FollowerOnly, operatorVars
  <2> QED BY <1>1, <2>1, <2>4, <2>5, FollowerOnlyAgrees
<1>5. ASSUME OfThisMission(Head(pending)), NEW kind \in Kinds, Localize(Head(pending), kind)
      PROVE  Inductive'
  <2> DEFINE t == Head(pending)
  <2>1. t \in Sighted /\ Good(t) /\ t.generation = lastStarted /\ t.generation \in 1 .. MaxRuns
    BY <1>3, <1>5 DEF Sighted, Inductive, SightingsAgree, OfThisMission, NumbersAgree, Target, Generation
  <2>2. TrySnapshot(t.generation)
    BY <1>5 DEF Localize
  <2>3. Own(t.generation) => ~ Unused /\ mission = started /\ Activated
    <3>1. Own(t.generation) => ~ Unused
      BY <2>1 DEF Unused, Own
    <3> QED BY <2>1, <3>1 DEF Inductive, SightingsAgree, Good
  <2>4. /\ EventAgrees'
        /\ snapshot' \in {0, t.generation}
        /\ written' \subseteq 0 .. MaxRuns
        /\ event' \in [mission : 0 .. MaxRuns, generation : 0 .. MaxRuns]
    BY <1>1, <2>1, <2>2, <2>3, SnapshotFacts
  <2>5. /\ observation' = [kind |-> kind, target |-> t] /\ observation' \in Observation
        /\ fresh' \in BOOLEAN /\ scan' \in {"stopped", "active", "complete"}
        /\ snapshot' \in 0 .. MaxRuns
    <3>1. observation' = [kind |-> kind, target |-> t] /\ fresh' = TRUE /\ scan' = StoppedScan
      BY <1>5 DEF Localize
    <3>2. [kind |-> kind, target |-> t] \in Observation
      BY <1>3 DEF Observation
    <3>3. scan' \in {"stopped", "active", "complete"} /\ fresh' \in BOOLEAN
      BY <3>1 DEF StoppedScan
    <3>4. snapshot' \in 0 .. MaxRuns
      BY <2>1, <2>4, Constants
    <3> QED BY <3>1, <3>2, <3>3, <3>4
  <2>6. FollowerTypeOK'
    BY <1>1, <1>2, <1>3, <2>4, <2>5 DEF FollowerTypeOK, FollowerOnly
  <2>7. Observed' = {t} /\ Sighted' \subseteq Sighted
    <3>1. Observed' \subseteq {t}
      BY <2>5 DEF Observed
    <3>2. observation'.kind # "none" /\ NoObservation.kind = "none"
      BY <2>5, Constants DEF NoObservation
    <3>3. observation' # NoObservation
      BY <3>2
    <3>4. Observed' = {t}
      BY <2>5, <3>3 DEF Observed, NoObservation
    <3> QED BY <1>1, <1>3, <2>1, <3>4 DEF Sighted
  <2>8. Activated <=> Activated'
    BY <1>1 DEF Activated, FollowerOnly, operatorVars
  <2>9. Unused => Unused'
    <3>1. Unused => lastStarted \in stray
      BY <2>1, <2>3 DEF Own
    <3> QED BY <1>1, <3>1 DEF Unused, FollowerOnly
  <2>10. SightingsAgree'
    <3>1. SightingsAgree /\ UNCHANGED <<started, mission, lastStarted, missionGeneration>>
      BY <1>1 DEF Inductive, FollowerOnly
    <3>2. \A u \in Sighted' : Good(u)'
      BY <1>1, <2>7, <2>8, <3>1 DEF SightingsAgree, Good, Own
    <3>3. \A u \in Observed' : u.generation = missionGeneration'
      BY <2>1, <2>7, <3>1 DEF Inductive, NumbersAgree
    <3>4. (snapshot # 0 => snapshot = lastStarted /\ (Own(snapshot) => Activated))'
      BY <1>1, <2>1, <2>3, <2>4, <2>8, <3>1 DEF Own
    <3>5. (mission = started \/ Unused)'
      BY <2>9, <3>1 DEF SightingsAgree
    <3>6. (armed => /\ generation >= 1 /\ (generation <= lastStarted \/ generation \in stray)
                    /\ Own(generation) => Activated)'
      BY <1>1, <2>8, <3>1 DEF SightingsAgree, Own
    <3> QED BY <3>2, <3>3, <3>4, <3>5, <3>6 DEF SightingsAgree
  <2> QED BY <1>1, <2>4, <2>6, <2>10, <2>9, FollowerOnlyAgrees
<1> QED BY <1>4, <1>5 DEF ProcessPending

-----------------------------------------------------------------------------
(* The detector's own steps.                                                *)

\* What a step of the detector, taken without the operator, leaves alone.
DetectorOnly ==
  /\ UNCHANGED <<operatorVars, colour, armed, prepared, generation>>
  /\ UNCHANGED <<missionParameter, generationParameter, mission, missionGeneration,
                 lastStarted, started, snapshot, event, observation>>

LEMMA DetectorOnlyAgrees ==
  ASSUME Inductive, DetectorOnly, DetectorTypeOK', FollowerTypeOK', count' <= frames',
         \A t \in Sighted' : t \in Sighted \/ (Good(t) /\ (Own(t.generation) => ~ Unused))
  PROVE  Inductive'
<1>1. TypeOK'
  BY DEF Inductive, TypeOK, DetectorOnly, operatorVars
<1>2. NumbersAgree'
  BY DEF Inductive, NumbersAgree, DetectorOnly, operatorVars
<1>3. Unused => Unused'
  BY DEF Unused, Own, DetectorOnly, operatorVars
<1>4. StagesAgree'
  BY <1>3 DEF Inductive, StagesAgree, Named, DetectorOnly, operatorVars
<1>5. SightingsAgree'
  <2>1. SightingsAgree /\ (Activated <=> Activated')
    BY DEF Inductive, DetectorOnly, operatorVars, Activated
  <2>2. UNCHANGED <<run, stray, started, mission, lastStarted, missionGeneration, armed,
                    generation, snapshot>>
    BY DEF DetectorOnly, operatorVars
  <2>3. \A t \in Sighted' : Good(t)'
    BY <2>1, <2>2 DEF SightingsAgree, Good, Own
  <2>4. Observed' = Observed
    BY DEF Observed, DetectorOnly
  <2> QED BY <1>3, <2>1, <2>2, <2>3, <2>4 DEF SightingsAgree, Own
<1>6. EventAgrees'
  BY DEF Inductive, EventAgrees, DetectorOnly, operatorVars
<1>7. LateAgrees'
  <2>1. /\ UNCHANGED <<late, run, phase, granted, generation, missionParameter,
                       generationParameter, lastStarted, mission, started>>
        /\ LateAgrees
    BY DEF Inductive, DetectorOnly, operatorVars
  <2> QED BY <1>3, <2>1 DEF LateAgrees, ArmMayWait, StartMayWait, NamesMayWait,
                            GenerationMayWait, ActivateMayWait, Named, Activated
<1> QED BY <1>1, <1>2, <1>4, <1>5, <1>6, <1>7 DEF Inductive

LEMMA IncrementFacts ==
  ASSUME NEW n \in 0 .. ConfirmationFrames, NEW m \in 0 .. ConfirmationFrames, n <= m
  PROVE  /\ Increment(n) \in 0 .. ConfirmationFrames /\ Increment(m) \in 0 .. ConfirmationFrames
         /\ Increment(n) <= Increment(m)
BY Constants DEF Increment

\* A confirmed target is published.
LEMMA FrameMatchesStep ==
  ASSUME Inductive, FrameMatches, UNCHANGED <<followerVars, operatorVars>>
  PROVE  Inductive'
<1> DEFINE t == [generation |-> generation, asked |-> colour, frames |-> frames']
<1>1. DetectorTypeOK /\ FollowerTypeOK /\ count <= frames
  BY DEF Inductive, TypeOK, NumbersAgree
<1>2. /\ armed /\ colour \in Run /\ activeColour' = colour /\ missing' = 0
      /\ UNCHANGED <<colour, armed, prepared, generation>>
      /\ \E same \in BOOLEAN : /\ count' = Increment(IF same THEN count ELSE 0)
                               /\ frames' = Increment(IF same THEN frames ELSE 0)
  BY DEF FrameMatches
<1>3. /\ count' \in 0 .. ConfirmationFrames /\ frames' \in 0 .. ConfirmationFrames
      /\ count' <= frames'
  <2>1. count \in 0 .. ConfirmationFrames /\ frames \in 0 .. ConfirmationFrames
        /\ 0 \in 0 .. ConfirmationFrames
    BY <1>1, Constants DEF DetectorTypeOK
  <2> QED BY <1>1, <1>2, <2>1, IncrementFacts
<1>4. /\ generation \in Generation
      /\ generation <= lastStarted \/ generation \in stray
      /\ Own(generation) => Activated
  BY <1>1, <1>2 DEF Inductive, SightingsAgree, DetectorTypeOK, Generation
<1>5. t \in Target
  BY <1>2, <1>3, <1>4 DEF Target
<1>6. count' >= ConfirmationFrames => Good(t) /\ (Own(t.generation) => ~ Unused)
  <2>1. count' >= ConfirmationFrames => t.frames = ConfirmationFrames
    BY <1>3, Constants
  <2>2. Own(generation) /\ started = run => colour = run
    <3>1. TypeOK /\ StagesAgree /\ generation >= 1
      BY <1>4, Constants DEF Inductive, Generation
    <3>2. Own(generation) /\ started = run => granted[run] = generation /\ generation # 0
      BY <1>4, <3>1, NumberTypes DEF Activated, Own
    <3>3. run >= 1
      BY <1>4, NumberTypes, Constants DEF Inductive, NumbersAgree, Generation
    <3> QED BY <3>1, <3>2, <3>3 DEF StagesAgree, Named
  <2>3. Own(generation) => ~ Unused
    BY <1>2 DEF Own, Unused
  <2> QED BY <1>4, <2>1, <2>2, <2>3 DEF Good
<1>7. /\ wire' \in Seq(Target) /\ Len(wire') <= WireDepth
      /\ Elements(wire') \subseteq Elements(wire) \cup (IF count' >= ConfirmationFrames THEN {t} ELSE {})
  <2>1. CASE count' >= ConfirmationFrames
    <3>1. wire' = Queued(wire, t, WireDepth)
      BY <2>1 DEF FrameMatches
    <3>2. wire \in Seq(Target) /\ Len(wire) <= WireDepth /\ WireDepth \in Nat \ {0}
      BY <1>1, Constants DEF DetectorTypeOK
    <3> HIDE DEF t
    <3> QED BY <1>5, <2>1, <3>1, <3>2, QueuedFacts
  <2>2. CASE ~ (count' >= ConfirmationFrames)
    BY <1>1, <2>2 DEF FrameMatches, DetectorTypeOK
  <2> QED BY <2>1, <2>2
<1>8. DetectorTypeOK'
  BY <1>1, <1>2, <1>3, <1>7, Constants DEF DetectorTypeOK, Run
<1>9. FollowerTypeOK' /\ DetectorOnly
  BY <1>1, <1>2 DEF FollowerTypeOK, followerVars, DetectorOnly
<1>10. \A u \in Sighted' : u \in Sighted \/ (Good(u) /\ (Own(u.generation) => ~ Unused))
  <2>1. Elements(pending') = Elements(pending) /\ Observed' = Observed
    BY DEF followerVars, Observed
  <2> HIDE DEF t
  <2> QED BY <1>6, <1>7, <2>1 DEF Sighted
<1> QED BY <1>3, <1>8, <1>9, <1>10, DetectorOnlyAgrees

LEMMA FrameMissesStep ==
  ASSUME Inductive, FrameMisses, UNCHANGED <<followerVars, operatorVars>>
  PROVE  Inductive'
<1>1. DetectorTypeOK /\ FollowerTypeOK /\ count <= frames
  BY DEF Inductive, TypeOK, NumbersAgree
<1>2. UNCHANGED <<colour, armed, prepared, generation, wire>> /\ activeColour' = colour
  BY DEF FrameMisses
<1>3. /\ count' \in 0 .. ConfirmationFrames /\ frames' \in 0 .. ConfirmationFrames
      /\ missing' \in 0 .. MaximumMissingFrames /\ count' <= frames'
  <2> PICK same \in BOOLEAN :
         LET kept == IF same THEN <<count, missing, frames>> ELSE <<0, 0, 0>>
         IN  IF kept[1] = 0 \/ kept[2] >= MaximumMissingFrames
             THEN Reset /\ frames' = 0
             ELSE count' = kept[1] /\ missing' = kept[2] + 1 /\ frames' = kept[3]
    BY DEF FrameMisses
  <2> DEFINE kept == IF same THEN <<count, missing, frames>> ELSE <<0, 0, 0>>
  <2>1. /\ kept[1] \in 0 .. ConfirmationFrames /\ kept[3] \in 0 .. ConfirmationFrames
        /\ kept[2] \in 0 .. MaximumMissingFrames /\ kept[1] <= kept[3]
    <3>1. CASE same
      BY <1>1, <3>1 DEF DetectorTypeOK
    <3>2. CASE ~ same
      BY <3>2, Constants
    <3> QED BY <3>1, <3>2
  <2>2. \/ count' = 0 /\ missing' = 0 /\ frames' = 0
        \/ /\ kept[2] < MaximumMissingFrames
           /\ count' = kept[1] /\ missing' = kept[2] + 1 /\ frames' = kept[3]
    BY <2>1, Constants DEF Reset
  <2> HIDE DEF kept
  <2> QED BY <2>1, <2>2, Constants
<1>4. DetectorTypeOK'
  BY <1>1, <1>2, <1>3 DEF DetectorTypeOK
<1>5. FollowerTypeOK' /\ DetectorOnly
  BY <1>1, <1>2 DEF FollowerTypeOK, followerVars, DetectorOnly
<1>6. Sighted' = Sighted
  BY <1>2 DEF Sighted, Observed, followerVars
<1> QED BY <1>3, <1>4, <1>5, <1>6, DetectorOnlyAgrees

\* A detection reaches the follower, which keeps it or not.
LEMMA TargetArrivesStep ==
  ASSUME Inductive, TargetArrives, UNCHANGED operatorVars
  PROVE  Inductive'
<1>1. /\ DetectorTypeOK /\ FollowerTypeOK /\ count <= frames /\ wire # <<>>
      /\ wire \in Seq(Target) /\ pending \in Seq(Target) /\ Len(pending) <= PendingDepth
  BY DEF Inductive, TypeOK, NumbersAgree, TargetArrives, DetectorTypeOK, FollowerTypeOK
<1>2. /\ UNCHANGED <<colour, activeColour, armed, prepared, generation, count, missing, frames>>
      /\ UNCHANGED <<missionParameter, generationParameter, mission, missionGeneration,
                     lastStarted, started, state, expired, seen, loss, observation, fresh,
                     near, scan, snapshot, written, event>>
      /\ wire' = Tail(wire)
      /\ pending' \in {pending, Queued(pending, Head(wire), PendingDepth)}
  BY DEF TargetArrives
<1>3. /\ Head(wire) \in Target /\ Head(wire) \in Elements(wire)
      /\ wire' \in Seq(Target) /\ Len(wire') = Len(wire) - 1
      /\ Elements(wire') \subseteq Elements(wire)
  BY <1>1, <1>2, TailFacts
<1>4. /\ pending' \in Seq(Target) /\ Len(pending') <= PendingDepth
      /\ Elements(pending') \subseteq Elements(pending) \cup {Head(wire)}
  <2>1. CASE pending' = pending
    BY <1>1, <2>1
  <2>2. CASE pending' = Queued(pending, Head(wire), PendingDepth)
    <3>1. PendingDepth \in Nat \ {0}
      BY Constants
    <3> QED BY <1>1, <1>3, <2>2, <3>1, QueuedFacts
  <2> QED BY <1>2, <2>1, <2>2
<1>5. DetectorTypeOK'
  <2>1. Len(wire') <= WireDepth
    BY <1>1, <1>3, Constants DEF DetectorTypeOK
  <2> QED BY <1>1, <1>2, <1>3, <2>1 DEF DetectorTypeOK
<1>6. FollowerTypeOK'
  BY <1>1, <1>2, <1>4 DEF FollowerTypeOK
<1>7. DetectorOnly
  BY <1>2 DEF DetectorOnly
<1>8. Sighted' \subseteq Sighted
  <2>1. Observed' = Observed
    BY <1>2 DEF Observed
  <2> QED BY <1>3, <1>4, <2>1 DEF Sighted
<1> QED BY <1>1, <1>2, <1>5, <1>6, <1>7, <1>8, DetectorOnlyAgrees

-----------------------------------------------------------------------------
(* The services.                                                            *)

\* What most calls leave alone, executed or not.
Calm ==
  /\ DetectorTypeOK' /\ FollowerTypeOK'
  /\ UNCHANGED <<started, mission, lastStarted, missionGeneration, event>>
  /\ Sighted' \subseteq Sighted /\ Observed' \subseteq Observed
  /\ armed' => armed /\ generation' = generation
  /\ snapshot' \in {0, snapshot}
  /\ count' <= frames'

LEMMA NothingCalm ==
  ASSUME Inductive, UNCHANGED <<detectorVars, followerVars>>
  PROVE  Calm /\ UNCHANGED <<colour, missionParameter, generationParameter, generation>>
<1>1. DetectorTypeOK' /\ FollowerTypeOK' /\ count' <= frames'
  BY DEF Inductive, TypeOK, NumbersAgree, DetectorTypeOK, FollowerTypeOK, detectorVars, followerVars
<1>2. Sighted' = Sighted /\ Observed' = Observed
  BY DEF Sighted, Observed, detectorVars, followerVars
<1> QED BY <1>1, <1>2 DEF Calm, detectorVars, followerVars

\* The parameters of the two nodes that a run sets.
LEMMA NamesCalm ==
  ASSUME Inductive, NEW r \in Run,
         SetColour(r) \/ UNCHANGED detectorVars, SetMission(r) \/ UNCHANGED followerVars
  PROVE  /\ Calm /\ UNCHANGED <<generationParameter, generation>>
         /\ colour' = r \/ colour' = colour
         /\ missionParameter' = r \/ missionParameter' = missionParameter
<1>1. r \in 0 .. MaxRuns
  BY Constants DEF Run
<1>2. DetectorTypeOK' /\ count' <= frames' /\ UNCHANGED <<armed, generation, wire>>
  BY <1>1 DEF Inductive, TypeOK, NumbersAgree, DetectorTypeOK, detectorVars, SetColour
<1>3. FollowerTypeOK'
  BY <1>1 DEF Inductive, TypeOK, FollowerTypeOK, followerVars, SetMission
<1>4. Sighted' = Sighted /\ Observed' = Observed
  BY <1>2 DEF Sighted, Observed, followerVars, SetMission
<1> QED BY <1>2, <1>3, <1>4 DEF Calm, detectorVars, followerVars, SetColour, SetMission

LEMMA ArmCalm ==
  ASSUME Inductive, generation < MaxRuns, Arm, UNCHANGED followerVars
  PROVE  /\ Calm /\ generation' = generation + 1
         /\ UNCHANGED <<colour, missionParameter, generationParameter>>
<1>1. /\ count' = 0 /\ missing' = 0 /\ frames' = 0 /\ armed' = FALSE /\ prepared' = TRUE
      /\ generation' = generation + 1 /\ activeColour' = colour /\ UNCHANGED <<colour, wire>>
  BY DEF Arm, Reset
<1>2. DetectorTypeOK'
  <2>1. armed' \in BOOLEAN /\ prepared' \in BOOLEAN
    BY <1>1
  <2>2. 0 \in 0 .. ConfirmationFrames /\ 0 \in 0 .. MaximumMissingFrames
    BY Constants
  <2>3. generation' \in 0 .. MaxRuns
    BY <1>1, Constants, NumberTypes DEF Inductive
  <2> QED BY <1>1, <2>1, <2>2, <2>3 DEF Inductive, TypeOK, DetectorTypeOK
<1>3. FollowerTypeOK'
  BY DEF Inductive, TypeOK, FollowerTypeOK, followerVars
<1>4. Sighted' = Sighted /\ Observed' = Observed
  BY <1>1 DEF Sighted, Observed, followerVars
<1> QED BY <1>1, <1>2, <1>3, <1>4 DEF Calm, followerVars

LEMMA DisarmCalm ==
  ASSUME Inductive, Disarm, UNCHANGED followerVars
  PROVE  Calm /\ UNCHANGED <<colour, missionParameter, generationParameter, generation>>
<1>1. /\ count' = 0 /\ missing' = 0 /\ frames' = 0 /\ armed' = FALSE /\ prepared' = FALSE
      /\ UNCHANGED <<colour, activeColour, generation, wire>>
  BY DEF Disarm, Reset
<1>2. DetectorTypeOK'
  <2>1. armed' \in BOOLEAN /\ prepared' \in BOOLEAN
    BY <1>1
  <2>2. 0 \in 0 .. ConfirmationFrames /\ 0 \in 0 .. MaximumMissingFrames
    BY Constants
  <2> QED BY <1>1, <2>1, <2>2 DEF Inductive, TypeOK, DetectorTypeOK
<1>3. FollowerTypeOK'
  BY DEF Inductive, TypeOK, FollowerTypeOK, followerVars
<1>4. Sighted' = Sighted /\ Observed' = Observed
  BY <1>1 DEF Sighted, Observed, followerVars
<1> QED BY <1>1, <1>2, <1>3, <1>4 DEF Calm, followerVars

LEMMA CancelCalm ==
  ASSUME Inductive, Cancel, UNCHANGED detectorVars
  PROVE  Calm /\ UNCHANGED <<colour, missionParameter, generationParameter, generation>>
<1>1. /\ state' = "cancelled" /\ scan' = StoppedScan /\ pending' = <<>> /\ snapshot' = 0
      /\ UNCHANGED <<missionParameter, generationParameter, mission, missionGeneration,
                     lastStarted, started, expired, seen, loss, observation, fresh, near,
                     written, event>>
  BY DEF Cancel
<1>2. DetectorTypeOK' /\ count' <= frames'
  BY DEF Inductive, TypeOK, NumbersAgree, DetectorTypeOK, detectorVars
<1>3. FollowerTypeOK'
  <2>1. pending' \in Seq(Target) /\ Len(pending') <= PendingDepth
    BY <1>1, Constants
  <2>2. state' \in TerminalStates /\ scan' \in {"stopped", "active", "complete"}
    BY <1>1 DEF TerminalStates, StoppedScan
  <2>3. snapshot' \in 0 .. MaxRuns
    BY <1>1, Constants
  <2> QED BY <1>1, <2>1, <2>2, <2>3 DEF Inductive, TypeOK, FollowerTypeOK
<1>4. Observed' = Observed /\ Sighted' \subseteq Sighted
  BY <1>1 DEF Sighted, Observed, detectorVars, Elements
<1> QED BY <1>1, <1>2, <1>3, <1>4 DEF Calm, detectorVars

LEMMA SetGenerationCalm ==
  ASSUME Inductive, NEW g \in 0 .. MaxRuns, SetGeneration(g), UNCHANGED detectorVars
  PROVE  /\ Calm /\ generationParameter' = g
         /\ UNCHANGED <<colour, missionParameter, generation>>
<1>1. DetectorTypeOK' /\ count' <= frames'
  BY DEF Inductive, TypeOK, NumbersAgree, DetectorTypeOK, detectorVars
<1>2. FollowerTypeOK'
  BY DEF Inductive, TypeOK, FollowerTypeOK, SetGeneration
<1>3. Observed' = Observed /\ Sighted' = Sighted
  BY DEF Sighted, Observed, detectorVars, SetGeneration
<1> QED BY <1>1, <1>2, <1>3 DEF Calm, detectorVars, SetGeneration

LEMMA ElementsTyped ==
  ASSUME DetectorTypeOK
  PROVE  \A t \in Elements(wire) : t.generation \in Nat
<1> SUFFICES ASSUME NEW i \in 1 .. Len(wire)
             PROVE  wire[i].generation \in Nat
  BY DEF Elements
<1>1. wire[i] \in Target
  BY DEF DetectorTypeOK
<1> QED BY <1>1, Constants DEF Target, Generation

\* A start that is accepted: no target carries the mission's generation yet.
LEMMA StartAccepted ==
  ASSUME Inductive, CanStart, Start, UNCHANGED <<detectorVars, run, stray>>
  PROVE  /\ DetectorTypeOK' /\ FollowerTypeOK' /\ SightingsAgree' /\ Unused' /\ count' <= frames'
         /\ lastStarted' = generationParameter /\ missionGeneration' = generationParameter
         /\ started' = missionParameter /\ mission' = missionParameter
         /\ lastStarted < generationParameter
         /\ UNCHANGED <<missionParameter, generationParameter, event, colour, generation>>
<1>1. /\ mission' = missionParameter /\ state' = "searching" /\ expired' = FALSE
      /\ seen' = FALSE /\ loss' = "none"
      /\ missionGeneration' = generationParameter /\ lastStarted' = generationParameter
      /\ started' = missionParameter /\ scan' = "active"
      /\ pending' = <<>> /\ observation' = NoObservation /\ fresh' = FALSE /\ snapshot' = 0
      /\ UNCHANGED <<missionParameter, generationParameter, near, written, event>>
  BY DEF Start, CanStart
<1>2. /\ DetectorTypeOK /\ FollowerTypeOK /\ lastStarted < generationParameter /\ count <= frames
      /\ UNCHANGED <<colour, activeColour, armed, prepared, generation, count, missing, frames, wire>>
  BY DEF Inductive, TypeOK, NumbersAgree, CanStart, FollowerTypeOK, detectorVars
<1>3. DetectorTypeOK' /\ count' <= frames'
  BY <1>2 DEF DetectorTypeOK
<1>4. FollowerTypeOK'
  <2>1. pending' \in Seq(Target) /\ Len(pending') <= PendingDepth
    BY <1>1, Constants
  <2>2. snapshot' \in 0 .. MaxRuns
    BY <1>1, Constants
  <2>3. fresh' \in BOOLEAN /\ seen' \in BOOLEAN /\ expired' \in BOOLEAN
    BY <1>1
  <2> QED BY <1>1, <1>2, <2>1, <2>2, <2>3 DEF FollowerTypeOK
<1>5. Observed' = {} /\ \A t \in Sighted' : t \in Elements(wire) /\ t \in Sighted
  BY <1>1, <1>2 DEF Observed, Sighted, Elements
<1>6. lastStarted \in Nat /\ generation \in Nat /\ generationParameter \in Nat
  BY NumberTypes DEF Inductive
<1>7. \A t \in Sighted' : /\ t.frames = ConfirmationFrames
                          /\ t.generation \in stray \/ t.generation < lastStarted'
  <2> SUFFICES ASSUME NEW t \in Sighted'
               PROVE  /\ t.frames = ConfirmationFrames
                      /\ t.generation \in stray \/ t.generation < lastStarted'
    OBVIOUS
  <2>1. t.generation \in Nat /\ Good(t)
    BY <1>2, <1>5, ElementsTyped DEF Inductive, SightingsAgree
  <2> QED BY <1>1, <1>2, <1>6, <2>1 DEF Good
<1>8. armed' => /\ generation' >= 1
                /\ generation' \in stray \/ generation' < lastStarted'
  BY <1>1, <1>2, <1>6 DEF Inductive, SightingsAgree
<1>9. Unused'
  <2>1. \A t \in Sighted' : lastStarted' \notin stray => t.generation # lastStarted'
    <3> SUFFICES ASSUME NEW t \in Sighted', lastStarted' \notin stray
                 PROVE  t.generation # lastStarted'
      OBVIOUS
    <3>1. t.generation \in Nat
      BY <1>2, <1>5, ElementsTyped
    <3> QED BY <1>1, <1>6, <1>7, <3>1
  <2> QED BY <1>1, <1>6, <1>8, <2>1 DEF Unused
<1>10. SightingsAgree'
  <2>1. \A t \in Sighted' : Good(t)'
    <3> SUFFICES ASSUME NEW t \in Sighted'
                 PROVE  Good(t)'
      OBVIOUS
    <3>1. t.generation \in Nat
      BY <1>2, <1>5, ElementsTyped
    <3> QED BY <1>1, <1>6, <1>7, <3>1 DEF Good, Own
  <2>2. (armed => /\ generation >= 1 /\ (generation <= lastStarted \/ generation \in stray)
                  /\ Own(generation) => Activated)'
    BY <1>1, <1>2, <1>6, <1>8 DEF Own
  <2> QED BY <1>1, <1>5, <1>9, <2>1, <2>2 DEF SightingsAgree
<1> QED BY <1>1, <1>2, <1>3, <1>4, <1>9, <1>10

\* A start that is refused may only take over the mission's id.
LEMMA StartRefused ==
  ASSUME Inductive, ~ CanStart, Start, UNCHANGED <<detectorVars, run, stray>>,
         Active(state) \/ missionParameter = mission \/ Unused,
         Activated => Activated'
  PROVE  /\ DetectorTypeOK' /\ FollowerTypeOK' /\ SightingsAgree' /\ count' <= frames'
         /\ mission' = mission \/ (mission' = missionParameter /\ Unused)
         /\ Unused => Unused'
         /\ UNCHANGED <<missionParameter, generationParameter, event, colour, generation,
                        lastStarted, missionGeneration, started>>
<1>1. /\ mission' = IF Active(state) THEN mission ELSE missionParameter
      /\ UNCHANGED <<state, expired, seen, loss, missionGeneration, lastStarted,
                     started, scan, pending, observation, fresh, snapshot>>
      /\ UNCHANGED <<missionParameter, generationParameter, near, written, event>>
  BY DEF Start
<1>2. /\ DetectorTypeOK /\ FollowerTypeOK /\ count <= frames
      /\ UNCHANGED <<colour, activeColour, armed, prepared, generation, count, missing, frames, wire>>
  BY DEF Inductive, TypeOK, NumbersAgree, detectorVars
<1>3. DetectorTypeOK' /\ FollowerTypeOK' /\ count' <= frames'
  BY <1>1, <1>2 DEF DetectorTypeOK, FollowerTypeOK
<1>4. Observed' = Observed /\ Sighted' = Sighted
  BY <1>1, <1>2 DEF Observed, Sighted
<1>5. Unused => Unused'
  BY <1>1, <1>2, <1>4 DEF Unused
<1>6. SightingsAgree'
  <2>1. SightingsAgree
    BY DEF Inductive
  <2>2. (mission = started \/ Unused)'
    BY <1>1, <1>5, <2>1 DEF SightingsAgree
  <2>3. \A t \in Sighted' : Good(t)'
    BY <1>1, <1>4, <2>1 DEF SightingsAgree, Good, Own
  <2> QED BY <1>1, <1>2, <1>4, <2>1, <2>2, <2>3 DEF SightingsAgree, Own
<1> QED BY <1>1, <1>2, <1>3, <1>5, <1>6

\* An activation that is not refused is for the mission last started, or is noted
\* as astray.
LEMMA ActivateServed ==
  ASSUME Inductive, CanActivate, Activate, UNCHANGED <<followerVars, run, granted>>,
         stray \subseteq stray',
         Activated => Activated',
         generation \in stray' \/ (generation = lastStarted /\ mission = started /\ Activated')
  PROVE  /\ DetectorTypeOK' /\ FollowerTypeOK' /\ SightingsAgree' /\ count' <= frames'
         /\ generation \in stray' => (Unused => Unused')
         /\ UNCHANGED <<missionParameter, generationParameter, event, colour, generation,
                        lastStarted, missionGeneration, started, mission>>
<1>1. /\ count' = 0 /\ missing' = 0 /\ frames' = 0 /\ armed' = TRUE /\ prepared' = FALSE
      /\ UNCHANGED <<colour, activeColour, generation, wire>> /\ generation >= 1
  BY DEF Activate, Reset, CanActivate
<1>2. UNCHANGED <<missionParameter, generationParameter, mission, missionGeneration, lastStarted,
                  started, pending, observation, snapshot, event>>
  BY DEF followerVars
<1>3. DetectorTypeOK'
  <2>1. armed' \in BOOLEAN /\ prepared' \in BOOLEAN
    BY <1>1
  <2>2. 0 \in 0 .. ConfirmationFrames /\ 0 \in 0 .. MaximumMissingFrames
    BY Constants
  <2> QED BY <1>1, <2>1, <2>2 DEF Inductive, TypeOK, DetectorTypeOK
<1>4. FollowerTypeOK'
  BY DEF Inductive, TypeOK, FollowerTypeOK, followerVars
<1>5. SightingsAgree /\ Sighted' = Sighted /\ Observed' = Observed /\ lastStarted \in Nat
  BY <1>1, <1>2, NumberTypes DEF Inductive, Sighted, Observed
<1>6. generation \in stray' => (Unused => Unused')
  BY <1>1, <1>2, <1>5 DEF Unused
<1>7. SightingsAgree'
  <2>1. \A t \in Sighted' : Good(t)'
    BY <1>1, <1>2, <1>5 DEF SightingsAgree, Good, Own
  <2>2. (mission = started \/ Unused)'
    BY <1>2, <1>5, <1>6 DEF SightingsAgree
  <2>3. (snapshot # 0 => snapshot = lastStarted /\ (Own(snapshot) => Activated))'
    BY <1>2, <1>5 DEF SightingsAgree, Own
  <2>4. (armed => /\ generation >= 1 /\ (generation <= lastStarted \/ generation \in stray)
                  /\ Own(generation) => Activated)'
    BY <1>1, <1>2, <1>5 DEF Own
  <2> QED BY <1>2, <1>5, <2>1, <2>2, <2>3, <2>4 DEF SightingsAgree
<1> QED BY <1>1, <1>2, <1>3, <1>4, <1>6, <1>7

-----------------------------------------------------------------------------
(* The calls that wait, and what a step of the operator keeps.              *)

LEMMA CallFacts ==
  /\ \A s, a : Call(s, a).service = s /\ Call(s, a).argument = a
  /\ \A s, a, t, b : Call(s, a) = Call(t, b) => s = t /\ a = b
<1>1. \A s, a : Call(s, a).service = s /\ Call(s, a).argument = a
  BY DEF Call
<1> QED BY <1>1

\* Which calls there are.
LEMMA CallCases ==
  ASSUME NEW call \in Calls
  PROVE  \/ \E r \in Run : call = Call("color", r) \/ call = Call("mission", r)
         \/ \E g \in Generation : call = Call("generation", g) \/ call = Call("activate", g)
         \/ call \in {Call("arm", 0), Call("start", 0), Call("cancel", 0), Call("disarm", 0)}
BY DEF Calls

LateTyped == late \subseteq Calls /\ Cardinality(late) <= MaxLate /\ IsFiniteSet(late)

LEMMA LateKept ==
  ASSUME Inductive
  PROVE  LateTyped
BY DEF Inductive, TypeOK, LateAgrees, LateTyped

\* More calls may be executed later ...
LEMMA LateWaits ==
  ASSUME Inductive, NEW calls \in SUBSET Calls, IsFiniteSet(calls), Waiting(calls)
  PROVE  LateTyped'
<1>1. LateTyped /\ late' = late \cup calls /\ Cardinality(late') <= MaxLate
  BY LateKept DEF Waiting
<1>2. IsFiniteSet(late \cup calls)
  BY <1>1, FS_Union DEF LateTyped
<1> QED BY <1>1, <1>2 DEF LateTyped

\* ... or one less.
LEMMA LateServed ==
  ASSUME Inductive, NEW call \in late, late' = late \ {call}
  PROVE  LateTyped'
<1>1. LateTyped
  BY LateKept
<1>2. IsFiniteSet(late') /\ Cardinality(late') = Cardinality(late) - 1
  BY <1>1, FS_RemoveElement DEF LateTyped
<1>3. Cardinality(late) \in Nat
  BY <1>1, FS_CardinalityType DEF LateTyped
<1> QED BY <1>1, <1>2, <1>3, Constants DEF LateTyped

\* A call that is made when none waits at its service.
LEMMA FreeFacts ==
  ASSUME NEW s, NEW a, Free(Call(s, a))
  PROVE  \A b : Call(s, b) \notin late
BY CallFacts DEF Free

LEMMA CalmKeeps ==
  ASSUME Inductive, Calm, stray' = stray, started = run' => started = run, Activated => Activated'
  PROVE  SightingsAgree' /\ (Unused => Unused')
BY SightingsKept DEF Calm

LEMMA EventKept ==
  ASSUME Inductive, event' = event, stray \subseteq stray',
         run' = run \/ run' = run + 1,
         \A r \in 1 .. run : granted'[r] = granted[r] \/ (r = run /\ phase \notin Past),
         run' = run /\ phase \in Past => phase' \in Past
  PROVE  EventAgrees'
<1>1. EventAgrees /\ run \in Nat /\ event.mission \in Nat
  <2>1. event \in [mission : 0 .. MaxRuns, generation : 0 .. MaxRuns]
    BY DEF Inductive, TypeOK, FollowerTypeOK
  <2> QED BY <2>1, NumberTypes, Constants DEF Inductive
<1> QED BY <1>1 DEF EventAgrees

\* A call of the command that nobody executes in time, or the end of its wait.
LEMMA GivenUp ==
  ASSUME Inductive, LateTyped', NEW call,
         UNCHANGED <<detectorVars, followerVars, run, missionId, granted, stray>>,
         late' = late \/ (Free(call) /\ late' = late \cup {call}),
         \/ phase = "arm" /\ call = Call("arm", 0) /\ phase' = "off"
         \/ phase = "generation" /\ call = Call("generation", granted[run]) /\ phase' = "disarm"
         \/ phase = "start" /\ call = Call("start", 0) /\ phase' = "disarm"
         \/ phase = "activate" /\ call = Call("activate", granted[run]) /\ phase' = "cancel"
         \/ phase = "cancel" /\ call = Call("cancel", 0) /\ phase' = "disarm"
         \/ phase = "disarm" /\ call = Call("disarm", 0) /\ phase' = "off"
         \/ phase = "waiting" /\ late' = late /\ phase' = "off"
  PROVE  Inductive'
<1>1. /\ Calm /\ UNCHANGED <<colour, missionParameter, generationParameter, generation>>
      /\ DetectorTypeOK' /\ FollowerTypeOK' /\ count' <= frames'
      /\ UNCHANGED <<started, mission, lastStarted, missionGeneration, event>>
  BY NothingCalm DEF Calm
<1>2. /\ NumbersAgree /\ StagesAgree /\ LateAgrees
      /\ run \in Nat /\ generation \in Nat /\ lastStarted \in Nat /\ generationParameter \in Nat
  BY NumberTypes DEF Inductive
<1>3. phase' \in Past /\ (Activated => Activated')
  BY <1>1 DEF Activated, Past
<1>4. SightingsAgree' /\ (Unused => Unused')
  BY <1>1, <1>3, CalmKeeps
<1>5. TypeOK'
  BY <1>1, <1>3 DEF Inductive, TypeOK, LateTyped, Past, Phases
<1>6. NumbersAgree'
  BY <1>1, <1>2 DEF NumbersAgree
<1>7. StagesAgree'
  BY <1>1, <1>2 DEF StagesAgree, Named
<1>8. EventAgrees'
  BY <1>1, <1>3, EventKept
<1>9. ArmMayWait'
  BY <1>1, <1>2, CallFacts DEF LateAgrees, ArmMayWait, StagesAgree
<1>10. StartMayWait'
  BY <1>1, <1>2, <1>4, CallFacts DEF LateAgrees, StartMayWait, StagesAgree, Named
<1>11. NamesMayWait'
  BY <1>1, <1>2, CallFacts DEF LateAgrees, NamesMayWait, Named
<1>12. GenerationMayWait'
  <2>1. CASE phase = "generation" /\ Free(call) /\ late' = late \cup {call}
    <3>1. \A g : Call("generation", g) \in late' => g = generation
      BY <1>2, <2>1, FreeFacts, CallFacts DEF StagesAgree
    <3> QED BY <1>1, <1>2, <2>1, <3>1 DEF GenerationMayWait, StagesAgree
  <2>2. CASE ~ (phase = "generation" /\ Free(call) /\ late' = late \cup {call})
    <3>1. \A g : Call("generation", g) \in late' => Call("generation", g) \in late
      BY <2>2, CallFacts
    <3> QED BY <1>1, <1>2, <3>1 DEF LateAgrees, GenerationMayWait
  <2> QED BY <2>1, <2>2
<1>13. ActivateMayWait'
  <2> SUFFICES ASSUME NEW g \in Generation, Call("activate", g) \in late'
               PROVE  /\ g <= generation'
                      /\ g = generation' => /\ lastStarted' = g /\ mission' = started' /\ Activated'
                                            /\ Call("start", 0) \notin late'
    BY DEF ActivateMayWait
  <2>1. CASE Call("activate", g) \in late
    <3>1. /\ g <= generation
          /\ g = generation => /\ lastStarted = g /\ mission = started /\ Activated
                               /\ Call("start", 0) \notin late
      BY <1>2, <2>1 DEF LateAgrees, ActivateMayWait
    <3>2. g = generation => phase # "start"
      BY <1>2, <3>1 DEF StagesAgree, Activated, Past
    <3> QED BY <1>1, <1>3, <3>1, <3>2, CallFacts
  <2>2. CASE Call("activate", g) \notin late
    <3>1. phase = "activate" /\ g = granted[run] /\ phase' = "cancel"
      BY <2>2, CallFacts
    <3>2. /\ g = generation /\ lastStarted = g /\ started = run /\ mission = run
          /\ Call("start", 0) \notin late
      BY <1>2, <3>1 DEF StagesAgree, LateAgrees, StartMayWait
    <3>3. Activated'
      <4>1. started # 0
        BY <3>1, <3>2, <1>2 DEF StagesAgree
      <4> QED BY <1>1, <3>1, <3>2, <4>1 DEF Activated, Past
    <3>4. Call("start", 0) \notin late'
      BY <3>1, <3>2, CallFacts
    <3> QED BY <1>1, <1>2, <3>2, <3>3, <3>4
  <2> QED BY <2>1, <2>2
<1> QED BY <1>4, <1>5, <1>6, <1>7, <1>8, <1>9, <1>10, <1>11, <1>12, <1>13
        DEF Inductive, LateAgrees, LateTyped

-----------------------------------------------------------------------------
(* The operator's steps.                                                    *)

LEMMA RunCommandStep ==
  ASSUME Inductive, RunCommand
  PROVE  Inductive'
<1>1. /\ phase = "off" /\ run < MaxRuns /\ run' = run + 1 /\ phase' = "configure"
      /\ UNCHANGED <<granted, late, stray, detectorVars, followerVars>>
  BY DEF RunCommand
<1>2. /\ Calm /\ UNCHANGED <<colour, missionParameter, generationParameter, generation>>
      /\ DetectorTypeOK' /\ FollowerTypeOK' /\ count' <= frames'
      /\ UNCHANGED <<started, mission, lastStarted, missionGeneration, event>>
  BY <1>1, NothingCalm DEF Calm
<1>3. /\ NumbersAgree /\ StagesAgree /\ LateAgrees /\ LateTyped /\ run' \in Run /\ run' # run
      /\ run \in Nat /\ generation \in Nat /\ lastStarted \in Nat /\ generationParameter \in Nat
      /\ started \in Nat /\ mission \in Nat /\ missionParameter \in Nat
  <2>1. NumbersAgree /\ StagesAgree /\ LateAgrees /\ LateTyped
    BY LateKept DEF Inductive
  <2>2. /\ run \in Nat /\ generation \in Nat /\ lastStarted \in Nat /\ generationParameter \in Nat
        /\ started \in Nat /\ mission \in Nat /\ missionParameter \in Nat
    BY NumberTypes DEF Inductive
  <2> QED BY <1>1, <2>1, <2>2, Constants DEF Run
<1>4. started # run' /\ granted[run'] = 0 /\ generation < run'
  BY <1>1, <1>3 DEF NumbersAgree
<1>5. Activated => Activated'
  BY <1>1, <1>2, <1>4 DEF Activated
<1>6. SightingsAgree' /\ (Unused => Unused')
  BY <1>1, <1>2, <1>4, <1>5, CalmKeeps
<1>7. TypeOK'
  <2>1. missionId \in [Run -> Run]
    BY DEF Inductive, TypeOK
  <2>2. PICK id \in {missionId[r] : r \in 1 .. run} \cup {run'} :
          missionId' = [missionId EXCEPT ![run'] = id]
    BY DEF RunCommand
  <2>3. id \in Run
    <3>1. \A r \in 1 .. run : r \in Run
      BY <1>1, <1>3, Constants DEF Run
    <3> QED BY <1>3, <2>1, <2>2, <3>1
  <2>4. missionId' \in [Run -> Run]
    BY <2>1, <2>2, <2>3
  <2>5. late' \subseteq Calls /\ Cardinality(late') <= MaxLate /\ run' \in 0 .. MaxRuns
    BY <1>1, <1>3, Constants DEF LateTyped
  <2>6. granted' \in [Run -> 0 .. MaxRuns] /\ stray' \subseteq Generation /\ phase' \in Phases
    BY <1>1 DEF Inductive, TypeOK, Phases
  <2> QED BY <1>2, <2>4, <2>5, <2>6 DEF TypeOK
<1>8. NumbersAgree'
  <2>1. \A r \in Run : r > run' => granted'[r] = 0
    BY <1>1, <1>3 DEF NumbersAgree, Run
  <2> QED BY <1>1, <1>2, <1>3, <2>1 DEF NumbersAgree
<1>9. StagesAgree'
  BY <1>1, <1>3, <1>4, <1>2 DEF StagesAgree, Named
<1>10. EventAgrees'
  BY <1>1, <1>2, <1>3, EventKept
<1>11. ArmMayWait'
  BY <1>1, <1>2, <1>3 DEF LateAgrees, ArmMayWait
<1>12. StartMayWait' /\ GenerationMayWait'
  BY <1>1, <1>2, <1>3, <1>6 DEF LateAgrees, StartMayWait, GenerationMayWait
<1>13. NamesMayWait'
  BY <1>1, <1>3, <1>4 DEF LateAgrees, NamesMayWait, Named, Run
<1>14. ActivateMayWait'
  BY <1>1, <1>2, <1>3, <1>5 DEF LateAgrees, ActivateMayWait
<1> QED BY <1>1, <1>3, <1>6, <1>7, <1>8, <1>9, <1>10, <1>11, <1>12, <1>13, <1>14
        DEF Inductive, LateAgrees

\* Both nodes get the new run's parameters, or one, or none; what none got may wait.
LEMMA ConfigureStep ==
  ASSUME Inductive, Configure
  PROVE  Inductive'
<1> DEFINE color == Call("color", run)
           id == Call("mission", run)
<1>1. PICK served \in SUBSET {color, id} : \E kept \in SUBSET ({color, id} \ served) :
        /\ \A call \in served : Free(call)
        /\ IF color \in served THEN SetColour(run) ELSE UNCHANGED detectorVars
        /\ IF id \in served THEN SetMission(run) ELSE UNCHANGED followerVars
        /\ Waiting(kept)
        /\ phase' = "off" \/ (served = {color, id} /\ phase' = "arm")
  BY DEF Configure
<1>2. PICK kept \in SUBSET ({color, id} \ served) : Waiting(kept)
  BY <1>1
<1>3. /\ phase = "configure" /\ UNCHANGED <<run, missionId, granted, stray>>
      /\ late' = late \cup kept
  BY <1>2 DEF Configure, Waiting
<1>4. /\ NumbersAgree /\ StagesAgree /\ LateAgrees
      /\ run \in Nat /\ generation \in Nat /\ run \in Run /\ granted[run] = 0
      /\ generation < run
  BY <1>3, NumberTypes DEF Inductive, StagesAgree
<1>5. /\ Calm /\ UNCHANGED <<generationParameter, generation>>
      /\ colour' = run \/ colour' = colour
      /\ missionParameter' = run \/ missionParameter' = missionParameter
      /\ DetectorTypeOK' /\ FollowerTypeOK' /\ count' <= frames'
      /\ UNCHANGED <<started, mission, lastStarted, missionGeneration, event>>
  <2>1. SetColour(run) \/ UNCHANGED detectorVars
    BY <1>1
  <2>2. SetMission(run) \/ UNCHANGED followerVars
    BY <1>1
  <2>3. /\ Calm /\ UNCHANGED <<generationParameter, generation>>
        /\ colour' = run \/ colour' = colour
        /\ missionParameter' = run \/ missionParameter' = missionParameter
    BY <1>4, <2>1, <2>2, NamesCalm
  <2> QED BY <2>3 DEF Calm
<1>6. LateTyped'
  <2>1. color \in Calls /\ id \in Calls
    BY <1>4 DEF Calls
  <2>2. IsFiniteSet(kept)
    <3>1. IsFiniteSet({color, id})
      <4>1. IsFiniteSet({} \cup {color})
        BY FS_EmptySet, FS_AddElement
      <4>2. IsFiniteSet(({} \cup {color}) \cup {id})
        BY <4>1, FS_AddElement
      <4>3. ({} \cup {color}) \cup {id} = {color, id}
        OBVIOUS
      <4> QED BY <4>2, <4>3
    <3> QED BY <3>1, FS_Subset
  <2> QED BY <1>2, <2>1, <2>2, LateWaits
<1>7. phase' = "arm" => /\ served = {color, id} /\ kept = {}
                        /\ colour' = run /\ missionParameter' = run
                        /\ \A r : Call("color", r) \notin late /\ Call("mission", r) \notin late
  <2> SUFFICES ASSUME phase' = "arm"
               PROVE  /\ served = {color, id} /\ kept = {}
                      /\ colour' = run /\ missionParameter' = run
                      /\ \A r : Call("color", r) \notin late /\ Call("mission", r) \notin late
    OBVIOUS
  <2>1. served = {color, id}
    BY <1>1
  <2>2. SetColour(run) /\ SetMission(run) /\ Free(color) /\ Free(id)
    BY <1>1, <2>1
  <2> QED BY <2>1, <2>2, FreeFacts DEF SetColour, SetMission
<1> HIDE DEF color, id
<1>8. phase' \in {"arm", "off"}
  BY <1>1
<1>9. \A s, a : Call(s, a) \in late' =>
        \/ Call(s, a) \in late
        \/ s \in {"color", "mission"} /\ a = run
  BY <1>3, CallFacts DEF color, id
<1>10. (Activated => Activated') /\ (started = run => lastStarted = 0 \/ ~ Activated)
  <2>1. ~ (started = run /\ phase \in Past)
    BY <1>3, <1>4 DEF Past
  <2> QED BY <1>3, <1>4, <1>5 DEF Activated, Past
<1>11. SightingsAgree' /\ (Unused => Unused')
  BY <1>3, <1>5, <1>10, CalmKeeps
<1>12. TypeOK'
  BY <1>3, <1>5, <1>6, <1>8 DEF Inductive, TypeOK, LateTyped, Phases
<1>13. NumbersAgree'
  BY <1>3, <1>4, <1>5 DEF NumbersAgree
<1>14. StagesAgree'
  BY <1>3, <1>4, <1>5, <1>7, <1>8 DEF StagesAgree, Named
<1>15. EventAgrees'
  BY <1>3, <1>5, EventKept DEF Past
<1>16. ArmMayWait' /\ GenerationMayWait'
  BY <1>3, <1>4, <1>5, <1>8, <1>9 DEF LateAgrees, ArmMayWait, GenerationMayWait
<1>17. StartMayWait'
  BY <1>3, <1>4, <1>5, <1>8, <1>9, <1>11, Constants DEF LateAgrees, StartMayWait, Run
<1>18. NamesMayWait'
  <2>1. CASE phase' = "arm"
    BY <1>3, <1>7, <2>1 DEF NamesMayWait
  <2>2. CASE phase' = "off"
    BY <1>3, <1>4, <1>9, <2>2 DEF LateAgrees, NamesMayWait, Named, Run
  <2> QED BY <1>8, <2>1, <2>2
<1>19. ActivateMayWait'
  BY <1>3, <1>5, <1>9, <1>10, <1>4 DEF LateAgrees, ActivateMayWait
<1> QED BY <1>6, <1>11, <1>12, <1>13, <1>14, <1>15, <1>16, <1>17, <1>18, <1>19
        DEF Inductive, LateAgrees, LateTyped

\* A call of the command is executed, or it is given up on.
LEMMA StepCases ==
  ASSUME Inductive, NEW from, NEW call \in Calls, NEW next, NEW recovery,
         Step(from, call, next, recovery)
  PROVE  /\ phase = from /\ UNCHANGED <<run, missionId, granted, stray>>
         /\ \/ /\ Free(call) /\ Execute(call) /\ late' = late
               /\ phase' = recovery \/ (phase' = next /\ Accepted(call))
            \/ /\ UNCHANGED <<detectorVars, followerVars>> /\ phase' = recovery
               /\ LateTyped' /\ (late' = late \/ (Free(call) /\ late' = late \cup {call}))
<1>1. Waiting({call}) => LateTyped' /\ Free(call) /\ late' = late \cup {call}
  <2>1. IsFiniteSet({call})
    <3>1. IsFiniteSet({} \cup {call}) /\ {} \cup {call} = {call}
      BY FS_EmptySet, FS_AddElement
    <3> QED BY <3>1
  <2> QED BY <2>1, LateWaits DEF Waiting
<1>2. late' = late => LateTyped'
  BY LateKept DEF LateTyped
<1> QED BY <1>1, <1>2 DEF Step, Answered, Unanswered

\* Arming begins a generation of its own.
LEMMA ArmDetectorStep ==
  ASSUME Inductive, ArmDetector
  PROVE  Inductive'
<1> DEFINE call == Call("arm", 0)
<1>1. call \in Calls /\ call.service = "arm"
  BY CallFacts DEF Calls
<1>2. /\ phase = "arm" /\ UNCHANGED <<run, missionId, stray>>
      /\ \/ Answered(call) /\ granted' = [granted EXCEPT ![run] = generation'] /\ phase' = "generation"
         \/ Unanswered(call) /\ phase' = "off" /\ granted' = granted
  BY DEF ArmDetector
<1>3. CASE /\ UNCHANGED <<detectorVars, followerVars, granted>> /\ phase' = "off"
           /\ late' = late \/ Waiting({call})
  <2>1. late' = late \/ (Free(call) /\ late' = late \cup {call})
    BY <1>3 DEF Waiting
  <2>2. LateTyped'
    <3>1. IsFiniteSet({} \cup {call}) /\ {} \cup {call} = {call}
      BY FS_EmptySet, FS_AddElement
    <3>2. late' = late => LateTyped'
      BY LateKept DEF LateTyped
    <3>3. Waiting({call}) => LateTyped'
      BY <1>1, <3>1, LateWaits
    <3> QED BY <1>3, <3>2, <3>3
  <2> QED BY <1>2, <1>3, <2>1, <2>2, GivenUp
<1>4. CASE /\ Free(call) /\ Execute(call) /\ late' = late
           /\ \/ granted' = [granted EXCEPT ![run] = generation'] /\ phase' = "generation"
              \/ granted' = granted /\ phase' = "off"
  <2>1. /\ NumbersAgree /\ StagesAgree /\ LateAgrees
        /\ run \in Run /\ run \in Nat /\ generation \in Nat /\ generation < run /\ granted[run] = 0
        /\ generationParameter \in Nat /\ lastStarted \in Nat /\ run <= MaxRuns
        /\ granted \in [Run -> 0 .. MaxRuns]
    BY <1>2, NumberTypes DEF Inductive, StagesAgree, TypeOK
  <2>2. generation < MaxRuns
    BY <2>1, Constants
  <2>3. /\ Calm /\ generation' = generation + 1
        /\ UNCHANGED <<colour, missionParameter, generationParameter>>
    BY <1>1, <1>4, <2>2, ArmCalm DEF Execute
  <2>4. /\ DetectorTypeOK' /\ FollowerTypeOK' /\ count' <= frames'
        /\ UNCHANGED <<started, mission, lastStarted, missionGeneration, event>>
    BY <2>3 DEF Calm
  <2>5. granted' \in [Run -> 0 .. MaxRuns]
    BY <1>4, <2>1, <2>3, Constants
  <2>6. \A r \in Run : granted'[r] = granted[r] \/ r = run
    BY <1>4, <2>1
  <2>7. Activated => Activated'
    <3>1. started # 0 => started \in Run
      BY NumberTypes, Constants DEF Inductive, TypeOK, FollowerTypeOK, Run
    <3> QED BY <1>2, <2>4, <2>6, <3>1 DEF Activated, Past
  <2>8. SightingsAgree' /\ (Unused => Unused')
    BY <1>2, <2>3, <2>7, CalmKeeps
  <2>9. TypeOK'
    BY <1>2, <1>4, <2>4, <2>5 DEF Inductive, TypeOK, Phases
  <2>10. NumbersAgree'
    BY <1>2, <2>1, <2>3, <2>4, <2>6 DEF NumbersAgree
  <2>11. StagesAgree'
    BY <1>2, <1>4, <2>1, <2>3, <2>4 DEF StagesAgree, Named, NumbersAgree
  <2>12. EventAgrees'
    <3>1. \A r \in 1 .. run : granted'[r] = granted[r] \/ (r = run /\ phase \notin Past)
      BY <1>2, <2>1, <2>6, Constants DEF Past, Run
    <3> QED BY <1>2, <2>4, <3>1, EventKept DEF Past
  <2>13. ArmMayWait'
    BY <1>4, FreeFacts DEF ArmMayWait
  <2>14. StartMayWait' /\ GenerationMayWait' /\ ActivateMayWait'
    <3>1. ActivateMayWait'
      BY <1>4, <2>1, <2>3 DEF LateAgrees, ActivateMayWait, Generation
    <3>2. GenerationMayWait'
      BY <1>2, <1>4, <2>1, <2>3 DEF LateAgrees, GenerationMayWait, Generation
    <3>3. StartMayWait'
      BY <1>2, <1>4, <2>1, <2>3, <2>4, <2>8 DEF LateAgrees, StartMayWait
    <3> QED BY <3>1, <3>2, <3>3
  <2>15. NamesMayWait'
    BY <1>2, <1>4, <2>1 DEF LateAgrees, NamesMayWait, Named
  <2> QED BY <1>4, <2>1, <2>8, <2>9, <2>10, <2>11, <2>12, <2>13, <2>14, <2>15
          DEF Inductive, LateAgrees
<1> QED BY <1>2, <1>3, <1>4 DEF Answered, Unanswered

\* The generation reaches the follower, or not.
LEMMA PassGenerationStep ==
  ASSUME Inductive, PassGeneration
  PROVE  Inductive'
<1> DEFINE call == Call("generation", granted[run])
<1>1. phase = "generation"
  BY DEF PassGeneration, Step
<1>2. /\ NumbersAgree /\ StagesAgree /\ LateAgrees
      /\ run \in Run /\ run \in Nat /\ generation \in Nat /\ granted[run] = generation
      /\ generation \in Generation /\ generation >= 1 /\ generation \in 0 .. MaxRuns
      /\ generationParameter < generation
      /\ generationParameter \in Nat /\ lastStarted \in Nat
  <2>1. /\ NumbersAgree /\ StagesAgree /\ LateAgrees /\ TypeOK
        /\ run >= 1 /\ granted[run] = generation /\ generation >= 1
        /\ generationParameter < granted[run]
    BY <1>1 DEF Inductive, StagesAgree
  <2>2. generation \in 0 .. MaxRuns
    BY <2>1 DEF TypeOK, DetectorTypeOK
  <2> QED BY <2>1, <2>2, NumberTypes
<1>3. call \in Calls /\ call.service = "generation" /\ call.argument = generation
  BY <1>2, CallFacts DEF Calls
<1>4. /\ UNCHANGED <<run, missionId, granted, stray>>
      /\ \/ /\ Free(call) /\ Execute(call) /\ late' = late /\ phase' \in {"start", "disarm"}
         \/ /\ UNCHANGED <<detectorVars, followerVars>> /\ phase' = "disarm"
            /\ LateTyped' /\ (late' = late \/ (Free(call) /\ late' = late \cup {call}))
  BY <1>3, StepCases DEF PassGeneration
<1>5. CASE /\ UNCHANGED <<detectorVars, followerVars>> /\ phase' = "disarm"
           /\ LateTyped' /\ (late' = late \/ (Free(call) /\ late' = late \cup {call}))
  BY <1>1, <1>4, <1>5, GivenUp
<1>6. CASE Free(call) /\ Execute(call) /\ late' = late /\ phase' \in {"start", "disarm"}
  <2>1. /\ Calm /\ generationParameter' = generation
        /\ UNCHANGED <<colour, missionParameter, generation>>
    <3>1. SetGeneration(generation) /\ UNCHANGED detectorVars
      BY <1>3, <1>6 DEF Execute
    <3> QED BY <1>2, <3>1, SetGenerationCalm
  <2>2. /\ DetectorTypeOK' /\ FollowerTypeOK' /\ count' <= frames'
        /\ UNCHANGED <<started, mission, lastStarted, missionGeneration, event>>
    BY <2>1 DEF Calm
  <2>3. Activated => Activated'
    BY <1>1, <1>4, <2>2 DEF Activated, Past
  <2>4. SightingsAgree' /\ (Unused => Unused')
    BY <1>4, <2>1, <2>3, CalmKeeps
  <2>5. TypeOK'
    BY <1>4, <1>6, <2>2 DEF Inductive, TypeOK, Phases
  <2>6. NumbersAgree'
    BY <1>2, <1>4, <2>1, <2>2 DEF NumbersAgree
  <2>7. StagesAgree'
    BY <1>1, <1>2, <1>4, <1>6, <2>1, <2>2 DEF StagesAgree, Named, NumbersAgree
  <2>8. EventAgrees'
    BY <1>1, <1>4, <2>2, EventKept DEF Past
  <2>9. ArmMayWait'
    BY <1>1, <1>2, <1>6 DEF LateAgrees, ArmMayWait
  <2>10. GenerationMayWait'
    BY <1>6, FreeFacts DEF GenerationMayWait
  <2>11. StartMayWait'
    BY <1>1, <1>2, <1>4, <1>6, <2>1, <2>2, <2>4 DEF LateAgrees, StartMayWait, NumbersAgree
  <2>12. NamesMayWait'
    BY <1>1, <1>2, <1>4, <1>6 DEF LateAgrees, NamesMayWait, Named
  <2>13. ActivateMayWait'
    BY <1>2, <1>6, <2>1, <2>2, <2>3 DEF LateAgrees, ActivateMayWait
  <2> QED BY <1>2, <1>6, <2>4, <2>5, <2>6, <2>7, <2>8, <2>9, <2>10, <2>11, <2>12, <2>13
          DEF Inductive, LateAgrees
<1> HIDE DEF call
<1> QED BY <1>4, <1>5, <1>6

\* The follower is started, by the run or by a call that waited.
LEMMA StartServed ==
  ASSUME Inductive, LateTyped', Start, UNCHANGED <<detectorVars, run, missionId, granted, stray>>,
         late' \subseteq late, Call("start", 0) \notin late',
         missionParameter # 0, lastStarted < generationParameter \/ Unused,
         \/ /\ phase = "start" /\ Call("start", 0) \notin late
            /\ phase' = "disarm" \/ (phase' = "activate" /\ CanStart)
         \/ /\ phase' = phase /\ phase \notin {"activate", "waiting", "cancel"}
            /\ Call("start", 0) \in late
  PROVE  Inductive'
<1>1. /\ TypeOK /\ NumbersAgree /\ StagesAgree /\ SightingsAgree /\ LateAgrees
      /\ run \in Nat /\ generation \in Nat /\ missionParameter \in Nat
      /\ generationParameter \in Nat /\ lastStarted \in Nat /\ started \in Nat /\ mission \in Nat
  BY NumberTypes DEF Inductive
<1>2. run >= 1
  BY <1>1 DEF NumbersAgree
<1>3. \A g \in Generation : Call("activate", g) \in late' => g <= generation /\ g # generation
  <2> SUFFICES ASSUME NEW g \in Generation, Call("activate", g) \in late, g = generation
               PROVE  FALSE
    BY <1>1 DEF LateAgrees, ActivateMayWait
  <2>1. lastStarted = generation /\ Activated /\ Call("start", 0) \notin late
    BY <1>1 DEF LateAgrees, ActivateMayWait
  <2>2. phase = "start"
    BY <2>1
  <2>3. started = run
    BY <1>1, <2>1, <2>2 DEF StagesAgree
  <2> QED BY <2>1, <2>2, <2>3 DEF Activated, Past
<1>4. /\ phase \in Past => phase' \in Past
      /\ phase' \in Phases
  BY <1>1 DEF Past, TypeOK, Phases
<1>5. /\ phase' = "start" => phase = "start"
      /\ phase' = "generation" => phase = "generation"
      /\ phase' \in {"configure", "arm"} => phase' = phase
      /\ phase' = "activate" => phase = "start" /\ CanStart
  OBVIOUS
<1>6. phase = "start" => /\ generationParameter = granted[run] /\ granted[run] = generation
                         /\ generation >= 1 /\ missionParameter = run
  BY <1>1, <1>2 DEF StagesAgree, Named
<1>7. ArmMayWait'
  <2>1. UNCHANGED generation
    BY DEF detectorVars
  <2> QED BY <1>1, <2>1 DEF LateAgrees, ArmMayWait
<1>8. StartMayWait'
  BY DEF StartMayWait
<1>9. NamesMayWait'
  BY <1>1, <1>5 DEF LateAgrees, NamesMayWait, Named
<1>10. CASE CanStart
  <2>1. /\ DetectorTypeOK' /\ FollowerTypeOK' /\ SightingsAgree' /\ Unused' /\ count' <= frames'
        /\ lastStarted' = generationParameter /\ missionGeneration' = generationParameter
        /\ started' = missionParameter /\ mission' = missionParameter
        /\ lastStarted < generationParameter
        /\ UNCHANGED <<missionParameter, generationParameter, event, colour, generation>>
    BY <1>10, StartAccepted
  <2>2. TypeOK'
    BY <1>1, <1>4, <2>1 DEF TypeOK, LateTyped
  <2>3. NumbersAgree'
    BY <1>1, <2>1 DEF NumbersAgree
  <2>4. StagesAgree'
    BY <1>1, <1>2, <1>5, <1>6, <2>1 DEF StagesAgree, Named
  <2>5. EventAgrees'
    BY <1>4, <2>1, EventKept
  <2>6. GenerationMayWait'
    BY <1>1, <1>5, <2>1 DEF LateAgrees, GenerationMayWait
  <2>7. ActivateMayWait'
    BY <1>3, <2>1 DEF ActivateMayWait
  <2> QED BY <1>7, <1>8, <1>9, <2>1, <2>2, <2>3, <2>4, <2>5, <2>6, <2>7
          DEF Inductive, LateAgrees, LateTyped
<1>11. CASE ~ CanStart
  <2>1. Active(state) \/ Unused
    BY <1>1, <1>11 DEF CanStart
  <2>2. Activated => Activated'
    <3>1. started' = started /\ lastStarted' = lastStarted
      BY <1>11 DEF Start
    <3> QED BY <1>4, <3>1 DEF Activated
  <2>3. /\ DetectorTypeOK' /\ FollowerTypeOK' /\ SightingsAgree' /\ count' <= frames'
        /\ mission' = mission \/ (mission' = missionParameter /\ Unused)
        /\ Unused => Unused'
        /\ UNCHANGED <<missionParameter, generationParameter, event, colour, generation,
                       lastStarted, missionGeneration, started>>
    BY <1>11, <2>1, <2>2, StartRefused
  <2>4. TypeOK'
    BY <1>1, <1>4, <2>3 DEF TypeOK, LateTyped
  <2>5. NumbersAgree'
    BY <1>1, <2>3 DEF NumbersAgree
  <2>6. StagesAgree'
    BY <1>1, <1>5, <1>11, <2>3 DEF StagesAgree, Named
  <2>7. EventAgrees'
    BY <1>4, <2>3, EventKept
  <2>8. GenerationMayWait'
    BY <1>1, <1>5, <1>11, <2>3 DEF LateAgrees, GenerationMayWait
  <2>9. ActivateMayWait'
    BY <1>3, <2>3 DEF ActivateMayWait
  <2> QED BY <1>7, <1>8, <1>9, <2>3, <2>4, <2>5, <2>6, <2>7, <2>8, <2>9
          DEF Inductive, LateAgrees, LateTyped
<1> QED BY <1>10, <1>11

LEMMA StartFollowerStep ==
  ASSUME Inductive, StartFollower
  PROVE  Inductive'
<1> DEFINE call == Call("start", 0)
<1>1. call \in Calls /\ call.service = "start"
  BY CallFacts DEF Calls
<1>2. /\ phase = "start" /\ UNCHANGED <<run, missionId, granted, stray>>
      /\ \/ /\ Free(call) /\ Execute(call) /\ late' = late
            /\ phase' = "disarm" \/ (phase' = "activate" /\ Accepted(call))
         \/ /\ UNCHANGED <<detectorVars, followerVars>> /\ phase' = "disarm"
            /\ LateTyped' /\ (late' = late \/ (Free(call) /\ late' = late \cup {call}))
  BY <1>1, StepCases DEF StartFollower
<1>3. CASE /\ UNCHANGED <<detectorVars, followerVars>> /\ phase' = "disarm"
           /\ LateTyped' /\ (late' = late \/ (Free(call) /\ late' = late \cup {call}))
  BY <1>2, <1>3, GivenUp
<1>4. CASE /\ Free(call) /\ Execute(call) /\ late' = late
           /\ phase' = "disarm" \/ (phase' = "activate" /\ Accepted(call))
  <2>1. Start /\ UNCHANGED detectorVars
    BY <1>1, <1>4 DEF Execute
  <2>2. phase' = "activate" => phase' = "disarm" \/ CanStart
    BY <1>1, <1>4 DEF Accepted
  <2>3. Call("start", 0) \notin late /\ LateTyped'
    BY <1>4, FreeFacts, LateKept DEF LateTyped
  <2>4. missionParameter # 0 /\ (lastStarted < generationParameter \/ Unused)
    BY <1>2, NumberTypes DEF Inductive, StagesAgree, Named
  <2> QED BY <1>2, <1>4, <2>1, <2>2, <2>3, <2>4, StartServed
<1> QED BY <1>2, <1>3, <1>4

\* The detector is activated: from now on targets carry the mission's generation.
LEMMA ActivateDetectorStep ==
  ASSUME Inductive, ActivateDetector
  PROVE  Inductive'
<1> DEFINE call == Call("activate", granted[run])
<1>1. phase = "activate"
  BY DEF ActivateDetector, Step
<1>2. /\ TypeOK /\ NumbersAgree /\ StagesAgree /\ LateAgrees
      /\ run \in Run /\ run \in Nat /\ generation \in Nat /\ granted[run] = generation
      /\ generation \in Generation /\ lastStarted = generation /\ started = run /\ mission = run
  BY <1>1, NumberTypes DEF Inductive, StagesAgree
<1>3. call \in Calls /\ call.service = "activate"
  BY <1>2, CallFacts DEF Calls
<1>4. /\ UNCHANGED <<run, missionId, granted, stray>>
      /\ \/ /\ Free(call) /\ Execute(call) /\ late' = late
            /\ phase' = "cancel" \/ (phase' = "waiting" /\ Accepted(call))
         \/ /\ UNCHANGED <<detectorVars, followerVars>> /\ phase' = "cancel"
            /\ LateTyped' /\ (late' = late \/ (Free(call) /\ late' = late \cup {call}))
  BY <1>3, StepCases DEF ActivateDetector
<1>5. CASE /\ UNCHANGED <<detectorVars, followerVars>> /\ phase' = "cancel"
           /\ LateTyped' /\ (late' = late \/ (Free(call) /\ late' = late \cup {call}))
  BY <1>1, <1>4, <1>5, GivenUp
<1>6. CASE /\ Free(call) /\ Execute(call) /\ late' = late
           /\ phase' = "cancel" \/ (phase' = "waiting" /\ Accepted(call))
  <2>1. Activate /\ UNCHANGED followerVars
    BY <1>3, <1>6 DEF Execute
  <2>2. CASE ~ CanActivate
    <3>1. UNCHANGED detectorVars
      BY <2>1, <2>2 DEF Activate, detectorVars
    <3>2. phase' = "cancel"
      BY <1>3, <1>6, <2>2 DEF Accepted
    <3>3. LateTyped'
      BY <1>6, LateKept DEF LateTyped
    <3> QED BY <1>5, <1>6, <2>1, <3>1, <3>2, <3>3
  <2>3. CASE CanActivate
    <3>1. Activated' /\ phase' \in {"waiting", "cancel"}
      <4>1. lastStarted' = lastStarted /\ started' = started /\ started # 0
        BY <1>2, <2>1 DEF followerVars, Run
      <4> QED BY <1>2, <1>4, <1>6, <4>1 DEF Activated, Past
    <3>2. /\ DetectorTypeOK' /\ FollowerTypeOK' /\ SightingsAgree' /\ count' <= frames'
          /\ UNCHANGED <<missionParameter, generationParameter, event, colour, generation,
                         lastStarted, missionGeneration, started, mission>>
      BY <1>2, <1>4, <2>1, <2>3, <3>1, ActivateServed
    <3>3. TypeOK'
      BY <1>2, <1>4, <1>6, <3>1, <3>2 DEF TypeOK, Phases
    <3>4. NumbersAgree' /\ StagesAgree'
      <4>1. NumbersAgree'
        BY <1>2, <1>4, <3>2 DEF NumbersAgree
      <4>2. run >= 1 /\ (Named' => Named)
        BY <1>1, <1>2, <1>4, <3>1 DEF Named, StagesAgree
      <4>3. StagesAgree'
        BY <1>2, <1>4, <3>1, <3>2, <4>2 DEF StagesAgree
      <4> QED BY <4>1, <4>3
    <3>5. EventAgrees'
      BY <1>4, <3>1, <3>2, EventKept DEF Past
    <3>6. /\ Call("start", 0) \notin late'
          /\ ArmMayWait' /\ StartMayWait' /\ GenerationMayWait'
      BY <1>1, <1>2, <1>6 DEF LateAgrees, ArmMayWait, StartMayWait, GenerationMayWait
    <3>7. NamesMayWait'
      BY <1>1, <1>2, <1>4, <1>6, <3>1 DEF LateAgrees, NamesMayWait, Named
    <3>8. ActivateMayWait'
      BY <1>6, FreeFacts DEF ActivateMayWait
    <3> QED BY <1>2, <1>6, <3>2, <3>3, <3>4, <3>5, <3>6, <3>7, <3>8 DEF Inductive, LateAgrees
  <2> QED BY <2>2, <2>3
<1> HIDE DEF call
<1> QED BY <1>4, <1>5, <1>6

\* The start is taken back, or the arming.
LEMMA TakeBackStep ==
  ASSUME Inductive, TakeBackStart \/ TakeBackArm
  PROVE  Inductive'
<1>1. PICK s \in {"cancel", "disarm"} :
        /\ UNCHANGED <<run, missionId, granted, stray>>
        /\ \/ phase = "cancel" /\ s = "cancel" /\ phase' = "disarm"
           \/ phase = "disarm" /\ s = "disarm" /\ phase' = "off"
        /\ \/ Execute(Call(s, 0)) /\ late' = late
           \/ /\ UNCHANGED <<detectorVars, followerVars>> /\ LateTyped'
              /\ late' = late \/ (Free(Call(s, 0)) /\ late' = late \cup {Call(s, 0)})
  <2>1. Call("cancel", 0) \in Calls /\ Call("disarm", 0) \in Calls
    BY DEF Calls
  <2>2. CASE TakeBackStart
    BY <2>1, <2>2, StepCases DEF TakeBackStart
  <2>3. CASE TakeBackArm
    BY <2>1, <2>3, StepCases DEF TakeBackArm
  <2> QED BY <2>2, <2>3
<1>2. CASE /\ UNCHANGED <<detectorVars, followerVars>> /\ LateTyped'
           /\ late' = late \/ (Free(Call(s, 0)) /\ late' = late \cup {Call(s, 0)})
  BY <1>1, <1>2, GivenUp
<1>3. CASE Execute(Call(s, 0)) /\ late' = late
  <2>1. /\ Calm /\ UNCHANGED <<colour, missionParameter, generationParameter, generation>>
        /\ DetectorTypeOK' /\ FollowerTypeOK' /\ count' <= frames'
        /\ UNCHANGED <<started, mission, lastStarted, missionGeneration, event>>
    <3>1. Calm /\ UNCHANGED <<colour, missionParameter, generationParameter, generation>>
      BY <1>3, CallFacts, DisarmCalm, CancelCalm DEF Execute
    <3> QED BY <3>1 DEF Calm
  <2>2. phase' \in Past /\ phase' \notin {"activate", "waiting", "cancel"} /\ phase # "off"
    BY <1>1 DEF Past
  <2>3. /\ TypeOK /\ NumbersAgree /\ StagesAgree /\ LateAgrees /\ run \in Nat /\ run >= 1
    BY <2>2, NumberTypes DEF Inductive, StagesAgree
  <2>4. Activated => Activated'
    BY <1>1, <2>1, <2>2 DEF Activated
  <2>5. SightingsAgree' /\ (Unused => Unused')
    BY <1>1, <2>1, <2>4, CalmKeeps
  <2>6. TypeOK'
    BY <1>1, <1>3, <2>1, <2>3 DEF TypeOK, Phases
  <2>7. NumbersAgree'
    BY <1>1, <2>1, <2>3 DEF NumbersAgree
  <2>8. StagesAgree'
    BY <1>1, <2>1, <2>3 DEF StagesAgree, Named
  <2>9. EventAgrees'
    BY <1>1, <2>1, <2>2, EventKept
  <2>10. ArmMayWait'
    BY <1>1, <1>3, <2>3 DEF LateAgrees, ArmMayWait
  <2>11. StartMayWait' /\ GenerationMayWait'
    BY <1>1, <1>3, <2>1, <2>2, <2>3, <2>5 DEF LateAgrees, StartMayWait, GenerationMayWait
  <2>12. NamesMayWait'
    BY <1>1, <1>3, <2>3 DEF LateAgrees, NamesMayWait, Named
  <2>13. ActivateMayWait'
    BY <1>3, <2>1, <2>3, <2>4 DEF LateAgrees, ActivateMayWait
  <2> QED BY <1>3, <2>3, <2>5, <2>6, <2>7, <2>8, <2>9, <2>10, <2>11, <2>12, <2>13
          DEF Inductive, LateAgrees
<1> QED BY <1>1, <1>2, <1>3

LEMMA StopsWaitingStep ==
  ASSUME Inductive, StopsWaiting
  PROVE  Inductive'
<1>1. /\ phase = "waiting" /\ phase' = "off" /\ late' = late
      /\ UNCHANGED <<run, missionId, granted, stray, detectorVars, followerVars>>
  BY DEF StopsWaiting
<1>2. LateTyped'
  BY <1>1, LateKept DEF LateTyped
<1> QED BY <1>1, <1>2, GivenUp

\* The command stays where it is, while a node executes a call that waited: one that
\* starts and activates nothing.
LEMMA CalmStep ==
  ASSUME Inductive, LateTyped', Calm,
         UNCHANGED <<run, missionId, phase, granted, stray, colour, missionParameter,
                     generationParameter, generation>>,
         late' \subseteq late
  PROVE  Inductive'
<1>1. /\ DetectorTypeOK' /\ FollowerTypeOK' /\ count' <= frames'
      /\ UNCHANGED <<started, mission, lastStarted, missionGeneration, event>>
      /\ TypeOK /\ NumbersAgree /\ StagesAgree /\ LateAgrees
  BY DEF Calm, Inductive
<1>2. (Activated => Activated') /\ (Named <=> Named')
  BY <1>1 DEF Activated, Named
<1>3. SightingsAgree' /\ (Unused => Unused')
  BY <1>2, CalmKeeps
<1>4. TypeOK'
  BY <1>1 DEF TypeOK, LateTyped
<1>5. NumbersAgree' /\ StagesAgree'
  BY <1>1, <1>2, <1>3 DEF NumbersAgree, StagesAgree
<1>6. EventAgrees'
  BY <1>1, EventKept
<1>7. LateAgrees'
  <2>1. ArmMayWait' /\ StartMayWait' /\ NamesMayWait'
    BY <1>1, <1>2, <1>3 DEF LateAgrees, ArmMayWait, StartMayWait, NamesMayWait
  <2>2. GenerationMayWait' /\ ActivateMayWait'
    BY <1>1, <1>2 DEF LateAgrees, GenerationMayWait, ActivateMayWait
  <2> QED BY <2>1, <2>2 DEF LateAgrees, LateTyped
<1> QED BY <1>3, <1>4, <1>5, <1>6, <1>7 DEF Inductive

\* omokai-vision cancel.
LEMMA CancelCommandStep ==
  ASSUME Inductive, CancelCommand
  PROVE  Inductive'
<1>1. Cancel /\ UNCHANGED <<detectorVars, run, missionId, phase, granted, late, stray>>
  BY DEF CancelCommand, operatorVars
<1>2. Calm /\ UNCHANGED <<colour, missionParameter, generationParameter, generation>>
  BY <1>1, CancelCalm
<1>3. LateTyped'
  BY <1>1, LateKept DEF LateTyped
<1> QED BY <1>1, <1>2, <1>3, CalmStep

LEMMA StutterStep ==
  ASSUME Inductive, UNCHANGED vars
  PROVE  Inductive'
<1>1. UNCHANGED <<detectorVars, followerVars, run, missionId, phase, granted, late, stray>>
  BY DEF vars, operatorVars
<1>2. Calm /\ UNCHANGED <<colour, missionParameter, generationParameter, generation>>
  BY <1>1, NothingCalm
<1>3. LateTyped'
  BY <1>1, LateKept DEF LateTyped
<1> QED BY <1>1, <1>2, <1>3, CalmStep

-----------------------------------------------------------------------------
(* A call given up on is executed after all.                                *)

\* What holds of all of them.
LateServe(call) ==
  /\ call \in late /\ Execute(call) /\ late' = late \ {call}
  /\ stray' = IF Misdirected(call) THEN stray \cup {generation} ELSE stray
  /\ UNCHANGED <<run, missionId, phase, granted>>

LEMMA Executed ==
  ASSUME NEW s, NEW a, Execute(Call(s, a))
  PROVE  /\ s = "color" => SetColour(a) /\ UNCHANGED followerVars
         /\ s = "mission" => SetMission(a) /\ UNCHANGED detectorVars
         /\ s = "generation" => SetGeneration(a) /\ UNCHANGED detectorVars
         /\ s = "arm" => Arm /\ UNCHANGED followerVars
         /\ s = "start" => Start /\ UNCHANGED detectorVars
         /\ s = "activate" => Activate /\ UNCHANGED followerVars
         /\ s = "cancel" => Cancel /\ UNCHANGED detectorVars
         /\ s = "disarm" => Disarm /\ UNCHANGED followerVars
<1> DEFINE call == Call(s, a)
<1>1. call.service = s /\ call.argument = a /\ Execute(call)
  BY CallFacts
<1> HIDE DEF call
<1> QED BY <1>1 DEF Execute

\* A parameter of this run or of an earlier one, which did not come to arm.
LEMMA LateName ==
  ASSUME Inductive, NEW r \in Run, NEW call \in {Call("color", r), Call("mission", r)},
         LateServe(call)
  PROVE  Inductive'
<1>1. /\ NumbersAgree /\ StagesAgree /\ LateAgrees /\ TypeOK /\ run \in Nat /\ missionParameter \in Nat
      /\ call \in late /\ late' \subseteq late /\ UNCHANGED <<run, missionId, phase, granted>>
  BY NumberTypes DEF Inductive, LateServe
<1>2. LateTyped' /\ stray' = stray
  BY LateServed, CallFacts DEF LateServe, Misdirected
<1>3. /\ Calm /\ UNCHANGED <<generationParameter, generation>>
      /\ missionParameter' = r \/ missionParameter' = missionParameter
  <2>1. SetColour(r) \/ UNCHANGED detectorVars
    BY Executed DEF LateServe
  <2>2. SetMission(r) \/ UNCHANGED followerVars
    BY Executed DEF LateServe
  <2> QED BY <2>1, <2>2, NamesCalm
<1>4. /\ DetectorTypeOK' /\ FollowerTypeOK' /\ count' <= frames'
      /\ UNCHANGED <<started, mission, lastStarted, missionGeneration, event>>
  BY <1>3 DEF Calm
<1>5. ~ Named /\ r <= run /\ r # 0 /\ run >= 1
  BY <1>1, Constants DEF LateAgrees, NamesMayWait, Run
<1>6. (Activated => Activated') /\ (Named <=> Named')
  BY <1>1, <1>4 DEF Activated, Named
<1>7. SightingsAgree' /\ (Unused => Unused')
  BY <1>1, <1>2, <1>3, <1>6, CalmKeeps
<1>8. TypeOK'
  BY <1>1, <1>2, <1>4 DEF TypeOK, LateTyped
<1>9. NumbersAgree'
  BY <1>1, <1>3, <1>4, <1>5, Constants DEF NumbersAgree, Run
<1>10. StagesAgree'
  BY <1>1, <1>3, <1>4, <1>5, <1>6, <1>7 DEF StagesAgree
<1>11. EventAgrees'
  BY <1>1, <1>2, <1>4, EventKept
<1>12. ArmMayWait' /\ NamesMayWait' /\ GenerationMayWait' /\ ActivateMayWait'
  <2>1. ArmMayWait' /\ NamesMayWait'
    BY <1>1, <1>3, <1>6 DEF LateAgrees, ArmMayWait, NamesMayWait
  <2>2. GenerationMayWait' /\ ActivateMayWait'
    BY <1>1, <1>3, <1>4, <1>6 DEF LateAgrees, GenerationMayWait, ActivateMayWait
  <2> QED BY <2>1, <2>2
<1>13. StartMayWait'
  BY <1>1, <1>3, <1>4, <1>5, <1>7 DEF LateAgrees, StartMayWait
<1> QED BY <1>2, <1>7, <1>8, <1>9, <1>10, <1>11, <1>12, <1>13 DEF Inductive, LateAgrees, LateTyped

\* The generation of an earlier run, which did not come to start.
LEMMA LateGeneration ==
  ASSUME Inductive, NEW g \in Generation, LateServe(Call("generation", g))
  PROVE  Inductive'
<1> DEFINE call == Call("generation", g)
<1>1. /\ NumbersAgree /\ StagesAgree /\ LateAgrees /\ TypeOK
      /\ run \in Nat /\ generation \in Nat /\ generationParameter \in Nat /\ lastStarted \in Nat
      /\ g \in Nat /\ g \in 0 .. MaxRuns
      /\ call \in late /\ late' = late \ {call} /\ UNCHANGED <<run, missionId, phase, granted>>
  <2>1. g \in Nat /\ g \in 0 .. MaxRuns
    BY Constants DEF Generation
  <2> QED BY <2>1, NumberTypes DEF Inductive, LateServe
<1>2. LateTyped' /\ stray' = stray
  BY LateServed, CallFacts DEF LateServe, Misdirected
<1>3. Calm /\ generationParameter' = g /\ UNCHANGED <<colour, missionParameter, generation>>
  <2>1. SetGeneration(g) /\ UNCHANGED detectorVars
    BY Executed DEF LateServe
  <2> QED BY <1>1, <2>1, SetGenerationCalm
<1>4. /\ DetectorTypeOK' /\ FollowerTypeOK' /\ count' <= frames'
      /\ UNCHANGED <<started, mission, lastStarted, missionGeneration, event>>
  BY <1>3 DEF Calm
<1>5. /\ phase \notin {"start", "activate", "waiting", "cancel"}
      /\ generationParameter < g /\ g <= generation
      /\ phase = "generation" => g < generation
      /\ \A h \in Generation : Call("generation", h) \in late => h = g
  BY <1>1 DEF LateAgrees, GenerationMayWait
<1>6. (Activated => Activated') /\ (Named <=> Named')
  BY <1>1, <1>4 DEF Activated, Named
<1>7. SightingsAgree' /\ (Unused => Unused')
  BY <1>1, <1>2, <1>3, <1>6, CalmKeeps
<1>8. TypeOK'
  BY <1>1, <1>2, <1>4 DEF TypeOK, LateTyped
<1>9. NumbersAgree'
  BY <1>1, <1>3, <1>4, <1>5 DEF NumbersAgree
<1>10. StagesAgree'
  BY <1>1, <1>3, <1>4, <1>5, <1>6 DEF StagesAgree
<1>11. EventAgrees'
  BY <1>1, <1>2, <1>4, EventKept
<1>12. ArmMayWait' /\ NamesMayWait' /\ ActivateMayWait'
  <2>1. ArmMayWait' /\ NamesMayWait'
    BY <1>1, <1>3, <1>6 DEF LateAgrees, ArmMayWait, NamesMayWait
  <2>2. ActivateMayWait'
    BY <1>1, <1>3, <1>4, <1>6 DEF LateAgrees, ActivateMayWait
  <2> QED BY <2>1, <2>2
<1>13. GenerationMayWait'
  BY <1>1, <1>5 DEF GenerationMayWait
<1>14. StartMayWait'
  BY <1>1, <1>3, <1>4, <1>5, <1>7 DEF LateAgrees, StartMayWait, NumbersAgree
<1> QED BY <1>2, <1>7, <1>8, <1>9, <1>10, <1>11, <1>12, <1>13, <1>14
        DEF Inductive, LateAgrees, LateTyped

\* The detector is armed once more, with nobody to ask for it.
LEMMA LateArm ==
  ASSUME Inductive, LateServe(Call("arm", 0))
  PROVE  Inductive'
<1> DEFINE call == Call("arm", 0)
<1>1. /\ NumbersAgree /\ StagesAgree /\ LateAgrees /\ TypeOK
      /\ run \in Nat /\ generation \in Nat /\ generationParameter \in Nat /\ lastStarted \in Nat
      /\ run <= MaxRuns
      /\ call \in late /\ late' = late \ {call} /\ UNCHANGED <<run, missionId, phase, granted>>
  BY NumberTypes DEF Inductive, LateServe
<1>2. LateTyped' /\ stray' = stray
  BY LateServed, CallFacts DEF LateServe, Misdirected
<1>3. /\ phase \in {"off", "configure", "arm"} /\ generation < run
      /\ phase # "off" => generation + 1 < run
  BY <1>1 DEF LateAgrees, ArmMayWait
<1>4. /\ Calm /\ generation' = generation + 1
      /\ UNCHANGED <<colour, missionParameter, generationParameter>>
  <2>1. Arm /\ UNCHANGED followerVars
    BY Executed DEF LateServe
  <2>2. generation < MaxRuns
    BY <1>1, <1>3, Constants
  <2> QED BY <2>1, <2>2, ArmCalm
<1>5. /\ DetectorTypeOK' /\ FollowerTypeOK' /\ count' <= frames'
      /\ UNCHANGED <<started, mission, lastStarted, missionGeneration, event>>
  BY <1>4 DEF Calm
<1>6. (Activated => Activated') /\ (Named <=> Named')
  BY <1>1, <1>5 DEF Activated, Named
<1>7. SightingsAgree' /\ (Unused => Unused')
  BY <1>1, <1>2, <1>4, <1>6, CalmKeeps
<1>8. TypeOK'
  BY <1>1, <1>2, <1>5 DEF TypeOK, LateTyped
<1>9. NumbersAgree'
  BY <1>1, <1>3, <1>4, <1>5 DEF NumbersAgree
<1>10. StagesAgree'
  BY <1>1, <1>3, <1>4, <1>5, <1>6 DEF StagesAgree
<1>11. EventAgrees'
  BY <1>1, <1>2, <1>5, EventKept
<1>12. ArmMayWait' /\ NamesMayWait'
  BY <1>1, <1>6 DEF LateAgrees, ArmMayWait, NamesMayWait
<1>13. GenerationMayWait'
  BY <1>1, <1>3, <1>4 DEF LateAgrees, GenerationMayWait, Generation
<1>14. ActivateMayWait'
  BY <1>1, <1>4 DEF LateAgrees, ActivateMayWait, Generation
<1>15. StartMayWait'
  BY <1>1, <1>4, <1>5, <1>7 DEF LateAgrees, StartMayWait
<1> QED BY <1>2, <1>7, <1>8, <1>9, <1>10, <1>11, <1>12, <1>13, <1>14, <1>15
        DEF Inductive, LateAgrees, LateTyped

\* The detector is activated, if it is prepared: for the generation the call was
\* meant for, or astray.
LEMMA LateActivate ==
  ASSUME Inductive, NEW g \in Generation, LateServe(Call("activate", g))
  PROVE  Inductive'
<1> DEFINE call == Call("activate", g)
<1>1. /\ NumbersAgree /\ StagesAgree /\ LateAgrees /\ TypeOK
      /\ run \in Nat /\ generation \in Nat /\ lastStarted \in Nat
      /\ call \in late /\ late' = late \ {call} /\ UNCHANGED <<run, missionId, phase, granted>>
  BY NumberTypes DEF Inductive, LateServe
<1>2. /\ LateTyped' /\ Activate /\ UNCHANGED followerVars
      /\ stray' = IF CanActivate /\ g # generation THEN stray \cup {generation} ELSE stray
  <2>1. LateTyped'
    BY LateServed DEF LateServe
  <2>2. Activate /\ UNCHANGED followerVars
    BY Executed DEF LateServe
  <2>3. Misdirected(call) <=> CanActivate /\ g # generation
    BY CallFacts DEF Misdirected
  <2> QED BY <2>1, <2>2, <2>3 DEF LateServe
<1>3. /\ g <= generation
      /\ g = generation => /\ lastStarted = g /\ mission = started /\ Activated
                           /\ Call("start", 0) \notin late
  BY <1>1 DEF LateAgrees, ActivateMayWait
<1>4. CASE ~ CanActivate
  <2>1. UNCHANGED <<detectorVars, followerVars, stray>>
    BY <1>2, <1>4 DEF Activate, detectorVars
  <2>2. Calm /\ UNCHANGED <<colour, missionParameter, generationParameter, generation>>
    BY <2>1, NothingCalm
  <2> QED BY <1>1, <1>2, <2>1, <2>2, CalmStep
<1>5. CASE CanActivate
  <2>1. UNCHANGED <<started, lastStarted, generation>>
    BY <1>2 DEF followerVars, Activate
  <2>2. (Activated => Activated') /\ (Named <=> Named')
    BY <1>1, <2>1 DEF Activated, Named
  <2>3. stray \subseteq stray' /\ (g # generation => generation \in stray')
    BY <1>2, <1>5
  <2>4. /\ DetectorTypeOK' /\ FollowerTypeOK' /\ SightingsAgree' /\ count' <= frames'
        /\ generation \in stray' => (Unused => Unused')
        /\ UNCHANGED <<missionParameter, generationParameter, event, colour, generation,
                       lastStarted, missionGeneration, started, mission>>
    BY <1>1, <1>2, <1>3, <1>5, <2>2, <2>3, ActivateServed
  <2>5. g = generation => phase # "start"
    BY <1>1, <1>3 DEF StagesAgree, Activated, Past
  <2>6. stray' \subseteq Generation
    BY <1>1, <1>2, <1>5, NumberTypes DEF TypeOK, CanActivate
  <2>7. TypeOK'
    BY <1>1, <1>2, <2>4, <2>6 DEF TypeOK, LateTyped
  <2>8. NumbersAgree'
    BY <1>1, <2>4 DEF NumbersAgree
  <2>9. StagesAgree'
    BY <1>1, <2>2, <2>3, <2>4, <2>5 DEF StagesAgree
  <2>10. EventAgrees'
    BY <1>1, <2>3, <2>4, EventKept
  <2>11. ArmMayWait' /\ NamesMayWait' /\ GenerationMayWait'
    <3>1. ArmMayWait' /\ NamesMayWait'
      BY <1>1, <2>2, <2>4 DEF LateAgrees, ArmMayWait, NamesMayWait
    <3>2. GenerationMayWait'
      BY <1>1, <2>4 DEF LateAgrees, GenerationMayWait
    <3> QED BY <3>1, <3>2
  <2>12. StartMayWait'
    BY <1>1, <1>3, <2>3, <2>4 DEF LateAgrees, StartMayWait
  <2>13. ActivateMayWait'
    BY <1>1, <2>2, <2>4 DEF LateAgrees, ActivateMayWait
  <2> QED BY <1>2, <2>4, <2>7, <2>8, <2>9, <2>10, <2>11, <2>12, <2>13
          DEF Inductive, LateAgrees, LateTyped
<1> QED BY <1>4, <1>5

LEMMA LateCallStep ==
  ASSUME Inductive, LateCall
  PROVE  Inductive'
<1>1. PICK call \in late : LateServe(call)
  BY DEF LateCall, LateServe
<1>2. call \in Calls /\ LateTyped'
  BY <1>1, LateServed DEF Inductive, TypeOK, LateServe
<1>3. ASSUME NEW r \in Run, call = Call("color", r) \/ call = Call("mission", r)
      PROVE  Inductive'
  BY <1>1, <1>3, LateName
<1>4. ASSUME NEW g \in Generation, call = Call("generation", g) \/ call = Call("activate", g)
      PROVE  Inductive'
  BY <1>1, <1>4, LateGeneration, LateActivate
<1>5. CASE call = Call("arm", 0)
  BY <1>1, <1>5, LateArm
<1>6. CASE call = Call("start", 0)
  <2>1. Start /\ UNCHANGED <<detectorVars, run, missionId, phase, granted, stray>>
    BY <1>1, <1>6, CallFacts, Executed DEF LateServe, Misdirected
  <2>2. Call("start", 0) \in late /\ Call("start", 0) \notin late' /\ late' \subseteq late
    BY <1>1, <1>6 DEF LateServe
  <2>3. StartMayWait
    BY DEF Inductive, LateAgrees
  <2> QED BY <1>2, <2>1, <2>2, <2>3, StartServed DEF StartMayWait
<1>7. CASE call \in {Call("cancel", 0), Call("disarm", 0)}
  <2>1. Calm /\ UNCHANGED <<colour, missionParameter, generationParameter, generation>>
    BY <1>1, <1>7, Executed, DisarmCalm, CancelCalm DEF LateServe
  <2>2. UNCHANGED <<run, missionId, phase, granted, stray>> /\ late' \subseteq late
    BY <1>1, <1>7, CallFacts DEF LateServe, Misdirected
  <2> QED BY <1>2, <2>1, <2>2, CalmStep
<1> QED BY <1>2, <1>3, <1>4, <1>5, <1>6, <1>7, CallCases

-----------------------------------------------------------------------------
(* The theorems.                                                            *)

LEMMA StepInductive ==
  ASSUME Inductive, [Next]_vars
  PROVE  Inductive'
<1>1. CASE Operator
  BY <1>1, RunCommandStep, ConfigureStep, ArmDetectorStep, PassGenerationStep, StartFollowerStep,
     ActivateDetectorStep, TakeBackStep, StopsWaitingStep, LateCallStep, CancelCommandStep
     DEF Operator
<1>2. CASE (FrameMatches \/ FrameMisses) /\ UNCHANGED <<followerVars, operatorVars>>
  BY <1>2, FrameMatchesStep, FrameMissesStep
<1>3. CASE TargetArrives /\ UNCHANGED operatorVars
  BY <1>3, TargetArrivesStep
<1>4. CASE FollowerStep /\ UNCHANGED <<detectorVars, operatorVars>>
  BY <1>4, TickStep, ProcessPendingStep, SensorStep DEF FollowerStep
<1>5. CASE UNCHANGED vars
  BY <1>5, StutterStep
<1> QED BY <1>1, <1>2, <1>3, <1>4, <1>5 DEF Next

LEMMA InvariantHolds == Spec => []Inductive
<1>1. Init => Inductive
  BY InitInductive
<1>2. Inductive /\ [Next]_vars => Inductive'
  BY StepInductive
<1> QED BY <1>1, <1>2, PTL DEF Spec

\* Type correctness: the queues keep to their depths, no more calls wait than MaxLate
\* allows, and no generation exceeds the number of runs.
THEOREM TypeCorrect == Spec => []TypeOK
<1>1. Inductive => TypeOK
  BY DEF Inductive
<1> QED BY <1>1, InvariantHolds, PTL

\* The robot drives forward only towards a person whom the detector has confirmed
\* for the generation of the mission under way, in the coat that mission asked for
\* unless another run has begun since or the detector was activated astray: no
\* target of an earlier generation, of a mission that was given up or of any call
\* executed late, is ever followed.
THEOREM ForwardStaysSeen == Spec => []ForwardIsSeen
<1>1. Inductive => ForwardIsSeen
  <2> SUFFICES ASSUME Inductive, TickDecision.command = "forward"
               PROVE  /\ fresh /\ ~ near /\ ~ expired
                      /\ observation.target.generation = missionGeneration
                      /\ observation.target.frames >= ConfirmationFrames
                      /\ \/ observation.target.asked = started
                         \/ run > started
                         \/ observation.target.generation \in stray
    BY DEF ForwardIsSeen
  <2>1. \A s : Stay(s).command = "zero"
    BY DEF Stay
  <2>2. HandleLoss.command # "forward"
    <3>1. loss \in {"none", "counting", "over"}
      BY DEF Inductive, TypeOK, FollowerTypeOK
    <3>2. CASE ~ seen
      BY <3>2 DEF HandleLoss, Decision
    <3>3. CASE seen
      BY <3>1, <3>3 DEF HandleLoss, Decision
    <3> QED BY <3>2, <3>3
  <2>3. ~ near /\ TickDecision = Update
    <3>1. CASE ~ Active(state)
      BY <2>1, <3>1 DEF TickDecision, Active
    <3>2. CASE Active(state) /\ state = "searching" /\ scan = "complete"
      BY <2>1, <3>2 DEF TickDecision
    <3>3. CASE Active(state) /\ ~ (state = "searching" /\ scan = "complete")
      <4>1. TickDecision = IF near THEN Stay(state) ELSE Update
        BY <3>3 DEF TickDecision
      <4> QED BY <2>1, <4>1
    <3> QED BY <3>1, <3>2, <3>3
  <2>4. ~ expired /\ observation # NoObservation /\ fresh
    <3>1. CASE expired
      BY <2>1, <2>3, <3>1 DEF Update
    <3>2. CASE ~ expired /\ ~ (observation # NoObservation /\ fresh)
      BY <2>2, <2>3, <3>2 DEF Update
    <3> QED BY <3>1, <3>2
  <2>5. observation.target \in Observed /\ observation.target \in Sighted
    BY <2>4 DEF Observed, Sighted
  <2>6. /\ observation.target.generation = missionGeneration
        /\ Good(observation.target) /\ missionGeneration = lastStarted
    BY <2>5 DEF Inductive, SightingsAgree, NumbersAgree
  <2>7. run \in Nat /\ started \in Nat /\ started <= run
    BY NumberTypes DEF Inductive, NumbersAgree
  <2> QED BY <2>3, <2>4, <2>6, <2>7, Constants DEF Good, Own
<1> QED BY <1>1, InvariantHolds, PTL

\* What is announced is a picture for the generation granted to the run whose mission
\* it names, or for one activated astray; the run that takes it for its own has typed
\* the same mission id.
THEOREM AcquiredStaysReal == Spec => []AcquiredIsReal
<1>1. Inductive => AcquiredIsReal
  BY DEF Inductive, EventAgrees, AcquiredIsReal
<1> QED BY <1>1, InvariantHolds, PTL
=============================================================================
