------------------------ MODULE SquadMission_proofs ------------------------
(***************************************************************************)
(* What holds of a squad's missions, for any set of robots.                 *)
(*                                                                          *)
(* First the lifecycle: whatever a caller does with it, the phases archived *)
(* are those of the plan, in order, each complete before the next, with no  *)
(* robot left active.  The place of the phase under way in the plan is a    *)
(* function of the state; PlaceInv says which, and is what makes            *)
(* PhasesInOrder inductive.                                                 *)
(*                                                                          *)
(* Then the mission: it is one of the callers that the lifecycle allows,    *)
(* and CallsInv says what the calls it has still to make will do.  Those    *)
(* that end a phase settle every robot that is active, each once, and are   *)
(* in an order the lifecycle accepts; the function ends, fixed when they    *)
(* are drawn up, is how the robots will have ended once they are made, and  *)
(* it explains the terminal state to come.                                  *)
(***************************************************************************)
EXTENDS SquadMission, TLAPS

\* Place of a phase in the plan.
Place(phase) ==
  CASE phase = "forming" -> 1
    [] phase = "formation_moving" -> 2
    [] phase = "executing_split" -> 3
    [] phase = "regrouping" -> IF plan.split THEN 4 ELSE 3

Wanted(phase) ==
  /\ phase = "executing_split" => plan.split
  /\ phase = "regrouping" => plan.regroup

\* What the state says of the phase under way.
StateInv ==
  /\ state \in ActivePhase => current # NoPhase /\ current.phase = state
  /\ current # NoPhase => state \in ActivePhase \cup {"cancelling"}
  /\ state = "cancelling" => current # NoPhase /\ target # None

\* How many phases are archived.
PlaceInv ==
  /\ current # NoPhase =>
       Len(history) + 1 = Place(current.phase) /\ Wanted(current.phase)
  /\ state \in {"idle", "validated"} => Len(history) = 0
  /\ state = "splitting" => Len(history) = 2 /\ plan.split

LifecycleInv ==
  /\ LifecycleTypeOK
  /\ StateInv
  /\ PlaceInv
  /\ PhasesInOrder
  /\ BarriersHeld

-----------------------------------------------------------------------------
(* Facts about the operators.                                               *)

\* A plan that wants a phase has it at its place, and none is past the end.
LEMMA RequiredAtPlace ==
  ASSUME plan \in Plan
  PROVE  /\ Len(Required) \in Nat
         /\ Len(Required) >= 2
         /\ plan.split => Len(Required) >= 3
         /\ \A phase \in ActivePhase : Wanted(phase) =>
              /\ Place(phase) \in 1 .. Len(Required)
              /\ Required[Place(phase)] = phase
         /\ \A phase \in ActivePhase : Wanted(phase) /\ LastPhase(phase) =>
              Place(phase) = Len(Required)
<1>1. CASE plan.split /\ plan.regroup
  <2>1. Required = <<"forming", "formation_moving", "executing_split", "regrouping">>
    BY <1>1 DEF Required
  <2> QED  BY <1>1, <2>1 DEF Place, Wanted, ActivePhase, LastPhase
<1>2. CASE plan.split /\ ~plan.regroup
  <2>1. Required = <<"forming", "formation_moving", "executing_split">>
    BY <1>2 DEF Required
  <2> QED  BY <1>2, <2>1 DEF Place, Wanted, ActivePhase, LastPhase
<1>3. CASE ~plan.split /\ plan.regroup
  <2>1. Required = <<"forming", "formation_moving", "regrouping">>
    BY <1>3 DEF Required
  <2> QED  BY <1>3, <2>1 DEF Place, Wanted, ActivePhase, LastPhase
<1>4. CASE ~plan.split /\ ~plan.regroup
  <2>1. Required = <<"forming", "formation_moving">>
    BY <1>4 DEF Required
  <2> QED  BY <1>4, <2>1 DEF Place, Wanted, ActivePhase, LastPhase
<1> QED  BY <1>1, <1>2, <1>3, <1>4 DEF Plan

LEMMA NoPhaseIsNoRecord == \A p \in PhaseRecord : p # NoPhase
BY DEF PhaseRecord, NoPhase, ActivePhase, None

\* A barrier is complete only for a phase under way.
LEMMA BarrierNeedsPhase ==
  ASSUME LifecycleTypeOK, BarrierComplete
  PROVE  current # NoPhase /\ current \in PhaseRecord /\ Archived = Append(history, current)
<1>1. PICK r \in Robot : TRUE
  BY RobotsAssumption DEF Robot
<1>2. current.outcome[r] = "succeeded"
  BY <1>1 DEF BarrierComplete, Succeeded, All
<1> QED  BY <1>1, <1>2 DEF NoPhase, All, None, LifecycleTypeOK, Archived

-----------------------------------------------------------------------------
(* Steps.                                                                   *)

\* A step that archives nothing and leaves the phase under way.
LEMMA SameHistory ==
  ASSUME LifecycleInv, UNCHANGED <<plan, history>>,
         current' \in PhaseRecord \cup {NoPhase},
         current' = NoPhase <=> current = NoPhase,
         current'.phase = current.phase,
         state' \in SquadState,
         state' = state \/ (state \notin Terminal /\ state' # "succeeded"),
         current = NoPhase \/ state' \in {current.phase, "cancelling"},
         state' \in {"idle", "validated", "splitting"} =>
           current = NoPhase /\ (state' = state \/ (state' = "validated" /\ state = "idle")),
         state' \in ActivePhase \cup {"cancelling"} => current # NoPhase,
         target' \in (Terminal \ {"succeeded"}) \cup {None},
         state' = "cancelling" => target' # None
  PROVE  LifecycleInv'
<1>1. LifecycleTypeOK'
  BY DEF LifecycleInv, LifecycleTypeOK
<1>2. StateInv'
  BY NoPhaseIsNoRecord DEF LifecycleInv, LifecycleTypeOK, StateInv, PhaseRecord, ActivePhase
<1>3. PlaceInv'
  BY DEF LifecycleInv, PlaceInv, Place, Wanted
<1>4. PhasesInOrder'
  BY DEF LifecycleInv, PhasesInOrder, Required
<1>5. BarriersHeld'
  BY DEF LifecycleInv, BarriersHeld, Required, Terminal
<1> QED  BY <1>1, <1>2, <1>3, <1>4, <1>5 DEF LifecycleInv

\* A step that archives the phase under way and puts the next in its place.
LEMMA PhaseArchived ==
  ASSUME LifecycleInv, NEW done \in PhaseRecord, current # NoPhase,
         UNCHANGED plan,
         done.phase = current.phase,
         history' = Append(history, done),
         state \notin Terminal,
         Succeeded(done.outcome)
           \/ (state' \in Terminal \ {"succeeded"} /\ current' = NoPhase),
         state' = "succeeded" => LastPhase(current.phase),
         state' \in SquadState \ {"idle", "validated", "cancelling"},
         current' = NoPhase <=> state' \notin ActivePhase,
         state' \in ActivePhase =>
           /\ current' \in PhaseRecord
           /\ current'.phase = state'
           /\ Wanted(state')
           /\ Place(state') = Place(current.phase) + 1,
         state' = "splitting" => plan.split /\ current.phase = "formation_moving",
         target' \in (Terminal \ {"succeeded"}) \cup {None}
  PROVE  LifecycleInv'
<1> DEFINE n == Len(history)
<1>1. /\ history \in Seq(PhaseRecord)
      /\ n \in Nat
      /\ Len(history') = n + 1
      /\ \A i \in 1 .. n : history'[i] = history[i]
      /\ history'[n + 1] = done
  BY DEF LifecycleInv, LifecycleTypeOK
<1>2. /\ plan \in Plan
      /\ current \in PhaseRecord
      /\ current.phase \in ActivePhase
      /\ n + 1 = Place(current.phase)
      /\ Wanted(current.phase)
  BY DEF LifecycleInv, LifecycleTypeOK, PlaceInv, PhaseRecord
<1>3. Required' = Required /\ \A phase : Place(phase)' = Place(phase) /\ Wanted(phase)' = Wanted(phase)
  BY DEF Required, Place, Wanted
<1>4. LifecycleTypeOK'
  <2>1. history' \in Seq(PhaseRecord)
    BY <1>1
  <2>2. current' \in PhaseRecord \cup {NoPhase}
    OBVIOUS
  <2> QED  BY <1>2, <2>1, <2>2 DEF LifecycleTypeOK
<1>5. StateInv'
  BY DEF StateInv, ActivePhase, SquadState
<1>6. PlaceInv'
  <2>1. current' # NoPhase => n + 2 = Place(current'.phase) /\ Wanted(current'.phase)
    BY <1>1, <1>2
  <2>2. state' = "splitting" => n + 1 = 2
    BY <1>2 DEF Place
  <2> QED  BY <1>1, <1>3, <2>1, <2>2 DEF PlaceInv
<1>7. PhasesInOrder'
  <2>1. n + 1 <= Len(Required) /\ Required[n + 1] = current.phase
    BY <1>2, RequiredAtPlace
  <2>2. \A i \in 1 .. n + 1 : history'[i].phase = Required[i]
    BY <1>1, <2>1 DEF LifecycleInv, PhasesInOrder
  <2>3. current' # NoPhase => n + 1 < Len(Required) /\ current'.phase = Required[n + 2]
    BY <1>1, <1>2, RequiredAtPlace
  <2> QED  BY <1>1, <1>2, <1>3, <2>1, <2>2, <2>3, RequiredAtPlace DEF PhasesInOrder
<1>8. BarriersHeld'
  <2>1. \A i \in 1 .. n : Succeeded(history'[i].outcome)
    BY <1>1 DEF LifecycleInv, BarriersHeld
  <2>2. state' \notin Terminal \/ state' = "succeeded" => Succeeded(history'[n + 1].outcome)
    BY <1>1
  <2>3. state' = "succeeded" => n + 1 = Len(Required)
    BY <1>2, RequiredAtPlace
  <2> QED  BY <1>1, <1>3, <2>1, <2>2, <2>3 DEF BarriersHeld, Succeeded
<1> QED  BY <1>4, <1>5, <1>6, <1>7, <1>8 DEF LifecycleInv

\* A robot's outcome is replaced; the state stays or becomes "cancelling".
LEMMA ReplacedIsSame ==
  ASSUME LifecycleInv, NEW r \in Robot, NEW o \in RobotOutcome,
         ReplaceOutcome(r, o), UNCHANGED <<plan, history>>,
         state \in ActivePhase \cup {"cancelling"},
         state' \in {state, "cancelling"},
         target' \in (Terminal \ {"succeeded"}) \cup {None},
         state' = "cancelling" => target' # None
  PROVE  LifecycleInv'
<1>1. current # NoPhase /\ current \in PhaseRecord
  BY DEF LifecycleInv, StateInv, LifecycleTypeOK
<1>2. current' \in PhaseRecord /\ current'.phase = current.phase
  BY <1>1 DEF ReplaceOutcome, PhaseRecord
<1>3. current' # NoPhase
  BY <1>2, NoPhaseIsNoRecord
<1>4. state \in ActivePhase => current.phase = state
  BY DEF LifecycleInv, StateInv
<1> QED
  BY <1>1, <1>2, <1>3, <1>4, SameHistory DEF Terminal, ActivePhase, SquadState

LEMMA InitHolds == LifecycleInit => LifecycleInv
<1> SUFFICES ASSUME LifecycleInit PROVE LifecycleInv
  OBVIOUS
<1>1. LifecycleTypeOK
  BY DEF LifecycleInit, LifecycleTypeOK, SquadState
<1>2. StateInv /\ PlaceInv
  BY DEF LifecycleInit, StateInv, PlaceInv, ActivePhase
<1>3. PhasesInOrder
  BY RequiredAtPlace DEF LifecycleInit, PhasesInOrder
<1>4. BarriersHeld
  BY DEF LifecycleInit, BarriersHeld
<1> QED  BY <1>1, <1>2, <1>3, <1>4 DEF LifecycleInv

\* One step per method.
LEMMA StepHolds ==
  ASSUME LifecycleInv, [LifecycleNext]_lifecycleVars
  PROVE  LifecycleInv'
<1> USE DEF ActivePhase, Terminal
<1>0. LifecycleTypeOK /\ StateInv
  BY DEF LifecycleInv
<1>1. CASE Accept
  BY <1>0, <1>1, SameHistory DEF Accept, MayAccept, LifecycleTypeOK, SquadState, StateInv
<1>2. ASSUME NEW phase \in ActivePhase, StartPhase(phase) PROVE LifecycleInv'
  <2>1. current' \in PhaseRecord /\ current'.phase = phase /\ current' # NoPhase
    <3>1. [r \in Robot |-> "active"] \in [Robot -> RobotOutcome]
      BY DEF RobotOutcome
    <3> QED  BY <1>2, <3>1, NoPhaseIsNoRecord DEF StartPhase, MayStartPhase, PhaseRecord, All
  <2>2. Wanted(phase)
    BY <1>2 DEF StartPhase, MayStartPhase, Expected, Wanted, LifecycleInv, PlaceInv
  <2>3. CASE current = NoPhase
    <3>1. \/ state = "validated" /\ phase = "forming"
          \/ state = "splitting" /\ phase = "executing_split"
      BY <1>0, <1>2, <2>3 DEF StartPhase, MayStartPhase, Expected, StateInv
    <3>2. history' = history /\ state' = phase /\ UNCHANGED <<plan, target>>
      BY <1>2, <2>3 DEF StartPhase, MayStartPhase, Archived
    <3>3. Len(history) + 1 = Place(phase)
      <4>1. state = "validated" => Len(history) = 0
        BY DEF LifecycleInv, PlaceInv
      <4>2. state = "splitting" => Len(history) = 2
        BY DEF LifecycleInv, PlaceInv
      <4>3. (phase = "forming" => Place(phase) = 1) /\ (phase = "executing_split" => Place(phase) = 3)
        BY DEF Place
      <4>4. CASE state = "validated" /\ phase = "forming"
        BY <4>1, <4>3, <4>4
      <4>5. CASE state = "splitting" /\ phase = "executing_split"
        <5>1. Len(history) = 2 /\ Place(phase) = 3
          BY <4>2, <4>3, <4>5
        <5> QED  BY <5>1
      <4> QED  BY <3>1, <4>4, <4>5
    <3>4. LifecycleTypeOK'
      BY <1>0, <2>1, <3>2 DEF LifecycleTypeOK, SquadState
    <3>5. StateInv' /\ PlaceInv'
      BY <2>1, <2>2, <3>1, <3>2, <3>3 DEF StateInv, PlaceInv, Place, Wanted
    <3>6. PhasesInOrder'
      <4>1. Place(phase) <= Len(Required) /\ Required[Place(phase)] = phase
        BY <1>0, <2>2, RequiredAtPlace DEF LifecycleTypeOK
      <4> QED
        BY <1>0, <2>1, <3>2, <3>3, <4>1, RequiredAtPlace
        DEF LifecycleInv, LifecycleTypeOK, PhasesInOrder, Required
    <3>7. BarriersHeld'
      BY <3>1, <3>2 DEF LifecycleInv, BarriersHeld
    <3> QED  BY <3>4, <3>5, <3>6, <3>7 DEF LifecycleInv
  <2>4. CASE BarrierComplete
    <3>1. current # NoPhase /\ current \in PhaseRecord /\ Archived = Append(history, current)
      BY <1>0, <2>4, BarrierNeedsPhase
    <3>2. /\ history' = Append(history, current)
          /\ state' = phase
          /\ UNCHANGED <<plan, target>>
          /\ state \in {"forming", "formation_moving", "executing_split"}
          /\ current.phase = state
      BY <1>0, <1>2, <3>1 DEF StartPhase, MayStartPhase, Expected, StateInv
    <3>3. Place(phase) = Place(current.phase) + 1
      <4>1. Wanted(current.phase) /\ Expected(phase)
        BY <1>2, <3>1 DEF StartPhase, MayStartPhase, LifecycleInv, PlaceInv
      <4>2. CASE state = "forming"
        BY <3>2, <4>1, <4>2 DEF Expected, Place
      <4>3. CASE state = "formation_moving"
        BY <3>2, <4>1, <4>3 DEF Expected, Place
      <4>4. CASE state = "executing_split"
        BY <3>2, <4>1, <4>4 DEF Expected, Place, Wanted
      <4> QED  BY <3>2, <4>2, <4>3, <4>4
    <3> QED
      BY <1>0, <2>1, <2>2, <2>4, <3>1, <3>2, <3>3, PhaseArchived
      DEF SquadState, BarrierComplete, LifecycleTypeOK
  <2> QED  BY <1>2, <2>3, <2>4 DEF StartPhase, MayStartPhase
<1>3. CASE PrepareSplit
  <2>1. current # NoPhase /\ current \in PhaseRecord /\ Archived = Append(history, current)
    BY <1>0, <1>3, BarrierNeedsPhase DEF PrepareSplit, MayPrepareSplit
  <2>2. /\ history' = Append(history, current) /\ state' = "splitting"
        /\ current' = NoPhase /\ plan.split /\ Succeeded(current.outcome)
        /\ current.phase = "formation_moving" /\ state = "formation_moving"
        /\ UNCHANGED <<plan, target>>
    BY <1>0, <1>3, <2>1 DEF PrepareSplit, MayPrepareSplit, StateInv, BarrierComplete
  <2> QED
    BY <1>0, <2>1, <2>2, PhaseArchived DEF SquadState, LifecycleTypeOK
<1>4. CASE FinishSuccess
  <2>1. current # NoPhase /\ current \in PhaseRecord /\ Archived = Append(history, current)
    BY <1>0, <1>4, BarrierNeedsPhase DEF FinishSuccess, MayFinishSuccess
  <2>2. /\ history' = Append(history, current) /\ state' = "succeeded"
        /\ current' = NoPhase /\ Succeeded(current.outcome)
        /\ LastPhase(current.phase) /\ current.phase = state
        /\ state \in ActivePhase
        /\ UNCHANGED <<plan, target>>
    BY <1>0, <1>4, <2>1
    DEF FinishSuccess, MayFinishSuccess, StateInv, BarrierComplete, LastPhase
  <2> QED
    BY <1>0, <2>1, <2>2, PhaseArchived DEF SquadState, LifecycleTypeOK
<1>5. ASSUME NEW r \in Robot, RecordSuccess(r) PROVE LifecycleInv'
  BY <1>0, <1>5, ReplacedIsSame
  DEF RecordSuccess, MayRecord, IsActive, RobotOutcome, LifecycleTypeOK
<1>6. ASSUME NEW r \in Robot, RecordCancelled(r) PROVE LifecycleInv'
  BY <1>0, <1>6, ReplacedIsSame
  DEF RecordCancelled, MayResolve, IsActive, RobotOutcome, LifecycleTypeOK, StateInv
<1>7. ASSUME NEW r \in Robot, RecordCancellationFailed(r) PROVE LifecycleInv'
  BY <1>0, <1>7, ReplacedIsSame
  DEF RecordCancellationFailed, MayResolve, IsActive, RobotOutcome, LifecycleTypeOK, StateInv, None
<1>8. ASSUME NEW r \in Robot, NEW o \in Failure, RecordFailure(r, o) PROVE LifecycleInv'
  BY <1>0, <1>8, ReplacedIsSame
  DEF RecordFailure, MayRecord, IsActive, RobotOutcome, Failure, None
<1>9. CASE RequestCancel
  <2>1. CASE current = NoPhase
    BY <1>0, <1>9, <2>1, SameHistory
    DEF RequestCancel, MayRequestCancel, LifecycleTypeOK, StateInv, SquadState, None
  <2>2. CASE current # NoPhase
    BY <1>0, <1>9, <2>2, SameHistory
    DEF RequestCancel, MayRequestCancel, LifecycleTypeOK, StateInv, SquadState, None
  <2> QED  BY <2>1, <2>2
<1>10. CASE RequestTimeout
  BY <1>0, <1>10, SameHistory
  DEF RequestTimeout, MayRequestTimeout, LifecycleTypeOK, StateInv, SquadState, None
<1>11. CASE FinishCancellation
  <2>1. current # NoPhase /\ current \in PhaseRecord /\ target \in Terminal \ {"succeeded"}
    BY <1>0, <1>11
    DEF FinishCancellation, MayFinishCancellation, IsActive, StateInv, LifecycleTypeOK
  <2>2. /\ history' = Append(history, current) /\ state' = target
        /\ current' = NoPhase /\ target' = None /\ state = "cancelling"
        /\ UNCHANGED plan
    BY <1>11, <2>1 DEF FinishCancellation, MayFinishCancellation, IsActive, Archived
  <2> QED  BY <1>0, <2>1, <2>2, PhaseArchived DEF SquadState
<1>12. ASSUME NEW outcomes \in [Robot -> RobotOutcome], FinishPartialSplit(outcomes)
       PROVE  LifecycleInv'
  <2> DEFINE done == [current EXCEPT !.outcome = outcomes]
  <2>1. current # NoPhase /\ current \in PhaseRecord /\ state = "executing_split"
    BY <1>0, <1>12 DEF FinishPartialSplit, PartialSplitFinishes, StateInv, LifecycleTypeOK
  <2>2. done \in PhaseRecord /\ done.phase = current.phase /\ done.outcome = outcomes
    BY <2>1 DEF PhaseRecord
  <2>3. /\ history' = Append(history, done) /\ state' \in {"timed_out", "failed"}
        /\ current' = NoPhase /\ UNCHANGED <<plan, target>>
    BY <1>12, <2>2 DEF FinishPartialSplit
  <2> HIDE DEF done
  <2> QED  BY <1>0, <2>1, <2>2, <2>3, PhaseArchived DEF SquadState, LifecycleTypeOK
<1>13. ASSUME NEW outcomes \in [Robot -> RobotOutcome], FinishPartialSplitRaises(outcomes)
       PROVE  LifecycleInv'
  <2>1. current # NoPhase /\ current \in PhaseRecord /\ state = "executing_split" /\ current.phase = state
    BY <1>0, <1>13 DEF FinishPartialSplitRaises, StateInv, LifecycleTypeOK
  <2>2. ReplacedUpToResolved(outcomes) \in [Robot -> RobotOutcome]
    BY <2>1 DEF ReplacedUpToResolved, PhaseRecord
  <2>3. current' \in PhaseRecord /\ current'.phase = current.phase /\ current' # NoPhase
    BY <1>13, <2>1, <2>2, NoPhaseIsNoRecord DEF FinishPartialSplitRaises, PhaseRecord
  <2> QED
    BY <1>0, <1>13, <2>1, <2>3, SameHistory
    DEF FinishPartialSplitRaises, LifecycleTypeOK, SquadState
<1>14. CASE UNCHANGED lifecycleVars
  BY <1>0, <1>14, SameHistory DEF lifecycleVars, LifecycleTypeOK, StateInv
<1> QED
  BY <1>1, <1>2, <1>3, <1>4, <1>5, <1>6, <1>7, <1>8, <1>9, <1>10, <1>11, <1>12, <1>13, <1>14
  DEF LifecycleNext, PhaseCall, StopCall, SplitCall, RobotCall

-----------------------------------------------------------------------------
(* Theorems.                                                                *)

\* For every caller and whatever outcomes it gives, the phases archived are the
\* plan's first, in their order, each behind the barrier of the one before: the
\* inductive invariant (lifecycle.py:104-363).
THEOREM LifecycleInvariance == LifecycleSpec => []LifecycleInv
<1>1. LifecycleInit => LifecycleInv
  BY InitHolds
<1>2. LifecycleInv /\ [LifecycleNext]_lifecycleVars => LifecycleInv'
  BY StepHolds
<1> QED  BY <1>1, <1>2, PTL DEF LifecycleSpec

\* The part of TypeOK that is the mission's own.
MissionTypeOK ==
  /\ pc \in PC
  /\ calls \in Seq(Call)
  /\ cancelFlag \in BOOLEAN
  /\ resultFile \in SquadState \cup {None}

-----------------------------------------------------------------------------
(* The calls are well formed.                                               *)

LEMMA ForEachIsCalls ==
  ASSUME NEW method \in {"record_success", "record_cancelled", "record_cancellation_failed"},
         NEW S
  PROVE  ForEach(method, S) \in Seq(Call)
<1>1. RobotIds \in Seq(Robot)
  BY RobotsAssumption
<1>2. \A i \in DOMAIN RobotIds : RobotIds[i] \in Robot
  BY <1>1
<1>3. \A r \in Robot : To(method, r) \in Call
  BY DEF To, Call
<1>4. To("none", None) \in Call
  BY DEF To, Call
<1>5. \A i \in 1 .. Len(RobotIds) :
        (IF RobotIds[i] \in S THEN To(method, RobotIds[i]) ELSE To("none", None)) \in Call
  BY <1>1, <1>2, <1>3, <1>4
<1> QED  BY <1>1, <1>5 DEF ForEach

LEMMA PlainCall ==
  ASSUME NEW method \in {"accept", "prepare_split", "request_cancel", "request_timeout",
                         "finish_cancellation", "finish_success"}
  PROVE  <<To(method, None)>> \in Seq(Call)
<1>1. To(method, None) \in Call
  BY DEF To, Call
<1> QED  BY <1>1

LEMMA BatchIsCalls ==
  ASSUME NEW batch
  PROVE  ApplyNavigationBatch(batch) \in Seq(Call)
<1>1. RecordPrimary(batch) \in Seq(Call) \/ ~ \E r \in Robot : batch[r] \in PrimaryFailure
  <2>1. ASSUME \E r \in Robot : batch[r] \in PrimaryFailure
        PROVE  RecordPrimary(batch) \in Seq(Call)
    <3> DEFINE r == CHOOSE s \in Robot : batch[s] \in PrimaryFailure
               as == IF batch[r] = "timed_out" THEN "timed_out" ELSE "failed"
    <3>1. r \in Robot
      BY <2>1
    <3>2. as \in Failure
      BY DEF Failure
    <3> HIDE DEF r, as
    <3>3. [method |-> "record_failure", of |-> r, as |-> as] \in Call
      BY <3>1, <3>2 DEF Call
    <3>4. <<[method |-> "record_failure", of |-> r, as |-> as]>> \in Seq(Call)
      BY <3>3
    <3> QED  BY <3>4 DEF RecordPrimary, r, as
  <2> QED  BY <2>1
<1> DEFINE stops == IF \E r \in Robot : batch[r] \in PrimaryFailure
                    THEN RecordPrimary(batch) ELSE <<To("request_cancel", None)>>
           a == ForEach("record_success", With(batch, "succeeded"))
           b == ForEach("record_cancelled", With(batch, "cancelled"))
           c == ForEach("record_cancellation_failed", With(batch, "cancel_failed"))
           d == <<To("finish_cancellation", None)>>
<1>2. stops \in Seq(Call)
  BY <1>1, PlainCall
<1>3. a \in Seq(Call) /\ b \in Seq(Call) /\ c \in Seq(Call) /\ d \in Seq(Call)
  BY ForEachIsCalls, PlainCall
<1>4. ForEach("record_success", Robot) \in Seq(Call)
  BY ForEachIsCalls
<1> HIDE DEF stops, a, b, c, d
<1>5. a \o stops \o b \o c \o d \in Seq(Call)
  BY <1>2, <1>3
<1> QED  BY <1>4, <1>5 DEF ApplyNavigationBatch, stops, a, b, c, d

LEMMA SplitIsCalls ==
  ASSUME NEW batch
  PROVE  ApplySplitResult(batch) \in Seq(Call)
<1> DEFINE outcomes == [r \in Robot |-> SplitOutcome(batch[r])]
<1>1. outcomes \in [Robot -> RobotOutcome \ {"active"}]
  BY DEF SplitOutcome, RobotOutcome
<1> HIDE DEF outcomes
<1>2. To("finish_partial_split", outcomes) \in Call
  BY <1>1 DEF To, Call
<1>3. <<To("finish_partial_split", outcomes)>> \in Seq(Call)
  BY <1>2
<1> QED  BY <1>3, ForEachIsCalls DEF ApplySplitResult, outcomes

LEMMA PhaseIsCalls ==
  ASSUME NEW phase \in ActivePhase
  PROVE  (IF phase = "executing_split" THEN <<To("prepare_split", None)>> ELSE <<>>)
           \o <<To("start_phase", phase)>> \in Seq(Call)
<1>1. To("start_phase", phase) \in Call
  BY DEF To, Call
<1>2. <<To("start_phase", phase)>> \in Seq(Call)
  BY <1>1
<1>3. (IF phase = "executing_split" THEN <<To("prepare_split", None)>> ELSE <<>>) \in Seq(Call)
  BY PlainCall
<1> QED  BY <1>2, <1>3

LEMMA TimeoutIsCalls == UndispatchedTimeout \in Seq(Call)
<1>1. /\ <<To("request_timeout", None)>> \in Seq(Call)
      /\ ForEach("record_cancelled", Robot) \in Seq(Call)
      /\ <<To("finish_cancellation", None)>> \in Seq(Call)
  BY ForEachIsCalls, PlainCall
<1> QED  BY <1>1 DEF UndispatchedTimeout

-----------------------------------------------------------------------------
(* Steps.                                                                   *)

\* The call made is one the lifecycle has.
LEMMA PerformIsLifecycleStep ==
  ASSUME NEW c \in Call, Perform(c)
  PROVE  [LifecycleNext]_lifecycleVars
<1>1. CASE c.method \in {"none", "accept", "prepare_split", "request_cancel",
                         "request_timeout", "finish_cancellation", "finish_success"}
  BY <1>1 DEF Perform, LifecycleNext, PhaseCall, StopCall
<1>2. CASE c.method = "start_phase"
  <2>1. c.of \in ActivePhase
    BY <1>2 DEF Call
  <2> QED  BY <1>2, <2>1 DEF Perform, LifecycleNext, PhaseCall
<1>3. CASE c.method \in {"record_success", "record_cancelled", "record_cancellation_failed"}
  <2>1. c.of \in Robot
    BY <1>3 DEF Call
  <2> QED  BY <1>3, <2>1 DEF Perform, LifecycleNext, RobotCall
<1>4. CASE c.method = "record_failure"
  <2>1. c.of \in Robot /\ c.as \in Failure
    BY <1>4 DEF Call
  <2> QED  BY <1>4, <2>1 DEF Perform, LifecycleNext, RobotCall
<1>5. CASE c.method = "finish_partial_split"
  <2>1. c.of \in [Robot -> RobotOutcome \ {"active"}]
    BY <1>5 DEF Call
  <2> QED  BY <1>5, <2>1 DEF Perform, LifecycleNext, SplitCall
<1> QED  BY <1>1, <1>2, <1>3, <1>4, <1>5 DEF Perform

\* Every step of a mission is a step of the lifecycle or leaves it alone.
LEMMA MissionStep ==
  ASSUME calls \in Seq(Call), [Next]_vars
  PROVE  [LifecycleNext]_lifecycleVars
<1>1. CASE Return
  <2>1. Head(calls) \in Call
    BY <1>1 DEF Return
  <2> QED  BY <1>1, <2>1, PerformIsLifecycleStep DEF Return
<1>2. CASE Raise
  <2>1. Head(calls) \in Call
    BY <1>2 DEF Raise
  <2>2. CASE Head(calls).method = "finish_partial_split"
    <3>1. Head(calls).of \in [Robot -> RobotOutcome \ {"active"}]
      BY <2>1, <2>2 DEF Call
    <3> QED  BY <1>2, <2>2, <3>1 DEF Raise, LifecycleNext, SplitCall
  <2> QED  BY <1>2, <2>2 DEF Raise
<1>3. CASE UNCHANGED vars
  BY <1>3 DEF vars
<1>4. CASE CancelService \/ Done
  BY <1>4 DEF CancelService, Done, vars
<1>5. CASE AcceptPlan \/ BeginPhase \/ OutOfTime \/ Navigate \/ FinishMission \/ WriteResult
  BY <1>5
  DEF AcceptPlan, BeginPhase, OutOfTime, Navigate, FinishMission, WriteResult, Continue
<1>6. CASE NavigationEnds
  BY <1>6
  DEF NavigationEnds, ExecuteReturns, ExecuteFormationReturns, ExecuteSplitReturns,
      NavigationRaises, Continue
<1> QED  BY <1>1, <1>2, <1>3, <1>4, <1>5, <1>6 DEF Next, Step

\* A call of a mission archives only a phase whose robots' ends are known.
LEMMA PerformResolves ==
  ASSUME LifecycleTypeOK, NothingLeftActive, NEW c \in Call, Perform(c)
  PROVE  NothingLeftActive'
<1> DEFINE Known(h) == \A i \in 1 .. Len(h) : \A r \in Robot : h[i].outcome[r] # "active"
<1>1. history \in Seq(PhaseRecord) /\ Known(history)
  BY DEF LifecycleTypeOK, NothingLeftActive
<1>2. ASSUME NEW done \in PhaseRecord, \A r \in Robot : done.outcome[r] # "active"
      PROVE  Known(Append(history, done))
  BY <1>1, <1>2
<1>3. ASSUME BarrierComplete PROVE Known(Archived)
  <2>1. \A r \in Robot : current.outcome[r] # "active"
    BY <1>3 DEF BarrierComplete, Succeeded, All
  <2> QED  BY <1>2, <1>3, <2>1, BarrierNeedsPhase
<1>4. ASSUME history' = history \/ Known(history') PROVE NothingLeftActive'
  BY <1>1, <1>4 DEF NothingLeftActive
<1>5. CASE c.method = "start_phase"
  <2>1. current = NoPhase => Archived = history
    BY DEF Archived
  <2> QED  BY <1>3, <1>4, <1>5, <2>1 DEF Perform, StartPhase, MayStartPhase
<1>6. CASE c.method = "prepare_split"
  BY <1>3, <1>4, <1>6 DEF Perform, PrepareSplit, MayPrepareSplit
<1>7. CASE c.method = "finish_success"
  BY <1>3, <1>4, <1>7 DEF Perform, FinishSuccess, MayFinishSuccess
<1>8. CASE c.method = "finish_cancellation"
  <2>1. /\ history' = Archived
        /\ current # NoPhase => \A r \in Robot : current.outcome[r] # "active"
    BY <1>8 DEF Perform, FinishCancellation, MayFinishCancellation, IsActive
  <2>2. CASE current = NoPhase
    BY <1>4, <2>1, <2>2 DEF Archived
  <2>3. CASE current # NoPhase
    BY <1>2, <1>4, <2>1, <2>3 DEF Archived, LifecycleTypeOK
  <2> QED  BY <2>2, <2>3
<1>9. CASE c.method = "finish_partial_split"
  <2>1. c.of \in [Robot -> RobotOutcome \ {"active"}]
    BY <1>9 DEF Call
  <2>2. FinishPartialSplit(c.of)
    BY <1>9 DEF Perform
  <2> DEFINE done == [current EXCEPT !.outcome = c.of]
  <2>3. state = "executing_split" /\ current.outcome = All("active") /\ history' = Append(history, done)
    BY <2>2 DEF FinishPartialSplit, PartialSplitFinishes, AllActive
  <2>4. current \in PhaseRecord
    <3>1. PICK r \in Robot : TRUE
      BY RobotsAssumption DEF Robot
    <3> QED  BY <2>3, <3>1 DEF LifecycleTypeOK, NoPhase, All, None
  <2>5. done \in PhaseRecord /\ done.outcome = c.of
    BY <2>1, <2>4 DEF PhaseRecord
  <2> HIDE DEF done
  <2> QED  BY <1>2, <1>4, <2>1, <2>3, <2>5
<1>10. CASE c.method \notin {"start_phase", "prepare_split", "finish_success",
                             "finish_cancellation", "finish_partial_split"}
  BY <1>4, <1>10
  DEF Perform, Accept, RecordSuccess, RecordFailure, RecordCancelled, RecordCancellationFailed,
      RequestCancel, RequestTimeout, lifecycleVars
<1> QED  BY <1>5, <1>6, <1>7, <1>8, <1>9, <1>10

\* The mission's own variables keep their types.
LEMMA MissionTypes ==
  ASSUME MissionTypeOK, LifecycleTypeOK, [Next]_vars
  PROVE  MissionTypeOK'
<1> USE DEF MissionTypeOK
<1>1. CASE Return
  <2>1. Tail(calls) \in Seq(Call)
    BY <1>1 DEF Return
  <2> QED  BY <1>1, <2>1 DEF Return
<1>2. CASE Raise
  BY <1>2 DEF Raise, PC, Ended
<1>3. CASE UNCHANGED vars
  BY <1>3 DEF vars, missionVars, lifecycleVars
<1>4. CASE CancelService \/ Done
  BY <1>4 DEF CancelService, Done, vars, missionVars
<1>5. CASE AcceptPlan
  BY <1>5, PlainCall DEF AcceptPlan, Continue, PC, ActivePhase
<1>6. CASE BeginPhase
  BY <1>6, PhaseIsCalls DEF BeginPhase, Continue, PC
<1>7. CASE OutOfTime
  BY <1>7, TimeoutIsCalls DEF OutOfTime, Continue, PC
<1>8. CASE Navigate
  BY <1>8 DEF Navigate, Continue, PC
<1>9. CASE FinishMission
  BY <1>9, PlainCall DEF FinishMission, Continue, PC
<1>10. CASE WriteResult
  BY <1>10 DEF WriteResult, PC, Ended, LifecycleTypeOK
<1>11. \A batch : After(batch) \in PC
  BY DEF After, AfterPhase, PC, ActivePhase
<1>12. CASE ExecuteReturns
  BY <1>11, <1>12, BatchIsCalls DEF ExecuteReturns, Continue
<1>13. CASE ExecuteFormationReturns
  BY <1>11, <1>13, BatchIsCalls DEF ExecuteFormationReturns, Continue
<1>14. CASE ExecuteSplitReturns
  BY <1>11, <1>14, SplitIsCalls DEF ExecuteSplitReturns, Continue
<1>15. CASE NavigationRaises
  BY <1>15 DEF NavigationRaises, Continue, PC, Ended
<1> QED
  BY <1>1, <1>2, <1>3, <1>4, <1>5, <1>6, <1>7, <1>8, <1>9, <1>10, <1>12, <1>13, <1>14, <1>15
  DEF Next, Step, NavigationEnds

-----------------------------------------------------------------------------
(* The invariant of the calls.                                              *)

MissionInv == LifecycleInv /\ NothingLeftActive /\ MissionTypeOK

\* The calls that settle a robot, and what each records of it.
RobotMethod ==
  {"record_success", "record_failure", "record_cancelled", "record_cancellation_failed"}

Settled(c) ==
  CASE c.method = "record_success" -> "succeeded"
    [] c.method = "record_failure" -> c.as
    [] c.method = "record_cancelled" -> "cancelled"
    [] c.method = "record_cancellation_failed" -> "failed"

\* The calls that put the lifecycle into "cancelling", and the target each sets.
StopMethod == {"record_failure", "request_cancel", "request_timeout"}

Target(c) ==
  CASE c.method = "record_failure" -> c.as
    [] c.method = "request_cancel" -> "cancelled"
    [] c.method = "request_timeout" -> "timed_out"

Quiet == {"none", "record_success"}

Closing == {"none", "record_cancelled", "record_cancellation_failed"}

End == [Robot -> RobotOutcome \ {"active"}]

ActiveRobots == {r \in Robot : IsActive(r)}

\* The calls of s settle the robots of S, each once, the way ends says.
Covers(s, S, ends) ==
  /\ \A r \in Robot : r \in S => \E i \in DOMAIN s : s[i].method \in RobotMethod /\ s[i].of = r
  /\ \A i \in DOMAIN s : s[i].method \in RobotMethod => s[i].of \in S /\ Settled(s[i]) = ends[s[i].of]
  /\ \A i, j \in DOMAIN s :
       s[i].method \in RobotMethod /\ s[j].method \in RobotMethod /\ s[i].of = s[j].of => i = j

AllQuiet(s) == \A i \in DOMAIN s : s[i].method \in Quiet

\* s stops the mission at k, records the robots that were cancelled and finishes.
StopsAt(s, k) ==
  /\ k \in DOMAIN s
  /\ k < Len(s)
  /\ s[k].method \in StopMethod
  /\ \A i \in DOMAIN s : i < k => s[i].method \in Quiet
  /\ \A i \in DOMAIN s : k < i /\ i < Len(s) => s[i].method \in Closing
  /\ s[Len(s)].method = "finish_cancellation"

Closes(s) ==
  /\ s # <<>>
  /\ \A i \in DOMAIN s : i < Len(s) => s[i].method \in Closing
  /\ s[Len(s)].method = "finish_cancellation"

\* What the robots' ends must be for a mission to end this way.  A cancelled
\* mission still ends as failed where a cancellation failed.
Explains(ends, end) ==
  /\ end = "failed" => (\E r \in Robot : ends[r] = "failed") /\ \A r \in Robot : ends[r] # "timed_out"
  /\ end = "cancelled" =>
       /\ \A r \in Robot : ends[r] # "timed_out"
       /\ \E r \in Robot : ends[r] \in {"cancelled", "failed"}
       /\ (\A r \in Robot : ends[r] # "failed") => cancelFlag
  /\ end = "timed_out" => (\E r \in Robot : ends[r] = "timed_out") \/ ends = All("cancelled")

\* The robots that calls do not settle any more ended as ends says.
Agrees(ends) == \A r \in Robot : IsActive(r) \/ current.outcome[r] = ends[r]

Settling(ends) == Covers(calls, ActiveRobots, ends) /\ Agrees(ends)

Succeeding ==
  /\ state \in ActivePhase
  /\ AllQuiet(calls)
  /\ Settling(All("succeeded"))

Stopping(ends) ==
  /\ state \in ActivePhase
  /\ \A r \in Robot : current.outcome[r] \in {"active", "succeeded"}
  /\ \E k \in DOMAIN calls : StopsAt(calls, k) /\ Explains(ends, Target(calls[k]))

Ending(ends) ==
  /\ state = "cancelling"
  /\ Closes(calls)
  /\ Explains(ends, target)
  /\ target = "cancelled" => \A r \in Robot : current.outcome[r] # "failed"

Returning ==
  \/ calls = <<>> /\ state \in Terminal
  \/ calls = <<To("finish_success", None)>> /\ MayFinishSuccess
  \/ \E ends \in End :
       calls = <<To("finish_partial_split", ends)>> /\ state = "executing_split" /\ AllActive
  \/ \E ends \in End : Settling(ends) /\ (Stopping(ends) \/ Ending(ends))

Deadline ==
  \/ calls = <<>> /\ state \in ActivePhase /\ AllActive
  \/ \E phase \in ActivePhase : calls = <<To("start_phase", phase)>> /\ MayStartPhase(phase)
  \/ /\ calls = <<To("prepare_split", None), To("start_phase", "executing_split")>>
     /\ MayPrepareSplit

CallsInv ==
  /\ pc = "accept" => calls = <<>> /\ state = "idle"
  /\ pc = "forming" => \/ calls = <<To("accept", None)>> /\ state = "idle"
                       \/ calls = <<>> /\ state = "validated"
  /\ pc \in {"formation_moving", "executing_split", "regrouping", "finish_success"} =>
       Succeeding /\ pc = AfterPhase
  /\ pc = "deadline" => Deadline
  /\ pc = "navigate" => calls = <<>> /\ state \in ActivePhase /\ AllActive
  /\ pc = "return" => Returning
  /\ pc = "written" => calls = <<>> /\ state \in Terminal
  /\ pc = "navigation_error" => calls = <<>> /\ state \in ActivePhase
  /\ pc = "lifecycle_error" => calls = <<>>

-----------------------------------------------------------------------------
(* The order of the calls.                                                  *)

LEMMA Joined ==
  ASSUME NEW s \in Seq(Call), NEW t \in Seq(Call)
  PROVE  /\ s \o t \in Seq(Call)
         /\ Len(s \o t) = Len(s) + Len(t) /\ Len(s) \in Nat /\ Len(t) \in Nat
         /\ \A i \in DOMAIN s : i \in DOMAIN (s \o t) /\ (s \o t)[i] = s[i]
         /\ \A i \in DOMAIN t : Len(s) + i \in DOMAIN (s \o t) /\ (s \o t)[Len(s) + i] = t[i]
         /\ \A i \in DOMAIN (s \o t) : i \in DOMAIN s \/ \E j \in DOMAIN t : i = Len(s) + j
<1>1. /\ s \o t \in Seq(Call)
      /\ Len(s \o t) = Len(s) + Len(t) /\ Len(s) \in Nat /\ Len(t) \in Nat
  OBVIOUS
<1>2. /\ DOMAIN (s \o t) = 1 .. Len(s) + Len(t)
      /\ DOMAIN s = 1 .. Len(s) /\ DOMAIN t = 1 .. Len(t)
  OBVIOUS
<1>3. ASSUME NEW i \in DOMAIN s PROVE i \in DOMAIN (s \o t) /\ (s \o t)[i] = s[i]
  BY <1>1, <1>2
<1>4. ASSUME NEW i \in DOMAIN t
      PROVE  Len(s) + i \in DOMAIN (s \o t) /\ (s \o t)[Len(s) + i] = t[i]
  BY <1>1, <1>2
<1>5. ASSUME NEW i \in DOMAIN (s \o t), i \notin DOMAIN s
      PROVE  \E j \in DOMAIN t : i = Len(s) + j
  <2>1. i - Len(s) \in DOMAIN t /\ i = Len(s) + (i - Len(s))
    BY <1>1, <1>2, <1>5
  <2> QED  BY <2>1
<1> QED  BY <1>1, <1>3, <1>4, <1>5

\* Two lists for different robots, one after the other, settle them all.
LEMMA CoversJoined ==
  ASSUME NEW s \in Seq(Call), NEW t \in Seq(Call), NEW S, NEW T, NEW ends,
         Covers(s, S, ends), Covers(t, T, ends),
         \A r \in S : r \notin T
  PROVE  Covers(s \o t, S \cup T, ends)
<1> DEFINE u == s \o t
<1>1. /\ Len(s) \in Nat
      /\ \A i \in DOMAIN s : i \in DOMAIN u /\ u[i] = s[i]
      /\ \A i \in DOMAIN t : Len(s) + i \in DOMAIN u /\ u[Len(s) + i] = t[i]
      /\ \A i \in DOMAIN u : i \in DOMAIN s \/ \E j \in DOMAIN t : i = Len(s) + j
  BY Joined
<1> HIDE DEF u
<1>2. ASSUME NEW r \in Robot, r \in S \cup T
      PROVE  \E i \in DOMAIN u : u[i].method \in RobotMethod /\ u[i].of = r
  <2>1. CASE r \in S
    BY <1>1, <2>1 DEF Covers
  <2>2. CASE r \in T
    <3>1. PICK i \in DOMAIN t : t[i].method \in RobotMethod /\ t[i].of = r
      BY <2>2 DEF Covers
    <3>2. Len(s) + i \in DOMAIN u /\ u[Len(s) + i] = t[i]
      BY <1>1, <3>1
    <3> QED  BY <3>1, <3>2
  <2> QED  BY <1>2, <2>1, <2>2
<1>3. ASSUME NEW i \in DOMAIN u, u[i].method \in RobotMethod
      PROVE  u[i].of \in S \cup T /\ Settled(u[i]) = ends[u[i].of]
  <2>1. CASE i \in DOMAIN s
    BY <1>1, <1>3, <2>1 DEF Covers
  <2>2. ASSUME NEW j \in DOMAIN t, i = Len(s) + j PROVE u[i].of \in S \cup T /\ Settled(u[i]) = ends[u[i].of]
    BY <1>1, <1>3, <2>2 DEF Covers
  <2> QED  BY <1>1, <2>1, <2>2
<1>4. ASSUME NEW i \in DOMAIN u, NEW j \in DOMAIN u,
             u[i].method \in RobotMethod, u[j].method \in RobotMethod, u[i].of = u[j].of
      PROVE  i = j
  <2>1. \A k \in DOMAIN s : s[k].method \in RobotMethod => s[k].of \in S /\ s[k].of \notin T
    BY DEF Covers
  <2>2. \A k \in DOMAIN t : t[k].method \in RobotMethod => t[k].of \in T
    BY DEF Covers
  <2>3. CASE i \in DOMAIN s /\ j \in DOMAIN s
    <3>1. u[i] = s[i] /\ u[j] = s[j]
      BY <1>1, <2>3
    <3> QED  BY <1>4, <2>3, <3>1 DEF Covers
  <2>4. ASSUME NEW k \in DOMAIN t, NEW l \in DOMAIN t, i = Len(s) + k, j = Len(s) + l PROVE i = j
    <3>1. u[i] = t[k] /\ u[j] = t[l]
      BY <1>1, <2>4
    <3>2. k = l
      BY <1>4, <3>1 DEF Covers
    <3> QED  BY <2>4, <3>2
  <2>5. ASSUME i \in DOMAIN s, NEW l \in DOMAIN t, j = Len(s) + l PROVE FALSE
    <3>1. u[i] = s[i] /\ u[j] = t[l]
      BY <1>1, <2>5
    <3> QED  BY <1>4, <2>1, <2>2, <2>5, <3>1
  <2>6. ASSUME j \in DOMAIN s, NEW l \in DOMAIN t, i = Len(s) + l PROVE FALSE
    <3>1. u[j] = s[j] /\ u[i] = t[l]
      BY <1>1, <2>6
    <3> QED  BY <1>4, <2>1, <2>2, <2>6, <3>1
  <2>7. /\ i \in DOMAIN s \/ \E k \in DOMAIN t : i = Len(s) + k
        /\ j \in DOMAIN s \/ \E l \in DOMAIN t : j = Len(s) + l
    BY <1>1
  <2> QED  BY <2>3, <2>4, <2>5, <2>6, <2>7
<1>5. Covers(u, S \cup T, ends)
  <2>1. \A i, j \in DOMAIN u :
          u[i].method \in RobotMethod /\ u[j].method \in RobotMethod /\ u[i].of = u[j].of => i = j
    BY <1>4
  <2> QED  BY <1>2, <1>3, <2>1 DEF Covers
<1> QED  BY <1>5 DEF u

LEMMA ForEachElements ==
  ASSUME NEW method \in {"record_success", "record_cancelled", "record_cancellation_failed"},
         NEW S
  PROVE  /\ DOMAIN ForEach(method, S) = DOMAIN RobotIds
         /\ \A i \in DOMAIN RobotIds : RobotIds[i] \in S => ForEach(method, S)[i] = To(method, RobotIds[i])
         /\ \A i \in DOMAIN RobotIds : RobotIds[i] \notin S => ForEach(method, S)[i] = To("none", None)
         /\ \A i \in DOMAIN RobotIds : ForEach(method, S)[i].method \in {"none", method}
         /\ \A i \in DOMAIN RobotIds : ForEach(method, S)[i].method = method =>
              RobotIds[i] \in S /\ ForEach(method, S)[i].of = RobotIds[i]
<1>1. DOMAIN ForEach(method, S) = DOMAIN RobotIds
  BY DEF ForEach
<1>2. \A i \in DOMAIN RobotIds : RobotIds[i] \in S => ForEach(method, S)[i] = To(method, RobotIds[i])
  BY DEF ForEach
<1>3. \A i \in DOMAIN RobotIds : RobotIds[i] \notin S => ForEach(method, S)[i] = To("none", None)
  BY DEF ForEach
<1>4. ASSUME NEW i \in DOMAIN RobotIds PROVE ForEach(method, S)[i].method \in {"none", method}
  <2>1. CASE RobotIds[i] \in S
    <3>1. ForEach(method, S)[i] = To(method, RobotIds[i])
      BY <1>2, <2>1
    <3>2. To(method, RobotIds[i]).method = method /\ To(method, RobotIds[i]).of = RobotIds[i]
      BY DEF To
    <3> QED  BY <2>1, <3>1, <3>2
  <2>2. CASE RobotIds[i] \notin S
    <3>1. ForEach(method, S)[i] = To("none", None)
      BY <1>3, <2>2
    <3> QED  BY <3>1 DEF To
  <2> QED  BY <2>1, <2>2
<1>5. ASSUME NEW i \in DOMAIN RobotIds, ForEach(method, S)[i].method = method
      PROVE  RobotIds[i] \in S /\ ForEach(method, S)[i].of = RobotIds[i]
  <2>1. CASE RobotIds[i] \in S
    <3>1. ForEach(method, S)[i] = To(method, RobotIds[i])
      BY <1>2, <2>1
    <3>2. To(method, RobotIds[i]).method = method /\ To(method, RobotIds[i]).of = RobotIds[i]
      BY DEF To
    <3> QED  BY <2>1, <3>1, <3>2
  <2>2. CASE RobotIds[i] \notin S
    <3>1. ForEach(method, S)[i].method = "none"
      <4>1. ForEach(method, S)[i] = To("none", None)
        BY <1>3, <2>2
      <4> QED  BY <4>1 DEF To
    <3> QED  BY <1>5, <3>1
  <2> QED  BY <2>1, <2>2
<1> QED  BY <1>1, <1>2, <1>3, <1>4, <1>5

LEMMA ForEachCovers ==
  ASSUME NEW method \in {"record_success", "record_cancelled", "record_cancellation_failed"},
         NEW S, NEW ends,
         \A r \in S : ends[r] = Settled(To(method, r))
  PROVE  Covers(ForEach(method, S), S, ends)
<1> DEFINE s == ForEach(method, S)
<1>1. ASSUME NEW r \in Robot, r \in S
      PROVE  \E i \in DOMAIN s : s[i].method \in RobotMethod /\ s[i].of = r
  <2>1. PICK i \in DOMAIN RobotIds : RobotIds[i] = r
    BY DEF Robot
  <2>2. s[i] = To(method, r) /\ i \in DOMAIN s
    BY <1>1, <2>1, ForEachElements
  <2> QED  BY <2>2 DEF To, RobotMethod
<1>2. ASSUME NEW i \in DOMAIN s, s[i].method \in RobotMethod
      PROVE  s[i] = To(method, RobotIds[i]) /\ RobotIds[i] \in S /\ i \in DOMAIN RobotIds
  <2>1. i \in DOMAIN RobotIds /\ s[i].method = method
    BY <1>2, ForEachElements DEF RobotMethod
  <2> QED  BY <2>1, ForEachElements
<1> HIDE DEF s
<1>3. ASSUME NEW i \in DOMAIN s, s[i].method \in RobotMethod
      PROVE  s[i].of \in S /\ Settled(s[i]) = ends[s[i].of] /\ s[i].of = RobotIds[i]
  <2>1. s[i] = To(method, RobotIds[i]) /\ RobotIds[i] \in S /\ i \in DOMAIN RobotIds
    BY <1>2, <1>3
  <2>2. s[i].of = RobotIds[i]
    BY <2>1 DEF To
  <2> QED  BY <2>1, <2>2
<1>4. ASSUME NEW i \in DOMAIN s, NEW j \in DOMAIN s,
             s[i].method \in RobotMethod, s[j].method \in RobotMethod, s[i].of = s[j].of
      PROVE  i = j
  BY <1>2, <1>3, <1>4, RobotsAssumption
<1>5. Covers(s, S, ends)
  BY <1>1, <1>3, <1>4 DEF Covers
<1> QED  BY <1>5 DEF s

\* A call that is no robot's settles none.
LEMMA PlainCovers ==
  ASSUME NEW c, c.method \notin RobotMethod, NEW ends
  PROVE  Covers(<<c>>, {}, ends)
<1>1. DOMAIN <<c>> = {1} /\ <<c>>[1] = c
  OBVIOUS
<1> QED  BY <1>1 DEF Covers

LEMMA OneCovers ==
  ASSUME NEW c, c.method \in RobotMethod, NEW ends, Settled(c) = ends[c.of]
  PROVE  Covers(<<c>>, {c.of}, ends)
<1>1. DOMAIN <<c>> = {1} /\ <<c>>[1] = c
  OBVIOUS
<1> QED  BY <1>1 DEF Covers

\* s stops the mission at k and then records robots that were cancelled.
OpenAt(s, k) ==
  /\ k \in DOMAIN s
  /\ s[k].method \in StopMethod
  /\ \A i \in DOMAIN s : i < k => s[i].method \in Quiet
  /\ \A i \in DOMAIN s : k < i => s[i].method \in Closing

LEMMA OpenBegins ==
  ASSUME NEW s \in Seq(Call), AllQuiet(s), NEW c \in Call, c.method \in StopMethod
  PROVE  OpenAt(s \o <<c>>, Len(s) + 1) /\ (s \o <<c>>)[Len(s) + 1] = c
<1> DEFINE u == s \o <<c>>
<1>1. /\ Len(s) \in Nat
      /\ \A i \in DOMAIN s : i \in DOMAIN u /\ u[i] = s[i]
      /\ Len(s) + 1 \in DOMAIN u /\ u[Len(s) + 1] = c
      /\ \A i \in DOMAIN u : i \in DOMAIN s \/ i = Len(s) + 1
      /\ \A i \in DOMAIN s : i \in Nat /\ i <= Len(s)
  <2>1. <<c>> \in Seq(Call) /\ DOMAIN <<c>> = {1} /\ <<c>>[1] = c
    OBVIOUS
  <2>2. \A i \in DOMAIN s : i \in Nat /\ i <= Len(s)
    OBVIOUS
  <2> QED  BY <2>1, <2>2, Joined
<1> HIDE DEF u
<1>2. OpenAt(u, Len(s) + 1)
  BY <1>1 DEF OpenAt, AllQuiet
<1> QED  BY <1>1, <1>2 DEF u

LEMMA OpenJoined ==
  ASSUME NEW s \in Seq(Call), NEW t \in Seq(Call), NEW k, OpenAt(s, k),
         \A i \in DOMAIN t : t[i].method \in Closing
  PROVE  OpenAt(s \o t, k) /\ (s \o t)[k] = s[k]
<1> DEFINE u == s \o t
<1>1. /\ Len(s) \in Nat
      /\ \A i \in DOMAIN s : i \in DOMAIN u /\ u[i] = s[i]
      /\ \A i \in DOMAIN t : Len(s) + i \in DOMAIN u /\ u[Len(s) + i] = t[i]
      /\ \A i \in DOMAIN u : i \in DOMAIN s \/ \E j \in DOMAIN t : i = Len(s) + j
      /\ \A i \in DOMAIN s : i \in Nat /\ i <= Len(s)
      /\ \A i \in DOMAIN t : i \in Nat /\ i >= 1
  <2>1. \A i \in DOMAIN s : i \in Nat /\ i <= Len(s)
    OBVIOUS
  <2>2. \A i \in DOMAIN t : i \in Nat /\ i >= 1
    OBVIOUS
  <2> QED  BY <2>1, <2>2, Joined
<1> HIDE DEF u
<1>2. k \in DOMAIN u /\ u[k] = s[k] /\ u[k].method \in StopMethod /\ k \in DOMAIN s
  BY <1>1 DEF OpenAt
<1>3. ASSUME NEW i \in DOMAIN u, i < k PROVE u[i].method \in Quiet
  BY <1>1, <1>2, <1>3 DEF OpenAt
<1>4. ASSUME NEW i \in DOMAIN u, k < i PROVE u[i].method \in Closing
  BY <1>1, <1>2, <1>4 DEF OpenAt
<1>5. OpenAt(u, k) /\ u[k] = s[k]
  BY <1>2, <1>3, <1>4 DEF OpenAt
<1> QED  BY <1>5 DEF u

LEMMA OpenFinished ==
  ASSUME NEW s \in Seq(Call), NEW k, OpenAt(s, k)
  PROVE  LET u == s \o <<To("finish_cancellation", None)>> IN StopsAt(u, k) /\ u[k] = s[k]
<1> DEFINE f == To("finish_cancellation", None)
           u == s \o <<f>>
<1>1. /\ Len(s) \in Nat /\ Len(u) = Len(s) + 1
      /\ \A i \in DOMAIN s : i \in DOMAIN u /\ u[i] = s[i]
      /\ u[Len(s) + 1] = f
      /\ \A i \in DOMAIN u : i \in DOMAIN s \/ i = Len(s) + 1
      /\ \A i \in DOMAIN s : i \in Nat /\ i <= Len(s)
  <2>1. <<f>> \in Seq(Call) /\ DOMAIN <<f>> = {1} /\ <<f>>[1] = f /\ Len(<<f>>) = 1
    BY PlainCall
  <2>2. \A i \in DOMAIN s : i \in Nat /\ i <= Len(s)
    OBVIOUS
  <2> QED  BY <2>1, <2>2, Joined
<1>2. f.method = "finish_cancellation"
  BY DEF To
<1> HIDE DEF u, f
<1>3. k \in DOMAIN s /\ k \in DOMAIN u /\ u[k] = s[k] /\ k < Len(u)
  BY <1>1 DEF OpenAt
<1>4. ASSUME NEW i \in DOMAIN u, i < k PROVE u[i].method \in Quiet
  BY <1>1, <1>3, <1>4 DEF OpenAt
<1>5. ASSUME NEW i \in DOMAIN u, k < i, i < Len(u) PROVE u[i].method \in Closing
  BY <1>1, <1>3, <1>5 DEF OpenAt
<1>6. u[k].method \in StopMethod /\ u[Len(u)].method = "finish_cancellation"
  BY <1>1, <1>2, <1>3 DEF OpenAt
<1>7. StopsAt(u, k) /\ u[k] = s[k]
  BY <1>3, <1>4, <1>5, <1>6 DEF StopsAt
<1> QED  BY <1>7 DEF u, f

\* The loops over the robots that record successes and cancellations.
LEMMA SuccessLoop ==
  ASSUME NEW S, NEW ends, \A r \in S : ends[r] = "succeeded"
  PROVE  LET s == ForEach("record_success", S)
         IN  s \in Seq(Call) /\ AllQuiet(s) /\ Covers(s, S, ends)
<1>1. \A r \in S : ends[r] = Settled(To("record_success", r))
  BY DEF Settled, To
<1>2. Covers(ForEach("record_success", S), S, ends)
  BY <1>1, ForEachCovers
<1>3. \A i \in DOMAIN ForEach("record_success", S) :
        ForEach("record_success", S)[i].method \in {"none", "record_success"}
  BY ForEachElements
<1>4. AllQuiet(ForEach("record_success", S))
  BY <1>3 DEF AllQuiet, Quiet
<1> QED  BY <1>2, <1>4, ForEachIsCalls

LEMMA ClosingLoop ==
  ASSUME NEW method \in {"record_cancelled", "record_cancellation_failed"}, NEW S, NEW ends,
         \A r \in S : ends[r] = IF method = "record_cancelled" THEN "cancelled" ELSE "failed"
  PROVE  LET s == ForEach(method, S)
         IN  /\ s \in Seq(Call) /\ Covers(s, S, ends)
             /\ \A i \in DOMAIN s : s[i].method \in Closing
<1>1. \A r \in S : ends[r] = Settled(To(method, r))
  BY DEF Settled, To
<1>2. Covers(ForEach(method, S), S, ends)
  BY <1>1, ForEachCovers
<1>3. \A i \in DOMAIN ForEach(method, S) : ForEach(method, S)[i].method \in Closing
  BY ForEachElements DEF Closing
<1> QED  BY <1>2, <1>3, ForEachIsCalls

\* The undispatched timeout stops the mission and settles every robot.
LEMMA TimeoutStops ==
  /\ Covers(UndispatchedTimeout, Robot, All("cancelled"))
  /\ StopsAt(UndispatchedTimeout, 1)
  /\ Explains(All("cancelled"), Target(UndispatchedTimeout[1]))
<1> DEFINE c == To("request_timeout", None)
           f == To("finish_cancellation", None)
           b == ForEach("record_cancelled", Robot)
           ends == All("cancelled")
<1>1. /\ c \in Call /\ c.method = "request_timeout"
      /\ f.method = "finish_cancellation"
      /\ <<c>> \in Seq(Call) /\ <<f>> \in Seq(Call) /\ <<>> \in Seq(Call)
  BY PlainCall DEF To, Call
<1>2. \A r \in Robot : ends[r] = "cancelled"
  BY DEF All
<1>3. /\ b \in Seq(Call) /\ Covers(b, Robot, ends)
      /\ \A i \in DOMAIN b : b[i].method \in Closing
  BY <1>2, ClosingLoop
<1>4. UndispatchedTimeout = <<c>> \o b \o <<f>>
  BY DEF UndispatchedTimeout
<1>5. Target(c) = "timed_out"
  BY <1>1 DEF Target
<1> DEFINE h == <<c>>
<1> HIDE DEF b, c, f
<1>6. h \in Seq(Call) /\ OpenAt(h, 1) /\ h[1] = c
  <2>1. DOMAIN h = {1} /\ h[1] = c
    OBVIOUS
  <2> QED  BY <1>1, <2>1 DEF OpenAt, StopMethod
<1> HIDE DEF h
<1>7. OpenAt(h \o b, 1) /\ (h \o b)[1] = c /\ h \o b \in Seq(Call)
  <2>1. OpenAt(h \o b, 1) /\ (h \o b)[1] = h[1]
    BY <1>3, <1>6, OpenJoined
  <2>2. h \o b \in Seq(Call)
    BY <1>3, <1>6, Joined
  <2> QED  BY <1>6, <2>1, <2>2
<1>8. StopsAt(UndispatchedTimeout, 1) /\ UndispatchedTimeout[1] = c
  BY <1>4, <1>7, OpenFinished DEF f, h
<1>9. Covers(UndispatchedTimeout, Robot, ends)
  <2>1. Covers(<<c>>, {}, ends) /\ Covers(<<f>>, {}, ends)
    BY <1>1, PlainCovers DEF RobotMethod
  <2>2. Covers(h \o b, {} \cup Robot, ends)
    BY <1>3, <1>6, <2>1, CoversJoined DEF h
  <2>3. {} \cup Robot = Robot /\ Robot \cup {} = Robot
    OBVIOUS
  <2>4. Covers(h \o b, Robot, ends)
    BY <2>2, <2>3
  <2>5. Covers(h \o b \o <<f>>, Robot \cup {}, ends)
    BY <1>1, <1>7, <2>1, <2>4, CoversJoined
  <2> QED  BY <1>4, <2>3, <2>5 DEF h
<1> QED  BY <1>5, <1>8, <1>9 DEF Explains

\* A batch whose robots all succeeded leaves nothing but successes to record.
LEMMA BatchSucceeds ==
  ASSUME NEW batch, Succeeded(batch)
  PROVE  LET s == ForEach("record_success", Robot)
         IN  /\ ApplyNavigationBatch(batch) = s /\ ApplySplitResult(batch) = s
             /\ AllQuiet(s) /\ Covers(s, Robot, All("succeeded"))
<1>1. \A r \in Robot : All("succeeded")[r] = "succeeded"
  BY DEF All
<1> QED  BY <1>1, SuccessLoop DEF ApplyNavigationBatch, ApplySplitResult

\* What a batch comes to: its robots' ends, and why the mission may end as the
\* call that stops it says.
LEMMA BatchIsExplained ==
  ASSUME NEW batch \in BatchResults(cancelFlag), ~Succeeded(batch),
         NEW ends, ends = [r \in Robot |-> SplitOutcome(batch[r])]
  PROVE  /\ \A r \in Robot : batch[r] = "timed_out" => Explains(ends, "timed_out")
         /\ \A r \in Robot : batch[r] \in PrimaryFailure \ {"timed_out"} => Explains(ends, "failed")
         /\ (\A r \in Robot : batch[r] \notin PrimaryFailure) => Explains(ends, "cancelled")
<1>1. batch \in Batch /\ batch \in [Robot -> Status]
  BY DEF BatchResults, Batch
<1>2. \A r \in Robot : batch[r] \in Status
  BY <1>1
<1>3. \A r \in Robot : (batch[r] = "timed_out") <=> (ends[r] = "timed_out")
  BY <1>2 DEF SplitOutcome, Status
<1>4. \A r \in Robot : batch[r] \in {"failed", "rejected", "cancel_failed"} => ends[r] = "failed"
  BY <1>2 DEF SplitOutcome, Status
<1>5. \A r \in Robot : batch[r] = "cancelled" <=> ends[r] = "cancelled"
  BY <1>2 DEF SplitOutcome, Status
<1>6. ASSUME NEW r \in Robot, batch[r] = "timed_out" PROVE Explains(ends, "timed_out")
  BY <1>3, <1>6 DEF Explains
<1>7. ASSUME NEW r \in Robot, batch[r] \in PrimaryFailure \ {"timed_out"}
      PROVE  Explains(ends, "failed")
  <2>1. ends[r] = "failed"
    BY <1>4, <1>7 DEF PrimaryFailure
  <2>2. ASSUME NEW s \in Robot PROVE ends[s] # "timed_out"
    <3>1. SUFFICES ASSUME batch[s] = "timed_out" PROVE FALSE
      BY <1>3
    <3>2. r = s
      BY <1>1, <1>7, <3>1 DEF Batch, PrimaryFailure
    <3> QED  BY <1>7, <3>1, <3>2
  <2> QED  BY <2>1, <2>2 DEF Explains
<1>8. ASSUME \A r \in Robot : batch[r] \notin PrimaryFailure PROVE Explains(ends, "cancelled")
  <2>1. \A r \in Robot : batch[r] \in {"succeeded", "cancelled", "cancel_failed"}
    BY <1>2, <1>8 DEF Status, PrimaryFailure
  <2>2. \A r \in Robot : ends[r] # "timed_out"
    BY <1>3, <2>1
  <2>3. PICK r \in Robot : batch[r] # "succeeded"
    <3>1. SUFFICES ASSUME \A r \in Robot : batch[r] = "succeeded" PROVE FALSE
      OBVIOUS
    <3>2. batch = [r \in Robot |-> "succeeded"]
      BY <1>1, <3>1
    <3> QED  BY <3>2 DEF Succeeded, All
  <2>4. ends[r] \in {"cancelled", "failed"}
    BY <1>4, <1>5, <2>1, <2>3
  <2>5. (\A s \in Robot : ends[s] # "failed") => cancelFlag
    <3>1. SUFFICES ASSUME \A s \in Robot : ends[s] # "failed" PROVE cancelFlag
      OBVIOUS
    <3>2. \A s \in Robot : batch[s] \in {"succeeded", "cancelled"}
      BY <1>4, <2>1, <3>1
    <3>3. batch[r] = "cancelled"
      BY <2>3, <3>2
    <3>4. OnlyCancelled(batch)
      BY <3>2, <3>3 DEF OnlyCancelled
    <3> QED  BY <3>4 DEF BatchResults
  <2> QED  BY <2>2, <2>4, <2>5 DEF Explains
<1> QED  BY <1>6, <1>7, <1>8

\* A batch that did not succeed stops the mission and settles every robot.
LEMMA BatchStops ==
  ASSUME NEW batch \in BatchResults(cancelFlag), ~Succeeded(batch),
         NEW ends, ends = [r \in Robot |-> SplitOutcome(batch[r])]
  PROVE  LET s == ApplyNavigationBatch(batch)
         IN  /\ ends \in End /\ Covers(s, Robot, ends)
             /\ \E k \in DOMAIN s : StopsAt(s, k) /\ Explains(ends, Target(s[k]))
<1> DEFINE S == With(batch, "succeeded")
           B == With(batch, "cancelled")
           C == With(batch, "cancel_failed")
           P == {r \in Robot : batch[r] \in PrimaryFailure}
           a == ForEach("record_success", S)
           b == ForEach("record_cancelled", B)
           c == ForEach("record_cancellation_failed", C)
           f == To("finish_cancellation", None)
           s == ApplyNavigationBatch(batch)
<1>1. batch \in Batch /\ \A r \in Robot : batch[r] \in Status
  BY DEF BatchResults, Batch
<1>2. ends \in End
  BY DEF SplitOutcome, End, RobotOutcome
<1>3. /\ \A r \in S : r \in Robot /\ batch[r] = "succeeded"
      /\ \A r \in B : r \in Robot /\ batch[r] = "cancelled"
      /\ \A r \in C : r \in Robot /\ batch[r] = "cancel_failed"
      /\ \A r \in P : r \in Robot /\ batch[r] \in PrimaryFailure
      /\ \A r \in Robot : r \in S \cup P \cup B \cup C
  BY <1>1 DEF With, Status, PrimaryFailure
<1>4. a \in Seq(Call) /\ AllQuiet(a) /\ Covers(a, S, ends)
  <2>1. \A r \in S : ends[r] = "succeeded"
    BY <1>3 DEF SplitOutcome
  <2> QED  BY <2>1, SuccessLoop
<1>5. b \in Seq(Call) /\ Covers(b, B, ends) /\ \A i \in DOMAIN b : b[i].method \in Closing
  <2>1. \A r \in B : ends[r] = "cancelled"
    BY <1>3 DEF SplitOutcome
  <2> QED  BY <2>1, ClosingLoop
<1>6. c \in Seq(Call) /\ Covers(c, C, ends) /\ \A i \in DOMAIN c : c[i].method \in Closing
  <2>1. \A r \in C : ends[r] = "failed"
    BY <1>3 DEF SplitOutcome
  <2> QED  BY <2>1, ClosingLoop
<1>7. <<f>> \in Seq(Call) /\ Covers(<<f>>, {}, ends)
  <2>1. f.method = "finish_cancellation"
    BY DEF To
  <2> QED  BY <2>1, PlainCall, PlainCovers DEF RobotMethod
<1>8. PICK stop \in Call :
        /\ s = a \o <<stop>> \o b \o c \o <<f>>
        /\ stop.method \in StopMethod
        /\ Covers(<<stop>>, P, ends)
        /\ Explains(ends, Target(stop))
  <2>1. CASE \E r \in Robot : batch[r] \in PrimaryFailure
    <3> DEFINE r == CHOOSE q \in Robot : batch[q] \in PrimaryFailure
               as == IF batch[r] = "timed_out" THEN "timed_out" ELSE "failed"
               stop == [method |-> "record_failure", of |-> r, as |-> as]
    <3>1. r \in Robot /\ batch[r] \in PrimaryFailure
      BY <2>1
    <3>2. s = a \o <<stop>> \o b \o c \o <<f>>
      BY <2>1 DEF ApplyNavigationBatch, RecordPrimary
    <3> HIDE DEF r
    <3>3. as \in Failure /\ ends[r] = as
      BY <3>1 DEF Failure, SplitOutcome, PrimaryFailure
    <3>4. Explains(ends, as)
      BY <3>1, BatchIsExplained
    <3> HIDE DEF as
    <3>5. /\ stop \in Call /\ stop.method = "record_failure" /\ stop.of = r
          /\ Settled(stop) = as /\ Target(stop) = as
      BY <3>1, <3>3 DEF Call, Settled, Target
    <3> HIDE DEF stop
    <3>6. P = {r}
      <4>1. \A q \in P : q = r
        BY <1>1, <1>3, <3>1 DEF Batch
      <4> QED  BY <3>1, <4>1
    <3>7. Covers(<<stop>>, {stop.of}, ends)
      <4>1. stop.method \in RobotMethod /\ Settled(stop) = ends[stop.of]
        BY <3>3, <3>5 DEF RobotMethod
      <4> QED  BY <4>1, OneCovers
    <3> QED  BY <3>2, <3>4, <3>5, <3>6, <3>7 DEF StopMethod
  <2>2. CASE \A r \in Robot : batch[r] \notin PrimaryFailure
    <3> DEFINE stop == To("request_cancel", None)
    <3>1. s = a \o <<stop>> \o b \o c \o <<f>>
      BY <2>2 DEF ApplyNavigationBatch
    <3>2. stop \in Call /\ stop.method = "request_cancel" /\ Target(stop) = "cancelled"
      BY DEF To, Call, Target
    <3> HIDE DEF stop
    <3>3. P = {}
      BY <2>2
    <3>4. Covers(<<stop>>, {}, ends)
      BY <3>2, PlainCovers DEF RobotMethod
    <3>5. Explains(ends, "cancelled")
      BY <2>2, BatchIsExplained
    <3> QED  BY <3>1, <3>2, <3>3, <3>4, <3>5 DEF StopMethod
  <2> QED  BY <2>1, <2>2
<1> DEFINE k == Len(a) + 1
           u == a \o <<stop>>
           v == u \o b
           w == v \o c
<1>9. u \in Seq(Call) /\ v \in Seq(Call) /\ w \in Seq(Call)
  BY <1>4, <1>5, <1>6, Joined
<1>10. s = w \o <<f>>
  BY <1>8
<1> HIDE DEF S, B, C, P, a, b, c, f, s
<1>11. OpenAt(u, k) /\ u[k] = stop
  BY <1>4, <1>8, OpenBegins
<1>12. Covers(u, S \cup P, ends)
  <2>1. <<stop>> \in Seq(Call)
    OBVIOUS
  <2>2. \A r \in S : r \notin P
    BY <1>3 DEF PrimaryFailure
  <2> QED  BY <1>4, <1>8, <2>1, <2>2, CoversJoined
<1> HIDE DEF u, k
<1>13. OpenAt(v, k) /\ v[k] = stop
  BY <1>5, <1>9, <1>11, OpenJoined
<1>14. Covers(v, S \cup P \cup B, ends)
  BY <1>3, <1>5, <1>9, <1>12, CoversJoined DEF PrimaryFailure
<1> HIDE DEF v
<1>15. OpenAt(w, k) /\ w[k] = stop
  BY <1>6, <1>9, <1>13, OpenJoined
<1>16. Covers(w, S \cup P \cup B \cup C, ends)
  BY <1>3, <1>6, <1>9, <1>14, CoversJoined DEF PrimaryFailure
<1> HIDE DEF w
<1>17. StopsAt(s, k) /\ s[k] = stop
  BY <1>9, <1>10, <1>15, OpenFinished DEF f
<1>18. Covers(s, S \cup P \cup B \cup C \cup {}, ends)
  BY <1>7, <1>9, <1>10, <1>16, CoversJoined
<1>19. S \cup P \cup B \cup C \cup {} = Robot
  BY <1>3
<1>20. k \in DOMAIN s
  BY <1>17 DEF StopsAt
<1> QED  BY <1>2, <1>8, <1>17, <1>18, <1>19, <1>20 DEF s

\* The results of a formation are among those of a batch.
LEMMA FormationIsBatch ==
  ASSUME NEW asked \in BOOLEAN
  PROVE  FormationResults(asked) \subseteq BatchResults(asked)
<1>0. Leader \in Robot
  BY RobotsAssumption DEF Leader, Robot
<1>1. All("succeeded") \in BatchResults(asked)
  BY DEF All, BatchResults, Batch, Status, PrimaryFailure, OnlyCancelled
<1>2. ASSUME NEW s \in PrimaryFailure \cup {"cancel_failed"}
      PROVE  FormationFailure(s) \in BatchResults(asked)
  <2> DEFINE b == FormationFailure(s)
  <2>1. b = [r \in Robot |-> IF r = Leader THEN s ELSE "cancelled"]
    BY <1>0, <1>2 DEF FormationFailure, All, PrimaryFailure
  <2>2. b[Leader] = s /\ \A r \in Robot : r # Leader => b[r] = "cancelled"
    BY <1>0, <2>1
  <2>3. b \in [Robot -> Status]
    BY <1>2, <2>1 DEF Status, PrimaryFailure
  <2> HIDE DEF b
  <2>4. b \in Batch
    BY <2>2, <2>3 DEF Batch, PrimaryFailure
  <2>5. ~OnlyCancelled(b)
    BY <1>0, <1>2, <2>2 DEF OnlyCancelled, PrimaryFailure
  <2> QED  BY <2>4, <2>5 DEF BatchResults, b
<1>3. ASSUME asked PROVE FormationFailure("cancelled") \in BatchResults(asked)
  BY <1>3 DEF FormationFailure, All, BatchResults, Batch, Status, PrimaryFailure
<1> QED  BY <1>1, <1>2, <1>3 DEF FormationResults

-----------------------------------------------------------------------------
(* Making the calls one by one.                                             *)

LEMMA TailOf ==
  ASSUME NEW s \in Seq(Call), s # <<>>
  PROVE  /\ Tail(s) \in Seq(Call) /\ Head(s) \in Call /\ Head(s) = s[1] /\ 1 \in DOMAIN s
         /\ Len(s) \in Nat /\ Len(Tail(s)) = Len(s) - 1 /\ Len(s) >= 1
         /\ \A i \in DOMAIN Tail(s) : i \in Nat /\ i + 1 \in DOMAIN s /\ Tail(s)[i] = s[i + 1]
         /\ \A i \in DOMAIN s :
              /\ i \in Nat /\ i >= 1 /\ i <= Len(s)
              /\ i = 1 \/ (i - 1 \in DOMAIN Tail(s) /\ Tail(s)[i - 1] = s[i])
<1>1. /\ Tail(s) \in Seq(Call) /\ Head(s) \in Call /\ Head(s) = s[1]
      /\ Len(s) \in Nat /\ Len(Tail(s)) = Len(s) - 1 /\ Len(s) >= 1
  OBVIOUS
<1>2. DOMAIN s = 1 .. Len(s) /\ DOMAIN Tail(s) = 1 .. Len(s) - 1
  BY <1>1
<1>3. ASSUME NEW i \in DOMAIN Tail(s)
      PROVE  i \in Nat /\ i + 1 \in DOMAIN s /\ Tail(s)[i] = s[i + 1]
  BY <1>1, <1>2
<1>4. ASSUME NEW i \in DOMAIN s, i # 1 PROVE i - 1 \in DOMAIN Tail(s) /\ Tail(s)[i - 1] = s[i]
  BY <1>1, <1>2, <1>4
<1> QED  BY <1>1, <1>2, <1>3, <1>4

LEMMA CoversTail ==
  ASSUME NEW s \in Seq(Call), s # <<>>, NEW S, NEW ends, Covers(s, S, ends)
  PROVE  /\ Head(s).method \in RobotMethod =>
              /\ Head(s).of \in S /\ Settled(Head(s)) = ends[Head(s).of]
              /\ Covers(Tail(s), S \ {Head(s).of}, ends)
         /\ Head(s).method \notin RobotMethod => Covers(Tail(s), S, ends)
<1> DEFINE t == Tail(s)
           c == Head(s)
<1>1. /\ c = s[1] /\ 1 \in DOMAIN s
      /\ \A i \in DOMAIN t : i \in Nat /\ i + 1 \in DOMAIN s /\ t[i] = s[i + 1]
      /\ \A i \in DOMAIN s : i = 1 \/ (i - 1 \in DOMAIN t /\ t[i - 1] = s[i])
      /\ \A i \in DOMAIN t : i >= 1
  <2>1. \A i \in DOMAIN t : i >= 1
    BY TailOf
  <2> QED  BY <2>1, TailOf
<1> HIDE DEF t, c
<1>2. ASSUME NEW r \in Robot, r \in S, c.method \notin RobotMethod \/ c.of # r
      PROVE  \E i \in DOMAIN t : t[i].method \in RobotMethod /\ t[i].of = r
  <2>1. PICK i \in DOMAIN s : s[i].method \in RobotMethod /\ s[i].of = r
    BY <1>2 DEF Covers
  <2>2. i # 1
    BY <1>1, <1>2, <2>1
  <2>3. i - 1 \in DOMAIN t /\ t[i - 1] = s[i]
    BY <1>1, <2>2
  <2> QED  BY <2>1, <2>3
<1>3. ASSUME NEW i \in DOMAIN t, t[i].method \in RobotMethod
      PROVE  /\ t[i].of \in S /\ Settled(t[i]) = ends[t[i].of]
             /\ c.method \in RobotMethod => t[i].of # c.of
  <2>1. i + 1 \in DOMAIN s /\ t[i] = s[i + 1] /\ i + 1 # 1
    BY <1>1
  <2>2. t[i].of \in S /\ Settled(t[i]) = ends[t[i].of]
    BY <1>3, <2>1 DEF Covers
  <2>3. ASSUME c.method \in RobotMethod, t[i].of = c.of PROVE FALSE
    <3>1. s[1].method \in RobotMethod /\ s[i + 1].method \in RobotMethod /\ s[i + 1].of = s[1].of
      BY <1>1, <1>3, <2>1, <2>3
    <3>2. i + 1 = 1
      BY <1>1, <2>1, <3>1 DEF Covers
    <3> QED  BY <2>1, <3>2
  <2> QED  BY <2>2, <2>3
<1>4. ASSUME NEW i \in DOMAIN t, NEW j \in DOMAIN t,
             t[i].method \in RobotMethod, t[j].method \in RobotMethod, t[i].of = t[j].of
      PROVE  i = j
  <2>1. /\ i + 1 \in DOMAIN s /\ t[i] = s[i + 1]
        /\ j + 1 \in DOMAIN s /\ t[j] = s[j + 1]
    BY <1>1
  <2>2. i + 1 = j + 1
    BY <1>4, <2>1 DEF Covers
  <2> QED  BY <1>1, <2>2
<1>5. ASSUME c.method \in RobotMethod
      PROVE  c.of \in S /\ Settled(c) = ends[c.of] /\ Covers(t, S \ {c.of}, ends)
  <2>1. c.of \in S /\ Settled(c) = ends[c.of]
    BY <1>1, <1>5 DEF Covers
  <2>2. Covers(t, S \ {c.of}, ends)
    BY <1>2, <1>3, <1>4, <1>5 DEF Covers
  <2> QED  BY <2>1, <2>2
<1>6. ASSUME c.method \notin RobotMethod PROVE Covers(t, S, ends)
  BY <1>2, <1>3, <1>4, <1>6 DEF Covers
<1> QED  BY <1>5, <1>6 DEF t, c

LEMMA QuietTail ==
  ASSUME NEW s \in Seq(Call), s # <<>>, AllQuiet(s)
  PROVE  Head(s).method \in Quiet /\ AllQuiet(Tail(s))
BY TailOf DEF AllQuiet

LEMMA ClosesTail ==
  ASSUME NEW s \in Seq(Call), Closes(s)
  PROVE  \/ Head(s).method = "finish_cancellation" /\ Tail(s) = <<>>
         \/ Head(s).method \in Closing /\ Closes(Tail(s))
<1>1. s # <<>>
  BY DEF Closes
<1>2. CASE Len(s) = 1
  <2>1. Head(s).method = "finish_cancellation"
    BY <1>1, <1>2, TailOf DEF Closes
  <2>2. Tail(s) = <<>>
    <3>1. Tail(s) \in Seq(Call) /\ Len(Tail(s)) = 0
      BY <1>1, <1>2, TailOf
    <3>2. ASSUME Tail(s) # <<>> PROVE FALSE
      <4>1. Len(Tail(s)) >= 1
        BY <3>1, <3>2, TailOf
      <4> QED  BY <3>1, <4>1
    <3> QED  BY <3>2
  <2> QED  BY <2>1, <2>2
<1>3. CASE Len(s) # 1
  <2> DEFINE t == Tail(s)
  <2>1. /\ Head(s) = s[1] /\ 1 \in DOMAIN s /\ Len(s) \in Nat /\ Len(s) > 1
        /\ Len(t) = Len(s) - 1 /\ t \in Seq(Call)
        /\ \A i \in DOMAIN t : i \in Nat /\ i + 1 \in DOMAIN s /\ t[i] = s[i + 1]
    <3>1. Len(s) \in Nat /\ Len(s) >= 1
      BY <1>1, TailOf
    <3>2. Len(s) > 1
      <4>1. \A n \in Nat : n >= 1 /\ n # 1 => n > 1
        OBVIOUS
      <4> QED  BY <1>3, <3>1, <4>1
    <3> QED  BY <1>1, <3>2, TailOf
  <2>2. Len(t) \in DOMAIN t /\ t # <<>>
    <3>1. t \in Seq(Call) /\ Len(t) \in Nat /\ Len(t) >= 1
      BY <2>1
    <3> HIDE DEF t
    <3> QED  BY <3>1
  <2> HIDE DEF t
  <2>3. Head(s).method \in Closing
    BY <2>1 DEF Closes
  <2>4. ASSUME NEW i \in DOMAIN t, i < Len(t) PROVE t[i].method \in Closing
    <3>1. i + 1 \in DOMAIN s /\ t[i] = s[i + 1] /\ i + 1 < Len(s)
      BY <2>1, <2>4
    <3> QED  BY <3>1 DEF Closes
  <2>5. t[Len(t)] = s[Len(s)]
    <3>1. Len(t) + 1 = Len(s)
      BY <2>1
    <3> QED  BY <2>1, <2>2, <3>1
  <2>6. Closes(t)
    BY <2>2, <2>4, <2>5 DEF Closes
  <2> QED  BY <2>3, <2>6 DEF t
<1> QED  BY <1>2, <1>3

LEMMA StopsTail ==
  ASSUME NEW s \in Seq(Call), NEW k, StopsAt(s, k)
  PROVE  /\ s # <<>>
         /\ \/ k = 1 /\ Head(s) = s[k] /\ Head(s).method \in StopMethod /\ Closes(Tail(s))
            \/ /\ Head(s).method \in Quiet
               /\ k - 1 \in DOMAIN Tail(s) /\ Tail(s)[k - 1] = s[k] /\ StopsAt(Tail(s), k - 1)
<1> DEFINE t == Tail(s)
<1>0. s # <<>>
  BY DEF StopsAt
<1>1. /\ Head(s) = s[1] /\ 1 \in DOMAIN s /\ Len(s) \in Nat
      /\ Len(t) = Len(s) - 1 /\ t \in Seq(Call)
      /\ \A i \in DOMAIN t : i \in Nat /\ i + 1 \in DOMAIN s /\ t[i] = s[i + 1]
      /\ \A i \in DOMAIN s :
           /\ i \in Nat /\ i >= 1 /\ i <= Len(s)
           /\ i = 1 \/ (i - 1 \in DOMAIN t /\ t[i - 1] = s[i])
  BY <1>0, TailOf
<1>2. k \in DOMAIN s /\ k \in Nat /\ k >= 1 /\ k < Len(s)
  BY <1>1 DEF StopsAt
<1>3. Len(t) \in DOMAIN t /\ t # <<>>
  BY <1>1, <1>2
<1> HIDE DEF t
<1>4. t[Len(t)].method = "finish_cancellation"
  <2>1. Len(t) + 1 = Len(s)
    BY <1>1
  <2>2. t[Len(t)] = s[Len(s)]
    BY <1>1, <1>3, <2>1
  <2> QED  BY <2>2 DEF StopsAt
<1>5. ASSUME NEW i \in DOMAIN t, k <= i, i < Len(t) PROVE t[i].method \in Closing
  <2>1. i + 1 \in DOMAIN s /\ t[i] = s[i + 1] /\ k < i + 1 /\ i + 1 < Len(s)
    BY <1>1, <1>2, <1>5
  <2> QED  BY <2>1 DEF StopsAt
<1>6. CASE k = 1
  <2>1. Head(s) = s[k] /\ Head(s).method \in StopMethod
    BY <1>1, <1>6 DEF StopsAt
  <2>2. \A i \in DOMAIN t : k <= i
    <3>1. \A i \in DOMAIN t : i + 1 \in DOMAIN s /\ i \in Nat /\ i # 0
      BY <1>1
    <3> QED  BY <1>6, <3>1
  <2>3. Closes(t)
    BY <1>3, <1>4, <1>5, <2>2 DEF Closes
  <2> QED  BY <1>0, <1>6, <2>1, <2>3 DEF t
<1>7. CASE k # 1
  <2>1. Head(s).method \in Quiet
    <3>1. 1 < k
      BY <1>2, <1>7
    <3> QED  BY <1>1, <3>1 DEF StopsAt
  <2>2. k - 1 \in DOMAIN t /\ t[k - 1] = s[k] /\ k - 1 < Len(t)
    BY <1>1, <1>2, <1>7
  <2>3. ASSUME NEW i \in DOMAIN t, i < k - 1 PROVE t[i].method \in Quiet
    <3>1. i + 1 \in DOMAIN s /\ t[i] = s[i + 1] /\ i + 1 < k
      BY <1>1, <1>2, <2>3
    <3> QED  BY <3>1 DEF StopsAt
  <2>4. ASSUME NEW i \in DOMAIN t, k - 1 < i, i < Len(t) PROVE t[i].method \in Closing
    <3>1. k <= i
      BY <1>1, <1>2, <2>4
    <3> QED  BY <1>5, <2>4, <3>1
  <2>5. t[k - 1].method \in StopMethod
    BY <2>2 DEF StopsAt
  <2>6. StopsAt(t, k - 1)
    BY <1>4, <2>2, <2>3, <2>4, <2>5 DEF StopsAt
  <2> QED  BY <1>0, <2>1, <2>2, <2>6 DEF t
<1> QED  BY <1>6, <1>7

LEMMA PhaseUnderWay ==
  ASSUME MissionInv, state \in ActivePhase \cup {"cancelling"}
  PROVE  /\ current \in PhaseRecord /\ current # NoPhase
         /\ current.outcome \in [Robot -> RobotOutcome]
         /\ Archived = Append(history, current)
         /\ history \in Seq(PhaseRecord)
         /\ state \notin Terminal
BY DEF MissionInv, LifecycleInv, LifecycleTypeOK, StateInv, PhaseRecord, Archived, Terminal,
       ActivePhase

\* A robot's call settles the robot it names and no other.
LEMMA SettledOne ==
  ASSUME NEW ends \in End, calls \in Seq(Call), calls # <<>>, current \in PhaseRecord,
         Settling(ends), Head(calls).method \in RobotMethod,
         ReplaceOutcome(Head(calls).of, Settled(Head(calls))), calls' = Tail(calls)
  PROVE  /\ Settling(ends)'
         /\ Head(calls).of \in Robot
         /\ current'.outcome[Head(calls).of] = ends[Head(calls).of]
         /\ Settled(Head(calls)) = ends[Head(calls).of]
         /\ \A q \in Robot : q # Head(calls).of => current'.outcome[q] = current.outcome[q]
<1> DEFINE r == Head(calls).of
<1>1. /\ r \in ActiveRobots /\ Settled(Head(calls)) = ends[r]
      /\ Covers(Tail(calls), ActiveRobots \ {r}, ends)
  BY CoversTail DEF Settling
<1>2. r \in Robot /\ IsActive(r)
  BY <1>1 DEF ActiveRobots
<1>3. \A q \in Robot : current'.outcome[q] = IF q = r THEN ends[r] ELSE current.outcome[q]
  <2>1. current' = [current EXCEPT !.outcome[r] = ends[r]]
    BY <1>1 DEF ReplaceOutcome
  <2>2. current.outcome \in [Robot -> RobotOutcome]
    BY DEF PhaseRecord
  <2>3. current'.outcome = [current.outcome EXCEPT ![r] = ends[r]]
    BY <2>1 DEF PhaseRecord
  <2> QED  BY <1>2, <2>2, <2>3
<1> HIDE DEF r
<1>4. ends[r] # "active"
  BY <1>2 DEF End
<1>5. ActiveRobots' = ActiveRobots \ {r}
  <2>1. \A q \in Robot : IsActive(q)' <=> IsActive(q) /\ q # r
    BY <1>3, <1>4 DEF IsActive
  <2> QED  BY <2>1 DEF ActiveRobots
<1>6. Agrees(ends)'
  <2>1. \A q \in Robot : IsActive(q) \/ current.outcome[q] = ends[q]
    BY DEF Settling, Agrees
  <2>2. \A q \in Robot : IsActive(q)' \/ current'.outcome[q] = ends[q]
    BY <1>3, <2>1 DEF IsActive
  <2> QED  BY <2>2 DEF Agrees
<1>7. Covers(calls', ActiveRobots', ends)
  BY <1>1, <1>5
<1> QED  BY <1>1, <1>2, <1>3, <1>6, <1>7 DEF Settling, r

LEMMA SettledNone ==
  ASSUME NEW ends, calls \in Seq(Call), calls # <<>>, UNCHANGED current,
         Settling(ends), Head(calls).method \notin RobotMethod, calls' = Tail(calls)
  PROVE  Settling(ends)'
<1>1. Covers(Tail(calls), ActiveRobots, ends)
  BY CoversTail DEF Settling
<1>2. ActiveRobots' = ActiveRobots
  BY DEF ActiveRobots, IsActive
<1>3. Covers(calls', ActiveRobots', ends)
  BY <1>1, <1>2
<1>4. Agrees(ends)'
  BY DEF Settling, Agrees, IsActive
<1> QED  BY <1>3, <1>4 DEF Settling

\* A robot named by the call that is next is still active.
LEMMA NamedIsActive ==
  ASSUME NEW ends, calls \in Seq(Call), calls # <<>>, Settling(ends),
         Head(calls).method \in RobotMethod
  PROVE  IsActive(Head(calls).of)
<1>1. Head(calls).of \in ActiveRobots
  BY CoversTail DEF Settling
<1> QED  BY <1>1 DEF ActiveRobots

\* Nothing is active any more once no call names a robot.
LEMMA NoneNamed ==
  ASSUME NEW ends, Settling(ends),
         \A i \in DOMAIN calls : calls[i].method \notin RobotMethod
  PROVE  /\ \A r \in Robot : ~IsActive(r)
         /\ \A r \in Robot : current.outcome[r] = ends[r]
<1>1. \A r \in Robot : r \notin ActiveRobots
  BY DEF Settling, Covers
<1> QED  BY <1>1 DEF ActiveRobots, Settling, Agrees

\* The lifecycle accepts the next call, unless it ends a split.
LEMMA CallIsAccepted ==
  ASSUME MissionInv, CallsInv, calls # <<>>
  PROVE  \/ Accepts(Head(calls))
         \/ /\ pc = "return" /\ state = "executing_split" /\ AllActive
            /\ Head(calls).method = "finish_partial_split" /\ Head(calls).of \in End
<1> DEFINE c == Head(calls)
<1>0. calls \in Seq(Call) /\ pc \in PC
  BY DEF MissionInv, MissionTypeOK
<1>1. CASE pc = "forming"
  <2>1. calls = <<To("accept", None)>> /\ state = "idle"
    BY <1>1 DEF CallsInv
  <2>2. c.method = "accept"
    BY <2>1 DEF To
  <2> QED  BY <2>1, <2>2 DEF Accepts, MayAccept
<1>2. CASE pc \in {"formation_moving", "executing_split", "regrouping", "finish_success"}
  <2>1. Succeeding
    BY <1>2 DEF CallsInv
  <2>2. c.method \in Quiet
    BY <1>0, <2>1, QuietTail DEF Succeeding
  <2>3. c.method = "record_success" => IsActive(c.of)
    BY <1>0, <2>1, NamedIsActive DEF Succeeding, RobotMethod
  <2> QED  BY <2>1, <2>2, <2>3 DEF Accepts, Quiet, MayRecord, Succeeding
<1>3. CASE pc = "deadline"
  <2>1. CASE \E phase \in ActivePhase : calls = <<To("start_phase", phase)>> /\ MayStartPhase(phase)
    <3>1. PICK phase \in ActivePhase : calls = <<To("start_phase", phase)>> /\ MayStartPhase(phase)
      BY <2>1
    <3>2. c.method = "start_phase" /\ c.of = phase
      BY <3>1 DEF To
    <3> QED  BY <3>1, <3>2 DEF Accepts
  <2>2. CASE /\ calls = <<To("prepare_split", None), To("start_phase", "executing_split")>>
             /\ MayPrepareSplit
    <3>1. c.method = "prepare_split"
      BY <2>2 DEF To
    <3> QED  BY <2>2, <3>1 DEF Accepts
  <2> QED  BY <1>3, <2>1, <2>2 DEF CallsInv, Deadline
<1>4. CASE pc = "return"
  <2>1. CASE calls = <<To("finish_success", None)>> /\ MayFinishSuccess
    <3>1. c.method = "finish_success"
      BY <2>1 DEF To
    <3> QED  BY <2>1, <3>1 DEF Accepts
  <2>2. CASE \E ends \in End :
               calls = <<To("finish_partial_split", ends)>> /\ state = "executing_split" /\ AllActive
    <3>1. PICK ends \in End :
            calls = <<To("finish_partial_split", ends)>> /\ state = "executing_split" /\ AllActive
      BY <2>2
    <3>2. c.method = "finish_partial_split" /\ c.of = ends
      BY <3>1 DEF To
    <3> QED  BY <1>4, <3>1, <3>2
  <2>3. ASSUME NEW ends \in End, Settling(ends), Stopping(ends) PROVE Accepts(c)
    <3>1. PICK k \in DOMAIN calls : StopsAt(calls, k)
      BY <2>3 DEF Stopping
    <3>2. c.method \in StopMethod \cup Quiet
      BY <1>0, <3>1, StopsTail
    <3>3. c.method \in {"record_success", "record_failure"} => MayRecord(c.of)
      BY <1>0, <2>3, NamedIsActive DEF MayRecord, RobotMethod, Stopping
    <3>4. MayRequestCancel /\ MayRequestTimeout
      BY <2>3 DEF Stopping, MayRequestCancel, MayRequestTimeout, ActivePhase, Terminal
    <3> QED  BY <3>2, <3>3, <3>4 DEF Accepts, StopMethod, Quiet
  <2>4. ASSUME NEW ends \in End, Settling(ends), Ending(ends) PROVE Accepts(c)
    <3>1. CASE c.method \in Closing
      <4>1. c.method \in {"record_cancelled", "record_cancellation_failed"} => MayResolve(c.of)
        BY <1>0, <2>4, NamedIsActive DEF MayResolve, RobotMethod, Ending
      <4> QED  BY <3>1, <4>1 DEF Accepts, Closing
    <3>2. CASE c.method = "finish_cancellation" /\ Tail(calls) = <<>>
      <4>1. \A i \in DOMAIN calls : calls[i].method \notin RobotMethod
        <5>1. \A i \in DOMAIN calls : i = 1
          BY <1>0, <3>2, TailOf
        <5> QED  BY <1>0, <3>2, <5>1, TailOf DEF RobotMethod
      <4>2. \A r \in Robot : ~IsActive(r)
        BY <2>4, <4>1, NoneNamed
      <4>3. target # None
        BY <2>4 DEF Ending, MissionInv, LifecycleInv, StateInv
      <4> QED  BY <2>4, <3>2, <4>2, <4>3 DEF Accepts, MayFinishCancellation, Ending
    <3> QED  BY <1>0, <2>4, <3>1, <3>2, ClosesTail DEF Ending
  <2> QED  BY <1>4, <2>1, <2>2, <2>3, <2>4 DEF CallsInv, Returning
<1> QED
  BY <1>0, <1>1, <1>2, <1>3, <1>4 DEF CallsInv, PC, Ended, ActivePhase

-----------------------------------------------------------------------------
(* Steps and the invariant of the calls.                                    *)

\* How a phase that is archived explains the state that follows.
LEMMA EndIsExplained ==
  ASSUME MissionInv, NEW done \in PhaseRecord, history' = Append(history, done),
         UNCHANGED cancelFlag,
         Explains(done.outcome, state'),
         state' = "cancelled" => \A r \in Robot : done.outcome[r] # "failed",
         state' = "succeeded" => done.outcome = All("succeeded")
  PROVE  TerminalStateIsExplained'
<1> DEFINE outcome == done.outcome
<1>1. history'[Len(history')].outcome = outcome
  BY DEF MissionInv, LifecycleInv, LifecycleTypeOK
<1>2. PICK r \in Robot : TRUE
  BY RobotsAssumption DEF Robot
<1>3. All("succeeded")[r] = "succeeded" /\ All("cancelled")[r] = "cancelled"
  BY DEF All
<1>4. \A q \in Robot : All("succeeded")[q] = "succeeded"
  BY DEF All
<1> HIDE DEF outcome
<1>5. state' = "failed" =>
        /\ \E q \in Robot : outcome[q] = "failed"
        /\ ~ \E q \in Robot : outcome[q] = "timed_out"
        /\ outcome # All("succeeded")
  BY <1>4 DEF Explains, outcome
<1>6. state' = "cancelled" =>
        /\ cancelFlag'
        /\ \E q \in Robot : outcome[q] = "cancelled"
        /\ ~ \E q \in Robot : outcome[q] = "failed"
        /\ ~ \E q \in Robot : outcome[q] = "timed_out"
        /\ outcome # All("succeeded")
  BY <1>4 DEF Explains, outcome
<1>7. state' = "timed_out" =>
        /\ (\E q \in Robot : outcome[q] = "timed_out") \/ outcome = All("cancelled")
        /\ outcome # All("succeeded")
  BY <1>3, <1>4 DEF Explains, outcome
<1>8. state' = "succeeded" => outcome = All("succeeded")
  BY DEF outcome
<1> QED  BY <1>1, <1>5, <1>6, <1>7, <1>8 DEF TerminalStateIsExplained, Terminal

LEMMA NotYetExplained == state' \notin Terminal => TerminalStateIsExplained'
BY DEF TerminalStateIsExplained

LEMMA StillExplained ==
  ASSUME TerminalStateIsExplained, UNCHANGED <<state, history, cancelFlag>>
  PROVE  TerminalStateIsExplained'
BY DEF TerminalStateIsExplained

\* Once every robot is settled the barrier is complete.
LEMMA SettledIsBarrier ==
  ASSUME MissionInv, state \in ActivePhase, Settling(All("succeeded")), calls = <<>>
  PROVE  BarrierComplete
<1>1. current.outcome \in [Robot -> RobotOutcome]
  BY PhaseUnderWay
<1>2. \A r \in Robot : current.outcome[r] = All("succeeded")[r]
  BY NoneNamed
<1>3. current.outcome = All("succeeded")
  BY <1>1, <1>2 DEF All
<1> QED  BY <1>3 DEF BarrierComplete, Succeeded

\* While successes are recorded.
LEMMA SucceedingHolds ==
  ASSUME MissionInv, Succeeding, Return
  PROVE  Succeeding' /\ UNCHANGED <<plan, state, history>>
<1> DEFINE c == Head(calls)
<1>1. /\ calls \in Seq(Call) /\ calls # <<>> /\ Perform(c) /\ calls' = Tail(calls)
      /\ current \in PhaseRecord
  BY PhaseUnderWay DEF Return, MissionInv, MissionTypeOK, Succeeding
<1>2. c.method \in Quiet /\ AllQuiet(calls')
  BY <1>1, QuietTail DEF Succeeding
<1>3. All("succeeded") \in End
  BY DEF All, End, RobotOutcome
<1>4. CASE c.method = "none"
  <2>1. UNCHANGED lifecycleVars
    BY <1>1, <1>4 DEF Perform
  <2>2. Settling(All("succeeded"))'
    BY <1>1, <1>4, <2>1, SettledNone DEF Succeeding, RobotMethod, lifecycleVars
  <2> QED  BY <1>2, <2>1, <2>2 DEF Succeeding, AllQuiet, lifecycleVars
<1>5. CASE c.method = "record_success"
  <2>1. RecordSuccess(c.of)
    BY <1>1, <1>5 DEF Perform
  <2>2. ReplaceOutcome(c.of, Settled(c)) /\ UNCHANGED <<plan, state, history>>
    BY <1>5, <2>1 DEF RecordSuccess, Settled
  <2>3. Settling(All("succeeded"))'
    BY <1>1, <1>3, <1>5, <2>2, SettledOne DEF Succeeding, RobotMethod
  <2> QED  BY <1>2, <2>2, <2>3 DEF Succeeding, AllQuiet
<1> QED  BY <1>2, <1>4, <1>5 DEF Quiet

\* While a phase is begun.
LEMMA DeadlineHolds ==
  ASSUME MissionInv, Deadline, Return
  PROVE  Deadline' /\ state' \notin Terminal
<1> DEFINE c == Head(calls)
<1>1. calls \in Seq(Call) /\ calls # <<>> /\ Perform(c) /\ calls' = Tail(calls)
  BY DEF Return, MissionInv, MissionTypeOK
<1>2. CASE \E phase \in ActivePhase : calls = <<To("start_phase", phase)>>
  <2>1. PICK phase \in ActivePhase : calls = <<To("start_phase", phase)>>
    BY <1>2
  <2>2. c.method = "start_phase" /\ c.of = phase /\ calls' = <<>>
    BY <1>1, <2>1 DEF To
  <2>3. StartPhase(phase)
    BY <1>1, <2>2 DEF Perform
  <2>4. state' = phase /\ AllActive'
    BY <2>3 DEF StartPhase, AllActive
  <2> QED  BY <2>2, <2>4 DEF Deadline, ActivePhase, Terminal
<1>3. CASE calls = <<To("prepare_split", None), To("start_phase", "executing_split")>>
  <2>1. c.method = "prepare_split" /\ calls' = <<To("start_phase", "executing_split")>>
    BY <1>1, <1>3 DEF To
  <2>2. PrepareSplit
    BY <1>1, <2>1 DEF Perform
  <2>3. state' = "splitting" /\ current' = NoPhase
    BY <2>2 DEF PrepareSplit
  <2>4. MayStartPhase("executing_split")'
    BY <2>3 DEF MayStartPhase, Expected
  <2>5. "executing_split" \in ActivePhase
    BY DEF ActivePhase
  <2>6. Deadline'
    BY <2>1, <2>4, <2>5 DEF Deadline
  <2> QED  BY <2>3, <2>6 DEF Terminal
<1> QED  BY <1>1, <1>2, <1>3 DEF Deadline

\* While the calls that stop a mission are made: until the stop ...
LEMMA StoppingHolds ==
  ASSUME MissionInv, NEW ends \in End, Settling(ends), Stopping(ends), Return
  PROVE  Settling(ends)' /\ (Stopping(ends)' \/ Ending(ends)') /\ state' \notin Terminal
<1> DEFINE c == Head(calls)
<1>1. /\ calls \in Seq(Call) /\ calls # <<>> /\ Perform(c) /\ calls' = Tail(calls)
      /\ current \in PhaseRecord /\ state \in ActivePhase /\ state \notin Terminal
      /\ UNCHANGED cancelFlag
  BY PhaseUnderWay DEF Return, MissionInv, MissionTypeOK, Stopping
<1>2. PICK k \in DOMAIN calls : StopsAt(calls, k) /\ Explains(ends, Target(calls[k]))
  BY DEF Stopping
<1>3. /\ \A r \in Robot : current.outcome[r] \in {"active", "succeeded"}
      /\ \A r \in Robot : current.outcome[r] # "failed"
  BY DEF Stopping
<1>4. \A e : Explains(ends, e)' <=> Explains(ends, e)
  BY <1>1 DEF Explains
<1>5. CASE c.method \in Quiet
  <2>1. k - 1 \in DOMAIN calls' /\ calls'[k - 1] = calls[k] /\ StopsAt(calls', k - 1)
    <3>1. c.method \notin StopMethod
      BY <1>5 DEF Quiet, StopMethod
    <3> QED  BY <1>1, <1>2, <3>1, StopsTail
  <2>2. CASE c.method = "none"
    <3>1. UNCHANGED lifecycleVars
      BY <1>1, <2>2 DEF Perform
    <3>2. Settling(ends)'
      BY <1>1, <2>2, <3>1, SettledNone DEF RobotMethod, lifecycleVars
    <3>3. Stopping(ends)'
      <4>1. state' \in ActivePhase /\ \A r \in Robot : current'.outcome[r] \in {"active", "succeeded"}
        BY <1>1, <1>3, <3>1 DEF lifecycleVars
      <4> QED  BY <1>2, <1>4, <2>1, <4>1 DEF Stopping, StopsAt, Target
    <3> QED  BY <1>1, <3>1, <3>2, <3>3 DEF lifecycleVars
  <2>3. CASE c.method = "record_success"
    <3>1. RecordSuccess(c.of)
      BY <1>1, <2>3 DEF Perform
    <3>2. ReplaceOutcome(c.of, Settled(c)) /\ UNCHANGED state /\ Settled(c) = "succeeded"
      BY <2>3, <3>1 DEF RecordSuccess, Settled
    <3>3. /\ Settling(ends)'
          /\ \A r \in Robot : current'.outcome[r] \in {"succeeded", current.outcome[r]}
      BY <1>1, <2>3, <3>2, SettledOne DEF RobotMethod
    <3>4. Stopping(ends)'
      <4>1. state' \in ActivePhase /\ \A r \in Robot : current'.outcome[r] \in {"active", "succeeded"}
        BY <1>1, <1>3, <3>2, <3>3
      <4> QED  BY <1>2, <1>4, <2>1, <4>1 DEF Stopping, StopsAt, Target
    <3> QED  BY <1>1, <3>2, <3>3, <3>4
  <2> QED  BY <1>5, <2>2, <2>3 DEF Quiet
<1>6. CASE c.method \in StopMethod
  <2>1. c = calls[k] /\ Closes(calls')
    <3>1. c.method \notin Quiet
      BY <1>6 DEF Quiet, StopMethod
    <3> QED  BY <1>1, <1>2, <3>1, StopsTail
  <2>2. CASE c.method = "record_failure"
    <3>1. RecordFailure(c.of, c.as) /\ Settled(c) = c.as /\ Target(c) = c.as /\ c.as \in Failure
      BY <1>1, <2>2 DEF Perform, Settled, Target, Call
    <3>2. ReplaceOutcome(c.of, Settled(c)) /\ state' = "cancelling" /\ target' = c.as
      BY <3>1 DEF RecordFailure
    <3>3. Settling(ends)'
      BY <1>1, <2>2, <3>2, SettledOne DEF RobotMethod
    <3>4. Ending(ends)'
      BY <1>1, <1>4, <1>2, <2>1, <3>1, <3>2 DEF Ending, Closes, Failure
    <3> QED  BY <3>2, <3>3, <3>4 DEF Terminal
  <2>3. CASE c.method = "request_cancel"
    <3>1. RequestCancel /\ Target(c) = "cancelled"
      BY <1>1, <2>3 DEF Perform, Target
    <3>2. state' = "cancelling" /\ target' = "cancelled" /\ UNCHANGED current
      BY <1>1, <3>1, PhaseUnderWay DEF RequestCancel
    <3>3. Settling(ends)'
      BY <1>1, <2>3, <3>2, SettledNone DEF RobotMethod
    <3>4. Ending(ends)'
      BY <1>1, <1>2, <1>3, <1>4, <2>1, <3>1, <3>2 DEF Ending, Closes
    <3> QED  BY <3>2, <3>3, <3>4 DEF Terminal
  <2>4. CASE c.method = "request_timeout"
    <3>1. RequestTimeout /\ Target(c) = "timed_out"
      BY <1>1, <2>4 DEF Perform, Target
    <3>2. state' = "cancelling" /\ target' = "timed_out" /\ UNCHANGED current
      BY <3>1 DEF RequestTimeout
    <3>3. Settling(ends)'
      BY <1>1, <2>4, <3>2, SettledNone DEF RobotMethod
    <3>4. Ending(ends)'
      BY <1>1, <1>2, <1>4, <2>1, <3>1, <3>2 DEF Ending, Closes
    <3> QED  BY <3>2, <3>3, <3>4 DEF Terminal
  <2> QED  BY <1>6, <2>2, <2>3, <2>4 DEF StopMethod
<1> QED  BY <1>1, <1>2, <1>5, <1>6, StopsTail

\* ... and from there to the end.
LEMMA EndingHolds ==
  ASSUME MissionInv, NEW ends \in End, Settling(ends), Ending(ends), Return
  PROVE  \/ Settling(ends)' /\ Ending(ends)' /\ state' \notin Terminal
         \/ calls' = <<>> /\ state' \in Terminal /\ TerminalStateIsExplained'
<1> DEFINE c == Head(calls)
<1>1. /\ calls \in Seq(Call) /\ calls # <<>> /\ Perform(c) /\ calls' = Tail(calls)
      /\ current \in PhaseRecord /\ state = "cancelling"
      /\ UNCHANGED cancelFlag
  BY PhaseUnderWay DEF Return, MissionInv, MissionTypeOK, Ending
<1>2. /\ Closes(calls) /\ Explains(ends, target)
      /\ target = "cancelled" => \A r \in Robot : current.outcome[r] # "failed"
  BY DEF Ending
<1>3. \A e : Explains(ends, e)' <=> Explains(ends, e)
  BY <1>1 DEF Explains
<1>4. CASE c.method \in Closing
  <2>1. Closes(calls')
    <3>1. c.method # "finish_cancellation"
      BY <1>4 DEF Closing
    <3> QED  BY <1>1, <1>2, <3>1, ClosesTail
  <2>2. CASE c.method = "none"
    <3>1. UNCHANGED lifecycleVars
      BY <1>1, <2>2 DEF Perform
    <3>2. Settling(ends)'
      BY <1>1, <2>2, <3>1, SettledNone DEF RobotMethod, lifecycleVars
    <3> QED  BY <1>1, <1>2, <1>3, <2>1, <3>1, <3>2 DEF Ending, Closes, Terminal, lifecycleVars
  <2>3. CASE c.method = "record_cancelled"
    <3>1. RecordCancelled(c.of)
      BY <1>1, <2>3 DEF Perform
    <3>2. ReplaceOutcome(c.of, Settled(c)) /\ UNCHANGED <<state, target>> /\ Settled(c) = "cancelled"
      BY <2>3, <3>1 DEF RecordCancelled, Settled
    <3>3. /\ Settling(ends)'
          /\ \A r \in Robot : current'.outcome[r] \in {"cancelled", current.outcome[r]}
      BY <1>1, <2>3, <3>2, SettledOne DEF RobotMethod
    <3> QED  BY <1>1, <1>2, <1>3, <2>1, <3>2, <3>3 DEF Ending, Closes, Terminal
  <2>4. CASE c.method = "record_cancellation_failed"
    <3>1. RecordCancellationFailed(c.of)
      BY <1>1, <2>4 DEF Perform
    <3>2. /\ ReplaceOutcome(c.of, Settled(c)) /\ UNCHANGED state /\ Settled(c) = "failed"
          /\ target' = IF target = "cancelled" THEN "failed" ELSE target
      BY <2>4, <3>1 DEF RecordCancellationFailed, Settled
    <3>3. Settling(ends)' /\ ends[c.of] = "failed" /\ c.of \in Robot
      BY <1>1, <2>4, <3>2, SettledOne DEF RobotMethod
    <3>4. Explains(ends, target')
      BY <1>2, <3>2, <3>3 DEF Explains
    <3> QED  BY <1>1, <1>3, <2>1, <3>2, <3>3, <3>4 DEF Ending, Closes, Terminal
  <2> QED  BY <1>4, <2>2, <2>3, <2>4 DEF Closing
<1>5. CASE c.method = "finish_cancellation" /\ Tail(calls) = <<>>
  <2>1. FinishCancellation
    BY <1>1, <1>5 DEF Perform
  <2>2. /\ \A r \in Robot : ~IsActive(r)
        /\ state' = target /\ target # None /\ history' = Append(history, current)
    BY <2>1, <1>1, PhaseUnderWay DEF FinishCancellation, MayFinishCancellation
  <2>3. target \in Terminal \ {"succeeded"}
    BY <2>2 DEF MissionInv, LifecycleInv, LifecycleTypeOK
  <2>4. current.outcome = ends
    <3>1. \A r \in Robot : current.outcome[r] = ends[r]
      BY <2>2 DEF Settling, Agrees
    <3>2. current.outcome \in [Robot -> RobotOutcome] /\ ends \in [Robot -> RobotOutcome]
      BY <1>1 DEF PhaseRecord, End
    <3> QED  BY <3>1, <3>2
  <2>5. TerminalStateIsExplained'
    BY <1>1, <1>2, <2>2, <2>3, <2>4, EndIsExplained
  <2> QED  BY <1>1, <1>5, <2>2, <2>3, <2>5
<1> QED  BY <1>1, <1>2, <1>4, <1>5, ClosesTail

LEMMA ReturningHolds ==
  ASSUME MissionInv, Returning, Return
  PROVE  Returning' /\ TerminalStateIsExplained'
<1> DEFINE c == Head(calls)
<1>1. /\ calls \in Seq(Call) /\ calls # <<>> /\ Perform(c) /\ calls' = Tail(calls)
      /\ UNCHANGED cancelFlag
  BY DEF Return, MissionInv, MissionTypeOK
<1>2. CASE calls = <<To("finish_success", None)>> /\ MayFinishSuccess
  <2>1. c.method = "finish_success" /\ calls' = <<>>
    BY <1>1, <1>2 DEF To
  <2>2. FinishSuccess /\ state \in ActivePhase
    BY <1>1, <1>2, <2>1 DEF Perform, MayFinishSuccess, LastPhase, ActivePhase
  <2>3. /\ state' = "succeeded" /\ history' = Append(history, current) /\ current \in PhaseRecord
        /\ current.outcome = All("succeeded")
    BY <1>2, <2>2, PhaseUnderWay
    DEF FinishSuccess, MayFinishSuccess, BarrierComplete, Succeeded
  <2>4. Explains(current.outcome, "succeeded")
    BY DEF Explains
  <2>5. TerminalStateIsExplained'
    BY <1>1, <2>3, <2>4, EndIsExplained
  <2> QED  BY <2>1, <2>3, <2>5 DEF Returning, Terminal
<1>3. ASSUME NEW ends \in End, calls = <<To("finish_partial_split", ends)>>,
             state = "executing_split"
      PROVE  Returning' /\ TerminalStateIsExplained'
  <2> DEFINE done == [current EXCEPT !.outcome = ends]
  <2>1. c.method = "finish_partial_split" /\ c.of = ends /\ calls' = <<>>
    BY <1>1, <1>3 DEF To
  <2>2. FinishPartialSplit(ends)
    BY <1>1, <2>1 DEF Perform
  <2>3. done \in PhaseRecord /\ done.outcome = ends
    BY <1>3, PhaseUnderWay DEF PhaseRecord, ActivePhase, End
  <2>4. /\ history' = Append(history, done)
        /\ state' = IF \E r \in Robot : ends[r] = "timed_out" THEN "timed_out" ELSE "failed"
        /\ \E r \in Robot : ends[r] \in Failure
    BY <2>2 DEF FinishPartialSplit, PartialSplitFinishes, SomeFailed
  <2> HIDE DEF done
  <2>5. state' \in {"timed_out", "failed"} /\ Explains(ends, state')
    BY <2>4 DEF Explains, Failure
  <2>6. TerminalStateIsExplained'
    BY <1>1, <2>3, <2>4, <2>5, EndIsExplained
  <2> QED  BY <2>1, <2>5, <2>6 DEF Returning, Terminal
<1>4. ASSUME NEW ends \in End, Settling(ends), Stopping(ends)
      PROVE  Returning' /\ TerminalStateIsExplained'
  <2>1. Settling(ends)' /\ (Stopping(ends)' \/ Ending(ends)') /\ state' \notin Terminal
    BY <1>4, StoppingHolds
  <2>2. Returning'
    BY <2>1 DEF Returning
  <2> QED  BY <2>1, <2>2, NotYetExplained
<1>5. ASSUME NEW ends \in End, Settling(ends), Ending(ends)
      PROVE  Returning' /\ TerminalStateIsExplained'
  <2>1. CASE Settling(ends)' /\ Ending(ends)' /\ state' \notin Terminal
    <3>1. Returning'
      BY <2>1 DEF Returning
    <3> QED  BY <2>1, <3>1, NotYetExplained
  <2>2. CASE calls' = <<>> /\ state' \in Terminal /\ TerminalStateIsExplained'
    BY <2>2 DEF Returning
  <2> QED  BY <1>5, <2>1, <2>2, EndingHolds
<1> QED  BY <1>1, <1>2, <1>3, <1>4, <1>5 DEF Returning

\* A call that returns.
LEMMA ReturnHolds ==
  ASSUME MissionInv, CallsInv, Return
  PROVE  CallsInv' /\ RaisesInSplitOnly' /\ TerminalStateIsExplained'
<1>1. /\ calls \in Seq(Call) /\ calls # <<>> /\ pc' = pc /\ pc \in PC
      /\ Perform(Head(calls)) /\ calls' = Tail(calls)
  BY DEF Return, MissionInv, MissionTypeOK
<1>2. pc # "lifecycle_error"
  BY <1>1 DEF CallsInv
<1>3. RaisesInSplitOnly'
  BY <1>1, <1>2 DEF RaisesInSplitOnly
<1>4. CASE pc = "forming"
  <2>1. calls = <<To("accept", None)>>
    BY <1>1, <1>4 DEF CallsInv
  <2>2. Head(calls).method = "accept" /\ calls' = <<>>
    BY <1>1, <2>1 DEF To
  <2>3. Accept
    BY <1>1, <2>2 DEF Perform
  <2>4. state' = "validated"
    BY <2>3 DEF Accept
  <2>5. CallsInv'
    BY <1>1, <1>4, <2>2, <2>4 DEF CallsInv
  <2>6. TerminalStateIsExplained'
    BY <2>4, NotYetExplained DEF Terminal
  <2> QED  BY <1>3, <2>5, <2>6
<1>5. CASE pc \in {"formation_moving", "executing_split", "regrouping", "finish_success"}
  <2>1. Succeeding' /\ UNCHANGED <<plan, state, history>> /\ pc = AfterPhase
    BY <1>5, SucceedingHolds DEF CallsInv
  <2>2. AfterPhase' = AfterPhase
    BY <2>1 DEF AfterPhase
  <2>3. CallsInv'
    BY <1>1, <1>5, <2>1, <2>2 DEF CallsInv
  <2>4. TerminalStateIsExplained'
    BY <2>1, NotYetExplained DEF Succeeding, ActivePhase, Terminal
  <2> QED  BY <1>3, <2>3, <2>4
<1>6. CASE pc = "deadline"
  <2>1. Deadline' /\ state' \notin Terminal
    BY <1>6, DeadlineHolds DEF CallsInv
  <2>2. CallsInv'
    BY <1>1, <1>6, <2>1 DEF CallsInv
  <2> QED  BY <1>3, <2>1, <2>2, NotYetExplained
<1>7. CASE pc = "return"
  <2>1. Returning' /\ TerminalStateIsExplained'
    BY <1>7, ReturningHolds DEF CallsInv
  <2>2. CallsInv'
    BY <1>1, <1>7, <2>1 DEF CallsInv
  <2> QED  BY <1>3, <2>1, <2>2
<1> QED  BY <1>1, <1>4, <1>5, <1>6, <1>7 DEF CallsInv, PC, Ended, ActivePhase

\* A call that raises: the end of a split whose robots only succeeded or were
\* cancelled.
LEMMA RaiseHolds ==
  ASSUME MissionInv, CallsInv, Raise
  PROVE  CallsInv' /\ RaisesInSplitOnly' /\ TerminalStateIsExplained'
<1> DEFINE c == Head(calls)
<1>1. calls # <<>> /\ calls' = <<>> /\ pc' = "lifecycle_error"
  BY DEF Raise
<1>2. c.method = "finish_partial_split" =>
        /\ FinishPartialSplitRaises(c.of)
        /\ ~Accepts(c)
  BY DEF Raise, FinishPartialSplitRaises, Accepts
<1>3. c.method # "finish_partial_split" => ~Accepts(c)
  BY DEF Raise
<1>4. /\ state = "executing_split" /\ AllActive /\ c.of \in End
      /\ FinishPartialSplitRaises(c.of)
  BY <1>1, <1>2, <1>3, CallIsAccepted
<1>5. /\ state' = "executing_split"
      /\ current' = [current EXCEPT !.outcome = ReplacedUpToResolved(c.of)]
      /\ ~SomeFailed(c.of)
  BY <1>4 DEF FinishPartialSplitRaises, PartialSplitFinishes
<1>6. \A r \in Robot : current'.outcome[r] \in {"succeeded", "cancelled"}
  <2>1. \A r \in Robot : c.of[r] \in {"succeeded", "cancelled"}
    BY <1>4, <1>5 DEF End, RobotOutcome, SomeFailed, Failure
  <2>2. \A r \in Robot : current.outcome[r] = "active"
    BY <1>4 DEF AllActive, All
  <2>3. \A i \in DOMAIN RobotIds : current.outcome[RobotIds[i]] = "active"
    BY <2>2 DEF Robot
  <2>4. \A r \in Robot : ReplacedUpToResolved(c.of)[r] = c.of[r]
    BY <2>3 DEF ReplacedUpToResolved
  <2>5. current'.outcome = ReplacedUpToResolved(c.of)
    BY <1>4, <1>5, PhaseUnderWay DEF PhaseRecord, ActivePhase
  <2> QED  BY <2>1, <2>4, <2>5
<1>7. CallsInv'
  BY <1>1 DEF CallsInv
<1>8. RaisesInSplitOnly'
  BY <1>5, <1>6 DEF RaisesInSplitOnly
<1>9. TerminalStateIsExplained'
  BY <1>5, NotYetExplained DEF Terminal
<1> QED  BY <1>7, <1>8, <1>9

\* The calls that end a phase are made while all robots are active.
LEMMA PhaseEnds ==
  ASSUME MissionInv, state \in ActivePhase, AllActive,
         UNCHANGED <<lifecycleVars, cancelFlag>>, NEW ends \in End,
         Covers(calls', Robot, ends)
  PROVE  /\ Settling(ends)'
         /\ AllQuiet(calls') /\ ends = All("succeeded") => Succeeding'
         /\ (\E k \in DOMAIN calls' : StopsAt(calls', k) /\ Explains(ends, Target(calls'[k])))
              => Stopping(ends)'
<1>1. \A r \in Robot : current.outcome[r] = "active" /\ current'.outcome[r] = "active"
  BY DEF AllActive, All, lifecycleVars
<1>2. ActiveRobots' = Robot
  BY <1>1 DEF ActiveRobots, IsActive
<1>3. Covers(calls', ActiveRobots', ends)
  BY <1>2
<1>4. Agrees(ends)'
  BY <1>1 DEF Agrees, IsActive
<1>5. Settling(ends)'
  BY <1>3, <1>4 DEF Settling
<1>6. state' \in ActivePhase
  BY DEF lifecycleVars
<1>7. ASSUME AllQuiet(calls'), ends = All("succeeded") PROVE Succeeding'
  BY <1>5, <1>6, <1>7 DEF Succeeding, AllQuiet
<1>8. ASSUME NEW k \in DOMAIN calls', StopsAt(calls', k), Explains(ends, Target(calls'[k]))
      PROVE  Stopping(ends)'
  <2>1. \A e : Explains(ends, e)' <=> Explains(ends, e)
    BY DEF Explains
  <2>2. \A r \in Robot : current'.outcome[r] \in {"active", "succeeded"}
    BY <1>1
  <2> QED  BY <1>6, <1>8, <2>1, <2>2 DEF Stopping, StopsAt, Target
<1> QED  BY <1>5, <1>7, <1>8

LEMMA NextPhase ==
  /\ AfterPhase \in {"formation_moving", "executing_split", "regrouping", "finish_success"}
  /\ UNCHANGED lifecycleVars => AfterPhase' = AfterPhase
BY DEF AfterPhase, lifecycleVars

\* A navigation call of a batch or of a formation returns.
LEMMA BatchReturns ==
  ASSUME MissionInv, CallsInv, pc = "navigate",
         NEW batch \in BatchResults(cancelFlag),
         Continue(After(batch), ApplyNavigationBatch(batch)), UNCHANGED cancelFlag
  PROVE  CallsInv'
<1>1. /\ state \in ActivePhase /\ AllActive
      /\ pc' = After(batch) /\ calls' = ApplyNavigationBatch(batch)
      /\ UNCHANGED lifecycleVars
  BY DEF CallsInv, Continue
<1>2. CASE Succeeded(batch)
  <2>1. AllQuiet(calls') /\ Covers(calls', Robot, All("succeeded"))
    BY <1>1, <1>2, BatchSucceeds
  <2>2. All("succeeded") \in End
    BY DEF All, End, RobotOutcome
  <2>3. Succeeding'
    BY <1>1, <2>1, <2>2, PhaseEnds
  <2>4. pc' = AfterPhase' /\ pc' \in {"formation_moving", "executing_split", "regrouping", "finish_success"}
    BY <1>1, <1>2, NextPhase DEF After
  <2> QED  BY <2>3, <2>4 DEF CallsInv
<1>3. CASE ~Succeeded(batch)
  <2> DEFINE ends == [r \in Robot |-> SplitOutcome(batch[r])]
  <2>1. /\ ends \in End /\ Covers(calls', Robot, ends)
        /\ \E k \in DOMAIN calls' : StopsAt(calls', k) /\ Explains(ends, Target(calls'[k]))
    BY <1>1, <1>3, BatchStops
  <2> HIDE DEF ends
  <2>2. Settling(ends)' /\ Stopping(ends)'
    BY <1>1, <2>1, PhaseEnds
  <2>3. Returning'
    BY <2>1, <2>2 DEF Returning
  <2> QED  BY <1>1, <1>3, <2>3 DEF CallsInv, After
<1> QED  BY <1>2, <1>3

LEMMA SplitReturns ==
  ASSUME MissionInv, CallsInv, ExecuteSplitReturns
  PROVE  CallsInv'
<1>1. PICK batch \in SplitResults : Continue(After(batch), ApplySplitResult(batch))
  BY DEF ExecuteSplitReturns
<1>2. /\ state = "executing_split" /\ state \in ActivePhase /\ AllActive
      /\ pc' = After(batch) /\ calls' = ApplySplitResult(batch)
      /\ UNCHANGED <<lifecycleVars, cancelFlag>>
  BY <1>1 DEF ExecuteSplitReturns, CallsInv, Continue
<1>3. CASE Succeeded(batch)
  <2>1. AllQuiet(calls') /\ Covers(calls', Robot, All("succeeded"))
    BY <1>2, <1>3, BatchSucceeds
  <2>2. All("succeeded") \in End
    BY DEF All, End, RobotOutcome
  <2>3. Succeeding'
    BY <1>2, <2>1, <2>2, PhaseEnds
  <2>4. pc' = AfterPhase' /\ pc' \in {"formation_moving", "executing_split", "regrouping", "finish_success"}
    BY <1>2, <1>3, NextPhase DEF After
  <2> QED  BY <2>3, <2>4 DEF CallsInv
<1>4. CASE ~Succeeded(batch)
  <2> DEFINE ends == [r \in Robot |-> SplitOutcome(batch[r])]
  <2>1. calls' = <<To("finish_partial_split", ends)>> /\ pc' = "return"
    BY <1>2, <1>4 DEF ApplySplitResult, After
  <2>2. ends \in End
    BY DEF SplitOutcome, End, RobotOutcome
  <2> HIDE DEF ends
  <2>3. state' = "executing_split" /\ AllActive'
    BY <1>2 DEF lifecycleVars, AllActive
  <2>4. Returning'
    BY <2>1, <2>2, <2>3 DEF Returning
  <2> QED  BY <2>1, <2>4 DEF CallsInv
<1> QED  BY <1>3, <1>4

LEMMA TwoCalls ==
  LET p == To("prepare_split", None)
      q == To("start_phase", "executing_split")
  IN  <<p>> \o <<q>> = <<p, q>>
<1> DEFINE p == To("prepare_split", None)
           q == To("start_phase", "executing_split")
           s == <<p>>
           t == <<q>>
           w == <<p, q>>
<1>1. p \in Call /\ q \in Call
  BY DEF To, Call, ActivePhase
<1> HIDE DEF p, q
<1>2. /\ s \in Seq(Call) /\ t \in Seq(Call) /\ w \in Seq(Call)
      /\ Len(s) = 1 /\ Len(t) = 1 /\ s[1] = p /\ t[1] = q
      /\ DOMAIN s = {1} /\ DOMAIN t = {1}
  BY <1>1
<1>3. w = [i \in 1 .. 2 |-> IF i = 1 THEN p ELSE q]
  OBVIOUS
<1> HIDE DEF s, t, w
<1> DEFINE u == s \o t
<1>4. u \in Seq(Call) /\ Len(u) = 2 /\ u[1] = p /\ u[2] = q
  <2>1. u \in Seq(Call) /\ Len(u) = Len(s) + Len(t)
    BY <1>2, Joined
  <2>2. 1 \in DOMAIN s /\ 1 \in DOMAIN t
    BY <1>2
  <2>3. u[1] = s[1] /\ u[Len(s) + 1] = t[1]
    BY <1>2, <2>2, Joined
  <2>4. Len(s) + Len(t) = 2 /\ Len(s) + 1 = 2
    BY <1>2
  <2> QED  BY <1>2, <2>1, <2>3, <2>4
<1> HIDE DEF u
<1>5. u = [i \in 1 .. 2 |-> u[i]]
  BY <1>4
<1>6. \A i \in 1 .. 2 : i = 1 \/ i = 2
  OBVIOUS
<1>7. u = [i \in 1 .. 2 |-> IF i = 1 THEN p ELSE q]
  BY <1>4, <1>5, <1>6
<1> QED  BY <1>3, <1>7 DEF u, s, t, w, p, q

LEMMA PhaseBegins ==
  ASSUME MissionInv, CallsInv, BeginPhase
  PROVE  CallsInv'
<1>1. /\ pc \in ActivePhase /\ calls = <<>> /\ pc' = "deadline" /\ UNCHANGED lifecycleVars
      /\ calls' = (IF pc = "executing_split" THEN <<To("prepare_split", None)>> ELSE <<>>)
                    \o <<To("start_phase", pc)>>
  BY DEF BeginPhase, Continue
<1>2. pc # "executing_split" => calls' = <<To("start_phase", pc)>>
  BY <1>1
<1>3. CASE pc = "forming"
  <2>1. state = "validated"
    BY <1>1, <1>3 DEF CallsInv
  <2>2. current = NoPhase
    BY <2>1 DEF MissionInv, LifecycleInv, StateInv, ActivePhase
  <2>3. MayStartPhase(pc)
    BY <1>3, <2>1, <2>2 DEF MayStartPhase, Expected
  <2>4. Deadline'
    BY <1>1, <1>2, <1>3, <2>3
    DEF Deadline, MayStartPhase, Expected, BarrierComplete, lifecycleVars
  <2> QED  BY <1>1, <2>4 DEF CallsInv
<1>4. CASE pc \in {"formation_moving", "executing_split", "regrouping"}
  <2>1. pc = AfterPhase /\ state \in ActivePhase /\ BarrierComplete
    BY <1>1, <1>4, SettledIsBarrier DEF CallsInv, Succeeding
  <2>2. CASE pc = "executing_split"
    <3>1. MayPrepareSplit
      BY <2>1, <2>2 DEF AfterPhase, MayPrepareSplit, ActivePhase
    <3>2. calls' = <<To("prepare_split", None), To("start_phase", "executing_split")>>
      <4>1. calls' = <<To("prepare_split", None)>> \o <<To("start_phase", "executing_split")>>
        BY <1>1, <2>2
      <4> QED  BY <4>1, TwoCalls
    <3>3. MayPrepareSplit'
      BY <1>1, <3>1 DEF MayPrepareSplit, BarrierComplete, lifecycleVars
    <3>4. Deadline'
      BY <3>2, <3>3 DEF Deadline
    <3> QED  BY <1>1, <3>4 DEF CallsInv
  <2>3. CASE pc # "executing_split"
    <3>1. Expected(pc)
      BY <1>4, <2>1, <2>3 DEF AfterPhase, Expected, ActivePhase
    <3>2. MayStartPhase(pc)
      BY <2>1, <3>1 DEF MayStartPhase
    <3>3. Deadline'
      BY <1>1, <1>2, <2>3, <3>2
      DEF Deadline, MayStartPhase, Expected, BarrierComplete, lifecycleVars
    <3> QED  BY <1>1, <3>3 DEF CallsInv
  <2> QED  BY <2>2, <2>3
<1> QED  BY <1>1, <1>3, <1>4 DEF ActivePhase

LEMMA TimeIsOut ==
  ASSUME MissionInv, CallsInv, OutOfTime
  PROVE  CallsInv'
<1>1. /\ state \in ActivePhase /\ AllActive
      /\ pc' = "return" /\ calls' = UndispatchedTimeout
      /\ UNCHANGED <<lifecycleVars, cancelFlag>>
  BY DEF OutOfTime, CallsInv, Deadline, Continue
<1>2. All("cancelled") \in End
  BY DEF All, End, RobotOutcome
<1>3. /\ Covers(calls', Robot, All("cancelled"))
      /\ StopsAt(calls', 1) /\ Explains(All("cancelled"), Target(calls'[1]))
      /\ 1 \in DOMAIN calls'
  BY <1>1, TimeoutStops DEF StopsAt
<1>4. Settling(All("cancelled"))' /\ Stopping(All("cancelled"))'
  BY <1>1, <1>2, <1>3, PhaseEnds
<1>5. Returning'
  BY <1>2, <1>4 DEF Returning
<1> QED  BY <1>1, <1>5 DEF CallsInv

\* When no call is left the mission is over.
LEMMA NoCallIsOver ==
  ASSUME MissionInv, Returning, calls = <<>>
  PROVE  state \in Terminal
<1>1. ASSUME NEW ends, Stopping(ends) PROVE FALSE
  BY <1>1 DEF Stopping
<1>2. ASSUME NEW ends, Ending(ends) PROVE FALSE
  BY <1>2 DEF Ending, Closes
<1> QED  BY <1>1, <1>2 DEF Returning

RecordInv == CallsInv /\ RaisesInSplitOnly /\ TerminalStateIsExplained

\* One step per action.
LEMMA RecordHolds ==
  ASSUME MissionInv, RecordInv, [Next]_vars
  PROVE  RecordInv'
<1>0. CallsInv /\ RaisesInSplitOnly /\ TerminalStateIsExplained /\ pc \in PC
  BY DEF RecordInv, MissionInv, MissionTypeOK
<1>1. CASE Return
  BY <1>0, <1>1, ReturnHolds DEF RecordInv
<1>2. CASE Raise
  BY <1>0, <1>2, RaiseHolds DEF RecordInv
<1>3. CASE UNCHANGED vars
  <2>1. UNCHANGED <<plan, state, current, history, target, pc, calls, cancelFlag, resultFile>>
    BY <1>3 DEF vars, lifecycleVars, missionVars
  <2>2. Deadline' <=> Deadline
    BY <2>1 DEF Deadline, AllActive, MayStartPhase, Expected, BarrierComplete, MayPrepareSplit
  <2>3. \A ends : Settling(ends)' <=> Settling(ends)
    BY <2>1 DEF Settling, ActiveRobots, IsActive, Agrees, Covers
  <2>4. \A ends : (Stopping(ends)' <=> Stopping(ends)) /\ (Ending(ends)' <=> Ending(ends))
    BY <2>1 DEF Stopping, Ending, StopsAt, Closes, Explains, Target
  <2>5. Succeeding' <=> Succeeding
    BY <2>1, <2>3 DEF Succeeding, AllQuiet
  <2>6. Returning' <=> Returning
    BY <2>1, <2>3, <2>4 DEF Returning, AllActive, MayFinishSuccess, LastPhase, BarrierComplete
  <2>7. AfterPhase' = AfterPhase
    BY <2>1 DEF AfterPhase
  <2>8. CallsInv'
    BY <1>0, <2>1, <2>2, <2>5, <2>6, <2>7 DEF CallsInv, AllActive
  <2>9. RaisesInSplitOnly' /\ TerminalStateIsExplained'
    BY <1>0, <2>1, StillExplained DEF RaisesInSplitOnly
  <2> QED  BY <2>8, <2>9 DEF RecordInv
<1>4. CASE Done
  BY <1>3, <1>4 DEF Done
<1>5. CASE CancelService
  <2>1. pc' = "navigate" /\ pc = "navigate" /\ UNCHANGED <<lifecycleVars, calls>>
    BY <1>5 DEF CancelService
  <2>2. CallsInv'
    BY <1>0, <2>1 DEF CallsInv, AllActive, lifecycleVars
  <2>3. state' \notin Terminal
    BY <1>0, <2>1 DEF CallsInv, lifecycleVars, ActivePhase, Terminal
  <2> QED  BY <2>1, <2>2, <2>3, NotYetExplained DEF RecordInv, RaisesInSplitOnly
<1>6. ASSUME CallsInv', UNCHANGED <<lifecycleVars, cancelFlag>>, pc' # "lifecycle_error"
      PROVE  RecordInv'
  BY <1>0, <1>6, StillExplained DEF RecordInv, RaisesInSplitOnly, lifecycleVars
<1>7. CASE AcceptPlan
  <2>1. pc' = "forming" /\ calls' = <<To("accept", None)>> /\ state' = "idle"
        /\ UNCHANGED <<lifecycleVars, cancelFlag>>
    BY <1>0, <1>7 DEF AcceptPlan, Continue, CallsInv, lifecycleVars
  <2>2. CallsInv'
    BY <2>1 DEF CallsInv
  <2> QED  BY <1>6, <2>1, <2>2
<1>8. CASE BeginPhase
  BY <1>0, <1>6, <1>8, PhaseBegins DEF BeginPhase, Continue
<1>9. CASE OutOfTime
  BY <1>0, <1>6, <1>9, TimeIsOut DEF OutOfTime, Continue
<1>10. CASE Navigate
  <2>1. pc' = "navigate" /\ calls' = <<>> /\ UNCHANGED <<lifecycleVars, cancelFlag>>
    BY <1>10 DEF Navigate, Continue
  <2>2. state' \in ActivePhase /\ AllActive'
    BY <1>0, <1>10, <2>1 DEF Navigate, CallsInv, Deadline, AllActive, lifecycleVars
  <2>3. CallsInv'
    BY <2>1, <2>2 DEF CallsInv
  <2> QED  BY <1>6, <2>1, <2>3
<1>11. CASE FinishMission
  <2>1. /\ pc = "finish_success" /\ calls = <<>>
        /\ pc' = "return" /\ calls' = <<To("finish_success", None)>>
        /\ UNCHANGED <<lifecycleVars, cancelFlag>>
    BY <1>11 DEF FinishMission, Continue
  <2>2. AfterPhase = "finish_success" /\ state \in ActivePhase /\ BarrierComplete
    BY <1>0, <2>1, SettledIsBarrier DEF CallsInv, Succeeding
  <2>3. LastPhase(state)
    BY <2>2 DEF AfterPhase, LastPhase, ActivePhase
  <2>4. MayFinishSuccess'
    BY <2>1, <2>2, <2>3 DEF MayFinishSuccess, LastPhase, BarrierComplete, lifecycleVars
  <2>5. CallsInv'
    BY <2>1, <2>4 DEF CallsInv, Returning
  <2> QED  BY <1>6, <2>1, <2>5
<1>12. CASE WriteResult
  <2>1. /\ pc = "return" /\ calls = <<>> /\ pc' = "written" /\ calls' = <<>>
        /\ UNCHANGED <<lifecycleVars, cancelFlag>>
    BY <1>12 DEF WriteResult
  <2>2. state \in Terminal
    BY <1>0, <2>1, NoCallIsOver DEF CallsInv
  <2>3. CallsInv'
    BY <2>1, <2>2 DEF CallsInv, lifecycleVars
  <2> QED  BY <1>6, <2>1, <2>3
<1>13. CASE ExecuteReturns
  <2>1. \A batch : After(batch) # "lifecycle_error"
    BY NextPhase DEF After
  <2>2. CallsInv'
    BY <1>0, <1>13, BatchReturns DEF ExecuteReturns
  <2> QED  BY <1>6, <1>13, <2>1, <2>2 DEF ExecuteReturns, Continue
<1>14. CASE ExecuteFormationReturns
  <2>1. \A batch : After(batch) # "lifecycle_error"
    BY NextPhase DEF After
  <2>2. FormationResults(cancelFlag) \subseteq BatchResults(cancelFlag)
    BY FormationIsBatch DEF MissionInv, MissionTypeOK
  <2>3. CallsInv'
    BY <1>0, <1>14, <2>2, BatchReturns DEF ExecuteFormationReturns
  <2> QED  BY <1>6, <1>14, <2>1, <2>3 DEF ExecuteFormationReturns, Continue
<1>15. CASE ExecuteSplitReturns
  <2>1. \A batch : After(batch) # "lifecycle_error"
    BY NextPhase DEF After
  <2>2. CallsInv'
    BY <1>0, <1>15, SplitReturns
  <2> QED  BY <1>6, <1>15, <2>1, <2>2 DEF ExecuteSplitReturns, Continue
<1>16. CASE NavigationRaises
  <2>1. pc' = "navigation_error" /\ calls' = <<>> /\ UNCHANGED <<lifecycleVars, cancelFlag>>
    BY <1>16 DEF NavigationRaises, Continue
  <2>2. CallsInv'
    BY <1>0, <1>16, <2>1 DEF NavigationRaises, CallsInv, lifecycleVars
  <2> QED  BY <1>6, <2>1, <2>2
<1> QED
  BY <1>1, <1>2, <1>3, <1>4, <1>5, <1>7, <1>8, <1>9, <1>10, <1>11, <1>12, <1>13, <1>14, <1>15, <1>16
  DEF Next, Step, NavigationEnds

-----------------------------------------------------------------------------
(* Theorems.                                                                *)

LEMMA MissionInvariance == Spec => []MissionInv
<1>1. Init => MissionInv
  <2> SUFFICES ASSUME Init PROVE MissionInv
    OBVIOUS
  <2>1. LifecycleInv
    BY InitHolds DEF Init
  <2>2. MissionTypeOK
    <3>1. calls = <<>> /\ pc \in PC /\ cancelFlag \in BOOLEAN /\ resultFile = None
      BY DEF Init, PC
    <3>2. <<>> \in Seq(Call)
      OBVIOUS
    <3> QED  BY <3>1, <3>2 DEF MissionTypeOK
  <2>3. NothingLeftActive
    BY DEF Init, LifecycleInit, NothingLeftActive
  <2> QED  BY <2>1, <2>2, <2>3 DEF MissionInv
<1>2. MissionInv /\ [Next]_vars => MissionInv'
  <2> SUFFICES ASSUME MissionInv, [Next]_vars PROVE MissionInv'
    OBVIOUS
  <2>1. LifecycleInv'
    BY MissionStep, StepHolds DEF MissionInv, MissionTypeOK
  <2>2. MissionTypeOK'
    BY MissionTypes DEF MissionInv, LifecycleInv
  <2>3. NothingLeftActive'
    <3>1. CASE Return
      <4>1. Head(calls) \in Call
        BY <3>1 DEF Return, MissionInv, MissionTypeOK
      <4> QED  BY <3>1, <4>1, PerformResolves DEF Return, MissionInv, LifecycleInv
    <3>2. CASE ~Return
      <4>1. UNCHANGED history
        BY <3>2
        DEF Next, Step, NavigationEnds, Raise, FinishPartialSplitRaises, CancelService, Done,
            AcceptPlan, BeginPhase, OutOfTime, Navigate, FinishMission, WriteResult,
            ExecuteReturns, ExecuteFormationReturns, ExecuteSplitReturns, NavigationRaises,
            Continue, vars, lifecycleVars
      <4> QED  BY <4>1 DEF MissionInv, NothingLeftActive
    <3> QED  BY <3>1, <3>2
  <2> QED  BY <2>1, <2>2, <2>3 DEF MissionInv
<1> QED  BY <1>1, <1>2, PTL DEF Spec

\* A mission drives its lifecycle only by calls that a lifecycle has, whatever
\* the navigation calls return (mission.py:184-394).
THEOREM MissionDrivesLifecycle == Spec => LifecycleSpec
<1>1. Init => LifecycleInit
  BY DEF Init
<1>2. MissionInv /\ [Next]_vars => [LifecycleNext]_lifecycleVars
  BY MissionStep DEF MissionInv, MissionTypeOK
<1> QED  BY <1>1, <1>2, MissionInvariance, PTL DEF Spec, LifecycleSpec

\* Every variable of a mission keeps its type.
THEOREM TypeCorrect == Spec => []TypeOK
<1>1. MissionInv => TypeOK
  BY DEF MissionInv, LifecycleInv, MissionTypeOK, TypeOK
<1> QED  BY <1>1, MissionInvariance, PTL

\* No phase of the plan is skipped, repeated or left out of the history.
THEOREM Order == Spec => []PhasesInOrder
<1>1. MissionInv => PhasesInOrder
  BY DEF MissionInv, LifecycleInv
<1> QED  BY <1>1, MissionInvariance, PTL

\* No phase begins, and no mission succeeds, before all robots succeeded in
\* every phase before.
THEOREM Barriers == Spec => []BarriersHeld
<1>1. MissionInv => BarriersHeld
  BY DEF MissionInv, LifecycleInv
<1> QED  BY <1>1, MissionInvariance, PTL

\* Every robot's end is known in every phase that a mission archives.
THEOREM AllResolved == Spec => []NothingLeftActive
<1>1. MissionInv => NothingLeftActive
  BY DEF MissionInv, LifecycleInv
<1> QED  BY <1>1, MissionInvariance, PTL
\* The calls and what they record, on top of the lifecycle's invariant.
LEMMA RecordInvariance == Spec => [](MissionInv /\ RecordInv)
<1>1. Init => RecordInv
  <2>1. Init => CallsInv
    BY DEF Init, CallsInv, LifecycleInit
  <2>2. Init => RaisesInSplitOnly /\ TerminalStateIsExplained
    BY DEF Init, RaisesInSplitOnly, TerminalStateIsExplained, LifecycleInit, Terminal
  <2> QED  BY <2>1, <2>2 DEF RecordInv
<1>2. MissionInv /\ RecordInv /\ [Next]_vars => RecordInv'
  BY RecordHolds
<1> QED  BY <1>1, <1>2, MissionInvariance, PTL DEF Spec

\* However a batch or a formation ends, the lifecycle accepts every call that
\* records it, and it raises only at the end of a split in which no robot failed
\* or timed out (navigation.py, apply_navigation_batch; lifecycle.py:282-307).
THEOREM RaisesAtASplitsEnd == Spec => []RaisesInSplitOnly
<1>1. RecordInv => RaisesInSplitOnly
  BY DEF RecordInv
<1> QED  BY <1>1, RecordInvariance, PTL

\* The terminal state of a mission is the one that the robots' ends in its last
\* phase explain, and it is "cancelled" only if the operator asked for it.
THEOREM TerminalStates == Spec => []TerminalStateIsExplained
<1>1. RecordInv => TerminalStateIsExplained
  BY DEF RecordInv
<1> QED  BY <1>1, RecordInvariance, PTL

\* A mission that returns, rather than raises, is over, and it is its terminal
\* state that squad_result.json has (runner.py:49-77).
THEOREM WrittenIsTerminal ==
  Spec => [](pc = "written" => resultFile = state /\ state \in Terminal)
<1> DEFINE Written == pc = "written" => resultFile = state /\ state \in Terminal
<1>1. Init => Written
  BY DEF Init
<1>2. MissionInv /\ RecordInv /\ Written /\ [Next]_vars => Written'
  <2> SUFFICES ASSUME MissionInv, CallsInv, Written, [Next]_vars, pc' = "written"
               PROVE  resultFile' = state' /\ state' \in Terminal
    BY DEF RecordInv
  <2>1. CASE WriteResult
    <3>1. state \in Terminal
      BY <2>1, NoCallIsOver DEF WriteResult, CallsInv
    <3> QED  BY <2>1, <3>1 DEF WriteResult, lifecycleVars
  <2>2. CASE Return
    BY <2>2 DEF Return, CallsInv
  <2>3. CASE UNCHANGED vars \/ Done
    BY <2>3 DEF Done, vars, lifecycleVars, missionVars
  <2>4. \A batch : After(batch) # "written"
    BY NextPhase DEF After
  <2>5. CASE ExecuteReturns \/ ExecuteFormationReturns \/ ExecuteSplitReturns
    BY <2>4, <2>5
    DEF ExecuteReturns, ExecuteFormationReturns, ExecuteSplitReturns, Continue
  <2>6. CASE CancelService \/ Raise \/ AcceptPlan \/ BeginPhase \/ OutOfTime \/ Navigate
             \/ NavigationRaises \/ FinishMission
    BY <2>6
    DEF CancelService, Raise, AcceptPlan, BeginPhase, OutOfTime, Navigate, NavigationRaises,
        FinishMission, Continue
  <2> QED  BY <2>1, <2>2, <2>3, <2>5, <2>6 DEF Next, Step, NavigationEnds
<1> QED  BY <1>1, <1>2, RecordInvariance, PTL DEF Spec
=============================================================================
