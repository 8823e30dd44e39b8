--------------------------- MODULE SquadLifecycle ---------------------------
(***************************************************************************)
(* SquadLifecycle: the phases of a squad mission and their barriers.  There *)
(* is one action per method; its guard is what the method demands, and a    *)
(* method called outside of its guard raises LifecycleError.  The           *)
(* specification lets a caller make any call in any order.                  *)
(***************************************************************************)
EXTENDS Fleet

VARIABLES
  plan,      \* the plan that is accepted: split_route, regroup
  state,     \* _state
  current,   \* _current: the phase under way and what became of each robot
  history,   \* _history: the phases that ended
  target     \* _terminal_target: what the cancellation under way will end in

lifecycleVars == <<plan, state, current, history, target>>

ActivePhase == {"forming", "formation_moving", "executing_split", "regrouping"}

Terminal == {"succeeded", "failed", "timed_out", "cancelled"}

SquadState ==
  ActivePhase \cup Terminal \cup {"idle", "validated", "splitting", "cancelling"}

RobotOutcome == {"active", "succeeded", "failed", "timed_out", "cancelled"}

Failure == {"failed", "timed_out"}

Plan == [split : BOOLEAN, regroup : BOOLEAN]

PhaseRecord == [phase : ActivePhase, outcome : [Robot -> RobotOutcome]]

NoPhase == [phase |-> None, outcome |-> All(None)]

LifecycleTypeOK ==
  /\ plan \in Plan
  /\ state \in SquadState
  /\ current \in PhaseRecord \cup {NoPhase}
  /\ history \in Seq(PhaseRecord)
  /\ target \in (Terminal \ {"succeeded"}) \cup {None}

LifecycleInit ==
  /\ plan \in Plan
  /\ state = "idle"
  /\ current = NoPhase
  /\ history = <<>>
  /\ target = None

BarrierComplete == Succeeded(current.outcome)

Archived == IF current = NoPhase THEN history ELSE Append(history, current)

\* The phase that may start now.
Expected(phase) ==
  \/ state = "validated" /\ phase = "forming"
  \/ state = "forming" /\ phase = "formation_moving"
  \/ state = "splitting" /\ phase = "executing_split"
  \/ state = "formation_moving" /\ ~plan.split /\ plan.regroup /\ phase = "regrouping"
  \/ state = "executing_split" /\ plan.regroup /\ phase = "regrouping"

ReplaceOutcome(r, outcome) == current' = [current EXCEPT !.outcome[r] = outcome]

-----------------------------------------------------------------------------
(* What the methods demand.                                                 *)

IsActive(r) == current.outcome[r] = "active"

MayAccept == state = "idle"

MayStartPhase(phase) ==
  /\ Expected(phase)
  /\ current = NoPhase \/ BarrierComplete

MayPrepareSplit ==
  /\ state = "formation_moving"
  /\ BarrierComplete
  /\ plan.split

MayRecord(r) == state \in ActivePhase /\ IsActive(r)

MayRequestCancel == state \notin Terminal \cup {"idle", "cancelling"}

MayRequestTimeout == state \in ActivePhase

MayResolve(r) == state = "cancelling" /\ IsActive(r)

MayFinishCancellation ==
  /\ state = "cancelling"
  /\ \A r \in Robot : ~IsActive(r)
  /\ target # None

LastPhase(phase) ==
  \/ phase = "regrouping"
  \/ phase = "executing_split" /\ ~plan.regroup
  \/ phase = "formation_moving" /\ ~plan.split /\ ~plan.regroup

MayFinishSuccess == LastPhase(state) /\ BarrierComplete

-----------------------------------------------------------------------------
(* The methods.                                                             *)

Accept ==
  /\ MayAccept
  /\ state' = "validated"
  /\ UNCHANGED <<plan, current, history, target>>

StartPhase(phase) ==
  /\ MayStartPhase(phase)
  /\ state' = phase
  /\ current' = [phase |-> phase, outcome |-> All("active")]
  /\ history' = Archived
  /\ UNCHANGED <<plan, target>>

\* Mutant: the formation's results are not archived before the split.
PrepareSplitForgets ==
  /\ MayPrepareSplit
  /\ state' = "splitting"
  /\ current' = NoPhase
  /\ UNCHANGED <<plan, history, target>>

PrepareSplit ==
  /\ MayPrepareSplit
  /\ state' = "splitting"
  /\ current' = NoPhase
  /\ history' = Archived
  /\ UNCHANGED <<plan, target>>

RecordSuccess(r) ==
  /\ MayRecord(r)
  /\ ReplaceOutcome(r, "succeeded")
  /\ UNCHANGED <<plan, state, history, target>>

RecordFailure(r, outcome) ==
  /\ MayRecord(r)
  /\ ReplaceOutcome(r, outcome)
  /\ target' = outcome
  /\ state' = "cancelling"
  /\ UNCHANGED <<plan, history>>

RequestCancel ==
  /\ MayRequestCancel
  /\ target' = "cancelled"
  /\ state' = IF current = NoPhase THEN "cancelled" ELSE "cancelling"
  /\ UNCHANGED <<plan, current, history>>

RequestTimeout ==
  /\ MayRequestTimeout
  /\ target' = "timed_out"
  /\ state' = "cancelling"
  /\ UNCHANGED <<plan, current, history>>

RecordCancelled(r) ==
  /\ MayResolve(r)
  /\ ReplaceOutcome(r, "cancelled")
  /\ UNCHANGED <<plan, state, history, target>>

\* Mutant: the mission still ends as the operator asked.
RecordCancellationFailedKeepsTarget(r) ==
  /\ MayResolve(r)
  /\ ReplaceOutcome(r, "failed")
  /\ UNCHANGED <<plan, state, history, target>>

RecordCancellationFailed(r) ==
  /\ MayResolve(r)
  /\ ReplaceOutcome(r, "failed")
  /\ target' = IF target = "cancelled" THEN "failed" ELSE target
  /\ UNCHANGED <<plan, state, history>>

FinishCancellation ==
  /\ MayFinishCancellation
  /\ state' = target
  /\ history' = Archived
  /\ current' = NoPhase
  /\ target' = None
  /\ UNCHANGED plan

FinishSuccess ==
  /\ MayFinishSuccess
  /\ state' = "succeeded"
  /\ history' = Archived
  /\ current' = NoPhase
  /\ UNCHANGED <<plan, target>>

\* _replace_active for every robot in turn raises at the first that is resolved.
ReplacedUpToResolved(outcomes) ==
  [r \in Robot |->
     IF \A i, j \in DOMAIN RobotIds :
          RobotIds[i] = r /\ j <= i => current.outcome[RobotIds[j]] = "active"
     THEN outcomes[r] ELSE current.outcome[r]]

AllActive == current.outcome = All("active")

SomeFailed(outcomes) == \E r \in Robot : outcomes[r] \in Failure

PartialSplitFinishes(outcomes) ==
  state = "executing_split" /\ AllActive /\ SomeFailed(outcomes)

\* Mutant: the survivors go on with the mission.
FinishPartialSplitContinues(outcomes) ==
  /\ PartialSplitFinishes(outcomes)
  /\ history' = Append(history, [current EXCEPT !.outcome = outcomes])
  /\ current' = NoPhase
  /\ UNCHANGED <<plan, state, target>>

\* Mutant: only the failures are recorded.
FinishPartialSplitFailuresOnly(outcomes) ==
  /\ PartialSplitFinishes(outcomes)
  /\ state' = IF \E r \in Robot : outcomes[r] = "timed_out" THEN "timed_out" ELSE "failed"
  /\ history' = Append(history, [current EXCEPT
       !.outcome = [r \in Robot |-> IF outcomes[r] \in Failure THEN outcomes[r] ELSE @[r]]])
  /\ current' = NoPhase
  /\ UNCHANGED <<plan, target>>

FinishPartialSplit(outcomes) ==
  /\ PartialSplitFinishes(outcomes)
  /\ state' = IF \E r \in Robot : outcomes[r] = "timed_out" THEN "timed_out" ELSE "failed"
  /\ history' = Append(history, [current EXCEPT !.outcome = outcomes])
  /\ current' = NoPhase
  /\ UNCHANGED <<plan, target>>

\* It raises with the outcomes already replaced.
FinishPartialSplitRaises(outcomes) ==
  /\ state = "executing_split"
  /\ ~PartialSplitFinishes(outcomes)
  /\ current' = [current EXCEPT !.outcome = ReplacedUpToResolved(outcomes)]
  /\ UNCHANGED <<plan, state, history, target>>

-----------------------------------------------------------------------------

PhaseCall ==
  Accept \/ PrepareSplit \/ FinishSuccess \/ \E phase \in ActivePhase : StartPhase(phase)

RobotCall(r) ==
  \/ RecordSuccess(r) \/ RecordCancelled(r) \/ RecordCancellationFailed(r)
  \/ \E outcome \in Failure : RecordFailure(r, outcome)

StopCall == RequestCancel \/ RequestTimeout \/ FinishCancellation

\* The outcomes are the caller's: "active" is not refused.
SplitCall ==
  \E outcomes \in [Robot -> RobotOutcome] :
    FinishPartialSplit(outcomes) \/ FinishPartialSplitRaises(outcomes)

LifecycleNext == PhaseCall \/ StopCall \/ SplitCall \/ \E r \in Robot : RobotCall(r)

LifecycleSpec == LifecycleInit /\ [][LifecycleNext]_lifecycleVars

-----------------------------------------------------------------------------
(* The first two hold however the methods are called.                       *)

\* The phases of a plan, in the order a mission has them.
Required ==
  CASE plan.split /\ plan.regroup ->
         <<"forming", "formation_moving", "executing_split", "regrouping">>
    [] plan.split /\ ~plan.regroup -> <<"forming", "formation_moving", "executing_split">>
    [] ~plan.split /\ plan.regroup -> <<"forming", "formation_moving", "regrouping">>
    [] ~plan.split /\ ~plan.regroup -> <<"forming", "formation_moving">>

\* The phases archived are the first that the plan requires, in order, with
\* the one under way next: none is skipped, repeated or dropped, whatever is
\* called ("All robots must complete each phase", lifecycle.py:157).
PhasesInOrder ==
  /\ Len(history) <= Len(Required)
  /\ \A i \in 1 .. Len(history) : history[i].phase = Required[i]
  /\ current # NoPhase => /\ Len(history) < Len(Required)
                          /\ current.phase = Required[Len(history) + 1]

\* Every phase that another followed, or that a success closed, ended with all
\* robots at its barrier.
BarriersHeld ==
  /\ \A i \in 1 .. Len(history) :
       i < Len(history) \/ state \notin Terminal => Succeeded(history[i].outcome)
  /\ state = "succeeded" => /\ Len(history) = Len(Required)
                            /\ \A i \in 1 .. Len(history) : Succeeded(history[i].outcome)

\* An archived phase leaves no robot whose end is unknown: a terminal state is
\* reached only after every active goal was resolved.  Of a caller that gives
\* finish_partial_split an ACTIVE outcome beside a failed one it would not hold;
\* SquadMission's calls give it none.
NothingLeftActive ==
  \A i \in 1 .. Len(history) : \A r \in Robot : history[i].outcome[r] # "active"
=============================================================================
