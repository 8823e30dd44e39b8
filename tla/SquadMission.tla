---------------------------- MODULE SquadMission ----------------------------
(***************************************************************************)
(* execute_squad_mission, the phases it runs through FleetNav2Adapter, and  *)
(* run_live_mission, which writes down how it ended.                        *)
(*                                                                          *)
(* The mission drives a SquadLifecycle.  calls holds the lifecycle calls    *)
(* that the code under way still makes, one step each, so that a call that  *)
(* raises does so after those before it took effect.  A navigation call is  *)
(* one step that returns any result its model allows.                       *)
(***************************************************************************)
EXTENDS SquadLifecycle

CONSTANT NavigationMayRaise   \* BOOLEAN: servers or poses may be missing

ASSUME NavigationMayRaiseAssumption == NavigationMayRaise \in BOOLEAN

VARIABLES
  pc,          \* the next phase to begin, or place in it
  calls,       \* lifecycle calls still to make
  cancelFlag,  \* SquadRunner._cancel_requested
  resultFile   \* the state written to squad_result.json

missionVars == <<pc, calls, cancelFlag, resultFile>>

vars == <<lifecycleVars, missionVars>>

Ended == {"written", "lifecycle_error", "navigation_error"}

PC == ActivePhase \cup Ended
        \cup {"accept", "deadline", "navigate", "finish_success", "return"}

\* A call: the method, and its argument where it has one.
Call ==
  [method : {"none", "accept", "prepare_split", "request_cancel",
             "request_timeout", "finish_cancellation", "finish_success"}, of : {None}]
  \cup [method : {"record_success", "record_cancelled", "record_cancellation_failed"},
        of : Robot]
  \cup [method : {"start_phase"}, of : ActivePhase]
  \cup [method : {"record_failure"}, of : Robot, as : Failure]
  \cup [method : {"finish_partial_split"}, of : [Robot -> RobotOutcome \ {"active"}]]

TypeOK ==
  /\ LifecycleTypeOK
  /\ pc \in PC
  /\ calls \in Seq(Call)
  /\ cancelFlag \in BOOLEAN
  /\ resultFile \in SquadState \cup {None}

Init ==
  /\ LifecycleInit
  /\ pc = "accept"
  /\ calls = <<>>
  /\ cancelFlag = FALSE
  /\ resultFile = None

-----------------------------------------------------------------------------
(* Sequences of calls.                                                      *)

To(method, of) == [method |-> method, of |-> of]

\* The loop over the robots that calls method for those of S.
ForEach(method, S) ==
  [i \in DOMAIN RobotIds |->
     IF RobotIds[i] \in S THEN To(method, RobotIds[i]) ELSE To("none", None)]

With(batch, status) == {r \in Robot : batch[r] = status}

RecordPrimary(batch) ==
  LET r == CHOOSE s \in Robot : batch[s] \in PrimaryFailure
  IN  <<[method |-> "record_failure", of |-> r,
         as |-> IF batch[r] = "timed_out" THEN "timed_out" ELSE "failed"]>>

\* Mutant: the robots that were cancelled are recorded before the failure.
ApplyCancelledFirst(batch) ==
  LET stops ==
        IF \E r \in Robot : batch[r] \in PrimaryFailure
        THEN RecordPrimary(batch)
        ELSE <<To("request_cancel", None)>>
  IN  IF Succeeded(batch) THEN ForEach("record_success", Robot)
      ELSE ForEach("record_success", With(batch, "succeeded"))
             \o ForEach("record_cancelled", With(batch, "cancelled"))
             \o stops
             \o ForEach("record_cancellation_failed", With(batch, "cancel_failed"))
             \o <<To("finish_cancellation", None)>>

\* apply_navigation_batch.
ApplyNavigationBatch(batch) ==
  LET stops ==
        IF \E r \in Robot : batch[r] \in PrimaryFailure
        THEN RecordPrimary(batch)
        ELSE <<To("request_cancel", None)>>
  IN  IF Succeeded(batch) THEN ForEach("record_success", Robot)
      ELSE ForEach("record_success", With(batch, "succeeded"))
             \o stops
             \o ForEach("record_cancelled", With(batch, "cancelled"))
             \o ForEach("record_cancellation_failed", With(batch, "cancel_failed"))
             \o <<To("finish_cancellation", None)>>

\* Mutant: the status is taken for an outcome.
SplitOutcomeVerbatim(status) == status

\* A robot's outcome in a split that did not succeed.
SplitOutcome(status) ==
  IF status \in {"succeeded", "timed_out", "cancelled"} THEN status ELSE "failed"

ApplySplitResult(batch) ==
  IF Succeeded(batch) THEN ForEach("record_success", Robot)
  ELSE <<To("finish_partial_split", [r \in Robot |-> SplitOutcome(batch[r])])>>

\* _finish_undispatched_timeout.
UndispatchedTimeout ==
  <<To("request_timeout", None)>> \o ForEach("record_cancelled", Robot)
    \o <<To("finish_cancellation", None)>>

-----------------------------------------------------------------------------
(* Making the calls.                                                        *)

Perform(c) ==
  \/ c.method = "none" /\ UNCHANGED lifecycleVars
  \/ c.method = "accept" /\ Accept
  \/ c.method = "start_phase" /\ StartPhase(c.of)
  \/ c.method = "prepare_split" /\ PrepareSplit
  \/ c.method = "record_success" /\ RecordSuccess(c.of)
  \/ c.method = "record_failure" /\ RecordFailure(c.of, c.as)
  \/ c.method = "request_cancel" /\ RequestCancel
  \/ c.method = "request_timeout" /\ RequestTimeout
  \/ c.method = "record_cancelled" /\ RecordCancelled(c.of)
  \/ c.method = "record_cancellation_failed" /\ RecordCancellationFailed(c.of)
  \/ c.method = "finish_cancellation" /\ FinishCancellation
  \/ c.method = "finish_success" /\ FinishSuccess
  \/ c.method = "finish_partial_split" /\ FinishPartialSplit(c.of)

Return ==
  /\ calls # <<>>
  /\ Perform(Head(calls))
  /\ calls' = Tail(calls)
  /\ UNCHANGED <<pc, cancelFlag, resultFile>>

\* The method's demands are met: LifecycleError otherwise.
Accepts(c) ==
  \/ c.method = "none"
  \/ c.method = "accept" /\ MayAccept
  \/ c.method = "start_phase" /\ MayStartPhase(c.of)
  \/ c.method = "prepare_split" /\ MayPrepareSplit
  \/ c.method \in {"record_success", "record_failure"} /\ MayRecord(c.of)
  \/ c.method = "request_cancel" /\ MayRequestCancel
  \/ c.method = "request_timeout" /\ MayRequestTimeout
  \/ c.method \in {"record_cancelled", "record_cancellation_failed"} /\ MayResolve(c.of)
  \/ c.method = "finish_cancellation" /\ MayFinishCancellation
  \/ c.method = "finish_success" /\ MayFinishSuccess
  \/ c.method = "finish_partial_split" /\ PartialSplitFinishes(c.of)

\* LifecycleError leaves execute_squad_mission and run_live_mission.
Raise ==
  /\ calls # <<>>
  /\ IF Head(calls).method = "finish_partial_split"
     THEN FinishPartialSplitRaises(Head(calls).of)
     ELSE ~Accepts(Head(calls)) /\ UNCHANGED lifecycleVars
  /\ calls' = <<>>
  /\ pc' = "lifecycle_error"
  /\ UNCHANGED <<cancelFlag, resultFile>>

-----------------------------------------------------------------------------
(* The mission.                                                             *)

\* The code goes on at next, after it made these calls.
Continue(next, then) ==
  /\ pc' = next
  /\ calls' = then
  /\ UNCHANGED <<lifecycleVars, resultFile>>

AcceptPlan ==
  /\ pc = "accept"
  /\ Continue("forming", <<To("accept", None)>>)
  /\ UNCHANGED cancelFlag

BeginPhase ==
  /\ pc \in ActivePhase
  /\ calls = <<>>
  /\ Continue("deadline",
       (IF pc = "executing_split" THEN <<To("prepare_split", None)>> ELSE <<>>)
         \o <<To("start_phase", pc)>>)
  /\ UNCHANGED cancelFlag

\* The mission's deadline is looked at before each navigation call.
OutOfTime ==
  /\ pc = "deadline"
  /\ calls = <<>>
  /\ Continue("return", UndispatchedTimeout)
  /\ UNCHANGED cancelFlag

Navigate ==
  /\ pc = "deadline"
  /\ calls = <<>>
  /\ Continue("navigate", <<>>)
  /\ UNCHANGED cancelFlag

\* SquadRunner._on_cancel: the node spins inside of navigation calls only.
CancelService ==
  /\ pc = "navigate"
  /\ cancelFlag' = TRUE
  /\ UNCHANGED <<lifecycleVars, pc, calls, resultFile>>

\* The phase that the plan has next.
AfterPhase ==
  CASE state = "forming" -> "formation_moving"
    [] state = "formation_moving" /\ plan.split -> "executing_split"
    [] state = "formation_moving" /\ ~plan.split /\ plan.regroup -> "regrouping"
    [] state = "executing_split" /\ plan.regroup -> "regrouping"
    [] OTHER -> "finish_success"

After(batch) == IF Succeeded(batch) THEN AfterPhase ELSE "return"

ExecuteReturns ==
  /\ pc = "navigate"
  /\ state \in {"forming", "regrouping"}
  /\ \E batch \in BatchResults(cancelFlag) :
       Continue(After(batch), ApplyNavigationBatch(batch))
  /\ UNCHANGED cancelFlag

ExecuteFormationReturns ==
  /\ pc = "navigate"
  /\ state = "formation_moving"
  /\ \E batch \in FormationResults(cancelFlag) :
       Continue(After(batch), ApplyNavigationBatch(batch))
  /\ UNCHANGED cancelFlag

ExecuteSplitReturns ==
  /\ pc = "navigate"
  /\ state = "executing_split"
  /\ \E batch \in SplitResults : Continue(After(batch), ApplySplitResult(batch))
  /\ UNCHANGED cancelFlag

\* Nav2ServerUnavailable, FleetStateUnavailable, StopIteration of a wedged split.
NavigationRaises ==
  /\ pc = "navigate"
  /\ NavigationMayRaise
  /\ Continue("navigation_error", <<>>)
  /\ UNCHANGED cancelFlag

FinishMission ==
  /\ pc = "finish_success"
  /\ calls = <<>>
  /\ Continue("return", <<To("finish_success", None)>>)
  /\ UNCHANGED cancelFlag

WriteResult ==
  /\ pc = "return"
  /\ calls = <<>>
  /\ pc' = "written"
  /\ resultFile' = state
  /\ UNCHANGED <<lifecycleVars, calls, cancelFlag>>

Done ==
  /\ pc \in Ended
  /\ UNCHANGED vars

NavigationEnds ==
  ExecuteReturns \/ ExecuteFormationReturns \/ ExecuteSplitReturns \/ NavigationRaises

Step ==
  \/ AcceptPlan \/ BeginPhase \/ OutOfTime \/ Navigate \/ NavigationEnds
  \/ FinishMission \/ WriteResult \/ Return \/ Raise

Next == Step \/ CancelService \/ Done

Spec == Init /\ [][Next]_vars

-----------------------------------------------------------------------------
(* Properties.                                                              *)

\* The lifecycle raises nowhere but at the end of a split in which no robot
\* failed or timed out: whatever mixture of results a batch has, the calls
\* that record it are made in an order the lifecycle accepts.
RaisesInSplitOnly ==
  pc = "lifecycle_error" =>
    /\ state = "executing_split"
    /\ \A r \in Robot : current.outcome[r] \in {"succeeded", "cancelled"}

\* The state a mission ends in is explained by its last phase: it failed only
\* if a robot failed, was cancelled only if robots were, none failed and the
\* operator asked for it; it timed out only if a robot did, or if nothing was
\* sent in that phase.
TerminalStateIsExplained ==
  state \in Terminal =>
    LET outcome == history[Len(history)].outcome
        is(o) == \E r \in Robot : outcome[r] = o
    IN  /\ state = "failed" => is("failed") /\ ~is("timed_out")
        /\ state = "cancelled" =>
             cancelFlag /\ is("cancelled") /\ ~is("failed") /\ ~is("timed_out")
        /\ state = "timed_out" => is("timed_out") \/ outcome = All("cancelled")
        /\ state = "succeeded" <=> outcome = All("succeeded")

\* "navigation failures, timeouts, and cancellation all fail closed with an
\* explicit terminal state" (architecture.md:89).
EndsInATerminalState == pc \in Ended => state \in Terminal
=============================================================================
