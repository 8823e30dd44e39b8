----------------------------- MODULE VisionMission -----------------------------
(***************************************************************************)
(* A vision mission: the operator's command configures the detector and     *)
(* the follower, arms the one, starts the other, activates the first and    *)
(* waits for the acquisition; it gives up on the first call that fails, or  *)
(* that is not answered within 5 s, and takes back what it did.  A call     *)
(* nobody answered may be lost, or be executed later, after other commands. *)
(* The operator cancels the mission at any time, but runs one command after *)
(* the other: two terminals that configure at once are left out, and with   *)
(* them the arm response whose colour is not the one asked for.             *)
(***************************************************************************)
EXTENDS VisionFollower, FiniteSets

CONSTANTS
  LateServices,  \* bound: the services that may execute a call given up on
  MaxLate        \* bound: such calls at a time

Services == {"color", "mission", "arm", "generation", "start", "activate", "cancel", "disarm"}

ASSUME LateAssumption == LateServices \subseteq Services /\ MaxLate \in Nat

VARIABLES
  run,      \* the runs of the command so far; the last one is this one
  phase,    \* where configure_and_start stands, "off" between runs
  granted,  \* the generation each run's arm response carried, or 0
  late,     \* calls given up on and still to be executed
  stray     \* the generations whose detector was activated by a call that was
            \* meant for another and had been given up on

operatorVars == <<run, missionId, phase, granted, late, stray>>

vars == <<detectorVars, followerVars, operatorVars>>

Phases == {"off", "configure", "arm", "generation", "start", "activate", "cancel",
           "disarm", "waiting"}

Call(service, argument) == [service |-> service, argument |-> argument]

Calls ==
  {Call("color", r) : r \in Run} \cup {Call("mission", r) : r \in Run} \cup
  {Call("generation", g) : g \in Generation} \cup
  {Call("activate", g) : g \in Generation} \cup
  {Call(s, 0) : s \in {"arm", "start", "cancel", "disarm"}}

TypeOK ==
  /\ DetectorTypeOK /\ FollowerTypeOK
  /\ run \in 0 .. MaxRuns /\ missionId \in [Run -> Run] /\ phase \in Phases
  /\ granted \in [Run -> 0 .. MaxRuns] /\ stray \subseteq Generation
  /\ late \subseteq Calls /\ Cardinality(late) <= MaxLate

Init ==
  /\ DetectorInit /\ FollowerInit
  /\ run = 0 /\ missionId = [r \in Run |-> r] /\ phase = "off"
  /\ granted = [r \in Run |-> 0]
  /\ late = {} /\ stray = {}

\* What the node that offers a service does when it is called.  The request to
\* activate carries nothing: its argument tells for the properties which
\* generation it was meant for.
Execute(call) ==
  CASE call.service = "color" -> SetColour(call.argument) /\ UNCHANGED followerVars
    [] call.service = "arm" -> Arm /\ UNCHANGED followerVars
    [] call.service = "activate" -> Activate /\ UNCHANGED followerVars
    [] call.service = "disarm" -> Disarm /\ UNCHANGED followerVars
    [] call.service = "mission" -> SetMission(call.argument) /\ UNCHANGED detectorVars
    [] call.service = "generation" ->
         SetGeneration(call.argument) /\ UNCHANGED detectorVars
    [] call.service = "start" -> Start /\ UNCHANGED detectorVars
    [] call.service = "cancel" -> Cancel /\ UNCHANGED detectorVars

\* The response to a call executed now.
Accepted(call) ==
  CASE call.service = "start" -> CanStart
    [] call.service = "activate" -> CanActivate
    [] OTHER -> TRUE

\* Requests to one service are served in order.
Free(call) == \A c \in late : c.service # call.service

Answered(call) == Free(call) /\ Execute(call) /\ UNCHANGED late

\* Requests wait at their services to be executed later.
Waiting(calls) ==
  /\ \A call \in calls : call.service \in LateServices /\ Free(call)
  /\ late' = late \cup calls
  /\ Cardinality(late') <= MaxLate

\* Nobody answers in time: the request or the response is lost, or both wait.
Unanswered(call) ==
  \/ UNCHANGED <<detectorVars, followerVars, late>>
  \/ Free(call) /\ Execute(call) /\ UNCHANGED late
  \/ Waiting({call}) /\ UNCHANGED <<detectorVars, followerVars>>

\* The step of configure_and_start that makes this call and goes on to "next", or,
\* when it fails, to "recovery".
Step(from, call, next, recovery) ==
  /\ phase = from
  /\ \/ Answered(call) /\ phase' = IF Accepted(call) THEN next ELSE recovery
     \/ Unanswered(call) /\ phase' = recovery
  /\ UNCHANGED <<run, missionId, granted, stray>>

\* omokai-vision run, approved, with a new mission id or one typed before.
\* Bounds: MaxRuns; the command runs when no other does.
RunCommand ==
  /\ phase = "off" /\ run < MaxRuns
  /\ run' = run + 1
  /\ \E id \in {missionId[r] : r \in 1 .. run} \cup {run'} :
       missionId' = [missionId EXCEPT ![run'] = id]
  /\ phase' = "configure"
  /\ UNCHANGED <<granted, late, stray, detectorVars, followerVars>>

\* The parameters of both nodes are sent at once; either response may be missing.
Configure ==
  LET color == Call("color", run)
      id == Call("mission", run)
  IN  /\ phase = "configure"
      /\ \E served \in SUBSET {color, id} : \E kept \in SUBSET ({color, id} \ served) :
           /\ \A call \in served : Free(call)
           /\ IF color \in served THEN SetColour(run) ELSE UNCHANGED detectorVars
           /\ IF id \in served THEN SetMission(run) ELSE UNCHANGED followerVars
           /\ Waiting(kept)
           /\ phase' = "off" \/ (served = {color, id} /\ phase' = "arm")
      /\ UNCHANGED <<run, missionId, granted, stray>>

\* arm_response carries the generation.
ArmDetector ==
  /\ phase = "arm"
  /\ \/ /\ Answered(Call("arm", 0))
        /\ granted' = [granted EXCEPT ![run] = generation']
        /\ phase' = "generation"
     \/ /\ Unanswered(Call("arm", 0))
        /\ phase' = "off"
        /\ UNCHANGED granted
  /\ UNCHANGED <<run, missionId, stray>>

PassGeneration == Step("generation", Call("generation", granted[run]), "start", "disarm")
StartFollower == Step("start", Call("start", 0), "activate", "disarm")
ActivateDetector == Step("activate", Call("activate", granted[run]), "waiting", "cancel")

\* What a failed start or activation takes back, whatever comes of it.
TakeBackStart == Step("cancel", Call("cancel", 0), "disarm", "disarm")
TakeBackArm == Step("disarm", Call("disarm", 0), "off", "off")

\* wait_for_acquisition returns: with the event of this mission's id, with its
\* terminal status, or with neither in time; --detach does not wait at all.
StopsWaiting ==
  /\ phase = "waiting"
  /\ phase' = "off"
  /\ UNCHANGED <<run, missionId, granted, late, stray, detectorVars, followerVars>>

\* The detector is prepared for another generation than the call was meant for.
Misdirected(call) ==
  call.service = "activate" /\ CanActivate /\ call.argument # generation

\* A call given up on is executed after all.
LateCall ==
  \E call \in late :
    /\ Execute(call)
    /\ late' = late \ {call}
    /\ stray' = IF Misdirected(call) THEN stray \cup {generation} ELSE stray
    /\ UNCHANGED <<run, missionId, phase, granted>>

\* omokai-vision cancel, from another terminal.
CancelCommand ==
  /\ started # 0
  /\ Cancel
  /\ UNCHANGED <<detectorVars, operatorVars>>

Operator ==
  \/ RunCommand \/ Configure \/ ArmDetector \/ PassGeneration \/ StartFollower
  \/ ActivateDetector \/ TakeBackStart \/ TakeBackArm \/ StopsWaiting
  \/ LateCall \/ CancelCommand

FollowerStep ==
  \/ Tick \/ ProcessPending \/ DepthArrives \/ ScanCompletes \/ ObservationAges
  \/ LossEnds \/ MissionExpires

Next ==
  \/ Operator
  \/ (FrameMatches \/ FrameMisses) /\ UNCHANGED <<followerVars, operatorVars>>
  \/ TargetArrives /\ UNCHANGED operatorVars
  \/ FollowerStep /\ UNCHANGED <<detectorVars, operatorVars>>

Spec == Init /\ [][Next]_vars

\* Fairness: the follower's timer fires, and the mission's time passes.
Timer == Tick /\ UNCHANGED <<detectorVars, operatorVars>>
Clock == MissionExpires /\ UNCHANGED <<detectorVars, operatorVars>>

TimedSpec == Spec /\ WF_followerVars(Timer) /\ WF_followerVars(Clock)

-----------------------------------------------------------------------------
(* Properties.                                                               *)

\* The robot drives towards a person only while it follows a target of the mission
\* that was started, seen in enough frames since the detector was activated for
\* it; the person wears the coat that mission asked for, unless another run has
\* since reached the detector, or the detector was activated by a late call that
\* was meant for an earlier generation; and the timer never sends it forward on a
\* stale observation, at an obstacle, or after the mission's time.
ForwardIsSeen ==
  TickDecision.command = "forward" =>
    /\ fresh /\ ~ near /\ ~ expired
    /\ observation.target.generation = missionGeneration
    /\ observation.target.frames >= ConfirmationFrames
    /\ \/ observation.target.asked = started
       \/ run > started
       \/ observation.target.generation \in stray

\* A run that reports its target acquired has a picture of a target that the
\* follower localized for its mission, of the generation granted to it, and not one
\* that an earlier mission had still to write.  Only when the operator types an
\* earlier run's id again may it be that run's picture, of that run's generation:
\* wait_for_acquisition compares no more than the ids.  The exception is again a
\* generation activated by a late call that was meant for another.
AcquiredIsReal ==
  phase = "waiting" /\ event # NoEvent /\ missionId[event.mission] = missionId[run] =>
    \/ event.generation = granted[event.mission]
    \/ event.generation \in stray

\* A mission ends, whatever is or stays in sight and whoever gives up on it,
\* unless it meets an obstacle again and again: an emergency stop does not look
\* at the clock.
MissionsEnd == []<>(~ Active(state) \/ near)
=============================================================================
