---------------------------- MODULE VisionFollower ----------------------------
(***************************************************************************)
(* The vision follower: the node that owns robot1's velocity, its           *)
(* FollowController, the bounded scan, the alignment of target detections   *)
(* with depth frames, and the acquisition snapshot.                         *)
(*                                                                          *)
(* Sensor data are the environment's: whether a detection finds an aligned  *)
(* depth frame, whether it can be localized and where the person then is,   *)
(* whether the protected sector holds an obstacle, how far the robot has    *)
(* turned, and when an observation is older than observation_timeout_sec.   *)
(***************************************************************************)
EXTENDS PersonDetector

CONSTANTS
  PendingDepth,   \* maxlen of _pending_targets
  Kinds           \* kinds of observations: the environment's choice

ASSUME FollowerAssumption ==
  /\ PendingDepth \in Nat \ {0}
  /\ Kinds \subseteq {"away", "standoff", "obstacle", "beyond"}

\* A mission is named by the run that asked for it.  The id typed by that run is
\* free text and may have been typed before: it is named by the first run that
\* typed it.
VARIABLE missionId   \* the operator's: the id of each run's mission

VARIABLES
  missionParameter,     \* the parameter mission_id
  generationParameter,  \* the parameter mission_generation
  mission,              \* _mission_id; 0 is the empty one
  missionGeneration,    \* _mission_generation
  lastStarted,          \* _last_started_generation
  started,              \* the run whose mission last started
  state,                \* the controller's state
  expired,              \* mission_timeout_sec have passed since the start
  seen,                 \* the controller has a _last_observation
  loss,                 \* "none", "counting", "over": _loss_started_at, 10 s later
  pending,              \* _pending_targets
  observation,          \* _latest_observation
  fresh,                \* it is at most observation_timeout_sec old
  near,                 \* a fresh depth frame shows an obstacle too close
  scan,                 \* "stopped", "active", "complete"
  snapshot,             \* _pending_snapshot: its generation, or 0
  written,              \* the mission ids that have a snapshot
  event                 \* the latched /vision/operator_event

followerVars ==
  <<missionParameter, generationParameter, mission, missionGeneration, lastStarted,
    started, state, expired, seen, loss, pending, observation, fresh, near, scan,
    snapshot, written, event>>

TerminalStates == {"failed", "cancelled"}   \* SUCCEEDED is never entered
Active(s) == s \in {"searching", "following", "reacquiring"}

NoObservation == [kind |-> "none"]
NoEvent == [mission |-> 0, generation |-> 0]

Observation == [kind : Kinds, target : Target]

FollowerTypeOK ==
  /\ missionParameter \in 0 .. MaxRuns /\ generationParameter \in 0 .. MaxRuns
  /\ mission \in 0 .. MaxRuns /\ started \in 0 .. MaxRuns
  /\ missionGeneration \in 0 .. MaxRuns /\ lastStarted \in 0 .. MaxRuns
  /\ state \in {"idle", "searching", "following", "reacquiring"} \cup TerminalStates
  /\ expired \in BOOLEAN /\ seen \in BOOLEAN /\ fresh \in BOOLEAN /\ near \in BOOLEAN
  /\ loss \in {"none", "counting", "over"}
  /\ pending \in Seq(Target) /\ Len(pending) <= PendingDepth
  /\ observation \in {NoObservation} \cup Observation
  /\ scan \in {"stopped", "active", "complete"}
  /\ snapshot \in 0 .. MaxRuns
  /\ written \subseteq 0 .. MaxRuns
  /\ event \in [mission : 0 .. MaxRuns, generation : 0 .. MaxRuns]

FollowerInit ==
  /\ missionParameter = 0 /\ generationParameter = 0
  /\ mission = 0 /\ missionGeneration = 0 /\ lastStarted = 0 /\ started = 0
  /\ state = "idle" /\ expired = FALSE /\ seen = FALSE /\ loss = "none"
  /\ pending = <<>> /\ observation = NoObservation /\ fresh = FALSE
  /\ near = FALSE /\ scan = "stopped"
  /\ snapshot = 0 /\ written = {} /\ event = NoEvent

-----------------------------------------------------------------------------
(* FollowController.update                                                   *)

Decision(s, c, l) == [state |-> s, command |-> c, seen |-> TRUE, loss |-> l]

\* _follow: an observation the controller has not to refuse.
Follow ==
  CASE observation.kind = "beyond" -> Decision("failed", "zero", "none")
    [] observation.kind = "obstacle" -> Decision("following", "zero", "none")
    [] observation.kind = "standoff" -> Decision("following", "turn", "none")
    [] observation.kind = "away" -> Decision("following", "forward", "none")

\* _handle_loss: search before any observation; then stop, turn, and give up.
HandleLoss ==
  IF ~ seen
  THEN [Decision("searching", "turn", loss) EXCEPT !.seen = FALSE]
  ELSE CASE loss = "none" -> Decision("reacquiring", "zero", "counting")
         [] loss = "counting" -> Decision("reacquiring", "turn", "counting")
         [] loss = "over" -> Decision("failed", "zero", "over")

Stay(s) == [state |-> s, command |-> "zero", seen |-> seen, loss |-> loss]

\* Mutant: a target in sight outlives the mission's time.
UpdateFollowsFirst ==
  CASE observation # NoObservation /\ fresh -> Follow
    [] expired -> Stay("failed")
    [] OTHER -> HandleLoss

Update ==
  CASE expired -> Stay("failed")
    [] ~ expired /\ observation # NoObservation /\ fresh -> Follow
    [] OTHER -> HandleLoss

\* The decision of a timer tick: a finished scan fails the search, and an obstacle
\* stops the robot before the controller is asked anything.
TickDecision ==
  CASE ~ Active(state) -> Stay(state)
    [] state = "searching" /\ scan = "complete" -> Stay("failed")
    [] Active(state) /\ ~ (state = "searching" /\ scan = "complete") ->
         IF near THEN Stay(state) ELSE Update

-----------------------------------------------------------------------------
(* The coordinator's callbacks                                               *)

\* _try_snapshot: it waits for both pictures; then they cannot be written, or the
\* mission's id has a snapshot already, or they are written and announced.
TrySnapshot(pendingSnapshot) ==
  \/ snapshot' = pendingSnapshot /\ UNCHANGED <<written, event>>
  \/ /\ pendingSnapshot # 0 /\ mission # 0
     /\ snapshot' = 0
     /\ \/ UNCHANGED <<written, event>>
        \/ /\ missionId[mission] \notin written
           /\ written' = written \cup {missionId[mission]}
           /\ event' = [mission |-> mission, generation |-> pendingSnapshot]

\* _tick.
Tick ==
  /\ state' = TickDecision.state
  /\ seen' = TickDecision.seen
  /\ loss' = TickDecision.loss
  /\ TrySnapshot(snapshot)
  /\ UNCHANGED <<missionParameter, generationParameter, mission, missionGeneration,
                 lastStarted, started, expired, pending, observation, fresh, near, scan>>

\* Mutant: a detection of any generation is used.
OfAnyMission(target) == TRUE

OfThisMission(target) == target.generation = missionGeneration

\* _on_target: kept until a depth frame can be aligned.
TargetArrives ==
  /\ wire # <<>>
  /\ wire' = Tail(wire)
  /\ pending' = IF Active(state) /\ OfThisMission(Head(wire))
                THEN Queued(pending, Head(wire), PendingDepth) ELSE pending
  /\ UNCHANGED <<colour, activeColour, armed, prepared, generation, count, missing, frames>>
  /\ UNCHANGED <<missionParameter, generationParameter, mission, missionGeneration,
                 lastStarted, started, state, expired, seen, loss, observation, fresh,
                 near, scan, snapshot, written, event>>

\* BoundedScanTracker.stop: a full turn stays one.
StoppedScan == IF scan = "complete" THEN "complete" ELSE "stopped"

\* _process_target: localized, the detection is the latest observation, as of now.
Localize(target, kind) ==
  /\ observation' = [kind |-> kind, target |-> target]
  /\ fresh' = TRUE
  /\ scan' = StoppedScan
  /\ TrySnapshot(target.generation)

\* _process_pending_targets, one turn of its loop.  A detection is dropped when the
\* depth stream is past it, or when it cannot be localized; without an active
\* mission all are.
ProcessPending ==
  /\ pending # <<>>
  /\ pending' = IF Active(state) THEN Tail(pending) ELSE <<>>
  /\ \/ /\ Active(state) /\ OfThisMission(Head(pending))
        /\ \E kind \in Kinds : Localize(Head(pending), kind)
     \/ UNCHANGED <<observation, fresh, scan, snapshot, written, event>>
  /\ UNCHANGED <<missionParameter, generationParameter, mission, missionGeneration,
                 lastStarted, started, state, expired, seen, loss, near>>

\* _on_depth shows an obstacle or none; a depth frame that is too old, or cannot be
\* read, shows none either.  This and the times below are read in a mission only.
DepthArrives ==
  /\ Active(state)
  /\ near' = ~ near
  /\ UNCHANGED <<missionParameter, generationParameter, mission, missionGeneration,
                 lastStarted, started, state, expired, seen, loss, pending, observation,
                 fresh, scan, snapshot, written, event>>

\* _on_odometry: the robot has turned all the way round.
ScanCompletes ==
  /\ state = "searching" /\ scan = "active"
  /\ scan' = "complete"
  /\ UNCHANGED <<missionParameter, generationParameter, mission, missionGeneration,
                 lastStarted, started, state, expired, seen, loss, pending, observation,
                 fresh, near, snapshot, written, event>>

\* Time passes: the observation ages, the search for a lost target is over, or the
\* mission is.
ObservationAges ==
  /\ Active(state) /\ fresh
  /\ fresh' = FALSE
  /\ UNCHANGED <<missionParameter, generationParameter, mission, missionGeneration,
                 lastStarted, started, state, expired, seen, loss, pending, observation,
                 near, scan, snapshot, written, event>>

LossEnds ==
  /\ Active(state) /\ loss = "counting"
  /\ loss' = "over"
  /\ UNCHANGED <<missionParameter, generationParameter, mission, missionGeneration,
                 lastStarted, started, state, expired, seen, pending, observation, fresh,
                 near, scan, snapshot, written, event>>

MissionExpires ==
  /\ Active(state) /\ ~ expired
  /\ expired' = TRUE
  /\ UNCHANGED <<missionParameter, generationParameter, mission, missionGeneration,
                 lastStarted, started, state, seen, loss, pending, observation, fresh,
                 near, scan, snapshot, written, event>>

-----------------------------------------------------------------------------
(* Its services                                                              *)

SetMission(run) ==
  /\ missionParameter' = run
  /\ UNCHANGED <<generationParameter, mission, missionGeneration, lastStarted, started,
                 state, expired, seen, loss, pending, observation, fresh, near, scan,
                 snapshot, written, event>>

SetGeneration(g) ==
  /\ generationParameter' = g
  /\ UNCHANGED <<missionParameter, mission, missionGeneration, lastStarted, started,
                 state, expired, seen, loss, pending, observation, fresh, near, scan,
                 snapshot, written, event>>

\* _start is answered with success.
CanStart ==
  /\ ~ Active(state)
  /\ missionParameter # 0
  /\ generationParameter >= 1 /\ generationParameter > lastStarted

\* Mutant: a start keeps what the last mission had still to write.
StartKeepsSnapshot ==
  /\ mission' = IF Active(state) THEN mission ELSE missionParameter
  /\ IF CanStart
     THEN /\ state' = "searching" /\ expired' = FALSE /\ seen' = FALSE /\ loss' = "none"
          /\ missionGeneration' = generationParameter
          /\ lastStarted' = generationParameter
          /\ started' = missionParameter
          /\ scan' = "active"
          /\ pending' = <<>> /\ observation' = NoObservation /\ fresh' = FALSE
          /\ UNCHANGED snapshot
     ELSE UNCHANGED <<state, expired, seen, loss, missionGeneration, lastStarted,
                      started, scan, pending, observation, fresh, snapshot>>
  /\ UNCHANGED <<missionParameter, generationParameter, near, written, event>>

\* _start: a refused one has already taken over the mission id, unless a mission is
\* active; the velocity waits for the next tick.
Start ==
  /\ mission' = IF Active(state) THEN mission ELSE missionParameter
  /\ IF CanStart
     THEN /\ state' = "searching" /\ expired' = FALSE /\ seen' = FALSE /\ loss' = "none"
          /\ missionGeneration' = generationParameter
          /\ lastStarted' = generationParameter
          /\ started' = missionParameter
          /\ scan' = "active"
          /\ pending' = <<>> /\ observation' = NoObservation /\ fresh' = FALSE
          /\ snapshot' = 0
     ELSE UNCHANGED <<state, expired, seen, loss, missionGeneration, lastStarted,
                      started, scan, pending, observation, fresh, snapshot>>
  /\ UNCHANGED <<missionParameter, generationParameter, near, written, event>>

\* _cancel, whatever the state.
Cancel ==
  /\ state' = "cancelled"
  /\ scan' = StoppedScan
  /\ pending' = <<>>
  /\ snapshot' = 0
  /\ UNCHANGED <<missionParameter, generationParameter, mission, missionGeneration,
                 lastStarted, started, expired, seen, loss, observation, fresh, near,
                 written, event>>
=============================================================================
