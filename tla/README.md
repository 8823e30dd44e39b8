# A verification of the Omokai robot programs in TLA+

This directory holds TLA+ models of the programs under `src/`, the TLC configurations that check
them on small instances, and proofs, checked by TLAPS, of what holds for every instance. Paths
below are relative to `src/src/` unless they begin with `docs/`.

## 1. The system

The repository holds four kinds of mission. A **squad mission** drives three robots, each with its
own Nav2 stack, from one ROS node. A **single-robot mission** drives one robot through a list of
goals, from either of two runner programs. An **exploration** drives one robot to the frontiers of
its map. A **vision mission** searches for a person by the colour of the coat and follows, without
Nav2. The parts, their state, and what makes each correct:

| Part | State it keeps | Operations | What makes it correct |
|---|---|---|---|
| **Nav2 adapter** `omokai_executor/nav2_adapter.py` | one context per dispatched goal: handle, "cancel requested" | `dispatch`, `cancel`, callbacks of goal response, result, cancel answer | each goal is reported to its client exactly once; a cancel before acceptance is not lost |
| **Split scheduler** `omokai_fleet/split_execution.py` | per robot the goals left, per reservation the goals left, the active robots and those that left the dock | `ready_goals`, `claim`, `release`, `clear_active_reservation`, `abandon` | one robot in a corridor at a time, in plan order; nobody waits for ever |
| **Fleet adapter** `omokai_fleet/nav2_fleet_adapter.py` | token, pending, result and cancel status of each robot, the robot to blame, the formation status | `execute`, `execute_split`, `execute_formation`, four outcome methods | what is returned is what happened; every failure stops whom it must; the calls end |
| **Formation control** `formation_controller.py`, `formation_tracking.py` | the directive it follows | `_receive_command`, `_control_loop` | a status is used only for the operation it is of |
| **Squad lifecycle** `omokai_fleet/lifecycle.py` | phase, outcome of each robot, history, terminal target | `accept` ... `finish_partial_split` | phases in order behind barriers of all robots; the terminal state says what happened |
| **Squad mission** `mission.py`, `navigation.py`, `runner.py` | mission deadline, the operator's cancel flag | `execute_squad_mission`, `apply_navigation_batch`, `run_live_mission` | the lifecycle never raises; every mission leaves a terminal result |
| **Mission executor** `omokai_executor/executor.py` and its runners | state, step, attempt, current token | `start`, `tick`, `cancel`, four outcome methods | a goal is retried as often as allowed; an old token changes nothing; a cancel ends |
| **Exploration** `omokai_exploration/session.py`, `coordinator.py` | session state, current goal, blacklist, deadlines | map update, dispatch, outcomes, cancel | one goal at a time; a cancel and the deadline win over the next frontier |
| **Person following** `omokai_following/` | controller state, generation, queued detections | start, detection, depth, tick, cancel, emergency stop | no motion on old detections; timeouts count while stopped |
| **Fleet traffic** `traffic_manager.py`, `traffic.py`, `pose_tracker.py` | last command and pose of each robot | command, pose, timer | no stale command is repeated; every robot may move in the end |
| **Perception** `omokai_perception/person_detector.py`, `tracker.py` | armed, prepared, generation, confirmation counters | `arm`, `activate`, `disarm`, image callback | a target is confirmed in several frames, under the generation it was armed for |
| **Planning and command lines** `omokai_mission`, `omokai_pipeline`, `planner.py`, `allocation.py`, `scenario.py` | none but files | validate, compile, preview, approve, run | what runs is what was accepted and approved |
| **Audit, launch, models, live validation** | files | output, configuration | not state machines (section 8) |

How they interact. `run_live_mission` creates a node with the `/cancel` service and calls
`execute_squad_mission`, which drives a `SquadLifecycle` and calls the fleet adapter once per
phase: `execute` for forming and regrouping, `execute_formation`, `execute_split`. The fleet
adapter owns one Nav2 adapter per robot and hands it an outcome object; the Nav2 adapter calls it
back from ROS callbacks. All of this is one thread: callbacks run only inside `rclpy.spin_once`,
at most one per call, and everything between two calls of it is atomic. What is concurrent are
the three action servers, the formation controller (a node of its own) and the operator.

The executor and the exploration session are clients of the same Nav2 adapter, each in a program of
one thread as well. There a timer's `_tick` starts the mission, looks at the deadlines and writes
the result; Ctrl-C and the cancel service ask for a cancellation. The vision mission is three
processes: the operator's command calls services of the detector and of the follower, one after the
other, each with 5 s to answer; the detector publishes targets to the follower on a topic. The
traffic manager is a node between the robots' controllers and their wheels; it talks to nobody else.

What is hard: the order of callbacks of three robots; cancels that cross the end of the goal they
cancel; a stop that begins while another is under way; callbacks that call back (a failure cancels
the other goals, one of which fails at once, inside the first failure); deadlines that pass with
answers outstanding; values that survive from an earlier goal, phase or process. `PROJECT.json`
lists these hazards at their lines.

## 2. The modules

Lines are `EXTENDS` or `INSTANCE`; a module `X_proofs` holds the theorems about `X`.
`SplitExecution_proofs` and `FleetExecution_proofs` both extend `FleetAdapter_proofs`, which has only
lemmas; the theorem about `SquadLifecycle` is in `SquadMission_proofs`.

```
 Nav2Adapter      Fleet            SplitPlan      ReservationOrder
      \          /  |  \              |                 |
      FleetAdapter  |   SplitScheduler|                 |
        |       \   |      /          |                 |
 FleetExecution  SplitExecution ------+-----------------+      SquadLifecycle (over Fleet)
        |               |                                            |
 MCFleetExecution  MCSplitExecution                            SquadMission -> MCSquadMission
                                                                     (with FleetSafety, SquadPlanning)

 Nav2Adapter                    Nav2Adapter                  PersonDetector
      |                              |                             |
 MissionExecutor                Exploration  FrontierSelection  VisionFollower
      |                              |          |                  |
 MissionRunner  MissionPlanning     MCExploration             VisionMission        RightOfWay
      |          |
    MCMissionRunner
```

**`Nav2Adapter`** models `Nav2NavigationAdapter` and, as its environment, the action server. A
`Goal` is a goal with its token. `context` is `_contexts` (a goal is absent, sent, accepted or
popped; cancelled or not); `server`, `cancelCall` and `refused` are the server's side. Each
callback is an operator that yields the context map it leaves and the outcome method it calls, so
that a client can do its part in the same step; the code calls the client from inside the callback.
`Faults` says what the environment may do: `dispatch` raises, Nav2 rejects, aborts or refuses, a
transport call raises. Nav2 is trusted to cancel only what it was asked to cancel.

**`Fleet`** has the robots in their stable order, the statuses, and the sets of results each of
the three navigation calls may return: `BatchResults`, `FormationResults`, `SplitResults`. These
sets are the contract between the fleet adapter and the mission: `SplitExecution` and
`FleetExecution` are checked to stay within them, `SquadMission` is checked against all of them.

**`FleetAdapter`** has `_tokens`, `_pending`, `_results`, `_cancel_status`, `_root_failure` and
the cancelling of what is pending, which the three calls share. Cancelling pending robots is a
loop in the code, in which a cancel that fails to send resolves its robot at once; here it is one
step with the set `X` of those that fail. In `execute` the loops run over a copy, and what one
iteration does to the others is nothing, so the order does not matter.

**`SplitScheduler`** models `SplitReservationScheduler`. The queues of the code shrink; here they
are constants with a count of what was popped (`popped`) and done (`done`). Operations that raise
are guarded by what they demand, and the guards of the callers are the code's, so that a call
that would raise shows as a violation of `ReleaseOrderIntact`, not as a step that is missing.

**`SplitPlan`** models `compile_split_execution` and the batches of the demonstration. The MC
module checks, by `ASSUME`, that its plans are what the compiler makes of their batches, and that
all orders of departure and return compile into plans with the property the proofs assume
(`PlanAssumption`).

**`SplitExecution`** is `execute_split`. `pc` is the place in the loop (`top`, `dispatch`, `spin`,
`check`, `stop`, `wait`). The actions follow the code: `ClaimReady` and one `Dispatch...` per goal,
`SpinOutcome` for a callback with the outcome method it runs, `Check` for separation, corridor
clearance and the operator, `BeginTimeout`, `BeginWait`, `FinishSplitResult`. `TimeoutCrash` is the
`next()` over no robot in `_begin_timeout`.

**`FleetExecution`** is `execute` and `execute_formation` (the variable `call` says which), with
the leader's goals in rounds, the wait for the followers to settle, and the formation controller as
the environment: it follows the directive it last received, possibly that of an earlier process, and
reports blocked, moving or settled with the operation it is of.

**`SquadLifecycle`** has one action per method; the guard is what the method demands, under a name of
its own (`MayAccept`, `MayRecord`, ...). `FinishPartialSplitRaises` is the one method that raises after
it changed something.
**`SquadMission`** is `execute_squad_mission`. It prepares the lifecycle calls that
`apply_navigation_batch` and its siblings make, in their order, and makes them one per step, so that
a call that raises does so in the middle (`Raise`, where the call is one the lifecycle does not `Accepts`). `resultFile` is `squad_result.json`.

**`ReservationOrder`** is the abstract specification of what reservations promise: goals enter in
plan order, each once, one at a time. `SplitExecution` implements it (`KeepsReservationOrder`).
`SquadLifecycle`'s own specification, in which any caller makes any call, is the abstract
specification of the mission.

**`MissionExecutor`** has an operator per method of the executor, whole, with the calls it makes
into the adapter; `goalIndex`, `retryCount` and `handle` are its fields. A `Goal` of the adapter is
here an attempt (a goal of the plan and its retry), which is what a token stands for. The calls go
both ways: a failure callback dispatches the retry from inside (`NavigationFailed`), and a cancel
that cannot be sent calls `cancellation_failed` from inside `tick` (`DeadlinePasses`). An exception
leaves its method's name in `raised` and ends the program. **`MissionRunner`** is
`Task1MissionRunner` and `SavedMapVerificationRunner` with their `main()`: `phase` is the loop that
runs, an action is one callback (`Tick...`, `Spin...`), Ctrl-C (`Interrupt`), the 10 s after it
(`StopWaiting`), or a signal that shuts rclpy down (`ShutDown`). `foreign` records that another
client cancelled the goal.

**`Exploration`** is `ExplorationSession` and `ExplorationCoordinator`. A place is a cell that may
become a goal; a map (`SpinMap`, `TickObserves`) offers any places that are not near a visited or a
blacklisted one, which is what `rank_frontiers` guarantees. `trips` has the place of each goal. As in `MissionRunner`, the loops end by themselves, by Ctrl-C and
the time after it (`Interrupt`, `StopWaiting`), or because rclpy is shut down (`ShutDown`).
**`FrontierSelection`** is `frontier.py` and `grid.py` as operators: frontier cells, the flood fill
that makes clusters of them, clearance, eligibility. `MCExploration` checks on every two-by-four grid
that clusters are the connected components and that goals are free, at a frontier, and no goals once
they are visited: the link between the two modules.

**`PersonDetector`** has the services of the detector and a frame that matches or misses.
**`VisionFollower`** has the follower's callbacks and services; `TickDecision` is what its timer
decides, with the command velocity as a kind (forward, turn, zero). **`VisionMission`** adds
`configure_and_start` of the command, step by step (`phase`), with a call that is answered, refused,
lost on its way, or answered too late; of the services in `LateServices` a call that the command gave
up on may be executed at any later time (`LateCall`). Two parameter calls are sent at once
(`Configure`). The mission id is free text, and `README.md:212` and `docs/vision.md:78` of the
repository give the same one each time: `missionId` has the id of each run, by the first run that typed
it. The colour of a coat is named by the run that asks for it, and two runs may ask for the same
(`KeepsColour`). A late call to activate carries nothing that says which generation it was meant for;
`stray` has the generations that were activated by one that was meant for another. The operator runs
one command after the other. Two terminals that configure at once are not modelled, and so neither is
the arm response with another colour than the one asked for (`operator_cli.py:132-134`), which only a
second command in between can cause.

**`RightOfWay`** is the traffic manager's timer (`Update`) with `decide_right_of_way`: components of
robots in conflict, a winner by rank in the current priority window. The prediction of a conflict
is the set `closing`, which the environment changes at will. **`FleetSafety`** is the rule by which
the fleet adapter's loop sees a separation violation (pose ages and distances).

**`MissionPlanning`** and **`SquadPlanning`** are the paths from a proposal to a mission, as
operators without state: schema, semantic checks, compiler, allocation, formations, batches, and
what preview, run and status of the two command lines do with them.

## 3. The runs

| Run | Instance | What it shows |
|---|---|---|
| `split_nominal` | the demonstration's plan (three robots, six goals), no fault, no stop | every robot finishes all of its work, whatever the order of callbacks |
| `split_faults` | two robots, four goals in a departure corridor, an arrival corridor and a private route; every fault, every stop | corridors are exclusive; the scheduler's errors and unknown tokens cannot occur; results are real; what is returned is in `SplitResults`; no goal after a stop; the call ends |
| `fleet_calls` | two robots, a path of two leader goals, every fault, every stop | results are batches the mission accepts, and real; a failure stops everybody, once; a stale formation status does not end a call; the calls end |
| `squad_mission` | three robots, all four combinations of split and regroup, every result in the contract, a cancel at any time in a navigation call, navigation calls that raise | phases in order behind barriers; terminal states explained by the last phase; the lifecycle raises nowhere but at the end of a split |
| `mission_executor` | both runners, a route goal and the way home, one retry each; every fault, cancel timer, Ctrl-C, shutdown, a foreign client's cancel | results are real; no goal is left untold; the executor raises in four situations only; the program ends. Also every proposal over three small routes compiles as it was approved |
| `exploration` | three places, two near each other, three dispatches; every fault, map, deadline, cancel, Ctrl-C, shutdown | no place twice; books agree with Nav2; cancels honoured; the end is explained and comes. Also `FrontierSelection` on every two-by-four grid |
| `following` | two runs of the command, with the same mission id or two and the same coat or two, two confirmation frames, queues of one, late `start` and `activate` calls, a cancel at any time | the robot drives forward only on a confirmed target of its mission; an acquisition reported is one of that run, or of the run of the same id; missions end |
| `traffic` | three robots, every set of conflicts, poses, intentions and commands that come and go | one robot of a group in conflict goes, and none on a stale command; priority reaches everyone |
| `split_wedge`, `split_false_success`, `split_uncancelled`, `squad_cancel` | as above | the findings of section 6, each a counterexample |

**Bounds, and why they suffice.** Two robots are the least for which one may hold, fail in, or
leave a corridor that another waits for, and for one failure to stop another robot; the
interplay of three is in the demonstration's plan and, for safety, in the proofs, which hold for any
number. Two goals per robot are the least for which results of an earlier goal, and places left in a
queue, matter. Two leader goals are the least with a next one. Nothing else is bounded but the
controller's messages, of which one is on its way at a time (the newest status is what counts).
Time is not modelled: a deadline may pass at any moment at which the code looks at it.

For the single robot: two goals of the two kinds, and one retry, are the least for which a token of
an earlier attempt and of an earlier goal can exist; three places with two near each other are the
least for which a failure rules out a place that was not tried and one is left. `MaxGoals` bounds
dispatches; as no place is visited twice, three places allow no more. Two runs of the vision
command are the least for which something of an earlier mission (a target on the wire, a late call,
a snapshot, a parameter) can meet a later one; queues of one place overflow at the second message,
which a longer queue only does later; `VisionMission_proofs` covers every number. Of the kinds of
observation `following` uses "away", the one that gives motion forward; the other three stop the robot,
turn it or fail the mission, and are in the proof. `LateServices = {"start", "activate"}`, one at a
time, are the late calls that set something going; the proof takes any number of late calls to all
eight services, and the two invariants were also model-checked with all of them and "beyond", by
setting `LateServices` and `Kinds` in `following.cfg` (that takes longer). The tracker's count of
missing frames is read only while there is a target, and is 0 otherwise. With three
robots `_conflict_components` never has two components to merge.

The modules without state are checked by `ASSUME`s over all small inputs, evaluated at the start of
a run: `MissionPlanning` in `mission_executor`, `FrontierSelection` in `exploration`, `SquadPlanning`
and `FleetSafety` in `squad_mission` (with the check that the orders in which `SplitPlan` moves the
robots are those that the scenario's poses give). Lengths are whole centimetres there and poses face
along the axes, as those of the scenario do; `partition_route` is modelled without current poses,
which production never passes.

**Fairness.** `Spec` has none. The loops of the node keep running (`WF` of the loop's actions): it
is one thread that never blocks for longer than a spin's timeout. Deadlines pass (`SF` of the
actions that look at them, since they are enabled only at one place in the loop, again and again):
`monotonic()` grows. That is all `SplitEnds` and `CallEnds` assume: nothing forces a server, a
controller or the operator to act. `AllWorkDone` assumes in addition that due callbacks are not
passed over for ever and that the servers together keep working (`SF`): without faults Nav2 answers
every goal, and that is what the property is about.

For the single robot the timer fires (`WF` of `Tick`), and the deadlines of goals, of Ctrl-C and of
the exploration pass (`WF`: once such a deadline may pass it stays so until the state changes). That
Nav2 or a callback ever comes is not assumed: `Terminates` holds without. The deadlines are
`monotonic()`'s, but the timers that look at them follow the nodes' clock, which is simulation time
(`use_sim_time`): what must end presumes that `/clock` goes on. In `following` the timer
fires and the mission's time passes; in `traffic` the timer fires and priority windows follow one
another. In both cases no message is forced to arrive.

**Reductions.** The node sees the servers and the controller only while it spins, so they act only
while `pc` is at a spin or a wait; what they did before may as well happen then. One callback runs
per `spin_once`. In a check of a split at most one robot leaves the dock's area (the reservation is
exclusive, so no second one can be waiting to). In `execute_split` readiness of servers and poses
comes before the first step and is not modelled; in `FleetExecution` it is `Start` or `NotReady`.
The hold goals that `execute` skips occur only on the path for transports without `execute_split`,
which is not modelled. That `get_result_async` itself raises is not modelled. Reasons are wording
and left out. In `MissionRunner` and
`Exploration` Ctrl-C is taken between two callbacks. In `VisionMission` depth, odometry and the ages
of observations change only in a mission, as nothing reads them outside; empty target messages
change nothing and are left out; the parameter callbacks never refuse, because the command has
checked its values before; and whether the snapshot's two pictures are at hand is open.

## 4. The properties

Every module has one type invariant. The others, in the module that states them:

- `SplitExecution`: `CorridorExclusive`, `ReleaseOrderIntact`, `PendingTracked`, `ResultsAreReal`,
  `WedgedOnlyByAbandoned`, `ReturnsASplit`, the action property `NoDispatchAfterStop`, the
  refinement `KeepsReservationOrder`, the liveness properties `AllWorkDone` and `SplitEnds`.
- `FleetExecution`: `ReturnsABatch` (at most one primary failure, and robots that are only
  cancelled only if the operator asked), `ResultsAreReal`, `FailureCancelsAll`, `SettledHere`, the
  action property `CancelledOnce`, the liveness property `CallEnds`.
- `SquadLifecycle`: `PhasesInOrder`, `BarriersHeld`, and `NothingLeftActive`, which holds of the calls
  that a mission makes. `SquadMission`: `RaisesInSplitOnly`, `TerminalStateIsExplained`.

- `MissionRunner`: `HandleIsTracked` (executor and adapter agree on the attempt under way),
  `ResultIsReal`, `CrashesExplained`, `LeavesNoGoalUntold`, the liveness property `Terminates`.
- `Exploration`: `NoPlaceTwice`, `BooksAreReal`, `EndIsExplained`, the action property
  `CancelHonoured`, the liveness property `Terminates`.
- `VisionMission`: `ForwardIsSeen`, `AcquiredIsReal`, the liveness property `MissionsEnd`.
- `RightOfWay`: the action property `RightOfWayKept`, the liveness property `EveryoneGoes`.

Some of these state an exception, and each exception is something that the code really does:

- `CrashesExplained`: the saved-map runner does not finalize a mission that Ctrl-C ended before Nav2
  was ready, so that the next tick compiles a cancelled mission and raises; a second cancel request
  raises, so Ctrl-C while the cancel timer's request is under way, or the timer while Ctrl-C's is,
  ends the Task 1 runner without a result; a goal that another client canceled raises in `cancellation_confirmed`; a deadline during
  a cancellation whose second request cannot be sent raises in `tick`.
- `LeavesNoGoalUntold` is not claimed of a program that a signal other than Ctrl-C shuts down. A goal whose
  cancel could not be sent is given up by adapter and executor, and is no longer spoken of.
- `EndIsExplained`: a cancel is refused while the session cancels a goal that timed out; when that
  cancel was Ctrl-C, the program may leave, 10 s later, a goal that it dispatched in between. When
  rclpy is shut down under either loop (`omokai_exploration/coordinator.py:292`, `:298`) nobody asks for
  a cancel, and the goal is left as it is unless one was accepted before.
- `BooksAreReal` compares a visited place with what became of its goal in Nav2; a blacklisted one it only
  keeps apart from them, as any failure, refusal or confirmed timeout puts a place on that list.
- `NothingLeftActive`: `finish_partial_split` looks only for one outcome that failed, so that a caller
  who gives it ACTIVE beside FAILED would archive an active robot (`omokai_fleet/lifecycle.py:282`). The
  mission gives it none; of any caller the property is not claimed.
- `ForwardIsSeen`: the colour is that of the mission *unless another run has begun*. The command
  sets the detector's `target_coat_color` before it learns that a mission is active
  (`omokai_following/operator_cli.py:86`), and the running mission then follows the person in the
  other coat, under its own generation. Both properties of vision also except a generation in `stray`:
  `activate` carries no generation, and one that the command of an earlier run gave up on may reach the
  detector when a later run has armed it.
- `AcquiredIsReal`: what a run reports is the picture of *the run that the event names*, which is that run
  itself or an earlier one with the same mission id: `wait_for_acquisition` compares ids only
  (`omokai_following/operator_cli.py:186-190`), the event is latched, and `write_once` writes no second
  picture for an id (`omokai_perception/snapshots.py:44`). So the second `vision-demo` of a session is
  told at once of the first one's target.
- `MissionsEnd`: `emergency_stop` is called *instead of* `update` while an obstacle is near, so that
  a robot that meets an obstacle at every tick stays in its mission, at rest, for ever.
- `RightOfWayKept` speaks of robots whose intentions are fresh: a robot whose intention is older than
  0.5 s counts as standing still, and is let through if a fresh command of it arrives all the same. A
  command that is older than that moves no robot, neither at first nor when the commands are published
  again in a new window.

For each property there is a mutant in the module it is about, an operator with a name and a comment that
says which mistake it is; with the mutant in place of the definition TLC finds the property violated.

## 5. The proofs

Every invariant and action property of a passing run has a theorem. The proofs hold for any robots,
plan, faults, stops, results, retries, runs and queues. They use the named assumptions of the
constants: `RobotsAssumption` (a non-empty list without repetition, of values other than `None`),
`PlanAssumption` and `OwnerAssumption` (goals of a robot and of a queue are in batch order, each goal
belongs to one robot and one reservation; TLC checks them on compiled plans), `FaultsAssumption`,
`StopsAssumption`.

**`FleetAdapter_proofs`** has the lemmas that the proofs about the fleet's calls share: the stable
order has a first robot of any set; what a callback leaves of the adapter's contexts and which outcome
it may call; what the action server does to a goal; what cancelling the pending robots leaves. Its
`AsksAgree` (a goal is canceled, or refuses to be, only if the adapter was asked) is kept by all of them.

**`SplitExecution_proofs`** first states the scheduler's own facts, then proves
`TypeOK`, `ReleaseOrderIntact`, `PendingTracked`, `CorridorExclusive`, `NoDispatchAfterStop` and the
refinement `KeepsReservationOrder`. None of these is inductive: each relates two records of a goal,
and a goal has four, in the scheduler, the loop, the adapter and the server. The inductive invariant
`IInv` ties them together:

- `SchedulerInv`: an active robot's current goal is at its place in its list and its queue, at the
  head of the queue unless it left the corridor;
- `FlightInv`: a robot whose goal was dispatched holds exactly that token; whoever is pending waits
  for a goal that the adapter tracks; robots of `todo` are claimed and not yet dispatched;
- `OrderInv`: a goal that was sent is behind its robot or the one it is active with, and has left
  its queue or is its head; a goal that was not sent is idle in the server. From this exclusivity
  follows: two goals of one queue that were sent and have not left are both its head;
- `CountInv`: no more goals are counted as completed than the robot finished.

There is one lemma for each of the five things a step can do to the scheduler, and each action is
shown to be one of them. That the parts are preserved by `Release` when other robots wait in the same
queue is where the plan's order is needed: two goals of a robot in one queue come in the order of
its list, so the head of a queue always is the current goal of its owner.

A second invariant, `RecordInv`, is inductive on top of `IInv` and gives `ResultsAreReal`,
`WedgedOnlyByAbandoned` and `ReturnsASplit`. `StopInv` says that a goal is told to stop only in a stop
of the fleet, and that until then whatever was dispatched is waited for; `TimeoutInv` that only the robot
blamed for the deadline timed out; `DoneInv` that what is counted was reached; `QueueInv` that, as long
as nobody was abandoned, a queue has let go of all that is finished. That the split does not wedge then
rests on one lemma, `SomebodyIsReady`: of the next goals of the robots with work left, the one earliest
in batch order is the head of its queue, because whatever is before it in the queue is earlier and
therefore finished. So the reservations alone never deadlock, for any plan in batch order; finding 1 is
what happens to the exception that the property makes.

**`FleetExecution_proofs`** proves all five invariants and the action property `CancelledOnce`, for any
number of robots, any length of the leader's path, all faults and stops. `IInv` adds to them:

- `RoundInv`: what the round has sent, still has to send and waits for, and under which token;
  `FreshInv`: only goals of this round or an earlier one were ever told to stop;
- `ResultInv`: a robot has a result exactly if it is neither to be sent nor waited for, and the result
  says how its goal ended in Nav2;
- `BlameInv`: who is blamed has failed, or is still waited for and was told to stop because it failed; all
  that is waited for was then told to stop; no robot but the one blamed has a primary failure, and no
  robot was cancelled unless somebody is blamed or the operator asked. `ReturnsABatch` is what is left
  of it when the call returns;
- `SettleInv`: a status that was accepted is of this call's directive.

The hard steps are those where one callback resolves several robots: a failure cancels the others, some
cancels cannot be sent and resolve theirs inside the same step, and the blame must not move.

**`SquadMission_proofs`** proves, first of the lifecycle alone, for every caller and any outcomes it may
pass, that `PhasesInOrder` and `BarriersHeld` hold (`LifecycleInvariance`). They become inductive with `StateInv` (an active
state is that of the phase under way) and `PlaceInv` (the number of phases archived is the phase's
place in the plan less one): the code never counts phases, the state alone decides what may come
next, and `PlaceInv` is why that is enough. It then proves that the mission
implements the lifecycle's specification (`MissionDrivesLifecycle`), which needs that all calls it
prepares are well formed, and so carries the two properties and the types over to missions. That the
outcomes a mission passes to the end of a split are all resolved gives it `NothingLeftActive` as well.

`RaisesInSplitOnly` and `TerminalStateIsExplained` are about calls still to be made. `CallsInv` describes
them at each `pc`: when a phase ends, the calls left settle every robot that is active, each once
(`Covers`), in an order the lifecycle accepts (`StopsAt`: successes, one call that stops the mission,
cancellations, the end; `Closes` is what is left of it once the mission is cancelling). `ends` is how the
robots will have ended, fixed when the calls are prepared, and `Explains` says that it fits the terminal
state that the stopping call aims at; from then on each call made moves one robot from the calls to
`current` and changes nothing of that. A split's result is one call, which the lifecycle may refuse: that
is the one exception. `WrittenIsTerminal` is the other side of finding 4: a mission that does not raise
writes a terminal state.

**`MissionRunner_proofs`** proves every invariant that the run checks, for every plan, number of
retries, class of faults and both programs. `Inductive` adds to them: `GoalsAgree` (what the adapter
and the server know of a goal: cancel calls come from `cancel()`, a cancellation of a goal known to
be accepted was passed on); `HandleAgrees` (the adapter tracks the handle and nothing else but a goal
given up at its deadline, and attempts to come were never dispatched, which is why a new attempt
never meets an old context); `MissionAgrees` (the goals completed were reached, a cancelled mission's
goal was canceled); `ProgramAgrees` (what `phase`, `started` and `timerCancelled` say of the state:
a mission is cancelled without a result only in the saved-map runner). `CrashesExplained` needs the
last, `ResultIsReal` the two before. `HandleAgrees` is claimed only while nothing has been raised.

**`RightOfWay_proofs`** proves `RightOfWayKept` from the loop's algebra: merging keeps components
disjoint, every conflict lies in one component, each component has one robot that does not yield; and
what is published is always cut down to the robots with a fresh command.

**`VisionMission_proofs`** proves `ForwardIsSeen` and `AcquiredIsReal` for any number of runs, frames,
queue places and late calls, whichever services execute them, and for mission ids typed again. The
argument: generations only grow, and the generation last started stays `Unused` (no target on the wire,
in the queue or seen carries it, and no snapshot) until the detector is activated for its mission; so
the targets of the mission that runs were all confirmed after that activation, in the colour that its
run had set. `StagesAgree` says what each step of the command leaves true, `LateAgrees` what a call that
waits may find, one conjunct per service: a late `arm` holds up every run after it, because requests to one
service are served in order; a late `start` starts a generation that is unused, or is refused; a late
`generation` is one that no run has passed; a late `activate` meets the mission it was meant for, or makes
the generation it meets a stray one. `EventAgrees` ties the latched event to the run it names.

**`Exploration_proofs`** proves every safety property that the run checks, the action property
`CancelHonoured` among them, for any places, nearness, limits and faults. `Inductive` adds to them:
`HandleAgrees` (the session has a goal exactly while it drives or cancels, it is the last one
dispatched, and what else the adapter tracks was given up when its cancellation came too late);
`BooksAgree` (every goal before the last is booked, in one book; a place is booked as visited only if
Nav2 reached it), on which `NoPlaceTwice` rests: a candidate is not near anything booked, and a place
is near itself;
`ProgramAgrees` (an accepted cancel leaves the session `Committed`: ended, or cancelling for a reason
after which nothing follows), on which `CancelHonoured` and `EndIsExplained` rest. Every session
method that gives up the goal goes through one lemma, `SessionLeft`.

**Only model-checked.** Liveness (`AllWorkDone`, `SplitEnds`, `CallEnds`, `Terminates`,
`MissionsEnd`, `EveryoneGoes`): proofs of liveness under fairness and of `ENABLED` are out of this
prover's reach, as are induction over data and `RECURSIVE` operators (the flood fill of
`FrontierSelection` is one; the modules with theorems reach none). What the
operators of `SplitPlan`, `FrontierSelection`, `MissionPlanning`, `SquadPlanning` and `FleetSafety`
compute is checked by the `ASSUME`s of the MC modules, over bounded inputs.

## 6. Findings

1. `split_wedge`: `abandon()` leaves the abandoned goals in the reservation queues. When one of
   them comes to the head of a corridor's queue, the surviving robots never become ready
   again, and at the deadline `_begin_timeout` raises `StopIteration`. `docs/multi_robot.md:142`
   promises that safe survivors finish.
2. `split_false_success`: if Nav2 does not confirm the cancellations of a timeout in 5 s,
   `_finish_split_result` reports each robot by the result of its previous goal: an unfinished split
   may count as a success.
3. `split_uncancelled`: a dispatch in a corridor that fails stops the fleet, but the `for` loop goes
   on; goals dispatched after it are not cancelled. `docs/multi_robot.md:116` says that all
   unresolved goals are.
4. `squad_cancel`: a split that was cancelled by the operator, or timed out without confirmation,
   has no failed robot; `finish_partial_split` raises, no result is written, and `status` keeps
   saying "accepted". `docs/architecture.md:88` says that cancellation ends in an explicit terminal
   state.

Besides these, the modelling met behaviour that is stated in the properties above as an exception, or
that no property needs:

- A second vision run changes what the detector looks for in a mission under way (section 4,
  `ForwardIsSeen`); `docs/vision.md:101-103` lets only the requested attribute produce a target.
- An observation's age counts from its reception, not from its picture; with a slow detector the
  robot drives on pictures older than `observation_timeout_sec`.
- A person localized after the full turn of the scan but before the next tick does not save the
  mission: the tick fails it. While an obstacle hides the observation from the controller, the state
  stays "searching" with the scan already stopped.
- `_start` of the follower takes over `mission_id` before it checks the generation, so that a refused
  start renames the mission that events and snapshots are named for; `_cancel` of a mission that has
  failed makes it "cancelled".
- Any transform that `lookup_transform` still finds makes a robot's pose new
  (`omokai_fleet/pose_tracker.py:166`), so the check for stale poses hardly ever fires
  (`TransformsCountAsNews`).
- `omokai-fleet run` lets an infinite timeout pass, writes `squad_plan.json`, and raises; `status`
  then says "accepted" (`RunsAreApproved`).
- The second run of the documented vision command with its fixed mission id reports the acquisition of
  the first (section 4, `AcquiredIsReal`), and writes no picture of its own.
- `docs/slam.md:20` calls the blacklisting of an exploration temporary; nothing ever leaves the list.

## 7. What could be added

- A refinement of `FleetExecution` and `SplitExecution` to one abstract call ("every robot gets one
  result"), which would tie `Fleet`'s three sets of results to the calls by a specification.
- The order of candidates by score in `rank_frontiers`, over exact square roots.
- The traffic manager composed with the fleet adapter: a robot that yields for long has a goal that
  times out.

## 8. Not modelled, and why

- Geometry in floating point: the prediction of conflicts, tracking errors and velocities of a
  formation, localization in depth images, scores of frontiers. Where a state machine uses it, the
  model takes any outcome. `_last_range` (`omokai_following/coordinator.py:73`) belongs to it: it is
  reset by a start but not when a target is lost.
- Inference and the attribute gate of `omokai_perception`: a frame matches or misses.
- Calls of a language model's provider (`omokai_fleet/gemini_planner.py`,
  `omokai_mission/gemini_planner.py`): the proposal is any text.
- Files: `audit.py`, the artifacts of an exploration, results of a vision mission, plots, and the
  reading of catalogs and saved places, which happens before a runner starts.
- `tf_aggregator.py`, launch files, simulation models, and `vision_live_validation.py`, a script that
  drives a live simulation through checks of its own.
- `_execute_split_phase`'s path for transports without `execute_split`, which production never takes
  (`mission.py:311`). `server_is_ready` is a query.
