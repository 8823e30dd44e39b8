--------------------------- MODULE MCSquadMission ---------------------------
(***************************************************************************)
(* Instances of SquadMission: the three robots of the program.              *)
(*                                                                          *)
(* The assumptions check the planning of a mission and the safety check of  *)
(* its navigation, which have no state, over bounded inputs.                *)
(***************************************************************************)
EXTENDS SquadMission, SquadPlanning, FleetSafety

TrioIds == <<"robot1", "robot2", "robot3">>

Compiler == INSTANCE SplitPlan

-----------------------------------------------------------------------------
(* Planning.                                                                *)

Overrides == {0, 18, 30, 40, 41}

Values ==
  [version : {"current", "other"}, action : {"formation_patrol", "other"},
   formation : {"line", "wedge", "other"}, route : {"inspection_loop", "other"},
   spacing : {0, 59, 60, 61, 120}, speed : {0, 4, 5, 18, 19, 30, 40, 41},
   split : BOOLEAN, regroup : BOOLEAN, location : {"home", "other"}]

PlanOf(formation, spacing, split, regroup) ==
  [DefaultPlan EXCEPT !.formation = formation, !.spacing = spacing,
                      !.split = split, !.regroup = regroup]

Plans ==
  {PlanOf(formation, spacing, split, regroup) :
     formation \in {"line", "wedge"}, spacing \in {60, 120},
     split \in BOOLEAN, regroup \in BOOLEAN}

\* What the schema admits, the policy admits, under the plan's own timeouts.
ASSUME SchemaWithinPolicy ==
  \A value \in Values, override \in Overrides :
    SchemaAdmits(value, override) => PolicyAdmits(value, 120, 600, override)

\* The fake planner's proposals are accepted whatever the environment says.
ASSUME FakePlansAreAccepted ==
  \A prompt \in SUBSET {"wedge", "line", "split", "regroup", "please"}, override \in Overrides :
    ~ FakePlannerRaises(prompt) => ValidationIssue(FakeProposal(prompt), override) = None

\* Formations keep the planned distance, whichever way the squad faces.
ASSUME FormationsAreSeparated ==
  \A turn \in {<<1, 0>>, <<0, 1>>, <<-1, 0>>, <<0, -1>>},
     formation \in {"line", "wedge"}, spacing \in {60, 90, 120} :
    BatchIsValid(FormationGoals([x |-> 10, y |-> -20, turn |-> turn], formation, spacing))

\* Every accepted plan has a mission: the compiler refuses none of its batches.
ASSUME DemoMissionsAreValid ==
  \A plan_ \in Plans : MissionIsValid(plan_, BuildDemoMission(plan_))

\* No robot is sent behind home to regroup, and one goes as far back as home.
ASSUME RegroupStopsAtHome ==
  \A plan_ \in {p \in Plans : p.regroup} :
    LET goals == BuildDemoMission(plan_).regrouping
    IN  /\ \A i \in DOMAIN goals : goals[i].x <= DockHome.x
        /\ \E i \in DOMAIN goals : goals[i].x = DockHome.x

\* Routes are shared out whole, in order, as evenly as they can be.
ASSUME PartitionCovers ==
  \A n \in 3 .. 11 :
    LET parts == PartitionRoute([k \in 1 .. n |-> k])
    IN  /\ parts[1] \o parts[2] \o parts[3] = [k \in 1 .. n |-> k]
        /\ \A i, j \in DOMAIN parts : Len(parts[i]) - Len(parts[j]) \in -1 .. 1
        /\ \A i \in DOMAIN parts :
             LET goals == [b \in DOMAIN SplitBatches([k \in 1 .. n |-> k]) |->
                             SplitBatches([k \in 1 .. n |-> k])[b][i]]
             IN  SubSeq(goals, 1, Len(parts[i])) = parts[i]

\* The orders in which SplitPlan moves the robots are those of the poses, and
\* its batches are these, goal for goal: a robot moves or it holds.
ASSUME DemoOrders ==
  \A plan_ \in {p \in Plans : p.split} :
    LET dock == BuildDemoMission(plan_).movement[1]
        batches == BuildDemoMission(plan_).split
        pose(b, r) == batches[b][CHOOSE i \in DOMAIN TrioIds : TrioIds[i] = r]
        before(b, r) ==
          IF b = 1 THEN dock[CHOOSE i \in DOMAIN TrioIds : TrioIds[i] = r] ELSE pose(b - 1, r)
    IN  /\ OutboundOrder(dock) = <<1, 2, 3>>
        /\ InboundOrder(dock) = <<2, 3, 1>>
        /\ Len(batches) = Len(Compiler!DemoBatches)
        /\ \A b \in DOMAIN batches, r \in Robot :
             Compiler!IsHold(Compiler!DemoBatches[b][r]) <=> pose(b, r) = before(b, r)

-----------------------------------------------------------------------------
(* The operator's commands.                                                 *)

Requests ==
  [prompt : {{}, {"wedge"}}, idIsValid : BOOLEAN, goalTimeout : {0, 300, Infinite},
   missionTimeout : {0, 299, 300, 1800, Infinite}, yes : BOOLEAN, confirmed : BOOLEAN,
   dryRun : BOOLEAN]

Answers ==
  {[form |-> "raises"], [form |-> "malformed"], [form |-> "shape"],
   [form |-> "json", value |-> DefaultPlan],
   [form |-> "json", value |-> [DefaultPlan EXCEPT !.speed = 19]]}

\* A mission runs only from an accepted proposal that was approved, and its plan
\* is on disk before; a plan on disk without a mission is a dry run or an
\* infinite timeout, which the command lets pass and the plan refuses.
ASSUME RunsAreApproved ==
  \A request \in Requests, answer \in Answers :
    LET run == RunSquad(request, answer, 18) IN
    /\ run.written => ValidationIssue(answer, 18) = None /\ (request.yes \/ request.confirmed)
    /\ run.ends = "runs" => run.written
    /\ run.ends = "raised" => Infinite \in {request.goalTimeout, request.missionTimeout}
    /\ run.written /\ run.ends # "runs" => run.ends = "raised" \/ request.dryRun

-----------------------------------------------------------------------------
(* The safety check.                                                        *)

Points == {[x |-> x, y |-> 0] : x \in {0, 29, 30, 100}}

Trackers ==
  [poses : [Robot -> Points], received : [Robot -> {0, 20}]]

\* Robots closer than the emergency distance are reported whenever every robot
\* is known and fresh, and only then is separation the reason.
ASSUME SeparationIsReported ==
  \A tracker \in Trackers :
    (ViolationReason(tracker, <<>>, 20).kind = "separation") <=>
      /\ \A r \in Robot : tracker.received[r] = 20
      /\ \E r, s \in Robot :
           r # s /\ tracker.poses[r].x - tracker.poses[s].x \in -29 .. 29

\* A transform that is still in the buffer makes a silent robot fresh again,
\* whatever its age.
ASSUME TransformsCountAsNews ==
  \A tracker \in Trackers, now \in {20, 40, 1000} :
    ViolationReason(tracker, tracker.poses, now).kind \in {"none", "separation"}

\* Until every robot was seen once, in the map frame or by a transform, the
\* fleet is unavailable.
ASSUME UnseenIsUnavailable ==
  \A S \in SUBSET Robot, frame \in {"map", "odom"} :
    LET seen == [r \in S |-> [x |-> 0, y |-> 0]]
        one == OnPose(EmptyTracker, Leader, frame, [x |-> 0, y |-> 0], 0)
        known == S \cup (IF frame = "map" THEN {Leader} ELSE {})
    IN  ViolationReason(one, seen, 0).kind = "unavailable" <=> known # Robot
=============================================================================
