---------------------------- MODULE SquadPlanning ----------------------------
(***************************************************************************)
(* From an operator's prompt to the mission that execute_squad_mission      *)
(* runs: the fake planner, the schema and the policy, the compiler of       *)
(* batches and the operator's commands.  All of it is without state.        *)
(*                                                                          *)
(* Lengths are in centimetres, speeds in centimetres per second.  A pose    *)
(* faces along an axis: turn is the pair of its heading's cosine and sine.  *)
(* A batch is the sequence of its goals' poses, in the order of the robots. *)
(***************************************************************************)
EXTENDS Fleet, Integers

LOCAL INSTANCE SequencesExt
LOCAL INSTANCE FiniteSetsExt

Infinite == 1000000   \* a float that is not finite

\* maximum_squad_speed_mps, for the override of the environment (18 if none).
MaximumSquadSpeed(override) == IF override \in 18 .. 40 THEN override ELSE 18

DefaultPlan ==
  [version |-> "current", action |-> "formation_patrol", formation |-> "line",
   route |-> "inspection_loop", spacing |-> 60, speed |-> 12, split |-> FALSE,
   regroup |-> FALSE, location |-> "home"]

-----------------------------------------------------------------------------
(* Planning and validation.                                                 *)

SplitWords == {"split", "divide", "share", "assign", "separate", "different"}

RegroupWords == {"regroup", "rendezvous", "return", "home"}

FakePlannerRaises(prompt) == prompt \cap {"wedge", "line"} = {}

\* FakeSquadPlanner.propose, for the words of a prompt.
FakeProposal(prompt) ==
  [form |-> "json",
   value |-> [DefaultPlan EXCEPT
                !.formation = IF "wedge" \in prompt THEN "wedge" ELSE "line",
                !.split = prompt \cap SplitWords # {},
                !.regroup = prompt \cap RegroupWords # {}]]

\* SQUAD_PLAN_SCHEMA, for a value that has its fields and their types.
SchemaAdmits(value, override) ==
  /\ value.version = "current"
  /\ value.action = "formation_patrol"
  /\ value.formation \in {"line", "wedge"}
  /\ value.route = "inspection_loop"
  /\ value.spacing = 60
  /\ value.speed \in 5 .. MaximumSquadSpeed(override)
  /\ value.location = "home"

\* SquadPlan.__post_init__.
PolicyAdmits(value, goalTimeout, missionTimeout, override) ==
  /\ value.action = "formation_patrol"
  /\ value.formation \in {"line", "wedge"}
  /\ value.route = "inspection_loop"
  /\ value.spacing \in 60 .. 120
  /\ value.speed \in 5 .. MaximumSquadSpeed(override)
  /\ value.location = "home"
  /\ goalTimeout \in 1 .. Infinite - 1
  /\ missionTimeout \in goalTimeout .. Infinite - 1

\* validate_squad_proposal: the kind of its issues.
ValidationIssue(proposal, override) ==
  CASE proposal.form = "malformed" -> "malformed"
    [] proposal.form = "shape" -> "schema"
    [] OTHER ->
         IF ~ SchemaAdmits(proposal.value, override) THEN "schema"
         ELSE IF ~ PolicyAdmits(proposal.value, 120, 600, override) THEN "policy"
         ELSE None

-----------------------------------------------------------------------------
(* Formations and routes.                                                   *)

SeparationSq(p, q) == (p.x - q.x) * (p.x - q.x) + (p.y - q.y) * (p.y - q.y)

PLANNED_MINIMUM_DISTANCE == 50

\* validate_goal_separation.
GoalsSeparated(batch) ==
  \A i, j \in DOMAIN batch :
    i # j => SeparationSq(batch[i], batch[j])
               >= PLANNED_MINIMUM_DISTANCE * PLANNED_MINIMUM_DISTANCE

BatchIsValid(batch) == Len(batch) = Len(RobotIds) /\ GoalsSeparated(batch)

FormationOffsets(formation, spacing) ==
  IF formation = "line"
  THEN <<<<0, 0>>, <<-spacing, 0>>, <<-2 * spacing, 0>>>>
  ELSE <<<<0, 0>>, <<-spacing, spacing>>, <<-spacing, -spacing>>>>

\* transform_offset: <<forward, left>> seen from the reference.
TransformOffset(reference, offset) ==
  LET cos == reference.turn[1]
      sin == reference.turn[2]
  IN  [reference EXCEPT !.x = @ + offset[1] * cos - offset[2] * sin,
                        !.y = @ + offset[1] * sin + offset[2] * cos]

FormationGoals(reference, formation, spacing) ==
  [i \in DOMAIN RobotIds |->
     TransformOffset(reference, FormationOffsets(formation, spacing)[i])]

\* partition_route, without current poses: contiguous sections, the first ones
\* longer by one.
PartitionRoute(points) ==
  LET base == Len(points) \div Len(RobotIds)
      remainder == Len(points) % Len(RobotIds)
      start(i) == (i - 1) * base + Min({i - 1, remainder})
  IN  [i \in DOMAIN RobotIds |-> SubSeq(points, start(i) + 1, start(i + 1))]

\* _split_batches: a robot whose section is done holds its last goal.
SplitBatches(points) ==
  LET sections == PartitionRoute(points)
      count == Max({Len(sections[i]) : i \in DOMAIN sections})
  IN  [b \in 1 .. count |->
         [i \in DOMAIN sections |-> sections[i][Min({b, Len(sections[i])})]]]

\* _safe_regroup_reference: far enough ahead that no robot goes behind home.
SafeRegroupReference(home, formation, spacing) ==
  TransformOffset(home, <<IF formation = "line" THEN 2 * spacing ELSE spacing, 0>>)

\* build_squad_mission.
BuildSquadMission(plan, references, points, home) ==
  LET goals(reference) == FormationGoals(reference, plan.formation, plan.spacing) IN
  [forming |-> goals(Head(references)),
   movement |-> [i \in DOMAIN Tail(references) |-> goals(Tail(references)[i])],
   split |-> IF plan.split THEN SplitBatches(points) ELSE <<>>,
   regrouping |-> IF plan.regroup
                  THEN goals(SafeRegroupReference(home, plan.formation, plan.spacing))
                  ELSE <<>>]

\* SquadMission.__post_init__; what compile_split_execution asks of the split
\* batches is in SplitPlan.
MissionIsValid(plan, mission) ==
  /\ BatchIsValid(mission.forming)
  /\ mission.movement # <<>>
  /\ \A i \in DOMAIN mission.movement : BatchIsValid(mission.movement[i])
  /\ plan.split <=> mission.split # <<>>
  /\ \A i \in DOMAIN mission.split : BatchIsValid(mission.split[i])
  /\ IF plan.regroup THEN BatchIsValid(mission.regrouping) ELSE mission.regrouping = <<>>

-----------------------------------------------------------------------------
(* The demonstration.                                                       *)

At(x, y) == [x |-> x, y |-> y, turn |-> <<-1, 0>>]

FormationReferences == <<At(540, 0), At(480, 0)>>

DockHome == At(600, 0)

RoomTargets == <<At(400, 450), At(-300, -350), At(-350, 400)>>

\* _distance_order: the indices of robots, nearest to their destination first.
DistanceOrder(starts, destinations, indices) ==
  LET way(i) == SeparationSq(starts[i], destinations[i]) IN
  SetToSortSeq(indices, LAMBDA i, j : way(i) < way(j) \/ (way(i) = way(j) /\ i < j))

OutboundOrder(dock) == DistanceOrder(dock, RoomTargets, DOMAIN RobotIds)

InboundOrder(dock) == DistanceOrder(RoomTargets, dock, 2 .. Len(RobotIds)) \o <<1>>

\* _closest_first_room_batches: in each batch one more robot has moved.
ClosestFirstRoomBatches(dock) ==
  LET out == OutboundOrder(dock)
      in == InboundOrder(dock)
      moved(order, k) == Range(SubSeq(order, 1, k))
      batch(there, here, robots) ==
        [i \in DOMAIN RobotIds |-> IF i \in robots THEN there[i] ELSE here[i]]
  IN  [k \in DOMAIN out |-> batch(RoomTargets, dock, moved(out, k))] \o
      [k \in DOMAIN in |-> batch(dock, RoomTargets, moved(in, k))]

BuildDemoMission(plan) ==
  LET mission == BuildSquadMission(plan, FormationReferences, RoomTargets, DockHome) IN
  [mission EXCEPT !.split = IF plan.split
                            THEN ClosestFirstRoomBatches(Last(mission.movement))
                            ELSE <<>>]

-----------------------------------------------------------------------------
(* The operator's commands.  A request holds the words of its prompt, what  *)
(* it says of the mission id and of the timeouts, and its flags; a planner  *)
(* answers it with a proposal, or raises.                                   *)

RunConfigured(request) ==
  /\ request.idIsValid
  /\ request.goalTimeout > 0
  /\ request.missionTimeout >= request.goalTimeout

PlannerRaises(prompt, answer) == prompt = {} \/ answer.form = "raises"

\* cmd_preview's exit status.
PreviewStatus(request, answer, override) ==
  IF PlannerRaises(request.prompt, answer) THEN 1
  ELSE IF ValidationIssue(answer, override) = None THEN 0 ELSE 1

\* cmd_run: how it ends before any robot moves, and whether squad_plan.json was
\* written by then.  replace() applies the policy to the timeouts once more,
\* when the plan has been written.
RunSquad(request, answer, override) ==
  LET before(end) == [ends |-> end, written |-> FALSE]
      after(end) == [ends |-> end, written |-> TRUE]
  IN  IF ~ RunConfigured(request) THEN before("invalid")
      ELSE IF PreviewStatus(request, answer, override) = 1 THEN before("rejected")
      ELSE IF ~ request.yes /\ ~ request.confirmed THEN before("declined")
      ELSE IF ~ PolicyAdmits(answer.value, request.goalTimeout, request.missionTimeout,
                             override)
      THEN after("raised")
      ELSE after(IF request.dryRun THEN "dry_run" ELSE "runs")

\* cmd_status, for the files of a mission's directory.
StatusReported(files) ==
  IF "squad_result" \in files THEN "result"
  ELSE IF "squad_plan" \in files THEN "accepted" ELSE None
=============================================================================
