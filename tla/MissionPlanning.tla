--------------------------- MODULE MissionPlanning ---------------------------
(***************************************************************************)
(* From a planner's proposal to the plan of a mission: omokai_mission's     *)
(* validation and compiler, omokai_pipeline's preparation and the decisions *)
(* of the operator's commands.  All of it is without state: operators over  *)
(* a proposal, which is text that is not JSON, JSON that the schema         *)
(* refuses, or a typed mission.  Poses belong to waypoints and are left     *)
(* out; speeds count in hundredths of a metre per second.                   *)
(***************************************************************************)
EXTENDS Naturals, FiniteSets, SequencesExt

CONSTANT Catalog   \* the routes of the catalog, by id

LoopDirection == {"clockwise", "counterclockwise"}

PathDirection == {"forward", "reverse"}

\* _parse_route: what a route of a catalog that loads is known to satisfy.
RouteLoads(route) ==
  /\ route.directions = IF route.closed THEN LoopDirection ELSE PathDirection
  /\ route.waypoints # <<>>
  /\ IsInjective(route.waypoints)

ASSUME CatalogAssumption == \A id \in DOMAIN Catalog : RouteLoads(Catalog[id])

MAX_REPETITIONS == 10

MAX_SPEED == 26

\* MissionV1.repetitions: the laps of all segments.
Repetitions(mission) ==
  FoldLeft(LAMBDA sum, segment : sum + segment.repetitions, 0, mission.segments)

\* _semantic_errors, as a set of codes: the order of the audit record is left out.
SemanticErrors(mission) ==
  LET known == mission.route \in DOMAIN Catalog IN
  {code \in {"unknown_route", "unsupported_direction", "repetitions_out_of_range",
             "speed_out_of_range"} :
     CASE code = "unknown_route" -> ~ known
       [] code = "unsupported_direction" ->
            known /\ \E i \in DOMAIN mission.segments :
                       mission.segments[i].direction \notin Catalog[mission.route].directions
       [] code = "repetitions_out_of_range" -> Repetitions(mission) > MAX_REPETITIONS
       [] code = "speed_out_of_range" -> mission.speed > MAX_SPEED}

\* validate_proposal: the stages in order, each stopping at its errors.
ValidateProposal(proposal) ==
  CASE proposal.form = "malformed" -> [stage |-> "structural", errors |-> {"malformed_json"}]
    [] proposal.form = "schema" -> [stage |-> "structural", errors |-> {"schema_violation"}]
    [] OTHER ->
         LET found == SemanticErrors(proposal.mission) IN
         [stage |-> IF found = {} THEN "accepted" ELSE "semantic", errors |-> found]

\* ValidationResult.accepted, the gate of everything that follows.
Accepted(validation) == validation.stage = "accepted"

\* _waypoints_for_direction: a loop keeps its first waypoint as the anchor.
WaypointsForDirection(route, direction) ==
  IF direction \in {"counterclockwise", "forward"} THEN route.waypoints
  ELSE IF route.closed THEN <<Head(route.waypoints)>> \o Reverse(Tail(route.waypoints))
  ELSE Reverse(route.waypoints)

HomeLabel == [segment |-> 0, lap |-> 0, waypoint |-> "home"]

\* compile_mission: laps are numbered through the whole mission.
CompileMission(mission) ==
  LET route == Catalog[mission.route]
      segment(i) == mission.segments[i]
      before(i) == Repetitions([segments |-> SubSeq(mission.segments, 1, i - 1)])
      lap(i, k) == [w \in DOMAIN route.waypoints |->
                      [segment |-> i, lap |-> before(i) + k,
                       waypoint |-> WaypointsForDirection(route, segment(i).direction)[w]]]
      laps == [i \in DOMAIN mission.segments |->
                 FlattenSeq([k \in 1 .. segment(i).repetitions |-> lap(i, k)])]
  IN  FlattenSeq(laps) \o (IF mission.home THEN <<HomeLabel>> ELSE <<>>)

\* to_execution_plan raises if home comes before the end; ExecutionPlan if a
\* label is used twice, or there is no goal.
PlanRaises(goals) ==
  \/ \E i \in DOMAIN goals : goals[i] = HomeLabel /\ i # Len(goals)
  \/ goals = <<>>
  \/ ~ IsInjective(goals)

GoalKinds(goals) ==
  [i \in DOMAIN goals |-> IF goals[i] = HomeLabel THEN "home" ELSE "route"]

NoPlan == <<>>

\* prepare_proposal: its plan, and the artifacts it leaves on the way when it
\* has a writer.
PrepareProposal(proposal) ==
  IF Accepted(ValidateProposal(proposal))
    THEN [plan |-> CompileMission(proposal.mission),
          artifacts |-> {"proposal", "validation", "accepted_mission"}]
    ELSE [plan |-> NoPlan, artifacts |-> {"proposal", "validation"}]

-----------------------------------------------------------------------------
(* The operator's commands.                                                 *)

\* build_preview: plans without a writer; "error" is a planner that raises.
BuildPreview(proposal) ==
  IF proposal.form = "error" THEN [raises |-> TRUE, plan |-> NoPlan]
  ELSE [raises |-> FALSE, plan |-> PrepareProposal(proposal).plan]

CmdPreview(proposal) ==
  IF BuildPreview(proposal).plan = NoPlan THEN "rejected" ELSE "ok"

\* cmd_run: what it does with the previewed proposal, given --yes, --dry-run and
\* the answer at the approval gate.
CmdRun(proposal, yes, dryRun, answer) ==
  CASE BuildPreview(proposal).plan = NoPlan -> "rejected"
    [] ~ yes /\ ~ answer -> "declined"
    [] dryRun -> "ok"
    [] OTHER -> "runs"

\* Task1MissionRunner.__init__ with the approved proposal of cmd_run, or with
\* what its own planner proposes.
RunnerPrepares(proposal) ==
  CASE proposal.form = "error" -> [result |-> "planner_error", plan |-> NoPlan]
    [] PrepareProposal(proposal).plan = NoPlan ->
         [result |-> "validation_rejected", plan |-> NoPlan]
    [] OTHER -> [result |-> "none", plan |-> PrepareProposal(proposal).plan]

\* _parse_args: the two approved fields come together.
RunnerArgumentsOK(hasContent, hasProvider) == hasContent = hasProvider

\* load_mission_status, from the artifacts found.
MissionStatus(artifacts, result) ==
  CASE "result" \in artifacts -> result
    [] "accepted_mission" \in artifacts -> "accepted (no result yet)"
    [] "validation" \in artifacts -> "validated (no result yet)"
    [] OTHER -> "unknown"
=============================================================================
