--------------------------- MODULE MCMissionRunner ---------------------------
(***************************************************************************)
(* Instances of MissionRunner: a route goal and the way home, each with one *)
(* retry, the program's default; and the checks of MissionPlanning on every *)
(* proposal over two small routes.                                          *)
(***************************************************************************)
EXTENDS MissionRunner, MissionPlanning

RouteThenHome == <<"route", "home">>

Attempts == [goal : {0, 1}, retry : {0, 1}]

TwoRoutes ==
  "loop" :> [closed |-> TRUE, directions |-> LoopDirection, waypoints |-> <<"a", "b", "c">>]
    @@ "aisle" :> [closed |-> FALSE, directions |-> PathDirection, waypoints |-> <<"a", "b">>]
    @@ "dock" :> [closed |-> FALSE, directions |-> PathDirection, waypoints |-> <<"d">>]

Segment == [direction : LoopDirection \cup PathDirection, repetitions : {1, 2, 9}]

Mission ==
  [route : {"loop", "aisle", "dock", "nowhere"}, segments : SeqOf(Segment, 2) \ {<<>>},
   home : BOOLEAN, speed : {MAX_SPEED, MAX_SPEED + 1}]

Proposal ==
  {[form |-> f, mission |-> "none"] : f \in {"malformed", "schema", "error"}}
    \cup [form : {"typed"}, mission : Mission]

\* What an accepted mission compiles to: a plan that the executor accepts, in
\* which every lap passes each waypoint of the route once, a loop starts at its
\* anchor, and home, if asked for, is the end.
CompilesAsAccepted(mission) ==
  LET goals == CompileMission(mission)
      route == Catalog[mission.route]
      names == ToSet(route.waypoints)
      size == Len(route.waypoints)
      laps == Repetitions(mission)
  IN  /\ ~ PlanRaises(goals)
      /\ Len(goals) = laps * size + (IF mission.home THEN 1 ELSE 0)
      /\ \A k \in 0 .. laps - 1 :
           /\ {goals[k * size + i].waypoint : i \in 1 .. size} = names
           /\ \A i \in 1 .. size : goals[k * size + i].lap = k + 1
           /\ route.closed => goals[k * size + 1].waypoint = Head(route.waypoints)
      /\ mission.home <=> goals[Len(goals)] = HomeLabel

ASSUME AcceptedCompiles ==
  \A m \in Mission : SemanticErrors(m) = {} => CompilesAsAccepted(m)

\* What cmd_run hands over, the runner prepares again: it neither rejects it nor
\* plans anything else than what the operator saw; nothing else is handed over.
ASSUME ApprovedIsPrepared ==
  \A p \in Proposal, yes, dryRun, answer \in BOOLEAN :
    CmdRun(p, yes, dryRun, answer) = "runs" =>
      /\ yes \/ answer
      /\ CmdPreview(p) = "ok"
      /\ RunnerPrepares(p) = [result |-> "none", plan |-> BuildPreview(p).plan]

\* The plan of the run is one that a mission compiles to.
ASSUME PlanIsCompiled ==
  \E m \in Mission : SemanticErrors(m) = {} /\ GoalKinds(CompileMission(m)) = Plan
=============================================================================
