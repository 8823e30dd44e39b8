----------------------------- MODULE SplitPlan -----------------------------
(***************************************************************************)
(* What the split phase is compiled from: compile_split_execution and the   *)
(* demonstration's room batches, as operators on batches.                   *)
(*                                                                          *)
(* A batch is a function from robots to goals.  A goal is a record: the     *)
(* robot it belongs to; its leg, the part of the goal id the code looks at  *)
(* ('/outbound', '/inbound', '/hold' at the end, or none of these); and its *)
(* number, the rest of the id.                                              *)
(***************************************************************************)
EXTENDS Naturals, SequencesExt

CONSTANT RobotIds   \* ROBOT_IDS

PlanRobot == Range(RobotIds)

RobotGoal(r, leg, n) == [robot |-> r, leg |-> leg, number |-> n]

IsHold(g) == g.leg = "hold"

\* The goals of a batch that are not holds, in robot order.
RealGoals(batch) ==
  SelectSeq([i \in DOMAIN RobotIds |-> batch[RobotIds[i]]], LAMBDA g : ~IsHold(g))

\* All of them, batch by batch: the order in which the compiler meets them.
PlannedGoals(batches) ==
  FlattenSeq([b \in DOMAIN batches |-> RealGoals(batches[b])])

RouteOf(r) == <<"route", r>>

ReservationId(g) ==
  CASE g.leg = "outbound" -> <<"dock_departure">>
    [] g.leg = "inbound" -> <<"dock_arrival">>
    [] OTHER -> RouteOf(g.robot)

ReservationIds == {<<"dock_departure">>, <<"dock_arrival">>} \cup {RouteOf(r) : r \in PlanRobot}

CompiledWork(batches) ==
  [r \in PlanRobot |-> SelectSeq(PlannedGoals(batches), LAMBDA g : g.robot = r)]

CompiledQueue(batches) ==
  [q \in ReservationIds |->
     SelectSeq(PlannedGoals(batches), LAMBDA g : ReservationId(g) = q)]

\* The place of each goal in that order.
CompiledRank(batches) ==
  [g \in Range(PlannedGoals(batches)) |->
     CHOOSE i \in DOMAIN PlannedGoals(batches) : PlannedGoals(batches)[i] = g]

\* The batches that compile: each has real work, each robot has a goal, and no
\* goal id is repeated.
Compiles(batches) ==
  /\ batches # <<>>
  /\ \A b \in DOMAIN batches : RealGoals(batches[b]) # <<>>
  /\ \A r \in PlanRobot : CompiledWork(batches)[r] # <<>>
  /\ IsInjective(PlannedGoals(batches))

\* _position_batch: one robot moves, the others hold.
PositionBatch(moving, leg, step) ==
  [r \in PlanRobot |-> RobotGoal(r, IF r = moving THEN leg ELSE "hold", step)]

\* _closest_first_room_batches, for given departure and return orders.
RoomBatches(outbound, inbound) ==
  [i \in DOMAIN outbound |-> PositionBatch(outbound[i], "outbound", i)] \o
  [i \in DOMAIN inbound |-> PositionBatch(inbound[i], "inbound", i)]

\* The orders the demonstration's poses give: nearest room first on the way
\* out; on the way back the outer slots, nearest first, then robot1.
DemoBatches ==
  RoomBatches(RobotIds, Tail(RobotIds) \o <<Head(RobotIds)>>)
=============================================================================
