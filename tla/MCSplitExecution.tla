-------------------------- MODULE MCSplitExecution --------------------------
(***************************************************************************)
(* Instances of SplitExecution.  Each plan is written out and checked to be *)
(* the one compile_split_execution makes of its batches, so PlanAssumption  *)
(* is evaluated on compiled plans.                                          *)
(***************************************************************************)
EXTENDS SplitExecution, SequencesExt

P == INSTANCE SplitPlan

MCReservation == P!ReservationIds
MCDeparture == <<"dock_departure">>
MCArrival == <<"dock_arrival">>
MCPrivateRoute == [r \in P!PlanRobot |-> P!RouteOf(r)]

IsCompiledFrom(batches) ==
  /\ P!Compiles(batches)
  /\ Work = P!CompiledWork(batches)
  /\ Queue = P!CompiledQueue(batches)
  /\ Rank = P!CompiledRank(batches)
  /\ \A g \in PlanGoal : ReservationOf[g] = P!ReservationId(g)

\* The demonstration: every robot leaves the dock, nearest room first, and
\* comes back, robot1 last.
TrioIds == <<"robot1", "robot2", "robot3">>
Out(i) == [robot |-> TrioIds[i], leg |-> "outbound", number |-> i]
Back1 == [robot |-> "robot1", leg |-> "inbound", number |-> 3]
Back2 == [robot |-> "robot2", leg |-> "inbound", number |-> 1]
Back3 == [robot |-> "robot3", leg |-> "inbound", number |-> 2]
DemoGoal == {Out(1), Out(2), Out(3), Back1, Back2, Back3}
DemoWork == [robot1 |-> <<Out(1), Back1>>, robot2 |-> <<Out(2), Back2>>,
             robot3 |-> <<Out(3), Back3>>]
DemoQueue ==
  (MCDeparture :> <<Out(1), Out(2), Out(3)>>) @@ (MCArrival :> <<Back2, Back3, Back1>>)
  @@ [q \in MCReservation |-> <<>>]
DemoReservationOf ==
  [g \in DemoGoal |-> IF g.leg = "outbound" THEN MCDeparture ELSE MCArrival]
DemoRank == (Out(1) :> 1) @@ (Out(2) :> 2) @@ (Out(3) :> 3)
            @@ (Back2 :> 4) @@ (Back3 :> 5) @@ (Back1 :> 6)

\* Two robots and both kinds of reservation: robot1 leaves and comes back,
\* robot2 leaves and then works on a route of its own.
PairIds == <<"robot1", "robot2">>
PairBatches ==
  <<P!PositionBatch("robot1", "outbound", 1),
    P!PositionBatch("robot2", "outbound", 2),
    [P!PositionBatch("robot1", "inbound", 3) EXCEPT
       !["robot2"] = P!RobotGoal("robot2", "room", 3)]>>
Room2 == [robot |-> "robot2", leg |-> "room", number |-> 3]
PairGoal == {Out(1), Out(2), Back1, Room2}
PairWork == [robot1 |-> <<Out(1), Back1>>, robot2 |-> <<Out(2), Room2>>]
PairQueue ==
  (MCDeparture :> <<Out(1), Out(2)>>) @@ (MCArrival :> <<Back1>>)
  @@ (<<"route", "robot2">> :> <<Room2>>) @@ [q \in MCReservation |-> <<>>]
PairReservationOf ==
  (Out(1) :> MCDeparture) @@ (Out(2) :> MCDeparture) @@ (Back1 :> MCArrival)
  @@ (Room2 :> <<"route", "robot2">>)
PairRank == (Out(1) :> 1) @@ (Out(2) :> 2) @@ (Back1 :> 3) @@ (Room2 :> 4)

ASSUME PlanIsCompiled ==
  IsCompiledFrom(IF Len(RobotIds) = 2 THEN PairBatches ELSE P!DemoBatches)

\* Every departure and return order compiles, and robots' lists and queues
\* follow the order of the batches (what PlanAssumption asks of a plan).
Orders == {o \in [DOMAIN RobotIds -> P!PlanRobot] : IsInjective(o)}

Follows(s, rank) == \A i, j \in DOMAIN s : i < j => rank[s[i]] < rank[s[j]]

ASSUME RoomOrdersCompile ==
  \A out, back \in Orders :
    LET batches == P!RoomBatches(out, back)
    IN  /\ P!Compiles(batches)
        /\ \A r \in P!PlanRobot :
             Follows(P!CompiledWork(batches)[r], P!CompiledRank(batches))
        /\ \A q \in P!ReservationIds :
             Follows(P!CompiledQueue(batches)[q], P!CompiledRank(batches))
=============================================================================
