------------------------------- MODULE Fleet -------------------------------
(***************************************************************************)
(* The robots, what a navigation call may say of each, and the results that *)
(* the three navigation calls return: what FleetNav2Adapter promises and    *)
(* what the mission relies on.                                              *)
(***************************************************************************)
EXTENDS Naturals, Sequences, FiniteSets

CONSTANT RobotIds   \* ROBOT_IDS: the robots in their stable order

Robot == {RobotIds[i] : i \in DOMAIN RobotIds}

None == "none"

\* RobotId is an enumeration: its values differ, and None is not one of them.
ASSUME RobotsAssumption ==
  /\ RobotIds \in Seq(Robot)
  /\ RobotIds # <<>>
  /\ \A i, j \in DOMAIN RobotIds : RobotIds[i] = RobotIds[j] => i = j
  /\ None \notin Robot

\* RobotId.ROBOT1, which leads formations.
Leader == RobotIds[1]

\* The first robot of S in the stable order.
First(S) ==
  RobotIds[CHOOSE i \in DOMAIN RobotIds :
             /\ RobotIds[i] \in S
             /\ \A j \in DOMAIN RobotIds : RobotIds[j] \in S => i <= j]

\* NavigationStatus.
Status == {"succeeded", "failed", "rejected", "timed_out", "cancelled",
           "cancel_failed"}

PrimaryFailure == {"failed", "rejected", "timed_out"}

All(status) == [r \in Robot |-> status]

Succeeded(batch) == batch = All("succeeded")

\* What NavigationBatch accepts: a status for every robot, and at most one
\* primary failure.
Batch ==
  {b \in [Robot -> Status] :
     \A r, s \in Robot : b[r] \in PrimaryFailure /\ b[s] \in PrimaryFailure => r = s}

\* Robots that stopped for no reason a batch shows: only an operator did that.
OnlyCancelled(batch) ==
  /\ \E r \in Robot : batch[r] = "cancelled"
  /\ \A r \in Robot : batch[r] \in {"succeeded", "cancelled"}

\* What execute() returns, given whether the operator asked for a cancel.
BatchResults(cancelAsked) == {b \in Batch : OnlyCancelled(b) => cancelAsked}

\* _formation_failure_batch: the leader's status stands for the formation.
FormationFailure(status) ==
  IF status = "cancelled" THEN All("cancelled")
  ELSE [All("cancelled") EXCEPT ![Leader] = status]

\* What execute_formation() returns.
FormationResults(cancelAsked) ==
  {All("succeeded")} \cup
  {FormationFailure(s) : s \in (PrimaryFailure \cup {"cancel_failed"})
                                 \cup (IF cancelAsked THEN {"cancelled"} ELSE {})}

\* The statuses in what execute_split() returns: robots fail one by one, but
\* only the robot blamed for the deadline timed out.
SplitResults ==
  {b \in [Robot -> Status] :
     \A r, s \in Robot : b[r] = "timed_out" /\ b[s] = "timed_out" => r = s}
=============================================================================
