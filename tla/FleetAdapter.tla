---------------------------- MODULE FleetAdapter ----------------------------
(***************************************************************************)
(* The part of FleetNav2Adapter that its three calls share: what it keeps   *)
(* of each robot's goal, and the cancelling of what is pending.  A goal is  *)
(* a record with the robot it belongs to.                                   *)
(***************************************************************************)
EXTENDS Fleet, Nav2Adapter

CONSTANTS
  Stops   \* what may stop the fleet: subset of {"operator","safety","deadline"}

StopKind == {"operator", "safety", "deadline"}

ASSUME StopsAssumption == Stops \subseteq StopKind

VARIABLES
  token,         \* _tokens: the goal last dispatched to each robot
  pending,       \* _pending: robots with an unresolved goal
  result,        \* _results
  cancelStatus,  \* _cancel_status: what a confirmed cancel will mean
  root           \* _root_failure

NoGoal == [robot |-> None]

CancelStatusSet == \E r \in Robot : cancelStatus[r] # None

\* Every robot of S is told to cancel; a confirmation will be reported as
\* why[robot].  ctx, res: the contexts and results so far in this step.
CancelPending(S, why, ctx, res) ==
  \E X \in SUBSET {r \in S : SendMayFail(ctx, token[r])} :
    /\ Cancel(ctx, {token[r] : r \in S}, {token[r] : r \in X})
    /\ cancelStatus' = [r \in Robot |-> IF r \in S THEN why[r] ELSE cancelStatus[r]]
    /\ pending' = S \ X
    /\ result' = [r \in Robot |-> IF r \in X THEN "cancel_failed" ELSE res[r]]

ConfirmedStatus(r) ==
  IF cancelStatus[r] = None THEN "cancelled" ELSE cancelStatus[r]

\* An outcome counts only if it is of the goal its robot is running.
MatchesPending(r, g) == r \in pending /\ token[r] = g
=============================================================================
