-------------------------- MODULE MCFleetExecution --------------------------
(***************************************************************************)
(* Instances of FleetExecution.                                             *)
(***************************************************************************)
EXTENDS FleetExecution

PairIds == <<"robot1", "robot2">>
TrioIds == <<"robot1", "robot2", "robot3">>

GoalsOf(ids, path) ==
  {[robot |-> ids[i], number |-> 1] : i \in DOMAIN ids}
    \cup {[robot |-> ids[1], number |-> n] : n \in 1 .. path}

PairGoal == GoalsOf(PairIds, 2)
TrioGoal == GoalsOf(TrioIds, 2)
=============================================================================
