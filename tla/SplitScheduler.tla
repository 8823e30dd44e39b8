--------------------------- MODULE SplitScheduler ---------------------------
(***************************************************************************)
(* omokai_fleet.split_execution.SplitReservationScheduler: which robot may  *)
(* be sent its next goal, given that the goals of one reservation run in    *)
(* the order of the plan and one at a time.                                 *)
(*                                                                          *)
(* The lists _pending[robot] and _reservation_queues[reservation] only lose *)
(* their first element (or, for a robot that is abandoned, everything), so  *)
(* each is represented by how much of the plan's list it has lost.  The     *)
(* reservation _active[robot] is that of the robot's first pending goal,    *)
(* which stays first while the robot is active.                             *)
(***************************************************************************)
EXTENDS Fleet

CONSTANTS
  Work,           \* plan.work: each robot's goals, in order
  Reservation,    \* reservation identifiers
  ReservationOf,  \* _reservation_by_goal
  Queue,          \* _reservation_queues before any release
  Departure,      \* 'dock_departure'
  PrivateRoute,   \* f'route/{robot_id.value}' of each robot
  Rank            \* the place of each goal in the batches the plan came from

\* Both kinds of list are filled in one pass over the batches.
InPlanOrder(s) == \A i, j \in DOMAIN s : i < j => Rank[s[i]] < Rank[s[j]]

PlanGoal == UNION {{Work[r][i] : i \in DOMAIN Work[r]} : r \in Robot}

ASSUME PlanAssumption ==
  /\ Work \in [Robot -> Seq(PlanGoal)]
  /\ ReservationOf \in [PlanGoal -> Reservation]
  /\ Queue \in [Reservation -> Seq(PlanGoal)]
  /\ PrivateRoute \in [Robot -> Reservation]
  /\ Departure \in Reservation
  /\ Rank \in [PlanGoal -> Nat]
  /\ \A r \in Robot : Work[r] # <<>> /\ InPlanOrder(Work[r])
  /\ \A q \in Reservation : InPlanOrder(Queue[q])
  /\ \A r, s \in Robot : \A i \in DOMAIN Work[r], j \in DOMAIN Work[s] :
       Work[r][i] = Work[s][j] => r = s
  /\ \A g \in PlanGoal : \E i \in DOMAIN Queue[ReservationOf[g]] :
       Queue[ReservationOf[g]][i] = g
  /\ \A q \in Reservation : \A i \in DOMAIN Queue[q] : ReservationOf[Queue[q][i]] = q

VARIABLES
  done,      \* goals dropped from the front of each robot's list
  popped,    \* goals dropped from the front of each reservation's queue
  active,    \* robots with a claimed goal: the keys of _active
  cleared    \* _cleared: active robots that left the corridor

schedulerVars == <<done, popped, active, cleared>>

SchedulerTypeOK ==
  /\ done \in [Robot -> Nat]
  /\ popped \in [Reservation -> Nat]
  /\ active \subseteq Robot
  /\ cleared \subseteq Robot

SchedulerInit ==
  /\ done = [r \in Robot |-> 0]
  /\ popped = [q \in Reservation |-> 0]
  /\ active = {}
  /\ cleared = {}

HasWork(r) == done[r] < Len(Work[r])

\* The first goal of _pending[robot]; defined when the robot has work.
Current(r) == Work[r][done[r] + 1]

HeldBy(r) == ReservationOf[Current(r)]

\* The queue of reservation q is not empty and starts with g.
AtHead(q, g) == popped[q] < Len(Queue[q]) /\ Queue[q][popped[q] + 1] = g

Complete == active = {} /\ \A r \in Robot : ~HasWork(r)

\* Reservations no other robot may claim.
Claimed == {HeldBy(r) : r \in active \ cleared}

\* Mutant: any place in the queue will do.
ReadyAnyPlace == {r \in Robot \ active : HasWork(r) /\ HeldBy(r) \notin Claimed}

\* ready_goals().  The code also adds each chosen reservation to its local set
\* of claimed ones; a queue has one head, so this excludes no robot.
Ready == {r \in Robot \ active :
            /\ HasWork(r)
            /\ HeldBy(r) \notin Claimed
            /\ AtHead(HeldBy(r), Current(r))}

Claim(S) ==
  /\ active' = active \cup S
  /\ UNCHANGED <<done, popped, cleared>>

\* Only a failure on a private route, or of a robot out of the corridor.
FailureIsIsolatable(r) == HeldBy(r) = PrivateRoute[r] \/ r \in cleared

\* Mutant: a corridor left early is popped again.
ReleasePopsAgain(r) ==
  /\ done' = [done EXCEPT ![r] = @ + 1]
  /\ popped' = [popped EXCEPT ![HeldBy(r)] = @ + 1]
  /\ cleared' = cleared \ {r}
  /\ active' = active \ {r}

\* Mutant: the queue is not popped.
ReleaseKeepsHead(r) ==
  /\ done' = [done EXCEPT ![r] = @ + 1]
  /\ cleared' = cleared \ {r}
  /\ active' = active \ {r}
  /\ UNCHANGED popped

\* release(): the goal is done; a corridor left early was popped already.
Release(r) ==
  /\ done' = [done EXCEPT ![r] = @ + 1]
  /\ popped' = IF r \in cleared THEN popped
               ELSE [popped EXCEPT ![HeldBy(r)] = @ + 1]
  /\ cleared' = cleared \ {r}
  /\ active' = active \ {r}

\* abandon(): the robot loses all its goals; the queues keep them.
Abandon(r) ==
  /\ done' = [done EXCEPT ![r] = Len(Work[r])]
  /\ cleared' = cleared \ {r}
  /\ active' = active \ {r}
  /\ UNCHANGED popped

\* Mutant: the corridor is declared clear but its queue is not popped.
ClearKeepsHead(r) ==
  /\ cleared' = cleared \cup {r}
  /\ UNCHANGED <<done, popped, active>>

\* clear_active_reservation(): the departing robot keeps its goal and its
\* place in _active, but the corridor is free for the next in the queue.
ClearActive(r) ==
  /\ popped' = [popped EXCEPT ![HeldBy(r)] = @ + 1]
  /\ cleared' = cleared \cup {r}
  /\ UNCHANGED <<done, active>>
=============================================================================
