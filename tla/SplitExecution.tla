--------------------------- MODULE SplitExecution ---------------------------
(***************************************************************************)
(* FleetNav2Adapter.execute_split: three robots work through their goals,   *)
(* each with a Nav2 action server of its own, while the scheduler decides   *)
(* who may move; failures, separation violations, the deadline and the      *)
(* operator stop the fleet or one robot.                                    *)
(*                                                                          *)
(* The node is single-threaded: rclpy.spin_once runs at most one callback,  *)
(* and everything between two calls of it is one atomic step of the loop.   *)
(* The action servers run on their own.  pc is the place in the loop:       *)
(*   top       the while condition, the stop test, ready_goals and claim    *)
(*   dispatch  the for loop over the ready goals                            *)
(*   spin      rclpy.spin_once                                              *)
(*   check     separation check, corridor clearance, operator check         *)
(*   stop      after the loop                                               *)
(*   wait      waiting up to 5 s for cancellations                          *)
(*   done, crashed   returned its result, or left by an uncaught exception  *)
(***************************************************************************)
EXTENDS SplitScheduler, FleetAdapter

ASSUME OwnerAssumption ==
  /\ Goal = PlanGoal
  /\ \A r \in Robot : \A i \in DOMAIN Work[r] : Work[r][i].robot = r

VARIABLES
  pc,            \* place in execute_split
  todo,          \* robots whose claimed goal is not dispatched yet
  completed,     \* _split_completed
  final,         \* _split_final: robots abandoned alone
  origin,        \* keys of _split_departure_origins
  stopRequested, \* _split_stop_requested
  cancelFlag,    \* SquadRunner._cancel_requested
  report         \* the SplitExecutionResult that is returned

fleetVars == <<token, pending, result, cancelStatus, root, completed, final,
               origin, stopRequested>>

vars == <<schedulerVars, adapterVars, fleetVars, pc, todo, cancelFlag, report>>

SkippedReport == [status : Status, completed : Nat, skipped : Nat]

NoReport == [status |-> None, completed |-> 0, skipped |-> 0]

PC == {"top", "dispatch", "spin", "check", "stop", "wait", "done", "crashed"}

FleetTypeOK ==
  /\ token \in [Robot -> Goal \cup {NoGoal}]
  /\ pending \subseteq Robot
  /\ result \in [Robot -> Status \cup {None}]
  /\ cancelStatus \in [Robot -> Status \cup {None}]
  /\ root \in Robot \cup {None}
  /\ completed \in [Robot -> Nat]
  /\ final \in [Robot -> SkippedReport \cup {NoReport}]
  /\ origin \subseteq Robot
  /\ stopRequested \in BOOLEAN

LoopTypeOK ==
  /\ pc \in PC
  /\ todo \subseteq Robot
  /\ cancelFlag \in BOOLEAN
  /\ report \in [Robot -> SkippedReport \cup {NoReport}]

TypeOK == SchedulerTypeOK /\ AdapterTypeOK /\ FleetTypeOK /\ LoopTypeOK

Init ==
  /\ SchedulerInit
  /\ AdapterInit
  /\ pc = "top"
  /\ todo = {}
  /\ token = [r \in Robot |-> NoGoal]
  /\ pending = {}
  /\ result = [r \in Robot |-> None]
  /\ cancelStatus = [r \in Robot |-> None]
  /\ root = None
  /\ completed = [r \in Robot |-> 0]
  /\ final = [r \in Robot |-> NoReport]
  /\ origin = {}
  /\ stopRequested = FALSE
  /\ cancelFlag \in IF "operator" \in Stops THEN BOOLEAN ELSE {FALSE}
  /\ report = [r \in Robot |-> NoReport]

\* A stop of the whole fleet has begun.
Stopping == root # None \/ stopRequested

-----------------------------------------------------------------------------
(* Cancelling what is pending, and the outcome methods.                     *)

NavigationSucceeded(r, ctx) ==
  /\ Release(r)
  /\ completed' = [completed EXCEPT ![r] = @ + 1]
  /\ origin' = origin \ {r}
  /\ result' = [result EXCEPT ![r] = "succeeded"]
  /\ pending' = pending \ {r}
  /\ context' = ctx
  /\ UNCHANGED <<cancelCall, token, cancelStatus, root, final, stopRequested>>

\* Mutant: the length of the skipped goals, subtracted the wrong way round.
AbandonedReportSwapped(r, status) ==
  [status |-> status, completed |-> completed[r],
   skipped |-> done[r] - Len(Work[r])]

AbandonedReport(r, status) ==
  [status |-> status, completed |-> completed[r],
   skipped |-> Len(Work[r]) - done[r]]

\* Mutant: the abandoned robot stays in _pending.
NavigationFailedStillPending(r, status, ctx) ==
  /\ FailureIsIsolatable(r)
  /\ Abandon(r)
  /\ origin' = origin \ {r}
  /\ final' = [final EXCEPT ![r] = AbandonedReport(r, status)]
  /\ result' = [result EXCEPT ![r] = status]
  /\ context' = ctx
  /\ UNCHANGED <<cancelCall, token, cancelStatus, pending, root, completed,
                 stopRequested>>

\* A failure of this robot alone.
NavigationFailedAlone(r, status, ctx) ==
  /\ FailureIsIsolatable(r)
  /\ Abandon(r)
  /\ origin' = origin \ {r}
  /\ final' = [final EXCEPT ![r] = AbandonedReport(r, status)]
  /\ result' = [result EXCEPT ![r] = status]
  /\ pending' = pending \ {r}
  /\ context' = ctx
  /\ UNCHANGED <<cancelCall, token, cancelStatus, root, completed, stopRequested>>

\* A failure in a shared corridor stops the fleet.
NavigationFailedRoot(r, status, ctx) ==
  /\ ~FailureIsIsolatable(r)
  /\ root = None
  /\ root' = r
  /\ CancelPending(pending \ {r}, All("cancelled"), ctx,
                   [result EXCEPT ![r] = status])
  /\ UNCHANGED <<schedulerVars, token, completed, final, origin, stopRequested>>

NavigationFailedLate(r, ctx) ==
  /\ ~FailureIsIsolatable(r)
  /\ root # None
  /\ result' = [result EXCEPT ![r] = "cancel_failed"]
  /\ pending' = pending \ {r}
  /\ context' = ctx
  /\ UNCHANGED <<schedulerVars, cancelCall, token, cancelStatus, root,
                 completed, final, origin, stopRequested>>

NavigationFailed(r, status, ctx) ==
  \/ NavigationFailedAlone(r, status, ctx)
  \/ NavigationFailedRoot(r, status, ctx)
  \/ NavigationFailedLate(r, ctx)

\* _cancellation_confirmed and _cancellation_failed: the scheduler still
\* counts the robot as active.
CancellationResolved(r, status, ctx) ==
  /\ result' = [result EXCEPT ![r] = status]
  /\ pending' = pending \ {r}
  /\ context' = ctx
  /\ UNCHANGED <<schedulerVars, cancelCall, token, cancelStatus, root,
                 completed, final, origin, stopRequested>>

\* What the outcome method does with the outcome of goal g of robot r.
Resolve(r, outcome, ctx) ==
  CASE outcome = "navigation_succeeded" -> NavigationSucceeded(r, ctx)
    [] outcome = "navigation_failed" -> NavigationFailed(r, "failed", ctx)
    [] outcome = "goal_rejected" -> NavigationFailed(r, "rejected", ctx)
    [] outcome = "cancellation_confirmed" ->
         CancellationResolved(r, ConfirmedStatus(r), ctx)
    [] outcome = "cancellation_failed" ->
         CancellationResolved(r, "cancel_failed", ctx)

IgnoreOutcome(ctx) ==
  /\ context' = ctx
  /\ UNCHANGED <<schedulerVars, cancelCall, fleetVars>>

-----------------------------------------------------------------------------
(* The loop.                                                                *)

\* The loop ends: no work left, the deadline passed, or a stop has begun.
LeaveLoop ==
  /\ pc = "top"
  /\ Complete \/ Stopping
  /\ pc' = "stop"
  /\ UNCHANGED <<schedulerVars, adapterVars, fleetVars, todo, cancelFlag, report>>

DeadlinePassed ==
  /\ pc = "top"
  /\ "deadline" \in Stops
  /\ pc' = "stop"
  /\ UNCHANGED <<schedulerVars, adapterVars, fleetVars, todo, cancelFlag, report>>

\* Mutant: the loop does not look for a stop before it claims.
ClaimReadyAlways ==
  /\ pc = "top"
  /\ ~Complete
  /\ Claim(Ready)
  /\ todo' = Ready
  /\ pc' = "dispatch"
  /\ UNCHANGED <<adapterVars, fleetVars, cancelFlag, report>>


ClaimReady ==
  /\ pc = "top"
  /\ ~Complete
  /\ ~Stopping
  /\ Claim(Ready)
  /\ todo' = Ready
  /\ pc' = "dispatch"
  /\ UNCHANGED <<adapterVars, fleetVars, cancelFlag, report>>

\* A departing robot's clearance is measured from where it is now, if its
\* pose is known.
DispatchGoal(r) ==
  /\ pc = "dispatch"
  /\ todo # {}
  /\ r = First(todo)
  /\ Dispatch(Current(r))
  /\ token' = [token EXCEPT ![r] = Current(r)]
  /\ pending' = pending \cup {r}
  /\ origin' \in IF HeldBy(r) = Departure THEN {origin, origin \cup {r}} ELSE {origin}
  /\ todo' = todo \ {r}
  /\ UNCHANGED <<schedulerVars, result, cancelStatus, root, completed, final,
                 stopRequested, pc, cancelFlag, report>>

\* _split_dispatch_failed on a private route: this robot only.
DispatchFailsAlone(r) ==
  /\ pc = "dispatch"
  /\ todo # {}
  /\ r = First(todo)
  /\ "dispatch" \in Faults
  /\ FailureIsIsolatable(r)
  /\ Abandon(r)
  /\ origin' = origin \ {r}
  /\ final' = [final EXCEPT ![r] = AbandonedReport(r, "rejected")]
  /\ todo' = todo \ {r}
  /\ UNCHANGED <<adapterVars, token, pending, result, cancelStatus, root,
                 completed, stopRequested, pc, cancelFlag, report>>

\* _split_dispatch_failed in a corridor: what is pending now is cancelled, and
\* the for loop goes on to the remaining ready goals.
DispatchFailsRoot(r) ==
  /\ pc = "dispatch"
  /\ todo # {}
  /\ r = First(todo)
  /\ "dispatch" \in Faults
  /\ ~FailureIsIsolatable(r)
  /\ root' = r
  /\ Abandon(r)
  /\ origin' = origin \ {r}
  /\ CancelPending(pending, All("cancelled"), context,
                   [result EXCEPT ![r] = "rejected"])
  /\ todo' = todo \ {r}
  /\ UNCHANGED <<server, refused, token, completed, final, stopRequested, pc,
                 cancelFlag, report>>

DispatchDone ==
  /\ pc = "dispatch"
  /\ todo = {}
  /\ pc' = IF root # None THEN "stop" ELSE "spin"
  /\ UNCHANGED <<schedulerVars, adapterVars, fleetVars, todo, cancelFlag, report>>

\* After spin_once: the checks of the loop, or the next test of the wait.
Spun == IF pc = "spin" THEN "check" ELSE "wait"

\* spin_once runs the callback that ends goal g's context.
SpinOutcome(g) ==
  /\ pc = "spin" \/ (pc = "wait" /\ pending # {})
  /\ \E ctx \in {Pop(context, g)}, outcome \in Outcome :
       /\ Callback(g, ctx, outcome)
       /\ IF MatchesPending(g.robot, g) THEN Resolve(g.robot, outcome, ctx)
          ELSE IgnoreOutcome(ctx)
  /\ pc' = Spun
  /\ refused' = [refused EXCEPT ![g] = FALSE]
  /\ UNCHANGED <<server, todo, cancelFlag, report>>

SpinAccepted(g) ==
  /\ pc = "spin" \/ (pc = "wait" /\ pending # {})
  /\ ResponseAccepted(g)
  /\ pc' = Spun
  /\ UNCHANGED <<schedulerVars, fleetVars, todo, cancelFlag, report>>

\* spin_once runs the service callback of the operator's cancel request.  In
\* the final wait it would change nothing: the flag is not read again.
SpinCancelService ==
  /\ pc = "spin"
  /\ "operator" \in Stops
  /\ ~cancelFlag
  /\ cancelFlag' = TRUE
  /\ pc' = "check"
  /\ UNCHANGED <<schedulerVars, adapterVars, fleetVars, todo, report>>

\* spin_once runs nothing that matters here, or times out.
SpinIdle ==
  /\ pc = "spin"
  /\ pc' = "check"
  /\ UNCHANGED <<schedulerVars, adapterVars, fleetVars, todo, cancelFlag, report>>

\* _begin_safety_stop: the first pending robot is blamed.
SafetyStop ==
  /\ "safety" \in Stops
  /\ pending # {}
  /\ ~CancelStatusSet
  /\ root' = First(pending)
  /\ CancelPending(pending,
       [r \in Robot |-> IF r = First(pending) THEN "failed" ELSE "cancelled"],
       context, result)
  /\ UNCHANGED <<schedulerVars, origin, stopRequested>>

\* A departing robot that has moved 1 m from its origin; it cannot have moved
\* before Nav2 ran its goal.
OutOfCorridor(r) ==
  /\ r \in active \cap origin
  /\ HeldBy(r) = Departure
  /\ server[token[r]] \notin {"requested", "rejected"}

\* _release_cleared_departures.  At most one robot is departing and not yet
\* cleared, so the code's loop clears at most one.
ReleaseClearedDepartures ==
  \/ UNCHANGED <<schedulerVars, origin>>
  \/ /\ root = None
     /\ \E r \in Robot :
          /\ OutOfCorridor(r)
          /\ ClearActive(r)
          /\ origin' = origin \ {r}

\* _begin_operator_cancel.
OperatorCheck ==
  IF cancelFlag /\ ~CancelStatusSet
    THEN /\ stopRequested' = TRUE
         /\ CancelPending(pending, All("cancelled"), context, result)
    ELSE UNCHANGED <<context, cancelCall, cancelStatus, pending, result, stopRequested>>

\* A safety stop leaves nothing for the two checks after it to do.
Check ==
  /\ pc = "check"
  /\ \/ SafetyStop
     \/ ReleaseClearedDepartures /\ OperatorCheck /\ UNCHANGED root
  /\ pc' = "top"
  /\ UNCHANGED <<server, refused, token, completed, final, todo, cancelFlag, report>>

-----------------------------------------------------------------------------
(* After the loop.                                                          *)

NothingLeft == pending = {} /\ Complete

\* Mutant: every robot is reported to have timed out.
BeginTimeoutEverybody ==
  /\ pc = "stop"
  /\ ~NothingLeft
  /\ ~Stopping
  /\ pending # {}
  /\ root' = First(pending)
  /\ CancelPending(pending, All("timed_out"), context, result)
  /\ pc' = "wait"
  /\ UNCHANGED <<schedulerVars, server, refused, token, completed, final, origin,
                 stopRequested, todo, cancelFlag, report>>

\* _begin_timeout when the loop ended by the deadline.
BeginTimeout ==
  /\ pc = "stop"
  /\ ~NothingLeft
  /\ ~Stopping
  /\ pending # {}
  /\ root' = First(pending)
  /\ CancelPending(pending,
       [r \in Robot |-> IF r = First(pending) THEN "timed_out" ELSE "cancelled"],
       context, result)
  /\ pc' = "wait"
  /\ UNCHANGED <<schedulerVars, server, refused, token, completed, final, origin,
                 stopRequested, todo, cancelFlag, report>>

\* next() over no pending robot raises StopIteration out of execute_split.
TimeoutCrash ==
  /\ pc = "stop"
  /\ ~NothingLeft
  /\ ~Stopping
  /\ pending = {}
  /\ pc' = "crashed"
  /\ UNCHANGED <<schedulerVars, adapterVars, fleetVars, todo, cancelFlag, report>>

BeginWait ==
  /\ pc = "stop"
  /\ ~NothingLeft
  /\ Stopping
  /\ pc' = "wait"
  /\ UNCHANGED <<schedulerVars, adapterVars, fleetVars, todo, cancelFlag, report>>

\* One robot's entry of _finish_split_result.
RobotReport(r) ==
  IF final[r] # NoReport THEN final[r]
  ELSE [status |-> IF result[r] # None THEN result[r]
                   ELSE IF Stopping THEN "cancelled" ELSE "succeeded",
        completed |-> completed[r],
        skipped |-> Len(Work[r]) - completed[r]]

\* Mutant: the wait for confirmations has no deadline of its own.
FinishWhenResolved ==
  /\ (pc = "wait" /\ pending = {}) \/ (pc = "stop" /\ NothingLeft)
  /\ report' = [r \in Robot |-> RobotReport(r)]
  /\ pc' = "done"
  /\ UNCHANGED <<schedulerVars, adapterVars, fleetVars, todo, cancelFlag>>

\* The loop finished the work, everything is resolved, or the 5 s have passed.
FinishSplitResult ==
  /\ pc = "wait" \/ (pc = "stop" /\ NothingLeft)
  /\ report' = [r \in Robot |-> RobotReport(r)]
  /\ pc' = "done"
  /\ UNCHANGED <<schedulerVars, adapterVars, fleetVars, todo, cancelFlag>>

\* The servers run all the time.  The node learns of it in spin_once only, so
\* what they do between two spins may as well be done during the next one.
ServerStep ==
  /\ pc \in {"spin", "wait"}
  /\ Server
  /\ UNCHANGED <<schedulerVars, fleetVars, pc, todo, cancelFlag, report>>

Returned ==
  /\ pc \in {"done", "crashed"}
  /\ UNCHANGED vars

DispatchStep ==
  \E r \in Robot : DispatchGoal(r) \/ DispatchFailsAlone(r) \/ DispatchFailsRoot(r)

SpinStep ==
  \/ \E g \in Goal : SpinOutcome(g) \/ SpinAccepted(g)
  \/ SpinCancelService
  \/ SpinIdle

Loop == LeaveLoop \/ ClaimReady \/ DispatchStep \/ DispatchDone \/ SpinStep \/ Check

Ending == BeginTimeout \/ TimeoutCrash \/ BeginWait \/ FinishSplitResult

Next == Loop \/ DeadlinePassed \/ Ending \/ ServerStep \/ Returned

Spec == Init /\ [][Next]_vars

(***************************************************************************)
(* Fairness: the loop keeps running; the action servers, together, keep     *)
(* working on what they were asked; callbacks that are due are not passed   *)
(* over for ever (the executor serves what is ready); the deadline passes.  *)
(* Nothing makes the operator act, a goal fail or a server refuse.          *)
(***************************************************************************)
Progress ==
  /\ WF_vars(Loop \/ Ending)
  /\ SF_vars(\E g \in Goal : SpinOutcome(g) \/ SpinAccepted(g))
  /\ SF_vars(ServerStep)

FairSpec == Spec /\ Progress

TimedSpec == Spec /\ WF_vars(Loop \/ Ending) /\ SF_vars(DeadlinePassed)

-----------------------------------------------------------------------------
(* Properties.                                                              *)

\* Goal g of reservation q has left the queue: it is done or out of the way.
HasLeft(q, g) == \E i \in 1 .. popped[q] : i <= Len(Queue[q]) /\ Queue[q][i] = g

\* What the reservations are for: of the goals that share one, at most one that
\* has not left the corridor is with a Nav2 server, whatever fails or is
\* cancelled on the way (multi_robot.md:140, "serialize convergence").
CorridorExclusive ==
  \A g, h \in Goal :
    /\ ReservationOf[g] = ReservationOf[h]
    /\ server[g] \in Live
    /\ server[h] \in Live
    /\ ~HasLeft(ReservationOf[g], g)
    /\ ~HasLeft(ReservationOf[h], h)
    => g = h

\* The errors of the scheduler ('reservation release order was corrupted', an
\* empty queue, clearing a robot twice) cannot be raised: every active robot
\* has its goal, at the head of its queue unless it left the corridor, and only
\* robots that did not leave it have a departure origin.
ReleaseOrderIntact ==
  /\ \A r \in active : HasWork(r)
  /\ \A r \in active \ cleared : AtHead(HeldBy(r), Current(r))
  /\ \A r \in Robot \ active : HasWork(r) => popped[HeldBy(r)] < Len(Queue[HeldBy(r)])
  /\ cleared \subseteq active \ origin

\* A goal the fleet waits for is one its adapter still tracks under the same
\* token, so cancel() never raises 'cannot cancel an unknown Nav2 goal token' in
\* the middle of a stop, and every wait can be ended by an outcome.
PendingTracked ==
  \A r \in pending : token[r] \in Goal /\ token[r].robot = r /\ Tracked(token[r])

\* What is recorded of a robot happened: the goals counted as completed are
\* the first of its work and Nav2 finished each, and a result that claims a
\* cancellation is of a goal that Nav2 has canceled.
ResultsAreReal ==
  \A r \in Robot :
    /\ \A i \in 1 .. completed[r] : server[Work[r][i]] = "succeeded"
    /\ result[r] \in {"cancelled", "timed_out"} => server[token[r]] = "canceled"

\* Once a stop of the fleet has begun no robot is claimed for another goal; a
\* goal is still sent only to a robot claimed before, when the dispatch of
\* another robot's goal began the stop.
NoDispatchAfterStop ==
  [][Stopping => /\ active' \subseteq active
                 /\ todo' \subseteq todo
                 /\ \A r \in Robot \ todo : token'[r] = token[r]]_vars

\* The promise of the reservations, kept by every step of the loop: goals are
\* sent into a reservation in plan order, each once, and the next one only when
\* the one before finished or, leaving the dock, is clear of it.
Inside == {g \in Goal : context[g].phase # "absent" /\ ~HasLeft(ReservationOf[g], g)}

R == INSTANCE ReservationOrder WITH left <- popped, inside <- Inside

KeepsReservationOrder == R!Spec

\* While the loop spins with no stop begun, some goal is in flight, unless a
\* robot was abandoned: nobody waits for a reservation that nobody will give
\* back (_execute_split_phase's 'scheduler deadlocked', mission.py:321).
WedgedOnlyByAbandoned ==
  pc = "spin" /\ ~Stopping /\ pending = {} => \E r \in Robot : final[r] # NoReport

\* "A failure on a private reservation skips that robot's remaining work and
\* permits safe survivors to finish" (multi_robot.md:142): an abandoned robot
\* leaves the others able to move.
SurvivorsCanMove == pc = "spin" /\ ~Stopping => pending # {}

\* What the mission is promised of a split: every robot has a status, and only
\* the one blamed for the deadline timed out.
ReturnsASplit == pc = "done" => [r \in Robot |-> report[r].status] \in SplitResults

\* With no failure and no stop, every robot finishes all of its work
\* (multi_robot.md:129, "advances as soon as its required reservation is free").
AllWorkDone ==
  <>(pc = "done" /\ \A r \in Robot : report[r].status = "succeeded"
                                    /\ report[r].completed = Len(Work[r]))

\* Whatever the servers do, answering or not, the call comes to an end.
SplitEnds == <>(pc \in {"done", "crashed"})

\* "One robot failure or timeout cancels all unresolved goals"
\* (multi_robot.md:116).
FailureCancelsAll ==
  pc = "wait" /\ root # None => \A r \in pending : context[token[r]].cancelRequested

\* "timeouts, and cancellation all fail closed" (architecture.md:89): a result
\* that the mission takes for success is one of finished work.
SuccessIsComplete ==
  pc = "done" /\ (\A r \in Robot : report[r].status = "succeeded")
    => \A r \in Robot : report[r].completed = Len(Work[r])
=============================================================================
