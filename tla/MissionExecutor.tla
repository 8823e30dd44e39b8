--------------------------- MODULE MissionExecutor ---------------------------
(***************************************************************************)
(* omokai_executor.MissionExecutor over its Nav2NavigationAdapter: one      *)
(* operator per method, whole, with the calls it makes into the adapter.    *)
(* MissionRunner says when they are called.                                 *)
(*                                                                          *)
(* A goal is one attempt at one goal of the plan, which is what a token of  *)
(* the adapter stands for.  Goal indices count from 0, as in the code.      *)
(* A method that raises leaves its name in "raised": nothing catches the    *)
(* exception, and it ends the program.  DISPATCHING and COMPILING are never *)
(* seen between two steps.  The goal's deadline has no clock: it may have   *)
(* passed at any tick.                                                      *)
(***************************************************************************)
EXTENDS Nav2Adapter, Integers, Sequences

CONSTANTS
  Plan,        \* the kinds of the plan's goals, in order
  MaxRetries   \* ExecutorConfig.max_retries

GoalKind == {"route", "home"}

ASSUME PlanAssumption == Plan \in Seq(GoalKind) /\ Len(Plan) > 0

ASSUME RetriesAssumption == MaxRetries \in Nat

Attempt == [goal : 0 .. Len(Plan) - 1, retry : 0 .. MaxRetries]

ASSUME AttemptAssumption == Goal = Attempt

None == "none"

NoGoal == [goal |-> -1, retry |-> 0]

VARIABLES
  state,       \* ExecutorState
  goalIndex,   \* _goal_index: the goals completed
  retryCount,  \* _retry_count
  handle,      \* _goal_handle
  raised       \* the method that raised, or None

executorVars == <<state, goalIndex, retryCount, handle, raised>>

Driving == {"executing", "returning_home"}

Terminal == {"succeeded", "cancelled", "failed", "timed_out"}

ExecutorState == {"accepted", "cancelling"} \cup Driving \cup Terminal

Method == {"begin_compilation", "request_cancel", "tick", "navigation_succeeded",
           "navigation_failed", "cancellation_confirmed", "cancellation_failed"}

ExecutorTypeOK ==
  /\ AdapterTypeOK
  /\ state \in ExecutorState
  /\ goalIndex \in 0 .. Len(Plan)
  /\ retryCount \in 0 .. MaxRetries
  /\ handle \in Goal \cup {NoGoal}
  /\ raised \in Method \cup {None}

ExecutorInit ==
  /\ AdapterInit
  /\ state = "accepted"
  /\ goalIndex = 0
  /\ retryCount = 0
  /\ handle = NoGoal
  /\ raised = None

\* An exception leaves the method before it changed anything.
Raise(method) ==
  /\ raised' = method
  /\ UNCHANGED <<state, goalIndex, retryCount, handle>>

\* _clear_active_goal and the transition to a terminal state.
Finish(end) ==
  /\ state' = end
  /\ handle' = NoGoal
  /\ UNCHANGED <<retryCount, raised>>

\* Mutant: the retried goal keeps the token of the attempt that failed.
DispatchKeepsHandle(ctx, i, n) ==
  LET g == [goal |-> i, retry |-> n] IN
  /\ DispatchFrom(ctx, g)
  /\ handle' = IF n > 0 THEN [g EXCEPT !.retry = n - 1] ELSE g
  /\ state' = IF Plan[i + 1] = "home" THEN "returning_home" ELSE "executing"
  /\ goalIndex' = i
  /\ retryCount' = n
  /\ UNCHANGED raised

\* _dispatch_current_goal: a dispatch that raises fails the mission.
DispatchCurrentGoal(ctx, i, n) ==
  LET g == [goal |-> i, retry |-> n] IN
  /\ goalIndex' = i
  /\ retryCount' = n
  /\ UNCHANGED raised
  /\ \/ /\ DispatchFrom(ctx, g)
        /\ handle' = g
        /\ state' = IF Plan[i + 1] = "home" THEN "returning_home" ELSE "executing"
     \/ /\ "dispatch" \in Faults
        /\ context' = ctx
        /\ handle' = NoGoal
        /\ state' = "failed"
        /\ UNCHANGED <<server, cancelCall, refused>>

\* Called back by the adapter, which has dropped the goal's context: ctx.
CallbackOnly(ctx) == context' = ctx /\ UNCHANGED <<server, cancelCall, refused>>

NavigationSucceeded(g, ctx) ==
  IF ~ (state \in Driving /\ handle = g)
    THEN Raise("navigation_succeeded") /\ CallbackOnly(ctx)
  ELSE IF goalIndex + 1 = Len(Plan)
    THEN /\ state' = "succeeded"
         /\ goalIndex' = goalIndex + 1
         /\ retryCount' = 0
         /\ handle' = NoGoal
         /\ UNCHANGED raised
         /\ CallbackOnly(ctx)
  ELSE DispatchCurrentGoal(ctx, goalIndex + 1, 0)

\* Mutant: when the retries are used up, the mission goes on to the next goal.
NavigationFailedSkips(g, ctx) ==
  IF retryCount < MaxRetries THEN DispatchCurrentGoal(ctx, goalIndex, retryCount + 1)
  ELSE IF goalIndex + 1 < Len(Plan) THEN DispatchCurrentGoal(ctx, goalIndex + 1, 0)
  ELSE Finish("failed") /\ UNCHANGED goalIndex /\ CallbackOnly(ctx)

\* Mutant: one retry too many.
NavigationFailedOnceMore(g, ctx) ==
  IF ~ (state \in Driving /\ handle = g)
    THEN Raise("navigation_failed") /\ CallbackOnly(ctx)
  ELSE IF retryCount <= MaxRetries
    THEN DispatchCurrentGoal(ctx, goalIndex, retryCount + 1)
  ELSE Finish("failed") /\ UNCHANGED goalIndex /\ CallbackOnly(ctx)

NavigationFailed(g, ctx) ==
  IF ~ (state \in Driving /\ handle = g)
    THEN Raise("navigation_failed") /\ CallbackOnly(ctx)
  ELSE IF retryCount < MaxRetries
    THEN DispatchCurrentGoal(ctx, goalIndex, retryCount + 1)
  ELSE Finish("failed") /\ UNCHANGED goalIndex /\ CallbackOnly(ctx)

CancellationConfirmed(g, ctx) ==
  /\ CallbackOnly(ctx)
  /\ IF state = "cancelling" /\ handle = g
       THEN Finish("cancelled") /\ UNCHANGED goalIndex
       ELSE Raise("cancellation_confirmed")

CancellationFailed(g, ctx) ==
  /\ CallbackOnly(ctx)
  /\ IF state = "cancelling" /\ handle = g
       THEN Finish("failed") /\ UNCHANGED goalIndex
       ELSE Raise("cancellation_failed")

\* The NavigationOutcomes method of the adapter's callback.  A rejected goal is
\* a failed one for this adapter.
Outcomes(g, ctx, outcome) ==
  \/ outcome = "navigation_succeeded" /\ NavigationSucceeded(g, ctx)
  \/ outcome \in {"navigation_failed", "goal_rejected"} /\ NavigationFailed(g, ctx)
  \/ outcome = "cancellation_confirmed" /\ CancellationConfirmed(g, ctx)
  \/ outcome = "cancellation_failed" /\ CancellationFailed(g, ctx)

\* The adapter's cancel() of the active goal, which it must know: X holds the
\* goal if the request cannot be sent.
CancelActive(X) ==
  /\ X \in {{}} \cup (IF SendMayFail(context, handle) THEN {{handle}} ELSE {})
  /\ Cancel(context, {handle}, X)
  /\ UNCHANGED <<server, refused>>

\* request_cancel of a mission that has not ended.  Before the first goal it is
\* cancelled at once; a second request while cancelling raises.
RequestCancel ==
  \/ /\ state = "accepted"
     /\ Finish("cancelled")
     /\ UNCHANGED <<adapterVars, goalIndex>>
  \/ /\ state \in Driving
     /\ UNCHANGED goalIndex
     /\ \/ /\ ~ Tracked(handle)
           /\ state' = "failed"
           /\ UNCHANGED <<adapterVars, handle, retryCount, raised>>
        \/ /\ Tracked(handle)
           /\ \E X \in SUBSET {handle} :
                /\ CancelActive(X)
                /\ IF X = {}
                     THEN state' = "cancelling" /\ UNCHANGED <<handle, retryCount, raised>>
                     ELSE Finish("failed")
  \/ /\ state = "cancelling"
     /\ Raise("request_cancel")
     /\ UNCHANGED adapterVars

\* Mutant: the timeout forgets Nav2.
DeadlinePassesSilently ==
  /\ state \in Driving \cup {"cancelling"}
  /\ Finish("timed_out")
  /\ UNCHANGED <<adapterVars, goalIndex>>

\* Mutant: a cancellation has no deadline.
DeadlinePassesDriving ==
  /\ state \in Driving
  /\ \E X \in SUBSET {handle} : CancelActive(X)
  /\ Finish("timed_out")
  /\ UNCHANGED goalIndex

\* tick() after the goal's deadline.  A cancel that cannot be sent reports
\* itself to cancellation_failed: while driving this raises and is caught;
\* while cancelling it ends the mission under tick's feet, which then raises.
DeadlinePasses ==
  /\ state \in Driving \cup {"cancelling"}
  /\ UNCHANGED goalIndex
  /\ \E X \in SUBSET {handle} :
       /\ IF Tracked(handle) THEN CancelActive(X) ELSE X = {} /\ UNCHANGED adapterVars
       /\ IF X = {} \/ state \in Driving THEN Finish("timed_out")
          ELSE /\ state' = "failed"
               /\ handle' = NoGoal
               /\ raised' = "tick"
               /\ UNCHANGED retryCount
=============================================================================
