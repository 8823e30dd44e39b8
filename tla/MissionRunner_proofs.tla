-------------------------- MODULE MissionRunner_proofs --------------------------
(***************************************************************************)
(* Proofs about MissionRunner: every invariant that the run checks, for     *)
(* every plan, number of retries and class of faults.  They rest on one     *)
(* inductive invariant, Inductive.                                          *)
(***************************************************************************)
EXTENDS MissionRunner, TLAPS

(***************************************************************************)
(* The inductive invariant.                                                 *)
(***************************************************************************)

\* A goal and what Nav2 knows of it, for a context map: cancel calls come from
\* cancel(), a goal accepted is known to the server, and its cancellation was
\* passed on.
GoalAgrees(ctx, g) ==
  /\ cancelCall[g] > 0 \/ refused[g] => ctx[g].cancelRequested
  /\ ctx[g].phase = "accepted" => server[g] \notin {"requested", "rejected"}
  /\ ctx[g].phase = "accepted" /\ ctx[g].cancelRequested =>
       server[g] # "executing" \/ cancelCall[g] > 0 \/ refused[g]
  /\ server[g] \in {"canceling", "canceled"} => ctx[g].cancelRequested \/ foreign

GoalsAgree == \A g \in Goal : GoalAgrees(context, g)

\* The goal of an attempt that comes after attempt n of goal i.
After(g, i, n) == g.goal > i \/ (g.goal = i /\ g.retry > n)

Fresh == [phase |-> "absent", cancelRequested |-> FALSE]

\* The executor has a handle while it drives or cancels, and the adapter tracks
\* that goal only; the attempts to come were never dispatched.
HandleAgrees ==
  /\ handle # NoGoal <=> state \in Driving \cup {"cancelling"}
  /\ handle # NoGoal =>
       /\ goalIndex < Len(Plan)
       /\ handle = [goal |-> goalIndex, retry |-> retryCount]
       /\ Tracked(handle)
       /\ context[handle].cancelRequested <=> state = "cancelling"
  /\ \A g \in Goal :
       /\ Tracked(g) => g = handle \/ (state = "timed_out" /\ context[g].cancelRequested)
       /\ state = "accepted" \/ After(g, goalIndex, retryCount) => context[g] = Fresh

\* The goals completed were reached.
GoalsReached(i) == \A k \in 0 .. i - 1 : \E g \in Goal : g.goal = k /\ server[g] = "succeeded"

\* A mission cancelled after its start had its goal canceled by Nav2.
CancelIsReal ==
  state = "cancelled" /\ started /\ raised = None =>
    /\ goalIndex < Len(Plan)
    /\ server[[goal |-> goalIndex, retry |-> retryCount]] = "canceled"

\* What the mission says of itself is what happened in Nav2.
MissionAgrees ==
  /\ GoalsReached(goalIndex)
  /\ state = "succeeded" => goalIndex = Len(Plan)
  /\ CancelIsReal

\* What is written is what happened; what the program has been told explains
\* where the executor is.
ProgramAgrees ==
  /\ Done => /\ raised = None
             /\ \/ result = [state |-> state, completed |-> goalIndex] /\ state \in Terminal
                \/ result = [state |-> "nav2_server_timeout", completed |-> 0] /\ ~ started
  /\ raised # None => phase \in {"spinning", "interrupted"}
  /\ raised = None =>
       /\ started => state # "accepted"
       /\ ~ started => state \in {"accepted", "cancelled"}
       /\ state = "timed_out" => Done
       /\ state = "cancelled" /\ ~ started /\ ~ Done => runner = "saved_map" /\ phase # "spinning"
       /\ state = "cancelling" /\ phase = "spinning" => timerCancelled
  /\ timerCancelled => runner = "task1"
  /\ phase \in {"interrupted", "exited"} => state \notin Driving \cup {"accepted"}

Inductive ==
  /\ TypeOK
  /\ GoalsAgree
  /\ raised = None => HandleAgrees
  /\ MissionAgrees
  /\ ProgramAgrees
  /\ CrashesExplained

-----------------------------------------------------------------------------
(* The operators of the adapter.                                            *)

\* Pop drops the context of one goal and nothing else.
LEMMA PopFacts ==
  ASSUME NEW g \in Goal, context \in [Goal -> Context]
  PROVE  /\ Pop(context, g) \in [Goal -> Context]
         /\ Pop(context, g)[g].phase = "popped"
         /\ Pop(context, g)[g].cancelRequested = context[g].cancelRequested
         /\ \A h \in Goal : h # g => Pop(context, g)[h] = context[h]
BY DEF Pop, Context, Phase

\* dispatch() changes the context and the server of its goal and nothing else.
LEMMA DispatchFromFacts ==
  ASSUME NEW g \in Goal, NEW ctx \in [Goal -> Context], ctx[g] = Fresh,
         server \in [Goal -> ServerState], DispatchFrom(ctx, g)
  PROVE  /\ context' \in [Goal -> Context]
         /\ context'[g].phase = "sent" /\ ~ context'[g].cancelRequested
         /\ \A h \in Goal : h # g => context'[h] = ctx[h]
         /\ server' \in [Goal -> ServerState]
         /\ server'[g] = "requested"
         /\ \A h \in Goal : h # g => server'[h] = server[h]
<1>1. ~ ctx[g].cancelRequested
  BY DEF Fresh
<1>2. server' = [server EXCEPT ![g] = "requested"] /\ "requested" \in ServerState
  BY DEF DispatchFrom, ServerState, Live
<1>3. /\ context' \in [Goal -> Context]
      /\ context'[g].phase = "sent" /\ ~ context'[g].cancelRequested
      /\ \A h \in Goal : h # g => context'[h] = ctx[h]
  BY <1>1 DEF DispatchFrom, Context, Phase
<1>4. /\ server' \in [Goal -> ServerState]
      /\ server'[g] = "requested"
      /\ \A h \in Goal : h # g => server'[h] = server[h]
  BY <1>2
<1> QED BY <1>3, <1>4

\* What a callback that ends a goal may tell, given what was asked of the goal.
LEMMA CallbackFacts ==
  ASSUME TypeOK, GoalsAgree, NEW g \in Goal, NEW ctx, NEW outcome, Callback(g, ctx, outcome)
  PROVE  /\ ctx = Pop(context, g)
         /\ Tracked(g)
         /\ ~ context[g].cancelRequested =>
              outcome \in {"navigation_succeeded", "navigation_failed", "goal_rejected",
                           "cancellation_confirmed"}
         /\ context[g].cancelRequested =>
              outcome \in {"cancellation_confirmed", "cancellation_failed"}
         /\ outcome = "navigation_succeeded" => server[g] = "succeeded"
         /\ outcome = "cancellation_confirmed" => server[g] = "canceled"
<1>1. context[g] \in Context /\ server[g] \in ServerState /\ refused[g] \in BOOLEAN
  BY DEF TypeOK, ExecutorTypeOK, AdapterTypeOK
<1>2. refused[g] => context[g].cancelRequested
  BY DEF GoalsAgree, GoalAgrees
<1>3. CASE ResponseFails(g, ctx, outcome)
  BY <1>1, <1>3 DEF ResponseFails, GoalError, Tracked
<1>4. CASE ResponseRejected(g, ctx, outcome)
  BY <1>1, <1>4 DEF ResponseRejected, GoalError, Tracked
<1>5. CASE DeferredCancelFails(g, ctx, outcome)
  BY <1>1, <1>5 DEF DeferredCancelFails, GoalError, Tracked
<1>6. CASE ResultArrives(g, ctx, outcome)
  BY <1>1, <1>6 DEF ResultArrives, ResultOutcome, GoalError, Tracked, Ended
<1>7. CASE CancelRefused(g, ctx, outcome)
  BY <1>1, <1>2, <1>7 DEF CancelRefused, Tracked
<1> QED BY <1>3, <1>4, <1>5, <1>6, <1>7 DEF Callback

-----------------------------------------------------------------------------
(* The methods of the executor.                                             *)

\* With these contexts nothing is under way, and the attempts from attempt n of
\* goal i on were never dispatched.
Ready(ctx, i, n) ==
  /\ ctx \in [Goal -> Context]
  /\ i \in 0 .. Len(Plan) - 1
  /\ n \in 0 .. MaxRetries
  /\ \A g \in Goal :
       /\ GoalAgrees(ctx, g)
       /\ ctx[g].phase \notin {"sent", "accepted"}
       /\ g = [goal |-> i, retry |-> n] \/ After(g, i, n) => ctx[g] = Fresh
  /\ GoalsReached(i)

\* What the executor's state is after any of its methods.
ExecutorAgrees ==
  /\ ExecutorTypeOK
  /\ GoalsAgree
  /\ raised = None => HandleAgrees
  /\ GoalsReached(goalIndex)
  /\ state = "succeeded" => goalIndex = Len(Plan)

\* The typing of the constants that the proofs use.
LEMMA Constants ==
  /\ Len(Plan) \in Nat \ {0}
  /\ MaxRetries \in Nat
  /\ \A i \in 1 .. Len(Plan) : Plan[i] \in GoalKind
  /\ Goal = [goal : 0 .. Len(Plan) - 1, retry : 0 .. MaxRetries]
  /\ NoGoal \notin Goal
<1>1. Goal = [goal : 0 .. Len(Plan) - 1, retry : 0 .. MaxRetries]
  BY AttemptAssumption DEF Attempt
<1>2. Len(Plan) \in Nat \ {0} /\ \A i \in 1 .. Len(Plan) : Plan[i] \in GoalKind
  BY PlanAssumption
<1>3. NoGoal \notin Goal
  BY <1>1, <1>2, RetriesAssumption DEF NoGoal
<1> QED BY <1>1, <1>2, <1>3, RetriesAssumption

\* _dispatch_current_goal leaves the executor driving its one goal, or failed.
LEMMA DispatchAgrees ==
  ASSUME TypeOK, raised = None, NEW ctx, NEW i, NEW n, Ready(ctx, i, n),
         DispatchCurrentGoal(ctx, i, n), foreign' = foreign
  PROVE  ExecutorAgrees' /\ raised' = None /\ state' \in Driving \cup {"failed"}
<1> DEFINE d == [goal |-> i, retry |-> n]
<1>0. /\ ctx \in [Goal -> Context] /\ i \in 0 .. Len(Plan) - 1 /\ n \in 0 .. MaxRetries
      /\ d \in Goal /\ d # NoGoal /\ i + 1 \in 1 .. Len(Plan) /\ i \in Int /\ n \in Int
      /\ Plan[i + 1] \in GoalKind
  <2>1. i \in 0 .. Len(Plan) - 1 /\ n \in 0 .. MaxRetries /\ ctx \in [Goal -> Context]
    BY DEF Ready
  <2>2. d \in Goal
    BY <2>1, Constants
  <2>3. i + 1 \in 1 .. Len(Plan)
    BY <2>1, Constants
  <2> QED BY <2>1, <2>2, <2>3, Constants
<1>1. \A g \in Goal : ctx[g] \in Context
  BY <1>0
<1>2. goalIndex' = i /\ retryCount' = n /\ raised' = None /\ cancelCall' = cancelCall /\ refused' = refused
  BY DEF DispatchCurrentGoal, DispatchFrom
<1>3. CASE DispatchFrom(ctx, d) /\ handle' = d
             /\ state' = IF Plan[i + 1] = "home" THEN "returning_home" ELSE "executing"
  <2>1. state' \in Driving
    BY <1>3 DEF Driving
  <2>2. ctx[d] = Fresh
    BY <1>0 DEF Ready
  <2>3. /\ context' \in [Goal -> Context]
        /\ context'[d].phase = "sent" /\ ~ context'[d].cancelRequested
        /\ \A g \in Goal : g # d => context'[g] = ctx[g]
        /\ server' \in [Goal -> ServerState]
        /\ server'[d] = "requested"
        /\ \A g \in Goal : g # d => server'[g] = server[g]
    <3>1. server \in [Goal -> ServerState]
      BY DEF TypeOK, ExecutorTypeOK, AdapterTypeOK
    <3>2. d \in Goal /\ ctx \in [Goal -> Context] /\ DispatchFrom(ctx, d)
      BY <1>0, <1>3
    <3> HIDE DEF d
    <3> QED BY <2>2, <3>1, <3>2, DispatchFromFacts
  <2>4. ExecutorTypeOK'
    <3>1. AdapterTypeOK'
      BY <1>2, <2>3 DEF TypeOK, ExecutorTypeOK, AdapterTypeOK
    <3>2. state' \in ExecutorState
      BY <2>1 DEF ExecutorState
    <3>3. goalIndex' \in 0 .. Len(Plan) /\ retryCount' \in 0 .. MaxRetries
      BY <1>0, <1>2, Constants
    <3>4. handle' \in Goal \cup {NoGoal} /\ raised' \in Method \cup {None}
      BY <1>0, <1>2, <1>3
    <3> QED BY <3>1, <3>2, <3>3, <3>4 DEF ExecutorTypeOK
  <2>5. GoalsAgree'
    <3> SUFFICES ASSUME NEW g \in Goal
                 PROVE  GoalAgrees(context, g)'
      BY DEF GoalsAgree
    <3>1. GoalAgrees(ctx, g)
      BY DEF Ready
    <3>2. CASE g = d
      BY <3>1, <3>2, <1>2, <2>2, <2>3 DEF GoalAgrees, Fresh
    <3>3. CASE g # d
      BY <3>1, <3>3, <1>2, <2>3 DEF GoalAgrees
    <3> QED BY <3>2, <3>3
  <2>6. HandleAgrees'
    <3>1. (handle # NoGoal <=> state \in Driving \cup {"cancelling"})'
      BY <1>0, <1>3, <2>1
    <3>2. (handle # NoGoal => /\ goalIndex < Len(Plan)
                              /\ handle = [goal |-> goalIndex, retry |-> retryCount]
                              /\ Tracked(handle)
                              /\ context[handle].cancelRequested <=> state = "cancelling")'
      <4>1. state' # "cancelling"
        BY <2>1 DEF Driving
      <4>2. i < Len(Plan)
        BY <1>0, Constants
      <4> QED BY <1>2, <1>3, <2>3, <4>1, <4>2 DEF Tracked
    <3>3. ASSUME NEW g \in Goal
          PROVE  /\ Tracked(g)' => g = handle'
                 /\ (state = "accepted" \/ After(g, goalIndex, retryCount))' => context'[g] = Fresh
      <4>1. state' # "accepted"
        BY <2>1 DEF Driving
      <4>2. ~ After(d, i, n)
        BY <1>0 DEF After
      <4>3. CASE g = d
        BY <4>1, <4>2, <4>3, <1>2, <1>3 DEF After
      <4>4. CASE g # d
        <5>1. ctx[g].phase \notin {"sent", "accepted"} /\ (After(g, i, n) => ctx[g] = Fresh)
          BY DEF Ready
        <5> QED BY <4>1, <4>4, <5>1, <1>2, <2>3 DEF After, Tracked
      <4> QED BY <4>3, <4>4
    <3> QED BY <3>1, <3>2, <3>3 DEF HandleAgrees
  <2>7. GoalsReached(goalIndex)'
    <3> SUFFICES ASSUME NEW k \in 0 .. i - 1
                 PROVE  \E g \in Goal : g.goal = k /\ server'[g] = "succeeded"
      BY <1>2 DEF GoalsReached
    <3>1. PICK g \in Goal : g.goal = k /\ server[g] = "succeeded"
      BY DEF Ready, GoalsReached
    <3>2. g # d
      BY <1>0, <3>1
    <3> QED BY <3>1, <3>2, <2>3
  <2>8. state' # "succeeded"
    BY <2>1 DEF Driving
  <2> QED BY <1>2, <2>1, <2>4, <2>5, <2>6, <2>7, <2>8 DEF ExecutorAgrees
<1>4. CASE context' = ctx /\ handle' = NoGoal /\ state' = "failed" /\ server' = server
  <2>1. ExecutorTypeOK'
    BY <1>0, <1>2, <1>4, Constants
       DEF TypeOK, ExecutorTypeOK, AdapterTypeOK, ExecutorState, Terminal
  <2>2. GoalsAgree'
    <3> SUFFICES ASSUME NEW g \in Goal
                 PROVE  GoalAgrees(context, g)'
      BY DEF GoalsAgree
    <3>1. GoalAgrees(ctx, g)
      BY DEF Ready
    <3> QED BY <3>1, <1>2, <1>4 DEF GoalAgrees
  <2>3. HandleAgrees'
    <3>1. \A g \in Goal : /\ ctx[g].phase \notin {"sent", "accepted"}
                          /\ After(g, i, n) => ctx[g] = Fresh
      BY DEF Ready
    <3> QED BY <3>1, <1>2, <1>4 DEF HandleAgrees, Tracked, Driving, After
  <2>4. GoalsReached(goalIndex)'
    BY <1>2, <1>4 DEF GoalsReached, Ready
  <2> QED BY <1>2, <1>4, <2>1, <2>2, <2>3, <2>4 DEF ExecutorAgrees
<1> QED BY <1>3, <1>4 DEF DispatchCurrentGoal

\* With these contexts nothing is under way, and the attempts after the current
\* one were never dispatched.
Idle(ctx) ==
  /\ ctx \in [Goal -> Context]
  /\ \A g \in Goal :
       /\ GoalAgrees(ctx, g)
       /\ ctx[g].phase \notin {"sent", "accepted"}
       /\ After(g, goalIndex, retryCount) => ctx[g] = Fresh

\* A callback that ends a goal ends the one under way.
LEMMA CallbackIdle ==
  ASSUME Inductive, Spinning, NEW g \in Goal, NEW ctx, NEW outcome, Callback(g, ctx, outcome)
  PROVE  /\ g = handle
         /\ state \in Driving \cup {"cancelling"}
         /\ goalIndex < Len(Plan)
         /\ g = [goal |-> goalIndex, retry |-> retryCount]
         /\ context[g].cancelRequested <=> state = "cancelling"
         /\ Idle(ctx)
<1>1. HandleAgrees /\ GoalsAgree /\ TypeOK
  BY DEF Inductive, Spinning
<1>2. ctx = Pop(context, g) /\ Tracked(g)
  BY <1>1, CallbackFacts
<1>3. state # "timed_out"
  BY DEF Inductive, Spinning, ProgramAgrees
<1>4. \A h \in Goal : Tracked(h) => h = handle
  BY <1>1, <1>3 DEF HandleAgrees
<1>5. g = handle /\ handle # NoGoal
  BY <1>2, <1>4, Constants
<1>6. context \in [Goal -> Context]
  BY <1>1 DEF TypeOK, ExecutorTypeOK, AdapterTypeOK
<1>7. /\ ctx \in [Goal -> Context]
      /\ ctx[g].phase = "popped" /\ ctx[g].cancelRequested = context[g].cancelRequested
      /\ \A h \in Goal : h # g => ctx[h] = context[h]
  BY <1>2, <1>6, PopFacts
<1>8. Idle(ctx)
  <2> SUFFICES ASSUME NEW h \in Goal
               PROVE  /\ GoalAgrees(ctx, h)
                      /\ ctx[h].phase \notin {"sent", "accepted"}
                      /\ After(h, goalIndex, retryCount) => ctx[h] = Fresh
    BY <1>7 DEF Idle
  <2>1. GoalAgrees(context, h)
    BY <1>1 DEF GoalsAgree
  <2>2. CASE h = g
    <3>1. ~ After(h, goalIndex, retryCount)
      BY <1>1, <1>5, <2>2 DEF HandleAgrees, After, TypeOK, ExecutorTypeOK
    <3> QED BY <2>1, <2>2, <3>1, <1>7 DEF GoalAgrees
  <2>3. CASE h # g
    <3>1. ~ Tracked(h) /\ (After(h, goalIndex, retryCount) => context[h] = Fresh)
      BY <1>1, <1>4, <1>5, <2>3 DEF HandleAgrees
    <3> QED BY <2>1, <2>3, <3>1, <1>7 DEF GoalAgrees, Tracked
  <2> QED BY <2>2, <2>3
<1> QED BY <1>1, <1>5, <1>8 DEF HandleAgrees

\* The mission ends, or its method raises, with nothing under way.
LEMMA EndAgrees ==
  ASSUME TypeOK, GoalsReached(goalIndex), NEW ctx, Idle(ctx), CallbackOnly(ctx), foreign' = foreign,
         \/ /\ state' \in Terminal /\ handle' = NoGoal /\ raised' = raised
            /\ \/ goalIndex' = goalIndex /\ retryCount' = retryCount
               \/ goalIndex' = goalIndex + 1 /\ retryCount' = 0
            /\ state' = "succeeded" => goalIndex' = Len(Plan)
         \/ /\ raised' \in Method
            /\ UNCHANGED <<state, goalIndex, retryCount, handle>>
            /\ state # "succeeded",
         goalIndex < Len(Plan), GoalsReached(goalIndex')
  PROVE  ExecutorAgrees'
<1>1. /\ goalIndex \in Nat /\ retryCount \in Nat
      /\ goalIndex' \in 0 .. Len(Plan) /\ retryCount' \in 0 .. MaxRetries
  BY Constants DEF TypeOK, ExecutorTypeOK
<1>2. context' = ctx /\ server' = server /\ cancelCall' = cancelCall /\ refused' = refused
  BY DEF CallbackOnly
<1>3. ExecutorTypeOK'
  BY <1>1, <1>2 DEF TypeOK, ExecutorTypeOK, AdapterTypeOK, ExecutorState, Idle
<1>4. GoalsAgree'
  BY <1>2 DEF GoalsAgree, GoalAgrees, Idle
<1>5. GoalsReached(goalIndex)'
  BY <1>2 DEF GoalsReached
<1>6. ASSUME raised' = None
      PROVE  HandleAgrees'
  <2>1. state' \in Terminal /\ handle' = NoGoal
    BY <1>6 DEF Method, None
  <2>2. state' \notin Driving \cup {"cancelling", "accepted"}
    BY <2>1 DEF Terminal, Driving
  <2>3. ASSUME NEW g \in Goal
        PROVE  /\ ~ Tracked(g)'
               /\ After(g, goalIndex, retryCount)' => context'[g] = Fresh
    <3>1. ~ Tracked(g)'
      BY <1>2 DEF Idle, Tracked
    <3>2. After(g, goalIndex', retryCount') => After(g, goalIndex, retryCount)
      <4>1. CASE goalIndex' = goalIndex /\ retryCount' = retryCount
        BY <4>1
      <4>2. CASE goalIndex' = goalIndex + 1 /\ retryCount' = 0
        BY <4>2, <1>1, Constants DEF After
      <4>3. raised' \notin Method
        BY <1>6 DEF Method, None
      <4> QED BY <4>1, <4>2, <4>3
    <3> QED BY <3>1, <3>2, <1>2 DEF Idle, After
  <2> QED BY <2>1, <2>2, <2>3 DEF HandleAgrees
<1>7. state' = "succeeded" => goalIndex' = Len(Plan)
  OBVIOUS
<1> QED BY <1>3, <1>4, <1>5, <1>6, <1>7 DEF ExecutorAgrees

\* How a callback may leave the mission.
AfterOutcome ==
  \/ raised' = None /\ state \in Driving /\ state' \in Driving \cup {"succeeded", "failed"}
  \/ /\ raised' = None /\ state = "cancelling" /\ state' \in {"cancelled", "failed"}
     /\ state' = "cancelled" =>
          /\ goalIndex' < Len(Plan)
          /\ server'[[goal |-> goalIndex', retry |-> retryCount']] = "canceled"
  \/ raised' = "cancellation_confirmed" /\ foreign /\ state \in Driving /\ state' = state

\* A callback's method of the executor, after the adapter dropped the goal.
LEMMA OutcomesAgree ==
  ASSUME Inductive, Spinning, NEW g \in Goal, NEW ctx, NEW outcome,
         Callback(g, ctx, outcome), Outcomes(g, ctx, outcome), foreign' = foreign
  PROVE  ExecutorAgrees' /\ AfterOutcome
<1>1. /\ TypeOK /\ GoalsAgree /\ MissionAgrees /\ raised = None /\ HandleAgrees
      /\ GoalsReached(goalIndex)
  BY DEF Inductive, Spinning, MissionAgrees
<1>2. /\ g = handle /\ state \in Driving \cup {"cancelling"} /\ goalIndex < Len(Plan)
      /\ g = [goal |-> goalIndex, retry |-> retryCount]
      /\ context[g].cancelRequested <=> state = "cancelling"
      /\ Idle(ctx)
  BY CallbackIdle
<1>3. /\ ~ context[g].cancelRequested =>
           outcome \in {"navigation_succeeded", "navigation_failed", "goal_rejected",
                        "cancellation_confirmed"}
      /\ context[g].cancelRequested =>
           outcome \in {"cancellation_confirmed", "cancellation_failed"}
      /\ outcome = "navigation_succeeded" => server[g] = "succeeded"
      /\ outcome = "cancellation_confirmed" => server[g] = "canceled"
  BY <1>1, CallbackFacts
<1>4. state \in Driving => state # "cancelling" /\ state # "succeeded"
  BY DEF Driving
<1>5. /\ goalIndex \in Nat /\ retryCount \in Nat /\ retryCount <= MaxRetries
      /\ Len(Plan) \in Nat /\ MaxRetries \in Nat
  BY <1>1, Constants DEF TypeOK, ExecutorTypeOK
<1>6. ASSUME NEW i \in {goalIndex, goalIndex + 1}, NEW n \in Nat, i < Len(Plan), n <= MaxRetries,
             i = goalIndex => n = retryCount + 1, GoalsReached(i)
      PROVE  Ready(ctx, i, n)
  <2>1. \A h \in Goal : h = [goal |-> i, retry |-> n] \/ After(h, i, n)
                          => After(h, goalIndex, retryCount)
    BY <1>5, <1>6, Constants DEF After
  <2> QED BY <2>1, <1>2, <1>5, <1>6 DEF Ready, Idle
<1>7. CASE outcome = "navigation_succeeded" /\ NavigationSucceeded(g, ctx)
  <2>1. state \in Driving /\ server[g] = "succeeded"
    BY <1>2, <1>3, <1>7
  <2>2. GoalsReached(goalIndex + 1)
    BY <1>1, <1>2, <1>5, <2>1 DEF GoalsReached
  <2>3. CASE goalIndex + 1 = Len(Plan)
    <3>1. /\ state' = "succeeded" /\ goalIndex' = goalIndex + 1 /\ retryCount' = 0
          /\ handle' = NoGoal /\ raised' = raised /\ CallbackOnly(ctx)
      BY <1>2, <1>7, <2>1, <2>3 DEF NavigationSucceeded
    <3>2. ExecutorAgrees'
      BY <1>1, <1>2, <2>2, <2>3, <3>1, EndAgrees DEF Terminal
    <3> QED BY <1>1, <2>1, <3>1, <3>2 DEF AfterOutcome
  <2>4. CASE goalIndex + 1 # Len(Plan)
    <3>1. DispatchCurrentGoal(ctx, goalIndex + 1, 0)
      BY <1>2, <1>7, <2>1, <2>4 DEF NavigationSucceeded
    <3>2. Ready(ctx, goalIndex + 1, 0)
      BY <1>2, <1>5, <1>6, <2>2, <2>4
    <3>3. ExecutorAgrees' /\ raised' = None /\ state' \in Driving \cup {"failed"}
      BY <1>1, <3>1, <3>2, DispatchAgrees
    <3> QED BY <2>1, <3>3 DEF AfterOutcome
  <2> QED BY <2>3, <2>4
<1>8. CASE outcome \in {"navigation_failed", "goal_rejected"} /\ NavigationFailed(g, ctx)
  <2>1. state \in Driving
    BY <1>2, <1>3, <1>8
  <2>2. CASE retryCount < MaxRetries
    <3>1. DispatchCurrentGoal(ctx, goalIndex, retryCount + 1)
      BY <1>2, <1>8, <2>1, <2>2 DEF NavigationFailed
    <3>2. Ready(ctx, goalIndex, retryCount + 1)
      BY <1>1, <1>2, <1>5, <1>6, <2>2
    <3>3. ExecutorAgrees' /\ raised' = None /\ state' \in Driving \cup {"failed"}
      BY <1>1, <3>1, <3>2, DispatchAgrees
    <3> QED BY <2>1, <3>3 DEF AfterOutcome
  <2>3. CASE ~ (retryCount < MaxRetries)
    <3>1. Finish("failed") /\ UNCHANGED goalIndex /\ CallbackOnly(ctx)
      BY <1>2, <1>8, <2>1, <2>3 DEF NavigationFailed
    <3>2. ExecutorAgrees'
      BY <1>1, <1>2, <3>1, EndAgrees DEF Finish, Terminal
    <3> QED BY <1>1, <2>1, <3>1, <3>2 DEF AfterOutcome, Finish
  <2> QED BY <2>2, <2>3
<1>9. CASE outcome = "cancellation_confirmed" /\ CancellationConfirmed(g, ctx)
  <2>1. server[g] = "canceled" /\ CallbackOnly(ctx)
    BY <1>3, <1>9 DEF CancellationConfirmed
  <2>2. CASE state = "cancelling"
    <3>1. Finish("cancelled") /\ UNCHANGED goalIndex
      BY <1>2, <1>9, <2>2 DEF CancellationConfirmed
    <3>2. ExecutorAgrees'
      BY <1>1, <1>2, <2>1, <3>1, EndAgrees DEF Finish, Terminal
    <3> QED BY <1>1, <1>2, <2>1, <2>2, <3>1, <3>2 DEF AfterOutcome, Finish, CallbackOnly
  <2>3. CASE state \in Driving
    <3>1. Raise("cancellation_confirmed")
      BY <1>4, <1>9, <2>3 DEF CancellationConfirmed
    <3>2. ExecutorAgrees'
      BY <1>1, <1>2, <1>4, <2>1, <2>3, <3>1, EndAgrees DEF Raise, Method
    <3>3. foreign
      BY <1>1, <1>2, <1>4, <2>1, <2>3 DEF GoalsAgree, GoalAgrees
    <3> QED BY <2>3, <3>1, <3>2, <3>3 DEF AfterOutcome, Raise
  <2> QED BY <1>2, <2>2, <2>3
<1>10. CASE outcome = "cancellation_failed" /\ CancellationFailed(g, ctx)
  <2>1. state = "cancelling"
    BY <1>2, <1>3, <1>10
  <2>2. Finish("failed") /\ UNCHANGED goalIndex /\ CallbackOnly(ctx)
    BY <1>2, <1>10, <2>1 DEF CancellationFailed
  <2>3. ExecutorAgrees'
    BY <1>1, <1>2, <2>2, EndAgrees DEF Finish, Terminal
  <2> QED BY <1>1, <2>1, <2>2, <2>3 DEF AfterOutcome, Finish
<1> QED BY <1>7, <1>8, <1>9, <1>10 DEF Outcomes

\* cancel() of the goal under way: it is marked, and the call is on its way if
\* the goal was accepted; or the call cannot be sent and the goal is dropped.
LEMMA CancelFacts ==
  ASSUME TypeOK, GoalsAgree, handle \in Goal, NEW X \in SUBSET {handle}, CancelActive(X),
         foreign' = foreign
  PROVE  /\ AdapterTypeOK'
         /\ GoalsAgree'
         /\ context'[handle].cancelRequested
         /\ X = {} => context'[handle].phase = context[handle].phase
         /\ X # {} => context'[handle] = [phase |-> "popped", cancelRequested |-> TRUE]
         /\ \A h \in Goal : h # handle => context'[h] = context[h]
         /\ server' = server
<1>1. /\ context \in [Goal -> Context] /\ server \in [Goal -> ServerState]
      /\ cancelCall \in [Goal -> Nat] /\ refused \in [Goal -> BOOLEAN]
  BY DEF TypeOK, ExecutorTypeOK, AdapterTypeOK
<1>2. server' = server /\ refused' = refused
  BY DEF CancelActive
<1>3. \A h \in Goal : h # handle => context'[h] = context[h] /\ cancelCall'[h] = cancelCall[h]
  BY DEF CancelActive, Cancel
<1>4. CASE X = {}
  <2>1. context'[handle] = [context[handle] EXCEPT !.cancelRequested = TRUE]
    BY <1>4 DEF CancelActive, Cancel
  <2>2. context[handle] \in Context
    BY <1>1
  <2>3. /\ context'[handle] \in Context /\ context'[handle].cancelRequested
        /\ context'[handle].phase = context[handle].phase
    BY <2>1, <2>2 DEF Context
  <2>4. cancelCall'[handle] = IF context[handle].phase = "accepted"
                                THEN cancelCall[handle] + 1 ELSE cancelCall[handle]
    BY <1>4 DEF CancelActive, Cancel
  <2>5. cancelCall[handle] \in Nat
    BY <1>1
  <2>6. GoalsAgree'
    <3> SUFFICES ASSUME NEW h \in Goal
                 PROVE  GoalAgrees(context, h)'
      BY DEF GoalsAgree
    <3>1. GoalAgrees(context, h)
      BY DEF GoalsAgree
    <3>2. CASE h = handle
      <4>1. context[h].phase = "accepted" => cancelCall'[h] > 0
        BY <3>2, <2>4, <2>5
      <4> QED BY <3>1, <3>2, <4>1, <1>2, <2>3 DEF GoalAgrees
    <3>3. CASE h # handle
      BY <3>1, <3>3, <1>2, <1>3 DEF GoalAgrees
    <3> QED BY <3>2, <3>3
  <2>7. context' \in [Goal -> Context]
    <3>1. context' = [h \in Goal |-> context'[h]]
      BY DEF CancelActive, Cancel
    <3>2. \A h \in Goal : context'[h] \in Context
      BY <1>1, <1>3, <2>3
    <3> QED BY <3>1, <3>2
  <2>8. cancelCall' \in [Goal -> Nat]
    BY <1>1 DEF CancelActive, Cancel
  <2> QED BY <1>1, <1>2, <1>3, <1>4, <2>3, <2>6, <2>7, <2>8 DEF AdapterTypeOK
<1>5. CASE X # {}
  <2>1. handle \in X
    BY <1>5
  <2>2. context'[handle] = [phase |-> "popped", cancelRequested |-> TRUE]
    BY <2>1 DEF CancelActive, Cancel
  <2>3. context'[handle] \in Context
    BY <2>2 DEF Context, Phase
  <2>4. context'[handle].cancelRequested /\ context'[handle].phase = "popped"
    BY <2>2
  <2>5. GoalsAgree'
    <3> SUFFICES ASSUME NEW h \in Goal
                 PROVE  GoalAgrees(context, h)'
      BY DEF GoalsAgree
    <3>1. CASE h = handle
      BY <3>1, <2>4 DEF GoalAgrees
    <3>2. CASE h # handle
      BY <3>2, <1>2, <1>3 DEF GoalsAgree, GoalAgrees
    <3> QED BY <3>1, <3>2
  <2>6. context' \in [Goal -> Context]
    <3>1. context' = [h \in Goal |-> context'[h]]
      BY DEF CancelActive, Cancel
    <3>2. \A h \in Goal : context'[h] \in Context
      BY <1>1, <1>3, <2>3
    <3> QED BY <3>1, <3>2
  <2>7. cancelCall' \in [Goal -> Nat]
    BY <1>1 DEF CancelActive, Cancel
  <2> QED BY <1>1, <1>2, <1>3, <1>5, <2>2, <2>4, <2>5, <2>6, <2>7 DEF AdapterTypeOK
<1> QED BY <1>4, <1>5

\* How a request to cancel may leave the mission.
AfterRequest ==
  \/ raised' = None /\ state = "accepted" /\ state' = "cancelled"
  \/ raised' = None /\ state \in Driving /\ state' \in {"cancelling", "failed"}
  \/ raised' = "request_cancel" /\ state = "cancelling" /\ state' = state

\* The goal under way was cancelled, or could not be.
LEMMA CancelAgrees ==
  ASSUME Inductive, raised = None, state \in Driving \cup {"cancelling"},
         NEW X \in SUBSET {handle}, CancelActive(X), foreign' = foreign,
         goalIndex' = goalIndex, retryCount' = retryCount,
         \/ X = {} /\ state' = "cancelling" /\ handle' = handle /\ raised' = None
         \/ X # {} /\ state' = "failed" /\ handle' = NoGoal /\ raised' \in {None, "tick"}
         \/ state' = "timed_out" /\ handle' = NoGoal /\ raised' = None
  PROVE  ExecutorAgrees'
<1>1. TypeOK /\ GoalsAgree /\ HandleAgrees /\ GoalsReached(goalIndex)
  BY DEF Inductive, MissionAgrees
<1>2. /\ handle # NoGoal /\ handle \in Goal /\ goalIndex < Len(Plan) /\ Tracked(handle)
      /\ handle = [goal |-> goalIndex, retry |-> retryCount]
  BY <1>1 DEF HandleAgrees, TypeOK, ExecutorTypeOK
<1>3. /\ AdapterTypeOK' /\ GoalsAgree' /\ context'[handle].cancelRequested
      /\ X = {} => context'[handle].phase = context[handle].phase
      /\ X # {} => context'[handle] = [phase |-> "popped", cancelRequested |-> TRUE]
      /\ \A h \in Goal : h # handle => context'[h] = context[h]
      /\ server' = server
  BY <1>1, <1>2, CancelFacts
<1>4. ExecutorTypeOK'
  BY <1>1, <1>3 DEF TypeOK, ExecutorTypeOK, ExecutorState, Terminal, Method
<1>5. \A h \in Goal : h # handle => ~ Tracked(h)' /\ (After(h, goalIndex, retryCount) => context'[h] = Fresh)
  <2>1. state \notin {"timed_out", "accepted"}
    BY DEF Driving
  <2> QED BY <1>1, <1>3, <2>1 DEF HandleAgrees, Tracked
<1>6. ~ After(handle, goalIndex, retryCount)
  BY <1>1, <1>2 DEF After, TypeOK, ExecutorTypeOK
<1>7. ASSUME raised' = None
      PROVE  HandleAgrees'
  <2>1. CASE X = {} /\ state' = "cancelling" /\ handle' = handle
    BY <1>2, <1>3, <1>5, <1>6, <2>1 DEF HandleAgrees, Tracked, After
  <2>2. CASE X # {} /\ state' = "failed" /\ handle' = NoGoal
    <3>1. context'[handle].phase = "popped"
      BY <1>3, <2>2
    <3>2. \A h \in Goal : ~ Tracked(h)'
      BY <1>5, <3>1 DEF Tracked
    <3>3. \A h \in Goal : After(h, goalIndex, retryCount) => context'[h] = Fresh
      BY <1>5, <1>6
    <3> QED BY <2>2, <3>2, <3>3 DEF HandleAgrees, After, Driving
  <2>3. CASE state' = "timed_out" /\ handle' = NoGoal
    BY <1>2, <1>3, <1>5, <1>6, <2>3 DEF HandleAgrees, After, Driving
  <2> QED BY <2>1, <2>2, <2>3
<1>8. GoalsReached(goalIndex)'
  BY <1>1, <1>3 DEF GoalsReached
<1> QED BY <1>3, <1>4, <1>7, <1>8 DEF ExecutorAgrees

\* request_cancel.
LEMMA RequestCancelAgrees ==
  ASSUME Inductive, raised = None, RequestCancel, foreign' = foreign
  PROVE  ExecutorAgrees' /\ AfterRequest /\ server' = server
<1>1. TypeOK /\ GoalsAgree /\ HandleAgrees /\ GoalsReached(goalIndex)
  BY DEF Inductive, MissionAgrees
<1>2. CASE /\ state = "accepted" /\ Finish("cancelled")
           /\ UNCHANGED <<adapterVars, goalIndex>>
  <2>1. ExecutorTypeOK' /\ GoalsAgree' /\ GoalsReached(goalIndex)'
    BY <1>1, <1>2 DEF Finish, adapterVars, TypeOK, ExecutorTypeOK, AdapterTypeOK, GoalsAgree,
                      GoalAgrees, GoalsReached, ExecutorState, Terminal
  <2>2. \A g \in Goal : context[g] = Fresh
    BY <1>1, <1>2 DEF HandleAgrees
  <2>3. \A g \in Goal : context'[g] = Fresh /\ ~ Tracked(g)'
    BY <1>2, <2>2 DEF adapterVars, Tracked, Fresh
  <2>4. HandleAgrees'
    BY <1>2, <2>3 DEF HandleAgrees, Finish, Driving
  <2> QED BY <1>2, <2>1, <2>4 DEF ExecutorAgrees, AfterRequest, Finish, adapterVars
<1>3. CASE state \in Driving /\ goalIndex' = goalIndex
  <2>1. Tracked(handle)
    BY <1>1, <1>3 DEF HandleAgrees
  <2>2. PICK X \in SUBSET {handle} :
          /\ CancelActive(X)
          /\ IF X = {}
               THEN state' = "cancelling" /\ UNCHANGED <<handle, retryCount, raised>>
               ELSE Finish("failed")
    BY <1>3, <2>1 DEF RequestCancel, Driving
  <2>3. \/ X = {} /\ state' = "cancelling" /\ handle' = handle /\ raised' = None
        \/ X # {} /\ state' = "failed" /\ handle' = NoGoal /\ raised' = None
    BY <2>2 DEF Finish
  <2>4. retryCount' = retryCount
    BY <2>2 DEF Finish
  <2>5. ExecutorAgrees'
    BY <1>3, <2>2, <2>3, <2>4, CancelAgrees
  <2> QED BY <1>3, <2>2, <2>3, <2>5 DEF AfterRequest, CancelActive
<1>4. CASE state = "cancelling" /\ Raise("request_cancel") /\ UNCHANGED adapterVars
  <2>1. ExecutorTypeOK' /\ GoalsAgree' /\ GoalsReached(goalIndex)'
    BY <1>1, <1>4 DEF Raise, adapterVars, TypeOK, ExecutorTypeOK, AdapterTypeOK, GoalsAgree,
                      GoalAgrees, GoalsReached, Method
  <2>2. raised' # None
    BY <1>4 DEF Raise, None
  <2> QED BY <1>4, <2>1, <2>2 DEF ExecutorAgrees, AfterRequest, Raise, adapterVars
<1> QED BY <1>2, <1>3, <1>4 DEF RequestCancel

\* tick() after the deadline.
LEMMA DeadlineAgrees ==
  ASSUME Inductive, raised = None, DeadlinePasses, foreign' = foreign
  PROVE  /\ ExecutorAgrees'
         /\ server' = server
         /\ state \in Driving \cup {"cancelling"}
         /\ \/ raised' = None /\ state' = "timed_out"
            \/ /\ raised' = "tick" /\ state' = "failed" /\ state = "cancelling"
               /\ \E g \in Goal : context'[g] = [phase |-> "popped", cancelRequested |-> TRUE]
<1>1. TypeOK /\ GoalsAgree /\ HandleAgrees
  BY DEF Inductive
<1>2. state \in Driving \cup {"cancelling"} /\ goalIndex' = goalIndex
  BY DEF DeadlinePasses
<1>3. Tracked(handle) /\ handle \in Goal
  BY <1>1, <1>2 DEF HandleAgrees, TypeOK, ExecutorTypeOK
<1>4. PICK X \in SUBSET {handle} :
        /\ CancelActive(X)
        /\ IF X = {} \/ state \in Driving THEN Finish("timed_out")
           ELSE /\ state' = "failed"
                /\ handle' = NoGoal
                /\ raised' = "tick"
                /\ UNCHANGED retryCount
  BY <1>3 DEF DeadlinePasses
<1>5. CASE X = {} \/ state \in Driving
  <2>1. state' = "timed_out" /\ handle' = NoGoal /\ raised' = None /\ retryCount' = retryCount
    BY <1>4, <1>5 DEF Finish
  <2>2. ExecutorAgrees'
    BY <1>2, <1>4, <2>1, CancelAgrees
  <2> QED BY <1>2, <1>4, <2>1, <2>2 DEF CancelActive
<1>6. CASE ~ (X = {} \/ state \in Driving)
  <2>1. /\ state' = "failed" /\ handle' = NoGoal /\ raised' = "tick"
        /\ retryCount' = retryCount /\ X # {} /\ state = "cancelling"
    BY <1>2, <1>4, <1>6
  <2>2. ExecutorAgrees'
    BY <1>2, <1>4, <2>1, CancelAgrees
  <2>3. context'[handle] = [phase |-> "popped", cancelRequested |-> TRUE]
    BY <1>1, <1>3, <1>4, <2>1, CancelFacts
  <2> QED BY <1>2, <1>3, <1>4, <2>1, <2>2, <2>3 DEF CancelActive
<1> QED BY <1>5, <1>6

-----------------------------------------------------------------------------
(* The program.                                                             *)

\* The result is written when the mission has ended, and not before.
LEMMA FinalizeFacts ==
  ASSUME TypeOK, ~ Done, Finalize, ExecutorTypeOK'
  PROVE  /\ result' \in [state : Terminal \cup {"nav2_server_timeout"}, completed : 0 .. Len(Plan)]
                          \cup {NoResult}
         /\ Done' <=> state' \in Terminal /\ raised' = None
         /\ Done' => result' = [state |-> state', completed |-> goalIndex']
<1>1. CASE state' \in Terminal /\ raised' = None
  <2>1. result' = [state |-> state', completed |-> goalIndex']
    BY <1>1 DEF Finalize
  <2>2. result' # NoResult
    BY <1>1, <2>1 DEF NoResult, None, Terminal
  <2> QED BY <1>1, <2>1, <2>2 DEF Done, ExecutorTypeOK
<1>2. CASE ~ (state' \in Terminal /\ raised' = None)
  BY <1>2 DEF Finalize, Done
<1> QED BY <1>1, <1>2

\* What the invariant is put together from after a step.
LEMMA Assembled ==
  ASSUME ExecutorAgrees', ProgramAgrees', CrashesExplained',
         CancelIsReal',
         runner' \in {"task1", "saved_map"}, started' \in BOOLEAN, timerCancelled' \in BOOLEAN,
         foreign' \in BOOLEAN, phase' \in {"spinning", "interrupted", "shut_down", "exited"},
         result' \in [state : Terminal \cup {"nav2_server_timeout"}, completed : 0 .. Len(Plan)]
                       \cup {NoResult}
  PROVE  Inductive'
BY DEF ExecutorAgrees, Inductive, TypeOK, MissionAgrees

LEMMA InitInductive == Init => Inductive
<1> SUFFICES ASSUME Init
             PROVE  Inductive
  OBVIOUS
<1>1. /\ context \in [Goal -> Context] /\ \A g \in Goal : context[g] = Fresh
      /\ \A g \in Goal : server[g] = "idle" /\ cancelCall[g] = 0 /\ refused[g] = FALSE
      /\ state = "accepted" /\ goalIndex = 0 /\ retryCount = 0 /\ handle = NoGoal
      /\ raised = None /\ phase = "spinning" /\ started = FALSE /\ timerCancelled = FALSE
      /\ result = NoResult /\ foreign = FALSE /\ runner \in {"task1", "saved_map"}
  BY RunnerAssumption DEF Init, ExecutorInit, AdapterInit, Fresh, Context, Phase
<1>2. TypeOK
  <2>1. AdapterTypeOK
    BY <1>1 DEF Init, ExecutorInit, AdapterInit, AdapterTypeOK, ServerState
  <2>2. ExecutorTypeOK
    BY <1>1, <2>1, Constants DEF ExecutorTypeOK, ExecutorState
  <2> QED BY <1>1, <2>2 DEF TypeOK
<1>3. GoalsAgree
  BY <1>1 DEF GoalsAgree, GoalAgrees, Fresh
<1>4. HandleAgrees
  <2>1. \A g \in Goal : ~ Tracked(g)
    BY <1>1 DEF Tracked, Fresh
  <2> QED BY <1>1, <2>1 DEF HandleAgrees, Driving
<1>5. MissionAgrees
  BY <1>1 DEF MissionAgrees, CancelIsReal, GoalsReached
<1>6. ProgramAgrees
  BY <1>1 DEF ProgramAgrees, Done
<1>7. CrashesExplained
  BY <1>1 DEF CrashesExplained, None
<1> QED BY <1>2, <1>3, <1>4, <1>5, <1>6, <1>7 DEF Inductive

\* What a step that the program takes may assume.
LEMMA SpinningFacts ==
  ASSUME Inductive, Spinning
  PROVE  /\ TypeOK /\ GoalsAgree /\ HandleAgrees /\ MissionAgrees /\ ProgramAgrees
         /\ raised = None /\ ~ Done /\ result = NoResult
         /\ phase \in {"spinning", "interrupted"}
         /\ state # "timed_out"
BY DEF Inductive, Spinning, ProgramAgrees, Done

\* A tick starts the mission, or finds it cancelled.
LEMMA TickStartsStep ==
  ASSUME Inductive, TickStarts
  PROVE  Inductive'
<1>1. /\ TypeOK /\ GoalsAgree /\ HandleAgrees /\ MissionAgrees /\ ProgramAgrees
      /\ raised = None /\ ~ Done /\ phase \in {"spinning", "interrupted"}
  BY SpinningFacts DEF TickStarts
<1>2. /\ ~ started /\ started' = TRUE /\ Finalize /\ state \in {"accepted", "cancelled"}
      /\ UNCHANGED <<runner, phase, timerCancelled, foreign>>
  BY <1>1 DEF TickStarts, ProgramAgrees
<1>3. CASE state = "accepted"
  <2>1. DispatchCurrentGoal(context, 0, 0)
    BY <1>3 DEF TickStarts
  <2>2. Ready(context, 0, 0)
    <3>1. context \in [Goal -> Context]
      BY <1>1 DEF TypeOK, ExecutorTypeOK, AdapterTypeOK
    <3>2. \A g \in Goal : GoalAgrees(context, g) /\ context[g] = Fresh
      BY <1>1, <1>3 DEF GoalsAgree, HandleAgrees
    <3>3. \A g \in Goal : context[g].phase \notin {"sent", "accepted"}
      BY <3>2 DEF Fresh
    <3>4. 0 \in 0 .. Len(Plan) - 1 /\ 0 \in 0 .. MaxRetries
      BY Constants
    <3> QED BY <3>1, <3>2, <3>3, <3>4 DEF Ready, GoalsReached
  <2>3. ExecutorAgrees' /\ raised' = None /\ state' \in Driving \cup {"failed"}
    BY <1>1, <1>2, <2>1, <2>2, DispatchAgrees
  <2>4. /\ result' \in [state : Terminal \cup {"nav2_server_timeout"}, completed : 0 .. Len(Plan)]
                         \cup {NoResult}
        /\ Done' <=> state' \in Terminal /\ raised' = None
        /\ Done' => result' = [state |-> state', completed |-> goalIndex']
    BY <1>1, <1>2, <2>3, FinalizeFacts DEF ExecutorAgrees
  <2>5. phase = "spinning"
    BY <1>1, <1>3 DEF ProgramAgrees
  <2>6. ProgramAgrees'
    BY <1>1, <1>2, <2>3, <2>4, <2>5 DEF ProgramAgrees, Driving, Terminal
  <2>7. CrashesExplained'
    BY <2>3 DEF CrashesExplained, None
  <2>8. state' # "cancelled"
    BY <2>3 DEF Driving
  <2> QED BY <1>1, <1>2, <2>3, <2>4, <2>6, <2>7, <2>8, Assembled DEF TypeOK, CancelIsReal
<1>4. CASE state # "accepted"
  <2>1. Raise("begin_compilation") /\ UNCHANGED adapterVars
    BY <1>4 DEF TickStarts
  <2>2. raised' = "begin_compilation" /\ raised' # None /\ UNCHANGED <<state, goalIndex, retryCount, handle>>
    BY <2>1 DEF Raise, None
  <2>3. ExecutorAgrees'
    BY <1>1, <1>2, <2>1, <2>2
       DEF ExecutorAgrees, adapterVars, TypeOK, ExecutorTypeOK, AdapterTypeOK, GoalsAgree,
           GoalAgrees, MissionAgrees, GoalsReached, Method
  <2>4. result' = result
    BY <1>2, <2>2 DEF Finalize
  <2>5. runner = "saved_map" /\ phase = "interrupted"
    BY <1>1, <1>2, <1>4 DEF ProgramAgrees
  <2>6. ProgramAgrees'
    BY <1>1, <1>2, <2>2, <2>4 DEF ProgramAgrees, Done
  <2>7. CrashesExplained'
    BY <1>2, <2>2, <2>5 DEF CrashesExplained, None
  <2> QED BY <1>1, <1>2, <2>2, <2>3, <2>4, <2>6, <2>7, Assembled DEF TypeOK, CancelIsReal
<1> QED BY <1>3, <1>4

\* The cancel timer.
LEMMA TickCancelsStep ==
  ASSUME Inductive, TickCancels
  PROVE  Inductive'
<1>1. /\ TypeOK /\ GoalsAgree /\ HandleAgrees /\ MissionAgrees /\ ProgramAgrees
      /\ raised = None /\ ~ Done /\ result = NoResult /\ phase \in {"spinning", "interrupted"}
      /\ state # "timed_out"
  BY SpinningFacts DEF TickCancels
<1>2. /\ started /\ runner = "task1" /\ timerCancelled' = TRUE /\ Finalize
      /\ UNCHANGED <<runner, phase, started, foreign>>
  BY DEF TickCancels
<1>3. CASE state \in Terminal /\ UNCHANGED <<adapterVars, executorVars>>
  <2>1. ExecutorAgrees' /\ UNCHANGED <<state, goalIndex, retryCount, handle, raised, server>>
    BY <1>1, <1>2, <1>3 DEF ExecutorAgrees, adapterVars, executorVars, TypeOK, ExecutorTypeOK,
         AdapterTypeOK, GoalsAgree, GoalAgrees, MissionAgrees, GoalsReached, HandleAgrees, Tracked
  <2>2. /\ result' \in [state : Terminal \cup {"nav2_server_timeout"}, completed : 0 .. Len(Plan)]
                         \cup {NoResult}
        /\ Done' <=> state' \in Terminal /\ raised' = None
        /\ Done' => result' = [state |-> state', completed |-> goalIndex']
    BY <1>1, <1>2, <2>1, FinalizeFacts DEF ExecutorAgrees
  <2>3. ProgramAgrees'
    BY <1>1, <1>2, <1>3, <2>1, <2>2 DEF ProgramAgrees, Terminal
  <2>4. CrashesExplained'
    BY <1>1, <2>1 DEF CrashesExplained, None
  <2> QED BY <1>1, <1>2, <2>1, <2>2, <2>3, <2>4, Assembled DEF TypeOK, MissionAgrees, CancelIsReal
<1>4. CASE state \notin Terminal /\ RequestCancel
  <2>1. ExecutorAgrees' /\ AfterRequest /\ server' = server
    BY <1>1, <1>2, <1>4, RequestCancelAgrees
  <2>2. /\ result' \in [state : Terminal \cup {"nav2_server_timeout"}, completed : 0 .. Len(Plan)]
                         \cup {NoResult}
        /\ Done' <=> state' \in Terminal /\ raised' = None
        /\ Done' => result' = [state |-> state', completed |-> goalIndex']
    BY <1>1, <1>2, <2>1, FinalizeFacts DEF ExecutorAgrees
  <2>3. state # "accepted"
    BY <1>1, <1>2 DEF ProgramAgrees
  <2>4. ProgramAgrees'
    BY <1>1, <1>2, <2>1, <2>2, <2>3 DEF ProgramAgrees, AfterRequest, Driving, Terminal
  <2>5. CrashesExplained'
    BY <1>2, <2>1, <2>3 DEF CrashesExplained, AfterRequest, None
  <2>6. state' # "cancelled"
    BY <1>4, <2>1, <2>3 DEF AfterRequest, Terminal
  <2> QED BY <1>1, <1>2, <2>1, <2>2, <2>4, <2>5, <2>6, Assembled DEF TypeOK, CancelIsReal
<1> QED BY <1>3, <1>4 DEF TickCancels

\* A step of the program that leaves the executor and the adapter alone.
LEMMA ExecutorStays ==
  ASSUME Inductive, raised = None, UNCHANGED <<adapterVars, executorVars>>, foreign' = foreign
  PROVE  /\ ExecutorAgrees'
         /\ UNCHANGED <<context, server, state, goalIndex, retryCount, handle, raised>>
BY DEF Inductive, ExecutorAgrees, adapterVars, executorVars, TypeOK, ExecutorTypeOK, AdapterTypeOK,
       GoalsAgree, GoalAgrees, MissionAgrees, GoalsReached, HandleAgrees, Tracked

\* Nav2 was not ready in time.
LEMMA TickGivesUpStep ==
  ASSUME Inductive, TickGivesUp
  PROVE  Inductive'
<1>1. /\ TypeOK /\ MissionAgrees /\ ProgramAgrees
      /\ raised = None /\ ~ Done /\ phase \in {"spinning", "interrupted"}
  BY SpinningFacts DEF TickGivesUp
<1>2. /\ ~ started /\ result' = [state |-> "nav2_server_timeout", completed |-> 0]
      /\ UNCHANGED <<runner, phase, started, timerCancelled, foreign>>
  BY DEF TickGivesUp
<1>3. ExecutorAgrees' /\ UNCHANGED <<server, state, goalIndex, retryCount, handle, raised>>
  BY <1>1, ExecutorStays DEF TickGivesUp
<1>4. Done'
  BY <1>2 DEF Done, NoResult, None
<1>5. ProgramAgrees'
  BY <1>1, <1>2, <1>3, <1>4 DEF ProgramAgrees
<1>6. CrashesExplained'
  BY <1>1, <1>3 DEF CrashesExplained, None
<1>7. 0 \in 0 .. Len(Plan)
  BY Constants
<1> QED BY <1>1, <1>2, <1>3, <1>5, <1>6, <1>7, Assembled DEF TypeOK, MissionAgrees, CancelIsReal

\* The goal's deadline.
LEMMA TickDeadlineStep ==
  ASSUME Inductive, TickDeadline
  PROVE  Inductive'
<1>1. /\ TypeOK /\ ProgramAgrees /\ raised = None /\ ~ Done /\ result = NoResult
      /\ phase \in {"spinning", "interrupted"}
  BY SpinningFacts DEF TickDeadline
<1>2. /\ started /\ Finalize /\ DeadlinePasses
      /\ UNCHANGED <<runner, phase, started, timerCancelled, foreign>>
  BY DEF TickDeadline
<1>3. /\ ExecutorAgrees'
      /\ state \in Driving \cup {"cancelling"}
      /\ \/ raised' = None /\ state' = "timed_out"
         \/ /\ raised' = "tick" /\ state' = "failed" /\ state = "cancelling"
            /\ \E g \in Goal : context'[g] = [phase |-> "popped", cancelRequested |-> TRUE]
  BY <1>1, <1>2, DeadlineAgrees
<1>4. /\ result' \in [state : Terminal \cup {"nav2_server_timeout"}, completed : 0 .. Len(Plan)]
                       \cup {NoResult}
      /\ Done' <=> state' \in Terminal /\ raised' = None
      /\ Done' => result' = [state |-> state', completed |-> goalIndex']
  BY <1>1, <1>2, <1>3, FinalizeFacts DEF ExecutorAgrees
<1>5. ProgramAgrees'
  BY <1>1, <1>2, <1>3, <1>4 DEF ProgramAgrees, Driving, Terminal, None
<1>6. CrashesExplained'
  BY <1>3 DEF CrashesExplained, None
<1>7. state' # "cancelled"
  BY <1>3
<1> QED BY <1>1, <1>2, <1>3, <1>4, <1>5, <1>6, <1>7, Assembled DEF TypeOK, CancelIsReal

\* A tick finds the mission ended.
LEMMA TickFinalizesStep ==
  ASSUME Inductive, TickFinalizes
  PROVE  Inductive'
<1>1. /\ TypeOK /\ MissionAgrees /\ ProgramAgrees /\ raised = None /\ ~ Done
      /\ phase \in {"spinning", "interrupted"}
  BY SpinningFacts DEF TickFinalizes
<1>2. /\ started /\ Finalize /\ state \in Terminal
      /\ UNCHANGED <<runner, phase, started, timerCancelled, foreign>>
  BY DEF TickFinalizes
<1>3. ExecutorAgrees' /\ UNCHANGED <<server, state, goalIndex, retryCount, handle, raised>>
  BY <1>1, <1>2, ExecutorStays DEF TickFinalizes
<1>4. /\ result' \in [state : Terminal \cup {"nav2_server_timeout"}, completed : 0 .. Len(Plan)]
                       \cup {NoResult}
      /\ Done' <=> state' \in Terminal /\ raised' = None
      /\ Done' => result' = [state |-> state', completed |-> goalIndex']
  BY <1>1, <1>2, <1>3, FinalizeFacts DEF ExecutorAgrees
<1>5. ProgramAgrees'
  BY <1>1, <1>2, <1>3, <1>4 DEF ProgramAgrees
<1>6. CrashesExplained'
  BY <1>1, <1>3 DEF CrashesExplained, None
<1> QED BY <1>1, <1>2, <1>3, <1>4, <1>5, <1>6, Assembled DEF TypeOK, MissionAgrees, CancelIsReal

\* A callback that ends a goal.
LEMMA SpinOutcomeStep ==
  ASSUME Inductive, NEW g \in Goal, SpinOutcome(g)
  PROVE  Inductive'
<1>1. /\ TypeOK /\ ProgramAgrees /\ raised = None /\ ~ Done /\ Spinning
      /\ phase \in {"spinning", "interrupted"}
  BY SpinningFacts DEF SpinOutcome
<1>2. UNCHANGED <<runner, phase, started, timerCancelled, result, foreign>>
  BY DEF SpinOutcome, runnerVars
<1>3. PICK ctx \in {Pop(context, g)}, outcome \in Outcome :
        Callback(g, ctx, outcome) /\ Outcomes(g, ctx, outcome)
  BY DEF SpinOutcome
<1>4. ExecutorAgrees' /\ AfterOutcome
  BY <1>1, <1>2, <1>3, OutcomesAgree
<1>5. ~ Done'
  BY <1>1, <1>2 DEF Done
<1>6. ProgramAgrees'
  BY <1>1, <1>2, <1>4, <1>5 DEF ProgramAgrees, AfterOutcome, Driving, None
<1>7. CrashesExplained'
  BY <1>2, <1>4 DEF CrashesExplained, AfterOutcome, None
<1>8. CancelIsReal'
  BY <1>4 DEF CancelIsReal, AfterOutcome, Driving, None
<1> QED BY <1>1, <1>2, <1>4, <1>6, <1>7, <1>8, Assembled DEF TypeOK, CancelIsReal

\* Nav2 has accepted a goal: a cancel requested meanwhile is on its way.
LEMMA SpinAcceptedStep ==
  ASSUME Inductive, NEW g \in Goal, SpinAccepted(g)
  PROVE  Inductive'
<1>1. /\ TypeOK /\ GoalsAgree /\ HandleAgrees /\ MissionAgrees /\ ProgramAgrees
      /\ raised = None /\ ~ Done /\ phase \in {"spinning", "interrupted"}
  BY SpinningFacts DEF SpinAccepted
<1>2. /\ UNCHANGED <<runner, phase, started, timerCancelled, result, foreign>>
      /\ UNCHANGED <<state, goalIndex, retryCount, handle, raised>>
      /\ ResponseAccepted(g)
  BY DEF SpinAccepted, runnerVars, executorVars
<1>3. /\ context \in [Goal -> Context] /\ cancelCall \in [Goal -> Nat]
  BY <1>1 DEF TypeOK, ExecutorTypeOK, AdapterTypeOK
<1>4. /\ context' \in [Goal -> Context] /\ context[g].phase = "sent"
      /\ context'[g].phase = "accepted"
      /\ context'[g].cancelRequested = context[g].cancelRequested
      /\ \A h \in Goal : h # g => context'[h] = context[h]
      /\ server[g] \notin {"requested", "rejected"}
  BY <1>2, <1>3 DEF ResponseAccepted, Context, Phase
<1>5. /\ cancelCall' \in [Goal -> Nat]
      /\ context[g].cancelRequested => cancelCall'[g] > 0
      /\ ~ context[g].cancelRequested => cancelCall'[g] = cancelCall[g]
      /\ \A h \in Goal : h # g => cancelCall'[h] = cancelCall[h]
      /\ server' = server /\ refused' = refused
  BY <1>2, <1>3 DEF ResponseAccepted
<1>6. GoalsAgree'
  <2> SUFFICES ASSUME NEW h \in Goal
               PROVE  GoalAgrees(context, h)'
    BY DEF GoalsAgree
  <2>1. GoalAgrees(context, h)
    BY <1>1 DEF GoalsAgree
  <2>2. CASE h = g
    BY <2>1, <2>2, <1>2, <1>4, <1>5 DEF GoalAgrees
  <2>3. CASE h # g
    BY <2>1, <2>3, <1>2, <1>4, <1>5 DEF GoalAgrees
  <2> QED BY <2>2, <2>3
<1>7. HandleAgrees'
  <2>1. \A h \in Goal : /\ Tracked(h)' <=> Tracked(h)
                        /\ context'[h].cancelRequested = context[h].cancelRequested
                        /\ h # g => context'[h] = context[h]
    BY <1>4 DEF Tracked
  <2>2. context[g] # Fresh
    BY <1>4 DEF Fresh
  <2>3. handle # NoGoal => handle \in Goal
    BY <1>1 DEF TypeOK, ExecutorTypeOK
  <2>4. (handle # NoGoal =>
           /\ goalIndex < Len(Plan)
           /\ handle = [goal |-> goalIndex, retry |-> retryCount]
           /\ Tracked(handle)
           /\ context[handle].cancelRequested <=> state = "cancelling")'
    <3> SUFFICES ASSUME handle # NoGoal, NEW h \in Goal, h = handle
                 PROVE  /\ goalIndex < Len(Plan)
                        /\ h = [goal |-> goalIndex, retry |-> retryCount]
                        /\ Tracked(h)'
                        /\ context'[h].cancelRequested <=> state = "cancelling"
      BY <1>2, <2>3 DEF Tracked
    <3> QED BY <1>1, <2>1 DEF HandleAgrees
  <2>5. \A h \in Goal :
          /\ Tracked(h)' => h = handle \/ (state = "timed_out" /\ context'[h].cancelRequested)
          /\ state = "accepted" \/ After(h, goalIndex, retryCount) => context'[h] = Fresh
    BY <1>1, <2>1, <2>2 DEF HandleAgrees
  <2> QED BY <1>1, <1>2, <2>4, <2>5 DEF HandleAgrees, After
<1>8. ExecutorTypeOK'
  BY <1>1, <1>2, <1>4, <1>5 DEF TypeOK, ExecutorTypeOK, AdapterTypeOK
<1>9. ExecutorAgrees'
  BY <1>1, <1>2, <1>5, <1>6, <1>7, <1>8 DEF ExecutorAgrees, MissionAgrees, GoalsReached
<1>10. ProgramAgrees'
  BY <1>1, <1>2 DEF ProgramAgrees, Done
<1>11. CrashesExplained'
  BY <1>1, <1>2 DEF CrashesExplained, None
<1>12. CancelIsReal'
  BY <1>1, <1>2, <1>5 DEF MissionAgrees, CancelIsReal
<1> QED BY <1>1, <1>2, <1>9, <1>10, <1>11, <1>12, Assembled DEF TypeOK, CancelIsReal

\* Ctrl-C.
LEMMA InterruptStep ==
  ASSUME Inductive, Interrupt
  PROVE  Inductive'
<1>1. /\ TypeOK /\ MissionAgrees /\ ProgramAgrees /\ raised = None /\ ~ Done
      /\ result = NoResult /\ state # "timed_out"
  BY SpinningFacts DEF Interrupt
<1>2. /\ phase = "spinning" /\ phase' = "interrupted"
      /\ UNCHANGED <<runner, started, timerCancelled, foreign>>
      /\ runner \in {"task1", "saved_map"}
  BY <1>1 DEF Interrupt, TypeOK
<1>3. CASE state \in Terminal
  <2>1. ExecutorAgrees' /\ UNCHANGED <<server, state, goalIndex, retryCount, handle, raised>>
    BY <1>1, <1>2, <1>3, ExecutorStays DEF Interrupt
  <2>2. result' = result
    BY <1>3 DEF Interrupt
  <2>3. state # "cancelling"
    BY <1>3 DEF Terminal
  <2>4. state \notin Driving \cup {"accepted"}
    BY <1>3 DEF Terminal, Driving
  <2>5. ProgramAgrees'
    BY <1>1, <1>2, <2>1, <2>2, <2>3, <2>4 DEF ProgramAgrees, Done
  <2>6. CrashesExplained'
    BY <1>1, <2>1 DEF CrashesExplained, None
  <2> QED BY <1>1, <1>2, <2>1, <2>2, <2>5, <2>6, Assembled DEF TypeOK, MissionAgrees, CancelIsReal
<1>4. CASE state \notin Terminal /\ RequestCancel
  <2>1. ExecutorAgrees' /\ AfterRequest /\ server' = server
    BY <1>1, <1>2, <1>4, RequestCancelAgrees
  <2>2. \/ runner = "task1" /\ Finalize
        \/ runner = "saved_map" /\ result' = result
    BY <1>2, <1>4 DEF Interrupt
  <2>3. /\ result' \in [state : Terminal \cup {"nav2_server_timeout"}, completed : 0 .. Len(Plan)]
                         \cup {NoResult}
        /\ Done' => raised' = None /\ state' \in Terminal
                     /\ result' = [state |-> state', completed |-> goalIndex']
        /\ ~ Done' /\ state' = "cancelled" /\ raised' = None => runner = "saved_map"
    <3>1. CASE runner = "task1" /\ Finalize
      BY <1>1, <2>1, <3>1, FinalizeFacts DEF ExecutorAgrees, Terminal
    <3>2. CASE runner = "saved_map" /\ result' = result
      BY <1>1, <3>2 DEF Done, TypeOK
    <3> QED BY <2>2, <3>1, <3>2
  <2>4. ProgramAgrees'
    BY <1>1, <1>2, <2>1, <2>3 DEF ProgramAgrees, AfterRequest, Driving, Terminal, None
  <2>5. CrashesExplained'
    BY <1>1, <1>2, <2>1 DEF CrashesExplained, AfterRequest, ProgramAgrees, None
  <2>6. state' = "cancelled" /\ raised' = None => ~ started
    BY <1>1, <1>4, <2>1 DEF AfterRequest, ProgramAgrees, Terminal, None
  <2> QED BY <1>1, <1>2, <2>1, <2>3, <2>4, <2>5, <2>6, Assembled DEF TypeOK, CancelIsReal
<1> QED BY <1>3, <1>4 DEF Interrupt

\* The program leaves its loop without a result.
LEMMA LeavesStep ==
  ASSUME Inductive, StopWaiting \/ ShutDown
  PROVE  Inductive'
<1>1. /\ TypeOK /\ MissionAgrees /\ ProgramAgrees /\ raised = None /\ ~ Done
  BY SpinningFacts DEF StopWaiting, ShutDown
<1>2. /\ UNCHANGED <<runner, started, timerCancelled, result, foreign>>
      /\ \/ phase = "interrupted" /\ phase' = "exited"
         \/ phase' = "shut_down"
  BY DEF StopWaiting, ShutDown
<1>3. ExecutorAgrees' /\ UNCHANGED <<server, state, goalIndex, retryCount, handle, raised>>
  BY <1>1, <1>2, ExecutorStays DEF StopWaiting, ShutDown
<1>4. ProgramAgrees'
  BY <1>1, <1>2, <1>3 DEF ProgramAgrees, Done
<1>5. CrashesExplained'
  BY <1>1, <1>3 DEF CrashesExplained, None
<1> QED BY <1>1, <1>2, <1>3, <1>4, <1>5, Assembled DEF TypeOK, MissionAgrees, CancelIsReal

\* Nav2 goes on: what the program believes of it stays true.
LEMMA ServerAgrees ==
  ASSUME Inductive, UNCHANGED <<context, executorVars, runner, phase, started, timerCancelled, result>>,
         AdapterTypeOK', foreign' \in BOOLEAN, foreign => foreign', GoalsAgree',
         \A g \in Goal : server[g] \in Ended => server'[g] = server[g]
  PROVE  Inductive'
<1>1. TypeOK'
  BY DEF Inductive, TypeOK, ExecutorTypeOK, executorVars
<1>2. (raised = None => HandleAgrees)'
  BY DEF Inductive, HandleAgrees, Tracked, executorVars
<1>3. MissionAgrees'
  <2>1. GoalsReached(goalIndex)'
    BY DEF Inductive, MissionAgrees, GoalsReached, executorVars, Ended
  <2>2. CancelIsReal'
    <3>1. /\ goalIndex \in Nat /\ retryCount \in 0 .. MaxRetries
          /\ UNCHANGED <<state, goalIndex, retryCount, handle, raised, started>>
      BY DEF Inductive, TypeOK, ExecutorTypeOK, executorVars
    <3>2. goalIndex < Len(Plan) => [goal |-> goalIndex, retry |-> retryCount] \in Goal
      BY <3>1, Constants
    <3> QED BY <3>1, <3>2 DEF Inductive, MissionAgrees, CancelIsReal, Ended
  <2> QED BY <2>1, <2>2 DEF Inductive, MissionAgrees, executorVars
<1>4. ProgramAgrees'
  BY DEF Inductive, ProgramAgrees, Done, executorVars
<1>5. CrashesExplained'
  BY DEF Inductive, CrashesExplained, executorVars, None
<1> QED BY <1>1, <1>2, <1>3, <1>4, <1>5 DEF Inductive

LEMMA ServerStepStep ==
  ASSUME Inductive, ServerStep
  PROVE  Inductive'
<1>1. PICK g \in Goal : ServerAnswers(g) \/ ServerFinishes(g) \/ ServerCancels(g)
  BY DEF ServerStep, Server
<1>2. /\ UNCHANGED <<runner, phase, started, timerCancelled, result, foreign>>
      /\ executorVars' = executorVars
  BY DEF ServerStep, runnerVars
<1>3. /\ AdapterTypeOK /\ GoalsAgree /\ foreign \in BOOLEAN
  BY DEF Inductive, TypeOK, ExecutorTypeOK
<1>4. GoalAgrees(context, g) /\ server[g] \in ServerState /\ cancelCall[g] \in Nat
  BY <1>3 DEF GoalsAgree, AdapterTypeOK
<1>5. /\ context' = context
      /\ AdapterTypeOK'
      /\ \A h \in Goal : h # g => /\ server'[h] = server[h] /\ cancelCall'[h] = cancelCall[h]
                                  /\ refused'[h] = refused[h]
      /\ server[g] \in Ended => server'[g] = server[g]
      /\ GoalAgrees(context, g)'
  <2>1. CASE ServerAnswers(g)
    BY <1>3, <1>4, <2>1 DEF ServerAnswers, AdapterTypeOK, GoalAgrees, ServerState, Live, Ended
  <2>2. CASE ServerFinishes(g)
    <3>1. PICK s \in Ended : /\ server' = [server EXCEPT ![g] = s]
                             /\ s = "canceled" => server[g] = "canceling"
      BY <2>2 DEF ServerFinishes, Ended
    <3>2. UNCHANGED <<context, cancelCall, refused>> /\ server[g] \notin Ended
      BY <2>2 DEF ServerFinishes, Ended
    <3>3. AdapterTypeOK' /\ server'[g] = s /\ \A h \in Goal : h # g => server'[h] = server[h]
      BY <1>3, <3>1, <3>2 DEF AdapterTypeOK, ServerState
    <3>4. GoalAgrees(context, g)'
      BY <1>2, <1>4, <3>1, <3>2, <3>3 DEF GoalAgrees, Ended
    <3> QED BY <3>2, <3>3, <3>4
  <2>3. CASE ServerCancels(g)
    <3>1. /\ cancelCall[g] > 0 /\ cancelCall' = [cancelCall EXCEPT ![g] = cancelCall[g] - 1]
          /\ context' = context /\ context[g].cancelRequested
      BY <1>4, <2>3 DEF ServerCancels, GoalAgrees
    <3>2. cancelCall' \in [Goal -> Nat] /\ \A h \in Goal : h # g => cancelCall'[h] = cancelCall[h]
      BY <1>3, <1>4, <3>1 DEF AdapterTypeOK
    <3>3. CASE /\ server[g] = "executing" /\ server' = [server EXCEPT ![g] = "canceling"]
               /\ refused' = refused
      BY <1>2, <1>3, <1>4, <3>1, <3>2, <3>3 DEF AdapterTypeOK, GoalAgrees, ServerState, Live, Ended
    <3>4. CASE refused' = [refused EXCEPT ![g] = TRUE] /\ server' = server
      BY <1>2, <1>3, <1>4, <3>1, <3>2, <3>4 DEF AdapterTypeOK, GoalAgrees
    <3> QED BY <2>3, <3>3, <3>4 DEF ServerCancels
  <2> QED BY <1>1, <2>1, <2>2, <2>3
<1>6. GoalsAgree'
  <2> SUFFICES ASSUME NEW h \in Goal, h # g
               PROVE  GoalAgrees(context, h)'
    BY <1>5 DEF GoalsAgree
  <2> QED BY <1>2, <1>3, <1>5 DEF GoalsAgree, GoalAgrees
<1> QED BY <1>2, <1>3, <1>5, <1>6, ServerAgrees

\* Another client cancels a goal in Nav2.
LEMMA ForeignCancelsStep ==
  ASSUME Inductive, NEW g \in Goal, ForeignCancels(g)
  PROVE  Inductive'
<1>1. /\ UNCHANGED <<context, cancelCall, refused, runner, phase, started, timerCancelled, result>>
      /\ executorVars' = executorVars
      /\ foreign' = TRUE /\ server[g] = "executing"
      /\ server' = [server EXCEPT ![g] = "canceling"]
  BY DEF ForeignCancels
<1>2. /\ AdapterTypeOK /\ GoalsAgree
  BY DEF Inductive, TypeOK, ExecutorTypeOK
<1>3. /\ AdapterTypeOK' /\ server'[g] = "canceling"
      /\ \A h \in Goal : h # g => server'[h] = server[h]
  BY <1>1, <1>2 DEF AdapterTypeOK, ServerState, Live
<1>4. GoalsAgree'
  BY <1>1, <1>2, <1>3 DEF GoalsAgree, GoalAgrees
<1>5. \A h \in Goal : server[h] \in Ended => server'[h] = server[h]
  BY <1>1, <1>3 DEF Ended
<1> QED BY <1>1, <1>3, <1>4, <1>5, ServerAgrees

\* Nothing changes.
LEMMA StutterStep ==
  ASSUME Inductive, UNCHANGED vars
  PROVE  Inductive'
<1>1. /\ UNCHANGED <<context, server, cancelCall, refused>> /\ executorVars' = executorVars
      /\ UNCHANGED <<runner, phase, started, timerCancelled, result, foreign>>
  BY DEF vars, adapterVars, runnerVars
<1>2. /\ AdapterTypeOK /\ GoalsAgree /\ foreign \in BOOLEAN
  BY DEF Inductive, TypeOK, ExecutorTypeOK
<1>3. AdapterTypeOK' /\ GoalsAgree'
  BY <1>1, <1>2 DEF AdapterTypeOK, GoalsAgree, GoalAgrees
<1> QED BY <1>1, <1>2, <1>3, ServerAgrees

-----------------------------------------------------------------------------
(* The theorems.                                                            *)

LEMMA InvariantHolds == Spec => []Inductive
<1>1. Init => Inductive
  BY InitInductive
<1>2. Inductive /\ [Next]_vars => Inductive'
  <2> SUFFICES ASSUME Inductive, [Next]_vars
               PROVE  Inductive'
    OBVIOUS
  <2>1. CASE Tick
    BY <2>1, TickStartsStep, TickCancelsStep, TickFinalizesStep DEF Tick
  <2>2. CASE TickGivesUp
    BY <2>2, TickGivesUpStep
  <2>3. CASE TickDeadline
    BY <2>3, TickDeadlineStep
  <2>4. CASE Spin
    BY <2>4, SpinOutcomeStep, SpinAcceptedStep DEF Spin
  <2>5. CASE Interrupt
    BY <2>5, InterruptStep
  <2>6. CASE StopWaiting \/ ShutDown
    BY <2>6, LeavesStep
  <2>7. CASE ServerStep
    BY <2>7, ServerStepStep
  <2>8. CASE \E g \in Goal : ForeignCancels(g)
    BY <2>8, ForeignCancelsStep
  <2>9. CASE Returned \/ UNCHANGED vars
    BY <2>9, StutterStep DEF Returned
  <2> QED BY <2>1, <2>2, <2>3, <2>4, <2>5, <2>6, <2>7, <2>8, <2>9 DEF Next
<1> QED BY <1>1, <1>2, PTL DEF Spec

\* Type correctness: every variable keeps its type, so that goal index and retry
\* count stay within the plan and the retries allowed.
THEOREM TypeCorrect == Spec => []TypeOK
<1>1. Inductive => TypeOK
  BY DEF Inductive
<1> QED BY <1>1, InvariantHolds, PTL

\* The executor and the adapter agree on the goal under way, through retries
\* dispatched from inside the failure callback and through cancellations: no
\* result of an earlier attempt can arrive.
THEOREM HandleStaysTracked == Spec => []HandleIsTracked
<1>1. Inductive => HandleIsTracked
  <2> SUFFICES ASSUME Inductive, raised = None
               PROVE  /\ handle # NoGoal <=> state \in Driving \cup {"cancelling"}
                      /\ handle # NoGoal =>
                           /\ handle = [goal |-> goalIndex, retry |-> retryCount]
                           /\ {g \in Goal : Tracked(g)} = {handle}
                           /\ context[handle].cancelRequested <=> state = "cancelling"
    BY DEF HandleIsTracked
  <2>1. HandleAgrees /\ handle \in Goal \cup {NoGoal}
    BY DEF Inductive, TypeOK, ExecutorTypeOK
  <2>2. handle # NoGoal => state # "timed_out"
    BY <2>1 DEF HandleAgrees, Driving
  <2> QED BY <2>1, <2>2 DEF HandleAgrees
<1> QED BY <1>1, InvariantHolds, PTL

\* What the mission's result says was reached and canceled happened in Nav2.
THEOREM ResultStaysReal == Spec => []ResultIsReal
<1>1. Inductive => ResultIsReal
  <2> SUFFICES ASSUME Inductive
               PROVE  ResultIsReal
    OBVIOUS
  <2>1. Done /\ result.state \in Terminal => result = [state |-> state, completed |-> goalIndex]
    BY DEF Inductive, ProgramAgrees, Terminal
  <2> QED BY <2>1 DEF Inductive, ResultIsReal, MissionAgrees, CancelIsReal, GoalsReached
<1> QED BY <1>1, InvariantHolds, PTL

\* The program crashes in the four situations named, and in no other.
THEOREM EveryCrashIsExplained == Spec => []CrashesExplained
<1>1. Inductive => CrashesExplained
  BY DEF Inductive
<1> QED BY <1>1, InvariantHolds, PTL

\* A program that leaves by itself has asked for the cancellation of the goal
\* that it still waits for, and Nav2 has the request if it had the goal.
THEOREM NoGoalIsLeftUntold == Spec => []LeavesNoGoalUntold
<1>1. Inductive => LeavesNoGoalUntold
  <2> SUFFICES ASSUME Inductive, Done \/ phase = "exited", NEW g \in Goal, Tracked(g)
               PROVE  /\ context[g].cancelRequested
                      /\ context[g].phase = "accepted" =>
                           server[g] # "executing" \/ cancelCall[g] > 0 \/ refused[g]
    BY DEF LeavesNoGoalUntold
  <2>1. raised = None
    BY DEF Inductive, ProgramAgrees
  <2>2. HandleAgrees /\ GoalAgrees(context, g)
    BY <2>1 DEF Inductive, GoalsAgree
  <2>3. state \notin Driving
    BY <2>1 DEF Inductive, ProgramAgrees, Terminal, Driving
  <2>4. context[g].cancelRequested
    <3>1. CASE g = handle
      BY <2>2, <2>3, <3>1, Constants DEF HandleAgrees
    <3>2. CASE state = "timed_out" /\ context[g].cancelRequested
      BY <3>2
    <3> QED BY <2>2, <3>1, <3>2 DEF HandleAgrees
  <2> QED BY <2>2, <2>4 DEF GoalAgrees
<1> QED BY <1>1, InvariantHolds, PTL
=============================================================================
