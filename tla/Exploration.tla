----------------------------- MODULE Exploration -----------------------------
(***************************************************************************)
(* omokai_exploration: ExplorationSession and the ExplorationCoordinator    *)
(* that feeds it maps, ticks, cancel requests and the callbacks of a Nav2   *)
(* adapter, all on one thread.                                              *)
(*                                                                          *)
(* A place is a cell that may become a navigation goal, with its map        *)
(* coordinates; FrontierSelection models how one is chosen on a map.  Here  *)
(* a map offers any of the places that are not too near to a point of the   *)
(* visited or the blacklisted ones.  Goals are numbered in the order of     *)
(* their dispatch, as the adapter's tokens are.                             *)
(*                                                                          *)
(* The mission's deadline is a flag that goes up once; the deadlines of a   *)
(* map, a goal and a cancellation, which each begin anew, may have passed   *)
(* at any tick.  A method that raises leaves its name in "raised".          *)
(***************************************************************************)
EXTENDS Nav2Adapter, Sequences

CONSTANTS
  Place,            \* possible navigation goals
  NearBlacklisted,  \* pairs <<a, b>>: a is within blacklist_radius_m of b
  NearVisited,      \* pairs <<a, b>>: a is within visited_radius_m of b
  MaxGoals,         \* bound on dispatches
  Confirmations,    \* completion_confirmations
  MaxFailed,        \* max_failed_goals
  MaxCompleted,     \* max_completed_goals, 0 for None
  ForeignCancel     \* another client may cancel the goal in Nav2

ASSUME GoalNumbers == MaxGoals \in Nat /\ Goal = 1 .. MaxGoals

\* hypot(0, 0) <= radius: a place is near itself.
ASSUME NearItself == \A p \in Place : <<p, p>> \in NearBlacklisted \cap NearVisited

ASSUME LimitsAssumption ==
  /\ Confirmations \in Nat \ {0}
  /\ MaxFailed \in Nat \ {0}
  /\ MaxCompleted \in Nat
  /\ ForeignCancel \in BOOLEAN

None == "none"

NoGoal == 0

VARIABLES
  state,           \* ExplorationState
  cause,           \* _cancel_cause
  handle,          \* _active_handle
  trips,           \* _active_candidate of each goal dispatched so far
  blacklist,       \* _blacklist
  visited,         \* _visited
  completed,       \* _completed_goals
  failed,          \* _failed_goals
  confirmations,   \* _completion_count
  missionExpired,  \* the mission deadline has passed
  raised           \* the method that raised, or None

booksVars == <<blacklist, visited, completed, failed>>

sessionVars == <<state, cause, handle, trips, booksVars, confirmations, missionExpired, raised>>

VARIABLES
  phase,     \* where main() is
  started,   \* _started
  newMap,    \* _map_version > _processed_map_version
  answer,    \* what the operator's last cancel request was answered
  result,    \* the state written by _finalize
  foreign    \* another client has cancelled a goal

coordinatorVars == <<phase, started, newMap, answer, result, foreign>>

vars == <<adapterVars, sessionVars, coordinatorVars>>

Terminal == {"completed", "cancelled", "timed_out", "failed"}

State == {"created", "waiting_for_map", "navigating", "cancelling"} \cup Terminal

TypeOK ==
  /\ AdapterTypeOK
  /\ state \in State
  /\ cause \in {None, "operator", "goal_timeout", "mission_timeout"}
  /\ handle \in Goal \cup {NoGoal}
  /\ trips \in Seq(Place) /\ Len(trips) <= MaxGoals
  /\ blacklist \subseteq Place /\ visited \subseteq Place
  /\ completed \in Nat /\ failed \in Nat /\ confirmations \in Nat
  /\ missionExpired \in BOOLEAN
  /\ raised \in {None, "start", "navigation_succeeded", "navigation_failed",
                 "cancellation_confirmed", "cancellation_failed"}
  /\ phase \in {"spinning", "interrupted", "exited", "shut_down"}
  /\ started \in BOOLEAN /\ newMap \in BOOLEAN /\ foreign \in BOOLEAN
  /\ answer \in {None, "accepted", "refused"}
  /\ result \in Terminal \cup {None, "no_result"}

Init ==
  /\ AdapterInit
  /\ state = "created" /\ cause = None /\ handle = NoGoal /\ trips = <<>>
  /\ blacklist = {} /\ visited = {} /\ completed = 0 /\ failed = 0
  /\ confirmations = 0 /\ missionExpired = FALSE /\ raised = None
  /\ phase = "spinning" /\ started = FALSE /\ newMap = FALSE
  /\ answer = None /\ result = None /\ foreign = FALSE

Done == result # None

Spinning == phase \in {"spinning", "interrupted"} /\ raised = None /\ ~ Done

-----------------------------------------------------------------------------
(* ExplorationSession.                                                      *)

\* _clear_active_goal and the transition to the next state.
Leave(next) ==
  /\ state' = next
  /\ cause' = None
  /\ handle' = NoGoal
  /\ UNCHANGED <<trips, raised>>

Raise(method) ==
  /\ raised' = method
  /\ UNCHANGED <<state, cause, handle, trips, booksVars>>

CallbackOnly(ctx) == context' = ctx /\ UNCHANGED <<server, cancelCall, refused>>

NavigationSucceeded(g, ctx) ==
  /\ CallbackOnly(ctx)
  /\ IF ~ (state = "navigating" /\ handle = g) THEN Raise("navigation_succeeded")
     ELSE /\ visited' = visited \cup {trips[g]}
          /\ completed' = completed + 1
          /\ UNCHANGED <<blacklist, failed>>
          /\ Leave(IF MaxCompleted # 0 /\ completed' >= MaxCompleted
                     THEN "completed" ELSE "waiting_for_map")

\* _record_active_failure and what its two callers do next.
RecordActiveFailure ==
  /\ blacklist' = blacklist \cup {trips[handle]}
  /\ failed' = failed + 1
  /\ UNCHANGED <<visited, completed>>
  /\ Leave(IF failed' >= MaxFailed THEN "failed" ELSE "waiting_for_map")

NavigationFailed(g, ctx) ==
  /\ CallbackOnly(ctx)
  /\ IF state = "navigating" /\ handle = g THEN RecordActiveFailure
     ELSE Raise("navigation_failed")

\* Mutant: the place is booked as visited when its cancellation is confirmed.
CancellationConfirmedVisits(g, ctx) ==
  /\ CallbackOnly(ctx)
  /\ visited' = visited \cup {trips[g]}
  /\ completed' = completed + 1
  /\ UNCHANGED <<blacklist, failed>>
  /\ Leave(IF cause = "goal_timeout" THEN "waiting_for_map" ELSE "cancelled")

\* After a goal's timeout exploration goes on.
CancellationConfirmed(g, ctx) ==
  /\ CallbackOnly(ctx)
  /\ IF ~ (state = "cancelling" /\ handle = g) THEN Raise("cancellation_confirmed")
     ELSE IF cause = "goal_timeout" THEN RecordActiveFailure
     ELSE /\ Leave(IF cause = "mission_timeout" THEN "timed_out" ELSE "cancelled")
          /\ UNCHANGED booksVars

CancellationFailed(g, ctx) ==
  /\ CallbackOnly(ctx)
  /\ IF state = "cancelling" /\ handle = g THEN Leave("failed") /\ UNCHANGED booksVars
     ELSE Raise("cancellation_failed")

Outcomes(g, ctx, outcome) ==
  \/ outcome = "navigation_succeeded" /\ NavigationSucceeded(g, ctx)
  \/ outcome \in {"navigation_failed", "goal_rejected"} /\ NavigationFailed(g, ctx)
  \/ outcome = "cancellation_confirmed" /\ CancellationConfirmed(g, ctx)
  \/ outcome = "cancellation_failed" /\ CancellationFailed(g, ctx)

\* _begin_cancellation.  A request that cannot be sent, or a goal the adapter
\* does not know, fails the session before this returns.
BeginCancellation(why) ==
  \E X \in {{}} \cup (IF SendMayFail(context, handle) THEN {{handle}} ELSE {}) :
    /\ Cancel(context, {handle}, X)
    /\ UNCHANGED <<server, refused, booksVars>>
    /\ IF X = {} /\ Tracked(handle)
         THEN /\ state' = "cancelling"
              /\ cause' = why
              /\ UNCHANGED <<handle, trips, raised>>
         ELSE Leave("failed")

\* Mutant: an operator may also cancel what a timeout is cancelling, but the
\* session remembers only why it began.
RequestCancelWhileCancelling ==
  \/ /\ state \in Terminal
     /\ answer' = "refused"
     /\ UNCHANGED <<adapterVars, state, cause, handle, trips, raised, booksVars>>
  \/ /\ state = "cancelling"
     /\ answer' = "accepted"
     /\ UNCHANGED <<adapterVars, state, cause, handle, trips, raised, booksVars>>
  \/ /\ state \in {"created", "waiting_for_map"}
     /\ answer' = "accepted"
     /\ Leave("cancelled")
     /\ UNCHANGED <<adapterVars, booksVars>>
  \/ /\ state = "navigating"
     /\ answer' = "accepted"
     /\ BeginCancellation("operator")

\* request_cancel, with the answer it returns.
RequestCancel ==
  \/ /\ state \in Terminal \cup {"cancelling"}
     /\ answer' = "refused"
     /\ UNCHANGED <<adapterVars, state, cause, handle, trips, raised, booksVars>>
  \/ /\ state \in {"created", "waiting_for_map"}
     /\ answer' = "accepted"
     /\ Leave("cancelled")
     /\ UNCHANGED <<adapterVars, booksVars>>
  \/ /\ state = "navigating"
     /\ answer' = "accepted"
     /\ BeginCancellation("operator")

\* Mutant: what was visited may be chosen again.
CandidatesNotBlacklisted ==
  {p \in Place : \A b \in blacklist : <<p, b>> \notin NearBlacklisted}

\* The places rank_frontiers may choose on some map.
Candidates ==
  {p \in Place : /\ \A b \in blacklist : <<p, b>> \notin NearBlacklisted
                 /\ \A v \in visited : <<p, v>> \notin NearVisited}

\* A map without candidates; the last of several in a row completes.
ObserveNothing ==
  /\ confirmations' = confirmations + 1
  /\ IF confirmations' >= Confirmations THEN Leave("completed")
     ELSE UNCHANGED <<state, cause, handle, trips, raised>>
  /\ UNCHANGED <<adapterVars, booksVars>>

ObserveFrontier(p) ==
  /\ confirmations' = 0
  /\ UNCHANGED booksVars
  /\ \/ /\ Len(trips) < MaxGoals
        /\ Dispatch(Len(trips) + 1)
        /\ trips' = Append(trips, p)
        /\ handle' = Len(trips) + 1
        /\ state' = "navigating"
        /\ UNCHANGED <<cause, raised>>
     \/ /\ "dispatch" \in Faults
        /\ Leave("failed")
        /\ UNCHANGED adapterVars

ObserveMap ==
  IF missionExpired
    THEN Leave("timed_out") /\ UNCHANGED <<adapterVars, booksVars, confirmations>>
    ELSE ObserveNothing \/ \E p \in Candidates : ObserveFrontier(p)

\* Mutant: at the mission's deadline Nav2 keeps its goal.
MissionTimesOutSilently ==
  /\ missionExpired
  /\ state \in {"waiting_for_map", "navigating"}
  /\ Leave("timed_out")
  /\ UNCHANGED <<adapterVars, booksVars>>

\* tick(): the mission's deadline comes first.
MissionTimesOut ==
  /\ missionExpired
  /\ \/ /\ state = "navigating"
        /\ BeginCancellation("mission_timeout")
     \/ /\ state = "cancelling" /\ cause # "mission_timeout"
        /\ cause' = "mission_timeout"
        /\ UNCHANGED <<adapterVars, state, handle, trips, raised, booksVars>>
     \/ /\ state = "waiting_for_map"
        /\ Leave("timed_out")
        /\ UNCHANGED <<adapterVars, booksVars>>

GoalTimesOut ==
  /\ ~ missionExpired
  /\ state = "navigating"
  /\ BeginCancellation("goal_timeout")

MapTimesOut ==
  /\ ~ missionExpired
  /\ state = "waiting_for_map"
  /\ Leave("failed")
  /\ UNCHANGED <<adapterVars, booksVars>>

\* Mutant: only the operator's cancellations have a deadline.
CancelTimesOutOperator ==
  /\ state = "cancelling" /\ cause = "operator"
  /\ Leave("failed")
  /\ UNCHANGED <<adapterVars, booksVars>>

CancelTimesOut ==
  /\ state = "cancelling"
  /\ Leave("failed")
  /\ UNCHANGED <<adapterVars, booksVars>>

-----------------------------------------------------------------------------
(* ExplorationCoordinator and main().                                       *)

\* The end of _tick: a terminal session is finalized and its result written.
Finalize == result' = IF state' \in Terminal /\ raised' = None THEN state' ELSE result

\* Nav2 is ready.  A session cancelled before this cannot be started.
TickStarts ==
  /\ Spinning /\ ~ started
  /\ started' = TRUE
  /\ IF state = "created"
       THEN Leave("waiting_for_map") /\ UNCHANGED booksVars
       ELSE Raise("start")
  /\ UNCHANGED <<adapterVars, confirmations, missionExpired, phase, newMap, answer, result, foreign>>

\* Nav2 did not become ready: the program ends without a result.
TickGivesUp ==
  /\ Spinning /\ ~ started
  /\ result' = "no_result"
  /\ UNCHANGED <<adapterVars, sessionVars, phase, started, newMap, answer, foreign>>

TickObserves ==
  /\ Spinning /\ started
  /\ state = "waiting_for_map" /\ newMap
  /\ newMap' = FALSE
  /\ ObserveMap
  /\ Finalize
  /\ UNCHANGED <<missionExpired, phase, started, answer, foreign>>

TickTimesOut ==
  /\ Spinning /\ started
  /\ MissionTimesOut \/ GoalTimesOut \/ MapTimesOut \/ CancelTimesOut
  /\ Finalize
  /\ UNCHANGED <<confirmations, missionExpired, phase, started, newMap, answer, foreign>>

TickFinalizes ==
  /\ Spinning /\ started
  /\ state \in Terminal
  /\ UNCHANGED <<adapterVars, sessionVars, phase, started, newMap, answer, foreign>>
  /\ Finalize

SpinOutcome(g) ==
  /\ Spinning
  /\ \E ctx \in {Pop(context, g)}, outcome \in Outcome :
       Callback(g, ctx, outcome) /\ Outcomes(g, ctx, outcome)
  /\ UNCHANGED <<confirmations, missionExpired, coordinatorVars>>

SpinAccepted(g) ==
  /\ Spinning
  /\ ResponseAccepted(g)
  /\ UNCHANGED <<sessionVars, coordinatorVars>>

\* _on_map.
SpinMap ==
  /\ Spinning /\ ~ newMap
  /\ newMap' = TRUE
  /\ UNCHANGED <<adapterVars, sessionVars, phase, started, answer, result, foreign>>

\* _on_cancel: the operator calls the service.
SpinCancelService ==
  /\ Spinning
  /\ RequestCancel
  /\ UNCHANGED <<confirmations, missionExpired, phase, started, newMap, result, foreign>>

\* Ctrl-C.
Interrupt ==
  /\ Spinning /\ phase = "spinning"
  /\ phase' = "interrupted"
  /\ RequestCancel
  /\ UNCHANGED <<confirmations, missionExpired, started, newMap, result, foreign>>

\* The second loop's time is over.
StopWaiting ==
  /\ Spinning /\ phase = "interrupted"
  /\ phase' = "exited"
  /\ UNCHANGED <<adapterVars, sessionVars, started, newMap, answer, result, foreign>>

\* rclpy is shut down by a signal other than Ctrl-C: either loop ends, and no
\* one asks the session to cancel.
ShutDown ==
  /\ Spinning
  /\ phase' = "shut_down"
  /\ UNCHANGED <<adapterVars, sessionVars, started, newMap, answer, result, foreign>>

\* Time: the mission's deadline passes.
MissionExpires ==
  /\ Spinning /\ started /\ ~ missionExpired
  /\ missionExpired' = TRUE
  /\ UNCHANGED <<adapterVars, state, cause, handle, trips, booksVars, confirmations,
                 raised, coordinatorVars>>

\* Nav2 moves while the program runs; what it does later is of no interest.
ServerStep ==
  /\ Spinning
  /\ Server
  /\ UNCHANGED <<sessionVars, coordinatorVars>>

ForeignCancels(g) ==
  /\ Spinning /\ ForeignCancel
  /\ server[g] = "executing"
  /\ server' = [server EXCEPT ![g] = "canceling"]
  /\ foreign' = TRUE
  /\ UNCHANGED <<context, cancelCall, refused, sessionVars, phase, started, newMap,
                 answer, result>>

Returned == ~ Spinning /\ UNCHANGED vars

Tick == TickStarts \/ TickFinalizes \/ TickTimesOut

Spin == SpinMap \/ SpinCancelService \/ \E g \in Goal : SpinOutcome(g) \/ SpinAccepted(g)

Next ==
  \/ Tick \/ TickGivesUp \/ TickObserves
  \/ Spin
  \/ Interrupt \/ StopWaiting \/ ShutDown
  \/ MissionExpires
  \/ ServerStep \/ \E g \in Goal : ForeignCancels(g)
  \/ Returned

Spec == Init /\ [][Next]_vars

(***************************************************************************)
(* Fairness: the timer keeps firing, the mission's deadline passes, and so  *)
(* do the others, as each state has one.  Nothing makes a map, Nav2 or the  *)
(* operator do anything.                                                    *)
(***************************************************************************)
TimedSpec ==
  /\ Spec
  /\ WF_vars(Tick)
  /\ WF_vars(MissionExpires)

-----------------------------------------------------------------------------
(* Properties.                                                              *)

\* The robot is never sent to a place it was sent to before, nor near a place it
\* had reached, or had failed to reach, by then: whatever maps arrive,
\* exploration makes progress.
NoPlaceTwice ==
  \A i, j \in DOMAIN trips : i < j =>
    /\ trips[i] # trips[j]
    /\ trips[i] \in visited => <<trips[j], trips[i]>> \notin NearVisited
    /\ trips[i] \in blacklist => <<trips[j], trips[i]>> \notin NearBlacklisted

\* What the session books happened in Nav2: every goal it no longer drives is
\* visited, blacklisted, or the last one; a visited place had its goal succeed;
\* the counters are the numbers of places; and while it drives, the adapter
\* tracks its goal and no other.
BooksAreReal ==
  /\ {trips[i] : i \in 1 .. Len(trips) - 1} \subseteq visited \cup blacklist
  /\ visited \cap blacklist = {}
  /\ completed = Cardinality(visited) /\ failed = Cardinality(blacklist)
  /\ \A g \in DOMAIN trips : trips[g] \in visited => server[g] = "succeeded"
  /\ state = "navigating" /\ raised = None => {g \in Goal : Tracked(g)} = {handle}

\* An operator whose cancel was accepted sees no further goal dispatched, and
\* exploration neither completes nor goes on.
CancelHonoured ==
  [][answer = "accepted" => trips' = trips /\ (state \notin Terminal => state' # "completed")]_vars

\* How the program ends.  It raises only in start(), after a cancel that came
\* before Nav2 was ready, or for a goal that another client canceled; and it
\* leaves a goal it was waiting for untold only after a Ctrl-C that was refused,
\* which happens while a goal's timeout is being cancelled, or when rclpy was
\* shut down under it before a cancel was accepted.
EndIsExplained ==
  /\ CASE raised = None -> TRUE
       [] raised = "start" -> answer # None /\ state = "cancelled"
       [] raised = "cancellation_confirmed" -> foreign /\ state = "navigating"
       [] OTHER -> FALSE
  /\ Done \/ phase \in {"exited", "shut_down"} =>
       \A g \in Goal : Tracked(g) =>
         \/ context[g].cancelRequested
         \/ phase = "exited" /\ answer = "refused"
         \/ phase = "shut_down" /\ answer # "accepted"

\* Exploration comes to an end, whatever maps, Nav2 and operator do.
Terminates == <>~ Spinning
=============================================================================
