---------------------------- MODULE MissionRunner ----------------------------
(***************************************************************************)
(* The two programs that drive a MissionExecutor on one thread:             *)
(* Task1MissionRunner and SavedMapVerificationRunner.  A spin of the node   *)
(* runs one callback: the timer's _tick, or one of the adapter's.  The      *)
(* mission's end is noticed by _tick (and by the request_cancel of the      *)
(* Task 1 runner), which writes the result; the program leaves its loop     *)
(* right after.  Ctrl-C is taken between two callbacks.                     *)
(***************************************************************************)
EXTENDS MissionExecutor

CONSTANTS
  Runners,        \* which of the two programs
  CancelTimer,    \* --cancel-after-sec is given (Task 1 only)
  ForeignCancel   \* another client may cancel the goal in Nav2

ASSUME RunnerAssumption ==
  /\ Runners \subseteq {"task1", "saved_map"}
  /\ CancelTimer \in BOOLEAN
  /\ ForeignCancel \in BOOLEAN

VARIABLES
  runner,          \* which program runs
  phase,           \* where main() is
  started,         \* _started
  timerCancelled,  \* _cancel_requested_by_timer
  result,          \* what _write_result wrote
  foreign          \* another client has cancelled a goal

runnerVars == <<runner, phase, started, timerCancelled, result, foreign>>

vars == <<adapterVars, executorVars, runnerVars>>

NoResult == [state |-> None, completed |-> 0]

TypeOK ==
  /\ ExecutorTypeOK
  /\ runner \in {"task1", "saved_map"}
  /\ phase \in {"spinning", "interrupted", "shut_down", "exited"}
  /\ started \in BOOLEAN
  /\ timerCancelled \in BOOLEAN
  /\ result \in [state : Terminal \cup {"nav2_server_timeout"}, completed : 0 .. Len(Plan)]
                  \cup {NoResult}
  /\ foreign \in BOOLEAN

Init ==
  /\ ExecutorInit
  /\ runner \in Runners
  /\ phase = "spinning"
  /\ started = FALSE
  /\ timerCancelled = FALSE
  /\ result = NoResult
  /\ foreign = FALSE

Done == result # NoResult

\* Mutant: the loop goes on after the result was written.
SpinningOn == phase \in {"spinning", "interrupted"} /\ raised = None

\* main() is in one of its loops.
Spinning == phase \in {"spinning", "interrupted"} /\ raised = None /\ ~ Done

\* _finalize, if the mission has ended.
Finalize ==
  result' = IF state' \in Terminal /\ raised' = None
              THEN [state |-> state', completed |-> goalIndex'] ELSE result

\* _tick: Nav2 is ready.  A mission cancelled before this cannot be compiled.
TickStarts ==
  /\ Spinning
  /\ ~ started
  /\ started' = TRUE
  /\ IF state = "accepted" THEN DispatchCurrentGoal(context, 0, 0)
     ELSE Raise("begin_compilation") /\ UNCHANGED adapterVars
  /\ Finalize
  /\ UNCHANGED <<runner, phase, timerCancelled, foreign>>

\* _tick: Nav2 did not become ready in time.
TickGivesUp ==
  /\ Spinning
  /\ ~ started
  /\ result' = [state |-> "nav2_server_timeout", completed |-> 0]
  /\ UNCHANGED <<adapterVars, executorVars, runner, phase, started, timerCancelled, foreign>>

\* _tick: cancel_after_sec has passed.
TickCancels ==
  /\ Spinning
  /\ CancelTimer /\ runner = "task1"
  /\ started /\ ~ timerCancelled
  /\ timerCancelled' = TRUE
  /\ IF state \in Terminal THEN UNCHANGED <<adapterVars, executorVars>> ELSE RequestCancel
  /\ Finalize
  /\ UNCHANGED <<runner, phase, started, foreign>>

TickDeadline ==
  /\ Spinning
  /\ started
  /\ DeadlinePasses
  /\ Finalize
  /\ UNCHANGED <<runner, phase, started, timerCancelled, foreign>>

\* _tick: a callback has ended the mission.
TickFinalizes ==
  /\ Spinning
  /\ started
  /\ state \in Terminal
  /\ UNCHANGED <<adapterVars, executorVars>>
  /\ Finalize
  /\ UNCHANGED <<runner, phase, started, timerCancelled, foreign>>

\* A callback of the adapter that ends a goal.
SpinOutcome(g) ==
  /\ Spinning
  /\ \E ctx \in {Pop(context, g)}, outcome \in Outcome :
       Callback(g, ctx, outcome) /\ Outcomes(g, ctx, outcome)
  /\ UNCHANGED runnerVars

\* Nav2 has accepted a goal.
SpinAccepted(g) ==
  /\ Spinning
  /\ ResponseAccepted(g)
  /\ UNCHANGED <<executorVars, runnerVars>>

\* Ctrl-C: request_cancel, then the second loop.  Only the Task 1 runner
\* finalizes a mission that this ends.
Interrupt ==
  /\ Spinning
  /\ phase = "spinning"
  /\ phase' = "interrupted"
  /\ IF state \in Terminal THEN UNCHANGED <<adapterVars, executorVars>> ELSE RequestCancel
  /\ IF runner = "task1" /\ state \notin Terminal THEN Finalize ELSE UNCHANGED result
  /\ UNCHANGED <<runner, started, timerCancelled, foreign>>

\* The second loop's 10 s are over.
StopWaiting ==
  /\ Spinning
  /\ phase = "interrupted"
  /\ phase' = "exited"
  /\ UNCHANGED <<adapterVars, executorVars, runner, started, timerCancelled, result, foreign>>

\* rclpy is shut down by a signal other than Ctrl-C: either loop ends.
ShutDown ==
  /\ Spinning
  /\ phase' = "shut_down"
  /\ UNCHANGED <<adapterVars, executorVars, runner, started, timerCancelled, result, foreign>>

\* Nav2 goes on, whether the program runs or not.
ServerStep ==
  /\ Server
  /\ UNCHANGED <<executorVars, runnerVars>>

\* Another client (RViz) cancels the goal.
ForeignCancels(g) ==
  /\ ForeignCancel
  /\ server[g] = "executing"
  /\ server' = [server EXCEPT ![g] = "canceling"]
  /\ foreign' = TRUE
  /\ UNCHANGED <<context, cancelCall, refused, executorVars, runner, phase, started,
                 timerCancelled, result>>

Returned == ~ Spinning /\ UNCHANGED vars

Tick == TickStarts \/ TickCancels \/ TickFinalizes

Spin == \E g \in Goal : SpinOutcome(g) \/ SpinAccepted(g)

Next ==
  \/ Tick \/ TickGivesUp \/ TickDeadline
  \/ Spin
  \/ Interrupt \/ StopWaiting \/ ShutDown
  \/ ServerStep \/ \E g \in Goal : ForeignCancels(g)
  \/ Returned

Spec == Init /\ [][Next]_vars

(***************************************************************************)
(* Fairness: the timer keeps firing, and the deadlines of goals and of      *)
(* Ctrl-C pass.  Nothing makes Nav2 or its callbacks arrive.                *)
(***************************************************************************)
TimedSpec ==
  /\ Spec
  /\ WF_vars(Tick)
  /\ WF_vars(TickDeadline)
  /\ WF_vars(StopWaiting)

-----------------------------------------------------------------------------
(* Properties.                                                              *)

\* The executor and the adapter agree on the goal under way: the executor has a
\* handle exactly while it drives or cancels, the handle is the attempt of the
\* current goal and retry, and the adapter tracks it and no other goal, so
\* that no result of an earlier attempt can still arrive.
HandleIsTracked ==
  raised = None =>
    /\ handle # NoGoal <=> state \in Driving \cup {"cancelling"}
    /\ handle # NoGoal => /\ handle = [goal |-> goalIndex, retry |-> retryCount]
                          /\ {g \in Goal : Tracked(g)} = {handle}
                          /\ context[handle].cancelRequested <=> state = "cancelling"

\* What the result says happened in Nav2: each completed goal has an attempt
\* that succeeded, a mission succeeded completed them all, and a mission
\* cancelled after it started had its goal canceled by Nav2.
ResultIsReal ==
  /\ \A i \in 0 .. goalIndex - 1 : \E g \in Goal : g.goal = i /\ server[g] = "succeeded"
  /\ state = "succeeded" => goalIndex = Len(Plan)
  /\ state = "cancelled" /\ started /\ raised = None =>
       server[[goal |-> goalIndex, retry |-> retryCount]] = "canceled"
  /\ Done /\ result.state \in Terminal => result = [state |-> state, completed |-> goalIndex]

\* The executor raises, which ends the program without a result, in four
\* situations only: Ctrl-C before Nav2 was ready (saved-map runner), one of
\* Ctrl-C and the cancel timer while the other's request is under way, a goal
\* that another client canceled, and a deadline during a cancellation whose
\* second request cannot be sent.  In particular no late or repeated result ever raises.
CrashesExplained ==
  CASE raised = None -> TRUE
    [] raised = "begin_compilation" -> runner = "saved_map" /\ phase = "interrupted"
    [] raised = "request_cancel" -> runner = "task1" /\ timerCancelled /\ state = "cancelling"
    [] raised = "cancellation_confirmed" -> foreign /\ state \in Driving
    [] raised = "tick" -> \E g \in Goal : context[g] = [phase |-> "popped", cancelRequested |-> TRUE]
    [] OTHER -> FALSE

\* A program that leaves by itself (its mission ended, or the 10 s after Ctrl-C
\* are over) has asked for the cancellation of the goal it still waits for; if
\* it knew that Nav2 had accepted the goal, Nav2 has the request, or refused it.
LeavesNoGoalUntold ==
  (Done \/ phase = "exited") =>
    \A g \in Goal : Tracked(g) =>
      /\ context[g].cancelRequested
      /\ context[g].phase = "accepted" =>
           server[g] # "executing" \/ cancelCall[g] > 0 \/ refused[g]

\* Whatever Nav2 does, the program comes to an end.
Terminates == <>~ Spinning
=============================================================================
