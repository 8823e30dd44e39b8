---------------------------- MODULE Nav2Adapter ----------------------------
(***************************************************************************)
(* omokai_executor.Nav2NavigationAdapter and the NavigateToPose action      *)
(* server it talks to.                                                      *)
(*                                                                          *)
(* A Goal stands for one dispatched goal together with the token dispatch() *)
(* made for it: the adapter never reuses a token.  The adapter keeps one    *)
(* context per token and drops it exactly once; the drop is what makes it   *)
(* call one method of NavigationOutcomes.  Every callback operator below    *)
(* has a parameter "outcome" that names this method, or "none" when the     *)
(* callback tells the client nothing; the client's module conjoins what its *)
(* method does.  A callback whose context is already gone changes nothing   *)
(* and is not a step.                                                       *)
(*                                                                          *)
(* The server is external: it accepts or rejects, finishes, and answers     *)
(* each cancel call in its own time.  Acceptance of a cancel call carries   *)
(* no information for the adapter, so only refusals are kept.               *)
(***************************************************************************)
EXTENDS Naturals, FiniteSets

CONSTANTS
  Goal,    \* every goal the client may dispatch
  Faults   \* the classes of failure the environment may produce

FaultKind == {"dispatch",    \* dispatch() raises: server not ready, send fails
              "reject",      \* Nav2 rejects the goal
              "abort",       \* Nav2 aborts the goal
              "refuse",      \* Nav2 refuses a cancel call, or its reply is an error
              "transport"}   \* a response future or cancel_goal_async() raises

ASSUME FaultsAssumption == Faults \subseteq FaultKind

VARIABLES
  context,     \* _contexts: what the adapter knows of each goal
  server,      \* the goal's state in the Nav2 action server
  cancelCall,  \* cancel calls sent and not yet answered
  refused      \* a refusal is on its way to _on_cancel_response

adapterVars == <<context, server, cancelCall, refused>>

Phase == {"absent",     \* not dispatched
          "sent",       \* dispatched, ros_goal_handle is None
          "accepted",   \* ros_goal_handle and the result future are set
          "popped"}     \* the context was dropped

Context == [phase : Phase, cancelRequested : BOOLEAN]

Live == {"requested", "executing", "canceling"}

Ended == {"succeeded", "aborted", "canceled"}

ServerState == {"idle", "rejected"} \cup Live \cup Ended

Outcome == {"none", "navigation_succeeded", "navigation_failed",
            "goal_rejected", "cancellation_confirmed", "cancellation_failed"}

AdapterTypeOK ==
  /\ context \in [Goal -> Context]
  /\ server \in [Goal -> ServerState]
  /\ cancelCall \in [Goal -> Nat]
  /\ refused \in [Goal -> BOOLEAN]

AdapterInit ==
  /\ context = [g \in Goal |-> [phase |-> "absent", cancelRequested |-> FALSE]]
  /\ server = [g \in Goal |-> "idle"]
  /\ cancelCall = [g \in Goal |-> 0]
  /\ refused = [g \in Goal |-> FALSE]

\* A goal whose context is still in _contexts.
Tracked(g) == context[g].phase \in {"sent", "accepted"}

\* dispatch() returns: the context is stored and the request is on its way.  A
\* client that dispatches inside its outcome method finds the contexts in ctx.
DispatchFrom(ctx, g) ==
  /\ context' = [ctx EXCEPT ![g].phase = "sent"]
  /\ server' = [server EXCEPT ![g] = "requested"]
  /\ UNCHANGED <<cancelCall, refused>>

Dispatch(g) == DispatchFrom(context, g)

Pop(ctx, g) == [ctx EXCEPT ![g].phase = "popped"]

\* cancel_goal_async() of this goal may raise inside cancel().
SendMayFail(ctx, g) == "transport" \in Faults /\ ctx[g].phase = "accepted"

\* Mutant: a cancel before the goal was accepted is lost.
CancelAcceptedOnly(ctx, S, X) ==
  /\ context' = [g \in Goal |->
       IF g \in X THEN [phase |-> "popped", cancelRequested |-> TRUE]
       ELSE IF g \in S /\ ctx[g].phase = "accepted"
         THEN [ctx[g] EXCEPT !.cancelRequested = TRUE]
       ELSE ctx[g]]
  /\ cancelCall' = [g \in Goal |->
       IF g \in S \ X /\ ctx[g].phase = "accepted"
         THEN cancelCall[g] + 1 ELSE cancelCall[g]]

\* cancel() on every goal of S, of which the send fails for those in X: they
\* lose their context and the client hears cancellation_failed before
\* cancel() returns.  A goal without a handle is cancelled when it is accepted.
Cancel(ctx, S, X) ==
  /\ context' = [g \in Goal |->
       IF g \in X THEN [phase |-> "popped", cancelRequested |-> TRUE]
       ELSE IF g \in S THEN [ctx[g] EXCEPT !.cancelRequested = TRUE]
       ELSE ctx[g]]
  /\ cancelCall' = [g \in Goal |->
       IF g \in S \ X /\ ctx[g].phase = "accepted"
         THEN cancelCall[g] + 1 ELSE cancelCall[g]]

\* Mutant: a goal that ends any other way under cancellation counts as cancelled.
GoalErrorConfirms(g, error) ==
  IF context[g].cancelRequested THEN "cancellation_confirmed" ELSE error

\* _report_goal_error: an error of a goal under cancellation is a failed cancel.
GoalError(g, error) ==
  IF context[g].cancelRequested THEN "cancellation_failed" ELSE error

(***************************************************************************)
(* _on_goal_response.  Each callback gives the context map it leaves, ctx,  *)
(* so that a client that cancels other goals inside its outcome method can  *)
(* do so in the same step.                                                  *)
(***************************************************************************)
ResponseFails(g, ctx, outcome) ==
  /\ "transport" \in Faults
  /\ context[g].phase = "sent"
  /\ ctx = Pop(context, g)
  /\ outcome = GoalError(g, "navigation_failed")

ResponseRejected(g, ctx, outcome) ==
  /\ context[g].phase = "sent"
  /\ server[g] = "rejected"
  /\ ctx = Pop(context, g)
  /\ outcome = GoalError(g, "goal_rejected")

\* The deferred cancel of an accepted goal cannot be sent.
DeferredCancelFails(g, ctx, outcome) ==
  /\ "transport" \in Faults
  /\ context[g] = [phase |-> "sent", cancelRequested |-> TRUE]
  /\ server[g] \notin {"requested", "rejected"}
  /\ ctx = Pop(context, g)
  /\ outcome = "cancellation_failed"

\* The handle is stored; a cancel requested meanwhile is sent now.
ResponseAccepted(g) ==
  /\ context[g].phase = "sent"
  /\ server[g] \notin {"requested", "rejected"}
  /\ context' = [context EXCEPT ![g].phase = "accepted"]
  /\ cancelCall' = IF context[g].cancelRequested
                     THEN [cancelCall EXCEPT ![g] = @ + 1] ELSE cancelCall
  /\ UNCHANGED <<server, refused>>

\* _on_result, by the status Nav2 gave the goal.
ResultOutcome(g) ==
  CASE server[g] = "succeeded" ->
         IF context[g].cancelRequested
           THEN "cancellation_failed" ELSE "navigation_succeeded"
    [] server[g] = "canceled" -> "cancellation_confirmed"
    [] OTHER -> GoalError(g, "navigation_failed")

ResultArrives(g, ctx, outcome) ==
  /\ context[g].phase = "accepted"
  /\ server[g] \in Ended
  /\ ctx = Pop(context, g)
  /\ outcome \in {ResultOutcome(g)} \cup
       (IF "transport" \in Faults THEN {GoalError(g, "navigation_failed")} ELSE {})

\* _on_cancel_response of a call that put no goal into canceling.
CancelRefused(g, ctx, outcome) ==
  /\ refused[g]
  /\ Tracked(g)
  /\ ctx = Pop(context, g)
  /\ outcome = "cancellation_failed"

\* A callback that ends the context of g, with what the client is told.
Callback(g, ctx, outcome) ==
  \/ ResponseFails(g, ctx, outcome)
  \/ ResponseRejected(g, ctx, outcome)
  \/ DeferredCancelFails(g, ctx, outcome)
  \/ ResultArrives(g, ctx, outcome)
  \/ CancelRefused(g, ctx, outcome)

(***************************************************************************)
(* The action server.                                                       *)
(***************************************************************************)
ServerAnswers(g) ==
  /\ server[g] = "requested"
  /\ \E s \in {"executing"} \cup (IF "reject" \in Faults THEN {"rejected"} ELSE {}) :
       server' = [server EXCEPT ![g] = s]
  /\ UNCHANGED <<context, cancelCall, refused>>

ServerFinishes(g) ==
  /\ \/ /\ server[g] = "executing"
        /\ server' = [server EXCEPT ![g] = "succeeded"]
     \/ /\ server[g] = "executing"
        /\ "abort" \in Faults
        /\ server' = [server EXCEPT ![g] = "aborted"]
     \/ /\ server[g] = "canceling"
        /\ \E s \in Ended : server' = [server EXCEPT ![g] = s]
  /\ UNCHANGED <<context, cancelCall, refused>>

\* A cancel call reaches the server.  Only an executing goal starts canceling;
\* a call that finds the goal canceling already, or ended, cancels nothing.
ServerCancels(g) ==
  /\ cancelCall[g] > 0
  /\ cancelCall' = [cancelCall EXCEPT ![g] = @ - 1]
  /\ \/ /\ server[g] = "executing"
        /\ server' = [server EXCEPT ![g] = "canceling"]
        /\ UNCHANGED refused
     \/ /\ server[g] # "executing" \/ "refuse" \in Faults
        /\ refused' = [refused EXCEPT ![g] = TRUE]
        /\ UNCHANGED server
  /\ UNCHANGED context

Server == \E g \in Goal : ServerAnswers(g) \/ ServerFinishes(g) \/ ServerCancels(g)
=============================================================================
