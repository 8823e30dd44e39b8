--------------------------- MODULE FleetExecution ---------------------------
(***************************************************************************)
(* FleetNav2Adapter.execute and execute_formation.                          *)
(*                                                                          *)
(* execute sends every robot a goal and waits for all.  execute_formation   *)
(* sends the leader one goal after the other while the followers track it   *)
(* under a FormationController, a node of its own, and then waits for the   *)
(* followers to settle.  Both wait in the same loop, with the same stops.   *)
(*                                                                          *)
(* The node is single-threaded: rclpy.spin_once runs at most one callback,  *)
(* and everything between two calls of it is one atomic step.  pc:          *)
(*   ready     waiting for servers and poses                                *)
(*   dispatch  sending the goals of this round                              *)
(*   top       the while condition, and spin_once                           *)
(*   check     separation or formation check, operator check                *)
(*   wait      waiting up to 5 s for cancellations                          *)
(*   settle, settle_check   waiting for the followers; the check after it   *)
(*   done, crashed          returned its result, or raised                  *)
(***************************************************************************)
EXTENDS FleetAdapter

CONSTANT Path   \* goals of the leader's path

ASSUME PathAssumption == Path \in Nat \ {0}

\* The goal of robot r in round i.
RoundGoal(r, i) == [robot |-> r, number |-> i]

ASSUME FleetGoalAssumption ==
  Goal = {RoundGoal(r, 1) : r \in Robot} \cup {RoundGoal(Leader, i) : i \in 1 .. Path}

VARIABLES
  call,        \* which of the two was called
  round,       \* the goal of the leader's path that is under way
  pc,          \* place in the call
  todo,        \* robots whose goal of this round is not sent yet
  cancelFlag,  \* SquadRunner._cancel_requested
  status,      \* _formation_state: the latest status accepted
  directive,   \* the FormationController's _directive
  inbox,       \* a formation status on its way to the node
  report       \* the batch that is returned

formationVars == <<status, directive, inbox>>

resolveVars == <<token, pending, result, cancelStatus, root>>

vars == <<adapterVars, resolveVars, formationVars, call, round, pc, todo,
          cancelFlag, report>>

PC == {"ready", "dispatch", "top", "check", "wait", "settle", "settle_check",
       "done", "crashed"}

StatusKind == {"blocked", "moving", "settled"}

\* A directive is of this operation, or of one an earlier process left on.
Operation == {"this", "earlier"}

Message == [operation : Operation, kind : StatusKind]

NoMessage == [operation |-> None, kind |-> None]

NoReport == All(None)

TypeOK ==
  /\ AdapterTypeOK
  /\ token \in [Robot -> Goal \cup {NoGoal}]
  /\ pending \subseteq Robot
  /\ result \in [Robot -> Status \cup {None}]
  /\ cancelStatus \in [Robot -> Status \cup {None}]
  /\ root \in Robot \cup {None}
  /\ call \in {"execute", "formation"}
  /\ round \in 1 .. Path
  /\ pc \in PC
  /\ todo \subseteq Robot
  /\ cancelFlag \in BOOLEAN
  /\ status \in StatusKind \cup {None}
  /\ directive \in Operation \cup {None}
  /\ inbox \in Message \cup {NoMessage}
  /\ report \in [Robot -> Status \cup {None}]

\* A controller may still follow the directive of a process that was killed.
Init ==
  /\ AdapterInit
  /\ token = [r \in Robot |-> NoGoal]
  /\ pending = {}
  /\ result = All(None)
  /\ cancelStatus = All(None)
  /\ root = None
  /\ call \in {"execute", "formation"}
  /\ round = 1
  /\ pc = "ready"
  /\ todo = {}
  /\ cancelFlag \in IF "operator" \in Stops THEN BOOLEAN ELSE {FALSE}
  /\ status = None
  /\ directive \in IF call = "formation" THEN {None, "earlier"} ELSE {None}
  /\ inbox = NoMessage
  /\ report = NoReport

-----------------------------------------------------------------------------
(* Sending the goals of a round.                                            *)

Reset ==
  /\ token' = [r \in Robot |-> NoGoal]
  /\ pending' = {}
  /\ result' = All(None)
  /\ cancelStatus' = All(None)
  /\ root' = None

Begin ==
  /\ Reset
  /\ todo' = IF call = "execute" THEN Robot ELSE {Leader}
  /\ pc' = "dispatch"

Start ==
  /\ pc = "ready"
  /\ Begin
  /\ UNCHANGED <<adapterVars, formationVars, call, round, cancelFlag, report>>

\* Nav2ServerUnavailable, FleetStateUnavailable.
NotReady ==
  /\ pc = "ready"
  /\ pc' = "crashed"
  /\ UNCHANGED <<adapterVars, resolveVars, formationVars, call, round, todo,
                 cancelFlag, report>>

DispatchGoal(r) ==
  /\ pc = "dispatch"
  /\ todo # {}
  /\ r = First(todo)
  /\ Dispatch(RoundGoal(r, round))
  /\ token' = [token EXCEPT ![r] = RoundGoal(r, round)]
  /\ pending' = pending \cup {r}
  /\ todo' = todo \ {r}
  /\ UNCHANGED <<result, cancelStatus, root, formationVars, call, round, pc,
                 cancelFlag, report>>

\* _handle_dispatch_error: what was sent is cancelled, the rest is not sent.
DispatchError(r) ==
  /\ call = "execute"
  /\ root' = r
  /\ CancelPending(pending, All("cancelled"), context,
       [s \in Robot |-> IF s = r THEN "rejected"
                        ELSE IF s \in todo THEN "cancelled" ELSE result[s]])
  /\ todo' = {}
  /\ UNCHANGED <<token, formationVars, pc, report>>

LeaderDispatchError ==
  /\ call = "formation"
  /\ report' = FormationFailure("rejected")
  /\ pc' = "done"
  /\ status' = None
  /\ UNCHANGED <<context, cancelCall, resolveVars, directive, inbox, todo>>

DispatchFails(r) ==
  /\ pc = "dispatch"
  /\ todo # {}
  /\ r = First(todo)
  /\ "dispatch" \in Faults
  /\ DispatchError(r) \/ LeaderDispatchError
  /\ UNCHANGED <<server, refused, call, round, cancelFlag>>

DispatchDone ==
  /\ pc = "dispatch"
  /\ todo = {}
  /\ pc' = "top"
  /\ UNCHANGED <<adapterVars, resolveVars, formationVars, call, round, todo,
                 cancelFlag, report>>

-----------------------------------------------------------------------------
(* The outcome methods, outside of a split.                                 *)

Resolved(r, as, ctx) ==
  /\ result' = [result EXCEPT ![r] = as]
  /\ pending' = pending \ {r}
  /\ context' = ctx
  /\ UNCHANGED <<cancelCall, token, cancelStatus, root>>

\* The first failure stops the others; a failure while stopping is a failed
\* cancellation.
NavigationFailed(r, as, ctx) ==
  \/ root = None /\ root' = r /\ UNCHANGED token
     /\ CancelPending(pending \ {r}, All("cancelled"), ctx, [result EXCEPT ![r] = as])
  \/ root # None /\ Resolved(r, "cancel_failed", ctx)

Resolve(r, outcome, ctx) ==
  CASE outcome = "navigation_succeeded" -> Resolved(r, "succeeded", ctx)
    [] outcome = "navigation_failed" -> NavigationFailed(r, "failed", ctx)
    [] outcome = "goal_rejected" -> NavigationFailed(r, "rejected", ctx)
    [] outcome = "cancellation_confirmed" -> Resolved(r, ConfirmedStatus(r), ctx)
    [] outcome = "cancellation_failed" -> Resolved(r, "cancel_failed", ctx)

-----------------------------------------------------------------------------
(* spin_once.                                                               *)

Spinning == pc \in {"top", "wait"} /\ pending # {}

\* After spin_once: the checks of the loop, or the next test of the wait.
Spun == CASE pc = "top" -> "check" [] pc = "wait" -> "wait" [] pc = "settle" -> "settle_check"

\* A goal of an earlier round has no context left.
SpinOutcome(g) ==
  /\ Spinning
  /\ \E ctx \in {Pop(context, g)}, outcome \in Outcome :
       /\ Callback(g, ctx, outcome)
       /\ IF MatchesPending(g.robot, g) THEN Resolve(g.robot, outcome, ctx)
          ELSE context' = ctx /\ UNCHANGED <<cancelCall, resolveVars>>
  /\ pc' = Spun
  /\ refused' = [refused EXCEPT ![g] = FALSE]
  /\ UNCHANGED <<server, formationVars, call, round, todo, cancelFlag, report>>

SpinAccepted(g) ==
  /\ Spinning
  /\ ResponseAccepted(g)
  /\ pc' = Spun
  /\ UNCHANGED <<resolveVars, formationVars, call, round, todo, cancelFlag, report>>

\* The loop turns: spinning for the goals, or for the followers.
Turning == (pc = "top" /\ pending # {}) \/ (pc = "settle" /\ status # "settled")

SpinCancelService ==
  /\ Turning
  /\ "operator" \in Stops
  /\ ~cancelFlag
  /\ cancelFlag' = TRUE
  /\ pc' = Spun
  /\ UNCHANGED <<adapterVars, resolveVars, formationVars, call, round, todo, report>>

\* Mutant: a status of any operation is taken.
ReceiveAnyFormationState ==
  /\ inbox # NoMessage
  /\ status' = inbox.kind
  /\ inbox' = NoMessage
  /\ UNCHANGED directive

\* _receive_formation_state: is_current_formation_state compares operations.
ReceiveFormationState ==
  /\ inbox # NoMessage
  /\ status' = IF inbox.operation = "this" THEN inbox.kind ELSE status
  /\ inbox' = NoMessage
  /\ UNCHANGED directive

SpinFormationState ==
  /\ Turning \/ (pc = "wait" /\ pending # {})
  /\ ReceiveFormationState
  /\ pc' = Spun
  /\ UNCHANGED <<adapterVars, resolveVars, call, round, todo, cancelFlag, report>>

SpinIdle ==
  /\ Turning
  /\ pc' = Spun
  /\ UNCHANGED <<adapterVars, resolveVars, formationVars, call, round, todo,
                 cancelFlag, report>>

-----------------------------------------------------------------------------
(* Stops.                                                                   *)

\* The safety check fails, or the controller says that it is blocked.
Failing ==
  IF status = "blocked" THEN {TRUE}
  ELSE IF "safety" \in Stops THEN BOOLEAN ELSE {FALSE}

\* Mutant: every robot is reported to have caused the stop.
StopPendingBlamesAll(blamed, why) ==
  /\ root' = blamed
  /\ CancelPending(pending, All(why), context, result)
  /\ UNCHANGED token

\* Every pending robot is cancelled, and blamed is reported to be the cause.
StopPending(blamed, why) ==
  /\ root' = blamed
  /\ CancelPending(pending, [r \in Robot |-> IF r = blamed THEN why ELSE "cancelled"],
                   context, result)
  /\ UNCHANGED token

\* _begin_operator_cancel.
OperatorCancel ==
  /\ CancelPending(pending, All("cancelled"), context, result)
  /\ UNCHANGED <<token, root>>

NoStop == UNCHANGED <<context, cancelCall, resolveVars>>

\* Mutant: the operator's cancel is looked at again and again.
CheckCancelsAgain ==
  /\ pc = "check"
  /\ \E failing \in Failing :
       IF pending = {} THEN NoStop
       ELSE IF failing /\ ~CancelStatusSet THEN StopPending(First(pending), "failed")
       ELSE IF failing \/ cancelFlag THEN OperatorCancel
       ELSE NoStop
  /\ pc' = "top"
  /\ UNCHANGED <<server, refused, formationVars, call, round, todo, cancelFlag, report>>

\* Once anything is being cancelled neither check does more.
Check ==
  /\ pc = "check"
  /\ \E failing \in Failing :
       IF pending = {} \/ CancelStatusSet THEN NoStop
       ELSE IF failing THEN StopPending(First(pending), "failed")
       ELSE IF cancelFlag THEN OperatorCancel
       ELSE NoStop
  /\ pc' = "top"
  /\ UNCHANGED <<server, refused, formationVars, call, round, todo, cancelFlag, report>>

\* _begin_timeout.
BeginTimeout ==
  /\ pc = "top"
  /\ pending # {}
  /\ "deadline" \in Stops
  /\ StopPending(IF root = None THEN First(pending) ELSE root, "timed_out")
  /\ pc' = "wait"
  /\ UNCHANGED <<server, refused, formationVars, call, round, todo, cancelFlag, report>>

\* Mutant: the wait for confirmations has no deadline of its own.
WaitEndsResolved ==
  /\ pc = "wait"
  /\ pending = {}
  /\ pc' = "top"
  /\ UNCHANGED <<adapterVars, resolveVars, formationVars, call, round, todo,
                 cancelFlag, report>>

\* Mutant: what is not confirmed in time is taken for confirmed.
WaitEndsConfirmed ==
  /\ pc = "wait"
  /\ result' = [r \in Robot |-> IF r \in pending THEN ConfirmedStatus(r) ELSE result[r]]
  /\ pending' = {}
  /\ pc' = "top"
  /\ UNCHANGED <<adapterVars, token, cancelStatus, root, formationVars, call,
                 round, todo, cancelFlag, report>>

\* Everything is resolved, or the 5 s have passed.
WaitEnds ==
  /\ pc = "wait"
  /\ result' = [r \in Robot |-> IF r \in pending THEN "cancel_failed" ELSE result[r]]
  /\ pending' = {}
  /\ pc' = "top"
  /\ UNCHANGED <<adapterVars, token, cancelStatus, root, formationVars, call,
                 round, todo, cancelFlag, report>>

-----------------------------------------------------------------------------
(* The ends.                                                                *)

Return(batch) ==
  /\ report' = batch
  /\ pc' = "done"
  /\ status' = None
  /\ UNCHANGED <<adapterVars, resolveVars, directive, inbox, call, round, todo,
                 cancelFlag>>

FinishExecute ==
  /\ pc = "top"
  /\ pending = {}
  /\ call = "execute"
  /\ Return(result)

LeaderArrived ==
  /\ pc = "top"
  /\ pending = {}
  /\ call = "formation"
  /\ result[Leader] = "succeeded"

LeaderFailed ==
  /\ pc = "top"
  /\ pending = {}
  /\ call = "formation"
  /\ result[Leader] # "succeeded"
  /\ Return(FormationFailure(result[Leader]))

\* Mutant: one goal too many.
NextLeaderGoalOneMore ==
  /\ LeaderArrived
  /\ round <= Path
  /\ round' = round + 1
  /\ Begin
  /\ UNCHANGED <<adapterVars, formationVars, call, cancelFlag, report>>

NextLeaderGoal ==
  /\ LeaderArrived
  /\ round < Path
  /\ round' = round + 1
  /\ Begin
  /\ UNCHANGED <<adapterVars, formationVars, call, cancelFlag, report>>

\* No time is left for the next goal of the path.
PathTimesOut ==
  /\ LeaderArrived
  /\ round < Path
  /\ "deadline" \in Stops
  /\ Return(FormationFailure("timed_out"))

BeginSettle ==
  /\ LeaderArrived
  /\ round = Path
  /\ pc' = "settle"
  /\ UNCHANGED <<adapterVars, resolveVars, formationVars, call, round, todo,
                 cancelFlag, report>>

Settled ==
  /\ pc = "settle"
  /\ status = "settled"
  /\ Return(All("succeeded"))

\* Nobody looks at the operator's cancel here.
SettleCheck ==
  /\ pc = "settle_check"
  /\ \E failing \in Failing :
       IF failing THEN Return(FormationFailure("failed"))
       ELSE /\ pc' = "settle"
            /\ UNCHANGED <<adapterVars, resolveVars, formationVars, call, round,
                           todo, cancelFlag, report>>

SettleTimesOut ==
  /\ pc = "settle"
  /\ Return(FormationFailure("timed_out"))

-----------------------------------------------------------------------------
(* The world: it moves while the node spins.                                *)

ServerStep ==
  /\ Spinning
  /\ Server
  /\ UNCHANGED <<resolveVars, formationVars, call, round, pc, todo, cancelFlag, report>>

Tracking == call = "formation" /\ (Turning \/ (pc = "wait" /\ pending # {}))

\* The command this call published on its way in reaches the controller.
ControllerReceivesCommand ==
  /\ Tracking
  /\ directive # "this"
  /\ directive' = "this"
  /\ UNCHANGED <<adapterVars, resolveVars, status, inbox, call, round, pc, todo,
                 cancelFlag, report>>

\* _control_loop: a follower's pose is missing, or where the followers are.
ControllerReports ==
  /\ Tracking
  /\ directive # None
  /\ inbox = NoMessage
  /\ \E kind \in StatusKind : inbox' = [operation |-> directive, kind |-> kind]
  /\ UNCHANGED <<adapterVars, resolveVars, status, directive, call, round, pc,
                 todo, cancelFlag, report>>

Returned ==
  /\ pc \in {"done", "crashed"}
  /\ UNCHANGED vars

Sending == Start \/ NotReady \/ DispatchDone \/ \E r \in Robot : DispatchGoal(r) \/ DispatchFails(r)

SpinStep ==
  \/ \E g \in Goal : SpinOutcome(g) \/ SpinAccepted(g)
  \/ SpinCancelService
  \/ SpinFormationState
  \/ SpinIdle

Ending ==
  \/ FinishExecute \/ LeaderFailed
  \/ NextLeaderGoal \/ PathTimesOut \/ BeginSettle \/ Settled \/ SettleCheck

Loop == Sending \/ SpinStep \/ Check \/ Ending

Next ==
  \/ Loop \/ BeginTimeout \/ WaitEnds \/ SettleTimesOut
  \/ ServerStep \/ ControllerReceivesCommand \/ ControllerReports
  \/ Returned

Spec == Init /\ [][Next]_vars

(***************************************************************************)
(* Fairness: the loop keeps running and its deadlines pass.  Nothing makes  *)
(* a server or the controller answer.                                       *)
(***************************************************************************)
TimedSpec ==
  /\ Spec
  /\ WF_vars(Loop)
  /\ SF_vars(BeginTimeout)
  /\ SF_vars(WaitEnds)
  /\ SF_vars(SettleTimesOut)

-----------------------------------------------------------------------------
(* Properties.                                                              *)

\* What the mission relies on: the results are a batch that NavigationBatch
\* accepts (every robot has one, at most one primary failure, however failures,
\* stops and refused cancels overlap), and robots are only cancelled, with
\* nobody failed, if the operator asked for it.
ReturnsABatch ==
  pc = "done" =>
    report \in IF call = "execute" THEN BatchResults(cancelFlag)
               ELSE FormationResults(cancelFlag)

\* "Operator cancellation waits for Nav2 confirmation from every active robot"
\* (multi_robot.md:117), and the same of every other end: a goal that Nav2 still
\* has when its robot's result is decided was reported failed, never
\* succeeded, cancelled, timed out or rejected, and a cancelled or timed out
\* goal was canceled by Nav2 or never sent.
ResultsAreReal ==
  \A r \in Robot \ pending : token[r] # NoGoal =>
    /\ server[token[r]] \in Live => result[r] \in {"failed", "cancel_failed"}
    /\ result[r] = "succeeded" => server[token[r]] = "succeeded"
    /\ result[r] \in {"cancelled", "timed_out"} => server[token[r]] = "canceled"

\* "One robot failure or timeout cancels all unresolved goals"
\* (multi_robot.md:116): from the moment somebody is blamed, every goal that is
\* waited for has been told to stop.
FailureCancelsAll ==
  root # None => \A r \in pending : context[token[r]].cancelRequested

\* A goal is told to stop by a check once: only the deadline cancels again.
CancelledOnce ==
  [][pc = "check" => \A r \in pending :
       context[token[r]].cancelRequested => cancelCall'[token[r]] = cancelCall[token[r]]]_vars

\* The formation is not reported settled on the word of an earlier operation:
\* the controller was following this call's directive.
SettledHere == pc = "done" /\ call = "formation" /\ Succeeded(report) => directive = "this"

\* Every call comes to an end, whatever servers and controller do.
CallEnds == <>(pc \in {"done", "crashed"})
=============================================================================
