------------------------ MODULE FleetAdapter_proofs ------------------------
(***************************************************************************)
(* Lemmas about what the three navigation calls share: the stable order of  *)
(* the robots, the callbacks of the Nav2 adapter, its action server, and    *)
(* the cancelling of what is pending.                                       *)
(***************************************************************************)
EXTENDS FleetAdapter, WellFoundedInduction, TLAPS

\* A goal that Nav2 cancels, will be told to or refuses to is one the adapter was
\* asked to cancel.
AsksAgree ==
  \A g \in Goal :
    /\ cancelCall[g] > 0 \/ refused[g] => context[g].cancelRequested
    /\ server[g] \in {"canceling", "canceled"} => context[g].cancelRequested

-----------------------------------------------------------------------------
(* The stable order of the robots.                                          *)

LEMMA LeastExists ==
  ASSUME NEW S \in SUBSET Nat, S # {}
  PROVE  \E x \in S : \A y \in S : x <= y
<1> DEFINE Less == {p \in Nat \X Nat : p[1] < p[2]}
<1>1. OpToRel(<, Nat) = Less
  BY DEF OpToRel
<1>2. IsWellFoundedOn(Less, Nat)
  BY <1>1, NatLessThanWellFounded
<1>3. PICK x \in S : \A y \in S : ~ (<<y, x>> \in Less)
  BY <1>2, WFMin
<1>4. ASSUME NEW y \in S PROVE x <= y
  <2>1. <<y, x>> \in Nat \X Nat
    OBVIOUS
  <2>2. ~ (y < x)
    BY <1>3, <2>1
  <2> QED  BY <2>2
<1> QED  BY <1>4

LEMMA FirstIsIn ==
  ASSUME NEW S \in SUBSET Robot, S # {}
  PROVE  First(S) \in S
<1> DEFINE I == {i \in DOMAIN RobotIds : RobotIds[i] \in S}
<1>1. RobotIds \in Seq(Robot)
  BY RobotsAssumption
<1>2. I \in SUBSET Nat /\ I # {}
  BY <1>1 DEF Robot
<1>3. PICK i \in I : \A j \in I : i <= j
  BY <1>2, LeastExists
<1> DEFINE Least(k) == /\ RobotIds[k] \in S
                       /\ \A j \in DOMAIN RobotIds : RobotIds[j] \in S => k <= j
           k == CHOOSE n \in DOMAIN RobotIds : Least(n)
<1>4. \E n \in DOMAIN RobotIds : Least(n)
  BY <1>3
<1>5. Least(k)
  BY <1>4
<1>6. RobotIds[k] \in S
  BY <1>5
<1> QED  BY <1>6 DEF First

LEMMA LeaderIsRobot == Leader \in Robot
<1>1. RobotIds \in Seq(Robot) /\ RobotIds # <<>>
  BY RobotsAssumption
<1> QED  BY <1>1 DEF Leader

LEMMA AllIsStatus == \A status \in Status : All(status) \in [Robot -> Status]
BY DEF All

-----------------------------------------------------------------------------
(* Sending a goal.                                                          *)

LEMMA DispatchFacts ==
  ASSUME AdapterTypeOK, NEW g \in Goal, Dispatch(g)
  PROVE  /\ AdapterTypeOK'
         /\ context'[g].phase = "sent" /\ server'[g] = "requested"
         /\ \A h \in Goal : context'[h].cancelRequested = context[h].cancelRequested
         /\ \A h \in Goal \ {g} : context'[h] = context[h] /\ server'[h] = server[h]
         /\ cancelCall' = cancelCall /\ refused' = refused
<1>1. /\ context' = [context EXCEPT ![g].phase = "sent"]
      /\ server' = [server EXCEPT ![g] = "requested"]
      /\ cancelCall' = cancelCall /\ refused' = refused
  BY DEF Dispatch, DispatchFrom
<1>2. context[g] \in Context
  BY DEF AdapterTypeOK
<1>3. [context[g] EXCEPT !.phase = "sent"] \in Context
  BY <1>2 DEF Context, Phase
<1>4. context' = [context EXCEPT ![g] = [context[g] EXCEPT !.phase = "sent"]]
  BY <1>1
<1>5. context' \in [Goal -> Context] /\ server' \in [Goal -> ServerState]
  BY <1>1, <1>3, <1>4 DEF AdapterTypeOK, ServerState, Live
<1>6. context'[g].phase = "sent" /\ context'[g].cancelRequested = context[g].cancelRequested
  BY <1>2, <1>4 DEF AdapterTypeOK, Context
<1> QED  BY <1>1, <1>4, <1>5, <1>6 DEF AdapterTypeOK

-----------------------------------------------------------------------------
(* What callbacks do to the contexts, and what they tell the client.        *)

\* What an outcome says of the goal it ends.
Told(g, outcome) ==
  /\ outcome \in Outcome \ {"none"}
  /\ outcome \in {"navigation_succeeded", "navigation_failed", "goal_rejected"}
       => ~ context[g].cancelRequested
  /\ outcome = "navigation_succeeded" => server[g] = "succeeded"
  /\ outcome = "goal_rejected" => server[g] = "rejected"
  /\ outcome = "cancellation_confirmed" => server[g] = "canceled"
  /\ outcome = "cancellation_failed" => context[g].cancelRequested \/ refused[g]

LEMMA CallbackFacts ==
  ASSUME AdapterTypeOK, NEW g \in Goal, NEW ctx, NEW outcome, Callback(g, ctx, outcome)
  PROVE  /\ Tracked(g)
         /\ ctx = Pop(context, g)
         /\ outcome \in Outcome \ {"none"}
         /\ Told(g, outcome)
<1> USE DEF Tracked, Outcome, Told
<1>1. GoalError(g, "navigation_failed") \in
        (IF context[g].cancelRequested THEN {"cancellation_failed"} ELSE {"navigation_failed"})
  BY DEF GoalError
<1>2. CASE ResponseFails(g, ctx, outcome)
  BY <1>1, <1>2 DEF ResponseFails
<1>3. CASE ResponseRejected(g, ctx, outcome)
  BY <1>3 DEF ResponseRejected, GoalError
<1>4. CASE DeferredCancelFails(g, ctx, outcome)
  BY <1>4 DEF DeferredCancelFails
<1>5. CASE ResultArrives(g, ctx, outcome)
  <2>1. CASE outcome = GoalError(g, "navigation_failed")
    BY <1>1, <1>5, <2>1 DEF ResultArrives
  <2>2. CASE outcome = ResultOutcome(g)
    BY <1>1, <1>5, <2>2 DEF ResultArrives, ResultOutcome
  <2> QED  BY <1>5, <2>1, <2>2 DEF ResultArrives
<1>6. CASE CancelRefused(g, ctx, outcome)
  BY <1>6 DEF CancelRefused
<1> QED  BY <1>2, <1>3, <1>4, <1>5, <1>6 DEF Callback

LEMMA PopFacts ==
  ASSUME AdapterTypeOK, NEW g \in Goal, Tracked(g)
  PROVE  /\ Pop(context, g) \in [Goal -> Context]
         /\ \A h \in Goal : Pop(context, g)[h].phase # "absent" <=> context[h].phase # "absent"
         /\ \A h \in Goal : Pop(context, g)[h].cancelRequested = context[h].cancelRequested
         /\ \A h \in Goal \ {g} : Pop(context, g)[h] = context[h]
BY DEF AdapterTypeOK, Pop, Context, Phase, Tracked

LEMMA AcceptedFacts ==
  ASSUME AdapterTypeOK, NEW g \in Goal, ResponseAccepted(g)
  PROVE  /\ context' \in [Goal -> Context] /\ cancelCall' \in [Goal -> Nat]
         /\ server' = server /\ refused' = refused
         /\ context[g].phase = "sent" /\ context'[g].phase = "accepted"
         /\ \A h \in Goal \ {g} : context'[h] = context[h] /\ cancelCall'[h] = cancelCall[h]
         /\ \A h \in Goal : context'[h].cancelRequested = context[h].cancelRequested
         /\ cancelCall'[g] # cancelCall[g] => context[g].cancelRequested
<1>1. /\ context[g].phase = "sent"
      /\ context' = [context EXCEPT ![g].phase = "accepted"]
      /\ cancelCall' = IF context[g].cancelRequested
                         THEN [cancelCall EXCEPT ![g] = @ + 1] ELSE cancelCall
      /\ server' = server /\ refused' = refused
  BY DEF ResponseAccepted
<1>2. context[g] \in Context /\ cancelCall[g] \in Nat
  BY DEF AdapterTypeOK
<1>3. [context[g] EXCEPT !.phase = "accepted"] \in Context
  BY <1>2 DEF Context, Phase
<1>4. context' = [context EXCEPT ![g] = [context[g] EXCEPT !.phase = "accepted"]]
  BY <1>1
<1>5. context' \in [Goal -> Context] /\ \A h \in Goal \ {g} : context'[h] = context[h]
  BY <1>3, <1>4 DEF AdapterTypeOK
<1>6. context'[g].phase = "accepted" /\ context'[g].cancelRequested = context[g].cancelRequested
  BY <1>2, <1>4 DEF AdapterTypeOK, Context
<1>7. cancelCall' \in [Goal -> Nat] /\ \A h \in Goal \ {g} : cancelCall'[h] = cancelCall[h]
  BY <1>1, <1>2 DEF AdapterTypeOK
<1> QED  BY <1>1, <1>5, <1>6, <1>7

-----------------------------------------------------------------------------
(* The action server.                                                       *)

\* The server leaves what it ended or rejected alone, and cancels nothing that
\* it was not asked to.
LEMMA ServerFacts ==
  ASSUME AdapterTypeOK, AsksAgree, Server
  PROVE  /\ AdapterTypeOK' /\ AsksAgree'
         /\ context' = context
         /\ \A g \in Goal : server'[g] # server[g] => server[g] \in Live
<1>1. PICK g \in Goal : ServerAnswers(g) \/ ServerFinishes(g) \/ ServerCancels(g)
  BY DEF Server
<1>2. /\ server \in [Goal -> ServerState] /\ cancelCall \in [Goal -> Nat]
      /\ refused \in [Goal -> BOOLEAN] /\ cancelCall[g] \in Nat
  BY DEF AdapterTypeOK
<1>3. context' = context
  BY <1>1 DEF ServerAnswers, ServerFinishes, ServerCancels
<1>4. CASE ServerAnswers(g) \/ ServerFinishes(g)
  <2>1. PICK s \in ServerState :
          /\ server' = [server EXCEPT ![g] = s]
          /\ server[g] \in Live
          /\ s \in {"canceling", "canceled"} => server[g] = "canceling"
    BY <1>4 DEF ServerAnswers, ServerFinishes, ServerState, Live, Ended
  <2>2. cancelCall' = cancelCall /\ refused' = refused
    BY <1>4 DEF ServerAnswers, ServerFinishes
  <2>3. server' \in [Goal -> ServerState]
    BY <1>2, <2>1
  <2>4. AdapterTypeOK'
    BY <1>3, <2>2, <2>3 DEF AdapterTypeOK
  <2>5. AsksAgree'
    BY <1>2, <1>3, <2>1, <2>2 DEF AsksAgree
  <2> QED  BY <1>2, <1>3, <2>1, <2>4, <2>5
<1>5. CASE ServerCancels(g)
  <2>1. /\ cancelCall[g] > 0 /\ cancelCall' = [cancelCall EXCEPT ![g] = @ - 1]
        /\ refused' \in {refused, [refused EXCEPT ![g] = TRUE]}
        /\ \/ server' = server
           \/ server[g] = "executing" /\ server' = [server EXCEPT ![g] = "canceling"]
    BY <1>5 DEF ServerCancels
  <2>2. cancelCall[g] - 1 \in Nat
    BY <1>2, <2>1
  <2>3. cancelCall' \in [Goal -> Nat] /\ \A h \in Goal : cancelCall'[h] > 0 => cancelCall[h] > 0
    BY <1>2, <2>1, <2>2
  <2>4. server' \in [Goal -> ServerState]
    BY <1>2, <2>1 DEF ServerState, Live
  <2>5. refused' \in [Goal -> BOOLEAN]
    BY <1>2, <2>1
  <2>6. AdapterTypeOK'
    BY <1>3, <2>3, <2>4, <2>5 DEF AdapterTypeOK
  <2>7. AsksAgree'
    <3>1. \A h \in Goal : refused'[h] => refused[h] \/ h = g
      BY <1>2, <2>1
    <3>2. context[g].cancelRequested
      BY <2>1 DEF AsksAgree
    <3> QED  BY <1>2, <1>3, <2>1, <2>3, <3>1, <3>2 DEF AsksAgree
  <2> QED  BY <1>2, <1>3, <2>1, <2>6, <2>7 DEF Live
<1> QED  BY <1>1, <1>4, <1>5

-----------------------------------------------------------------------------
(* Cancelling what is pending.                                              *)

\* Every robot of S has been told to stop, for why[robot]; those of X could not
\* be told, and have nothing left to wait for.
ToldToStop(S, X, why, ctx, res) ==
  /\ pending' = S \ X
  /\ cancelStatus' = [r \in Robot |-> IF r \in S THEN why[r] ELSE cancelStatus[r]]
  /\ result' = [r \in Robot |-> IF r \in X THEN "cancel_failed" ELSE res[r]]
  /\ \A r \in S : context'[token[r]].cancelRequested
  /\ \A r \in S \ X : context'[token[r]].phase = ctx[token[r]].phase
  /\ \A g \in Goal : (\A r \in S : token[r] # g) =>
       context'[g] = ctx[g] /\ cancelCall'[g] = cancelCall[g]

LEMMA CancelPendingStep ==
  ASSUME NEW S \in SUBSET Robot, NEW ctx \in [Goal -> Context], NEW why, NEW res,
         \A r \in S : token[r] \in Goal /\ token[r].robot = r,
         cancelCall \in [Goal -> Nat],
         CancelPending(S, why, ctx, res)
  PROVE  /\ context' \in [Goal -> Context] /\ cancelCall' \in [Goal -> Nat]
         /\ \E X \in SUBSET S : ToldToStop(S, X, why, ctx, res)
<1>1. PICK X \in SUBSET {r \in S : SendMayFail(ctx, token[r])} :
        /\ Cancel(ctx, {token[r] : r \in S}, {token[r] : r \in X})
        /\ cancelStatus' = [r \in Robot |-> IF r \in S THEN why[r] ELSE cancelStatus[r]]
        /\ pending' = S \ X
        /\ result' = [r \in Robot |-> IF r \in X THEN "cancel_failed" ELSE res[r]]
  BY DEF CancelPending
<1> DEFINE T == {token[r] : r \in S}
           Y == {token[r] : r \in X}
<1>2. context' = [g \in Goal |->
         IF g \in Y THEN [phase |-> "popped", cancelRequested |-> TRUE]
         ELSE IF g \in T THEN [ctx[g] EXCEPT !.cancelRequested = TRUE] ELSE ctx[g]]
  BY <1>1 DEF Cancel
<1>3. cancelCall' = [g \in Goal |->
         IF g \in T \ Y /\ ctx[g].phase = "accepted" THEN cancelCall[g] + 1 ELSE cancelCall[g]]
  BY <1>1 DEF Cancel
<1>4. X \in SUBSET S /\ Y \subseteq T /\ T \subseteq Goal
  BY <1>1
<1>5. \A r \in S : token[r] \in T /\ (token[r] \in Y <=> r \in X)
  BY <1>4
<1> HIDE DEF T, Y
<1>6. ASSUME NEW g \in Goal
      PROVE  /\ context'[g] \in Context
             /\ g \in T => context'[g].cancelRequested
             /\ g \in T \ Y => context'[g].phase = ctx[g].phase
             /\ g \notin T => context'[g] = ctx[g]
  <2>1. ctx[g] \in Context
    OBVIOUS
  <2>2. CASE g \in Y
    <3>1. context'[g] = [phase |-> "popped", cancelRequested |-> TRUE]
      BY <1>2, <2>2
    <3> QED  BY <1>4, <2>2, <3>1 DEF Context, Phase
  <2>3. CASE g \in T \ Y
    <3>1. context'[g] = [ctx[g] EXCEPT !.cancelRequested = TRUE]
      BY <1>2, <2>3
    <3> QED  BY <2>1, <2>3, <3>1 DEF Context
  <2>4. CASE g \notin T
    <3>1. context'[g] = ctx[g]
      BY <1>2, <1>4, <2>4
    <3> QED  BY <2>1, <2>4, <3>1
  <2> QED  BY <2>2, <2>3, <2>4
<1>7. context' \in [Goal -> Context]
  BY <1>2, <1>6
<1>8. cancelCall' \in [Goal -> Nat] /\ \A g \in Goal \ T : cancelCall'[g] = cancelCall[g]
  BY <1>3
<1>9. \A r \in S : context'[token[r]].cancelRequested
  BY <1>5, <1>6
<1>10. \A r \in S \ X : context'[token[r]].phase = ctx[token[r]].phase
  BY <1>5, <1>6
<1>11. ASSUME NEW g \in Goal, \A r \in S : token[r] # g
       PROVE  context'[g] = ctx[g] /\ cancelCall'[g] = cancelCall[g]
  <2>1. g \notin T
    BY <1>11 DEF T
  <2> QED  BY <1>6, <1>8, <2>1
<1>12. ToldToStop(S, X, why, ctx, res)
  BY <1>1, <1>9, <1>10, <1>11 DEF ToldToStop
<1> QED  BY <1>4, <1>7, <1>8, <1>12

\* Cancelling is asking.
LEMMA CancelAgrees ==
  ASSUME AdapterTypeOK, AsksAgree, NEW S \in SUBSET Robot, NEW X \in SUBSET S,
         NEW ctx \in [Goal -> Context], NEW why, NEW res,
         \A g \in Goal : ctx[g].cancelRequested = context[g].cancelRequested,
         ToldToStop(S, X, why, ctx, res), server' = server,
         \A g \in Goal : refused'[g] => refused[g]
  PROVE  /\ AsksAgree'
         /\ \A g \in Goal : context[g].cancelRequested => context'[g].cancelRequested
<1>1. ASSUME NEW g \in Goal
      PROVE  /\ context[g].cancelRequested => context'[g].cancelRequested
             /\ cancelCall'[g] > 0 => context'[g].cancelRequested
  <2>1. CASE \E r \in S : token[r] = g
    BY <2>1 DEF ToldToStop
  <2>2. CASE \A r \in S : token[r] # g
    <3>1. context'[g] = ctx[g] /\ cancelCall'[g] = cancelCall[g]
      BY <2>2 DEF ToldToStop
    <3> QED  BY <3>1 DEF AsksAgree
  <2> QED  BY <2>1, <2>2
<1> QED  BY <1>1 DEF AsksAgree
=============================================================================
