----------------------- MODULE FleetExecution_proofs -----------------------
(***************************************************************************)
(* Safety of execute and execute_formation for any number of robots, any    *)
(* length of the leader's path, every set of faults and every set of stops. *)
(*                                                                          *)
(* The inductive invariant follows one robot's goal through four records:   *)
(* the token, the pending set, the result, and why it was told to stop; and *)
(* it keeps the blame apart: whoever is blamed has failed, or is the one    *)
(* pending robot that was told to stop for a failure.                       *)
(***************************************************************************)
EXTENDS FleetExecution, FleetAdapter_proofs

Participant == IF call = "execute" THEN Robot ELSE {Leader}

\* What a round has sent, still has to send, and waits for.
RoundInv ==
  /\ call = "execute" => round = 1
  /\ todo \cup pending \subseteq Participant
  /\ pc \notin {"dispatch", "done"} => todo = {}
  /\ pc = "ready" => round = 1 /\ token = [r \in Robot |-> NoGoal]
  /\ \A r \in Robot : token[r] \in {NoGoal, RoundGoal(r, round)}
  /\ \A r \in Robot : token[r] # NoGoal => r \in Participant
  /\ \A r \in todo : token[r] = NoGoal
  /\ \A r \in pending : token[r] = RoundGoal(r, round)

\* The goals of later rounds are untouched.
FreshInv ==
  \A g \in Goal : context[g].cancelRequested => g.number < round \/ token[g.robot] = g

\* Who has no result yet, and what the others' results say of Nav2.
Settles(g, as) ==
  \/ as \in {"failed", "cancel_failed"}
  \/ as = "succeeded" /\ server[g] = "succeeded"
  \/ as = "rejected" /\ server[g] = "rejected"
  \/ as \in {"cancelled", "timed_out"} /\ server[g] = "canceled"

ResultInv ==
  /\ \A r \in todo \cup pending : result[r] = None
  /\ pc \notin {"ready", "crashed"} =>
       \A r \in Participant \ (todo \cup pending) : result[r] # None
  /\ \A r \in Robot \ pending : token[r] # NoGoal => Settles(token[r], result[r])

\* Who was told to stop, why, and who is blamed for it.
BlameInv ==
  /\ root # None =>
       /\ todo = {}
       /\ root \in Participant
       /\ \/ result[root] \in PrimaryFailure \cup {"cancel_failed"}
          \/ root \in pending /\ cancelStatus[root] \in {"failed", "timed_out"}
  /\ root # None => \A r \in pending : context[token[r]].cancelRequested
  /\ \A r \in pending : context[token[r]].cancelRequested => cancelStatus[r] # None
  /\ \A r \in Robot :
       /\ cancelStatus[r] \in {None, "cancelled", "failed", "timed_out"}
       /\ cancelStatus[r] \in PrimaryFailure \/ result[r] \in PrimaryFailure => r = root
       /\ cancelStatus[r] # None \/ result[r] = "cancelled" => cancelFlag \/ root # None

\* Whose word the call goes by.
SettleInv ==
  /\ pc \in {"settle", "settle_check"} => call = "formation"
  /\ inbox.operation = "this" => directive = "this"
  /\ status # None => directive = "this"
  /\ SettledHere

\* What every step of the loop has to keep.
CoreInv == AsksAgree /\ RoundInv /\ FreshInv /\ ResultInv /\ BlameInv

IInv == TypeOK /\ CoreInv /\ SettleInv /\ ReturnsABatch

-----------------------------------------------------------------------------
(* Goals and tokens.                                                        *)

LEMMA GoalShape ==
  ASSUME NEW g \in Goal
  PROVE  /\ g.robot \in Robot /\ g.number \in 1 .. Path
         /\ g = RoundGoal(g.robot, g.number)
<1>1. 1 \in 1 .. Path
  BY PathAssumption
<1>2. CASE \E r \in Robot : g = RoundGoal(r, 1)
  BY <1>1, <1>2 DEF RoundGoal
<1>3. CASE \E i \in 1 .. Path : g = RoundGoal(Leader, i)
  BY <1>3, LeaderIsRobot DEF RoundGoal
<1> QED  BY <1>2, <1>3, FleetGoalAssumption

LEMMA NoGoalIsNoGoal == NoGoal \notin Goal
<1>1. SUFFICES ASSUME NoGoal \in Goal PROVE FALSE
  OBVIOUS
<1>2. NoGoal.robot \in Robot
  BY <1>1, GoalShape
<1>3. NoGoal.robot = None
  BY DEF NoGoal
<1> QED  BY <1>2, <1>3, RobotsAssumption

LEMMA ParticipantFacts == Participant \subseteq Robot
BY LeaderIsRobot DEF Participant

LEMMA RoundGoalFacts ==
  ASSUME TypeOK, RoundInv, NEW r \in Participant
  PROVE  /\ r \in Robot /\ RoundGoal(r, round) \in Goal
         /\ RoundGoal(r, round).robot = r /\ RoundGoal(r, round).number = round
         /\ RoundGoal(r, round) # NoGoal
<1>1. r \in Robot
  BY ParticipantFacts
<1>2. RoundGoal(r, round) \in Goal
  BY <1>1, FleetGoalAssumption DEF TypeOK, RoundInv, Participant
<1> QED  BY <1>1, <1>2, NoGoalIsNoGoal DEF RoundGoal

LEMMA TokenFacts ==
  ASSUME TypeOK, RoundInv, NEW r \in Robot, token[r] # NoGoal
  PROVE  /\ r \in Participant /\ token[r] = RoundGoal(r, round)
         /\ token[r] \in Goal /\ token[r].robot = r /\ token[r].number = round
<1>1. r \in Participant /\ token[r] = RoundGoal(r, round)
  BY DEF RoundInv
<1> QED  BY <1>1, RoundGoalFacts

LEMMA PendingFacts ==
  ASSUME TypeOK, RoundInv, NEW r \in pending
  PROVE  /\ r \in Robot /\ r \in Participant /\ token[r] # NoGoal
         /\ token[r] \in Goal /\ token[r].robot = r
<1>1. r \in Participant /\ token[r] = RoundGoal(r, round)
  BY DEF RoundInv
<1> QED  BY <1>1, RoundGoalFacts

-----------------------------------------------------------------------------
(* Steps that neither send, nor resolve, nor cancel.                        *)

LEMMA QuietKeeps ==
  ASSUME IInv, AsksAgree',
         \A g \in Goal : context'[g].cancelRequested = context[g].cancelRequested,
         \A g \in Goal : server'[g] # server[g] => server[g] \in Live,
         UNCHANGED <<resolveVars, call, round, todo>>,
         cancelFlag => cancelFlag',
         pc' # "ready", pc' \notin {"dispatch", "done"} => todo = {},
         pc' # "crashed" => pc \notin {"ready", "crashed"}
  PROVE  CoreInv'
<1> USE DEF IInv, CoreInv
<1>1. /\ token' = token /\ pending' = pending /\ result' = result
      /\ cancelStatus' = cancelStatus /\ root' = root
      /\ call' = call /\ round' = round /\ todo' = todo /\ Participant' = Participant
  BY DEF resolveVars, Participant
<1>2. RoundInv'
  BY <1>1 DEF RoundInv
<1>3. FreshInv'
  BY <1>1 DEF FreshInv
<1>4. ResultInv'
  <2>1. ASSUME NEW r \in Robot \ pending, token[r] # NoGoal
        PROVE  Settles(token[r], result[r])'
    <3>1. Settles(token[r], result[r]) /\ token[r] \in Goal
      BY <2>1, TokenFacts DEF ResultInv
    <3> QED  BY <1>1, <3>1 DEF Settles, Live
  <2> QED  BY <1>1, <2>1 DEF ResultInv
<1>5. BlameInv'
  <2>1. \A r \in pending : context'[token[r]].cancelRequested = context[token[r]].cancelRequested
    BY PendingFacts
  <2> QED  BY <1>1, <2>1 DEF BlameInv
<1> QED  BY <1>2, <1>3, <1>4, <1>5

\* As long as the call goes on there is nothing to say of its result.
LEMMA NotDone ==
  ASSUME IInv, pc' # "done", UNCHANGED <<formationVars, call>>,
         pc' \in {"settle", "settle_check"} => call = "formation"
  PROVE  SettleInv' /\ ReturnsABatch'
BY DEF IInv, SettleInv, SettledHere, ReturnsABatch, formationVars

\* Steps of the call that leave adapter and results alone.
LEMMA StandingStep ==
  ASSUME IInv, UNCHANGED <<adapterVars, resolveVars, call, round, todo>>,
         cancelFlag' \in BOOLEAN, cancelFlag => cancelFlag',
         pc' \in PC \ {"ready"}, pc' \notin {"dispatch", "done"} => todo = {},
         pc' # "crashed" => pc \notin {"ready", "crashed"},
         status' \in StatusKind \cup {None}, directive' \in Operation \cup {None},
         inbox' \in Message \cup {NoMessage}, report' \in [Robot -> Status \cup {None}]
  PROVE  TypeOK' /\ CoreInv'
<1>1. TypeOK'
  BY DEF IInv, TypeOK, AdapterTypeOK, adapterVars, resolveVars
<1>2. AsksAgree'
  BY DEF IInv, CoreInv, AsksAgree, adapterVars
<1>3. CoreInv'
  BY <1>2, QuietKeeps DEF adapterVars
<1> QED  BY <1>1, <1>3

-----------------------------------------------------------------------------
(* Beginning a round, and sending its goals.                                *)

LEMMA InitIInv == Init => IInv
<1> SUFFICES ASSUME Init PROVE IInv
  OBVIOUS
<1> USE DEF Init, AdapterInit
<1>1. TypeOK
  <2>1. AdapterTypeOK
    BY DEF AdapterTypeOK, Context, Phase, ServerState
  <2>2. round \in 1 .. Path
    BY PathAssumption
  <2>3. All(None) \in [Robot -> Status \cup {None}]
    BY DEF All
  <2>4. cancelFlag \in BOOLEAN
    OBVIOUS
  <2>5. directive \in Operation \cup {None}
    BY DEF Operation
  <2> QED  BY <2>1, <2>2, <2>3, <2>4, <2>5 DEF TypeOK, PC, NoReport
<1>2. AsksAgree /\ RoundInv /\ FreshInv
  BY DEF AsksAgree, RoundInv, FreshInv
<1>3. ResultInv /\ BlameInv
  BY RobotsAssumption DEF ResultInv, BlameInv, All, PrimaryFailure, None
<1>4. SettleInv /\ ReturnsABatch
  BY DEF SettleInv, SettledHere, ReturnsABatch, NoMessage, None
<1> QED  BY <1>1, <1>2, <1>3, <1>4 DEF IInv, CoreInv

LEMMA BeginStep ==
  ASSUME IInv, Begin, round' \in 1 .. Path, call' = call,
         \/ round' = round /\ token = [r \in Robot |-> NoGoal] /\ (call = "execute" => round = 1)
         \/ round' = round + 1 /\ call = "formation",
         UNCHANGED <<adapterVars, formationVars, cancelFlag, report>>
  PROVE  IInv'
<1> USE DEF IInv, CoreInv
<1>1. /\ token' = [r \in Robot |-> NoGoal] /\ pending' = {} /\ result' = All(None)
      /\ cancelStatus' = All(None) /\ root' = None
      /\ todo' = Participant /\ pc' = "dispatch" /\ Participant' = Participant
      /\ context' = context /\ server' = server /\ cancelCall' = cancelCall
      /\ refused' = refused
  BY DEF Begin, Reset, Participant, adapterVars
<1>2. TypeOK'
  BY <1>1, ParticipantFacts DEF TypeOK, AdapterTypeOK, adapterVars, formationVars, All, PC
<1>3. AsksAgree'
  BY <1>1 DEF AsksAgree
<1>4. RoundInv'
  BY <1>1, ParticipantFacts DEF RoundInv
<1>5. FreshInv'
  <2>1. SUFFICES ASSUME NEW g \in Goal, context[g].cancelRequested
                 PROVE  g.number < round'
    BY <1>1 DEF FreshInv
  <2>2. g.robot \in Robot /\ g.number \in Nat /\ round \in Nat /\ g # NoGoal
    BY GoalShape, NoGoalIsNoGoal DEF TypeOK
  <2>3. g.number < round \/ token[g.robot] = g
    BY <2>1 DEF FreshInv
  <2>4. CASE g.number < round
    BY <2>2, <2>4
  <2>5. CASE token[g.robot] = g
    <3>1. g.number = round /\ token[g.robot] # NoGoal
      BY <2>2, <2>5, TokenFacts
    <3> QED  BY <2>2, <3>1
  <2> QED  BY <2>3, <2>4, <2>5
<1>6. ResultInv' /\ BlameInv'
  BY <1>1, ParticipantFacts, RobotsAssumption DEF ResultInv, BlameInv, All, PrimaryFailure, None
<1>7. SettleInv' /\ ReturnsABatch'
  BY <1>1, NotDone
<1> QED  BY <1>2, <1>3, <1>4, <1>5, <1>6, <1>7

LEMMA DispatchGoalStep ==
  ASSUME IInv, NEW r \in Robot, DispatchGoal(r)
  PROVE  IInv'
<1> USE DEF IInv, CoreInv
<1> DEFINE g == RoundGoal(r, round)
<1>1. /\ pc = "dispatch" /\ pc' = pc /\ Dispatch(g) /\ r \in todo
      /\ token' = [token EXCEPT ![r] = g] /\ pending' = pending \cup {r} /\ todo' = todo \ {r}
      /\ UNCHANGED <<result, cancelStatus, root, formationVars, call, round, cancelFlag, report>>
  BY FirstIsIn DEF DispatchGoal, TypeOK
<1>2. /\ r \in Participant /\ token[r] = NoGoal /\ result[r] = None /\ r \in Robot
      /\ g \in Goal /\ g.robot = r /\ g.number = round /\ g # NoGoal
      /\ root = None /\ Participant' = Participant
      /\ token \in [Robot -> Goal \cup {NoGoal}] /\ round \in Nat
  BY <1>1, RoundGoalFacts DEF RoundInv, ResultInv, BlameInv, Participant, TypeOK
<1> HIDE DEF g
<1>3. /\ AdapterTypeOK' /\ server'[g] = "requested"
      /\ \A h \in Goal : context'[h].cancelRequested = context[h].cancelRequested
      /\ \A h \in Goal \ {g} : server'[h] = server[h]
      /\ cancelCall' = cancelCall /\ refused' = refused
  BY <1>1, <1>2, DispatchFacts DEF TypeOK
<1>4. ~ context[g].cancelRequested
  BY <1>2 DEF FreshInv
<1>5. token'[r] = g /\ \A s \in Robot \ {r} : token'[s] = token[s]
  BY <1>1, <1>2
<1>6. TypeOK'
  BY <1>1, <1>2, <1>3 DEF TypeOK, formationVars
<1>7. AsksAgree'
  BY <1>3 DEF AsksAgree
<1>8. RoundInv'
  BY <1>1, <1>2, <1>5 DEF RoundInv, g
<1>9. FreshInv'
  BY <1>1, <1>2, <1>3, <1>4, <1>5, GoalShape, NoGoalIsNoGoal DEF FreshInv
<1>10. ResultInv'
  <2>1. ASSUME NEW s \in Robot \ pending', token'[s] # NoGoal
        PROVE  Settles(token[s], result[s])'
    <3>1. s # r /\ token'[s] = token[s] /\ result' = result
      BY <1>1, <1>5, <2>1
    <3>2. Settles(token[s], result[s]) /\ token[s] \in Goal /\ token[s] # g
      BY <1>1, <1>2, <2>1, <3>1, TokenFacts DEF ResultInv
    <3> QED  BY <1>3, <3>1, <3>2 DEF Settles
  <2> QED  BY <1>1, <1>2, <2>1 DEF ResultInv
<1>11. BlameInv'
  <2>1. ASSUME NEW s \in pending', context'[token'[s]].cancelRequested
        PROVE  cancelStatus'[s] # None
    <3>1. CASE s = r
      BY <1>2, <1>3, <1>4, <1>5, <2>1, <3>1
    <3>2. CASE s # r
      <4>1. s \in pending /\ s \in Robot /\ token'[s] = token[s] /\ token[s] \in Goal
        BY <1>1, <1>5, <3>2, PendingFacts
      <4> QED  BY <1>1, <1>3, <2>1, <4>1 DEF BlameInv
    <3> QED  BY <3>1, <3>2
  <2> QED  BY <1>1, <1>2, <2>1 DEF BlameInv
<1>12. SettleInv' /\ ReturnsABatch'
  BY <1>1, NotDone
<1> QED  BY <1>6, <1>7, <1>8, <1>9, <1>10, <1>11, <1>12

-----------------------------------------------------------------------------
(* Stopping: every robot of S, which is what is left to wait for, is told.  *)

MayStop(S, why, res) ==
  /\ S \subseteq pending
  /\ \A r \in S : res[r] = None
  /\ \A r \in Participant \ S : res[r] # None
  /\ \A r \in Robot \ S : token[r] # NoGoal => Settles(token[r], res[r])
  /\ \A r \in Robot :
       /\ res[r] \in Status \cup {None}
       /\ why[r] \in {"cancelled", "failed", "timed_out"}
       /\ \/ why[r] \in PrimaryFailure
          \/ cancelStatus[r] \in PrimaryFailure
          \/ res[r] \in PrimaryFailure
          => r = root'
  /\ cancelFlag \/ root' # None
  /\ root' # None =>
       /\ root' \in Participant
       /\ \/ root' \notin S /\ res[root'] \in PrimaryFailure \cup {"cancel_failed"}
          \/ root' \in S /\ why[root'] \in {"failed", "timed_out"}

LEMMA StopKeeps ==
  ASSUME IInv, NEW S \in SUBSET Robot, NEW ctx \in [Goal -> Context], NEW why, NEW res,
         \A g \in Goal : ctx[g].cancelRequested = context[g].cancelRequested,
         MayStop(S, why, res), CancelPending(S, why, ctx, res),
         UNCHANGED <<token, server, call, round, cancelFlag, formationVars, report>>,
         refused' \in [Goal -> BOOLEAN], \A g \in Goal : refused'[g] => refused[g],
         root' \in Robot \cup {None}, todo' = {},
         pc' \in {"dispatch", "top", "check", "wait"}
  PROVE  IInv'
<1> USE DEF IInv, CoreInv
<1>1. PICK X \in SUBSET S : ToldToStop(S, X, why, ctx, res)
  BY PendingFacts, CancelPendingStep DEF MayStop, TypeOK, AdapterTypeOK
<1>2. context' \in [Goal -> Context] /\ cancelCall' \in [Goal -> Nat]
  BY PendingFacts, CancelPendingStep DEF MayStop, TypeOK, AdapterTypeOK
<1>3. /\ pending' = S \ X
      /\ cancelStatus' = [r \in Robot |-> IF r \in S THEN why[r] ELSE cancelStatus[r]]
      /\ result' = [r \in Robot |-> IF r \in X THEN "cancel_failed" ELSE res[r]]
      /\ \A r \in S : context'[token[r]].cancelRequested
      /\ \A g \in Goal : (\A r \in S : token[r] # g) =>
           context'[g] = ctx[g] /\ cancelCall'[g] = cancelCall[g]
  BY <1>1 DEF ToldToStop
<1>4. TypeOK'
  BY <1>2, <1>3 DEF TypeOK, AdapterTypeOK, MayStop, Status, formationVars, PC
<1>5. AsksAgree'
  BY <1>1, CancelAgrees DEF TypeOK
<1>6. Participant' = Participant /\ Participant \subseteq Robot /\ pending' \subseteq pending
  BY <1>3, ParticipantFacts DEF Participant, MayStop
<1>7. RoundInv'
  BY <1>6 DEF RoundInv
<1>8. FreshInv'
  <2>1. SUFFICES ASSUME NEW g \in Goal, context'[g].cancelRequested
                 PROVE  g.number < round \/ token[g.robot] = g
    BY DEF FreshInv
  <2>2. CASE \E r \in S : token[r] = g
    BY <2>2, PendingFacts DEF MayStop
  <2>3. CASE \A r \in S : token[r] # g
    BY <1>3, <2>1, <2>3 DEF FreshInv
  <2> QED  BY <2>2, <2>3
<1>9. ResultInv'
  <2>1. ASSUME NEW r \in Robot \ pending', token[r] # NoGoal
        PROVE  Settles(token[r], result[r])'
    <3>1. CASE r \in X
      BY <1>3, <3>1 DEF Settles
    <3>2. CASE r \notin X
      <4>1. Settles(token[r], res[r]) /\ result'[r] = res[r]
        BY <1>3, <2>1, <3>2 DEF MayStop
      <4> QED  BY <4>1 DEF Settles
    <3> QED  BY <3>1, <3>2
  <2>2. \A r \in Participant \ pending' : result'[r] # None
    BY <1>3, <1>6 DEF MayStop, None
  <2>3. \A r \in pending' : result'[r] = None
    BY <1>3 DEF MayStop
  <2> QED  BY <1>6, <2>1, <2>2, <2>3 DEF ResultInv
<1>10. BlameInv'
  <2>1. ASSUME NEW r \in Robot
        PROVE  /\ cancelStatus'[r] \in {None, "cancelled", "failed", "timed_out"}
               /\ cancelStatus'[r] \in PrimaryFailure \/ result'[r] \in PrimaryFailure => r = root'
    BY <1>3 DEF MayStop, BlameInv, PrimaryFailure
  <2>2. ASSUME root' # None
        PROVE  \/ result'[root'] \in PrimaryFailure \cup {"cancel_failed"}
               \/ root' \in pending' /\ cancelStatus'[root'] \in {"failed", "timed_out"}
    BY <1>3, <1>6, <2>2 DEF MayStop
  <2>3. \A r \in pending' : context'[token[r]].cancelRequested /\ cancelStatus'[r] # None
    BY <1>3 DEF MayStop, None
  <2> QED  BY <1>6, <2>1, <2>2, <2>3 DEF BlameInv, MayStop
<1>11. SettleInv' /\ ReturnsABatch'
  BY NotDone
<1> QED  BY <1>4, <1>5, <1>7, <1>8, <1>9, <1>10, <1>11

LEMMA DispatchFailsStep ==
  ASSUME IInv, NEW r \in Robot, DispatchFails(r)
  PROVE  IInv'
<1> USE DEF IInv, CoreInv
<1>1. pc = "dispatch" /\ r \in todo /\ UNCHANGED <<server, refused, call, round, cancelFlag>>
  BY FirstIsIn DEF DispatchFails, TypeOK
<1>2. /\ r \in Participant /\ r \notin pending /\ token[r] = NoGoal /\ root = None
      /\ result[r] = None
  BY <1>1, PendingFacts DEF RoundInv, BlameInv, ResultInv
<1>3. CASE DispatchError(r)
  <2> DEFINE res == [s \in Robot |-> IF s = r THEN "rejected"
                                     ELSE IF s \in todo THEN "cancelled" ELSE result[s]]
             why == All("cancelled")
  <2>1. /\ call = "execute" /\ root' = r /\ todo' = {} /\ pc' = pc
        /\ CancelPending(pending, why, context, res)
        /\ UNCHANGED <<token, formationVars, report>>
    BY <1>3 DEF DispatchError
  <2>2. /\ \A s \in pending : s # r /\ s \notin todo /\ res[s] = None
        /\ \A s \in Robot \ pending : res[s] # None
    BY <1>1, <1>2, <2>1, PendingFacts DEF RoundInv, ResultInv, Participant, None
  <2>3. \A s \in Robot \ pending : token[s] # NoGoal => Settles(token[s], res[s])
    BY <1>2 DEF RoundInv, ResultInv
  <2>4. \A s \in Robot :
          /\ why[s] = "cancelled" /\ res[s] \in Status \cup {None}
          /\ cancelStatus[s] \notin PrimaryFailure
          /\ res[s] \in PrimaryFailure => s = r
    BY <1>2, RobotsAssumption DEF BlameInv, TypeOK, Status, PrimaryFailure, All
  <2>5. res[r] = "rejected"
    OBVIOUS
  <2> HIDE DEF res, why
  <2>6. MayStop(pending, why, res)
    BY <1>2, <2>1, <2>2, <2>3, <2>4, <2>5, ParticipantFacts, RobotsAssumption
    DEF MayStop, PrimaryFailure
  <2> QED  BY <1>1, <2>1, <2>6, StopKeeps DEF TypeOK, AdapterTypeOK, PC
<1>4. CASE LeaderDispatchError
  <2>1. /\ report' = FormationFailure("rejected") /\ pc' = "done" /\ status' = None
        /\ call = "formation"
        /\ UNCHANGED <<adapterVars, resolveVars, directive, inbox, todo>>
    BY <1>1, <1>4 DEF LeaderDispatchError, adapterVars
  <2>2. report' \in [Robot -> Status \cup {None}] /\ ~ Succeeded(report')
    BY <2>1, LeaderIsRobot DEF FormationFailure, All, Status, Succeeded
  <2>3. TypeOK' /\ CoreInv'
    BY <1>1, <2>1, <2>2, StandingStep DEF TypeOK, PC
  <2>4. ReturnsABatch'
    BY <1>1, <2>1 DEF ReturnsABatch, FormationResults, PrimaryFailure
  <2>5. SettleInv'
    BY <1>1, <2>1, <2>2 DEF SettleInv, SettledHere, Succeeded
  <2> QED  BY <2>3, <2>4, <2>5
<1> QED  BY <1>3, <1>4 DEF DispatchFails

-----------------------------------------------------------------------------
(* Resolving one robot.                                                     *)

LEMMA ResolvedKeeps ==
  ASSUME IInv, NEW r \in pending, NEW as \in Status, Settles(token[r], as),
         as \in PrimaryFailure => r = root,
         as = "cancelled" => cancelFlag \/ root # None,
         r = root => as \in PrimaryFailure \cup {"cancel_failed"},
         \A g \in Goal : context'[g].cancelRequested = context[g].cancelRequested,
         \A g \in Goal : refused'[g] => refused[g],
         result' = [result EXCEPT ![r] = as], pending' = pending \ {r},
         UNCHANGED <<token, cancelStatus, root, server, cancelCall, call, round, todo, cancelFlag>>,
         pc \in {"top", "wait"}, pc' # "ready"
  PROVE  CoreInv'
<1> USE DEF IInv, CoreInv
<1>1. /\ r \in Robot /\ Participant' = Participant /\ Participant \subseteq Robot /\ todo = {}
      /\ result \in [Robot -> Status \cup {None}]
      /\ result'[r] = as /\ \A s \in Robot \ {r} : result'[s] = result[s]
      /\ as # None
  BY PendingFacts, ParticipantFacts DEF Participant, RoundInv, TypeOK, Status, None
<1>2. AsksAgree'
  BY DEF AsksAgree
<1>3. RoundInv'
  BY <1>1 DEF RoundInv
<1>4. FreshInv'
  BY <1>1 DEF FreshInv
<1>5. ResultInv'
  <2>1. ASSUME NEW s \in Robot \ pending', token[s] # NoGoal
        PROVE  Settles(token[s], result[s])'
    <3>1. Settles(token[s], result'[s])
      BY <1>1, <2>1 DEF ResultInv
    <3> QED  BY <3>1 DEF Settles
  <2> QED  BY <1>1, <2>1 DEF ResultInv, RoundInv
<1>6. BlameInv'
  <2>1. \A s \in pending : context'[token[s]].cancelRequested = context[token[s]].cancelRequested
    BY PendingFacts
  <2> QED  BY <1>1, <2>1, ParticipantFacts DEF BlameInv
<1> QED  BY <1>2, <1>3, <1>4, <1>5, <1>6

LEMMA SpinOutcomeStep ==
  ASSUME IInv, NEW g \in Goal, SpinOutcome(g)
  PROVE  IInv'
<1> USE DEF IInv, CoreInv
<1> DEFINE ctx == Pop(context, g)
           r == g.robot
<1>1. /\ pc \in {"top", "wait"} /\ pc' \in {"check", "wait"} /\ todo = {}
      /\ refused' = [refused EXCEPT ![g] = FALSE]
      /\ UNCHANGED <<server, formationVars, call, round, todo, cancelFlag, report>>
  BY DEF SpinOutcome, Spinning, Spun, RoundInv
<1>2. PICK outcome \in Outcome :
        /\ Callback(g, ctx, outcome)
        /\ IF MatchesPending(r, g) THEN Resolve(r, outcome, ctx)
           ELSE context' = ctx /\ UNCHANGED <<cancelCall, resolveVars>>
  BY DEF SpinOutcome
<1>3. Tracked(g) /\ Told(g, outcome) /\ AdapterTypeOK
  BY <1>2, CallbackFacts DEF TypeOK
<1>4. /\ ctx \in [Goal -> Context]
      /\ \A h \in Goal : ctx[h].cancelRequested = context[h].cancelRequested
  BY <1>3, PopFacts
<1>5. refused' \in [Goal -> BOOLEAN] /\ \A h \in Goal : refused'[h] => refused[h]
  BY <1>1, <1>3 DEF AdapterTypeOK
<1>6. SettleInv' /\ ReturnsABatch'
  BY <1>1, NotDone
<1> HIDE DEF ctx
<1>7. CASE ~ MatchesPending(r, g)
  <2>1. context' = ctx /\ UNCHANGED <<cancelCall, resolveVars>>
    BY <1>2, <1>7
  <2>2. TypeOK'
    BY <1>1, <1>3, <1>4, <1>5, <2>1 DEF TypeOK, AdapterTypeOK, resolveVars, formationVars, PC
  <2>3. AsksAgree'
    BY <1>1, <1>4, <1>5, <2>1 DEF AsksAgree
  <2>4. CoreInv'
    BY <1>1, <1>4, <2>1, <2>3, QuietKeeps
  <2> QED  BY <1>6, <2>2, <2>4
<1>8. CASE MatchesPending(r, g)
  <2>1. r \in pending /\ token[r] = g /\ r \in Robot /\ r \in Participant /\ result[r] = None
    BY <1>8, PendingFacts DEF MatchesPending, ResultInv
  <2>2. Resolve(r, outcome, ctx)
    BY <1>2, <1>8
  <2> HIDE DEF r
  <2>3. ASSUME NEW as \in Status, Resolved(r, as, ctx), Settles(g, as),
               as \in PrimaryFailure => r = root,
               as = "cancelled" => cancelFlag \/ root # None,
               r = root => as \in PrimaryFailure \cup {"cancel_failed"}
        PROVE  IInv'
    <3>1. /\ result' = [result EXCEPT ![r] = as] /\ pending' = pending \ {r} /\ context' = ctx
          /\ UNCHANGED <<cancelCall, token, cancelStatus, root>>
      BY <2>3 DEF Resolved
    <3>2. CoreInv'
      BY <1>1, <1>4, <1>5, <2>1, <2>3, <3>1, ResolvedKeeps
    <3>3. TypeOK'
      BY <1>1, <1>3, <1>4, <1>5, <2>1, <3>1 DEF TypeOK, AdapterTypeOK, formationVars, PC
    <3> QED  BY <1>6, <3>2, <3>3
  <2>4. ASSUME NEW as \in {"failed", "rejected"}, NavigationFailed(r, as, ctx), Settles(g, as)
        PROVE  IInv'
    <3>1. CASE root # None
      <4>1. Resolved(r, "cancel_failed", ctx)
        BY <2>4, <3>1 DEF NavigationFailed
      <4> QED  BY <2>3, <4>1 DEF Settles, PrimaryFailure, Status
    <3>2. CASE root = None
      <4> DEFINE res == [result EXCEPT ![r] = as]
                 why == All("cancelled")
                 S == pending \ {r}
      <4>1. root' = r /\ token' = token /\ CancelPending(S, why, ctx, res)
        BY <2>4, <3>2 DEF NavigationFailed
      <4>2. S \in SUBSET Robot /\ S \subseteq pending /\ r \notin S
        BY DEF TypeOK
      <4>3. /\ res[r] = as /\ \A s \in Robot \ {r} : res[s] = result[s]
            /\ as \in Status /\ as \in PrimaryFailure /\ as # None
            /\ \A s \in Robot : why[s] = "cancelled"
        BY <2>1, <2>4 DEF TypeOK, Status, PrimaryFailure, None, All
      <4> HIDE DEF res, why
      <4>4. /\ \A s \in S : res[s] = None
            /\ \A s \in Participant \ S : res[s] # None
        BY <1>1, <4>2, <4>3, ParticipantFacts DEF ResultInv
      <4>5. \A s \in Robot \ S : token[s] # NoGoal => Settles(token[s], res[s])
        BY <2>1, <2>4, <4>3 DEF ResultInv
      <4>6. \A s \in Robot :
              /\ res[s] \in Status \cup {None}
              /\ cancelStatus[s] \notin PrimaryFailure
              /\ res[s] \in PrimaryFailure => s = r
        <5>1. ASSUME NEW s \in Robot
              PROVE  cancelStatus[s] \notin PrimaryFailure /\ result[s] \notin PrimaryFailure
          BY <3>2, RobotsAssumption DEF BlameInv
        <5>2. \A s \in Robot : result[s] \in Status \cup {None}
          BY DEF TypeOK
        <5> QED  BY <2>1, <4>3, <5>1, <5>2
      <4>7. MayStop(S, why, res)
        BY <2>1, <4>1, <4>2, <4>3, <4>4, <4>5, <4>6, RobotsAssumption
        DEF MayStop, PrimaryFailure
      <4> HIDE DEF S
      <4> QED
        BY <1>1, <1>4, <1>5, <2>1, <4>1, <4>2, <4>7, StopKeeps DEF PC
    <3> QED  BY <3>1, <3>2
  <2>5. root # None => context[g].cancelRequested
    BY <2>1 DEF BlameInv
  <2>6. CASE outcome = "navigation_succeeded"
    <3>1. Resolved(r, "succeeded", ctx) /\ server[g] = "succeeded" /\ root = None
      BY <1>3, <2>2, <2>5, <2>6 DEF Resolve, Told
    <3> QED  BY <2>1, <2>3, <3>1, RobotsAssumption DEF Settles, PrimaryFailure, Status
  <2>7. CASE outcome = "navigation_failed"
    BY <2>2, <2>4, <2>7 DEF Resolve, Settles
  <2>8. CASE outcome = "goal_rejected"
    BY <1>3, <2>2, <2>4, <2>8 DEF Resolve, Settles, Told
  <2>9. CASE outcome = "cancellation_confirmed"
    <3>1. Resolved(r, ConfirmedStatus(r), ctx) /\ server[g] = "canceled"
      BY <1>3, <2>2, <2>9 DEF Resolve, Told
    <3>2. cancelStatus[r] # None
      BY <2>1, <3>1 DEF AsksAgree, BlameInv
    <3>3. ConfirmedStatus(r) = cancelStatus[r]
      BY <3>2 DEF ConfirmedStatus
    <3>4. /\ cancelStatus[r] \in {"cancelled", "failed", "timed_out"}
          /\ cancelStatus[r] \in PrimaryFailure => r = root
          /\ cancelFlag \/ root # None
          /\ r = root => cancelStatus[r] \in {"failed", "timed_out"}
      BY <2>1, <3>2, RobotsAssumption DEF BlameInv, PrimaryFailure, None
    <3> QED  BY <2>3, <3>1, <3>3, <3>4 DEF Settles, PrimaryFailure, Status
  <2>10. CASE outcome = "cancellation_failed"
    <3>1. Resolved(r, "cancel_failed", ctx)
      BY <2>2, <2>10 DEF Resolve
    <3> QED  BY <2>3, <3>1 DEF Settles, PrimaryFailure, Status
  <2> QED  BY <1>3, <2>6, <2>7, <2>8, <2>9, <2>10 DEF Told, Outcome
<1> QED  BY <1>7, <1>8

LEMMA SpinAcceptedStep ==
  ASSUME IInv, NEW g \in Goal, SpinAccepted(g)
  PROVE  IInv'
<1> USE DEF IInv, CoreInv
<1>1. /\ pc \in {"top", "wait"} /\ pc' \in {"check", "wait"} /\ todo = {} /\ ResponseAccepted(g)
      /\ UNCHANGED <<resolveVars, formationVars, call, round, todo, cancelFlag, report>>
  BY DEF SpinAccepted, Spinning, Spun, RoundInv
<1>2. /\ context' \in [Goal -> Context] /\ cancelCall' \in [Goal -> Nat]
      /\ server' = server /\ refused' = refused
      /\ \A h \in Goal \ {g} : cancelCall'[h] = cancelCall[h]
      /\ \A h \in Goal : context'[h].cancelRequested = context[h].cancelRequested
      /\ cancelCall'[g] # cancelCall[g] => context[g].cancelRequested
  BY <1>1, AcceptedFacts DEF TypeOK
<1>3. TypeOK'
  BY <1>1, <1>2 DEF TypeOK, AdapterTypeOK, resolveVars, formationVars, PC
<1>4. AsksAgree'
  BY <1>2 DEF AsksAgree
<1>5. CoreInv'
  BY <1>1, <1>2, <1>4, QuietKeeps
<1> QED  BY <1>1, <1>3, <1>5, NotDone

LEMMA ServerStepKeeps ==
  ASSUME IInv, ServerStep
  PROVE  IInv'
<1> USE DEF IInv, CoreInv
<1>1. /\ pc \in {"top", "wait"} /\ pc' = pc /\ todo = {} /\ Server
      /\ UNCHANGED <<resolveVars, formationVars, call, round, todo, cancelFlag, report>>
  BY DEF ServerStep, Spinning, RoundInv
<1>2. /\ AdapterTypeOK' /\ AsksAgree' /\ context' = context
      /\ \A g \in Goal : server'[g] # server[g] => server[g] \in Live
  BY <1>1, ServerFacts DEF TypeOK
<1>3. TypeOK'
  BY <1>1, <1>2 DEF TypeOK, resolveVars, formationVars
<1>4. CoreInv'
  BY <1>1, <1>2, QuietKeeps
<1> QED  BY <1>1, <1>3, <1>4, NotDone

-----------------------------------------------------------------------------
(* The checks and the deadlines.                                            *)

LEMMA NoStopKeeps ==
  ASSUME IInv, NoStop, pc \in {"top", "check"}, pc' \in {"top", "wait"},
         UNCHANGED <<server, refused, formationVars, call, round, todo, cancelFlag, report>>
  PROVE  IInv'
<1>1. UNCHANGED <<adapterVars, resolveVars>>
  BY DEF NoStop, adapterVars
<1>2. TypeOK' /\ CoreInv'
  BY <1>1, StandingStep DEF IInv, TypeOK, formationVars, PC, CoreInv, RoundInv
<1> QED  BY <1>2, NotDone DEF IInv

\* What is common to every way of stopping all that is pending.
LEMMA StopAllKeeps ==
  ASSUME IInv, NEW why, CancelPending(pending, why, context, result),
         \A r \in Robot : why[r] \in {"cancelled", "failed", "timed_out"},
         root' \in Participant \cup {None}, cancelFlag \/ root' # None,
         \A r \in Robot : why[r] \in PrimaryFailure => r = root',
         root # None => root' = root,
         root' \in pending => why[root'] \in {"failed", "timed_out"} \/ root' # root,
         root = None /\ root' # None => root' \in pending /\ why[root'] \in {"failed", "timed_out"},
         token' = token, pc \in {"top", "check"}, pc' \in {"top", "wait"},
         UNCHANGED <<server, refused, formationVars, call, round, todo, cancelFlag, report>>
  PROVE  IInv'
<1> USE DEF IInv, CoreInv
<1>1. todo = {} /\ pending \in SUBSET Robot /\ root' \in Robot \cup {None}
  BY ParticipantFacts DEF RoundInv, TypeOK
<1>2. /\ \A r \in pending : result[r] = None
      /\ \A r \in Participant \ pending : result[r] # None
      /\ \A r \in Robot \ pending : token[r] # NoGoal => Settles(token[r], result[r])
  BY <1>1 DEF ResultInv
<1>3. \A r \in Robot :
        /\ result[r] \in Status \cup {None}
        /\ cancelStatus[r] \in PrimaryFailure \/ result[r] \in PrimaryFailure => r = root'
  BY RobotsAssumption DEF BlameInv, TypeOK
<1>4. ASSUME root' # None
      PROVE  \/ root' \notin pending /\ result[root'] \in PrimaryFailure \cup {"cancel_failed"}
             \/ root' \in pending /\ why[root'] \in {"failed", "timed_out"}
  BY <1>2, <1>4 DEF BlameInv, PrimaryFailure, None
<1>5. MayStop(pending, why, result)
  BY <1>1, <1>2, <1>3, <1>4 DEF MayStop
<1> QED  BY <1>1, <1>5, StopKeeps DEF TypeOK, AdapterTypeOK, PC

LEMMA StopPendingKeeps ==
  ASSUME IInv, NEW blamed, NEW why \in {"failed", "timed_out"}, StopPending(blamed, why),
         IF root = None THEN blamed \in pending ELSE blamed = root,
         pc \in {"top", "check"}, pc' \in {"top", "wait"},
         UNCHANGED <<server, refused, formationVars, call, round, todo, cancelFlag, report>>
  PROVE  IInv'
<1> USE DEF IInv, CoreInv
<1> DEFINE reason == [r \in Robot |-> IF r = blamed THEN why ELSE "cancelled"]
<1>1. /\ root' = blamed /\ token' = token
      /\ CancelPending(pending, reason, context, result)
  BY DEF StopPending
<1>2. blamed \in Participant /\ blamed \in Robot /\ blamed # None
  BY PendingFacts, ParticipantFacts, RobotsAssumption DEF BlameInv
<1>3. /\ \A r \in Robot : reason[r] \in {"cancelled", "failed", "timed_out"}
      /\ \A r \in Robot : reason[r] \in PrimaryFailure => r = blamed
      /\ reason[blamed] = why
  BY <1>2 DEF PrimaryFailure
<1> HIDE DEF reason
<1> QED  BY <1>1, <1>2, <1>3, StopAllKeeps

LEMMA CheckStep ==
  ASSUME IInv, Check
  PROVE  IInv'
<1> USE DEF IInv, CoreInv
<1>1. /\ pc = "check" /\ pc' = "top"
      /\ UNCHANGED <<server, refused, formationVars, call, round, todo, cancelFlag, report>>
  BY DEF Check
<1>2. CASE NoStop
  BY <1>1, <1>2, NoStopKeeps
<1>3. CASE pending # {} /\ ~CancelStatusSet /\ StopPending(First(pending), "failed")
  <2>1. root = None
    BY <1>3, PendingFacts DEF BlameInv, CancelStatusSet
  <2>2. First(pending) \in pending
    BY <1>3, FirstIsIn DEF TypeOK
  <2> QED  BY <1>1, <1>3, <2>1, <2>2, StopPendingKeeps
<1>4. CASE pending # {} /\ ~CancelStatusSet /\ cancelFlag /\ OperatorCancel
  <2>1. root = None /\ root' = root /\ token' = token
    BY <1>4, PendingFacts DEF BlameInv, CancelStatusSet, OperatorCancel
  <2>2. CancelPending(pending, All("cancelled"), context, result)
    BY <1>4 DEF OperatorCancel
  <2>3. \A r \in Robot : All("cancelled")[r] = "cancelled"
    BY DEF All
  <2>4. None \notin pending
    BY RobotsAssumption DEF TypeOK
  <2> QED  BY <1>1, <1>4, <2>1, <2>2, <2>3, <2>4, StopAllKeeps DEF PrimaryFailure
<1> QED  BY <1>2, <1>3, <1>4 DEF Check

LEMMA BeginTimeoutStep ==
  ASSUME IInv, BeginTimeout
  PROVE  IInv'
<1> DEFINE blamed == IF root = None THEN First(pending) ELSE root
<1>1. /\ pc = "top" /\ pc' = "wait" /\ pending # {} /\ StopPending(blamed, "timed_out")
      /\ UNCHANGED <<server, refused, formationVars, call, round, todo, cancelFlag, report>>
  BY DEF BeginTimeout
<1>2. First(pending) \in pending
  BY <1>1, FirstIsIn DEF IInv, TypeOK
<1> QED  BY <1>1, <1>2, StopPendingKeeps

LEMMA WaitEndsStep ==
  ASSUME IInv, WaitEnds
  PROVE  IInv'
<1> USE DEF IInv, CoreInv
<1>1. /\ pc = "wait" /\ pc' = "top" /\ todo = {}
      /\ result' = [r \in Robot |-> IF r \in pending THEN "cancel_failed" ELSE result[r]]
      /\ pending' = {} /\ Participant' = Participant
      /\ UNCHANGED <<adapterVars, token, cancelStatus, root, formationVars, call, round, todo,
                     cancelFlag, report>>
  BY DEF WaitEnds, RoundInv, Participant
<1>2. TypeOK'
  BY <1>1 DEF TypeOK, AdapterTypeOK, adapterVars, formationVars, PC, Status
<1>3. AsksAgree' /\ FreshInv'
  BY <1>1 DEF AsksAgree, FreshInv, adapterVars
<1>4. RoundInv'
  BY <1>1 DEF RoundInv
<1>5. ResultInv'
  <2>1. ASSUME NEW r \in Robot, token[r] # NoGoal PROVE Settles(token[r], result[r])'
    <3>1. Settles(token[r], result'[r])
      BY <1>1, <2>1 DEF ResultInv, Settles
    <3> QED  BY <1>1, <3>1 DEF Settles, adapterVars
  <2>2. \A r \in Participant : result'[r] # None
    BY <1>1, ParticipantFacts DEF ResultInv, None
  <2> QED  BY <1>1, <2>1, <2>2 DEF ResultInv
<1>6. BlameInv'
  BY <1>1, ParticipantFacts DEF BlameInv, PrimaryFailure
<1> QED  BY <1>1, <1>2, <1>3, <1>4, <1>5, <1>6, NotDone

-----------------------------------------------------------------------------
(* The ends.                                                                *)

\* What FormationFailure makes of a status that is not "succeeded".
LEMMA FailureBatch ==
  ASSUME NEW as \in Status \ {"succeeded"}
  PROVE  /\ FormationFailure(as) \in [Robot -> Status]
         /\ ~ Succeeded(FormationFailure(as))
<1>1. FormationFailure(as) \in [Robot -> Status] /\ FormationFailure(as)[Leader] = as
  BY LeaderIsRobot DEF FormationFailure, All, Status
<1>2. All("succeeded")[Leader] = "succeeded"
  BY LeaderIsRobot DEF All
<1> QED  BY <1>1, <1>2 DEF Succeeded

LEMMA ReturnStep ==
  ASSUME IInv, NEW batch \in [Robot -> Status], Return(batch),
         pc \in {"top", "settle", "settle_check"},
         batch \in IF call = "execute" THEN BatchResults(cancelFlag)
                   ELSE FormationResults(cancelFlag),
         call = "formation" /\ Succeeded(batch) => directive = "this"
  PROVE  IInv'
<1>1. /\ report' = batch /\ pc' = "done" /\ status' = None
      /\ UNCHANGED <<adapterVars, resolveVars, directive, inbox, call, round, todo, cancelFlag>>
  BY DEF Return
<1>2. TypeOK' /\ CoreInv'
  BY <1>1, StandingStep DEF IInv, TypeOK, PC, CoreInv, RoundInv
<1>3. SettleInv'
  BY <1>1 DEF IInv, SettleInv, SettledHere
<1>4. ReturnsABatch'
  BY <1>1 DEF ReturnsABatch
<1> QED  BY <1>2, <1>3, <1>4 DEF IInv

\* A formation that failed: the leader's status stands for it.
LEMMA ReturnFailureStep ==
  ASSUME IInv, call = "formation", pc \in {"top", "settle", "settle_check"},
         NEW as \in Status \ {"succeeded"}, as = "cancelled" => cancelFlag,
         Return(FormationFailure(as))
  PROVE  IInv'
<1>1. FormationFailure(as) \in [Robot -> Status] /\ ~ Succeeded(FormationFailure(as))
  BY FailureBatch
<1>2. FormationFailure(as) \in FormationResults(cancelFlag)
  BY DEF FormationResults, PrimaryFailure, Status
<1> QED  BY <1>1, <1>2, ReturnStep

\* At the end of a round every participant has a result, at most one of them a
\* failure, and only an operator leaves nobody to blame.
LEMMA RoundResults ==
  ASSUME IInv, pc = "top", pending = {}
  PROVE  /\ \A r \in Participant : result[r] \in Status
         /\ \A r, s \in Participant :
              result[r] \in PrimaryFailure /\ result[s] \in PrimaryFailure => r = s
         /\ \/ cancelFlag
            \/ \E r \in Participant : result[r] \in PrimaryFailure \cup {"cancel_failed"}
            \/ \A r \in Participant : result[r] # "cancelled"
<1> USE DEF IInv, CoreInv
<1>1. todo = {} /\ Participant \subseteq Robot
  BY ParticipantFacts DEF RoundInv
<1>2. \A r \in Participant : result[r] \in Status
  BY <1>1 DEF ResultInv, TypeOK
<1>3. \A r \in Participant :
        /\ result[r] \in PrimaryFailure => r = root
        /\ result[r] = "cancelled" => cancelFlag \/ root # None
  BY <1>1 DEF BlameInv
<1>4. root # None => root \in Participant /\ result[root] \in PrimaryFailure \cup {"cancel_failed"}
  BY DEF BlameInv
<1> QED  BY <1>2, <1>3, <1>4

LEMMA FinishExecuteStep ==
  ASSUME IInv, FinishExecute
  PROVE  IInv'
<1>1. pc = "top" /\ pending = {} /\ call = "execute" /\ Return(result) /\ Participant = Robot
  BY DEF FinishExecute, Participant
<1>2. result \in [Robot -> Status]
  BY <1>1, RoundResults DEF IInv, TypeOK
<1>3. result \in Batch
  BY <1>1, <1>2, RoundResults DEF Batch
<1>4. OnlyCancelled(result) => cancelFlag
  BY <1>1, RoundResults DEF OnlyCancelled, PrimaryFailure
<1> QED  BY <1>1, <1>2, <1>3, <1>4, ReturnStep DEF BatchResults

LEMMA LeaderFailedStep ==
  ASSUME IInv, LeaderFailed
  PROVE  IInv'
<1>1. /\ pc = "top" /\ pending = {} /\ call = "formation" /\ result[Leader] # "succeeded"
      /\ Return(FormationFailure(result[Leader])) /\ Participant = {Leader}
  BY DEF LeaderFailed, Participant
<1>2. result[Leader] \in Status \ {"succeeded"}
  BY <1>1, RoundResults
<1>3. result[Leader] = "cancelled" => cancelFlag
  BY <1>1, RoundResults DEF PrimaryFailure
<1> QED  BY <1>1, <1>2, <1>3, ReturnFailureStep

LEMMA EndingStep ==
  ASSUME IInv, Ending
  PROVE  IInv'
<1> USE DEF IInv, CoreInv
<1>1. CASE FinishExecute \/ LeaderFailed
  BY <1>1, FinishExecuteStep, LeaderFailedStep
<1>2. CASE NextLeaderGoal
  <2>1. round + 1 \in 1 .. Path
    BY <1>2, PathAssumption DEF NextLeaderGoal, TypeOK
  <2> QED  BY <1>2, <2>1, BeginStep DEF NextLeaderGoal, LeaderArrived
<1>3. CASE PathTimesOut
  BY <1>3, ReturnFailureStep DEF PathTimesOut, LeaderArrived, Status
<1>4. CASE BeginSettle
  <2>1. /\ pc = "top" /\ pc' = "settle" /\ call = "formation"
        /\ UNCHANGED <<adapterVars, resolveVars, formationVars, call, round, todo, cancelFlag,
                       report>>
    BY <1>4 DEF BeginSettle, LeaderArrived
  <2>2. TypeOK' /\ CoreInv'
    BY <2>1, StandingStep DEF TypeOK, formationVars, PC, RoundInv
  <2> QED  BY <2>1, <2>2, NotDone
<1>5. CASE Settled
  <2>1. pc = "settle" /\ status = "settled" /\ Return(All("succeeded"))
    BY <1>5 DEF Settled
  <2>2. directive = "this"
    BY <2>1 DEF SettleInv, None
  <2>3. call = "formation"
    BY <2>1 DEF IInv, SettleInv
  <2>4. All("succeeded") \in [Robot -> Status] /\ All("succeeded") \in FormationResults(cancelFlag)
    BY AllIsStatus DEF Status, FormationResults
  <2> QED  BY <2>1, <2>2, <2>3, <2>4, ReturnStep
<1>6. CASE SettleCheck
  <2>1. pc = "settle_check" /\ call = "formation"
    BY <1>6 DEF SettleCheck, SettleInv
  <2>2. CASE Return(FormationFailure("failed"))
    BY <2>1, <2>2, ReturnFailureStep DEF Status
  <2>3. CASE /\ pc' = "settle"
             /\ UNCHANGED <<adapterVars, resolveVars, formationVars, call, round, todo,
                            cancelFlag, report>>
    <3>1. TypeOK' /\ CoreInv'
      BY <2>1, <2>3, StandingStep DEF TypeOK, formationVars, PC, RoundInv
    <3> QED  BY <2>1, <2>3, <3>1, NotDone
  <2> QED  BY <1>6, <2>2, <2>3 DEF SettleCheck
<1> QED  BY <1>1, <1>2, <1>3, <1>4, <1>5, <1>6 DEF Ending

-----------------------------------------------------------------------------
(* Every step.                                                              *)

LEMMA SpinStepKeeps ==
  ASSUME IInv, SpinStep
  PROVE  IInv'
<1> USE DEF IInv, CoreInv
<1>1. CASE \E g \in Goal : SpinOutcome(g) \/ SpinAccepted(g)
  BY <1>1, SpinOutcomeStep, SpinAcceptedStep
<1>2. CASE SpinCancelService \/ SpinIdle
  <2>1. /\ Turning /\ pc' = Spun /\ cancelFlag' \in BOOLEAN /\ (cancelFlag => cancelFlag')
        /\ UNCHANGED <<adapterVars, resolveVars, formationVars, call, round, todo, report>>
    BY <1>2 DEF SpinCancelService, SpinIdle, TypeOK
  <2>2. /\ pc \in {"top", "settle"} /\ pc' \in {"check", "settle_check"} /\ todo = {}
        /\ pc' = "settle_check" => call = "formation"
    BY <2>1 DEF Turning, Spun, RoundInv, SettleInv
  <2>3. TypeOK' /\ CoreInv'
    BY <2>1, <2>2, StandingStep DEF TypeOK, formationVars, PC
  <2> QED  BY <2>1, <2>2, <2>3, NotDone
<1>3. CASE SpinFormationState
  <2>1. /\ pc' = Spun /\ pc \in {"top", "settle", "wait"}
        /\ inbox # NoMessage /\ inbox' = NoMessage /\ directive' = directive
        /\ status' = IF inbox.operation = "this" THEN inbox.kind ELSE status
        /\ UNCHANGED <<adapterVars, resolveVars, call, round, todo, cancelFlag, report>>
    BY <1>3 DEF SpinFormationState, ReceiveFormationState, Turning
  <2>2. /\ pc' \in {"check", "wait", "settle_check"} /\ todo = {}
        /\ pc' = "settle_check" => call = "formation"
    BY <2>1 DEF Spun, RoundInv, SettleInv
  <2>3. inbox \in Message
    BY <2>1 DEF TypeOK
  <2>4. status' \in StatusKind \cup {None}
    BY <2>1, <2>3 DEF TypeOK, Message
  <2>5. TypeOK' /\ CoreInv'
    BY <2>1, <2>2, <2>4, StandingStep DEF TypeOK, PC
  <2>6. SettleInv' /\ ReturnsABatch'
    BY <2>1, <2>2 DEF SettleInv, SettledHere, ReturnsABatch, NoMessage, None
  <2> QED  BY <2>5, <2>6
<1> QED  BY <1>1, <1>2, <1>3 DEF SpinStep

LEMMA ControllerStep ==
  ASSUME IInv, ControllerReceivesCommand \/ ControllerReports
  PROVE  IInv'
<1> USE DEF IInv, CoreInv
<1>1. /\ pc \in {"top", "settle", "wait"} /\ todo = {} /\ call = "formation"
      /\ UNCHANGED <<adapterVars, resolveVars, status, call, round, pc, todo, cancelFlag, report>>
  BY DEF ControllerReceivesCommand, ControllerReports, Tracking, Turning, RoundInv
<1>2. /\ inbox' \in Message \cup {NoMessage} /\ directive' \in Operation \cup {None}
      /\ inbox'.operation = "this" => directive' = "this"
      /\ directive = "this" => directive' = "this"
  <2>1. CASE ControllerReceivesCommand
    BY <2>1 DEF ControllerReceivesCommand, TypeOK, Operation, SettleInv
  <2>2. CASE ControllerReports
    <3>1. PICK kind \in StatusKind : inbox' = [operation |-> directive, kind |-> kind]
      BY <2>2 DEF ControllerReports
    <3>2. directive \in Operation /\ directive' = directive
      BY <2>2 DEF ControllerReports, TypeOK
    <3> QED  BY <3>1, <3>2 DEF Message
  <2> QED  BY <2>1, <2>2
<1>3. TypeOK' /\ CoreInv'
  BY <1>1, <1>2, StandingStep DEF TypeOK
<1>4. SettleInv' /\ ReturnsABatch'
  BY <1>1, <1>2 DEF SettleInv, SettledHere, ReturnsABatch
<1> QED  BY <1>3, <1>4

LEMMA NextIInv ==
  ASSUME IInv, [Next]_vars
  PROVE  IInv'
<1> USE DEF IInv, CoreInv
<1>1. CASE Start
  <2>1. round \in 1 .. Path /\ (call = "execute" => round = 1) /\ token = [r \in Robot |-> NoGoal]
    BY <1>1 DEF Start, TypeOK, RoundInv
  <2> QED  BY <1>1, <2>1, BeginStep DEF Start
<1>2. CASE NotReady \/ DispatchDone
  <2>1. /\ pc' \in {"crashed", "top"} /\ todo = {} /\ (pc' # "crashed" => pc = "dispatch")
        /\ UNCHANGED <<adapterVars, resolveVars, formationVars, call, round, todo, cancelFlag,
                       report>>
    BY <1>2 DEF NotReady, DispatchDone, RoundInv
  <2>2. TypeOK' /\ CoreInv'
    BY <2>1, StandingStep DEF TypeOK, formationVars, PC
  <2> QED  BY <2>1, <2>2, NotDone
<1>3. CASE \E r \in Robot : DispatchGoal(r) \/ DispatchFails(r)
  BY <1>3, DispatchGoalStep, DispatchFailsStep
<1>4. CASE SettleTimesOut
  <2>1. pc = "settle" /\ call = "formation" /\ Return(FormationFailure("timed_out"))
    BY <1>4 DEF SettleTimesOut, SettleInv
  <2> QED  BY <2>1, ReturnFailureStep DEF Status
<1>5. CASE UNCHANGED vars
  <2>1. /\ UNCHANGED <<adapterVars, resolveVars, formationVars>> /\ call' = call /\ round' = round
        /\ pc' = pc /\ todo' = todo /\ cancelFlag' = cancelFlag /\ report' = report
    BY <1>5 DEF vars
  <2> USE <2>1 DEF adapterVars, resolveVars, formationVars
  <2>2. TypeOK'
    BY DEF TypeOK, AdapterTypeOK
  <2>3. Participant' = Participant
    BY DEF Participant
  <2>4. AsksAgree' /\ RoundInv' /\ FreshInv'
    BY <2>3 DEF AsksAgree, RoundInv, FreshInv
  <2>5. ResultInv' /\ BlameInv'
    BY <2>3 DEF ResultInv, BlameInv, Settles
  <2>6. SettleInv' /\ ReturnsABatch'
    BY DEF SettleInv, SettledHere, ReturnsABatch
  <2> QED  BY <2>2, <2>4, <2>5, <2>6
<1> QED
  BY <1>1, <1>2, <1>3, <1>4, <1>5, SpinStepKeeps, CheckStep, EndingStep, BeginTimeoutStep,
     WaitEndsStep, ServerStepKeeps, ControllerStep
  DEF Next, Loop, Sending, Returned

-----------------------------------------------------------------------------
(* Theorems.                                                                *)

\* The inductive invariant holds in every reachable state of both calls.
THEOREM Invariance == Spec => []IInv
<1>1. Init => IInv
  BY InitIInv
<1>2. IInv /\ [Next]_vars => IInv'
  BY NextIInv
<1> QED  BY <1>1, <1>2, PTL DEF Spec

\* Every variable of execute and execute_formation keeps its type.
THEOREM TypeCorrect == Spec => []TypeOK
<1>1. IInv => TypeOK
  BY DEF IInv
<1> QED  BY <1>1, Invariance, PTL

\* Whatever fails, stops or cannot be cancelled, and in whatever order, the call
\* returns a batch that NavigationBatch accepts and that the mission can explain.
THEOREM BatchIsReturned == Spec => []ReturnsABatch
<1>1. IInv => ReturnsABatch
  BY DEF IInv
<1> QED  BY <1>1, Invariance, PTL

\* A result says what became of the robot's goal in Nav2.
THEOREM ResultsStayReal == Spec => []ResultsAreReal
<1>1. IInv => ResultsAreReal
  BY DEF IInv, CoreInv, ResultInv, ResultsAreReal, Settles, Live
<1> QED  BY <1>1, Invariance, PTL

\* From the moment somebody is blamed, everything that is waited for has been
\* told to stop.
THEOREM FailureStopsAll == Spec => []FailureCancelsAll
<1>1. IInv => FailureCancelsAll
  BY DEF IInv, CoreInv, BlameInv, FailureCancelsAll
<1> QED  BY <1>1, Invariance, PTL

\* A formation is reported settled on the word of a controller that follows
\* this call's directive.
THEOREM SettledOnOwnWord == Spec => []SettledHere
<1>1. IInv => SettledHere
  BY DEF IInv, SettleInv
<1> QED  BY <1>1, Invariance, PTL

\* The separation, formation and operator checks tell no goal to stop that was
\* told before.
THEOREM ChecksCancelOnce == Spec => CancelledOnce
<1> DEFINE Once == pc = "check" => \A r \in pending :
                     context[token[r]].cancelRequested
                       => cancelCall'[token[r]] = cancelCall[token[r]]
<1>1. ASSUME IInv, [Next]_vars, pc = "check", NEW r \in pending,
             context[token[r]].cancelRequested
      PROVE  cancelCall'[token[r]] = cancelCall[token[r]]
  <2>1. r \in Robot /\ cancelStatus[r] # None /\ CancelStatusSet
    BY <1>1, PendingFacts DEF IInv, CoreInv, BlameInv, CancelStatusSet
  <2>2. CASE Check
    BY <2>1, <2>2 DEF Check, NoStop
  <2>3. ~ Check => cancelCall' = cancelCall
    BY <1>1
    DEF Next, Loop, Sending, Start, NotReady, DispatchDone, DispatchGoal, DispatchFails,
        SpinStep, SpinOutcome, SpinAccepted, SpinCancelService, SpinFormationState, SpinIdle,
        Spinning, Turning, Ending, FinishExecute, LeaderFailed, NextLeaderGoal, PathTimesOut,
        BeginSettle, LeaderArrived, Settled, SettleCheck, BeginTimeout, WaitEnds, SettleTimesOut,
        ServerStep, ControllerReceivesCommand, ControllerReports, Tracking, Returned, vars,
        adapterVars
  <2> QED  BY <2>2, <2>3
<1>2. IInv /\ [Next]_vars => [Once]_vars
  BY <1>1
<1> QED  BY <1>2, Invariance, PTL DEF Spec, CancelledOnce
=============================================================================
