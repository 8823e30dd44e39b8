-------------------------- MODULE Exploration_proofs --------------------------
(***************************************************************************)
(* Proofs about Exploration: every safety property that the run checks, for *)
(* every set of places, nearness, limits and class of faults.  They rest on *)
(* one inductive invariant, Inductive.                                      *)
(***************************************************************************)
EXTENDS Exploration, FiniteSetTheorems, TLAPS

(***************************************************************************)
(* The inductive invariant.  A program that has ended, or whose session     *)
(* raised, takes no further step.                                           *)
(***************************************************************************)
Busy == {"navigating", "cancelling"}

Open == {"created", "waiting_for_map"}

Raisable == {"start", "navigation_succeeded", "navigation_failed",
             "cancellation_confirmed", "cancellation_failed"}

SessionTypeOK ==
  /\ AdapterTypeOK
  /\ state \in State
  /\ cause \in {None, "operator", "goal_timeout", "mission_timeout"}
  /\ handle \in Goal \cup {NoGoal}
  /\ trips \in Seq(Place) /\ Len(trips) <= MaxGoals
  /\ blacklist \subseteq Place /\ visited \subseteq Place
  /\ completed \in Nat /\ failed \in Nat
  /\ raised \in {None} \cup Raisable

ProgramTypeOK ==
  /\ confirmations \in Nat
  /\ missionExpired \in BOOLEAN
  /\ phase \in {"spinning", "interrupted", "exited", "shut_down"}
  /\ started \in BOOLEAN /\ newMap \in BOOLEAN /\ foreign \in BOOLEAN
  /\ answer \in {None, "accepted", "refused"}
  /\ result \in Terminal \cup {None, "no_result"}

\* Cancel calls come from cancel(), and Nav2 cancels what it was asked to cancel.
GoalAgrees(ctx, g) ==
  /\ cancelCall[g] > 0 \/ refused[g] => ctx[g].cancelRequested
  /\ server[g] \in {"canceling", "canceled"} => ctx[g].cancelRequested \/ foreign

GoalsAgree == \A g \in Goal : GoalAgrees(context, g)

Fresh == [phase |-> "absent", cancelRequested |-> FALSE]

\* The session has a goal while it drives or cancels, the last one dispatched; what
\* else the adapter may track is a goal whose cancellation was not confirmed in time.
HandleAgrees ==
  /\ handle # NoGoal <=> state \in Busy
  /\ handle # NoGoal =>
       /\ handle = Len(trips)
       /\ Tracked(handle)
       /\ context[handle].cancelRequested <=> state = "cancelling"
  /\ \A g \in Goal :
       /\ Tracked(g) => g = handle \/ (state = "failed" /\ context[g].cancelRequested)
       /\ g > Len(trips) => context[g] = Fresh

\* The books are those of the trips made; the trip under way is in neither.
BooksAgree ==
  /\ IsFiniteSet(visited) /\ IsFiniteSet(blacklist)
  /\ visited \cap blacklist = {}
  /\ completed = Cardinality(visited) /\ failed = Cardinality(blacklist)
  /\ \A i \in 1 .. Len(trips) :
       /\ i < Len(trips) \/ state \in Open => trips[i] \in visited \cup blacklist
       /\ trips[i] \in visited => server[i] = "succeeded"
  /\ handle # NoGoal => trips[handle] \notin visited \cup blacklist

Session ==
  /\ SessionTypeOK
  /\ GoalsAgree
  /\ raised = None => HandleAgrees
  /\ BooksAgree
  /\ NoPlaceTwice

\* The session ends without another goal.
Committed ==
  state \in Terminal \/ (state = "cancelling" /\ cause \in {"operator", "mission_timeout"})

Quiet == \A g \in Goal : Tracked(g) => g = handle

ProgramAgrees ==
  /\ Done => raised = None /\ \/ result = state /\ state \in Terminal
                              \/ result = "no_result" /\ ~ started
  /\ ~ started => state \in {"created", "cancelled"}
  /\ ~ started /\ state = "cancelled" => answer # None
  /\ answer = "accepted" => Committed
  /\ phase \in {"interrupted", "exited"} => answer # None
  /\ raised # None => phase \notin {"exited", "shut_down"}
  /\ raised = None /\ ~ Done => Quiet
  /\ \/ raised = None
     \/ raised = "start" /\ answer # None /\ state = "cancelled"
     \/ raised = "cancellation_confirmed" /\ foreign /\ state = "navigating"

Inductive == Session /\ ProgramTypeOK /\ ProgramAgrees

LEMMA Types == TypeOK <=> SessionTypeOK /\ ProgramTypeOK
BY DEF TypeOK, SessionTypeOK, ProgramTypeOK, Raisable

LEMMA Constants ==
  /\ MaxGoals \in Nat /\ Goal = 1 .. MaxGoals /\ NoGoal = 0 /\ NoGoal \notin Goal
  /\ Confirmations \in Nat \ {0} /\ MaxFailed \in Nat \ {0} /\ MaxCompleted \in Nat
BY GoalNumbers, LimitsAssumption DEF NoGoal

\* What holds while the program spins.
LEMMA SpinningFacts ==
  ASSUME Inductive, Spinning
  PROVE  /\ SessionTypeOK /\ GoalsAgree /\ HandleAgrees /\ BooksAgree /\ NoPlaceTwice
         /\ ProgramTypeOK /\ Quiet
         /\ raised = None /\ result = None /\ ~ Done /\ phase \in {"spinning", "interrupted"}
         /\ ~ started => state \in {"created", "cancelled"}
         /\ ~ started /\ state = "cancelled" => answer # None
         /\ answer = "accepted" => Committed
         /\ phase \in {"interrupted", "exited"} => answer # None
BY DEF Inductive, Session, ProgramAgrees, Spinning, Done

-----------------------------------------------------------------------------
(* The adapter.                                                             *)

LEMMA PopFacts ==
  ASSUME NEW g \in Goal, context \in [Goal -> Context]
  PROVE  /\ Pop(context, g) \in [Goal -> Context]
         /\ Pop(context, g)[g].phase = "popped"
         /\ Pop(context, g)[g].cancelRequested = context[g].cancelRequested
         /\ \A h \in Goal : h # g => Pop(context, g)[h] = context[h]
BY DEF Pop, Context, Phase

\* With these contexts nothing is under way, and the goals to come are unused.
Idle(ctx) ==
  /\ ctx \in [Goal -> Context]
  /\ \A g \in Goal :
       /\ GoalAgrees(ctx, g)
       /\ ctx[g].phase \notin {"sent", "accepted"}
       /\ g > Len(trips) => ctx[g] = Fresh

\* A callback ends the goal under way, and tells what was asked of it.
LEMMA CallbackFacts ==
  ASSUME Inductive, Spinning, NEW g \in Goal, NEW ctx, NEW outcome, Callback(g, ctx, outcome)
  PROVE  /\ g = handle /\ state \in Busy /\ Idle(ctx)
         /\ state = "navigating" =>
              outcome \in {"navigation_succeeded", "navigation_failed", "goal_rejected",
                           "cancellation_confirmed"}
         /\ state = "cancelling" =>
              outcome \in {"cancellation_confirmed", "cancellation_failed"}
         /\ outcome = "navigation_succeeded" => server[g] = "succeeded"
         /\ outcome = "cancellation_confirmed" /\ state = "navigating" => foreign
<1>1. /\ SessionTypeOK /\ GoalsAgree /\ HandleAgrees /\ Quiet
  BY SpinningFacts
<1>2. context[g] \in Context /\ server[g] \in ServerState /\ refused[g] \in BOOLEAN
  BY <1>1 DEF SessionTypeOK, AdapterTypeOK
<1>3. GoalAgrees(context, g)
  BY <1>1 DEF GoalsAgree
<1>4. /\ ctx = Pop(context, g)
      /\ Tracked(g)
      /\ ~ context[g].cancelRequested =>
           outcome \in {"navigation_succeeded", "navigation_failed", "goal_rejected",
                        "cancellation_confirmed"}
      /\ context[g].cancelRequested =>
           outcome \in {"cancellation_confirmed", "cancellation_failed"}
      /\ outcome = "navigation_succeeded" => server[g] = "succeeded"
      /\ outcome = "cancellation_confirmed" => server[g] = "canceled"
  <2>1. CASE ResponseFails(g, ctx, outcome)
    BY <1>2, <2>1 DEF ResponseFails, GoalError, Tracked
  <2>2. CASE ResponseRejected(g, ctx, outcome)
    BY <1>2, <2>2 DEF ResponseRejected, GoalError, Tracked
  <2>3. CASE DeferredCancelFails(g, ctx, outcome)
    BY <1>2, <2>3 DEF DeferredCancelFails, GoalError, Tracked
  <2>4. CASE ResultArrives(g, ctx, outcome)
    BY <1>2, <2>4 DEF ResultArrives, ResultOutcome, GoalError, Tracked, Ended
  <2>5. CASE CancelRefused(g, ctx, outcome)
    BY <1>2, <1>3, <2>5 DEF CancelRefused, Tracked, GoalAgrees
  <2> QED BY <2>1, <2>2, <2>3, <2>4, <2>5 DEF Callback
<1>5. g = handle /\ handle # NoGoal
  BY <1>1, <1>4, Constants DEF Quiet
<1>6. state \in Busy /\ handle = Len(trips) /\ (context[g].cancelRequested <=> state = "cancelling")
  BY <1>1, <1>5 DEF HandleAgrees
<1>7. /\ ctx \in [Goal -> Context]
      /\ ctx[g].phase = "popped" /\ ctx[g].cancelRequested = context[g].cancelRequested
      /\ \A h \in Goal : h # g => ctx[h] = context[h]
  BY <1>1, <1>4, PopFacts DEF SessionTypeOK, AdapterTypeOK
<1>8. Idle(ctx)
  <2> SUFFICES ASSUME NEW h \in Goal
               PROVE  /\ GoalAgrees(ctx, h)
                      /\ ctx[h].phase \notin {"sent", "accepted"}
                      /\ h > Len(trips) => ctx[h] = Fresh
    BY <1>7 DEF Idle
  <2>1. GoalAgrees(context, h)
    BY <1>1 DEF GoalsAgree
  <2>2. CASE h = g
    <3>1. ~ h > Len(trips)
      BY <1>5, <1>6, <2>2, Constants
    <3> QED BY <1>7, <2>1, <2>2, <3>1 DEF GoalAgrees
  <2>3. CASE h # g
    <3>1. ~ Tracked(h) /\ (h > Len(trips) => context[h] = Fresh)
      BY <1>1, <1>5, <2>3 DEF HandleAgrees, Quiet
    <3> QED BY <1>7, <2>1, <2>3, <3>1 DEF GoalAgrees, Tracked
  <2> QED BY <2>2, <2>3
<1>9. outcome = "cancellation_confirmed" /\ state = "navigating" => foreign
  BY <1>3, <1>4, <1>6 DEF GoalAgrees
<1> QED BY <1>4, <1>5, <1>6, <1>8, <1>9 DEF Busy

\* Without a goal nothing is under way.
LEMMA IdleFacts ==
  ASSUME Inductive, Spinning, state \notin Busy
  PROVE  Idle(context) /\ handle = NoGoal
<1>1. SessionTypeOK /\ GoalsAgree /\ HandleAgrees /\ Quiet
  BY SpinningFacts
<1>2. handle = NoGoal
  BY <1>1 DEF HandleAgrees
<1> QED BY <1>1, <1>2, Constants
        DEF Idle, HandleAgrees, Quiet, GoalsAgree, SessionTypeOK, AdapterTypeOK, Tracked

-----------------------------------------------------------------------------
(* The books.                                                               *)

\* Steps that book nothing.
LEMMA BooksKept ==
  ASSUME SessionTypeOK, BooksAgree, NoPlaceTwice, UNCHANGED <<trips, booksVars>>,
         state' \in Open => state \in Open,
         handle' = handle \/ handle' = NoGoal,
         \A g \in Goal : server[g] = "succeeded" => server'[g] = "succeeded"
  PROVE  BooksAgree' /\ NoPlaceTwice'
<1>1. /\ visited' = visited /\ blacklist' = blacklist /\ completed' = completed /\ failed' = failed
      /\ trips' = trips
  BY DEF booksVars
<1>2. \A i \in 1 .. Len(trips) : i \in Goal
  BY Constants DEF SessionTypeOK
<1>3. NoPlaceTwice'
  BY <1>1 DEF NoPlaceTwice
<1> QED BY <1>1, <1>2, <1>3 DEF BooksAgree

\* The trips made before the one under way.
LEMMA BookedFacts ==
  ASSUME SessionTypeOK, HandleAgrees, BooksAgree, NoPlaceTwice, handle # NoGoal
  PROVE  /\ handle = Len(trips) /\ handle \in 1 .. Len(trips) /\ handle \in Goal
         /\ trips[handle] \in Place /\ trips[handle] \notin visited \cup blacklist
         /\ DOMAIN trips = 1 .. Len(trips)
         /\ \A i \in 1 .. Len(trips) :
              i # handle => trips[i] # trips[handle] /\ trips[i] \in visited \cup blacklist
<1>1. handle \in Goal /\ handle = Len(trips) /\ trips \in Seq(Place)
  BY DEF SessionTypeOK, HandleAgrees
<1>2. handle \in 1 .. Len(trips) /\ DOMAIN trips = 1 .. Len(trips) /\ trips[handle] \in Place
  BY <1>1, Constants
<1>3. trips[handle] \notin visited \cup blacklist
  BY DEF BooksAgree
<1>4. ASSUME NEW i \in 1 .. Len(trips), i # handle
      PROVE  trips[i] # trips[handle] /\ trips[i] \in visited \cup blacklist
  <2>1. i < Len(trips)
    BY <1>1, <1>4
  <2>2. trips[i] \in visited \cup blacklist
    BY <2>1 DEF BooksAgree
  <2> QED BY <1>3, <2>2
<1> QED BY <1>1, <1>2, <1>3, <1>4

\* The goal under way is booked as visited, or as blacklisted.
LEMMA TripBooked ==
  ASSUME SessionTypeOK, HandleAgrees, BooksAgree, NoPlaceTwice, handle # NoGoal,
         handle' = NoGoal, UNCHANGED <<trips, server>>,
         \/ /\ visited' = visited \cup {trips[handle]} /\ completed' = completed + 1
            /\ UNCHANGED <<blacklist, failed>>
            /\ server[handle] = "succeeded"
         \/ /\ blacklist' = blacklist \cup {trips[handle]} /\ failed' = failed + 1
            /\ UNCHANGED <<visited, completed>>
  PROVE  /\ BooksAgree' /\ NoPlaceTwice'
         /\ blacklist' \subseteq Place /\ visited' \subseteq Place
         /\ completed' \in Nat /\ failed' \in Nat
<1> DEFINE p == trips[handle]
<1>1. /\ handle \in 1 .. Len(trips) /\ handle = Len(trips) /\ p \in Place
      /\ p \notin visited /\ p \notin blacklist
      /\ DOMAIN trips = 1 .. Len(trips)
      /\ \A i \in 1 .. Len(trips) :
           i # handle => trips[i] # p /\ trips[i] \in visited \cup blacklist
  BY BookedFacts
<1>2. /\ IsFiniteSet(visited) /\ IsFiniteSet(blacklist)
      /\ completed = Cardinality(visited) /\ failed = Cardinality(blacklist)
      /\ visited \cap blacklist = {}
      /\ \A i \in 1 .. Len(trips) : trips[i] \in visited => server[i] = "succeeded"
  BY DEF BooksAgree
<1>3. /\ blacklist \subseteq Place /\ visited \subseteq Place
      /\ completed \in Nat /\ failed \in Nat /\ Len(trips) \in Nat
  BY DEF SessionTypeOK
<1>4. /\ IsFiniteSet(visited \cup {p}) /\ Cardinality(visited \cup {p}) = Cardinality(visited) + 1
      /\ IsFiniteSet(blacklist \cup {p})
      /\ Cardinality(blacklist \cup {p}) = Cardinality(blacklist) + 1
  BY <1>1, <1>2, FS_AddElement
<1> HIDE DEF p
<1>5. CASE /\ visited' = visited \cup {p} /\ completed' = completed + 1
           /\ UNCHANGED <<blacklist, failed>>
           /\ server[handle] = "succeeded"
  <2>1. /\ IsFiniteSet(visited') /\ IsFiniteSet(blacklist') /\ visited' \cap blacklist' = {}
        /\ completed' = Cardinality(visited') /\ failed' = Cardinality(blacklist')
    BY <1>1, <1>2, <1>4, <1>5
  <2>2. ASSUME NEW i \in 1 .. Len(trips)
        PROVE  /\ trips[i] \in visited' \cup blacklist'
               /\ trips[i] \in visited' => server[i] = "succeeded"
    BY <1>1, <1>2, <1>5, <2>2 DEF p
  <2>3. BooksAgree'
    BY <2>1, <2>2 DEF BooksAgree
  <2>4. NoPlaceTwice'
    <3> SUFFICES ASSUME NEW i \in DOMAIN trips, NEW j \in DOMAIN trips, i < j
                 PROVE  /\ trips[i] # trips[j]
                        /\ trips[i] \in visited' => <<trips[j], trips[i]>> \notin NearVisited
                        /\ trips[i] \in blacklist' => <<trips[j], trips[i]>> \notin NearBlacklisted
      BY DEF NoPlaceTwice
    <3>1. trips[i] # p
      BY <1>1, <1>3
    <3> QED BY <1>5, <3>1 DEF NoPlaceTwice
  <2> QED BY <1>1, <1>3, <1>5, <2>3, <2>4
<1>6. CASE /\ blacklist' = blacklist \cup {p} /\ failed' = failed + 1
           /\ UNCHANGED <<visited, completed>>
  <2>1. /\ IsFiniteSet(visited') /\ IsFiniteSet(blacklist') /\ visited' \cap blacklist' = {}
        /\ completed' = Cardinality(visited') /\ failed' = Cardinality(blacklist')
    BY <1>1, <1>2, <1>4, <1>6
  <2>2. ASSUME NEW i \in 1 .. Len(trips)
        PROVE  /\ trips[i] \in visited' \cup blacklist'
               /\ trips[i] \in visited' => server[i] = "succeeded"
    BY <1>1, <1>2, <1>6, <2>2 DEF p
  <2>3. BooksAgree'
    BY <2>1, <2>2 DEF BooksAgree
  <2>4. NoPlaceTwice'
    <3> SUFFICES ASSUME NEW i \in DOMAIN trips, NEW j \in DOMAIN trips, i < j
                 PROVE  /\ trips[i] # trips[j]
                        /\ trips[i] \in visited' => <<trips[j], trips[i]>> \notin NearVisited
                        /\ trips[i] \in blacklist' => <<trips[j], trips[i]>> \notin NearBlacklisted
      BY DEF NoPlaceTwice
    <3>1. trips[i] # p
      BY <1>1, <1>3
    <3> QED BY <1>6, <3>1 DEF NoPlaceTwice
  <2> QED BY <1>1, <1>3, <1>6, <2>3, <2>4
<1> QED BY <1>5, <1>6 DEF p

\* A goal is dispatched: its place is new and near to nothing booked.
LEMMA TripBegins ==
  ASSUME SessionTypeOK, BooksAgree, NoPlaceTwice, state \in Open, NEW p \in Candidates,
         Len(trips) < MaxGoals, trips' = Append(trips, p), handle' = Len(trips) + 1,
         state' = "navigating", UNCHANGED booksVars,
         \A g \in Goal : g # Len(trips) + 1 => server'[g] = server[g]
  PROVE  BooksAgree' /\ NoPlaceTwice'
<1>1. /\ visited' = visited /\ blacklist' = blacklist /\ completed' = completed /\ failed' = failed
  BY DEF booksVars
<1>2. /\ p \in Place
      /\ \A b \in blacklist : <<p, b>> \notin NearBlacklisted
      /\ \A v \in visited : <<p, v>> \notin NearVisited
  BY DEF Candidates
<1>3. p \notin visited /\ p \notin blacklist
  BY <1>2, NearItself
<1>4. /\ Len(trips') = Len(trips) + 1 /\ trips'[Len(trips) + 1] = p /\ Len(trips) \in Nat
      /\ \A i \in 1 .. Len(trips) : trips'[i] = trips[i] /\ i \in Goal
      /\ DOMAIN trips = 1 .. Len(trips) /\ DOMAIN trips' = 1 .. Len(trips) + 1
  BY <1>2, Constants DEF SessionTypeOK
<1>5. \A i \in 1 .. Len(trips) : /\ trips[i] \in visited \cup blacklist
                                 /\ trips[i] \in visited => server'[i] = "succeeded"
  BY <1>4 DEF BooksAgree
<1>6. BooksAgree'
  <2>1. ASSUME NEW i \in 1 .. Len(trips')
        PROVE  /\ i < Len(trips') => trips'[i] \in visited' \cup blacklist'
               /\ trips'[i] \in visited' => server'[i] = "succeeded"
    <3>1. CASE i = Len(trips) + 1
      BY <1>1, <1>3, <1>4, <3>1
    <3>2. CASE i # Len(trips) + 1
      <4>1. i \in 1 .. Len(trips)
        BY <1>4, <3>2
      <4> QED BY <1>1, <1>4, <1>5, <4>1
    <3> QED BY <3>1, <3>2
  <2>2. trips'[handle'] \notin visited' \cup blacklist'
    BY <1>1, <1>3, <1>4
  <2>3. state' \notin Open
    BY DEF Open
  <2> QED BY <1>1, <2>1, <2>2, <2>3 DEF BooksAgree
<1>7. NoPlaceTwice'
  <2> SUFFICES ASSUME NEW i \in DOMAIN trips', NEW j \in DOMAIN trips', i < j
               PROVE  /\ trips'[i] # trips'[j]
                      /\ trips'[i] \in visited => <<trips'[j], trips'[i]>> \notin NearVisited
                      /\ trips'[i] \in blacklist => <<trips'[j], trips'[i]>> \notin NearBlacklisted
    BY <1>1 DEF NoPlaceTwice
  <2>1. i \in 1 .. Len(trips) /\ trips'[i] = trips[i]
    BY <1>4
  <2>2. CASE j = Len(trips) + 1
    BY <1>2, <1>3, <1>4, <1>5, <2>1, <2>2
  <2>3. CASE j # Len(trips) + 1
    <3>1. j \in 1 .. Len(trips) /\ trips'[j] = trips[j]
      BY <1>4, <2>3
    <3> QED BY <1>4, <2>1, <3>1 DEF NoPlaceTwice
  <2> QED BY <2>2, <2>3
<1> QED BY <1>6, <1>7

-----------------------------------------------------------------------------
(* The methods of the session.                                              *)

\* The session is left without a goal, the adapter with nothing under way.
LEMMA SessionLeft ==
  ASSUME Inductive, Spinning, NEW next \in State \ Busy, Leave(next), Idle(context'),
         UNCHANGED <<server, cancelCall, refused, foreign>>,
         BooksAgree', NoPlaceTwice', blacklist' \subseteq Place, visited' \subseteq Place,
         completed' \in Nat, failed' \in Nat
  PROVE  Session' /\ Quiet' /\ raised' = None
<1>1. SessionTypeOK /\ raised = None
  BY SpinningFacts
<1>2. /\ state' = next /\ cause' = None /\ handle' = NoGoal /\ trips' = trips /\ raised' = None
  BY <1>1 DEF Leave
<1>3. AdapterTypeOK'
  BY <1>1 DEF SessionTypeOK, AdapterTypeOK, Idle
<1>4. SessionTypeOK'
  BY <1>1, <1>2, <1>3 DEF SessionTypeOK
<1>5. GoalsAgree'
  BY DEF Idle, GoalsAgree, GoalAgrees
<1>6. \A g \in Goal : ~ Tracked(g)' /\ (g > Len(trips') => context'[g] = Fresh)
  BY <1>2 DEF Idle, Tracked
<1>7. HandleAgrees' /\ Quiet'
  BY <1>2, <1>6 DEF HandleAgrees, Quiet
<1> QED BY <1>2, <1>4, <1>5, <1>7 DEF Session

\* ... without booking anything.
LEMMA SessionEnds ==
  ASSUME Inductive, Spinning, NEW next \in State \ Busy, Leave(next), Idle(context'),
         UNCHANGED <<server, cancelCall, refused, foreign>>, UNCHANGED booksVars,
         next \in Open => state \in Open
  PROVE  Session' /\ Quiet' /\ raised' = None /\ state' = next
<1>1. /\ SessionTypeOK /\ BooksAgree /\ NoPlaceTwice
  BY SpinningFacts
<1>2. /\ trips' = trips /\ handle' = NoGoal /\ state' = next /\ server' = server
  BY DEF Leave
<1>3. BooksAgree' /\ NoPlaceTwice'
  BY <1>1, <1>2, BooksKept
<1>4. /\ blacklist' \subseteq Place /\ visited' \subseteq Place
      /\ completed' \in Nat /\ failed' \in Nat
  BY <1>1 DEF booksVars, SessionTypeOK
<1> QED BY <1>2, <1>3, <1>4, SessionLeft

\* How a callback may leave the session.
AfterOutcome ==
  /\ Committed => Committed'
  /\ \/ raised' = None /\ Quiet'
     \/ raised' = "cancellation_confirmed" /\ foreign /\ state' = "navigating"

\* A callback's method of the session, after the adapter dropped the goal.
LEMMA OutcomesAgree ==
  ASSUME Inductive, Spinning, NEW g \in Goal, NEW ctx, NEW outcome,
         Callback(g, ctx, outcome), Outcomes(g, ctx, outcome), foreign' = foreign
  PROVE  Session' /\ AfterOutcome
<1>1. /\ SessionTypeOK /\ GoalsAgree /\ HandleAgrees /\ BooksAgree /\ NoPlaceTwice /\ raised = None
  BY SpinningFacts
<1>2. /\ g = handle /\ state \in Busy /\ Idle(ctx) /\ handle # NoGoal
      /\ state = "navigating" =>
           outcome \in {"navigation_succeeded", "navigation_failed", "goal_rejected",
                        "cancellation_confirmed"}
      /\ state = "cancelling" =>
           outcome \in {"cancellation_confirmed", "cancellation_failed"}
      /\ outcome = "navigation_succeeded" => server[g] = "succeeded"
      /\ outcome = "cancellation_confirmed" /\ state = "navigating" => foreign
  BY CallbackFacts, Constants
<1>3. /\ context' = ctx /\ UNCHANGED <<server, cancelCall, refused>> /\ Idle(context')
  BY <1>2 DEF Outcomes, NavigationSucceeded, NavigationFailed, CancellationConfirmed,
              CancellationFailed, CallbackOnly
<1>4. CASE outcome = "navigation_succeeded"
  <2>1. state = "navigating" /\ server[handle] = "succeeded"
    BY <1>2, <1>4 DEF Busy
  <2>2. NavigationSucceeded(g, ctx)
    BY <1>4 DEF Outcomes
  <2>3. /\ visited' = visited \cup {trips[handle]} /\ completed' = completed + 1
        /\ UNCHANGED <<blacklist, failed>>
        /\ \E next \in {"completed", "waiting_for_map"} : Leave(next)
    BY <1>2, <2>1, <2>2 DEF NavigationSucceeded
  <2>4. PICK next \in {"completed", "waiting_for_map"} : Leave(next)
    BY <2>3
  <2>5. UNCHANGED <<trips, server>> /\ handle' = NoGoal /\ next \in State \ Busy
    BY <1>3, <2>4 DEF Leave, State, Terminal, Busy
  <2>6. /\ BooksAgree' /\ NoPlaceTwice'
        /\ blacklist' \subseteq Place /\ visited' \subseteq Place
        /\ completed' \in Nat /\ failed' \in Nat
    BY <1>1, <1>2, <2>1, <2>3, <2>5, TripBooked
  <2>7. Session' /\ Quiet' /\ raised' = None
    BY <1>3, <2>4, <2>5, <2>6, SessionLeft
  <2> QED BY <2>1, <2>7 DEF AfterOutcome, Committed, Terminal
<1>5. ASSUME RecordActiveFailure,
             state = "navigating" \/ (state = "cancelling" /\ cause = "goal_timeout")
      PROVE  Session' /\ AfterOutcome
  <2>1. /\ blacklist' = blacklist \cup {trips[handle]} /\ failed' = failed + 1
        /\ UNCHANGED <<visited, completed>>
        /\ \E next \in {"failed", "waiting_for_map"} : Leave(next)
    BY <1>5 DEF RecordActiveFailure
  <2>2. PICK next \in {"failed", "waiting_for_map"} : Leave(next)
    BY <2>1
  <2>3. UNCHANGED <<trips, server>> /\ handle' = NoGoal /\ next \in State \ Busy
    BY <1>3, <2>2 DEF Leave, State, Terminal, Busy
  <2>4. /\ BooksAgree' /\ NoPlaceTwice'
        /\ blacklist' \subseteq Place /\ visited' \subseteq Place
        /\ completed' \in Nat /\ failed' \in Nat
    BY <1>1, <1>2, <2>1, <2>3, TripBooked
  <2>5. Session' /\ Quiet' /\ raised' = None
    BY <1>3, <2>2, <2>3, <2>4, SessionLeft
  <2>6. ~ Committed
    BY <1>5 DEF Committed, Terminal
  <2> QED BY <2>5, <2>6 DEF AfterOutcome
<1>6. ASSUME NEW next \in Terminal, Leave(next), UNCHANGED booksVars
      PROVE  Session' /\ AfterOutcome
  <2>1. next \in State \ Busy /\ next \notin Open
    BY DEF State, Terminal, Busy, Open
  <2>2. Session' /\ Quiet' /\ raised' = None /\ state' = next
    BY <1>3, <1>6, <2>1, SessionEnds
  <2> QED BY <2>2 DEF AfterOutcome, Committed
<1>7. CASE outcome \in {"navigation_failed", "goal_rejected"}
  <2>1. state = "navigating" /\ NavigationFailed(g, ctx)
    BY <1>2, <1>7 DEF Outcomes, Busy
  <2> QED BY <1>2, <1>5, <2>1 DEF NavigationFailed
<1>8. CASE outcome = "cancellation_failed"
  <2>1. state = "cancelling" /\ CancellationFailed(g, ctx)
    BY <1>2, <1>8 DEF Outcomes, Busy
  <2>2. Leave("failed") /\ UNCHANGED booksVars
    BY <1>2, <2>1 DEF CancellationFailed
  <2> QED BY <1>6, <2>2 DEF Terminal
<1>9. CASE outcome = "cancellation_confirmed"
  <2>1. CancellationConfirmed(g, ctx)
    BY <1>9 DEF Outcomes
  <2>2. CASE state = "cancelling" /\ cause = "goal_timeout"
    BY <1>2, <1>5, <2>1, <2>2 DEF CancellationConfirmed
  <2>3. CASE state = "cancelling" /\ cause # "goal_timeout"
    <3>1. UNCHANGED booksVars /\ \E next \in {"timed_out", "cancelled"} : Leave(next)
      BY <1>2, <2>1, <2>3 DEF CancellationConfirmed
    <3> QED BY <1>6, <3>1 DEF Terminal
  <2>4. CASE state = "navigating"
    <3>1. Raise("cancellation_confirmed") /\ foreign
      BY <1>2, <1>9, <2>1, <2>4 DEF CancellationConfirmed
    <3>2. /\ UNCHANGED <<state, cause, handle, trips, booksVars>>
          /\ raised' = "cancellation_confirmed"
      BY <3>1 DEF Raise
    <3>3. BooksAgree' /\ NoPlaceTwice'
      BY <1>1, <1>3, <3>2, BooksKept
    <3>4. SessionTypeOK'
      BY <1>1, <1>3, <3>2 DEF SessionTypeOK, AdapterTypeOK, Idle, Raisable, booksVars
    <3>5. GoalsAgree'
      BY <1>3 DEF Idle, GoalsAgree, GoalAgrees
    <3>6. raised' # None
      BY <3>2 DEF None
    <3>7. Committed => Committed'
      BY <3>2 DEF Committed
    <3> QED BY <2>4, <3>1, <3>2, <3>3, <3>4, <3>5, <3>6, <3>7 DEF Session, AfterOutcome
  <2> QED BY <1>2, <2>2, <2>3, <2>4 DEF Busy
<1> QED BY <1>4, <1>7, <1>8, <1>9 DEF Outcomes

\* _begin_cancellation: the request is made, or the session fails.
LEMMA CancellationBegins ==
  ASSUME Inductive, Spinning, state = "navigating", foreign' = foreign,
         NEW why \in {"operator", "goal_timeout", "mission_timeout"}, BeginCancellation(why)
  PROVE  /\ Session' /\ Quiet' /\ raised' = None
         /\ state' = "failed" \/ (state' = "cancelling" /\ cause' = why)
<1>1. /\ SessionTypeOK /\ GoalsAgree /\ HandleAgrees /\ BooksAgree /\ NoPlaceTwice /\ raised = None
      /\ Quiet
  BY SpinningFacts
<1>2. /\ handle # NoGoal /\ handle \in Goal /\ handle = Len(trips) /\ Tracked(handle)
  BY <1>1 DEF HandleAgrees, Busy, SessionTypeOK
<1>3. PICK X \in {{}, {handle}} :
        /\ Cancel(context, {handle}, X)
        /\ UNCHANGED <<server, refused, booksVars>>
        /\ IF X = {} /\ Tracked(handle)
             THEN state' = "cancelling" /\ cause' = why /\ UNCHANGED <<handle, trips, raised>>
             ELSE Leave("failed")
  BY DEF BeginCancellation
<1>4. \A g \in Goal : context[g] \in Context /\ cancelCall[g] \in Nat
  BY <1>1 DEF SessionTypeOK, AdapterTypeOK
<1>5. /\ context' = [g \in Goal |->
             IF g \in X THEN [phase |-> "popped", cancelRequested |-> TRUE]
             ELSE IF g \in {handle} THEN [context[g] EXCEPT !.cancelRequested = TRUE]
             ELSE context[g]]
      /\ cancelCall' = [g \in Goal |->
             IF g \in {handle} \ X /\ context[g].phase = "accepted"
               THEN cancelCall[g] + 1 ELSE cancelCall[g]]
  BY <1>3 DEF Cancel
<1>6. /\ context'[handle].cancelRequested
      /\ context'[handle].phase = IF X = {} THEN context[handle].phase ELSE "popped"
      /\ \A g \in Goal : g # handle => context'[g] = context[g] /\ cancelCall'[g] = cancelCall[g]
      /\ context' \in [Goal -> Context] /\ cancelCall' \in [Goal -> Nat]
  <2>1. context'[handle].cancelRequested /\ context'[handle] \in Context
        /\ context'[handle].phase = IF X = {} THEN context[handle].phase ELSE "popped"
    BY <1>2, <1>4, <1>5 DEF Context, Phase
  <2>2. \A g \in Goal : g # handle => context'[g] = context[g] /\ cancelCall'[g] = cancelCall[g]
    BY <1>3, <1>5
  <2>3. \A g \in Goal : context'[g] \in Context
    BY <1>4, <2>1, <2>2
  <2>4. cancelCall'[handle] \in Nat
    <3>1. cancelCall'[handle] = cancelCall[handle] \/ cancelCall'[handle] = cancelCall[handle] + 1
      BY <1>2, <1>5
    <3> QED BY <1>2, <1>4, <3>1
  <2>5. \A g \in Goal : cancelCall'[g] \in Nat
    BY <1>4, <2>2, <2>4
  <2> QED BY <1>5, <2>1, <2>2, <2>3, <2>5
<1>7. GoalsAgree'
  BY <1>1, <1>3, <1>6 DEF GoalsAgree, GoalAgrees
<1>8. AdapterTypeOK'
  BY <1>1, <1>3, <1>6 DEF SessionTypeOK, AdapterTypeOK
<1>9. CASE X = {}
  <2>1. /\ state' = "cancelling" /\ cause' = why /\ UNCHANGED <<handle, trips, raised>>
        /\ UNCHANGED <<server, booksVars>>
    BY <1>2, <1>3, <1>9
  <2>2. SessionTypeOK'
    BY <1>1, <1>8, <2>1 DEF SessionTypeOK, State, booksVars
  <2>3. BooksAgree' /\ NoPlaceTwice'
    <3>1. state' \notin Open
      BY <2>1 DEF Open
    <3> QED BY <1>1, <2>1, <3>1, BooksKept
  <2>4. Tracked(handle)' /\ \A g \in Goal : Tracked(g)' => g = handle'
    BY <1>1, <1>2, <1>6, <1>9, <2>1 DEF Tracked, Quiet
  <2>5. HandleAgrees'
    <3>1. \A g \in Goal : g > Len(trips') => context'[g] = Fresh
      BY <1>1, <1>2, <1>6, <2>1, Constants DEF HandleAgrees
    <3> QED BY <1>2, <1>6, <2>1, <2>4, <3>1 DEF HandleAgrees, Busy
  <2> QED BY <1>1, <1>7, <2>1, <2>2, <2>3, <2>4, <2>5 DEF Session, Quiet
<1>10. CASE X = {handle}
  <2>1. /\ state' = "failed" /\ cause' = None /\ handle' = NoGoal /\ UNCHANGED <<trips, raised>>
        /\ UNCHANGED <<server, booksVars>>
    BY <1>3, <1>10 DEF Leave
  <2>2. SessionTypeOK'
    BY <1>1, <1>8, <2>1 DEF SessionTypeOK, State, Terminal, booksVars
  <2>3. BooksAgree' /\ NoPlaceTwice'
    <3>1. state' \notin Open
      BY <2>1 DEF Open
    <3> QED BY <1>1, <2>1, <3>1, BooksKept
  <2>4. \A g \in Goal : ~ Tracked(g)'
    BY <1>1, <1>6, <1>10 DEF Tracked, Quiet
  <2>5. HandleAgrees'
    <3>1. \A g \in Goal : g > Len(trips') => context'[g] = Fresh
      BY <1>1, <1>2, <1>6, <2>1, Constants DEF HandleAgrees
    <3> QED BY <2>1, <2>4, <3>1 DEF HandleAgrees, Busy
  <2> QED BY <1>1, <1>7, <2>1, <2>2, <2>3, <2>4, <2>5 DEF Session, Quiet
<1> QED BY <1>9, <1>10

\* request_cancel.
LEMMA CancelRequested ==
  ASSUME Inductive, Spinning, RequestCancel, foreign' = foreign
  PROVE  /\ Session' /\ Quiet' /\ raised' = None
         /\ answer' \in {"accepted", "refused"}
         /\ answer' = "accepted" => Committed'
         /\ ~ started => state' = "cancelled"
<1>1. /\ SessionTypeOK /\ GoalsAgree /\ HandleAgrees /\ BooksAgree /\ NoPlaceTwice /\ raised = None
      /\ Quiet /\ (~ started => state \in {"created", "cancelled"})
  BY SpinningFacts
<1>2. CASE /\ state \in Terminal \cup {"cancelling"}
           /\ answer' = "refused"
           /\ UNCHANGED <<adapterVars, state, cause, handle, trips, raised, booksVars>>
  <2>1. UNCHANGED <<context, server, cancelCall, refused, state, cause, handle, trips, raised>>
    BY <1>2 DEF adapterVars
  <2>2. BooksAgree' /\ NoPlaceTwice'
    BY <1>1, <1>2, <2>1, BooksKept
  <2>3. SessionTypeOK'
    BY <1>1, <1>2, <2>1 DEF SessionTypeOK, AdapterTypeOK, booksVars
  <2>4. GoalsAgree' /\ HandleAgrees' /\ Quiet'
    BY <1>1, <2>1 DEF GoalsAgree, GoalAgrees, HandleAgrees, Quiet, Tracked
  <2>5. ~ started => state' = "cancelled"
    BY <1>1, <1>2, <2>1 DEF Terminal
  <2> QED BY <1>1, <1>2, <2>1, <2>2, <2>3, <2>4, <2>5 DEF Session
<1>3. CASE /\ state \in {"created", "waiting_for_map"}
           /\ answer' = "accepted"
           /\ Leave("cancelled")
           /\ UNCHANGED <<adapterVars, booksVars>>
  <2>1. UNCHANGED <<context, server, cancelCall, refused>> /\ state \notin Busy
    BY <1>3 DEF adapterVars, Busy
  <2>2. Idle(context')
    BY <2>1, IdleFacts
  <2>3. "cancelled" \in State \ Busy /\ "cancelled" \notin Open
    BY DEF State, Terminal, Busy, Open
  <2>4. Session' /\ Quiet' /\ raised' = None /\ state' = "cancelled"
    BY <1>3, <2>1, <2>2, <2>3, SessionEnds
  <2> QED BY <1>3, <2>4 DEF Committed, Terminal
<1>4. CASE /\ state = "navigating"
           /\ answer' = "accepted"
           /\ BeginCancellation("operator")
  <2>1. /\ Session' /\ Quiet' /\ raised' = None
        /\ state' = "failed" \/ (state' = "cancelling" /\ cause' = "operator")
    BY <1>4, CancellationBegins
  <2> QED BY <1>1, <1>4, <2>1 DEF Committed, Terminal
<1> QED BY <1>2, <1>3, <1>4 DEF RequestCancel

-----------------------------------------------------------------------------
(* The steps of the program.                                                *)

\* Only the adapter, Nav2 or the coordinator moves: no goal begins or ends.
LEMMA SessionWaits ==
  ASSUME Inductive, Spinning, UNCHANGED <<state, cause, handle, trips, booksVars, raised>>,
         AdapterTypeOK', GoalsAgree',
         \A g \in Goal :
           /\ Tracked(g)' = Tracked(g)
           /\ context'[g].cancelRequested = context[g].cancelRequested
           /\ g > Len(trips) => context'[g] = context[g]
           /\ server[g] = "succeeded" => server'[g] = "succeeded"
  PROVE  /\ Session' /\ Quiet' /\ raised' = None
         /\ Committed <=> Committed'
<1>1. /\ SessionTypeOK /\ HandleAgrees /\ BooksAgree /\ NoPlaceTwice /\ raised = None /\ Quiet
  BY SpinningFacts
<1>2. SessionTypeOK'
  BY <1>1 DEF SessionTypeOK, booksVars
<1>3. BooksAgree' /\ NoPlaceTwice'
  BY <1>1, BooksKept
<1>4. \A g \in Goal : /\ Tracked(g)' => g = handle'
                      /\ g > Len(trips') => context'[g] = Fresh
  BY <1>1 DEF HandleAgrees, Quiet
<1>5. handle' # NoGoal => /\ handle' = Len(trips')
                          /\ Tracked(handle)'
                          /\ context'[handle'].cancelRequested <=> state' = "cancelling"
  BY <1>1 DEF HandleAgrees, SessionTypeOK
<1>6. HandleAgrees'
  <2>1. handle' # NoGoal <=> state' \in Busy
    BY <1>1 DEF HandleAgrees
  <2> QED BY <1>4, <1>5, <2>1 DEF HandleAgrees
<1>7. Committed <=> Committed'
  BY DEF Committed
<1> QED BY <1>1, <1>2, <1>3, <1>4, <1>6, <1>7 DEF Session, Quiet

LEMMA NothingMoves ==
  ASSUME Inductive, Spinning,
         UNCHANGED <<adapterVars, state, cause, handle, trips, booksVars, raised, foreign>>
  PROVE  /\ Session' /\ Quiet' /\ raised' = None
         /\ Committed <=> Committed'
<1>1. UNCHANGED <<context, server, cancelCall, refused>>
  BY DEF adapterVars
<1>2. AdapterTypeOK' /\ GoalsAgree'
  BY <1>1, SpinningFacts DEF SessionTypeOK, AdapterTypeOK, GoalsAgree, GoalAgrees
<1>3. \A g \in Goal : Tracked(g)' = Tracked(g)
  BY <1>1 DEF Tracked
<1> QED BY <1>1, <1>2, <1>3, SessionWaits

\* What a step that keeps the session's invariant owes to the program's.
LEMMA ProgramGoesOn ==
  ASSUME Inductive, Spinning, Session', Quiet', raised' = None, ProgramTypeOK',
         result' = result,
         ~ started' => state' \in {"created", "cancelled"},
         ~ started' /\ state' = "cancelled" => answer' # None,
         answer' = "accepted" => Committed',
         phase' \in {"interrupted", "exited"} => answer' # None
  PROVE  Inductive'
<1>1. ~ Done'
  BY SpinningFacts DEF Done
<1> QED BY <1>1 DEF Inductive, ProgramAgrees

\* The end of a tick.
LEMMA TickAgrees ==
  ASSUME Inductive, Spinning, started, Session', Quiet' \/ state' \in Terminal, raised' = None,
         Finalize, confirmations' \in Nat, newMap' \in BOOLEAN,
         Committed => Committed',
         UNCHANGED <<missionExpired, phase, started, answer, foreign>>
  PROVE  Inductive'
<1>1. /\ ProgramTypeOK /\ result = None
      /\ answer = "accepted" => Committed
      /\ phase \in {"interrupted", "exited"} => answer # None
  BY SpinningFacts
<1>2. /\ state' \in Terminal => result' = state'
      /\ state' \notin Terminal => result' = None
  BY <1>1 DEF Finalize
<1>3. Done' <=> state' \in Terminal
  BY <1>2 DEF Done, Terminal, None
<1>4. ProgramTypeOK'
  BY <1>1, <1>2 DEF ProgramTypeOK
<1>5. ProgramAgrees'
  BY <1>1, <1>2, <1>3 DEF ProgramAgrees
<1> QED BY <1>4, <1>5 DEF Inductive

\* A map is observed: the session waits on, ends, or dispatches a goal.
LEMMA MapObserved ==
  ASSUME Inductive, Spinning, state = "waiting_for_map", ObserveMap, foreign' = foreign
  PROVE  Session' /\ Quiet' /\ raised' = None /\ confirmations' \in Nat
<1>1. /\ SessionTypeOK /\ GoalsAgree /\ HandleAgrees /\ BooksAgree /\ NoPlaceTwice /\ raised = None
      /\ ProgramTypeOK
  BY SpinningFacts
<1>2. Idle(context) /\ handle = NoGoal
  BY IdleFacts DEF Busy
<1>3. ASSUME NEW next \in Terminal, Leave(next), UNCHANGED <<adapterVars, booksVars>>
      PROVE  Session' /\ Quiet' /\ raised' = None
  <2>1. next \in State \ Busy /\ next \notin Open
    BY DEF State, Terminal, Busy, Open
  <2>2. UNCHANGED <<context, server, cancelCall, refused>>
    BY <1>3 DEF adapterVars
  <2>3. Idle(context')
    <3>1. trips' = trips
      BY <1>3 DEF Leave
    <3> QED BY <1>2, <2>2
  <2> QED BY <1>3, <2>1, <2>2, <2>3, SessionEnds
<1>4. CASE missionExpired
  <2>1. /\ Leave("timed_out") /\ UNCHANGED <<adapterVars, booksVars>>
        /\ confirmations' = confirmations
    BY <1>4 DEF ObserveMap
  <2> QED BY <1>1, <1>3, <2>1 DEF Terminal, ProgramTypeOK
<1>5. CASE ObserveNothing
  <2>1. confirmations' \in Nat
    BY <1>1, <1>5 DEF ObserveNothing, ProgramTypeOK
  <2>2. CASE confirmations' >= Confirmations
    <3>1. Leave("completed") /\ UNCHANGED <<adapterVars, booksVars>>
      BY <1>5, <2>2 DEF ObserveNothing
    <3> QED BY <1>3, <2>1, <3>1 DEF Terminal
  <2>3. CASE ~ confirmations' >= Confirmations
    <3>1. UNCHANGED <<adapterVars, state, cause, handle, trips, booksVars, raised>>
      BY <1>5, <2>3 DEF ObserveNothing
    <3> QED BY <2>1, <3>1, NothingMoves
  <2> QED BY <2>2, <2>3
<1>6. ASSUME NEW p \in Candidates, ObserveFrontier(p)
      PROVE  Session' /\ Quiet' /\ raised' = None /\ confirmations' \in Nat
  <2>1. confirmations' = 0 /\ confirmations' \in Nat /\ UNCHANGED booksVars
    BY <1>6 DEF ObserveFrontier
  <2>2. CASE Leave("failed") /\ UNCHANGED adapterVars
    BY <1>3, <2>1, <2>2 DEF Terminal
  <2>3. CASE /\ Len(trips) < MaxGoals
             /\ Dispatch(Len(trips) + 1)
             /\ trips' = Append(trips, p)
             /\ handle' = Len(trips) + 1
             /\ state' = "navigating"
             /\ UNCHANGED <<cause, raised>>
    <3> DEFINE d == Len(trips) + 1
    <3>1. d \in Goal /\ p \in Place /\ Len(trips) \in Nat /\ trips \in Seq(Place)
      BY <1>1, <2>3, Constants DEF SessionTypeOK, Candidates
    <3>2. Len(trips') = d /\ trips' \in Seq(Place) /\ handle' = d
      BY <2>3, <3>1
    <3>3. /\ context' = [context EXCEPT ![d].phase = "sent"]
          /\ server' = [server EXCEPT ![d] = "requested"]
          /\ UNCHANGED <<cancelCall, refused>>
      BY <2>3 DEF Dispatch, DispatchFrom
    <3>4. d > Len(trips) /\ \A g \in Goal : g > d => g > Len(trips)
      BY <3>1, Constants
    <3>5. d # NoGoal /\ d <= MaxGoals
      BY <2>3, <3>1, Constants
    <3> HIDE DEF d
    <3>6. context[d] = Fresh /\ context \in [Goal -> Context] /\ server \in [Goal -> ServerState]
      BY <1>1, <1>2, <3>1, <3>4 DEF Idle, SessionTypeOK, AdapterTypeOK
    <3>7. /\ context' \in [Goal -> Context]
          /\ context'[d].phase = "sent" /\ context'[d].cancelRequested = FALSE
          /\ \A g \in Goal : g # d => context'[g] = context[g]
      <4>1. context[d].cancelRequested = FALSE
        BY <3>6 DEF Fresh
      <4> QED BY <3>1, <3>3, <3>6, <4>1 DEF Context, Phase
    <3>8. /\ server' \in [Goal -> ServerState] /\ server'[d] = "requested"
          /\ \A g \in Goal : g # d => server'[g] = server[g]
      BY <3>1, <3>3, <3>6 DEF ServerState, Live
    <3>9. AdapterTypeOK'
      BY <1>1, <3>3, <3>7, <3>8 DEF SessionTypeOK, AdapterTypeOK
    <3>10. SessionTypeOK'
      <4>1. UNCHANGED <<blacklist, visited, completed, failed>>
        BY <2>1 DEF booksVars
      <4>2. state' \in State
        BY <2>3 DEF State
      <4> QED BY <1>1, <2>3, <3>1, <3>2, <3>5, <3>9, <4>1, <4>2 DEF SessionTypeOK
    <3>11. GoalsAgree'
      <4> SUFFICES ASSUME NEW g \in Goal PROVE GoalAgrees(context, g)'
        BY DEF GoalsAgree
      <4>1. GoalAgrees(context, g)
        BY <1>1 DEF GoalsAgree
      <4>2. CASE g = d
        <5>1. ~ (cancelCall[d] > 0 \/ refused[d])
          BY <3>6, <4>1, <4>2 DEF GoalAgrees, Fresh
        <5> QED BY <3>3, <3>8, <4>2, <5>1 DEF GoalAgrees
      <4>3. CASE g # d
        BY <3>3, <3>7, <3>8, <4>1, <4>3 DEF GoalAgrees
      <4> QED BY <4>2, <4>3
    <3>12. BooksAgree' /\ NoPlaceTwice'
      <4>1. \A g \in Goal : g # Len(trips) + 1 => server'[g] = server[g]
        BY <3>8 DEF d
      <4>2. state \in Open
        BY DEF Open
      <4> QED BY <1>1, <2>1, <2>3, <4>1, <4>2, TripBegins
    <3>13. \A g \in Goal : /\ Tracked(g)' => g = handle'
                           /\ g > Len(trips') => context'[g] = Fresh
      <4> TAKE g \in Goal
      <4>1. CASE g = d
        <5>1. ~ g > Len(trips')
          BY <3>1, <3>2, <4>1, Constants
        <5> QED BY <3>2, <4>1, <5>1
      <4>2. CASE g # d
        <5>1. context'[g] = context[g] /\ context[g].phase \notin {"sent", "accepted"}
          BY <1>2, <3>7, <4>2 DEF Idle
        <5>2. g > d => context[g] = Fresh
          BY <1>2, <3>4 DEF Idle
        <5> QED BY <3>2, <5>1, <5>2 DEF Tracked
      <4> QED BY <4>1, <4>2
    <3>14. HandleAgrees'
      <4>1. Tracked(handle)' /\ ~ context'[handle'].cancelRequested
        BY <3>2, <3>7 DEF Tracked
      <4>2. handle' # NoGoal /\ state' \in Busy /\ state' # "cancelling"
        BY <2>3, <3>2, <3>5 DEF Busy
      <4> QED BY <3>2, <3>13, <4>1, <4>2 DEF HandleAgrees
    <3> QED BY <1>1, <2>1, <2>3, <3>10, <3>11, <3>12, <3>13, <3>14 DEF Session, Quiet
  <2> QED BY <1>6, <2>2, <2>3 DEF ObserveFrontier
<1> QED BY <1>4, <1>5, <1>6 DEF ObserveMap

\* A deadline passes.
LEMMA DeadlinePasses ==
  ASSUME Inductive, Spinning, foreign' = foreign,
         MissionTimesOut \/ GoalTimesOut \/ MapTimesOut \/ CancelTimesOut
  PROVE  /\ Session' /\ raised' = None
         /\ Quiet' \/ state' \in Terminal
         /\ Committed => Committed'
<1>1. /\ SessionTypeOK /\ GoalsAgree /\ HandleAgrees /\ BooksAgree /\ NoPlaceTwice /\ raised = None
      /\ Quiet
  BY SpinningFacts
<1>2. ASSUME state = "navigating", NEW why \in {"operator", "goal_timeout", "mission_timeout"},
             BeginCancellation(why)
      PROVE  Session' /\ Quiet' /\ raised' = None /\ ~ Committed
  <2>1. ~ Committed
    BY <1>2 DEF Committed, Terminal
  <2> QED BY <1>2, <2>1, CancellationBegins
<1>3. ASSUME state = "waiting_for_map", NEW next \in Terminal, Leave(next),
             UNCHANGED <<adapterVars, booksVars>>
      PROVE  Session' /\ Quiet' /\ raised' = None /\ ~ Committed
  <2>1. next \in State \ Busy /\ next \notin Open /\ state \notin Busy
    BY <1>3 DEF State, Terminal, Busy, Open
  <2>2. UNCHANGED <<context, server, cancelCall, refused>>
    BY <1>3 DEF adapterVars
  <2>3. Idle(context')
    BY <2>1, <2>2, IdleFacts
  <2>4. ~ Committed
    BY <1>3 DEF Committed, Terminal
  <2> QED BY <1>3, <2>1, <2>2, <2>3, <2>4, SessionEnds
<1>4. CASE MissionTimesOut
  <2>1. CASE state = "navigating" /\ BeginCancellation("mission_timeout")
    BY <1>2, <2>1
  <2>2. CASE /\ state = "cancelling" /\ cause # "mission_timeout"
             /\ cause' = "mission_timeout"
             /\ UNCHANGED <<adapterVars, state, handle, trips, raised, booksVars>>
    <3>1. UNCHANGED <<context, server, cancelCall, refused>>
      BY <2>2 DEF adapterVars
    <3>2. BooksAgree' /\ NoPlaceTwice'
      BY <1>1, <2>2, <3>1, BooksKept
    <3>3. SessionTypeOK'
      BY <1>1, <2>2, <3>1 DEF SessionTypeOK, AdapterTypeOK, booksVars
    <3>4. GoalsAgree' /\ HandleAgrees' /\ Quiet'
      BY <1>1, <2>2, <3>1 DEF GoalsAgree, GoalAgrees, HandleAgrees, Quiet, Tracked
    <3>5. Committed'
      BY <2>2 DEF Committed
    <3> QED BY <1>1, <2>2, <3>2, <3>3, <3>4, <3>5 DEF Session
  <2>3. CASE /\ state = "waiting_for_map"
             /\ Leave("timed_out")
             /\ UNCHANGED <<adapterVars, booksVars>>
    BY <1>3, <2>3 DEF Terminal
  <2> QED BY <1>4, <2>1, <2>2, <2>3 DEF MissionTimesOut
<1>5. CASE GoalTimesOut
  BY <1>2, <1>5 DEF GoalTimesOut
<1>6. CASE MapTimesOut
  BY <1>3, <1>6 DEF MapTimesOut, Terminal
<1>7. CASE CancelTimesOut
  <2>1. /\ state = "cancelling" /\ state' = "failed" /\ cause' = None /\ handle' = NoGoal
        /\ UNCHANGED <<trips, raised>> /\ UNCHANGED <<context, server, cancelCall, refused>>
        /\ UNCHANGED booksVars
    BY <1>7 DEF CancelTimesOut, Leave, adapterVars
  <2>2. BooksAgree' /\ NoPlaceTwice'
    <3>1. state' \notin Open
      BY <2>1 DEF Open
    <3> QED BY <1>1, <2>1, <3>1, BooksKept
  <2>3. SessionTypeOK'
    BY <1>1, <2>1 DEF SessionTypeOK, AdapterTypeOK, State, Terminal, booksVars
  <2>4. GoalsAgree'
    BY <1>1, <2>1 DEF GoalsAgree, GoalAgrees
  <2>5. HandleAgrees'
    <3>1. context[handle].cancelRequested /\ \A g \in Goal : Tracked(g) => g = handle
      BY <1>1, <2>1 DEF HandleAgrees, Busy, Quiet
    <3>2. \A g \in Goal : g > Len(trips) => context[g] = Fresh
      BY <1>1 DEF HandleAgrees
    <3> QED BY <2>1, <3>1, <3>2 DEF HandleAgrees, Busy, Tracked
  <2>6. state' \in Terminal /\ Committed'
    BY <2>1 DEF Terminal, Committed
  <2> QED BY <1>1, <2>1, <2>2, <2>3, <2>4, <2>5, <2>6 DEF Session
<1> QED BY <1>4, <1>5, <1>6, <1>7

-----------------------------------------------------------------------------
(* The invariant.                                                           *)

LEMMA StartAgrees == ASSUME Inductive, TickStarts PROVE Inductive'
<1>1. /\ Spinning /\ ~ started /\ started' = TRUE
      /\ UNCHANGED <<adapterVars, confirmations, missionExpired, phase, newMap, answer,
                     result, foreign>>
  BY DEF TickStarts
<1>2. /\ SessionTypeOK /\ GoalsAgree /\ BooksAgree /\ NoPlaceTwice /\ ProgramTypeOK /\ raised = None
      /\ result = None /\ phase \in {"spinning", "interrupted"}
      /\ state \in {"created", "cancelled"} /\ (state = "cancelled" => answer # None)
      /\ answer = "accepted" => Committed
      /\ phase \in {"interrupted", "exited"} => answer # None
  BY <1>1, SpinningFacts
<1>3. UNCHANGED <<context, server, cancelCall, refused>>
  BY <1>1 DEF adapterVars
<1>4. ProgramTypeOK'
  BY <1>1, <1>2 DEF ProgramTypeOK
<1>5. ~ Done'
  BY <1>1, <1>2 DEF Done
<1>6. CASE state = "created"
  <2>1. Leave("waiting_for_map") /\ UNCHANGED booksVars
    BY <1>1, <1>6 DEF TickStarts
  <2>2. "waiting_for_map" \in State \ Busy /\ state \in Open /\ state \notin Busy
    BY <1>6 DEF State, Busy, Open
  <2>3. Idle(context')
    BY <1>1, <1>3, <2>2, IdleFacts
  <2>4. Session' /\ Quiet' /\ raised' = None
    BY <1>1, <1>3, <2>1, <2>2, <2>3, SessionEnds
  <2>5. answer # "accepted"
    BY <1>2, <1>6 DEF Committed, Terminal
  <2> QED BY <1>1, <1>2, <1>4, <1>5, <2>4, <2>5 DEF Inductive, ProgramAgrees
<1>7. CASE state = "cancelled"
  <2>1. /\ raised' = "start" /\ UNCHANGED <<state, cause, handle, trips, booksVars>>
    BY <1>1, <1>7 DEF TickStarts, Raise
  <2>2. BooksAgree' /\ NoPlaceTwice'
    BY <1>2, <1>3, <2>1, BooksKept
  <2>3. SessionTypeOK'
    BY <1>2, <1>3, <2>1 DEF SessionTypeOK, AdapterTypeOK, Raisable, booksVars
  <2>4. GoalsAgree'
    BY <1>1, <1>2, <1>3 DEF GoalsAgree, GoalAgrees
  <2>5. Session'
    BY <2>1, <2>2, <2>3, <2>4 DEF Session, None
  <2>6. Committed'
    BY <1>7, <2>1 DEF Committed, Terminal
  <2>7. phase' \notin {"exited", "shut_down"}
    BY <1>1, <1>2
  <2> QED BY <1>1, <1>2, <1>4, <1>5, <1>7, <2>1, <2>5, <2>6, <2>7
          DEF Inductive, ProgramAgrees, None
<1> QED BY <1>2, <1>6, <1>7

LEMMA GiveUpAgrees == ASSUME Inductive, TickGivesUp PROVE Inductive'
<1>1. /\ Spinning /\ ~ started /\ result' = "no_result"
      /\ UNCHANGED <<adapterVars, sessionVars, phase, started, newMap, answer, foreign>>
  BY DEF TickGivesUp
<1>2. UNCHANGED <<state, cause, handle, trips, booksVars, confirmations, missionExpired, raised>>
  BY <1>1 DEF sessionVars
<1>3. Session' /\ raised' = None /\ (Committed <=> Committed')
  BY <1>1, <1>2, NothingMoves
<1>4. /\ ProgramTypeOK /\ phase \in {"spinning", "interrupted"}
      /\ state \in {"created", "cancelled"} /\ (state = "cancelled" => answer # None)
      /\ answer = "accepted" => Committed
      /\ phase \in {"interrupted", "exited"} => answer # None
  BY <1>1, SpinningFacts
<1>5. ProgramTypeOK'
  BY <1>1, <1>2, <1>4 DEF ProgramTypeOK
<1>6. Done'
  BY <1>1 DEF Done, None
<1> QED BY <1>1, <1>2, <1>3, <1>4, <1>5, <1>6 DEF Inductive, ProgramAgrees

LEMMA OutcomeAgrees ==
  ASSUME Inductive, NEW g \in Goal, SpinOutcome(g) PROVE Inductive'
<1>1. /\ Spinning /\ UNCHANGED <<confirmations, missionExpired, phase, started, newMap, answer,
                                 result, foreign>>
  BY DEF SpinOutcome, coordinatorVars
<1>2. PICK ctx \in {Pop(context, g)}, outcome \in Outcome :
        Callback(g, ctx, outcome) /\ Outcomes(g, ctx, outcome)
  BY DEF SpinOutcome
<1>3. /\ Session' /\ (Committed => Committed')
      /\ \/ raised' = None /\ Quiet'
         \/ raised' = "cancellation_confirmed" /\ foreign /\ state' = "navigating"
  BY <1>1, <1>2, OutcomesAgree DEF AfterOutcome
<1>4. /\ ProgramTypeOK /\ phase \in {"spinning", "interrupted"} /\ result = None
      /\ ~ started => state \in {"created", "cancelled"}
      /\ answer = "accepted" => Committed
      /\ phase \in {"interrupted", "exited"} => answer # None
  BY <1>1, SpinningFacts
<1>5. started
  <2>1. state \in Busy
    BY <1>1, <1>2, CallbackFacts
  <2> QED BY <1>4, <2>1 DEF Busy
<1>6. ProgramTypeOK'
  BY <1>1, <1>4 DEF ProgramTypeOK
<1>7. ~ Done' /\ phase' \notin {"exited", "shut_down"}
  BY <1>1, <1>4 DEF Done
<1>8. \/ raised' = None /\ Quiet'
      \/ raised' # None /\ raised' = "cancellation_confirmed" /\ foreign' /\ state' = "navigating"
  BY <1>1, <1>3 DEF None
<1>9. ProgramAgrees'
  BY <1>1, <1>3, <1>4, <1>5, <1>7, <1>8 DEF ProgramAgrees
<1> QED BY <1>3, <1>6, <1>9 DEF Inductive

LEMMA CancelAgrees ==
  ASSUME Inductive, Spinning, RequestCancel,
         phase' \in {phase, "interrupted"},
         UNCHANGED <<confirmations, missionExpired, started, newMap, result, foreign>>
  PROVE  Inductive'
<1>1. /\ Session' /\ Quiet' /\ raised' = None
      /\ answer' \in {"accepted", "refused"}
      /\ answer' = "accepted" => Committed'
      /\ ~ started => state' = "cancelled"
  BY CancelRequested
<1>2. answer' # None
  BY <1>1 DEF None
<1>3. ProgramTypeOK'
  BY <1>1, SpinningFacts DEF ProgramTypeOK
<1> QED BY <1>1, <1>2, <1>3, ProgramGoesOn

\* The adapter or Nav2 moves.
LEMMA AdapterAgrees ==
  ASSUME Inductive, Spinning,
         UNCHANGED <<sessionVars, phase, started, newMap, answer, result>>,
         foreign' \in BOOLEAN, AdapterTypeOK', GoalsAgree',
         \A g \in Goal :
           /\ Tracked(g)' = Tracked(g)
           /\ context'[g].cancelRequested = context[g].cancelRequested
           /\ g > Len(trips) => context'[g] = context[g]
           /\ server[g] = "succeeded" => server'[g] = "succeeded"
  PROVE  Inductive'
<1>1. UNCHANGED <<state, cause, handle, trips, booksVars, confirmations, missionExpired, raised>>
  BY DEF sessionVars
<1>2. Session' /\ Quiet' /\ raised' = None /\ (Committed <=> Committed')
  BY <1>1, SessionWaits
<1>3. /\ ProgramTypeOK
      /\ ~ started => state \in {"created", "cancelled"}
      /\ ~ started /\ state = "cancelled" => answer # None
      /\ answer = "accepted" => Committed
      /\ phase \in {"interrupted", "exited"} => answer # None
  BY SpinningFacts
<1>4. ProgramTypeOK'
  BY <1>1, <1>3 DEF ProgramTypeOK
<1> QED BY <1>1, <1>2, <1>3, <1>4, ProgramGoesOn

LEMMA AcceptedAgrees ==
  ASSUME Inductive, NEW g \in Goal, SpinAccepted(g) PROVE Inductive'
<1>1. /\ Spinning /\ UNCHANGED sessionVars
      /\ UNCHANGED <<phase, started, newMap, answer, result, foreign>>
      /\ context[g].phase = "sent"
      /\ context' = [context EXCEPT ![g].phase = "accepted"]
      /\ cancelCall' = IF context[g].cancelRequested
                         THEN [cancelCall EXCEPT ![g] = @ + 1] ELSE cancelCall
      /\ UNCHANGED <<server, refused>>
  BY DEF SpinAccepted, ResponseAccepted, coordinatorVars
<1>2. /\ SessionTypeOK /\ GoalsAgree /\ HandleAgrees /\ ProgramTypeOK /\ Quiet
  BY <1>1, SpinningFacts
<1>3. /\ context \in [Goal -> Context] /\ cancelCall \in [Goal -> Nat]
      /\ context[g] \in Context /\ cancelCall[g] \in Nat
  BY <1>2 DEF SessionTypeOK, AdapterTypeOK
<1>4. /\ context' \in [Goal -> Context]
      /\ context'[g].phase = "accepted"
      /\ context'[g].cancelRequested = context[g].cancelRequested
      /\ \A h \in Goal : h # g => context'[h] = context[h]
  BY <1>1, <1>3 DEF Context, Phase
<1>5. /\ cancelCall' \in [Goal -> Nat]
      /\ \A h \in Goal : h # g => cancelCall'[h] = cancelCall[h]
      /\ ~ context[g].cancelRequested => cancelCall'[g] = cancelCall[g]
  <2>1. CASE context[g].cancelRequested
    <3>1. cancelCall' = [cancelCall EXCEPT ![g] = @ + 1] /\ cancelCall[g] + 1 \in Nat
      BY <1>1, <1>3, <2>1
    <3> QED BY <1>3, <2>1, <3>1
  <2>2. CASE ~ context[g].cancelRequested
    BY <1>1, <1>3, <2>2
  <2> QED BY <2>1, <2>2
<1>6. AdapterTypeOK'
  BY <1>1, <1>2, <1>4, <1>5 DEF SessionTypeOK, AdapterTypeOK
<1>7. GoalsAgree'
  <2> SUFFICES ASSUME NEW h \in Goal PROVE GoalAgrees(context, h)'
    BY DEF GoalsAgree
  <2>1. GoalAgrees(context, h)
    BY <1>2 DEF GoalsAgree
  <2>2. context'[h].cancelRequested = context[h].cancelRequested
    BY <1>4
  <2>3. cancelCall'[h] = cancelCall[h] \/ context[h].cancelRequested
    BY <1>5
  <2> QED BY <1>1, <2>1, <2>2, <2>3 DEF GoalAgrees
<1>8. g = handle /\ handle = Len(trips)
  <2>1. Tracked(g)
    BY <1>1 DEF Tracked
  <2>2. g = handle /\ handle # NoGoal
    BY <1>2, <2>1, Constants DEF Quiet
  <2> QED BY <1>2, <2>2 DEF HandleAgrees
<1>9. \A h \in Goal : /\ Tracked(h)' = Tracked(h)
                      /\ context'[h].cancelRequested = context[h].cancelRequested
                      /\ h > Len(trips) => context'[h] = context[h]
  <2> TAKE h \in Goal
  <2>1. CASE h = g
    <3>1. Tracked(h) /\ Tracked(h)'
      BY <1>1, <1>4, <2>1 DEF Tracked
    <3>2. ~ h > Len(trips)
      BY <1>8, <2>1, Constants
    <3> QED BY <1>4, <2>1, <3>1, <3>2
  <2>2. CASE h # g
    BY <1>4, <2>2 DEF Tracked
  <2> QED BY <2>1, <2>2
<1>10. foreign' \in BOOLEAN
  BY <1>1, <1>2 DEF ProgramTypeOK
<1> QED BY <1>1, <1>6, <1>7, <1>9, <1>10, AdapterAgrees

\* Nav2 moves, the goal g only: its contexts are the adapter's.
LEMMA Nav2Agrees ==
  ASSUME Inductive, NEW g \in Goal, foreign' \in BOOLEAN, foreign => foreign',
         \/ ServerAnswers(g) \/ ServerFinishes(g) \/ ServerCancels(g)
         \/ /\ server[g] = "executing"
            /\ server' = [server EXCEPT ![g] = "canceling"]
            /\ foreign' = TRUE
            /\ UNCHANGED <<context, cancelCall, refused>>,
         Spinning, UNCHANGED <<sessionVars, phase, started, newMap, answer, result>>
  PROVE  Inductive'
<1>1. SessionTypeOK /\ GoalsAgree
  BY SpinningFacts
<1>2. /\ context \in [Goal -> Context] /\ server \in [Goal -> ServerState]
      /\ cancelCall \in [Goal -> Nat] /\ refused \in [Goal -> BOOLEAN]
      /\ cancelCall[g] \in Nat /\ server[g] \in ServerState
  BY <1>1 DEF SessionTypeOK, AdapterTypeOK
<1>3. GoalAgrees(context, g)
  BY <1>1 DEF GoalsAgree
<1>4. /\ context' = context
      /\ server[g] # "succeeded" \/ server' = server
      /\ server' \in [Goal -> ServerState] /\ cancelCall' \in [Goal -> Nat]
      /\ refused' \in [Goal -> BOOLEAN]
      /\ \A h \in Goal : h # g => /\ server'[h] = server[h] /\ cancelCall'[h] = cancelCall[h]
                                  /\ refused'[h] = refused[h]
      /\ GoalAgrees(context, g)'
  <2>1. CASE ServerAnswers(g)
    <3>1. PICK s \in {"executing", "rejected"} : server' = [server EXCEPT ![g] = s]
      BY <2>1 DEF ServerAnswers
    <3>2. UNCHANGED <<context, cancelCall, refused>> /\ server[g] = "requested"
      BY <2>1 DEF ServerAnswers
    <3>3. server' \in [Goal -> ServerState]
      BY <1>2, <3>1 DEF ServerState, Live
    <3> QED BY <1>2, <1>3, <3>1, <3>2, <3>3 DEF GoalAgrees
  <2>2. CASE ServerFinishes(g)
    <3>1. PICK s \in Ended : /\ server' = [server EXCEPT ![g] = s]
                             /\ server[g] = "canceling" \/ s # "canceled"
                             /\ server[g] \in {"executing", "canceling"}
      BY <2>2 DEF ServerFinishes, Ended
    <3>2. UNCHANGED <<context, cancelCall, refused>>
      BY <2>2 DEF ServerFinishes
    <3>3. server' \in [Goal -> ServerState] /\ server'[g] = s
      BY <1>2, <3>1 DEF ServerState
    <3>4. s \in {"canceling", "canceled"} => server[g] = "canceling"
      BY <3>1 DEF Ended
    <3> QED BY <1>2, <1>3, <3>1, <3>2, <3>3, <3>4 DEF GoalAgrees
  <2>3. CASE ServerCancels(g)
    <3>1. /\ cancelCall[g] > 0 /\ cancelCall' = [cancelCall EXCEPT ![g] = @ - 1]
          /\ UNCHANGED context
          /\ \/ /\ server[g] = "executing"
                /\ server' = [server EXCEPT ![g] = "canceling"]
                /\ refused' = refused
             \/ refused' = [refused EXCEPT ![g] = TRUE] /\ server' = server
      BY <2>3 DEF ServerCancels
    <3>2. cancelCall[g] - 1 \in Nat
      BY <1>2, <3>1
    <3>3. cancelCall' \in [Goal -> Nat] /\ \A h \in Goal : h # g => cancelCall'[h] = cancelCall[h]
      BY <1>2, <3>1, <3>2
    <3>4. /\ server' \in [Goal -> ServerState] /\ refused' \in [Goal -> BOOLEAN]
          /\ \A h \in Goal : h # g => server'[h] = server[h] /\ refused'[h] = refused[h]
      BY <1>2, <3>1 DEF ServerState, Live
    <3>5. context'[g].cancelRequested
      BY <1>3, <3>1 DEF GoalAgrees
    <3>6. server[g] # "succeeded" \/ server' = server
      BY <3>1
    <3> QED BY <3>1, <3>3, <3>4, <3>5, <3>6 DEF GoalAgrees
  <2>4. CASE /\ server[g] = "executing"
             /\ server' = [server EXCEPT ![g] = "canceling"]
             /\ foreign' = TRUE
             /\ UNCHANGED <<context, cancelCall, refused>>
    <3>1. server' \in [Goal -> ServerState]
      BY <1>2, <2>4 DEF ServerState, Live
    <3> QED BY <1>2, <1>3, <2>4, <3>1 DEF GoalAgrees
  <2> QED BY <2>1, <2>2, <2>3, <2>4
<1>5. AdapterTypeOK'
  BY <1>2, <1>4 DEF AdapterTypeOK
<1>6. GoalsAgree'
  <2> SUFFICES ASSUME NEW h \in Goal PROVE GoalAgrees(context, h)'
    BY DEF GoalsAgree
  <2>1. CASE h = g
    BY <1>4, <2>1
  <2>2. CASE h # g
    <3>1. GoalAgrees(context, h)
      BY <1>1 DEF GoalsAgree
    <3> QED BY <1>4, <2>2, <3>1 DEF GoalAgrees
  <2> QED BY <2>1, <2>2
<1>7. \A h \in Goal : /\ Tracked(h)' = Tracked(h)
                      /\ server[h] = "succeeded" => server'[h] = "succeeded"
  BY <1>4 DEF Tracked
<1> QED BY <1>4, <1>5, <1>6, <1>7, AdapterAgrees

-----------------------------------------------------------------------------
LEMMA InitAgrees == Init => Inductive
<1> SUFFICES ASSUME Init PROVE Inductive
  OBVIOUS
<1>1. /\ context = [g \in Goal |-> Fresh] /\ server = [g \in Goal |-> "idle"]
      /\ cancelCall = [g \in Goal |-> 0] /\ refused = [g \in Goal |-> FALSE]
      /\ state = "created" /\ cause = None /\ handle = NoGoal /\ trips = <<>>
      /\ blacklist = {} /\ visited = {} /\ completed = 0 /\ failed = 0
      /\ confirmations = 0 /\ missionExpired = FALSE /\ raised = None
      /\ phase = "spinning" /\ started = FALSE /\ newMap = FALSE
      /\ answer = None /\ result = None /\ foreign = FALSE
  BY DEF Init, AdapterInit, Fresh
<1>2. AdapterTypeOK
  BY <1>1 DEF AdapterTypeOK, Context, Phase, ServerState, Fresh
<1>3. SessionTypeOK
  BY <1>1, <1>2, Constants DEF SessionTypeOK, State
<1>4. GoalsAgree
  BY <1>1 DEF GoalsAgree, GoalAgrees
<1>5. \A g \in Goal : ~ Tracked(g)
  BY <1>1 DEF Tracked, Fresh
<1>6. HandleAgrees
  BY <1>1, <1>5 DEF HandleAgrees, Busy
<1>7. BooksAgree /\ NoPlaceTwice
  <2>1. IsFiniteSet({}) /\ Cardinality({}) = 0
    BY FS_EmptySet
  <2> QED BY <1>1, <2>1 DEF BooksAgree, NoPlaceTwice
<1>8. ProgramTypeOK
  BY <1>1 DEF ProgramTypeOK
<1>9. ProgramAgrees
  BY <1>1, <1>5 DEF ProgramAgrees, Done, Quiet, None
<1> QED BY <1>3, <1>4, <1>6, <1>7, <1>8, <1>9 DEF Inductive, Session

LEMMA StutterAgrees == ASSUME Inductive, UNCHANGED vars PROVE Inductive'
<1>1. /\ UNCHANGED <<context, server, cancelCall, refused, state, cause, handle, trips>>
      /\ UNCHANGED <<blacklist, visited, completed, failed, confirmations, missionExpired, raised>>
      /\ UNCHANGED <<phase, started, newMap, answer, result, foreign>>
  BY DEF vars, adapterVars, sessionVars, booksVars, coordinatorVars
<1>2. SessionTypeOK'
  BY <1>1 DEF Inductive, Session, SessionTypeOK, AdapterTypeOK
<1>3. GoalsAgree'
  BY <1>1 DEF Inductive, Session, GoalsAgree, GoalAgrees
<1>4. (raised = None => HandleAgrees)'
  BY <1>1 DEF Inductive, Session, HandleAgrees, Tracked
<1>5. BooksAgree'
  BY <1>1 DEF Inductive, Session, BooksAgree
<1>6. NoPlaceTwice'
  BY <1>1 DEF Inductive, Session, NoPlaceTwice
<1>7. ProgramTypeOK'
  BY <1>1 DEF Inductive, ProgramTypeOK
<1>8. (Done' <=> Done) /\ (Committed' <=> Committed) /\ (Quiet' <=> Quiet)
  BY <1>1 DEF Done, Committed, Quiet, Tracked
<1>9. ProgramAgrees'
  BY <1>1, <1>8 DEF Inductive, ProgramAgrees
<1> QED BY <1>2, <1>3, <1>4, <1>5, <1>6, <1>7, <1>9 DEF Inductive, Session

LEMMA StepAgrees == ASSUME Inductive, [Next]_vars PROVE Inductive'
<1>1. CASE UNCHANGED vars \/ Returned
  BY <1>1, StutterAgrees DEF Returned
<1>2. CASE TickStarts \/ TickGivesUp
  BY <1>2, StartAgrees, GiveUpAgrees
<1>3. CASE TickFinalizes
  <2>1. /\ Spinning /\ started /\ state \in Terminal /\ Finalize
        /\ UNCHANGED <<adapterVars, sessionVars, phase, started, newMap, answer, foreign>>
    BY <1>3 DEF TickFinalizes
  <2>2. UNCHANGED <<state, cause, handle, trips, booksVars, confirmations, missionExpired, raised>>
    BY <2>1 DEF sessionVars
  <2>3. Session' /\ Quiet' /\ raised' = None /\ (Committed => Committed')
    BY <2>1, <2>2, NothingMoves
  <2>4. confirmations' \in Nat /\ newMap' \in BOOLEAN
    BY <2>1, <2>2, SpinningFacts DEF ProgramTypeOK
  <2> QED BY <2>1, <2>2, <2>3, <2>4, TickAgrees
<1>4. CASE TickObserves
  <2>1. /\ Spinning /\ started /\ state = "waiting_for_map" /\ newMap' = FALSE /\ ObserveMap
        /\ Finalize /\ UNCHANGED <<missionExpired, phase, started, answer, foreign>>
    BY <1>4 DEF TickObserves
  <2>2. Session' /\ Quiet' /\ raised' = None /\ confirmations' \in Nat
    BY <2>1, MapObserved
  <2>3. newMap' \in BOOLEAN
    BY <2>1
  <2>4. ~ Committed
    BY <2>1 DEF Committed, Terminal
  <2> QED BY <2>1, <2>2, <2>3, <2>4, TickAgrees
<1>5. CASE TickTimesOut
  <2>1. /\ Spinning /\ started /\ Finalize
        /\ MissionTimesOut \/ GoalTimesOut \/ MapTimesOut \/ CancelTimesOut
        /\ UNCHANGED <<confirmations, missionExpired, phase, started, newMap, answer, foreign>>
    BY <1>5 DEF TickTimesOut
  <2>2. /\ Session' /\ raised' = None
        /\ Quiet' \/ state' \in Terminal
        /\ Committed => Committed'
    BY <2>1, DeadlinePasses
  <2>3. confirmations' \in Nat /\ newMap' \in BOOLEAN
    BY <2>1, SpinningFacts DEF ProgramTypeOK
  <2> QED BY <2>1, <2>2, <2>3, TickAgrees
<1>6. CASE \E g \in Goal : SpinOutcome(g) \/ SpinAccepted(g)
  BY <1>6, OutcomeAgrees, AcceptedAgrees
<1>7. CASE SpinMap \/ StopWaiting \/ ShutDown \/ MissionExpires
  <2>1. Spinning /\ UNCHANGED <<started, answer, result, foreign>>
    BY <1>7 DEF SpinMap, StopWaiting, ShutDown, MissionExpires, coordinatorVars
  <2>2. UNCHANGED <<adapterVars, state, cause, handle, trips, booksVars, raised>>
    BY <1>7 DEF SpinMap, StopWaiting, ShutDown, MissionExpires, sessionVars
  <2>3. /\ Session' /\ Quiet' /\ raised' = None
        /\ Committed <=> Committed'
    BY <2>1, <2>2, NothingMoves
  <2>4. /\ ProgramTypeOK
        /\ ~ started => state \in {"created", "cancelled"}
        /\ ~ started /\ state = "cancelled" => answer # None
        /\ answer = "accepted" => Committed
        /\ phase \in {"interrupted", "exited"} => answer # None
    BY <2>1, SpinningFacts
  <2>5. /\ newMap' = newMap \/ newMap' = TRUE
        /\ missionExpired' = missionExpired \/ missionExpired' = TRUE
        /\ confirmations' = confirmations
        /\ \/ phase' = phase
           \/ phase = "interrupted" /\ phase' = "exited"
           \/ phase' = "shut_down"
    BY <1>7 DEF SpinMap, StopWaiting, ShutDown, MissionExpires, sessionVars, coordinatorVars
  <2>6. newMap' \in BOOLEAN /\ missionExpired' \in BOOLEAN
    BY <2>4, <2>5 DEF ProgramTypeOK
  <2>7. ProgramTypeOK'
    BY <2>1, <2>4, <2>5, <2>6 DEF ProgramTypeOK
  <2> QED BY <2>1, <2>2, <2>3, <2>4, <2>5, <2>7, ProgramGoesOn
<1>8. CASE SpinCancelService \/ Interrupt
  <2>1. /\ Spinning /\ RequestCancel /\ phase' \in {phase, "interrupted"}
        /\ UNCHANGED <<confirmations, missionExpired, started, newMap, result, foreign>>
    BY <1>8 DEF SpinCancelService, Interrupt
  <2> QED BY <2>1, CancelAgrees
<1>9. CASE ServerStep
  <2>1. /\ Spinning /\ UNCHANGED sessionVars
        /\ UNCHANGED <<phase, started, newMap, answer, result, foreign>>
    BY <1>9 DEF ServerStep, coordinatorVars
  <2>2. foreign' \in BOOLEAN
    BY <2>1, SpinningFacts DEF ProgramTypeOK
  <2>3. PICK g \in Goal : ServerAnswers(g) \/ ServerFinishes(g) \/ ServerCancels(g)
    BY <1>9 DEF ServerStep, Server
  <2> QED BY <2>1, <2>2, <2>3, Nav2Agrees
<1>10. CASE \E g \in Goal : ForeignCancels(g)
  <2>1. PICK g \in Goal : ForeignCancels(g)
    BY <1>10
  <2>2. foreign' = TRUE /\ foreign' \in BOOLEAN
    BY <2>1 DEF ForeignCancels
  <2> QED BY <2>1, <2>2, Nav2Agrees DEF ForeignCancels
<1> QED BY <1>1, <1>2, <1>3, <1>4, <1>5, <1>6, <1>7, <1>8, <1>9, <1>10 DEF Next, Tick, Spin

\* The state of the session, the adapter, the books and the program's loop always
\* satisfy Inductive, on which the properties below rest.
THEOREM Agreement == Spec => []Inductive
BY InitAgrees, StepAgrees, PTL DEF Spec

\* Every variable keeps to its type: the session's state, cause and handle, the trips
\* and the books of places, the adapter's contexts and the coordinator's flags.
THEOREM TypeCorrect == Spec => []TypeOK
<1>1. Inductive => TypeOK
  BY Types DEF Inductive, Session
<1> QED BY <1>1, Agreement, PTL

\* The coordinates of the books keep the robot from going anywhere twice: each goal's
\* place is new, and near to none that was visited or blacklisted by then.
THEOREM EveryTripIsNew == Spec => []NoPlaceTwice
<1>1. Inductive => NoPlaceTwice
  BY DEF Inductive, Session
<1> QED BY <1>1, Agreement, PTL

\* _visited, _blacklist and their counters agree with what happened in Nav2, and
\* while the session navigates the adapter tracks its goal and no other.
THEOREM BooksStayReal == Spec => []BooksAreReal
<1>1. ASSUME Inductive PROVE BooksAreReal
  <2>1. SessionTypeOK /\ BooksAgree
    BY <1>1 DEF Inductive, Session
  <2>2. Len(trips) \in Nat /\ DOMAIN trips = 1 .. Len(trips)
    BY <2>1 DEF SessionTypeOK
  <2>3. {trips[i] : i \in 1 .. Len(trips) - 1} \subseteq visited \cup blacklist
    <3> SUFFICES ASSUME NEW i \in 1 .. Len(trips) - 1 PROVE trips[i] \in visited \cup blacklist
      OBVIOUS
    <3>1. i \in 1 .. Len(trips) /\ i < Len(trips)
      BY <2>2
    <3> QED BY <2>1, <3>1 DEF BooksAgree
  <2>4. ASSUME state = "navigating", raised = None
        PROVE  {g \in Goal : Tracked(g)} = {handle}
    <3>1. HandleAgrees
      BY <1>1, <2>4 DEF Inductive, Session
    <3>2. handle # NoGoal /\ handle \in Goal /\ Tracked(handle)
      BY <2>1, <2>4, <3>1 DEF HandleAgrees, Busy, SessionTypeOK
    <3>3. \A g \in Goal : Tracked(g) => g = handle
      BY <2>4, <3>1 DEF HandleAgrees
    <3> QED BY <3>2, <3>3
  <2> QED BY <2>1, <2>2, <2>3, <2>4 DEF BooksAreReal, BooksAgree
<1> QED BY <1>1, Agreement, PTL

\* start() raises only after an early cancel, a callback only when another client
\* canceled the goal; and main() leaves a goal behind that Nav2 was not asked to
\* cancel only after a Ctrl-C that the session refused, or when rclpy was shut down
\* before a cancel was accepted.
THEOREM EveryEndIsExplained == Spec => []EndIsExplained
<1>1. ASSUME Inductive PROVE EndIsExplained
  <2>1. /\ ProgramAgrees /\ ProgramTypeOK /\ SessionTypeOK
        /\ raised = None => HandleAgrees
    BY <1>1 DEF Inductive, Session
  <2>2. \/ raised = None
        \/ raised = "start" /\ raised # None /\ answer # None /\ state = "cancelled"
        \/ /\ raised = "cancellation_confirmed" /\ raised # None /\ raised # "start"
           /\ foreign /\ state = "navigating"
    BY <2>1 DEF ProgramAgrees, None
  <2>3. (CASE raised = None -> TRUE
           [] raised = "start" -> answer # None /\ state = "cancelled"
           [] raised = "cancellation_confirmed" -> foreign /\ state = "navigating"
           [] OTHER -> FALSE)
    BY <2>2 DEF None
  <2>4. ASSUME Done \/ phase \in {"exited", "shut_down"}, NEW g \in Goal, Tracked(g)
        PROVE  \/ context[g].cancelRequested
               \/ phase = "exited" /\ answer = "refused"
               \/ phase = "shut_down" /\ answer # "accepted"
    <3>1. raised = None /\ HandleAgrees
      BY <2>1, <2>4 DEF ProgramAgrees
    <3>2. CASE g # handle
      BY <2>4, <3>1, <3>2 DEF HandleAgrees
    <3>3. CASE g = handle
      <4>1. handle # NoGoal
        BY <3>3, Constants
      <4>2. state \in Busy /\ (context[g].cancelRequested <=> state = "cancelling")
        BY <3>1, <3>3, <4>1 DEF HandleAgrees
      <4>3. CASE state = "navigating"
        <5>1. ~ Done /\ answer # "accepted"
          BY <2>1, <4>3 DEF ProgramAgrees, Terminal, Committed
        <5>2. phase \in {"exited", "shut_down"} /\ (phase = "exited" => answer # None)
          BY <2>1, <2>4, <5>1 DEF ProgramAgrees
        <5> QED BY <2>1, <5>1, <5>2 DEF ProgramTypeOK
      <4> QED BY <4>2, <4>3 DEF Busy
    <3> QED BY <3>2, <3>3
  <2> QED BY <2>3, <2>4 DEF EndIsExplained
<1> QED BY <1>1, Agreement, PTL

\* Once request_cancel has answered the operator that it was accepted, no further goal
\* is dispatched, and the session never completes.
THEOREM CancelIsHonoured == Spec => CancelHonoured
<1> DEFINE Honoured == answer = "accepted" =>
             trips' = trips /\ (state \notin Terminal => state' # "completed")
<1>1. ASSUME Inductive, [Next]_vars PROVE Honoured \/ UNCHANGED vars
  <2> SUFFICES ASSUME Spinning, answer = "accepted", Next
               PROVE  trips' = trips /\ (state \notin Terminal => state' # "completed")
    BY <1>1 DEF Next, Returned, Tick, Spin, TickStarts, TickFinalizes, TickTimesOut, TickGivesUp,
                TickObserves, SpinMap, SpinCancelService, SpinOutcome, SpinAccepted, Interrupt,
                StopWaiting, ShutDown, MissionExpires, ServerStep, ForeignCancels
  <2>1. Committed /\ SessionTypeOK
    BY <1>1, SpinningFacts
  <2>2. /\ state # "navigating" /\ state # "waiting_for_map" /\ state # "created"
        /\ state = "cancelling" => cause # "goal_timeout"
    BY <2>1 DEF Committed, Terminal
  <2>3. ASSUME UNCHANGED <<state, trips>>
        PROVE  trips' = trips /\ (state \notin Terminal => state' # "completed")
    BY <2>3 DEF Terminal
  <2>4. ASSUME NEW next, Leave(next), next # "completed"
        PROVE  trips' = trips /\ (state \notin Terminal => state' # "completed")
    BY <2>4 DEF Leave
  <2>5. CASE TickStarts
    BY <2>2, <2>3, <2>5 DEF TickStarts, Raise
  <2>6. CASE TickGivesUp \/ TickFinalizes
    BY <2>3, <2>6 DEF TickGivesUp, TickFinalizes, sessionVars
  <2>7. CASE TickObserves
    BY <2>2, <2>7 DEF TickObserves
  <2>8. CASE TickTimesOut
    BY <2>2, <2>3, <2>4, <2>8
       DEF TickTimesOut, MissionTimesOut, GoalTimesOut, MapTimesOut, CancelTimesOut
  <2>9. CASE SpinCancelService \/ Interrupt
    <3>1. RequestCancel
      BY <2>9 DEF SpinCancelService, Interrupt
    <3> QED BY <2>2, <2>3, <2>4, <3>1 DEF RequestCancel
  <2>10. ASSUME NEW g \in Goal, SpinOutcome(g)
         PROVE  trips' = trips /\ (state \notin Terminal => state' # "completed")
    <3>1. PICK ctx \in {Pop(context, g)}, outcome \in Outcome : Outcomes(g, ctx, outcome)
      BY <2>10 DEF SpinOutcome
    <3>2. CASE NavigationSucceeded(g, ctx)
      BY <2>2, <2>3, <3>2 DEF NavigationSucceeded, Raise
    <3>3. CASE NavigationFailed(g, ctx)
      BY <2>2, <2>3, <3>3 DEF NavigationFailed, Raise
    <3>4. CASE CancellationConfirmed(g, ctx)
      BY <2>2, <2>3, <2>4, <3>4 DEF CancellationConfirmed, Raise
    <3>5. CASE CancellationFailed(g, ctx)
      BY <2>3, <2>4, <3>5 DEF CancellationFailed, Raise
    <3> QED BY <3>1, <3>2, <3>3, <3>4, <3>5 DEF Outcomes
  <2>11. ASSUME NEW g \in Goal, SpinAccepted(g) \/ ForeignCancels(g)
         PROVE  trips' = trips /\ (state \notin Terminal => state' # "completed")
    BY <2>3, <2>11 DEF SpinAccepted, ForeignCancels, sessionVars
  <2>12. CASE SpinMap \/ StopWaiting \/ ShutDown \/ MissionExpires \/ ServerStep
    BY <2>3, <2>12 DEF SpinMap, StopWaiting, ShutDown, MissionExpires, ServerStep, sessionVars
  <2>13. CASE Returned
    BY <2>13 DEF Returned
  <2> QED BY <2>5, <2>6, <2>7, <2>8, <2>9, <2>10, <2>11, <2>12, <2>13 DEF Next, Tick, Spin
<1>2. Inductive /\ [Next]_vars => [Honoured]_vars
  BY <1>1
<1>3. []Inductive /\ [][Next]_vars => [][Honoured]_vars
  BY <1>2, PTL
<1> QED BY <1>3, Agreement, PTL DEF Spec, CancelHonoured
=============================================================================
