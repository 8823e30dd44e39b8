----------------------- MODULE SplitExecution_proofs -----------------------
(***************************************************************************)
(* Safety of execute_split for every plan, every set of faults and every    *)
(* set of stops.                                                            *)
(*                                                                          *)
(* The scheduler keeps its two kinds of list in step: a goal has left its   *)
(* reservation only if its robot is done with it, and an active robot that  *)
(* has not cleared its corridor is at the head of its queue.                *)
(*                                                                          *)
(* The inductive invariant of the loop ties four records of the same goal   *)
(* together: the scheduler's lists, the loop's token and pending set, the   *)
(* adapter's context and the action server.  A goal that was sent is either *)
(* behind its robot or the one its robot is active with; it has left its    *)
(* queue or is its head; and whoever is pending waits for a goal the        *)
(* adapter still tracks.                                                    *)
(***************************************************************************)
EXTENDS SplitExecution, FleetAdapter_proofs

-----------------------------------------------------------------------------
(* The scheduler.                                                           *)

\* The robot a goal belongs to, its place in that robot's work, and its place
\* in the queue of its reservation.
Owner(g) == CHOOSE r \in Robot : \E k \in DOMAIN Work[r] : Work[r][k] = g

Place(g) == CHOOSE k \in DOMAIN Work[Owner(g)] : Work[Owner(g)][k] = g

Slot(g) == CHOOSE i \in DOMAIN Queue[ReservationOf[g]] : Queue[ReservationOf[g]][i] = g

\* The robot needs the reservation of g no longer.
Gone(g) == \/ Place(g) <= done[Owner(g)]
           \/ Place(g) = done[Owner(g)] + 1 /\ Owner(g) \in cleared

SchedulerInv ==
  /\ SchedulerTypeOK
  /\ \A r \in Robot : done[r] <= Len(Work[r])
  /\ \A q \in Reservation : popped[q] <= Len(Queue[q])
  /\ \A r \in active : HasWork(r)
  /\ \A r \in active \ cleared : Slot(Current(r)) = popped[HeldBy(r)] + 1
  /\ cleared \subseteq active
  /\ \A g \in PlanGoal : Slot(g) <= popped[ReservationOf[g]] => Gone(g)

\* What the compiled plan says of one robot's list.
LEMMA WorkFacts ==
  ASSUME NEW r \in Robot
  PROVE  /\ Len(Work[r]) \in Nat
         /\ DOMAIN Work[r] = 1 .. Len(Work[r])
         /\ \A k \in 1 .. Len(Work[r]) : Work[r][k] \in PlanGoal
<1>1. Work[r] \in Seq(PlanGoal)
  BY PlanAssumption
<1> QED  BY <1>1

LEMMA QueueFacts ==
  ASSUME NEW q \in Reservation
  PROVE  /\ Len(Queue[q]) \in Nat
         /\ DOMAIN Queue[q] = 1 .. Len(Queue[q])
         /\ \A i \in 1 .. Len(Queue[q]) :
              Queue[q][i] \in PlanGoal /\ ReservationOf[Queue[q][i]] = q
<1>1. Queue[q] \in Seq(PlanGoal)
  BY PlanAssumption
<1>2. Len(Queue[q]) \in Nat /\ DOMAIN Queue[q] = 1 .. Len(Queue[q])
  BY <1>1
<1>3. \A i \in 1 .. Len(Queue[q]) : Queue[q][i] \in PlanGoal
  BY <1>1
<1>4. \A i \in DOMAIN Queue[q] : ReservationOf[Queue[q][i]] = q
  BY PlanAssumption
<1> QED  BY <1>2, <1>3, <1>4

\* A list in plan order holds no goal twice.
LEMMA PlanOrderIsInjective ==
  ASSUME NEW s \in Seq(PlanGoal), InPlanOrder(s),
         NEW i \in DOMAIN s, NEW j \in DOMAIN s, s[i] = s[j]
  PROVE  i = j
<1>1. i \in Nat /\ j \in Nat /\ s[i] \in PlanGoal /\ s[j] \in PlanGoal
  OBVIOUS
<1>2. Rank[s[i]] \in Nat
  BY <1>1, PlanAssumption
<1>3. CASE i < j
  BY <1>2, <1>3 DEF InPlanOrder
<1>4. CASE j < i
  BY <1>2, <1>4 DEF InPlanOrder
<1> QED  BY <1>1, <1>3, <1>4

\* Every goal has one owner, one place and one slot.
LEMMA GoalFacts ==
  ASSUME NEW g \in PlanGoal
  PROVE  /\ Owner(g) \in Robot
         /\ Place(g) \in 1 .. Len(Work[Owner(g)])
         /\ Work[Owner(g)][Place(g)] = g
         /\ ReservationOf[g] \in Reservation
         /\ Slot(g) \in 1 .. Len(Queue[ReservationOf[g]])
         /\ Queue[ReservationOf[g]][Slot(g)] = g
<1>1. \E r \in Robot : \E k \in DOMAIN Work[r] : Work[r][k] = g
  BY DEF PlanGoal
<1>2. Owner(g) \in Robot /\ \E k \in DOMAIN Work[Owner(g)] : Work[Owner(g)][k] = g
  BY <1>1 DEF Owner
<1>3. Place(g) \in DOMAIN Work[Owner(g)] /\ Work[Owner(g)][Place(g)] = g
  BY <1>2 DEF Place
<1>4. \E i \in DOMAIN Queue[ReservationOf[g]] : Queue[ReservationOf[g]][i] = g
  BY PlanAssumption
<1>5. /\ Slot(g) \in DOMAIN Queue[ReservationOf[g]]
      /\ Queue[ReservationOf[g]][Slot(g)] = g
  BY <1>4 DEF Slot
<1>6. ReservationOf[g] \in Reservation
  BY PlanAssumption
<1> QED  BY <1>2, <1>3, <1>5, <1>6, WorkFacts, QueueFacts

LEMMA PlaceIsIndex ==
  ASSUME NEW r \in Robot, NEW k \in 1 .. Len(Work[r])
  PROVE  /\ Work[r][k] \in PlanGoal
         /\ Owner(Work[r][k]) = r
         /\ Place(Work[r][k]) = k
<1> DEFINE g == Work[r][k]
<1>1. g \in PlanGoal /\ k \in DOMAIN Work[r]
  BY WorkFacts
<1>2. /\ Owner(g) \in Robot
      /\ Place(g) \in DOMAIN Work[Owner(g)]
      /\ Work[Owner(g)][Place(g)] = g
  BY <1>1, GoalFacts, WorkFacts
<1>3. Owner(g) = r
  BY <1>1, <1>2, PlanAssumption
<1>4. Work[r] \in Seq(PlanGoal) /\ InPlanOrder(Work[r])
  BY PlanAssumption
<1>5. Place(g) = k
  BY <1>1, <1>2, <1>3, <1>4, PlanOrderIsInjective
<1> QED  BY <1>1, <1>3, <1>5

LEMMA SlotIsIndex ==
  ASSUME NEW q \in Reservation, NEW i \in 1 .. Len(Queue[q])
  PROVE  Slot(Queue[q][i]) = i
<1> DEFINE g == Queue[q][i]
<1>1. g \in PlanGoal /\ ReservationOf[g] = q /\ i \in DOMAIN Queue[q]
  BY QueueFacts
<1>2. Slot(g) \in DOMAIN Queue[q] /\ Queue[q][Slot(g)] = g
  BY <1>1, GoalFacts, QueueFacts
<1>3. Queue[q] \in Seq(PlanGoal) /\ InPlanOrder(Queue[q])
  BY PlanAssumption
<1> QED  BY <1>1, <1>2, <1>3, PlanOrderIsInjective

\* Two goals in the same place of one reservation are the same goal.
LEMMA SlotIsUnique ==
  ASSUME NEW g \in PlanGoal, NEW h \in PlanGoal,
         ReservationOf[g] = ReservationOf[h], Slot(g) = Slot(h)
  PROVE  g = h
BY GoalFacts

\* The goal a robot with work comes to next.
LEMMA CurrentFacts ==
  ASSUME NEW r \in Robot, done[r] \in Nat, HasWork(r)
  PROVE  /\ Current(r) \in PlanGoal
         /\ Owner(Current(r)) = r
         /\ Place(Current(r)) = done[r] + 1
         /\ HeldBy(r) \in Reservation
<1>1. done[r] + 1 \in 1 .. Len(Work[r])
  BY WorkFacts DEF HasWork
<1> QED  BY <1>1, PlaceIsIndex, GoalFacts DEF Current, HeldBy

\* The head of a queue, in terms of slots.
LEMMA HeadIsSlot ==
  ASSUME NEW g \in PlanGoal, popped[ReservationOf[g]] \in Nat
  PROVE  AtHead(ReservationOf[g], g) <=> Slot(g) = popped[ReservationOf[g]] + 1
<1> DEFINE q == ReservationOf[g]
<1>1. q \in Reservation /\ Slot(g) \in 1 .. Len(Queue[q]) /\ Queue[q][Slot(g)] = g
      /\ Len(Queue[q]) \in Nat
  BY GoalFacts, QueueFacts
<1>2. ASSUME AtHead(q, g)  PROVE Slot(g) = popped[q] + 1
  <2>1. popped[q] + 1 \in 1 .. Len(Queue[q]) /\ Queue[q][popped[q] + 1] = g
    BY <1>1, <1>2 DEF AtHead
  <2> QED  BY <1>1, <2>1, SlotIsIndex
<1>3. ASSUME Slot(g) = popped[q] + 1  PROVE AtHead(q, g)
  BY <1>1, <1>3 DEF AtHead
<1> QED  BY <1>2, <1>3

-----------------------------------------------------------------------------
LEMMA SchedulerInitInv ==
  ASSUME SchedulerInit
  PROVE  SchedulerInv
<1>1. SchedulerTypeOK
  BY DEF SchedulerInit, SchedulerTypeOK
<1>2. \A r \in Robot : done[r] <= Len(Work[r])
  BY WorkFacts DEF SchedulerInit
<1>3. \A q \in Reservation : popped[q] <= Len(Queue[q])
  BY QueueFacts DEF SchedulerInit
<1>4. \A g \in PlanGoal : ~ Slot(g) <= popped[ReservationOf[g]]
  BY GoalFacts, QueueFacts DEF SchedulerInit
<1> QED  BY <1>1, <1>2, <1>3, <1>4 DEF SchedulerInv, SchedulerInit

LEMMA ClaimInv ==
  ASSUME SchedulerInv, Claim(Ready)
  PROVE  SchedulerInv'
<1> USE DEF SchedulerInv, SchedulerTypeOK
<1>1. /\ Ready \subseteq Robot
      /\ active' = active \cup Ready /\ done' = done
      /\ popped' = popped /\ cleared' = cleared
  BY DEF Claim, Ready
<1>2. ASSUME NEW r \in Ready
      PROVE  HasWork(r) /\ Slot(Current(r)) = popped[HeldBy(r)] + 1
  <2>1. HasWork(r) /\ AtHead(HeldBy(r), Current(r)) /\ r \in Robot
    BY DEF Ready
  <2> QED  BY <2>1, CurrentFacts, HeadIsSlot DEF HeldBy
<1> QED  BY <1>1, <1>2 DEF HasWork, Current, HeldBy, Gone

\* One robot's step leaves what the others come to next alone.
LEMMA OthersCurrent ==
  ASSUME NEW r, NEW s \in Robot, s # r, done \in [Robot -> Nat],
         NEW n, done' = [done EXCEPT ![r] = n]
  PROVE  /\ done'[s] = done[s]
         /\ HasWork(s)' <=> HasWork(s)
         /\ Current(s)' = Current(s)
         /\ HeldBy(s)' = HeldBy(s)
BY DEF HasWork, Current, HeldBy

\* Two robots at the head of one queue are the same robot.
LEMMA HeadsDiffer ==
  ASSUME SchedulerInv, NEW r \in active \ cleared, NEW s \in active \ cleared, r # s
  PROVE  HeldBy(r) # HeldBy(s)
<1>1. /\ r \in Robot /\ done[r] \in Nat /\ HasWork(r)
      /\ s \in Robot /\ done[s] \in Nat /\ HasWork(s)
  BY DEF SchedulerInv, SchedulerTypeOK
<1>2. /\ Current(r) \in PlanGoal /\ Owner(Current(r)) = r
      /\ Current(s) \in PlanGoal /\ Owner(Current(s)) = s
  BY <1>1, CurrentFacts
<1>3. SUFFICES ASSUME HeldBy(r) = HeldBy(s) PROVE Current(r) = Current(s)
  BY <1>2
<1>4. Slot(Current(r)) = Slot(Current(s))
  BY <1>3 DEF SchedulerInv
<1> QED  BY <1>2, <1>3, <1>4, SlotIsUnique DEF HeldBy

LEMMA ReleaseInv ==
  ASSUME SchedulerInv, NEW r \in active, Release(r)
  PROVE  SchedulerInv'
<1> DEFINE q == HeldBy(r)
           c == Current(r)
<1>1. /\ r \in Robot /\ done \in [Robot -> Nat] /\ popped \in [Reservation -> Nat]
      /\ HasWork(r) /\ cleared \subseteq active /\ active \subseteq Robot
  BY DEF SchedulerInv, SchedulerTypeOK
<1>2. /\ c \in PlanGoal /\ Owner(c) = r /\ Place(c) = done[r] + 1
      /\ q \in Reservation /\ ReservationOf[c] = q
  BY <1>1, CurrentFacts DEF HeldBy
<1>3. /\ done' = [done EXCEPT ![r] = @ + 1]
      /\ cleared' = cleared \ {r} /\ active' = active \ {r}
  BY DEF Release
<1>4. popped' = IF r \in cleared THEN popped ELSE [popped EXCEPT ![q] = @ + 1]
  BY DEF Release
<1>5. SchedulerTypeOK'
  <2>1. popped' \in [Reservation -> Nat]
    BY <1>1, <1>2, <1>4
  <2> QED  BY <1>1, <1>3, <2>1 DEF SchedulerTypeOK
<1>6. \A s \in Robot : done'[s] <= Len(Work[s])
  BY <1>1, <1>3, WorkFacts DEF SchedulerInv, HasWork
<1>7. ASSUME r \notin cleared
      PROVE  /\ Slot(c) = popped[q] + 1
             /\ popped'[q] = Slot(c)
             /\ Slot(c) \in 1 .. Len(Queue[q])
  <2>1. Slot(c) = popped[q] + 1
    BY <1>7 DEF SchedulerInv
  <2>2. Slot(c) \in 1 .. Len(Queue[q])
    BY <1>2, GoalFacts
  <2> QED  BY <1>1, <1>2, <1>4, <1>7, <2>1, <2>2
<1>8. \A p \in Reservation : popped'[p] <= Len(Queue[p])
  BY <1>1, <1>2, <1>4, <1>7, QueueFacts DEF SchedulerInv
<1>9. \A s \in active' : HasWork(s)'
  BY <1>1, <1>3, OthersCurrent DEF SchedulerInv
<1>10. ASSUME NEW s \in active' \ cleared'
       PROVE  Slot(Current(s)') = popped'[HeldBy(s)']  + 1
  <2>1. s \in active \ cleared /\ s # r /\ s \in Robot
    BY <1>1, <1>3
  <2>2. Current(s)' = Current(s) /\ HeldBy(s)' = HeldBy(s)
    BY <1>1, <1>3, <2>1, OthersCurrent
  <2>3. Slot(Current(s)) = popped[HeldBy(s)] + 1
    BY <2>1 DEF SchedulerInv
  <2>4. popped'[HeldBy(s)] = popped[HeldBy(s)]
    BY <1>1, <1>4, <2>1, HeadsDiffer
  <2> QED  BY <2>2, <2>3, <2>4
<1>11. ASSUME NEW g \in PlanGoal, Slot(g) <= popped'[ReservationOf[g]]
       PROVE  Gone(g)'
  <2>1. /\ Owner(g) \in Robot /\ Place(g) \in Nat /\ Slot(g) \in Nat
        /\ ReservationOf[g] \in Reservation
    BY GoalFacts, WorkFacts, QueueFacts
  <2>2. CASE Slot(g) <= popped[ReservationOf[g]]
    <3>1. Gone(g)
      BY <2>2 DEF SchedulerInv
    <3> QED  BY <1>1, <1>3, <2>1, <3>1 DEF Gone
  <2>3. CASE ~ Slot(g) <= popped[ReservationOf[g]]
    <3>1. r \notin cleared /\ ReservationOf[g] = q
      BY <1>1, <1>2, <1>4, <2>1, <2>3, <1>11
    <3>2. popped'[q] = popped[q] + 1 /\ popped[q] \in Nat
      BY <1>1, <1>2, <1>7, <3>1
    <3>3. Slot(g) = Slot(c)
      BY <1>7, <1>11, <2>1, <2>3, <3>1, <3>2
    <3>4. g = c
      BY <1>2, <3>1, <3>3, SlotIsUnique
    <3> QED  BY <1>1, <1>2, <1>3, <3>4 DEF Gone
  <2> QED  BY <2>2, <2>3
<1>12. cleared' \subseteq active'
  BY <1>1, <1>3
<1> QED  BY <1>5, <1>6, <1>8, <1>9, <1>10, <1>11, <1>12 DEF SchedulerInv

LEMMA AbandonInv ==
  ASSUME SchedulerInv, NEW r \in active, Abandon(r)
  PROVE  SchedulerInv'
<1>1. /\ r \in Robot /\ done \in [Robot -> Nat] /\ popped \in [Reservation -> Nat]
      /\ cleared \subseteq active /\ active \subseteq Robot /\ Len(Work[r]) \in Nat
      /\ done[r] <= Len(Work[r])
  BY WorkFacts DEF SchedulerInv, SchedulerTypeOK
<1>2. /\ done' = [done EXCEPT ![r] = Len(Work[r])]
      /\ cleared' = cleared \ {r} /\ active' = active \ {r} /\ popped' = popped
  BY DEF Abandon
<1>3. SchedulerTypeOK'
  BY <1>1, <1>2 DEF SchedulerTypeOK
<1>4. \A s \in Robot : done'[s] <= Len(Work[s])
  BY <1>1, <1>2, WorkFacts DEF SchedulerInv
<1>5. \A s \in active' : HasWork(s)'
  BY <1>1, <1>2, OthersCurrent DEF SchedulerInv
<1>6. ASSUME NEW s \in active' \ cleared'
      PROVE  Slot(Current(s)') = popped'[HeldBy(s)'] + 1
  <2>1. s \in active \ cleared /\ s # r /\ s \in Robot
    BY <1>1, <1>2
  <2>2. Current(s)' = Current(s) /\ HeldBy(s)' = HeldBy(s)
    BY <1>1, <1>2, <2>1, OthersCurrent
  <2> QED  BY <1>2, <2>1, <2>2 DEF SchedulerInv
<1>7. ASSUME NEW g \in PlanGoal, Slot(g) <= popped'[ReservationOf[g]]
      PROVE  Gone(g)'
  <2>1. Gone(g)
    BY <1>2, <1>7 DEF SchedulerInv
  <2>2. /\ Owner(g) \in Robot /\ Place(g) \in Nat /\ Place(g) <= Len(Work[Owner(g)])
    BY GoalFacts, WorkFacts
  <2> QED  BY <1>1, <1>2, <2>1, <2>2 DEF Gone
<1> QED  BY <1>1, <1>2, <1>3, <1>4, <1>5, <1>6, <1>7 DEF SchedulerInv

LEMMA ClearActiveInv ==
  ASSUME SchedulerInv, NEW r \in active \ cleared, ClearActive(r)
  PROVE  SchedulerInv'
<1> DEFINE q == HeldBy(r)
           c == Current(r)
<1>1. /\ r \in Robot /\ done \in [Robot -> Nat] /\ popped \in [Reservation -> Nat]
      /\ HasWork(r) /\ cleared \subseteq active /\ active \subseteq Robot
  BY DEF SchedulerInv, SchedulerTypeOK
<1>2. /\ c \in PlanGoal /\ Owner(c) = r /\ Place(c) = done[r] + 1
      /\ q \in Reservation /\ ReservationOf[c] = q
  BY <1>1, CurrentFacts DEF HeldBy
<1>3. /\ popped' = [popped EXCEPT ![q] = @ + 1] /\ cleared' = cleared \cup {r}
      /\ done' = done /\ active' = active
  BY DEF ClearActive
<1>4. Slot(c) = popped[q] + 1 /\ Slot(c) \in 1 .. Len(Queue[q])
  BY <1>2, GoalFacts DEF SchedulerInv
<1>5. SchedulerTypeOK'
  <2>1. popped' \in [Reservation -> Nat]
    BY <1>1, <1>2, <1>3
  <2> QED  BY <1>1, <1>3, <2>1 DEF SchedulerTypeOK
<1>6. \A p \in Reservation : popped'[p] <= Len(Queue[p])
  BY <1>1, <1>2, <1>3, <1>4, QueueFacts DEF SchedulerInv
<1>7. ASSUME NEW s \in active' \ cleared'
      PROVE  Slot(Current(s)') = popped'[HeldBy(s)'] + 1
  <2>1. s \in active \ cleared /\ s # r
    BY <1>3
  <2>2. popped'[HeldBy(s)] = popped[HeldBy(s)]
    BY <1>1, <1>3, <2>1, HeadsDiffer
  <2>3. Current(s)' = Current(s) /\ HeldBy(s)' = HeldBy(s)
    BY <1>3 DEF Current, HeldBy
  <2> QED  BY <2>1, <2>2, <2>3 DEF SchedulerInv
<1>8. ASSUME NEW g \in PlanGoal, Slot(g) <= popped'[ReservationOf[g]]
      PROVE  Gone(g)'
  <2>1. /\ Owner(g) \in Robot /\ Place(g) \in Nat /\ Slot(g) \in Nat
        /\ ReservationOf[g] \in Reservation
    BY GoalFacts, WorkFacts, QueueFacts
  <2>2. CASE Slot(g) <= popped[ReservationOf[g]]
    BY <1>3, <2>2 DEF SchedulerInv, Gone
  <2>3. CASE ~ Slot(g) <= popped[ReservationOf[g]]
    <3>1. ReservationOf[g] = q
      BY <1>1, <1>2, <1>3, <1>8, <2>1, <2>3
    <3>2. popped'[q] = popped[q] + 1 /\ popped[q] \in Nat
      BY <1>1, <1>2, <1>3
    <3>3. Slot(g) = Slot(c)
      BY <1>4, <1>8, <2>1, <2>3, <3>1, <3>2
    <3>4. g = c
      BY <1>2, <3>1, <3>3, SlotIsUnique
    <3> QED  BY <1>1, <1>2, <1>3, <3>4 DEF Gone
  <2> QED  BY <2>2, <2>3
<1>9. /\ \A s \in Robot : done'[s] <= Len(Work[s])
      /\ \A s \in active' : HasWork(s)'
      /\ cleared' \subseteq active'
  BY <1>3 DEF SchedulerInv, HasWork
<1> QED  BY <1>5, <1>6, <1>7, <1>8, <1>9 DEF SchedulerInv

-----------------------------------------------------------------------------
(* The loop.                                                                *)

Sent(g) == context[g].phase # "absent"

\* Active robots whose goal was dispatched.
Under == active \ todo

FlightInv ==
  /\ todo \subseteq active \ cleared
  /\ pending \subseteq Under
  /\ origin \subseteq Under \ cleared
  /\ pc # "dispatch" => todo = {}
  /\ \A r \in Under : token[r] = Current(r) /\ Sent(Current(r))
  /\ \A r \in pending : Tracked(token[r])

OrderInv ==
  \A g \in Goal :
    IF Sent(g)
      THEN /\ \/ Place(g) <= done[Owner(g)]
              \/ Place(g) = done[Owner(g)] + 1 /\ Owner(g) \in Under
           /\ Slot(g) <= popped[ReservationOf[g]] + 1
      ELSE server[g] = "idle"

CountInv == \A r \in Robot : completed[r] <= done[r]

IInv == TypeOK /\ SchedulerInv /\ FlightInv /\ OrderInv /\ CountInv

-----------------------------------------------------------------------------
\* The owner of a goal is written in it.
LEMMA OwnerIsRobot ==
  ASSUME NEW g \in Goal
  PROVE  g \in PlanGoal /\ Owner(g) = g.robot /\ Owner(g) \in Robot
BY GoalFacts, OwnerAssumption, WorkFacts

-----------------------------------------------------------------------------
(* The five things a step can do to the scheduler, and why each keeps the   *)
(* flight and order parts of the invariant.                                 *)

SameSent == \A g \in Goal : Sent(g)' <=> Sent(g)

PendingTrackedNext == \A r \in pending' : Tracked(token[r])'

\* At most the head of one reservation leaves it, and it was sent.
ReservationStep ==
  /\ SameSent
  /\ \/ popped' = popped
     \/ \E r \in Under \ cleared : popped' = [popped EXCEPT ![HeldBy(r)] = @ + 1]

IdleStaysIdle == \A g \in Goal : ~Sent(g) => server'[g] = server[g]

\* Facts about any robot that follow from the invariant.
LEMMA RobotFacts ==
  ASSUME IInv, NEW r \in active
  PROVE  /\ r \in Robot /\ HasWork(r) /\ done[r] \in Nat
         /\ Current(r) \in Goal /\ Owner(Current(r)) = r /\ Place(Current(r)) = done[r] + 1
         /\ HeldBy(r) \in Reservation
<1>1. r \in Robot /\ HasWork(r) /\ done[r] \in Nat
  BY DEF IInv, SchedulerInv, SchedulerTypeOK
<1> QED  BY <1>1, CurrentFacts, OwnerAssumption

LEMMA QuietKeeps ==
  ASSUME IInv, UNCHANGED <<schedulerVars, token, origin, todo>>,
         pending' \subseteq pending, SameSent, PendingTrackedNext, IdleStaysIdle,
         pc' # "dispatch" => todo' = {}
  PROVE  FlightInv' /\ OrderInv' /\ ReservationStep
<1>1. /\ done' = done /\ popped' = popped /\ active' = active /\ cleared' = cleared
      /\ token' = token /\ origin' = origin /\ todo' = todo
  BY DEF schedulerVars
<1>2. FlightInv'
  <2>1. \A r \in Under' : token'[r] = Current(r)' /\ Sent(Current(r))'
    <3>1. \A r \in Under : token[r] = Current(r) /\ Sent(Current(r)) /\ Current(r) \in Goal
      BY RobotFacts DEF IInv, FlightInv, Under
    <3> QED  BY <1>1, <3>1 DEF Under, Current, SameSent, Sent
  <2> QED  BY <1>1, <2>1 DEF IInv, FlightInv, Under, PendingTrackedNext
<1>3. OrderInv'
  BY <1>1 DEF IInv, OrderInv, SameSent, IdleStaysIdle, Under
<1> QED  BY <1>1, <1>2, <1>3 DEF ReservationStep

LEMMA ClaimKeeps ==
  ASSUME IInv, Claim(Ready), todo = {}, todo' = Ready, pc' = "dispatch",
         UNCHANGED <<token, origin, pending, context, server>>
  PROVE  FlightInv' /\ OrderInv' /\ ReservationStep
<1>1. /\ done' = done /\ popped' = popped /\ cleared' = cleared
      /\ active' = active \cup Ready /\ Ready \cap active = {}
      /\ cleared \subseteq active
  BY DEF Claim, Ready, IInv, SchedulerInv
<1>2. Under' = Under
  BY <1>1 DEF Under
<1>3. FlightInv'
  BY <1>1, <1>2 DEF IInv, FlightInv, Under, Current, Sent, Tracked
<1>4. OrderInv'
  BY <1>1, <1>2 DEF IInv, OrderInv, Sent
<1> QED  BY <1>1, <1>3, <1>4 DEF ReservationStep, SameSent, Sent

LEMMA DispatchKeeps ==
  ASSUME IInv, NEW r \in todo, pc = "dispatch", pc' = pc, Dispatch(Current(r)),
         token' = [token EXCEPT ![r] = Current(r)], pending' = pending \cup {r},
         origin' \subseteq origin \cup {r}, todo' = todo \ {r},
         UNCHANGED schedulerVars
  PROVE  FlightInv' /\ OrderInv' /\ context' \in [Goal -> Context]
<1> DEFINE c == Current(r)
<1>1. /\ done' = done /\ popped' = popped /\ active' = active /\ cleared' = cleared
      /\ r \in active \ cleared
  BY DEF schedulerVars, IInv, FlightInv
<1>2. /\ r \in Robot /\ HasWork(r) /\ c \in Goal /\ Owner(c) = r /\ Place(c) = done[r] + 1
      /\ ReservationOf[c] = HeldBy(r)
  BY <1>1, RobotFacts DEF HeldBy
<1>3. context \in [Goal -> Context] /\ server \in [Goal -> ServerState]
      /\ token \in [Robot -> Goal \cup {NoGoal}] /\ active \subseteq Robot
  BY DEF IInv, TypeOK, AdapterTypeOK, SchedulerTypeOK, FleetTypeOK
<1>4. /\ context' = [context EXCEPT ![c].phase = "sent"]
      /\ server' = [server EXCEPT ![c] = "requested"]
  BY DEF Dispatch, DispatchFrom
<1>5. /\ context'[c].phase = "sent"
      /\ \A g \in Goal \ {c} : context'[g] = context[g] /\ server'[g] = server[g]
      /\ context' \in [Goal -> Context]
  <2>1. context[c] \in Context
    BY <1>2, <1>3
  <2>2. [context[c] EXCEPT !.phase = "sent"] \in Context
    BY <2>1 DEF Context, Phase
  <2>3. context' = [context EXCEPT ![c] = [context[c] EXCEPT !.phase = "sent"]]
    BY <1>4
  <2> QED  BY <1>2, <1>3, <1>4, <2>1, <2>2, <2>3 DEF Context
<1>6. Under' = Under \cup {r}
  BY <1>1 DEF Under
<1>7. \A s \in Under : s # r /\ Current(s) # c /\ Current(s) \in Goal
  BY <1>1, <1>2, RobotFacts DEF Under
<1>8. FlightInv'
  <2>1. \A s \in Under' : token'[s] = Current(s)' /\ Sent(Current(s))'
    <3>1. \A s \in Under : token[s] = Current(s) /\ Sent(Current(s)) /\ s \in Robot
      BY <1>3 DEF IInv, FlightInv, Under
    <3>2. \A s \in active : Current(s)' = Current(s)
      BY <1>1 DEF Current
    <3>3. token'[r] = c
      BY <1>2, <1>3
    <3>4. \A s \in Under : token'[s] = token[s]
      BY <1>2, <1>3, <1>7, <3>1
    <3>5. \A s \in Under : Sent(Current(s))'
      BY <1>5, <1>7, <3>1, <3>2 DEF Sent, Under
    <3>6. Sent(c)'
      BY <1>1, <1>5, <3>2 DEF Sent
    <3> QED  BY <1>1, <1>6, <3>1, <3>2, <3>3, <3>4, <3>5, <3>6 DEF Under
  <2>2. \A s \in pending' : Tracked(token[s])'
    <3>1. \A s \in pending : token[s] = Current(s) /\ Tracked(token[s]) /\ s \in Under
      BY DEF IInv, FlightInv
    <3>2. \A s \in pending : s \in Robot /\ s # r /\ token'[s] = token[s] /\ Current(s) # c
                            /\ Current(s) \in Goal
      BY <1>3, <1>7, <3>1 DEF Under
    <3>3. token'[r] = c
      BY <1>2, <1>3
    <3> QED  BY <1>5, <3>1, <3>2, <3>3 DEF Tracked
  <2> QED  BY <1>1, <1>6, <2>1, <2>2 DEF IInv, FlightInv, Under
<1>9. OrderInv'
  <2>1. SUFFICES ASSUME NEW g \in Goal
                 PROVE  IF Sent(g)'
                          THEN /\ \/ Place(g) <= done[Owner(g)]
                                  \/ Place(g) = done[Owner(g)] + 1 /\ Owner(g) \in Under'
                               /\ Slot(g) <= popped[ReservationOf[g]] + 1
                          ELSE server'[g] = "idle"
    BY <1>1 DEF OrderInv
  <2>2. CASE g = c
    <3>1. Slot(c) = popped[HeldBy(r)] + 1 /\ popped[HeldBy(r)] \in Nat
      BY <1>1, <1>2, RobotFacts DEF IInv, SchedulerInv, SchedulerTypeOK
    <3> QED  BY <1>2, <1>5, <1>6, <2>2, <3>1 DEF Sent
  <2>3. CASE g # c
    BY <1>5, <1>6, <2>3 DEF IInv, OrderInv, Sent
  <2> QED  BY <2>2, <2>3
<1> QED  BY <1>5, <1>8, <1>9

\* Robot r loses its first goal, or all of them, and is active no longer.
LEMMA RemoveKeeps ==
  ASSUME IInv, NEW r \in active, (r \in Under /\ Release(r)) \/ Abandon(r),
         origin' = origin \ {r}, todo' = todo \ {r}, pc' = "dispatch" \/ todo = {},
         token' = token, pending' \subseteq pending \ {r},
         SameSent, PendingTrackedNext, IdleStaysIdle
  PROVE  FlightInv' /\ OrderInv' /\ ReservationStep
<1>1. /\ r \in Robot /\ HasWork(r) /\ done \in [Robot -> Nat]
      /\ popped \in [Reservation -> Nat] /\ active \subseteq Robot /\ HeldBy(r) \in Reservation
      /\ Len(Work[r]) \in Nat
  BY RobotFacts, WorkFacts DEF IInv, SchedulerInv, SchedulerTypeOK
<1>2. PICK n \in Nat : done' = [done EXCEPT ![r] = n] /\ n >= done[r] + 1
  BY <1>1 DEF Release, Abandon, HasWork
<1>3. cleared' = cleared \ {r} /\ active' = active \ {r}
  BY DEF Release, Abandon
<1>4. \A q \in Reservation : popped'[q] \in Nat /\ popped'[q] >= popped[q]
  BY <1>1 DEF Release, Abandon
<1>5. Under' = Under \ {r}
  BY <1>3 DEF Under
<1>6. FlightInv'
  <2>1. ASSUME NEW s \in Under' PROVE token'[s] = Current(s)' /\ Sent(Current(s))'
    <3>1. s \in Under /\ s # r /\ s \in Robot /\ Current(s) \in Goal
      BY <1>1, <1>5, RobotFacts DEF Under
    <3>2. Current(s)' = Current(s)
      BY <1>1, <1>2, <3>1, OthersCurrent
    <3>3. token[s] = Current(s) /\ Sent(Current(s))
      BY <3>1 DEF IInv, FlightInv
    <3>4. Sent(Current(s))' <=> context'[Current(s)].phase # "absent"
      BY <3>2 DEF Sent
    <3> QED  BY <3>1, <3>2, <3>3, <3>4 DEF SameSent, Sent
  <2>2. /\ todo' \subseteq active' \ cleared'
        /\ pending' \subseteq Under'
        /\ origin' \subseteq Under' \ cleared'
    BY <1>3, <1>5 DEF IInv, FlightInv
  <2>3. pc' # "dispatch" => todo' = {}
    OBVIOUS
  <2> QED  BY <2>1, <2>2, <2>3 DEF FlightInv, PendingTrackedNext
<1>7. OrderInv'
  <2>1. SUFFICES ASSUME NEW g \in Goal, Sent(g)
                 PROVE  /\ \/ Place(g) <= done'[Owner(g)]
                           \/ Place(g) = done'[Owner(g)] + 1 /\ Owner(g) \in Under'
                        /\ Slot(g) <= popped'[ReservationOf[g]] + 1
    BY DEF OrderInv, SameSent, IdleStaysIdle, IInv
  <2>2. /\ \/ Place(g) <= done[Owner(g)]
           \/ Place(g) = done[Owner(g)] + 1 /\ Owner(g) \in Under
        /\ Slot(g) <= popped[ReservationOf[g]] + 1
    BY <2>1 DEF IInv, OrderInv
  <2>3. /\ g \in PlanGoal /\ Owner(g) \in Robot /\ Place(g) \in Nat /\ Slot(g) \in Nat
        /\ ReservationOf[g] \in Reservation
    BY OwnerAssumption, GoalFacts, WorkFacts, QueueFacts
  <2>4. Slot(g) <= popped'[ReservationOf[g]] + 1
    BY <1>1, <1>4, <2>2, <2>3
  <2> QED  BY <1>1, <1>2, <1>5, <2>2, <2>3, <2>4
<1>8. ReservationStep
  BY DEF ReservationStep, Release, Abandon
<1> QED  BY <1>6, <1>7, <1>8

LEMMA ClearKeeps ==
  ASSUME IInv, NEW r \in origin, ClearActive(r), origin' = origin \ {r}, todo = {},
         UNCHANGED <<token, todo>>, pending' \subseteq pending,
         SameSent, PendingTrackedNext, IdleStaysIdle
  PROVE  FlightInv' /\ OrderInv' /\ ReservationStep
<1>1. /\ r \in active \ cleared /\ done' = done /\ active' = active
      /\ cleared' = cleared \cup {r}
  BY DEF IInv, FlightInv, ClearActive, Under
<1>2. /\ HeldBy(r) \in Reservation /\ popped \in [Reservation -> Nat]
      /\ popped' = [popped EXCEPT ![HeldBy(r)] = @ + 1]
  BY <1>1, RobotFacts DEF IInv, SchedulerInv, SchedulerTypeOK, ClearActive
<1>3. FlightInv'
  <2>1. ASSUME NEW s \in Under' PROVE token'[s] = Current(s)' /\ Sent(Current(s))'
    <3>1. s \in Under /\ Current(s) \in Goal /\ Current(s)' = Current(s)
      BY <1>1, RobotFacts DEF Under, Current
    <3>2. token[s] = Current(s) /\ Sent(Current(s))
      BY <3>1 DEF IInv, FlightInv
    <3>3. Sent(Current(s))' <=> context'[Current(s)].phase # "absent"
      BY <3>1 DEF Sent
    <3> QED  BY <3>1, <3>2, <3>3 DEF SameSent, Sent
  <2> QED  BY <1>1, <2>1 DEF IInv, FlightInv, Under, PendingTrackedNext
<1>4. OrderInv'
  <2>1. \A q \in Reservation : popped'[q] \in Nat /\ popped'[q] >= popped[q]
    BY <1>2
  <2>2. SUFFICES ASSUME NEW g \in Goal, Sent(g)
                 PROVE  /\ \/ Place(g) <= done'[Owner(g)]
                           \/ Place(g) = done'[Owner(g)] + 1 /\ Owner(g) \in Under'
                        /\ Slot(g) <= popped'[ReservationOf[g]] + 1
    BY DEF OrderInv, SameSent, IdleStaysIdle, IInv
  <2>3. ReservationOf[g] \in Reservation /\ Slot(g) \in Nat
    BY OwnerAssumption, GoalFacts, QueueFacts
  <2> QED  BY <1>1, <1>2, <2>1, <2>2, <2>3 DEF IInv, OrderInv, Under
<1>5. ReservationStep
  BY <1>1, <1>2 DEF ReservationStep, IInv, FlightInv
<1> QED  BY <1>3, <1>4, <1>5

-----------------------------------------------------------------------------
(* One lemma per action, or per group of actions that leave the same alone. *)

LEMMA InitIInv == Init => IInv
<1> SUFFICES ASSUME Init PROVE IInv
  OBVIOUS
<1>1. SchedulerInv
  BY SchedulerInitInv DEF Init
<1>2. AdapterTypeOK
  BY DEF Init, AdapterInit, AdapterTypeOK, Context, Phase, ServerState
<1>3. FleetTypeOK /\ LoopTypeOK
  BY DEF Init, FleetTypeOK, LoopTypeOK, NoReport, PC
<1>4. FlightInv
  BY DEF Init, SchedulerInit, FlightInv, Under
<1>5. OrderInv
  BY DEF Init, AdapterInit, OrderInv, Sent
<1>6. CountInv
  BY DEF Init, SchedulerInit, CountInv
<1> QED  BY <1>1, <1>2, <1>3, <1>4, <1>5, <1>6 DEF IInv, TypeOK, SchedulerInv

\* Steps that only move pc, the flag or the report.
LEMMA StandingStep ==
  ASSUME IInv, UNCHANGED <<schedulerVars, adapterVars, fleetVars, todo>>,
         pc' \in PC \ {"dispatch"}, todo = {}, LoopTypeOK'
  PROVE  IInv' /\ ReservationStep
<1>1. FlightInv' /\ OrderInv' /\ ReservationStep
  <2>1. SameSent /\ PendingTrackedNext /\ IdleStaysIdle
    BY DEF SameSent, PendingTrackedNext, IdleStaysIdle, Sent, Tracked, adapterVars,
           fleetVars, IInv, FlightInv
  <2> QED  BY <2>1, QuietKeeps DEF fleetVars
<1>2. SchedulerInv'
  BY DEF schedulerVars, IInv, SchedulerInv, SchedulerTypeOK, HasWork, Current, HeldBy, Gone
<1>3. TypeOK' /\ CountInv'
  BY <1>2 DEF IInv, TypeOK, SchedulerInv, AdapterTypeOK, FleetTypeOK, CountInv,
              schedulerVars, adapterVars, fleetVars
<1> QED  BY <1>1, <1>2, <1>3 DEF IInv

LEMMA ClaimStep ==
  ASSUME IInv, ClaimReady
  PROVE  IInv' /\ ReservationStep
<1>1. /\ Claim(Ready) /\ todo' = Ready /\ pc' = "dispatch" /\ pc = "top"
      /\ UNCHANGED <<adapterVars, fleetVars, cancelFlag, report>>
  BY DEF ClaimReady
<1>2. todo = {}
  BY <1>1 DEF IInv, FlightInv
<1>3. FlightInv' /\ OrderInv' /\ ReservationStep
  BY <1>1, <1>2, ClaimKeeps DEF adapterVars, fleetVars
<1>4. SchedulerInv'
  BY <1>1, ClaimInv DEF IInv
<1>5. TypeOK' /\ CountInv'
  BY <1>1, <1>4 DEF IInv, TypeOK, SchedulerInv, AdapterTypeOK, FleetTypeOK, LoopTypeOK, CountInv,
                    adapterVars, fleetVars, Claim, Ready, PC
<1> QED  BY <1>3, <1>4, <1>5 DEF IInv

\* What the invariant says of a robot with an unresolved goal.
LEMMA PendingFacts ==
  ASSUME IInv, NEW r \in pending
  PROVE  /\ r \in Robot /\ r \in active /\ r \notin todo
         /\ token[r] = Current(r) /\ token[r] \in Goal /\ token[r].robot = r
         /\ context[token[r]].phase \in {"sent", "accepted"}
<1>1. r \in Under /\ token[r] = Current(r) /\ Tracked(token[r])
  BY DEF IInv, FlightInv
<1> QED  BY <1>1, RobotFacts, OwnerIsRobot DEF Under, Tracked

LEMMA DispatchGoalStep ==
  ASSUME IInv, NEW r \in Robot, DispatchGoal(r)
  PROVE  IInv'
<1>1. r \in todo /\ r \in active
  BY FirstIsIn DEF DispatchGoal, IInv, TypeOK, LoopTypeOK, FlightInv
<1>2. /\ pc = "dispatch" /\ pc' = pc /\ Dispatch(Current(r))
      /\ token' = [token EXCEPT ![r] = Current(r)] /\ pending' = pending \cup {r}
      /\ origin' \subseteq origin \cup {r} /\ todo' = todo \ {r}
      /\ UNCHANGED <<schedulerVars, result, cancelStatus, root, completed, final,
                     stopRequested, cancelFlag, report>>
  BY DEF DispatchGoal
<1>3. FlightInv' /\ OrderInv' /\ context' \in [Goal -> Context]
  BY <1>1, <1>2, DispatchKeeps
<1>4. SchedulerInv' /\ CountInv'
  BY <1>2 DEF schedulerVars, IInv, SchedulerInv, SchedulerTypeOK, HasWork, Current, HeldBy,
              Gone, CountInv
<1>5. Current(r) \in Goal
  BY <1>1, RobotFacts
<1>6. AdapterTypeOK'
  BY <1>2, <1>3, <1>5 DEF IInv, TypeOK, AdapterTypeOK, Dispatch, DispatchFrom, ServerState, Live
<1>7. FleetTypeOK' /\ LoopTypeOK'
  BY <1>2, <1>5 DEF IInv, TypeOK, FleetTypeOK, LoopTypeOK
<1> QED  BY <1>3, <1>4, <1>6, <1>7 DEF IInv, TypeOK, SchedulerInv

\* What a step may hand to CancelPending: robots of the pending set, with
\* contexts that are what they were for these robots.
Cancellable(S, why, ctx, res) ==
  /\ S \subseteq pending
  /\ why \in [Robot -> Status]
  /\ ctx \in [Goal -> Context]
  /\ res \in [Robot -> Status \cup {None}]
  /\ \A g \in Goal : ctx[g].phase # "absent" <=> Sent(g)
  /\ \A r \in S : ctx[token[r]] = context[token[r]]

\* Cancelling them leaves the flight as it was but for those whose cancel
\* could not be sent.
LEMMA CancelPendingFacts ==
  ASSUME IInv, NEW S, NEW why, NEW ctx, NEW res, Cancellable(S, why, ctx, res),
         CancelPending(S, why, ctx, res), token' = token
  PROVE  /\ context' \in [Goal -> Context] /\ cancelCall' \in [Goal -> Nat]
         /\ cancelStatus' \in [Robot -> Status \cup {None}]
         /\ result' \in [Robot -> Status \cup {None}]
         /\ pending' \subseteq S
         /\ SameSent /\ PendingTrackedNext
<1>0. /\ why \in [Robot -> Status] /\ ctx \in [Goal -> Context]
      /\ res \in [Robot -> Status \cup {None}]
      /\ \A g \in Goal : ctx[g].phase # "absent" <=> Sent(g)
      /\ \A r \in S : /\ r \in Robot /\ token[r] \in Goal /\ token[r].robot = r
                       /\ ctx[token[r]].phase \in {"sent", "accepted"}
  BY PendingFacts DEF Cancellable
<1>1. PICK X \in SUBSET {r \in S : SendMayFail(ctx, token[r])} :
        /\ Cancel(ctx, {token[r] : r \in S}, {token[r] : r \in X})
        /\ cancelStatus' = [r \in Robot |-> IF r \in S THEN why[r] ELSE cancelStatus[r]]
        /\ pending' = S \ X
        /\ result' = [r \in Robot |-> IF r \in X THEN "cancel_failed" ELSE res[r]]
  BY DEF CancelPending
<1> DEFINE T == {token[r] : r \in S}
           Y == {token[r] : r \in X}
<1>2. context' = [g \in Goal |->
         IF g \in Y THEN [phase |-> "popped", cancelRequested |-> TRUE]
         ELSE IF g \in T THEN [ctx[g] EXCEPT !.cancelRequested = TRUE] ELSE ctx[g]]
  BY <1>1 DEF Cancel
<1>3. cancelCall' = [g \in Goal |->
         IF g \in T \ Y /\ ctx[g].phase = "accepted" THEN cancelCall[g] + 1 ELSE cancelCall[g]]
  BY <1>1 DEF Cancel
<1>4. ASSUME NEW g \in Goal
      PROVE  /\ context'[g] \in Context
             /\ g \notin Y => context'[g].phase = ctx[g].phase
             /\ g \in Y => ctx[g].phase = "accepted" /\ context'[g].phase = "popped"
  <2>1. ctx[g] \in Context
    BY <1>0
  <2>2. CASE g \in Y
    <3>1. ctx[g].phase = "accepted"
      BY <1>1, <2>2 DEF SendMayFail
    <3> QED  BY <1>2, <2>2, <3>1 DEF Context, Phase
  <2>3. CASE g \in T \ Y
    <3>1. context'[g] = [ctx[g] EXCEPT !.cancelRequested = TRUE]
      BY <1>2, <2>3
    <3> QED  BY <2>1, <2>3, <3>1 DEF Context
  <2>4. CASE g \notin T /\ g \notin Y
    BY <1>2, <2>1, <2>4
  <2> QED  BY <2>2, <2>3, <2>4
<1>5. context' \in [Goal -> Context]
  BY <1>2, <1>4
<1>6. cancelCall' \in [Goal -> Nat]
  BY <1>3 DEF IInv, TypeOK, AdapterTypeOK
<1>7. /\ cancelStatus' \in [Robot -> Status \cup {None}]
      /\ result' \in [Robot -> Status \cup {None}]
      /\ pending' \subseteq S
  BY <1>0, <1>1 DEF IInv, TypeOK, FleetTypeOK, Status
<1>8. SameSent
  BY <1>0, <1>4 DEF SameSent, Sent
<1>9. PendingTrackedNext
  <2>1. SUFFICES ASSUME NEW r \in pending'
                 PROVE  context'[token[r]].phase \in {"sent", "accepted"}
    BY DEF PendingTrackedNext, Tracked
  <2>2. r \in S /\ r \notin X /\ token[r] \in Goal /\ token[r].robot = r
    BY <1>0, <1>1
  <2>3. token[r] \notin Y
    BY <1>0, <1>1, <2>2
  <2> QED  BY <1>0, <1>4, <2>2, <2>3
<1> QED  BY <1>5, <1>6, <1>7, <1>8, <1>9

LEMMA ReportFacts ==
  ASSUME IInv, NEW r \in Robot, NEW status \in Status
  PROVE  AbandonedReport(r, status) \in SkippedReport
<1>1. /\ Len(Work[r]) \in Nat /\ done[r] \in Nat /\ done[r] <= Len(Work[r])
      /\ completed[r] \in Nat
  BY WorkFacts DEF IInv, SchedulerInv, SchedulerTypeOK, TypeOK, FleetTypeOK
<1> QED  BY <1>1 DEF AbandonedReport, SkippedReport

LEMMA DispatchFailsAloneStep ==
  ASSUME IInv, NEW r \in Robot, DispatchFailsAlone(r)
  PROVE  IInv' /\ ReservationStep
<1>1. r \in todo /\ r \in active /\ r \notin pending /\ r \notin origin
  BY FirstIsIn DEF DispatchFailsAlone, IInv, TypeOK, LoopTypeOK, FlightInv, Under
<1>2. /\ pc = "dispatch" /\ pc' = pc /\ Abandon(r) /\ origin' = origin \ {r}
      /\ final' = [final EXCEPT ![r] = AbandonedReport(r, "rejected")]
      /\ todo' = todo \ {r}
      /\ UNCHANGED <<adapterVars, token, pending, result, cancelStatus, root,
                     completed, stopRequested, cancelFlag, report>>
  BY DEF DispatchFailsAlone
<1>3. FlightInv' /\ OrderInv' /\ ReservationStep
  <2>1. SameSent /\ PendingTrackedNext /\ IdleStaysIdle
    BY <1>2 DEF SameSent, PendingTrackedNext, IdleStaysIdle, Sent, Tracked, adapterVars,
                IInv, FlightInv
  <2> QED  BY <1>1, <1>2, <2>1, RemoveKeeps
<1>4. SchedulerInv'
  BY <1>1, <1>2, AbandonInv DEF IInv
<1>5. CountInv'
  BY <1>2, WorkFacts DEF IInv, CountInv, Abandon, SchedulerInv, SchedulerTypeOK, TypeOK, FleetTypeOK
<1>6. AbandonedReport(r, "rejected") \in SkippedReport
  BY ReportFacts DEF Status
<1>7. AdapterTypeOK' /\ FleetTypeOK' /\ LoopTypeOK'
  BY <1>2, <1>6 DEF IInv, TypeOK, AdapterTypeOK, FleetTypeOK, LoopTypeOK, adapterVars
<1> QED  BY <1>3, <1>4, <1>5, <1>7 DEF IInv, TypeOK, SchedulerInv

LEMMA DispatchFailsRootStep ==
  ASSUME IInv, NEW r \in Robot, DispatchFailsRoot(r)
  PROVE  IInv' /\ ReservationStep
<1>1. r \in todo /\ r \in active /\ r \notin pending /\ r \notin origin
  BY FirstIsIn DEF DispatchFailsRoot, IInv, TypeOK, LoopTypeOK, FlightInv, Under
<1> DEFINE res == [result EXCEPT ![r] = "rejected"]
<1>2. /\ pc = "dispatch" /\ pc' = pc /\ Abandon(r) /\ origin' = origin \ {r}
      /\ root' = r /\ todo' = todo \ {r}
      /\ CancelPending(pending, All("cancelled"), context, res)
      /\ UNCHANGED <<server, refused, token, completed, final, stopRequested,
                     cancelFlag, report>>
  BY DEF DispatchFailsRoot
<1>3. /\ context \in [Goal -> Context] /\ All("cancelled") \in [Robot -> Status]
      /\ res \in [Robot -> Status \cup {None}]
  BY AllIsStatus DEF IInv, TypeOK, AdapterTypeOK, FleetTypeOK, Status
<1>4. /\ context' \in [Goal -> Context] /\ cancelCall' \in [Goal -> Nat]
      /\ cancelStatus' \in [Robot -> Status \cup {None}]
      /\ result' \in [Robot -> Status \cup {None}]
      /\ pending' \subseteq pending
      /\ SameSent /\ PendingTrackedNext
  <2>1. Cancellable(pending, All("cancelled"), context, res)
    BY <1>3 DEF Cancellable, Sent
  <2> QED  BY <1>2, <2>1, CancelPendingFacts
<1>5. IdleStaysIdle
  BY <1>2 DEF IdleStaysIdle
<1>6. FlightInv' /\ OrderInv' /\ ReservationStep
  BY <1>1, <1>2, <1>4, <1>5, RemoveKeeps
<1>7. SchedulerInv'
  BY <1>1, <1>2, AbandonInv DEF IInv
<1>8. CountInv'
  BY <1>2, WorkFacts DEF IInv, CountInv, Abandon, SchedulerInv, SchedulerTypeOK, TypeOK, FleetTypeOK
<1>9. AdapterTypeOK' /\ FleetTypeOK' /\ LoopTypeOK'
  BY <1>2, <1>4 DEF IInv, TypeOK, AdapterTypeOK, FleetTypeOK, LoopTypeOK
<1> QED  BY <1>6, <1>7, <1>8, <1>9 DEF IInv, TypeOK, SchedulerInv

\* An outcome method, called for the goal its robot is waiting for.
LEMMA ResolveStep ==
  ASSUME IInv, NEW r \in pending, NEW g \in Goal, token[r] = g,
         NEW outcome \in Outcome \ {"none"}, Resolve(r, outcome, Pop(context, g)),
         UNCHANGED <<server, todo>>, pc # "dispatch", pc' # "dispatch"
  PROVE  /\ SchedulerInv' /\ FlightInv' /\ OrderInv' /\ ReservationStep /\ CountInv' /\ FleetTypeOK'
         /\ context' \in [Goal -> Context] /\ cancelCall' \in [Goal -> Nat]
<1> DEFINE ctx == Pop(context, g)
<1>1. /\ r \in Robot /\ r \in active /\ r \in Under /\ todo = {} /\ g.robot = r
      /\ Tracked(g) /\ AdapterTypeOK /\ FleetTypeOK
  BY PendingFacts DEF IInv, FlightInv, TypeOK, Under
<1>2. /\ ctx \in [Goal -> Context]
      /\ \A h \in Goal : ctx[h].phase # "absent" <=> Sent(h)
      /\ \A h \in Goal \ {g} : ctx[h] = context[h]
  BY <1>1, PopFacts DEF Sent
<1>3. \A s \in pending \ {r} : ctx[token[s]] = context[token[s]]
  BY <1>1, <1>2, PendingFacts
<1>4. IdleStaysIdle /\ cancelCall \in [Goal -> Nat]
  BY <1>1 DEF IdleStaysIdle, AdapterTypeOK
\* What follows when the step ends by popping the context and r leaves pending.
<1>5. ASSUME context' = ctx, token' = token, pending' = pending \ {r}
      PROVE  SameSent /\ PendingTrackedNext /\ context' \in [Goal -> Context]
  <2>1. SameSent
    BY <1>2, <1>5 DEF SameSent, Sent
  <2>2. PendingTrackedNext
    BY <1>3, <1>5, PendingFacts DEF PendingTrackedNext, Tracked
  <2> QED  BY <1>2, <1>5, <2>1, <2>2
<1>6. ASSUME UNCHANGED schedulerVars
      PROVE  SchedulerInv' /\ (completed' = completed => CountInv')
  BY <1>6 DEF schedulerVars, IInv, SchedulerInv, SchedulerTypeOK, HasWork, Current, HeldBy,
              Gone, CountInv
<1>7. CASE NavigationSucceeded(r, ctx)
  <2>1. /\ Release(r) /\ completed' = [completed EXCEPT ![r] = @ + 1]
        /\ origin' = origin \ {r} /\ result' = [result EXCEPT ![r] = "succeeded"]
        /\ pending' = pending \ {r} /\ context' = ctx
        /\ UNCHANGED <<cancelCall, token, cancelStatus, root, final, stopRequested>>
    BY <1>7 DEF NavigationSucceeded
  <2>2. SameSent /\ PendingTrackedNext /\ context' \in [Goal -> Context]
    BY <1>5, <2>1
  <2>3. FlightInv' /\ OrderInv' /\ ReservationStep
    BY <1>1, <1>4, <2>1, <2>2, RemoveKeeps
  <2>4. SchedulerInv'
    BY <1>1, <2>1, ReleaseInv DEF IInv
  <2>5. CountInv'
    BY <1>1, <2>1 DEF IInv, CountInv, Release, SchedulerInv, SchedulerTypeOK, FleetTypeOK
  <2>6. FleetTypeOK'
    BY <1>1, <2>1 DEF FleetTypeOK, Status
  <2> QED  BY <1>4, <2>1, <2>2, <2>3, <2>4, <2>5, <2>6
<1>8. ASSUME NEW status \in Status, NavigationFailedAlone(r, status, ctx)
      PROVE  /\ SchedulerInv' /\ FlightInv' /\ OrderInv' /\ ReservationStep /\ CountInv' /\ FleetTypeOK'
             /\ context' \in [Goal -> Context] /\ cancelCall' \in [Goal -> Nat]
  <2>1. /\ Abandon(r) /\ final' = [final EXCEPT ![r] = AbandonedReport(r, status)]
        /\ origin' = origin \ {r} /\ result' = [result EXCEPT ![r] = status]
        /\ pending' = pending \ {r} /\ context' = ctx
        /\ UNCHANGED <<cancelCall, token, cancelStatus, root, completed, stopRequested>>
    BY <1>8 DEF NavigationFailedAlone
  <2>2. SameSent /\ PendingTrackedNext /\ context' \in [Goal -> Context]
    BY <1>5, <2>1
  <2>3. FlightInv' /\ OrderInv' /\ ReservationStep
    BY <1>1, <1>4, <2>1, <2>2, RemoveKeeps
  <2>4. SchedulerInv'
    BY <1>1, <2>1, AbandonInv DEF IInv
  <2>5. CountInv'
    BY <1>1, <2>1, WorkFacts DEF IInv, CountInv, Abandon, SchedulerInv, SchedulerTypeOK, FleetTypeOK
  <2>6. AbandonedReport(r, status) \in SkippedReport
    BY <1>1, ReportFacts
  <2>7. FleetTypeOK'
    BY <1>1, <2>1, <2>6 DEF FleetTypeOK
  <2> QED  BY <1>4, <2>1, <2>2, <2>3, <2>4, <2>5, <2>7
<1>9. ASSUME NEW status \in Status, NavigationFailedRoot(r, status, ctx)
      PROVE  /\ SchedulerInv' /\ FlightInv' /\ OrderInv' /\ ReservationStep /\ CountInv' /\ FleetTypeOK'
             /\ context' \in [Goal -> Context] /\ cancelCall' \in [Goal -> Nat]
  <2> DEFINE res == [result EXCEPT ![r] = status]
  <2>1. /\ root' = r
        /\ CancelPending(pending \ {r}, All("cancelled"), ctx, res)
        /\ UNCHANGED <<schedulerVars, token, completed, final, origin, stopRequested>>
    BY <1>9 DEF NavigationFailedRoot
  <2>2. res \in [Robot -> Status \cup {None}] /\ All("cancelled") \in [Robot -> Status]
    BY <1>1, AllIsStatus DEF FleetTypeOK, Status
  <2>3. /\ context' \in [Goal -> Context] /\ cancelCall' \in [Goal -> Nat]
        /\ cancelStatus' \in [Robot -> Status \cup {None}]
        /\ result' \in [Robot -> Status \cup {None}]
        /\ pending' \subseteq pending \ {r}
        /\ SameSent /\ PendingTrackedNext
    <3>1. Cancellable(pending \ {r}, All("cancelled"), ctx, res)
      BY <1>2, <1>3, <2>2 DEF Cancellable
    <3> QED  BY <2>1, <3>1, CancelPendingFacts
  <2>4. FlightInv' /\ OrderInv' /\ ReservationStep
    BY <1>1, <1>4, <2>1, <2>3, QuietKeeps
  <2>5. FleetTypeOK'
    BY <1>1, <2>1, <2>3 DEF FleetTypeOK
  <2> QED  BY <1>6, <2>1, <2>3, <2>4, <2>5
<1>10. ASSUME UNCHANGED <<schedulerVars, cancelCall, token, cancelStatus, root,
                          completed, final, origin, stopRequested>>,
              context' = ctx, pending' = pending \ {r},
              NEW status \in Status, result' = [result EXCEPT ![r] = status]
       PROVE  /\ SchedulerInv' /\ FlightInv' /\ OrderInv' /\ ReservationStep /\ CountInv' /\ FleetTypeOK'
              /\ context' \in [Goal -> Context] /\ cancelCall' \in [Goal -> Nat]
  <2>1. SameSent /\ PendingTrackedNext /\ context' \in [Goal -> Context]
    BY <1>5, <1>10
  <2>2. FlightInv' /\ OrderInv' /\ ReservationStep
    BY <1>1, <1>4, <1>10, <2>1, QuietKeeps
  <2>3. FleetTypeOK'
    BY <1>1, <1>10 DEF FleetTypeOK
  <2> QED  BY <1>4, <1>6, <1>10, <2>1, <2>2, <2>3
<1>11. ASSUME NEW status \in Status, NavigationFailed(r, status, ctx)
       PROVE  /\ SchedulerInv' /\ FlightInv' /\ OrderInv' /\ ReservationStep /\ CountInv' /\ FleetTypeOK'
              /\ context' \in [Goal -> Context] /\ cancelCall' \in [Goal -> Nat]
  <2>1. CASE NavigationFailedLate(r, ctx)
    BY <1>10, <2>1 DEF NavigationFailedLate, Status
  <2> QED  BY <1>8, <1>9, <1>11, <2>1 DEF NavigationFailed
<1>12. ASSUME NEW status \in Status, CancellationResolved(r, status, ctx)
       PROVE  /\ SchedulerInv' /\ FlightInv' /\ OrderInv' /\ ReservationStep /\ CountInv' /\ FleetTypeOK'
              /\ context' \in [Goal -> Context] /\ cancelCall' \in [Goal -> Nat]
  BY <1>10, <1>12 DEF CancellationResolved
<1>13. ConfirmedStatus(r) \in Status
  BY <1>1 DEF ConfirmedStatus, FleetTypeOK, Status, None
<1>14. {"failed", "rejected", "cancel_failed"} \subseteq Status
  BY DEF Status
<1>15. CASE outcome = "navigation_succeeded"
  BY <1>7, <1>15 DEF Resolve
<1>16. CASE outcome = "navigation_failed"
  BY <1>11, <1>14, <1>16 DEF Resolve
<1>17. CASE outcome = "goal_rejected"
  BY <1>11, <1>14, <1>17 DEF Resolve
<1>18. CASE outcome = "cancellation_confirmed"
  BY <1>12, <1>13, <1>18 DEF Resolve
<1>19. CASE outcome = "cancellation_failed"
  BY <1>12, <1>14, <1>19 DEF Resolve
<1> QED  BY <1>15, <1>16, <1>17, <1>18, <1>19 DEF Outcome

LEMMA SpinOutcomeStep ==
  ASSUME IInv, NEW g \in Goal, SpinOutcome(g)
  PROVE  IInv' /\ ReservationStep
<1>1. /\ pc \in {"spin", "wait"} /\ todo = {} /\ pc' \in {"check", "wait"}
      /\ refused' = [refused EXCEPT ![g] = FALSE]
      /\ UNCHANGED <<server, todo, cancelFlag, report>>
  BY DEF SpinOutcome, Spun, IInv, FlightInv
<1>2. PICK outcome \in Outcome :
        /\ Callback(g, Pop(context, g), outcome)
        /\ IF MatchesPending(g.robot, g) THEN Resolve(g.robot, outcome, Pop(context, g))
           ELSE IgnoreOutcome(Pop(context, g))
  BY DEF SpinOutcome
<1>3. Tracked(g) /\ outcome \in Outcome \ {"none"} /\ AdapterTypeOK
  BY <1>2, CallbackFacts DEF IInv, TypeOK
<1>4. CASE MatchesPending(g.robot, g)
  <2>1. g.robot \in pending /\ token[g.robot] = g /\ Resolve(g.robot, outcome, Pop(context, g))
    BY <1>2, <1>4 DEF MatchesPending
  <2>2. /\ SchedulerInv' /\ FlightInv' /\ OrderInv' /\ ReservationStep /\ CountInv' /\ FleetTypeOK'
        /\ context' \in [Goal -> Context] /\ cancelCall' \in [Goal -> Nat]
    BY <1>1, <1>3, <2>1, ResolveStep
  <2>3. AdapterTypeOK' /\ LoopTypeOK'
    BY <1>1, <1>3, <2>2 DEF AdapterTypeOK, IInv, TypeOK, LoopTypeOK, PC
  <2> QED  BY <2>2, <2>3 DEF IInv, TypeOK, SchedulerInv
<1>5. CASE ~ MatchesPending(g.robot, g)
  <2>1. context' = Pop(context, g) /\ UNCHANGED <<schedulerVars, cancelCall, fleetVars>>
    BY <1>2, <1>5 DEF IgnoreOutcome
  <2>2. /\ context' \in [Goal -> Context]
        /\ \A h \in Goal : context'[h].phase # "absent" <=> Sent(h)
        /\ \A h \in Goal \ {g} : context'[h] = context[h]
    BY <1>3, <2>1, PopFacts DEF Sent
  <2>3. \A r \in pending : token[r] # g /\ token[r] \in Goal /\ Tracked(token[r])
    BY <1>5, PendingFacts DEF MatchesPending, Tracked
  <2>4. SameSent /\ PendingTrackedNext /\ IdleStaysIdle
    BY <1>1, <2>1, <2>2, <2>3 DEF SameSent, PendingTrackedNext, IdleStaysIdle, Sent, Tracked,
                                 fleetVars
  <2>5. FlightInv' /\ OrderInv' /\ ReservationStep
    BY <1>1, <2>1, <2>4, QuietKeeps DEF fleetVars
  <2>6. SchedulerInv' /\ CountInv'
    BY <2>1 DEF schedulerVars, fleetVars, IInv, SchedulerInv, SchedulerTypeOK, HasWork, Current,
                HeldBy, Gone, CountInv
  <2>7. AdapterTypeOK' /\ FleetTypeOK' /\ LoopTypeOK'
    BY <1>1, <1>3, <2>1, <2>2 DEF AdapterTypeOK, IInv, TypeOK, FleetTypeOK, LoopTypeOK, PC, fleetVars
  <2> QED  BY <2>5, <2>6, <2>7 DEF IInv, TypeOK, SchedulerInv
<1> QED  BY <1>4, <1>5

LEMMA SpinAcceptedStep ==
  ASSUME IInv, NEW g \in Goal, SpinAccepted(g)
  PROVE  IInv' /\ ReservationStep
<1>1. /\ pc \in {"spin", "wait"} /\ todo = {} /\ pc' \in {"check", "wait"}
      /\ UNCHANGED <<schedulerVars, fleetVars, server, refused, todo, cancelFlag, report>>
  BY DEF SpinAccepted, Spun, ResponseAccepted, IInv, FlightInv
<1>2. /\ context[g].phase = "sent"
      /\ context' = [context EXCEPT ![g].phase = "accepted"]
      /\ cancelCall' \in {cancelCall, [cancelCall EXCEPT ![g] = @ + 1]}
  BY DEF SpinAccepted, ResponseAccepted
<1>3. AdapterTypeOK
  BY DEF IInv, TypeOK
<1>4. /\ context' \in [Goal -> Context] /\ cancelCall' \in [Goal -> Nat]
      /\ context'[g].phase = "accepted"
      /\ \A h \in Goal \ {g} : context'[h] = context[h]
  <2>1. [context[g] EXCEPT !.phase = "accepted"] \in Context
    BY <1>3 DEF AdapterTypeOK, Context, Phase
  <2>2. context' = [context EXCEPT ![g] = [context[g] EXCEPT !.phase = "accepted"]]
    BY <1>2
  <2>3. context' \in [Goal -> Context] /\ \A h \in Goal \ {g} : context'[h] = context[h]
    BY <1>3, <2>1, <2>2 DEF AdapterTypeOK
  <2>4. context'[g].phase = "accepted"
    BY <1>3, <2>2 DEF AdapterTypeOK, Context
  <2>5. cancelCall' \in [Goal -> Nat]
    BY <1>2, <1>3 DEF AdapterTypeOK
  <2> QED  BY <2>3, <2>4, <2>5
<1>5. SameSent /\ PendingTrackedNext /\ IdleStaysIdle
  BY <1>1, <1>2, <1>4, PendingFacts
    DEF SameSent, PendingTrackedNext, IdleStaysIdle, Sent, Tracked, fleetVars
<1>6. FlightInv' /\ OrderInv' /\ ReservationStep
  BY <1>1, <1>5, QuietKeeps DEF fleetVars
<1>7. SchedulerInv' /\ CountInv'
  BY <1>1 DEF schedulerVars, fleetVars, IInv, SchedulerInv, SchedulerTypeOK, HasWork, Current,
              HeldBy, Gone, CountInv
<1>8. AdapterTypeOK' /\ FleetTypeOK' /\ LoopTypeOK'
  BY <1>1, <1>3, <1>4 DEF AdapterTypeOK, IInv, TypeOK, FleetTypeOK, LoopTypeOK, PC, fleetVars
<1> QED  BY <1>6, <1>7, <1>8 DEF IInv, TypeOK, SchedulerInv

\* Stops that cancel everything that is pending and leave the scheduler alone.
LEMMA StopAllStep ==
  ASSUME IInv, NEW why \in [Robot -> Status], CancelPending(pending, why, context, result),
         root' \in Robot \cup {None}, stopRequested' \in BOOLEAN,
         pc' \in PC \ {"dispatch"}, todo = {},
         UNCHANGED <<schedulerVars, server, refused, token, completed, final, origin, todo,
                     cancelFlag, report>>
  PROVE  IInv' /\ ReservationStep
<1>1. TypeOK
  BY DEF IInv
<1>2. Cancellable(pending, why, context, result)
  BY <1>1 DEF TypeOK, AdapterTypeOK, FleetTypeOK, Cancellable, Sent
<1>3. /\ context' \in [Goal -> Context] /\ cancelCall' \in [Goal -> Nat]
      /\ cancelStatus' \in [Robot -> Status \cup {None}]
      /\ result' \in [Robot -> Status \cup {None}]
      /\ pending' \subseteq pending
      /\ SameSent /\ PendingTrackedNext
  BY <1>2, CancelPendingFacts
<1>4. FlightInv' /\ OrderInv' /\ ReservationStep
  BY <1>3, QuietKeeps DEF IdleStaysIdle
<1>5. SchedulerInv' /\ CountInv'
  BY DEF schedulerVars, IInv, SchedulerInv, SchedulerTypeOK, HasWork, Current, HeldBy, Gone, CountInv
<1>6. AdapterTypeOK' /\ FleetTypeOK' /\ LoopTypeOK'
  BY <1>1, <1>3 DEF TypeOK, AdapterTypeOK, FleetTypeOK, LoopTypeOK
<1> QED  BY <1>4, <1>5, <1>6 DEF IInv, TypeOK, SchedulerInv

\* The two ways of blaming one pending robot.
LEMMA BlameIsStatus ==
  ASSUME NEW S \in SUBSET Robot, NEW status \in Status
  PROVE  [r \in Robot |-> IF r = First(S) THEN status ELSE "cancelled"] \in [Robot -> Status]
BY DEF Status

LEMMA OperatorCheckFacts ==
  ASSUME IInv, OperatorCheck, token' = token
  PROVE  /\ context' \in [Goal -> Context] /\ cancelCall' \in [Goal -> Nat]
         /\ cancelStatus' \in [Robot -> Status \cup {None}]
         /\ result' \in [Robot -> Status \cup {None}]
         /\ stopRequested' \in BOOLEAN
         /\ pending' \subseteq pending
         /\ SameSent /\ PendingTrackedNext
<1>1. TypeOK
  BY DEF IInv
<1>2. CASE cancelFlag /\ ~CancelStatusSet
  <2>1. CancelPending(pending, All("cancelled"), context, result) /\ stopRequested' = TRUE
    BY <1>2 DEF OperatorCheck
  <2>2. Cancellable(pending, All("cancelled"), context, result)
    BY <1>1, AllIsStatus DEF Cancellable, TypeOK, AdapterTypeOK, FleetTypeOK, Sent, Status
  <2> QED  BY <2>1, <2>2, CancelPendingFacts
<1>3. CASE ~ (cancelFlag /\ ~CancelStatusSet)
  <2>1. UNCHANGED <<context, cancelCall, cancelStatus, pending, result, stopRequested>>
    BY <1>3 DEF OperatorCheck
  <2>2. SameSent /\ PendingTrackedNext
    BY <2>1 DEF SameSent, PendingTrackedNext, Sent, Tracked, IInv, FlightInv
  <2> QED  BY <1>1, <2>1, <2>2 DEF TypeOK, AdapterTypeOK, FleetTypeOK
<1> QED  BY <1>2, <1>3

LEMMA CheckStep ==
  ASSUME IInv, Check
  PROVE  IInv' /\ ReservationStep
<1>1. /\ pc' = "top" /\ todo = {} /\ pending \subseteq Robot
      /\ UNCHANGED <<server, refused, token, completed, final, todo, cancelFlag, report>>
  BY DEF Check, IInv, FlightInv, TypeOK, FleetTypeOK
<1>2. CASE SafetyStop
  <2> DEFINE why == [r \in Robot |-> IF r = First(pending) THEN "failed" ELSE "cancelled"]
  <2>1. why \in [Robot -> Status]
    BY <1>1, BlameIsStatus DEF Status
  <2>2. /\ CancelPending(pending, why, context, result)
        /\ root' = First(pending) /\ First(pending) \in pending
        /\ UNCHANGED <<schedulerVars, origin, stopRequested>>
    BY <1>1, <1>2, FirstIsIn DEF SafetyStop
  <2>3. root' \in Robot \cup {None} /\ stopRequested' \in BOOLEAN /\ pc' \in PC \ {"dispatch"}
    BY <1>1, <2>2 DEF IInv, TypeOK, FleetTypeOK, PC
  <2> HIDE DEF why
  <2> QED  BY <1>1, <2>1, <2>2, <2>3, StopAllStep
<1>3. CASE ReleaseClearedDepartures /\ OperatorCheck /\ UNCHANGED root
  <2>1. /\ context' \in [Goal -> Context] /\ cancelCall' \in [Goal -> Nat]
        /\ cancelStatus' \in [Robot -> Status \cup {None}]
        /\ result' \in [Robot -> Status \cup {None}]
        /\ stopRequested' \in BOOLEAN
        /\ pending' \subseteq pending
        /\ SameSent /\ PendingTrackedNext
    BY <1>1, <1>3, OperatorCheckFacts
  <2>2. IdleStaysIdle
    BY <1>1 DEF IdleStaysIdle
  <2>3. FlightInv' /\ OrderInv' /\ ReservationStep /\ SchedulerInv' /\ CountInv' /\ origin' \subseteq origin
    <3>1. CASE UNCHANGED <<schedulerVars, origin>>
      <4>1. FlightInv' /\ OrderInv' /\ ReservationStep
        BY <1>1, <2>1, <2>2, <3>1, QuietKeeps
      <4>2. SchedulerInv' /\ CountInv'
        BY <1>1, <3>1 DEF schedulerVars, IInv, SchedulerInv, SchedulerTypeOK, HasWork, Current,
                          HeldBy, Gone, CountInv
      <4> QED  BY <3>1, <4>1, <4>2
    <3>2. CASE \E r \in Robot : /\ OutOfCorridor(r)
                               /\ ClearActive(r)
                               /\ origin' = origin \ {r}
      <4>1. PICK r \in Robot : OutOfCorridor(r) /\ ClearActive(r) /\ origin' = origin \ {r}
        BY <3>2
      <4>2. r \in origin /\ r \in active \ cleared
        BY <4>1 DEF OutOfCorridor, IInv, FlightInv
      <4>3. FlightInv' /\ OrderInv' /\ ReservationStep
        BY <1>1, <2>1, <2>2, <4>1, <4>2, ClearKeeps
      <4>4. SchedulerInv'
        BY <4>1, <4>2, ClearActiveInv DEF IInv
      <4>5. CountInv'
        BY <1>1, <4>1 DEF ClearActive, IInv, CountInv
      <4> QED  BY <4>1, <4>3, <4>4, <4>5
    <3> QED  BY <1>3, <3>1, <3>2 DEF ReleaseClearedDepartures
  <2>4. AdapterTypeOK' /\ FleetTypeOK' /\ LoopTypeOK'
    BY <1>1, <1>3, <2>1, <2>3 DEF IInv, TypeOK, AdapterTypeOK, FleetTypeOK, LoopTypeOK, PC
  <2> QED  BY <2>3, <2>4 DEF IInv, TypeOK, SchedulerInv
<1> QED  BY <1>2, <1>3 DEF Check

LEMMA BeginTimeoutStep ==
  ASSUME IInv, BeginTimeout
  PROVE  IInv' /\ ReservationStep
<1> DEFINE why == [r \in Robot |-> IF r = First(pending) THEN "timed_out" ELSE "cancelled"]
<1>1. /\ pc' = "wait" /\ todo = {} /\ pending \subseteq Robot /\ pending # {}
      /\ CancelPending(pending, why, context, result) /\ root' = First(pending)
      /\ UNCHANGED <<schedulerVars, server, refused, token, completed, final, origin,
                     stopRequested, todo, cancelFlag, report>>
  BY DEF BeginTimeout, IInv, FlightInv, TypeOK, FleetTypeOK
<1>2. why \in [Robot -> Status]
  BY <1>1, BlameIsStatus DEF Status
<1>3. root' \in Robot \cup {None} /\ stopRequested' \in BOOLEAN /\ pc' \in PC \ {"dispatch"}
  BY <1>1, FirstIsIn DEF IInv, TypeOK, FleetTypeOK, PC
<1> HIDE DEF why
<1> QED  BY <1>1, <1>2, <1>3, StopAllStep

\* The servers know only goals that were sent to them.
LEMMA ServerStepKeeps ==
  ASSUME IInv, ServerStep
  PROVE  IInv' /\ ReservationStep
<1>1. /\ pc \in {"spin", "wait"} /\ todo = {}
      /\ UNCHANGED <<schedulerVars, fleetVars, pc, todo, cancelFlag, report>>
  BY DEF ServerStep, IInv, FlightInv
<1>2. PICK g \in Goal : ServerAnswers(g) \/ ServerFinishes(g) \/ ServerCancels(g)
  BY DEF ServerStep, Server
<1>3. AdapterTypeOK
  BY DEF IInv, TypeOK
<1>4. /\ context' = context
      /\ \A h \in Goal \ {g} : server'[h] = server[h]
      /\ server[g] = "idle" => server'[g] = "idle"
      /\ AdapterTypeOK'
  <2>1. CASE ServerAnswers(g)
    BY <1>3, <2>1 DEF ServerAnswers, AdapterTypeOK, ServerState, Live
  <2>2. CASE ServerFinishes(g)
    BY <1>3, <2>2 DEF ServerFinishes, AdapterTypeOK, ServerState, Ended
  <2>3. CASE ServerCancels(g)
    <3>1. /\ context' = context
          /\ cancelCall' = [cancelCall EXCEPT ![g] = @ - 1] /\ cancelCall[g] > 0
          /\ \/ /\ server[g] = "executing" /\ server' = [server EXCEPT ![g] = "canceling"]
                /\ refused' = refused
             \/ server' = server /\ refused' = [refused EXCEPT ![g] = TRUE]
      BY <2>3 DEF ServerCancels
    <3>2. cancelCall' \in [Goal -> Nat] /\ refused' \in [Goal -> BOOLEAN]
      <4>1. cancelCall[g] - 1 \in Nat
        BY <1>3, <3>1 DEF AdapterTypeOK
      <4>2. cancelCall' = [cancelCall EXCEPT ![g] = cancelCall[g] - 1]
        BY <3>1
      <4> QED  BY <1>3, <3>1, <4>1, <4>2 DEF AdapterTypeOK
    <3>3. server' \in [Goal -> ServerState]
      BY <1>3, <3>1 DEF AdapterTypeOK, ServerState, Live
    <3> QED  BY <1>3, <3>1, <3>2, <3>3 DEF AdapterTypeOK
  <2> QED  BY <1>2, <2>1, <2>2, <2>3
<1>5. SameSent /\ PendingTrackedNext /\ IdleStaysIdle
  BY <1>1, <1>4 DEF SameSent, PendingTrackedNext, IdleStaysIdle, Sent, Tracked, fleetVars,
                    IInv, FlightInv, OrderInv
<1>6. FlightInv' /\ OrderInv' /\ ReservationStep
  BY <1>1, <1>5, QuietKeeps DEF fleetVars
<1>7. SchedulerInv' /\ CountInv'
  BY <1>1 DEF schedulerVars, fleetVars, IInv, SchedulerInv, SchedulerTypeOK, HasWork, Current,
              HeldBy, Gone, CountInv
<1>8. FleetTypeOK' /\ LoopTypeOK'
  BY <1>1 DEF IInv, TypeOK, FleetTypeOK, LoopTypeOK, fleetVars
<1> QED  BY <1>4, <1>6, <1>7, <1>8 DEF IInv, TypeOK, SchedulerInv

LEMMA FinishStep ==
  ASSUME IInv, FinishSplitResult
  PROVE  IInv' /\ ReservationStep
<1>1. /\ pc' = "done" /\ todo = {} /\ report' = [r \in Robot |-> RobotReport(r)]
      /\ UNCHANGED <<schedulerVars, adapterVars, fleetVars, todo, cancelFlag>>
  BY DEF FinishSplitResult, IInv, FlightInv
<1>2. ASSUME NEW r \in Robot PROVE RobotReport(r) \in SkippedReport \cup {NoReport}
  <2>1. /\ final[r] \in SkippedReport \cup {NoReport}
        /\ result[r] \in Status \cup {None}
        /\ completed[r] \in Nat /\ done[r] \in Nat /\ Len(Work[r]) \in Nat
        /\ completed[r] <= done[r] /\ done[r] <= Len(Work[r])
    BY WorkFacts DEF IInv, TypeOK, FleetTypeOK, SchedulerTypeOK, SchedulerInv, CountInv
  <2>2. Len(Work[r]) - completed[r] \in Nat
    BY <2>1
  <2>3. (IF result[r] # None THEN result[r]
         ELSE IF Stopping THEN "cancelled" ELSE "succeeded") \in Status
    BY <2>1 DEF Status
  <2> QED  BY <2>1, <2>2, <2>3 DEF RobotReport, SkippedReport
<1>3. LoopTypeOK'
  BY <1>1, <1>2 DEF IInv, TypeOK, LoopTypeOK, PC
<1> QED  BY <1>1, <1>3, StandingStep DEF PC

LEMMA NextIInv ==
  ASSUME IInv, [Next]_vars
  PROVE  IInv' /\ (ReservationStep \/ \E r \in Robot : DispatchGoal(r))
<1>1. CASE LeaveLoop \/ DeadlinePassed \/ TimeoutCrash \/ BeginWait
  BY <1>1, StandingStep
    DEF LeaveLoop, DeadlinePassed, TimeoutCrash, BeginWait, IInv, FlightInv, TypeOK, LoopTypeOK, PC
<1>2. CASE ClaimReady
  BY <1>2, ClaimStep
<1>3. CASE DispatchStep
  BY <1>3, DispatchGoalStep, DispatchFailsAloneStep, DispatchFailsRootStep DEF DispatchStep
<1>4. CASE DispatchDone
  BY <1>4, StandingStep DEF DispatchDone, IInv, TypeOK, LoopTypeOK, PC
<1>5. CASE SpinStep
  <2>1. CASE SpinCancelService \/ SpinIdle
    BY <2>1, StandingStep DEF SpinCancelService, SpinIdle, IInv, FlightInv, TypeOK, LoopTypeOK, PC
  <2> QED  BY <1>5, <2>1, SpinOutcomeStep, SpinAcceptedStep DEF SpinStep
<1>6. CASE Check
  BY <1>6, CheckStep
<1>7. CASE BeginTimeout
  BY <1>7, BeginTimeoutStep
<1>8. CASE FinishSplitResult
  BY <1>8, FinishStep
<1>9. CASE ServerStep
  BY <1>9, ServerStepKeeps
<1>10. CASE UNCHANGED vars
  <2>1. /\ UNCHANGED <<schedulerVars, adapterVars, fleetVars, todo>>
        /\ pc' = pc /\ cancelFlag' = cancelFlag /\ report' = report
    BY <1>10 DEF vars
  <2>2. FlightInv' /\ OrderInv' /\ ReservationStep
    <3>1. SameSent /\ PendingTrackedNext /\ IdleStaysIdle
      BY <2>1 DEF SameSent, PendingTrackedNext, IdleStaysIdle, Sent, Tracked, adapterVars,
                  fleetVars, IInv, FlightInv
    <3> QED  BY <2>1, <3>1, QuietKeeps DEF fleetVars, IInv, FlightInv
  <2>3. SchedulerInv' /\ CountInv'
    BY <2>1 DEF schedulerVars, fleetVars, IInv, SchedulerInv, SchedulerTypeOK, HasWork, Current,
                HeldBy, Gone, CountInv
  <2>4. AdapterTypeOK' /\ FleetTypeOK' /\ LoopTypeOK'
    BY <2>1 DEF IInv, TypeOK, AdapterTypeOK, FleetTypeOK, LoopTypeOK, adapterVars, fleetVars
  <2> QED  BY <2>2, <2>3, <2>4 DEF IInv, TypeOK, SchedulerInv
<1> QED  BY <1>1, <1>2, <1>3, <1>4, <1>5, <1>6, <1>7, <1>8, <1>9, <1>10
         DEF Next, Loop, Ending, Returned

\* The inductive invariant holds in every reachable state of execute_split.
THEOREM Invariance == Spec => []IInv
<1>1. Init => IInv
  BY InitIInv
<1>2. IInv /\ [Next]_vars => IInv'
  BY NextIInv
<1> QED  BY <1>1, <1>2, PTL DEF Spec

-----------------------------------------------------------------------------
(* What the invariant gives.                                                *)

\* Every variable of execute_split keeps its type, whatever fails or stops.
THEOREM TypeCorrect == Spec => []TypeOK
<1>1. IInv => TypeOK
  BY DEF IInv
<1> QED  BY <1>1, Invariance, PTL

\* No reservation error can be raised by the scheduler: released, abandoned
\* and cleared robots always find their goal where the lists promise it.
THEOREM ReleaseOrder == Spec => []ReleaseOrderIntact
<1>1. ASSUME IInv PROVE ReleaseOrderIntact
  <2>1. SchedulerInv /\ cleared \subseteq active /\ active \subseteq Robot
    BY <1>1 DEF IInv, SchedulerInv, SchedulerTypeOK
  <2>2. \A r \in active : HasWork(r)
    BY <2>1 DEF SchedulerInv
  <2>3. ASSUME NEW r \in active \ cleared PROVE AtHead(HeldBy(r), Current(r))
    <3>1. /\ r \in Robot /\ done[r] \in Nat /\ HasWork(r)
          /\ Slot(Current(r)) = popped[HeldBy(r)] + 1
          /\ popped \in [Reservation -> Nat]
      BY <2>1, <2>3 DEF SchedulerInv, SchedulerTypeOK
    <3>2. Current(r) \in PlanGoal /\ HeldBy(r) \in Reservation
      BY <3>1, CurrentFacts
    <3> QED  BY <3>1, <3>2, HeadIsSlot DEF HeldBy
  <2>4. ASSUME NEW r \in Robot \ active, HasWork(r)
        PROVE  popped[HeldBy(r)] < Len(Queue[HeldBy(r)])
    <3> DEFINE c == Current(r)
    <3>1. done[r] \in Nat /\ popped \in [Reservation -> Nat]
      BY <2>1 DEF SchedulerInv, SchedulerTypeOK
    <3>2. /\ c \in PlanGoal /\ Owner(c) = r /\ Place(c) = done[r] + 1
          /\ HeldBy(r) \in Reservation /\ HeldBy(r) = ReservationOf[c]
      BY <2>4, <3>1, CurrentFacts DEF HeldBy
    <3>3. ~ Gone(c)
      BY <2>1, <2>4, <3>1, <3>2 DEF Gone
    <3>4. ~ Slot(c) <= popped[HeldBy(r)]
      BY <2>1, <3>2, <3>3 DEF SchedulerInv
    <3>5. Slot(c) \in 1 .. Len(Queue[HeldBy(r)]) /\ Len(Queue[HeldBy(r)]) \in Nat
      BY <3>2, GoalFacts, QueueFacts
    <3> QED  BY <3>1, <3>2, <3>4, <3>5
  <2>5. cleared \subseteq active \ origin
    BY <1>1, <2>1 DEF IInv, FlightInv
  <2> QED  BY <2>2, <2>3, <2>4, <2>5 DEF ReleaseOrderIntact
<1> QED  BY <1>1, Invariance, PTL

\* Whoever the loop waits for, waits for a goal its adapter can still cancel
\* and will still report.
THEOREM PendingIsTracked == Spec => []PendingTracked
<1>1. ASSUME IInv PROVE PendingTracked
  BY <1>1, PendingFacts DEF PendingTracked, Tracked
<1> QED  BY <1>1, Invariance, PTL

\* A goal has left its queue when its slot is behind the head.
LEMMA HasLeftIsSlot ==
  ASSUME IInv, NEW g \in Goal
  PROVE  /\ HasLeft(ReservationOf[g], g) <=> Slot(g) <= popped[ReservationOf[g]]
         /\ g \in PlanGoal /\ ReservationOf[g] \in Reservation
         /\ popped[ReservationOf[g]] \in Nat /\ Slot(g) \in Nat
<1> DEFINE q == ReservationOf[g]
<1>1. /\ g \in PlanGoal /\ q \in Reservation /\ Slot(g) \in 1 .. Len(Queue[q])
      /\ Queue[q][Slot(g)] = g /\ Len(Queue[q]) \in Nat
      /\ popped[q] \in Nat /\ popped[q] <= Len(Queue[q])
  BY OwnerAssumption, GoalFacts, QueueFacts DEF IInv, SchedulerInv, SchedulerTypeOK
<1>2. ASSUME HasLeft(q, g) PROVE Slot(g) <= popped[q]
  <2>1. PICK i \in 1 .. popped[q] : i <= Len(Queue[q]) /\ Queue[q][i] = g
    BY <1>2 DEF HasLeft
  <2>2. i \in 1 .. Len(Queue[q])
    BY <1>1, <2>1
  <2> QED  BY <1>1, <2>1, <2>2, SlotIsIndex
<1>3. ASSUME Slot(g) <= popped[q] PROVE HasLeft(q, g)
  BY <1>1, <1>3 DEF HasLeft
<1> QED  BY <1>1, <1>2, <1>3

\* Of the goals of one reservation, at most one that has not left it was ever
\* sent: it is the head of the queue.
LEMMA InsideIsHead ==
  ASSUME IInv, NEW g \in Goal, Sent(g), ~ HasLeft(ReservationOf[g], g)
  PROVE  Slot(g) = popped[ReservationOf[g]] + 1
BY HasLeftIsSlot DEF IInv, OrderInv

\* At most one goal of a reservation is with a Nav2 server inside its
\* corridor, for every plan and every failure.
THEOREM ReservationsAreExclusive == Spec => []CorridorExclusive
<1>1. ASSUME IInv,
             NEW g \in Goal, NEW h \in Goal, ReservationOf[g] = ReservationOf[h],
             server[g] \in Live, server[h] \in Live,
             ~ HasLeft(ReservationOf[g], g), ~ HasLeft(ReservationOf[h], h)
      PROVE  g = h
  <2>1. Sent(g) /\ Sent(h)
    BY <1>1 DEF IInv, OrderInv, Live
  <2>2. Slot(g) = Slot(h)
    BY <1>1, <2>1, InsideIsHead
  <2> QED  BY <1>1, <2>2, HasLeftIsSlot, SlotIsUnique
<1>2. IInv => CorridorExclusive
  BY <1>1 DEF CorridorExclusive
<1> QED  BY <1>2, Invariance, PTL

-----------------------------------------------------------------------------
(* The reservations keep their order: execute_split implements              *)
(* ReservationOrder.  A dispatch enters a reservation, releasing or clearing *)
(* a robot leaves it, and every other step stutters.                        *)

LEMMA GoalsOfQueue ==
  ASSUME NEW q \in Reservation, NEW g \in R!Goals(q)
  PROVE  g \in PlanGoal /\ ReservationOf[g] = q
BY QueueFacts DEF R!Goals

LEMMA EnterStep ==
  ASSUME IInv, IInv', NEW r \in Robot, DispatchGoal(r)
  PROVE  \E q \in Reservation : R!Enter(q)
<1> DEFINE c == Current(r)
           q == HeldBy(r)
<1>1. r \in todo /\ r \in active \ cleared
  BY FirstIsIn DEF DispatchGoal, IInv, TypeOK, LoopTypeOK, FlightInv
<1>2. /\ Dispatch(c) /\ popped' = popped /\ done' = done
  BY DEF DispatchGoal, schedulerVars
<1>3. /\ c \in Goal /\ Owner(c) = r /\ Place(c) = done[r] + 1 /\ q \in Reservation
      /\ ReservationOf[c] = q /\ done[r] \in Nat
  BY <1>1, RobotFacts DEF HeldBy
<1>4. Slot(c) = popped[q] + 1 /\ popped \in [Reservation -> Nat]
  BY <1>1 DEF IInv, SchedulerInv, SchedulerTypeOK
<1>5. AtHead(q, c) /\ c \in PlanGoal /\ popped[q] \in Nat
  BY <1>3, <1>4, HeadIsSlot, HasLeftIsSlot
<1>6. ~ Sent(c)
  BY <1>1, <1>3 DEF IInv, OrderInv, Under
<1>7. \A g \in Goal : Sent(g)' <=> Sent(g) \/ g = c
  BY <1>2, <1>3 DEF Dispatch, DispatchFrom, Sent, IInv, TypeOK, AdapterTypeOK, Context
<1>8. \A g \in Goal : HasLeft(ReservationOf[g], g)' <=> HasLeft(ReservationOf[g], g)
  BY <1>2 DEF HasLeft
<1>9. ~ HasLeft(q, c)
  BY <1>3, <1>4, HasLeftIsSlot
<1>10. Inside' = Inside \cup {Queue[q][popped[q] + 1]}
  BY <1>3, <1>5, <1>7, <1>8, <1>9 DEF Inside, Sent, AtHead
<1>11. Inside \cap R!Goals(q) = {}
  <2>1. SUFFICES ASSUME NEW g \in Inside, g \in R!Goals(q) PROVE FALSE
    OBVIOUS
  <2>2. g \in Goal /\ Sent(g) /\ ~ HasLeft(ReservationOf[g], g)
    BY DEF Inside, Sent
  <2>3. g \in PlanGoal /\ ReservationOf[g] = q
    BY <1>3, <2>1, GoalsOfQueue
  <2>4. Slot(g) = popped[q] + 1
    BY <2>2, <2>3, InsideIsHead
  <2>5. g = c
    BY <1>3, <1>4, <1>5, <2>3, <2>4, SlotIsUnique
  <2> QED  BY <1>6, <2>2, <2>5
<1> QED  BY <1>2, <1>3, <1>5, <1>10, <1>11 DEF R!Enter, AtHead

LEMMA LeaveStep ==
  ASSUME IInv, IInv', SameSent, NEW r \in Under \ cleared,
         popped' = [popped EXCEPT ![HeldBy(r)] = @ + 1]
  PROVE  \E q \in Reservation : R!Leave(q)
<1> DEFINE c == Current(r)
           q == HeldBy(r)
<1>1. r \in active \ cleared /\ Sent(c)
  BY DEF Under, IInv, FlightInv
<1>2. /\ r \in Robot /\ c \in Goal /\ q \in Reservation /\ ReservationOf[c] = q
  BY <1>1, RobotFacts DEF HeldBy
<1>3. Slot(c) = popped[q] + 1 /\ popped \in [Reservation -> Nat]
  BY <1>1 DEF IInv, SchedulerInv, SchedulerTypeOK
<1>4. AtHead(q, c) /\ c \in PlanGoal /\ popped[q] \in Nat
  BY <1>2, <1>3, HeadIsSlot, HasLeftIsSlot
<1>5. c \in Inside
  BY <1>1, <1>2, <1>3, <1>4, HasLeftIsSlot DEF Inside, Sent
<1>6. ASSUME NEW g \in Goal
      PROVE  HasLeft(ReservationOf[g], g)' <=> HasLeft(ReservationOf[g], g) \/ g = c
  <2>1. HasLeft(ReservationOf[g], g)' <=> Slot(g) <= popped'[ReservationOf[g]]
    <3>1. /\ ReservationOf[g] \in Reservation /\ Slot(g) \in 1 .. Len(Queue[ReservationOf[g]])
          /\ Queue[ReservationOf[g]][Slot(g)] = g /\ Len(Queue[ReservationOf[g]]) \in Nat
      BY <1>4, OwnerAssumption, GoalFacts, QueueFacts
    <3>2. popped'[ReservationOf[g]] \in Nat
      BY <1>3, <3>1
    <3>3. ASSUME NEW i \in 1 .. popped'[ReservationOf[g]], i <= Len(Queue[ReservationOf[g]]),
                 Queue[ReservationOf[g]][i] = g
          PROVE  Slot(g) <= popped'[ReservationOf[g]]
      BY <3>1, <3>2, <3>3, SlotIsIndex
    <3> QED  BY <3>1, <3>2, <3>3 DEF HasLeft
  <2>2. /\ HasLeft(ReservationOf[g], g) <=> Slot(g) <= popped[ReservationOf[g]]
        /\ g \in PlanGoal /\ ReservationOf[g] \in Reservation
        /\ popped[ReservationOf[g]] \in Nat /\ Slot(g) \in Nat
    BY HasLeftIsSlot
  <2>3. CASE ReservationOf[g] = q
    <3>1. popped'[q] = popped[q] + 1
      BY <1>2, <1>3
    <3>2. Slot(g) = popped[q] + 1 <=> g = c
      BY <1>2, <1>3, <1>4, <2>2, <2>3, SlotIsUnique
    <3> QED  BY <1>4, <2>1, <2>2, <2>3, <3>1, <3>2
  <2>4. CASE ReservationOf[g] # q
    BY <1>2, <1>3, <2>1, <2>2, <2>4
  <2> QED  BY <2>3, <2>4
<1>7. Inside' = Inside \ {Queue[q][popped[q] + 1]}
  BY <1>4, <1>6 DEF Inside, SameSent, Sent, AtHead
<1> QED  BY <1>2, <1>4, <1>5, <1>7 DEF R!Leave, AtHead

\* execute_split implements the reservation order, for every plan: goals enter
\* a reservation in plan order, each once, one at a time.
THEOREM KeepsOrder == Spec => KeepsReservationOrder
<1>1. Init => R!Init
  <2>1. SUFFICES ASSUME Init PROVE R!Init
    OBVIOUS
  <2>2. Inside = {}
    BY <2>1 DEF Init, AdapterInit, Inside
  <2> QED  BY <2>1, <2>2 DEF Init, SchedulerInit, R!Init
<1>2. IInv /\ IInv' /\ [Next]_vars => [R!Next]_<<popped, Inside>>
  <2>1. SUFFICES ASSUME IInv, IInv', [Next]_vars PROVE [R!Next]_<<popped, Inside>>
    OBVIOUS
  <2>2. CASE \E r \in Robot : DispatchGoal(r)
    BY <2>1, <2>2, EnterStep DEF R!Next
  <2>3. CASE ReservationStep
    <3>1. CASE popped' = popped
      <4>1. \A g \in Goal : HasLeft(ReservationOf[g], g)' <=> HasLeft(ReservationOf[g], g)
        BY <3>1 DEF HasLeft
      <4>2. Inside' = Inside
        BY <2>3, <4>1 DEF Inside, ReservationStep, SameSent, Sent
      <4> QED  BY <3>1, <4>2
    <3>2. CASE \E r \in Under \ cleared : popped' = [popped EXCEPT ![HeldBy(r)] = @ + 1]
      BY <2>1, <2>3, <3>2, LeaveStep DEF ReservationStep, R!Next
    <3> QED  BY <2>3, <3>1, <3>2 DEF ReservationStep
  <2> QED  BY <2>1, <2>2, <2>3, NextIInv
<1> QED  BY <1>1, <1>2, Invariance, PTL DEF Spec, KeepsReservationOrder, R!Spec

-----------------------------------------------------------------------------
\* After a stop of the fleet has begun, by whatever failure or request, no
\* robot is claimed for another goal.
THEOREM NoDispatch == Spec => NoDispatchAfterStop
<1> DEFINE NoNewWork == /\ active' \subseteq active
                        /\ todo' \subseteq todo
                        /\ \A r \in Robot \ todo : token'[r] = token[r]
<1>1. ASSUME IInv, [Next]_vars, Stopping PROVE NoNewWork
  <2> USE DEF schedulerVars, fleetVars, adapterVars
  <2>1. ~ ClaimReady
    BY <1>1 DEF ClaimReady
  <2>2. ASSUME NEW r \in Robot, DispatchGoal(r) PROVE NoNewWork
    <3>1. r \in todo
      BY <1>1, <2>2, FirstIsIn DEF DispatchGoal, IInv, TypeOK, LoopTypeOK
    <3>2. token' = [token EXCEPT ![r] = Current(r)] /\ todo' = todo \ {r} /\ active' = active
      BY <2>2 DEF DispatchGoal
    <3>3. token \in [Robot -> Goal \cup {NoGoal}]
      BY <1>1 DEF IInv, TypeOK, FleetTypeOK
    <3> QED  BY <3>1, <3>2, <3>3
  <2>3. ASSUME NEW r \in Robot, DispatchFailsAlone(r) \/ DispatchFailsRoot(r) PROVE NoNewWork
    BY <2>3 DEF DispatchFailsAlone, DispatchFailsRoot, Abandon
  <2>4. ASSUME NEW g \in Goal, SpinOutcome(g) PROVE NoNewWork
    <3>1. PICK outcome \in Outcome :
            /\ Callback(g, Pop(context, g), outcome)
            /\ \/ Resolve(g.robot, outcome, Pop(context, g))
               \/ IgnoreOutcome(Pop(context, g))
      BY <2>4 DEF SpinOutcome
    <3>2. todo' = todo
      BY <2>4 DEF SpinOutcome
    <3>3. CASE IgnoreOutcome(Pop(context, g))
      BY <3>2, <3>3 DEF IgnoreOutcome
    <3>4. CASE Resolve(g.robot, outcome, Pop(context, g))
      <4>1. outcome # "none"
        BY <1>1, <3>1, CallbackFacts DEF IInv, TypeOK
      <4>2. token' = token /\ active' \subseteq active
        BY <3>4, <4>1 DEF Resolve, Outcome, NavigationSucceeded, NavigationFailed,
          NavigationFailedAlone, NavigationFailedRoot, NavigationFailedLate,
          CancellationResolved, Release, Abandon
      <4> QED  BY <3>2, <4>2
    <3> QED  BY <3>1, <3>3, <3>4
  <2>5. CASE Check
    BY <2>5 DEF Check, SafetyStop, ReleaseClearedDepartures, ClearActive
  <2>6. CASE LeaveLoop \/ DeadlinePassed \/ DispatchDone \/ SpinCancelService \/ SpinIdle
             \/ (\E g \in Goal : SpinAccepted(g)) \/ Ending \/ ServerStep \/ UNCHANGED vars
    BY <2>6 DEF LeaveLoop, DeadlinePassed, DispatchDone, SpinCancelService, SpinIdle,
      SpinAccepted, Ending, BeginTimeout, TimeoutCrash, BeginWait, FinishSplitResult,
      ServerStep, vars
  <2> QED
    BY <1>1, <2>1, <2>2, <2>3, <2>4, <2>5, <2>6 DEF Next, Loop, DispatchStep, SpinStep, Returned
<1>2. IInv /\ [Next]_vars => [Stopping => NoNewWork]_vars
  BY <1>1
<1> QED  BY <1>2, Invariance, PTL DEF Spec, NoDispatchAfterStop

-----------------------------------------------------------------------------
(* What is recorded of the robots.  A second invariant, on top of the       *)
(* first: results and counts agree with Nav2, only one robot timed out, and *)
(* as long as nobody was abandoned the queues hold nothing back.            *)

\* A goal was told to stop, or confirms that it did, only in a stop of the
\* fleet; until then every dispatched goal is waited for.
StopInv ==
  /\ AsksAgree
  /\ \A g \in Goal : context[g].cancelRequested => Stopping
  /\ \A r \in Robot : result[r] \in {"cancelled", "timed_out"} =>
       /\ Stopping
       /\ r \notin todo
       /\ token[r] \in Goal
       /\ server[token[r]] = "canceled"
  /\ ~Stopping => Under \subseteq pending

TimedOut(r) == cancelStatus[r] = "timed_out" \/ result[r] = "timed_out"

\* Only the robot blamed for the deadline timed out.
TimeoutInv ==
  /\ \A r \in Robot : final[r].status # "timed_out"
  /\ \A r \in Robot : TimedOut(r) => r = root /\ pc \in {"wait", "done"}

\* What is counted was done.
DoneInv ==
  /\ \A r \in Robot : HasWork(r) => completed[r] = done[r]
  /\ \A r \in Robot : \A i \in 1 .. completed[r] : server[Work[r][i]] = "succeeded"

\* No robot was abandoned so far.
NobodyAbandoned == root = None /\ \A r \in Robot : final[r] = NoReport

\* The queues have let go of what is finished or out of the way, and a loop
\* that goes on has a robot under way.
QueueInv ==
  /\ \A r \in cleared : Slot(Current(r)) <= popped[HeldBy(r)]
  /\ NobodyAbandoned =>
       /\ \A g \in Goal : Place(g) <= done[Owner(g)] => Slot(g) <= popped[ReservationOf[g]]
       /\ pc \in {"dispatch", "spin"} => active # {}

Records == StopInv /\ TimeoutInv /\ DoneInv /\ QueueInv

RecordInv == Records /\ ReturnsASplit

-----------------------------------------------------------------------------
(* What a step has to keep for each part of the records.                    *)

\* Nav2 does not take back what it ended.
EndedStays == \A g \in Goal : server[g] \in Ended => server'[g] = server[g]

\* Asking is for ever.
AsksStay == \A g \in Goal : context'[g].cancelRequested = context[g].cancelRequested

RefusalsStay == \A g \in Goal : refused'[g] => refused[g]

LEMMA AgreesStays ==
  ASSUME AsksAgree, AsksStay, RefusalsStay, cancelCall' = cancelCall, server' = server
  PROVE  AsksAgree'
BY DEF AsksAgree, AsksStay, RefusalsStay

\* A new result of a cancel is that of a goal Nav2 has cancelled.
ResultStep ==
  \A r \in Robot :
    result'[r] \in {"cancelled", "timed_out"} =>
      \/ result'[r] = result[r]
      \/ Stopping' /\ r \notin todo' /\ token'[r] \in Goal /\ server'[token'[r]] = "canceled"

LEMMA StopStep ==
  ASSUME StopInv, AsksAgree', EndedStays, ResultStep,
         Stopping => Stopping' /\ todo' \subseteq todo /\ \A r \in Robot \ todo : token'[r] = token[r],
         ~Stopping' => AsksStay /\ Under' \subseteq pending'
  PROVE  StopInv'
<1>1. \A g \in Goal : context'[g].cancelRequested => Stopping'
  BY DEF StopInv, AsksStay
<1>2. ASSUME NEW r \in Robot, result'[r] \in {"cancelled", "timed_out"}
      PROVE  Stopping' /\ r \notin todo' /\ token'[r] \in Goal /\ server'[token'[r]] = "canceled"
  <2>1. CASE result'[r] = result[r]
    <3>1. Stopping /\ r \notin todo /\ token[r] \in Goal /\ server[token[r]] = "canceled"
      BY <1>2, <2>1 DEF StopInv
    <3>2. Stopping' /\ r \notin todo' /\ token'[r] = token[r]
      BY <3>1
    <3>3. server'[token[r]] = "canceled"
      BY <3>1 DEF EndedStays, Ended
    <3> QED  BY <3>1, <3>2, <3>3
  <2> QED  BY <1>2, <2>1 DEF ResultStep
<1> QED  BY <1>1, <1>2 DEF StopInv

LEMMA TimeoutStep ==
  ASSUME TimeoutInv,
         \A r \in Robot : final'[r].status # "timed_out",
         \A r \in Robot : TimedOut(r)' => TimedOut(r),
         pc \in {"wait", "done"} =>
           pc' \in {"wait", "done"} /\ (root \in Robot => root' = root)
  PROVE  TimeoutInv'
<1>1. ASSUME NEW r \in Robot, TimedOut(r)' PROVE r = root' /\ pc' \in {"wait", "done"}
  <2>1. r = root /\ pc \in {"wait", "done"}
    BY <1>1 DEF TimeoutInv
  <2> QED  BY <2>1
<1> QED  BY <1>1 DEF TimeoutInv

\* A counted goal is one of the plan.
LEMMA CountedIsGoal ==
  ASSUME IInv, NEW r \in Robot, NEW i \in 1 .. completed[r]
  PROVE  Work[r][i] \in Goal /\ i \in Nat /\ i <= done[r]
<1>1. /\ completed[r] \in Nat /\ done[r] \in Nat /\ Len(Work[r]) \in Nat
      /\ completed[r] <= done[r] /\ done[r] <= Len(Work[r])
  BY WorkFacts DEF IInv, TypeOK, FleetTypeOK, SchedulerTypeOK, SchedulerInv, CountInv
<1>2. i \in 1 .. Len(Work[r]) /\ i \in Nat /\ i <= done[r]
  BY <1>1
<1> QED  BY <1>2, WorkFacts, OwnerAssumption

LEMMA DoneStep ==
  ASSUME IInv, DoneInv, EndedStays, completed' = completed,
         \A r \in Robot : HasWork(r)' => HasWork(r) /\ done'[r] = done[r]
  PROVE  DoneInv'
<1>1. ASSUME NEW r \in Robot, NEW i \in 1 .. completed[r]
      PROVE  server'[Work[r][i]] = "succeeded"
  BY CountedIsGoal DEF DoneInv, EndedStays, Ended
<1>2. \A r \in Robot : HasWork(r)' => completed'[r] = done'[r]
  BY DEF DoneInv
<1>3. \A r \in Robot : \A i \in 1 .. completed'[r] : server'[Work[r][i]] = "succeeded"
  BY <1>1
<1> QED  BY <1>2, <1>3 DEF DoneInv

LEMMA QueueStep ==
  ASSUME QueueInv, UNCHANGED <<done, popped, cleared>>, active \subseteq active',
         NobodyAbandoned' => NobodyAbandoned,
         pc' \in {"dispatch", "spin"} => pc \in {"dispatch", "spin"} \/ active' # {}
  PROVE  QueueInv'
<1>1. \A r \in cleared' : Slot(Current(r)') <= popped'[HeldBy(r)']
  BY DEF QueueInv, Current, HeldBy
<1>2. ASSUME NobodyAbandoned'
      PROVE  /\ \A g \in Goal : Place(g) <= done'[Owner(g)] => Slot(g) <= popped'[ReservationOf[g]]
             /\ pc' \in {"dispatch", "spin"} => active' # {}
  BY <1>2 DEF QueueInv
<1> QED  BY <1>1, <1>2 DEF QueueInv

\* Steps that leave the robots' records alone.
Quiet ==
  /\ UNCHANGED <<schedulerVars, fleetVars, todo>>
  /\ AsksAgree' /\ AsksStay /\ EndedStays
  /\ pc \in {"wait", "done"} => pc' \in {"wait", "done"}
  /\ pc' \in {"dispatch", "spin"} => pc \in {"dispatch", "spin"}

LEMMA QuietRecords ==
  ASSUME IInv, Records, Quiet
  PROVE  Records'
<1>1. /\ done' = done /\ popped' = popped /\ active' = active /\ cleared' = cleared
      /\ token' = token /\ pending' = pending /\ result' = result /\ todo' = todo
      /\ cancelStatus' = cancelStatus /\ root' = root /\ completed' = completed
      /\ final' = final /\ stopRequested' = stopRequested
  BY DEF Quiet, schedulerVars, fleetVars
<1>2. StopInv'
  <2>1. ResultStep
    BY <1>1 DEF ResultStep
  <2>2. (Stopping' <=> Stopping) /\ Under' = Under
    BY <1>1 DEF Stopping, Under
  <2>3. ~Stopping' => AsksStay /\ Under' \subseteq pending'
    BY <1>1, <2>2 DEF Records, StopInv, Quiet
  <2>4. Stopping => /\ Stopping' /\ todo' \subseteq todo
                    /\ \A r \in Robot \ todo : token'[r] = token[r]
    BY <1>1, <2>2
  <2>5. StopInv /\ AsksAgree' /\ EndedStays
    BY DEF Quiet, Records
  <2> QED  BY <2>1, <2>3, <2>4, <2>5, StopStep
<1>3. TimeoutInv'
  <2>1. \A r \in Robot : final'[r].status # "timed_out" /\ (TimedOut(r)' => TimedOut(r))
    BY <1>1 DEF TimedOut, Records, TimeoutInv
  <2> QED  BY <1>1, <2>1, TimeoutStep DEF Quiet, Records
<1>4. DoneInv'
  <2>1. \A r \in Robot : HasWork(r)' => HasWork(r) /\ done'[r] = done[r]
    BY <1>1 DEF HasWork
  <2> QED  BY <1>1, <2>1, DoneStep DEF Quiet, Records
<1>5. QueueInv'
  BY <1>1, QueueStep DEF Quiet, Records, NobodyAbandoned
<1> QED  BY <1>2, <1>3, <1>4, <1>5 DEF Records

-----------------------------------------------------------------------------
(* Nobody waits for a reservation that nobody will give back.               *)

\* Goals that come later in the plan stand behind the earlier ones.
LEMMA LaterInPlan ==
  ASSUME NEW s \in Seq(PlanGoal), InPlanOrder(s),
         NEW i \in DOMAIN s, NEW j \in DOMAIN s
  PROVE  /\ Rank[s[i]] \in Nat /\ Rank[s[j]] \in Nat
         /\ i < j => Rank[s[i]] < Rank[s[j]]
BY PlanAssumption DEF InPlanOrder

\* When nobody is active, the robot whose next goal comes first in the plan is
\* at the head of its queue.
LEMMA SomebodyIsReady ==
  ASSUME IInv, QueueInv, NobodyAbandoned, active = {}, ~Complete
  PROVE  Ready # {}
<1> DEFINE Idle == {r \in Robot : HasWork(r)}
           Ranks == {Rank[Current(r)] : r \in Idle}
<1>1. \A r \in Idle : /\ r \in Robot /\ done[r] \in Nat /\ HasWork(r)
                      /\ Current(r) \in PlanGoal /\ Owner(Current(r)) = r
                      /\ Place(Current(r)) = done[r] + 1
                      /\ HeldBy(r) \in Reservation /\ HeldBy(r) = ReservationOf[Current(r)]
  BY CurrentFacts DEF IInv, SchedulerInv, SchedulerTypeOK, HeldBy, Idle
<1>2. Idle # {}
  BY DEF Complete, Idle
<1> HIDE DEF Idle
<1>3. Ranks \in SUBSET Nat /\ Ranks # {}
  <2>1. \A r \in Idle : Rank[Current(r)] \in Nat
    BY <1>1, PlanAssumption
  <2> QED  BY <1>2, <2>1
<1>4. PICK r \in Idle : \A s \in Idle : Rank[Current(r)] <= Rank[Current(s)]
  <2>1. PICK x \in Ranks : \A y \in Ranks : x <= y
    BY <1>3, LeastExists
  <2> QED  BY <2>1
<1> DEFINE c == Current(r)
           q == HeldBy(r)
<1>5. /\ c \in PlanGoal /\ Owner(c) = r /\ Place(c) = done[r] + 1 /\ done[r] \in Nat
      /\ q \in Reservation /\ q = ReservationOf[c]
  BY <1>1
<1>6. /\ Slot(c) \in 1 .. Len(Queue[q]) /\ Len(Queue[q]) \in Nat /\ Queue[q][Slot(c)] = c
      /\ popped[q] \in Nat
  BY <1>5, GoalFacts, QueueFacts DEF IInv, SchedulerInv, SchedulerTypeOK
<1>7. popped[q] + 1 <= Slot(c)
  <2>1. cleared = {}
    BY DEF IInv, SchedulerInv
  <2>2. ~ Gone(c)
    BY <1>5, <2>1 DEF Gone
  <2>3. ~ Slot(c) <= popped[q]
    BY <1>5, <2>2 DEF IInv, SchedulerInv
  <2> QED  BY <1>6, <2>3
<1> DEFINE h == Queue[q][popped[q] + 1]
           s == Owner(h)
<1>8. popped[q] + 1 \in 1 .. Len(Queue[q])
  BY <1>6, <1>7
<1>9. h \in PlanGoal /\ ReservationOf[h] = q /\ Slot(h) = popped[q] + 1
  BY <1>5, <1>8, QueueFacts, SlotIsIndex
<1>10. /\ s \in Robot /\ Place(h) \in 1 .. Len(Work[s]) /\ Work[s][Place(h)] = h
       /\ Len(Work[s]) \in Nat /\ done[s] \in Nat
  BY <1>9, GoalFacts, WorkFacts DEF IInv, SchedulerInv, SchedulerTypeOK
<1>11. ~ Place(h) <= done[s]
  <2>1. SUFFICES ASSUME Place(h) <= done[s] PROVE FALSE
    OBVIOUS
  <2>2. Slot(h) <= popped[ReservationOf[h]]
    BY <1>9, <2>1, OwnerAssumption DEF QueueInv
  <2> QED  BY <1>6, <1>9, <2>2
<1>12. s \in Idle /\ done[s] + 1 \in 1 .. Len(Work[s]) /\ done[s] + 1 <= Place(h)
  BY <1>10, <1>11 DEF HasWork, Idle
<1> HIDE DEF h, s
<1>13. Rank[Current(s)] <= Rank[h]
  <2>1. Work[s] \in Seq(PlanGoal) /\ InPlanOrder(Work[s]) /\ DOMAIN Work[s] = 1 .. Len(Work[s])
    BY <1>10, PlanAssumption, WorkFacts
  <2>2. CASE done[s] + 1 = Place(h)
    <3>1. Current(s) = h
      BY <1>10, <2>2 DEF Current
    <3> QED  BY <1>9, <3>1, PlanAssumption
  <2>3. CASE done[s] + 1 # Place(h)
    <3>1. done[s] + 1 < Place(h)
      BY <1>10, <1>12, <2>3
    <3>2. /\ Rank[Work[s][done[s] + 1]] \in Nat /\ Rank[Work[s][Place(h)]] \in Nat
          /\ Rank[Work[s][done[s] + 1]] < Rank[Work[s][Place(h)]]
      BY <1>10, <1>12, <2>1, <3>1, LaterInPlan
    <3> QED  BY <1>10, <3>2 DEF Current
  <2> QED  BY <2>2, <2>3
<1>14. popped[q] + 1 = Slot(c)
  <2>1. SUFFICES ASSUME popped[q] + 1 # Slot(c) PROVE FALSE
    OBVIOUS
  <2>2. popped[q] + 1 < Slot(c)
    BY <1>6, <1>7, <2>1
  <2>3. Queue[q] \in Seq(PlanGoal) /\ InPlanOrder(Queue[q]) /\ DOMAIN Queue[q] = 1 .. Len(Queue[q])
    BY <1>5, PlanAssumption, QueueFacts
  <2>4. /\ Rank[Queue[q][popped[q] + 1]] \in Nat /\ Rank[Queue[q][Slot(c)]] \in Nat
        /\ Rank[Queue[q][popped[q] + 1]] < Rank[Queue[q][Slot(c)]]
    BY <1>6, <1>8, <2>2, <2>3, LaterInPlan
  <2>5. Rank[h] < Rank[c] /\ Rank[h] \in Nat /\ Rank[c] \in Nat
    BY <1>6, <2>4 DEF h
  <2>6. Rank[c] <= Rank[Current(s)] /\ Rank[Current(s)] \in Nat
    BY <1>1, <1>4, <1>12, PlanAssumption
  <2> QED  BY <1>13, <2>5, <2>6
<1>15. AtHead(q, c)
  BY <1>5, <1>6, <1>14, HeadIsSlot
<1>16. r \in Ready
  BY <1>1, <1>15 DEF Ready, Claimed
<1> QED  BY <1>16

\* With no failure so far the loop never spins with nobody under way.
LEMMA ClaimRecords ==
  ASSUME IInv, Records, ClaimReady
  PROVE  Records'
<1>1. /\ active' = active \cup Ready /\ todo' = Ready /\ Ready \subseteq Robot \ active
      /\ done' = done /\ popped' = popped /\ cleared' = cleared
      /\ pc = "top" /\ pc' = "dispatch" /\ ~Stopping /\ ~Complete
      /\ context' = context /\ server' = server /\ cancelCall' = cancelCall /\ refused' = refused
      /\ token' = token /\ pending' = pending /\ result' = result
      /\ cancelStatus' = cancelStatus /\ root' = root /\ completed' = completed
      /\ final' = final /\ stopRequested' = stopRequested
  BY DEF ClaimReady, Claim, Ready, adapterVars, fleetVars
<1>2. todo = {} /\ Under' = Under
  BY <1>1 DEF IInv, FlightInv, Under
<1>3. EndedStays /\ AsksStay /\ AsksAgree'
  BY <1>1 DEF EndedStays, AsksStay, Records, StopInv, AsksAgree
<1>4. StopInv'
  <2>1. ResultStep
    BY <1>1 DEF ResultStep
  <2>2. Under' \subseteq pending'
    BY <1>1, <1>2 DEF Records, StopInv
  <2> QED  BY <1>1, <1>3, <2>1, <2>2, StopStep DEF Records
<1>5. TimeoutInv'
  <2>1. \A r \in Robot : final'[r].status # "timed_out" /\ (TimedOut(r)' => TimedOut(r))
    BY <1>1 DEF TimedOut, Records, TimeoutInv
  <2> QED  BY <1>1, <2>1, TimeoutStep DEF Records
<1>6. DoneInv'
  <2>1. \A r \in Robot : HasWork(r)' => HasWork(r) /\ done'[r] = done[r]
    BY <1>1 DEF HasWork
  <2> QED  BY <1>1, <1>3, <2>1, DoneStep DEF Records
<1>7. QueueInv'
  <2>1. NobodyAbandoned' => NobodyAbandoned
    BY <1>1 DEF NobodyAbandoned
  <2>2. NobodyAbandoned => active' # {}
    BY <1>1, SomebodyIsReady DEF Records
  <2>3. \A r \in cleared' : Slot(Current(r)') <= popped'[HeldBy(r)']
    BY <1>1 DEF Records, QueueInv, Current, HeldBy
  <2>4. ASSUME NobodyAbandoned'
        PROVE  /\ \A g \in Goal : Place(g) <= done'[Owner(g)] => Slot(g) <= popped'[ReservationOf[g]]
               /\ active' # {}
    BY <1>1, <2>1, <2>2, <2>4 DEF Records, QueueInv
  <2> QED  BY <2>3, <2>4 DEF QueueInv
<1> QED  BY <1>4, <1>5, <1>6, <1>7 DEF Records

LEMMA DispatchGoalRecords ==
  ASSUME IInv, Records, NEW r \in Robot, DispatchGoal(r)
  PROVE  Records'
<1> DEFINE c == Current(r)
<1>1. r \in todo /\ r \in active /\ pc = "dispatch"
  BY FirstIsIn DEF DispatchGoal, IInv, TypeOK, LoopTypeOK, FlightInv
<1>2. /\ pc' = pc /\ Dispatch(c) /\ token' = [token EXCEPT ![r] = c]
      /\ pending' = pending \cup {r} /\ todo' = todo \ {r}
      /\ done' = done /\ popped' = popped /\ active' = active /\ cleared' = cleared
      /\ result' = result /\ cancelStatus' = cancelStatus /\ root' = root
      /\ completed' = completed /\ final' = final /\ stopRequested' = stopRequested
  BY DEF DispatchGoal, schedulerVars
<1>3. /\ c \in Goal /\ Owner(c) = r /\ Place(c) = done[r] + 1 /\ done[r] \in Nat
      /\ token \in [Robot -> Goal \cup {NoGoal}]
  BY <1>1, RobotFacts DEF IInv, TypeOK, FleetTypeOK
<1>4. server[c] = "idle"
  BY <1>1, <1>3 DEF IInv, OrderInv, Under
<1>5. /\ \A h \in Goal \ {c} : server'[h] = server[h]
      /\ server'[c] = "requested"
      /\ \A h \in Goal : context'[h].cancelRequested = context[h].cancelRequested
      /\ cancelCall' = cancelCall /\ refused' = refused
  BY <1>2, <1>3, DispatchFacts DEF IInv, TypeOK
<1>6. EndedStays /\ AsksStay /\ AsksAgree'
  BY <1>4, <1>5 DEF EndedStays, Ended, AsksStay, Records, StopInv, AsksAgree
<1>7. StopInv'
  <2>1. ResultStep
    BY <1>2 DEF ResultStep
  <2>2. Stopping => /\ Stopping' /\ todo' \subseteq todo
                    /\ \A s \in Robot \ todo : token'[s] = token[s]
    BY <1>1, <1>2, <1>3 DEF Stopping
  <2>3. ~Stopping' => AsksStay /\ Under' \subseteq pending'
    BY <1>2, <1>6 DEF Stopping, Under, Records, StopInv
  <2> QED  BY <1>6, <2>1, <2>2, <2>3, StopStep DEF Records
<1>8. TimeoutInv'
  <2>1. \A s \in Robot : final'[s].status # "timed_out" /\ (TimedOut(s)' => TimedOut(s))
    BY <1>2 DEF TimedOut, Records, TimeoutInv
  <2> QED  BY <1>1, <1>2, <2>1, TimeoutStep DEF Records
<1>9. DoneInv'
  <2>1. \A s \in Robot : HasWork(s)' => HasWork(s) /\ done'[s] = done[s]
    BY <1>2 DEF HasWork
  <2> QED  BY <1>2, <1>6, <2>1, DoneStep DEF Records
<1>10. QueueInv'
  BY <1>1, <1>2, QueueStep DEF Records, NobodyAbandoned
<1> QED  BY <1>7, <1>8, <1>9, <1>10 DEF Records

-----------------------------------------------------------------------------
(* Robots that are abandoned, and stops of the fleet.                       *)

\* An abandoned robot leaves what is counted and what is cleared in order.
LEMMA AbandonRecords ==
  ASSUME IInv, Records, NEW r \in active, Abandon(r), completed' = completed, EndedStays,
         ~NobodyAbandoned'
  PROVE  DoneInv' /\ QueueInv'
<1>1. /\ done \in [Robot -> Nat] /\ r \in Robot /\ cleared \subseteq Robot
      /\ done' = [done EXCEPT ![r] = Len(Work[r])] /\ Len(Work[r]) \in Nat
      /\ cleared' = cleared \ {r} /\ popped' = popped
  BY WorkFacts DEF Abandon, IInv, TypeOK, SchedulerTypeOK
<1>2. ASSUME NEW s \in Robot, HasWork(s)' PROVE HasWork(s) /\ done'[s] = done[s]
  <2>1. s # r
    BY <1>1, <1>2 DEF HasWork
  <2> QED  BY <1>1, <1>2, <2>1, OthersCurrent
<1>3. DoneInv'
  BY <1>2, DoneStep DEF Records
<1>4. ASSUME NEW s \in cleared' PROVE Slot(Current(s)') <= popped'[HeldBy(s)']
  <2>1. s \in cleared /\ s # r /\ s \in Robot
    BY <1>1
  <2>2. Current(s)' = Current(s) /\ HeldBy(s)' = HeldBy(s)
    BY <1>1, <2>1, OthersCurrent
  <2> QED  BY <1>1, <2>1, <2>2 DEF Records, QueueInv
<1> QED  BY <1>3, <1>4 DEF QueueInv

LEMMA DispatchFailsAloneRecords ==
  ASSUME IInv, Records, NEW r \in Robot, DispatchFailsAlone(r)
  PROVE  Records'
<1>1. r \in todo /\ r \in active /\ pc = "dispatch"
  BY FirstIsIn DEF DispatchFailsAlone, IInv, TypeOK, LoopTypeOK, FlightInv
<1>2. /\ pc' = pc /\ Abandon(r) /\ todo' = todo \ {r} /\ active' = active \ {r}
      /\ final' = [final EXCEPT ![r] = AbandonedReport(r, "rejected")]
      /\ context' = context /\ server' = server /\ cancelCall' = cancelCall /\ refused' = refused
      /\ token' = token /\ pending' = pending /\ result' = result
      /\ cancelStatus' = cancelStatus /\ root' = root /\ completed' = completed
      /\ stopRequested' = stopRequested
  BY DEF DispatchFailsAlone, Abandon, adapterVars
<1>3. EndedStays /\ AsksStay /\ AsksAgree'
  BY <1>2 DEF EndedStays, AsksStay, Records, StopInv, AsksAgree
<1>4. final'[r].status = "rejected" /\ final \in [Robot -> SkippedReport \cup {NoReport}]
  BY <1>2 DEF IInv, TypeOK, FleetTypeOK, AbandonedReport
<1>5. StopInv'
  <2>1. ResultStep
    BY <1>2 DEF ResultStep
  <2>2. ~Stopping' => AsksStay /\ Under' \subseteq pending'
    BY <1>2, <1>3 DEF Stopping, Under, Records, StopInv
  <2>3. Stopping => Stopping'
    BY <1>2 DEF Stopping
  <2> QED  BY <1>2, <1>3, <2>1, <2>2, <2>3, StopStep DEF Records
<1>6. TimeoutInv'
  <2>1. \A s \in Robot : final'[s].status # "timed_out"
    BY <1>2, <1>4 DEF Records, TimeoutInv
  <2>2. \A s \in Robot : TimedOut(s)' => TimedOut(s)
    BY <1>2 DEF TimedOut
  <2> QED  BY <1>1, <1>2, <2>1, <2>2, TimeoutStep DEF Records
<1>7. ~NobodyAbandoned'
  BY <1>4 DEF NobodyAbandoned, NoReport, None
<1> QED  BY <1>1, <1>2, <1>3, <1>5, <1>6, <1>7, AbandonRecords DEF Records

\* Cancelling robots that are waited for.
LEMMA CancelRecords ==
  ASSUME IInv, Records, NEW S \in SUBSET pending, NEW ctx \in [Goal -> Context],
         NEW why, NEW res,
         \A g \in Goal : ctx[g].cancelRequested = context[g].cancelRequested,
         CancelPending(S, why, ctx, res), server' = server, RefusalsStay
  PROVE  /\ AsksAgree'
         /\ \A r \in Robot : /\ result'[r] \in {"cancel_failed", res[r]}
                             /\ cancelStatus'[r] \in {why[r], cancelStatus[r]}
<1>1. /\ AdapterTypeOK /\ AsksAgree /\ cancelCall \in [Goal -> Nat]
      /\ S \in SUBSET Robot /\ \A r \in S : token[r] \in Goal /\ token[r].robot = r
  BY PendingFacts DEF IInv, TypeOK, AdapterTypeOK, FleetTypeOK, Records, StopInv
<1>2. PICK X \in SUBSET S : ToldToStop(S, X, why, ctx, res)
  BY <1>1, CancelPendingStep
<1>3. AsksAgree'
  BY <1>1, <1>2, CancelAgrees DEF RefusalsStay
<1> QED  BY <1>2, <1>3 DEF ToldToStop

\* A stop of the whole fleet, for whatever reason, gives nobody a result that
\* claims a cancellation.
LEMMA FleetStops ==
  ASSUME Records, Stopping', AsksAgree', EndedStays, todo' \subseteq todo, token' = token,
         \A r \in Robot : result'[r] \in {"cancel_failed", "failed", "rejected", result[r]}
  PROVE  StopInv'
<1>1. ResultStep
  BY DEF ResultStep
<1> QED  BY <1>1, StopStep DEF Records

\* Nor does it say that a robot timed out, if the robots are told "cancelled".
LEMMA NobodyElseTimedOut ==
  ASSUME Records, final' = final,
         \A r \in Robot : /\ result'[r] \in {"cancel_failed", "failed", "rejected", result[r]}
                          /\ cancelStatus'[r] \in {"cancelled", "failed", cancelStatus[r]},
         pc \in {"wait", "done"} =>
           pc' \in {"wait", "done"} /\ (root \in Robot => root' = root)
  PROVE  TimeoutInv'
<1>1. \A r \in Robot : TimedOut(r)' => TimedOut(r)
  BY DEF TimedOut
<1>2. \A r \in Robot : final'[r].status # "timed_out"
  BY DEF Records, TimeoutInv
<1> QED  BY <1>1, <1>2, TimeoutStep DEF Records

LEMMA DispatchFailsRootRecords ==
  ASSUME IInv, Records, NEW r \in Robot, DispatchFailsRoot(r)
  PROVE  Records'
<1> DEFINE res == [result EXCEPT ![r] = "rejected"]
<1>1. r \in todo /\ r \in active /\ pc = "dispatch"
  BY FirstIsIn DEF DispatchFailsRoot, IInv, TypeOK, LoopTypeOK, FlightInv
<1>2. /\ pc' = pc /\ Abandon(r) /\ todo' = todo \ {r} /\ root' = r
      /\ CancelPending(pending, All("cancelled"), context, res)
      /\ server' = server /\ refused' = refused /\ token' = token /\ completed' = completed
      /\ final' = final
  BY DEF DispatchFailsRoot
<1>3. Stopping' /\ ~NobodyAbandoned'
  BY <1>2, RobotsAssumption DEF Stopping, NobodyAbandoned
<1>4. context \in [Goal -> Context] /\ result \in [Robot -> Status \cup {None}]
  BY DEF IInv, TypeOK, AdapterTypeOK, FleetTypeOK
<1>5. /\ AsksAgree'
      /\ \A s \in Robot : /\ result'[s] \in {"cancel_failed", res[s]}
                          /\ cancelStatus'[s] \in {All("cancelled")[s], cancelStatus[s]}
  BY <1>2, <1>4, CancelRecords DEF RefusalsStay
<1>6. \A s \in Robot : /\ result'[s] \in {"cancel_failed", "failed", "rejected", result[s]}
                       /\ cancelStatus'[s] \in {"cancelled", "failed", cancelStatus[s]}
  BY <1>4, <1>5 DEF All
<1>7. EndedStays
  BY <1>2 DEF EndedStays
<1>8. StopInv'
  BY <1>2, <1>3, <1>5, <1>6, <1>7, FleetStops
<1>9. TimeoutInv'
  BY <1>1, <1>2, <1>6, NobodyElseTimedOut
<1>10. DoneInv' /\ QueueInv'
  BY <1>1, <1>2, <1>3, <1>7, AbandonRecords
<1> QED  BY <1>8, <1>9, <1>10 DEF Records

-----------------------------------------------------------------------------
(* What the outcome methods record.                                         *)

\* A goal that Nav2 finished is counted, and its place in the queue given up.
LEMMA SucceededRecords ==
  ASSUME IInv, Records, NEW r \in Robot, r \in active, NEW g \in Goal, g = Current(r),
         server[g] = "succeeded", server' = server, Release(r),
         completed' = [completed EXCEPT ![r] = @ + 1], UNCHANGED <<root, final>>,
         pc' \notin {"dispatch", "spin"}
  PROVE  DoneInv' /\ QueueInv'
<1>1. /\ done \in [Robot -> Nat] /\ popped \in [Reservation -> Nat]
      /\ completed \in [Robot -> Nat] /\ cleared \subseteq active /\ active \subseteq Robot
      /\ HasWork(r) /\ Owner(g) = r /\ Place(g) = done[r] + 1 /\ HeldBy(r) \in Reservation
      /\ ReservationOf[g] = HeldBy(r) /\ g \in PlanGoal
  BY RobotFacts, OwnerAssumption
    DEF IInv, TypeOK, SchedulerTypeOK, FleetTypeOK, SchedulerInv, HeldBy
<1>2. /\ done' = [done EXCEPT ![r] = @ + 1] /\ cleared' = cleared \ {r}
      /\ popped' = IF r \in cleared THEN popped ELSE [popped EXCEPT ![HeldBy(r)] = @ + 1]
  BY DEF Release
<1>3. completed[r] = done[r]
  BY <1>1 DEF Records, DoneInv
<1>4. DoneInv'
  <2>1. ASSUME NEW s \in Robot, HasWork(s)' PROVE completed'[s] = done'[s]
    <3>1. CASE s = r
      BY <1>1, <1>2, <1>3, <3>1
    <3>2. CASE s # r
      <4>1. HasWork(s) /\ done'[s] = done[s]
        BY <1>1, <1>2, <2>1, <3>2, OthersCurrent
      <4> QED  BY <1>1, <3>2, <4>1 DEF Records, DoneInv
    <3> QED  BY <3>1, <3>2
  <2>2. ASSUME NEW s \in Robot, NEW i \in 1 .. completed'[s]
        PROVE  server'[Work[s][i]] = "succeeded"
    <3>1. CASE i \in 1 .. completed[s]
      BY <3>1 DEF Records, DoneInv
    <3>2. CASE i \notin 1 .. completed[s]
      <4>1. s = r
        BY <1>1, <3>2
      <4>2. i = done[r] + 1
        BY <1>1, <1>3, <3>2, <4>1
      <4> QED  BY <4>1, <4>2 DEF Current
    <3> QED  BY <3>1, <3>2
  <2> QED  BY <2>1, <2>2 DEF DoneInv
<1>5. \A q \in Reservation : popped'[q] \in Nat /\ popped[q] <= popped'[q]
  BY <1>1, <1>2
<1>6. Slot(g) <= popped'[HeldBy(r)]
  <2>1. CASE r \in cleared
    BY <1>1, <1>2, <2>1 DEF Records, QueueInv
  <2>2. CASE r \notin cleared
    <3>1. Slot(g) = popped[HeldBy(r)] + 1
      BY <2>2 DEF IInv, SchedulerInv
    <3> QED  BY <1>1, <1>2, <2>2, <3>1
  <2> QED  BY <2>1, <2>2
<1>7. ASSUME NEW s \in cleared' PROVE Slot(Current(s)') <= popped'[HeldBy(s)']
  <2>1. s \in cleared /\ s # r /\ s \in Robot /\ s \in active
    BY <1>1, <1>2
  <2>2. Current(s)' = Current(s) /\ HeldBy(s)' = HeldBy(s)
    BY <1>1, <1>2, <2>1, OthersCurrent
  <2>3. HeldBy(s) \in Reservation /\ Current(s) \in Goal /\ ReservationOf[Current(s)] = HeldBy(s)
    BY <2>1, RobotFacts DEF HeldBy
  <2>4. Slot(Current(s)) <= popped[HeldBy(s)] /\ Slot(Current(s)) \in Nat
    BY <2>1, <2>3, HasLeftIsSlot DEF Records, QueueInv
  <2> QED  BY <1>1, <1>5, <2>2, <2>3, <2>4
<1>8. ASSUME NobodyAbandoned', NEW h \in Goal, Place(h) <= done'[Owner(h)]
      PROVE  Slot(h) <= popped'[ReservationOf[h]]
  <2>1. /\ Owner(h) \in Robot /\ Place(h) \in Nat /\ Slot(h) \in Nat
        /\ ReservationOf[h] \in Reservation /\ h \in PlanGoal
        /\ Work[Owner(h)][Place(h)] = h
    BY OwnerAssumption, GoalFacts, WorkFacts, QueueFacts
  <2>2. CASE Place(h) <= done[Owner(h)]
    <3>1. Slot(h) <= popped[ReservationOf[h]]
      BY <1>8, <2>2 DEF Records, QueueInv, NobodyAbandoned
    <3> QED  BY <1>1, <1>5, <2>1, <3>1
  <2>3. CASE ~ Place(h) <= done[Owner(h)]
    <3>1. Owner(h) = r
      BY <1>1, <1>2, <1>8, <2>1, <2>3
    <3>2. Place(h) = done[r] + 1
      BY <1>1, <1>2, <1>8, <2>1, <2>3, <3>1
    <3>3. h = g
      BY <2>1, <3>1, <3>2 DEF Current
    <3> QED  BY <1>1, <1>6, <3>3
  <2> QED  BY <2>2, <2>3
<1>9. QueueInv'
  BY <1>7, <1>8 DEF QueueInv
<1> QED  BY <1>4, <1>9

LEMMA ResolveRecords ==
  ASSUME IInv, Records, NEW r \in pending, NEW g \in Goal, token[r] = g, g.robot = r, Tracked(g),
         NEW outcome, Told(g, outcome), Resolve(r, outcome, Pop(context, g)),
         RefusalsStay, UNCHANGED <<server, todo>>,
         pc \in {"spin", "wait"}, pc' \in {"check", "wait"}, pc = "wait" => pc' = "wait"
  PROVE  Records'
<1> DEFINE ctx == Pop(context, g)
<1>1. /\ r \in Robot /\ r \in active /\ g = Current(r) /\ AdapterTypeOK
      /\ token \in [Robot -> Goal \cup {NoGoal}] /\ pending \subseteq Robot /\ r \notin todo
      /\ result \in [Robot -> Status \cup {None}] /\ final \in [Robot -> SkippedReport \cup {NoReport}]
      /\ AsksAgree
  BY PendingFacts DEF IInv, TypeOK, FleetTypeOK, Records, StopInv
<1>2. /\ ctx \in [Goal -> Context]
      /\ \A h \in Goal : ctx[h].cancelRequested = context[h].cancelRequested
  BY <1>1, PopFacts
<1> HIDE DEF ctx
<1>3. EndedStays
  BY DEF EndedStays
<1>4. ASSUME context' = ctx, cancelCall' = cancelCall
      PROVE  AsksStay /\ AsksAgree'
  <2>1. AsksStay
    BY <1>2, <1>4 DEF AsksStay
  <2> QED  BY <1>1, <1>4, <2>1, AgreesStays
\* One robot ends without a cancel.
<1>5. ASSUME context' = ctx, active' = active \ {r}, pending' = pending \ {r},
             UNCHANGED <<cancelCall, token, cancelStatus, root, stopRequested>>,
             NEW as \in {"succeeded", "failed", "rejected"},
             result' = [result EXCEPT ![r] = as],
             \A s \in Robot : final'[s].status # "timed_out"
      PROVE  StopInv' /\ TimeoutInv'
  <2>1. ResultStep
    BY <1>1, <1>5 DEF ResultStep
  <2>2. Stopping' <=> Stopping
    BY <1>5 DEF Stopping
  <2>3. ~Stopping' => AsksStay /\ Under' \subseteq pending'
    BY <1>4, <1>5, <2>2 DEF Under, Records, StopInv
  <2>4. StopInv'
    BY <1>3, <1>4, <1>5, <2>1, <2>2, <2>3, StopStep DEF Records
  <2>5. \A s \in Robot : TimedOut(s)' => TimedOut(s)
    BY <1>1, <1>5 DEF TimedOut
  <2>6. TimeoutInv'
    BY <1>5, <2>5, TimeoutStep DEF Records
  <2> QED  BY <2>4, <2>6
<1>6. CASE outcome = "navigation_succeeded"
  <2>1. NavigationSucceeded(r, ctx)
    BY <1>6 DEF Resolve, ctx
  <2>2. /\ Release(r) /\ completed' = [completed EXCEPT ![r] = @ + 1]
        /\ active' = active \ {r} /\ result' = [result EXCEPT ![r] = "succeeded"]
        /\ pending' = pending \ {r} /\ context' = ctx
        /\ UNCHANGED <<cancelCall, token, cancelStatus, root, final, stopRequested>>
    BY <2>1 DEF NavigationSucceeded, Release
  <2>3. StopInv' /\ TimeoutInv'
    BY <1>5, <2>2 DEF Records, TimeoutInv
  <2>4. server[g] = "succeeded"
    BY <1>6 DEF Told
  <2>5. DoneInv' /\ QueueInv'
    BY <1>1, <2>2, <2>4, SucceededRecords
  <2> QED  BY <2>3, <2>5 DEF Records
<1>7. ASSUME NEW as \in {"failed", "rejected"}, NavigationFailedAlone(r, as, ctx)
      PROVE  Records'
  <2>1. /\ Abandon(r) /\ active' = active \ {r}
        /\ final' = [final EXCEPT ![r] = AbandonedReport(r, as)]
        /\ result' = [result EXCEPT ![r] = as] /\ pending' = pending \ {r} /\ context' = ctx
        /\ UNCHANGED <<cancelCall, token, cancelStatus, root, completed, stopRequested>>
    BY <1>7 DEF NavigationFailedAlone, Abandon
  <2>2. final'[r].status = as /\ \A s \in Robot \ {r} : final'[s] = final[s]
    BY <1>1, <2>1 DEF AbandonedReport
  <2>3. \A s \in Robot : final'[s].status # "timed_out"
    BY <2>2 DEF Records, TimeoutInv
  <2>4. StopInv' /\ TimeoutInv'
    BY <1>5, <2>1, <2>3
  <2>5. ~NobodyAbandoned'
    <3>1. NoReport.status = "none"
      BY DEF NoReport, None
    <3>2. final'[r] # NoReport
      BY <2>2, <3>1
    <3> QED  BY <1>1, <3>2 DEF NobodyAbandoned
  <2>6. DoneInv' /\ QueueInv'
    BY <1>1, <1>3, <2>1, <2>5, AbandonRecords
  <2> QED  BY <2>4, <2>6 DEF Records
\* What is done and queued when the scheduler is left alone.
<1>8. ASSUME UNCHANGED <<schedulerVars, completed, final>>, NobodyAbandoned' => NobodyAbandoned
      PROVE  DoneInv' /\ QueueInv'
  <2>1. done' = done /\ popped' = popped /\ active' = active /\ cleared' = cleared
    BY <1>8 DEF schedulerVars
  <2>2. \A s \in Robot : HasWork(s)' => HasWork(s) /\ done'[s] = done[s]
    BY <2>1 DEF HasWork
  <2>3. DoneInv'
    BY <1>3, <1>8, <2>2, DoneStep DEF Records
  <2>4. QueueInv'
    BY <1>8, <2>1, QueueStep DEF Records
  <2> QED  BY <2>3, <2>4
<1>9. ASSUME NEW as \in {"failed", "rejected"}, NavigationFailedRoot(r, as, ctx)
      PROVE  Records'
  <2> DEFINE res == [result EXCEPT ![r] = as]
             S == pending \ {r}
  <2>1. /\ root = None /\ root' = r
        /\ CancelPending(S, All("cancelled"), ctx, res)
        /\ UNCHANGED <<schedulerVars, token, completed, final, origin, stopRequested>>
    BY <1>9 DEF NavigationFailedRoot
  <2>2. S \in SUBSET pending
    OBVIOUS
  <2> HIDE DEF S
  <2>3. /\ AsksAgree'
        /\ \A s \in Robot : /\ result'[s] \in {"cancel_failed", res[s]}
                            /\ cancelStatus'[s] \in {All("cancelled")[s], cancelStatus[s]}
    BY <1>2, <2>1, <2>2, CancelRecords
  <2>4. \A s \in Robot : /\ result'[s] \in {"cancel_failed", "failed", "rejected", result[s]}
                         /\ cancelStatus'[s] \in {"cancelled", "failed", cancelStatus[s]}
    BY <1>1, <2>3 DEF All
  <2>5. Stopping' /\ ~NobodyAbandoned' /\ root \notin Robot
    BY <1>1, <2>1, RobotsAssumption DEF Stopping, NobodyAbandoned
  <2>6. StopInv'
    BY <1>3, <2>1, <2>3, <2>4, <2>5, FleetStops
  <2>7. TimeoutInv'
    BY <2>1, <2>4, <2>5, NobodyElseTimedOut
  <2> QED  BY <1>8, <2>1, <2>5, <2>6, <2>7 DEF Records
\* One robot ends, in a stop of the fleet.
<1>10. ASSUME context' = ctx, pending' = pending \ {r}, Stopping,
              UNCHANGED <<schedulerVars, cancelCall, token, cancelStatus, root, completed,
                          final, origin, stopRequested>>,
              NEW as, result' = [result EXCEPT ![r] = as],
              as \in {"cancelled", "timed_out"} => server[g] = "canceled",
              as = "timed_out" => cancelStatus[r] = "timed_out"
       PROVE  Records'
  <2>1. Stopping'
    BY <1>10 DEF Stopping
  <2>2. ResultStep
    BY <1>1, <1>10, <2>1 DEF ResultStep
  <2>3. StopInv'
    BY <1>3, <1>4, <1>10, <2>1, <2>2, StopStep DEF Records
  <2>4. \A s \in Robot : TimedOut(s)' => TimedOut(s)
    BY <1>1, <1>10 DEF TimedOut
  <2>5. TimeoutInv'
    BY <1>10, <2>4, TimeoutStep DEF Records, TimeoutInv
  <2>6. DoneInv' /\ QueueInv'
    BY <1>8, <1>10 DEF NobodyAbandoned
  <2> QED  BY <2>3, <2>5, <2>6 DEF Records
<1>11. ASSUME NEW as \in {"failed", "rejected"}, NavigationFailed(r, as, ctx)
       PROVE  Records'
  <2>1. CASE NavigationFailedLate(r, ctx)
    <3>1. /\ result' = [result EXCEPT ![r] = "cancel_failed"] /\ pending' = pending \ {r}
          /\ context' = ctx /\ Stopping
          /\ UNCHANGED <<schedulerVars, cancelCall, token, cancelStatus, root, completed,
                         final, origin, stopRequested>>
      BY <2>1 DEF NavigationFailedLate, Stopping
    <3> QED  BY <1>10, <3>1
  <2> QED  BY <1>7, <1>9, <1>11, <2>1 DEF NavigationFailed
<1>12. ASSUME NEW as, CancellationResolved(r, as, ctx), context[g].cancelRequested,
              as \in {"cancelled", "timed_out"} => server[g] = "canceled",
              as = "timed_out" => cancelStatus[r] = "timed_out"
       PROVE  Records'
  <2>1. /\ result' = [result EXCEPT ![r] = as] /\ pending' = pending \ {r} /\ context' = ctx
        /\ UNCHANGED <<schedulerVars, cancelCall, token, cancelStatus, root, completed,
                       final, origin, stopRequested>>
    BY <1>12 DEF CancellationResolved
  <2>2. Stopping
    BY <1>12 DEF Records, StopInv
  <2> QED  BY <1>10, <1>12, <2>1, <2>2
<1>13. CASE outcome = "navigation_failed"
  BY <1>11, <1>13 DEF Resolve, ctx
<1>14. CASE outcome = "goal_rejected"
  BY <1>11, <1>14 DEF Resolve, ctx
<1>15. CASE outcome = "cancellation_confirmed"
  <2>1. CancellationResolved(r, ConfirmedStatus(r), ctx) /\ server[g] = "canceled"
    BY <1>15 DEF Resolve, Told, ctx
  <2>2. context[g].cancelRequested
    BY <1>1, <2>1 DEF AsksAgree
  <2>3. ConfirmedStatus(r) = "timed_out" => cancelStatus[r] = "timed_out"
    BY DEF ConfirmedStatus
  <2> QED  BY <1>12, <2>1, <2>2, <2>3
<1>16. CASE outcome = "cancellation_failed"
  <2>1. CancellationResolved(r, "cancel_failed", ctx)
    BY <1>16 DEF Resolve, ctx
  <2>2. context[g].cancelRequested
    BY <1>1, <1>16 DEF AsksAgree, Told
  <2> QED  BY <1>12, <2>1, <2>2
<1> QED  BY <1>6, <1>13, <1>14, <1>15, <1>16 DEF Told, Outcome

-----------------------------------------------------------------------------
(* The other steps.                                                         *)

LEMMA SpinOutcomeRecords ==
  ASSUME IInv, Records, NEW g \in Goal, SpinOutcome(g)
  PROVE  Records'
<1>1. /\ pc \in {"spin", "wait"} /\ pc' \in {"check", "wait"} /\ (pc = "wait" => pc' = "wait")
      /\ refused' = [refused EXCEPT ![g] = FALSE]
      /\ UNCHANGED <<server, todo, cancelFlag, report>>
  BY DEF SpinOutcome, Spun
<1>2. PICK outcome \in Outcome :
        /\ Callback(g, Pop(context, g), outcome)
        /\ IF MatchesPending(g.robot, g) THEN Resolve(g.robot, outcome, Pop(context, g))
           ELSE IgnoreOutcome(Pop(context, g))
  BY DEF SpinOutcome
<1>3. Tracked(g) /\ Told(g, outcome) /\ AdapterTypeOK
  BY <1>2, CallbackFacts DEF IInv, TypeOK
<1>4. RefusalsStay /\ EndedStays
  BY <1>1, <1>3 DEF RefusalsStay, EndedStays, AdapterTypeOK
<1>5. CASE MatchesPending(g.robot, g)
  <2>1. g.robot \in pending /\ token[g.robot] = g /\ Resolve(g.robot, outcome, Pop(context, g))
    BY <1>2, <1>5 DEF MatchesPending
  <2> QED  BY <1>1, <1>3, <1>4, <2>1, ResolveRecords
<1>6. CASE ~ MatchesPending(g.robot, g)
  <2>1. context' = Pop(context, g) /\ UNCHANGED <<schedulerVars, cancelCall, fleetVars>>
    BY <1>2, <1>6 DEF IgnoreOutcome
  <2>2. AsksStay
    BY <1>3, <2>1, PopFacts DEF AsksStay
  <2>3. AsksAgree'
    BY <1>1, <1>4, <2>1, <2>2, AgreesStays DEF Records, StopInv
  <2>4. Quiet
    BY <1>1, <1>4, <2>1, <2>2, <2>3 DEF Quiet
  <2> QED  BY <2>4, QuietRecords
<1> QED  BY <1>5, <1>6

LEMMA SpinAcceptedRecords ==
  ASSUME IInv, Records, NEW g \in Goal, SpinAccepted(g)
  PROVE  Records'
<1>1. /\ pc \in {"spin", "wait"} /\ pc' \in {"check", "wait"} /\ (pc = "wait" => pc' = "wait")
      /\ ResponseAccepted(g)
      /\ UNCHANGED <<schedulerVars, fleetVars, todo>>
  BY DEF SpinAccepted, Spun
<1>2. AdapterTypeOK /\ AsksAgree
  BY DEF IInv, TypeOK, Records, StopInv
<1>3. /\ server' = server /\ refused' = refused
      /\ \A h \in Goal \ {g} : cancelCall'[h] = cancelCall[h]
      /\ \A h \in Goal : context'[h].cancelRequested = context[h].cancelRequested
      /\ cancelCall'[g] # cancelCall[g] => context[g].cancelRequested
  BY <1>1, <1>2, AcceptedFacts
<1>4. AsksAgree' /\ AsksStay /\ EndedStays
  BY <1>2, <1>3 DEF AsksAgree, AsksStay, EndedStays
<1>5. Quiet
  BY <1>1, <1>4 DEF Quiet
<1> QED  BY <1>5, QuietRecords

LEMMA ServerStepRecords ==
  ASSUME IInv, Records, ServerStep
  PROVE  Records'
<1>1. Server /\ UNCHANGED <<schedulerVars, fleetVars, pc, todo>>
  BY DEF ServerStep
<1>2. /\ AsksAgree' /\ context' = context
      /\ \A g \in Goal : server'[g] # server[g] => server[g] \in Live
  BY <1>1, ServerFacts DEF IInv, TypeOK, Records, StopInv
<1>3. AsksStay /\ EndedStays
  BY <1>2 DEF AsksStay, EndedStays, Ended, Live
<1>4. Quiet
  BY <1>1, <1>2, <1>3 DEF Quiet
<1> QED  BY <1>4, QuietRecords

\* Steps that do not touch what is recorded or what the adapter knows.
LEMMA StandingRecords ==
  ASSUME IInv, Records, UNCHANGED <<schedulerVars, adapterVars, fleetVars, todo>>,
         pc \in {"wait", "done"} => pc' \in {"wait", "done"},
         pc' \in {"dispatch", "spin"} => pc \in {"dispatch", "spin"}
  PROVE  Records'
<1>1. AsksAgree' /\ AsksStay /\ EndedStays
  BY DEF Records, StopInv, AsksAgree, AsksStay, EndedStays, adapterVars
<1>2. Quiet
  BY <1>1 DEF Quiet
<1> QED  BY <1>2, QuietRecords

\* A departing robot that is clear of the corridor gives up its place.
LEMMA ClearRecords ==
  ASSUME IInv, Records, NEW r \in active \ cleared, ClearActive(r),
         EndedStays, completed' = completed, pc' \notin {"dispatch", "spin"},
         UNCHANGED <<root, final>>
  PROVE  DoneInv' /\ QueueInv'
<1>1. /\ popped \in [Reservation -> Nat] /\ HeldBy(r) \in Reservation /\ r \in Robot
      /\ Slot(Current(r)) = popped[HeldBy(r)] + 1
      /\ cleared \subseteq active /\ active \subseteq Robot
  BY RobotFacts DEF IInv, TypeOK, SchedulerTypeOK, SchedulerInv
<1>2. /\ popped' = [popped EXCEPT ![HeldBy(r)] = @ + 1] /\ cleared' = cleared \cup {r}
      /\ done' = done /\ active' = active
  BY DEF ClearActive
<1>3. DoneInv'
  <2>1. \A s \in Robot : HasWork(s)' => HasWork(s) /\ done'[s] = done[s]
    BY <1>2 DEF HasWork
  <2> QED  BY <2>1, DoneStep DEF Records
<1>4. \A q \in Reservation : popped'[q] \in Nat /\ popped[q] \in Nat /\ popped[q] <= popped'[q]
  BY <1>1, <1>2
<1>5. ASSUME NEW s \in cleared' PROVE Slot(Current(s)') <= popped'[HeldBy(s)']
  <2>1. Current(s)' = Current(s) /\ HeldBy(s)' = HeldBy(s)
    BY <1>2 DEF Current, HeldBy
  <2>2. CASE s = r
    BY <1>1, <1>2, <1>4, <2>1, <2>2
  <2>3. CASE s # r
    <3>1. s \in cleared /\ s \in active
      BY <1>1, <1>2, <2>3
    <3>2. HeldBy(s) \in Reservation /\ Current(s) \in Goal /\ ReservationOf[Current(s)] = HeldBy(s)
      BY <3>1, RobotFacts DEF HeldBy
    <3>3. Slot(Current(s)) <= popped[HeldBy(s)] /\ Slot(Current(s)) \in Nat
      BY <3>1, <3>2, HasLeftIsSlot DEF Records, QueueInv
    <3> QED  BY <1>4, <2>1, <3>2, <3>3
  <2> QED  BY <2>2, <2>3
<1>6. ASSUME NobodyAbandoned', NEW g \in Goal, Place(g) <= done'[Owner(g)]
      PROVE  Slot(g) <= popped'[ReservationOf[g]]
  <2>1. Slot(g) <= popped[ReservationOf[g]]
    BY <1>2, <1>6 DEF Records, QueueInv, NobodyAbandoned
  <2> QED  BY <1>4, <2>1, HasLeftIsSlot
<1> QED  BY <1>3, <1>5, <1>6 DEF QueueInv

LEMMA CheckRecords ==
  ASSUME IInv, Records, Check
  PROVE  Records'
<1>1. /\ pc = "check" /\ pc' = "top"
      /\ UNCHANGED <<server, refused, token, completed, final, todo>>
  BY DEF Check
<1>2. /\ context \in [Goal -> Context] /\ EndedStays /\ RefusalsStay
      /\ pending \subseteq Robot
  BY <1>1 DEF IInv, TypeOK, AdapterTypeOK, FleetTypeOK, EndedStays, RefusalsStay
\* What is done and queued when the scheduler is left alone.
<1>3. ASSUME UNCHANGED schedulerVars, root' = root \/ root' # None
      PROVE  DoneInv' /\ QueueInv'
  <2>1. done' = done /\ popped' = popped /\ active' = active /\ cleared' = cleared
    BY <1>3 DEF schedulerVars
  <2>2. \A s \in Robot : HasWork(s)' => HasWork(s) /\ done'[s] = done[s]
    BY <2>1 DEF HasWork
  <2>3. DoneInv'
    BY <1>1, <1>2, <2>2, DoneStep DEF Records
  <2>4. NobodyAbandoned' => NobodyAbandoned
    BY <1>1, <1>3 DEF NobodyAbandoned
  <2>5. QueueInv'
    BY <1>1, <2>1, <2>4, QueueStep DEF Records
  <2> QED  BY <2>3, <2>5
<1>4. CASE SafetyStop
  <2> DEFINE why == [r \in Robot |-> IF r = First(pending) THEN "failed" ELSE "cancelled"]
  <2>1. /\ CancelPending(pending, why, context, result)
        /\ root' = First(pending) /\ First(pending) \in pending
        /\ UNCHANGED <<schedulerVars, origin, stopRequested>>
    BY <1>2, <1>4, FirstIsIn DEF SafetyStop
  <2>2. \A r \in Robot : why[r] \in {"failed", "cancelled"}
    OBVIOUS
  <2> HIDE DEF why
  <2>3. /\ AsksAgree'
        /\ \A r \in Robot : /\ result'[r] \in {"cancel_failed", result[r]}
                            /\ cancelStatus'[r] \in {why[r], cancelStatus[r]}
    BY <1>1, <1>2, <2>1, CancelRecords
  <2>4. \A r \in Robot : /\ result'[r] \in {"cancel_failed", "failed", "rejected", result[r]}
                         /\ cancelStatus'[r] \in {"cancelled", "failed", cancelStatus[r]}
    BY <2>2, <2>3
  <2>5. Stopping' /\ root' # None
    BY <1>2, <2>1, RobotsAssumption DEF Stopping
  <2>6. StopInv'
    BY <1>1, <1>2, <2>3, <2>4, <2>5, FleetStops
  <2>7. TimeoutInv'
    BY <1>1, <2>4, NobodyElseTimedOut
  <2> QED  BY <1>3, <2>1, <2>5, <2>6, <2>7 DEF Records
<1>5. CASE ReleaseClearedDepartures /\ OperatorCheck /\ UNCHANGED root
  <2>1. StopInv' /\ TimeoutInv'
    <3>1. CASE cancelFlag /\ ~CancelStatusSet
      <4>1. stopRequested' = TRUE /\ CancelPending(pending, All("cancelled"), context, result)
        BY <1>5, <3>1 DEF OperatorCheck
      <4>2. /\ AsksAgree'
            /\ \A r \in Robot : /\ result'[r] \in {"cancel_failed", result[r]}
                                /\ cancelStatus'[r] \in {All("cancelled")[r], cancelStatus[r]}
        BY <1>1, <1>2, <4>1, CancelRecords
      <4>3. \A r \in Robot : /\ result'[r] \in {"cancel_failed", "failed", "rejected", result[r]}
                             /\ cancelStatus'[r] \in {"cancelled", "failed", cancelStatus[r]}
        BY <4>2 DEF All
      <4>4. Stopping'
        BY <4>1 DEF Stopping
      <4>5. StopInv'
        BY <1>1, <1>2, <4>2, <4>3, <4>4, FleetStops
      <4>6. TimeoutInv'
        BY <1>1, <4>3, NobodyElseTimedOut
      <4> QED  BY <4>5, <4>6
    <3>2. CASE ~ (cancelFlag /\ ~CancelStatusSet)
      <4>1. /\ UNCHANGED <<context, cancelCall, cancelStatus, pending, result, stopRequested>>
            /\ root' = root /\ active' = active
        BY <1>5, <3>2 DEF OperatorCheck, ReleaseClearedDepartures, ClearActive, schedulerVars
      <4>2. AsksStay /\ AsksAgree'
        BY <1>1, <4>1 DEF AsksStay, Records, StopInv, AsksAgree
      <4>3. (Stopping' <=> Stopping) /\ Under' = Under /\ ResultStep
        BY <1>1, <4>1 DEF Stopping, Under, ResultStep
      <4>4. ~Stopping' => AsksStay /\ Under' \subseteq pending'
        BY <4>1, <4>2, <4>3 DEF Records, StopInv
      <4>5. StopInv'
        BY <1>1, <1>2, <4>2, <4>3, <4>4, StopStep DEF Records
      <4>6. TimeoutInv'
        BY <1>1, <4>1, NobodyElseTimedOut
      <4> QED  BY <4>5, <4>6
    <3> QED  BY <3>1, <3>2
  <2>2. DoneInv' /\ QueueInv'
    <3>1. CASE UNCHANGED <<schedulerVars, origin>>
      BY <1>3, <1>5, <3>1
    <3>2. CASE \E r \in Robot : OutOfCorridor(r) /\ ClearActive(r)
      <4>1. PICK r \in Robot : OutOfCorridor(r) /\ ClearActive(r)
        BY <3>2
      <4>2. r \in active \ cleared
        BY <4>1 DEF OutOfCorridor, IInv, FlightInv
      <4> QED  BY <1>1, <1>2, <1>5, <4>1, <4>2, ClearRecords
    <3> QED  BY <1>5, <3>1, <3>2 DEF ReleaseClearedDepartures
  <2> QED  BY <2>1, <2>2 DEF Records
<1> QED  BY <1>4, <1>5 DEF Check

\* The deadline blames the first robot that is waited for, and no other.
LEMMA BeginTimeoutRecords ==
  ASSUME IInv, Records, BeginTimeout
  PROVE  Records'
<1> DEFINE why == [r \in Robot |-> IF r = First(pending) THEN "timed_out" ELSE "cancelled"]
<1>1. /\ pc = "stop" /\ pc' = "wait" /\ pending \subseteq Robot /\ pending # {} /\ ~Stopping
      /\ CancelPending(pending, why, context, result) /\ root' = First(pending)
      /\ UNCHANGED <<schedulerVars, server, refused, token, completed, final, todo>>
      /\ context \in [Goal -> Context]
  BY DEF BeginTimeout, IInv, TypeOK, FleetTypeOK, AdapterTypeOK
<1>2. First(pending) \in Robot /\ Stopping' /\ ~NobodyAbandoned'
  BY <1>1, FirstIsIn, RobotsAssumption DEF Stopping, NobodyAbandoned
<1>3. EndedStays /\ RefusalsStay
  BY <1>1 DEF EndedStays, RefusalsStay
<1>4. \A r \in Robot : why[r] = "timed_out" => r = First(pending)
  OBVIOUS
<1> HIDE DEF why
<1>5. /\ AsksAgree'
      /\ \A r \in Robot : /\ result'[r] \in {"cancel_failed", result[r]}
                          /\ cancelStatus'[r] \in {why[r], cancelStatus[r]}
  BY <1>1, <1>3, CancelRecords
<1>6. StopInv'
  BY <1>1, <1>2, <1>3, <1>5, FleetStops
<1>7. TimeoutInv'
  <2>1. \A r \in Robot : ~TimedOut(r)
    BY <1>1 DEF Records, TimeoutInv
  <2>2. ASSUME NEW r \in Robot, TimedOut(r)' PROVE r = root' /\ pc' \in {"wait", "done"}
    <3>1. cancelStatus'[r] = "timed_out" /\ cancelStatus[r] # "timed_out"
      BY <1>5, <2>1, <2>2 DEF TimedOut
    <3> QED  BY <1>1, <1>4, <1>5, <3>1
  <2> QED  BY <1>1, <2>2 DEF Records, TimeoutInv
<1>8. DoneInv'
  <2>1. \A s \in Robot : HasWork(s)' => HasWork(s) /\ done'[s] = done[s]
    BY <1>1 DEF HasWork, schedulerVars
  <2> QED  BY <1>1, <1>3, <2>1, DoneStep DEF Records
<1>9. QueueInv'
  BY <1>1, <1>2, QueueStep DEF Records, schedulerVars
<1> QED  BY <1>6, <1>7, <1>8, <1>9 DEF Records

\* Every robot gets a status, and two robots cannot both have timed out.
LEMMA FinishRecords ==
  ASSUME IInv, IInv', RecordInv, FinishSplitResult
  PROVE  RecordInv'
<1>1. /\ pc' = "done" /\ report' = [r \in Robot |-> RobotReport(r)]
      /\ UNCHANGED <<schedulerVars, adapterVars, fleetVars, todo>>
  BY DEF FinishSplitResult
<1>2. Records'
  BY <1>1, StandingRecords DEF RecordInv
<1>3. ASSUME NEW r \in Robot
      PROVE  /\ RobotReport(r).status \in Status
             /\ RobotReport(r).status = "timed_out" => r = root
  <2>1. CASE final[r] # NoReport
    <3>1. final[r] \in SkippedReport /\ final[r].status # "timed_out"
      BY <2>1 DEF IInv, TypeOK, FleetTypeOK, RecordInv, Records, TimeoutInv
    <3> QED  BY <2>1, <3>1 DEF RobotReport, SkippedReport
  <2>2. CASE final[r] = NoReport
    <3>1. RobotReport(r).status = IF result[r] # None THEN result[r]
                                  ELSE IF Stopping THEN "cancelled" ELSE "succeeded"
      BY <2>2 DEF RobotReport
    <3>2. result[r] \in Status \cup {None} /\ (result[r] = "timed_out" => r = root)
      BY DEF IInv, TypeOK, FleetTypeOK, RecordInv, Records, TimeoutInv, TimedOut
    <3> QED  BY <3>1, <3>2 DEF Status
  <2> QED  BY <2>1, <2>2
<1>4. \A r \in Robot : report'[r] = RobotReport(r)
  BY <1>1
<1>5. ReturnsASplit'
  BY <1>3, <1>4 DEF ReturnsASplit, SplitResults
<1> QED  BY <1>2, <1>5 DEF RecordInv

LEMMA InitRecords == Init => RecordInv
<1> SUFFICES ASSUME Init PROVE RecordInv
  OBVIOUS
<1>1. StopInv
  BY DEF Init, AdapterInit, SchedulerInit, StopInv, AsksAgree, Under, None
<1>2. TimeoutInv
  BY DEF Init, TimeoutInv, TimedOut, NoReport, None
<1>3. DoneInv
  BY DEF Init, SchedulerInit, DoneInv
<1>4. QueueInv
  <2>1. ASSUME NEW g \in Goal PROVE ~ Place(g) <= done[Owner(g)]
    BY OwnerAssumption, GoalFacts, WorkFacts DEF Init, SchedulerInit
  <2> QED  BY <2>1 DEF Init, SchedulerInit, QueueInv
<1> QED  BY <1>1, <1>2, <1>3, <1>4 DEF Init, RecordInv, Records, ReturnsASplit

LEMMA NextRecords ==
  ASSUME IInv, IInv', RecordInv, [Next]_vars
  PROVE  RecordInv'
<1>1. Records
  BY DEF RecordInv
<1> DEFINE Standing == UNCHANGED <<schedulerVars, adapterVars, fleetVars, todo>>
\* While the loop runs nothing is returned.
<1>2. ASSUME Records', pc' # "done" PROVE RecordInv'
  BY <1>2 DEF RecordInv, ReturnsASplit
<1>3. CASE LeaveLoop \/ DeadlinePassed \/ TimeoutCrash \/ BeginWait
  <2>1. Standing /\ pc' \in {"stop", "crashed", "wait"} /\ pc \notin {"wait", "done"}
    BY <1>3 DEF LeaveLoop, DeadlinePassed, TimeoutCrash, BeginWait
  <2>2. Records'
    BY <1>1, <2>1, StandingRecords
  <2> QED  BY <1>2, <2>1, <2>2
<1>4. CASE ClaimReady
  BY <1>1, <1>2, <1>4, ClaimRecords DEF ClaimReady
<1>5. CASE DispatchStep
  <2>1. pc' # "done"
    BY <1>5 DEF DispatchStep, DispatchGoal, DispatchFailsAlone, DispatchFailsRoot
  <2> QED
    BY <1>1, <1>2, <1>5, <2>1, DispatchGoalRecords, DispatchFailsAloneRecords,
       DispatchFailsRootRecords DEF DispatchStep
<1>6. CASE DispatchDone
  <2>1. Standing /\ pc = "dispatch" /\ pc' \in {"stop", "spin"}
    BY <1>6 DEF DispatchDone
  <2>2. Records'
    BY <1>1, <2>1, StandingRecords
  <2> QED  BY <1>2, <2>1, <2>2
<1>7. CASE SpinStep
  <2>1. CASE SpinCancelService \/ SpinIdle
    <3>1. Standing /\ pc = "spin" /\ pc' = "check"
      BY <2>1 DEF SpinCancelService, SpinIdle
    <3>2. Records'
      BY <1>1, <3>1, StandingRecords
    <3> QED  BY <1>2, <3>1, <3>2
  <2>2. CASE \E g \in Goal : SpinOutcome(g) \/ SpinAccepted(g)
    <3>1. Records'
      BY <1>1, <2>2, SpinOutcomeRecords, SpinAcceptedRecords
    <3>2. pc' # "done"
      BY <2>2 DEF SpinOutcome, SpinAccepted, Spun
    <3> QED  BY <1>2, <3>1, <3>2
  <2> QED  BY <1>7, <2>1, <2>2 DEF SpinStep
<1>8. CASE Check
  BY <1>1, <1>2, <1>8, CheckRecords DEF Check
<1>9. CASE BeginTimeout
  BY <1>1, <1>2, <1>9, BeginTimeoutRecords DEF BeginTimeout
<1>10. CASE FinishSplitResult
  BY <1>10, FinishRecords
<1>11. CASE ServerStep
  BY <1>1, <1>2, <1>11, ServerStepRecords DEF ServerStep
<1>12. CASE UNCHANGED vars
  <2>1. Standing /\ pc' = pc /\ report' = report
    BY <1>12 DEF vars
  <2>2. Records'
    BY <1>1, <2>1, StandingRecords
  <2> QED  BY <2>1, <2>2 DEF RecordInv, ReturnsASplit
<1> QED  BY <1>3, <1>4, <1>5, <1>6, <1>7, <1>8, <1>9, <1>10, <1>11, <1>12
         DEF Next, Loop, Ending, Returned

\* What is recorded of the robots agrees with Nav2 and with the plan, in every
\* reachable state of execute_split.
THEOREM RecordInvariance == Spec => [](IInv /\ RecordInv)
<1>1. Init => RecordInv
  BY InitRecords
<1>2. IInv /\ IInv' /\ RecordInv /\ [Next]_vars => RecordInv'
  BY NextRecords
<1> QED  BY <1>1, <1>2, Invariance, PTL DEF Spec

\* The goals counted as completed are finished, and a claimed cancellation is of
\* a goal that Nav2 has canceled.
THEOREM ResultsStayReal == Spec => []ResultsAreReal
<1>1. IInv /\ RecordInv => ResultsAreReal
  BY DEF RecordInv, Records, DoneInv, StopInv, ResultsAreReal
<1> QED  BY <1>1, RecordInvariance, PTL

\* The loop never waits for a reservation that nobody holds, unless a robot was
\* abandoned before: the plan's order is enough to keep somebody under way.
THEOREM NeverWedged == Spec => []WedgedOnlyByAbandoned
<1>1. ASSUME IInv, RecordInv, pc = "spin", ~Stopping, pending = {},
             \A r \in Robot : final[r] = NoReport
      PROVE  FALSE
  <2>1. NobodyAbandoned
    BY <1>1 DEF NobodyAbandoned, Stopping
  <2>2. active # {}
    BY <1>1, <2>1 DEF RecordInv, Records, QueueInv
  <2>3. todo = {} /\ Under \subseteq pending
    BY <1>1 DEF IInv, FlightInv, RecordInv, Records, StopInv
  <2> QED  BY <1>1, <2>2, <2>3 DEF Under
<1>2. IInv /\ RecordInv => WedgedOnlyByAbandoned
  BY <1>1 DEF WedgedOnlyByAbandoned
<1> QED  BY <1>2, RecordInvariance, PTL

\* What a split returns is what the mission is promised: a status of every robot,
\* of which at most one timed out.
THEOREM SplitIsReturned == Spec => []ReturnsASplit
<1>1. RecordInv => ReturnsASplit
  BY DEF RecordInv
<1> QED  BY <1>1, RecordInvariance, PTL
=============================================================================
