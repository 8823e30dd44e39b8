--------------------------- MODULE RightOfWay_proofs ---------------------------
(***************************************************************************)
(* Proofs about RightOfWay.  RightOfWayKept rests on what the loop of       *)
(* _conflict_components keeps: its components are disjoint, and each pair   *)
(* it has been through lies within one of them.  Two robots that are linked *)
(* are then in the same component, where one winner is left.                *)
(***************************************************************************)
EXTENDS RightOfWay, TLAPS

\* The components are disjoint.
Disjoint(components) ==
  \A c, d \in components : \A r : r \in c /\ r \in d => c = d

\* Each of these pairs lies within one component.
Covers(components, pairs) ==
  \A p \in pairs : \E c \in components : p[1] \in c /\ p[2] \in c

\* One turn of the loop keeps the components disjoint and the pairs covered,
\* and covers its pair.
LEMMA MergeKeeps ==
  ASSUME NEW components, NEW pairs, NEW p,
         Disjoint(components), Covers(components, pairs)
  PROVE  /\ Disjoint(Merge(components, p))
         /\ Covers(Merge(components, p), pairs \cup {p})
<1> DEFINE matching == {c \in components : p[1] \in c \/ p[2] \in c}
           merged == (UNION matching) \cup {p[1], p[2]}
<1>1. Merge(components, p) = (components \ matching) \cup {merged}
  BY DEF Merge
<1>2. \A c \in components \ matching : \A r : ~ (r \in c /\ r \in merged)
  <2> SUFFICES ASSUME NEW c \in components \ matching, NEW r, r \in c, r \in merged
               PROVE  FALSE
    OBVIOUS
  <2>1. c \in components /\ p[1] \notin c /\ p[2] \notin c
    OBVIOUS
  <2>2. r # p[1] /\ r # p[2]
    BY <2>1
  <2>3. PICK d \in matching : r \in d
    <3> HIDE DEF matching
    <3>1. r \in UNION matching
      BY <2>2
    <3> QED BY <3>1
  <2>4. c = d
    BY <2>1, <2>3 DEF Disjoint
  <2> QED BY <2>1, <2>3, <2>4
<1>3. Disjoint(Merge(components, p))
  BY <1>1, <1>2 DEF Disjoint
<1>4. \A c \in matching : c \subseteq merged
  OBVIOUS
<1>5. ASSUME NEW q \in pairs
      PROVE  \E c \in Merge(components, p) : q[1] \in c /\ q[2] \in c
  <2>1. PICK c \in components : q[1] \in c /\ q[2] \in c
    BY <1>5 DEF Covers
  <2>2. CASE c \in matching
    <3>1. q[1] \in merged /\ q[2] \in merged
      BY <2>1, <2>2, <1>4
    <3>2. merged \in Merge(components, p)
      BY <1>1
    <3> QED BY <3>1, <3>2
  <2>3. CASE c \notin matching
    BY <2>1, <2>3, <1>1
  <2> QED BY <2>2, <2>3
<1>6. \E c \in Merge(components, p) : p[1] \in c /\ p[2] \in c
  <2>1. merged \in Merge(components, p)
    BY <1>1
  <2>2. p[1] \in merged /\ p[2] \in merged
    OBVIOUS
  <2> QED BY <2>1, <2>2
<1> QED BY <1>3, <1>5, <1>6 DEF Covers

\* _conflict_components returns disjoint components that cover every conflict.
LEMMA ComponentsCover ==
  ASSUME NEW conflicts, conflicts \subseteq Pair
  PROVE  /\ Disjoint(Components(conflicts))
         /\ Covers(Components(conflicts), conflicts)
<1> DEFINE add(components, p) == IF p \in conflicts THEN Merge(components, p) ELSE components
           c1 == add({}, <<0, 1>>)
           c2 == add(c1, <<0, 2>>)
           c3 == add(c2, <<1, 2>>)
<1>1. ASSUME NEW components, NEW pairs, NEW p,
             Disjoint(components), Covers(components, pairs \cap conflicts)
      PROVE  /\ Disjoint(add(components, p))
             /\ Covers(add(components, p), (pairs \cup {p}) \cap conflicts)
  <2>1. CASE p \in conflicts
    <3>1. (pairs \cup {p}) \cap conflicts = (pairs \cap conflicts) \cup {p}
      BY <2>1
    <3> QED BY <3>1, <2>1, <1>1, MergeKeeps
  <2>2. CASE p \notin conflicts
    <3>1. (pairs \cup {p}) \cap conflicts = pairs \cap conflicts
      BY <2>2
    <3> QED BY <3>1, <2>2, <1>1
  <2> QED BY <2>1, <2>2
<1>2. Disjoint({}) /\ Covers({}, {} \cap conflicts)
  BY DEF Disjoint, Covers
<1> HIDE DEF add
<1>3. Disjoint(c1) /\ Covers(c1, ({} \cup {<<0, 1>>}) \cap conflicts)
  BY <1>1, <1>2
<1> HIDE DEF c1
<1>4. Disjoint(c2) /\ Covers(c2, ({} \cup {<<0, 1>>} \cup {<<0, 2>>}) \cap conflicts)
  BY <1>1, <1>3
<1> HIDE DEF c2
<1>5. Disjoint(c3) /\ Covers(c3, ({} \cup {<<0, 1>>} \cup {<<0, 2>>} \cup {<<1, 2>>}) \cap conflicts)
  BY <1>1, <1>4
<1>6. ({} \cup {<<0, 1>>} \cup {<<0, 2>>} \cup {<<1, 2>>}) \cap conflicts = conflicts
  BY DEF Pair
<1>7. Components(conflicts) = c3
  BY DEF Components, add, c1, c2
<1> QED BY <1>5, <1>6, <1>7

\* Two robots that may both go are not in one component: one of them yields.
LEMMA OneOfEachComponent ==
  ASSUME NEW conflicts, NEW offset, NEW c \in Components(conflicts),
         NEW r \in Allowed(conflicts, offset), NEW s \in Allowed(conflicts, offset),
         r \in c, s \in c
  PROVE  r = s
<1>1. \A x \in Allowed(conflicts, offset) : x \notin c \ {Winner(c, offset)}
  BY DEF Allowed, Yielding
<1> QED BY <1>1

-----------------------------------------------------------------------------

\* The variables keep their types, whatever the environment does.
THEOREM TypeCorrect == Spec => []TypeOK
<1>1. Init => TypeOK
  BY DEF Init, TypeOK
<1>2. TypeOK /\ [Next]_vars => TypeOK'
  <2> SUFFICES ASSUME TypeOK, [Next]_vars
               PROVE  TypeOK'
    OBVIOUS
  <2>1. CASE Update
    BY <2>1 DEF TypeOK, Update, Published, Allowed
  <2>2. CASE NextWindow
    <3>1. (window + 1) % 3 \in 0 .. 2
      BY DEF TypeOK
    <3> QED BY <2>2, <3>1 DEF TypeOK, NextWindow
  <2>3. CASE Environment
    BY <2>3 DEF TypeOK, Environment, Move, PosesChange, ReceiveIntent, ReceiveSafe,
                IntentEnds, SafeEnds
  <2>4. CASE UNCHANGED vars
    BY <2>4 DEF TypeOK, vars
  <2> QED BY <2>1, <2>2, <2>3, <2>4 DEF Next
<1> QED BY <1>1, <1>2, PTL DEF Spec

\* Two linked robots are in one component, so they are not both allowed.
LEMMA LinkedOneAllowed ==
  ASSUME TypeOK, NEW r \in Allowed(Conflicts, window), NEW s \in Allowed(Conflicts, window),
         r # s
  PROVE  ~ Linked(r, s)
<1> SUFFICES ASSUME Linked(r, s)
             PROVE  FALSE
  OBVIOUS
<1>1. Disjoint(Components(Conflicts)) /\ Covers(Components(Conflicts), Conflicts)
  BY ComponentsCover DEF TypeOK, Conflicts
<1>2. ASSUME NEW x, NEW y, Near(x, y)
      PROVE  \E c \in Components(Conflicts) : x \in c /\ y \in c
  <2>1. CASE <<x, y>> \in Conflicts
    BY <2>1, <1>1 DEF Covers
  <2>2. CASE <<y, x>> \in Conflicts
    BY <2>2, <1>1 DEF Covers
  <2> QED BY <1>2, <2>1, <2>2 DEF Near
<1>3. \E c \in Components(Conflicts) : r \in c /\ s \in c
  <2>1. CASE Near(r, s)
    BY <2>1, <1>2
  <2>2. ASSUME NEW m \in Robot, Near(r, m), Near(m, s)
        PROVE  \E c \in Components(Conflicts) : r \in c /\ s \in c
    <3>1. PICK c \in Components(Conflicts) : r \in c /\ m \in c
      BY <2>2, <1>2
    <3>2. PICK d \in Components(Conflicts) : m \in d /\ s \in d
      BY <2>2, <1>2
    <3>3. c = d
      BY <3>1, <3>2, <1>1 DEF Disjoint
    <3> QED BY <3>1, <3>2, <3>3
  <2> QED BY <2>1, <2>2 DEF Linked
<1> QED BY <1>3, OneOfEachComponent

\* Of a group of robots linked by conflicts, one is driven at most, and none
\* without poses or on a stale command.
THEOREM RightOfWayIsKept == Spec => RightOfWayKept
<1> DEFINE Kept == driven' # driven \/ (updated' /\ ~ updated) =>
                     /\ \A r, s \in driven' : r # s => ~ Linked(r, s)
                     /\ driven' # {} => poses
                     /\ driven' \subseteq commanded
<1>1. TypeOK /\ [Next]_vars => [Kept]_vars
  <2> SUFFICES ASSUME TypeOK, Next
               PROVE  Kept
    OBVIOUS
  <2>1. CASE Update
    <3>1. driven' # {} => poses
      BY <2>1 DEF Update, Published
    <3>2. poses => driven' \subseteq Allowed(Conflicts, window)
      BY <2>1 DEF Update, Published
    <3>3. driven' \subseteq commanded
      BY <2>1 DEF Update, Published
    <3> QED BY <3>1, <3>2, <3>3, LinkedOneAllowed
  <2>2. CASE NextWindow
    BY <2>2 DEF NextWindow
  <2>3. CASE Environment
    BY <2>3 DEF Environment, Move, PosesChange, ReceiveIntent, ReceiveSafe, IntentEnds,
                SafeEnds
  <2> QED BY <2>1, <2>2, <2>3 DEF Next
<1> QED BY <1>1, TypeCorrect, PTL DEF Spec, RightOfWayKept
=============================================================================
