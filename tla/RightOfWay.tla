------------------------------ MODULE RightOfWay ------------------------------
(***************************************************************************)
(* FleetTrafficManager and decide_right_of_way: the node between each       *)
(* robot's collision monitor (cmd_vel_safe) and its wheels, which holds     *)
(* back all but one of a group of robots predicted to come too close.       *)
(*                                                                          *)
(* Geometry is the environment's: "closing" holds the pairs of robots that  *)
(* would come within the clearance in the next 3 s if both did what their   *)
(* intentions (cmd_vel_smoothed) say.  A message is fresh for 0.5 s.  Time  *)
(* is split into priority windows of 5 s; the timer fires every 0.05 s, so  *)
(* that each window sees an update.                                         *)
(***************************************************************************)
EXTENDS Integers, FiniteSets

Robot == 0 .. 2   \* ROBOT_IDS by position

Pair == {<<0, 1>>, <<0, 2>>, <<1, 2>>}

VARIABLES
  closing,    \* pairs predicted to come too close
  poses,      \* TF knows where every robot is
  intending,  \* robots whose _intentions entry is fresh and at least 0.01 m/s
  commanded,  \* robots whose _safe_commands entry is fresh and not a stop
  window,     \* now // priority_window_sec, modulo three
  updated,    \* the timer has fired in this window
  driven      \* robots whose last published command moves them

vars == <<closing, poses, intending, commanded, window, updated, driven>>

TypeOK ==
  /\ closing \subseteq Pair
  /\ poses \in BOOLEAN
  /\ intending \subseteq Robot
  /\ commanded \subseteq Robot
  /\ window \in 0 .. 2
  /\ updated \in BOOLEAN
  /\ driven \subseteq Robot

Init ==
  /\ closing = {}
  /\ poses = FALSE
  /\ intending = {}
  /\ commanded = {}
  /\ window \in 0 .. 2
  /\ updated = FALSE
  /\ driven = {}

\* The conflicts of _will_conflict, a robot without a fresh intention standing
\* still (_world_velocities): both move, and towards each other.
Conflicts == {p \in closing : p[1] \in intending /\ p[2] \in intending}

\* Mutant: every conflict is a component of its own.
MergeNothing(components, p) == components \cup {{p[1], p[2]}}

\* One turn of the loop of _conflict_components.
Merge(components, p) ==
  LET matching == {c \in components : p[1] \in c \/ p[2] \in c}
  IN  (components \ matching) \cup {(UNION matching) \cup {p[1], p[2]}}

\* _conflict_components: the loop over the pairs in their order.
Components(conflicts) ==
  LET add(components, p) == IF p \in conflicts THEN Merge(components, p) ELSE components
  IN  add(add(add({}, <<0, 1>>), <<0, 2>>), <<1, 2>>)

\* The rank of a robot while the window gives priority to the robot "offset".
Rank(r, offset) == (r - offset) % 3

\* Mutant: priority does not rotate.
WinnerFixed(component, offset) ==
  CHOOSE r \in component : \A s \in component : r <= s

Winner(component, offset) ==
  CHOOSE r \in component : \A s \in component : Rank(r, offset) <= Rank(s, offset)

\* decide_right_of_way: all but the winner of each component yield.
Yielding(conflicts, offset) ==
  UNION {c \ {Winner(c, offset)} : c \in Components(conflicts)}

Allowed(conflicts, offset) == Robot \ Yielding(conflicts, offset)

\* Mutant: a robot that moves goes on with its last command, however old.
PublishedStale(robots) == robots \cap (commanded \cup driven)

\* _publish_commands: a robot moves only on its own fresh command.
Published(robots) == robots \cap commanded

\* _update, in the window now.
Update ==
  /\ driven' = Published(IF poses THEN Allowed(Conflicts, window) ELSE {})
  /\ updated' = TRUE
  /\ UNCHANGED <<closing, poses, intending, commanded, window>>

\* A message that moves the robot.
ReceiveIntent(r) ==
  /\ intending' = intending \cup {r}
  /\ UNCHANGED <<closing, poses, commanded, window, updated, driven>>

ReceiveSafe(r) ==
  /\ commanded' = commanded \cup {r}
  /\ UNCHANGED <<closing, poses, intending, window, updated, driven>>

\* A message that stops it, or COMMAND_MAX_AGE_SEC without any.
IntentEnds(r) ==
  /\ intending' = intending \ {r}
  /\ UNCHANGED <<closing, poses, commanded, window, updated, driven>>

SafeEnds(r) ==
  /\ commanded' = commanded \ {r}
  /\ UNCHANGED <<closing, poses, intending, window, updated, driven>>

\* The next priority window begins.
NextWindow ==
  /\ updated
  /\ window' = (window + 1) % 3
  /\ updated' = FALSE
  /\ UNCHANGED <<closing, poses, intending, commanded, driven>>

\* The robots move, turn or replan.
Move ==
  /\ closing' \in SUBSET Pair
  /\ UNCHANGED <<poses, intending, commanded, window, updated, driven>>

PosesChange ==
  /\ poses' = ~ poses
  /\ UNCHANGED <<closing, intending, commanded, window, updated, driven>>

Environment ==
  \/ Move \/ PosesChange
  \/ \E r \in Robot : ReceiveIntent(r) \/ ReceiveSafe(r) \/ IntentEnds(r) \/ SafeEnds(r)

Next == Update \/ NextWindow \/ Environment

Spec == Init /\ [][Next]_vars

\* Fairness: the timer fires and time passes.
TimedSpec == Spec /\ WF_vars(Update) /\ WF_vars(NextWindow)

-----------------------------------------------------------------------------
(* Properties.                                                              *)

Near(r, s) == <<r, s>> \in Conflicts \/ <<s, r>> \in Conflicts

\* Linked through conflicts, directly or by the third robot.
Linked(r, s) == Near(r, s) \/ \E m \in Robot : Near(r, m) /\ Near(m, s)

\* Of the robots that close in on each other, each having said in the last 0.5 s
\* that it would move, one is sent on at most, however the group hangs
\* together; and nobody is sent anywhere while a pose is missing, or on a safe
\* command that has grown stale, be it sent for the first time or once more in a
\* new window.
RightOfWayKept ==
  [][driven' # driven \/ (updated' /\ ~ updated) =>
       /\ \A r, s \in driven' : r # s => ~ Linked(r, s)
       /\ driven' # {} => poses
       /\ driven' \subseteq commanded]_vars

\* A robot that keeps asking to move does move, again and again, whatever
\* conflicts come and go, as long as poses are known: priority reaches everyone.
EveryoneGoes ==
  \A r \in Robot : <>[](poses /\ r \in commanded) => []<>(r \in driven)
=============================================================================
