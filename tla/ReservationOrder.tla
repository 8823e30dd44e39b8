-------------------------- MODULE ReservationOrder --------------------------
(***************************************************************************)
(* What reservations promise, whoever keeps the promise: the goals that     *)
(* share one enter it in the order of the plan, each once, and one at a     *)
(* time.  A goal may stay inside for ever; nobody else enters then.         *)
(***************************************************************************)
EXTENDS Naturals, Sequences

CONSTANTS Reservation, Queue

VARIABLES
  left,     \* how many goals of each reservation have left it
  inside    \* goals sent into their reservation that have not left it

Goals(q) == {Queue[q][i] : i \in DOMAIN Queue[q]}

Init ==
  /\ left = [q \in Reservation |-> 0]
  /\ inside = {}

Enter(q) ==
  /\ left[q] < Len(Queue[q])
  /\ inside \cap Goals(q) = {}
  /\ inside' = inside \cup {Queue[q][left[q] + 1]}
  /\ UNCHANGED left

Leave(q) ==
  /\ left[q] < Len(Queue[q])
  /\ Queue[q][left[q] + 1] \in inside
  /\ inside' = inside \ {Queue[q][left[q] + 1]}
  /\ left' = [left EXCEPT ![q] = @ + 1]

Next == \E q \in Reservation : Enter(q) \/ Leave(q)

Spec == Init /\ [][Next]_<<left, inside>>
=============================================================================
