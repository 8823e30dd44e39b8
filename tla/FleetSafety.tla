----------------------------- MODULE FleetSafety -----------------------------
(***************************************************************************)
(* FleetPoseTracker and the separation rule: the check the navigation loops *)
(* make at every turn, which the adapter's models leave to chance.          *)
(*                                                                          *)
(* A tracker is a record: poses and received, partial functions on robots.  *)
(* Poses are points, in centimetres; the yaw plays no part.  Times are in   *)
(* seconds.                                                                 *)
(***************************************************************************)
EXTENDS Fleet, Integers

EMERGENCY_MINIMUM_DISTANCE == 30

MAXIMUM_AGE == 15

EmptyTracker == [poses |-> <<>>, received |-> <<>>]

DistanceSq(p, q) ==
  (p.x - q.x) * (p.x - q.x) + (p.y - q.y) * (p.y - q.y)

\* emergency_separation_reason, as the pairs it names.
UnsafePairs(poses) ==
  {pair \in SUBSET Robot :
     \E r, s \in pair :
       /\ r # s
       /\ pair = {r, s}
       /\ DistanceSq(poses[r], poses[s]) < EMERGENCY_MINIMUM_DISTANCE * EMERGENCY_MINIMUM_DISTANCE}

\* The tracker with these new poses, seen at now.
Seen(tracker, found, now) ==
  LET known == DOMAIN tracker.poses \cup DOMAIN found IN
  [poses |-> [r \in known |-> IF r \in DOMAIN found THEN found[r] ELSE tracker.poses[r]],
   received |-> [r \in known |-> IF r \in DOMAIN found THEN now ELSE tracker.received[r]]]

\* _on_pose: localisation's estimate, if it is in the map frame.
OnPose(tracker, r, frame, pose, now) ==
  IF frame = "map" THEN Seen(tracker, [s \in {r} |-> pose], now) ELSE tracker

\* _refresh_from_tf: transforms holds the robots whose lookup succeeds.  The
\* lookup asks for the latest transform, however old, and counts as news.
RefreshFromTf(tracker, transforms, now) == Seen(tracker, transforms, now)

MissingRobots(tracker) == Robot \ DOMAIN tracker.poses

StaleRobots(tracker, now) ==
  {r \in DOMAIN tracker.poses : now - tracker.received[r] > MAXIMUM_AGE}

\* readiness_reason: what kind of reason, and who.
ReadinessReason(tracker, now) ==
  CASE MissingRobots(tracker) # {} -> [kind |-> "unavailable", of |-> MissingRobots(tracker)]
    [] MissingRobots(tracker) = {} /\ StaleRobots(tracker, now) # {} ->
         [kind |-> "stale", of |-> StaleRobots(tracker, now)]
    [] OTHER -> [kind |-> "none", of |-> {}]

\* violation_reason.
ViolationReason(tracker, transforms, now) ==
  LET fresh == RefreshFromTf(tracker, transforms, now)
      ready == ReadinessReason(fresh, now)
  IN  IF ready.kind # "none" THEN ready
      ELSE IF UnsafePairs(fresh.poses) # {}
      THEN [kind |-> "separation", of |-> UNION UnsafePairs(fresh.poses)]
      ELSE ready
=============================================================================
