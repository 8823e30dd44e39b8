---------------------------- MODULE PersonDetector ----------------------------
(***************************************************************************)
(* The person detector node and its temporal tracker: a person who passes   *)
(* the asked attribute gate in ConfirmationFrames frames, each where the    *)
(* last one was, becomes a confirmed target, published under the            *)
(* generation of the mission the detector was last armed for.               *)
(*                                                                          *)
(* Pictures are the environment's: a frame either holds an accepted person  *)
(* where the target was, or not.  A coat colour is named by the operator's  *)
(* run that asks for it; two runs may ask for the same.  Episodes only name *)
(* files, and are left out.                                                 *)
(***************************************************************************)
EXTENDS Naturals, Sequences

CONSTANTS
  MaxRuns,              \* bound: runs of the operator's command
  ConfirmationFrames,   \* confirmation_frames
  MaximumMissingFrames, \* maximum_missing_frames
  WireDepth             \* the topic's queue depth

ASSUME DetectorAssumption ==
  /\ MaxRuns \in Nat \ {0}
  /\ ConfirmationFrames \in Nat /\ ConfirmationFrames >= 2
  /\ MaximumMissingFrames \in Nat \ {0}
  /\ WireDepth \in Nat \ {0}

Run == 1 .. MaxRuns
Generation == 1 .. MaxRuns   \* a run arms the detector once at most

\* What a target detection tells: the generation in its id, and, for the
\* properties, the colour its person was accepted for and the frames that
\* person was seen in since the detector was activated.
Target == [generation : Generation, asked : Run, frames : 0 .. ConfirmationFrames]

VARIABLES
  colour,        \* the parameter target_coat_color: 0, the default, or a run's
  activeColour,  \* _active_color
  armed,         \* _armed
  prepared,      \* _prepared
  generation,    \* _mission_generation
  count,         \* the tracker's _confirmation_count; 0 without a _target
  missing,       \* its _missing_count, which matters while there is a _target
  frames,        \* the frames the target was seen in since the activation
  wire           \* target detections on their way to the follower

detectorVars ==
  <<colour, activeColour, armed, prepared, generation, count, missing, frames, wire>>

DetectorTypeOK ==
  /\ colour \in 0 .. MaxRuns /\ activeColour \in 0 .. MaxRuns
  /\ armed \in BOOLEAN /\ prepared \in BOOLEAN
  /\ generation \in 0 .. MaxRuns
  /\ count \in 0 .. ConfirmationFrames
  /\ missing \in 0 .. MaximumMissingFrames
  /\ frames \in 0 .. ConfirmationFrames
  /\ wire \in Seq(Target) /\ Len(wire) <= WireDepth

DetectorInit ==
  /\ colour = 0 /\ activeColour = 0
  /\ armed = FALSE /\ prepared = FALSE
  /\ generation = 0
  /\ count = 0 /\ missing = 0 /\ frames = 0
  /\ wire = <<>>

\* Counts are kept up to the number of frames that matters.
Increment(n) == IF n < ConfirmationFrames THEN n + 1 ELSE n

\* KEEP_LAST: the oldest message gives way to a new one.
Queued(queue, message, depth) ==
  LET all == Append(queue, message)
  IN  IF Len(all) > depth THEN Tail(all) ELSE all

Reset == count' = 0 /\ missing' = 0

\* The colour asked for is the one the tracker follows; what another run asks for
\* may be the same coat, or not.
KeepsColour(same) == colour = activeColour => same

\* _on_image while armed, with a match: the tracker is reset first when another
\* colour is asked for, and the confirmed target is published.  Without an
\* episode the tracker starts one.
FrameMatches ==
  /\ armed /\ colour \in Run
  /\ activeColour' = colour
  /\ \E same \in BOOLEAN :
       /\ KeepsColour(same)
       /\ count' = Increment(IF same THEN count ELSE 0)
       /\ frames' = Increment(IF same THEN frames ELSE 0)
  /\ missing' = 0
  /\ wire' = IF count' >= ConfirmationFrames
             THEN Queued(wire, [generation |-> generation, asked |-> colour,
                                frames |-> frames'], WireDepth)
             ELSE wire
  /\ UNCHANGED <<colour, armed, prepared, generation>>

\* ... and without one: the target is dropped after too many frames.  An empty
\* target message changes nothing at the follower and is left out.
FrameMisses ==
  /\ armed
  /\ activeColour' = colour
  /\ \E same \in BOOLEAN :
       LET kept == IF same THEN <<count, missing, frames>> ELSE <<0, 0, 0>>
       IN  /\ KeepsColour(same)
           /\ IF kept[1] = 0 \/ kept[2] >= MaximumMissingFrames
              THEN Reset /\ frames' = 0
              ELSE count' = kept[1] /\ missing' = kept[2] + 1 /\ frames' = kept[3]
  /\ UNCHANGED <<colour, armed, prepared, generation, wire>>

SetColour(run) ==
  /\ colour' = run
  /\ UNCHANGED <<activeColour, armed, prepared, generation, count, missing, frames, wire>>

\* _arm; the parameter has one of the supported colours.
Arm ==
  /\ Reset
  /\ activeColour' = colour
  /\ generation' = generation + 1
  /\ armed' = FALSE /\ prepared' = TRUE
  /\ frames' = 0
  /\ UNCHANGED <<colour, wire>>

CanActivate == prepared /\ generation >= 1

\* _activate: refused unless prepared.
Activate ==
  /\ IF CanActivate
     THEN Reset /\ frames' = 0 /\ armed' = TRUE /\ prepared' = FALSE
     ELSE UNCHANGED <<count, missing, frames, armed, prepared>>
  /\ UNCHANGED <<colour, activeColour, generation, wire>>

\* _disarm.
Disarm ==
  /\ Reset
  /\ armed' = FALSE /\ prepared' = FALSE
  /\ frames' = 0
  /\ UNCHANGED <<colour, activeColour, generation, wire>>
=============================================================================
