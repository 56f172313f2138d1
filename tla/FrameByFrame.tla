------------------------------ MODULE FrameByFrame ------------------------------
(***************************************************************************)
(* What the analysis of a video promises: the tracker and the line counter *)
(* see every source frame once, in order, with the detections of exactly   *)
(* the sampled frames, up to the last sampled one; or there is no count.   *)
(***************************************************************************)
EXTENDS Integers

CONSTANTS
  Stride    \* one frame in Stride is given to the detector

VARIABLES
  length,   \* the frames of the video
  at,       \* the last frame observed, -1 before the first
  sampled,  \* the frames observed with their detections
  outcome   \* "open", "counted" or "none"

vars == <<length, at, sampled, outcome>>

IsSampled(f) == f % Stride = 0
LastSampled == {f \in 0 .. length - 1 : IsSampled(f) /\ f + Stride >= length}

Init == length \in Nat /\ at = -1 /\ sampled = {} /\ outcome = "open"

Observe ==
  /\ outcome = "open" /\ at + 1 < length
  /\ at' = at + 1
  /\ sampled' = IF IsSampled(at') THEN sampled \cup {at'} ELSE sampled
  /\ UNCHANGED <<length, outcome>>

Count ==
  /\ outcome = "open" /\ at \in LastSampled
  /\ outcome' = "counted"
  /\ UNCHANGED <<length, at, sampled>>

GiveUp ==
  /\ outcome = "open" /\ outcome' = "none"
  /\ UNCHANGED <<length, at, sampled>>

Next == Observe \/ Count \/ GiveUp

Spec == Init /\ [][Next]_vars
=============================================================================
