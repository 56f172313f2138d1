-------------------------------- MODULE Counting --------------------------------
(***************************************************************************)
(* The analysis of one claimed video (bins/pcrt-processor/src/inference):  *)
(* a decoder that samples the frames, a ring of asynchronous detector      *)
(* requests, a tracker and the counter of line crossings.  One thread runs *)
(* all of it; only the requests complete on their own.                     *)
(*                                                                         *)
(* A track is an identity that ByteTrack gave out; which tracks a frame    *)
(* confirms, and on which side of the line, is any choice.  So is which of *)
(* the lost tracks a new one resembles: boxes, widths and classes are left *)
(* out.  Tensors, letterboxing and confidences are left out with them.     *)
(***************************************************************************)
EXTENDS Integers, FiniteSets

CONSTANTS
  Streams,    \* detector requests
  Stride,     \* AI_SKIP_FRAMES + 1
  Buffer,     \* AI_TRACK_BUFFER
  MaxLength,  \* bound on the frames of the video
  Track

VARIABLES
  pc,         \* where analyze is, or how it ended
  length,     \* the frames of the video
  read,       \* how many of them were read
  held,       \* the frame that was read and is not submitted yet
  submitted,  \* how many were submitted
  pending,    \* the frame in each request
  done,       \* the requests that have completed
  slot,       \* the request that is waited for
  current,    \* the frame that is being observed
  at,         \* last_observed_frame
  missed,     \* the tracker: frames since a track was confirmed
  todo,       \* the confirmed tracks of the frame that are not counted yet
  histories,  \* the counter's histories
  entered, exited,
  shutdown,
  sampled,    \* history: the frames observed with detections
  side,       \* history: the side every track was last confirmed on
  origin      \* history: the track and frame a history began with

ring == <<length, read, held, submitted, pending, done, slot, current>>
counter == <<missed, todo, histories, entered, exited, side, origin>>
vars == <<pc, ring, at, counter, shutdown, sampled>>

None == -1
Slots == 0 .. Streams - 1
Frames == 0 .. MaxLength - 1
Sides == {"above", "below"}
Ends == {"counted", "cancelled", "failed"}

NoHistory == [side |-> "none", age |-> None, pending |-> "none"]
Histories == {NoHistory} \cup
  [side : Sides \cup {"none"}, age : 0 .. Buffer, pending : Sides \cup {"none"}]

ASSUME CountingAssumption ==
  /\ Streams \in Nat \ {0} /\ Stride \in Nat \ {0} /\ Buffer \in Nat \ {0}
  /\ MaxLength \in Nat

CountingTypeOK ==
  /\ pc \in {"read", "wait", "observe", "predict", "drain"} \cup Ends
  /\ length \in 0 .. MaxLength /\ read \in 0 .. length
  /\ held \in Frames \cup {None} /\ current \in Frames \cup {None}
  /\ submitted \in Nat
  /\ pending \in [Slots -> Frames \cup {None}] /\ done \subseteq Slots
  /\ slot \in Slots
  /\ at \in Frames \cup {None}
  /\ missed \in [Track -> 0 .. Buffer \cup {None}]
  /\ todo \in [Track -> Sides \cup {"line", "none"}]
  /\ histories \in [Track -> Histories]
  /\ entered \in Nat /\ exited \in Nat
  /\ shutdown \in BOOLEAN
  /\ sampled \subseteq Frames
  /\ side \in [Track -> Sides \cup {"none"}]
  /\ origin \in [Track -> Track \X (Frames \cup {None})]

-----------------------------------------------------------------------------
(* The decoder and the ring of requests.                                   *)

\* Cancelled or failed: the requests that are pending are cancelled or dropped.
GiveUp(end) ==
  /\ pc' = end /\ pending' = [s \in Slots |-> None] /\ done' = {}
  /\ UNCHANGED <<length, read, held, submitted, slot, current, at, counter, shutdown, sampled>>

Interrupted == shutdown /\ pc \in {"read", "wait"} /\ GiveUp("cancelled")

\* read_sampled_frame: a frame between the samples is skipped.
SkipFrame ==
  /\ pc = "read" /\ ~shutdown /\ read < length /\ held = None
  /\ read % Stride # 0
  /\ read' = read + 1
  /\ UNCHANGED <<pc, length, held, submitted, pending, done, slot, current, at,
                 counter, shutdown, sampled>>

\* A sampled frame; its request may have to be waited for.
ReadFrame ==
  /\ pc = "read" /\ ~shutdown /\ read < length /\ held = None
  /\ read % Stride = 0
  /\ read' = read + 1 /\ held' = read
  /\ slot' = submitted % Streams
  /\ pc' = IF pending[slot'] = None THEN "read" ELSE "wait"
  /\ UNCHANGED <<length, submitted, pending, done, current, at, counter, shutdown, sampled>>

\* set_input_tensor, infer_async
Submit ==
  /\ pc = "read" /\ held # None
  /\ pending' = [pending EXCEPT ![slot] = held]
  /\ submitted' = submitted + 1 /\ held' = None
  /\ UNCHANGED <<pc, length, read, done, slot, current, at, counter, shutdown, sampled>>

\* The detector, on its own: requests complete in any order.
Complete(s) ==
  /\ pending[s] # None /\ s \notin done
  /\ done' = done \cup {s}
  /\ UNCHANGED <<pc, length, read, held, submitted, pending, slot, current, at,
                 counter, shutdown, sampled>>

\* finish_inference: the frame of the request that was waited for.
Finish ==
  /\ pc = "wait" /\ slot \in done /\ ~shutdown
  /\ pc' = "observe" /\ current' = pending[slot]
  /\ pending' = [pending EXCEPT ![slot] = None] /\ done' = done \ {slot}
  /\ UNCHANGED <<length, read, held, submitted, slot, at, counter, shutdown, sampled>>

\* Reading, converting, submitting or a request fails, with work in hand.
Fail == pc \in {"read", "wait"} /\ GiveUp("failed")

EndOfVideo ==
  /\ pc = "read" /\ ~shutdown /\ held = None /\ read = length
  /\ pc' = "drain"
  /\ UNCHANGED <<ring, at, counter, shutdown, sampled>>

Busy == {s \in Slots : pending[s] # None}

\* Mutant: the first slot that is pending.
FirstPending == CHOOSE s \in Busy : \A t \in Busy : s <= t

\* earliest_pending_slot
EarliestPending == CHOOSE s \in Busy : \A t \in Busy : pending[s] <= pending[t]

Drain ==
  /\ pc = "drain" /\ Busy # {}
  /\ slot' = EarliestPending /\ pc' = "wait"
  /\ UNCHANGED <<length, read, held, submitted, pending, done, current, at, counter,
                 shutdown, sampled>>

\* Without a frame there is no counter, and the analysis fails.
EndAnalysis ==
  /\ pc = "drain" /\ Busy = {}
  /\ pc' = IF at = None THEN "failed" ELSE "counted"
  /\ UNCHANGED <<ring, at, counter, shutdown, sampled>>

-----------------------------------------------------------------------------
(* observe_completed_frame: the skipped frames first, without detections,  *)
(* then the frame itself.                                                  *)

Known(t) == histories[t] # NoHistory
Confirmed == {t \in Track : todo[t] # "none"}

\* discard_expired_histories, at the next frame.
Discarded(h) ==
  IF h = NoHistory \/ h.age = Buffer THEN NoHistory ELSE [h EXCEPT !.age = @ + 1]

\* Tracker::update with what the frame confirmed: a track that is not
\* confirmed is predicted until it has been missed for too long.
Missed(m, confirmed) ==
  IF confirmed THEN 0 ELSE IF m = None \/ m = Buffer THEN None ELSE m + 1

BeginFrame(frame, found) ==
  /\ at' = frame /\ pc' = "predict"
  /\ todo' = found
  /\ missed' = [t \in Track |-> Missed(missed[t], found[t] # "none")]
  /\ histories' = [t \in Track |-> Discarded(histories[t])]
  /\ UNCHANGED <<ring, entered, exited, shutdown, side, origin>>

ObserveSkipped ==
  /\ pc = "observe" /\ at + 1 < current
  /\ BeginFrame(at + 1, [t \in Track |-> "none"])
  /\ UNCHANGED sampled

ObserveSampled ==
  /\ pc = "observe" /\ at + 1 >= current
  /\ \E found \in [Track -> Sides \cup {"line", "none"}] : BeginFrame(current, found)
  /\ sampled' = sampled \cup {current}

CountCrossing(from, to) ==
  /\ entered' = IF from = "above" /\ to = "below" THEN entered + 1 ELSE entered
  /\ exited' = IF from = "below" /\ to = "above" THEN exited + 1 ELSE exited

NewHistory(t) ==
  [side |-> IF todo[t] = "line" THEN histories[t].side ELSE todo[t],
   age |-> 0,
   pending |-> IF todo[t] = "line" THEN histories[t].pending ELSE "none"]

Counted(t) ==
  /\ todo' = [todo EXCEPT ![t] = "none"]
  /\ side' = IF todo[t] = "line" THEN side ELSE [side EXCEPT ![t] = todo[t]]
  /\ UNCHANGED <<pc, ring, at, missed, shutdown, sampled>>

\* observe_confirmed, of a track that is known, or is on the line, or
\* resembles none that was lost.
ObserveConfirmed(t) ==
  /\ pc = "predict" /\ todo[t] # "none"
  /\ IF todo[t] = "line" THEN UNCHANGED <<entered, exited>>
     ELSE CountCrossing(histories[t].side, todo[t])
  /\ histories' = [histories EXCEPT ![t] = NewHistory(t)]
  /\ origin' = IF Known(t) THEN origin ELSE [origin EXCEPT ![t] = <<t, at>>]
  /\ Counted(t)

\* The lost tracks that a new one may be: on the other side, within the
\* buffer, and not confirmed in this frame.
Recoverable(t) ==
  {l \in Track \ {t} : /\ Known(l) /\ histories[l].age > 0 /\ todo[l] = "none"
                      /\ histories[l].side \in Sides \ {todo[t]}}

\* Mutant: the history of a recovered track is kept.
RecoverAndKeep(t) ==
  /\ pc = "predict" /\ todo[t] \in Sides /\ ~Known(t)
  /\ \E l \in Recoverable(t) :
       /\ CountCrossing(histories[l].side, todo[t])
       /\ histories' = [histories EXCEPT ![t] = NewHistory(t)]
       /\ origin' = [origin EXCEPT ![t] = origin[l]]
  /\ Counted(t)

\* observe_confirmed with recover_lost_track: the lost track goes on under a
\* new identity, and its history is removed.
ObserveRecovered(t) ==
  /\ pc = "predict" /\ todo[t] \in Sides /\ ~Known(t)
  /\ \E l \in Recoverable(t) :
       /\ CountCrossing(histories[l].side, todo[t])
       /\ histories' = [histories EXCEPT ![t] = NewHistory(t), ![l] = NoHistory]
       /\ origin' = [origin EXCEPT ![t] = origin[l]]
  /\ Counted(t)

\* Mutant: a track is where it is predicted to be.
PredictSide(h, predicted) == [h EXCEPT !.side = predicted]

\* observe_prediction: a crossing that is predicted is pending, and not counted.
Predict(h, predicted) ==
  IF h.side # "none" /\ h.side # predicted THEN [h EXCEPT !.pending = predicted] ELSE h

Predicted == {t \in Track : missed[t] > 0 /\ Known(t)}

\* The predictions of the tracks that were not confirmed come last.  Then the
\* next frame, the frame that waits for the request, or the next request.
EndFrame ==
  /\ pc = "predict" /\ Confirmed = {}
  /\ \E to \in [Predicted -> Sides \cup {"line"}] :
       histories' = [t \in Track |->
         IF t \in Predicted /\ to[t] # "line" THEN Predict(histories[t], to[t])
         ELSE histories[t]]
  /\ IF at < current THEN pc' = "observe" /\ UNCHANGED current
     ELSE pc' = (IF held = None THEN "drain" ELSE "read") /\ current' = None
  /\ UNCHANGED <<length, read, held, submitted, pending, done, slot, at, missed, todo,
                 entered, exited, shutdown, sampled, side, origin>>

RequestShutdown ==
  /\ ~shutdown /\ pc \notin Ends
  /\ shutdown' = TRUE
  /\ UNCHANGED <<pc, ring, at, counter, sampled>>

CountingInit ==
  /\ pc = "read" /\ length \in 0 .. MaxLength /\ read = 0 /\ held = None
  /\ submitted = 0 /\ pending = [s \in Slots |-> None] /\ done = {} /\ slot = 0
  /\ current = None /\ at = None
  /\ missed = [t \in Track |-> None] /\ todo = [t \in Track |-> "none"]
  /\ histories = [t \in Track |-> NoHistory] /\ entered = 0 /\ exited = 0
  /\ shutdown = FALSE /\ sampled = {}
  /\ side = [t \in Track |-> "none"] /\ origin = [t \in Track |-> <<t, None>>]

Observation ==
  \/ ObserveSkipped \/ ObserveSampled \/ EndFrame
  \/ \E t \in Track : ObserveConfirmed(t) \/ ObserveRecovered(t)

Analyze ==
  \/ Interrupted \/ SkipFrame \/ ReadFrame \/ Submit \/ Finish \/ EndOfVideo \/ Drain
  \/ EndAnalysis \/ Observation

CountingNext ==
  \/ Analyze \/ Fail \/ RequestShutdown
  \/ \E s \in Slots : Complete(s)

CountingSpec == CountingInit /\ [][CountingNext]_vars

-----------------------------------------------------------------------------
(* Safety.                                                                 *)

Outcome == IF pc = "counted" THEN "counted" ELSE IF pc \in Ends THEN "none" ELSE "open"
Sequential == INSTANCE FrameByFrame WITH outcome <- Outcome

\* Whatever the order the requests complete in, the tracker and the counter
\* see every frame once and in order, the sampled ones with their detections,
\* and a count is given after the last one only ("applies ByteTrack updates in
\* source-frame order").
AnalysisIsSequential == Sequential!Spec

\* A crossing is counted when a track is confirmed on one side and it, or a
\* lost track it goes on from, was confirmed on the other: "a prediction may
\* mark a pending crossing, but the count is committed only after a confirmed
\* bbox crosses the line".
CountNeedsConfirmation ==
  [][/\ entered' # entered =>
          \E t, l \in Track : todo[t] = "below" /\ Known(l) /\ side[l] = "above"
     /\ exited' # exited =>
          \E t, l \in Track : todo[t] = "above" /\ Known(l) /\ side[l] = "below"]_vars

\* No two tracks go on from the same lost one: a person who is lost and found
\* again under a new identity is not counted a second time on its account.
LostTrackGoesOnOnce ==
  \A s, t \in Track : s # t /\ Known(s) /\ Known(t) => origin[s] # origin[t]
=============================================================================
