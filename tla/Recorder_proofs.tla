----------------------------- MODULE Recorder_proofs -----------------------------
(***************************************************************************)
(* Proofs about module Recorder, for any doors, timeouts, queue, frame     *)
(* limit and number of restarts: the encoder agrees with the lifecycle,    *)
(* and one capture at most is begun for an interval.                       *)
(***************************************************************************)
EXTENDS Recorder, DoorGateway_proofs

\* A capture is begun from idle only, and the recorder is idle again only when
\* it has seen the door closed, or an encoder has failed.
IntervalOK == ~failed => begun <= 1 /\ (recorder.state = "idle" => begun = 0)

\* A process that is down is idle.
DownIsIdle == recorder.pc = "down" => recorder.state = "idle"

RecInv ==
  /\ GatewayInv
  /\ recorder \in RecorderStates /\ child \in {"none", "runs", "hangs"}
  /\ begun \in 0 .. 2 /\ failed \in BOOLEAN
  /\ DownIsIdle /\ EncoderMatchesLifecycle /\ IntervalOK

\* The part of the invariant about the recorder and its child, and about the
\* history.
RecorderPart ==
  /\ recorder \in RecorderStates /\ child \in {"none", "runs", "hangs"}
  /\ DownIsIdle /\ EncoderMatchesLifecycle
HistoryPart == begun \in 0 .. 2 /\ failed \in BOOLEAN /\ IntervalOK

LEMMA Parts ==
  ASSUME GatewayInv', RecorderPart', HistoryPart'
  PROVE  RecInv'
BY DEF RecInv, RecorderPart, HistoryPart

LEMMA DownRecorder ==
  /\ Down \in RecorderStates /\ Down.pc = "down" /\ Down.state = "idle"
  /\ Down.written = NoEncoder
  /\ [Down EXCEPT !.pc = "poll"] \in RecorderStates
BY RecorderAssumption DEF Down, RecorderStates, NoEncoder

LEMMA EndedTyping ==
  ASSUME NEW r \in RecorderStates
  PROVE  /\ Ended(r) \in RecorderStates
         /\ Ended(r).pc = r.pc /\ Ended(r).state = "idle" /\ Ended(r).written = NoEncoder
<1>1. 0 \in 0 .. MaxFrames  BY RecorderAssumption
<1>0. Ended(r) = [r EXCEPT !.state = "idle", !.frames = 0, !.written = NoEncoder]  BY DEF Ended
<1>2. Ended(r) = [pc |-> r.pc, state |-> "idle", frames |-> 0, written |-> NoEncoder,
                  latest |-> r.latest]
  BY <1>0, Zenon DEF RecorderStates
<1> QED  BY <1>1, <1>2 DEF RecorderStates

LEMMA RecorderInitial == RecorderInit => RecInv
<1> SUFFICES ASSUME RecorderInit PROVE RecInv
  OBVIOUS
<1>1. GatewayInv  BY GatewayInitial DEF RecorderInit
<1>2. recorder = Down /\ child = "none" /\ begun = 0 /\ failed = FALSE  BY DEF RecorderInit
<1>3. recorder \in RecorderStates /\ recorder.state = "idle" /\ recorder.written = NoEncoder
  BY <1>2, DownRecorder
<1>4. DownIsIdle /\ EncoderMatchesLifecycle
  BY <1>2, <1>3, Zenon DEF DownIsIdle, EncoderMatchesLifecycle
<1>5. begun \in 0 .. 2 /\ begun <= 1 /\ begun = 0  BY <1>2
<1>6. failed \in BOOLEAN  BY <1>2
<1> QED  BY <1>1, <1>2, <1>3, <1>4, <1>5, <1>6 DEF RecInv, IntervalOK

-----------------------------------------------------------------------------
(* The side effects of the lifecycle.                                      *)

\* A process that stops takes its child with it.
LEMMA StoppedKeeps ==
  ASSUME Stopped
  PROVE  RecorderPart'
<1>1. recorder' = Down /\ child' = "none"  BY DEF Stopped
<1>2. /\ recorder' \in RecorderStates /\ recorder'.state = "idle"
      /\ recorder'.written = NoEncoder
  BY <1>1, DownRecorder
<1> QED  BY <1>1, <1>2, Zenon DEF RecorderPart, DownIsIdle, EncoderMatchesLifecycle

\* Seeing the door closed makes the history new.
LEMMA NothingSeenKeeps ==
  ASSUME NothingSeen
  PROVE  HistoryPart'
<1>1. begun' \in 0 .. 2 /\ begun' <= 1 /\ begun' = 0  BY DEF NothingSeen
<1>2. failed' \in BOOLEAN  BY DEF NothingSeen
<1> QED  BY <1>1, <1>2, Zenon DEF HistoryPart, IntervalOK

\* A recorder that differs from this one only in where it is and what it heard.
Alike(r) ==
  /\ r \in RecorderStates /\ r.pc # "down"
  /\ r.state = recorder.state /\ r.frames = recorder.frames /\ r.written = recorder.written

LEMMA AlikeKeeps ==
  ASSUME RecInv, NEW r, Alike(r), recorder' = r, child' = child
  PROVE  RecorderPart'
<1>1. /\ recorder' \in RecorderStates /\ recorder'.pc # "down"
      /\ recorder'.state = recorder.state /\ recorder'.frames = recorder.frames
      /\ recorder'.written = recorder.written /\ child' \in {"none", "runs", "hangs"}
  BY DEF Alike, RecInv
<1>2. EncoderMatchesLifecycle'
  BY <1>1 DEF RecInv, EncoderMatchesLifecycle
<1> QED  BY <1>1, <1>2 DEF RecorderPart, DownIsIdle

LEMMA FinalizeKeeps ==
  ASSUME RecInv, NEW r, Alike(r), Finalize(r)
  PROVE  RecorderPart'
<1>1. recorder' = Ended(r) /\ child' = "none"  BY DEF Finalize
<1>2. /\ recorder' \in RecorderStates /\ recorder'.state = "idle"
      /\ recorder'.written = NoEncoder
  BY <1>1, EndedTyping DEF Alike
<1> QED  BY <1>1, <1>2 DEF RecorderPart, DownIsIdle, EncoderMatchesLifecycle

LEMMA AcknowledgeKeeps ==
  ASSUME RecInv, NEW r, Alike(r), AcknowledgeClosed(r)
  PROVE  RecorderPart'
<1>1. recorder' = [r EXCEPT !.state = "idle"] /\ child' = child /\ r.state # "capturing"
  BY DEF AcknowledgeClosed
<1>2. /\ recorder' \in RecorderStates /\ recorder'.state = "idle"
      /\ recorder'.written = recorder.written
  BY <1>1 DEF Alike, RecorderStates
<1> QED
  BY <1>1, <1>2 DEF Alike, RecInv, RecorderPart, DownIsIdle, EncoderMatchesLifecycle

\* A frame with the door open: what it does to the encoder, and when it begins a
\* capture.
LEMMA FrameKeeps ==
  ASSUME RecInv, NEW r, Alike(r), Frame(r)
  PROVE  /\ RecorderPart'
         /\ recorder'.state = "idle" => FALSE
<1>0. MaxFrames \in Nat /\ MaxFrames >= 1  BY RecorderAssumption
<1>1. CASE StartCapture(r)
  <2>1. /\ recorder' \in RecorderStates /\ recorder'.state = "capturing"
        /\ recorder'.frames = 1 /\ recorder'.written = 1 /\ recorder'.pc = r.pc
    <3>1. 1 \in 0 .. MaxFrames  BY <1>0
    <3>2. r \in RecorderStates  BY DEF Alike
    <3>3. recorder' = [r EXCEPT !.state = "capturing", !.frames = 1, !.written = 1]
      BY <1>1 DEF StartCapture
    <3>4. recorder' = [pc |-> r.pc, state |-> "capturing", frames |-> 1, written |-> 1,
                       latest |-> r.latest]
      BY <3>2, <3>3, Zenon DEF RecorderStates
    <3> QED  BY <3>1, <3>2, <3>4 DEF RecorderStates
  <2>2. child' = "runs"  BY <1>1 DEF StartCapture
  <2> QED
    BY <1>0, <2>1, <2>2 DEF Alike, RecorderPart, DownIsIdle, EncoderMatchesLifecycle
<1>2. CASE WriteFrame(r)
  <2>1. /\ recorder.written = recorder.frames /\ recorder.frames \in 1 .. MaxFrames
        /\ r.frames < MaxFrames
    BY <1>2 DEF WriteFrame, Alike, RecInv, EncoderMatchesLifecycle
  <2>2. r.frames + 1 \in 1 .. MaxFrames /\ r.written + 1 = r.frames + 1
    BY <1>0, <2>1 DEF Alike
  <2>3. /\ recorder' \in RecorderStates /\ recorder'.state = "capturing"
        /\ recorder'.frames = r.frames + 1 /\ recorder'.written = r.written + 1
        /\ recorder'.pc = r.pc
    <3>1. r.frames + 1 \in 0 .. MaxFrames /\ r.written + 1 \in 0 .. MaxFrames  BY <1>0, <2>2
    <3>2. recorder' = [r EXCEPT !.frames = r.frames + 1, !.written = r.written + 1]
      BY <1>2 DEF WriteFrame
    <3>3. r \in RecorderStates /\ r.state = "capturing"  BY <1>2 DEF WriteFrame, Alike
    <3>4. recorder' = [pc |-> r.pc, state |-> r.state, frames |-> r.frames + 1,
                       written |-> r.written + 1, latest |-> r.latest]
      BY <3>2, <3>3, Zenon DEF RecorderStates
    <3> QED  BY <3>1, <3>3, <3>4 DEF RecorderStates
  <2>4. child' = "runs"  BY <1>2 DEF WriteFrame
  <2> QED
    BY <2>2, <2>3, <2>4 DEF Alike, RecorderPart, DownIsIdle, EncoderMatchesLifecycle
<1>3. CASE DiscardCapture(r)
  <2>1. /\ recorder' \in RecorderStates /\ recorder'.state = "discarded"
        /\ recorder'.written = NoEncoder /\ recorder'.pc = r.pc
    <3>1. recorder' = [Ended(r) EXCEPT !.state = "discarded"]  BY <1>3 DEF DiscardCapture
    <3> DEFINE e == Ended(r)
    <3>2. e \in RecorderStates /\ e.pc = r.pc /\ e.written = NoEncoder
      BY EndedTyping DEF Alike
    <3> HIDE DEF e
    <3> QED  BY <3>1, <3>2 DEF e, RecorderStates
  <2>2. child' = "none"  BY <1>3 DEF DiscardCapture
  <2> QED
    BY <2>1, <2>2 DEF Alike, RecorderPart, DownIsIdle, EncoderMatchesLifecycle
<1>4. CASE r.state = "discarded" /\ recorder' = r /\ UNCHANGED child
  BY <1>4, AlikeKeeps DEF Alike
<1> QED  BY <1>1, <1>2, <1>3, <1>4 DEF Frame

\* A failed encoder makes the history say so, whatever was begun.
LEMMA FailedKeeps ==
  ASSUME RecInv, EncoderFails, begun' = begun \/ begun' = OneMoreBegun
  PROVE  RecInv'
<1>1. RecorderPart'  BY StoppedKeeps DEF EncoderFails
<1>2. begun' \in 0 .. 2  BY DEF RecInv, OneMoreBegun
<1>3. HistoryPart'  BY <1>2 DEF EncoderFails, HistoryPart, IntervalOK
<1>4. GatewayInv'
  BY ConsumerKeeps DEF EncoderFails, Stopped, RecInv, GatewayInv, GatewayTypeOK
<1> QED  BY <1>1, <1>3, <1>4, Parts

-----------------------------------------------------------------------------
(* The actions.                                                            *)

LEMMA HeardAlike ==
  ASSUME RecInv, NEW n \in Drainable
  PROVE  Alike(Heard(n)) /\ n \in 0 .. Len(bus)
<1>1. n \in 0 .. Len(bus) /\ bus \in Seq(Message) /\ recorder \in RecorderStates
  BY DEF Drainable, RecInv, GatewayInv, GatewayTypeOK
<1>2. Latest(n, recorder.latest) \in Message \cup {"none"}
  BY <1>1 DEF Latest, RecorderStates
<1> QED  BY <1>1, <1>2 DEF Heard, Alike, RecorderStates

LEMMA DrainKeepsGateway ==
  ASSUME RecInv, NEW n \in Drainable, Drain(n), UNCHANGED <<gateway, joined, stops, truth>>
  PROVE  GatewayInv'
BY HeardAlike, ConsumerKeeps DEF RecInv, GatewayInv, GatewayTypeOK

LEMMA PollOpenKeeps ==
  ASSUME RecInv, PollOpen
  PROVE  RecInv'
<1>1. PICK n \in Drainable : recorder' = Heard(n) /\ Drain(n)  BY DEF PollOpen
<1>2. UNCHANGED <<gateway, joined, stops, truth, child, phistory>>  BY DEF PollOpen
<1>3. GatewayInv'  BY <1>1, <1>2, DrainKeepsGateway
<1>4. RecorderPart'  BY <1>1, <1>2, HeardAlike, AlikeKeeps
<1>5. HistoryPart'
  BY <1>1, <1>2, HeardAlike DEF RecInv, HistoryPart, IntervalOK, phistory, Alike
<1> QED  BY <1>3, <1>4, <1>5, Parts

LEMMA PollClosedKeeps ==
  ASSUME RecInv, PollClosed
  PROVE  RecInv'
<1>1. PICK n \in Drainable :
        \/ /\ Finalize(Heard(n)) \/ AcknowledgeClosed(Heard(n))
           /\ Drain(n) /\ NothingSeen
           /\ UNCHANGED <<gateway, joined, stops, truth>>
        \/ FinalizeFails(recorder)
  BY DEF PollClosed
<1>2. CASE FinalizeFails(recorder)
  BY <1>2, FailedKeeps DEF FinalizeFails
<1>3. CASE /\ Finalize(Heard(n)) \/ AcknowledgeClosed(Heard(n))
           /\ Drain(n) /\ NothingSeen
           /\ UNCHANGED <<gateway, joined, stops, truth>>
  <2>1. GatewayInv'  BY <1>3, DrainKeepsGateway
  <2>2. RecorderPart'  BY <1>3, HeardAlike, FinalizeKeeps, AcknowledgeKeeps
  <2>3. HistoryPart'  BY <1>3, NothingSeenKeeps
  <2> QED  BY <2>1, <2>2, <2>3, Parts
<1> QED  BY <1>1, <1>2, <1>3

LEMMA TurnAlike ==
  ASSUME RecInv PROVE Alike(Turn(recorder))
BY DEF RecInv, Turn, Alike, RecorderStates

LEMMA GvarsKept ==
  ASSUME RecInv, UNCHANGED gvars PROVE GatewayInv'
BY DEF gvars, RecInv, GatewayInv, GatewayTypeOK, FreshIsRecent, HistoryIsNow, AllClosed

LEMMA ReadFrameKeeps ==
  ASSUME RecInv, ReadFrame
  PROVE  RecInv'
<1>1. CASE FrameFails(recorder)
  BY <1>1, FailedKeeps DEF FrameFails
<1>2. CASE Frame(Turn(recorder)) /\ begun' = OneMoreBegun /\ UNCHANGED <<gvars, failed>>
  <2>1. RecorderPart' /\ recorder'.state # "idle"
    BY <1>2, TurnAlike, FrameKeeps
  <2>2. begun' \in 0 .. 2 /\ (~failed => begun' <= 1)
    BY <1>2 DEF RecInv, IntervalOK, OneMoreBegun
  <2>3. HistoryPart'  BY <1>2, <2>1, <2>2 DEF RecInv, HistoryPart, IntervalOK
  <2> QED  BY <1>2, <2>1, <2>3, GvarsKept, Parts
<1> QED  BY <1>1, <1>2 DEF ReadFrame

LEMMA ReadEndOfFileKeeps ==
  ASSUME RecInv, ReadEndOfFile
  PROVE  RecInv'
<1>1. CASE FinalizeFails(recorder)
  BY <1>1, FailedKeeps DEF FinalizeFails
<1>2. CASE Finalize(Turn(recorder)) /\ NothingSeen /\ UNCHANGED gvars
  BY <1>2, TurnAlike, FinalizeKeeps, NothingSeenKeeps, GvarsKept, Parts
<1> QED  BY <1>1, <1>2 DEF ReadEndOfFile

\* A step that only moves the process on.
LEMMA AlikeStepKeeps ==
  ASSUME RecInv, NEW r, Alike(r), recorder' = r, UNCHANGED <<gvars, child, phistory>>
  PROVE  RecInv'
<1>1. RecorderPart' /\ GatewayInv'  BY AlikeKeeps, GvarsKept
<1>2. HistoryPart'  BY DEF RecInv, Alike, HistoryPart, IntervalOK, phistory
<1> QED  BY <1>1, <1>2, Parts

LEMMA RecorderStepKeeps ==
  ASSUME RecInv, RecorderStep
  PROVE  RecInv'
<1>1. CASE BlockOnWrite
  <2>1. Alike([recorder EXCEPT !.pc = "write"])
    BY DEF RecInv, Alike, RecorderStates
  <2> QED  BY <1>1, <2>1, AlikeStepKeeps DEF BlockOnWrite
<1>2. CASE ReadNoFrame
  BY <1>2, TurnAlike, AlikeStepKeeps DEF ReadNoFrame
<1> QED
  BY <1>1, <1>2, PollOpenKeeps, PollClosedKeeps, ReadFrameKeeps, ReadEndOfFileKeeps
  DEF RecorderStep

LEMMA StartRecorderKeeps ==
  ASSUME RecInv, StartRecorder
  PROVE  RecInv'
<1>1. /\ recorder' \in RecorderStates /\ recorder'.state = "idle"
      /\ recorder'.written = NoEncoder
  BY DownRecorder DEF StartRecorder, Down, RecorderStates
<1>2. recorder.state = "idle" /\ UNCHANGED <<gvars, child, phistory>>
  BY DEF StartRecorder, RecInv, DownIsIdle
<1>3. RecorderPart'
  BY <1>1, <1>2 DEF RecInv, RecorderPart, DownIsIdle, EncoderMatchesLifecycle
<1>4. HistoryPart'
  BY <1>1, <1>2 DEF RecInv, HistoryPart, IntervalOK, phistory
<1> QED  BY <1>2, <1>3, <1>4, GvarsKept, Parts

LEMMA StopKeeps ==
  ASSUME RecInv, ShutDownRecorder \/ StopRecorder
  PROVE  RecInv'
<1>1. Stopped /\ NothingSeen /\ UNCHANGED <<gateway, truth>> /\ stops' = stops + 1
  BY DEF ShutDownRecorder, StopRecorder
<1>2. stops' \in Nat  BY <1>1 DEF RecInv, GatewayInv, GatewayTypeOK
<1>3. GatewayInv'  BY <1>1, <1>2, ConsumerKeeps DEF Stopped, RecInv
<1> QED  BY <1>1, <1>3, StoppedKeeps, NothingSeenKeeps, Parts

LEMMA OthersKeep ==
  ASSUME RecInv, UNCHANGED <<pencoder, phistory>>, GatewayInv'
  PROVE  RecInv'
BY DEF RecInv, pencoder, phistory, DownIsIdle, EncoderMatchesLifecycle, IntervalOK

LEMMA RecorderInductive == RecInv /\ [RecorderNext]_rvars => RecInv'
<1> SUFFICES ASSUME RecInv, [RecorderNext]_rvars PROVE RecInv'
  OBVIOUS
<1>1. CASE (GatewayStep \/ StopGateway \/ MoveDoor) /\ UNCHANGED <<pencoder, phistory>>
  <2>1. GatewayInv'
    BY <1>1, GatewayStepKeeps, StopGatewayKeeps, MoveDoorKeeps DEF RecInv
  <2> QED  BY <1>1, <2>1, OthersKeep
<1>2. CASE Elapse
  <2>1. GatewayInv'  BY <1>2, ElapseKeeps DEF Elapse, RecInv
  <2> QED  BY <1>2, <2>1, OthersKeep DEF Elapse
<1>3. CASE JoinBus
  <2>1. GatewayInv'
    BY <1>3, ConsumerKeeps DEF JoinBus, RecInv, GatewayInv, GatewayTypeOK
  <2> QED  BY <1>3, <2>1, OthersKeep DEF JoinBus
<1>4. CASE ChildStep
  <2>1. GatewayInv'  BY <1>4, GvarsKept DEF ChildStep
  <2>2. child # "none" /\ child' \in {"runs", "hangs"}
    BY <1>4 DEF ChildStep, ChildHangs, ChildReadsOn, RecInv
  <2> QED
    BY <1>4, <2>1, <2>2
    DEF ChildStep, RecInv, DownIsIdle, EncoderMatchesLifecycle, IntervalOK, phistory
<1>5. CASE UNCHANGED rvars
  BY <1>5, GvarsKept, OthersKeep DEF rvars
<1> QED
  BY <1>1, <1>2, <1>3, <1>4, <1>5, RecorderStepKeeps, StartRecorderKeeps, StopKeeps
  DEF RecorderNext

-----------------------------------------------------------------------------
(* The theorems.                                                           *)

\* FfmpegEncoder and RecordingLifecycle: there is a child exactly while a
\* capture is under way, with the frames that were counted, whatever fails.
THEOREM EncoderAgrees == RecorderSpec => []EncoderMatchesLifecycle
<1>1. RecInv => EncoderMatchesLifecycle  BY DEF RecInv
<1> QED  BY <1>1, RecorderInitial, RecorderInductive, PTL DEF RecorderSpec

\* on_door_state, plan_frame: an interval the recorder sees has one capture at
\* most, unless an encoder failed in it.
THEOREM OneCaptureProved == RecorderSpec => []OneCapturePerInterval
<1>1. RecInv => OneCapturePerInterval
  BY DEF RecInv, IntervalOK, OneCapturePerInterval
<1> QED  BY <1>1, RecorderInitial, RecorderInductive, PTL DEF RecorderSpec

\* The types of gateway, bus and recorder.
THEOREM RecorderTyping == RecorderSpec => []RecorderTypeOK
<1>1. RecInv => RecorderTypeOK  BY DEF RecInv, GatewayInv, RecorderTypeOK
<1> QED  BY <1>1, RecorderInitial, RecorderInductive, PTL DEF RecorderSpec
=============================================================================
