------------------------------- MODULE Recorder -------------------------------
(***************************************************************************)
(* One recorder (bins/pcrt-recorder with crates/pcrt-recording): it reads  *)
(* the state of its door from the gateway's bus and cuts its camera's      *)
(* video into one capture per interval in which the door was open.  The    *)
(* video is written by a child process, ffmpeg, which may die or stop      *)
(* reading at any time.  What begin_capture, finalize_capture and recovery *)
(* do on the disk is module SessionStorage.                                *)
(***************************************************************************)
EXTENDS DoorGateway

CONSTANTS
  MaxFrames   \* frames a capture may have

VARIABLES
  recorder,   \* the process: main loop, subscriber and lifecycle
  child,      \* its ffmpeg
  begun,      \* history: captures begun since the door was last seen closed
  failed      \* history: an encoder has failed since then

pencoder == <<recorder, child>>
phistory == <<begun, failed>>
rvars == <<gvars, pencoder, phistory>>

NoEncoder == -1

RecorderStates ==
  [pc : {"down", "poll", "frame", "write"},
   state : {"idle", "capturing", "discarded"}, frames : 0 .. MaxFrames,
   written : {NoEncoder} \cup 0 .. MaxFrames,  \* frames the encoder has accepted
   latest : Message \cup {"none"}]

ASSUME RecorderAssumption == MaxFrames \in Nat \ {0}

RecorderTypeOK ==
  /\ GatewayTypeOK
  /\ recorder \in RecorderStates
  /\ child \in {"none", "runs", "hangs"}
  /\ begun \in 0 .. 2 /\ failed \in BOOLEAN

Down == [pc |-> "down", state |-> "idle", frames |-> 0, written |-> NoEncoder,
         latest |-> "none"]

Stopped == recorder' = Down /\ child' = "none" /\ joined' = FALSE /\ bus' = <<>>

NothingSeen == begun' = 0 /\ failed' = FALSE
OneMoreBegun == IF recorder.state = "idle" /\ begun < 2 THEN begun + 1 ELSE begun

-----------------------------------------------------------------------------
(* The encoder and the lifecycle of a capture.                             *)

Ended(r) == [r EXCEPT !.state = "idle", !.frames = 0, !.written = NoEncoder]

\* An error of the encoder ends the process: the lifecycle is abandoned, the
\* child stopped and reaped, and main exits; the capture is left to recovery.
EncoderFails ==
  /\ Stopped /\ failed' = TRUE
  /\ UNCHANGED <<gateway, stops, truth>>

\* StartCapture, WriteFrame: begin_capture, FfmpegEncoder::start.
StartCapture(r) ==
  /\ r.state = "idle"
  /\ recorder' = [r EXCEPT !.state = "capturing", !.frames = 1, !.written = 1]
  /\ child' = "runs"

\* WriteFrame
WriteFrame(r) ==
  /\ r.state = "capturing" /\ r.frames < MaxFrames /\ child = "runs"
  /\ recorder' = [r EXCEPT !.frames = @ + 1, !.written = @ + 1]
  /\ UNCHANGED child

\* Mutant: a discarded capture leaves the recorder idle.
DiscardToIdle(r) ==
  /\ r.state = "capturing" /\ r.frames = MaxFrames /\ child = "runs"
  /\ recorder' = Ended(r)
  /\ child' = "none"

\* Mutant: the child of a discarded capture is not stopped.
DiscardForgetsChild(r) ==
  /\ r.state = "capturing" /\ r.frames = MaxFrames /\ child = "runs"
  /\ recorder' = [Ended(r) EXCEPT !.state = "discarded"]
  /\ UNCHANGED child

\* WriteFrame, DiscardCapture: the frame over the limit is still written, then
\* abort stops the child, whatever it does, and the capture is removed.
DiscardCapture(r) ==
  /\ r.state = "capturing" /\ r.frames = MaxFrames /\ child = "runs"
  /\ recorder' = [Ended(r) EXCEPT !.state = "discarded"]
  /\ child' = "none"

\* plan_frame with the door open, and the side effects it asks for.
Frame(r) ==
  \/ StartCapture(r) \/ WriteFrame(r) \/ DiscardCapture(r)
  \/ r.state = "discarded" /\ recorder' = r /\ UNCHANGED child

\* ffmpeg cannot be started, or its input is closed because it died.
FrameFails(r) ==
  /\ r.state = "idle" \/ (r.state = "capturing" /\ child = "runs")
  /\ EncoderFails /\ begun' = OneMoreBegun

\* finish: the input is closed and the child ends well, having been given the
\* frames the lifecycle counted.
Finalize(r) ==
  /\ r.state = "capturing" /\ child = "runs" /\ r.written = r.frames
  /\ recorder' = Ended(r)
  /\ child' = "none"

\* The child ends with an error, or is killed when the stop timeout is over.
FinalizeFails(r) == r.state = "capturing" /\ EncoderFails /\ UNCHANGED begun

\* acknowledge_closed_door: after a discarded capture the door may open again.
AcknowledgeClosed(r) ==
  /\ r.state # "capturing"
  /\ recorder' = [r EXCEPT !.state = "idle"]
  /\ UNCHANGED child

\* The child stops reading its input, and reads on or dies, which the next
\* use of it finds out.
ChildHangs == child = "runs" /\ child' = "hangs"
ChildReadsOn == child = "hangs" /\ child' = "runs"

ChildStep ==
  /\ ChildHangs \/ ChildReadsOn
  /\ UNCHANGED <<gvars, recorder, phistory>>

-----------------------------------------------------------------------------
(* The process.                                                            *)

\* A new process knows nothing of the door, nor of a capture that failed.
StartRecorder ==
  /\ recorder.pc = "down"
  /\ recorder' = [Down EXCEPT !.pc = "poll"]
  /\ UNCHANGED <<gvars, child, phistory>>

\* The subscription reaches the publisher; what was said before is lost.
JoinBus ==
  /\ recorder.pc # "down" /\ gateway.pc # "down" /\ ~joined
  /\ joined' = TRUE
  /\ UNCHANGED <<gateway, bus, stops, truth, pencoder, phistory>>

Heard(n) == [recorder EXCEPT !.pc = "frame", !.latest = Latest(n, recorder.latest)]

\* drain, then on_door_state with the door open: nothing is planned.
PollOpen ==
  /\ recorder.pc = "poll"
  /\ \E n \in Drainable :
       /\ Heard(n).latest = "open"
       /\ recorder' = Heard(n) /\ Drain(n)
  /\ UNCHANGED <<gateway, joined, stops, truth, child, phistory>>

\* drain, then on_door_state: closed, stale or unknown finalizes the capture,
\* or lifts the suppression after a discarded one.
PollClosed ==
  /\ recorder.pc = "poll"
  /\ \E n \in Drainable :
       /\ Heard(n).latest # "open"
       /\ \/ /\ Finalize(Heard(n)) \/ AcknowledgeClosed(Heard(n))
             /\ Drain(n) /\ NothingSeen
             /\ UNCHANGED <<gateway, joined, stops, truth>>
          \/ FinalizeFails(recorder)

Turn(r) == [r EXCEPT !.pc = "poll"]

\* write_all waits for as long as the child does not read: the process hangs
\* with it, since only finish and abort have a timeout.
BlockOnWrite ==
  /\ recorder.pc = "frame" /\ recorder.latest = "open"
  /\ recorder.state = "capturing" /\ child = "hangs"
  /\ recorder' = [recorder EXCEPT !.pc = "write"]
  /\ UNCHANGED <<gvars, child, phistory>>

\* A frame with the door open.
ReadFrame ==
  /\ recorder.pc \in {"frame", "write"} /\ recorder.latest = "open"
  /\ \/ /\ Frame(Turn(recorder))
        /\ begun' = OneMoreBegun
        /\ UNCHANGED <<gvars, failed>>
     \/ FrameFails(recorder)

\* The camera has no frame, or the door is closed and it is dropped.
ReadNoFrame ==
  /\ recorder.pc = "frame"
  /\ recorder' = Turn(recorder)
  /\ UNCHANGED <<gvars, child, phistory>>

\* A video file used as the source is at its end: the capture is finalized
\* and the file starts again.
ReadEndOfFile ==
  /\ recorder.pc = "frame" /\ recorder.state = "capturing"
  /\ \/ Finalize(Turn(recorder)) /\ NothingSeen /\ UNCHANGED gvars
     \/ FinalizeFails(recorder)

\* Controlled shutdown, noticed between two iterations: the capture is
\* finalized.
ShutDownRecorder ==
  /\ recorder.pc = "poll" /\ stops < MaxStops /\ stops' = stops + 1
  /\ recorder.state = "capturing" => child = "runs" /\ recorder.written = recorder.frames
  /\ Stopped /\ NothingSeen
  /\ UNCHANGED <<gateway, truth>>

\* The service is killed, its child with it, or it exits on an error of the
\* storage or the source: the capture is left to recovery.
StopRecorder ==
  /\ recorder.pc # "down" /\ stops < MaxStops /\ stops' = stops + 1
  /\ Stopped /\ NothingSeen
  /\ UNCHANGED <<gateway, truth>>

Elapse ==
  /\ GatewayElapses
  /\ UNCHANGED <<pencoder, phistory>>

RecorderStep == PollOpen \/ PollClosed \/ BlockOnWrite \/ ReadFrame \/ ReadNoFrame \/ ReadEndOfFile

RecorderInit ==
  /\ GatewayInit /\ recorder = Down /\ child = "none"
  /\ begun = 0 /\ failed = FALSE

RecorderNext ==
  \/ (GatewayStep \/ StopGateway \/ MoveDoor) /\ UNCHANGED <<pencoder, phistory>>
  \/ Elapse
  \/ StartRecorder \/ JoinBus \/ RecorderStep \/ ChildStep
  \/ ShutDownRecorder \/ StopRecorder

RecorderSpec == RecorderInit /\ [][RecorderNext]_rvars

\* Services that die are started again, those stopped on purpose by whoever did
\* it, and keep running their loops; time
\* passes, and a subscription arrives.  The controller behind the serial line
\* need never send anything and the camera need not deliver frames, but an
\* ffmpeg that does not read its input reads on or dies in the end: nothing in
\* the code would end a write that waits for it.
RecorderFairSpec ==
  /\ RecorderSpec
  /\ WF_rvars(GatewayStep /\ UNCHANGED <<pencoder, phistory>>)
  /\ SF_rvars(Elapse)
  /\ WF_rvars(StartRecorder) /\ WF_rvars(JoinBus) /\ SF_rvars(RecorderStep)
  /\ WF_rvars(ChildReadsOn /\ UNCHANGED <<gvars, recorder, phistory>>)

-----------------------------------------------------------------------------
(* Safety.                                                                 *)

\* There is an ffmpeg exactly while the lifecycle is capturing, it was given
\* the frames the lifecycle counted, one at least and never more than the
\* limit: whatever fails, none is left behind, the recorder never ends on its
\* "recording invariant" or frame count errors, and what it publishes is
\* neither empty nor over the limit.
EncoderMatchesLifecycle ==
  IF recorder.state = "capturing"
  THEN child # "none" /\ recorder.written = recorder.frames /\ recorder.frames \in 1 .. MaxFrames
  ELSE child = "none" /\ recorder.written = NoEncoder

\* Until the recorder sees the door closed or stale, its file ends or it is
\* restarted, it begins one capture at most, discarded ones included.
OneCapturePerInterval == begun > 1 => failed

-----------------------------------------------------------------------------
(* Liveness.                                                               *)

\* A capture under way when the door is closed ends, unless the door opens
\* again: a lost closing message is made up for by the heartbeat, a dead
\* controller by staleness, a dead gateway by its successor, and an ffmpeg
\* that does not end by the stop timeout.
ClosedDoorEndsCapture ==
  recorder.state = "capturing" /\ AllClosed(doors)
    ~> recorder.state # "capturing" \/ ~AllClosed(doors)
=============================================================================
