------------------------------ MODULE LicensedBus ------------------------------
(***************************************************************************)
(* A recorder on a computer whose licence may be over.  The recorder only  *)
(* writes the state of the licence to its log; the gateway it hears the    *)
(* doors from looks at the licence when it starts, before it connects and  *)
(* before every read, and exits without one.  What makes a licence valid   *)
(* is module Licensing.  Nothing else goes wrong here: the controller      *)
(* sends a packet for every read, the camera delivers frames, ffmpeg takes *)
(* them, and nobody is killed.                                             *)
(***************************************************************************)
EXTENDS Recorder

VARIABLE licensed

lbvars == <<rvars, licensed>>

\* Where the gateway looks at the licence.
Asks ==
  \/ gateway.pc = "down"
  \/ gateway.pc = "connect" /\ ~gateway.connected /\ gateway.retryIn = 0
  \/ gateway.pc = "read" /\ gateway.connected

LicensedGatewayStep ==
  /\ Asks => licensed
  /\ StartGateway \/ (Connect /\ gateway'.connected) \/ AcceptPacket \/ Tick
  /\ UNCHANGED <<pencoder, phistory, licensed>>

\* The gateway exits; a process started in its place exits at once.
DenyGateway ==
  /\ Asks /\ ~licensed /\ gateway.pc # "down"
  /\ gateway' = DownGateway
  /\ \E sent \in 0 .. Len(bus) : bus' = SubSeq(bus, 1, sent)
  /\ joined' = FALSE
  /\ UNCHANGED <<stops, truth, pencoder, phistory, licensed>>

\* The last day is over, or the disk was replaced.
LoseLicence ==
  /\ licensed /\ licensed' = FALSE
  /\ UNCHANGED rvars

\* log_license_status changes nothing the recorder does.
HealthyRecorderStep ==
  /\ \/ StartRecorder \/ JoinBus \/ PollOpen \/ PollClosed \/ ReadFrame
     \/ recorder.latest # "open" /\ ReadNoFrame
  /\ recorder'.pc # "down"
  /\ UNCHANGED licensed

LicensedBusInit == RecorderInit /\ licensed \in BOOLEAN

LicensedBusNext ==
  \/ LicensedGatewayStep \/ DenyGateway \/ LoseLicence \/ HealthyRecorderStep
  \/ /\ Elapse \/ (MoveDoor /\ UNCHANGED <<pencoder, phistory>>)
     /\ UNCHANGED licensed

\* The services run and hear each other.
LicensedBusFairSpec ==
  /\ LicensedBusInit /\ [][LicensedBusNext]_lbvars
  /\ WF_lbvars(LicensedGatewayStep) /\ WF_lbvars(DenyGateway)
  /\ SF_lbvars(JoinBus /\ UNCHANGED licensed) /\ WF_lbvars(HealthyRecorderStep)

\* "A licence error must not deprive the bus of video data": a door that stays
\* open is recorded.
LicenceErrorKeepsRecording ==
  ~AllClosed(doors) ~> recorder.state # "idle" \/ AllClosed(doors)
=============================================================================
