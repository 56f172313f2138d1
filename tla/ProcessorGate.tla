----------------------------- MODULE ProcessorGate -----------------------------
(***************************************************************************)
(* The processor's door gate (bins/pcrt-processor: runtime.rs, gate.rs):   *)
(* before every claim it drains the aggregate topic and asks whether what  *)
(* it heard last is fresh and says that all doors are closed.  While it    *)
(* analyses a video it does not look at the doors.  What a claim does is   *)
(* module Pipeline.                                                        *)
(***************************************************************************)
EXTENDS DoorGateway

CONSTANTS
  DoorStateTTL

VARIABLES
  gate,      \* the process: where its loop is, and its subscriber
  polled,    \* it has looked at the doors since time last passed
  prompt     \* history: what it heard last had not waited for it

pvars == <<gvars, gate, polled, prompt>>
pgate == <<gate, polled, prompt>>

Gate == [pc : {"down", "poll", "busy"},
         latest : Message \cup {"none"}, heardAge : Ages(DoorStateTTL + 1),
         drained : BOOLEAN,     \* history: the last poll left nothing behind
         late : BOOLEAN]        \* history: the doors were long open at the claim

ASSUME GateAssumption == DoorStateTTL \in Nat

\* How long ago the doors may have been closed when a claim is made: what was
\* heard may be DoorStateTTL old, waited one unit to be heard, and was itself
\* confirmed by the controller a stale timeout and one read before.
AdmissionLag == DoorStateTTL + 1 + StaleTimeout + 1

ASSUME HistoryIsLongEnough == MaxAge > AdmissionLag

GateTypeOK ==
  /\ GatewayTypeOK
  /\ gate \in Gate
  /\ polled \in BOOLEAN /\ prompt \in BOOLEAN

GateDown == [pc |-> "down", latest |-> "none", heardAge |-> 0, drained |-> TRUE,
             late |-> FALSE]

-----------------------------------------------------------------------------
\* Mutant: the age of what was heard is not looked at.
AllowedForever(latest, age) == latest = "closed"

\* DoorGate::processing_allowed
Allowed(latest, age) == latest = "closed" /\ age <= DoorStateTTL

StartGate ==
  /\ gate.pc = "down"
  /\ gate' = [GateDown EXCEPT !.pc = "poll"]
  /\ polled' = FALSE /\ prompt' = TRUE
  /\ UNCHANGED gvars

JoinGate ==
  /\ gate.pc # "down" /\ gateway.pc # "down" /\ ~joined
  /\ joined' = TRUE
  /\ UNCHANGED <<gateway, bus, stops, truth, pgate>>

\* drain, which notes the moment it takes a message as the moment it was
\* received, then the gate.  With the gate open a session is claimed, if one
\* is ready.
PollGate ==
  /\ gate.pc = "poll"
  /\ \E n \in Drainable :
       LET latest == Latest(n, gate.latest)
           age == IF n = 0 THEN gate.heardAge ELSE 0
           heard == [gate EXCEPT !.latest = latest, !.heardAge = age,
                       !.drained = (n = Len(bus)), !.late = FALSE] IN
       /\ Drain(n)
       /\ prompt' = IF n = 0 THEN prompt ELSE gate.drained
       /\ \/ gate' = heard /\ polled' = TRUE
          \/ /\ Allowed(latest, age)
             /\ gate' = [heard EXCEPT !.pc = "busy",
                           !.late = (sinceClosed > AdmissionLag)]
             /\ polled' = FALSE
  /\ UNCHANGED <<gateway, joined, stops, truth>>

\* The analysis is over: the loop looks at the doors again.
FinishWork ==
  /\ gate.pc = "busy"
  /\ gate' = [gate EXCEPT !.pc = "poll", !.late = FALSE, !.drained = FALSE]
  /\ UNCHANGED <<gvars, polled, prompt>>

\* The processor is killed, told to shut down, or exits on an error.
StopGate ==
  /\ gate.pc # "down" /\ stops < MaxStops
  /\ gate' = GateDown /\ polled' = FALSE /\ prompt' = TRUE
  /\ stops' = stops + 1 /\ joined' = FALSE /\ bus' = <<>>
  /\ UNCHANGED <<gateway, truth>>

\* An idle loop turns at least once in a unit of time; a busy one does not.
GateElapses ==
  /\ gate.pc = "poll" => polled
  /\ GatewayElapses
  /\ gate' = [gate EXCEPT !.heardAge =
                IF gate.latest = "none" THEN 0 ELSE Aged(@, DoorStateTTL + 1)]
  /\ polled' = FALSE
  /\ UNCHANGED prompt

GateInit == GatewayInit /\ gate = GateDown /\ polled = FALSE /\ prompt = TRUE

GateNext ==
  \/ (GatewayStep \/ StopGateway \/ MoveDoor) /\ UNCHANGED pgate
  \/ GateElapses
  \/ StartGate \/ JoinGate \/ PollGate \/ FinishWork \/ StopGate

GateSpec == GateInit /\ [][GateNext]_pvars

-----------------------------------------------------------------------------
(* Safety.                                                                 *)

\* A claim made on news that did not wait for the processor is made with the
\* doors closed, or closed a bounded time ago: through a gateway that dies, a
\* controller that goes silent and messages that are lost.
PromptAdmissionIsCurrent == gate.pc = "busy" /\ gate.late => ~prompt

\* "processor permits a new claim only when the aggregate is fresh and all
\* doors are closed", whatever it did before.
AdmissionIsCurrent == gate.pc = "busy" => ~gate.late
=============================================================================
