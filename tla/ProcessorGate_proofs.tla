-------------------------- MODULE ProcessorGate_proofs --------------------------
(***************************************************************************)
(* Proofs about module ProcessorGate, for any doors, timeouts, queue and   *)
(* number of restarts: what the gateway calls fresh is recent, and a claim *)
(* made on news that did not wait for the processor is made with the doors *)
(* closed a bounded time ago.                                              *)
(***************************************************************************)
EXTENDS ProcessorGate, DoorGateway_proofs

\* How long ago the doors may have been closed when the gateway says they are.
SaidLag == StaleTimeout + 1

\* Of the messages in the queue, those that say closed do so of a time that is
\* not longer than this ago.
ClosedWithin(lag) == \A i \in 1 .. Len(bus) : bus[i] = "closed" => sinceClosed <= lag

\* A processor that is not there is not subscribed.
NoGateNoBus == gate.pc = "down" => bus = <<>> /\ ~joined

\* When the last poll left nothing behind, what is in the queue was said since,
\* that is, not more than one unit of time ago.
QueueIsNew ==
  gate.pc = "poll" /\ gate.drained => ClosedWithin(IF polled THEN SaidLag ELSE SaidLag + 1)

\* What was heard when nothing had waited is as old as it was then and its age.
HeardIsKnown ==
  gate.pc # "down" /\ gate.latest = "closed" /\ prompt /\ gate.heardAge <= DoorStateTTL
    => sinceClosed <= SaidLag + 1 + gate.heardAge

GateInv ==
  /\ GatewayInv
  /\ gate \in Gate /\ polled \in BOOLEAN /\ prompt \in BOOLEAN
  /\ NoGateNoBus /\ QueueIsNew /\ HeardIsKnown /\ PromptAdmissionIsCurrent

LEMMA LagTyping ==
  /\ StaleTimeout \in Nat /\ DoorStateTTL \in Nat /\ SaidLag \in Nat
  /\ AdmissionLag = SaidLag + 1 + DoorStateTTL
BY GatewayAssumption, GateAssumption DEF TimingAccepted, SaidLag, AdmissionLag

LEMMA GateDownTyping == GateDown \in Gate
BY GateAssumption DEF GateDown, Gate, Ages

LEMMA GateInitial == GateInit => GateInv
<1> SUFFICES ASSUME GateInit PROVE GateInv
  OBVIOUS
<1>1. GatewayInv  BY GatewayInitial DEF GateInit
<1>2. gate = GateDown /\ gate.pc = "down"  BY DEF GateInit, GateDown
<1>3. bus = <<>> /\ ~joined /\ polled = FALSE /\ prompt = TRUE  BY DEF GateInit, GatewayInit
<1> QED
  BY <1>1, <1>2, <1>3, GateDownTyping
  DEF GateInv, NoGateNoBus, QueueIsNew, HeardIsKnown, PromptAdmissionIsCurrent

-----------------------------------------------------------------------------
(* What the gateway says.                                                  *)

\* A message that says closed is true of a time SaidLag ago at most.
LEMMA SaidClosed ==
  ASSUME GatewayInv', MessageOf(gateway') = "closed"
  PROVE  (sinceClosed <= SaidLag)'
<1>1. ~gateway'.stale /\ AllClosed(gateway'.shown)
  BY DEF MessageOf, AllClosed
<1>2. sinceClosed' <= gateway'.packetAge
  BY <1>1 DEF GatewayInv, FreshIsRecent, AllClosed
<1>3. gateway'.packetAge \in 0 .. StaleTimeout + 1 /\ sinceClosed' \in Nat
  BY LagTyping, AgesTyping DEF GatewayInv, GatewayTypeOK, Gateway, Ages
<1> QED  BY <1>2, <1>3, LagTyping DEF SaidLag

\* The queue after something was said, or not.
LEMMA SaidLast ==
  ASSUME GatewayInv, NEW message, bus' = Deliver(bus, message), NEW i \in 1 .. Len(bus')
  PROVE  (i \in 1 .. Len(bus) /\ bus'[i] = bus[i]) \/ bus'[i] = message
<1>1. bus \in Seq(Message)  BY DEF GatewayInv, GatewayTypeOK
<1>2. CASE bus' = bus  BY <1>2
<1>3. CASE bus' = Append(bus, message)
  BY <1>1, <1>3
<1> QED  BY <1>2, <1>3 DEF Deliver

\* Whatever the gateway does, time does not pass, and what it adds is recent.
LEMMA GatewayKeepsNews ==
  ASSUME GateInv, GatewayStep, UNCHANGED pgate
  PROVE  GateInv'
<1>1. GatewayInv'  BY GatewayStepKeeps DEF GateInv
<1>2. UNCHANGED <<joined, truth>>
  BY DEF GatewayStep, StartGateway, Connect, AcceptPacket, ReadNothing, ReadFails, Tick
<1>3. bus' = bus \/ bus' = Deliver(bus, MessageOf(gateway'))
  BY DEF GatewayStep, StartGateway, Connect, AcceptPacket, ReadNothing, ReadFails, Tick, Publish
<1>4. NoGateNoBus'
  BY <1>2, <1>3 DEF GateInv, NoGateNoBus, Deliver, pgate
<1>5. ASSUME NEW lag \in {SaidLag, SaidLag + 1}, ClosedWithin(lag) PROVE ClosedWithin(lag)'
  <2> SUFFICES ASSUME NEW i \in 1 .. Len(bus'), bus'[i] = "closed"
               PROVE  sinceClosed' <= lag
    BY DEF ClosedWithin, SaidLag
  <2>1. CASE i \in 1 .. Len(bus) /\ bus'[i] = bus[i]
    BY <1>2, <1>5, <2>1 DEF ClosedWithin, truth
  <2>2. CASE bus'[i] = MessageOf(gateway')
    <3>1. sinceClosed' <= SaidLag
      BY <1>1, <2>2, SaidClosed DEF SaidLag
    <3>2. sinceClosed' \in Nat
      BY <1>1, AgesTyping DEF GatewayInv, GatewayTypeOK, Ages
    <3> QED  BY <3>1, <3>2, LagTyping
  <2>3. \/ i \in 1 .. Len(bus) /\ bus'[i] = bus[i]
        \/ bus'[i] = MessageOf(gateway')
    BY <1>3, SaidLast DEF GateInv
  <2> QED  BY <2>1, <2>2, <2>3
<1>6. QueueIsNew'
  <2> SUFFICES ASSUME gate.pc = "poll" /\ gate.drained
               PROVE  ClosedWithin(IF polled THEN SaidLag ELSE SaidLag + 1)'
    BY DEF QueueIsNew, pgate
  <2>1. polled' = polled  BY DEF pgate
  <2>2. CASE polled
    <3>1. ClosedWithin(SaidLag)'  BY <1>5, <2>2 DEF GateInv, QueueIsNew
    <3> QED  BY <2>1, <2>2, <3>1 DEF ClosedWithin
  <2>3. CASE ~polled
    <3>1. ClosedWithin(SaidLag + 1)'  BY <1>5, <2>3 DEF GateInv, QueueIsNew
    <3> QED  BY <2>1, <2>3, <3>1 DEF ClosedWithin
  <2> QED  BY <2>2, <2>3
<1> QED
  BY <1>1, <1>2, <1>4, <1>6
  DEF GateInv, HeardIsKnown, PromptAdmissionIsCurrent, pgate, truth, SaidLag

\* The gateway dies, or a door moves: nothing is added, and the doors are not
\* closed longer ago than they were.
LEMMA WorldKeepsNews ==
  ASSUME GateInv, StopGateway \/ MoveDoor, UNCHANGED pgate
  PROVE  GateInv'
<1>1. GatewayInv'  BY StopGatewayKeeps, MoveDoorKeeps DEF GateInv
<1>2. /\ sinceClosed \in Nat /\ sinceClosed' \in Nat /\ sinceClosed' <= sinceClosed
      /\ bus \in Seq(Message)
  <2>1. sinceClosed \in Nat /\ sinceClosed' \in Nat /\ bus \in Seq(Message)
    BY <1>1, AgesTyping DEF GateInv, GatewayInv, GatewayTypeOK, Ages
  <2>2. sinceClosed' \in {0, sinceClosed}  BY DEF StopGateway, MoveDoor, truth
  <2> QED  BY <2>1, <2>2
<1>3. PICK n \in 0 .. Len(bus) : bus' = SubSeq(bus, 1, n)
  <2>1. CASE MoveDoor
    <3>1. bus' = SubSeq(bus, 1, Len(bus))  BY <1>2, <2>1 DEF MoveDoor
    <3> QED  BY <1>2, <3>1
  <2> QED  BY <2>1 DEF StopGateway
<1>4. Len(bus') <= Len(bus) /\ \A i \in 1 .. Len(bus') : i \in 1 .. Len(bus) /\ bus'[i] = bus[i]
  BY <1>2, <1>3
<1>5. NoGateNoBus'
  <2>1. joined' = joined \/ joined' = FALSE  BY DEF StopGateway, MoveDoor
  <2>2. bus = <<>> => bus' = <<>>  BY <1>2, <1>3
  <2> QED  BY <2>1, <2>2 DEF GateInv, NoGateNoBus, pgate
<1>6. QueueIsNew'
  BY <1>2, <1>4, LagTyping DEF GateInv, QueueIsNew, ClosedWithin, pgate
<1>7. HeardIsKnown'
  <2>1. gate.heardAge \in Nat  BY LagTyping DEF GateInv, Gate, Ages
  <2> QED  BY <1>2, <2>1, LagTyping DEF GateInv, HeardIsKnown, pgate
<1> QED  BY <1>1, <1>5, <1>6, <1>7 DEF GateInv, PromptAdmissionIsCurrent, pgate

-----------------------------------------------------------------------------
(* The processor.                                                          *)

LEMMA StartGateKeeps ==
  ASSUME GateInv, StartGate
  PROVE  GateInv'
<1>1. GatewayInv' /\ bus = <<>> /\ UNCHANGED <<bus, joined, sinceClosed>>
  BY DEF StartGate, gvars, truth, GateInv, GatewayInv, GatewayTypeOK, FreshIsRecent,
    HistoryIsNow, AllClosed, NoGateNoBus
<1>2. gate' \in Gate /\ gate'.pc = "poll" /\ gate'.latest = "none"
  BY GateDownTyping DEF StartGate, Gate, GateDown
<1>3. polled' = FALSE /\ prompt' = TRUE  BY DEF StartGate
<1>4. QueueIsNew'
  BY <1>1 DEF QueueIsNew, ClosedWithin
<1> QED
  BY <1>1, <1>2, <1>3, <1>4 DEF GateInv, NoGateNoBus, HeardIsKnown, PromptAdmissionIsCurrent

LEMMA JoinGateKeeps ==
  ASSUME GateInv, JoinGate
  PROVE  GateInv'
<1>1. joined' \in BOOLEAN /\ UNCHANGED <<gateway, bus, stops, truth, pgate>>
  BY DEF JoinGate
<1>2. GatewayInv'
  BY <1>1, ConsumerKeeps DEF GateInv, GatewayInv, GatewayTypeOK
<1> QED
  BY <1>1, <1>2
  DEF GateInv, NoGateNoBus, JoinGate, QueueIsNew, ClosedWithin, HeardIsKnown,
    PromptAdmissionIsCurrent, pgate, truth

\* What is taken from the queue is new if the last poll left nothing behind.
LEMMA PollGateKeeps ==
  ASSUME GateInv, PollGate
  PROVE  GateInv'
<1>1. PICK n \in Drainable :
        LET latest == Latest(n, gate.latest)
            age == IF n = 0 THEN gate.heardAge ELSE 0
            heard == [gate EXCEPT !.latest = latest, !.heardAge = age,
                        !.drained = (n = Len(bus)), !.late = FALSE] IN
        /\ Drain(n)
        /\ prompt' = IF n = 0 THEN prompt ELSE gate.drained
        /\ \/ gate' = heard /\ polled' = TRUE
           \/ /\ Allowed(latest, age)
              /\ gate' = [heard EXCEPT !.pc = "busy", !.late = (sinceClosed > AdmissionLag)]
              /\ polled' = FALSE
  BY DEF PollGate
<1> DEFINE latest == Latest(n, gate.latest)
           age == IF n = 0 THEN gate.heardAge ELSE 0
<1>2. /\ gate.pc = "poll" /\ gate \in Gate /\ prompt \in BOOLEAN /\ bus \in Seq(Message)
      /\ UNCHANGED <<gateway, joined, stops, truth>>
      /\ n \in 0 .. Len(bus) /\ sinceClosed \in Nat /\ Len(bus) \in Nat
  BY AgesTyping DEF PollGate, GateInv, GatewayInv, GatewayTypeOK, Drainable, Ages
<1>3. GatewayInv'
  BY <1>1, <1>2, ConsumerKeeps DEF GateInv, GatewayInv, GatewayTypeOK
<1>4. latest \in Message \cup {"none"} /\ age \in Ages(DoorStateTTL + 1) /\ age \in Nat
  BY <1>2, LagTyping DEF Gate, Latest, Ages
<1>5. gate' \in Gate /\ polled' \in BOOLEAN /\ prompt' \in BOOLEAN
  <2>1. prompt' \in BOOLEAN  BY <1>1, <1>2 DEF Gate
  <2>2. (n = Len(bus)) \in BOOLEAN /\ (sinceClosed > AdmissionLag) \in BOOLEAN
    OBVIOUS
  <2>3. gate' \in Gate /\ polled' \in BOOLEAN
    <3>1. CASE gate' = [gate EXCEPT !.latest = latest, !.heardAge = age,
                          !.drained = (n = Len(bus)), !.late = FALSE] /\ polled' = TRUE
      BY <1>2, <1>4, <2>2, <3>1 DEF Gate
    <3>2. CASE gate' = [gate EXCEPT !.latest = latest, !.heardAge = age,
                          !.drained = (n = Len(bus)), !.pc = "busy",
                          !.late = (sinceClosed > AdmissionLag)] /\ polled' = FALSE
      BY <1>2, <1>4, <2>2, <3>2 DEF Gate
    <3> QED  BY <1>1, <1>2, <3>1, <3>2
  <2> QED  BY <2>1, <2>3
<1>6. /\ gate'.pc \in {"poll", "busy"} /\ gate'.latest = latest /\ gate'.heardAge = age
      /\ gate'.drained => n = Len(bus)
      /\ gate'.pc = "poll" => polled'
      /\ gate'.pc = "busy" => /\ (gate'.late => sinceClosed > AdmissionLag)
                              /\ latest = "closed" /\ age <= DoorStateTTL
  BY <1>1, <1>2 DEF Gate, Allowed
<1>7. QueueIsNew'
  <2> SUFFICES ASSUME gate'.drained PROVE ClosedWithin(SaidLag)'
    BY <1>6 DEF QueueIsNew
  <2>1. bus' = <<>>
    BY <1>1, <1>2, <1>6 DEF Drain
  <2> QED  BY <2>1 DEF ClosedWithin
<1>8. prompt' /\ latest = "closed" /\ age <= DoorStateTTL => sinceClosed <= SaidLag + 1 + age
  <2>1. CASE n = 0
    BY <1>1, <1>2, <2>1 DEF Latest, GateInv, HeardIsKnown
  <2>2. CASE n # 0
    <3> SUFFICES ASSUME prompt', latest = "closed" PROVE sinceClosed <= SaidLag + 1 + age
      OBVIOUS
    <3>0. prompt' = gate.drained  BY <1>1, <2>2
    <3>1. gate.drained  BY <3>0
    <3>2. bus[n] = "closed" /\ n \in 1 .. Len(bus)
      BY <1>2, <2>2 DEF Latest
    <3>3. sinceClosed <= SaidLag \/ sinceClosed <= SaidLag + 1
      BY <1>2, <3>1, <3>2 DEF GateInv, QueueIsNew, ClosedWithin
    <3> QED  BY <1>2, <1>4, <3>3, LagTyping
  <2> QED  BY <2>1, <2>2
<1>9. HeardIsKnown'
  <2>1. sinceClosed' = sinceClosed  BY <1>2 DEF truth
  <2> QED  BY <1>6, <1>8, <2>1 DEF HeardIsKnown, SaidLag
<1>10. PromptAdmissionIsCurrent'
  BY <1>2, <1>4, <1>6, <1>8, LagTyping DEF PromptAdmissionIsCurrent
<1> QED
  BY <1>3, <1>5, <1>6, <1>7, <1>9, <1>10 DEF GateInv, NoGateNoBus

LEMMA FinishWorkKeeps ==
  ASSUME GateInv, FinishWork
  PROVE  GateInv'
<1>1. GatewayInv'
  BY DEF FinishWork, gvars, GateInv, GatewayInv, GatewayTypeOK, FreshIsRecent, HistoryIsNow,
    AllClosed
<1>2. /\ gate' \in Gate /\ gate'.pc = "poll" /\ gate'.drained = FALSE /\ gate'.late = FALSE
      /\ gate'.latest = gate.latest /\ gate'.heardAge = gate.heardAge /\ gate.pc = "busy"
  BY DEF FinishWork, GateInv, Gate
<1> QED
  BY <1>1, <1>2
  DEF GateInv, FinishWork, gvars, NoGateNoBus, QueueIsNew, HeardIsKnown,
    PromptAdmissionIsCurrent, SaidLag

LEMMA StopGateKeeps ==
  ASSUME GateInv, StopGate
  PROVE  GateInv'
<1>1. GatewayInv'
  <2>1. stops' \in Nat  BY DEF StopGate, GateInv, GatewayInv, GatewayTypeOK
  <2> QED  BY <2>1, ConsumerKeeps DEF StopGate, GateInv
<1>2. gate' \in Gate /\ gate'.pc = "down"  BY GateDownTyping DEF StopGate, GateDown
<1> QED
  BY <1>1, <1>2
  DEF GateInv, StopGate, NoGateNoBus, QueueIsNew, HeardIsKnown, PromptAdmissionIsCurrent

\* Time passes at most once between two polls: everything is one unit older.
LEMMA GateElapsesKeeps ==
  ASSUME GateInv, GateElapses
  PROVE  GateInv'
<1>1. GatewayInv'  BY ElapseKeeps DEF GateElapses, GateInv
<1>2. /\ sinceClosed \in Nat /\ sinceClosed' \in Nat /\ sinceClosed' <= sinceClosed + 1
  <2>1. sinceClosed \in Ages(MaxAge) /\ sinceClosed' \in Ages(MaxAge)
    BY <1>1 DEF GateInv, GatewayInv, GatewayTypeOK
  <2>2. sinceClosed' = IF AllClosed(doors) THEN 0 ELSE Aged(sinceClosed, MaxAge)
    BY DEF GateElapses, GatewayElapses
  <2> QED  BY <2>1, <2>2, AgesTyping, AgedTyping DEF Ages
<1>3. /\ gate \in Gate /\ gate.heardAge \in Ages(DoorStateTTL + 1) /\ DoorStateTTL + 1 \in Nat
      /\ UNCHANGED <<bus, joined, prompt>> /\ polled' = FALSE
      /\ gate.pc = "poll" => polled
  BY LagTyping DEF GateInv, Gate, GateElapses, GatewayElapses
<1> DEFINE older == IF gate.latest = "none" THEN 0 ELSE Aged(gate.heardAge, DoorStateTTL + 1)
<1>4. /\ older \in Ages(DoorStateTTL + 1)
      /\ gate.latest # "none" /\ older <= DoorStateTTL => older = gate.heardAge + 1
  <2>1. 0 \in Ages(DoorStateTTL + 1)  BY <1>3 DEF Ages
  <2> QED  BY <1>3, <2>1, LagTyping DEF Aged, Ages
<1>5. gate' = [gate EXCEPT !.heardAge = older]  BY DEF GateElapses
<1>6. /\ gate' \in Gate /\ gate'.heardAge = older /\ gate'.pc = gate.pc
      /\ gate'.latest = gate.latest /\ gate'.drained = gate.drained /\ gate'.late = gate.late
  BY <1>3, <1>4, <1>5 DEF Gate
<1>7. QueueIsNew'
  <2> SUFFICES ASSUME gate.pc = "poll", gate.drained, NEW i \in 1 .. Len(bus), bus[i] = "closed"
               PROVE  sinceClosed' <= SaidLag + 1
    BY <1>3, <1>6 DEF QueueIsNew, ClosedWithin, SaidLag
  <2>1. sinceClosed <= SaidLag  BY <1>3 DEF GateInv, QueueIsNew, ClosedWithin
  <2> QED  BY <1>2, <2>1, LagTyping
<1>8. HeardIsKnown'
  <2> SUFFICES ASSUME gate.pc # "down", gate.latest = "closed", prompt, older <= DoorStateTTL
               PROVE  sinceClosed' <= SaidLag + 1 + older
    BY <1>3, <1>6 DEF HeardIsKnown, SaidLag
  <2>1. older = gate.heardAge + 1 /\ gate.heardAge \in Nat
    BY <1>3, <1>4 DEF Ages
  <2>2. sinceClosed <= SaidLag + 1 + gate.heardAge
    BY <2>1, <1>3, LagTyping DEF GateInv, HeardIsKnown
  <2> QED  BY <1>2, <2>1, <2>2, LagTyping
<1> QED
  BY <1>1, <1>3, <1>6, <1>7, <1>8 DEF GateInv, NoGateNoBus, PromptAdmissionIsCurrent

-----------------------------------------------------------------------------
(* The theorems.                                                           *)

LEMMA GateInductive == GateInv /\ [GateNext]_pvars => GateInv'
<1> SUFFICES ASSUME GateInv, [GateNext]_pvars PROVE GateInv'
  OBVIOUS
<1>1. CASE UNCHANGED pvars
  BY <1>1
  DEF pvars, gvars, GateInv, GatewayInv, GatewayTypeOK, FreshIsRecent, HistoryIsNow, AllClosed,
    NoGateNoBus, QueueIsNew, ClosedWithin, HeardIsKnown, PromptAdmissionIsCurrent, SaidLag
<1> QED
  BY <1>1, GatewayKeepsNews, WorldKeepsNews, GateElapsesKeeps, StartGateKeeps, JoinGateKeeps,
    PollGateKeeps, FinishWorkKeeps, StopGateKeeps
  DEF GateNext

\* mark_stale_if_due: a running gateway's fresh snapshot is true of a time a
\* stale timeout and a read ago at most.
THEOREM FreshSnapshotsTrack == GateSpec => []SnapshotTracksDoors
<1>1. GateInv => SnapshotTracksDoors  BY RecentIsTracked DEF GateInv
<1> QED  BY <1>1, GateInitial, GateInductive, PTL DEF GateSpec

\* processing_allowed: a claim on news that did not wait is made with the doors
\* closed, or closed the age of the news and two steps of the way ago.
THEOREM PromptAdmissionProved == GateSpec => []PromptAdmissionIsCurrent
<1>1. GateInv => PromptAdmissionIsCurrent  BY DEF GateInv
<1> QED  BY <1>1, GateInitial, GateInductive, PTL DEF GateSpec

\* The types of gateway, queue and gate.
THEOREM GateTyping == GateSpec => []GateTypeOK
<1>1. GateInv => GateTypeOK  BY DEF GateInv, GatewayInv, GateTypeOK
<1> QED  BY <1>1, GateInitial, GateInductive, PTL DEF GateSpec
=============================================================================
