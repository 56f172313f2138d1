--------------------------- MODULE DoorGateway_proofs ---------------------------
(***************************************************************************)
(* Lemmas about module DoorGateway, for any doors, timeouts in the order   *)
(* the configuration enforces, length of the queue and number of restarts. *)
(* Modules ProcessorGate_proofs and Recorder_proofs use them.              *)
(***************************************************************************)
EXTENDS DoorGateway, SequenceTheorems, TLAPS

\* What a running gateway calls fresh was confirmed by the controller less than
\* the stale timeout ago, and by one read more before it has looked at the
\* clock again; and the doors were so when it was confirmed.
FreshIsRecent ==
  ~gateway.stale =>
    /\ gateway.pc # "down"
    /\ gateway.pc = "connect" \/ (gateway.pc = "read" /\ gateway.waited = 0)
         => gateway.packetAge <= StaleTimeout
    /\ IF AllClosed(gateway.shown) THEN sinceClosed <= gateway.packetAge
       ELSE sinceOpen <= gateway.packetAge

\* The history says how the doors are now.
HistoryIsNow == IF AllClosed(doors) THEN sinceClosed = 0 ELSE sinceOpen = 0

GatewayInv == GatewayTypeOK /\ FreshIsRecent /\ HistoryIsNow

-----------------------------------------------------------------------------
(* The bus.                                                                *)

\* Deliver keeps the queue within its limit.
LEMMA DeliverTyping ==
  ASSUME NEW q \in Seq(Message), Len(q) <= Limit, NEW message \in Message
  PROVE  Deliver(q, message) \in Seq(Message) /\ Len(Deliver(q, message)) <= Limit
<1>1. Limit \in Nat  BY GatewayAssumption
<1>2. CASE joined /\ Len(q) < Limit
  <2>1. Append(q, message) \in Seq(Message) /\ Len(Append(q, message)) = Len(q) + 1
    BY AppendProperties
  <2> QED  BY <1>1, <1>2, <2>1 DEF Deliver
<1>3. CASE ~(joined /\ Len(q) < Limit)  BY <1>3 DEF Deliver
<1> QED  BY <1>2, <1>3

\* A beginning of the queue, or what drain leaves of it, is a queue.
LEMMA PartOfQueue ==
  ASSUME NEW q \in Seq(Message), Len(q) <= Limit, NEW n \in 0 .. Len(q)
  PROVE  /\ SubSeq(q, 1, n) \in Seq(Message) /\ Len(SubSeq(q, 1, n)) <= Limit
         /\ SubSeq(q, n + 1, Len(q)) \in Seq(Message)
         /\ Len(SubSeq(q, n + 1, Len(q))) <= Limit
<1>1. Limit \in Nat /\ Len(q) \in Nat  BY GatewayAssumption
<1>2. SubSeq(q, 1, n) \in Seq(Message) /\ Len(SubSeq(q, 1, n)) = IF 1 <= n THEN n ELSE 0
  BY SubSeqProperties, <1>1
<1>3. /\ SubSeq(q, n + 1, Len(q)) \in Seq(Message)
      /\ Len(SubSeq(q, n + 1, Len(q))) = IF n + 1 <= Len(q) THEN Len(q) - n ELSE 0
  BY SubSeqProperties, <1>1
<1> QED  BY <1>1, <1>2, <1>3

LEMMA MessageTyping ==
  ASSUME NEW g PROVE MessageOf(g) \in Message
BY DEF MessageOf, Message

\* What is said next is well typed, if what there is to say is.
LEMMA PublishTyping ==
  ASSUME GatewayTypeOK, NEW g, Publish(g)
  PROVE  bus' \in Seq(Message) /\ Len(bus') <= Limit
BY DeliverTyping, MessageTyping DEF Publish, GatewayTypeOK

-----------------------------------------------------------------------------
(* The gateway.                                                            *)

\* A step that keeps the doors as they are and leaves a well typed gateway
\* whose fresh snapshot is recent.
LEMMA GatewayFrame ==
  ASSUME GatewayInv, UNCHANGED truth, gateway' \in Gateway,
         bus' \in Seq(Message), Len(bus') <= Limit, joined' \in BOOLEAN, stops' \in Nat,
         ~gateway'.stale =>
           /\ gateway'.pc # "down"
           /\ gateway'.pc = "connect" \/ (gateway'.pc = "read" /\ gateway'.waited = 0)
                => gateway'.packetAge <= StaleTimeout
           /\ IF AllClosed(gateway'.shown) THEN sinceClosed <= gateway'.packetAge
              ELSE sinceOpen <= gateway'.packetAge
  PROVE  GatewayInv'
BY DEF GatewayInv, GatewayTypeOK, FreshIsRecent, HistoryIsNow, AllClosed, truth

\* Ages that the code sets.
LEMMA AgesTyping ==
  /\ StaleTimeout \in Nat /\ LivenessTimeout \in Nat /\ Heartbeat \in Nat
  /\ ReconnectDelay \in Nat \ {0} /\ MaxAge \in Nat
  /\ 0 \in Ages(StaleTimeout + 1) /\ 0 \in Ages(LivenessTimeout) /\ 0 \in Ages(Heartbeat)
  /\ ReconnectDelay \in Ages(ReconnectDelay) /\ ReconnectDelay - 1 \in Ages(ReconnectDelay)
  /\ 0 \in Ages(ReconnectDelay)
  /\ 0 \in Ages(MaxAge) /\ MaxAge \in Ages(MaxAge)
BY GatewayAssumption DEF TimingAccepted, Ages

\* An age stays an age when time passes.
LEMMA AgedTyping ==
  ASSUME NEW limit \in Nat, NEW age \in Ages(limit)
  PROVE  /\ Aged(age, limit) \in Ages(limit) /\ Aged(age, limit) <= age + 1
         /\ age < limit => Aged(age, limit) = age + 1
BY DEF Aged, Ages

LEMMA DownTyping == DownGateway \in Gateway /\ DownGateway.stale
<1>1. StaleTimeout \in Nat /\ LivenessTimeout \in Nat /\ Heartbeat \in Nat /\ ReconnectDelay \in Nat
  BY GatewayAssumption DEF TimingAccepted
<1> QED  BY <1>1 DEF DownGateway, Gateway, States, Ages

LEMMA GatewayInitial == GatewayInit => GatewayInv
<1> SUFFICES ASSUME GatewayInit PROVE GatewayInv
  OBVIOUS
<1>1. MaxAge \in Nat /\ Limit \in Nat  BY GatewayAssumption
<1>2. bus \in Seq(Message) /\ Len(bus) = 0  BY DEF GatewayInit
<1>3. GatewayTypeOK
  <2>1. doors \in [Door -> States]  BY DEF GatewayInit, States
  <2>2. /\ gateway \in Gateway /\ joined \in BOOLEAN /\ stops \in Nat
        /\ sinceOpen \in Ages(MaxAge) /\ sinceClosed \in Ages(MaxAge)
    BY DownTyping, AgesTyping DEF GatewayInit
  <2> QED  BY <1>1, <1>2, <2>1, <2>2 DEF GatewayTypeOK
<1>4. FreshIsRecent
  <2>1. gateway.stale  BY DownTyping DEF GatewayInit
  <2> QED  BY <2>1 DEF FreshIsRecent
<1>5. HistoryIsNow  BY GatewayAssumption DEF GatewayInit, HistoryIsNow, AllClosed
<1> QED  BY <1>3, <1>4, <1>5 DEF GatewayInv

LEMMA GatewayStepKeeps ==
  ASSUME GatewayInv, GatewayStep
  PROVE  GatewayInv'
<1>0. /\ StaleTimeout \in Nat /\ LivenessTimeout \in Nat /\ Heartbeat \in Nat
      /\ ReconnectDelay \in Nat \ {0}
  BY GatewayAssumption DEF TimingAccepted
<1>1. /\ gateway \in Gateway /\ joined \in BOOLEAN /\ stops \in Nat
      /\ doors \in [Door -> States]
      /\ bus \in Seq(Message) /\ Len(bus) <= Limit
  BY DEF GatewayInv, GatewayTypeOK
<1>2. UNCHANGED <<joined, stops, truth>>
  BY DEF GatewayStep, StartGateway, Connect, AcceptPacket, ReadNothing, ReadFails, Tick
<1>3. bus' = bus \/ Publish(gateway')
  BY DEF GatewayStep, StartGateway, Connect, AcceptPacket, ReadNothing, ReadFails, Tick
<1>4. bus' \in Seq(Message) /\ Len(bus') <= Limit
  BY <1>1, <1>3, PublishTyping DEF GatewayInv
<1> DEFINE Recent(g) ==
      ~g.stale =>
        /\ g.pc # "down"
        /\ g.pc = "connect" \/ (g.pc = "read" /\ g.waited = 0) => g.packetAge <= StaleTimeout
        /\ IF AllClosed(g.shown) THEN sinceClosed <= g.packetAge ELSE sinceOpen <= g.packetAge
<1>5. Recent(gateway) /\ HistoryIsNow  BY DEF GatewayInv, FreshIsRecent
<1>6. gateway' \in Gateway /\ Recent(gateway')
  <2>1. CASE StartGateway
    <3>1. gateway' = [DownGateway EXCEPT !.pc = "connect"]  BY <2>1 DEF StartGateway
    <3>2. gateway' \in Gateway /\ gateway'.stale
      BY <3>1, DownTyping DEF Gateway
    <3> QED  BY <3>2
  <2>2. CASE Connect
    <3>1. CASE gateway' = [gateway EXCEPT !.pc = "read"]
      BY <1>1, <1>5, <2>2, <3>1 DEF Connect, Gateway
    <3>2. CASE gateway' = [gateway EXCEPT !.pc = "read", !.connected = TRUE, !.silence = 0]
      BY <1>1, <1>5, <2>2, <3>2, AgesTyping DEF Connect, Gateway
    <3>3. CASE gateway' = [gateway EXCEPT !.pc = "read", !.retryIn = ReconnectDelay]
      BY <1>1, <1>5, <2>2, <3>3, AgesTyping DEF Connect, Gateway
    <3> QED  BY <2>2, <3>1, <3>2, <3>3 DEF Connect
  <2>3. CASE AcceptPacket
    <3>1. /\ gateway' \in Gateway /\ gateway'.pc = "tick" /\ gateway'.shown = doors
          /\ gateway'.packetAge = 0
      BY <1>1, <2>3, AgesTyping DEF AcceptPacket, Gateway
    <3> QED  BY <1>5, <3>1 DEF HistoryIsNow
  <2>4. CASE ReadNothing
    BY <1>1, <1>5, <2>4 DEF ReadNothing, Gateway
  <2>5. CASE ReadFails
    <3>1. ReconnectDelay - gateway.waited \in Ages(ReconnectDelay)
      <4>1. gateway.waited \in {0, 1}  BY <1>1 DEF Gateway
      <4> QED  BY <4>1, AgesTyping
    <3>2. /\ gateway' \in Gateway /\ gateway'.pc = "tick" /\ gateway'.stale = gateway.stale
          /\ gateway'.shown = gateway.shown /\ gateway'.packetAge = gateway.packetAge
      BY <1>1, <2>5, <3>1, AgesTyping DEF ReadFails, Gateway
    <3> QED  BY <1>1, <1>5, <2>5, <3>2 DEF ReadFails
  <2>6. CASE Tick
    <3>1. /\ gateway'.pc = "connect" /\ gateway'.shown = gateway.shown
          /\ gateway'.packetAge = gateway.packetAge
          /\ gateway.stale => gateway'.stale
          /\ gateway.packetAge > StaleTimeout => gateway'.stale
      BY <1>1, <2>6 DEF Tick, Gateway
    <3>2. gateway' \in Gateway
      BY <1>1, <2>6, AgesTyping DEF Tick, Gateway
    <3>3. gateway.packetAge \in Nat  BY <1>0, <1>1 DEF Gateway, Ages
    <3>4. gateway.pc = "tick"  BY <2>6 DEF Tick
    <3>5. ~gateway'.stale => ~gateway.stale /\ gateway'.packetAge <= StaleTimeout
      BY <1>0, <3>1, <3>3
    <3>6. gateway'.pc # "down"  BY <3>1
    <3>7. ~gateway'.stale =>
            IF AllClosed(gateway'.shown) THEN sinceClosed <= gateway'.packetAge
            ELSE sinceOpen <= gateway'.packetAge
      BY <1>5, <3>1, <3>5
    <3> QED  BY <3>2, <3>5, <3>6, <3>7
  <2> QED  BY <2>1, <2>2, <2>3, <2>4, <2>5, <2>6 DEF GatewayStep
<1> QED  BY <1>1, <1>2, <1>4, <1>6, GatewayFrame

\* A gateway that goes down, with the end of the queue or a consumer's.
LEMMA StopGatewayKeeps ==
  ASSUME GatewayInv, StopGateway
  PROVE  GatewayInv'
<1>1. PICK sent \in 0 .. Len(bus) : bus' = SubSeq(bus, 1, sent)  BY DEF StopGateway
<1>2. bus' \in Seq(Message) /\ Len(bus') <= Limit
  BY <1>1, PartOfQueue DEF GatewayInv, GatewayTypeOK
<1>3. gateway' = DownGateway /\ joined' = FALSE /\ UNCHANGED truth /\ stops' = stops + 1
  BY DEF StopGateway
<1>4. stops' \in Nat  BY <1>3 DEF GatewayInv, GatewayTypeOK
<1> QED  BY <1>2, <1>3, <1>4, DownTyping, GatewayFrame

LEMMA MoveDoorKeeps ==
  ASSUME GatewayInv, MoveDoor
  PROVE  GatewayInv'
<1>1. doors' \in [Door -> States]  BY DEF MoveDoor, GatewayInv, GatewayTypeOK
<1>2. /\ sinceClosed' \in {0, sinceClosed} /\ sinceOpen' \in {0, sinceOpen}
      /\ HistoryIsNow'
  BY DEF MoveDoor, HistoryIsNow, AllClosed
<1>3. UNCHANGED <<gateway, bus, joined, stops>>  BY DEF MoveDoor
<1>4. /\ gateway.packetAge \in Nat /\ MaxAge \in Nat
      /\ sinceClosed \in Ages(MaxAge) /\ sinceOpen \in Ages(MaxAge)
  BY GatewayAssumption DEF GatewayInv, GatewayTypeOK, Gateway, Ages, TimingAccepted
<1>5. GatewayTypeOK'
  BY <1>1, <1>2, <1>3, <1>4 DEF GatewayInv, GatewayTypeOK, Ages
<1>6. FreshIsRecent'
  BY <1>2, <1>3, <1>4 DEF GatewayInv, FreshIsRecent, AllClosed, Ages
<1> QED  BY <1>2, <1>5, <1>6 DEF GatewayInv

\* One unit of time: what is fresh is one unit older, and so is the history.
LEMMA ElapseKeeps ==
  ASSUME GatewayInv, GatewayElapses
  PROVE  GatewayInv'
<1>0. /\ StaleTimeout \in Nat /\ LivenessTimeout \in Nat /\ Heartbeat \in Nat
      /\ ReconnectDelay \in Nat /\ MaxAge \in Nat
  BY GatewayAssumption DEF TimingAccepted
<1>1. /\ gateway \in Gateway /\ sinceClosed \in Ages(MaxAge) /\ sinceOpen \in Ages(MaxAge)
      /\ gateway.packetAge \in Ages(StaleTimeout + 1)
  BY DEF GatewayInv, GatewayTypeOK, Gateway
<1>2. UNCHANGED <<doors, bus, joined, stops>>  BY DEF GatewayElapses
<1>3. /\ sinceClosed' \in Ages(MaxAge) /\ sinceOpen' \in Ages(MaxAge)
      /\ sinceClosed' <= sinceClosed + 1 /\ sinceOpen' <= sinceOpen + 1
      /\ HistoryIsNow'
  BY <1>0, <1>1, <1>2 DEF GatewayElapses, HistoryIsNow, AllClosed, Aged, Ages
<1>4. CASE gateway.pc = "down"
  <2>1. gateway' = gateway /\ gateway.stale
    BY <1>4 DEF GatewayElapses, GatewayInv, FreshIsRecent
  <2> QED
    BY <1>2, <1>3, <2>1 DEF GatewayInv, GatewayTypeOK, FreshIsRecent
<1>5. CASE gateway.pc # "down"
  <2>1. gateway.pc = "read" /\ gateway.waited = 0  BY <1>5 DEF GatewayElapses
  <2>2. /\ gateway'.pc = "read" /\ gateway'.waited = 1
        /\ gateway'.stale = gateway.stale /\ gateway'.shown = gateway.shown
        /\ gateway'.packetAge = Aged(gateway.packetAge, StaleTimeout + 1)
    BY <1>1, <1>5, <2>1 DEF GatewayElapses, Gateway
  <2>3. gateway' \in Gateway
    <3>1. /\ Aged(gateway.packetAge, StaleTimeout + 1) \in Ages(StaleTimeout + 1)
          /\ Aged(gateway.silence, LivenessTimeout) \in Ages(LivenessTimeout)
          /\ Aged(gateway.beatAge, Heartbeat) \in Ages(Heartbeat)
          /\ (IF gateway.retryIn > 0 THEN gateway.retryIn - 1 ELSE 0) \in Ages(ReconnectDelay)
      <4>1. /\ gateway.silence \in Ages(LivenessTimeout) /\ gateway.beatAge \in Ages(Heartbeat)
            /\ gateway.retryIn \in Ages(ReconnectDelay)
        BY <1>1 DEF Gateway
      <4>2. StaleTimeout + 1 \in Nat  BY <1>0
      <4>3. (IF gateway.retryIn > 0 THEN gateway.retryIn - 1 ELSE 0) \in Ages(ReconnectDelay)
        BY <1>0, <4>1 DEF Ages
      <4> QED  BY <1>0, <1>1, <4>1, <4>2, <4>3, AgedTyping
    <3> QED  BY <1>1, <1>5, <3>1 DEF GatewayElapses, Gateway
  <2>4. ~gateway.stale => gateway'.packetAge = gateway.packetAge + 1
    BY <1>0, <1>1, <2>1, <2>2 DEF GatewayInv, FreshIsRecent, Aged, Ages
  <2>5. FreshIsRecent'
    BY <1>0, <1>1, <1>3, <2>1, <2>2, <2>4 DEF GatewayInv, FreshIsRecent, AllClosed, Ages
  <2> QED
    BY <1>2, <1>3, <2>3, <2>5 DEF GatewayInv, GatewayTypeOK
<1> QED  BY <1>4, <1>5

\* A consumer that reads the bus, joins it or goes away does not change what the
\* gateway says.
LEMMA ConsumerKeeps ==
  ASSUME GatewayInv, UNCHANGED <<gateway, truth>>, joined' \in BOOLEAN, stops' \in Nat,
         bus' = bus \/ bus' = <<>> \/ \E n \in 0 .. Len(bus) : Drain(n)
  PROVE  GatewayInv'
<1>1. Limit \in Nat  BY GatewayAssumption
<1>2. bus' \in Seq(Message) /\ Len(bus') <= Limit
  <2>1. CASE bus' = bus  BY <2>1 DEF GatewayInv, GatewayTypeOK
  <2>2. CASE bus' = <<>>  BY <1>1, <2>2
  <2>3. CASE \E n \in 0 .. Len(bus) : Drain(n)
    <3>1. PICK n \in 0 .. Len(bus) : Drain(n)  BY <2>3
    <3> QED  BY <3>1, PartOfQueue DEF Drain, GatewayInv, GatewayTypeOK
  <2> QED  BY <2>1, <2>2, <2>3
<1> QED  BY <1>2 DEF GatewayInv, GatewayTypeOK, FreshIsRecent, HistoryIsNow, AllClosed, truth

\* What is confirmed a stale timeout and one read ago at most is recent.
LEMMA RecentIsTracked == GatewayInv => SnapshotTracksDoors
<1> SUFFICES ASSUME GatewayInv PROVE SnapshotTracksDoors
  OBVIOUS
<1>1. /\ gateway.packetAge \in 0 .. StaleTimeout + 1 /\ StaleTimeout \in Nat
      /\ sinceClosed \in Nat /\ sinceOpen \in Nat
  BY GatewayAssumption DEF GatewayInv, GatewayTypeOK, Gateway, Ages, TimingAccepted
<1> QED  BY <1>1 DEF GatewayInv, FreshIsRecent, SnapshotTracksDoors
=============================================================================
