------------------------------ MODULE DoorGateway ------------------------------
(***************************************************************************)
(* The door gateway (bins/pcrt-door-gateway with crates/pcrt-door) and the *)
(* PUB/SUB bus (crates/pcrt-door-zmq) that carries its snapshots to one    *)
(* consumer.  A publisher never waits for a subscriber, so consumers do    *)
(* not influence the gateway or each other and one is enough: module       *)
(* Recorder adds a recorder, module ProcessorGate the processor.           *)
(*                                                                         *)
(* Time is counted in units of the heartbeat's granularity, the longest    *)
(* the main loop may block in one read.  Timers are ages that stop         *)
(* growing where the code can no longer tell the difference, so there is   *)
(* no horizon.  Snapshot sequence numbers and wall clock times are left    *)
(* out: no consumer reads them.                                            *)
(***************************************************************************)
EXTENDS Integers, Sequences

CONSTANTS
  Door,
  Watched,     \* the doors of the topic the consumer subscribed to
  StaleTimeout, LivenessTimeout, ReconnectDelay, Heartbeat,
  Limit,       \* messages the bus holds for a subscriber that does not read
  LocalLimit,  \* how many of them are in the subscriber's own queue
  MaxAge,      \* bound on the ages of the history
  MaxStops     \* bound on crashes of the gateway and of its consumer

VARIABLES
  doors,     \* the doors themselves
  gateway,   \* the gateway process: main loop, engine and state machine
  bus,       \* messages on their way to the consumer, oldest first
  joined,    \* the subscription has reached the publisher
  stops,
  sinceOpen,   \* history: time since some watched door was open ...
  sinceClosed  \* ... and since all of them were closed

gvars == <<doors, gateway, bus, joined, stops, sinceOpen, sinceClosed>>
truth == <<doors, sinceOpen, sinceClosed>>

States == {"open", "closed"}
Ages(limit) == 0 .. limit

Gateway == [pc : {"down", "connect", "read", "tick"}, waited : {0, 1},
            shown : [Door -> States], stale : BOOLEAN, packetAge : Ages(StaleTimeout + 1),
            connected : BOOLEAN, silence : Ages(LivenessTimeout),
            beatAge : Ages(Heartbeat), retryIn : Ages(ReconnectDelay)]

\* What a snapshot says of the watched doors; no consumer looks at the doors
\* of a stale one.
Message == {"open", "closed", "stale"}

\* The configuration is refused unless the timeouts are in this order; one read
\* may block for one unit of time.
TimingAccepted ==
  /\ Heartbeat \in Nat \ {0} /\ StaleTimeout \in Nat /\ LivenessTimeout \in Nat
  /\ Heartbeat < StaleTimeout /\ StaleTimeout < LivenessTimeout
  /\ ReconnectDelay \in Nat \ {0}

ASSUME GatewayAssumption ==
  /\ TimingAccepted
  /\ Watched \subseteq Door /\ Watched # {}
  /\ Limit \in Nat /\ LocalLimit \in 1 .. Limit
  /\ MaxAge \in Nat /\ MaxStops \in Nat

GatewayTypeOK ==
  /\ doors \in [Door -> States]
  /\ gateway \in Gateway
  /\ bus \in Seq(Message) /\ Len(bus) <= Limit
  /\ joined \in BOOLEAN
  /\ stops \in Nat
  /\ sinceOpen \in Ages(MaxAge) /\ sinceClosed \in Ages(MaxAge)

DownGateway ==
  [pc |-> "down", waited |-> 0, shown |-> [d \in Door |-> "closed"], stale |-> TRUE,
   packetAge |-> StaleTimeout + 1, connected |-> FALSE, silence |-> 0, beatAge |-> 0, retryIn |-> 0]

\* An age grows up to the limit beyond which nothing depends on it.
Aged(age, limit) == IF age < limit THEN age + 1 ELSE limit
AllClosed(d) == \A x \in Watched : d[x] = "closed"

-----------------------------------------------------------------------------
(* Publishing.                                                             *)

\* The aggregate message, or that of one door.
MessageOf(g) ==
  IF g.stale THEN "stale" ELSE IF AllClosed(g.shown) THEN "closed" ELSE "open"

\* A subscriber that is not there or does not keep up loses the message.
Deliver(q, message) ==
  IF joined /\ Len(q) < Limit THEN Append(q, message) ELSE q

\* drain takes what has reached the subscriber's own queue, and as much of the
\* rest as arrives while it does; the last message is kept.  (A failing socket
\* is left out.)
Drainable == {n \in 0 .. Len(bus) : n >= LocalLimit \/ n = Len(bus)}
Latest(n, known) == IF n = 0 THEN known ELSE bus[n]
Drain(n) == bus' = SubSeq(bus, n + 1, Len(bus))

Publish(g) == bus' = Deliver(bus, MessageOf(g))

-----------------------------------------------------------------------------
(* The main loop: connect, read, tick.                                     *)

\* Nothing is persisted: the gateway starts stale and all closed, and says so
\* before anybody can have subscribed.
StartGateway ==
  /\ gateway.pc = "down"
  /\ gateway' = [DownGateway EXCEPT !.pc = "connect"]
  /\ Publish(gateway')
  /\ UNCHANGED <<joined, stops, truth>>

\* source_connected, source_connect_failed
Connect ==
  /\ gateway.pc = "connect"
  /\ IF gateway.connected \/ gateway.retryIn > 0
     THEN gateway' = [gateway EXCEPT !.pc = "read"]
     ELSE \/ gateway' = [gateway EXCEPT !.pc = "read", !.connected = TRUE, !.silence = 0]
          \/ gateway' = [gateway EXCEPT !.pc = "read", !.retryIn = ReconnectDelay]
  /\ UNCHANGED <<bus, joined, stops, truth>>

\* on_bytes with a valid packet: it replaces the state of every door.
AcceptPacket ==
  /\ gateway.pc = "read" /\ gateway.connected
  /\ gateway' = [gateway EXCEPT !.pc = "tick", !.waited = 0, !.shown = doors,
                                !.stale = FALSE, !.packetAge = 0, !.silence = 0]
  /\ Publish(gateway')
  /\ UNCHANGED <<joined, stops, truth>>

\* Mutant: a rejected packet confirms the state of the doors.
ReadConfirms ==
  /\ gateway.pc = "read"
  /\ gateway' = [gateway EXCEPT !.pc = "tick", !.waited = 0, !.packetAge = 0]
  /\ UNCHANGED <<bus, joined, stops, truth>>

\* The read times out, or what it brings is rejected, truncated or dropped.
ReadNothing ==
  /\ gateway.pc = "read"
  /\ gateway' = [gateway EXCEPT !.pc = "tick", !.waited = 0]
  /\ UNCHANGED <<bus, joined, stops, truth>>

\* source_disconnected, timed from the start of the iteration: the state of
\* the doors is kept.
ReadFails ==
  /\ gateway.pc = "read" /\ gateway.connected
  /\ gateway' = [gateway EXCEPT !.pc = "tick", !.waited = 0, !.connected = FALSE,
                                !.silence = 0, !.retryIn = ReconnectDelay - gateway.waited]
  /\ UNCHANGED <<bus, joined, stops, truth>>

\* Mutant: an unchanged state is not repeated.
TickWithoutHeartbeat ==
  LET g == gateway
      expired == ~g.stale /\ g.packetAge > StaleTimeout
      after == [g EXCEPT !.pc = "connect", !.stale = (@ \/ expired)] IN
  /\ g.pc = "tick"
  /\ gateway' = after
  /\ IF expired THEN Publish(after) ELSE UNCHANGED bus
  /\ UNCHANGED <<joined, stops, truth>>

\* tick: the liveness timeout drops the source, then a state that was not
\* confirmed in time becomes stale, then the state is repeated if nothing
\* else was said for a while.
Tick ==
  LET silent == gateway.connected /\ gateway.silence >= LivenessTimeout
      g == IF silent THEN [gateway EXCEPT !.connected = FALSE, !.silence = 0,
                                           !.retryIn = ReconnectDelay]
           ELSE gateway
      expired == ~g.stale /\ g.packetAge > StaleTimeout
      speaks == expired \/ g.beatAge >= Heartbeat
      after == [g EXCEPT !.pc = "connect", !.stale = (@ \/ expired),
                         !.beatAge = IF speaks THEN 0 ELSE @] IN
  /\ gateway.pc = "tick"
  /\ gateway' = after
  /\ IF speaks THEN Publish(after) ELSE UNCHANGED bus
  /\ UNCHANGED <<joined, stops, truth>>

GatewayStep == StartGateway \/ Connect \/ AcceptPacket \/ ReadNothing \/ ReadFails \/ Tick

-----------------------------------------------------------------------------
(* The world.                                                              *)

\* The gateway is killed or exits; what it had not yet sent is lost.
StopGateway ==
  /\ gateway.pc # "down" /\ stops < MaxStops
  /\ stops' = stops + 1
  /\ gateway' = DownGateway
  /\ \E sent \in 0 .. Len(bus) : bus' = SubSeq(bus, 1, sent)
  /\ joined' = FALSE
  /\ UNCHANGED truth

MoveDoor ==
  /\ \E d \in Door, s \in States : doors[d] # s /\ doors' = [doors EXCEPT ![d] = s]
  /\ sinceClosed' = IF AllClosed(doors') THEN 0 ELSE sinceClosed
  /\ sinceOpen' = IF AllClosed(doors') THEN sinceOpen ELSE 0
  /\ UNCHANGED <<gateway, bus, joined, stops>>

\* One unit of time passes while the gateway waits for input, once in an
\* iteration of its loop at most, or while it is down.
GatewayElapses ==
  /\ \/ gateway.pc = "down"
     \/ gateway.pc = "read" /\ gateway.waited = 0
  /\ gateway' = IF gateway.pc = "down" THEN gateway
                ELSE [gateway EXCEPT !.waited = 1,
                        !.packetAge = Aged(@, StaleTimeout + 1),
                        !.silence = IF gateway.connected THEN Aged(@, LivenessTimeout) ELSE @,
                        !.beatAge = Aged(@, Heartbeat),
                        !.retryIn = IF @ > 0 THEN @ - 1 ELSE 0]
  /\ sinceClosed' = IF AllClosed(doors) THEN 0 ELSE Aged(sinceClosed, MaxAge)
  /\ sinceOpen' = IF AllClosed(doors) THEN Aged(sinceOpen, MaxAge) ELSE 0
  /\ UNCHANGED <<doors, bus, joined, stops>>

GatewayInit ==
  /\ doors = [d \in Door |-> "closed"]
  /\ gateway = DownGateway
  /\ bus = <<>>
  /\ joined = FALSE
  /\ stops = 0
  /\ sinceOpen = MaxAge
  /\ sinceClosed = 0

-----------------------------------------------------------------------------
(* Safety.                                                                 *)

\* A running gateway that calls its snapshot fresh tells the truth of a short
\* while ago: some watched door was open, or all were closed, not longer ago
\* than the stale timeout and the wait of one read.
SnapshotTracksDoors ==
  gateway.pc # "down" /\ ~gateway.stale =>
    IF AllClosed(gateway.shown) THEN sinceClosed <= StaleTimeout + 1
    ELSE sinceOpen <= StaleTimeout + 1
=============================================================================
