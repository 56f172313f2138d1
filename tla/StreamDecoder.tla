----------------------------- MODULE StreamDecoder -----------------------------
(***************************************************************************)
(* The bounded decoder of the door controller's byte stream (crates/       *)
(* pcrt-door: controller.rs), fed by the gateway's engine with whatever a  *)
(* read of the serial line returned.  The controller sends packets of a    *)
(* fixed size, one record per door; the line loses or garbles bytes, and   *)
(* what is sent while the source is closed is gone.                        *)
(*                                                                         *)
(* A byte is its symbol and, as history, the packet it was sent in; the    *)
(* code sees the symbol only.  The separators '=' and ',' of a record are  *)
(* left out, ';' is kept: what the decoder does with any of them is the    *)
(* same.  Voltages may be any byte, the first of the header included.      *)
(***************************************************************************)
EXTENDS Integers, Sequences, SequencesExt

CONSTANTS
  Header,      \* the symbols of the prefix "!DOORS:"
  Door,        \* the symbols of the configured doors' numbers
  Voltages,    \* some symbols of voltages
  MaxPackets,  \* bound on the packets the controller sends
  MaxTrouble   \* bound on damaged bytes and lost connections

VARIABLES
  sent,      \* the number of packets sent
  line,      \* bytes on their way to the gateway
  buffer,    \* the decoder's buffer
  accepted,  \* history: of each packet decoded, the packets its doors come from
  read,      \* history: the bytes read since the source was connected ...
  opened,    \* ... and how many packets had been decoded then
  overflow,  \* history: the packets of which an overflow took bytes
  spoilt,    \* history: the packets the line damaged ...
  cut,       \* ... and those of which bytes were lost with a connection
  trouble

vars == <<sent, line, buffer, accepted, read, opened, overflow, spoilt, cut, trouble>>

RecordSize == 4
PacketSize == Len(Header) + RecordSize * Cardinality(Door)

\* The code sizes the buffer for the largest number of doors it supports; Door
\* stands for that many.
MaxBuffer == 2 * PacketSize + Len(Header)

\* As of "!DOORS:", the first symbol and the last occur once, and no symbol is one
\* of a door, a state or a separator, nor the noise a damaged byte becomes.
ASSUME DecoderAssumption ==
  /\ IsFiniteSet(Door) /\ Door # {}
  /\ Header \in Seq(STRING) /\ Len(Header) > 2
  /\ \A i \in 1 .. Len(Header) : \A j \in {1, Len(Header)} : Header[i] = Header[j] => i = j
  /\ Range(Header) \cap (Door \cup {"state", ";", "x"}) = {}
  /\ MaxPackets \in Nat /\ MaxTrouble \in Nat

\* The symbols there are; "x" is any that is in no packet.
Symbol == {"state", ";", "x"} \cup Door \cup Voltages \cup Range(Header)
Byte == [is : Symbol, of : Nat]

Origins(bytes) == {bytes[i].of : i \in DOMAIN bytes}

-----------------------------------------------------------------------------
(* The controller and the line.                                            *)

\* <id>=<state>,<voltage>;
DoorRecord(id, voltage) == <<id, "state", voltage, ";">>
VoltageAt == 3

\* The records come in any order, with any voltage.
PacketOf(ids, voltage) ==
  Header \o [i \in 1 .. RecordSize * Cardinality(Door) |->
              DoorRecord(ids[((i - 1) \div RecordSize) + 1], voltage)[((i - 1) % RecordSize) + 1]]

Orders == {ids \in [1 .. Cardinality(Door) -> Door] : IsInjective(ids)}

Tagged(symbols, n) == [i \in DOMAIN symbols |-> [is |-> symbols[i], of |-> n]]

Send ==
  /\ sent < MaxPackets /\ sent' = sent + 1
  /\ \E ids \in Orders, voltage \in Voltages :
       LET bytes == Tagged(PacketOf(ids, voltage), sent') IN
       \/ line' = line \o bytes /\ UNCHANGED <<spoilt, trouble>>
       \/ /\ trouble < MaxTrouble /\ trouble' = trouble + 1
          /\ spoilt' = spoilt \cup {sent'}
          /\ \E i \in 1 .. PacketSize :
               \/ line' = line \o RemoveAt(bytes, i)
               \/ \E noise \in {"x", Header[1]} :
                    line' = line \o [bytes EXCEPT ![i].is = noise]
  /\ UNCHANGED <<buffer, accepted, read, opened, overflow, cut>>

-----------------------------------------------------------------------------
(* The decoder.                                                            *)

HeaderAt(bytes, i) ==
  /\ i + Len(Header) - 1 <= Len(bytes)
  /\ \A k \in 1 .. Len(Header) : bytes[i + k - 1].is = Header[k]

\* find_header: the places a header starts at.
Headers(bytes) == {i \in 1 .. Len(bytes) : HeaderAt(bytes, i)}
First(places) == CHOOSE i \in places : \A j \in places : i <= j

Record(packet, i) == SubSeq(packet, Len(Header) + RecordSize * (i - 1) + 1,
                                    Len(Header) + RecordSize * i)
Records(packet) == [i \in 1 .. Cardinality(Door) |-> Record(packet, i)]

\* DoorProtocol::parse_packet: every record well formed, every door once.
Parses(packet) ==
  /\ HeaderAt(packet, 1)
  /\ \A r \in Range(Records(packet)) : r[2].is = "state" /\ r[4].is = ";"
  /\ {r[1].is : r \in Range(Records(packet))} = Door

\* The packets the doors of a packet were sent in.
DoorsFrom(packet) == UNION {Origins(SubSeq(r, 1, 2)) : r \in Range(Records(packet))}

\* Mutant: nothing is kept when no header is there.
KeepNothing(bytes) == <<>>

\* retain_header_tail: what may be the beginning of a header.
HeaderTail(bytes) ==
  LET kept == Len(Header) - 1 IN
  IF Len(bytes) <= kept THEN bytes ELSE SubSeq(bytes, Len(bytes) - kept + 1, Len(bytes))

From(bytes, i) == SubSeq(bytes, i, Len(bytes))

\* StreamDecoder::push, its loop: what is decoded and what stays buffered.  A
\* header inside the candidate truncates it; a candidate that does not parse
\* is dropped whole, since no header is left in it to go on from.
Scan[bytes \in Seq(Byte)] ==
  LET headers == Headers(bytes)
      here == From(bytes, First(headers))
      packet == SubSeq(here, 1, PacketSize)
      within == Headers(packet) \ {1}
      after == Scan[From(here, PacketSize + 1)] IN
  IF headers = {} THEN [rest |-> HeaderTail(bytes), found |-> <<>>]
  ELSE IF Len(here) < PacketSize THEN [rest |-> here, found |-> <<>>]
  ELSE IF within # {} THEN Scan[From(here, First(within))]
  ELSE IF Parses(packet) THEN [after EXCEPT !.found = <<DoorsFrom(packet)>> \o @]
  ELSE after

\* Mutant: what does not fit is not taken.
AppendOldest(old, bytes) ==
  LET all == old \o bytes IN
  IF Len(all) > MaxBuffer THEN SubSeq(all, 1, MaxBuffer) ELSE all

\* append_bounded: the newest bytes are kept.
AppendBounded(old, bytes) ==
  LET all == old \o bytes IN
  IF Len(all) > MaxBuffer THEN From(all, Len(all) - MaxBuffer + 1) ELSE all

Missing(before, after) ==
  Origins(SubSeq(before, 1, Len(before) - Len(after)))

\* A read returns some of what has arrived; the engine pushes it.
ReadChunk ==
  \E n \in 1 .. Len(line) :
    LET chunk == SubSeq(line, 1, n)
        filled == AppendBounded(buffer, chunk)
        result == Scan[filled] IN
    /\ line' = From(line, n + 1)
    /\ read' = read \o chunk
    /\ buffer' = result.rest
    /\ accepted' = accepted \o result.found
    /\ overflow' = overflow \cup Missing(buffer \o chunk, filled)
    /\ UNCHANGED <<sent, opened, spoilt, cut, trouble>>

\* Mutant: the decoder is kept when the source is lost.
KeepDecoder ==
  /\ trouble < MaxTrouble /\ trouble' = trouble + 1
  /\ \E n \in 0 .. Len(line) :
       /\ line' = From(line, n + 1)
       /\ cut' = cut \cup Origins(buffer) \cup Origins(SubSeq(line, 1, n))
  /\ read' = <<>> /\ opened' = Len(accepted)
  /\ UNCHANGED <<sent, buffer, accepted, overflow, spoilt>>

\* source_disconnected, then source_connected: a new decoder, and a stream
\* that may begin anywhere in a packet.
Reconnect ==
  /\ trouble < MaxTrouble /\ trouble' = trouble + 1
  /\ \E n \in 0 .. Len(line) :
       /\ line' = From(line, n + 1)
       /\ cut' = cut \cup Origins(buffer) \cup Origins(SubSeq(line, 1, n))
  /\ buffer' = <<>> /\ read' = <<>> /\ opened' = Len(accepted)
  /\ UNCHANGED <<sent, accepted, overflow, spoilt>>

DecoderInit ==
  /\ sent = 0 /\ line = <<>> /\ buffer = <<>> /\ accepted = <<>>
  /\ read = <<>> /\ opened = 0 /\ overflow = {} /\ spoilt = {} /\ cut = {} /\ trouble = 0

DecoderNext == Send \/ ReadChunk \/ Reconnect

DecoderSpec == DecoderInit /\ [][DecoderNext]_vars

-----------------------------------------------------------------------------
(* Safety.                                                                 *)

\* The doors of one packet all come from one packet of the controller, and
\* packets are decoded in the order they were sent, none of them twice:
\* whatever is lost, no state is put together from two (push, accept).
NothingInvented ==
  /\ \A k \in DOMAIN accepted : \E n \in 1 .. sent : accepted[k] = {n}
  /\ \A j, k \in DOMAIN accepted : \A n \in accepted[j], m \in accepted[k] : j < k => n < m

\* How the stream is cut into reads does not matter: as long as nothing
\* overflowed, the decoder found what one look at the whole stream finds.
ChunkingIsIrrelevant ==
  overflow = {} =>
    Scan[read] = [rest |-> buffer, found |-> From(accepted, opened + 1)]

\* An undamaged packet that was read is decoded, unless the packet before it
\* was damaged: damage costs one more packet at most.  Of an overflow the
\* newest packet is spared.
Passed(n) == n \notin Origins(line)
DamageIsLocal ==
  \A n \in 1 .. sent :
    /\ Passed(n)
    /\ n \notin spoilt \cup cut /\ n - 1 \notin spoilt
    /\ n \in overflow => n < sent /\ ~Passed(n + 1)
    => \E k \in DOMAIN accepted : accepted[k] = {n}
=============================================================================
