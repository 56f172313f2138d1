------------------------- MODULE StreamDecoder_proofs --------------------------
(***************************************************************************)
(* Proofs about StreamDecoder, for every header the assumption admits, any *)
(* set of doors and of voltages, any number of packets and of damages:     *)
(* however the stream is cut into reads the decoder finds the same, no     *)
(* packet it accepts is put together from two, and what is damaged costs   *)
(* one more packet at most.                                                *)
(*                                                                         *)
(* Scan goes on with fewer bytes than it was given, so by induction over   *)
(* the size of the buffer there is such a function (ScanSolves), and what  *)
(* it leaves can be taken up when more bytes have come (ScanJoined): the   *)
(* first theorem.                                                          *)
(*                                                                         *)
(* For the second, every byte of what is buffered or on its way has a      *)
(* place in the packet it was sent in (Placed): the bytes of a packet are  *)
(* in order and at most one of them is gone.  Where a header is found one  *)
(* was sent (HeaderPlace), and a candidate that parses ends in a ';',      *)
(* which is no header's; with every byte between them in order, they are   *)
(* of one packet and the candidate has its doors (CandidateWhole).  What   *)
(* was decoded is sent before all that is buffered or on its way.          *)
(*                                                                         *)
(* For the third, a packet that comes whole after one that is not damaged  *)
(* has room before it: no candidate that begins earlier reaches into it    *)
(* (RoomBefore), so a turn of the loop decodes it or goes on before it     *)
(* (TurnFinds), and the loop does (ScanFinds).  What an overflow takes is  *)
(* two packets older than all that is still to come (DroppedIs).           *)
(***************************************************************************)
EXTENDS StreamDecoder, SequenceTheorems, FiniteSetTheorems, TLAPS, WellFoundedInduction

-----------------------------------------------------------------------------
(* Natural numbers.                                                        *)

\* A set of natural numbers that is not empty has a least element.
LEMMA HasLeast ==
  ASSUME NEW S \in SUBSET Nat, S # {}
  PROVE  \E x \in S : \A y \in S : x <= y
<1>1. PICK x \in S : \A y \in S : ~(<<y, x>> \in OpToRel(<, Nat))
  <2> HIDE DEF OpToRel, IsWellFoundedOn
  <2>1. IsWellFoundedOn(OpToRel(<, Nat), Nat)
    BY NatLessThanWellFounded, Zenon
  <2> QED  BY <2>1, WFMin, Zenon
<1>2. \A y \in S : ~(y < x)
  BY <1>1, Zenon DEF OpToRel
<1> QED  BY <1>2

\* A set with zero and with the successors of its numbers has them all.
LEMMA Induction ==
  ASSUME NEW S, 0 \in S, \A n \in Nat : n \in S => n + 1 \in S
  PROVE  Nat \subseteq S
<1> SUFFICES ASSUME Nat \ S # {} PROVE FALSE
  OBVIOUS
<1>1. PICK n \in Nat \ S : \A m \in Nat \ S : n <= m
  BY HasLeast
<1>2. n - 1 \in Nat /\ n - 1 \in S
  BY <1>1
<1>3. (n - 1) + 1 \in S
  BY <1>2
<1> QED  BY <1>1, <1>3

\* The first of some places is one of them, and no place is before it.
LEMMA FirstPlace ==
  ASSUME NEW S \in SUBSET Nat, S # {}
  PROVE  First(S) \in S /\ \A y \in S : First(S) <= y
<1>1. \E x \in S : \A y \in S : x <= y
  BY HasLeast
<1> QED  BY <1>1, Zenon DEF First

LEMMA FirstIs ==
  ASSUME NEW S \in SUBSET Nat, NEW x \in S, \A y \in S : x <= y
  PROVE  First(S) = x
<1>1. First(S) \in S /\ First(S) <= x
  BY FirstPlace
<1> PICK f \in S : f = First(S)
  BY <1>1
<1>2. f \in Nat /\ x \in Nat /\ f <= x /\ x <= f
  BY <1>1
<1> QED  BY <1>2

-----------------------------------------------------------------------------
(* Sequences of bytes.  The steps below know them by their elements: the   *)
(* operators have names here, which only these lemmas expand.              *)

Bytes == Seq(Byte)
Size(b) == Len(b)
Joined(b, c) == b \o c
Part(b, i, j) == SubSeq(b, i, j)

LEMMA SizeIs ==
  \A b \in Bytes : Size(b) \in Nat
  BY LenProperties DEF Bytes, Size

LEMMA ByteAt ==
  ASSUME NEW b \in Bytes, NEW i \in 1 .. Size(b)
  PROVE  b[i] \in Byte
  BY ElementOfSeq DEF Bytes, Size

LEMMA SameBytes ==
  ASSUME NEW b \in Bytes, NEW c \in Bytes, NEW n \in Nat, Size(b) = n, Size(c) = n,
         \A i \in 1 .. n : b[i] = c[i]
  PROVE  b = c
  BY SeqEqual DEF Bytes, Size

LEMMA JoinedIs ==
  ASSUME NEW b \in Bytes, NEW c \in Bytes, NEW m \in Nat, Size(b) = m, NEW n \in Nat, Size(c) = n
  PROVE  /\ Joined(b, c) \in Bytes /\ Size(Joined(b, c)) = m + n
         /\ \A i \in 1 .. m + n : Joined(b, c)[i] = IF i <= m THEN b[i] ELSE c[i - m]
  BY ConcatProperties DEF Bytes, Size, Joined

LEMMA PartIs ==
  ASSUME NEW b \in Bytes, NEW n \in Nat, Size(b) = n, NEW i \in 1 .. n + 1, NEW j \in i - 1 .. n
  PROVE  /\ Part(b, i, j) \in Bytes /\ Size(Part(b, i, j)) = j - i + 1
         /\ \A k \in 1 .. j - i + 1 : Part(b, i, j)[k] = b[i + k - 1]
<1>1. \A k \in i .. j : b[k] \in Byte
  BY ElementOfSeq DEF Bytes, Size
<1>2. i \in Int /\ j \in Int
  OBVIOUS
<1>3. /\ SubSeq(b, i, j) \in Seq(Byte)
      /\ Len(SubSeq(b, i, j)) = IF i <= j THEN j - i + 1 ELSE 0
      /\ \A k \in 1 .. j - i + 1 : SubSeq(b, i, j)[k] = b[i + k - 1]
  BY <1>1, <1>2, SubSeqProperties
<1> QED  BY <1>3 DEF Bytes, Size, Part

LEMMA FrontIs ==
  ASSUME NEW b \in Bytes, NEW n \in Nat, Size(b) = n, NEW j \in 0 .. n
  PROVE  /\ Part(b, 1, j) \in Bytes /\ Size(Part(b, 1, j)) = j
         /\ \A k \in 1 .. j : Part(b, 1, j)[k] = b[k]
<1>1. \A k \in 1 .. j : b[k] \in Byte
  BY ElementOfSeq DEF Bytes, Size
<1>2. /\ SubSeq(b, 1, j) \in Seq(Byte)
      /\ Len(SubSeq(b, 1, j)) = IF 1 <= j THEN j - 1 + 1 ELSE 0
      /\ \A k \in 1 .. j - 1 + 1 : SubSeq(b, 1, j)[k] = b[1 + k - 1]
  BY <1>1, SubSeqProperties
<1> QED  BY <1>2 DEF Bytes, Size, Part

\* The bytes from a place on.
LEMMA FromIs ==
  ASSUME NEW b \in Bytes, NEW n \in Nat, Size(b) = n, NEW i \in 1 .. n + 1
  PROVE  /\ From(b, i) \in Bytes /\ Size(From(b, i)) = n - i + 1
         /\ \A k \in 1 .. n - i + 1 : From(b, i)[k] = b[i + k - 1]
<1>1. From(b, i) = Part(b, i, n)
  BY DEF From, Size, Part
<1>2. n \in i - 1 .. n
  OBVIOUS
<1> QED  BY <1>1, <1>2, PartIs

LEMMA FromJoined ==
  ASSUME NEW b \in Bytes, NEW c \in Bytes, NEW i \in 1 .. Size(b) + 1
  PROVE  From(Joined(b, c), i) = Joined(From(b, i), c)
<1> PICK m \in Nat, n \in Nat : m = Size(b) /\ n = Size(c)
  BY SizeIs
<1> PICK l \in Nat : l = m - i + 1
  OBVIOUS
<1>1. PICK all \in Bytes :
        /\ all = Joined(b, c) /\ Size(all) = m + n
        /\ \A k \in 1 .. m + n : all[k] = IF k <= m THEN b[k] ELSE c[k - m]
  BY JoinedIs
<1>2. PICK u \in Bytes :
        /\ u = From(b, i) /\ Size(u) = l
        /\ \A k \in 1 .. l : u[k] = b[i + k - 1]
  BY FromIs
<1>3. PICK v \in Bytes :
        /\ v = From(all, i) /\ Size(v) = l + n
        /\ \A k \in 1 .. l + n : v[k] = all[i + k - 1]
  <2> PICK z \in Nat : z = m + n
    OBVIOUS
  <2>1. i \in 1 .. z + 1 /\ z - i + 1 = l + n
    OBVIOUS
  <2>2. /\ From(all, i) \in Bytes /\ Size(From(all, i)) = z - i + 1
        /\ \A k \in 1 .. z - i + 1 : From(all, i)[k] = all[i + k - 1]
    BY <1>1, <2>1, FromIs, ZenonT(30)
  <2> QED  BY <2>1, <2>2
<1>4. PICK w \in Bytes :
        /\ w = Joined(u, c) /\ Size(w) = l + n
        /\ \A k \in 1 .. l + n : w[k] = IF k <= l THEN u[k] ELSE c[k - l]
  BY <1>2, JoinedIs
<1>5. ASSUME NEW k \in 1 .. l + n PROVE v[k] = w[k]
  <2>1. i + k - 1 \in 1 .. m + n
    OBVIOUS
  <2>2. CASE k <= l
    BY <1>1, <1>2, <1>3, <1>4, <2>1, <2>2
  <2>3. CASE ~(k <= l)
    <3>1. ~(i + k - 1 <= m) /\ (i + k - 1) - m = k - l
      BY <2>3
    <3> QED  BY <1>1, <1>3, <1>4, <2>1, <2>3, <3>1
  <2> QED  BY <2>2, <2>3
<1>6. v = w
  BY <1>3, <1>4, <1>5, SameBytes
<1> QED  BY <1>1, <1>2, <1>3, <1>4, <1>6

LEMMA FromFrom ==
  ASSUME NEW b \in Bytes, NEW i \in 1 .. Size(b) + 1, NEW j \in 1 .. Size(b) - i + 2
  PROVE  From(From(b, i), j) = From(b, i + j - 1)
<1> PICK n \in Nat : n = Size(b)
  BY SizeIs
<1> PICK l \in Nat : l = n - i - j + 2
  OBVIOUS
<1>1. PICK u \in Bytes :
        /\ u = From(b, i) /\ Size(u) = n - i + 1
        /\ \A k \in 1 .. n - i + 1 : u[k] = b[i + k - 1]
  BY FromIs
<1>2. PICK v \in Bytes :
        /\ v = From(u, j) /\ Size(v) = l /\ \A k \in 1 .. l : v[k] = u[j + k - 1]
  <2> PICK m \in Nat : m = n - i + 1
    OBVIOUS
  <2>1. j \in 1 .. m + 1 /\ m - j + 1 = l
    OBVIOUS
  <2>2. /\ From(u, j) \in Bytes /\ Size(From(u, j)) = m - j + 1
        /\ \A k \in 1 .. m - j + 1 : From(u, j)[k] = u[j + k - 1]
    BY <1>1, <2>1, FromIs
  <2> QED  BY <2>1, <2>2
<1> PICK p \in 1 .. n + 1 : p = i + j - 1
  OBVIOUS
<1>3. PICK w \in Bytes :
        /\ w = From(b, p) /\ Size(w) = l
        /\ \A k \in 1 .. l : w[k] = b[p + k - 1]
  <2>1. n - p + 1 = l
    OBVIOUS
  <2>2. /\ From(b, p) \in Bytes /\ Size(From(b, p)) = n - p + 1
        /\ \A k \in 1 .. n - p + 1 : From(b, p)[k] = b[p + k - 1]
    BY FromIs
  <2> QED  BY <2>1, <2>2
<1>4. ASSUME NEW k \in 1 .. l PROVE v[k] = w[k]
  <2>1. j + k - 1 \in 1 .. n - i + 1 /\ i + (j + k - 1) - 1 = p + k - 1
    OBVIOUS
  <2> QED  BY <1>1, <1>2, <1>3, <2>1
<1>5. v = w
  BY <1>2, <1>3, <1>4, SameBytes
<1> QED  BY <1>1, <1>2, <1>3, <1>5

LEMMA FromFirst ==
  ASSUME NEW b \in Bytes
  PROVE  From(b, 1) = b
  BY SubSeqFull DEF From, Bytes

\* What holds of some bytes when it holds of the shorter ones holds of all.
LEMMA SizeInduction ==
  ASSUME NEW G \in SUBSET Bytes,
         \A b \in Bytes : (\A c \in Bytes : Size(c) < Size(b) => c \in G) => b \in G
  PROVE  G = Bytes
<1> SUFFICES ASSUME NEW bad \in Bytes, bad \notin G PROVE FALSE
  OBVIOUS
<1> DEFINE N == {Size(b) : b \in Bytes \ G}
<1>1. N \in SUBSET Nat /\ N # {}
  BY SizeIs
<1>2. PICK n \in N : \A m \in N : n <= m
  <2> HIDE DEF N
  <2> QED  BY <1>1, HasLeast
<1>3. PICK b \in Bytes \ G : Size(b) = n
  BY <1>2
<1>4. ASSUME NEW c \in Bytes, Size(c) < Size(b) PROVE c \in G
  <2> PICK m \in Nat : m = Size(c)
    BY SizeIs
  <2>1. n \in Nat /\ m < n
    BY <1>1, <1>3, <1>4
  <2>2. c \notin G => m \in N
    OBVIOUS
  <2> HIDE DEF N
  <2> QED  BY <1>2, <2>1, <2>2
<1> QED  BY <1>3, <1>4

-----------------------------------------------------------------------------
(* Headers.                                                                *)

HeaderSize == Len(Header)

LEMMA Sizes ==
  /\ HeaderSize \in Nat /\ HeaderSize > 2
  /\ Cardinality(Door) \in Nat /\ Cardinality(Door) > 0
  /\ PacketSize = HeaderSize + 4 * Cardinality(Door)
  /\ PacketSize \in Nat /\ PacketSize > HeaderSize
<1>1. HeaderSize \in Nat /\ HeaderSize > 2
  BY DecoderAssumption, LenProperties DEF HeaderSize
<1>2. Cardinality(Door) \in Nat /\ Cardinality(Door) # 0
  BY DecoderAssumption, FS_CardinalityType, FS_EmptySet
<1>3. PacketSize = HeaderSize + 4 * Cardinality(Door)
  BY DEF PacketSize, RecordSize, HeaderSize
<1> QED  BY <1>1, <1>2, <1>3

LEMMA HeaderAtIs ==
  \A b, i : HeaderAt(b, i) <=> /\ i + HeaderSize - 1 <= Size(b)
                               /\ \A k \in 1 .. HeaderSize : b[i + k - 1].is = Header[k]
  BY Zenon DEF HeaderAt, HeaderSize, Size

LEMMA HeadersAre ==
  ASSUME NEW b \in Bytes
  PROVE  /\ Headers(b) \in SUBSET (1 .. Size(b)) /\ Headers(b) \in SUBSET Nat
         /\ \A i \in Nat : i >= 1 => (i \in Headers(b) <=> HeaderAt(b, i))
<1> PICK n \in Nat : n = Size(b)
  BY SizeIs
<1>1. Headers(b) = {i \in 1 .. n : HeaderAt(b, i)}
  BY DEF Headers, Size
<1>2. ASSUME NEW i \in Nat, i >= 1, HeaderAt(b, i) PROVE i \in 1 .. n
  <2>1. i + HeaderSize - 1 <= n
    BY <1>2, HeaderAtIs
  <2> QED  BY <1>2, <2>1, Sizes
<1> QED  BY <1>1, <1>2

\* What is appended does not change the headers that are there.
LEMMA HeaderJoined ==
  ASSUME NEW b \in Bytes, NEW c \in Bytes, NEW i \in Nat, i >= 1,
         i + HeaderSize - 1 <= Size(b)
  PROVE  HeaderAt(Joined(b, c), i) <=> HeaderAt(b, i)
<1> PICK m \in Nat, n \in Nat, h \in Nat : m = Size(b) /\ n = Size(c) /\ h = HeaderSize
  BY SizeIs, Sizes
<1>1. PICK all \in Bytes :
        /\ all = Joined(b, c) /\ Size(all) = m + n
        /\ \A k \in 1 .. m + n : all[k] = IF k <= m THEN b[k] ELSE c[k - m]
  BY JoinedIs
<1>2. \A k \in 1 .. h : all[i + k - 1] = b[i + k - 1]
  <2> TAKE k \in 1 .. h
  <2>1. i + k - 1 \in 1 .. m + n /\ i + k - 1 <= m
    OBVIOUS
  <2> QED  BY <1>1, <2>1
<1>3. i + h - 1 <= m /\ i + h - 1 <= m + n
  OBVIOUS
<1>4. HeaderAt(all, i) <=> \A k \in 1 .. h : all[i + k - 1].is = Header[k]
  BY <1>1, <1>3, HeaderAtIs
<1>5. HeaderAt(b, i) <=> \A k \in 1 .. h : b[i + k - 1].is = Header[k]
  BY <1>3, HeaderAtIs
<1> QED  BY <1>1, <1>2, <1>4, <1>5

LEMMA HeaderFrom ==
  ASSUME NEW b \in Bytes, NEW p \in 1 .. Size(b) + 1, NEW i \in Nat, i >= 1
  PROVE  HeaderAt(From(b, p), i) <=> HeaderAt(b, p + i - 1)
<1> PICK n \in Nat, h \in Nat, q \in Nat : n = Size(b) /\ h = HeaderSize /\ q = p + i - 1
  BY SizeIs, Sizes
<1>1. PICK u \in Bytes :
        /\ u = From(b, p) /\ Size(u) = n - p + 1
        /\ \A k \in 1 .. n - p + 1 : u[k] = b[p + k - 1]
  BY FromIs
<1>2. i + h - 1 <= n - p + 1 <=> q + h - 1 <= n
  OBVIOUS
<1>3. ASSUME i + h - 1 <= n - p + 1
      PROVE  \A k \in 1 .. h : u[i + k - 1] = b[q + k - 1]
  <2> TAKE k \in 1 .. h
  <2>1. i + k - 1 \in 1 .. n - p + 1 /\ p + (i + k - 1) - 1 = q + k - 1
    BY <1>3
  <2> QED  BY <1>1, <2>1
<1>4. HeaderAt(u, i) <=> i + h - 1 <= n - p + 1 /\ \A k \in 1 .. h : u[i + k - 1].is = Header[k]
  BY <1>1, HeaderAtIs
<1>5. HeaderAt(b, q) <=> q + h - 1 <= n /\ \A k \in 1 .. h : b[q + k - 1].is = Header[k]
  BY HeaderAtIs
<1> QED  BY <1>1, <1>2, <1>3, <1>4, <1>5

-----------------------------------------------------------------------------
(* A turn of the loop.                                                     *)

Here(b) == From(b, First(Headers(b)))

\* What precedes the first header does not matter.
LEMMA HereFrom ==
  ASSUME NEW b \in Bytes, NEW p \in 1 .. Size(b) + 1, \A i \in Headers(b) : p <= i
  PROVE  /\ Headers(From(b, p)) = {} <=> Headers(b) = {}
         /\ Headers(b) # {} => Here(From(b, p)) = Here(b)
<1> PICK n \in Nat : n = Size(b)
  BY SizeIs
<1>1. PICK u \in Bytes : u = From(b, p) /\ Size(u) = n - p + 1
  BY FromIs
<1>2. ASSUME NEW i \in Nat, i >= 1 PROVE i \in Headers(u) <=> p + i - 1 \in Headers(b)
  <2> PICK q \in Nat : q = p + i - 1 /\ q >= 1
    BY <1>2
  <2>2. HeaderAt(u, i) <=> HeaderAt(b, q)
    BY <1>1, <1>2, HeaderFrom
  <2>3. i \in Headers(u) <=> HeaderAt(u, i)
    BY <1>2, HeadersAre
  <2>4. q \in Headers(b) <=> HeaderAt(b, q)
    BY HeadersAre
  <2> QED  BY <2>2, <2>3, <2>4
<1>3. Headers(u) \in SUBSET (1 .. n - p + 1) /\ Headers(u) \in SUBSET Nat
  BY <1>1, HeadersAre
<1>4. Headers(b) \in SUBSET (1 .. n) /\ Headers(b) \in SUBSET Nat
  BY HeadersAre
<1>5. ASSUME NEW i \in Headers(u) PROVE p + i - 1 \in Headers(b)
  BY <1>2, <1>3
<1>6. ASSUME NEW i \in Headers(b) PROVE i - p + 1 \in Headers(u)
  <2> PICK j \in Nat : j = i - p + 1 /\ j >= 1 /\ p + j - 1 = i
    BY <1>4
  <2> QED  BY <1>2
<1>7. ASSUME Headers(b) # {} PROVE Here(u) = Here(b)
  <2> PICK f \in Headers(b) : f = First(Headers(b)) /\ \A i \in Headers(b) : f <= i
    BY <1>4, <1>7, FirstPlace
  <2> PICK g \in Nat : g = f - p + 1
    BY <1>4
  <2>1. g \in Headers(u)
    BY <1>6
  <2>2. \A i \in Headers(u) : g <= i
    <3> TAKE i \in Headers(u)
    <3> PICK j \in Nat : j = p + i - 1
      BY <1>3
    <3>1. f <= j
      BY <1>5
    <3>2. i \in Nat /\ f \in Nat
      BY <1>3, <1>4
    <3> QED  BY <3>1, <3>2
  <2>3. First(Headers(u)) = g
    BY <1>3, <2>1, <2>2, FirstIs
  <2>4. g \in 1 .. n - p + 2 /\ p + g - 1 = f
    BY <1>3, <1>4, <2>1
  <2>5. From(u, g) = From(b, f)
    BY <1>1, <2>4, FromFrom
  <2> QED  BY <2>3, <2>5 DEF Here
<1> QED  BY <1>1, <1>5, <1>6, <1>7

Candidate(b) == Part(Here(b), 1, PacketSize)
Within(b) == Headers(Candidate(b)) \ {1}

\* The loop ends: it keeps these bytes ...
Stops(b) == Headers(b) = {} \/ Size(Here(b)) < PacketSize
Kept(b) == IF Headers(b) = {} THEN HeaderTail(b) ELSE Here(b)

\* ... or goes on with these, having decoded this.
Rest(b) == IF Within(b) # {} THEN From(Here(b), First(Within(b)))
           ELSE From(Here(b), PacketSize + 1)
Got(b) == IF Within(b) = {} /\ Parses(Candidate(b)) THEN <<DoorsFrom(Candidate(b))>>
          ELSE <<>>

Finds == Seq(SUBSET Nat)
Decoded == [rest : Bytes, found : Finds]

LEMMA OriginsAreNumbers ==
  ASSUME NEW b \in Bytes
  PROVE  Origins(b) \in SUBSET Nat
<1>1. DOMAIN b = 1 .. Size(b)
  BY LenProperties DEF Bytes, Size
<1>2. \A i \in 1 .. Size(b) : b[i].of \in Nat
  BY ByteAt DEF Byte
<1> QED  BY <1>1, <1>2 DEF Origins

LEMMA RecordIs ==
  ASSUME NEW b \in Bytes, Size(b) = PacketSize, NEW i \in 1 .. Cardinality(Door)
  PROVE  /\ Record(b, i) \in Bytes /\ Size(Record(b, i)) = 4
         /\ \A k \in 1 .. 4 : Record(b, i)[k] = b[HeaderSize + 4 * (i - 1) + k]
<1> PICK h \in Nat, c \in Nat, p \in Nat :
      h = HeaderSize /\ c = Cardinality(Door) /\ p = h + 4 * c /\ p = PacketSize
  BY Sizes
<1> PICK from \in 1 .. p + 1 : from = h + 4 * (i - 1) + 1
  OBVIOUS
<1> PICK to \in from - 1 .. p : to = h + 4 * i
  OBVIOUS
<1>1. Record(b, i) = Part(b, from, to)
  BY DEF Record, Part, RecordSize, HeaderSize
<1>2. to - from + 1 = 4
  OBVIOUS
<1>3. /\ Part(b, from, to) \in Bytes /\ Size(Part(b, from, to)) = to - from + 1
      /\ \A k \in 1 .. to - from + 1 : Part(b, from, to)[k] = b[from + k - 1]
  BY PartIs
<1>4. \A k \in 1 .. 4 : from + k - 1 = h + 4 * (i - 1) + k
  OBVIOUS
<1> QED  BY <1>1, <1>2, <1>3, <1>4

LEMMA DoorsFromNumbers ==
  ASSUME NEW b \in Bytes, Size(b) = PacketSize
  PROVE  DoorsFrom(b) \in SUBSET Nat
<1>1. ASSUME NEW r \in Range(Records(b)) PROVE Origins(SubSeq(r, 1, 2)) \in SUBSET Nat
  <2> PICK i \in 1 .. Cardinality(Door) : r = Record(b, i)
    BY <1>1 DEF Range, Records
  <2>1. r \in Bytes /\ Size(r) = 4
    BY RecordIs
  <2>2. Part(r, 1, 2) \in Bytes
    BY <2>1, PartIs
  <2> QED  BY <2>2, OriginsAreNumbers DEF Part
<1> QED  BY <1>1 DEF DoorsFrom

\* A turn that goes on decodes a packet or nothing, and leaves less.
LEMMA TurnIs ==
  ASSUME NEW b \in Bytes, ~Stops(b)
  PROVE  /\ Candidate(b) \in Bytes /\ Size(Candidate(b)) = PacketSize
         /\ Rest(b) \in Bytes /\ Size(Rest(b)) < Size(b)
         /\ Got(b) \in Finds
         /\ Here(b) \in Bytes
         /\ Within(b) # {} => First(Within(b)) \in 1 .. Size(Here(b)) + 1
         /\ Within(b) = {} => PacketSize + 1 \in 1 .. Size(Here(b)) + 1
<1> PICK n \in Nat, p \in Nat : n = Size(b) /\ p = PacketSize /\ p > 1
  BY SizeIs, Sizes
<1>1. Headers(b) \in SUBSET (1 .. n) /\ Headers(b) \in SUBSET Nat /\ Headers(b) # {}
  BY HeadersAre DEF Stops
<1> PICK f \in 1 .. n : f = First(Headers(b))
  BY <1>1, FirstPlace
<1> PICK l \in Nat : l = n - f + 1
  OBVIOUS
<1>2. PICK h \in Bytes : h = Here(b) /\ Size(h) = l
  <2>1. f \in 1 .. n + 1
    OBVIOUS
  <2> QED  BY <2>1, FromIs DEF Here
<1>3. l >= p
  BY <1>2 DEF Stops
<1>4. PICK c \in Bytes : c = Candidate(b) /\ Size(c) = p
  <2>1. p \in 1 - 1 .. l /\ 1 \in 1 .. l + 1 /\ p - 1 + 1 = p
    BY <1>3
  <2> QED  BY <1>2, <2>1, PartIs DEF Candidate
<1>5. Got(b) \in Finds
  <2>1. DoorsFrom(c) \in SUBSET Nat
    BY <1>4, DoorsFromNumbers
  <2>2. \A d \in SUBSET Nat : <<d>> \in Finds
    BY DEF Finds
  <2>3. <<>> \in Finds
    BY DEF Finds
  <2> QED  BY <1>4, <2>1, <2>2, <2>3, Zenon DEF Got
<1>6. CASE Within(b) # {}
  <2>1. Within(b) \in SUBSET (2 .. p) /\ Within(b) \in SUBSET Nat
    BY <1>4, HeadersAre DEF Within
  <2> PICK w \in 2 .. p : w = First(Within(b))
    BY <1>6, <2>1, FirstPlace
  <2>2. w \in 1 .. l + 1
    BY <1>3
  <2>3. From(h, w) \in Bytes /\ Size(From(h, w)) = l - w + 1
    BY <1>2, <2>2, FromIs
  <2>4. l - w + 1 < n
    OBVIOUS
  <2>5. Rest(b) = From(h, w)
    BY <1>2, <1>6 DEF Rest
  <2> QED  BY <1>2, <1>4, <1>5, <1>6, <2>2, <2>3, <2>4, <2>5
<1>7. CASE Within(b) = {}
  <2> PICK w \in 1 .. l + 1 : w = p + 1
    BY <1>3
  <2>3. From(h, w) \in Bytes /\ Size(From(h, w)) = l - w + 1
    BY <1>2, FromIs
  <2>4. l - w + 1 < n
    OBVIOUS
  <2>5. Rest(b) = From(h, w)
    BY <1>2, <1>7 DEF Rest
  <2> QED  BY <1>2, <1>4, <1>5, <1>7, <2>3, <2>4, <2>5
<1> QED  BY <1>6, <1>7

LEMMA HeaderTailIs ==
  ASSUME NEW b \in Bytes
  PROVE  \E p \in 1 .. Size(b) + 1 :
           /\ HeaderTail(b) = From(b, p)
           /\ p = IF Size(b) < HeaderSize THEN 1 ELSE Size(b) - HeaderSize + 2
<1> PICK n \in Nat, h \in Nat : n = Size(b) /\ h = HeaderSize /\ h > 1
  BY SizeIs, Sizes
<1>1. HeaderTail(b) = IF n <= h - 1 THEN b ELSE From(b, n - (h - 1) + 1)
  BY Zenon DEF HeaderTail, HeaderSize, From, Size
<1>2. CASE n < h
  BY <1>1, <1>2, FromFirst
<1>3. CASE ~(n < h)
  <2> PICK p \in 1 .. n + 1 : p = n - h + 2 /\ p = n - (h - 1) + 1
    BY <1>3
  <2> QED  BY <1>1, <1>3
<1> QED  BY <1>2, <1>3

LEMMA KeptFrom ==
  ASSUME NEW b \in Bytes
  PROVE  \E p \in 1 .. Size(b) + 1 : Kept(b) = From(b, p)
<1> PICK n \in Nat : n = Size(b)
  BY SizeIs
<1>1. CASE Headers(b) = {}
  <2> PICK p \in 1 .. n + 1 : HeaderTail(b) = From(b, p)
    BY HeaderTailIs
  <2> QED  BY <1>1 DEF Kept
<1>2. CASE Headers(b) # {}
  <2>1. Headers(b) \in SUBSET (1 .. n) /\ Headers(b) \in SUBSET Nat
    BY HeadersAre
  <2> PICK f \in 1 .. n + 1 : f = First(Headers(b))
    BY <1>2, <2>1, FirstPlace
  <2> QED  BY <1>2 DEF Kept, Here
<1> QED  BY <1>1, <1>2

LEMMA KeptIs ==
  ASSUME NEW b \in Bytes
  PROVE  Kept(b) \in Bytes
<1> PICK n \in Nat : n = Size(b)
  BY SizeIs
<1> PICK p \in 1 .. n + 1 : Kept(b) = From(b, p)
  BY KeptFrom
<1> QED  BY FromIs

-----------------------------------------------------------------------------
(* The loop: Scan is the function its definition describes.                *)

\* What a turn yields when f says what its rest yields.
Onto(got, last) == [rest |-> last.rest, found |-> got \o last.found]
Go(f, b) == IF Stops(b) THEN [rest |-> Kept(b), found |-> <<>>]
            ELSE Onto(Got(b), f[Rest(b)])

LEMMA OntoIs ==
  ASSUME NEW got \in Finds, NEW last \in Decoded
  PROVE  Onto(got, last) \in Decoded
<1>1. last.rest \in Bytes /\ last.found \in Finds
  BY DEF Decoded
<1>2. got \o last.found \in Finds
  BY <1>1, ConcatProperties DEF Finds
<1> QED  BY <1>1, <1>2 DEF Onto, Decoded

LEMMA GoIs ==
  ASSUME NEW b \in Bytes, NEW f, Stops(b) \/ f[Rest(b)] \in Decoded
  PROVE  Go(f, b) \in Decoded
<1>1. CASE Stops(b)
  <2>1. Kept(b) \in Bytes /\ <<>> \in Finds
    BY KeptIs DEF Finds
  <2> QED  BY <1>1, <2>1 DEF Go, Decoded
<1>2. CASE ~Stops(b)
  BY <1>2, TurnIs, OntoIs DEF Go
<1> QED  BY <1>1, <1>2

LEMMA GoSame ==
  ASSUME NEW b, NEW f, NEW g, Stops(b) \/ f[Rest(b)] = g[Rest(b)]
  PROVE  Go(f, b) = Go(g, b)
  BY Zenon DEF Go

\* A solution for the bytes shorter than n.
Shorter(n) == {b \in Bytes : Size(b) < n}
Solves(f, n) == f \in [Shorter(n) -> Decoded] /\ \A b \in Shorter(n) : f[b] = Go(f, b)

LEMMA SolutionsAgree ==
  ASSUME NEW m \in Nat, NEW n \in Nat, NEW f, NEW g, Solves(f, m), Solves(g, n)
  PROVE  \A b \in Bytes : b \in Shorter(m) /\ b \in Shorter(n) => f[b] = g[b]
<1> DEFINE G == {b \in Bytes : b \in Shorter(m) /\ b \in Shorter(n) => f[b] = g[b]}
<1>1. ASSUME NEW b \in Bytes, \A c \in Bytes : Size(c) < Size(b) => c \in G
      PROVE  b \in G
  <2> SUFFICES ASSUME b \in Shorter(m), b \in Shorter(n) PROVE f[b] = g[b]
    OBVIOUS
  <2>1. f[b] = Go(f, b) /\ g[b] = Go(g, b)
    BY DEF Solves
  <2>2. CASE Stops(b)
    BY <2>1, <2>2, GoSame
  <2>3. CASE ~Stops(b)
    <3> PICK c \in Bytes : c = Rest(b) /\ Size(c) < Size(b)
      BY <2>3, TurnIs
    <3>1. Size(c) < m /\ Size(c) < n
      <4>1. Size(b) \in Nat /\ Size(c) \in Nat /\ Size(b) < m /\ Size(b) < n
        BY SizeIs DEF Shorter
      <4> QED  BY <4>1
    <3>2. f[c] = g[c]
      BY <1>1, <3>1 DEF Shorter
    <3> QED  BY <2>1, <3>2, GoSame
  <2> QED  BY <2>2, <2>3
<1>2. G = Bytes
  <2> HIDE DEF G
  <2>1. G \in SUBSET Bytes
    BY DEF G
  <2> QED  BY <1>1, <2>1, SizeInduction
<1> QED  BY <1>2

LEMMA SolutionExists ==
  \A n \in Nat : \E f : Solves(f, n)
<1> DEFINE S == {n \in Nat : \E f : Solves(f, n)}
<1>1. 0 \in S
  <2>1. Shorter(0) = {}
    <3>1. \A b \in Bytes : ~(Size(b) < 0)
      BY SizeIs
    <3> QED  BY <3>1 DEF Shorter
  <2>2. Solves([b \in Shorter(0) |-> Go(<<>>, b)], 0)
    BY <2>1 DEF Solves
  <2> QED  BY <2>2
<1>2. ASSUME NEW n \in Nat, n \in S PROVE n + 1 \in S
  <2> PICK f : Solves(f, n)
    BY <1>2
  <2> DEFINE g == [b \in Shorter(n + 1) |-> Go(f, b)]
  <2>1. ASSUME NEW b \in Shorter(n + 1), ~Stops(b)
        PROVE  Rest(b) \in Shorter(n) /\ Rest(b) \in Shorter(n + 1)
    <3>1. b \in Bytes /\ Size(b) < n + 1
      BY DEF Shorter
    <3> PICK c \in Bytes : c = Rest(b) /\ Size(c) < Size(b)
      BY <2>1, <3>1, TurnIs
    <3>2. Size(c) \in Nat /\ Size(b) \in Nat
      BY <3>1, SizeIs
    <3>3. Size(c) < n /\ Size(c) < n + 1
      BY <3>1, <3>2
    <3> QED  BY <3>3 DEF Shorter
  <2>2. \A c \in Shorter(n) : f[c] \in Decoded /\ f[c] = Go(f, c)
    BY DEF Solves
  <2>3. ASSUME NEW b \in Shorter(n + 1) PROVE Go(f, b) \in Decoded
    <3>1. b \in Bytes
      BY DEF Shorter
    <3> QED  BY <2>1, <2>2, <3>1, GoIs
  <2>4. g \in [Shorter(n + 1) -> Decoded]
    BY <2>3
  <2>5. ASSUME NEW b \in Shorter(n + 1) PROVE g[b] = Go(g, b)
    <3>1. g[b] = Go(f, b)
      OBVIOUS
    <3>2. ASSUME ~Stops(b) PROVE f[Rest(b)] = g[Rest(b)]
      <4>1. Rest(b) \in Shorter(n) /\ Rest(b) \in Shorter(n + 1)
        BY <2>1, <3>2
      <4> QED  BY <2>2, <4>1
    <3> HIDE DEF g
    <3> QED  BY <3>1, <3>2, GoSame
  <2> HIDE DEF g
  <2>6. Solves(g, n + 1)
    BY <2>4, <2>5 DEF Solves
  <2> QED  BY <2>6
<1> HIDE DEF S
<1>3. Nat \subseteq S
  BY <1>1, <1>2, Induction
<1> QED  BY <1>3 DEF S

\* Scan's equation, for any function.
Body(f, bytes) ==
  LET headers == Headers(bytes)
      here == From(bytes, First(headers))
      packet == SubSeq(here, 1, PacketSize)
      within == Headers(packet) \ {1}
      after == f[From(here, PacketSize + 1)] IN
  IF headers = {} THEN [rest |-> HeaderTail(bytes), found |-> <<>>]
  ELSE IF Len(here) < PacketSize THEN [rest |-> here, found |-> <<>>]
  ELSE IF within # {} THEN f[From(here, First(within))]
  ELSE IF Parses(packet) THEN [after EXCEPT !.found = <<DoorsFrom(packet)>> \o @]
  ELSE after

LEMMA BodyIs ==
  ASSUME NEW b \in Bytes, NEW f, ~Stops(b) => f[Rest(b)] \in Decoded
  PROVE  Body(f, b) = Go(f, b)
<1>1. Body(f, b) =
        IF Headers(b) = {} THEN [rest |-> HeaderTail(b), found |-> <<>>]
        ELSE IF Size(Here(b)) < PacketSize THEN [rest |-> Here(b), found |-> <<>>]
        ELSE IF Within(b) # {} THEN f[From(Here(b), First(Within(b)))]
        ELSE IF Parses(Candidate(b))
             THEN [f[From(Here(b), PacketSize + 1)]
                     EXCEPT !.found = <<DoorsFrom(Candidate(b))>> \o @]
        ELSE f[From(Here(b), PacketSize + 1)]
  BY Zenon DEF Body, Here, Size, Within, Candidate, Part
<1>2. CASE Stops(b)
  BY <1>1, <1>2 DEF Go, Stops, Kept
<1>3. CASE ~Stops(b)
  <2> PICK last \in Decoded : last = f[Rest(b)]
    BY <1>3
  <2>1. last = [rest |-> last.rest, found |-> last.found] /\ last.found \in Finds
    BY DEF Decoded
  <2>2. <<>> \o last.found = last.found
    BY <2>1, ConcatEmptySeq DEF Finds
  <2>3. Onto(<<>>, last) = last
    BY <2>1, <2>2 DEF Onto
  <2>4. ASSUME NEW d PROVE [last EXCEPT !.found = <<d>> \o @] = Onto(<<d>>, last)
    <3>1. [last EXCEPT !.found = <<d>> \o @] = [last EXCEPT !.found = <<d>> \o last.found]
      BY <2>1
    <3> DEFINE new == <<d>> \o last.found
    <3> HIDE DEF new
    <3>2. [last EXCEPT !.found = new] = [rest |-> last.rest, found |-> new]
      BY <2>1
    <3> QED  BY <3>1, <3>2, Zenon DEF new, Onto
  <2>5. Go(f, b) = Onto(Got(b), last)
    BY <1>3 DEF Go
  <2>6. CASE Within(b) # {}
    BY <1>1, <1>3, <2>3, <2>5, <2>6 DEF Stops, Rest, Got
  <2>7. CASE Within(b) = {} /\ Parses(Candidate(b))
    <3>1. last = f[From(Here(b), PacketSize + 1)] /\ Got(b) = <<DoorsFrom(Candidate(b))>>
      BY <2>7 DEF Rest, Got
    <3>2. Body(f, b) = [last EXCEPT !.found = <<DoorsFrom(Candidate(b))>> \o @]
      BY <1>1, <1>3, <2>7, <3>1, Zenon DEF Stops
    <3> QED  BY <2>4, <2>5, <3>1, <3>2, Zenon
  <2>8. CASE Within(b) = {} /\ ~Parses(Candidate(b))
    BY <1>1, <1>3, <2>3, <2>5, <2>8 DEF Stops, Rest, Got
  <2> QED  BY <2>6, <2>7, <2>8
<1> QED  BY <1>2, <1>3

\* Scan[b] is what a turn on b yields, with what Scan yields for the rest.
LEMMA ScanSolves ==
  ASSUME NEW b \in Bytes
  PROVE  Scan[b] \in Decoded /\ Scan[b] = Go(Scan, b)
<1> DEFINE sol == [n \in Nat |-> CHOOSE f : Solves(f, n)]
           F == [c \in Bytes |-> sol[Size(c) + 1][c]]
<1>1. \A n \in Nat : Solves(sol[n], n)
  <2> TAKE n \in Nat
  <2>1. sol[n] = CHOOSE f : Solves(f, n)
    OBVIOUS
  <2>2. \E f : Solves(f, n)
    BY SolutionExists
  <2> HIDE DEF sol
  <2> QED  BY <2>1, <2>2, Zenon
<1> HIDE DEF sol
<1>2. ASSUME NEW c \in Bytes, NEW n \in Nat, Size(c) < n
      PROVE  F[c] = sol[n][c]
  <2> PICK m \in Nat : m = Size(c) + 1 /\ Size(c) < m
    BY SizeIs
  <2>1. c \in Shorter(m) /\ c \in Shorter(n)
    BY <1>2 DEF Shorter
  <2>2. Solves(sol[m], m) /\ Solves(sol[n], n)
    BY <1>1
  <2>3. sol[m][c] = sol[n][c]
    BY <2>1, <2>2, SolutionsAgree
  <2> QED  BY <2>3
<1> HIDE DEF F
<1>3. ASSUME NEW c \in Bytes PROVE F[c] \in Decoded /\ F[c] = Go(F, c)
  <2> PICK m \in Nat : m = Size(c) + 1 /\ Size(c) < m
    BY SizeIs
  <2> PICK f : f = sol[m]
    OBVIOUS
  <2>1. Solves(f, m) /\ c \in Shorter(m) /\ F[c] = f[c]
    BY <1>1, <1>2 DEF Shorter
  <2>2. f[c] \in Decoded /\ f[c] = Go(f, c)
    BY <2>1 DEF Solves
  <2>3. ASSUME ~Stops(c) PROVE f[Rest(c)] = F[Rest(c)]
    <3> PICK d \in Bytes : d = Rest(c) /\ Size(d) < Size(c)
      BY <2>3, TurnIs
    <3>1. Size(d) < m
      <4>1. Size(c) \in Nat /\ Size(d) \in Nat
        BY SizeIs
      <4> QED  BY <4>1
    <3> QED  BY <1>2, <3>1
  <2>4. Go(f, c) = Go(F, c)
    BY <2>3, GoSame
  <2> QED  BY <2>1, <2>2, <2>4
<1>4. F = [bytes \in Bytes |-> Body(F, bytes)]
  <2>1. ASSUME NEW c \in Bytes PROVE F[c] = Body(F, c)
    <3>1. ASSUME ~Stops(c) PROVE F[Rest(c)] \in Decoded
      BY <1>3, <3>1, TurnIs
    <3> QED  BY <1>3, <3>1, BodyIs
  <2>2. F = [bytes \in Bytes |-> F[bytes]]
    BY Zenon DEF F
  <2> QED  BY <2>1, <2>2, Zenon
<1>5. Scan = [bytes \in Bytes |-> Body(Scan, bytes)]
  BY <1>4, Zenon DEF Scan, Body, Bytes
<1> DEFINE G == {c \in Bytes : Scan[c] \in Decoded /\ Scan[c] = Go(Scan, c)}
<1>6. ASSUME NEW c \in Bytes, \A d \in Bytes : Size(d) < Size(c) => d \in G
      PROVE  c \in G
  <2>1. Scan[c] = Body(Scan, c)
    BY <1>5, Zenon
  <2>2. ASSUME ~Stops(c) PROVE Scan[Rest(c)] \in Decoded
    BY <1>6, <2>2, TurnIs
  <2>3. Body(Scan, c) = Go(Scan, c)
    BY <2>2, BodyIs
  <2>4. Go(Scan, c) \in Decoded
    BY <2>2, GoIs
  <2> QED  BY <2>1, <2>3, <2>4
<1>7. G = Bytes
  <2>1. G \in SUBSET Bytes
    OBVIOUS
  <2> HIDE DEF G
  <2> QED  BY <1>6, <2>1, SizeInduction
<1> QED  BY <1>7

-----------------------------------------------------------------------------
(* How the bytes are cut.                                                  *)

\* Bytes before the first header, less than a header of them kept, are as good
\* as not read.
LEMMA ScanFrom ==
  ASSUME NEW b \in Bytes, NEW p \in 1 .. Size(b) + 1, \A i \in Headers(b) : p <= i,
         Headers(b) # {} \/ HeaderTail(From(b, p)) = HeaderTail(b)
  PROVE  Scan[From(b, p)] = Scan[b]
<1> PICK n \in Nat : n = Size(b)
  BY SizeIs
<1> PICK u \in Bytes : u = From(b, p)
  BY FromIs
<1>1. Scan[u] = Go(Scan, u) /\ Scan[b] = Go(Scan, b)
  BY ScanSolves
<1>2. CASE Headers(b) = {}
  <2>1. Headers(u) = {} /\ HeaderTail(u) = HeaderTail(b)
    BY <1>2, HereFrom
  <2> QED  BY <1>1, <1>2, <2>1 DEF Go, Stops, Kept
<1>3. CASE Headers(b) # {}
  <2>1. Headers(u) # {} /\ Here(u) = Here(b)
    BY <1>3, HereFrom
  <2>2. Candidate(u) = Candidate(b)
    BY <2>1 DEF Candidate
  <2>3. Within(u) = Within(b)
    BY <2>2 DEF Within
  <2>4. Rest(u) = Rest(b) /\ Got(u) = Got(b)
    BY <2>1, <2>2, <2>3 DEF Rest, Got
  <2>5. (Stops(u) <=> Stops(b)) /\ Kept(u) = Kept(b)
    BY <1>3, <2>1 DEF Stops, Kept
  <2> QED  BY <1>1, <2>4, <2>5 DEF Go
<1> QED  BY <1>2, <1>3

\* The tail of what is left has the same tail.
LEMMA TailOfTail ==
  ASSUME NEW b \in Bytes, NEW p \in 1 .. Size(b) + 1,
         p = 1 \/ p + HeaderSize - 2 <= Size(b)
  PROVE  HeaderTail(From(b, p)) = HeaderTail(b)
<1> PICK n \in Nat, h \in Nat : n = Size(b) /\ h = HeaderSize /\ h > 1
  BY SizeIs, Sizes
<1>1. CASE p = 1
  BY <1>1, FromFirst
<1>2. CASE p # 1 /\ p + h - 2 <= n
  <2> PICK m \in Nat : m = n - p + 1 /\ p > 1
    BY <1>2
  <2>1. PICK u \in Bytes : u = From(b, p) /\ Size(u) = m
    BY FromIs
  <2>2. PICK q \in 1 .. n + 1 : HeaderTail(b) = From(b, q) /\ q = n - h + 2
    <3>1. ~(n < h)
      BY <1>2
    <3> QED  BY <3>1, HeaderTailIs
  <2>3. PICK r \in 1 .. m + 1 :
          HeaderTail(u) = From(u, r) /\ r = IF m < h THEN 1 ELSE m - h + 2
    BY <2>1, HeaderTailIs
  <2>4. p + r - 1 = q
    <3>1. m >= h - 1
      BY <1>2
    <3> QED  BY <2>2, <2>3, <3>1
  <2>5. r \in 1 .. n - p + 2
    BY <2>3
  <2>6. From(u, r) = From(b, q)
    BY <2>1, <2>4, <2>5, FromFrom
  <2> QED  BY <2>1, <2>2, <2>3, <2>6
<1> QED  BY <1>1, <1>2

\* The loop, when it ends, may forget what it does not keep.
LEMMA StopsJoined ==
  ASSUME NEW b \in Bytes, NEW c \in Bytes, Stops(b)
  PROVE  Scan[Joined(b, c)] = Scan[Joined(Kept(b), c)]
<1> PICK n \in Nat, m \in Nat, h \in Nat :
      n = Size(b) /\ m = Size(c) /\ h = HeaderSize /\ h > 1
  BY SizeIs, Sizes
<1>1. PICK all \in Bytes : all = Joined(b, c) /\ Size(all) = n + m
  BY JoinedIs
<1>2. Headers(b) \in SUBSET (1 .. n) /\ Headers(b) \in SUBSET Nat
  BY HeadersAre
<1>3. Headers(all) \in SUBSET (1 .. n + m) /\ Headers(all) \in SUBSET Nat
  BY <1>1, HeadersAre
<1>4. ASSUME NEW i \in Nat, i >= 1, i + h - 1 <= n
      PROVE  i \in Headers(all) <=> i \in Headers(b)
  <2>1. HeaderAt(all, i) <=> HeaderAt(b, i)
    BY <1>1, <1>4, HeaderJoined
  <2> QED  BY <1>4, <2>1, HeadersAre
<1>5. \A i \in Headers(b) : i + h - 1 <= n
  BY <1>2, HeadersAre, HeaderAtIs
<1>6. CASE Headers(b) = {}
  <2> PICK p \in 1 .. n + 1 :
        HeaderTail(b) = From(b, p) /\ p = IF n < h THEN 1 ELSE n - h + 2
    BY HeaderTailIs
  <2>1. ASSUME NEW i \in Headers(all) PROVE p <= i
    <3>1. i \in Nat /\ i >= 1
      BY <1>3
    <3>2. ~(i + h - 1 <= n)
      BY <1>4, <1>6, <3>1
    <3> QED  BY <3>1, <3>2
  <2>2. p \in 1 .. n + m + 1 /\ (p = 1 \/ p + h - 2 <= n + m)
    OBVIOUS
  <2>3. HeaderTail(From(all, p)) = HeaderTail(all)
    BY <1>1, <2>2, TailOfTail
  <2>4. Scan[From(all, p)] = Scan[all]
    BY <1>1, <2>1, <2>2, <2>3, ScanFrom
  <2>5. From(all, p) = Joined(From(b, p), c)
    BY <1>1, FromJoined
  <2> QED  BY <1>1, <1>6, <2>4, <2>5 DEF Kept
<1>7. CASE Headers(b) # {}
  <2> PICK f \in Headers(b) : f = First(Headers(b)) /\ \A i \in Headers(b) : f <= i
    BY <1>2, <1>7, FirstPlace
  <2>1. f \in 1 .. n + 1 /\ f \in 1 .. n + m + 1 /\ f + h - 1 <= n
    BY <1>2, <1>5
  <2>2. Headers(all) # {}
    BY <1>4, <2>1
  <2>3. ASSUME NEW i \in Headers(all) PROVE f <= i
    <3>1. i \in Nat /\ i >= 1
      BY <1>3
    <3>2. CASE i + h - 1 <= n
      BY <1>4, <3>1, <3>2
    <3>3. CASE ~(i + h - 1 <= n)
      BY <2>1, <3>1, <3>3
    <3> QED  BY <3>2, <3>3
  <2>4. Scan[From(all, f)] = Scan[all]
    BY <1>1, <2>1, <2>2, <2>3, ScanFrom
  <2>5. From(all, f) = Joined(From(b, f), c)
    BY <1>1, <2>1, FromJoined
  <2> QED  BY <1>1, <1>7, <2>4, <2>5 DEF Kept, Here
<1> QED  BY <1>6, <1>7

\* A turn that goes on does the same when more bytes follow.
LEMMA GoesOnJoined ==
  ASSUME NEW b \in Bytes, NEW c \in Bytes, ~Stops(b)
  PROVE  /\ ~Stops(Joined(b, c))
         /\ Rest(Joined(b, c)) = Joined(Rest(b), c) /\ Got(Joined(b, c)) = Got(b)
<1> PICK n \in Nat, m \in Nat, h \in Nat, p \in Nat :
      n = Size(b) /\ m = Size(c) /\ h = HeaderSize /\ h > 2 /\ p = PacketSize /\ p > h
  BY SizeIs, Sizes
<1>1. PICK all \in Bytes : all = Joined(b, c) /\ Size(all) = n + m
  BY JoinedIs
<1>2. Headers(b) \in SUBSET (1 .. n) /\ Headers(b) \in SUBSET Nat /\ Headers(b) # {}
  BY HeadersAre DEF Stops
<1>3. Headers(all) \in SUBSET (1 .. n + m) /\ Headers(all) \in SUBSET Nat
  BY <1>1, HeadersAre
<1>4. ASSUME NEW i \in Nat, i >= 1, i + h - 1 <= n
      PROVE  i \in Headers(all) <=> i \in Headers(b)
  <2>1. HeaderAt(all, i) <=> HeaderAt(b, i)
    BY <1>1, <1>4, HeaderJoined
  <2> QED  BY <1>4, <2>1, HeadersAre
<1>5. \A i \in Headers(b) : i + h - 1 <= n
  BY <1>2, HeadersAre, HeaderAtIs
<1> PICK f \in Headers(b) : f = First(Headers(b)) /\ \A i \in Headers(b) : f <= i
  BY <1>2, FirstPlace
<1>6. f \in 1 .. n + 1 /\ f \in 1 .. n + m + 1 /\ f + h - 1 <= n
  BY <1>2, <1>5
<1>7. f \in Headers(all)
  BY <1>4, <1>6
<1>8. ASSUME NEW i \in Headers(all) PROVE f <= i
  <2>1. i \in Nat /\ i >= 1
    BY <1>3
  <2>2. CASE i + h - 1 <= n
    BY <1>4, <2>1, <2>2
  <2>3. CASE ~(i + h - 1 <= n)
    BY <1>6, <2>1, <2>3
  <2> QED  BY <2>2, <2>3
<1>9. First(Headers(all)) = f
  BY <1>3, <1>7, <1>8, FirstIs
<1>10. PICK here \in Bytes : here = Here(b)
  BY TurnIs
<1> PICK l \in Nat : l = Size(here) /\ l >= p
  <2>1. Size(here) \in Nat /\ ~(Size(here) < p)
    BY <1>10, SizeIs DEF Stops
  <2> QED  BY <2>1
<1>11. Here(all) = Joined(here, c)
  BY <1>1, <1>6, <1>9, <1>10, FromJoined DEF Here
<1>12. PICK more \in Bytes : /\ more = Joined(here, c) /\ Size(more) = l + m
                             /\ \A k \in 1 .. l + m : more[k] = IF k <= l THEN here[k] ELSE c[k - l]
  BY JoinedIs
<1>13. Candidate(all) = Candidate(b)
  <2>1. p \in 1 - 1 .. l /\ 1 \in 1 .. l + 1 /\ p - 1 + 1 = p
        /\ p \in 1 - 1 .. l + m /\ 1 \in 1 .. l + m + 1
    OBVIOUS
  <2>2. PICK v \in Bytes : /\ v = Part(here, 1, p) /\ Size(v) = p
                           /\ \A k \in 1 .. p : v[k] = here[k]
    <3>1. /\ Part(here, 1, p) \in Bytes /\ Size(Part(here, 1, p)) = p - 1 + 1
          /\ \A k \in 1 .. p - 1 + 1 : Part(here, 1, p)[k] = here[1 + k - 1]
      BY <2>1, PartIs
    <3> QED  BY <3>1
  <2>3. PICK w \in Bytes : /\ w = Part(more, 1, p) /\ Size(w) = p
                           /\ \A k \in 1 .. p : w[k] = more[k]
    <3> PICK z \in Nat : z = l + m
      OBVIOUS
    <3>0. Size(more) = z /\ p \in 1 - 1 .. z /\ 1 \in 1 .. z + 1
      BY <1>12
    <3>1. /\ Part(more, 1, p) \in Bytes /\ Size(Part(more, 1, p)) = p - 1 + 1
          /\ \A k \in 1 .. p - 1 + 1 : Part(more, 1, p)[k] = more[1 + k - 1]
      BY <3>0, PartIs
    <3> QED  BY <3>1
  <2>4. \A k \in 1 .. p : w[k] = v[k]
    <3> TAKE k \in 1 .. p
    <3>1. k \in 1 .. l + m /\ k <= l
      OBVIOUS
    <3> QED  BY <1>12, <2>2, <2>3, <3>1
  <2>5. w = v
    BY <2>2, <2>3, <2>4, SameBytes
  <2> QED  BY <1>10, <1>11, <1>12, <2>2, <2>3, <2>5 DEF Candidate
<1>14. Within(all) = Within(b) /\ Got(all) = Got(b)
  BY <1>13 DEF Within, Got
<1>15. ~Stops(all)
  <2>1. l + m >= p
    OBVIOUS
  <2> QED  BY <1>7, <1>11, <1>12, <2>1 DEF Stops
<1>16. Rest(all) = Joined(Rest(b), c)
  <2>1. \A i \in 1 .. l + 1 : From(more, i) = Joined(From(here, i), c)
    BY <1>12, FromJoined
  <2>2. CASE Within(b) # {}
    <3>1. First(Within(b)) \in 1 .. l + 1
      BY <1>10, <2>2, TurnIs
    <3> QED  BY <1>10, <1>11, <1>12, <1>14, <2>1, <2>2, <3>1 DEF Rest
  <2>3. CASE Within(b) = {}
    <3>1. p + 1 \in 1 .. l + 1
      OBVIOUS
    <3> QED  BY <1>10, <1>11, <1>12, <1>14, <2>1, <2>3, <3>1 DEF Rest
  <2> QED  BY <2>2, <2>3
<1> QED  BY <1>1, <1>14, <1>15, <1>16

LEMMA OntoOnto ==
  ASSUME NEW d \in Finds, NEW e \in Finds, NEW last \in Decoded
  PROVE  /\ Onto(<<>>, last) = last
         /\ Onto(d, Onto(e, last)) = Onto(d \o e, last)
<1>1. last = [rest |-> last.rest, found |-> last.found] /\ last.found \in Finds
  BY DEF Decoded
<1>2. <<>> \o last.found = last.found
  BY <1>1, ConcatEmptySeq DEF Finds
<1>3. d \o (e \o last.found) = (d \o e) \o last.found
  BY <1>1, ConcatAssociative, SMTT(20) DEF Finds
<1> QED  BY <1>1, <1>2, <1>3 DEF Onto

\* What Scan finds in bytes that come in two reads is what it finds in the
\* first, and then in the second with what the first left.
LEMMA ScanJoined ==
  ASSUME NEW b \in Bytes, NEW c \in Bytes
  PROVE  Scan[Joined(b, c)] = Onto(Scan[b].found, Scan[Joined(Scan[b].rest, c)])
<1> DEFINE Is(x) == Scan[Joined(x, c)] = Onto(Scan[x].found, Scan[Joined(Scan[x].rest, c)])
           G == {x \in Bytes : Is(x)}
<1>0. \A x \in Bytes : Joined(x, c) \in Bytes
  BY JoinedIs, SizeIs
<1>1. ASSUME NEW x \in Bytes, \A y \in Bytes : Size(y) < Size(x) => y \in G
      PROVE  Is(x)
  <2>1. CASE Stops(x)
    <3>1. Scan[x] = [rest |-> Kept(x), found |-> <<>>]
      BY <2>1, ScanSolves DEF Go
    <3>2. Scan[x].rest = Kept(x) /\ Scan[x].found = <<>>
      BY <3>1
    <3>3. Scan[Joined(Kept(x), c)] \in Decoded
      BY <1>0, KeptIs, ScanSolves
    <3>4. Onto(<<>>, Scan[Joined(Kept(x), c)]) = Scan[Joined(Kept(x), c)]
      <4>1. <<>> \in Finds
        BY DEF Finds
      <4> QED  BY <3>3, <4>1, OntoOnto
    <3> QED  BY <2>1, <3>2, <3>4, StopsJoined
  <2>2. CASE ~Stops(x)
    <3> PICK y \in Bytes : y = Rest(x) /\ Size(y) < Size(x)
      BY <2>2, TurnIs
    <3> PICK got \in Finds : got = Got(x)
      BY <2>2, TurnIs
    <3> PICK all \in Bytes : all = Joined(x, c)
      BY <1>0
    <3>1. Scan[Joined(y, c)] = Onto(Scan[y].found, Scan[Joined(Scan[y].rest, c)])
      BY <1>1
    <3>2. Scan[y].rest \in Bytes /\ Scan[y].found \in Finds
      BY ScanSolves DEF Decoded
    <3>3. Scan[x] = Onto(got, Scan[y])
      BY <2>2, ScanSolves DEF Go
    <3>4. Scan[x].rest = Scan[y].rest /\ Scan[x].found = got \o Scan[y].found
      BY <3>3 DEF Onto
    <3>5. Scan[all] = Onto(got, Scan[Joined(y, c)])
      <4>1. ~Stops(all) /\ Rest(all) = Joined(y, c) /\ Got(all) = got
        BY <2>2, GoesOnJoined
      <4> QED  BY <4>1, ScanSolves DEF Go
    <3>6. Scan[Joined(Scan[y].rest, c)] \in Decoded
      BY <1>0, <3>2, ScanSolves
    <3>7. Onto(got, Onto(Scan[y].found, Scan[Joined(Scan[y].rest, c)]))
            = Onto(got \o Scan[y].found, Scan[Joined(Scan[y].rest, c)])
      BY <3>2, <3>6, OntoOnto
    <3> QED  BY <3>1, <3>4, <3>5, <3>7
  <2> QED  BY <2>1, <2>2
<1>2. G = Bytes
  <2>1. G \in SUBSET Bytes /\ \A x \in Bytes : Is(x) => x \in G
    OBVIOUS
  <2> HIDE DEF G, Is
  <2> QED  BY <1>1, <2>1, SizeInduction
<1> QED  BY <1>2

-----------------------------------------------------------------------------
(* The invariant.                                                          *)

DecoderTypeOK ==
  /\ sent \in Nat /\ trouble \in Nat
  /\ line \in Bytes /\ buffer \in Bytes /\ read \in Bytes
  /\ accepted \in Finds /\ opened \in 0 .. Len(accepted)
  /\ overflow \in SUBSET Nat /\ spoilt \in SUBSET Nat /\ cut \in SUBSET Nat

DecoderInv == DecoderTypeOK /\ ChunkingIsIrrelevant

LEMMA FindsFrom ==
  ASSUME NEW a \in Finds, NEW d \in Finds, NEW i \in 1 .. Len(a) + 1
  PROVE  From(a \o d, i) = From(a, i) \o d
<1> PICK n \in Nat, m \in Nat : n = Len(a) /\ m = Len(d)
  BY LenProperties DEF Finds
<1> PICK all \in Finds : all = a \o d /\ Len(all) = n + m
  BY ConcatProperties DEF Finds
<1>1. CASE m = 0
  <2>1. d = <<>>
    BY <1>1, EmptySeq DEF Finds
  <2>2. a \o <<>> = a
    BY ConcatEmptySeq DEF Finds
  <2>3. From(a, i) \in Finds
    <3>1. \A k \in i .. n : a[k] \in SUBSET Nat
      BY ElementOfSeq DEF Finds
    <3> QED  BY <3>1, SubSeqProperties DEF From, Finds
  <2>4. From(a, i) \o <<>> = From(a, i)
    BY <2>3, ConcatEmptySeq DEF Finds
  <2> QED  BY <2>1, <2>2, <2>4
<1>2. CASE m # 0
  <2>1. SubSeq(all, n + 1, n + m) = d
    <3>1. n + 1 \in n + 1 .. n + m /\ n + m \in n + 1 .. n + m
          /\ (n + 1) - n = 1 /\ (n + m) - n = m
      BY <1>2
    <3>2. SubSeq(all, n + 1, n + m) = SubSeq(d, (n + 1) - n, (n + m) - n)
      BY <3>1, SubSeqOfConcat2 DEF Finds
    <3>3. SubSeq(d, 1, m) = d
      BY SubSeqFull DEF Finds
    <3> QED  BY <3>1, <3>2, <3>3
  <2>2. CASE i = n + 1
    <3>1. From(a, i) = <<>>
      BY <2>2, SubSeqEmpty DEF From
    <3>2. <<>> \o d = d
      BY ConcatEmptySeq DEF Finds
    <3> QED  BY <2>1, <2>2, <3>1, <3>2 DEF From
  <2>3. CASE i # n + 1
    <3>1. i \in 1 .. n /\ n \in 1 .. n
      BY <2>3
    <3>2. SubSeq(all, i, n) = SubSeq(a, i, n)
      BY <3>1, SubSeqOfConcat1 DEF Finds
    <3>3. SubSeq(all, i, n) \o SubSeq(all, n + 1, n + m) = SubSeq(all, i, n + m)
      <4>1. i \in 1 .. Len(all) + 1 /\ n \in i - 1 .. Len(all) /\ n + m \in n .. Len(all)
        BY <3>1
      <4> QED  BY <4>1, ConcatAdjacentSubSeq DEF Finds
    <3> QED  BY <2>1, <3>2, <3>3 DEF From
  <2> QED  BY <2>2, <2>3
<1> QED  BY <1>1, <1>2

LEMMA EmptyBytes ==
  <<>> \in Bytes /\ Size(<<>>) = 0 /\ Scan[<<>>] = [rest |-> <<>>, found |-> <<>>]
<1>1. <<>> \in Bytes /\ Size(<<>>) = 0
  BY EmptySeq DEF Bytes, Size
<1>2. Headers(<<>>) = {}
  <2>1. Headers(<<>>) \in SUBSET (1 .. 0)
    BY <1>1, HeadersAre
  <2> QED  BY <2>1
<1>3. HeaderTail(<<>>) = <<>>
  <2> PICK p \in 1 .. 1 : HeaderTail(<<>>) = From(<<>>, p)
    BY <1>1, HeaderTailIs
  <2> QED  BY <1>1, FromFirst
<1>4. Scan[<<>>] = Go(Scan, <<>>)
  BY <1>1, ScanSolves
<1> QED  BY <1>1, <1>2, <1>3, <1>4 DEF Go, Stops, Kept

LEMMA HeaderSymbols ==
  Header \in Seq(Symbol) /\ Header[1] \in Symbol
<1>1. Header \in Seq(STRING) /\ Len(Header) \in Nat /\ Len(Header) > 2
  BY DecoderAssumption, LenProperties
<1>2. Header \in Seq(Range(Header))
  BY <1>1, SeqOfRange
<1>3. Range(Header) \subseteq Symbol
  BY DEF Symbol
<1>4. Header \in Seq(Symbol)
  BY <1>2, <1>3, SeqMonotonic
<1>5. 1 \in 1 .. Len(Header)
  BY <1>1
<1> QED  BY <1>4, <1>5, ElementOfSeq

\* The records of a packet.
AllRecords(ids, voltage) ==
  [i \in 1 .. RecordSize * Cardinality(Door) |->
    DoorRecord(ids[((i - 1) \div RecordSize) + 1], voltage)[((i - 1) % RecordSize) + 1]]

LEMMA AllRecordsAre ==
  ASSUME NEW ids \in Orders, NEW voltage \in Voltages
  PROVE  /\ PacketOf(ids, voltage) = Header \o AllRecords(ids, voltage)
         /\ AllRecords(ids, voltage) \in Seq(Symbol)
         /\ Len(AllRecords(ids, voltage)) = RecordSize * Cardinality(Door)
<1> PICK c \in Nat : c = Cardinality(Door) /\ c > 0
  BY Sizes
<1>0. /\ "state" \in Symbol /\ ";" \in Symbol
      /\ Door \subseteq Symbol /\ Voltages \subseteq Symbol
  BY DEF Symbol
<1>1. \A i \in 1 .. c : ids[i] \in Symbol
  BY <1>0 DEF Orders
<1>2. ASSUME NEW id \in Symbol, NEW k \in 1 .. 4 PROVE DoorRecord(id, voltage)[k] \in Symbol
  <2>1. voltage \in Symbol
    BY <1>0
  <2>2. CASE k = 1  BY <1>2, <2>2 DEF DoorRecord
  <2>3. CASE k = 2  BY <1>0, <2>3 DEF DoorRecord
  <2>4. CASE k = 3  BY <2>1, <2>4 DEF DoorRecord
  <2>5. CASE k = 4  BY <1>0, <2>5 DEF DoorRecord
  <2> QED  BY <2>2, <2>3, <2>4, <2>5
<1> DEFINE symbol(i) == DoorRecord(ids[((i - 1) \div RecordSize) + 1], voltage)
                          [((i - 1) % RecordSize) + 1]
           records == [i \in 1 .. RecordSize * c |-> symbol(i)]
<1>3. ASSUME NEW i \in 1 .. RecordSize * c PROVE symbol(i) \in Symbol
  <2>1. ((i - 1) \div 4) + 1 \in 1 .. c /\ ((i - 1) % 4) + 1 \in 1 .. 4
    BY DEF RecordSize
  <2> PICK q \in 1 .. c, k \in 1 .. 4 : q = ((i - 1) \div 4) + 1 /\ k = ((i - 1) % 4) + 1
    BY <2>1
  <2>2. symbol(i) = DoorRecord(ids[q], voltage)[k]
    BY DEF RecordSize
  <2> HIDE DEF symbol
  <2> QED  BY <1>1, <1>2, <2>2
<1>4. AllRecords(ids, voltage) = records
  BY Zenon DEF AllRecords
<1>5. records \in Seq(Symbol) /\ Len(records) = RecordSize * c
  <2> PICK m \in Nat : m = RecordSize * c
    BY DEF RecordSize
  <2> HIDE DEF symbol
  <2>1. records \in [1 .. m -> Symbol]
    BY <1>3
  <2> HIDE DEF records
  <2> QED  BY <2>1
<1>6. PacketOf(ids, voltage) = Header \o records
  BY Zenon DEF PacketOf
<1> HIDE DEF records
<1> QED  BY <1>4, <1>5, <1>6

\* The packets of the controller are bytes, and so is what the line makes of them.
LEMMA PacketIs ==
  ASSUME NEW ids \in Orders, NEW voltage \in Voltages, NEW n \in Nat
  PROVE  /\ Tagged(PacketOf(ids, voltage), n) \in Bytes
         /\ Size(Tagged(PacketOf(ids, voltage), n)) = PacketSize
<1>1. PICK records \in Seq(Symbol) :
        PacketOf(ids, voltage) = Header \o records /\ Len(records) = RecordSize * Cardinality(Door)
  BY AllRecordsAre
<1>5. Header \o records \in Seq(Symbol) /\ Len(Header \o records) = Len(Header) + Len(records)
  BY HeaderSymbols, ConcatProperties
<1>6. PICK symbols \in Seq(Symbol) : symbols = PacketOf(ids, voltage) /\ Len(symbols) = PacketSize
  BY <1>1, <1>5 DEF PacketSize
<1>7. Tagged(symbols, n) \in Seq(Byte) /\ Len(Tagged(symbols, n)) = Len(symbols)
  <2> PICK m \in Nat : m = Len(symbols) /\ DOMAIN symbols = 1 .. m
    BY LenProperties
  <2>1. \A i \in 1 .. m : symbols[i] \in Symbol
    BY ElementOfSeq
  <2>2. Tagged(symbols, n) \in [1 .. m -> Byte]
    BY <2>1 DEF Tagged, Byte
  <2> HIDE DEF Tagged
  <2> QED  BY <2>2
<1> QED  BY <1>6, <1>7 DEF Bytes, Size

LEMMA SendInv ==
  ASSUME DecoderInv, Send
  PROVE  DecoderInv'
<1> PICK n \in Nat : n = sent + 1 /\ n = sent'
  BY DEF DecoderInv, DecoderTypeOK, Send
<1> PICK ids \in Orders, voltage \in Voltages :
      LET bytes == Tagged(PacketOf(ids, voltage), n) IN
      \/ line' = line \o bytes /\ UNCHANGED <<spoilt, trouble>>
      \/ /\ trouble < MaxTrouble /\ trouble' = trouble + 1
         /\ spoilt' = spoilt \cup {n}
         /\ \E i \in 1 .. PacketSize :
              \/ line' = line \o RemoveAt(bytes, i)
              \/ \E noise \in {"x", Header[1]} :
                   line' = line \o [bytes EXCEPT ![i].is = noise]
  BY DEF Send
<1>1. PICK bytes \in Bytes : bytes = Tagged(PacketOf(ids, voltage), n) /\ Size(bytes) = PacketSize
  BY PacketIs
<1>2. DecoderTypeOK
  BY DEF DecoderInv
<1>3. \A added \in Bytes : line \o added \in Bytes
  BY <1>2, ConcatProperties DEF DecoderTypeOK, Bytes
<1> PICK p \in Nat : p = PacketSize
  BY Sizes
<1>4. ASSUME NEW i \in 1 .. p PROVE RemoveAt(bytes, i) \in Bytes
  <2> PICK h \in 1 - 1 .. p, t \in 1 .. p + 1 : h = i - 1 /\ t = i + 1
    OBVIOUS
  <2>1. Part(bytes, 1, h) \in Bytes
    BY <1>1, PartIs
  <2>2. From(bytes, t) \in Bytes
    BY <1>1, FromIs
  <2>3. RemoveAt(bytes, i) = Part(bytes, 1, h) \o From(bytes, t)
    BY DEF RemoveAt, Part, From
  <2> QED  BY <2>1, <2>2, <2>3, ConcatProperties DEF Bytes
<1>5. ASSUME NEW i \in 1 .. p, NEW noise \in {"x", Header[1]}
      PROVE  [bytes EXCEPT ![i].is = noise] \in Bytes
  <2>1. noise \in Symbol
    <3>1. Header[1] \in Symbol /\ "x" \in Symbol
      BY HeaderSymbols DEF Symbol
    <3> QED  BY <3>1
  <2> PICK byte \in Byte : byte = [bytes[i] EXCEPT !.is = noise]
    <3>1. bytes[i] \in Byte
      BY <1>1, ByteAt
    <3> QED  BY <2>1, <3>1 DEF Byte
  <2>2. [bytes EXCEPT ![i].is = noise] = [bytes EXCEPT ![i] = byte]
    OBVIOUS
  <2> QED  BY <1>1, <2>2, ExceptSeq DEF Bytes, Size
<1>6. line' \in Bytes
  BY <1>1, <1>3, <1>4, <1>5
<1>7. trouble' \in Nat /\ spoilt' \in SUBSET Nat
  <2>1. trouble' \in {trouble, trouble + 1} /\ spoilt' \in {spoilt, spoilt \cup {n}}
    OBVIOUS
  <2>2. trouble \in Nat /\ spoilt \in SUBSET Nat
    BY <1>2 DEF DecoderTypeOK
  <2> QED  BY <2>1, <2>2
<1>8. UNCHANGED <<buffer, accepted, read, opened, overflow, cut>>
  BY DEF Send
<1>9. DecoderTypeOK'
  BY <1>2, <1>6, <1>7, <1>8 DEF DecoderTypeOK
<1>10. ChunkingIsIrrelevant'
  BY <1>8 DEF DecoderInv, ChunkingIsIrrelevant
<1> QED  BY <1>9, <1>10 DEF DecoderInv

LEMMA BufferSize ==
  MaxBuffer \in Nat /\ MaxBuffer > 0
  <1>1. MaxBuffer = 2 * PacketSize + HeaderSize
    BY DEF MaxBuffer, HeaderSize
  <1> QED  BY <1>1, Sizes

\* What overflows has come from somewhere.
LEMMA AppendIs ==
  ASSUME NEW b \in Bytes, NEW c \in Bytes
  PROVE  /\ AppendBounded(b, c) \in Bytes
         /\ Missing(b \o c, AppendBounded(b, c)) \in SUBSET Nat
         /\ Missing(b \o c, AppendBounded(b, c)) = {} => AppendBounded(b, c) = Joined(b, c)
<1> PICK all \in Bytes : all = b \o c /\ all = Joined(b, c)
  BY JoinedIs, SizeIs DEF Joined
<1> PICK n \in Nat, x \in Nat : n = Size(all) /\ x = MaxBuffer /\ x > 0
  BY SizeIs, BufferSize
<1>1. AppendBounded(b, c) = IF n > x THEN From(all, n - x + 1) ELSE all
  BY Zenon DEF AppendBounded, Size
<1>2. CASE ~(n > x)
  <2>1. Missing(all, all) = Origins(Part(all, 1, n - n))
    BY DEF Missing, Size, Part
  <2>2. Part(all, 1, 0) \in Bytes
    BY PartIs
  <2> QED  BY <1>1, <1>2, <2>1, <2>2, OriginsAreNumbers
<1>3. CASE n > x
  <2> PICK i \in 1 .. n + 1, d \in Nat : i = n - x + 1 /\ d = n - x /\ d > 0 /\ n - x = d
    BY <1>3
  <2>1. PICK u \in Bytes : u = From(all, i) /\ Size(u) = x
    <3>1. n - i + 1 = x
      OBVIOUS
    <3> QED  BY <3>1, FromIs
  <2>2. Missing(all, u) = Origins(Part(all, 1, n - x))
    BY <2>1 DEF Missing, Size, Part
  <2>3. PICK v \in Bytes : v = Part(all, 1, d) /\ Size(v) = d
    <3>1. d \in 1 - 1 .. n /\ d - 1 + 1 = d /\ 1 \in 1 .. n + 1
      OBVIOUS
    <3> QED  BY <3>1, PartIs
  <2>4. Origins(v) # {}
    <3>1. DOMAIN v = 1 .. d
      BY <2>3, LenProperties DEF Bytes, Size
    <3>2. 1 \in DOMAIN v
      BY <3>1
    <3> QED  BY <3>2 DEF Origins
  <2> QED  BY <1>1, <1>3, <2>1, <2>2, <2>3, <2>4, OriginsAreNumbers
<1> QED  BY <1>2, <1>3

LEMMA ReadChunkInv ==
  ASSUME DecoderInv, ReadChunk
  PROVE  DecoderInv'
<1>1. DecoderTypeOK
  BY DEF DecoderInv
<1> PICK size \in Nat : size = Size(line)
  BY <1>1, SizeIs DEF DecoderTypeOK
<1> PICK n \in 1 .. size :
      LET chunk == SubSeq(line, 1, n)
          filled == AppendBounded(buffer, chunk)
          result == Scan[filled] IN
      /\ line' = From(line, n + 1)
      /\ read' = read \o chunk
      /\ buffer' = result.rest
      /\ accepted' = accepted \o result.found
      /\ overflow' = overflow \cup Missing(buffer \o chunk, filled)
      /\ UNCHANGED <<sent, opened, spoilt, cut, trouble>>
  BY DEF ReadChunk, Size
<1> PICK b \in Bytes, r \in Bytes : b = buffer /\ r = read
  BY <1>1 DEF DecoderTypeOK
<1> PICK a \in Finds, o \in 0 .. Len(accepted) : a = accepted /\ o = opened
  BY <1>1 DEF DecoderTypeOK
<1>2. PICK chunk \in Bytes : chunk = SubSeq(line, 1, n)
  <2>1. n \in 1 - 1 .. size /\ 1 \in 1 .. size + 1
    OBVIOUS
  <2> QED  BY <1>1, <2>1, PartIs DEF DecoderTypeOK, Part
<1>3. PICK filled \in Bytes :
        /\ filled = AppendBounded(b, chunk)
        /\ Missing(b \o chunk, filled) \in SUBSET Nat
        /\ Missing(b \o chunk, filled) = {} => filled = Joined(b, chunk)
  BY AppendIs
<1>4. PICK result \in Decoded : result = Scan[filled]
  BY ScanSolves
<1>5. result.rest \in Bytes /\ result.found \in Finds
  BY DEF Decoded
<1>6. /\ line' = From(line, n + 1) /\ read' = r \o chunk /\ buffer' = result.rest
      /\ accepted' = a \o result.found
      /\ overflow' = overflow \cup Missing(b \o chunk, filled)
      /\ UNCHANGED <<sent, opened, spoilt, cut, trouble>>
  BY <1>2, <1>3, <1>4
<1>7. DecoderTypeOK'
  <2>1. line' \in Bytes
    <3> PICK i \in 1 .. size + 1 : i = n + 1
      OBVIOUS
    <3> QED  BY <1>1, <1>6, FromIs DEF DecoderTypeOK
  <2>2. read' \in Bytes
    <3>1. r \o chunk \in Bytes
      BY ConcatProperties DEF Bytes
    <3> QED  BY <1>6, <3>1
  <2>3. accepted' \in Finds /\ opened' \in 0 .. Len(accepted')
    <3> PICK m \in Nat, l \in Nat : m = Len(a) /\ l = Len(result.found)
      BY <1>5, LenProperties DEF Finds
    <3>1. a \o result.found \in Finds /\ Len(a \o result.found) = m + l
      BY <1>5, ConcatProperties DEF Finds
    <3>2. o \in 0 .. m + l
      OBVIOUS
    <3> QED  BY <1>6, <3>1, <3>2
  <2> QED  BY <1>1, <1>3, <1>5, <1>6, <2>1, <2>2, <2>3 DEF DecoderTypeOK
<1>8. ChunkingIsIrrelevant'
  <2> SUFFICES ASSUME overflow' = {}
               PROVE  Scan[read'] = [rest |-> buffer', found |-> From(accepted', opened' + 1)]
    BY DEF ChunkingIsIrrelevant
  <2>1. overflow = {} /\ filled = Joined(b, chunk)
    BY <1>3, <1>6
  <2> PICK i \in 1 .. Len(a) + 1 : i = o + 1
    OBVIOUS
  <2>2. Scan[r] = [rest |-> b, found |-> From(a, i)]
    BY <2>1 DEF DecoderInv, ChunkingIsIrrelevant
  <2>3. Scan[r].rest = b /\ Scan[r].found = From(a, i)
    BY <2>2
  <2>4. Scan[Joined(r, chunk)] = Onto(From(a, i), result)
    BY <1>4, <2>1, <2>3, ScanJoined
  <2>5. From(a, i) \o result.found = From(a \o result.found, i)
    BY <1>5, FindsFrom
  <2>6. Joined(r, chunk) = read'
    BY <1>6 DEF Joined
  <2> QED  BY <1>6, <2>4, <2>5, <2>6 DEF Onto
<1> QED  BY <1>7, <1>8 DEF DecoderInv

LEMMA ReconnectInv ==
  ASSUME DecoderInv, Reconnect
  PROVE  DecoderInv'
<1>1. DecoderTypeOK
  BY DEF DecoderInv
<1> PICK size \in Nat : size = Size(line)
  BY <1>1, SizeIs DEF DecoderTypeOK
<1> PICK n \in 0 .. size :
      /\ line' = From(line, n + 1)
      /\ cut' = cut \cup Origins(buffer) \cup Origins(SubSeq(line, 1, n))
  BY DEF Reconnect, Size
<1>2. /\ trouble' = trouble + 1 /\ buffer' = <<>> /\ read' = <<>> /\ opened' = Len(accepted)
      /\ UNCHANGED <<sent, accepted, overflow, spoilt>>
  BY DEF Reconnect
<1>3. line' \in Bytes
  <2> PICK i \in 1 .. size + 1 : i = n + 1
    OBVIOUS
  <2> QED  BY <1>1, FromIs DEF DecoderTypeOK
<1>4. cut' \in SUBSET Nat
  <2>1. n \in 1 - 1 .. size /\ 1 \in 1 .. size + 1
    OBVIOUS
  <2>2. SubSeq(line, 1, n) \in Bytes
    BY <1>1, <2>1, PartIs DEF DecoderTypeOK, Part
  <2> QED  BY <1>1, <2>2, OriginsAreNumbers DEF DecoderTypeOK
<1> PICK m \in Nat : m = Len(accepted)
  BY <1>1, LenProperties DEF DecoderTypeOK, Finds
<1>5. DecoderTypeOK'
  <2>1. opened' \in 0 .. Len(accepted')
    BY <1>2
  <2> QED  BY <1>1, <1>2, <1>3, <1>4, <2>1, EmptyBytes DEF DecoderTypeOK
<1>6. From(accepted, m + 1) = <<>>
  BY SubSeqEmpty DEF From
<1>7. ChunkingIsIrrelevant'
  BY <1>2, <1>6, EmptyBytes DEF ChunkingIsIrrelevant
<1> QED  BY <1>5, <1>7 DEF DecoderInv

LEMMA DecoderStarts ==
  DecoderInit => DecoderInv
<1> SUFFICES ASSUME DecoderInit PROVE DecoderInv
  OBVIOUS
<1>1. <<>> \in Finds /\ Len(<<>>) = 0
  BY EmptySeq DEF Finds
<1>2. DecoderTypeOK
  BY <1>1, EmptyBytes DEF DecoderInit, DecoderTypeOK
<1>3. From(<<>>, 0 + 1) = <<>>
  BY <1>1, SubSeqEmpty DEF From
<1>4. ChunkingIsIrrelevant
  BY <1>3, EmptyBytes DEF DecoderInit, ChunkingIsIrrelevant
<1> QED  BY <1>2, <1>4 DEF DecoderInv

LEMMA DecoderStep ==
  DecoderInv /\ [DecoderNext]_vars => DecoderInv'
<1> SUFFICES ASSUME DecoderInv, [DecoderNext]_vars PROVE DecoderInv'
  OBVIOUS
<1>1. CASE Send
  BY <1>1, SendInv
<1>2. CASE ReadChunk
  BY <1>2, ReadChunkInv
<1>3. CASE Reconnect
  BY <1>3, ReconnectInv
<1>4. CASE UNCHANGED vars
  BY <1>4 DEF vars, DecoderInv, DecoderTypeOK, ChunkingIsIrrelevant
<1> QED  BY <1>1, <1>2, <1>3, <1>4 DEF DecoderNext

\* However the stream of a connection is cut into reads, and whatever the line
\* did to it, as long as nothing overflowed the decoder has decoded what one
\* look at all that was read decodes, and buffers what that look leaves
\* (StreamDecoder::push and append_bounded, on_bytes of the engine).
THEOREM ChunkingProved ==
  DecoderSpec => []ChunkingIsIrrelevant
<1>1. DecoderInv => ChunkingIsIrrelevant
  BY DEF DecoderInv
<1> QED  BY <1>1, DecoderStarts, DecoderStep, PTL DEF DecoderSpec

-----------------------------------------------------------------------------
(* The stream.  Of every byte on its way it is known which byte of its     *)
(* packet it is, although the line damages packets: place[j] is the place  *)
(* the j-th byte was sent in.                                              *)

Lost(bad, n) == IF n \in bad THEN 1 ELSE 0

\* The k-th place of the i-th record, and what is there.
Place(i, k) == HeaderSize + 4 * (i - 1) + k
InRecord(k, symbol) == /\ k = 1 => symbol \in Door
                       /\ k = 2 => symbol = "state"
                       /\ k = 4 => symbol = ";"

\* A byte of the stream fits its place, or is noise.
Noise(byte, bad) == byte.of \in bad /\ byte.is \in {"x", Header[1]}
Fits(byte, p, bad) ==
  \/ Noise(byte, bad)
  \/ p \in 1 .. HeaderSize /\ byte.is = Header[p]
  \/ \E i \in 1 .. Cardinality(Door), k \in 1 .. 4 : p = Place(i, k) /\ InRecord(k, byte.is)

\* What the d-th byte after a byte of packet m, in place p, is: of the same
\* packet, one of whose bytes may be lost, or of a later one.
Follows(m, p, n, q, d, bad) ==
  \/ m = n /\ p + d <= q /\ q <= p + d + Lost(bad, m)
  \/ /\ m < n /\ p + d + Lost(bad, m) > PacketSize
     /\ q <= d + Lost(bad, n)
     /\ q <= p + d + Lost(bad, m) + Lost(bad, n) - PacketSize

Placed(b, place, bad) ==
  /\ \A j \in 1 .. Size(b) : place[j] \in 1 .. PacketSize /\ Fits(b[j], place[j], bad)
  /\ \A j, k \in 1 .. Size(b) :
       j < k => Follows(b[j].of, place[j], b[k].of, place[k], k - j, bad)

LEMMA LostIs ==
  \A bad, n : Lost(bad, n) \in {0, 1}
  BY DEF Lost

Shifted(place, r) == [i \in Nat |-> place[r + i - 1]]

\* What is known of a stream is known of any part of it.
LEMMA PlacedFrom ==
  ASSUME NEW b \in Bytes, NEW place, NEW bad, Placed(b, place, bad), NEW r \in 1 .. Size(b) + 1
  PROVE  Placed(From(b, r), Shifted(place, r), bad)
<1> PICK n \in Nat : n = Size(b)
  BY SizeIs
<1>1. PICK u \in Bytes : /\ u = From(b, r) /\ Size(u) = n - r + 1
                         /\ \A k \in 1 .. n - r + 1 : u[k] = b[r + k - 1]
  BY FromIs
<1> DEFINE shifted == Shifted(place, r)
<1>2. \A k \in 1 .. n - r + 1 : r + k - 1 \in 1 .. n /\ shifted[k] = place[r + k - 1]
  BY DEF Shifted
<1> HIDE DEF shifted
<1>3. ASSUME NEW j \in 1 .. n - r + 1
      PROVE  shifted[j] \in 1 .. PacketSize /\ Fits(u[j], shifted[j], bad)
  BY <1>1, <1>2 DEF Placed
<1>4. ASSUME NEW j \in 1 .. n - r + 1, NEW k \in 1 .. n - r + 1, j < k
      PROVE  Follows(u[j].of, shifted[j], u[k].of, shifted[k], k - j, bad)
  <2> PICK x \in 1 .. n, y \in 1 .. n :
        x = r + j - 1 /\ y = r + k - 1 /\ x < y /\ y - x = k - j
    BY <1>4
  <2>1. u[j] = b[x] /\ u[k] = b[y] /\ shifted[j] = place[x] /\ shifted[k] = place[y]
    BY <1>1, <1>2
  <2>2. Follows(b[x].of, place[x], b[y].of, place[y], y - x, bad)
    BY DEF Placed
  <2> QED  BY <2>1, <2>2
<1> QED  BY <1>1, <1>3, <1>4 DEF Placed, shifted

LEMMA PlacedFront ==
  ASSUME NEW b \in Bytes, NEW c \in Bytes, NEW place, NEW bad, Placed(Joined(b, c), place, bad)
  PROVE  Placed(b, place, bad)
<1> PICK m \in Nat, n \in Nat : m = Size(b) /\ n = Size(c)
  BY SizeIs
<1>1. PICK all \in Bytes : /\ all = Joined(b, c) /\ Size(all) = m + n
                           /\ \A k \in 1 .. m + n : all[k] = IF k <= m THEN b[k] ELSE c[k - m]
  BY JoinedIs
<1>2. \A k \in 1 .. m : k \in 1 .. m + n /\ all[k] = b[k]
  BY <1>1
<1>3. /\ \A j \in 1 .. m + n : place[j] \in 1 .. PacketSize /\ Fits(all[j], place[j], bad)
      /\ \A j, k \in 1 .. m + n :
           j < k => Follows(all[j].of, place[j], all[k].of, place[k], k - j, bad)
  BY <1>1 DEF Placed
<1>4. ASSUME NEW j \in 1 .. m
      PROVE  place[j] \in 1 .. PacketSize /\ Fits(b[j], place[j], bad)
  BY <1>2, <1>3
<1>5. ASSUME NEW j \in 1 .. m, NEW k \in 1 .. m, j < k
      PROVE  Follows(b[j].of, place[j], b[k].of, place[k], k - j, bad)
  BY <1>2, <1>3, <1>5
<1> QED  BY <1>4, <1>5 DEF Placed

\* Every place after the header is one of a record, and of one only.
LEMMA PlaceInRecord ==
  /\ \A p \in 1 .. PacketSize :
       p > HeaderSize => \E i \in 1 .. Cardinality(Door), k \in 1 .. 4 : p = Place(i, k)
  /\ \A i \in 1 .. Cardinality(Door), k \in 1 .. 4 :
       Place(i, k) \in 1 .. PacketSize /\ Place(i, k) > HeaderSize
  /\ \A i, j \in 1 .. Cardinality(Door), k, l \in 1 .. 4 :
       Place(i, k) = Place(j, l) => i = j /\ k = l
<1> PICK h \in Nat, c \in Nat, s \in Nat :
      h = HeaderSize /\ c = Cardinality(Door) /\ s = PacketSize /\ s = h + 4 * c
  BY Sizes
<1>1. ASSUME NEW p \in 1 .. s, p > h PROVE \E i \in 1 .. c, k \in 1 .. 4 : p = Place(i, k)
  <2> PICK o \in Nat : o = p - h - 1
    BY <1>1
  <2>1. (o \div 4) + 1 \in 1 .. c /\ (o % 4) + 1 \in 1 .. 4 /\ o = 4 * (o \div 4) + (o % 4)
    OBVIOUS
  <2> PICK i \in 1 .. c, k \in 1 .. 4 : i - 1 = o \div 4 /\ k - 1 = o % 4
    BY <2>1
  <2>2. p = h + 4 * (i - 1) + k
    BY <2>1
  <2> QED  BY <2>2 DEF Place
<1>2. \A i \in 1 .. c, k \in 1 .. 4 : Place(i, k) \in 1 .. s /\ Place(i, k) > h
  BY DEF Place
<1>3. \A i, j \in 1 .. c, k, l \in 1 .. 4 : Place(i, k) = Place(j, l) => i = j /\ k = l
  BY DEF Place
<1> QED  BY <1>1, <1>2, <1>3

\* What a byte of a record is.
LEMMA RecordFits ==
  ASSUME NEW i \in 1 .. Cardinality(Door), NEW k \in 1 .. 4, NEW byte, NEW bad,
         Fits(byte, Place(i, k), bad), ~Noise(byte, bad)
  PROVE  InRecord(k, byte.is)
<1>1. ~(Place(i, k) \in 1 .. HeaderSize)
  <2> PICK h \in Nat, s \in Nat : h = HeaderSize /\ s = PacketSize
    BY Sizes
  <2>1. Place(i, k) \in 1 .. s /\ Place(i, k) > h
    BY PlaceInRecord
  <2> QED  BY <2>1
<1>2. PICK j \in 1 .. Cardinality(Door), l \in 1 .. 4 :
        Place(i, k) = Place(j, l) /\ InRecord(l, byte.is)
  BY <1>1, Zenon DEF Fits
<1> QED  BY <1>2, PlaceInRecord

\* What a byte before the records is.
LEMMA HeaderFits ==
  ASSUME NEW p \in 1 .. HeaderSize, NEW byte, NEW bad, Fits(byte, p, bad), ~Noise(byte, bad)
  PROVE  byte.is = Header[p]
<1>1. ASSUME NEW i \in 1 .. Cardinality(Door), NEW k \in 1 .. 4 PROVE p # Place(i, k)
  <2> PICK h \in Nat, s \in Nat : h = HeaderSize /\ s = PacketSize
    BY Sizes
  <2>1. Place(i, k) \in 1 .. s /\ Place(i, k) > h
    BY PlaceInRecord
  <2> QED  BY <2>1
<1> QED  BY <1>1, Zenon DEF Fits

LEMMA HeaderDiffers ==
  /\ \A i \in 1 .. HeaderSize :
       Header[i] \notin Door /\ Header[i] # "state" /\ Header[i] # ";" /\ Header[i] # "x"
  /\ \A i \in 1 .. HeaderSize : Header[i] = Header[HeaderSize] => i = HeaderSize
  /\ \A i \in 1 .. HeaderSize : Header[i] = Header[1] => i = 1
<1>1. DOMAIN Header = 1 .. HeaderSize
  BY DecoderAssumption, LenProperties DEF HeaderSize
<1>2. \A i \in 1 .. HeaderSize : Header[i] \in Range(Header)
  BY <1>1 DEF Range
<1>3. \A i \in 1 .. HeaderSize : \A j \in {1, HeaderSize} : Header[i] = Header[j] => i = j
  BY DecoderAssumption DEF HeaderSize
<1> QED  BY <1>2, <1>3, DecoderAssumption

\* A header ends where a header was sent: a voltage that looks like its end has
\* no header before it.
LEMMA HeaderPlace ==
  ASSUME NEW b \in Bytes, NEW place, NEW bad, Placed(b, place, bad), NEW i \in Headers(b)
  PROVE  /\ i + HeaderSize - 1 \in 1 .. Size(b)
         /\ place[i + HeaderSize - 1] = HeaderSize
<1> PICK n \in Nat, h \in Nat, c \in Nat, s \in Nat :
      n = Size(b) /\ h = HeaderSize /\ h > 2 /\ c = Cardinality(Door) /\ s = PacketSize
  BY SizeIs, Sizes
<1>1. i \in 1 .. n /\ i + h - 1 <= n /\ \A k \in 1 .. h : b[i + k - 1].is = Header[k]
  BY HeadersAre, HeaderAtIs
<1> PICK last \in 1 .. n, prev \in 1 .. n :
      last = i + h - 1 /\ prev = i + (h - 1) - 1 /\ prev < last /\ last - prev = 1
  BY <1>1
<1> PICK g \in 1 .. h : g = h - 1 /\ g # 1
  OBVIOUS
<1>2. b[last].is = Header[h] /\ b[prev].is = Header[g]
  <2>1. h \in 1 .. h /\ prev = i + g - 1
    OBVIOUS
  <2> QED  BY <1>1, <2>1
<1> PICK p \in 1 .. s, q \in 1 .. s : p = place[prev] /\ q = place[last]
  BY DEF Placed
<1>3. Fits(b[prev], p, bad) /\ Fits(b[last], q, bad)
      /\ Follows(b[prev].of, p, b[last].of, q, 1, bad)
  BY DEF Placed
<1>4. /\ b[last].is # "state" /\ b[last].is # ";" /\ b[last].is \notin Door
      /\ ~Noise(b[last], bad)
  <2>1. h \in 1 .. HeaderSize /\ h # 1
    OBVIOUS
  <2>2. Header[h] \notin Door /\ Header[h] # "state" /\ Header[h] # ";" /\ Header[h] # "x"
    BY <2>1, HeaderDiffers, Zenon
  <2>3. Header[h] # Header[1]
    BY <2>1, HeaderDiffers, Zenon
  <2> QED  BY <1>2, <2>2, <2>3 DEF Noise
<1>5. ASSUME q > h PROVE FALSE
  <2>1. b[prev].is # "state" /\ b[prev].is \notin Door /\ ~Noise(b[prev], bad)
    <3>1. g \in 1 .. HeaderSize
      OBVIOUS
    <3>2. Header[g] \notin Door /\ Header[g] # "state" /\ Header[g] # "x" /\ Header[g] # Header[1]
      BY <3>1, HeaderDiffers, Zenon
    <3> QED  BY <1>2, <3>2 DEF Noise
  <2> PICK r \in 1 .. c, k \in 1 .. 4 : q = Place(r, k)
    BY <1>5, PlaceInRecord
  <2>2. k = 3
    <3>1. InRecord(k, b[last].is)
      BY <1>3, <1>4, RecordFits
    <3>2. k # 1 /\ k # 2 /\ k # 4
      BY <1>4, <3>1, Zenon DEF InRecord
    <3> QED  BY <3>2
  <2>3. p = q - 1 \/ p = q - 2
    <3>1. Lost(bad, b[prev].of) \in {0, 1} /\ Lost(bad, b[last].of) \in {0, 1}
      BY LostIs
    <3> QED  BY <1>3, <1>5, <3>1 DEF Follows
  <2>4. p = Place(r, 2) \/ p = Place(r, 1)
    BY <2>2, <2>3 DEF Place
  <2>5. InRecord(2, b[prev].is) \/ InRecord(1, b[prev].is)
    BY <1>3, <2>1, <2>4, RecordFits
  <2> QED  BY <2>1, <2>5 DEF InRecord
<1>6. q <= h => q = h
  <2> SUFFICES ASSUME q <= h PROVE q = h
    OBVIOUS
  <2>0. q \in 1 .. HeaderSize
    OBVIOUS
  <2>1. b[last].is = Header[q]
    BY <1>3, <1>4, <2>0, HeaderFits
  <2>2. q \in 1 .. HeaderSize /\ Header[q] = Header[HeaderSize]
    BY <1>2, <2>0, <2>1
  <2>3. q = HeaderSize
    BY <2>2, HeaderDiffers, Zenon
  <2> QED  BY <2>3
<1> QED  BY <1>5, <1>6

\* After the last byte of a packet come later packets.
LEMMA AfterEnd ==
  ASSUME NEW b \in Bytes, NEW place, NEW bad, Placed(b, place, bad),
         NEW j \in 1 .. Size(b), NEW k \in 1 .. Size(b), j < k, place[j] = PacketSize
  PROVE  b[j].of < b[k].of
<1> PICK n \in Nat, s \in Nat : n = Size(b) /\ s = PacketSize
  BY SizeIs, Sizes
<1>1. place[k] \in 1 .. s /\ Follows(b[j].of, s, b[k].of, place[k], k - j, bad)
  BY DEF Placed
<1>2. ~(s + (k - j) <= place[k])
  BY <1>1
<1> QED  BY <1>1, <1>2 DEF Follows

\* What the candidate of a turn is: the bytes from the first header on.
LEMMA CandidateIs ==
  ASSUME NEW b \in Bytes, ~Stops(b)
  PROVE  \E f \in Headers(b) :
           /\ f \in 1 .. Size(b) /\ f + PacketSize - 1 \in 1 .. Size(b)
           /\ \A k \in 1 .. PacketSize : Candidate(b)[k] = b[f + k - 1]
           /\ Within(b) = {} => Rest(b) = From(b, f + PacketSize)
           /\ \E r \in 1 .. Size(b) + 1 : Rest(b) = From(b, r)
<1> PICK n \in Nat, s \in Nat : n = Size(b) /\ s = PacketSize /\ s > 1
  BY SizeIs, Sizes
<1>1. Headers(b) \in SUBSET (1 .. n) /\ Headers(b) \in SUBSET Nat /\ Headers(b) # {}
  BY HeadersAre DEF Stops
<1> PICK f \in Headers(b) : f = First(Headers(b))
  BY <1>1, FirstPlace
<1>2. f \in 1 .. n /\ f \in 1 .. n + 1
  BY <1>1
<1> PICK l \in Nat : l = n - f + 1
  BY <1>2
<1>3. PICK here \in Bytes : /\ here = Here(b) /\ here = From(b, f) /\ Size(here) = l
                            /\ \A k \in 1 .. l : here[k] = b[f + k - 1]
  BY <1>2, FromIs DEF Here
<1>4. l >= s
  BY <1>3 DEF Stops
<1>5. \A k \in 1 .. s : Candidate(b)[k] = b[f + k - 1]
  <2>1. s \in 1 - 1 .. l /\ 1 \in 1 .. l + 1 /\ s - 1 + 1 = s
    BY <1>4
  <2>2. \A k \in 1 .. s - 1 + 1 : Part(here, 1, s)[k] = here[1 + k - 1]
    BY <1>3, <2>1, PartIs
  <2>3. \A k \in 1 .. s : k \in 1 .. l /\ 1 + k - 1 = k
    BY <1>4
  <2> QED  BY <1>3, <2>1, <2>2, <2>3 DEF Candidate
<1>6. ASSUME NEW w \in 1 .. l + 1, Rest(b) = From(here, w)
      PROVE  Rest(b) = From(b, f + w - 1) /\ f + w - 1 \in 1 .. n + 1
  <2>1. w \in 1 .. n - f + 2
    BY <1>2
  <2> QED  BY <1>2, <1>3, <1>6, <2>1, FromFrom
<1>7. CASE Within(b) # {}
  <2> PICK w \in 1 .. l + 1 : w = First(Within(b))
    BY <1>3, <1>7, TurnIs
  <2>1. Rest(b) = From(here, w)
    BY <1>3, <1>7 DEF Rest
  <2> QED  BY <1>2, <1>4, <1>5, <1>6, <1>7, <2>1
<1>8. CASE Within(b) = {}
  <2> PICK w \in 1 .. l + 1 : w = s + 1
    BY <1>4
  <2>1. Rest(b) = From(here, w)
    BY <1>3, <1>8 DEF Rest
  <2>2. f + w - 1 = f + s
    BY <1>2
  <2> QED  BY <1>2, <1>4, <1>5, <1>6, <2>1, <2>2
<1> QED  BY <1>7, <1>8

\* A candidate that parses ends with the end of a packet, and its doors are of
\* that packet: its last byte is no header's.
LEMMA CandidateWhole ==
  ASSUME NEW b \in Bytes, NEW place, NEW bad, Placed(b, place, bad),
         ~Stops(b), Within(b) = {}, Parses(Candidate(b))
  PROVE  \E e \in 1 .. Size(b) :
           place[e] = PacketSize /\ Rest(b) = From(b, e + 1) /\ Got(b) = <<{b[e].of}>>
<1> PICK n \in Nat, h \in Nat, c \in Nat, s \in Nat :
      /\ n = Size(b) /\ h = HeaderSize /\ h > 2 /\ c = Cardinality(Door) /\ c > 0
      /\ s = PacketSize /\ s = h + 4 * c /\ s > h
  BY SizeIs, Sizes
<1> PICK f \in Headers(b) :
      /\ f \in 1 .. n /\ f + s - 1 \in 1 .. n
      /\ \A k \in 1 .. s : Candidate(b)[k] = b[f + k - 1]
      /\ Rest(b) = From(b, f + s)
  BY CandidateIs
<1> PICK e \in 1 .. n, q \in 1 .. n :
      /\ e = f + s - 1 /\ q = f + h - 1 /\ q < e /\ e - q = s - h /\ e + 1 = f + s
  OBVIOUS
<1>1. place[q] = h
  BY HeaderPlace
<1> PICK packet \in Bytes :
      /\ packet = Candidate(b) /\ Size(packet) = s
      /\ \A k \in 1 .. s : packet[k] = b[f + k - 1]
  BY TurnIs
<1> PICK p \in 1 .. s : p = place[e]
  BY DEF Placed
<1> PICK last \in 1 .. c : last = c
  OBVIOUS
<1>2. b[e].is = ";"
  <2>1. Record(packet, last) \in Range(Records(packet))
    BY DEF Records, Range
  <2>2. Record(packet, last)[4].is = ";"
    BY <2>1 DEF Parses
  <2>3. Record(packet, last)[4] = packet[h + 4 * (last - 1) + 4]
    BY RecordIs
  <2>4. h + 4 * (last - 1) + 4 = s /\ s \in 1 .. s
    OBVIOUS
  <2> QED  BY <2>2, <2>3, <2>4
<1>3. ~(p <= h)
  <2> SUFFICES ASSUME p <= h PROVE FALSE
    OBVIOUS
  <2>1. 1 \in 1 .. HeaderSize /\ p \in 1 .. HeaderSize
    OBVIOUS
  <2>2. Header[1] # ";" /\ Header[p] # ";"
    BY <2>1, HeaderDiffers, Zenon
  <2>3. ~Noise(b[e], bad)
    BY <1>2, <2>2 DEF Noise
  <2>4. Fits(b[e], p, bad)
    BY DEF Placed
  <2>5. b[e].is = Header[p]
    BY <2>1, <2>3, <2>4, HeaderFits
  <2> QED  BY <1>2, <2>2, <2>5
<1>4. p = s /\ b[q].of = b[e].of
  <2>1. Follows(b[q].of, h, b[e].of, p, s - h, bad)
    BY <1>1 DEF Placed
  <2>2. Lost(bad, b[q].of) \in {0, 1} /\ Lost(bad, b[e].of) \in {0, 1}
    BY LostIs
  <2> QED  BY <1>3, <2>1, <2>2 DEF Follows
<1> PICK m \in Nat : m = b[e].of
  BY ByteAt DEF Byte
<1>5. ASSUME NEW j \in q .. e PROVE b[j].of = m
  <2>0. j \in 1 .. n
    OBVIOUS
  <2> PICK x \in Nat : x = b[j].of
    BY <2>0, ByteAt DEF Byte
  <2>1. j # q => m <= x
    <3> SUFFICES ASSUME j # q PROVE m <= x
      OBVIOUS
    <3>1. q < j
      OBVIOUS
    <3>2. Follows(b[q].of, place[q], b[j].of, place[j], j - q, bad)
      BY <2>0, <3>1 DEF Placed
    <3>3. Follows(m, place[q], x, place[j], j - q, bad)
      BY <1>4, <3>2
    <3>4. m = x \/ m < x
      BY <3>3, Zenon DEF Follows
    <3> QED  BY <3>4
  <2>2. j # e => x <= m
    <3> SUFFICES ASSUME j # e PROVE x <= m
      OBVIOUS
    <3>1. j < e
      OBVIOUS
    <3>2. Follows(b[j].of, place[j], b[e].of, place[e], e - j, bad)
      BY <2>0, <3>1 DEF Placed
    <3>3. Follows(x, place[j], m, place[e], e - j, bad)
      BY <3>2
    <3>4. x = m \/ x < m
      BY <3>3, Zenon DEF Follows
    <3> QED  BY <3>4
  <2>3. CASE j = q
    BY <1>4, <2>3
  <2>4. CASE j = e
    BY <2>4
  <2>5. CASE j # q /\ j # e
    BY <2>1, <2>2, <2>5
  <2> QED  BY <2>3, <2>4, <2>5
<1>6. ASSUME NEW i \in 1 .. c PROVE Origins(SubSeq(Record(packet, i), 1, 2)) = {m}
  <2>1. PICK r \in Bytes : /\ r = Record(packet, i) /\ Size(r) = 4
                           /\ \A k \in 1 .. 4 : r[k] = packet[h + 4 * (i - 1) + k]
    <3>1. /\ Record(packet, i) \in Bytes /\ Size(Record(packet, i)) = 4
          /\ \A k \in 1 .. 4 : Record(packet, i)[k] = packet[HeaderSize + 4 * (i - 1) + k]
      BY RecordIs
    <3> QED  BY <3>1
  <2>3. PICK v \in Bytes : v = Part(r, 1, 2) /\ Size(v) = 2 /\ v[1] = r[1] /\ v[2] = r[2]
    <3> PICK z \in Nat : z = 4
      OBVIOUS
    <3> PICK j \in 0 .. z : j = 2
      OBVIOUS
    <3>1. Size(r) = z
      BY <2>1
    <3>2. /\ Part(r, 1, j) \in Bytes /\ Size(Part(r, 1, j)) = j
          /\ \A k \in 1 .. j : Part(r, 1, j)[k] = r[k]
      BY <3>1, FrontIs, SMTT(20)
    <3>3. 1 \in 1 .. j /\ 2 \in 1 .. j
      OBVIOUS
    <3> QED  BY <3>2, <3>3
  <2>4. ASSUME NEW k \in 1 .. 2 PROVE v[k].of = m
    <3> PICK t \in 1 .. s : t = h + 4 * (i - 1) + k
      OBVIOUS
    <3>1. f + t - 1 \in q .. e /\ k \in 1 .. 4 /\ (k = 1 \/ k = 2)
      <4>1. h + k <= t /\ t <= s
        OBVIOUS
      <4>2. q <= f + t - 1
        BY <4>1
      <4>3. f + t - 1 <= e
        BY <4>1
      <4> QED  BY <4>2, <4>3
    <3>2. r[k] = b[f + t - 1]
      BY <2>1, <3>1
    <3>3. v[k] = r[k]
      BY <2>3, <3>1
    <3> QED  BY <1>5, <3>1, <3>2, <3>3
  <2>5. DOMAIN v = 1 .. 2
    BY <2>3, LenProperties DEF Bytes, Size
  <2> QED  BY <2>1, <2>3, <2>4, <2>5 DEF Origins, Part
<1>7. DoorsFrom(packet) = {m}
  <2>1. \A r \in Range(Records(packet)) : \E i \in 1 .. c : r = Record(packet, i)
    BY DEF Records, Range
  <2>2. \A r \in Range(Records(packet)) : Origins(SubSeq(r, 1, 2)) = {m}
    BY <1>6, <2>1
  <2>3. Record(packet, last) \in Range(Records(packet))
    BY DEF Records, Range
  <2>4. ASSUME NEW x \in DoorsFrom(packet) PROVE x = m
    <3> PICK r \in Range(Records(packet)) : x \in Origins(SubSeq(r, 1, 2))
      BY Zenon DEF DoorsFrom
    <3> QED  BY <2>2
  <2>5. m \in DoorsFrom(packet)
    <3>1. m \in Origins(SubSeq(Record(packet, last), 1, 2))
      BY <2>2, <2>3
    <3> QED  BY <2>3, <3>1, Zenon DEF DoorsFrom
  <2> QED  BY <2>4, <2>5
<1> QED  BY <1>4, <1>7 DEF Got

\* What is decoded of a placed stream: packets of the stream, in order, each
\* before every byte that is left.
Taken(found, origins) ==
  /\ \A k \in DOMAIN found : found[k] \in origins
  /\ \A j, k \in DOMAIN found : \A x \in found[j], y \in found[k] : j < k => x < y

\* The packets whose last byte is in the places from i to before p.
Ended(b, place, i, p) ==
  {{b[e].of} : e \in {d \in i .. Size(b) : d < p /\ place[d] = PacketSize}}

LEMMA EndedIs ==
  \A b, place, i, p, x :
    x \in Ended(b, place, i, p) <=>
      \E e \in i .. Size(b) : e < p /\ place[e] = PacketSize /\ x = {b[e].of}
  BY Zenon DEF Ended

Whole(b, place, result) ==
  \E p \in 1 .. Size(b) + 1 :
    result.rest = From(b, p) /\ Taken(result.found, Ended(b, place, 1, p))

LEMMA OntoFinds ==
  ASSUME NEW found \in Finds, NEW d \in SUBSET Nat
  PROVE  /\ <<>> \o found = found
         /\ DOMAIN (<<d>> \o found) = 1 .. Len(found) + 1 /\ DOMAIN found = 1 .. Len(found)
         /\ Len(found) \in Nat
         /\ (<<d>> \o found)[1] = d
         /\ \A k \in 1 .. Len(found) : (<<d>> \o found)[k + 1] = found[k]
<1>1. <<d>> \in Finds /\ Len(<<d>>) = 1
  BY DEF Finds
<1>2. Len(found) \in Nat /\ DOMAIN found = 1 .. Len(found)
  BY LenProperties DEF Finds
<1>3. <<>> \o found = found
  BY ConcatEmptySeq DEF Finds
<1>4. /\ <<d>> \o found \in Finds /\ Len(<<d>> \o found) = 1 + Len(found)
      /\ \A k \in 1 .. 1 + Len(found) :
           (<<d>> \o found)[k] = IF k <= 1 THEN <<d>>[k] ELSE found[k - 1]
  BY <1>1, ConcatProperties DEF Finds
<1> PICK all \in Finds, l \in Nat : all = <<d>> \o found /\ l = Len(found)
  BY <1>2, <1>4
<1>5. DOMAIN all = 1 .. l + 1
  BY <1>4, LenProperties DEF Finds
<1>6. all[1] = d
  <2>1. 1 \in 1 .. 1 + l /\ <<d>>[1] = d
    OBVIOUS
  <2> QED  BY <1>4, <2>1
<1>7. ASSUME NEW k \in 1 .. l PROVE all[k + 1] = found[k]
  <2> PICK j \in 1 .. 1 + l : j = k + 1 /\ ~(j <= 1) /\ j - 1 = k
    OBVIOUS
  <2> QED  BY <1>4
<1> QED  BY <1>2, <1>3, <1>5, <1>6, <1>7

LEMMA OntoNothing ==
  ASSUME NEW last \in Decoded
  PROVE  Onto(<<>>, last).rest = last.rest /\ Onto(<<>>, last).found = last.found
<1>1. <<>> \o last.found = last.found
  <2>1. last.found \in Finds
    BY DEF Decoded
  <2> QED  BY <2>1, ConcatEmptySeq DEF Finds
<1>2. Onto(<<>>, last) = [rest |-> last.rest, found |-> last.found]
  BY <1>1, Zenon DEF Onto
<1> QED  BY <1>2

LEMMA TakenMore ==
  ASSUME NEW found, NEW S, NEW T, Taken(found, S), S \subseteq T
  PROVE  Taken(found, T)
  BY DEF Taken

Prefixed(all, m, found, l) ==
  /\ DOMAIN found = 1 .. l /\ DOMAIN all = 1 .. l + 1
  /\ all[1] = {m} /\ \A k \in 1 .. l : all[k + 1] = found[k]

Before(m, found) == \A k \in DOMAIN found : \A y \in found[k] : m < y

LEMMA Prepended ==
  ASSUME NEW l \in Nat, NEW all, NEW found, NEW m, NEW S,
         Prefixed(all, m, found, l), Taken(found, S), {m} \in S, Before(m, found)
  PROVE  Taken(all, S)
<1> USE DEF Prefixed, Before
<1>0. /\ \A k \in 1 .. l : found[k] \in S
      /\ \A j, k \in 1 .. l : \A x \in found[j], y \in found[k] : j < k => x < y
  BY DEF Taken
<1>1. ASSUME NEW k \in 1 .. l + 1 PROVE k = 1 \/ \E d \in 1 .. l : k = d + 1 /\ all[k] = found[d]
  <2> SUFFICES ASSUME k # 1 PROVE \E d \in 1 .. l : k = d + 1 /\ all[k] = found[d]
    OBVIOUS
  <2> PICK d \in 1 .. l : k = d + 1
    <3>1. k - 1 \in 1 .. l /\ k = (k - 1) + 1
      OBVIOUS
    <3> QED  BY <3>1
  <2> QED  OBVIOUS
<1>2. ASSUME NEW k \in 1 .. l + 1 PROVE all[k] \in S
  BY <1>0, <1>1
<1>3. ASSUME NEW j \in 1 .. l + 1, NEW k \in 1 .. l + 1, j < k, NEW x \in all[j], NEW y \in all[k]
      PROVE  x < y
  <2> PICK d \in 1 .. l : k = d + 1 /\ all[k] = found[d]
    BY <1>1, <1>3
  <2>1. CASE j = 1
    BY <2>1
  <2>2. CASE j # 1
    <3> PICK c \in 1 .. l : j = c + 1 /\ all[j] = found[c]
      BY <1>1, <2>2
    <3>1. c < d
      BY <1>3
    <3> QED  BY <1>0, <3>1
  <2> QED  BY <2>1, <2>2
<1> QED  BY <1>2, <1>3 DEF Taken

\* The same of what is decoded of a later part.
LEMMA WholeLater ==
  ASSUME NEW u \in Bytes, NEW at, NEW r \in 1 .. Size(u) + 1, NEW last,
         Whole(From(u, r), Shifted(at, r), last)
  PROVE  \E p \in r .. Size(u) + 1 :
           last.rest = From(u, p) /\ Taken(last.found, Ended(u, at, r, p))
<1> PICK n \in Nat : n = Size(u)
  BY SizeIs
<1> PICK l \in Nat : l = n - r + 1
  OBVIOUS
<1> PICK v \in Bytes : /\ v = From(u, r) /\ Size(v) = l
                       /\ \A k \in 1 .. l : v[k] = u[r + k - 1]
  BY FromIs
<1>1. \A k \in 1 .. l : r + k - 1 \in r .. n /\ Shifted(at, r)[k] = at[r + k - 1]
  BY DEF Shifted
<1>2. PICK o \in 1 .. l + 1 :
        last.rest = From(v, o) /\ Taken(last.found, Ended(v, Shifted(at, r), 1, o))
  BY DEF Whole
<1> PICK p \in r .. n + 1 : p = r + o - 1
  OBVIOUS
<1>3. last.rest = From(u, p)
  <2>1. o \in 1 .. n - r + 2
    OBVIOUS
  <2> QED  BY <1>2, <2>1, FromFrom
<1>4. ASSUME NEW d \in 1 .. l, d < o, Shifted(at, r)[d] = PacketSize
      PROVE  \E e \in r .. n : e < p /\ at[e] = PacketSize /\ {v[d].of} = {u[e].of}
  <2> PICK e \in r .. n : e = r + d - 1 /\ e < p
    BY <1>4
  <2> QED  BY <1>1, <1>4
<1>5. Ended(v, Shifted(at, r), 1, o) \subseteq Ended(u, at, r, p)
  <2> SUFFICES ASSUME NEW x \in Ended(v, Shifted(at, r), 1, o) PROVE x \in Ended(u, at, r, p)
    OBVIOUS
  <2> PICK d \in 1 .. l : d < o /\ Shifted(at, r)[d] = PacketSize /\ x = {v[d].of}
    BY EndedIs
  <2> QED  BY <1>4, EndedIs, ZenonT(30)
<1> QED  BY <1>2, <1>3, <1>5, TakenMore

\* The same with a packet decoded before.
LEMMA WholeOnto ==
  ASSUME NEW u \in Bytes, NEW at, NEW bad, Placed(u, at, bad),
         NEW e \in 1 .. Size(u), at[e] = PacketSize,
         NEW last \in Decoded, Whole(From(u, e + 1), Shifted(at, e + 1), last)
  PROVE  Whole(u, at, Onto(<<{u[e].of}>>, last))
<1> PICK n \in Nat : n = Size(u)
  BY SizeIs
<1> PICK r \in 1 .. n + 1 : r = e + 1
  OBVIOUS
<1> PICK m \in Nat : m = u[e].of
  BY ByteAt DEF Byte
<1>1. PICK found \in Finds : found = last.found
  BY DEF Decoded
<1>2. PICK p \in r .. n + 1 :
        last.rest = From(u, p) /\ Taken(found, Ended(u, at, r, p))
  BY <1>1, WholeLater
<1>3. PICK all : all = <<{m}>> \o found
  OBVIOUS
<1>4. PICK l \in Nat : Prefixed(all, m, found, l)
  <2>1. {m} \in SUBSET Nat
    OBVIOUS
  <2>2. /\ DOMAIN (<<{m}>> \o found) = 1 .. Len(found) + 1 /\ DOMAIN found = 1 .. Len(found)
        /\ Len(found) \in Nat /\ (<<{m}>> \o found)[1] = {m}
        /\ \A k \in 1 .. Len(found) : (<<{m}>> \o found)[k + 1] = found[k]
    BY <2>1, OntoFinds
  <2> QED  BY <1>3, <2>2, Zenon DEF Prefixed
<1>5. {m} \in Ended(u, at, 1, p)
  <2>1. e < p
    OBVIOUS
  <2> QED  BY <2>1, EndedIs
<1>6. Ended(u, at, r, p) \subseteq Ended(u, at, 1, p)
  <2>1. r .. n \subseteq 1 .. n
    OBVIOUS
  <2> QED  BY <2>1, EndedIs
<1>7. Before(m, found)
  <2> SUFFICES ASSUME NEW k \in DOMAIN found, NEW y \in found[k] PROVE m < y
    BY DEF Before
  <2>1. found[k] \in Ended(u, at, r, p)
    BY <1>2 DEF Taken
  <2> PICK d \in r .. n : found[k] = {u[d].of}
    BY <2>1, EndedIs
  <2>2. d \in 1 .. n /\ e < d
    OBVIOUS
  <2>3. u[e].of < u[d].of
    BY <2>2, AfterEnd
  <2> QED  BY <2>3
<1>8. Taken(found, Ended(u, at, 1, p))
  BY <1>2, <1>6, TakenMore
<1>9. Taken(all, Ended(u, at, 1, p))
  BY <1>4, <1>5, <1>7, <1>8, Prepended
<1>10. /\ Onto(<<{u[e].of}>>, last).rest = From(u, p)
       /\ Onto(<<{u[e].of}>>, last).found = all
  BY <1>1, <1>2, <1>3 DEF Onto
<1>11. p \in 1 .. n + 1
  OBVIOUS
<1> QED  BY <1>9, <1>10, <1>11 DEF Whole

LEMMA ScanWhole ==
  ASSUME NEW bad, NEW b \in Bytes, NEW place, Placed(b, place, bad)
  PROVE  Whole(b, place, Scan[b])
<1> DEFINE Is(u) == \A at : Placed(u, at, bad) => Whole(u, at, Scan[u])
           G == {u \in Bytes : Is(u)}
<1>1. ASSUME NEW u \in Bytes, \A v \in Bytes : Size(v) < Size(u) => v \in G
      PROVE  Is(u)
  <2> SUFFICES ASSUME NEW at, Placed(u, at, bad) PROVE Whole(u, at, Scan[u])
    OBVIOUS
  <2> PICK n \in Nat : n = Size(u)
    BY SizeIs
  <2>1. \A v \in Bytes : Size(v) < n => \A to : Placed(v, to, bad) => Whole(v, to, Scan[v])
    BY <1>1
  <2> HIDE DEF G, Is
  <2>2. Scan[u] = Go(Scan, u)
    BY ScanSolves
  <2>3. CASE Stops(u)
    <3>1. Scan[u].rest = Kept(u) /\ Scan[u].found = <<>>
      BY <2>2, <2>3 DEF Go
    <3>2. \E p \in 1 .. n + 1 : Kept(u) = From(u, p)
      BY KeptFrom
    <3>3. \A S : Taken(<<>>, S)
      BY DEF Taken
    <3> QED  BY <3>1, <3>2, <3>3 DEF Whole
  <2>4. CASE ~Stops(u)
    <3> PICK v \in Bytes : v = Rest(u) /\ Size(v) < n
      BY <2>4, TurnIs
    <3> PICK last \in Decoded : last = Scan[v]
      BY ScanSolves
    <3>1. Scan[u] = Onto(Got(u), last)
      BY <2>2, <2>4, Zenon DEF Go
    <3>2. ASSUME NEW r \in 1 .. n + 1, v = From(u, r)
          PROVE  Whole(From(u, r), Shifted(at, r), last)
      <4>1. Placed(From(u, r), Shifted(at, r), bad)
        BY PlacedFrom
      <4> QED  BY <2>1, <3>2, <4>1
    <3>3. CASE Got(u) = <<>>
      <4> PICK r \in 1 .. n + 1 : v = From(u, r)
        BY <2>4, CandidateIs
      <4>1. PICK p \in r .. n + 1 :
              last.rest = From(u, p) /\ Taken(last.found, Ended(u, at, r, p))
        BY <3>2, WholeLater
      <4>2. Scan[u].rest = last.rest /\ Scan[u].found = last.found
        BY <3>1, <3>3, OntoNothing
      <4>3. p \in 1 .. n + 1 /\ r .. n \subseteq 1 .. n
        OBVIOUS
      <4>4. Ended(u, at, r, p) \subseteq Ended(u, at, 1, p)
        BY <4>3, EndedIs
      <4>5. Taken(last.found, Ended(u, at, 1, p))
        BY <4>1, <4>4, TakenMore
      <4> QED  BY <4>1, <4>2, <4>3, <4>5 DEF Whole
    <3>4. CASE Got(u) # <<>>
      <4>1. Within(u) = {} /\ Parses(Candidate(u))
        BY <3>4 DEF Got
      <4>2. PICK e \in 1 .. n :
              at[e] = PacketSize /\ v = From(u, e + 1) /\ Got(u) = <<{u[e].of}>>
        BY <2>4, <4>1, CandidateWhole
      <4>3. Whole(From(u, e + 1), Shifted(at, e + 1), last)
        <5>1. e + 1 \in 1 .. n + 1
          OBVIOUS
        <5> QED  BY <3>2, <4>2, <5>1
      <4> QED  BY <3>1, <4>2, <4>3, WholeOnto
    <3> QED  BY <3>3, <3>4
  <2> QED  BY <2>3, <2>4
<1>2. G = Bytes
  <2>1. G \in SUBSET Bytes
    OBVIOUS
  <2>2. \A u \in Bytes : (\A v \in Bytes : Size(v) < Size(u) => v \in G) => u \in G
    BY <1>1
  <2> HIDE DEF G
  <2> QED  BY <2>1, <2>2, SizeInduction
<1>3. Is(b)
  BY <1>2
<1> QED  BY <1>3

-----------------------------------------------------------------------------
(* The stream is what is buffered and what is on its way.                  *)

\* No packet ends before its last byte, but for a byte it lost.
Complete(b, place, bad) ==
  \A j \in 1 .. Size(b) : place[j] + (Size(b) - j) >= PacketSize - Lost(bad, b[j].of)

\* A stream of packets up to n, all after the ones decoded.
SentIn(b, n) == \A j \in 1 .. Size(b) : b[j].of \in 1 .. n
AfterAll(b, found) ==
  \A k \in DOMAIN found, j \in 1 .. Size(b) : \A x \in found[k] : x < b[j].of

StreamOK(b, place, bad, n, found) ==
  Placed(b, place, bad) /\ Complete(b, place, bad) /\ SentIn(b, n) /\ AfterAll(b, found)

\* What is left of a stream is one.
LEMMA StreamFrom ==
  ASSUME NEW b \in Bytes, NEW place, NEW bad, NEW n \in Nat, NEW found,
         StreamOK(b, place, bad, n, found), NEW r \in 1 .. Size(b) + 1
  PROVE  StreamOK(From(b, r), Shifted(place, r), bad, n, found)
<1> PICK m \in Nat, s \in Nat : m = Size(b) /\ s = PacketSize
  BY SizeIs, Sizes
<1>1. PICK u \in Bytes : /\ u = From(b, r) /\ Size(u) = m - r + 1
                         /\ \A k \in 1 .. m - r + 1 : u[k] = b[r + k - 1]
  BY FromIs
<1>2. Placed(u, Shifted(place, r), bad)
  BY <1>1, PlacedFrom DEF StreamOK
<1>3. ASSUME NEW j \in 1 .. m - r + 1
      PROVE  /\ Shifted(place, r)[j] + (m - r + 1 - j) >= s - Lost(bad, u[j].of)
             /\ u[j].of \in 1 .. n
             /\ \A k \in DOMAIN found : \A x \in found[k] : x < u[j].of
  <2> PICK i \in 1 .. m : i = r + j - 1 /\ m - i = m - r + 1 - j
    OBVIOUS
  <2>1. u[j] = b[i] /\ Shifted(place, r)[j] = place[i]
    BY <1>1 DEF Shifted
  <2>2. place[i] + (m - i) >= s - Lost(bad, b[i].of)
    BY DEF StreamOK, Complete
  <2>3. b[i].of \in 1 .. n /\ \A k \in DOMAIN found : \A x \in found[k] : x < b[i].of
    BY DEF StreamOK, SentIn, AfterAll
  <2> QED  BY <2>1, <2>2, <2>3
<1>4. Complete(u, Shifted(place, r), bad)
  BY <1>1, <1>3 DEF Complete
<1>5. SentIn(u, n) /\ AfterAll(u, found)
  BY <1>1, <1>3 DEF SentIn, AfterAll
<1> QED  BY <1>1, <1>2, <1>4, <1>5 DEF StreamOK

\* What the line makes of one packet.
Arrives(c, at, bad, n) ==
  /\ Placed(c, at, bad) /\ Complete(c, at, bad)
  /\ \A t \in 1 .. Size(c) : c[t].of = n /\ t <= at[t] /\ at[t] <= t + Lost(bad, n)

Appended(place, m, at) == [j \in Nat |-> IF j <= m THEN place[j] ELSE at[j - m]]

\* With a packet the line damages that packet alone, if any.
Damaged(old, bad, n) == bad \in {old, old \cup {n}}

\* What was decoded came from the first packets.
SentBy(found, n) == \A k \in DOMAIN found : \A x \in found[k] : x \in 1 .. n

\* A stream with another packet is one.
LEMMA StreamJoined ==
  ASSUME NEW b \in Bytes, NEW place, NEW old, NEW n \in Nat, NEW found,
         StreamOK(b, place, old, n, found),
         NEW c \in Bytes, NEW at, NEW bad, Damaged(old, bad, n + 1), Arrives(c, at, bad, n + 1),
         SentBy(found, n)
  PROVE  StreamOK(Joined(b, c), Appended(place, Size(b), at), bad, n + 1, found)
<1> PICK m \in Nat, l \in Nat, s \in Nat :
      m = Size(b) /\ l = Size(c) /\ s = PacketSize
  BY SizeIs, Sizes
<1>1. PICK all \in Bytes : /\ all = Joined(b, c) /\ Size(all) = m + l
                           /\ \A k \in 1 .. m + l : all[k] = IF k <= m THEN b[k] ELSE c[k - m]
  BY JoinedIs
<1>2. PICK to : to = Appended(place, m, at)
  OBVIOUS
<1>3. ASSUME NEW j \in 1 .. m
      PROVE  /\ j \in 1 .. m + l /\ all[j] = b[j] /\ to[j] = place[j]
             /\ b[j].of \in 1 .. n /\ Lost(bad, b[j].of) = Lost(old, b[j].of)
             /\ Lost(bad, b[j].of) \in {0, 1}
             /\ place[j] \in 1 .. s /\ Fits(b[j], place[j], bad)
             /\ place[j] + (m - j) >= s - Lost(bad, b[j].of)
  <2>1. j \in 1 .. m + l /\ all[j] = b[j] /\ to[j] = place[j]
    BY <1>1, <1>2 DEF Appended
  <2>2. b[j].of \in 1 .. n
    BY DEF StreamOK, SentIn
  <2>3. Lost(bad, b[j].of) = Lost(old, b[j].of)
    <3>1. b[j].of \in bad <=> b[j].of \in old
      BY <2>2 DEF Damaged
    <3> QED  BY <3>1 DEF Lost
  <2>4. place[j] \in 1 .. s /\ Fits(b[j], place[j], old)
    BY DEF StreamOK, Placed
  <2>5. Fits(b[j], place[j], bad)
    <3>1. Noise(b[j], old) => Noise(b[j], bad)
      BY DEF Noise, Damaged
    <3> QED  BY <2>4, <3>1, Zenon DEF Fits
  <2>6. place[j] + (m - j) >= s - Lost(old, b[j].of)
    BY DEF StreamOK, Complete
  <2> QED  BY <2>1, <2>2, <2>3, <2>4, <2>5, <2>6, LostIs
<1>4. ASSUME NEW j \in m + 1 .. m + l
      PROVE  /\ j \in 1 .. m + l /\ j - m \in 1 .. l
             /\ all[j] = c[j - m] /\ to[j] = at[j - m] /\ all[j].of = n + 1
             /\ at[j - m] \in 1 .. s /\ Fits(c[j - m], at[j - m], bad)
             /\ j - m <= at[j - m] /\ at[j - m] <= j - m + Lost(bad, n + 1)
             /\ at[j - m] + (m + l - j) >= s - Lost(bad, n + 1)
  <2> PICK t \in 1 .. l : t = j - m /\ m + l - j = l - t
    OBVIOUS
  <2>1. j \in 1 .. m + l /\ ~(j <= m) /\ all[j] = c[t] /\ to[j] = at[t]
    BY <1>1, <1>2 DEF Appended
  <2>2. c[t].of = n + 1 /\ t <= at[t] /\ at[t] <= t + Lost(bad, n + 1)
    BY DEF Arrives
  <2>3. at[t] \in 1 .. s /\ Fits(c[t], at[t], bad)
    BY DEF Arrives, Placed
  <2>4. at[t] + (l - t) >= s - Lost(bad, c[t].of)
    BY DEF Arrives, Complete
  <2> QED  BY <2>1, <2>2, <2>3, <2>4
<1>5. ASSUME NEW j \in 1 .. m + l PROVE j \in 1 .. m \/ j \in m + 1 .. m + l
  OBVIOUS
<1>6. Lost(bad, n + 1) \in {0, 1}
  BY LostIs
<1>7. ASSUME NEW j \in 1 .. m + l, NEW k \in 1 .. m + l, j < k
      PROVE  Follows(all[j].of, to[j], all[k].of, to[k], k - j, bad)
  <2>1. CASE k \in 1 .. m
    <3>1. j \in 1 .. m
      BY <1>7, <2>1
    <3>2. Follows(b[j].of, place[j], b[k].of, place[k], k - j, old)
      BY <1>7, <2>1, <3>1 DEF StreamOK, Placed
    <3>3. Follows(b[j].of, place[j], b[k].of, place[k], k - j, bad)
      BY <1>3, <2>1, <3>1, <3>2, Zenon DEF Follows
    <3> QED  BY <1>3, <2>1, <3>1, <3>3
  <2>2. CASE j \in m + 1 .. m + l
    <3>1. k \in m + 1 .. m + l /\ k - j = (k - m) - (j - m) /\ j - m < k - m
      BY <1>7, <2>2
    <3>2. Follows(c[j - m].of, at[j - m], c[k - m].of, at[k - m], (k - m) - (j - m), bad)
      BY <1>4, <2>2, <3>1 DEF Arrives, Placed
    <3> QED  BY <1>4, <2>2, <3>1, <3>2
  <2>3. CASE j \in 1 .. m /\ k \in m + 1 .. m + l
    <3> PICK t \in 1 .. l, g \in Nat, d \in Nat : t = k - m /\ g = m - j /\ d = k - j /\ d = g + t
      BY <2>3
    <3> PICK p \in 1 .. s, q \in 1 .. s, x \in 1 .. n, e \in {0, 1}, f \in {0, 1} :
          /\ p = to[j] /\ q = to[k] /\ x = all[j].of /\ e = Lost(bad, x) /\ f = Lost(bad, n + 1)
          /\ all[k].of = n + 1 /\ p + g >= s - e /\ q <= t + f
      <4>1. /\ to[j] \in 1 .. s /\ all[j].of \in 1 .. n /\ Lost(bad, all[j].of) \in {0, 1}
            /\ to[j] + g >= s - Lost(bad, all[j].of)
        <5>1. j \in 1 .. m
          BY <2>3
        <5>2. all[j] = b[j] /\ to[j] = place[j]
          BY <1>3, <5>1
        <5>3. /\ b[j].of \in 1 .. n /\ Lost(bad, b[j].of) \in {0, 1}
              /\ place[j] \in 1 .. s /\ place[j] + (m - j) >= s - Lost(bad, b[j].of)
          BY <1>3, <5>1
        <5> QED  BY <5>2, <5>3
      <4>2. to[k] \in 1 .. s /\ all[k].of = n + 1 /\ to[k] <= t + Lost(bad, n + 1)
        BY <1>4, <2>3
      <4> QED  BY <1>6, <4>1, <4>2
    <3>1. x < n + 1 /\ p + d + e > s /\ q <= d + f /\ q <= p + d + e + f - s
      OBVIOUS
    <3> QED  BY <3>1 DEF Follows
  <2> QED  BY <1>5, <2>1, <2>2, <2>3
<1>8. Placed(all, to, bad)
  <2>1. \A j \in 1 .. m + l : to[j] \in 1 .. s /\ Fits(all[j], to[j], bad)
    BY <1>3, <1>4, <1>5
  <2> QED  BY <1>1, <1>7, <2>1 DEF Placed
<1>9. Complete(all, to, bad)
  <2>1. ASSUME NEW j \in 1 .. m + l PROVE to[j] + (m + l - j) >= s - Lost(bad, all[j].of)
    <3>1. CASE j \in 1 .. m
      <4> PICK p \in 1 .. s, e \in {0, 1} :
            p = to[j] /\ e = Lost(bad, all[j].of) /\ p + (m - j) >= s - e
        BY <1>3, <3>1
      <4>1. p + (m + l - j) >= s - e
        OBVIOUS
      <4> QED  BY <4>1
    <3>2. CASE j \in m + 1 .. m + l
      BY <1>4, <3>2
    <3> QED  BY <1>5, <3>1, <3>2
  <2> QED  BY <1>1, <2>1 DEF Complete
<1>10. SentIn(all, n + 1)
  <2>1. \A j \in 1 .. m + l : all[j].of \in 1 .. n + 1
    BY <1>3, <1>4, <1>5
  <2> QED  BY <1>1, <2>1 DEF SentIn
<1>11. AfterAll(all, found)
  <2> SUFFICES ASSUME NEW k \in DOMAIN found, NEW j \in 1 .. m + l, NEW x \in found[k]
               PROVE  x < all[j].of
    BY <1>1 DEF AfterAll
  <2>1. CASE j \in 1 .. m
    <3>1. x < b[j].of
      BY <2>1 DEF StreamOK, AfterAll
    <3> QED  BY <1>3, <2>1, <3>1
  <2>2. CASE j \in m + 1 .. m + l
    <3>1. x \in 1 .. n
      BY DEF SentBy
    <3> QED  BY <1>4, <2>2, <3>1
  <2> QED  BY <1>5, <2>1, <2>2
<1> QED  BY <1>1, <1>2, <1>8, <1>9, <1>10, <1>11 DEF StreamOK

LEMMA Quarters ==
  \A q \in Nat, r \in 0 .. 3 : (4 * q + r) \div 4 = q /\ (4 * q + r) % 4 = r
  OBVIOUS

\* What the bytes of a packet are.
LEMMA PacketBytes ==
  ASSUME NEW ids \in Orders, NEW voltage \in Voltages, NEW n \in Nat,
         NEW bytes, bytes = Tagged(PacketOf(ids, voltage), n)
  PROVE  /\ \A p \in 1 .. PacketSize : bytes[p].of = n
         /\ \A p \in 1 .. HeaderSize : bytes[p].is = Header[p]
         /\ \A i \in 1 .. Cardinality(Door), k \in 1 .. 4 :
              bytes[Place(i, k)].is = DoorRecord(ids[i], voltage)[k]
<1> PICK h \in Nat, c \in Nat, s \in Nat, w \in Nat :
      /\ h = HeaderSize /\ c = Cardinality(Door) /\ c > 0 /\ s = PacketSize
      /\ w = 4 * c /\ s = h + w
  BY Sizes
<1>0. w = RecordSize * Cardinality(Door)
  BY DEF RecordSize
<1>1. PICK records :
        /\ records \in Seq(Symbol) /\ records = AllRecords(ids, voltage) /\ Len(records) = w
        /\ PacketOf(ids, voltage) = Header \o records
  BY <1>0, AllRecordsAre
<1>2. PICK symbols :
        /\ symbols \in Seq(Symbol) /\ symbols = PacketOf(ids, voltage) /\ Len(symbols) = s
        /\ \A p \in 1 .. s : symbols[p] = IF p <= h THEN Header[p] ELSE records[p - h]
  <2>1. Len(Header) = h /\ Header \in Seq(Symbol)
    BY HeaderSymbols DEF HeaderSize
  <2>2. /\ Header \o records \in Seq(Symbol) /\ Len(Header \o records) = h + w
        /\ \A p \in 1 .. h + w :
             (Header \o records)[p] = IF p <= h THEN Header[p] ELSE records[p - h]
    <3>1. /\ Header \o records \in Seq(Symbol)
          /\ Len(Header \o records) = Len(Header) + Len(records)
          /\ \A p \in 1 .. Len(Header) + Len(records) :
               (Header \o records)[p] = IF p <= Len(Header) THEN Header[p]
                                        ELSE records[p - Len(Header)]
      <4>1. Header \in Seq(Symbol) /\ records \in Seq(Symbol)
        BY <1>1, <2>1
      <4> QED  BY <4>1, ConcatProperties
    <3> QED  BY <1>1, <2>1, <3>1
  <2> QED  BY <1>1, <2>2
<1>3. DOMAIN symbols = 1 .. s
  BY <1>2, LenProperties
<1>4. ASSUME NEW p \in 1 .. s PROVE bytes[p].of = n /\ bytes[p].is = symbols[p]
  <2>1. bytes = [i \in 1 .. s |-> [is |-> symbols[i], of |-> n]]
    BY <1>2, <1>3, Zenon DEF Tagged
  <2> QED  BY <2>1
<1>5. ASSUME NEW i \in 1 .. c, NEW k \in 1 .. 4
      PROVE  bytes[Place(i, k)].is = DoorRecord(ids[i], voltage)[k]
  <2> PICK o \in 1 .. w : o = 4 * (i - 1) + k
    OBVIOUS
  <2> PICK p \in 1 .. s : p = h + o /\ ~(p <= h) /\ p - h = o
    OBVIOUS
  <2>1. p = Place(i, k)
    BY DEF Place
  <2>2. ((o - 1) \div 4) + 1 = i /\ ((o - 1) % 4) + 1 = k
    <3> PICK q \in Nat, r \in 0 .. 3 : q = i - 1 /\ r = k - 1
      OBVIOUS
    <3>0. o - 1 = 4 * q + r
      OBVIOUS
    <3>1. (4 * q + r) \div 4 = q /\ (4 * q + r) % 4 = r
      BY Quarters
    <3> QED  BY <3>0, <3>1
  <2>3. records[o] = DoorRecord(ids[i], voltage)[k]
    BY <1>0, <1>1, <2>2 DEF AllRecords, RecordSize
  <2>4. symbols[p] = records[o]
    BY <1>2
  <2> QED  BY <1>4, <2>1, <2>3, <2>4
<1>6. ASSUME NEW p \in 1 .. h PROVE bytes[p].is = Header[p] /\ p \in 1 .. s
  BY <1>2, <1>4
<1> QED  BY <1>4, <1>5, <1>6

LEMMA PacketFits ==
  ASSUME NEW ids \in Orders, NEW voltage \in Voltages, NEW n \in Nat,
         NEW bytes, bytes = Tagged(PacketOf(ids, voltage), n), NEW bad
  PROVE  \A p \in 1 .. PacketSize : bytes[p].of = n /\ Fits(bytes[p], p, bad)
<1> PICK h \in Nat, s \in Nat, c \in Nat : h = HeaderSize /\ s = PacketSize /\ c = Cardinality(Door)
  BY Sizes
<1>1. ASSUME NEW p \in 1 .. s PROVE Fits(bytes[p], p, bad)
  <2>1. CASE p <= h
    <3>1. p \in 1 .. HeaderSize
      BY <2>1
    <3>2. bytes[p].is = Header[p]
      BY <3>1, PacketBytes
    <3> QED  BY <3>1, <3>2 DEF Fits
  <2>2. CASE ~(p <= h)
    <3>1. PICK i \in 1 .. c, k \in 1 .. 4 : p = Place(i, k)
      BY <2>2, PlaceInRecord
    <3>2. bytes[p].is = DoorRecord(ids[i], voltage)[k]
      BY <3>1, PacketBytes
    <3>3. ids[i] \in Door
      BY DEF Orders
    <3>4. InRecord(k, bytes[p].is)
      <4>1. CASE k = 1  BY <3>2, <3>3, <4>1 DEF InRecord, DoorRecord
      <4>2. CASE k = 2  BY <3>2, <4>2 DEF InRecord, DoorRecord
      <4>3. CASE k = 3  BY <4>3 DEF InRecord
      <4>4. CASE k = 4
        <5>1. DoorRecord(ids[i], voltage)[4] = ";"
          BY DEF DoorRecord
        <5>2. bytes[p].is = ";"
          BY <3>2, <4>4, <5>1
        <5>3. k # 1 /\ k # 2
          BY <4>4
        <5> QED  BY <5>2, <5>3, Zenon DEF InRecord
      <4> QED  BY <4>1, <4>2, <4>3, <4>4
    <3> QED  BY <3>1, <3>4 DEF Fits
  <2> QED  BY <2>1, <2>2
<1> QED  BY <1>1, PacketBytes

\* Bytes in place, one of which may be missing.
Skipping(i) == [t \in Nat |-> IF t < i THEN t ELSE t + 1]

LEMMA SkippingIs ==
  \A i : \A t \in Nat : Skipping(i)[t] = IF t < i THEN t ELSE t + 1
  BY DEF Skipping

InPlaces(c, l, i, bad, n) ==
  /\ Size(c) = l
  /\ \/ l = PacketSize /\ i = l + 1
     \/ l = PacketSize - 1 /\ i \in 1 .. l + 1 /\ n \in bad
  /\ \A t \in 1 .. l : c[t].of = n /\ Fits(c[t], Skipping(i)[t], bad)

LEMMA InPlace ==
  ASSUME NEW c \in Bytes, NEW n \in Nat, NEW bad, NEW i \in Nat, NEW l \in Nat,
         InPlaces(c, l, i, bad, n)
  PROVE  Arrives(c, Skipping(i), bad, n)
<1>0. PICK at : at = Skipping(i)
  OBVIOUS
<1>5. \A t \in 1 .. l : at[t] = IF t < i THEN t ELSE t + 1
  BY <1>0, SkippingIs
<1> /\ Size(c) = l
    /\ \/ l = PacketSize /\ i = l + 1
       \/ l = PacketSize - 1 /\ i \in 1 .. l + 1 /\ n \in bad
    /\ \A t \in 1 .. l : c[t].of = n /\ Fits(c[t], at[t], bad)
  BY <1>0 DEF InPlaces
<1> PICK s \in Nat : s = PacketSize
  BY Sizes
<1> PICK e \in {0, 1} : e = Lost(bad, n) /\ (l = s - 1 => e = 1)
  BY DEF Lost
<1>1. ASSUME NEW t \in 1 .. l
      PROVE  /\ at[t] \in 1 .. s /\ t <= at[t] /\ at[t] <= t + e /\ at[t] + (l - t) >= s - e
             /\ at[t] = IF t < i THEN t ELSE t + 1
  BY <1>5
<1>2. Complete(c, at, bad)
  <2>1. ASSUME NEW t \in 1 .. l PROVE at[t] + (l - t) >= s - Lost(bad, c[t].of)
    <3>1. Lost(bad, c[t].of) = e
      OBVIOUS
    <3> QED  BY <1>1, <3>1
  <2> QED  BY <2>1 DEF Complete
<1>3. ASSUME NEW t \in 1 .. l, NEW u \in 1 .. l, t < u
      PROVE  Follows(c[t].of, at[t], c[u].of, at[u], u - t, bad)
  <2>1. at[t] + (u - t) <= at[u] /\ at[u] <= at[t] + (u - t) + e
    BY <1>1, <1>3
  <2>2. c[t].of = n /\ c[u].of = n
    OBVIOUS
  <2> QED  BY <2>1, <2>2 DEF Follows
<1>4. Placed(c, at, bad)
  BY <1>1, <1>3 DEF Placed
<1> QED  BY <1>0, <1>1, <1>2, <1>4 DEF Arrives

LEMMA RemovedIs ==
  ASSUME NEW b \in Bytes, NEW l \in Nat, Size(b) = l + 1, NEW i \in 1 .. l + 1
  PROVE  /\ RemoveAt(b, i) \in Bytes /\ Size(RemoveAt(b, i)) = l
         /\ \A t \in 1 .. l : RemoveAt(b, i)[t] = b[IF t < i THEN t ELSE t + 1]
<1> PICK n \in Nat, d \in 0 .. l, r \in 1 .. l + 2 : n = l + 1 /\ d = i - 1 /\ r = i + 1
  OBVIOUS
<1> PICK o \in Nat : o = n - r + 1 /\ d + o = l
  OBVIOUS
<1>1. PICK front \in Bytes : /\ front = Part(b, 1, d) /\ Size(front) = d
                             /\ \A k \in 1 .. d : front[k] = b[k]
  <2>1. d \in 0 .. n
    OBVIOUS
  <2> QED  BY <2>1, FrontIs
<1>2. PICK back \in Bytes : /\ back = From(b, r) /\ Size(back) = o
                            /\ \A k \in 1 .. o : back[k] = b[r + k - 1]
  <2>1. r \in 1 .. n + 1
    OBVIOUS
  <2> QED  BY <2>1, FromIs
<1>3. RemoveAt(b, i) = Joined(front, back)
  BY <1>1, <1>2 DEF RemoveAt, Joined, Part, From
<1>4. PICK all \in Bytes : /\ all = Joined(front, back) /\ Size(all) = d + o
                           /\ \A k \in 1 .. d + o : all[k] = IF k <= d THEN front[k] ELSE back[k - d]
  BY <1>1, <1>2, JoinedIs
<1>5. ASSUME NEW t \in 1 .. l PROVE all[t] = b[IF t < i THEN t ELSE t + 1]
  <2>1. CASE t < i
    <3>1. t \in 1 .. d /\ t <= d /\ t \in 1 .. d + o
      BY <2>1
    <3> QED  BY <1>1, <1>4, <2>1, <3>1
  <2>2. CASE ~(t < i)
    <3> PICK k \in 1 .. o : k = t - d /\ r + k - 1 = t + 1 /\ t \in 1 .. d + o /\ ~(t <= d)
      BY <2>2
    <3> QED  BY <1>2, <1>4, <2>2
  <2> QED  BY <2>1, <2>2
<1> QED  BY <1>3, <1>4, <1>5

\* A packet arrives, whatever the line does to it.
LEMMA PacketArrives ==
  ASSUME NEW ids \in Orders, NEW voltage \in Voltages, NEW n \in Nat,
         NEW bytes, bytes = Tagged(PacketOf(ids, voltage), n), NEW bad
  PROVE  \E at : Arrives(bytes, at, bad, n)
<1> PICK s \in Nat : s = PacketSize
  BY Sizes
<1> PICK l \in Nat : l = s + 1
  OBVIOUS
<1> PICK at : at = Skipping(l)
  OBVIOUS
<1>0. \A t \in 1 .. s : at[t] = t
  BY SkippingIs
<1>1. bytes \in Bytes /\ Size(bytes) = s
  BY PacketIs
<1>2. \A t \in 1 .. s : at[t] = t /\ bytes[t].of = n /\ Fits(bytes[t], at[t], bad)
  BY <1>0, PacketFits
<1>3. InPlaces(bytes, s, l, bad, n)
  BY <1>1, <1>2 DEF InPlaces
<1>4. Arrives(bytes, at, bad, n)
  BY <1>1, <1>3, InPlace
<1> QED  BY <1>4

LEMMA RemovedArrives ==
  ASSUME NEW ids \in Orders, NEW voltage \in Voltages, NEW n \in Nat,
         NEW bytes, bytes = Tagged(PacketOf(ids, voltage), n), NEW bad, n \in bad,
         NEW i \in 1 .. PacketSize
  PROVE  /\ RemoveAt(bytes, i) \in Bytes /\ Size(RemoveAt(bytes, i)) > 0
         /\ \E at : Arrives(RemoveAt(bytes, i), at, bad, n)
<1> PICK s \in Nat, l \in Nat : s = PacketSize /\ l = s - 1 /\ s = l + 1 /\ l > 0
  BY Sizes
<1> PICK at : at = Skipping(i)
  OBVIOUS
<1>0. \A t \in 1 .. l : at[t] = IF t < i THEN t ELSE t + 1
  BY SkippingIs
<1>1. PICK c \in Bytes : /\ c = RemoveAt(bytes, i) /\ Size(c) = l
                         /\ \A t \in 1 .. l : c[t] = bytes[IF t < i THEN t ELSE t + 1]
  <2>1. bytes \in Bytes /\ Size(bytes) = l + 1
    BY PacketIs
  <2> QED  BY <2>1, RemovedIs
<1>2. ASSUME NEW t \in 1 .. l PROVE c[t].of = n /\ Fits(c[t], at[t], bad)
  <2> PICK p \in 1 .. s : p = IF t < i THEN t ELSE t + 1
    OBVIOUS
  <2>1. at[t] = p /\ c[t] = bytes[p]
    BY <1>0, <1>1
  <2>2. \A q \in 1 .. PacketSize : bytes[q].of = n /\ Fits(bytes[q], q, bad)
    BY PacketFits
  <2> QED  BY <2>1, <2>2
<1>3. InPlaces(c, l, i, bad, n)
  BY <1>1, <1>2 DEF InPlaces
<1>4. Arrives(c, at, bad, n)
  BY <1>1, <1>3, InPlace
<1> QED  BY <1>1, <1>4

Garbled(bytes, i, noise) == [bytes EXCEPT ![i].is = noise]

LEMMA NoisyArrives ==
  ASSUME NEW ids \in Orders, NEW voltage \in Voltages, NEW n \in Nat,
         NEW bytes, bytes = Tagged(PacketOf(ids, voltage), n), NEW bad, n \in bad,
         NEW i \in 1 .. PacketSize, NEW noise \in {"x", Header[1]}
  PROVE  /\ Garbled(bytes, i, noise) \in Bytes /\ Size(Garbled(bytes, i, noise)) > 0
         /\ \E at : Arrives(Garbled(bytes, i, noise), at, bad, n)
<1> PICK s \in Nat : s = PacketSize /\ s > 0
  BY Sizes
<1> PICK l \in Nat : l = s + 1
  OBVIOUS
<1> PICK at : at = Skipping(l)
  OBVIOUS
<1>0. \A t \in 1 .. s : at[t] = t
  BY SkippingIs
<1>1. bytes \in Bytes /\ Size(bytes) = s
  BY PacketIs
<1>2. bytes[i] \in Byte /\ \A t \in 1 .. s : bytes[t].of = n /\ Fits(bytes[t], t, bad)
  <2>1. bytes[i] \in Byte
    BY <1>1, ByteAt
  <2>2. \A t \in 1 .. PacketSize : bytes[t].of = n /\ Fits(bytes[t], t, bad)
    BY PacketFits
  <2> QED  BY <2>1, <2>2
<1>3. PICK byte \in Byte : byte = [bytes[i] EXCEPT !.is = noise] /\ byte.is = noise /\ byte.of = n
  <2>1. noise \in Symbol
    <3>1. Header[1] \in Symbol /\ "x" \in Symbol
      BY HeaderSymbols DEF Symbol
    <3> QED  BY <3>1
  <2> PICK b \in Byte : b = bytes[i] /\ b.of = n
    BY <1>2
  <2>2. [b EXCEPT !.is = noise] \in Byte
    BY <2>1 DEF Byte
  <2> QED  BY <2>2 DEF Byte
<1>4. PICK c : c = Garbled(bytes, i, noise) /\ c = [bytes EXCEPT ![i] = byte]
  BY <1>3 DEF Garbled
<1>5. c \in Bytes /\ Size(c) = s /\ \A t \in 1 .. s : c[t] = IF t = i THEN byte ELSE bytes[t]
  <2>1. c \in Bytes /\ Size(c) = s
    BY <1>1, <1>4, ExceptSeq DEF Bytes, Size
  <2>2. DOMAIN bytes = 1 .. s
    BY <1>1, LenProperties DEF Bytes, Size
  <2> QED  BY <1>4, <2>1, <2>2
<1>6. ASSUME NEW t \in 1 .. s PROVE c[t].of = n /\ Fits(c[t], at[t], bad)
  <2>1. CASE t = i
    BY <1>3, <1>5, <2>1 DEF Fits, Noise
  <2>2. CASE t # i
    <3>1. at[t] = t /\ c[t] = bytes[t]
      BY <1>0, <1>5, <2>2
    <3> QED  BY <1>2, <3>1
  <2> QED  BY <2>1, <2>2
<1>7. InPlaces(c, s, l, bad, n)
  BY <1>5, <1>6 DEF InPlaces
<1>8. Arrives(c, at, bad, n)
  BY <1>5, <1>7, InPlace
<1> QED  BY <1>4, <1>5, <1>8

LEMMA ConcatFinds ==
  ASSUME NEW a \in Finds, NEW d \in Finds
  PROVE  \E m, l \in Nat :
           /\ DOMAIN a = 1 .. m /\ DOMAIN d = 1 .. l /\ DOMAIN (a \o d) = 1 .. m + l
           /\ \A k \in 1 .. m + l : (a \o d)[k] = IF k <= m THEN a[k] ELSE d[k - m]
<1>1. /\ Len(a) \in Nat /\ DOMAIN a = 1 .. Len(a) /\ Len(d) \in Nat /\ DOMAIN d = 1 .. Len(d)
  BY LenProperties DEF Finds
<1>2. /\ a \o d \in Finds /\ Len(a \o d) = Len(a) + Len(d)
      /\ \A k \in 1 .. Len(a) + Len(d) : (a \o d)[k] = IF k <= Len(a) THEN a[k] ELSE d[k - Len(a)]
  BY ConcatProperties DEF Finds
<1>3. DOMAIN (a \o d) = 1 .. Len(a \o d)
  BY <1>2, LenProperties DEF Finds
<1> QED  BY <1>1, <1>2, <1>3, Zenon

\* A later run of packets after an earlier one.
LEMMA TakenConcat ==
  ASSUME NEW a \in Finds, NEW d \in Finds, NEW S, Taken(a, S), Taken(d, S),
         \A j \in DOMAIN a, k \in DOMAIN d : \A x \in a[j], y \in d[k] : x < y
  PROVE  Taken(a \o d, S)
<1>1. PICK m \in Nat, l \in Nat :
        /\ DOMAIN a = 1 .. m /\ DOMAIN d = 1 .. l /\ DOMAIN (a \o d) = 1 .. m + l
        /\ \A k \in 1 .. m + l : (a \o d)[k] = IF k <= m THEN a[k] ELSE d[k - m]
  BY ConcatFinds
<1>2. PICK all : all = a \o d
  OBVIOUS
<1>3. ASSUME NEW k \in 1 .. m + l
      PROVE  \/ k \in 1 .. m /\ k \in DOMAIN a /\ all[k] = a[k]
             \/ k - m \in 1 .. l /\ k - m \in DOMAIN d /\ all[k] = d[k - m] /\ k > m
  BY <1>1, <1>2
<1>4. ASSUME NEW k \in 1 .. m + l PROVE all[k] \in S
  BY <1>3 DEF Taken
<1>5. ASSUME NEW j \in 1 .. m + l, NEW k \in 1 .. m + l, j < k, NEW x \in all[j], NEW y \in all[k]
      PROVE  x < y
  <2>1. CASE k \in 1 .. m /\ k \in DOMAIN a /\ all[k] = a[k]
    <3>1. j \in DOMAIN a /\ all[j] = a[j]
      BY <1>3, <1>5, <2>1
    <3> QED  BY <1>5, <2>1, <3>1 DEF Taken
  <2>2. CASE k - m \in 1 .. l /\ k - m \in DOMAIN d /\ all[k] = d[k - m] /\ k > m
    <3>1. CASE j \in DOMAIN a /\ all[j] = a[j]
      BY <1>5, <2>2, <3>1
    <3>2. CASE j - m \in DOMAIN d /\ all[j] = d[j - m]
      <4>1. j - m < k - m
        BY <1>5
      <4> QED  BY <1>5, <2>2, <3>2, <4>1 DEF Taken
    <3> QED  BY <1>3, <3>1, <3>2
  <2> QED  BY <1>3, <2>1, <2>2
<1> QED  BY <1>1, <1>2, <1>4, <1>5 DEF Taken

LEMMA AfterConcat ==
  ASSUME NEW b \in Bytes, NEW a \in Finds, NEW d \in Finds, AfterAll(b, a), AfterAll(b, d)
  PROVE  AfterAll(b, a \o d)
<1>1. PICK m \in Nat, l \in Nat :
        /\ DOMAIN a = 1 .. m /\ DOMAIN d = 1 .. l /\ DOMAIN (a \o d) = 1 .. m + l
        /\ \A k \in 1 .. m + l : (a \o d)[k] = IF k <= m THEN a[k] ELSE d[k - m]
  BY ConcatFinds
<1>2. ASSUME NEW k \in 1 .. m + l, NEW j \in 1 .. Size(b), NEW x \in (a \o d)[k] PROVE x < b[j].of
  <2>1. CASE k <= m
    <3>1. k \in DOMAIN a /\ x \in a[k]
      BY <1>1, <1>2, <2>1
    <3> QED  BY <3>1 DEF AfterAll
  <2>2. CASE ~(k <= m)
    <3>1. k - m \in DOMAIN d /\ x \in d[k - m]
      BY <1>1, <1>2, <2>2
    <3> QED  BY <3>1 DEF AfterAll
  <2> QED  BY <2>1, <2>2
<1> QED  BY <1>1, <1>2 DEF AfterAll

LEMMA JoinedAgain ==
  ASSUME NEW a \in Bytes, NEW b \in Bytes, NEW c \in Bytes
  PROVE  Joined(a, Joined(b, c)) = Joined(Joined(a, b), c)
  BY ConcatAssociative, SMTT(20) DEF Joined, Bytes

LEMMA JoinedParts ==
  ASSUME NEW b \in Bytes, NEW i \in 1 .. Size(b)
  PROVE  Part(b, 1, i) \in Bytes /\ From(b, i + 1) \in Bytes
         /\ Joined(Part(b, 1, i), From(b, i + 1)) = b
<1> PICK n \in Nat, r \in 1 .. Size(b) + 1, o \in Nat : n = Size(b) /\ r = i + 1 /\ o = n - r + 1 /\ i + o = n
  BY SizeIs
<1>1. PICK u \in Bytes : u = Part(b, 1, i) /\ Size(u) = i /\ \A k \in 1 .. i : u[k] = b[k]
  <2>1. i \in 0 .. n
    OBVIOUS
  <2> QED  BY <2>1, FrontIs
<1>2. PICK v \in Bytes : v = From(b, r) /\ Size(v) = o /\ \A k \in 1 .. o : v[k] = b[r + k - 1]
  BY FromIs
<1>3. PICK all \in Bytes : /\ all = Joined(u, v) /\ Size(all) = i + o
                           /\ \A k \in 1 .. i + o : all[k] = IF k <= i THEN u[k] ELSE v[k - i]
  BY <1>1, <1>2, JoinedIs
<1>4. ASSUME NEW k \in 1 .. n PROVE all[k] = b[k]
  <2>1. CASE k <= i
    BY <1>1, <1>3, <2>1
  <2>2. CASE ~(k <= i)
    <3>1. k - i \in 1 .. o /\ r + (k - i) - 1 = k
      BY <2>2
    <3> QED  BY <1>2, <1>3, <2>2, <3>1
  <2> QED  BY <2>1, <2>2
<1>5. all = b
  BY <1>3, <1>4, SameBytes
<1> QED  BY <1>1, <1>2, <1>3, <1>5

LEMMA FromBehind ==
  ASSUME NEW b \in Bytes, NEW u \in Bytes, NEW m \in Nat, m = Size(b),
         NEW d \in 1 .. Size(u) + 1, NEW r, r = m + d
  PROVE  From(Joined(b, u), r) = From(u, d)
<1> PICK l \in Nat, t \in Nat, z \in Nat : l = Size(u) /\ t = m + l /\ z = l - d + 1
  BY SizeIs
<1>1. r \in 1 .. t + 1 /\ d \in 1 .. l + 1 /\ t - r + 1 = z /\ l - d + 1 = z
  OBVIOUS
<1>2. PICK all \in Bytes : /\ all = Joined(b, u) /\ Size(all) = t
                          /\ \A k \in 1 .. t : all[k] = IF k <= m THEN b[k] ELSE u[k - m]
  BY JoinedIs
<1>3. PICK v \in Bytes : v = From(u, d) /\ Size(v) = z /\ \A k \in 1 .. z : v[k] = u[d + k - 1]
  BY <1>1, FromIs
<1>4. PICK w \in Bytes : /\ w = From(all, r) /\ Size(w) = z
                        /\ \A k \in 1 .. z : w[k] = all[r + k - 1]
  <2> PICK i \in 1 .. t + 1 : i = r
    BY <1>1
  <2>1. Size(all) = t
    BY <1>2
  <2>2. /\ From(all, i) \in Bytes /\ Size(From(all, i)) = t - i + 1
        /\ \A k \in 1 .. t - i + 1 : From(all, i)[k] = all[i + k - 1]
    BY <2>1, FromIs, ZenonT(30)
  <2> QED  BY <1>1, <2>2
<1>5. ASSUME NEW k \in 1 .. z PROVE w[k] = v[k]
  <2>1. r + k - 1 \in 1 .. t /\ ~(r + k - 1 <= m) /\ (r + k - 1) - m = d + k - 1
    OBVIOUS
  <2> QED  BY <1>2, <1>3, <1>4, <2>1
<1>6. w = v
  BY <1>3, <1>4, <1>5, SameBytes
<1> QED  BY <1>2, <1>3, <1>4, <1>6

LEMMA AppendFrom ==
  ASSUME NEW b \in Bytes, NEW c \in Bytes
  PROVE  \E i \in 1 .. Size(Joined(b, c)) + 1 :
           /\ AppendBounded(b, c) = From(Joined(b, c), i)
           /\ i > 1 => Size(Joined(b, c)) = i + MaxBuffer - 1
<1> PICK all \in Bytes : all = b \o c /\ all = Joined(b, c)
  BY JoinedIs, SizeIs DEF Joined
<1> PICK n \in Nat, x \in Nat : n = Size(all) /\ x = MaxBuffer /\ x > 0
  BY SizeIs, BufferSize
<1>1. AppendBounded(b, c) = IF n > x THEN From(all, n - x + 1) ELSE all
  BY Zenon DEF AppendBounded, Size
<1>2. CASE ~(n > x)
  <2>1. 1 \in 1 .. n + 1 /\ From(all, 1) = all
    BY FromFirst
  <2> QED  BY <1>1, <1>2, <2>1
<1>3. CASE n > x
  <2> PICK i \in 1 .. n + 1 : i = n - x + 1
    BY <1>3
  <2> QED  BY <1>1, <1>3
<1> QED  BY <1>2, <1>3

Packets(n) == {{m} : m \in 1 .. n}

\* What the decoder makes of the first bytes of u.
Pushed(b, u, i) == Scan[AppendBounded(b, Part(u, 1, i))]

LEMMA ReadKeeps ==
  ASSUME NEW b \in Bytes, NEW u \in Bytes, NEW place, NEW bad, NEW n \in Nat, NEW found \in Finds,
         StreamOK(Joined(b, u), place, bad, n, found), Taken(found, Packets(n)),
         NEW i \in 1 .. Size(u)
  PROVE  /\ \E at : StreamOK(Joined(Pushed(b, u, i).rest, From(u, i + 1)), at, bad, n,
                             found \o Pushed(b, u, i).found)
         /\ Taken(found \o Pushed(b, u, i).found, Packets(n))
<1> PICK chunk, later, filled :
      chunk = Part(u, 1, i) /\ later = From(u, i + 1) /\ filled = AppendBounded(b, chunk)
  OBVIOUS
<1>22. Pushed(b, u, i) = Scan[filled]
  BY DEF Pushed
<1>1. chunk \in Bytes /\ later \in Bytes /\ Joined(chunk, later) = u
  BY JoinedParts
<1>2. PICK all \in Bytes : all = Joined(b, chunk)
  BY <1>1, JoinedIs, SizeIs
<1>3. Joined(all, later) = Joined(b, u) /\ Joined(all, later) \in Bytes
  BY <1>1, <1>2, JoinedAgain, JoinedIs, SizeIs
<1>4. PICK r \in 1 .. Size(all) + 1 : filled = From(all, r)
  BY <1>1, <1>2, AppendFrom
<1>5. PICK w \in Bytes : w = filled
  BY <1>4, FromIs, SizeIs
<1>6. PICK stream \in Bytes : stream = Joined(w, later)
  BY <1>1, JoinedIs, SizeIs
<1>7. PICK at : StreamOK(stream, at, bad, n, found)
  <2>1. From(Joined(all, later), r) = stream
    BY <1>1, <1>4, <1>5, <1>6, FromJoined
  <2>2. r \in 1 .. Size(Joined(all, later)) + 1
    <3> PICK x \in Nat, y \in Nat : x = Size(all) /\ y = Size(later)
      BY <1>1, SizeIs
    <3>1. Size(Joined(all, later)) = x + y
      BY <1>1, JoinedIs
    <3> QED  BY <3>1
  <2> QED  BY <1>3, <2>1, <2>2, StreamFrom
<1>8. Placed(stream, at, bad) /\ SentIn(stream, n) /\ AfterAll(stream, found)
  BY <1>7 DEF StreamOK
<1>9. Placed(w, at, bad)
  BY <1>1, <1>6, <1>8, PlacedFront
<1> PICK m \in Nat, l \in Nat : m = Size(w) /\ l = Size(later)
  BY <1>1, SizeIs
<1>10. Size(stream) = m + l /\ \A k \in 1 .. m : k \in 1 .. m + l /\ stream[k] = w[k]
  BY <1>1, <1>6, JoinedIs
<1>11. PICK last \in Decoded : last = Scan[filled]
  BY <1>5, ScanSolves
<1>12. PICK p \in 1 .. m + 1 : last.rest = From(w, p) /\ Taken(last.found, Ended(w, at, 1, p))
  <2>1. Whole(w, at, last)
    BY <1>5, <1>9, <1>11, ScanWhole
  <2> QED  BY <2>1 DEF Whole
<1>13. p \in 1 .. (m + l) + 1
  OBVIOUS
<1>14. Joined(last.rest, later) = From(stream, p)
  BY <1>1, <1>6, <1>12, FromJoined
<1>15. StreamOK(Joined(last.rest, later), Shifted(at, p), bad, n, found)
  BY <1>7, <1>10, <1>13, <1>14, StreamFrom
<1>16. PICK got \in Finds : got = last.found
  BY DEF Decoded
<1>17. ASSUME NEW k \in DOMAIN got
       PROVE  \E e \in 1 .. m : /\ e < p /\ at[e] = PacketSize /\ got[k] = {stream[e].of}
                                /\ e \in 1 .. m + l /\ stream[e].of \in 1 .. n
  <2>1. got[k] \in Ended(w, at, 1, p)
    BY <1>12, <1>16 DEF Taken
  <2> PICK e \in 1 .. m : e < p /\ at[e] = PacketSize /\ got[k] = {w[e].of}
    BY <2>1, EndedIs
  <2> QED  BY <1>8, <1>10 DEF SentIn
<1>18. Taken(got, Packets(n))
  <2>1. \A k \in DOMAIN got : got[k] \in Packets(n)
    BY <1>17 DEF Packets
  <2> QED  BY <1>12, <1>16, <2>1 DEF Taken
<1>19. Taken(found \o got, Packets(n))
  <2>1. ASSUME NEW j \in DOMAIN found, NEW k \in DOMAIN got, NEW x \in found[j], NEW y \in got[k]
        PROVE  x < y
    <3> PICK e \in 1 .. m + l : got[k] = {stream[e].of}
      BY <1>17
    <3>1. x < stream[e].of
      BY <1>8, <1>10 DEF AfterAll
    <3> QED  BY <3>1
  <2> QED  BY <1>18, <2>1, TakenConcat
<1>20. AfterAll(From(stream, p), got)
  <2> SUFFICES ASSUME NEW k \in DOMAIN got, NEW j \in 1 .. Size(From(stream, p)), NEW x \in got[k]
               PROVE  x < From(stream, p)[j].of
    BY DEF AfterAll
  <2>1. PICK e \in 1 .. m + l : e < p /\ at[e] = PacketSize /\ got[k] = {stream[e].of}
    BY <1>17
  <2> PICK z \in Nat : z = m + l
    OBVIOUS
  <2>4. Size(stream) = z /\ p \in 1 .. z + 1
    BY <1>10
  <2>5. PICK v \in Bytes : /\ v = From(stream, p) /\ Size(v) = z - p + 1
                          /\ \A d \in 1 .. z - p + 1 : v[d] = stream[p + d - 1]
    <3> PICK size \in Nat : size = z - p + 1
      BY <2>4
    <3>1. /\ From(stream, p) \in Bytes /\ Size(From(stream, p)) = size
          /\ \A d \in 1 .. size : From(stream, p)[d] = stream[p + d - 1]
      BY <2>4, FromIs
    <3> QED  BY <3>1
  <2> PICK t \in 1 .. z : t = p + j - 1 /\ From(stream, p)[j] = stream[t]
    <3>2. j \in 1 .. z - p + 1
      BY <2>5
    <3>3. p + j - 1 \in 1 .. z
      BY <3>2
    <3> QED  BY <2>5, <3>2, <3>3
  <2>2. e < t
    BY <2>1
  <2>3. stream[e].of < stream[t].of
    BY <1>8, <1>10, <2>1, <2>2, AfterEnd
  <2> QED  BY <2>1, <2>3
<1>21. StreamOK(From(stream, p), Shifted(at, p), bad, n, found \o got)
  <2>1. AfterAll(From(stream, p), found) /\ From(stream, p) \in Bytes
    <3>1. From(stream, p) \in Bytes
      <4> PICK z \in Nat : z = m + l
        OBVIOUS
      <4> QED  BY <1>10, <1>13, FromIs
    <3> QED  BY <1>14, <1>15, <3>1 DEF StreamOK
  <2>2. AfterAll(From(stream, p), found \o got)
    BY <1>20, <2>1, AfterConcat
  <2> QED  BY <1>14, <1>15, <2>2 DEF StreamOK
<1> QED  BY <1>11, <1>14, <1>16, <1>19, <1>21, <1>22

-----------------------------------------------------------------------------
(* The doors of one packet come from one packet.                           *)

\* The invariant: of what is buffered and on its way it is known which byte of
\* which packet it is, and it is all sent after what has been decoded.
StreamInv ==
  /\ DecoderTypeOK
  /\ \E place : StreamOK(Joined(buffer, line), place, spoilt, sent, accepted)
  /\ Taken(accepted, Packets(sent))

LEMMA StreamInit ==
  DecoderInit => StreamInv
<1> SUFFICES ASSUME DecoderInit PROVE StreamInv
  OBVIOUS
<1>1. DecoderTypeOK
  <2>1. <<>> \in Finds /\ Len(<<>>) = 0
    BY EmptySeq DEF Finds
  <2> QED  BY <2>1, EmptyBytes DEF DecoderInit, DecoderTypeOK
<1>2. PICK stream \in Bytes : stream = Joined(buffer, line) /\ Size(stream) = 0
  BY EmptyBytes, JoinedIs DEF DecoderInit
<1>3. \E place : StreamOK(stream, place, spoilt, sent, accepted)
  BY <1>2 DEF StreamOK, Placed, Complete, SentIn, AfterAll
<1>4. Taken(accepted, Packets(sent))
  BY DEF DecoderInit, Taken
<1> QED  BY <1>1, <1>2, <1>3, <1>4 DEF StreamInv

\* The packets the line may leave as they were sent.
Undamaged(n) == {Tagged(PacketOf(ids, voltage), n) : ids \in Orders, voltage \in Voltages}

\* What a packet is on the line.
OnLine(c, bad, n) ==
  /\ Size(c) > 0 /\ \E at : Arrives(c, at, bad, n)
  /\ n \notin bad => c \in Undamaged(n)

LEMMA SendIs ==
  ASSUME DecoderTypeOK, Send
  PROVE  \E c \in Bytes : /\ line' = Joined(line, c) /\ Damaged(spoilt, spoilt', sent + 1)
                          /\ OnLine(c, spoilt', sent + 1)
<1> PICK n \in Nat : n = sent + 1 /\ n = sent'
  BY DEF DecoderTypeOK, Send
<1> PICK u \in Bytes : u = line
  BY DEF DecoderTypeOK
<1> PICK old, new : old = spoilt /\ new = spoilt'
  OBVIOUS
<1> PICK ids \in Orders, voltage \in Voltages :
      LET bytes == Tagged(PacketOf(ids, voltage), n) IN
      \/ line' = line \o bytes /\ UNCHANGED <<spoilt, trouble>>
      \/ /\ trouble < MaxTrouble /\ trouble' = trouble + 1
         /\ spoilt' = spoilt \cup {n}
         /\ \E i \in 1 .. PacketSize :
              \/ line' = line \o RemoveAt(bytes, i)
              \/ \E noise \in {"x", Header[1]} :
                   line' = line \o [bytes EXCEPT ![i].is = noise]
  BY DEF Send
<1>1. PICK bytes \in Bytes : bytes = Tagged(PacketOf(ids, voltage), n) /\ Size(bytes) > 0
  <2>1. /\ Tagged(PacketOf(ids, voltage), n) \in Bytes
        /\ Size(Tagged(PacketOf(ids, voltage), n)) = PacketSize
    BY PacketIs
  <2> QED  BY <2>1, Sizes
<1>2. CASE line' = line \o bytes /\ UNCHANGED <<spoilt, trouble>>
  <2>1. \E at : Arrives(bytes, at, new, n)
    BY <1>1, PacketArrives
  <2>2. bytes \in Undamaged(n)
    BY <1>1 DEF Undamaged
  <2>3. OnLine(bytes, new, n)
    BY <1>1, <2>1, <2>2 DEF OnLine
  <2>4. line' = Joined(u, bytes) /\ Damaged(old, new, n)
    BY <1>2 DEF Joined, Damaged
  <2> QED  BY <2>3, <2>4
<1>3. ASSUME new = old \cup {n}, NEW i \in 1 .. PacketSize, line' = line \o RemoveAt(bytes, i)
      PROVE  \E c \in Bytes : line' = Joined(u, c) /\ Damaged(old, new, n) /\ OnLine(c, new, n)
  <2>1. n \in new
    BY <1>3
  <2>2. /\ RemoveAt(bytes, i) \in Bytes /\ Size(RemoveAt(bytes, i)) > 0
        /\ \E at : Arrives(RemoveAt(bytes, i), at, new, n)
    BY <1>1, <2>1, RemovedArrives
  <2>3. OnLine(RemoveAt(bytes, i), new, n)
    BY <2>1, <2>2 DEF OnLine
  <2>4. line' = Joined(u, RemoveAt(bytes, i)) /\ Damaged(old, new, n)
    BY <1>3 DEF Joined, Damaged
  <2> QED  BY <2>2, <2>3, <2>4
<1>4. ASSUME new = old \cup {n}, NEW i \in 1 .. PacketSize,
             NEW noise \in {"x", Header[1]}, line' = line \o [bytes EXCEPT ![i].is = noise]
      PROVE  \E c \in Bytes : line' = Joined(u, c) /\ Damaged(old, new, n) /\ OnLine(c, new, n)
  <2>1. n \in new
    BY <1>4
  <2>2. /\ Garbled(bytes, i, noise) \in Bytes /\ Size(Garbled(bytes, i, noise)) > 0
        /\ \E at : Arrives(Garbled(bytes, i, noise), at, new, n)
    BY <1>1, <2>1, NoisyArrives
  <2>3. OnLine(Garbled(bytes, i, noise), new, n)
    BY <2>1, <2>2 DEF OnLine
  <2>4. line' = Joined(u, Garbled(bytes, i, noise)) /\ Damaged(old, new, n)
    BY <1>4 DEF Joined, Garbled, Damaged
  <2> QED  BY <2>2, <2>3, <2>4
<1>5. \E c \in Bytes : line' = Joined(u, c) /\ Damaged(old, new, n) /\ OnLine(c, new, n)
  BY <1>1, <1>2, <1>3, <1>4
<1> QED  BY <1>5

LEMMA StreamSend ==
  ASSUME StreamInv, DecoderTypeOK', Send
  PROVE  StreamInv'
<1>1. DecoderTypeOK
  BY DEF StreamInv
<1> PICK n \in Nat : n = sent
  BY <1>1 DEF DecoderTypeOK
<1> PICK b \in Bytes, u \in Bytes : b = buffer /\ u = line
  BY <1>1 DEF DecoderTypeOK
<1> PICK old, new : old = spoilt /\ new = spoilt'
  OBVIOUS
<1>2. /\ n + 1 \in Nat /\ sent' = n + 1 /\ buffer' = b /\ accepted' = accepted
  BY DEF Send
<1>3. PICK c \in Bytes : /\ line' = Joined(u, c) /\ Damaged(old, new, n + 1)
                        /\ \E at : Arrives(c, at, new, n + 1)
  <2> PICK c \in Bytes : /\ line' = Joined(u, c) /\ Damaged(old, new, n + 1)
                         /\ OnLine(c, new, n + 1)
    BY <1>1, SendIs
  <2> QED  BY DEF OnLine
<1>4. PICK stream \in Bytes : stream = Joined(b, u)
  BY JoinedIs, SizeIs
<1>5. PICK place : StreamOK(stream, place, old, n, accepted)
  BY <1>4 DEF StreamInv
<1>6. SentBy(accepted, n)
  <2>1. Taken(accepted, Packets(n))
    BY DEF StreamInv
  <2> QED  BY <2>1 DEF Taken, Packets, SentBy
<1>7. \E way : StreamOK(Joined(stream, c), way, new, n + 1, accepted)
  <2> PICK at : Arrives(c, at, new, n + 1)
    BY <1>3
  <2>1. StreamOK(Joined(stream, c), Appended(place, Size(stream), at), new, n + 1, accepted)
    BY <1>2, <1>3, <1>5, <1>6, StreamJoined
  <2> QED  BY <2>1
<1>8. Joined(stream, c) = Joined(buffer', line')
  BY <1>2, <1>3, <1>4, JoinedAgain
<1>9. Taken(accepted', Packets(sent'))
  <2>1. Packets(n) \subseteq Packets(n + 1)
    BY DEF Packets
  <2>2. Taken(accepted, Packets(n))
    BY DEF StreamInv
  <2> QED  BY <1>2, <2>1, <2>2, TakenMore
<1> QED  BY <1>2, <1>7, <1>8, <1>9 DEF StreamInv

LEMMA StreamRead ==
  ASSUME StreamInv, DecoderTypeOK', ReadChunk
  PROVE  StreamInv'
<1>1. DecoderTypeOK
  BY DEF StreamInv
<1> PICK n \in Nat : n = sent
  BY <1>1 DEF DecoderTypeOK
<1> PICK bad : bad = spoilt
  OBVIOUS
<1> PICK b \in Bytes, u \in Bytes : b = buffer /\ u = line
  BY <1>1 DEF DecoderTypeOK
<1>2. PICK found \in Finds : found = accepted
  BY <1>1 DEF DecoderTypeOK
<1>3. PICK i \in 1 .. Size(u) :
        /\ line' = From(u, i + 1) /\ buffer' = Pushed(b, u, i).rest
        /\ accepted' = found \o Pushed(b, u, i).found
        /\ sent' = n /\ spoilt' = bad
  BY <1>2 DEF ReadChunk, Size, Part, Pushed
<1>4. PICK place : StreamOK(Joined(b, u), place, bad, n, found)
  BY <1>2 DEF StreamInv
<1>5. Taken(found, Packets(n))
  BY <1>2 DEF StreamInv
<1>6. /\ \E at : StreamOK(Joined(Pushed(b, u, i).rest, From(u, i + 1)), at, bad, n,
                          found \o Pushed(b, u, i).found)
      /\ Taken(found \o Pushed(b, u, i).found, Packets(n))
  BY <1>4, <1>5, ReadKeeps
<1> QED  BY <1>3, <1>6 DEF StreamInv

LEMMA StreamReconnect ==
  ASSUME StreamInv, DecoderTypeOK', Reconnect
  PROVE  StreamInv'
<1>1. DecoderTypeOK
  BY DEF StreamInv
<1> PICK n \in Nat : n = sent
  BY <1>1 DEF DecoderTypeOK
<1> PICK bad : bad = spoilt
  OBVIOUS
<1> PICK b \in Bytes, u \in Bytes : b = buffer /\ u = line
  BY <1>1 DEF DecoderTypeOK
<1> PICK m \in Nat, l \in Nat : m = Size(b) /\ l = Size(u)
  BY SizeIs
<1>2. PICK i \in 0 .. l :
        /\ line' = From(u, i + 1) /\ buffer' = <<>>
        /\ sent' = n /\ spoilt' = bad /\ accepted' = accepted
  BY DEF Reconnect, Size
<1>3. PICK stream \in Bytes : /\ stream = Joined(b, u) /\ Size(stream) = m + l
                              /\ \A k \in 1 .. m + l : stream[k] = IF k <= m THEN b[k] ELSE u[k - m]
  BY JoinedIs
<1>4. PICK place : StreamOK(stream, place, bad, n, accepted)
  BY <1>3 DEF StreamInv
<1> PICK r \in 1 .. (m + l) + 1, d \in 1 .. l + 1, z \in Nat :
      r = m + i + 1 /\ d = i + 1 /\ z = l - d + 1 /\ z = (m + l) - r + 1
  OBVIOUS
<1>5. PICK v \in Bytes : /\ v = From(u, d) /\ Size(v) = z
                         /\ \A k \in 1 .. z : v[k] = u[d + k - 1]
  BY FromIs
<1>6. From(stream, r) = v
  BY <1>3, <1>5, FromBehind
<1>7. Joined(buffer', line') = v
  BY <1>2, <1>5, ConcatEmptySeq DEF Joined, Bytes
<1>8. StreamOK(v, Shifted(place, r), bad, n, accepted)
  BY <1>3, <1>4, <1>6, StreamFrom
<1>9. Taken(accepted, Packets(n))
  BY DEF StreamInv
<1> QED  BY <1>2, <1>7, <1>8, <1>9 DEF StreamInv

LEMMA StreamStep ==
  ASSUME StreamInv, DecoderTypeOK', [DecoderNext]_vars
  PROVE  StreamInv'
<1>1. CASE Send
  BY <1>1, StreamSend
<1>2. CASE ReadChunk
  BY <1>2, StreamRead
<1>3. CASE Reconnect
  BY <1>3, StreamReconnect
<1>4. CASE UNCHANGED vars
  <2>1. UNCHANGED <<sent, line, buffer, accepted, spoilt>>
    BY <1>4 DEF vars
  <2> QED  BY <2>1 DEF StreamInv
<1> QED  BY <1>1, <1>2, <1>3, <1>4 DEF DecoderNext

\* Whatever the line loses or garbles, however the reads cut the stream and
\* whatever overflows: the doors of a packet the decoder accepts all come from
\* one packet of the controller, packets are accepted in the order they were
\* sent, and none twice (StreamDecoder::push, DoorProtocol::parse_packet).
THEOREM NothingInventedProved ==
  DecoderSpec => []NothingInvented
<1>1. DecoderInit => DecoderInv /\ StreamInv
  BY DecoderStarts, StreamInit
<1>2. DecoderInv /\ StreamInv /\ [DecoderNext]_vars => DecoderInv' /\ StreamInv'
  <2> SUFFICES ASSUME DecoderInv, StreamInv, [DecoderNext]_vars PROVE DecoderInv' /\ StreamInv'
    OBVIOUS
  <2>1. DecoderInv' /\ DecoderTypeOK'
    BY DecoderStep DEF DecoderInv
  <2> QED  BY <2>1, StreamStep
<1>3. StreamInv => NothingInvented
  <2> SUFFICES ASSUME StreamInv PROVE NothingInvented
    OBVIOUS
  <2>1. Taken(accepted, Packets(sent))
    BY DEF StreamInv
  <2> QED  BY <2>1 DEF Taken, Packets, NothingInvented
<1> QED  BY <1>1, <1>2, <1>3, PTL DEF DecoderSpec

-----------------------------------------------------------------------------
(* What damage costs.                                                      *)

\* Packet n begins at place a of the stream and is all there.
Intact(s, n, a) ==
  /\ a \in 1 .. Size(s) /\ a + PacketSize - 1 \in 1 .. Size(s)
  /\ \E bytes \in Undamaged(n) : \A k \in 1 .. PacketSize : s[a + k - 1] = bytes[k]

\* No packet is missing between two bytes of the stream.
Steady(s) ==
  \A j, k \in 1 .. Size(s) : k = j + 1 => s[k].of <= s[j].of + 1

LEMMA OriginsOf ==
  ASSUME NEW b \in Bytes, NEW x
  PROVE  x \in Origins(b) <=> \E i \in 1 .. Size(b) : x = b[i].of
<1>1. DOMAIN b = 1 .. Size(b)
  BY LenProperties DEF Bytes, Size
<1> QED  BY <1>1, Zenon DEF Origins

\* Every door is in a packet.
LEMMA OrdersCover ==
  ASSUME NEW ids \in Orders, NEW door \in Door
  PROVE  \E i \in 1 .. Cardinality(Door) : ids[i] = door
<1> PICK c \in Nat : c = Cardinality(Door)
  BY Sizes
<1>1. ids \in [1 .. c -> Door] /\ \A i, j \in 1 .. c : ids[i] = ids[j] => i = j
  BY DEF Orders, IsInjective
<1>2. ids \in Injection(1 .. c, Door)
  BY <1>1 DEF Injection, IsInjective
<1>3. IsFiniteSet(Door)
  BY DecoderAssumption
<1>4. Cardinality(1 .. c) = Cardinality(Door)
  <2>1. Cardinality(1 .. c) = c
    <3> PICK lo \in Int, hi \in Int : lo = 1 /\ hi = c
      OBVIOUS
    <3>1. Cardinality(lo .. hi) = IF lo > hi THEN 0 ELSE hi - lo + 1
      BY FS_Interval
    <3> QED  BY <3>1
  <2> QED  BY <2>1
<1>5. ids \in Surjection(1 .. c, Door)
  BY <1>2, <1>3, <1>4, FS_Injection
<1> QED  BY <1>5 DEF Surjection

\* An undamaged packet parses.
LEMMA UndamagedIs ==
  ASSUME NEW n \in Nat, NEW bytes \in Undamaged(n)
  PROVE  /\ bytes \in Bytes /\ Size(bytes) = PacketSize
         /\ \A k \in 1 .. PacketSize : bytes[k].of = n
         /\ \A k \in 1 .. HeaderSize : bytes[k].is = Header[k]
         /\ Parses(bytes)
<1> PICK ids \in Orders, voltage \in Voltages : bytes = Tagged(PacketOf(ids, voltage), n)
  BY DEF Undamaged
<1>1. bytes \in Bytes /\ Size(bytes) = PacketSize
  BY PacketIs
<1>2. /\ \A p \in 1 .. PacketSize : bytes[p].of = n
      /\ \A p \in 1 .. HeaderSize : bytes[p].is = Header[p]
      /\ \A i \in 1 .. Cardinality(Door), k \in 1 .. 4 :
           bytes[Place(i, k)].is = DoorRecord(ids[i], voltage)[k]
  BY PacketBytes
<1> PICK h \in Nat, c \in Nat : h = HeaderSize /\ c = Cardinality(Door) /\ h <= PacketSize
  BY Sizes
<1>3. HeaderAt(bytes, 1)
  <2>1. 1 + h - 1 <= Size(bytes) /\ \A k \in 1 .. h : bytes[1 + k - 1].is = Header[k]
    <3>1. PacketSize \in Nat
      BY Sizes
    <3>2. \A k \in 1 .. h : 1 + k - 1 = k
      OBVIOUS
    <3> QED  BY <1>1, <1>2, <3>1, <3>2
  <2> QED  BY <2>1, HeaderAtIs
<1>4. ASSUME NEW i \in 1 .. c
      PROVE  /\ Record(bytes, i)[1].is = ids[i]
             /\ Record(bytes, i)[2].is = "state" /\ Record(bytes, i)[4].is = ";"
  <2>1. ASSUME NEW k \in 1 .. 4
        PROVE  Record(bytes, i)[k].is = DoorRecord(ids[i], voltage)[k]
    <3>1. Record(bytes, i)[k] = bytes[HeaderSize + 4 * (i - 1) + k]
      BY <1>1, RecordIs
    <3>2. Record(bytes, i)[k] = bytes[Place(i, k)]
      BY <3>1 DEF Place
    <3> QED  BY <1>2, <3>2
  <2>2. 1 \in 1 .. 4 /\ 2 \in 1 .. 4 /\ 4 \in 1 .. 4
    OBVIOUS
  <2>3. /\ Record(bytes, i)[1].is = DoorRecord(ids[i], voltage)[1]
        /\ Record(bytes, i)[2].is = DoorRecord(ids[i], voltage)[2]
        /\ Record(bytes, i)[4].is = DoorRecord(ids[i], voltage)[4]
    BY <2>1, <2>2, Zenon
  <2> QED  BY <2>3 DEF DoorRecord
<1>5. \A r \in Range(Records(bytes)) : \E i \in 1 .. c : r = Record(bytes, i)
  BY DEF Records, Range
<1>6. \A i \in 1 .. c : Record(bytes, i) \in Range(Records(bytes))
  BY DEF Records, Range
<1>7. ASSUME NEW r \in Range(Records(bytes)) PROVE r[2].is = "state" /\ r[4].is = ";"
  <2> PICK i \in 1 .. c : r = Record(bytes, i)
    BY <1>5
  <2> QED  BY <1>4
<1>8. {r[1].is : r \in Range(Records(bytes))} = Door
  <2>1. ASSUME NEW r \in Range(Records(bytes)) PROVE r[1].is \in Door
    <3> PICK i \in 1 .. c : r = Record(bytes, i)
      BY <1>5
    <3>1. ids[i] \in Door
      BY DEF Orders
    <3> QED  BY <1>4, <3>1
  <2>2. ASSUME NEW door \in Door PROVE \E r \in Range(Records(bytes)) : r[1].is = door
    <3> PICK i \in 1 .. c : ids[i] = door
      BY OrdersCover
    <3> QED  BY <1>4, <1>6
  <2> QED  BY <2>1, <2>2
<1>9. Parses(bytes)
  BY <1>3, <1>7, <1>8, Zenon DEF Parses
<1> QED  BY <1>1, <1>2, <1>9

\* The bytes of an intact packet are in their places.
LEMMA IntactPlaces ==
  ASSUME NEW s \in Bytes, NEW place, NEW bad, Placed(s, place, bad), NEW n \in Nat, n \notin bad,
         NEW a, Intact(s, n, a)
  PROVE  \A k \in 1 .. PacketSize :
           a + k - 1 \in 1 .. Size(s) /\ s[a + k - 1].of = n /\ place[a + k - 1] = k
<1> PICK z \in Nat, t \in Nat : z = Size(s) /\ t = PacketSize /\ t > 1
  BY SizeIs, Sizes
<1>1. a \in 1 .. z /\ a + t - 1 \in 1 .. z
  BY DEF Intact
<1> PICK e \in 1 .. z : e = a + t - 1 /\ a < e
  BY <1>1
<1>2. ASSUME NEW k \in 1 .. t PROVE a + k - 1 \in 1 .. z /\ s[a + k - 1].of = n
  <2> PICK bytes \in Undamaged(n) : \A j \in 1 .. t : s[a + j - 1] = bytes[j]
    BY DEF Intact
  <2>1. bytes[k].of = n
    BY UndamagedIs
  <2> QED  BY <1>1, <2>1
<1>3. Lost(bad, n) = 0
  BY DEF Lost
<1>4. s[a].of = n /\ s[e].of = n
  <2>1. 1 \in 1 .. t /\ t \in 1 .. t /\ a + 1 - 1 = a
    BY <1>1
  <2> QED  BY <1>2, <2>1
<1>5. ASSUME NEW j \in 1 .. z, NEW k \in 1 .. z, j < k, s[j].of = n, s[k].of = n
      PROVE  place[k] = place[j] + (k - j) /\ place[j] \in 1 .. t /\ place[k] \in 1 .. t
  <2>1. Follows(n, place[j], n, place[k], k - j, bad) /\ place[j] \in 1 .. t /\ place[k] \in 1 .. t
    BY <1>5 DEF Placed
  <2> QED  BY <1>3, <2>1 DEF Follows
<1>6. place[a] = 1
  <2>1. place[e] = place[a] + (e - a) /\ place[a] \in 1 .. t /\ place[e] \in 1 .. t
    BY <1>1, <1>4, <1>5
  <2> QED  BY <1>1, <2>1
<1>7. ASSUME NEW k \in 1 .. t PROVE place[a + k - 1] = k
  <2> PICK j \in 1 .. z : j = a + k - 1
    BY <1>2
  <2>1. s[j].of = n
    BY <1>2
  <2>2. CASE k = 1
    BY <1>1, <1>6, <2>2
  <2>3. CASE k # 1
    <3>1. a < j /\ j - a = k - 1
      BY <1>1, <2>3
    <3>2. place[j] = place[a] + (j - a)
      BY <1>1, <1>4, <1>5, <2>1, <3>1
    <3> QED  BY <1>6, <3>1, <3>2
  <2> QED  BY <2>2, <2>3
<1> QED  BY <1>2, <1>7

\* A packet reaches the decoder undamaged, and so did the one before.
Reaches(s, place, bad, n, a) ==
  /\ Placed(s, place, bad) /\ Steady(s)
  /\ n \notin bad /\ n - 1 \notin bad /\ Intact(s, n, a)

\* Before an intact packet there is room for what begins with an earlier header,
\* damaged or not: if that packet lost a byte, another one lies between.
LEMMA RoomBefore ==
  ASSUME NEW s \in Bytes, NEW place, NEW bad, NEW n \in Nat, NEW a, Reaches(s, place, bad, n, a),
         NEW q \in 1 .. Size(s), q < a, place[q] = HeaderSize
  PROVE  q + PacketSize - HeaderSize < a
<1> PICK z \in Nat, h \in Nat, t \in Nat :
      z = Size(s) /\ h = HeaderSize /\ h > 2 /\ t = PacketSize /\ t > h
  BY SizeIs, Sizes
<1>1. Placed(s, place, bad) /\ Steady(s) /\ n \notin bad /\ n - 1 \notin bad /\ Intact(s, n, a)
  BY DEF Reaches
<1>2. a \in 1 .. z
  BY <1>1 DEF Intact
<1>3. s[a].of = n /\ place[a] = 1
  <2>1. 1 \in 1 .. t /\ a + 1 - 1 = a
    BY <1>2
  <2> QED  BY <1>1, <2>1, IntactPlaces
<1> PICK m \in Nat : m = s[q].of
  BY ByteAt DEF Byte
<1> PICK d \in Nat : d = a - q
  BY <1>2
<1>4. Lost(bad, n) = 0 /\ Lost(bad, m) \in {0, 1}
  BY <1>1, LostIs DEF Lost
<1>5. Follows(m, h, n, 1, d, bad)
  <2>1. Follows(s[q].of, place[q], s[a].of, place[a], a - q, bad)
    BY <1>1, <1>2 DEF Placed
  <2> QED  BY <1>3, <2>1
<1>6. m < n /\ 1 <= h + d + Lost(bad, m) - t
  BY <1>4, <1>5 DEF Follows
<1>7. CASE m \notin bad
  <2>1. Lost(bad, m) = 0
    BY <1>7 DEF Lost
  <2> QED  BY <1>2, <1>6, <2>1
<1>8. CASE m \in bad
  <2>1. m < n - 1
    <3>1. m # n - 1
      BY <1>1, <1>8
    <3> QED  BY <1>6, <3>1
  <2> DEFINE S == {j \in q .. a : s[j].of >= n - 1}
  <2>2. a \in S
    BY <1>2, <1>3
  <2>3. S \in SUBSET Nat
    OBVIOUS
  <2>4. PICK j \in S : \A k \in S : j <= k
    BY <2>2, <2>3, HasLeast
  <2>5. j \in q .. a /\ j # q
    BY <2>1, <2>4
  <2> PICK i \in 1 .. z, k \in 1 .. z : k = j /\ i = j - 1 /\ i \in q .. a /\ q < k
    BY <1>2, <2>5
  <2>6. s[i].of < n - 1
    <3>1. i \notin S
      BY <2>4
    <3>2. s[i].of \in Nat
      BY ByteAt DEF Byte
    <3> QED  BY <3>1, <3>2
  <2>7. s[k].of = n - 1
    <3>1. s[k].of <= s[i].of + 1
      BY <1>1 DEF Steady
    <3>2. s[k].of >= n - 1
      BY <2>4
    <3>3. s[i].of \in Nat /\ s[k].of \in Nat
      BY ByteAt DEF Byte
    <3> QED  BY <2>6, <3>1, <3>2, <3>3
  <2> HIDE DEF S
  <2>8. k < a
    <3>1. k # a
      BY <1>3, <2>7
    <3> QED  BY <1>2, <2>5, <3>1
  <2> PICK p \in 1 .. t : p = place[k]
    BY <1>1 DEF Placed
  <2> PICK e \in Nat, f \in Nat, l \in Nat : e = k - q /\ f = a - k /\ l = n - 1
    BY <1>2, <2>1, <2>8
  <2>9. Lost(bad, l) = 0
    BY <1>1 DEF Lost
  <2>10. Follows(m, h, l, p, e, bad)
    <3>1. Follows(s[q].of, place[q], s[k].of, place[k], k - q, bad)
      BY <1>1 DEF Placed
    <3> QED  BY <2>7, <3>1
  <2>11. Follows(l, p, n, 1, f, bad)
    <3>1. Follows(s[k].of, place[k], s[a].of, place[a], a - k, bad)
      BY <1>1, <1>2, <2>8 DEF Placed
    <3> QED  BY <1>3, <2>7, <3>1
  <2>12. p <= e
    BY <2>1, <2>9, <2>10 DEF Follows
  <2>13. 1 <= p + f - t
    BY <1>4, <2>9, <2>11 DEF Follows
  <2> QED  BY <1>2, <2>12, <2>13
<1> QED  BY <1>7, <1>8

\* Where the headers are in what was read of a stream.
LEMMA HeadersOnTheWay ==
  ASSUME NEW u \in Bytes, NEW c \in Bytes, NEW place, NEW bad, NEW n \in Nat, NEW a,
         Reaches(Joined(u, c), place, bad, n, a)
  PROVE  /\ a + HeaderSize - 1 <= Size(u) => a \in Headers(u)
         /\ \A f \in Headers(u) : f < a => f + PacketSize - 1 < a
         /\ \A f \in Headers(u) : ~(a < f /\ f + HeaderSize <= a + PacketSize)
<1> PICK s \in Bytes : s = Joined(u, c)
  BY JoinedIs, SizeIs
<1> PICK m \in Nat, l \in Nat : m = Size(u) /\ l = Size(c)
  BY SizeIs
<1> PICK z \in Nat : z = m + l
  OBVIOUS
<1> PICK h \in Nat, t \in Nat : h = HeaderSize /\ h > 2 /\ t = PacketSize /\ t > h
  BY Sizes
<1>1. Size(s) = z /\ \A k \in 1 .. m : k \in 1 .. z /\ s[k] = u[k]
  BY JoinedIs
<1>2. Placed(s, place, bad) /\ n \notin bad /\ Intact(s, n, a)
  BY DEF Reaches
<1>3. Placed(u, place, bad)
  BY <1>2, PlacedFront
<1>4. a \in 1 .. z /\ a + t - 1 \in 1 .. z
  BY <1>1, <1>2 DEF Intact
<1>5. \A k \in 1 .. t : s[a + k - 1].of = n /\ place[a + k - 1] = k
  BY <1>2, IntactPlaces
<1>6. ASSUME a + h - 1 <= m PROVE a \in Headers(u)
  <2> PICK bytes \in Undamaged(n) : \A k \in 1 .. t : s[a + k - 1] = bytes[k]
    BY <1>2 DEF Intact
  <2>1. \A k \in 1 .. h : bytes[k].is = Header[k]
    BY UndamagedIs
  <2>2. ASSUME NEW k \in 1 .. h PROVE u[a + k - 1].is = Header[k]
    <3>1. k \in 1 .. t /\ a + k - 1 \in 1 .. m
      BY <1>4, <1>6
    <3> QED  BY <1>1, <2>1, <3>1
  <2>3. HeaderAt(u, a)
    BY <1>6, <2>2, HeaderAtIs
  <2> QED  BY <1>4, <2>3, HeadersAre
<1>7. ASSUME NEW f \in Headers(u)
      PROVE  \E q \in 1 .. z : q = f + h - 1 /\ q \in 1 .. m /\ place[q] = h /\ f \in 1 .. m
  <2>1. f + h - 1 \in 1 .. m /\ place[f + h - 1] = h
    BY <1>3, HeaderPlace
  <2>2. f \in 1 .. m
    BY HeadersAre
  <2> QED  BY <2>1, <2>2
<1>8. ASSUME NEW f \in Headers(u), a <= f, f + h <= a + t PROVE f = a
  <2> PICK q \in 1 .. z : q = f + h - 1 /\ place[q] = h /\ f \in 1 .. m
    BY <1>7
  <2> PICK k \in 1 .. t : k = q - a + 1 /\ a + k - 1 = q
    BY <1>4, <1>8
  <2>1. k = h
    BY <1>5
  <2> QED  BY <1>4, <2>1
<1>9. ASSUME NEW f \in Headers(u), f < a PROVE f + t - 1 < a
  <2> PICK q \in 1 .. z : q = f + h - 1 /\ place[q] = h /\ f \in 1 .. m
    BY <1>7
  <2>1. q < a
    <3> SUFFICES ASSUME q >= a PROVE FALSE
      BY <1>4
    <3> PICK k \in 1 .. t : k = q - a + 1 /\ a + k - 1 = q
      BY <1>4, <1>9
    <3>1. k = h
      BY <1>5
    <3> QED  BY <1>4, <1>9, <3>1
  <2>2. q + PacketSize - HeaderSize < a
    BY <1>1, <2>1, RoomBefore
  <2> QED  BY <1>4, <2>2
<1>10. ASSUME NEW f \in Headers(u) PROVE ~(a < f /\ f + h <= a + t)
  <2>1. f \in Nat
    BY HeadersAre
  <2> QED  BY <1>4, <1>8, <2>1
<1> QED  BY <1>6, <1>9, <1>10

\* A part of a stream that begins before an intact packet.
LEMMA IntactFrom ==
  ASSUME NEW s \in Bytes, NEW n, NEW a, Intact(s, n, a), NEW r, r \in 1 .. a
  PROVE  Intact(From(s, r), n, a - r + 1)
<1> PICK z \in Nat, t \in Nat : z = Size(s) /\ t = PacketSize /\ t > 1
  BY SizeIs, Sizes
<1>1. a \in 1 .. z /\ a + t - 1 \in 1 .. z
  BY DEF Intact
<1> PICK bytes \in Undamaged(n) : \A k \in 1 .. t : s[a + k - 1] = bytes[k]
  BY DEF Intact
<1> PICK i \in 1 .. z + 1, l \in Nat, d \in Nat :
      i = r /\ l = z - i + 1 /\ d = a - i + 1 /\ d \in 1 .. l /\ d + t - 1 \in 1 .. l
  BY <1>1
<1>2. PICK v \in Bytes : v = From(s, i) /\ Size(v) = l /\ \A k \in 1 .. l : v[k] = s[i + k - 1]
  BY FromIs
<1>3. ASSUME NEW k \in 1 .. t PROVE v[d + k - 1] = bytes[k]
  <2>1. d + k - 1 \in 1 .. l /\ i + (d + k - 1) - 1 = a + k - 1
    BY <1>1
  <2> QED  BY <1>2, <2>1
<1>4. Intact(v, n, d)
  BY <1>2, <1>3 DEF Intact
<1> QED  BY <1>2, <1>4

LEMMA SteadyFrom ==
  ASSUME NEW s \in Bytes, Steady(s), NEW r \in 1 .. Size(s) + 1
  PROVE  Steady(From(s, r))
<1> PICK z \in Nat : z = Size(s)
  BY SizeIs
<1> PICK l \in Nat : l = z - r + 1
  OBVIOUS
<1>1. PICK v \in Bytes : v = From(s, r) /\ Size(v) = l /\ \A k \in 1 .. l : v[k] = s[r + k - 1]
  BY FromIs
<1>2. ASSUME NEW j \in 1 .. l, NEW k \in 1 .. l, k = j + 1 PROVE v[k].of <= v[j].of + 1
  <2> PICK i \in 1 .. z, e \in 1 .. z : i = r + j - 1 /\ e = r + k - 1 /\ e = i + 1
    BY <1>2
  <2>1. s[e].of <= s[i].of + 1
    BY DEF Steady
  <2> QED  BY <1>1, <2>1
<1> QED  BY <1>1, <1>2 DEF Steady

LEMMA ReachesFrom ==
  ASSUME NEW s \in Bytes, NEW place, NEW bad, NEW n \in Nat, NEW a,
         Reaches(s, place, bad, n, a), NEW r, r \in 1 .. a
  PROVE  Reaches(From(s, r), Shifted(place, r), bad, n, a - r + 1)
<1>1. r \in 1 .. Size(s) + 1
  <2> PICK z \in Nat : z = Size(s)
    BY SizeIs
  <2>1. a \in 1 .. z
    BY DEF Reaches, Intact
  <2> QED  BY <2>1
<1>2. Placed(From(s, r), Shifted(place, r), bad)
  BY <1>1, PlacedFrom DEF Reaches
<1>3. Steady(From(s, r))
  BY <1>1, SteadyFrom DEF Reaches
<1>4. Intact(From(s, r), n, a - r + 1)
  BY IntactFrom DEF Reaches
<1> QED  BY <1>2, <1>3, <1>4 DEF Reaches

\* The packet is decoded, or it stays in the stream and is not all read.
Has(found, n) == \E k \in DOMAIN found : found[k] = {n}
Waits(u, n, a, last) ==
  \E p \in 1 .. Size(u) + 1 :
    last.rest = From(u, p) /\ p <= a /\ a + PacketSize - 1 > Size(u)

\* Where the loop ends it leaves the packet.
LEMMA StopsBefore ==
  ASSUME NEW u \in Bytes, NEW c \in Bytes, NEW place, NEW bad, NEW n \in Nat, NEW a,
         Reaches(Joined(u, c), place, bad, n, a), Stops(u)
  PROVE  \E p \in 1 .. Size(u) + 1 :
           Kept(u) = From(u, p) /\ p <= a /\ a + PacketSize - 1 > Size(u)
<1> PICK m \in Nat : m = Size(u)
  BY SizeIs
<1> PICK h \in Nat, t \in Nat : h = HeaderSize /\ h > 2 /\ t = PacketSize /\ t > h
  BY Sizes
<1>1. a \in Nat /\ a >= 1
  <2> PICK z \in Nat : z = Size(Joined(u, c))
    BY JoinedIs, SizeIs
  <2>1. a \in 1 .. z
    BY DEF Reaches, Intact
  <2> QED  BY <2>1
<1>2. a + h - 1 <= m => a \in Headers(u)
  BY HeadersOnTheWay
<1>3. CASE Headers(u) = {}
  <2>1. a + h - 1 > m
    BY <1>1, <1>2, <1>3
  <2> PICK p \in 1 .. m + 1 : HeaderTail(u) = From(u, p) /\ p = IF m < h THEN 1 ELSE m - h + 2
    BY HeaderTailIs
  <2>2. p <= a /\ a + t - 1 > m
    BY <1>1, <2>1
  <2> QED  BY <1>3, <2>2 DEF Kept
<1>4. CASE Headers(u) # {}
  <2>1. Headers(u) \in SUBSET Nat /\ Headers(u) \in SUBSET (1 .. m)
    BY HeadersAre
  <2> PICK f \in Headers(u) : f = First(Headers(u)) /\ \A y \in Headers(u) : f <= y
    BY <1>4, <2>1, FirstPlace
  <2>2. f \in 1 .. m + 1 /\ f \in Nat
    BY <2>1
  <2>3. Kept(u) = From(u, f)
    BY <1>4 DEF Kept, Here
  <2>4. m - f + 1 < t
    <3>1. Size(Here(u)) < PacketSize
      BY <1>4 DEF Stops
    <3>2. Size(From(u, f)) = m - f + 1
      BY <2>2, FromIs
    <3> QED  BY <3>1, <3>2 DEF Here
  <2>5. f <= a
    <3>1. CASE a + h - 1 <= m
      BY <1>2, <3>1
    <3>2. CASE a + h - 1 > m
      <4>1. f + h - 1 <= m
        <5>1. HeaderAt(u, f)
          BY <2>1, <2>2, HeadersAre
        <5> QED  BY <5>1, HeaderAtIs
      <4> QED  BY <1>1, <2>2, <3>2, <4>1
    <3> QED  BY <1>1, <3>1, <3>2
  <2>6. a + t - 1 > m
    BY <1>1, <2>2, <2>4, <2>5
  <2> QED  BY <2>2, <2>3, <2>5, <2>6
<1> QED  BY <1>3, <1>4

\* A turn decodes the packet, or leaves it.
LEMMA TurnFinds ==
  ASSUME NEW u \in Bytes, NEW c \in Bytes, NEW place, NEW bad, NEW n \in Nat, NEW a,
         Reaches(Joined(u, c), place, bad, n, a), ~Stops(u)
  PROVE  \/ Got(u) = <<{n}>>
         \/ \E r \in 1 .. Size(u) + 1 : Rest(u) = From(u, r) /\ r <= a
<1> PICK s \in Bytes : s = Joined(u, c)
  BY JoinedIs, SizeIs
<1> PICK m \in Nat, l \in Nat : m = Size(u) /\ l = Size(c)
  BY SizeIs
<1> PICK z \in Nat : z = m + l
  OBVIOUS
<1> PICK h \in Nat, t \in Nat : h = HeaderSize /\ h > 2 /\ t = PacketSize /\ t > h
  BY Sizes
<1>1. Size(s) = z /\ \A k \in 1 .. m : k \in 1 .. z /\ s[k] = u[k]
  BY JoinedIs
<1>2. Placed(s, place, bad) /\ Placed(u, place, bad) /\ n \notin bad /\ Intact(s, n, a)
  BY PlacedFront DEF Reaches
<1>3. a \in 1 .. z /\ a + t - 1 \in 1 .. z
  BY <1>1, <1>2 DEF Intact
<1>4. Headers(u) \in SUBSET Nat /\ Headers(u) \in SUBSET (1 .. m) /\ Headers(u) # {}
  BY HeadersAre DEF Stops
<1> PICK f \in Headers(u) : f = First(Headers(u)) /\ \A y \in Headers(u) : f <= y
  BY <1>4, FirstPlace
<1>5. f \in 1 .. m /\ f \in 1 .. m + 1
  BY <1>4
<1> PICK w \in Nat : w = m - f + 1
  BY <1>5
<1>6. PICK here \in Bytes : /\ here = Here(u) /\ here = From(u, f) /\ Size(here) = w
                            /\ \A k \in 1 .. w : here[k] = u[f + k - 1]
  <2> PICK i \in 1 .. m + 1 : i = f
    BY <1>5
  <2>1. /\ From(u, i) \in Bytes /\ Size(From(u, i)) = m - i + 1
        /\ \A k \in 1 .. m - i + 1 : From(u, i)[k] = u[i + k - 1]
    <3>1. Size(u) = m
      OBVIOUS
    <3> QED  BY <3>1, FromIs, ZenonT(60)
  <2>2. Here(u) = From(u, f)
    BY DEF Here
  <2> QED  BY <2>1, <2>2
<1>7. w >= t /\ f + t - 1 <= m
  BY <1>5, <1>6 DEF Stops
<1>8. PICK packet \in Bytes : packet = Candidate(u) /\ Size(packet) = t
                              /\ \A k \in 1 .. t : packet[k] = u[f + k - 1]
  <2>1. t \in 0 .. w
    BY <1>7
  <2>2. /\ Part(here, 1, t) \in Bytes /\ Size(Part(here, 1, t)) = t
        /\ \A k \in 1 .. t : Part(here, 1, t)[k] = here[k]
    BY <1>6, <2>1, FrontIs
  <2>3. \A k \in 1 .. t : k \in 1 .. w
    BY <1>7
  <2> QED  BY <1>6, <2>2, <2>3 DEF Candidate
<1>9. f <= a
  <2>1. CASE a + h - 1 <= m
    <3>1. a \in Headers(u)
      BY <2>1, HeadersOnTheWay
    <3> QED  BY <3>1
  <2>2. CASE a + h - 1 > m
    BY <1>3, <1>5, <1>7, <2>2
  <2> QED  BY <1>3, <2>1, <2>2
<1>10. ASSUME NEW i \in Within(u)
       PROVE  i \in 1 .. t /\ i > 1 /\ i + h - 1 <= t /\ f + i - 1 \in Headers(u)
  <2>1. i \in Headers(packet) /\ i # 1
    BY <1>8 DEF Within
  <2>2. i \in 1 .. t /\ i >= 1
    BY <1>8, <2>1, HeadersAre
  <2>3. HeaderAt(packet, i)
    BY <2>1, <2>2, HeadersAre
  <2>4. i + h - 1 <= t /\ \A k \in 1 .. h : packet[i + k - 1].is = Header[k]
    BY <1>8, <2>3, HeaderAtIs
  <2> PICK g \in Nat : g = f + i - 1 /\ g >= 1
    BY <1>5, <2>2
  <2>5. ASSUME NEW k \in 1 .. h PROVE u[g + k - 1].is = Header[k]
    <3>1. i + k - 1 \in 1 .. t /\ f + (i + k - 1) - 1 = g + k - 1
      BY <1>5, <2>2, <2>4
    <3> QED  BY <1>8, <2>4, <3>1
  <2>6. g + h - 1 <= m
    BY <1>5, <1>7, <2>2, <2>4
  <2>7. HeaderAt(u, g)
    BY <2>5, <2>6, HeaderAtIs
  <2> QED  BY <2>1, <2>2, <2>4, <2>7, HeadersAre
<1>11. CASE f < a
  <2>1. f + t - 1 < a
    BY <1>11, HeadersOnTheWay
  <2>2. ASSUME NEW i \in 1 .. w + 1, Rest(u) = From(here, i), f + i - 1 <= a
        PROVE  \E r \in 1 .. m + 1 : Rest(u) = From(u, r) /\ r <= a
    <3>1. i \in 1 .. m - f + 2
      BY <1>5
    <3>2. From(here, i) = From(u, f + i - 1)
      BY <1>5, <1>6, <3>1, FromFrom
    <3>3. f + i - 1 \in 1 .. m + 1
      BY <1>5
    <3> QED  BY <2>2, <3>2, <3>3
  <2>3. CASE Within(u) = {}
    <3> PICK i \in 1 .. w + 1 : i = t + 1
      BY <1>7
    <3>1. Rest(u) = From(here, i)
      BY <1>6, <2>3 DEF Rest
    <3>2. f + i - 1 <= a
      BY <1>3, <1>5, <2>1
    <3> QED  BY <2>2, <3>1, <3>2
  <2>4. CASE Within(u) # {}
    <3>1. Within(u) \in SUBSET Nat
      BY <1>10
    <3> PICK i \in Within(u) : i = First(Within(u))
      BY <2>4, <3>1, FirstPlace
    <3>2. i \in 1 .. t /\ i \in 1 .. w + 1
      BY <1>7, <1>10
    <3>3. Rest(u) = From(here, i)
      BY <1>6, <2>4 DEF Rest
    <3>4. f + i - 1 <= a
      BY <1>3, <1>5, <2>1, <3>2
    <3> QED  BY <2>2, <3>2, <3>3, <3>4
  <2> QED  BY <2>3, <2>4
<1>12. CASE f = a
  <2> PICK bytes \in Undamaged(n) : \A k \in 1 .. t : s[a + k - 1] = bytes[k]
    BY <1>2 DEF Intact
  <2>1. bytes \in Bytes /\ Size(bytes) = t /\ Parses(bytes)
    BY UndamagedIs
  <2>2. \A k \in 1 .. t : packet[k] = bytes[k]
    <3>1. \A k \in 1 .. t : f + k - 1 \in 1 .. m
      BY <1>5, <1>7
    <3> QED  BY <1>1, <1>8, <1>12, <3>1
  <2>3. packet = bytes
    BY <1>8, <2>1, <2>2, SameBytes
  <2>4. Within(u) = {}
    <3> SUFFICES ASSUME NEW i \in Within(u) PROVE FALSE
      OBVIOUS
    <3> PICK g \in Headers(u) : g = f + i - 1
      BY <1>10
    <3>1. a < g /\ g + h <= a + t
      BY <1>3, <1>10, <1>12
    <3> QED  BY <3>1, HeadersOnTheWay
  <2>5. PICK e \in 1 .. m : place[e] = t /\ Rest(u) = From(u, e + 1) /\ Got(u) = <<{u[e].of}>>
    <3>1. Placed(u, place, bad) /\ Parses(Candidate(u))
      BY <1>2, <1>8, <2>1, <2>3
    <3>2. \E e \in 1 .. Size(u) :
            place[e] = PacketSize /\ Rest(u) = From(u, e + 1) /\ Got(u) = <<{u[e].of}>>
      BY <2>4, <3>1, CandidateWhole
    <3> QED  BY <3>2
  <2>6. e = f + t - 1
    <3> PICK i \in 1 .. w + 1 : i = t + 1
      BY <1>7
    <3>1. Rest(u) = From(here, i)
      BY <1>6, <2>4 DEF Rest
    <3>2. Size(From(here, i)) = w - i + 1
      BY <1>6, FromIs
    <3> PICK j \in 1 .. m + 1 : j = e + 1
      OBVIOUS
    <3>3. Size(From(u, j)) = m - j + 1
      BY FromIs
    <3> QED  BY <1>5, <2>5, <3>1, <3>2, <3>3
  <2>7. u[e].of = n
    <3>1. t \in 1 .. t /\ e = a + t - 1
      BY <1>12, <2>6
    <3>2. s[a + t - 1].of = n
      BY <1>2, <3>1, IntactPlaces
    <3> QED  BY <1>1, <3>1, <3>2
  <2> QED  BY <2>5, <2>7
<1> QED  BY <1>3, <1>5, <1>9, <1>11, <1>12

LEMMA HasConcat ==
  ASSUME NEW got \in Finds, NEW found \in Finds, NEW n, Has(got, n) \/ Has(found, n)
  PROVE  Has(got \o found, n)
<1>1. PICK m \in Nat, l \in Nat :
        /\ DOMAIN got = 1 .. m /\ DOMAIN found = 1 .. l /\ DOMAIN (got \o found) = 1 .. m + l
        /\ \A k \in 1 .. m + l : (got \o found)[k] = IF k <= m THEN got[k] ELSE found[k - m]
  BY ConcatFinds
<1>2. PICK all : all = got \o found
  OBVIOUS
<1>3. CASE Has(got, n)
  <2> PICK k \in 1 .. m : got[k] = {n}
    BY <1>1, <1>3 DEF Has
  <2>1. k \in 1 .. m + l /\ k <= m
    OBVIOUS
  <2>2. k \in DOMAIN all /\ all[k] = {n}
    BY <1>1, <1>2, <2>1
  <2> QED  BY <1>2, <2>2 DEF Has
<1>4. CASE Has(found, n)
  <2> PICK k \in 1 .. l : found[k] = {n}
    BY <1>1, <1>4 DEF Has
  <2> PICK j \in 1 .. m + l : j = m + k /\ ~(j <= m) /\ j - m = k
    OBVIOUS
  <2>1. j \in DOMAIN all /\ all[j] = {n}
    BY <1>1, <1>2
  <2> QED  BY <1>2, <2>1 DEF Has
<1> QED  BY <1>3, <1>4

\* An intact packet that reaches the loop is decoded or left, not all read.
LEMMA ScanFinds ==
  ASSUME NEW bad, NEW c \in Bytes, NEW n \in Nat, NEW b \in Bytes, NEW place, NEW a,
         Reaches(Joined(b, c), place, bad, n, a)
  PROVE  Has(Scan[b].found, n) \/ Waits(b, n, a, Scan[b])
<1> DEFINE Is(u) == \A at, e : Reaches(Joined(u, c), at, bad, n, e) =>
                      Has(Scan[u].found, n) \/ Waits(u, n, e, Scan[u])
           G == {u \in Bytes : Is(u)}
<1>1. ASSUME NEW u \in Bytes, \A v \in Bytes : Size(v) < Size(u) => v \in G
      PROVE  Is(u)
  <2> SUFFICES ASSUME NEW at, NEW e, Reaches(Joined(u, c), at, bad, n, e)
               PROVE  Has(Scan[u].found, n) \/ Waits(u, n, e, Scan[u])
    OBVIOUS
  <2> PICK m \in Nat, t \in Nat : m = Size(u) /\ t = PacketSize
    BY SizeIs, Sizes
  <2>1. \A v \in Bytes : Size(v) < m => \A to, y : Reaches(Joined(v, c), to, bad, n, y) =>
                                           Has(Scan[v].found, n) \/ Waits(v, n, y, Scan[v])
    BY <1>1
  <2> HIDE DEF G, Is
  <2>2. Scan[u] = Go(Scan, u)
    BY ScanSolves
  <2>3. CASE Stops(u)
    <3>1. Scan[u].rest = Kept(u)
      BY <2>2, <2>3 DEF Go
    <3>2. \E p \in 1 .. Size(u) + 1 : Kept(u) = From(u, p) /\ p <= e /\ e + PacketSize - 1 > Size(u)
      BY <2>3, StopsBefore
    <3> QED  BY <3>1, <3>2 DEF Waits
  <2>4. CASE ~Stops(u)
    <3>1. PICK v \in Bytes : v = Rest(u) /\ Size(v) < m
      BY <2>4, TurnIs
    <3>2. PICK last \in Decoded : last = Scan[v]
      BY ScanSolves
    <3>3. PICK got \in Finds : got = Got(u)
      BY <2>4, TurnIs
    <3>4. PICK found \in Finds : found = last.found
      BY DEF Decoded
    <3>5. Scan[u].rest = last.rest /\ Scan[u].found = got \o found
      <4>1. Scan[u] = Onto(Got(u), last)
        BY <2>2, <2>4, <3>1, <3>2, Zenon DEF Go
      <4> QED  BY <3>3, <3>4, <4>1 DEF Onto
    <3>6. CASE Got(u) = <<{n}>>
      <4>1. Has(<<{n}>>, n)
        <5>1. 1 \in DOMAIN <<{n}>> /\ <<{n}>>[1] = {n}
          OBVIOUS
        <5> QED  BY <5>1 DEF Has
      <4>2. Has(got, n)
        BY <3>3, <3>6, <4>1
      <4> QED  BY <3>5, <4>2, HasConcat
    <3>7. ASSUME NEW r \in 1 .. m + 1, v = From(u, r), r <= e
          PROVE  Has(Scan[u].found, n) \/ Waits(u, n, e, Scan[u])
      <4>1. e \in Nat
        <5> PICK z \in Nat : z = Size(Joined(u, c))
          BY JoinedIs, SizeIs
        <5>1. e \in 1 .. z
          BY DEF Reaches, Intact
        <5> QED  BY <5>1
      <4>2. PICK y \in Nat : y = e - r + 1
        BY <3>7, <4>1
      <4>3. Reaches(Joined(v, c), Shifted(at, r), bad, n, y)
        <5>1. From(Joined(u, c), r) = Joined(v, c)
          BY <3>7, FromJoined
        <5>2. r \in 1 .. e /\ Joined(u, c) \in Bytes
          BY <3>7, <4>1, JoinedIs, SizeIs
        <5>3. Reaches(From(Joined(u, c), r), Shifted(at, r), bad, n, e - r + 1)
          BY <5>2, ReachesFrom
        <5> QED  BY <4>2, <5>1, <5>3
      <4>4. Has(found, n) \/ Waits(v, n, y, last)
        BY <2>1, <3>1, <3>2, <3>4, <4>3
      <4>5. CASE Has(found, n)
        BY <3>5, <4>5, HasConcat
      <4>6. CASE Waits(v, n, y, last)
        <5>1. Size(v) = m - r + 1
          BY <3>7, FromIs
        <5>2. PICK p \in 1 .. m - r + 2 : last.rest = From(v, p) /\ p <= y /\ y + t - 1 > m - r + 1
          BY <4>6, <5>1 DEF Waits
        <5> PICK q \in 1 .. m + 1 : q = r + p - 1
          OBVIOUS
        <5>3. From(v, p) = From(u, q)
          BY <3>7, FromFrom
        <5>4. q <= e /\ e + t - 1 > m
          BY <4>1, <4>2, <5>2
        <5> QED  BY <3>5, <5>2, <5>3, <5>4 DEF Waits
      <4> QED  BY <4>4, <4>5, <4>6
    <3>8. Got(u) = <<{n}>> \/ \E r \in 1 .. m + 1 : v = From(u, r) /\ r <= e
      BY <2>4, <3>1, TurnFinds
    <3> QED  BY <3>6, <3>7, <3>8
  <2> QED  BY <2>3, <2>4
<1>2. G = Bytes
  <2>1. G \in SUBSET Bytes
    OBVIOUS
  <2>2. \A u \in Bytes : (\A v \in Bytes : Size(v) < Size(u) => v \in G) => u \in G
    BY <1>1
  <2> HIDE DEF G
  <2> QED  BY <2>1, <2>2, SizeInduction
<1>3. Is(b)
  BY <1>2
<1> QED  BY <1>3

\* The stream ends with the packet sent last.
Latest(s, n) == \A j \in 1 .. Size(s) : j = Size(s) => s[j].of = n

\* The packet is decoded, or all in the stream and not all read.
Pending(s, size, n, found) ==
  Has(found, n) \/ \E a : Intact(s, n, a) /\ a + PacketSize - 1 > size

LEMMA IntactEnds ==
  ASSUME NEW s, NEW n \in Nat, NEW a, Intact(s, n, a)
  PROVE  s[a].of = n /\ s[a + PacketSize - 1].of = n
<1> PICK t \in Nat : t = PacketSize /\ t > 1
  BY Sizes
<1> PICK bytes \in Undamaged(n) : \A k \in 1 .. t : s[a + k - 1] = bytes[k]
  BY DEF Intact
<1>1. \A k \in 1 .. t : bytes[k].of = n
  BY UndamagedIs
<1>2. 1 \in 1 .. t /\ t \in 1 .. t
  OBVIOUS
<1>3. s[a + 1 - 1].of = n /\ s[a + t - 1].of = n
  BY <1>1, <1>2
<1>4. a \in Int
  BY DEF Intact
<1> QED  BY <1>3, <1>4

LEMMA IntactJoined ==
  ASSUME NEW s \in Bytes, NEW c \in Bytes, NEW n, NEW a, Intact(s, n, a)
  PROVE  Intact(Joined(s, c), n, a)
<1> PICK m \in Nat, l \in Nat, t \in Nat : m = Size(s) /\ l = Size(c) /\ t = PacketSize
  BY SizeIs, Sizes
<1>1. PICK all \in Bytes : /\ all = Joined(s, c) /\ Size(all) = m + l
                           /\ \A k \in 1 .. m + l : all[k] = IF k <= m THEN s[k] ELSE c[k - m]
  BY JoinedIs
<1>2. a \in 1 .. m /\ a + t - 1 \in 1 .. m
  BY DEF Intact
<1> PICK bytes \in Undamaged(n) : \A k \in 1 .. t : s[a + k - 1] = bytes[k]
  BY DEF Intact
<1>3. ASSUME NEW k \in 1 .. t PROVE all[a + k - 1] = bytes[k]
  <2>1. a + k - 1 \in 1 .. m + l /\ a + k - 1 <= m
    BY <1>2
  <2> QED  BY <1>1, <2>1
<1>4. a \in 1 .. m + l /\ a + t - 1 \in 1 .. m + l
  BY <1>2
<1>5. Intact(all, n, a)
  BY <1>1, <1>3, <1>4 DEF Intact
<1> QED  BY <1>1, <1>5

LEMMA IntactArrives ==
  ASSUME NEW s \in Bytes, NEW n \in Nat, NEW c \in Undamaged(n)
  PROVE  Intact(Joined(s, c), n, Size(s) + 1)
<1> PICK m \in Nat, t \in Nat : m = Size(s) /\ t = PacketSize /\ t > 1
  BY SizeIs, Sizes
<1>1. c \in Bytes /\ Size(c) = t
  BY UndamagedIs
<1>2. PICK all \in Bytes : /\ all = Joined(s, c) /\ Size(all) = m + t
                           /\ \A k \in 1 .. m + t : all[k] = IF k <= m THEN s[k] ELSE c[k - m]
  BY <1>1, JoinedIs
<1> PICK a \in Nat : a = m + 1
  OBVIOUS
<1>3. ASSUME NEW k \in 1 .. t PROVE all[a + k - 1] = c[k]
  <2>1. a + k - 1 \in 1 .. m + t /\ ~(a + k - 1 <= m) /\ a + k - 1 - m = k
    OBVIOUS
  <2> QED  BY <1>2, <2>1
<1>4. a \in 1 .. m + t /\ a + t - 1 \in 1 .. m + t
  OBVIOUS
<1>5. Intact(all, n, a)
  BY <1>2, <1>3, <1>4 DEF Intact
<1> QED  BY <1>2, <1>5

LEMMA SteadyJoined ==
  ASSUME NEW s \in Bytes, NEW n \in Nat, Steady(s), Latest(s, n),
         NEW c \in Bytes, Size(c) > 0, \A k \in 1 .. Size(c) : c[k].of = n + 1
  PROVE  Steady(Joined(s, c)) /\ Latest(Joined(s, c), n + 1)
<1> PICK m \in Nat, l \in Nat : m = Size(s) /\ l = Size(c) /\ l > 0
  BY SizeIs
<1>1. PICK all \in Bytes : /\ all = Joined(s, c) /\ Size(all) = m + l
                           /\ \A k \in 1 .. m + l : all[k] = IF k <= m THEN s[k] ELSE c[k - m]
  BY JoinedIs
<1>2. \A k \in 1 .. m : all[k] = s[k]
  <2> TAKE k \in 1 .. m
  <2>1. k \in 1 .. m + l /\ k <= m
    OBVIOUS
  <2> QED  BY <1>1, <2>1
<1>3. \A k \in m + 1 .. m + l : all[k].of = n + 1
  <2> TAKE k \in m + 1 .. m + l
  <2>1. k \in 1 .. m + l /\ ~(k <= m) /\ k - m \in 1 .. l
    OBVIOUS
  <2> QED  BY <1>1, <2>1
<1>4. ASSUME NEW j \in 1 .. m + l, NEW k \in 1 .. m + l, k = j + 1
      PROVE  all[k].of <= all[j].of + 1
  <2>1. CASE k <= m
    <3>1. j \in 1 .. m /\ k \in 1 .. m
      BY <1>4, <2>1
    <3>2. s[k].of <= s[j].of + 1
      BY <1>4, <3>1 DEF Steady
    <3> QED  BY <1>2, <3>1, <3>2
  <2>2. CASE j > m
    <3>1. j \in m + 1 .. m + l /\ k \in m + 1 .. m + l
      BY <1>4, <2>2
    <3>2. all[k].of = n + 1 /\ all[j].of = n + 1
      BY <1>3, <3>1
    <3> QED  BY <3>2
  <2>3. CASE j = m
    <3>1. j \in 1 .. m /\ k \in m + 1 .. m + l
      BY <1>4, <2>3
    <3>2. s[j].of = n
      BY <2>3, <3>1 DEF Latest
    <3>3. all[k].of = n + 1 /\ all[j].of = n
      BY <1>2, <1>3, <3>1, <3>2
    <3> QED  BY <3>3
  <2> QED  BY <1>4, <2>1, <2>2, <2>3
<1>5. Steady(all)
  BY <1>1, <1>4 DEF Steady
<1>6. Latest(all, n + 1)
  <2>1. m + l \in m + 1 .. m + l
    OBVIOUS
  <2> QED  BY <1>1, <1>3, <2>1 DEF Latest
<1> QED  BY <1>1, <1>5, <1>6

LEMMA LatestFrom ==
  ASSUME NEW s \in Bytes, NEW n, Latest(s, n), NEW r \in 1 .. Size(s) + 1
  PROVE  Latest(From(s, r), n)
<1> PICK z \in Nat : z = Size(s)
  BY SizeIs
<1> PICK l \in Nat : l = z - r + 1
  OBVIOUS
<1>1. PICK v \in Bytes : v = From(s, r) /\ Size(v) = l /\ \A k \in 1 .. l : v[k] = s[r + k - 1]
  BY FromIs
<1>2. ASSUME NEW j \in 1 .. l, j = l PROVE v[j].of = n
  <2>1. r + j - 1 = z /\ z \in 1 .. z
    BY <1>2
  <2>2. s[z].of = n
    BY <2>1 DEF Latest
  <2> QED  BY <1>1, <2>1, <2>2
<1> QED  BY <1>1, <1>2 DEF Latest

\* Bytes that are far apart are of different packets.
LEMMA FarApart ==
  ASSUME NEW s \in Bytes, NEW place, NEW bad, Placed(s, place, bad),
         NEW j \in 1 .. Size(s), NEW k \in 1 .. Size(s), k - j >= PacketSize
  PROVE  s[j].of < s[k].of
<1> PICK z \in Nat, t \in Nat : z = Size(s) /\ t = PacketSize /\ t > 1
  BY SizeIs, Sizes
<1> PICK d \in Nat : d = k - j /\ d >= t /\ j < k
  OBVIOUS
<1>1. place[j] \in 1 .. t /\ place[k] \in 1 .. t
  BY DEF Placed
<1>2. Follows(s[j].of, place[j], s[k].of, place[k], d, bad)
  BY DEF Placed
<1>3. ~(place[j] + d <= place[k])
  BY <1>1
<1> QED  BY <1>2, <1>3 DEF Follows

\* What an overflow takes.
LEMMA MissingIs ==
  ASSUME NEW s \in Bytes, NEW r \in 1 .. Size(s) + 1, NEW x
  PROVE  x \in Missing(s, From(s, r)) <=> \E j \in 1 .. r - 1 : x = s[j].of
<1> PICK z \in Nat, d \in Nat : z = Size(s) /\ d = r - 1 /\ d \in 0 .. z
  BY SizeIs
<1>1. Size(From(s, r)) = z - r + 1
  BY FromIs
<1>2. Missing(s, From(s, r)) = Origins(Part(s, 1, d))
  <2>1. Size(s) - Size(From(s, r)) = d
    BY <1>1
  <2>2. Missing(s, From(s, r)) = Origins(SubSeq(s, 1, Size(s) - Size(From(s, r))))
    BY Zenon DEF Missing, Size
  <2> QED  BY <2>1, <2>2 DEF Part
<1>3. PICK v \in Bytes : v = Part(s, 1, d) /\ Size(v) = d /\ \A k \in 1 .. d : v[k] = s[k]
  BY FrontIs
<1>4. x \in Origins(v) <=> \E j \in 1 .. d : x = v[j].of
  BY <1>3, OriginsOf
<1> QED  BY <1>2, <1>3, <1>4

LEMMA OriginsFrom ==
  ASSUME NEW s \in Bytes, NEW r \in 1 .. Size(s) + 1
  PROVE  Origins(From(s, r)) \subseteq Origins(s)
<1> PICK z \in Nat : z = Size(s)
  BY SizeIs
<1> PICK l \in Nat : l = z - r + 1
  OBVIOUS
<1>1. PICK v \in Bytes : v = From(s, r) /\ Size(v) = l /\ \A k \in 1 .. l : v[k] = s[r + k - 1]
  BY FromIs
<1>2. ASSUME NEW x \in Origins(v) PROVE x \in Origins(s)
  <2> PICK k \in 1 .. l : x = v[k].of
    BY <1>1, OriginsOf
  <2> PICK j \in 1 .. z : j = r + k - 1
    OBVIOUS
  <2>1. x = s[j].of
    BY <1>1
  <2> QED  BY <2>1, OriginsOf
<1> QED  BY <1>1, <1>2

\* What a read takes when it takes the first i bytes of u, and what it drops.
Dropped(b, u, i) ==
  Missing(Joined(b, Part(u, 1, i)), AppendBounded(b, Part(u, 1, i)))

\* An overflow takes bytes of packets two packets behind what is still to come.
LEMMA DroppedIs ==
  ASSUME NEW b \in Bytes, NEW u \in Bytes, NEW place, NEW bad, NEW n \in Nat,
         Placed(Joined(b, u), place, bad), SentIn(Joined(b, u), n),
         NEW i \in 1 .. Size(u), NEW x \in Dropped(b, u, i)
  PROVE  x \in 1 .. n - 1 /\ x + 1 \notin Origins(From(u, i + 1))
<1> PICK chunk, later, filled :
      chunk = Part(u, 1, i) /\ later = From(u, i + 1) /\ filled = AppendBounded(b, chunk)
  OBVIOUS
<1>1. chunk \in Bytes /\ later \in Bytes /\ Joined(chunk, later) = u
  BY JoinedParts
<1>2. PICK all \in Bytes : all = Joined(b, chunk)
  BY <1>1, JoinedIs, SizeIs
<1>3. PICK stream \in Bytes : stream = Joined(all, later) /\ stream = Joined(b, u)
  <2>1. Joined(b, u) \in Bytes
    BY JoinedIs, SizeIs
  <2>2. Joined(b, Joined(chunk, later)) = Joined(Joined(b, chunk), later)
    BY <1>1, JoinedAgain
  <2> QED  BY <1>1, <1>2, <2>1, <2>2
<1> PICK z \in Nat, l \in Nat : z = Size(all) /\ l = Size(later)
  BY <1>1, SizeIs
<1> PICK t \in Nat, h \in Nat : t = PacketSize /\ t > 1 /\ h = HeaderSize /\ h > 0
  BY Sizes
<1> PICK most \in Nat : most = MaxBuffer /\ most > 2 * t
  <2>1. MaxBuffer = 2 * t + h
    BY Zenon DEF MaxBuffer, HeaderSize
  <2> QED  BY <2>1
<1>4. PICK r \in 1 .. z + 1 : filled = From(all, r) /\ (r > 1 => z = r + most - 1)
  BY <1>1, <1>2, AppendFrom
<1>5. PICK j \in 1 .. r - 1 : x = all[j].of
  <2>1. x \in Missing(all, From(all, r))
    BY <1>2, <1>4 DEF Dropped
  <2> QED  BY <2>1, MissingIs
<1>6. Size(stream) = z + l /\ \A k \in 1 .. z + l : stream[k] = IF k <= z THEN all[k] ELSE later[k - z]
  BY <1>1, <1>3, JoinedIs
<1>7. Placed(stream, place, bad) /\ SentIn(stream, n)
  BY <1>3
<1>8. z = r + most - 1
  BY <1>4
<1> PICK g \in 1 .. z + l, e \in 1 .. z + l : g = j /\ e = j + t /\ e <= z /\ e + t <= z /\ g <= z
  BY <1>8
<1>9. x = stream[g].of
  BY <1>5, <1>6
<1>10. x < stream[e].of
  <2>1. e - g >= PacketSize
    OBVIOUS
  <2> QED  BY <1>6, <1>7, <1>9, <2>1, FarApart
<1>11. x \in 1 .. n /\ stream[e].of \in 1 .. n
  BY <1>6, <1>7, <1>9 DEF SentIn
<1>12. ASSUME x + 1 \in Origins(later) PROVE FALSE
  <2> PICK k \in 1 .. l : x + 1 = later[k].of
    BY <1>1, <1>12, OriginsOf
  <2> PICK d \in 1 .. z + l : d = z + k /\ ~(d <= z) /\ d - z = k
    OBVIOUS
  <2>1. stream[d].of = x + 1
    BY <1>6
  <2>2. stream[e].of < stream[d].of
    <3>1. d - e >= PacketSize
      OBVIOUS
    <3> QED  BY <1>6, <1>7, <3>1, FarApart
  <2> QED  BY <1>10, <1>11, <2>1, <2>2
<1> QED  BY <1>10, <1>11, <1>12

\* A packet of which nothing is dropped is decoded by a read, or stays.
LEMMA ReadFinds ==
  ASSUME NEW b \in Bytes, NEW u \in Bytes, NEW place, NEW bad, NEW n \in Nat, NEW found \in Finds,
         Placed(Joined(b, u), place, bad), Steady(Joined(b, u)), n \notin bad, n - 1 \notin bad,
         NEW i \in 1 .. Size(u), n \notin Dropped(b, u, i),
         Pending(Joined(b, u), Size(b), n, found)
  PROVE  Pending(Joined(Pushed(b, u, i).rest, From(u, i + 1)), Size(Pushed(b, u, i).rest), n,
                 found \o Pushed(b, u, i).found)
<1> PICK chunk, later, filled :
      chunk = Part(u, 1, i) /\ later = From(u, i + 1) /\ filled = AppendBounded(b, chunk)
  OBVIOUS
<1>1. chunk \in Bytes /\ later \in Bytes /\ Joined(chunk, later) = u
  BY JoinedParts
<1>2. PICK all \in Bytes : all = Joined(b, chunk)
  BY <1>1, JoinedIs, SizeIs
<1>3. PICK stream \in Bytes : stream = Joined(all, later) /\ stream = Joined(b, u)
  <2>1. Joined(b, u) \in Bytes
    BY JoinedIs, SizeIs
  <2>2. Joined(b, Joined(chunk, later)) = Joined(Joined(b, chunk), later)
    BY <1>1, JoinedAgain
  <2> QED  BY <1>1, <1>2, <2>1, <2>2
<1> PICK z \in Nat, l \in Nat : z = Size(all) /\ l = Size(later)
  BY <1>1, SizeIs
<1> PICK t \in Nat : t = PacketSize
  BY Sizes
<1>4. PICK r \in 1 .. z + 1 : filled = From(all, r)
  BY <1>1, <1>2, AppendFrom
<1>5. PICK w \in Bytes : w = filled
  BY <1>4, FromIs
<1>6. PICK last \in Decoded : last = Scan[w] /\ last = Pushed(b, u, i)
  BY <1>5, ScanSolves DEF Pushed
<1>7. PICK got \in Finds : got = last.found
  BY DEF Decoded
<1>8. CASE Has(found, n)
  <2>1. Has(found \o got, n)
    BY <1>8, HasConcat
  <2> QED  BY <1>6, <1>7, <2>1 DEF Pending
<1>9. ASSUME NEW a, Intact(stream, n, a)
      PROVE  Pending(Joined(last.rest, later), Size(last.rest), n, found \o got)
  <2>1. Size(stream) = z + l /\ \A k \in 1 .. z + l : stream[k] = IF k <= z THEN all[k] ELSE later[k - z]
    BY <1>1, <1>3, JoinedIs
  <2>2. a \in 1 .. z + l
    BY <1>9, <2>1 DEF Intact
  <2>3. r <= a
    <3> SUFFICES ASSUME a < r PROVE FALSE
      BY <2>2
    <3>1. a \in 1 .. r - 1 /\ a <= z
      BY <2>2
    <3>2. stream[a].of = n
      BY <1>9, IntactEnds
    <3>3. n = all[a].of
      BY <2>1, <2>2, <3>1, <3>2
    <3>4. n \in Missing(all, From(all, r))
      BY <3>1, <3>3, MissingIs
    <3> QED  BY <1>2, <1>4, <3>4 DEF Dropped
  <2>4. PICK y \in Nat : y = a - r + 1
    BY <2>2, <2>3
  <2>5. Reaches(Joined(w, later), Shifted(place, r), bad, n, y)
    <3>1. Reaches(stream, place, bad, n, a)
      BY <1>3, <1>9 DEF Reaches
    <3>2. r \in 1 .. a
      BY <2>2, <2>3
    <3>3. Reaches(From(stream, r), Shifted(place, r), bad, n, a - r + 1)
      BY <3>1, <3>2, ReachesFrom
    <3>4. From(stream, r) = Joined(w, later)
      BY <1>1, <1>3, <1>4, <1>5, FromJoined
    <3> QED  BY <2>4, <3>3, <3>4
  <2>6. Has(got, n) \/ Waits(w, n, y, last)
    BY <1>1, <1>6, <1>7, <2>5, ScanFinds
  <2>7. CASE Has(got, n)
    <3>1. Has(found \o got, n)
      BY <2>7, HasConcat
    <3> QED  BY <3>1 DEF Pending
  <2>8. CASE Waits(w, n, y, last)
    <3> PICK m \in Nat : m = Size(w)
      BY SizeIs
    <3>1. PICK p \in 1 .. m + 1 : last.rest = From(w, p) /\ p <= y /\ y + t - 1 > m
      BY <2>8 DEF Waits
    <3>2. Joined(last.rest, later) = From(Joined(w, later), p)
      BY <1>1, <3>1, FromJoined
    <3>3. Intact(From(Joined(w, later), p), n, y - p + 1)
      <4>1. Joined(w, later) \in Bytes
        BY <1>1, JoinedIs, SizeIs
      <4>2. Intact(Joined(w, later), n, y)
        BY <2>5 DEF Reaches
      <4>3. p \in 1 .. y
        BY <3>1
      <4> QED  BY <4>1, <4>2, <4>3, IntactFrom
    <3>4. y - p + 1 + t - 1 > Size(last.rest)
      <4>1. Size(last.rest) = m - p + 1
        BY <3>1, FromIs
      <4> QED  BY <3>1, <4>1
    <3> QED  BY <3>2, <3>3, <3>4 DEF Pending
  <2> QED  BY <2>6, <2>7, <2>8
<1>10. Has(found, n) \/ \E a : Intact(stream, n, a)
  BY <1>3 DEF Pending
<1> QED  BY <1>6, <1>7, <1>8, <1>9, <1>10

\* The invariant: the stream skips no packet and ends with the last one; of every
\* packet that nothing happened to, and that no damage precedes, it is decoded
\* or all in the stream and not all read; of a packet that overflowed the next
\* one is read.
NearInv ==
  /\ Steady(Joined(buffer, line)) /\ Latest(Joined(buffer, line), sent)
  /\ \A n \in 1 .. sent :
       n \notin spoilt /\ n \notin cut /\ n \notin overflow /\ n - 1 \notin spoilt =>
         Pending(Joined(buffer, line), Size(buffer), n, accepted)
  /\ \A n \in overflow : n \in 1 .. sent - 1 /\ n + 1 \notin Origins(line)

LEMMA NearInit ==
  DecoderInit => NearInv
<1> SUFFICES ASSUME DecoderInit PROVE NearInv
  OBVIOUS
<1>1. PICK stream \in Bytes : stream = Joined(buffer, line) /\ Size(stream) = 0
  BY EmptyBytes, JoinedIs DEF DecoderInit
<1>2. Steady(stream) /\ Latest(stream, sent)
  BY <1>1 DEF Steady, Latest
<1>3. sent = 0 /\ overflow = {}
  BY DEF DecoderInit
<1> QED  BY <1>1, <1>2, <1>3 DEF NearInv

LEMMA NearSend ==
  ASSUME DecoderTypeOK, NearInv, Send
  PROVE  NearInv'
<1> PICK n \in Nat : n = sent
  BY DEF DecoderTypeOK
<1> PICK b \in Bytes, u \in Bytes : b = buffer /\ u = line
  BY DEF DecoderTypeOK
<1> PICK old, new, gone, over : old = spoilt /\ new = spoilt' /\ gone = cut /\ over = overflow
  OBVIOUS
<1>1. sent' = n + 1 /\ buffer' = b /\ accepted' = accepted /\ overflow' = over /\ cut' = gone
  BY DEF Send
<1>2. PICK c \in Bytes : line' = Joined(u, c) /\ Damaged(old, new, n + 1) /\ OnLine(c, new, n + 1)
  BY SendIs
<1> PICK m \in Nat, l \in Nat, t \in Nat : m = Size(b) /\ l = Size(c) /\ t = PacketSize /\ t > 1
  BY SizeIs, Sizes
<1>3. l > 0 /\ \A k \in 1 .. l : c[k].of = n + 1
  BY <1>2 DEF OnLine, Arrives
<1>4. PICK stream \in Bytes : stream = Joined(b, u) /\ Size(stream) >= m
  <2> PICK y \in Nat : y = Size(u)
    BY SizeIs
  <2>1. Joined(b, u) \in Bytes /\ Size(Joined(b, u)) = m + y
    BY JoinedIs
  <2> QED  BY <2>1
<1>5. Joined(buffer', line') = Joined(stream, c)
  BY <1>1, <1>2, <1>4, JoinedAgain
<1>6. Steady(stream) /\ Latest(stream, n)
  BY <1>4 DEF NearInv
<1>7. Steady(Joined(stream, c)) /\ Latest(Joined(stream, c), n + 1)
  BY <1>3, <1>6, SteadyJoined
<1>8. ASSUME NEW x \in 1 .. n + 1, x \notin new, x \notin gone, x \notin over, x - 1 \notin new
      PROVE  Pending(Joined(stream, c), m, x, accepted)
  <2>1. CASE x = n + 1
    <3>1. c \in Undamaged(n + 1)
      BY <1>2, <1>8, <2>1 DEF OnLine
    <3> PICK z \in Nat : z = Size(stream) /\ z >= m
      BY <1>4, SizeIs
    <3>2. Intact(Joined(stream, c), x, z + 1)
      BY <2>1, <3>1, IntactArrives
    <3>3. z + 1 + t - 1 > m
      OBVIOUS
    <3> QED  BY <3>2, <3>3 DEF Pending
  <2>2. CASE x # n + 1
    <3>1. x \in 1 .. n /\ x \notin old /\ x - 1 \notin old
      BY <1>2, <1>8, <2>2 DEF Damaged
    <3>2. Pending(stream, m, x, accepted)
      BY <1>4, <1>8, <3>1 DEF NearInv
    <3>3. ASSUME NEW a, Intact(stream, x, a) PROVE Intact(Joined(stream, c), x, a)
      BY <3>3, IntactJoined
    <3> QED  BY <3>2, <3>3 DEF Pending
  <2> QED  BY <2>1, <2>2
<1>9. ASSUME NEW x \in over PROVE x \in 1 .. n /\ x + 1 \notin Origins(line')
  <2>1. x \in 1 .. n - 1 /\ x + 1 \notin Origins(u)
    BY DEF NearInv
  <2>2. ASSUME x + 1 \in Origins(Joined(u, c)) PROVE FALSE
    <3> PICK y \in Nat : y = Size(u)
      BY SizeIs
    <3>1. PICK next \in Bytes : /\ next = Joined(u, c) /\ Size(next) = y + l
                                /\ \A k \in 1 .. y + l : next[k] = IF k <= y THEN u[k] ELSE c[k - y]
      BY JoinedIs
    <3> PICK k \in 1 .. y + l : x + 1 = next[k].of
      BY <2>2, <3>1, OriginsOf
    <3>2. CASE k <= y
      <4>1. k \in 1 .. y /\ x + 1 = u[k].of
        BY <3>1, <3>2
      <4> QED  BY <2>1, <4>1, OriginsOf
    <3>3. CASE ~(k <= y)
      <4>1. k - y \in 1 .. l /\ x + 1 = c[k - y].of
        BY <3>1, <3>3
      <4>2. x + 1 = n + 1
        BY <1>3, <4>1
      <4> QED  BY <2>1, <4>2
    <3> QED  BY <3>2, <3>3
  <2> QED  BY <1>2, <2>1, <2>2
<1>10. \A x \in over : x \in 1 .. (n + 1) - 1 /\ x + 1 \notin Origins(line')
  BY <1>9
<1> QED  BY <1>1, <1>5, <1>7, <1>8, <1>10 DEF NearInv

\* What a read leaves of the stream is its end.
LEMMA ReadLeaves ==
  ASSUME NEW b \in Bytes, NEW u \in Bytes, NEW place, NEW bad,
         Placed(Joined(b, u), place, bad), NEW i \in 1 .. Size(u)
  PROVE  \E r \in 1 .. Size(Joined(b, u)) + 1 :
           Joined(Pushed(b, u, i).rest, From(u, i + 1)) = From(Joined(b, u), r)
<1> PICK chunk, later, filled :
      chunk = Part(u, 1, i) /\ later = From(u, i + 1) /\ filled = AppendBounded(b, chunk)
  OBVIOUS
<1>1. chunk \in Bytes /\ later \in Bytes /\ Joined(chunk, later) = u
  BY JoinedParts
<1>2. PICK all \in Bytes : all = Joined(b, chunk)
  BY <1>1, JoinedIs, SizeIs
<1>3. PICK stream \in Bytes : stream = Joined(all, later) /\ stream = Joined(b, u)
  <2>1. Joined(b, u) \in Bytes
    BY JoinedIs, SizeIs
  <2>2. Joined(b, Joined(chunk, later)) = Joined(Joined(b, chunk), later)
    BY <1>1, JoinedAgain
  <2> QED  BY <1>1, <1>2, <2>1, <2>2
<1> PICK z \in Nat, l \in Nat : z = Size(all) /\ l = Size(later)
  BY <1>1, SizeIs
<1>4. PICK r \in 1 .. z + 1 : filled = From(all, r)
  BY <1>1, <1>2, AppendFrom
<1>5. PICK w \in Bytes : w = filled /\ Size(w) = z - r + 1
  BY <1>4, FromIs
<1>6. PICK last \in Decoded : last = Scan[w] /\ last = Pushed(b, u, i)
  BY <1>5, ScanSolves DEF Pushed
<1>7. Joined(w, later) = From(stream, r)
  BY <1>1, <1>3, <1>4, <1>5, FromJoined
<1>8. Size(stream) = z + l
  BY <1>1, <1>3, JoinedIs
<1> PICK size \in Nat, o \in 1 .. z + l + 1 : size = z + l /\ o = r
  OBVIOUS
<1>9. PICK p \in 1 .. z - r + 2 : last.rest = From(w, p)
  <2>1. Placed(From(stream, o), Shifted(place, o), bad)
    BY <1>3, <1>8, PlacedFrom
  <2>2. Placed(w, Shifted(place, o), bad)
    BY <1>1, <1>7, <2>1, PlacedFront
  <2>3. Whole(w, Shifted(place, o), Scan[w])
    BY <2>2, ScanWhole
  <2> QED  BY <1>5, <1>6, <2>3 DEF Whole
<1> PICK q \in 1 .. z + l + 1 : q = o + p - 1
  OBVIOUS
<1>10. Joined(last.rest, later) = From(stream, q)
  <2>1. Joined(From(w, p), later) = From(Joined(w, later), p)
    BY <1>1, <1>5, <1>9, FromJoined
  <2>2. p \in 1 .. size - o + 2 /\ Size(stream) = size
    BY <1>8
  <2>3. From(From(stream, o), p) = From(stream, q)
    BY <2>2, FromFrom
  <2> QED  BY <1>7, <1>9, <2>1, <2>3
<1> QED  BY <1>3, <1>6, <1>8, <1>10

LEMMA NearRead ==
  ASSUME StreamInv, NearInv, ReadChunk
  PROVE  NearInv'
<1>1. DecoderTypeOK
  BY DEF StreamInv
<1> PICK n \in Nat : n = sent
  BY <1>1 DEF DecoderTypeOK
<1> PICK bad, gone, over : bad = spoilt /\ gone = cut /\ over = overflow
  OBVIOUS
<1> PICK b \in Bytes, u \in Bytes : b = buffer /\ u = line
  BY <1>1 DEF DecoderTypeOK
<1>2. PICK found \in Finds : found = accepted
  BY <1>1 DEF DecoderTypeOK
<1>3. PICK i \in 1 .. Size(u) :
        /\ line' = From(u, i + 1) /\ buffer' = Pushed(b, u, i).rest
        /\ accepted' = found \o Pushed(b, u, i).found
        /\ sent' = n /\ spoilt' = bad /\ cut' = gone /\ overflow' = over \cup Dropped(b, u, i)
  BY <1>2 DEF ReadChunk, Size, Part, Pushed, Joined, Dropped
<1>4. PICK stream \in Bytes : stream = Joined(b, u)
  BY JoinedIs, SizeIs
<1>5. PICK place : Placed(stream, place, bad) /\ SentIn(stream, n)
  BY <1>4 DEF StreamInv, StreamOK
<1>6. Steady(stream) /\ Latest(stream, n)
  BY <1>4 DEF NearInv
<1>7. \E r \in 1 .. Size(stream) + 1 : Joined(buffer', line') = From(stream, r)
  BY <1>3, <1>4, <1>5, ReadLeaves
<1>8. Steady(Joined(buffer', line')) /\ Latest(Joined(buffer', line'), n)
  BY <1>6, <1>7, SteadyFrom, LatestFrom
<1>9. ASSUME NEW x \in 1 .. n, x \notin bad, x \notin gone, x \notin over, x \notin Dropped(b, u, i),
             x - 1 \notin bad
      PROVE  Pending(Joined(buffer', line'), Size(buffer'), x, accepted')
  <2>1. Pending(stream, Size(b), x, found)
    BY <1>2, <1>4, <1>9 DEF NearInv
  <2>2. x \in Nat
    OBVIOUS
  <2>3. Pending(Joined(Pushed(b, u, i).rest, From(u, i + 1)), Size(Pushed(b, u, i).rest), x,
                found \o Pushed(b, u, i).found)
    BY <1>4, <1>5, <1>6, <1>9, <2>1, <2>2, ReadFinds
  <2> QED  BY <1>3, <2>3
<1>10. ASSUME NEW x \in over PROVE x \in 1 .. n - 1 /\ x + 1 \notin Origins(line')
  <2>1. x \in 1 .. n - 1 /\ x + 1 \notin Origins(u)
    BY DEF NearInv
  <2> PICK r \in 1 .. Size(u) + 1 : r = i + 1
    BY SizeIs
  <2>2. Origins(From(u, r)) \subseteq Origins(u)
    BY OriginsFrom
  <2> QED  BY <1>3, <2>1, <2>2
<1>11. ASSUME NEW x \in Dropped(b, u, i) PROVE x \in 1 .. n - 1 /\ x + 1 \notin Origins(line')
  BY <1>3, <1>4, <1>5, DroppedIs
<1> QED  BY <1>3, <1>8, <1>9, <1>10, <1>11 DEF NearInv

LEMMA NearReconnect ==
  ASSUME DecoderTypeOK, NearInv, Reconnect
  PROVE  NearInv'
<1> PICK n \in Nat : n = sent
  BY DEF DecoderTypeOK
<1> PICK bad, gone, over : bad = spoilt /\ gone = cut /\ over = overflow
  OBVIOUS
<1> PICK b \in Bytes, u \in Bytes : b = buffer /\ u = line
  BY DEF DecoderTypeOK
<1> PICK m \in Nat, l \in Nat, t \in Nat : m = Size(b) /\ l = Size(u) /\ t = PacketSize /\ t > 1
  BY SizeIs, Sizes
<1>1. PICK i \in 0 .. l :
        /\ line' = From(u, i + 1) /\ buffer' = <<>>
        /\ sent' = n /\ spoilt' = bad /\ accepted' = accepted /\ overflow' = over
        /\ cut' = gone \cup Origins(b) \cup Origins(Part(u, 1, i))
  BY DEF Reconnect, Size, Part
<1>2. PICK stream \in Bytes : /\ stream = Joined(b, u) /\ Size(stream) = m + l
                              /\ \A k \in 1 .. m + l : stream[k] = IF k <= m THEN b[k] ELSE u[k - m]
  BY JoinedIs
<1> PICK r \in 1 .. (m + l) + 1, d \in 1 .. l + 1 : r = m + i + 1 /\ d = i + 1
  OBVIOUS
<1>3. PICK v \in Bytes : v = From(u, d) /\ v = From(stream, r)
  <2>1. From(u, d) \in Bytes
    BY FromIs
  <2>2. From(Joined(b, u), r) = From(u, d)
    BY FromBehind
  <2> QED  BY <1>2, <2>1, <2>2
<1>4. Joined(buffer', line') = v /\ Size(buffer') = 0
  <2>1. <<>> \o v = v
    BY ConcatEmptySeq DEF Bytes
  <2>2. Len(<<>>) = 0
    OBVIOUS
  <2> QED  BY <1>1, <1>3, <2>1, <2>2 DEF Joined, Size
<1>5. Steady(v) /\ Latest(v, n)
  <2>1. Steady(stream) /\ Latest(stream, n)
    BY <1>2 DEF NearInv
  <2>2. r \in 1 .. Size(stream) + 1
    BY <1>2
  <2> QED  BY <1>3, <2>1, <2>2, SteadyFrom, LatestFrom
<1>6. ASSUME NEW x \in 1 .. n, x \notin bad, x \notin gone, x \notin over, x - 1 \notin bad,
             x \notin Origins(b), x \notin Origins(Part(u, 1, i))
      PROVE  Pending(v, 0, x, accepted)
  <2>1. Pending(stream, m, x, accepted)
    BY <1>2, <1>6 DEF NearInv
  <2>2. ASSUME NEW a, Intact(stream, x, a) PROVE Pending(v, 0, x, accepted)
    <3>1. a \in 1 .. m + l
      BY <1>2, <2>2 DEF Intact
    <3>2. stream[a].of = x
      BY <2>2, IntactEnds
    <3>3. ~(a <= m)
      <4> SUFFICES ASSUME a <= m PROVE FALSE
        OBVIOUS
      <4>1. a \in 1 .. m /\ x = b[a].of
        BY <1>2, <3>1, <3>2
      <4> QED  BY <1>6, <4>1, OriginsOf
    <3>4. r <= a
      <4> SUFFICES ASSUME a < r PROVE FALSE
        BY <3>1
      <4>1. PICK front \in Bytes : /\ front = Part(u, 1, i) /\ Size(front) = i
                                   /\ \A k \in 1 .. i : front[k] = u[k]
        BY FrontIs
      <4>2. a - m \in 1 .. i
        BY <3>1, <3>3
      <4>3. x = front[a - m].of
        BY <1>2, <3>1, <3>2, <3>3, <4>1, <4>2
      <4> QED  BY <1>6, <4>1, <4>2, <4>3, OriginsOf
    <3>5. r \in 1 .. a
      BY <3>1, <3>4
    <3>6. Intact(From(stream, r), x, a - r + 1)
      BY <2>2, <3>5, IntactFrom
    <3>7. a - r + 1 + t - 1 > 0
      BY <3>1, <3>4
    <3> QED  BY <1>3, <3>6, <3>7 DEF Pending
  <2> QED  BY <2>1, <2>2 DEF Pending
<1>7. ASSUME NEW x \in over PROVE x \in 1 .. n - 1 /\ x + 1 \notin Origins(line')
  <2>1. x \in 1 .. n - 1 /\ x + 1 \notin Origins(u)
    BY DEF NearInv
  <2>2. Origins(From(u, d)) \subseteq Origins(u)
    BY OriginsFrom
  <2> QED  BY <1>1, <2>1, <2>2
<1> QED  BY <1>1, <1>4, <1>5, <1>6, <1>7 DEF NearInv

\* What the line loses or garbles costs the packet it is in and the next one at
\* most: every other packet of which all was read is decoded, unless an overflow
\* or a lost connection took bytes of it, and an overflow takes none of the newest
\* (StreamDecoder::push, append_bounded).
THEOREM DamageProved ==
  DecoderSpec => []DamageIsLocal
<1>1. DecoderInit => DecoderInv /\ StreamInv /\ NearInv
  BY DecoderStarts, StreamInit, NearInit
<1>2. DecoderInv /\ StreamInv /\ NearInv /\ [DecoderNext]_vars
        => DecoderInv' /\ StreamInv' /\ NearInv'
  <2> SUFFICES ASSUME DecoderInv, StreamInv, NearInv, [DecoderNext]_vars
               PROVE  DecoderInv' /\ StreamInv' /\ NearInv'
    OBVIOUS
  <2>1. DecoderTypeOK /\ DecoderInv' /\ DecoderTypeOK'
    BY DecoderStep DEF DecoderInv
  <2>2. StreamInv'
    BY <2>1, StreamStep
  <2>3. CASE Send
    BY <2>1, <2>2, <2>3, NearSend
  <2>4. CASE ReadChunk
    BY <2>1, <2>2, <2>4, NearRead
  <2>5. CASE Reconnect
    BY <2>1, <2>2, <2>5, NearReconnect
  <2>6. CASE UNCHANGED vars
    <3>1. UNCHANGED <<sent, line, buffer, accepted, spoilt, cut, overflow>>
      BY <2>6 DEF vars
    <3> QED  BY <2>1, <2>2, <3>1 DEF NearInv
  <2> QED  BY <2>1, <2>2, <2>3, <2>4, <2>5, <2>6 DEF DecoderNext
<1>3. DecoderInv /\ NearInv => DamageIsLocal
  <2> SUFFICES ASSUME DecoderTypeOK, NearInv, NEW n \in 1 .. sent, Passed(n),
                      n \notin spoilt \cup cut, n - 1 \notin spoilt,
                      n \in overflow => n < sent /\ ~Passed(n + 1)
               PROVE  \E k \in DOMAIN accepted : accepted[k] = {n}
    BY DEF DecoderInv, DamageIsLocal
  <2> PICK b \in Bytes, u \in Bytes : b = buffer /\ u = line
    BY DEF DecoderTypeOK
  <2> PICK m \in Nat, l \in Nat, t \in Nat : m = Size(b) /\ l = Size(u) /\ t = PacketSize
    BY SizeIs, Sizes
  <2>1. n \notin overflow
    BY DEF NearInv, Passed
  <2>2. Pending(Joined(b, u), m, n, accepted)
    BY <2>1 DEF NearInv
  <2>3. PICK stream \in Bytes : /\ stream = Joined(b, u) /\ Size(stream) = m + l
                                /\ \A k \in 1 .. m + l : stream[k] = IF k <= m THEN b[k] ELSE u[k - m]
    BY JoinedIs
  <2>4. ASSUME NEW a, Intact(stream, n, a), a + t - 1 > m PROVE FALSE
    <3>1. n \in Nat
      BY DEF DecoderTypeOK
    <3>2. a + t - 1 \in 1 .. m + l
      BY <2>3, <2>4 DEF Intact
    <3>3. stream[a + t - 1].of = n
      BY <2>4, <3>1, IntactEnds
    <3> PICK k \in 1 .. m + l : k = a + t - 1 /\ ~(k <= m) /\ k - m \in 1 .. l
      BY <2>4, <3>2
    <3>4. n = u[k - m].of
      BY <2>3, <3>3
    <3>5. n \in Origins(u)
      BY <3>4, OriginsOf
    <3> QED  BY <3>5 DEF Passed
  <2>5. Has(accepted, n)
    BY <2>2, <2>3, <2>4 DEF Pending
  <2> QED  BY <2>5 DEF Has
<1> QED  BY <1>1, <1>2, <1>3, PTL DEF DecoderSpec

=============================================================================
