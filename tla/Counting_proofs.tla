---------------------------- MODULE Counting_proofs ----------------------------
(***************************************************************************)
(* Proofs about module Counting, for any set of tracks, buffer, stride,    *)
(* number of requests and length of the video.                             *)
(*                                                                         *)
(* A count needs a confirmation on either side: a history remembers a side *)
(* only if its track was last confirmed there; neither a prediction, nor   *)
(* its age, nor a recovery changes that.                                   *)
(*                                                                         *)
(* The frames come to the tracker in order: the frames in the requests are *)
(* in the order of the turns they were submitted in, so the request that   *)
(* is waited for holds the earliest of them; and a sampled frame that was  *)
(* read and is not observed yet is in the decoder's hand, in a request, or *)
(* being observed.                                                         *)
(*                                                                         *)
(* A lost track goes on once: no history begins twice with the same track  *)
(* in the same frame.                                                      *)
(***************************************************************************)
EXTENDS Counting, TLAPS, WellFoundedInduction

Record == [side : Sides \cup {"none"}, age : Int, pending : Sides \cup {"none"}]

CInv ==
  /\ histories \in [Track -> Record]
  /\ side \in [Track -> Sides \cup {"none"}]
  /\ todo \in [Track -> Sides \cup {"line", "none"}]
  /\ \A t \in Track : histories[t].side \in {"none", side[t]}

\* A count of this step has its two confirmations.
CountConfirmed ==
  /\ entered' # entered =>
       \E t, l \in Track : todo[t] = "below" /\ Known(l) /\ side[l] = "above"
  /\ exited' # exited =>
       \E t, l \in Track : todo[t] = "above" /\ Known(l) /\ side[l] = "below"

-----------------------------------------------------------------------------
(* The operators on a history.                                             *)

\* A track without a history has no side.
LEMMA NoHistoryTyping == NoHistory \in Record /\ NoHistory.side = "none"
BY DEF NoHistory, Record, None

\* Ageing keeps the side or forgets it, whoever's it is.
LEMMA DiscardedTyping ==
  ASSUME NEW h \in Record
  PROVE  Discarded(h) \in Record /\ Discarded(h).side \in {"none", h.side}
<1>1. h.age \in Int /\ h.age + 1 \in Int  BY DEF Record
<1> QED  BY <1>1, NoHistoryTyping DEF Discarded, Record

\* A prediction keeps the side.
LEMMA PredictTyping ==
  ASSUME NEW h \in Record, NEW predicted \in Sides
  PROVE  Predict(h, predicted) \in Record /\ Predict(h, predicted).side = h.side
BY DEF Predict, Record

\* What a confirmation makes of the history of its track.
LEMMA NewHistoryTyping ==
  ASSUME CInv, NEW t \in Track, todo[t] # "none"
  PROVE  /\ NewHistory(t) \in Record
         /\ todo[t] = "line" => NewHistory(t).side = histories[t].side
         /\ todo[t] # "line" => NewHistory(t).side = todo[t]
<1>1. /\ histories[t] \in Record /\ todo[t] \in Sides \cup {"line"}
      /\ histories[t].side \in Sides \cup {"none"}
      /\ histories[t].pending \in Sides \cup {"none"}
  BY DEF CInv, Record
<1> QED  BY <1>1 DEF NewHistory, Record

-----------------------------------------------------------------------------
(* The actions of the counter.                                             *)

\* A new frame ages the histories.
LEMMA BeginFrameKeeps ==
  ASSUME CInv, NEW frame, NEW found \in [Track -> Sides \cup {"line", "none"}],
         BeginFrame(frame, found)
  PROVE  CInv' /\ CountConfirmed
<1>1. /\ todo' = found /\ UNCHANGED <<entered, exited, side>>
      /\ histories' = [t \in Track |-> Discarded(histories[t])]
  BY DEF BeginFrame
<1>2. \A t \in Track : histories[t] \in Record  BY DEF CInv
<1>3. histories' \in [Track -> Record]
      /\ \A t \in Track : histories'[t].side \in {"none", histories[t].side}
  BY <1>1, <1>2, DiscardedTyping
<1> QED  BY <1>1, <1>3 DEF CInv, CountConfirmed

\* The predictions at the end of a frame.
LEMMA EndFrameKeeps ==
  ASSUME CInv, EndFrame
  PROVE  CInv' /\ CountConfirmed
<1>1. PICK to \in [Predicted -> Sides \cup {"line"}] :
        histories' = [t \in Track |->
          IF t \in Predicted /\ to[t] # "line" THEN Predict(histories[t], to[t])
          ELSE histories[t]]
  BY DEF EndFrame
<1>2. UNCHANGED <<todo, entered, exited, side>>  BY DEF EndFrame
<1>3. ASSUME NEW t \in Track
      PROVE  histories'[t] \in Record /\ histories'[t].side = histories[t].side
  <2>1. histories[t] \in Record  BY DEF CInv
  <2>2. CASE t \in Predicted /\ to[t] # "line"
    <3>1. to[t] \in Sides  BY <2>2
    <3> QED  BY <1>1, <2>1, <2>2, <3>1, PredictTyping
  <2>3. CASE ~(t \in Predicted /\ to[t] # "line")
    BY <1>1, <2>1, <2>3
  <2> QED  BY <2>2, <2>3
<1>4. histories' \in [Track -> Record]  BY <1>1, <1>3
<1> QED  BY <1>2, <1>3, <1>4 DEF CInv, CountConfirmed

\* A count is one of a confirmed track, against the side of the history l.
LEMMA CrossingIsConfirmed ==
  ASSUME CInv, NEW t \in Track, NEW l \in Track,
         CountCrossing(histories[l].side, todo[t])
  PROVE  CountConfirmed
<1>1. histories[l].side \in {"none", side[l]}  BY DEF CInv
<1>2. histories[l].side # "none" => Known(l)  BY NoHistoryTyping DEF Known
<1> QED  BY <1>1, <1>2 DEF CountCrossing, CountConfirmed

\* The confirmed box of t makes its history and its side agree.
LEMMA CountedKeeps ==
  ASSUME CInv, NEW t \in Track, todo[t] # "none", Counted(t),
         histories' \in [Track -> Record], histories'[t] = NewHistory(t),
         \A x \in Track \ {t} : histories'[x].side \in {"none", histories[x].side}
  PROVE  CInv'
<1>1. /\ todo' = [todo EXCEPT ![t] = "none"]
      /\ side' = IF todo[t] = "line" THEN side ELSE [side EXCEPT ![t] = todo[t]]
  BY DEF Counted
<1>2. todo[t] \in Sides \cup {"line"}  BY DEF CInv
<1>3. todo' \in [Track -> Sides \cup {"line", "none"}]  BY <1>1 DEF CInv
<1>4. side' \in [Track -> Sides \cup {"none"}]  BY <1>1, <1>2 DEF CInv
<1>5. ASSUME NEW x \in Track PROVE histories'[x].side \in {"none", side'[x]}
  <2>1. CASE x = t
    BY <1>1, <2>1, NewHistoryTyping DEF CInv
  <2>2. CASE x # t
    BY <1>1, <2>2 DEF CInv
  <2> QED  BY <2>1, <2>2
<1> QED  BY <1>3, <1>4, <1>5 DEF CInv

\* A track that is confirmed under its own identity.
LEMMA ObserveConfirmedKeeps ==
  ASSUME CInv, NEW t \in Track, ObserveConfirmed(t)
  PROVE  CInv' /\ CountConfirmed
<1>0. IF todo[t] = "line" THEN UNCHANGED <<entered, exited>>
      ELSE CountCrossing(histories[t].side, todo[t])
  BY DEF ObserveConfirmed
<1>1. todo[t] # "none" /\ Counted(t) /\ histories' = [histories EXCEPT ![t] = NewHistory(t)]
  BY DEF ObserveConfirmed
<1>2. /\ histories' \in [Track -> Record] /\ histories'[t] = NewHistory(t)
      /\ \A x \in Track \ {t} : histories'[x] = histories[x]
  BY <1>1, NewHistoryTyping DEF CInv
<1>3. CInv'  BY <1>1, <1>2, CountedKeeps
<1>4. CASE todo[t] = "line"
  <2>1. UNCHANGED <<entered, exited>>  BY <1>0, <1>4
  <2> QED  BY <1>3, <2>1 DEF CountConfirmed
<1>5. CASE todo[t] # "line"
  <2>1. CountCrossing(histories[t].side, todo[t])  BY <1>0, <1>5
  <2> QED  BY <1>3, <2>1, CrossingIsConfirmed
<1> QED  BY <1>3, <1>4, <1>5

\* A track that goes on from a lost one is on the other side of the line.
LEMMA ObserveRecoveredKeeps ==
  ASSUME CInv, NEW t \in Track, ObserveRecovered(t)
  PROVE  CInv' /\ CountConfirmed
<1>1. PICK l \in Recoverable(t) :
        /\ CountCrossing(histories[l].side, todo[t])
        /\ histories' = [histories EXCEPT ![t] = NewHistory(t), ![l] = NoHistory]
  BY DEF ObserveRecovered
<1>2. l \in Track \ {t} /\ todo[t] # "none" /\ Counted(t)
  BY DEF ObserveRecovered, Recoverable, Sides
<1>3. /\ histories' \in [Track -> Record] /\ histories'[t] = NewHistory(t)
      /\ \A x \in Track \ {t} : histories'[x].side \in {"none", histories[x].side}
  BY <1>1, <1>2, NewHistoryTyping, NoHistoryTyping DEF CInv
<1> QED  BY <1>1, <1>2, <1>3, CountedKeeps, CrossingIsConfirmed

-----------------------------------------------------------------------------
(* A count needs a confirmation.                                           *)

\* No track has a history.
LEMMA CountingInitial == CountingInit => CInv
BY NoHistoryTyping DEF CountingInit, CInv

\* The ring, the decoder and a shutdown do not touch the counter.
LEMMA RingKeeps ==
  ASSUME CInv, UNCHANGED counter
  PROVE  CInv' /\ CountConfirmed
BY DEF counter, CInv, CountConfirmed

\* Only the observation of a frame touches the counter.
LEMMA CountingInductive ==
  ASSUME CInv, [CountingNext]_vars
  PROVE  CInv' /\ CountConfirmed
<1>1. CASE Observation
  <2>1. ASSUME ObserveSkipped PROVE CInv' /\ CountConfirmed
    <3>1. [t \in Track |-> "none"] \in [Track -> Sides \cup {"line", "none"}]  OBVIOUS
    <3> QED  BY <2>1, <3>1, BeginFrameKeeps DEF ObserveSkipped
  <2>2. ASSUME ObserveSampled PROVE CInv' /\ CountConfirmed
    BY <2>2, BeginFrameKeeps DEF ObserveSampled
  <2> QED
    BY <1>1, <2>1, <2>2, EndFrameKeeps, ObserveConfirmedKeeps, ObserveRecoveredKeeps
    DEF Observation
<1>2. CASE UNCHANGED counter
  BY <1>2, RingKeeps
<1>3. ~Observation => UNCHANGED counter
  BY DEF CountingNext, Analyze, Interrupted, GiveUp, SkipFrame, ReadFrame, Submit, Finish,
         EndOfVideo, Drain, EndAnalysis, Fail, RequestShutdown, Complete, vars, counter
<1> QED  BY <1>1, <1>2, <1>3

\* observe_confirmed, observe_prediction: the count is committed only after a
\* confirmed box crosses the line, whatever is predicted, lost or recovered.
THEOREM CountProved == CountingSpec => CountNeedsConfirmation
<1>1. CInv /\ [CountingNext]_vars => CInv'  BY CountingInductive
<1>2. CInv /\ [CountingNext]_vars => [CountConfirmed]_vars  BY CountingInductive
<1> QED
  BY CountingInitial, <1>1, <1>2, PTL DEF CountingSpec, CountNeedsConfirmation, CountConfirmed

-----------------------------------------------------------------------------
(* Remainders.                                                             *)

\* A number from its quotient and remainder.
LEMMA Divides ==
  ASSUME NEW n \in Int, NEW k \in Int, k > 0
  PROVE  n = k * (n \div k) + (n % k)
OBVIOUS

\* A remainder from the quotient: what is left of the multiple.
LEMMA RemainderIs ==
  ASSUME NEW k \in Nat \ {0}, NEW q \in Nat, NEW r \in 0 .. k - 1
  PROVE  (k * q + r) % k = r
OBVIOUS

\* Counting on takes the remainder to the next one.
LEMMA NextRemainder ==
  ASSUME NEW n \in Nat, NEW k \in Nat \ {0}
  PROVE  /\ n % k \in 0 .. k - 1
         /\ (n + 1) % k = IF (n % k) + 1 = k THEN 0 ELSE (n % k) + 1
<1>1. PICK q \in Nat, r \in 0 .. k - 1 : q = n \div k /\ r = n % k
  OBVIOUS
<1>2. n = k * q + r  BY <1>1, Divides
<1>3. CASE r + 1 = k
  <2>1. n + 1 = k * (q + 1) + 0  BY <1>2, <1>3
  <2>2. (k * (q + 1) + 0) % k = 0  BY RemainderIs
  <2> QED  BY <1>1, <1>3, <2>1, <2>2
<1>4. CASE r + 1 # k
  <2>1. n + 1 = k * q + (r + 1) /\ r + 1 \in 0 .. k - 1  BY <1>2, <1>4
  <2>2. (k * q + (r + 1)) % k = r + 1  BY <2>1, RemainderIs
  <2> QED  BY <1>1, <1>4, <2>1, <2>2
<1> QED  BY <1>3, <1>4

\* A multiple is followed by the next one.
LEMMA NextMultiple ==
  ASSUME NEW n \in Nat, NEW k \in Nat \ {0}, n % k = 0
  PROVE  (n + k) % k = 0
<1>1. PICK q \in Nat : q = n \div k
  OBVIOUS
<1>2. n = k * q  BY <1>1, Divides
<1>3. n + k = k * (q + 1) + 0  BY <1>2
<1>4. (k * (q + 1) + 0) % k = 0  BY RemainderIs
<1> QED  BY <1>3, <1>4

\* Some number of a set is the least.
LEMMA HasLeast ==
  ASSUME NEW S \in SUBSET Nat, S # {}
  PROVE  \E x \in S : \A y \in S : x <= y
<1>1. PICK x \in S : \A y \in S : ~(<<y, x>> \in OpToRel(<, Nat))
  <2> HIDE DEF OpToRel, IsWellFoundedOn
  <2>1. IsWellFoundedOn(OpToRel(<, Nat), Nat)
    BY NatLessThanWellFounded, Zenon
  <2> QED  BY <2>1, WFMin, Zenon
<1>2. \A y \in S : ~(y < x)
  BY <1>1, Zenon DEF OpToRel
<1> QED  BY <1>2

-----------------------------------------------------------------------------
(* The ring of requests.                                                   *)

Sampled(f) == f % Stride = 0
Turn == submitted % Streams

\* Request s is submitted to before request t, when the next turn is n.
Earlier(n, s, t) == IF (s >= n) <=> (t >= n) THEN s < t ELSE s >= n

RingTypeOK ==
  /\ pc \in {"read", "wait", "observe", "predict", "drain"} \cup Ends
  /\ length \in Nat /\ read \in 0 .. length /\ submitted \in Nat /\ slot \in Slots
  /\ held \in Nat \cup {None} /\ current \in Nat \cup {None} /\ at \in Nat \cup {None}
  /\ at < read
  /\ pending \in [Slots -> Nat \cup {None}]

\* The frames in the requests, in the order they were submitted in.
PendingOK ==
  /\ \A s, t \in Slots :
       pending[s] # None /\ pending[t] # None /\ Earlier(Turn, s, t) => pending[s] < pending[t]
  /\ \A s \in Slots : pending[s] # None =>
       /\ at < pending[s] /\ current < pending[s] /\ pending[s] < read /\ Sampled(pending[s])
       /\ held # None => pending[s] < held

\* The frame that waits for its request.
HeldOK ==
  held # None =>
    /\ at < held /\ current < held /\ held < read /\ Sampled(held)
    /\ slot = Turn /\ (pc # "wait" => pending[slot] = None)

\* The frame that is observed.
CurrentOK ==
  /\ (current # None) <=> pc \in {"observe", "predict"}
  /\ current # None => at <= current /\ current < read /\ Sampled(current)
  /\ pc = "observe" => at < current
  /\ current = None => at = None \/ Sampled(at)

\* The request that is waited for, and the end of the video.
WaitOK ==
  /\ pc = "wait" =>
       /\ pending[slot] # None
       /\ \A s \in Slots : pending[s] # None => pending[slot] <= pending[s]
  /\ pc \in {"wait", "observe", "predict", "drain"} /\ held = None => read = length
  /\ pc = "drain" => held = None

\* No sampled frame is lost between the decoder and the tracker.
AllThere ==
  \A f \in Nat : at < f /\ f < read /\ Sampled(f) =>
    f \in {held, current} \/ \E s \in Slots : pending[s] = f

RingInv ==
  /\ RingTypeOK
  /\ pc \notin Ends => PendingOK /\ HeldOK /\ CurrentOK /\ WaitOK /\ AllThere

\* What the invariant says of types, and where the decoder is at work.
LEMMA RingTyping ==
  ASSUME RingInv
  PROVE  /\ RingTypeOK /\ Streams \in Nat \ {0} /\ Stride \in Nat \ {0} /\ None = -1
         /\ Turn \in Slots
         /\ pc \in {"read", "wait", "observe", "predict", "drain"} =>
              PendingOK /\ HeldOK /\ CurrentOK /\ WaitOK /\ AllThere
<1>1. RingTypeOK /\ Streams \in Nat \ {0} /\ Stride \in Nat \ {0}
  BY CountingAssumption DEF RingInv
<1>2. Turn \in Slots
  BY <1>1, NextRemainder DEF RingTypeOK, Turn, Slots
<1> QED  BY <1>1, <1>2 DEF RingInv, Ends, None

\* Cancelled or failed: nothing more is read.
LEMMA GiveUpRing ==
  ASSUME RingInv, NEW end \in Ends, GiveUp(end)
  PROVE  RingInv'
BY DEF RingInv, RingTypeOK, GiveUp, None

\* A frame between the samples.
LEMMA SkipFrameRing ==
  ASSUME RingInv, SkipFrame
  PROVE  RingInv'
<1>1. /\ pc = "read" /\ read < length /\ held = None /\ ~Sampled(read)
      /\ read' = read + 1
      /\ UNCHANGED <<pc, length, held, submitted, pending, done, slot, current, at>>
  BY DEF SkipFrame, Sampled
<1>2. RingTypeOK'
  BY <1>1, RingTyping DEF RingTypeOK
<1>3. PendingOK' /\ HeldOK' /\ CurrentOK' /\ WaitOK'
  BY <1>1, RingTyping DEF RingTypeOK, PendingOK, HeldOK, CurrentOK, WaitOK, Turn
<1>4. AllThere'
  BY <1>1, RingTyping DEF RingTypeOK, AllThere
<1> QED  BY <1>2, <1>3, <1>4 DEF RingInv

\* A sampled frame: it is the latest, and its request the one used longest ago.
LEMMA ReadFrameRing ==
  ASSUME RingInv, ReadFrame
  PROVE  RingInv'
<1>1. /\ pc = "read" /\ read < length /\ held = None /\ Sampled(read)
      /\ read' = read + 1 /\ held' = read /\ slot' = Turn
      /\ pc' = IF pending[Turn] = None THEN "read" ELSE "wait"
      /\ UNCHANGED <<length, submitted, pending, done, current, at>>
  BY DEF ReadFrame, Sampled, Turn
<1>2. current = None  BY <1>1, RingTyping DEF CurrentOK
<1>3. RingTypeOK'
  BY <1>1, RingTyping DEF RingTypeOK
<1>4. PendingOK'
  BY <1>1, <1>2, RingTyping DEF RingTypeOK, PendingOK, Turn
<1>5. HeldOK'
  BY <1>1, <1>2, RingTyping DEF RingTypeOK, HeldOK, Turn
<1>6. CurrentOK'
  BY <1>1, <1>2, RingTyping DEF RingTypeOK, CurrentOK
<1>7. WaitOK'
  <2>1. \A s \in Slots : s # Turn => Earlier(Turn, Turn, s)
    BY RingTyping DEF Slots, Earlier
  <2>2. pending[Turn] # None =>
          \A s \in Slots : pending[s] # None => pending[Turn] <= pending[s]
    BY <1>1, <2>1, RingTyping DEF RingTypeOK, PendingOK
  <2> QED  BY <1>1, <2>2, RingTyping DEF RingTypeOK, WaitOK
<1>8. AllThere'
  BY <1>1, <1>2, RingTyping DEF RingTypeOK, AllThere
<1> QED  BY <1>3, <1>4, <1>5, <1>6, <1>7, <1>8 DEF RingInv

\* The frame goes to its request, and the turn to the next one.
LEMMA SubmitRing ==
  ASSUME RingInv, Submit
  PROVE  RingInv'
<1>1. /\ pc = "read" /\ held # None /\ slot = Turn /\ pending[slot] = None
      /\ pending' = [pending EXCEPT ![slot] = held]
      /\ submitted' = submitted + 1 /\ held' = None
      /\ UNCHANGED <<pc, length, read, slot, current, at>>
  BY RingTyping DEF Submit, HeldOK
<1>2. Turn' \in Slots /\ Turn' = IF Turn + 1 = Streams THEN 0 ELSE Turn + 1
  <2>1. submitted \in Nat /\ Streams \in Nat \ {0}
    BY RingTyping DEF RingTypeOK
  <2>2. /\ Turn \in 0 .. Streams - 1
        /\ (submitted + 1) % Streams = IF Turn + 1 = Streams THEN 0 ELSE Turn + 1
    BY <2>1, NextRemainder DEF Turn
  <2>3. Turn' = (submitted + 1) % Streams
    BY <1>1 DEF Turn
  <2> HIDE DEF Turn
  <2> QED  BY <2>1, <2>2, <2>3 DEF Slots
<1>3. /\ pending' \in [Slots -> Nat \cup {None}] /\ pending'[slot] = held
      /\ \A s \in Slots : s # slot => pending'[s] = pending[s]
  BY <1>1, RingTyping DEF RingTypeOK
<1>4. RingTypeOK'
  BY <1>1, <1>3, RingTyping DEF RingTypeOK
<1>5. ASSUME NEW s \in Slots, NEW t \in Slots, Earlier(Turn', s, t)
      PROVE  s # slot /\ (t # slot => Earlier(Turn, s, t))
  BY <1>1, <1>2, <1>5, RingTyping DEF Earlier, Slots
<1>6. PendingOK'
  <2>1. ASSUME NEW s \in Slots, NEW t \in Slots, pending'[s] # None, pending'[t] # None,
               Earlier(Turn', s, t)
        PROVE  pending'[s] < pending'[t]
    BY <1>1, <1>3, <1>5, <2>1, RingTyping DEF PendingOK
  <2>2. ASSUME NEW s \in Slots, pending'[s] # None
        PROVE  at < pending'[s] /\ current < pending'[s] /\ pending'[s] < read
               /\ Sampled(pending'[s])
    BY <1>1, <1>3, <2>2, RingTyping DEF PendingOK, HeldOK
  <2> QED  BY <1>1, <2>1, <2>2 DEF PendingOK, Sampled
<1>7. HeldOK' /\ CurrentOK' /\ WaitOK'
  BY <1>1, RingTyping DEF HeldOK, CurrentOK, WaitOK, Sampled
<1>8. AllThere'
  <2>1. ASSUME NEW f \in Nat, at < f, f < read, Sampled(f)
        PROVE  f = current \/ \E s \in Slots : pending'[s] = f
    <3>1. f = held => pending'[slot] = f /\ slot \in Slots
      BY <1>3, RingTyping DEF RingTypeOK
    <3>2. \A s \in Slots : pending[s] = f => pending'[s] = f
      BY <1>1, <1>3, <2>1, RingTyping
    <3> QED  BY <1>1, <2>1, <3>1, <3>2, RingTyping DEF AllThere
  <2> QED  BY <1>1, <2>1 DEF AllThere, Sampled
<1> QED  BY <1>4, <1>6, <1>7, <1>8 DEF RingInv

\* The answer that was waited for is that of the earliest frame.
LEMMA FinishRing ==
  ASSUME RingInv, Finish
  PROVE  RingInv' /\ at < current'
<1>1. /\ pc = "wait" /\ pc' = "observe" /\ current' = pending[slot]
      /\ pending' = [pending EXCEPT ![slot] = None]
      /\ UNCHANGED <<length, read, held, submitted, slot, at>>
  BY DEF Finish
<1>2. /\ slot \in Slots /\ pending[slot] # None /\ pending[slot] \in Nat
      /\ at < pending[slot] /\ pending[slot] < read /\ Sampled(pending[slot])
      /\ held # None => pending[slot] < held
      /\ \A s \in Slots : pending[s] # None => pending[slot] <= pending[s]
  BY <1>1, RingTyping DEF RingTypeOK, PendingOK, WaitOK
<1>3. /\ pending' \in [Slots -> Nat \cup {None}] /\ pending'[slot] = None
      /\ \A s \in Slots : s # slot => pending'[s] = pending[s]
  BY <1>1, <1>2, RingTyping DEF RingTypeOK
<1>4. RingTypeOK'
  BY <1>1, <1>2, <1>3, RingTyping DEF RingTypeOK
<1>5. \A s \in Slots : s # slot /\ pending[s] # None => pending[slot] < pending[s]
  <2>1. \A s \in Slots : s # slot => Earlier(Turn, s, slot) \/ Earlier(Turn, slot, s)
    BY <1>2, RingTyping DEF Earlier, Slots
  <2> QED  BY <1>1, <1>2, <2>1, RingTyping DEF RingTypeOK, PendingOK
<1>6. PendingOK'
  <2>1. ASSUME NEW s \in Slots, NEW t \in Slots, pending'[s] # None, pending'[t] # None,
               Earlier(Turn, s, t)
        PROVE  pending'[s] < pending'[t]
    BY <1>1, <1>3, <2>1, RingTyping DEF PendingOK
  <2>2. ASSUME NEW s \in Slots, pending'[s] # None
        PROVE  /\ at < pending'[s] /\ current' < pending'[s] /\ pending'[s] < read
               /\ Sampled(pending'[s]) /\ (held # None => pending'[s] < held)
    BY <1>1, <1>3, <1>5, <2>2, RingTyping DEF PendingOK
  <2> QED  BY <1>1, <2>1, <2>2 DEF PendingOK, Sampled, Turn
<1>7. HeldOK' /\ CurrentOK' /\ WaitOK'
  BY <1>1, <1>2, <1>3, RingTyping DEF RingTypeOK, HeldOK, CurrentOK, WaitOK, Sampled, Turn
<1>8. AllThere'
  <2>1. ASSUME NEW f \in Nat, at < f, f < read, Sampled(f)
        PROVE  f \in {held, current'} \/ \E s \in Slots : pending'[s] = f
    <3>1. current = None  BY <1>1, RingTyping DEF CurrentOK
    <3>2. f # current  BY <3>1, RingTyping
    <3> QED  BY <1>1, <1>3, <2>1, <3>2, RingTyping DEF AllThere
  <2> QED  BY <1>1, <2>1 DEF AllThere, Sampled
<1> QED  BY <1>1, <1>2, <1>4, <1>6, <1>7, <1>8 DEF RingInv

\* The requests that are left are waited for, the earliest frame first.
LEMMA DrainRing ==
  ASSUME RingInv, EndOfVideo \/ Drain \/ EndAnalysis
  PROVE  RingInv'
<1>1. CASE EndOfVideo
  BY <1>1, RingTyping
  DEF EndOfVideo, ring, RingInv, RingTypeOK, PendingOK, HeldOK, CurrentOK, WaitOK, AllThere,
      Sampled, Turn
<1>2. CASE Drain
  <2>1. /\ pc = "drain" /\ Busy # {} /\ slot' = EarliestPending /\ pc' = "wait"
        /\ UNCHANGED <<length, read, held, submitted, pending, current, at>>
    BY <1>2 DEF Drain
  <2>2. slot' \in Busy /\ \A t \in Busy : pending[slot'] <= pending[t]
    <3>1. \A s \in Busy : pending[s] \in Nat
      BY RingTyping DEF RingTypeOK, Busy
    <3>2. \E n \in {pending[s] : s \in Busy} : \A m \in {pending[s] : s \in Busy} : n <= m
      BY <2>1, <3>1, HasLeast
    <3>3. \E s \in Busy : \A t \in Busy : pending[s] <= pending[t]
      BY <3>2
    <3> QED  BY <2>1, <3>3 DEF EarliestPending
  <2> QED
    BY <2>1, <2>2, RingTyping
    DEF RingInv, RingTypeOK, PendingOK, HeldOK, CurrentOK, WaitOK, AllThere, Sampled, Turn, Busy
<1>3. CASE EndAnalysis
  BY <1>3, RingTyping DEF EndAnalysis, ring, RingInv, RingTypeOK, Ends
<1> QED  BY <1>1, <1>2, <1>3

\* The tracker follows the frame that is observed and never overtakes it.
LEMMA ObserveRing ==
  ASSUME RingInv, ObserveSkipped \/ ObserveSampled
  PROVE  /\ RingInv' /\ at < at'
         /\ at' = at + 1 /\ at' < length
         /\ sampled' = IF Sampled(at') THEN sampled \cup {at'} ELSE sampled
<1>1. /\ pc = "observe" /\ pc' = "predict"
      /\ UNCHANGED <<length, read, held, submitted, pending, slot, current>>
  BY DEF ObserveSkipped, ObserveSampled, BeginFrame, ring
<1>2. /\ current \in Nat /\ at < current /\ current < read /\ Sampled(current)
      /\ at \in Int /\ at >= -1 /\ read <= length /\ length \in Nat /\ read \in Nat
  BY <1>1, RingTyping DEF RingTypeOK, CurrentOK
<1>3. at' = at + 1 /\ at' <= current
      /\ sampled' = IF Sampled(at') THEN sampled \cup {at'} ELSE sampled
  <2>1. CASE ObserveSkipped
    <3>1. at + 1 < current /\ at' = at + 1 /\ sampled' = sampled
      BY <2>1 DEF ObserveSkipped, BeginFrame
    <3>2. ASSUME Sampled(at + 1) PROVE FALSE
      <4>1. at + 1 \in Nat /\ at < at + 1 /\ at + 1 < read  BY <1>2, <3>1
      <4>2. at + 1 \in {held, current} \/ \E s \in Slots : pending[s] = at + 1
        BY <1>1, <3>2, <4>1, RingTyping DEF AllThere
      <4>3. held # None => current < held
        BY <1>1, RingTyping DEF HeldOK
      <4>4. \A s \in Slots : pending[s] # None => current < pending[s]
        BY <1>1, RingTyping DEF PendingOK
      <4>5. None = -1  BY RingTyping
      <4> QED  BY <1>2, <3>1, <4>1, <4>2, <4>3, <4>4, <4>5
    <3> QED  BY <1>2, <3>1, <3>2
  <2>2. CASE ObserveSampled
    <3>1. at + 1 >= current /\ at' = current /\ sampled' = sampled \cup {current}
      BY <2>2 DEF ObserveSampled, BeginFrame
    <3>2. current = at + 1  BY <1>2, <3>1
    <3> QED  BY <1>2, <3>1, <3>2
  <2> QED  BY <2>1, <2>2
<1>4. RingTypeOK'
  BY <1>1, <1>2, <1>3, RingTyping DEF RingTypeOK
<1>5. PendingOK' /\ HeldOK'
  BY <1>1, <1>2, <1>3, RingTyping DEF RingTypeOK, PendingOK, HeldOK, Turn, Sampled
<1>6. CurrentOK' /\ WaitOK'
  BY <1>1, <1>2, <1>3, RingTyping DEF RingTypeOK, CurrentOK, WaitOK, Sampled
<1>7. AllThere'
  BY <1>1, <1>2, <1>3, RingTyping DEF RingTypeOK, AllThere, Sampled
<1> QED  BY <1>2, <1>3, <1>4, <1>5, <1>6, <1>7 DEF RingInv

\* The frame is over; without a frame in hand only the requests are left.
LEMMA EndFrameRing ==
  ASSUME RingInv, EndFrame
  PROVE  RingInv'
<1>1. /\ pc = "predict"
      /\ UNCHANGED <<length, read, held, submitted, pending, slot, at>>
  BY DEF EndFrame
<1>2. /\ at < current => pc' = "observe" /\ current' = current
      /\ ~(at < current) => pc' = (IF held = None THEN "drain" ELSE "read") /\ current' = None
  BY DEF EndFrame
<1>3. /\ current \in Nat /\ at \in Int /\ at <= current /\ current < read /\ Sampled(current)
  BY <1>1, RingTyping DEF RingTypeOK, CurrentOK
<1>4. RingTypeOK'
  BY <1>1, <1>2, <1>3, RingTyping DEF RingTypeOK
<1>5. CASE at < current
  BY <1>1, <1>2, <1>4, <1>5, RingTyping
  DEF RingInv, RingTypeOK, PendingOK, HeldOK, CurrentOK, WaitOK, AllThere, Turn, Sampled
<1>6. CASE ~(at < current)
  <2>1. at = current /\ current' = None /\ pc' = IF held = None THEN "drain" ELSE "read"
    BY <1>2, <1>3, <1>6
  <2>2. PendingOK' /\ HeldOK'
    BY <1>1, <1>3, <2>1, RingTyping DEF RingTypeOK, PendingOK, HeldOK, Turn, Sampled
  <2>3. CurrentOK' /\ WaitOK'
    BY <1>1, <1>3, <2>1, RingTyping DEF CurrentOK, WaitOK, Sampled
  <2>4. AllThere'
    BY <1>1, <1>3, <2>1, RingTyping DEF AllThere, Sampled
  <2> QED  BY <1>4, <2>2, <2>3, <2>4 DEF RingInv
<1> QED  BY <1>5, <1>6

\* Nothing is read.
LEMMA RingInitial == CountingInit => RingInv
<1> SUFFICES ASSUME CountingInit PROVE RingInv
  OBVIOUS
<1>1. 0 \in Slots
  BY CountingAssumption DEF Slots
<1>2. RingTypeOK
  BY <1>1, CountingAssumption DEF CountingInit, RingTypeOK, None
<1>3. PendingOK /\ HeldOK /\ CurrentOK /\ WaitOK /\ AllThere
  BY <1>1 DEF CountingInit, PendingOK, HeldOK, CurrentOK, WaitOK, AllThere, None
<1> QED  BY <1>2, <1>3 DEF RingInv

\* Every step keeps the order of the ring.
LEMMA RingInductive ==
  ASSUME RingInv, [CountingNext]_vars
  PROVE  RingInv'
<1>1. CASE Interrupted \/ Fail
  BY <1>1, GiveUpRing DEF Interrupted, Fail, Ends
<1>2. CASE SkipFrame \/ ReadFrame \/ Submit \/ Finish \/ EndOfVideo \/ Drain \/ EndAnalysis
  BY <1>2, SkipFrameRing, ReadFrameRing, SubmitRing, FinishRing, DrainRing
<1>3. CASE ObserveSkipped \/ ObserveSampled \/ EndFrame
  BY <1>3, ObserveRing, EndFrameRing
<1>4. ASSUME \/ \E t \in Track : ObserveConfirmed(t) \/ ObserveRecovered(t)
             \/ \E s \in Slots : Complete(s)
             \/ RequestShutdown
             \/ UNCHANGED vars
      PROVE  RingInv'
  <2>1. UNCHANGED <<pc, length, read, held, submitted, pending, slot, current, at>>
    BY <1>4 DEF ObserveConfirmed, ObserveRecovered, Counted, Complete, RequestShutdown, ring, vars
  <2> QED
    BY <2>1 DEF RingInv, RingTypeOK, PendingOK, HeldOK, CurrentOK, WaitOK, AllThere, Turn, Sampled
<1> QED  BY <1>1, <1>2, <1>3, <1>4 DEF CountingNext, Analyze, Observation

-----------------------------------------------------------------------------
(* Frame by frame.                                                         *)

\* A count is given after the last sampled frame only.
LEMMA EndIsLast ==
  ASSUME RingInv, EndAnalysis, at # None
  PROVE  at \in Sequential!LastSampled
<1>1. pc = "drain" /\ \A s \in Slots : pending[s] = None
  BY DEF EndAnalysis, Busy
<1>2. held = None /\ current = None /\ read = length /\ Sampled(at)
  BY <1>1, RingTyping DEF CurrentOK, WaitOK
<1>3. at \in Nat /\ at < length /\ length \in Nat /\ Stride \in Nat \ {0}
  BY <1>2, RingTyping DEF RingTypeOK
<1>4. ASSUME at + Stride < length PROVE FALSE
  <2>1. Sampled(at + Stride)
    BY <1>2, <1>3, NextMultiple DEF Sampled
  <2>2. at + Stride \in Nat /\ at < at + Stride
    BY <1>3
  <2>3. at + Stride \in {None} \/ \E s \in Slots : pending[s] = at + Stride
    BY <1>1, <1>2, <1>4, <2>1, <2>2, RingTyping DEF AllThere
  <2> QED  BY <1>1, <2>2, <2>3, RingTyping
<1> QED
  BY <1>2, <1>3, <1>4 DEF Sequential!LastSampled, Sequential!IsSampled, Sampled

\* Every step is one of the sequential analysis, or none.
LEMMA StepsFrameByFrame ==
  ASSUME RingInv, [CountingNext]_vars
  PROVE  [Sequential!Next]_(Sequential!vars)
<1> DEFINE Open == pc \notin Ends
<1>1. CASE Interrupted \/ Fail
  <2>1. /\ Open /\ pc' \in {"cancelled", "failed"} /\ UNCHANGED <<length, at, sampled>>
    BY <1>1 DEF Interrupted, Fail, GiveUp, Ends
  <2> QED
    BY <2>1 DEF Sequential!Next, Sequential!GiveUp, Outcome, Ends
<1>2. CASE EndAnalysis
  <2>1. /\ Open /\ pc' = (IF at = None THEN "failed" ELSE "counted")
        /\ UNCHANGED <<length, at, sampled>>
    BY <1>2 DEF EndAnalysis, ring, Ends
  <2>2. CASE at = None
    BY <2>1, <2>2 DEF Sequential!Next, Sequential!GiveUp, Outcome, Ends
  <2>3. CASE at # None
    <3>1. at \in Sequential!LastSampled  BY <1>2, <2>3, EndIsLast
    <3> HIDE DEF Sequential!LastSampled
    <3> QED
      BY <2>1, <2>3, <3>1 DEF Sequential!Next, Sequential!Count, Outcome, Ends
  <2> QED  BY <2>2, <2>3
<1>3. CASE ObserveSkipped \/ ObserveSampled
  <2>1. Open /\ pc' = "predict" /\ length' = length
    BY <1>3 DEF ObserveSkipped, ObserveSampled, BeginFrame, ring, Ends
  <2>2. /\ at' = at + 1 /\ at' < length
        /\ sampled' = IF Sampled(at') THEN sampled \cup {at'} ELSE sampled
    BY <1>3, ObserveRing
  <2> QED
    BY <2>1, <2>2
    DEF Sequential!Next, Sequential!Observe, Sequential!IsSampled, Sampled, Outcome, Ends
<1>4. ASSUME \/ SkipFrame \/ ReadFrame \/ Submit \/ Finish \/ EndOfVideo \/ Drain \/ EndFrame
             \/ \E t \in Track : ObserveConfirmed(t) \/ ObserveRecovered(t)
             \/ \E s \in Slots : Complete(s)
             \/ RequestShutdown
             \/ UNCHANGED vars
      PROVE  UNCHANGED Sequential!vars
  <2>1. UNCHANGED <<length, at, sampled>>
    BY <1>4
    DEF SkipFrame, ReadFrame, Submit, Finish, EndOfVideo, Drain, EndFrame,
        ObserveConfirmed, ObserveRecovered, Counted, Complete, RequestShutdown, ring, vars
  <2>2. pc' = pc \/ {pc, pc'} \subseteq {"read", "wait", "observe", "predict", "drain"}
    BY <1>4
    DEF SkipFrame, ReadFrame, Submit, Finish, EndOfVideo, Drain, EndFrame,
        ObserveConfirmed, ObserveRecovered, Counted, Complete, RequestShutdown, ring, vars
  <2> QED  BY <2>1, <2>2 DEF Sequential!vars, Outcome, Ends
<1> QED
  BY <1>1, <1>2, <1>3, <1>4 DEF CountingNext, Analyze, Observation

\* observe_completed_frame, earliest_pending_slot: whatever order the requests
\* complete in, the analysis observes every frame once and in order, and counts
\* after the last sampled one only.
THEOREM AnalysisProved == CountingSpec => AnalysisIsSequential
<1>1. CountingInit => Sequential!Init
  BY CountingAssumption DEF CountingInit, Sequential!Init, Outcome, Ends, None
<1>2. RingInv /\ [CountingNext]_vars => RingInv'  BY RingInductive
<1>3. RingInv /\ [CountingNext]_vars => [Sequential!Next]_(Sequential!vars)
  BY StepsFrameByFrame
<1> QED
  BY RingInitial, <1>1, <1>2, <1>3, PTL DEF CountingSpec, AnalysisIsSequential, Sequential!Spec

-----------------------------------------------------------------------------
(* Lost tracks.                                                            *)

\* A history began with a track of an earlier frame, or with one of this frame
\* that is counted already: one that begins now is nobody else's.
OriginsOK ==
  /\ origin \in [Track -> Track \X Int]
  /\ \A t \in Track : Known(t) =>
       origin[t][2] <= at /\ (origin[t][2] = at => todo[origin[t][1]] = "none")
  /\ LostTrackGoesOnOnce

\* Histories that only end, and tracks that are only counted off.
LEMMA OriginsStay ==
  ASSUME OriginsOK, UNCHANGED origin, \A t \in Track : Known(t)' => Known(t),
         \/ at' = at /\ \A t \in Track : todo'[t] \in {todo[t], "none"}
         \/ at \in Int /\ at' \in Int /\ at < at'
  PROVE  OriginsOK'
<1>1. \A t \in Track : origin[t] \in Track \X Int  BY DEF OriginsOK
<1>2. LostTrackGoesOnOnce'  BY DEF OriginsOK, LostTrackGoesOnOnce
<1>3. ASSUME NEW t \in Track, Known(t)'
      PROVE  origin[t][2] <= at' /\ (origin[t][2] = at' => todo'[origin[t][1]] = "none")
  <2>1. origin[t][2] \in Int /\ origin[t][1] \in Track  BY <1>1
  <2>2. origin[t][2] <= at /\ (origin[t][2] = at => todo[origin[t][1]] = "none")
    BY <1>3 DEF OriginsOK
  <2> QED  BY <2>1, <2>2
<1> QED  BY <1>2, <1>3 DEF OriginsOK

\* A new frame: every history is of an earlier one.
LEMMA BeginFrameOrigins ==
  ASSUME RingInv, OriginsOK, ObserveSkipped \/ ObserveSampled
  PROVE  OriginsOK'
<1>1. UNCHANGED origin /\ histories' = [t \in Track |-> Discarded(histories[t])]
  BY DEF ObserveSkipped, ObserveSampled, BeginFrame
<1>2. \A t \in Track : Known(t)' => Known(t)
  BY <1>1 DEF Known, Discarded
<1>3. at < at' /\ at \in Int /\ at' \in Int
  BY ObserveRing, RingTyping DEF RingTypeOK
<1> QED  BY <1>1, <1>2, <1>3, OriginsStay

\* A prediction begins no history.
LEMMA EndFrameOrigins ==
  ASSUME OriginsOK, EndFrame
  PROVE  OriginsOK'
<1>1. UNCHANGED <<origin, todo, at>>  BY DEF EndFrame
<1>2. PICK to \in [Predicted -> Sides \cup {"line"}] :
        histories' = [t \in Track |->
          IF t \in Predicted /\ to[t] # "line" THEN Predict(histories[t], to[t])
          ELSE histories[t]]
  BY DEF EndFrame
<1>3. \A t \in Track : Known(t)' => Known(t)
  BY <1>2 DEF Known, Predicted
<1> QED  BY <1>1, <1>3, OriginsStay

\* A track that is not known begins a history of its own, in this frame.
LEMMA ObserveConfirmedOrigins ==
  ASSUME RingInv, CInv, OriginsOK, NEW t \in Track, ObserveConfirmed(t)
  PROVE  OriginsOK'
<1>1. /\ todo[t] # "none" /\ at' = at
      /\ todo' = [todo EXCEPT ![t] = "none"]
      /\ histories' = [histories EXCEPT ![t] = NewHistory(t)]
      /\ origin' = IF Known(t) THEN origin ELSE [origin EXCEPT ![t] = <<t, at>>]
  BY DEF ObserveConfirmed, Counted
<1>2. /\ \A x \in Track \ {t} : histories'[x] = histories[x]
      /\ todo'[t] = "none" /\ \A x \in Track : todo'[x] \in {todo[x], "none"}
  BY <1>1 DEF CInv
<1>3. \A x \in Track \ {t} : Known(x)' => Known(x)
  BY <1>2 DEF Known
<1>4. CASE Known(t)
  BY <1>1, <1>2, <1>3, <1>4, OriginsStay
<1>5. CASE ~Known(t)
  <2>1. /\ origin' = [origin EXCEPT ![t] = <<t, at>>] /\ at \in Int
        /\ origin \in [Track -> Track \X Int]
    BY <1>1, <1>5, RingTyping DEF RingTypeOK, OriginsOK
  <2>2. /\ origin' \in [Track -> Track \X Int] /\ origin'[t] = <<t, at>>
        /\ \A x \in Track \ {t} : origin'[x] = origin[x]
    BY <2>1
  <2>3. ASSUME NEW x \in Track \ {t}, Known(x)'
        PROVE  /\ origin[x] # <<t, at>>
               /\ origin[x][2] <= at /\ (origin[x][2] = at => todo'[origin[x][1]] = "none")
    <3>1. origin[x][2] <= at /\ (origin[x][2] = at => todo[origin[x][1]] = "none")
      BY <1>3, <2>3 DEF OriginsOK
    <3>2. origin[x] \in Track \X Int  BY <2>1
    <3> QED  BY <1>1, <1>2, <3>1, <3>2
  <2>4. LostTrackGoesOnOnce'
    BY <1>3, <2>2, <2>3 DEF OriginsOK, LostTrackGoesOnOnce
  <2>5. ASSUME NEW x \in Track, Known(x)'
        PROVE  origin'[x][2] <= at' /\ (origin'[x][2] = at' => todo'[origin'[x][1]] = "none")
    <3>1. CASE x = t  BY <1>1, <1>2, <2>1, <2>2, <3>1
    <3>2. CASE x # t  BY <1>1, <2>2, <2>3, <2>5, <3>2
    <3> QED  BY <3>1, <3>2
  <2> QED  BY <2>2, <2>4, <2>5 DEF OriginsOK
<1> QED  BY <1>4, <1>5

\* A track that goes on from a lost one takes its origin along.
LEMMA ObserveRecoveredOrigins ==
  ASSUME CInv, OriginsOK, NEW t \in Track, ObserveRecovered(t)
  PROVE  OriginsOK'
<1>1. PICK l \in Recoverable(t) :
        /\ histories' = [histories EXCEPT ![t] = NewHistory(t), ![l] = NoHistory]
        /\ origin' = [origin EXCEPT ![t] = origin[l]]
  BY DEF ObserveRecovered
<1>2. /\ l \in Track \ {t} /\ Known(l) /\ at' = at
      /\ todo' = [todo EXCEPT ![t] = "none"]
  BY DEF ObserveRecovered, Recoverable, Counted
<1>3. /\ origin \in [Track -> Track \X Int]
      /\ origin' \in [Track -> Track \X Int] /\ origin'[t] = origin[l]
      /\ \A x \in Track \ {t} : origin'[x] = origin[x]
  BY <1>1, <1>2 DEF OriginsOK
<1>4. /\ ~Known(l)' /\ \A x \in Track \ {t} : Known(x)' => Known(x)
      /\ \A x \in Track : todo'[x] \in {todo[x], "none"}
  BY <1>1, <1>2 DEF CInv, Known
<1>5. LostTrackGoesOnOnce'
  BY <1>2, <1>3, <1>4 DEF OriginsOK, LostTrackGoesOnOnce
<1>6. ASSUME NEW x \in Track, Known(x)'
      PROVE  origin'[x][2] <= at' /\ (origin'[x][2] = at' => todo'[origin'[x][1]] = "none")
  <2>1. PICK y \in Track : Known(y) /\ origin'[x] = origin[y]
    BY <1>2, <1>3, <1>4, <1>6
  <2>2. origin[y][2] <= at /\ (origin[y][2] = at => todo[origin[y][1]] = "none")
    BY <2>1 DEF OriginsOK
  <2>3. origin[y] \in Track \X Int  BY <1>3
  <2> QED  BY <1>2, <1>4, <2>1, <2>2, <2>3
<1> QED  BY <1>3, <1>5, <1>6 DEF OriginsOK

\* No track has a history.
LEMMA OriginsInitial == CountingInit => OriginsOK
<1> SUFFICES ASSUME CountingInit PROVE OriginsOK
  OBVIOUS
<1>1. \A t \in Track : ~Known(t)
  BY DEF CountingInit, Known
<1>2. origin \in [Track -> Track \X Int]
  BY DEF CountingInit, None
<1> QED  BY <1>1, <1>2 DEF OriginsOK, LostTrackGoesOnOnce

\* Every step keeps the origins apart.
LEMMA OriginsInductive ==
  ASSUME RingInv, CInv, OriginsOK, [CountingNext]_vars
  PROVE  OriginsOK'
<1>1. CASE Observation
  BY <1>1, BeginFrameOrigins, EndFrameOrigins, ObserveConfirmedOrigins, ObserveRecoveredOrigins
  DEF Observation
<1>2. CASE UNCHANGED <<counter, at>>
  BY <1>2, OriginsStay DEF counter, OriginsOK, Known
<1>3. ~Observation => UNCHANGED <<counter, at>>
  BY DEF CountingNext, Analyze, Interrupted, GiveUp, SkipFrame, ReadFrame, Submit, Finish,
         EndOfVideo, Drain, EndAnalysis, Fail, RequestShutdown, Complete, vars, counter
<1> QED  BY <1>1, <1>2, <1>3

\* recover_lost_track removes the history it goes on from, so that no two tracks
\* go on from the same lost one.
THEOREM LostTrackProved == CountingSpec => []LostTrackGoesOnOnce
<1>1. RingInv /\ CInv /\ OriginsOK /\ [CountingNext]_vars => RingInv' /\ CInv' /\ OriginsOK'
  BY RingInductive, CountingInductive, OriginsInductive
<1>2. CountingInit => RingInv /\ CInv /\ OriginsOK
  BY RingInitial, CountingInitial, OriginsInitial
<1>3. OriginsOK => LostTrackGoesOnOnce  BY DEF OriginsOK
<1> QED
  BY <1>1, <1>2, <1>3, PTL DEF CountingSpec
=============================================================================
