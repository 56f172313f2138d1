---------------------------- MODULE Pipeline_proofs ----------------------------
(***************************************************************************)
(* Proofs about Uploader and Pipeline, for every set of sessions, any      *)
(* number of uploaders, every retry policy, every bound, and a clock that  *)
(* may jump in both directions.                                            *)
(*                                                                         *)
(* Of the queue and the uploaders: nothing is lost and nothing is sent too *)
(* early whatever the number of uploaders; with one uploader no attempt    *)
(* ends in an error, a result is recorded again only after trouble, a dead *)
(* letter stays as it is, and no row waits longer than documented.  For    *)
(* the last one, what the recursive functions of the retry policy compute  *)
(* is proved by induction: from the least number of a set, which the       *)
(* library's theorem about well-founded relations gives.                   *)
(*                                                                         *)
(* Of the whole: the inductive invariant follows a result along its way.   *)
(* It is prepared only while the processor, or the recovery after it,      *)
(* still owes the deletion of the video or the publication; it is visible, *)
(* or known to the API, only once the video is gone.                       *)
(***************************************************************************)
EXTENDS Pipeline, TLAPS, WellFoundedInduction

Prepared == InState("prepared")
Visible  == InState("pending") \cup InState("dead_letter")
Pending  == InState("pending")

-----------------------------------------------------------------------------
(* Rows.                                                                   *)

\* A row is prepared or visible, not both.
LEMMA RowStates ==
  ASSUME RowsOK
  PROVE  /\ \A s \in Session : Contains(s) <=> s \in Prepared \cup Visible
         /\ Prepared \cap Visible = {}
         /\ Prepared \subseteq Session /\ Visible \subseteq Session
  BY NoRowAssumption DEF RowsOK, Row, States, Contains, InState, Prepared, Visible

\* A new result is prepared: insert shows the uploader nothing.
LEMMA InsertEffect ==
  ASSUME RowsOK, NEW s \in Session, NEW r \in Result, NEW now \in Nat, ~Contains(s),
         Insert(s, r, now)
  PROVE  RowsOK' /\ Prepared' = Prepared \cup {s} /\ Visible' = Visible
  BY NoRowAssumption
  DEF RowsOK, Row, States, Contains, InState, Prepared, Visible, Insert

\* publish turns a prepared row into a visible one.
LEMMA PublishEffect ==
  ASSUME RowsOK, NEW s \in Prepared, Publish(s)
  PROVE  RowsOK' /\ Prepared' = Prepared \ {s} /\ Visible' = Visible \cup {s}
  BY NoRowAssumption
  DEF RowsOK, Row, States, Contains, InState, Prepared, Visible, Publish

\* delete takes the row out of both sets.
LEMMA DeleteEffect ==
  ASSUME RowsOK, NEW s \in Session, Delete(s)
  PROVE  RowsOK' /\ Prepared' = Prepared \ {s} /\ Visible' = Visible \ {s}
  BY NoRowAssumption
  DEF RowsOK, Row, States, Contains, InState, Prepared, Visible, Delete

\* What the uploader and the operator do to a row leaves it visible.
LEMMA VisibleEffect ==
  ASSUME RowsOK, NEW s \in Visible, NEW due \in Nat,
         Reschedule(s, due) \/ DeadLetter(s) \/ Requeue(s, due)
  PROVE  RowsOK' /\ Prepared' = Prepared /\ Visible' = Visible
  <1>1. s \in Session /\ Contains(s) /\ rows[s] \in Row
    BY DEF Visible, InState, RowsOK, Contains
  <1> PICK r \in Row : r = rows[s]
    BY <1>1
  <1> PICK n \in Nat : n = r.attempts + 1
    BY DEF Row
  <1>0. r.state \in {"pending", "dead_letter"}
    BY DEF Visible, InState
  <1>2. PICK row \in Row : rows' = [rows EXCEPT ![s] = row]
                           /\ row.state \in {"pending", "dead_letter"}
    <2>1. CASE Reschedule(s, due)
      <3> DEFINE update == [r EXCEPT !.attempts = n, !.due = due]
      <3>1. rows' = [rows EXCEPT ![s] = update]
        BY <1>1, <2>1 DEF Reschedule, RowsOK
      <3>2. update \in Row /\ update.state = r.state
        BY DEF Row, States
      <3> HIDE DEF update
      <3> QED BY <1>0, <3>1, <3>2
    <2>2. CASE DeadLetter(s)
      <3> DEFINE update == [r EXCEPT !.state = "dead_letter", !.attempts = n]
      <3>1. rows' = [rows EXCEPT ![s] = update]
        BY <1>1, <2>2 DEF DeadLetter, RowsOK
      <3>2. update \in Row /\ update.state = "dead_letter"
        BY DEF Row, States
      <3> HIDE DEF update
      <3> QED BY <3>1, <3>2
    <2>3. CASE Requeue(s, due)
      <3> DEFINE update == [r EXCEPT !.state = "pending", !.attempts = 0, !.due = due]
      <3>1. rows' = [rows EXCEPT ![s] = update]
        BY <1>1, <2>3 DEF Requeue, RowsOK
      <3>2. update \in Row /\ update.state = "pending"
        BY DEF Row, States
      <3> HIDE DEF update
      <3> QED BY <3>1, <3>2
    <2> QED BY <2>1, <2>2, <2>3
  <1>3. RowsOK'
    BY <1>1, <1>2 DEF RowsOK
  <1>4. s \notin Prepared
    BY RowStates
  <1>5. \A x \in Session : rows'[x] = IF x = s THEN row ELSE rows[x]
    BY <1>1, <1>2 DEF RowsOK
  <1>6. Prepared' = Prepared
    BY <1>1, <1>2, <1>4, <1>5, NoRowAssumption DEF Prepared, InState, Contains
  <1>7. Visible' = Visible
    BY <1>1, <1>2, <1>5, NoRowAssumption DEF Visible, InState, Contains
  <1> QED BY <1>3, <1>6, <1>7

\* A step that leaves the table alone leaves both sets alone.
LEMMA RowsUnchanged ==
  ASSUME RowsOK, UNCHANGED rows
  PROVE  RowsOK' /\ Prepared' = Prepared /\ Visible' = Visible
  BY DEF RowsOK, Prepared, Visible, InState, Contains

-----------------------------------------------------------------------------
(* The inductive invariant for any number of uploaders.                    *)

\* An attempt is made for a committed result that is no longer prepared; the
\* API has recorded what it says was delivered.
AttemptOK(t) ==
  /\ t.pc \in {"sending", "answered"} => t.session \in deposited /\ t.session \notin Prepared
  /\ t.pc = "answered" /\ t.answer = "delivered" => received[t.session] > 0

Known == \A s \in Session : s \in Prepared \cup Visible \/ received[s] > 0 => s \in deposited
SentIsOpen == \A s \in Session : received[s] > 0 => s \notin Prepared
Kept == \A s \in deposited : s \in Prepared \cup Visible \/ received[s] > 0

UInv ==
  /\ UploaderTypeOK
  /\ \A u \in Uploaders : AttemptOK(task[u])
  /\ Known /\ SentIsOpen /\ Kept

\* With one uploader: what it works on is pending until it settles it, and a
\* row that is still there was recorded no more often than there was trouble,
\* but for the answer the uploader has in hand.
OneUploader == \E u : Uploaders = {u}

Owed(t, s) == t.pc = "answered" /\ t.answer = "delivered" /\ t.session = s
AloneOK(t) == t.pc # "error" /\ (t.pc \in {"sending", "answered"} => t.session \in Pending)
CountedBy(t, s) ==
  /\ received[s] <= 1 + trouble[s]
  /\ Contains(s) /\ ~Owed(t, s) => received[s] <= trouble[s]

OInv ==
  /\ UInv
  /\ \A u \in Uploaders : AloneOK(task[u])
  /\ \A u \in Uploaders, s \in Session : CountedBy(task[u], s)

-----------------------------------------------------------------------------
(* What steps must keep, by what they change.                              *)

\* What the invariant says of types.
LEMMA Typing ==
  ASSUME UInv
  PROVE  /\ RowsOK /\ clock \in Times /\ latest \in Times /\ clock <= latest
         /\ clock \in Nat /\ latest \in Nat /\ MaxTime \in Nat
         /\ task \in [Uploaders -> Task] /\ interventions \in Nat /\ deposited \subseteq Session
         /\ received \in [Session -> Nat] /\ trouble \in [Session -> Nat]
BY UploaderAssumption DEF UInv, UploaderTypeOK, Times

\* Steps of uploader u: they may only lose rows the API has recorded, and only
\* deliver what is committed and visible.
LEMMA AttemptFrame ==
  ASSUME UInv, NEW u \in Uploaders, NEW t \in Task, Goto(u, t), AttemptOK(t)',
         UNCHANGED <<clock, latest, deposited>>,
         RowsOK', Prepared' = Prepared, Visible' \subseteq Visible,
         interventions' \in Nat, received' \in [Session -> Nat], trouble' \in [Session -> Nat],
         \A s \in Session : received'[s] >= received[s],
         \A s \in Visible \ Visible' : received'[s] > 0,
         \A s \in Session : received'[s] # received[s] => s \in deposited /\ s \notin Prepared
  PROVE  UInv'
<1>1. UploaderTypeOK'
  BY DEF UInv, UploaderTypeOK, RowsOK, Goto
<1>2. ASSUME NEW v \in Uploaders PROVE AttemptOK(task[v])'
  <2>1. CASE v = u
    BY <2>1, Typing DEF Goto
  <2>2. CASE v # u
    <3>1. task'[v] = task[v] /\ AttemptOK(task[v])
      BY <2>2, Typing DEF Goto, UInv
    <3> QED BY <3>1, Typing DEF AttemptOK
  <2> QED BY <2>1, <2>2
<1>3. Prepared \subseteq Session /\ Visible \subseteq Session
  BY RowStates, Typing
<1>4. Known' /\ SentIsOpen'
  BY <1>3, Typing DEF UInv, Known, SentIsOpen
<1>5. Kept'
  BY <1>3, Typing DEF UInv, Kept
<1> QED BY <1>1, <1>2, <1>4, <1>5 DEF UInv

\* Steps that leave the uploaders and the API alone.
LEMMA QueueFrame ==
  ASSUME UInv, UNCHANGED <<task, received, trouble>>,
         RowsOK', clock' \in Times, latest' \in clock' .. MaxTime, interventions' \in Nat,
         deposited' \subseteq Session, deposited \subseteq deposited',
         \A s \in Prepared' \cup Visible' : s \in deposited',
         \A s \in Prepared' \ Prepared : s \notin deposited,
         \A s \in deposited' : s \in Prepared' \cup Visible' \/ s \in deposited,
         Prepared \cup Visible \subseteq Prepared' \cup Visible'
  PROVE  UInv'
<1>1. UploaderTypeOK'
  BY DEF UInv, UploaderTypeOK
<1>2. ASSUME NEW u \in Uploaders PROVE AttemptOK(task[u])'
  BY DEF UInv, AttemptOK
<1>3. Known' /\ SentIsOpen' /\ Kept'
  BY Typing DEF UInv, Known, SentIsOpen, Kept
<1> QED BY <1>1, <1>2, <1>3 DEF UInv

\* The step of the only uploader.
LEMMA AloneFrame ==
  ASSUME OneUploader, OInv, NEW u \in Uploaders, NEW t \in Task, Goto(u, t), UInv',
         AloneOK(t)', \A s \in Session : CountedBy(t, s)'
  PROVE  OInv'
<1>1. \A v \in Uploaders : v = u
  BY DEF OneUploader
<1>2. task'[u] = t
  BY Typing DEF Goto, OInv
<1>3. ASSUME NEW v \in Uploaders PROVE AloneOK(task[v])'
  BY <1>1, <1>2
<1>4. ASSUME NEW v \in Uploaders, NEW s \in Session PROVE CountedBy(task[v], s)'
  BY <1>1, <1>2
<1> QED BY <1>3, <1>4 DEF OInv

\* A step of the rest of the world, with one uploader.
LEMMA AloneQueueFrame ==
  ASSUME OInv, UNCHANGED <<task, received, trouble>>, UInv', Pending \subseteq Pending',
         \A s \in Session : Contains(s)' => Contains(s) \/ received[s] = 0
  PROVE  OInv'
<1>1. ASSUME NEW u \in Uploaders PROVE AloneOK(task[u])'
  BY DEF OInv, AloneOK
<1>2. ASSUME NEW u \in Uploaders, NEW s \in Session PROVE CountedBy(task[u], s)'
  BY Typing DEF OInv, CountedBy, Owed
<1> QED BY <1>1, <1>2 DEF OInv

-----------------------------------------------------------------------------
(* The rest of the world.                                                  *)

\* The processor commits a result.
LEMMA DepositKeeps ==
  ASSUME UInv, NEW s \in Session, Deposit(s)
  PROVE  UInv' /\ (OInv => OInv')
<1>1. PICK r \in Result, now \in 0 .. latest : Insert(s, r, now)  BY DEF Deposit
<1>2. s \notin deposited /\ deposited' = deposited \cup {s} /\ now \in Nat
      /\ UNCHANGED <<clock, latest, task, interventions, received, trouble>>
  BY <1>1, Typing DEF Deposit
<1>3. s \notin Prepared \cup Visible /\ received[s] = 0
  BY <1>2, Typing DEF UInv, Known
<1>4. ~Contains(s)
  BY <1>3, RowStates, Typing
<1>5. RowsOK' /\ Prepared' = Prepared \cup {s} /\ Visible' = Visible
  BY <1>1, <1>2, <1>4, InsertEffect, Typing
<1>6. UInv'
  <2>1. Prepared \cup Visible \subseteq deposited
    BY RowStates, Typing DEF UInv, Known
  <2> QED BY <1>2, <1>5, <2>1, QueueFrame, Typing DEF UInv, UploaderTypeOK
<1>7. \A x \in Session : x # s => rows'[x] = rows[x]
  BY <1>1, Typing DEF Insert, RowsOK
<1>8. Pending \subseteq Pending'
  BY <1>3, <1>7 DEF Pending, Visible, InState, Contains
<1>9. \A x \in Session : Contains(x)' => Contains(x) \/ received[x] = 0
  BY <1>3, <1>7 DEF Contains
<1> QED BY <1>2, <1>6, <1>8, <1>9, AloneQueueFrame

\* A prepared row becomes visible.
LEMMA ReleaseKeeps ==
  ASSUME UInv, NEW s \in Session, Release(s)
  PROVE  UInv' /\ (OInv => OInv')
<1>1. s \in Prepared /\ Publish(s)
      /\ UNCHANGED <<clock, latest, task, interventions, deposited, received, trouble>>
  BY DEF Release, Prepared
<1>2. RowsOK' /\ Prepared' = Prepared \ {s} /\ Visible' = Visible \cup {s}
  BY <1>1, PublishEffect, Typing
<1>3. Prepared \cup Visible \subseteq deposited
  BY RowStates, Typing DEF UInv, Known
<1>4. UInv'
  BY <1>1, <1>2, <1>3, QueueFrame, Typing DEF UInv, UploaderTypeOK
<1>5. \A x \in Session : x # s => rows'[x] = rows[x]
  BY <1>1, Typing DEF Publish, RowsOK
<1>6. s \notin Pending
  BY <1>1 DEF Prepared, Pending, InState
<1>7. Pending \subseteq Pending'
  BY <1>5, <1>6 DEF Pending, InState, Contains
<1>8. \A x \in Session : Contains(x)' => Contains(x)
  BY <1>1, <1>5 DEF Prepared, InState, Contains
<1> QED BY <1>1, <1>4, <1>7, <1>8, AloneQueueFrame

\* The operator makes a dead letter pending again.
LEMMA RequeueKeeps ==
  ASSUME UInv, NEW s \in Session, OperatorRequeues(s)
  PROVE  UInv' /\ (OInv => OInv')
<1>1. /\ s \in InState("dead_letter") /\ Requeue(s, clock) /\ interventions' = interventions + 1
      /\ UNCHANGED <<clock, latest, task, deposited, received, trouble>>
  BY DEF OperatorRequeues, Requeue
<1>2. RowsOK' /\ Prepared' = Prepared /\ Visible' = Visible
  BY <1>1, VisibleEffect, Typing DEF Visible
<1>3. Prepared \cup Visible \subseteq deposited
  BY RowStates, Typing DEF UInv, Known
<1>4. UInv'
  BY <1>1, <1>2, <1>3, QueueFrame, Typing DEF UInv, UploaderTypeOK
<1>5. \A x \in Session : x # s => rows'[x] = rows[x]
  BY <1>1, Typing DEF Requeue, RowsOK
<1>6. s \notin Pending
  BY <1>1 DEF Pending, InState
<1>7. Pending \subseteq Pending'
  BY <1>5, <1>6 DEF Pending, InState, Contains
<1>8. \A x \in Session : Contains(x)' => Contains(x)
  BY <1>1, <1>5 DEF InState, Contains
<1> QED BY <1>1, <1>4, <1>7, <1>8, AloneQueueFrame

\* The clock is read, never trusted.
LEMMA ClockKeeps ==
  ASSUME UInv, Tick \/ SetClockBack \/ UNCHANGED uvars
  PROVE  UInv' /\ (OInv => OInv')
<1>1. /\ UNCHANGED <<rows, task, deposited, received, trouble>> /\ interventions' \in Nat
      /\ clock' \in Times /\ latest' \in clock' .. MaxTime
  BY Typing DEF Tick, SetClockBack, uvars, Times
<1>2. RowsOK' /\ Prepared' = Prepared /\ Visible' = Visible
  BY <1>1, RowsUnchanged, Typing
<1>3. Prepared \cup Visible \subseteq deposited
  BY RowStates, Typing DEF UInv, Known
<1>4. UInv'
  BY <1>1, <1>2, <1>3, QueueFrame, Typing
<1>5. Pending \subseteq Pending' /\ \A x \in Session : Contains(x)' => Contains(x)
  BY <1>1 DEF Pending, InState, Contains
<1> QED BY <1>1, <1>4, <1>5, AloneQueueFrame

-----------------------------------------------------------------------------
(* The steps of an uploader.                                               *)

\* Where an uploader is between two attempts.
LEMMA BetweenAttempts ==
  ASSUME NEW pc \in {"down", "error", "idle"}
  PROVE  /\ At(pc) \in Task /\ At(pc).pc = pc
         /\ AttemptOK(At(pc))' /\ (pc # "error" => AloneOK(At(pc))')
         /\ \A s : ~Owed(At(pc), s)
BY UploaderAssumption DEF At, Task, Times, Answers, AttemptOK, AloneOK, Owed

\* A step that moves the only uploader from one place between attempts, or from
\* an attempt that was not delivered, to another.
LEMMA IdleKeeps ==
  ASSUME UInv, NEW u \in Uploaders, NEW pc \in {"down", "idle"}, Goto(u, At(pc)),
         UNCHANGED <<rows, clock, latest, deposited, received>>,
         interventions' \in Nat, trouble' \in [Session -> Nat],
         \A s \in Session : trouble'[s] >= trouble[s],
         \A s \in Session : Owed(task[u], s) => trouble'[s] = trouble[s] + 1
  PROVE  UInv' /\ (OneUploader /\ OInv => OInv')
<1>1. RowsOK' /\ Prepared' = Prepared /\ Visible' = Visible
  BY RowsUnchanged, Typing
<1>2. UInv'
  BY <1>1, BetweenAttempts, AttemptFrame, Typing
<1>3. ASSUME OInv, NEW s \in Session PROVE CountedBy(At(pc), s)'
  <2>1. CountedBy(task[u], s)  BY <1>3 DEF OInv
  <2>2. received[s] \in Nat /\ trouble[s] \in Nat /\ trouble'[s] \in Nat /\ received'[s] = received[s]
        /\ trouble'[s] >= trouble[s]
    BY Typing
  <2>3. (Contains(s))' => Contains(s)  BY DEF Contains
  <2>4. CASE Owed(task[u], s)
    <3>1. trouble'[s] = trouble[s] + 1  BY <2>4
    <3> QED BY <2>1, <2>2, <3>1 DEF CountedBy
  <2>5. CASE ~Owed(task[u], s)
    BY <2>1, <2>2, <2>3, <2>5 DEF CountedBy
  <2> QED BY <2>4, <2>5
<1> QED BY <1>2, <1>3, BetweenAttempts, AloneFrame

\* The uploader starts, or is killed, delivered answer in hand or not.
LEMMA StartStopKeeps ==
  ASSUME UInv, NEW u \in Uploaders, StartUploader(u) \/ StopUploader(u)
  PROVE  UInv' /\ (OneUploader /\ OInv => OInv')
<1>1. CASE StartUploader(u)
  <2>1. \A s \in Session : ~Owed(task[u], s)  BY <1>1 DEF StartUploader, Owed
  <2>2. Goto(u, At("idle"))
        /\ UNCHANGED <<rows, clock, latest, interventions, deposited, received, trouble>>
    BY <1>1 DEF StartUploader
  <2> QED BY <2>1, <2>2, IdleKeeps, Typing
<1>2. CASE StopUploader(u)
  <2>1. Goto(u, At("down")) /\ interventions' \in Nat
        /\ UNCHANGED <<rows, clock, latest, deposited, received>>
    BY <1>2, Typing DEF StopUploader
  <2>2. CASE task[u].pc = "answered" /\ task[u].answer = "delivered"
    <3>1. task[u].session \in Session  BY <2>2, Typing DEF UInv, AttemptOK
    <3>2. trouble' = [trouble EXCEPT ![task[u].session] = @ + 1]
      BY <1>2, <2>2 DEF StopUploader
    <3>3. /\ trouble' \in [Session -> Nat] /\ \A s \in Session : trouble'[s] >= trouble[s]
          /\ trouble'[task[u].session] = trouble[task[u].session] + 1
      BY <3>1, <3>2, Typing
    <3> QED BY <2>1, <3>1, <3>3, IdleKeeps DEF Owed
  <2>3. CASE ~(task[u].pc = "answered" /\ task[u].answer = "delivered")
    <3>1. trouble' = trouble  BY <1>2, <2>3 DEF StopUploader
    <3>2. \A s \in Session : ~Owed(task[u], s)  BY <2>3 DEF Owed
    <3> QED BY <2>1, <3>1, <3>2, IdleKeeps, Typing
  <2> QED BY <2>2, <2>3
<1> QED BY <1>1, <1>2

\* A row is taken.
LEMMA TakeNextKeeps ==
  ASSUME UInv, NEW u \in Uploaders, TakeNext(u)
  PROVE  UInv' /\ (OneUploader /\ OInv => OInv')
<1>1. PICK x \in NextDue(clock) :
        Goto(u, [At("sending") EXCEPT !.session = x, !.attempts = rows[x].attempts, !.now = clock])
  BY DEF TakeNext
<1>2. UNCHANGED <<rows, clock, latest, interventions, deposited, received, trouble>>
      /\ task[u].pc = "idle"
  BY DEF TakeNext
<1>3. x \in Pending /\ x \in Session /\ rows[x] \in Row
  BY Typing DEF NextDue, InState, Pending, RowsOK, Contains
<1>4. PICK t \in Task :
        /\ t = [At("sending") EXCEPT !.session = x, !.attempts = rows[x].attempts, !.now = clock]
        /\ t.pc = "sending" /\ t.session = x
  <2> PICK n \in Nat : n = rows[x].attempts
    BY <1>3 DEF Row
  <2> DEFINE new == [At("sending") EXCEPT !.session = x, !.attempts = n, !.now = clock]
  <2>1. new \in Task /\ new.pc = "sending" /\ new.session = x
    BY <1>3, Typing DEF At, Task, Answers
  <2> QED BY <2>1
<1>5. RowsOK' /\ Prepared' = Prepared /\ Visible' = Visible
  BY <1>2, RowsUnchanged, Typing
<1>6. x \in Visible /\ x \notin Prepared /\ x \in deposited
  BY <1>3, RowStates, Typing DEF Visible, Pending, UInv, Known
<1>7. AttemptOK(t)'
  BY <1>2, <1>4, <1>5, <1>6 DEF AttemptOK
<1>8. Goto(u, t)  BY <1>1, <1>4
<1>9. UInv'
  BY <1>2, <1>5, <1>7, <1>8, AttemptFrame, Typing
<1>10. AloneOK(t)'
  BY <1>2, <1>3, <1>4 DEF AloneOK, Pending, InState, Contains
<1>11. ASSUME OInv, NEW s \in Session PROVE CountedBy(t, s)'
  <2>1. CountedBy(task[u], s) /\ ~Owed(task[u], s)  BY <1>2, <1>11 DEF OInv, Owed
  <2> QED BY <1>2, <2>1 DEF CountedBy, Contains
<1> QED BY <1>8, <1>9, <1>10, <1>11, AloneFrame

\* An attempt is made: whatever comes of it, the row stays, and the API records
\* the result again only with an answer in hand or one that was lost.
LEMMA SendKeeps ==
  ASSUME UInv, NEW u \in Uploaders,
         SendDelivered(u) \/ SendUnanswered(u) \/ SendFails(u) \/ SendRefused(u)
  PROVE  UInv' /\ (OneUploader /\ OInv => OInv')
<1> DEFINE s == task[u].session
<1>1. UNCHANGED <<rows, clock, latest, interventions, deposited>> /\ task[u].pc = "sending"
  BY DEF SendDelivered, SendUnanswered, SendFails, SendRefused
<1>2. s \in Session /\ s \in deposited /\ s \notin Prepared
  BY <1>1, Typing DEF UInv, AttemptOK
<1>3. PICK a \in Answers :
        /\ Answer(u, a)
        /\ \/ a = "delivered" /\ received' = [received EXCEPT ![s] = @ + 1] /\ trouble' = trouble
           \/ /\ a # "delivered" /\ received' = [received EXCEPT ![s] = @ + 1]
              /\ trouble' = [trouble EXCEPT ![s] = @ + 1]
           \/ a # "delivered" /\ received' = received /\ trouble' = trouble
  BY DEF SendDelivered, SendUnanswered, SendFails, SendRefused, Answers
<1>4. PICK t \in Task :
        /\ t = [task[u] EXCEPT !.pc = "answered", !.answer = a]
        /\ t.pc = "answered" /\ t.answer = a /\ t.session = s
  <2>1. task[u] \in Task  BY Typing
  <2> DEFINE new == [task[u] EXCEPT !.pc = "answered", !.answer = a]
  <2>2. new \in Task /\ new.pc = "answered" /\ new.answer = a /\ new.session = s
    BY <2>1 DEF Task
  <2> QED BY <2>2
<1>5. Goto(u, t)  BY <1>3, <1>4 DEF Answer
<1>6. /\ received' \in [Session -> Nat] /\ trouble' \in [Session -> Nat]
      /\ \A x \in Session : x # s => received'[x] = received[x] /\ trouble'[x] = trouble[x]
      /\ \/ a = "delivered" /\ received'[s] = received[s] + 1 /\ trouble'[s] = trouble[s]
         \/ /\ a # "delivered" /\ received'[s] = received[s] + 1
            /\ trouble'[s] = trouble[s] + 1
         \/ a # "delivered" /\ received'[s] = received[s] /\ trouble'[s] = trouble[s]
  BY <1>2, <1>3, Typing
<1>7. RowsOK' /\ Prepared' = Prepared /\ Visible' = Visible
  BY <1>1, RowsUnchanged, Typing
<1>8. \A x \in Session : received'[x] >= received[x]
  BY <1>6, Typing
<1>9. a = "delivered" => received'[s] > 0
  BY <1>2, <1>6, Typing
<1>10. AttemptOK(t)'
  BY <1>1, <1>2, <1>4, <1>7, <1>9 DEF AttemptOK
<1>11. UInv'
  BY <1>1, <1>2, <1>5, <1>6, <1>7, <1>8, <1>10, AttemptFrame, Typing
<1>12. ASSUME OInv PROVE AloneOK(t)'
  <2>1. s \in Pending  BY <1>1, <1>12 DEF OInv, AloneOK
  <2> QED BY <1>1, <1>4, <2>1 DEF AloneOK, Pending, InState, Contains
<1>13. ASSUME OInv, NEW x \in Session PROVE CountedBy(t, x)'
  <2>1. CountedBy(task[u], x) /\ ~Owed(task[u], x)
    BY <1>1, <1>13 DEF OInv, Owed
  <2>2. (Contains(x))' => Contains(x)  BY <1>1 DEF Contains
  <2>3. CASE x # s
    BY <1>4, <1>6, <2>1, <2>2, <2>3 DEF CountedBy, Owed
  <2>4. CASE x = s
    <3>1. Contains(s)  BY <1>1, <1>13 DEF OInv, AloneOK, Pending, InState
    <3>2. received[s] <= trouble[s] /\ received[s] \in Nat /\ trouble[s] \in Nat
      BY <1>2, <2>1, <2>4, <3>1, Typing DEF CountedBy
    <3>3. received'[s] <= 1 + trouble'[s] /\ (a # "delivered" => received'[s] <= trouble'[s])
      BY <1>6, <3>2
    <3> QED BY <1>4, <2>4, <3>3 DEF CountedBy, Owed
  <2> QED BY <2>3, <2>4
<1> QED BY <1>5, <1>11, <1>12, <1>13, AloneFrame

\* What settling does: a delivered row goes, another is kept for later, and the
\* uploader fails if the row it answers for is no longer pending.
LEMMA SettleCases ==
  ASSUME UInv, NEW u \in Uploaders, Settle(u)
  PROVE  LET s == task[u].session IN
         \/ task[u].answer = "delivered" /\ Delete(s) /\ Goto(u, At("idle"))
         \/ s \notin Pending /\ Goto(u, At("error")) /\ UNCHANGED rows
         \/ /\ task[u].answer # "delivered" /\ s \in Pending /\ Goto(u, At("idle"))
            /\ \E due \in Nat : DeadLetter(s) \/ Reschedule(s, due)
<1> DEFINE s == task[u].session
<1>1. task[u] \in Task  BY Typing
<1>2. CASE \E delay \in 0 .. RetryLimit(task[u].attempts + 1) :
             Reschedule(s, task[u].now + delay)
  <2>1. PICK delay \in Nat : Reschedule(s, task[u].now + delay)
    BY <1>2
  <2>2. task[u].now + delay \in Nat
    BY <1>1, UploaderAssumption DEF Task, Times
  <2> QED BY <2>1, <2>2 DEF Settle, Pending
<1>3. CASE DeadLetter(s)
  BY <1>3 DEF Settle, Pending
<1> QED BY <1>2, <1>3 DEF Settle, Pending

LEMMA SettleKeeps ==
  ASSUME UInv, NEW u \in Uploaders, Settle(u)
  PROVE  UInv' /\ (OneUploader /\ OInv => OInv')
<1> DEFINE s == task[u].session
<1>1. UNCHANGED <<clock, latest, interventions, deposited, received, trouble>>
      /\ task[u].pc = "answered"
  BY DEF Settle
<1>2. s \in Session /\ s \in deposited /\ s \notin Prepared
  BY <1>1, Typing DEF UInv, AttemptOK
<1>3. CASE task[u].answer = "delivered" /\ Delete(s) /\ Goto(u, At("idle"))
  <2>1. received[s] > 0  BY <1>1, <1>3 DEF UInv, AttemptOK
  <2>2. RowsOK' /\ Prepared' = Prepared /\ Visible' = Visible \ {s}
    BY <1>2, <1>3, DeleteEffect, Typing
  <2>3. UInv'
    BY <1>1, <1>3, <2>1, <2>2, BetweenAttempts, AttemptFrame, Typing
  <2>4. rows'[s] = NoRow /\ \A x \in Session : x # s => rows'[x] = rows[x]
    <3>1. rows \in [Session -> Row \cup {NoRow}] /\ rows' = [rows EXCEPT ![s] = NoRow]
      BY <1>3, Typing DEF Delete, RowsOK
    <3> QED BY <1>2, <3>1
  <2>5. ASSUME OInv, NEW x \in Session PROVE CountedBy(At("idle"), x)'
    <3>1. CountedBy(task[u], x)  BY <2>5 DEF OInv
    <3>2. CASE x = s
      <4>1. ~Contains(x)'  BY <2>4, <3>2 DEF Contains
      <4>2. received'[x] <= 1 + trouble'[x]  BY <1>1, <3>1 DEF CountedBy
      <4> QED BY <4>1, <4>2 DEF CountedBy
    <3>3. CASE x # s
      BY <1>1, <2>4, <3>1, <3>3 DEF CountedBy, Owed, Contains
    <3> QED BY <3>2, <3>3
  <2> QED BY <1>3, <2>3, <2>5, BetweenAttempts, AloneFrame
<1>4. CASE s \notin Pending /\ Goto(u, At("error")) /\ UNCHANGED rows
  <2>1. RowsOK' /\ Prepared' = Prepared /\ Visible' = Visible
    BY <1>4, RowsUnchanged, Typing
  <2>2. UInv'
    BY <1>1, <1>4, <2>1, BetweenAttempts, AttemptFrame, Typing
  <2>3. ~OInv
    BY <1>1, <1>4 DEF OInv, AloneOK
  <2> QED BY <2>2, <2>3
<1>5. CASE /\ task[u].answer # "delivered" /\ s \in Pending /\ Goto(u, At("idle"))
           /\ \E due \in Nat : DeadLetter(s) \/ Reschedule(s, due)
  <2>1. s \in Visible  BY <1>5 DEF Visible, Pending
  <2>2. RowsOK' /\ Prepared' = Prepared /\ Visible' = Visible
    BY <1>5, <2>1, VisibleEffect, Typing
  <2>3. UInv'
    BY <1>1, <1>5, <2>2, BetweenAttempts, AttemptFrame, Typing
  <2>4. \A x \in Session : Contains(x)' => Contains(x)
    <3>1. \A x \in Session : x # s => rows'[x] = rows[x]
      BY <1>5, Typing DEF DeadLetter, Reschedule, RowsOK
    <3>2. Contains(s)  BY <1>5 DEF Pending, InState
    <3> QED BY <3>1, <3>2 DEF Contains
  <2>5. ASSUME OInv, NEW x \in Session PROVE CountedBy(At("idle"), x)'
    <3>1. CountedBy(task[u], x) /\ ~Owed(task[u], x)  BY <1>5, <2>5 DEF OInv, Owed
    <3> QED BY <1>1, <2>4, <3>1 DEF CountedBy
  <2> QED BY <1>5, <2>3, <2>5, BetweenAttempts, AloneFrame
<1> QED BY <1>3, <1>4, <1>5, SettleCases

-----------------------------------------------------------------------------
(* The invariant.                                                          *)

LEMMA UploaderInitial == UploaderInit => OInv
<1> SUFFICES ASSUME UploaderInit PROVE OInv
  OBVIOUS
<1>1. Prepared = {} /\ Visible = {} /\ RowsOK
  BY DEF UploaderInit, Prepared, Visible, InState, Contains, RowsOK
<1>2. 0 \in Times /\ latest \in clock .. MaxTime /\ clock \in Times
  BY UploaderAssumption DEF UploaderInit, Times
<1>3. At("down") \in Task
  BY BetweenAttempts
<1>4. UploaderTypeOK
  BY <1>1, <1>2, <1>3 DEF UploaderInit, UploaderTypeOK
<1>5. \A u \in Uploaders : task[u].pc = "down"
  BY DEF UploaderInit, At
<1>6. UInv
  BY <1>1, <1>4, <1>5 DEF UInv, AttemptOK, Known, SentIsOpen, Kept, UploaderInit
<1>7. \A u \in Uploaders : AloneOK(task[u])
  BY <1>5 DEF AloneOK
<1>8. ASSUME NEW u \in Uploaders, NEW s \in Session PROVE CountedBy(task[u], s)
  <2>1. received[s] = 0 /\ trouble[s] = 0  BY DEF UploaderInit
  <2>2. received[s] <= 1 + trouble[s] /\ received[s] <= trouble[s]  BY <2>1
  <2> QED BY <2>2 DEF CountedBy
<1> QED BY <1>6, <1>7, <1>8 DEF OInv

LEMMA UploaderInductive ==
  ASSUME UInv, [UploaderNext]_uvars
  PROVE  UInv' /\ (OneUploader /\ OInv => OInv')
BY StartStopKeeps, TakeNextKeeps, SendKeeps, SettleKeeps, RequeueKeeps, ClockKeeps,
   DepositKeeps, ReleaseKeeps
DEF UploaderNext, DeliveryStep, UploaderStep

THEOREM UploaderInvariant == UploaderSpec => []UInv
<1>1. UploaderInit => UInv  BY UploaderInitial DEF OInv
<1>2. UInv /\ [UploaderNext]_uvars => UInv'  BY UploaderInductive
<1> QED BY <1>1, <1>2, PTL DEF UploaderSpec

THEOREM AloneInvariant == ASSUME OneUploader PROVE UploaderSpec => []OInv
<1>1. OInv /\ [UploaderNext]_uvars => OInv'  BY UploaderInductive DEF OInv
<1> QED BY <1>1, UploaderInitial, PTL DEF UploaderSpec

-----------------------------------------------------------------------------
(* The theorems.                                                           *)

\* A committed result is in the queue until the API has recorded it, for any
\* number of uploaders (process_next deletes after a 2xx only).
THEOREM NothingLostProved == UploaderSpec => []NothingLost
<1>1. UInv => NothingLost
  BY RowStates, Typing DEF UInv, Kept, NothingLost
<1> QED BY <1>1, UploaderInvariant, PTL

\* Nothing is sent before it is published, for any number of uploaders
\* (next_due takes pending rows only, publish is the only way out of prepared).
THEOREM PreparedIsUnsentProved == UploaderSpec => []PreparedIsUnsent
<1>1. UInv => PreparedIsUnsent
  <2> SUFFICES ASSUME UInv, NEW s \in Prepared PROVE received[s] = 0
    BY DEF PreparedIsUnsent, Prepared
  <2>1. s \in Session /\ received[s] \in Nat  BY Typing DEF Prepared, InState
  <2> QED BY <2>1 DEF UInv, SentIsOpen
<1> QED BY <1>1, UploaderInvariant, PTL

\* One uploader never finds its row changed under it, whatever the processor,
\* the operator and the clock do.
THEOREM NeverErrsProved == ASSUME OneUploader PROVE UploaderSpec => []UploaderNeverErrs
<1>1. OInv => UploaderNeverErrs
  BY DEF OInv, AloneOK, UploaderNeverErrs
<1> QED BY <1>1, AloneInvariant, PTL

\* One uploader repeats a recorded result only after it lost the answer, or died
\* before it deleted the row.
THEOREM RepeatProved == ASSUME OneUploader PROVE UploaderSpec => []RepeatOnlyAfterTrouble
<1>1. OInv => RepeatOnlyAfterTrouble
  BY DEF OneUploader, OInv, CountedBy, RepeatOnlyAfterTrouble
<1> QED BY <1>1, AloneInvariant, PTL

\* A dead letter is changed by the operator only, with one uploader.
DeadLetterKept ==
  \A s \in InState("dead_letter") :
    /\ Contains(s)'
    /\ rows'[s].result = rows[s].result
    /\ rows'[s] # rows[s] => rows'[s].state = "pending" /\ rows'[s].attempts = 0

LEMMA OnlyOneChanges ==
  ASSUME RowsOK, NEW s \in Session, s \notin InState("dead_letter"),
         \A x \in Session : x # s => rows'[x] = rows[x]
  PROVE  DeadLetterKept
BY DEF DeadLetterKept, InState, Contains

LEMMA DeadLetterStep ==
  ASSUME OInv, [UploaderNext]_uvars
  PROVE  DeadLetterKept
<1>0. UInv /\ RowsOK  BY Typing DEF OInv
<1>1. CASE UNCHANGED rows
  BY <1>1 DEF DeadLetterKept, InState, Contains
<1>2. ASSUME NEW u \in Uploaders, Settle(u) PROVE DeadLetterKept
  <2> DEFINE s == task[u].session
  <2>1. s \in Pending  BY <1>2 DEF Settle, OInv, AloneOK
  <2>2. s \in Session /\ s \notin InState("dead_letter")  BY <2>1 DEF Pending, InState
  <2>3. \A x \in Session : x # s => rows'[x] = rows[x]
    BY <1>0, <1>2, SettleCases DEF Delete, DeadLetter, Reschedule, RowsOK
  <2> QED BY <1>0, <2>2, <2>3, OnlyOneChanges
<1>3. ASSUME NEW s \in Session, OperatorRequeues(s) PROVE DeadLetterKept
  <2>1. s \in InState("dead_letter") /\ s \in Session
        /\ rows' = [rows EXCEPT ![s].state = "pending", ![s].attempts = 0, ![s].due = clock]
    BY <1>3 DEF OperatorRequeues, Requeue
  <2>2. \A x \in Session : x # s => rows'[x] = rows[x]  BY <1>0, <2>1 DEF RowsOK
  <2>3. PICK row \in Row : row = rows[s]  BY <1>0, <2>1 DEF InState, Contains, RowsOK
  <2> DEFINE update == [row EXCEPT !.state = "pending", !.attempts = 0, !.due = clock]
  <2>4. rows' = [rows EXCEPT ![s] = update]
    BY <1>0, <2>1, <2>3 DEF RowsOK
  <2>5. clock \in Nat  BY <1>0, Typing
  <2>6. /\ update \in Row /\ update.state = "pending" /\ update.attempts = 0
        /\ update.result = row.result
    BY <2>5 DEF Row, States
  <2> HIDE DEF update
  <2>7. rows'[s] \in Row /\ rows'[s].state = "pending" /\ rows'[s].attempts = 0
        /\ rows'[s].result = row.result
    BY <1>0, <2>1, <2>4, <2>6 DEF RowsOK
  <2>8. Contains(s)'  BY <2>7, NoRowAssumption DEF Contains
  <2> QED BY <2>2, <2>3, <2>7, <2>8 DEF DeadLetterKept, InState, Contains
<1>4. ASSUME NEW s \in Session, Deposit(s) \/ Release(s) PROVE DeadLetterKept
  <2>1. CASE rows' = rows
    BY <1>1, <2>1
  <2>2. CASE rows' # rows
    <3>1. s \notin InState("dead_letter")
      BY <1>4, <2>2 DEF Deposit, Insert, Release, InState
    <3>2. \A x \in Session : x # s => rows'[x] = rows[x]
      <4>1. rows \in [Session -> Row \cup {NoRow}]  BY <1>0 DEF RowsOK
      <4>2. CASE Deposit(s)
        BY <4>1, <4>2 DEF Deposit, Insert
      <4>3. CASE Release(s)
        BY <4>1, <4>3 DEF Release, Publish
      <4> QED BY <1>4, <4>2, <4>3
    <3> QED BY <1>0, <3>1, <3>2, OnlyOneChanges
  <2> QED BY <2>1, <2>2
<1> QED
  BY <1>1, <1>2, <1>3, <1>4
  DEF UploaderNext, DeliveryStep, UploaderStep, StartUploader, TakeNext, SendDelivered,
      SendUnanswered, SendFails, SendRefused, StopUploader, Tick, SetClockBack, uvars

\* A row that gave up is touched by the operator alone (reschedule, dead_letter
\* and delete come from an attempt for a pending row), and keeps its result.
THEOREM DeadLetterProved == ASSUME OneUploader PROVE UploaderSpec => DeadLetterIsKept
<1>1. OInv /\ [UploaderNext]_uvars => [DeadLetterKept]_uvars
  BY DeadLetterStep
<1> QED
  BY <1>1, AloneInvariant, PTL DEF UploaderSpec, DeadLetterIsKept, DeadLetterKept

-----------------------------------------------------------------------------
(* Recursive functions on the naturals.                                    *)

\* Some number of a set is the least.
LEMMA HasLeast ==
  ASSUME NEW S \in SUBSET Nat, S # {}
  PROVE  \E x \in S : \A y \in S : x <= y
<1>1. PICK x \in S : \A y \in S : ~(<<y, x>> \in OpToRel(<, Nat))
  <2> HIDE DEF OpToRel, IsWellFoundedOn
  <2>1. IsWellFoundedOn(OpToRel(<, Nat), Nat)
    BY NatLessThanWellFounded, Zenon
  <2> QED  BY <2>1, WFMin, Zenon
<1>2. \A y \in S : ~(y < x)
  BY <1>1, Zenon DEF OpToRel
<1> QED  BY <1>2

\* A set with zero and with the successors of its numbers has them all.
LEMMA Induction ==
  ASSUME NEW S, 0 \in S, \A n \in Nat : n \in S => n + 1 \in S
  PROVE  Nat \subseteq S
<1> SUFFICES ASSUME Nat \ S # {} PROVE FALSE
  OBVIOUS
<1>1. PICK n \in Nat \ S : \A m \in Nat \ S : n <= m
  BY HasLeast
<1>2. n - 1 \in Nat /\ n - 1 \in S
  BY <1>1
<1>3. (n - 1) + 1 \in S
  BY <1>2
<1> QED  BY <1>1, <1>3

\* h begins with a and goes on with g, up to n.
Runs(a, g, n, h) == h[0] = a /\ \A i \in 0 .. n - 1 : h[i + 1] = g[h[i]]

\* There is a run of every length.
LEMMA RunExists ==
  ASSUME NEW R, NEW a \in R, NEW g \in [R -> R]
  PROVE  \A n \in Nat : \E h \in [0 .. n -> R] : Runs(a, g, n, h)
<1> DEFINE S == {n \in Nat : \E h \in [0 .. n -> R] : Runs(a, g, n, h)}
<1>1. 0 \in S
  <2>1. [i \in 0 .. 0 |-> a] \in [0 .. 0 -> R] /\ Runs(a, g, 0, [i \in 0 .. 0 |-> a])
    BY DEF Runs
  <2> QED  BY <2>1
<1>2. ASSUME NEW n \in Nat, n \in S PROVE n + 1 \in S
  <2>1. PICK h \in [0 .. n -> R] : Runs(a, g, n, h)
    BY <1>2
  <2> DEFINE k == [i \in 0 .. n + 1 |-> IF i <= n THEN h[i] ELSE g[h[n]]]
  <2>2. k \in [0 .. n + 1 -> R]
    BY <2>1
  <2>3. k[0] = a
    BY <2>1 DEF Runs
  <2>4. ASSUME NEW i \in 0 .. (n + 1) - 1 PROVE k[i + 1] = g[k[i]]
    <3>1. k[i] = h[i] /\ i + 1 \in 0 .. n + 1  OBVIOUS
    <3>2. CASE i = n  BY <3>1, <3>2
    <3>3. CASE i # n
      <4>1. i \in 0 .. n - 1 /\ k[i + 1] = h[i + 1]  BY <3>1, <3>3
      <4> QED  BY <2>1, <3>1, <4>1 DEF Runs
    <3> QED  BY <3>2, <3>3
  <2>5. Runs(a, g, n + 1, k)
    <3> HIDE DEF k
    <3> QED  BY <2>3, <2>4 DEF Runs
  <2> HIDE DEF k
  <2> QED  BY <2>2, <2>5
<1>3. Nat \subseteq S
  <2> HIDE DEF S
  <2> QED  BY <1>1, <1>2, Induction
<1> QED  BY <1>3

\* Two runs agree as far as both go.
LEMMA RunsAgree ==
  ASSUME NEW a, NEW g, NEW n \in Nat, NEW h, NEW k,
         Runs(a, g, n, h), Runs(a, g, n + 1, k)
  PROVE  h[n] = k[n]
<1> DEFINE S == {i \in Nat : i <= n => h[i] = k[i]}
<1>1. 0 \in S
  BY DEF Runs
<1>2. ASSUME NEW i \in Nat, i \in S PROVE i + 1 \in S
  <2>1. CASE i + 1 <= n
    <3>1. h[i] = k[i] /\ i \in 0 .. n - 1 /\ i \in 0 .. (n + 1) - 1  BY <1>2, <2>1
    <3>2. h[i + 1] = g[h[i]] /\ k[i + 1] = g[k[i]]  BY <3>1 DEF Runs
    <3> QED  BY <3>1, <3>2
  <2> QED  BY <2>1
<1>3. Nat \subseteq S
  <2> HIDE DEF S
  <2> QED  BY <1>1, <1>2, Induction
<1> QED  BY <1>3

\* A recursion that goes from the value before is a function.
LEMMA Recursion ==
  ASSUME NEW a \in Nat, NEW g \in [Nat -> Nat]
  PROVE  \E f \in [Nat -> Nat] : f[0] = a /\ \A n \in Nat : f[n + 1] = g[f[n]]
<1> DEFINE run == [n \in Nat |-> CHOOSE h \in [0 .. n -> Nat] : Runs(a, g, n, h)]
           f == [n \in Nat |-> run[n][n]]
<1>1. ASSUME NEW n \in Nat
      PROVE  run[n] \in [0 .. n -> Nat] /\ Runs(a, g, n, run[n])
  <2>1. \E h \in [0 .. n -> Nat] : Runs(a, g, n, h)  BY RunExists
  <2>2. run[n] = CHOOSE h \in [0 .. n -> Nat] : Runs(a, g, n, h)  OBVIOUS
  <2> HIDE DEF run
  <2> QED  BY <2>1, <2>2
<1> HIDE DEF run
<1>2. f \in [Nat -> Nat]
  BY <1>1
<1>3. f[0] = a
  BY <1>1 DEF Runs
<1>4. ASSUME NEW n \in Nat PROVE f[n + 1] = g[f[n]]
  <2>1. Runs(a, g, n, run[n]) /\ Runs(a, g, n + 1, run[n + 1])
    BY <1>1
  <2>2. run[n][n] = run[n + 1][n]  BY <2>1, RunsAgree
  <2>3. run[n + 1][n + 1] = g[run[n + 1][n]]
    BY <2>1 DEF Runs
  <2> QED  BY <2>2, <2>3
<1> HIDE DEF f
<1> QED  BY <1>2, <1>3, <1>4

-----------------------------------------------------------------------------
(* The retry policy.                                                       *)

\* PowerOfTwo is the function its recursion describes.
LEMMA Powers ==
  /\ PowerOfTwo \in [Nat -> Nat]
  /\ PowerOfTwo[0] = 1 /\ \A n \in Nat : PowerOfTwo[n + 1] = 2 * PowerOfTwo[n]
<1> DEFINE g == [x \in Nat |-> 2 * x]
<1>1. PICK f \in [Nat -> Nat] : f[0] = 1 /\ \A n \in Nat : f[n + 1] = g[f[n]]
  <2>1. 1 \in Nat /\ g \in [Nat -> Nat]  OBVIOUS
  <2> HIDE DEF g
  <2> QED  BY <2>1, Recursion
<1>2. \A n \in Nat : f[n + 1] = 2 * f[n]
  BY <1>1
<1>3. f = [n \in Nat |-> IF n = 0 THEN 1 ELSE 2 * f[n - 1]]
  <2>1. ASSUME NEW n \in Nat PROVE f[n] = IF n = 0 THEN 1 ELSE 2 * f[n - 1]
    <3>1. CASE n = 0  BY <1>1, <3>1
    <3>2. CASE n # 0
      <4>1. n - 1 \in Nat /\ (n - 1) + 1 = n  BY <3>2
      <4> QED  BY <1>2, <3>2, <4>1
    <3> QED  BY <3>1, <3>2
  <2>2. f = [n \in Nat |-> f[n]]  BY <1>1, Zenon
  <2> QED  BY <2>1, <2>2, Zenon
<1>4. PowerOfTwo = [n \in Nat |-> IF n = 0 THEN 1 ELSE 2 * PowerOfTwo[n - 1]]
  BY <1>3, Zenon DEF PowerOfTwo
<1>5. PowerOfTwo[0] = 1  BY <1>4
<1>6. \A n \in Nat : PowerOfTwo[n + 1] = 2 * PowerOfTwo[n]
  <2> TAKE n \in Nat
  <2>1. n + 1 \in Nat /\ n + 1 # 0 /\ (n + 1) - 1 = n  OBVIOUS
  <2> QED  BY <1>4, <2>1
<1> DEFINE S == {n \in Nat : PowerOfTwo[n] \in Nat}
<1>7. Nat \subseteq S
  <2>1. 0 \in S  BY <1>5
  <2>2. \A n \in Nat : n \in S => n + 1 \in S  BY <1>6
  <2> HIDE DEF S
  <2> QED  BY <2>1, <2>2, Induction
<1>8. PowerOfTwo \in [Nat -> Nat]
  <2>1. \A n \in Nat : PowerOfTwo[n] \in Nat  BY <1>7
  <2> HIDE DEF PowerOfTwo
  <2> QED  BY <1>4, <2>1
<1> QED  BY <1>5, <1>6, <1>8

\* One turn of the loop of retry_limit.
Twice(x) == IF 2 * x >= MaxBackoff THEN MaxBackoff ELSE 2 * x

\* The loop, from one failure to the next.
LEMMA RetryLimits ==
  /\ RetryLimit(0) = InitialBackoff /\ RetryLimit(1) = InitialBackoff
  /\ \A n \in Nat : n >= 1 => RetryLimit(n + 1) = Twice(RetryLimit(n))
<1> DEFINE g == [x \in Nat |-> Twice(x)]
           d(f) == [n \in Nat |-> IF n <= 1 THEN InitialBackoff
                                 ELSE IF 2 * f[n - 1] >= MaxBackoff THEN MaxBackoff
                                 ELSE 2 * f[n - 1]]
<1>1. PICK f \in [Nat -> Nat] : f[0] = InitialBackoff /\ \A n \in Nat : f[n + 1] = g[f[n]]
  <2>1. InitialBackoff \in Nat /\ g \in [Nat -> Nat]
    BY UploaderAssumption DEF Twice
  <2> HIDE DEF g
  <2> QED  BY <2>1, Recursion
<1>2. \A n \in Nat : f[n + 1] = Twice(f[n])
  BY <1>1
<1> DEFINE e == [n \in Nat |-> IF n = 0 THEN InitialBackoff ELSE f[n - 1]]
<1>3. e = d(e)
  <2>1. ASSUME NEW n \in Nat
        PROVE  e[n] = IF n <= 1 THEN InitialBackoff ELSE Twice(e[n - 1])
    <3>1. CASE n <= 1
      <4>1. n = 0 \/ (n = 1 /\ e[1] = f[0])  BY <3>1
      <4> QED  BY <1>1, <3>1, <4>1
    <3>2. CASE ~(n <= 1)
      <4>1. n - 1 \in Nat /\ n - 2 \in Nat /\ n # 0 /\ n - 1 # 0 /\ (n - 2) + 1 = n - 1
            /\ (n - 1) - 1 = n - 2
        BY <3>2
      <4>2. e[n] = f[n - 1] /\ e[n - 1] = f[n - 2]  BY <4>1
      <4>3. f[n - 1] = Twice(f[n - 2])  BY <1>2, <4>1
      <4> QED  BY <3>2, <4>2, <4>3
    <3> QED  BY <3>1, <3>2
  <2>2. e = [n \in Nat |-> e[n]]  OBVIOUS
  <2> HIDE DEF e
  <2>3. \A n \in Nat : e[n] = IF n <= 1 THEN InitialBackoff
                               ELSE IF 2 * e[n - 1] >= MaxBackoff THEN MaxBackoff
                               ELSE 2 * e[n - 1]
    BY <2>1 DEF Twice
  <2> QED  BY <2>2, <2>3, Zenon
<1> DEFINE delay == CHOOSE x : x = d(x)
<1>4. delay = d(delay)
  <2> HIDE DEF e, d
  <2> QED  BY <1>3, Zenon
<1>5. \A n : RetryLimit(n) = delay[n]
  BY Zenon DEF RetryLimit
<1> HIDE DEF delay
<1>6. \A n \in Nat : delay[n] = IF n <= 1 THEN InitialBackoff ELSE Twice(delay[n - 1])
  BY <1>4 DEF Twice
<1>7. ASSUME NEW n \in Nat, n >= 1 PROVE delay[n + 1] = Twice(delay[n])
  <2>1. n + 1 \in Nat /\ ~(n + 1 <= 1) /\ (n + 1) - 1 = n  BY <1>7
  <2> QED  BY <1>6, <2>1
<1>8. delay[0] = InitialBackoff /\ delay[1] = InitialBackoff
  BY <1>6
<1> QED  BY <1>5, <1>7, <1>8

\* "min(max_backoff, initial_backoff * 2^(n - 1))": the loop of retry_limit, which
\* stops at the cap, comes to what is documented for every number of failures.
THEOREM LimitIsPromised ==
  ASSUME NEW n \in Nat \ {0}
  PROVE  RetryLimit(n) = PromisedLimit(n) /\ PromisedLimit(n) \in Nat
<1> DEFINE p(k) == InitialBackoff * PowerOfTwo[k]
           S == {k \in Nat : RetryLimit(k + 1) = IF p(k) < MaxBackoff THEN p(k) ELSE MaxBackoff}
<1>1. InitialBackoff \in Nat /\ MaxBackoff \in Nat /\ InitialBackoff <= MaxBackoff
  BY UploaderAssumption
<1>2. \A k \in Nat : PowerOfTwo[k] \in Nat
  BY Powers
<1>3. 0 \in S
  BY <1>1, Powers, RetryLimits
<1>4. ASSUME NEW k \in Nat, k \in S PROVE k + 1 \in S
  <2>1. RetryLimit((k + 1) + 1) = Twice(RetryLimit(k + 1))
    BY RetryLimits
  <2>2. PICK x \in Nat, y \in Nat : x = PowerOfTwo[k] /\ y = InitialBackoff * x
    BY <1>1, <1>2
  <2>3. p(k) = y /\ p(k + 1) = 2 * y
    <3>1. PowerOfTwo[k + 1] = 2 * x  BY <2>2, Powers
    <3>2. InitialBackoff * (2 * x) = 2 * (InitialBackoff * x)  BY <1>1
    <3> QED  BY <2>2, <3>1, <3>2
  <2>4. RetryLimit(k + 1) = IF y < MaxBackoff THEN y ELSE MaxBackoff
    BY <1>4, <2>3
  <2>5. Twice(RetryLimit(k + 1)) = IF 2 * y < MaxBackoff THEN 2 * y ELSE MaxBackoff
    BY <1>1, <2>4 DEF Twice
  <2> HIDE DEF p
  <2> QED  BY <2>1, <2>3, <2>5
<1>5. Nat \subseteq S
  <2> HIDE DEF S
  <2> QED  BY <1>3, <1>4, Induction
<1>6. n - 1 \in Nat /\ n - 1 \in S /\ (n - 1) + 1 = n
  BY <1>5
<1>7. RetryLimit(n) = IF p(n - 1) < MaxBackoff THEN p(n - 1) ELSE MaxBackoff
  BY <1>6
<1>8. p(n - 1) \in Nat
  BY <1>1, <1>2, <1>6
<1> QED  BY <1>1, <1>7, <1>8 DEF PromisedLimit

\* A failure more is never a shorter wait.
LEMMA PromiseGrows ==
  ASSUME NEW n \in Nat
  PROVE  PromisedLimit(n) \in Nat /\ PromisedLimit(n) <= PromisedLimit(n + 1)
<1>1. CASE n = 0
  <2>1. PromisedLimit(n) = 0  BY <1>1 DEF PromisedLimit
  <2> QED  BY <1>1, <2>1, LimitIsPromised
<1>2. CASE n # 0
  <2>1. RetryLimit(n + 1) = Twice(RetryLimit(n)) /\ RetryLimit(n) = PromisedLimit(n)
        /\ RetryLimit(n + 1) = PromisedLimit(n + 1) /\ PromisedLimit(n) \in Nat
    BY <1>2, RetryLimits, LimitIsPromised
  <2>2. PromisedLimit(n) <= MaxBackoff
    <3> DEFINE promised == InitialBackoff * PowerOfTwo[n - 1]
    <3>1. promised \in Nat
      <4>1. n - 1 \in Nat  BY <1>2
      <4>2. PowerOfTwo[n - 1] \in Nat  BY <4>1, Powers
      <4> QED  BY <4>2, UploaderAssumption
    <3>2. PromisedLimit(n) = IF promised < MaxBackoff THEN promised ELSE MaxBackoff
      BY <1>2 DEF PromisedLimit
    <3> HIDE DEF promised
    <3> QED  BY <3>1, <3>2, UploaderAssumption
  <2> QED  BY <2>1, <2>2, UploaderAssumption DEF Twice
<1> QED  BY <1>1, <1>2

-----------------------------------------------------------------------------
(* How long a row waits.                                                   *)

\* A row is due when the failures it has on record allow, ...
DueOK(row, l) == row.due <= l + PromisedLimit(row.attempts)

\* ... and the uploader knows how many there are, from the row it took.
AttemptCounted(t, l) ==
  t.pc \in {"sending", "answered"} => t.attempts = rows[t.session].attempts /\ t.now <= l

WInv ==
  /\ OInv
  /\ \A u \in Uploaders : AttemptCounted(task[u], latest)
  /\ WaitIsBounded

\* The times and counts of a row, and its limit.
LEMMA RowTyping ==
  ASSUME OInv, NEW s \in Session, Contains(s)
  PROVE  rows[s] \in Row /\ rows[s].due \in Nat /\ rows[s].attempts \in Nat
BY Typing DEF OInv, RowsOK, Row, Contains

\* Time does not make a limit shorter.
LEMMA DueStays ==
  ASSUME NEW row \in Row, NEW l \in Nat, NEW m \in Nat, l <= m, DueOK(row, l)
  PROVE  DueOK(row, m)
<1>1. row.due \in Nat /\ PromisedLimit(row.attempts) \in Nat
  BY PromiseGrows DEF Row
<1> QED  BY <1>1 DEF DueOK

\* A step that changes at most the row of s, and that to one whose limit holds.
LEMMA WaitFrame ==
  ASSUME WInv, OInv', latest <= latest',
         NEW s \in Session, Contains(s)' => DueOK(rows'[s], latest'),
         \A x \in Session : x # s => rows'[x] = rows[x],
         \A u \in Uploaders : AttemptCounted(task[u], latest)'
  PROVE  WInv'
<1>1. latest \in Nat
  BY Typing DEF WInv, OInv
<1>2. latest' \in Nat
  BY UploaderAssumption DEF OInv, UInv, UploaderTypeOK, Times
<1>3. ASSUME NEW x \in Session, Contains(x)'
      PROVE  rows'[x].due <= latest' + PromisedLimit(rows'[x].attempts)
  <2>1. CASE x = s
    BY <1>3, <2>1 DEF DueOK
  <2>2. CASE x # s
    <3>1. rows'[x] = rows[x] /\ Contains(x)  BY <1>3, <2>2 DEF Contains
    <3>2. rows[x] \in Row /\ DueOK(rows[x], latest)
      BY <3>1, RowTyping DEF WInv, WaitIsBounded, DueOK
    <3> QED  BY <1>1, <1>2, <3>1, <3>2, DueStays DEF DueOK
  <2> QED  BY <2>1, <2>2
<1>4. WaitIsBounded'
  BY <1>3 DEF WaitIsBounded, PromisedLimit
<1> QED  BY <1>4 DEF WInv

\* A step that leaves the rows alone.
LEMMA WaitStays ==
  ASSUME WInv, OInv', latest <= latest', UNCHANGED rows,
         \A u \in Uploaders : AttemptCounted(task[u], latest)'
  PROVE  WInv'
<1>1. CASE Session = {}
  BY <1>1 DEF WInv, WaitIsBounded
<1>2. CASE Session # {}
  <2>1. PICK s \in Session : TRUE  BY <1>2
  <2>2. ASSUME Contains(s)' PROVE DueOK(rows'[s], latest')
    <3>1. Contains(s) /\ rows[s] \in Row /\ DueOK(rows[s], latest)
      BY <2>2, RowTyping DEF WInv, Contains, WaitIsBounded, DueOK
    <3>2. latest \in Nat /\ latest' \in Nat
      BY Typing, UploaderAssumption DEF WInv, OInv, UInv, UploaderTypeOK, Times
    <3> QED  BY <3>1, <3>2, DueStays
  <2> QED  BY <2>2, WaitFrame
<1> QED  BY <1>1, <1>2

\* The attempt in hand is untouched by a step that leaves its row alone.
LEMMA AttemptStays ==
  ASSUME WInv, latest <= latest', latest' \in Nat, UNCHANGED task,
         \A s \in Pending : rows'[s].attempts = rows[s].attempts
  PROVE  \A u \in Uploaders : AttemptCounted(task[u], latest)'
<1> TAKE u \in Uploaders
<1>1. task[u] \in Task /\ latest \in Nat
  BY Typing DEF WInv, OInv
<1>2. task[u].now \in Nat
  BY <1>1, UploaderAssumption DEF Task, Times
<1>3. task[u].pc \in {"sending", "answered"} => task[u].session \in Pending
  BY DEF WInv, OInv, AloneOK
<1> QED  BY <1>1, <1>2, <1>3 DEF WInv, AttemptCounted

-----------------------------------------------------------------------------
(* The steps.                                                              *)

\* The rest of the world: a new row is due when it is made, and one that the
\* operator requeues starts over.
LEMMA WorldWaits ==
  ASSUME WInv, OInv', NEW s \in Session, Deposit(s) \/ Release(s) \/ OperatorRequeues(s)
  PROVE  WInv'
<1>1. UNCHANGED <<clock, latest, task>> /\ latest \in Nat /\ clock \in Nat /\ clock <= latest
  BY Typing DEF WInv, OInv, Deposit, Release, OperatorRequeues
<1>2. RowsOK /\ rows \in [Session -> Row \cup {NoRow}]
  BY Typing DEF WInv, OInv, RowsOK
<1>3. \A x \in Session : x # s => rows'[x] = rows[x]
  BY <1>2 DEF Deposit, Insert, Release, Publish, OperatorRequeues, Requeue
<1>4. \A x \in Pending : rows'[x].attempts = rows[x].attempts
  <2>1. s \in Pending => rows'[s] = rows[s]
    BY DEF Deposit, Insert, Release, Publish, OperatorRequeues, Requeue, Pending, InState
  <2> QED  BY <1>3, <2>1 DEF Pending, InState
<1>5. ASSUME Contains(s)' PROVE DueOK(rows'[s], latest')
  <2>1. CASE rows'[s] = rows[s]
    BY <1>1, <1>5, <2>1 DEF WInv, WaitIsBounded, Contains, DueOK
  <2>2. CASE Deposit(s) /\ rows'[s] # rows[s]
    <3>1. PICK now \in 0 .. latest : rows'[s].due = now /\ rows'[s].attempts = 0
      BY <1>2, <2>2 DEF Deposit, Insert
    <3> QED  BY <1>1, <3>1, PromiseGrows DEF DueOK
  <2>3. CASE Release(s) /\ rows'[s] # rows[s]
    <3>1. rows' = [rows EXCEPT ![s].state = "pending"] /\ Contains(s)
      BY <2>3 DEF Release, Publish, InState
    <3>2. rows[s] \in Row  BY <1>2, <3>1 DEF Contains
    <3>3. rows'[s] = [rows[s] EXCEPT !.state = "pending"]  BY <1>2, <3>1
    <3>4. rows'[s].due = rows[s].due /\ rows'[s].attempts = rows[s].attempts
      BY <3>2, <3>3 DEF Row
    <3>5. DueOK(rows[s], latest)  BY <3>1 DEF WInv, WaitIsBounded, DueOK
    <3> QED  BY <1>1, <3>4, <3>5 DEF DueOK
  <2>4. CASE OperatorRequeues(s)
    <3>1. /\ rows' = [rows EXCEPT ![s].state = "pending", ![s].attempts = 0, ![s].due = clock]
          /\ Contains(s)
      BY <2>4 DEF OperatorRequeues, Requeue, InState
    <3>2. rows[s] \in Row  BY <1>2, <3>1 DEF Contains
    <3>3. rows'[s] = [rows[s] EXCEPT !.state = "pending", !.attempts = 0, !.due = clock]
      BY <1>2, <3>1
    <3>4. rows'[s].due = clock /\ rows'[s].attempts = 0
      BY <3>2, <3>3 DEF Row
    <3> QED  BY <1>1, <3>4, PromiseGrows DEF DueOK
  <2> QED  BY <2>1, <2>2, <2>3, <2>4
<1>6. \A u \in Uploaders : AttemptCounted(task[u], latest)'
  BY <1>1, <1>4, AttemptStays
<1> QED  BY <1>1, <1>3, <1>5, <1>6, WaitFrame

\* The latest time is never an earlier one.
LEMMA ClockWaits ==
  ASSUME WInv, OInv', Tick \/ SetClockBack \/ UNCHANGED uvars
  PROVE  WInv'
<1>1. UNCHANGED <<rows, task>> /\ latest \in Nat /\ latest' \in Nat /\ latest <= latest'
  BY Typing, UploaderAssumption DEF WInv, OInv, Tick, SetClockBack, uvars, Times
<1>2. \A u \in Uploaders : AttemptCounted(task[u], latest)'
  BY <1>1, AttemptStays
<1> QED  BY <1>1, <1>2, WaitStays

\* An attempt that begins, comes to an end, or is given up, is for a row that
\* does not change meanwhile.
LEMMA AttemptWaits ==
  ASSUME OneUploader, WInv, OInv', NEW u \in Uploaders,
         UploaderStep(u), ~Settle(u)
  PROVE  WInv'
<1>1. UNCHANGED <<rows, clock, latest>> /\ latest \in Nat /\ clock \in Nat /\ clock <= latest
  BY Typing
  DEF WInv, OInv, UploaderStep, StartUploader, TakeNext, SendDelivered, SendUnanswered,
      SendFails, SendRefused, StopUploader
<1>2. PICK t : Goto(u, t) /\ AttemptCounted(t, latest)'
  <2>1. CASE StartUploader(u) \/ StopUploader(u)
    BY <2>1 DEF StartUploader, StopUploader, At, AttemptCounted
  <2>2. CASE TakeNext(u)
    <3>1. PICK x \in NextDue(clock) :
            Goto(u, [At("sending") EXCEPT !.session = x, !.attempts = rows[x].attempts,
                                          !.now = clock])
      BY <2>2 DEF TakeNext
    <3> PICK t : t = [At("sending") EXCEPT !.session = x, !.attempts = rows[x].attempts,
                                           !.now = clock]
      OBVIOUS
    <3>2. t.session = x /\ t.attempts = rows[x].attempts /\ t.now = clock
      BY DEF At
    <3>3. AttemptCounted(t, latest)'
      BY <1>1, <3>2 DEF AttemptCounted
    <3>4. Goto(u, t)  BY <3>1
    <3> QED  BY <3>3, <3>4
  <2>3. CASE SendDelivered(u) \/ SendUnanswered(u) \/ SendFails(u) \/ SendRefused(u)
    <3>1. PICK answer : Answer(u, answer) /\ task[u].pc = "sending"
      BY <2>3 DEF SendDelivered, SendUnanswered, SendFails, SendRefused
    <3> PICK t : t = [task[u] EXCEPT !.pc = "answered", !.answer = answer]
      OBVIOUS
    <3>2. /\ t.session = task[u].session /\ t.attempts = task[u].attempts
          /\ t.now = task[u].now
      BY Typing DEF WInv, OInv, Task
    <3>3. AttemptCounted(t, latest)'
      BY <1>1, <3>1, <3>2 DEF AttemptCounted, WInv
    <3>4. Goto(u, t)  BY <3>1 DEF Answer
    <3> QED  BY <3>3, <3>4
  <2> QED  BY <2>1, <2>2, <2>3 DEF UploaderStep
<1>3. task'[u] = t /\ \A v \in Uploaders : v = u
  BY <1>2, Typing DEF Goto, OneUploader, WInv, OInv
<1>4. \A v \in Uploaders : AttemptCounted(task[v], latest)'
  BY <1>2, <1>3
<1> QED  BY <1>1, <1>4, WaitStays

\* The outcome: the retry is no later than the failures on record, with this
\* one, allow.
LEMMA SettleWaits ==
  ASSUME OneUploader, WInv, OInv', NEW u \in Uploaders, Settle(u)
  PROVE  WInv'
<1> PICK s : s = task[u].session
  OBVIOUS
<1>1. /\ UNCHANGED <<clock, latest>> /\ latest \in Nat /\ task[u].pc = "answered"
      /\ rows \in [Session -> Row \cup {NoRow}] /\ task[u] \in Task
  BY Typing DEF WInv, OInv, RowsOK, Settle
<1>2. s \in Pending /\ s \in Session /\ Contains(s) /\ rows[s] \in Row
  BY <1>1 DEF WInv, OInv, AloneOK, Pending, InState, Contains
<1>3. /\ task[u].attempts = rows[s].attempts /\ task[u].now <= latest
      /\ task[u].now \in Nat /\ rows[s].attempts \in Nat /\ rows[s].due \in Nat
  BY <1>1, <1>2, UploaderAssumption DEF WInv, AttemptCounted, Task, Times, Row
<1>4. \A x \in Session : x # s => rows'[x] = rows[x]
  BY <1>1 DEF Settle, Delete, DeadLetter, Reschedule
<1>5. \A v \in Uploaders : AttemptCounted(task[v], latest)'
  <2>1. task'[u].pc \in {"idle", "error"}
    BY <1>1, Typing DEF Settle, Goto, At, WInv, OInv
  <2> QED  BY <2>1 DEF OneUploader, AttemptCounted
<1>6. ASSUME Contains(s)' PROVE DueOK(rows'[s], latest')
  <2>1. CASE Delete(s)
    BY <1>1, <1>2, <1>6, <2>1 DEF Delete, Contains
  <2>2. CASE DeadLetter(s)
    <3>1. rows'[s] = [rows[s] EXCEPT !.state = "dead_letter", !.attempts = @ + 1]
      BY <1>1, <1>2, <2>2 DEF DeadLetter
    <3>2. rows'[s].due = rows[s].due /\ rows'[s].attempts = rows[s].attempts + 1
      BY <1>2, <3>1 DEF Row
    <3>3. rows[s].due <= latest + PromisedLimit(rows[s].attempts)
      BY <1>2 DEF WInv, WaitIsBounded
    <3>4. /\ PromisedLimit(rows[s].attempts) \in Nat
          /\ PromisedLimit(rows[s].attempts + 1) \in Nat
          /\ PromisedLimit(rows[s].attempts) <= PromisedLimit(rows[s].attempts + 1)
      BY <1>3, PromiseGrows
    <3> QED  BY <1>1, <1>3, <3>2, <3>3, <3>4 DEF DueOK
  <2>3. ASSUME NEW delay \in 0 .. RetryLimit(task[u].attempts + 1),
               Reschedule(s, task[u].now + delay)
        PROVE  DueOK(rows'[s], latest')
    <3>1. rows'[s] = [rows[s] EXCEPT !.attempts = @ + 1, !.due = task[u].now + delay]
      BY <1>1, <1>2, <2>3 DEF Reschedule
    <3>2. rows'[s].due = task[u].now + delay /\ rows'[s].attempts = rows[s].attempts + 1
      BY <1>2, <3>1 DEF Row
    <3>3. /\ RetryLimit(rows[s].attempts + 1) = PromisedLimit(rows[s].attempts + 1)
          /\ PromisedLimit(rows[s].attempts + 1) \in Nat
      BY <1>3, LimitIsPromised
    <3>4. delay \in Nat /\ delay <= PromisedLimit(rows[s].attempts + 1)
      BY <1>3, <2>3, <3>3
    <3> QED  BY <1>1, <1>3, <3>2, <3>3, <3>4 DEF DueOK
  <2>4. \/ Delete(s) \/ DeadLetter(s)
        \/ \E delay \in 0 .. RetryLimit(task[u].attempts + 1) :
             Reschedule(s, task[u].now + delay)
    BY <1>2 DEF Settle, Pending
  <2> QED  BY <2>1, <2>2, <2>3, <2>4
<1> QED  BY <1>1, <1>2, <1>4, <1>5, <1>6, WaitFrame

\* There is no row.
LEMMA WaitInitial == UploaderInit => WInv
<1> SUFFICES ASSUME UploaderInit PROVE WInv
  OBVIOUS
<1>1. \A s \in Session : ~Contains(s)
  BY DEF UploaderInit, Contains
<1>2. \A u \in Uploaders : task[u].pc = "down"
  BY DEF UploaderInit, At
<1> QED  BY <1>1, <1>2, UploaderInitial DEF WInv, WaitIsBounded, AttemptCounted

\* Every step keeps the limits.
LEMMA WaitInductive ==
  ASSUME OneUploader, WInv, [UploaderNext]_uvars
  PROVE  WInv'
<1>1. OInv'
  BY UploaderInductive DEF WInv, OInv
<1> QED
  BY <1>1, WorldWaits, ClockWaits, AttemptWaits, SettleWaits DEF UploaderNext, DeliveryStep

\* "min(max_backoff, initial_backoff * 2^(n - 1))": with one uploader the retry of
\* a row is due no later than its failures on record allow, after a time that the
\* clock has shown; the clock may be set back.
THEOREM WaitProved == ASSUME OneUploader PROVE UploaderSpec => []WaitIsBounded
<1>1. WInv /\ [UploaderNext]_uvars => WInv'  BY WaitInductive
<1>2. WInv => WaitIsBounded  BY DEF WInv
<1> QED  BY <1>1, <1>2, WaitInitial, PTL DEF UploaderSpec

-----------------------------------------------------------------------------
(* The processor, the queue and the uploaders together.                    *)

Holding == {"claimed", "analyse", "insert", "delete"}
Owing   == {"publish", "purgePublish"}

TaskOK(t) ==
  /\ t.pc \in {"sending", "answered"} =>
       t.session \in Session /\ place[t.session] = "gone" /\ t.session \notin Prepared
  /\ t.pc = "answered" /\ t.answer = "delivered" => received[t.session] > 0
UploaderOK(u) == TaskOK(task[u])

ProcessorOK ==
  LET s == work.session IN
  /\ work.pc # "error"
  /\ work.now <= latest
  /\ work.pc \in Holding \cup Owing => s \in Session
  /\ work.pc \in Holding => place[s] = "claimed"
  /\ work.pc \in Owing => place[s] = "gone"
  /\ work.pc = "insert" => work.result \in Result
  /\ work.pc = "purge" => Prepared = work.todo
  /\ work.pc = "purgePublish" => s \notin work.todo /\ Prepared = work.todo \cup {s}
  /\ work.pc \in {"recover", "idle", "claimed", "analyse", "insert"} => Prepared = {}
  /\ work.pc \in {"delete", "publish"} => Prepared = {s}

PreparedPlaced == \A s \in Prepared : place[s] \in {"claimed", "gone"}
SentIsGone == \A s \in Session : s \in Visible \/ received[s] > 0 => place[s] = "gone"
Accounted ==
  \A s \in published :
    place[s] \in {"ready", "claimed", "failed"} \/ s \in Prepared \cup Visible \/ received[s] > 0

PInv ==
  /\ PipelineTypeOK
  /\ \A u \in Uploaders : UploaderOK(u)
  /\ ProcessorOK
  /\ PreparedPlaced /\ SentIsGone /\ SentIsOpen /\ Accounted /\ Kept

-----------------------------------------------------------------------------
(* What a step of the processor must keep, by what it changes.             *)

\* Type correctness after a step of a recorder or of the processor.
LEMMA TypeFrame ==
  ASSUME PInv, UNCHANGED delivery, RowsOK', deposited' \subseteq Session,
         place' \in [Session -> Storage!Places], work' \in Work, halts' \in Nat,
         published' \subseteq Session
  PROVE  PipelineTypeOK'
  BY DEF PInv, PipelineTypeOK, UploaderTypeOK, delivery, RowsOK

\* Steps that change neither the queue nor the storage.
LEMMA ControlStep ==
  ASSUME PInv, UNCHANGED <<rows, deposited, place, published, delivery>>,
         work' \in Work, halts' \in Nat, ProcessorOK'
  PROVE  PInv'
  <1>1. RowsOK' /\ Prepared' = Prepared /\ Visible' = Visible
    BY RowsUnchanged DEF PInv, PipelineTypeOK, UploaderTypeOK
  <1>2. PipelineTypeOK'
    BY <1>1, TypeFrame DEF PInv, PipelineTypeOK, UploaderTypeOK
  <1>3. \A u \in Uploaders : UploaderOK(u)'
    BY <1>1 DEF PInv, UploaderOK, TaskOK, delivery
  <1> QED
    BY <1>1, <1>2, <1>3
    DEF PInv, PreparedPlaced, SentIsGone, SentIsOpen, Accounted, Kept, delivery

\* Steps that move the directory of one session.
LEMMA PlaceStep ==
  ASSUME PInv, NEW s \in Session, NEW to \in Storage!Places, Relocate(s, to),
         place[s] # "gone",
         s \in Prepared => to \in {"claimed", "gone"},
         published' \subseteq published \cup {s},
         s \in published' => to \in {"ready", "claimed", "failed"} \/ s \in Prepared,
         UNCHANGED <<rows, deposited, delivery>>,
         work' \in Work, halts' \in Nat, ProcessorOK'
  PROVE  PInv'
  <1>1. RowsOK' /\ Prepared' = Prepared /\ Visible' = Visible
    BY RowsUnchanged DEF PInv, PipelineTypeOK, UploaderTypeOK
  <1>2. place' \in [Session -> Storage!Places]
    BY DEF PInv, PipelineTypeOK, Relocate
  <1>3. PipelineTypeOK'
    BY <1>1, <1>2, TypeFrame DEF PInv, PipelineTypeOK, UploaderTypeOK
  <1>4. \A x \in Session : place'[x] = IF x = s THEN to ELSE place[x]
    BY DEF PInv, PipelineTypeOK, Relocate
  <1>5. \A u \in Uploaders : UploaderOK(u)'
    BY <1>1, <1>4 DEF PInv, UploaderOK, TaskOK, delivery
  <1>6. Prepared \subseteq Session /\ Visible \subseteq Session
    BY RowStates DEF PInv, PipelineTypeOK, UploaderTypeOK
  <1>7. PreparedPlaced' /\ SentIsGone' /\ SentIsOpen' /\ Kept'
    BY <1>1, <1>4, <1>6
    DEF PInv, PreparedPlaced, SentIsGone, SentIsOpen, Kept, delivery
  <1>8. Accounted'
    BY <1>1, <1>3, <1>4 DEF PInv, Accounted, delivery, PipelineTypeOK
  <1> QED BY <1>3, <1>5, <1>7, <1>8 DEF PInv

\* The result of a session being processed is committed.
LEMMA CommitStep ==
  ASSUME PInv, work.pc = "insert", Commit, UNCHANGED <<place, published, delivery>>,
         work' \in Work, halts' \in Nat,
         work'.pc \in {"delete", "down"}, work'.session \in {work.session, NoSession},
         work'.pc = "delete" => work'.session = work.session,
         work'.now <= latest
  PROVE  PInv'
  <1> DEFINE s == work.session
  <1>1. /\ s \in Session /\ place[s] = "claimed" /\ work.result \in Result
        /\ Prepared = {} /\ work.now \in Nat
    BY DEF PInv, ProcessorOK, Holding, PipelineTypeOK, Work, UploaderAssumption, Times
  <1>2. RowsOK /\ ~Contains(s)
    BY <1>1, RowStates DEF PInv, PipelineTypeOK, UploaderTypeOK, SentIsGone
  <1>3. RowsOK' /\ Prepared' = {s} /\ Visible' = Visible
    BY <1>1, <1>2, InsertEffect DEF Commit
  <1>4. PipelineTypeOK'
    BY <1>1, <1>3, TypeFrame DEF PInv, PipelineTypeOK, UploaderTypeOK, Commit
  <1>5. \A u \in Uploaders : UploaderOK(u)'
    BY <1>1, <1>3 DEF PInv, UploaderOK, TaskOK, delivery
  <1>6. ProcessorOK'
    BY <1>1, <1>3 DEF PInv, ProcessorOK, delivery, Holding, Owing
  <1>7. PreparedPlaced' /\ SentIsGone' /\ SentIsOpen' /\ Accounted' /\ Kept'
    BY <1>1, <1>3
    DEF PInv, PreparedPlaced, SentIsGone, SentIsOpen, Accounted, Kept, delivery, Commit
  <1> QED BY <1>4, <1>5, <1>6, <1>7 DEF PInv

\* A prepared result whose video is gone is published.
LEMMA PublishStep ==
  ASSUME PInv, NEW s \in Prepared, place[s] = "gone", Publish(s),
         UNCHANGED <<deposited, place, published, delivery>>,
         work' \in Work, halts' \in Nat, Prepared' = Prepared \ {s} => ProcessorOK'
  PROVE  PInv'
  <1>1. RowsOK' /\ Prepared' = Prepared \ {s} /\ Visible' = Visible \cup {s}
    BY PublishEffect DEF PInv, PipelineTypeOK, UploaderTypeOK
  <1>2. PipelineTypeOK'
    BY <1>1, TypeFrame DEF PInv, PipelineTypeOK, UploaderTypeOK
  <1>3. \A u \in Uploaders : UploaderOK(u)'
    BY <1>1 DEF PInv, UploaderOK, TaskOK, delivery
  <1> QED
    BY <1>1, <1>2, <1>3
    DEF PInv, PreparedPlaced, SentIsGone, SentIsOpen, Accounted, Kept, delivery

-----------------------------------------------------------------------------
(* The steps of recorders and of the processor.                            *)

\* Recorders touch no session the processor or the queue knows of.
LEMMA RecorderPreserves ==
  ASSUME PInv, NEW s \in Session, RecorderMoves(s)
  PROVE  PInv'
  <1>1. place[s] \in {"new", "capturing"} /\ s \notin Prepared
    BY DEF RecorderMoves, PInv, PreparedPlaced
  <1>2. PICK to \in Storage!Places :
          /\ Relocate(s, to)
          /\ published' = IF to = "ready" THEN published \cup {s} ELSE published
    BY DEF RecorderMoves, Relocate, PInv, PipelineTypeOK, Storage!Places, Storage!Directories
  <1>3. s \notin published
    BY <1>1, RowStates
    DEF PInv, Accounted, SentIsGone, PipelineTypeOK, UploaderTypeOK
  <1>4. work' \in Work /\ halts' \in Nat /\ UNCHANGED <<rows, deposited, delivery, work>>
    BY DEF RecorderMoves, PInv, PipelineTypeOK
  <1>5. Prepared' = Prepared
    BY <1>4 DEF Prepared, InState, Contains
  <1>6. ProcessorOK'
    BY <1>1, <1>2, <1>4, <1>5
    DEF PInv, ProcessorOK, delivery, Holding, Owing, Relocate, PipelineTypeOK
  <1> QED BY <1>1, <1>2, <1>3, <1>4, <1>6, PlaceStep

\* What every step of the processor that leaves the queue alone starts from.
LEMMA PreparedFixed ==
  ASSUME UNCHANGED rows
  PROVE  Prepared' = Prepared
  BY DEF Prepared, InState, Contains

\* The fields of the processor's control record.
LEMMA WorkTyping ==
  ASSUME work \in Work
  PROVE  /\ work.session \in Session \cup {NoSession} /\ work.result \in Result \cup {NoRow}
         /\ work.now \in Times /\ work.todo \subseteq Session
         /\ \A pc \in {"down", "error", "purge", "purgePublish", "recover", "idle",
                       "claimed", "analyse", "insert", "delete", "publish"} :
              /\ Doing(pc) \in Work
              /\ [work EXCEPT !.pc = pc] \in Work
  BY UploaderAssumption DEF Work, Doing, Times

\* The clock and the latest it has shown are times of the model.
LEMMA ClockTyping ==
  ASSUME PInv
  PROVE  /\ clock \in Nat /\ latest \in Nat /\ 0 <= latest
         /\ clock \in Times /\ latest \in Times /\ clock <= latest
  BY UploaderAssumption DEF PInv, PipelineTypeOK, UploaderTypeOK, Times

\* Every step of Processor::recover preserves the invariant.
LEMMA RecoverPreserves ==
  ASSUME PInv, Recover
  PROVE  PInv'
  <1>0. work \in Work /\ halts \in Nat /\ place \in [Session -> Storage!Places]
    BY DEF PInv, PipelineTypeOK
  <1>1. CASE StartProcessor
    <2>1. work' \in Work /\ work'.pc = "purge" /\ work'.todo = Prepared /\ work'.now = 0
      <3>1. Prepared \subseteq Session
        BY DEF Prepared, InState
      <3> QED BY <1>1, <3>1, UploaderAssumption DEF StartProcessor, Doing, Work, Prepared, Times
    <2>2. ProcessorOK'
      BY <1>1, <2>1, PreparedFixed, ClockTyping
      DEF StartProcessor, ProcessorOK, Holding, Owing, delivery
    <2> QED BY <1>0, <1>1, <2>1, <2>2, ControlStep DEF StartProcessor
  <1>2. CASE PurgeVideo
    <2>1. PICK s \in work.todo :
            IF place[s] \in {"capturing", "ready", "failed"}
            THEN work' = Doing("error") /\ UNCHANGED place
            ELSE /\ place' = IF place[s] = "claimed" THEN [place EXCEPT ![s] = "gone"]
                             ELSE place
                 /\ work' = [work EXCEPT !.pc = "purgePublish", !.session = s,
                                         !.todo = @ \ {s}]
      BY <1>2 DEF PurgeVideo
    <2>2. s \in Session /\ s \in Prepared /\ place[s] \in {"claimed", "gone"}
          /\ work.todo = Prepared
      BY <1>0, <1>2, <2>1, WorkTyping
      DEF PurgeVideo, PInv, ProcessorOK, PreparedPlaced
    <2>3. /\ work' \in Work /\ work'.pc = "purgePublish" /\ work'.session = s
          /\ work'.todo = work.todo \ {s} /\ work'.now = work.now
      BY <1>0, <2>1, <2>2 DEF Work
    <2>4. place'[s] = "gone"
      BY <1>0, <2>1, <2>2
    <2>5. ProcessorOK'
      BY <1>2, <2>2, <2>3, <2>4, PreparedFixed
      DEF PurgeVideo, PInv, ProcessorOK, Holding, Owing, delivery
    <2>6. CASE place[s] = "claimed"
      <3>1. Relocate(s, "gone")
        BY <2>1, <2>6 DEF Relocate
      <3> QED
        BY <1>0, <1>2, <2>2, <2>3, <2>5, <2>6, <3>1, PlaceStep
        DEF PurgeVideo, Storage!Places
    <2>7. CASE place[s] = "gone"
      BY <1>0, <1>2, <2>1, <2>3, <2>5, <2>7, ControlStep DEF PurgeVideo
    <2> QED BY <2>2, <2>6, <2>7
  <1>3. CASE PublishRecovered
    <2> DEFINE s == work.session
    <2>1. s \in Session /\ place[s] = "gone" /\ s \in Prepared /\ s \notin work.todo
          /\ Prepared = work.todo \cup {s}
      BY <1>3 DEF PublishRecovered, PInv, ProcessorOK, Owing
    <2>2. Publish(s) /\ Then("purge")
      BY <1>3, <2>1 DEF PublishRecovered, PublishRefused, Prepared
    <2>3. work' \in Work /\ work'.pc = "purge" /\ work'.todo = work.todo /\ work'.now = work.now
      BY <1>0, <2>2 DEF Then, Work
    <2>4. Prepared' = Prepared \ {s} => ProcessorOK'
      BY <1>3, <2>1, <2>3 DEF PInv, ProcessorOK, Holding, Owing, PublishRecovered, delivery
    <2> QED BY <1>0, <1>3, <2>1, <2>2, <2>3, <2>4, PublishStep DEF PublishRecovered
  <1>4. CASE FinishPurge
    <2>1. work' \in Work /\ work'.pc = "recover" /\ work'.now = 0
      BY <1>0, <1>4, WorkTyping DEF FinishPurge, Doing
    <2>2. ProcessorOK'
      BY <1>4, <2>1, PreparedFixed, ClockTyping
      DEF FinishPurge, PInv, ProcessorOK, Holding, Owing, delivery
    <2> QED BY <1>0, <1>4, <2>1, <2>2, ControlStep DEF FinishPurge
  <1>5. CASE RecoverSession
    <2>1. PICK s \in Session, to \in {"ready", "failed"} :
            place[s] \in {"claimed", "ready"} /\ Relocate(s, to)
      BY <1>5 DEF RecoverSession
    <2>2. Prepared = {} /\ work' = work /\ to \in Storage!Places
      BY <1>5 DEF RecoverSession, PInv, ProcessorOK, Storage!Places, Storage!Directories
    <2>3. ProcessorOK'
      BY <1>5, <2>2, PreparedFixed
      DEF RecoverSession, PInv, ProcessorOK, Holding, Owing, delivery
    <2> QED BY <1>0, <1>5, <2>1, <2>2, <2>3, PlaceStep DEF RecoverSession
  <1>6. CASE FinishRecovery
    <2>1. work' \in Work /\ work'.pc = "idle" /\ work'.now = 0
      BY <1>0, <1>6, WorkTyping DEF FinishRecovery, Doing
    <2>2. ProcessorOK'
      BY <1>6, <2>1, PreparedFixed, ClockTyping
      DEF FinishRecovery, PInv, ProcessorOK, Holding, Owing, delivery
    <2> QED BY <1>0, <1>6, <2>1, <2>2, ControlStep DEF FinishRecovery
  <1> QED BY <1>1, <1>2, <1>3, <1>4, <1>5, <1>6 DEF Recover

\* Every step of Processor::process_one preserves the invariant.
LEMMA ProcessOnePreserves ==
  ASSUME PInv, ProcessOne
  PROVE  PInv'
  <1>0. work \in Work /\ halts \in Nat /\ place \in [Session -> Storage!Places]
    BY DEF PInv, PipelineTypeOK
  <1>1. CASE ClaimNextReady
    <2>1. PICK s \in Session :
            /\ place[s] = "ready"
            /\ \/ Relocate(s, "failed") /\ UNCHANGED work
               \/ /\ Relocate(s, "claimed")
                  /\ work' = [Doing("claimed") EXCEPT !.session = s, !.now = clock]
      BY <1>1 DEF ClaimNextReady
    <2>2. Prepared = {}
      BY <1>1 DEF ClaimNextReady, PInv, ProcessorOK
    <2>3. CASE Relocate(s, "failed") /\ UNCHANGED work
      <3>1. ProcessorOK'
        BY <1>1, <2>2, <2>3, PreparedFixed
        DEF ClaimNextReady, PInv, ProcessorOK, Holding, Owing, delivery
      <3> QED
        BY <1>0, <1>1, <2>1, <2>2, <2>3, <3>1, PlaceStep
        DEF ClaimNextReady, Storage!Places, Storage!Directories
    <2>4. CASE /\ Relocate(s, "claimed")
               /\ work' = [Doing("claimed") EXCEPT !.session = s, !.now = clock]
      <3>1. work' \in Work /\ work'.pc = "claimed" /\ work'.session = s /\ work'.now = clock
        BY <2>4, ClockTyping DEF Doing, Work
      <3>2. place'[s] = "claimed"
        BY <1>0, <2>4 DEF Relocate
      <3>3. ProcessorOK'
        BY <1>1, <2>2, <3>1, <3>2, PreparedFixed, ClockTyping
        DEF ClaimNextReady, ProcessorOK, Holding, Owing, delivery
      <3> QED
        BY <1>0, <1>1, <2>1, <2>2, <2>4, <3>1, <3>3, PlaceStep
        DEF ClaimNextReady, Storage!Places, Storage!Directories
    <2> QED BY <2>1, <2>3, <2>4
  <1>2. CASE Reconcile
    <2>1. ~Contains(work.session)
      BY <1>2, RowStates
      DEF Reconcile, PInv, ProcessorOK, Holding, SentIsGone, PipelineTypeOK, UploaderTypeOK
    <2>2. Then("analyse")
      BY <1>2, <2>1 DEF Reconcile
    <2>3. /\ work' \in Work /\ work'.pc = "analyse" /\ work'.session = work.session
          /\ work'.now = work.now
      BY <1>0, <2>2 DEF Then, Work
    <2>4. ProcessorOK'
      BY <1>2, <2>3, PreparedFixed
      DEF Reconcile, PInv, ProcessorOK, Holding, Owing, delivery
    <2> QED BY <1>0, <1>2, <2>3, <2>4, ControlStep DEF Reconcile
  <1>3. CASE Analyse
    <2>1. PICK r \in Result : work' = [work EXCEPT !.pc = "insert", !.result = r]
      BY <1>3 DEF Analyse
    <2>2. /\ work' \in Work /\ work'.pc = "insert" /\ work'.session = work.session
          /\ work'.result \in Result /\ work'.now = work.now
      BY <1>0, <2>1 DEF Work
    <2>3. ProcessorOK'
      BY <1>3, <2>2, PreparedFixed
      DEF Analyse, PInv, ProcessorOK, Holding, Owing, delivery
    <2> QED BY <1>0, <1>3, <2>2, <2>3, ControlStep DEF Analyse
  <1>4. CASE MarkClaimFailed
    <2>1. work.session \in Session /\ place[work.session] = "claimed" /\ Prepared = {}
      BY <1>4 DEF MarkClaimFailed, PInv, ProcessorOK, Holding
    <2>2. work' \in Work /\ work'.pc = "idle" /\ work'.now = 0
      BY <1>0, <1>4, WorkTyping DEF MarkClaimFailed, Doing
    <2>3. ProcessorOK'
      BY <1>4, <2>1, <2>2, PreparedFixed, ClockTyping
      DEF MarkClaimFailed, ProcessorOK, Holding, Owing, delivery
    <2> QED
      BY <1>0, <1>4, <2>1, <2>2, <2>3, PlaceStep
      DEF MarkClaimFailed, Storage!Places, Storage!Directories
  <1>5. CASE InsertResult
    <2>1. work.session \in Session /\ ~Contains(work.session)
      BY <1>5, RowStates
      DEF InsertResult, PInv, ProcessorOK, Holding, SentIsGone, PipelineTypeOK, UploaderTypeOK
    <2>2. Commit /\ Then("delete") /\ UNCHANGED place
      BY <1>5, <2>1 DEF InsertResult, InsertConflicts
    <2>3. /\ work' \in Work /\ work'.pc = "delete" /\ work'.session = work.session
          /\ work'.now = work.now
      BY <1>0, <2>2 DEF Then, Work
    <2> QED
      BY <1>0, <1>5, <2>2, <2>3, CommitStep DEF InsertResult, PInv, ProcessorOK
  <1>6. CASE DeleteClaimed
    <2>1. /\ work.session \in Session /\ place[work.session] = "claimed"
          /\ Prepared = {work.session}
      BY <1>6 DEF DeleteClaimed, PInv, ProcessorOK, Holding
    <2>2. /\ work' \in Work /\ work'.pc = "publish" /\ work'.session = work.session
          /\ work'.now = work.now
      BY <1>0, <1>6 DEF DeleteClaimed, Then, Work
    <2>3. place'[work.session] = "gone"
      BY <1>0, <1>6, <2>1 DEF DeleteClaimed, Relocate
    <2>4. ProcessorOK'
      BY <1>6, <2>1, <2>2, <2>3, PreparedFixed
      DEF DeleteClaimed, PInv, ProcessorOK, Holding, Owing, delivery
    <2> QED
      BY <1>0, <1>6, <2>1, <2>2, <2>4, PlaceStep DEF DeleteClaimed, Storage!Places
  <1>7. CASE PublishResult
    <2> DEFINE s == work.session
    <2>1. s \in Session /\ place[s] = "gone" /\ Prepared = {s}
      BY <1>7 DEF PublishResult, PInv, ProcessorOK, Owing
    <2>2. Publish(s) /\ work' = Doing("idle")
      BY <1>7, <2>1 DEF PublishResult, PublishRefused, Prepared
    <2>3. work' \in Work /\ work'.pc = "idle" /\ work'.now = 0
      BY <1>0, <2>2, WorkTyping DEF Doing
    <2>4. Prepared' = Prepared \ {s} => ProcessorOK'
      BY <2>1, <2>3, <1>7, ClockTyping DEF PublishResult, ProcessorOK, Holding, Owing, delivery
    <2> QED BY <1>0, <1>7, <2>1, <2>2, <2>3, <2>4, PublishStep DEF PublishResult
  <1> QED BY <1>1, <1>2, <1>3, <1>4, <1>5, <1>6, <1>7 DEF ProcessOne

\* A kill, a failed operation or a shutdown preserves the invariant.
LEMMA InterruptPreserves ==
  ASSUME PInv, Interrupt
  PROVE  PInv'
  <1>0. /\ work \in Work /\ halts \in Nat /\ place \in [Session -> Storage!Places]
        /\ work' = Doing("down") /\ halts' = halts + 1
    BY DEF Interrupt, ReleaseClaim, InsertFails, StopProcessor, Halt, PInv, PipelineTypeOK
  <1>1. /\ work' \in Work /\ work'.pc = "down" /\ work'.session = NoSession
        /\ work'.now = 0 /\ halts' \in Nat
    BY <1>0, WorkTyping DEF Doing
  <1>2. UNCHANGED latest => ProcessorOK'
    BY <1>1, ClockTyping DEF ProcessorOK, Holding, Owing
  <1>3. CASE ReleaseClaim
    <2>1. work.session \in Session /\ place[work.session] = "claimed" /\ Prepared = {}
      BY <1>3 DEF ReleaseClaim, PInv, ProcessorOK, Holding
    <2> QED
      BY <1>1, <1>2, <1>3, <2>1, PlaceStep
      DEF ReleaseClaim, Storage!Places, Storage!Directories, delivery
  <1>4. CASE InsertFails
    <2>1. CASE Commit
      BY <1>1, <1>4, <2>1, ClockTyping, CommitStep DEF InsertFails
    <2>2. CASE UNCHANGED <<rows, deposited>>
      BY <1>1, <1>2, <1>4, <2>2, ControlStep DEF InsertFails, delivery
    <2> QED BY <1>4, <2>1, <2>2 DEF InsertFails
  <1>5. CASE StopProcessor
    BY <1>1, <1>2, <1>5, ControlStep DEF StopProcessor, delivery
  <1> QED BY <1>3, <1>4, <1>5 DEF Interrupt

-----------------------------------------------------------------------------
(* The steps of uploaders, the operator and the clock.                     *)

\* Steps of uploader u: they may only lose rows the API has recorded, and
\* only deliver what is visible.
LEMMA UploaderFrame ==
  ASSUME PInv, NEW u \in Uploaders, NEW t \in Task, Goto(u, t), TaskOK(t)',
         UNCHANGED <<clock, latest, deposited, processing>>,
         RowsOK', Prepared' = Prepared, Visible' \subseteq Visible,
         interventions' \in Nat, received' \in [Session -> Nat], trouble' \in [Session -> Nat],
         \A s \in Session : received'[s] >= received[s],
         \A s \in Visible \ Visible' : received'[s] > 0,
         \A s \in Session : received'[s] # received[s] =>
                              place[s] = "gone" /\ s \notin Prepared
  PROVE  PInv'
  <1>1. PipelineTypeOK'
    BY DEF PInv, PipelineTypeOK, UploaderTypeOK, RowsOK, Goto, processing
  <1>2. \A v \in Uploaders : UploaderOK(v)'
    <2> SUFFICES ASSUME NEW v \in Uploaders PROVE UploaderOK(v)'
      OBVIOUS
    <2>1. CASE v = u
      BY <2>1 DEF UploaderOK, Goto, PInv, PipelineTypeOK, UploaderTypeOK
    <2>2. CASE v # u
      <3>1. task'[v] = task[v] /\ UploaderOK(v)
        BY <2>2 DEF Goto, PInv, PipelineTypeOK, UploaderTypeOK
      <3>2. received \in [Session -> Nat]
        BY DEF PInv, PipelineTypeOK, UploaderTypeOK
      <3> QED BY <3>1, <3>2 DEF UploaderOK, TaskOK, processing
    <2> QED BY <2>1, <2>2
  <1>3. ProcessorOK'
    BY DEF PInv, ProcessorOK, Holding, Owing, processing
  <1>4. Prepared \subseteq Session /\ Visible \subseteq Session /\ received \in [Session -> Nat]
        /\ published \subseteq Session /\ deposited \subseteq Session
    BY RowStates DEF PInv, PipelineTypeOK, UploaderTypeOK
  <1>5. PreparedPlaced' /\ SentIsGone' /\ SentIsOpen'
    BY <1>4 DEF PInv, PreparedPlaced, SentIsGone, SentIsOpen, processing
  <1>6. Accounted' /\ Kept'
    BY <1>4 DEF PInv, Accounted, Kept, processing
  <1> QED BY <1>1, <1>2, <1>3, <1>5, <1>6 DEF PInv

\* Every step of an uploader preserves the invariant.
LEMMA UploaderPreserves ==
  ASSUME PInv, NEW u \in Uploaders, UploaderStep(u), UNCHANGED processing
  PROVE  PInv'
  <1> PICK s : s = task[u].session
    OBVIOUS
  <1>0. /\ task[u] \in Task /\ RowsOK /\ clock \in Times /\ interventions \in Nat
        /\ received \in [Session -> Nat] /\ trouble \in [Session -> Nat] /\ TaskOK(task[u])
    BY DEF PInv, PipelineTypeOK, UploaderTypeOK, UploaderOK
  <1>1. UNCHANGED rows => RowsOK' /\ Prepared' = Prepared /\ Visible' = Visible
    BY <1>0, RowsUnchanged
  <1>2. \A pc \in {"down", "error", "idle"} : At(pc) \in Task /\ TaskOK(At(pc))'
    BY UploaderAssumption DEF At, Task, Times, Answers, TaskOK
  <1>3. task[u].pc \in {"sending", "answered"} =>
          s \in Session /\ place[s] = "gone" /\ s \notin Prepared
    BY <1>0 DEF TaskOK
  <1>4. \A a \in Answers : [task[u] EXCEPT !.pc = "answered", !.answer = a] \in Task
    BY <1>0 DEF Task
  <1>5. CASE StartUploader(u)
    <2>1. Goto(u, At("idle"))
          /\ UNCHANGED <<rows, clock, latest, interventions, deposited, received, trouble>>
      BY <1>5 DEF StartUploader
    <2> QED BY <1>0, <1>1, <1>2, <2>1, UploaderFrame
  <1>6. CASE TakeNext(u)
    <2>1. PICK x \in NextDue(clock) :
            Goto(u, [At("sending") EXCEPT !.session = x, !.attempts = rows[x].attempts,
                                          !.now = clock])
      BY <1>6 DEF TakeNext
    <2>2. x \in Visible /\ x \in Session /\ rows[x] \in Row
      BY <1>0 DEF NextDue, InState, Visible, RowsOK, Contains
    <2>3. PICK t \in Task :
            /\ t = [At("sending") EXCEPT !.session = x, !.attempts = rows[x].attempts,
                                         !.now = clock]
            /\ t.pc = "sending" /\ t.session = x
      <3> PICK n \in Nat : n = rows[x].attempts
        BY <2>2 DEF Row
      <3> DEFINE new == [At("sending") EXCEPT !.session = x, !.attempts = n, !.now = clock]
      <3>1. new \in Task /\ new.pc = "sending" /\ new.session = x
        BY <1>0, <2>2 DEF At, Task, Answers
      <3> QED BY <3>1
    <2>4. x \notin Prepared /\ place[x] = "gone"
      BY <1>0, <2>2, RowStates DEF PInv, SentIsGone
    <2>5. TaskOK(t)'
      BY <1>1, <1>6, <2>2, <2>3, <2>4 DEF TaskOK, TakeNext, processing
    <2> QED BY <1>0, <1>1, <1>6, <2>1, <2>3, <2>5, UploaderFrame DEF TakeNext
  <1>7. CASE SendDelivered(u) \/ SendUnanswered(u)
    <2>1. PICK a \in Answers : Answer(u, a)
      BY <1>7 DEF SendDelivered, SendUnanswered, Answers
    <2>2. /\ s \in Session /\ received' = [received EXCEPT ![s] = @ + 1]
          /\ UNCHANGED <<rows, clock, latest, interventions, deposited>>
          /\ trouble' \in [Session -> Nat]
      BY <1>0, <1>3, <1>7 DEF SendDelivered, SendUnanswered
    <2>3. received'[s] > 0 /\ received' \in [Session -> Nat]
          /\ \A x \in Session : received'[x] >= received[x]
                                /\ (x # s => received'[x] = received[x])
      BY <1>0, <2>2
    <2>4. PICK t \in Task : t = [task[u] EXCEPT !.pc = "answered", !.answer = a]
                           /\ t.session = s
      BY <1>0, <1>4 DEF Task
    <2>5. place[s] = "gone" /\ s \notin Prepared
      BY <1>3, <1>7 DEF SendDelivered, SendUnanswered
    <2>6. TaskOK(t)'
      BY <1>1, <2>2, <2>3, <2>4, <2>5 DEF TaskOK, processing
    <2>7. Goto(u, t)
      BY <2>1, <2>4 DEF Answer
    <2> QED BY <1>0, <1>1, <2>2, <2>3, <2>4, <2>5, <2>6, <2>7, UploaderFrame
  <1>8. CASE SendFails(u) \/ SendRefused(u)
    <2>1. PICK a \in {"retryable", "permanent"} : Answer(u, a)
      BY <1>8 DEF SendFails, SendRefused
    <2>2. PICK t \in Task : t = [task[u] EXCEPT !.pc = "answered", !.answer = a]
                           /\ t.session = s /\ t.answer # "delivered"
      BY <1>0, <1>4 DEF Task, Answers
    <2>3. /\ UNCHANGED <<rows, clock, latest, interventions, deposited, received, trouble>>
          /\ s \in Session /\ place[s] = "gone" /\ s \notin Prepared
      BY <1>3, <1>8 DEF SendFails, SendRefused
    <2>4. TaskOK(t)'
      BY <1>1, <2>2, <2>3 DEF TaskOK, processing
    <2>5. Goto(u, t)
      BY <2>1, <2>2 DEF Answer
    <2> QED BY <1>0, <1>1, <2>2, <2>3, <2>4, <2>5, UploaderFrame
  <1>9. CASE Settle(u)
    <2>1. /\ s \in Session /\ place[s] = "gone" /\ s \notin Prepared
          /\ UNCHANGED <<clock, latest, interventions, deposited, received, trouble>>
      BY <1>3, <1>9 DEF Settle
    <2>2. CASE Delete(s) /\ Goto(u, At("idle")) /\ received[s] > 0
      <3>1. RowsOK' /\ Prepared' = Prepared /\ Visible' = Visible \ {s}
        BY <1>0, <2>1, <2>2, DeleteEffect
      <3> QED BY <1>0, <1>2, <2>1, <2>2, <3>1, UploaderFrame
    <2>3. CASE Goto(u, At("error")) /\ UNCHANGED rows
      BY <1>0, <1>1, <1>2, <2>1, <2>3, UploaderFrame
    <2>4. CASE s \in InState("pending") /\ Goto(u, At("idle"))
               /\ \E due \in Nat : DeadLetter(s) \/ Reschedule(s, due)
      <3>1. s \in Visible
        BY <2>4 DEF Visible
      <3>2. RowsOK' /\ Prepared' = Prepared /\ Visible' = Visible
        BY <1>0, <2>4, <3>1, VisibleEffect
      <3> QED BY <1>0, <1>2, <2>1, <2>4, <3>2, UploaderFrame
    <2>5. CASE task[u].answer = "delivered"
      BY <1>0, <1>9, <2>2, <2>5 DEF Settle, TaskOK
    <2>6. CASE task[u].answer # "delivered"
      <3>1. CASE \E delay \in 0 .. RetryLimit(task[u].attempts + 1) :
                   Reschedule(s, task[u].now + delay)
        <4>1. PICK delay \in Nat : Reschedule(s, task[u].now + delay)
          BY <3>1
        <4>2. task[u].now + delay \in Nat
          BY <1>0, UploaderAssumption DEF Task, Times
        <4> QED BY <1>9, <2>3, <2>4, <2>6, <4>1, <4>2 DEF Settle
      <3>2. CASE DeadLetter(s)
        BY <1>9, <2>3, <2>4, <2>6, <3>2 DEF Settle
      <3> QED BY <1>9, <2>3, <2>6, <3>1, <3>2 DEF Settle
    <2> QED BY <2>5, <2>6
  <1>10. CASE StopUploader(u)
    <2>1. trouble' \in [Session -> Nat]
      BY <1>0, <1>3, <1>10 DEF StopUploader
    <2> QED BY <1>0, <1>1, <1>2, <1>10, <2>1, UploaderFrame DEF StopUploader, processing
  <1> QED BY <1>5, <1>6, <1>7, <1>8, <1>9, <1>10 DEF UploaderStep

\* Uploaders, the operator and the clock preserve the invariant.
LEMMA DeliveryPreserves ==
  ASSUME PInv, DeliveryStep, UNCHANGED processing
  PROVE  PInv'
  <1>0. RowsOK /\ clock \in Times /\ interventions \in Nat
    BY DEF PInv, PipelineTypeOK, UploaderTypeOK
  <1>1. CASE \E u \in Uploaders : UploaderStep(u)
    BY <1>1, UploaderPreserves
  <1>2. CASE \E s \in Session : OperatorRequeues(s)
    <2>1. PICK s \in Session : Requeue(s, clock)
            /\ interventions' = interventions + 1
            /\ UNCHANGED <<clock, latest, task, deposited, received, trouble>>
      BY <1>2 DEF OperatorRequeues
    <2>2. s \in Visible /\ clock \in Nat
      BY <2>1, ClockTyping DEF Requeue, Visible
    <2>3. RowsOK' /\ Prepared' = Prepared /\ Visible' = Visible
      BY <1>0, <2>1, <2>2, VisibleEffect
    <2>4. PipelineTypeOK'
      BY <1>0, <2>1, <2>3 DEF PInv, PipelineTypeOK, UploaderTypeOK, processing
    <2>5. (\A u \in Uploaders : UploaderOK(u)') /\ ProcessorOK'
      BY <2>1, <2>3 DEF PInv, UploaderOK, TaskOK, ProcessorOK, Holding, Owing, processing
    <2> QED
      BY <2>1, <2>3, <2>4, <2>5
      DEF PInv, PreparedPlaced, SentIsGone, SentIsOpen, Accounted, Kept, processing
  <1>3. CASE Tick \/ SetClockBack
    <2>1. /\ UNCHANGED <<rows, task, deposited, received, trouble>>
          /\ interventions' \in Nat
          /\ clock' \in Times /\ latest' \in clock' .. MaxTime /\ latest <= latest'
      BY <1>0, <1>3, ClockTyping, UploaderAssumption DEF Tick, SetClockBack, Times
    <2>2. RowsOK' /\ Prepared' = Prepared /\ Visible' = Visible
      BY <1>0, <2>1, RowsUnchanged
    <2>3. PipelineTypeOK'
      BY <1>0, <2>1, <2>2 DEF PInv, PipelineTypeOK, UploaderTypeOK, processing
    <2>4. work'.now <= latest'
      <3>1. work.now \in Nat /\ work.now <= latest /\ work' = work
        BY <2>1, UploaderAssumption
        DEF PInv, PipelineTypeOK, ProcessorOK, Work, Times, processing
      <3>2. latest \in Nat /\ latest' \in Nat
        BY <2>1, ClockTyping, UploaderAssumption DEF Times
      <3> QED BY <2>1, <3>1, <3>2
    <2>5. (\A u \in Uploaders : UploaderOK(u)') /\ ProcessorOK'
      BY <2>1, <2>2, <2>4
      DEF PInv, UploaderOK, TaskOK, ProcessorOK, Holding, Owing, processing
    <2> QED
      BY <2>1, <2>2, <2>3, <2>5
      DEF PInv, PreparedPlaced, SentIsGone, SentIsOpen, Accounted, Kept, processing
  <1> QED BY <1>1, <1>2, <1>3 DEF DeliveryStep

-----------------------------------------------------------------------------
(* The invariant.                                                          *)

\* The invariant holds when nothing was recorded yet.
LEMMA InitEstablishes ==
  ASSUME PipelineInit
  PROVE  PInv
  <1>1. Prepared = {} /\ Visible = {} /\ RowsOK
    BY DEF PipelineInit, UploaderInit, Prepared, Visible, InState, Contains, RowsOK
  <1>2. 0 \in Times /\ clock = 0 /\ latest = 0 /\ latest \in clock .. MaxTime
    BY UploaderAssumption DEF PipelineInit, UploaderInit, Times
  <1>3. At("down") \in Task /\ TaskOK(At("down")) /\ Doing("down") \in Work
    BY <1>2 DEF At, Task, Answers, TaskOK, Doing, Work
  <1>4. PipelineTypeOK
    BY <1>1, <1>2, <1>3
    DEF PipelineInit, UploaderInit, PipelineTypeOK, UploaderTypeOK, Storage!Places
  <1>5. \A u \in Uploaders : UploaderOK(u)
    BY <1>3 DEF PipelineInit, UploaderInit, UploaderOK
  <1>6. ProcessorOK
    BY <1>1, <1>2 DEF PipelineInit, ProcessorOK, Doing, Holding, Owing
  <1> QED
    BY <1>1, <1>4, <1>5, <1>6
    DEF PInv, PreparedPlaced, SentIsGone, SentIsOpen, Accounted, Kept,
        PipelineInit, UploaderInit

\* The invariant is inductive.
LEMMA StepPreserves ==
  ASSUME PInv, [PipelineNext]_pvars
  PROVE  PInv'
  <1>1. CASE PipelineNext
    BY <1>1, RecorderPreserves, RecoverPreserves, ProcessOnePreserves, InterruptPreserves,
       DeliveryPreserves
    DEF PipelineNext
  <1>2. CASE UNCHANGED pvars
    <2>1. work' \in Work /\ halts' \in Nat
      BY <1>2 DEF pvars, PInv, PipelineTypeOK
    <2>2. ProcessorOK'
      BY <1>2, PreparedFixed DEF pvars, PInv, ProcessorOK, Holding, Owing
    <2> QED BY <1>2, <2>1, <2>2, ControlStep DEF pvars, delivery
  <1> QED BY <1>1, <1>2

\* The inductive invariant: a prepared result belongs to the session the
\* processor or its recovery is working on, and a result that the uploader can
\* see or the API has recorded belongs to a session whose video is gone.
THEOREM PipelineInvariant == PipelineSpec => []PInv
  <1>1. PipelineInit => PInv
    BY InitEstablishes
  <1>2. PInv /\ [PipelineNext]_pvars => PInv'
    BY StepPreserves
  <1> QED BY <1>1, <1>2, PTL DEF PipelineSpec

\* Types of the queue, the uploaders, the processor and the session places.
THEOREM PipelineTyping == PipelineSpec => []PipelineTypeOK
  <1>1. PInv => PipelineTypeOK
    BY DEF PInv
  <1> QED BY <1>1, PipelineInvariant, PTL

\* No published recording is lost between storage, queue and API, whatever
\* crashes, I/O errors, lost answers and clock jumps happen in between.
THEOREM PipelineAccounts == PipelineSpec => []EveryRecordingAccounted
  <1>1. PInv => EveryRecordingAccounted
    BY RowStates
    DEF PInv, Accounted, EveryRecordingAccounted, PipelineTypeOK, UploaderTypeOK
  <1> QED BY <1>1, PipelineInvariant, PTL

\* A result is visible to the uploader, or known to the API, only when the
\* video of its session is deleted (delete_claimed before publish).
THEOREM PipelineDeletesFirst == PipelineSpec => []VideoGoneBeforeSending
  <1>1. PInv => VideoGoneBeforeSending
    BY DEF PInv, SentIsGone, Visible, VideoGoneBeforeSending
  <1> QED BY <1>1, PipelineInvariant, PTL

\* A session with a committed result is never analysed again
\* (the recovery and contains_session before the analysis).
THEOREM PipelineAnalysesOnce == PipelineSpec => []NeverAnalysedTwice
  <1>1. PInv => NeverAnalysedTwice
    BY DEF PInv, Kept, ProcessorOK, Holding, SentIsGone, NeverAnalysedTwice
  <1> QED BY <1>1, PipelineInvariant, PTL

\* The processor never meets a conflict: PreparedResultStateConflict, a
\* differing stored result and a refused publish are unreachable.
THEOREM PipelineNeverConflicts == PipelineSpec => []ProcessorNeverConflicts
  <1>1. PInv => ProcessorNeverConflicts
    BY DEF PInv, ProcessorOK, ProcessorNeverConflicts
  <1> QED BY <1>1, PipelineInvariant, PTL

-----------------------------------------------------------------------------
(* Refinement: what the processor is for the queue and for the storage.    *)

\* A committed insert is a first deposit in the sense of module Uploader.
LEMMA CommitDeposits ==
  ASSUME PInv, work.pc = "insert", Commit, UNCHANGED delivery
  PROVE  \E s \in Session : Deposit(s)
  <1>1. /\ work.session \in Session /\ work.result \in Result
        /\ work.now \in 0 .. latest
    BY ClockTyping, UploaderAssumption
    DEF PInv, ProcessorOK, Holding, PipelineTypeOK, Work, Times
  <1>2. work.session \notin deposited
    BY DEF PInv, Kept, ProcessorOK, Holding, SentIsGone
  <1>3. Deposit(work.session)
    BY <1>1, <1>2 DEF Commit, Deposit, delivery
  <1> QED BY <1>1, <1>3

\* Every step is a step of module Uploader, or leaves its variables alone.
LEMMA QueueStep ==
  ASSUME PInv, [PipelineNext]_pvars
  PROVE  [UploaderNext]_uvars
  <1>1. CASE \E s \in Session : RecorderMoves(s)
    BY <1>1 DEF RecorderMoves, delivery, uvars
  <1>2. CASE Recover
    <2>1. CASE PublishRecovered
      <3>1. work.session \in Session /\ work.session \in Prepared
        BY <2>1 DEF PublishRecovered, PInv, ProcessorOK, Owing
      <3>2. Release(work.session)
        BY <2>1, <3>1 DEF PublishRecovered, PublishRefused, Prepared, Release, delivery
      <3> QED BY <3>1, <3>2 DEF UploaderNext
    <2>2. CASE ~PublishRecovered
      BY <1>2, <2>2
      DEF Recover, StartProcessor, PurgeVideo, FinishPurge, RecoverSession, FinishRecovery,
          delivery, uvars
    <2> QED BY <2>1, <2>2
  <1>3. CASE ProcessOne
    <2>1. CASE InsertResult
      <3>1. work.session \in Session /\ ~Contains(work.session)
        BY <2>1, RowStates
        DEF InsertResult, PInv, ProcessorOK, Holding, SentIsGone, PipelineTypeOK,
            UploaderTypeOK
      <3>2. work.pc = "insert" /\ Commit /\ UNCHANGED delivery
        BY <2>1, <3>1 DEF InsertResult, InsertConflicts
      <3> QED BY <3>2, CommitDeposits DEF UploaderNext
    <2>2. CASE PublishResult
      <3>1. work.session \in Session /\ work.session \in Prepared
        BY <2>2 DEF PublishResult, PInv, ProcessorOK, Owing
      <3>2. Release(work.session)
        BY <2>2, <3>1 DEF PublishResult, PublishRefused, Prepared, Release, delivery
      <3> QED BY <3>1, <3>2 DEF UploaderNext
    <2>3. CASE ~InsertResult /\ ~PublishResult
      BY <1>3, <2>3
      DEF ProcessOne, ClaimNextReady, Reconcile, Analyse, MarkClaimFailed, DeleteClaimed,
          delivery, uvars
    <2> QED BY <2>1, <2>2, <2>3
  <1>4. CASE Interrupt
    <2>1. CASE InsertFails /\ Commit
      BY <2>1, CommitDeposits DEF InsertFails, UploaderNext
    <2>2. CASE ~(InsertFails /\ Commit)
      BY <1>4, <2>2 DEF Interrupt, ReleaseClaim, InsertFails, StopProcessor, delivery, uvars
    <2> QED BY <2>1, <2>2
  <1>5. CASE DeliveryStep
    BY <1>5 DEF UploaderNext
  <1>6. CASE UNCHANGED pvars
    BY <1>6 DEF pvars, uvars
  <1> QED BY <1>1, <1>2, <1>3, <1>4, <1>5, <1>6 DEF PipelineNext

\* The processor and its recovery use the queue as module Uploader assumes:
\* one result per session, committed once, published once.
THEOREM PipelineUsesQueue == PipelineSpec => QueueUsedAsAssumed
  <1>1. PipelineInit => UploaderInit
    BY DEF PipelineInit
  <1>2. PInv /\ [PipelineNext]_pvars => [UploaderNext]_uvars
    BY QueueStep
  <1> QED
    BY <1>1, <1>2, PipelineInvariant, PTL DEF PipelineSpec, QueueUsedAsAssumed, UploaderSpec

\* One move along an edge is a step of the lifecycle.
LEMMA StorageEdge ==
  ASSUME NEW s \in Session, NEW to \in Storage!Places, Relocate(s, to),
         <<place[s], to>> \in Storage!Edges
  PROVE  Storage!Next
  BY DEF Relocate, Storage!Next, Storage!Move

\* Every step is a step of the storage lifecycle, or moves no session.
LEMMA StorageStep ==
  ASSUME PInv, [PipelineNext]_pvars
  PROVE  [Storage!Next]_place
  <1> USE DEF Storage!Places, Storage!Directories, Storage!Edges
  <1>1. CASE \E s \in Session : RecorderMoves(s)
    BY <1>1, StorageEdge DEF RecorderMoves
  <1>2. CASE Recover
    <2>1. CASE PurgeVideo
      <3>1. PICK s \in work.todo :
              \/ UNCHANGED place
              \/ place[s] = "claimed" /\ Relocate(s, "gone")
        BY <2>1 DEF PurgeVideo, Relocate
      <3>2. s \in Session
        BY DEF PInv, PipelineTypeOK, Work
      <3> QED BY <3>1, <3>2, StorageEdge
    <2>2. CASE RecoverSession
      BY <2>2, StorageEdge DEF RecoverSession
    <2>3. CASE ~PurgeVideo /\ ~RecoverSession
      BY <1>2, <2>3
      DEF Recover, StartProcessor, PublishRecovered, FinishPurge, FinishRecovery
    <2> QED BY <2>1, <2>2, <2>3
  <1>3. CASE ProcessOne
    <2>1. work.pc \in Holding => work.session \in Session /\ place[work.session] = "claimed"
      BY DEF PInv, ProcessorOK
    <2>2. CASE ClaimNextReady
      BY <2>2, StorageEdge DEF ClaimNextReady
    <2>3. CASE MarkClaimFailed
      BY <2>1, <2>3, StorageEdge DEF MarkClaimFailed, Holding
    <2>4. CASE InsertResult
      BY <2>1, <2>4, StorageEdge DEF InsertResult, Holding
    <2>5. CASE DeleteClaimed
      BY <2>1, <2>5, StorageEdge DEF DeleteClaimed, Holding
    <2>6. CASE Reconcile \/ Analyse \/ PublishResult
      BY <2>6 DEF Reconcile, Analyse, PublishResult
    <2> QED BY <1>3, <2>2, <2>3, <2>4, <2>5, <2>6 DEF ProcessOne
  <1>4. CASE Interrupt
    <2>1. CASE ReleaseClaim
      BY <2>1, StorageEdge DEF ReleaseClaim, PInv, ProcessorOK, Holding
    <2>2. CASE InsertFails \/ StopProcessor
      BY <2>2 DEF InsertFails, StopProcessor
    <2> QED BY <1>4, <2>1, <2>2 DEF Interrupt
  <1>5. CASE UNCHANGED processing
    BY <1>5 DEF processing
  <1>6. CASE UNCHANGED pvars
    BY <1>6 DEF pvars
  <1> QED BY <1>1, <1>2, <1>3, <1>4, <1>5, <1>6 DEF PipelineNext

\* Recorders and the processor move sessions only along the edges that the
\* session storage implements.
THEOREM PipelineUsesStorage == PipelineSpec => StorageUsedAsAssumed
  <1>1. PipelineInit => Storage!Init
    BY DEF PipelineInit, Storage!Init
  <1>2. PInv /\ [PipelineNext]_pvars => [Storage!Next]_place
    BY StorageStep
  <1> QED
    BY <1>1, <1>2, PipelineInvariant, PTL DEF PipelineSpec, StorageUsedAsAssumed, Storage!Spec

=============================================================================
