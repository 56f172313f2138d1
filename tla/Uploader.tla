-------------------------------- MODULE Uploader --------------------------------
(***************************************************************************)
(* Delivery of queued results to the timeline API (crates/pcrt-uploader,   *)
(* bins/pcrt-uploader): the uploader takes the next due row, makes one     *)
(* HTTP attempt, and deletes, reschedules or dead-letters the row by its   *)
(* outcome.  Between these steps it may die; the row is all that is left,  *)
(* and the next start sends it again under the same idempotency key.       *)
(*                                                                         *)
(* Nothing in the code keeps a second uploader from opening the database,  *)
(* so the number of uploaders is a parameter.  The processor appears here  *)
(* only through what it does to the queue; module Pipeline shows that the  *)
(* real one does no more.                                                  *)
(***************************************************************************)
EXTENDS ResultQueue

CONSTANTS
  Uploaders,
  InitialBackoff, MaxBackoff,
  MaxTime,          \* bound on the clock
  MaxAttempts,      \* bound on the failures of a row before the API recovers
  MaxTrouble,       \* bound on lost answers of a row, and on interventions
  ClockMayStepBack,
  NoSession

VARIABLES
  clock,
  latest,     \* history: the latest time the clock has shown
  task,       \* task[u]: where uploader u is in process_next (volatile)
  interventions, \* uploaders stopped, rows requeued and clocks set back from outside
  deposited,  \* history: the sessions whose result was committed
  received,   \* received[s]: how often the API recorded the result of s
  trouble     \* trouble[s]: how often the uploader could not learn of it

uvars == <<rows, clock, latest, task, interventions, deposited, received, trouble>>

Times == 0 .. MaxTime
Answers == {"delivered", "retryable", "permanent"}
Task == [pc : {"down", "error", "idle", "sending", "answered"},
         session : Session \cup {NoSession}, attempts : Nat, now : Times,
         answer : Answers]

ASSUME UploaderAssumption ==
  /\ MaxTime \in Nat /\ MaxAttempts \in Nat /\ MaxTrouble \in Nat
  /\ InitialBackoff \in Nat \ {0} /\ MaxBackoff \in Nat /\ InitialBackoff <= MaxBackoff
  /\ ClockMayStepBack \in BOOLEAN
  /\ NoSession \notin Session

\* The table, the uploaders and the histories are well formed; attempts and
\* due times never leave the naturals (reschedule, retry_at).
UploaderTypeOK ==
  /\ RowsOK
  /\ clock \in Times /\ latest \in clock .. MaxTime
  /\ task \in [Uploaders -> Task]
  /\ interventions \in Nat
  /\ deposited \subseteq Session
  /\ received \in [Session -> Nat]
  /\ trouble \in [Session -> Nat]

At(pc) == [pc |-> pc, session |-> NoSession, attempts |-> 0, now |-> 0,
           answer |-> "retryable"]
Goto(u, t) == task' = [task EXCEPT ![u] = t]

-----------------------------------------------------------------------------
(* Retry policy.                                                           *)

\* Mutant: the loop doubles once more.
RetryLimitOnceMore(attempts) ==
  LET delay[n \in Nat] == IF n = 0 THEN InitialBackoff
                          ELSE IF 2 * delay[n - 1] >= MaxBackoff THEN MaxBackoff
                          ELSE 2 * delay[n - 1]
  IN delay[attempts]

\* retry_limit: double until the cap is reached
RetryLimit(attempts) ==
  LET delay[n \in Nat] == IF n <= 1 THEN InitialBackoff
                          ELSE IF 2 * delay[n - 1] >= MaxBackoff THEN MaxBackoff
                          ELSE 2 * delay[n - 1]
  IN delay[attempts]

\* 2 ^ n
PowerOfTwo[n \in Nat] == IF n = 0 THEN 1 ELSE 2 * PowerOfTwo[n - 1]

\* What the documentation of the policy promises (docs/modules/pcrt-uploader.md).
PromisedLimit(attempts) ==
  LET promised == InitialBackoff * PowerOfTwo[attempts - 1] IN
  IF attempts = 0 THEN 0 ELSE IF promised < MaxBackoff THEN promised ELSE MaxBackoff

-----------------------------------------------------------------------------
(* One uploader.                                                           *)

StartUploader(u) ==
  /\ task[u].pc \in {"down", "error"}
  /\ Goto(u, At("idle"))
  /\ UNCHANGED <<rows, clock, latest, interventions, deposited, received, trouble>>

\* process_next reads the clock once, before it takes a row.
TakeNext(u) ==
  /\ task[u].pc = "idle"
  /\ \E s \in NextDue(clock) :
       Goto(u, [At("sending") EXCEPT !.session = s, !.attempts = rows[s].attempts,
                                     !.now = clock])
  /\ UNCHANGED <<rows, clock, latest, interventions, deposited, received, trouble>>

Answer(u, answer) == Goto(u, [task[u] EXCEPT !.pc = "answered", !.answer = answer])

\* send_timeline: the API records the result, and its 2xx comes back ...
SendDelivered(u) ==
  LET s == task[u].session IN
  /\ task[u].pc = "sending"
  /\ received' = [received EXCEPT ![s] = @ + 1]
  /\ Answer(u, "delivered")
  /\ UNCHANGED <<rows, clock, latest, interventions, deposited, trouble>>

\* Bounds: the API recovers after MaxAttempts failures of a row, and early
\* enough for the clock to reach the retry.
MayFail(u) ==
  /\ task[u].attempts < MaxAttempts
  /\ task[u].now + RetryLimit(task[u].attempts + 1) <= MaxTime

\* ... or is lost ...
SendUnanswered(u) ==
  LET s == task[u].session IN
  /\ task[u].pc = "sending" /\ trouble[s] < MaxTrouble /\ MayFail(u)
  /\ received' = [received EXCEPT ![s] = @ + 1]
  /\ trouble' = [trouble EXCEPT ![s] = @ + 1]
  /\ Answer(u, "retryable")
  /\ UNCHANGED <<rows, clock, latest, interventions, deposited>>

\* ... or the API cannot be reached or answers 408, 425, 429 or 5xx ...
SendFails(u) ==
  /\ task[u].pc = "sending" /\ MayFail(u)
  /\ Answer(u, "retryable")
  /\ UNCHANGED <<rows, clock, latest, interventions, deposited, received, trouble>>

\* ... or it refuses the payload.
SendRefused(u) ==
  /\ task[u].pc = "sending"
  /\ Answer(u, "permanent")
  /\ UNCHANGED <<rows, clock, latest, interventions, deposited, received, trouble>>

\* Mutant: a result that cannot be delivered is dropped.
SettleDroppingPermanent(u) ==
  LET t == task[u] s == t.session IN
  /\ t.pc = "answered"
  /\ IF t.answer \in {"delivered", "permanent"} THEN Delete(s) /\ Goto(u, At("idle"))
     ELSE IF s \notin InState("pending") THEN Goto(u, At("error")) /\ UNCHANGED rows
     ELSE \E delay \in 0 .. RetryLimit(t.attempts + 1) :
            Reschedule(s, t.now + delay) /\ Goto(u, At("idle"))
  /\ UNCHANGED <<clock, latest, interventions, deposited, received, trouble>>

\* Mutant: a delivered row is rescheduled like a failed one.
SettleKeepingDelivered(u) ==
  LET t == task[u] s == t.session IN
  /\ t.pc = "answered"
  /\ IF s \notin InState("pending") THEN Goto(u, At("error")) /\ UNCHANGED rows
     ELSE IF t.answer = "permanent" THEN DeadLetter(s) /\ Goto(u, At("idle"))
     ELSE \E delay \in 0 .. RetryLimit(t.attempts + 1) :
            Reschedule(s, t.now + delay) /\ Goto(u, At("idle"))
  /\ UNCHANGED <<clock, latest, interventions, deposited, received, trouble>>

\* The outcome of the attempt is recorded; a row that is no longer pending
\* makes the uploader leave with an error.
Settle(u) ==
  LET t == task[u] s == t.session IN
  /\ t.pc = "answered"
  /\ IF t.answer = "delivered" THEN Delete(s) /\ Goto(u, At("idle"))
     ELSE IF s \notin InState("pending") THEN Goto(u, At("error")) /\ UNCHANGED rows
     ELSE IF t.answer = "permanent" THEN DeadLetter(s) /\ Goto(u, At("idle"))
     ELSE \E delay \in 0 .. RetryLimit(t.attempts + 1) :
            Reschedule(s, t.now + delay) /\ Goto(u, At("idle"))
  /\ UNCHANGED <<clock, latest, interventions, deposited, received, trouble>>

\* The uploader is killed, or power is lost.
StopUploader(u) ==
  LET t == task[u] IN
  /\ t.pc \notin {"down", "error"} /\ interventions < MaxTrouble
  /\ interventions' = interventions + 1
  /\ trouble' = IF t.pc = "answered" /\ t.answer = "delivered"
                THEN [trouble EXCEPT ![t.session] = @ + 1] ELSE trouble
  /\ Goto(u, At("down"))
  /\ UNCHANGED <<rows, clock, latest, deposited, received>>

UploaderStep(u) ==
  \/ StartUploader(u) \/ TakeNext(u)
  \/ SendDelivered(u) \/ SendUnanswered(u) \/ SendFails(u) \/ SendRefused(u)
  \/ Settle(u) \/ StopUploader(u)

-----------------------------------------------------------------------------
(* The rest of the world, as the queue sees it.                            *)

\* The processor commits the one result of a session; it stamps the row with
\* the time it claimed the session at, which a clock set back may not have
\* reached again.
Deposit(s) ==
  /\ s \notin deposited
  /\ \E r \in Result, now \in 0 .. latest : Insert(s, r, now)
  /\ deposited' = deposited \cup {s}
  /\ UNCHANGED <<clock, latest, task, interventions, received, trouble>>

\* The video is gone: the row becomes visible.
Release(s) ==
  /\ s \in InState("prepared")
  /\ Publish(s)
  /\ UNCHANGED <<clock, latest, task, interventions, deposited, received, trouble>>

\* pcrt-uploader requeue-dead-letter, at any time
OperatorRequeues(s) ==
  /\ interventions < MaxTrouble
  /\ interventions' = interventions + 1
  /\ Requeue(s, clock)
  /\ UNCHANGED <<clock, latest, task, deposited, received, trouble>>

Tick ==
  /\ clock < MaxTime /\ clock' = clock + 1
  /\ latest' = IF clock' > latest THEN clock' ELSE latest
  /\ UNCHANGED <<rows, task, interventions, deposited, received, trouble>>

SetClockBack ==
  /\ ClockMayStepBack /\ interventions < MaxTrouble
  /\ interventions' = interventions + 1
  /\ \E t \in Times : t < clock /\ clock' = t
  /\ UNCHANGED <<rows, latest, task, deposited, received, trouble>>

UploaderInit ==
  /\ rows = [s \in Session |-> NoRow]
  /\ clock = 0 /\ latest = 0
  /\ task = [u \in Uploaders |-> At("down")]
  /\ interventions = 0
  /\ deposited = {}
  /\ received = [s \in Session |-> 0]
  /\ trouble = [s \in Session |-> 0]

\* Everything but the processor.
DeliveryStep ==
  \/ \E u \in Uploaders : UploaderStep(u)
  \/ \E s \in Session : OperatorRequeues(s)
  \/ Tick \/ SetClockBack

UploaderNext ==
  \/ DeliveryStep
  \/ \E s \in Session : Deposit(s) \/ Release(s)

UploaderSpec == UploaderInit /\ [][UploaderNext]_uvars

-----------------------------------------------------------------------------
(* Safety.                                                                 *)

\* A committed result is in the queue until the API has recorded it, however
\* often the uploader dies, answers are lost or the operator requeues.
NothingLost ==
  \A s \in deposited : Contains(s) \/ received[s] > 0

\* The prepared barrier: nothing is sent while the video may still exist.
PreparedIsUnsent ==
  \A s \in InState("prepared") : received[s] = 0

\* With one uploader the API records a result again only after an answer was
\* lost or the uploader died before it deleted the row.
RepeatOnlyAfterTrouble ==
  \A s \in Session : received[s] <= 1 + trouble[s]

\* With one uploader no row changes under it, so no attempt ends in
\* MissingPendingMessage, whatever the processor and the operator do.
UploaderNeverErrs ==
  \A u \in Uploaders : task[u].pc # "error"

\* "min(max_backoff, initial_backoff * 2^(n - 1))": the limit documented for the
\* failures of a row counts from a time the clock has shown, so a clock that is
\* set back delays the retry by the size of that step and no more.
WaitIsBounded ==
  \A s \in Session : Contains(s) => rows[s].due <= latest + PromisedLimit(rows[s].attempts)

\* A row that gave up is touched by the operator alone, and keeps its result.
DeadLetterIsKept ==
  [][\A s \in InState("dead_letter") :
       /\ Contains(s)'
       /\ rows'[s].result = rows[s].result
       /\ rows'[s] # rows[s] => rows'[s].state = "pending" /\ rows'[s].attempts = 0]_uvars
=============================================================================
