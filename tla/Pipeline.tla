-------------------------------- MODULE Pipeline --------------------------------
(***************************************************************************)
(* The way of a recording from a published session to the timeline API:    *)
(* the processor core (crates/pcrt-processing) between the session storage *)
(* and the result queue, with the uploader of module Uploader at the other *)
(* end.                                                                    *)
(*                                                                         *)
(* The storage appears as the lifecycle that module SessionStorage is      *)
(* shown to implement: one place per session, each storage operation one   *)
(* step.  Every queue operation is a step of its own, and the processor    *)
(* may die, or an operation of the queue or of the file system may fail,   *)
(* before and after each.                                                  *)
(***************************************************************************)
EXTENDS Uploader

CONSTANTS
  MaxStops    \* bound on crashes, shutdowns and I/O errors of the processor

VARIABLES
  place,      \* place[s]: the storage's side of session s
  work,       \* where the processor is in recover or process_one (volatile)
  halts,      \* how often the processor was stopped, or an operation failed
  published   \* history: the sessions that reached ready

pvars == <<rows, clock, latest, task, interventions, deposited, received, trouble,
           place, work, halts, published>>
delivery == <<clock, latest, task, interventions, received, trouble>>
processing == <<place, work, halts, published>>

Storage == INSTANCE SessionLifecycle

Work == [pc : {"down", "error", "purge", "purgePublish", "recover", "idle", "claimed",
               "analyse", "insert", "delete", "publish"},
         session : Session \cup {NoSession}, result : Result \cup {NoRow}, now : Times,
         todo : SUBSET Session]

ASSUME PipelineAssumption == MaxStops \in Nat /\ NoRow \notin Result

\* The queue, the sessions and the processor are well formed: the processor
\* is at a step of recover or process_one, with what that step holds.
PipelineTypeOK ==
  /\ UploaderTypeOK
  /\ place \in [Session -> Storage!Places]
  /\ work \in Work
  /\ halts \in Nat
  /\ published \subseteq Session

Doing(pc) == [pc |-> pc, session |-> NoSession, result |-> NoRow, now |-> 0, todo |-> {}]
Then(pc) == work' = [work EXCEPT !.pc = pc]
Halt(pc) == halts < MaxStops /\ halts' = halts + 1 /\ work' = Doing(pc)
Relocate(s, to) == place' = [place EXCEPT ![s] = to]

-----------------------------------------------------------------------------
(* Recorders.  Once published, a session is the processor's.               *)

RecorderMoves(s) ==
  /\ \/ place[s] = "new" /\ Relocate(s, "capturing")
     \/ place[s] = "capturing" /\ \E to \in {"ready", "failed", "gone"} : Relocate(s, to)
  /\ published' = IF place'[s] = "ready" THEN published \cup {s} ELSE published
  /\ UNCHANGED <<rows, deposited, work, halts, delivery>>

-----------------------------------------------------------------------------
(* Processor::recover.                                                     *)

\* Mutant: the storage is recovered first.
StartWithStorage ==
  /\ work.pc \in {"down", "error"}
  /\ work' = Doing("recover")
  /\ UNCHANGED <<rows, deposited, place, halts, published, delivery>>

\* The prepared rows are listed once.
StartProcessor ==
  /\ work.pc \in {"down", "error"}
  /\ work' = [Doing("purge") EXCEPT !.todo = InState("prepared")]
  /\ UNCHANGED <<rows, deposited, place, halts, published, delivery>>

\* delete_session_with_prepared_result: a session in another directory than
\* claimed is a conflict, a missing one is done already.
PurgeVideo ==
  /\ work.pc = "purge"
  /\ \E s \in work.todo :
       IF place[s] \in {"capturing", "ready", "failed"}
       THEN work' = Doing("error") /\ UNCHANGED place
       ELSE /\ place' = IF place[s] = "claimed" THEN [place EXCEPT ![s] = "gone"] ELSE place
            /\ work' = [work EXCEPT !.pc = "purgePublish", !.session = s, !.todo = @ \ {s}]
  /\ UNCHANGED <<rows, deposited, halts, published, delivery>>

PublishRecovered ==
  /\ work.pc = "purgePublish"
  /\ IF PublishRefused(work.session) THEN work' = Doing("error") /\ UNCHANGED rows
     ELSE Publish(work.session) /\ Then("purge")
  /\ UNCHANGED <<deposited, place, halts, published, delivery>>

FinishPurge ==
  /\ work.pc = "purge" /\ work.todo = {}
  /\ work' = Doing("recover")
  /\ UNCHANGED <<rows, deposited, place, halts, published, delivery>>

\* Mutant: failed sessions are released as well.
RecoverFailedToo ==
  /\ work.pc = "recover"
  /\ \E s \in Session : place[s] \in {"claimed", "failed"} /\ Relocate(s, "ready")
  /\ UNCHANGED <<rows, deposited, work, halts, published, delivery>>

\* recover_processing: what is not intact fails, what was claimed is released.
RecoverSession ==
  /\ work.pc = "recover"
  /\ \E s \in Session :
       \/ place[s] = "claimed" /\ \E to \in {"ready", "failed"} : Relocate(s, to)
       \/ place[s] = "ready" /\ Relocate(s, "failed")
  /\ UNCHANGED <<rows, deposited, work, halts, published, delivery>>

FinishRecovery ==
  /\ work.pc = "recover" /\ \A s \in Session : place[s] # "claimed"
  /\ work' = Doing("idle")
  /\ UNCHANGED <<rows, deposited, place, halts, published, delivery>>

-----------------------------------------------------------------------------
(* Processor::process_one.                                                 *)

\* claim_next_ready fails what does not verify and claims one that does.
ClaimNextReady ==
  /\ work.pc = "idle"
  /\ \E s \in Session :
       /\ place[s] = "ready"
       /\ \/ Relocate(s, "failed") /\ UNCHANGED work
          \/ /\ Relocate(s, "claimed")
             /\ work' = [Doing("claimed") EXCEPT !.session = s, !.now = clock]
  /\ UNCHANGED <<rows, deposited, halts, published, delivery>>

\* A shutdown before the analysis, or one that cancels it, releases the claim.
ReleaseClaim ==
  /\ work.pc \in {"claimed", "analyse"}
  /\ Halt("down")
  /\ Relocate(work.session, "ready")
  /\ UNCHANGED <<rows, deposited, published, delivery>>

\* Mutant: the check is inverted.
ReconcileInverted ==
  /\ work.pc = "claimed"
  /\ Then(IF Contains(work.session) THEN "analyse" ELSE "delete")
  /\ UNCHANGED <<rows, deposited, place, halts, published, delivery>>

\* contains_session: a session with a result is not analysed again.
Reconcile ==
  /\ work.pc = "claimed"
  /\ Then(IF Contains(work.session) THEN "delete" ELSE "analyse")
  /\ UNCHANGED <<rows, deposited, place, halts, published, delivery>>

\* The analysis and the encoding of its result; two runs over one video need
\* not agree.
Analyse ==
  /\ work.pc = "analyse"
  /\ \E r \in Result : work' = [work EXCEPT !.pc = "insert", !.result = r]
  /\ UNCHANGED <<rows, deposited, place, halts, published, delivery>>

\* A terminal error of either keeps the video for diagnosis.
MarkClaimFailed ==
  /\ work.pc = "analyse"
  /\ Relocate(work.session, "failed")
  /\ work' = Doing("idle")
  /\ UNCHANGED <<rows, deposited, halts, published, delivery>>

Commit ==
  /\ Insert(work.session, work.result, work.now)
  /\ deposited' = deposited \cup {work.session}

\* Mutant: the result is visible to the uploader at once.
InsertVisible ==
  /\ work.pc = "insert"
  /\ rows' = [rows EXCEPT ![work.session] =
       [state |-> "pending", result |-> work.result, attempts |-> 0,
        created |-> work.now, due |-> work.now]]
  /\ deposited' = deposited \cup {work.session}
  /\ Then("delete")
  /\ UNCHANGED <<place, halts, published, delivery>>

InsertResult ==
  /\ work.pc = "insert"
  /\ IF InsertConflicts(work.session, work.result)
     THEN /\ Relocate(work.session, "failed") /\ work' = Doing("error")
          /\ UNCHANGED <<rows, deposited>>
     ELSE Commit /\ Then("delete") /\ UNCHANGED place
  /\ UNCHANGED <<halts, published, delivery>>

\* Mutant: a claim whose result may have been committed is released.
InsertFailsAndReleases ==
  /\ work.pc = "insert"
  /\ Halt("down")
  /\ Commit \/ UNCHANGED <<rows, deposited>>
  /\ Relocate(work.session, "ready")
  /\ UNCHANGED <<published, delivery>>

\* Mutant: the analysis is repeated.
InsertFailsAndRetries ==
  /\ work.pc = "insert" /\ halts < MaxStops
  /\ halts' = halts + 1
  /\ Then("analyse")
  /\ Commit \/ UNCHANGED <<rows, deposited>>
  /\ UNCHANGED <<place, published, delivery>>

\* An insert that fails may have been committed: the claim is kept.
InsertFails ==
  /\ work.pc = "insert"
  /\ Halt("down")
  /\ Commit \/ UNCHANGED <<rows, deposited>>
  /\ UNCHANGED <<place, published, delivery>>

\* Mutant: the result is published first.
PublishBeforeDelete ==
  /\ work.pc = "delete"
  /\ Publish(work.session)
  /\ Then("publish")
  /\ UNCHANGED <<deposited, place, halts, published, delivery>>

\* delete_claimed
DeleteClaimed ==
  /\ work.pc = "delete"
  /\ Relocate(work.session, "gone")
  /\ Then("publish")
  /\ UNCHANGED <<rows, deposited, halts, published, delivery>>

PublishResult ==
  /\ work.pc = "publish"
  /\ IF PublishRefused(work.session) THEN work' = Doing("error") /\ UNCHANGED rows
     ELSE Publish(work.session) /\ work' = Doing("idle")
  /\ UNCHANGED <<deposited, place, halts, published, delivery>>

\* The processor is killed, or another operation fails.
StopProcessor ==
  /\ work.pc \notin {"down", "error"}
  /\ Halt("down")
  /\ UNCHANGED <<rows, deposited, place, published, delivery>>

Recover ==
  \/ StartProcessor \/ PurgeVideo \/ PublishRecovered \/ FinishPurge
  \/ RecoverSession \/ FinishRecovery

ProcessOne ==
  \/ ClaimNextReady \/ Reconcile \/ Analyse \/ MarkClaimFailed
  \/ InsertResult \/ DeleteClaimed \/ PublishResult

Interrupt == ReleaseClaim \/ InsertFails \/ StopProcessor

PipelineInit ==
  /\ UploaderInit
  /\ place = [s \in Session |-> "new"]
  /\ work = Doing("down")
  /\ halts = 0
  /\ published = {}

PipelineNext ==
  \/ \E s \in Session : RecorderMoves(s)
  \/ Recover \/ ProcessOne \/ Interrupt
  \/ DeliveryStep /\ UNCHANGED processing

PipelineSpec == PipelineInit /\ [][PipelineNext]_pvars

-----------------------------------------------------------------------------
(* Safety.                                                                 *)

\* No published recording is lost between the storage, the queue and the API:
\* its video is kept, or its result is queued, or the API has recorded it.
EveryRecordingAccounted ==
  \A s \in published :
    place[s] \in {"ready", "claimed", "failed"} \/ Contains(s) \/ received[s] > 0

\* The result of a session is visible to the uploader only when its video is
\* gone, so no result is sent for a session that could still be analysed.
VideoGoneBeforeSending ==
  \A s \in Session :
    s \in InState("pending") \cup InState("dead_letter") \/ received[s] > 0
      => place[s] = "gone"

\* "If a row with the session id exists, AI must not run again for this video."
NeverAnalysedTwice ==
  work.pc \in {"analyse", "insert"} => work.session \notin deposited

\* The consistency errors of the processor cannot happen: no prepared session
\* outside claimed, no conflicting result, no publish of a missing row.
ProcessorNeverConflicts == work.pc # "error"

\* The processor uses the queue as module Uploader assumes, so everything
\* shown there holds here: one result per session, published once.
QueueUsedAsAssumed == UploaderSpec

\* It moves sessions only along the lifecycle of the storage.
StorageUsedAsAssumed == Storage!Spec

-----------------------------------------------------------------------------
(* Liveness.                                                               *)

PipelineFairness ==
  /\ WF_pvars(Recover)
  /\ WF_pvars(ProcessOne)
  /\ \A u \in Uploaders :
       /\ WF_pvars(StartUploader(u) /\ UNCHANGED processing)
       /\ WF_pvars(TakeNext(u) /\ UNCHANGED processing)
       /\ WF_pvars((SendDelivered(u) \/ SendRefused(u)) /\ UNCHANGED processing)
       /\ WF_pvars(Settle(u) /\ UNCHANGED processing)
  /\ WF_pvars(Tick /\ UNCHANGED processing)

PipelineFairSpec == PipelineSpec /\ PipelineFairness

\* Every published recording is counted in the end: the API has its result,
\* or the video or the dead letter is kept for the operator.
RecordingSettles ==
  \A s \in Session : place[s] = "ready" ~>
    (received[s] > 0 \/ s \in InState("dead_letter") \/ place[s] = "failed")
=============================================================================
