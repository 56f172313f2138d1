---------------------------- MODULE SessionStorage ----------------------------
(***************************************************************************)
(* The durable session storage of pcrt (crates/pcrt-storage), with the two *)
(* kinds of process that use it: one recorder per camera and one processor *)
(* (bins/pcrt-processor holds an exclusive lock, so there is only one).    *)
(*                                                                         *)
(* A session is a directory named <state>/<session id>.  Every operation   *)
(* of the crate is a short program of durable effects -- create a          *)
(* directory, write a temporary file, rename it over the manifest, rename  *)
(* the directory -- and a process may die between any two of them.  Each   *)
(* effect is one action here, so a crash is possible exactly where the     *)
(* code can be interrupted; the next start runs the code's recovery.       *)
(*                                                                         *)
(* A manifest carries the whole transition history; the code only ever     *)
(* appends to it and only ever asks whether the history is well formed,    *)
(* what its last state and its last time are.  The model keeps exactly     *)
(* these: "state", "at", and "sound" (every step so far was legal and in   *)
(* time order).                                                            *)
(***************************************************************************)
EXTENDS Naturals, FiniteSets

CONSTANTS
  Cameras,          \* one recorder process per camera
  Processor,        \* the single processor process
  MaxTime,          \* bound on the clock: captures start before MaxTime
  MaxStops,         \* bound on crashes, shutdown requests and clock changes
  Crashable,        \* the processes that may be stopped from outside
  ClockMayStepBack, \* TRUE when the wall clock may be set back
  Absent,           \* no directory of that name
  NoManifest,       \* no readable manifest.json in the directory
  NoSession

VARIABLES
  disk,   \* disk[s][d]: the directory of session s under state directory d
  task,   \* task[p]: where process p is in its program (volatile)
  clock,  \* wall clock, in units long enough to hold one capture start
  stops,  \* how many times a process was stopped or the clock set back
  fate    \* history: what the users of the storage decided about a session

vars == <<disk, task, clock, stops, fate>>

-----------------------------------------------------------------------------
Actors   == Cameras \cup {Processor}
Times    == 0 .. MaxTime
Sessions == Cameras \X Times            \* the identifier cam-{camera}-{unix_ms}
Camera(s)    == s[1]
StartedAt(s) == s[2]

Dirs == {"capturing", "ready", "claimed", "failed"}

Manifest == [state : Dirs, at : Times, sound : BOOLEAN, finished : BOOLEAN]
Entry == [manifest : Manifest \cup {NoManifest},
          video    : {"broken", "intact"},  \* against the manifest's SHA-256
          temp     : BOOLEAN,               \* an unfinished atomic write
          lock     : BOOLEAN]               \* the .claim marker

PCs == {"down", "error", "recover", "idle", "capturing",
        "purge", "recoverReady", "recoverClaimed", "scan", "claimMove",
        "unlock", "holding", "write", "commit", "move", "remove"}

Task == [pc : PCs, then : PCs,
         session : Sessions \cup {NoSession},
         from : Dirs, to : Dirs,
         manifest : Manifest \cup {NoManifest},
         todo : SUBSET Sessions, candidates : SUBSET Sessions,
         now : Times]

Fates == {"none", "begun", "published", "failed", "prepared", "deleted"}

ASSUME ConstantsAssumption ==
  /\ Processor \notin Cameras
  /\ MaxTime \in Nat /\ MaxStops \in Nat
  /\ Crashable \subseteq Actors
  /\ ClockMayStepBack \in BOOLEAN
  /\ Absent \notin Entry
  /\ NoManifest \notin Manifest
  /\ NoSession \notin Sessions

\* The disk, the processes and the clock hold only what the code can write.
TypeOK ==
  /\ disk \in [Sessions -> [Dirs -> Entry \cup {Absent}]]
  /\ task \in [Actors -> Task]
  /\ clock \in Times
  /\ stops \in Nat
  /\ fate \in [Sessions -> Fates]

-----------------------------------------------------------------------------
(* Manifests and directories.                                              *)

CanTransition(from, to) ==
  \/ from \in {"capturing", "claimed"} /\ to \in {"ready", "failed"}
  \/ from = "ready" /\ to \in {"claimed", "failed"}

\* Mutant: the time of a step is added to the last one.
AdvanceByElapsed(m, to, now) ==
  [m EXCEPT !.state = to, !.at = m.at + now,
            !.sound = m.sound /\ CanTransition(m.state, to)]

\* RawManifest::transition appends without checking; validation comes later.
Advance(m, to, now) ==
  [m EXCEPT !.state = to, !.at = now,
            !.sound = m.sound /\ m.at <= now /\ CanTransition(m.state, to)]

Present(s, d) == disk[s][d] # Absent
InDir(d) == {s \in Sessions : Present(s, d)}

\* read_manifest succeeds
Readable(e) == e.manifest # NoManifest /\ e.manifest.sound
\* verify_completed succeeds: a leftover temporary file is an untracked entry
Verified(e) == Readable(e) /\ e.manifest.finished /\ e.video = "intact" /\ ~e.temp
VerifiedIn(e, states) == Verified(e) /\ e.manifest.state \in states
\* Mutant: only the claim marker is removed.
CleanedOfLock(e) == [e EXCEPT !.lock = FALSE]
\* remove_recovery_markers
Cleaned(e) == [e EXCEPT !.temp = FALSE, !.lock = FALSE]

Store(s, d, e) == disk' = [disk EXCEPT ![s][d] = e]

-----------------------------------------------------------------------------
(* Control of a process.  A process at "down" was stopped from outside,    *)
(* one at "error" left because an operation returned an error; both are    *)
(* started again by the supervisor.                                        *)

At(pc) == [pc |-> pc, then |-> pc, session |-> NoSession,
           from |-> "capturing", to |-> "capturing", manifest |-> NoManifest,
           todo |-> {}, candidates |-> {}, now |-> 0]

Stopped(p) == task[p].pc \in {"down", "error"}
Goto(p, t) == task' = [task EXCEPT ![p] = t]
Exit(p) == Goto(p, At("error"))

\* Back to a loop of process p, keeping what the loop iterates over.
Resume(p) == [At(task[p].then) EXCEPT !.todo = task[p].todo,
                                      !.candidates = task[p].candidates,
                                      !.now = IF task[p].then \in {"idle", "down"}
                                              THEN 0 ELSE task[p].now]

\* Rewrite the manifest of s in directory "from", then move it to "to".
WriteThenMove(p, s, from, to, m, then, t) ==
  Goto(p, [t EXCEPT !.pc = "write", !.session = s, !.from = from, !.to = to,
                    !.manifest = m, !.then = then])

\* fail_session: refuses an existing failed/<s>; an unreadable manifest is
\* left alone and the reason goes to failure.txt instead.
Fail(p, s, from, e, then, t) ==
  IF Present(s, "failed") THEN Exit(p)
  ELSE WriteThenMove(p, s, from, "failed",
                     IF Readable(e) THEN Advance(e.manifest, "failed", t.now)
                     ELSE e.manifest, then, t)

\* remove_dir_all deletes the files before the directory.
Remove(p, s, from, then, t) ==
  /\ \E e \in {[disk[s][from] EXCEPT !.manifest = NoManifest],
               [disk[s][from] EXCEPT !.video = "broken"]} : Store(s, from, e)
  /\ Goto(p, [t EXCEPT !.pc = "remove", !.session = s, !.from = from, !.then = then])

-----------------------------------------------------------------------------
(* Durable effects shared by all operations.                               *)

\* atomic_write opens .<file>.tmp with create_new ...
WriteTemp(p) ==
  LET t == task[p] e == disk[t.session][t.from] IN
  /\ t.pc = "write"
  /\ IF e = Absent THEN Exit(p) /\ UNCHANGED disk
     ELSE IF e.temp THEN Exit(p) /\ UNCHANGED disk
     ELSE /\ Store(t.session, t.from, [e EXCEPT !.temp = TRUE])
          /\ Goto(p, [t EXCEPT !.pc = "commit"])
  /\ UNCHANGED <<clock, stops, fate>>

\* ... and renames it over the target.
CommitManifest(p) ==
  LET t == task[p] e == disk[t.session][t.from] IN
  /\ t.pc = "commit"
  /\ IF e = Absent THEN Exit(p) /\ UNCHANGED disk
     ELSE /\ Store(t.session, t.from, [e EXCEPT !.temp = FALSE, !.manifest = t.manifest])
          /\ IF t.from # t.to THEN Goto(p, [t EXCEPT !.pc = "move"])
             ELSE IF t.then \in {"capturing", "unlock"}
                  THEN Goto(p, [At(t.then) EXCEPT !.session = t.session, !.now = t.now])
                  ELSE Goto(p, Resume(p))
  /\ UNCHANGED <<clock, stops, fate>>

\* Mutant: a copy that leaves the source behind.
CopyDirectory(p) ==
  LET t == task[p] s == t.session IN
  /\ t.pc = "move"
  /\ ~Present(s, t.to) /\ Present(s, t.from)
  /\ Store(s, t.to, disk[s][t.from])
  /\ Goto(p, Resume(p))
  /\ UNCHANGED <<clock, stops, fate>>

\* Mutant: a rename that replaces an existing directory.
ReplaceDirectory(p) ==
  LET t == task[p] s == t.session IN
  /\ t.pc = "move"
  /\ IF ~Present(s, t.from) THEN Exit(p) /\ UNCHANGED disk
     ELSE /\ disk' = [disk EXCEPT ![s] = [@ EXCEPT ![t.to] = disk[s][t.from],
                                                   ![t.from] = Absent]]
          /\ Goto(p, Resume(p))
  /\ UNCHANGED <<clock, stops, fate>>

\* move_session_directory
MoveDirectory(p) ==
  LET t == task[p] s == t.session IN
  /\ t.pc = "move"
  /\ IF Present(s, t.to) \/ ~Present(s, t.from)
     THEN Exit(p) /\ UNCHANGED <<disk, fate>>
     ELSE /\ disk' = [disk EXCEPT ![s] = [@ EXCEPT ![t.to] = disk[s][t.from],
                                                   ![t.from] = Absent]]
          /\ Goto(p, Resume(p))
          /\ fate' = IF t.to = "ready" /\ fate[s] = "begun"
                     THEN [fate EXCEPT ![s] = "published"] ELSE fate
  /\ UNCHANGED <<clock, stops>>

FinishRemove(p) ==
  LET t == task[p] IN
  /\ t.pc = "remove"
  /\ Store(t.session, t.from, Absent)
  /\ Goto(p, Resume(p))
  /\ UNCHANGED <<clock, stops, fate>>

-----------------------------------------------------------------------------
(* The recorder of camera c.                                               *)

\* Mutant: every camera's captures are recovered.
StartRecorderForAll(c) ==
  /\ Stopped(c)
  /\ Goto(c, [At("recover") EXCEPT !.now = clock, !.todo = InDir("capturing")])
  /\ UNCHANGED <<disk, clock, stops, fate>>

\* Mutant: a restarted recorder goes straight to work.
StartRecorderIdle(c) ==
  /\ Stopped(c)
  /\ Goto(c, At("idle"))
  /\ UNCHANGED <<disk, clock, stops, fate>>

\* recover_recording lists the capturing sessions of its own camera only.
StartRecorder(c) ==
  /\ Stopped(c)
  /\ Goto(c, [At("recover") EXCEPT !.now = clock,
                !.todo = {s \in InDir("capturing") : Camera(s) = c}])
  /\ UNCHANGED <<disk, clock, stops, fate>>

\* Mutant: a capture whose publication was interrupted is given up.
RecoverCaptureNever(c) ==
  /\ task[c].pc = "recover"
  /\ \E s \in task[c].todo :
       LET e == Cleaned(disk[s]["capturing"]) IN
       /\ Store(s, "capturing", e)
       /\ Fail(c, s, "capturing", e, "recover", [task[c] EXCEPT !.todo = @ \ {s}])
  /\ UNCHANGED <<clock, stops, fate>>

RecoverCapture(c) ==
  /\ task[c].pc = "recover"
  /\ \E s \in task[c].todo :
       LET e == Cleaned(disk[s]["capturing"])
           t == [task[c] EXCEPT !.todo = @ \ {s}] IN
       /\ Store(s, "capturing", e)
       /\ IF VerifiedIn(e, {"ready"})
          THEN Goto(c, [t EXCEPT !.pc = "move", !.then = "recover", !.session = s,
                                 !.from = "capturing", !.to = "ready"])
          ELSE Fail(c, s, "capturing", e, "recover", t)
  /\ UNCHANGED <<clock, stops, fate>>

FinishRecorderRecovery(c) ==
  /\ task[c].pc = "recover" /\ task[c].todo = {}
  /\ Goto(c, At("idle"))
  /\ UNCHANGED <<disk, clock, stops, fate>>

\* begin_capture: create_dir is the only check for a name already in use.
\* Creating the directory takes the clock to its next unit.
BeginCapture(c) ==
  LET s == <<c, clock>> IN
  /\ task[c].pc = "idle" /\ clock < MaxTime
  /\ IF Present(s, "capturing")
     THEN Exit(c) /\ UNCHANGED <<disk, clock, fate>>
     ELSE /\ Store(s, "capturing", [manifest |-> NoManifest, video |-> "broken",
                                    temp |-> FALSE, lock |-> FALSE])
          /\ clock' = clock + 1
          /\ WriteThenMove(c, s, "capturing", "capturing",
                           [state |-> "capturing", at |-> clock,
                            sound |-> TRUE, finished |-> FALSE],
                           "capturing", At("idle"))
          /\ fate' = IF fate[s] = "none" THEN [fate EXCEPT ![s] = "begun"] ELSE fate
  /\ UNCHANGED stops

\* finalize_capture, once the encoder has closed the video
FinalizeCapture(c) ==
  LET s == task[c].session
      e == [disk[s]["capturing"] EXCEPT !.video = "intact"] IN
  /\ task[c].pc = "capturing"
  /\ Store(s, "capturing", e)
  /\ IF ~Readable(e) THEN Exit(c)
     ELSE IF e.manifest.state # "capturing" \/ clock < StartedAt(s) \/ Present(s, "ready")
     THEN Exit(c)
     ELSE WriteThenMove(c, s, "capturing", "ready",
                        [Advance(e.manifest, "ready", clock) EXCEPT !.finished = TRUE],
                        "idle", At("idle"))
  /\ UNCHANGED <<clock, stops, fate>>

\* discard_capture: the frame limit was exceeded
DiscardCapture(c) ==
  /\ task[c].pc = "capturing"
  /\ Remove(c, task[c].session, "capturing", "idle", At("idle"))
  /\ UNCHANGED <<clock, stops, fate>>

\* ffmpeg fails or disagrees on the frame count: the recorder exits and
\* leaves the directory to the next recovery.
EncoderFails(c) ==
  /\ task[c].pc = "capturing"
  /\ Goto(c, At("down"))
  /\ UNCHANGED <<disk, clock, stops, fate>>

RecorderStep(c) ==
  \/ StartRecorder(c) \/ RecoverCapture(c) \/ FinishRecorderRecovery(c)
  \/ BeginCapture(c) \/ FinalizeCapture(c) \/ DiscardCapture(c) \/ EncoderFails(c)

-----------------------------------------------------------------------------
(* The processor: startup.                                                 *)

\* Mutant: prepared results are not reconciled before recovery.
StartProcessorForgetsPrepared ==
  /\ Stopped(Processor)
  /\ Goto(Processor, [At("purge") EXCEPT !.now = clock])
  /\ UNCHANGED <<disk, clock, stops, fate>>

\* prepared_session_ids: results whose video is not yet known to be deleted.
\* It holds every session between the commit of its result and the deletion,
\* and may still hold one whose deletion was not yet acknowledged.
StartProcessor ==
  /\ Stopped(Processor)
  /\ \E acknowledged \in SUBSET {s \in Sessions : fate[s] = "deleted" /\ ~Present(s, "claimed")} :
       Goto(Processor, [At("purge") EXCEPT !.now = clock,
         !.todo = {s \in Sessions : fate[s] \in {"prepared", "deleted"}} \ acknowledged])
  /\ UNCHANGED <<disk, clock, stops, fate>>

\* delete_session_with_prepared_result
PurgePrepared ==
  LET p == Processor IN
  /\ task[p].pc = "purge"
  /\ \E s \in task[p].todo :
       LET t == [task[p] EXCEPT !.todo = @ \ {s}] IN
       IF \E d \in {"capturing", "ready", "failed"} : Present(s, d)
       THEN Exit(p) /\ UNCHANGED <<disk, fate>>
       ELSE /\ fate' = [fate EXCEPT ![s] = "deleted"]
            /\ IF Present(s, "claimed") THEN Remove(p, s, "claimed", "purge", t)
               ELSE Goto(p, t) /\ UNCHANGED disk
  /\ UNCHANGED <<clock, stops>>

\* recover_processing lists ready ...
FinishPurge ==
  /\ task[Processor].pc = "purge" /\ task[Processor].todo = {}
  /\ Goto(Processor, [task[Processor] EXCEPT !.pc = "recoverReady", !.todo = InDir("ready")])
  /\ UNCHANGED <<disk, clock, stops, fate>>

\* Mutant: recovery deletes what it cannot use.
RecoverReadyDeletes ==
  LET p == Processor IN
  /\ task[p].pc = "recoverReady"
  /\ \E s \in task[p].todo :
       LET t == [task[p] EXCEPT !.todo = @ \ {s}] IN
       IF VerifiedIn(Cleaned(disk[s]["ready"]), {"ready"})
       THEN Store(s, "ready", Cleaned(disk[s]["ready"])) /\ Goto(p, t)
       ELSE Remove(p, s, "ready", "recoverReady", t)
  /\ UNCHANGED <<clock, stops, fate>>

RecoverReady ==
  LET p == Processor IN
  /\ task[p].pc = "recoverReady"
  /\ \E s \in task[p].todo :
       LET e == Cleaned(disk[s]["ready"])
           t == [task[p] EXCEPT !.todo = @ \ {s}] IN
       /\ Store(s, "ready", e)
       /\ IF VerifiedIn(e, {"ready"}) THEN Goto(p, t)
          ELSE Fail(p, s, "ready", e, "recoverReady", t)
  /\ UNCHANGED <<clock, stops, fate>>

\* Mutant: abandoned claims are not listed.
FinishRecoverReadyEarly ==
  /\ task[Processor].pc = "recoverReady" /\ task[Processor].todo = {}
  /\ Goto(Processor, [task[Processor] EXCEPT !.pc = "recoverClaimed"])
  /\ UNCHANGED <<disk, clock, stops, fate>>

\* ... and then claimed
FinishRecoverReady ==
  /\ task[Processor].pc = "recoverReady" /\ task[Processor].todo = {}
  /\ Goto(Processor, [task[Processor] EXCEPT !.pc = "recoverClaimed",
                                             !.todo = InDir("claimed")])
  /\ UNCHANGED <<disk, clock, stops, fate>>

\* Mutant: an abandoned claim that does not verify is deleted.
RecoverClaimedDeletes ==
  LET p == Processor IN
  /\ task[p].pc = "recoverClaimed"
  /\ \E s \in task[p].todo :
       LET e == Cleaned(disk[s]["claimed"])
           t == [task[p] EXCEPT !.todo = @ \ {s}] IN
       IF VerifiedIn(e, {"ready", "claimed"})
       THEN /\ Store(s, "claimed", e)
            /\ WriteThenMove(p, s, "claimed", "ready",
                             Advance(e.manifest, "ready", t.now), "recoverClaimed", t)
       ELSE Remove(p, s, "claimed", "recoverClaimed", t)
  /\ UNCHANGED <<clock, stops, fate>>

RecoverClaimed ==
  LET p == Processor IN
  /\ task[p].pc = "recoverClaimed"
  /\ \E s \in task[p].todo :
       LET e == Cleaned(disk[s]["claimed"])
           t == [task[p] EXCEPT !.todo = @ \ {s}] IN
       /\ Store(s, "claimed", e)
       /\ IF VerifiedIn(e, {"ready", "claimed"})
          THEN WriteThenMove(p, s, "claimed", "ready",
                             Advance(e.manifest, "ready", t.now), "recoverClaimed", t)
          ELSE Fail(p, s, "claimed", e, "recoverClaimed", t)
  /\ UNCHANGED <<clock, stops, fate>>

FinishRecovery ==
  /\ task[Processor].pc = "recoverClaimed" /\ task[Processor].todo = {}
  /\ Goto(Processor, At("idle"))
  /\ UNCHANGED <<disk, clock, stops, fate>>

-----------------------------------------------------------------------------
(* The processor: claim_next_ready.                                        *)

StartClaim ==
  /\ task[Processor].pc = "idle"
  /\ Goto(Processor, [At("scan") EXCEPT !.now = clock, !.todo = InDir("ready")])
  /\ UNCHANGED <<disk, clock, stops, fate>>

ScanReady ==
  LET p == Processor IN
  /\ task[p].pc = "scan"
  /\ \E s \in task[p].todo :
       LET e == disk[s]["ready"]
           t == [task[p] EXCEPT !.todo = @ \ {s}] IN
       IF VerifiedIn(e, {"ready"})
       THEN Goto(p, [t EXCEPT !.candidates = @ \cup {s}])
       ELSE Fail(p, s, "ready", e, "scan", t)
  /\ UNCHANGED <<disk, clock, stops, fate>>

\* Oldest first; the order among equal start times is left open.
Oldest(S) == {s \in S : \A other \in S : StartedAt(s) <= StartedAt(other)}

LockCandidate ==
  LET p == Processor IN
  /\ task[p].pc = "scan" /\ task[p].todo = {}
  /\ IF task[p].candidates = {} THEN Goto(p, At("idle")) /\ UNCHANGED disk
     ELSE \E s \in Oldest(task[p].candidates) :
            LET e == disk[s]["ready"] IN
            IF e.lock
            THEN Goto(p, [task[p] EXCEPT !.candidates = @ \ {s}]) /\ UNCHANGED disk
            ELSE /\ Store(s, "ready", [e EXCEPT !.lock = TRUE])
                 /\ Goto(p, [At("claimMove") EXCEPT !.session = s, !.now = task[p].now])
  /\ UNCHANGED <<clock, stops, fate>>

\* Unlike every other operation, the directory moves before its manifest
\* says so.
MoveClaim ==
  LET p == Processor t == task[p] s == t.session e == disk[s]["ready"] IN
  /\ t.pc = "claimMove"
  /\ IF Present(s, "claimed")
     THEN Store(s, "ready", [e EXCEPT !.lock = FALSE]) /\ Exit(p)
     ELSE /\ disk' = [disk EXCEPT ![s] = [@ EXCEPT !["claimed"] = e, !["ready"] = Absent]]
          /\ WriteThenMove(p, s, "claimed", "claimed",
                           Advance(e.manifest, "claimed", t.now), "unlock", t)
  /\ UNCHANGED <<clock, stops, fate>>

Unlock ==
  LET p == Processor t == task[p] s == t.session IN
  /\ t.pc = "unlock"
  /\ Store(s, "claimed", [disk[s]["claimed"] EXCEPT !.lock = FALSE])
  /\ Goto(p, [t EXCEPT !.pc = "holding"])
  /\ UNCHANGED <<clock, stops, fate>>

-----------------------------------------------------------------------------
(* The processor: what the holder of a claim may do with it.               *)

\* No result of s is durable (a failure verdict may have been lost in a crash).
Undecided(s) == fate[s] \in {"published", "failed"}

\* release_claim; process_one calls it only when a shutdown was requested.
ReleaseClaim ==
  LET p == Processor t == task[p] e == disk[t.session]["claimed"] IN
  /\ t.pc = "holding" /\ Undecided(t.session)
  /\ stops < MaxStops
  /\ stops' = stops + 1
  /\ IF ~Readable(e) THEN Exit(p)
     ELSE IF e.manifest.state # "claimed" THEN Exit(p)
     ELSE WriteThenMove(p, t.session, "claimed", "ready",
                        Advance(e.manifest, "ready", t.now), "down", t)
  /\ UNCHANGED <<disk, clock, fate>>

\* mark_claim_failed
MarkClaimFailed ==
  LET p == Processor t == task[p] s == t.session IN
  /\ t.pc = "holding" /\ Undecided(s)
  /\ fate' = [fate EXCEPT ![s] = "failed"]
  /\ Fail(p, s, "claimed", disk[s]["claimed"], "idle", t)
  /\ UNCHANGED <<disk, clock, stops>>

\* The processor commits the result of the session to the result queue.
CommitResult ==
  LET t == task[Processor] IN
  /\ t.pc = "holding" /\ Undecided(t.session)
  /\ fate' = [fate EXCEPT ![t.session] = "prepared"]
  /\ UNCHANGED <<disk, task, clock, stops>>

\* delete_claimed: only once the result of the session is durable
DeleteClaimed ==
  LET p == Processor t == task[p] s == t.session IN
  /\ t.pc = "holding" /\ fate[s] \in {"prepared", "deleted"}
  /\ fate' = [fate EXCEPT ![s] = "deleted"]
  /\ Remove(p, s, "claimed", "idle", At("idle"))
  /\ UNCHANGED <<clock, stops>>

ProcessorStartup ==
  \/ StartProcessor \/ PurgePrepared \/ FinishPurge
  \/ RecoverReady \/ FinishRecoverReady \/ RecoverClaimed \/ FinishRecovery

ProcessorClaim == StartClaim \/ ScanReady \/ LockCandidate \/ MoveClaim \/ Unlock

-----------------------------------------------------------------------------
(* Processes and the world.                                                *)

DurableEffect(p) ==
  WriteTemp(p) \/ CommitManifest(p) \/ MoveDirectory(p) \/ FinishRemove(p)

\* A process is killed, or power is lost: only task[p] is volatile.
Crash(p) ==
  /\ p \in Crashable /\ stops < MaxStops /\ ~Stopped(p)
  /\ stops' = stops + 1
  /\ Goto(p, At("down"))
  /\ UNCHANGED <<disk, clock, fate>>

\* A stored video no longer matches its checksum.
DamageVideo(s, d) ==
  /\ Present(s, d) /\ d \in {"ready", "claimed"} /\ disk[s][d].video = "intact"
  /\ Store(s, d, [disk[s][d] EXCEPT !.video = "broken"])
  /\ UNCHANGED <<task, clock, stops, fate>>

SetClockBack ==
  /\ ClockMayStepBack /\ stops < MaxStops
  /\ stops' = stops + 1
  /\ \E t \in Times : t < clock /\ clock' = t
  /\ UNCHANGED <<disk, task, fate>>

Init ==
  /\ disk = [s \in Sessions |-> [d \in Dirs |-> Absent]]
  /\ task = [p \in Actors |-> At("down")]
  /\ clock = 0
  /\ stops = 0
  /\ fate = [s \in Sessions |-> "none"]

Next ==
  \/ \E c \in Cameras : RecorderStep(c)
  \/ ProcessorStartup
  \/ ProcessorClaim
  \/ ReleaseClaim \/ MarkClaimFailed \/ CommitResult \/ DeleteClaimed
  \/ \E p \in Actors : DurableEffect(p) \/ Crash(p)
  \/ \E s \in Sessions, d \in Dirs : DamageVideo(s, d)
  \/ SetClockBack

Spec == Init /\ [][Next]_vars

-----------------------------------------------------------------------------
(* Safety.                                                                 *)

\* A session has one directory at most, whatever step a process died at.
OneHome ==
  \A s \in Sessions : \A d1, d2 \in Dirs :
    Present(s, d1) /\ Present(s, d2) => d1 = d2

\* A published recording stays on disk with a readable-as-complete manifest
\* until its result is durable: no crash, release, failure or recovery of
\* either side loses it (move_session_directory, atomic_write, recover_*).
PublishedIsKept ==
  \A s \in Sessions : fate[s] \in {"published", "failed"} =>
    \E d \in {"ready", "claimed", "failed"} :
      /\ Present(s, d)
      /\ disk[s][d].manifest # NoManifest
      /\ disk[s][d].manifest.finished

\* Once the result of a session is durable the session never becomes work
\* again: only its claimed directory may be left (delete_claimed and
\* delete_session_with_prepared_result run before recover_processing).
DurableResultEndsSession ==
  \A s \in Sessions : fate[s] \in {"prepared", "deleted"} =>
    \A d \in Dirs \ {"claimed"} : ~Present(s, d)

\* A complete recording that still matches its checksums is in failed only
\* when the processor put it there (mark_claim_failed).
IntactNeverFailed ==
  \A s \in Sessions : Present(s, "failed") =>
    LET e == disk[s]["failed"] IN
    e.manifest # NoManifest /\ e.manifest.finished /\ e.video = "intact"
      => fate[s] = "failed"

\* A complete recording that matches its checksums and whose history is legal
\* goes to failed only on the processor's verdict: whoever crashes, whichever
\* recorder recovers, wherever the clock is set (fail_session, verify_completed).
SoundNeverFailed ==
  [][\A s \in Sessions : ~Present(s, "failed") /\ Present(s, "failed")' =>
       LET e == disk'[s]["failed"] IN
       e.manifest # NoManifest /\ e.manifest.finished /\ e.manifest.sound
         /\ e.video = "intact" => fate[s] = "failed"]_vars

\* No process ever leaves because of a name collision, a leftover temporary
\* file or an unexpected manifest.
NoStorageError == \A p \in Actors : task[p].pc # "error"

\* What reached failed is preserved: nothing changes or removes it.
FailedIsFinal ==
  [][\A s \in Sessions : Present(s, "failed") => disk'[s]["failed"] = disk[s]["failed"]]_vars

\* The directories of a session, over any crash and recovery, move only along
\* the lifecycle of SessionLifecycle.
Where(s) ==
  IF \E d \in Dirs : Present(s, d) THEN CHOOSE d \in Dirs : Present(s, d)
  ELSE IF fate[s] = "none" THEN "new" ELSE "gone"

Lifecycle == INSTANCE SessionLifecycle WITH
  Session <- Sessions, place <- [s \in Sessions |-> Where(s)]

\* The storage implements the lifecycle: failed is final, a removed session
\* never comes back, and no step skips a state (begin_capture through
\* delete_claimed, with recover_recording and recover_processing).
LifecycleSpec == Lifecycle!Spec

\* "a restart of one recorder does not interfere": a capture is touched only
\* by steps of the recorder of its own camera.
CaptureHasOneOwner ==
  [][\A s \in Sessions : disk'[s]["capturing"] # disk[s]["capturing"]
       => task'[Camera(s)] # task[Camera(s)]]_vars

-----------------------------------------------------------------------------
(* Liveness.  Every process is restarted and runs; a capture ends because  *)
(* the door closes, the limit is reached or the encoder fails.             *)

Fairness ==
  /\ \A c \in Cameras :
       /\ WF_vars(StartRecorder(c) \/ RecoverCapture(c) \/ FinishRecorderRecovery(c))
       /\ WF_vars(FinalizeCapture(c) \/ DiscardCapture(c) \/ EncoderFails(c))
  /\ WF_vars(ProcessorStartup)
  /\ WF_vars(ProcessorClaim \/ MarkClaimFailed \/ DeleteClaimed)
  /\ \A p \in Actors : WF_vars(DurableEffect(p))

FairSpec == Spec /\ Fairness

\* Every capture leaves capturing: published, discarded or failed.
CaptureSettles ==
  \A s \in Sessions : Present(s, "capturing") ~> ~Present(s, "capturing")

\* Every published session is eventually decided: its result durable and its
\* directory gone, or kept in failed.
SessionSettles ==
  \A s \in Sessions : fate[s] = "published" ~>
    (Present(s, "failed") \/ (\A d \in Dirs : ~Present(s, d)))
=============================================================================
