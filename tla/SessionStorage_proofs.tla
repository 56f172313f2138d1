------------------------ MODULE SessionStorage_proofs ------------------------
(***************************************************************************)
(* Proofs about SessionStorage, for every set of cameras, every bound and  *)
(* every choice of which processes may crash.                              *)
(*                                                                         *)
(* The first invariant, SInv, holds wherever the clock is set.  It says    *)
(* what each process still refers to in its volatile state and that it     *)
(* finds it there, and of each session that a published recording is kept, *)
(* that a good recording says where it is, and which unfinished writes may *)
(* be left in ready.  It is inductive because the two kinds of process     *)
(* never share a directory: Guarantee states what a step of one process    *)
(* leaves to the others, and three action properties follow from it.       *)
(*                                                                         *)
(* The second invariant, CInv, needs a clock that is never set back: a     *)
(* session name is then used once, so that every rename finds its target   *)
(* free, every operation finds the manifest it expects, and only the       *)
(* processor's removal is left to a session whose result is durable.  From *)
(* it follow that a session has one directory, that no operation errs, and *)
(* that the storage implements SessionLifecycle.                           *)
(*                                                                         *)
(* Every action has three lemmas: <Action>Shape says what it changes in    *)
(* terms of the few forms a step can take, <Action>Step that it keeps SInv *)
(* and the guarantee of its process, and <Action>Clocked that it keeps     *)
(* CInv and moves one session at most, along an edge of the lifecycle.     *)
(***************************************************************************)
EXTENDS SessionStorage, TLAPS

EffectPCs == {"write", "commit", "move", "remove"}

\* The loop a process is in, or returns to after its current effects.
Loop(t) == IF t.pc \in EffectPCs THEN t.then ELSE t.pc

\* The loops of the processor that a directory move can interrupt.
MovingLoops == {"recoverReady", "recoverClaimed", "scan", "idle", "down"}

-----------------------------------------------------------------------------
(* What a manifest says.                                                   *)

\* A manifest finalize_capture completed.
Complete(m) == m # NoManifest /\ m.finished
\* A manifest that names this state last.
Says(m, state) == m # NoManifest /\ m.state = state

\* A complete recording with a legal history and a matching checksum.
GoodWith(m, video) == Complete(m) /\ m.sound /\ video = "intact"
Good(e) == GoodWith(e.manifest, e.video)

-----------------------------------------------------------------------------
(* The invariant, over a task t, directories D and fates F.                *)

\* s waits in directory d and is not the session now being moved or removed.
Waits(s, d, t, D) == D[s][d] # Absent /\ (t.pc \in EffectPCs => s # t.session)

\* What the recorder of c, at t, relies on: its captures and nothing else.
RecorderFits(c, t, D) ==
  LET e == D[t.session]["capturing"] IN
  /\ t.pc \in {"down", "error", "recover", "idle", "capturing"} \cup EffectPCs
  /\ t.pc \in EffectPCs \cup {"capturing"} =>
       t.session \in Sessions /\ Camera(t.session) = c /\ e # Absent
  /\ t.pc \in EffectPCs => t.from = "capturing"
  /\ t.pc \in {"write", "commit"} =>
       \/ t.then = "capturing" /\ t.to = "capturing" /\ ~Complete(t.manifest)
       \/ /\ t.then \in {"recover", "idle"} /\ t.to = "ready"
          /\ Complete(t.manifest) /\ Says(t.manifest, "ready")
       \/ /\ t.then \in {"recover", "idle"} /\ t.to = "failed"
          /\ ~GoodWith(t.manifest, e.video)
  /\ t.pc = "move" =>
       /\ t.then \in {"recover", "idle"} /\ ~e.temp
       /\ \/ t.to = "ready" /\ Complete(e.manifest) /\ Says(e.manifest, "ready")
          \/ t.to = "failed" /\ ~Good(e)
  /\ t.pc = "remove" => t.then = "idle"
  /\ t.pc = "capturing" => ~Complete(e.manifest)
  /\ Loop(t) = "recover" => \A s \in t.todo : Camera(s) = c /\ Waits(s, "capturing", t, D)

\* What the processor, at t, relies on: sessions in ready and claimed.
ProcessorFits(t, D, F) ==
  LET s == t.session  e == D[s][t.from] IN
  /\ t.pc \notin {"recover", "capturing"}
  /\ t.pc \in EffectPCs \cup {"claimMove", "unlock", "holding"} => s \in Sessions
  /\ t.pc \in EffectPCs => t.from \in {"ready", "claimed"} /\ e # Absent
  /\ t.pc \in {"write", "commit"} =>
       /\ \/ /\ t.then = "unlock" /\ t.from = "claimed" /\ t.to = "claimed"
             /\ Complete(t.manifest) /\ Says(t.manifest, "claimed")
          \/ /\ t.then \in MovingLoops /\ t.from = "claimed" /\ t.to = "ready"
             /\ Complete(t.manifest) /\ Says(t.manifest, "ready")
          \/ /\ t.then \in MovingLoops /\ t.to = "failed"
             /\ GoodWith(t.manifest, e.video) => t.from = "claimed" /\ F[s] = "failed"
       /\ Complete(e.manifest) => Complete(t.manifest)
  /\ t.pc = "move" =>
       /\ t.then \in MovingLoops /\ ~e.temp
       /\ \/ /\ t.from = "claimed" /\ t.to = "ready"
             /\ Complete(e.manifest) /\ Says(e.manifest, "ready")
          \/ t.to = "failed" /\ (Good(e) => F[s] = "failed")
  /\ t.pc = "remove" => t.from = "claimed" /\ t.then \in {"purge", "idle"} /\ F[s] = "deleted"
  /\ t.pc = "claimMove" => D[s]["ready"] # Absent /\ Complete(D[s]["ready"].manifest)
  /\ t.pc \in {"unlock", "holding"} =>
       /\ D[s]["claimed"] # Absent
       /\ Complete(D[s]["claimed"].manifest) /\ Says(D[s]["claimed"].manifest, "claimed")
  /\ Loop(t) = "recoverReady" => \A x \in t.todo : Waits(x, "ready", t, D)
  /\ Loop(t) = "recoverClaimed" => \A x \in t.todo : Waits(x, "claimed", t, D)
  /\ Loop(t) = "scan" =>
       /\ \A x \in t.todo \cup t.candidates : Waits(x, "ready", t, D)
       /\ t.todo \cap t.candidates = {}
       /\ \A x \in t.candidates : Complete(D[x]["ready"].manifest)

\* What process p, at t, relies on.
Fits(p, t, D, F) == IF p = Processor THEN ProcessorFits(t, D, F) ELSE RecorderFits(p, t, D)

\* PublishedIsKept for one session with directories h and fate f.
Kept(h, f) ==
  f \in {"published", "failed"} =>
    \E d \in {"ready", "claimed", "failed"} : h[d] # Absent /\ Complete(h[d].manifest)

\* A good recording says where it is, or where it was going before a crash.
Placed(h, f) ==
  /\ h["capturing"] # Absent /\ Good(h["capturing"]) => Says(h["capturing"].manifest, "ready")
  /\ h["ready"] # Absent /\ Good(h["ready"]) => Says(h["ready"].manifest, "ready")
  /\ h["claimed"] # Absent /\ Good(h["claimed"]) =>
       h["claimed"].manifest.state \in {"ready", "claimed"} \/ f = "failed"

\* Why a directory in ready may hold an unfinished write while the processor
\* is at t: recovery has not reached it, or the write is going on.
Excused(s, t) ==
  \/ t.pc \in {"down", "error"} \/ Loop(t) = "purge"
  \/ Loop(t) = "recoverReady" /\ s \in t.todo
  \/ t.pc = "commit" /\ t.session = s /\ t.from = "ready"

Tidy(s, h, t) == h["ready"] # Absent /\ h["ready"].temp => Excused(s, t)

\* The invariant that holds whatever the clock does.
SInv ==
  /\ TypeOK
  /\ \A p \in Actors : Fits(p, task[p], disk, fate)
  /\ \A s \in Sessions : /\ Kept(disk[s], fate[s]) /\ Placed(disk[s], fate[s])
                         /\ Tidy(s, disk[s], task[Processor])

-----------------------------------------------------------------------------
(* Data.                                                                   *)

\* The parts of a session name.
LEMMA SessionParts ==
  /\ \A s \in Sessions : Camera(s) \in Cameras /\ StartedAt(s) \in Times
  /\ \A c \in Cameras, x \in Times :
       /\ <<c, x>> \in Sessions
       /\ Camera(<<c, x>>) = c /\ StartedAt(<<c, x>>) = x
  BY DEF Sessions, Camera, StartedAt

\* Appending a step to a history gives a history of a recording as complete.
LEMMA AdvanceManifest ==
  ASSUME NEW m \in Manifest, NEW to \in Dirs, NEW now \in Times
  PROVE  LET a == Advance(m, to, now) IN
         /\ a \in Manifest /\ a # NoManifest
         /\ a.state = to /\ a.at = now /\ a.finished = m.finished
         /\ a.sound => m.sound
         /\ a.sound <=> m.sound /\ m.at <= now /\ CanTransition(m.state, to)
  BY ConstantsAssumption DEF Advance, Manifest, Times, CanTransition

\* What a present directory holds.
LEMMA PresentEntry ==
  ASSUME TypeOK, NEW s \in Sessions, NEW d \in Dirs, Present(s, d)
  PROVE  /\ disk[s][d] \in Entry
         /\ disk[s][d].manifest \in Manifest \cup {NoManifest}
  BY DEF TypeOK, Present, Entry

\* Every update the operations make to a directory leaves a directory.
LEMMA EntryUpdates ==
  ASSUME NEW e \in Entry
  PROVE  /\ \A b \in BOOLEAN :
              LET x == [e EXCEPT !.temp = b] IN
              x \in Entry /\ x.manifest = e.manifest /\ x.video = e.video /\ x.temp = b
         /\ \A b \in BOOLEAN :
              LET x == [e EXCEPT !.lock = b] IN
              x \in Entry /\ x.manifest = e.manifest /\ x.video = e.video /\ x.temp = e.temp
         /\ \A m \in Manifest \cup {NoManifest} :
              LET x == [e EXCEPT !.manifest = m] IN
              x \in Entry /\ x.manifest = m /\ x.video = e.video /\ x.temp = e.temp
         /\ \A m \in Manifest \cup {NoManifest} :
              LET x == [e EXCEPT !.temp = FALSE, !.manifest = m] IN
              x \in Entry /\ x.manifest = m /\ x.video = e.video /\ ~x.temp
         /\ \A v \in {"broken", "intact"} :
              LET x == [e EXCEPT !.video = v] IN
              x \in Entry /\ x.manifest = e.manifest /\ x.video = v /\ x.temp = e.temp
         /\ LET x == Cleaned(e) IN
              x \in Entry /\ x.manifest = e.manifest /\ x.video = e.video /\ ~x.temp
         /\ e # Absent
  BY ConstantsAssumption DEF Entry, Cleaned

\* Directories and states of a process that the definitions name.
LEMMA Names ==
  /\ "capturing" \in Dirs /\ "ready" \in Dirs /\ "claimed" \in Dirs /\ "failed" \in Dirs
  /\ Processor \in Actors
  /\ \A c \in Cameras : c \in Actors /\ c # Processor
  /\ \A p \in Actors : p # Processor => p \in Cameras
  BY ConstantsAssumption DEF Dirs, Actors

-----------------------------------------------------------------------------
(* The shape of a step.                                                    *)

\* Everything the disk may hold.
DiskSpace == [Sessions -> [Dirs -> Entry \cup {Absent}]]

\* Only the task of p changes, to u.
Goes(p, u) ==
  /\ u \in Task /\ task' \in [Actors -> Task] /\ task'[p] = u
  /\ \A q \in Actors \ {p} : task'[q] = task[q]

\* Only directory d of session s changes, to e.
Puts(s, d, e) ==
  /\ disk' \in DiskSpace /\ disk'[s][d] = e
  /\ \A x \in Sessions, y \in Dirs : x # s \/ y # d => disk'[x][y] = disk[x][y]

\* The directory of s goes from one state to another, where there was none.
Moves(s, from, to) ==
  /\ disk' \in DiskSpace
  /\ disk'[s][to] = disk[s][from] /\ disk'[s][from] = Absent
  /\ \A x \in Sessions, y \in Dirs : x # s \/ y \notin {from, to} => disk'[x][y] = disk[x][y]

\* Only the fate of s changes, to f.
Decides(s, f) ==
  /\ fate' \in [Sessions -> Fates] /\ fate'[s] = f
  /\ \A x \in Sessions \ {s} : fate'[x] = fate[x]

\* u is about to rewrite a manifest, and keeps what t iterates over but "done".
Writes(u, t, done, s, from, to, m, then) ==
  /\ u.pc = "write" /\ u.session = s /\ u.from = from /\ u.to = to
  /\ u.manifest = m /\ u.then = then
  /\ u.todo = t.todo \ done /\ u.candidates = t.candidates /\ u.now = t.now

\* m is what fail_session writes over the manifest of e: as complete, and good
\* only if the manifest it extends is.
GivesUp(m, e, now) ==
  /\ m \in Manifest \cup {NoManifest}
  /\ Complete(m) <=> Complete(e.manifest)
  /\ \A v : GoodWith(m, v) => GoodWith(e.manifest, v)
  /\ m = e.manifest \/ m.at = now

\* p leaves with an error, or begins to write that s failed.
Fails(p, u, t, done, s, from, e, then) ==
  /\ Goes(p, u)
  /\ \/ Present(s, "failed") /\ u.pc = "error"
     \/ \E m : GivesUp(m, e, t.now) /\ Writes(u, t, done, s, from, "failed", m, then)

\* u differs from t in what is left to iterate over.
Iterates(u, t, todo, candidates) ==
  /\ u.pc = t.pc /\ u.then = t.then /\ u.session = t.session
  /\ u.from = t.from /\ u.to = t.to /\ u.manifest = t.manifest /\ u.now = t.now
  /\ u.todo = todo /\ u.candidates = candidates

\* u is at the start of a loop.
Starts(u, pc, todo, now) ==
  /\ u.pc = pc /\ u.then = pc /\ u.manifest = NoManifest
  /\ u.todo = todo /\ u.candidates = {} /\ u.now = now

\* What Goto does to the tasks.
LEMMA GotoGoes ==
  ASSUME TypeOK, NEW p \in Actors, NEW u \in Task, Goto(p, u)
  PROVE  Goes(p, u)
  BY DEF TypeOK, Goto, Goes

\* What Store does to the disk.
LEMMA StorePuts ==
  ASSUME TypeOK, NEW s \in Sessions, NEW d \in Dirs, NEW e \in Entry \cup {Absent},
         Store(s, d, e)
  PROVE  Puts(s, d, e)
  BY DEF TypeOK, Store, Puts, DiskSpace

\* A rename moves one directory (move_session_directory, claim_next_ready).
LEMMA RenameMoves ==
  ASSUME TypeOK, NEW s \in Sessions, NEW from \in Dirs, NEW to \in Dirs, from # to,
         disk' = [disk EXCEPT ![s] = [@ EXCEPT ![to] = disk[s][from], ![from] = Absent]]
  PROVE  Moves(s, from, to)
  BY DEF TypeOK, Moves, DiskSpace

\* Deciding about one session leaves the fate of the others alone.
LEMMA FateDecides ==
  ASSUME TypeOK, NEW s \in Sessions, NEW f \in Fates, fate' = [fate EXCEPT ![s] = f]
  PROVE  Decides(s, f)
  BY DEF TypeOK, Decides

\* The neutral task of a program counter.
LEMMA AtTask ==
  ASSUME NEW pc \in PCs
  PROVE  /\ At(pc) \in Task
         /\ Starts(At(pc), pc, {}, 0)
  BY ConstantsAssumption DEF At, Task, Dirs, Times, Starts

\* A task that starts a loop over some sessions.
LEMMA StartTask ==
  ASSUME NEW pc \in PCs, NEW todo \in SUBSET Sessions, NEW now \in Times
  PROVE  /\ [At(pc) EXCEPT !.now = now, !.todo = todo] \in Task
         /\ Starts([At(pc) EXCEPT !.now = now, !.todo = todo], pc, todo, now)
  BY ConstantsAssumption DEF At, Task, Dirs, Times, Starts

\* A process that leaves with an error refers to nothing any more.
LEMMA ExitGoes ==
  ASSUME TypeOK, NEW p \in Actors, Exit(p)
  PROVE  \E u \in Task : Goes(p, u) /\ Starts(u, "error", {}, 0)
  BY AtTask, GotoGoes DEF Exit, PCs

\* What WriteThenMove does to the task, when the iteration left out "done".
LEMMA WriteGoes ==
  ASSUME TypeOK, NEW p \in Actors, NEW t \in Task, NEW t0 \in Task, NEW done, NEW s \in Sessions,
         NEW from \in Dirs, NEW to \in Dirs, NEW m \in Manifest \cup {NoManifest},
         NEW then \in PCs, WriteThenMove(p, s, from, to, m, then, t),
         Iterates(t, t0, t0.todo \ done, t0.candidates)
  PROVE  \E u \in Task : Goes(p, u) /\ Writes(u, t0, done, s, from, to, m, then)
  <1> DEFINE u == [t EXCEPT !.pc = "write", !.session = s, !.from = from, !.to = to,
                            !.manifest = m, !.then = then]
  <1>1. u \in Task /\ Writes(u, t0, done, s, from, to, m, then)
    BY DEF Task, PCs, Writes, Iterates
  <1>2. Goto(p, u)
    BY DEF WriteThenMove
  <1> HIDE DEF u
  <1> QED BY <1>1, <1>2, GotoGoes

\* What fail_session does to the task.
LEMMA FailGoes ==
  ASSUME TypeOK, NEW p \in Actors, NEW t \in Task, NEW t0 \in Task, NEW done,
         NEW s \in Sessions, NEW from \in Dirs,
         NEW e \in Entry, NEW then \in PCs, Fail(p, s, from, e, then, t),
         Iterates(t, t0, t0.todo \ done, t0.candidates)
  PROVE  \E u \in Task : Fails(p, u, t0, done, s, from, e, then)
  <1>1. CASE Present(s, "failed")
    BY <1>1, ExitGoes DEF Fail, Fails, Starts
  <1>2. CASE ~Present(s, "failed")
    <2> DEFINE m == IF Readable(e) THEN Advance(e.manifest, "failed", t.now) ELSE e.manifest
    <2>1. e.manifest \in Manifest \cup {NoManifest} /\ t.now \in Times /\ t.now = t0.now
      BY DEF Entry, Task, Iterates
    <2>2. GivesUp(m, e, t0.now)
      <3>1. CASE Readable(e)
        <4>1. e.manifest \in Manifest /\ e.manifest # NoManifest
          BY <2>1, <3>1 DEF Readable
        <4> QED BY <2>1, <3>1, <4>1, AdvanceManifest, Names DEF Complete, GoodWith, GivesUp
      <3>2. CASE ~Readable(e)
        BY <2>1, <3>2 DEF GivesUp
      <3> QED BY <3>1, <3>2
    <2>3. WriteThenMove(p, s, from, "failed", m, then, t)
      BY <1>2 DEF Fail
    <2> HIDE DEF m
    <2>4. \E u \in Task : Goes(p, u) /\ Writes(u, t0, done, s, from, "failed", m, then)
      BY <2>2, <2>3, Names, WriteGoes DEF GivesUp
    <2> QED BY <2>2, <2>4 DEF Fails
  <1> QED BY <1>1, <1>2

\* Returning to a loop keeps what the loop iterates over.
LEMMA ResumeTask ==
  ASSUME TypeOK, NEW p \in Actors
  PROVE  /\ Resume(p) \in Task
         /\ Resume(p).pc = task[p].then /\ Resume(p).manifest = NoManifest
         /\ Resume(p).todo = task[p].todo /\ Resume(p).candidates = task[p].candidates
         /\ Resume(p).now \in {0, task[p].now}
         /\ task[p].then \notin {"idle", "down"} => Resume(p).now = task[p].now
  <1> DEFINE t == task[p]
             base == At(t.then)
             now == IF t.then \in {"idle", "down"} THEN 0 ELSE t.now
  <1>1. t \in Task
    BY DEF TypeOK
  <1>2. t.then \in PCs /\ t.todo \in SUBSET Sessions /\ t.candidates \in SUBSET Sessions
        /\ now \in Times
    BY <1>1, ConstantsAssumption DEF Task, Times
  <1>3. base \in Task /\ base.pc = t.then /\ base.manifest = NoManifest
    BY <1>2, AtTask DEF Starts
  <1>4. Resume(p) = [base EXCEPT !.todo = t.todo, !.candidates = t.candidates, !.now = now]
    BY DEF Resume
  <1>5. now \in {0, t.now} /\ (t.then \notin {"idle", "down"} => now = t.now)
    OBVIOUS
  <1> HIDE DEF t, base, now
  <1>6. /\ Resume(p) \in Task
        /\ Resume(p).pc = t.then /\ Resume(p).manifest = NoManifest
        /\ Resume(p).todo = t.todo /\ Resume(p).candidates = t.candidates
        /\ Resume(p).now = now
    BY <1>2, <1>3, <1>4 DEF Task
  <1> QED BY <1>5, <1>6 DEF t

-----------------------------------------------------------------------------
(* Who may disturb whom.                                                   *)

\* The directories whose contents process p alone may change.
Owns(p, s, d) ==
  IF p = Processor THEN d \in {"ready", "claimed"} ELSE d = "capturing" /\ Camera(s) = p

\* What a step of p leaves to the other processes.
Guarantee(p) ==
  \A s \in Sessions :
    /\ \A d \in Dirs : ~Owns(p, s, d) /\ (Present(s, d) \/ d \in {"capturing", "claimed"})
         => disk'[s][d] = disk[s][d]
    /\ p # Processor /\ fate[s] \in {"failed", "prepared", "deleted"} => fate'[s] = fate[s]
    /\ disk'[s]["capturing"] # disk[s]["capturing"] => task'[p] # task[p]
    /\ disk[s]["failed"] = Absent /\ disk'[s]["failed"] # Absent /\ Good(disk'[s]["failed"])
         => fate[s] = "failed"

\* The others' tasks still fit after a step of p.
LEMMA OthersFit ==
  ASSUME SInv, NEW p \in Actors, NEW q \in Actors, q # p, Guarantee(p), task'[q] = task[q]
  PROVE  Fits(q, task'[q], disk', fate')
  <1> DEFINE t == task[q]
  <1>1. Fits(q, t, disk, fate) /\ t \in Task
    BY DEF SInv, TypeOK
  <1>2. CASE q = Processor
    <2>1. \A s \in Sessions, d \in {"ready", "claimed"} :
             disk[s][d] # Absent => disk'[s][d] = disk[s][d]
      BY <1>2, Names DEF Guarantee, Owns, Present
    <2>2. \A s \in Sessions : fate[s] \in {"failed", "prepared", "deleted"} => fate'[s] = fate[s]
      BY <1>2 DEF Guarantee
    <2>3. t.todo \subseteq Sessions /\ t.candidates \subseteq Sessions
      BY <1>1 DEF Task
    <2>4. ProcessorFits(t, disk, fate)
      BY <1>1, <1>2 DEF Fits
    <2> HIDE DEF t
    <2>5. ProcessorFits(t, disk', fate')
      BY <2>1, <2>2, <2>3, <2>4 DEF ProcessorFits, Waits, Loop, EffectPCs, Good, GoodWith
    <2> QED BY <1>2, <2>5 DEF Fits, t
  <1>3. CASE q # Processor
    <2>1. \A s \in Sessions : Camera(s) = q => disk'[s]["capturing"] = disk[s]["capturing"]
      BY <1>3, Names DEF Guarantee, Owns
    <2>2. t.todo \subseteq Sessions
      BY <1>1 DEF Task
    <2>3. RecorderFits(q, t, disk)
      BY <1>1, <1>3 DEF Fits
    <2> HIDE DEF t
    <2>4. RecorderFits(q, t, disk')
      BY <2>1, <2>2, <2>3 DEF RecorderFits, Waits, Loop, EffectPCs, Good
    <2> QED BY <1>3, <2>4 DEF Fits, t
  <1> QED BY <1>2, <1>3

\* The parts of the state that are not directories keep their types.
RestType == clock' \in Times /\ stops' \in Nat

\* What a step of p has to establish, when its task becomes u.
LEMMA GeneralStep ==
  ASSUME SInv, NEW p \in Actors, NEW u, Goes(p, u), Guarantee(p),
         disk' \in DiskSpace, fate' \in [Sessions -> Fates], RestType,
         Fits(p, u, disk', fate'),
         \A s \in Sessions : /\ Kept(disk'[s], fate'[s]) /\ Placed(disk'[s], fate'[s])
                             /\ Tidy(s, disk'[s], task'[Processor])
  PROVE  SInv' /\ Guarantee(p)
  <1>1. TypeOK'
    BY DEF TypeOK, Goes, DiskSpace, RestType
  <1>2. ASSUME NEW q \in Actors PROVE Fits(q, task'[q], disk', fate')
    <2>1. CASE q = p
      BY <2>1 DEF Goes
    <2>2. CASE q # p
      BY <2>2, OthersFit DEF Goes
    <2> QED BY <2>1, <2>2
  <1> QED BY <1>1, <1>2 DEF SInv

\* The processor still excuses every directory it excused, but that of s.
StillExcuses(p, u, except) ==
  p = Processor => \A x \in Sessions \ except :
    Present(x, "ready") /\ disk[x]["ready"].temp /\ Excused(x, task[Processor]) => Excused(x, u)

\* Unfinished writes of sessions a step does not touch stay excused.
LEMMA StaysTidy ==
  ASSUME SInv, NEW p \in Actors, NEW u, Goes(p, u), NEW except, StillExcuses(p, u, except),
         NEW x \in Sessions \ except, disk'[x]["ready"] = disk[x]["ready"]
  PROVE  Tidy(x, disk'[x], task'[Processor])
  BY Names DEF Tidy, StillExcuses, SInv, Goes, Present

\* A step that changes no directory and decides nothing.
LEMMA ControlStep ==
  ASSUME SInv, NEW p \in Actors, NEW u, Goes(p, u), UNCHANGED <<disk, fate>>, RestType,
         Fits(p, u, disk, fate), StillExcuses(p, u, {})
  PROVE  SInv' /\ Guarantee(p)
  <1>1. Guarantee(p)
    BY DEF Guarantee
  <1>2. disk' \in DiskSpace /\ fate' \in [Sessions -> Fates]
    BY DEF SInv, TypeOK, DiskSpace
  <1>3. ASSUME NEW s \in Sessions
        PROVE  Kept(disk'[s], fate'[s]) /\ Placed(disk'[s], fate'[s])
               /\ Tidy(s, disk'[s], task'[Processor])
    BY StaysTidy DEF SInv
  <1> QED BY <1>1, <1>2, <1>3, GeneralStep

\* A process that leaves, is stopped, or waits refers to no session.
LEMMA RestingFits ==
  ASSUME NEW p \in Actors, NEW u, u.pc \in {"down", "error", "idle"}, NEW D, NEW F
  PROVE  Fits(p, u, D, F)
  BY DEF Fits, ProcessorFits, RecorderFits, Loop, EffectPCs

\* A process that stops excuses everything.
LEMMA StoppingExcuses ==
  ASSUME NEW p, NEW u, u.pc \in {"down", "error"}, NEW except
  PROVE  StillExcuses(p, u, except)
  BY DEF StillExcuses, Excused

\* A step that stops a process and changes nothing else.
LEMMA StopStep ==
  ASSUME SInv, NEW p \in Actors, NEW u, Goes(p, u), u.pc \in {"down", "error"},
         UNCHANGED <<disk, fate>>, RestType
  PROVE  SInv' /\ Guarantee(p)
  BY RestingFits, StoppingExcuses, ControlStep

\* A step in which p rewrites one directory it owns.
LEMMA PutStep ==
  ASSUME SInv, NEW p \in Actors, NEW u, Goes(p, u), RestType,
         NEW s \in Sessions, NEW d \in Dirs, NEW e \in Entry,
         Owns(p, s, d), Present(s, d), Puts(s, d, e),
         \/ fate' = fate
         \/ p = Processor /\ Decides(s, "deleted") /\ d = "claimed" /\ ~Good(e),
         Fits(p, u, disk', fate'),
         p # Processor => u.pc # task[p].pc,
         p = Processor /\ fate'[s] # "deleted"
           => (Complete(disk[s][d].manifest) => Complete(e.manifest)),
         Good(e) => \/ Says(e.manifest, "ready")
                    \/ d = "claimed" /\ (Says(e.manifest, "claimed") \/ fate[s] = "failed"),
         d = "ready" /\ e.temp => Excused(s, u),
         StillExcuses(p, u, IF d = "ready" THEN {s} ELSE {})
  PROVE  SInv' /\ Guarantee(p)
  <1>1. disk' \in DiskSpace /\ disk'[s][d] = e
        /\ \A x \in Sessions, y \in Dirs : x # s \/ y # d => disk'[x][y] = disk[x][y]
    BY DEF Puts
  <1>2. fate' \in [Sessions -> Fates] /\ \A x \in Sessions \ {s} : fate'[x] = fate[x]
    BY DEF SInv, TypeOK, Decides
  <1>3. e # Absent /\ d \in {"capturing", "ready", "claimed"}
    BY ConstantsAssumption DEF Owns
  <1>4. Guarantee(p)
    <2>1. p # Processor => task'[p] # task[p]
      BY DEF Goes
    <2>2. \A x \in Sessions, y \in Dirs : ~Owns(p, x, y) => disk'[x][y] = disk[x][y]
      BY <1>1
    <2>3. p = Processor => \A x \in Sessions : disk'[x]["capturing"] = disk[x]["capturing"]
      BY <2>2, Names DEF Owns
    <2>4. \A x \in Sessions : disk'[x]["failed"] = disk[x]["failed"]
      BY <2>2, Names DEF Owns
    <2>5. p # Processor => fate' = fate
      OBVIOUS
    <2> QED BY <2>1, <2>2, <2>3, <2>4, <2>5 DEF Guarantee
  <1>5. ASSUME NEW x \in Sessions
        PROVE  Kept(disk'[x], fate'[x])
    <2>0. Kept(disk[x], fate[x])
      BY DEF SInv
    <2>1. CASE x # s
      BY <1>1, <1>2, <2>0, <2>1, Names DEF Kept
    <2>2. CASE x = s /\ p # Processor
      <3>1. d = "capturing" /\ fate' = fate
        BY <2>2 DEF Owns
      <3> QED BY <1>1, <2>0, <2>2, <3>1, Names DEF Kept
    <2>3. CASE x = s /\ p = Processor /\ fate'[s] = "deleted"
      BY <2>3 DEF Kept
    <2>4. CASE x = s /\ p = Processor /\ fate'[s] # "deleted"
      <3>1. fate'[s] = fate[s] /\ (Complete(disk[s][d].manifest) => Complete(e.manifest))
        BY <2>4 DEF Decides
      <3> QED BY <1>1, <1>3, <2>0, <2>4, <3>1, Names DEF Kept
    <2> QED BY <2>1, <2>2, <2>3, <2>4
  <1>6. ASSUME NEW x \in Sessions
        PROVE  Placed(disk'[x], fate'[x])
    <2>0. Placed(disk[x], fate[x])
      BY DEF SInv
    <2>1. CASE x # s
      BY <1>1, <1>2, <2>0, <2>1, Names DEF Placed
    <2>2. CASE x = s
      <3>1. CASE fate' = fate
        BY <1>1, <1>3, <2>0, <2>2, <3>1, Names DEF Placed, Says
      <3>2. CASE p = Processor /\ Decides(s, "deleted") /\ d = "claimed" /\ ~Good(e)
        BY <1>1, <1>3, <2>0, <2>2, <3>2, Names DEF Placed, Says, Owns, Decides
      <3> QED BY <3>1, <3>2
    <2> QED BY <2>1, <2>2
  <1>7. ASSUME NEW x \in Sessions
        PROVE  Tidy(x, disk'[x], task'[Processor])
    <2>1. CASE x = s /\ d = "ready"
      <3>1. p = Processor /\ task'[Processor] = u
        BY <2>1 DEF Owns, Goes
      <3> QED BY <1>1, <2>1, <3>1 DEF Tidy
    <2>2. CASE x # s \/ d # "ready"
      <3>1. disk'[x]["ready"] = disk[x]["ready"]
        BY <1>1, <2>2, Names
      <3> QED BY <2>2, <3>1, StaysTidy
    <2> QED BY <2>1, <2>2
  <1> QED BY <1>1, <1>2, <1>4, <1>5, <1>6, <1>7, GeneralStep

\* A step in which p renames the directory of a session it owns.
LEMMA MoveStep ==
  ASSUME SInv, NEW p \in Actors, NEW u, Goes(p, u), RestType,
         NEW s \in Sessions, NEW from \in Dirs, NEW to \in Dirs, from # to,
         Owns(p, s, from), Present(s, from), ~Present(s, to), Moves(s, from, to),
         to \in {"ready", "failed"} \/ (p = Processor /\ to = "claimed"),
         \/ fate' = fate
         \/ /\ to = "ready" /\ Complete(disk[s][from].manifest)
            /\ fate[s] = "begun" /\ Decides(s, "published"),
         Fits(p, u, disk', fate'),
         p # Processor => u.pc # task[p].pc,
         Good(disk[s][from]) => \/ to \in {"ready", "claimed"} /\ Says(disk[s][from].manifest, "ready")
                                \/ to = "failed" /\ fate[s] = "failed",
         to = "ready" => ~disk[s][from].temp,
         StillExcuses(p, u, {})
  PROVE  SInv' /\ Guarantee(p)
  <1> DEFINE e == disk[s][from]
  <1>1. /\ disk' \in DiskSpace /\ disk'[s][to] = e /\ disk'[s][from] = Absent
        /\ \A x \in Sessions, y \in Dirs : x # s \/ y \notin {from, to} => disk'[x][y] = disk[x][y]
    BY DEF Moves
  <1>2. fate' \in [Sessions -> Fates] /\ \A x \in Sessions \ {s} : fate'[x] = fate[x]
    BY DEF SInv, TypeOK, Decides
  <1>3. e # Absent /\ disk[s][to] = Absent /\ from \in {"capturing", "ready", "claimed"}
    BY DEF Owns, Present
  <1>4. Guarantee(p)
    <2>1. p # Processor => task'[p] # task[p]
      BY DEF Goes
    <2>2. \A x \in Sessions, y \in Dirs : ~Owns(p, x, y) /\ y # to => disk'[x][y] = disk[x][y]
      BY <1>1
    <2>3. p = Processor => \A x \in Sessions : disk'[x]["capturing"] = disk[x]["capturing"]
      BY <2>2, Names DEF Owns
    <2>4. \A x \in Sessions : disk'[x]["failed"] # disk[x]["failed"]
             => x = s /\ to = "failed" /\ disk'[x]["failed"] = e
      BY <1>1, <1>3, Names
    <2>5. fate[s] \in {"failed", "prepared", "deleted"} => fate' = fate
      OBVIOUS
    <2> QED BY <1>1, <1>2, <1>3, <2>1, <2>2, <2>3, <2>4, <2>5 DEF Guarantee, Owns, Present
  <1> HIDE DEF e
  <1>5. ASSUME NEW x \in Sessions
        PROVE  Kept(disk'[x], fate'[x])
    <2>0. Kept(disk[x], fate[x])
      BY DEF SInv
    <2>1. CASE x # s
      BY <1>1, <1>2, <2>0, <2>1, Names DEF Kept
    <2>2. CASE x = s /\ fate' = fate
      BY <1>1, <1>3, <2>0, <2>2, Names DEF Kept, Owns, e
    <2>3. CASE x = s /\ fate' # fate
      BY <1>1, <1>3, <2>3, Names DEF Kept, e
    <2> QED BY <2>1, <2>2, <2>3
  <1>6. ASSUME NEW x \in Sessions
        PROVE  Placed(disk'[x], fate'[x])
    <2>0. Placed(disk[x], fate[x])
      BY DEF SInv
    <2>1. CASE x # s
      BY <1>1, <1>2, <2>0, <2>1, Names DEF Placed
    <2>2. CASE x = s
      <3>1. fate[s] = "failed" => fate'[s] = "failed"
        OBVIOUS
      <3> QED BY <1>1, <1>3, <2>0, <2>2, <3>1, Names DEF Placed, Says, e
    <2> QED BY <2>1, <2>2
  <1>7. ASSUME NEW x \in Sessions
        PROVE  Tidy(x, disk'[x], task'[Processor])
    <2>1. CASE x = s /\ to = "ready"
      BY <1>1, <2>1 DEF Tidy, e
    <2>2. CASE x = s /\ from = "ready"
      BY <1>1, <2>2 DEF Tidy
    <2>3. CASE ~(x = s /\ to = "ready") /\ ~(x = s /\ from = "ready")
      <3>1. disk'[x]["ready"] = disk[x]["ready"]
        BY <1>1, <2>3, Names
      <3> QED BY <3>1, StaysTidy
    <2> QED BY <2>1, <2>2, <2>3
  <1> QED BY <1>1, <1>2, <1>4, <1>5, <1>6, <1>7, GeneralStep

\* A step in which p removes the directory of a session it owns.
LEMMA DropStep ==
  ASSUME SInv, NEW p \in Actors, NEW u, Goes(p, u), RestType, fate' = fate,
         NEW s \in Sessions, NEW d \in {"capturing", "claimed"},
         Owns(p, s, d), Puts(s, d, Absent),
         p = Processor => fate[s] = "deleted",
         Fits(p, u, disk', fate'),
         p # Processor => u.pc # task[p].pc,
         StillExcuses(p, u, {})
  PROVE  SInv' /\ Guarantee(p)
  <1>1. disk' \in DiskSpace /\ disk'[s][d] = Absent
        /\ \A x \in Sessions, y \in Dirs : x # s \/ y # d => disk'[x][y] = disk[x][y]
    BY DEF Puts
  <1>2. Guarantee(p)
    <2>1. p # Processor => task'[p] # task[p]
      BY DEF Goes
    <2>2. \A x \in Sessions, y \in Dirs : ~Owns(p, x, y) => disk'[x][y] = disk[x][y]
      BY <1>1
    <2>3. p = Processor => \A x \in Sessions : disk'[x]["capturing"] = disk[x]["capturing"]
      BY <2>2, Names DEF Owns
    <2>4. \A x \in Sessions : disk'[x]["failed"] = disk[x]["failed"]
      BY <2>2, Names DEF Owns
    <2> QED BY <2>1, <2>2, <2>3, <2>4 DEF Guarantee
  <1>3. ASSUME NEW x \in Sessions
        PROVE  Kept(disk'[x], fate'[x])
    <2>0. Kept(disk[x], fate[x])
      BY DEF SInv
    <2>1. CASE x # s \/ p # Processor
      BY <1>1, <2>0, <2>1, Names DEF Kept, Owns
    <2>2. CASE x = s /\ p = Processor
      BY <2>2 DEF Kept
    <2> QED BY <2>1, <2>2
  <1>4. ASSUME NEW x \in Sessions
        PROVE  Placed(disk'[x], fate'[x])
    <2>0. Placed(disk[x], fate[x])
      BY DEF SInv
    <2> QED BY <1>1, <2>0, Names DEF Placed
  <1>5. ASSUME NEW x \in Sessions
        PROVE  Tidy(x, disk'[x], task'[Processor])
    BY <1>1, StaysTidy, Names
  <1>6. fate' \in [Sessions -> Fates]
    BY DEF SInv, TypeOK
  <1> QED BY <1>1, <1>2, <1>3, <1>4, <1>5, <1>6, GeneralStep

\* A step in which a recorder creates the directory of a capture.
LEMMA CreateStep ==
  ASSUME SInv, NEW c \in Cameras, NEW u, Goes(c, u), RestType,
         NEW s \in Sessions, NEW e \in Entry, Camera(s) = c,
         Puts(s, "capturing", e), ~Complete(e.manifest),
         fate' = fate \/ (fate[s] = "none" /\ Decides(s, "begun")),
         Fits(c, u, disk', fate'), u.pc # task[c].pc
  PROVE  SInv' /\ Guarantee(c)
  <1>1. disk' \in DiskSpace /\ disk'[s]["capturing"] = e
        /\ \A x \in Sessions, y \in Dirs : x # s \/ y # "capturing" => disk'[x][y] = disk[x][y]
    BY DEF Puts
  <1>2. fate' \in [Sessions -> Fates] /\ \A x \in Sessions \ {s} : fate'[x] = fate[x]
    BY DEF SInv, TypeOK, Decides
  <1>3. c \in Actors /\ c # Processor /\ task'[c] # task[c]
    BY Names DEF Goes
  <1>4. Guarantee(c)
    BY <1>1, <1>2, <1>3, Names DEF Guarantee, Owns, Decides
  <1>5. ASSUME NEW x \in Sessions
        PROVE  Kept(disk'[x], fate'[x]) /\ Placed(disk'[x], fate'[x])
    <2>0. Kept(disk[x], fate[x]) /\ Placed(disk[x], fate[x])
      BY DEF SInv
    <2> QED BY <1>1, <1>2, <2>0, Names DEF Kept, Placed, Decides, Good, GoodWith
  <1>6. ASSUME NEW x \in Sessions
        PROVE  Tidy(x, disk'[x], task'[Processor])
    BY <1>1, <1>3, StaysTidy, Names DEF StillExcuses
  <1> QED BY <1>1, <1>2, <1>3, <1>4, <1>5, <1>6, GeneralStep

\* A step in which the processor decides something about s.
LEMMA DecideStep ==
  ASSUME SInv, NEW u, Goes(Processor, u), RestType, UNCHANGED disk,
         NEW s \in Sessions, NEW f \in {"failed", "prepared", "deleted"}, Decides(s, f),
         f = "failed" => fate[s] \in {"published", "failed"},
         f # "failed" /\ Present(s, "claimed") => Says(disk[s]["claimed"].manifest, "claimed"),
         Fits(Processor, u, disk', fate'), StillExcuses(Processor, u, {})
  PROVE  SInv' /\ Guarantee(Processor)
  <1>1. fate' \in [Sessions -> Fates] /\ fate'[s] = f
        /\ \A x \in Sessions \ {s} : fate'[x] = fate[x]
    BY DEF Decides
  <1>2. Guarantee(Processor)
    BY DEF Guarantee
  <1>3. ASSUME NEW x \in Sessions
        PROVE  Kept(disk'[x], fate'[x]) /\ Placed(disk'[x], fate'[x])
    <2>0. Kept(disk[x], fate[x]) /\ Placed(disk[x], fate[x])
      BY DEF SInv
    <2> QED BY <1>1, <2>0 DEF Kept, Placed, Says, Present
  <1>4. ASSUME NEW x \in Sessions
        PROVE  Tidy(x, disk'[x], task'[Processor])
    BY StaysTidy, Names
  <1>5. disk' \in DiskSpace
    BY DEF SInv, TypeOK, DiskSpace
  <1> QED BY <1>1, <1>2, <1>3, <1>4, <1>5, Names, GeneralStep

-----------------------------------------------------------------------------
(* What a process knows about the session it is working on.                *)

\* What SInv says of a recorder.
LEMMA RecorderTask ==
  ASSUME SInv, NEW c \in Cameras
  PROVE  RecorderFits(c, task[c], disk) /\ task[c] \in Task /\ c \in Actors /\ c # Processor
  BY Names DEF SInv, TypeOK, Fits

\* What SInv says of the processor.
LEMMA ProcessorTask ==
  ASSUME SInv
  PROVE  ProcessorFits(task[Processor], disk, fate) /\ task[Processor] \in Task
         /\ Processor \in Actors
  BY Names DEF SInv, TypeOK, Fits

\* A process in a durable effect works on a directory it owns.
LEMMA EffectSession ==
  ASSUME SInv, NEW p \in Actors, task[p].pc \in EffectPCs
  PROVE  LET t == task[p] IN
         /\ t \in Task /\ t.session \in Sessions /\ t.from \in Dirs /\ t.to \in Dirs
         /\ t.then \in PCs
         /\ t.from \in {"capturing", "ready", "claimed"}
         /\ Owns(p, t.session, t.from) /\ Present(t.session, t.from)
         /\ disk[t.session][t.from] \in Entry
         /\ disk[t.session][t.from].manifest \in Manifest \cup {NoManifest}
         /\ t.manifest \in Manifest \cup {NoManifest}
  <1> DEFINE t == task[p]
  <1>1. t \in Task /\ t.from \in Dirs /\ t.to \in Dirs /\ t.then \in PCs
        /\ t.manifest \in Manifest \cup {NoManifest}
    BY DEF SInv, TypeOK, Task
  <1>2. /\ t.session \in Sessions /\ t.from \in {"capturing", "ready", "claimed"}
        /\ Owns(p, t.session, t.from) /\ Present(t.session, t.from)
    <2>1. CASE p = Processor
      BY <2>1, ProcessorTask DEF ProcessorFits, Owns, Present
    <2>2. CASE p # Processor
      BY <2>2, RecorderTask, Names DEF RecorderFits, Owns, Present
    <2> QED BY <2>1, <2>2
  <1> HIDE DEF t
  <1>3. TypeOK
    BY DEF SInv
  <1>4. disk[t.session][t.from] \in Entry
        /\ disk[t.session][t.from].manifest \in Manifest \cup {NoManifest}
    BY <1>1, <1>2, <1>3, PresentEntry
  <1> QED BY <1>1, <1>2, <1>4 DEF t

\* Back in its loop, a process still finds what is left to iterate over.
LEMMA ResumeFits ==
  ASSUME SInv, NEW p \in Actors, task[p].pc \in EffectPCs,
         task[p].then \notin {"capturing", "unlock"},
         \A x \in Sessions \ {task[p].session} : disk'[x] = disk[x]
  PROVE  /\ Fits(p, Resume(p), disk', fate')
         /\ task[p].pc # "commit" => StillExcuses(p, Resume(p), {})
         /\ StillExcuses(p, Resume(p), {task[p].session})
  <1> DEFINE t == task[p]  u == Resume(p)
  <1>1. TypeOK /\ t \in Task /\ t.todo \subseteq Sessions /\ t.candidates \subseteq Sessions
    BY DEF SInv, TypeOK, Task
  <1>2. u.pc = t.then /\ u.todo = t.todo /\ u.candidates = t.candidates
    BY <1>1, ResumeTask
  <1>3. CASE p = Processor
    <2>1. ProcessorFits(t, disk, fate) /\ t.pc \in EffectPCs
      BY <1>3, ProcessorTask
    <2>2. t.then \in MovingLoops \cup {"purge"}
      BY <2>1 DEF ProcessorFits, MovingLoops, EffectPCs
    <2>3. \A x \in Sessions \ {t.session} : disk'[x] = disk[x]
      OBVIOUS
    <2> HIDE DEF t, u
    <2>4. ProcessorFits(u, disk', fate')
      BY <1>1, <1>2, <2>1, <2>2, <2>3
      DEF ProcessorFits, Waits, Loop, EffectPCs, MovingLoops
    <2>5. \A x : Excused(x, t) => Excused(x, u) \/ (t.pc = "commit" /\ x = t.session)
      BY <1>2, <2>1, <2>2 DEF Excused, Loop, EffectPCs, MovingLoops
    <2> QED BY <1>3, <2>4, <2>5 DEF Fits, StillExcuses, t, u
  <1>4. CASE p # Processor
    <2>1. RecorderFits(p, t, disk) /\ t.pc \in EffectPCs
      BY <1>4, RecorderTask, Names
    <2>2. t.then \in {"recover", "idle"}
      BY <2>1 DEF RecorderFits, EffectPCs
    <2>3. \A x \in Sessions \ {t.session} : disk'[x] = disk[x]
      OBVIOUS
    <2> HIDE DEF t, u
    <2>4. RecorderFits(p, u, disk')
      BY <1>1, <1>2, <2>1, <2>2, <2>3 DEF RecorderFits, Waits, Loop, EffectPCs
    <2> QED BY <1>4, <2>4 DEF Fits, StillExcuses, t, u
  <1> QED BY <1>3, <1>4

-----------------------------------------------------------------------------
(* The shape of every action: what it changes, and what it found.          *)

\* The clock stands still.
SameTime == clock' = clock /\ RestType

\* p leaves with an error and changes nothing else.
Errs(p) == UNCHANGED <<disk, fate>> /\ \E u \in Task : Goes(p, u) /\ u.pc = "error"

\* u is t with another program counter.
Steps(u, t, pc) ==
  /\ u.pc = pc /\ u.then = t.then /\ u.session = t.session
  /\ u.from = t.from /\ u.to = t.to /\ u.manifest = t.manifest /\ u.now = t.now
  /\ u.todo = t.todo /\ u.candidates = t.candidates

\* e replaces a directory x and agrees with it on the manifest and the video.
Touches(e, x) == e \in Entry /\ e # Absent /\ e.manifest = x.manifest /\ e.video = x.video

\* What SInv says of a good recording.
LEMMA GoodIsPlaced ==
  ASSUME SInv, NEW s \in Sessions, NEW d \in {"capturing", "ready", "claimed"},
         Present(s, d), Good(disk[s][d])
  PROVE  \/ Says(disk[s][d].manifest, "ready")
         \/ d = "claimed" /\ (Says(disk[s][d].manifest, "claimed") \/ fate[s] = "failed")
  BY DEF SInv, Placed, Says, Good, GoodWith, Complete, Present

\* Most operations change neither the clock nor the number of stops.
LEMMA RestUntouched ==
  ASSUME SInv, UNCHANGED <<clock, stops>>
  PROVE  SameTime
  BY DEF SInv, TypeOK, RestType, SameTime

\* An operation that returns an error changes nothing but the process.
LEMMA ErrorShape ==
  ASSUME SInv, NEW p \in Actors, Exit(p), UNCHANGED <<disk, fate>>
  PROVE  Errs(p)
  BY ExitGoes DEF SInv, Starts, Errs

\* The temporary file appears next to the manifest.
LEMMA WriteTempShape ==
  ASSUME SInv, NEW p \in Actors, WriteTemp(p)
  PROVE  LET t == task[p] s == t.session d == t.from IN
         /\ t.pc = "write" /\ SameTime /\ UNCHANGED fate
         /\ \/ disk[s][d].temp /\ Errs(p)
            \/ /\ ~disk[s][d].temp
               /\ \E u \in Task, x \in Entry :
                    /\ Goes(p, u) /\ Steps(u, t, "commit")
                    /\ Puts(s, d, x) /\ Touches(x, disk[s][d])
  <1> DEFINE t == task[p]  s == t.session  d == t.from  e == disk[s][d]
             u == [t EXCEPT !.pc = "commit"]  x == [e EXCEPT !.temp = TRUE]
  <1>1. /\ t.pc = "write" /\ SameTime /\ UNCHANGED fate
        /\ IF e = Absent \/ e.temp THEN Exit(p) /\ UNCHANGED disk
           ELSE Store(s, d, x) /\ Goto(p, u)
    BY RestUntouched DEF WriteTemp
  <1>2. t \in Task /\ s \in Sessions /\ d \in Dirs /\ e \in Entry /\ TypeOK
    BY <1>1, EffectSession DEF EffectPCs, SInv
  <1>3. Touches(x, e) /\ e # Absent
    <2> HIDE DEF e
    <2> QED BY <1>2, EntryUpdates, ConstantsAssumption DEF Touches
  <1>4. u \in Task /\ Steps(u, t, "commit")
    <2> HIDE DEF t
    <2> QED BY <1>2 DEF Task, PCs, Steps
  <1>5. CASE e.temp
    BY <1>1, <1>5, ErrorShape
  <1>6. CASE ~e.temp
    <2>1. Goto(p, u) /\ Store(s, d, x)
      BY <1>1, <1>3, <1>6
    <2> HIDE DEF u, x, t, s, d, e
    <2>2. Goes(p, u) /\ Puts(s, d, x)
      BY <1>2, <1>3, <1>4, <2>1, GotoGoes, StorePuts DEF Touches
    <2>3. x \in Entry
      BY <1>3 DEF Touches
    <2> QED BY <1>1, <1>3, <1>4, <1>6, <2>2, <2>3 DEF t, s, d, e
  <1> QED BY <1>5, <1>6

\* The new manifest replaces the old one.
LEMMA CommitManifestShape ==
  ASSUME SInv, NEW p \in Actors, CommitManifest(p)
  PROVE  LET t == task[p] s == t.session d == t.from IN
         /\ t.pc = "commit" /\ SameTime /\ UNCHANGED fate
         /\ \E u \in Task, x \in Entry :
              /\ Goes(p, u) /\ u.session = s /\ u.now = t.now
              /\ Puts(s, d, x) /\ x # Absent /\ ~x.temp
              /\ x.manifest = t.manifest /\ x.video = disk[s][d].video
              /\ \/ d # t.to /\ Steps(u, t, "move")
                 \/ /\ d = t.to /\ u.pc = t.then /\ u.manifest = NoManifest
                    /\ t.then = IF p = Processor THEN "unlock" ELSE "capturing"
  <1> DEFINE t == task[p]  s == t.session  d == t.from  e == disk[s][d]
             x == [e EXCEPT !.temp = FALSE, !.manifest = t.manifest]
             move == [t EXCEPT !.pc = "move"]
             stay == [At(t.then) EXCEPT !.session = t.session, !.now = t.now]
  <1>1. /\ t.pc = "commit" /\ SameTime /\ UNCHANGED fate
        /\ e = Absent => Exit(p) /\ UNCHANGED disk
        /\ e # Absent => /\ Store(s, d, x)
                         /\ IF d # t.to THEN Goto(p, move)
                            ELSE IF t.then \in {"capturing", "unlock"} THEN Goto(p, stay)
                            ELSE Goto(p, Resume(p))
    BY RestUntouched DEF CommitManifest
  <1>2. /\ t \in Task /\ s \in Sessions /\ d \in Dirs /\ e \in Entry /\ t.then \in PCs
        /\ t.now \in Times /\ t.manifest \in Manifest \cup {NoManifest} /\ TypeOK
    BY <1>1, EffectSession DEF EffectPCs, SInv, Task
  <1>3. x \in Entry /\ x.manifest = t.manifest /\ x.video = e.video /\ ~x.temp
        /\ x # Absent /\ e # Absent
    <2> DEFINE m == t.manifest
    <2>1. m \in Manifest \cup {NoManifest}
      BY <1>2
    <2> HIDE DEF e, m
    <2>2. LET y == [e EXCEPT !.temp = FALSE, !.manifest = m] IN
          y \in Entry /\ y.manifest = m /\ y.video = e.video /\ ~y.temp
      BY <1>2, <2>1, EntryUpdates
    <2> QED BY <1>2, <2>2, ConstantsAssumption DEF m
  <1>4. d = t.to => t.then = IF p = Processor THEN "unlock" ELSE "capturing"
    <2>1. CASE p = Processor
      BY <1>1, <2>1, ProcessorTask DEF ProcessorFits, EffectPCs, MovingLoops
    <2>2. CASE p # Processor
      BY <1>1, <2>2, RecorderTask, Names DEF RecorderFits, EffectPCs
    <2> QED BY <2>1, <2>2
  <1>5. Store(s, d, x) /\ (d # t.to => Goto(p, move)) /\ (d = t.to => Goto(p, stay))
    BY <1>1, <1>3, <1>4
  <1>6. move \in Task /\ Steps(move, t, "move")
    <2> HIDE DEF t
    <2> QED BY <1>2 DEF Task, PCs, Steps
  <1>7. stay \in Task /\ stay.pc = t.then /\ stay.session = s /\ stay.now = t.now
        /\ stay.manifest = NoManifest
    <2> DEFINE base == At(t.then)
    <2>1. base \in Task /\ base.pc = t.then /\ base.manifest = NoManifest
      BY <1>2, AtTask DEF Starts
    <2> HIDE DEF base
    <2>2. LET v == [base EXCEPT !.session = s, !.now = t.now] IN
          v \in Task /\ v.pc = base.pc /\ v.session = s /\ v.now = t.now
          /\ v.manifest = base.manifest
      BY <1>2, <2>1 DEF Task
    <2> QED BY <2>1, <2>2 DEF base
  <1>8. move.session = s /\ move.now = t.now
    BY <1>6 DEF Steps
  <1> HIDE DEF x, move, stay, t, s, d, e
  <1>9. Puts(s, d, x) /\ (d # t.to => Goes(p, move)) /\ (d = t.to => Goes(p, stay))
    BY <1>2, <1>3, <1>5, <1>6, <1>7, StorePuts, GotoGoes
  <1>10. \E u \in Task :
           /\ Goes(p, u) /\ u.session = s /\ u.now = t.now
           /\ \/ d # t.to /\ Steps(u, t, "move")
              \/ /\ d = t.to /\ u.pc = t.then /\ u.manifest = NoManifest
                 /\ t.then = IF p = Processor THEN "unlock" ELSE "capturing"
    BY <1>4, <1>6, <1>7, <1>8, <1>9
  <1> QED BY <1>1, <1>3, <1>9, <1>10 DEF t, s, d, e

\* The directory moves, and a recording may become published.
LEMMA MoveDirectoryShape ==
  ASSUME SInv, NEW p \in Actors, MoveDirectory(p)
  PROVE  LET t == task[p] s == t.session d == t.from IN
         /\ t.pc = "move" /\ SameTime /\ t.then \in {"recover"} \cup MovingLoops
         /\ t.to \in {"ready", "failed"} /\ d # t.to
         /\ \/ Present(s, t.to) /\ Errs(p)
            \/ /\ ~Present(s, t.to) /\ Moves(s, d, t.to) /\ Goes(p, Resume(p))
               /\ \/ UNCHANGED fate
                  \/ t.to = "ready" /\ fate[s] = "begun" /\ Decides(s, "published")
  <1> DEFINE t == task[p]  s == t.session  d == t.from
  <1>1. /\ t.pc = "move" /\ SameTime
        /\ IF Present(s, t.to) \/ ~Present(s, d) THEN Exit(p) /\ UNCHANGED <<disk, fate>>
           ELSE /\ disk' = [disk EXCEPT ![s] = [@ EXCEPT ![t.to] = disk[s][d], ![d] = Absent]]
                /\ Goto(p, Resume(p))
                /\ fate' = IF t.to = "ready" /\ fate[s] = "begun"
                           THEN [fate EXCEPT ![s] = "published"] ELSE fate
    BY RestUntouched DEF MoveDirectory
  <1>2. s \in Sessions /\ d \in Dirs /\ t.to \in Dirs /\ Present(s, d) /\ TypeOK
    BY <1>1, EffectSession DEF EffectPCs, SInv
  <1>3. t.then \in {"recover"} \cup MovingLoops /\ t.to \in {"ready", "failed"} /\ d # t.to
    <2>1. CASE p = Processor
      BY <1>1, <2>1, ProcessorTask DEF ProcessorFits, EffectPCs
    <2>2. CASE p # Processor
      BY <1>1, <2>2, RecorderTask, Names DEF RecorderFits, EffectPCs, MovingLoops
    <2> QED BY <2>1, <2>2
  <1>4. CASE Present(s, t.to)
    BY <1>1, <1>3, <1>4, ErrorShape
  <1>5. CASE ~Present(s, t.to)
    <2>1. Moves(s, d, t.to) /\ Goes(p, Resume(p))
      BY <1>1, <1>2, <1>3, <1>5, RenameMoves, ResumeTask, GotoGoes
    <2>2. \/ UNCHANGED fate
          \/ t.to = "ready" /\ fate[s] = "begun" /\ Decides(s, "published")
      BY <1>1, <1>2, <1>5, FateDecides DEF Fates
    <2> QED BY <1>1, <1>3, <1>5, <2>1, <2>2
  <1> QED BY <1>4, <1>5

\* The emptied directory disappears.
LEMMA FinishRemoveShape ==
  ASSUME SInv, NEW p \in Actors, FinishRemove(p)
  PROVE  LET t == task[p] s == t.session d == t.from IN
         /\ t.pc = "remove" /\ SameTime /\ UNCHANGED fate
         /\ d \in {"capturing", "claimed"} /\ t.then \in {"purge", "idle"}
         /\ p = Processor => d = "claimed" /\ fate[s] = "deleted"
         /\ Puts(s, d, Absent) /\ Goes(p, Resume(p))
  <1> DEFINE t == task[p]  s == t.session  d == t.from
  <1>1. /\ t.pc = "remove" /\ SameTime /\ UNCHANGED fate
        /\ Store(s, d, Absent) /\ Goto(p, Resume(p))
    BY RestUntouched DEF FinishRemove
  <1>2. t \in Task /\ s \in Sessions /\ d \in Dirs /\ TypeOK
    BY <1>1, EffectSession DEF EffectPCs, SInv
  <1>3. /\ d \in {"capturing", "claimed"} /\ t.then \in {"purge", "idle"}
        /\ p = Processor => d = "claimed" /\ fate[s] = "deleted"
    <2>1. CASE p = Processor
      BY <1>1, <2>1, ProcessorTask DEF ProcessorFits, EffectPCs
    <2>2. CASE p # Processor
      BY <1>1, <2>2, RecorderTask, Names DEF RecorderFits, EffectPCs
    <2> QED BY <2>1, <2>2
  <1> QED BY <1>1, <1>2, <1>3, StorePuts, ResumeTask, GotoGoes

\* p begins to remove a directory; u keeps what t iterates over but "done".
Empties(p, u, t, done, s, from, then) ==
  /\ Goes(p, u)
  /\ u.pc = "remove" /\ u.session = s /\ u.from = from /\ u.then = then
  /\ u.todo = t.todo \ done /\ u.candidates = t.candidates
  /\ u.manifest = t.manifest /\ u.now = t.now
  /\ \E e \in Entry : /\ Puts(s, from, e) /\ ~Good(e) /\ e # Absent
                      /\ e.manifest \in {NoManifest, disk[s][from].manifest}

\* remove_dir_all starts with one of the files of a directory.
LEMMA RemoveEmpties ==
  ASSUME SInv, NEW p \in Actors, NEW s \in Sessions, NEW from \in Dirs, Present(s, from),
         NEW then \in PCs, NEW t \in Task, NEW t0 \in Task, NEW done,
         Remove(p, s, from, then, t), Iterates(t, t0, t0.todo \ done, t0.candidates)
  PROVE  \E u \in Task : Empties(p, u, t0, done, s, from, then)
  <1> DEFINE x == disk[s][from]
             u == [t EXCEPT !.pc = "remove", !.session = s, !.from = from, !.then = then]
  <1>1. TypeOK /\ x \in Entry
    BY PresentEntry DEF SInv
  <1>2. /\ u \in Task /\ u.pc = "remove" /\ u.session = s /\ u.from = from
        /\ u.then = then /\ u.todo = t0.todo \ done /\ u.candidates = t0.candidates
        /\ u.manifest = t0.manifest /\ u.now = t0.now
    BY DEF Task, PCs, Iterates
  <1>3. Goto(p, u) /\ \E e \in {[x EXCEPT !.manifest = NoManifest], [x EXCEPT !.video = "broken"]} :
                         Store(s, from, e)
    BY DEF Remove
  <1> HIDE DEF u, x
  <1>4. PICK e \in Entry : /\ Store(s, from, e) /\ ~Good(e) /\ e # Absent
                           /\ e.manifest \in {NoManifest, x.manifest}
    <2> DEFINE noManifest == [x EXCEPT !.manifest = NoManifest]
               noVideo == [x EXCEPT !.video = "broken"]
    <2>1. noManifest \in Entry /\ noManifest.manifest = NoManifest /\ noManifest # Absent
      BY <1>1, ConstantsAssumption DEF Entry
    <2>2. /\ noVideo \in Entry /\ noVideo.manifest = x.manifest /\ noVideo.video = "broken"
          /\ noVideo # Absent
      BY <1>1, EntryUpdates, ConstantsAssumption
    <2>3. Store(s, from, noManifest) \/ Store(s, from, noVideo)
      BY <1>3
    <2> HIDE DEF noManifest, noVideo
    <2>4. ~Good(noManifest) /\ ~Good(noVideo)
      BY <2>1, <2>2 DEF Good, GoodWith, Complete
    <2> QED BY <2>1, <2>2, <2>3, <2>4
  <1>5. Goes(p, u) /\ Puts(s, from, e)
    BY <1>1, <1>2, <1>3, <1>4, GotoGoes, StorePuts
  <1> QED BY <1>2, <1>4, <1>5 DEF x, Empties

\* What recovery finds in a directory once the markers are removed.
LEMMA CleanedGood ==
  ASSUME SInv, NEW s \in Sessions, NEW d \in {"capturing", "ready", "claimed"}, Present(s, d)
  PROVE  LET e == Cleaned(disk[s][d]) IN
         /\ e \in Entry /\ Touches(e, disk[s][d]) /\ ~e.temp
         /\ e.manifest \in Manifest \cup {NoManifest}
         /\ Good(e) <=> Verified(e)
         /\ Good(e) => \/ Says(e.manifest, "ready")
                       \/ d = "claimed" /\ (Says(e.manifest, "claimed") \/ fate[s] = "failed")
  <1> DEFINE x == disk[s][d]  e == Cleaned(x)
  <1>1. x \in Entry /\ x.manifest \in Manifest \cup {NoManifest}
    BY PresentEntry, Names DEF SInv
  <1>2. Good(x) => \/ Says(x.manifest, "ready")
                   \/ d = "claimed" /\ (Says(x.manifest, "claimed") \/ fate[s] = "failed")
    BY GoodIsPlaced
  <1> HIDE DEF x
  <1>3. Touches(e, x) /\ ~e.temp
    BY <1>1, EntryUpdates, ConstantsAssumption DEF Touches
  <1> HIDE DEF e
  <1>4. /\ e \in Entry /\ e.manifest \in Manifest \cup {NoManifest}
        /\ Good(e) <=> Verified(e)
        /\ Good(e) => \/ Says(e.manifest, "ready")
                      \/ d = "claimed" /\ (Says(e.manifest, "claimed") \/ fate[s] = "failed")
    BY <1>1, <1>2, <1>3 DEF Touches, Good, GoodWith, Complete, Verified, Readable
  <1> QED BY <1>3, <1>4 DEF e, x

-----------------------------------------------------------------------------
(* The shape of the recorder's actions.                                    *)

\* The recorder lists the captures of its own camera.
LEMMA StartRecorderShape ==
  ASSUME SInv, NEW c \in Cameras, StartRecorder(c)
  PROVE  /\ Stopped(c) /\ SameTime /\ UNCHANGED <<disk, fate>>
         /\ \E u \in Task, todo \in SUBSET Sessions :
              /\ Goes(c, u) /\ Starts(u, "recover", todo, clock)
              /\ \A s \in todo : Camera(s) = c /\ Present(s, "capturing")
  <1> DEFINE todo == {s \in InDir("capturing") : Camera(s) = c}
             u == [At("recover") EXCEPT !.now = clock, !.todo = todo]
  <1>1. c \in Actors /\ clock \in Times /\ todo \in SUBSET Sessions /\ TypeOK
    BY Names DEF SInv, TypeOK, InDir
  <1>2. Stopped(c) /\ SameTime /\ UNCHANGED <<disk, fate>> /\ Goto(c, u)
    BY RestUntouched DEF StartRecorder
  <1>3. \A s \in todo : Camera(s) = c /\ Present(s, "capturing")
    BY DEF InDir
  <1> HIDE DEF todo
  <1>4. u \in Task /\ Starts(u, "recover", todo, clock)
    BY <1>1, StartTask DEF PCs
  <1> HIDE DEF u
  <1> QED BY <1>1, <1>2, <1>3, <1>4, GotoGoes

\* Recovery publishes a capture whose publication was interrupted, and gives
\* up every other.
LEMMA RecoverCaptureShape ==
  ASSUME SInv, NEW c \in Cameras, RecoverCapture(c)
  PROVE  LET t == task[c] IN
         /\ t.pc = "recover" /\ SameTime /\ UNCHANGED fate
         /\ \E s \in t.todo \cap Sessions, e \in Entry, u \in Task :
              /\ Camera(s) = c /\ Present(s, "capturing")
              /\ Puts(s, "capturing", e) /\ Touches(e, disk[s]["capturing"]) /\ ~e.temp
              /\ \/ /\ Good(e) /\ Says(e.manifest, "ready") /\ Goes(c, u)
                    /\ u.pc = "move" /\ u.then = "recover" /\ u.session = s
                    /\ u.from = "capturing" /\ u.to = "ready"
                    /\ u.todo = t.todo \ {s} /\ u.now = t.now /\ u.manifest = t.manifest
                 \/ ~Good(e) /\ Fails(c, u, t, {s}, s, "capturing", e, "recover")
  <1>1. /\ task[c].pc = "recover" /\ SameTime /\ UNCHANGED fate
        /\ RecorderFits(c, task[c], disk) /\ task[c] \in Task /\ c \in Actors /\ TypeOK
    BY RestUntouched, RecorderTask DEF RecoverCapture, SInv
  <1> PICK s \in task[c].todo :
        LET e == Cleaned(disk[s]["capturing"])
            t == [task[c] EXCEPT !.todo = @ \ {s}] IN
        /\ Store(s, "capturing", e)
        /\ IF VerifiedIn(e, {"ready"})
           THEN Goto(c, [t EXCEPT !.pc = "move", !.then = "recover", !.session = s,
                                  !.from = "capturing", !.to = "ready"])
           ELSE Fail(c, s, "capturing", e, "recover", t)
    BY DEF RecoverCapture
  <1> DEFINE e == Cleaned(disk[s]["capturing"])
             t0 == task[c]
             t == [t0 EXCEPT !.todo = @ \ {s}]
             move == [t EXCEPT !.pc = "move", !.then = "recover", !.session = s,
                               !.from = "capturing", !.to = "ready"]
  <1>2. s \in Sessions /\ s \in t0.todo /\ Camera(s) = c /\ Present(s, "capturing")
    BY <1>1 DEF RecorderFits, Loop, EffectPCs, Waits, Task, Present
  <1>3. /\ e \in Entry /\ Touches(e, disk[s]["capturing"]) /\ ~e.temp
        /\ e.manifest \in Manifest \cup {NoManifest}
        /\ Good(e) <=> Verified(e)
        /\ Good(e) => Says(e.manifest, "ready")
    BY <1>2, CleanedGood
  <1>4. t \in Task /\ Iterates(t, t0, t0.todo \ {s}, t0.candidates)
    <2> HIDE DEF t0
    <2> QED BY <1>1 DEF Task, Iterates, t0
  <1> HIDE DEF e
  <1>5. Puts(s, "capturing", e)
    BY <1>1, <1>2, <1>3, StorePuts, Names DEF e
  <1>6. Good(e) <=> VerifiedIn(e, {"ready"})
    BY <1>3 DEF VerifiedIn, Says
  <1>7. CASE Good(e)
    <2>1. move \in Task /\ move.pc = "move" /\ move.then = "recover" /\ move.session = s
          /\ move.from = "capturing" /\ move.to = "ready" /\ move.todo = t0.todo \ {s}
          /\ move.now = t0.now /\ move.manifest = t0.manifest
      <3> HIDE DEF t, t0
      <3> QED BY <1>2, <1>4, Names DEF Task, PCs, Iterates
    <2>2. Goto(c, move)
      BY <1>6, <1>7 DEF e
    <2> HIDE DEF move, t
    <2>3. Goes(c, move)
      BY <1>1, <2>1, <2>2, GotoGoes
    <2> QED BY <1>1, <1>2, <1>3, <1>5, <1>7, <2>1, <2>3
  <1>8. CASE ~Good(e)
    <2>1. Fail(c, s, "capturing", e, "recover", t) /\ "recover" \in PCs
      BY <1>6, <1>8 DEF e, PCs
    <2> HIDE DEF t, t0
    <2>2. t0 \in Task
      BY <1>1 DEF t0
    <2>3. \E u \in Task : Fails(c, u, t0, {s}, s, "capturing", e, "recover")
      BY <1>1, <1>2, <1>3, <1>4, <2>1, <2>2, FailGoes, Names
    <2> QED BY <1>1, <1>2, <1>3, <1>5, <1>8, <2>3 DEF t0
  <1> QED BY <1>7, <1>8

\* A capture begins with an empty directory and an unfinished manifest to write.
LEMMA BeginCaptureShape ==
  ASSUME SInv, NEW c \in Cameras, BeginCapture(c)
  PROVE  LET s == <<c, clock>> IN
         /\ task[c].pc = "idle" /\ s \in Sessions /\ Camera(s) = c /\ StartedAt(s) = clock
         /\ RestType
         /\ \/ Present(s, "capturing") /\ clock' = clock /\ Errs(c)
            \/ /\ ~Present(s, "capturing") /\ clock' = clock + 1
               /\ \/ fate[s] # "none" /\ UNCHANGED fate
                  \/ fate[s] = "none" /\ Decides(s, "begun")
               /\ \E e \in Entry, m \in Manifest, u \in Task :
                    /\ Puts(s, "capturing", e)
                    /\ e # Absent /\ e.manifest = NoManifest /\ ~e.temp
                    /\ m # NoManifest /\ ~m.finished
                    /\ m.sound /\ m.state = "capturing" /\ m.at = clock
                    /\ Goes(c, u) /\ u.now = 0
                    /\ Writes(u, At("idle"), {}, s, "capturing", "capturing", m, "capturing")
  <1> DEFINE s == <<c, clock>>
             e == [manifest |-> NoManifest, video |-> "broken", temp |-> FALSE, lock |-> FALSE]
             m == [state |-> "capturing", at |-> clock, sound |-> TRUE, finished |-> FALSE]
  <1>1. /\ task[c].pc = "idle" /\ clock < MaxTime /\ c \in Actors
        /\ TypeOK /\ clock \in Times /\ stops' = stops /\ stops \in Nat
    BY Names DEF BeginCapture, SInv, TypeOK
  <1>2. s \in Sessions /\ Camera(s) = c /\ StartedAt(s) = clock
    BY <1>1, SessionParts
  <1>3. CASE Present(s, "capturing")
    <2>1. Exit(c) /\ UNCHANGED <<disk, clock, fate>>
      BY <1>3 DEF BeginCapture
    <2> QED BY <1>1, <1>2, <1>3, <2>1, ErrorShape DEF RestType
  <1>4. CASE ~Present(s, "capturing")
    <2>1. /\ Store(s, "capturing", e) /\ clock' = clock + 1
          /\ WriteThenMove(c, s, "capturing", "capturing", m, "capturing", At("idle"))
          /\ fate' = IF fate[s] = "none" THEN [fate EXCEPT ![s] = "begun"] ELSE fate
      BY <1>4 DEF BeginCapture
    <2>2. e \in Entry /\ e # Absent /\ e.manifest = NoManifest /\ ~e.temp
      <3>1. e \in Entry
        BY DEF Entry
      <3> QED BY <3>1, ConstantsAssumption
    <2>3. m \in Manifest /\ m # NoManifest /\ ~m.finished /\ m.sound
          /\ m.state = "capturing" /\ m.at = clock
      <3>1. m \in Manifest
        BY <1>1, Names DEF Manifest
      <3> QED BY <3>1, ConstantsAssumption
    <2> DEFINE i == At("idle")
    <2>4. i \in Task /\ i.now = 0 /\ "capturing" \in PCs /\ Iterates(i, i, i.todo \ {}, i.candidates)
      BY AtTask DEF PCs, Starts, Iterates
    <2>5. RestType
      BY <1>1, <2>1, ConstantsAssumption DEF RestType, Times
    <2> HIDE DEF s, e, m, i
    <2>6. PICK u \in Task :
            Goes(c, u) /\ Writes(u, i, {}, s, "capturing", "capturing", m, "capturing")
      BY <1>1, <1>2, <2>1, <2>3, <2>4, Names, WriteGoes DEF i
    <2>7. u.now = 0
      BY <2>4, <2>6 DEF Writes
    <2>8. Puts(s, "capturing", e)
      BY <1>1, <1>2, <2>1, <2>2, Names, StorePuts
    <2>9. \/ fate[s] # "none" /\ UNCHANGED fate
          \/ fate[s] = "none" /\ Decides(s, "begun")
      BY <1>1, <1>2, <2>1, FateDecides DEF Fates
    <2>10. \E e1 \in Entry, m1 \in Manifest, u1 \in Task :
             /\ Puts(s, "capturing", e1)
             /\ e1 # Absent /\ e1.manifest = NoManifest /\ ~e1.temp
             /\ m1 # NoManifest /\ ~m1.finished
             /\ m1.sound /\ m1.state = "capturing" /\ m1.at = clock
             /\ Goes(c, u1) /\ u1.now = 0
             /\ Writes(u1, i, {}, s, "capturing", "capturing", m1, "capturing")
      BY <2>2, <2>3, <2>6, <2>7, <2>8
    <2> QED BY <1>1, <1>2, <1>4, <2>1, <2>5, <2>9, <2>10 DEF s, i
  <1> QED BY <1>3, <1>4

\* The capture that a recorder has open.
LEMMA OpenCapture ==
  ASSUME SInv, NEW c \in Cameras, task[c].pc = "capturing"
  PROVE  LET s == task[c].session e == disk[s]["capturing"] IN
         /\ s \in Sessions /\ Camera(s) = c /\ Present(s, "capturing")
         /\ e \in Entry /\ e.manifest \in Manifest \cup {NoManifest} /\ ~Complete(e.manifest)
  BY RecorderTask, PresentEntry, Names DEF RecorderFits, Present, SInv

\* The video is complete; the manifest that says so is about to be written,
\* unless the capture is not what it was.
LEMMA FinalizeCaptureShape ==
  ASSUME SInv, NEW c \in Cameras, FinalizeCapture(c)
  PROVE  LET s == task[c].session IN
         /\ task[c].pc = "capturing" /\ SameTime /\ UNCHANGED fate
         /\ \E e \in Entry, u \in Task :
              /\ Puts(s, "capturing", e) /\ e # Absent
              /\ e.manifest = disk[s]["capturing"].manifest
              /\ e.temp = disk[s]["capturing"].temp
              /\ Goes(c, u)
              /\ \/ /\ u.pc = "error"
                    /\ \/ ~Readable(e) \/ ~Says(e.manifest, "capturing")
                       \/ clock < StartedAt(s) \/ Present(s, "ready")
                 \/ \E m \in Manifest :
                      /\ Complete(m) /\ Says(m, "ready") /\ m.at = clock
                      /\ u.now = 0
                      /\ Writes(u, At("idle"), {}, s, "capturing", "ready", m, "idle")
  <1> DEFINE s == task[c].session
             e == [disk[s]["capturing"] EXCEPT !.video = "intact"]
             m == [Advance(e.manifest, "ready", clock) EXCEPT !.finished = TRUE]
             Refused == \/ ~Readable(e) \/ e.manifest.state # "capturing"
                        \/ clock < StartedAt(s) \/ Present(s, "ready")
  <1>1. /\ task[c].pc = "capturing" /\ SameTime /\ UNCHANGED fate
        /\ c \in Actors /\ TypeOK /\ clock \in Times
        /\ Store(s, "capturing", e)
        /\ \/ Exit(c) /\ Refused
           \/ Readable(e) /\ WriteThenMove(c, s, "capturing", "ready", m, "idle", At("idle"))
    BY RestUntouched, Names DEF FinalizeCapture, SInv, TypeOK
  <1>2. /\ s \in Sessions /\ disk[s]["capturing"] \in Entry
        /\ disk[s]["capturing"].manifest \in Manifest \cup {NoManifest}
    BY <1>1, OpenCapture
  <1>3. /\ e \in Entry /\ e # Absent /\ e.manifest \in Manifest \cup {NoManifest}
        /\ e.manifest = disk[s]["capturing"].manifest
        /\ e.temp = disk[s]["capturing"].temp
    BY <1>2, EntryUpdates, ConstantsAssumption
  <1>4. Readable(e) => m \in Manifest /\ Complete(m) /\ Says(m, "ready") /\ m.at = clock
    <2> HIDE DEF e
    <2> DEFINE a == Advance(e.manifest, "ready", clock)
    <2>1. Readable(e) => a \in Manifest /\ a.state = "ready" /\ a.at = clock
      BY <1>1, <1>3, AdvanceManifest, Names DEF Readable
    <2> HIDE DEF a
    <2>2. Readable(e) => m \in Manifest /\ m.finished /\ m.state = "ready" /\ m.at = clock
      BY <2>1 DEF Manifest, a
    <2> QED BY <2>2, ConstantsAssumption DEF Complete, Says
  <1>5. Refused => \/ ~Readable(e) \/ ~Says(e.manifest, "capturing")
                   \/ clock < StartedAt(s) \/ Present(s, "ready")
    BY DEF Says
  <1> HIDE DEF e, m, s, Refused
  <1>6. Puts(s, "capturing", e)
    BY <1>1, <1>2, <1>3, StorePuts, Names
  <1>7. CASE Exit(c) /\ Refused
    <2>1. PICK u \in Task : Goes(c, u) /\ u.pc = "error"
      BY <1>1, <1>7, ExitGoes DEF Starts
    <2> QED BY <1>1, <1>3, <1>5, <1>6, <1>7, <2>1 DEF s
  <1>8. CASE Readable(e) /\ WriteThenMove(c, s, "capturing", "ready", m, "idle", At("idle"))
    <2> DEFINE i == At("idle")
    <2>1. i \in Task /\ i.now = 0 /\ "idle" \in PCs /\ Iterates(i, i, i.todo \ {}, i.candidates)
      BY AtTask DEF PCs, Starts, Iterates
    <2> HIDE DEF i
    <2>2. PICK u \in Task : Goes(c, u) /\ Writes(u, i, {}, s, "capturing", "ready", m, "idle")
      BY <1>1, <1>2, <1>4, <1>8, <2>1, Names, WriteGoes DEF i
    <2>3. u.now = 0
      BY <2>1, <2>2 DEF Writes
    <2> QED BY <1>1, <1>3, <1>4, <1>6, <1>8, <2>2, <2>3 DEF s, i
  <1> QED BY <1>1, <1>7, <1>8

\* A capture over the frame limit is removed.
LEMMA DiscardCaptureShape ==
  ASSUME SInv, NEW c \in Cameras, DiscardCapture(c)
  PROVE  LET s == task[c].session IN
         /\ task[c].pc = "capturing" /\ SameTime /\ UNCHANGED fate
         /\ \E u \in Task : /\ Empties(c, u, At("idle"), {}, s, "capturing", "idle")
                            /\ u.now = 0 /\ u.manifest = NoManifest
  <1> DEFINE s == task[c].session  i == At("idle")
  <1>1. /\ task[c].pc = "capturing" /\ SameTime /\ UNCHANGED fate /\ c \in Actors
        /\ Remove(c, s, "capturing", "idle", i)
    BY RestUntouched, Names DEF DiscardCapture
  <1>2. s \in Sessions /\ Present(s, "capturing")
    BY <1>1, OpenCapture
  <1>3. /\ i \in Task /\ i.now = 0 /\ i.manifest = NoManifest /\ "idle" \in PCs
        /\ Iterates(i, i, i.todo \ {}, i.candidates)
    BY AtTask DEF PCs, Starts, Iterates
  <1> HIDE DEF s, i
  <1>4. PICK u \in Task : Empties(c, u, i, {}, s, "capturing", "idle")
    BY <1>1, <1>2, <1>3, Names, RemoveEmpties
  <1>5. u.now = 0 /\ u.manifest = NoManifest
    BY <1>3, <1>4 DEF Empties
  <1> QED BY <1>1, <1>4, <1>5 DEF s, i

\* The result of a session with fate f is durable.
Durable(f) == f \in {"prepared", "deleted"}

\* u is t at the start of the next loop of recovery.
Enters(u, t, pc, todo) ==
  /\ u.pc = pc /\ u.todo = todo
  /\ u.candidates = t.candidates /\ u.now = t.now /\ u.manifest = t.manifest

\* What every lemma about the processor starts from.
LEMMA ProcessorState ==
  ASSUME SInv
  PROVE  /\ TypeOK /\ Processor \in Actors /\ task[Processor] \in Task
         /\ ProcessorFits(task[Processor], disk, fate)
         /\ task[Processor].todo \in SUBSET Sessions
         /\ task[Processor].candidates \in SUBSET Sessions
         /\ clock \in Times /\ stops \in Nat
         /\ \A x \in Sessions : Tidy(x, disk[x], task[Processor])
  BY ProcessorTask DEF SInv, TypeOK, Task

\* The sessions found in a directory.
LEMMA Listed ==
  ASSUME NEW d \in Dirs
  PROVE  InDir(d) \in SUBSET Sessions /\ \A x \in Sessions : x \in InDir(d) <=> Present(x, d)
  BY DEF InDir

\* One session less to iterate over.
LEMMA OneLess ==
  ASSUME NEW t \in Task, NEW s
  PROVE  LET u == [t EXCEPT !.todo = @ \ {s}] IN
         u \in Task /\ Iterates(u, t, t.todo \ {s}, t.candidates)
  BY DEF Task, Iterates

-----------------------------------------------------------------------------
(* The shape of the processor's actions at startup.                        *)

\* The processor starts with the sessions whose result is durable.
LEMMA StartProcessorShape ==
  ASSUME SInv, StartProcessor
  PROVE  /\ Stopped(Processor) /\ SameTime /\ UNCHANGED <<disk, fate>>
         /\ \E u \in Task, todo \in SUBSET Sessions :
              /\ Goes(Processor, u) /\ Starts(u, "purge", todo, clock)
              /\ \A s \in todo : Durable(fate[s])
              /\ \A s \in Sessions : Durable(fate[s]) /\ Present(s, "claimed") => s \in todo
  <1>1. /\ Stopped(Processor) /\ SameTime /\ UNCHANGED <<disk, fate>>
        /\ TypeOK /\ clock \in Times /\ Processor \in Actors
    BY RestUntouched, ProcessorState DEF StartProcessor
  <1>2. PICK todo \in SUBSET Sessions :
          /\ Goto(Processor, [At("purge") EXCEPT !.now = clock, !.todo = todo])
          /\ \A s \in todo : Durable(fate[s])
          /\ \A s \in Sessions : Durable(fate[s]) /\ Present(s, "claimed") => s \in todo
    <2>1. PICK acknowledged \in SUBSET {s \in Sessions : fate[s] = "deleted" /\ ~Present(s, "claimed")} :
            Goto(Processor, [At("purge") EXCEPT !.now = clock,
              !.todo = {s \in Sessions : fate[s] \in {"prepared", "deleted"}} \ acknowledged])
      BY DEF StartProcessor
    <2> DEFINE todo == {s \in Sessions : fate[s] \in {"prepared", "deleted"}} \ acknowledged
    <2>2. todo \in SUBSET Sessions /\ \A s \in todo : Durable(fate[s])
      BY DEF Durable
    <2>3. \A s \in Sessions : Durable(fate[s]) /\ Present(s, "claimed") => s \in todo
      BY DEF Durable
    <2>4. Goto(Processor, [At("purge") EXCEPT !.now = clock, !.todo = todo])
      BY <2>1
    <2> HIDE DEF todo
    <2> QED BY <2>2, <2>3, <2>4
  <1> DEFINE u == [At("purge") EXCEPT !.now = clock, !.todo = todo]
  <1>3. u \in Task /\ Starts(u, "purge", todo, clock)
    BY <1>1, StartTask DEF PCs
  <1> HIDE DEF u
  <1>4. Goes(Processor, u)
    BY <1>1, <1>2, <1>3, GotoGoes DEF u
  <1> QED BY <1>1, <1>2, <1>3, <1>4

\* The deletion of a session whose result is durable begins, or ends.
LEMMA PurgePreparedShape ==
  ASSUME SInv, PurgePrepared
  PROVE  LET p == Processor t == task[Processor] IN
         /\ t.pc = "purge" /\ SameTime
         /\ \E s \in t.todo \cap Sessions :
              \/ (\E d \in {"capturing", "ready", "failed"} : Present(s, d)) /\ Errs(p)
              \/ /\ Decides(s, "deleted")
                 /\ \E u \in Task :
                      \/ Present(s, "claimed") /\ Empties(p, u, t, {s}, s, "claimed", "purge")
                      \/ /\ ~Present(s, "claimed") /\ UNCHANGED disk
                         /\ Goes(p, u) /\ Iterates(u, t, t.todo \ {s}, t.candidates)
  <1> DEFINE p == Processor
  <1>1. /\ task[p].pc = "purge" /\ SameTime /\ TypeOK /\ task[p] \in Task /\ p \in Actors
        /\ task[p].todo \in SUBSET Sessions
    BY RestUntouched, ProcessorState DEF PurgePrepared
  <1> PICK s \in task[p].todo :
        LET t == [task[p] EXCEPT !.todo = @ \ {s}] IN
        IF \E d \in {"capturing", "ready", "failed"} : Present(s, d)
        THEN Exit(p) /\ UNCHANGED <<disk, fate>>
        ELSE /\ fate' = [fate EXCEPT ![s] = "deleted"]
             /\ IF Present(s, "claimed") THEN Remove(p, s, "claimed", "purge", t)
                ELSE Goto(p, t) /\ UNCHANGED disk
    BY DEF PurgePrepared
  <1> DEFINE t == [task[p] EXCEPT !.todo = @ \ {s}]
             Elsewhere == \E d \in {"capturing", "ready", "failed"} : Present(s, d)
  <1>2. t \in Task /\ Iterates(t, task[p], task[p].todo \ {s}, task[p].candidates) /\ s \in Sessions
    BY <1>1, OneLess
  <1>3. CASE Elsewhere
    BY <1>1, <1>2, <1>3, ErrorShape
  <1>4. CASE ~Elsewhere /\ Present(s, "claimed")
    <2>1. fate' = [fate EXCEPT ![s] = "deleted"] /\ Remove(p, s, "claimed", "purge", t)
      BY <1>4
    <2> HIDE DEF t
    <2>2. Decides(s, "deleted") /\ "purge" \in PCs
      BY <1>1, <1>2, <2>1, FateDecides DEF Fates, PCs
    <2>3. \E u \in Task : Empties(p, u, task[p], {s}, s, "claimed", "purge")
      BY <1>1, <1>2, <1>4, <2>1, <2>2, Names, RemoveEmpties
    <2> QED BY <1>1, <1>2, <1>4, <2>2, <2>3
  <1>5. CASE ~Elsewhere /\ ~Present(s, "claimed")
    <2>1. fate' = [fate EXCEPT ![s] = "deleted"] /\ Goto(p, t) /\ UNCHANGED disk
      BY <1>5
    <2> HIDE DEF t
    <2>2. Decides(s, "deleted") /\ Goes(p, t)
      BY <1>1, <1>2, <2>1, FateDecides, GotoGoes DEF Fates
    <2> QED BY <1>1, <1>2, <1>5, <2>1, <2>2
  <1> QED BY <1>3, <1>4, <1>5

\* Once every prepared result is reconciled, recover_processing lists ready.
LEMMA FinishPurgeShape ==
  ASSUME SInv, FinishPurge
  PROVE  LET t == task[Processor] IN
         /\ t.pc = "purge" /\ t.todo = {} /\ SameTime /\ UNCHANGED <<disk, fate>>
         /\ \E u \in Task, todo \in SUBSET Sessions :
              /\ Goes(Processor, u) /\ Enters(u, t, "recoverReady", todo)
              /\ \A x \in Sessions : x \in todo <=> Present(x, "ready")
  <1> DEFINE todo == InDir("ready")
             t == task[Processor]
             u == [t EXCEPT !.pc = "recoverReady", !.todo = todo]
  <1>1. /\ t.pc = "purge" /\ t.todo = {} /\ SameTime /\ UNCHANGED <<disk, fate>>
        /\ TypeOK /\ Processor \in Actors /\ t \in Task /\ Goto(Processor, u)
    BY RestUntouched, ProcessorState DEF FinishPurge
  <1>2. todo \in SUBSET Sessions /\ \A x \in Sessions : x \in todo <=> Present(x, "ready")
    BY Listed, Names
  <1> HIDE DEF todo, t
  <1>3. u \in Task /\ Enters(u, t, "recoverReady", todo)
    BY <1>1, <1>2 DEF Task, PCs, Enters
  <1> HIDE DEF u
  <1>4. Goes(Processor, u)
    BY <1>1, <1>3, GotoGoes
  <1> QED BY <1>1, <1>2, <1>3, <1>4 DEF t

\* Recovery of ready keeps what verifies and gives up the rest.
LEMMA RecoverReadyShape ==
  ASSUME SInv, RecoverReady
  PROVE  LET p == Processor t == task[Processor] IN
         /\ t.pc = "recoverReady" /\ SameTime /\ UNCHANGED fate
         /\ \E s \in t.todo \cap Sessions, e \in Entry, u \in Task :
              /\ Present(s, "ready")
              /\ Puts(s, "ready", e) /\ Touches(e, disk[s]["ready"]) /\ ~e.temp
              /\ \/ /\ Good(e) /\ Says(e.manifest, "ready")
                    /\ Goes(p, u) /\ Iterates(u, t, t.todo \ {s}, t.candidates)
                 \/ ~Good(e) /\ Fails(p, u, t, {s}, s, "ready", e, "recoverReady")
  <1> DEFINE p == Processor
  <1>1. /\ task[p].pc = "recoverReady" /\ SameTime /\ TypeOK /\ task[p] \in Task /\ p \in Actors
        /\ task[p].todo \in SUBSET Sessions /\ UNCHANGED fate
        /\ \A x \in task[p].todo : disk[x]["ready"] # Absent
    BY RestUntouched, ProcessorState DEF RecoverReady, ProcessorFits, Loop, EffectPCs, Waits
  <1> PICK s \in task[p].todo :
        LET e == Cleaned(disk[s]["ready"])
            t == [task[p] EXCEPT !.todo = @ \ {s}] IN
        /\ Store(s, "ready", e)
        /\ IF VerifiedIn(e, {"ready"}) THEN Goto(p, t)
           ELSE Fail(p, s, "ready", e, "recoverReady", t)
    BY DEF RecoverReady
  <1> DEFINE e == Cleaned(disk[s]["ready"])
             t == [task[p] EXCEPT !.todo = @ \ {s}]
  <1>2. t \in Task /\ Iterates(t, task[p], task[p].todo \ {s}, task[p].candidates) /\ s \in Sessions
        /\ Present(s, "ready")
    BY <1>1, OneLess DEF Present
  <1>3. /\ e \in Entry /\ Touches(e, disk[s]["ready"]) /\ ~e.temp
        /\ Good(e) <=> Verified(e)
        /\ Good(e) => Says(e.manifest, "ready")
    BY <1>2, CleanedGood
  <1> HIDE DEF e, t
  <1>4. Puts(s, "ready", e)
    BY <1>1, <1>2, <1>3, StorePuts, Names DEF e
  <1>5. Good(e) <=> VerifiedIn(e, {"ready"})
    BY <1>3 DEF VerifiedIn, Says
  <1>6. CASE Good(e)
    <2>1. Goes(p, t)
      BY <1>1, <1>2, <1>5, <1>6, GotoGoes DEF e, t
    <2> QED BY <1>1, <1>2, <1>3, <1>4, <1>6, <2>1
  <1>7. CASE ~Good(e)
    <2>1. Fail(p, s, "ready", e, "recoverReady", t) /\ "recoverReady" \in PCs
      BY <1>5, <1>7 DEF e, t, PCs
    <2>2. \E u \in Task : Fails(p, u, task[p], {s}, s, "ready", e, "recoverReady")
      BY <1>1, <1>2, <1>3, <2>1, FailGoes, Names
    <2> QED BY <1>1, <1>2, <1>3, <1>4, <1>7, <2>2
  <1> QED BY <1>6, <1>7

\* Once ready is recovered, recover_processing lists claimed.
LEMMA FinishRecoverReadyShape ==
  ASSUME SInv, FinishRecoverReady
  PROVE  LET t == task[Processor] IN
         /\ t.pc = "recoverReady" /\ t.todo = {} /\ SameTime /\ UNCHANGED <<disk, fate>>
         /\ \E u \in Task, todo \in SUBSET Sessions :
              /\ Goes(Processor, u) /\ Enters(u, t, "recoverClaimed", todo)
              /\ \A x \in todo : Present(x, "claimed")
  <1> DEFINE todo == InDir("claimed")
             t == task[Processor]
             u == [t EXCEPT !.pc = "recoverClaimed", !.todo = todo]
  <1>1. /\ t.pc = "recoverReady" /\ t.todo = {} /\ SameTime /\ UNCHANGED <<disk, fate>>
        /\ TypeOK /\ Processor \in Actors /\ t \in Task /\ Goto(Processor, u)
    BY RestUntouched, ProcessorState DEF FinishRecoverReady
  <1>2. todo \in SUBSET Sessions /\ \A x \in todo : Present(x, "claimed")
    BY Listed, Names
  <1> HIDE DEF todo, t
  <1>3. u \in Task /\ Enters(u, t, "recoverClaimed", todo)
    BY <1>1, <1>2 DEF Task, PCs, Enters
  <1> HIDE DEF u
  <1>4. Goes(Processor, u)
    BY <1>1, <1>3, GotoGoes
  <1> QED BY <1>1, <1>2, <1>3, <1>4 DEF t

\* Recovery of claimed returns what verifies and gives up the rest.
LEMMA RecoverClaimedShape ==
  ASSUME SInv, RecoverClaimed
  PROVE  LET p == Processor t == task[Processor] IN
         /\ t.pc = "recoverClaimed" /\ SameTime /\ UNCHANGED fate
         /\ \E s \in t.todo \cap Sessions, e \in Entry, u \in Task :
              /\ Present(s, "claimed")
              /\ Puts(s, "claimed", e) /\ Touches(e, disk[s]["claimed"]) /\ ~e.temp
              /\ Good(e) => Says(e.manifest, "ready") \/ Says(e.manifest, "claimed")
                            \/ fate[s] = "failed"
              /\ \/ \E m \in Manifest :
                      /\ Complete(m) /\ Says(m, "ready") /\ m.at = t.now
                      /\ Goes(p, u)
                      /\ Writes(u, t, {s}, s, "claimed", "ready", m, "recoverClaimed")
                 \/ /\ Good(e) => fate[s] = "failed"
                    /\ Fails(p, u, t, {s}, s, "claimed", e, "recoverClaimed")
  <1> DEFINE p == Processor
  <1>1. /\ task[p].pc = "recoverClaimed" /\ SameTime /\ TypeOK /\ task[p] \in Task /\ p \in Actors
        /\ task[p].todo \in SUBSET Sessions /\ UNCHANGED fate
        /\ \A x \in task[p].todo : disk[x]["claimed"] # Absent
    BY RestUntouched, ProcessorState DEF RecoverClaimed, ProcessorFits, Loop, EffectPCs, Waits
  <1> PICK s \in task[p].todo :
        LET e == Cleaned(disk[s]["claimed"])
            t == [task[p] EXCEPT !.todo = @ \ {s}] IN
        /\ Store(s, "claimed", e)
        /\ IF VerifiedIn(e, {"ready", "claimed"})
           THEN WriteThenMove(p, s, "claimed", "ready",
                              Advance(e.manifest, "ready", t.now), "recoverClaimed", t)
           ELSE Fail(p, s, "claimed", e, "recoverClaimed", t)
    BY DEF RecoverClaimed
  <1> DEFINE e == Cleaned(disk[s]["claimed"])
             t == [task[p] EXCEPT !.todo = @ \ {s}]
             m == Advance(e.manifest, "ready", t.now)
  <1>2. t \in Task /\ Iterates(t, task[p], task[p].todo \ {s}, task[p].candidates) /\ s \in Sessions
        /\ Present(s, "claimed") /\ "recoverClaimed" \in PCs
    BY <1>1, OneLess DEF Present, PCs
  <1>3. /\ e \in Entry /\ Touches(e, disk[s]["claimed"]) /\ ~e.temp
        /\ e.manifest \in Manifest \cup {NoManifest}
        /\ Good(e) <=> Verified(e)
        /\ Good(e) => Says(e.manifest, "ready") \/ Says(e.manifest, "claimed") \/ fate[s] = "failed"
    BY <1>2, CleanedGood
  <1> HIDE DEF e, t
  <1>4. Puts(s, "claimed", e)
    BY <1>1, <1>2, <1>3, StorePuts, Names DEF e
  <1>5. CASE VerifiedIn(e, {"ready", "claimed"})
    <2>1. WriteThenMove(p, s, "claimed", "ready", m, "recoverClaimed", t)
      BY <1>5 DEF e, t
    <2>2. e.manifest \in Manifest /\ e.manifest.finished /\ t.now \in Times /\ t.now = task[p].now
      BY <1>2, <1>3, <1>5 DEF VerifiedIn, Verified, Readable, Task, Iterates
    <2>3. m \in Manifest /\ Complete(m) /\ Says(m, "ready") /\ m.at = task[p].now
      BY <2>2, AdvanceManifest, Names DEF Complete, Says
    <2> HIDE DEF m
    <2>4. \E u \in Task :
            Goes(p, u) /\ Writes(u, task[p], {s}, s, "claimed", "ready", m, "recoverClaimed")
      BY <1>1, <1>2, <2>1, <2>3, WriteGoes, Names
    <2> QED BY <1>1, <1>2, <1>3, <1>4, <2>3, <2>4
  <1>6. CASE ~VerifiedIn(e, {"ready", "claimed"})
    <2>1. Fail(p, s, "claimed", e, "recoverClaimed", t)
      BY <1>6 DEF e, t
    <2>2. Good(e) => fate[s] = "failed"
      BY <1>3, <1>6 DEF VerifiedIn, Says
    <2>3. \E u \in Task : Fails(p, u, task[p], {s}, s, "claimed", e, "recoverClaimed")
      BY <1>1, <1>2, <1>3, <2>1, FailGoes, Names
    <2> QED BY <1>1, <1>2, <1>3, <1>4, <2>2, <2>3
  <1> QED BY <1>5, <1>6

-----------------------------------------------------------------------------
(* The shape of the processor's actions in claim_next_ready.               *)

\* A scan starts with what is in ready.
LEMMA StartClaimShape ==
  ASSUME SInv, StartClaim
  PROVE  /\ task[Processor].pc = "idle" /\ SameTime /\ UNCHANGED <<disk, fate>>
         /\ \E u \in Task, todo \in SUBSET Sessions :
              /\ Goes(Processor, u) /\ Starts(u, "scan", todo, clock)
              /\ \A x \in todo : Present(x, "ready")
  <1> DEFINE todo == InDir("ready")
             u == [At("scan") EXCEPT !.now = clock, !.todo = todo]
  <1>1. /\ task[Processor].pc = "idle" /\ SameTime /\ UNCHANGED <<disk, fate>>
        /\ TypeOK /\ Processor \in Actors /\ clock \in Times /\ Goto(Processor, u)
    BY RestUntouched, ProcessorState DEF StartClaim
  <1>2. todo \in SUBSET Sessions /\ \A x \in todo : Present(x, "ready")
    BY Listed, Names
  <1> HIDE DEF todo
  <1>3. u \in Task /\ Starts(u, "scan", todo, clock)
    BY <1>1, <1>2, StartTask DEF PCs
  <1> HIDE DEF u
  <1>4. Goes(Processor, u)
    BY <1>1, <1>3, GotoGoes
  <1> QED BY <1>1, <1>2, <1>3, <1>4

\* The sessions a scan refers to.
LEMMA Scanning ==
  ASSUME SInv, task[Processor].pc = "scan"
  PROVE  LET t == task[Processor] IN
         /\ \A x \in t.todo \cup t.candidates : x \in Sessions /\ disk[x]["ready"] # Absent
         /\ t.todo \cap t.candidates = {}
         /\ \A x \in t.candidates : Complete(disk[x]["ready"].manifest)
         /\ \A x \in Sessions : disk[x]["ready"] # Absent => ~disk[x]["ready"].temp
         /\ \A x : ~Excused(x, t)
  BY ProcessorState DEF ProcessorFits, Loop, EffectPCs, Waits, Tidy, Excused

\* The scan collects what verifies and gives up the rest.
LEMMA ScanReadyShape ==
  ASSUME SInv, ScanReady
  PROVE  LET p == Processor t == task[Processor] IN
         /\ t.pc = "scan" /\ SameTime /\ UNCHANGED <<disk, fate>>
         /\ \E s \in t.todo \cap Sessions, u \in Task :
              LET e == disk[s]["ready"] IN
              /\ Present(s, "ready") /\ ~e.temp
              /\ \/ /\ VerifiedIn(e, {"ready"}) /\ Goes(p, u)
                    /\ Iterates(u, t, t.todo \ {s}, t.candidates \cup {s})
                 \/ ~Good(e) /\ Fails(p, u, t, {s}, s, "ready", e, "scan")
  <1> DEFINE p == Processor
  <1>1. /\ task[p].pc = "scan" /\ SameTime /\ TypeOK /\ task[p] \in Task /\ p \in Actors
        /\ task[p].todo \in SUBSET Sessions /\ task[p].candidates \in SUBSET Sessions
        /\ UNCHANGED <<disk, fate>>
    BY RestUntouched, ProcessorState DEF ScanReady
  <1> PICK s \in task[p].todo :
        LET e == disk[s]["ready"]
            t == [task[p] EXCEPT !.todo = @ \ {s}] IN
        IF VerifiedIn(e, {"ready"})
        THEN Goto(p, [t EXCEPT !.candidates = @ \cup {s}])
        ELSE Fail(p, s, "ready", e, "scan", t)
    BY DEF ScanReady
  <1> DEFINE e == disk[s]["ready"]
             t == [task[p] EXCEPT !.todo = @ \ {s}]
             found == [t EXCEPT !.candidates = @ \cup {s}]
  <1>2. t \in Task /\ Iterates(t, task[p], task[p].todo \ {s}, task[p].candidates)
        /\ s \in Sessions /\ Present(s, "ready") /\ ~e.temp
    BY <1>1, OneLess, Scanning DEF Present
  <1>3. /\ e \in Entry
        /\ Good(e) => VerifiedIn(e, {"ready"})
    <2>1. e \in Entry
      BY <1>1, <1>2, PresentEntry, Names
    <2>2. Good(e) => Says(e.manifest, "ready")
      BY <1>2, GoodIsPlaced
    <2> HIDE DEF e
    <2> QED BY <1>2, <2>1, <2>2
            DEF Good, GoodWith, Complete, VerifiedIn, Verified, Readable, Says
  <1>4. CASE VerifiedIn(e, {"ready"})
    <2>1. Goto(p, found)
      BY <1>4
    <2> HIDE DEF t
    <2>2. found \in Task /\ Iterates(found, task[p], task[p].todo \ {s}, task[p].candidates \cup {s})
      BY <1>1, <1>2 DEF Task, Iterates
    <2> HIDE DEF found
    <2>3. Goes(p, found)
      BY <1>1, <2>1, <2>2, GotoGoes
    <2> QED BY <1>1, <1>2, <1>4, <2>2, <2>3
  <1>5. CASE ~VerifiedIn(e, {"ready"})
    <2>1. Fail(p, s, "ready", e, "scan", t) /\ "scan" \in PCs /\ ~Good(e)
      BY <1>3, <1>5 DEF PCs
    <2> HIDE DEF t, e
    <2>2. \E u \in Task : Fails(p, u, task[p], {s}, s, "ready", e, "scan")
      BY <1>1, <1>2, <1>3, <2>1, FailGoes, Names
    <2> QED BY <1>1, <1>2, <2>1, <2>2 DEF e
  <1> QED BY <1>4, <1>5

\* One candidate is locked, or skipped because it already is.
LEMMA LockCandidateShape ==
  ASSUME SInv, LockCandidate
  PROVE  LET p == Processor t == task[Processor] IN
         /\ t.pc = "scan" /\ SameTime /\ UNCHANGED fate
         /\ \/ /\ UNCHANGED disk
               /\ \E u \in Task : Goes(p, u) /\ Starts(u, "idle", {}, 0)
            \/ \E s \in t.candidates \cap Sessions, u \in Task :
                 LET e == disk[s]["ready"] IN
                 /\ Present(s, "ready") /\ Complete(e.manifest) /\ ~e.temp /\ Goes(p, u)
                 /\ \/ UNCHANGED disk /\ Iterates(u, t, t.todo, t.candidates \ {s})
                    \/ /\ u.pc = "claimMove" /\ u.session = s /\ u.now = t.now
                       /\ u.manifest = NoManifest
                       /\ \E x \in Entry :
                            Puts(s, "ready", x) /\ Touches(x, e) /\ ~x.temp
  <1> DEFINE p == Processor
  <1>1. /\ task[p].pc = "scan" /\ SameTime /\ TypeOK /\ task[p] \in Task /\ p \in Actors
        /\ task[p].candidates \in SUBSET Sessions /\ task[p].now \in Times /\ UNCHANGED fate
    BY RestUntouched, ProcessorState DEF LockCandidate, Task
  <1>2. CASE Goto(p, At("idle")) /\ UNCHANGED disk
    BY <1>1, <1>2, AtTask, GotoGoes DEF PCs, Starts
  <1>3. CASE ~(Goto(p, At("idle")) /\ UNCHANGED disk)
    <2> PICK s \in task[p].candidates :
          LET e == disk[s]["ready"] IN
          IF e.lock
          THEN Goto(p, [task[p] EXCEPT !.candidates = @ \ {s}]) /\ UNCHANGED disk
          ELSE /\ Store(s, "ready", [e EXCEPT !.lock = TRUE])
               /\ Goto(p, [At("claimMove") EXCEPT !.session = s, !.now = task[p].now])
      BY <1>3 DEF LockCandidate, Oldest
    <2> DEFINE e == disk[s]["ready"]
               x == [e EXCEPT !.lock = TRUE]
               skip == [task[p] EXCEPT !.candidates = @ \ {s}]
               claim == [At("claimMove") EXCEPT !.session = s, !.now = task[p].now]
    <2>1. s \in Sessions /\ Present(s, "ready") /\ Complete(e.manifest) /\ ~e.temp
      BY <1>1, Scanning DEF Present
    <2>2. CASE Goto(p, skip) /\ UNCHANGED disk
      <3>1. skip \in Task /\ Iterates(skip, task[p], task[p].todo, task[p].candidates \ {s})
        BY <1>1 DEF Task, Iterates
      <3> HIDE DEF skip
      <3>2. Goes(p, skip)
        BY <1>1, <2>2, <3>1, GotoGoes
      <3> QED BY <1>1, <2>1, <2>2, <3>1, <3>2
    <2>3. CASE Store(s, "ready", x) /\ Goto(p, claim)
      <3>1. claim \in Task /\ claim.pc = "claimMove" /\ claim.session = s
            /\ claim.now = task[p].now /\ claim.manifest = NoManifest
        <4> DEFINE b == At("claimMove")
        <4>1. b \in Task /\ b.pc = "claimMove" /\ b.manifest = NoManifest
          BY AtTask DEF PCs, Starts
        <4> HIDE DEF b
        <4>2. LET c == [b EXCEPT !.session = s, !.now = task[p].now] IN
              c \in Task /\ c.pc = b.pc /\ c.session = s /\ c.now = task[p].now
              /\ c.manifest = b.manifest
          BY <1>1, <2>1, <4>1 DEF Task
        <4> QED BY <4>1, <4>2 DEF b
      <3> HIDE DEF claim
      <3>2. e \in Entry
        BY <1>1, <2>1, PresentEntry, Names
      <3>3. x \in Entry /\ Touches(x, e) /\ ~x.temp
        <4>1. ~e.temp
          BY <2>1
        <4> HIDE DEF e
        <4> QED BY <3>2, <4>1, EntryUpdates, ConstantsAssumption DEF Touches
      <3> HIDE DEF x
      <3>4. Goes(p, claim) /\ Puts(s, "ready", x)
        BY <1>1, <2>1, <2>3, <3>1, <3>3, GotoGoes, StorePuts, Names
      <3> QED BY <1>1, <2>1, <3>1, <3>3, <3>4
    <2> QED BY <2>2, <2>3
  <1> QED BY <1>2, <1>3

\* The directory moves before its manifest says so.
LEMMA MoveClaimShape ==
  ASSUME SInv, MoveClaim
  PROVE  LET p == Processor t == task[Processor] s == t.session e == disk[s]["ready"] IN
         /\ t.pc = "claimMove" /\ SameTime /\ UNCHANGED fate
         /\ s \in Sessions /\ Present(s, "ready") /\ Complete(e.manifest) /\ ~e.temp
         /\ Good(e) => Says(e.manifest, "ready")
         /\ \A y : ~Excused(y, t)
         /\ \E u \in Task :
              /\ Goes(p, u)
              /\ \/ /\ Present(s, "claimed") /\ u.pc = "error"
                    /\ \E x \in Entry : Puts(s, "ready", x) /\ Touches(x, e) /\ ~x.temp
                 \/ /\ ~Present(s, "claimed") /\ Moves(s, "ready", "claimed")
                    /\ \E m \in Manifest :
                         /\ Complete(m) /\ Says(m, "claimed") /\ m.at = t.now
                         /\ m.sound <=> e.manifest.sound /\ e.manifest.at <= t.now
                                        /\ CanTransition(e.manifest.state, "claimed")
                         /\ Writes(u, t, {}, s, "claimed", "claimed", m, "unlock")
  <1> DEFINE p == Processor  t == task[p]  s == t.session  e == disk[s]["ready"]
             x == [e EXCEPT !.lock = FALSE]
             m == Advance(e.manifest, "claimed", t.now)
  <1>1. /\ t.pc = "claimMove" /\ SameTime /\ TypeOK /\ t \in Task /\ p \in Actors /\ UNCHANGED fate
        /\ s \in Sessions /\ Present(s, "ready") /\ Complete(e.manifest) /\ t.now \in Times
    BY RestUntouched, ProcessorState DEF MoveClaim, ProcessorFits, Present, Task
  <1>2. e \in Entry /\ e.manifest \in Manifest \cup {NoManifest} /\ ~e.temp
    BY <1>1, PresentEntry, Names, ProcessorState
    DEF Tidy, Excused, Loop, EffectPCs, Present
  <1>3. \A y : ~Excused(y, t)
    BY <1>1 DEF Excused, Loop, EffectPCs
  <1>4. /\ m \in Manifest /\ Complete(m) /\ Says(m, "claimed") /\ m.at = t.now
        /\ m.sound <=> e.manifest.sound /\ e.manifest.at <= t.now
                       /\ CanTransition(e.manifest.state, "claimed")
    BY <1>1, <1>2, AdvanceManifest, Names DEF Complete, Says
  <1>5. Good(e) => Says(e.manifest, "ready")
    BY <1>1, GoodIsPlaced
  <1>6. CASE Present(s, "claimed")
    <2>1. Store(s, "ready", x) /\ Exit(p)
      BY <1>6 DEF MoveClaim
    <2>2. x \in Entry /\ Touches(x, e) /\ ~x.temp
      <3>1. ~e.temp
        BY <1>2
      <3> HIDE DEF e
      <3> QED BY <1>2, <3>1, EntryUpdates, ConstantsAssumption DEF Touches
    <2> HIDE DEF x
    <2>3. PICK u \in Task : Goes(p, u) /\ u.pc = "error"
      BY <1>1, <2>1, ExitGoes DEF Starts
    <2>4. Puts(s, "ready", x)
      BY <1>1, <2>1, <2>2, StorePuts, Names
    <2> HIDE DEF t, s, e
    <2>5. \E v \in Task :
            /\ Goes(p, v) /\ Present(s, "claimed") /\ v.pc = "error"
            /\ \E y \in Entry : Puts(s, "ready", y) /\ Touches(y, e) /\ ~y.temp
      BY <1>6, <2>2, <2>3, <2>4
    <2> QED BY <1>1, <1>2, <1>3, <1>5, <2>5 DEF t, s, e
  <1>7. CASE ~Present(s, "claimed")
    <2>1. /\ disk' = [disk EXCEPT ![s] = [@ EXCEPT !["claimed"] = disk[s]["ready"],
                                                   !["ready"] = Absent]]
          /\ WriteThenMove(p, s, "claimed", "claimed", m, "unlock", t)
      BY <1>7 DEF MoveClaim
    <2>2. Moves(s, "ready", "claimed")
      BY <1>1, <2>1, RenameMoves, Names
    <2>3. "unlock" \in PCs /\ Iterates(t, t, t.todo \ {}, t.candidates)
      BY DEF PCs, Iterates
    <2> HIDE DEF m, t, s, e
    <2>4. \E u \in Task : Goes(p, u) /\ Writes(u, t, {}, s, "claimed", "claimed", m, "unlock")
      BY <1>1, <1>4, <2>1, <2>3, WriteGoes, Names
    <2>5. \E v \in Task :
            /\ Goes(p, v) /\ ~Present(s, "claimed") /\ Moves(s, "ready", "claimed")
            /\ \E m1 \in Manifest :
                 /\ Complete(m1) /\ Says(m1, "claimed") /\ m1.at = t.now
                 /\ m1.sound <=> e.manifest.sound /\ e.manifest.at <= t.now
                                 /\ CanTransition(e.manifest.state, "claimed")
                 /\ Writes(v, t, {}, s, "claimed", "claimed", m1, "unlock")
      BY <1>4, <1>7, <2>2, <2>4
    <2> QED BY <1>1, <1>2, <1>3, <1>5, <2>5 DEF t, s, e
  <1> QED BY <1>6, <1>7

\* The session the processor has claimed.
LEMMA Claimed ==
  ASSUME SInv, task[Processor].pc \in {"unlock", "holding"}
  PROVE  LET s == task[Processor].session e == disk[s]["claimed"] IN
         /\ s \in Sessions /\ Present(s, "claimed") /\ e \in Entry
         /\ e.manifest \in Manifest /\ Complete(e.manifest) /\ Says(e.manifest, "claimed")
         /\ \A x : ~Excused(x, task[Processor])
  <1> DEFINE s == task[Processor].session e == disk[s]["claimed"]
  <1>1. /\ s \in Sessions /\ Present(s, "claimed") /\ Complete(e.manifest)
        /\ Says(e.manifest, "claimed") /\ TypeOK
    BY ProcessorState DEF ProcessorFits, Present
  <1>2. e \in Entry /\ e.manifest \in Manifest \cup {NoManifest}
    BY <1>1, PresentEntry, Names
  <1>3. \A x : ~Excused(x, task[Processor])
    BY DEF Excused, Loop, EffectPCs
  <1> QED BY <1>1, <1>2, <1>3 DEF Complete

\* The claim marker is removed.
LEMMA UnlockShape ==
  ASSUME SInv, Unlock
  PROVE  LET p == Processor t == task[Processor] s == t.session e == disk[s]["claimed"] IN
         /\ t.pc = "unlock" /\ SameTime /\ UNCHANGED fate
         /\ \E u \in Task, x \in Entry :
              /\ Goes(p, u) /\ Steps(u, t, "holding")
              /\ Puts(s, "claimed", x) /\ Touches(x, e) /\ x.temp = e.temp
  <1> DEFINE p == Processor  t == task[p]  s == t.session  e == disk[s]["claimed"]
             x == [e EXCEPT !.lock = FALSE]
             u == [t EXCEPT !.pc = "holding"]
  <1>1. /\ t.pc = "unlock" /\ SameTime /\ TypeOK /\ t \in Task /\ p \in Actors /\ UNCHANGED fate
        /\ Store(s, "claimed", x) /\ Goto(p, u)
    BY RestUntouched, ProcessorState DEF Unlock
  <1>2. s \in Sessions /\ e \in Entry
    BY <1>1, Claimed
  <1>3. x \in Entry /\ Touches(x, e) /\ x.temp = e.temp
    <2> HIDE DEF e
    <2> QED BY <1>2, EntryUpdates, ConstantsAssumption DEF Touches
  <1>4. u \in Task /\ Steps(u, t, "holding")
    <2> HIDE DEF t
    <2> QED BY <1>1 DEF Task, PCs, Steps, t
  <1> HIDE DEF x, u
  <1>5. Goes(p, u) /\ Puts(s, "claimed", x)
    BY <1>1, <1>2, <1>3, <1>4, GotoGoes, StorePuts, Names
  <1> QED BY <1>1, <1>3, <1>4, <1>5

-----------------------------------------------------------------------------
(* The shape of what the holder of a claim does, and of the world.         *)

\* release_claim writes that the session is ready again.
LEMMA ReleaseClaimShape ==
  ASSUME SInv, ReleaseClaim
  PROVE  LET p == Processor t == task[Processor] s == t.session e == disk[s]["claimed"] IN
         /\ t.pc = "holding" /\ SameTime /\ UNCHANGED <<disk, fate>> /\ Undecided(s)
         /\ \/ (~Readable(e) \/ e.manifest.state # "claimed") /\ Errs(p)
            \/ \E u \in Task, m \in Manifest :
                 /\ Complete(m) /\ Says(m, "ready") /\ m.at = t.now
                 /\ Goes(p, u) /\ Writes(u, t, {}, s, "claimed", "ready", m, "down")
  <1> DEFINE p == Processor  t == task[p]  s == t.session  e == disk[s]["claimed"]
             m == Advance(e.manifest, "ready", t.now)
             Unexpected == ~Readable(e) \/ e.manifest.state # "claimed"
  <1>1. /\ t.pc = "holding" /\ TypeOK /\ t \in Task /\ t.now \in Times /\ p \in Actors
        /\ UNCHANGED <<disk, fate>> /\ SameTime /\ Undecided(s)
    BY ProcessorState DEF ReleaseClaim, RestType, SameTime, Task
  <1>2. s \in Sessions /\ e.manifest \in Manifest /\ Complete(e.manifest)
    BY <1>1, Claimed
  <1>3. CASE Unexpected
    <2>1. Exit(p)
      BY <1>3 DEF ReleaseClaim
    <2> QED BY <1>1, <1>3, <2>1, ErrorShape
  <1>4. CASE ~Unexpected
    <2>1. WriteThenMove(p, s, "claimed", "ready", m, "down", t)
      BY <1>4 DEF ReleaseClaim
    <2>2. m \in Manifest /\ Complete(m) /\ Says(m, "ready") /\ m.at = t.now
      <3> HIDE DEF t, e
      <3> QED BY <1>1, <1>2, AdvanceManifest, Names DEF Complete, Says
    <2>3. "down" \in PCs /\ Iterates(t, t, t.todo \ {}, t.candidates)
      BY DEF PCs, Iterates
    <2> HIDE DEF m, t, s, e
    <2>4. \E u \in Task : Goes(p, u) /\ Writes(u, t, {}, s, "claimed", "ready", m, "down")
      BY <1>1, <1>2, <2>1, <2>2, <2>3, WriteGoes, Names
    <2>5. \E u \in Task, m1 \in Manifest :
            /\ Complete(m1) /\ Says(m1, "ready") /\ m1.at = t.now
            /\ Goes(p, u) /\ Writes(u, t, {}, s, "claimed", "ready", m1, "down")
      BY <2>2, <2>4
    <2> QED BY <1>1, <2>5 DEF t, s, e
  <1> QED BY <1>3, <1>4

\* The verdict is recorded and the session is given up.
LEMMA MarkClaimFailedShape ==
  ASSUME SInv, MarkClaimFailed
  PROVE  LET p == Processor t == task[Processor] s == t.session IN
         /\ t.pc = "holding" /\ SameTime /\ UNCHANGED disk /\ Undecided(s)
         /\ Decides(s, "failed")
         /\ \E u \in Task : Fails(p, u, t, {}, s, "claimed", disk[s]["claimed"], "idle")
  <1> DEFINE p == Processor  t == task[p]  s == t.session  e == disk[s]["claimed"]
  <1>1. /\ t.pc = "holding" /\ TypeOK /\ t \in Task /\ p \in Actors
        /\ UNCHANGED disk /\ SameTime /\ Fail(p, s, "claimed", e, "idle", t)
        /\ fate' = [fate EXCEPT ![s] = "failed"] /\ Undecided(s)
    BY RestUntouched, ProcessorState DEF MarkClaimFailed
  <1>2. s \in Sessions /\ e \in Entry
    BY <1>1, Claimed
  <1>3. Decides(s, "failed") /\ "idle" \in PCs /\ Iterates(t, t, t.todo \ {}, t.candidates)
    BY <1>1, <1>2, FateDecides DEF Fates, PCs, Iterates
  <1> HIDE DEF t, s, e
  <1>4. \E u \in Task : Fails(p, u, t, {}, s, "claimed", e, "idle")
    BY <1>1, <1>2, <1>3, FailGoes, Names
  <1> QED BY <1>1, <1>3, <1>4 DEF t, s, e

\* The result of the claimed session becomes durable.
LEMMA CommitResultShape ==
  ASSUME SInv, CommitResult
  PROVE  LET t == task[Processor] s == t.session IN
         /\ t.pc = "holding" /\ SameTime /\ UNCHANGED disk /\ Undecided(s)
         /\ Goes(Processor, t) /\ Decides(s, "prepared")
  <1> DEFINE t == task[Processor]  s == t.session
  <1>1. /\ t.pc = "holding" /\ TypeOK /\ t \in Task /\ UNCHANGED <<disk, task>> /\ SameTime
        /\ fate' = [fate EXCEPT ![s] = "prepared"] /\ Undecided(s)
    BY RestUntouched, ProcessorState DEF CommitResult
  <1>2. s \in Sessions
    BY <1>1, Claimed
  <1> QED BY <1>1, <1>2, FateDecides DEF Fates, Goes, TypeOK

\* The deletion of a claimed session begins.
LEMMA DeleteClaimedShape ==
  ASSUME SInv, DeleteClaimed
  PROVE  LET p == Processor t == task[Processor] s == t.session IN
         /\ t.pc = "holding" /\ SameTime /\ Durable(fate[s]) /\ Decides(s, "deleted")
         /\ \E u \in Task : /\ Empties(p, u, At("idle"), {}, s, "claimed", "idle")
                            /\ u.now = 0 /\ u.manifest = NoManifest
  <1> DEFINE p == Processor  t == task[p]  s == t.session  i == At("idle")
  <1>1. /\ t.pc = "holding" /\ TypeOK /\ p \in Actors /\ SameTime /\ Durable(fate[s])
        /\ fate' = [fate EXCEPT ![s] = "deleted"]
        /\ Remove(p, s, "claimed", "idle", i)
    BY RestUntouched, ProcessorState DEF DeleteClaimed, Durable
  <1>2. s \in Sessions /\ Present(s, "claimed")
    BY <1>1, Claimed
  <1>3. Decides(s, "deleted")
    BY <1>1, <1>2, FateDecides DEF Fates
  <1>4. /\ i \in Task /\ i.now = 0 /\ i.manifest = NoManifest /\ "idle" \in PCs
        /\ Iterates(i, i, i.todo \ {}, i.candidates)
    BY AtTask DEF PCs, Starts, Iterates
  <1> HIDE DEF t, s, i
  <1>5. PICK u \in Task : Empties(p, u, i, {}, s, "claimed", "idle")
    BY <1>1, <1>2, <1>4, Names, RemoveEmpties
  <1>6. u.now = 0 /\ u.manifest = NoManifest
    BY <1>4, <1>5 DEF Empties
  <1> QED BY <1>1, <1>3, <1>5, <1>6 DEF t, s, i

\* A recorder or the processor is stopped, and only its task is lost.
LEMMA CrashShape ==
  ASSUME SInv, NEW p \in Actors, Crash(p)
  PROVE  /\ SameTime /\ UNCHANGED <<disk, fate>>
         /\ \E u \in Task : Goes(p, u) /\ Starts(u, "down", {}, 0)
  <1>1. UNCHANGED <<disk, fate>> /\ SameTime /\ TypeOK /\ Goto(p, At("down"))
    BY ProcessorState DEF Crash, RestType, SameTime
  <1> QED BY <1>1, AtTask, GotoGoes DEF PCs

\* A recorder has nothing left to recover, or its encoder failed.
LEMMA RecorderRestsShape ==
  ASSUME SInv, NEW c \in Cameras, FinishRecorderRecovery(c) \/ EncoderFails(c)
  PROVE  /\ SameTime /\ UNCHANGED <<disk, fate>>
         /\ \E u \in Task : Goes(c, u) /\ (Starts(u, "idle", {}, 0) \/ Starts(u, "down", {}, 0))
  <1>1. /\ UNCHANGED <<disk, fate>> /\ SameTime /\ TypeOK /\ c \in Actors
        /\ Goto(c, At("idle")) \/ Goto(c, At("down"))
    BY ProcessorState, RestUntouched, Names DEF FinishRecorderRecovery, EncoderFails
  <1> QED BY <1>1, AtTask, GotoGoes DEF PCs

\* The processor has nothing left to recover.
LEMMA FinishRecoveryShape ==
  ASSUME SInv, FinishRecovery
  PROVE  /\ task[Processor].pc = "recoverClaimed" /\ SameTime /\ UNCHANGED <<disk, fate>>
         /\ \E u \in Task : Goes(Processor, u) /\ Starts(u, "idle", {}, 0)
  <1>1. /\ UNCHANGED <<disk, fate>> /\ SameTime /\ TypeOK /\ Processor \in Actors
        /\ Goto(Processor, At("idle")) /\ task[Processor].pc = "recoverClaimed"
    BY RestUntouched, ProcessorState DEF FinishRecovery
  <1> QED BY <1>1, AtTask, GotoGoes DEF PCs

\* A damaged video stays in its directory.
LEMMA DamageVideoShape ==
  ASSUME SInv, NEW s \in Sessions, NEW d \in Dirs, DamageVideo(s, d)
  PROVE  /\ d \in {"ready", "claimed"} /\ Present(s, d)
         /\ SameTime /\ UNCHANGED <<task, fate>>
         /\ \E x \in Entry :
              /\ Puts(s, d, x) /\ x # Absent /\ x.video = "broken"
              /\ x.manifest = disk[s][d].manifest /\ x.temp = disk[s][d].temp
  <1> DEFINE e == disk[s][d]  x == [e EXCEPT !.video = "broken"]
  <1>1. /\ UNCHANGED <<task, fate>> /\ SameTime /\ TypeOK /\ Present(s, d) /\ e \in Entry
        /\ d \in {"ready", "claimed"} /\ Store(s, d, x)
    BY RestUntouched, PresentEntry DEF DamageVideo, SInv
  <1>2. x \in Entry /\ x.manifest = e.manifest /\ x.video = "broken" /\ x.temp = e.temp
        /\ x # Absent
    <2> HIDE DEF e
    <2> QED BY <1>1, EntryUpdates, ConstantsAssumption
  <1> HIDE DEF x
  <1>3. Puts(s, d, x)
    BY <1>1, <1>2, StorePuts
  <1> QED BY <1>1, <1>2, <1>3

-----------------------------------------------------------------------------
(* Every action keeps SInv, and guarantees what the others rely on.        *)

\* An operation that returns an error keeps SInv.
LEMMA ErrorStep ==
  ASSUME SInv, NEW p \in Actors, Errs(p), RestType
  PROVE  SInv' /\ Guarantee(p)
  BY StopStep DEF Errs

\* A recorder step leaves the processor's excuses alone.
LEMMA RecorderExcuses ==
  ASSUME NEW c \in Cameras, NEW u, NEW except
  PROVE  StillExcuses(c, u, except)
  BY Names DEF StillExcuses

\* The temporary file of a manifest disturbs nobody (atomic_write).
LEMMA WriteTempStep ==
  ASSUME SInv, NEW p \in Actors, WriteTemp(p)
  PROVE  SInv' /\ Guarantee(p)
  <1> DEFINE t == task[p]  s == t.session  d == t.from  e == disk[s][d]
  <1>1. t.pc = "write" /\ RestType /\ UNCHANGED fate
    BY WriteTempShape DEF SameTime
  <1>2. /\ t \in Task /\ s \in Sessions /\ d \in Dirs /\ d \in {"capturing", "ready", "claimed"}
        /\ Owns(p, s, d) /\ Present(s, d) /\ Fits(p, t, disk, fate)
        /\ t.todo \subseteq Sessions /\ t.candidates \subseteq Sessions
    BY <1>1, EffectSession DEF EffectPCs, SInv, Task
  <1>3. CASE Errs(p)
    BY <1>1, <1>3, ErrorStep
  <1>4. CASE \E u \in Task, x \in Entry :
               Goes(p, u) /\ Steps(u, t, "commit") /\ Puts(s, d, x) /\ Touches(x, e)
    <2>1. PICK u \in Task, x \in Entry :
            Goes(p, u) /\ Steps(u, t, "commit") /\ Puts(s, d, x) /\ Touches(x, e)
      BY <1>4
    <2>2. Fits(p, u, disk', fate')
      <3>1. CASE p = Processor
        <4>1. ProcessorFits(t, disk, fate)
          BY <1>2, <3>1 DEF Fits
        <4> HIDE DEF t
        <4>2. ProcessorFits(u, disk', fate')
          BY <1>1, <1>2, <2>1, <4>1, Names
          DEF ProcessorFits, Puts, Waits, Loop, EffectPCs, Steps, Touches
        <4> QED BY <3>1, <4>2 DEF Fits
      <3>2. CASE p # Processor
        <4>1. RecorderFits(p, t, disk)
          BY <1>2, <3>2 DEF Fits
        <4> HIDE DEF t
        <4>2. RecorderFits(p, u, disk')
          BY <1>1, <1>2, <2>1, <4>1, Names
          DEF RecorderFits, Puts, Waits, Loop, EffectPCs, Steps, Touches
        <4> QED BY <3>2, <4>2 DEF Fits
      <3> QED BY <3>1, <3>2
    <2>3. StillExcuses(p, u, IF d = "ready" THEN {s} ELSE {})
      BY <1>1, <2>1 DEF StillExcuses, Excused, Loop, EffectPCs, Steps
    <2>4. d = "ready" => Excused(s, u)
      BY <2>1 DEF Excused, Steps
    <2>5. Good(x) => \/ Says(x.manifest, "ready")
                     \/ d = "claimed" /\ (Says(x.manifest, "claimed") \/ fate[s] = "failed")
      BY <1>2, <2>1, GoodIsPlaced DEF Good, Touches
    <2>6. u.pc # t.pc /\ (Complete(e.manifest) => Complete(x.manifest))
      BY <1>1, <2>1 DEF Steps, Touches
    <2> QED BY <1>1, <1>2, <2>1, <2>2, <2>3, <2>4, <2>5, <2>6, PutStep
  <1> QED BY <1>3, <1>4, WriteTempShape

\* The renamed manifest says what the process intends (atomic_write).
LEMMA CommitManifestStep ==
  ASSUME SInv, NEW p \in Actors, CommitManifest(p)
  PROVE  SInv' /\ Guarantee(p)
  <1> DEFINE t == task[p]  s == t.session  d == t.from  e == disk[s][d]
  <1>1. t.pc = "commit" /\ RestType /\ UNCHANGED fate
    BY CommitManifestShape DEF SameTime
  <1>2. /\ t \in Task /\ s \in Sessions /\ d \in Dirs /\ d \in {"capturing", "ready", "claimed"}
        /\ Owns(p, s, d) /\ Present(s, d)
        /\ t.todo \subseteq Sessions /\ t.candidates \subseteq Sessions
    BY <1>1, EffectSession DEF EffectPCs, SInv, Task
  <1>3. PICK u \in Task, x \in Entry :
          /\ Goes(p, u) /\ u.session = s
          /\ Puts(s, d, x) /\ x # Absent /\ ~x.temp
          /\ x.manifest = t.manifest /\ x.video = e.video
          /\ \/ d # t.to /\ Steps(u, t, "move")
             \/ d = t.to /\ u.pc = t.then /\ t.then = IF p = Processor THEN "unlock" ELSE "capturing"
    BY CommitManifestShape
  <1>4. /\ Fits(p, u, disk', fate')
        /\ StillExcuses(p, u, IF d = "ready" THEN {s} ELSE {})
        /\ Complete(e.manifest) /\ p = Processor => Complete(x.manifest)
        /\ Good(x) => \/ Says(x.manifest, "ready")
                      \/ d = "claimed" /\ (Says(x.manifest, "claimed") \/ fate[s] = "failed")
        /\ u.pc # t.pc
    <2>1. CASE p = Processor
      <3>1. ProcessorFits(t, disk, fate)
        BY <2>1, ProcessorTask
      <3>2. d = t.to => t.then = "unlock" /\ u.pc = "unlock"
        BY <1>3, <2>1 DEF Steps
      <3> HIDE DEF t, e
      <3>3. ProcessorFits(u, disk', fate')
        BY <1>1, <1>2, <1>3, <3>1, <3>2, Names
        DEF ProcessorFits, Puts, Waits, Loop, EffectPCs, MovingLoops, Good, Steps, e
      <3>4. \A y : Excused(y, t) => Excused(y, u) \/ (d = "ready" /\ y = s)
        BY <1>1, <1>3, <3>1, <3>2
        DEF Excused, Loop, EffectPCs, ProcessorFits, MovingLoops, Steps
      <3>5. /\ Complete(e.manifest) => Complete(x.manifest)
            /\ Good(x) => \/ Says(x.manifest, "ready")
                          \/ d = "claimed" /\ (Says(x.manifest, "claimed") \/ fate[s] = "failed")
        BY <1>1, <1>2, <1>3, <3>1 DEF ProcessorFits, Good, e
      <3>6. u.pc # t.pc
        BY <1>1, <1>3, <3>2 DEF Steps
      <3>7. StillExcuses(p, u, IF d = "ready" THEN {s} ELSE {})
        BY <2>1, <3>4 DEF StillExcuses, t
      <3> QED BY <2>1, <3>3, <3>5, <3>6, <3>7 DEF Fits
    <2>2. CASE p # Processor
      <3>1. RecorderFits(p, t, disk) /\ d = "capturing"
        BY <1>1, <2>2, RecorderTask, Names DEF RecorderFits, EffectPCs
      <3>2. d = t.to => t.then = "capturing" /\ u.pc = "capturing"
        BY <1>3, <2>2 DEF Steps
      <3> HIDE DEF t, e
      <3>3. RecorderFits(p, u, disk')
        BY <1>1, <1>2, <1>3, <3>1, <3>2, Names
        DEF RecorderFits, Puts, Waits, Loop, EffectPCs, Good, Steps, e
      <3>4. Good(x) => Says(x.manifest, "ready")
        BY <1>1, <1>3, <3>1 DEF RecorderFits, Good, GoodWith, e
      <3>5. u.pc # t.pc
        BY <1>1, <1>3, <3>2 DEF Steps
      <3> QED BY <2>2, <3>3, <3>4, <3>5 DEF Fits, StillExcuses
    <2> QED BY <2>1, <2>2
  <1> QED BY <1>1, <1>2, <1>3, <1>4, PutStep

\* A recording moves to where its manifest says (move_session_directory).
LEMMA MoveDirectoryStep ==
  ASSUME SInv, NEW p \in Actors, MoveDirectory(p)
  PROVE  SInv' /\ Guarantee(p)
  <1> DEFINE t == task[p]  s == t.session  d == t.from  e == disk[s][d]
  <1>1. /\ t.pc = "move" /\ RestType /\ t.then \in {"recover"} \cup MovingLoops
        /\ t.to \in {"ready", "failed"} /\ d # t.to
        /\ \/ Errs(p)
           \/ /\ ~Present(s, t.to) /\ Moves(s, d, t.to) /\ Goes(p, Resume(p))
              /\ \/ UNCHANGED fate
                 \/ t.to = "ready" /\ fate[s] = "begun" /\ Decides(s, "published")
    BY MoveDirectoryShape DEF SameTime
  <1>2. /\ t \in Task /\ s \in Sessions /\ d \in Dirs /\ t.to \in Dirs
        /\ Owns(p, s, d) /\ Present(s, d) /\ e \in Entry /\ TypeOK
    BY <1>1, EffectSession DEF EffectPCs, SInv
  <1>3. CASE Errs(p)
    BY <1>1, <1>3, ErrorStep
  <1>4. CASE ~Errs(p)
    <2>1. /\ ~e.temp
          /\ t.to = "ready" => Complete(e.manifest) /\ Says(e.manifest, "ready")
          /\ t.to = "failed" => (Good(e) => fate[s] = "failed")
      <3>1. CASE p = Processor
        BY <1>1, <1>2, <3>1, ProcessorTask DEF ProcessorFits, EffectPCs
      <3>2. CASE p # Processor
        BY <1>1, <1>2, <3>2, RecorderTask, Names DEF RecorderFits, EffectPCs
      <3> QED BY <3>1, <3>2
    <2>2. Resume(p).pc = t.then /\ Resume(p).pc # t.pc
      BY <1>1, <1>2, ResumeTask DEF MovingLoops
    <2>3. \A x \in Sessions \ {s} : disk'[x] = disk[x]
      BY <1>1, <1>2, <1>4 DEF Moves, DiskSpace, TypeOK
    <2>4. Fits(p, Resume(p), disk', fate') /\ StillExcuses(p, Resume(p), {})
      BY <1>1, <2>3, ResumeFits DEF EffectPCs, MovingLoops
    <2> QED BY <1>1, <1>2, <1>4, <2>1, <2>2, <2>4, MoveStep
  <1> QED BY <1>3, <1>4

\* A directory disappears only after its deletion was decided.
LEMMA FinishRemoveStep ==
  ASSUME SInv, NEW p \in Actors, FinishRemove(p)
  PROVE  SInv' /\ Guarantee(p)
  <1> DEFINE t == task[p]  s == t.session  d == t.from
  <1>1. /\ t.pc = "remove" /\ RestType /\ UNCHANGED fate
        /\ d \in {"capturing", "claimed"} /\ t.then \in {"purge", "idle"}
        /\ p = Processor => fate[s] = "deleted"
        /\ Puts(s, d, Absent) /\ Goes(p, Resume(p))
    BY FinishRemoveShape DEF SameTime
  <1>2. t \in Task /\ s \in Sessions /\ d \in Dirs /\ Owns(p, s, d) /\ TypeOK
    BY <1>1, EffectSession DEF EffectPCs, SInv
  <1>3. Resume(p).pc # t.pc
    BY <1>1, <1>2, ResumeTask
  <1>4. \A x \in Sessions \ {s} : disk'[x] = disk[x]
    BY <1>1, <1>2 DEF TypeOK, Puts, DiskSpace
  <1>5. Fits(p, Resume(p), disk', fate') /\ StillExcuses(p, Resume(p), {})
    BY <1>1, <1>4, ResumeFits DEF EffectPCs
  <1> QED BY <1>1, <1>2, <1>3, <1>5, DropStep

-----------------------------------------------------------------------------
(* The recorder keeps SInv.                                                *)

\* A restarted recorder refers to its own captures only (recover_recording).
LEMMA StartRecorderStep ==
  ASSUME SInv, NEW c \in Cameras, StartRecorder(c)
  PROVE  SInv' /\ Guarantee(c)
  <1>1. PICK u \in Task, todo \in SUBSET Sessions :
          /\ Goes(c, u) /\ Starts(u, "recover", todo, clock)
          /\ \A s \in todo : Camera(s) = c /\ Present(s, "capturing")
          /\ RestType /\ UNCHANGED <<disk, fate>>
    BY StartRecorderShape DEF SameTime
  <1>2. Fits(c, u, disk, fate)
    BY <1>1, Names DEF Fits, RecorderFits, Starts, Waits, Loop, EffectPCs, Present
  <1> QED BY <1>1, <1>2, Names, RecorderExcuses, ControlStep

\* A resting recorder refers to nothing.
LEMMA RecorderRestsStep ==
  ASSUME SInv, NEW c \in Cameras, FinishRecorderRecovery(c) \/ EncoderFails(c)
  PROVE  SInv' /\ Guarantee(c)
  <1>1. PICK u \in Task : /\ Goes(c, u) /\ u.pc \in {"down", "idle"}
                          /\ RestType /\ UNCHANGED <<disk, fate>>
    BY RecorderRestsShape DEF SameTime, Starts
  <1> QED BY <1>1, Names, RestingFits, RecorderExcuses, ControlStep

\* Recovery publishes only what was complete, and gives up nothing good.
LEMMA RecoverCaptureStep ==
  ASSUME SInv, NEW c \in Cameras, RecoverCapture(c)
  PROVE  SInv' /\ Guarantee(c)
  <1> DEFINE t == task[c]
  <1>1. /\ t.pc = "recover" /\ RestType /\ UNCHANGED fate
        /\ RecorderFits(c, t, disk) /\ t.todo \subseteq Sessions /\ c \in Actors /\ c # Processor
    BY RecoverCaptureShape, RecorderTask DEF SameTime, Task
  <1>2. PICK s \in t.todo \cap Sessions, e \in Entry, u \in Task :
          /\ Camera(s) = c /\ Present(s, "capturing")
          /\ Puts(s, "capturing", e) /\ Touches(e, disk[s]["capturing"]) /\ ~e.temp
          /\ \/ /\ Good(e) /\ Says(e.manifest, "ready") /\ Goes(c, u)
                /\ u.pc = "move" /\ u.then = "recover" /\ u.session = s
                /\ u.from = "capturing" /\ u.to = "ready"
                /\ u.todo = t.todo \ {s} /\ u.now = t.now /\ u.manifest = t.manifest
             \/ ~Good(e) /\ Fails(c, u, t, {s}, s, "capturing", e, "recover")
    BY RecoverCaptureShape
  <1>3. \A x \in t.todo : Camera(x) = c /\ disk[x]["capturing"] # Absent
    BY <1>1 DEF RecorderFits, Loop, EffectPCs, Waits
  <1> HIDE DEF t
  <1>4. RecorderFits(c, u, disk')
    <2>1. CASE Good(e)
      BY <1>1, <1>2, <1>3, <2>1, Names
      DEF RecorderFits, Puts, Waits, Loop, EffectPCs, Good, GoodWith, Touches
    <2>2. CASE ~Good(e)
      <3>1. CASE u.pc = "error"
        BY <3>1 DEF RecorderFits, Loop, EffectPCs
      <3>2. CASE u.pc # "error"
        <4>1. PICK m : GivesUp(m, e, t.now)
                       /\ Writes(u, t, {s}, s, "capturing", "failed", m, "recover")
          BY <1>2, <2>2, <3>2 DEF Fails
        <4>2. ~GoodWith(u.manifest, e.video)
          BY <2>2, <4>1 DEF Good, GivesUp, Writes
        <4>3. e # Absent
          BY <1>2 DEF Touches
        <4> QED BY <1>1, <1>2, <1>3, <4>1, <4>2, <4>3, Names
                DEF RecorderFits, Puts, Waits, Loop, EffectPCs, Writes
      <3> QED BY <3>1, <3>2
    <2> QED BY <2>1, <2>2
  <1>5. Goes(c, u) /\ u.pc # "recover"
    BY <1>2 DEF Fails, Writes
  <1>6. Fits(c, u, disk', fate') /\ e # Absent
    BY <1>1, <1>2, <1>4 DEF Fits, Touches
  <1>7. Good(e) => Says(e.manifest, "ready")
    BY <1>2
  <1> QED BY <1>1, <1>2, <1>5, <1>6, <1>7, RecorderExcuses, Names, PutStep DEF Owns, t

\* A capture begins with an unfinished manifest (begin_capture).
LEMMA BeginCaptureStep ==
  ASSUME SInv, NEW c \in Cameras, BeginCapture(c)
  PROVE  SInv' /\ Guarantee(c)
  <1> DEFINE s == <<c, clock>>
  <1>1. /\ task[c].pc = "idle" /\ s \in Sessions /\ Camera(s) = c /\ RestType
        /\ c \in Actors /\ c # Processor
    BY BeginCaptureShape, Names
  <1>2. CASE Errs(c)
    BY <1>1, <1>2, ErrorStep
  <1>3. CASE ~Errs(c)
    <2>1. PICK e \in Entry, m \in Manifest, u \in Task :
            /\ Puts(s, "capturing", e) /\ e # Absent /\ e.manifest = NoManifest /\ ~m.finished
            /\ Goes(c, u)
            /\ Writes(u, At("idle"), {}, s, "capturing", "capturing", m, "capturing")
      BY <1>3, BeginCaptureShape
    <2>2. fate' = fate \/ (fate[s] = "none" /\ Decides(s, "begun"))
      BY <1>3, BeginCaptureShape
    <2> HIDE DEF s
    <2>3. Fits(c, u, disk', fate')
      BY <1>1, <2>1 DEF Fits, RecorderFits, Writes, Puts, Loop, EffectPCs, Complete
    <2>4. u.pc # task[c].pc /\ ~Complete(e.manifest)
      BY <1>1, <2>1 DEF Writes, Complete
    <2> QED BY <1>1, <2>1, <2>2, <2>3, <2>4, CreateStep
  <1> QED BY <1>2, <1>3

\* Only an open capture is completed (finalize_capture).
LEMMA FinalizeCaptureStep ==
  ASSUME SInv, NEW c \in Cameras, FinalizeCapture(c)
  PROVE  SInv' /\ Guarantee(c)
  <1> DEFINE s == task[c].session
  <1>1. /\ task[c].pc = "capturing" /\ RestType /\ UNCHANGED fate
        /\ c \in Actors /\ c # Processor
        /\ s \in Sessions /\ Camera(s) = c /\ Present(s, "capturing")
        /\ ~Complete(disk[s]["capturing"].manifest)
    BY FinalizeCaptureShape, OpenCapture, Names DEF SameTime
  <1>2. PICK e \in Entry, u \in Task :
          /\ Puts(s, "capturing", e) /\ e # Absent
          /\ e.manifest = disk[s]["capturing"].manifest
          /\ Goes(c, u)
          /\ \/ u.pc = "error"
             \/ \E m \in Manifest :
                  /\ Complete(m) /\ Says(m, "ready")
                  /\ Writes(u, At("idle"), {}, s, "capturing", "ready", m, "idle")
    BY FinalizeCaptureShape
  <1> HIDE DEF s
  <1>3. Fits(c, u, disk', fate')
    BY <1>1, <1>2 DEF Fits, RecorderFits, Puts, Loop, EffectPCs, Writes
  <1>4. u.pc # task[c].pc /\ ~Good(e)
    BY <1>1, <1>2 DEF Good, GoodWith, Writes
  <1> QED BY <1>1, <1>2, <1>3, <1>4, RecorderExcuses, Names, PutStep DEF Owns

\* Only an open capture is discarded (discard_capture).
LEMMA DiscardCaptureStep ==
  ASSUME SInv, NEW c \in Cameras, DiscardCapture(c)
  PROVE  SInv' /\ Guarantee(c)
  <1> DEFINE s == task[c].session
  <1>1. /\ task[c].pc = "capturing" /\ RestType /\ UNCHANGED fate
        /\ c \in Actors /\ c # Processor
        /\ s \in Sessions /\ Camera(s) = c /\ Present(s, "capturing")
    BY DiscardCaptureShape, OpenCapture, Names DEF SameTime
  <1>2. PICK u \in Task : Empties(c, u, At("idle"), {}, s, "capturing", "idle")
    BY DiscardCaptureShape
  <1> HIDE DEF s
  <1>3. PICK e \in Entry : Puts(s, "capturing", e) /\ ~Good(e) /\ e # Absent
    BY <1>2 DEF Empties
  <1>4. Goes(c, u) /\ u.pc = "remove" /\ u.session = s /\ u.from = "capturing" /\ u.then = "idle"
    BY <1>2 DEF Empties
  <1>5. Fits(c, u, disk', fate') /\ u.pc # task[c].pc
    BY <1>1, <1>3, <1>4 DEF Fits, RecorderFits, Puts, Loop, EffectPCs
  <1> QED BY <1>1, <1>3, <1>4, <1>5, RecorderExcuses, Names, PutStep DEF Owns

-----------------------------------------------------------------------------
(* The processor keeps SInv: startup.                                      *)

\* What fail_session leaves the processor with: an error, or a task whose
\* manifest is as complete, and good only if the one it extends is.
LEMMA ProcessorFails ==
  ASSUME NEW u, NEW t, NEW done, NEW s, NEW from, NEW e, NEW then,
         Fails(Processor, u, t, done, s, from, e, then)
  PROVE  /\ Goes(Processor, u)
         /\ \/ u.pc = "error"
            \/ /\ u.pc = "write" /\ u.session = s /\ u.from = from /\ u.to = "failed"
               /\ u.then = then /\ u.todo = t.todo \ done /\ u.candidates = t.candidates
               /\ Complete(e.manifest) => Complete(u.manifest)
               /\ GoodWith(u.manifest, e.video) => Good(e)
  BY DEF Fails, Writes, GivesUp, Good

\* The processor starts with nothing in hand.
LEMMA StartProcessorStep ==
  ASSUME SInv, StartProcessor
  PROVE  SInv' /\ Guarantee(Processor)
  <1>1. PICK u \in Task, todo \in SUBSET Sessions :
          /\ Goes(Processor, u) /\ Starts(u, "purge", todo, clock)
          /\ RestType /\ UNCHANGED <<disk, fate>>
    BY StartProcessorShape DEF SameTime
  <1>2. Fits(Processor, u, disk, fate) /\ StillExcuses(Processor, u, {})
    BY <1>1 DEF Fits, ProcessorFits, Starts, Loop, EffectPCs, StillExcuses, Excused
  <1> QED BY <1>1, <1>2, Names, ControlStep

\* Only a session whose result is durable is removed at startup.
LEMMA PurgePreparedStep ==
  ASSUME SInv, PurgePrepared
  PROVE  SInv' /\ Guarantee(Processor)
  <1> DEFINE p == Processor  t == task[p]
  <1>1. t.pc = "purge" /\ RestType /\ p \in Actors
    BY PurgePreparedShape, Names DEF SameTime
  <1>2. PICK s \in t.todo \cap Sessions :
          \/ (\E d \in {"capturing", "ready", "failed"} : Present(s, d)) /\ Errs(p)
          \/ /\ Decides(s, "deleted")
             /\ \E u \in Task :
                  \/ Present(s, "claimed") /\ Empties(p, u, t, {s}, s, "claimed", "purge")
                  \/ /\ ~Present(s, "claimed") /\ UNCHANGED disk
                     /\ Goes(p, u) /\ Iterates(u, t, t.todo \ {s}, t.candidates)
    BY PurgePreparedShape
  <1>3. CASE Errs(p)
    BY <1>1, <1>3, ErrorStep
  <1>4. ASSUME Decides(s, "deleted"), Present(s, "claimed"), NEW u \in Task,
               Empties(p, u, t, {s}, s, "claimed", "purge")
        PROVE  SInv' /\ Guarantee(p)
    <2>1. PICK e \in Entry : Puts(s, "claimed", e) /\ ~Good(e) /\ e # Absent
      BY <1>4 DEF Empties
    <2>2. Goes(p, u) /\ u.pc = "remove" /\ u.session = s /\ u.from = "claimed" /\ u.then = "purge"
      BY <1>4 DEF Empties
    <2>3. fate'[s] = "deleted"
      BY <1>4 DEF Decides
    <2>4. Fits(p, u, disk', fate') /\ StillExcuses(p, u, {})
      BY <2>1, <2>2, <2>3
      DEF Fits, ProcessorFits, Loop, EffectPCs, StillExcuses, Excused, Puts
    <2> QED BY <1>1, <1>4, <2>1, <2>2, <2>3, <2>4, Names, PutStep DEF Owns
  <1>5. ASSUME Decides(s, "deleted"), ~Present(s, "claimed"), UNCHANGED disk, NEW u \in Task,
               Goes(p, u), Iterates(u, t, t.todo \ {s}, t.candidates)
        PROVE  SInv' /\ Guarantee(p)
    <2>1. Fits(p, u, disk', fate') /\ StillExcuses(p, u, {})
      BY <1>1, <1>5
      DEF Fits, ProcessorFits, Loop, EffectPCs, StillExcuses, Excused, Iterates
    <2> QED BY <1>1, <1>5, <2>1, DecideStep
  <1> QED BY <1>2, <1>3, <1>4, <1>5

\* Recovery lists what is in ready ...
LEMMA FinishPurgeStep ==
  ASSUME SInv, FinishPurge
  PROVE  SInv' /\ Guarantee(Processor)
  <1>1. PICK u \in Task, todo \in SUBSET Sessions :
          /\ Goes(Processor, u) /\ Enters(u, task[Processor], "recoverReady", todo)
          /\ \A x \in Sessions : x \in todo <=> Present(x, "ready")
    BY FinishPurgeShape
  <1>2. RestType /\ UNCHANGED <<disk, fate>>
    BY FinishPurgeShape DEF SameTime
  <1>3. Fits(Processor, u, disk, fate) /\ StillExcuses(Processor, u, {})
    BY <1>1
    DEF Fits, ProcessorFits, Enters, Loop, EffectPCs, StillExcuses, Excused, Waits, Present
  <1> QED BY <1>1, <1>2, <1>3, Names, ControlStep

\* ... keeps there what verifies ...
LEMMA RecoverReadyStep ==
  ASSUME SInv, RecoverReady
  PROVE  SInv' /\ Guarantee(Processor)
  <1> DEFINE p == Processor  t == task[p]
  <1>1. /\ t.pc = "recoverReady" /\ RestType /\ UNCHANGED fate /\ p \in Actors
        /\ t.todo \in SUBSET Sessions
        /\ \A x \in t.todo : disk[x]["ready"] # Absent
    BY RecoverReadyShape, ProcessorState DEF SameTime, ProcessorFits, Loop, EffectPCs, Waits
  <1>2. PICK s \in t.todo \cap Sessions, e \in Entry, u \in Task :
          /\ Present(s, "ready")
          /\ Puts(s, "ready", e) /\ Touches(e, disk[s]["ready"]) /\ ~e.temp
          /\ \/ /\ Good(e) /\ Says(e.manifest, "ready")
                /\ Goes(p, u) /\ Iterates(u, t, t.todo \ {s}, t.candidates)
             \/ ~Good(e) /\ Fails(p, u, t, {s}, s, "ready", e, "recoverReady")
    BY RecoverReadyShape
  <1>3. /\ Goes(p, u)
        /\ \/ u.pc = "error"
           \/ u.pc = "recoverReady" /\ u.todo = t.todo \ {s}
           \/ /\ u.pc = "write" /\ u.then = "recoverReady" /\ u.session = s
              /\ u.from = "ready" /\ u.to = "failed" /\ u.todo = t.todo \ {s}
              /\ ~GoodWith(u.manifest, e.video)
              /\ Complete(e.manifest) => Complete(u.manifest)
    BY <1>1, <1>2, ProcessorFails DEF Iterates
  <1>4. e # Absent /\ e.manifest = disk[s]["ready"].manifest
    BY <1>2 DEF Touches
  <1> HIDE DEF t
  <1>5. ProcessorFits(u, disk', fate')
    BY <1>1, <1>2, <1>3, <1>4, Names
    DEF ProcessorFits, Puts, Waits, Loop, EffectPCs, MovingLoops
  <1>6. Fits(p, u, disk', fate') /\ StillExcuses(p, u, {s})
    BY <1>1, <1>3, <1>5 DEF Fits, StillExcuses, Excused, Loop, EffectPCs, t
  <1>7. Good(e) => Says(e.manifest, "ready")
    BY <1>2
  <1> QED BY <1>1, <1>2, <1>3, <1>4, <1>6, <1>7, Names, PutStep DEF Owns

\* ... and then lists what is in claimed.
LEMMA FinishRecoverReadyStep ==
  ASSUME SInv, FinishRecoverReady
  PROVE  SInv' /\ Guarantee(Processor)
  <1> DEFINE t == task[Processor]
  <1>1. PICK u \in Task, todo \in SUBSET Sessions :
          /\ Goes(Processor, u) /\ Enters(u, t, "recoverClaimed", todo)
          /\ \A x \in todo : Present(x, "claimed")
    BY FinishRecoverReadyShape
  <1>2. t.pc = "recoverReady" /\ t.todo = {} /\ RestType /\ UNCHANGED <<disk, fate>>
    BY FinishRecoverReadyShape DEF SameTime
  <1>3. \A x : ~Excused(x, t)
    BY <1>2 DEF Excused, Loop, EffectPCs
  <1>4. Fits(Processor, u, disk, fate) /\ StillExcuses(Processor, u, {})
    BY <1>1, <1>3
    DEF Fits, ProcessorFits, Enters, Loop, EffectPCs, StillExcuses, Waits, Present
  <1> QED BY <1>1, <1>2, <1>4, Names, ControlStep

\* Recovery of claimed returns what verifies and gives up the rest.
LEMMA RecoverClaimedStep ==
  ASSUME SInv, RecoverClaimed
  PROVE  SInv' /\ Guarantee(Processor)
  <1> DEFINE p == Processor  t == task[p]
  <1>1. /\ t.pc = "recoverClaimed" /\ RestType /\ UNCHANGED fate /\ p \in Actors
        /\ t.todo \in SUBSET Sessions
        /\ \A x \in t.todo : disk[x]["claimed"] # Absent
    BY RecoverClaimedShape, ProcessorState DEF SameTime, ProcessorFits, Loop, EffectPCs, Waits
  <1>2. PICK s \in t.todo \cap Sessions, e \in Entry, u \in Task :
          /\ Present(s, "claimed")
          /\ Puts(s, "claimed", e) /\ Touches(e, disk[s]["claimed"]) /\ ~e.temp
          /\ Good(e) => Says(e.manifest, "ready") \/ Says(e.manifest, "claimed")
                        \/ fate[s] = "failed"
          /\ \/ \E m \in Manifest :
                  /\ Complete(m) /\ Says(m, "ready") /\ m.at = t.now
                  /\ Goes(p, u)
                  /\ Writes(u, t, {s}, s, "claimed", "ready", m, "recoverClaimed")
             \/ /\ Good(e) => fate[s] = "failed"
                /\ Fails(p, u, t, {s}, s, "claimed", e, "recoverClaimed")
    BY RecoverClaimedShape
  <1>3. /\ Goes(p, u)
        /\ \/ u.pc = "error"
           \/ /\ u.pc = "write" /\ u.then = "recoverClaimed" /\ u.session = s
              /\ u.from = "claimed" /\ u.todo = t.todo \ {s}
              /\ Complete(e.manifest) => Complete(u.manifest)
              /\ \/ u.to = "ready" /\ Complete(u.manifest) /\ Says(u.manifest, "ready")
                 \/ u.to = "failed" /\ (GoodWith(u.manifest, e.video) => fate[s] = "failed")
    BY <1>1, <1>2, ProcessorFails DEF Writes
  <1>4. e # Absent /\ e.manifest = disk[s]["claimed"].manifest
    BY <1>2 DEF Touches
  <1>5. \A x : ~Excused(x, t)
    BY <1>1 DEF Excused, Loop, EffectPCs
  <1> HIDE DEF t
  <1>6. ProcessorFits(u, disk', fate')
    BY <1>1, <1>2, <1>3, <1>4, Names
    DEF ProcessorFits, Puts, Waits, Loop, EffectPCs, MovingLoops
  <1>7. Fits(p, u, disk', fate') /\ StillExcuses(p, u, {})
    BY <1>5, <1>6 DEF Fits, StillExcuses, t
  <1>8. Good(e) => Says(e.manifest, "ready") \/ Says(e.manifest, "claimed") \/ fate[s] = "failed"
    BY <1>2
  <1> QED BY <1>1, <1>2, <1>3, <1>4, <1>7, <1>8, Names, PutStep DEF Owns

\* The processor is ready for work.
LEMMA FinishRecoveryStep ==
  ASSUME SInv, FinishRecovery
  PROVE  SInv' /\ Guarantee(Processor)
  <1>1. PICK u \in Task : Goes(Processor, u) /\ u.pc = "idle"
    BY FinishRecoveryShape DEF Starts
  <1>2. RestType /\ UNCHANGED <<disk, fate>> /\ StillExcuses(Processor, u, {})
    BY FinishRecoveryShape DEF SameTime, StillExcuses, Excused, Loop, EffectPCs
  <1> QED BY <1>1, <1>2, Names, RestingFits, ControlStep

-----------------------------------------------------------------------------
(* The processor keeps SInv: claim_next_ready.                             *)

\* claim_next_ready begins with every session in ready, each of them tidy.
LEMMA StartClaimStep ==
  ASSUME SInv, StartClaim
  PROVE  SInv' /\ Guarantee(Processor)
  <1>1. PICK u \in Task, todo \in SUBSET Sessions :
          /\ Goes(Processor, u) /\ Starts(u, "scan", todo, clock)
          /\ \A x \in todo : Present(x, "ready")
    BY StartClaimShape
  <1>2. RestType /\ UNCHANGED <<disk, fate>> /\ StillExcuses(Processor, u, {})
    BY StartClaimShape DEF SameTime, StillExcuses, Excused, Loop, EffectPCs
  <1>3. Fits(Processor, u, disk, fate)
    BY <1>1 DEF Fits, ProcessorFits, Starts, Loop, EffectPCs, Waits, Present
  <1> QED BY <1>1, <1>2, <1>3, Names, ControlStep

\* The scan gives up nothing good.
LEMMA ScanReadyStep ==
  ASSUME SInv, ScanReady
  PROVE  SInv' /\ Guarantee(Processor)
  <1> DEFINE p == Processor  t == task[p]
  <1>1. /\ t.pc = "scan" /\ RestType /\ UNCHANGED <<disk, fate>> /\ p \in Actors
        /\ t.todo \in SUBSET Sessions /\ t.candidates \in SUBSET Sessions
    BY ScanReadyShape, ProcessorState DEF SameTime
  <1>2. PICK s \in t.todo \cap Sessions, u \in Task :
          LET e == disk[s]["ready"] IN
          /\ Present(s, "ready") /\ ~e.temp
          /\ \/ /\ VerifiedIn(e, {"ready"}) /\ Goes(p, u)
                /\ Iterates(u, t, t.todo \ {s}, t.candidates \cup {s})
             \/ ~Good(e) /\ Fails(p, u, t, {s}, s, "ready", e, "scan")
    BY ScanReadyShape
  <1> DEFINE e == disk[s]["ready"]
  <1>3. /\ Goes(p, u)
        /\ \/ u.pc = "error"
           \/ /\ u.pc = "scan" /\ u.todo = t.todo \ {s}
              /\ u.candidates = t.candidates \cup {s} /\ Complete(e.manifest)
           \/ /\ u.pc = "write" /\ u.then = "scan" /\ u.session = s
              /\ u.from = "ready" /\ u.to = "failed" /\ u.todo = t.todo \ {s}
              /\ u.candidates = t.candidates
              /\ ~GoodWith(u.manifest, e.video)
              /\ Complete(e.manifest) => Complete(u.manifest)
    BY <1>1, <1>2, ProcessorFails
    DEF Iterates, VerifiedIn, Verified, Readable, Complete
  <1>4. ProcessorFits(u, disk, fate)
    BY <1>1, <1>2, <1>3, Scanning, Names
    DEF ProcessorFits, Waits, Loop, EffectPCs, MovingLoops, Present
  <1>5. Fits(p, u, disk, fate) /\ StillExcuses(p, u, {})
    BY <1>1, <1>4, Scanning DEF Fits, StillExcuses
  <1> QED BY <1>1, <1>3, <1>5, ControlStep

\* A locked candidate is still there to be claimed.
LEMMA LockCandidateStep ==
  ASSUME SInv, LockCandidate
  PROVE  SInv' /\ Guarantee(Processor)
  <1> DEFINE p == Processor  t == task[p]
  <1>1. /\ t.pc = "scan" /\ RestType /\ UNCHANGED fate /\ p \in Actors
        /\ \A x \in t.todo \cup t.candidates : x \in Sessions /\ disk[x]["ready"] # Absent
        /\ t.todo \cap t.candidates = {}
        /\ \A x \in t.candidates : Complete(disk[x]["ready"].manifest)
        /\ \A x : ~Excused(x, t)
    BY LockCandidateShape, Scanning, Names DEF SameTime
  <1>2. CASE UNCHANGED disk /\ \E u \in Task : Goes(p, u) /\ Starts(u, "idle", {}, 0)
    <2>1. PICK u \in Task : Goes(p, u) /\ u.pc = "idle"
      BY <1>2 DEF Starts
    <2>2. StillExcuses(p, u, {})
      BY <1>1 DEF StillExcuses
    <2> QED BY <1>1, <1>2, <2>1, <2>2, RestingFits, ControlStep
  <1>3. ASSUME NEW s \in t.candidates \cap Sessions, NEW u \in Task,
               Goes(p, u), UNCHANGED disk, Iterates(u, t, t.todo, t.candidates \ {s})
        PROVE  SInv' /\ Guarantee(p)
    <2>1. Fits(p, u, disk, fate) /\ StillExcuses(p, u, {})
      BY <1>1, <1>3
      DEF Fits, ProcessorFits, Waits, Loop, EffectPCs, StillExcuses, Iterates
    <2> QED BY <1>1, <1>3, <2>1, ControlStep
  <1>4. ASSUME NEW s \in t.candidates \cap Sessions, NEW u \in Task, NEW x \in Entry,
               Present(s, "ready"), Complete(disk[s]["ready"].manifest),
               Goes(p, u), u.pc = "claimMove", u.session = s,
               Puts(s, "ready", x), Touches(x, disk[s]["ready"]), ~x.temp
        PROVE  SInv' /\ Guarantee(p)
    <2>1. Fits(p, u, disk', fate') /\ StillExcuses(p, u, {s})
      BY <1>1, <1>4 DEF Fits, ProcessorFits, Loop, EffectPCs, StillExcuses, Puts, Touches
    <2>2. Good(x) => Says(x.manifest, "ready")
      BY <1>4, GoodIsPlaced DEF Good, Touches
    <2>3. x # Absent /\ x.manifest = disk[s]["ready"].manifest
      BY <1>4 DEF Touches
    <2> QED BY <1>1, <1>4, <2>1, <2>2, <2>3, Names, PutStep DEF Owns
  <1> QED BY <1>2, <1>3, <1>4, LockCandidateShape

\* The claimed directory is what the ready one was (move_session_directory).
LEMMA MoveClaimStep ==
  ASSUME SInv, MoveClaim
  PROVE  SInv' /\ Guarantee(Processor)
  <1> DEFINE p == Processor  t == task[p]  s == t.session  e == disk[s]["ready"]
  <1>1. /\ t.pc = "claimMove" /\ RestType /\ UNCHANGED fate /\ p \in Actors
        /\ s \in Sessions /\ Present(s, "ready") /\ Complete(e.manifest) /\ ~e.temp
        /\ Good(e) => Says(e.manifest, "ready")
        /\ \A y : ~Excused(y, t)
    BY MoveClaimShape, Names DEF SameTime
  <1>2. ASSUME NEW u \in Task, NEW x \in Entry, Goes(p, u), u.pc = "error",
               Puts(s, "ready", x), Touches(x, e), ~x.temp
        PROVE  SInv' /\ Guarantee(p)
    <2>1. Fits(p, u, disk', fate') /\ StillExcuses(p, u, {s})
      BY <1>1, <1>2, RestingFits, StoppingExcuses
    <2>2. (Good(x) => Says(x.manifest, "ready")) /\ x.manifest = e.manifest
      BY <1>1, <1>2 DEF Good, Touches
    <2> QED BY <1>1, <1>2, <2>1, <2>2, Names, PutStep DEF Owns
  <1>3. ASSUME NEW u \in Task, NEW m \in Manifest, Goes(p, u), ~Present(s, "claimed"),
               Moves(s, "ready", "claimed"), Complete(m), Says(m, "claimed"),
               Writes(u, t, {}, s, "claimed", "claimed", m, "unlock")
        PROVE  SInv' /\ Guarantee(p)
    <2>1. Fits(p, u, disk', fate') /\ StillExcuses(p, u, {})
      BY <1>1, <1>3
      DEF Fits, ProcessorFits, StillExcuses, Writes, Moves, Loop, EffectPCs, Present
    <2> QED BY <1>1, <1>3, <2>1, Names, MoveStep DEF Owns
  <1> QED BY <1>2, <1>3, MoveClaimShape

\* The lock is released over an unchanged manifest (ClaimLock::release).
LEMMA UnlockStep ==
  ASSUME SInv, Unlock
  PROVE  SInv' /\ Guarantee(Processor)
  <1> DEFINE p == Processor  t == task[p]  s == t.session  e == disk[s]["claimed"]
  <1>1. t.pc = "unlock" /\ RestType /\ UNCHANGED fate /\ p \in Actors
    BY UnlockShape, Names DEF SameTime
  <1>2. PICK u \in Task, x \in Entry :
          /\ Goes(p, u) /\ Steps(u, t, "holding")
          /\ Puts(s, "claimed", x) /\ Touches(x, e) /\ x.temp = e.temp
    BY UnlockShape
  <1>3. /\ s \in Sessions /\ Present(s, "claimed") /\ Complete(e.manifest)
        /\ Says(e.manifest, "claimed") /\ \A y : ~Excused(y, t)
    BY <1>1, Claimed
  <1>4. x # Absent /\ x.manifest = e.manifest
    BY <1>2 DEF Touches
  <1> HIDE DEF e
  <1>5. Fits(p, u, disk', fate') /\ StillExcuses(p, u, {})
    BY <1>2, <1>3, <1>4 DEF Fits, ProcessorFits, Puts, Loop, EffectPCs, StillExcuses, Steps
  <1> QED BY <1>1, <1>2, <1>3, <1>4, <1>5, Names, PutStep DEF Owns, e

-----------------------------------------------------------------------------
(* The processor keeps SInv: the holder of a claim.                        *)

\* A released session is as complete as it was (release_claim).
LEMMA ReleaseClaimStep ==
  ASSUME SInv, ReleaseClaim
  PROVE  SInv' /\ Guarantee(Processor)
  <1> DEFINE p == Processor  t == task[p]  s == t.session
  <1>1. t.pc = "holding" /\ RestType /\ UNCHANGED <<disk, fate>> /\ p \in Actors
    BY ReleaseClaimShape, Names DEF SameTime
  <1>2. s \in Sessions /\ Present(s, "claimed") /\ \A y : ~Excused(y, t)
    BY <1>1, Claimed
  <1>3. CASE Errs(p)
    BY <1>1, <1>3, ErrorStep
  <1>4. ASSUME NEW u \in Task, NEW m \in Manifest, Complete(m), Says(m, "ready"),
               Goes(p, u), Writes(u, t, {}, s, "claimed", "ready", m, "down")
        PROVE  SInv' /\ Guarantee(p)
    <2>1. Fits(p, u, disk, fate) /\ StillExcuses(p, u, {})
      BY <1>2, <1>4
      DEF Fits, ProcessorFits, Writes, Loop, EffectPCs, MovingLoops, StillExcuses, Present
    <2> QED BY <1>1, <1>4, <2>1, ControlStep
  <1> QED BY <1>3, <1>4, ReleaseClaimShape

\* A verdict is recorded before the session is given up (mark_claim_failed).
LEMMA MarkClaimFailedStep ==
  ASSUME SInv, MarkClaimFailed
  PROVE  SInv' /\ Guarantee(Processor)
  <1> DEFINE p == Processor  t == task[p]  s == t.session  e == disk[s]["claimed"]
  <1>1. /\ t.pc = "holding" /\ UNCHANGED disk /\ RestType /\ p \in Actors
        /\ Decides(s, "failed") /\ fate[s] \in {"published", "failed"}
    BY MarkClaimFailedShape, Names DEF SameTime, Undecided
  <1>2. PICK u \in Task : Fails(p, u, t, {}, s, "claimed", e, "idle")
    BY MarkClaimFailedShape
  <1>3. s \in Sessions /\ Present(s, "claimed") /\ \A y : ~Excused(y, t)
    BY <1>1, Claimed
  <1>4. /\ Goes(p, u)
        /\ \/ u.pc = "error"
           \/ /\ u.pc = "write" /\ u.then = "idle" /\ u.session = s
              /\ u.from = "claimed" /\ u.to = "failed"
              /\ Complete(e.manifest) => Complete(u.manifest)
    BY <1>2, ProcessorFails
  <1>5. ProcessorFits(u, disk', fate')
    BY <1>1, <1>3, <1>4
    DEF ProcessorFits, Loop, EffectPCs, MovingLoops, Decides, Present
  <1>6. Fits(p, u, disk', fate') /\ StillExcuses(p, u, {})
    BY <1>3, <1>5 DEF Fits, StillExcuses
  <1> QED BY <1>1, <1>3, <1>4, <1>6, DecideStep

\* A committed result leaves the claim as it is.
LEMMA CommitResultStep ==
  ASSUME SInv, CommitResult
  PROVE  SInv' /\ Guarantee(Processor)
  <1> DEFINE p == Processor  t == task[p]  s == t.session
  <1>1. /\ t.pc = "holding" /\ UNCHANGED disk /\ RestType /\ p \in Actors
        /\ Goes(p, t) /\ Decides(s, "prepared") /\ ProcessorFits(t, disk, fate)
    BY CommitResultShape, ProcessorState DEF SameTime
  <1>2. s \in Sessions /\ Says(disk[s]["claimed"].manifest, "claimed")
    BY <1>1, Claimed
  <1>3. Fits(p, t, disk', fate') /\ StillExcuses(p, t, {})
    BY <1>1 DEF Fits, ProcessorFits, EffectPCs, Loop, StillExcuses
  <1> QED BY <1>1, <1>2, <1>3, DecideStep

\* Only a session whose result is durable is deleted (delete_claimed).
LEMMA DeleteClaimedStep ==
  ASSUME SInv, DeleteClaimed
  PROVE  SInv' /\ Guarantee(Processor)
  <1> DEFINE p == Processor  t == task[p]  s == t.session
  <1>1. t.pc = "holding" /\ RestType /\ p \in Actors /\ Decides(s, "deleted")
    BY DeleteClaimedShape, Names DEF SameTime
  <1>2. PICK u \in Task : Empties(p, u, At("idle"), {}, s, "claimed", "idle")
    BY DeleteClaimedShape
  <1>3. s \in Sessions /\ Present(s, "claimed") /\ \A y : ~Excused(y, t)
    BY <1>1, Claimed
  <1>4. PICK e \in Entry : Puts(s, "claimed", e) /\ ~Good(e) /\ e # Absent
    BY <1>2 DEF Empties
  <1>5. Goes(p, u) /\ u.pc = "remove" /\ u.session = s /\ u.from = "claimed" /\ u.then = "idle"
    BY <1>2 DEF Empties
  <1>6. fate'[s] = "deleted"
    BY <1>1 DEF Decides
  <1>7. Fits(p, u, disk', fate') /\ StillExcuses(p, u, {})
    BY <1>3, <1>4, <1>5, <1>6
    DEF Fits, ProcessorFits, Puts, Loop, EffectPCs, StillExcuses
  <1> QED BY <1>1, <1>3, <1>4, <1>5, <1>6, <1>7, Names, PutStep DEF Owns

-----------------------------------------------------------------------------
(* The world keeps SInv.                                                   *)

\* A stopped process leaves the disk as it is.
LEMMA CrashStep ==
  ASSUME SInv, NEW p \in Actors, Crash(p)
  PROVE  SInv' /\ Guarantee(p)
  BY CrashShape, StopStep DEF SameTime, Starts

\* A damaged video is not good, and changes nothing a process relies on.
LEMMA DamageVideoStep ==
  ASSUME SInv, NEW s \in Sessions, NEW d \in Dirs, DamageVideo(s, d)
  PROVE  SInv' /\ Guarantee(Processor)
  <1> DEFINE e == disk[s][d]  t == task[Processor]
  <1>1. /\ UNCHANGED <<task, fate>> /\ RestType /\ TypeOK /\ Present(s, d)
        /\ d \in {"ready", "claimed"}
    BY DamageVideoShape DEF SameTime, SInv
  <1>2. PICK x \in Entry :
          /\ Puts(s, d, x) /\ x # Absent /\ x.video = "broken"
          /\ x.manifest = e.manifest /\ x.temp = e.temp
    BY DamageVideoShape
  <1>3. Goes(Processor, t) /\ StillExcuses(Processor, t, IF d = "ready" THEN {s} ELSE {})
    BY <1>1, ProcessorState DEF Goes, StillExcuses, TypeOK
  <1>4. Fits(Processor, t, disk', fate')
    <2>1. ProcessorFits(t, disk, fate) /\ t.todo \subseteq Sessions /\ t.candidates \subseteq Sessions
      BY ProcessorState
    <2> HIDE DEF t, e
    <2>2. ProcessorFits(t, disk', fate')
      BY <1>1, <1>2, <2>1, Names
      DEF ProcessorFits, Puts, Waits, Loop, EffectPCs, Good, GoodWith, e
    <2> QED BY <2>2 DEF Fits
  <1>5. d = "ready" /\ x.temp => Excused(s, t)
    BY <1>1, <1>2, ProcessorState DEF Tidy, Present
  <1>6. ~Good(x)
    BY <1>2 DEF Good, GoodWith
  <1> QED BY <1>1, <1>2, <1>3, <1>4, <1>5, <1>6, ProcessorState, PutStep DEF Owns

\* A clock set back moves no directory.
LEMMA SetClockBackStep ==
  ASSUME SInv, SetClockBack
  PROVE  SInv' /\ Guarantee(Processor)
  <1> DEFINE t == task[Processor]
  <1>1. UNCHANGED <<disk, task, fate>> /\ RestType /\ TypeOK /\ t \in Task
    BY ProcessorState DEF SetClockBack, RestType
  <1>2. Goes(Processor, t) /\ StillExcuses(Processor, t, {})
    BY <1>1 DEF Goes, StillExcuses, TypeOK
  <1>3. Fits(Processor, t, disk, fate)
    BY Names DEF SInv
  <1> QED BY <1>1, <1>2, <1>3, Names, ControlStep

-----------------------------------------------------------------------------
(* Every step.                                                             *)

\* Every step of a recorder keeps the invariant.
LEMMA RecorderKeeps ==
  ASSUME SInv, NEW c \in Cameras, RecorderStep(c)
  PROVE  SInv' /\ \E p \in Actors : Guarantee(p)
  <1>1. SInv' /\ Guarantee(c)
    BY StartRecorderStep, RecoverCaptureStep, RecorderRestsStep, BeginCaptureStep,
       FinalizeCaptureStep, DiscardCaptureStep DEF RecorderStep
  <1> QED BY <1>1, Names

\* Every step of the processor keeps the invariant.
LEMMA ProcessorKeeps ==
  ASSUME SInv,
         \/ ProcessorStartup \/ ProcessorClaim
         \/ ReleaseClaim \/ MarkClaimFailed \/ CommitResult \/ DeleteClaimed
  PROVE  SInv' /\ \E p \in Actors : Guarantee(p)
  <1>1. CASE ProcessorStartup
    BY <1>1, StartProcessorStep, PurgePreparedStep, FinishPurgeStep, RecoverReadyStep,
       FinishRecoverReadyStep, RecoverClaimedStep, FinishRecoveryStep, Names
    DEF ProcessorStartup
  <1>2. CASE ProcessorClaim
    BY <1>2, StartClaimStep, ScanReadyStep, LockCandidateStep, MoveClaimStep, UnlockStep, Names
    DEF ProcessorClaim
  <1>3. CASE ReleaseClaim \/ MarkClaimFailed \/ CommitResult \/ DeleteClaimed
    BY <1>3, ReleaseClaimStep, MarkClaimFailedStep, CommitResultStep, DeleteClaimedStep, Names
  <1> QED BY <1>1, <1>2, <1>3

\* Every effect, crash, damaged video and change of the clock keeps the invariant.
LEMMA WorldKeeps ==
  ASSUME SInv,
         \/ \E p \in Actors : DurableEffect(p) \/ Crash(p)
         \/ \E s \in Sessions, d \in Dirs : DamageVideo(s, d)
         \/ SetClockBack
  PROVE  SInv' /\ \E p \in Actors : Guarantee(p)
  <1>1. ASSUME NEW p \in Actors, DurableEffect(p) PROVE SInv' /\ Guarantee(p)
    BY <1>1, WriteTempStep, CommitManifestStep, MoveDirectoryStep, FinishRemoveStep
    DEF DurableEffect
  <1>2. ASSUME NEW p \in Actors, Crash(p) PROVE SInv' /\ Guarantee(p)
    BY <1>2, CrashStep
  <1>3. ASSUME NEW s \in Sessions, NEW d \in Dirs, DamageVideo(s, d)
        PROVE  SInv' /\ Guarantee(Processor)
    BY <1>3, DamageVideoStep
  <1>4. CASE SetClockBack
    BY <1>4, SetClockBackStep, Names
  <1> QED BY <1>1, <1>2, <1>3, <1>4, Names

\* Every step keeps the invariant, and one process is answerable for it.
LEMMA NextKeeps ==
  ASSUME SInv, Next
  PROVE  SInv' /\ \E p \in Actors : Guarantee(p)
  BY RecorderKeeps, ProcessorKeeps, WorldKeeps DEF Next

\* Nothing is on disk and no process runs.
LEMMA Initially ==
  ASSUME Init
  PROVE  SInv
  <1>1. At("down") \in Task /\ At("down").pc = "down"
    BY AtTask DEF PCs, Starts
  <1>2. \A s \in Sessions, d \in Dirs : disk[s][d] = Absent
    BY DEF Init
  <1>3. \A p \in Actors : task[p] = At("down") /\ Fits(p, task[p], disk, fate)
    BY <1>1, RestingFits DEF Init
  <1>4. TypeOK
    BY <1>1, ConstantsAssumption DEF Init, TypeOK, Times, Fates
  <1>5. \A s \in Sessions : fate[s] = "none"
    BY DEF Init
  <1>6. \A s \in Sessions : Kept(disk[s], fate[s]) /\ Placed(disk[s], fate[s])
                            /\ Tidy(s, disk[s], task[Processor])
    BY <1>2, <1>5, Names DEF Kept, Placed, Tidy
  <1> QED BY <1>3, <1>4, <1>6 DEF SInv

\* The invariant is a predicate of the state.
LEMMA Stuttering ==
  ASSUME SInv, UNCHANGED vars
  PROVE  SInv'
  BY DEF SInv, vars, TypeOK

\* Whatever crashes, however the clock is set: every process finds the sessions
\* it still refers to where it left them, no published recording is lost, a good
\* recording says where it is, and recovery leaves no unfinished write in ready.
THEOREM StorageInvariant == Spec => []SInv
  <1>1. Init => SInv
    BY Initially
  <1>2. SInv /\ [Next]_vars => SInv'
    BY NextKeeps, Stuttering
  <1> QED BY <1>1, <1>2, PTL DEF Spec

\* Every directory, task and verdict keeps its type: no interleaving of
\* recorders, processor, crashes and recoveries makes a process write
\* something that is not a manifest or remember a session it may not.
THEOREM StorageTypeOK == Spec => []TypeOK
  <1>1. SInv => TypeOK
    BY DEF SInv
  <1> QED BY <1>1, StorageInvariant, PTL

\* A published recording stays on disk, complete, until its result is durable:
\* no crash, release, failure or recovery of either side loses it, and neither
\* does a clock that is set back (move_session_directory, recover_processing).
THEOREM StorageKeepsPublished == Spec => []PublishedIsKept
  <1>1. SInv => PublishedIsKept
    BY Names DEF SInv, PublishedIsKept, Kept, Complete, Present
  <1> QED BY <1>1, StorageInvariant, PTL

\* What reached failed is never changed or removed: every operation refuses a
\* failed directory of the name it moves (fail_session).
THEOREM StorageFailedIsFinal == Spec => FailedIsFinal
  <1>1. ASSUME SInv, Next
        PROVE  \A s \in Sessions : Present(s, "failed") => disk'[s]["failed"] = disk[s]["failed"]
    BY <1>1, NextKeeps, Names DEF Guarantee, Owns
  <1>2. SInv /\ [Next]_vars =>
          [\A s \in Sessions : Present(s, "failed") => disk'[s]["failed"] = disk[s]["failed"]]_vars
    BY <1>1
  <1> QED BY <1>2, StorageInvariant, PTL DEF Spec, FailedIsFinal

\* A capture changes only in a step of the recorder of its own camera: the
\* processor and the other recorders keep out of it (recover_recording).
THEOREM StorageCaptureHasOneOwner == Spec => CaptureHasOneOwner
  <1>1. ASSUME SInv, Next
        PROVE  \A s \in Sessions : disk'[s]["capturing"] # disk[s]["capturing"]
                 => task'[Camera(s)] # task[Camera(s)]
    BY <1>1, NextKeeps, Names DEF Guarantee, Owns
  <1>2. SInv /\ [Next]_vars =>
          [\A s \in Sessions : disk'[s]["capturing"] # disk[s]["capturing"]
             => task'[Camera(s)] # task[Camera(s)]]_vars
    BY <1>1
  <1> QED BY <1>2, StorageInvariant, PTL DEF Spec, CaptureHasOneOwner

\* A complete recording with a legal history and a matching checksum reaches
\* failed only on the processor's verdict, whoever crashes and whichever recovery
\* runs (verify_completed, fail_session).
THEOREM StorageSoundNeverFailed == Spec => SoundNeverFailed
  <1> DEFINE Verdict ==
        \A s \in Sessions : ~Present(s, "failed") /\ Present(s, "failed")' =>
          LET e == disk'[s]["failed"] IN
          e.manifest # NoManifest /\ e.manifest.finished /\ e.manifest.sound
            /\ e.video = "intact" => fate[s] = "failed"
  <1>1. ASSUME SInv, Next PROVE Verdict
    BY <1>1, NextKeeps, Names DEF Guarantee, Present, Good, GoodWith, Complete
  <1>2. SInv /\ [Next]_vars => [Verdict]_vars
    BY <1>1
  <1> QED BY <1>2, StorageInvariant, PTL DEF Spec, SoundNeverFailed

-----------------------------------------------------------------------------
(* A clock that is never set back.  Then a session name is used once, no   *)
(* operation finds what it does not expect, and the session of a durable   *)
(* result is never work again.                                             *)

\* The manifest m was written before now.
Timed(m, now) == m # NoManifest => m.at <= now

\* m says where it is, along a legal history.
Legal(m, state) == Says(m, state) /\ m.sound

\* What a recorder at t expects: the manifest it wrote, and no leftover.
RecorderRuns(t, D) ==
  LET e == D[t.session]["capturing"] IN
  /\ t.pc = "write" => ~e.temp
  /\ t.pc \in {"write", "commit"} /\ t.to = "capturing" => Legal(t.manifest, "capturing")
  /\ t.pc = "capturing" => Legal(e.manifest, "capturing") /\ ~e.temp

\* What the processor at t expects of the sessions it refers to.
ProcessorRuns(t, D, F) ==
  LET s == t.session IN
  /\ t.pc = "write" => ~D[s][t.from].temp
  /\ t.pc \in {"write", "commit"} /\ t.to = "claimed" => Legal(t.manifest, "claimed")
  /\ t.pc \in {"unlock", "holding"} =>
       Legal(D[s]["claimed"].manifest, "claimed") /\ ~D[s]["claimed"].temp
  /\ t.pc = "claimMove" =>
       Legal(D[s]["ready"].manifest, "ready") /\ Timed(D[s]["ready"].manifest, t.now)
  /\ Loop(t) = "scan" =>
       /\ \A x \in t.todo \cup t.candidates : Timed(D[x]["ready"].manifest, t.now)
       /\ \A x \in t.candidates : Legal(D[x]["ready"].manifest, "ready")
  /\ Loop(t) = "purge" => \A x \in t.todo : Durable(F[x])

\* Process p at t finds what it expects.
Runs(p, t, D, F, now) ==
  /\ t.pc # "error" /\ t.now <= now /\ Timed(t.manifest, now)
  /\ IF p = Processor THEN ProcessorRuns(t, D, F) ELSE RecorderRuns(t, D)

\* The directories h of session s with fate f: one at most, none before the
\* name is used, and only the claimed one once the result is durable.
Housed(s, h, f, now) ==
  /\ \A d1, d2 \in Dirs : h[d1] # Absent /\ h[d2] # Absent => d1 = d2
  /\ f = "none" => \A d \in Dirs : h[d] = Absent
  /\ StartedAt(s) >= now => f = "none"
  /\ Durable(f) => \A d \in Dirs \ {"claimed"} : h[d] = Absent
  /\ \A d \in Dirs : h[d] # Absent => Timed(h[d].manifest, now)

\* The processor at t is about to remove s, or will be once it is restarted.
Ends(s, t) ==
  \/ t.pc \in {"down", "error"}
  \/ Loop(t) = "purge" /\ s \in t.todo
  \/ t.pc \in {"holding", "remove"} /\ t.session = s

\* A session whose result is durable is removed before it can be work again.
Ending(s, h, f, t) == Durable(f) /\ h["claimed"] # Absent => Ends(s, t)

\* The invariant that holds when the clock is never set back.
CInv ==
  /\ \A p \in Actors : Runs(p, task[p], disk, fate, clock)
  /\ \A s \in Sessions : /\ Housed(s, disk[s], fate[s], clock)
                         /\ Ending(s, disk[s], fate[s], task[Processor])

-----------------------------------------------------------------------------
(* The place of a session in its lifecycle.                                *)

\* Where a session with directories h and fate f is.
WhereOf(h, f) ==
  IF \E d \in Dirs : h[d] # Absent THEN CHOOSE d \in Dirs : h[d] # Absent
  ELSE IF f = "none" THEN "new" ELSE "gone"

\* s stays where it is, or goes on along an edge of the lifecycle.
Follows(s) ==
  \/ WhereOf(disk'[s], fate'[s]) = WhereOf(disk[s], fate[s])
  \/ <<WhereOf(disk[s], fate[s]), WhereOf(disk'[s], fate'[s])>> \in Lifecycle!Edges

\* One session at most follows an edge.
Travels ==
  \/ UNCHANGED <<disk, fate>>
  \/ \E s \in Sessions : /\ \A x \in Sessions \ {s} : disk'[x] = disk[x] /\ fate'[x] = fate[x]
                         /\ Follows(s)

\* A session with one directory is in that directory.
LEMMA WhereIs ==
  ASSUME NEW h, NEW f, NEW d \in Dirs, h[d] # Absent,
         \A d1, d2 \in Dirs : h[d1] # Absent /\ h[d2] # Absent => d1 = d2
  PROVE  WhereOf(h, f) = d
  BY DEF WhereOf

\* A session without a directory is new, or gone for good.
LEMMA WhereIsNot ==
  ASSUME NEW h, NEW f, \A d \in Dirs : h[d] = Absent
  PROVE  WhereOf(h, f) = IF f = "none" THEN "new" ELSE "gone"
  BY DEF WhereOf

-----------------------------------------------------------------------------
(* Who may disturb whom.                                                   *)

\* The clock goes on or stands still.
Forward == clock' \in Times /\ clock <= clock'

\* The other processes still find what they expect after a step of p.
LEMMA OthersRun ==
  ASSUME SInv, CInv, NEW p \in Actors, NEW q \in Actors, q # p, Guarantee(p),
         task'[q] = task[q], Forward
  PROVE  Runs(q, task'[q], disk', fate', clock')
  <1> DEFINE t == task[q]
  <1>1. /\ Runs(q, t, disk, fate, clock) /\ Fits(q, t, disk, fate) /\ t \in Task
        /\ clock \in Times
    BY DEF SInv, CInv, TypeOK
  <1>2. t.pc # "error" /\ t.now <= clock' /\ Timed(t.manifest, clock')
    <2>1. t.now \in Nat /\ clock \in Nat /\ clock' \in Nat
      BY <1>1, ConstantsAssumption DEF Forward, Task, Times
    <2>2. t.manifest # NoManifest => t.manifest.at \in Nat
      BY <1>1, ConstantsAssumption DEF Task, Manifest, Times
    <2> HIDE DEF t
    <2> QED BY <1>1, <2>1, <2>2 DEF Runs, Timed, Forward
  <1>3. CASE q = Processor
    <2>1. \A s \in Sessions, d \in {"ready", "claimed"} :
             disk[s][d] # Absent => disk'[s][d] = disk[s][d]
      BY <1>3, Names DEF Guarantee, Owns, Present
    <2>2. \A s \in Sessions : Durable(fate[s]) => Durable(fate'[s])
      BY <1>3 DEF Guarantee, Durable
    <2>3. t.todo \subseteq Sessions /\ t.candidates \subseteq Sessions
      BY <1>1 DEF Task
    <2>4. ProcessorFits(t, disk, fate) /\ ProcessorRuns(t, disk, fate)
      BY <1>1, <1>3 DEF Fits, Runs
    <2> HIDE DEF t
    <2>5. ProcessorRuns(t, disk', fate')
      BY <2>1, <2>2, <2>3, <2>4 DEF ProcessorRuns, ProcessorFits, Waits, Loop, EffectPCs
    <2> QED BY <1>2, <1>3, <2>5 DEF Runs, t
  <1>4. CASE q # Processor
    <2>1. \A s \in Sessions : Camera(s) = q => disk'[s]["capturing"] = disk[s]["capturing"]
      BY <1>4, Names DEF Guarantee, Owns
    <2>2. RecorderFits(q, t, disk) /\ RecorderRuns(t, disk)
      BY <1>1, <1>4 DEF Fits, Runs
    <2> HIDE DEF t
    <2>3. RecorderRuns(t, disk')
      BY <2>1, <2>2 DEF RecorderRuns, RecorderFits, EffectPCs
    <2> QED BY <1>2, <1>4, <2>3 DEF Runs, t
  <1> QED BY <1>3, <1>4

\* The processor, now at u, still ends every session it was about to, but those of S.
StillEnds(p, u, S) ==
  p = Processor => \A x \in Sessions \ S :
    Durable(fate[x]) /\ Present(x, "claimed") /\ Ends(x, task[Processor]) => Ends(x, u)

\* What a step of p that changes only the sessions of S has to establish.
LEMMA ClockedStep ==
  ASSUME SInv, CInv, NEW p \in Actors, NEW u, Goes(p, u), Guarantee(p), Forward,
         Runs(p, u, disk', fate', clock'), NEW S,
         \A x \in Sessions \ S : disk'[x] = disk[x] /\ fate'[x] = fate[x],
         \A x \in Sessions \cap S : /\ Housed(x, disk'[x], fate'[x], clock')
                                    /\ Ending(x, disk'[x], fate'[x], task'[Processor]),
         StillEnds(p, u, S)
  PROVE  CInv'
  <1>1. ASSUME NEW q \in Actors PROVE Runs(q, task'[q], disk', fate', clock')
    <2>1. CASE q = p
      BY <2>1 DEF Goes
    <2>2. CASE q # p
      BY <2>2, OthersRun DEF Goes
    <2> QED BY <2>1, <2>2
  <1>2. ASSUME NEW x \in Sessions \ S
        PROVE  /\ Housed(x, disk'[x], fate'[x], clock')
               /\ Ending(x, disk'[x], fate'[x], task'[Processor])
    <2>1. /\ Housed(x, disk[x], fate[x], clock)
          /\ Ending(x, disk[x], fate[x], task[Processor])
          /\ disk'[x] = disk[x] /\ fate'[x] = fate[x]
      BY DEF CInv
    <2>2. clock \in Nat /\ clock' \in Nat /\ clock <= clock' /\ StartedAt(x) \in Nat
      BY ConstantsAssumption, SessionParts DEF SInv, TypeOK, Forward, Times
    <2>3. \A d \in Dirs : disk[x][d] # Absent /\ disk[x][d].manifest # NoManifest
            => disk[x][d].manifest.at \in Nat
      BY ConstantsAssumption DEF SInv, TypeOK, Entry, Manifest, Times
    <2>4. Housed(x, disk[x], fate[x], clock')
      BY <2>1, <2>2, <2>3 DEF Housed, Timed
    <2>5. Ending(x, disk[x], fate[x], task'[Processor])
      BY <2>1, Names DEF Ending, StillEnds, Goes, Present
    <2> QED BY <2>1, <2>4, <2>5
  <1> QED BY <1>1, <1>2 DEF CInv

\* What CInv says of a session.
LEMMA Home ==
  ASSUME SInv, CInv, NEW s \in Sessions, NEW d \in Dirs, Present(s, d)
  PROVE  /\ \A x \in Dirs : x # d => ~Present(s, x)
         /\ fate[s] # "none" /\ StartedAt(s) < clock
         /\ Durable(fate[s]) => d = "claimed" /\ Ends(s, task[Processor])
         /\ Timed(disk[s][d].manifest, clock)
         /\ WhereOf(disk[s], fate[s]) = d
  <1>1. Housed(s, disk[s], fate[s], clock) /\ Ending(s, disk[s], fate[s], task[Processor])
    BY DEF CInv
  <1>2. clock \in Nat /\ StartedAt(s) \in Nat
    BY ConstantsAssumption, SessionParts DEF SInv, TypeOK, Times
  <1>3. WhereOf(disk[s], fate[s]) = d
    BY <1>1, WhereIs DEF Housed, Present
  <1> QED BY <1>1, <1>2, <1>3 DEF Housed, Ending, Present

-----------------------------------------------------------------------------
(* The forms of a step.                                                    *)

\* A step that changes no directory and decides nothing.
LEMMA ClockedControl ==
  ASSUME SInv, CInv, NEW p \in Actors, NEW u, Goes(p, u), Guarantee(p), Forward,
         UNCHANGED <<disk, fate>>, Runs(p, u, disk, fate, clock'), StillEnds(p, u, {})
  PROVE  CInv' /\ Travels
  BY ClockedStep DEF Travels

\* A step that rewrites one directory.
LEMMA ClockedPut ==
  ASSUME SInv, CInv, NEW p \in Actors, NEW u, Goes(p, u), Guarantee(p), SameTime,
         NEW s \in Sessions, NEW d \in Dirs, NEW e \in Entry,
         Present(s, d), Puts(s, d, e), Timed(e.manifest, clock),
         fate' = fate \/ (Durable(fate[s]) /\ Decides(s, "deleted")),
         d # "claimed" \/ (p = Processor /\ (Durable(fate[s]) => Ends(s, u))),
         Runs(p, u, disk', fate', clock), StillEnds(p, u, {s})
  PROVE  CInv' /\ Travels
  <1>1. /\ disk' \in DiskSpace /\ disk'[s][d] = e /\ e # Absent
        /\ \A x \in Sessions, y \in Dirs : x # s \/ y # d => disk'[x][y] = disk[x][y]
    BY ConstantsAssumption DEF Puts
  <1>2. \A x \in Sessions \ {s} : disk'[x] = disk[x] /\ fate'[x] = fate[x]
    BY <1>1 DEF SInv, TypeOK, DiskSpace, Decides
  <1>3. /\ \A x \in Dirs : x # d => disk[s][x] = Absent
        /\ fate[s] # "none"
        /\ Durable(fate[s]) => d = "claimed"
        /\ StartedAt(s) < clock /\ WhereOf(disk[s], fate[s]) = d
    BY Home DEF Present
  <1>4. fate'[s] # "none" /\ (Durable(fate'[s]) => Durable(fate[s]))
    BY <1>3 DEF Decides, Durable
  <1>5. clock' = clock /\ Forward
    BY ConstantsAssumption DEF SameTime, Forward, RestType, SInv, TypeOK, Times
  <1>6. Housed(s, disk'[s], fate'[s], clock')
    <2>1. clock \in Nat /\ StartedAt(s) \in Nat
      BY ConstantsAssumption, SessionParts DEF SInv, TypeOK, Times
    <2> QED BY <1>1, <1>3, <1>4, <1>5, <2>1 DEF Housed
  <1>7. Ending(s, disk'[s], fate'[s], task'[Processor])
    BY <1>1, <1>3, <1>4, Names DEF Ending, Goes
  <1>8. WhereOf(disk'[s], fate'[s]) = d
    BY <1>1, <1>6, WhereIs DEF Housed
  <1>9. CInv'
    BY <1>2, <1>5, <1>6, <1>7, ClockedStep
  <1> QED BY <1>2, <1>3, <1>8, <1>9 DEF Travels, Follows

\* A step that renames a directory along an edge of the lifecycle.
LEMMA ClockedMove ==
  ASSUME SInv, CInv, NEW p \in Actors, NEW u, Goes(p, u), Guarantee(p), SameTime,
         NEW s \in Sessions, NEW from \in Dirs, NEW to \in Dirs, from # to,
         Present(s, from), Moves(s, from, to), ~Durable(fate[s]),
         fate' = fate \/ Decides(s, "published"),
         <<from, to>> \in Lifecycle!Edges,
         Runs(p, u, disk', fate', clock), StillEnds(p, u, {s})
  PROVE  CInv' /\ Travels
  <1>1. /\ disk' \in DiskSpace /\ disk'[s][to] = disk[s][from] /\ disk'[s][from] = Absent
        /\ \A x \in Sessions, y \in Dirs : x # s \/ y \notin {from, to} => disk'[x][y] = disk[x][y]
    BY DEF Moves
  <1>2. \A x \in Sessions \ {s} : disk'[x] = disk[x] /\ fate'[x] = fate[x]
    BY <1>1 DEF SInv, TypeOK, DiskSpace, Decides
  <1>3. /\ \A x \in Dirs : x # from => disk[s][x] = Absent
        /\ fate[s] # "none" /\ StartedAt(s) < clock /\ WhereOf(disk[s], fate[s]) = from
        /\ Timed(disk[s][from].manifest, clock) /\ disk[s][from] # Absent
    BY Home DEF Present
  <1>4. fate'[s] # "none" /\ ~Durable(fate'[s])
    BY <1>3 DEF Decides, Durable
  <1>5. clock' = clock /\ Forward
    BY ConstantsAssumption DEF SameTime, Forward, RestType, SInv, TypeOK, Times
  <1>6. Housed(s, disk'[s], fate'[s], clock')
    <2>1. clock \in Nat /\ StartedAt(s) \in Nat
      BY ConstantsAssumption, SessionParts DEF SInv, TypeOK, Times
    <2> QED BY <1>1, <1>3, <1>4, <1>5, <2>1 DEF Housed
  <1>7. Ending(s, disk'[s], fate'[s], task'[Processor])
    BY <1>4 DEF Ending
  <1>8. WhereOf(disk'[s], fate'[s]) = to
    BY <1>1, <1>3, <1>6, WhereIs DEF Housed
  <1>9. CInv'
    BY <1>2, <1>5, <1>6, <1>7, ClockedStep
  <1> QED BY <1>2, <1>3, <1>8, <1>9 DEF Travels, Follows

\* A step that removes a directory.
LEMMA ClockedDrop ==
  ASSUME SInv, CInv, NEW p \in Actors, NEW u, Goes(p, u), Guarantee(p), SameTime,
         NEW s \in Sessions, NEW d \in {"capturing", "claimed"},
         Present(s, d), Puts(s, d, Absent), fate' = fate,
         Runs(p, u, disk', fate', clock), StillEnds(p, u, {s})
  PROVE  CInv' /\ Travels
  <1>1. /\ disk' \in DiskSpace /\ disk'[s][d] = Absent
        /\ \A x \in Sessions, y \in Dirs : x # s \/ y # d => disk'[x][y] = disk[x][y]
    BY DEF Puts
  <1>2. \A x \in Sessions \ {s} : disk'[x] = disk[x] /\ fate'[x] = fate[x]
    BY <1>1 DEF SInv, TypeOK, DiskSpace
  <1>3. /\ \A x \in Dirs : x # d => disk[s][x] = Absent
        /\ fate[s] # "none" /\ StartedAt(s) < clock /\ WhereOf(disk[s], fate[s]) = d
    BY Home, Names DEF Present
  <1>4. \A x \in Dirs : disk'[s][x] = Absent
    BY <1>1, <1>3, Names
  <1>5. clock' = clock /\ Forward
    BY ConstantsAssumption DEF SameTime, Forward, RestType, SInv, TypeOK, Times
  <1>6. Housed(s, disk'[s], fate'[s], clock')
    <2>1. clock \in Nat /\ StartedAt(s) \in Nat
      BY ConstantsAssumption, SessionParts DEF SInv, TypeOK, Times
    <2> QED BY <1>3, <1>4, <1>5, <2>1 DEF Housed
  <1>7. Ending(s, disk'[s], fate'[s], task'[Processor])
    BY <1>4, Names DEF Ending
  <1>8. WhereOf(disk'[s], fate'[s]) = "gone"
    BY <1>3, <1>4, WhereIsNot
  <1>9. CInv'
    BY <1>2, <1>5, <1>6, <1>7, ClockedStep
  <1> QED BY <1>2, <1>3, <1>8, <1>9 DEF Travels, Follows, Lifecycle!Edges

\* A step in which a recorder creates the directory of a new session.
LEMMA ClockedCreate ==
  ASSUME SInv, CInv, NEW c \in Cameras, NEW u, Goes(c, u), Guarantee(c), RestType,
         NEW s \in Sessions, NEW e \in Entry, StartedAt(s) = clock, clock' = clock + 1,
         Puts(s, "capturing", e), e.manifest = NoManifest, Decides(s, "begun"),
         Runs(c, u, disk', fate', clock')
  PROVE  CInv' /\ Travels
  <1>1. /\ disk' \in DiskSpace /\ disk'[s]["capturing"] = e /\ e # Absent
        /\ \A x \in Sessions, y \in Dirs : x # s \/ y # "capturing" => disk'[x][y] = disk[x][y]
        /\ fate'[s] = "begun"
    BY ConstantsAssumption DEF Puts, Decides
  <1>2. \A x \in Sessions \ {s} : disk'[x] = disk[x] /\ fate'[x] = fate[x]
    BY <1>1 DEF SInv, TypeOK, DiskSpace, Decides
  <1>3. clock \in Nat /\ clock' \in Times
    BY ConstantsAssumption DEF SInv, TypeOK, Times, RestType
  <1>4. fate[s] = "none" /\ \A d \in Dirs : disk[s][d] = Absent
    BY <1>3 DEF CInv, Housed
  <1>5. Forward
    BY <1>3 DEF Forward
  <1>6. Housed(s, disk'[s], fate'[s], clock')
    BY <1>1, <1>3, <1>4, Names DEF Housed, Durable, Timed
  <1>7. Ending(s, disk'[s], fate'[s], task'[Processor])
    BY <1>1 DEF Ending, Durable
  <1>8. /\ WhereOf(disk[s], fate[s]) = "new"
        /\ WhereOf(disk'[s], fate'[s]) = "capturing"
    BY <1>1, <1>4, <1>6, WhereIs, WhereIsNot, Names DEF Housed
  <1>9. c \in Actors /\ StillEnds(c, u, {s})
    BY Names DEF StillEnds
  <1>10. CInv'
    BY <1>2, <1>5, <1>6, <1>7, <1>9, ClockedStep
  <1> QED BY <1>2, <1>8, <1>10 DEF Travels, Follows, Lifecycle!Edges

\* A step in which the processor decides something about s.
LEMMA ClockedDecide ==
  ASSUME SInv, CInv, NEW u, Goes(Processor, u), Guarantee(Processor), SameTime,
         UNCHANGED disk,
         NEW s \in Sessions, NEW f \in {"failed", "prepared", "deleted"}, Decides(s, f),
         fate[s] # "none",
         Durable(f) => \A d \in Dirs \ {"claimed"} : ~Present(s, d),
         Durable(f) /\ Present(s, "claimed") => Ends(s, u),
         Runs(Processor, u, disk', fate', clock), StillEnds(Processor, u, {s})
  PROVE  CInv' /\ Travels
  <1>1. fate'[s] = f /\ task'[Processor] = u /\ disk' = disk
        /\ \A x \in Sessions \ {s} : fate'[x] = fate[x]
    BY DEF Decides, Goes
  <1>2. clock' = clock /\ Forward
    BY ConstantsAssumption DEF SameTime, Forward, RestType, SInv, TypeOK, Times
  <1>3. Housed(s, disk[s], fate[s], clock) /\ StartedAt(s) < clock
    <2>1. clock \in Nat /\ StartedAt(s) \in Nat
      BY ConstantsAssumption, SessionParts DEF SInv, TypeOK, Times
    <2> QED BY <2>1 DEF CInv, Housed
  <1>4. Housed(s, disk'[s], fate'[s], clock')
    <2>1. clock \in Nat /\ StartedAt(s) \in Nat
      BY ConstantsAssumption, SessionParts DEF SInv, TypeOK, Times
    <2> QED BY <1>1, <1>2, <1>3, <2>1 DEF Housed, Present
  <1>5. Ending(s, disk'[s], fate'[s], task'[Processor])
    BY <1>1 DEF Ending, Present
  <1>6. WhereOf(disk'[s], fate'[s]) = WhereOf(disk[s], fate[s])
    BY <1>1 DEF WhereOf
  <1>7. CInv'
    BY <1>1, <1>2, <1>4, <1>5, Names, ClockedStep
  <1> QED BY <1>1, <1>6, <1>7 DEF Travels, Follows

-----------------------------------------------------------------------------
(* What a process finds.                                                   *)

\* The time of now, as numbers.
LEMMA Clock ==
  ASSUME SInv, SameTime
  PROVE  clock \in Nat /\ clock' = clock /\ Forward
  BY ConstantsAssumption DEF SameTime, Forward, RestType, SInv, TypeOK, Times

\* What CInv says of a process.
LEMMA Running ==
  ASSUME CInv, SInv, NEW p \in Actors
  PROVE  /\ Runs(p, task[p], disk, fate, clock)
         /\ task[p].now \in Nat /\ task[p].now <= clock /\ Timed(task[p].manifest, clock)
         /\ p = Processor => ProcessorRuns(task[p], disk, fate)
         /\ p # Processor => RecorderRuns(task[p], disk)
  BY ConstantsAssumption DEF CInv, SInv, TypeOK, Runs, Task, Times

\* A process that waits or is about to look around expects nothing.
LEMMA RestingRuns ==
  ASSUME SInv, NEW p \in Actors, NEW u, NEW pc \in {"down", "recover", "idle"}, NEW todo,
         NEW now \in Times, now <= clock, Starts(u, pc, todo, now)
  PROVE  \A D, F : Runs(p, u, D, F, clock)
  BY DEF Starts, Runs, Timed, ProcessorRuns, RecorderRuns, Loop, EffectPCs

\* The manifest fail_session writes is not from the future.
LEMMA GivenUpTimed ==
  ASSUME NEW m, NEW e, NEW now \in Nat, NEW later \in Nat, now <= later,
         GivesUp(m, e, now), Timed(e.manifest, later)
  PROVE  Timed(m, later)
  BY DEF GivesUp, Timed

\* A processor that moves a session to ready or failed is about to remove none.
LEMMA NothingEnds ==
  ASSUME SInv, task[Processor].pc \in {"write", "commit", "move"}
  PROVE  \A x : ~Ends(x, task[Processor])
  BY ProcessorState DEF ProcessorFits, MovingLoops, Ends, Loop, EffectPCs

\* No result of a session that is written or moved is durable.
LEMMA EffectUndecided ==
  ASSUME SInv, CInv, NEW p \in Actors, task[p].pc \in {"write", "commit", "move"}
  PROVE  LET t == task[p] IN
         /\ ~Durable(fate[t.session])
         /\ t.from # "claimed" \/ p = Processor
         /\ p # Processor => t.from = "capturing"
         /\ \A S, u : StillEnds(p, u, S)
  <1> DEFINE t == task[p]
  <1>1. /\ t.session \in Sessions /\ t.from \in Dirs /\ Present(t.session, t.from)
        /\ Owns(p, t.session, t.from)
    BY EffectSession DEF EffectPCs
  <1>2. p # Processor => t.from = "capturing"
    BY <1>1 DEF Owns
  <1>3. p = Processor => \A x : ~Ends(x, t)
    BY NothingEnds
  <1>4. ~Durable(fate[t.session])
    BY <1>1, <1>2, <1>3, Home
  <1> QED BY <1>2, <1>3, <1>4 DEF StillEnds

\* What is left to iterate over is not the session of the effect.
LEMMA OthersWait ==
  ASSUME SInv, task[Processor].pc \in EffectPCs
  PROVE  LET t == task[Processor] IN
         /\ t.todo \subseteq Sessions /\ t.candidates \subseteq Sessions
         /\ Loop(t) = "scan" => t.session \notin t.todo \cup t.candidates
  BY ProcessorState DEF ProcessorFits, Waits, Loop

-----------------------------------------------------------------------------
(* The durable effects keep CInv, and sessions travel along the lifecycle. *)

\* The temporary file appears where there was none (atomic_write).
LEMMA WriteTempClocked ==
  ASSUME SInv, CInv, NEW p \in Actors, WriteTemp(p)
  PROVE  CInv' /\ Travels
  <1> DEFINE t == task[p]  s == t.session  d == t.from
  <1>1. t.pc = "write" /\ SameTime /\ UNCHANGED fate /\ Guarantee(p)
    BY WriteTempShape, WriteTempStep
  <1>2. /\ s \in Sessions /\ d \in Dirs /\ Present(s, d) /\ Owns(p, s, d)
        /\ ~Durable(fate[s])
        /\ d # "claimed" \/ p = Processor
        /\ p # Processor => d = "capturing"
        /\ \A S, u : StillEnds(p, u, S)
    BY <1>1, EffectSession, EffectUndecided DEF EffectPCs
  <1>3. ~disk[s][d].temp
    BY <1>1, <1>2, Running DEF ProcessorRuns, RecorderRuns
  <1>4. PICK u \in Task, x \in Entry :
          /\ Goes(p, u) /\ Steps(u, t, "commit")
          /\ Puts(s, d, x) /\ Touches(x, disk[s][d])
    BY <1>3, WriteTempShape
  <1>5. Timed(x.manifest, clock)
    BY <1>2, <1>4, Home DEF Touches
  <1>6. Runs(p, u, disk', fate', clock)
    <2>1. /\ u.now <= clock /\ Timed(u.manifest, clock)
          /\ p = Processor => ProcessorRuns(t, disk, fate)
          /\ p # Processor => RecorderRuns(t, disk)
      BY <1>4, Running DEF Steps
    <2>2. CASE p = Processor
      <3>1. /\ t.todo \subseteq Sessions /\ t.candidates \subseteq Sessions
            /\ Loop(t) = "scan" => s \notin t.todo \cup t.candidates
            /\ Loop(t) # "purge"
        BY <1>1, <2>2, OthersWait, ProcessorState
        DEF EffectPCs, ProcessorFits, MovingLoops, Loop
      <3>2. ProcessorRuns(t, disk, fate)
        BY <2>1, <2>2
      <3> HIDE DEF t
      <3>3. ProcessorRuns(u, disk', fate')
        BY <1>1, <1>4, <3>1, <3>2, Names DEF ProcessorRuns, Steps, Loop, EffectPCs, Puts
      <3> QED BY <1>4, <2>1, <2>2, <3>3 DEF Runs, Steps
    <2>3. CASE p # Processor
      <3> HIDE DEF t
      <3>1. RecorderRuns(u, disk')
        BY <1>1, <1>4, <2>1, <2>3 DEF RecorderRuns, Steps
      <3> QED BY <1>4, <2>1, <2>3, <3>1 DEF Runs, Steps
    <2> QED BY <2>2, <2>3
  <1> QED BY <1>1, <1>2, <1>4, <1>5, <1>6, ClockedPut

\* The new manifest is not from the future (atomic_write).
LEMMA CommitManifestClocked ==
  ASSUME SInv, CInv, NEW p \in Actors, CommitManifest(p)
  PROVE  CInv' /\ Travels
  <1> DEFINE t == task[p]  s == t.session  d == t.from
  <1>1. t.pc = "commit" /\ SameTime /\ UNCHANGED fate /\ Guarantee(p)
    BY CommitManifestShape, CommitManifestStep
  <1>2. /\ s \in Sessions /\ d \in Dirs /\ Present(s, d) /\ Owns(p, s, d)
        /\ ~Durable(fate[s])
        /\ d # "claimed" \/ p = Processor
        /\ p # Processor => d = "capturing"
        /\ \A S, u : StillEnds(p, u, S)
    BY <1>1, EffectSession, EffectUndecided DEF EffectPCs
  <1>3. PICK u \in Task, x \in Entry :
          /\ Goes(p, u) /\ u.session = s /\ u.now = t.now
          /\ Puts(s, d, x) /\ x # Absent /\ ~x.temp
          /\ x.manifest = t.manifest /\ x.video = disk[s][d].video
          /\ \/ d # t.to /\ Steps(u, t, "move")
             \/ /\ d = t.to /\ u.pc = t.then /\ u.manifest = NoManifest
                /\ t.then = IF p = Processor THEN "unlock" ELSE "capturing"
    BY CommitManifestShape
  <1>4. /\ Timed(x.manifest, clock) /\ u.now <= clock /\ Timed(u.manifest, clock)
        /\ p = Processor => ProcessorRuns(t, disk, fate)
        /\ p # Processor => RecorderRuns(t, disk)
    BY <1>3, Running DEF Steps, Timed
  <1>5. Runs(p, u, disk', fate', clock)
    <2>1. CASE p = Processor
      <3>1. /\ t.todo \subseteq Sessions /\ t.candidates \subseteq Sessions
            /\ Loop(t) = "scan" => s \notin t.todo \cup t.candidates
            /\ Loop(t) # "purge"
            /\ d \in {"ready", "claimed"}
            /\ t.then = "unlock" => d = "claimed"
        BY <1>1, <2>1, OthersWait, ProcessorState
        DEF EffectPCs, ProcessorFits, MovingLoops, Loop
      <3>2. ProcessorRuns(t, disk, fate)
        BY <1>4, <2>1
      <3> HIDE DEF t
      <3>3. CASE d # t.to
        <4>1. ProcessorRuns(u, disk', fate')
          BY <1>1, <1>3, <3>1, <3>2, <3>3, Names
          DEF ProcessorRuns, Steps, Loop, EffectPCs, Puts
        <4> QED BY <1>3, <1>4, <2>1, <3>3, <4>1 DEF Runs, Steps
      <3>4. CASE d = t.to
        <4>1. u.pc = "unlock" /\ d = "claimed"
          BY <1>3, <2>1, <3>1, <3>4 DEF Steps
        <4>2. ProcessorRuns(u, disk', fate')
          BY <1>1, <1>3, <3>2, <3>4, <4>1 DEF ProcessorRuns, Loop, EffectPCs, Puts
        <4> QED BY <1>4, <2>1, <4>1, <4>2 DEF Runs
      <3> QED BY <3>3, <3>4
    <2>2. CASE p # Processor
      <3>1. d = "capturing" /\ RecorderRuns(t, disk)
        BY <1>2, <1>4, <2>2
      <3> HIDE DEF t
      <3>2. RecorderRuns(u, disk') /\ u.pc # "error"
        BY <1>1, <1>3, <2>2, <3>1 DEF RecorderRuns, Steps, Puts
      <3> QED BY <1>4, <2>2, <3>2 DEF Runs
    <2> QED BY <2>1, <2>2
  <1> QED BY <1>1, <1>2, <1>3, <1>4, <1>5, ClockedPut

\* Back in its loop, a process still finds what it expects.
LEMMA ResumeRuns ==
  ASSUME SInv, CInv, NEW p \in Actors, task[p].pc \in EffectPCs,
         task[p].then \in {"recover", "purge"} \cup MovingLoops,
         \A x \in Sessions \ {task[p].session} : disk'[x] = disk[x],
         \A x \in Sessions : Durable(fate[x]) => Durable(fate'[x])
  PROVE  Runs(p, Resume(p), disk', fate', clock)
  <1> DEFINE t == task[p]  u == Resume(p)
  <1>1. /\ u.pc = t.then /\ u.todo = t.todo /\ u.candidates = t.candidates
        /\ u.manifest = NoManifest /\ u.now \in {0, t.now}
        /\ t.then = "scan" => u.now = t.now
    BY ResumeTask DEF SInv
  <1>2. u.pc # "error" /\ u.now <= clock /\ Timed(u.manifest, clock)
    <2>1. t.now <= clock /\ clock \in Nat
      BY Running, ConstantsAssumption DEF SInv, TypeOK, Times
    <2> HIDE DEF u, t
    <2> QED BY <1>1, <2>1 DEF MovingLoops, Timed, t
  <1>3. CASE p = Processor
    <2>1. /\ t.todo \subseteq Sessions /\ t.candidates \subseteq Sessions
          /\ Loop(t) = "scan" => t.session \notin t.todo \cup t.candidates
          /\ ProcessorRuns(t, disk, fate)
      BY <1>3, OthersWait, Running
    <2>2. t.pc \in EffectPCs /\ t.then \in {"recover", "purge"} \cup MovingLoops
          /\ \A x \in Sessions \ {t.session} : disk'[x] = disk[x]
      OBVIOUS
    <2> HIDE DEF u, t
    <2>3. ProcessorRuns(u, disk', fate')
      BY <1>1, <2>1, <2>2 DEF ProcessorRuns, Loop, EffectPCs, MovingLoops
    <2> QED BY <1>2, <1>3, <2>3 DEF Runs, u
  <1>4. CASE p # Processor
    <2>1. u.pc \notin {"write", "commit", "capturing"}
      BY <1>1 DEF MovingLoops
    <2> HIDE DEF u, t
    <2> QED BY <1>2, <1>4, <2>1 DEF Runs, RecorderRuns, u
  <1> QED BY <1>3, <1>4

\* A directory moves to a free place along the lifecycle (move_session_directory).
LEMMA MoveDirectoryClocked ==
  ASSUME SInv, CInv, NEW p \in Actors, MoveDirectory(p)
  PROVE  CInv' /\ Travels
  <1> DEFINE t == task[p]  s == t.session  d == t.from
  <1>1. /\ t.pc = "move" /\ SameTime /\ Guarantee(p) /\ t.then \in {"recover"} \cup MovingLoops
        /\ t.to \in {"ready", "failed"} /\ d # t.to
    BY MoveDirectoryShape, MoveDirectoryStep
  <1>2. /\ s \in Sessions /\ d \in {"capturing", "ready", "claimed"} /\ d \in Dirs
        /\ t.to \in Dirs /\ Present(s, d)
        /\ ~Durable(fate[s])
        /\ \A S, u : StillEnds(p, u, S)
    BY <1>1, EffectSession, EffectUndecided DEF EffectPCs
  <1>3. ~Present(s, t.to)
    BY <1>1, <1>2, Home
  <1>4. /\ Moves(s, d, t.to) /\ Goes(p, Resume(p))
        /\ fate' = fate \/ (fate[s] = "begun" /\ Decides(s, "published"))
    BY <1>3, MoveDirectoryShape
  <1>5. <<d, t.to>> \in Lifecycle!Edges
    BY <1>1, <1>2 DEF Lifecycle!Edges
  <1>6. Runs(p, Resume(p), disk', fate', clock)
    <2>1. \A x \in Sessions \ {s} : disk'[x] = disk[x]
      BY <1>2, <1>4 DEF Moves, DiskSpace, SInv, TypeOK
    <2>2. \A x \in Sessions : Durable(fate[x]) => Durable(fate'[x])
      BY <1>4 DEF Decides, Durable
    <2> QED BY <1>1, <2>1, <2>2, ResumeRuns DEF EffectPCs
  <1> QED BY <1>1, <1>2, <1>4, <1>5, <1>6, ClockedMove

\* A removed session is gone (discard_capture, delete_claimed).
LEMMA FinishRemoveClocked ==
  ASSUME SInv, CInv, NEW p \in Actors, FinishRemove(p)
  PROVE  CInv' /\ Travels
  <1> DEFINE t == task[p]  s == t.session  d == t.from
  <1>1. /\ t.pc = "remove" /\ SameTime /\ UNCHANGED fate /\ Guarantee(p)
        /\ d \in {"capturing", "claimed"} /\ t.then \in {"purge", "idle"}
        /\ Puts(s, d, Absent) /\ Goes(p, Resume(p))
    BY FinishRemoveShape, FinishRemoveStep
  <1>2. s \in Sessions /\ Present(s, d) /\ TypeOK
    BY <1>1, EffectSession DEF EffectPCs, SInv
  <1>3. Runs(p, Resume(p), disk', fate', clock)
    <2>1. \A x \in Sessions \ {s} : disk'[x] = disk[x]
      BY <1>1, <1>2 DEF Puts, DiskSpace, TypeOK
    <2> QED BY <1>1, <2>1, ResumeRuns DEF EffectPCs, MovingLoops
  <1>4. StillEnds(p, Resume(p), {s})
    <2>1. Resume(p).pc = t.then /\ Resume(p).todo = t.todo
      BY <1>2, ResumeTask
    <2> QED BY <1>1, <2>1 DEF StillEnds, Ends, Loop, EffectPCs
  <1> QED BY <1>1, <1>2, <1>3, <1>4, ClockedDrop

-----------------------------------------------------------------------------
(* The recorder keeps CInv.                                                *)

\* A recorder's step ends no session the processor was about to end.
LEMMA RecorderEnds ==
  ASSUME NEW c \in Cameras, NEW u, NEW S
  PROVE  StillEnds(c, u, S)
  BY Names DEF StillEnds

\* A restarted recorder expects nothing of its captures.
LEMMA StartRecorderClocked ==
  ASSUME SInv, CInv, NEW c \in Cameras, StartRecorder(c)
  PROVE  CInv' /\ Travels
  <1>1. PICK u \in Task, todo \in SUBSET Sessions :
          /\ Goes(c, u) /\ Starts(u, "recover", todo, clock)
          /\ \A s \in todo : Camera(s) = c /\ Present(s, "capturing")
    BY StartRecorderShape
  <1>2. SameTime /\ UNCHANGED <<disk, fate>> /\ Guarantee(c) /\ c \in Actors
    BY StartRecorderShape, StartRecorderStep, Names
  <1>3. clock \in Times /\ clock <= clock /\ clock' = clock /\ Forward
    BY <1>2, Clock DEF SInv, TypeOK
  <1>4. Runs(c, u, disk, fate, clock')
    BY <1>1, <1>2, <1>3, RestingRuns
  <1> QED BY <1>1, <1>2, <1>3, <1>4, RecorderEnds, ClockedControl

\* A resting recorder expects nothing.
LEMMA RecorderRestsClocked ==
  ASSUME SInv, CInv, NEW c \in Cameras, FinishRecorderRecovery(c) \/ EncoderFails(c)
  PROVE  CInv' /\ Travels
  <1>1. PICK u \in Task : Goes(c, u) /\ (Starts(u, "idle", {}, 0) \/ Starts(u, "down", {}, 0))
    BY RecorderRestsShape
  <1>2. SameTime /\ UNCHANGED <<disk, fate>> /\ Guarantee(c) /\ c \in Actors
    BY RecorderRestsShape, RecorderRestsStep, Names
  <1>3. 0 \in Times /\ 0 <= clock /\ clock' = clock /\ Forward
    BY <1>2, Clock, ConstantsAssumption DEF Times
  <1>4. Runs(c, u, disk, fate, clock')
    BY <1>1, <1>2, <1>3, RestingRuns
  <1> QED BY <1>1, <1>2, <1>3, <1>4, RecorderEnds, ClockedControl

\* Recovery finds failed free, and no marker left (recover_recording).
LEMMA RecoverCaptureClocked ==
  ASSUME SInv, CInv, NEW c \in Cameras, RecoverCapture(c)
  PROVE  CInv' /\ Travels
  <1> DEFINE t == task[c]
  <1>1. t.pc = "recover" /\ SameTime /\ UNCHANGED fate /\ Guarantee(c) /\ c \in Actors
        /\ c # Processor
    BY RecoverCaptureShape, RecoverCaptureStep, Names
  <1>2. PICK s \in t.todo \cap Sessions, e \in Entry, u \in Task :
          /\ Camera(s) = c /\ Present(s, "capturing")
          /\ Puts(s, "capturing", e) /\ Touches(e, disk[s]["capturing"]) /\ ~e.temp
          /\ \/ /\ Good(e) /\ Says(e.manifest, "ready") /\ Goes(c, u)
                /\ u.pc = "move" /\ u.then = "recover" /\ u.session = s
                /\ u.from = "capturing" /\ u.to = "ready"
                /\ u.todo = t.todo \ {s} /\ u.now = t.now /\ u.manifest = t.manifest
             \/ ~Good(e) /\ Fails(c, u, t, {s}, s, "capturing", e, "recover")
    BY RecoverCaptureShape
  <1>3. ~Present(s, "failed") /\ Timed(e.manifest, clock)
    BY <1>2, Home, Names DEF Touches
  <1>4. t.now \in Nat /\ clock \in Nat /\ t.now <= clock /\ Timed(t.manifest, clock)
    BY <1>1, Running, Clock
  <1> HIDE DEF t
  <1>5. Goes(c, u) /\ Runs(c, u, disk', fate', clock)
    <2>1. CASE Good(e)
      BY <1>1, <1>2, <1>4, <2>1 DEF Runs, RecorderRuns
    <2>2. CASE ~Good(e)
      <3>1. PICK m : GivesUp(m, e, t.now)
                     /\ Writes(u, t, {s}, s, "capturing", "failed", m, "recover")
        BY <1>2, <1>3, <2>2 DEF Fails
      <3>2. Timed(m, clock)
        BY <1>3, <1>4, <3>1, GivenUpTimed
      <3> QED BY <1>1, <1>2, <1>4, <2>2, <3>1, <3>2 DEF Runs, RecorderRuns, Writes, Fails, Puts
    <2> QED BY <2>1, <2>2
  <1> QED BY <1>1, <1>2, <1>3, <1>5, RecorderEnds, Names, ClockedPut

\* The name of a new session was never used (begin_capture).
LEMMA BeginCaptureClocked ==
  ASSUME SInv, CInv, NEW c \in Cameras, BeginCapture(c)
  PROVE  CInv' /\ Travels
  <1> DEFINE s == <<c, clock>>
  <1>1. /\ s \in Sessions /\ Camera(s) = c /\ StartedAt(s) = clock
        /\ RestType /\ c \in Actors /\ c # Processor /\ Guarantee(c)
    BY BeginCaptureShape, BeginCaptureStep, Names
  <1>2. clock \in Nat
    BY ConstantsAssumption DEF SInv, TypeOK, Times
  <1>3. fate[s] = "none" /\ ~Present(s, "capturing")
    BY <1>1, <1>2, Names DEF CInv, Housed, Present
  <1>4. clock' = clock + 1 /\ Decides(s, "begun")
    BY <1>3, BeginCaptureShape
  <1>5. PICK e \in Entry, m \in Manifest, u \in Task :
          /\ Puts(s, "capturing", e)
          /\ e # Absent /\ e.manifest = NoManifest /\ ~e.temp
          /\ m # NoManifest /\ ~m.finished
          /\ m.sound /\ m.state = "capturing" /\ m.at = clock
          /\ Goes(c, u) /\ u.now = 0
          /\ Writes(u, At("idle"), {}, s, "capturing", "capturing", m, "capturing")
    BY <1>3, BeginCaptureShape
  <1> HIDE DEF s
  <1>6. Runs(c, u, disk', fate', clock')
    BY <1>1, <1>2, <1>4, <1>5 DEF Runs, RecorderRuns, Writes, Timed, Legal, Says, Puts
  <1> QED BY <1>1, <1>4, <1>5, <1>6, ClockedCreate

\* An open capture is what the recorder left, and ready is free (finalize_capture).
LEMMA FinalizeCaptureClocked ==
  ASSUME SInv, CInv, NEW c \in Cameras, FinalizeCapture(c)
  PROVE  CInv' /\ Travels
  <1> DEFINE s == task[c].session  x == disk[s]["capturing"]
  <1>1. /\ task[c].pc = "capturing" /\ SameTime /\ UNCHANGED fate /\ Guarantee(c)
        /\ c \in Actors /\ c # Processor
        /\ s \in Sessions /\ Present(s, "capturing")
    BY FinalizeCaptureShape, FinalizeCaptureStep, OpenCapture, Names
  <1>2. /\ ~Present(s, "ready") /\ StartedAt(s) < clock
        /\ Timed(x.manifest, clock)
    BY <1>1, Home, Names
  <1>3. Legal(x.manifest, "capturing") /\ ~x.temp
    BY <1>1, Running DEF RecorderRuns
  <1>4. PICK e \in Entry, u \in Task :
          /\ Puts(s, "capturing", e) /\ e # Absent
          /\ e.manifest = x.manifest /\ e.temp = x.temp
          /\ Goes(c, u)
          /\ \/ /\ u.pc = "error"
                /\ \/ ~Readable(e) \/ ~Says(e.manifest, "capturing")
                   \/ clock < StartedAt(s) \/ Present(s, "ready")
             \/ \E m \in Manifest :
                  /\ Complete(m) /\ Says(m, "ready") /\ m.at = clock
                  /\ u.now = 0
                  /\ Writes(u, At("idle"), {}, s, "capturing", "ready", m, "idle")
    BY FinalizeCaptureShape
  <1>5. clock \in Nat /\ StartedAt(s) \in Nat
    BY <1>1, ConstantsAssumption, SessionParts DEF SInv, TypeOK, Times
  <1> HIDE DEF s, x
  <1>6. PICK m \in Manifest :
          /\ m.at = clock /\ u.now = 0
          /\ Writes(u, At("idle"), {}, s, "capturing", "ready", m, "idle")
    BY <1>2, <1>3, <1>4, <1>5 DEF Readable, Legal, Says
  <1>7. Runs(c, u, disk', fate', clock)
    BY <1>1, <1>3, <1>4, <1>5, <1>6 DEF Runs, RecorderRuns, Writes, Timed, Puts
  <1>8. Timed(e.manifest, clock)
    BY <1>2, <1>4
  <1> QED BY <1>1, <1>4, <1>7, <1>8, RecorderEnds, Names, ClockedPut

\* A discarded capture is removed by its own recorder (discard_capture).
LEMMA DiscardCaptureClocked ==
  ASSUME SInv, CInv, NEW c \in Cameras, DiscardCapture(c)
  PROVE  CInv' /\ Travels
  <1> DEFINE s == task[c].session
  <1>1. /\ task[c].pc = "capturing" /\ SameTime /\ UNCHANGED fate /\ Guarantee(c)
        /\ c \in Actors /\ c # Processor
        /\ s \in Sessions /\ Present(s, "capturing")
    BY DiscardCaptureShape, DiscardCaptureStep, OpenCapture, Names
  <1>2. PICK u \in Task : /\ Empties(c, u, At("idle"), {}, s, "capturing", "idle")
                          /\ u.now = 0 /\ u.manifest = NoManifest
    BY DiscardCaptureShape
  <1>3. Timed(disk[s]["capturing"].manifest, clock) /\ clock \in Nat
    BY <1>1, Home, Names, Clock
  <1> HIDE DEF s
  <1>4. PICK e \in Entry : /\ Puts(s, "capturing", e)
                           /\ e.manifest \in {NoManifest, disk[s]["capturing"].manifest}
    BY <1>2 DEF Empties
  <1>5. Goes(c, u) /\ Runs(c, u, disk', fate', clock) /\ Timed(e.manifest, clock)
    BY <1>1, <1>2, <1>3, <1>4 DEF Empties, Runs, RecorderRuns, Timed
  <1> QED BY <1>1, <1>4, <1>5, RecorderEnds, Names, ClockedPut

-----------------------------------------------------------------------------
(* The processor keeps CInv: startup.                                      *)

\* What fail_session leaves the processor with when failed is free: a task
\* about to rewrite the manifest, with a time that is not from the future.
LEMMA ProcessorGivesUp ==
  ASSUME SInv, CInv, NEW u, NEW done, NEW s, NEW from, NEW e, NEW then,
         Fails(Processor, u, task[Processor], done, s, from, e, then),
         ~Present(s, "failed"), Timed(e.manifest, clock)
  PROVE  LET t == task[Processor] IN
         /\ Goes(Processor, u)
         /\ u.pc = "write" /\ u.session = s /\ u.from = from /\ u.to = "failed"
         /\ u.then = then /\ u.todo = t.todo \ done /\ u.candidates = t.candidates
         /\ u.now = t.now /\ u.now <= clock /\ Timed(u.manifest, clock)
  <1> DEFINE t == task[Processor]
  <1>1. t.now \in Nat /\ t.now <= clock /\ clock \in Nat
    BY Running, Names, ConstantsAssumption DEF SInv, TypeOK, Times
  <1>2. PICK m : GivesUp(m, e, t.now) /\ Writes(u, t, done, s, from, "failed", m, then)
    BY DEF Fails
  <1>3. Timed(m, clock)
    BY <1>1, <1>2, GivenUpTimed
  <1> QED BY <1>1, <1>2, <1>3 DEF Fails, Writes

\* What every lemma about the processor's clock starts from.
LEMMA ProcessorRunning ==
  ASSUME SInv, CInv
  PROVE  LET t == task[Processor] IN
         /\ Processor \in Actors /\ ProcessorRuns(t, disk, fate)
         /\ t.now \in Nat /\ clock \in Nat /\ t.now <= clock /\ Timed(t.manifest, clock)
         /\ t.todo \in SUBSET Sessions /\ t.candidates \in SUBSET Sessions
  BY Running, Names, ProcessorState, ConstantsAssumption DEF Times

\* A restarted processor ends every session whose result is durable.
LEMMA StartProcessorClocked ==
  ASSUME SInv, CInv, StartProcessor
  PROVE  CInv' /\ Travels
  <1>1. PICK u \in Task, todo \in SUBSET Sessions :
          /\ Goes(Processor, u) /\ Starts(u, "purge", todo, clock)
          /\ \A s \in todo : Durable(fate[s])
          /\ \A s \in Sessions : Durable(fate[s]) /\ Present(s, "claimed") => s \in todo
    BY StartProcessorShape
  <1>2. SameTime /\ UNCHANGED <<disk, fate>> /\ Guarantee(Processor) /\ clock' = clock /\ Forward
    BY StartProcessorShape, StartProcessorStep, Clock
  <1>3. clock <= clock
    BY ProcessorRunning
  <1>4. Runs(Processor, u, disk, fate, clock')
    BY <1>1, <1>2, <1>3 DEF Runs, ProcessorRuns, Starts, Timed, Loop, EffectPCs
  <1>5. StillEnds(Processor, u, {})
    BY <1>1 DEF StillEnds, Ends, Starts, Loop, EffectPCs
  <1> QED BY <1>1, <1>2, <1>4, <1>5, Names, ClockedControl

\* A session whose result is durable is nowhere but in claimed, so that its
\* deletion goes on (delete_session_with_prepared_result).
LEMMA PurgePreparedClocked ==
  ASSUME SInv, CInv, PurgePrepared
  PROVE  CInv' /\ Travels
  <1> DEFINE p == Processor  t == task[p]
  <1>1. t.pc = "purge" /\ SameTime /\ Guarantee(p) /\ p \in Actors
    BY PurgePreparedShape, PurgePreparedStep, Names
  <1>2. PICK s \in t.todo \cap Sessions :
          \/ (\E d \in {"capturing", "ready", "failed"} : Present(s, d)) /\ Errs(p)
          \/ /\ Decides(s, "deleted")
             /\ \E u \in Task :
                  \/ Present(s, "claimed") /\ Empties(p, u, t, {s}, s, "claimed", "purge")
                  \/ /\ ~Present(s, "claimed") /\ UNCHANGED disk
                     /\ Goes(p, u) /\ Iterates(u, t, t.todo \ {s}, t.candidates)
    BY PurgePreparedShape
  <1>3. /\ \A x \in t.todo : Durable(fate[x])
        /\ t.now <= clock /\ Timed(t.manifest, clock)
    BY <1>1, ProcessorRunning DEF ProcessorRuns, Loop, EffectPCs
  <1>4. /\ fate[s] # "none" /\ Durable(fate[s])
        /\ \A d \in Dirs \ {"claimed"} : ~Present(s, d)
    BY <1>3, Home DEF Durable
  <1>5. Decides(s, "deleted")
    BY <1>2, <1>4, Names
  <1>6. \A x \in t.todo \ {s} : Durable(fate'[x])
    BY <1>3, <1>5, ProcessorRunning DEF Decides
  <1> HIDE DEF t
  <1>7. ASSUME NEW u \in Task, Present(s, "claimed"),
               Empties(p, u, t, {s}, s, "claimed", "purge")
        PROVE  CInv' /\ Travels
    <2>1. PICK e \in Entry : /\ Puts(s, "claimed", e)
                             /\ e.manifest \in {NoManifest, disk[s]["claimed"].manifest}
      BY <1>7 DEF Empties
    <2>2. Timed(e.manifest, clock)
      BY <1>7, <2>1, Home, Names DEF Timed
    <2>3. Goes(p, u) /\ Runs(p, u, disk', fate', clock) /\ Ends(s, u)
      BY <1>3, <1>6, <1>7 DEF Empties, Runs, ProcessorRuns, Ends, Loop, EffectPCs
    <2>4. StillEnds(p, u, {s})
      BY <1>1, <1>7 DEF Empties, StillEnds, Ends, Loop, EffectPCs, t
    <2> QED BY <1>1, <1>4, <1>5, <1>7, <2>1, <2>2, <2>3, <2>4, Names, ClockedPut
  <1>8. ASSUME NEW u \in Task, ~Present(s, "claimed"), UNCHANGED disk,
               Goes(p, u), Iterates(u, t, t.todo \ {s}, t.candidates)
        PROVE  CInv' /\ Travels
    <2>1. Runs(p, u, disk', fate', clock)
      BY <1>1, <1>3, <1>6, <1>8 DEF Iterates, Runs, ProcessorRuns, Loop, EffectPCs, t
    <2>2. StillEnds(p, u, {s})
      BY <1>1, <1>8 DEF Iterates, StillEnds, Ends, Loop, EffectPCs, t
    <2> QED BY <1>1, <1>4, <1>5, <1>8, <2>1, <2>2, ClockedDecide
  <1> QED BY <1>2, <1>4, <1>7, <1>8, Names DEF t

\* Nothing durable is left in claimed when recovery begins.
LEMMA FinishPurgeClocked ==
  ASSUME SInv, CInv, FinishPurge
  PROVE  CInv' /\ Travels
  <1> DEFINE t == task[Processor]
  <1>1. PICK u \in Task, todo \in SUBSET Sessions :
          /\ Goes(Processor, u) /\ Enters(u, t, "recoverReady", todo)
          /\ \A x \in Sessions : x \in todo <=> Present(x, "ready")
    BY FinishPurgeShape
  <1>2. t.pc = "purge" /\ t.todo = {} /\ SameTime /\ UNCHANGED <<disk, fate>>
        /\ Guarantee(Processor) /\ clock' = clock /\ Forward
    BY FinishPurgeShape, FinishPurgeStep, Clock
  <1>3. Runs(Processor, u, disk, fate, clock')
    BY <1>1, <1>2, ProcessorRunning DEF Runs, ProcessorRuns, Enters, Loop, EffectPCs
  <1>4. StillEnds(Processor, u, {})
    BY <1>2 DEF StillEnds, Ends, Loop, EffectPCs
  <1> QED BY <1>1, <1>2, <1>3, <1>4, Names, ClockedControl

\* Recovery of ready finds failed free (recover_processing).
LEMMA RecoverReadyClocked ==
  ASSUME SInv, CInv, RecoverReady
  PROVE  CInv' /\ Travels
  <1> DEFINE p == Processor  t == task[p]
  <1>1. t.pc = "recoverReady" /\ SameTime /\ UNCHANGED fate /\ Guarantee(p) /\ p \in Actors
    BY RecoverReadyShape, RecoverReadyStep, Names
  <1>2. PICK s \in t.todo \cap Sessions, e \in Entry, u \in Task :
          /\ Present(s, "ready")
          /\ Puts(s, "ready", e) /\ Touches(e, disk[s]["ready"]) /\ ~e.temp
          /\ \/ /\ Good(e) /\ Says(e.manifest, "ready")
                /\ Goes(p, u) /\ Iterates(u, t, t.todo \ {s}, t.candidates)
             \/ ~Good(e) /\ Fails(p, u, t, {s}, s, "ready", e, "recoverReady")
    BY RecoverReadyShape
  <1>3. ~Present(s, "failed") /\ Timed(e.manifest, clock)
    BY <1>2, Home, Names DEF Touches
  <1>4. \A x : ~Ends(x, t)
    BY <1>1 DEF Ends, Loop, EffectPCs
  <1>5. Goes(p, u) /\ Runs(p, u, disk', fate', clock)
    <2>1. CASE Good(e)
      BY <1>1, <1>2, <2>1, ProcessorRunning
      DEF Runs, ProcessorRuns, Iterates, Loop, EffectPCs
    <2>2. CASE ~Good(e)
      BY <1>1, <1>2, <1>3, <2>2, ProcessorGivesUp
      DEF Runs, ProcessorRuns, Loop, EffectPCs, Puts
    <2> QED BY <2>1, <2>2
  <1>6. StillEnds(p, u, {s})
    BY <1>4 DEF StillEnds
  <1> QED BY <1>1, <1>2, <1>3, <1>5, <1>6, Names, ClockedPut

\* Recovery goes on with what is in claimed.
LEMMA FinishRecoverReadyClocked ==
  ASSUME SInv, CInv, FinishRecoverReady
  PROVE  CInv' /\ Travels
  <1> DEFINE t == task[Processor]
  <1>1. PICK u \in Task, todo \in SUBSET Sessions :
          /\ Goes(Processor, u) /\ Enters(u, t, "recoverClaimed", todo)
          /\ \A x \in todo : Present(x, "claimed")
    BY FinishRecoverReadyShape
  <1>2. t.pc = "recoverReady" /\ SameTime /\ UNCHANGED <<disk, fate>>
        /\ Guarantee(Processor) /\ clock' = clock /\ Forward
    BY FinishRecoverReadyShape, FinishRecoverReadyStep, Clock
  <1>3. Runs(Processor, u, disk, fate, clock')
    BY <1>1, <1>2, ProcessorRunning DEF Runs, ProcessorRuns, Enters, Loop, EffectPCs
  <1>4. StillEnds(Processor, u, {})
    BY <1>2 DEF StillEnds, Ends, Loop, EffectPCs
  <1> QED BY <1>1, <1>2, <1>3, <1>4, Names, ClockedControl

\* Recovery returns to work only sessions without a durable result.
LEMMA RecoverClaimedClocked ==
  ASSUME SInv, CInv, RecoverClaimed
  PROVE  CInv' /\ Travels
  <1> DEFINE p == Processor  t == task[p]
  <1>1. t.pc = "recoverClaimed" /\ SameTime /\ UNCHANGED fate /\ Guarantee(p) /\ p \in Actors
    BY RecoverClaimedShape, RecoverClaimedStep, Names
  <1>2. PICK s \in t.todo \cap Sessions, e \in Entry, u \in Task :
          /\ Present(s, "claimed")
          /\ Puts(s, "claimed", e) /\ Touches(e, disk[s]["claimed"]) /\ ~e.temp
          /\ Good(e) => Says(e.manifest, "ready") \/ Says(e.manifest, "claimed")
                        \/ fate[s] = "failed"
          /\ \/ \E m \in Manifest :
                  /\ Complete(m) /\ Says(m, "ready") /\ m.at = t.now
                  /\ Goes(p, u)
                  /\ Writes(u, t, {s}, s, "claimed", "ready", m, "recoverClaimed")
             \/ /\ Good(e) => fate[s] = "failed"
                /\ Fails(p, u, t, {s}, s, "claimed", e, "recoverClaimed")
    BY RecoverClaimedShape
  <1>3. \A x : ~Ends(x, t)
    BY <1>1 DEF Ends, Loop, EffectPCs
  <1>4. ~Present(s, "failed") /\ Timed(e.manifest, clock) /\ ~Durable(fate[s])
    BY <1>2, <1>3, Home, Names DEF Touches
  <1>5. Goes(p, u) /\ Runs(p, u, disk', fate', clock)
    <2>1. CASE Fails(p, u, t, {s}, s, "claimed", e, "recoverClaimed")
      BY <1>2, <1>4, <2>1, ProcessorGivesUp
      DEF Runs, ProcessorRuns, Loop, EffectPCs, Puts
    <2>2. ASSUME NEW m \in Manifest, m.at = t.now, Goes(p, u),
                 Writes(u, t, {s}, s, "claimed", "ready", m, "recoverClaimed")
          PROVE  Goes(p, u) /\ Runs(p, u, disk', fate', clock)
      BY <1>2, <2>2, ProcessorRunning
      DEF Runs, ProcessorRuns, Loop, EffectPCs, Writes, Timed, Puts
    <2> QED BY <1>2, <2>1, <2>2
  <1>6. StillEnds(p, u, {s})
    BY <1>3 DEF StillEnds
  <1> QED BY <1>1, <1>2, <1>4, <1>5, <1>6, Names, ClockedPut

\* Recovery is over.
LEMMA FinishRecoveryClocked ==
  ASSUME SInv, CInv, FinishRecovery
  PROVE  CInv' /\ Travels
  <1>1. PICK u \in Task : Goes(Processor, u) /\ Starts(u, "idle", {}, 0)
    BY FinishRecoveryShape
  <1>2. /\ task[Processor].pc = "recoverClaimed" /\ SameTime /\ UNCHANGED <<disk, fate>>
        /\ Guarantee(Processor) /\ clock' = clock /\ Forward
    BY FinishRecoveryShape, FinishRecoveryStep, Clock
  <1>3. 0 \in Times /\ 0 <= clock
    BY ConstantsAssumption, ProcessorRunning DEF Times
  <1>4. Runs(Processor, u, disk, fate, clock')
    BY <1>1, <1>2, <1>3, Names, RestingRuns
  <1>5. StillEnds(Processor, u, {})
    BY <1>2 DEF StillEnds, Ends, Loop, EffectPCs
  <1> QED BY <1>1, <1>2, <1>4, <1>5, Names, ClockedControl

-----------------------------------------------------------------------------
(* The processor keeps CInv: claim_next_ready.                             *)

\* Every session found in ready has a manifest from before the claim began.
LEMMA StartClaimClocked ==
  ASSUME SInv, CInv, StartClaim
  PROVE  CInv' /\ Travels
  <1>1. PICK u \in Task, todo \in SUBSET Sessions :
          /\ Goes(Processor, u) /\ Starts(u, "scan", todo, clock)
          /\ \A x \in todo : Present(x, "ready")
    BY StartClaimShape
  <1>2. /\ task[Processor].pc = "idle" /\ SameTime /\ UNCHANGED <<disk, fate>>
        /\ Guarantee(Processor) /\ clock' = clock /\ Forward
    BY StartClaimShape, StartClaimStep, Clock
  <1>3. \A x \in todo : Timed(disk[x]["ready"].manifest, clock)
    BY <1>1, Home, Names
  <1>4. clock <= clock
    BY ProcessorRunning
  <1>5. Runs(Processor, u, disk, fate, clock')
    BY <1>1, <1>2, <1>3, <1>4 DEF Runs, ProcessorRuns, Starts, Timed, Loop, EffectPCs
  <1>6. StillEnds(Processor, u, {})
    BY <1>2 DEF StillEnds, Ends, Loop, EffectPCs
  <1> QED BY <1>1, <1>2, <1>5, <1>6, Names, ClockedControl

\* A candidate verifies, and failed is free for what does not.
LEMMA ScanReadyClocked ==
  ASSUME SInv, CInv, ScanReady
  PROVE  CInv' /\ Travels
  <1> DEFINE p == Processor  t == task[p]
  <1>1. /\ t.pc = "scan" /\ SameTime /\ UNCHANGED <<disk, fate>> /\ Guarantee(p) /\ p \in Actors
        /\ clock' = clock /\ Forward
    BY ScanReadyShape, ScanReadyStep, Names, Clock
  <1>2. PICK s \in t.todo \cap Sessions, u \in Task :
          LET e == disk[s]["ready"] IN
          /\ Present(s, "ready") /\ ~e.temp
          /\ \/ /\ VerifiedIn(e, {"ready"}) /\ Goes(p, u)
                /\ Iterates(u, t, t.todo \ {s}, t.candidates \cup {s})
             \/ ~Good(e) /\ Fails(p, u, t, {s}, s, "ready", e, "scan")
    BY ScanReadyShape
  <1>3. ~Present(s, "failed") /\ Timed(disk[s]["ready"].manifest, clock)
    BY <1>2, Home, Names
  <1>4. /\ \A x \in t.todo \cup t.candidates : Timed(disk[x]["ready"].manifest, t.now)
        /\ \A x \in t.candidates : Legal(disk[x]["ready"].manifest, "ready")
    BY <1>1, ProcessorRunning DEF ProcessorRuns, Loop, EffectPCs
  <1>5. Goes(p, u) /\ Runs(p, u, disk, fate, clock')
    <2>1. ASSUME VerifiedIn(disk[s]["ready"], {"ready"}), Goes(p, u),
                 Iterates(u, t, t.todo \ {s}, t.candidates \cup {s})
          PROVE  Goes(p, u) /\ Runs(p, u, disk, fate, clock')
      <3>1. Legal(disk[s]["ready"].manifest, "ready")
        BY <2>1 DEF VerifiedIn, Verified, Readable, Legal, Says
      <3>2. t.now <= clock /\ Timed(t.manifest, clock)
        BY ProcessorRunning
      <3> HIDE DEF t
      <3> QED BY <1>1, <1>2, <1>4, <2>1, <3>1, <3>2
              DEF Runs, ProcessorRuns, Iterates, Loop, EffectPCs
    <2>2. ASSUME Fails(p, u, t, {s}, s, "ready", disk[s]["ready"], "scan")
          PROVE  Goes(p, u) /\ Runs(p, u, disk, fate, clock')
      <3>1. /\ Goes(p, u)
            /\ u.pc = "write" /\ u.session = s /\ u.from = "ready" /\ u.to = "failed"
            /\ u.then = "scan" /\ u.todo = t.todo \ {s} /\ u.candidates = t.candidates
            /\ u.now = t.now /\ u.now <= clock /\ Timed(u.manifest, clock)
        BY <1>3, <2>2, ProcessorGivesUp
      <3> HIDE DEF t
      <3> QED BY <1>1, <1>2, <1>4, <3>1 DEF Runs, ProcessorRuns, Loop, EffectPCs
    <2> QED BY <1>2, <2>1, <2>2
  <1>6. StillEnds(p, u, {})
    BY <1>1 DEF StillEnds, Ends, Loop, EffectPCs
  <1> QED BY <1>1, <1>5, <1>6, ClockedControl

\* The candidate chosen is the one that was verified.
LEMMA LockCandidateClocked ==
  ASSUME SInv, CInv, LockCandidate
  PROVE  CInv' /\ Travels
  <1> DEFINE p == Processor  t == task[p]
  <1>1. /\ t.pc = "scan" /\ SameTime /\ UNCHANGED fate /\ Guarantee(p) /\ p \in Actors
        /\ clock' = clock /\ Forward
    BY LockCandidateShape, LockCandidateStep, Names, Clock
  <1>2. \A S, u : StillEnds(p, u, S)
    BY <1>1 DEF StillEnds, Ends, Loop, EffectPCs
  <1>3. /\ \A x \in t.todo \cup t.candidates : Timed(disk[x]["ready"].manifest, t.now)
        /\ \A x \in t.candidates : Legal(disk[x]["ready"].manifest, "ready")
        /\ t.now <= clock /\ Timed(t.manifest, clock)
    BY <1>1, ProcessorRunning DEF ProcessorRuns, Loop, EffectPCs
  <1>4. ASSUME UNCHANGED disk, NEW u \in Task, Goes(p, u), Starts(u, "idle", {}, 0)
        PROVE  CInv' /\ Travels
    <2>1. 0 \in Times /\ 0 <= clock
      BY ConstantsAssumption, ProcessorRunning DEF Times
    <2>2. Runs(p, u, disk, fate, clock')
      BY <1>1, <1>4, <2>1, RestingRuns
    <2> QED BY <1>1, <1>2, <1>4, <2>2, ClockedControl
  <1>5. ASSUME UNCHANGED disk, NEW s, NEW u \in Task, Goes(p, u),
               Iterates(u, t, t.todo, t.candidates \ {s})
        PROVE  CInv' /\ Travels
    <2>1. Runs(p, u, disk, fate, clock')
      <3> HIDE DEF t
      <3> QED BY <1>1, <1>3, <1>5 DEF Runs, ProcessorRuns, Iterates, Loop, EffectPCs
    <2> QED BY <1>1, <1>2, <1>5, <2>1, ClockedControl
  <1>6. ASSUME NEW s \in t.candidates \cap Sessions, NEW u \in Task, NEW x \in Entry,
               Present(s, "ready"), Goes(p, u),
               u.pc = "claimMove", u.session = s, u.now = t.now, u.manifest = NoManifest,
               Puts(s, "ready", x), Touches(x, disk[s]["ready"])
        PROVE  CInv' /\ Travels
    <2>1. Timed(x.manifest, clock)
      BY <1>6, Home, Names DEF Touches
    <2>2. Runs(p, u, disk', fate', clock)
      <3> HIDE DEF t
      <3> QED BY <1>3, <1>6 DEF Runs, ProcessorRuns, Loop, EffectPCs, Puts, Touches, Timed
    <2> QED BY <1>1, <1>2, <1>6, <2>1, <2>2, Names, ClockedPut
  <1>7. \/ /\ UNCHANGED disk
           /\ \E u \in Task : Goes(p, u) /\ Starts(u, "idle", {}, 0)
        \/ \E s \in t.candidates \cap Sessions, u \in Task :
             LET e == disk[s]["ready"] IN
             /\ Present(s, "ready") /\ Complete(e.manifest) /\ ~e.temp /\ Goes(p, u)
             /\ \/ UNCHANGED disk /\ Iterates(u, t, t.todo, t.candidates \ {s})
                \/ /\ u.pc = "claimMove" /\ u.session = s /\ u.now = t.now
                   /\ u.manifest = NoManifest
                   /\ \E x \in Entry :
                        Puts(s, "ready", x) /\ Touches(x, e) /\ ~x.temp
    BY LockCandidateShape
  <1> QED BY <1>4, <1>5, <1>6, <1>7

\* Nothing else has the name in claimed, and the history stays legal.
LEMMA MoveClaimClocked ==
  ASSUME SInv, CInv, MoveClaim
  PROVE  CInv' /\ Travels
  <1> DEFINE p == Processor  t == task[p]  s == t.session  e == disk[s]["ready"]
  <1>1. /\ t.pc = "claimMove" /\ SameTime /\ UNCHANGED fate /\ Guarantee(p) /\ p \in Actors
        /\ s \in Sessions /\ Present(s, "ready") /\ ~e.temp
    BY MoveClaimShape, MoveClaimStep, Names
  <1>2. /\ ~Present(s, "claimed") /\ ~Durable(fate[s])
    BY <1>1, Home, Names DEF Ends, Loop, EffectPCs
  <1>3. PICK u \in Task, m \in Manifest :
          /\ Goes(p, u) /\ Moves(s, "ready", "claimed")
          /\ Complete(m) /\ Says(m, "claimed") /\ m.at = t.now
          /\ m.sound <=> e.manifest.sound /\ e.manifest.at <= t.now
                         /\ CanTransition(e.manifest.state, "claimed")
          /\ Writes(u, t, {}, s, "claimed", "claimed", m, "unlock")
    BY <1>2, MoveClaimShape
  <1>4. Legal(e.manifest, "ready") /\ Timed(e.manifest, t.now)
    BY <1>1, ProcessorRunning DEF ProcessorRuns
  <1>5. Legal(m, "claimed")
    BY <1>3, <1>4 DEF Legal, Says, Timed, CanTransition
  <1>6. \A S : StillEnds(p, u, S)
    BY <1>1 DEF StillEnds, Ends, Loop, EffectPCs
  <1>7. <<"ready", "claimed">> \in Lifecycle!Edges /\ "ready" # "claimed"
    BY DEF Lifecycle!Edges
  <1>8. Runs(p, u, disk', fate', clock)
    <2>1. t.now <= clock
      BY ProcessorRunning
    <2>2. disk'[s]["claimed"] = e
      BY <1>3 DEF Moves
    <2> HIDE DEF t, s, e
    <2> QED BY <1>1, <1>3, <1>5, <2>1, <2>2
            DEF Runs, ProcessorRuns, Writes, Loop, EffectPCs, Timed
  <1> HIDE DEF s, e
  <1> QED BY <1>1, <1>2, <1>3, <1>6, <1>7, <1>8, Names, ClockedMove

\* What the processor holds is a legal claim; no result is durable before it
\* has been held.
LEMMA UnlockClocked ==
  ASSUME SInv, CInv, Unlock
  PROVE  CInv' /\ Travels
  <1> DEFINE p == Processor  t == task[p]  s == t.session  e == disk[s]["claimed"]
  <1>1. /\ t.pc = "unlock" /\ SameTime /\ UNCHANGED fate /\ Guarantee(p) /\ p \in Actors
        /\ s \in Sessions /\ Present(s, "claimed")
    BY UnlockShape, UnlockStep, Names, ProcessorState DEF ProcessorFits, Present
  <1>2. PICK u \in Task, x \in Entry :
          /\ Goes(p, u) /\ Steps(u, t, "holding")
          /\ Puts(s, "claimed", x) /\ Touches(x, e) /\ x.temp = e.temp
    BY UnlockShape
  <1>3. Legal(e.manifest, "claimed") /\ ~e.temp /\ t.now <= clock /\ Timed(t.manifest, clock)
    BY <1>1, ProcessorRunning DEF ProcessorRuns
  <1>4. Timed(x.manifest, clock)
    BY <1>1, <1>2, Home, Names DEF Touches
  <1>5. StillEnds(p, u, {s})
    BY <1>1 DEF StillEnds, Ends, Loop, EffectPCs
  <1> HIDE DEF t, s, e
  <1>6. Runs(p, u, disk', fate', clock)
    BY <1>1, <1>2, <1>3 DEF Runs, ProcessorRuns, Steps, Loop, EffectPCs, Puts, Touches, s
  <1>7. Ends(s, u)
    BY <1>2 DEF Ends, Steps, s
  <1> QED BY <1>1, <1>2, <1>4, <1>5, <1>6, <1>7, Names, ClockedPut

-----------------------------------------------------------------------------
(* The processor keeps CInv: the holder of a claim.                        *)

\* What the processor holds: a legal claim, alone under its name.
LEMMA Held ==
  ASSUME SInv, CInv, task[Processor].pc = "holding"
  PROVE  LET t == task[Processor] s == t.session IN
         /\ s \in Sessions /\ Present(s, "claimed") /\ fate[s] # "none"
         /\ Legal(disk[s]["claimed"].manifest, "claimed") /\ ~disk[s]["claimed"].temp
         /\ Timed(disk[s]["claimed"].manifest, clock)
         /\ \A d \in Dirs \ {"claimed"} : ~Present(s, d)
         /\ \A x : Ends(x, t) <=> x = s
  <1> DEFINE t == task[Processor]  s == t.session
  <1>1. s \in Sessions /\ Present(s, "claimed")
    BY ProcessorState DEF ProcessorFits, Present
  <1>2. Legal(disk[s]["claimed"].manifest, "claimed") /\ ~disk[s]["claimed"].temp
    BY ProcessorRunning DEF ProcessorRuns
  <1>3. \A x : Ends(x, t) <=> x = s
    BY DEF Ends, Loop, EffectPCs
  <1> HIDE DEF t, s
  <1>4. /\ fate[s] # "none" /\ Timed(disk[s]["claimed"].manifest, clock)
        /\ \A d \in Dirs \ {"claimed"} : ~Present(s, d)
    BY <1>1, Home, Names
  <1> QED BY <1>1, <1>2, <1>3, <1>4 DEF t, s

\* A claim is released as it was taken, and only without a durable result.
LEMMA ReleaseClaimClocked ==
  ASSUME SInv, CInv, ReleaseClaim
  PROVE  CInv' /\ Travels
  <1> DEFINE p == Processor  t == task[p]  s == t.session  e == disk[s]["claimed"]
  <1>1. /\ t.pc = "holding" /\ SameTime /\ UNCHANGED <<disk, fate>> /\ Guarantee(p)
        /\ Undecided(s) /\ p \in Actors /\ clock' = clock /\ Forward
    BY ReleaseClaimShape, ReleaseClaimStep, Names, Clock
  <1>2. /\ Legal(e.manifest, "claimed") /\ ~e.temp /\ \A x : Ends(x, t) <=> x = s
    BY <1>1, Held
  <1>3. PICK u \in Task, m \in Manifest :
          /\ Complete(m) /\ Says(m, "ready") /\ m.at = t.now
          /\ Goes(p, u) /\ Writes(u, t, {}, s, "claimed", "ready", m, "down")
    BY <1>2, ReleaseClaimShape DEF Readable, Legal, Says
  <1>4. StillEnds(p, u, {})
    BY <1>1, <1>2 DEF StillEnds, Undecided, Durable
  <1>5. Runs(p, u, disk, fate, clock')
    <2>1. t.now <= clock
      BY ProcessorRunning
    <2> HIDE DEF t, s, e
    <2> QED BY <1>1, <1>2, <1>3, <2>1 DEF Runs, ProcessorRuns, Writes, Loop, EffectPCs, Timed, e
  <1> QED BY <1>1, <1>3, <1>4, <1>5, ClockedControl

\* A session the processor gives up on has no durable result.
LEMMA MarkClaimFailedClocked ==
  ASSUME SInv, CInv, MarkClaimFailed
  PROVE  CInv' /\ Travels
  <1> DEFINE p == Processor  t == task[p]  s == t.session  e == disk[s]["claimed"]
  <1>1. /\ t.pc = "holding" /\ SameTime /\ UNCHANGED disk /\ Guarantee(p)
        /\ Undecided(s) /\ Decides(s, "failed") /\ p \in Actors
    BY MarkClaimFailedShape, MarkClaimFailedStep, Names
  <1>2. /\ ~e.temp /\ s \in Sessions /\ fate[s] # "none" /\ ~Present(s, "failed")
        /\ Timed(e.manifest, clock) /\ \A x : Ends(x, t) <=> x = s
    BY <1>1, Held, Names
  <1>3. PICK u \in Task : Fails(p, u, t, {}, s, "claimed", e, "idle")
    BY MarkClaimFailedShape
  <1>4. /\ Goes(p, u)
        /\ u.pc = "write" /\ u.session = s /\ u.from = "claimed" /\ u.to = "failed"
        /\ u.then = "idle" /\ u.now <= clock /\ Timed(u.manifest, clock)
    BY <1>2, <1>3, ProcessorGivesUp
  <1>5. StillEnds(p, u, {s})
    BY <1>2 DEF StillEnds
  <1> HIDE DEF t, s
  <1>6. Runs(p, u, disk', fate', clock)
    BY <1>1, <1>2, <1>4 DEF Runs, ProcessorRuns, Loop, EffectPCs
  <1>7. ~Durable("failed")
    BY DEF Durable
  <1> QED BY <1>1, <1>2, <1>4, <1>5, <1>6, <1>7, ClockedDecide

\* The result of the session held becomes durable.
LEMMA CommitResultClocked ==
  ASSUME SInv, CInv, CommitResult
  PROVE  CInv' /\ Travels
  <1> DEFINE p == Processor  t == task[p]  s == t.session
  <1>1. /\ t.pc = "holding" /\ SameTime /\ UNCHANGED disk /\ Guarantee(p)
        /\ Decides(s, "prepared") /\ Goes(p, t) /\ p \in Actors
    BY CommitResultShape, CommitResultStep, Names
  <1>2. /\ s \in Sessions /\ fate[s] # "none" /\ Ends(s, t)
        /\ \A d \in Dirs \ {"claimed"} : ~Present(s, d)
        /\ Legal(disk[s]["claimed"].manifest, "claimed") /\ ~disk[s]["claimed"].temp
    BY <1>1, Held
  <1>3. StillEnds(p, t, {s})
    BY DEF StillEnds
  <1>4. Runs(p, t, disk', fate', clock)
    <2>1. t.now <= clock /\ Timed(t.manifest, clock)
      BY ProcessorRunning
    <2> HIDE DEF t
    <2> QED BY <1>1, <1>2, <2>1 DEF Runs, ProcessorRuns, Loop, EffectPCs, s
  <1> QED BY <1>1, <1>2, <1>3, <1>4, ClockedDecide

\* What the processor holds is removed once its result is durable.
LEMMA DeleteClaimedClocked ==
  ASSUME SInv, CInv, DeleteClaimed
  PROVE  CInv' /\ Travels
  <1> DEFINE p == Processor  t == task[p]  s == t.session
  <1>1. /\ t.pc = "holding" /\ SameTime /\ Guarantee(p)
        /\ Durable(fate[s]) /\ Decides(s, "deleted") /\ p \in Actors
    BY DeleteClaimedShape, DeleteClaimedStep, Names
  <1>2. /\ s \in Sessions /\ Present(s, "claimed")
        /\ Timed(disk[s]["claimed"].manifest, clock) /\ \A x : Ends(x, t) <=> x = s
    BY <1>1, Held
  <1>3. PICK u \in Task : /\ Empties(p, u, At("idle"), {}, s, "claimed", "idle")
                          /\ u.now = 0 /\ u.manifest = NoManifest
    BY DeleteClaimedShape
  <1>4. StillEnds(p, u, {s})
    BY <1>2 DEF StillEnds
  <1>5. clock \in Nat
    BY ProcessorRunning
  <1> HIDE DEF t, s
  <1>6. PICK e \in Entry : /\ Puts(s, "claimed", e)
                           /\ e.manifest \in {NoManifest, disk[s]["claimed"].manifest}
    BY <1>3 DEF Empties
  <1>7. /\ Goes(p, u) /\ Runs(p, u, disk', fate', clock) /\ Ends(s, u)
        /\ Timed(e.manifest, clock)
    BY <1>1, <1>2, <1>3, <1>5, <1>6
    DEF Empties, Runs, ProcessorRuns, Ends, Loop, EffectPCs, Timed
  <1> QED BY <1>1, <1>2, <1>4, <1>6, <1>7, Names, ClockedPut

-----------------------------------------------------------------------------
(* The world keeps CInv.                                                   *)

\* A stopped process expects nothing, and ends everything when it is back.
LEMMA CrashClocked ==
  ASSUME SInv, CInv, NEW p \in Actors, Crash(p)
  PROVE  CInv' /\ Travels
  <1>1. PICK u \in Task : Goes(p, u) /\ Starts(u, "down", {}, 0)
    BY CrashShape
  <1>2. SameTime /\ UNCHANGED <<disk, fate>> /\ Guarantee(p) /\ clock' = clock /\ Forward
    BY CrashShape, CrashStep, Clock
  <1>3. 0 \in Times /\ 0 <= clock
    BY ConstantsAssumption, ProcessorRunning DEF Times
  <1>4. Runs(p, u, disk, fate, clock')
    BY <1>1, <1>2, <1>3, RestingRuns
  <1>5. StillEnds(p, u, {})
    BY <1>1 DEF StillEnds, Ends, Starts
  <1> QED BY <1>1, <1>2, <1>4, <1>5, ClockedControl

\* Damage to a video disturbs no expectation.
LEMMA DamageVideoClocked ==
  ASSUME SInv, CInv, NEW s \in Sessions, NEW d \in Dirs, DamageVideo(s, d)
  PROVE  CInv' /\ Travels
  <1> DEFINE p == Processor  t == task[p]
  <1>1. /\ d \in {"ready", "claimed"} /\ Present(s, d) /\ SameTime /\ UNCHANGED <<task, fate>>
        /\ Guarantee(p) /\ p \in Actors
    BY DamageVideoShape, DamageVideoStep, Names
  <1>2. PICK x \in Entry :
          /\ Puts(s, d, x) /\ x # Absent /\ x.video = "broken"
          /\ x.manifest = disk[s][d].manifest /\ x.temp = disk[s][d].temp
    BY DamageVideoShape
  <1>3. Goes(p, t) /\ TypeOK
    BY <1>1 DEF SInv, TypeOK, Goes
  <1>4. /\ Timed(x.manifest, clock)
        /\ Durable(fate[s]) => Ends(s, t)
    BY <1>1, <1>2, Home
  <1>5. StillEnds(p, t, {s})
    BY DEF StillEnds
  <1>6. Runs(p, t, disk', fate', clock)
    <2>1. /\ \A y \in Sessions, a \in Dirs :
               /\ disk'[y][a].manifest = disk[y][a].manifest
               /\ disk'[y][a].temp = disk[y][a].temp
      BY <1>1, <1>2 DEF Puts
    <2>2. /\ Runs(p, t, disk, fate, clock) /\ t \in Task
          /\ ProcessorFits(t, disk, fate)
      BY Running, ProcessorState
    <2>3. /\ t.from \in Dirs /\ t.todo \subseteq Sessions /\ t.candidates \subseteq Sessions
          /\ t.pc \in {"write", "claimMove", "unlock", "holding"} => t.session \in Sessions
      BY <2>2 DEF Task, ProcessorFits, EffectPCs
    <2> HIDE DEF t
    <2> QED BY <1>1, <2>1, <2>2, <2>3, Names DEF Runs, ProcessorRuns
  <1> QED BY <1>1, <1>2, <1>3, <1>4, <1>5, <1>6, ClockedPut

-----------------------------------------------------------------------------
(* Every step, with a clock that is never set back.                        *)

\* Every operation of a recorder finds what it expects.
LEMMA RecorderStaysClocked ==
  ASSUME SInv, CInv, NEW c \in Cameras, RecorderStep(c)
  PROVE  CInv' /\ Travels
  BY StartRecorderClocked, RecoverCaptureClocked, RecorderRestsClocked, BeginCaptureClocked,
     FinalizeCaptureClocked, DiscardCaptureClocked DEF RecorderStep

\* Every operation of the processor finds what it expects.
LEMMA ProcessorStaysClocked ==
  ASSUME SInv, CInv,
         \/ ProcessorStartup \/ ProcessorClaim
         \/ ReleaseClaim \/ MarkClaimFailed \/ CommitResult \/ DeleteClaimed
  PROVE  CInv' /\ Travels
  <1>1. CASE ProcessorStartup
    BY <1>1, StartProcessorClocked, PurgePreparedClocked, FinishPurgeClocked,
       RecoverReadyClocked, FinishRecoverReadyClocked, RecoverClaimedClocked,
       FinishRecoveryClocked DEF ProcessorStartup
  <1>2. CASE ProcessorClaim
    BY <1>2, StartClaimClocked, ScanReadyClocked, LockCandidateClocked, MoveClaimClocked,
       UnlockClocked DEF ProcessorClaim
  <1>3. CASE ReleaseClaim \/ MarkClaimFailed \/ CommitResult \/ DeleteClaimed
    BY <1>3, ReleaseClaimClocked, MarkClaimFailedClocked, CommitResultClocked,
       DeleteClaimedClocked
  <1> QED BY <1>1, <1>2, <1>3

\* Every step of the system.
LEMMA NextStaysClocked ==
  ASSUME ~ClockMayStepBack, SInv, CInv, Next
  PROVE  CInv' /\ Travels
  <1>1. ASSUME NEW p \in Actors, DurableEffect(p) \/ Crash(p) PROVE CInv' /\ Travels
    BY <1>1, WriteTempClocked, CommitManifestClocked, MoveDirectoryClocked,
       FinishRemoveClocked, CrashClocked DEF DurableEffect
  <1>2. ASSUME NEW s \in Sessions, NEW d \in Dirs, DamageVideo(s, d) PROVE CInv' /\ Travels
    BY <1>2, DamageVideoClocked
  <1>3. ~SetClockBack
    BY DEF SetClockBack
  <1> QED BY <1>1, <1>2, <1>3, RecorderStaysClocked, ProcessorStaysClocked DEF Next

\* Nothing is on disk and no process runs.
LEMMA ClockedInitially ==
  ASSUME Init
  PROVE  CInv
  <1>1. /\ \A p \in Actors : task[p] = At("down")
        /\ \A s \in Sessions : fate[s] = "none" /\ \A d \in Dirs : disk[s][d] = Absent
        /\ clock = 0
    BY DEF Init
  <1>2. Starts(At("down"), "down", {}, 0)
    BY AtTask DEF PCs
  <1>3. SInv
    BY Initially
  <1>4. 0 \in Times /\ 0 <= clock
    BY <1>1, ConstantsAssumption DEF Times
  <1>5. ASSUME NEW p \in Actors PROVE Runs(p, task[p], disk, fate, clock)
    BY <1>1, <1>2, <1>3, <1>4, RestingRuns
  <1>6. \A s \in Sessions : Housed(s, disk[s], fate[s], clock)
    BY <1>1 DEF Housed, Durable
  <1>7. \A s \in Sessions : Ending(s, disk[s], fate[s], task[Processor])
    BY <1>1, Names DEF Ending
  <1> QED BY <1>5, <1>6, <1>7 DEF CInv

\* CInv is a predicate of the state.
LEMMA ClockedStuttering ==
  ASSUME CInv, UNCHANGED vars
  PROVE  CInv'
  BY DEF CInv, vars

\* With a clock that is never set back, a session also has one directory at
\* most, every process finds what it expects, and a session whose result is
\* durable is about to be removed.
THEOREM StorageClockInvariant ==
  ASSUME ~ClockMayStepBack
  PROVE  Spec => [](SInv /\ CInv)
  <1>1. Init => SInv /\ CInv
    BY Initially, ClockedInitially
  <1>2. SInv /\ CInv /\ [Next]_vars => (SInv /\ CInv)'
    BY NextKeeps, NextStaysClocked, Stuttering, ClockedStuttering
  <1> QED BY <1>1, <1>2, PTL DEF Spec

\* A session never has two directories, whatever step a process died at and
\* whichever recovery ran: the renames of move_session_directory and
\* claim_next_ready hand each session from one owner to the next, and
\* begin_capture never uses a name twice.
THEOREM StorageOneHome ==
  ASSUME ~ClockMayStepBack
  PROVE  Spec => []OneHome
  <1>1. CInv => OneHome
    BY DEF CInv, Housed, OneHome, Present
  <1> QED BY <1>1, StorageClockInvariant, PTL

\* Once its result is durable a session is in claimed or gone: neither a
\* recovery nor a release makes it work again (delete_claimed,
\* delete_session_with_prepared_result).
THEOREM StorageDurableResultEnds ==
  ASSUME ~ClockMayStepBack
  PROVE  Spec => []DurableResultEndsSession
  <1>1. CInv => DurableResultEndsSession
    BY DEF CInv, Housed, Durable, DurableResultEndsSession, Present
  <1> QED BY <1>1, StorageClockInvariant, PTL

\* No process ever leaves because of a name collision, a leftover temporary file
\* or an unexpected manifest: every error path of the operations stays unused
\* however the processes crash.
THEOREM StorageNeverErrs ==
  ASSUME ~ClockMayStepBack
  PROVE  Spec => []NoStorageError
  <1>1. CInv => NoStorageError
    BY DEF CInv, Runs, NoStorageError
  <1> QED BY <1>1, StorageClockInvariant, PTL

-----------------------------------------------------------------------------
(* The storage implements the lifecycle.                                   *)

\* The lifecycle's variable, from the state of the storage.
Place == [s \in Sessions |-> Where(s)]

\* Where a session is, from its directories and its fate.
LEMMA WhereSays ==
  ASSUME NEW s \in Sessions
  PROVE  /\ Where(s) = WhereOf(disk[s], fate[s])
         /\ Where(s)' = WhereOf(disk'[s], fate'[s])
  BY DEF Where, WhereOf, Present

\* Every edge of the lifecycle leads to one of its places.
LEMMA EdgesEnd ==
  ASSUME NEW from, NEW to, <<from, to>> \in Lifecycle!Edges
  PROVE  to \in Lifecycle!Places
  BY DEF Lifecycle!Edges, Lifecycle!Places, Lifecycle!Directories

\* A session that goes on along an edge makes a step of the lifecycle.
LEMMA TravelsMoves ==
  ASSUME Travels
  PROVE  [Lifecycle!Next]_Place
  <1>1. CASE UNCHANGED <<disk, fate>>
    BY <1>1, WhereSays DEF Place
  <1>2. ASSUME NEW s \in Sessions,
               \A x \in Sessions \ {s} : disk'[x] = disk[x] /\ fate'[x] = fate[x], Follows(s)
        PROVE  [Lifecycle!Next]_Place
    <2>1. \A x \in Sessions \ {s} : Where(x)' = Where(x)
      BY <1>2, WhereSays
    <2>2. CASE Where(s)' = Where(s)
      BY <2>1, <2>2 DEF Place
    <2>3. CASE <<Where(s), Where(s)'>> \in Lifecycle!Edges
      <3> DEFINE to == Where(s)'
      <3>1. to \in Lifecycle!Places
        BY <2>3, EdgesEnd
      <3>2. <<Place[s], to>> \in Lifecycle!Edges
        BY <2>3 DEF Place
      <3>3. Place' = [Place EXCEPT ![s] = to]
        BY <2>1 DEF Place
      <3> HIDE DEF to
      <3>4. Lifecycle!Move(s)
        BY <3>1, <3>2, <3>3 DEF Lifecycle!Move, Place
      <3> QED BY <3>4 DEF Lifecycle!Next
    <2> QED BY <1>2, <2>2, <2>3, WhereSays DEF Follows
  <1> QED BY <1>1, <1>2 DEF Travels

\* The storage implements the lifecycle: over every crash, recovery and retry a
\* session follows its edges, failed and gone are final, and no step skips a
\* state or brings back a removed session.
THEOREM StorageImplementsLifecycle ==
  ASSUME ~ClockMayStepBack
  PROVE  Spec => LifecycleSpec
  <1>1. Init => Lifecycle!Init
    <2>1. ASSUME Init, NEW s \in Sessions PROVE Where(s) = "new"
      BY <2>1 DEF Init, Where, Present
    <2> QED BY <2>1 DEF Lifecycle!Init
  <1>2. SInv /\ CInv /\ [Next]_vars => [Lifecycle!Next]_Place
    <2>1. ASSUME SInv, CInv, Next PROVE [Lifecycle!Next]_Place
      BY <2>1, NextStaysClocked, TravelsMoves
    <2>2. ASSUME UNCHANGED vars PROVE [Lifecycle!Next]_Place
      BY <2>2, TravelsMoves DEF vars, Travels
    <2> QED BY <2>1, <2>2
  <1>3. SInv /\ CInv /\ [Next]_vars => [Lifecycle!Next]_[s \in Sessions |-> Where(s)]
    BY <1>2 DEF Place
  <1> QED BY <1>1, <1>3, StorageClockInvariant, PTL DEF Spec, LifecycleSpec, Lifecycle!Spec

=============================================================================
