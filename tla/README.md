# PCRT in TLA+

A model of the passenger counting system in this repository (`README.md`,
`docs/architecture.md`): door telemetry starts and ends video recordings, an
offline processor turns each recording into a count, and an uploader delivers the
counts. The system runs on a vehicle's computer that loses power and network at any
moment, so its correctness is about crashes, restarts, stale messages and retries.
These are what is modelled; image processing, encodings and I/O are abstracted to
their outcomes.

## 1. The system

```
 controller --serial--> door-gateway --PUB/SUB--> recorder (one per camera)
                             |                        | capturing/ -> ready/
                             +-------PUB/SUB-----> processor (one)
                                                      | ready/ -> claimed/ -> gone | failed/
                                                      | prepared row, published row
                                                   result queue (SQLite)
                                                      | due rows
                                                   uploader (one) --HTTPS--> API
```

Every arrow is a different process; they share the session directories, the SQLite
file and lossy messages, and no locks but the processor's own lock file. The gateway
publishes with a valid licence only, which a tool imports beside it; all services read
their settings from one shared file and one of their own.

| component | state | operations | interacts with | what makes it correct | status |
| --- | --- | --- | --- | --- | --- |
| session storage, `crates/pcrt-storage` | directories `<state>/<id>`, manifest with its history, `.claim` and `.tmp` markers | begin, finalize, discard; recover_recording; claim_next_ready, release, mark failed, delete; recover_processing | called by recorders and the processor, concurrently, on one disk | one place per session; nothing published is lost; recovery from a stop between any two effects | modelled |
| session model, `crates/pcrt-model` | none (value types) | state transition relation | all | transitions of the lifecycle only | partly |
| recording core, `crates/pcrt-recording` | idle / capturing / discarded, frame count, encoder | on_door_state, on_frame, shutdown, step | storage, encoder, camera | one capture per interval, within the frame limit, encoder and lifecycle agree | modelled |
| video encoding, `pcrt-recording/src/{ffmpeg,video}.rs` | child process | start, write, finish | recording core | no child left behind; a hung one does not hold the capture for ever | partly |
| recorder service, `bins/pcrt-recorder` | latest door message | main loop, restart | door bus, recording core | a capture ends after its door closed | modelled |
| door controller, `crates/pcrt-door` | decoder's buffer; last snapshot, stale flag, last packet time | push; accept, mark_stale_if_due | gateway | no invented packets; fresh snapshots are recent truth | partly |
| door gateway, `bins/pcrt-door-gateway` | connection, liveness and heartbeat timers | start, connect, read, tick | serial line, bus, licence | goes stale when nobody confirms the doors; repeats itself; comes back | partly |
| door messages, `crates/pcrt-door-zmq` | queue of 10 per side, latest message and its receive time; socket and lock file | bind, publish, drain | gateway, recorder, processor | consumers recover from lost messages; one owner of the endpoint | partly |
| processor service, `bins/pcrt-processor` | lock, door gate | startup, claim loop | bus, processing core | no new claim with open or unknown doors | partly |
| processing core, `crates/pcrt-processing` | the claim in hand | recover, process_one | storage, queue | exactly one result per recording across crashes | modelled |
| AI inference, `bins/pcrt-processor/src/inference` | ring of requests, tracks, line counter | analyze | processing core | frames observed in order whatever the order of completion; counts only confirmed crossings | partly |
| result queue, `crates/pcrt-result-queue` | rows: prepared, pending, dead letter; attempts, next time | insert, publish, next_due, reschedule, delete, dead-letter, requeue | processor, uploader, operator | durable; one row per session; the prepared barrier | modelled |
| uploader, `crates/pcrt-uploader`, `bins/pcrt-uploader` | the request under way | process_next, retry policy, requeue | queue, API | nothing lost; documented waits; repeats only after trouble | modelled |
| API client, `crates/pcrt-api-client` | none | classification of answers | API | permanent and retryable failures told apart | partly |
| licensing, `crates/pcrt-license`, `pcrt-license-signing`, `bins/pcrt-license-*` | request, licence and temporary files | request, issue, import, validate | gateway, recorder | an import never costs a valid licence | partly |
| configuration, `crates/pcrt-config` and each service's `config.rs`; logging | settings files | read, override, check | all | services that share a setting use one value | partly |
| shell scripts (`scripts/`: updater, modem watchdog) | | deployment | | no state shared with the services | no |

Several source files are not part of any binary and are not modelled:
`bins/pcrt-recorder/src/{runtime,config}.rs` and `src/recorder/`,
`bins/pcrt-door-gateway/src/door/`, and all of `crates/pcrt-door-zmq/src` but
`lib.rs`. Their `mod` declarations are missing from the crate roots.

What is hard here: every storage operation is several durable effects with a
possible stop between any two; two kinds of process work on one disk without locks;
video deletion and result publication are on two stores; requests may have been
executed although they failed; door messages are lost, late, or never sent; bytes of the
serial line are lost and cut into reads anywhere; detector requests complete in any
order; an encoder may hang; wall clock times are stored and compared although the clock
may be set back. `PROJECT.json` lists each such hazard at its line.

## 2. The modules

| module | models | state | actions |
| --- | --- | --- | --- |
| `SessionLifecycle` | what the storage promises of one session: its place and the edges it may move along | `place` | `Move` |
| `SessionStorage` | `pcrt-storage` with its recorders and the processor | `disk`: directories with manifest, video, temp and lock; `task`: each process's program counter and locals; `clock`, `stops`; `fate` (history) | one per durable effect: `WriteTemp`, `CommitManifest`, `MoveDirectory`, `FinishRemove`, ..., one per decision, `Crash` at any of them |
| `ResultQueue` | the SQL operations of `pcrt-result-queue`, as action operators | `rows` | `Insert`, `Publish`, `Reschedule`, ... |
| `Uploader` | uploaders, operator and API over one queue; the processor as `Deposit`/`Release` | `task`, `received`, `deposited`, `trouble`, `clock` | `TakeNext`, `SendDelivered`, `SendRefused`, `Settle`, ... |
| `Pipeline` | the processor (recover, process_one) over abstract storage and the queue, with uploaders | `place`, `work`, `published`, and the queue | one per call of the storage or queue |
| `DoorGateway` | gateway loop, engine and state machine, and the bus to one consumer | `doors`, `gateway`, `bus`, `joined`, ages since the doors were open/closed (history) | `Connect`, `AcceptPacket`, `ReadNothing`, `ReadFails`, `Tick`, `StopGateway`, `MoveDoor` |
| `Recorder` | a recorder and its ffmpeg on the bus of `DoorGateway` | `recorder`, `child`; `begun`, `failed` (history) | `PollOpen`, `PollClosed`, `ReadFrame`, `BlockOnWrite`, `ReadNoFrame`, `ReadEndOfFile`, `ChildHangs`, `ShutDownRecorder`, ... |
| `LicensedBus` | `Recorder` when the licence of the gateway runs out | `licensed` | `DenyGateway`, `LoseLicence`, the steps of a bus without other trouble |
| `ProcessorGate` | the processor's door gate on the bus of `DoorGateway` | `gate`, `polled`, `prompt` (history) | `PollGate`, `FinishWork`, ... |
| `StreamDecoder` | the decoder of the controller's byte stream | `line`, `buffer`, what was read and decoded (history) | `Send`, `ReadChunk`, `Reconnect` |
| `FrameByFrame` | what the analysis promises: frames observed one by one | the last frame, the sampled ones, the outcome | `Observe`, `Count`, `GiveUp` |
| `Counting` | sampling decoder, ring of detector requests, track recovery, line counter | ring, histories, counts | `SkipFrame`, `Submit`, `Complete`, `ObserveSampled`, `ObserveConfirmed`, `ObserveRecovered`, `EndFrame`, ... |
| `Configuration` | how each service obtains the settings it shares with others | none (operators) | |
| `Licensing` | request, issue and import of a licence | `disk`, `installed`, `temporary`, `tool`, ... | `Request`, `Issue`, the steps of an import, `ChangeSource`, ... |
| `DoorEndpoint` | lock file and socket path of the door bus | `path`, `lock`, `publisher` | `TakeLock`, the probe and removal of a stale socket, `Close`, `Kill` |
| `Startup` | gateways that need all three to publish, one of them systemd's unit (`scripts/services/door_gateway_service.sh`) | the above, `sources`, `unit`, `starts`; `refused` (history) | `StartUnit`, `GiveUpUnit`, `StartByHand`, `Deny`, `ShutDownPublisher`, `SwitchOff`, `EditSources`, ... |
| `MC*` | a module with the symmetry or the values TLC needs | | |
| `*_proofs` | theorems, section 4 | | |

Composition and refinement:

- `SessionStorage` implements `SessionLifecycle` under the mapping `Where`
  (property `LifecycleSpec`). `Pipeline` uses `SessionLifecycle`'s places instead of
  directories, and `StorageUsedAsAssumed` checks that it moves sessions along the
  same edges. So what is shown of `Pipeline` applies to the detailed storage as far
  as places are concerned.
- `Pipeline` extends `Uploader`: the processor replaces its `Deposit` and `Release`.
  `QueueUsedAsAssumed` says that the composition implements `UploaderSpec`, so the
  uploader's invariants carry over to the pipeline.
- `Recorder` and `ProcessorGate` each extend `DoorGateway`. PUB never waits for a
  subscriber, so consumers influence neither the gateway nor each other and one
  consumer at a time is the general case. `LicensedBus` extends `Recorder`.
- `Counting` implements `FrameByFrame`: a ring whose requests complete in any order
  observes as a loop over the frames would.
- `Startup` composes `Configuration`, `Licensing` and `DoorEndpoint`; its `serving` is
  where `DoorGateway` begins.

### Correspondence and abstractions

*Storage.* A manifest's history is kept as its last state and time and whether it is
`sound` (legal steps in time order): that is what `read_manifest` asks of it. Videos
are `intact` or `broken` against their checksum. `rename(2)` does not replace a
non-empty directory, so `ensure_absent` and the rename are one action; the three
unlinks of `remove_recovery_markers` are one step since each is idempotent and
nothing happens in between. A removed directory passes through a state without its
manifest. Session ids are pairs of camera and start time, as in the code. One
`now_ms` is read for each claim, release, failure or insertion, and one for a whole
recovery. A recorder leaves on any error; its supervisor starts it again. The
order in which directory listings return is any order. An error of the disk itself
(full, read-only) is not modelled. `fate` is a history: how far a session came (`begun`, `published`) and what was decided
of it. With it `Where` tells a session that never began from one that is gone.

*Queue and uploader.* The idempotency key is derived from the session id, so it is
the session. A row is read with `next_due` and handled by later transactions, other
connections in between. `MayFail` bounds how often the API fails a row in a row and
`MaxTrouble` how many answers are lost; the limit of the backoff is computed as in
`retry_limit`, and the jitter is any delay up to it. Order among rows due at one time is open, as in the SQL.

*Pipeline.* The outcome of an analysis is any result or a terminal failure. A failing
release leaves the session claimed and the process exits, which is a stop. The
`Reconciled` branch of `process_one` is unreachable while ids are not reused and so
absent. Door gate and licence only delay a claim.

*Doors.* Time is counted in units of the longest a read may block (the
configuration is refused unless read timeout <= heartbeat < stale < liveness).
Timers are ages that saturate where the code can no longer tell values apart, so
there is no horizon. A read yields a packet with the doors as they are, or nothing;
several packets in one read are several reads without time. When the queue is full the
new message is lost (a high water mark drops the newest). `drain` takes at least
what reached the subscriber's own queue. Messages are what they mean to a consumer:
`open`, `closed` or `stale` (both consumers test `stale` first); parsing,
sequence numbers and wall clock stamps are left out, as no consumer reads
them.

*Recorder.* The child runs, hangs (it does not read its pipe, so `write_all` blocks the
one thread of the recorder) or is gone. `finish` closes the pipe, waits for the stop
timeout and kills; the wait takes no turn of the loop and so no time of the model. An error of encoder,
storage or source ends the process as in `main.rs`; the capture is then left to
recovery, which is `SessionStorage`'s part. The camera may have no frame at any time.

*Decoder.* A packet has the size the configuration gives it; its bytes are symbols that
carry the number of the packet they were sent in, which only the properties see. The
line may drop or replace a byte of a packet, and a reconnection may begin anywhere.

*Analysis.* Which tracks are confirmed in a frame, on which side of the line, and which
lost track a new one resembles are any choice. The ring of requests, the sampling stride,
the ages of histories and the order of the counter's steps are the code's.

*Settings, licence, endpoint.* Of the keys only the three that services share
are kept. A file's text is a path that may stand in quotes. A licence is told by the disk identifier it names;
signature, product and bus are sound or not. An import reads its source, checks it, reads it
again, writes a temporary file named by its process id and renames it. The kernel frees
the lock of a dead gateway and leaves its socket. The unit of the gateway says `Restart=on-failure` and nothing of a start limit, so
systemd's default holds: after five starts in ten seconds (`StartLimit`) the unit stays failed, and one that ended with status 0 is not
started again. `TenSecondsPass` may come at any time or never. An operator who starts the unit again waits ten seconds.

## 3. The checks

All passing runs finish in under four minutes on two cores.

| run | question | bounds | outcome |
| --- | --- | --- | --- |
| `StorageCrash` | does the storage survive a stop of recorder and processor between any two effects, implement `SessionLifecycle`, never refuse to start and bring every session to a decision? | one camera, start times 0..1, 2 stops | holds |
| `StorageFaults` | with damaged videos, crashes and a clock set back, is anything published lost, a sound recording failed, a failed one changed, or a capture touched by another's recorder? | two cameras (symmetric), one start time each, 2 stops | holds |
| `StorageClaimCrash` | does recovery return an abandoned claim to ready? | one camera, 1 stop | **violated**, finding 1 |
| `Uploader` | are repeats, waits and dead letters as documented through kills, lost answers, a requeue under the uploader and a clock set back? | 2 sessions, 3 failures in a row, backoff 1..2, time 0..3, 2 troubles | holds |
| `Pipeline` | is every recording accounted for, never analysed after its result is durable, and settled in the end? | 2 sessions, 2 possible results, 2 stops, 1 failure and 1 trouble, clock set back | holds |
| `Recorder` | one bounded capture per interval seen, no ffmpeg left behind, and does a capture end after its door closed? | one door, heartbeat 1, stale 2, liveness 3, queue 2, 2 frames, 1 stop of either process | holds |
| `LicensedBus` | does a recorder go on recording when the licence is over? | as `Recorder`, 1 frame, no stops | **violated**, finding 3 |
| `ProcessorGate` | do fresh snapshots track the doors; is a claim of a processor that keeps up made with doors closed a bounded time ago? | two doors (symmetric), TTL 1, queue 2, 1 stop | holds |
| `ProcessorGateBacklog` | is every claim made with the doors closed? | as `ProcessorGate` | **violated**, finding 2 |
| `StreamDecoder` | is a packet ever put together from two, do the cuts matter, what does damage cost? | two doors, 3 packets, every cut, 1 damage or reconnection | holds |
| `Counting` | does the ring observe frames in order; is only a confirmed crossing counted, and no lost track continued twice? | 5 frames, 2 requests, stride 2, track buffer 2, 3 tracks | holds |
| `Startup` | one owner of the socket, no licence lost by an import, services that agree, a unit that publishes whatever a dead gateway left? | 2 gateways, 2 starts in ten seconds, 1 import, 3 disks (serial, which comes first; WWID only; virtual), 2 configurations, 1 stop | holds |

The bounds: crashes and recoveries touch one session at a time and recovery loops over sessions
independently, so two sessions of one camera, or one each of two, show every interaction the code has
(a claim beside a capture, a scan with two candidates, a collision of ids), and two
stops include a stop during the recovery from a stop. Two results let a second
analysis differ from the first. Three failures pass the cap of the backoff. The door
timeouts are the smallest in the order that the configuration enforces; a queue of two
with one message on the subscriber's side has all three cases of a drain
(empty, all, a part). Two frames reach the limit and the frame over it. Three packets
overflow the decoder's buffer, which holds two and a header (of four symbols, one of them repeated as in "!DOORS:"), and let damage fall on the
first, a middle or the last one. Five frames fill a ring of two, reuse both slots and leave
an unsampled frame at the end; three tracks let two new ones compete for one lost one. The
configurations are the shipped files and the same with endpoint and queue erased. Two starts in ten seconds are one more than
the run's one death uses up, and refusals use up both; that a gateway dies five times in ten seconds without being refused is
left out, since the bound on deaths is below the limit as well.

`CHECK_DEADLOCK FALSE` is used by the uploader, pipeline, decoder and analysis runs: with every result
delivered and the clock at its bound, every packet decoded, or the analysis over, the
system really has nothing left to do. All other models never stop.

### Findings

1. `claim_next_ready` renames the directory before it writes the manifest. After a
   crash in between, recovery appends `Ready` after `Ready`, which no later read
   accepts, and an intact session ends in `failed/`; the storage document promises
   its return to `ready`.
2. Old messages that waited in the queue during an analysis are stamped as received
   when they are drained, so a claim is admitted with the doors long open.
   `PromptAdmissionIsCurrent` shows that this backlog is the only cause.
3. Without a licence the gateway exits; the recorder, which hears nothing, takes the door
   for closed and records nothing. The licence document promises that a licence error
   does not cost the bus its video.

Other disagreements seen while modelling, without a run of their own:

- `begin_capture` refuses a taken id in `capturing/` only; with the clock set back a
  new capture takes the id of an older session. Publication then fails and nothing is overwritten (`StorageFaults`).
  After a step back a claim also writes a history out of time order, so releasing it fails and recovery
  gives up the session; `SoundNeverFailed` asks for a legal history for this reason and finding 1's.
- A row scheduled before a step back waits longer by that step, the next attempt being an
  absolute time; `WaitIsBounded` counts from the latest time shown.
- The recorder never looks at the age of door data (`bins/pcrt-recorder/src/main.rs:111`;
  `docs/modules/pcrt-door.md:384-390` gives every subscriber an expiry). A dead gateway with
  the door open lets it record until the frame limit, or until the next gateway speaks, which is what `ClosedDoorEndsCapture` relies on.
- A stale phase, an encoder failure (the service exits and systemd starts it again) or a
  restart within one open interval splits it into two sessions, against
  `docs/modules/pcrt-recording.md:44-46`; `OneCapturePerInterval` speaks of the intervals the recorder sees
  and excepts failures.
- After one lost byte the decoder also loses the next packet: the candidate it drops ends in that packet's
  first byte, and the second search for a header in it (`controller.rs:254`) repeats the one that failed. The door
  document (`docs/modules/pcrt-door.md:201-203`) says that packet is kept; `DamageIsLocal` states this loss as the limit.
- An overflow of the decoder keeps the newest bytes, not only what may begin a header
  (`docs/modules/pcrt-door.md:211-213`).
- Services given the same files can use different values: `SESSIONS_DIR` without
  `RESULT_QUEUE_DB` moves the processor's queue and not the uploader's, only the gateway
  takes quotes off, and the shipped `uploader.env` overrides `RESULT_QUEUE_DB`. `WellNamed` says what it takes.
- An import reads its source a second time after the check; `LicenceIsKept` excepts a source changed in
  between, and two imports that race are the subject of theorem `LicenceKept` only, the run having one. A temporary file of a dead import blocks one with the same process id. The serial is
  preferred to the WWID, so a licence stops matching when the serial becomes readable or unreadable.
- Without a licence the unit of the gateway is started five times in five seconds and stays failed. Nothing starts it again when a
  licence is imported, nor does a document tell the operator to; the same holds for bad settings and for an endpoint that a gateway
  started by hand owns. `GatewayComesBack` excepts what ran into the start limit in these ways and fails without the exception.
- The processor does not check the licence at start (`docs/licensing.md:324-325`), and
  `AI_SKIP_FRAMES` is not checked against `AI_TRACK_BUFFER`.

### Fairness

Liveness assumes that services that die are started again and keep taking steps, which is weak fairness of start,
recovery and loop actions, and that time passes. All units say `Restart=on-failure`. Recorder and processor are started again after two
seconds and the uploader after five (`RestartSec`), so a sixth start comes after more than ten seconds and only the gateway's unit (one
second) reaches systemd's start limit; `Startup` models it. A service that ended with status 0 is not started again by systemd: outside `Startup` a stop on purpose counts as a death,
that is, whoever stops a service is assumed to start it again. Per module:

- `SessionStorage`: also that a capture ends (the door closes, the frame limit is
  reached or the encoder fails) and that the processor gets to claim: `ProcessorClaim` is
  weakly fair because the doors are closed for long enough between stops. Stops are
  bounded by `MaxStops`: a system that is killed for ever settles nothing.
- `Pipeline`: the API fails a row at most `MaxAttempts` times in a row. No
  fairness of requeue, lost answers, or failing operations.
- `Recorder`: weak fairness of the loops of gateway and recorder and of the subscription,
  strong fairness of `Elapse`, which says only that time diverges (each turn of the gateway
  loop may take no time, but not all of them), and of the recorder's loop, which a hanging child interrupts.
  `ChildReadsOn` is weakly fair: an ffmpeg that does not read its pipe reads on or dies in the end, for
  nothing in the code would end the write that waits for it. Nothing is assumed of the controller, the
  serial line or the camera.
- `Startup`: weak fairness of each running gateway's steps, and of systemd's next start of a unit that is on or its giving up.
  No fairness of the tool, the operator, a start by hand or the end of the ten seconds.
- `LicensedBus`: weak fairness of the gateway, with and without a licence, and of the recorder, strong
  fairness of the subscription. The run excludes all other trouble, so the counterexample is the licence's.

## 4. The proofs

`tlapm` checks all eight modules with no obligation left; the theorems hold for any number of cameras,
sessions, results, uploaders, doors, requests, frames, tracks, gateways, imports and crashes, and any bounds. The
assumptions are those named in the modules, which TLC evaluates with every run, and, where a theorem states it, one
uploader or a clock that is never set back.

`SessionStorage_proofs` has two invariants. `SInv` (`StorageInvariant`) holds wherever the clock is set. For every process it
relates program counter and locals to the disk (`RecorderFits`, `ProcessorFits`): the directory a process works on is where it
will take it from, and what its listing found and it has not come to yet is still there. For every session it says that a published
recording is kept, complete, until its result is durable (`Kept`), that a good one says in its manifest where it is (`Placed`, or the
move is still to come), and which leftovers may be in `ready` (`Tidy`). None of the properties is inductive without the first part. The
heart is `Guarantee`, what a step of one process leaves to all others: a recorder touches only its own
camera's captures and puts new sessions into `ready`, the processor alone works on `ready` and `claimed`. A lemma per action
shows the form its step takes, another that the form keeps `SInv` and the guarantee. From it come `StorageTypeOK`,
`StorageKeepsPublished` and `StorageSoundNeverFailed`, and from the guarantee the action
properties `StorageFailedIsFinal` and `StorageCaptureHasOneOwner`.

`CInv` (`StorageClockInvariant`) assumes that the clock is never set back, which is what keeps a new capture from taking the name of
an older session. It adds that a name is used once, that a session has one directory at most (`Housed`), that manifests are of the past and
legal where a process relies on it (`RecorderRuns`, `ProcessorRuns`), and that only the processor's own removal is left for
a session whose result is durable (`Ending`). Then no rename finds its target taken and no read a manifest it refuses:
`StorageOneHome`, `StorageDurableResultEnds` and `StorageNeverErrs`. Each action's third lemma shows that it moves one session at
most, along an edge; with it `StorageImplementsLifecycle` proves the refinement of `SessionLifecycle` under `Where`.

`Pipeline_proofs`, first about `Uploader`: two invariants. `UInv` holds for any number of uploaders: an attempt under way is for a
committed result whose row is not prepared, and what was sent was not prepared. It gives `NothingLost` and
`PreparedIsUnsent`. `OInv` adds, for a single uploader, that the session of an attempt still has its row, pending, and that
each delivery beyond the first is paid for by one trouble (`CountedBy`); it gives `UploaderNeverErrs`,
`RepeatOnlyAfterTrouble` and `DeadLetterIsKept`. The lemmas on rows are shared with the proofs about `Pipeline`.
`WInv` adds that the uploader counts from the failures on record of the row it took and from a time the clock has shown, for
`WaitProved`. It rests on `LimitIsPromised`: the loop of `retry_limit` and the documented formula agree for every number of failures.
Both are recursive functions. That such a function exists and what it computes is proved by induction (`Recursion`,
`Induction`), which follows from the library's well-foundedness of the naturals: the set of counterexamples would have a least number.

Then about `Pipeline`: `PipelineInvariant` is `PipelineSpec => []PInv` without further assumptions, with both
directions of the clock and any number of uploaders. `PInv` relates the step of the
processor to the session's place and the row of its result (`ProcessorOK`), says where the
session of a prepared row can be, and that a visible or sent result has no video. From it
follow all five invariants of the run (`PipelineTyping`, `PipelineAccounts`,
`PipelineDeletesFirst`, `PipelineAnalysesOnce`, `PipelineNeverConflicts`) and the two
refinements, `PipelineUsesQueue` (`PipelineSpec => UploaderSpec`) and
`PipelineUsesStorage`.

`DoorGateway_proofs` has the lemmas the two consumers share: `GatewayInv` is typing, `FreshIsRecent` (a
snapshot that is not stale is no older than the stale timeout and one read) and `HistoryIsNow` (the ages agree with
the doors). `ProcessorGate_proofs` adds what is known of the queue (`QueueIsNew`: while the gate keeps up, every
`closed` in it was true a bounded time ago) and of the last message heard (`HeardIsKnown`), from
which `PromptAdmissionProved` follows. `Recorder_proofs` adds the relation of recorder, child and
history (`RecorderPart`, `HistoryPart`) for `EncoderAgrees` and `OneCaptureProved`.

`Counting_proofs` has an invariant for each property. `CInv` says that the side in a history is none or the side its track was
last confirmed on, since predictions touch the pending mark only: `CountProved`. `RingInv` says that the frames in the requests are in the order of
the turns they were submitted in (`Earlier`, the cyclic order from the next turn on), all after the observed frame and before the one in
the decoder's hand; that the request waited for holds the earliest; and that no sampled frame between the tracker and the decoder is
missing (`AllThere`). With arithmetic modulo the ring and the stride, every step is then one of `FrameByFrame` or none:
`AnalysisProved`. `OriginsOK` says that a history began in an earlier frame, or in this one with a track that is counted
already, so a history that begins now shares its origin with no other: `LostTrackProved`.

`Startup_proofs`: `EndpointOwned` needs that the lock is held by the one gateway past `TakeLock`
(`LockIsExclusive`), since only the holder touches the path; `LicenceKept` that what an import holds and has
written was checked against the disk in the computer (`CheckedFirst`); `ServicesAgree` computes the overriding of settings for any values.

`StreamDecoder_proofs` treats the loop of `push` as a recursive function. Each turn goes on with fewer bytes, so by induction over
the size of the buffer there is such a function and it returns bytes that were buffered (`ScanSolves`). What a scan leaves can be
scanned again with more bytes after it, with the same result as one scan of all (`ScanJoined`: a header found in a part is the one found in
the whole, and the tail kept is long enough for one that is cut): `ChunkingProved`. For `NothingInventedProved`, `StreamInv` gives every byte that is
buffered or on its way a place in its packet (`Placed`): the bytes of a packet come in order, one of them may be gone, and what else is
missing is missing in front of the stream. A header is found where one was sent (`HeaderPlace`: its last symbol and the one before are
together in no record), so a candidate that parses has the bytes from one packet's header to the end of a record at the right distance, which is the
end of the same packet (`CandidateWhole`). `DamageProved` is the converse: a packet that comes whole after one that is not damaged is not passed
over. Its bytes have exact places (`IntactPlaces`), and every header before it has room for a candidate that ends before it
(`RoomBefore`: had the packet of that header lost a byte, the undamaged one lies between), so each turn decodes the packet or goes on
before it (`TurnFinds`), and so does the loop (`ScanFinds`). `NearInv` says that the stream skips no packet and ends with the last one sent, that every
packet the property speaks of is decoded or in the stream and not all read, and that what an overflow took is two packets older than
what is still to come (`DroppedIs`). All three rest on `DecoderAssumption`: the first symbol of the header and the last occur in it once,
and none is one of a record's fixed symbols. The sequences have defined names in these proofs, since the SMT solver does not
terminate on long chains of `\o` and `SubSeq`.

Only model-checked: all liveness (`CaptureSettles`, `SessionSettles`, `RecordingSettles`, `ClosedDoorEndsCapture`,
`GatewayComesBack`), since fairness and ENABLED are out of the prover's reach.

## 5. Not modelled, and why

- Cameras, pixels, detection, boxes and ByteTrack's matching: external programs and floating point; their outcomes are
  nondeterministic choices.
- Cryptography, SMBIOS and key generation; commands of the licence tools that only print.
- JSON and manifest parsing, result encoding, TLS: formatting and I/O; the models start from accepted values.
- Settings that one service reads alone, serial port discovery, metrics, logging.
- The processor's lock file: one processor is assumed.
- A camera renamed in or removed from the configuration, whose captures nobody recovers
  (`pcrt-storage/src/lib.rs:550`), and one that delivers no frame for good (`service.rs:120`).
- The time between the door gate and the claim, in which `process_one` verifies whole videos
  (`bins/pcrt-processor/src/runtime.rs:65`).
- Errors of the disk (full, read-only) and of SQLite other than a failed insert.
- Shell scripts, but for the restart policy in the gateway's unit, and the sources no binary compiles (section 1).

## 6. Plan

Done: storage with lifecycle, queue, uploader, pipeline, doors with both consumers, the
encoder child, decoder, analysis, settings, licence and endpoint; proofs of all their safety properties and refinements.

Next, in this order:

1. Changed camera configuration in `SessionStorage`.
2. The time between gate and claim in `ProcessorGate`.
