# A verification project for OasisNvr

TLA+ models of the network video recorder in `src/`, the TLC configurations that
check them on small instances, and proofs for TLAPS of what holds for every
value of the constants. The reference is the Rust code under `src/src/`; every
definition is tied to the lines it models in `PROJECT.json` ("map").

    tlc -config <run>.cfg <module>      # the runs of PROJECT.json
    tlapm <module>Proofs.tla            # the proofs of section 5

## 1. The system

The recorder takes RTSP cameras, cuts each stream into fragments of a few
seconds, and writes all fragments of all cameras through one task into a ring
of preallocated pool files. An index in memory says where each segment lies; it
is rebuilt by scanning the pool files at start. An HTTP API lists, streams and
exports segments and adds and removes cameras.

    format-location callback --channel--> worker --channel--> writer --> pool files
         (GStreamer thread)    (32)       (task)   (queue_size)  |  \--> index
                                                                 |
             segment requests, exports: pool lock, index lock, read guards

### Components

| Component | State | Operations | Correct when |
|---|---|---|---|
| ChunkPool (`storage/chunk_pool.rs`) | pool files (header, records); `PoolSlot`s with pool_id and bytes_used, `write_idx`; `PoolReadCounters` | open, append with rotate, scan, status, acquire/release a read guard | a record is written where nothing indexed lies; the scan finds what was written, whole; the ring goes on where it stopped |
| SegmentIndex (`storage/index.rs`) | B-tree by (camera, start, id), id counter | insert, evict_pool, rebuild_from_scanned, queries | every entry points to its own record; ids follow the recording |
| Global writer (`storage/global_writer.rs`) | the request channel, the request in hand | spawn_writer with the rebuild, writer_loop | every request is settled; the oldest goes first; eviction, append and insertion agree |
| Segment requests, exports (`api.rs`, `playback.rs`) | locks and guards held, a range of segments | handle_hls_segment, handle_export, export_range | they get the bytes they asked for, give every guard back, and do not stop the recording |
| Camera stream (`camera.rs`) | FragmentState (current_path, index, discard_next), the fragment channel, the pipeline | connect, supervised_connect, format-location, read_segment, stop, drop | each finished fragment is handed over once, in order, the bootstrap fragment never; a failed stream is connected again; stopping ends |
| Ingestion worker (`ingestion.rs`) | the fragment in hand | run, forward_segment | nothing is lost to backpressure; cancellation leaves no half state |
| Recording manager (`manager.rs`) | workers by camera id | new, add_camera, remove_camera, list_cameras, shutdown | one worker per camera; what is listed has a task, and a task that runs is listed and can be removed |
| HLS playlists (`hls.rs`), DASH manifests (`dash.rs`) | none; a blocking reload waits for an id | live, VOD, manifest | a player is only moved forward, an id keeps its meaning, a reload ends, a manifest names what it lists |
| Camera administration (`api.rs`, `config.rs`, `main.rs`) | the configuration in memory and its file | add and remove a camera, save, load, start, end | manager, memory and file agree; a restart brings back what was saved; no request waits for ever |
| Status, lists, login, pages (`api.rs`), command line (`main.rs`), remux (`playback.rs`), errors, web interface, tests | none of their own | read-only | - |

### How they interact, and what is hard

* **Three lock domains and no common one.** The writer takes the pool's
  read lock (status), the index's write lock (eviction), the pool's write lock
  (append) and the index's again (insertion), one after the other. A segment
  request reads the index, gives it back, and takes the pool's lock. An export
  keeps the index's read lock, holds guards, and takes no pool lock. The
  order of these steps is the subject of `SegmentReads`.
* **Rotation waits for readers with the write lock held**, at most 50 polls of
  100 ms, and then goes ahead.
* **Crash and restart.** Nothing is journaled: the index, `bytes_used` and the
  place of writing are rebuilt from what lies in the files, with leftovers of
  earlier laps of the ring behind the current records.
* **Failures in the middle.** A write that fails leaves part of a record and an
  unchanged `bytes_used`; a header that fails leaves a slot that is taken in
  memory and not on disk.
* **Threads of GStreamer against tasks of Tokio.** A callback blocks on a
  channel while the task that could empty it stops the pipeline and waits for
  the callback's thread; tasks are aborted at any await.
* **One id counter for all cameras**, which starts again with each process, while
  playlists and manifests number the segments of one camera by it.
* **Manager, configuration and file are changed under two locks**, the manager's
  mutex and within it the config's `RwLock`; status requests take both one after
  the other, the second one twice. The file is emptied before it is written.

`PROJECT.json` lists each such hazard at the line where it bites, with the
properties that cover it, or why none does.

## 2. The modules

| Module | Models | Extends |
|---|---|---|
| `ChunkPool` | the pool ring: open, scan, append and rotate in steps, failures, counters | - |
| `SegmentIndex` | the index, the order of a rebuild | `ChunkPool` |
| `GlobalWriter` | the writer task with start, crash, restart, I/O errors | `SegmentIndex` |
| `Recording` | the abstract specification of one session of recording | - |
| `SegmentReads` | segment requests and exports beside the writer, with locks | `GlobalWriter` |
| `Playlists` | playlists, manifests and players beside the writer | `GlobalWriter` |
| `Ingestion` | callback, worker and manager for one camera | - |
| `Administration` | manager, configuration, config file, clients of the API | - |
| `MCGlobalWriter`, `MCSegmentReads`, `MCPlaylists`, `MCAdministration` | instances for TLC | the above |
| `ChunkPoolProofs`, `GlobalWriterProofs` | facts about the scan; types, headers, session | the above, TLAPS |
| `RecoveryProofs`, `RecordingProofs` | restarts; one session and its refinement | `GlobalWriterProofs` |
| `ReadsProofs` | requests and exports | `SegmentReads`, `RecoveryProofs` |
| `PlaylistsProofs` | players and manifests | `Playlists`, `RecordingProofs` |
| `IngestionProofs`, `AdministrationProofs` | workers and streams; manager, configuration and file | their modules |

`Ingestion` ends where the worker's `send` on the writer's channel completes,
which is `Send` of `GlobalWriter`; the two share no other state. `Ingestion` looks
at the successive workers of one camera in all their steps, `Administration` at
the map of all cameras and takes a worker as a task that runs or does not.

### State and code

* **Units.** A pool file is `Capacity` units; a record of size s is a header
  unit and s-1 payload units. `cells[p][u]` is the record a unit was written
  for and its place in that record. The scan looks at header units only, as the
  code reads headers and seeks over payloads. `Visited` is the least
  set closed under that walk, which the code computes with a loop.
* **Time.** `seq` numbers the segments in the order in which they are handed
  over. It stands for `start_ts` and for the payload, so "its own bytes" can be
  stated. Two segments with one timestamp are kept apart by their id in the
  code and by `seq` here. A segment lasts from `seq` to `seq + 1` in range queries.
* **Camera ids.** `DiskId[c]` is what the 16 bytes of a record header keep of an id.
* **Pool header.** `header[p]` is the pool_id, `NoMagic` for a preallocated file
  without header, `NoFile`. Other fields of the header are never read again.
* **Append** goes through `phase`: idle, wait (polling readers), take (the slot),
  header, write, and back to idle. Every write to disk is a step of its own, so a
  crash or an error can fall between any two. The lock is held throughout, which
  `PoolWriteLocked` expresses.
* **The writer** goes through `pc`: down, rebuild, recv, status, evict, append,
  insert, the sections of writer_loop between two acquisitions of a lock.
* **History.** `sent`, `session`, `lost`, `torn`, `crashes`, `faults`, `unread` of
  `Ingestion`, `from` of `Playlists`, and `hidden`, `kept`, `unsaved`, `damaged` of
  `Administration` exist in no program. They bound the exploration or are read by
  properties; no action of the code depends on them.
* **Readers.** `viewer[v]` and `export[x]` hold the stage, the location in hand
  and, as history, which units were read for which segment. In `GlobalWriter`
  alone, readers are `TakeGuard` and `DropGuard` at any time: more than the code
  does, so what holds there holds whatever the API does with its guards.
* **Players.** `player[c]` is a player of camera c: the stage of its request, the
  `_HLS_msn` it waits for, the polls made so far, and the last playlist it got.
  `Window`, `SegmentsInRange`, `Live` and `Vod` are functions of the index, as in the
  code. `Withheld` is the condition on which a reload goes on waiting: the camera has
  segments, and none with an id that high.
* **Ingestion.** `entry` is the manager's map at one camera id, `task[w]` the await
  or the step of drop a worker stands at, `handing[w]` the fragment a callback
  holds in blocking_send (with the lock of FragmentState), `channel[w]` the
  fragments in between. `Senders` lists who keeps the channel open: it is the
  reason why `ReadSegment` never sees None.
* **Administration.** `file` and `config` are sequences of camera ids; a file that
  can not be loaded (cut within a table, or without a camera) is empty. A task has its
  camera and a number that tells it from others of the same camera. A client's
  request goes through asked, changed (the map is changed, the mutex held), queued (it waits for the
  config's write lock, and no new reader is let in), saving (it has the lock), writing
  (the file is emptied), or, for a status request, status, first, between, second
  (inside and between the two readings of the config). `hidden` are the tasks that
  `RecordingManager::new` started for an id the file gives once more further down.
  `ManagerFree`, `ConfigFree` and `CanReadConfig` derive the locks from these stages.

## 3. The runs

TLC's deadlock check is off: nobody has to hand over a
segment, add a camera or ask for a playlist, so a system may stop for want of input,
and every cfg says `CHECK_DEADLOCK FALSE`. That the system does not stop with work in
hand is what the liveness properties say.

| Run | Question | Result |
|---|---|---|
| `writer_session` | Does one session implement `Recording` (kept in order of arrival, oldest given up first), are ids in order, is every request settled, with I/O errors and readers that may never release a guard? | holds |
| `writer_recovery` | Through crashes and restarts at every step, with two cameras whose ids are cut on disk to the same one: the inductive invariant, entries on their own headers, stored segments whole, extents disjoint, the rebuild complete | holds |
| `writer_resume` | Does the oldest go first after a restart? | violated |
| `writer_torn` | Is what the scan recovers whole? | violated |
| `reads` | With a crash: exports read their own bytes without the pool's lock; no request reads during an append; guards are balanced; and the recording goes on with two segment requests and an export asking over and over | holds |
| `reads_viewer` | Does a segment request get the segment it asked for? | violated |
| `ingest` | Two successive workers, failures and removal at every step: complete, in order, one worker that was not removed; a removed one makes way for its successor but for the segment it had in hand; every completed fragment is sent | holds |
| `ingest_reconnect` | Is a failed stream connected again? | violated |
| `ingest_stop` | Does a removed worker end? | violated |
| `playlists` | Two cameras, one with a player, a failed write, eviction and a restart: does an id the player was given keep its meaning while the process lives, does every reload end, and, in the first process, is the player only moved forward and shown what it waited for, without a hole? | holds |
| `playlists_numbers` | Are the numbers of a manifest the ids of the segments it lists? | violated |
| `admin` | Two clients add and remove cameras and ask for the status, saves fail, the process is killed in the middle of a save and started again: do memory and file agree, does a restart start what was saved, is every running task in the map (but for those a file with one id twice leaves behind), has every listed camera with unlimited reconnects a running task, is every request answered? | holds |

### Bounds

* `MaxPools` 2 or 3, `Capacity` 1 to 3, sizes 1 to 4: records that fill a
  pool exactly, fit with room left, force a rotation, and are too large to be
  stored. Two pools are the smallest ring in which the evicted pool differs from
  the one just written; three tell "next" from "other".
* `Recording` lets only what is older than some kept segment go, so the newest is
  always kept. That needs three pools, and three are enough whatever fails
  (`ImplementsRecordingHolds`): a failed header leaves an empty pool behind, and a
  refused record evicts the next pool all the same; with two pools the one and
  then the other can empty the index.
* `MaxSegments` 3 to 6: enough for the ring to wrap and to start a second lap, so
  a pool holds leftovers of an earlier lap behind its current records.
  `writer_recovery` has 4 with pools of 3 units: short records on top of a
  longer one that was there before, and the reverse.
* `MaxCrashes` 2 in `writer_recovery`: a crash during or after a recovery from a
  crash. `MaxFaults` 1 there, in `writer_session` and in `playlists`: a failed
  append or rebuild followed by normal work and by a crash. `reads` has 0 to end in time
  with three readers; the model has the faults beside readers (`Environment`) and the
  theorems about them hold with any number.
* `MaxWait` stands for 50 polls. 1 reaches both ends of the wait, by release and by
  timeout; in `reads` it is 0, the earliest timeout, so a rotation meets readers
  most often.
* `QueueSize` 1: the smallest queue, always the fullest; `MaxSegments` bounds how
  many can wait at all.
* `MaxReaders` bounds guards, not behaviour: 0 where no reader is modelled or where
  readers do nothing but delay a rotation, 1 to 3 where they matter.
* `Ingestion`: `ChannelSize` 1, 4 fragments (one bootstrap, one in each of:
  sent, in hand, channel), 2 workers, 1 attempt per connection.
* `Playlists`: `LiveWindow` 2 of up to 3 segments in the ring, so that the window
  leaves one out, and 4 segments in all, so that one is evicted; `MaxPolls` 1: one sleep and one deadline. `_HLS_msn` is any id up to
  `MaxSegments`, also one that never comes.
* `Administration`: two clients are enough for every pair of requests to be in each
  other's way; two cameras, one with limited reconnects; files with one camera, with
  two, and with one twice.

Viewers, exporters and clients are model values. No symmetry is declared: the runs are
small enough, and it would be unsound for the liveness properties.

### Fairness

* `GlobalWriter`: weak fairness of `Start`, `Rebuild` and `WriterStep`. The process is
  started again, and Tokio polls a task that can run. Handing over, readers'
  releases, crashes and I/O errors are never required: a guard that is never
  released does not stop the writer because rotate gives up.
* `SegmentReads`: weak fairness of the writer's steps that need no lock and of each
  request that was let in: reads end and the wait on a remux is bounded by 30 s.
  Strong fairness of the steps that take a lock for writing: the locks are those
  of parking_lot, which keep new readers out once a writer waits and hand
  over eventually. A request need not be started and `LookUp`, `TakeGuards` have no
  fairness.
* `Playlists`: weak fairness of the polls of a reload that was let in. The writer
  need not record anything: what ends a reload is its deadline.
* `Ingestion`: weak fairness of each worker's steps, of the end of a hand-over, and of
  `WriterTakes`, which `EveryRequestSettles` justifies. Cameras need not send.
* `Administration`: strong fairness for whoever waits for the manager's mutex or to
  read the config, since others may have them again and again and each queue lets the
  waiting one in eventually; weak fairness for the steps of a handler that has its
  locks. Nobody has to ask, to fail or to die.

`Reconnects` and `RemovedWorkerEnds` are violated under this fairness: the
counterexamples end in states from which what must happen is no longer possible.

## 4. What the violated runs show

Each quotes what the repository says and shows the code doing otherwise;
`PROJECT.json` ("findings") has the lines.

* `writer_resume`: rotation adds `max_pools` to the slot's own id, which is not
  monotonic over the ring: with N pools, pool 1 gets N+1 before pool 0 gets N; and
  files without header count as pool_id 0, the last one winning. So `open` may
  resume in another pool than the one written last, and the next rotation evicts
  newer segments than it keeps. For the same reason the ids of a rebuilt index,
  which sorts by pool_id as if by time, are not in the order of recording:
  `IdsChronological`, `LiveForward` and `ReloadShowsSegment` are stated for a process
  that began with an empty ring.
* `writer_torn`: a record whose header was written and whose payload was not is
  recovered as a segment.
* `reads_viewer`: a segment request looks up the location, gives the index back
  and only then takes lock and guard; eviction, rotation and append fit in between.
* `ingest_reconnect`: the stream holds a sender of its own channel, so the worker
  never sees None, and nobody reads the bus of the pipeline.
* `ingest_stop`: stopping joins a thread that waits for room in a channel which only
  the stopping task could empty.
* `playlists_numbers`: a manifest gives the id of its first segment and a template;
  a player counts on from there. With two cameras the next segment of the camera
  does not have the next id. (The template's address is relative to `/api/dash`, where
  no segment is routed, so such a player does not get that far.)

The passing runs show what remains true beside these: within a session order and
eviction are as specified; across restarts nothing indexed is lost, misplaced or
overlapping, and without torn records what is recovered is whole; exports, unlike
segment requests, read only their own bytes; and a player that takes its ids from an
HLS playlist, instead of counting, gets the segments that were listed.

## 5. The proofs

For every value of the constants, from the named assumptions `PoolAssumption`,
`BlankAssumption`, `WriterAssumption`, `IngestionAssumption` and `AdminAssumption`
(numbers are natural, there is a pool and it has room, queues have a place, the
marks for no file, no header and no data differ from data). TLC evaluates them in
every run of the modules. Where a theorem needs more, its ASSUME says so.

The writer and its restarts, over `Spec` with every crash and fault:

1. `TypeCorrect`: `[](TypeOK /\ Control)`. `Control` says who is where: an append is
   under way only in the writer's append section, what it writes fits above
   `bytes_used`. Types alone are not inductive: that `bytes_used` stays
   within the file needs the room found by the guard many steps before.
2. `IndexedHeadersHold`: from `TypeInv` and `DiskInv`:
   `Extents` (entries lie below `bytes_used` and none in a pool that is about to
   be taken), `Opened` (the slots found by open are what the rebuild will scan),
   `InProgress` (the record in hand is on disk as far as written). The
   header of an entry could be overwritten only by a write below `bytes_used` or
   into a pool with entries; `Extents` excludes both, and is itself kept
   only because the status check and the rotation compare the same numbers.
3. `SessionIntactHolds`, and with it `InductiveInvariant` (`[]IInv`): from the above and
   `Numbered`: requests in flight are newer than the session and recovered records
   are not, so an entry of this session was put there by `InsertSegment`, when
   `InProgress` says all its units are on disk.
4. `ExtentsDisjointHold` (`DisjointInv`: between append and insertion the new record
   lies behind all others of its pool) rests on the walk of the scan: two offsets it
   visits are a record apart.
5. `RecoveryCompleteHolds` (`ReachInv`: `bytes_used`, the offset of every entry and the
   record about to be indexed are places the walk of a scan reaches, and what a dead
   process had indexed is on disk there). A failed or torn append changes
   only units above `bytes_used`, behind every entry.
6. `RecoveredIntactHolds` (`Whole`: every header unit the scan would trust has its
   record behind it; `Boundary`: no such record reaches across `bytes_used`). It is
   the second that lets an append write at `bytes_used` without cutting a leftover of
   an earlier lap in two, and it holds only while no record was left torn.

One session (`MaxCrashes = 0`):

7. `IdsChronologicalHolds` (`OrderInv`: what is indexed is older than the request in
   hand, and that older than the queue).
8. `EvictsOldestHolds`, for any number of pools: segments leave the index oldest first.
   `AgeInv` orders the pools by `Age`, the rotations since a pool was current: older
   pools hold older segments. An eviction takes the pool with the greatest age. The run
   `writer_resume` refutes the same property with a restart, which is what the ASSUME
   leaves out and all it leaves out: failed writes and refused records are in.
9. `ImplementsRecordingHolds`, for `MaxPools >= 3`: every step of the writer is a step of
   `Recording` or a stutter. `RingInv` adds to `AgeInv` that if anything is indexed, some
   of it is in the current pool or the one before, and that a current pool with records
   has segments. With three pools or more the evicted pool is neither of the two, so the
   newest segment stays.

Readers, for every set of viewers and exporters:

10. `ReadsTypeCorrect`, `NoReadDuringAppendHolds`, `GuardsBalancedHold`,
   `ExportsOwnBytesHold`. The invariant adds to those of the writer `Stages` (what is read
   lies in a file; an export that reads works on entries of the index, which it
   keeps locked). `ExportsOwnBytes` uses `SessionIntact` and `RecoveredIntact`: the
   entries are whole, and the locked index is the reason why they still are when read.

Players, for every set of players, window size and number of polls, beside the writer
with every crash, interrupted start, failed write and failed rebuild (`Recorder` has
them all; no ASSUME, but for the last):

11. `PlayTypeCorrect` and `ListedStaysItselfHolds`. `IndexInv`: the ids of the index are
   unique and below the counter; after a rebuild that is so because the records
   sort into a strict order (`BeforeGrows`: of two records, one has more before it).
   `ListedInv`: what a playlist of the living process lists is below the counter, and an
   entry with its id is that entry. A new segment's id is the counter, so it is never
   one that was given out.
12. `LiveForwardHolds`, in the first process on an empty ring. `FreshInv` brings `OrderInv`
   and `AgeInv` along there, up to its crash, without assuming there is none.
   `WindowInv`: a segment left of the window a player has keeps `LiveWindow` newer ones of its
   camera behind it as long as it is indexed. An eviction could break this by taking a newer
   segment and leaving the older, which `AgeInv` excludes.
13. `ReloadShowsSegmentHolds`, in the first process: there `OrderInv` holds at every
   answer, so the last segment in the order of time, by which the window is cut, has the
   newest id, by which the reload has waited; and what the window leaves out has lower
   ids than what it lists. After a restart neither need be so, and a reload may be
   answered without the segment: no theorem says otherwise.
14. `OneCameraManifests`: with one camera, in the first process, a manifest's numbers are
   the ids of the segments it lists (`NoGapInv`: behind an indexed segment no id is
   missing). So the divergence of `playlists_numbers` needs a second camera or a restart;
   no eviction, failed write or refused record alone brings it about.

Workers, manager and file, for every number of workers, fragments, cameras and clients:

15. `IngestTypeCorrect`, `SentInOrderHolds`, `OneWorkerHolds`, from `WorkerInv`: per worker,
   the stage and what it holds agree (`StageInv`), the newest fragment is in exactly one
   place of the callback (`CallbackInv`), and what was sent, is in hand and in the channel
   follow each other and are complete (`WayInv`). `SentInOrder` alone is not
   inductive: it needs what is still on its way. `StageInv` also has the cause of the
   reconnect finding: a stream is dropped only for an aborted worker.
   `SuccessorTakesOverHolds`, from `TurnsInv`: workers are born in order and all but the
   last are aborted (`Successors`), and one that has already sent something behind a
   segment of its successor is past sending. An aborted worker may still read a
   fragment, or finish the one in hand, when its await finds the result there; it gets no
   further than the next sleep of `wait_for_file_stable`, which is why it sends at most one.
16. `NothingSkippedHolds`, from `GapInv`: up to the fragment before the one in hand, or
   in the channel, or in the callback, each was sent or unreadable, and these two never
   overlap. `WayInv` says that the order is kept, `GapInv` that nothing is missing from it.
17. `AdminTypeCorrect`, `FileFollowsMemoryHolds`, `EveryWorkerListedHolds`,
   `RestartRestoresHolds`, from `AdminInv`. `ChangeInv` says how far manager and configuration
   are apart in each stage of a change, `OneChange` that only one request is in such a
   stage (the manager's mutex), `FileKept` that a file neither being written nor left
   cut has what was last saved. They rest on what `retain` leaves (`RetainKeeps`), for which
   the recursive function `Retain` is shown to have a solution and each of its values
   to be as claimed, a least counterexample being refuted.
   `EveryWorkerListed` holds for every file: what runs beside the map is what `new` has
   put there (`hidden`), and adding or removing the very camera of such a task brings
   no other task beside the map.
18. `ListedAreActiveHolds`.

The arguments have one lemma per action and invariant (`StartTypeInv`,
`ContinueAppendDiskInv`, ...), combined in `Next...Inv`. `writer_recovery` checks the
conjunction `IInv` with TLC as well.

Every invariant and action property of a passing run is a theorem. Only model-checked:

* Liveness under fairness and ENABLED (`EveryRequestSettles`, `ReadersDoNotStopWriter`,
  `CompletedIsSent`, `ReloadsEnd`, `RequestsAnswered`): out of the provers' reach.
* The violated properties are refuted on their instances. `EvictsOldest` and
  `ManifestNamesSegments` are also proved where they do hold (8, 14).
* No theorem says what the loop of the scan computes on an arbitrary file beyond its
  closure: that would need induction over the file's contents.

## 6. Not modelled

* Payloads whose bytes look like a record header at an offset the scan visits, and
  payloads of 4 GiB or more, whose length is cut to 32 bits (chunk_pool.rs:260); page cache and disk reordering (a crash is a crash of the process, what was written
  stays). A process killed while it creates the pool files is modelled
  (`StartKilled`); no document promises a start after that, so no property does.
* The contents of temporary files. They are named after camera and fragment number
  (camera.rs:268), so a removed worker that is still stopping and the one added after it
  may write and delete files of the same names; `LoadFails` has a file that is gone, not one
  that is another's.
* The manager's mutex that handle_hls_segment takes for a moment before the pool's lock
  (api.rs:659): it holds nothing else then, so the wait is only a delay.
* The remux, codecs and the GStreamer graph: external; their waits are bounded,
  which is all the models use.
* A failing `fs::remove_file`, logging, formatting, HTTP status codes, durations and
  discontinuity marks of playlists, all settings of a camera but its id and whether
  its reconnects are limited.
* Status answers, lists, login and static pages: read-only. Of `handle_status` the locks
  are modelled. Of the command line `record` is; `status`, `list` and `export` open and
  scan the pool, which are operations of `ChunkPool`.
* Error types, module declarations, the web interface and the tests have no state;
  the tests were read for the behaviour they expect.

## 7. Plan

The order is by importance: the data path first, then its readers, then the
source, then what is built on top.

1. *Done.* `ChunkPool`, `SegmentIndex`, `GlobalWriter` with `Recording`; `SegmentReads`;
   `Ingestion`; `Playlists`; `Administration`; cut camera ids; an interrupted `open`.
2. *Done.* The theorems of section 5.
3. *Left.* Compose `Ingestion` with the writer's queue of `GlobalWriter` for two cameras:
   both are checked with the other replaced by a queue of the same size.
4. *Left.* The steps behind `EveryRequestSettles`: a measure that every step of the writer
   lowers while a request is in hand, as an action property with a proof.
