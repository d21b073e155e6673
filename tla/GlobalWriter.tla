----------------------------- MODULE GlobalWriter -----------------------------
(***************************************************************************)
(* The recorder's write path: camera workers put requests on a bounded     *)
(* channel, the single writer task of src/src/storage/global_writer.rs     *)
(* takes them off, evicts, appends to the pool and inserts into the index. *)
(* The process may die between any two steps and is then started again;    *)
(* readers of the HTTP API take and release read guards at any time.       *)
(***************************************************************************)
EXTENDS SegmentIndex, Sequences

CONSTANTS
    QueueSize,    \* config storage.writer_queue_size
    MaxSegments,  \* bound on the segments handed to the writer
    MaxCrashes,   \* bound on the times the process dies
    MaxFaults     \* bound on I/O errors

ASSUME WriterAssumption ==
    /\ QueueSize \in Nat \ {0}
    /\ MaxSegments \in Nat /\ MaxCrashes \in Nat /\ MaxFaults \in Nat

VARIABLES
    queue,    \* the mpsc channel of WriteRequests
    pc,       \* where writer_loop stands; "down" when no process runs
    req,      \* the request in hand, <<>> when there is none
    \* History, read by no action but to bound the exploration:
    sent,     \* segments handed over so far
    session,  \* the value of sent when the running process opened the pool
    lost,     \* the index of the process that died last, until the rebuild
    torn,     \* segments whose record was left partly written
    crashes,
    faults

writerVars == <<queue, pc, req>>
historyVars == <<sent, session, lost, torn, crashes, faults>>
vars == <<poolVars, indexVars, writerVars, historyVars>>

TypeOK ==
    /\ PoolTypeOK
    /\ IndexTypeOK
    /\ queue \in Seq(Record)
    /\ pc \in {"down", "rebuild", "recv", "status", "evict", "append", "insert"}
    /\ req \in Record \cup {<<>>}
    /\ sent \in Nat
    /\ session \in Nat
    /\ lost \subseteq SegmentMeta
    /\ torn \subseteq Nat
    /\ crashes \in Nat
    /\ faults \in Nat

Init ==
    /\ PoolInit
    /\ IndexInit
    /\ queue = <<>>
    /\ pc = "down"
    /\ req = <<>>
    /\ sent = 0
    /\ session = 0
    /\ lost = {}
    /\ torn = {}
    /\ crashes = 0
    /\ faults = 0

-----------------------------------------------------------------------------
\* Start of the process.

\* RecordingManager::new opens the pool and spawns the writer.
Start ==
    /\ pc = "down"
    /\ Open
    /\ pc' = "rebuild"
    /\ session' = sent
    /\ UNCHANGED <<indexVars, queue, req, sent, lost, torn, crashes, faults>>

\* The process is killed while it creates the pool files.
StartKilled ==
    /\ pc = "down"
    /\ crashes < MaxCrashes
    /\ \E n \in 1 .. MaxPools : OpenInterrupted(n)
    /\ crashes' = crashes + 1
    /\ UNCHANGED <<indexVars, writerVars, sent, session, lost, torn, faults>>

Rebuild ==
    /\ pc = "rebuild"
    /\ RebuildFromScanned(ScanAllPools)
    /\ pc' = "recv"
    /\ lost' = {}
    /\ UNCHANGED <<poolVars, queue, req, sent, session, torn, crashes, faults>>

\* The scan fails: the writer goes on with the empty index.
RebuildFails ==
    /\ pc = "rebuild"
    /\ faults < MaxFaults
    /\ faults' = faults + 1
    /\ pc' = "recv"
    /\ lost' = {}
    /\ UNCHANGED <<poolVars, indexVars, queue, req, sent, session, torn, crashes>>

-----------------------------------------------------------------------------
\* Camera workers.

\* A worker's send completes: the channel has room for the next segment.
Send(cam, size) ==
    /\ pc # "down"
    /\ Len(queue) < QueueSize
    /\ sent < MaxSegments
    /\ sent' = sent + 1
    /\ queue' = Append(queue, [seq |-> sent + 1, cam |-> cam, size |-> size])
    /\ UNCHANGED <<poolVars, indexVars, pc, req, session, lost, torn, crashes, faults>>

-----------------------------------------------------------------------------
\* The writer task.

Receive ==
    /\ pc = "recv"
    /\ queue # <<>>
    /\ req' = Head(queue)
    /\ queue' = Tail(queue)
    /\ pc' = "status"
    /\ UNCHANGED <<poolVars, indexVars, historyVars>>

\* Mutant: the size of the record is left out of the question.
CheckStatusLate ==
    /\ pc = "status"
    /\ pc' = IF Status.used >= Capacity THEN "evict" ELSE "append"
    /\ UNCHANGED <<poolVars, indexVars, queue, req, historyVars>>

\* Under the pool's read lock: will the record make the ring rotate?
CheckStatus ==
    /\ pc = "status"
    /\ pc' = IF Status.used + req.size > Capacity THEN "evict" ELSE "append"
    /\ UNCHANGED <<poolVars, indexVars, queue, req, historyVars>>

\* Mutant: the pool being written is evicted, not the one that comes next.
EvictCurrent ==
    /\ pc = "evict"
    /\ EvictPool(Status.idx)
    /\ pc' = "append"
    /\ UNCHANGED <<poolVars, queue, req, historyVars>>

Evict ==
    /\ pc = "evict"
    /\ EvictPool(NextPool(Status.idx))
    /\ pc' = "append"
    /\ UNCHANGED <<poolVars, queue, req, historyVars>>

\* append has returned an error: it is logged and the segment dropped.
Drop ==
    /\ pc' = "recv"
    /\ req' = <<>>

BeginAppend ==
    /\ pc = "append"
    /\ \/ AppendHere(req) /\ UNCHANGED <<pc, req>>
       \/ AppendRotate(req) /\ UNCHANGED <<pc, req>>
       \/ AppendOversize(req) /\ Drop
    /\ UNCHANGED <<indexVars, queue, historyVars>>

\* The steps of append that cannot fail.
ContinueAppend ==
    /\ pc = "append"
    /\ PollReaders \/ StopWaiting \/ TakeSlot \/ WritePoolHeader \/ WriteUnit(req)
    /\ UNCHANGED <<indexVars, writerVars, historyVars>>

PartlyWritten == phase = "write" /\ written \in 1 .. req.size - 1

AppendFails ==
    /\ pc = "append"
    /\ faults < MaxFaults
    /\ faults' = faults + 1
    /\ PoolHeaderFails \/ WriteFails
    /\ torn' = IF PartlyWritten THEN torn \cup {req.seq} ELSE torn
    /\ Drop
    /\ UNCHANGED <<indexVars, queue, sent, session, lost, crashes>>

EndAppend ==
    /\ pc = "append"
    /\ FinishAppend(req)
    /\ pc' = "insert"
    /\ UNCHANGED <<indexVars, queue, req, historyVars>>

InsertSegment ==
    /\ pc = "insert"
    /\ Insert(req.seq, req.cam, AppendedAt(req))
    /\ pc' = "recv"
    /\ req' = <<>>
    /\ UNCHANGED <<poolVars, queue, historyVars>>

WriterStep ==
    \/ Receive \/ CheckStatus \/ Evict
    \/ BeginAppend \/ ContinueAppend \/ EndAppend \/ InsertSegment

-----------------------------------------------------------------------------
\* Read guards, and the end of the process.

TakeGuard(p) ==
    /\ Acquire(p)
    /\ UNCHANGED <<indexVars, writerVars, historyVars>>

DropGuard(p) ==
    /\ Release(p)
    /\ UNCHANGED <<indexVars, writerVars, historyVars>>

\* Channel, index and the request in hand die with the process.
Crash ==
    /\ pc # "down"
    /\ crashes < MaxCrashes
    /\ crashes' = crashes + 1
    /\ torn' = IF pc = "append" /\ PartlyWritten THEN torn \cup {req.seq} ELSE torn
    /\ lost' = IF pc = "rebuild" THEN lost ELSE entries
    /\ Halt
    /\ Forget
    /\ pc' = "down"
    /\ queue' = <<>>
    /\ req' = <<>>
    /\ UNCHANGED <<sent, session, faults>>

Next ==
    \/ Start \/ StartKilled \/ Rebuild \/ RebuildFails
    \/ \E cam \in Cameras, size \in RecordSizes : Send(cam, size)
    \/ WriterStep
    \/ AppendFails
    \/ \E p \in Pools : TakeGuard(p) \/ DropGuard(p)
    \/ Crash

Spec == Init /\ [][Next]_vars

\* The process is started, and started again; a task that can run is run.
\* Nobody has to hand over segments, to release a guard or to fail.
Fairness == WF_vars(Start) /\ WF_vars(Rebuild) /\ WF_vars(WriterStep)

FairSpec == Spec /\ Fairness

-----------------------------------------------------------------------------
\* The inductive invariant behind the safety properties.

UsedHere == slots[writeIdx].bytesUsed

\* Who is where, and the room append has found for the record.
Control ==
    /\ phase = "closed" <=> pc = "down"
    /\ phase \in {"wait", "take", "header", "write"} =>
            pc = "append" /\ req.size <= Capacity
    /\ pc \in {"status", "evict", "append", "insert"} => req \in Record
    /\ phase = "header" => UsedHere = 0
    /\ phase = "write" => UsedHere + req.size <= Capacity /\ written <= req.size
    /\ pc = "insert" => req.size <= UsedHere

\* Entries lie below bytes_used; none is left in a pool that is taken next.
Extents ==
    /\ pc \in {"down", "rebuild"} => entries = {}
    /\ \A e \in entries : e.offset + e.size <= slots[e.pool].bytesUsed
    /\ pc = "append" /\ phase = "idle" /\ Full(req) =>
            \A e \in entries : e.pool # NextPool(writeIdx)
    /\ phase \in {"wait", "take"} => \A e \in entries : e.pool # writeIdx

\* What open has found is what the rebuild will find.
Opened ==
    /\ \A p \in Pools : header[p] = NoFile => cells[p] = BlankFile
    /\ pc # "down" => \A p \in Pools : header[p] # NoFile
    /\ pc = "rebuild" => \A p \in Pools : slots[p].bytesUsed = ScanEnd(cells[p])

\* The record being written, or written and not yet indexed, is on disk.
InProgress ==
    /\ phase = "write" =>
            \A k \in 0 .. written - 1 :
                cells[writeIdx][UsedHere + k] = [rec |-> req, unit |-> k]
    /\ pc = "insert" =>
            \A k \in 0 .. req.size - 1 :
                cells[writeIdx][UsedHere - req.size + k] = [rec |-> req, unit |-> k]

\* Segments in flight are newer than the session, those on disk are not newer
\* than what was handed over, and until the rebuild none is of this session.
Numbered ==
    /\ session <= sent
    /\ \A i \in 1 .. Len(queue) : queue[i].seq \in session + 1 .. sent
    /\ req # <<>> => req.seq \in session + 1 .. sent
    /\ \A p \in Pools, u \in Units :
            cells[p][u] # Blank =>
                /\ cells[p][u].rec.seq <= sent
                /\ pc = "rebuild" => cells[p][u].rec.seq <= session
    /\ pc = "down" => queue = <<>> /\ req = <<>>

-----------------------------------------------------------------------------
\* Properties.

UnitOf(e, k) == cells[e.pool][e.offset + k]

\* Every indexed segment has a record header on disk at its location, and the
\* header is that segment's: eviction, rotation and the rebuild never leave an
\* entry that points into another record (evict_pool, writer_loop, scan).
IndexedHeaders ==
    \A e \in entries :
        /\ UnitOf(e, 0) # Blank
        /\ UnitOf(e, 0).unit = 0
        /\ UnitOf(e, 0).rec.seq = e.seq
        /\ UnitOf(e, 0).rec.size = e.size
        /\ e.cam \in {UnitOf(e, 0).rec.cam, DiskId[UnitOf(e, 0).rec.cam]}

Intact(e) ==
    \A k \in 0 .. e.size - 1 :
        /\ UnitOf(e, k) # Blank
        /\ UnitOf(e, k).rec.seq = e.seq
        /\ UnitOf(e, k).unit = k

\* Every unit of a segment stored by the running process is on disk and its
\* own, whatever failed before: a failed append is overwritten by the next one,
\* and no write goes below bytes_used or into a pool that is still indexed.
SessionIntact == \A e \in entries : e.seq > session => Intact(e)

\* What the scan brings back is whole: a partial record is not trusted
\* (chunk_pool.rs, scan_records).
RecoveredWhole == \A e \in entries : Intact(e)

\* A segment recovered by a scan is whole as well, as long as no record was
\* ever left partly written: leftovers of earlier laps of the ring behind the
\* current records are either recovered whole or not at all.
RecoveredIntact == torn = {} => \A e \in entries : Intact(e)

\* No two indexed segments share a unit of a pool file.
ExtentsDisjoint ==
    \A e, f \in entries :
        e # f /\ e.pool = f.pool =>
            \/ e.offset + e.size <= f.offset
            \/ f.offset + f.size <= e.offset

\* The index rebuilt by a scan has every segment the dead process had indexed,
\* where it was ("Index survives restarts"): records of the current lap are
\* never hidden by a failed or torn append, a rotation or an old pool header. A
\* camera id longer than 16 bytes comes back cut.
RecoveryComplete ==
    [][Rebuild =>
        \A e \in lost : \E f \in entries' :
            /\ f.seq = e.seq /\ f.cam \in {e.cam, DiskId[e.cam]}
            /\ f.pool = e.pool /\ f.offset = e.offset /\ f.size = e.size]_vars

\* The ids of the index follow the order of recording: the playlists of
\* hls.rs and dash.rs number segments by id.
IdsChronological ==
    \A e, f \in entries : e.id < f.id <=> e.seq < f.seq

IInv ==
    /\ TypeOK /\ Control
    /\ Extents /\ Opened /\ InProgress /\ Numbered
    /\ IndexedHeaders /\ SessionIntact

\* Segments leave the index oldest first.
EvictsOldest ==
    [][\A e \in entries \ entries', f \in entries \cap entries' :
            e.seq < f.seq]_vars

\* The state of module Recording: the numbers of the request in hand and of those
\* on the channel wait, those of the indexed segments are kept.
InHand(r) == IF r = <<>> THEN <<>> ELSE <<r.seq>>
Numbers(q) == [i \in 1 .. Len(q) |-> q[i].seq]
Waiting == InHand(req) \o Numbers(queue)
Kept == {e.seq : e \in entries}

R == INSTANCE Recording WITH last <- sent, waiting <- Waiting, kept <- Kept

\* In one session the writer implements the recording of module Recording:
\* segments are kept in the order of their arrival, a pool is evicted only when
\* it holds the oldest ones, also after refused records and failed writes.
ImplementsRecording == R!Spec

\* Segment n is waiting for the writer or in its hands.
Pending(n) ==
    \/ \E i \in 1 .. Len(queue) : queue[i].seq = n
    \/ req # <<>> /\ req.seq = n

\* Every segment the channel has taken is settled (stored, refused, or lost in
\* a crash), also when a reader never releases its guard.
EveryRequestSettles == \A n \in 1 .. MaxSegments : Pending(n) ~> ~Pending(n)

==============================================================================
