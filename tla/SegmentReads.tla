----------------------------- MODULE SegmentReads -----------------------------
(***************************************************************************)
(* Readers of the HTTP API beside the writer: handle_hls_segment and       *)
(* handle_export of src/src/api.rs with export_range of playback.rs.       *)
(*                                                                         *)
(* Two locks order them. The pool's RwLock: the writer holds it over a     *)
(* whole append, a segment request over its whole read. The index's        *)
(* RwLock: the writer takes it for a single eviction or insertion, an      *)
(* export holds it while it reads. A waiting writer keeps new readers out  *)
(* (parking_lot). An export reads through a ChunkPool of its own and does  *)
(* not take the pool's lock; its read guards make rotate wait.             *)
(***************************************************************************)
EXTENDS GlobalWriter

CONSTANTS
    Viewers,    \* concurrent segment requests
    Exporters   \* concurrent exports

ASSUME ReadersAssumption ==
    /\ IsFiniteSet(Viewers) /\ IsFiniteSet(Exporters)
    /\ Viewers \cap Exporters = {}

VARIABLES
    viewer,   \* each segment request: its stage, the segment, what it read
    export    \* each export: its stage, query, guards and what it read

readVars == <<viewer, export>>
allVars == <<vars, viewer, export>>

Unused == [at |-> "idle", seg |-> <<>>, got |-> {}]
NoExport == [at |-> "idle", cam |-> <<>>, from |-> 0, to |-> 0, guards |-> {},
             todo |-> {}, seg |-> <<>>, pos |-> 0, got |-> {}]

\* A unit that was read, and the segment it was read for.
Piece == [want : Nat, pos : Nat, cell : Cell]

ReadsTypeOK ==
    /\ TypeOK
    /\ viewer \in [Viewers ->
            [at : {"idle", "found", "reading"}, seg : SegmentMeta \cup {<<>>},
             got : SUBSET Piece]]
    /\ export \in [Exporters ->
            [at : {"idle", "guarded", "reading"}, cam : Cameras \cup {<<>>},
             from : Nat, to : Nat, guards : SUBSET Pools, todo : SUBSET SegmentMeta,
             seg : SegmentMeta \cup {<<>>}, pos : Nat, got : SUBSET Piece]]

ReadsInit ==
    /\ Init
    /\ viewer = [v \in Viewers |-> Unused]
    /\ export = [x \in Exporters |-> NoExport]

-----------------------------------------------------------------------------
\* The locks.

\* Mutant: an export lets go of the index once it has its segments.
IndexReadUnlocked == FALSE

IndexReadLocked == \E x \in Exporters : export[x].at = "reading"
PoolReadLocked == \E v \in Viewers : viewer[v].at = "reading"

\* The writer has the pool's write lock from the start of append to its end.
PoolWriteLocked == phase \notin {"closed", "idle"}

IndexWriterWaits == pc \in {"rebuild", "evict", "insert"} /\ IndexReadLocked
PoolWriterWaits == pc = "append" /\ phase = "idle" /\ PoolReadLocked

CanReadIndex == pc # "down" /\ ~IndexWriterWaits
\* Mutants: requests do not care about the lock; requests overtake a writer
\* that waits for it.
CanReadAlways == ~PoolWriterWaits
CanReadFirst == ~PoolWriteLocked

CanReadPool == ~PoolWriteLocked /\ ~PoolWriterWaits

-----------------------------------------------------------------------------
\* handle_hls_segment.

\* The segment is looked up by camera and id under the index's read lock,
\* which is then given back. An unknown id is answered with 404.
LookUp(v) ==
    /\ viewer[v].at = "idle"
    /\ CanReadIndex
    /\ \E cam \in Cameras : \E seg \in SegmentsForCamera(cam) :
            viewer' = [viewer EXCEPT ![v] = [Unused EXCEPT !.at = "found", !.seg = seg]]
    /\ UNCHANGED <<vars, export>>

\* The manager's mutex for a moment (a delay before this step, which comes after
\* any delay), the pool's read lock, then a read guard on the segment's pool.
LockPool(v) ==
    /\ viewer[v].at = "found"
    /\ CanReadPool
    /\ Acquire(viewer[v].seg.pool)
    /\ viewer' = [viewer EXCEPT ![v].at = "reading"]
    /\ UNCHANGED <<indexVars, writerVars, historyVars, export>>

PieceAt(seg, k) == [want |-> seg.seq, pos |-> k, cell |-> UnitOf(seg, k)]

\* read_segment_data: the payload, whatever the file holds there now.
ReadPayload(v) ==
    /\ viewer[v].at = "reading"
    /\ viewer[v].got = {}
    /\ viewer[v].seg.size > 1
    /\ viewer' = [viewer EXCEPT ![v].got =
            {PieceAt(viewer[v].seg, k) : k \in 1 .. viewer[v].seg.size - 1}]
    /\ UNCHANGED <<vars, export>>

\* The answer is sent, with the payload or the error of a failed read; guard and
\* lock are dropped.
Answer(v) ==
    /\ viewer[v].at = "reading"
    /\ Release(viewer[v].seg.pool)
    /\ viewer' = [viewer EXCEPT ![v] = Unused]
    /\ UNCHANGED <<indexVars, writerVars, historyVars, export>>

-----------------------------------------------------------------------------
\* handle_export.

\* segments_in_range: seq stands for the start time, and a segment lasts until
\* the next one starts.
InRange(cam, from, to) ==
    {e \in SegmentsForCamera(cam) : e.seq < to /\ e.seq + 1 > from}
Asked(x) == InRange(export[x].cam, export[x].from, export[x].to)

\* Guards on the pools of the range, taken under the index's read lock.
TakeGuards(x) ==
    /\ export[x].at = "idle"
    /\ CanReadIndex
    /\ \E cam \in Cameras, from \in 1 .. MaxSegments :
       \E to \in from + 1 .. MaxSegments + 1 :
        LET pools == {e.pool : e \in InRange(cam, from, to)}
        IN  /\ \A p \in pools : readers[p] < MaxReaders
            /\ readers' = [p \in Pools |->
                              IF p \in pools THEN readers[p] + 1 ELSE readers[p]]
            /\ export' = [export EXCEPT ![x] =
                    [NoExport EXCEPT !.at = "guarded", !.cam = cam,
                                     !.from = from, !.to = to, !.guards = pools]]
    /\ UNCHANGED <<diskVars, slots, writeIdx, appendVars, indexVars,
                   writerVars, historyVars, viewer>>

\* The index is locked again and asked again; the lock is kept from here on, and
\* the range is no longer needed.
Requery(x) ==
    /\ export[x].at = "guarded"
    /\ CanReadIndex
    /\ Asked(x) # {}
    /\ export' = [export EXCEPT ![x].at = "reading",
                                ![x].todo = Asked(x),
                                ![x].from = 0, ![x].to = 0]
    /\ UNCHANGED <<vars, viewer>>

\* The next segment's file is opened.
NextSegment(x) ==
    /\ export[x].at = "reading"
    /\ export[x].seg = <<>>
    /\ \E seg \in export[x].todo :
        /\ \A s \in export[x].todo : seg.seq <= s.seq
        /\ export' = [export EXCEPT ![x].seg = seg,
                                    ![x].pos = 1,
                                    ![x].todo = @ \ {seg}]
    /\ UNCHANGED <<vars, viewer>>

ReadUnit(x) ==
    /\ export[x].at = "reading"
    /\ export[x].seg # <<>>
    /\ IF export[x].pos < export[x].seg.size
       THEN export' = [export EXCEPT
                ![x].got = @ \cup {PieceAt(export[x].seg, export[x].pos)},
                ![x].pos = @ + 1]
       ELSE export' = [export EXCEPT ![x].seg = <<>>, ![x].pos = 0]
    /\ UNCHANGED <<vars, viewer>>

\* Mutant: a guard is given back for every pool.
ReleaseEvery(x) == readers' = [p \in Pools |-> readers[p] - 1]

ReleaseAll(x) ==
    readers' = [p \in Pools |->
                   IF p \in export[x].guards THEN readers[p] - 1 ELSE readers[p]]

\* Mutant: the early return keeps the guards.
ExportEmptyLeaks(x) ==
    /\ export[x].at = "guarded"
    /\ CanReadIndex
    /\ Asked(x) = {}
    /\ export' = [export EXCEPT ![x] = NoExport]
    /\ UNCHANGED <<vars, viewer>>

\* Nothing (any more) in the range: the error is answered, the guards dropped.
ExportEmpty(x) ==
    /\ export[x].at = "guarded"
    /\ CanReadIndex
    /\ Asked(x) = {}
    /\ ReleaseAll(x)
    /\ export' = [export EXCEPT ![x] = NoExport]
    /\ UNCHANGED <<diskVars, slots, writeIdx, appendVars, indexVars,
                   writerVars, historyVars, viewer>>

\* All segments are read and remuxed, or some read or the remux has failed; lock
\* and guards are given back.
ExportEnds(x) ==
    /\ export[x].at = "reading"
    /\ ReleaseAll(x)
    /\ export' = [export EXCEPT ![x] = NoExport]
    /\ UNCHANGED <<diskVars, slots, writeIdx, appendVars, indexVars,
                   writerVars, historyVars, viewer>>

-----------------------------------------------------------------------------
ViewerStep(v) == LookUp(v) \/ LockPool(v) \/ ReadPayload(v) \/ Answer(v)

ExportStep(x) ==
    TakeGuards(x) \/ Requery(x) \/ NextSegment(x) \/ ReadUnit(x)
    \/ ExportEmpty(x) \/ ExportEnds(x)

\* The writer's steps that need no lock a reader can hold.
FreeWriterStep == Receive \/ CheckStatus \/ ContinueAppend \/ EndAppend

PoolWriterStep == ~PoolReadLocked /\ BeginAppend

IndexWriterStep == ~IndexReadLocked /\ (Rebuild \/ Evict \/ InsertSegment)

LockedWriterStep ==
    /\ FreeWriterStep \/ PoolWriterStep \/ IndexWriterStep
    /\ UNCHANGED readVars

Environment ==
    /\ \/ Start
       \/ AppendFails \/ RebuildFails \/ StartKilled
       \/ \E cam \in Cameras, size \in RecordSizes : Send(cam, size)
    /\ UNCHANGED readVars

\* The process dies with its readers.
CrashAll ==
    /\ Crash
    /\ viewer' = [v \in Viewers |-> Unused]
    /\ export' = [x \in Exporters |-> NoExport]

ReadsNext ==
    \/ Environment
    \/ LockedWriterStep
    \/ \E v \in Viewers : ViewerStep(v)
    \/ \E x \in Exporters : ExportStep(x)
    \/ CrashAll

ReadsSpec == ReadsInit /\ [][ReadsNext]_allVars

\* A request that was let in is finished: reading a file ends, and waiting for
\* the end of a remux is bounded by 30 seconds. Nobody has to ask. A writer
\* that asks for a lock shuts out later readers until it has had it, so a lock
\* that keeps becoming free is taken (parking_lot's eventual fairness).
ReadsFairness ==
    /\ WF_allVars(Start /\ UNCHANGED readVars)
    /\ WF_allVars(FreeWriterStep /\ UNCHANGED readVars)
    /\ SF_allVars(PoolWriterStep /\ UNCHANGED readVars)
    /\ SF_allVars(IndexWriterStep /\ UNCHANGED readVars)
    /\ \A v \in Viewers : WF_allVars(LockPool(v) \/ ReadPayload(v) \/ Answer(v))
    /\ \A x \in Exporters :
        WF_allVars(Requery(x) \/ NextSegment(x) \/ ReadUnit(x)
                   \/ ExportEmpty(x) \/ ExportEnds(x))

FairReadsSpec == ReadsSpec /\ ReadsFairness

-----------------------------------------------------------------------------
\* Properties.

OwnPiece(m) == m.cell # Blank /\ m.cell.rec.seq = m.want /\ m.cell.unit = m.pos

Trusted(m) == torn = {} \/ m.want > session

\* An export never returns bytes of another segment, although it reads the
\* files without the pool's lock while the writer appends and rotates: the
\* index it keeps locked has no segment of a pool that is being overwritten.
ExportsOwnBytes ==
    \A x \in Exporters : \A m \in export[x].got : Trusted(m) => OwnPiece(m)

\* A segment request returns the segment that was asked for ("per-pool atomic
\* read locks prevent data corruption during concurrent read/write").
ViewersOwnBytes ==
    \A v \in Viewers : \A m \in viewer[v].got : Trusted(m) => OwnPiece(m)

\* A request never reads a file while an append is under way.
NoReadDuringAppend ==
    PoolWriteLocked => \A v \in Viewers : viewer[v].at # "reading"

\* Every read guard is accounted for: none leaks, none is released twice.
GuardsBalanced ==
    \A p \in Pools :
        readers[p] = Cardinality({x \in Exporters : p \in export[x].guards})
                     + Cardinality({v \in Viewers : viewer[v].at = "reading"
                                                    /\ viewer[v].seg.pool = p})

\* Recording goes on beside any number of requests and exports.
ReadersDoNotStopWriter ==
    \A n \in 1 .. MaxSegments : Pending(n) ~> ~Pending(n)

==============================================================================
