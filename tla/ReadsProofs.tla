----------------------------- MODULE ReadsProofs -----------------------------
(***************************************************************************)
(* Segment requests and exports beside the writer, for every number of     *)
(* them and every value of the other constants: guards are balanced, no    *)
(* request reads during an append, an export reads its own bytes.          *)
(***************************************************************************)
EXTENDS SegmentReads, RecoveryProofs

USE DEF Pools, Units, Offsets

ViewerType == [at : {"idle", "found", "reading"}, seg : SegmentMeta \cup {<<>>},
               got : SUBSET Piece]

ExportType == [at : {"idle", "guarded", "reading"}, cam : Cameras \cup {<<>>},
               from : Nat, to : Nat, guards : SUBSET Pools, todo : SUBSET SegmentMeta,
               seg : SegmentMeta \cup {<<>>}, pos : Nat, got : SUBSET Piece]

\* The invariants of the write path.
CoreInv == TypeInv /\ DiskInv /\ SessionInv /\ WholeInv

\* A location inside a pool file.
Located(seg) == seg \in SegmentMeta /\ seg.offset + seg.size <= Capacity

\* Nobody reads when no process runs; an export that reads works on entries of
\* the index, which it keeps locked; guards belong to those who hold them.
Stages ==
    /\ viewer \in [Viewers -> ViewerType]
    /\ export \in [Exporters -> ExportType]
    /\ pc = "down" =>
        /\ \A v \in Viewers : viewer[v].at = "idle"
        /\ \A x \in Exporters : export[x].at = "idle"
    /\ \A v \in Viewers : viewer[v].at # "idle" => Located(viewer[v].seg)
    /\ \A x \in Exporters :
        /\ export[x].at = "idle" => export[x].guards = {} /\ export[x].got = {}
        /\ export[x].at = "guarded" => export[x].seg = <<>>
        /\ export[x].at = "reading" =>
            /\ export[x].todo \subseteq entries
            /\ export[x].seg \in entries \cup {<<>>}
            /\ export[x].seg # <<>> => export[x].pos \in Nat \ {0}

ReadsInv == CoreInv /\ Stages /\ GuardsBalanced /\ ExportsOwnBytes

LEMMA LocatedType ==
    ASSUME NEW seg, Located(seg)
    PROVE  /\ seg.pool \in Pools /\ seg.offset \in Nat /\ seg.size \in Nat
           /\ seg.seq \in Nat /\ seg.offset + seg.size <= Capacity
<1>1. seg \in SegmentMeta /\ seg.offset + seg.size <= Capacity
  BY DEF Located
<1>2. seg.pool \in Pools /\ seg.offset \in Units /\ seg.size \in RecordSizes /\ seg.seq \in Nat
  BY <1>1 DEF SegmentMeta
<1>3. seg.offset \in Nat
  BY <1>2, Constants
<1>4. seg.size \in Nat
  BY <1>2, Constants
<1>5. QED
  BY <1>1, <1>2, <1>3, <1>4

-----------------------------------------------------------------------------
\* The write path does not see the readers but for their guards.

Beside == UNCHANGED <<diskVars, slots, writeIdx, appendVars, indexVars,
                      writerVars, historyVars>>

LEMMA BesideCoreInv ==
    ASSUME CoreInv, Beside, readers' \in [Pools -> 0 .. MaxReaders]
    PROVE  CoreInv'
<1> USE DEF Beside, diskVars, appendVars, indexVars, writerVars, historyVars
<1>1. TypeInv'
  BY DEF CoreInv, TypeInv, TypeOK, PoolTypeOK, IndexTypeOK, Control, UsedHere
<1>2. DiskInv'
  BY UntouchedDiskInv DEF CoreInv
<1>3. SessionInv'
  BY UntouchedSessionInv DEF CoreInv, SessionInv, Numbered
<1>4. WholeInv'
  BY UntouchedWholeInv DEF CoreInv
<1>5. QED
  BY <1>1, <1>2, <1>3, <1>4 DEF CoreInv

LEMMA NextCoreInv == CoreInv /\ [Next]_vars => CoreInv'
BY NextTypeInv, NextDiskInv, NextSessionInv, NextWholeInv DEF CoreInv

LEMMA InitCoreInv == Init => CoreInv
BY InitTypeInv, InitDiskInv, InitSessionInv, InitWholeInv DEF CoreInv

\* The writer and its environment take the steps of GlobalWriter, touch neither
\* requests nor guards, and leave the index alone while an export reads.
LEMMA WriterStepFrame ==
    ASSUME Environment \/ LockedWriterStep
    PROVE  /\ Next /\ UNCHANGED readVars
           /\ pc' = "down" => pc = "down"
           /\ IndexReadLocked => pc = "down" \/ entries' = entries
           /\ readers' = readers \/ (pc = "down" /\ readers' = NoReaders)
           /\ session' = session \/ pc = "down"
           /\ torn \subseteq torn'
<1> USE DEF poolVars, diskVars, memVars, appendVars, indexVars, writerVars, historyVars
<1>1. CASE Start /\ UNCHANGED readVars
  BY <1>1 DEF Start, Open, Next
<1>2. CASE AppendFails /\ UNCHANGED readVars
  BY <1>2 DEF AppendFails, PoolHeaderFails, WriteFails, Drop, Next
<1>3. CASE (\E cam \in Cameras, size \in RecordSizes : Send(cam, size))
           /\ UNCHANGED readVars
  BY <1>3 DEF Send, Next
<1>4. CASE FreeWriterStep /\ UNCHANGED readVars
  <2>1. CASE Receive \/ CheckStatus
    BY <1>4, <2>1 DEF Receive, CheckStatus, Next, WriterStep
  <2>2. CASE ContinueAppend
    BY <1>4, <2>2 DEF ContinueAppend, PollReaders, StopWaiting, TakeSlot,
                      WritePoolHeader, WriteUnit, Next, WriterStep
  <2>3. CASE EndAppend
    BY <1>4, <2>3 DEF EndAppend, FinishAppend, Next, WriterStep
  <2>4. QED
    BY <1>4, <2>1, <2>2, <2>3 DEF FreeWriterStep
<1>5. CASE PoolWriterStep /\ UNCHANGED readVars
  BY <1>5 DEF PoolWriterStep, BeginAppend, AppendHere, AppendRotate,
              AppendOversize, Drop, Next, WriterStep
<1>6. CASE IndexWriterStep /\ UNCHANGED readVars
  BY <1>6 DEF IndexWriterStep, Rebuild, Evict, InsertSegment, Next, WriterStep
<1>7. CASE RebuildFails /\ UNCHANGED readVars
  BY <1>7 DEF RebuildFails, Next
<1>8. CASE StartKilled /\ UNCHANGED readVars
  BY <1>8 DEF StartKilled, OpenInterrupted, Next
<1>9. QED
  BY <1>1, <1>2, <1>3, <1>4, <1>5, <1>6, <1>7, <1>8
  DEF Environment, LockedWriterStep

-----------------------------------------------------------------------------
\* Counting the guards on a pool.

ExportGuards(p) == {x \in Exporters : p \in export[x].guards}
ViewerGuards(p) == {v \in Viewers : viewer[v].at = "reading" /\ viewer[v].seg.pool = p}

LEMMA GuardsFinite ==
    ASSUME NEW p
    PROVE  /\ IsFiniteSet(ExportGuards(p)) /\ Cardinality(ExportGuards(p)) \in Nat
           /\ IsFiniteSet(ViewerGuards(p)) /\ Cardinality(ViewerGuards(p)) \in Nat
<1>1. ExportGuards(p) \in SUBSET Exporters /\ ViewerGuards(p) \in SUBSET Viewers
  BY DEF ExportGuards, ViewerGuards
<1>2. IsFiniteSet(ExportGuards(p)) /\ IsFiniteSet(ViewerGuards(p))
  BY <1>1, FS_Subset, ReadersAssumption
<1>3. QED
  BY <1>2, FS_CardinalityType

LEMMA OneMore ==
    ASSUME NEW S, IsFiniteSet(S), NEW x, x \notin S
    PROVE  Cardinality(S \cup {x}) = Cardinality(S) + 1
BY FS_AddElement

LEMMA OneLess ==
    ASSUME NEW S, IsFiniteSet(S), NEW x \in S
    PROVE  Cardinality(S \ {x}) = Cardinality(S) - 1 /\ Cardinality(S) \in Nat \ {0}
<1>1. Cardinality(S \ {x}) = Cardinality(S) - 1
  BY FS_RemoveElement
<1>2. IsFiniteSet(S \ {x})
  BY FS_RemoveElement
<1>3. Cardinality(S) \in Nat /\ Cardinality(S \ {x}) \in Nat
  BY <1>2, FS_CardinalityType
<1>4. QED
  BY <1>1, <1>3

LEMMA ReadersType ==
    ASSUME CoreInv
    PROVE  readers \in [Pools -> 0 .. MaxReaders] /\ MaxReaders \in Nat
BY Constants DEF CoreInv, TypeInv, TypeOK, PoolTypeOK

\* Steps of a request or an export that take and release no guard.
LEMMA SameGuards ==
    ASSUME GuardsBalanced, readers' = readers,
           \A p \in Pools : ExportGuards(p)' = ExportGuards(p)
                            /\ ViewerGuards(p)' = ViewerGuards(p)
    PROVE  GuardsBalanced'
<1>1. \A p \in Pools :
        readers[p] = Cardinality(ExportGuards(p)) + Cardinality(ViewerGuards(p))
  BY DEF GuardsBalanced, ExportGuards, ViewerGuards
<1>2. \A p \in Pools : readers'[p] = Cardinality(ExportGuards(p)')
                                     + Cardinality(ViewerGuards(p)')
  BY <1>1
<1>3. QED
  BY <1>2 DEF GuardsBalanced, ExportGuards, ViewerGuards

LEMMA Counted ==
    ASSUME \A p \in Pools : readers'[p] = Cardinality(ExportGuards(p)')
                                          + Cardinality(ViewerGuards(p)')
    PROVE  GuardsBalanced'
BY DEF GuardsBalanced, ExportGuards, ViewerGuards

LEMMA Count ==
    ASSUME GuardsBalanced, NEW p \in Pools
    PROVE  readers[p] = Cardinality(ExportGuards(p)) + Cardinality(ViewerGuards(p))
BY DEF GuardsBalanced, ExportGuards, ViewerGuards

-----------------------------------------------------------------------------
\* Segment requests.

LEMMA LookUpInv ==
    ASSUME ReadsInv, NEW v \in Viewers, LookUp(v)
    PROVE  ReadsInv'
<1> USE DEF ReadsInv
<1>1. PICK seg \in entries :
        viewer' = [viewer EXCEPT ![v] = [at |-> "found", seg |-> seg, got |-> {}]]
  BY DEF LookUp, SegmentsForCamera, Unused
<1>2. export' = export /\ UNCHANGED vars /\ pc # "down" /\ viewer[v].at = "idle"
  BY DEF LookUp, CanReadIndex
<1>3. Located(seg) /\ seg \in SegmentMeta
  <2>1. /\ seg \in SegmentMeta /\ seg.pool \in Pools /\ seg.offset \in Nat
        /\ seg.size \in Nat /\ seg.offset + seg.size <= slots[seg.pool].bytesUsed
    BY EntryType, Constants
       DEF CoreInv, TypeInv, TypeOK, IndexTypeOK, DiskInv, Extents
  <2>2. slots[seg.pool].bytesUsed \in Nat /\ slots[seg.pool].bytesUsed <= Capacity
    BY <2>1, FileType DEF CoreInv
  <2>3. QED
    BY <2>1, <2>2, Constants DEF Located
<1>4. CoreInv'
  BY <1>2, NextCoreInv
<1>5. Stages'
  BY <1>1, <1>2, <1>3 DEF Stages, ViewerType, vars, indexVars, writerVars
<1>6. GuardsBalanced'
  <2>1. \A p \in Pools : ViewerGuards(p)' = ViewerGuards(p)
    BY <1>1, <1>2 DEF ViewerGuards, Stages, ViewerType
  <2>2. \A p \in Pools : ExportGuards(p)' = ExportGuards(p)
    BY <1>2 DEF ExportGuards
  <2>3. QED
    BY <1>2, <2>1, <2>2, SameGuards DEF vars, poolVars, memVars
<1>7. ExportsOwnBytes'
  BY <1>2 DEF ExportsOwnBytes, Trusted, OwnPiece, vars, historyVars
<1>8. QED
  BY <1>4, <1>5, <1>6, <1>7

LEMMA LockPoolInv ==
    ASSUME ReadsInv, NEW v \in Viewers, LockPool(v)
    PROVE  ReadsInv'
<1> USE DEF ReadsInv
<1> DEFINE q == viewer[v].seg.pool
<1>1. /\ viewer' = [viewer EXCEPT ![v].at = "reading"] /\ export' = export
      /\ viewer[v].at = "found" /\ Acquire(q) /\ Beside
  BY DEF LockPool, Acquire, Beside
<1>2. Located(viewer[v].seg) /\ q \in Pools /\ viewer \in [Viewers -> ViewerType]
  BY <1>1 DEF Stages, Located, SegmentMeta
<1>3. /\ readers' = [readers EXCEPT ![q] = @ + 1] /\ readers[q] < MaxReaders
      /\ readers' \in [Pools -> 0 .. MaxReaders]
  BY <1>1, <1>2, ReadersType DEF Acquire
<1>4. CoreInv'
  BY <1>1, <1>3, BesideCoreInv
<1>5. /\ viewer' \in [Viewers -> ViewerType]
      /\ viewer'[v].at = "reading" /\ viewer'[v].seg = viewer[v].seg
      /\ \A w \in Viewers : w # v => viewer'[w] = viewer[w]
  BY <1>1, <1>2 DEF ViewerType
<1>6. Stages'
  <2>1. UNCHANGED <<pc, entries>> /\ pc # "down"
    BY <1>1 DEF Beside, indexVars, writerVars, Stages
  <2>2. \A w \in Viewers : viewer'[w].at # "idle" => Located(viewer'[w].seg)
    BY <1>2, <1>5 DEF Stages
  <2>3. QED
    BY <1>1, <1>5, <2>1, <2>2 DEF Stages
<1> HIDE DEF q
<1>7. GuardsBalanced'
  <2>1. ASSUME NEW p \in Pools
        PROVE  readers'[p] = Cardinality(ExportGuards(p)') + Cardinality(ViewerGuards(p)')
    <3>1. ExportGuards(p)' = ExportGuards(p)
      BY <1>1 DEF ExportGuards
    <3>2. CASE p = q
      <4>1. ViewerGuards(p)' = ViewerGuards(p) \cup {v} /\ v \notin ViewerGuards(p)
        BY <1>1, <1>5, <3>2 DEF ViewerGuards, q
      <4>2. Cardinality(ViewerGuards(p)') = Cardinality(ViewerGuards(p)) + 1
        BY <4>1, GuardsFinite, OneMore
      <4>3. readers'[p] = readers[p] + 1
        BY <1>3, <3>2, ReadersType
      <4>4. QED
        BY <3>1, <4>2, <4>3, Count, GuardsFinite
    <3>3. CASE p # q
      <4>1. ViewerGuards(p)' = ViewerGuards(p)
        BY <1>1, <1>5, <3>3 DEF ViewerGuards, q
      <4>2. readers'[p] = readers[p]
        BY <1>3, <3>3, ReadersType
      <4>3. QED
        BY <3>1, <4>1, <4>2, Count
    <3>4. QED
      BY <3>2, <3>3
  <2>2. QED
    BY <2>1, Counted
<1>8. ExportsOwnBytes'
  BY <1>1 DEF ExportsOwnBytes, Trusted, OwnPiece, Beside, historyVars
<1>9. QED
  BY <1>4, <1>6, <1>7, <1>8

LEMMA ReadPayloadInv ==
    ASSUME ReadsInv, NEW v \in Viewers, ReadPayload(v)
    PROVE  ReadsInv'
<1> USE DEF ReadsInv
<1> DEFINE seg == viewer[v].seg
           pieces == {PieceAt(seg, k) : k \in 1 .. seg.size - 1}
<1>1. /\ viewer' = [viewer EXCEPT ![v].got = pieces] /\ export' = export
      /\ viewer[v].at = "reading" /\ UNCHANGED vars
  BY DEF ReadPayload
<1>2. Located(seg) /\ viewer \in [Viewers -> ViewerType] /\ pc # "down"
  BY <1>1 DEF Stages
<1>3. pieces \subseteq Piece
  <2>1. /\ seg.pool \in Pools /\ seg.offset \in Nat /\ seg.size \in Nat
        /\ seg.seq \in Nat /\ seg.offset + seg.size <= Capacity
    BY <1>2, LocatedType
  <2>2. ASSUME NEW k \in 1 .. seg.size - 1 PROVE PieceAt(seg, k) \in Piece
    <3>1. seg.offset + k \in Units /\ k \in Nat
      BY <2>1, Constants
    <3>2. cells[seg.pool] \in [Units -> Cell]
      BY <2>1, FileType DEF CoreInv
    <3>3. UnitOf(seg, k) \in Cell
      BY <3>1, <3>2 DEF UnitOf
    <3>4. QED
      BY <2>1, <3>1, <3>3 DEF PieceAt, Piece
  <2>3. QED
    BY <2>2
<1> HIDE DEF pieces
<1>4. CoreInv'
  BY <1>1, NextCoreInv
<1>5. /\ viewer' \in [Viewers -> ViewerType]
      /\ \A w \in Viewers : viewer'[w].at = viewer[w].at /\ viewer'[w].seg = viewer[w].seg
  BY <1>1, <1>2, <1>3 DEF ViewerType
<1>6. Stages'
  BY <1>1, <1>5 DEF Stages, Located, vars, indexVars, writerVars
<1>7. GuardsBalanced'
  <2>1. \A p \in Pools : ViewerGuards(p)' = ViewerGuards(p)
                         /\ ExportGuards(p)' = ExportGuards(p)
    BY <1>1, <1>5 DEF ViewerGuards, ExportGuards
  <2>2. QED
    BY <1>1, <2>1, SameGuards DEF vars, poolVars, memVars
<1>8. ExportsOwnBytes'
  BY <1>1 DEF ExportsOwnBytes, Trusted, OwnPiece, vars, historyVars
<1>9. QED
  BY <1>4, <1>6, <1>7, <1>8

LEMMA AnswerInv ==
    ASSUME ReadsInv, NEW v \in Viewers, Answer(v)
    PROVE  ReadsInv'
<1> USE DEF ReadsInv
<1> DEFINE q == viewer[v].seg.pool
<1>1. /\ viewer' = [viewer EXCEPT ![v] = Unused] /\ export' = export
      /\ viewer[v].at = "reading" /\ Release(q) /\ Beside
  BY DEF Answer, Release, Beside
<1>2. q \in Pools /\ viewer \in [Viewers -> ViewerType]
  BY <1>1 DEF Stages, SegmentMeta, Located
<1>3. /\ readers' = [readers EXCEPT ![q] = @ - 1] /\ readers[q] > 0
      /\ readers' \in [Pools -> 0 .. MaxReaders]
  BY <1>1, <1>2, ReadersType DEF Release
<1>4. CoreInv'
  BY <1>1, <1>3, BesideCoreInv
<1>5. /\ viewer' \in [Viewers -> ViewerType] /\ viewer'[v].at = "idle"
      /\ \A w \in Viewers : w # v => viewer'[w] = viewer[w]
  BY <1>1, <1>2 DEF ViewerType, Unused
<1>6. Stages'
  <2>1. UNCHANGED <<pc, entries>> /\ pc # "down"
    BY <1>1 DEF Beside, indexVars, writerVars, Stages
  <2>2. \A w \in Viewers : viewer'[w].at # "idle" => Located(viewer'[w].seg)
    BY <1>5 DEF Stages
  <2>3. QED
    BY <1>1, <1>5, <2>1, <2>2 DEF Stages
<1> HIDE DEF q
<1>7. GuardsBalanced'
  <2>1. ASSUME NEW p \in Pools
        PROVE  readers'[p] = Cardinality(ExportGuards(p)') + Cardinality(ViewerGuards(p)')
    <3>1. ExportGuards(p)' = ExportGuards(p)
      BY <1>1 DEF ExportGuards
    <3>2. CASE p = q
      <4>1. ViewerGuards(p)' = ViewerGuards(p) \ {v} /\ v \in ViewerGuards(p)
        BY <1>1, <1>5, <3>2 DEF ViewerGuards, q
      <4>2. Cardinality(ViewerGuards(p)') = Cardinality(ViewerGuards(p)) - 1
        BY <4>1, GuardsFinite, OneLess
      <4>3. readers'[p] = readers[p] - 1
        BY <1>3, <3>2, ReadersType
      <4>4. QED
        BY <3>1, <4>2, <4>3, Count, GuardsFinite
    <3>3. CASE p # q
      <4>1. ViewerGuards(p)' = ViewerGuards(p)
        BY <1>1, <1>5, <3>3 DEF ViewerGuards, q
      <4>2. readers'[p] = readers[p]
        BY <1>3, <3>3, ReadersType
      <4>3. QED
        BY <3>1, <4>1, <4>2, Count
    <3>4. QED
      BY <3>2, <3>3
  <2>2. QED
    BY <2>1, Counted
<1>8. ExportsOwnBytes'
  BY <1>1 DEF ExportsOwnBytes, Trusted, OwnPiece, Beside, historyVars
<1>9. QED
  BY <1>4, <1>6, <1>7, <1>8

-----------------------------------------------------------------------------
\* Exports.

\* An export that keeps its stage or moves on, with its guards, beside an
\* unchanged write path.
LEMMA ExportMoves ==
    ASSUME ReadsInv, NEW x \in Exporters, export[x].at # "idle",
           UNCHANGED <<vars, viewer>>, NEW new \in ExportType,
           export' = [export EXCEPT ![x] = new],
           new.guards = export[x].guards, new.at = "reading",
           new.todo \subseteq entries, new.seg \in entries \cup {<<>>},
           new.seg # <<>> => new.pos \in Nat \ {0},
           \A m \in new.got : Trusted(m) => OwnPiece(m)
    PROVE  ReadsInv'
<1> USE DEF ReadsInv
<1>1. CoreInv'
  BY NextCoreInv
<1>2. export \in [Exporters -> ExportType] /\ pc # "down"
  BY DEF Stages
<1>3. /\ export' \in [Exporters -> ExportType] /\ export'[x] = new
      /\ \A y \in Exporters : y # x => export'[y] = export[y]
  BY <1>2
<1>4. Stages'
  BY <1>2, <1>3 DEF Stages, Located, vars, indexVars, writerVars
<1>5. GuardsBalanced'
  <2>1. \A p \in Pools : ViewerGuards(p)' = ViewerGuards(p)
                         /\ ExportGuards(p)' = ExportGuards(p)
    BY <1>3 DEF ViewerGuards, ExportGuards
  <2>2. QED
    BY <2>1, SameGuards DEF vars, poolVars, memVars
<1>6. ExportsOwnBytes'
  BY <1>3 DEF ExportsOwnBytes, Trusted, OwnPiece, vars, historyVars
<1>7. QED
  BY <1>1, <1>4, <1>5, <1>6

LEMMA TakeGuardsInv ==
    ASSUME ReadsInv, NEW x \in Exporters, TakeGuards(x)
    PROVE  ReadsInv'
<1> USE DEF ReadsInv
<1> DEFINE PoolsOf(cam, from, to) == {e.pool : e \in InRange(cam, from, to)}
           With(cam, from, to) ==
               /\ \A p \in PoolsOf(cam, from, to) : readers[p] < MaxReaders
               /\ readers' = [p \in Pools |->
                     IF p \in PoolsOf(cam, from, to) THEN readers[p] + 1 ELSE readers[p]]
               /\ export' = [export EXCEPT ![x] =
                    [NoExport EXCEPT !.at = "guarded", !.cam = cam, !.from = from,
                                     !.to = to, !.guards = PoolsOf(cam, from, to)]]
<1>1. viewer' = viewer /\ export[x].at = "idle" /\ Beside /\ pc # "down"
  BY DEF TakeGuards, CanReadIndex, Beside
<1>2. PICK cam \in Cameras : \E from \in 1 .. MaxSegments :
            \E to \in from + 1 .. MaxSegments + 1 : With(cam, from, to)
  BY Zenon DEF TakeGuards
<1> HIDE DEF With
<1>3. PICK from \in 1 .. MaxSegments :
            \E to \in from + 1 .. MaxSegments + 1 : With(cam, from, to)
  BY <1>2
<1>4. PICK to \in from + 1 .. MaxSegments + 1 : With(cam, from, to)
  BY <1>3
<1> DEFINE pools == PoolsOf(cam, from, to)
<1>5. pools \subseteq Pools
  BY EntryType DEF InRange, SegmentsForCamera, CoreInv
<1> HIDE DEF PoolsOf
<1> DEFINE new == [NoExport EXCEPT !.at = "guarded", !.cam = cam, !.from = from,
                                    !.to = to, !.guards = pools]
<1>6. /\ \A p \in pools : readers[p] < MaxReaders
      /\ readers' = [p \in Pools |-> IF p \in pools THEN readers[p] + 1 ELSE readers[p]]
      /\ export' = [export EXCEPT ![x] = new]
  BY <1>4 DEF With
<1>7. new \in ExportType
  <2>1. from \in Nat /\ to \in Nat
    BY WriterAssumption
  <2>2. QED
    BY <1>5, <2>1 DEF ExportType, NoExport
<1>8. /\ new.at = "guarded" /\ new.guards = pools /\ new.seg = <<>> /\ new.got = {}
  BY DEF NoExport
<1> HIDE DEF pools, new
<1>9. readers' \in [Pools -> 0 .. MaxReaders]
  BY <1>5, <1>6, ReadersType
<1>10. CoreInv'
  BY <1>1, <1>9, BesideCoreInv
<1>11. /\ export' \in [Exporters -> ExportType] /\ export'[x] = new
       /\ \A y \in Exporters : y # x => export'[y] = export[y]
  BY <1>6, <1>7 DEF Stages
<1>12. Stages'
  <2>1. UNCHANGED <<pc, entries>>
    BY <1>1 DEF Beside, indexVars, writerVars
  <2>2. QED
    BY <1>1, <1>8, <1>11, <2>1 DEF Stages
<1>13. GuardsBalanced'
  <2>1. ASSUME NEW p \in Pools
        PROVE  readers'[p] = Cardinality(ExportGuards(p)') + Cardinality(ViewerGuards(p)')
    <3>1. ViewerGuards(p)' = ViewerGuards(p) /\ x \notin ExportGuards(p)
      BY <1>1 DEF ViewerGuards, ExportGuards, Stages
    <3>2. CASE p \in pools
      <4>1. ExportGuards(p)' = ExportGuards(p) \cup {x}
        BY <1>8, <1>11, <3>2 DEF ExportGuards
      <4>2. Cardinality(ExportGuards(p)') = Cardinality(ExportGuards(p)) + 1
        BY <3>1, <4>1, GuardsFinite, OneMore
      <4>3. readers'[p] = readers[p] + 1
        BY <1>6, <3>2
      <4>4. QED
        BY <3>1, <4>2, <4>3, Count, GuardsFinite
    <3>3. CASE p \notin pools
      <4>1. ExportGuards(p)' = ExportGuards(p)
        BY <1>8, <1>11, <3>1, <3>3 DEF ExportGuards
      <4>2. readers'[p] = readers[p]
        BY <1>6, <3>3
      <4>3. QED
        BY <3>1, <4>1, <4>2, Count
    <3>4. QED
      BY <3>2, <3>3
  <2>2. QED
    BY <2>1, Counted
<1>14. ExportsOwnBytes'
  BY <1>1, <1>8, <1>11 DEF ExportsOwnBytes, Trusted, OwnPiece, Beside, historyVars
<1>15. QED
  BY <1>10, <1>12, <1>13, <1>14

LEMMA RequeryInv ==
    ASSUME ReadsInv, NEW x \in Exporters, Requery(x)
    PROVE  ReadsInv'
<1> DEFINE new == [export[x] EXCEPT !.at = "reading", !.todo = Asked(x),
                                    !.from = 0, !.to = 0]
<1>1. /\ export[x] \in ExportType /\ export \in [Exporters -> ExportType]
      /\ export[x].at = "guarded" /\ export[x].seg = <<>>
      /\ entries \subseteq SegmentMeta
  BY DEF Requery, ReadsInv, Stages, CoreInv, TypeInv, TypeOK, IndexTypeOK
<1>2. Asked(x) \subseteq entries
  BY DEF Asked, InRange, SegmentsForCamera
<1>3. /\ new \in ExportType /\ new.guards = export[x].guards /\ new.at = "reading"
      /\ new.todo = Asked(x) /\ new.seg = <<>> /\ new.got = export[x].got
  BY <1>1, <1>2 DEF ExportType
<1>4. export' = [export EXCEPT ![x] = new] /\ UNCHANGED <<vars, viewer>>
  BY <1>1 DEF Requery
<1> HIDE DEF new
<1>5. \A m \in new.got : Trusted(m) => OwnPiece(m)
  BY <1>3 DEF ReadsInv, ExportsOwnBytes
<1>6. QED
  BY <1>1, <1>2, <1>3, <1>4, <1>5, ExportMoves

LEMMA NextSegmentInv ==
    ASSUME ReadsInv, NEW x \in Exporters, NextSegment(x)
    PROVE  ReadsInv'
<1>1. /\ export[x] \in ExportType /\ export \in [Exporters -> ExportType]
      /\ export[x].at = "reading" /\ export[x].todo \subseteq entries
      /\ entries \subseteq SegmentMeta
  BY DEF NextSegment, ReadsInv, Stages, CoreInv, TypeInv, TypeOK, IndexTypeOK
<1>2. PICK seg \in export[x].todo :
        export' = [export EXCEPT ![x].seg = seg, ![x].pos = 1, ![x].todo = @ \ {seg}]
  BY DEF NextSegment
<1> DEFINE new == [export[x] EXCEPT !.seg = seg, !.pos = 1, !.todo = @ \ {seg}]
<1>3. /\ new \in ExportType /\ new.guards = export[x].guards /\ new.at = "reading"
      /\ new.todo \subseteq entries /\ new.seg \in entries \cup {<<>>}
      /\ new.pos \in Nat \ {0} /\ new.got = export[x].got
  <2>1. seg \in entries /\ seg \in SegmentMeta /\ 1 \in Nat
    BY <1>1
  <2>2. export[x].todo \ {seg} \in SUBSET SegmentMeta
    BY <1>1
  <2>3. new \in ExportType
    BY <1>1, <2>1, <2>2 DEF ExportType
  <2>4. QED
    BY <1>1, <2>1, <2>3 DEF ExportType
<1>4. export' = [export EXCEPT ![x] = new] /\ UNCHANGED <<vars, viewer>>
  BY <1>1, <1>2 DEF NextSegment
<1> HIDE DEF new
<1>5. \A m \in new.got : Trusted(m) => OwnPiece(m)
  BY <1>3 DEF ReadsInv, ExportsOwnBytes
<1>6. QED
  BY <1>1, <1>3, <1>4, <1>5, ExportMoves

\* The unit belongs to an entry of the index, and that entry is whole: if it is
\* of this session always, if not unless some record was left torn.
LEMMA ReadUnitInv ==
    ASSUME ReadsInv, NEW x \in Exporters, ReadUnit(x)
    PROVE  ReadsInv'
<1> DEFINE seg == export[x].seg
           pos == export[x].pos
           piece == PieceAt(seg, pos)
           more == [export[x] EXCEPT !.got = @ \cup {piece}, !.pos = @ + 1]
           done == [export[x] EXCEPT !.seg = <<>>, !.pos = 0]
<1>1. /\ export[x] \in ExportType /\ export \in [Exporters -> ExportType]
      /\ export[x].at = "reading" /\ export[x].todo \subseteq entries
      /\ seg \in entries /\ pos \in Nat \ {0} /\ UNCHANGED <<vars, viewer>>
  BY DEF ReadUnit, ReadsInv, Stages
<1>2. \A m \in export[x].got : Trusted(m) => OwnPiece(m)
  BY DEF ReadsInv, ExportsOwnBytes
<1>3. CASE pos < seg.size
  <2>1. /\ seg.pool \in Pools /\ seg.size \in Nat /\ seg.seq \in Nat
        /\ pos \in 0 .. seg.size - 1
    <3>1. seg.pool \in Pools /\ seg.size \in Nat
      BY <1>1, EntryType DEF ReadsInv, CoreInv
    <3>2. seg.seq \in Nat
      BY <1>1 DEF ReadsInv, CoreInv, TypeInv, TypeOK, IndexTypeOK, SegmentMeta
    <3>3. QED
      BY <1>1, <1>3, <3>1, <3>2
  <2>2. PieceAt(seg, pos) \in Piece
    <3>1. cells[seg.pool] \in [Units -> Cell] /\ seg.offset + pos \in Units
      BY <1>1, <2>1, FileType, EntryUnits DEF ReadsInv, CoreInv, DiskInv
    <3>2. UnitOf(seg, pos) \in Cell
      BY <3>1 DEF UnitOf
    <3>3. QED
      BY <1>1, <2>1, <3>2 DEF PieceAt, Piece
  <2>3. Trusted(PieceAt(seg, pos)) => OwnPiece(PieceAt(seg, pos))
    <3>1. SUFFICES ASSUME torn = {} \/ seg.seq > session
                   PROVE  /\ UnitOf(seg, pos) # Blank
                          /\ UnitOf(seg, pos).rec.seq = seg.seq
                          /\ UnitOf(seg, pos).unit = pos
      BY DEF Trusted, OwnPiece, PieceAt
    <3>2. Intact(seg)
      BY <1>1, <3>1, WholeIsIntact
         DEF ReadsInv, CoreInv, SessionInv, SessionIntact, RecoveredIntact
    <3>3. QED
      BY <2>1, <3>2 DEF Intact
  <2>4. /\ more \in ExportType /\ more.guards = export[x].guards
        /\ more.at = "reading" /\ more.todo = export[x].todo /\ more.seg = seg
        /\ more.pos \in Nat \ {0} /\ more.got = export[x].got \cup {piece}
    <3>1. piece \in Piece
      BY <2>2
    <3> HIDE DEF piece
    <3>2. export[x].got \cup {piece} \in SUBSET Piece /\ pos + 1 \in Nat \ {0}
      BY <1>1, <3>1 DEF ExportType
    <3>3. more \in ExportType
      BY <1>1, <3>2 DEF ExportType
    <3>4. QED
      BY <1>1, <3>2, <3>3 DEF ExportType
  <2>5. export' = [export EXCEPT ![x] = more]
    BY <1>1, <1>3 DEF ReadUnit
  <2> HIDE DEF more
  <2>6. QED
    BY <1>1, <1>2, <2>3, <2>4, <2>5, ExportMoves
<1>4. CASE ~(pos < seg.size)
  <2>1. /\ done \in ExportType /\ done.guards = export[x].guards
        /\ done.at = "reading" /\ done.todo = export[x].todo /\ done.seg = <<>>
        /\ done.got = export[x].got
    BY <1>1 DEF ExportType
  <2>2. export' = [export EXCEPT ![x] = done]
    BY <1>1, <1>4 DEF ReadUnit
  <2> HIDE DEF done
  <2>3. QED
    BY <1>1, <1>2, <2>1, <2>2, ExportMoves
<1>5. QED
  BY <1>3, <1>4

\* The end of an export, with or without segments.
LEMMA ReleaseAllInv ==
    ASSUME ReadsInv, NEW x \in Exporters, ReleaseAll(x), Beside, viewer' = viewer,
           export' = [export EXCEPT ![x] = NoExport], export[x].at # "idle"
    PROVE  ReadsInv'
<1> USE DEF ReadsInv
<1>1. /\ export \in [Exporters -> ExportType] /\ export[x].guards \subseteq Pools
      /\ pc # "down"
  BY DEF Stages, ExportType
<1>2. NoExport \in ExportType /\ NoExport.at = "idle" /\ NoExport.guards = {}
      /\ NoExport.got = {}
  BY DEF ExportType, NoExport
<1>3. /\ export' \in [Exporters -> ExportType] /\ export'[x] = NoExport
      /\ \A y \in Exporters : y # x => export'[y] = export[y]
  BY <1>1, <1>2
<1>4. ASSUME NEW p \in Pools
      PROVE  /\ readers'[p] = Cardinality(ExportGuards(p)') + Cardinality(ViewerGuards(p)')
             /\ readers'[p] \in 0 .. MaxReaders
  <2>1. ViewerGuards(p)' = ViewerGuards(p)
    BY DEF ViewerGuards
  <2>2. CASE p \in export[x].guards
    <3>1. ExportGuards(p)' = ExportGuards(p) \ {x} /\ x \in ExportGuards(p)
      BY <1>2, <1>3, <2>2 DEF ExportGuards
    <3>2. /\ Cardinality(ExportGuards(p)') = Cardinality(ExportGuards(p)) - 1
          /\ Cardinality(ExportGuards(p)) \in Nat \ {0}
      BY <3>1, GuardsFinite, OneLess
    <3>3. readers'[p] = readers[p] - 1
      BY <2>2 DEF ReleaseAll
    <3>4. QED
      BY <2>1, <3>2, <3>3, Count, GuardsFinite, ReadersType
  <2>3. CASE p \notin export[x].guards
    <3>1. ExportGuards(p)' = ExportGuards(p)
      BY <1>2, <1>3, <2>3 DEF ExportGuards
    <3>2. readers'[p] = readers[p]
      BY <2>3 DEF ReleaseAll
    <3>3. QED
      BY <2>1, <3>1, <3>2, Count, ReadersType
  <2>4. QED
    BY <2>2, <2>3
<1>5. readers' \in [Pools -> 0 .. MaxReaders]
  <2>1. readers' = [p \in Pools |-> readers'[p]]
    BY DEF ReleaseAll
  <2>2. QED
    BY <1>4, <2>1
<1>6. CoreInv'
  BY <1>5, BesideCoreInv
<1>7. Stages'
  BY <1>1, <1>2, <1>3 DEF Stages, Beside, indexVars, writerVars
<1>8. GuardsBalanced'
  BY <1>4, Counted
<1>9. ExportsOwnBytes'
  BY <1>2, <1>3 DEF ExportsOwnBytes, Trusted, OwnPiece, Beside, historyVars
<1>10. QED
  BY <1>6, <1>7, <1>8, <1>9

LEMMA ExportStepInv ==
    ASSUME ReadsInv, NEW x \in Exporters, ExportStep(x)
    PROVE  ReadsInv'
<1>1. CASE TakeGuards(x)
  BY <1>1, TakeGuardsInv
<1>2. CASE Requery(x)
  BY <1>2, RequeryInv
<1>3. CASE NextSegment(x)
  BY <1>3, NextSegmentInv
<1>4. CASE ReadUnit(x)
  BY <1>4, ReadUnitInv
<1>5. CASE ExportEmpty(x)
  BY <1>5, ReleaseAllInv DEF ExportEmpty, Beside
<1>6. CASE ExportEnds(x)
  BY <1>6, ReleaseAllInv DEF ExportEnds, Beside
<1>7. QED
  BY <1>1, <1>2, <1>3, <1>4, <1>5, <1>6 DEF ExportStep

-----------------------------------------------------------------------------
\* Everything else.

\* With nobody reading no guard is held.
LEMMA NobodyReads ==
    ASSUME Stages, \A v \in Viewers : viewer[v].at = "idle",
           \A x \in Exporters : export[x].at = "idle"
    PROVE  \A p \in Pools :
                Cardinality(ExportGuards(p)) = 0 /\ Cardinality(ViewerGuards(p)) = 0
<1>1. \A p \in Pools : ExportGuards(p) = {} /\ ViewerGuards(p) = {}
  BY DEF ExportGuards, ViewerGuards, Stages
<1>2. Cardinality({}) = 0
  BY FS_EmptySet
<1>3. QED
  BY <1>1, <1>2

LEMMA InitReadsInv == ReadsInit => ReadsInv
<1> SUFFICES ASSUME ReadsInit PROVE ReadsInv
  OBVIOUS
<1>1. CoreInv
  BY InitCoreInv DEF ReadsInit
<1>2. Unused \in ViewerType /\ NoExport \in ExportType
  BY DEF ViewerType, ExportType, Unused, NoExport
<1>3. Stages
  BY <1>2 DEF ReadsInit, Stages, Unused, NoExport
<1>4. \A p \in Pools : readers[p] = 0
  BY DEF ReadsInit, Init, PoolInit, NoReaders
<1>5. GuardsBalanced
  <2>1. \A p \in Pools :
            Cardinality(ExportGuards(p)) = 0 /\ Cardinality(ViewerGuards(p)) = 0
    BY <1>3, NobodyReads DEF ReadsInit, Unused, NoExport
  <2>2. QED
    BY <1>4, <2>1 DEF GuardsBalanced, ExportGuards, ViewerGuards
<1>6. ExportsOwnBytes
  BY DEF ReadsInit, ExportsOwnBytes, NoExport
<1>7. QED
  BY <1>1, <1>3, <1>5, <1>6 DEF ReadsInv

LEMMA WriterStepInv ==
    ASSUME ReadsInv, Environment \/ LockedWriterStep
    PROVE  ReadsInv'
<1> USE DEF ReadsInv
<1>1. /\ Next /\ viewer' = viewer /\ export' = export
      /\ pc' = "down" => pc = "down"
      /\ IndexReadLocked => pc = "down" \/ entries' = entries
      /\ readers' = readers \/ (pc = "down" /\ readers' = NoReaders)
      /\ session' = session \/ pc = "down"
      /\ torn \subseteq torn'
  BY WriterStepFrame DEF readVars
<1>2. CoreInv'
  BY <1>1, NextCoreInv
<1>3. Stages'
  <2>1. \A x \in Exporters : export[x].at = "reading" => entries' = entries
    BY <1>1 DEF IndexReadLocked, Stages
  <2>2. QED
    BY <1>1, <2>1 DEF Stages, Located
<1>4. GuardsBalanced'
  <2>1. \A p \in Pools : ExportGuards(p)' = ExportGuards(p)
                         /\ ViewerGuards(p)' = ViewerGuards(p)
    BY <1>1 DEF ExportGuards, ViewerGuards
  <2>2. CASE readers' = readers
    BY <2>1, <2>2, SameGuards
  <2>3. CASE pc = "down" /\ readers' = NoReaders
    <3>1. \A p \in Pools :
              Cardinality(ExportGuards(p)) = 0 /\ Cardinality(ViewerGuards(p)) = 0
      BY <2>3, NobodyReads DEF Stages
    <3>2. \A p \in Pools : readers'[p] = Cardinality(ExportGuards(p)')
                                         + Cardinality(ViewerGuards(p)')
      BY <2>1, <2>3, <3>1 DEF NoReaders
    <3>3. QED
      BY <3>2, Counted
  <2>4. QED
    BY <1>1, <2>2, <2>3
<1>5. ExportsOwnBytes'
  <2>1. ASSUME NEW x \in Exporters, NEW m \in export[x].got, Trusted(m)'
        PROVE  OwnPiece(m)
    <3>1. CASE session' = session
      BY <1>1, <2>1, <3>1 DEF Trusted, ExportsOwnBytes
    <3>2. CASE pc = "down"
      BY <2>1, <3>2 DEF Stages
    <3>3. QED
      BY <1>1, <3>1, <3>2
  <2>2. QED
    BY <1>1, <2>1 DEF ExportsOwnBytes, OwnPiece
<1>6. QED
  BY <1>2, <1>3, <1>4, <1>5

LEMMA CrashAllInv == ReadsInv /\ CrashAll => ReadsInv'
<1> SUFFICES ASSUME ReadsInv, CrashAll PROVE ReadsInv'
  OBVIOUS
<1> USE DEF ReadsInv
<1>1. CoreInv'
  <2>1. [Next]_vars
    BY DEF CrashAll, Next
  <2>2. QED
    BY <2>1, NextCoreInv
<1>2. Unused \in ViewerType /\ NoExport \in ExportType
  BY DEF ViewerType, ExportType, Unused, NoExport
<1>3. Stages'
  BY <1>2 DEF CrashAll, Stages, Unused, NoExport
<1>4. \A p \in Pools : readers'[p] = 0
  BY DEF CrashAll, Crash, Halt, NoReaders
<1>5. GuardsBalanced'
  <2>1. \A p \in Pools : ExportGuards(p)' = {} /\ ViewerGuards(p)' = {}
    BY DEF CrashAll, ExportGuards, ViewerGuards, Unused, NoExport
  <2>2. Cardinality({}) = 0
    BY FS_EmptySet
  <2>3. \A p \in Pools : readers'[p] = Cardinality(ExportGuards(p)')
                                       + Cardinality(ViewerGuards(p)')
    BY <1>4, <2>1, <2>2
  <2>4. QED
    BY <2>3, Counted
<1>6. ExportsOwnBytes'
  BY DEF CrashAll, ExportsOwnBytes, NoExport
<1>7. QED
  BY <1>1, <1>3, <1>5, <1>6

LEMMA NextReadsInv == ReadsInv /\ [ReadsNext]_allVars => ReadsInv'
<1> SUFFICES ASSUME ReadsInv, [ReadsNext]_allVars PROVE ReadsInv'
  OBVIOUS
<1>1. CASE Environment \/ LockedWriterStep
  BY <1>1, WriterStepInv
<1>2. CASE \E v \in Viewers : ViewerStep(v)
  BY <1>2, LookUpInv, LockPoolInv, ReadPayloadInv, AnswerInv DEF ViewerStep
<1>3. CASE \E x \in Exporters : ExportStep(x)
  BY <1>3, ExportStepInv
<1>4. CASE CrashAll
  BY <1>4, CrashAllInv
<1>5. CASE UNCHANGED allVars
  <2>1. UNCHANGED vars /\ viewer' = viewer /\ export' = export
    BY <1>5 DEF allVars
  <2>2. CoreInv'
    BY <2>1, NextCoreInv DEF ReadsInv
  <2>3. Stages'
    BY <2>1 DEF ReadsInv, Stages, Located, vars, indexVars, writerVars
  <2>4. GuardsBalanced' /\ ExportsOwnBytes'
    BY <2>1 DEF ReadsInv, GuardsBalanced, ExportsOwnBytes, Trusted, OwnPiece,
                vars, poolVars, memVars, historyVars
  <2>5. QED
    BY <2>2, <2>3, <2>4 DEF ReadsInv
<1>6. QED
  BY <1>1, <1>2, <1>3, <1>4, <1>5 DEF ReadsNext

-----------------------------------------------------------------------------
\* Every state of every interleaving is well typed, those of the requests and
\* exports included: no guard count leaves its range.
THEOREM ReadsTypeCorrect == ReadsSpec => []ReadsTypeOK
<1>1. ReadsInv => ReadsTypeOK
  BY DEF ReadsInv, CoreInv, TypeInv, Stages, ReadsTypeOK, ViewerType, ExportType
<1>2. QED
  BY <1>1, InitReadsInv, NextReadsInv, PTL DEF ReadsSpec

-----------------------------------------------------------------------------
\* The pool's lock keeps requests and appends apart.

LEMMA AppendNeedsLock ==
    ASSUME Environment \/ LockedWriterStep
    PROVE  viewer' = viewer /\ (PoolWriteLocked' => PoolWriteLocked \/ ~PoolReadLocked)
<1> USE DEF poolVars, diskVars, memVars, appendVars, PoolWriteLocked, readVars
<1>1. CASE Environment
  BY <1>1 DEF Environment, Start, Open, AppendFails, PoolHeaderFails, WriteFails,
              RebuildFails, StartKilled, OpenInterrupted, Send
<1>2. CASE FreeWriterStep /\ UNCHANGED readVars
  <2>1. CASE Receive \/ CheckStatus
    BY <1>2, <2>1 DEF Receive, CheckStatus
  <2>2. CASE ContinueAppend
    BY <1>2, <2>2 DEF ContinueAppend, PollReaders, StopWaiting, TakeSlot,
                      WritePoolHeader, WriteUnit
  <2>3. CASE EndAppend
    BY <1>2, <2>3 DEF EndAppend, FinishAppend
  <2>4. QED
    BY <1>2, <2>1, <2>2, <2>3 DEF FreeWriterStep
<1>3. CASE PoolWriterStep /\ UNCHANGED readVars
  BY <1>3 DEF PoolWriterStep
<1>4. CASE IndexWriterStep /\ UNCHANGED readVars
  BY <1>4 DEF IndexWriterStep, Rebuild, Evict, InsertSegment
<1>5. QED
  BY <1>1, <1>2, <1>3, <1>4 DEF LockedWriterStep

LEMMA NextNoReadDuringAppend ==
    ReadsInv /\ NoReadDuringAppend /\ [ReadsNext]_allVars => NoReadDuringAppend'
<1> SUFFICES ASSUME ReadsInv, NoReadDuringAppend, [ReadsNext]_allVars
             PROVE  NoReadDuringAppend'
  OBVIOUS
<1> USE DEF NoReadDuringAppend, PoolWriteLocked
<1>1. CASE Environment \/ LockedWriterStep
  BY <1>1, AppendNeedsLock DEF PoolReadLocked
<1>2. ASSUME NEW v \in Viewers, ViewerStep(v)
      PROVE  NoReadDuringAppend'
  <2>1. phase' = phase
    BY <1>2 DEF ViewerStep, LookUp, LockPool, ReadPayload, Answer, Acquire, Release,
                vars, poolVars, appendVars
  <2>2. CASE LookUp(v) \/ Answer(v)
    <3>1. viewer \in [Viewers -> ViewerType]
      BY DEF ReadsInv, Stages
    <3>2. QED
      BY <2>1, <2>2, <3>1 DEF LookUp, Answer, Unused
  <2>3. CASE LockPool(v)
    BY <2>1, <2>3 DEF LockPool, CanReadPool
  <2>4. CASE ReadPayload(v)
    BY <2>1, <2>4 DEF ReadPayload
  <2>5. QED
    BY <1>2, <2>2, <2>3, <2>4 DEF ViewerStep
<1>3. ASSUME NEW x \in Exporters, ExportStep(x)
      PROVE  phase' = phase /\ viewer' = viewer
  BY <1>3 DEF ExportStep, TakeGuards, Requery, NextSegment, ReadUnit, ExportEmpty,
              ExportEnds, vars, poolVars, appendVars
<1>4. CASE CrashAll
  BY <1>4 DEF CrashAll, Unused
<1>5. CASE UNCHANGED allVars
  BY <1>5 DEF allVars, vars, poolVars, appendVars
<1>6. QED
  BY <1>1, <1>2, <1>3, <1>4, <1>5 DEF ReadsNext

\* A request never reads a file while an append is under way, however many
\* requests come and whatever the writer fails at.
THEOREM NoReadDuringAppendHolds == ReadsSpec => []NoReadDuringAppend
<1>1. ReadsInit => NoReadDuringAppend
  BY DEF ReadsInit, NoReadDuringAppend, Unused
<1>2. QED
  BY <1>1, InitReadsInv, NextReadsInv, NextNoReadDuringAppend, PTL DEF ReadsSpec

-----------------------------------------------------------------------------
\* Every read guard is accounted for, whatever requests and exports do beside
\* the writer: none leaks on an early return, none is released twice.
THEOREM GuardsBalancedHold == ReadsSpec => []GuardsBalanced
<1>1. ReadsInv => GuardsBalanced
  BY DEF ReadsInv
<1>2. QED
  BY <1>1, InitReadsInv, NextReadsInv, PTL DEF ReadsSpec

\* An export never returns bytes of another segment, although it reads without
\* the pool's lock: what it has left to read stays in the index, and what is in
\* the index is never overwritten.
THEOREM ExportsOwnBytesHold == ReadsSpec => []ExportsOwnBytes
<1>1. ReadsInv => ExportsOwnBytes
  BY DEF ReadsInv
<1>2. QED
  BY <1>1, InitReadsInv, NextReadsInv, PTL DEF ReadsSpec

==============================================================================
