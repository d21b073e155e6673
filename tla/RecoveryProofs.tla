---------------------------- MODULE RecoveryProofs ----------------------------
(***************************************************************************)
(* Restarts, for every value of the constants: indexed segments never      *)
(* share a unit, the rebuild brings back all the dead process had indexed, *)
(* and what it brings back is whole unless a record was left torn.         *)
(***************************************************************************)
EXTENDS GlobalWriterProofs

USE DEF Pools, Units, Offsets

LEMMA FileType ==
    ASSUME TypeInv, NEW p \in Pools
    PROVE  /\ cells[p] \in [Units -> Cell]
           /\ slots[p].bytesUsed \in Offsets /\ slots[p].bytesUsed \in Nat
           /\ slots[p].bytesUsed <= Capacity
<1>1. /\ cells \in [Pools -> [Units -> Cell]]
      /\ slots \in [Pools -> [poolId : Nat, bytesUsed : Offsets]]
  BY DEF TypeInv, TypeOK, PoolTypeOK
<1>2. cells[p] \in [Units -> Cell] /\ slots[p].bytesUsed \in Offsets
  BY <1>1
<1>3. QED
  BY <1>2, Constants

\* The entry the rebuild makes of the record at offset o of pool p.
Rebuilt(p, o) ==
    Meta(Cardinality({s \in ScanAllPools : ScannedBefore(s, Recovered(p, o))}),
         Recovered(p, o).seq, Recovered(p, o).cam, Recovered(p, o))

\* The rebuilt index has one entry for each record the scan finds.
LEMMA RebuiltEntries ==
    ASSUME Rebuild
    PROVE  /\ \A e \in entries' :
                /\ e.pool \in Pools /\ e.offset \in RecordOffsets(cells[e.pool])
                /\ e = Rebuilt(e.pool, e.offset)
           /\ \A p \in Pools : \A o \in RecordOffsets(cells[p]) :
                Rebuilt(p, o) \in entries'
<1> DEFINE E(r) == Meta(Cardinality({s \in ScanAllPools : ScannedBefore(s, r)}),
                        r.seq, r.cam, r)
<1>1. entries' = {E(r) : r \in ScanAllPools}
  BY DEF Rebuild, RebuildFromScanned
<1>2. ASSUME NEW p, NEW o
      PROVE  /\ E(Recovered(p, o)) = Rebuilt(p, o)
             /\ Rebuilt(p, o).pool = p /\ Rebuilt(p, o).offset = o
  <2>1. E(Recovered(p, o)) = Rebuilt(p, o)
    BY DEF Rebuilt
  <2>2. Rebuilt(p, o).pool = p /\ Rebuilt(p, o).offset = o
    BY DEF Rebuilt, Meta, Recovered
  <2>3. QED
    BY <2>1, <2>2
<1> HIDE DEF E
<1>3. ASSUME NEW e \in entries'
      PROVE  /\ e.pool \in Pools /\ e.offset \in RecordOffsets(cells[e.pool])
             /\ e = Rebuilt(e.pool, e.offset)
  <2>1. PICK r \in ScanAllPools : e = E(r)
    BY <1>1
  <2>2. PICK p \in Pools : \E o \in RecordOffsets(cells[p]) : r = Recovered(p, o)
    BY <2>1 DEF ScanAllPools
  <2>3. PICK o \in RecordOffsets(cells[p]) : r = Recovered(p, o)
    BY <2>2
  <2>4. QED
    BY <2>1, <2>3, <1>2
<1>4. ASSUME NEW p \in Pools, NEW o \in RecordOffsets(cells[p])
      PROVE  Rebuilt(p, o) \in entries'
  <2>1. Recovered(p, o) \in ScanAllPools
    BY DEF ScanAllPools
  <2>2. QED
    BY <2>1, <1>1, <1>2
<1>5. QED
  BY <1>3, <1>4

\* What a rebuilt entry says of its record.
LEMMA RebuiltFields ==
    ASSUME NEW p, NEW o
    PROVE  /\ Rebuilt(p, o).pool = p /\ Rebuilt(p, o).offset = o
           /\ Rebuilt(p, o).seq = cells[p][o].rec.seq
           /\ Rebuilt(p, o).size = cells[p][o].rec.size
           /\ Rebuilt(p, o).cam = DiskId[cells[p][o].rec.cam]
BY DEF Rebuilt, Meta, Recovered

-----------------------------------------------------------------------------
\* Indexed segments share no unit; between append and insert the new record
\* lies behind all of them.

DisjointInv ==
    /\ ExtentsDisjoint
    /\ pc = "insert" =>
        \A e \in entries :
            e.pool = writeIdx => e.offset + e.size <= UsedHere - req.size

LEMMA InitDisjointInv == Init => DisjointInv
BY DEF Init, IndexInit, DisjointInv, ExtentsDisjoint

\* Steps that insert nothing and do not end an append.
LEMMA FewerDisjointInv ==
    ASSUME DisjointInv, entries' \subseteq entries,
           pc' = "insert" => pc = "insert" /\ UNCHANGED <<slots, writeIdx, req>>
    PROVE  DisjointInv'
BY DEF DisjointInv, ExtentsDisjoint, UsedHere

LEMMA RebuildDisjointInv == TypeInv /\ Rebuild => DisjointInv'
<1> SUFFICES ASSUME TypeInv, Rebuild PROVE DisjointInv'
  OBVIOUS
<1>1. ASSUME NEW e \in entries', NEW f \in entries', e # f, e.pool = f.pool
      PROVE  e.offset + e.size <= f.offset \/ f.offset + f.size <= e.offset
  <2>1. /\ e.pool \in Pools /\ e.offset \in RecordOffsets(cells[e.pool])
        /\ f.offset \in RecordOffsets(cells[e.pool])
        /\ e = Rebuilt(e.pool, e.offset) /\ f = Rebuilt(e.pool, f.offset)
    BY <1>1, RebuiltEntries
  <2>2. e.offset # f.offset
    BY <1>1, <2>1
  <2>3. /\ e.size = cells[e.pool][e.offset].rec.size
        /\ f.size = cells[e.pool][f.offset].rec.size
    BY <2>1, RebuiltFields
  <2>4. cells[e.pool] \in [Units -> Cell]
    BY <2>1, FileType
  <2>5. QED
    BY <2>1, <2>2, <2>3, <2>4, ScanDisjoint
<1>2. ExtentsDisjoint'
  BY <1>1 DEF ExtentsDisjoint
<1>3. QED
  BY <1>2 DEF DisjointInv, Rebuild

LEMMA EndAppendDisjointInv ==
    TypeInv /\ DiskInv /\ DisjointInv /\ EndAppend => DisjointInv'
<1> SUFFICES ASSUME TypeInv, DiskInv, DisjointInv, EndAppend PROVE DisjointInv'
  OBVIOUS
<1>1. /\ UNCHANGED <<entries, writeIdx, req>>
      /\ slots' = [slots EXCEPT ![writeIdx].bytesUsed = @ + req.size]
  BY DEF EndAppend, FinishAppend, indexVars
<1>2. /\ req.size \in Nat /\ slots[writeIdx].bytesUsed \in Nat
      /\ writeIdx \in Pools
  BY AppendType DEF EndAppend
<1>3. slots'[writeIdx].bytesUsed - req.size = slots[writeIdx].bytesUsed
  BY <1>1, <1>2 DEF TypeInv, TypeOK, PoolTypeOK
<1>4. \A e \in entries : e.offset + e.size <= slots[e.pool].bytesUsed
  BY DEF DiskInv, Extents
<1>5. QED
  BY <1>1, <1>3, <1>4 DEF DisjointInv, ExtentsDisjoint, UsedHere

LEMMA InsertSegmentDisjointInv ==
    TypeInv /\ DisjointInv /\ InsertSegment => DisjointInv'
<1> SUFFICES ASSUME TypeInv, DisjointInv, InsertSegment PROVE DisjointInv'
  OBVIOUS
<1> DEFINE new == Meta(segmentCounter, req.seq, req.cam, AppendedAt(req))
<1>1. entries' = entries \cup {new} /\ pc' = "recv" /\ pc = "insert"
  BY DEF InsertSegment, Insert
<1>2. new.pool = writeIdx /\ new.offset = UsedHere - req.size
  BY DEF Meta, AppendedAt, UsedHere
<1> HIDE DEF new
<1>3. \A e \in entries : e.pool = new.pool => e.offset + e.size <= new.offset
  BY <1>1, <1>2 DEF DisjointInv
<1>4. ExtentsDisjoint'
  BY <1>1, <1>3 DEF DisjointInv, ExtentsDisjoint
<1>5. QED
  BY <1>1, <1>4 DEF DisjointInv

LEMMA NextDisjointInv ==
    TypeInv /\ DiskInv /\ DisjointInv /\ [Next]_vars => DisjointInv'
<1> SUFFICES ASSUME TypeInv, DiskInv, DisjointInv, [Next]_vars PROVE DisjointInv'
  OBVIOUS
<1> USE DEF poolVars, diskVars, memVars, appendVars, indexVars, writerVars
<1>1. CASE Start \/ StartKilled \/ RebuildFails
  BY <1>1, FewerDisjointInv DEF Start, StartKilled, RebuildFails
<1>2. CASE Rebuild
  BY <1>2, RebuildDisjointInv
<1>3. CASE \E cam \in Cameras, size \in RecordSizes : Send(cam, size)
  BY <1>3, FewerDisjointInv DEF Send
<1>4. CASE Receive \/ CheckStatus \/ Evict
  BY <1>4, FewerDisjointInv DEF Receive, CheckStatus, Evict, EvictPool
<1>5. CASE BeginAppend \/ ContinueAppend \/ AppendFails
  BY <1>5, FewerDisjointInv DEF BeginAppend, ContinueAppend, AppendFails, Drop
<1>6. CASE EndAppend
  BY <1>6, EndAppendDisjointInv
<1>7. CASE InsertSegment
  BY <1>7, InsertSegmentDisjointInv
<1>8. CASE \E p \in Pools : TakeGuard(p) \/ DropGuard(p)
  BY <1>8, FewerDisjointInv DEF TakeGuard, DropGuard, Acquire, Release
<1>9. CASE Crash
  BY <1>9, FewerDisjointInv DEF Crash, Forget
<1>10. CASE UNCHANGED vars
  BY <1>10, FewerDisjointInv DEF vars
<1>11. QED
  BY <1>1, <1>2, <1>3, <1>4, <1>5, <1>6, <1>7, <1>8, <1>9, <1>10
     DEF Next, WriterStep

\* No two indexed segments share a unit of a pool file, neither those a scan
\* has brought back nor those appended behind them.
THEOREM ExtentsDisjointHold == Spec => []ExtentsDisjoint
<1>1. Init => TypeInv /\ DiskInv /\ DisjointInv
  BY InitTypeInv, InitDiskInv, InitDisjointInv
<1>2. TypeInv /\ DiskInv /\ DisjointInv /\ [Next]_vars
        => (TypeInv /\ DiskInv /\ DisjointInv)'
  BY NextTypeInv, NextDiskInv, NextDisjointInv
<1>3. TypeInv /\ DiskInv /\ DisjointInv => ExtentsDisjoint
  BY DEF DisjointInv
<1>4. QED
  BY <1>1, <1>2, <1>3, PTL DEF Spec

-----------------------------------------------------------------------------
\* A restart finds everything again: bytes_used and the location of each entry
\* are offsets the scan visits, and what the dead process had indexed is found.

\* The scan finds, at the location of e, a record whose header is that of e.
OnDisk(e) ==
    /\ e.pool \in Pools /\ e.offset \in RecordOffsets(cells[e.pool])
    /\ cells[e.pool][e.offset].rec.seq = e.seq
    /\ cells[e.pool][e.offset].rec.size = e.size
    /\ e.cam \in {cells[e.pool][e.offset].rec.cam,
                  DiskId[cells[e.pool][e.offset].rec.cam]}

ReachInv ==
    /\ \A p \in Pools : slots[p].bytesUsed \in Visited(cells[p])
    /\ \A e \in entries : e.offset \in Visited(cells[e.pool])
    /\ pc = "insert" => UsedHere - req.size \in Visited(cells[writeIdx])
    /\ pc \in {"down", "rebuild"} => \A e \in lost : OnDisk(e)

LEMMA InitReachInv == Init => ReachInv
<1> SUFFICES ASSUME Init PROVE ReachInv
  OBVIOUS
<1>1. \A p \in Pools : cells[p] \in [Units -> Cell]
  BY InitTypeInv, FileType
<1>2. \A p \in Pools : slots[p].bytesUsed \in Visited(cells[p])
  BY <1>1, VisitedClosed DEF Init, PoolInit, EmptySlots
<1>3. QED
  BY <1>2 DEF ReachInv, Init, IndexInit

\* Steps that write no unit, move no slot and insert nothing.
LEMMA UntouchedReachInv ==
    ASSUME ReachInv, UNCHANGED <<cells, slots>>, entries' \subseteq entries,
           pc' = "insert" => pc = "insert" /\ UNCHANGED <<writeIdx, req>>,
           pc' \in {"down", "rebuild"} => pc = pc' /\ lost' = lost
    PROVE  ReachInv'
BY DEF ReachInv, OnDisk, UsedHere

LEMMA StartReachInv == TypeInv /\ DiskInv /\ ReachInv /\ Start => ReachInv'
<1> SUFFICES ASSUME TypeInv, DiskInv, ReachInv, Start PROVE ReachInv'
  OBVIOUS
<1>1. /\ cells' = cells /\ lost' = lost /\ entries' = {} /\ pc = "down"
      /\ pc' = "rebuild"
  BY DEF Start, Open, indexVars, DiskInv, Extents
<1>2. \A p \in Pools : slots'[p].bytesUsed = ScanEnd(cells[p])
  BY StartDiskInv, <1>1 DEF DiskInv, Opened
<1>3. \A p \in Pools : slots'[p].bytesUsed \in Visited(cells'[p])
  BY <1>1, <1>2, FileType, ScanEndGreatest
<1>4. QED
  BY <1>1, <1>3 DEF ReachInv, OnDisk

LEMMA RebuildReachInv == TypeInv /\ ReachInv /\ Rebuild => ReachInv'
<1> SUFFICES ASSUME TypeInv, ReachInv, Rebuild PROVE ReachInv'
  OBVIOUS
<1>1. UNCHANGED <<cells, slots>> /\ pc' = "recv"
  BY DEF Rebuild, poolVars, diskVars, memVars
<1>2. \A e \in entries' : e.offset \in Visited(cells[e.pool])
  BY RebuiltEntries DEF RecordOffsets
<1>3. QED
  BY <1>1, <1>2 DEF ReachInv

LEMMA TakeSlotReachInv ==
    ASSUME TypeInv, ReachInv, pc = "append", TakeSlot, UNCHANGED <<entries, pc>>
    PROVE  ReachInv'
<1>1. cells' = cells
  BY DEF TakeSlot, diskVars
<1>2. ASSUME NEW p \in Pools PROVE slots'[p].bytesUsed \in Visited(cells[p])
  <2>1. CASE p = writeIdx
    <3>1. slots'[p].bytesUsed = 0
      BY <2>1 DEF TakeSlot, TypeInv, TypeOK, PoolTypeOK
    <3>2. QED
      BY <3>1, FileType, VisitedClosed
  <2>2. CASE p # writeIdx
    BY <2>2 DEF TakeSlot, TypeInv, TypeOK, PoolTypeOK, ReachInv
  <2>3. QED
    BY <2>1, <2>2
<1>3. QED
  BY <1>1, <1>2 DEF ReachInv

\* A write goes to bytes_used or above: what the scan visits up to there stays.
LEMMA WriteUnitReachInv ==
    ASSUME TypeInv, DiskInv, ReachInv, pc = "append", WriteUnit(req),
           UNCHANGED <<entries, pc>>
    PROVE  ReachInv'
<1>1. /\ slots' = slots /\ writeIdx \in Pools
      /\ slots[writeIdx].bytesUsed \in Nat /\ written \in Nat
      /\ slots[writeIdx].bytesUsed \in Offsets
  BY AppendType, FileType DEF WriteUnit, memVars, TypeInv, TypeOK, PoolTypeOK
<1>2. /\ cells \in [Pools -> [Units -> Cell]]
      /\ cells' \in [Pools -> [Units -> Cell]]
  <2>1. [rec |-> req, unit |-> written] \in Cell
    BY AppendType, <1>1 DEF Cell
  <2>2. QED
    BY <2>1 DEF WriteUnit, TypeInv, TypeOK, PoolTypeOK
<1>3. ASSUME NEW p \in Pools, NEW x \in Visited(cells[p]), x <= slots[p].bytesUsed
      PROVE  x \in Visited(cells'[p])
  <2>1. CASE p # writeIdx
    BY <1>2, <2>1 DEF WriteUnit
  <2>2. CASE p = writeIdx
    <3>1. \A u \in Units :
              u < slots[writeIdx].bytesUsed => cells'[writeIdx][u] = cells[writeIdx][u]
      <4>1. TAKE u \in Units
      <4>2. HAVE u < slots[writeIdx].bytesUsed
      <4>3. u # slots[writeIdx].bytesUsed + written
        BY <1>1, <4>2
      <4>4. QED
        BY <1>1, <1>2, <4>3 DEF WriteUnit
    <3>2. cells[writeIdx] \in [Units -> Cell] /\ cells'[writeIdx] \in [Units -> Cell]
      BY <1>1, <1>2
    <3>3. QED
      BY <1>1, <1>3, <2>2, <3>1, <3>2, ScanPrefix
  <2>3. QED
    BY <2>1, <2>2
<1>4. ASSUME NEW p \in Pools PROVE slots'[p].bytesUsed \in Visited(cells'[p])
  <2>1. /\ slots[p].bytesUsed \in Visited(cells[p])
        /\ slots[p].bytesUsed <= slots[p].bytesUsed
    BY FileType DEF ReachInv
  <2>2. QED
    BY <1>1, <1>3, <2>1
<1>5. ASSUME NEW e \in entries PROVE e.offset \in Visited(cells'[e.pool])
  <2>1. /\ e.pool \in Pools /\ e.offset \in Nat /\ e.size \in Nat
        /\ e.offset + e.size <= slots[e.pool].bytesUsed
    BY EntryType DEF DiskInv, Extents
  <2>2. e.offset <= slots[e.pool].bytesUsed
    BY <2>1, FileType
  <2>3. QED
    BY <2>1, <2>2, <1>3 DEF ReachInv
<1>6. QED
  BY <1>4, <1>5 DEF ReachInv

\* The record is complete: the scan that visits its offset goes on behind it.
LEMMA EndAppendReachInv ==
    TypeInv /\ DiskInv /\ ReachInv /\ EndAppend => ReachInv'
<1> SUFFICES ASSUME TypeInv, DiskInv, ReachInv, EndAppend PROVE ReachInv'
  OBVIOUS
<1> DEFINE b == slots[writeIdx].bytesUsed
<1>1. /\ UNCHANGED <<cells, entries, writeIdx, req>> /\ pc' = "insert"
      /\ slots' = [slots EXCEPT ![writeIdx].bytesUsed = @ + req.size]
      /\ phase = "write" /\ written = req.size
  BY DEF EndAppend, FinishAppend, indexVars, diskVars
<1>2. /\ req \in Record /\ req.size \in Nat \ {0} /\ b \in Nat /\ writeIdx \in Pools
      /\ b + req.size <= Capacity
  BY AppendType, <1>1 DEF EndAppend, TypeInv, Control, UsedHere
<1>3. /\ slots'[writeIdx].bytesUsed = b + req.size
      /\ \A p \in Pools : p # writeIdx => slots'[p] = slots[p]
  BY <1>1, <1>2 DEF TypeInv, TypeOK, PoolTypeOK
<1>4. cells[writeIdx][b] = [rec |-> req, unit |-> 0]
  <2>1. 0 \in 0 .. written - 1 /\ UsedHere + 0 = b
    BY <1>1, <1>2 DEF UsedHere
  <2>2. QED
    BY <2>1, <1>1 DEF DiskInv, InProgress
<1>5. Scannable(cells[writeIdx], b)
  <2>1. [rec |-> req, unit |-> 0] \in [rec : Record, unit : Nat]
    BY <1>2
  <2>2. [rec |-> req, unit |-> 0] # Blank
    BY <2>1, BlankAssumption
  <2>3. b \in Units
    BY <1>2, Constants
  <2>4. QED
    BY <1>2, <1>4, <2>2, <2>3 DEF Scannable
<1>6. b \in Visited(cells[writeIdx])
  BY <1>2 DEF ReachInv
<1>7. b + req.size \in Visited(cells[writeIdx])
  <2>1. b + cells[writeIdx][b].rec.size \in Visited(cells[writeIdx])
    BY <1>2, <1>5, <1>6, FileType, VisitedClosed
  <2>2. QED
    BY <1>4, <2>1
<1> HIDE DEF b
<1>8. \A p \in Pools : slots'[p].bytesUsed \in Visited(cells[p])
  BY <1>3, <1>7 DEF ReachInv
<1>9. slots'[writeIdx].bytesUsed - req.size \in Visited(cells[writeIdx])
  BY <1>2, <1>3, <1>6
<1>10. QED
  BY <1>1, <1>8, <1>9 DEF ReachInv, UsedHere

LEMMA InsertSegmentReachInv ==
    TypeInv /\ ReachInv /\ InsertSegment => ReachInv'
<1> SUFFICES ASSUME TypeInv, ReachInv, InsertSegment PROVE ReachInv'
  OBVIOUS
<1> DEFINE new == Meta(segmentCounter, req.seq, req.cam, AppendedAt(req))
<1>1. /\ entries' = entries \cup {new} /\ pc' = "recv" /\ pc = "insert"
      /\ UNCHANGED <<cells, slots>>
  BY DEF InsertSegment, Insert, poolVars, diskVars, memVars
<1>2. new.pool = writeIdx /\ new.offset = UsedHere - req.size
  BY DEF Meta, AppendedAt, UsedHere
<1> HIDE DEF new
<1>3. new.offset \in Visited(cells[new.pool])
  BY <1>1, <1>2 DEF ReachInv
<1>4. QED
  BY <1>1, <1>3 DEF ReachInv

\* What is indexed is on disk where the scan looks.
LEMMA IndexedOnDisk ==
    ASSUME TypeInv, DiskInv, ReachInv, NEW e \in entries
    PROVE  OnDisk(e)
<1>1. /\ e.pool \in Pools /\ e.offset \in Units /\ e.offset \in Nat
      /\ e.size \in Nat /\ e.offset + 0 = e.offset
  BY EntryType, Constants
<1>2. UnitOf(e, 0) = cells[e.pool][e.offset]
  BY <1>1 DEF UnitOf
<1>3. /\ cells[e.pool][e.offset] # Blank
      /\ cells[e.pool][e.offset].unit = 0
      /\ cells[e.pool][e.offset].rec.seq = e.seq
      /\ cells[e.pool][e.offset].rec.size = e.size
      /\ e.cam \in {cells[e.pool][e.offset].rec.cam,
                    DiskId[cells[e.pool][e.offset].rec.cam]}
  BY <1>2 DEF DiskInv, IndexedHeaders
<1>4. e.offset + e.size <= Capacity
  <2>1. e.offset + e.size <= slots[e.pool].bytesUsed
    BY DEF DiskInv, Extents
  <2>2. QED
    BY <1>1, <2>1, FileType, Constants
<1>5. e.offset \in RecordOffsets(cells[e.pool])
  BY <1>1, <1>3, <1>4 DEF ReachInv, RecordOffsets, Scannable
<1>6. QED
  BY <1>1, <1>3, <1>5 DEF OnDisk

LEMMA CrashReachInv == TypeInv /\ DiskInv /\ ReachInv /\ Crash => ReachInv'
<1> SUFFICES ASSUME TypeInv, DiskInv, ReachInv, Crash PROVE ReachInv'
  OBVIOUS
<1>1. /\ cells' = cells /\ entries' = {} /\ pc' = "down" /\ slots' = EmptySlots
      /\ lost' = IF pc = "rebuild" THEN lost ELSE entries
  BY DEF Crash, Halt, Forget, diskVars
<1>2. \A p \in Pools : slots'[p].bytesUsed \in Visited(cells[p])
  BY <1>1, FileType, VisitedClosed DEF EmptySlots
<1>3. \A e \in lost' : OnDisk(e)
  BY <1>1, IndexedOnDisk DEF ReachInv
<1>4. QED
  BY <1>1, <1>2, <1>3 DEF ReachInv, OnDisk

LEMMA NextReachInv ==
    TypeInv /\ DiskInv /\ ReachInv /\ [Next]_vars => ReachInv'
<1> SUFFICES ASSUME TypeInv, DiskInv, ReachInv, [Next]_vars PROVE ReachInv'
  OBVIOUS
<1> USE DEF poolVars, diskVars, memVars, appendVars, indexVars, writerVars, historyVars
<1>1. CASE Start
  BY <1>1, StartReachInv
<1>2. CASE StartKilled \/ RebuildFails
  BY <1>2, UntouchedReachInv DEF StartKilled, OpenInterrupted, RebuildFails
<1>3. CASE Rebuild
  BY <1>3, RebuildReachInv
<1>4. CASE \E cam \in Cameras, size \in RecordSizes : Send(cam, size)
  BY <1>4, UntouchedReachInv DEF Send
<1>5. CASE Receive \/ CheckStatus \/ Evict
  BY <1>5, UntouchedReachInv DEF Receive, CheckStatus, Evict, EvictPool
<1>6. CASE BeginAppend \/ AppendFails
  BY <1>6, UntouchedReachInv
     DEF BeginAppend, AppendHere, AppendRotate, AppendOversize, AppendFails,
         PoolHeaderFails, WriteFails, Drop
<1>7. CASE ContinueAppend
  <2>1. pc = "append" /\ UNCHANGED <<entries, pc, req, lost>>
    BY <1>7 DEF ContinueAppend
  <2>2. CASE PollReaders \/ StopWaiting \/ WritePoolHeader
    BY <2>1, <2>2, UntouchedReachInv DEF PollReaders, StopWaiting, WritePoolHeader
  <2>3. CASE TakeSlot
    BY <2>1, <2>3, TakeSlotReachInv
  <2>4. CASE WriteUnit(req)
    BY <2>1, <2>4, WriteUnitReachInv
  <2>5. QED
    BY <1>7, <2>2, <2>3, <2>4 DEF ContinueAppend
<1>8. CASE EndAppend
  BY <1>8, EndAppendReachInv
<1>9. CASE InsertSegment
  BY <1>9, InsertSegmentReachInv
<1>10. CASE \E p \in Pools : TakeGuard(p) \/ DropGuard(p)
  BY <1>10, UntouchedReachInv DEF TakeGuard, DropGuard, Acquire, Release
<1>11. CASE Crash
  BY <1>11, CrashReachInv
<1>12. CASE UNCHANGED vars
  BY <1>12, UntouchedReachInv DEF vars
<1>13. QED
  BY <1>1, <1>2, <1>3, <1>4, <1>5, <1>6, <1>7, <1>8, <1>9, <1>10, <1>11, <1>12
     DEF Next, WriterStep

\* The rebuild brings back every segment the dead process had indexed, at its
\* place and with its length, whatever failed or was torn before: no failed
\* append, rotation or stale header ever hides a record of the current lap.
THEOREM RecoveryCompleteHolds == Spec => RecoveryComplete
<1> DEFINE Complete ==
        Rebuild =>
          \A e \in lost : \E f \in entries' :
             /\ f.seq = e.seq /\ f.cam \in {e.cam, DiskId[e.cam]}
             /\ f.pool = e.pool /\ f.offset = e.offset /\ f.size = e.size
<1>1. Init => TypeInv /\ DiskInv /\ ReachInv
  BY InitTypeInv, InitDiskInv, InitReachInv
<1>2. TypeInv /\ DiskInv /\ ReachInv /\ [Next]_vars
        => (TypeInv /\ DiskInv /\ ReachInv)'
  BY NextTypeInv, NextDiskInv, NextReachInv
<1>3. ReachInv => Complete
  <2>1. SUFFICES ASSUME ReachInv, Rebuild, NEW e \in lost
                 PROVE  \E f \in entries' :
                          /\ f.seq = e.seq /\ f.cam \in {e.cam, DiskId[e.cam]}
                          /\ f.pool = e.pool /\ f.offset = e.offset /\ f.size = e.size
    OBVIOUS
  <2>2. OnDisk(e)
    BY <2>1 DEF ReachInv, Rebuild
  <2> DEFINE f == Rebuilt(e.pool, e.offset)
  <2>3. f \in entries'
    BY <2>1, <2>2, RebuiltEntries DEF OnDisk
  <2>4. /\ f.pool = e.pool /\ f.offset = e.offset
        /\ f.seq = cells[e.pool][e.offset].rec.seq
        /\ f.size = cells[e.pool][e.offset].rec.size
        /\ f.cam = DiskId[cells[e.pool][e.offset].rec.cam]
    BY RebuiltFields
  <2>5. f.seq = e.seq /\ f.size = e.size /\ f.cam \in {e.cam, DiskId[e.cam]}
    BY <2>2, <2>4 DEF OnDisk
  <2> HIDE DEF f
  <2>6. QED
    BY <2>3, <2>4, <2>5
<1>4. TypeInv /\ DiskInv /\ ReachInv /\ [Next]_vars => [Complete]_vars
  BY <1>3
<1>5. QED
  BY <1>1, <1>2, <1>4, PTL DEF Spec, RecoveryComplete

-----------------------------------------------------------------------------
\* What comes back is whole. The argument is about the files alone: every record
\* the scan would accept anywhere in a file, those of earlier laps included, has
\* all its units, and bytes_used never lies within such a record.

\* All units of the record at offset o of pool p are its own.
WholeAt(p, o) ==
    \A k \in 0 .. cells[p][o].rec.size - 1 :
        cells[p][o + k] = [rec |-> cells[p][o].rec, unit |-> k]

\* The record that is being written, once its header is there.
BeingWritten(p, o) == PartlyWritten /\ p = writeIdx /\ o = UsedHere

Whole ==
    \A p \in Pools : \A o \in Units :
        Scannable(cells[p], o) => WholeAt(p, o) \/ BeingWritten(p, o)

\* bytes_used does not lie within a record.
Boundary ==
    \A p \in Pools : \A o \in Units :
        Scannable(cells[p], o) /\ o < slots[p].bytesUsed =>
            o + cells[p][o].rec.size <= slots[p].bytesUsed

WholeInv == torn = {} => Whole /\ Boundary

LEMMA InitWholeInv == Init => WholeInv
BY DEF Init, PoolInit, BlankFile, WholeInv, Whole, Boundary, Scannable

\* Steps that write no unit, move no slot and leave no record torn.
LEMMA UntouchedWholeInv ==
    ASSUME WholeInv, UNCHANGED <<cells, slots>>, torn \subseteq torn',
           PartlyWritten =>
                torn' # {} \/ UNCHANGED <<phase, written, req, writeIdx>>
    PROVE  WholeInv'
<1>1. SUFFICES ASSUME torn' = {} PROVE Whole' /\ Boundary'
  BY DEF WholeInv
<1>2. Whole /\ Boundary
  BY <1>1 DEF WholeInv
<1>3. Whole'
  <2>1. SUFFICES ASSUME NEW p \in Pools, NEW o \in Units, Scannable(cells[p], o)
                 PROVE  WholeAt(p, o)' \/ BeingWritten(p, o)'
    BY DEF Whole, Scannable
  <2>2. CASE WholeAt(p, o)
    BY <2>2 DEF WholeAt
  <2>3. CASE BeingWritten(p, o)
    BY <1>1, <2>3 DEF BeingWritten, PartlyWritten, UsedHere
  <2>4. QED
    BY <1>2, <2>1, <2>2, <2>3 DEF Whole
<1>4. Boundary'
  BY <1>2 DEF Boundary, Scannable
<1>5. QED
  BY <1>3, <1>4

\* Nothing is being written outside of append.
LEMMA NothingPartlyWritten ==
    ASSUME TypeInv, pc # "append"
    PROVE  ~PartlyWritten
BY DEF TypeInv, Control, PartlyWritten

\* open puts bytes_used where the scan stops: every unit before lies in a
\* whole record the scan has found, so no other record starts there.
LEMMA StartWholeInv == TypeInv /\ DiskInv /\ WholeInv /\ Start => WholeInv'
<1> SUFFICES ASSUME TypeInv, DiskInv, WholeInv, Start, torn' = {}
             PROVE  Whole' /\ Boundary'
  BY DEF WholeInv
<1>1. /\ cells' = cells /\ torn = {} /\ pc = "down" /\ pc' = "rebuild" /\ phase' = "idle"
  BY DEF Start, Open
<1>2. Whole /\ ~PartlyWritten
  BY <1>1, NothingPartlyWritten DEF WholeInv
<1>3. \A p \in Pools : \A o \in Units : Scannable(cells[p], o) => WholeAt(p, o)
  BY <1>2 DEF Whole, BeingWritten
<1>4. Whole'
  BY <1>1, <1>3 DEF Whole, WholeAt, Scannable
<1>5. \A p \in Pools : slots'[p].bytesUsed = ScanEnd(cells[p])
  BY StartDiskInv, <1>1 DEF DiskInv, Opened
<1>6. ASSUME NEW p \in Pools, NEW o \in Units, Scannable(cells[p], o),
             o < ScanEnd(cells[p])
      PROVE  o + cells[p][o].rec.size <= ScanEnd(cells[p])
  <2>1. cells[p] \in [Units -> Cell] /\ o \in Nat
    BY FileType, Constants
  <2>2. PICK x \in RecordOffsets(cells[p]) :
            x <= o /\ o < x + cells[p][x].rec.size
    BY <1>6, <2>1, ScanCover
  <2>3. /\ x \in Units /\ x \in Nat /\ cells[p][x].rec.size \in Nat
        /\ Scannable(cells[p], x)
    BY <2>1, <2>2, ScannableSize DEF RecordOffsets
  <2>4. x = o
    <3>1. o - x \in 0 .. cells[p][x].rec.size - 1 /\ x + (o - x) = o
      BY <2>1, <2>2, <2>3
    <3>2. cells[p][o] = [rec |-> cells[p][x].rec, unit |-> o - x]
      BY <1>3, <2>3, <3>1 DEF WholeAt
    <3>3. o - x = 0
      BY <1>6, <3>2 DEF Scannable
    <3>4. QED
      BY <2>1, <2>3, <3>3
  <2>5. QED
    BY <2>1, <2>2, <2>4, ScanEndBound
<1>7. Boundary'
  BY <1>1, <1>5, <1>6 DEF Boundary, Scannable
<1>8. QED
  BY <1>4, <1>7

\* A slot is emptied: by rotation, or with the memory of the process.
LEMMA EmptiedWholeInv ==
    ASSUME TypeInv, WholeInv, cells' = cells, torn \subseteq torn',
           PartlyWritten => torn' # {},
           \A p \in Pools : slots'[p] = slots[p] \/ slots'[p].bytesUsed = 0
    PROVE  WholeInv'
<1>1. SUFFICES ASSUME torn' = {} PROVE Whole' /\ Boundary'
  BY DEF WholeInv
<1>2. Whole /\ Boundary /\ ~PartlyWritten
  BY <1>1 DEF WholeInv
<1>3. Whole'
  BY <1>2 DEF Whole, WholeAt, BeingWritten, Scannable
<1>4. Boundary'
  <2>1. \A o \in Units : ~(o < 0)
    BY Constants
  <2>2. QED
    BY <1>2, <2>1 DEF Boundary, Scannable
<1>5. QED
  BY <1>3, <1>4

\* The units of the record in progress, as the scan would see them: the first
\* is its header, none of the others is one.
LEMMA InProgressUnits ==
    ASSUME TypeInv, DiskInv, phase = "write", NEW k \in 0 .. written - 1
    PROVE  /\ cells[writeIdx][UsedHere + k] = [rec |-> req, unit |-> k]
           /\ k # 0 => ~Scannable(cells[writeIdx], UsedHere + k)
<1>1. cells[writeIdx][UsedHere + k] = [rec |-> req, unit |-> k]
  BY DEF DiskInv, InProgress
<1>2. QED
  BY <1>1 DEF Scannable

\* The next unit goes behind what has been written of the record. Only the
\* record that starts at bytes_used can lose a unit to it.
LEMMA WriteUnitWholeInv ==
    ASSUME TypeInv, DiskInv, WholeInv, pc = "append", WriteUnit(req),
           UNCHANGED <<torn, req, pc>>, DiskInv'
    PROVE  WholeInv'
<1>1. SUFFICES ASSUME torn' = {} PROVE Whole' /\ Boundary'
  BY DEF WholeInv
<1>2. Whole /\ Boundary
  BY <1>1 DEF WholeInv
<1>a. PICK w \in Pools : w = writeIdx
  BY AppendType
<1>b. PICK b \in Nat : b = UsedHere /\ b = slots[w].bytesUsed
  BY <1>a, AppendType
<1>3. /\ req \in Record /\ req.size \in Nat \ {0}
      /\ written \in Nat /\ written < req.size
      /\ b + req.size <= Capacity /\ b + written \in Units /\ b \in Units
      /\ phase = "write"
  <2>1. /\ req \in Record /\ req.size \in Nat \ {0}
        /\ written < req.size /\ phase = "write"
    BY AppendType DEF WriteUnit
  <2>2. b + req.size <= Capacity /\ written \in Nat
    BY <1>b, <2>1, Constants DEF TypeInv, Control, TypeOK, PoolTypeOK
  <2>3. b + written \in Units /\ b \in Units
    BY <2>1, <2>2, Constants
  <2>4. QED
    BY <2>1, <2>2, <2>3
<1>4. /\ slots' = slots /\ writeIdx' = w /\ phase' = "write" /\ req' = req
      /\ written' = written + 1 /\ UsedHere' = b
  BY <1>3, <1>a, <1>b DEF WriteUnit, memVars, UsedHere
<1>5. /\ cells \in [Pools -> [Units -> Cell]]
      /\ \A p \in Pools : p # w => cells'[p] = cells[p]
      /\ cells'[w] = [cells[w] EXCEPT ![b + written] = [rec |-> req, unit |-> written]]
  BY <1>3, <1>a, <1>b DEF WriteUnit, TypeInv, TypeOK, PoolTypeOK
<1>6. /\ cells[w] \in [Units -> Cell]
      /\ cells'[w][b + written] = [rec |-> req, unit |-> written]
      /\ \A u \in Units : u # b + written => cells'[w][u] = cells[w][u]
  BY <1>3, <1>5
\* The record at bytes_used is the one in progress, and then complete.
<1>7. ASSUME cells'[w][b].rec = req
      PROVE  WholeAt(w, b)' \/ BeingWritten(w, b)'
  <2>1. CASE written + 1 < req.size
    BY <2>1, <1>3, <1>4 DEF BeingWritten, PartlyWritten
  <2>2. CASE written + 1 = req.size
    <3>1. \A k \in 0 .. req.size - 1 :
              cells'[w][b + k] = [rec |-> req, unit |-> k]
      BY <2>2, <1>4 DEF DiskInv, InProgress
    <3>2. QED
      BY <1>4, <1>7, <3>1 DEF WholeAt
  <2>3. QED
    BY <1>3, <2>1, <2>2
\* A record that lies on one side of the written unit keeps its units.
<1>8. ASSUME NEW o \in Units, Scannable(cells[w], o), o # b,
             \/ o + cells[w][o].rec.size <= b + written
             \/ b + written < o
      PROVE  WholeAt(w, o)'
  <2>1. WholeAt(w, o)
    BY <1>2, <1>b, <1>8 DEF Whole, BeingWritten
  <2>a. /\ o \in Nat /\ cells[w][o].rec.size \in Nat \ {0}
        /\ o < o + cells[w][o].rec.size
    BY <1>6, <1>8, ScannableSize
  <2>b. o + cells[w][o].rec.size <= Capacity
    BY <1>8 DEF Scannable
  <2>c. o # b + written
    BY <1>3, <1>8, <2>a
  <2>2. /\ o \in Nat /\ cells[w][o].rec.size \in Nat \ {0}
        /\ o + cells[w][o].rec.size <= Capacity
        /\ cells'[w][o] = cells[w][o]
    BY <1>6, <2>a, <2>b, <2>c
  <2>3. ASSUME NEW k \in 0 .. cells[w][o].rec.size - 1
        PROVE  cells'[w][o + k] = cells[w][o + k]
    <3>1. o + k \in Units /\ o + k # b + written
      BY <1>3, <1>8, <2>2, Constants
    <3>2. QED
      BY <1>6, <3>1
  <2>4. QED
    BY <1>4, <2>1, <2>2, <2>3 DEF WholeAt
<1>9. ASSUME NEW o \in Units, Scannable(cells'[w], o)
      PROVE  WholeAt(w, o)' \/ BeingWritten(w, o)'
  <2>1. CASE o = b + written
    <3>1. written = 0 /\ cells'[w][b].rec = req /\ o = b
      BY <1>3, <1>6, <1>9, <2>1 DEF Scannable
    <3>2. QED
      BY <3>1, <1>7
  <2>2. CASE o # b + written
    <3>1. Scannable(cells[w], o) /\ o \in Nat
      BY <1>6, <1>9, <2>2, Constants DEF Scannable
    <3>2. CASE o = b
      <4>1. 0 \in 0 .. written - 1
        BY <1>3, <2>2, <3>2
      <4>2. cells[w][b] = [rec |-> req, unit |-> 0]
        BY <1>3, <1>a, <1>b, <4>1 DEF DiskInv, InProgress
      <4>3. cells'[w][b].rec = req
        BY <1>6, <2>2, <3>2, <4>2
      <4>4. QED
        BY <1>7, <3>2, <4>3
    <3>3. CASE o < b
      <4>1. o + cells[w][o].rec.size <= b
        BY <1>2, <1>b, <3>1, <3>3 DEF Boundary
      <4>2. cells[w][o].rec.size \in Nat
        BY <1>6, <3>1, ScannableSize
      <4>3. QED
        BY <1>3, <1>8, <3>1, <3>3, <4>1, <4>2
    <3>4. CASE b < o /\ o < b + written
      <4>1. PICK k \in 0 .. written - 1 : k # 0 /\ b + k = o
        <5>1. o - b \in 0 .. written - 1 /\ o - b # 0 /\ b + (o - b) = o
          BY <1>3, <3>1, <3>4
        <5>2. QED
          BY <5>1
      <4>2. ~Scannable(cells[writeIdx], UsedHere + k)
        BY <1>3, <4>1, InProgressUnits
      <4>3. QED
        BY <1>a, <1>b, <3>1, <4>1, <4>2
    <3>5. CASE b + written < o
      BY <1>3, <1>8, <3>1, <3>5
    <3>6. QED
      BY <1>3, <2>2, <3>1, <3>2, <3>3, <3>4, <3>5
  <2>3. QED
    BY <2>1, <2>2
<1>10. Whole'
  <2>1. ASSUME NEW p \in Pools, NEW o \in Units, Scannable(cells'[p], o), p # w
        PROVE  WholeAt(p, o)'
    <3>1. cells'[p] = cells[p]
      BY <1>5, <2>1
    <3>2. WholeAt(p, o)
      BY <1>2, <1>a, <2>1, <3>1 DEF Whole, BeingWritten
    <3>3. QED
      BY <3>1, <3>2 DEF WholeAt
  <2>2. QED
    BY <1>9, <2>1 DEF Whole, Scannable
<1>11. Boundary'
  <2>1. ASSUME NEW p \in Pools, NEW o \in Units, Scannable(cells'[p], o),
               o < slots[p].bytesUsed
        PROVE  o + cells'[p][o].rec.size <= slots[p].bytesUsed
    <3>1. cells'[p][o] = cells[p][o]
      <4>1. CASE p # w
        BY <1>5, <4>1
      <4>2. CASE p = w
        BY <1>3, <1>6, <2>1, <4>2, <1>b
      <4>3. QED
        BY <4>1, <4>2
    <3>2. Scannable(cells[p], o)
      BY <2>1, <3>1 DEF Scannable
    <3>3. QED
      BY <1>2, <2>1, <3>1, <3>2 DEF Boundary
  <2>2. QED
    BY <1>4, <2>1 DEF Boundary, Scannable
<1>12. QED
  BY <1>10, <1>11

\* bytes_used moves from the start of a complete record to its end.
LEMMA EndAppendWholeInv ==
    TypeInv /\ DiskInv /\ WholeInv /\ EndAppend => WholeInv'
<1> SUFFICES ASSUME TypeInv, DiskInv, WholeInv, EndAppend, torn' = {}
             PROVE  Whole' /\ Boundary'
  BY DEF WholeInv
<1> DEFINE b == slots[writeIdx].bytesUsed
<1>1. /\ UNCHANGED <<cells, writeIdx, req, torn>> /\ pc = "append"
      /\ slots' = [slots EXCEPT ![writeIdx].bytesUsed = @ + req.size]
      /\ phase = "write" /\ written = req.size /\ phase' = "idle"
  BY DEF EndAppend, FinishAppend, diskVars, historyVars
<1>2. /\ req \in Record /\ req.size \in Nat \ {0} /\ b \in Nat
      /\ writeIdx \in Pools /\ UsedHere = b
  BY AppendType, <1>1
<1>3. /\ slots'[writeIdx].bytesUsed = b + req.size
      /\ \A p \in Pools : p # writeIdx => slots'[p] = slots[p]
  BY <1>1, <1>2 DEF TypeInv, TypeOK, PoolTypeOK
<1>4. Whole /\ Boundary /\ ~PartlyWritten
  BY <1>1, <1>2 DEF WholeInv, PartlyWritten
<1>5. Whole'
  BY <1>1, <1>4 DEF Whole, WholeAt, BeingWritten, Scannable
<1>6. ASSUME NEW o \in Units, Scannable(cells[writeIdx], o), o < b + req.size
      PROVE  o + cells[writeIdx][o].rec.size <= b + req.size
  <2>1. o \in Nat /\ cells[writeIdx][o].rec.size \in Nat
    BY <1>2, <1>6, FileType, ScannableSize
  <2>2. CASE o < b
    BY <1>2, <1>4, <1>6, <2>1, <2>2 DEF Boundary
  <2>3. CASE b <= o
    <3>1. o - b \in 0 .. written - 1 /\ b + (o - b) = o
      BY <1>1, <1>2, <1>6, <2>1, <2>3
    <3>2. /\ cells[writeIdx][o] = [rec |-> req, unit |-> o - b]
          /\ o - b # 0 => ~Scannable(cells[writeIdx], o)
      BY <1>1, <1>2, <3>1, InProgressUnits
    <3>3. QED
      BY <1>2, <1>6, <2>1, <3>2
  <2>4. QED
    BY <1>2, <2>1, <2>2, <2>3
<1> HIDE DEF b
<1>7. Boundary'
  BY <1>1, <1>3, <1>4, <1>6 DEF Boundary, Scannable
<1>8. QED
  BY <1>5, <1>7

LEMMA ContinueAppendWholeInv ==
    TypeInv /\ DiskInv /\ WholeInv /\ ContinueAppend => WholeInv'
<1> SUFFICES ASSUME TypeInv, DiskInv, WholeInv, ContinueAppend PROVE WholeInv'
  OBVIOUS
<1>1. pc = "append" /\ UNCHANGED <<torn, req, pc>>
  BY DEF ContinueAppend, writerVars, historyVars
<1>2. CASE PollReaders \/ StopWaiting \/ WritePoolHeader
  <2>1. UNCHANGED <<cells, slots, torn>> /\ ~PartlyWritten
    BY <1>1, <1>2 DEF PollReaders, StopWaiting, WritePoolHeader, PartlyWritten,
                      diskVars, memVars
  <2>2. QED
    BY <2>1, UntouchedWholeInv
<1>3. CASE TakeSlot
  <2>1. cells' = cells /\ torn' = torn /\ ~PartlyWritten
    BY <1>1, <1>3 DEF TakeSlot, PartlyWritten, diskVars
  <2>2. \A p \in Pools : slots'[p] = slots[p] \/ slots'[p].bytesUsed = 0
    BY <1>3 DEF TakeSlot, TypeInv, TypeOK, PoolTypeOK
  <2>3. QED
    BY <2>1, <2>2, EmptiedWholeInv
<1>4. CASE WriteUnit(req)
  BY <1>1, <1>4, ContinueAppendDiskInv, WriteUnitWholeInv
<1>5. QED
  BY <1>2, <1>3, <1>4 DEF ContinueAppend

LEMMA NextWholeInv ==
    TypeInv /\ DiskInv /\ WholeInv /\ [Next]_vars => WholeInv'
<1> SUFFICES ASSUME TypeInv, DiskInv, WholeInv, [Next]_vars PROVE WholeInv'
  OBVIOUS
<1> USE DEF poolVars, diskVars, memVars, appendVars, indexVars, writerVars, historyVars
<1>1. CASE Start
  BY <1>1, StartWholeInv
<1>2. CASE StartKilled
  BY <1>2, UntouchedWholeInv DEF StartKilled, OpenInterrupted
<1>3. CASE Rebuild \/ RebuildFails
  BY <1>3, UntouchedWholeInv DEF Rebuild, RebuildFails
<1>4. CASE \E cam \in Cameras, size \in RecordSizes : Send(cam, size)
  BY <1>4, UntouchedWholeInv DEF Send
<1>5. CASE Receive \/ CheckStatus \/ Evict \/ InsertSegment
  <2>1. UNCHANGED <<cells, slots, torn>> /\ pc # "append"
    BY <1>5 DEF Receive, CheckStatus, Evict, InsertSegment
  <2>2. QED
    BY <2>1, NothingPartlyWritten, UntouchedWholeInv
<1>6. CASE BeginAppend
  <2>1. UNCHANGED <<cells, slots, torn>> /\ ~PartlyWritten
    BY <1>6 DEF BeginAppend, AppendHere, AppendRotate, AppendOversize, PartlyWritten
  <2>2. QED
    BY <2>1, UntouchedWholeInv
<1>7. CASE ContinueAppend
  BY <1>7, ContinueAppendWholeInv
<1>8. CASE EndAppend
  BY <1>8, EndAppendWholeInv
<1>9. CASE AppendFails
  BY <1>9, UntouchedWholeInv DEF AppendFails, PoolHeaderFails, WriteFails
<1>10. CASE \E p \in Pools : TakeGuard(p) \/ DropGuard(p)
  BY <1>10, UntouchedWholeInv DEF TakeGuard, DropGuard, Acquire, Release
<1>11. CASE Crash
  <2>1. cells' = cells /\ torn \subseteq torn' /\ slots' = EmptySlots
    BY <1>11 DEF Crash, Halt
  <2>2. PartlyWritten => torn' # {}
    BY <1>11, NothingPartlyWritten DEF Crash
  <2>3. QED
    BY <2>1, <2>2, EmptiedWholeInv DEF EmptySlots
<1>12. CASE UNCHANGED vars
  BY <1>12, UntouchedWholeInv DEF vars
<1>13. QED
  BY <1>1, <1>2, <1>3, <1>4, <1>5, <1>6, <1>7, <1>8, <1>9, <1>10, <1>11, <1>12
     DEF Next, WriterStep

-----------------------------------------------------------------------------
\* An indexed segment has its header on disk, so it is the record the scan
\* accepts there, and that one is whole.
LEMMA WholeIsIntact ==
    TypeInv /\ DiskInv /\ WholeInv => RecoveredIntact
<1> SUFFICES ASSUME TypeInv, DiskInv, WholeInv, torn = {}, NEW e \in entries
             PROVE  Intact(e)
  BY DEF RecoveredIntact
<1>1. /\ e.pool \in Pools /\ e.offset \in Units /\ e.offset \in Nat
      /\ e.size \in Nat \ {0} /\ e.offset + 0 = e.offset
  BY EntryType, Constants
<1>2. e.offset + e.size <= slots[e.pool].bytesUsed
  BY DEF DiskInv, Extents
<1>3. /\ cells[e.pool][e.offset] # Blank
      /\ cells[e.pool][e.offset].unit = 0
      /\ cells[e.pool][e.offset].rec.seq = e.seq
      /\ cells[e.pool][e.offset].rec.size = e.size
  BY <1>1 DEF DiskInv, IndexedHeaders, UnitOf
<1>4. Scannable(cells[e.pool], e.offset) /\ e.offset < slots[e.pool].bytesUsed
  <2>1. e.offset < slots[e.pool].bytesUsed /\ e.offset + e.size <= Capacity
    BY <1>1, <1>2, FileType, Constants
  <2>2. QED
    BY <1>1, <1>3, <2>1 DEF Scannable
<1>5. WholeAt(e.pool, e.offset)
  BY <1>1, <1>4, FileType DEF WholeInv, Whole, BeingWritten, UsedHere
<1>6. ASSUME NEW k \in 0 .. e.size - 1
      PROVE  /\ UnitOf(e, k) # Blank
             /\ UnitOf(e, k).rec.seq = e.seq
             /\ UnitOf(e, k).unit = k
  <2>1. UnitOf(e, k) = [rec |-> cells[e.pool][e.offset].rec, unit |-> k]
    BY <1>3, <1>5 DEF WholeAt, UnitOf
  <2>2. k \in Nat /\ cells[e.pool][e.offset].rec \in Record
    BY <1>1, <1>4, FileType, ScannableSize
  <2>3. [rec |-> cells[e.pool][e.offset].rec, unit |-> k] # Blank
    BY <2>2, BlankAssumption
  <2>4. QED
    BY <1>3, <2>1, <2>3
<1>7. QED
  BY <1>6 DEF Intact

\* As long as no record was left partly written, every indexed segment is
\* whole, those a scan has recovered included: leftovers of earlier laps of the
\* ring behind the current records come back whole or not at all.
THEOREM RecoveredIntactHolds == Spec => []RecoveredIntact
<1>1. Init => TypeInv /\ DiskInv /\ WholeInv
  BY InitTypeInv, InitDiskInv, InitWholeInv
<1>2. TypeInv /\ DiskInv /\ WholeInv /\ [Next]_vars
        => (TypeInv /\ DiskInv /\ WholeInv)'
  BY NextTypeInv, NextDiskInv, NextWholeInv
<1>3. TypeInv /\ DiskInv /\ WholeInv => RecoveredIntact
  BY WholeIsIntact
<1>4. QED
  BY <1>1, <1>2, <1>3, PTL DEF Spec

==============================================================================
