-------------------------- MODULE GlobalWriterProofs --------------------------
(***************************************************************************)
(* The write path for every value of the constants: types, the control of  *)
(* the writer, where index, memory and disk stand to each other, and what  *)
(* the running process has stored itself.                                  *)
(***************************************************************************)
EXTENDS GlobalWriter, ChunkPoolProofs

USE DEF Pools, Units, Offsets

TypeInv == TypeOK /\ Control

\* The constants, in the form the steps need them.
LEMMA Constants ==
    /\ MaxPools \in Nat \ {0} /\ Capacity \in Nat \ {0}
    /\ RecordSizes \subseteq Nat \ {0}
    /\ MaxWait \in Nat /\ MaxReaders \in Nat
    /\ 0 \in Pools /\ 0 \in Offsets /\ 0 \in 0 .. MaxWait /\ 0 \in 0 .. MaxReaders
BY PoolAssumption

LEMMA DiskIdType == \A c \in Cameras : DiskId[c] \in Cameras
BY PoolAssumption

LEMMA NextPoolType == \A p \in Pools : NextPool(p) \in Pools
BY PoolAssumption DEF NextPool

LEMMA SizeType == \A r \in Record : r.size \in Nat \ {0} /\ r.seq \in Nat \ {0}
BY PoolAssumption DEF Record

LEMMA InitTypeInv == Init => TypeInv
BY Constants DEF Init, PoolInit, IndexInit, TypeInv, TypeOK, Control, PoolTypeOK,
   IndexTypeOK, BlankFile, EmptySlots, NoReaders, Cell, SegmentMeta

-----------------------------------------------------------------------------
\* What a scan finds is well typed.
LEMMA ScanType ==
    ASSUME PoolTypeOK
    PROVE  ScanAllPools \subseteq ScannedRecord
<1>1. ASSUME NEW p \in Pools, NEW o \in RecordOffsets(cells[p])
      PROVE  Recovered(p, o) \in ScannedRecord
  <2>1. cells[p] \in [Units -> Cell] /\ slots[p].poolId \in Nat
    BY DEF PoolTypeOK
  <2>2. o \in Units /\ cells[p][o] # Blank
    BY DEF RecordOffsets, Scannable
  <2>3. cells[p][o].rec \in Record
    BY <2>1, <2>2 DEF Cell
  <2>4. QED
    BY <2>1, <2>2, <2>3, DiskIdType DEF Recovered, ScannedRecord, Record
<1>2. ASSUME NEW r \in ScanAllPools
      PROVE  \E p \in Pools : \E o \in RecordOffsets(cells[p]) : r = Recovered(p, o)
  BY DEF ScanAllPools
<1>3. QED
  BY <1>1, <1>2, Zenon

\* It is a finite set: pool and offset tell the records apart.
LEMMA ScanFinite ==
    ASSUME PoolTypeOK
    PROVE  IsFiniteSet(ScanAllPools)
<1> DEFINE place == [r \in ScanAllPools |-> <<r.pool, r.offset>>]
<1>1. IsFiniteSet(Pools \X Units)
  <2>1. IsFiniteSet(Pools) /\ IsFiniteSet(Units)
    BY FS_Interval, Constants
  <2>2. QED
    BY <2>1, FS_Product
<1>2. place \in [ScanAllPools -> Pools \X Units]
  BY ScanType DEF ScannedRecord
<1>3. \A r, s \in ScanAllPools : place[r] = place[s] => r = s
  <2>1. TAKE r, s \in ScanAllPools
  <2>2. HAVE place[r] = place[s]
  <2>3. r.pool = s.pool /\ r.offset = s.offset
    BY <2>2
  <2>4. \A t \in ScanAllPools : t = Recovered(t.pool, t.offset)
    BY DEF ScanAllPools, Recovered
  <2>5. QED
    BY <2>3, <2>4
<1>4. place \in Injection(ScanAllPools, Pools \X Units)
  BY <1>2, <1>3 DEF Injection, IsInjective
<1> HIDE DEF place
<1>5. QED
  BY <1>1, <1>4, FS_Injection

LEMMA StartTypeInv == TypeInv /\ Start => TypeInv'
<1> SUFFICES ASSUME TypeInv, Start PROVE TypeInv'
  OBVIOUS
<1> USE DEF TypeInv, Start, Open
<1>1. slots' \in [Pools -> [poolId : Nat, bytesUsed : Offsets]]
  <2>1. \A p \in Pools : ScanEnd(cells[p]) \in Offsets
    BY ScanEndBound DEF TypeOK, PoolTypeOK
  <2>2. \A p \in Pools : ReadPoolHeader(p) \in Nat
    BY DEF ReadPoolHeader
  <2>3. \A p \in Pools : p \in Nat
    OBVIOUS
  <2>4. 0 \in Offsets
    BY Constants
  <2>5. \A p \in Pools :
            slots'[p] \in [poolId : Nat, bytesUsed : Offsets]
    <3>1. TAKE p \in Pools
    <3>2. CASE p \in Existing
      BY <3>2, <2>1, <2>2
    <3>3. CASE p \notin Existing
      BY <3>3, <2>3, <2>4
    <3>4. QED
      BY <3>2, <3>3
  <2>6. QED
    BY <2>5
<1>2. writeIdx' \in Pools
  BY Constants, LastWrittenExists
<1>3. header' \in [Pools -> Nat \cup {NoMagic, NoFile}]
  BY DEF TypeOK, PoolTypeOK
<1>4. readers' \in [Pools -> 0 .. MaxReaders]
  BY Constants DEF NoReaders
<1>5. PoolTypeOK'
  BY <1>1, <1>2, <1>3, <1>4 DEF TypeOK, PoolTypeOK
<1>6. TypeOK'
  BY <1>5 DEF TypeOK, IndexTypeOK, indexVars
<1>7. Control'
  BY DEF Control
<1>8. QED
  BY <1>6, <1>7

LEMMA StartKilledTypeInv == TypeInv /\ StartKilled => TypeInv'
<1> SUFFICES ASSUME TypeInv, StartKilled PROVE TypeInv'
  OBVIOUS
<1> USE DEF TypeInv, StartKilled, OpenInterrupted, memVars, appendVars,
            indexVars, writerVars
<1>1. PoolTypeOK'
  BY DEF TypeOK, PoolTypeOK
<1>2. TypeOK'
  BY <1>1 DEF TypeOK, IndexTypeOK
<1>3. Control'
  BY DEF Control, UsedHere
<1>4. QED
  BY <1>2, <1>3

LEMMA RebuildTypeInv == TypeInv /\ Rebuild => TypeInv'
<1> SUFFICES ASSUME TypeInv, Rebuild PROVE TypeInv'
  OBVIOUS
<1> USE DEF TypeInv, Rebuild, poolVars, diskVars, memVars, appendVars
<1>1. PoolTypeOK'
  BY DEF TypeOK, PoolTypeOK
<1>2. IndexTypeOK'
  <2>1. ScanAllPools \subseteq ScannedRecord
    BY ScanType DEF TypeOK
  <2>2. \A T \in SUBSET ScanAllPools : Cardinality(T) \in Nat
    <3>1. TAKE T \in SUBSET ScanAllPools
    <3>2. IsFiniteSet(T)
      BY <3>1, ScanFinite, FS_Subset DEF TypeOK
    <3>3. QED
      BY <3>2, FS_CardinalityType
  <2>3. segmentCounter' \in Nat
    BY <2>2 DEF RebuildFromScanned
  <2>4. \A r \in ScanAllPools :
            Meta(Cardinality({s \in ScanAllPools : ScannedBefore(s, r)}),
                 r.seq, r.cam, r) \in SegmentMeta
    <3>1. TAKE r \in ScanAllPools
    <3>2. Cardinality({s \in ScanAllPools : ScannedBefore(s, r)}) \in Nat
      BY <2>2
    <3>3. QED
      BY <3>2, <2>1 DEF Meta, SegmentMeta, ScannedRecord
  <2>5. entries' \subseteq SegmentMeta
    BY <2>4, Zenon DEF RebuildFromScanned
  <2>6. QED
    BY <2>3, <2>5 DEF IndexTypeOK
<1>3. TypeOK'
  BY <1>1, <1>2 DEF TypeOK
<1>4. Control'
  BY DEF Control, UsedHere
<1>5. QED
  BY <1>3, <1>4

LEMMA RebuildFailsTypeInv == TypeInv /\ RebuildFails => TypeInv'
BY DEF TypeInv, RebuildFails, TypeOK, PoolTypeOK, IndexTypeOK, Control, UsedHere,
   poolVars, diskVars, memVars, appendVars, indexVars

LEMMA SendTypeInv ==
    ASSUME TypeInv, NEW cam \in Cameras, NEW size \in RecordSizes, Send(cam, size)
    PROVE  TypeInv'
<1> USE DEF TypeInv, Send, poolVars, diskVars, memVars, appendVars, indexVars
<1>1. [seq |-> sent + 1, cam |-> cam, size |-> size] \in Record
  BY DEF TypeOK, Record
<1>2. queue' \in Seq(Record)
  BY <1>1 DEF TypeOK
<1>3. TypeOK'
  BY <1>2 DEF TypeOK, PoolTypeOK, IndexTypeOK
<1>4. Control'
  BY DEF Control, UsedHere
<1>5. QED
  BY <1>3, <1>4

LEMMA ReceiveTypeInv == TypeInv /\ Receive => TypeInv'
<1> SUFFICES ASSUME TypeInv, Receive PROVE TypeInv'
  OBVIOUS
<1> USE DEF TypeInv, Receive, poolVars, diskVars, memVars, appendVars, indexVars,
            historyVars
<1>1. req' \in Record /\ queue' \in Seq(Record)
  BY DEF TypeOK
<1>2. TypeOK'
  BY <1>1 DEF TypeOK, PoolTypeOK, IndexTypeOK
<1>3. Control'
  BY <1>1 DEF Control, UsedHere
<1>4. QED
  BY <1>2, <1>3

LEMMA CheckStatusTypeInv == TypeInv /\ CheckStatus => TypeInv'
BY DEF TypeInv, CheckStatus, TypeOK, PoolTypeOK, IndexTypeOK, Control, UsedHere,
   poolVars, diskVars, memVars, appendVars, indexVars, historyVars

LEMMA EvictTypeInv == TypeInv /\ Evict => TypeInv'
BY DEF TypeInv, Evict, EvictPool, TypeOK, PoolTypeOK, IndexTypeOK, Control, UsedHere,
   poolVars, diskVars, memVars, appendVars, historyVars

\* The request that append works on, and the slot it works in.
LEMMA AppendType ==
    ASSUME TypeInv, pc \in {"append", "insert"}
    PROVE  /\ req \in Record /\ req.size \in Nat \ {0}
           /\ writeIdx \in Pools
           /\ slots[writeIdx].poolId \in Nat
           /\ slots[writeIdx].bytesUsed \in Nat
           /\ slots[writeIdx].bytesUsed <= Capacity
           /\ UsedHere = slots[writeIdx].bytesUsed
<1>1. req \in Record /\ req.size \in Nat \ {0}
  BY SizeType DEF TypeInv, Control
<1>2. /\ writeIdx \in Pools
      /\ slots \in [Pools -> [poolId : Nat, bytesUsed : Offsets]]
  BY DEF TypeInv, TypeOK, PoolTypeOK
<1>3. slots[writeIdx].poolId \in Nat /\ slots[writeIdx].bytesUsed \in Offsets
  BY <1>2
<1>4. slots[writeIdx].bytesUsed \in Nat /\ slots[writeIdx].bytesUsed <= Capacity
  BY <1>3, Constants
<1>5. QED
  BY <1>1, <1>2, <1>3, <1>4 DEF UsedHere

\* Replacing a slot by one of its type.
LEMMA SlotUpdate ==
    ASSUME PoolTypeOK, NEW id \in Nat, NEW used \in Offsets,
           slots' = [slots EXCEPT ![writeIdx] = [poolId |-> id, bytesUsed |-> used]]
    PROVE  /\ slots' \in [Pools -> [poolId : Nat, bytesUsed : Offsets]]
           /\ slots'[writeIdx].bytesUsed = used
           /\ slots'[writeIdx].poolId = id
           /\ \A p \in Pools : p # writeIdx => slots'[p] = slots[p]
<1>1. [poolId |-> id, bytesUsed |-> used] \in [poolId : Nat, bytesUsed : Offsets]
  OBVIOUS
<1>2. QED
  BY <1>1 DEF PoolTypeOK

LEMMA BeginAppendTypeInv == TypeInv /\ BeginAppend => TypeInv'
<1> SUFFICES ASSUME TypeInv, BeginAppend PROVE TypeInv'
  OBVIOUS
<1> USE DEF TypeInv, BeginAppend, poolVars, diskVars, memVars, appendVars,
            indexVars, historyVars
<1>0. /\ req \in Record /\ req.size \in Nat \ {0}
      /\ slots[writeIdx].bytesUsed \in Nat
  BY AppendType
<1>1. CASE AppendHere(req) /\ UNCHANGED <<pc, req>>
  <2>1. TypeOK'
    BY <1>1, Constants DEF AppendHere, TypeOK, PoolTypeOK, IndexTypeOK
  <2>2. Control'
    BY <1>0, <1>1, Constants DEF AppendHere, Full, Control, UsedHere
  <2>3. QED
    BY <2>1, <2>2
<1>2. CASE AppendRotate(req) /\ UNCHANGED <<pc, req>>
  <2>1. TypeOK'
    BY <1>2, Constants, NextPoolType
       DEF AppendRotate, TypeOK, PoolTypeOK, IndexTypeOK
  <2>2. Control'
    BY <1>2 DEF AppendRotate, Control, UsedHere
  <2>3. QED
    BY <2>1, <2>2
<1>3. CASE AppendOversize(req) /\ Drop
  BY <1>3 DEF AppendOversize, Drop, TypeOK, PoolTypeOK, IndexTypeOK,
              Control, UsedHere
<1>4. QED
  BY <1>1, <1>2, <1>3

LEMMA ContinueAppendTypeInv == TypeInv /\ ContinueAppend => TypeInv'
<1> SUFFICES ASSUME TypeInv, ContinueAppend PROVE TypeInv'
  OBVIOUS
<1> USE DEF TypeInv, ContinueAppend, diskVars, memVars, indexVars, writerVars,
            historyVars
<1>0. /\ req \in Record /\ req.size \in Nat \ {0}
      /\ writeIdx \in Pools
      /\ slots[writeIdx].poolId \in Nat
      /\ slots[writeIdx].bytesUsed \in Nat
  BY AppendType
<1>1. CASE PollReaders
  <2>1. waited' \in 0 .. MaxWait
    BY <1>1, Constants DEF PollReaders, TypeOK, PoolTypeOK
  <2>2. TypeOK'
    BY <1>1, <2>1 DEF PollReaders, TypeOK, PoolTypeOK, IndexTypeOK
  <2>3. Control'
    BY <1>1 DEF PollReaders, Control, UsedHere
  <2>4. QED
    BY <2>2, <2>3
<1>2. CASE StopWaiting
  BY <1>2 DEF StopWaiting, TypeOK, PoolTypeOK, IndexTypeOK, Control, UsedHere
<1>3. CASE TakeSlot
  <2>1. /\ slots' \in [Pools -> [poolId : Nat, bytesUsed : Offsets]]
        /\ slots'[writeIdx].bytesUsed = 0
    <3>1. slots[writeIdx].poolId + MaxPools \in Nat
      BY <1>0, Constants
    <3>2. QED
      BY <1>3, <3>1, Constants, SlotUpdate DEF TakeSlot, TypeOK
  <2>2. TypeOK'
    BY <1>3, <2>1, Constants DEF TakeSlot, TypeOK, PoolTypeOK, IndexTypeOK
  <2>3. Control'
    BY <1>3, <2>1 DEF TakeSlot, Control, UsedHere
  <2>4. QED
    BY <2>2, <2>3
<1>4. CASE WritePoolHeader
  <2>1. header' \in [Pools -> Nat \cup {NoMagic, NoFile}]
    BY <1>0, <1>4 DEF WritePoolHeader, TypeOK, PoolTypeOK
  <2>2. TypeOK'
    BY <1>4, <2>1, Constants DEF WritePoolHeader, TypeOK, PoolTypeOK, IndexTypeOK
  <2>3. Control'
    BY <1>0, <1>4 DEF WritePoolHeader, Control, UsedHere
  <2>4. QED
    BY <2>2, <2>3
<1>5. CASE WriteUnit(req)
  <2>1. /\ written \in Nat /\ written < req.size
        /\ slots[writeIdx].bytesUsed + req.size <= Capacity
    BY <1>5, Constants DEF WriteUnit, Control, TypeOK, PoolTypeOK, UsedHere
  <2>2. [rec |-> req, unit |-> written] \in Cell
    BY <1>0, <2>1 DEF Cell
  <2>3. cells' \in [Pools -> [Units -> Cell]]
    BY <1>5, <2>2 DEF WriteUnit, TypeOK, PoolTypeOK
  <2>4. written' \in Offsets /\ written' <= req.size
    BY <1>0, <1>5, <2>1, Constants DEF WriteUnit
  <2>5. TypeOK'
    BY <1>5, <2>3, <2>4 DEF WriteUnit, TypeOK, PoolTypeOK, IndexTypeOK
  <2>6. Control'
    BY <1>5, <2>4 DEF WriteUnit, Control, UsedHere
  <2>7. QED
    BY <2>5, <2>6
<1>6. QED
  BY <1>1, <1>2, <1>3, <1>4, <1>5

LEMMA AppendFailsTypeInv == TypeInv /\ AppendFails => TypeInv'
<1> SUFFICES ASSUME TypeInv, AppendFails PROVE TypeInv'
  OBVIOUS
<1> USE DEF TypeInv, AppendFails, Drop, diskVars, memVars, indexVars
<1>1. torn' \subseteq Nat
  BY AppendType, SizeType DEF TypeOK
<1>2. CASE PoolHeaderFails
  <2>1. TypeOK'
    BY <1>1, <1>2 DEF PoolHeaderFails, TypeOK, PoolTypeOK, IndexTypeOK
  <2>2. Control'
    BY <1>2 DEF PoolHeaderFails, Control, UsedHere
  <2>3. QED
    BY <2>1, <2>2
<1>3. CASE WriteFails
  <2>1. TypeOK'
    <3>1. PoolTypeOK'
      BY <1>3, Constants DEF WriteFails, TypeOK, PoolTypeOK
    <3>2. QED
      BY <1>1, <3>1 DEF TypeOK, IndexTypeOK
  <2>2. Control'
    BY <1>3 DEF WriteFails, Control, UsedHere
  <2>3. QED
    BY <2>1, <2>2
<1>4. QED
  BY <1>2, <1>3

LEMMA EndAppendTypeInv == TypeInv /\ EndAppend => TypeInv'
<1> SUFFICES ASSUME TypeInv, EndAppend PROVE TypeInv'
  OBVIOUS
<1> USE DEF TypeInv, EndAppend, FinishAppend, diskVars, indexVars, historyVars
<1>1. /\ req \in Record /\ req.size \in Nat \ {0}
      /\ slots[writeIdx].poolId \in Nat /\ slots[writeIdx].bytesUsed \in Nat
      /\ slots[writeIdx].bytesUsed + req.size <= Capacity
  BY AppendType DEF Control
<1>2. /\ slots' \in [Pools -> [poolId : Nat, bytesUsed : Offsets]]
      /\ slots'[writeIdx].bytesUsed = slots[writeIdx].bytesUsed + req.size
  <2> DEFINE used == slots[writeIdx].bytesUsed + req.size
  <2>1. used \in Offsets
    BY <1>1, Constants
  <2>2. slots' = [slots EXCEPT ![writeIdx] =
                     [poolId |-> slots[writeIdx].poolId, bytesUsed |-> used]]
    <3>1. slots \in [Pools -> [poolId : Nat, bytesUsed : Offsets]]
      BY DEF TypeOK, PoolTypeOK
    <3>2. slots[writeIdx] \in [poolId : Nat, bytesUsed : Offsets]
      BY <3>1, AppendType
    <3>3. [slots[writeIdx] EXCEPT !.bytesUsed = used] =
            [poolId |-> slots[writeIdx].poolId, bytesUsed |-> used]
      BY <3>2
    <3>4. slots' = [slots EXCEPT ![writeIdx] =
                       [slots[writeIdx] EXCEPT !.bytesUsed = used]]
      BY <3>1
    <3>5. QED
      BY <3>3, <3>4
  <2> HIDE DEF used
  <2>3. slots' \in [Pools -> [poolId : Nat, bytesUsed : Offsets]]
        /\ slots'[writeIdx].bytesUsed = used
    BY <1>1, <2>1, <2>2, SlotUpdate DEF TypeOK
  <2>4. QED
    BY <2>3 DEF used
<1>3. TypeOK'
  BY <1>2, Constants DEF TypeOK, PoolTypeOK, IndexTypeOK
<1>4. Control'
  BY <1>1, <1>2 DEF Control, UsedHere
<1>5. QED
  BY <1>3, <1>4

LEMMA InsertSegmentTypeInv == TypeInv /\ InsertSegment => TypeInv'
<1> SUFFICES ASSUME TypeInv, InsertSegment PROVE TypeInv'
  OBVIOUS
<1> USE DEF TypeInv, InsertSegment, Insert, poolVars, diskVars, memVars,
            appendVars, historyVars
<1>1. /\ req \in Record /\ req.size \in Nat \ {0}
      /\ writeIdx \in Pools /\ slots[writeIdx].poolId \in Nat
      /\ slots[writeIdx].bytesUsed - req.size \in Units
  BY AppendType, Constants DEF Control
<1>2. Meta(segmentCounter, req.seq, req.cam, AppendedAt(req)) \in SegmentMeta
  BY <1>1 DEF Meta, AppendedAt, SegmentMeta, Record, TypeOK, IndexTypeOK
<1>3. TypeOK'
  BY <1>2 DEF TypeOK, PoolTypeOK, IndexTypeOK
<1>4. Control'
  BY DEF Control, UsedHere
<1>5. QED
  BY <1>3, <1>4

LEMMA GuardTypeInv ==
    ASSUME TypeInv, NEW p \in Pools, TakeGuard(p) \/ DropGuard(p)
    PROVE  TypeInv'
<1> USE DEF TypeInv, TakeGuard, DropGuard, Acquire, Release, diskVars, appendVars,
            indexVars, writerVars, historyVars
<1>1. readers \in [Pools -> 0 .. MaxReaders] /\ MaxReaders \in Nat
  BY Constants DEF TypeOK, PoolTypeOK
<1>2. readers' \in [Pools -> 0 .. MaxReaders]
  <2>1. CASE TakeGuard(p)
    <3>1. readers[p] + 1 \in 0 .. MaxReaders
      BY <1>1, <2>1
    <3>2. QED
      BY <1>1, <2>1, <3>1
  <2>2. CASE DropGuard(p)
    <3>1. readers[p] - 1 \in 0 .. MaxReaders
      BY <1>1, <2>2
    <3>2. QED
      BY <1>1, <2>2, <3>1
  <2>3. QED
    BY <2>1, <2>2
<1>3. TypeOK'
  BY <1>2 DEF TypeOK, PoolTypeOK, IndexTypeOK
<1>4. Control'
  BY DEF Control, UsedHere
<1>5. QED
  BY <1>3, <1>4

LEMMA CrashTypeInv == TypeInv /\ Crash => TypeInv'
<1> SUFFICES ASSUME TypeInv, Crash PROVE TypeInv'
  OBVIOUS
<1> USE DEF TypeInv, Crash, Halt, Forget, diskVars
<1>1. torn' \subseteq Nat /\ lost' \subseteq SegmentMeta
  BY AppendType, SizeType DEF TypeOK, IndexTypeOK
<1>2. slots' \in [Pools -> [poolId : Nat, bytesUsed : Offsets]]
  BY Constants DEF EmptySlots
<1>3. readers' \in [Pools -> 0 .. MaxReaders]
  BY Constants DEF NoReaders
<1>4. PoolTypeOK'
  BY <1>2, <1>3, Constants DEF TypeOK, PoolTypeOK
<1>5. TypeOK'
  BY <1>1, <1>4 DEF TypeOK, IndexTypeOK
<1>6. Control'
  BY DEF Control
<1>7. QED
  BY <1>5, <1>6

-----------------------------------------------------------------------------
LEMMA NextTypeInv == TypeInv /\ [Next]_vars => TypeInv'
<1> SUFFICES ASSUME TypeInv, [Next]_vars PROVE TypeInv'
  OBVIOUS
<1>1. CASE Start \/ StartKilled \/ Rebuild \/ RebuildFails
  BY <1>1, StartTypeInv, StartKilledTypeInv, RebuildTypeInv, RebuildFailsTypeInv
<1>2. CASE \E cam \in Cameras, size \in RecordSizes : Send(cam, size)
  BY <1>2, SendTypeInv
<1>3. CASE WriterStep
  BY <1>3, ReceiveTypeInv, CheckStatusTypeInv, EvictTypeInv, BeginAppendTypeInv,
     ContinueAppendTypeInv, EndAppendTypeInv, InsertSegmentTypeInv DEF WriterStep
<1>4. CASE AppendFails
  BY <1>4, AppendFailsTypeInv
<1>5. CASE \E p \in Pools : TakeGuard(p) \/ DropGuard(p)
  BY <1>5, GuardTypeInv
<1>6. CASE Crash
  BY <1>6, CrashTypeInv
<1>7. CASE UNCHANGED vars
  BY <1>7 DEF vars, poolVars, diskVars, memVars, appendVars, indexVars, writerVars,
              historyVars, TypeInv, TypeOK, PoolTypeOK, IndexTypeOK, Control,
              UsedHere
<1>8. QED
  BY <1>1, <1>2, <1>3, <1>4, <1>5, <1>6, <1>7 DEF Next

\* Types and the writer's control hold in every reachable state; with them:
\* bytes_used never exceeds the capacity of a pool file and no record is
\* written, or located by the index, outside of it.
THEOREM TypeCorrect == Spec => [](TypeOK /\ Control)
<1>1. Init => TypeInv
  BY InitTypeInv
<1>2. TypeInv /\ [Next]_vars => TypeInv'
  BY NextTypeInv
<1>3. QED
  BY <1>1, <1>2, PTL DEF Spec, TypeInv

-----------------------------------------------------------------------------
\* Where index, memory and disk stand to each other. The rest of the inductive
\* invariant is proved on top of the types.

DiskInv == Extents /\ Opened /\ InProgress /\ IndexedHeaders

LEMMA EntryType ==
    ASSUME TypeInv, NEW e \in entries
    PROVE  /\ e.pool \in Pools /\ e.offset \in Units
           /\ e.size \in Nat \ {0}
BY Constants DEF TypeInv, TypeOK, IndexTypeOK, SegmentMeta

\* A step that leaves the index, the slots, the disk and the writer alone.
LEMMA UntouchedDiskInv ==
    ASSUME DiskInv,
           UNCHANGED <<entries, slots, writeIdx, cells, header, written, phase, pc, req>>
    PROVE  DiskInv'
BY DEF DiskInv, Extents, Opened, InProgress, IndexedHeaders, UsedHere, UnitOf, Full

LEMMA InitDiskInv == Init => DiskInv
BY DEF Init, PoolInit, IndexInit, DiskInv, Extents, Opened, InProgress,
   IndexedHeaders

LEMMA StartDiskInv == TypeInv /\ DiskInv /\ Start => DiskInv'
<1> SUFFICES ASSUME TypeInv, DiskInv, Start PROVE DiskInv'
  OBVIOUS
<1> USE DEF DiskInv, Start, Open, indexVars
<1>1. Extents'
  BY DEF Extents
<1>2. Opened'
  <2>1. \A p \in Pools : header'[p] # NoFile
    BY PoolAssumption DEF Existing
  <2>2. ASSUME NEW p \in Pools PROVE slots'[p].bytesUsed = ScanEnd(cells[p])
    <3>1. CASE p \in Existing
      BY <3>1
    <3>2. CASE p \notin Existing
      <4>1. cells[p] = BlankFile
        BY <3>2 DEF Existing, Opened
      <4>2. QED
        BY <3>2, <4>1, ScanBlank
    <3>3. QED
      BY <3>1, <3>2
  <2>3. QED
    BY <2>1, <2>2 DEF Opened
<1>3. InProgress'
  BY DEF InProgress
<1>4. IndexedHeaders'
  BY DEF Extents, IndexedHeaders
<1>5. QED
  BY <1>1, <1>2, <1>3, <1>4

LEMMA StartKilledDiskInv == TypeInv /\ DiskInv /\ StartKilled => DiskInv'
<1> SUFFICES ASSUME TypeInv, DiskInv, StartKilled PROVE DiskInv'
  OBVIOUS
<1> USE DEF DiskInv, StartKilled, OpenInterrupted, memVars, appendVars, indexVars,
            writerVars
<1>1. Opened'
  <2>1. \A p \in Pools : header'[p] = NoFile => header[p] = NoFile
    BY PoolAssumption
  <2>2. QED
    BY <2>1 DEF Opened
<1>2. Extents' /\ InProgress' /\ IndexedHeaders'
  BY DEF Extents, InProgress, IndexedHeaders, UsedHere, UnitOf, Full
<1>3. QED
  BY <1>1, <1>2

\* The rebuilt index: each entry is a record the scan has found, below the end
\* of the scan, which is the bytes_used that open has computed.
LEMMA RebuildDiskInv == TypeInv /\ DiskInv /\ Rebuild => DiskInv'
<1> SUFFICES ASSUME TypeInv, DiskInv, Rebuild PROVE DiskInv'
  OBVIOUS
<1> USE DEF DiskInv, Rebuild, RebuildFromScanned, poolVars, diskVars, memVars,
            appendVars
<1>1. ASSUME NEW e \in entries'
      PROVE  \E p \in Pools : \E o \in RecordOffsets(cells[p]) : \E n :
                e = Meta(n, Recovered(p, o).seq, Recovered(p, o).cam, Recovered(p, o))
  BY DEF ScanAllPools
<1>2. ASSUME NEW e \in entries'
      PROVE  /\ e.pool \in Pools
             /\ e.offset \in RecordOffsets(cells[e.pool])
             /\ e.seq = cells[e.pool][e.offset].rec.seq
             /\ e.size = cells[e.pool][e.offset].rec.size
             /\ e.cam = DiskId[cells[e.pool][e.offset].rec.cam]
  <2>0. PICK p \in Pools : \E o \in RecordOffsets(cells[p]) : \E n :
            e = Meta(n, Recovered(p, o).seq, Recovered(p, o).cam, Recovered(p, o))
    BY <1>1
  <2>1. PICK o \in RecordOffsets(cells[p]) : \E n :
            e = Meta(n, Recovered(p, o).seq, Recovered(p, o).cam, Recovered(p, o))
    BY <2>0
  <2>2. PICK n :
            e = [id |-> n, seq |-> cells[p][o].rec.seq,
                 cam |-> DiskId[cells[p][o].rec.cam], pool |-> p,
                 poolId |-> slots[p].poolId, offset |-> o,
                 size |-> cells[p][o].rec.size]
    BY <2>1 DEF Meta, Recovered
  <2>3. QED
    BY <2>2
<1>3. ASSUME NEW e \in entries'
      PROVE  /\ e.offset + e.size <= slots[e.pool].bytesUsed
             /\ cells[e.pool][e.offset] # Blank
             /\ cells[e.pool][e.offset].unit = 0
             /\ e.offset \in Units
  <2>1. cells[e.pool] \in [Units -> Cell]
    BY <1>2 DEF TypeInv, TypeOK, PoolTypeOK
  <2>2. e.offset + e.size <= ScanEnd(cells[e.pool])
    BY <1>2, <2>1, ScanEndBound
  <2>3. slots[e.pool].bytesUsed = ScanEnd(cells[e.pool])
    BY <1>2 DEF Opened
  <2>4. QED
    BY <1>2, <2>2, <2>3 DEF RecordOffsets, Scannable
<1>4. phase = "idle"
  BY DEF TypeInv, Control, TypeOK, PoolTypeOK
<1>5. Extents'
  BY <1>3, <1>4 DEF Extents
<1>6. Opened'
  BY DEF Opened
<1>7. InProgress'
  BY <1>4 DEF InProgress
<1>8. IndexedHeaders'
  <2>1. SUFFICES ASSUME NEW e \in entries'
                 PROVE  /\ UnitOf(e, 0)' # Blank
                        /\ UnitOf(e, 0)'.unit = 0
                        /\ UnitOf(e, 0)'.rec.seq = e.seq
                        /\ UnitOf(e, 0)'.rec.size = e.size
                        /\ e.cam \in {UnitOf(e, 0)'.rec.cam,
                                     DiskId[UnitOf(e, 0)'.rec.cam]}
    BY DEF IndexedHeaders
  <2>2. UnitOf(e, 0)' = cells[e.pool][e.offset]
    BY <1>3 DEF UnitOf
  <2>3. QED
    BY <1>2, <1>3, <2>2
<1>9. QED
  BY <1>5, <1>6, <1>7, <1>8

LEMMA RebuildFailsDiskInv == TypeInv /\ DiskInv /\ RebuildFails => DiskInv'
<1> SUFFICES ASSUME TypeInv, DiskInv, RebuildFails PROVE DiskInv'
  OBVIOUS
<1>1. phase = "idle"
  BY DEF RebuildFails, TypeInv, Control, TypeOK, PoolTypeOK
<1>2. QED
  BY <1>1 DEF DiskInv, RebuildFails, Extents, Opened, InProgress, IndexedHeaders,
              UnitOf, poolVars, diskVars, memVars, appendVars, indexVars

LEMMA ReceiveDiskInv == TypeInv /\ DiskInv /\ Receive => DiskInv'
<1> SUFFICES ASSUME TypeInv, DiskInv, Receive PROVE DiskInv'
  OBVIOUS
<1>1. phase = "idle"
  BY DEF Receive, TypeInv, Control, TypeOK, PoolTypeOK
<1>2. QED
  BY <1>1 DEF DiskInv, Receive, Extents, Opened, InProgress, IndexedHeaders,
              UnitOf, poolVars, diskVars, memVars, appendVars, indexVars

LEMMA CheckStatusDiskInv == TypeInv /\ DiskInv /\ CheckStatus => DiskInv'
<1> SUFFICES ASSUME TypeInv, DiskInv, CheckStatus PROVE DiskInv'
  OBVIOUS
<1> USE DEF DiskInv, CheckStatus, poolVars, diskVars, memVars, appendVars, indexVars
<1>1. phase = "idle"
  BY DEF TypeInv, Control, TypeOK, PoolTypeOK
<1>2. (pc = "append")' => ~Full(req)
  <2>1. req.size \in Nat /\ slots[writeIdx].bytesUsed \in Nat
    BY SizeType DEF TypeInv, Control, TypeOK, PoolTypeOK
  <2>2. QED
    BY <2>1, Constants DEF Status, Full
<1>3. Extents'
  BY <1>1, <1>2 DEF Extents, Full
<1>4. Opened' /\ InProgress' /\ IndexedHeaders'
  BY <1>1 DEF Opened, InProgress, IndexedHeaders, UnitOf
<1>5. QED
  BY <1>3, <1>4

LEMMA EvictDiskInv == TypeInv /\ DiskInv /\ Evict => DiskInv'
<1> SUFFICES ASSUME TypeInv, DiskInv, Evict PROVE DiskInv'
  OBVIOUS
<1> USE DEF DiskInv, Evict, EvictPool, Status, poolVars, diskVars, memVars,
            appendVars
<1>1. phase = "idle"
  BY DEF TypeInv, Control, TypeOK, PoolTypeOK
<1>2. Extents'
  BY <1>1 DEF Extents, NextPool
<1>3. Opened' /\ InProgress'
  BY <1>1 DEF Opened, InProgress
<1>4. IndexedHeaders'
  BY DEF IndexedHeaders, UnitOf
<1>5. QED
  BY <1>2, <1>3, <1>4

LEMMA BeginAppendDiskInv == TypeInv /\ DiskInv /\ BeginAppend => DiskInv'
<1> SUFFICES ASSUME TypeInv, DiskInv, BeginAppend PROVE DiskInv'
  OBVIOUS
<1> USE DEF DiskInv, BeginAppend, poolVars, diskVars, memVars, appendVars,
            indexVars
<1>1. CASE AppendHere(req) /\ UNCHANGED <<pc, req>>
  <2>1. /\ UNCHANGED <<header, cells, slots, writeIdx, entries, pc, req>>
        /\ pc = "append" /\ phase' = "write" /\ written' = 0
    BY <1>1 DEF AppendHere
  <2>2. Extents' /\ Opened'
    BY <2>1 DEF Extents, Opened
  <2>3. InProgress'
    BY <2>1 DEF InProgress
  <2>4. IndexedHeaders'
    BY <2>1 DEF IndexedHeaders, UnitOf
  <2>5. QED
    BY <2>2, <2>3, <2>4
<1>2. CASE AppendRotate(req) /\ UNCHANGED <<pc, req>>
  BY <1>2 DEF AppendRotate, Extents, Opened, InProgress, IndexedHeaders, UnitOf
<1>3. CASE AppendOversize(req) /\ Drop
  BY <1>3 DEF AppendOversize, Drop, Extents, Opened, InProgress, IndexedHeaders,
              UnitOf
<1>4. QED
  BY <1>1, <1>2, <1>3

\* A write never touches a unit of an indexed segment: it goes to bytes_used
\* or above, and indexed segments end there or before.
LEMMA WriteUnitKeepsEntries ==
    ASSUME TypeInv, Extents, pc = "append", WriteUnit(req),
           NEW e \in entries, NEW k \in 0 .. e.size - 1
    PROVE  UnitOf(e, k)' = UnitOf(e, k)
<1>1. /\ e.pool \in Pools /\ e.offset \in Nat /\ k \in Nat /\ k < e.size
      /\ e.size \in Nat
  BY EntryType
<1>2. /\ e.offset + e.size <= slots[e.pool].bytesUsed
      /\ slots[writeIdx].bytesUsed \in Nat /\ written \in Nat
  BY AppendType DEF Extents, TypeInv, TypeOK, PoolTypeOK
<1>3. cells' = [cells EXCEPT ![writeIdx] =
                  [cells[writeIdx] EXCEPT ![slots[writeIdx].bytesUsed + written] =
                      [rec |-> req, unit |-> written]]]
  BY DEF WriteUnit
<1>4. cells'[e.pool][e.offset + k] = cells[e.pool][e.offset + k]
  <2>1. CASE e.pool # writeIdx
    BY <1>3, <2>1
  <2>2. CASE e.pool = writeIdx
    <3>1. e.offset + k # slots[writeIdx].bytesUsed + written
      BY <1>1, <1>2, <2>2
    <3>2. cells'[writeIdx] =
            [cells[writeIdx] EXCEPT ![slots[writeIdx].bytesUsed + written] =
                [rec |-> req, unit |-> written]]
      BY <1>1, <1>3, <2>2 DEF TypeInv, TypeOK, PoolTypeOK
    <3>3. QED
      BY <2>2, <3>1, <3>2
  <2>3. QED
    BY <2>1, <2>2
<1>5. QED
  BY <1>4 DEF UnitOf

LEMMA WriteUnitDiskInv ==
    ASSUME TypeInv, DiskInv, pc = "append", WriteUnit(req),
           UNCHANGED <<entries, pc, req>>
    PROVE  DiskInv'
<1> USE DEF DiskInv, WriteUnit, memVars
<1>1. Extents'
  BY DEF Extents
<1>2. Opened'
  <2>1. \A p \in Pools : header'[p] # NoFile
    BY DEF Opened
  <2>2. QED
    BY <2>1 DEF Opened
<1>3. InProgress'
  <2>1. /\ written \in Nat /\ slots[writeIdx].bytesUsed \in Nat
        /\ req.size \in Nat /\ writeIdx \in Pools
        /\ slots[writeIdx].bytesUsed + req.size <= Capacity /\ written < req.size
    BY AppendType DEF TypeInv, Control, TypeOK, PoolTypeOK
  <2>2. slots[writeIdx].bytesUsed + written \in Units
    BY <2>1, Constants
  <2>3. cells[writeIdx] \in [Units -> Cell] /\ cells \in [Pools -> [Units -> Cell]]
    BY <2>1 DEF TypeInv, TypeOK, PoolTypeOK
  <2>4. cells'[writeIdx] =
            [cells[writeIdx] EXCEPT ![slots[writeIdx].bytesUsed + written] =
                [rec |-> req, unit |-> written]]
    BY <2>1, <2>3
  <2>5. ASSUME NEW k \in 0 .. written
        PROVE  cells'[writeIdx][slots[writeIdx].bytesUsed + k] =
                    [rec |-> req, unit |-> k]
    <3>1. CASE k = written
      BY <2>2, <2>3, <2>4, <3>1
    <3>2. CASE k < written
      <4>1. k \in 0 .. written - 1
        BY <2>1, <3>2
      <4>2. cells[writeIdx][slots[writeIdx].bytesUsed + k] = [rec |-> req, unit |-> k]
        BY <4>1 DEF InProgress, UsedHere
      <4>3. slots[writeIdx].bytesUsed + k # slots[writeIdx].bytesUsed + written
        BY <2>1, <3>2
      <4>4. /\ slots[writeIdx].bytesUsed + k \in Nat
            /\ slots[writeIdx].bytesUsed + k < Capacity
        BY <2>1, <4>1, Constants
      <4>5. slots[writeIdx].bytesUsed + k \in Units
        BY <4>4, Constants
      <4>6. QED
        BY <2>3, <2>4, <4>2, <4>3, <4>5
    <3>3. QED
      BY <2>1, <3>1, <3>2
  <2>6. written' - 1 = written
    BY <2>1
  <2>7. QED
    BY <2>5, <2>6 DEF InProgress, UsedHere
<1>4. IndexedHeaders'
  <2>1. ASSUME NEW e \in entries PROVE UnitOf(e, 0)' = UnitOf(e, 0)
    <3>1. 0 \in 0 .. e.size - 1
      BY EntryType
    <3>2. QED
      BY <3>1, WriteUnitKeepsEntries
  <2>2. QED
    BY <2>1 DEF IndexedHeaders
<1>5. QED
  BY <1>1, <1>2, <1>3, <1>4

LEMMA ContinueAppendDiskInv == TypeInv /\ DiskInv /\ ContinueAppend => DiskInv'
<1> SUFFICES ASSUME TypeInv, DiskInv, ContinueAppend PROVE DiskInv'
  OBVIOUS
<1> USE DEF DiskInv, ContinueAppend, diskVars, memVars, indexVars, writerVars
<1>1. CASE PollReaders
  BY <1>1, UntouchedDiskInv DEF PollReaders
<1>2. CASE StopWaiting
  BY <1>2 DEF StopWaiting, Extents, Opened, InProgress, IndexedHeaders, UnitOf
<1>3. CASE TakeSlot
  <2>1. \A e \in entries : slots'[e.pool] = slots[e.pool]
    <3>1. \A e \in entries : e.pool \in Pools /\ e.pool # writeIdx
      BY <1>3, EntryType DEF TakeSlot, Extents
    <3>2. QED
      BY <1>3, <3>1 DEF TakeSlot, TypeInv, TypeOK, PoolTypeOK
  <2>2. Extents'
    BY <1>3, <2>1 DEF TakeSlot, Extents
  <2>3. Opened' /\ InProgress' /\ IndexedHeaders'
    BY <1>3 DEF TakeSlot, Opened, InProgress, IndexedHeaders, UnitOf
  <2>4. QED
    BY <2>2, <2>3
<1>4. CASE WritePoolHeader
  <2>1. slots[writeIdx].poolId \in Nat /\ writeIdx \in Pools
    BY AppendType
  <2>2. \A p \in Pools : header'[p] # NoFile
    BY <1>4, <2>1, PoolAssumption DEF WritePoolHeader, Opened, TypeInv, TypeOK,
                                      PoolTypeOK
  <2>3. Opened'
    BY <1>4, <2>2 DEF WritePoolHeader, Opened
  <2>4. Extents'
    BY <1>4 DEF WritePoolHeader, Extents
  <2>5. InProgress'
    BY <1>4 DEF WritePoolHeader, InProgress
  <2>6. IndexedHeaders'
    BY <1>4 DEF WritePoolHeader, IndexedHeaders, UnitOf
  <2>7. QED
    BY <2>3, <2>4, <2>5, <2>6
<1>5. CASE WriteUnit(req)
  BY <1>5, WriteUnitDiskInv
<1>6. QED
  BY <1>1, <1>2, <1>3, <1>4, <1>5

LEMMA AppendFailsDiskInv == TypeInv /\ DiskInv /\ AppendFails => DiskInv'
<1> SUFFICES ASSUME TypeInv, DiskInv, AppendFails PROVE DiskInv'
  OBVIOUS
<1>1. CASE PoolHeaderFails
  <2>1. \A p \in Pools : header'[p] # NoFile
    <3>1. /\ header \in [Pools -> Nat \cup {NoMagic, NoFile}]
          /\ slots[writeIdx].poolId \in Nat /\ pc # "down"
      BY <1>1, AppendType DEF AppendFails, TypeInv, TypeOK, PoolTypeOK
    <3>2. \A p \in Pools : header[p] # NoFile
      BY <3>1 DEF DiskInv, Opened
    <3>3. QED
      BY <1>1, <3>1, <3>2, PoolAssumption DEF PoolHeaderFails
  <2>2. Opened'
    BY <1>1, <2>1 DEF PoolHeaderFails, AppendFails, Drop, Opened
  <2>3. Extents' /\ InProgress' /\ IndexedHeaders'
    BY <1>1 DEF DiskInv, AppendFails, PoolHeaderFails, Drop, Extents, InProgress,
                IndexedHeaders, UnitOf, memVars, indexVars
  <2>4. QED
    BY <2>2, <2>3 DEF DiskInv
<1>2. CASE WriteFails
  BY <1>2 DEF DiskInv, AppendFails, WriteFails, Drop, Extents, Opened, InProgress,
              IndexedHeaders, UnitOf, diskVars, memVars, indexVars
<1>3. QED
  BY <1>1, <1>2 DEF AppendFails

LEMMA EndAppendDiskInv == TypeInv /\ DiskInv /\ EndAppend => DiskInv'
<1> SUFFICES ASSUME TypeInv, DiskInv, EndAppend PROVE DiskInv'
  OBVIOUS
<1> USE DEF DiskInv, EndAppend, FinishAppend, diskVars, indexVars
<1>1. /\ req.size \in Nat /\ slots[writeIdx].bytesUsed \in Nat
      /\ writeIdx \in Pools
  BY AppendType
<1>2. /\ slots'[writeIdx].bytesUsed = slots[writeIdx].bytesUsed + req.size
      /\ \A p \in Pools : p # writeIdx => slots'[p] = slots[p]
  BY <1>1 DEF TypeInv, TypeOK, PoolTypeOK
<1>3. Extents'
  <2>1. ASSUME NEW e \in entries
        PROVE  e.offset + e.size <= slots'[e.pool].bytesUsed
    <3>1. /\ e.pool \in Pools /\ e.offset \in Nat /\ e.size \in Nat
          /\ e.offset + e.size <= slots[e.pool].bytesUsed
      BY EntryType DEF Extents
    <3>2. QED
      BY <1>1, <1>2, <3>1
  <2>2. QED
    BY <2>1 DEF Extents
<1>4. Opened'
  BY DEF Opened
<1>5. InProgress'
  <2>1. \A k \in 0 .. req.size - 1 :
            cells[writeIdx][slots[writeIdx].bytesUsed + k] = [rec |-> req, unit |-> k]
    BY DEF InProgress, UsedHere
  <2>2. slots'[writeIdx].bytesUsed - req.size = slots[writeIdx].bytesUsed
    BY <1>1, <1>2
  <2>3. QED
    BY <2>1, <2>2 DEF InProgress, UsedHere
<1>6. IndexedHeaders'
  BY DEF IndexedHeaders, UnitOf
<1>7. QED
  BY <1>3, <1>4, <1>5, <1>6

LEMMA InsertSegmentDiskInv == TypeInv /\ DiskInv /\ InsertSegment => DiskInv'
<1> SUFFICES ASSUME TypeInv, DiskInv, InsertSegment PROVE DiskInv'
  OBVIOUS
<1> USE DEF DiskInv, InsertSegment, Insert, poolVars, diskVars, memVars, appendVars
<1> DEFINE new == Meta(segmentCounter, req.seq, req.cam, AppendedAt(req))
<1>1. /\ req.size \in Nat \ {0} /\ slots[writeIdx].bytesUsed \in Nat
      /\ req.size <= slots[writeIdx].bytesUsed
  BY AppendType DEF TypeInv, Control
<1>2. /\ new.pool = writeIdx /\ new.size = req.size /\ new.seq = req.seq
      /\ new.cam = req.cam
      /\ new.offset = slots[writeIdx].bytesUsed - req.size
  BY DEF Meta, AppendedAt
<1>3. phase = "idle"
  BY DEF TypeInv, Control, TypeOK, PoolTypeOK
<1>4. entries' = entries \cup {new}
  OBVIOUS
<1> HIDE DEF new
<1>5. Extents'
  BY <1>1, <1>2, <1>3, <1>4 DEF Extents
<1>6. Opened' /\ InProgress'
  BY <1>3 DEF Opened, InProgress
<1>7. IndexedHeaders'
  <2>1. cells[writeIdx][slots[writeIdx].bytesUsed - req.size + 0] =
            [rec |-> req, unit |-> 0]
    BY <1>1 DEF InProgress, UsedHere
  <2>2. UnitOf(new, 0) = [rec |-> req, unit |-> 0]
    BY <1>2, <2>1 DEF UnitOf
  <2>3. UnitOf(new, 0) # Blank
    <3>1. [rec |-> req, unit |-> 0] \in [rec : Record, unit : Nat]
      BY AppendType
    <3>2. QED
      BY <2>2, <3>1, BlankAssumption
  <2>4. \A e \in entries' : UnitOf(e, 0)' = UnitOf(e, 0)
    BY DEF UnitOf
  <2>5. QED
    BY <1>2, <1>4, <2>2, <2>3, <2>4 DEF IndexedHeaders
<1>8. QED
  BY <1>5, <1>6, <1>7

LEMMA CrashDiskInv == TypeInv /\ DiskInv /\ Crash => DiskInv'
<1> SUFFICES ASSUME TypeInv, DiskInv, Crash PROVE DiskInv'
  OBVIOUS
<1>1. QED
  BY DEF DiskInv, Crash, Halt, Forget, Extents, Opened, InProgress, IndexedHeaders,
         diskVars

LEMMA NextDiskInv == TypeInv /\ DiskInv /\ [Next]_vars => DiskInv'
<1> SUFFICES ASSUME TypeInv, DiskInv, [Next]_vars PROVE DiskInv'
  OBVIOUS
<1>1. CASE Start \/ StartKilled \/ Rebuild \/ RebuildFails
  BY <1>1, StartDiskInv, StartKilledDiskInv, RebuildDiskInv, RebuildFailsDiskInv
<1>2. CASE \E cam \in Cameras, size \in RecordSizes : Send(cam, size)
  BY <1>2, UntouchedDiskInv DEF Send, poolVars, diskVars, memVars, appendVars,
                                indexVars
<1>3. CASE WriterStep
  BY <1>3, ReceiveDiskInv, CheckStatusDiskInv, EvictDiskInv, BeginAppendDiskInv,
     ContinueAppendDiskInv, EndAppendDiskInv, InsertSegmentDiskInv DEF WriterStep
<1>4. CASE AppendFails
  BY <1>4, AppendFailsDiskInv
<1>5. CASE \E p \in Pools : TakeGuard(p) \/ DropGuard(p)
  BY <1>5, UntouchedDiskInv DEF TakeGuard, DropGuard, Acquire, Release, diskVars,
                                appendVars, indexVars, writerVars
<1>6. CASE Crash
  BY <1>6, CrashDiskInv
<1>7. CASE UNCHANGED vars
  BY <1>7, UntouchedDiskInv DEF vars, poolVars, diskVars, memVars, appendVars,
                                indexVars, writerVars
<1>8. QED
  BY <1>1, <1>2, <1>3, <1>4, <1>5, <1>6, <1>7 DEF Next

\* An entry of the index never points into another record: whatever rotations,
\* failed appends, crashes and rebuilds have happened, the header at its
\* location is that of its own segment.
THEOREM IndexedHeadersHold == Spec => []IndexedHeaders
<1>1. Init => TypeInv /\ DiskInv
  BY InitTypeInv, InitDiskInv
<1>2. TypeInv /\ DiskInv /\ [Next]_vars => (TypeInv /\ DiskInv)'
  BY NextTypeInv, NextDiskInv
<1>3. TypeInv /\ DiskInv => IndexedHeaders
  BY DEF DiskInv
<1>4. QED
  BY <1>1, <1>2, <1>3, PTL DEF Spec

-----------------------------------------------------------------------------
\* What the running process has stored stays whole: the units of every indexed
\* segment of the session are on disk.

SessionInv == Numbered /\ SessionIntact

\* The requests on the channel.
LEMMA QueueType ==
    ASSUME TypeInv
    PROVE  /\ queue \in Seq(Record)
           /\ sent \in Nat /\ session \in Nat
           /\ \A i \in 1 .. Len(queue) : queue[i] \in Record
BY DEF TypeInv, TypeOK

LEMMA EntryUnits ==
    ASSUME TypeInv, Extents, NEW e \in entries, NEW k \in 0 .. e.size - 1
    PROVE  e.pool \in Pools /\ e.offset + k \in Units
<1>1. /\ e.pool \in Pools /\ e.offset \in Nat /\ e.size \in Nat
      /\ k \in Nat /\ k < e.size
  BY EntryType
<1>2. e.offset + e.size <= slots[e.pool].bytesUsed
  BY DEF Extents
<1>3. slots[e.pool].bytesUsed \in Nat /\ slots[e.pool].bytesUsed <= Capacity
  <2>1. slots[e.pool].bytesUsed \in Offsets
    BY <1>1 DEF TypeInv, TypeOK, PoolTypeOK
  <2>2. QED
    BY <2>1, Constants
<1>4. e.offset + k \in Nat /\ e.offset + k < Capacity
  BY <1>1, <1>2, <1>3, Constants
<1>5. QED
  BY <1>1, <1>4, Constants

\* Steps that leave the disk and the numbering alone, and insert nothing.
LEMMA UntouchedSessionInv ==
    ASSUME SessionInv, UNCHANGED <<cells, session, sent>>, entries' \subseteq entries,
           queue' = queue \/ queue' = <<>>, req' = req \/ req' = <<>>,
           pc' = "down" => queue' = <<>> /\ req' = <<>>,
           pc' = "rebuild" => pc = "rebuild"
    PROVE  SessionInv'
<1>1. Numbered'
  BY DEF SessionInv, Numbered
<1>2. SessionIntact'
  BY DEF SessionInv, SessionIntact, Intact, UnitOf
<1>3. QED
  BY <1>1, <1>2 DEF SessionInv

LEMMA InitSessionInv == Init => SessionInv
BY DEF Init, PoolInit, IndexInit, BlankFile, SessionInv, Numbered, SessionIntact

LEMMA StartSessionInv == TypeInv /\ DiskInv /\ SessionInv /\ Start => SessionInv'
<1> SUFFICES ASSUME TypeInv, DiskInv, SessionInv, Start PROVE SessionInv'
  OBVIOUS
<1>1. entries' = {} /\ queue' = <<>> /\ req' = <<>>
  BY DEF Start, DiskInv, Extents, SessionInv, Numbered, indexVars
<1>2. cells' = cells /\ sent' = sent /\ session' = sent
  BY DEF Start, Open
<1>3. Numbered'
  BY <1>1, <1>2, QueueType DEF SessionInv, Numbered
<1>4. SessionIntact'
  BY <1>1 DEF SessionIntact
<1>5. QED
  BY <1>3, <1>4 DEF SessionInv

LEMMA RebuildSessionInv == TypeInv /\ SessionInv /\ Rebuild => SessionInv'
<1> SUFFICES ASSUME TypeInv, SessionInv, Rebuild PROVE SessionInv'
  OBVIOUS
<1>1. Numbered'
  BY DEF Rebuild, SessionInv, Numbered, poolVars, diskVars
<1>2. \A e \in entries' : e.seq <= session
  <2>1. ASSUME NEW e \in entries' PROVE e.seq <= session
    <3>1. PICK r \in ScanAllPools : e.seq = r.seq
      <4>1. PICK r \in ScanAllPools : \E n : e = Meta(n, r.seq, r.cam, r)
        BY DEF Rebuild, RebuildFromScanned
      <4>2. e.seq = r.seq
        BY <4>1 DEF Meta
      <4>3. QED
        BY <4>1, <4>2
    <3>2. PICK p \in Pools : \E o \in RecordOffsets(cells[p]) : r = Recovered(p, o)
      BY <3>1 DEF ScanAllPools
    <3>3. PICK o \in RecordOffsets(cells[p]) : r = Recovered(p, o)
      BY <3>2
    <3>4. o \in Units /\ cells[p][o] # Blank
      BY <3>3 DEF RecordOffsets, Scannable
    <3>5. r.seq = cells[p][o].rec.seq
      BY <3>3 DEF Recovered
    <3>6. QED
      BY <3>1, <3>4, <3>5 DEF Rebuild, SessionInv, Numbered
  <2>2. QED
    BY <2>1
<1>3. SessionIntact'
  <2>1. session' = session /\ session \in Nat
    BY QueueType DEF Rebuild
  <2>2. \A e \in entries' : e.seq \in Nat
    BY RebuildTypeInv DEF TypeInv, TypeOK, IndexTypeOK, SegmentMeta
  <2>3. QED
    BY <1>2, <2>1, <2>2 DEF SessionIntact
<1>4. QED
  BY <1>1, <1>3 DEF SessionInv

LEMMA SendSessionInv ==
    ASSUME TypeInv, SessionInv, NEW cam \in Cameras, NEW size \in RecordSizes,
           Send(cam, size)
    PROVE  SessionInv'
<1> DEFINE r == [seq |-> sent + 1, cam |-> cam, size |-> size]
<1>1. /\ queue' = Append(queue, r) /\ sent' = sent + 1 /\ sent \in Nat
      /\ session' = session /\ session \in Nat /\ queue \in Seq(Record)
      /\ cells' = cells /\ entries' = entries /\ req' = req /\ pc' = pc /\ pc # "down"
  BY QueueType DEF Send, poolVars, diskVars, indexVars
<1>2. r.seq = sent + 1 /\ r \in Record
  BY <1>1 DEF Record
<1> HIDE DEF r
<1>3. \A i \in 1 .. Len(queue') : queue'[i].seq \in session' + 1 .. sent'
  <2>1. ASSUME NEW i \in 1 .. Len(queue') PROVE queue'[i].seq \in session' + 1 .. sent'
    <3>1. CASE i \in 1 .. Len(queue)
      <4>1. queue'[i] = queue[i] /\ queue[i].seq \in session + 1 .. sent
        BY <1>1, <1>2, <3>1 DEF SessionInv, Numbered
      <4>2. QED
        BY <1>1, <4>1
    <3>2. CASE i = Len(queue) + 1
      <4>1. queue'[i] = r /\ session <= sent
        BY <1>1, <1>2, <3>2 DEF SessionInv, Numbered
      <4>2. QED
        BY <1>1, <1>2, <4>1
    <3>3. QED
      BY <1>1, <1>2, <3>1, <3>2
  <2>2. QED
    BY <2>1
<1>4. \A p \in Pools, u \in Units :
          cells[p][u] # Blank => cells[p][u].rec.seq <= sent'
  <2>1. ASSUME NEW p \in Pools, NEW u \in Units, cells[p][u] # Blank
        PROVE  cells[p][u].rec.seq <= sent'
    <3>1. cells[p][u] \in Cell
      <4>1. cells \in [Pools -> [Units -> Cell]]
        BY DEF TypeInv, TypeOK, PoolTypeOK
      <4>2. QED
        BY <4>1
    <3>2. cells[p][u].rec.seq \in Nat
      BY <2>1, <3>1 DEF Cell, Record
    <3>3. cells[p][u].rec.seq <= sent
      BY <2>1 DEF SessionInv, Numbered
    <3>4. QED
      BY <1>1, <3>2, <3>3
  <2>2. QED
    BY <2>1
<1>5. Numbered'
  <2>1. req' # <<>> => req'.seq \in session' + 1 .. sent'
    BY <1>1 DEF SessionInv, Numbered
  <2>2. session' <= sent'
    BY <1>1 DEF SessionInv, Numbered
  <2>3. QED
    BY <1>1, <1>3, <1>4, <2>1, <2>2 DEF SessionInv, Numbered
<1>6. SessionIntact'
  BY <1>1 DEF SessionInv, SessionIntact, Intact, UnitOf
<1>7. QED
  BY <1>5, <1>6 DEF SessionInv

LEMMA ReceiveSessionInv == TypeInv /\ SessionInv /\ Receive => SessionInv'
<1> SUFFICES ASSUME TypeInv, SessionInv, Receive PROVE SessionInv'
  OBVIOUS
<1>1. /\ queue \in Seq(Record) /\ queue # <<>>
      /\ req' = Head(queue) /\ queue' = Tail(queue)
      /\ UNCHANGED <<cells, entries, session, sent>>
      /\ pc' = "status"
  BY QueueType DEF Receive, poolVars, diskVars, indexVars, historyVars
<1>2. req'.seq \in session + 1 .. sent
  <2>1. Head(queue) = queue[1] /\ 1 \in 1 .. Len(queue)
    BY <1>1
  <2>2. QED
    BY <1>1, <2>1 DEF SessionInv, Numbered
<1>3. \A i \in 1 .. Len(queue') : queue'[i].seq \in session + 1 .. sent
  <2>1. \A i \in 1 .. Len(queue') : queue'[i] = queue[i + 1] /\ i + 1 \in 1 .. Len(queue)
    BY <1>1
  <2>2. QED
    BY <2>1 DEF SessionInv, Numbered
<1>4. Numbered'
  BY <1>1, <1>2, <1>3 DEF SessionInv, Numbered
<1>5. SessionIntact'
  BY <1>1 DEF SessionInv, SessionIntact, Intact, UnitOf
<1>6. QED
  BY <1>4, <1>5 DEF SessionInv

LEMMA WriteUnitSessionInv ==
    ASSUME TypeInv, DiskInv, SessionInv, pc = "append", WriteUnit(req),
           UNCHANGED <<indexVars, writerVars, historyVars>>
    PROVE  SessionInv'
<1>1. /\ req \in Record /\ writeIdx \in Pools
      /\ cells \in [Pools -> [Units -> Cell]]
      /\ UNCHANGED <<entries, session, sent, queue, req, pc>>
  BY AppendType DEF TypeInv, TypeOK, PoolTypeOK, indexVars, writerVars, historyVars
<1>2. req.seq <= sent
  <2>1. req # <<>> /\ req.seq \in Nat
    BY <1>1, SizeType DEF Record
  <2>2. QED
    BY <2>1, QueueType DEF SessionInv, Numbered
<1>3. \A p \in Pools, u \in Units :
          cells'[p][u] # Blank => cells'[p][u].rec.seq <= sent
  <2>1. ASSUME NEW p \in Pools, NEW u \in Units, cells'[p][u] # Blank
        PROVE  cells'[p][u].rec.seq <= sent
    <3>1. \/ cells'[p][u] = cells[p][u]
          \/ cells'[p][u] = [rec |-> req, unit |-> written]
      BY <1>1 DEF WriteUnit
    <3>2. QED
      BY <1>2, <2>1, <3>1 DEF SessionInv, Numbered
  <2>2. QED
    BY <2>1
<1>4. Numbered'
  BY <1>1, <1>3 DEF SessionInv, Numbered
<1>5. \A e \in entries : \A k \in 0 .. e.size - 1 : UnitOf(e, k)' = UnitOf(e, k)
  BY WriteUnitKeepsEntries DEF DiskInv
<1>6. SessionIntact'
  BY <1>1, <1>5 DEF SessionInv, SessionIntact, Intact
<1>7. QED
  BY <1>4, <1>6 DEF SessionInv

LEMMA ContinueAppendSessionInv ==
    TypeInv /\ DiskInv /\ SessionInv /\ ContinueAppend => SessionInv'
<1> SUFFICES ASSUME TypeInv, DiskInv, SessionInv, ContinueAppend PROVE SessionInv'
  OBVIOUS
<1>1. CASE PollReaders \/ StopWaiting \/ TakeSlot \/ WritePoolHeader
  BY <1>1, UntouchedSessionInv
     DEF ContinueAppend, PollReaders, StopWaiting, TakeSlot, WritePoolHeader,
         diskVars, indexVars, writerVars, historyVars
<1>2. CASE WriteUnit(req)
  BY <1>2, WriteUnitSessionInv DEF ContinueAppend
<1>3. QED
  BY <1>1, <1>2 DEF ContinueAppend

LEMMA InsertSegmentSessionInv ==
    TypeInv /\ DiskInv /\ SessionInv /\ InsertSegment => SessionInv'
<1> SUFFICES ASSUME TypeInv, DiskInv, SessionInv, InsertSegment PROVE SessionInv'
  OBVIOUS
<1> DEFINE new == Meta(segmentCounter, req.seq, req.cam, AppendedAt(req))
<1>1. /\ entries' = entries \cup {new} /\ pc' = "recv" /\ req' = <<>>
      /\ UNCHANGED <<cells, session, sent, queue>> /\ pc = "insert"
  BY DEF InsertSegment, Insert, poolVars, diskVars, historyVars
<1>2. /\ new.pool = writeIdx /\ new.size = req.size /\ new.seq = req.seq
      /\ new.offset = slots[writeIdx].bytesUsed - req.size
  BY DEF Meta, AppendedAt
<1> HIDE DEF new
<1>3. Numbered'
  BY <1>1 DEF SessionInv, Numbered
<1>4. Intact(new)
  <2>1. /\ req \in Record /\ req.size \in Nat \ {0}
        /\ UsedHere = slots[writeIdx].bytesUsed
    BY <1>1, AppendType
  <2>2. ASSUME NEW k \in 0 .. req.size - 1
        PROVE  UnitOf(new, k) = [rec |-> req, unit |-> k]
    BY <1>1, <1>2, <2>1 DEF DiskInv, InProgress, UnitOf
  <2>3. ASSUME NEW k \in 0 .. req.size - 1
        PROVE  [rec |-> req, unit |-> k] # Blank
    <3>1. k \in Nat
      BY <2>1
    <3>2. QED
      BY <2>1, <3>1, BlankAssumption
  <2>4. QED
    BY <1>2, <2>2, <2>3 DEF Intact
<1>5. SessionIntact'
  BY <1>1, <1>4 DEF SessionInv, SessionIntact, Intact, UnitOf
<1>6. QED
  BY <1>3, <1>5 DEF SessionInv

LEMMA NextSessionInv ==
    TypeInv /\ DiskInv /\ SessionInv /\ [Next]_vars => SessionInv'
<1> SUFFICES ASSUME TypeInv, DiskInv, SessionInv, [Next]_vars PROVE SessionInv'
  OBVIOUS
<1> USE DEF poolVars, diskVars, memVars, appendVars, indexVars, writerVars, historyVars
<1>1. CASE Start
  BY <1>1, StartSessionInv
<1>2. CASE StartKilled
  BY <1>2, UntouchedSessionInv DEF StartKilled, OpenInterrupted, SessionInv, Numbered
<1>3. CASE Rebuild
  BY <1>3, RebuildSessionInv
<1>4. CASE RebuildFails
  BY <1>4, UntouchedSessionInv DEF RebuildFails
<1>5. CASE \E cam \in Cameras, size \in RecordSizes : Send(cam, size)
  BY <1>5, SendSessionInv
<1>6. CASE Receive
  BY <1>6, ReceiveSessionInv
<1>7. CASE CheckStatus \/ Evict \/ BeginAppend \/ EndAppend
  BY <1>7, UntouchedSessionInv
     DEF CheckStatus, Evict, EvictPool, BeginAppend, AppendHere, AppendRotate,
         AppendOversize, Drop, EndAppend, FinishAppend
<1>8. CASE ContinueAppend
  BY <1>8, ContinueAppendSessionInv
<1>9. CASE InsertSegment
  BY <1>9, InsertSegmentSessionInv
<1>10. CASE AppendFails
  BY <1>10, UntouchedSessionInv DEF AppendFails, PoolHeaderFails, WriteFails, Drop
<1>11. CASE \E p \in Pools : TakeGuard(p) \/ DropGuard(p)
  BY <1>11, UntouchedSessionInv
     DEF TakeGuard, DropGuard, Acquire, Release, SessionInv, Numbered
<1>12. CASE Crash
  BY <1>12, UntouchedSessionInv DEF Crash, Halt, Forget
<1>13. CASE UNCHANGED vars
  BY <1>13, UntouchedSessionInv DEF vars, SessionInv, Numbered
<1>14. QED
  BY <1>1, <1>2, <1>3, <1>4, <1>5, <1>6, <1>7, <1>8, <1>9, <1>10, <1>11, <1>12, <1>13
     DEF Next, WriterStep

\* Every unit of every indexed segment of the running session is on disk and
\* its own: append writes at bytes_used or above, into pools without indexed
\* segments, and bytes_used moves only past records that are complete.
THEOREM SessionIntactHolds == Spec => []SessionIntact
<1>1. Init => TypeInv /\ DiskInv /\ SessionInv
  BY InitTypeInv, InitDiskInv, InitSessionInv
<1>2. TypeInv /\ DiskInv /\ SessionInv /\ [Next]_vars
        => (TypeInv /\ DiskInv /\ SessionInv)'
  BY NextTypeInv, NextDiskInv, NextSessionInv
<1>3. TypeInv /\ DiskInv /\ SessionInv => SessionIntact
  BY DEF SessionInv
<1>4. QED
  BY <1>1, <1>2, <1>3, PTL DEF Spec

\* The conjunction IInv, which the run writer_recovery checks, is invariant; it is
\* inductive, being TypeInv, DiskInv and SessionInv under one name.
THEOREM InductiveInvariant == Spec => []IInv
<1>1. Init => IInv
  BY InitTypeInv, InitDiskInv, InitSessionInv
     DEF IInv, TypeInv, DiskInv, SessionInv
<1>2. IInv /\ [Next]_vars => IInv'
  BY NextTypeInv, NextDiskInv, NextSessionInv
     DEF IInv, TypeInv, DiskInv, SessionInv
<1>3. QED
  BY <1>1, <1>2, PTL DEF Spec

==============================================================================
