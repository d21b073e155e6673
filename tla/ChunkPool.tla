------------------------------ MODULE ChunkPool ------------------------------
(***************************************************************************)
(* The ring of pool files of src/src/storage/chunk_pool.rs.                *)
(*                                                                         *)
(* A pool file is a pool header followed by Capacity units of data. A      *)
(* record of size s occupies s consecutive units: unit 0 is the record     *)
(* header (magic, camera, times, length), units 1 .. s-1 the payload. What *)
(* a unit holds is the record it was written for and its place in that     *)
(* record; the scan looks at unit 0 only, exactly as the code reads record *)
(* headers and seeks over payloads. A payload that happens to hold the     *)
(* four bytes of the record magic at a scanned offset is left out.         *)
(*                                                                         *)
(* The disk (header, cells) survives a restart; slots, writeIdx, readers   *)
(* and the progress of a call to append do not.                            *)
(***************************************************************************)
EXTENDS Integers, FiniteSets

CONSTANTS
    MaxPools,      \* config storage.max_pools
    Capacity,      \* pool_capacity, in units
    Cameras,       \* camera identifiers
    RecordSizes,   \* sizes of records, in units, the record header included
    DiskId,        \* what is left of a camera id in the 16 bytes of a header
    MaxWait,       \* polls of the reader counter before rotate gives up (50)
    MaxReaders,    \* bound on concurrent read guards of one pool
    Blank,         \* a unit nothing was ever written to
    NoMagic,       \* the pool header of a preallocated, never rotated file
    NoFile         \* the pool file does not exist

ASSUME PoolAssumption ==
    /\ MaxPools \in Nat \ {0}
    /\ Capacity \in Nat \ {0}
    /\ RecordSizes \subseteq Nat \ {0}
    /\ DiskId \in [Cameras -> Cameras]
    /\ MaxWait \in Nat
    /\ MaxReaders \in Nat
    /\ NoMagic \notin Nat /\ NoFile \notin Nat /\ NoMagic # NoFile

Pools == 0 .. MaxPools - 1
Units == 0 .. Capacity - 1
Offsets == 0 .. Capacity

\* A segment to be stored. seq numbers the segments in the order in which the
\* workers hand them over; it stands for start_ts, and for the payload.
Record == [seq : Nat \ {0}, cam : Cameras, size : RecordSizes]

ASSUME BlankAssumption == Blank \notin [rec : Record, unit : Nat]

Cell == [rec : Record, unit : Nat] \cup {Blank}

VARIABLES
    header,    \* pool_id in the header of each pool file, NoMagic or NoFile
    cells,     \* the units of each pool file
    slots,     \* PoolSlot: the pool_id and bytes_used kept in memory
    writeIdx,  \* write_idx
    readers,   \* PoolReadCounters
    phase,     \* where a call to append stands; "closed" before open
    written,   \* units of the record written so far
    waited     \* polls of the reader counter done by rotate

diskVars == <<header, cells>>
memVars == <<slots, writeIdx, readers>>
appendVars == <<phase, written, waited>>
poolVars == <<diskVars, memVars, appendVars>>

PoolTypeOK ==
    /\ header \in [Pools -> Nat \cup {NoMagic, NoFile}]
    /\ cells \in [Pools -> [Units -> Cell]]
    /\ slots \in [Pools -> [poolId : Nat, bytesUsed : Offsets]]
    /\ writeIdx \in Pools
    /\ readers \in [Pools -> 0 .. MaxReaders]
    /\ phase \in {"closed", "idle", "wait", "take", "header", "write"}
    /\ written \in Offsets
    /\ waited \in 0 .. MaxWait

BlankFile == [u \in Units |-> Blank]
EmptySlots == [p \in Pools |-> [poolId |-> 0, bytesUsed |-> 0]]
NoReaders == [p \in Pools |-> 0]

PoolInit ==
    /\ header = [p \in Pools |-> NoFile]
    /\ cells = [p \in Pools |-> BlankFile]
    /\ slots = EmptySlots
    /\ writeIdx = 0
    /\ readers = NoReaders
    /\ phase = "closed"
    /\ written = 0
    /\ waited = 0

-----------------------------------------------------------------------------
\* Scanning a pool file.

\* Mutant: a record that ends with the file is taken for a partial one.
ScannableShort(file, o) ==
    /\ o \in Units
    /\ file[o] # Blank
    /\ file[o].unit = 0
    /\ o + file[o].rec.size < Capacity

\* The scan accepts offset o: it finds a record header there and the record
\* it announces ends inside the file.
Scannable(file, o) ==
    /\ o \in Units
    /\ file[o] # Blank
    /\ file[o].unit = 0
    /\ o + file[o].rec.size <= Capacity

\* S holds the first offset and, with a record, the offset behind it.
ClosedUnderScan(file, S) ==
    /\ 0 \in S
    /\ \A o \in S : Scannable(file, o) => o + file[o].rec.size \in S

\* The offsets the scan visits: the least such set.
Visited(file) ==
    {o \in Offsets :
        \A S \in SUBSET Offsets : ClosedUnderScan(file, S) => o \in S}

\* The offsets at which the scan finds records.
RecordOffsets(file) == {o \in Visited(file) : Scannable(file, o)}

\* Where the scan stops: the sum of the sizes of the records it found.
ScanEnd(file) ==
    CHOOSE b \in Visited(file) : \A o \in Visited(file) : o <= b

ScannedRecord == [seq : Nat \ {0}, cam : Cameras, pool : Pools, poolId : Nat,
                  offset : Units, size : RecordSizes]

\* What is recovered of the record at offset o of pool p.
Recovered(p, o) ==
    [seq |-> cells[p][o].rec.seq, cam |-> DiskId[cells[p][o].rec.cam],
     pool |-> p, poolId |-> slots[p].poolId,
     offset |-> o, size |-> cells[p][o].rec.size]

\* scan_all_pools, as a set; SegmentIndex says in which order it is handed over.
ScanAllPools ==
    UNION {{Recovered(p, o) : o \in RecordOffsets(cells[p])} : p \in Pools}

-----------------------------------------------------------------------------
\* Opening the pool.

ReadPoolHeader(p) == IF header[p] \in Nat THEN header[p] ELSE 0

Existing == {p \in Pools : header[p] # NoFile}

\* The last of the existing files with the greatest pool_id.
LastWritten ==
    CHOOSE p \in Existing :
        \A q \in Existing :
            \/ ReadPoolHeader(q) < ReadPoolHeader(p)
            \/ ReadPoolHeader(q) = ReadPoolHeader(p) /\ q <= p

\* Mutant: bytes_used is not recovered, every pool counts as empty.
OpenAsEmpty ==
    /\ phase = "closed"
    /\ phase' = "idle"
    /\ slots' = [p \in Pools |->
                    [poolId |-> IF p \in Existing THEN ReadPoolHeader(p) ELSE p,
                     bytesUsed |-> 0]]
    /\ writeIdx' = IF Existing = {} THEN 0 ELSE LastWritten
    /\ header' = [p \in Pools |->
                    IF p = 0 /\ Existing = {} THEN 0
                    ELSE IF p \in Existing THEN header[p] ELSE NoMagic]
    /\ readers' = NoReaders
    /\ UNCHANGED <<cells, written, waited>>

\* ChunkPool::open, run to its end.
Open ==
    /\ phase = "closed"
    /\ phase' = "idle"
    /\ slots' = [p \in Pools |->
                    IF p \in Existing
                    THEN [poolId |-> ReadPoolHeader(p),
                          bytesUsed |-> ScanEnd(cells[p])]
                    ELSE [poolId |-> p, bytesUsed |-> 0]]
    /\ writeIdx' = IF Existing = {} THEN 0 ELSE LastWritten
    /\ header' = [p \in Pools |->
                    IF p = 0 /\ Existing = {} THEN 0
                    ELSE IF p \in Existing THEN header[p] ELSE NoMagic]
    /\ readers' = NoReaders
    /\ UNCHANGED <<cells, written, waited>>

\* ChunkPool::open, killed when it has gone through the first n files and has
\* not yet written the header of a new ring.
OpenInterrupted(n) ==
    /\ phase = "closed"
    /\ \E p \in 0 .. n - 1 : p \notin Existing
    /\ header' = [p \in Pools |->
                    IF p < n /\ p \notin Existing THEN NoMagic ELSE header[p]]
    /\ UNCHANGED <<cells, memVars, appendVars>>

-----------------------------------------------------------------------------
\* Appending a record r. The caller holds the pool's write lock from the
\* first of these steps to the one that makes phase "idle" again.

Status == [idx |-> writeIdx, used |-> slots[writeIdx].bytesUsed]

\* Mutant: the ring does not wrap.
NextPoolUnwrapped(p) == p + 1

NextPool(p) == (p + 1) % MaxPools

\* Mutant: a record that would fill the pool exactly rotates already.
FullEarly(r) == slots[writeIdx].bytesUsed + r.size >= Capacity

Full(r) == slots[writeIdx].bytesUsed + r.size > Capacity

AppendOversize(r) ==
    /\ phase = "idle"
    /\ r.size > Capacity
    /\ UNCHANGED poolVars

AppendHere(r) ==
    /\ phase = "idle"
    /\ r.size <= Capacity
    /\ ~Full(r)
    /\ phase' = "write"
    /\ written' = 0
    /\ UNCHANGED <<diskVars, memVars, waited>>

AppendRotate(r) ==
    /\ phase = "idle"
    /\ r.size <= Capacity
    /\ Full(r)
    /\ writeIdx' = NextPool(writeIdx)
    /\ phase' = "wait"
    /\ waited' = 0
    /\ UNCHANGED <<diskVars, slots, readers, written>>

HasReaders(p) == readers[p] > 0

\* One poll of the target's reader counter, then 100 ms of sleep.
PollReaders ==
    /\ phase = "wait"
    /\ HasReaders(writeIdx)
    /\ waited < MaxWait
    /\ waited' = waited + 1
    /\ UNCHANGED <<diskVars, memVars, phase, written>>

\* Mutant: no timeout.
StopWaitingNever ==
    /\ phase = "wait"
    /\ ~HasReaders(writeIdx)
    /\ phase' = "take"
    /\ UNCHANGED <<diskVars, memVars, written, waited>>

\* The wait is over: no reader is left, or the polls are used up.
StopWaiting ==
    /\ phase = "wait"
    /\ ~HasReaders(writeIdx) \/ waited = MaxWait
    /\ phase' = "take"
    /\ UNCHANGED <<diskVars, memVars, written, waited>>

\* Mutant: bytes_used is not reset.
TakeSlotUsed ==
    /\ phase = "take"
    /\ slots' = [slots EXCEPT ![writeIdx].poolId = @ + MaxPools]
    /\ phase' = "header"
    /\ waited' = 0
    /\ UNCHANGED <<diskVars, writeIdx, readers, written>>

TakeSlot ==
    /\ phase = "take"
    /\ slots' = [slots EXCEPT ![writeIdx] =
                    [poolId |-> @.poolId + MaxPools, bytesUsed |-> 0]]
    /\ phase' = "header"
    /\ waited' = 0
    /\ UNCHANGED <<diskVars, writeIdx, readers, written>>

\* The header is written in several calls; of its fields only pool_id is ever
\* read again, and a new file without it counts as pool_id 0 either way.
WritePoolHeader ==
    /\ phase = "header"
    /\ header' = [header EXCEPT ![writeIdx] = slots[writeIdx].poolId]
    /\ phase' = "write"
    /\ written' = 0
    /\ UNCHANGED <<cells, memVars, waited>>

\* Writing the header fails, before or after the pool_id has reached the file:
\* append returns the error, and the slot stays taken.
PoolHeaderFails ==
    /\ phase = "header"
    /\ phase' = "idle"
    /\ header' \in {header, [header EXCEPT ![writeIdx] = slots[writeIdx].poolId]}
    /\ UNCHANGED <<cells, memVars, written, waited>>

WriteUnit(r) ==
    /\ phase = "write"
    /\ written < r.size
    /\ cells' = [cells EXCEPT ![writeIdx][slots[writeIdx].bytesUsed + written] =
                    [rec |-> r, unit |-> written]]
    /\ written' = written + 1
    /\ UNCHANGED <<header, memVars, phase, waited>>

\* Opening, seeking, writing or flushing fails: append returns the error and
\* bytes_used keeps its value.
WriteFails ==
    /\ phase = "write"
    /\ phase' = "idle"
    /\ written' = 0
    /\ UNCHANGED <<diskVars, memVars, waited>>

\* Mutant: the record header is not counted.
FinishAppendShort(r) ==
    /\ phase = "write"
    /\ written = r.size
    /\ slots' = [slots EXCEPT ![writeIdx].bytesUsed = @ + r.size - 1]
    /\ phase' = "idle"
    /\ written' = 0
    /\ UNCHANGED <<diskVars, writeIdx, readers, waited>>

FinishAppend(r) ==
    /\ phase = "write"
    /\ written = r.size
    /\ slots' = [slots EXCEPT ![writeIdx].bytesUsed = @ + r.size]
    /\ phase' = "idle"
    /\ written' = 0
    /\ UNCHANGED <<diskVars, writeIdx, readers, waited>>

\* The SegmentLocation that append has just returned for r.
AppendedAt(r) ==
    [pool |-> writeIdx,
     poolId |-> slots[writeIdx].poolId,
     offset |-> slots[writeIdx].bytesUsed - r.size,
     size |-> r.size]

-----------------------------------------------------------------------------
\* The reader counters, and the end of the process.

Acquire(p) ==
    /\ phase # "closed"
    /\ readers[p] < MaxReaders
    /\ readers' = [readers EXCEPT ![p] = @ + 1]
    /\ UNCHANGED <<diskVars, slots, writeIdx, appendVars>>

Release(p) ==
    /\ readers[p] > 0
    /\ readers' = [readers EXCEPT ![p] = @ - 1]
    /\ UNCHANGED <<diskVars, slots, writeIdx, appendVars>>

\* The process dies: the disk keeps what has been written, memory is gone.
Halt ==
    /\ phase # "closed"
    /\ phase' = "closed"
    /\ slots' = EmptySlots
    /\ writeIdx' = 0
    /\ readers' = NoReaders
    /\ written' = 0
    /\ waited' = 0
    /\ UNCHANGED diskVars

==============================================================================
