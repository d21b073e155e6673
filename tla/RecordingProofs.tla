--------------------------- MODULE RecordingProofs ---------------------------
(***************************************************************************)
(* One session of the writer, for every value of the constants: ids follow *)
(* the order of recording and, with at least three pools, the writer       *)
(* implements module Recording, whatever requests are refused and whatever *)
(* writes fail. After a restart neither holds (run writer_resume).         *)
(***************************************************************************)
EXTENDS GlobalWriterProofs, SequenceTheorems

USE DEF Pools, Units, Offsets

\* What is indexed is older than the request in hand, and that one older than
\* those on the channel; before the first rebuild nothing was ever written.
OrderInv ==
    /\ pc \in {"recv", "rebuild"} => req = <<>>
    /\ pc \in {"down", "rebuild"} =>
            entries = {} /\ \A p \in Pools : cells[p] = BlankFile
    /\ \A i, j \in 1 .. Len(queue) : i < j => queue[i].seq < queue[j].seq
    /\ req # <<>> => \A i \in 1 .. Len(queue) : req.seq < queue[i].seq
    /\ \A e \in entries :
        /\ e.id < segmentCounter /\ e.seq <= sent
        /\ req # <<>> => e.seq < req.seq
        /\ \A i \in 1 .. Len(queue) : e.seq < queue[i].seq
    /\ IdsChronological

BaseInv == TypeInv /\ DiskInv /\ SessionInv

LEMMA NextBaseInv == BaseInv /\ [Next]_vars => BaseInv'
BY NextTypeInv, NextDiskInv, NextSessionInv DEF BaseInv

LEMMA NoCrash ==
    ASSUME MaxCrashes = 0, BaseInv
    PROVE  ~StartKilled /\ ~Crash
BY DEF BaseInv, TypeInv, TypeOK, StartKilled, Crash

LEMMA EntryNumbers ==
    ASSUME BaseInv, NEW e \in entries
    PROVE  e.id \in Nat /\ e.seq \in Nat
BY DEF BaseInv, TypeInv, TypeOK, IndexTypeOK, SegmentMeta

LEMMA InitOrderInv == Init => OrderInv
BY DEF Init, PoolInit, IndexInit, OrderInv, IdsChronological

\* Steps that insert and hand over nothing.
LEMMA UntouchedOrderInv ==
    ASSUME OrderInv, UNCHANGED <<queue, segmentCounter, sent>>,
           entries' \subseteq entries, req' = req \/ req' = <<>>,
           pc' \in {"recv", "rebuild"} => pc \in {"recv", "rebuild"} \/ req' = <<>>,
           pc' \in {"down", "rebuild"} => pc \in {"down", "rebuild"} /\ cells' = cells
    PROVE  OrderInv'
<1>1. IdsChronological'
  BY DEF OrderInv, IdsChronological
<1>2. QED
  BY <1>1 DEF OrderInv

LEMMA RebuildFindsNothing == BaseInv /\ OrderInv /\ Rebuild => entries' = {}
<1> SUFFICES ASSUME BaseInv, OrderInv, Rebuild PROVE entries' = {}
  OBVIOUS
<1>1. SUFFICES ASSUME NEW r \in ScanAllPools PROVE FALSE
  BY DEF Rebuild, RebuildFromScanned
<1>2. PICK p \in Pools : \E o \in RecordOffsets(cells[p]) : r = Recovered(p, o)
  BY DEF ScanAllPools
<1>3. PICK o \in RecordOffsets(cells[p]) : r = Recovered(p, o)
  BY <1>2
<1>4. o \in Units /\ cells[p][o] # Blank /\ cells[p] = BlankFile
  BY <1>3 DEF RecordOffsets, Scannable, OrderInv, Rebuild
<1>5. QED
  BY <1>4 DEF BlankFile

LEMMA RebuildOrderInv == BaseInv /\ OrderInv /\ Rebuild => OrderInv'
<1> SUFFICES ASSUME BaseInv, OrderInv, Rebuild PROVE OrderInv'
  OBVIOUS
<1>1. /\ pc = "rebuild" /\ pc' = "recv" /\ UNCHANGED <<queue, req, sent, cells>>
  BY DEF Rebuild, poolVars, diskVars
<1>2. entries' = {}
  BY RebuildFindsNothing
<1>3. QED
  BY <1>1, <1>2 DEF OrderInv, IdsChronological

LEMMA SendOrderInv ==
    ASSUME BaseInv, OrderInv, NEW cam \in Cameras, NEW size \in RecordSizes,
           Send(cam, size)
    PROVE  OrderInv'
<1> DEFINE r == [seq |-> sent + 1, cam |-> cam, size |-> size]
<1>1. /\ queue' = Append(queue, r) /\ sent' = sent + 1
      /\ UNCHANGED <<cells, entries, segmentCounter, req, pc>>
      /\ queue \in Seq(Record) /\ sent \in Nat /\ session \in Nat
  BY QueueType DEF Send, poolVars, diskVars, indexVars, BaseInv
<1>2. r.seq = sent + 1
  OBVIOUS
<1> HIDE DEF r
<1>3. /\ \A i \in 1 .. Len(queue) : queue[i].seq \in Nat /\ queue[i].seq <= sent
      /\ req # <<>> => req.seq \in Nat /\ req.seq <= sent
      /\ \A e \in entries : e.seq \in Nat /\ e.seq <= sent
  <2>1. \A i \in 1 .. Len(queue) : queue[i].seq \in session + 1 .. sent
    BY DEF BaseInv, SessionInv, Numbered
  <2>2. req # <<>> => req.seq \in session + 1 .. sent
    BY DEF BaseInv, SessionInv, Numbered
  <2>3. \A e \in entries : e.seq \in Nat /\ e.seq <= sent
    BY EntryNumbers DEF OrderInv
  <2>4. QED
    BY <1>1, <2>1, <2>2, <2>3
<1>4. ASSUME NEW i \in 1 .. Len(queue')
      PROVE  \/ i \in 1 .. Len(queue) /\ queue'[i] = queue[i]
             \/ i = Len(queue) + 1 /\ queue'[i] = r
  BY <1>1
<1>5. Len(queue) \in Nat
  BY <1>1
<1>6. \A i, j \in 1 .. Len(queue') : i < j => queue'[i].seq < queue'[j].seq
  <2>1. TAKE i, j \in 1 .. Len(queue')
  <2>2. HAVE i < j
  <2>3. CASE j \in 1 .. Len(queue) /\ queue'[j] = queue[j]
    <3>1. i \in 1 .. Len(queue) /\ queue'[i] = queue[i]
      BY <1>4, <1>5, <2>2, <2>3
    <3>2. QED
      BY <2>2, <2>3, <3>1 DEF OrderInv
  <2>4. CASE j = Len(queue) + 1 /\ queue'[j] = r
    <3>1. i \in 1 .. Len(queue) /\ queue'[i] = queue[i]
      BY <1>4, <1>5, <2>2, <2>4
    <3>2. queue[i].seq <= sent /\ queue[i].seq \in Nat
      BY <1>3, <3>1
    <3>3. QED
      BY <1>1, <1>2, <2>4, <3>1, <3>2
  <2>5. QED
    BY <1>4, <2>3, <2>4
<1>7. ASSUME NEW n \in Nat, n <= sent, \A i \in 1 .. Len(queue) : n < queue[i].seq
      PROVE  \A i \in 1 .. Len(queue') : n < queue'[i].seq
  BY <1>1, <1>2, <1>4, <1>7
<1>8. req' # <<>> => \A i \in 1 .. Len(queue') : req'.seq < queue'[i].seq
  BY <1>1, <1>3, <1>7 DEF OrderInv
<1>9. ASSUME NEW e \in entries'
      PROVE  /\ e.id < segmentCounter' /\ e.seq <= sent'
             /\ req' # <<>> => e.seq < req'.seq
             /\ \A i \in 1 .. Len(queue') : e.seq < queue'[i].seq
  <2>1. e \in entries /\ e.seq \in Nat /\ e.seq <= sent
    BY <1>1, <1>3
  <2>2. \A i \in 1 .. Len(queue) : e.seq < queue[i].seq
    BY <2>1 DEF OrderInv
  <2>3. \A i \in 1 .. Len(queue') : e.seq < queue'[i].seq
    BY <1>7, <2>1, <2>2
  <2>4. QED
    BY <1>1, <2>1, <2>3 DEF OrderInv
<1>10. IdsChronological'
  BY <1>1 DEF OrderInv, IdsChronological
<1>11. QED
  BY <1>1, <1>6, <1>8, <1>9, <1>10 DEF OrderInv

LEMMA ReceiveOrderInv == BaseInv /\ OrderInv /\ Receive => OrderInv'
<1> SUFFICES ASSUME BaseInv, OrderInv, Receive PROVE OrderInv'
  OBVIOUS
<1>1. /\ queue \in Seq(Record) /\ queue # <<>> /\ pc' = "status"
      /\ req' = Head(queue) /\ queue' = Tail(queue)
      /\ UNCHANGED <<entries, segmentCounter, sent>>
  BY QueueType DEF Receive, indexVars, historyVars, BaseInv
<1>2. /\ req' = queue[1] /\ 1 \in 1 .. Len(queue)
      /\ \A i \in 1 .. Len(queue') : queue'[i] = queue[i + 1] /\ i + 1 \in 1 .. Len(queue)
                                     /\ i \in Nat /\ 1 < i + 1
  BY <1>1
<1>3. \A i, j \in 1 .. Len(queue') : i < j => queue'[i].seq < queue'[j].seq
  <2>1. TAKE i, j \in 1 .. Len(queue')
  <2>2. HAVE i < j
  <2>3. i + 1 < j + 1
    BY <2>2
  <2>4. QED
    BY <1>2, <2>3 DEF OrderInv
<1>4. \A i \in 1 .. Len(queue') : req'.seq < queue'[i].seq
  BY <1>2 DEF OrderInv
<1>5. IdsChronological'
  BY <1>1 DEF OrderInv, IdsChronological
<1>6. QED
  BY <1>1, <1>2, <1>3, <1>4, <1>5 DEF OrderInv

LEMMA InsertSegmentOrderInv == BaseInv /\ OrderInv /\ InsertSegment => OrderInv'
<1> SUFFICES ASSUME BaseInv, OrderInv, InsertSegment PROVE OrderInv'
  OBVIOUS
<1> DEFINE new == Meta(segmentCounter, req.seq, req.cam, AppendedAt(req))
<1>1. /\ entries' = entries \cup {new} /\ segmentCounter' = segmentCounter + 1
      /\ pc = "insert" /\ pc' = "recv" /\ req' = <<>> /\ UNCHANGED <<queue, sent>>
  BY DEF InsertSegment, Insert, historyVars
<1>2. new.id = segmentCounter /\ new.seq = req.seq
  BY DEF Meta
<1> HIDE DEF new
<1>3. /\ req # <<>> /\ req.seq \in Nat /\ req.seq <= sent
      /\ segmentCounter \in Nat
  <2>1. req \in Record
    BY <1>1, AppendType DEF BaseInv
  <2>2. req # <<>>
    BY <2>1, SizeType DEF Record
  <2>3. req.seq \in session + 1 .. sent /\ session \in Nat /\ sent \in Nat
    BY <2>2, QueueType DEF BaseInv, SessionInv, Numbered
  <2>4. QED
    BY <2>2, <2>3 DEF BaseInv, TypeInv, TypeOK, IndexTypeOK
<1>4. \A e \in entries : /\ e.id \in Nat /\ e.seq \in Nat
                         /\ e.id < segmentCounter /\ e.seq < req.seq
  BY <1>3, EntryNumbers DEF OrderInv
<1>5. IdsChronological'
  BY <1>1, <1>2, <1>3, <1>4 DEF OrderInv, IdsChronological
<1>6. ASSUME NEW e \in entries'
      PROVE  /\ e.id < segmentCounter' /\ e.seq <= sent'
             /\ \A i \in 1 .. Len(queue') : e.seq < queue'[i].seq
  <2>1. CASE e \in entries
    BY <1>1, <1>3, <1>4, <2>1 DEF OrderInv
  <2>2. CASE e = new
    BY <1>1, <1>2, <1>3, <2>2 DEF OrderInv
  <2>3. QED
    BY <1>1, <2>1, <2>2
<1>7. QED
  BY <1>1, <1>5, <1>6 DEF OrderInv

LEMMA NextOrderInv ==
    ASSUME BaseInv, OrderInv, [Next]_vars, ~StartKilled, ~Crash
    PROVE  OrderInv'
<1> USE DEF poolVars, diskVars, memVars, appendVars, indexVars, writerVars, historyVars
<1>1. CASE Start
  BY <1>1, UntouchedOrderInv DEF Start, Open, BaseInv, SessionInv, Numbered
<1>2. CASE Rebuild
  BY <1>2, RebuildOrderInv
<1>3. CASE RebuildFails
  BY <1>3, UntouchedOrderInv DEF RebuildFails
<1>4. CASE \E cam \in Cameras, size \in RecordSizes : Send(cam, size)
  BY <1>4, SendOrderInv
<1>5. CASE Receive
  BY <1>5, ReceiveOrderInv
<1>6. CASE CheckStatus \/ Evict
  BY <1>6, UntouchedOrderInv DEF CheckStatus, Evict, EvictPool
<1>7. CASE BeginAppend \/ ContinueAppend \/ EndAppend
  BY <1>7, UntouchedOrderInv DEF BeginAppend, Drop, ContinueAppend, EndAppend
<1>8. CASE InsertSegment
  BY <1>8, InsertSegmentOrderInv
<1>9. CASE AppendFails
  BY <1>9, UntouchedOrderInv DEF AppendFails, Drop
<1>10. CASE \E p \in Pools : TakeGuard(p) \/ DropGuard(p)
  BY <1>10, UntouchedOrderInv DEF TakeGuard, DropGuard, Acquire, Release
<1>11. CASE UNCHANGED vars
  BY <1>11, UntouchedOrderInv DEF vars
<1>12. QED
  BY <1>1, <1>2, <1>3, <1>4, <1>5, <1>6, <1>7, <1>8, <1>9, <1>10, <1>11
     DEF Next, WriterStep

LEMMA InitBaseInv == Init => BaseInv
BY InitTypeInv, InitDiskInv, InitSessionInv DEF BaseInv

\* As long as the process lives, ids follow the order of recording, whatever
\* requests are refused and whatever writes fail: the playlists list segments
\* in the order in which they were taken.
THEOREM IdsChronologicalHolds ==
    ASSUME MaxCrashes = 0
    PROVE  Spec => []IdsChronological
<1>1. Init => BaseInv /\ OrderInv
  BY InitBaseInv, InitOrderInv
<1>2. BaseInv /\ OrderInv /\ [Next]_vars => (BaseInv /\ OrderInv)'
  BY NextBaseInv, NextOrderInv, NoCrash
<1>3. BaseInv /\ OrderInv => IdsChronological
  BY DEF OrderInv
<1>4. QED
  BY <1>1, <1>2, <1>3, PTL DEF Spec

-----------------------------------------------------------------------------
\* The order of the pools: how many rotations ago the ring left pool p, when it
\* now stands at w.
Age(p, w) == IF p <= w THEN w - p ELSE w + MaxPools - p

\* Pools that were left longer ago hold older segments.
AgeInv ==
    \A e, f \in entries :
        Age(f.pool, writeIdx) < Age(e.pool, writeIdx) => e.seq < f.seq

LEMMA NextPoolIs ==
    \A p \in Pools : NextPool(p) = IF p = MaxPools - 1 THEN 0 ELSE p + 1
BY PoolAssumption DEF NextPool

LEMMA AgeOfNext ==
    ASSUME NEW p \in Pools, NEW w \in Pools
    PROVE  /\ Age(p, w) \in 0 .. MaxPools - 1
           /\ Age(w, w) = 0
           /\ p = NextPool(w) <=> Age(p, w) = MaxPools - 1
BY NextPoolIs, Constants DEF Age

LEMMA AgeRotated ==
    ASSUME NEW p \in Pools, NEW w \in Pools, p # NextPool(w)
    PROVE  Age(p, NextPool(w)) = Age(p, w) + 1
BY NextPoolIs, Constants DEF Age

LEMMA EmptyNoRecord == <<>> \notin Record
BY SizeType DEF Record

LEMMA WriteIdxType ==
    ASSUME BaseInv
    PROVE  /\ writeIdx \in Pools
           /\ \A e \in entries : e.pool \in Pools
BY EntryType DEF BaseInv, TypeInv, TypeOK, PoolTypeOK

LEMMA OldestPool ==
    ASSUME BaseInv, NEW e \in entries
    PROVE  /\ Age(e.pool, writeIdx) \in 0 .. MaxPools - 1
           /\ e.pool = NextPool(writeIdx) <=> Age(e.pool, writeIdx) = MaxPools - 1
BY WriteIdxType, AgeOfNext

\* Steps that leave the ring where it is and insert nothing.
LEMMA UntouchedAgeInv ==
    ASSUME AgeInv, entries' \subseteq entries, writeIdx' = writeIdx \/ entries' = {}
    PROVE  AgeInv'
BY DEF AgeInv

LEMMA RotateAgeInv ==
    ASSUME BaseInv, AgeInv, pc = "append", AppendRotate(req), UNCHANGED indexVars
    PROVE  AgeInv'
<1>1. /\ writeIdx' = NextPool(writeIdx) /\ entries' = entries
      /\ \A e \in entries : e.pool # NextPool(writeIdx)
  BY DEF AppendRotate, BaseInv, DiskInv, Extents, indexVars
<1>2. \A e \in entries : /\ Age(e.pool, writeIdx') = Age(e.pool, writeIdx) + 1
                         /\ Age(e.pool, writeIdx) \in Int
  BY <1>1, AgeRotated, AgeOfNext, WriteIdxType
<1>3. QED
  BY <1>1, <1>2 DEF AgeInv

LEMMA InsertSegmentAgeInv ==
    ASSUME BaseInv, OrderInv, AgeInv, InsertSegment
    PROVE  AgeInv'
<1> DEFINE new == Meta(segmentCounter, req.seq, req.cam, AppendedAt(req))
<1>1. /\ entries' = entries \cup {new} /\ writeIdx' = writeIdx
      /\ new.pool = writeIdx /\ new.seq = req.seq
  BY DEF InsertSegment, Insert, Meta, AppendedAt, poolVars, memVars
<1>2. \A e \in entries : e.seq < new.seq
  <2>1. req # <<>>
    BY AppendType, SizeType DEF BaseInv, InsertSegment, Record
  <2>2. QED
    BY <1>1, <2>1 DEF OrderInv
<1> HIDE DEF new
<1>3. /\ Age(new.pool, writeIdx) = 0
      /\ \A e \in entries : Age(e.pool, writeIdx) \in 0 .. MaxPools - 1
  BY <1>1, AgeOfNext, WriteIdxType
<1>4. QED
  BY <1>1, <1>2, <1>3, Constants DEF AgeInv

LEMMA NextAgeInv ==
    ASSUME BaseInv, OrderInv, AgeInv, [Next]_vars, ~StartKilled, ~Crash
    PROVE  AgeInv'
<1> USE DEF poolVars, memVars, indexVars
<1>1. CASE Start
  BY <1>1, UntouchedAgeInv DEF Start, OrderInv
<1>2. CASE Rebuild
  BY <1>2, RebuildFindsNothing, UntouchedAgeInv
<1>3. CASE RebuildFails \/ \E cam \in Cameras, size \in RecordSizes : Send(cam, size)
  BY <1>3, UntouchedAgeInv DEF RebuildFails, Send
<1>4. CASE Receive \/ CheckStatus \/ Evict
  BY <1>4, UntouchedAgeInv DEF Receive, CheckStatus, Evict, EvictPool
<1>5. CASE BeginAppend
  <2>1. CASE AppendRotate(req)
    BY <1>5, <2>1, RotateAgeInv DEF BeginAppend
  <2>2. CASE AppendHere(req) \/ AppendOversize(req)
    BY <1>5, <2>2, UntouchedAgeInv DEF BeginAppend, AppendHere, AppendOversize
  <2>3. QED
    BY <1>5, <2>1, <2>2 DEF BeginAppend
<1>6. CASE ContinueAppend \/ EndAppend
  BY <1>6, UntouchedAgeInv
     DEF ContinueAppend, PollReaders, StopWaiting, TakeSlot, WritePoolHeader, WriteUnit,
         EndAppend, FinishAppend
<1>7. CASE InsertSegment
  BY <1>7, InsertSegmentAgeInv
<1>8. CASE AppendFails
  BY <1>8, UntouchedAgeInv DEF AppendFails, PoolHeaderFails, WriteFails
<1>9. CASE \E p \in Pools : TakeGuard(p) \/ DropGuard(p)
  BY <1>9, UntouchedAgeInv DEF TakeGuard, DropGuard, Acquire, Release
<1>10. CASE UNCHANGED vars
  BY <1>10, UntouchedAgeInv DEF vars
<1>11. QED
  BY <1>1, <1>2, <1>3, <1>4, <1>5, <1>6, <1>7, <1>8, <1>9, <1>10 DEF Next, WriterStep

\* Only the eviction takes entries away, and it takes the oldest.
LEMMA NextEvictsOldest ==
    ASSUME BaseInv, OrderInv, AgeInv, [Next]_vars, ~StartKilled, ~Crash,
           NEW e \in entries \ entries', NEW f \in entries \cap entries'
    PROVE  e.seq < f.seq
<1> USE DEF poolVars, memVars, indexVars
<1>1. CASE Evict
  <2>1. e.pool = NextPool(writeIdx) /\ f.pool # NextPool(writeIdx)
    BY <1>1 DEF Evict, EvictPool, Status
  <2>2. Age(f.pool, writeIdx) < Age(e.pool, writeIdx)
    BY <2>1, OldestPool, Constants
  <2>3. QED
    BY <2>2 DEF AgeInv
<1>2. CASE Start \/ Rebuild \/ RebuildFails
  BY <1>2 DEF Start, Rebuild, RebuildFails, OrderInv
<1>3. CASE \E cam \in Cameras, size \in RecordSizes : Send(cam, size)
  BY <1>3 DEF Send
<1>4. CASE Receive \/ CheckStatus \/ BeginAppend \/ ContinueAppend \/ EndAppend
  BY <1>4 DEF Receive, CheckStatus, BeginAppend, ContinueAppend, EndAppend
<1>5. CASE InsertSegment
  BY <1>5 DEF InsertSegment, Insert
<1>6. CASE AppendFails \/ UNCHANGED vars
  BY <1>6 DEF AppendFails, vars
<1>7. CASE \E p \in Pools : TakeGuard(p) \/ DropGuard(p)
  BY <1>7 DEF TakeGuard, DropGuard
<1>8. QED
  BY <1>1, <1>2, <1>3, <1>4, <1>5, <1>6, <1>7 DEF Next, WriterStep

LEMMA InitAgeInv == Init => AgeInv
BY DEF Init, IndexInit, AgeInv

\* As long as the process lives, segments leave the index oldest first, for any
\* number of pools and whatever fails; a restart breaks it (run writer_resume).
THEOREM EvictsOldestHolds ==
    ASSUME MaxCrashes = 0
    PROVE  Spec => EvictsOldest
<1> DEFINE Aged == BaseInv /\ OrderInv /\ AgeInv
<1>1. Init => Aged
  BY InitBaseInv, InitOrderInv, InitAgeInv
<1>2. Aged /\ [Next]_vars => Aged'
  BY NextBaseInv, NextOrderInv, NextAgeInv, NoCrash
<1>3. Aged /\ [Next]_vars
        => [\A e \in entries \ entries', f \in entries \cap entries' : e.seq < f.seq]_vars
  BY NextEvictsOldest, NoCrash
<1>4. QED
  BY <1>1, <1>2, <1>3, PTL DEF Spec, EvictsOldest

-----------------------------------------------------------------------------
\* The pool written last, or the one before, has segments if any has, and a pool
\* with records in it has segments.
RingInv ==
    /\ entries # {} => \E e \in entries : Age(e.pool, writeIdx) <= 1
    /\ /\ pc \notin {"down", "rebuild", "insert"} /\ phase \notin {"wait", "take"}
       /\ UsedHere > 0
       => \E e \in entries : e.pool = writeIdx

\* Steps that leave index, slots and ring alone.
LEMMA UntouchedRingInv ==
    ASSUME RingInv, UNCHANGED <<entries, slots, writeIdx>>,
           pc' \notin {"down", "rebuild", "insert"} =>
                pc \notin {"down", "rebuild", "insert"},
           phase' \notin {"wait", "take"} => phase \notin {"wait", "take"}
    PROVE  RingInv'
BY DEF RingInv, UsedHere

LEMMA InitRingInv == Init => RingInv
BY DEF Init, IndexInit, RingInv

\* With an empty index only the last part says something.
LEMMA EmptyRingInv ==
    ASSUME entries' = {}, pc' \in {"down", "rebuild", "insert"} \/ ~(UsedHere' > 0)
    PROVE  RingInv'
BY DEF RingInv

LEMMA RebuildRingInv ==
    ASSUME BaseInv, OrderInv, Rebuild \/ RebuildFails
    PROVE  RingInv'
<1>1. entries' = {}
  BY RebuildFindsNothing DEF RebuildFails, OrderInv, indexVars
<1>2. UsedHere' = 0
  <2>1. pc = "rebuild" /\ UNCHANGED <<slots, writeIdx>>
    BY DEF Rebuild, RebuildFails, poolVars, memVars
  <2>2. slots[writeIdx].bytesUsed = ScanEnd(BlankFile)
    BY <2>1, WriteIdxType DEF BaseInv, DiskInv, Opened, OrderInv
  <2>3. QED
    BY <2>1, <2>2, ScanBlank DEF UsedHere
<1>3. QED
  BY <1>1, <1>2, EmptyRingInv

LEMMA EvictRingInv ==
    ASSUME MaxPools >= 3, BaseInv, RingInv, Evict
    PROVE  RingInv'
<1>1. /\ entries' = {e \in entries : e.pool # NextPool(writeIdx)}
      /\ UNCHANGED <<slots, writeIdx, phase>> /\ pc = "evict"
  BY DEF Evict, EvictPool, Status, poolVars, memVars, appendVars
<1>2. \A e \in entries : Age(e.pool, writeIdx) <= 1 => e \in entries'
  <2>1. ASSUME NEW e \in entries, Age(e.pool, writeIdx) <= 1
        PROVE  e.pool # NextPool(writeIdx)
    BY <2>1, OldestPool, Constants
  <2>2. QED
    BY <1>1, <2>1
<1>3. \A e \in entries : e.pool = writeIdx => e \in entries'
  BY <1>2, AgeOfNext, WriteIdxType
<1>4. QED
  BY <1>1, <1>2, <1>3 DEF RingInv, UsedHere

LEMMA RotateRingInv ==
    ASSUME BaseInv, RingInv, pc = "append", AppendRotate(req), UNCHANGED indexVars
    PROVE  RingInv'
<1>1. /\ writeIdx' = NextPool(writeIdx) /\ entries' = entries /\ phase' = "wait"
      /\ \A e \in entries : e.pool # NextPool(writeIdx)
  BY DEF AppendRotate, BaseInv, DiskInv, Extents, indexVars
<1>2. \A e \in entries : /\ Age(e.pool, writeIdx') = Age(e.pool, writeIdx) + 1
                         /\ Age(e.pool, writeIdx) \in Int
  BY <1>1, AgeRotated, AgeOfNext, WriteIdxType
<1>3. entries # {} => \E e \in entries : Age(e.pool, writeIdx) = 0
  <2>1. UsedHere > 0 /\ phase = "idle"
    BY AppendType, Constants DEF AppendRotate, Full, BaseInv
  <2>2. \E e \in entries : e.pool = writeIdx
    BY <2>1 DEF RingInv
  <2>3. QED
    BY <2>2, AgeOfNext, WriteIdxType
<1>4. entries # {} => \E e \in entries : Age(e.pool, writeIdx') <= 1
  BY <1>2, <1>3
<1>5. QED
  BY <1>1, <1>4 DEF RingInv

LEMMA InsertSegmentRingInv ==
    ASSUME BaseInv, RingInv, InsertSegment
    PROVE  RingInv'
<1> DEFINE new == Meta(segmentCounter, req.seq, req.cam, AppendedAt(req))
<1>1. /\ entries' = entries \cup {new} /\ UNCHANGED <<slots, writeIdx, phase>>
      /\ new.pool = writeIdx
  BY DEF InsertSegment, Insert, Meta, AppendedAt, poolVars, memVars, appendVars
<1> HIDE DEF new
<1>2. Age(new.pool, writeIdx) = 0
  BY <1>1, AgeOfNext, WriteIdxType
<1>3. QED
  BY <1>1, <1>2 DEF RingInv

LEMMA NextRingInv ==
    ASSUME MaxCrashes = 0, MaxPools >= 3, BaseInv, OrderInv, RingInv, [Next]_vars
    PROVE  RingInv'
<1> USE DEF poolVars, diskVars, memVars, appendVars, indexVars, writerVars, historyVars
<1>1. CASE Start
  BY <1>1, EmptyRingInv DEF Start, OrderInv
<1>2. CASE Rebuild \/ RebuildFails
  BY <1>2, RebuildRingInv
<1>3. CASE \E cam \in Cameras, size \in RecordSizes : Send(cam, size)
  BY <1>3, UntouchedRingInv DEF Send
<1>4. CASE Receive \/ CheckStatus
  BY <1>4, UntouchedRingInv DEF Receive, CheckStatus
<1>5. CASE Evict
  BY <1>5, EvictRingInv
<1>6. CASE BeginAppend
  <2>1. CASE AppendRotate(req)
    BY <1>6, <2>1, RotateRingInv DEF BeginAppend
  <2>2. CASE AppendHere(req) \/ AppendOversize(req)
    BY <1>6, <2>2, UntouchedRingInv DEF BeginAppend, AppendHere, AppendOversize, Drop
  <2>3. QED
    BY <1>6, <2>1, <2>2 DEF BeginAppend
<1>7. CASE ContinueAppend
  <2>1. CASE TakeSlot
    <3>1. UsedHere' = 0 /\ UNCHANGED <<entries, writeIdx>>
      BY <1>7, <2>1, WriteIdxType
         DEF ContinueAppend, TakeSlot, UsedHere, BaseInv, TypeInv, TypeOK, PoolTypeOK
    <3>2. QED
      BY <3>1 DEF RingInv
  <2>2. CASE PollReaders \/ StopWaiting \/ WritePoolHeader \/ WriteUnit(req)
    BY <1>7, <2>2, UntouchedRingInv
       DEF ContinueAppend, PollReaders, StopWaiting, WritePoolHeader, WriteUnit
  <2>3. QED
    BY <1>7, <2>1, <2>2 DEF ContinueAppend
<1>8. CASE EndAppend
  BY <1>8 DEF EndAppend, FinishAppend, RingInv
<1>9. CASE InsertSegment
  BY <1>9, InsertSegmentRingInv
<1>10. CASE AppendFails
  BY <1>10, UntouchedRingInv DEF AppendFails, PoolHeaderFails, WriteFails, Drop
<1>11. CASE \E p \in Pools : TakeGuard(p) \/ DropGuard(p)
  BY <1>11, UntouchedRingInv DEF TakeGuard, DropGuard, Acquire, Release
<1>12. CASE UNCHANGED vars
  BY <1>12, UntouchedRingInv DEF vars
<1>13. QED
  BY <1>1, <1>2, <1>3, <1>4, <1>5, <1>6, <1>7, <1>8, <1>9, <1>10, <1>11, <1>12, NoCrash
     DEF Next, WriterStep

-----------------------------------------------------------------------------
\* What waits, as a sequence of numbers.
LEMMA NumbersType ==
    ASSUME NEW q \in Seq(Record)
    PROVE  /\ Numbers(q) \in Seq(Nat) /\ Len(Numbers(q)) = Len(q)
           /\ \A i \in 1 .. Len(q) : Numbers(q)[i] = q[i].seq
<1>1. Len(q) \in Nat /\ \A i \in 1 .. Len(q) : q[i].seq \in Nat
  BY SizeType
<1>2. Numbers(q) \in [1 .. Len(q) -> Nat]
  BY <1>1 DEF Numbers
<1>3. Numbers(q) \in Seq(Nat)
  BY <1>1, <1>2, SeqDef
<1>4. Len(Numbers(q)) = Len(q)
  BY <1>1, <1>2, <1>3, LenProperties
<1>5. QED
  BY <1>3, <1>4 DEF Numbers

LEMMA NumbersAppend ==
    ASSUME NEW q \in Seq(Record), NEW r \in Record
    PROVE  Numbers(Append(q, r)) = Append(Numbers(q), r.seq)
<1>1. /\ Append(q, r) \in Seq(Record) /\ Len(Append(q, r)) = Len(q) + 1
      /\ \A i \in 1 .. Len(q) + 1 :
            Append(q, r)[i] = IF i = Len(q) + 1 THEN r ELSE q[i]
  OBVIOUS
<1>2. /\ Numbers(q) \in Seq(Nat) /\ Len(Numbers(q)) = Len(q)
      /\ \A i \in 1 .. Len(q) : Numbers(q)[i] = q[i].seq
  BY NumbersType
<1>3. r.seq \in Nat /\ Len(q) \in Nat
  BY SizeType
<1>4. /\ Append(Numbers(q), r.seq) \in Seq(Nat)
      /\ Len(Append(Numbers(q), r.seq)) = Len(q) + 1
      /\ \A i \in 1 .. Len(q) + 1 :
            Append(Numbers(q), r.seq)[i] = IF i = Len(q) + 1 THEN r.seq ELSE q[i].seq
  BY <1>2, <1>3
<1>5. /\ Numbers(Append(q, r)) \in Seq(Nat)
      /\ Len(Numbers(Append(q, r))) = Len(q) + 1
      /\ \A i \in 1 .. Len(q) + 1 :
            Numbers(Append(q, r))[i] = Append(q, r)[i].seq
  BY <1>1, NumbersType
<1>6. \A i \in 1 .. Len(q) + 1 :
          Numbers(Append(q, r))[i] = Append(Numbers(q), r.seq)[i]
  BY <1>1, <1>4, <1>5
<1>7. QED
  BY <1>4, <1>5, <1>6, SeqEqual

LEMMA ConcatAt ==
    ASSUME NEW s \in Seq(Nat), NEW t \in Seq(Nat)
    PROVE  /\ s \o t \in Seq(Nat)
           /\ Len(s) \in Nat /\ Len(t) \in Nat /\ Len(s \o t) = Len(s) + Len(t)
           /\ \A i \in 1 .. Len(s) + Len(t) :
                 (s \o t)[i] = IF i <= Len(s) THEN s[i] ELSE t[i - Len(s)]
BY ConcatProperties, LenProperties

LEMMA AppendAt ==
    ASSUME NEW t \in Seq(Nat), NEW n \in Nat
    PROVE  /\ Append(t, n) \in Seq(Nat) /\ Len(Append(t, n)) = Len(t) + 1
           /\ \A i \in 1 .. Len(t) + 1 :
                 Append(t, n)[i] = IF i = Len(t) + 1 THEN n ELSE t[i]
OBVIOUS

LEMMA ConcatAppend ==
    ASSUME NEW s \in Seq(Nat), NEW t \in Seq(Nat), NEW n \in Nat
    PROVE  s \o Append(t, n) = Append(s \o t, n)
<1> DEFINE a == Append(t, n)
           l == s \o a
           c == s \o t
           r == Append(c, n)
<1>1. /\ a \in Seq(Nat) /\ Len(a) = Len(t) + 1
      /\ \A i \in 1 .. Len(t) + 1 : a[i] = IF i = Len(t) + 1 THEN n ELSE t[i]
  BY AppendAt
<1>2. /\ c \in Seq(Nat) /\ Len(s) \in Nat /\ Len(t) \in Nat
      /\ Len(c) = Len(s) + Len(t)
      /\ \A i \in 1 .. Len(s) + Len(t) :
            c[i] = IF i <= Len(s) THEN s[i] ELSE t[i - Len(s)]
  BY ConcatAt
<1>3. /\ r \in Seq(Nat) /\ Len(r) = Len(c) + 1
      /\ \A i \in 1 .. Len(c) + 1 : r[i] = IF i = Len(c) + 1 THEN n ELSE c[i]
  BY <1>2, AppendAt
<1> HIDE DEF a, c, r
<1>4. /\ l \in Seq(Nat) /\ Len(l) = Len(s) + Len(a)
      /\ \A i \in 1 .. Len(s) + Len(a) :
            l[i] = IF i <= Len(s) THEN s[i] ELSE a[i - Len(s)]
  BY <1>1, ConcatAt
<1> HIDE DEF l
<1>5. Len(l) = Len(r) /\ Len(l) = Len(s) + Len(t) + 1
  BY <1>1, <1>2, <1>3, <1>4
<1>6. ASSUME NEW i \in 1 .. Len(l) PROVE l[i] = r[i]
  <2>1. CASE i <= Len(s)
    <3>1. l[i] = s[i]
      BY <1>1, <1>2, <1>4, <1>5, <2>1
    <3>2. i \in 1 .. Len(s) + Len(t) /\ i # Len(c) + 1
      BY <1>2, <1>5, <2>1
    <3>3. r[i] = s[i]
      BY <1>2, <1>3, <1>5, <2>1, <3>2
    <3>4. QED
      BY <3>1, <3>3
  <2>2. CASE i > Len(s)
    <3>1. i - Len(s) \in 1 .. Len(t) + 1
      BY <1>2, <1>5, <2>2
    <3>2. l[i] = a[i - Len(s)]
      BY <1>1, <1>2, <1>4, <1>5, <2>2
    <3>3. CASE i = Len(c) + 1
      BY <1>1, <1>2, <1>3, <3>1, <3>2, <3>3
    <3>4. CASE i # Len(c) + 1
      <4>1. i \in 1 .. Len(s) + Len(t) /\ i \in 1 .. Len(c) + 1
        BY <1>2, <1>5, <2>2, <3>4
      <4>2. r[i] = c[i]
        BY <1>3, <3>4, <4>1
      <4>3. c[i] = t[i - Len(s)]
        BY <1>2, <2>2, <4>1
      <4>4. a[i - Len(s)] = t[i - Len(s)]
        <5>1. i - Len(s) # Len(t) + 1
          BY <1>2, <3>4, <4>1
        <5>2. QED
          BY <1>1, <3>1, <5>1
      <4>5. QED
        BY <3>2, <4>2, <4>3, <4>4
    <3>5. QED
      BY <3>3, <3>4
  <2>3. QED
    BY <1>2, <2>1, <2>2
<1>7. l = r
  BY <1>3, <1>4, <1>5, <1>6, SeqEqual
<1>8. QED
  BY <1>7 DEF l, r, a, c

LEMMA SingleAt ==
    ASSUME NEW n \in Nat, NEW t \in Seq(Nat)
    PROVE  /\ <<n>> \o t \in Seq(Nat)
           /\ Len(<<n>> \o t) = Len(t) + 1 /\ Len(t) \in Nat
           /\ (<<n>> \o t)[1] = n
           /\ \A i \in 1 .. Len(t) : (<<n>> \o t)[i + 1] = t[i]
<1> DEFINE s == <<n>> \o t
<1>1. /\ <<n>> \in Seq(Nat) /\ Len(<<n>>) = 1 /\ <<n>>[1] = n
  OBVIOUS
<1>2. /\ s \in Seq(Nat) /\ Len(s) = 1 + Len(t) /\ Len(t) \in Nat
      /\ \A i \in 1 .. 1 + Len(t) : s[i] = IF i <= 1 THEN <<n>>[i] ELSE t[i - 1]
  BY <1>1, ConcatProperties
<1>3. \A i \in 1 .. Len(t) : s[i + 1] = t[i]
  BY <1>2
<1>4. s[1] = n
  BY <1>1, <1>2
<1>5. QED
  BY <1>2, <1>3, <1>4

LEMMA ConcatSingle ==
    ASSUME NEW n \in Nat, NEW t \in Seq(Nat)
    PROVE  /\ <<n>> \o t # <<>>
           /\ Head(<<n>> \o t) = n /\ Tail(<<n>> \o t) = t
<1> DEFINE s == <<n>> \o t
<1>1. /\ s \in Seq(Nat) /\ Len(s) = Len(t) + 1 /\ Len(t) \in Nat /\ s[1] = n
      /\ \A i \in 1 .. Len(t) : s[i + 1] = t[i]
  BY SingleAt
<1> HIDE DEF s
<1>2. s # <<>> /\ Head(s) = n
  BY <1>1
<1>3. /\ Tail(s) \in Seq(Nat) /\ Len(Tail(s)) = Len(t)
      /\ \A i \in 1 .. Len(t) : Tail(s)[i] = t[i]
  BY <1>1, <1>2, HeadTailProperties
<1>4. Tail(s) = t
  BY <1>3, SeqEqual
<1>5. QED
  BY <1>2, <1>4 DEF s

LEMMA NumbersHeadTail ==
    ASSUME NEW q \in Seq(Record), q # <<>>
    PROVE  Numbers(q) = <<Head(q).seq>> \o Numbers(Tail(q))
<1> DEFINE n == Head(q).seq
           t == Numbers(Tail(q))
           s == <<n>> \o t
<1>1. /\ Tail(q) \in Seq(Record) /\ Len(Tail(q)) = Len(q) - 1
      /\ \A i \in 1 .. Len(q) - 1 : Tail(q)[i] = q[i + 1]
      /\ Head(q) = q[1] /\ Len(q) \in Nat \ {0} /\ q[1] \in Record
  BY HeadTailProperties, EmptySeq
<1>2. n \in Nat /\ n = q[1].seq
  BY <1>1, SizeType
<1>3. /\ t \in Seq(Nat) /\ Len(t) = Len(q) - 1
      /\ \A i \in 1 .. Len(q) - 1 : t[i] = q[i + 1].seq
  <2>1. /\ t \in Seq(Nat) /\ Len(t) = Len(Tail(q))
        /\ \A i \in 1 .. Len(Tail(q)) : t[i] = Tail(q)[i].seq
    BY <1>1, NumbersType
  <2>2. QED
    BY <1>1, <2>1
<1>4. /\ Numbers(q) \in Seq(Nat) /\ Len(Numbers(q)) = Len(q)
      /\ \A i \in 1 .. Len(q) : Numbers(q)[i] = q[i].seq
  BY NumbersType
<1> HIDE DEF n, t
<1>5. /\ s \in Seq(Nat) /\ Len(s) = Len(t) + 1 /\ s[1] = n
      /\ \A i \in 1 .. Len(t) : s[i + 1] = t[i]
  BY <1>2, <1>3, SingleAt
<1> HIDE DEF s
<1>6. ASSUME NEW i \in 1 .. Len(q) PROVE s[i] = Numbers(q)[i]
  <2>1. CASE i = 1
    BY <1>1, <1>2, <1>4, <1>5, <2>1
  <2>2. CASE i # 1
    <3>1. i - 1 \in 1 .. Len(t) /\ (i - 1) + 1 = i
      BY <1>1, <1>3, <2>2
    <3>2. s[i] = t[i - 1] /\ t[i - 1] = q[i].seq
      BY <1>3, <1>5, <3>1
    <3>3. QED
      BY <1>4, <3>2
  <2>3. QED
    BY <2>1, <2>2
<1>7. Len(Numbers(q)) = Len(s)
  BY <1>1, <1>3, <1>4, <1>5
<1>8. Numbers(q) = s
  BY <1>4, <1>5, <1>6, <1>7, SeqEqual
<1>9. QED
  BY <1>8 DEF s, n, t

-----------------------------------------------------------------------------
\* Every step of the writer is a step of Recording or a stutter.
LEMMA InitRecording == Init => R!Init
<1>1. Numbers(<<>>) = <<>>
  BY DEF Numbers
<1>2. QED
  BY <1>1 DEF Init, IndexInit, R!Init, Waiting, InHand, Kept

\* Steps that change nothing Recording can see.
LEMMA HiddenStep ==
    ASSUME UNCHANGED <<sent, queue, req, entries>>
    PROVE  UNCHANGED R!vars
BY DEF R!vars, Waiting, Kept

LEMMA SendHandsOver ==
    ASSUME BaseInv, NEW cam \in Cameras, NEW size \in RecordSizes, Send(cam, size)
    PROVE  R!HandOver
<1> DEFINE r == [seq |-> sent + 1, cam |-> cam, size |-> size]
<1>1. /\ queue' = Append(queue, r) /\ sent' = sent + 1 /\ UNCHANGED <<req, entries>>
      /\ queue \in Seq(Record) /\ sent \in Nat
  BY QueueType DEF Send, indexVars, BaseInv
<1>2. r \in Record /\ r.seq = sent + 1
  BY <1>1 DEF Record
<1> HIDE DEF r
<1>3. InHand(req) \in Seq(Nat)
  <2>1. req # <<>> => req.seq \in Nat
    BY SizeType DEF BaseInv, TypeInv, TypeOK
  <2>2. QED
    BY <2>1 DEF InHand
<1>4. Waiting' = Append(Waiting, sent + 1)
  <2>1. Waiting' = InHand(req) \o Append(Numbers(queue), sent + 1)
    BY <1>1, <1>2, NumbersAppend DEF Waiting
  <2>2. Numbers(queue) \in Seq(Nat)
    BY <1>1, NumbersType
  <2>3. QED
    BY <1>1, <1>3, <2>1, <2>2, ConcatAppend, SMTT(30) DEF Waiting
<1>5. QED
  BY <1>1, <1>4 DEF R!HandOver, Kept

LEMMA ReceiveHidden ==
    ASSUME BaseInv, OrderInv, Receive
    PROVE  UNCHANGED R!vars
<1>1. /\ queue \in Seq(Record) /\ queue # <<>> /\ req = <<>>
      /\ req' = Head(queue) /\ queue' = Tail(queue) /\ UNCHANGED <<sent, entries>>
  BY QueueType DEF Receive, indexVars, historyVars, BaseInv, OrderInv
<1>2. Waiting = Numbers(queue)
  BY <1>1, NumbersType, ConcatEmptySeq DEF Waiting, InHand
<1>3. req' # <<>>
  <2>1. Head(queue) \in Record
    BY <1>1
  <2>2. QED
    BY <1>1, <2>1, EmptyNoRecord
<1>4. Waiting' = <<Head(queue).seq>> \o Numbers(Tail(queue))
  BY <1>1, <1>3 DEF Waiting, InHand
<1>5. QED
  BY <1>1, <1>2, <1>4, NumbersHeadTail DEF R!vars, Kept

\* The request in hand is the first that waits; without it the others wait.
LEMMA SettledWaiting ==
    ASSUME BaseInv, req \in Record, req' = <<>>, queue' = queue
    PROVE  Waiting # <<>> /\ Head(Waiting) = req.seq /\ Waiting' = Tail(Waiting)
<1>1. req.seq \in Nat /\ req # <<>>
  BY SizeType DEF Record
<1>2. Numbers(queue) \in Seq(Nat)
  BY QueueType, NumbersType DEF BaseInv
<1>3. Waiting = <<req.seq>> \o Numbers(queue)
  BY <1>1 DEF Waiting, InHand
<1>4. Waiting' = Numbers(queue)
  BY <1>2, ConcatEmptySeq DEF Waiting, InHand
<1>5. QED
  BY <1>1, <1>2, <1>3, <1>4, ConcatSingle

LEMMA DropRefuses ==
    ASSUME BaseInv, pc = "append", Drop, UNCHANGED <<queue, sent, entries>>
    PROVE  R!Refuse
BY SettledWaiting, AppendType DEF Drop, BaseInv, R!Refuse, Kept

LEMMA InsertKeeps ==
    ASSUME BaseInv, InsertSegment
    PROVE  R!Keep
<1> DEFINE new == Meta(segmentCounter, req.seq, req.cam, AppendedAt(req))
<1>1. /\ entries' = entries \cup {new} /\ req' = <<>> /\ UNCHANGED <<queue, sent>>
      /\ pc = "insert" /\ new.seq = req.seq
  BY DEF InsertSegment, Insert, Meta, historyVars
<1> HIDE DEF new
<1>2. Kept' = Kept \cup {req.seq}
  BY <1>1 DEF Kept
<1>3. QED
  BY <1>1, <1>2, SettledWaiting, AppendType DEF BaseInv, R!Keep

LEMMA LeastInInterval ==
    ASSUME NEW C \in Nat, NEW S \in SUBSET (0 .. C), S # {}
    PROVE  \E m \in S : \A x \in S : m <= x
<1> DEFINE T == {C - x : x \in S}
<1>1. \A x \in S : x \in Nat /\ C - x \in 0 .. C
  OBVIOUS
<1>2. T \in SUBSET (0 .. C) /\ T # {}
  BY <1>1
<1>3. \E g \in T : \A y \in T : y <= g
  <2>1. C \in Int
    OBVIOUS
  <2> HIDE DEF T
  <2>2. QED
    BY <1>2, <2>1, GreatestInInterval
<1>4. PICK m \in S : \A y \in T : y <= C - m
  BY <1>3
<1>5. \A x \in S : C - x <= C - m
  BY <1>4
<1>6. QED
  BY <1>1, <1>4, <1>5

\* Eviction takes the pool that is oldest, with the oldest segments.
LEMMA EvictGivesUpOldest ==
    ASSUME MaxPools >= 3, BaseInv, OrderInv, AgeInv, RingInv, Evict
    PROVE  R!GiveUpOldest \/ UNCHANGED R!vars
<1>1. /\ entries' = {e \in entries : e.pool # NextPool(writeIdx)}
      /\ UNCHANGED <<queue, req, sent>>
  BY DEF Evict, EvictPool, Status, historyVars
<1>2. CASE entries = {}
  BY <1>1, <1>2, HiddenStep
<1>3. CASE entries # {}
  <2>1. entries' # {}
    <3>1. PICK e \in entries : Age(e.pool, writeIdx) <= 1
      BY <1>3 DEF RingInv
    <3>2. e.pool # NextPool(writeIdx)
      BY <3>1, OldestPool, Constants
    <3>3. QED
      BY <1>1, <3>2
  <2>2. \A e \in entries \ entries', f \in entries' : e.seq < f.seq
    <3>1. ~StartKilled /\ ~Crash
      BY DEF Evict, StartKilled, Crash
    <3>2. entries' \subseteq entries
      BY <1>1
    <3>3. QED
      BY <3>1, <3>2, NextEvictsOldest DEF Next, WriterStep
  <2>3. \A e \in entries : e.seq \in Nat /\ e.seq <= sent
    BY EntryNumbers DEF OrderInv
  <2>4. \E n \in Kept' : \A m \in Kept' : n <= m
    <3>1. sent \in Nat
      BY QueueType DEF BaseInv
    <3>2. Kept' = {f.seq : f \in entries'} /\ entries' \subseteq entries
      BY <1>1 DEF Kept
    <3>3. Kept' \in SUBSET (0 .. sent) /\ Kept' # {}
      BY <2>1, <2>3, <3>1, <3>2
    <3>4. QED
      BY <3>1, <3>3, LeastInInterval
  <2>5. PICK n \in Kept' : \A m \in Kept' : n <= m
    BY <2>4
  <2>6. Kept' = {m \in Kept : m >= n} /\ n \in Kept
    <3>1. PICK g \in entries' : n = g.seq
      BY DEF Kept
    <3>2. ASSUME NEW e \in entries PROVE e \in entries' <=> e.seq >= n
      <4>1. e \in entries' => e.seq \in Kept'
        BY DEF Kept
      <4>2. e \notin entries' => e.seq < n
        BY <2>2, <3>1
      <4>3. QED
        BY <1>1, <2>3, <2>5, <3>1, <4>1, <4>2
    <3>3. Kept' = {f.seq : f \in entries'}
      BY DEF Kept
    <3>4. QED
      BY <1>1, <3>1, <3>2, <3>3 DEF Kept
  <2>7. Waiting' = Waiting
    BY <1>1 DEF Waiting
  <2>8. QED
    BY <1>1, <2>6, <2>7 DEF R!GiveUpOldest
<1>4. QED
  BY <1>2, <1>3

LEMMA NextRecording ==
    ASSUME MaxCrashes = 0, MaxPools >= 3, BaseInv, OrderInv, AgeInv, RingInv, [Next]_vars
    PROVE  [R!Next]_R!vars
<1> USE DEF poolVars, diskVars, memVars, appendVars, indexVars, writerVars, historyVars
<1>1. CASE Start \/ RebuildFails
  BY <1>1, HiddenStep DEF Start, RebuildFails
<1>2. CASE Rebuild
  BY <1>2, RebuildFindsNothing, HiddenStep DEF Rebuild, OrderInv
<1>3. CASE \E cam \in Cameras, size \in RecordSizes : Send(cam, size)
  BY <1>3, SendHandsOver DEF R!Next
<1>4. CASE Receive
  BY <1>4, ReceiveHidden
<1>5. CASE CheckStatus
  BY <1>5, HiddenStep DEF CheckStatus
<1>6. CASE Evict
  BY <1>6, EvictGivesUpOldest DEF R!Next
<1>7. CASE BeginAppend
  <2>1. CASE UNCHANGED <<pc, req>>
    BY <1>7, <2>1, HiddenStep DEF BeginAppend
  <2>2. CASE Drop
    BY <1>7, <2>2, DropRefuses DEF BeginAppend, R!Next
  <2>3. QED
    BY <1>7, <2>1, <2>2 DEF BeginAppend
<1>8. CASE ContinueAppend \/ EndAppend
  BY <1>8, HiddenStep DEF ContinueAppend, EndAppend
<1>9. CASE InsertSegment
  BY <1>9, InsertKeeps DEF R!Next
<1>10. CASE AppendFails
  BY <1>10, DropRefuses DEF AppendFails, R!Next
<1>11. CASE \E p \in Pools : TakeGuard(p) \/ DropGuard(p)
  BY <1>11, HiddenStep DEF TakeGuard, DropGuard
<1>12. CASE UNCHANGED vars
  BY <1>12, HiddenStep DEF vars
<1>13. QED
  BY <1>1, <1>2, <1>3, <1>4, <1>5, <1>6, <1>7, <1>8, <1>9, <1>10, <1>11, <1>12, NoCrash
     DEF Next, WriterStep

\* The writer implements the recording while the process lives: segments are
\* settled in the order of their arrival, and the pool evicted is always the one
\* with the oldest segments, also when a record was refused after an eviction
\* or a failed header left an empty pool behind.
THEOREM ImplementsRecordingHolds ==
    ASSUME MaxCrashes = 0, MaxPools >= 3
    PROVE  Spec => ImplementsRecording
<1> DEFINE Ring == BaseInv /\ OrderInv /\ AgeInv /\ RingInv
<1>1. Init => Ring /\ R!Init
  BY InitBaseInv, InitOrderInv, InitAgeInv, InitRingInv, InitRecording
<1>2. Ring /\ [Next]_vars => Ring'
  BY NextBaseInv, NextOrderInv, NextAgeInv, NextRingInv, NoCrash
<1>3. Ring /\ [Next]_vars => [R!Next]_R!vars
  BY NextRecording
<1>4. QED
  BY <1>1, <1>2, <1>3, PTL DEF Spec, ImplementsRecording, R!Spec

==============================================================================
