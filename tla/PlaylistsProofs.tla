--------------------------- MODULE PlaylistsProofs ---------------------------
(***************************************************************************)
(* Playlists for every value of the constants: what an id means to a       *)
(* player, the forward movement of its window, and what a blocking reload  *)
(* is answered with.                                                       *)
(***************************************************************************)
EXTENDS Playlists, RecordingProofs

USE DEF Pools, Units, Offsets

\* An id names one segment, and the ids of the segments to come are new.
IndexInv ==
    /\ IsFiniteSet(entries)
    /\ \A e, f \in entries : e.id = f.id => e = f
    /\ \A e \in entries : e.id < segmentCounter

LEMMA InitIndexInv == Init => IndexInv
BY FS_EmptySet DEF Init, IndexInit, IndexInv

LEMMA FewerIndexInv ==
    ASSUME IndexInv, entries' \subseteq entries,
           segmentCounter' = segmentCounter \/ entries' = {}
    PROVE  IndexInv'
<1>1. IsFiniteSet(entries')
  BY FS_Subset DEF IndexInv
<1>2. QED
  BY <1>1 DEF IndexInv

LEMMA InsertSegmentIndexInv == BaseInv /\ IndexInv /\ InsertSegment => IndexInv'
<1> SUFFICES ASSUME BaseInv, IndexInv, InsertSegment PROVE IndexInv'
  OBVIOUS
<1> DEFINE new == Meta(segmentCounter, req.seq, req.cam, AppendedAt(req))
<1>1. /\ entries' = entries \cup {new} /\ segmentCounter' = segmentCounter + 1
      /\ new.id = segmentCounter /\ segmentCounter \in Nat
  BY DEF InsertSegment, Insert, Meta, BaseInv, TypeInv, TypeOK, IndexTypeOK
<1> HIDE DEF new
<1>2. IsFiniteSet(entries')
  BY <1>1, FS_AddElement DEF IndexInv
<1>3. \A e \in entries : e.id \in Nat /\ e.id < segmentCounter
  BY EntryNumbers DEF IndexInv
<1>4. QED
  BY <1>1, <1>2, <1>3 DEF IndexInv

\* The records of a scan, and how many of them come before one.
Before(r) == {s \in ScanAllPools : ScannedBefore(s, r)}

LEMMA ScanOrder ==
    ASSUME PoolTypeOK, NEW r \in ScanAllPools, NEW s \in ScanAllPools
    PROVE  /\ ~ScannedBefore(r, r)
           /\ r # s => ScannedBefore(r, s) \/ ScannedBefore(s, r)
<1>1. \A t \in {r, s} : t.pool \in Nat /\ t.offset \in Nat /\ t.poolId \in Nat
  BY ScanType, Constants DEF ScannedRecord
<1>2. r.pool = s.pool /\ r.offset = s.offset => r = s
  <2>1. \A t \in ScanAllPools : t = Recovered(t.pool, t.offset)
    BY DEF ScanAllPools, Recovered
  <2>2. QED
    BY <2>1
<1>3. QED
  BY <1>1, <1>2 DEF ScannedBefore

LEMMA BeforeGrows ==
    ASSUME PoolTypeOK, NEW r \in ScanAllPools, NEW s \in ScanAllPools,
           ScannedBefore(r, s)
    PROVE  Cardinality(Before(r)) # Cardinality(Before(s))
<1>1. \A t \in ScanAllPools : t.pool \in Nat /\ t.offset \in Nat /\ t.poolId \in Nat
  BY ScanType, Constants DEF ScannedRecord
<1>2. Before(r) \subseteq Before(s)
  BY <1>1 DEF Before, ScannedBefore
<1>3. r \in Before(s) /\ r \notin Before(r)
  BY ScanOrder DEF Before
<1>4. IsFiniteSet(Before(s))
  BY ScanFinite, FS_Subset DEF Before
<1>5. QED
  BY <1>2, <1>3, <1>4, FS_Subset

LEMMA BeforeBound ==
    ASSUME PoolTypeOK, NEW r \in ScanAllPools
    PROVE  Cardinality(Before(r)) < Cardinality(ScanAllPools)
<1>1. Before(r) \subseteq ScanAllPools /\ r \notin Before(r)
  BY ScanOrder DEF Before
<1>2. /\ Cardinality(Before(r)) \in Nat /\ Cardinality(ScanAllPools) \in Nat
      /\ Cardinality(Before(r)) <= Cardinality(ScanAllPools)
      /\ Cardinality(Before(r)) # Cardinality(ScanAllPools)
  BY <1>1, ScanFinite, FS_Subset, FS_CardinalityType
<1>3. QED
  BY <1>2

\* The rebuild numbers the records it finds from 0 on.
LEMMA RebuildIndexInv == BaseInv /\ Rebuild => IndexInv'
<1> SUFFICES ASSUME BaseInv, Rebuild PROVE IndexInv'
  OBVIOUS
<1> DEFINE E(r) == Meta(Cardinality(Before(r)), r.seq, r.cam, r)
<1>1. entries' = {E(r) : r \in ScanAllPools}
  BY DEF Rebuild, RebuildFromScanned, Before
<1>2. \A r : E(r).id = Cardinality(Before(r))
  BY DEF Meta
<1>3. segmentCounter' = Cardinality(ScanAllPools) /\ PoolTypeOK
  BY DEF Rebuild, RebuildFromScanned, BaseInv, TypeInv, TypeOK
<1> HIDE DEF E
<1>4. IsFiniteSet(entries')
  <2> DEFINE f == [r \in ScanAllPools |-> E(r)]
  <2>1. f \in Surjection(ScanAllPools, entries')
    BY <1>1 DEF Surjection
  <2>2. IsFiniteSet(ScanAllPools)
    BY <1>3, ScanFinite
  <2> HIDE DEF f
  <2>3. QED
    BY <2>1, <2>2, FS_Surjection
<1>5. ASSUME NEW e \in entries', NEW f \in entries', e.id = f.id PROVE e = f
  <2>1. PICK r \in ScanAllPools : e = E(r)
    BY <1>1
  <2>2. PICK s \in ScanAllPools : f = E(s)
    BY <1>1
  <2>3. Cardinality(Before(r)) = Cardinality(Before(s))
    BY <1>2, <1>5, <2>1, <2>2
  <2>4. r = s
    BY <1>3, <2>3, BeforeGrows, ScanOrder
  <2>5. QED
    BY <2>1, <2>2, <2>4
<1>6. \A e \in entries' : e.id < segmentCounter'
  BY <1>1, <1>2, <1>3, BeforeBound
<1>7. QED
  BY <1>4, <1>5, <1>6 DEF IndexInv

LEMMA NextIndexInv == BaseInv /\ IndexInv /\ [Next]_vars => IndexInv'
<1> SUFFICES ASSUME BaseInv, IndexInv, [Next]_vars PROVE IndexInv'
  OBVIOUS
<1> USE DEF indexVars
<1>1. CASE Start \/ StartKilled \/ RebuildFails
  BY <1>1, FewerIndexInv DEF Start, StartKilled, RebuildFails
<1>2. CASE Rebuild
  BY <1>2, RebuildIndexInv
<1>3. CASE \E cam \in Cameras, size \in RecordSizes : Send(cam, size)
  BY <1>3, FewerIndexInv DEF Send
<1>4. CASE Receive \/ CheckStatus \/ Evict
  BY <1>4, FewerIndexInv DEF Receive, CheckStatus, Evict, EvictPool
<1>5. CASE BeginAppend \/ ContinueAppend \/ EndAppend \/ AppendFails
  BY <1>5, FewerIndexInv DEF BeginAppend, ContinueAppend, EndAppend, AppendFails
<1>6. CASE InsertSegment
  BY <1>6, InsertSegmentIndexInv
<1>7. CASE \E p \in Pools : TakeGuard(p) \/ DropGuard(p)
  BY <1>7, FewerIndexInv DEF TakeGuard, DropGuard
<1>8. CASE Crash
  BY <1>8, FewerIndexInv DEF Crash, Forget
<1>9. CASE UNCHANGED vars
  BY <1>9, FewerIndexInv DEF vars
<1>10. QED
  BY <1>1, <1>2, <1>3, <1>4, <1>5, <1>6, <1>7, <1>8, <1>9 DEF Next, WriterStep

-----------------------------------------------------------------------------
\* A process that opened the ring before anything was ever handed over.
FirstProcess == session = 0 /\ pc # "down"

FreshInv == FirstProcess => OrderInv /\ AgeInv

\* Nothing can be on disk then.
LEMMA StartFreshInv ==
    ASSUME BaseInv, Start, session' = 0
    PROVE  OrderInv' /\ AgeInv'
<1>1. /\ pc = "down" /\ pc' = "rebuild" /\ sent = 0
      /\ UNCHANGED <<entries, queue, req, sent, cells>>
  BY DEF Start, Open, indexVars
<1>2. entries = {} /\ queue = <<>> /\ req = <<>>
  BY <1>1 DEF BaseInv, DiskInv, Extents, SessionInv, Numbered
<1>3. \A p \in Pools : cells[p] = BlankFile
  <2>1. TAKE p \in Pools
  <2>2. cells[p] \in [Units -> Cell]
    BY DEF BaseInv, TypeInv, TypeOK, PoolTypeOK
  <2>3. \A u \in Units : cells[p][u] # Blank =>
            cells[p][u].rec.seq \in Nat \ {0} /\ cells[p][u].rec.seq <= 0
    BY <1>1, <2>2 DEF Cell, Record, BaseInv, SessionInv, Numbered
  <2>4. \A u \in Units : cells[p][u] = Blank
    BY <2>3
  <2>5. QED
    BY <2>2, <2>4 DEF BlankFile
<1>4. QED
  BY <1>1, <1>2, <1>3 DEF OrderInv, AgeInv, IdsChronological

\* A process that runs was running before, unless it is the step that starts it.
LEMMA RunningStep ==
    ASSUME [Next]_vars, pc' # "down", ~Start
    PROVE  pc # "down" /\ session' = session /\ ~StartKilled /\ ~Crash
<1> USE DEF writerVars, historyVars
<1>1. ~Crash
  BY DEF Crash
<1>2. ~StartKilled
  BY DEF StartKilled
<1>3. CASE Rebuild \/ RebuildFails
  BY <1>1, <1>2, <1>3 DEF Rebuild, RebuildFails
<1>4. CASE \E cam \in Cameras, size \in RecordSizes : Send(cam, size)
  BY <1>1, <1>2, <1>4 DEF Send
<1>5. CASE Receive \/ CheckStatus \/ Evict \/ InsertSegment
  BY <1>1, <1>2, <1>5 DEF Receive, CheckStatus, Evict, InsertSegment
<1>6. CASE BeginAppend \/ ContinueAppend \/ EndAppend \/ AppendFails
  BY <1>1, <1>2, <1>6 DEF BeginAppend, ContinueAppend, EndAppend, AppendFails
<1>7. CASE \E p \in Pools : TakeGuard(p) \/ DropGuard(p)
  <2>1. PICK p \in Pools : TakeGuard(p) \/ DropGuard(p)
    BY <1>7
  <2>2. UNCHANGED session /\ pc' = pc
    BY <2>1 DEF TakeGuard, DropGuard
  <2>3. QED
    BY <1>1, <1>2, <2>2
<1>8. CASE UNCHANGED vars
  BY <1>1, <1>2, <1>8 DEF vars
<1>9. QED
  BY <1>1, <1>2, <1>3, <1>4, <1>5, <1>6, <1>7, <1>8 DEF Next, WriterStep

LEMMA NextFreshInv == BaseInv /\ FreshInv /\ [Next]_vars => FreshInv'
<1> SUFFICES ASSUME BaseInv, FreshInv, [Next]_vars, FirstProcess'
             PROVE  OrderInv' /\ AgeInv'
  BY DEF FreshInv
<1>1. CASE Start
  BY <1>1, StartFreshInv DEF FirstProcess
<1>2. CASE ~Start
  <2>1. OrderInv /\ AgeInv /\ ~StartKilled /\ ~Crash
    BY <1>2, RunningStep DEF FirstProcess, FreshInv
  <2>2. QED
    BY <2>1, NextOrderInv, NextAgeInv
<1>3. QED
  BY <1>1, <1>2

-----------------------------------------------------------------------------
\* The window of a playlist.

LEMMA EntriesSent ==
    ASSUME BaseInv, NEW e \in entries
    PROVE  e.id \in Nat /\ e.seq \in Nat /\ e.seq <= sent /\ sent \in Nat
<1>1. e.pool \in Pools /\ e.offset + 0 \in Units /\ 0 \in 0 .. e.size - 1
  <2>1. e.size \in Nat \ {0} /\ e.offset \in Nat
    BY EntryType DEF BaseInv
  <2>2. 0 \in 0 .. e.size - 1
    BY <2>1
  <2>3. QED
    BY <2>2, EntryUnits DEF BaseInv, DiskInv
<1>2. UnitOf(e, 0) # Blank /\ UnitOf(e, 0).rec.seq = e.seq
  BY DEF BaseInv, DiskInv, IndexedHeaders
<1>3. e.seq <= sent
  BY <1>1, <1>2 DEF UnitOf, BaseInv, SessionInv, Numbered
<1>4. QED
  BY <1>3, EntryNumbers, QueueType DEF BaseInv

\* Of segments with bounded numbers one is the oldest and one the newest.
LEMMA Extremes ==
    ASSUME NEW S, S # {}, NEW c \in Nat, \A e \in S : e.seq \in Nat /\ e.seq <= c
    PROVE  /\ \E e \in S : Older(e, S) = {}
           /\ \E e \in S : Newer(e, S) = {}
<1> DEFINE N == {e.seq : e \in S}
<1>1. N \in SUBSET (0 .. c) /\ N # {}
  OBVIOUS
<1>2. \E m \in N : \A x \in N : m <= x
  <2> HIDE DEF N
  <2>1. QED
    BY <1>1, LeastInInterval
<1>3. \E m \in N : \A x \in N : x <= m
  <2>1. c \in Int
    OBVIOUS
  <2> HIDE DEF N
  <2>2. QED
    BY <1>1, <2>1, GreatestInInterval
<1>4. PICK o \in S : \A e \in S : o.seq <= e.seq
  BY <1>2
<1>5. PICK n \in S : \A e \in S : e.seq <= n.seq
  BY <1>3
<1>6. Older(o, S) = {}
  BY <1>4 DEF Older
<1>7. Newer(n, S) = {}
  BY <1>5 DEF Newer
<1>8. QED
  BY <1>6, <1>7

LEMMA NewestIs ==
    ASSUME NEW S, S # {}, NEW c \in Nat, \A e \in S : e.seq \in Nat /\ e.seq <= c
    PROVE  Newest(S) \in S /\ \A e \in S : e.seq <= Newest(S).seq
<1>1. Newest(S) \in S /\ Newer(Newest(S), S) = {}
  BY Extremes DEF Newest
<1>2. QED
  BY <1>1 DEF Newer

LEMMA ListingIs ==
    ASSUME NEW S, S # {}, NEW c \in Nat, \A e \in S : e.seq \in Nat /\ e.seq <= c
    PROVE  \E o \in S : Listing(S).first = o.id /\ \A e \in S : o.seq <= e.seq
<1> DEFINE o == CHOOSE e \in S : Older(e, S) = {}
<1>1. o \in S /\ Older(o, S) = {}
  BY Extremes
<1>2. Listing(S).first = o.id
  BY DEF Listing
<1>3. \A e \in S : o.seq <= e.seq
  BY <1>1 DEF Older
<1>4. QED
  BY <1>1, <1>2, <1>3

\* A window has the newest segments, and every other one has LiveWindow behind it.
LEMMA WindowIs ==
    ASSUME BaseInv, IndexInv, NEW cam
    PROVE  /\ Window(cam) \subseteq SegmentsForCamera(cam)
           /\ SegmentsForCamera(cam) # {} => Window(cam) # {}
           /\ \A e \in SegmentsForCamera(cam) :
                /\ Window(cam) # {} => e.seq <= Newest(Window(cam)).seq
                /\ Cardinality(Newer(e, SegmentsForCamera(cam))) \in Nat
                /\ e \notin Window(cam) =>
                    LiveWindow <= Cardinality(Newer(e, SegmentsForCamera(cam)))
<1> DEFINE S == SegmentsForCamera(cam)
<1>1. /\ S \subseteq entries /\ IsFiniteSet(S)
      /\ sent \in Nat /\ \A e \in S : e.seq \in Nat /\ e.seq <= sent
      /\ Window(cam) = {e \in S : Cardinality(Newer(e, S)) < LiveWindow}
  <2>1. S \subseteq entries
    BY DEF SegmentsForCamera
  <2>2. IsFiniteSet(S)
    BY <2>1, FS_Subset DEF IndexInv
  <2>3. QED
    BY <2>1, <2>2, EntriesSent, QueueType DEF Window, BaseInv
<1> HIDE DEF S
<1>2. \A e \in S : Cardinality(Newer(e, S)) \in Nat
  <2>1. \A e : IsFiniteSet(Newer(e, S))
    BY <1>1, FS_Subset DEF Newer
  <2>2. QED
    BY <2>1, FS_CardinalityType
<1>3. S # {} => \E n \in Window(cam) : \A e \in S : e.seq <= n.seq
  <2>1. SUFFICES ASSUME S # {} PROVE \E n \in Window(cam) : \A e \in S : e.seq <= n.seq
    OBVIOUS
  <2>2. PICK n \in S : Newer(n, S) = {}
    BY <1>1, <2>1, Extremes
  <2>3. n \in Window(cam)
    <3>1. Cardinality(Newer(n, S)) = 0 /\ 0 < LiveWindow
      BY <2>2, FS_EmptySet, PlaylistAssumption
    <3>2. QED
      BY <1>1, <3>1
  <2>4. \A e \in S : e.seq <= n.seq
    BY <1>1, <2>2 DEF Newer
  <2>5. QED
    BY <2>3, <2>4
<1>4. ASSUME NEW e \in S, Window(cam) # {} PROVE e.seq <= Newest(Window(cam)).seq
  <2>1. Newest(Window(cam)) \in S
        /\ \A f \in Window(cam) : f.seq <= Newest(Window(cam)).seq
    BY <1>1, <1>4, NewestIs
  <2>2. PICK n \in Window(cam) : e.seq <= n.seq
    BY <1>3
  <2>3. n.seq <= Newest(Window(cam)).seq /\ n \in S
    BY <1>1, <2>1
  <2>4. QED
    BY <1>1, <2>1, <2>2, <2>3
<1>5. \A e \in S : e \notin Window(cam) => LiveWindow <= Cardinality(Newer(e, S))
  BY <1>1, <1>2, PlaylistAssumption
<1>6. QED
  BY <1>1, <1>2, <1>3, <1>4, <1>5 DEF S

-----------------------------------------------------------------------------
\* Types, and the steps that give a player a playlist.

LEMMA LiveType ==
    ASSUME BaseInv, NEW cam
    PROVE  Live(cam) \in Playlist /\ Live(cam).segs = Window(cam)
<1>1. Window(cam) \subseteq entries /\ entries \subseteq SegmentMeta
  BY DEF Window, SegmentsForCamera, BaseInv, TypeInv, TypeOK, IndexTypeOK
<1>2. Live(cam).first \in Nat
  <2>1. CASE Window(cam) = {}
    BY <2>1 DEF Live, Listing
  <2>2. CASE Window(cam) # {}
    <3>1. sent \in Nat /\ \A e \in Window(cam) : e.seq \in Nat /\ e.seq <= sent
      BY <1>1, EntriesSent, QueueType DEF BaseInv
    <3>2. \E o \in Window(cam) : Listing(Window(cam)).first = o.id
      BY <2>2, <3>1, ListingIs
    <3>3. QED
      BY <1>1, <3>2, EntryNumbers DEF Live
  <2>3. QED
    BY <2>1, <2>2
<1>3. Live(cam) = [first |-> Live(cam).first, segs |-> Window(cam)]
  BY DEF Live, Listing
<1>4. QED
  BY <1>1, <1>2, <1>3 DEF Playlist

\* The player of a camera is given the playlist of now.
Given(cam) ==
    /\ pc # "down"
    /\ player' = [player EXCEPT ![cam] = Answered(cam)]
    /\ UNCHANGED vars

\* Its request moves on and its playlist stays.
Waits(cam) ==
    /\ pc # "down"
    /\ \A c \in Watched :
        /\ player'[c].list = player[c].list
        /\ player'[c].from = player[c].from
    /\ UNCHANGED vars

LEMMA GivenType ==
    ASSUME BaseInv, PlayTypeOK, NEW cam \in Watched, Given(cam)
    PROVE  PlayTypeOK'
<1>1. Answered(cam) \in [at : {"idle", "asking", "late"}, msn : Nat, polls : 0 .. MaxPolls,
                         list : Playlist, from : Nat]
  BY LiveType, PlaylistAssumption DEF Answered, PlayTypeOK, TypeOK
<1>2. TypeOK'
  BY DEF Given, PlayTypeOK, vars, TypeOK, PoolTypeOK, IndexTypeOK, poolVars, diskVars,
         memVars, appendVars, indexVars, writerVars, historyVars
<1>3. QED
  BY <1>1, <1>2 DEF Given, PlayTypeOK

\* A request is only there while a process answers it.
AskedInv == \A cam \in Watched : player[cam].at # "idle" => pc # "down"

LEMMA RequestStep ==
    ASSUME PlayTypeOK, AskedInv, NEW cam \in Watched,
           Load(cam) \/ Reload(cam) \/ \E msn \in 0 .. MaxSegments : Ask(cam, msn)
    PROVE  Given(cam) \/ Waits(cam)
<1>1. CASE Load(cam)
  BY <1>1 DEF Load, Serving, Given
<1>2. CASE Deliver(cam) \/ DeliverLate(cam)
  BY <1>2 DEF Deliver, DeliverLate, Given, AskedInv
<1>3. CASE Poll(cam)
  <2>1. /\ player' = [player EXCEPT ![cam].polls = player[cam].polls + 1]
        /\ UNCHANGED vars /\ player[cam].at = "asking"
    BY <1>3 DEF Poll
  <2>2. QED
    BY <2>1 DEF Waits, AskedInv, PlayTypeOK
<1>4. CASE Expire(cam)
  <2>1. /\ player' = [player EXCEPT ![cam].at = "late"]
        /\ UNCHANGED vars /\ player[cam].at = "asking"
    BY <1>4 DEF Expire
  <2>2. QED
    BY <2>1 DEF Waits, AskedInv, PlayTypeOK
<1>5. CASE \E msn \in 0 .. MaxSegments : Ask(cam, msn)
  <2>1. PICK msn \in 0 .. MaxSegments : Ask(cam, msn)
    BY <1>5
  <2>2. /\ player' = [player EXCEPT ![cam].at = "asking", ![cam].msn = msn]
        /\ UNCHANGED vars /\ pc # "down"
    BY <2>1 DEF Ask, Serving
  <2>3. QED
    BY <2>2 DEF Waits, PlayTypeOK
<1>6. QED
  BY <1>1, <1>2, <1>3, <1>4, <1>5 DEF Reload

\* What is not the recorder's step is one of these; a process that dies leaves the
\* playlists.
LEMMA PlayStep ==
    ASSUME PlayTypeOK, AskedInv, [PlayNext]_playVars
    PROVE  \/ Recorder
           \/ \E cam \in Watched : Given(cam)
           \/ \E cam \in Watched : Waits(cam)
           \/ UNCHANGED playVars
           \/ CrashServer
           \/ StartKilled /\ UNCHANGED player
BY RequestStep DEF PlayNext

LEMMA NextPlayTypeOK ==
    ASSUME BaseInv, TypeOK', PlayTypeOK, [PlayNext]_playVars
    PROVE  PlayTypeOK'
<1> DEFINE P == [at : {"idle", "asking", "late"}, msn : Nat, polls : 0 .. MaxPolls,
                 list : Playlist, from : Nat]
<1>1. player \in [Watched -> P] /\ MaxPolls \in Nat /\ Watched \subseteq Cameras
  BY PlaylistAssumption DEF PlayTypeOK
<1>2. SUFFICES player' \in [Watched -> P]
  BY DEF PlayTypeOK
<1>3. CASE Recorder \/ (StartKilled /\ UNCHANGED player) \/ UNCHANGED playVars
  BY <1>1, <1>3 DEF Recorder, playVars
<1>4. ASSUME NEW cam \in Watched, Load(cam) \/ Deliver(cam) \/ DeliverLate(cam)
      PROVE  player' \in [Watched -> P]
  <2>1. Answered(cam) \in P
    BY <1>1, LiveType DEF Answered, PlayTypeOK, TypeOK
  <2>2. player' = [player EXCEPT ![cam] = Answered(cam)]
    BY <1>4 DEF Load, Deliver, DeliverLate
  <2> HIDE DEF P
  <2>3. QED
    BY <1>1, <2>1, <2>2
<1>5. ASSUME NEW cam \in Watched, Poll(cam) \/ Expire(cam)
      PROVE  player' \in [Watched -> P]
  <2>1. player[cam] \in P
    BY <1>1
  <2>2. /\ [player[cam] EXCEPT !.at = "late"] \in P
        /\ player[cam].polls < MaxPolls =>
                [player[cam] EXCEPT !.polls = player[cam].polls + 1] \in P
    BY <1>1, <2>1
  <2>3. CASE Poll(cam)
    <3>1. /\ player' = [player EXCEPT ![cam] =
                            [player[cam] EXCEPT !.polls = player[cam].polls + 1]]
          /\ player[cam].polls < MaxPolls
      BY <2>3 DEF Poll
    <3> HIDE DEF P
    <3>2. QED
      BY <1>1, <2>2, <3>1
  <2>4. CASE Expire(cam)
    <3>1. player' = [player EXCEPT ![cam] = [player[cam] EXCEPT !.at = "late"]]
      BY <2>4 DEF Expire
    <3> HIDE DEF P
    <3>2. QED
      BY <1>1, <2>2, <3>1
  <2>5. QED
    BY <1>5, <2>3, <2>4
<1>6. ASSUME NEW cam \in Watched, NEW msn \in 0 .. MaxSegments, Ask(cam, msn)
      PROVE  player' \in [Watched -> P]
  <2>1. msn \in Nat /\ player[cam] \in P
    BY <1>1
  <2>2. [player[cam] EXCEPT !.at = "asking", !.msn = msn] \in P
    BY <2>1
  <2>3. player' = [player EXCEPT ![cam] = [player[cam] EXCEPT !.at = "asking", !.msn = msn]]
    BY <1>1, <1>6 DEF Ask
  <2> HIDE DEF P
  <2>4. QED
    BY <1>1, <2>2, <2>3
<1>7. CASE CrashServer
  <2>1. ASSUME NEW cam \in Watched
        PROVE  [player[cam] EXCEPT !.at = "idle", !.msn = 0, !.polls = 0] \in P
    <3>1. player[cam] \in P /\ 0 \in Nat /\ 0 \in 0 .. MaxPolls
      BY <1>1
    <3>2. QED
      BY <3>1
  <2> HIDE DEF P
  <2>2. QED
    BY <1>7, <2>1 DEF CrashServer
<1>8. QED
  BY <1>3, <1>4, <1>5, <1>6, <1>7 DEF PlayNext, Reload

\* What the recorder's step does to the index and to the numbers.
LEMMA RecorderStep ==
    ASSUME BaseInv, Recorder
    PROVE  /\ Next /\ player' = player /\ pc' # "down"
           /\ crashes' = crashes /\ sent <= sent'
           /\ pc' = "rebuild" => pc \in {"down", "rebuild"}
           /\ pc \notin {"down", "rebuild"} =>
                /\ segmentCounter <= segmentCounter'
                /\ \A e \in entries' \ entries : segmentCounter <= e.id
<1> USE DEF poolVars, indexVars, writerVars, historyVars
<1>1. Next /\ player' = player
  BY DEF Recorder, Next
<1>2. sent \in Nat /\ segmentCounter \in Nat
  BY DEF BaseInv, TypeInv, TypeOK, IndexTypeOK
<1>3. CASE Start \/ Rebuild \/ RebuildFails
  BY <1>1, <1>2, <1>3 DEF Start, Rebuild, RebuildFails
<1>4. CASE \E cam \in Cameras, size \in RecordSizes : Send(cam, size)
  BY <1>1, <1>2, <1>4 DEF Send
<1>5. CASE Receive \/ CheckStatus \/ Evict
  BY <1>1, <1>2, <1>5 DEF Receive, CheckStatus, Evict, EvictPool
<1>6. CASE BeginAppend \/ ContinueAppend \/ EndAppend \/ AppendFails
  BY <1>1, <1>2, <1>6 DEF BeginAppend, Drop, ContinueAppend, EndAppend, AppendFails
<1>7. CASE InsertSegment
  <2>1. /\ entries' = entries \cup {Meta(segmentCounter, req.seq, req.cam, AppendedAt(req))}
        /\ segmentCounter' = segmentCounter + 1
        /\ pc = "insert" /\ pc' = "recv" /\ UNCHANGED <<crashes, sent>>
    BY <1>7 DEF InsertSegment, Insert
  <2>2. \A e \in entries' \ entries : e.id = segmentCounter
    BY <2>1 DEF Meta
  <2>3. QED
    BY <1>1, <1>2, <2>1, <2>2
<1>8. QED
  BY <1>3, <1>4, <1>5, <1>6, <1>7 DEF Recorder, WriterStep

-----------------------------------------------------------------------------
\* What an id means to a player.

\* The playlist of the running process names segments by ids that are given out
\* and that no other segment has.
ListedInv(cam) ==
    /\ player[cam].from <= crashes
    /\ player[cam].at # "idle" => pc # "down"
    /\ \A x \in player[cam].list.segs : x.seq \in Nat /\ x.seq <= sent
    /\ player[cam].from = crashes =>
        /\ pc \in {"down", "rebuild"} => player[cam].list.segs = {}
        /\ \A x \in player[cam].list.segs :
            /\ x.id \in Nat /\ x.id < segmentCounter
            /\ \A e \in entries : e.id = x.id => e = x

AllListed == \A cam \in Watched : ListedInv(cam)

LEMMA PlayNumbers ==
    ASSUME PlayTypeOK
    PROVE  /\ sent \in Nat /\ crashes \in Nat /\ segmentCounter \in Nat
           /\ \A cam \in Watched :
                player[cam].from \in Nat /\ player[cam].list.first \in Nat
BY DEF PlayTypeOK, TypeOK, IndexTypeOK, Playlist

LEMMA WaitsListed ==
    ASSUME PlayTypeOK, AllListed, pc # "down", UNCHANGED vars, NEW cam \in Watched,
           player'[cam].list = player[cam].list, player'[cam].from = player[cam].from
    PROVE  ListedInv(cam)'
BY DEF AllListed, ListedInv, vars, indexVars, writerVars, historyVars

LEMMA GivenListed ==
    ASSUME BaseInv, IndexInv, PlayTypeOK, AllListed, NEW cam \in Watched, Given(cam)
    PROVE  AllListed'
<1>1. /\ pc # "down" /\ UNCHANGED vars
      /\ UNCHANGED <<pc, sent, crashes, entries, segmentCounter>>
      /\ player' = [player EXCEPT ![cam] = Answered(cam)]
  BY DEF Given, vars, indexVars, writerVars, historyVars
<1>2. ASSUME NEW c \in Watched, c # cam PROVE ListedInv(c)'
  <2>1. player'[c] = player[c]
    BY <1>1, <1>2 DEF PlayTypeOK
  <2>2. QED
    BY <1>1, <2>1, WaitsListed
<1>3. /\ player'[cam].at = "idle" /\ player'[cam].from = crashes
      /\ player'[cam].list.segs \subseteq entries
  <2>1. player'[cam] = Answered(cam)
    BY <1>1 DEF PlayTypeOK
  <2>2. Window(cam) \subseteq entries
    BY DEF Window, SegmentsForCamera
  <2>3. QED
    BY <2>1, <2>2, LiveType DEF Answered
<1>4. pc \in {"down", "rebuild"} => entries = {}
  BY DEF BaseInv, DiskInv, Extents
<1>5. \A x \in entries : /\ x.seq \in Nat /\ x.seq <= sent
                         /\ x.id \in Nat /\ x.id < segmentCounter
                         /\ \A e \in entries : e.id = x.id => e = x
  BY EntriesSent DEF IndexInv
<1>6. ListedInv(cam)'
  BY <1>1, <1>3, <1>4, <1>5, PlayNumbers DEF ListedInv
<1>7. QED
  BY <1>2, <1>6 DEF AllListed

LEMMA RecorderListed ==
    ASSUME BaseInv, BaseInv', IndexInv, PlayTypeOK, AllListed, Recorder
    PROVE  AllListed'
<1> SUFFICES ASSUME NEW cam \in Watched PROVE ListedInv(cam)'
  BY DEF AllListed
<1> DEFINE p == player[cam]
<1>1. /\ player' = player /\ pc' # "down" /\ crashes' = crashes
      /\ sent <= sent' /\ sent \in Nat /\ sent' \in Nat
      /\ segmentCounter \in Nat /\ segmentCounter' \in Nat
  BY RecorderStep, PlayNumbers DEF BaseInv, TypeInv, TypeOK, IndexTypeOK
<1>2. /\ p.from <= crashes
      /\ \A x \in p.list.segs : x.seq \in Nat /\ x.seq <= sent'
  BY <1>1 DEF AllListed, ListedInv
<1>3. ASSUME p.from = crashes, pc' \in {"down", "rebuild"} PROVE p.list.segs = {}
  BY <1>1, <1>3, RecorderStep DEF AllListed, ListedInv
<1>4. ASSUME p.from = crashes, NEW x \in p.list.segs
      PROVE  /\ x.id \in Nat /\ x.id < segmentCounter'
             /\ \A e \in entries' : e.id = x.id => e = x
  <2>1. /\ pc \notin {"down", "rebuild"} /\ x.id \in Nat /\ x.id < segmentCounter
        /\ \A e \in entries : e.id = x.id => e = x
    BY <1>4 DEF AllListed, ListedInv
  <2>2. /\ segmentCounter <= segmentCounter'
        /\ \A e \in entries' \ entries : segmentCounter <= e.id
    BY <2>1, RecorderStep
  <2>3. \A e \in entries' : e.id \in Nat
    BY DEF BaseInv, TypeInv, TypeOK, IndexTypeOK, SegmentMeta
  <2>4. QED
    BY <1>1, <2>1, <2>2, <2>3
<1>5. QED
  BY <1>1, <1>2, <1>3, <1>4 DEF ListedInv

LEMMA CrashListed ==
    ASSUME PlayTypeOK, AllListed, CrashServer
    PROVE  AllListed'
<1> SUFFICES ASSUME NEW cam \in Watched PROVE ListedInv(cam)'
  BY DEF AllListed
<1>1. /\ player'[cam].list = player[cam].list /\ player'[cam].from = player[cam].from
      /\ player'[cam].at = "idle"
  <2>1. player'[cam] = [player[cam] EXCEPT !.at = "idle", !.msn = 0, !.polls = 0]
    BY DEF CrashServer
  <2>2. player[cam] \in [at : {"idle", "asking", "late"}, msn : Nat,
                         polls : 0 .. MaxPolls, list : Playlist, from : Nat]
    BY DEF PlayTypeOK
  <2>3. QED
    BY <2>1, <2>2
<1>2. crashes' = crashes + 1 /\ sent' = sent
  BY DEF CrashServer, Crash
<1>3. player[cam].from < crashes'
  BY <1>2, PlayNumbers DEF AllListed, ListedInv
<1>4. QED
  BY <1>1, <1>2, <1>3, PlayNumbers DEF AllListed, ListedInv

LEMMA KilledListed ==
    ASSUME PlayTypeOK, AllListed, StartKilled, UNCHANGED player
    PROVE  AllListed'
<1> SUFFICES ASSUME NEW cam \in Watched PROVE ListedInv(cam)'
  BY DEF AllListed
<1>1. crashes' = crashes + 1 /\ sent' = sent /\ pc = "down"
  BY DEF StartKilled
<1>2. player[cam].from < crashes'
  BY <1>1, PlayNumbers DEF AllListed, ListedInv
<1>3. QED
  BY <1>1, <1>2, PlayNumbers DEF AllListed, ListedInv

CorePlay ==
    BaseInv /\ IndexInv /\ FreshInv /\ PlayTypeOK /\ AllListed

LEMMA PlayIsNext == [PlayNext]_playVars => [Next]_vars
BY DEF PlayNext, Recorder, Next, Load, Ask, Reload, Deliver, Poll, Expire, DeliverLate,
       CrashServer, playVars

LEMMA InitCorePlay == PlayInit => CorePlay
<1> SUFFICES ASSUME PlayInit PROVE CorePlay
  OBVIOUS
<1>1. BaseInv /\ IndexInv /\ FreshInv
  BY InitBaseInv, InitIndexInv DEF PlayInit, Init, FreshInv, FirstProcess
<1>2. /\ NewPlayer.at = "idle" /\ NewPlayer.msn = 0 /\ NewPlayer.polls = 0
      /\ NewPlayer.from = 0 /\ NewPlayer.list = [first |-> 0, segs |-> {}]
  BY DEF NewPlayer, Listing
<1>3. /\ 0 \in 0 .. MaxPolls
      /\ NewPlayer \in [at : {"idle", "asking", "late"}, msn : Nat, polls : 0 .. MaxPolls,
                        list : Playlist, from : Nat]
  BY PlaylistAssumption DEF NewPlayer, Listing, Playlist
<1>4. PlayTypeOK
  BY <1>1, <1>3 DEF PlayTypeOK, PlayInit, BaseInv, TypeInv
<1>5. AllListed
  <2>1. \A cam \in Watched : player[cam] = NewPlayer
    BY DEF PlayInit
  <2>2. QED
    BY <1>2, <2>1, PlayNumbers, <1>4 DEF AllListed, ListedInv
<1>6. QED
  BY <1>1, <1>4, <1>5 DEF CorePlay

LEMMA NextCorePlay == CorePlay /\ [PlayNext]_playVars => CorePlay'
<1> SUFFICES ASSUME CorePlay, [PlayNext]_playVars PROVE CorePlay'
  OBVIOUS
<1>1. BaseInv' /\ IndexInv' /\ FreshInv'
  BY PlayIsNext, NextBaseInv, NextIndexInv, NextFreshInv DEF CorePlay
<1>2. PlayTypeOK'
  BY <1>1, NextPlayTypeOK DEF CorePlay, BaseInv, TypeInv
<1>3. AllListed'
  <2>1. AskedInv
    BY DEF CorePlay, AllListed, ListedInv, AskedInv
  <2>2. CASE Recorder
    BY <1>1, <2>2, RecorderListed DEF CorePlay
  <2>3. CASE \E cam \in Watched : Given(cam)
    BY <2>3, GivenListed DEF CorePlay
  <2>4. CASE \E cam \in Watched : Waits(cam)
    BY <2>4, WaitsListed DEF Waits, CorePlay, AllListed
  <2>5. CASE UNCHANGED playVars
    BY <2>5 DEF playVars, vars, indexVars, writerVars, historyVars,
            CorePlay, AllListed, ListedInv
  <2>6. CASE CrashServer
    BY <2>6, CrashListed DEF CorePlay
  <2>7. CASE StartKilled /\ UNCHANGED player
    BY <2>7, KilledListed DEF CorePlay
  <2>8. QED
    BY <2>1, <2>2, <2>3, <2>4, <2>5, <2>6, <2>7, PlayStep DEF CorePlay
<1>4. QED
  BY <1>1, <1>2, <1>3 DEF CorePlay

\* Players and their playlists keep their types.
THEOREM PlayTypeCorrect == PlaySpec => []PlayTypeOK
<1>1. CorePlay => PlayTypeOK
  BY DEF CorePlay
<1>2. QED
  BY <1>1, InitCorePlay, NextCorePlay, PTL DEF PlaySpec

\* What handle_hls_segment finds under an id of a playlist is the segment that was
\* listed, as long as the process that sent the playlist lives, whatever was
\* recorded or evicted since, and whatever ring the process had opened.
THEOREM ListedStaysItselfHolds == PlaySpec => []ListedStaysItself
<1>1. CorePlay => ListedStaysItself
  BY DEF CorePlay, AllListed, ListedInv, ListedStaysItself, SegmentsForCamera
<1>2. QED
  BY <1>1, InitCorePlay, NextCorePlay, PTL DEF PlaySpec

-----------------------------------------------------------------------------
\* What a player sees moves forward.

\* Where the last playlist stands to the index of now: whatever is older than its
\* first segment is out of the window, and its last segment, or a newer one, is
\* there if any is. It says nothing of a playlist from another process.
WindowInv(cam) ==
    LET list == player[cam].list
        S == SegmentsForCamera(cam)
    IN  FirstProcess /\ player[cam].from = crashes /\ list.segs # {} =>
            /\ list.first < segmentCounter
            /\ \A f \in S : f.id < list.first => LiveWindow <= Cardinality(Newer(f, S))
            /\ \A x \in list.segs : S # {} => \E e \in S : x.id <= e.id

AllWindows == \A cam \in Watched : WindowInv(cam)

\* A playlist that is given now.
LEMMA LiveWindowIs ==
    ASSUME BaseInv, IndexInv, OrderInv, NEW cam, Window(cam) # {}
    PROVE  LET S == SegmentsForCamera(cam)
           IN  /\ \E o \in Window(cam) : Live(cam).first = o.id
               /\ Live(cam).first < segmentCounter
               /\ \A f \in S : f.id < Live(cam).first =>
                        LiveWindow <= Cardinality(Newer(f, S))
<1>1. /\ Window(cam) \subseteq entries
      /\ sent \in Nat /\ \A e \in entries : e.seq \in Nat /\ e.seq <= sent
  BY EntriesSent, QueueType DEF Window, SegmentsForCamera, BaseInv
<1>2. PICK o \in Window(cam) :
            Live(cam).first = o.id /\ \A e \in Window(cam) : o.seq <= e.seq
  BY <1>1, ListingIs DEF Live
<1>3. o.id < segmentCounter
  BY <1>1 DEF IndexInv
<1>4. ASSUME NEW f \in SegmentsForCamera(cam), f.id < o.id
      PROVE  f \notin Window(cam)
  <2>1. f \in entries /\ o \in entries
    BY <1>1 DEF SegmentsForCamera
  <2>2. f.seq < o.seq /\ f.seq \in Nat /\ o.seq \in Nat
    BY <1>1, <1>4, <2>1 DEF OrderInv, IdsChronological
  <2>3. QED
    BY <1>2, <2>2
<1>5. QED
  BY <1>2, <1>3, <1>4, WindowIs

LEMMA GivenWindow ==
    ASSUME CorePlay, AllWindows, NEW cam \in Watched, Given(cam)
    PROVE  AllWindows'
<1>1. /\ pc # "down"
      /\ UNCHANGED <<pc, session, crashes, entries, segmentCounter>>
      /\ player' = [player EXCEPT ![cam] = Answered(cam)]
  BY DEF Given, vars, indexVars, writerVars, historyVars
<1>2. ASSUME NEW c \in Watched, c # cam PROVE WindowInv(c)'
  <2>1. player'[c] = player[c]
    BY <1>1, <1>2 DEF CorePlay, PlayTypeOK
  <2>2. QED
    BY <1>1, <2>1 DEF AllWindows, WindowInv, FirstProcess, SegmentsForCamera, Newer
<1>3. player'[cam].list = Live(cam) /\ player'[cam].list.segs = Window(cam)
  <2>1. player'[cam] = Answered(cam)
    BY <1>1 DEF CorePlay, PlayTypeOK
  <2>2. QED
    BY <2>1, LiveType DEF Answered, CorePlay
<1>4. ASSUME FirstProcess, Window(cam) # {}
      PROVE  /\ Live(cam).first < segmentCounter
             /\ \A f \in SegmentsForCamera(cam) : f.id < Live(cam).first =>
                    LiveWindow <= Cardinality(Newer(f, SegmentsForCamera(cam)))
             /\ \A x \in Window(cam) : \E e \in SegmentsForCamera(cam) : x.id <= e.id
  <2>1. /\ Live(cam).first < segmentCounter
        /\ \A f \in SegmentsForCamera(cam) : f.id < Live(cam).first =>
                LiveWindow <= Cardinality(Newer(f, SegmentsForCamera(cam)))
    BY <1>4, LiveWindowIs DEF CorePlay, FreshInv
  <2>2. \A x \in Window(cam) : x \in SegmentsForCamera(cam) /\ x.id \in Nat
    BY EntriesSent DEF Window, SegmentsForCamera, CorePlay
  <2>3. \A x \in Window(cam) : x.id <= x.id
    BY <2>2
  <2>4. QED
    BY <2>1, <2>2, <2>3
<1>5. WindowInv(cam)'
  BY <1>1, <1>3, <1>4 DEF WindowInv, FirstProcess, SegmentsForCamera, Newer
<1>6. QED
  BY <1>2, <1>5 DEF AllWindows

LEMMA RecorderWindow ==
    ASSUME CorePlay, CorePlay', AllWindows, Recorder, NEW cam \in Watched
    PROVE  WindowInv(cam)'
<1> DEFINE list == player[cam].list
           S == SegmentsForCamera(cam)
<1>1. SUFFICES ASSUME FirstProcess', player[cam].from = crashes, list.segs # {}
               PROVE  /\ list.first < segmentCounter'
                      /\ \A f \in S' : f.id < list.first =>
                            LiveWindow <= Cardinality(Newer(f, S'))
                      /\ \A x \in list.segs : S' # {} => \E e \in S' : x.id <= e.id
  <2>1. player' = player /\ crashes' = crashes
    BY RecorderStep DEF CorePlay
  <2>2. QED
    BY <2>1 DEF WindowInv
<1>2. pc \notin {"down", "rebuild"}
  BY <1>1 DEF CorePlay, AllListed, ListedInv
<1>3. FirstProcess /\ OrderInv /\ AgeInv /\ [Next]_vars /\ ~StartKilled /\ ~Crash
  <2>1. ~Start /\ [Next]_vars /\ pc' # "down"
    BY <1>2, RecorderStep DEF Start, CorePlay
  <2>2. QED
    BY <1>1, <2>1, RunningStep DEF FirstProcess, CorePlay, FreshInv
<1>4. /\ segmentCounter <= segmentCounter'
      /\ \A e \in entries' \ entries : segmentCounter <= e.id
      /\ \A e \in entries \ entries', f \in entries \cap entries' : e.seq < f.seq
  BY <1>2, <1>3, RecorderStep, NextEvictsOldest DEF CorePlay
<1>5. /\ list.first < segmentCounter
      /\ \A f \in S : f.id < list.first => LiveWindow <= Cardinality(Newer(f, S))
      /\ \A x \in list.segs : S # {} => \E e \in S : x.id <= e.id
  BY <1>1, <1>3 DEF AllWindows, WindowInv
<1>6. /\ S = {e \in entries : e.cam = cam} /\ S' = {e \in entries' : e.cam = cam}
      /\ \A e \in entries \cup entries' : e.id \in Nat /\ e.seq \in Nat
      /\ segmentCounter \in Nat /\ segmentCounter' \in Nat /\ list.first \in Nat
      /\ \A x \in list.segs : x.id \in Nat /\ x.id < segmentCounter
      /\ LiveWindow \in Nat
      /\ IsFiniteSet(S) /\ IsFiniteSet(S')
  <2>1. \A e \in entries \cup entries' : e.id \in Nat /\ e.seq \in Nat
    BY EntryNumbers DEF CorePlay, BaseInv, TypeInv, TypeOK, IndexTypeOK, SegmentMeta
  <2>2. segmentCounter \in Nat /\ segmentCounter' \in Nat /\ list.first \in Nat
    BY PlayNumbers DEF CorePlay, PlayTypeOK, TypeOK, IndexTypeOK
  <2>3. \A x \in list.segs : x.id \in Nat /\ x.id < segmentCounter
    BY <1>1 DEF CorePlay, AllListed, ListedInv
  <2>4. IsFiniteSet(entries) /\ IsFiniteSet(entries')
    BY DEF CorePlay, IndexInv
  <2>5. S = {e \in entries : e.cam = cam} /\ S' = {e \in entries' : e.cam = cam}
    BY DEF SegmentsForCamera
  <2>6. IsFiniteSet(S) /\ IsFiniteSet(S')
    BY <2>4, <2>5, FS_Subset
  <2>7. QED
    BY <2>1, <2>2, <2>3, <2>5, <2>6, PlaylistAssumption
<1> HIDE DEF list, S
<1>7. ASSUME NEW f \in S', f.id < list.first
      PROVE  LiveWindow <= Cardinality(Newer(f, S'))
  <2>1. f \in S
    BY <1>4, <1>5, <1>6, <1>7
  <2>2. Newer(f, S) \subseteq Newer(f, S')
    BY <1>4, <1>6, <1>7, <2>1 DEF Newer
  <2>3. IsFiniteSet(Newer(f, S')) /\ IsFiniteSet(Newer(f, S))
    BY <1>6, FS_Subset DEF Newer
  <2>4. /\ Cardinality(Newer(f, S)) <= Cardinality(Newer(f, S'))
        /\ Cardinality(Newer(f, S)) \in Nat /\ Cardinality(Newer(f, S')) \in Nat
    BY <2>2, <2>3, FS_Subset, FS_CardinalityType
  <2>5. LiveWindow <= Cardinality(Newer(f, S))
    BY <1>5, <1>7, <2>1
  <2>6. QED
    BY <1>6, <2>4, <2>5
<1>8. ASSUME NEW x \in list.segs, NEW g \in S'
      PROVE  \E e \in S' : x.id <= e.id
  <2>1. CASE g \notin S
    <3>1. segmentCounter <= g.id
      BY <1>4, <1>6, <2>1
    <3>2. QED
      BY <1>6, <3>1
  <2>2. CASE g \in S
    <3>1. PICK e \in S : x.id <= e.id
      BY <1>5, <2>2
    <3>2. CASE e \in S'
      BY <3>1, <3>2
    <3>3. CASE e \notin S'
      <4>1. e.seq < g.seq /\ e \in entries /\ g \in entries
        BY <1>4, <1>6, <2>2, <3>3
      <4>2. e.id < g.id
        BY <1>3, <4>1 DEF OrderInv, IdsChronological
      <4>3. QED
        BY <1>6, <3>1, <4>1, <4>2
    <3>4. QED
      BY <3>2, <3>3
  <2>3. QED
    BY <2>1, <2>2
<1>9. list.first < segmentCounter'
  BY <1>4, <1>5, <1>6
<1>10. QED
  BY <1>7, <1>8, <1>9

LEMMA SameListWindow ==
    ASSUME AllWindows, NEW cam \in Watched,
           UNCHANGED <<pc, session, crashes, entries, segmentCounter>>,
           player'[cam].list = player[cam].list, player'[cam].from = player[cam].from
    PROVE  WindowInv(cam)'
<1>1. SegmentsForCamera(cam)' = SegmentsForCamera(cam)
  BY DEF SegmentsForCamera
<1>2. FirstProcess' = FirstProcess
  BY DEF FirstProcess
<1>3. QED
  BY <1>1, <1>2 DEF AllWindows, WindowInv

LEMMA NextAllWindows ==
    ASSUME CorePlay, AllWindows, [PlayNext]_playVars
    PROVE  AllWindows'
<1> USE DEF vars, indexVars, writerVars, historyVars
<1>1. CASE Recorder
  BY <1>1, NextCorePlay, RecorderWindow DEF AllWindows
<1>2. CASE \E cam \in Watched : Given(cam)
  BY <1>2, GivenWindow
<1>3. CASE (\E cam \in Watched : Waits(cam)) \/ UNCHANGED playVars
  BY <1>3, SameListWindow DEF Waits, playVars, AllWindows
<1>4. CASE CrashServer \/ StartKilled
  BY <1>4 DEF CrashServer, Crash, StartKilled, AllWindows, WindowInv, FirstProcess
<1>5. QED
  <2>1. PlayTypeOK /\ AskedInv
    BY DEF CorePlay, AllListed, ListedInv, AskedInv
  <2>2. QED
    BY <1>1, <1>2, <1>3, <1>4, <2>1, PlayStep

LEMMA InitAllWindows == PlayInit => AllWindows
BY DEF PlayInit, Init, AllWindows, WindowInv, FirstProcess

\* The segment a playlist ends with, also that of a process that is gone.
LEMMA ListEnd ==
    ASSUME CorePlay, NEW cam \in Watched, player[cam].list.segs # {}
    PROVE  /\ Newest(player[cam].list.segs) \in player[cam].list.segs
           /\ Newest(player[cam].list.segs).id \in Nat
<1>1. player[cam].list.segs \subseteq SegmentMeta
  BY DEF CorePlay, PlayTypeOK, Playlist
<1>2. sent \in Nat /\ \A x \in player[cam].list.segs : x.seq \in Nat /\ x.seq <= sent
  BY PlayNumbers DEF CorePlay, AllListed, ListedInv
<1>3. Newest(player[cam].list.segs) \in player[cam].list.segs
  BY <1>2, NewestIs
<1>4. QED
  BY <1>1, <1>3 DEF SegmentMeta

\* The newest segment of a camera is the last of its window.
LEMMA WindowEnd ==
    ASSUME BaseInv, IndexInv, IdsChronological, NEW cam,
           NEW e \in SegmentsForCamera(cam)
    PROVE  Newest(Window(cam)) \in entries /\ e.id <= Newest(Window(cam)).id
<1> DEFINE n == Newest(Window(cam))
<1>1. /\ Window(cam) # {} /\ Window(cam) \subseteq SegmentsForCamera(cam)
      /\ e.seq <= n.seq /\ SegmentsForCamera(cam) \subseteq entries
  BY WindowIs DEF SegmentsForCamera
<1>2. sent \in Nat /\ \A x \in entries : x.id \in Nat /\ x.seq \in Nat /\ x.seq <= sent
  BY EntriesSent, QueueType DEF BaseInv
<1>3. n \in Window(cam)
  <2>1. \A x \in Window(cam) : x.seq \in Nat /\ x.seq <= sent
    BY <1>1, <1>2
  <2>2. QED
    BY <1>1, <1>2, <2>1, NewestIs
<1> HIDE DEF n
<1>4. n \in entries /\ e \in entries
  BY <1>1, <1>3
<1>5. ~(n.id < e.id)
  BY <1>1, <1>2, <1>4 DEF IdsChronological
<1>6. QED
  BY <1>2, <1>4, <1>5 DEF n

LEMMA ListsForward ==
    ASSUME CorePlay, AllWindows, [PlayNext]_playVars, NEW cam \in Watched,
           session = 0, player[cam].from = player'[cam].from,
           player[cam].list.segs # {}, player'[cam].list.segs # {}
    PROVE  /\ player[cam].list.first <= player'[cam].list.first
           /\ Newest(player[cam].list.segs).id <= Newest(player'[cam].list.segs).id
<1> DEFINE old == player[cam].list
<1>1. old.first \in Nat /\ Newest(old.segs).id \in Nat /\ Newest(old.segs) \in old.segs
  BY ListEnd, PlayNumbers DEF CorePlay
<1>2. CASE player'[cam].list = old
  BY <1>1, <1>2
<1>3. CASE Given(cam)
  <2>1. pc # "down" /\ player'[cam] = Answered(cam)
    BY <1>3 DEF Given, CorePlay, PlayTypeOK
  <2>2. /\ player'[cam].list = Live(cam) /\ player'[cam].list.segs = Window(cam)
        /\ player[cam].from = crashes /\ Window(cam) # {}
    BY <2>1, LiveType DEF Answered, CorePlay
  <2>3. FirstProcess /\ OrderInv /\ IdsChronological
    BY <2>1 DEF FirstProcess, CorePlay, FreshInv, OrderInv
  <2>4. /\ Window(cam) \subseteq SegmentsForCamera(cam)
        /\ \A f \in SegmentsForCamera(cam) :
            f.id < old.first => LiveWindow <= Cardinality(Newer(f, SegmentsForCamera(cam)))
        /\ \E e \in SegmentsForCamera(cam) : Newest(old.segs).id <= e.id
    BY <1>1, <2>2, <2>3 DEF AllWindows, WindowInv, Window
  <2>5. old.first <= Live(cam).first
    <3>1. PICK o \in Window(cam) : Live(cam).first = o.id
      BY <2>2, <2>3, LiveWindowIs DEF CorePlay
    <3>2. /\ Cardinality(Newer(o, SegmentsForCamera(cam))) < LiveWindow
          /\ Cardinality(Newer(o, SegmentsForCamera(cam))) \in Nat /\ LiveWindow \in Nat
      BY <2>4, WindowIs, PlaylistAssumption DEF Window, CorePlay
    <3>3. ~(o.id < old.first)
      BY <2>4, <3>2
    <3>4. o.id \in Nat
      BY <2>4, EntriesSent DEF SegmentsForCamera, CorePlay
    <3>5. QED
      BY <1>1, <3>1, <3>3, <3>4
  <2>6. Newest(old.segs).id <= Newest(Window(cam)).id
    <3>1. PICK e \in SegmentsForCamera(cam) : Newest(old.segs).id <= e.id
      BY <2>4
    <3>2. /\ Newest(Window(cam)) \in entries /\ e \in entries
          /\ e.id <= Newest(Window(cam)).id
      BY <2>3, WindowEnd DEF CorePlay, SegmentsForCamera
    <3>3. e.id \in Nat /\ Newest(Window(cam)).id \in Nat
      BY <3>2, EntriesSent DEF CorePlay
    <3>4. QED
      BY <1>1, <3>1, <3>2, <3>3
  <2>7. QED
    BY <2>2, <2>5, <2>6
<1>4. player'[cam].list = old \/ Given(cam)
  <2>1. PlayTypeOK /\ AskedInv
    BY DEF CorePlay, AllListed, ListedInv, AskedInv
  <2>2. CASE \E c \in Watched : Given(c)
    BY <2>1, <2>2 DEF Given, PlayTypeOK
  <2>3. CASE CrashServer
    <3>1. player'[cam] = [player[cam] EXCEPT !.at = "idle", !.msn = 0, !.polls = 0]
      BY <2>3 DEF CrashServer
    <3>2. player[cam] \in [at : {"idle", "asking", "late"}, msn : Nat,
                           polls : 0 .. MaxPolls, list : Playlist, from : Nat]
      BY DEF CorePlay, PlayTypeOK
    <3>3. QED
      BY <3>1, <3>2
  <2>4. CASE \/ Recorder \/ \E c \in Watched : Waits(c)
             \/ UNCHANGED playVars \/ UNCHANGED player
    BY <2>4 DEF Recorder, Waits, playVars
  <2>5. QED
    BY <2>1, <2>2, <2>3, <2>4, PlayStep
<1>5. QED
  BY <1>2, <1>3, <1>4

\* In the process that began with an empty ring a player's window only moves
\* forward: eviction takes the oldest, so what has left the window has still
\* LiveWindow segments behind it, or has left the index.
THEOREM LiveForwardHolds == PlaySpec => LiveForward
<1>1. PlayInit => CorePlay /\ AllWindows
  BY InitCorePlay, InitAllWindows
<1>2. CorePlay /\ AllWindows /\ [PlayNext]_playVars => (CorePlay /\ AllWindows)'
  BY NextCorePlay, NextAllWindows
<1>3. CorePlay /\ AllWindows /\ [PlayNext]_playVars
        => [\A cam \in Watched :
                LET old == player[cam].list
                    new == player'[cam].list
                IN  /\ session = 0 /\ player[cam].from = player'[cam].from
                    /\ old.segs # {} /\ new.segs # {}
                    => /\ old.first <= new.first
                       /\ Newest(old.segs).id <= Newest(new.segs).id]_playVars
  BY ListsForward
<1>4. QED
  BY <1>1, <1>2, <1>3, PTL DEF PlaySpec, LiveForward

LEMMA WindowConvex ==
    ASSUME BaseInv, IndexInv, OrderInv, NEW cam,
           NEW a \in Window(cam), NEW g \in SegmentsForCamera(cam), a.id < g.id
    PROVE  g \in Window(cam)
<1> DEFINE S == SegmentsForCamera(cam)
<1>1. S \subseteq entries /\ a \in S /\ \A x \in S : x.seq \in Nat
  BY EntriesSent DEF SegmentsForCamera, Window
<1>2. a.seq < g.seq
  BY <1>1 DEF OrderInv, IdsChronological
<1>3. Newer(g, S) \subseteq Newer(a, S)
  BY <1>1, <1>2 DEF Newer
<1>4. IsFiniteSet(Newer(a, S))
  BY <1>1, FS_Subset DEF IndexInv, Newer
<1>5. /\ Cardinality(Newer(g, S)) <= Cardinality(Newer(a, S))
      /\ Cardinality(Newer(g, S)) \in Nat /\ Cardinality(Newer(a, S)) \in Nat
  BY <1>3, <1>4, FS_Subset, FS_CardinalityType
<1>6. Cardinality(Newer(a, S)) < LiveWindow /\ LiveWindow \in Nat
  BY PlaylistAssumption DEF Window
<1>7. QED
  BY <1>5, <1>6 DEF Window

LEMMA DeliverShows ==
    ASSUME CorePlay, NEW cam \in Watched, Deliver(cam), IdsChronological,
           player'[cam].list.segs # {}
    PROVE  Newest(player'[cam].list.segs).id >= player[cam].msn
<1>1. player'[cam] = Answered(cam)
  BY DEF Deliver, CorePlay, PlayTypeOK
<1>2. player'[cam].list.segs = Window(cam) /\ Window(cam) # {}
  BY <1>1, LiveType DEF Answered, CorePlay
<1>3. player[cam].msn \in Nat
  BY DEF CorePlay, PlayTypeOK
<1>4. SegmentsForCamera(cam) # {}
  BY <1>2 DEF Window
<1>5. PICK e \in SegmentsForCamera(cam) : ~(e.id < player[cam].msn)
  BY <1>4 DEF Deliver, Withheld
<1>6. /\ e \in entries /\ Newest(Window(cam)) \in entries
      /\ e.id <= Newest(Window(cam)).id
  BY WindowEnd DEF CorePlay, SegmentsForCamera
<1>7. e.id \in Nat /\ Newest(Window(cam)).id \in Nat
  BY <1>6, EntriesSent DEF CorePlay
<1>8. QED
  BY <1>2, <1>3, <1>5, <1>6, <1>7

\* From its first id on a window lists all that the camera has.
LEMMA DeliverWhole ==
    ASSUME CorePlay, NEW cam \in Watched, Deliver(cam), OrderInv,
           NEW e \in SegmentsForCamera(cam), e.id >= player'[cam].list.first
    PROVE  e \in player'[cam].list.segs
<1>1. player'[cam] = Answered(cam)
  BY DEF Deliver, CorePlay, PlayTypeOK
<1>2. player'[cam].list = Live(cam) /\ player'[cam].list.segs = Window(cam)
  BY <1>1, LiveType DEF Answered, CorePlay
<1>3. Window(cam) # {} /\ Window(cam) \subseteq SegmentsForCamera(cam)
  BY WindowIs DEF CorePlay
<1>4. PICK o \in Window(cam) : Live(cam).first = o.id
  BY <1>3, LiveWindowIs DEF CorePlay
<1>5. o \in entries /\ e \in entries /\ o.id \in Nat /\ e.id \in Nat /\ o.id <= e.id
  BY <1>2, <1>3, <1>4, EntriesSent DEF SegmentsForCamera, CorePlay
<1>6. CASE o.id = e.id
  BY <1>2, <1>5, <1>6 DEF CorePlay, IndexInv
<1>7. CASE o.id < e.id
  BY <1>2, <1>7, WindowConvex DEF CorePlay
<1>8. QED
  BY <1>5, <1>6, <1>7

\* In the process that began with an empty ring a blocking reload answered before
\* its deadline shows the segment waited for or a newer one, and no hole: the ids
\* the wait looks at are in the order of the times the window is cut by, whatever
\* was evicted, has failed or was recorded of other cameras.
THEOREM ReloadShowsSegmentHolds == PlaySpec => ReloadShowsSegment
<1>1. ASSUME CorePlay, NEW cam \in Watched, Deliver(cam), session = 0
      PROVE  OrderInv /\ IdsChronological
  <2>1. pc # "down"
    BY <1>1 DEF CorePlay, AllListed, ListedInv, Deliver
  <2>2. QED
    BY <1>1, <2>1 DEF CorePlay, FreshInv, FirstProcess, OrderInv
<1>2. CorePlay => [\A cam \in Watched :
        LET new == player'[cam].list
        IN  Deliver(cam) /\ session = 0 =>
                /\ new.segs # {} => Newest(new.segs).id >= player[cam].msn
                /\ \A e \in SegmentsForCamera(cam) :
                        e.id >= new.first => e \in new.segs]_playVars
  BY <1>1, DeliverShows, DeliverWhole
<1>3. QED
  BY <1>2, InitCorePlay, NextCorePlay, PTL DEF PlaySpec, ReloadShowsSegment

-----------------------------------------------------------------------------
\* The numbers of a manifest of a recorder with one camera.

\* Behind an indexed segment no id is missing.
NoGapInv ==
    \A e \in entries : \A n \in Nat :
        e.id <= n /\ n < segmentCounter => \E g \in entries : g.id = n

LEMMA NextNoGapInv ==
    ASSUME CorePlay, CorePlay', FirstProcess => NoGapInv, [PlayNext]_playVars, FirstProcess'
    PROVE  NoGapInv'
<1>1. CASE UNCHANGED vars
  BY <1>1 DEF vars, indexVars, writerVars, historyVars, FirstProcess, NoGapInv
<1>2. CASE Recorder /\ pc \in {"down", "rebuild"}
  <2>1. CASE Start
    BY <2>1, StartFreshInv DEF FirstProcess, CorePlay, FreshInv, OrderInv, Start, NoGapInv
  <2>2. CASE ~Start
    <3>1. FirstProcess /\ OrderInv /\ entries = {}
      BY <1>2, <2>2, RecorderStep, RunningStep
         DEF FirstProcess, CorePlay, FreshInv, OrderInv
    <3>2. \/ Rebuild \/ RebuildFails
          \/ \E cam \in Cameras, size \in RecordSizes : Send(cam, size)
      BY <1>2, <2>2 DEF Recorder, WriterStep, Receive, CheckStatus, Evict, BeginAppend,
                        ContinueAppend, EndAppend, InsertSegment, AppendFails
    <3>3. entries' = {}
      BY <3>1, <3>2, RebuildFindsNothing DEF RebuildFails, Send, indexVars, CorePlay
    <3>4. QED
      BY <3>3 DEF NoGapInv
  <2>3. QED
    BY <2>1, <2>2
<1>3. CASE Recorder /\ pc \notin {"down", "rebuild"}
  <2>1. /\ [Next]_vars /\ pc # "down" /\ ~StartKilled /\ ~Crash
        /\ session = 0
    BY <1>3, RecorderStep, RunningStep DEF FirstProcess, CorePlay, Start
  <2>2. OrderInv /\ AgeInv /\ NoGapInv
    BY <2>1 DEF FirstProcess, CorePlay, FreshInv
  <2>3. \A e \in entries : e.id \in Nat /\ e.seq \in Nat
    BY EntryNumbers DEF CorePlay
  <2>4. segmentCounter \in Nat
    BY PlayNumbers DEF CorePlay
  <2>5. CASE InsertSegment
    <3> DEFINE new == Meta(segmentCounter, req.seq, req.cam, AppendedAt(req))
    <3>1. /\ entries' = entries \cup {new} /\ segmentCounter' = segmentCounter + 1
          /\ new.id = segmentCounter
      BY <2>5 DEF InsertSegment, Insert, Meta
    <3> HIDE DEF new
    <3>2. QED
      BY <2>2, <2>3, <2>4, <3>1 DEF NoGapInv
  <2>6. CASE ~InsertSegment
    <3>1. entries' \subseteq entries /\ segmentCounter' = segmentCounter
      BY <1>3, <2>6 DEF Recorder, WriterStep, Start, Rebuild, RebuildFails, Send, Receive,
                        CheckStatus, Evict, EvictPool, BeginAppend, ContinueAppend,
                        EndAppend, AppendFails, indexVars
    <3>2. ASSUME NEW e \in entries', NEW n \in Nat, e.id <= n, n < segmentCounter'
          PROVE  \E g \in entries' : g.id = n
      <4>1. PICK g \in entries : g.id = n
        BY <2>2, <3>1, <3>2 DEF NoGapInv
      <4>2. CASE g \notin entries'
        <5>1. g.seq < e.seq /\ e \in entries
          BY <2>1, <2>2, <3>1, <4>2, NextEvictsOldest DEF CorePlay
        <5>2. g.id < e.id
          BY <2>2, <5>1 DEF OrderInv, IdsChronological
        <5>3. QED
          BY <2>3, <3>2, <4>1, <5>1, <5>2
      <4>3. QED
        BY <4>1, <4>2
    <3>3. QED
      BY <3>2 DEF NoGapInv
  <2>7. QED
    BY <2>5, <2>6
<1>4. CASE CrashServer \/ StartKilled
  BY <1>4 DEF CrashServer, Crash, StartKilled, FirstProcess, writerVars
<1>5. QED
  <2>1. PlayTypeOK /\ AskedInv
    BY DEF CorePlay, AllListed, ListedInv, AskedInv
  <2>2. QED
    BY <1>1, <1>2, <1>3, <1>4, <2>1, PlayStep DEF Given, Waits, playVars

\* A part of the index that leaves out nothing in its middle is numbered from its
\* first id on.
LEMMA Consecutive ==
    ASSUME BaseInv, IndexInv, OrderInv, NoGapInv, NEW W \in SUBSET entries,
           \A a \in W, b \in W, g \in entries : a.id < g.id /\ g.id < b.id => g \in W,
           NEW e \in W
    PROVE  DashNumber(Listing(W), e) = e.id
<1>1. /\ sent \in Nat /\ segmentCounter \in Nat
      /\ \A x \in entries : /\ x.id \in Nat /\ x.seq \in Nat /\ x.seq <= sent
                            /\ x.id < segmentCounter
  BY EntriesSent, QueueType DEF BaseInv, IndexInv, TypeInv, TypeOK, IndexTypeOK
<1>2. PICK o \in W : Listing(W).first = o.id /\ \A x \in W : o.seq <= x.seq
  BY <1>1, ListingIs
<1>3. \A x \in W : o.id <= x.id
  BY <1>1, <1>2 DEF OrderInv, IdsChronological
<1> DEFINE O == Older(e, W)
           idOf == [x \in O |-> x.id]
<1>4. \A x \in entries : x \in O <=> x \in W /\ x.id < e.id
  BY DEF Older, OrderInv, IdsChronological
<1>5. O \subseteq entries
  BY DEF Older
<1>6. idOf \in [O -> o.id .. e.id - 1]
  BY <1>1, <1>3, <1>4, <1>5
<1>7. \A x, y \in O : idOf[x] = idOf[y] => x = y
  BY <1>5 DEF IndexInv
<1>8. \A n \in o.id .. e.id - 1 : \E x \in O : idOf[x] = n
  <2>1. TAKE n \in o.id .. e.id - 1
  <2>2. n \in Nat /\ o.id <= n /\ n < e.id /\ n < segmentCounter
    BY <1>1
  <2>3. PICK g \in entries : g.id = n
    BY <2>2 DEF NoGapInv
  <2>4. g \in W
    <3>1. CASE g.id = o.id
      BY <2>3, <3>1 DEF IndexInv
    <3>2. CASE o.id < g.id
      BY <2>2, <2>3, <3>2
    <3>3. QED
      BY <1>1, <2>2, <2>3, <3>1, <3>2
  <2>5. g \in O
    BY <1>4, <2>2, <2>3, <2>4
  <2>6. QED
    BY <2>3, <2>5
<1>9. Cardinality(O) = e.id - o.id
  <2>1. idOf \in Bijection(O, o.id .. e.id - 1)
    BY <1>6, <1>7, <1>8 DEF Bijection, Injection, Surjection, IsInjective
  <2>2. IsFiniteSet(O)
    BY <1>5, FS_Subset DEF IndexInv
  <2> HIDE DEF O, idOf
  <2>3. Cardinality(O) = Cardinality(o.id .. e.id - 1)
    BY <2>1, <2>2, FS_Bijection DEF ExistsBijection
  <2>4. ASSUME NEW a \in Int, NEW c \in Int, a <= c
        PROVE  Cardinality(a .. c - 1) = c - a
    <3>1. c - 1 \in Int
      BY <2>4
    <3>2. Cardinality(a .. c - 1) = IF a > c - 1 THEN 0 ELSE c - 1 - a + 1
      BY <3>1, FS_Interval
    <3>3. QED
      BY <2>4, <3>2
  <2>5. o.id \in Int /\ e.id \in Int /\ o.id <= e.id
    BY <1>1, <1>3
  <2>6. Cardinality(o.id .. e.id - 1) = e.id - o.id
    BY <2>4, <2>5, Zenon
  <2>7. QED
    BY <2>3, <2>6
<1>10. DashNumber(Listing(W), e) = o.id + Cardinality(O)
  BY <1>2 DEF DashNumber, Listing
<1>11. QED
  BY <1>1, <1>9, <1>10

LEMMA RangeConvex ==
    ASSUME BaseInv, OrderInv, NEW cam, NEW from \in Nat, NEW to \in Nat,
           NEW a \in SegmentsInRange(cam, from, to),
           NEW b \in SegmentsInRange(cam, from, to),
           NEW g \in SegmentsForCamera(cam), a.id < g.id, g.id < b.id
    PROVE  g \in SegmentsInRange(cam, from, to)
<1>1. /\ a \in entries /\ b \in entries /\ g \in entries
      /\ a.seq + 1 > from /\ b.seq < to
  BY DEF SegmentsForCamera, SegmentsInRange
<1>2. a.seq < g.seq /\ g.seq < b.seq
  BY <1>1 DEF OrderInv, IdsChronological
<1>3. a.seq \in Nat /\ b.seq \in Nat /\ g.seq \in Nat
  BY <1>1, EntryNumbers
<1>4. g.seq < to /\ g.seq + 1 > from
  BY <1>1, <1>2, <1>3
<1>5. QED
  BY <1>4 DEF SegmentsInRange

\* With one camera every id is that camera's, and until a restart the manifest's
\* numbers are the ids: what the run playlists_numbers refutes takes two cameras.
THEOREM OneCameraManifests ==
    ASSUME NEW only, Cameras = {only}
    PROVE  PlaySpec => [](session = 0 => ManifestNamesSegments)
<1> DEFINE Inv == CorePlay /\ (FirstProcess => NoGapInv)
<1>1. PlayInit => Inv
  BY InitCorePlay DEF PlayInit, Init, FirstProcess
<1>2. Inv /\ [PlayNext]_playVars => Inv'
  BY NextCorePlay, NextNoGapInv
<1>3. Inv => (session = 0 => ManifestNamesSegments)
  <2>1. SUFFICES ASSUME Inv, session = 0, NEW cam \in Cameras
                 PROVE  /\ \A e \in Window(cam) : DashNumber(Live(cam), e) = e.id
                        /\ \A from, to \in 1 .. MaxSegments :
                            \A e \in SegmentsInRange(cam, from, to) :
                                DashNumber(Vod(cam, from, to), e) = e.id
    BY DEF ManifestNamesSegments
  <2>2. CASE pc = "down"
    <3>1. entries = {}
      BY <2>1, <2>2 DEF CorePlay, BaseInv, DiskInv, Extents
    <3>2. QED
      BY <3>1 DEF Window, SegmentsInRange, SegmentsForCamera
  <2>3. CASE pc # "down"
    <3>1. BaseInv /\ IndexInv /\ OrderInv /\ NoGapInv
      BY <2>1, <2>3 DEF CorePlay, FreshInv, FirstProcess
    <3>2. SegmentsForCamera(cam) = entries
      <4>1. \A e \in entries : e.cam \in Cameras
        BY <3>1 DEF BaseInv, TypeInv, TypeOK, IndexTypeOK, SegmentMeta
      <4>2. QED
        BY <4>1 DEF SegmentsForCamera
    <3>3. ASSUME NEW e \in Window(cam) PROVE DashNumber(Live(cam), e) = e.id
      <4>1. Window(cam) \in SUBSET entries
        BY <3>2 DEF Window
      <4>2. \A a \in Window(cam), b \in Window(cam), g \in entries :
                a.id < g.id /\ g.id < b.id => g \in Window(cam)
        BY <3>1, <3>2, WindowConvex
      <4>3. QED
        BY <3>1, <4>1, <4>2, Consecutive DEF Live
    <3>4. ASSUME NEW from \in 1 .. MaxSegments, NEW to \in 1 .. MaxSegments,
                 NEW e \in SegmentsInRange(cam, from, to)
          PROVE  DashNumber(Vod(cam, from, to), e) = e.id
      <4> DEFINE W == SegmentsInRange(cam, from, to)
      <4>1. W \in SUBSET entries /\ e \in W
        BY <3>2 DEF SegmentsInRange
      <4>2. from \in Nat /\ to \in Nat
        BY WriterAssumption
      <4>3. \A a \in W, b \in W, g \in entries :
                a.id < g.id /\ g.id < b.id => g \in W
        BY <3>1, <3>2, <4>2, RangeConvex
      <4>4. Vod(cam, from, to) = Listing(W)
        BY DEF Vod
      <4> HIDE DEF W
      <4>5. QED
        BY <3>1, <4>1, <4>3, <4>4, Consecutive
    <3>5. QED
      BY <3>3, <3>4
  <2>4. QED
    BY <2>2, <2>3
<1>4. QED
  BY <1>1, <1>2, <1>3, PTL DEF PlaySpec

==============================================================================
