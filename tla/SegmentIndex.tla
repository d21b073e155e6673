----------------------------- MODULE SegmentIndex -----------------------------
(***************************************************************************)
(* The in-memory index of src/src/storage/index.rs. The B-tree map, keyed  *)
(* by (camera, start time, id), is the set of its values: the key is part  *)
(* of the value, and ids are unique. seq stands for the start time.        *)
(***************************************************************************)
EXTENDS ChunkPool

VARIABLES
    entries,         \* the SegmentMetas, each with its location
    segmentCounter   \* the id of the next segment

indexVars == <<entries, segmentCounter>>

SegmentMeta == [id : Nat, seq : Nat \ {0}, cam : Cameras, pool : Pools,
                poolId : Nat, offset : Units, size : RecordSizes]

IndexTypeOK ==
    /\ entries \subseteq SegmentMeta
    /\ segmentCounter \in Nat

IndexInit ==
    /\ entries = {}
    /\ segmentCounter = 0

Meta(id, seq, cam, loc) ==
    [id |-> id, seq |-> seq, cam |-> cam, pool |-> loc.pool,
     poolId |-> loc.poolId, offset |-> loc.offset, size |-> loc.size]

\* Mutant: the id counter stands still.
InsertSameId(seq, cam, loc) ==
    /\ entries' = entries \cup {Meta(segmentCounter, seq, cam, loc)}
    /\ UNCHANGED segmentCounter

\* Mutant: the id of an evicted segment is given out again.
InsertReusing(seq, cam, loc) ==
    /\ \E id \in 0 .. Cardinality(entries) :
            /\ id \notin {e.id : e \in entries}
            /\ entries' = entries \cup {Meta(id, seq, cam, loc)}
    /\ segmentCounter' = segmentCounter + 1

Insert(seq, cam, loc) ==
    /\ entries' = entries \cup {Meta(segmentCounter, seq, cam, loc)}
    /\ segmentCounter' = segmentCounter + 1

EvictPool(p) ==
    /\ entries' = {e \in entries : e.pool # p}
    /\ UNCHANGED segmentCounter

\* The order in which a scan hands its records over: sorted by pool_id and
\* offset; the sort is stable, so ties stay in the order of the pools.
ScannedBefore(r, s) ==
    \/ r.poolId < s.poolId
    \/ r.poolId = s.poolId /\ r.offset < s.offset
    \/ r.poolId = s.poolId /\ r.offset = s.offset /\ r.pool < s.pool

\* The index is cleared, its counter reset, and the records inserted in order.
RebuildFromScanned(scanned) ==
    /\ entries' = {Meta(Cardinality({s \in scanned : ScannedBefore(s, r)}),
                        r.seq, r.cam, r) : r \in scanned}
    /\ segmentCounter' = Cardinality(scanned)

\* The index of a process that has ended.
Forget ==
    /\ entries' = {}
    /\ segmentCounter' = 0

SegmentsForCamera(cam) == {e \in entries : e.cam = cam}

==============================================================================
