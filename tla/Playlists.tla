------------------------------- MODULE Playlists -------------------------------
(***************************************************************************)
(* Playlists and manifests beside the recorder: handle_hls_live,           *)
(* handle_hls_vod and handle_dash_manifest of src/src/api.rs with          *)
(* src/src/hls.rs and src/src/dash.rs.                                     *)
(*                                                                         *)
(* A watched camera has one player. It loads the live playlist, or asks    *)
(* for it with _HLS_msn and is made to wait; it keeps the last one it was  *)
(* given, also when the recorder dies. An answer that changes nothing and  *)
(* is not kept (VOD playlist, DASH manifest) is a function of the index.   *)
(* Wording, durations and discontinuity marks are left out.                *)
(***************************************************************************)
EXTENDS GlobalWriter

CONSTANTS
    Watched,     \* the cameras that have a player
    LiveWindow,  \* LIVE_WINDOW_SEGMENTS (10)
    MaxPolls     \* polls of the index before the deadline (30 s, one per 200 ms)

ASSUME PlaylistAssumption ==
    Watched \subseteq Cameras /\ LiveWindow \in Nat \ {0} /\ MaxPolls \in Nat

VARIABLE player  \* of each camera: its stage, the segment and the polls of the
                 \* request, the last playlist, and the process that sent it

playVars == <<vars, player>>

Playlist == [first : Nat, segs : SUBSET SegmentMeta]

PlayTypeOK ==
    /\ TypeOK
    /\ player \in [Watched ->
            [at : {"idle", "asking", "late"}, msn : Nat, polls : 0 .. MaxPolls,
             list : Playlist, from : Nat]]

-----------------------------------------------------------------------------
\* hls.rs and dash.rs.

Newer(e, S) == {f \in S : f.seq > e.seq}
Older(e, S) == {f \in S : f.seq < e.seq}

\* Mutant: the first segments instead of the last.
WindowOldest(cam) ==
    {e \in SegmentsForCamera(cam) :
        Cardinality(Older(e, SegmentsForCamera(cam))) < LiveWindow}

\* The last LIVE_WINDOW_SEGMENTS segments of the camera.
Window(cam) ==
    {e \in SegmentsForCamera(cam) :
        Cardinality(Newer(e, SegmentsForCamera(cam))) < LiveWindow}

\* A list of segments, numbered from the id of its first one.
Listing(S) ==
    [first |-> IF S = {} THEN 0 ELSE (CHOOSE e \in S : Older(e, S) = {}).id,
     segs |-> S]

\* generate_live_playlist and generate_live_mpd.
Live(cam) == Listing(Window(cam))

\* A segment lasts from seq to seq + 1.
SegmentsInRange(cam, from, to) ==
    {e \in SegmentsForCamera(cam) : e.seq < to /\ e.seq + 1 > from}

\* generate_vod_playlist and generate_vod_mpd; an empty one is answered by 404.
Vod(cam, from, to) == Listing(SegmentsInRange(cam, from, to))

\* With block_msn the playlist is withheld until the camera has an id that high.
Withheld(cam, msn) ==
    /\ SegmentsForCamera(cam) # {}
    /\ \A e \in SegmentsForCamera(cam) : e.id < msn

-----------------------------------------------------------------------------
\* handle_hls_live.

NewPlayer == [at |-> "idle", msn |-> 0, polls |-> 0, list |-> Listing({}), from |-> 0]

PlayInit == Init /\ player = [cam \in Watched |-> NewPlayer]

Serving == pc # "down"

\* The answer ends the request.
Answered(cam) ==
    [at |-> "idle", msn |-> 0, polls |-> 0, list |-> Live(cam), from |-> crashes]

Load(cam) ==
    /\ Serving
    /\ player[cam].at = "idle"
    /\ player' = [player EXCEPT ![cam] = Answered(cam)]
    /\ UNCHANGED vars

\* A reload that is to block until segment msn.
Ask(cam, msn) ==
    /\ Serving
    /\ player[cam].at = "idle"
    /\ player' = [player EXCEPT ![cam].at = "asking", ![cam].msn = msn]
    /\ UNCHANGED vars

Deliver(cam) ==
    /\ player[cam].at = "asking"
    /\ ~Withheld(cam, player[cam].msn)
    /\ player' = [player EXCEPT ![cam] = Answered(cam)]
    /\ UNCHANGED vars

\* Mutant: the deadline is not looked at.
PollOn(cam) ==
    /\ player[cam].at = "asking"
    /\ Withheld(cam, player[cam].msn)
    /\ player' = [player EXCEPT ![cam].polls = @ + 1]
    /\ UNCHANGED vars

\* The segment is not there: 200 ms of sleep.
Poll(cam) ==
    /\ player[cam].at = "asking"
    /\ Withheld(cam, player[cam].msn)
    /\ player[cam].polls < MaxPolls
    /\ player' = [player EXCEPT ![cam].polls = @ + 1]
    /\ UNCHANGED vars

\* Mutant: the reload polls on.
ExpireNever(cam) == FALSE /\ UNCHANGED playVars

\* It is not there at the deadline; the index is given back ...
Expire(cam) ==
    /\ player[cam].at = "asking"
    /\ Withheld(cam, player[cam].msn)
    /\ player[cam].polls = MaxPolls
    /\ player' = [player EXCEPT ![cam].at = "late"]
    /\ UNCHANGED vars

\* ... and asked again, for what it has now.
DeliverLate(cam) ==
    /\ player[cam].at = "late"
    /\ player' = [player EXCEPT ![cam] = Answered(cam)]
    /\ UNCHANGED vars

Reload(cam) == Deliver(cam) \/ Poll(cam) \/ Expire(cam) \/ DeliverLate(cam)

-----------------------------------------------------------------------------
Recorder ==
    /\ \/ Start \/ Rebuild \/ RebuildFails \/ WriterStep \/ AppendFails
       \/ \E cam \in Cameras, size \in RecordSizes : Send(cam, size)
    /\ UNCHANGED player

\* Requests die with the process; players keep their playlists.
CrashServer ==
    /\ Crash
    /\ player' = [cam \in Watched |->
            [player[cam] EXCEPT !.at = "idle", !.msn = 0, !.polls = 0]]

PlayNext ==
    \/ Recorder
    \/ \E cam \in Watched :
        Load(cam) \/ Reload(cam) \/ \E msn \in 0 .. MaxSegments : Ask(cam, msn)
    \/ CrashServer
    \/ StartKilled /\ UNCHANGED player

PlaySpec == PlayInit /\ [][PlayNext]_playVars

\* A request that was let in is worked on; nobody has to ask.
FairPlaySpec == PlaySpec /\ \A cam \in Watched : WF_playVars(Reload(cam))

-----------------------------------------------------------------------------
\* Properties.

Newest(S) == CHOOSE e \in S : Newer(e, S) = {}

\* What a player sees only moves forward: in the process that began with an
\* empty ring, a playlist never starts or ends before the one the player had,
\* whatever was recorded or evicted in between (window of hls.rs over evict_pool).
LiveForward ==
    [][\A cam \in Watched :
        LET old == player[cam].list
            new == player'[cam].list
        IN  /\ session = 0 /\ player[cam].from = player'[cam].from
            /\ old.segs # {} /\ new.segs # {}
            => /\ old.first <= new.first
               /\ Newest(old.segs).id <= Newest(new.segs).id]_playVars

\* In a process that began with an empty ring, a blocking reload answered before
\* its deadline ends with the segment that was waited for or a newer one, and has
\* no hole: it lists all that the camera has from its first id on. An answer
\* without segments comes only from a camera that has none left. The wait of
\* hls.rs looks at ids and the answer at times, which agree only as long as every
\* eviction, failed write and other camera's segment leaves ids in the order of
\* time. After a restart they need not, and the answer may lack the segment.
ReloadShowsSegment ==
    [][\A cam \in Watched :
        LET new == player'[cam].list
        IN  Deliver(cam) /\ session = 0 =>
                /\ new.segs # {} => Newest(new.segs).id >= player[cam].msn
                /\ \A e \in SegmentsForCamera(cam) :
                        e.id >= new.first => e \in new.segs]_playVars

\* An id a player was given does not come to mean another segment while the
\* process that gave it lives: what handle_hls_segment finds under it later is
\* the segment that was listed.
ListedStaysItself ==
    pc # "down" =>
        \A cam \in Watched : player[cam].from = crashes =>
            \A l \in player[cam].list.segs, e \in SegmentsForCamera(cam) :
                e.id = l.id => e = l

\* Every reload is answered, if only at the deadline, or dies with the process.
ReloadsEnd == \A cam \in Watched : player[cam].at # "idle" ~> player[cam].at = "idle"

\* A DASH player asks for the i-th segment of a manifest under the number
\* startNumber + i.
DashNumber(list, e) == list.first + Cardinality(Older(e, list.segs))

\* A manifest names the segments it lists ("references the exact same segments
\* as HLS via handle_hls_segment").
ManifestNamesSegments ==
    \A cam \in Cameras :
        /\ \A e \in Window(cam) : DashNumber(Live(cam), e) = e.id
        /\ \A from, to \in 1 .. MaxSegments :
            \A e \in SegmentsInRange(cam, from, to) :
                DashNumber(Vod(cam, from, to), e) = e.id

==============================================================================
