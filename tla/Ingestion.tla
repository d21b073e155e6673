------------------------------ MODULE Ingestion ------------------------------
(***************************************************************************)
(* The way of a camera's fragments to the writer's channel: the stream of  *)
(* src/src/camera.rs, the worker task of ingestion.rs, and the adding and  *)
(* removing of the camera by the manager (manager.rs).                     *)
(*                                                                         *)
(* Three threads of control meet in one CameraStream. GStreamer's          *)
(* streaming thread calls format-location whenever splitmuxsink opens a    *)
(* fragment file; the callback keeps the lock of FragmentState while it    *)
(* sends the fragment before. The worker receives and forwards fragments.  *)
(* Dropping the stream (the worker is aborted, or lets go of it) stops the *)
(* pipeline and flushes. All workers here are those of one camera, in the  *)
(* order in which they are spawned; fragment 0 is the bootstrap fragment.  *)
(***************************************************************************)
EXTENDS Integers, Sequences, SequencesExt

CONSTANTS
    MaxWorkers,    \* bound on the workers spawned for the camera
    MaxFragments,  \* bound on the fragments opened by a stream
    ChannelSize,   \* of the channel from the callback to the worker (32)
    QueueSize,     \* config storage.writer_queue_size
    MaxAttempts    \* max_attempts of supervised_connect

ASSUME IngestionAssumption ==
    /\ MaxWorkers \in Nat \ {0} /\ MaxFragments \in Nat
    /\ ChannelSize \in Nat \ {0} /\ QueueSize \in Nat \ {0}
    /\ MaxAttempts \in Nat \ {0}

Workers == 1 .. MaxWorkers
Fragments == 0 .. MaxFragments - 1

VARIABLES
    entry,        \* the manager's worker for the camera, 0 when there is none
    aborted,      \* workers whose handle was aborted
    task,         \* where each worker stands
    attempt,      \* of supervised_connect
    source,       \* "playing", or "failed" after an error or the end of stream
    opened,       \* fragments opened by the stream so far
    current,      \* current_path: <<n>>, or <<>> for None
    discardNext,  \* discard_next
    handing,      \* <<n>> while the callback is in blocking_send
    channel,      \* the fragments between callback and worker
    inHand,       \* the fragment the worker is forwarding, or <<>>
    sent,         \* what was put on the writer's channel, with its worker
    drained,      \* how many of these the writer has taken off
    unread        \* fragments whose file could not be read (history)

managerVars == <<entry, aborted>>
fragmentVars == <<opened, current, discardNext, handing>>
streamVars == <<source, fragmentVars>>
queueVars == <<sent, drained>>
ingestVars == <<managerVars, task, attempt, streamVars, channel, inHand,
                queueVars, unread>>

Awaiting == {"connecting", "reading", "settling", "loading", "deleting", "sending"}
Stages == {"unborn", "stopping", "flushing", "dropping", "ended"} \cup Awaiting

Optional(S) == {<<>>} \cup {<<x>> : x \in S}
Segment == [by : Workers, n : Fragments]

IngestTypeOK ==
    /\ entry \in Workers \cup {0}
    /\ aborted \subseteq Workers
    /\ task \in [Workers -> Stages]
    /\ attempt \in [Workers -> 0 .. MaxAttempts]
    /\ source \in [Workers -> {"none", "playing", "failed"}]
    /\ opened \in [Workers -> 0 .. MaxFragments]
    /\ current \in [Workers -> Optional(Fragments)]
    /\ discardNext \in [Workers -> BOOLEAN]
    /\ handing \in [Workers -> Optional(Fragments)]
    /\ channel \in [Workers -> Seq(Fragments)]
    /\ \A w \in Workers : Len(channel[w]) <= ChannelSize
    /\ inHand \in [Workers -> Optional(Fragments)]
    /\ sent \in Seq(Segment)
    /\ drained \in 0 .. Len(sent) /\ Len(sent) - drained <= QueueSize
    /\ unread \subseteq Segment

IngestInit ==
    /\ entry = 0
    /\ aborted = {}
    /\ task = [w \in Workers |-> "unborn"]
    /\ attempt = [w \in Workers |-> 0]
    /\ source = [w \in Workers |-> "none"]
    /\ opened = [w \in Workers |-> 0]
    /\ current = [w \in Workers |-> <<>>]
    /\ discardNext = [w \in Workers |-> TRUE]
    /\ handing = [w \in Workers |-> <<>>]
    /\ channel = [w \in Workers |-> <<>>]
    /\ inHand = [w \in Workers |-> <<>>]
    /\ sent = <<>> /\ drained = 0
    /\ unread = {}

GoTo(w, stage) == task' = [task EXCEPT ![w] = stage]

HasStream(w) == task[w] \notin {"unborn", "connecting", "ended"}

-----------------------------------------------------------------------------
\* The manager. A camera of the config file is added before anything else.

\* Mutant: the map is not asked whether the camera is there already.
AddCameraAgain ==
    /\ \E w \in Workers :
        /\ task[w] = "unborn" /\ \A v \in 1 .. w - 1 : task[v] # "unborn"
        /\ entry' = w
        /\ GoTo(w, "connecting")
    /\ UNCHANGED <<aborted, attempt, streamVars, channel, inHand, queueVars, unread>>

AddCamera ==
    /\ entry = 0
    /\ \E w \in Workers :
        /\ task[w] = "unborn" /\ \A v \in 1 .. w - 1 : task[v] # "unborn"
        /\ entry' = w
        /\ GoTo(w, "connecting")
    /\ UNCHANGED <<aborted, attempt, streamVars, channel, inHand, queueVars, unread>>

\* The worker is aborted; its task hears of it at its next await.
RemoveCamera ==
    /\ entry # 0
    /\ entry' = 0
    /\ aborted' = aborted \cup {entry}
    /\ UNCHANGED <<task, attempt, streamVars, channel, inHand, queueVars, unread>>

Cancel(w) ==
    /\ w \in aborted
    /\ task[w] \in Awaiting
    /\ GoTo(w, IF HasStream(w) THEN "stopping" ELSE "ended")
    /\ inHand' = [inHand EXCEPT ![w] = <<>>]
    /\ UNCHANGED <<managerVars, attempt, streamVars, channel, queueVars, unread>>

-----------------------------------------------------------------------------
\* supervised_connect and CameraStream::connect.

Connect(w) ==
    /\ task[w] = "connecting" /\ w \notin aborted
    /\ attempt[w] < MaxAttempts
    /\ GoTo(w, "reading")
    /\ attempt' = [attempt EXCEPT ![w] = 0]
    /\ source' = [source EXCEPT ![w] = "playing"]
    /\ opened' = [opened EXCEPT ![w] = 0]
    /\ current' = [current EXCEPT ![w] = <<>>]
    /\ discardNext' = [discardNext EXCEPT ![w] = TRUE]
    /\ UNCHANGED <<managerVars, handing, channel, inHand, queueVars, unread>>

\* The attempt is counted and the next one made after a pause.
ConnectFails(w) ==
    /\ task[w] = "connecting" /\ w \notin aborted
    /\ attempt[w] < MaxAttempts
    /\ attempt' = [attempt EXCEPT ![w] = @ + 1]
    /\ UNCHANGED <<managerVars, task, streamVars, channel, inHand, queueVars, unread>>

\* The worker ends; the manager keeps its entry.
GiveUp(w) ==
    /\ task[w] = "connecting" /\ w \notin aborted
    /\ attempt[w] = MaxAttempts
    /\ GoTo(w, "ended")
    /\ UNCHANGED <<managerVars, attempt, streamVars, channel, inHand, queueVars, unread>>

-----------------------------------------------------------------------------
\* The streaming thread.

\* An error or the end of the stream is posted on the bus, which nobody reads:
\* format-location is not called any more.
CameraFails(w) ==
    /\ source[w] = "playing"
    /\ source' = [source EXCEPT ![w] = "failed"]
    /\ UNCHANGED <<managerVars, task, attempt, fragmentVars, channel, inHand,
                   queueVars, unread>>

\* Once stop has sent the end of stream nothing is opened; a call on its way
\* then is one that came before.
CanOpen(w) ==
    /\ source[w] = "playing"
    /\ task[w] # "stopping"
    /\ handing[w] = <<>>
    /\ opened[w] < MaxFragments

\* format-location with no fragment to send: the first call, or the one that
\* deletes the bootstrap fragment.
OpenFragment(w) ==
    /\ CanOpen(w)
    /\ current[w] = <<>> \/ discardNext[w]
    /\ discardNext' = [discardNext EXCEPT ![w] = @ /\ current[w] = <<>>]
    /\ current' = [current EXCEPT ![w] = <<opened[w]>>]
    /\ opened' = [opened EXCEPT ![w] = @ + 1]
    /\ UNCHANGED <<managerVars, task, attempt, source, handing, channel, inHand,
                   queueVars, unread>>

\* Mutant: discard_next is not looked at.
BeginHandOverAny(w) ==
    /\ CanOpen(w)
    /\ current[w] # <<>>
    /\ handing' = [handing EXCEPT ![w] = current[w]]
    /\ current' = [current EXCEPT ![w] = <<>>]
    /\ UNCHANGED <<managerVars, task, attempt, source, opened, discardNext,
                   channel, inHand, queueVars, unread>>

\* format-location takes the fragment before out of the state ...
BeginHandOver(w) ==
    /\ CanOpen(w)
    /\ current[w] # <<>> /\ ~discardNext[w]
    /\ handing' = [handing EXCEPT ![w] = current[w]]
    /\ current' = [current EXCEPT ![w] = <<>>]
    /\ UNCHANGED <<managerVars, task, attempt, source, opened, discardNext,
                   channel, inHand, queueVars, unread>>

\* Mutants: the channel has no bound; try_send in place of blocking_send.
EndHandOverUnbounded(w) ==
    /\ handing[w] # <<>>
    /\ channel' = [channel EXCEPT ![w] = @ \o handing[w]]
    /\ handing' = [handing EXCEPT ![w] = <<>>]
    /\ current' = [current EXCEPT ![w] = <<opened[w]>>]
    /\ opened' = [opened EXCEPT ![w] = @ + 1]
    /\ UNCHANGED <<managerVars, task, attempt, source, discardNext, inHand,
                   queueVars, unread>>

EndHandOverTry(w) ==
    /\ handing[w] # <<>>
    /\ channel' = [channel EXCEPT ![w] =
            IF Len(@) < ChannelSize THEN @ \o handing[w] ELSE @]
    /\ handing' = [handing EXCEPT ![w] = <<>>]
    /\ current' = [current EXCEPT ![w] = <<opened[w]>>]
    /\ opened' = [opened EXCEPT ![w] = @ + 1]
    /\ UNCHANGED <<managerVars, task, attempt, source, discardNext, inHand,
                   queueVars, unread>>

\* ... and, when the channel has room, sends it and opens the next.
EndHandOver(w) ==
    /\ handing[w] # <<>>
    /\ Len(channel[w]) < ChannelSize
    /\ channel' = [channel EXCEPT ![w] = @ \o handing[w]]
    /\ handing' = [handing EXCEPT ![w] = <<>>]
    /\ current' = [current EXCEPT ![w] = <<opened[w]>>]
    /\ opened' = [opened EXCEPT ![w] = @ + 1]
    /\ UNCHANGED <<managerVars, task, attempt, source, discardNext, inHand,
                   queueVars, unread>>

-----------------------------------------------------------------------------
\* The worker.

\* Who holds a sender of the channel: the callback, and the stream itself.
Senders(w) == IF HasStream(w) THEN {"callback", "seg_tx"} ELSE {}

\* recv yields a fragment, or None when all senders are gone; with None the
\* worker drops the stream and connects again.
ReadSegment(w) ==
    /\ task[w] = "reading"
    /\ channel[w] # <<>> \/ Senders(w) = {}
    /\ IF channel[w] # <<>>
       THEN /\ GoTo(w, "settling")
            /\ inHand' = [inHand EXCEPT ![w] = <<Head(channel[w])>>]
            /\ channel' = [channel EXCEPT ![w] = Tail(@)]
       ELSE GoTo(w, "stopping") /\ UNCHANGED <<inHand, channel>>
    /\ UNCHANGED <<managerVars, attempt, streamVars, queueVars, unread>>

\* Mutant: an aborted worker goes on here as well.
SettledAborted(w) ==
    /\ task[w] = "settling"
    /\ GoTo(w, "loading")
    /\ UNCHANGED <<managerVars, attempt, streamVars, channel, inHand, queueVars, unread>>

\* wait_for_file_stable: at most 30 polls, with a sleep between any two. A sleep is
\* never over at once, so an aborted task gets no further than this await; at the
\* others, which may find their result there, it may.
Settled(w) ==
    /\ task[w] = "settling" /\ w \notin aborted
    /\ GoTo(w, "loading")
    /\ UNCHANGED <<managerVars, attempt, streamVars, channel, inHand, queueVars, unread>>

Load(w) ==
    /\ task[w] = "loading"
    /\ GoTo(w, "deleting")
    /\ UNCHANGED <<managerVars, attempt, streamVars, channel, inHand, queueVars, unread>>

LoadFails(w) ==
    /\ task[w] = "loading"
    /\ GoTo(w, "reading")
    /\ unread' = unread \cup {[by |-> w, n |-> Head(inHand[w])]}
    /\ inHand' = [inHand EXCEPT ![w] = <<>>]
    /\ UNCHANGED <<managerVars, attempt, streamVars, channel, queueVars>>

\* The temporary file is deleted, or that fails and is logged.
Delete(w) ==
    /\ task[w] = "deleting"
    /\ GoTo(w, "sending")
    /\ UNCHANGED <<managerVars, attempt, streamVars, channel, inHand, queueVars, unread>>

\* Mutant: a full channel of the writer drops the segment.
SendSegmentTry(w) ==
    /\ task[w] = "sending"
    /\ sent' = IF Len(sent) - drained < QueueSize
               THEN Append(sent, [by |-> w, n |-> Head(inHand[w])]) ELSE sent
    /\ GoTo(w, "reading")
    /\ inHand' = [inHand EXCEPT ![w] = <<>>]
    /\ UNCHANGED <<managerVars, attempt, streamVars, channel, drained, unread>>

SendSegment(w) ==
    /\ task[w] = "sending"
    /\ Len(sent) - drained < QueueSize
    /\ sent' = Append(sent, [by |-> w, n |-> Head(inHand[w])])
    /\ GoTo(w, "reading")
    /\ inHand' = [inHand EXCEPT ![w] = <<>>]
    /\ UNCHANGED <<managerVars, attempt, streamVars, channel, drained, unread>>

-----------------------------------------------------------------------------
\* Drop of the CameraStream.

\* stop: end of stream, at most 5 s for it, then state Null. That joins the
\* streaming thread, which must have come back from the callback.
StopPipeline(w) ==
    /\ task[w] = "stopping"
    /\ handing[w] = <<>>
    /\ source' = [source EXCEPT ![w] = "none"]
    /\ GoTo(w, "flushing")
    /\ UNCHANGED <<managerVars, attempt, fragmentVars, channel, inHand, queueVars, unread>>

\* stop: the open fragment is deleted (bootstrap) or offered to the channel.
Flush(w) ==
    /\ task[w] = "flushing"
    /\ channel' = [channel EXCEPT ![w] =
            IF ~discardNext[w] /\ Len(@) < ChannelSize THEN @ \o current[w] ELSE @]
    /\ current' = [current EXCEPT ![w] = <<>>]
    /\ GoTo(w, "dropping")
    /\ UNCHANGED <<managerVars, attempt, source, opened, discardNext, handing,
                   inHand, queueVars, unread>>

\* The fields go: the receiver, with what is left in the channel.
DropStream(w) ==
    /\ task[w] = "dropping"
    /\ channel' = [channel EXCEPT ![w] = <<>>]
    /\ GoTo(w, IF w \in aborted THEN "ended" ELSE "connecting")
    /\ UNCHANGED <<managerVars, attempt, streamVars, inHand, queueVars, unread>>

-----------------------------------------------------------------------------
\* The global writer takes a request off its channel.
WriterTakes ==
    /\ drained < Len(sent)
    /\ drained' = drained + 1
    /\ UNCHANGED <<managerVars, task, attempt, streamVars, channel, inHand, sent, unread>>

WorkerStep(w) ==
    \/ Cancel(w) \/ Connect(w) \/ GiveUp(w)
    \/ ReadSegment(w) \/ Settled(w) \/ Load(w) \/ Delete(w) \/ SendSegment(w)
    \/ StopPipeline(w) \/ Flush(w) \/ DropStream(w)

Failure(w) == ConnectFails(w) \/ CameraFails(w) \/ LoadFails(w)

IngestNext ==
    \/ AddCamera \/ RemoveCamera \/ WriterTakes
    \/ \E w \in Workers :
        \/ WorkerStep(w) \/ Failure(w)
        \/ OpenFragment(w) \/ BeginHandOver(w) \/ EndHandOver(w)

IngestSpec == IngestInit /\ [][IngestNext]_ingestVars

\* Tasks are polled, a callback that can go on goes on, and the writer takes
\* requests (EveryRequestSettles of GlobalWriter). Nothing makes a camera send.
FairIngestSpec ==
    /\ IngestSpec
    /\ \A w \in Workers : WF_ingestVars(WorkerStep(w)) /\ WF_ingestVars(EndHandOver(w))
    /\ WF_ingestVars(WriterTakes)

-----------------------------------------------------------------------------
\* Properties.

SentBy(w) == {s.n : s \in {x \in Range(sent) : x.by = w}}
Unread(w) == {s.n : s \in {u \in unread : u.by = w}}

\* While a worker runs, no fragment its stream has opened is missing or in two
\* places: the last ones are in its hands, in the channel, in the callback or
\* open, without a gap and in this order; all before them, from the first after
\* the bootstrap fragment on, are sent, or could not be read. Backpressure from a
\* slow writer delays segments and neither drops, doubles nor swaps them.
NothingSkipped ==
    \A w \in Workers : HasStream(w) /\ task[w] \in Awaiting =>
        LET way == inHand[w] \o channel[w] \o handing[w]
                   \o (IF discardNext[w] THEN <<>> ELSE current[w])
            done == opened[w] - 1 - Len(way)
        IN  /\ way = [i \in 1 .. Len(way) |-> done + i]
            /\ Unread(w) \subseteq 1 .. done
            /\ SentBy(w) = (1 .. done) \ Unread(w)

\* What the writer gets of one worker is in the order of recording, without
\* repetition and without the bootstrap fragment, also when the worker is
\* cancelled in the middle of forwarding.
SentInOrder ==
    /\ \A s \in Range(sent) : s.n # 0
    /\ \A i, j \in 1 .. Len(sent) :
            i < j /\ sent[i].by = sent[j].by => sent[i].n < sent[j].n

\* At most one worker that was not removed records the camera, and it is the one
\* in the manager's map.
OneWorker ==
    \A w \in Workers : task[w] \notin {"unborn", "ended"} /\ w \notin aborted => entry = w

\* When a camera is added again while the worker that was removed still ends, the
\* two do not take turns at the writer: behind a segment of the new worker comes at
\* most one of the old, the one it had read when it was aborted.
SuccessorTakesOver ==
    \A i, j, k \in 1 .. Len(sent) :
        i < j /\ j < k /\ sent[i].by > sent[j].by => sent[k].by # sent[j].by

\* A completed fragment reaches the writer, unless its file cannot be read or
\* the camera is removed.
CompletedIsSent ==
    \A w \in Workers, n \in Fragments :
        (n > 0 /\ n < opened[w] - 1) ~>
            ([by |-> w, n |-> n] \in Range(sent) \cup unread \/ w \in aborted)

\* A removed worker comes to its end ("Stop the pipeline cleanly").
RemovedWorkerEnds == \A w \in Workers : w \in aborted ~> task[w] = "ended"

\* A stream that has failed is connected again ("automatic reconnection"),
\* unless the camera is removed.
Reconnects ==
    \A w \in Workers :
        source[w] = "failed" ~> (source[w] = "playing" \/ w \in aborted)

==============================================================================
