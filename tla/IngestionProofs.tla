---------------------------- MODULE IngestionProofs ----------------------------
(***************************************************************************)
(* The way of fragments from the callback to the writer, for every number  *)
(* of workers, fragments and attempts and every size of the channels:      *)
(* types, order and completeness of what is sent, one worker at a time,    *)
(* and how a removed worker makes way for its successor.                   *)
(***************************************************************************)
EXTENDS Ingestion, SequenceTheorems, TLAPS

USE DEF Workers, Fragments

\* The fragments below this number are complete: the newest one is open or in
\* the hands of the callback.
Complete(w) ==
    IF current[w] = <<>> /\ handing[w] = <<>> THEN opened[w] ELSE opened[w] - 1

\* Where a worker stands and what it holds.
StageInv(w) ==
    /\ task[w] \in {"unborn", "connecting"} =>
            /\ source[w] = "none" /\ handing[w] = <<>> /\ channel[w] = <<>>
            /\ \A i \in 1 .. Len(sent) : sent[i].by # w
    /\ task[w] \in {"stopping", "flushing", "dropping"} => w \in aborted
    /\ task[w] \in {"settling", "loading", "deleting", "sending"} <=> inHand[w] # <<>>

\* The callback has the newest fragment, and not the bootstrap fragment.
CallbackInv(w) ==
    /\ current[w] # <<>> =>
            current[w] = <<opened[w] - 1>> /\ handing[w] = <<>> /\ opened[w] > 0
    /\ handing[w] # <<>> =>
            handing[w] = <<opened[w] - 1>> /\ ~discardNext[w] /\ opened[w] < MaxFragments
    /\ ~discardNext[w] => opened[w] >= 2

\* What is sent precedes what is in hand, that what is in the channel, and all
\* of it is complete and not the bootstrap fragment.
WayInv(w) ==
    /\ \A j \in 1 .. Len(channel[w]) : channel[w][j] \in 1 .. Complete(w) - 1
    /\ \A j, k \in 1 .. Len(channel[w]) : j < k => channel[w][j] < channel[w][k]
    /\ inHand[w] # <<>> =>
            /\ inHand[w][1] \in 1 .. Complete(w) - 1
            /\ \A j \in 1 .. Len(channel[w]) : inHand[w][1] < channel[w][j]
    /\ \A i \in 1 .. Len(sent) : sent[i].by = w =>
            /\ sent[i].n \in 1 .. Complete(w) - 1
            /\ \A j \in 1 .. Len(channel[w]) : sent[i].n < channel[w][j]
            /\ inHand[w] # <<>> => sent[i].n < inHand[w][1]

InOrder == \A i, j \in 1 .. Len(sent) :
    i < j /\ sent[i].by = sent[j].by => sent[i].n < sent[j].n

WorkerInv(w) == StageInv(w) /\ CallbackInv(w) /\ WayInv(w)
IngestInv == IngestTypeOK /\ (\A w \in Workers : WorkerInv(w)) /\ InOrder /\ OneWorker

-----------------------------------------------------------------------------
\* Constants, and sequences of at most one element.
LEMMA Bounds ==
    /\ MaxWorkers \in Nat \ {0} /\ MaxFragments \in Nat /\ ChannelSize \in Nat \ {0}
    /\ QueueSize \in Nat \ {0} /\ MaxAttempts \in Nat \ {0}
BY IngestionAssumption

LEMMA Increment ==
    ASSUME NEW m \in Nat, NEW n \in 0 .. m, n < m
    PROVE  n + 1 \in 0 .. m
OBVIOUS

LEMMA RoomLeft ==
    ASSUME NEW m \in Nat, NEW l \in Nat, NEW d \in 0 .. l, l - d < m
    PROVE  d \in 0 .. l + 1 /\ (l + 1) - d <= m
OBVIOUS

LEMMA OptionalType ==
    ASSUME NEW q \in Optional(Fragments), q # <<>>
    PROVE  /\ q = <<q[1]>> /\ q[1] \in Fragments /\ Head(q) = q[1]
BY DEF Optional

LEMMA OptionalSome == \A n \in Fragments : <<n>> \in Optional(Fragments) /\ <<n>> # <<>>
BY DEF Optional

LEMMA OptionalNone == <<>> \in Optional(Fragments)
BY DEF Optional

LEMMA ConcatOne ==
    ASSUME NEW S, NEW s \in Seq(S), NEW x \in S
    PROVE  s \o <<x>> = Append(s, x)
<1>1. /\ <<x>> \in Seq(S) /\ Len(<<x>>) = 1 /\ <<x>>[1] = x /\ Len(s) \in Nat
  OBVIOUS
<1>2. /\ s \o <<x>> \in Seq(S) /\ Len(s \o <<x>>) = Len(s) + 1
      /\ \A i \in 1 .. Len(s) + 1 :
            (s \o <<x>>)[i] = IF i <= Len(s) THEN s[i] ELSE <<x>>[i - Len(s)]
  BY <1>1, ConcatProperties
<1>3. /\ Append(s, x) \in Seq(S) /\ Len(Append(s, x)) = Len(s) + 1
      /\ \A i \in 1 .. Len(s) + 1 :
            Append(s, x)[i] = IF i <= Len(s) THEN s[i] ELSE x
  BY <1>1
<1>4. ASSUME NEW i \in 1 .. Len(s) + 1 PROVE (s \o <<x>>)[i] = Append(s, x)[i]
  <2>1. i > Len(s) => i - Len(s) = 1
    BY <1>1
  <2>2. QED
    BY <1>1, <1>2, <1>3, <2>1
<1>5. QED
  BY <1>2, <1>3, <1>4, SeqEqual

-----------------------------------------------------------------------------
\* Types.
LEMMA InitType == IngestInit => IngestTypeOK
BY Bounds, OptionalNone DEF IngestInit, IngestTypeOK, Stages, Segment

LEMMA StageNames ==
    /\ {"unborn", "connecting", "reading", "settling", "loading", "deleting",
        "sending", "stopping", "flushing", "dropping", "ended"} = Stages
BY DEF Stages, Awaiting

\* Steps of the manager, of the cameras and of the writer, and those of a worker
\* that move no fragment.
LEMMA QuietType ==
    ASSUME IngestInv, NEW w \in Workers,
           \/ AddCamera \/ RemoveCamera \/ WriterTakes
           \/ Cancel(w) \/ Connect(w) \/ GiveUp(w) \/ ConnectFails(w)
           \/ CameraFails(w) \/ Settled(w) \/ Load(w) \/ Delete(w) \/ StopPipeline(w)
    PROVE  IngestTypeOK'
<1> USE Bounds, OptionalNone, StageNames
    DEF IngestInv, IngestTypeOK, GoTo, managerVars, fragmentVars, streamVars, queueVars
<1>1. CASE AddCamera
  BY <1>1 DEF AddCamera
<1>2. CASE RemoveCamera
  BY <1>2 DEF RemoveCamera
<1>3. CASE WriterTakes
  BY <1>3 DEF WriterTakes
<1>4. CASE Cancel(w)
  BY <1>4 DEF Cancel
<1>5. CASE Connect(w)
  <2>1. 0 \in 0 .. MaxAttempts /\ 0 \in 0 .. MaxFragments
    OBVIOUS
  <2>2. /\ attempt' \in [Workers -> 0 .. MaxAttempts]
        /\ opened' \in [Workers -> 0 .. MaxFragments]
        /\ current' \in [Workers -> Optional(Fragments)]
        /\ discardNext' \in [Workers -> BOOLEAN]
    BY <1>5, <2>1 DEF Connect
  <2>3. /\ task' \in [Workers -> Stages]
        /\ source' \in [Workers -> {"none", "playing", "failed"}]
    BY <1>5 DEF Connect
  <2>4. QED
    BY <1>5, <2>2, <2>3 DEF Connect
<1>6. CASE GiveUp(w) \/ Settled(w) \/ Load(w) \/ Delete(w)
  BY <1>6 DEF GiveUp, Settled, Load, Delete
<1>7. CASE ConnectFails(w)
  <2>1. attempt[w] + 1 \in 0 .. MaxAttempts
    <3>1. attempt[w] \in 0 .. MaxAttempts /\ attempt[w] < MaxAttempts
      BY <1>7 DEF ConnectFails
    <3>2. QED
      BY <3>1, Increment
  <2>2. attempt' \in [Workers -> 0 .. MaxAttempts]
    BY <1>7, <2>1 DEF ConnectFails
  <2>3. QED
    BY <1>7, <2>2 DEF ConnectFails
<1>8. CASE CameraFails(w) \/ StopPipeline(w)
  BY <1>8 DEF CameraFails, StopPipeline
<1>9. QED
  BY <1>1, <1>2, <1>3, <1>4, <1>5, <1>6, <1>7, <1>8

LEMMA ReadSegmentType ==
    ASSUME IngestInv, NEW w \in Workers, ReadSegment(w)
    PROVE  IngestTypeOK'
<1> USE Bounds, StageNames
    DEF IngestInv, IngestTypeOK, GoTo, managerVars, fragmentVars, streamVars, queueVars
<1>1. CASE channel[w] # <<>>
  <2>1. /\ channel[w] \in Seq(Fragments) /\ Head(channel[w]) \in Fragments
        /\ Tail(channel[w]) \in Seq(Fragments)
        /\ Len(Tail(channel[w])) = Len(channel[w]) - 1 /\ Len(channel[w]) \in Nat
    BY <1>1, HeadTailProperties, LenProperties
  <2>2. channel' = [channel EXCEPT ![w] = Tail(@)]
        /\ inHand' = [inHand EXCEPT ![w] = <<Head(channel[w])>>]
    BY <1>1 DEF ReadSegment
  <2>3. inHand' \in [Workers -> Optional(Fragments)]
    BY <2>1, <2>2, OptionalSome
  <2>4. channel' \in [Workers -> Seq(Fragments)]
        /\ \A v \in Workers : Len(channel'[v]) <= ChannelSize
    <3>1. \A v \in Workers : channel'[v] = IF v = w THEN Tail(channel[w]) ELSE channel[v]
      BY <2>2
    <3>2. channel' \in [Workers -> Seq(Fragments)]
      BY <2>1, <2>2
    <3>3. ASSUME NEW v \in Workers PROVE Len(channel'[v]) <= ChannelSize
      <4>1. CASE v = w
        <5>1. Len(channel[w]) <= ChannelSize /\ channel'[v] = Tail(channel[w])
          BY <3>1, <4>1
        <5>2. QED
          BY <2>1, <5>1, Bounds
      <4>2. CASE v # w
        BY <3>1, <4>2
      <4>3. QED
        BY <4>1, <4>2
    <3>4. QED
      BY <3>2, <3>3
  <2>5. QED
    BY <1>1, <2>3, <2>4 DEF ReadSegment
<1>2. CASE channel[w] = <<>>
  BY <1>2 DEF ReadSegment
<1>3. QED
  BY <1>1, <1>2

LEMMA LoadFailsType ==
    ASSUME IngestInv, NEW w \in Workers, LoadFails(w)
    PROVE  IngestTypeOK'
<1> USE Bounds, StageNames, OptionalNone
    DEF IngestInv, IngestTypeOK, GoTo, managerVars, fragmentVars, streamVars, queueVars
<1>1. inHand[w] # <<>>
  BY DEF LoadFails, WorkerInv, StageInv
<1>2. [by |-> w, n |-> Head(inHand[w])] \in Segment
  BY <1>1, OptionalType DEF Segment
<1>3. QED
  BY <1>2 DEF LoadFails

LEMMA SendSegmentType ==
    ASSUME IngestInv, NEW w \in Workers, SendSegment(w)
    PROVE  IngestTypeOK'
<1> USE Bounds, StageNames, OptionalNone
    DEF IngestInv, IngestTypeOK, GoTo, managerVars, fragmentVars, streamVars, queueVars
<1>1. inHand[w] # <<>>
  BY DEF SendSegment, WorkerInv, StageInv
<1>2. [by |-> w, n |-> Head(inHand[w])] \in Segment
  BY <1>1, OptionalType DEF Segment
<1>3. sent' \in Seq(Segment) /\ Len(sent') = Len(sent) + 1 /\ Len(sent) \in Nat
  BY <1>2 DEF SendSegment
<1>4. drained' \in 0 .. Len(sent') /\ Len(sent') - drained' <= QueueSize
  <2>1. /\ drained \in 0 .. Len(sent) /\ drained' = drained
        /\ Len(sent) - drained < QueueSize
    BY DEF SendSegment
  <2>2. QED
    BY <1>3, <2>1, RoomLeft
<1>5. QED
  BY <1>3, <1>4 DEF SendSegment

LEMMA OpenFragmentType ==
    ASSUME IngestInv, NEW w \in Workers, OpenFragment(w) \/ BeginHandOver(w)
    PROVE  IngestTypeOK'
<1>1. opened[w] \in 0 .. MaxFragments /\ opened[w] < MaxFragments
  <2>1. CanOpen(w)
    BY DEF OpenFragment, BeginHandOver
  <2>2. opened \in [Workers -> 0 .. MaxFragments]
    BY DEF IngestInv, IngestTypeOK
  <2>3. QED
    BY <2>1, <2>2 DEF CanOpen
<1>2. <<opened[w]>> \in Optional(Fragments) /\ opened[w] + 1 \in 0 .. MaxFragments
  <2>1. opened[w] \in Fragments /\ opened[w] + 1 \in 0 .. MaxFragments
    BY <1>1, Bounds DEF Fragments
  <2>2. QED
    BY <2>1, OptionalSome
<1> USE Bounds, OptionalNone
    DEF IngestInv, IngestTypeOK, CanOpen, managerVars, fragmentVars, streamVars, queueVars
<1>3. CASE OpenFragment(w)
  BY <1>2, <1>3 DEF OpenFragment
<1>4. CASE BeginHandOver(w)
  BY <1>4 DEF BeginHandOver
<1>5. QED
  BY <1>3, <1>4

\* What EndHandOver and Flush do to the channel.
LEMMA ChannelGrows ==
    ASSUME IngestTypeOK, NEW w \in Workers, NEW n \in Fragments,
           Len(channel[w]) < ChannelSize,
           channel' = [channel EXCEPT ![w] = @ \o <<n>>]
    PROVE  /\ channel' \in [Workers -> Seq(Fragments)]
           /\ \A v \in Workers : Len(channel'[v]) <= ChannelSize
           /\ \A v \in Workers : v # w => channel'[v] = channel[v]
           /\ Len(channel'[w]) = Len(channel[w]) + 1 /\ Len(channel[w]) \in Nat
           /\ \A j \in 1 .. Len(channel[w]) + 1 :
                 channel'[w][j] = IF j = Len(channel[w]) + 1 THEN n ELSE channel[w][j]
<1>1. channel[w] \in Seq(Fragments) /\ Len(channel[w]) \in Nat
  BY LenProperties DEF IngestTypeOK
<1>2. channel[w] \o <<n>> = Append(channel[w], n)
  BY <1>1, ConcatOne
<1>3. channel' = [channel EXCEPT ![w] = Append(channel[w], n)]
  BY <1>2
<1>4. /\ Append(channel[w], n) \in Seq(Fragments)
      /\ Len(Append(channel[w], n)) = Len(channel[w]) + 1
      /\ \A j \in 1 .. Len(channel[w]) + 1 :
            Append(channel[w], n)[j] = IF j = Len(channel[w]) + 1 THEN n ELSE channel[w][j]
  BY <1>1
<1>5. channel'[w] = Append(channel[w], n)
  BY <1>3 DEF IngestTypeOK
<1>6. \A v \in Workers : v # w => channel'[v] = channel[v]
  BY <1>3 DEF IngestTypeOK
<1>7. channel' \in [Workers -> Seq(Fragments)]
  BY <1>3, <1>4 DEF IngestTypeOK
<1>8. \A v \in Workers : Len(channel'[v]) <= ChannelSize
  <2>1. Len(channel[w]) + 1 <= ChannelSize
    BY <1>1, Bounds
  <2>2. Len(channel'[w]) <= ChannelSize
    BY <2>1, <1>4, <1>5
  <2>3. \A v \in Workers : Len(channel[v]) <= ChannelSize
    BY DEF IngestTypeOK
  <2>4. QED
    BY <2>2, <2>3, <1>6
<1>9. QED
  BY <1>1, <1>4, <1>5, <1>6, <1>7, <1>8

LEMMA EndHandOverGrows ==
    ASSUME IngestInv, NEW w \in Workers, EndHandOver(w)
    PROVE  /\ opened[w] - 1 \in Fragments /\ opened[w] >= 2 /\ opened[w] < MaxFragments
           /\ channel' = [channel EXCEPT ![w] = @ \o <<opened[w] - 1>>]
           /\ Len(channel[w]) < ChannelSize /\ opened[w] \in Nat
<1>1. handing[w] = <<opened[w] - 1>> /\ opened[w] < MaxFragments /\ opened[w] >= 2
  BY DEF EndHandOver, IngestInv, WorkerInv, CallbackInv
<1>2. opened[w] \in 0 .. MaxFragments
  BY DEF IngestInv, IngestTypeOK
<1>3. QED
  BY <1>1, <1>2, Bounds DEF EndHandOver

LEMMA EndHandOverType ==
    ASSUME IngestInv, NEW w \in Workers, EndHandOver(w)
    PROVE  IngestTypeOK'
<1>1. /\ channel' \in [Workers -> Seq(Fragments)]
      /\ \A v \in Workers : Len(channel'[v]) <= ChannelSize
  BY EndHandOverGrows, ChannelGrows DEF IngestInv
<1>2. <<opened[w]>> \in Optional(Fragments) /\ opened[w] + 1 \in 0 .. MaxFragments
  <2>1. opened[w] \in Nat /\ opened[w] < MaxFragments
    BY EndHandOverGrows
  <2>2. opened[w] \in Fragments /\ opened[w] + 1 \in 0 .. MaxFragments
    BY <2>1, Bounds
  <2>3. QED
    BY <2>2, OptionalSome
<1>3. QED
  BY <1>1, <1>2, OptionalNone
     DEF IngestInv, EndHandOver, IngestTypeOK, managerVars, queueVars

\* Flush puts the open fragment into the channel, or leaves the channel alone.
LEMMA FlushCases ==
    ASSUME IngestInv, NEW w \in Workers, Flush(w)
    PROVE  \/ channel' = channel
           \/ /\ current[w] = <<opened[w] - 1>> /\ handing[w] = <<>>
              /\ opened[w] - 1 \in Fragments /\ opened[w] >= 2
              /\ channel' = [channel EXCEPT ![w] = @ \o <<opened[w] - 1>>]
              /\ Len(channel[w]) < ChannelSize
<1>1. channel \in [Workers -> Seq(Fragments)] /\ opened[w] \in 0 .. MaxFragments
  BY DEF IngestInv, IngestTypeOK
<1>2. CASE ~discardNext[w] /\ Len(channel[w]) < ChannelSize /\ current[w] # <<>>
  <2>1. current[w] = <<opened[w] - 1>> /\ handing[w] = <<>> /\ opened[w] >= 2
    BY <1>2 DEF IngestInv, WorkerInv, CallbackInv
  <2>2. opened[w] - 1 \in Fragments
    BY <1>1, <2>1, Bounds
  <2>3. channel' = [channel EXCEPT ![w] = @ \o <<opened[w] - 1>>]
    BY <1>1, <1>2, <2>1 DEF Flush
  <2>4. QED
    BY <1>2, <2>1, <2>2, <2>3
<1>3. CASE ~(~discardNext[w] /\ Len(channel[w]) < ChannelSize)
  BY <1>1, <1>3 DEF Flush
<1>4. CASE current[w] = <<>>
  <2>1. channel[w] \o <<>> = channel[w]
    BY <1>1, ConcatEmptySeq
  <2>2. QED
    BY <1>1, <1>4, <2>1 DEF Flush
<1>5. QED
  BY <1>2, <1>3, <1>4

LEMMA FlushType ==
    ASSUME IngestInv, NEW w \in Workers, Flush(w)
    PROVE  IngestTypeOK'
<1>1. /\ channel' \in [Workers -> Seq(Fragments)]
      /\ \A v \in Workers : Len(channel'[v]) <= ChannelSize
  BY FlushCases, ChannelGrows DEF IngestInv, IngestTypeOK
<1>2. QED
  BY <1>1, OptionalNone, StageNames
     DEF IngestInv, Flush, GoTo, IngestTypeOK, managerVars, queueVars

LEMMA DropStreamType ==
    ASSUME IngestInv, NEW w \in Workers, DropStream(w)
    PROVE  IngestTypeOK'
<1>1. /\ channel' \in [Workers -> Seq(Fragments)]
      /\ \A v \in Workers : Len(channel'[v]) <= ChannelSize
  <2>1. <<>> \in Seq(Fragments) /\ Len(<<>>) = 0
    BY EmptySeq
  <2>2. /\ channel \in [Workers -> Seq(Fragments)]
        /\ \A v \in Workers : Len(channel[v]) <= ChannelSize
        /\ channel' = [channel EXCEPT ![w] = <<>>]
    BY DEF DropStream, IngestInv, IngestTypeOK
  <2>3. \A v \in Workers : channel'[v] = IF v = w THEN <<>> ELSE channel[v]
    BY <2>2
  <2>4. channel' \in [Workers -> Seq(Fragments)]
    BY <2>1, <2>2
  <2>5. QED
    BY <2>1, <2>2, <2>3, <2>4, Bounds
<1>2. QED
  BY <1>1, StageNames
     DEF IngestInv, DropStream, GoTo, IngestTypeOK, managerVars, fragmentVars,
         streamVars, queueVars

LEMMA NextType == IngestInv /\ [IngestNext]_ingestVars => IngestTypeOK'
<1> SUFFICES ASSUME IngestInv, [IngestNext]_ingestVars PROVE IngestTypeOK'
  OBVIOUS
<1>1. CASE UNCHANGED ingestVars
  BY <1>1 DEF IngestInv, IngestTypeOK, ingestVars, managerVars, fragmentVars, streamVars,
              queueVars
<1>2. CASE AddCamera \/ RemoveCamera \/ WriterTakes
  BY <1>2, QuietType, Bounds
<1>3. ASSUME NEW w \in Workers,
             \/ WorkerStep(w) \/ Failure(w)
             \/ OpenFragment(w) \/ BeginHandOver(w) \/ EndHandOver(w)
      PROVE  IngestTypeOK'
  BY <1>3, QuietType, ReadSegmentType, LoadFailsType, SendSegmentType, OpenFragmentType,
     EndHandOverType, FlushType, DropStreamType DEF WorkerStep, Failure
<1>4. QED
  BY <1>1, <1>2, <1>3 DEF IngestNext

-----------------------------------------------------------------------------
\* Workers that a step does not touch, and steps that move no fragment.
LEMMA UntouchedWorker ==
    ASSUME NEW v \in Workers, WorkerInv(v), IngestTypeOK,
           task'[v] = task[v], source'[v] = source[v], opened'[v] = opened[v],
           current'[v] = current[v], discardNext'[v] = discardNext[v],
           handing'[v] = handing[v], channel'[v] = channel[v], inHand'[v] = inHand[v],
           aborted \subseteq aborted',
           \/ sent' = sent
           \/ \E x \in Segment : sent' = Append(sent, x) /\ x.by # v
    PROVE  WorkerInv(v)'
<1>1. ASSUME NEW i \in 1 .. Len(sent'), sent'[i].by = v
      PROVE  i \in 1 .. Len(sent) /\ sent'[i] = sent[i]
  <2>1. CASE sent' = sent
    BY <1>1, <2>1
  <2>2. CASE \E x \in Segment : sent' = Append(sent, x) /\ x.by # v
    <3>1. PICK x \in Segment : sent' = Append(sent, x) /\ x.by # v
      BY <2>2
    <3>2. sent \in Seq(Segment)
      BY DEF IngestTypeOK
    <3>3. i = Len(sent) + 1 => sent'[i] = x
      BY <3>1, <3>2
    <3>4. i # Len(sent) + 1
      BY <1>1, <3>1, <3>3
    <3>5. QED
      BY <1>1, <3>1, <3>2, <3>4
  <2>3. QED
    BY <2>1, <2>2
<1>2. Complete(v)' = Complete(v)
  BY DEF Complete
<1>3. StageInv(v)'
  <2>1. (\A i \in 1 .. Len(sent) : sent[i].by # v)
            => \A i \in 1 .. Len(sent') : sent'[i].by # v
    BY <1>1
  <2>2. QED
    BY <2>1 DEF WorkerInv, StageInv
<1>4. CallbackInv(v)'
  BY DEF WorkerInv, CallbackInv
<1>5. WayInv(v)'
  <2>1. \A i \in 1 .. Len(sent') : sent'[i].by = v =>
            /\ sent'[i].n \in 1 .. Complete(v) - 1
            /\ \A j \in 1 .. Len(channel[v]) : sent'[i].n < channel[v][j]
            /\ inHand[v] # <<>> => sent'[i].n < inHand[v][1]
    BY <1>1 DEF WorkerInv, WayInv
  <2>2. QED
    BY <1>2, <2>1 DEF WorkerInv, WayInv
<1>6. QED
  BY <1>3, <1>4, <1>5 DEF WorkerInv

\* A worker that reads has a stream, and with it a sender: recv yields a fragment.
LEMMA ReadTakes ==
    ASSUME IngestInv, NEW w \in Workers, ReadSegment(w)
    PROVE  /\ channel[w] # <<>> /\ inHand[w] = <<>> /\ task[w] = "reading"
           /\ task'[w] = "settling" /\ inHand'[w] = <<Head(channel[w])>>
           /\ channel'[w] = Tail(channel[w])
           /\ \A v \in Workers : v # w =>
                /\ task'[v] = task[v] /\ inHand'[v] = inHand[v]
                /\ channel'[v] = channel[v]
           /\ UNCHANGED <<entry, aborted, attempt, source, opened, current, discardNext,
                          handing, sent, drained, unread>>
<1>1. task[w] = "reading" /\ channel[w] # <<>>
  BY DEF ReadSegment, Senders, HasStream
<1>2. inHand[w] = <<>>
  BY <1>1 DEF IngestInv, WorkerInv, StageInv
<1>3. /\ task' = [task EXCEPT ![w] = "settling"]
      /\ inHand' = [inHand EXCEPT ![w] = <<Head(channel[w])>>]
      /\ channel' = [channel EXCEPT ![w] = Tail(channel[w])]
  BY <1>1 DEF ReadSegment, GoTo
<1>4. UNCHANGED <<entry, aborted, attempt, source, opened, current, discardNext,
                  handing, sent, drained, unread>>
  BY DEF ReadSegment, managerVars, streamVars, fragmentVars, queueVars
<1>5. /\ task \in [Workers -> Stages] /\ inHand \in [Workers -> Optional(Fragments)]
      /\ channel \in [Workers -> Seq(Fragments)]
  BY DEF IngestInv, IngestTypeOK
<1>6. QED
  BY <1>1, <1>2, <1>3, <1>4, <1>5

\* A step of worker w leaves the others alone.
LEMMA OtherWorkers ==
    ASSUME IngestInv, NEW w \in Workers, NEW v \in Workers, v # w,
           \/ WorkerStep(w) \/ Failure(w)
           \/ OpenFragment(w) \/ BeginHandOver(w) \/ EndHandOver(w)
    PROVE  WorkerInv(v)'
<1> USE DEF IngestInv, GoTo, managerVars, fragmentVars, streamVars, queueVars
<1>0. IngestTypeOK /\ WorkerInv(v)
  OBVIOUS
<1>1. CASE Cancel(w) \/ GiveUp(w) \/ Settled(w) \/ Load(w) \/ Delete(w)
           \/ StopPipeline(w) \/ ConnectFails(w) \/ CameraFails(w) \/ LoadFails(w)
  <2>1. CASE Cancel(w) \/ GiveUp(w) \/ Settled(w)
    BY <1>0, <2>1, UntouchedWorker DEF IngestTypeOK, Cancel, GiveUp, Settled
  <2>2. CASE Load(w) \/ Delete(w) \/ StopPipeline(w)
    BY <1>0, <2>2, UntouchedWorker DEF IngestTypeOK, Load, Delete, StopPipeline
  <2>3. CASE ConnectFails(w) \/ CameraFails(w) \/ LoadFails(w)
    BY <1>0, <2>3, UntouchedWorker DEF IngestTypeOK, ConnectFails, CameraFails, LoadFails
  <2>4. QED
    BY <1>1, <2>1, <2>2, <2>3
<1>2. CASE Connect(w) \/ ReadSegment(w) \/ Flush(w) \/ DropStream(w)
  <2>1. CASE Connect(w)
    <3>1. /\ task'[v] = task[v] /\ source'[v] = source[v] /\ opened'[v] = opened[v]
          /\ UNCHANGED <<handing, channel, inHand, aborted, sent>>
      BY <1>0, <2>1 DEF IngestTypeOK, Connect
    <3>2. current'[v] = current[v] /\ discardNext'[v] = discardNext[v]
      BY <1>0, <2>1 DEF IngestTypeOK, Connect
    <3>3. QED
      BY <1>0, <3>1, <3>2, UntouchedWorker
  <2>2. CASE ReadSegment(w)
    <3>1. /\ task'[v] = task[v] /\ inHand'[v] = inHand[v] /\ channel'[v] = channel[v]
          /\ UNCHANGED <<source, opened, current, discardNext, handing, aborted, sent>>
      BY <2>2, ReadTakes
    <3>2. QED
      BY <1>0, <3>1, UntouchedWorker
  <2>3. CASE Flush(w) \/ DropStream(w)
    BY <1>0, <2>3, UntouchedWorker DEF IngestTypeOK, Flush, DropStream
  <2>4. QED
    BY <1>2, <2>1, <2>2, <2>3
<1>3. CASE OpenFragment(w) \/ BeginHandOver(w) \/ EndHandOver(w)
  BY <1>0, <1>3, UntouchedWorker
     DEF IngestTypeOK, OpenFragment, BeginHandOver, EndHandOver
<1>4. CASE SendSegment(w)
  <2>1. inHand[w] # <<>> /\ inHand[w] \in Optional(Fragments)
    BY <1>4 DEF SendSegment, WorkerInv, StageInv, IngestTypeOK
  <2>2. [by |-> w, n |-> Head(inHand[w])] \in Segment
    BY <2>1, OptionalType DEF Segment
  <2>3. QED
    BY <1>0, <1>4, <2>2, UntouchedWorker DEF IngestTypeOK, SendSegment
<1>5. QED
  BY <1>1, <1>2, <1>3, <1>4 DEF WorkerStep, Failure

\* Steps after which the fragments of w lie where they lay, or are gone.
LEMMA QuietWay ==
    ASSUME NEW w \in Workers, WayInv(w), sent' = sent,
           UNCHANGED <<opened, current, handing>>,
           channel'[w] = channel[w] \/ channel'[w] = <<>>,
           inHand'[w] = inHand[w] \/ inHand'[w] = <<>>
    PROVE  WayInv(w)'
<1>1. Complete(w)' = Complete(w)
  BY DEF Complete
<1>2. 1 .. Len(<<>>) = {}
  OBVIOUS
<1>3. CASE channel'[w] = channel[w]
  BY <1>1, <1>3 DEF WayInv
<1>4. CASE channel'[w] = <<>>
  BY <1>1, <1>2, <1>4 DEF WayInv
<1>5. QED
  BY <1>3, <1>4

LEMMA QuietSteps ==
    ASSUME IngestInv, NEW w \in Workers,
           \/ Cancel(w) \/ GiveUp(w) \/ ConnectFails(w) \/ CameraFails(w)
           \/ Settled(w) \/ Load(w) \/ LoadFails(w) \/ Delete(w)
           \/ StopPipeline(w) \/ DropStream(w)
    PROVE  WorkerInv(w)'
<1> USE DEF IngestInv, WorkerInv, IngestTypeOK, GoTo, managerVars, fragmentVars,
            streamVars, queueVars
<1>1. WayInv(w)'
  <2>1. CASE Cancel(w) \/ LoadFails(w) \/ DropStream(w)
    BY <2>1, QuietWay DEF Cancel, LoadFails, DropStream
  <2>2. CASE GiveUp(w) \/ ConnectFails(w) \/ CameraFails(w)
    BY <2>2, QuietWay DEF GiveUp, ConnectFails, CameraFails
  <2>3. CASE Settled(w) \/ Load(w) \/ Delete(w) \/ StopPipeline(w)
    BY <2>3, QuietWay DEF Settled, Load, Delete, StopPipeline
  <2>4. QED
    BY <2>1, <2>2, <2>3
<1>2. CallbackInv(w)'
  <2>1. UNCHANGED <<opened, current, discardNext, handing>>
    BY DEF Cancel, GiveUp, ConnectFails, CameraFails, Settled, Load, LoadFails, Delete,
           StopPipeline, DropStream
  <2>2. QED
    BY <2>1 DEF CallbackInv
<1>3. CASE Cancel(w)
  <2>1. /\ w \in aborted /\ aborted' = aborted /\ inHand'[w] = <<>>
        /\ task'[w] \in {"stopping", "ended"}
    BY <1>3 DEF Cancel
  <2>2. StageInv(w)'
    BY <2>1 DEF StageInv
  <2>3. QED
    BY <1>1, <1>2, <2>2
<1>4. CASE GiveUp(w) \/ ConnectFails(w) \/ CameraFails(w)
  <2>1. /\ UNCHANGED <<sent, handing, channel, inHand, aborted>>
        /\ \/ task' = task /\ source' = source
           \/ task' = task /\ source[w] = "playing"
           \/ source' = source /\ task[w] = "connecting" /\ task'[w] = "ended"
    <3>1. CASE GiveUp(w)
      BY <3>1 DEF GiveUp
    <3>2. CASE ConnectFails(w)
      BY <3>2 DEF ConnectFails
    <3>3. CASE CameraFails(w)
      BY <3>3 DEF CameraFails
    <3>4. QED
      BY <1>4, <3>1, <3>2, <3>3
  <2>2. StageInv(w)'
    BY <2>1 DEF StageInv
  <2>3. QED
    BY <1>1, <1>2, <2>2
<1>5. CASE Settled(w) \/ Load(w) \/ LoadFails(w) \/ Delete(w)
  <2>1. CASE Settled(w)
    BY <1>1, <1>2, <2>1 DEF StageInv, Settled
  <2>2. CASE Load(w)
    BY <1>1, <1>2, <2>2 DEF StageInv, Load
  <2>3. CASE LoadFails(w)
    BY <1>1, <1>2, <2>3 DEF StageInv, LoadFails
  <2>4. CASE Delete(w)
    BY <1>1, <1>2, <2>4 DEF StageInv, Delete
  <2>5. QED
    BY <1>5, <2>1, <2>2, <2>3, <2>4
<1>6. CASE StopPipeline(w) \/ DropStream(w)
  <2>1. CASE StopPipeline(w)
    BY <1>1, <1>2, <2>1 DEF StageInv, StopPipeline
  <2>2. CASE DropStream(w)
    BY <1>1, <1>2, <2>2 DEF StageInv, DropStream
  <2>3. QED
    BY <1>6, <2>1, <2>2
<1>7. QED
  BY <1>3, <1>4, <1>5, <1>6

LEMMA ConnectStep ==
    ASSUME IngestInv, NEW w \in Workers, Connect(w)
    PROVE  WorkerInv(w)'
<1> USE DEF IngestInv, WorkerInv, IngestTypeOK, GoTo, managerVars, queueVars
<1>1. /\ task[w] = "connecting" /\ task'[w] = "reading"
      /\ handing'[w] = <<>> /\ channel'[w] = <<>> /\ inHand'[w] = <<>>
      /\ opened'[w] = 0 /\ current'[w] = <<>> /\ discardNext'[w] = TRUE
      /\ sent' = sent /\ \A i \in 1 .. Len(sent) : sent[i].by # w
  BY DEF Connect, StageInv
<1>2. StageInv(w)' /\ CallbackInv(w)'
  BY <1>1 DEF StageInv, CallbackInv
<1>3. WayInv(w)'
  BY <1>1 DEF WayInv
<1>4. QED
  BY <1>2, <1>3

\* recv never yields None: the worker that asks holds a sender itself.
LEMMA ReadSegmentStep ==
    ASSUME IngestInv, NEW w \in Workers, ReadSegment(w)
    PROVE  WorkerInv(w)'
<1> USE DEF IngestInv, WorkerInv, IngestTypeOK, GoTo, managerVars, fragmentVars,
            streamVars, queueVars
<1>1. channel[w] # <<>>
  BY ReadTakes
<1>2. /\ task[w] = "reading" /\ task'[w] = "settling" /\ inHand[w] = <<>>
      /\ inHand'[w] = <<Head(channel[w])>> /\ channel'[w] = Tail(channel[w])
      /\ UNCHANGED <<sent, opened, current, discardNext, handing, source, aborted>>
  BY ReadTakes
<1>3. channel[w] \in Seq(Fragments)
  OBVIOUS
<1>4. /\ Len(channel[w]) \in Nat \ {0} /\ inHand'[w][1] = channel[w][1]
      /\ Len(channel'[w]) = Len(channel[w]) - 1
      /\ \A j \in 1 .. Len(channel[w]) - 1 : channel'[w][j] = channel[w][j + 1]
  <2>1. /\ Len(channel[w]) \in Nat \ {0} /\ Head(channel[w]) = channel[w][1]
        /\ Len(Tail(channel[w])) = Len(channel[w]) - 1
        /\ \A j \in 1 .. Len(channel[w]) - 1 :
                Tail(channel[w])[j] = channel[w][j + 1]
    BY <1>1, <1>3, HeadTailProperties, EmptySeq
  <2>2. QED
    BY <1>2, <2>1
<1>5. StageInv(w)' /\ CallbackInv(w)'
  <2>1. StageInv(w)'
    BY <1>2 DEF StageInv
  <2>2. CallbackInv(w)'
    BY <1>2 DEF CallbackInv
  <2>3. QED
    BY <2>1, <2>2
<1>6. Complete(w)' = Complete(w)
  BY <1>2 DEF Complete
<1>7. WayInv(w)'
  <2>1. \A j \in 1 .. Len(channel[w]) - 1 : j + 1 \in 1 .. Len(channel[w]) /\ 1 < j + 1
    BY <1>4
  <2>2. 1 \in 1 .. Len(channel[w])
    BY <1>4
  <2> HIDE DEF IngestInv, IngestTypeOK
  <2>3. WayInv(w)
    BY DEF IngestInv
  <2>4. \A j, k \in 1 .. Len(channel'[w]) : j < k => channel'[w][j] < channel'[w][k]
    <3>1. ASSUME NEW j \in 1 .. Len(channel'[w]), NEW k \in 1 .. Len(channel'[w]), j < k
          PROVE  channel'[w][j] < channel'[w][k]
      <4>1. j + 1 < k + 1
        BY <3>1
      <4>2. QED
        BY <1>4, <2>1, <2>3, <4>1 DEF WayInv
    <3>2. QED
      BY <3>1
  <2>5. \A i \in 1 .. Len(sent') : sent'[i].by = w =>
            /\ sent'[i].n \in 1 .. Complete(w) - 1
            /\ \A j \in 1 .. Len(channel'[w]) : sent'[i].n < channel'[w][j]
            /\ sent'[i].n < inHand'[w][1]
    BY <1>2, <1>4, <2>1, <2>2, <2>3 DEF WayInv
  <2>6. /\ inHand'[w][1] \in 1 .. Complete(w) - 1
        /\ \A j \in 1 .. Len(channel'[w]) : inHand'[w][1] < channel'[w][j]
    BY <1>4, <2>1, <2>2, <2>3 DEF WayInv
  <2>7. \A j \in 1 .. Len(channel'[w]) : channel'[w][j] \in 1 .. Complete(w) - 1
    BY <1>4, <2>1, <2>3 DEF WayInv
  <2>8. QED
    BY <1>6, <2>4, <2>5, <2>6, <2>7 DEF WayInv
<1>8. QED
  BY <1>5, <1>7

LEMMA SendSegmentStep ==
    ASSUME IngestInv, NEW w \in Workers, SendSegment(w)
    PROVE  WorkerInv(w)' /\ InOrder'
<1> DEFINE x == [by |-> w, n |-> Head(inHand[w])]
<1>1. /\ task[w] = "sending" /\ task'[w] = "reading" /\ inHand'[w] = <<>>
      /\ sent' = Append(sent, x) /\ sent \in Seq(Segment)
      /\ UNCHANGED <<channel, opened, current, discardNext, handing, source, aborted>>
  BY DEF SendSegment, IngestInv, IngestTypeOK, GoTo, managerVars, fragmentVars, streamVars
<1>2. inHand[w] # <<>> /\ inHand[w] \in Optional(Fragments) /\ WorkerInv(w)
  BY <1>1 DEF IngestInv, IngestTypeOK, WorkerInv, StageInv
<1>3. x \in Segment /\ x.by = w /\ x.n = inHand[w][1]
  BY <1>2, OptionalType DEF Segment
<1> HIDE DEF x
<1>4. /\ Len(sent') = Len(sent) + 1 /\ Len(sent) \in Nat
      /\ \A i \in 1 .. Len(sent) : sent'[i] = sent[i]
      /\ sent'[Len(sent) + 1] = x
  BY <1>1, <1>3
<1>5. \A i \in 1 .. Len(sent') : i \in 1 .. Len(sent) \/ i = Len(sent) + 1
  BY <1>4
<1>6. \A i \in 1 .. Len(sent) : sent[i].by = w => sent[i].n < x.n
  BY <1>2, <1>3 DEF WorkerInv, WayInv
<1>7. StageInv(w)' /\ CallbackInv(w)'
  BY <1>1, <1>2 DEF WorkerInv, StageInv, CallbackInv
<1>8. WayInv(w)'
  <2>1. Complete(w)' = Complete(w)
    BY <1>1 DEF Complete
  <2>2. \A i \in 1 .. Len(sent') : sent'[i].by = w =>
            /\ sent'[i].n \in 1 .. Complete(w) - 1
            /\ \A j \in 1 .. Len(channel[w]) : sent'[i].n < channel[w][j]
    BY <1>2, <1>3, <1>4, <1>5 DEF WorkerInv, WayInv
  <2>3. QED
    BY <1>1, <1>2, <2>1, <2>2 DEF WorkerInv, WayInv
<1>9. InOrder'
  <2>1. ASSUME NEW i \in 1 .. Len(sent'), NEW j \in 1 .. Len(sent'),
               i < j, sent'[i].by = sent'[j].by
        PROVE  sent'[i].n < sent'[j].n
    <3>1. CASE j \in 1 .. Len(sent)
      <4>1. i \in 1 .. Len(sent)
        BY <1>4, <2>1, <3>1
      <4>2. QED
        BY <1>4, <2>1, <3>1, <4>1 DEF IngestInv, InOrder
    <3>2. CASE j = Len(sent) + 1
      <4>1. i \in 1 .. Len(sent)
        BY <1>4, <2>1, <3>2
      <4>2. QED
        BY <1>3, <1>4, <1>6, <2>1, <3>2, <4>1
    <3>3. QED
      BY <1>5, <3>1, <3>2
  <2>2. QED
    BY <2>1 DEF InOrder
<1>10. QED
  BY <1>7, <1>8, <1>9 DEF WorkerInv

\* What is complete stays complete when the newest fragment changes.
LEMMA MoreComplete ==
    ASSUME NEW w \in Workers, WayInv(w), UNCHANGED <<sent, channel, inHand>>,
           Complete(w) \in Int, Complete(w)' \in Int, Complete(w) <= Complete(w)'
    PROVE  WayInv(w)'
<1>1. \A n \in 1 .. Complete(w) - 1 : n \in 1 .. Complete(w)' - 1
  OBVIOUS
<1>2. QED
  BY <1>1 DEF WayInv

LEMMA OpenFragmentStep ==
    ASSUME IngestInv, NEW w \in Workers, OpenFragment(w) \/ BeginHandOver(w)
    PROVE  WorkerInv(w)'
<1>1. /\ opened[w] \in Nat /\ opened[w] < MaxFragments /\ handing[w] = <<>>
      /\ discardNext[w] \in BOOLEAN /\ WorkerInv(w)
      /\ task[w] \notin {"unborn", "connecting"}
      /\ UNCHANGED <<task, source, sent, channel, inHand, aborted>>
  <2>1. CanOpen(w) /\ UNCHANGED <<task, source, sent, channel, inHand, aborted>>
    BY DEF OpenFragment, BeginHandOver, managerVars, queueVars
  <2>2. /\ opened[w] < MaxFragments /\ handing[w] = <<>> /\ source[w] = "playing"
    BY <2>1 DEF CanOpen
  <2>3. opened[w] \in Nat /\ discardNext[w] \in BOOLEAN /\ WorkerInv(w)
    BY Bounds DEF IngestInv, IngestTypeOK
  <2>4. task[w] \notin {"unborn", "connecting"}
    BY <2>2, <2>3 DEF WorkerInv, StageInv
  <2>5. QED
    BY <2>1, <2>2, <2>3, <2>4
<1>2. StageInv(w)'
  BY <1>1 DEF WorkerInv, StageInv
<1>3. CASE OpenFragment(w)
  <2>1. /\ opened'[w] = opened[w] + 1 /\ current'[w] = <<opened[w]>>
        /\ handing'[w] = <<>>
        /\ discardNext'[w] = (discardNext[w] /\ current[w] = <<>>)
        /\ current[w] = <<>> \/ discardNext[w]
    BY <1>1, <1>3 DEF OpenFragment, IngestInv, IngestTypeOK
  <2>2. current[w] # <<>> => opened[w] > 0
    BY <1>1 DEF WorkerInv, CallbackInv
  <2>3. ~discardNext[w] => opened[w] >= 2
    BY <1>1 DEF WorkerInv, CallbackInv
  <2>4. opened'[w] - 1 = opened[w]
    BY <1>1, <2>1
  <2>5. ~discardNext'[w] => opened'[w] >= 2
    BY <1>1, <2>1, <2>2, <2>3
  <2>6. CallbackInv(w)'
    BY <1>1, <2>1, <2>4, <2>5 DEF CallbackInv
  <2>7. Complete(w)' = opened[w] /\ Complete(w) \in Int /\ Complete(w) <= opened[w]
    BY <1>1, <2>1, <2>4 DEF Complete
  <2>8. WayInv(w)'
    BY <1>1, <2>7, MoreComplete DEF WorkerInv
  <2>9. QED
    BY <1>2, <2>6, <2>8 DEF WorkerInv
<1>4. CASE BeginHandOver(w)
  <2>1. /\ handing'[w] = current[w] /\ current'[w] = <<>> /\ current[w] # <<>>
        /\ opened' = opened /\ discardNext' = discardNext /\ ~discardNext[w]
    BY <1>4 DEF BeginHandOver, IngestInv, IngestTypeOK
  <2>2. CallbackInv(w)'
    BY <1>1, <2>1 DEF WorkerInv, CallbackInv
  <2>3. Complete(w)' = Complete(w) /\ Complete(w) \in Int
    BY <1>1, <2>1 DEF Complete
  <2>4. WayInv(w)'
    BY <1>1, <2>3, MoreComplete DEF WorkerInv
  <2>5. QED
    BY <1>2, <2>2, <2>4 DEF WorkerInv
<1>5. QED
  BY <1>3, <1>4

\* The newest fragment goes into the channel, behind everything else.
LEMMA NewestEnters ==
    ASSUME IngestTypeOK, NEW w \in Workers, WayInv(w), UNCHANGED <<sent, inHand>>,
           opened[w] - 1 \in Fragments, opened[w] >= 2, opened[w] \in Nat,
           Complete(w) = opened[w] - 1, Complete(w)' = opened[w],
           Len(channel[w]) < ChannelSize,
           channel' = [channel EXCEPT ![w] = @ \o <<opened[w] - 1>>]
    PROVE  WayInv(w)'
<1> DEFINE n == opened[w] - 1
<1>1. n \in Fragments /\ n \in 1 .. Complete(w)' - 1 /\ Complete(w)' = n + 1
      /\ Complete(w) = n /\ n \in Nat
  OBVIOUS
<1>2. /\ Len(channel'[w]) = Len(channel[w]) + 1 /\ Len(channel[w]) \in Nat
      /\ \A j \in 1 .. Len(channel[w]) + 1 :
            channel'[w][j] = IF j = Len(channel[w]) + 1 THEN n ELSE channel[w][j]
  BY ChannelGrows
<1> HIDE DEF n
<1>3. \A m \in 1 .. Complete(w) - 1 : m < n /\ m \in 1 .. Complete(w)' - 1
  BY <1>1
<1>4. \A j \in 1 .. Len(channel'[w]) :
          \/ j \in 1 .. Len(channel[w]) /\ channel'[w][j] = channel[w][j]
          \/ j = Len(channel[w]) + 1 /\ channel'[w][j] = n
  BY <1>2
<1>5. \A j, k \in 1 .. Len(channel'[w]) : j < k => channel'[w][j] < channel'[w][k]
  <2>1. ASSUME NEW j \in 1 .. Len(channel'[w]), NEW k \in 1 .. Len(channel'[w]), j < k
        PROVE  channel'[w][j] < channel'[w][k]
    <3>1. j \in 1 .. Len(channel[w]) /\ channel'[w][j] = channel[w][j]
      BY <1>2, <1>4, <2>1
    <3>2. CASE k = Len(channel[w]) + 1 /\ channel'[w][k] = n
      BY <1>3, <3>1, <3>2 DEF WayInv
    <3>3. CASE k \in 1 .. Len(channel[w]) /\ channel'[w][k] = channel[w][k]
      BY <2>1, <3>1, <3>3 DEF WayInv
    <3>4. QED
      BY <1>4, <3>2, <3>3
  <2>2. QED
    BY <2>1
<1>6. \A j \in 1 .. Len(channel'[w]) : channel'[w][j] \in 1 .. Complete(w)' - 1
  BY <1>1, <1>3, <1>4 DEF WayInv
<1>7. ASSUME NEW m \in 1 .. Complete(w) - 1,
             \A j \in 1 .. Len(channel[w]) : m < channel[w][j]
      PROVE  \A j \in 1 .. Len(channel'[w]) : m < channel'[w][j]
  BY <1>3, <1>4, <1>7
<1>8. QED
  BY <1>3, <1>5, <1>6, <1>7 DEF WayInv

LEMMA EndHandOverStep ==
    ASSUME IngestInv, NEW w \in Workers, EndHandOver(w)
    PROVE  WorkerInv(w)'
<1>1. /\ opened[w] \in Nat /\ opened[w] >= 2 /\ opened[w] - 1 \in Fragments
      /\ handing[w] # <<>> /\ current[w] = <<>> /\ ~discardNext[w] /\ WorkerInv(w)
      /\ task[w] \notin {"unborn", "connecting"}
  BY EndHandOverGrows DEF EndHandOver, IngestInv, WorkerInv, CallbackInv, StageInv
<1>2. /\ opened'[w] = opened[w] + 1 /\ current'[w] = <<opened[w]>> /\ handing'[w] = <<>>
      /\ UNCHANGED <<task, source, sent, inHand, aborted, discardNext>>
  BY DEF EndHandOver, IngestInv, IngestTypeOK, managerVars, queueVars
<1>3. StageInv(w)'
  BY <1>1, <1>2 DEF WorkerInv, StageInv
<1>4. CallbackInv(w)'
  <2>1. opened'[w] - 1 = opened[w] /\ opened'[w] >= 2
    BY <1>1, <1>2
  <2>2. QED
    BY <1>1, <1>2, <2>1 DEF CallbackInv
<1>5. Complete(w) = opened[w] - 1 /\ Complete(w)' = opened[w]
  BY <1>1, <1>2 DEF Complete
<1>6. WayInv(w)'
  BY <1>1, <1>2, <1>5, EndHandOverGrows, NewestEnters DEF IngestInv, WorkerInv
<1>7. QED
  BY <1>3, <1>4, <1>6 DEF WorkerInv

LEMMA FlushStep ==
    ASSUME IngestInv, NEW w \in Workers, Flush(w)
    PROVE  WorkerInv(w)'
<1>1. /\ task[w] = "flushing" /\ task'[w] = "dropping" /\ current'[w] = <<>>
      /\ UNCHANGED <<source, opened, discardNext, handing, inHand, sent, aborted>>
      /\ opened[w] \in Nat /\ WorkerInv(w)
  BY Bounds DEF Flush, GoTo, IngestInv, IngestTypeOK, managerVars, queueVars
<1>2. StageInv(w)'
  BY <1>1 DEF WorkerInv, StageInv
<1>3. CallbackInv(w)'
  BY <1>1 DEF WorkerInv, CallbackInv
<1>4. CASE channel' = channel
  <2>1. Complete(w) \in Int /\ Complete(w)' \in Int /\ Complete(w) <= Complete(w)'
    BY <1>1 DEF Complete
  <2>2. QED
    BY <1>1, <1>2, <1>3, <1>4, <2>1, MoreComplete DEF WorkerInv
<1>5. CASE /\ current[w] = <<opened[w] - 1>> /\ handing[w] = <<>>
           /\ opened[w] - 1 \in Fragments /\ opened[w] >= 2
           /\ channel' = [channel EXCEPT ![w] = @ \o <<opened[w] - 1>>]
           /\ Len(channel[w]) < ChannelSize
  <2>1. Complete(w) = opened[w] - 1 /\ Complete(w)' = opened[w]
    BY <1>1, <1>5 DEF Complete
  <2>2. WayInv(w)'
    BY <1>1, <1>5, <2>1, NewestEnters DEF IngestInv, WorkerInv
  <2>3. QED
    BY <1>2, <1>3, <2>2 DEF WorkerInv
<1>6. QED
  BY <1>4, <1>5, FlushCases

-----------------------------------------------------------------------------
\* The manager.
LEMMA AddCameraStep ==
    ASSUME IngestInv, AddCamera
    PROVE  (\A v \in Workers : WorkerInv(v)') /\ OneWorker'
<1>1. PICK w \in Workers : task[w] = "unborn" /\ entry' = w /\ GoTo(w, "connecting")
  BY DEF AddCamera
<1>2. /\ task' = [task EXCEPT ![w] = "connecting"] /\ task \in [Workers -> Stages]
      /\ UNCHANGED <<aborted, source, opened, current, discardNext, handing, channel,
                     inHand, sent>>
  BY <1>1 DEF AddCamera, GoTo, IngestInv, IngestTypeOK, fragmentVars, streamVars, queueVars
<1>3. ASSUME NEW v \in Workers PROVE WorkerInv(v)'
  <2>1. CASE v # w
    BY <1>2, <2>1, UntouchedWorker DEF IngestInv
  <2>2. CASE v = w
    <3>1. WorkerInv(w) /\ task'[w] = "connecting"
      BY <1>2 DEF IngestInv
    <3>2. StageInv(w)' /\ CallbackInv(w)'
      BY <1>1, <1>2, <3>1 DEF WorkerInv, StageInv, CallbackInv
    <3>3. WayInv(w)'
      BY <1>2, <3>1, QuietWay DEF WorkerInv
    <3>4. QED
      BY <2>2, <3>2, <3>3 DEF WorkerInv
  <2>3. QED
    BY <2>1, <2>2
<1>4. OneWorker'
  <2>1. \A v \in Workers : v # w =>
            task'[v] \in {"unborn", "ended"} \/ v \in aborted
    BY <1>2, Bounds DEF AddCamera, IngestInv, OneWorker
  <2>2. QED
    BY <1>1, <1>2, <2>1 DEF OneWorker
<1>5. QED
  BY <1>3, <1>4

LEMMA OneWorkerStep ==
    ASSUME IngestInv, NEW w \in Workers,
           \/ WorkerStep(w) \/ Failure(w)
           \/ OpenFragment(w) \/ BeginHandOver(w) \/ EndHandOver(w)
    PROVE  OneWorker'
<1>1. /\ UNCHANGED <<entry, aborted>>
      /\ \A v \in Workers : task'[v] \notin {"unborn", "ended"} =>
            task[v] \notin {"unborn", "ended"}
  BY DEF IngestInv, IngestTypeOK, WorkerStep, Failure, GoTo, managerVars, Cancel, Connect,
         GiveUp, ReadSegment, Settled, Load, Delete, SendSegment, StopPipeline, Flush,
         DropStream, ConnectFails, CameraFails, LoadFails, OpenFragment, BeginHandOver,
         EndHandOver, Awaiting
<1>2. QED
  BY <1>1 DEF IngestInv, OneWorker

LEMMA WorkerActs ==
    ASSUME IngestInv, NEW w \in Workers,
           \/ WorkerStep(w) \/ Failure(w)
           \/ OpenFragment(w) \/ BeginHandOver(w) \/ EndHandOver(w)
    PROVE  (\A v \in Workers : WorkerInv(v)') /\ InOrder' /\ OneWorker'
<1>1. WorkerInv(w)'
  BY QuietSteps, ConnectStep, ReadSegmentStep, SendSegmentStep, OpenFragmentStep,
     EndHandOverStep, FlushStep DEF WorkerStep, Failure
<1>2. \A v \in Workers : v # w => WorkerInv(v)'
  BY OtherWorkers
<1>3. InOrder'
  <2>1. CASE SendSegment(w)
    BY <2>1, SendSegmentStep
  <2>2. CASE ~SendSegment(w)
    <3>1. sent' = sent
      BY <2>2 DEF WorkerStep, Failure, queueVars, Cancel, Connect, GiveUp, ReadSegment,
             Settled, Load, Delete, StopPipeline, Flush, DropStream, ConnectFails,
             CameraFails, LoadFails, OpenFragment, BeginHandOver, EndHandOver
    <3>2. QED
      BY <3>1 DEF IngestInv, InOrder
  <2>3. QED
    BY <2>1, <2>2
<1>4. QED
  BY <1>1, <1>2, <1>3, OneWorkerStep

LEMMA ManagerActs ==
    ASSUME IngestInv, RemoveCamera \/ WriterTakes \/ UNCHANGED ingestVars
    PROVE  (\A v \in Workers : WorkerInv(v)') /\ InOrder' /\ OneWorker'
<1>1. /\ UNCHANGED <<task, source, opened, current, discardNext, handing, channel,
                     inHand, sent>>
      /\ aborted \subseteq aborted'
      /\ (entry' = entry /\ aborted' = aborted) \/ aborted' = aborted \cup {entry}
  BY DEF RemoveCamera, WriterTakes, ingestVars, managerVars, fragmentVars, streamVars,
         queueVars
<1>2. \A v \in Workers : WorkerInv(v)'
  BY <1>1, UntouchedWorker DEF IngestInv
<1>3. InOrder'
  BY <1>1 DEF IngestInv, InOrder
<1>4. OneWorker'
  BY <1>1 DEF IngestInv, OneWorker
<1>5. QED
  BY <1>2, <1>3, <1>4

LEMMA InitInv == IngestInit => IngestInv
<1> SUFFICES ASSUME IngestInit PROVE IngestInv
  OBVIOUS
<1>1. \A w \in Workers : WorkerInv(w)
  BY DEF IngestInit, WorkerInv, StageInv, CallbackInv, WayInv
<1>2. InOrder /\ OneWorker
  BY DEF IngestInit, InOrder, OneWorker
<1>3. QED
  BY <1>1, <1>2, InitType DEF IngestInv

LEMMA NextInv == IngestInv /\ [IngestNext]_ingestVars => IngestInv'
<1> SUFFICES ASSUME IngestInv, [IngestNext]_ingestVars PROVE IngestInv'
  OBVIOUS
<1>1. IngestTypeOK'
  BY NextType
<1>2. CASE AddCamera
  <2>1. InOrder'
    BY <1>2 DEF AddCamera, IngestInv, InOrder, queueVars
  <2>2. QED
    BY <1>1, <1>2, <2>1, AddCameraStep DEF IngestInv
<1>3. CASE RemoveCamera \/ WriterTakes \/ UNCHANGED ingestVars
  BY <1>1, <1>3, ManagerActs DEF IngestInv
<1>4. CASE \E w \in Workers :
              \/ WorkerStep(w) \/ Failure(w)
              \/ OpenFragment(w) \/ BeginHandOver(w) \/ EndHandOver(w)
  BY <1>1, <1>4, WorkerActs DEF IngestInv
<1>5. QED
  BY <1>2, <1>3, <1>4 DEF IngestNext

-----------------------------------------------------------------------------
LEMMA InvHolds == IngestSpec => []IngestInv
BY InitInv, NextInv, PTL DEF IngestSpec

\* Types and bounds: no channel grows past its size, and the callback never
\* opens a fragment while it hands one over (camera.rs, format-location).
THEOREM IngestTypeCorrect == IngestSpec => []IngestTypeOK
<1>1. IngestInv => IngestTypeOK
  BY DEF IngestInv
<1>2. QED
  BY <1>1, InvHolds, PTL

\* What the writer gets of one worker is in the order of recording, each fragment
\* once and never the bootstrap fragment, wherever the worker is cancelled.
THEOREM SentInOrderHolds == IngestSpec => []SentInOrder
<1>1. IngestInv => SentInOrder
  <2> SUFFICES ASSUME IngestInv PROVE SentInOrder
    OBVIOUS
  <2>1. ASSUME NEW s \in Range(sent) PROVE s.n # 0
    <3>1. PICK i \in 1 .. Len(sent) : s = sent[i]
      BY LenProperties DEF IngestInv, IngestTypeOK, Range
    <3>2. s \in Segment
      BY <3>1 DEF IngestInv, IngestTypeOK
    <3>3. s.by \in Workers
      BY <3>2 DEF Segment
    <3>4. s.n \in 1 .. Complete(s.by) - 1
      BY <3>1, <3>3 DEF IngestInv, WorkerInv, WayInv
    <3>5. QED
      BY <3>4
  <2>2. QED
    BY <2>1 DEF IngestInv, InOrder, SentInOrder
<1>2. QED
  BY <1>1, InvHolds, PTL

\* At most one worker that was not removed records the camera, and it is the one
\* the manager has in its map.
THEOREM OneWorkerHolds == IngestSpec => []OneWorker
<1>1. IngestInv => OneWorker
  BY DEF IngestInv
<1>2. QED
  BY <1>1, InvHolds, PTL

-----------------------------------------------------------------------------
\* A removed worker and its successor.

Born(w) == task[w] # "unborn"

\* Past the polling of the file, where an abort is no longer heard before the next
\* fragment is asked for.
Forwarding == {"loading", "deleting", "sending"}

\* Who was spawned is in the map or was removed, and all but the last were removed.
Successors ==
    /\ \A w \in Workers : Born(w) <=> w = entry \/ w \in aborted
    /\ \A v, w \in Workers : v < w /\ Born(w) => v \in aborted

\* A worker behind whose back a later one has sent forwards nothing more.
TurnsInv ==
    /\ Successors
    /\ \A i \in 1 .. Len(sent) : Born(sent[i].by)
    /\ \A i, j \in 1 .. Len(sent) :
            i < j /\ sent[i].by > sent[j].by => task[sent[j].by] \notin Forwarding
    /\ SuccessorTakesOver

LEMMA SentType ==
    ASSUME IngestInv, NEW i \in 1 .. Len(sent)
    PROVE  sent[i].by \in Workers
<1>1. sent[i] \in Segment
  BY DEF IngestInv, IngestTypeOK
<1>2. QED
  BY <1>1 DEF Segment

LEMMA QuietTurns ==
    ASSUME IngestInv, TurnsInv, UNCHANGED <<entry, aborted, sent>>,
           \A w \in Workers : /\ Born(w)' <=> Born(w)
                              /\ task'[w] \in Forwarding => task[w] \in Forwarding
    PROVE  TurnsInv'
<1>1. \A i \in 1 .. Len(sent) : sent[i].by \in Workers
  BY SentType
<1>2. Successors'
  BY DEF TurnsInv, Successors
<1>3. QED
  BY <1>1, <1>2 DEF TurnsInv, SuccessorTakesOver

\* A worker gets past the polling only when it is not aborted, and then no later
\* one exists.
LEMMA SettledTurns ==
    ASSUME IngestInv, TurnsInv, NEW w \in Workers, Settled(w)
    PROVE  TurnsInv'
<1>1. /\ UNCHANGED <<entry, aborted, sent>> /\ w \notin aborted
      /\ task[w] = "settling"
      /\ task \in [Workers -> Stages] /\ task' = [task EXCEPT ![w] = "loading"]
  BY DEF Settled, GoTo, managerVars, queueVars, IngestInv, IngestTypeOK
<1>2. \A v \in Workers : (Born(v)' <=> Born(v)) /\ (v # w => task'[v] = task[v])
  BY <1>1 DEF Born
<1>3. \A i \in 1 .. Len(sent) : sent[i].by \in Workers /\ ~(sent[i].by > w)
  BY <1>1, SentType DEF TurnsInv, Successors
<1>4. Successors'
  BY <1>1, <1>2 DEF TurnsInv, Successors
<1>5. QED
  BY <1>1, <1>2, <1>3, <1>4 DEF TurnsInv, SuccessorTakesOver

LEMMA SendTurns ==
    ASSUME IngestInv, TurnsInv, NEW w \in Workers, SendSegment(w)
    PROVE  TurnsInv'
<1> DEFINE new == [by |-> w, n |-> Head(inHand[w])]
<1>1. /\ UNCHANGED <<entry, aborted>> /\ task[w] = "sending"
      /\ task \in [Workers -> Stages] /\ task' = [task EXCEPT ![w] = "reading"]
      /\ sent \in Seq(Segment) /\ sent' = Append(sent, new)
  BY DEF SendSegment, GoTo, managerVars, IngestInv, IngestTypeOK
<1>2. new.by = w
  OBVIOUS
<1> HIDE DEF new
<1>3. /\ Len(sent) \in Nat /\ Len(sent') = Len(sent) + 1
      /\ \A i \in 1 .. Len(sent) : sent'[i] = sent[i] /\ sent[i].by \in Workers
      /\ sent'[Len(sent) + 1] = new
  <2>1. \A i \in 1 .. Len(sent) : sent[i].by \in Workers
    BY SentType
  <2>2. QED
    BY <1>1, <2>1
<1>4. \A v \in Workers : (Born(v)' <=> Born(v)) /\ (v # w => task'[v] = task[v])
  BY <1>1 DEF Born
<1>5. Successors'
  BY <1>1, <1>4 DEF TurnsInv, Successors
<1>6. ASSUME NEW i \in 1 .. Len(sent') PROVE Born(sent[i].by)'
  <2>1. CASE i \in 1 .. Len(sent)
    BY <1>3, <1>4, <2>1 DEF TurnsInv, Born
  <2>2. CASE i = Len(sent) + 1
    BY <1>1, <1>2, <1>3, <2>2 DEF Born
  <2>3. QED
    BY <1>3, <2>1, <2>2
<1>7. task'[w] \notin Forwarding
  BY <1>1 DEF Forwarding
\* The worker that sends has no later one in front of any of its segments.
<1>8. \A i, j \in 1 .. Len(sent) : i < j /\ sent[i].by > sent[j].by => sent[j].by # w
  BY <1>1 DEF TurnsInv, Forwarding
<1>9. ASSUME NEW i \in 1 .. Len(sent'), NEW j \in 1 .. Len(sent'),
             i < j, sent'[i].by > sent'[j].by
      PROVE  task'[sent'[j].by] \notin Forwarding
  <2>1. i \in 1 .. Len(sent)
    BY <1>3, <1>9
  <2>2. CASE j = Len(sent) + 1
    BY <1>2, <1>3, <1>7, <2>2
  <2>3. CASE j \in 1 .. Len(sent)
    BY <1>3, <1>4, <1>8, <1>9, <2>1, <2>3 DEF TurnsInv
  <2>4. QED
    BY <1>3, <2>2, <2>3
<1>10. ASSUME NEW i \in 1 .. Len(sent'), NEW j \in 1 .. Len(sent'),
              NEW k \in 1 .. Len(sent'), i < j, j < k, sent'[i].by > sent'[j].by
       PROVE  sent'[k].by # sent'[j].by
  <2>1. i \in 1 .. Len(sent) /\ j \in 1 .. Len(sent)
    BY <1>3, <1>10
  <2>2. CASE k = Len(sent) + 1
    BY <1>2, <1>3, <1>8, <1>10, <2>1, <2>2
  <2>3. CASE k \in 1 .. Len(sent)
    BY <1>3, <1>10, <2>1, <2>3 DEF TurnsInv, SuccessorTakesOver
  <2>4. QED
    BY <1>3, <2>2, <2>3
<1>11. QED
  BY <1>5, <1>6, <1>9, <1>10 DEF TurnsInv, SuccessorTakesOver

LEMMA AddTurns ==
    ASSUME IngestInv, TurnsInv, AddCamera
    PROVE  TurnsInv'
<1>1. PICK w \in Workers : /\ task[w] = "unborn" /\ entry' = w /\ GoTo(w, "connecting")
                           /\ \A v \in 1 .. w - 1 : task[v] # "unborn"
  BY DEF AddCamera
<1>2. /\ entry = 0 /\ task' = [task EXCEPT ![w] = "connecting"]
      /\ task \in [Workers -> Stages] /\ UNCHANGED <<aborted, sent>>
  BY <1>1 DEF AddCamera, GoTo, IngestInv, IngestTypeOK, queueVars
<1>3. \A v \in Workers : Born(v)' <=> Born(v) \/ v = w
  BY <1>2 DEF Born
<1>4. \A v \in Workers : Born(v) <=> v \in aborted
  BY <1>2, Bounds DEF TurnsInv, Successors
<1>5. \A v \in Workers : v < w => v \in aborted
  BY <1>1, <1>4, Bounds DEF Born
<1>6. Successors'
  BY <1>1, <1>2, <1>3, <1>4, <1>5 DEF TurnsInv, Successors, Born
<1>7. \A i \in 1 .. Len(sent) : sent[i].by \in Workers
  BY SentType
<1>8. \A v \in Workers : task'[v] \in Forwarding => task[v] \in Forwarding
  BY <1>2 DEF Forwarding
<1>9. QED
  BY <1>2, <1>3, <1>6, <1>7, <1>8 DEF TurnsInv, SuccessorTakesOver

LEMMA WorkerTurns ==
    ASSUME IngestInv, TurnsInv, NEW w \in Workers,
           \/ WorkerStep(w) \/ Failure(w)
           \/ OpenFragment(w) \/ BeginHandOver(w) \/ EndHandOver(w)
    PROVE  TurnsInv'
<1>1. CASE ~SendSegment(w) /\ ~Settled(w)
  <2>1. UNCHANGED <<entry, aborted, sent>>
    BY <1>1 DEF WorkerStep, Failure, managerVars, queueVars, Cancel, Connect, GiveUp,
           ReadSegment, Load, Delete, StopPipeline, Flush, DropStream, ConnectFails,
           CameraFails, LoadFails, OpenFragment, BeginHandOver, EndHandOver
  <2>2. task \in [Workers -> Stages]
    BY DEF IngestInv, IngestTypeOK
  <2>3. CASE ReadSegment(w)
    BY <2>1, <2>2, <2>3, ReadTakes, QuietTurns DEF Born, Forwarding
  <2>4. CASE UNCHANGED task
    BY <2>1, <2>4, QuietTurns DEF Born
  <2>5. ASSUME NEW stage \in Stages, GoTo(w, stage), stage # "unborn", Born(w),
               stage \in Forwarding => task[w] \in Forwarding
        PROVE  TurnsInv'
    <3>1. \A v \in Workers : task'[v] = IF v = w THEN stage ELSE task[v]
      BY <2>2, <2>5 DEF GoTo
    <3>2. QED
      BY <2>1, <2>5, <3>1, QuietTurns DEF Born
  <2>6. CASE Cancel(w) \/ Connect(w) \/ GiveUp(w) \/ LoadFails(w)
    BY <2>5, <2>6 DEF Cancel, Connect, GiveUp, LoadFails, Awaiting, Stages, Born, Forwarding
  <2>7. CASE Load(w) \/ Delete(w) \/ StopPipeline(w) \/ Flush(w) \/ DropStream(w)
    BY <2>5, <2>7 DEF Load, Delete, StopPipeline, Flush, DropStream, Awaiting, Stages,
                      Born, Forwarding
  <2>8. QED
    BY <1>1, <2>3, <2>4, <2>6, <2>7
       DEF WorkerStep, Failure, ConnectFails, CameraFails, OpenFragment, BeginHandOver,
           EndHandOver
<1>2. QED
  BY <1>1, SettledTurns, SendTurns

LEMMA NextTurns == IngestInv /\ TurnsInv /\ [IngestNext]_ingestVars => TurnsInv'
<1> SUFFICES ASSUME IngestInv, TurnsInv, [IngestNext]_ingestVars PROVE TurnsInv'
  OBVIOUS
<1>1. CASE RemoveCamera
  <2>1. /\ entry # 0 /\ entry' = 0 /\ aborted' = aborted \cup {entry}
        /\ UNCHANGED <<task, sent>> /\ entry \in Workers
    BY <1>1 DEF RemoveCamera, queueVars, IngestInv, IngestTypeOK
  <2>2. \A w \in Workers : Born(w)' <=> Born(w)
    BY <2>1 DEF Born
  <2>3. Successors'
    BY <2>1, <2>2, Bounds DEF TurnsInv, Successors
  <2>4. \A i \in 1 .. Len(sent) : sent[i].by \in Workers
    BY SentType
  <2>5. QED
    BY <2>1, <2>2, <2>3, <2>4 DEF TurnsInv, SuccessorTakesOver
<1>2. CASE WriterTakes \/ UNCHANGED ingestVars
  <2>1. UNCHANGED <<entry, aborted, task, sent>>
    BY <1>2 DEF WriterTakes, ingestVars, managerVars, queueVars
  <2>2. QED
    BY <2>1, QuietTurns DEF Born
<1>3. QED
  BY <1>1, <1>2, AddTurns, WorkerTurns DEF IngestNext

\* A camera that is removed and added again: behind a segment of the new worker the
\* writer gets at most one more of the old one.
THEOREM SuccessorTakesOverHolds == IngestSpec => []SuccessorTakesOver
<1>1. IngestInit => IngestInv /\ TurnsInv
  <2>1. IngestInit => TurnsInv
    BY Bounds DEF IngestInit, TurnsInv, Successors, Born, SuccessorTakesOver
  <2>2. QED
    BY <2>1, InitInv
<1>2. TurnsInv => SuccessorTakesOver
  BY DEF TurnsInv
<1>3. QED
  BY <1>1, <1>2, NextInv, NextTurns, PTL DEF IngestSpec

-----------------------------------------------------------------------------
\* Nothing is skipped.

\* What a worker has dealt with: the last fragment before those it has in hand
\* and those in the channel.
Done(w) == Complete(w) - 1 - Len(channel[w]) - Len(inHand[w])

Running == {"reading", "settling", "loading", "deleting", "sending"}

\* The newest fragment is open or in the hands of the callback; channel and hand
\* continue what is done; and what is done is sent or unread.
NoGap(w) ==
    /\ opened[w] > 0 => current[w] # <<>> \/ handing[w] # <<>>
    /\ discardNext[w] => opened[w] <= 1
    /\ \A j \in 1 .. Len(channel[w]) : channel[w][j] = Done(w) + Len(inHand[w]) + j
    /\ inHand[w] # <<>> => inHand[w][1] = Done(w) + 1
    /\ Unread(w) \subseteq 1 .. Done(w)
    /\ SentBy(w) = (1 .. Done(w)) \ Unread(w)

GapInv(w) ==
    /\ task[w] \in {"unborn", "connecting"} => Unread(w) = {}
    /\ task[w] \in Running => NoGap(w)

FullInv == IngestInv /\ \A w \in Workers : GapInv(w)

\* What a step does to the sets of what is sent and of what is unread.
LEMMA SentByGrows ==
    ASSUME sent \in Seq(Segment), NEW x \in Segment, sent' = Append(sent, x),
           NEW v \in Workers
    PROVE  SentBy(v)' = IF x.by = v THEN SentBy(v) \cup {x.n} ELSE SentBy(v)
<1>1. /\ Len(sent') = Len(sent) + 1 /\ Len(sent) \in Nat
      /\ \A i \in 1 .. Len(sent) : sent'[i] = sent[i]
      /\ sent'[Len(sent) + 1] = x
      /\ DOMAIN sent = 1 .. Len(sent) /\ DOMAIN sent' = 1 .. Len(sent) + 1
  OBVIOUS
<1>2. \A i \in 1 .. Len(sent) + 1 : i \in 1 .. Len(sent) \/ i = Len(sent) + 1
  BY <1>1
<1>3. Range(sent') = Range(sent) \cup {x}
  <2>1. ASSUME NEW y \in Range(sent') PROVE y \in Range(sent) \cup {x}
    BY <1>1, <1>2, <2>1 DEF Range
  <2>2. ASSUME NEW y \in Range(sent) PROVE y \in Range(sent')
    <3>1. PICK i \in 1 .. Len(sent) : y = sent[i]
      BY <1>1, <2>2 DEF Range
    <3>2. i \in 1 .. Len(sent) + 1 /\ y = sent'[i]
      BY <1>1, <3>1
    <3>3. QED
      BY <1>1, <3>2 DEF Range
  <2>3. x \in Range(sent')
    <3>1. Len(sent) + 1 \in 1 .. Len(sent) + 1
      BY <1>1
    <3>2. QED
      BY <1>1, <3>1 DEF Range
  <2>4. QED
    BY <2>1, <2>2, <2>3
<1>4. SentBy(v)' = {s.n : s \in {y \in Range(sent') : y.by = v}}
  BY DEF SentBy
<1>5. {y \in Range(sent') : y.by = v}
        = {y \in Range(sent) : y.by = v} \cup (IF x.by = v THEN {x} ELSE {})
  BY <1>3
<1>6. QED
  BY <1>4, <1>5 DEF SentBy

LEMMA UnreadGrows ==
    ASSUME NEW x \in Segment, unread' = unread \cup {x}, NEW v \in Workers
    PROVE  Unread(v)' = IF x.by = v THEN Unread(v) \cup {x.n} ELSE Unread(v)
<1>1. Unread(v)' = {s.n : s \in {y \in unread' : y.by = v}}
  BY DEF Unread
<1>2. {y \in unread' : y.by = v}
        = {y \in unread : y.by = v} \cup (IF x.by = v THEN {x} ELSE {})
  OBVIOUS
<1>3. QED
  BY <1>1, <1>2 DEF Unread

\* Steps after which everything of v lies where it lay.
LEMMA SameGap ==
    ASSUME NEW v \in Workers, GapInv(v),
           SentBy(v)' = SentBy(v), Unread(v)' = Unread(v),
           opened'[v] = opened[v], current'[v] = current[v],
           discardNext'[v] = discardNext[v], handing'[v] = handing[v],
           channel'[v] = channel[v], inHand'[v] = inHand[v],
           \/ task'[v] = task[v]
           \/ (task[v] = "unborn" /\ task'[v] = "connecting")
           \/ (task[v] \in Running /\ task'[v] \in Running)
    PROVE  GapInv(v)'
<1>1. Complete(v)' = Complete(v)
  BY DEF Complete
<1>2. Done(v)' = Done(v)
  BY <1>1 DEF Done
<1>3. NoGap(v) => NoGap(v)'
  BY <1>2 DEF NoGap
<1>4. QED
  BY <1>3 DEF GapInv, Running

\* A worker that lets go of its stream.
LEMMA LeavesGap ==
    ASSUME NEW w \in Workers,
           task'[w] \in {"stopping", "flushing", "dropping", "ended"}
    PROVE  GapInv(w)'
BY DEF GapInv, Running

\* Sums of the lengths of channel and hand.
LEMMA Rearranged ==
    \A o, c, h \in Nat :
        /\ o - 1 - (h + c + 1) = (o - 1) - 1 - c - h
        /\ (o - 1) - 1 - c - h = o - 2 - c - h
        /\ o - 1 - (c + 1) - h = o - 2 - c - h
        /\ o - 1 = (o - 2 - c - h) + h + (c + 1)
OBVIOUS

\* The numbers of a running worker, for the steps below.
LEMMA GapNumbers ==
    ASSUME IngestInv, NEW w \in Workers
    PROVE  /\ opened[w] \in Nat /\ Complete(w) \in Int /\ Done(w) \in Int
           /\ channel[w] \in Seq(Fragments) /\ Len(channel[w]) \in Nat
           /\ inHand[w] = <<>> => Len(inHand[w]) = 0
           /\ inHand[w] # <<>> =>
                /\ Len(inHand[w]) = 1 /\ inHand[w] = <<inHand[w][1]>>
                /\ inHand[w][1] \in Fragments
           /\ Len(inHand[w]) \in Nat
<1>1. /\ opened[w] \in Nat /\ channel[w] \in Seq(Fragments)
      /\ inHand[w] \in Optional(Fragments)
  BY Bounds DEF IngestInv, IngestTypeOK
<1>2. Complete(w) \in Int
  BY <1>1 DEF Complete
<1>3. Len(channel[w]) \in Nat
  BY <1>1
<1>4. /\ inHand[w] = <<>> => Len(inHand[w]) = 0
      /\ inHand[w] # <<>> =>
            /\ Len(inHand[w]) = 1 /\ inHand[w] = <<inHand[w][1]>>
            /\ inHand[w][1] \in Fragments
  <2>1. CASE inHand[w] = <<>>
    BY <2>1
  <2>2. CASE inHand[w] # <<>>
    <3>1. inHand[w] = <<inHand[w][1]>> /\ inHand[w][1] \in Fragments
      BY <1>1, <2>2, OptionalType
    <3>2. Len(inHand[w]) = 1
      BY <3>1
    <3>3. QED
      BY <2>2, <3>1, <3>2
  <2>3. QED
    BY <2>1, <2>2
<1>5. Done(w) \in Int
  BY <1>2, <1>3, <1>4 DEF Done
<1>6. QED
  BY <1>1, <1>2, <1>3, <1>4, <1>5

LEMMA ConnectGap ==
    ASSUME IngestInv, NEW w \in Workers, GapInv(w), Connect(w)
    PROVE  GapInv(w)'
<1>1. /\ task[w] = "connecting" /\ task'[w] = "reading"
      /\ channel'[w] = <<>> /\ inHand'[w] = <<>> /\ opened'[w] = 0
      /\ sent' = sent /\ unread' = unread /\ sent \in Seq(Segment)
      /\ \A i \in 1 .. Len(sent) : sent[i].by # w
  BY DEF Connect, GoTo, IngestInv, IngestTypeOK, WorkerInv, StageInv, queueVars
<1>2. Unread(w)' = {}
  BY <1>1 DEF GapInv, Unread
<1>3. SentBy(w)' = {}
  BY <1>1 DEF SentBy, Range
<1>4. Complete(w)' \in {-1, 0}
  BY <1>1 DEF Complete
<1>5. Done(w)' \in {-2, -1}
  <2>1. Len(channel'[w]) = 0 /\ Len(inHand'[w]) = 0
    BY <1>1
  <2>2. Done(w)' = Complete(w)' - 1 - 0 - 0
    BY <2>1 DEF Done
  <2>3. QED
    BY <1>4, <2>2
<1>6. 1 .. Done(w)' = {} /\ 1 .. Len(channel'[w]) = {}
  BY <1>1, <1>5
<1>7. NoGap(w)'
  BY <1>1, <1>2, <1>3, <1>6 DEF NoGap
<1>8. QED
  BY <1>1, <1>7 DEF GapInv

LEMMA ReadSegmentGap ==
    ASSUME IngestInv, NEW w \in Workers, GapInv(w), ReadSegment(w)
    PROVE  GapInv(w)'
<1>1. channel[w] # <<>>
  BY ReadTakes
<1>2. /\ task[w] = "reading" /\ task'[w] = "settling" /\ inHand[w] = <<>>
      /\ inHand'[w] = <<Head(channel[w])>> /\ channel'[w] = Tail(channel[w])
      /\ UNCHANGED <<sent, unread, opened, current, discardNext, handing>>
  BY ReadTakes
<1>3. /\ Len(channel[w]) \in Nat \ {0} /\ inHand'[w][1] = channel[w][1]
      /\ Len(channel'[w]) = Len(channel[w]) - 1 /\ Len(inHand'[w]) = 1
      /\ \A j \in 1 .. Len(channel[w]) - 1 : channel'[w][j] = channel[w][j + 1]
  <2>1. channel[w] \in Seq(Fragments)
    BY GapNumbers
  <2>2. /\ Len(channel[w]) \in Nat \ {0} /\ Head(channel[w]) = channel[w][1]
        /\ Len(Tail(channel[w])) = Len(channel[w]) - 1
        /\ \A j \in 1 .. Len(channel[w]) - 1 :
                Tail(channel[w])[j] = channel[w][j + 1]
    BY <1>1, <2>1, HeadTailProperties, EmptySeq
  <2>3. QED
    BY <1>2, <2>2
<1>4. Done(w)' = Done(w) /\ Done(w) \in Int /\ Len(inHand[w]) = 0
  <2>1. Complete(w)' = Complete(w)
    BY <1>2 DEF Complete
  <2>2. Complete(w) \in Int /\ Len(inHand[w]) = 0 /\ Done(w) \in Int
    BY <1>2, GapNumbers
  <2>3. QED
    BY <1>3, <2>1, <2>2 DEF Done
<1>5. SentBy(w)' = SentBy(w) /\ Unread(w)' = Unread(w)
  BY <1>2 DEF SentBy, Unread
<1>6. NoGap(w)
  BY <1>2 DEF GapInv, Running
<1>7. \A j \in 1 .. Len(channel'[w]) :
          channel'[w][j] = Done(w)' + Len(inHand'[w]) + j
  <2>1. ASSUME NEW j \in 1 .. Len(channel[w]) - 1
        PROVE  channel'[w][j] = Done(w) + 1 + j
    <3>1. j + 1 \in 1 .. Len(channel[w])
      BY <1>3
    <3>2. channel[w][j + 1] = Done(w) + 0 + (j + 1)
      BY <1>4, <1>6, <3>1 DEF NoGap
    <3>3. QED
      BY <1>3, <1>4, <3>2
  <2>2. QED
    BY <1>3, <1>4, <2>1
<1>8. inHand'[w][1] = Done(w)' + 1
  <2>1. 1 \in 1 .. Len(channel[w])
    BY <1>3
  <2>2. channel[w][1] = Done(w) + 0 + 1
    BY <1>4, <1>6, <2>1 DEF NoGap
  <2>3. QED
    BY <1>3, <1>4, <2>2
<1>9. NoGap(w)'
  BY <1>2, <1>4, <1>5, <1>6, <1>7, <1>8 DEF NoGap
<1>10. QED
  BY <1>2, <1>9 DEF GapInv

\* The fragment in hand is the one after those that are done, and done now.
LEMMA ForwardsGap ==
    ASSUME IngestInv, NEW w \in Workers, GapInv(w), LoadFails(w) \/ SendSegment(w)
    PROVE  GapInv(w)'
<1> DEFINE x == [by |-> w, n |-> Head(inHand[w])]
<1>1. /\ task[w] \in {"loading", "sending"} /\ task'[w] = "reading"
      /\ inHand'[w] = <<>> /\ sent \in Seq(Segment)
      /\ UNCHANGED <<channel, opened, current, discardNext, handing>>
      /\ \/ unread' = unread \cup {x} /\ sent' = sent
         \/ unread' = unread /\ sent' = Append(sent, x)
  BY DEF LoadFails, SendSegment, IngestInv, IngestTypeOK, GoTo, managerVars,
         fragmentVars, streamVars, queueVars
<1>2. inHand[w] # <<>> /\ inHand[w] \in Optional(Fragments) /\ WorkerInv(w)
  BY <1>1 DEF IngestInv, IngestTypeOK, WorkerInv, StageInv
<1>3. x \in Segment /\ x.by = w /\ x.n = inHand[w][1]
  BY <1>2, OptionalType DEF Segment
<1>4. NoGap(w)
  BY <1>1 DEF GapInv, Running
<1> HIDE DEF x
<1>5. Done(w) \in Int /\ Len(channel[w]) \in Nat /\ Len(inHand[w]) = 1
      /\ Complete(w) \in Int
  BY <1>2, GapNumbers
<1>6. x.n = Done(w) + 1 /\ x.n \in 1 .. Complete(w) - 1
  BY <1>2, <1>3, <1>4 DEF NoGap, WorkerInv, WayInv
<1>7. Done(w)' = Done(w) + 1 /\ Len(inHand'[w]) = 0
  <2>1. Complete(w)' = Complete(w)
    BY <1>1 DEF Complete
  <2>2. Len(inHand'[w]) = 0
    BY <1>1
  <2>3. Done(w)' = Complete(w) - 1 - Len(channel[w]) - 0
    BY <1>1, <2>1, <2>2 DEF Done
  <2>4. QED
    BY <1>5, <2>2, <2>3 DEF Done
<1>8. 1 .. Done(w)' = (1 .. Done(w)) \cup {x.n} /\ x.n \notin 1 .. Done(w)
  BY <1>5, <1>6, <1>7
<1>9. /\ Unread(w)' \subseteq 1 .. Done(w)'
      /\ SentBy(w)' = (1 .. Done(w)') \ Unread(w)'
  <2>1. CASE unread' = unread \cup {x} /\ sent' = sent
    <3>1. Unread(w)' = Unread(w) \cup {x.n} /\ SentBy(w)' = SentBy(w)
      BY <1>3, <2>1, UnreadGrows DEF SentBy
    <3>2. QED
      BY <1>4, <1>8, <3>1 DEF NoGap
  <2>2. CASE unread' = unread /\ sent' = Append(sent, x)
    <3>1. Unread(w)' = Unread(w) /\ SentBy(w)' = SentBy(w) \cup {x.n}
      BY <1>1, <1>3, <2>2, SentByGrows DEF Unread
    <3>2. QED
      BY <1>4, <1>8, <3>1 DEF NoGap
  <2>3. QED
    BY <1>1, <2>1, <2>2
<1>10. \A j \in 1 .. Len(channel'[w]) :
          channel'[w][j] = Done(w)' + Len(inHand'[w]) + j
  <2>1. ASSUME NEW j \in 1 .. Len(channel[w]) PROVE channel[w][j] = Done(w) + 1 + j
    BY <1>4, <1>5, <2>1 DEF NoGap
  <2>2. QED
    BY <1>1, <1>5, <1>7, <2>1
<1>11. NoGap(w)'
  BY <1>1, <1>4, <1>9, <1>10 DEF NoGap
<1>12. QED
  BY <1>1, <1>11 DEF GapInv

\* The bootstrap fragment is opened and then deleted: nothing is complete yet.
LEMMA OpenFragmentGap ==
    ASSUME IngestInv, NEW w \in Workers, NoGap(w), OpenFragment(w)
    PROVE  NoGap(w)'
<1>1. /\ handing[w] = <<>> /\ (current[w] = <<>> \/ discardNext[w])
      /\ opened'[w] = opened[w] + 1 /\ current'[w] = <<opened[w]>>
      /\ UNCHANGED <<handing, channel, inHand, sent, unread>>
      /\ WorkerInv(w)
  BY DEF OpenFragment, CanOpen, IngestInv, IngestTypeOK, queueVars
<1>2. /\ opened[w] \in Nat /\ Len(channel[w]) \in Nat
  BY GapNumbers
<1>3. /\ opened[w] <= 1 /\ (current[w] = <<>> => opened[w] = 0)
  <2>1. opened[w] > 0 => current[w] # <<>>
    BY <1>1 DEF NoGap
  <2>2. current[w] = <<>> => opened[w] = 0
    BY <1>2, <2>1
  <2>3. discardNext[w] => opened[w] <= 1
    BY DEF NoGap
  <2>4. QED
    BY <1>1, <2>2, <2>3
<1>4. Complete(w) = 0 /\ Complete(w)' = opened[w]
  <2>1. current[w] # <<>> => opened[w] > 0
    BY <1>1 DEF WorkerInv, CallbackInv
  <2>2. current[w] # <<>> => opened[w] - 1 = 0
    BY <1>2, <1>3, <2>1
  <2>3. Complete(w) = 0
    BY <1>1, <1>3, <2>2 DEF Complete
  <2>4. opened'[w] - 1 = opened[w] /\ current'[w] # <<>>
    BY <1>1, <1>2
  <2>5. QED
    BY <2>3, <2>4 DEF Complete
<1>5. Len(channel[w]) = 0 /\ inHand[w] = <<>>
  <2>1. 1 .. Complete(w) - 1 = {}
    BY <1>4
  <2>2. inHand[w] = <<>>
    BY <1>1, <2>1 DEF WorkerInv, WayInv
  <2>3. 1 \notin 1 .. Len(channel[w])
    BY <1>1, <2>1 DEF WorkerInv, WayInv
  <2>4. QED
    BY <1>2, <2>2, <2>3
<1>6. Len(inHand[w]) = 0
  BY <1>5
<1>7. Done(w) = -1 /\ Done(w)' \in {-1, 0}
  <2>1. Done(w) = 0 - 1 - 0 - 0 /\ Done(w)' = opened[w] - 1 - 0 - 0
    BY <1>1, <1>4, <1>5, <1>6 DEF Done
  <2>2. QED
    BY <1>2, <1>3, <2>1
<1>8. 1 .. Done(w) = {} /\ 1 .. Done(w)' = {} /\ 1 .. Len(channel'[w]) = {}
  BY <1>1, <1>5, <1>7
<1>9. SentBy(w)' = {} /\ Unread(w)' = {}
  <2>1. SentBy(w)' = SentBy(w) /\ Unread(w)' = Unread(w)
    BY <1>1 DEF SentBy, Unread
  <2>2. QED
    BY <1>8, <2>1 DEF NoGap
<1>10. discardNext'[w] => opened'[w] <= 1
  <2>1. discardNext'[w] => current[w] = <<>>
    BY DEF OpenFragment, IngestInv, IngestTypeOK
  <2>2. current[w] = <<>> => opened'[w] <= 1
    BY <1>1, <1>2, <1>3
  <2>3. QED
    BY <2>1, <2>2
<1>11. current'[w] # <<>>
  BY <1>1
<1>12. QED
  BY <1>1, <1>5, <1>8, <1>9, <1>10, <1>11 DEF NoGap

LEMMA HandOverGap ==
    ASSUME IngestInv, NEW w \in Workers, NoGap(w), BeginHandOver(w) \/ EndHandOver(w)
    PROVE  NoGap(w)'
<1>1. /\ UNCHANGED <<discardNext, inHand, sent, unread>> /\ WorkerInv(w)
      /\ opened[w] \in Nat /\ Len(channel[w]) \in Nat /\ Len(inHand[w]) \in Nat
  BY GapNumbers DEF BeginHandOver, EndHandOver, IngestInv, queueVars
<1>2. SentBy(w)' = SentBy(w) /\ Unread(w)' = Unread(w)
  BY <1>1 DEF SentBy, Unread
<1>3. CASE BeginHandOver(w)
  <2>1. /\ handing'[w] = current[w] /\ current'[w] = <<>> /\ current[w] # <<>>
        /\ UNCHANGED <<opened, channel>>
    BY <1>3 DEF BeginHandOver, IngestInv, IngestTypeOK
  <2>2. Complete(w)' = Complete(w)
    BY <2>1 DEF Complete
  <2>3. Done(w)' = Done(w)
    BY <1>1, <2>1, <2>2 DEF Done
  <2>4. QED
    BY <1>1, <1>2, <2>1, <2>3 DEF NoGap
<1>4. CASE EndHandOver(w)
  <2>1. /\ opened'[w] = opened[w] + 1 /\ current'[w] = <<opened[w]>>
        /\ handing'[w] = <<>> /\ handing[w] # <<>> /\ current[w] = <<>>
        /\ ~discardNext[w]
    BY <1>1, <1>4 DEF EndHandOver, IngestInv, IngestTypeOK, WorkerInv, CallbackInv
  <2>2. Complete(w) = opened[w] - 1 /\ Complete(w)' = opened[w]
    BY <1>1, <2>1 DEF Complete
  <2>3. /\ Len(channel'[w]) = Len(channel[w]) + 1
        /\ \A j \in 1 .. Len(channel[w]) + 1 :
              channel'[w][j] = IF j = Len(channel[w]) + 1
                               THEN opened[w] - 1 ELSE channel[w][j]
    BY <1>4, EndHandOverGrows, ChannelGrows DEF IngestInv
  <2>4. Done(w) = opened[w] - 2 - Len(channel[w]) - Len(inHand[w]) /\ Done(w)' = Done(w)
    <3>1. Done(w)' = opened[w] - 1 - (Len(channel[w]) + 1) - Len(inHand[w])
      BY <1>1, <2>2, <2>3 DEF Done
    <3>2. Done(w) = (opened[w] - 1) - 1 - Len(channel[w]) - Len(inHand[w])
      BY <2>2 DEF Done
    <3>3. opened[w] \in Nat /\ Len(channel[w]) \in Nat /\ Len(inHand[w]) \in Nat
      BY <1>1
    <3>4. (opened[w] - 1) - 1 - Len(channel[w]) - Len(inHand[w])
            = opened[w] - 2 - Len(channel[w]) - Len(inHand[w])
      BY <3>3, Rearranged, Zenon
    <3>5. opened[w] - 1 - (Len(channel[w]) + 1) - Len(inHand[w])
            = opened[w] - 2 - Len(channel[w]) - Len(inHand[w])
      BY <3>3, Rearranged, Zenon
    <3>6. QED
      BY <3>1, <3>2, <3>4, <3>5, Zenon
  <2>5. ASSUME NEW j \in 1 .. Len(channel[w]) + 1
        PROVE  channel'[w][j] = Done(w) + Len(inHand[w]) + j
    <3>1. CASE j = Len(channel[w]) + 1
      <4>1. channel'[w][j] = opened[w] - 1
        BY <2>3, <3>1
      <4>2. opened[w] \in Nat /\ Len(channel[w]) \in Nat /\ Len(inHand[w]) \in Nat
        BY <1>1
      <4>3. Done(w) = opened[w] - 2 - Len(channel[w]) - Len(inHand[w])
        BY <2>4
      <4>4. opened[w] - 1 = (opened[w] - 2 - Len(channel[w]) - Len(inHand[w]))
                            + Len(inHand[w]) + (Len(channel[w]) + 1)
        BY <4>2, Rearranged, Zenon
      <4>5. QED
        BY <3>1, <4>1, <4>3, <4>4, Zenon
    <3>2. CASE j # Len(channel[w]) + 1
      <4>1. j \in 1 .. Len(channel[w])
        BY <1>1, <3>2
      <4>2. QED
        BY <2>3, <3>2, <4>1 DEF NoGap
    <3>3. QED
      BY <3>1, <3>2
  <2>6. current'[w] # <<>>
    BY <2>1
  <2>7. QED
    BY <1>1, <1>2, <2>1, <2>3, <2>4, <2>5, <2>6 DEF NoGap
<1>5. QED
  BY <1>3, <1>4

LEMMA OtherGap ==
    ASSUME IngestInv, NEW w \in Workers, NEW v \in Workers, v # w, GapInv(v),
           \/ WorkerStep(w) \/ Failure(w)
           \/ OpenFragment(w) \/ BeginHandOver(w) \/ EndHandOver(w)
    PROVE  GapInv(v)'
<1>1. /\ task'[v] = task[v] /\ opened'[v] = opened[v] /\ current'[v] = current[v]
      /\ discardNext'[v] = discardNext[v] /\ handing'[v] = handing[v]
      /\ channel'[v] = channel[v] /\ inHand'[v] = inHand[v]
  <2>0. /\ task \in [Workers -> Stages] /\ opened \in [Workers -> 0 .. MaxFragments]
        /\ current \in [Workers -> Optional(Fragments)]
        /\ discardNext \in [Workers -> BOOLEAN]
        /\ handing \in [Workers -> Optional(Fragments)]
        /\ channel \in [Workers -> Seq(Fragments)]
        /\ inHand \in [Workers -> Optional(Fragments)]
    BY DEF IngestInv, IngestTypeOK
  <2> HIDE DEF Workers, Fragments
  <2> USE <2>0 DEF GoTo, fragmentVars, streamVars
  <2>1. CASE Cancel(w) \/ GiveUp(w) \/ Settled(w) \/ Load(w) \/ Delete(w)
             \/ StopPipeline(w) \/ ConnectFails(w) \/ CameraFails(w)
    BY <2>1 DEF Cancel, GiveUp, Settled, Load, Delete, StopPipeline, ConnectFails,
                CameraFails
  <2>2. CASE Connect(w)
    BY <2>2 DEF Connect
  <2>3. CASE ReadSegment(w)
    BY <2>3 DEF ReadSegment
  <2>4. CASE Flush(w) \/ DropStream(w)
    BY <2>4 DEF Flush, DropStream
  <2>5. CASE OpenFragment(w)
    BY <2>5 DEF OpenFragment
  <2>6. CASE BeginHandOver(w) \/ EndHandOver(w)
    BY <2>6 DEF BeginHandOver, EndHandOver
  <2>7. CASE SendSegment(w) \/ LoadFails(w)
    BY <2>7 DEF SendSegment, LoadFails
  <2>8. QED
    BY <2>1, <2>2, <2>3, <2>4, <2>5, <2>6, <2>7 DEF WorkerStep, Failure
<1>2. SentBy(v)' = SentBy(v) /\ Unread(v)' = Unread(v)
  <2> DEFINE x == [by |-> w, n |-> Head(inHand[w])]
  <2>1. CASE SendSegment(w) \/ LoadFails(w)
    <3>1. inHand[w] # <<>> /\ inHand[w] \in Optional(Fragments) /\ sent \in Seq(Segment)
      BY <2>1 DEF SendSegment, LoadFails, IngestInv, WorkerInv, StageInv, IngestTypeOK
    <3>2. x \in Segment /\ x.by # v
      BY <3>1, OptionalType DEF Segment
    <3>3. \/ unread' = unread \cup {x} /\ sent' = sent
          \/ unread' = unread /\ sent' = Append(sent, x)
      BY <2>1 DEF SendSegment, LoadFails, queueVars
    <3> HIDE DEF x
    <3>4. CASE unread' = unread \cup {x} /\ sent' = sent
      BY <3>2, <3>4, UnreadGrows DEF SentBy
    <3>5. CASE unread' = unread /\ sent' = Append(sent, x)
      BY <3>1, <3>2, <3>5, SentByGrows DEF Unread
    <3>6. QED
      BY <3>3, <3>4, <3>5
  <2>2. CASE ~(SendSegment(w) \/ LoadFails(w))
    <3>1. sent' = sent /\ unread' = unread
      BY <2>2 DEF WorkerStep, Failure, queueVars, Cancel, Connect, GiveUp, ReadSegment,
             Settled, Load, Delete, StopPipeline, Flush, DropStream, ConnectFails,
             CameraFails, OpenFragment, BeginHandOver, EndHandOver
    <3>2. QED
      BY <3>1 DEF SentBy, Unread
  <2>3. QED
    BY <2>1, <2>2
<1>3. QED
  BY <1>1, <1>2, SameGap

\* The steps of w that leave its fragments where they are, and its way out.
LEMMA QuietGap ==
    ASSUME IngestInv, NEW w \in Workers, GapInv(w),
           \/ Cancel(w) \/ GiveUp(w) \/ Settled(w) \/ Load(w) \/ Delete(w)
           \/ StopPipeline(w) \/ Flush(w) \/ DropStream(w)
           \/ ConnectFails(w) \/ CameraFails(w)
    PROVE  GapInv(w)'
<1>1. CASE Cancel(w) \/ GiveUp(w) \/ StopPipeline(w) \/ Flush(w) \/ DropStream(w)
  <2>1. task'[w] \in {"stopping", "flushing", "dropping", "ended"}
    <3>1. task[w] = "dropping" => w \in aborted
      BY DEF IngestInv, WorkerInv, StageInv
    <3>2. QED
      BY <1>1, <3>1 DEF IngestInv, IngestTypeOK, GoTo, Cancel, GiveUp, StopPipeline,
             Flush, DropStream
  <2>2. QED
    BY <2>1, LeavesGap
<1>2. CASE Settled(w) \/ Load(w) \/ Delete(w) \/ ConnectFails(w) \/ CameraFails(w)
  <2>1. /\ UNCHANGED <<opened, current, discardNext, handing, channel, inHand>>
        /\ sent' = sent /\ unread' = unread
        /\ task'[w] = task[w] \/ (task[w] \in Running /\ task'[w] \in Running)
    BY <1>2 DEF IngestInv, IngestTypeOK, GoTo, managerVars, fragmentVars, streamVars,
           queueVars, Running, Settled, Load, Delete, ConnectFails, CameraFails
  <2>2. SentBy(w)' = SentBy(w) /\ Unread(w)' = Unread(w)
    BY <2>1 DEF SentBy, Unread
  <2>3. QED
    BY <2>1, <2>2, SameGap
<1>3. QED
  BY <1>1, <1>2

\* The callback runs beside a worker that runs, or lets go of its stream.
LEMMA CallbackGap ==
    ASSUME IngestInv, NEW w \in Workers, GapInv(w),
           OpenFragment(w) \/ BeginHandOver(w) \/ EndHandOver(w)
    PROVE  GapInv(w)'
<1>1. task' = task
  BY DEF OpenFragment, BeginHandOver, EndHandOver
<1>2. task[w] \notin {"unborn", "connecting"}
  BY DEF OpenFragment, BeginHandOver, EndHandOver, CanOpen, IngestInv, WorkerInv, StageInv
<1>3. task[w] \in Running => NoGap(w)'
  BY OpenFragmentGap, HandOverGap DEF GapInv
<1>4. QED
  BY <1>1, <1>2, <1>3 DEF GapInv

LEMMA ManagerGap ==
    ASSUME IngestInv, NEW v \in Workers, GapInv(v),
           AddCamera \/ RemoveCamera \/ WriterTakes \/ UNCHANGED ingestVars
    PROVE  GapInv(v)'
<1>1. /\ UNCHANGED <<opened, current, discardNext, handing, channel, inHand>>
      /\ sent' = sent /\ unread' = unread
  BY DEF AddCamera, RemoveCamera, WriterTakes, ingestVars, managerVars, fragmentVars,
         streamVars, queueVars
<1>2. task'[v] = task[v] \/ (task[v] = "unborn" /\ task'[v] = "connecting")
  BY DEF AddCamera, RemoveCamera, WriterTakes, ingestVars, GoTo, IngestInv, IngestTypeOK
<1>3. SentBy(v)' = SentBy(v) /\ Unread(v)' = Unread(v)
  BY <1>1 DEF SentBy, Unread
<1>4. QED
  BY <1>1, <1>2, <1>3, SameGap

LEMMA InitFull == IngestInit => FullInv
<1> SUFFICES ASSUME IngestInit PROVE FullInv
  OBVIOUS
<1>1. \A w \in Workers : GapInv(w)
  BY DEF IngestInit, GapInv, Unread, Running
<1>2. QED
  BY <1>1, InitInv DEF FullInv

LEMMA NextFull == FullInv /\ [IngestNext]_ingestVars => FullInv'
<1> SUFFICES ASSUME FullInv, [IngestNext]_ingestVars PROVE FullInv'
  OBVIOUS
<1>1. IngestInv /\ \A v \in Workers : GapInv(v)
  BY DEF FullInv
<1>2. ASSUME NEW v \in Workers PROVE GapInv(v)'
  <2>1. CASE AddCamera \/ RemoveCamera \/ WriterTakes \/ UNCHANGED ingestVars
    BY <1>1, <2>1, ManagerGap
  <2>2. ASSUME NEW w \in Workers,
               \/ WorkerStep(w) \/ Failure(w)
               \/ OpenFragment(w) \/ BeginHandOver(w) \/ EndHandOver(w)
        PROVE  GapInv(v)'
    <3>1. CASE v # w
      BY <1>1, <2>2, <3>1, OtherGap
    <3>2. GapInv(w)'
      BY <1>1, <2>2, QuietGap, ConnectGap, ReadSegmentGap, ForwardsGap, CallbackGap
         DEF WorkerStep, Failure
    <3>3. QED
      BY <3>1, <3>2
  <2>3. QED
    BY <2>1, <2>2 DEF IngestNext
<1>3. QED
  BY <1>1, <1>2, NextInv DEF FullInv

LEMMA FullHolds == IngestSpec => []FullInv
BY InitFull, NextFull, PTL DEF IngestSpec

\* Hand, channel and the newest fragment, one after the other.
LEMMA InOneRow ==
    ASSUME NEW a \in Optional(Fragments), NEW c \in Seq(Fragments),
           NEW n \in Fragments, NEW k \in Int, k = n - 1 - Len(c) - Len(a),
           a # <<>> => a[1] = k + 1,
           \A j \in 1 .. Len(c) : c[j] = k + Len(a) + j
    PROVE  /\ Len((a \o c) \o <<n>>) = Len(a) + Len(c) + 1
           /\ (a \o c) \o <<n>> = [i \in 1 .. Len((a \o c) \o <<n>>) |-> k + i]
<1>1. /\ a \in Seq(Fragments) /\ Len(a) \in {0, 1} /\ (a # <<>> <=> Len(a) = 1)
  <2>1. CASE a = <<>>
    BY <2>1
  <2>2. CASE a # <<>>
    <3>1. a = <<a[1]>> /\ a[1] \in Fragments
      BY <2>2, OptionalType
    <3>2. Len(<<a[1]>>) = 1 /\ <<a[1]>> \in Seq(Fragments)
      BY <3>1
    <3>3. QED
      BY <2>2, <3>1, <3>2
  <2>3. QED
    BY <2>1, <2>2
<1>2. Len(c) \in Nat /\ n \in Nat
  BY Bounds
<1>3. /\ a \o c \in Seq(Fragments) /\ Len(a \o c) = Len(a) + Len(c)
      /\ \A i \in 1 .. Len(a) + Len(c) :
            (a \o c)[i] = IF i <= Len(a) THEN a[i] ELSE c[i - Len(a)]
  BY <1>1, ConcatProperties
<1> DEFINE s == a \o c
           r == s \o <<n>>
<1>4. r = Append(s, n)
  BY <1>3, ConcatOne
<1>5. \A i \in 1 .. Len(s) : s[i] = k + i
  <2>1. ASSUME NEW i \in 1 .. Len(a) + Len(c) PROVE s[i] = k + i
    <3>1. CASE i <= Len(a)
      <4>1. i = 1 /\ a # <<>>
        <5>1. Len(a) \in {0, 1} /\ Len(c) \in Nat /\ (a # <<>> <=> Len(a) = 1)
          BY <1>1, <1>2
        <5>2. i \in Nat \ {0}
          BY <5>1
        <5>3. Len(a) = 1
          BY <3>1, <5>1, <5>2
        <5>4. i = 1
          BY <3>1, <5>2, <5>3
        <5>5. QED
          BY <5>1, <5>3, <5>4
      <4>2. s[i] = a[1] /\ a[1] = k + 1
        BY <1>3, <3>1, <4>1
      <4>3. QED
        BY <4>1, <4>2
    <3>2. CASE ~(i <= Len(a))
      <4>1. i - Len(a) \in 1 .. Len(c)
        BY <1>1, <1>2, <3>2
      <4>2. c[i - Len(a)] = k + Len(a) + (i - Len(a))
        BY <4>1
      <4>3. s[i] = c[i - Len(a)]
        BY <1>3, <3>2
      <4>4. QED
        BY <1>1, <4>2, <4>3
    <3>3. QED
      BY <3>1, <3>2
  <2>2. QED
    BY <1>3, <2>1
<1> HIDE DEF s
<1>6. /\ Len(r) = Len(s) + 1 /\ Len(s) \in Nat /\ r \in Seq(Fragments)
      /\ \A i \in 1 .. Len(s) : r[i] = s[i]
      /\ r[Len(s) + 1] = n
  BY <1>3, <1>4 DEF s
<1>7. Len(s) = Len(a) + Len(c)
  BY <1>3 DEF s
<1> HIDE DEF r
<1>8. \A i \in 1 .. Len(r) : r[i] = k + i
  <2>1. ASSUME NEW i \in 1 .. Len(s) + 1 PROVE r[i] = k + i
    <3>1. CASE i = Len(s) + 1
      <4>1. n = k + (Len(s) + 1)
        BY <1>1, <1>2, <1>7
      <4>2. QED
        BY <1>6, <3>1, <4>1
    <3>2. CASE i # Len(s) + 1
      <4>1. i \in 1 .. Len(s)
        BY <1>6, <3>2
      <4>2. QED
        BY <1>5, <1>6, <4>1
    <3>3. QED
      BY <3>1, <3>2
  <2>2. QED
    BY <1>6, <2>1
<1>9. r = [i \in 1 .. Len(r) |-> r[i]]
  BY <1>6
<1>10. r = [i \in 1 .. Len(r) |-> k + i]
  BY <1>8, <1>9
<1>11. Len(r) = Len(a) + Len(c) + 1
  BY <1>6, <1>7
<1>12. QED
  BY <1>10, <1>11 DEF r, s

\* As long as a worker runs, what its stream has opened is sent, unreadable, or
\* on its way, without a gap and in the order of recording.
THEOREM NothingSkippedHolds == IngestSpec => []NothingSkipped
<1>1. FullInv => NothingSkipped
  <2> SUFFICES ASSUME FullInv, NEW w \in Workers, HasStream(w), task[w] \in Awaiting
               PROVE  LET way == inHand[w] \o channel[w] \o handing[w]
                                 \o (IF discardNext[w] THEN <<>> ELSE current[w])
                          done == opened[w] - 1 - Len(way)
                      IN  /\ way = [i \in 1 .. Len(way) |-> done + i]
                          /\ Unread(w) \subseteq 1 .. done
                          /\ SentBy(w) = (1 .. done) \ Unread(w)
    BY DEF NothingSkipped
  <2> DEFINE row == inHand[w] \o channel[w]
             open == IF discardNext[w] THEN <<>> ELSE current[w]
             way == (row \o handing[w]) \o open
             done == opened[w] - 1 - Len(way)
  <2>1. IngestInv /\ NoGap(w) /\ WorkerInv(w)
    <3>1. task[w] \in Running
      BY DEF HasStream, Awaiting, Running
    <3>2. QED
      BY <3>1 DEF FullInv, IngestInv, GapInv
  <2>2. /\ opened[w] \in Nat /\ channel[w] \in Seq(Fragments) /\ Len(channel[w]) \in Nat
        /\ Len(inHand[w]) \in Nat /\ Done(w) \in Int
        /\ inHand[w] \in Optional(Fragments)
    BY <2>1, GapNumbers DEF IngestInv, IngestTypeOK
  <2>3. CASE discardNext[w]
    <3>1. opened[w] <= 1 /\ handing[w] = <<>> /\ Complete(w) <= 0 /\ Complete(w) \in Int
      <4>1. opened[w] <= 1 /\ handing[w] = <<>>
        BY <2>1, <2>3 DEF NoGap, WorkerInv, CallbackInv
      <4>2. current[w] = <<>> => opened[w] = 0
        <5>1. opened[w] > 0 => current[w] # <<>>
          BY <2>1, <4>1 DEF NoGap
        <5>2. QED
          BY <2>2, <5>1
      <4>3. QED
        BY <2>2, <4>1, <4>2 DEF Complete
    <3>2. 1 .. Complete(w) - 1 = {}
      BY <3>1
    <3>3. inHand[w] = <<>> /\ channel[w] = <<>>
      <4>1. inHand[w] = <<>> /\ 1 \notin 1 .. Len(channel[w])
        BY <2>1, <3>2 DEF WorkerInv, WayInv
      <4>2. Len(channel[w]) = 0
        BY <2>2, <4>1
      <4>3. QED
        BY <2>2, <4>1, <4>2, EmptySeq
    <3>4. way = <<>>
      <4>1. <<>> \o <<>> = <<>>
        OBVIOUS
      <4>2. open = <<>>
        BY <2>3
      <4>3. QED
        BY <3>1, <3>3, <4>1, <4>2
    <3>5. Len(way) = 0 /\ way = [i \in 1 .. Len(way) |-> done + i]
      <4>1. Len(way) = 0
        BY <3>4
      <4>2. [i \in 1 .. 0 |-> done + i] = <<>>
        OBVIOUS
      <4>3. QED
        BY <3>4, <4>1, <4>2
    <3>6. 1 .. done = {} /\ 1 .. Done(w) = {}
      <4>1. done \in Int /\ done <= 0
        <5>1. Len(way) = 0
          BY <3>5
        <5> HIDE DEF way
        <5>2. QED
          BY <2>2, <3>1, <5>1
      <4>2. Done(w) <= -1
        <5>1. Len(channel[w]) = 0 /\ Len(inHand[w]) = 0
          BY <3>3
        <5>2. QED
          BY <3>1, <5>1 DEF Done
      <4> HIDE DEF done
      <4>3. QED
        BY <2>2, <4>1, <4>2
    <3>7. QED
      BY <2>1, <3>5, <3>6 DEF NoGap
  <2>4. CASE ~discardNext[w]
    <3>1. opened[w] >= 2 /\ Complete(w) = opened[w] - 1
      <4>1. opened[w] >= 2
        BY <2>1, <2>4 DEF WorkerInv, CallbackInv
      <4>2. current[w] # <<>> \/ handing[w] # <<>>
        BY <2>1, <2>2, <4>1 DEF NoGap
      <4>3. QED
        BY <4>1, <4>2 DEF Complete
    <3>2. \/ current[w] = <<opened[w] - 1>> /\ handing[w] = <<>>
          \/ handing[w] = <<opened[w] - 1>> /\ current[w] = <<>>
      <4>1. current[w] # <<>> \/ handing[w] # <<>>
        BY <2>1, <2>2, <3>1 DEF NoGap
      <4>2. QED
        BY <2>1, <4>1 DEF WorkerInv, CallbackInv
    <3>3. opened[w] - 1 \in Fragments
      <4>1. opened[w] \in 0 .. MaxFragments
        BY <2>1 DEF IngestInv, IngestTypeOK
      <4>2. QED
        BY <3>1, <4>1, Bounds
    <3>4. row \in Seq(Fragments)
      <4>1. inHand[w] \in Seq(Fragments)
        <5>1. CASE inHand[w] = <<>>
          BY <5>1
        <5>2. CASE inHand[w] # <<>>
          <6>1. inHand[w] = <<inHand[w][1]>> /\ inHand[w][1] \in Fragments
            BY <2>2, <5>2, OptionalType
          <6>2. <<inHand[w][1]>> \in Seq(Fragments)
            BY <6>1
          <6>3. QED
            BY <6>1, <6>2
        <5>3. QED
          BY <5>1, <5>2
      <4>2. QED
        BY <2>2, <4>1, ConcatProperties
    <3>5. way = row \o <<opened[w] - 1>>
      <4> HIDE DEF row
      <4>1. open = current[w]
        BY <2>4
      <4>2. row \o <<opened[w] - 1>> \in Seq(Fragments)
        BY <3>3, <3>4
      <4>3. CASE current[w] = <<opened[w] - 1>> /\ handing[w] = <<>>
        <5>1. row \o <<>> = row
          BY <3>4, ConcatEmptySeq
        <5>2. QED
          BY <4>1, <4>3, <5>1
      <4>4. CASE handing[w] = <<opened[w] - 1>> /\ current[w] = <<>>
        <5>1. (row \o <<opened[w] - 1>>) \o <<>> = row \o <<opened[w] - 1>>
          BY <4>2, ConcatEmptySeq
        <5>2. QED
          BY <4>1, <4>4, <5>1
      <4>5. QED
        BY <3>2, <4>3, <4>4
    <3>6. Done(w) = (opened[w] - 1) - 1 - Len(channel[w]) - Len(inHand[w])
      BY <3>1 DEF Done
    <3>7. /\ Len(way) = Len(inHand[w]) + Len(channel[w]) + 1
          /\ way = [i \in 1 .. Len(way) |-> Done(w) + i]
      <4>1. inHand[w] # <<>> => inHand[w][1] = Done(w) + 1
        BY <2>1 DEF NoGap
      <4>2. \A j \in 1 .. Len(channel[w]) : channel[w][j] = Done(w) + Len(inHand[w]) + j
        BY <2>1 DEF NoGap
      <4> HIDE DEF way
      <4>3. QED
        BY <2>2, <3>3, <3>5, <3>6, <4>1, <4>2, InOneRow
    <3>8. done = Done(w)
      <4>1. Len(way) = Len(inHand[w]) + Len(channel[w]) + 1
        BY <3>7
      <4>2. /\ opened[w] \in Nat /\ Len(channel[w]) \in Nat /\ Len(inHand[w]) \in Nat
        BY <2>2
      <4>3. done = opened[w] - 1 - Len(way)
        OBVIOUS
      <4> HIDE DEF way, done
      <4>4. done = opened[w] - 1 - (Len(inHand[w]) + Len(channel[w]) + 1)
        BY <4>1, <4>3
      <4>5. opened[w] - 1 - (Len(inHand[w]) + Len(channel[w]) + 1)
              = (opened[w] - 1) - 1 - Len(channel[w]) - Len(inHand[w])
        BY <4>2, Rearranged, Zenon
      <4>6. QED
        BY <3>6, <4>4, <4>5
    <3>9. QED
      BY <2>1, <3>7, <3>8 DEF NoGap
  <2>5. QED
    BY <2>3, <2>4
<1>2. QED
  BY <1>1, FullHolds, PTL

==============================================================================
