------------------------- MODULE AdministrationProofs -------------------------
(***************************************************************************)
(* Cameras at run time, for every config file and any number of clients,   *)
(* with failed saves, kills and restarts: types, memory and file in step,  *)
(* what a restart records, which tasks can be removed, and what            *)
(* GET /api/cameras lists.                                                 *)
(***************************************************************************)
EXTENDS Administration, FiniteSetTheorems, SequenceTheorems, TLAPS

-----------------------------------------------------------------------------
\* Vec::retain.

\* Induction up to a bound, for a set of numbers.
LEMMA StepByStep ==
    ASSUME NEW N \in Nat, NEW S, 0 \in S, \A m \in 0 .. N : m \in S /\ m < N => m + 1 \in S
    PROVE  N \in S
<1> DEFINE Bad == {m \in 0 .. N : m \notin S}
<1>1. SUFFICES ASSUME Bad # {} PROVE FALSE
  BY DEF Bad
<1>2. PICK x \in Bad : \A y \in Bad : ~ (<<y, x>> \in OpToRel(<, Nat))
  <2>1. Bad \subseteq Nat
    OBVIOUS
  <2> HIDE DEF Bad
  <2>2. QED
    BY <1>1, <2>1, WFMin, NatLessThanWellFounded
<1>3. x \in 0 .. N /\ x \notin S /\ x # 0
  OBVIOUS
<1>4. x - 1 \in 0 .. N /\ x - 1 < N /\ (x - 1) + 1 = x /\ x - 1 < x
  BY <1>3
<1>5. x - 1 \in Bad
  BY <1>3, <1>4
<1>6. <<x - 1, x>> \in OpToRel(<, Nat)
  BY <1>3, <1>4 DEF OpToRel
<1>7. QED
  BY <1>2, <1>5, <1>6

\* The recursion of Retain has a solution, so Retain is what it says.
LEMMA RetainSteps ==
    ASSUME NEW S, NEW s \in Seq(S), NEW c
    PROVE  \E keep :
              /\ keep = [i \in 0 .. Len(s) |->
                            IF i = 0 THEN <<>>
                            ELSE IF s[i] = c THEN keep[i - 1]
                            ELSE Append(keep[i - 1], s[i])]
              /\ Retain(s, c) = keep[Len(s)]
<1> DEFINE Step(f, i) == IF i = 0 THEN <<>>
                         ELSE IF s[i] = c THEN f[i - 1] ELSE Append(f[i - 1], s[i])
           Goods == {m \in Nat : \E f : f = [i \in 0 .. m |-> Step(f, i)]}
<1>1. Len(s) \in Nat
  OBVIOUS
<1>2. 0 \in Goods
  <2> DEFINE f == [i \in 0 .. 0 |-> <<>>]
  <2>1. f = [i \in 0 .. 0 |-> Step(f, i)]
    OBVIOUS
  <2> HIDE DEF f, Step
  <2>2. QED
    BY <2>1
<1>3. ASSUME NEW m \in Nat, m \in Goods PROVE m + 1 \in Goods
  <2>1. PICK f : f = [i \in 0 .. m |-> Step(f, i)]
    BY <1>3
  <2> DEFINE g == [i \in 0 .. m + 1 |-> IF i <= m THEN f[i] ELSE Step(f, m + 1)]
  <2>2. ASSUME NEW i \in 0 .. m + 1 PROVE g[i] = Step(g, i)
    <3>1. i # 0 => /\ i - 1 \in 0 .. m + 1 /\ i - 1 \in 0 .. m /\ i - 1 <= m
                   /\ g[i - 1] = f[i - 1]
      OBVIOUS
    <3>2. Step(g, i) = Step(f, i)
      BY <3>1
    <3>3. CASE i <= m
      <4>1. g[i] = f[i] /\ i \in 0 .. m
        BY <3>3
      <4> HIDE DEF Step, g
      <4>2. f[i] = Step(f, i)
        BY <2>1, <4>1
      <4>3. QED
        BY <3>2, <4>1, <4>2
    <3>4. CASE ~(i <= m)
      <4>1. i = m + 1 /\ g[i] = Step(f, m + 1)
        BY <3>4
      <4> HIDE DEF Step, g
      <4>2. QED
        BY <3>2, <4>1
    <3>5. QED
      BY <3>3, <3>4
  <2>3. g = [i \in 0 .. m + 1 |-> g[i]]
    OBVIOUS
  <2> HIDE DEF g, Step
  <2>4. g = [i \in 0 .. m + 1 |-> Step(g, i)]
    BY <2>2, <2>3
  <2>5. QED
    BY <2>4
<1>4. Len(s) \in Goods
  <2> HIDE DEF Goods
  <2>1. QED
    BY <1>1, <1>2, <1>3, StepByStep
<1>5. \E f : f = [i \in 0 .. Len(s) |-> Step(f, i)]
  BY <1>4
<1> DEFINE keep[i \in 0 .. Len(s)] ==
               IF i = 0 THEN <<>>
               ELSE IF s[i] = c THEN keep[i - 1] ELSE Append(keep[i - 1], s[i])
<1>6. keep = [i \in 0 .. Len(s) |-> Step(keep, i)]
  BY <1>5
<1>7. Retain(s, c) = keep[Len(s)]
  BY DEF Retain
<1> HIDE DEF keep
<1>8. QED
  BY <1>6, <1>7

LEMMA RangeOfAppend ==
    ASSUME NEW S, NEW s \in Seq(S), NEW x \in S
    PROVE  Range(Append(s, x)) = Range(s) \cup {x}
<1>1. /\ Len(s) \in Nat /\ DOMAIN s = 1 .. Len(s)
      /\ DOMAIN Append(s, x) = 1 .. Len(s) + 1
      /\ \A i \in 1 .. Len(s) : Append(s, x)[i] = s[i]
      /\ Append(s, x)[Len(s) + 1] = x
  BY AppendProperties
<1>2. \A i \in 1 .. Len(s) + 1 : i \in 1 .. Len(s) \/ i = Len(s) + 1
  BY <1>1
<1>3. ASSUME NEW y \in Range(Append(s, x)) PROVE y \in Range(s) \cup {x}
  BY <1>1, <1>2, <1>3 DEF Range
<1>4. ASSUME NEW y \in Range(s) PROVE y \in Range(Append(s, x))
  <2>1. PICK i \in 1 .. Len(s) : y = s[i]
    BY <1>1, <1>4 DEF Range
  <2>2. i \in 1 .. Len(s) + 1 /\ y = Append(s, x)[i]
    BY <1>1, <2>1
  <2>3. QED
    BY <1>1, <2>2 DEF Range
<1>5. x \in Range(Append(s, x))
  <2>1. Len(s) + 1 \in 1 .. Len(s) + 1
    BY <1>1
  <2>2. QED
    BY <1>1, <2>1 DEF Range
<1>6. QED
  BY <1>3, <1>4, <1>5

\* What retain leaves: everything but the camera, in a sequence.
LEMMA RetainKeeps ==
    ASSUME NEW S, NEW s \in Seq(S), NEW c
    PROVE  Retain(s, c) \in Seq(S) /\ Range(Retain(s, c)) = Range(s) \ {c}
<1>1. PICK keep :
          /\ keep = [i \in 0 .. Len(s) |->
                        IF i = 0 THEN <<>>
                        ELSE IF s[i] = c THEN keep[i - 1]
                        ELSE Append(keep[i - 1], s[i])]
          /\ Retain(s, c) = keep[Len(s)]
  BY RetainSteps
<1>2. Len(s) \in Nat /\ DOMAIN s = 1 .. Len(s)
  OBVIOUS
<1> DEFINE Seen(m) == {s[j] : j \in 1 .. m}
           Goods == {m \in Nat : keep[m] \in Seq(S) /\ Range(keep[m]) = Seen(m) \ {c}}
<1>3. 0 \in Goods
  <2>1. keep[0] = <<>>
    <3>1. 0 \in 0 .. Len(s)
      BY <1>2
    <3>2. QED
      BY <1>1, <3>1
  <2>2. Range(<<>>) = {} /\ Seen(0) = {}
    BY DEF Range
  <2>3. <<>> \in Seq(S)
    OBVIOUS
  <2> HIDE DEF Seen
  <2>4. keep[0] \in Seq(S) /\ Range(keep[0]) = Seen(0) \ {c}
    BY <2>1, <2>2, <2>3
  <2>5. QED
    BY <2>4
<1>4. ASSUME NEW m \in 0 .. Len(s), m \in Goods, m < Len(s) PROVE m + 1 \in Goods
  <2>1. /\ m + 1 \in 0 .. Len(s) /\ m + 1 # 0 /\ (m + 1) - 1 = m
        /\ m + 1 \in 1 .. Len(s) /\ m \in Nat
    BY <1>2, <1>4
  <2>2. keep[m + 1] = IF s[m + 1] = c THEN keep[m] ELSE Append(keep[m], s[m + 1])
    BY <1>1, <2>1
  <2>3. s[m + 1] \in S
    BY <2>1
  <2>4. Seen(m + 1) = Seen(m) \cup {s[m + 1]}
    <3>1. 1 .. m + 1 = (1 .. m) \cup {m + 1}
      BY <2>1
    <3>2. QED
      BY <3>1
  <2> HIDE DEF Seen
  <2>5. keep[m] \in Seq(S) /\ Range(keep[m]) = Seen(m) \ {c}
    BY <1>4
  <2>6. CASE s[m + 1] = c
    BY <2>1, <2>2, <2>4, <2>5, <2>6
  <2>7. CASE s[m + 1] # c
    <3>1. Range(Append(keep[m], s[m + 1])) = Range(keep[m]) \cup {s[m + 1]}
      BY <2>3, <2>5, RangeOfAppend
    <3>2. Append(keep[m], s[m + 1]) \in Seq(S)
      BY <2>3, <2>5, AppendProperties
    <3>3. keep[m + 1] \in Seq(S) /\ Range(keep[m + 1]) = Seen(m + 1) \ {c}
      BY <2>2, <2>4, <2>5, <2>7, <3>1, <3>2
    <3>4. QED
      BY <2>1, <3>3
  <2>8. QED
    BY <2>6, <2>7
<1>5. Len(s) \in Goods
  <2> HIDE DEF Goods
  <2>1. QED
    BY <1>2, <1>3, <1>4, StepByStep
<1>6. Seen(Len(s)) = Range(s)
  BY <1>2 DEF Range
<1>7. QED
  BY <1>1, <1>5, <1>6

-----------------------------------------------------------------------------
\* The tasks of a started process.

LEMMA GreatestOfInterval ==
    ASSUME NEW N \in Nat, NEW I \in SUBSET (0 .. N), I # {}
    PROVE  \E i \in I : \A j \in I : j <= i
<1> SUFFICES ASSUME \A i \in I : \E j \in I : i < j
             PROVE  FALSE
  OBVIOUS
<1> DEFINE S == {m \in 0 .. N : \E i \in I : m <= i}
<1>1. 0 \in S
  <2>1. PICK i \in I : TRUE
    OBVIOUS
  <2>2. 0 <= i
    BY <2>1
  <2>3. QED
    BY <2>2
<1>2. ASSUME NEW m \in 0 .. N, m \in S, m < N PROVE m + 1 \in S
  <2>1. PICK i \in I : m <= i
    BY <1>2
  <2>2. PICK j \in I : i < j
    OBVIOUS
  <2>3. m + 1 <= j /\ m + 1 \in 0 .. N
    BY <1>2, <2>1, <2>2
  <2>4. QED
    BY <2>3
<1>3. N \in S
  <2> HIDE DEF S
  <2>1. QED
    BY <1>1, <1>2, StepByStep
<1>4. PICK i \in I : N <= i
  BY <1>3
<1>5. QED
  BY <1>4

\* The n of the task for the i-th entry: how often its camera came up to there.
Number(i) == Cardinality({j \in 1 .. i : file[j] = file[i]})

LEMMA NumbersGrow ==
    ASSUME file \in Seq(Cameras), NEW i \in 1 .. Len(file), NEW k \in 1 .. Len(file)
    PROVE  /\ Number(i) \in Nat
           /\ file[i] = file[k] /\ i <= k => Number(i) <= Number(k)
<1> DEFINE Same(n) == {j \in 1 .. n : file[j] = file[n]}
<1>1. \A n \in 1 .. Len(file) : IsFiniteSet(Same(n))
  <2>1. TAKE n \in 1 .. Len(file)
  <2>2. IsFiniteSet(1 .. n) /\ Same(n) \in SUBSET (1 .. n)
    BY FS_Interval
  <2>3. QED
    BY <2>2, FS_Subset
<1>2. Number(i) \in Nat
  BY <1>1, FS_CardinalityType DEF Number
<1>3. ASSUME file[i] = file[k], i <= k PROVE Number(i) <= Number(k)
  <2>1. Same(i) \in SUBSET Same(k)
    BY <1>3
  <2>2. IsFiniteSet(Same(k))
    BY <1>1
  <2> HIDE DEF Same
  <2>3. Cardinality(Same(i)) <= Cardinality(Same(k))
    BY <2>1, <2>2, FS_Subset
  <2>4. QED
    BY <2>3 DEF Same, Number
<1>4. QED
  BY <1>2, <1>3

LEMMA SpawnedTasks ==
    ASSUME file \in Seq(Cameras)
    PROVE  /\ Spawned \subseteq Task /\ IsFiniteSet(Spawned)
           /\ CamsOf(Spawned) = Range(file)
<1>1. Len(file) \in Nat /\ DOMAIN file = 1 .. Len(file)
  OBVIOUS
<1>2. Spawned = {[cam |-> file[i], n |-> Number(i)] : i \in 1 .. Len(file)}
  BY DEF Spawned, Number
<1>3. \A i \in 1 .. Len(file) : Number(i) \in Nat /\ file[i] \in Cameras
  BY NumbersGrow
<1>4. Spawned \subseteq Task
  BY <1>2, <1>3 DEF Task
<1>5. IsFiniteSet(Spawned)
  <2> DEFINE f == [i \in 1 .. Len(file) |-> [cam |-> file[i], n |-> Number(i)]]
  <2>1. f \in Surjection(1 .. Len(file), Spawned)
    BY <1>2 DEF Surjection
  <2>2. IsFiniteSet(1 .. Len(file))
    BY <1>1, FS_Interval
  <2> HIDE DEF f
  <2>3. QED
    BY <2>1, <2>2, FS_Surjection
<1>6. CamsOf(Spawned) = Range(file)
  <2>1. ASSUME NEW c \in CamsOf(Spawned) PROVE c \in Range(file)
    <3>1. PICK t \in Spawned : c = t.cam
      BY <2>1 DEF CamsOf
    <3>2. PICK i \in 1 .. Len(file) : t = [cam |-> file[i], n |-> Number(i)]
      BY <1>2
    <3>3. QED
      BY <1>1, <3>1, <3>2 DEF Range
  <2>2. ASSUME NEW c \in Range(file) PROVE c \in CamsOf(Spawned)
    <3>1. PICK i \in 1 .. Len(file) : c = file[i]
      BY <1>1, <2>2 DEF Range
    <3>2. [cam |-> file[i], n |-> Number(i)] \in Spawned
      BY <1>2
    <3>3. [cam |-> file[i], n |-> Number(i)].cam = c
      BY <3>1
    <3>4. QED
      BY <3>2, <3>3 DEF CamsOf
  <2>3. QED
    BY <2>1, <2>2
<1>7. QED
  BY <1>4, <1>5, <1>6

LEMMA RegisteredTasks ==
    ASSUME file \in Seq(Cameras)
    PROVE  /\ Registered \subseteq Spawned
           /\ CamsOf(Registered) = Range(file)
           /\ \A t, s \in Registered : t.cam = s.cam => t = s
<1>1. Len(file) \in Nat /\ DOMAIN file = 1 .. Len(file)
  OBVIOUS
<1>2. Spawned = {[cam |-> file[i], n |-> Number(i)] : i \in 1 .. Len(file)}
  BY DEF Spawned, Number
<1>3. Registered \subseteq Spawned
  BY DEF Registered
<1>4. CamsOf(Registered) = Range(file)
  <2>1. CamsOf(Registered) \subseteq Range(file)
    BY <1>3, SpawnedTasks DEF CamsOf
  <2>2. ASSUME NEW c \in Range(file) PROVE c \in CamsOf(Registered)
    <3> DEFINE I == {i \in 1 .. Len(file) : file[i] = c}
    <3>1. I # {} /\ I \in SUBSET (0 .. Len(file))
      BY <1>1, <2>2 DEF Range
    <3>2. PICK k \in I : \A j \in I : j <= k
      <4> HIDE DEF I
      <4>1. QED
        BY <1>1, <3>1, GreatestOfInterval
    <3> DEFINE t == [cam |-> file[k], n |-> Number(k)]
    <3>3. t \in Spawned
      BY <1>2
    <3>4. ASSUME NEW s \in Spawned, s.cam = t.cam PROVE s.n <= t.n
      <4>1. PICK i \in 1 .. Len(file) : s = [cam |-> file[i], n |-> Number(i)]
        BY <1>2, <3>4
      <4>2. i \in I /\ i <= k
        BY <3>2, <3>4, <4>1
      <4>3. Number(i) <= Number(k)
        BY <4>2, NumbersGrow
      <4>4. QED
        BY <4>1, <4>3
    <3>5. t \in Registered
      BY <3>3, <3>4 DEF Registered
    <3>6. t.cam = c
      OBVIOUS
    <3> HIDE DEF t
    <3>7. QED
      BY <3>5, <3>6 DEF CamsOf
  <2>3. QED
    BY <2>1, <2>2
<1>5. ASSUME NEW t \in Registered, NEW s \in Registered, t.cam = s.cam PROVE t = s
  <2>1. t \in Task /\ s \in Task
    BY <1>3, SpawnedTasks
  <2>2. t.n <= s.n /\ s.n <= t.n
    BY <1>3, <1>5 DEF Registered
  <2>3. t.n = s.n
    BY <2>1, <2>2 DEF Task
  <2>4. QED
    BY <1>5, <2>1, <2>3 DEF Task
<1>6. QED
  BY <1>3, <1>4, <1>5

\* There is a number for one more task: not all of 1 .. |used| + 1 are in use.
LEMMA FreshTaskExists ==
    ASSUME NEW cam \in Cameras, workers \subseteq Task, running \subseteq Task,
           IsFiniteSet(workers), IsFiniteSet(running)
    PROVE  FreshTask(cam) \in Task /\ FreshTask(cam).cam = cam
<1> DEFINE S == {s \in workers \cup running : s.cam = cam}
           used == {t.n : t \in S}
<1>1. IsFiniteSet(S)
  <2>1. IsFiniteSet(workers \cup running)
    BY FS_Union
  <2>2. S \in SUBSET (workers \cup running)
    OBVIOUS
  <2>3. QED
    BY <2>1, <2>2, FS_Subset
<1>2. IsFiniteSet(used)
  <2> DEFINE f == [t \in S |-> t.n]
  <2> HIDE DEF S
  <2>1. f \in Surjection(S, used)
    BY DEF Surjection
  <2> HIDE DEF f, used
  <2>2. QED
    BY <1>1, <2>1, FS_Surjection
<1>3. \E n \in 1 .. Cardinality(used) + 1 : n \notin used
  <2> HIDE DEF used
  <2>1. Cardinality(used) \in Nat
    BY <1>2, FS_CardinalityType
  <2>2. SUFFICES ASSUME 1 .. Cardinality(used) + 1 \subseteq used PROVE FALSE
    OBVIOUS
  <2>3. Cardinality(1 .. Cardinality(used) + 1) <= Cardinality(used)
    BY <1>2, <2>2, FS_Subset
  <2>4. Cardinality(1 .. Cardinality(used) + 1) = Cardinality(used) + 1
    BY <2>1, FS_Interval
  <2>5. QED
    BY <2>1, <2>3, <2>4
<1> DEFINE n == CHOOSE n \in 1 .. Cardinality(used) + 1 : n \notin used
<1>4. n \in 1 .. Cardinality(used) + 1 /\ n \in Nat
  <2> HIDE DEF used
  <2>1. n \in 1 .. Cardinality(used) + 1
    BY <1>3
  <2>2. QED
    BY <2>1
<1>5. FreshTask(cam) = [cam |-> cam, n |-> n]
  BY DEF FreshTask
<1> HIDE DEF n
<1>6. QED
  BY <1>4, <1>5 DEF Task

-----------------------------------------------------------------------------
\* The inductive invariant.
Stage == {"idle", "asked", "changed", "queued", "saving", "writing",
          "status", "first", "between", "second"}
Request == [at : Stage, op : {"none", "add", "remove", "status"},
            cam : Cameras \cup {<<>>}]

\* A request that changes a camera names one, and dies with the process.
RequestInv(a) ==
    /\ client[a].op \in {"add", "remove"} => client[a].cam \in Cameras
    /\ client[a].at \in Changing => client[a].op \in {"add", "remove"}
    /\ ~up => client[a].at = "idle"

\* The manager's mutex.
OneChange == \A a, b \in At(Changing) : a = b

\* How far the map and the configuration are apart in the middle of a change.
ChangeInv(a) ==
    /\ client[a].at \in {"changed", "queued"} /\ client[a].op = "add" =>
            CamsOf(workers) = Range(config) \cup {client[a].cam}
    /\ client[a].at \in {"changed", "queued"} /\ client[a].op = "remove" =>
            CamsOf(workers) = Range(config) \ {client[a].cam}
    /\ client[a].at \in {"saving", "writing"} => CamsOf(workers) = Range(config)

\* Unless it is being written or was left cut, the file has what was kept.
FileKept == ~damaged /\ At({"writing"}) = {} => Range(file) = kept

AdminInv ==
    /\ AdminTypeOK /\ IsFiniteSet(workers) /\ IsFiniteSet(running)
    /\ \A a \in Clients : RequestInv(a) /\ ChangeInv(a)
    /\ OneChange /\ FileFollowsMemory /\ FileKept
    /\ EveryWorkerListed

LEMMA InitAdmin == AdminInit => AdminInv
<1> SUFFICES ASSUME AdminInit PROVE AdminInv
  OBVIOUS
<1>1. file \in Seq(Cameras) /\ <<>> \in Seq(Cameras)
  BY AdminAssumption DEF AdminInit
<1>2. Range(file) \subseteq Cameras
  BY <1>1 DEF Range
<1>3. AdminTypeOK
  BY <1>1, <1>2 DEF AdminInit, AdminTypeOK, Idle
<1>4. IsFiniteSet({})
  BY FS_EmptySet
<1>5. ASSUME NEW a \in Clients PROVE RequestInv(a) /\ ChangeInv(a)
  <2>1. client[a] = Idle
    BY DEF AdminInit
  <2>2. QED
    BY <2>1 DEF Idle, RequestInv, ChangeInv, Changing
<1>6. At(Changing) = {} /\ At({"writing"}) = {}
  BY DEF AdminInit, At, Changing, Idle
<1>7. QED
  BY <1>3, <1>4, <1>5, <1>6
     DEF AdminInit, AdminInv, OneChange, FileFollowsMemory, FileKept, EveryWorkerListed

-----------------------------------------------------------------------------
\* What a step does to the request that makes it, and to the others.
LEMMA ClientSteps ==
    ASSUME AdminTypeOK, NEW a \in Clients, NEW r \in Request,
           client' = [client EXCEPT ![a] = r]
    PROVE  /\ client' \in [Clients -> Request]
           /\ client'[a] = r
           /\ \A b \in Clients : b # a => client'[b] = client[b]
           /\ client[a] \in Request
BY DEF AdminTypeOK, Request, Stage

LEMMA GotoSteps ==
    ASSUME AdminTypeOK, NEW a \in Clients, NEW stage \in Stage, Goto(a, stage)
    PROVE  \E r \in Request :
                /\ client' = [client EXCEPT ![a] = r]
                /\ r.at = stage /\ r.op = client[a].op /\ r.cam = client[a].cam
<1> DEFINE r == [client[a] EXCEPT !.at = stage]
<1>1. client \in [Clients -> Request] /\ client[a] \in Request
  BY DEF AdminTypeOK, Request, Stage
<1>2. r \in Request /\ r.at = stage /\ r.op = client[a].op /\ r.cam = client[a].cam
  BY <1>1 DEF Request
<1>3. client' = [client EXCEPT ![a] = r]
  BY <1>1 DEF Goto
<1> HIDE DEF r
<1>4. QED
  BY <1>2, <1>3

LEMMA IdleRequest == Idle \in Request
BY DEF Idle, Request, Stage

\* A step that leaves configuration, file and map alone, of a request that is
\* not in the middle of a change, and comes to none.
LEMMA QuietRequest ==
    ASSUME AdminInv, NEW a \in Clients, NEW r \in Request,
           client' = [client EXCEPT ![a] = r],
           client[a].at \notin Changing, r.at \notin Changing,
           r.op \in {"add", "remove"} => r.cam \in Cameras,
           up \/ r.at = "idle",
           UNCHANGED <<file, pools, memory, history>>
    PROVE  AdminInv'
<1>1. /\ UNCHANGED <<file, pools, up, config, workers, running, hidden, kept, unsaved,
                     damaged>>
  BY DEF memory, history
<1>2. /\ client' \in [Clients -> Request] /\ client'[a] = r
      /\ \A b \in Clients : b # a => client'[b] = client[b]
  BY ClientSteps DEF AdminInv
<1>3. AdminTypeOK'
  BY <1>1, <1>2 DEF AdminInv, AdminTypeOK, Request, Stage
<1>4. ASSUME NEW b \in Clients PROVE RequestInv(b)' /\ ChangeInv(b)'
  <2>1. CASE b = a
    BY <1>1, <1>2, <2>1 DEF RequestInv, ChangeInv, Changing
  <2>2. CASE b # a
    <3>1. client'[b] = client[b] /\ RequestInv(b) /\ ChangeInv(b)
      BY <1>2, <2>2 DEF AdminInv
    <3>2. QED
      BY <1>1, <3>1 DEF RequestInv, ChangeInv
  <2>3. QED
    BY <2>1, <2>2
<1>5. At(Changing)' = At(Changing) /\ At({"writing"})' = At({"writing"})
  <2>1. ASSUME NEW b \in Clients
        PROVE  /\ client'[b].at \in Changing <=> client[b].at \in Changing
               /\ client'[b].at \in {"writing"} <=> client[b].at \in {"writing"}
    BY <1>2 DEF Changing
  <2>2. QED
    BY <2>1 DEF At
<1>6. OneChange' /\ FileKept' /\ FileFollowsMemory'
  <2>1. OneChange'
    BY <1>5 DEF AdminInv, OneChange
  <2>2. FileKept'
    BY <1>1, <1>5 DEF AdminInv, FileKept
  <2>3. FileFollowsMemory'
    BY <1>1, <1>5 DEF AdminInv, FileFollowsMemory, Changing
  <2>4. QED
    BY <2>1, <2>2, <2>3
<1>7. QED
  BY <1>1, <1>3, <1>4, <1>6 DEF AdminInv, EveryWorkerListed

LEMMA QuietRequests ==
    ASSUME AdminInv, NEW a \in Clients,
           \/ Refuse(a) \/ StatusStep(a)
           \/ Ask(a, "status", <<>>)
           \/ \E op \in {"add", "remove"}, cam \in Cameras : Ask(a, op, cam)
    PROVE  AdminInv'
<1>1. AdminTypeOK /\ RequestInv(a)
  BY DEF AdminInv
<1>2. CASE Refuse(a)
  <2>1. /\ client' = [client EXCEPT ![a] = Idle] /\ client[a].at = "asked"
        /\ UNCHANGED <<file, pools, memory, history>>
    BY <1>2 DEF Refuse, Done
  <2>2. Idle.at = "idle" /\ Idle.op = "none"
    BY DEF Idle
  <2>3. QED
    BY <2>1, <2>2, IdleRequest, QuietRequest DEF Changing
<1>3. ASSUME NEW op \in {"add", "remove", "status"}, NEW cam \in Cameras \cup {<<>>},
             Ask(a, op, cam), op # "status" => cam \in Cameras
      PROVE  AdminInv'
  <2> DEFINE r == [at |-> "asked", op |-> op, cam |-> cam]
  <2>1. /\ client' = [client EXCEPT ![a] = r] /\ client[a].at = "idle" /\ up
        /\ UNCHANGED <<file, pools, memory, history>>
    BY <1>3 DEF Ask
  <2>2. r \in Request /\ r.at = "asked" /\ r.op = op /\ r.cam = cam
    BY DEF Request, Stage
  <2> HIDE DEF r
  <2>3. QED
    BY <1>3, <2>1, <2>2, QuietRequest DEF Changing
<1>4. ASSUME NEW stage \in {"status", "first", "second", "between"}, Goto(a, stage),
             client[a].at \in {"asked", "status", "between", "first"},
             UNCHANGED <<file, pools, memory, history>>
      PROVE  AdminInv'
  <2>1. PICK r \in Request :
                /\ client' = [client EXCEPT ![a] = r]
                /\ r.at = stage /\ r.op = client[a].op /\ r.cam = client[a].cam
    BY <1>1, <1>4, GotoSteps DEF Stage
  <2>2. /\ client[a].at \notin Changing /\ r.at \notin Changing
        /\ r.op \in {"add", "remove"} => r.cam \in Cameras
        /\ up
    BY <1>1, <1>4, <2>1 DEF RequestInv, Changing
  <2>3. QED
    BY <1>4, <2>1, <2>2, QuietRequest
<1>5. CASE TouchManager(a)
  BY <1>4, <1>5 DEF TouchManager
<1>6. CASE ReadConfig(a)
  BY <1>4, <1>6 DEF ReadConfig
<1>7. CASE LeaveConfig(a)
  <2>1. CASE client[a].at = "first"
    BY <1>4, <1>7, <2>1 DEF LeaveConfig
  <2>2. CASE client[a].at # "first"
    <3>1. /\ client' = [client EXCEPT ![a] = Idle] /\ client[a].at = "second"
          /\ UNCHANGED <<file, pools, memory, history>>
      BY <1>7, <2>2 DEF LeaveConfig, Done
    <3>2. Idle.at = "idle" /\ Idle.op = "none"
      BY DEF Idle
    <3>3. QED
      BY <3>1, <3>2, IdleRequest, QuietRequest DEF Changing
  <2>3. QED
    BY <2>1, <2>2
<1>8. QED
  BY <1>2, <1>3, <1>5, <1>6, <1>7 DEF StatusStep

-----------------------------------------------------------------------------
\* Start and end of the process.
LEMMA StartStep ==
    ASSUME AdminInv, Start
    PROVE  AdminInv'
<1>1. /\ file \in Seq(Cameras) /\ ~up /\ up' = TRUE /\ pools' = "ready"
      /\ config' = file /\ running' = Spawned /\ workers' = Registered
      /\ unsaved' = FALSE /\ UNCHANGED <<file, client, kept, damaged>>
  BY DEF Start, AdminInv, AdminTypeOK
<1>2. hidden' = Spawned \ Registered
  BY DEF Start
<1>3. /\ Spawned \subseteq Task /\ IsFiniteSet(Spawned)
      /\ Registered \subseteq Spawned
      /\ CamsOf(Registered) = Range(file)
      /\ \A t, s \in Registered : t.cam = s.cam => t = s
  BY <1>1, SpawnedTasks, RegisteredTasks
<1>4. AdminTypeOK'
  BY <1>1, <1>2, <1>3 DEF AdminInv, AdminTypeOK
<1>5. IsFiniteSet(workers') /\ IsFiniteSet(running')
  BY <1>1, <1>3, FS_Subset
<1>6. \A a \in Clients : client[a].at = "idle" /\ RequestInv(a)
  BY <1>1 DEF AdminInv, RequestInv
<1>7. ASSUME NEW a \in Clients PROVE RequestInv(a)' /\ ChangeInv(a)'
  BY <1>1, <1>6 DEF RequestInv, ChangeInv, Changing
<1>8. OneChange'
  BY <1>1, <1>6 DEF OneChange, At, Changing
<1>9. FileFollowsMemory'
  BY <1>1, <1>3 DEF CamsOf, FileFollowsMemory
<1>10. FileKept'
  BY <1>1 DEF AdminInv, FileKept, At
<1>11. EveryWorkerListed'
  BY <1>1, <1>2, <1>3 DEF EveryWorkerListed
<1>12. QED
  BY <1>4, <1>5, <1>7, <1>8, <1>9, <1>10, <1>11 DEF AdminInv

LEMMA GoneStep ==
    ASSUME AdminInv, Gone, file' \in Seq(Cameras), kept' \subseteq Cameras,
           damaged' \in BOOLEAN, ~damaged' => Range(file') = kept'
    PROVE  AdminInv'
<1>1. /\ up' = FALSE /\ config' = <<>> /\ workers' = {} /\ running' = {}
      /\ UNCHANGED <<pools, hidden, unsaved>>
      /\ \A a \in Clients : client'[a] = Idle
      /\ client' \in [Clients -> Request]
  BY IdleRequest DEF Gone
<1>2. AdminTypeOK'
  <2>1. <<>> \in Seq(Cameras)
    OBVIOUS
  <2>2. QED
    BY <1>1, <2>1 DEF AdminInv, AdminTypeOK, Request, Stage
<1>3. IsFiniteSet(workers') /\ IsFiniteSet(running')
  BY <1>1, FS_EmptySet
<1>4. Idle.at = "idle" /\ Idle.op = "none"
  BY DEF Idle
<1>5. ASSUME NEW a \in Clients PROVE RequestInv(a)' /\ ChangeInv(a)'
  BY <1>1, <1>4 DEF RequestInv, ChangeInv, Changing
<1>6. OneChange'
  BY <1>1, <1>4 DEF OneChange, At, Changing
<1>7. FileFollowsMemory' /\ FileKept' /\ EveryWorkerListed'
  BY <1>1 DEF FileFollowsMemory, FileKept, EveryWorkerListed
<1>8. QED
  BY <1>2, <1>3, <1>5, <1>6, <1>7 DEF AdminInv

\* A part of the cameras of the configuration; all of them when it is not cut.
LEMMA Prefix ==
    ASSUME config \in Seq(Cameras), NEW n \in 0 .. Len(config)
    PROVE  /\ SubSeq(config, 1, n) \in Seq(Cameras)
           /\ n = Len(config) => SubSeq(config, 1, n) = config
<1>1. Len(config) \in Nat /\ \A i \in 1 .. n : config[i] \in Cameras
  OBVIOUS
<1>2. /\ SubSeq(config, 1, n) \in Seq(Cameras)
      /\ Len(SubSeq(config, 1, n)) = IF 1 <= n THEN n - 1 + 1 ELSE 0
      /\ \A i \in 1 .. n - 1 + 1 : SubSeq(config, 1, n)[i] = config[1 + i - 1]
  BY <1>1, SubSeqProperties
<1>3. ASSUME n = Len(config) PROVE SubSeq(config, 1, n) = config
  <2>1. Len(SubSeq(config, 1, n)) = Len(config)
    BY <1>1, <1>2, <1>3
  <2>2. \A i \in 1 .. n : SubSeq(config, 1, n)[i] = config[i]
    <3>1. TAKE i \in 1 .. n
    <3>2. i \in 1 .. n - 1 + 1 /\ 1 + i - 1 = i
      OBVIOUS
    <3>3. QED
      BY <1>2, <3>2
  <2>3. QED
    BY <1>2, <1>3, <2>1, <2>2, SeqEqual
<1>4. QED
  BY <1>2, <1>3

LEMMA EndSteps ==
    ASSUME AdminInv, Shutdown \/ Kill
    PROVE  AdminInv'
<1>1. /\ file \in Seq(Cameras) /\ config \in Seq(Cameras) /\ kept \subseteq Cameras
      /\ damaged \in BOOLEAN /\ workers \subseteq Task
  BY DEF AdminInv, AdminTypeOK
<1>2. CamsOf(workers) \subseteq Cameras
  BY <1>1 DEF CamsOf, Task
<1>3. CASE /\ Gone /\ At({"writing"}) = {} /\ UNCHANGED <<file, kept, damaged>>
  BY <1>1, <1>3, GoneStep DEF AdminInv, FileKept
<1>4. CASE Shutdown
  <2>1. At({"writing"}) = {}
    BY <1>4 DEF Shutdown, At, Changing
  <2>2. QED
    BY <1>3, <1>4, <2>1 DEF Shutdown
<1>5. CASE Kill /\ At({"writing"}) # {}
  <2>1. PICK n \in 0 .. Len(config) :
              /\ file' = SubSeq(config, 1, n)
              /\ damaged' = (n < Len(config))
              /\ kept' = IF damaged' THEN kept ELSE CamsOf(workers)
    BY <1>5 DEF Kill
  <2>2. PICK a \in Clients : client[a].at = "writing"
    BY <1>5 DEF At
  <2>3. CamsOf(workers) = Range(config)
    BY <2>2 DEF AdminInv, ChangeInv
  <2>4. file' \in Seq(Cameras) /\ (n = Len(config) => file' = config)
    BY <1>1, <2>1, Prefix
  <2>5. damaged' \in BOOLEAN /\ kept' \subseteq Cameras
    BY <1>1, <1>2, <2>1
  <2>6. ~damaged' => Range(file') = kept'
    <3>1. Len(config) \in Nat
      BY <1>1
    <3>2. ~damaged' => ~(n < Len(config))
      BY <2>1, Zenon
    <3>3. ~(n < Len(config)) => n = Len(config)
      BY <2>1, <3>1
    <3>4. QED
      BY <2>1, <2>3, <2>4, <3>2, <3>3
  <2>7. Gone
    BY <1>5 DEF Kill
  <2>8. QED
    BY <2>4, <2>5, <2>6, <2>7, GoneStep
<1>6. QED
  BY <1>3, <1>4, <1>5 DEF Kill

LEMMA TaskSteps ==
    ASSUME AdminInv, StartKilled \/ (\E t \in running : GiveUp(t)) \/ UNCHANGED adminVars
    PROVE  AdminInv'
<1>1. /\ UNCHANGED <<file, up, config, workers, client, hidden, kept, unsaved, damaged>>
      /\ running' \subseteq running /\ pools' \in {"absent", "short", "ready"}
  BY DEF StartKilled, GiveUp, adminVars, memory, history, AdminInv, AdminTypeOK
<1>2. AdminTypeOK'
  BY <1>1 DEF AdminInv, AdminTypeOK
<1>3. IsFiniteSet(workers') /\ IsFiniteSet(running')
  BY <1>1, FS_Subset DEF AdminInv
<1>4. ASSUME NEW a \in Clients PROVE RequestInv(a)' /\ ChangeInv(a)'
  BY <1>1 DEF AdminInv, RequestInv, ChangeInv
<1>5. At(Changing)' = At(Changing) /\ At({"writing"})' = At({"writing"})
  BY <1>1 DEF At
<1>6. OneChange' /\ FileKept' /\ EveryWorkerListed'
  BY <1>1, <1>5 DEF AdminInv, OneChange, FileKept, EveryWorkerListed
<1>7. FileFollowsMemory'
  BY <1>1, <1>5 DEF AdminInv, FileFollowsMemory, Changing
<1>8. QED
  BY <1>2, <1>3, <1>4, <1>6, <1>7 DEF AdminInv

-----------------------------------------------------------------------------
\* The requests that change the cameras.

\* A request gets the manager's mutex, or has it, and keeps it.
LEMMA HoldsManager ==
    ASSUME AdminInv, NEW a \in Clients, NEW stage \in Changing, Goto(a, stage),
           up' = up, client[a].op \in {"add", "remove"},
           client[a].at \in Changing \/ (ManagerFree /\ client[a].at = "asked")
    PROVE  /\ client' \in [Clients -> Request]
           /\ client'[a].at = stage /\ client'[a].op = client[a].op
           /\ client'[a].cam = client[a].cam /\ client[a].cam \in Cameras
           /\ \A b \in Clients : b # a => client'[b] = client[b]
                                          /\ client[b].at \notin Changing
           /\ \A b \in Clients : RequestInv(b)'
           /\ At(Changing)' = {a} /\ OneChange'
<1>1. PICK r \in Request :
            /\ client' = [client EXCEPT ![a] = r]
            /\ r.at = stage /\ r.op = client[a].op /\ r.cam = client[a].cam
  BY GotoSteps DEF AdminInv, Changing, Stage
<1>2. /\ client' \in [Clients -> Request] /\ client'[a] = r
      /\ \A b \in Clients : b # a => client'[b] = client[b]
  BY <1>1, ClientSteps DEF AdminInv
<1>3. \A b \in Clients : b # a => client[b].at \notin Changing
  <2>1. CASE client[a].at \in Changing
    <3>1. a \in At(Changing)
      BY <2>1 DEF At
    <3>2. QED
      BY <3>1 DEF AdminInv, OneChange, At
  <2>2. CASE ManagerFree
    BY <2>2 DEF ManagerFree, At, Changing
  <2>3. QED
    BY <2>1, <2>2
<1>4. client[a].cam \in Cameras /\ up
  <2>1. client[a].at # "idle"
    BY DEF Changing
  <2>2. QED
    BY <2>1 DEF AdminInv, RequestInv
<1>5. ASSUME NEW b \in Clients PROVE RequestInv(b)'
  <2>1. CASE b = a
    BY <1>1, <1>2, <1>4, <2>1 DEF RequestInv
  <2>2. CASE b # a
    <3>1. client'[b] = client[b] /\ RequestInv(b)
      BY <1>2, <2>2 DEF AdminInv
    <3>2. QED
      BY <3>1 DEF RequestInv
  <2>3. QED
    BY <2>1, <2>2
<1>6. At(Changing)' = {a}
  BY <1>1, <1>2, <1>3 DEF At
<1>7. OneChange'
  BY <1>6 DEF OneChange
<1>8. QED
  BY <1>1, <1>2, <1>3, <1>4, <1>5, <1>6, <1>7

\* While a request changes the cameras, only that request's step counts.
LEMMA ChangeGoesOn ==
    ASSUME AdminInv, NEW a \in Clients, NEW stage \in Changing, Goto(a, stage),
           up' = up, client[a].op \in {"add", "remove"},
           client[a].at \in Changing \/ (ManagerFree /\ client[a].at = "asked"),
           UNCHANGED <<pools, hidden, unsaved, damaged, kept>>,
           file' \in Seq(Cameras), config' \in Seq(Cameras),
           workers' \subseteq Task, running' \subseteq Task,
           IsFiniteSet(workers'), IsFiniteSet(running'),
           \A t, s \in workers' : t.cam = s.cam => t = s,
           EveryWorkerListed', ChangeInv(a)',
           stage # "writing" => file' = file /\ client[a].at # "writing"
    PROVE  AdminInv'
<1>1. /\ client' \in [Clients -> Request] /\ client'[a].at = stage
      /\ \A b \in Clients : b # a => client'[b] = client[b]
                                     /\ client[b].at \notin Changing
      /\ \A b \in Clients : RequestInv(b)'
      /\ At(Changing)' = {a} /\ OneChange'
  BY HoldsManager
<1>2. AdminTypeOK'
  BY <1>1 DEF AdminInv, AdminTypeOK, Request, Stage
<1>3. ASSUME NEW b \in Clients PROVE ChangeInv(b)'
  <2>1. CASE b # a
    <3>1. client'[b].at \notin Changing
      BY <1>1, <2>1
    <3>2. QED
      BY <3>1 DEF ChangeInv, Changing
  <2>2. QED
    BY <2>1
<1>4. FileFollowsMemory'
  BY <1>1 DEF FileFollowsMemory, Changing
<1>5. FileKept'
  <2>1. CASE stage = "writing"
    <3>1. a \in At({"writing"})'
      BY <1>1, <2>1 DEF At
    <3>2. QED
      BY <3>1 DEF FileKept
  <2>2. CASE stage # "writing"
    <3>1. \A b \in Clients : client[b].at # "writing"
      BY <1>1, <2>2 DEF Changing
    <3>2. At({"writing"}) = {}
      BY <3>1 DEF At
    <3>3. QED
      BY <2>2, <3>2 DEF AdminInv, FileKept
  <2>3. QED
    BY <2>1, <2>2
<1>6. QED
  BY <1>1, <1>2, <1>3, <1>4, <1>5 DEF AdminInv

LEMMA AddCameraStep ==
    ASSUME AdminInv, NEW a \in Clients, AddCamera(a)
    PROVE  AdminInv'
<1> DEFINE c == client[a].cam
           t == FreshTask(c)
<1>1. /\ client[a].at = "asked" /\ client[a].op = "add" /\ ManagerFree
      /\ Worker(c) = {} /\ workers' = workers \cup {t} /\ running' = running \cup {t}
      /\ Goto(a, "changed")
      /\ UNCHANGED <<file, pools, up, config, hidden, kept, unsaved, damaged>>
  BY DEF AddCamera, history
<1>2. client'[a].at = "changed" /\ client'[a].op = "add" /\ client'[a].cam = c
      /\ c \in Cameras
  BY <1>1, HoldsManager DEF Changing
<1>3. /\ AdminTypeOK /\ IsFiniteSet(workers) /\ IsFiniteSet(running)
      /\ workers \subseteq Task /\ running \subseteq Task
  BY DEF AdminInv, AdminTypeOK
<1>4. t \in Task /\ t.cam = c
  BY <1>2, <1>3, FreshTaskExists
<1>5. /\ workers' \subseteq Task /\ running' \subseteq Task
      /\ IsFiniteSet(workers') /\ IsFiniteSet(running')
  BY <1>1, <1>3, <1>4, FS_AddElement
<1> HIDE DEF t
<1>6. \A u, s \in workers' : u.cam = s.cam => u = s
  <2>1. \A s \in workers : s.cam # c
    BY <1>1 DEF Worker
  <2>2. QED
    BY <1>1, <1>3, <1>4, <2>1 DEF AdminTypeOK
<1>7. EveryWorkerListed'
  BY <1>1 DEF AdminInv, EveryWorkerListed
<1>8. CamsOf(workers) = Range(config)
  <2>1. up
    BY <1>1 DEF AdminInv, RequestInv
  <2>2. QED
    BY <1>1, <2>1 DEF AdminInv, FileFollowsMemory, ManagerFree
<1>9. CamsOf(workers') = CamsOf(workers) \cup {c}
  BY <1>1, <1>4 DEF CamsOf
<1>10. ChangeInv(a)'
  <2>1. CamsOf(workers)' = Range(config)' \cup {c}
    BY <1>1, <1>8, <1>9 DEF CamsOf
  <2>2. QED
    BY <1>2, <2>1 DEF ChangeInv
<1>11. file' \in Seq(Cameras) /\ config' \in Seq(Cameras)
  BY <1>1, <1>3 DEF AdminTypeOK
<1>12. QED
  BY <1>1, <1>5, <1>6, <1>7, <1>10, <1>11, ChangeGoesOn DEF Changing

LEMMA RemoveCameraStep ==
    ASSUME AdminInv, NEW a \in Clients, RemoveCamera(a)
    PROVE  AdminInv'
<1> DEFINE c == client[a].cam
<1>1. /\ client[a].at = "asked" /\ client[a].op = "remove" /\ ManagerFree
      /\ workers' = workers \ Worker(c) /\ running' = running \ Worker(c)
      /\ Goto(a, "changed")
      /\ UNCHANGED <<file, pools, up, config, hidden, kept, unsaved, damaged>>
  BY DEF RemoveCamera, history
<1>2. client'[a].at = "changed" /\ client'[a].op = "remove" /\ client'[a].cam = c
  BY <1>1, HoldsManager DEF Changing
<1>3. /\ AdminTypeOK /\ IsFiniteSet(workers) /\ IsFiniteSet(running)
  BY DEF AdminInv
<1>4. /\ workers' \subseteq workers /\ running' \subseteq running
  BY <1>1
<1>5. /\ workers' \subseteq Task /\ running' \subseteq Task
      /\ IsFiniteSet(workers') /\ IsFiniteSet(running')
      /\ \A t, s \in workers' : t.cam = s.cam => t = s
  <2>1. IsFiniteSet(workers') /\ IsFiniteSet(running')
    BY <1>3, <1>4, FS_Subset
  <2>2. QED
    BY <1>3, <1>4, <2>1 DEF AdminTypeOK
<1>6. EveryWorkerListed'
  BY <1>1 DEF AdminInv, EveryWorkerListed
<1>7. CamsOf(workers) = Range(config)
  <2>1. up
    BY <1>1 DEF AdminInv, RequestInv
  <2>2. QED
    BY <1>1, <2>1 DEF AdminInv, FileFollowsMemory, ManagerFree
<1>8. CamsOf(workers') = CamsOf(workers) \ {c}
  BY <1>1 DEF CamsOf, Worker
<1>9. ChangeInv(a)'
  <2>1. CamsOf(workers)' = Range(config)' \ {c}
    BY <1>1, <1>7, <1>8 DEF CamsOf
  <2>2. QED
    BY <1>2, <2>1 DEF ChangeInv
<1>10. file' \in Seq(Cameras) /\ config' \in Seq(Cameras)
  BY <1>1, <1>3 DEF AdminTypeOK
<1>11. QED
  BY <1>1, <1>5, <1>6, <1>9, <1>10, ChangeGoesOn DEF Changing

LEMMA WaitForConfigStep ==
    ASSUME AdminInv, NEW a \in Clients, WaitForConfig(a)
    PROVE  AdminInv'
<1>1. /\ client[a].at = "changed" /\ Goto(a, "queued")
      /\ UNCHANGED <<file, pools, up, config, workers, running, hidden, kept, unsaved,
                     damaged>>
  BY DEF WaitForConfig, memory, history
<1>2. /\ AdminTypeOK /\ IsFiniteSet(workers) /\ IsFiniteSet(running)
      /\ RequestInv(a) /\ ChangeInv(a)
  BY DEF AdminInv
<1>3. client[a].op \in {"add", "remove"}
  BY <1>1, <1>2 DEF RequestInv, Changing
<1>4. /\ client'[a].at = "queued" /\ client'[a].op = client[a].op
      /\ client'[a].cam = client[a].cam
  BY <1>1, <1>3, HoldsManager DEF Changing
<1>5. ChangeInv(a)'
  BY <1>1, <1>2, <1>4 DEF ChangeInv
<1>6. /\ workers' \subseteq Task /\ running' \subseteq Task
      /\ IsFiniteSet(workers') /\ IsFiniteSet(running')
      /\ \A t, s \in workers' : t.cam = s.cam => t = s
      /\ file' \in Seq(Cameras) /\ config' \in Seq(Cameras)
  BY <1>1, <1>2 DEF AdminTypeOK
<1>7. EveryWorkerListed'
  BY <1>1 DEF AdminInv, EveryWorkerListed
<1>8. QED
  BY <1>1, <1>3, <1>5, <1>6, <1>7, ChangeGoesOn DEF Changing

LEMMA UpdateConfigStep ==
    ASSUME AdminInv, NEW a \in Clients, UpdateConfig(a)
    PROVE  AdminInv'
<1> DEFINE c == client[a].cam
<1>1. /\ client[a].at = "queued" /\ Goto(a, "saving")
      /\ config' = IF client[a].op = "add" THEN Append(config, c) ELSE Retain(config, c)
      /\ UNCHANGED <<file, pools, up, workers, running, hidden, kept, unsaved, damaged>>
  BY DEF UpdateConfig, history
<1>2. /\ AdminTypeOK /\ IsFiniteSet(workers) /\ IsFiniteSet(running)
      /\ RequestInv(a) /\ ChangeInv(a)
      /\ config \in Seq(Cameras) /\ file \in Seq(Cameras)
  BY DEF AdminInv, AdminTypeOK
<1>3. client[a].op \in {"add", "remove"} /\ c \in Cameras
  BY <1>1, <1>2 DEF RequestInv, Changing
<1>4. client'[a].at = "saving"
  BY <1>1, <1>3, HoldsManager DEF Changing
<1>5. config' \in Seq(Cameras) /\ CamsOf(workers) = Range(config')
  <2>1. CASE client[a].op = "add"
    <3>1. config' = Append(config, c)
      BY <1>1, <2>1
    <3>2. CamsOf(workers) = Range(config) \cup {c}
      BY <1>1, <1>2, <2>1 DEF ChangeInv
    <3>3. QED
      BY <1>2, <1>3, <3>1, <3>2, AppendProperties, RangeOfAppend
  <2>2. CASE client[a].op = "remove"
    <3>1. config' = Retain(config, c)
      BY <1>1, <2>2
    <3>2. CamsOf(workers) = Range(config) \ {c}
      BY <1>1, <1>2, <2>2 DEF ChangeInv
    <3>3. QED
      BY <1>2, <3>1, <3>2, RetainKeeps
  <2>3. QED
    BY <1>3, <2>1, <2>2
<1>6. ChangeInv(a)'
  <2>1. CamsOf(workers)' = Range(config)'
    BY <1>1, <1>5 DEF CamsOf
  <2>2. QED
    BY <1>4, <2>1 DEF ChangeInv
<1>7. /\ workers' \subseteq Task /\ running' \subseteq Task
      /\ IsFiniteSet(workers') /\ IsFiniteSet(running')
      /\ \A t, s \in workers' : t.cam = s.cam => t = s
  BY <1>1, <1>2 DEF AdminTypeOK
<1>8. EveryWorkerListed'
  BY <1>1 DEF AdminInv, EveryWorkerListed
<1>9. QED
  BY <1>1, <1>2, <1>3, <1>5, <1>6, <1>7, <1>8, ChangeGoesOn DEF Changing

LEMMA TruncateStep ==
    ASSUME AdminInv, NEW a \in Clients, Truncate(a)
    PROVE  AdminInv'
<1>1. /\ client[a].at = "saving" /\ Goto(a, "writing") /\ file' = <<>>
      /\ UNCHANGED <<pools, up, config, workers, running, hidden, kept, unsaved, damaged>>
  BY DEF Truncate, memory, history
<1>2. /\ AdminTypeOK /\ IsFiniteSet(workers) /\ IsFiniteSet(running)
      /\ RequestInv(a) /\ ChangeInv(a)
  BY DEF AdminInv
<1>3. client[a].op \in {"add", "remove"}
  BY <1>1, <1>2 DEF RequestInv, Changing
<1>4. client'[a].at = "writing"
  BY <1>1, <1>3, HoldsManager DEF Changing
<1>5. ChangeInv(a)'
  <2>1. CamsOf(workers) = Range(config)
    BY <1>1, <1>2 DEF ChangeInv
  <2>2. CamsOf(workers)' = Range(config)'
    BY <1>1, <2>1 DEF CamsOf
  <2>3. QED
    BY <1>4, <2>2 DEF ChangeInv
<1>6. /\ workers' \subseteq Task /\ running' \subseteq Task
      /\ IsFiniteSet(workers') /\ IsFiniteSet(running')
      /\ \A t, s \in workers' : t.cam = s.cam => t = s
      /\ file' \in Seq(Cameras) /\ config' \in Seq(Cameras)
  BY <1>1, <1>2 DEF AdminTypeOK
<1>7. EveryWorkerListed'
  BY <1>1 DEF AdminInv, EveryWorkerListed
<1>8. QED
  BY <1>1, <1>3, <1>5, <1>6, <1>7, ChangeGoesOn DEF Changing

\* The save is over, done or failed, and the locks are given back.
LEMMA SaveEnds ==
    ASSUME AdminInv, NEW a \in Clients, SaveFails(a) \/ WriteFile(a) \/ WriteFails(a)
    PROVE  AdminInv'
<1>1. /\ client[a].at \in {"saving", "writing"} /\ client' = [client EXCEPT ![a] = Idle]
      /\ UNCHANGED <<pools, up, config, workers, running, hidden>>
  BY DEF SaveFails, WriteFile, WriteFails, Done, memory
<1>2. /\ AdminTypeOK /\ IsFiniteSet(workers) /\ IsFiniteSet(running) /\ OneChange
      /\ ChangeInv(a) /\ \A b \in Clients : RequestInv(b)
      /\ config \in Seq(Cameras) /\ file \in Seq(Cameras) /\ workers \subseteq Task
      /\ kept \subseteq Cameras
  BY DEF AdminInv, AdminTypeOK
<1>3. CamsOf(workers) = Range(config) /\ CamsOf(workers) \subseteq Cameras
  <2>1. CamsOf(workers) \subseteq Cameras
    BY <1>2 DEF CamsOf, Task
  <2>2. QED
    BY <1>1, <1>2, <2>1 DEF ChangeInv
<1>4. /\ client' \in [Clients -> Request] /\ client'[a] = Idle
      /\ \A b \in Clients : b # a => client'[b] = client[b]
      /\ Idle.at = "idle" /\ Idle.op = "none"
  <2>1. Idle.at = "idle" /\ Idle.op = "none"
    BY DEF Idle
  <2>2. QED
    BY <1>1, <1>2, <2>1, ClientSteps, IdleRequest
<1>5. \A b \in Clients : client'[b].at \notin Changing
  <2>1. a \in At(Changing)
    BY <1>1 DEF At, Changing
  <2>2. \A b \in Clients : b # a => client[b].at \notin Changing
    BY <1>2, <2>1 DEF OneChange, At
  <2>3. QED
    BY <1>4, <2>2 DEF Changing
<1>6. \/ /\ file' = file /\ kept' = kept /\ damaged' = damaged /\ unsaved' = TRUE
         /\ client[a].at = "saving"
      \/ file' = config /\ kept' = CamsOf(workers) /\ damaged' = FALSE /\ unsaved' = FALSE
      \/ /\ file' \in Seq(Cameras) /\ kept' = kept /\ damaged' = TRUE /\ unsaved' = TRUE
  <2>1. CASE SaveFails(a)
    BY <2>1 DEF SaveFails
  <2>2. CASE WriteFile(a)
    BY <2>2 DEF WriteFile
  <2>3. CASE WriteFails(a)
    <3>1. PICK n \in 0 .. Len(config) - 1 : file' = SubSeq(config, 1, n)
      BY <2>3 DEF WriteFails
    <3>2. n \in 0 .. Len(config)
      BY <1>2
    <3>3. file' \in Seq(Cameras)
      BY <1>2, <3>1, <3>2, Prefix
    <3>4. QED
      BY <2>3, <3>3 DEF WriteFails
  <2>4. QED
    BY <2>1, <2>2, <2>3
<1>7. AdminTypeOK'
  <2>1. /\ file' \in Seq(Cameras) /\ kept' \subseteq Cameras
        /\ unsaved' \in BOOLEAN /\ damaged' \in BOOLEAN
    BY <1>2, <1>3, <1>6 DEF AdminTypeOK
  <2>2. QED
    BY <1>1, <1>2, <1>4, <2>1 DEF AdminTypeOK, Request, Stage
<1>8. ASSUME NEW b \in Clients PROVE RequestInv(b)' /\ ChangeInv(b)'
  <2>1. RequestInv(b)'
    BY <1>1, <1>2, <1>4 DEF RequestInv, Changing
  <2>2. ChangeInv(b)'
    BY <1>5 DEF ChangeInv, Changing
  <2>3. QED
    BY <2>1, <2>2
<1>9. OneChange'
  BY <1>5 DEF OneChange, At
<1>10. FileFollowsMemory'
  BY <1>1, <1>3, <1>6 DEF FileFollowsMemory, CamsOf
<1>11. FileKept'
  <2>1. CASE client[a].at = "saving" /\ file' = file /\ kept' = kept /\ damaged' = damaged
    <3>1. At({"writing"}) = {}
      <4>1. a \in At(Changing)
        BY <1>1 DEF At, Changing
      <4>2. \A b \in Clients : client[b].at = "writing" => b = a
        BY <1>2, <4>1 DEF OneChange, At, Changing
      <4>3. QED
        BY <2>1, <4>2 DEF At
    <3>2. QED
      BY <2>1, <3>1 DEF AdminInv, FileKept
  <2>2. CASE file' = config /\ kept' = CamsOf(workers)
    BY <1>3, <2>2 DEF FileKept
  <2>3. CASE damaged' = TRUE
    BY <2>3 DEF FileKept
  <2>4. QED
    BY <1>6, <2>1, <2>2, <2>3
<1>12. QED
  BY <1>1, <1>2, <1>7, <1>8, <1>9, <1>10, <1>11 DEF AdminInv, EveryWorkerListed

LEMMA NextAdmin == AdminInv /\ [AdminNext]_adminVars => AdminInv'
<1> SUFFICES ASSUME AdminInv, [AdminNext]_adminVars PROVE AdminInv'
  OBVIOUS
<1>1. CASE Start
  BY <1>1, StartStep
<1>2. CASE Shutdown \/ Kill
  BY <1>2, EndSteps
<1>3. CASE StartKilled \/ (\E t \in running : GiveUp(t)) \/ UNCHANGED adminVars
  BY <1>3, TaskSteps
<1>4. ASSUME NEW a \in Clients, Change(a) PROVE AdminInv'
  BY <1>4, QuietRequests, AddCameraStep, RemoveCameraStep, WaitForConfigStep,
     UpdateConfigStep, TruncateStep, SaveEnds DEF Change
<1>5. ASSUME NEW a \in Clients,
             \/ StatusStep(a) \/ Ask(a, "status", <<>>)
             \/ \E op \in {"add", "remove"}, cam \in Cameras : Ask(a, op, cam)
      PROVE  AdminInv'
  BY <1>5, QuietRequests
<1>6. QED
  BY <1>1, <1>2, <1>3, <1>4, <1>5 DEF AdminNext

LEMMA AdminHolds == AdminSpec => []AdminInv
BY InitAdmin, NextAdmin, PTL DEF AdminSpec

-----------------------------------------------------------------------------
\* Types; among them that the map has one task for each camera (manager.rs).
THEOREM AdminTypeCorrect == AdminSpec => []AdminTypeOK
<1>1. AdminInv => AdminTypeOK
  BY DEF AdminInv
<1>2. QED
  BY <1>1, AdminHolds, PTL

\* Whenever nobody holds the manager's mutex for a change, map and configuration
\* name the same cameras, and so does the file unless the last save failed.
THEOREM FileFollowsMemoryHolds == AdminSpec => []FileFollowsMemory
<1>1. AdminInv => FileFollowsMemory
  BY DEF AdminInv
<1>2. QED
  BY <1>1, AdminHolds, PTL

\* Whatever clients add and remove, a running task is in the manager's map, where
\* it can be removed, or was left out of it when the process started, by a file
\* with one id twice.
THEOREM EveryWorkerListedHolds == AdminSpec => []EveryWorkerListed
<1>1. AdminInv => EveryWorkerListed
  BY DEF AdminInv
<1>2. QED
  BY <1>1, AdminHolds, PTL

\* A started process records what the last saved change left, whatever failed,
\* was killed or happened in memory since, unless the file was left cut.
THEOREM RestartRestoresHolds == AdminSpec => RestartRestores
<1>1. ASSUME AdminInv, Start, ~damaged
      PROVE  CamsOf(running') = kept /\ CamsOf(workers') = kept
  <2>1. At({"writing"}) = {}
    BY <1>1 DEF AdminInv, RequestInv, Start, At
  <2>2. Range(file) = kept /\ file \in Seq(Cameras)
    BY <1>1, <2>1 DEF AdminInv, FileKept, AdminTypeOK
  <2>3. running' = Spawned /\ workers' = Registered
    BY <1>1 DEF Start
  <2>4. CamsOf(Spawned) = kept /\ CamsOf(Registered) = kept
    BY <2>2, SpawnedTasks, RegisteredTasks
  <2>5. QED
    BY <2>3, <2>4 DEF CamsOf
<1>2. AdminInv => [Start /\ ~damaged => CamsOf(running') = kept
                                        /\ CamsOf(workers') = kept]_adminVars
  BY <1>1
<1>3. QED
  BY <1>2, AdminHolds, PTL DEF RestartRestores

-----------------------------------------------------------------------------
\* The tasks in the manager's map run, those that may give up aside.
TasksRun == \A t \in workers : t.cam \notin Limited => t \in running

LEMMA InitTasks == AdminInit => TasksRun
BY DEF AdminInit, TasksRun

\* The manager's own operations, and the tasks that give up.
LEMMA ManagerSteps ==
    ASSUME TasksRun,
           \/ Start \/ Gone \/ \E t \in running : GiveUp(t)
           \/ \E a \in Clients : AddCamera(a) \/ RemoveCamera(a)
    PROVE  TasksRun'
<1>1. CASE Start
  BY <1>1 DEF Start, Registered, TasksRun
<1>2. CASE Gone
  BY <1>2 DEF Gone, TasksRun
<1>3. CASE \E t \in running : GiveUp(t)
  BY <1>3 DEF GiveUp, TasksRun
<1>4. ASSUME NEW a \in Clients, AddCamera(a) PROVE TasksRun'
  <2>1. PICK t : workers' = workers \cup {t} /\ running' = running \cup {t}
    BY <1>4 DEF AddCamera
  <2>2. QED
    BY <2>1 DEF TasksRun
<1>5. ASSUME NEW a \in Clients, RemoveCamera(a) PROVE TasksRun'
  BY <1>5 DEF RemoveCamera, TasksRun
<1>6. QED
  BY <1>1, <1>2, <1>3, <1>4, <1>5

\* What else a request does leaves the map and the tasks alone.
LEMMA OtherSteps ==
    ASSUME NEW a \in Clients,
           \/ Refuse(a) \/ WaitForConfig(a) \/ UpdateConfig(a) \/ SaveFails(a)
           \/ Truncate(a) \/ WriteFile(a) \/ WriteFails(a) \/ StatusStep(a)
           \/ \E op, cam : Ask(a, op, cam)
    PROVE  UNCHANGED <<workers, running>>
BY DEF memory, Refuse, WaitForConfig, UpdateConfig, SaveFails, Truncate, WriteFile, WriteFails,
       StatusStep, TouchManager, ReadConfig, LeaveConfig, Ask

LEMMA NextTasks == TasksRun /\ [AdminNext]_adminVars => TasksRun'
<1> SUFFICES ASSUME TasksRun, [AdminNext]_adminVars PROVE TasksRun'
  OBVIOUS
<1>1. CASE \/ Start \/ Shutdown \/ Kill \/ \E t \in running : GiveUp(t)
           \/ \E a \in Clients : AddCamera(a) \/ RemoveCamera(a)
  BY <1>1, ManagerSteps DEF Shutdown, Kill
<1>2. CASE StartKilled \/ UNCHANGED adminVars
  BY <1>2 DEF StartKilled, adminVars, memory, TasksRun
<1>3. ASSUME NEW a \in Clients,
             \/ Refuse(a) \/ WaitForConfig(a) \/ UpdateConfig(a) \/ SaveFails(a)
             \/ Truncate(a) \/ WriteFile(a) \/ WriteFails(a) \/ StatusStep(a)
             \/ \E op, cam : Ask(a, op, cam)
      PROVE  TasksRun'
  BY <1>3, OtherSteps DEF TasksRun
<1>4. QED
  BY <1>1, <1>2, <1>3 DEF AdminNext, Change

\* Whatever is added, removed, lost or loaded, a camera that list_cameras calls
\* active has a task that runs, or one that may have given up after
\* max_reconnect_attempts.
THEOREM ListedAreActiveHolds == AdminSpec => []ListedAreActive
<1>1. TasksRun => ListedAreActive
  BY DEF TasksRun, ListedAreActive, ListCameras, CamsOf, Worker
<1>2. QED
  BY <1>1, InitTasks, NextTasks, PTL DEF AdminSpec

==============================================================================
