--------------------------- MODULE ChunkPoolProofs ---------------------------
(***************************************************************************)
(* Facts about the scan of a pool file and about opening the pool, for     *)
(* every value of the constants.                                           *)
(***************************************************************************)
EXTENDS ChunkPool, TLAPS, FiniteSetTheorems, WellFoundedInduction

USE DEF Pools, Units, Offsets

\* Among finitely many things one has the greatest number: the set of those
\* with a greater number is minimal for inclusion.
LEMMA GreatestExists ==
    ASSUME NEW S, IsFiniteSet(S), S # {}, NEW f \in [S -> Int]
    PROVE  \E m \in S : \A x \in S : f[x] <= f[m]
<1> DEFINE Above(x) == {y \in S : f[x] < f[y]}
           W == {Above(x) : x \in S}
<1>1. W \subseteq FiniteSubsetsOf(S) /\ W # {}
  <2>1. \A x \in S : Above(x) \in SUBSET S /\ IsFiniteSet(Above(x))
    <3>1. TAKE x \in S
    <3>2. Above(x) \in SUBSET S
      OBVIOUS
    <3>3. QED
      BY <3>2, FS_Subset
  <2>2. \A x \in S : Above(x) \in FiniteSubsetsOf(S)
    BY <2>1 DEF FiniteSubsetsOf
  <2> HIDE DEF Above
  <2>3. QED
    BY <2>2
<1>2. PICK w \in W : \A v \in W : <<v, w>> \notin StrictSubsetOrdering(S)
  <2> HIDE DEF W
  <2>1. QED
    BY <1>1, WFMin, FS_StrictSubsetOrderingWellFounded
<1>3. PICK m \in S : w = Above(m)
  OBVIOUS
<1>4. ASSUME NEW x \in S, f[m] < f[x] PROVE FALSE
  <2>1. Above(x) \subseteq Above(m)
    <3>1. \A y \in S : f[x] < f[y] => f[m] < f[y]
      BY <1>4
    <3>2. QED
      BY <3>1
  <2>2. x \in Above(m) /\ x \notin Above(x)
    BY <1>4
  <2>3. <<Above(x), Above(m)>> \in StrictSubsetOrdering(S)
    BY <2>1, <2>2 DEF StrictSubsetOrdering
  <2>4. QED
    BY <2>3, <1>2, <1>3
<1>5. QED
  BY <1>4

\* A nonempty set of numbers from an interval has a greatest element.
LEMMA GreatestInInterval ==
    ASSUME NEW C \in Int, NEW S \in SUBSET (0 .. C), S # {}
    PROVE  \E m \in S : \A x \in S : x <= m
<1> DEFINE f == [x \in S |-> x]
<1>1. IsFiniteSet(S)
  <2>1. IsFiniteSet(0 .. C)
    BY FS_Interval
  <2>2. QED
    BY <2>1, FS_Subset
<1>2. f \in [S -> Int] /\ \A x \in S : f[x] = x
  OBVIOUS
<1>3. PICK m \in S : \A x \in S : f[x] <= f[m]
  <2> HIDE DEF f
  <2>1. QED
    BY <1>1, <1>2, GreatestExists
<1>4. QED
  BY <1>2, <1>3

-----------------------------------------------------------------------------
\* The scan visits offset 0 and, with a record, the offset behind it.
LEMMA VisitedClosed ==
    ASSUME NEW file \in [Units -> Cell]
    PROVE  /\ Visited(file) \in SUBSET Offsets
           /\ 0 \in Visited(file)
           /\ \A o \in Visited(file) :
                 Scannable(file, o) => o + file[o].rec.size \in Visited(file)
<1>1. Visited(file) \in SUBSET Offsets
  BY DEF Visited
<1>2. 0 \in Visited(file)
  BY PoolAssumption DEF Visited, ClosedUnderScan
<1>3. ASSUME NEW o \in Visited(file), Scannable(file, o)
      PROVE  o + file[o].rec.size \in Visited(file)
  <2>1. file[o].rec \in Record
    BY <1>3 DEF Scannable, Cell
  <2>2. file[o].rec.size \in Nat
    BY <2>1, PoolAssumption DEF Record
  <2>3. o + file[o].rec.size \in Offsets
    BY <2>2, <1>3, PoolAssumption DEF Scannable
  <2>4. ASSUME NEW S \in SUBSET Offsets, ClosedUnderScan(file, S)
        PROVE  o + file[o].rec.size \in S
    <3>1. o \in S
      BY <2>4 DEF Visited
    <3>2. QED
      BY <3>1, <2>4, <1>3 DEF ClosedUnderScan
  <2>5. QED
    BY <2>3, <2>4 DEF Visited
<1>4. QED
  BY <1>1, <1>2, <1>3

\* A record the scan accepts has a size of at least one unit.
LEMMA ScannableSize ==
    ASSUME NEW file \in [Units -> Cell], NEW o, Scannable(file, o)
    PROVE  /\ o \in Units /\ o \in Nat /\ o < Capacity
           /\ file[o].rec \in Record /\ file[o].rec.size \in Nat \ {0}
           /\ o + file[o].rec.size \in Offsets
           /\ o + file[o].rec.size \in Nat /\ o < o + file[o].rec.size
<1>1. o \in Units /\ file[o].rec \in Record
  BY DEF Scannable, Cell
<1>2. file[o].rec.size \in Nat \ {0}
  BY <1>1, PoolAssumption DEF Record
<1>3. o \in Nat /\ o < Capacity /\ o + file[o].rec.size <= Capacity
  BY <1>1, PoolAssumption DEF Scannable
<1>4. QED
  BY <1>1, <1>2, <1>3, PoolAssumption

\* The scan stops at the last offset it visits.
LEMMA ScanEndGreatest ==
    ASSUME NEW file \in [Units -> Cell]
    PROVE  /\ ScanEnd(file) \in Visited(file)
           /\ \A o \in Visited(file) : o <= ScanEnd(file)
<1>1. \E b \in Visited(file) : \A o \in Visited(file) : o <= b
  <2> DEFINE S == Visited(file)
  <2>1. S \in SUBSET (0 .. Capacity) /\ S # {} /\ Capacity \in Int
    BY VisitedClosed, PoolAssumption
  <2> HIDE DEF S
  <2>2. \E b \in S : \A o \in S : o <= b
    BY <2>1, GreatestInInterval
  <2>3. QED
    BY <2>2 DEF S
<1>2. QED
  BY <1>1 DEF ScanEnd

\* The scan of a file stops at an offset inside the file or at its end, and
\* every record it has found ends there or before.
LEMMA ScanEndBound ==
    ASSUME NEW file \in [Units -> Cell]
    PROVE  /\ ScanEnd(file) \in Offsets
           /\ \A o \in RecordOffsets(file) :
                 o + file[o].rec.size <= ScanEnd(file)
BY ScanEndGreatest, VisitedClosed DEF RecordOffsets

\* What is closed under the scan holds everything the scan visits.
LEMMA VisitedLeast ==
    ASSUME NEW file, NEW S \in SUBSET Offsets, ClosedUnderScan(file, S)
    PROVE  Visited(file) \subseteq S
BY DEF Visited

\* The scan goes from record to record: of two visited offsets the smaller one
\* holds a record, which ends at the greater one or before. Both closures argue
\* by what the scan reaches: below y, or from the end of the record at y on.
LEMMA ScanChain ==
    ASSUME NEW file \in [Units -> Cell]
    PROVE  \A x, y \in Visited(file) :
              x < y => Scannable(file, x) /\ x + file[x].rec.size <= y
<1> DEFINE V == Visited(file)
           Behind(x) == x + file[x].rec.size
           Good(y) == \A x \in V : x < y => Scannable(file, x) /\ Behind(x) <= y
           G == {y \in V : Good(y)}
<1>1. /\ V \in SUBSET Offsets /\ 0 \in V
      /\ \A o \in V : Scannable(file, o) => Behind(o) \in V
  BY VisitedClosed
<1>2. \A o \in V : Scannable(file, o) => Behind(o) \in Nat /\ o < Behind(o)
  BY ScannableSize
<1>3. \A o \in V : o \in Nat
  BY <1>1, PoolAssumption
<1> HIDE DEF V, Behind
<1>4. ASSUME NEW y \in G, Scannable(file, y)
      PROVE  Behind(y) \in G
  <2> DEFINE S == {x \in V : x <= y \/ Behind(y) <= x}
  <2>1. y \in V /\ Good(y) /\ y \in Nat /\ Behind(y) \in Nat /\ y < Behind(y)
    BY <1>2, <1>3, <1>4
  <2>2. 0 \in S
    BY <1>1, <2>1
  <2>3. ASSUME NEW x \in S, Scannable(file, x)
        PROVE  Behind(x) \in S
    <3>1. x \in V /\ x \in Nat /\ Behind(x) \in V /\ Behind(x) \in Nat /\ x < Behind(x)
      BY <1>1, <1>2, <1>3, <2>3
    <3>2. CASE x < y
      BY <3>1, <3>2, <2>1
    <3>3. CASE x = y
      BY <3>1, <3>3, <2>1
    <3>4. CASE Behind(y) <= x
      BY <3>1, <3>4, <2>1
    <3>5. QED
      BY <3>1, <3>2, <3>3, <3>4, <2>1
  <2>4. S \in SUBSET Offsets /\ ClosedUnderScan(file, S)
    BY <1>1, <2>2, <2>3 DEF ClosedUnderScan, Behind
  <2>5. V \subseteq S
    BY <2>4, VisitedLeast DEF V
  <2>6. \A x \in V : x < Behind(y) => Scannable(file, x) /\ Behind(x) <= Behind(y)
    <3>1. TAKE x \in V
    <3>2. HAVE x < Behind(y)
    <3>3. x \in Nat /\ x <= y
      BY <1>3, <2>1, <2>5, <3>2
    <3>4. CASE x = y
      BY <3>4, <1>4, <2>1
    <3>5. CASE x < y
      <4>1. Scannable(file, x) /\ Behind(x) <= y
        BY <3>5, <2>1
      <4>2. QED
        BY <4>1, <2>1, <1>2
    <3>6. QED
      BY <3>3, <3>4, <3>5, <2>1
  <2>7. QED
    BY <1>1, <1>4, <2>1, <2>6
<1>5. 0 \in G
  BY <1>1, <1>3
<1>6. G \in SUBSET Offsets /\ ClosedUnderScan(file, G)
  BY <1>1, <1>4, <1>5 DEF ClosedUnderScan, Behind
<1>7. V \subseteq G
  BY <1>6, VisitedLeast DEF V
<1>8. QED
  BY <1>7 DEF V, Behind

\* Records the scan finds do not overlap.
LEMMA ScanDisjoint ==
    ASSUME NEW file \in [Units -> Cell],
           NEW x \in RecordOffsets(file), NEW y \in RecordOffsets(file), x # y
    PROVE  x + file[x].rec.size <= y \/ y + file[y].rec.size <= x
<1>1. x \in Visited(file) /\ y \in Visited(file) /\ x \in Nat /\ y \in Nat
  BY ScannableSize DEF RecordOffsets
<1>2. CASE x < y
  BY <1>1, <1>2, ScanChain
<1>3. CASE y < x
  BY <1>1, <1>3, ScanChain
<1>4. QED
  BY <1>1, <1>2, <1>3

\* Every unit before the end of the scan lies in a record it has found.
LEMMA ScanCover ==
    ASSUME NEW file \in [Units -> Cell], NEW u \in Nat, u < ScanEnd(file)
    PROVE  \E x \in RecordOffsets(file) : x <= u /\ u < x + file[x].rec.size
<1> DEFINE S == {x \in Visited(file) : x <= u}
<1>1. /\ Visited(file) \in SUBSET Offsets /\ 0 \in Visited(file)
      /\ ScanEnd(file) \in Visited(file)
  BY VisitedClosed, ScanEndGreatest
<1>2. PICK m \in S : \A x \in S : x <= m
  <2>1. S \in SUBSET (0 .. Capacity) /\ S # {} /\ Capacity \in Int
    BY <1>1, PoolAssumption
  <2> HIDE DEF S
  <2>2. QED
    BY <2>1, GreatestInInterval
<1>3. m \in Visited(file) /\ m <= u /\ m \in Nat /\ ScanEnd(file) \in Nat
  BY <1>1, PoolAssumption
<1>4. Scannable(file, m)
  BY <1>1, <1>3, ScanChain
<1>5. m + file[m].rec.size \in Visited(file) /\ m < m + file[m].rec.size
  BY <1>3, <1>4, VisitedClosed, ScannableSize
<1>6. u < m + file[m].rec.size
  <2>1. m + file[m].rec.size \in Nat
    BY <1>1, <1>5, PoolAssumption
  <2>2. ~(m + file[m].rec.size <= u)
    BY <1>2, <1>3, <1>5, <2>1
  <2>3. QED
    BY <2>1, <2>2
<1>7. QED
  BY <1>3, <1>4, <1>6 DEF RecordOffsets

\* Offsets up to b that the scan visits stay visited when only units from b on
\* are written.
LEMMA ScanPrefix ==
    ASSUME NEW old \in [Units -> Cell], NEW new \in [Units -> Cell], NEW b \in Offsets,
           \A u \in Units : u < b => new[u] = old[u]
    PROVE  \A x \in Visited(old) : x <= b => x \in Visited(new)
<1> DEFINE T == {x \in Visited(old) : x <= b => x \in Visited(new)}
<1>1. Visited(old) \in SUBSET Offsets /\ 0 \in Visited(old) /\ 0 \in Visited(new)
  BY VisitedClosed
<1>2. ASSUME NEW x \in T, Scannable(old, x)
      PROVE  x + old[x].rec.size \in T
  <2>1. /\ x \in Units /\ x \in Nat /\ old[x].rec.size \in Nat \ {0}
        /\ x + old[x].rec.size \in Visited(old)
    BY <1>2, ScannableSize, VisitedClosed
  <2>2. CASE x + old[x].rec.size <= b
    <3>1. x < b
      BY <2>1, <2>2, PoolAssumption
    <3>2. x \in Visited(new) /\ new[x] = old[x]
      BY <2>1, <3>1, <1>2
    <3>3. Scannable(new, x)
      BY <1>2, <3>2 DEF Scannable
    <3>4. QED
      BY <2>1, <3>2, <3>3, VisitedClosed
  <2>3. CASE ~(x + old[x].rec.size <= b)
    BY <2>1, <2>3
  <2>4. QED
    BY <2>2, <2>3
<1>3. T \in SUBSET Offsets /\ ClosedUnderScan(old, T)
  BY <1>1, <1>2 DEF ClosedUnderScan
<1> HIDE DEF T
<1>4. Visited(old) \subseteq T
  BY <1>3, VisitedLeast
<1>5. QED
  BY <1>4 DEF T

\* Nothing is found in a file nothing was ever written to.
LEMMA ScanBlank == ScanEnd(BlankFile) = 0
<1>1. BlankFile \in [Units -> Cell]
  BY DEF BlankFile, Cell
<1>2. ClosedUnderScan(BlankFile, {0})
  BY DEF ClosedUnderScan, Scannable, BlankFile
<1>3. Visited(BlankFile) = {0}
  <2>1. {0} \in SUBSET Offsets
    BY PoolAssumption
  <2>2. QED
    BY <1>1, <1>2, <2>1, VisitedClosed DEF Visited
<1>4. QED
  BY <1>3 DEF ScanEnd

\* open resumes in one of the pools: among the pool files that exist there is
\* a last one with the greatest pool_id.
LEMMA LastWrittenExists ==
    ASSUME Existing # {}
    PROVE  LastWritten \in Pools
<1> DEFINE id == [p \in Existing |-> ReadPoolHeader(p)]
<1>1. IsFiniteSet(Existing)
  <2>1. IsFiniteSet(0 .. MaxPools - 1)
    BY FS_Interval, PoolAssumption
  <2>2. Existing \in SUBSET (0 .. MaxPools - 1)
    BY DEF Existing
  <2>3. QED
    BY <2>1, <2>2, FS_Subset
<1>2. id \in [Existing -> Int] /\ \A p \in Existing : id[p] = ReadPoolHeader(p)
  BY DEF ReadPoolHeader
<1>3. PICK top \in Existing : \A q \in Existing : id[q] <= id[top]
  <2> HIDE DEF id
  <2>1. QED
    BY <1>1, <1>2, GreatestExists
<1> DEFINE Best == {p \in Existing : id[p] = id[top]}
<1>4. PICK last \in Best : \A p \in Best : p <= last
  <2>1. Best \in SUBSET (0 .. MaxPools - 1) /\ Best # {}
    BY DEF Existing
  <2>2. MaxPools - 1 \in Int
    BY PoolAssumption
  <2> HIDE DEF Best
  <2>3. QED
    BY <2>1, <2>2, GreatestInInterval
<1>5. \A q \in Existing :
        \/ ReadPoolHeader(q) < ReadPoolHeader(last)
        \/ ReadPoolHeader(q) = ReadPoolHeader(last) /\ q <= last
  <2>1. TAKE q \in Existing
  <2>2. id[q] <= id[top] /\ id[last] = id[top]
    BY <1>3
  <2>3. CASE id[q] = id[top]
    <3>1. q \in Best
      BY <2>3
    <3>2. QED
      BY <3>1, <2>2, <2>3, <1>2, <1>4
  <2>4. CASE id[q] < id[top]
    BY <2>4, <2>2, <1>2
  <2>5. QED
    BY <2>2, <2>3, <2>4, <1>2
<1>6. LastWritten \in Existing
  BY <1>4, <1>5 DEF LastWritten
<1>7. QED
  BY <1>6 DEF Existing

==============================================================================
