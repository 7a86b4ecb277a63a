--------------------------- MODULE PartSizingProofs ---------------------------
(***************************************************************************)
(* The cut of a file into parts is right for every file size, every part    *)
(* size a request may ask for and every value of the limits: the ranges tile *)
(* the file, and the parts completion lets through add up to it.            *)
(***************************************************************************)
EXTENDS PartSizing, TLAPS, WellFoundedInduction, FiniteSetTheorems

\* Multiplying by a positive number keeps an order, and can be undone.
LEMMA Times ==
    ASSUME NEW a \in Int, NEW b \in Int, NEW c \in Nat \ {0}
    PROVE  /\ a <= b => c * a <= c * b
           /\ c * a < c * b => a < b
  OBVIOUS

\* ceil_div rounds up, and by less than one.
LEMMA CeilDivRoundsUp ==
    ASSUME NEW a \in Int, NEW b \in Nat \ {0}
    PROVE  /\ CeilDiv(a, b) \in Int
           /\ a <= b * CeilDiv(a, b)
           /\ b * CeilDiv(a, b) < a + b
  BY DEF CeilDiv

\* round_up_to_mib never rounds down, and not past the next multiple.
LEMMA RoundsUpToUnit ==
    ASSUME NEW v \in Nat \ {0}, v <= MaxPartSize
    PROVE  RoundUpToUnit(v) \in v .. MaxPartSize
<1> DEFINE q == CeilDiv(v, Unit)
           k == MaxPartSize \div Unit
<1>1. Unit \in Nat \ {0} /\ MaxPartSize \in Nat \ {0} /\ k \in Int /\ MaxPartSize = Unit * k
  BY SizingAssumption
<1>2. q \in Int /\ v <= Unit * q /\ Unit * q < v + Unit
  <2>1. v \in Int /\ Unit \in Nat \ {0}
    BY <1>1
  <2> QED
    BY <2>1, CeilDivRoundsUp, Zenon
<1> HIDE DEF q, k
<1>3. Unit * q < Unit * (k + 1)
  BY <1>1, <1>2
<1>4. q <= k
  BY <1>1, <1>2, <1>3, Times
<1>5. Unit * q <= Unit * k
  BY <1>1, <1>2, <1>4, Times
<1>6. RoundUpToUnit(v) = Unit * q
  BY <1>1, <1>2 DEF RoundUpToUnit, q
<1> QED
  BY <1>1, <1>2, <1>5, <1>6

\* A part size that needs no more than count parts leaves no more to cut.
LEMMA CountAtMost ==
    ASSUME NEW file \in Nat \ {0}, NEW size \in Nat \ {0}, NEW count \in Nat,
           file <= count * size
    PROVE  PartCount(file, size) <= count
<1> DEFINE q == PartCount(file, size)
<1>1. q \in Int /\ size * q < file + size
  BY CeilDivRoundsUp DEF PartCount
<1> HIDE DEF q
<1>2. size * q < size * (count + 1)
  BY <1>1
<1>3. q < count + 1
  BY <1>1, <1>2, Times
<1> QED
  BY <1>1, <1>3 DEF q

\* Whatever the file, the automatic part size is at least the default one.
LEMMA AutomaticSizeLeast ==
    ASSUME NEW file \in Nat \ {0}
    PROVE  AutomaticSize(file) \in Int /\ MinPartSize <= AutomaticSize(file)
<1> DEFINE least == CeilDiv(file, MaxPartCount)
           v == Larger(DefaultPartSize, Larger(MinPartSize, least))
<1>1. /\ MaxPartCount \in Nat \ {0} /\ Unit \in Nat \ {0}
      /\ DefaultPartSize \in Nat \ {0} /\ MinPartSize \in Nat \ {0}
  BY SizingAssumption
<1>2. least \in Int
  BY <1>1, CeilDivRoundsUp
<1> HIDE DEF least
<1>3. v \in Int /\ MinPartSize <= v
  BY <1>1, <1>2 DEF Larger
<1>4. AutomaticSize(file) = RoundUpToUnit(v)
  BY DEF AutomaticSize, least
<1> HIDE DEF v
<1>5. CeilDiv(v, Unit) \in Int /\ v <= Unit * CeilDiv(v, Unit)
  BY <1>1, <1>3, CeilDivRoundsUp
<1> QED
  BY <1>1, <1>3, <1>4, <1>5 DEF RoundUpToUnit

\* The automatic part size is within the limits and large enough for the file,
\* whenever MaxPartCount parts of MaxPartSize are.
LEMMA AutomaticSizeFits ==
    ASSUME NEW file \in Nat \ {0},
           file <= MaxPartCount * MaxPartSize
    PROVE  /\ AutomaticSize(file) \in MinPartSize .. MaxPartSize
           /\ PartCount(file, AutomaticSize(file)) <= MaxPartCount
<1> DEFINE least == CeilDiv(file, MaxPartCount)
           v == Larger(DefaultPartSize, Larger(MinPartSize, least))
           size == AutomaticSize(file)
<1>1. /\ MaxPartCount \in Nat \ {0} /\ MaxPartSize \in Nat \ {0}
      /\ DefaultPartSize \in Nat \ {0} /\ MinPartSize \in Nat \ {0}
      /\ MinPartSize <= DefaultPartSize /\ DefaultPartSize <= MaxPartSize
  BY SizingAssumption
<1>2. /\ least \in Int
      /\ file <= MaxPartCount * least
      /\ MaxPartCount * least < file + MaxPartCount
  <2>1. file \in Int /\ MaxPartCount \in Nat \ {0}
    BY <1>1
  <2> QED
    BY <2>1, CeilDivRoundsUp, Zenon
<1> HIDE DEF least
<1>3. least <= MaxPartSize
  <2>1. MaxPartCount * least < MaxPartCount * (MaxPartSize + 1)
    BY <1>1, <1>2
  <2> QED
    BY <1>1, <1>2, <2>1, Times
<1>4. /\ v \in Nat \ {0} /\ v <= MaxPartSize
      /\ least <= v /\ DefaultPartSize <= v
  BY <1>1, <1>2, <1>3 DEF Larger
<1>5. size = RoundUpToUnit(v)
  BY DEF AutomaticSize, least
<1> HIDE DEF v, size
<1>6. size \in v .. MaxPartSize
  BY <1>4, <1>5, RoundsUpToUnit
<1>7. size \in Nat \ {0} /\ MinPartSize <= size /\ least <= size
  BY <1>1, <1>2, <1>4, <1>6
<1>8. MaxPartCount * least <= MaxPartCount * size
  BY <1>1, <1>2, <1>7, Times
<1>9. file <= MaxPartCount * size
  BY <1>1, <1>2, <1>7, <1>8
<1>10. PartCount(file, size) <= MaxPartCount
  BY <1>1, <1>7, <1>9, CountAtMost
<1> QED
  BY <1>1, <1>6, <1>7, <1>10 DEF size

\* The number of parts is the least that holds the file.
LEMMA PartCountIsLeast ==
    ASSUME NEW file \in Nat \ {0}, NEW size \in Nat \ {0}
    PROVE  LET count == PartCount(file, size) IN
           /\ count \in Nat \ {0}
           /\ file <= count * size
           /\ (count - 1) * size < file
<1> DEFINE q == PartCount(file, size)
<1>1. q \in Int /\ file <= size * q /\ size * q < file + size
  BY CeilDivRoundsUp DEF PartCount
<1> HIDE DEF q
<1>2. size * 0 < size * q
  BY <1>1
<1>3. 0 < q
  BY <1>1, <1>2, Times
<1> QED
  BY <1>1, <1>3 DEF q

-----------------------------------------------------------------------------
(* The session row: written once, from the sizes of the request.            *)

\* What every reachable session row is: its sizes are those of a request, cut
\* by choose_part_size and get_part_count.
SessionIsCut ==
    /\ session.file \in Nat \ {0}
    /\ session.requested \in Nat
    /\ session.partSize = ChoosePartSize(session.file, session.requested)
    /\ session.partCount = IF Created THEN PartCount(session.file, session.partSize) ELSE 0

LEMMA SessionStaysCut == Spec => []SessionIsCut
<1>1. Init => SessionIsCut
  <2> SUFFICES ASSUME Init PROVE SessionIsCut
    OBVIOUS
  <2>1. PICK file \in FileSizes, requested \in PartSizes \cup {Automatic} :
           LET size == ChoosePartSize(file, requested)
           IN  session = [file |-> file, requested |-> requested, partSize |-> size,
                          partCount |-> IF size = Rejected THEN 0 ELSE PartCount(file, size)]
    BY DEF Init
  <2>2. file \in Nat \ {0} /\ requested \in Nat
    BY SizingAssumption DEF Automatic
  <2> QED
    BY <2>1, <2>2 DEF SessionIsCut, Created
<1>2. SessionIsCut /\ [Next]_vars => SessionIsCut'
  BY DEF SessionIsCut, Created, Next, PutPart, CompleteUpload, vars
<1> QED
  BY <1>1, <1>2, PTL DEF Spec

\* What the row of a created session says of its sizes.
LEMMA CreatedFits ==
    ASSUME SessionIsCut, Created
    PROVE  /\ session.partSize \in MinPartSize .. MaxPartSize
           /\ session.partCount \in 1 .. MaxPartCount
           /\ session.file <= session.partCount * session.partSize
           /\ (session.partCount - 1) * session.partSize < session.file
<1> DEFINE file == session.file
           size == session.partSize
<1>1. file \in Nat \ {0} /\ session.requested \in Nat
  BY DEF SessionIsCut
<1>2. /\ MinPartSize \in Nat \ {0} /\ MaxPartSize \in Nat /\ MaxPartCount \in Nat \ {0}
      /\ DefaultPartSize \in Nat /\ MinPartSize <= DefaultPartSize
      /\ DefaultPartSize <= MaxPartSize
  BY SizingAssumption
<1>3. size = IF session.requested = Automatic THEN AutomaticSize(file) ELSE session.requested
  BY DEF SessionIsCut, Created, ChoosePartSize
<1>4. /\ size <= MaxPartSize /\ PartCount(file, size) <= MaxPartCount
      /\ session.requested # Automatic => size >= MinPartSize
  BY DEF SessionIsCut, Created, ChoosePartSize
<1>5. size \in MinPartSize .. MaxPartSize
  <2>1. CASE session.requested # Automatic
    BY <1>1, <1>2, <1>3, <1>4, <2>1
  <2>2. CASE session.requested = Automatic
    BY <1>1, <1>2, <1>3, <1>4, <2>2, AutomaticSizeLeast
  <2> QED
    BY <2>1, <2>2
<1>6. size \in Nat \ {0}
  BY <1>2, <1>5
<1>7. session.partCount = PartCount(file, size)
  BY DEF SessionIsCut, Created
<1>8. /\ session.partCount \in Nat \ {0}
      /\ file <= session.partCount * size
      /\ (session.partCount - 1) * size < file
  BY <1>1, <1>6, <1>7, PartCountIsLeast
<1> QED
  BY <1>2, <1>4, <1>5, <1>7, <1>8

\* A part before the last is whole; the last is what is left.
LEMMA RangeOfPart ==
    ASSUME NEW file \in Nat \ {0}, NEW size \in Nat \ {0}, NEW count \in Nat \ {0},
           file <= count * size, (count - 1) * size < file, NEW n \in 1 .. count
    PROVE  /\ n < count => OffsetEnd(file, size, n) = n * size
           /\ n = count => OffsetEnd(file, size, n) = file
           /\ ExpectedSize(file, size, n) \in 1 .. size
           /\ n < count => ExpectedSize(file, size, n) = size
<1> DEFINE start == OffsetStart(size, n)
<1>1. start \in Int /\ start = (n - 1) * size /\ start + size = n * size
  BY DEF OffsetStart
<1>2. n * size \in Int /\ (count - 1) * size \in Int /\ count * size \in Int
  OBVIOUS
<1>3. CASE n < count
  <2>1. size * n <= size * (count - 1)
    BY <1>3, Times
  <2>2. n * size < file
    BY <1>2, <2>1
  <2> QED
    BY <1>1, <1>2, <1>3, <2>2 DEF OffsetEnd, ExpectedSize, Smaller
<1>4. CASE n = count
  <2>1. start < file /\ file <= start + size
    BY <1>1, <1>4
  <2> QED
    BY <1>1, <1>4, <2>1 DEF OffsetEnd, ExpectedSize, Smaller
<1> QED
  BY <1>3, <1>4

\* Every part of a created session holds at least one byte.
LEMMA PositiveParts ==
    ASSUME SessionIsCut, Created, NEW n \in Numbers
    PROVE  Expected(n) \in Nat \ {0}
<1> DEFINE file == session.file
           size == session.partSize
           count == session.partCount
<1>1. /\ file \in Nat \ {0} /\ size \in Nat \ {0} /\ count \in Nat \ {0}
      /\ file <= count * size /\ (count - 1) * size < file
  <2>1. MinPartSize \in Nat \ {0} /\ MaxPartSize \in Nat /\ MaxPartCount \in Nat
    BY SizingAssumption
  <2> QED
    BY <2>1, CreatedFits DEF SessionIsCut
<1>2. n \in 1 .. count
  BY DEF Numbers
<1> HIDE DEF file, size, count
<1>3. ExpectedSize(file, size, n) \in 1 .. size
  BY <1>1, <1>2, RangeOfPart
<1> QED
  BY <1>1, <1>3 DEF Expected, file, size

\* For every file, every requested part size and all values of the limits, a
\* session that is created has a part count and part sizes that S3 accepts,
\* and its ranges cut the file without gap or overlap.
THEOREM CutIsRight == Spec => [](PartsWithinLimits /\ RangesTile)
<1>1. SessionIsCut => PartsWithinLimits /\ RangesTile
  <2> SUFFICES ASSUME SessionIsCut, Created PROVE PartsWithinLimits /\ RangesTile
    BY DEF PartsWithinLimits, RangesTile
  <2> DEFINE file == session.file
             size == session.partSize
             count == session.partCount
  <2>1. /\ MinPartSize \in Nat \ {0} /\ MaxPartSize \in Nat
        /\ MaxPartCount \in Nat
    BY SizingAssumption
  <2>2. /\ file \in Nat \ {0} /\ size \in MinPartSize .. MaxPartSize
        /\ count \in 1 .. MaxPartCount
        /\ file <= count * size /\ (count - 1) * size < file
    BY CreatedFits DEF SessionIsCut
  <2>3. size \in Nat \ {0} /\ count \in Nat \ {0}
    BY <2>1, <2>2
  <2>4. ASSUME NEW n \in 1 .. count
        PROVE  /\ n < count => End(n) = n * size
               /\ n = count => End(n) = file
               /\ Expected(n) \in 1 .. size
               /\ n < count => Expected(n) = size
    <3> HIDE DEF file, size, count
    <3>1. /\ n < count => OffsetEnd(file, size, n) = n * size
          /\ n = count => OffsetEnd(file, size, n) = file
          /\ ExpectedSize(file, size, n) \in 1 .. size
          /\ n < count => ExpectedSize(file, size, n) = size
      BY <2>2, <2>3, <2>4, RangeOfPart
    <3> QED
      BY <3>1 DEF End, Expected, file, size
  <2> HIDE DEF file, size, count
  <2>5. PartsWithinLimits
    <3>1. ASSUME NEW n \in 1 .. count
          PROVE  /\ Expected(n) \in 1 .. MaxPartSize
                 /\ n < count => Expected(n) >= MinPartSize
      BY <2>1, <2>2, <2>4
    <3> QED
      BY <2>2, <3>1 DEF PartsWithinLimits, Numbers, count
  <2>6. RangesTile
    <3>1. Start(1) = 0
      BY <2>3 DEF Start, OffsetStart, size
    <3>2. End(count) = file
      BY <2>3, <2>4
    <3>3. ASSUME NEW n \in (1 .. count) \ {count} PROVE Start(n + 1) = End(n)
      <4>1. n \in Int /\ n < count /\ End(n) = n * size
        BY <2>3, <2>4
      <4>2. Start(n + 1) = ((n + 1) - 1) * size
        BY DEF Start, OffsetStart, size
      <4> QED
        BY <2>3, <4>1, <4>2
    <3> QED
      BY <3>1, <3>2, <3>3 DEF RangesTile, Numbers, count, file
  <2> QED
    BY <2>5, <2>6
<1> QED
  BY <1>1, SessionStaysCut, PTL

\* Whatever the limits, a request that leaves the part size to the server is
\* refused only if its file is larger than any cut could hold.
THEOREM RefusedRightly == Spec => []RefusedOnlyIfTooLarge
<1>1. SessionIsCut => RefusedOnlyIfTooLarge
  <2> SUFFICES ASSUME SessionIsCut, session.requested = Automatic,
                      ~(session.file > MaxPartCount * MaxPartSize)
               PROVE  Created
    BY DEF RefusedOnlyIfTooLarge
  <2> DEFINE file == session.file
  <2>1. /\ MinPartSize \in Nat \ {0} /\ MaxPartSize \in Nat \ {0}
        /\ MaxPartCount \in Nat \ {0} /\ MaxPartCount * MaxPartSize \in Nat
    BY SizingAssumption
  <2>2. file \in Nat \ {0} /\ file <= MaxPartCount * MaxPartSize
    BY <2>1 DEF SessionIsCut
  <2>3. /\ AutomaticSize(file) \in MinPartSize .. MaxPartSize
        /\ PartCount(file, AutomaticSize(file)) <= MaxPartCount
    BY <2>2, AutomaticSizeFits
  <2>4. session.partSize = AutomaticSize(file)
    BY <2>1, <2>3 DEF SessionIsCut, ChoosePartSize
  <2> QED
    BY <2>1, <2>3, <2>4 DEF Created, Rejected
<1> QED
  BY <1>1, SessionStaysCut, PTL

-----------------------------------------------------------------------------
(* Sums.  MapThenSumSet is a recursive function on the subsets of a finite   *)
(* set.  That there is such a function, and that it does not matter which    *)
(* element it takes first, is shown by induction on the size of the subset;  *)
(* the induction itself follows from the least element of a set of numbers.  *)

\* A set of natural numbers that is not empty has a least element.
LEMMA LeastElement ==
  ASSUME NEW T \in SUBSET Nat, T # {}
  PROVE  \E x \in T : \A y \in T : x <= y
<1> DEFINE R == OpToRel(<, Nat)
<1>1. IsWellFoundedOn(R, Nat)
  BY NatLessThanWellFounded
<1>2. \A x, y \in Nat : x < y => <<x, y>> \in R
  BY DEF OpToRel
<1> HIDE DEF R
<1>3. PICK x \in T : \A y \in T : <<y, x>> \notin R
  BY <1>1, WFMin
<1>4. ASSUME NEW y \in T PROVE x <= y
  <2>1. x \in Nat /\ y \in Nat
    OBVIOUS
  <2>2. ~(y < x)
    BY <1>2, <1>3, <2>1
  <2> QED
    BY <2>1, <2>2
<1> QED
  BY <1>4

\* A set that has 0 and, with any number, the next one has them all.
LEMMA Induction ==
  ASSUME NEW T \in SUBSET Nat, 0 \in T, \A n \in T : n + 1 \in T
  PROVE  T = Nat
<1> DEFINE U == Nat \ T
<1> SUFFICES ASSUME U # {} PROVE FALSE
  OBVIOUS
<1> HIDE DEF U
<1>1. U \in SUBSET Nat
  BY DEF U
<1>2. PICK x \in U : \A y \in U : x <= y
  BY <1>1, LeastElement
<1>3. x \in Nat \ {0}
  BY <1>2 DEF U
<1>4. x - 1 \in Nat /\ x - 1 \notin U
  BY <1>1, <1>2, <1>3
<1>5. (x - 1) + 1 \in T
  BY <1>4 DEF U
<1> QED
  BY <1>2, <1>3, <1>5 DEF U

\* The element MapThenSumSet takes out of s.
Chosen(s) == CHOOSE x \in s : TRUE

\* it sums f over each of the sets in D.
IsSum(it, f, D) ==
  it = [s \in D |-> IF s = {} THEN 0 ELSE f[Chosen(s)] + it[s \ {Chosen(s)}]]

\* The function MapThenSumSet defines on its way to the sum of f over S.
PartialSum(f, S) == CHOOSE it : IsSum(it, f, SUBSET S)

\* The subsets of a finite set are no larger than it.
LEMMA SubsetSize ==
  ASSUME NEW S, IsFiniteSet(S), NEW s \in SUBSET S
  PROVE  /\ IsFiniteSet(s) /\ Cardinality(s) \in Nat
         /\ s = {} <=> Cardinality(s) = 0
         /\ Cardinality(s) <= Cardinality(S)
  BY FS_Subset, FS_CardinalityType, FS_EmptySet

\* Taking the chosen element out leaves a subset that is smaller by one.
LEMMA WithoutChosen ==
  ASSUME NEW S, IsFiniteSet(S), NEW s \in SUBSET S, s # {}
  PROVE  /\ Chosen(s) \in s
         /\ s \ {Chosen(s)} \in SUBSET S
         /\ Cardinality(s \ {Chosen(s)}) = Cardinality(s) - 1
<1>1. Chosen(s) \in s
  BY DEF Chosen
<1> QED
  BY <1>1, SubsetSize, FS_RemoveElement

\* The recursion of MapThenSumSet defines a function.
LEMMA PartialSumExists ==
  ASSUME NEW f, NEW S, IsFiniteSet(S)
  PROVE  IsSum(PartialSum(f, S), f, SUBSET S)
<1> DEFINE D(n) == {s \in SUBSET S : Cardinality(s) <= n}
           T == {n \in Nat : \E it : IsSum(it, f, D(n))}
<1>2. 0 \in T
  <2> DEFINE g == [s \in D(0) |-> 0]
  <2>1. ASSUME NEW s \in D(0) PROVE s = {}
    BY SubsetSize
  <2>2. IsSum(g, f, D(0))
    BY <2>1 DEF IsSum
  <2> QED
    BY <2>2
<1>3. ASSUME NEW n \in T PROVE n + 1 \in T
  <2>1. PICK g : IsSum(g, f, D(n))
    OBVIOUS
  <2> DEFINE h == [s \in D(n + 1) |->
                      IF s = {} THEN 0 ELSE f[Chosen(s)] + g[s \ {Chosen(s)}]]
  <2>2. n \in Nat
    OBVIOUS
  <2>3. ASSUME NEW s \in D(n + 1), s # {}
        PROVE  s \ {Chosen(s)} \in D(n)
    <3>1. Cardinality(s) \in Nat
      BY SubsetSize
    <3> QED
      BY <2>2, <2>3, <3>1, WithoutChosen
  <2>4. ASSUME NEW t \in D(n) PROVE h[t] = g[t]
    <3>1. t \in D(n + 1)
      <4>1. Cardinality(t) \in Nat
        BY SubsetSize
      <4> QED
        BY <2>2, <4>1
    <3>2. g[t] = IF t = {} THEN 0 ELSE f[Chosen(t)] + g[t \ {Chosen(t)}]
      BY <2>1 DEF IsSum
    <3> QED
      BY <3>1, <3>2
  <2>5. ASSUME NEW s \in D(n + 1)
        PROVE  h[s] = IF s = {} THEN 0 ELSE f[Chosen(s)] + h[s \ {Chosen(s)}]
    <3>1. CASE s = {}
      BY <3>1
    <3>2. CASE s # {}
      <4>1. h[s \ {Chosen(s)}] = g[s \ {Chosen(s)}]
        BY <2>3, <2>4, <3>2
      <4>2. h[s] = f[Chosen(s)] + g[s \ {Chosen(s)}]
        BY <3>2
      <4> QED
        BY <3>2, <4>1, <4>2
    <3> QED
      BY <3>1, <3>2
  <2>6. h = [s \in D(n + 1) |->
                IF s = {} THEN 0 ELSE f[Chosen(s)] + h[s \ {Chosen(s)}]]
    <3> HIDE DEF D
    <3> QED BY <2>5
  <2>7. IsSum(h, f, D(n + 1))
    BY <2>6 DEF IsSum
  <2>8. \E it : IsSum(it, f, D(n + 1))
    BY <2>7
  <2> HIDE DEF D
  <2> QED
    BY <2>2, <2>8
<1>4. T = Nat
  <2>1. T \in SUBSET Nat
    OBVIOUS
  <2> HIDE DEF T
  <2> QED
    BY <1>2, <1>3, <2>1, Induction
<1>5. Cardinality(S) \in T
  BY <1>4, FS_CardinalityType
<1>6. D(Cardinality(S)) = SUBSET S
  BY SubsetSize
<1>7. \E it : IsSum(it, f, SUBSET S)
  BY <1>5, <1>6
<1> QED
  BY <1>7 DEF PartialSum

\* One step of the recursion.
LEMMA SumUnfolds ==
  ASSUME NEW S, IsFiniteSet(S), NEW f, NEW s \in SUBSET S
  PROVE  PartialSum(f, S)[s] =
           IF s = {} THEN 0
           ELSE f[Chosen(s)] + PartialSum(f, S)[s \ {Chosen(s)}]
<1> DEFINE g == PartialSum(f, S)
<1>1. IsSum(g, f, SUBSET S)
  BY PartialSumExists
<1> HIDE DEF g
<1>2. g[s] = IF s = {} THEN 0 ELSE f[Chosen(s)] + g[s \ {Chosen(s)}]
  BY <1>1 DEF IsSum
<1> QED
  BY <1>2 DEF g

\* A sum of integers is an integer.
LEMMA SumIsInteger ==
  ASSUME NEW S, IsFiniteSet(S), NEW f \in [S -> Int]
  PROVE  \A s \in SUBSET S : PartialSum(f, S)[s] \in Int
<1> DEFINE g == PartialSum(f, S)
           T == {n \in Nat : \A s \in SUBSET S : Cardinality(s) <= n => g[s] \in Int}
<1>0. g[{}] = 0
  BY SumUnfolds
<1>1. ASSUME NEW s \in SUBSET S, s # {}
      PROVE  g[s] = f[Chosen(s)] + g[s \ {Chosen(s)}]
  BY <1>1, SumUnfolds
<1> HIDE DEF g
<1>2. 0 \in T
  <2>1. ASSUME NEW s \in SUBSET S, Cardinality(s) <= 0 PROVE g[s] \in Int
    <3>1. s = {}
      BY <2>1, SubsetSize
    <3> QED
      BY <1>0, <3>1
  <2> QED
    BY <2>1
<1>3. ASSUME NEW n \in T PROVE n + 1 \in T
  <2>1. ASSUME NEW s \in SUBSET S, Cardinality(s) <= n + 1 PROVE g[s] \in Int
    <3>1. CASE s = {}
      BY <1>0, <3>1
    <3>2. CASE s # {}
      <4>1. /\ Chosen(s) \in S /\ s \ {Chosen(s)} \in SUBSET S
            /\ Cardinality(s \ {Chosen(s)}) = Cardinality(s) - 1
        BY <3>2, WithoutChosen
      <4>2. Cardinality(s) \in Nat /\ n \in Nat
        BY SubsetSize
      <4>3. g[s \ {Chosen(s)}] \in Int
        BY <2>1, <4>1, <4>2
      <4>4. f[Chosen(s)] \in Int
        BY <4>1
      <4>5. g[s] = f[Chosen(s)] + g[s \ {Chosen(s)}]
        BY <1>1, <3>2
      <4> QED
        BY <4>3, <4>4, <4>5
    <3> QED
      BY <3>1, <3>2
  <2> QED
    BY <2>1
<1>4. T = Nat
  <2>1. T \in SUBSET Nat
    OBVIOUS
  <2> HIDE DEF T
  <2> QED
    BY <1>2, <1>3, <2>1, Induction
<1>5. ASSUME NEW s \in SUBSET S PROVE g[s] \in Int
  <2>1. Cardinality(s) \in T
    BY <1>4, SubsetSize
  <2> QED
    BY <2>1
<1> QED
  BY <1>5 DEF g

\* Whichever element is taken out, a sum is that element and the sum of the rest.
LEMMA SumWithout ==
  ASSUME NEW S, IsFiniteSet(S), NEW f \in [S -> Int]
  PROVE  \A s \in SUBSET S : \A x \in s :
            PartialSum(f, S)[s] = f[x] + PartialSum(f, S)[s \ {x}]
<1> DEFINE g == PartialSum(f, S)
           Splits(t) == \A y \in t : g[t] = f[y] + g[t \ {y}]
           T == {n \in Nat : \A t \in SUBSET S : Cardinality(t) <= n => Splits(t)}
<1>1. ASSUME NEW t \in SUBSET S, t # {}
      PROVE  g[t] = f[Chosen(t)] + g[t \ {Chosen(t)}]
  BY <1>1, SumUnfolds
<1>2. \A t \in SUBSET S : g[t] \in Int
  BY SumIsInteger
<1> HIDE DEF g
<1>3. 0 \in T
  BY SubsetSize
<1>4. ASSUME NEW n \in T PROVE n + 1 \in T
  <2>1. ASSUME NEW t \in SUBSET S, Cardinality(t) <= n + 1, NEW y \in t
        PROVE  g[t] = f[y] + g[t \ {y}]
    <3> DEFINE c == Chosen(t)
    <3>1. /\ c \in t /\ t \ {c} \in SUBSET S
          /\ Cardinality(t \ {c}) = Cardinality(t) - 1
      BY WithoutChosen
    <3>2. g[t] = f[c] + g[t \ {c}]
      BY <1>1
    <3>3. n \in Nat /\ IsFiniteSet(t) /\ Cardinality(t) \in Nat
      BY SubsetSize
    <3> HIDE DEF c
    <3>4. CASE y = c
      BY <3>2, <3>4
    <3>5. CASE y # c
      <4>1. y \in t \ {c} /\ c \in t \ {y} /\ t \ {y} \in SUBSET S
        BY <3>1, <3>5
      <4>2. Cardinality(t \ {y}) = Cardinality(t) - 1
        BY <3>3, FS_RemoveElement
      <4>3. g[t \ {c}] = f[y] + g[(t \ {c}) \ {y}]
        BY <2>1, <3>1, <3>3, <4>1
      <4>4. g[t \ {y}] = f[c] + g[(t \ {y}) \ {c}]
        BY <2>1, <3>3, <4>1, <4>2
      <4> DEFINE u == (t \ {c}) \ {y}
      <4>5. (t \ {y}) \ {c} = u /\ u \in SUBSET S
        OBVIOUS
      <4>6. f[y] \in Int /\ f[c] \in Int /\ g[u] \in Int
        BY <1>2, <3>1, <4>5
      <4>7. g[t] = f[c] + (f[y] + g[u]) /\ g[t \ {y}] = f[c] + g[u]
        BY <3>2, <4>3, <4>4, <4>5
      <4> HIDE DEF u
      <4> QED
        BY <4>6, <4>7
    <3> QED
      BY <3>4, <3>5
  <2> QED
    BY <2>1
<1>5. T = Nat
  <2>1. T \in SUBSET Nat
    OBVIOUS
  <2> HIDE DEF T
  <2> QED
    BY <1>3, <1>4, <2>1, Induction
<1>6. ASSUME NEW s \in SUBSET S PROVE Splits(s)
  <2>1. Cardinality(s) \in T
    BY <1>5, SubsetSize
  <2> QED
    BY <2>1, SubsetSize
<1> QED
  BY <1>6 DEF g

\* The interval up to n + 1 is the one up to n and its last number.
LEMMA IntervalWithoutLast ==
  ASSUME NEW n \in Nat
  PROVE  (1 .. (n + 1)) \ {n + 1} = 1 .. n
<1>1. ASSUME NEW k \in 1 .. n PROVE k \in (1 .. (n + 1)) \ {n + 1}
  OBVIOUS
<1>2. ASSUME NEW k \in (1 .. (n + 1)) \ {n + 1} PROVE k \in 1 .. n
  <2>1. k \in Int /\ 1 <= k /\ k <= n + 1 /\ k # n + 1
    OBVIOUS
  <2> QED
    BY <2>1
<1> QED
  BY <1>1, <1>2

\* Differences of neighbours add up to the difference of the ends.
LEMMA Telescope ==
  ASSUME NEW count \in Nat, NEW f \in [1 .. count -> Int], NEW h \in [0 .. count -> Int],
         \A n \in 1 .. count : f[n] = h[n] - h[n - 1]
  PROVE  PartialSum(f, 1 .. count)[1 .. count] = h[count] - h[0]
<1>0. PICK S : S = 1 .. count
  OBVIOUS
<1> DEFINE g == PartialSum(f, S)
           T == {n \in Nat : n <= count => g[1 .. n] = h[n] - h[0]}
<1>1. IsFiniteSet(S) /\ f \in [S -> Int]
  BY <1>0, FS_Interval
<1>2. \A s \in SUBSET S : \A x \in s : g[s] = f[x] + g[s \ {x}]
  BY <1>1, SumWithout, Zenon
<1>3. g[{}] = 0
  BY <1>1, SumUnfolds
<1> HIDE DEF g
<1>4. 0 \in T
  <2>1. 1 .. 0 = {} /\ h[0] \in Int
    OBVIOUS
  <2> QED
    BY <1>3, <2>1
<1>5. ASSUME NEW n \in T PROVE n + 1 \in T
  <2>1. SUFFICES ASSUME n + 1 <= count PROVE g[1 .. (n + 1)] = h[n + 1] - h[0]
    OBVIOUS
  <2>2. n \in Nat /\ n + 1 \in 1 .. count /\ g[1 .. n] = h[n] - h[0]
    BY <2>1
  <2>3. 1 .. (n + 1) \in SUBSET S /\ n + 1 \in 1 .. (n + 1)
    BY <1>0, <2>2
  <2>4. (1 .. (n + 1)) \ {n + 1} = 1 .. n
    BY <2>2, IntervalWithoutLast
  <2>5. g[1 .. (n + 1)] = f[n + 1] + g[1 .. n]
    BY <1>2, <2>3, <2>4
  <2>6. f[n + 1] = h[n + 1] - h[n]
    <3>1. f[n + 1] = h[n + 1] - h[(n + 1) - 1]
      BY <2>2
    <3> QED
      BY <2>2, <3>1
  <2>7. h[n + 1] \in Int /\ h[n] \in Int /\ h[0] \in Int
    BY <2>2
  <2> QED
    BY <2>2, <2>5, <2>6, <2>7
<1>6. T = Nat
  <2>1. T \in SUBSET Nat
    OBVIOUS
  <2> HIDE DEF T
  <2> QED
    BY <1>4, <1>5, <2>1, Induction
<1>7. g[1 .. count] = h[count] - h[0]
  BY <1>6
<1> QED
  BY <1>0, <1>7 DEF g

-----------------------------------------------------------------------------
(* What storage assembles.                                                  *)

\* Sizes are stored of the parts of the session only, and an assembled object
\* has the size of the file.
AssemblyInv ==
    /\ stored \in [Numbers -> Nat]
    /\ AssembledIsFile

\* Parts of the expected sizes, whatever their number, add up to the file.
LEMMA ExpectedSizesAddUp ==
    ASSUME SessionIsCut, Created, stored \in [Numbers -> Nat], AsExpected
    PROVE  MapThenSumSet(LAMBDA n : stored[n], Numbers) = session.file
<1> DEFINE file == session.file
           size == session.partSize
           count == session.partCount
           h == [n \in 0 .. count |-> IF n = 0 THEN 0 ELSE End(n)]
<1>1. MinPartSize \in Nat \ {0} /\ MaxPartSize \in Nat /\ MaxPartCount \in Nat
  BY SizingAssumption
<1>2. /\ file \in Nat \ {0} /\ size \in MinPartSize .. MaxPartSize
      /\ count \in 1 .. MaxPartCount
      /\ file <= count * size /\ (count - 1) * size < file
  BY CreatedFits DEF SessionIsCut
<1>3. size \in Nat \ {0} /\ count \in Nat \ {0}
  BY <1>1, <1>2
<1>4. ASSUME NEW n \in 1 .. count
      PROVE  /\ n < count => End(n) = n * size
             /\ n = count => End(n) = file
             /\ Expected(n) = End(n) - Start(n)
  <2> HIDE DEF file, size, count
  <2>1. /\ n < count => OffsetEnd(file, size, n) = n * size
        /\ n = count => OffsetEnd(file, size, n) = file
    BY <1>2, <1>3, RangeOfPart
  <2> QED
    BY <2>1 DEF End, Start, Expected, ExpectedSize, file, size
<1>5. ASSUME NEW n \in 1 .. count PROVE Start(n) = (n - 1) * size
  BY DEF Start, OffsetStart
<1> HIDE DEF file, size, count
<1>6. ASSUME NEW n \in 1 .. count
      PROVE  /\ End(n) \in Int
             /\ stored[n] = h[n] - h[n - 1]
  <2>1. n \in Int /\ n - 1 \in 0 .. count /\ n \in 0 .. count
    BY <1>3
  <2>2. End(n) \in Int
    BY <1>2, <1>3, <1>4, <2>1
  <2>3. h[n] = End(n)
    BY <2>1
  <2>4. h[n - 1] = Start(n)
    <3>1. CASE n = 1
      <4>1. Start(n) = 0
        BY <1>3, <1>5, <3>1
      <4> QED
        BY <2>1, <3>1, <4>1
    <3>2. CASE n # 1
      <4>1. n - 1 \in 1 .. count /\ n - 1 < count /\ n - 1 # 0
        BY <1>3, <2>1, <3>2
      <4>2. End(n - 1) = (n - 1) * size
        BY <1>4, <4>1
      <4> QED
        BY <1>5, <2>1, <4>1, <4>2
    <3> QED
      BY <3>1, <3>2
  <2>5. stored[n] = Expected(n)
    BY DEF AsExpected, Numbers, count
  <2> QED
    BY <1>4, <2>2, <2>3, <2>4, <2>5
<1>7. h \in [0 .. count -> Int]
  <2>1. ASSUME NEW n \in 0 .. count PROVE (IF n = 0 THEN 0 ELSE End(n)) \in Int
    <3>1. CASE n = 0
      BY <3>1
    <3>2. CASE n # 0
      <4>1. n \in 1 .. count
        BY <1>3, <3>2
      <4> QED
        BY <1>6, <3>2, <4>1
    <3> QED
      BY <3>1, <3>2
  <2> QED
    BY <2>1
<1>8. h[count] = file /\ h[0] = 0
  BY <1>3, <1>4
<1>9. stored \in [1 .. count -> Int]
  BY DEF Numbers, count
<1> HIDE DEF h
<1>10. PartialSum(stored, 1 .. count)[1 .. count] = h[count] - h[0]
  BY <1>3, <1>6, <1>7, <1>9, Telescope
<1>11. MapThenSumSet(LAMBDA n : stored[n], Numbers) = PartialSum(stored, Numbers)[Numbers]
  BY DEF MapThenSumSet, MapThenFoldSet, PartialSum, IsSum, Chosen
<1>12. MapThenSumSet(LAMBDA n : stored[n], Numbers) = h[count] - h[0]
  BY <1>10, <1>11 DEF Numbers, count
<1> QED
  BY <1>2, <1>8, <1>12 DEF file

\* Whichever parts were sent too short, too long or again, what completion has
\* storage assemble has exactly the size of the file, for any number of parts.
THEOREM AssembledIsAlwaysFile == Spec => []AssembledIsFile
<1>1. Init => AssemblyInv
  BY DEF Init, AssemblyInv, AssembledIsFile
<1>2. SessionIsCut /\ AssemblyInv /\ [Next]_vars => AssemblyInv'
  <2> SUFFICES ASSUME SessionIsCut, AssemblyInv, [Next]_vars PROVE AssemblyInv'
    OBVIOUS
  <2>1. CASE CompleteUpload
    <3>1. assembled' = session.file
      BY <2>1, ExpectedSizesAddUp DEF CompleteUpload, AssemblyInv
    <3> QED
      BY <2>1, <3>1 DEF CompleteUpload, AssemblyInv, AssembledIsFile, Numbers
  <2>2. ASSUME NEW n \in Numbers, PutPart(n) PROVE AssemblyInv'
    <3>1. Created
      <4>1. session.partCount # 0
        BY DEF Numbers
      <4> QED
        BY <4>1 DEF SessionIsCut
    <3>2. Expected(n) \in Nat \ {0}
      BY <3>1, PositiveParts
    <3>3. stored' \in [Numbers -> Nat]
      BY <2>2, <3>2 DEF PutPart, AssemblyInv
    <3> QED
      BY <2>2, <3>3 DEF PutPart, AssemblyInv, AssembledIsFile, Numbers
  <2>3. CASE UNCHANGED vars
    BY <2>3 DEF vars, AssemblyInv, AssembledIsFile, Numbers
  <2> QED
    BY <2>1, <2>2, <2>3 DEF Next
<1>3. AssemblyInv => AssembledIsFile
  BY DEF AssemblyInv
<1> QED
  BY <1>1, <1>2, <1>3, SessionStaysCut, PTL DEF Spec
=============================================================================
