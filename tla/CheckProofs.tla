---------------------------- MODULE CheckProofs -----------------------------
(* Proofs about the checks that come after the matching, for every set of   *)
(* arrays and every number of ranks: the size statistics, the replay count, *)
(* the stall check, the overlap check, the collective check, and the        *)
(* communication graph.                                                     *)
EXTENDS AnomalyCheck, ReplayCheck, StallCheck, OverlapCheck, CollectiveCheck, CommGraph,
        FiniteSetTheorems, FunctionTheorems, WellFoundedInduction, TLAPS

-----------------------------------------------------------------------------
\* An array that arrives is well typed, and one of Arrays.
LEMMA ArrivalTyped ==
  ASSUME Prepare
  PROVE  ATypeOK' /\ Given'
BY DEF Arrays, Prepare, ATypeOK, Given, Positions

\* Before that it is empty.
LEMMA EmptyTyped == AInit => ATypeOK /\ Given
BY DEF AInit, ATypeOK, Given, Positions

\* It stays what it is.
LEMMA StaysTyped ==
  ASSUME ATypeOK, Given, UNCHANGED <<all, used>>
  PROVE  ATypeOK' /\ Given' /\ Positions' = Positions
BY DEF ATypeOK, Given, Positions

\* What the checks count are finite sets of positions.
LEMMA FinitePositions ==
  ASSUME ATypeOK
  PROVE  \A S \in SUBSET Positions : IsFiniteSet(S) /\ Cardinality(S) \in Nat
<1>1. IsFiniteSet(Positions)
  BY FS_Interval DEF ATypeOK, Positions
<1> QED BY <1>1, FS_Subset, FS_CardinalityType

-----------------------------------------------------------------------------
\* The counters of the size statistics stay numbers.
THEOREM AnomalyTypeCorrect == ASpec => []AnomalyTypeOK
<1> DEFINE Inv == ATypeOK /\ Given /\ AnomalyTypeOK
<1>1. AInit /\ AnomalyInit => Inv
  BY EmptyTyped DEF AnomalyInit, AnomalyTypeOK
<1>2. Inv /\ [ANext]_<<all, used, avars>> => Inv'
  <2> SUFFICES ASSUME Inv, [ANext]_<<all, used, avars>> PROVE Inv'
    OBVIOUS
  <2>1. CASE astep = "idle" /\ Prepare /\ UNCHANGED avars
    BY <2>1, ArrivalTyped DEF avars, sums, AnomalyTypeOK
  <2>2. CASE BeginStats \/ AddSize \/ EndSum
    <3>1. ATypeOK' /\ Given'
      BY <2>2, StaysTyped DEF BeginStats, AddSize, EndSum
    <3> QED BY <2>2, <3>1 DEF BeginStats, AddSize, EndSum, sums, AnomalyTypeOK
  <2>3. CASE FlagSizes
    <3>1. ATypeOK' /\ Given'
      BY <2>3, StaysTyped DEF FlagSizes
    <3>2. PICK S \in SUBSET Sends : anomaly_count' = Cardinality(S)
      <4>1. CASE anomaly_count' = 0
        BY <4>1, FS_EmptySet
      <4>2. CASE anomaly_count' # 0
        BY <2>3, <4>2 DEF FlagSizes
      <4> QED BY <4>1, <4>2
    <3>3. anomaly_count' \in Nat
      BY <3>2, FinitePositions DEF Sends
    <3> QED BY <2>3, <3>1, <3>3 DEF FlagSizes, sums, AnomalyTypeOK
  <2>4. CASE UNCHANGED <<all, used, avars>>
    BY <2>4, StaysTyped DEF avars, sums, AnomalyTypeOK
  <2> QED BY <2>1, <2>2, <2>3, <2>4 DEF ANext, AStep
<1> QED BY <1>1, <1>2, PTL DEF ASpec

-----------------------------------------------------------------------------
(* Sends of one size.                                                       *)

\* Products of natural numbers.
LEMMA Products ==
  ASSUME NEW a \in Nat, NEW b \in Nat, NEW c \in Nat
  PROVE  /\ a * b \in Nat /\ a * 0 = 0 /\ a * 1 = a
         /\ a * (b + 1) = a * b + a
         /\ b <= c => a * b <= a * c
OBVIOUS

\* A number that is less is so with the same factor, whose products are natural numbers.
LEMMA Multiples ==
  ASSUME NEW x \in Nat, NEW c \in Nat, NEW n \in Nat, c <= n, NEW b \in Nat, n * x <= b
  PROVE  x * c \in Nat /\ x * c <= b
<1>1. x * c \in Nat /\ n * x \in Nat
  OBVIOUS
<1>2. x * c <= n * x
  OBVIOUS
<1> QED BY <1>1, <1>2

\* A multiple is divided without a rest.
LEMMA DividesEvenly ==
  ASSUME NEW n \in Nat \ {0}, NEW x \in Nat
  PROVE  (x * n) \div n = x /\ (x * n) % n = 0
<1> DEFINE q == (x * n) \div n
           r == (x * n) % n
<1>1. x * n \in Nat
  BY Products
<1>2. q \in Int /\ r \in 0..(n - 1) /\ x * n = n * q + r
  BY <1>1
<1> HIDE DEF q, r
<1>3. n * (x - q) = r
  BY <1>2
<1>4. x - q = 0
  <2>1. x - q \in Int
    BY <1>2
  <2>2. n * (x - q) >= 0 /\ n * (x - q) < n
    BY <1>2, <1>3
  <2>3. CASE x - q >= 1
    <3>1. n * (x - q) >= n
      BY <2>1, <2>3
    <3> QED BY <2>1, <2>2, <3>1
  <2>4. CASE x - q <= -1
    <3>1. n * (x - q) <= -n
      BY <2>1, <2>4
    <3> QED BY <2>1, <2>2, <3>1
  <2> QED BY <2>1, <2>3, <2>4
<1>5. q = x
  BY <1>2, <1>4
<1>6. r = 0
  BY <1>2, <1>3, <1>4
<1> QED BY <1>5, <1>6 DEF q, r

\* What needs no rounding is not rounded.
LEMMA NearestIsExact ==
  ASSUME NEW a \in Nat, a <= Exact, NEW e \in Int
  PROVE  Nearest(a, 1, e) = Double(a, e)
<1>1. a % 1 = 0 /\ a \div 1 = a
  OBVIOUS
<1> QED BY <1>1 DEF Nearest

\* Whole doubles whose sum is one are added exactly.
LEMMA PlusIsExact ==
  ASSUME NEW a \in Nat, NEW b \in Nat, a + b <= Exact
  PROVE  Plus(Double(a, 0), Double(b, 0)) = Double(a + b, 0)
<1>1. Common(Double(a, 0), Double(b, 0)) = 0
  BY DEF Common, Double
<1>2. Units(Double(a, 0), 0) = a /\ Units(Double(b, 0), 0) = b
  BY DEF Units, Double
<1> QED BY <1>1, <1>2, NearestIsExact DEF Plus

\* A whole double is at no distance from itself.
LEMMA NoDifference ==
  ASSUME NEW x \in Nat
  PROVE  Difference(Double(x, 0), Double(x, 0)) = Double(0, 0)
<1>1. ~Greater(Double(x, 0), Double(x, 0))
  BY DEF Greater, Common, Units, Double
<1>2. FromInt(0) = Double(0, 0)
  BY ExactAssumption, NearestIsExact DEF FromInt
<1> QED BY <1>1, <1>2 DEF Difference, Excess

\* The sends the sums have come past.
Past == Sends \cap (1..(ai - 1))

\* What the statistics know: the sends they have counted, and, if all sends have one
\* size, that the sum is so many times the size, and the mean is the size.
UsualInv ==
    /\ astep = "idle" => ai = 1 /\ send_count = 0 /\ sum_size = FromInt(0)
    /\ astep \in {"idle", "sum"} => ai \in 1..(Len(all) + 1) /\ send_count = Cardinality(Past)
    /\ astep # "done" => anomaly_count = 0
    /\ \A x \in Nat : (/\ \A k \in Sends : all[k].nbytes = x
                       /\ Cardinality(Sends) * x <= Exact)
         => /\ astep \in {"idle", "sum"} => sum_size = Double(x * send_count, 0)
            /\ astep = "flag" => mean = Double(x, 0)
            /\ astep = "done" => anomaly_count = 0

\* What holds of nothing.
LEMMA NothingSummed ==
  /\ 1..0 = {} /\ Cardinality({}) = 0 /\ FromInt(0) = Double(0, 0)
  /\ \A x \in Nat : x * 0 = 0
  /\ \A n \in Nat : 1 \in 1..(n + 1)
<1>1. 1..0 = {} /\ (\A x \in Nat : x * 0 = 0) /\ \A n \in Nat : 1 \in 1..(n + 1)
  OBVIOUS
<1>2. FromInt(0) = Double(0, 0)
  BY ExactAssumption, NearestIsExact DEF FromInt
<1> QED BY <1>1, <1>2, FS_EmptySet

\* One size is a double, if the sum of all is.
LEMMA OneSizeIsExact ==
  ASSUME NEW n \in Nat \ {0}, NEW x \in Nat, n * x <= Exact
  PROVE  x <= Exact
<1>1. x * n = n * x /\ x * 1 = x /\ x * 1 <= x * n /\ x * n \in Nat
  BY Products
<1> QED BY <1>1, ExactAssumption

\* Each step of the sum counts the send it comes past, and adds its size without
\* rounding, if all have the same.
LEMMA AddSizeStep ==
  ASSUME ATypeOK, UsualInv, AddSize
  PROVE  UsualInv'
<1>1. /\ astep = "sum" /\ astep' = "sum" /\ all' = all /\ ai \in 1..Len(all) /\ ai' = ai + 1
      /\ anomaly_count' = 0 /\ Len(all) \in Nat /\ send_count = Cardinality(Past)
  BY DEF AddSize, UsualInv, ATypeOK, Positions
<1>2. /\ 1..(ai' - 1) = (1..(ai - 1)) \cup {ai} /\ ai \notin 1..(ai - 1)
      /\ ai' \in 1..(Len(all) + 1)
  BY <1>1
<1>3. Sends' = Sends
  BY <1>1 DEF Sends, Positions
<1>4. IsFiniteSet(Sends) /\ IsFiniteSet(Past) /\ Cardinality(Past) \in Nat /\ Cardinality(Sends) \in Nat
  BY FinitePositions DEF Sends, Past
<1>5. Past' = IF ai \in Sends THEN Past \cup {ai} ELSE Past
  BY <1>2, <1>3 DEF Past
<1>6. send_count' = Cardinality(Past') /\ Cardinality(Past') \in Nat
  <2>1. CASE ai \in Sends
    <3>1. ai \notin Past
      BY <1>2 DEF Past
    <3>2. Past' = Past \cup {ai} /\ send_count' = send_count + 1
      BY <2>1, <1>5 DEF AddSize
    <3>3. Cardinality(Past \cup {ai}) = Cardinality(Past) + 1
      BY <3>1, <1>4, FS_AddElement
    <3> QED BY <3>2, <3>3, <1>1, <1>4
  <2>2. CASE ai \notin Sends
    BY <2>2, <1>1, <1>4, <1>5 DEF AddSize
  <2> QED BY <2>1, <2>2
<1>7. Cardinality(Past') <= Cardinality(Sends)
  <2>1. Past' \subseteq Sends
    BY <1>5 DEF Past
  <2> QED BY <2>1, <1>4, FS_Subset
<1>8. ASSUME NEW x \in Nat, \A k \in Sends : all[k].nbytes = x, Cardinality(Sends) * x <= Exact
      PROVE  sum_size' = Double(x * send_count', 0)
  <2>1. sum_size = Double(x * send_count, 0)
    BY <1>1, <1>8 DEF UsualInv
  <2>2. CASE ai \notin Sends
    BY <2>1, <2>2 DEF AddSize
  <2>3. CASE ai \in Sends
    <3> DEFINE c == send_count
    <3>1. c \in Nat /\ send_count' = c + 1 /\ sum_size' = Plus(sum_size, Size(ai))
      BY <2>3, <1>1, <1>4 DEF AddSize
    <3>2. c + 1 <= Cardinality(Sends)
      BY <3>1, <1>6, <1>7
    <3>3. x * (c + 1) \in Nat /\ x * (c + 1) <= Exact
      <4> HIDE DEF c
      <4>1. Exact \in Nat /\ c + 1 \in Nat
        BY <3>1, ExactAssumption
      <4> QED BY <4>1, <3>2, <1>4, <1>8, Multiples
    <3>4. x * (c + 1) = x * c + x /\ x * c \in Nat
      BY <3>1, Products
    <3>5. Size(ai) = Double(x, 0)
      <4>1. x <= Exact
        BY <3>3, <3>4, ExactAssumption
      <4> QED BY <2>3, <1>8, <4>1, NearestIsExact DEF Size, FromInt
    <3> HIDE DEF c
    <3> QED BY <2>1, <3>1, <3>3, <3>4, <3>5, PlusIsExact DEF c
  <2> QED BY <2>2, <2>3
<1> QED BY <1>1, <1>2, <1>3, <1>6, <1>8 DEF UsualInv

\* The sum is divided by the number of sends without rounding.
LEMMA EndSumStep ==
  ASSUME ATypeOK, UsualInv, EndSum
  PROVE  UsualInv'
<1>1. /\ astep = "sum" /\ all' = all /\ Sends' = Sends /\ anomaly_count' = 0
      /\ astep' = IF send_count > 1 THEN "flag" ELSE "done"
      /\ ai \in 1..(Len(all) + 1) /\ ai \notin 1..Len(all) /\ Len(all) \in Nat
      /\ send_count = Cardinality(Past)
  BY DEF EndSum, UsualInv, ATypeOK, Positions, Sends
<1>2. ai - 1 = Len(all)
  BY <1>1
<1>3. Past = Sends
  BY <1>2 DEF Past, Sends, Positions
<1>4. send_count = Cardinality(Sends) /\ send_count \in Nat
  BY <1>1, <1>3, FinitePositions DEF Sends
<1>5. ASSUME NEW x \in Nat, \A k \in Sends : all[k].nbytes = x, Cardinality(Sends) * x <= Exact,
             send_count > 1
      PROVE  mean' = Double(x, 0)
  <2>1. sum_size = Double(x * send_count, 0)
    BY <1>1, <1>5 DEF UsualInv
  <2>2. mean' = Quotient(sum_size, send_count)
    BY <1>5 DEF EndSum
  <2>3. send_count \in Nat \ {0}
    BY <1>4, <1>5
  <2>4. (x * send_count) \div send_count = x /\ (x * send_count) % send_count = 0
    BY <2>3, DividesEvenly
  <2>5. x <= Exact
    BY <1>4, <1>5, <2>3, OneSizeIsExact
  <2> QED BY <2>1, <2>2, <2>4, <2>5 DEF Quotient, Nearest, Double
<1> QED BY <1>1, <1>5 DEF UsualInv

\* No send is at a distance from the mean that is its size.
LEMMA FlagStep ==
  ASSUME ATypeOK, UsualInv, FlagSizes
  PROVE  UsualInv'
<1>1. astep = "flag" /\ astep' = "done" /\ all' = all /\ Sends' = Sends
  BY DEF FlagSizes, Sends, Positions
<1>2. ASSUME NEW x \in Nat, \A k \in Sends : all[k].nbytes = x, Cardinality(Sends) * x <= Exact
      PROVE  anomaly_count' = 0
  <2>1. mean = Double(x, 0)
    BY <1>1, <1>2 DEF UsualInv
  <2>2. \A k \in Sends : Size(k) = Double(x, 0)
    <3> SUFFICES ASSUME NEW k \in Sends PROVE Size(k) = Double(x, 0)
      OBVIOUS
    <3>1. IsFiniteSet(Sends) /\ Cardinality(Sends) \in Nat
      BY FinitePositions DEF Sends
    <3>2. Cardinality(Sends) # 0
      BY <3>1, FS_EmptySet
    <3>3. x <= Exact
      BY <1>2, <3>1, <3>2, OneSizeIsExact
    <3> QED BY <1>2, <3>3, NearestIsExact DEF Size, FromInt
  <2>3. \A k \in Sends : Distance(k) = Double(0, 0)
    BY <2>1, <2>2, NoDifference DEF Distance
  <2>4. \A k \in Sends : ~Greater(Distance(k), Limit)
    BY <2>3 DEF Greater, Double
  <2>5. {k \in Sends : Greater(Distance(k), Limit)} = {}
    BY <2>4
  <2> QED BY <2>5, FS_EmptySet DEF FlagSizes
<1> QED BY <1>1, <1>2 DEF UsualInv

\* For every array whose sends have one size, whatever that is and however many they
\* are, no send is flagged, as long as their bytes together are a double
\* (detector.c 315-339).
THEOREM EqualSizesUsual == ASpec => []EqualSizesAreUsual
<1> DEFINE Inv == ATypeOK /\ Given /\ UsualInv
<1>1. AInit /\ AnomalyInit => Inv
  <2> SUFFICES ASSUME AInit, AnomalyInit PROVE Inv
    OBVIOUS
  <2>1. ATypeOK /\ Given /\ Len(all) \in Nat
    BY EmptyTyped DEF ATypeOK
  <2>2. /\ ai = 1 /\ send_count = 0 /\ sum_size = FromInt(0) /\ anomaly_count = 0
        /\ astep = "idle"
    BY DEF AnomalyInit
  <2>3. Past = {}
    BY <2>2, NothingSummed DEF Past
  <2> QED BY <2>1, <2>2, <2>3, NothingSummed DEF UsualInv
<1>2. Inv /\ [ANext]_<<all, used, avars>> => Inv'
  <2> SUFFICES ASSUME Inv, [ANext]_<<all, used, avars>> PROVE Inv'
    OBVIOUS
  <2>1. CASE (astep = "idle" /\ Prepare /\ UNCHANGED avars) \/ BeginStats
    <3>1. ATypeOK' /\ Given'
      BY <2>1, ArrivalTyped, StaysTyped DEF BeginStats
    <3>2. Len(all)' \in Nat
      BY <3>1 DEF ATypeOK
    <3>3. /\ ai' = 1 /\ send_count' = 0 /\ sum_size' = FromInt(0) /\ anomaly_count' = 0
          /\ astep' \in {"idle", "sum"}
      BY <2>1 DEF UsualInv, BeginStats, avars, sums
    <3>4. Past' = {}
      BY <3>3, NothingSummed DEF Past
    <3>5. UsualInv'
      BY <3>2, <3>3, <3>4, NothingSummed DEF UsualInv
    <3> QED BY <3>1, <3>5
  <2>2. CASE AddSize \/ EndSum \/ FlagSizes
    <3>1. ATypeOK' /\ Given'
      BY <2>2, StaysTyped DEF AddSize, EndSum, FlagSizes
    <3> QED BY <2>2, <3>1, AddSizeStep, EndSumStep, FlagStep
  <2>3. CASE UNCHANGED <<all, used, avars>>
    <3>1. ATypeOK' /\ Given' /\ Sends' = Sends /\ Past' = Past
      BY <2>3, StaysTyped DEF avars, sums, Sends, Past, Positions
    <3> QED BY <2>3, <3>1 DEF avars, sums, UsualInv
  <2> QED BY <2>1, <2>2, <2>3 DEF ANext, AStep
<1>3. Inv => EqualSizesAreUsual
  <2> SUFFICES ASSUME Inv, astep = "done",
                      \A j, k \in Sends : all[j].nbytes = all[k].nbytes,
                      \A k \in Sends : Cardinality(Sends) * all[k].nbytes <= Exact
               PROVE  anomaly_count = 0
    BY DEF EqualSizesAreUsual
  <2>1. CASE Sends = {}
    <3>1. Cardinality(Sends) * 0 <= Exact
      BY <2>1, FS_EmptySet, ExactAssumption
    <3>2. \A k \in Sends : all[k].nbytes = 0
      BY <2>1
    <3> QED BY <3>1, <3>2 DEF UsualInv
  <2>2. CASE Sends # {}
    <3>1. PICK k \in Sends : TRUE
      BY <2>2
    <3>2. all[k].nbytes \in Nat
      <4>1. \A n \in Positions : all[n] \in Event
        BY DEF ATypeOK, Positions
      <4>2. all[k] \in Event
        BY <3>1, <4>1 DEF Sends
      <4> QED BY <4>2 DEF Event
    <3>3. \A j \in Sends : all[j].nbytes = all[k].nbytes
      BY <3>1
    <3>4. Cardinality(Sends) * all[k].nbytes <= Exact
      BY <3>1
    <3> QED BY <3>2, <3>3, <3>4 DEF UsualInv
  <2> QED BY <2>1, <2>2
<1> QED BY <1>1, <1>2, <1>3, PTL DEF ASpec

-----------------------------------------------------------------------------
\* The stall check counts receives of the array.
THEOREM StallTypeCorrect == TSpec => []StallTypeOK
<1> DEFINE Inv == ATypeOK /\ Given /\ StallTypeOK /\ (tstep = "idle" => stalled = {})
<1>1. AInit /\ TInit => Inv
  BY EmptyTyped DEF TInit, StallTypeOK
<1>2. Inv /\ [TNext]_<<all, used, tvars>> => Inv'
  <2> SUFFICES ASSUME Inv, [TNext]_<<all, used, tvars>> PROVE Inv'
    OBVIOUS
  <2>1. CASE tstep = "idle" /\ Prepare /\ UNCHANGED tvars
    BY <2>1, ArrivalTyped DEF tvars, StallTypeOK
  <2>2. CASE CheckStalls
    <3>1. ATypeOK' /\ Given' /\ Positions' = Positions
      BY <2>2, StaysTyped DEF CheckStalls
    <3>2. stalled' \in SUBSET Positions
      BY <2>2 DEF CheckStalls
    <3>3. timeout_count' \in Nat
      BY <2>2, <3>2, FinitePositions DEF CheckStalls
    <3> QED BY <2>2, <3>1, <3>2, <3>3 DEF CheckStalls, StallTypeOK
  <2>3. CASE UNCHANGED <<all, used, tvars>>
    BY <2>3, StaysTyped DEF tvars, StallTypeOK
  <2> QED BY <2>1, <2>2, <2>3 DEF TNext
<1> QED BY <1>1, <1>2, PTL DEF TSpec

-----------------------------------------------------------------------------
(* Overlaps.                                                                *)

\* Two buffers are taken for overlapping exactly when they share a byte, or one
\* is empty and lies inside of the other.
LEMMA RangesShareBytes ==
  ASSUME NEW a \in Event, NEW b \in Event
  PROVE  HasBuffer(a) /\ HasBuffer(b) /\ RangesMeet(a, b) <=>
            Bytes(a) \cap Bytes(b) # {} \/ EmptyInside(a, b) \/ EmptyInside(b, a)
<1>1. a.buf_addr \in Nat /\ b.buf_addr \in Nat /\ a.nbytes \in Nat /\ b.nbytes \in Nat
  BY DEF Event
<1> DEFINE x == a.buf_addr  y == b.buf_addr  m == a.nbytes  n == b.nbytes
<1>2. ASSUME HasBuffer(a), HasBuffer(b), RangesMeet(a, b)
      PROVE  Bytes(a) \cap Bytes(b) # {} \/ EmptyInside(a, b) \/ EmptyInside(b, a)
  <2>1. x # 0 /\ y # 0 /\ x < y + n /\ y < x + m
    BY <1>2 DEF HasBuffer, RangesMeet
  <2>2. CASE m = 0
    <3>1. x \in y..(y + n - 1) /\ x # y
      BY <1>1, <2>1, <2>2
    <3> QED BY <2>1, <2>2, <3>1 DEF EmptyInside, Bytes, HasBuffer
  <2>3. CASE n = 0
    <3>1. y \in x..(x + m - 1) /\ x # y
      BY <1>1, <2>1, <2>3
    <3> QED BY <2>1, <2>3, <3>1 DEF EmptyInside, Bytes, HasBuffer
  <2>4. CASE m # 0 /\ n # 0
    <3>1. CASE x <= y
      <4>1. y \in x..(x + m - 1) /\ y \in y..(y + n - 1)
        BY <1>1, <2>1, <2>4, <3>1
      <4> QED BY <2>1, <4>1 DEF Bytes, HasBuffer
    <3>2. CASE y <= x
      <4>1. x \in x..(x + m - 1) /\ x \in y..(y + n - 1)
        BY <1>1, <2>1, <2>4, <3>2
      <4> QED BY <2>1, <4>1 DEF Bytes, HasBuffer
    <3> QED BY <1>1, <3>1, <3>2
  <2> QED BY <2>2, <2>3, <2>4
<1>3. ASSUME Bytes(a) \cap Bytes(b) # {}
      PROVE  HasBuffer(a) /\ HasBuffer(b) /\ RangesMeet(a, b)
  <2>1. HasBuffer(a) /\ HasBuffer(b)
    BY <1>3 DEF Bytes
  <2>2. PICK p : p \in x..(x + m - 1) /\ p \in y..(y + n - 1)
    BY <1>3, <2>1 DEF Bytes
  <2>3. x < y + n /\ y < x + m
    BY <1>1, <2>2
  <2> QED BY <2>1, <2>3 DEF RangesMeet
<1>4. ASSUME EmptyInside(a, b)
      PROVE  HasBuffer(a) /\ HasBuffer(b) /\ RangesMeet(a, b)
  <2>1. HasBuffer(b) /\ m = 0 /\ x \in y..(y + n - 1) /\ x # y
    BY <1>4 DEF EmptyInside, Bytes
  <2>2. x # 0 /\ x < y + n /\ y < x + m
    BY <1>1, <2>1
  <2> QED BY <2>1, <2>2 DEF RangesMeet, HasBuffer
<1>5. ASSUME EmptyInside(b, a)
      PROVE  HasBuffer(a) /\ HasBuffer(b) /\ RangesMeet(a, b)
  <2>1. HasBuffer(a) /\ n = 0 /\ y \in x..(x + m - 1) /\ x # y
    BY <1>5 DEF EmptyInside, Bytes
  <2>2. y # 0 /\ x < y + n /\ y < x + m
    BY <1>1, <2>1
  <2> QED BY <2>1, <2>2 DEF RangesMeet, HasBuffer
<1> QED BY <1>2, <1>3, <1>4, <1>5

\* The places of the array that the property counts.
Neighbours ==
    {k \in 1..(Len(all) - 1) :
        /\ all[k].rank = all[k + 1].rank
        /\ \/ Bytes(all[k]) \cap Bytes(all[k + 1]) # {}
           \/ EmptyInside(all[k], all[k + 1]) \/ EmptyInside(all[k + 1], all[k])}

\* Sequence numbers of one rank are one apart exactly at neighbours of the array.
LEMMA PairsAreAdjacent ==
  ASSUME ATypeOK, Given
  PROVE  OverlapPairs = {<<k, k + 1>> : k \in Neighbours}
<1>1. /\ Len(all) \in Nat /\ DOMAIN all = Positions /\ Positions = 1..Len(all)
      /\ \A k \in Positions : all[k] \in Event
  BY DEF ATypeOK, Positions
<1>2. \A k, m \in Positions : all[k].rank = all[m].rank => all[m].seq - all[k].seq = m - k
  <2>1. Numbered(all)
    BY <1>1 DEF Arrays, Given, Gathered, Numbered
  <2> QED BY <2>1, <1>1 DEF Numbered
<1>3. \A k \in Positions : all[k].seq \in Nat
  BY <1>1 DEF Event
<1>4. ASSUME NEW k \in Positions, NEW m \in Positions, k < m, Overlap(all[k], all[m])
      PROVE  m = k + 1 /\ k \in Neighbours
  <2>1. all[k].rank = all[m].rank /\ all[k].seq - all[m].seq \in -1..1
    BY <1>4 DEF Overlap, CloseInSequence
  <2>2. all[m].seq - all[k].seq = m - k
    BY <2>1, <1>2
  <2>3. k \in Int /\ m \in Int /\ all[k].seq \in Int /\ all[m].seq \in Int
    BY <1>1, <1>3
  <2>4. m - k <= 1
    BY <2>1, <2>2, <2>3
  <2>5. m = k + 1
    BY <2>3, <2>4, <1>4
  <2>6. k \in 1..(Len(all) - 1)
    BY <2>5, <1>1
  <2>7. /\ Bytes(all[k]) \cap Bytes(all[m]) # {}
           \/ EmptyInside(all[k], all[m]) \/ EmptyInside(all[m], all[k])
    BY <1>1, <1>4, RangesShareBytes DEF Overlap
  <2> QED BY <2>1, <2>5, <2>6, <2>7 DEF Neighbours
<1>5. ASSUME NEW k \in Neighbours
      PROVE  k \in Positions /\ k + 1 \in Positions /\ k < k + 1 /\ Overlap(all[k], all[k + 1])
  <2>1. k \in Positions /\ k + 1 \in Positions /\ k < k + 1 /\ k \in Int
    BY <1>1 DEF Neighbours
  <2>2. all[k].rank = all[k + 1].rank
    BY DEF Neighbours
  <2>3. all[k + 1].seq - all[k].seq = (k + 1) - k
    BY <2>1, <2>2, <1>2
  <2>4. all[k].seq - all[k + 1].seq = -1
    BY <2>1, <2>3, <1>3
  <2>5. HasBuffer(all[k]) /\ HasBuffer(all[k + 1]) /\ RangesMeet(all[k], all[k + 1])
    BY <2>1, <1>1, RangesShareBytes DEF Neighbours
  <2> QED BY <2>1, <2>2, <2>4, <2>5 DEF Overlap, CloseInSequence
<1>6. ASSUME NEW p \in OverlapPairs PROVE p \in {<<k, k + 1>> : k \in Neighbours}
  <2>1. /\ p = <<p[1], p[2]>> /\ p[1] \in Positions /\ p[2] \in Positions
        /\ p[1] < p[2] /\ Overlap(all[p[1]], all[p[2]])
    BY DEF OverlapPairs
  <2>2. p[2] = p[1] + 1 /\ p[1] \in Neighbours
    BY <2>1, <1>4
  <2> QED BY <2>1, <2>2
<1>7. ASSUME NEW k \in Neighbours PROVE <<k, k + 1>> \in OverlapPairs
  BY <1>5 DEF OverlapPairs
<1> QED BY <1>6, <1>7

\* As many pairs as places.
LEMMA PairsCount ==
  ASSUME ATypeOK, Given
  PROVE  Cardinality(OverlapPairs) = Cardinality(Neighbours) /\ Cardinality(Neighbours) \in Nat
<1> DEFINE f == [k \in Neighbours |-> <<k, k + 1>>]
<1>1. Neighbours \in SUBSET Positions
  BY DEF Neighbours, Positions, ATypeOK
<1>2. IsFiniteSet(Neighbours) /\ Cardinality(Neighbours) \in Nat
  BY <1>1, FinitePositions
<1>3. f \in Bijection(Neighbours, OverlapPairs)
  <2>1. f \in [Neighbours -> OverlapPairs]
    BY PairsAreAdjacent
  <2>2. \A k, m \in Neighbours : f[k] = f[m] => k = m
    OBVIOUS
  <2>3. \A p \in OverlapPairs : \E k \in Neighbours : f[k] = p
    BY PairsAreAdjacent
  <2> HIDE DEF f
  <2> QED BY <2>1, <2>2, <2>3, Fun_IsBij
<1>4. ExistsBijection(Neighbours, OverlapPairs)
  BY <1>3 DEF ExistsBijection
<1> QED BY <1>2, <1>4, FS_Bijection

\* The overlap check has its type, and counts the neighbouring calls of a rank
\* whose buffers meet, for every gathered array.
THEOREM OverlapsExact == OSpec => [](OverlapTypeOK /\ OverlapsAreNeighbours)
<1> DEFINE Inv == ATypeOK /\ Given /\ OverlapTypeOK
                   /\ (ostep = "done" => overlap_count = Cardinality(Neighbours))
<1>1. AInit /\ OInit => Inv
  BY EmptyTyped DEF OInit, OverlapTypeOK
<1>2. Inv /\ [ONext]_<<all, used, ovars>> => Inv'
  <2> SUFFICES ASSUME Inv, [ONext]_<<all, used, ovars>> PROVE Inv'
    OBVIOUS
  <2>1. CASE ostep = "idle" /\ Prepare /\ UNCHANGED ovars
    BY <2>1, ArrivalTyped DEF ovars, OverlapTypeOK
  <2>2. CASE CheckOverlap
    <3>1. ATypeOK' /\ Given'
      BY <2>2, StaysTyped DEF CheckOverlap
    <3>2. overlap_count' = Cardinality(Neighbours) /\ Cardinality(Neighbours) \in Nat
      BY <2>2, PairsCount DEF CheckOverlap
    <3>3. Neighbours' = Neighbours
      BY <2>2 DEF CheckOverlap, Neighbours
    <3> QED BY <2>2, <3>1, <3>2, <3>3 DEF CheckOverlap, OverlapTypeOK
  <2>3. CASE UNCHANGED <<all, used, ovars>>
    <3>1. Neighbours' = Neighbours
      BY <2>3 DEF Neighbours
    <3> QED BY <2>3, <3>1, StaysTyped DEF ovars, OverlapTypeOK
  <2> QED BY <2>1, <2>2, <2>3 DEF ONext
<1>3. Inv => OverlapTypeOK /\ OverlapsAreNeighbours
  BY DEF OverlapsAreNeighbours, Neighbours
<1> QED BY <1>1, <1>2, <1>3, PTL DEF OSpec

-----------------------------------------------------------------------------
(* The communication graph.                                                 *)

NoNegative == \A k \in Drawings : all[k].peer >= 0

\* Drawn pairs are pairs of ranks that fit in the matrix.
InMatrix(src, dest) == src \in 0..(GraphRanks - 1) /\ dest \in 0..(GraphRanks - 1)

\* The edges are right so far, and the matrix holds exactly their cells.
DrawInv ==
    gstep = "draw" /\ NoNegative =>
        /\ GraphIsTopology
        /\ \A n \in DOMAIN edges :
              InMatrix(edges[n][1], edges[n][2]) /\ Cell(edges[n][1], edges[n][2]) \in matrix
        /\ \A c \in matrix : \E n \in DOMAIN edges : c = Cell(edges[n][1], edges[n][2])

GraphInv ==
    /\ ATypeOK /\ Given /\ GraphTypeOK /\ DrawInv
    /\ gstep = "idle" => gi = 1 /\ matrix = {} /\ edges = <<>>

\* A cell belongs to one pair only.
LEMMA CellsDiffer ==
  ASSUME NEW p, NEW q, NEW r, NEW s, InMatrix(p, q), InMatrix(r, s), Cell(p, q) = Cell(r, s)
  PROVE  p = r /\ q = s
<1>1. GraphRanks \in Nat /\ p \in Nat /\ q \in Nat /\ r \in Nat /\ s \in Nat
      /\ q < GraphRanks /\ s < GraphRanks
  BY GraphAssumption DEF InMatrix
<1>2. p * GraphRanks + q = r * GraphRanks + s
  BY DEF Cell
<1>3. ASSUME p < r PROVE FALSE
  <2>1. (p + 1) * GraphRanks <= r * GraphRanks
    BY <1>1, <1>3
  <2>2. (p + 1) * GraphRanks = p * GraphRanks + GraphRanks
    BY <1>1
  <2> QED BY <1>1, <1>2, <2>1, <2>2
<1>4. ASSUME r < p PROVE FALSE
  <2>1. (r + 1) * GraphRanks <= p * GraphRanks
    BY <1>1, <1>4
  <2>2. (r + 1) * GraphRanks = r * GraphRanks + GraphRanks
    BY <1>1
  <2> QED BY <1>1, <1>2, <2>1, <2>2
<1>5. p = r
  BY <1>1, <1>3, <1>4
<1>6. p * GraphRanks \in Int
  BY <1>1
<1> QED BY <1>1, <1>2, <1>5, <1>6

\* What a drawn event is.
LEMMA DrawnFits ==
  ASSUME ATypeOK, Given, NEW k \in Drawings
  PROVE  /\ all[k].rank \in Nat /\ all[k].peer \in Int /\ all[k].tag \in Int
         /\ all[k].peer >= 0 => InMatrix(all[k].rank, all[k].peer)
<1>1. k \in Positions /\ all # <<>> /\ all[k] \in Event /\ k \in DOMAIN all
  BY DEF Drawings, ATypeOK, Positions
<1>2. all[k].rank \in Ranks
  BY <1>1 DEF Arrays, Given, Gathered
<1>3. all[k].rank \in Nat /\ all[k].peer \in Int /\ all[k].tag \in Int
  BY <1>1, <1>2, RanksAssumption DEF Event, Ranks
<1> QED BY <1>3, GraphAssumption DEF Drawings, Drawn, InMatrix

\* An edge that is added leaves the others as they are.
LEMMA EdgeAdded ==
  ASSUME GraphTypeOK, NEW e \in Int \X Int \X Int, edges' = Append(edges, e)
  PROVE  /\ Len(edges) \in Nat /\ DOMAIN edges' = (DOMAIN edges) \cup {Len(edges) + 1}
         /\ Len(edges) + 1 \notin DOMAIN edges /\ edges'[Len(edges) + 1] = e
         /\ \A n \in DOMAIN edges : edges'[n] = edges[n]
         /\ edges' \in Seq(Int \X Int \X Int)
<1> DEFINE T == Int \X Int \X Int
<1>1. edges \in Seq(T) /\ e \in T
  BY DEF GraphTypeOK
<1> HIDE DEF T
<1>2. Len(edges) \in Nat /\ DOMAIN edges = 1..Len(edges)
  BY <1>1
<1>3. edges' \in Seq(T) /\ Len(edges') = Len(edges) + 1
  BY <1>1, <1>2
<1>4. edges'[Len(edges) + 1] = e /\ \A n \in 1..Len(edges) : edges'[n] = edges[n]
  BY <1>1, <1>2
<1>5. DOMAIN edges' = 1..(Len(edges) + 1)
  BY <1>1, <1>2, <1>3
<1> QED BY <1>2, <1>3, <1>4, <1>5 DEF T

\* Drawing an event keeps the invariant.
LEMMA DrawStep ==
  ASSUME GraphInv, Draw
  PROVE  GraphInv'
<1> DEFINE e == all[gi]  c == Cell(e.rank, e.peer)
<1>1. /\ gstep = "draw" /\ gi \in Positions /\ gi' = gi + 1
      /\ UNCHANGED <<all, used, gstep>>
  BY DEF Draw
<1>2. /\ ATypeOK' /\ Given' /\ Positions' = Positions /\ Drawings' = Drawings
      /\ NoNegative' = NoNegative
  BY <1>1, StaysTyped DEF GraphInv, Drawings, NoNegative
<1>3. e \in Event /\ gi \in Nat /\ Len(all) \in Nat /\ gi' \in 1..(Len(all) + 1)
  BY <1>1 DEF GraphInv, ATypeOK, Positions
<1>4. ASSUME ~Drawn(e) PROVE GraphInv'
  <2>1. edges' = edges /\ matrix' = matrix
    BY <1>4 DEF Draw
  <2>2. gi \notin Drawings
    BY <1>4 DEF Drawings
  <2>3. \A k \in Drawings : k < gi' <=> k < gi
    BY <2>2, <1>1, <1>3 DEF Drawings, Positions
  <2>4. GraphTypeOK'
    BY <2>1, <1>1, <1>3 DEF GraphInv, GraphTypeOK
  <2>5. DrawInv'
    BY <2>1, <2>3, <1>1, <1>2 DEF GraphInv, DrawInv, GraphIsTopology, NoNegative, Cell, InMatrix
  <2> QED BY <1>1, <1>2, <2>4, <2>5 DEF GraphInv
<1>5. ASSUME Drawn(e) PROVE GraphInv'
  <2>1. gi \in Drawings
    BY <1>1, <1>5 DEF Drawings
  <2>2. /\ e.rank \in Nat /\ e.peer \in Int /\ e.tag \in Int /\ c \in Int
        /\ e.peer >= 0 => InMatrix(e.rank, e.peer)
    BY <2>1, DrawnFits, GraphAssumption DEF GraphInv, Cell
  <2>3. PICK seen \in MatrixReads(c) :
          IF seen THEN UNCHANGED <<matrix, edges>>
          ELSE edges' = Append(edges, <<e.rank, e.peer, e.tag>>) /\ matrix' = matrix \cup {c}
    BY <1>5 DEF Draw
  <2>4. <<e.rank, e.peer, e.tag>> \in Int \X Int \X Int
    BY <2>2
  <2>5. GraphTypeOK'
    <3>1. edges' \in Seq(Int \X Int \X Int)
      BY <2>3, <2>4, EdgeAdded DEF GraphInv, GraphTypeOK
    <3>2. matrix' \subseteq Int
      BY <2>2, <2>3 DEF GraphInv, GraphTypeOK
    <3>3. gi' \in 1..(Len(all') + 1) /\ gstep' \in {"idle", "draw", "done"}
      BY <1>1, <1>3
    <3> QED BY <3>1, <3>2, <3>3 DEF GraphTypeOK
  <2>6. \A k \in Drawings : k < gi' <=> k < gi \/ k = gi
    BY <1>1, <1>3 DEF Drawings, Positions
  <2>7. ASSUME NoNegative
        PROVE  /\ GraphIsTopology'
               /\ \A n \in DOMAIN edges' :
                     InMatrix(edges'[n][1], edges'[n][2]) /\ Cell(edges'[n][1], edges'[n][2]) \in matrix'
               /\ \A d \in matrix' : \E n \in DOMAIN edges' : d = Cell(edges'[n][1], edges'[n][2])
    <3>1. InMatrix(e.rank, e.peer)
      BY <2>1, <2>2, <2>7 DEF NoNegative
    <3>2. /\ \A k \in Drawings : k < gi =>
                \E n \in DOMAIN edges : edges[n][1] = all[k].rank /\ edges[n][2] = all[k].peer
          /\ \A n \in DOMAIN edges : \E k \in Drawings :
                /\ k < gi /\ edges[n] = <<all[k].rank, all[k].peer, all[k].tag>>
                /\ \A m \in Drawings : m < k => <<all[m].rank, all[m].peer>> # <<all[k].rank, all[k].peer>>
          /\ \A n, m \in DOMAIN edges :
                edges[n][1] = edges[m][1] /\ edges[n][2] = edges[m][2] => n = m
          /\ \A n \in DOMAIN edges :
                InMatrix(edges[n][1], edges[n][2]) /\ Cell(edges[n][1], edges[n][2]) \in matrix
          /\ \A d \in matrix : \E n \in DOMAIN edges : d = Cell(edges[n][1], edges[n][2])
      BY <2>7, <1>1 DEF GraphInv, DrawInv, GraphIsTopology, NoNegative
    <3>3. c >= 0 /\ seen = (c \in matrix)
      <4>1. e.rank * GraphRanks >= 0
        BY <2>2, GraphAssumption
      <4>2. e.rank * GraphRanks \in Int
        BY <2>2, GraphAssumption
      <4>3. c >= 0
        BY <4>1, <4>2, <3>1, <2>2 DEF Cell, InMatrix
      <4> QED BY <4>3, <2>3, <2>2 DEF MatrixReads
    <3>4. CASE c \in matrix
      <4>1. edges' = edges /\ matrix' = matrix
        BY <3>3, <3>4, <2>3
      <4>2. PICK n \in DOMAIN edges : c = Cell(edges[n][1], edges[n][2])
        BY <3>2, <3>4
      <4>3. edges[n][1] = e.rank /\ edges[n][2] = e.peer
        BY <4>2, <3>1, <3>2, CellsDiffer
      <4>4. \A k \in Drawings : k < gi' =>
              \E m \in DOMAIN edges : edges[m][1] = all[k].rank /\ edges[m][2] = all[k].peer
        BY <2>6, <3>2, <4>3
      <4>5. \A k \in Drawings : k < gi => k < gi'
        BY <2>6
      <4>6. GraphIsTopology'
        BY <4>1, <4>4, <4>5, <3>2, <1>1, <1>2 DEF GraphIsTopology
      <4> QED BY <4>1, <4>6, <3>2
    <3>5. CASE c \notin matrix
      <4> DEFINE new == Len(edges) + 1
      <4>1. edges' = Append(edges, <<e.rank, e.peer, e.tag>>) /\ matrix' = matrix \cup {c}
        BY <3>3, <3>5, <2>3
      <4>2. /\ DOMAIN edges' = (DOMAIN edges) \cup {new} /\ new \notin DOMAIN edges
            /\ edges'[new] = <<e.rank, e.peer, e.tag>>
            /\ \A n \in DOMAIN edges : edges'[n] = edges[n]
        BY <4>1, <2>4, EdgeAdded DEF GraphInv
      <4> HIDE DEF new, e, c
      <4>3. edges'[new][1] = e.rank /\ edges'[new][2] = e.peer
        BY <4>2
      <4>4. \A n \in DOMAIN edges : ~(edges[n][1] = e.rank /\ edges[n][2] = e.peer)
        BY <3>2, <3>5 DEF c
      <4>5. \A k \in Drawings : k < gi' =>
              \E n \in DOMAIN edges' : edges'[n][1] = all[k].rank /\ edges'[n][2] = all[k].peer
        <5> SUFFICES ASSUME NEW k \in Drawings, k < gi'
                     PROVE \E n \in DOMAIN edges' :
                             edges'[n][1] = all[k].rank /\ edges'[n][2] = all[k].peer
          OBVIOUS
        <5>1. CASE k = gi
          BY <5>1, <4>2, <4>3 DEF e
        <5>2. CASE k < gi
          BY <5>2, <4>2, <3>2
        <5> QED BY <5>1, <5>2, <2>6
      <4>6. \A n \in DOMAIN edges' : \E k \in Drawings :
              /\ k < gi' /\ edges'[n] = <<all[k].rank, all[k].peer, all[k].tag>>
              /\ \A m \in Drawings : m < k => <<all[m].rank, all[m].peer>> # <<all[k].rank, all[k].peer>>
        <5> SUFFICES ASSUME NEW n \in DOMAIN edges'
                     PROVE \E k \in Drawings :
                       /\ k < gi' /\ edges'[n] = <<all[k].rank, all[k].peer, all[k].tag>>
                       /\ \A m \in Drawings : m < k =>
                             <<all[m].rank, all[m].peer>> # <<all[k].rank, all[k].peer>>
          OBVIOUS
        <5>1. CASE n = new
          <6>1. gi < gi'
            BY <1>1, <1>3
          <6>2. ASSUME NEW m \in Drawings, m < gi, <<all[m].rank, all[m].peer>> = <<e.rank, e.peer>>
                PROVE  FALSE
            <7>1. PICK x \in DOMAIN edges : edges[x][1] = all[m].rank /\ edges[x][2] = all[m].peer
              BY <6>2, <3>2
            <7> QED BY <7>1, <6>2, <4>4
          <6> QED BY <5>1, <6>1, <6>2, <4>2, <2>1 DEF e
        <5>2. CASE n \in DOMAIN edges
          BY <5>2, <4>2, <3>2, <2>6
        <5> QED BY <5>1, <5>2, <4>2
      <4>7. \A n, m \in DOMAIN edges' :
              edges'[n][1] = edges'[m][1] /\ edges'[n][2] = edges'[m][2] => n = m
        BY <4>2, <4>3, <4>4, <3>2
      <4>8. GraphIsTopology'
        BY <4>5, <4>6, <4>7, <1>1, <1>2 DEF GraphIsTopology
      <4>9. \A n \in DOMAIN edges' :
              InMatrix(edges'[n][1], edges'[n][2]) /\ Cell(edges'[n][1], edges'[n][2]) \in matrix'
        BY <4>1, <4>2, <4>3, <3>1, <3>2 DEF c
      <4>10. \A d \in matrix' : \E n \in DOMAIN edges' : d = Cell(edges'[n][1], edges'[n][2])
        BY <4>1, <4>2, <4>3, <3>2 DEF c
      <4> QED BY <4>8, <4>9, <4>10
    <3> QED BY <3>4, <3>5
  <2>8. DrawInv'
    BY <2>7, <1>1, <1>2 DEF DrawInv, InMatrix, Cell
  <2> QED BY <1>1, <1>2, <2>5, <2>8 DEF GraphInv
<1> QED BY <1>4, <1>5

\* Every step of the generation of the graph keeps the invariant.
THEOREM GraphInvariant == GSpec => []GraphInv
<1>1. AInit /\ GInit => GraphInv
  BY EmptyTyped DEF GInit, GraphInv, GraphTypeOK, DrawInv, AInit
<1>2. GraphInv /\ [GNext]_<<all, used, gvars>> => GraphInv'
  <2> SUFFICES ASSUME GraphInv, [GNext]_<<all, used, gvars>> PROVE GraphInv'
    OBVIOUS
  <2>1. CASE gstep = "idle" /\ Prepare /\ UNCHANGED gvars
    <3>1. ATypeOK' /\ Given' /\ Len(all') \in Nat
      BY <2>1, ArrivalTyped DEF ATypeOK
    <3>2. GraphTypeOK'
      BY <2>1, <3>1 DEF GraphInv, GraphTypeOK, gvars
    <3> QED BY <2>1, <3>1, <3>2 DEF GraphInv, DrawInv, gvars
  <2>2. CASE BeginGraph
    <3>1. ATypeOK' /\ Given' /\ Len(all) \in Nat
      BY <2>2, StaysTyped DEF BeginGraph, GraphInv, ATypeOK
    <3>2. GraphTypeOK'
      BY <2>2 DEF BeginGraph, GraphInv, GraphTypeOK
    <3>3. gi' = 1 /\ matrix' = {} /\ edges' = <<>> /\ gstep' # "idle"
      BY <2>2 DEF BeginGraph, GraphInv
    <3>4. Drawings' \subseteq Nat /\ \A k \in Drawings' : ~(k < 1)
      BY <3>1, <2>2 DEF Drawings, Positions, BeginGraph
    <3>5. DrawInv'
      BY <3>3, <3>4 DEF DrawInv, GraphIsTopology
    <3> QED BY <3>1, <3>2, <3>3, <3>5 DEF GraphInv
  <2>3. CASE Draw
    BY <2>3, DrawStep
  <2>4. CASE EndGraph
    <3>1. ATypeOK' /\ Given'
      BY <2>4, StaysTyped DEF EndGraph, GraphInv
    <3> QED BY <2>4, <3>1 DEF EndGraph, GraphInv, GraphTypeOK, DrawInv
  <2>5. CASE UNCHANGED <<all, used, gvars>>
    <3>1. ATypeOK' /\ Given' /\ Drawings' = Drawings
      BY <2>5, StaysTyped DEF GraphInv, Drawings
    <3> QED BY <2>5, <3>1 DEF gvars, GraphInv, GraphTypeOK, DrawInv, GraphIsTopology, NoNegative,
                              InMatrix, Cell
  <2> QED BY <2>1, <2>2, <2>3, <2>4, <2>5 DEF GNext, GStep
<1> QED BY <1>1, <1>2, PTL DEF GSpec

\* The variables of the graph keep their types.
THEOREM GraphTypeCorrect == GSpec => []GraphTypeOK
<1>1. GraphInv => GraphTypeOK
  BY DEF GraphInv
<1> QED BY <1>1, GraphInvariant, PTL

\* For every matrix and every array: the graph has one edge for each pair of
\* ranks that the sends connect, labelled by the first of them.
THEOREM GraphExact == GSpec => []GraphIsTopology
<1>1. GraphInv => GraphIsTopology
  BY DEF GraphInv, DrawInv, GraphIsTopology, NoNegative
<1> QED BY <1>1, GraphInvariant, PTL

-----------------------------------------------------------------------------
(* The replay count is exact.  The invariant says what has been counted     *)
(* before the loop index, and that the marks are the sends that have an     *)
(* equal one, one of the two being before the index.                        *)

Marked(m) ==
    /\ Eligible(m)
    /\ \E k \in Positions : /\ k # m /\ (k < ri \/ m < ri)
                            /\ Eligible(k) /\ SameMessage(k, m)

ReplayBaseOK ==
    /\ all \in Seq(Event)
    /\ used \in [Positions -> BOOLEAN]
    /\ ri \in 1..(Len(all) + 1)
    /\ reported \in [Positions -> BOOLEAN]
    /\ replay_count \in Nat

Checked ==
    /\ ReplayBaseOK
    /\ \A m \in Positions : reported[m] <=> Marked(m)
    /\ replay_count = Cardinality(RepeatsOf(ri))

ReplayInv ==
    /\ ATypeOK
    /\ rstep \in {"idle", "check", "done"}
    /\ rstep = "idle" => ri = 1 /\ replay_count = 0
    /\ rstep # "idle" => Checked
    /\ rstep = "done" => ri = Len(all) + 1


\* The sets of positions are finite.
LEMMA PositionSetsFinite ==
    ASSUME ReplayBaseOK
    PROVE  /\ IsFiniteSet(Positions)
           /\ \A n \in Int : IsFiniteSet(RepeatsOf(n)) /\ IsFiniteSet(Duplicates(n))
<1>1. IsFiniteSet(Positions)
  BY FS_Interval DEF ReplayBaseOK, Positions
<1>2. ASSUME NEW n \in Int PROVE IsFiniteSet(RepeatsOf(n))
  BY <1>1, FS_Subset DEF RepeatsOf
<1>3. ASSUME NEW n \in Int PROVE IsFiniteSet(Duplicates(n))
  <2>1. Duplicates(n) \subseteq (n + 1)..Len(all)  BY DEF Duplicates
  <2>2. IsFiniteSet((n + 1)..Len(all))  BY FS_Interval DEF ReplayBaseOK
  <2>3. QED  BY <2>1, <2>2, FS_Subset
<1>4. QED  BY <1>1, <1>2, <1>3

\* A send that is looked at repeats no counted one, and the sends the inner loop
\* finds are those that repeat it.
LEMMA NewRepeats ==
    ASSUME Checked, ri \in Positions, Eligible(ri), ~reported[ri]
    PROVE  /\ RepeatsOf(ri + 1) = RepeatsOf(ri) \cup Duplicates(ri)
           /\ RepeatsOf(ri) \cap Duplicates(ri) = {}
<1>1. \A m \in Duplicates(ri) : m \in Positions /\ m > ri /\ Eligible(m) /\ SameMessage(ri, m)
  BY DEF Duplicates, Positions, Checked, ReplayBaseOK
<1>2. ASSUME NEW m \in Positions, m > ri, Eligible(m), SameMessage(ri, m)
      PROVE  ~reported[m] /\ m \notin RepeatsOf(ri)
  <2>1. ASSUME NEW k \in Positions, k < ri, Eligible(k), SameMessage(k, m)  PROVE FALSE
    <3>1. SameMessage(k, ri)  BY <1>2, <2>1 DEF SameMessage
    <3>2. Marked(ri)  BY <2>1, <3>1 DEF Marked, Positions
    <3>3. QED  BY <3>2 DEF Checked
  <2>2. m \notin RepeatsOf(ri)
    BY <2>1 DEF RepeatsOf, Positions, Checked, ReplayBaseOK
  <2>3. ~Marked(m)
    BY <1>2, <2>1 DEF Marked, Positions, Checked, ReplayBaseOK
  <2>4. QED  BY <2>2, <2>3, <1>2 DEF Checked
<1>3. ASSUME NEW m \in RepeatsOf(ri + 1), m \notin RepeatsOf(ri)
      PROVE  m \in Duplicates(ri)
  <2>1. PICK k \in 1..((ri + 1) - 1) : k < m /\ Eligible(k) /\ SameMessage(k, m)
    BY <1>3 DEF RepeatsOf
  <2>2. m \in Positions /\ Eligible(m)  BY <1>3 DEF RepeatsOf
  <2>3. k = ri
    BY <1>3, <2>1, <2>2 DEF RepeatsOf, Checked, ReplayBaseOK, Positions
  <2>4. m > ri /\ SameMessage(ri, m)  BY <2>1, <2>2, <2>3 DEF Positions, Checked, ReplayBaseOK
  <2>5. ~reported[m]  BY <1>2, <2>2, <2>4
  <2>6. QED  BY <2>2, <2>4, <2>5 DEF Duplicates, Positions, Checked, ReplayBaseOK
<1>4. Duplicates(ri) \subseteq RepeatsOf(ri + 1)
  BY <1>1 DEF RepeatsOf, Positions, Checked, ReplayBaseOK
<1>5. RepeatsOf(ri) \subseteq RepeatsOf(ri + 1)
  BY DEF RepeatsOf, Positions, Checked, ReplayBaseOK
<1>6. QED  BY <1>1, <1>2, <1>3, <1>4, <1>5

\* An event that is passed over adds no repeats.
LEMMA NoNewRepeats ==
    ASSUME Checked, ri \in Positions, ~Eligible(ri) \/ reported[ri]
    PROVE  RepeatsOf(ri + 1) = RepeatsOf(ri)
<1>1. RepeatsOf(ri) \subseteq RepeatsOf(ri + 1)
  BY DEF RepeatsOf, Positions, Checked, ReplayBaseOK
<1>2. ASSUME NEW m \in RepeatsOf(ri + 1)  PROVE m \in RepeatsOf(ri)
  <2>1. m \in Positions /\ Eligible(m)  BY <1>2 DEF RepeatsOf
  <2>2. PICK k \in 1..((ri + 1) - 1) : k < m /\ Eligible(k) /\ SameMessage(k, m)
    BY <1>2 DEF RepeatsOf
  <2>3. CASE k < ri
    BY <2>1, <2>2, <2>3 DEF RepeatsOf, Positions, Checked, ReplayBaseOK
  <2>4. CASE k = ri
    <3>1. Marked(ri)  BY <2>2, <2>4 DEF Checked
    <3>2. PICK h \in Positions : h # ri /\ h < ri /\ Eligible(h) /\ SameMessage(h, ri)
      BY <3>1 DEF Marked, Positions, Checked, ReplayBaseOK
    <3>3. SameMessage(h, m)  BY <2>2, <2>4, <3>2 DEF SameMessage
    <3>4. h \in 1..(ri - 1) /\ h < m
      BY <2>1, <2>2, <2>4, <3>2 DEF Positions, Checked, ReplayBaseOK
    <3>5. QED  BY <2>1, <3>2, <3>3, <3>4 DEF RepeatsOf
  <2>5. QED  BY <2>2, <2>3, <2>4 DEF Checked, ReplayBaseOK
<1>3. QED  BY <1>1, <1>2

\* Nothing is marked when the check begins.
LEMMA BeginReplayInv == ASSUME ReplayInv, BeginReplay PROVE Checked'
<1> USE DEF BeginReplay
<1>1. all' = all /\ used' = used /\ ri = 1 /\ ri' = 1 /\ replay_count' = 0
      /\ all \in Seq(Event) /\ Len(all) \in Nat
  BY DEF ReplayInv, ATypeOK
<1>2. ReplayBaseOK'  BY <1>1 DEF ReplayInv, ATypeOK, ReplayBaseOK, Positions
<1>3. ASSUME NEW m \in Positions PROVE reported'[m] <=> Marked(m)'
  BY <1>1 DEF Marked, Positions, Eligible, SameMessage
<1>4. RepeatsOf(ri)' = {}  BY <1>1 DEF RepeatsOf
<1>5. replay_count' = Cardinality(RepeatsOf(ri)')  BY <1>1, <1>4, FS_EmptySet
<1>6. Positions' = Positions  BY <1>1 DEF Positions
<1>7. QED  BY <1>2, <1>3, <1>5, <1>6 DEF Checked

\* A send that is looked at marks and counts exactly its new repeats.
LEMMA CheckSendInv == ASSUME Checked, CheckSend PROVE Checked'
<1> USE DEF CheckSend
<1>1. ReplayBaseOK /\ ri \in Positions /\ ri' = ri + 1 /\ all' = all /\ used' = used
  BY DEF Checked
<1>2. IsFiniteSet(RepeatsOf(ri)) /\ IsFiniteSet(Duplicates(ri))
  BY <1>1, PositionSetsFinite DEF ReplayBaseOK
<1>3. Cardinality(RepeatsOf(ri) \cup Duplicates(ri)) = replay_count'
  <2>1. RepeatsOf(ri) \cap Duplicates(ri) = {}  BY NewRepeats
  <2>2. Cardinality(RepeatsOf(ri) \cup Duplicates(ri))
            = Cardinality(RepeatsOf(ri)) + Cardinality(Duplicates(ri))
                - Cardinality(RepeatsOf(ri) \cap Duplicates(ri))
    BY <1>2, FS_Union
  <2>3. Cardinality(RepeatsOf(ri) \cap Duplicates(ri)) = 0  BY <2>1, FS_EmptySet
  <2>4. Cardinality(Duplicates(ri)) \in Nat /\ Cardinality(RepeatsOf(ri)) \in Nat
    BY <1>2, FS_CardinalityType
  <2>5. QED  BY <2>2, <2>3, <2>4 DEF Checked
<1>4. RepeatsOf(ri)' = RepeatsOf(ri + 1)
  BY <1>1 DEF RepeatsOf, Positions, Eligible, SameMessage
<1>5. replay_count' = Cardinality(RepeatsOf(ri)')
  BY <1>3, <1>4, NewRepeats
<1>6. ReplayBaseOK'
  <2>1. replay_count' \in Nat
    BY <1>1, <1>2, FS_CardinalityType DEF ReplayBaseOK
  <2>2. reported' \in [Positions -> BOOLEAN]  BY <1>1 DEF Mark, ReplayBaseOK
  <2>3. ri' \in 1..(Len(all) + 1)  BY <1>1 DEF ReplayBaseOK, Positions
  <2>4. QED  BY <1>1, <2>1, <2>2, <2>3 DEF ReplayBaseOK, Positions
<1>7. ASSUME NEW m \in Positions PROVE reported'[m] <=> Marked(m)'
  <2>1. reported'[m] = (reported[m] \/ m \in Duplicates(ri) \/ (m = ri /\ Duplicates(ri) # {}))
    BY DEF Mark
  <2>2. Marked(m)' <=> /\ Eligible(m)
                       /\ \E k \in Positions : /\ k # m /\ (k < ri + 1 \/ m < ri + 1)
                                               /\ Eligible(k) /\ SameMessage(k, m)
    BY <1>1 DEF Marked, Positions, Eligible, SameMessage
  <2>3. ASSUME reported'[m] PROVE Marked(m)'
    <3>1. CASE reported[m]
      BY <3>1, <2>2, <1>1 DEF Marked, Checked, ReplayBaseOK, Positions
    <3>2. CASE m \in Duplicates(ri)
      BY <3>2, <2>2, <1>1 DEF Duplicates, ReplayBaseOK, Positions
    <3>3. CASE m = ri /\ Duplicates(ri) # {}
      <4>1. PICK d : d \in Duplicates(ri)  BY <3>3
      <4>2. d \in Positions /\ d # ri /\ Eligible(d) /\ SameMessage(d, ri)
        BY <4>1, <1>1 DEF Duplicates, SameMessage, Positions, ReplayBaseOK
      <4>3. QED  BY <4>2, <3>3, <2>2, <1>1 DEF Positions, ReplayBaseOK
    <3>4. QED  BY <2>1, <2>3, <3>1, <3>2, <3>3
  <2>4. ASSUME Marked(m)', ~reported[m] PROVE reported'[m]
    <3>1. PICK k \in Positions : /\ k # m /\ (k < ri + 1 \/ m < ri + 1)
                                 /\ Eligible(k) /\ SameMessage(k, m)
      BY <2>2, <2>4
    <3>2. Eligible(m)  BY <2>2, <2>4
    <3>3. ~(k < ri \/ m < ri)
      BY <3>1, <3>2, <2>4 DEF Marked, Checked
    <3>4. CASE k = ri
      <4>1. m > ri  BY <3>1, <3>3, <3>4, <1>1 DEF Positions, ReplayBaseOK
      <4>2. m \in Duplicates(ri)
        BY <4>1, <3>1, <3>2, <3>4, <2>4, <1>1 DEF Duplicates, Positions, ReplayBaseOK
      <4>3. QED  BY <4>2, <2>1
    <3>5. CASE m = ri
      <4>1. k > ri  BY <3>1, <3>3, <3>5, <1>1 DEF Positions, ReplayBaseOK
      <4>2. SameMessage(ri, k)  BY <3>1, <3>5 DEF SameMessage
      <4>3. ~reported[k]
        <5>1. SUFFICES ASSUME Marked(k) PROVE FALSE  BY DEF Checked
        <5>2. PICK h \in Positions : /\ h # k /\ (h < ri \/ k < ri)
                                     /\ Eligible(h) /\ SameMessage(h, k)
          BY <5>1 DEF Marked
        <5>3. h < ri  BY <5>2, <4>1, <1>1 DEF Positions, ReplayBaseOK
        <5>4. SameMessage(h, ri)  BY <5>2, <4>2 DEF SameMessage
        <5>5. Marked(ri)  BY <5>2, <5>3, <5>4, <1>1 DEF Marked, Positions, ReplayBaseOK
        <5>6. QED  BY <5>5 DEF Checked
      <4>4. k \in Duplicates(ri)
        BY <4>1, <4>2, <4>3, <3>1, <1>1 DEF Duplicates, Positions, ReplayBaseOK
      <4>5. QED  BY <4>4, <3>5, <2>1
    <3>6. QED  BY <3>1, <3>3, <3>4, <3>5, <1>1 DEF Positions, ReplayBaseOK
  <2>5. QED  BY <2>1, <2>3, <2>4
<1>8. Positions' = Positions  BY <1>1 DEF Positions
<1>9. QED  BY <1>5, <1>6, <1>7, <1>8 DEF Checked

\* A send that is passed over has no repeat that is not marked.
LEMMA SkipSendInv == ASSUME Checked, SkipSend PROVE Checked'
<1> USE DEF SkipSend
<1>1. ReplayBaseOK /\ ri \in Positions /\ ri' = ri + 1 /\ all' = all /\ used' = used
      /\ reported' = reported /\ replay_count' = replay_count
  BY DEF Checked
<1>2. ReplayBaseOK'  BY <1>1 DEF ReplayBaseOK, Positions
<1>3. RepeatsOf(ri)' = RepeatsOf(ri + 1)
  BY <1>1 DEF RepeatsOf, Positions, Eligible, SameMessage
<1>4. replay_count' = Cardinality(RepeatsOf(ri)')
  BY <1>1, <1>3, NoNewRepeats DEF Checked
<1>5. ASSUME NEW m \in Positions PROVE reported'[m] <=> Marked(m)'
  <2>1. Marked(m)' <=> /\ Eligible(m)
                       /\ \E k \in Positions : /\ k # m /\ (k < ri + 1 \/ m < ri + 1)
                                               /\ Eligible(k) /\ SameMessage(k, m)
    BY <1>1 DEF Marked, Positions, Eligible, SameMessage
  <2>2. Marked(m) => Marked(m)'
    BY <2>1, <1>1 DEF Marked, Positions, ReplayBaseOK
  <2>3. ASSUME Marked(m)' PROVE Marked(m)
    <3>1. PICK k \in Positions : /\ k # m /\ (k < ri + 1 \/ m < ri + 1)
                                 /\ Eligible(k) /\ SameMessage(k, m)
      BY <2>1, <2>3
    <3>2. Eligible(m)  BY <2>1, <2>3
    <3>3. CASE k < ri \/ m < ri
      BY <3>1, <3>2, <3>3 DEF Marked
    <3>4. CASE k = ri \/ m = ri
      <4>1. Marked(ri)  BY <3>1, <3>2, <3>4 DEF Checked
      <4>2. PICK h \in Positions : h < ri /\ Eligible(h) /\ SameMessage(h, ri)
        BY <4>1, <1>1 DEF Marked, Positions, ReplayBaseOK
      <4>3. SameMessage(h, m)  BY <4>2, <3>1, <3>4 DEF SameMessage
      <4>4. CASE h # m  BY <4>2, <4>3, <4>4, <3>2 DEF Marked
      <4>5. CASE h = m  BY <4>2, <4>5, <3>1, <3>2 DEF Marked
      <4>6. QED  BY <4>4, <4>5
    <3>5. QED  BY <3>1, <3>3, <3>4, <1>1 DEF Positions, ReplayBaseOK
  <2>4. QED  BY <1>1, <2>2, <2>3 DEF Checked
<1>6. Positions' = Positions  BY <1>1 DEF Positions
<1>7. QED  BY <1>2, <1>4, <1>5, <1>6 DEF Checked

\* What the invariant says of the marks depends on the checked state only.
LEMMA CheckedUnchanged ==
    ASSUME Checked, UNCHANGED <<all, used, ri, reported, replay_count>>
    PROVE  Checked'
<1>1. Positions' = Positions /\ ReplayBaseOK'
  BY DEF Checked, ReplayBaseOK, Positions
<1>2. ASSUME NEW m \in Positions PROVE Marked(m)' <=> Marked(m)
  BY <1>1 DEF Marked, Eligible, SameMessage
<1>3. RepeatsOf(ri)' = RepeatsOf(ri)
  BY <1>1 DEF RepeatsOf, Eligible, SameMessage
<1> QED BY <1>1, <1>2, <1>3 DEF Checked

\* What has been counted and marked, at every index of the outer loop.
THEOREM ReplayInvariant == RSpec => []ReplayInv
<1>1. AInit /\ RInit => ReplayInv
  BY DEF AInit, RInit, ReplayInv, ATypeOK, Positions
<1>2. ASSUME ReplayInv, [RNext]_<<all, used, rvars>> PROVE ReplayInv'
  <2>1. CASE rstep = "idle" /\ Prepare /\ UNCHANGED rvars
    <3>1. ATypeOK'  BY <2>1 DEF Arrays, Prepare, ATypeOK, Positions
    <3>2. QED  BY <1>2, <2>1, <3>1 DEF ReplayInv, rvars
  <2>2. CASE BeginReplay
    BY <1>2, <2>2, BeginReplayInv DEF ReplayInv, ATypeOK, BeginReplay, Positions
  <2>3. CASE CheckSend
    BY <1>2, <2>3, CheckSendInv DEF ReplayInv, ATypeOK, CheckSend, Positions
  <2>4. CASE SkipSend
    BY <1>2, <2>4, SkipSendInv DEF ReplayInv, ATypeOK, SkipSend, Positions
  <2>5. CASE EndReplay
    <3>1. Checked /\ Checked' /\ all' = all /\ used' = used /\ ri' = ri
      BY <1>2, <2>5, CheckedUnchanged DEF ReplayInv, EndReplay
    <3>2. ri = Len(all) + 1
      BY <2>5, <3>1 DEF EndReplay, Checked, ReplayBaseOK
    <3>3. QED  BY <1>2, <2>5, <3>1, <3>2 DEF ReplayInv, ATypeOK, EndReplay, Positions
  <2>6. CASE UNCHANGED <<all, used, rvars>>
    BY <1>2, <2>6, CheckedUnchanged DEF ReplayInv, ATypeOK, rvars, Positions
  <2>7. QED  BY <1>2, <2>1, <2>2, <2>3, <2>4, <2>5, <2>6 DEF RNext, RStep
<1>3. QED  BY <1>1, <1>2, PTL DEF RSpec

\* The count of duplicates is a number of sends that carry data (detector.c 361-385).
THEOREM ReplayTypeCorrect == RSpec => []RTypeOK
<1>1. ReplayInv => RTypeOK
  <2> SUFFICES ASSUME ReplayInv PROVE RTypeOK  OBVIOUS
  <2> DEFINE sends == {m \in Positions : Eligible(m)}
  <2>1. Len(all) \in Nat  BY DEF ReplayInv, ATypeOK
  <2>2. IsFiniteSet(sends)
    <3>1. IsFiniteSet(1..Len(all))  BY <2>1, FS_Interval
    <3>2. sends \subseteq 1..Len(all)  BY DEF Positions
    <3>3. QED  BY <3>1, <3>2, FS_Subset
  <2>3. Cardinality(sends) \in Nat  BY <2>2, FS_CardinalityType
  <2>4. CASE rstep = "idle"
    <3>1. replay_count \in 0..Cardinality(sends)  BY <2>3, <2>4 DEF ReplayInv
    <3>2. QED  BY <3>1, <2>1, <2>4 DEF ReplayInv, RTypeOK
  <2>5. CASE rstep # "idle"
    <3>1. RepeatsOf(ri) \subseteq sends  BY DEF RepeatsOf
    <3>2. /\ Cardinality(RepeatsOf(ri)) <= Cardinality(sends)
          /\ Cardinality(RepeatsOf(ri)) \in Nat
      BY <2>2, <3>1, FS_Subset, FS_CardinalityType
    <3>3. replay_count \in 0..Cardinality(sends)
      BY <2>3, <2>5, <3>2 DEF ReplayInv, Checked
    <3>4. QED  BY <2>5, <3>3 DEF ReplayInv, Checked, ReplayBaseOK, RTypeOK
  <2>6. QED  BY <2>4, <2>5
<1>2. QED  BY ReplayInvariant, <1>1, PTL

\* Every send that repeats an earlier one is counted once, for every array.
THEOREM CountIsRepeats == RSpec => []ReplayCountIsRepeats
<1>1. ReplayInv => ReplayCountIsRepeats  BY DEF ReplayInv, Checked, ReplayCountIsRepeats
<1>2. QED  BY ReplayInvariant, <1>1, PTL

-----------------------------------------------------------------------------
(* The collective check.  What the comparison reads are the segments that    *)
(* the scan has found; the argument is that the events of a rank stand      *)
(* together, so that a change of rank is always the first event of the new  *)
(* one.                                                                     *)

\* While the scan runs, the segments hold the events that it has passed.
ScanInv ==
    /\ cstep = "idle" =>
        ref = {} /\ ci = 1 /\ current_rank = -1 /\ counts = [q \in Ranks |-> 0]
    /\ cstep = "scan" =>
        /\ ci \in 1..(Len(all) + 1)
        /\ current_rank = IF ci = 1 THEN -1 ELSE all[ci - 1].rank
        /\ \A q \in Ranks : Segment(q) = {k \in DOMAIN all : k < ci /\ all[k].rank = q}
    /\ SegmentsExact

CollectiveInv == CTypeOK /\ Given /\ ScanInv

-----------------------------------------------------------------------------
\* Nothing is scanned at first.
LEMMA CInitInv == AInit /\ CInit => CollectiveInv
<1> SUFFICES ASSUME AInit, CInit PROVE CollectiveInv
  OBVIOUS
<1>1. CTypeOK
  BY RanksAssumption DEF AInit, CInit, ATypeOK, CTypeOK, Positions
<1> QED BY <1>1 DEF AInit, Given, CInit, CollectiveInv, ScanInv, SegmentsExact

\* The array that the check is given is one of Arrays: grouped, with ranks.
LEMMA PrepareStep ==
  ASSUME CollectiveInv, cstep = "idle", Prepare, UNCHANGED cvars
  PROVE  CollectiveInv'
<1>1. ATypeOK' /\ Given'
  BY DEF Arrays, Prepare, ATypeOK, Given, Positions
<1>2. ref' \subseteq DOMAIN all'
  BY DEF CollectiveInv, ScanInv, cvars
<1>3. CTypeOK'
  BY <1>1, <1>2 DEF CollectiveInv, CTypeOK, cvars
<1> QED BY <1>1, <1>3 DEF CollectiveInv, ScanInv, SegmentsExact, cvars

\* The segments are empty when the scan begins.
LEMMA BeginStep ==
  ASSUME CollectiveInv, BeginCollectives
  PROVE  CollectiveInv'
<1>1. /\ cstep = "idle" /\ cstep' = "scan" /\ all' = all /\ ci' = 1 /\ current_rank' = -1
      /\ counts' = [q \in Ranks |-> 0] /\ offsets' = offsets
  BY DEF CollectiveInv, ScanInv, BeginCollectives
<1>2. CTypeOK' /\ Len(all) \in Nat
  BY <1>1 DEF CollectiveInv, CTypeOK, ATypeOK, Positions, BeginCollectives
<1>3. \A q \in Ranks : Segment(q)' = {}
  BY <1>1, <1>2 DEF Segment, CTypeOK
<1>4. \A k \in DOMAIN all' : ~(k < 1)
  BY <1>1, <1>2 DEF CTypeOK, ATypeOK
<1>5. Given'
  BY DEF CollectiveInv, Given, BeginCollectives
<1> QED BY <1>1, <1>2, <1>3, <1>4, <1>5 DEF CollectiveInv, ScanInv, SegmentsExact

\* What is known of the array, in the terms the scan needs.
LEMMA ArrayFacts ==
  ASSUME ATypeOK, Given
  PROVE  /\ all \in Seq(Event) /\ Len(all) \in Nat /\ DOMAIN all = 1..Len(all)
         /\ Grouped(all) /\ \A k \in DOMAIN all : all[k].rank # -1
<1>1. all \in Seq(Event) /\ Len(all) \in Nat /\ DOMAIN all = 1..Len(all)
  BY DEF ATypeOK
<1>2. CASE all \in Arrays
  <2>1. Grouped(all) /\ \A k \in DOMAIN all : all[k].rank \in Ranks
    BY <1>2 DEF Arrays, Gathered
  <2> QED BY <2>1, <1>1, RanksAssumption DEF Ranks
<1>3. CASE all = <<>>
  BY <1>3 DEF Grouped
<1> QED BY <1>1, <1>2, <1>3 DEF Given

\* The checks leave the array and its marks alone.
LEMMA ArrayUnchanged ==
  ASSUME ATypeOK, Given, all' = all, used' = used
  PROVE  ATypeOK' /\ Given'
BY DEF ATypeOK, Given, Positions

\* The segments keep up with the scan.
LEMMA ScanSegments ==
  ASSUME CollectiveInv, Scan, NEW q \in Ranks
  PROVE  Segment(q)' = {k \in DOMAIN all : k < ci + 1 /\ all[k].rank = q}
<1>1. /\ cstep = "scan" /\ ci \in 1..Len(all) /\ all' = all /\ all \in Seq(Event)
      /\ offsets \in [Ranks -> Nat] /\ counts \in [Ranks -> Nat]
      /\ Grouped(all) /\ \A k \in DOMAIN all : all[k].rank # -1
      /\ current_rank = IF ci = 1 THEN -1 ELSE all[ci - 1].rank
      /\ Segment(q) = {k \in DOMAIN all : k < ci /\ all[k].rank = q}
  BY SMTT(30), ArrayFacts DEF CollectiveInv, ScanInv, CTypeOK, Scan
<1>2. /\ DOMAIN all = 1..Len(all) /\ Len(all) \in Nat /\ ci \in DOMAIN all
      /\ \A k \in DOMAIN all : k < ci + 1 <=> k < ci \/ k = ci
  BY <1>1
<1>3. Segment(q) = offsets[q]..(offsets[q] + counts[q] - 1)
  BY DEF Segment
<1>4. Segment(q)' = offsets'[q]..(offsets'[q] + counts'[q] - 1)
  BY DEF Segment
<1>5. CASE all[ci].rank # q
  <2>1. offsets'[q] = offsets[q] /\ counts'[q] = counts[q]
    BY <1>1, <1>5 DEF Scan
  <2>2. Segment(q)' = Segment(q)
    BY <2>1, <1>3, <1>4
  <2> QED BY <2>2, <1>1, <1>2, <1>5
<1>6. CASE all[ci].rank = q /\ current_rank # q
  <2>1. offsets'[q] = ci /\ counts'[q] = counts[q] + 1
    BY <1>1, <1>6 DEF Scan
  <2>2. ASSUME NEW k \in DOMAIN all, k < ci, all[k].rank = q PROVE FALSE
    <3>1. ci - 1 \in DOMAIN all /\ k <= ci - 1 /\ ci - 1 <= ci /\ ci # 1
      BY <1>2, <2>2
    <3>2. all[ci - 1].rank = q
      <4>1. /\ k \in 1..ci /\ ci \in DOMAIN all /\ ci - 1 \in k..ci /\ all[k].rank = all[ci].rank
            /\ Grouped(all)
        BY <3>1, <2>2, <1>1, <1>2, <1>6
      <4>2. all[ci - 1].rank = all[ci].rank
        BY <4>1 DEF Grouped
      <4> QED BY <4>2, <1>6
    <3> QED BY <3>1, <3>2, <1>1, <1>6
  <2>3. Segment(q) = {}
    BY <2>2, <1>1
  <2>4. counts[q] = 0
    BY <2>3, <1>3, <1>1
  <2>5. Segment(q)' = {ci}
    BY <2>1, <2>4, <1>4, <1>1
  <2> QED BY <2>2, <2>5, <1>2, <1>6
<1>7. CASE all[ci].rank = q /\ current_rank = q
  <2>1. offsets'[q] = offsets[q] /\ counts'[q] = counts[q] + 1
    BY <1>1, <1>7 DEF Scan
  <2>2. ci # 1 /\ ci - 1 \in DOMAIN all /\ all[ci - 1].rank = q
    BY <1>1, <1>2, <1>7
  <2>3. ci - 1 \in Segment(q)
    BY <2>2, <1>1, <1>2
  <2>4. offsets[q] \in Nat /\ counts[q] \in Nat
    BY <1>1
  <2>5. offsets[q] + counts[q] - 1 \in Segment(q)
    BY <2>3, <2>4, <1>3
  <2>6. offsets[q] + counts[q] - 1 < ci
    BY <2>5, <1>1
  <2>7. offsets[q] + counts[q] = ci
    <3> DEFINE last == offsets[q] + counts[q] - 1
    <3>1. last \in Int /\ ci \in Int
      BY <2>4, <1>1
    <3>2. ci - 1 <= last
      BY <2>3, <2>4, <1>3
    <3>3. last < ci
      BY <2>6
    <3> HIDE DEF last
    <3>4. last = ci - 1
      BY <3>1, <3>2, <3>3
    <3> QED BY <3>4, <2>4, <1>1 DEF last
  <2>8. Segment(q)' = Segment(q) \cup {ci}
    BY <2>1, <2>3, <2>4, <2>7, <1>1, <1>3, <1>4
  <2> QED BY <2>8, <1>1, <1>2, <1>7
<1> QED BY <1>5, <1>6, <1>7

\* Each event scanned extends the segment of its rank only.
LEMMA ScanStep ==
  ASSUME CollectiveInv, Scan
  PROVE  CollectiveInv'
<1>1. /\ cstep = "scan" /\ cstep' = "scan" /\ ci \in 1..Len(all) /\ ci' = ci + 1
      /\ all' = all /\ all \in Seq(Event) /\ ATypeOK' /\ Given'
  BY ArrayFacts, ArrayUnchanged DEF CollectiveInv, ScanInv, CTypeOK, Scan
<1>2. all[ci] \in Event
  BY <1>1
<1>3. current_rank' = all[ci].rank /\ all[ci].rank \in Int
  BY <1>2 DEF Scan, Event
<1>4. offsets' \in [Ranks -> Nat] /\ counts' \in [Ranks -> Nat]
  BY SMTT(30), <1>1 DEF Scan, CollectiveInv, CTypeOK
<1>5. CTypeOK'
  BY <1>1, <1>3, <1>4 DEF Scan, CollectiveInv, CTypeOK
<1>6. \A q \in Ranks : Segment(q)' = {k \in DOMAIN all : k < ci + 1 /\ all[k].rank = q}
  BY ScanSegments
<1>7. ci' \in 1..(Len(all') + 1) /\ ci' # 1 /\ ci' - 1 = ci
  BY <1>1
<1> QED BY <1>1, <1>3, <1>5, <1>6, <1>7 DEF CollectiveInv, ScanInv, SegmentsExact

\* When the scan ends, the segments hold all events.
LEMMA EndScanStep ==
  ASSUME CollectiveInv, EndScan
  PROVE  CollectiveInv'
<1>1. /\ cstep = "scan" /\ cstep' = "count" /\ ci > Len(all) /\ all' = all
      /\ offsets' = offsets /\ counts' = counts /\ all \in Seq(Event) /\ ATypeOK' /\ Given'
      /\ ci \in Nat
  BY ArrayFacts, ArrayUnchanged DEF CollectiveInv, ScanInv, CTypeOK, EndScan
<1>2. \A k \in DOMAIN all : k < ci
  BY <1>1
<1>3. \A q \in Ranks : Segment(q) = {k \in DOMAIN all : all[k].rank = q}
  BY <1>1, <1>2 DEF CollectiveInv, ScanInv
<1>4. \A q \in Ranks : Segment(q)' = Segment(q)
  BY <1>1 DEF Segment
<1>5. CTypeOK'
  BY <1>1, RanksAssumption DEF CollectiveInv, CTypeOK, EndScan
<1> QED BY <1>1, <1>3, <1>4, <1>5 DEF CollectiveInv, ScanInv, SegmentsExact

\* The collectives of a rank are positions of the array, finitely many.
LEMMA CollectivesArePositions ==
  ASSUME CollectiveInv, NEW q \in Ranks
  PROVE  IsFiniteSet(CollectivesOf(q)) /\ (cstep \notin {"idle", "scan"} => CollectivesOf(q) \subseteq DOMAIN all)
<1>1. IsFiniteSet(Segment(q))
  BY FS_Interval DEF CollectiveInv, CTypeOK, Segment
<1>2. CollectivesOf(q) \subseteq Segment(q)
  BY DEF CollectivesOf
<1>3. IsFiniteSet(CollectivesOf(q))
  BY <1>1, <1>2, FS_Subset
<1> QED BY <1>2, <1>3 DEF CollectiveInv, ScanInv, SegmentsExact

\* Counting and comparing change no segment, and stay within the array.
LEMMA LaterStep ==
  ASSUME CollectiveInv, CountRank \/ EndCount \/ CompareRank \/ UNCHANGED <<all, used, cvars>>
  PROVE  CollectiveInv'
<1>1. all' = all /\ offsets' = offsets /\ counts' = counts /\ ATypeOK' /\ Given'
  BY ArrayUnchanged DEF CountRank, EndCount, CompareRank, cvars, CollectiveInv, CTypeOK
<1>2. \A q \in Ranks : Segment(q)' = Segment(q)
  BY <1>1 DEF Segment
<1>3. CASE CountRank
  <2>1. cstep = "count" /\ cr \in Ranks
    BY <1>3, RanksAssumption DEF CountRank, CollectiveInv, CTypeOK, Ranks
  <2>2. Cardinality(CollectivesOf(cr)) \in Nat
    BY <2>1, CollectivesArePositions, FS_CardinalityType
  <2>3. num_colls' \in [Ranks -> Nat] /\ num_colls'[cr] \in Nat
    BY <2>1, <2>2, <1>3 DEF CountRank, CollectiveInv, CTypeOK
  <2>4. max_colls' \in Nat
    BY <2>3, <1>3 DEF CountRank, CollectiveInv, CTypeOK
  <2>5. cr' \in 0..num_ranks
    BY <2>1, <1>3, RanksAssumption DEF CountRank, Ranks
  <2>6. CTypeOK'
    BY <2>1, <2>3, <2>4, <2>5, <1>1, <1>3 DEF CountRank, CollectiveInv, CTypeOK
  <2> QED BY <2>1, <2>6, <1>1, <1>2, <1>3 DEF CountRank, CollectiveInv, ScanInv, SegmentsExact
<1>4. CASE EndCount
  <2>1. cstep = "count" /\ cstep' \in {"compare", "done"}
    BY <1>4 DEF EndCount
  <2>2. CTypeOK'
    BY <1>1, <1>4, RanksAssumption DEF EndCount, CollectiveInv, CTypeOK
  <2> QED BY <2>1, <2>2, <1>1, <1>2 DEF CollectiveInv, ScanInv, SegmentsExact
<1>5. CASE CompareRank
  <2>1. cstep = "compare" /\ cr \in Ranks /\ ci \in Nat
    BY <1>5, RanksAssumption DEF CompareRank, CollectiveInv, CTypeOK, Ranks
  <2>2. NthCollective(cr, ci) \subseteq DOMAIN all
    BY <2>1, CollectivesArePositions DEF NthCollective
  <2>3. ref' \subseteq DOMAIN all
    BY <2>2, <1>5 DEF CompareRank, CollectiveInv, CTypeOK
  <2>4. coll_mismatch_count' \in Nat /\ flagged' \subseteq Nat \X Ranks
    <3>1. \/ coll_mismatch_count' = coll_mismatch_count + 1 /\ flagged' = flagged \cup {<<ci, cr>>}
          \/ coll_mismatch_count' = coll_mismatch_count /\ flagged' = flagged
      BY <1>5 DEF CompareRank
    <3> QED BY <3>1, <2>1 DEF CollectiveInv, CTypeOK
  <2>5. /\ ci' \in Nat /\ cr' \in 0..num_ranks /\ cstep' \in {"compare", "done"}
        /\ cstep' = "compare" => ci' < max_colls /\ cr' < num_ranks
    <3>1. NextRank /\ ci < max_colls /\ num_ranks \in Nat \ {0} /\ max_colls' = max_colls
      BY <2>1, <1>5, RanksAssumption DEF CompareRank, CollectiveInv, CTypeOK
    <3>2. CASE cr < num_ranks - 1
      BY <2>1, <3>1, <3>2 DEF NextRank, Ranks
    <3>3. CASE ~(cr < num_ranks - 1)
      BY <2>1, <3>1, <3>3 DEF NextRank
    <3> QED BY <3>2, <3>3
  <2>6. CTypeOK'
    BY <2>3, <2>4, <2>5, <1>1, <1>5 DEF CompareRank, CollectiveInv, CTypeOK
  <2> QED BY <2>1, <2>5, <2>6, <1>1, <1>2 DEF CollectiveInv, ScanInv, SegmentsExact
<1>6. CASE UNCHANGED <<all, used, cvars>>
  <2>1. CTypeOK' /\ UNCHANGED cvars
    BY <1>1, <1>6 DEF cvars, CollectiveInv, CTypeOK
  <2> QED BY <2>1, <1>1, <1>2 DEF CollectiveInv, ScanInv, SegmentsExact, cvars
<1> QED BY <1>3, <1>4, <1>5, <1>6

\* The scan's invariant and the types hold together: the comparison only reads
\* events because the segments lie in the array.
THEOREM CollectiveInvariant == CSpec => []CollectiveInv
<1>1. CollectiveInv /\ [CNext]_<<all, used, cvars>> => CollectiveInv'
  BY PrepareStep, BeginStep, ScanStep, EndScanStep, LaterStep DEF CNext, CStep
<1> QED BY <1>1, CInitInv, PTL DEF CSpec

\* The check's indices, segments and reference keep their types; a reference is
\* always an event of the array (detector.c 97-104, 116-134).
THEOREM CollectiveTypeCorrect == CSpec => []CTypeOK
<1>1. CollectiveInv => CTypeOK
  BY DEF CollectiveInv
<1> QED BY <1>1, CollectiveInvariant, PTL

\* For every array in which each rank's events stand together, each rank's
\* segment is exactly the set of its events.
THEOREM SegmentsCorrect == CSpec => []SegmentsExact
<1>1. CollectiveInv => SegmentsExact
  BY DEF CollectiveInv, ScanInv
<1> QED BY <1>1, CollectiveInvariant, PTL

-----------------------------------------------------------------------------
(* The verdict.  Past the scan a rank's n-th collective is what the         *)
(* comparison looks up; its loops then visit every call of every rank once, *)
(* and the reference is that of the lowest rank that has made the call.     *)

\* ref is the n-th collective of the lowest of the ranks below r that has one.
Reference(n, r) ==
    \/ ref = {} /\ \A q \in 0..(r - 1) : NthCollective(q, n) = {}
    \/ \E p \in 0..(r - 1) : /\ ref = NthCollective(p, n) /\ ref # {}
                             /\ \A q \in 0..(p - 1) : NthCollective(q, n) = {}

\* The comparisons that have been made.
Compared(n, r) == n < ci \/ (n = ci /\ r < cr)

VerdictInv ==
    /\ cstep \in {"idle", "scan", "count"} => flagged = {} /\ coll_mismatch_count = 0
    /\ cstep = "count" => \A q \in Ranks : q < cr => Cardinality(CollectivesOf(q)) <= max_colls
    /\ cstep \in {"compare", "done"} =>
        /\ \A q \in Ranks : Cardinality(CollectivesOf(q)) <= max_colls
        /\ IsFiniteSet(flagged) /\ coll_mismatch_count = Cardinality(flagged)
    /\ cstep = "compare" =>
        /\ Reference(ci, cr)
        /\ flagged = {v \in Nat \X Ranks : Compared(v[1], v[2]) /\ Disagrees(v[1], v[2])}
    /\ cstep = "done" =>
        flagged = {v \in Nat \X Ranks : v[1] < max_colls /\ Disagrees(v[1], v[2])}

\* Only one event is the n-th collective of a rank, and a rank with an n-th one
\* has more than n.
LEMMA NthIsOne ==
  ASSUME CollectiveInv, NEW q \in Ranks, NEW n \in Nat
  PROVE  /\ \A k, m \in NthCollective(q, n) : k = m
         /\ NthCollective(q, n) # {} => n < Cardinality(CollectivesOf(q))
<1> DEFINE Below(k) == {m \in CollectivesOf(q) : m < k}
<1>1. IsFiniteSet(CollectivesOf(q)) /\ CollectivesOf(q) \subseteq Int
  <2>1. CollectivesOf(q) \subseteq Segment(q)
    BY DEF CollectivesOf
  <2>2. Segment(q) \subseteq Int
    BY DEF CollectiveInv, CTypeOK, Segment
  <2> QED BY <2>1, <2>2, CollectivesArePositions
<1>2. \A k \in CollectivesOf(q) :
        IsFiniteSet(Below(k)) /\ Cardinality(Below(k)) \in Nat /\ Cardinality(Below(k) \cup {k}) = Cardinality(Below(k)) + 1
  <2> TAKE k \in CollectivesOf(q)
  <2>1. Below(k) \in SUBSET CollectivesOf(q) /\ k \notin Below(k)
    BY <1>1
  <2>2. IsFiniteSet(Below(k))
    BY <2>1, <1>1, FS_Subset
  <2> HIDE DEF Below
  <2> QED BY <2>1, <2>2, FS_AddElement, FS_CardinalityType
<1>3. ASSUME NEW k \in NthCollective(q, n), NEW m \in NthCollective(q, n), k < m PROVE FALSE
  <2>1. k \in CollectivesOf(q) /\ m \in CollectivesOf(q) /\ Cardinality(Below(k)) = n /\ Cardinality(Below(m)) = n
    BY DEF NthCollective
  <2>2. Below(k) \cup {k} \in SUBSET Below(m)
    BY <1>1, <1>3, <2>1
  <2>3. IsFiniteSet(Below(m)) /\ Cardinality(Below(k) \cup {k}) = n + 1
    BY <1>2, <2>1
  <2> HIDE DEF Below
  <2>4. Cardinality(Below(k) \cup {k}) <= Cardinality(Below(m))
    BY <2>2, <2>3, FS_Subset
  <2> QED BY <2>1, <2>3, <2>4
<1>4. \A k, m \in NthCollective(q, n) : k = m
  <2>1. NthCollective(q, n) \subseteq Int
    BY <1>1 DEF NthCollective
  <2> QED BY <1>3, <2>1
<1>5. ASSUME NEW k \in NthCollective(q, n) PROVE n < Cardinality(CollectivesOf(q))
  <2>1. k \in CollectivesOf(q) /\ Cardinality(Below(k)) = n
    BY DEF NthCollective
  <2>2. Below(k) \cup {k} \in SUBSET CollectivesOf(q)
    BY <2>1
  <2>3. Cardinality(Below(k) \cup {k}) = n + 1
    BY <1>2, <2>1
  <2> HIDE DEF Below
  <2>4. Cardinality(Below(k) \cup {k}) <= Cardinality(CollectivesOf(q)) /\ Cardinality(CollectivesOf(q)) \in Nat
    BY <1>1, <2>2, FS_Subset, FS_CardinalityType
  <2> QED BY <2>3, <2>4
<1> QED BY <1>4, <1>5

\* What the comparison finds is the rank's n-th call.
LEMMA NthIsCall ==
  ASSUME CollectiveInv, cstep \notin {"idle", "scan"}, NEW q \in Ranks, NEW n \in Nat
  PROVE  CallOf(q, n) = {[name |-> all[k].coll_name, comm |-> all[k].comm, root |-> all[k].peer] :
                            k \in NthCollective(q, n)}
<1>1. Segment(q) = {k \in DOMAIN all : all[k].rank = q}
  BY DEF CollectiveInv, ScanInv, SegmentsExact
<1>2. CollectivesOf(q) = {k \in DOMAIN all : all[k].rank = q /\ all[k].kind = "COLL"}
  BY <1>1 DEF CollectivesOf
<1> QED BY <1>2 DEF CallOf, NthCollective

\* The comparison with the reference tells whether the call disagrees.
LEMMA MismatchIsDisagreement ==
  ASSUME CollectiveInv, cstep = "compare", Reference(ci, cr), cr \in Ranks
  PROVE  Mismatch(NthCollective(cr, ci)) <=> Disagrees(ci, cr)
<1> DEFINE Call(k) == [name |-> all[k].coll_name, comm |-> all[k].comm, root |-> all[k].peer]
<1>1. ci \in Nat /\ cr \in Nat /\ \A q \in 0..(cr - 1) : q \in Ranks
  BY RanksAssumption DEF CollectiveInv, CTypeOK, Ranks
<1>2. \A q \in Ranks : CallOf(q, ci) = {Call(k) : k \in NthCollective(q, ci)}
  BY <1>1, NthIsCall
<1>3. \A k, m : Differs(k, m) <=> Call(k) # Call(m)
  BY DEF Differs
<1> HIDE DEF Call
<1>4. \A q \in Ranks : CallOf(q, ci) = {} <=> NthCollective(q, ci) = {}
  BY <1>2
<1>5. CASE ref = {}
  <2>1. \A q \in 0..(cr - 1) : NthCollective(q, ci) = {}
    BY <1>5 DEF Reference
  <2> QED BY <2>1, <1>1, <1>4, <1>5 DEF Mismatch, Disagrees
<1>6. CASE ref # {}
  <2>1. PICK p \in 0..(cr - 1) : /\ ref = NthCollective(p, ci)
                                 /\ \A q \in 0..(p - 1) : NthCollective(q, ci) = {}
    BY <1>6 DEF Reference
  <2>2. p \in Ranks /\ \A q \in 0..(p - 1) : q \in 0..(cr - 1)
    BY <2>1, <1>1
  <2>3. PICK k : k \in ref
    BY <1>6
  <2>4. ref = {k} /\ CallOf(p, ci) = {Call(k)}
    BY <2>1, <2>2, <2>3, <1>1, <1>2, NthIsOne
  <2>5. Mismatch(NthCollective(cr, ci)) <=> CallOf(cr, ci) # CallOf(p, ci)
    <3>1. CASE NthCollective(cr, ci) = {}
      BY <3>1, <2>4, <1>4, <1>6 DEF Mismatch
    <3>2. CASE NthCollective(cr, ci) # {}
      <4>1. PICK m : m \in NthCollective(cr, ci)
        BY <3>2
      <4>2. NthCollective(cr, ci) = {m} /\ CallOf(cr, ci) = {Call(m)}
        BY <4>1, <1>1, <1>2, NthIsOne
      <4>3. Mismatch(NthCollective(cr, ci)) <=> Differs(k, m)
        BY <4>2, <2>4 DEF Mismatch
      <4> QED BY <4>2, <4>3, <2>4, <1>3
    <3> QED BY <3>1, <3>2
  <2>6. ASSUME NEW p2 \in 0..(cr - 1), CallOf(p2, ci) # {}, \A q \in 0..(p2 - 1) : CallOf(q, ci) = {}
        PROVE  p2 = p
    <3>1. NthCollective(p2, ci) # {} /\ NthCollective(p, ci) # {}
      BY <2>1, <2>3, <2>6, <1>1, <1>4
    <3>2. ~(p2 < p)
      BY <3>1, <2>1, <1>1
    <3>3. ~(p < p2)
      <4>1. CallOf(p, ci) # {}
        BY <2>4
      <4> QED BY <4>1, <2>6, <2>1, <1>1
    <3> QED BY <3>2, <3>3, <1>1
  <2>7. CallOf(p, ci) # {} /\ \A q \in 0..(p - 1) : CallOf(q, ci) = {}
    BY <2>1, <2>2, <2>4, <1>1, <1>4
  <2> QED BY <2>5, <2>6, <2>7 DEF Disagrees
<1> QED BY <1>5, <1>6

\* The steps that leave the array alone leave the calls alone.
LEMMA CallsKept ==
  ASSUME all' = all, NEW n, NEW r
  PROVE  Disagrees(n, r)' <=> Disagrees(n, r)
BY DEF Disagrees, CallOf

\* The steps that leave the segments alone leave the collectives alone.
LEMMA CollectivesKept ==
  ASSUME all' = all, offsets' = offsets, counts' = counts, NEW q
  PROVE  /\ CollectivesOf(q)' = CollectivesOf(q)
         /\ \A n : NthCollective(q, n)' = NthCollective(q, n)
BY DEF CollectivesOf, NthCollective, Segment

\* The longest of the ranks' lists of collectives is found.
LEMMA RankCountStep ==
  ASSUME CollectiveInv, VerdictInv, CountRank
  PROVE  VerdictInv'
<1>1. /\ cstep = "count" /\ cstep' = "count" /\ cr \in Ranks /\ cr' = cr + 1
      /\ all' = all /\ offsets' = offsets /\ counts' = counts
      /\ flagged' = flagged /\ coll_mismatch_count' = coll_mismatch_count
  BY RanksAssumption DEF CountRank, CollectiveInv, CTypeOK, Ranks
<1>2. Cardinality(CollectivesOf(cr)) \in Nat /\ \A q \in Ranks : Cardinality(CollectivesOf(q)) \in Nat
  BY <1>1, CollectivesArePositions, FS_CardinalityType
<1>3. num_colls'[cr] = Cardinality(CollectivesOf(cr)) /\ max_colls \in Nat
  BY <1>1 DEF CountRank, CollectiveInv, CTypeOK
<1>4. max_colls' \in Nat /\ max_colls <= max_colls' /\ Cardinality(CollectivesOf(cr)) <= max_colls'
  BY <1>2, <1>3 DEF CountRank
<1>5. \A q \in Ranks : q < cr' => Cardinality(CollectivesOf(q)) <= max_colls'
  <2> TAKE q \in Ranks
  <2>1. q < cr' => q < cr \/ q = cr
    BY <1>1 DEF Ranks
  <2>2. q < cr => Cardinality(CollectivesOf(q)) <= max_colls
    BY <1>1 DEF VerdictInv
  <2> QED BY <2>1, <2>2, <1>2, <1>3, <1>4
<1>6. \A q \in Ranks : CollectivesOf(q)' = CollectivesOf(q)
  BY <1>1, CollectivesKept
<1>7. \A q \in Ranks : q < cr' => Cardinality(CollectivesOf(q)') <= max_colls'
  BY <1>5, <1>6
<1> QED BY <1>1, <1>7 DEF VerdictInv

\* The comparison starts with nothing compared and no reference, or there is
\* nothing to compare.
LEMMA EndCountStep ==
  ASSUME CollectiveInv, VerdictInv, EndCount
  PROVE  VerdictInv'
<1>1. /\ cstep = "count" /\ cr = num_ranks /\ cstep' = IF max_colls = 0 THEN "done" ELSE "compare"
      /\ ci' = 0 /\ cr' = 0 /\ ref' = {} /\ max_colls' = max_colls
      /\ all' = all /\ offsets' = offsets /\ counts' = counts
      /\ flagged' = {} /\ coll_mismatch_count' = 0
  BY DEF EndCount, VerdictInv
<1>2. \A q \in Ranks : q < cr
  BY <1>1, RanksAssumption DEF Ranks
<1>3. \A q \in Ranks : Cardinality(CollectivesOf(q)') <= max_colls'
  <2>1. \A q \in Ranks : CollectivesOf(q)' = CollectivesOf(q)
    BY <1>1, CollectivesKept
  <2> QED BY <2>1, <1>1, <1>2 DEF VerdictInv
<1>4. IsFiniteSet(flagged') /\ coll_mismatch_count' = Cardinality(flagged')
  BY <1>1, FS_EmptySet
<1>5. CASE max_colls = 0
  <2>1. {v \in Nat \X Ranks : v[1] < max_colls' /\ Disagrees(v[1], v[2])'} = {}
    BY <1>1, <1>5
  <2> QED BY <2>1, <1>1, <1>3, <1>4, <1>5 DEF VerdictInv
<1>6. CASE max_colls # 0
  <2>1. Reference(ci, cr)'
    BY <1>1 DEF Reference
  <2>2. \A n \in Nat, r \in Ranks : ~Compared(n, r)'
    BY <1>1 DEF Compared, Ranks
  <2>3. {v \in Nat \X Ranks : Compared(v[1], v[2])' /\ Disagrees(v[1], v[2])'} = {}
    BY <2>2
  <2> QED BY <2>1, <2>3, <1>1, <1>3, <1>4, <1>6 DEF VerdictInv
<1> QED BY <1>5, <1>6

\* Each comparison adds the verdict on one call of one rank, and the reference
\* is renewed with the call.
LEMMA CompareStep ==
  ASSUME CollectiveInv, VerdictInv, CompareRank
  PROVE  VerdictInv'
<1>1. /\ cstep = "compare" /\ cr \in Ranks /\ ci \in Nat /\ ci < max_colls /\ max_colls \in Nat
      /\ all' = all /\ offsets' = offsets /\ counts' = counts /\ max_colls' = max_colls
      /\ num_ranks \in Nat \ {0} /\ NextRank
  BY RanksAssumption DEF CompareRank, CollectiveInv, CTypeOK, Ranks
<1>2. /\ Reference(ci, cr) /\ IsFiniteSet(flagged) /\ coll_mismatch_count = Cardinality(flagged)
      /\ flagged = {v \in Nat \X Ranks : Compared(v[1], v[2]) /\ Disagrees(v[1], v[2])}
  BY <1>1 DEF VerdictInv
<1>3. \A q \in Ranks : Cardinality(CollectivesOf(q)') <= max_colls'
  <2>1. \A q \in Ranks : CollectivesOf(q)' = CollectivesOf(q)
    BY <1>1, CollectivesKept
  <2> QED BY <2>1, <1>1 DEF VerdictInv
<1>4. <<ci, cr>> \notin flagged
  BY <1>1, <1>2 DEF Compared, Ranks
<1>5. flagged' = IF Disagrees(ci, cr) THEN flagged \cup {<<ci, cr>>} ELSE flagged
  BY <1>1, <1>2, MismatchIsDisagreement DEF CompareRank
<1>6. coll_mismatch_count' = IF Disagrees(ci, cr) THEN coll_mismatch_count + 1 ELSE coll_mismatch_count
  BY <1>1, <1>2, MismatchIsDisagreement DEF CompareRank
<1>7. IsFiniteSet(flagged') /\ coll_mismatch_count' = Cardinality(flagged')
  BY <1>2, <1>4, <1>5, <1>6, FS_AddElement
<1>8. flagged' = {v \in Nat \X Ranks :
                    (Compared(v[1], v[2]) \/ (v[1] = ci /\ v[2] = cr)) /\ Disagrees(v[1], v[2])}
  <2>1. \A n \in Nat, r \in Ranks : <<n, r>> = <<ci, cr>> <=> n = ci /\ r = cr
    OBVIOUS
  <2>2. \A v \in Nat \X Ranks : v[1] \in Nat /\ v[2] \in Ranks /\ v = <<v[1], v[2]>>
    OBVIOUS
  <2> QED BY <2>1, <2>2, <1>1, <1>2, <1>5
<1>9. \A n, r : Disagrees(n, r)' <=> Disagrees(n, r)
  BY <1>1, CallsKept
<1>10. CASE cr < num_ranks - 1
  <2>1. cr' = cr + 1 /\ ci' = ci /\ cstep' = "compare" /\ cr' \in Nat
    BY <1>1, <1>10 DEF NextRank, Ranks
  <2>2. \A n \in Nat, r \in Ranks : Compared(n, r)' <=> Compared(n, r) \/ (n = ci /\ r = cr)
    BY <2>1, <1>1 DEF Compared, Ranks
  <2>3. flagged' = {v \in Nat \X Ranks : Compared(v[1], v[2])' /\ Disagrees(v[1], v[2])'}
    BY <2>2, <1>8, <1>9
  <2>4. Reference(ci, cr)'
    <3>1. ref' = IF ref = {} THEN NthCollective(cr, ci) ELSE ref
      BY <2>1 DEF CompareRank
    <3>2. \A q : NthCollective(q, ci)' = NthCollective(q, ci)
      BY <1>1, <2>1, CollectivesKept DEF NthCollective
    <3>3. \A q \in 0..(cr' - 1) : q \in 0..(cr - 1) \/ q = cr
      BY <2>1, <1>1 DEF Ranks
    <3>4. cr \in 0..(cr' - 1) /\ 0..(cr - 1) \subseteq 0..(cr' - 1)
      BY <2>1, <1>1 DEF Ranks
    <3>5. CASE ref # {}
      <4>1. PICK p \in 0..(cr - 1) : /\ ref = NthCollective(p, ci) /\ ref # {}
                                     /\ \A q \in 0..(p - 1) : NthCollective(q, ci) = {}
        BY <1>2, <3>5 DEF Reference
      <4> QED BY <4>1, <3>1, <3>2, <3>4, <3>5 DEF Reference
    <3>6. CASE ref = {}
      <4>1. \A q \in 0..(cr - 1) : NthCollective(q, ci) = {}
        BY <1>2, <3>6 DEF Reference
      <4>2. ref' = NthCollective(cr, ci)
        BY <3>1, <3>6
      <4>3. CASE ref' = {}
        BY <4>1, <4>2, <4>3, <3>2, <3>3 DEF Reference
      <4>4. CASE ref' # {}
        BY <4>1, <4>2, <4>4, <3>2, <3>4 DEF Reference
      <4> QED BY <4>3, <4>4
    <3> QED BY <3>5, <3>6
  <2> QED BY <2>1, <2>3, <2>4, <1>3, <1>7 DEF VerdictInv
<1>11. CASE ~(cr < num_ranks - 1)
  <2>1. /\ cr' = 0 /\ ci' = ci + 1 /\ cr = num_ranks - 1
        /\ cstep' = IF ci + 1 < max_colls THEN "compare" ELSE "done"
    BY <1>1, <1>11 DEF NextRank, Ranks
  <2>2. \A n \in Nat, r \in Ranks : n < ci + 1 <=> Compared(n, r) \/ (n = ci /\ r = cr)
    BY <2>1, <1>1 DEF Compared, Ranks
  <2>3. flagged' = {v \in Nat \X Ranks : v[1] < ci + 1 /\ Disagrees(v[1], v[2])'}
    BY <2>2, <1>8, <1>9
  <2>4. CASE ci + 1 < max_colls
    <3>1. ref' = {} /\ cstep' = "compare"
      BY <2>1, <2>4, <1>1 DEF CompareRank
    <3>2. Reference(ci, cr)'
      BY <2>1, <3>1 DEF Reference
    <3>3. \A n \in Nat, r \in Ranks : Compared(n, r)' <=> n < ci + 1
      BY <2>1, <1>1 DEF Compared, Ranks
    <3>4. flagged' = {v \in Nat \X Ranks : Compared(v[1], v[2])' /\ Disagrees(v[1], v[2])'}
      BY <2>3, <3>3
    <3> QED BY <3>1, <3>2, <3>4, <1>3, <1>7 DEF VerdictInv
  <2>5. CASE ~(ci + 1 < max_colls)
    <3>1. ci + 1 = max_colls /\ cstep' = "done"
      BY <2>1, <2>5, <1>1
    <3> QED BY <3>1, <2>3, <1>1, <1>3, <1>7 DEF VerdictInv
  <2> QED BY <2>4, <2>5
<1> QED BY <1>10, <1>11

\* The steps before the comparison report nothing.
LEMMA EarlyStep ==
  ASSUME CollectiveInv, VerdictInv,
         BeginCollectives \/ Scan \/ EndScan \/ (cstep = "idle" /\ Prepare /\ UNCHANGED cvars)
  PROVE  VerdictInv'
<1>1. /\ cstep' \in {"idle", "scan", "count"} /\ flagged' = {} /\ coll_mismatch_count' = 0
      /\ cstep' = "count" => cr' = 0
  BY DEF VerdictInv, BeginCollectives, Scan, EndScan, cvars
<1>2. \A q \in Ranks : ~(q < 0)
  BY DEF Ranks
<1> QED BY <1>1, <1>2 DEF VerdictInv

\* A step that changes nothing of the check changes nothing of its verdict.
LEMMA VerdictStutter ==
  ASSUME VerdictInv, UNCHANGED <<all, used, cvars>>
  PROVE  VerdictInv'
<1>1. /\ all' = all /\ offsets' = offsets /\ counts' = counts /\ cstep' = cstep /\ cr' = cr
      /\ ci' = ci /\ max_colls' = max_colls /\ ref' = ref /\ flagged' = flagged
      /\ coll_mismatch_count' = coll_mismatch_count
  BY DEF cvars
<1>2. \A n, r : Disagrees(n, r)' <=> Disagrees(n, r)
  BY <1>1, CallsKept
<1>3. \A q : CollectivesOf(q)' = CollectivesOf(q)
  BY <1>1, CollectivesKept
<1>4. \A n, r : Compared(n, r)' <=> Compared(n, r)
  BY <1>1 DEF Compared
<1>5. Reference(ci, cr)' <=> Reference(ci, cr)
  BY <1>1 DEF Reference, NthCollective, CollectivesOf, Segment
<1> QED BY <1>1, <1>2, <1>3, <1>4, <1>5 DEF VerdictInv

\* The verdict so far is exact throughout the comparison.
THEOREM VerdictInvariant == CSpec => []VerdictInv
<1>1. AInit /\ CInit => VerdictInv
  BY DEF CInit, VerdictInv
<1>2. CollectiveInv /\ VerdictInv /\ [CNext]_<<all, used, cvars>> => VerdictInv'
  BY EarlyStep, RankCountStep, EndCountStep, CompareStep, VerdictStutter DEF CNext, CStep
<1> QED BY <1>1, <1>2, CollectiveInvariant, PTL DEF CSpec

\* For every number of ranks and every array of events, the calls that are
\* reported are exactly those that differ from the same call of the lowest rank
\* that has made it, each counted once.
THEOREM VerdictIsExact == CSpec => []VerdictExact
<1>1. ASSUME CollectiveInv, VerdictInv, cstep = "done"
      PROVE  /\ flagged = {v \in (0..Len(all)) \X Ranks : Disagrees(v[1], v[2])}
             /\ coll_mismatch_count = Cardinality(flagged)
  <2>1. /\ flagged = {v \in Nat \X Ranks : v[1] < max_colls /\ Disagrees(v[1], v[2])}
        /\ coll_mismatch_count = Cardinality(flagged)
        /\ \A q \in Ranks : Cardinality(CollectivesOf(q)) <= max_colls
    BY <1>1 DEF VerdictInv
  <2>2. ASSUME NEW n \in Nat, NEW r \in Ranks, Disagrees(n, r)
        PROVE  n < max_colls /\ n \in 0..Len(all)
    <3>1. PICK p \in 0..(r - 1) : CallOf(p, n) # {}
      BY <2>2 DEF Disagrees
    <3>2. p \in Ranks
      BY <3>1, RanksAssumption DEF Ranks
    <3>3. NthCollective(p, n) # {}
      BY <3>1, <3>2, <1>1, NthIsCall
    <3>4. n < Cardinality(CollectivesOf(p))
      BY <3>2, <3>3, <1>1, NthIsOne
    <3>5. /\ IsFiniteSet(CollectivesOf(p)) /\ CollectivesOf(p) \in SUBSET (1..Len(all))
          /\ Len(all) \in Nat
      <4>1. DOMAIN all = 1..Len(all) /\ Len(all) \in Nat
        BY <1>1, ArrayFacts DEF CollectiveInv, CTypeOK
      <4>2. IsFiniteSet(CollectivesOf(p)) /\ CollectivesOf(p) \subseteq DOMAIN all
        BY <3>2, <1>1, CollectivesArePositions
      <4> QED BY <4>1, <4>2
    <3>6. Cardinality(CollectivesOf(p)) <= Len(all) /\ Cardinality(CollectivesOf(p)) \in Nat
      <4>1. /\ IsFiniteSet(1..Len(all))
            /\ Cardinality(1..Len(all)) = IF 1 > Len(all) THEN 0 ELSE Len(all) - 1 + 1
        <5>1. 1 \in Int /\ Len(all) \in Int
          BY <3>5
        <5> QED BY <5>1, FS_Interval
      <4>2. Cardinality(1..Len(all)) = Len(all)
        BY <4>1, <3>5
      <4> QED BY <4>1, <4>2, <3>5, FS_Subset, FS_CardinalityType
    <3>7. max_colls \in Nat /\ Cardinality(CollectivesOf(p)) <= max_colls
      BY <2>1, <3>2, <1>1 DEF CollectiveInv, CTypeOK
    <3> QED BY <3>4, <3>5, <3>6, <3>7
  <2>3. 0..Len(all) \subseteq Nat
    BY <1>1 DEF CollectiveInv, CTypeOK, ATypeOK
  <2>4. flagged = {v \in (0..Len(all)) \X Ranks : Disagrees(v[1], v[2])}
    BY <2>1, <2>2, <2>3
  <2> QED BY <2>1, <2>4
<1>2. CollectiveInv /\ VerdictInv => VerdictExact
  BY <1>1 DEF VerdictExact
<1> QED BY <1>2, CollectiveInvariant, VerdictInvariant, PTL
=============================================================================
