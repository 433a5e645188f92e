---------------------------- MODULE AnomalyCheck ----------------------------
(* The statistics of msan_analyze_events (detector.c): a send whose size is *)
(* more than three standard deviations from the mean of all sends is        *)
(* counted, as the code computes them: in one pass, with doubles.           *)
EXTENDS EventArray, Doubles

VARIABLES astep,         \* "idle", "sum", "flag" or "done"
          ai,            \* the place in the array the sums have come to
          sum_size, sum_size_sq,        \* doubles
          send_count,
          mean, stddev,                 \* doubles
          anomaly_count

sums == <<ai, sum_size, sum_size_sq, send_count>>
avars == <<astep, sums, mean, stddev, anomaly_count>>

AnomalyInit ==
    /\ astep = "idle" /\ ai = 1 /\ sum_size = FromInt(0) /\ sum_size_sq = FromInt(0)
    /\ send_count = 0 /\ mean = FromInt(0) /\ stddev = FromInt(0) /\ anomaly_count = 0

-----------------------------------------------------------------------------
Sends == {k \in Positions : all[k].kind = "SEND"}

Size(k) == FromInt(all[k].nbytes)

BeginStats ==
    /\ astep = "idle" /\ astep' = "sum"
    /\ UNCHANGED <<all, used, sums, mean, stddev, anomaly_count>>

AddSize ==
    /\ astep = "sum" /\ ai \in Positions /\ ai' = ai + 1
    /\ IF ai \in Sends
       THEN /\ sum_size' = Plus(sum_size, Size(ai))
            /\ sum_size_sq' = Plus(sum_size_sq, Times(Size(ai), Size(ai)))
            /\ send_count' = send_count + 1
       ELSE UNCHANGED <<sum_size, sum_size_sq, send_count>>
    /\ UNCHANGED <<all, used, astep, mean, stddev, anomaly_count>>

\* The variance, 0 where rounding has made it negative.
Var(average) == Excess(Quotient(sum_size_sq, send_count), Times(average, average))

EndSum ==
    /\ astep = "sum" /\ ai \notin Positions
    /\ IF send_count > 1
       THEN /\ astep' = "flag"
            /\ mean' = Quotient(sum_size, send_count)
            /\ stddev' = SquareRoot(Var(mean'))
       ELSE astep' = "done" /\ UNCHANGED <<mean, stddev>>
    /\ UNCHANGED <<all, used, sums, anomaly_count>>

\* mutated form: two standard deviations.
LimitOfTwo == Times(FromInt(2), stddev)

Limit == Times(FromInt(3), stddev)

\* mutated form: the size itself is compared, not its distance from the mean.
DistanceFromZero(k) == Size(k)

Distance(k) == Difference(Size(k), mean)

FlagSizes ==
    /\ astep = "flag" /\ astep' = "done"
    /\ anomaly_count' = IF stddev.m > 0
                        THEN Cardinality({k \in Sends : Greater(Distance(k), Limit)}) ELSE 0
    /\ UNCHANGED <<all, used, sums, mean, stddev>>

AStep == BeginStats \/ AddSize \/ EndSum \/ FlagSizes

ANext == (astep = "idle" /\ Prepare /\ UNCHANGED avars) \/ AStep

ASpec == AInit /\ AnomalyInit /\ [][ANext]_<<all, used, avars>>

-----------------------------------------------------------------------------
AnomalyTypeOK ==
    /\ astep \in {"idle", "sum", "flag", "done"}
    /\ ai \in Nat /\ send_count \in Nat /\ anomaly_count \in Nat

\* The sums of the sizes and of their squares, without rounding.
ExactTotal(term) ==
    LET sum[n \in 0..Len(all)] ==
            IF n = 0 THEN 0 ELSE IF n \in Sends THEN sum[n - 1] + term[n] ELSE sum[n - 1]
    IN  sum[Len(all)]

ExactBytes == ExactTotal([k \in Sends |-> all[k].nbytes])
ExactSquares == ExactTotal([k \in Sends |-> all[k].nbytes * all[k].nbytes])

\* Where the variance is not lost in the rounding of the mean square, from which the
\* code subtracts the square of the mean, the sends that are flagged are those that are
\* more than three standard deviations from the mean, but for a tolerance of one part in
\* as many as there are sends: neither a common size is reported nor an unusual one
\* passed over (docs/runtime.md, Anomaly Detection; detector.c 315-340).  Where it is
\* lost, the sizes are large and nearly equal, and the rounding decides.
AnomaliesAreOutliers ==
    LET n == Cardinality(Sends)
        bytes == ExactBytes
        squares == n * ExactSquares
        variance == squares - bytes * bytes         \* both times the square of n
        distance(k) == LET d == n * all[k].nbytes - bytes IN d * d
    IN  astep = "done" /\ bytes <= Exact /\ variance >= 4 * n * n * (squares \div Exact + 1) =>
          /\ Cardinality({k \in Sends : n * distance(k) > (n + 1) * 9 * variance}) <= anomaly_count
          /\ anomaly_count <= Cardinality({k \in Sends : n * distance(k) >= (n - 1) * 9 * variance})

\* If all sends have one size, none is flagged, although the rounding of the squares may
\* give them a variance: the mean is exact, as long as the bytes of all sends are a double
\* (detector.c 326-333).
EqualSizesAreUsual ==
    (/\ astep = "done"
     /\ \A j, k \in Sends : all[j].nbytes = all[k].nbytes
     /\ \A k \in Sends : Cardinality(Sends) * all[k].nbytes <= Exact)
    => anomaly_count = 0
=============================================================================
