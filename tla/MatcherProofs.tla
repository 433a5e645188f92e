--------------------------- MODULE MatcherProofs ---------------------------
(* Proofs about Matcher, for every set of arrays of events.                 *)
EXTENDS Matcher, FiniteSetTheorems, FunctionTheorems, TLAPS

-----------------------------------------------------------------------------
(* Type correctness.                                                        *)

\* The numbers that the loops run over.
LEMMA Bounds ==
  ASSUME MTypeOK
  PROVE  /\ Len(all) \in Nat /\ i \in Nat /\ i <= Len(all) + 1
         /\ Positions \subseteq Nat /\ 0 \notin Positions
         /\ \A k \in Positions : 1..(k - 1) \subseteq Positions /\ all[k].timestamp \in Int
<1>1. all \in Seq(Event) /\ i \in 1..(Len(all) + 1)
  BY DEF MTypeOK
<1>2. Len(all) \in Nat /\ DOMAIN all = Positions
  BY <1>1 DEF Positions
<1>3. \A k \in Positions : all[k] \in Event
  BY <1>1, <1>2
<1>4. \A k \in Positions : all[k].timestamp \in Int
  BY <1>3 DEF Event
<1> QED BY <1>1, <1>2, <1>4 DEF Positions

\* Every state the analysis reaches is well typed: the loop index stays within
\* one of the array's length, the marks and partners are positions.
THEOREM MatcherTypeCorrect == MSpec => []MTypeOK
<1>1. MInit => MTypeOK
  BY DEF AInit, MInit, MTypeOK, Positions
<1>2. MTypeOK /\ [MNext]_mvars => MTypeOK'
  <2> SUFFICES ASSUME MTypeOK, [MNext]_mvars PROVE MTypeOK'
    OBVIOUS
  <2>0. Len(all) \in Nat
    BY DEF MTypeOK
  <2> USE DEF MTypeOK, Positions, counters, mismatches
  <2>1. CASE MStart
    <3>1. PICK a \in Arrays : Analyze(a)
      BY <2>1 DEF MStart
    <3>2. a \in Seq(Event) /\ Len(a) \in Nat
      BY DEF Arrays
    <3> QED BY <3>1, <3>2 DEF Analyze
  <2>2. CASE SkipEvent
    BY <2>2 DEF SkipEvent
  <2>3. CASE MatchRecv
    <3>1. PICK j \in Positions :
            /\ used' = [used EXCEPT ![i] = TRUE, ![j] = TRUE]
            /\ partner' = [partner EXCEPT ![i] = j]
            /\ Compare(all[j], all[i])
      BY <2>3 DEF MatchRecv
    <3>2. /\ integrity_count' \in Nat /\ type_mismatch_count' \in Nat
          /\ size_mismatch_count' \in Nat /\ lat_count' \in Nat
      BY <3>1 DEF Compare, Count
    <3>3. all' = all /\ phase' = phase /\ i' = i + 1 /\ i \in Positions
      BY <2>3 DEF MatchRecv
    <3>3a. total_lat' \in Nat
      <4>1. all[i].timestamp \in Int /\ all[j].timestamp \in Int
        BY <3>3, Bounds
      <4>2. total_lat' = total_lat + (IF all[i].timestamp > all[j].timestamp
                                      THEN all[i].timestamp - all[j].timestamp ELSE 0)
        BY <3>1 DEF Compare, Later
      <4>3. CASE all[i].timestamp > all[j].timestamp
        <5>1. all[i].timestamp - all[j].timestamp \in Nat
          BY <4>1, <4>3
        <5> QED BY <4>2, <4>3, <5>1
      <4>4. CASE ~(all[i].timestamp > all[j].timestamp)
        BY <4>2, <4>4
      <4> QED BY <4>3, <4>4
    <3>4. used' \in [Positions -> BOOLEAN]
      BY <3>1
    <3>4a. partner' \in [Positions -> 0..Len(all)]
      <4>1. j \in 0..Len(all)
        BY <2>0
      <4> QED BY <3>1, <4>1
    <3>5. matched_pairs' \in Nat /\ unmatched_recv_count' \in Nat /\ unmatched_send_count' \in Nat
      BY <2>3 DEF MatchRecv
    <3>6. /\ all' \in Seq(Event) /\ phase' \in {"idle", "match", "sends", "done"}
          /\ i' \in 1..(Len(all') + 1)
      BY <2>0, <3>3
    <3>7. used' \in [1..Len(all') -> BOOLEAN] /\ partner' \in [1..Len(all') -> 0..Len(all')]
      BY <3>3, <3>4, <3>4a
    <3> QED BY <3>2, <3>3a, <3>5, <3>6, <3>7
  <2>4. CASE UnmatchedRecv
    BY <2>4 DEF UnmatchedRecv
  <2>5. CASE EndMatching
    BY <2>5 DEF EndMatching
  <2>6. CASE ReportSend
    BY <2>6 DEF ReportSend, Count
  <2>7. CASE EndSends
    BY <2>7 DEF EndSends
  <2>8. CASE UNCHANGED mvars
    BY <2>8 DEF mvars
  <2> QED BY <2>1, <2>2, <2>3, <2>4, <2>5, <2>6, <2>7, <2>8 DEF MNext, MStep
<1> QED BY <1>1, <1>2, PTL DEF MSpec
-----------------------------------------------------------------------------
(* The pairing.                                                             *)

\* What the marks say at any moment: a receive is matched exactly when it is
\* marked, a send is marked exactly when it is somebody's partner, and only the
\* receives the loop has passed are matched.
Marks ==
    /\ \A k \in Matched : IsRecv(k) /\ used[k] /\ used[partner[k]]
    /\ \A k \in Positions : IsRecv(k) /\ used[k] => k \in Matched
    /\ \A k \in Positions : IsSend(k) /\ used[k] => \E m \in Matched : partner[m] = k
    /\ phase = "match" => \A k \in Matched : k < i
    /\ phase = "idle" => all = <<>>

Passed(k) == k \in Positions /\ (phase = "match" => k < i)

\* A receive the loop has passed without matching it has no send left.
NothingLeftBehind ==
    \A j, k \in Positions :
        Passed(k) /\ ~used[k] /\ KeyEqual(all[j], all[k]) => used[j]

PairingInv == Marks /\ NothingLeftBehind /\ PairsAreKeyed /\ PairsAreFifo

\* A pair is a pair of positions, of a send and a receive.
LEMMA KeyEqualKinds ==
  \A j, k \in Positions : KeyEqual(all[j], all[k]) => IsSend(j) /\ IsRecv(k) /\ j # k
BY DEF KeyEqual, IsSend, IsRecv

\* Receives of one envelope have the same sends, and receives with a common
\* send are of one envelope.
LEMMA EnvelopeSends ==
  ASSUME NEW j \in Positions, NEW k \in Positions, NEW m \in Positions
  PROVE  /\ SameEnvelope(k, m) => (KeyEqual(all[j], all[k]) <=> KeyEqual(all[j], all[m]))
         /\ KeyEqual(all[j], all[k]) /\ KeyEqual(all[j], all[m]) => SameEnvelope(k, m)
BY DEF SameEnvelope, KeyEqual, IsRecv

\* A step that leaves the array, the marks and the partners alone, and passes
\* no receive but matched ones, keeps the pairing invariant.
LEMMA QuietStep ==
  ASSUME MTypeOK, MTypeOK', PairingInv,
         all' = all, used' = used, partner' = partner,
         phase' = "idle" => phase = "idle",
         phase' = "match" => phase = "match" /\ i' >= i,
         \A k \in Positions :
            Passed(k)' /\ ~Passed(k) /\ ~used[k] =>
                \A j \in Positions : KeyEqual(all[j], all[k]) => used[j]
  PROVE  PairingInv'
<1> USE DEF MTypeOK
<1>1. Positions' = Positions /\ Matched' = Matched
  BY DEF Positions, Matched
<1>2. Marks'
  <2>1. phase' = "match" => \A k \in Matched : k < i'
    <3> SUFFICES ASSUME phase' = "match", NEW k \in Matched PROVE k < i'
      OBVIOUS
    <3>1. k < i /\ i' >= i
      BY DEF PairingInv, Marks
    <3>2. k \in Int /\ i \in Int /\ i' \in Int
      BY DEF Matched, Positions
    <3> QED BY <3>1, <3>2
  <2> QED BY <1>1, <2>1 DEF PairingInv, Marks, IsRecv, IsSend
<1>3. NothingLeftBehind'
  BY <1>1 DEF PairingInv, NothingLeftBehind
<1>4. PairsAreKeyed' /\ PairsAreFifo'
  BY <1>1 DEF PairingInv, PairsAreKeyed, PairsAreFifo, SameEnvelope, IsRecv
<1> QED BY <1>2, <1>3, <1>4 DEF PairingInv

\* The heart of the argument: matching receive i with the first unused send of
\* its envelope keeps the pairs in order.
LEMMA MatchStep ==
  ASSUME MTypeOK, MTypeOK', PairingInv, MatchRecv
  PROVE  PairingInv'
<1>1. PICK s \in Positions :
        /\ FirstCandidate(s, i)
        /\ used' = [used EXCEPT ![i] = TRUE, ![s] = TRUE]
        /\ partner' = [partner EXCEPT ![i] = s]
  BY DEF MatchRecv
<1>2. /\ i \in Positions /\ IsRecv(i) /\ ~used[i] /\ phase = "match"
      /\ all' = all /\ phase' = phase /\ i' = i + 1
  BY DEF MatchRecv
<1>3. /\ IsSend(s) /\ ~used[s] /\ KeyEqual(all[s], all[i])
      /\ \A m \in Positions : ~used[m] /\ KeyEqual(all[m], all[i]) => s <= m
  <2>1. s \in Candidates(i) /\ \A m \in Candidates(i) : s <= m
    BY <1>1 DEF FirstCandidate
  <2>2. IsSend(s) /\ ~used[s] /\ KeyEqual(all[s], all[i])
    BY <2>1 DEF Candidates
  <2>3. \A m \in Positions : ~used[m] /\ KeyEqual(all[m], all[i]) => m \in Candidates(i)
    BY <1>2, KeyEqualKinds DEF Candidates
  <2> QED BY <2>1, <2>2, <2>3
<1>4. s # i
  BY <1>2, <1>3, KeyEqualKinds
<1>5. Positions' = Positions /\ Positions \subseteq Nat /\ 0 \notin Positions
  BY <1>2 DEF Positions
<1>6. \A k \in Positions : used'[k] = (used[k] \/ k = i \/ k = s)
  BY <1>1, <1>2 DEF MTypeOK
<1>7. \A k \in Positions : partner'[k] = IF k = i THEN s ELSE partner[k]
  BY <1>1, <1>2 DEF MTypeOK
<1>8. i \notin Matched /\ Matched' = Matched \cup {i}
  <2>1. i \notin Matched
    BY <1>2 DEF PairingInv, Marks
  <2> QED BY <2>1, <1>2, <1>5, <1>7 DEF Matched
<1>9. \A k \in Matched : k \in Positions /\ k # i /\ k < i /\ partner[k] \in Positions
                          /\ partner[k] # s /\ used[partner[k]]
  <2> SUFFICES ASSUME NEW k \in Matched
               PROVE  /\ k \in Positions /\ k # i /\ k < i /\ partner[k] \in Positions
                      /\ partner[k] # s /\ used[partner[k]]
    OBVIOUS
  <2>1. k \in Positions /\ k # i /\ k < i /\ used[partner[k]]
    BY <1>2, <1>8 DEF PairingInv, Marks, Matched
  <2>2. partner[k] \in 0..Len(all) /\ partner[k] # 0
    BY <2>1 DEF Matched, MTypeOK
  <2>3. partner[k] \in Positions
    BY <2>2 DEF Positions
  <2> QED BY <2>1, <2>3, <1>3
<1>10. Marks'
  <2>1. \A k \in Matched' : IsRecv(k)' /\ used'[k] /\ used'[partner'[k]]
    <3> SUFFICES ASSUME NEW k \in Matched' PROVE IsRecv(k)' /\ used'[k] /\ used'[partner'[k]]
      OBVIOUS
    <3>1. CASE k = i
      BY <3>1, <1>2, <1>6, <1>7 DEF IsRecv
    <3>2. CASE k \in Matched
      BY <3>2, <1>2, <1>6, <1>7, <1>9 DEF IsRecv, PairingInv, Marks
    <3> QED BY <3>1, <3>2, <1>8
  <2>2. \A k \in Positions' : IsRecv(k)' /\ used'[k] => k \in Matched'
    BY <1>2, <1>3, <1>5, <1>6, <1>8, KeyEqualKinds DEF IsRecv, IsSend, PairingInv, Marks
  <2>3. \A k \in Positions' : IsSend(k)' /\ used'[k] => \E m \in Matched' : partner'[m] = k
    <3> SUFFICES ASSUME NEW k \in Positions, IsSend(k), used'[k]
                 PROVE  \E m \in Matched' : partner'[m] = k
      BY <1>2, <1>5 DEF IsSend
    <3>1. CASE k = s
      BY <3>1, <1>2, <1>7, <1>8
    <3>2. CASE used[k]
      <4>1. PICK m \in Matched : partner[m] = k
        BY <3>2 DEF PairingInv, Marks
      <4> QED BY <4>1, <1>7, <1>8, <1>9
    <3> QED BY <3>1, <3>2, <1>2, <1>6 DEF IsRecv, IsSend
  <2>4. phase' = "match" => \A k \in Matched' : k < i'
    <3>1. i \in Nat
      BY <1>2, <1>5
    <3>2. ASSUME NEW k \in Matched' PROVE k < i + 1
      <4>1. k \in Nat /\ (k = i \/ k < i)
        BY <1>2, <1>5, <1>8, <1>9
      <4> QED BY <3>1, <4>1
    <3> QED BY <3>2, <1>2
  <2>5. phase' # "idle"
    BY <1>2
  <2> QED BY <2>1, <2>2, <2>3, <2>4, <2>5 DEF Marks
<1>11. NothingLeftBehind'
  <2> SUFFICES ASSUME NEW j \in Positions, NEW k \in Positions,
                      k < i + 1, ~used'[k], KeyEqual(all[j], all[k])
               PROVE  used'[j]
    BY <1>2, <1>5 DEF NothingLeftBehind, Passed
  <2>1. k # i /\ ~used[k]
    BY <1>2, <1>6
  <2>2. k < i
    BY <2>1, <1>2, <1>5
  <2> QED BY <2>1, <2>2, <1>2, <1>6 DEF PairingInv, NothingLeftBehind, Passed
<1>12. PairsAreKeyed'
  <2>1. \A k \in Matched' : KeyEqual(all[partner'[k]], all[k])
    BY <1>3, <1>7, <1>8, <1>9, <1>2 DEF PairingInv, PairsAreKeyed
  <2>2. \A k, m \in Matched' : partner'[k] = partner'[m] => k = m
    BY <1>7, <1>8, <1>9, <1>2 DEF PairingInv, PairsAreKeyed
  <2> QED BY <2>1, <2>2, <1>2 DEF PairsAreKeyed
<1>13. PairsAreFifo'
  <2> SUFFICES ASSUME NEW k \in Matched'
               PROVE  /\ \A m \in 1..(k - 1) : SameEnvelope(m, k) =>
                            m \in Matched' /\ partner'[m] < partner'[k]
                      /\ \A j \in 1..(partner'[k] - 1) : KeyEqual(all[j], all[k]) =>
                            \E m \in Matched' : m < k /\ partner'[m] = j
    BY <1>2 DEF PairsAreFifo, SameEnvelope, IsRecv
  <2>1. CASE k = i
    <3>1. ASSUME NEW m \in 1..(i - 1), SameEnvelope(m, i)
          PROVE  m \in Matched' /\ partner'[m] < s
      <4>1. m \in Positions /\ m < i
        BY <1>2, Bounds
      <4>2. KeyEqual(all[s], all[m])
        BY <3>1, <4>1, <1>2, <1>3, EnvelopeSends
      <4>3. used[m]
        BY <4>1, <4>2, <1>2, <1>3 DEF PairingInv, NothingLeftBehind, Passed
      <4>4. m \in Matched
        BY <3>1, <4>1, <4>3 DEF SameEnvelope, PairingInv, Marks
      <4>5. partner[m] \in Positions /\ partner[m] # s
        BY <4>4, <1>9
      <4>6. ASSUME s < partner[m] PROVE FALSE
        <5>1. s \in 1..(partner[m] - 1)
          BY <4>5, <4>6 DEF Positions
        <5>2. PICK q \in Matched : partner[q] = s
          BY <4>2, <4>4, <5>1 DEF PairingInv, PairsAreFifo
        <5> QED BY <5>2, <1>9
      <4>7. partner[m] < s
        <5>1. s \in Nat /\ partner[m] \in Nat
          BY <4>5, <1>5
        <5> QED BY <4>5, <4>6, <5>1
      <4> QED BY <4>1, <4>4, <4>7, <1>7, <1>8, <1>2
    <3>2. ASSUME NEW j \in 1..(s - 1), KeyEqual(all[j], all[i])
          PROVE  \E m \in Matched' : m < i /\ partner'[m] = j
      <4>1. j \in Positions /\ j < s
        BY <1>5, Bounds
      <4>2. used[j] /\ IsSend(j)
        BY <3>2, <4>1, <1>2, <1>3, <1>5, KeyEqualKinds
      <4>3. PICK m \in Matched : partner[m] = j
        BY <4>1, <4>2 DEF PairingInv, Marks
      <4> QED BY <4>3, <1>7, <1>8, <1>9
    <3> QED BY <2>1, <3>1, <3>2, <1>2, <1>7
  <2>2. CASE k \in Matched
    <3>1. partner'[k] = partner[k] /\ k \in Positions
      BY <2>2, <1>7, <1>9
    <3>2. ASSUME NEW m \in 1..(k - 1), SameEnvelope(m, k)
          PROVE  m \in Matched' /\ partner'[m] < partner'[k]
      <4>1. m \in Matched /\ partner[m] < partner[k]
        BY <2>2, <3>2 DEF PairingInv, PairsAreFifo
      <4> QED BY <4>1, <3>1, <1>7, <1>8, <1>9
    <3>3. ASSUME NEW j \in 1..(partner[k] - 1), KeyEqual(all[j], all[k])
          PROVE  \E m \in Matched' : m < k /\ partner'[m] = j
      <4>1. PICK m \in Matched : m < k /\ partner[m] = j
        BY <2>2, <3>3 DEF PairingInv, PairsAreFifo
      <4> QED BY <4>1, <1>7, <1>8, <1>9
    <3> QED BY <3>1, <3>2, <3>3
  <2> QED BY <2>1, <2>2, <1>8
<1> QED BY <1>10, <1>11, <1>12, <1>13 DEF PairingInv

\* Nothing is paired at first.
LEMMA InitPairing == MInit => PairingInv
BY DEF AInit, MInit, PairingInv, Marks, NothingLeftBehind, PairsAreKeyed, PairsAreFifo,
       Matched, Positions, Passed

\* Nothing is paired when the array arrives.
LEMMA StartPairing ==
  ASSUME MStart PROVE PairingInv'
<1>1. PICK a \in Arrays : Analyze(a)
  BY DEF MStart
<1>2. Len(a) \in Nat
  BY DEF Arrays
<1>3. /\ Positions' = 1..Len(a) /\ phase' = "match" /\ i' = 1
      /\ \A k \in 1..Len(a) : used'[k] = FALSE /\ partner'[k] = 0
  BY <1>1 DEF Analyze, Positions
<1>4. Matched' = {}
  BY <1>3 DEF Matched
<1> QED
  BY <1>2, <1>3, <1>4 DEF PairingInv, Marks, NothingLeftBehind, PairsAreKeyed, PairsAreFifo, Passed

\* Every step of the two loops keeps the invariant of the pairing.
LEMMA NextPairing ==
  ASSUME MTypeOK, MTypeOK', PairingInv, [MNext]_mvars
  PROVE  PairingInv'
<1>1. CASE MStart
  BY <1>1, StartPairing
<1>2. CASE SkipEvent
  <2>1. /\ all' = all /\ used' = used /\ partner' = partner /\ phase' = phase
        /\ phase = "match" /\ i' = i + 1 /\ i \in Positions /\ (~IsRecv(i) \/ used[i])
    BY <1>2 DEF SkipEvent
  <2>2. Positions' = Positions /\ i \in Nat
    BY <2>1 DEF Positions
  <2>3. \A k \in Positions : Passed(k)' /\ ~Passed(k) => k = i
    BY <2>1, <2>2 DEF Passed, Positions
  <2>4. \A k \in Positions : Passed(k)' /\ ~Passed(k) /\ ~used[k] =>
            \A j \in Positions : KeyEqual(all[j], all[k]) => used[j]
    BY <2>1, <2>3, KeyEqualKinds
  <2>5. i' >= i
    BY <2>1, <2>2
  <2> QED BY <2>1, <2>4, <2>5, QuietStep
<1>3. CASE MatchRecv
  BY <1>3, MatchStep
<1>4. CASE UnmatchedRecv
  <2>1. /\ all' = all /\ used' = used /\ partner' = partner /\ phase' = phase
        /\ phase = "match" /\ i' = i + 1 /\ i \in Positions /\ Candidates(i) = {}
    BY <1>4 DEF UnmatchedRecv
  <2>2. Positions' = Positions /\ i \in Nat
    BY <2>1 DEF Positions
  <2>3. \A k \in Positions : Passed(k)' /\ ~Passed(k) => k = i
    BY <2>1, <2>2 DEF Passed, Positions
  <2>4. \A j \in Positions : KeyEqual(all[j], all[i]) => used[j]
    BY <2>1, KeyEqualKinds DEF Candidates
  <2>5. i' >= i
    BY <2>1, <2>2
  <2> QED BY <2>1, <2>3, <2>4, <2>5, QuietStep
<1>5. CASE EndMatching
  <2>1. /\ all' = all /\ used' = used /\ partner' = partner
        /\ phase' = "sends" /\ phase = "match" /\ i > Len(all)
    BY <1>5 DEF EndMatching
  <2>2. Len(all) \in Nat /\ i \in Nat
    BY Bounds
  <2>3. \A k \in Positions : Passed(k)
    BY <2>1, <2>2 DEF Passed, Positions
  <2> QED BY <2>1, <2>3, QuietStep
<1>6. CASE ReportSend
  <2>1. /\ all' = all /\ used' = used /\ partner' = partner
        /\ phase' = "sends" /\ phase = "sends"
    BY <1>6 DEF ReportSend
  <2>2. \A k \in Positions : Passed(k)
    BY <2>1 DEF Passed
  <2> QED BY <2>1, <2>2, QuietStep
<1>7. CASE EndSends
  <2>1. /\ all' = all /\ used' = used /\ partner' = partner
        /\ phase' = "done" /\ phase = "sends"
    BY <1>7 DEF EndSends
  <2>2. \A k \in Positions : Passed(k)
    BY <2>1 DEF Passed
  <2> QED BY <2>1, <2>2, QuietStep
<1>8. CASE UNCHANGED mvars
  <2>1. /\ all' = all /\ used' = used /\ partner' = partner /\ phase' = phase /\ i' = i
    BY <1>8 DEF mvars
  <2>2. \A k \in Positions : Passed(k)' => Passed(k)
    BY <2>1 DEF Passed, Positions
  <2>3. i' >= i
    BY <2>1 DEF MTypeOK, Positions
  <2> QED BY <2>1, <2>2, <2>3, QuietStep
<1> QED BY <1>1, <1>2, <1>3, <1>4, <1>5, <1>6, <1>7, <1>8 DEF MNext, MStep

\* The inductive invariant of the pairing holds throughout the analysis.
THEOREM PairingInvariant == MSpec => []PairingInv
<1>1. MTypeOK /\ MTypeOK' /\ PairingInv /\ [MNext]_mvars => PairingInv'
  BY NextPairing
<1> QED BY <1>1, InitPairing, MatcherTypeCorrect, PTL DEF MSpec

\* For every set of arrays: no send is given to two receives, and no receive a
\* send of another envelope.
THEOREM PairsKeyed == MSpec => []PairsAreKeyed
<1>1. PairingInv => PairsAreKeyed
  BY DEF PairingInv
<1> QED BY <1>1, PairingInvariant, PTL

\* For every set of arrays: the pairs of an envelope are in MPI's order.
THEOREM PairsFifo == MSpec => []PairsAreFifo
<1>1. PairingInv => PairsAreFifo
  BY DEF PairingInv
<1> QED BY <1>1, PairingInvariant, PTL

\* For every set of arrays: when loop 1 is over, no receive was left unmatched
\* next to a send of its envelope.
THEOREM NothingLeft == MSpec => []NothingPairableLeft
<1>1. PairingInv => NothingPairableLeft
  BY DEF PairingInv, NothingLeftBehind, NothingPairableLeft, Passed
<1> QED BY <1>1, PairingInvariant, PTL

-----------------------------------------------------------------------------
(* The refinement of FifoPairing.                                           *)

Pairs == {<<partner[k], k>> : k \in Matched}

Stage == IF phase \in {"match", "sends"} THEN "pairing" ELSE phase

\* A send or receive is free in the abstract pairing when it is unmarked.
LEMMA FreeIsUnused ==
  ASSUME MTypeOK, PairingInv, NEW k \in Positions, IsSend(k) \/ IsRecv(k)
  PROVE  Pairing!Free(k) <=> ~used[k]
<1>1. ASSUME used[k] PROVE ~Pairing!Free(k)
  <2>1. CASE IsRecv(k)
    <3>1. k \in Matched
      BY <1>1, <2>1 DEF PairingInv, Marks
    <3>2. <<partner[k], k>> \in Pairs /\ <<partner[k], k>>[2] = k
      BY <3>1 DEF Pairs
    <3> QED BY <3>2 DEF Pairing!Free, Pairs
  <2>2. CASE IsSend(k)
    <3>1. PICK m \in Matched : partner[m] = k
      BY <1>1, <2>2 DEF PairingInv, Marks
    <3>2. <<partner[m], m>> \in Pairs /\ <<partner[m], m>>[1] = k
      BY <3>1 DEF Pairs
    <3> QED BY <3>2 DEF Pairing!Free, Pairs
  <2> QED BY <2>1, <2>2
<1>2. ASSUME ~used[k], NEW p \in Pairs PROVE k # p[1] /\ k # p[2]
  <2>1. PICK m \in Matched : p = <<partner[m], m>>
    BY <1>2 DEF Pairs
  <2>2. p[1] = partner[m] /\ p[2] = m /\ used[m] /\ used[partner[m]]
    BY <2>1 DEF PairingInv, Marks
  <2> QED BY <1>2, <2>2
<1> QED BY <1>1, <1>2 DEF Pairing!Free, Pairs

\* Two positions can be paired when they are unmarked and of one envelope.
LEMMA PairableIsUnused ==
  ASSUME MTypeOK, PairingInv, NEW j \in Positions, NEW k \in Positions
  PROVE  Pairing!Pairable(j, k) <=> ~used[j] /\ ~used[k] /\ KeyEqual(all[j], all[k])
<1>1. KeyEqual(all[j], all[k]) =>
        (Pairing!Free(j) <=> ~used[j]) /\ (Pairing!Free(k) <=> ~used[k])
  BY KeyEqualKinds, FreeIsUnused
<1>2. j \in 1..Len(all) /\ k \in 1..Len(all)
  BY DEF Positions
<1>3. Pairing!Pairable(j, k) <=>
        Pairing!Free(j) /\ Pairing!Free(k) /\ KeyEqual(all[j], all[k])
  BY <1>2 DEF Pairing!Pairable, Pairing!KeyEqual, KeyEqual
<1> QED BY <1>1, <1>3, Zenon

\* A receive that is matched is a pair of the abstract pairing.
LEMMA PairStep ==
  ASSUME MTypeOK, MTypeOK', PairingInv, MatchRecv
  PROVE  Pairing!FNext
<1>1. PICK s \in Positions :
        /\ FirstCandidate(s, i)
        /\ partner' = [partner EXCEPT ![i] = s]
  BY DEF MatchRecv
<1>2. /\ i \in Positions /\ IsRecv(i) /\ ~used[i] /\ phase = "match"
      /\ all' = all /\ phase' = phase
  BY DEF MatchRecv
<1>3. /\ ~used[s] /\ KeyEqual(all[s], all[i])
      /\ \A m \in Positions : ~used[m] /\ KeyEqual(all[m], all[i]) => s <= m
  <2>1. s \in Candidates(i) /\ \A m \in Candidates(i) : s <= m
    BY <1>1 DEF FirstCandidate
  <2>2. \A m \in Positions : ~used[m] /\ KeyEqual(all[m], all[i]) => m \in Candidates(i)
    BY <1>2, KeyEqualKinds DEF Candidates
  <2> QED BY <2>1, <2>2 DEF Candidates
<1>4. Positions' = Positions /\ Positions \subseteq Nat /\ 0 \notin Positions /\ Len(all) \in Nat
  BY <1>2, Bounds DEF Positions
<1>5. Pairing!Pairable(s, i)
  BY <1>2, <1>3, PairableIsUnused
<1>6. ASSUME NEW m \in 1..(s - 1) PROVE ~Pairing!Pairable(m, i)
  <2>1. m \in Positions /\ m < s
    BY <1>4 DEF Positions
  <2>2. ~(s <= m)
    BY <2>1, <1>4
  <2> QED BY <2>1, <2>2, <1>2, <1>3, PairableIsUnused
<1>7. ASSUME NEW m \in 1..(i - 1) PROVE ~Pairing!Pairable(s, m)
  <2>1. m \in Positions /\ m < i
    BY <1>2, <1>4 DEF Positions
  <2>2. SUFFICES ASSUME ~used[m], KeyEqual(all[s], all[m]) PROVE FALSE
    BY <2>1, PairableIsUnused
  <2> QED BY <2>1, <2>2, <1>2, <1>3 DEF PairingInv, NothingLeftBehind, Passed
<1>8. Pairs' = Pairs \cup {<<s, i>>}
  <2>1. i \notin Matched
    BY <1>2 DEF PairingInv, Marks
  <2>2. \A k \in Positions : partner'[k] = IF k = i THEN s ELSE partner[k]
    BY <1>1, <1>2 DEF MTypeOK
  <2>3. Matched' = Matched \cup {i} /\ Matched \subseteq Positions
    BY <2>1, <2>2, <1>4, <1>2 DEF Matched
  <2>4. /\ partner'[i] = s
        /\ \A k \in Matched : partner'[k] = partner[k]
    BY <2>1, <2>2, <2>3, <1>2
  <2> QED BY <2>3, <2>4 DEF Pairs
<1>9. Stage = "pairing" /\ Stage' = "pairing"
  BY <1>2 DEF Stage
<1>10. PICK r \in Positions : r = i
  BY <1>2
<1>11. Pairing!Pair(s, r)
  BY <1>2, <1>5, <1>6, <1>7, <1>8, <1>9, <1>10 DEF Pairing!Pair, Pairs, Stage
<1>12. s \in 1..Len(all) /\ r \in 1..Len(all)
  BY DEF Positions
<1> QED BY <1>11, <1>12, Zenon DEF Pairing!FNext

\* Leaving loop 2 ends the abstract pairing: nothing pairable is left.
LEMMA FinishStep ==
  ASSUME MTypeOK, PairingInv, EndSends
  PROVE  Pairing!Finish
<1>1. /\ phase = "sends" /\ phase' = "done" /\ all' = all /\ used' = used /\ partner' = partner
  BY DEF EndSends
<1>2. Pairs' = Pairs
  BY <1>1 DEF Pairs, Matched, Positions
<1>3. \A j, k \in Positions : ~Pairing!Pairable(j, k)
  BY <1>1, PairableIsUnused DEF PairingInv, NothingLeftBehind, Passed
<1> QED BY <1>1, <1>2, <1>3 DEF Pairing!Finish, Pairs, Positions

\* Entering the analysis loads the array of the abstract pairing.
LEMMA LoadStep ==
  ASSUME MTypeOK, PairingInv, MStart
  PROVE  Pairing!Load
<1>1. PICK a \in Arrays : Analyze(a)
  BY DEF MStart
<1>2. Matched = {}
  BY <1>1 DEF Analyze, PairingInv, Marks, Matched, Positions
<1>3. Len(a) \in Nat /\ all' = a /\ partner' = [k \in 1..Len(a) |-> 0]
  BY <1>1 DEF Arrays, Analyze
<1>4. Matched' = {}
  BY <1>3 DEF Matched, Positions
<1>5. phase = "idle" /\ phase' = "match"
  BY <1>1 DEF Analyze
<1>6. all' \in Seq(Event)
  BY <1>3 DEF Arrays
<1> QED BY <1>2, <1>4, <1>5, <1>6 DEF Pairing!Load

\* The loops of detector.c, for every set of arrays, pair the events as
\* FifoPairing allows: each step of the loops is a step of it or none.
THEOREM Refinement == MSpec => ImplementsPairing
<1>1. MInit => Pairing!FInit
  BY DEF AInit, MInit, Pairing!FInit, Matched, Positions
<1>2. MTypeOK /\ MTypeOK' /\ PairingInv /\ [MNext]_mvars => [Pairing!FNext]_(Pairing!fvars)
  <2> SUFFICES ASSUME MTypeOK, MTypeOK', PairingInv, [MNext]_mvars
               PROVE  Pairing!FNext \/ UNCHANGED Pairing!fvars
    OBVIOUS
  <2>1. CASE MStart
    BY <2>1, LoadStep DEF Pairing!FNext
  <2>2. CASE MatchRecv
    BY <2>2, PairStep
  <2>3. CASE EndSends
    BY <2>3, FinishStep DEF Pairing!FNext
  <2>4. CASE SkipEvent \/ UnmatchedRecv \/ EndMatching \/ ReportSend \/ UNCHANGED mvars
    <3>1. all' = all /\ partner' = partner
      BY <2>4 DEF SkipEvent, UnmatchedRecv, EndMatching, ReportSend, mvars
    <3>2. Stage' = Stage
      BY <2>4 DEF SkipEvent, UnmatchedRecv, EndMatching, ReportSend, mvars, Stage
    <3>3. Pairs' = Pairs
      BY <3>1 DEF Pairs, Matched, Positions
    <3> QED BY <3>1, <3>2, <3>3 DEF Pairing!fvars, Pairs, Stage
  <2> QED BY <2>1, <2>2, <2>3, <2>4 DEF MNext, MStep
<1> QED BY <1>1, <1>2, MatcherTypeCorrect, PairingInvariant, PTL
       DEF MSpec, ImplementsPairing, Pairing!FSpec

-----------------------------------------------------------------------------
(* The counters of the summary.                                             *)

TypeDiff == {k \in Matched : all[partner[k]].type_name # all[k].type_name}
SizeDiff == {k \in Matched : all[partner[k]].nbytes # all[k].nbytes}
SumDiff  == {k \in Matched : all[partner[k]].checksum # all[k].checksum}
LatDiff == {k \in Matched : all[partner[k]].timestamp < all[k].timestamp}

\* The ticks of the clock between the two events of a pair.
Gap(k) == all[k].timestamp - all[partner[k]].timestamp
GapTicks(k) == {<<k, n>> : n \in 1..Gap(k)}
LatTicks == UNION {GapTicks(k) : k \in Matched}

LeftRecvs == {k \in Positions : Passed(k) /\ IsRecv(k) /\ ~used[k]}

LeftSends == {k \in Positions : /\ IsSend(k) /\ ~used[k]
                                /\ phase = "done" \/ (phase = "sends" /\ k < i)}

\* Each counter is the size of the set of events it has counted so far.
CountInv ==
    /\ matched_pairs = Cardinality(Matched)
    /\ type_mismatch_count = Cardinality(TypeDiff)
    /\ size_mismatch_count = Cardinality(SizeDiff)
    /\ integrity_count = Cardinality(SumDiff)
    /\ lat_count = Cardinality(LatDiff)
    /\ IsFiniteSet(LatTicks) /\ total_lat = Cardinality(LatTicks)
    /\ unmatched_recv_count = Cardinality(LeftRecvs)
    /\ unmatched_send_count = Cardinality(LeftSends)

\* The sets that are counted are finite.
LEMMA FiniteParts ==
  ASSUME MTypeOK
  PROVE  \A S \in SUBSET Positions : IsFiniteSet(S) /\ Cardinality(S) \in Nat
<1>1. Len(all) \in Nat
  BY DEF MTypeOK
<1>2. IsFiniteSet(Positions)
  BY <1>1, FS_Interval DEF Positions
<1> QED BY <1>2, FS_Subset, FS_CardinalityType

\* Counting one more element, or not.
LEMMA CountStep ==
  ASSUME NEW S, IsFiniteSet(S), NEW x, x \notin S, NEW b \in BOOLEAN, NEW T,
         b => T = S \cup {x}, ~b => T = S
  PROVE  Cardinality(T) = Cardinality(S) + Count(b)
<1>1. Cardinality(S) \in Nat
  BY FS_CardinalityType
<1>2. CASE b
  BY <1>2, FS_AddElement DEF Count
<1>3. CASE ~b
  BY <1>1, <1>3 DEF Count
<1> QED BY <1>2, <1>3

\* The size of a set that consists of two others with nothing in common.
LEMMA DisjointUnion ==
  ASSUME NEW S, IsFiniteSet(S), NEW T, IsFiniteSet(T), S \cap T = {}
  PROVE  Cardinality(S \cup T) = Cardinality(S) + Cardinality(T)
<1>1. Cardinality(S \cup T) = Cardinality(S) + Cardinality(T) - Cardinality(S \cap T)
  BY FS_Union
<1>2. Cardinality(S \cap T) = 0
  BY FS_EmptySet
<1>3. Cardinality(S) \in Nat /\ Cardinality(T) \in Nat
  BY FS_CardinalityType
<1> QED BY <1>1, <1>2, <1>3

\* Without pairs there are no ticks between their events.
LEMMA NoTicks == ASSUME Matched = {} PROVE LatTicks = {}
BY DEF LatTicks

\* There are as many ticks between two events as the clock went on.
LEMMA TicksCount ==
  ASSUME NEW x, NEW n \in Int
  PROVE  /\ IsFiniteSet({<<x, t>> : t \in 1..n})
         /\ Cardinality({<<x, t>> : t \in 1..n}) = IF n > 0 THEN n ELSE 0
<1> DEFINE T == {<<x, t>> : t \in 1..n}
           f == [t \in 1..n |-> <<x, t>>]
<1>1. IsFiniteSet(1..n) /\ Cardinality(1..n) = IF n > 0 THEN n ELSE 0
  BY FS_Interval
<1>2. f \in [1..n -> T] /\ (\A s, t \in 1..n : f[s] = f[t] => s = t) /\ \A y \in T : \E t \in 1..n : f[t] = y
  OBVIOUS
<1> HIDE DEF f, T
<1>3. f \in Bijection(1..n, T)
  BY <1>2, Fun_IsBij
<1>4. ExistsBijection(1..n, T)
  BY <1>3 DEF ExistsBijection
<1>5. IsFiniteSet(T) /\ Cardinality(T) = Cardinality(1..n)
  BY <1>1, <1>4, FS_Bijection
<1> QED BY <1>1, <1>5 DEF T

\* All counters are zero at first.
LEMMA InitCount == MInit => CountInv
<1> SUFFICES ASSUME MInit PROVE CountInv
  OBVIOUS
<1>1. Positions = {}
  BY DEF AInit, MInit, Positions
<1>2. LatTicks = {}
  BY <1>1, NoTicks DEF Matched
<1> QED BY <1>1, <1>2, FS_EmptySet DEF AInit, MInit, CountInv, Matched, TypeDiff, SizeDiff, SumDiff, LatDiff, LeftRecvs, LeftSends

\* All counters are zero when the array arrives.
LEMMA StartCount ==
  ASSUME PairingInv, CountInv, MStart
  PROVE  CountInv'
<1>1. PICK a \in Arrays : Analyze(a)
  BY DEF MStart
<1>2. Len(a) \in Nat
  BY DEF Arrays
<1>3. /\ phase = "idle" /\ phase' = "match" /\ i' = 1 /\ Positions' = 1..Len(a)
      /\ \A k \in 1..Len(a) : partner'[k] = 0
  BY <1>1 DEF Analyze, Positions
<1>4. Positions = {}
  BY <1>3 DEF PairingInv, Marks, Positions
<1>5. /\ matched_pairs = 0 /\ type_mismatch_count = 0 /\ size_mismatch_count = 0
      /\ integrity_count = 0 /\ lat_count = 0
      /\ unmatched_recv_count = 0 /\ unmatched_send_count = 0
  BY <1>4, FS_EmptySet DEF CountInv, Matched, TypeDiff, SizeDiff, SumDiff, LatDiff, LeftRecvs, LeftSends
<1>5a. total_lat = 0
  <2>1. LatTicks = {}
    BY <1>4, NoTicks DEF Matched
  <2> QED BY <2>1, FS_EmptySet DEF CountInv
<1>6. Matched' = {}
  BY <1>3 DEF Matched
<1>7. TypeDiff' = {} /\ SizeDiff' = {} /\ SumDiff' = {} /\ LatDiff' = {}
  BY <1>6 DEF TypeDiff, SizeDiff, SumDiff, LatDiff
<1>8. LeftRecvs' = {} /\ LeftSends' = {}
  BY <1>2, <1>3 DEF LeftRecvs, LeftSends, Passed
<1>9. LatTicks' = {}
  BY <1>6 DEF LatTicks
<1> QED BY <1>1, <1>5, <1>5a, <1>6, <1>7, <1>8, <1>9, FS_EmptySet DEF CountInv, Analyze, counters, mismatches

\* A matching step counts one pair, and one mismatch of each kind that the pair
\* shows.
LEMMA MatchCount ==
  ASSUME MTypeOK, MTypeOK', PairingInv, CountInv, MatchRecv
  PROVE  CountInv'
<1>1. PICK s \in Positions :
        /\ FirstCandidate(s, i)
        /\ used' = [used EXCEPT ![i] = TRUE, ![s] = TRUE]
        /\ partner' = [partner EXCEPT ![i] = s]
        /\ Compare(all[s], all[i])
  BY DEF MatchRecv
<1>2. /\ i \in Positions /\ IsRecv(i) /\ ~used[i] /\ phase = "match"
      /\ all' = all /\ phase' = phase /\ i' = i + 1 /\ matched_pairs' = matched_pairs + 1
      /\ unmatched_recv_count' = unmatched_recv_count
      /\ unmatched_send_count' = unmatched_send_count
  BY DEF MatchRecv
<1>3. IsSend(s) /\ s # i
  BY <1>1, <1>2 DEF FirstCandidate, Candidates, IsSend, IsRecv
<1>4. Positions' = Positions /\ Positions \subseteq Nat /\ 0 \notin Positions /\ Len(all) \in Nat
  BY <1>2, Bounds DEF Positions
<1>5. \A k \in Positions : used'[k] = (used[k] \/ k = i \/ k = s)
  BY <1>1, <1>2 DEF MTypeOK
<1>6. \A k \in Positions : partner'[k] = IF k = i THEN s ELSE partner[k]
  BY <1>1, <1>2 DEF MTypeOK
<1>7. i \notin Matched
  BY <1>2 DEF PairingInv, Marks
<1>8. Matched' = Matched \cup {i} /\ Matched \subseteq Positions
  BY <1>2, <1>4, <1>6 DEF Matched
<1>9. partner'[i] = s /\ \A k \in Matched : partner'[k] = partner[k]
  BY <1>2, <1>6, <1>7, <1>8
<1>10. TypeDiff \in SUBSET Positions /\ SizeDiff \in SUBSET Positions /\ SumDiff \in SUBSET Positions
       /\ LatDiff \in SUBSET Positions
       /\ i \notin TypeDiff /\ i \notin SizeDiff /\ i \notin SumDiff /\ i \notin LatDiff
  BY <1>7, <1>8 DEF TypeDiff, SizeDiff, SumDiff, LatDiff
<1>11. matched_pairs' = Cardinality(Matched')
  BY <1>2, <1>7, <1>8, FiniteParts, FS_AddElement DEF CountInv
<1>12. type_mismatch_count' = Cardinality(TypeDiff')
  <2> DEFINE b == all[s].type_name # all[i].type_name
  <2>1. (b => TypeDiff' = TypeDiff \cup {i}) /\ (~b => TypeDiff' = TypeDiff)
    BY <1>2, <1>7, <1>8, <1>9 DEF TypeDiff
  <2>2. type_mismatch_count' = type_mismatch_count + Count(b)
    BY <1>1 DEF Compare
  <2>3. IsFiniteSet(TypeDiff) /\ b \in BOOLEAN
    BY <1>10, FiniteParts
  <2> HIDE DEF b
  <2> QED BY <2>1, <2>2, <2>3, <1>10, CountStep DEF CountInv
<1>13. size_mismatch_count' = Cardinality(SizeDiff')
  <2> DEFINE b == all[s].nbytes # all[i].nbytes
  <2>1. (b => SizeDiff' = SizeDiff \cup {i}) /\ (~b => SizeDiff' = SizeDiff)
    BY <1>2, <1>7, <1>8, <1>9 DEF SizeDiff
  <2>2. size_mismatch_count' = size_mismatch_count + Count(b)
    BY <1>1 DEF Compare
  <2>3. IsFiniteSet(SizeDiff) /\ b \in BOOLEAN
    BY <1>10, FiniteParts
  <2> HIDE DEF b
  <2> QED BY <2>1, <2>2, <2>3, <1>10, CountStep DEF CountInv
<1>14. integrity_count' = Cardinality(SumDiff')
  <2> DEFINE b == all[s].checksum # all[i].checksum
  <2>1. (b => SumDiff' = SumDiff \cup {i}) /\ (~b => SumDiff' = SumDiff)
    BY <1>2, <1>7, <1>8, <1>9 DEF SumDiff
  <2>2. integrity_count' = integrity_count + Count(b)
    BY <1>1 DEF Compare, Corrupt
  <2>3. IsFiniteSet(SumDiff) /\ b \in BOOLEAN
    BY <1>10, FiniteParts
  <2> HIDE DEF b
  <2> QED BY <2>1, <2>2, <2>3, <1>10, CountStep DEF CountInv
<1>14a. lat_count' = Cardinality(LatDiff')
  <2> DEFINE b == all[i].timestamp > all[s].timestamp
  <2>0. all[s].timestamp \in Int /\ all[i].timestamp \in Int
    BY <1>2, Bounds
  <2>0a. b <=> all[s].timestamp < all[i].timestamp
    BY <2>0
  <2>0b. b \in BOOLEAN
    OBVIOUS
  <2> HIDE DEF b
  <2>1. (b => LatDiff' = LatDiff \cup {i}) /\ (~b => LatDiff' = LatDiff)
    BY <2>0a, <1>2, <1>7, <1>8, <1>9 DEF LatDiff
  <2>2. lat_count' = lat_count + Count(b)
    BY <1>1 DEF Compare, Later, b
  <2>3. IsFiniteSet(LatDiff)
    BY <1>10, FiniteParts
  <2> QED BY <2>0b, <2>1, <2>2, <2>3, <1>10, CountStep DEF CountInv
<1>14b. IsFiniteSet(LatTicks') /\ total_lat' = Cardinality(LatTicks')
  <2> DEFINE n == all[i].timestamp - all[s].timestamp
             new == {<<i, t>> : t \in 1..n}
  <2>1. n \in Int /\ all[s].timestamp \in Int /\ all[i].timestamp \in Int
    BY <1>2, Bounds
  <2>2. total_lat' = total_lat + IF n > 0 THEN n ELSE 0
    BY <1>1, <2>1 DEF Compare, Later
  <2>3. \A k : /\ k = i => GapTicks(k)' = new
               /\ k \in Matched => GapTicks(k)' = GapTicks(k)
    BY <1>2, <1>9 DEF GapTicks, Gap
  <2>4. LatTicks' = LatTicks \cup new
    BY <1>8, <2>3 DEF LatTicks
  <2>5. LatTicks \cap new = {}
    BY <1>7 DEF LatTicks, GapTicks
  <2> HIDE DEF n
  <2>6. IsFiniteSet(new) /\ Cardinality(new) = IF n > 0 THEN n ELSE 0
    BY <2>1, TicksCount
  <2> HIDE DEF new
  <2>7. IsFiniteSet(LatTicks) /\ total_lat = Cardinality(LatTicks)
    BY DEF CountInv
  <2>8. IsFiniteSet(LatTicks \cup new)
    BY <2>6, <2>7, FS_Union
  <2>9. Cardinality(LatTicks \cup new) = Cardinality(LatTicks) + Cardinality(new)
    BY <2>5, <2>6, <2>7, DisjointUnion
  <2> QED BY <2>2, <2>4, <2>6, <2>7, <2>8, <2>9
<1>15. LeftRecvs' = LeftRecvs
  <2>1. ASSUME NEW k \in Positions
        PROVE  (Passed(k) /\ IsRecv(k) /\ ~used[k])' <=> Passed(k) /\ IsRecv(k) /\ ~used[k]
    <3>1. CASE k = i
      <4>1. used'[k]
        BY <3>1, <1>5
      <4>2. ~(k < i)
        BY <3>1, <1>2, <1>4
      <4>3. ~Passed(k)
        BY <4>2, <1>2 DEF Passed
      <4> QED BY <4>1, <4>3
    <3>2. CASE k # i
      <4>1. (k < i + 1) <=> (k < i)
        BY <3>2, <1>2, <1>4
      <4>2. IsRecv(k) => k # s
        BY <1>3 DEF IsRecv, IsSend
      <4>3. Passed(k)' <=> Passed(k)
        BY <4>1, <1>2, <1>4 DEF Passed
      <4>4. IsRecv(k)' <=> IsRecv(k)
        BY <1>2 DEF IsRecv
      <4>5. IsRecv(k) => used'[k] = used[k]
        BY <3>2, <4>2, <1>5 DEF MTypeOK
      <4> QED BY <4>3, <4>4, <4>5
    <3> QED BY <3>1, <3>2
  <2> QED BY <2>1, <1>4 DEF LeftRecvs
<1>16. LeftSends = {} /\ LeftSends' = {}
  BY <1>2 DEF LeftSends
<1> QED BY <1>2, <1>11, <1>12, <1>13, <1>14, <1>14a, <1>14b, <1>15, <1>16 DEF CountInv

\* Steps that change no mark and no partner: only the events the loops pass are
\* counted anew.
LEMMA QuietCount ==
  ASSUME CountInv, all' = all, used' = used, partner' = partner,
         matched_pairs' = matched_pairs, type_mismatch_count' = type_mismatch_count,
         size_mismatch_count' = size_mismatch_count, integrity_count' = integrity_count,
         lat_count' = lat_count, total_lat' = total_lat,
         unmatched_recv_count' = Cardinality(LeftRecvs'),
         unmatched_send_count' = Cardinality(LeftSends')
  PROVE  CountInv'
<1>1. Matched' = Matched
  BY DEF Matched, Positions
<1>2. TypeDiff' = TypeDiff /\ SizeDiff' = SizeDiff /\ SumDiff' = SumDiff /\ LatDiff' = LatDiff
  BY <1>1 DEF TypeDiff, SizeDiff, SumDiff, LatDiff
<1>3. LatTicks' = LatTicks
  BY <1>1 DEF LatTicks, GapTicks, Gap
<1> QED BY <1>1, <1>2, <1>3 DEF CountInv

\* Every step of the two loops keeps the counters equal to what they count.
LEMMA NextCount ==
  ASSUME MTypeOK, MTypeOK', PairingInv, CountInv, [MNext]_mvars
  PROVE  CountInv'
<1> USE DEF counters, mismatches
<1>0. Len(all) \in Nat /\ i \in Nat /\ Positions \subseteq Nat
  BY Bounds
<1>1. CASE MStart
  BY <1>1, StartCount
<1>2. CASE SkipEvent
  <2>1. /\ all' = all /\ used' = used /\ partner' = partner /\ phase' = phase /\ UNCHANGED counters
        /\ phase = "match" /\ i' = i + 1 /\ i \in Positions /\ (~IsRecv(i) \/ used[i])
    BY <1>2 DEF SkipEvent
  <2>2. ASSUME NEW k \in Positions, k # i PROVE k < i + 1 <=> k < i
    BY <1>0, <2>2
  <2>3. LeftRecvs' = LeftRecvs
    BY <2>1, <2>2, <1>0 DEF LeftRecvs, Passed, IsRecv, Positions
  <2>4. LeftSends' = LeftSends
    BY <2>1 DEF LeftSends, Positions, IsSend
  <2> QED BY <2>1, <2>3, <2>4, QuietCount DEF CountInv
<1>3. CASE MatchRecv
  BY <1>3, MatchCount
<1>4. CASE UnmatchedRecv
  <2>1. /\ all' = all /\ used' = used /\ partner' = partner /\ phase' = phase
        /\ phase = "match" /\ i' = i + 1 /\ i \in Positions /\ IsRecv(i) /\ ~used[i]
        /\ unmatched_recv_count' = unmatched_recv_count + 1
        /\ matched_pairs' = matched_pairs /\ type_mismatch_count' = type_mismatch_count
        /\ size_mismatch_count' = size_mismatch_count /\ integrity_count' = integrity_count
        /\ lat_count' = lat_count /\ total_lat' = total_lat
        /\ unmatched_send_count' = unmatched_send_count
    BY <1>4 DEF UnmatchedRecv
  <2>2. ASSUME NEW k \in Positions, k # i PROVE k < i + 1 <=> k < i
    BY <1>0, <2>2
  <2>3. i < i + 1 /\ ~(i < i)
    BY <1>0
  <2>4. LeftRecvs' = LeftRecvs \cup {i} /\ i \notin LeftRecvs
    BY <2>1, <2>2, <2>3 DEF LeftRecvs, Passed, IsRecv, Positions
  <2>5. LeftRecvs \in SUBSET Positions
    BY DEF LeftRecvs
  <2>6. Cardinality(LeftRecvs') = Cardinality(LeftRecvs) + 1
    BY <2>4, <2>5, FiniteParts, FS_AddElement
  <2>7. LeftSends' = LeftSends
    BY <2>1 DEF LeftSends, Positions, IsSend
  <2> QED BY <2>1, <2>6, <2>7, QuietCount DEF CountInv
<1>5. CASE EndMatching
  <2>1. /\ all' = all /\ used' = used /\ partner' = partner /\ UNCHANGED counters
        /\ phase' = "sends" /\ phase = "match" /\ i > Len(all) /\ i' = 1
    BY <1>5 DEF EndMatching
  <2>2. \A k \in Positions : k < i /\ ~(k < 1)
    BY <2>1, <1>0 DEF Positions
  <2>3. LeftRecvs' = LeftRecvs
    BY <2>1, <2>2 DEF LeftRecvs, Passed, IsRecv, Positions
  <2>4. LeftSends' = {} /\ LeftSends = {}
    BY <2>1, <2>2 DEF LeftSends, IsSend, Positions
  <2> QED BY <2>1, <2>3, <2>4, QuietCount DEF CountInv
<1>6. CASE ReportSend
  <2> DEFINE b == IsSend(i) /\ ~used[i]
  <2>1. /\ all' = all /\ used' = used /\ partner' = partner /\ phase' = phase
        /\ phase = "sends" /\ i' = i + 1 /\ i \in Positions
        /\ unmatched_send_count' = unmatched_send_count + Count(b)
        /\ matched_pairs' = matched_pairs /\ type_mismatch_count' = type_mismatch_count
        /\ size_mismatch_count' = size_mismatch_count /\ integrity_count' = integrity_count
        /\ lat_count' = lat_count /\ total_lat' = total_lat
        /\ unmatched_recv_count' = unmatched_recv_count
    BY <1>6 DEF ReportSend
  <2>2. ASSUME NEW k \in Positions, k # i PROVE k < i + 1 <=> k < i
    BY <1>0, <2>2
  <2>3. i < i + 1 /\ ~(i < i)
    BY <1>0
  <2>4. i \notin LeftSends /\ (b => LeftSends' = LeftSends \cup {i}) /\ (~b => LeftSends' = LeftSends)
    BY <2>1, <2>2, <2>3 DEF LeftSends, IsSend, Positions
  <2>5. LeftSends \in SUBSET Positions /\ b \in BOOLEAN
    BY DEF LeftSends
  <2> HIDE DEF b
  <2>6. Cardinality(LeftSends') = Cardinality(LeftSends) + Count(b)
    BY <2>4, <2>5, FiniteParts, CountStep
  <2>7. LeftRecvs' = LeftRecvs
    BY <2>1 DEF LeftRecvs, Passed, IsRecv, Positions
  <2> QED BY <2>1, <2>6, <2>7, QuietCount DEF CountInv
<1>7. CASE EndSends
  <2>1. /\ all' = all /\ used' = used /\ partner' = partner /\ UNCHANGED counters
        /\ phase' = "done" /\ phase = "sends" /\ i > Len(all) /\ i' = i
    BY <1>7 DEF EndSends
  <2>2. \A k \in Positions : k < i
    BY <2>1, <1>0 DEF Positions
  <2>3. LeftRecvs' = LeftRecvs
    BY <2>1 DEF LeftRecvs, Passed, IsRecv, Positions
  <2>4. LeftSends' = LeftSends
    BY <2>1, <2>2 DEF LeftSends, IsSend, Positions
  <2> QED BY <2>1, <2>3, <2>4, QuietCount DEF CountInv
<1>8. CASE UNCHANGED mvars
  BY <1>8 DEF mvars, CountInv, Matched, Positions, TypeDiff, SizeDiff, SumDiff, LatDiff, LatTicks,
              GapTicks, Gap, LeftRecvs,
              LeftSends, Passed, IsRecv, IsSend
<1> QED BY <1>1, <1>2, <1>3, <1>4, <1>5, <1>6, <1>7, <1>8 DEF MNext, MStep

\* As many sends are marked as receives are matched.
LEMMA PartnersCount ==
  ASSUME MTypeOK, PairingInv
  PROVE  Cardinality({j \in Positions : IsSend(j) /\ used[j]}) = Cardinality(Matched)
<1> DEFINE T == {j \in Positions : IsSend(j) /\ used[j]}
           f == [k \in Matched |-> partner[k]]
<1>1. Positions \subseteq Nat /\ Len(all) \in Nat /\ Matched \subseteq Positions
  BY DEF MTypeOK, Positions, Matched
<1>2. ASSUME NEW k \in Matched PROVE partner[k] \in T
  <2>1. partner[k] \in 0..Len(all) /\ partner[k] # 0
    BY <1>2 DEF Matched, MTypeOK
  <2>2. partner[k] \in Positions
    BY <2>1 DEF Positions
  <2>3. KeyEqual(all[partner[k]], all[k]) /\ used[partner[k]]
    BY <1>2 DEF PairingInv, PairsAreKeyed, Marks
  <2> QED BY <2>2, <2>3 DEF KeyEqual, IsSend
<1>3. f \in [Matched -> T]
  BY <1>2
<1>4. \A a, b \in Matched : f[a] = f[b] => a = b
  BY DEF PairingInv, PairsAreKeyed
<1>5. \A t \in T : \E k \in Matched : f[k] = t
  BY DEF PairingInv, Marks
<1>6. f \in Bijection(Matched, T)
  <2> HIDE DEF f, T
  <2> QED BY <1>3, <1>4, <1>5, Fun_IsBij
<1>7. ExistsBijection(Matched, T)
  BY <1>6 DEF ExistsBijection
<1>8. IsFiniteSet(Matched)
  BY <1>1, FiniteParts
<1> HIDE DEF T
<1>9. Cardinality(T) = Cardinality(Matched)
  BY <1>7, <1>8, FS_Bijection
<1> QED BY <1>9 DEF T

\* The counters count what they say.
THEOREM CountInvariant == MSpec => []CountInv
<1>1. MTypeOK /\ MTypeOK' /\ PairingInv /\ CountInv /\ [MNext]_mvars => CountInv'
  BY NextCount
<1> QED BY <1>1, InitCount, MatcherTypeCorrect, PairingInvariant, PTL DEF MSpec

\* For every set of arrays: when the loops are over the summary accounts for
\* every send and receive exactly once, and the mismatch counts are the numbers
\* of pairs that differ.
THEOREM CountsAreExact == MSpec => []CountsAgree
<1>1. MTypeOK /\ PairingInv /\ CountInv => CountsAgree
  <2> SUFFICES ASSUME MTypeOK, PairingInv, CountInv, phase = "done"
               PROVE  CountsAgree
    BY DEF CountsAgree
  <2> DEFINE R == {k \in Positions : IsRecv(k)}
             S == {k \in Positions : IsSend(k)}
             U == {k \in Positions : IsSend(k) /\ used[k]}
  <2>1. Matched \in SUBSET Positions /\ LeftRecvs \in SUBSET Positions
        /\ LeftSends \in SUBSET Positions /\ U \in SUBSET Positions
    BY DEF Matched, LeftRecvs, LeftSends
  <2>2. R = Matched \cup LeftRecvs /\ Matched \cap LeftRecvs = {}
    BY DEF PairingInv, Marks, LeftRecvs, Passed, Matched
  <2>3. S = U \cup LeftSends /\ U \cap LeftSends = {}
    BY DEF LeftSends
  <2>4. Cardinality(U) = Cardinality(Matched)
    BY PartnersCount
  <2> HIDE DEF R, S, U
  <2>5. Cardinality(R) = Cardinality(Matched) + Cardinality(LeftRecvs)
    BY <2>1, <2>2, FiniteParts, DisjointUnion
  <2>6. Cardinality(S) = Cardinality(U) + Cardinality(LeftSends)
    BY <2>1, <2>3, FiniteParts, DisjointUnion
  <2> QED BY <2>4, <2>5, <2>6 DEF CountsAgree, CountInv, R, S, TypeDiff, SizeDiff, SumDiff, LatDiff
<1> QED BY <1>1, CountInvariant, MatcherTypeCorrect, PairingInvariant, PTL
=============================================================================
