--------------------------- MODULE DetectorProofs ---------------------------
(* Proofs about Detector: each check sees the steps of the others as steps  *)
(* of its surroundings, so that what is proved of the checks one by one     *)
(* holds of msan_analyze_events as a whole.                                 *)
EXTENDS Detector, MatcherProofs, CheckProofs, WaitGraphProofs

\* A check that has not had its turn is idle, and the array is a given one.
TurnInv ==
    /\ phase \in {"idle", "match"} => astep = "idle"
    /\ phase # "done" => rstep = "idle"
    /\ rstep # "done" => tstep = "idle"
    /\ tstep # "done" => ostep = "idle"
    /\ ostep # "done" => cstep = "idle"
    /\ cstep # "done" => gstep = "idle"
    /\ gstep # "done" => wstep = "idle"
    /\ phase # "idle" => all \in Arrays

-----------------------------------------------------------------------------
\* The matching goes on as if it were alone.
THEOREM DetectorMatches == DSpec => MSpec
<1>1. DInit => MInit
  BY DEF DInit
<1>2. [DNext]_dvars => [MNext]_mvars
  BY DEF DNext, DStep, dvars, MNext, Enter, Loops, Anomalies, Replays, Stalls, Overlaps,
         Collectives, Graph, Deadlocks, Conclude
<1> QED BY <1>1, <1>2, PTL DEF DSpec, MSpec

\* The loops keep the array, once it has arrived, and loop 2 keeps the marks.
LEMMA ArrayKept ==
  ASSUME MStep
  PROVE  /\ all' = all /\ phase # "idle" /\ phase # "done" /\ phase' # "idle"
         /\ phase # "match" => used' = used /\ phase' \notin {"idle", "match"}
BY DEF MStep, SkipEvent, MatchRecv, UnmatchedRecv, EndMatching, ReportSend, EndSends

\* The array that the matching starts with is a given one.
LEMMA ArrayArrives ==
  ASSUME MStart
  PROVE  all' \in Arrays /\ phase = "idle" /\ phase' = "match"
BY DEF MStart, Analyze

\* The checks take their turns.
THEOREM DetectorTurns == DSpec => []TurnInv
<1>1. DInit => TurnInv
  BY DEF DInit, MInit, AnomalyInit, RInit, TInit, OInit, CInit, GInit, WInit, TurnInv
<1>2. TurnInv /\ [DNext]_dvars => TurnInv'
  <2> SUFFICES ASSUME TurnInv, [DNext]_dvars PROVE TurnInv'
    OBVIOUS
  <2> USE DEF avars, sums, rvars, tvars, ovars, cvars, gvars, wvars, mvars
  <2>1. CASE Enter
    <3>1. UNCHANGED <<astep, rstep, tstep, ostep, cstep, gstep, wstep>>
      BY <2>1 DEF Enter, checks
    <3> QED BY <3>1, <2>1, ArrayArrives DEF Enter, TurnInv
  <2>2. CASE Loops
    <3>1. UNCHANGED <<astep, rstep, tstep, ostep, cstep, gstep, wstep>>
      BY <2>2 DEF Loops, checks
    <3> QED BY <3>1, <2>2, ArrayKept DEF Loops, TurnInv
  <2>3. CASE Anomalies
    BY <2>3 DEF Anomalies, TurnInv
  <2>4. CASE Replays
    <3>1. rstep # "done"
      BY <2>4 DEF Replays, RStep, BeginReplay, CheckSend, SkipSend, EndReplay
    <3> QED BY <2>4, <3>1 DEF Replays, TurnInv
  <2>5. CASE Stalls
    BY <2>5 DEF Stalls, CheckStalls, TurnInv
  <2>6. CASE Overlaps
    BY <2>6 DEF Overlaps, CheckOverlap, TurnInv
  <2>7. CASE Collectives
    <3>1. cstep # "done"
      BY <2>7 DEF Collectives, CStep, BeginCollectives, Scan, EndScan, CountRank, EndCount, CompareRank
    <3> QED BY <2>7, <3>1 DEF Collectives, TurnInv
  <2>8. CASE Graph
    <3>1. gstep # "done"
      BY <2>8 DEF Graph, GStep, BeginGraph, Draw, EndGraph
    <3> QED BY <2>8, <3>1 DEF Graph, TurnInv
  <2>9. CASE Deadlocks
    BY <2>9 DEF Deadlocks, TurnInv
  <2>10. CASE Conclude
    BY <2>10 DEF Conclude, TurnInv
  <2>11. CASE UNCHANGED dvars
    BY <2>11 DEF dvars, checks, TurnInv
  <2> QED BY <2>1, <2>2, <2>3, <2>4, <2>5, <2>6, <2>7, <2>8, <2>9, <2>10, <2>11 DEF DNext, DStep
<1> QED BY <1>1, <1>2, PTL DEF DSpec

\* When anything is reported, the loops are over; and a stall is a receive that they
\* have left.
EndInv ==
    /\ sstep = "done" \/ stalled # {} => phase = "done"
    /\ \A k \in stalled : k \in Positions /\ IsRecv(k) /\ ~used[k]

\* For every array, nothing is reported before its time.
THEOREM DetectorEnds == DSpec => []EndInv
<1>1. DInit => EndInv
  BY DEF DInit, SInit, TInit, EndInv
<1>2. TurnInv /\ EndInv /\ [DNext]_dvars => EndInv'
  <2> SUFFICES ASSUME TurnInv, EndInv, [DNext]_dvars PROVE EndInv'
    OBVIOUS
  <2> USE DEF tvars, svars
  <2>1. CASE Enter \/ Loops
    <3>1. phase # "done" /\ UNCHANGED <<stalled, sstep>>
      BY <2>1, ArrayKept, ArrayArrives DEF Enter, Loops, checks
    <3> QED BY <3>1 DEF EndInv
  <2>2. CASE Stalls
    <3>1. phase = "done" /\ UNCHANGED <<phase, all, used>>
      BY <2>2 DEF Stalls, TurnInv, mvars
    <3>2. \A k \in stalled' : k \in Positions /\ IsRecv(k) /\ ~used[k]
      BY <2>2 DEF Stalls, CheckStalls, Waiting, IsRecv
    <3> QED BY <3>1, <3>2 DEF EndInv, Positions, IsRecv
  <2>3. CASE Conclude
    <3>1. phase = "done" /\ UNCHANGED <<phase, all, used, stalled>>
      BY <2>3 DEF Conclude, TurnInv, mvars
    <3> QED BY <3>1 DEF EndInv, Positions, IsRecv
  <2>4. CASE Anomalies \/ Replays \/ Overlaps \/ Collectives \/ Graph \/ Deadlocks \/ UNCHANGED dvars
    <3>1. UNCHANGED <<phase, all, used, stalled, sstep>>
      BY <2>4 DEF Anomalies, Replays, Overlaps, Collectives, Graph, Deadlocks, dvars, checks, mvars
    <3> QED BY <3>1 DEF EndInv, Positions, IsRecv
  <2> QED BY <2>1, <2>2, <2>3, <2>4 DEF DNext, DStep
<1> QED BY <1>1, <1>2, DetectorTurns, PTL DEF DSpec

\* To the later checks, entering the analysis and its loops are the array
\* arriving; to the statistics, loop 2 is nothing at all.
LEMMA MatchingPrepares ==
  ASSUME TurnInv, MTypeOK', Enter \/ Loops
  PROVE  /\ Prepare
         /\ UNCHANGED avars /\ (astep = "idle" \/ UNCHANGED <<all, used>>)
         /\ UNCHANGED <<rvars, tvars, ovars, cvars, gvars, wvars>>
         /\ rstep = "idle" /\ tstep = "idle" /\ ostep = "idle" /\ cstep = "idle"
         /\ gstep = "idle" /\ wstep = "idle"
<1>1. all' \in Arrays /\ phase # "done"
  BY ArrayKept, ArrayArrives DEF Enter, Loops, TurnInv
<1>2. used' \in [1..Len(all') -> BOOLEAN]
  BY DEF MTypeOK, Positions
<1>3. UNCHANGED <<avars, rvars, tvars, ovars, cvars, gvars, wvars>>
  BY DEF Enter, Loops, checks
<1>4. astep = "idle" \/ UNCHANGED <<all, used>>
  BY ArrayKept, ArrayArrives DEF Enter, Loops, TurnInv
<1> QED BY <1>1, <1>2, <1>3, <1>4 DEF Prepare, TurnInv

\* Each of the later checks runs as if it were alone.
THEOREM DetectorChecks ==
  DSpec => ASpec /\ RSpec /\ TSpec /\ OSpec /\ CSpec /\ GSpec /\ WSpec
<1> DEFINE Alone == /\ [ANext]_<<all, used, avars>>
                    /\ [RNext]_<<all, used, rvars>>
                    /\ [TNext]_<<all, used, tvars>>
                    /\ [ONext]_<<all, used, ovars>>
                    /\ [CNext]_<<all, used, cvars>>
                    /\ [GNext]_<<all, used, gvars>>
                    /\ [WNext]_<<all, used, wvars>>
<1>1. DInit => AInit /\ AnomalyInit /\ RInit /\ TInit /\ OInit /\ CInit /\ GInit /\ WInit
  BY DEF DInit, MInit
<1>2. TurnInv /\ MTypeOK' /\ [DNext]_dvars => Alone
  <2> SUFFICES ASSUME TurnInv, MTypeOK', [DNext]_dvars PROVE Alone
    OBVIOUS
  <2>1. CASE Enter \/ Loops
    BY <2>1, MatchingPrepares DEF ANext, RNext, TNext, ONext, CNext, GNext, WNext
  <2>2. CASE Anomalies
    BY <2>2 DEF Anomalies, AStep, mvars, ANext
  <2>3. CASE Replays
    BY <2>3 DEF Replays, mvars, RNext
  <2>4. CASE Stalls
    BY <2>4 DEF Stalls, mvars, TNext
  <2>5. CASE Overlaps
    BY <2>5 DEF Overlaps, mvars, ONext
  <2>6. CASE Collectives
    BY <2>6 DEF Collectives, mvars, CNext
  <2>7. CASE Graph
    BY <2>7 DEF Graph, mvars, GNext
  <2>8. CASE Deadlocks
    BY <2>8 DEF Deadlocks, mvars, WNext
  <2>9. CASE Conclude
    BY <2>9 DEF Conclude, mvars
  <2>10. CASE UNCHANGED dvars
    BY <2>10 DEF dvars, checks
  <2> QED BY <2>1, <2>2, <2>3, <2>4, <2>5, <2>6, <2>7, <2>8, <2>9, <2>10 DEF DNext, DStep
<1> QED BY <1>1, <1>2, DetectorTurns, DetectorMatches, MatcherTypeCorrect, PTL
        DEF DSpec, ASpec, RSpec, TSpec, OSpec, CSpec, GSpec, WSpec

-----------------------------------------------------------------------------
\* The last step runs once.
LEMMA DetectorConcludes == DSpec => [](sstep \in {"idle", "done"})
<1>1. DInit => sstep \in {"idle", "done"}
  BY DEF DInit, SInit
<1>2. sstep \in {"idle", "done"} /\ [DNext]_dvars => (sstep \in {"idle", "done"})'
  BY DEF DNext, DStep, dvars, checks, svars, Enter, Loops, Anomalies, Replays, Stalls, Overlaps,
         Collectives, Graph, Deadlocks, Conclude, Summarize
<1> QED BY <1>1, <1>2, PTL DEF DSpec

\* The variables of all checks keep their types.
THEOREM DetectorTypeCorrect == DSpec => []DTypeOK
<1>1. MTypeOK /\ AnomalyTypeOK /\ RTypeOK /\ StallTypeOK /\ OverlapTypeOK /\ CTypeOK /\ GraphTypeOK
        /\ WTypeOK /\ sstep \in {"idle", "done"} => DTypeOK
  BY DEF DTypeOK
<1> QED BY <1>1, DetectorMatches, DetectorChecks, DetectorConcludes, MatcherTypeCorrect,
           AnomalyTypeCorrect, ReplayTypeCorrect, StallTypeCorrect, OverlapsExact,
           CollectiveTypeCorrect, GraphTypeCorrect, WaitTypeCorrect, PTL

\* For every set of arrays and every number of ranks, msan_analyze_events pairs
\* and counts the events as the matching promises, calls no send unusual where all have
\* one size, counts each repeated send once and the overlapping neighbours, finds the
\* events of each rank and the calls in which the ranks disagree, draws the topology of
\* the sends, closes the waits transitively and reports the ranks on their cycles.
THEOREM DetectorCorrect ==
  DSpec => [](/\ PairsAreKeyed /\ PairsAreFifo /\ NothingPairableLeft /\ CountsAgree
              /\ EqualSizesAreUsual /\ ReplayCountIsRepeats /\ OverlapsAreNeighbours /\ SegmentsExact
              /\ VerdictExact /\ GraphIsTopology /\ ClosureIsExact /\ ReportedAreOnCycles)
<1> QED BY DetectorMatches, DetectorChecks, PairsKeyed, PairsFifo, NothingLeft, CountsAreExact,
           EqualSizesUsual, CountIsRepeats, OverlapsExact, SegmentsCorrect, VerdictIsExact, GraphExact,
           ClosureExact, ReportedOnCycles, PTL

\* msan_analyze_events as a whole implements the order-independent pairing.
THEOREM DetectorImplementsPairing == DSpec => ImplementsPairing
BY DetectorMatches, Refinement, PTL

-----------------------------------------------------------------------------
(* The summary as a verdict on the exchange.                                *)

\* The report has the counters of the checks, which are over when it is written, and
\* stalls are counted.
ReportTells ==
    /\ timeout_count = Cardinality(stalled)
    /\ sstep = "idle" => report = {}
    /\ sstep # "idle" => phase = "done" /\ cstep = "done" /\ wstep = "done"
    /\ \A r \in report :
        /\ r.type_mismatch = type_mismatch_count /\ r.size_mismatch = size_mismatch_count
        /\ r.integrity_violation = integrity_count /\ r.collective_mismatch = coll_mismatch_count
        /\ r.unmatched_sends = unmatched_send_count /\ r.unmatched_recvs = unmatched_recv_count
        /\ r.deadlock_detected = deadlock_count /\ r.timeout_warning = timeout_count

\* For every array, the report is made of what the checks have counted.
THEOREM ReportIsCounters == DSpec => []ReportTells
<1>1. DInit => ReportTells
  BY FS_EmptySet DEF DInit, SInit, TInit, ReportTells
<1>2. TurnInv /\ sstep \in {"idle", "done"} /\ ReportTells /\ [DNext]_dvars => ReportTells'
  <2> SUFFICES ASSUME TurnInv, sstep \in {"idle", "done"}, ReportTells, [DNext]_dvars PROVE ReportTells'
    OBVIOUS
  <2> USE DEF tvars, svars
  <2>1. CASE Enter \/ Loops
    <3>1. phase # "done" /\ UNCHANGED <<timeout_count, stalled, svars>>
      BY <2>1, ArrayKept, ArrayArrives DEF Enter, Loops, checks
    <3>2. sstep = "idle" /\ report = {}
      BY <3>1 DEF ReportTells
    <3> QED BY <3>1, <3>2 DEF ReportTells
  <2>2. CASE Stalls
    <3>1. timeout_count' = Cardinality(stalled')
      BY <2>2 DEF Stalls, CheckStalls
    <3>2. sstep = "idle" /\ report = {} /\ UNCHANGED svars
      BY <2>2 DEF Stalls, CheckStalls, TurnInv, ReportTells
    <3> QED BY <3>1, <3>2 DEF ReportTells
  <2>3. CASE Anomalies \/ Replays \/ Overlaps \/ Collectives \/ Graph \/ Deadlocks
    <3>1. phase # "done" \/ rstep # "done" \/ ostep # "done" \/ cstep # "done" \/ gstep # "done"
            \/ wstep # "done"
      BY <2>3 DEF Anomalies, Replays, RStep, BeginReplay, CheckSend, SkipSend, EndReplay, Overlaps,
                  CheckOverlap, Collectives, CStep, BeginCollectives, Scan, EndScan, CountRank,
                  EndCount, CompareRank, Graph, GStep, BeginGraph, Draw, EndGraph, Deadlocks, WStep,
                  BeginWait, Seed, EndSeed, Close, Report, EndReport
    <3>2. sstep = "idle" /\ report = {}
      BY <3>1 DEF TurnInv, ReportTells
    <3>3. UNCHANGED <<timeout_count, stalled, svars>>
      BY <2>3 DEF Anomalies, Replays, Overlaps, Collectives, Graph, Deadlocks
    <3> QED BY <3>2, <3>3 DEF ReportTells
  <2>4. CASE Conclude
    <3>1. phase = "done" /\ cstep = "done" /\ wstep = "done"
      BY <2>4 DEF Conclude, TurnInv
    <3>2. UNCHANGED <<phase, cstep, wstep, timeout_count, stalled, type_mismatch_count,
                      size_mismatch_count, integrity_count, coll_mismatch_count,
                      unmatched_send_count, unmatched_recv_count, deadlock_count>>
      BY <2>4 DEF Conclude, mvars, counters, mismatches, cvars, wvars
    <3>3. sstep' = "done" /\ report' \subseteq {JsonReport}
      BY <2>4 DEF Conclude, Summarize
    <3>4. \A r \in report' :
            /\ r.type_mismatch = type_mismatch_count /\ r.size_mismatch = size_mismatch_count
            /\ r.integrity_violation = integrity_count /\ r.collective_mismatch = coll_mismatch_count
            /\ r.unmatched_sends = unmatched_send_count /\ r.unmatched_recvs = unmatched_recv_count
            /\ r.deadlock_detected = deadlock_count /\ r.timeout_warning = timeout_count
      BY <3>3 DEF JsonReport
    <3> QED BY <3>1, <3>2, <3>3, <3>4 DEF ReportTells
  <2>5. CASE UNCHANGED dvars
    BY <2>5 DEF dvars, checks, mvars, counters, mismatches, cvars, wvars, ReportTells
  <2> QED BY <2>1, <2>2, <2>3, <2>4, <2>5 DEF DNext, DStep
<1> QED BY <1>1, <1>2, DetectorTurns, DetectorConcludes, PTL DEF DSpec

\* Calls of one kind between the same ranks on the same tag and communicator.
SameKind(m, k) ==
    /\ all[m].kind = all[k].kind /\ all[m].rank = all[k].rank /\ all[m].peer = all[k].peer
    /\ all[m].tag = all[k].tag /\ all[m].comm = all[k].comm

\* The events before one are finitely many, and of two that are alike the later has
\* more before it.
LEMMA TurnsCount ==
  ASSUME MTypeOK, NEW k \in Positions
  PROVE  /\ Earlier(k) \in SUBSET Positions /\ IsFiniteSet(Earlier(k))
         /\ Cardinality(Earlier(k)) \in Nat
         /\ \A m \in Earlier(k) : Cardinality(Earlier(m)) < Cardinality(Earlier(k))
<1>1. /\ Len(all) \in Nat /\ k \in 1..Len(all)
      /\ Earlier(k) = {m \in 1..(k - 1) : SameKind(m, k)}
  BY DEF MTypeOK, Positions, Earlier, SameKind
<1>2. Earlier(k) \in SUBSET Positions
  BY <1>1 DEF Positions
<1>3. IsFiniteSet(Earlier(k)) /\ Cardinality(Earlier(k)) \in Nat
  BY <1>2, FiniteParts
<1>4. ASSUME NEW m \in Earlier(k) PROVE Cardinality(Earlier(m)) < Cardinality(Earlier(k))
  <2>1. m \in 1..(k - 1) /\ SameKind(m, k) /\ m \in Positions
    BY <1>1, <1>2
  <2>2. Earlier(m) = {l \in 1..(m - 1) : SameKind(l, m)}
    BY DEF Earlier, SameKind
  <2>3. m \notin Earlier(m) /\ Earlier(m) \cup {m} \subseteq Earlier(k)
    BY <1>1, <2>1, <2>2 DEF SameKind
  <2>4. Earlier(m) \in SUBSET Positions
    BY <1>2, <2>3
  <2>5. IsFiniteSet(Earlier(m)) /\ Cardinality(Earlier(m)) \in Nat
    BY <2>4, FiniteParts
  <2>6. Cardinality(Earlier(m) \cup {m}) = Cardinality(Earlier(m)) + 1
    BY <2>3, <2>5, FS_AddElement
  <2>7. Cardinality(Earlier(m) \cup {m}) <= Cardinality(Earlier(k))
    BY <1>3, <2>3, FS_Subset
  <2> QED BY <1>3, <2>5, <2>6, <2>7
<1> QED BY <1>2, <1>3, <1>4

\* Of calls that are alike only one has a given number before it.
LEMMA TurnIsOne ==
  ASSUME MTypeOK, NEW k \in Positions, NEW m \in Positions, SameKind(k, m),
         Cardinality(Earlier(k)) = Cardinality(Earlier(m))
  PROVE  k = m
<1>1. k \in Nat /\ m \in Nat /\ 1 <= k /\ 1 <= m
  BY Bounds DEF Positions
<1>2. CASE k < m
  <2>1. k \in Earlier(m)
    BY <1>1, <1>2 DEF Earlier, SameKind
  <2> QED BY <2>1, TurnsCount
<1>3. CASE m < k
  <2>1. m \in Earlier(k)
    BY <1>1, <1>3 DEF Earlier, SameKind
  <2> QED BY <2>1, TurnsCount
<1> QED BY <1>1, <1>2, <1>3

\* The pairs of an envelope neither cross nor skip, so a receive is paired with the
\* send whose turn is its own.
LEMMA PairsInTurn ==
  ASSUME MTypeOK, PairingInv, NEW k \in Matched
  PROVE  partner[k] \in Positions /\ InTurn(partner[k], k)
<1> DEFINE j == partner[k]
           f == [m \in Earlier(k) |-> partner[m]]
<1>1. j \in Positions /\ k \in Positions /\ KeyEqual(all[j], all[k])
  BY DEF MTypeOK, Matched, PairingInv, PairsAreKeyed, Positions
<1>2. ASSUME NEW m \in Earlier(k) PROVE m \in Matched /\ partner[m] \in Earlier(j)
  <2>1. m \in 1..(k - 1) /\ SameEnvelope(m, k) /\ m \in Positions
    BY <1>1, TurnsCount DEF Earlier, SameEnvelope, KeyEqual, IsRecv
  <2>2. m \in Matched /\ partner[m] < j
    BY <2>1 DEF PairingInv, PairsAreFifo
  <2>3. partner[m] \in Positions /\ KeyEqual(all[partner[m]], all[m])
    BY <2>2 DEF MTypeOK, Matched, PairingInv, PairsAreKeyed, Positions
  <2>4. partner[m] \in 1..(j - 1)
    BY <1>1, <2>2, <2>3, Bounds DEF Positions
  <2> QED BY <1>1, <2>1, <2>2, <2>3, <2>4 DEF Earlier, KeyEqual, SameEnvelope
<1>3. ASSUME NEW l \in Earlier(j) PROVE \E m \in Earlier(k) : f[m] = l
  <2>1. l \in 1..(j - 1) /\ KeyEqual(all[l], all[k])
    BY <1>1 DEF Earlier, KeyEqual
  <2>2. PICK m \in Matched : m < k /\ partner[m] = l
    BY <2>1 DEF PairingInv, PairsAreFifo
  <2>3. KeyEqual(all[l], all[m]) /\ m \in Positions
    BY <2>2 DEF PairingInv, PairsAreKeyed, Matched
  <2>4. m \in 1..(k - 1)
    BY <1>1, <2>2, <2>3, Bounds DEF Positions
  <2>5. m \in Earlier(k)
    BY <2>1, <2>3, <2>4 DEF Earlier, KeyEqual
  <2> QED BY <2>2, <2>5
<1>4. f \in Bijection(Earlier(k), Earlier(j))
  <2>1. f \in [Earlier(k) -> Earlier(j)]
    BY <1>2
  <2>2. \A a, b \in Earlier(k) : f[a] = f[b] => a = b
    BY <1>2 DEF PairingInv, PairsAreKeyed
  <2> HIDE DEF f, j
  <2> QED BY <2>1, <2>2, <1>3, Fun_IsBij
<1>5. ExistsBijection(Earlier(k), Earlier(j))
  BY <1>4 DEF ExistsBijection
<1>6. Cardinality(Earlier(j)) = Cardinality(Earlier(k))
  <2> HIDE DEF f, j
  <2> QED BY <1>1, <1>5, TurnsCount, FS_Bijection
<1> QED BY <1>1, <1>6 DEF InTurn

\* An event is of one of three kinds.
LEMMA EventKinds ==
  ASSUME MTypeOK
  PROVE  \A k \in Positions : all[k].kind \in {"SEND", "RECV", "COLL"}
<1>1. all \in Seq(Event) /\ DOMAIN all = Positions
  BY DEF MTypeOK, Positions
<1>2. \A k \in Positions : all[k] \in Event
  BY <1>1
<1> QED BY <1>2 DEF Event, Kinds

\* Every send and receive is exchanged.
AllExchanged == \A k \in Positions : all[k].kind # "COLL" => Exchanged(k)

\* The loops have paired every send and receive, and the pairs do not differ.
AllPaired ==
    /\ \A k \in Positions : all[k].kind # "COLL" => used[k]
    /\ \A k \in Matched : Payload(all[partner[k]]) = Payload(all[k])

\* After the loops, everything is exchanged exactly when it is paired so.
LEMMA ExchangedIsPaired ==
  ASSUME MTypeOK, PairingInv, NothingPairableLeft, phase = "done"
  PROVE  AllExchanged <=> AllPaired
<1>1. \A k \in Positions : all[k].kind \in {"SEND", "RECV", "COLL"}
  BY EventKinds
<1>2. \A k \in Matched : k \in Positions /\ IsRecv(k) /\ used[k] /\ used[partner[k]]
  BY DEF PairingInv, Marks, Matched
<1>3. ASSUME AllExchanged, NEW k \in Positions, all[k].kind # "COLL" PROVE used[k]
  <2>1. PICK m \in Positions : InTurn(k, m) \/ InTurn(m, k)
    BY <1>3 DEF AllExchanged, Exchanged
  <2>2. CASE InTurn(k, m)
    <3>1. used[k] \/ used[m]
      BY <2>2 DEF NothingPairableLeft, InTurn
    <3>2. CASE used[m]
      <4>1. m \in Matched
        BY <2>2, <3>2 DEF InTurn, KeyEqual, IsRecv, PairingInv, Marks
      <4>2. partner[m] \in Positions /\ InTurn(partner[m], m)
        BY <4>1, PairsInTurn
      <4>3. partner[m] = k
        BY <2>2, <4>2, TurnIsOne DEF InTurn, KeyEqual, SameKind
      <4> QED BY <1>2, <4>1, <4>3
    <3> QED BY <3>1, <3>2
  <2>3. CASE InTurn(m, k)
    <3>1. used[k] \/ used[m]
      BY <2>3 DEF NothingPairableLeft, InTurn
    <3>2. CASE used[m]
      <4>1. PICK l \in Matched : partner[l] = m
        BY <2>3, <3>2 DEF InTurn, KeyEqual, IsSend, PairingInv, Marks
      <4>2. l \in Positions /\ InTurn(m, l)
        BY <1>2, <4>1, PairsInTurn
      <4>3. l = k
        BY <2>3, <4>2, TurnIsOne DEF InTurn, KeyEqual, SameKind
      <4> QED BY <1>2, <4>1, <4>3
    <3> QED BY <3>1, <3>2
  <2> QED BY <2>1, <2>2, <2>3
<1>4. ASSUME AllExchanged, NEW k \in Matched PROVE Payload(all[partner[k]]) = Payload(all[k])
  <2>1. k \in Positions /\ all[k].kind = "RECV"
    BY <1>2 DEF IsRecv
  <2>2. PICK m \in Positions : (InTurn(k, m) \/ InTurn(m, k)) /\ Payload(all[m]) = Payload(all[k])
    BY <1>4, <2>1 DEF AllExchanged, Exchanged
  <2>3. InTurn(m, k) /\ partner[k] \in Positions /\ InTurn(partner[k], k)
    BY <2>1, <2>2, PairsInTurn DEF InTurn, KeyEqual
  <2>4. partner[k] = m
    BY <2>3, TurnIsOne DEF InTurn, KeyEqual, SameKind
  <2> QED BY <2>2, <2>4
<1>5. ASSUME AllPaired, NEW k \in Positions, all[k].kind # "COLL" PROVE Exchanged(k)
  <2>1. used[k]
    BY <1>5 DEF AllPaired
  <2>2. CASE IsRecv(k)
    <3>1. k \in Matched
      BY <2>1, <2>2 DEF PairingInv, Marks
    <3>2. partner[k] \in Positions /\ InTurn(partner[k], k)
      BY <3>1, PairsInTurn
    <3> QED BY <1>5, <3>1, <3>2 DEF AllPaired, Exchanged
  <2>3. CASE IsSend(k)
    <3>1. PICK m \in Matched : partner[m] = k
      BY <2>1, <2>3 DEF PairingInv, Marks
    <3>2. m \in Positions /\ InTurn(k, m) /\ Payload(all[m]) = Payload(all[k])
      BY <1>2, <1>5, <3>1, PairsInTurn DEF AllPaired
    <3> QED BY <3>2 DEF Exchanged
  <2> QED BY <1>1, <1>5, <2>2, <2>3 DEF IsRecv, IsSend
<1> QED BY <1>3, <1>4, <1>5 DEF AllExchanged, AllPaired

\* After the loops, everything is paired so exactly when the counters are zero.
LEMMA PairedIsSilent ==
  ASSUME MTypeOK, PairingInv, CountInv, phase = "done"
  PROVE  AllPaired <=>
            /\ type_mismatch_count = 0 /\ size_mismatch_count = 0 /\ integrity_count = 0
            /\ unmatched_send_count = 0 /\ unmatched_recv_count = 0
<1>1. \A k \in Positions : all[k].kind \in {"SEND", "RECV", "COLL"}
  BY EventKinds
<1>2. \A S \in SUBSET Positions : Cardinality(S) = 0 <=> S = {}
  BY FiniteParts, FS_EmptySet
<1>3. /\ TypeDiff \in SUBSET Positions /\ SizeDiff \in SUBSET Positions /\ SumDiff \in SUBSET Positions
      /\ LeftSends \in SUBSET Positions /\ LeftRecvs \in SUBSET Positions
  BY DEF TypeDiff, SizeDiff, SumDiff, LeftSends, LeftRecvs, Matched
<1>4. (/\ type_mismatch_count = 0 /\ size_mismatch_count = 0 /\ integrity_count = 0
       /\ unmatched_send_count = 0 /\ unmatched_recv_count = 0)
      <=> /\ TypeDiff = {} /\ SizeDiff = {} /\ SumDiff = {} /\ LeftSends = {} /\ LeftRecvs = {}
  BY <1>2, <1>3 DEF CountInv
<1>5. (TypeDiff = {} /\ SizeDiff = {} /\ SumDiff = {})
      <=> \A k \in Matched : Payload(all[partner[k]]) = Payload(all[k])
  BY DEF TypeDiff, SizeDiff, SumDiff, Payload
<1>6. (LeftSends = {} /\ LeftRecvs = {}) <=> \A k \in Positions : all[k].kind # "COLL" => used[k]
  BY <1>1 DEF LeftSends, LeftRecvs, Passed, IsSend, IsRecv
<1> QED BY <1>4, <1>5, <1>6 DEF AllPaired

\* If no rank calls more collectives than the first, all call the same exactly when none
\* is flagged.
LEMMA SameCallsAreSilent ==
  ASSUME CTypeOK, VerdictExact, cstep = "done", NoneCallsMore
  PROVE  (\A q \in Ranks : \A n \in CallNumbers : CallOf(q, n) = CallOf(0, n))
            <=> coll_mismatch_count = 0
<1>1. 0 \in Ranks /\ Ranks \subseteq Nat /\ num_ranks \in Nat
  BY RanksAssumption DEF Ranks
<1>2. flagged = {v \in CallNumbers \X Ranks : Disagrees(v[1], v[2])} /\ coll_mismatch_count = Cardinality(flagged)
  BY DEF VerdictExact, CallNumbers
<1>3. coll_mismatch_count = 0 <=> flagged = {}
  <2>1. IsFiniteSet(CallNumbers) /\ IsFiniteSet(Ranks)
    <3>1. Len(all) \in Nat
      BY DEF CTypeOK, ATypeOK
    <3> QED BY <1>1, <3>1, FS_Interval DEF CallNumbers, Ranks
  <2>2. IsFiniteSet(CallNumbers \X Ranks)
    BY <2>1, FS_Product
  <2>3. IsFiniteSet(flagged)
    BY <1>2, <2>2, FS_Subset
  <2> QED BY <1>2, <2>3, FS_EmptySet
<1>4. flagged = {} <=> \A n \in CallNumbers : \A r \in Ranks : ~Disagrees(n, r)
  <2>1. ASSUME NEW n \in CallNumbers, NEW r \in Ranks, Disagrees(n, r) PROVE <<n, r>> \in flagged
    BY <1>2, <2>1
  <2>2. ASSUME NEW v \in flagged PROVE v[1] \in CallNumbers /\ v[2] \in Ranks /\ Disagrees(v[1], v[2])
    BY <1>2, <2>2
  <2> QED BY <2>1, <2>2
<1>5. ASSUME \A q \in Ranks : \A n \in CallNumbers : CallOf(q, n) = CallOf(0, n),
             NEW n \in CallNumbers, NEW r \in Ranks
      PROVE  ~Disagrees(n, r)
  <2>1. \A p \in 0..(r - 1) : p \in Ranks
    BY <1>1 DEF Ranks
  <2> QED BY <1>5, <2>1 DEF Disagrees
<1>6. ASSUME NEW n \in CallNumbers, \A r \in Ranks : ~Disagrees(n, r), NEW q \in Ranks
      PROVE  CallOf(q, n) = CallOf(0, n)
  <2>1. CASE CallOf(0, n) = {}
    BY <2>1 DEF NoneCallsMore
  <2>2. CASE CallOf(0, n) # {} /\ q # 0
    <3>1. 0 \in 0..(q - 1) /\ \A p \in 0..(0 - 1) : CallOf(p, n) = {}
      BY <1>1, <2>2
    <3>2. ~Disagrees(n, q)
      BY <1>6
    <3> QED BY <2>2, <3>1, <3>2 DEF Disagrees
  <2> QED BY <2>1, <2>2
<1> QED BY <1>3, <1>4, <1>5, <1>6

\* When every send and receive is paired, nobody waits.
LEMMA PairedIsNotStuck ==
  ASSUME MTypeOK, AllPaired, ReportedAreOnCycles, wstep = "done", EndInv
  PROVE  deadlock_count = 0 /\ stalled = {}
<1>1. WaitEdges = {}
  BY DEF AllPaired, WaitEdges, Waits
<1>2. \A r \in Ranks : ~OnCycle(WaitEdges, r)
  <2> SUFFICES ASSUME NEW r \in Ranks, NEW m \in 1..num_ranks, NEW p \in [0..m -> Ranks],
                      \A n \in 0..(m - 1) : <<p[n], p[n + 1]>> \in WaitEdges
               PROVE FALSE
    BY DEF OnCycle
  <2>1. 0 \in 0..(m - 1)
    BY RanksAssumption
  <2> QED BY <1>1, <2>1
<1>3. deadlocked = {} /\ deadlock_count = Cardinality(deadlocked)
  BY <1>2 DEF ReportedAreOnCycles
<1>4. deadlock_count = 0
  BY <1>3, FS_EmptySet
<1>5. stalled = {}
  BY DEF EndInv, AllPaired, IsRecv
<1> QED BY <1>4, <1>5

\* For every number of ranks and every array in which no rank calls more collectives
\* than rank 0: the report is without mismatches and unmatched events exactly when the
\* exchange was clean, and then it has no deadlock and no stall.
THEOREM CleanIsSilent == DSpec => []SilentIffClean
<1>1. /\ MTypeOK /\ PairingInv /\ NothingPairableLeft /\ CountInv /\ CTypeOK /\ VerdictExact
      /\ ReportedAreOnCycles /\ EndInv /\ ReportTells /\ sstep \in {"idle", "done"}
      => SilentIffClean
  <2> SUFFICES ASSUME MTypeOK, PairingInv, NothingPairableLeft, CountInv, CTypeOK, VerdictExact,
                      ReportedAreOnCycles, EndInv, ReportTells,
                      NEW r \in report, NoneCallsMore
               PROVE  /\ CleanExchange <=>
                           /\ r.type_mismatch = 0 /\ r.size_mismatch = 0 /\ r.integrity_violation = 0
                           /\ r.collective_mismatch = 0 /\ r.unmatched_sends = 0
                           /\ r.unmatched_recvs = 0
                      /\ CleanExchange => r.deadlock_detected = 0 /\ r.timeout_warning = 0
    BY DEF SilentIffClean
  <2>1. phase = "done" /\ cstep = "done" /\ wstep = "done"
    BY DEF ReportTells
  <2>2. AllExchanged <=> AllPaired
    BY <2>1, ExchangedIsPaired
  <2>3. AllPaired <=>
            /\ type_mismatch_count = 0 /\ size_mismatch_count = 0 /\ integrity_count = 0
            /\ unmatched_send_count = 0 /\ unmatched_recv_count = 0
    BY <2>1, PairedIsSilent
  <2>4. (\A q \in Ranks : \A n \in CallNumbers : CallOf(q, n) = CallOf(0, n))
            <=> coll_mismatch_count = 0
    BY <2>1, SameCallsAreSilent
  <2>5. AllPaired => deadlock_count = 0 /\ timeout_count = 0
    BY <2>1, PairedIsNotStuck, FS_EmptySet DEF ReportTells
  <2>6. CleanExchange <=> AllExchanged /\ \A q \in Ranks : \A n \in CallNumbers : CallOf(q, n) = CallOf(0, n)
    BY DEF CleanExchange, AllExchanged
  <2> QED BY <2>2, <2>3, <2>4, <2>5, <2>6 DEF ReportTells
<1> QED BY <1>1, DetectorMatches, DetectorChecks, DetectorConcludes, DetectorEnds, ReportIsCounters,
           MatcherTypeCorrect, PairingInvariant, NothingLeft, CountInvariant, CollectiveTypeCorrect,
           VerdictIsExact, ReportedOnCycles, PTL
=============================================================================
