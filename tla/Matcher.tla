------------------------------ MODULE Matcher ------------------------------
(* Matching of sends and receives: msan_analyze_events of detector.c, from  *)
(* its entry to the end of loop 1, and loop 2, which reports the sends that *)
(* are left.  One action per iteration of the two outer loops; the inner    *)
(* loop over the sends is the choice of its first hit.                      *)
EXTENDS EventArray

VARIABLES
    phase,               \* "idle", "match" (loop 1), "sends" (loop 2), "done"
    i,                   \* the loop index
    matched_pairs, unmatched_recv_count, unmatched_send_count,
    type_mismatch_count, size_mismatch_count, integrity_count,
    total_lat, lat_count,
    partner              \* history: the send a receive was matched with, or 0

mismatches == <<type_mismatch_count, size_mismatch_count, integrity_count,
                total_lat, lat_count>>
counters == <<matched_pairs, unmatched_recv_count, unmatched_send_count, mismatches>>
mvars == <<all, phase, i, used, counters, partner>>

IsSend(k) == all[k].kind = "SEND"
IsRecv(k) == all[k].kind = "RECV"

MInit ==
    /\ AInit /\ phase = "idle" /\ i = 1
    /\ partner = <<>>
    /\ matched_pairs = 0 /\ unmatched_recv_count = 0 /\ unmatched_send_count = 0
    /\ type_mismatch_count = 0 /\ size_mismatch_count = 0 /\ integrity_count = 0
    /\ total_lat = 0 /\ lat_count = 0

-----------------------------------------------------------------------------
\* mutated form: loop 1 starts below the first event.
AnalyzeBelow(a) ==
    /\ phase = "idle"
    /\ all' = a
    /\ phase' = "match"
    /\ i' = 0
    /\ used' = [k \in 1..Len(a) |-> FALSE]
    /\ partner' = [k \in 1..Len(a) |-> 0]
    /\ UNCHANGED counters

\* The analysis is entered with the array a: no event is used, all counters
\* are zero.
Analyze(a) ==
    /\ phase = "idle"
    /\ all' = a
    /\ phase' = "match"
    /\ i' = 1
    /\ used' = [k \in 1..Len(a) |-> FALSE]
    /\ partner' = [k \in 1..Len(a) |-> 0]
    /\ UNCHANGED counters

\* The sends that the inner loop stops at.
Candidates(k) == {j \in Positions : IsSend(j) /\ ~used[j] /\ KeyEqual(all[j], all[k])}

\* mutated form: the inner loop runs on to its last hit.
FirstCandidateIsLast(j, k) == j \in Candidates(k) /\ \A m \in Candidates(k) : m <= j

FirstCandidate(j, k) == j \in Candidates(k) /\ \A m \in Candidates(k) : j <= m

Count(b) == IF b THEN 1 ELSE 0

\* mutated form: a checksum is compared only when the sizes agree.
CorruptOnlySameSize(s, r) == s.nbytes = r.nbytes /\ s.checksum # r.checksum

Corrupt(s, r) == s.checksum # r.checksum

\* The receive was logged later than the send, by the clocks of their ranks.
Later(s, r) == r.timestamp > s.timestamp

Compare(s, r) ==
    /\ total_lat' = total_lat + IF Later(s, r) THEN r.timestamp - s.timestamp ELSE 0
    /\ lat_count' = lat_count + Count(Later(s, r))
    /\ integrity_count' = integrity_count + Count(Corrupt(s, r))
    /\ type_mismatch_count' = type_mismatch_count + Count(s.type_name # r.type_name)
    /\ size_mismatch_count' = size_mismatch_count + Count(s.nbytes # r.nbytes)

\* The continue of loop 1.
SkipEvent ==
    /\ phase = "match" /\ i \in Positions
    /\ ~IsRecv(i) \/ used[i]
    /\ i' = i + 1
    /\ UNCHANGED <<all, phase, used, counters, partner>>

\* mutated form: the send is not marked, a later receive can take it again.
MatchRecvNoMark ==
    /\ phase = "match" /\ i \in Positions
    /\ IsRecv(i) /\ ~used[i]
    /\ \E j \in Positions :
        /\ FirstCandidate(j, i)
        /\ used' = [used EXCEPT ![i] = TRUE]
        /\ partner' = [partner EXCEPT ![i] = j]
        /\ Compare(all[j], all[i])
    /\ matched_pairs' = matched_pairs + 1
    /\ i' = i + 1
    /\ UNCHANGED <<all, phase, unmatched_recv_count, unmatched_send_count>>

MatchRecv ==
    /\ phase = "match" /\ i \in Positions
    /\ IsRecv(i) /\ ~used[i]
    /\ \E j \in Positions :
        /\ FirstCandidate(j, i)
        /\ used' = [used EXCEPT ![i] = TRUE, ![j] = TRUE]
        /\ partner' = [partner EXCEPT ![i] = j]
        /\ Compare(all[j], all[i])
    /\ matched_pairs' = matched_pairs + 1
    /\ i' = i + 1
    /\ UNCHANGED <<all, phase, unmatched_recv_count, unmatched_send_count>>

UnmatchedRecv ==
    /\ phase = "match" /\ i \in Positions
    /\ IsRecv(i) /\ ~used[i]
    /\ Candidates(i) = {}
    /\ unmatched_recv_count' = unmatched_recv_count + 1
    /\ i' = i + 1
    /\ UNCHANGED <<all, phase, used, matched_pairs, unmatched_send_count,
                   mismatches, partner>>

\* mutated form: loop 1 stops one event early.
EndMatchingEarly ==
    /\ phase = "match" /\ i >= Len(all)
    /\ phase' = "sends"
    /\ i' = 1
    /\ UNCHANGED <<all, used, counters, partner>>

EndMatching ==
    /\ phase = "match" /\ i > Len(all)
    /\ phase' = "sends"
    /\ i' = 1
    /\ UNCHANGED <<all, used, counters, partner>>

ReportSend ==
    /\ phase = "sends" /\ i \in Positions
    /\ unmatched_send_count' = unmatched_send_count + Count(IsSend(i) /\ ~used[i])
    /\ i' = i + 1
    /\ UNCHANGED <<all, phase, used, matched_pairs, unmatched_recv_count,
                   mismatches, partner>>

EndSends ==
    /\ phase = "sends" /\ i > Len(all)
    /\ phase' = "done"
    /\ UNCHANGED <<all, i, used, counters, partner>>

MStep == SkipEvent \/ MatchRecv \/ UnmatchedRecv \/ EndMatching \/ ReportSend \/ EndSends

MStart == phase = "idle" /\ \E a \in Arrays : Analyze(a)

MNext == MStart \/ MStep

MSpec == MInit /\ [][MNext]_mvars

-----------------------------------------------------------------------------
MTypeOK ==
    /\ all \in Seq(Event)
    /\ phase \in {"idle", "match", "sends", "done"}
    /\ i \in 1..(Len(all) + 1)
    /\ used \in [Positions -> BOOLEAN]
    /\ partner \in [Positions -> 0..Len(all)]
    /\ matched_pairs \in Nat /\ unmatched_recv_count \in Nat
    /\ unmatched_send_count \in Nat /\ type_mismatch_count \in Nat
    /\ size_mismatch_count \in Nat /\ integrity_count \in Nat
    /\ total_lat \in Nat /\ lat_count \in Nat

Matched == {k \in Positions : partner[k] # 0}

\* Loop 1 (detector.c 271-313) pairs each receive with a send of its own
\* envelope, and no send with two receives.
PairsAreKeyed ==
    /\ \A k \in Matched : KeyEqual(all[partner[k]], all[k])
    /\ \A k, m \in Matched : partner[k] = partner[m] => k = m

SameEnvelope(k, m) ==
    /\ IsRecv(k) /\ IsRecv(m)
    /\ all[k].rank = all[m].rank /\ all[k].peer = all[m].peer
    /\ all[k].tag = all[m].tag /\ all[k].comm = all[m].comm

\* Within an envelope the pairs never cross, and none skips a send or a
\* receive: an earlier receive of the envelope is matched too, with an earlier
\* send, and every earlier send of the envelope is matched.  It is MPI's
\* non-overtaking order, on which every later report relies.
PairsAreFifo ==
    \A k \in Matched :
        /\ \A m \in 1..(k - 1) : SameEnvelope(m, k) =>
                m \in Matched /\ partner[m] < partner[k]
        /\ \A j \in 1..(partner[k] - 1) : KeyEqual(all[j], all[k]) =>
                \E m \in Matched : m < k /\ partner[m] = j

\* When the loops are over, every send and receive is counted exactly once, as
\* half of a pair or as unmatched, and the mismatch counters are the numbers of
\* pairs that differ, or that the clocks put in order (the counts of the
\* summary, detector.c 464-474, and the divisor of the latency, 459).
CountsAgree ==
    phase = "done" =>
        /\ matched_pairs + unmatched_recv_count = Cardinality({k \in Positions : IsRecv(k)})
        /\ matched_pairs + unmatched_send_count = Cardinality({k \in Positions : IsSend(k)})
        /\ type_mismatch_count =
             Cardinality({k \in Matched : all[partner[k]].type_name # all[k].type_name})
        /\ size_mismatch_count =
             Cardinality({k \in Matched : all[partner[k]].nbytes # all[k].nbytes})
        /\ integrity_count =
             Cardinality({k \in Matched : all[partner[k]].checksum # all[k].checksum})
        /\ lat_count = Cardinality({k \in Matched : all[partner[k]].timestamp < all[k].timestamp})

\* A receive is left unmatched only if no send of its envelope is left.
NothingPairableLeft ==
    phase \in {"sends", "done"} =>
        \A j, k \in Positions : KeyEqual(all[j], all[k]) => used[j] \/ used[k]

Pairing == INSTANCE FifoPairing WITH
    Arrays <- Seq(Event),
    arr <- all,
    pairs <- {<<partner[k], k>> : k \in Matched},
    stage <- IF phase \in {"match", "sends"} THEN "pairing" ELSE phase

\* The two loops implement the order-independent pairing of FifoPairing.
ImplementsPairing == Pairing!FSpec
=============================================================================
