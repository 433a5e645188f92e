------------------------------- MODULE Summary -------------------------------
(* Step 7 of msan_analyze_events (detector.c) and msan_write_json_report:   *)
(* the counters of all checks become the report file.  The averages of the  *)
(* latency are kept as the sum and the number of its terms.                 *)
EXTENDS Matcher, AnomalyCheck, ReplayCheck, StallCheck, OverlapCheck, CollectiveCheck,
        CommGraph, WaitGraph

VARIABLES sstep,         \* "idle" or "done"
          report         \* {} or {the report in mpi_report.json}

svars == <<sstep, report>>

SInit == sstep = "idle" /\ report = {}

-----------------------------------------------------------------------------
Tally(kind) == Cardinality({k \in Positions : all[k].kind = kind})

total_errors ==
    type_mismatch_count + size_mismatch_count + integrity_count + coll_mismatch_count
    + deadlock_count + replay_count + timeout_count + anomaly_count + overlap_count

JsonReport ==
    [total_events |-> Len(all), sends |-> send_count, recvs |-> Tally("RECV"),
     collectives |-> Tally("COLL"), matched_pairs |-> matched_pairs,
     unmatched_sends |-> unmatched_send_count, unmatched_recvs |-> unmatched_recv_count,
     errors_detected |-> total_errors,
     type_mismatch |-> type_mismatch_count, size_mismatch |-> size_mismatch_count,
     integrity_violation |-> integrity_count, collective_mismatch |-> coll_mismatch_count,
     deadlock_detected |-> deadlock_count, replay_detected |-> replay_count,
     timeout_warning |-> timeout_count, anomaly_warning |-> anomaly_count,
     overlap_warning |-> overlap_count,
     avg_p2p_latency |-> IF lat_count > 0 THEN <<total_lat, lat_count>> ELSE <<>>,
     errors |-> <<>>]

\* The file is written, or cannot be opened.
Summarize ==
    /\ sstep = "idle"
    /\ sstep' = "done"
    /\ report' \in {{JsonReport}, {}}

-----------------------------------------------------------------------------
(* What the array says of the program, independently of the checks.         *)

\* The events before k that are calls like it: sends to, or receives from, the same
\* rank on the same tag and communicator.
Earlier(k) ==
    {m \in 1..(k - 1) : /\ all[m].kind = all[k].kind /\ all[m].rank = all[k].rank
                        /\ all[m].peer = all[k].peer
                        /\ all[m].tag = all[k].tag /\ all[m].comm = all[k].comm}

\* Send j and receive k have the same place in the order of their envelope.
InTurn(j, k) == KeyEqual(all[j], all[k]) /\ Cardinality(Earlier(j)) = Cardinality(Earlier(k))

Payload(e) == <<e.type_name, e.nbytes, e.checksum>>

\* What was sent by event k is received in its turn as what it was sent, or what was
\* received by it was sent so.
Exchanged(k) ==
    \E m \in Positions : (InTurn(k, m) \/ InTurn(m, k)) /\ Payload(all[m]) = Payload(all[k])

\* The numbers of the calls of a rank are less than this.
CallNumbers == 0..Len(all)

CleanExchange ==
    /\ \A k \in Positions : all[k].kind # "COLL" => Exchanged(k)
    /\ \A q \in Ranks : \A n \in CallNumbers : CallOf(q, n) = CallOf(0, n)

\* No rank has called more collectives than rank 0.
NoneCallsMore == \A q \in Ranks : \A n \in CallNumbers : CallOf(q, n) # {} => CallOf(0, n) # {}

\* A report without mismatches and unmatched events is written for exactly the
\* clean exchanges, as long as no rank calls more collectives than rank 0; and a
\* clean exchange is reported with no deadlock and no stall: the checks agree on
\* what a correct program is (detector.c 453-494).
SilentIffClean ==
    \A r \in report :
        NoneCallsMore =>
            /\ CleanExchange <=>
                 /\ r.type_mismatch = 0 /\ r.size_mismatch = 0 /\ r.integrity_violation = 0
                 /\ r.collective_mismatch = 0 /\ r.unmatched_sends = 0 /\ r.unmatched_recvs = 0
            /\ CleanExchange => r.deadlock_detected = 0 /\ r.timeout_warning = 0
=============================================================================
