----------------------------- MODULE StallCheck -----------------------------
(* Step 2c of msan_analyze_events (detector.c): a receive that was left     *)
(* unmatched, and was logged long after the earliest send of the rank it    *)
(* names, is counted as a stall.                                            *)
EXTENDS EventArray

CONSTANT MSAN_TIMEOUT_THRESHOLD

ASSUME ThresholdAssumption == MSAN_TIMEOUT_THRESHOLD \in Nat

VARIABLES tstep,         \* "idle" or "done"
          timeout_count,
          stalled        \* history: the receives that were reported

tvars == <<tstep, timeout_count, stalled>>

TInit == tstep = "idle" /\ timeout_count = 0 /\ stalled = {}

-----------------------------------------------------------------------------
\* mutated form: matched receives are looked at too.
WaitingEvery(k) == all[k].kind = "RECV"

Waiting(k) == all[k].kind = "RECV" /\ ~used[k]

\* Send j is the earliest that the peer of receive k has logged.
EarliestSend(j, k) ==
    LET sends == {m \in Positions : all[m].kind = "SEND" /\ all[m].rank = all[k].peer}
    IN  j \in sends /\ \A m \in sends : all[j].timestamp <= all[m].timestamp

Stalled(k) ==
    \E j \in Positions :
        EarliestSend(j, k) /\ all[k].timestamp - all[j].timestamp > MSAN_TIMEOUT_THRESHOLD

CheckStalls ==
    /\ tstep = "idle"
    /\ tstep' = "done"
    /\ stalled' = {k \in Positions : Waiting(k) /\ Stalled(k)}
    /\ timeout_count' = Cardinality(stalled')
    /\ UNCHANGED <<all, used>>

TNext == (tstep = "idle" /\ Prepare /\ UNCHANGED tvars) \/ CheckStalls

TSpec == AInit /\ TInit /\ [][TNext]_<<all, used, tvars>>

-----------------------------------------------------------------------------
StallTypeOK ==
    /\ tstep \in {"idle", "done"}
    /\ timeout_count \in Nat
    /\ stalled \subseteq Positions
=============================================================================
