---------------------------- MODULE ReplayCheck ----------------------------
(* Step 2b of msan_analyze_events (detector.c): sends that were matched and *)
(* repeat an earlier send are reported as duplicates.  One action per       *)
(* iteration of the outer loop; the inner loop is the set of its hits.      *)
EXTENDS EventArray

VARIABLES rstep,         \* "idle", "check" or "done"
          ri,            \* the index of the outer loop
          reported,      \* reported[k]: send k is part of a reported pair
          replay_count

rvars == <<rstep, ri, reported, replay_count>>

RInit == rstep = "idle" /\ ri = 1 /\ reported = <<>> /\ replay_count = 0

-----------------------------------------------------------------------------
BeginReplay ==
    /\ rstep = "idle"
    /\ rstep' = "check"
    /\ reported' = [k \in Positions |-> FALSE]
    /\ UNCHANGED <<all, used, ri, replay_count>>

\* A matched send that carries data: an empty one has checksum 0.
Eligible(k) == all[k].kind = "SEND" /\ used[k] /\ all[k].checksum # 0

SameMessage(k, m) ==
    /\ all[k].rank = all[m].rank /\ all[k].peer = all[m].peer
    /\ all[k].tag = all[m].tag /\ all[k].comm = all[m].comm
    /\ all[k].checksum = all[m].checksum

\* The sends after k that the inner loop reports.
Duplicates(k) ==
    {m \in (k + 1)..Len(all) : Eligible(m) /\ ~reported[m] /\ SameMessage(k, m)}

\* Both sends of every pair are marked.
Mark(k) ==
    reported' = [m \in Positions |->
                    reported[m] \/ m \in Duplicates(k) \/ (m = k /\ Duplicates(k) # {})]

CheckSend ==
    /\ rstep = "check" /\ ri \in Positions
    /\ Eligible(ri) /\ ~reported[ri]
    /\ Mark(ri)
    /\ replay_count' = replay_count + Cardinality(Duplicates(ri))
    /\ ri' = ri + 1
    /\ UNCHANGED <<all, used, rstep>>

\* The continue of the outer loop.
SkipSend ==
    /\ rstep = "check" /\ ri \in Positions
    /\ ~Eligible(ri) \/ reported[ri]
    /\ ri' = ri + 1
    /\ UNCHANGED <<all, used, rstep, reported, replay_count>>

EndReplay ==
    /\ rstep = "check" /\ ri > Len(all)
    /\ rstep' = "done"
    /\ UNCHANGED <<all, used, ri, reported, replay_count>>

RStep == BeginReplay \/ CheckSend \/ SkipSend \/ EndReplay

RNext == (rstep = "idle" /\ Prepare /\ UNCHANGED rvars) \/ RStep

RSpec == AInit /\ RInit /\ [][RNext]_<<all, used, rvars>>

-----------------------------------------------------------------------------
RTypeOK ==
    /\ ATypeOK
    /\ rstep \in {"idle", "check", "done"}
    /\ ri \in 1..(Len(all) + 1)
    /\ rstep # "idle" => reported \in [Positions -> BOOLEAN]
    /\ replay_count \in 0..Cardinality({m \in Positions : Eligible(m)})

\* The sends that repeat one before position n and before themselves.
RepeatsOf(n) ==
    {m \in Positions : Eligible(m) /\ \E k \in 1..(n - 1) :
                            k < m /\ Eligible(k) /\ SameMessage(k, m)}

\* In the end every send that repeats an earlier one has been counted once, and
\* no other, although the marks that the inner loop sets hide sends from both
\* loops (detector.c 361-385).
ReplayCountIsRepeats ==
    rstep = "done" => replay_count = Cardinality(RepeatsOf(Len(all) + 1))
=============================================================================
