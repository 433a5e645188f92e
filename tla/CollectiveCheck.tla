-------------------------- MODULE CollectiveCheck --------------------------
(* check_collectives of detector.c: the events of each rank are located in  *)
(* the gathered array, and the n-th collective of every rank is compared    *)
(* with the n-th collective of the first rank that has one.  One action per *)
(* iteration of the outer loops; the inner loops over a rank's events are   *)
(* the operators CollectivesOf and NthCollective.                           *)
EXTENDS EventArray

VARIABLES
    cstep,               \* "idle", "scan", "count", "compare" or "done"
    ci,                  \* scan: the next event; compare: the number of the call
    cr,                  \* count, compare: the rank
    current_rank, offsets, counts,
    num_colls, max_colls,
    ref,                 \* the reference of call ci: {} (NULL) or {its position}
    coll_mismatch_count,
    flagged              \* history: the <<call, rank>> that were reported

cvars == <<cstep, ci, cr, current_rank, offsets, counts, num_colls, max_colls, ref,
           coll_mismatch_count, flagged>>

\* offsets holds positions, the first of which is 1.
CInit ==
    /\ cstep = "idle" /\ ci = 1 /\ cr = 0
    /\ current_rank = -1
    /\ offsets = [q \in Ranks |-> 1] /\ counts = [q \in Ranks |-> 0]
    /\ num_colls = [q \in Ranks |-> 0] /\ max_colls = 0
    /\ ref = {} /\ coll_mismatch_count = 0 /\ flagged = {}

-----------------------------------------------------------------------------
BeginCollectives ==
    /\ cstep = "idle"
    /\ cstep' = "scan"
    /\ UNCHANGED <<all, used, ci, cr, current_rank, offsets, counts, num_colls, max_colls, ref,
                   coll_mismatch_count, flagged>>

\* mutated form: the start of a rank's events is taken anew at every event.
ScanEveryOffset ==
    /\ cstep = "scan" /\ ci <= Len(all)
    /\ current_rank' = all[ci].rank
    /\ offsets' = IF current_rank' \in Ranks
                  THEN [offsets EXCEPT ![current_rank'] = ci] ELSE offsets
    /\ counts' = IF current_rank' \in Ranks
                 THEN [counts EXCEPT ![current_rank'] = @ + 1] ELSE counts
    /\ ci' = ci + 1
    /\ UNCHANGED <<all, used, cstep, cr, num_colls, max_colls, ref, coll_mismatch_count, flagged>>

\* A change of rank starts the events of the new rank.
Scan ==
    /\ cstep = "scan" /\ ci <= Len(all)
    /\ current_rank' = all[ci].rank
    /\ offsets' = IF current_rank' # current_rank /\ current_rank' \in Ranks
                  THEN [offsets EXCEPT ![current_rank'] = ci] ELSE offsets
    /\ counts' = IF current_rank' \in Ranks
                 THEN [counts EXCEPT ![current_rank'] = @ + 1] ELSE counts
    /\ ci' = ci + 1
    /\ UNCHANGED <<all, used, cstep, cr, num_colls, max_colls, ref, coll_mismatch_count, flagged>>

EndScan ==
    /\ cstep = "scan" /\ ci > Len(all)
    /\ cstep' = "count" /\ cr' = 0
    /\ UNCHANGED <<all, used, ci, current_rank, offsets, counts, num_colls, max_colls, ref,
                   coll_mismatch_count, flagged>>

\* The positions that the code takes for rank q's.
Segment(q) == offsets[q]..(offsets[q] + counts[q] - 1)

CollectivesOf(q) == {k \in Segment(q) : all[k].kind = "COLL"}

CountRank ==
    /\ cstep = "count" /\ cr < num_ranks
    /\ num_colls' = [num_colls EXCEPT ![cr] = Cardinality(CollectivesOf(cr))]
    /\ max_colls' = IF num_colls'[cr] > max_colls THEN num_colls'[cr] ELSE max_colls
    /\ cr' = cr + 1
    /\ UNCHANGED <<all, used, cstep, ci, current_rank, offsets, counts, ref, coll_mismatch_count,
                   flagged>>

\* With no collective at all there is nothing to compare.
EndCount ==
    /\ cstep = "count" /\ cr = num_ranks
    /\ cstep' = IF max_colls = 0 THEN "done" ELSE "compare"
    /\ ci' = 0 /\ cr' = 0 /\ ref' = {}
    /\ UNCHANGED <<all, used, current_rank, offsets, counts, num_colls, max_colls,
                   coll_mismatch_count, flagged>>

\* Rank q's n-th collective, counted from 0: {} or {its position}.
NthCollective(q, n) ==
    {k \in CollectivesOf(q) : Cardinality({m \in CollectivesOf(q) : m < k}) = n}

Differs(k, m) ==
    \/ all[k].coll_name # all[m].coll_name
    \/ all[k].comm # all[m].comm
    \/ all[k].peer # all[m].peer

\* The collective cur of a rank disagrees with the reference, or is missing.
Mismatch(cur) == ref # {} /\ (cur = {} \/ \E k \in ref, m \in cur : Differs(k, m))

\* The two loops go on, to the next rank or the next call.
NextRank ==
    IF cr < num_ranks - 1
    THEN cr' = cr + 1 /\ UNCHANGED <<ci, cstep>>
    ELSE /\ cr' = 0 /\ ci' = ci + 1
         /\ cstep' = IF ci + 1 < max_colls THEN "compare" ELSE "done"

\* mutated form: the reference of a call is kept for the next one.
CompareRankKeepRef ==
    /\ cstep = "compare"
    /\ LET cur == NthCollective(cr, ci) IN
         IF Mismatch(cur)
         THEN /\ coll_mismatch_count' = coll_mismatch_count + 1
              /\ flagged' = flagged \cup {<<ci, cr>>}
         ELSE UNCHANGED <<coll_mismatch_count, flagged>>
    /\ NextRank
    /\ ref' = IF ref = {} THEN NthCollective(cr, ci) ELSE ref
    /\ UNCHANGED <<all, used, current_rank, offsets, counts, num_colls, max_colls>>

CompareRank ==
    /\ cstep = "compare"
    /\ LET cur == NthCollective(cr, ci) IN
         IF Mismatch(cur)
         THEN /\ coll_mismatch_count' = coll_mismatch_count + 1
              /\ flagged' = flagged \cup {<<ci, cr>>}
         ELSE UNCHANGED <<coll_mismatch_count, flagged>>
    /\ NextRank
    /\ ref' = IF ci' # ci THEN {} ELSE IF ref = {} THEN NthCollective(cr, ci) ELSE ref
    /\ UNCHANGED <<all, used, current_rank, offsets, counts, num_colls, max_colls>>

CStep == BeginCollectives \/ Scan \/ EndScan \/ CountRank \/ EndCount \/ CompareRank

CNext == (cstep = "idle" /\ Prepare /\ UNCHANGED cvars) \/ CStep

CSpec == AInit /\ CInit /\ [][CNext]_<<all, used, cvars>>

-----------------------------------------------------------------------------
CTypeOK ==
    /\ ATypeOK
    /\ cstep \in {"idle", "scan", "count", "compare", "done"}
    /\ ci \in Nat /\ cr \in 0..num_ranks
    /\ cstep = "compare" => ci < max_colls /\ cr < num_ranks
    /\ current_rank \in Int
    /\ offsets \in [Ranks -> Nat] /\ counts \in [Ranks -> Nat]
    /\ num_colls \in [Ranks -> Nat] /\ max_colls \in Nat
    /\ ref \subseteq DOMAIN all
    /\ coll_mismatch_count \in Nat
    /\ flagged \subseteq Nat \X Ranks

\* The code finds every event of every rank, and takes none for another's.
SegmentsExact ==
    cstep \notin {"idle", "scan"} => \A q \in Ranks : Segment(q) = {k \in DOMAIN all : all[k].rank = q}

\* Rank q's n-th collective, counted from 0 in the order in which q has called
\* them: {} or the one call.
CallOf(q, n) ==
    LET colls == {k \in DOMAIN all : all[k].rank = q /\ all[k].kind = "COLL"} IN
    {[name |-> all[k].coll_name, comm |-> all[k].comm, root |-> all[k].peer] :
        k \in {m \in colls : Cardinality({l \in colls : l < m}) = n}}

\* The n-th call of rank r differs from that of the lowest rank that has made
\* one, a rank below r, or r has not made it.
Disagrees(n, r) ==
    \E p \in 0..(r - 1) : /\ CallOf(p, n) # {}
                          /\ \A q \in 0..(p - 1) : CallOf(q, n) = {}
                          /\ CallOf(r, n) # CallOf(p, n)

\* The reported calls are those that differ from the same call of the lowest
\* rank that has made it, or that a rank above it has not made
\* (detector.c 112-151).
VerdictExact ==
    cstep = "done" =>
        /\ flagged = {v \in (0..Len(all)) \X Ranks : Disagrees(v[1], v[2])}
        /\ coll_mismatch_count = Cardinality(flagged)

-----------------------------------------------------------------------------
(* docs/runtime.md, Collective Validation: "Ensures that all ranks in a     *)
(* communicator call the same collectives in the same order."               *)

\* The collectives rank q has called, in order: what a program's ranks have to
\* agree on.
CallsOf(q) ==
    LET colls == SelectSeq(all, LAMBDA e : e.rank = q /\ e.kind = "COLL") IN
    [n \in DOMAIN colls |-> [name |-> colls[n].coll_name, comm |-> colls[n].comm,
                             root |-> colls[n].peer]]

\* Ranks that have called different collectives are reported.
DisagreementIsReported ==
    cstep = "done" /\ (\E p, q \in Ranks : CallsOf(p) # CallsOf(q)) => coll_mismatch_count > 0
=============================================================================
