---------------------------- MODULE EventArray ----------------------------
(* The arguments of msan_analyze_events (detector.c) and the marks that its *)
(* first loop leaves, which all of its checks read: the gathered events and *)
(* the number of ranks.                                                     *)
EXTENDS Events, Sequences, FiniteSets

\* The events of a rank stand together, as the gather leaves them.
Grouped(a) == \A n \in DOMAIN a : \A k \in 1..n :
                a[k].rank = a[n].rank => \A m \in k..n : a[m].rank = a[n].rank

\* The events of a rank are numbered without gaps.
Numbered(a) == \A k, m \in DOMAIN a :
                a[k].rank = a[m].rank => a[m].seq - a[k].seq = m - k

\* What the gather delivers.
Gathered(a) == Grouped(a) /\ Numbered(a) /\ \A k \in DOMAIN a : a[k].rank \in Ranks

\* The arrays of events that may have to be analysed.
Arrays == {a \in Seq(Event) : Gathered(a)}

VARIABLES all,           \* the events, in the order they were gathered
          used           \* used[k]: loop 1 has matched event k

Positions == 1..Len(all)

AInit == all = <<>> /\ used = <<>>

\* What a check sees before its turn: an array arrives, and is marked.
Prepare ==
    /\ all' \in Arrays
    /\ used' \in [1..Len(all') -> BOOLEAN]

\* Before the analysis the array is empty.
Given == all \in Arrays \cup {<<>>}

ATypeOK ==
    /\ all \in Seq(Event)
    /\ used \in [Positions -> BOOLEAN]
=============================================================================
