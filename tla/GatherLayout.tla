---------------------------- MODULE GatherLayout ----------------------------
(* Where rank 0 places the logs of the ranks: the loop of __msan_finalize   *)
(* (runtime.c) that turns the gathered event counts into the byte counts    *)
(* and byte displacements of MPI_Gatherv.  All of them are C ints, whose    *)
(* products and sums wrap, while the array they index is allocated with a   *)
(* size_t.                                                                  *)
EXTENDS Events

CONSTANTS EventBytes,             \* sizeof(MsanEvent)
          IntMax                  \* INT_MAX

ASSUME LayoutAssumption == EventBytes \in Nat \ {0} /\ IntMax \in Nat

VARIABLES counts_events,          \* the gathered counts
          li,                     \* the loop index
          displs_bytes, recvcounts_bytes, total_events,
          exact_total             \* history: the events so far, not wrapped

layout == <<counts_events, li, displs_bytes, recvcounts_bytes, total_events, exact_total>>

IntRange == (-(IntMax + 1))..IntMax

\* The int that holds the exact result n.
ToInt(n) == ((n + IntMax + 1) % (2 * (IntMax + 1))) - (IntMax + 1)

Zeros == [r \in Ranks |-> 0]      \* calloc

\* Before the counts are gathered.
LInit ==
    /\ counts_events = Zeros /\ displs_bytes = Zeros /\ recvcounts_bytes = Zeros
    /\ li = 0 /\ total_events = 0 /\ exact_total = 0

LBegin(counts) ==
    /\ counts_events' = counts
    /\ UNCHANGED <<li, displs_bytes, recvcounts_bytes, total_events, exact_total>>

\* mutated form: the displacement is taken after the rank's own events are added.
LStepLate ==
    /\ li < num_ranks
    /\ total_events' = ToInt(total_events + counts_events[li])
    /\ displs_bytes' = [displs_bytes EXCEPT ![li] = ToInt(total_events' * EventBytes)]
    /\ recvcounts_bytes' =
            [recvcounts_bytes EXCEPT ![li] = ToInt(counts_events[li] * EventBytes)]
    /\ exact_total' = exact_total + counts_events[li]
    /\ li' = li + 1
    /\ UNCHANGED counts_events

LStep ==
    /\ li < num_ranks
    /\ displs_bytes' = [displs_bytes EXCEPT ![li] = ToInt(total_events * EventBytes)]
    /\ recvcounts_bytes' =
            [recvcounts_bytes EXCEPT ![li] = ToInt(counts_events[li] * EventBytes)]
    /\ total_events' = ToInt(total_events + counts_events[li])
    /\ exact_total' = exact_total + counts_events[li]
    /\ li' = li + 1
    /\ UNCHANGED counts_events

LDone == li = num_ranks

\* The loop alone, on any counts.
LoopInit ==
    /\ counts_events \in [Ranks -> 0..IntMax]
    /\ displs_bytes = Zeros /\ recvcounts_bytes = Zeros
    /\ li = 0 /\ total_events = 0 /\ exact_total = 0

LoopSpec == LoopInit /\ [][LStep]_layout

-----------------------------------------------------------------------------
LTypeOK ==
    /\ counts_events \in [Ranks -> 0..IntMax]
    /\ li \in 0..num_ranks
    /\ displs_bytes \in [Ranks -> IntRange] /\ recvcounts_bytes \in [Ranks -> IntRange]
    /\ total_events \in IntRange /\ exact_total \in Nat

\* Where rank r's block ends, in bytes.
BlockEnd(r) == displs_bytes[r] + recvcounts_bytes[r]

\* If the bytes of all events fit an int, then when the loop ends the blocks of
\* the ranks tile the array: the first starts at its first byte, each other
\* where its predecessor ends, the last ends with the array, and each has room
\* for exactly its rank's events.  (If they do not fit, a block can be given a
\* place outside the array.)
BlocksTile ==
    LDone /\ exact_total * EventBytes <= IntMax =>
        /\ displs_bytes[0] = 0
        /\ \A r \in Ranks \ {0} : displs_bytes[r] = BlockEnd(r - 1)
        /\ BlockEnd(num_ranks - 1) = total_events * EventBytes
        /\ \A r \in Ranks : recvcounts_bytes[r] = counts_events[r] * EventBytes
=============================================================================
