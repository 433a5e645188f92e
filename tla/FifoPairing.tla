---------------------------- MODULE FifoPairing ----------------------------
(* What the matching of sends and receives promises, whatever the loop that *)
(* computes it: MPI does not let messages of one envelope overtake each     *)
(* other, so within every envelope the sends and the receives of an array   *)
(* of events are paired in order, each at most once, until nothing that     *)
(* could be paired is left.  Pairs of different envelopes may be found in   *)
(* any order.                                                               *)
EXTENDS Events, Sequences

CONSTANT Arrays      \* the arrays of events that may have to be analysed

VARIABLES arr,       \* the array under analysis
          pairs,     \* the pairs <<send, receive>> of positions found so far
          stage      \* "idle", "pairing" or "done"

fvars == <<arr, pairs, stage>>

Free(k) == \A p \in pairs : k # p[1] /\ k # p[2]

\* Send j and receive k are still free and have the same envelope.
Pairable(j, k) ==
    /\ j \in 1..Len(arr) /\ k \in 1..Len(arr)
    /\ Free(j) /\ Free(k)
    /\ KeyEqual(arr[j], arr[k])

FInit == arr = <<>> /\ pairs = {} /\ stage = "idle"

Load ==
    /\ stage = "idle"
    /\ arr' \in Arrays
    /\ stage' = "pairing"
    /\ UNCHANGED pairs

\* Only the earliest free send and the earliest free receive of an envelope
\* may be paired.
Pair(j, k) ==
    /\ stage = "pairing"
    /\ Pairable(j, k)
    /\ \A m \in 1..(j - 1) : ~ Pairable(m, k)
    /\ \A m \in 1..(k - 1) : ~ Pairable(j, m)
    /\ pairs' = pairs \cup {<<j, k>>}
    /\ UNCHANGED <<arr, stage>>

Finish ==
    /\ stage = "pairing"
    /\ \A j, k \in 1..Len(arr) : ~ Pairable(j, k)
    /\ stage' = "done"
    /\ UNCHANGED <<arr, pairs>>

FNext ==
    \/ Load
    \/ \E j, k \in 1..Len(arr) : Pair(j, k)
    \/ Finish

FSpec == FInit /\ [][FNext]_fvars
=============================================================================
