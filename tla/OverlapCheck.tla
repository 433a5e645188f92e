---------------------------- MODULE OverlapCheck ----------------------------
(* check_overlap of detector.c: two events of one rank that follow each     *)
(* other and whose buffers share memory are counted.                        *)
EXTENDS EventArray

VARIABLES ostep,         \* "idle" or "done"
          overlap_count

ovars == <<ostep, overlap_count>>

OInit == ostep = "idle" /\ overlap_count = 0

-----------------------------------------------------------------------------
HasBuffer(a) == a.buf_addr # 0

\* The half-open ranges of addresses of a and b meet.
RangesMeet(a, b) ==
    /\ a.buf_addr < b.buf_addr + b.nbytes
    /\ b.buf_addr < a.buf_addr + a.nbytes

\* mutated form: the calls may be one further apart.
CloseInSequenceOff(a, b) == a.seq - b.seq \in -2..2

\* abs((int)a->seq - (int)b->seq) < 2
CloseInSequence(a, b) == a.seq - b.seq \in -1..1

Overlap(a, b) ==
    /\ a.rank = b.rank
    /\ HasBuffer(a) /\ HasBuffer(b)
    /\ RangesMeet(a, b)
    /\ CloseInSequence(a, b)

OverlapPairs == {p \in Positions \X Positions : p[1] < p[2] /\ Overlap(all[p[1]], all[p[2]])}

CheckOverlap ==
    /\ ostep = "idle"
    /\ ostep' = "done"
    /\ overlap_count' = Cardinality(OverlapPairs)
    /\ UNCHANGED <<all, used>>

ONext == (ostep = "idle" /\ Prepare /\ UNCHANGED ovars) \/ CheckOverlap

OSpec == AInit /\ OInit /\ [][ONext]_<<all, used, ovars>>

-----------------------------------------------------------------------------
OverlapTypeOK ==
    /\ ostep \in {"idle", "done"}
    /\ overlap_count \in Nat

\* The bytes of a's buffer.
Bytes(a) == IF HasBuffer(a) THEN a.buf_addr..(a.buf_addr + a.nbytes - 1) ELSE {}

\* An empty buffer strictly inside of b's, which the comparison of ranges takes
\* for an overlap although no byte is shared.
EmptyInside(a, b) ==
    a.nbytes = 0 /\ a.buf_addr \in Bytes(b) /\ a.buf_addr # b.buf_addr

\* What is counted are the places of the array where a call and the next of its
\* rank use a common byte, or one has an empty buffer inside of the other's: the
\* distance of the sequence numbers tells neighbours although the scan is over
\* all pairs, and no call of another rank comes in (detector.c 37-61).
OverlapsAreNeighbours ==
    ostep = "done" =>
        overlap_count = Cardinality({k \in 1..(Len(all) - 1) :
            /\ all[k].rank = all[k + 1].rank
            /\ \/ Bytes(all[k]) \cap Bytes(all[k + 1]) # {}
               \/ EmptyInside(all[k], all[k + 1]) \/ EmptyInside(all[k + 1], all[k])})
=============================================================================
