----------------------------- MODULE MCDetector -----------------------------
(* The arrays that three ranks can have gathered, in families that each     *)
(* exercise one of the checks and pass through all of them.                 *)
EXTENDS Detector

LOCAL INSTANCE SequencesExt

CONSTANTS Inputs,                     \* the arrays that are analysed
          MaxEvents0, MaxEvents1      \* the most events ranks 0 and 1 log for the matching

Shape(kind, peer, tag, comm, nbytes, type, sum, name) ==
    [kind |-> kind, rank |-> 0, peer |-> peer, tag |-> tag, comm |-> comm, nbytes |-> nbytes,
     buf_addr |-> 0, seq |-> 0, timestamp |-> 0, checksum |-> sum, type_name |-> type,
     coll_name |-> name]

\* The log of rank q with events of the given shapes, one in each tick.
Block(q, shapes) ==
    [n \in DOMAIN shapes |-> [shapes[n] EXCEPT !.rank = q, !.seq = n, !.timestamp = n]]

UpTo(m, S) == UNION {[1..n -> S] : n \in 0..m}

-----------------------------------------------------------------------------
(* Matching: rank 0 sends with two tags, sizes, types and contents,         *)
(* receives, and calls a barrier; rank 1 receives, also from a source that  *)
(* was not resolved.                                                        *)
Pair0 == {Shape("SEND", 1, 1, 0, 4, "int", 7, ""), Shape("SEND", 1, 1, 0, 8, "int", 9, ""),
          Shape("SEND", 1, 2, 0, 4, "float", 7, ""), Shape("RECV", 1, 1, 0, 4, "int", 7, ""),
          Shape("COLL", -1, 0, 0, 0, "int", 0, "Barrier")}
Pair1 == {Shape("RECV", 0, 1, 0, 4, "int", 7, ""), Shape("RECV", 0, 2, 0, 4, "int", 7, ""),
          Shape("RECV", -1, 1, 0, 4, "int", 7, ""), Shape("SEND", 0, 1, 0, 4, "int", 7, "")}

PairArrays == {Block(0, b0) \o Block(1, b1) : b0 \in UpTo(MaxEvents0, Pair0),
                                              b1 \in UpTo(MaxEvents1, Pair1)}

-----------------------------------------------------------------------------
(* Deadlocks: every graph of waits between the ranks, as sends and receives *)
(* that find no partner, beside events that are no wait.                    *)
Wait(q, p) == IF p = (q + 1) % 3 THEN Shape("RECV", p, 2, 0, 4, "int", 7, "")
                                 ELSE Shape("SEND", p, 1, 0, 4, "int", 7, "")

WaitsOf(q, E) ==
    LET peers == SetToSortSeq({p \in Ranks : <<q, p>> \in E}, <) IN
    [n \in DOMAIN peers |-> Wait(q, peers[n])]

NoWaits(q) ==
    IF q = 0 THEN <<Shape("SEND", 1, 9, 0, 4, "int", 7, ""), Shape("RECV", -1, 1, 0, 4, "int", 7, "")>>
    ELSE IF q = 1 THEN <<Shape("RECV", 0, 9, 0, 4, "int", 7, "")>> ELSE <<>>

WaitArrays ==
    {Block(0, NoWaits(0) \o WaitsOf(0, E)) \o Block(1, NoWaits(1) \o WaitsOf(1, E))
        \o Block(2, NoWaits(2) \o WaitsOf(2, E)) : E \in SUBSET (Ranks \X Ranks)}

-----------------------------------------------------------------------------
(* Replays: up to four sends of rank 0 that differ in one field or in none, *)
(* one of the shapes empty, and the receives of rank 1 for some of them.    *)
Repeated == Shape("SEND", 1, 1, 0, 4, "int", 7, "")
Other == Shape("SEND", 1, 2, 0, 4, "int", 7, "")
Repeat == {Repeated, Other, Shape("SEND", 1, 1, 0, 0, "int", 0, ""),
           Shape("SEND", 1, 1, 0, 4, "int", 8, "")}

Taken == {Shape("RECV", 0, 1, 0, 4, "int", 7, ""), Shape("RECV", 0, 2, 0, 4, "int", 7, "")}

ReplayArrays ==
    UNION {{Block(0, s) \o Block(1, t) :
                t \in {u \in UpTo(Len(s), Taken) : \A n \in 1..(Len(u) - 1) : u[n].tag <= u[n + 1].tag}} :
           s \in UpTo(3, Repeat) \cup [1..4 -> {Repeated, Other}]}

-----------------------------------------------------------------------------
(* Collectives: three ranks that have each called a few, and that MPI has   *)
(* not left waiting for each other.  Handle 0 is MPI_COMM_WORLD, handle 3   *)
(* that of the communicator of ranks 0 and 1.                               *)
Members == [c \in {0, 3} |-> IF c = 0 THEN Ranks ELSE {0, 1}]

CollCalls == {Shape("COLL", 0, 0, 0, 4, "int", 0, "Bcast"), Shape("COLL", 1, 0, 0, 4, "int", 0, "Bcast"),
              Shape("COLL", 0, 0, 0, 4, "int", 0, "Reduce"),
              Shape("COLL", -1, 0, 3, 0, "int", 0, "Barrier")}

\* A rank calls on the communicators it belongs to.
Programs(q, m) == UpTo(m, {x \in CollCalls : q \in Members[x.comm]})

\* How many collectives rank q has entered on communicator c when it has left
\* the first n of its calls.
Entered(prog, q, n, c) ==
    Cardinality({m \in DOMAIN prog[q] : m <= n + 1 /\ prog[q][m].comm = c})

\* The ranks that MPI makes a caller wait for (Runtime, WaitsFor).
WaitsFor(q, call) ==
    IF call.coll_name = "Barrier" THEN Members[call.comm]
    ELSE IF call.coll_name = "Bcast" THEN {call.peer}
    ELSE IF call.peer = q THEN Members[call.comm] ELSE {}

\* Rank q can leave its next call when the ranks have left p calls.
CanLeave(prog, q, p) ==
    LET call == prog[q][p[q] + 1] IN
    \A w \in WaitsFor(q, call) :
        Entered(prog, w, p[w], call.comm) >= Entered(prog, q, p[q], call.comm)

\* The ranks wait for each other nowhere, so that the job reaches the analysis.
Completes(prog) ==
    \A p \in [Ranks -> 0..2] :
        \/ \E q \in Ranks : p[q] > Len(prog[q])
        \/ \A q \in Ranks : p[q] = Len(prog[q])
        \/ \E q \in Ranks : p[q] < Len(prog[q]) /\ CanLeave(prog, q, p)

CollArrays ==
    {Block(0, p[1]) \o Block(1, p[2]) \o Block(2, p[3]) :
        p \in {q \in Programs(0, 2) \X Programs(1, 2) \X Programs(2, 2) :
                 Completes([x \in Ranks |-> q[x + 1]])}}

-----------------------------------------------------------------------------
(* Sizes: up to thirteen sends that are long, none, one or two of them      *)
(* empty, longer or very long; sizes whose squares are no doubles, and of   *)
(* these some that differ too little for the variance to show.              *)
Sized(n) == Shape("SEND", 1, 1, 0, n, "int", 7, "")

Sizes == ({2} \X {0, 4, 40}) \cup {<<21, 21>>, <<37, 37>>, <<59, 59>>, <<187, 203>>, <<189, 205>>}

SizeArrays == {Block(0, [k \in 1..n |-> Sized(IF k <= m THEN size[2] ELSE size[1])]) :
                 n \in 1..13, m \in 0..2, size \in Sizes}

-----------------------------------------------------------------------------
(* Buffers: neighbouring, overlapping, equal, empty and absent ones.        *)
At(addr, n, kind) == [Shape(kind, 1, 1, 0, n, "int", 7, IF kind = "COLL" THEN "Bcast" ELSE "")
                        EXCEPT !.buf_addr = addr]

Buffers == {At(8, 4, "SEND"), At(12, 4, "RECV"), At(10, 4, "COLL"), At(9, 0, "SEND"),
            At(12, 0, "SEND"), At(0, 16, "RECV")}

BufferArrays == {Block(0, b0) \o Block(1, b1) : b0 \in UpTo(3, Buffers), b1 \in UpTo(1, {At(8, 4, "SEND")})}

-----------------------------------------------------------------------------
(* Destinations that are no ranks: MPI_PROC_NULL has the value -1.          *)
NullArrays == {Block(0, b0) \o Block(1, b1) :
                 b0 \in UpTo(2, {Shape("SEND", p, 1, 0, 4, "int", 7, "") : p \in {-1, 1}}),
                 b1 \in UpTo(2, {Shape("SEND", p, 1, 0, 4, "int", 7, "") : p \in {-1, 0}})}

MCArrays == PairArrays \cup WaitArrays \cup ReplayArrays \cup CollArrays \cup SizeArrays
                \cup BufferArrays \cup NullArrays

-----------------------------------------------------------------------------
ASSUME InputsAreArrays == Inputs \subseteq Arrays

\* Detector with the arrays that it is entered with taken from Inputs.
MCEnter == phase = "idle" /\ (\E a \in Inputs : Analyze(a)) /\ UNCHANGED checks

MCSpec == DInit /\ [][MCEnter \/ DStep]_dvars
=============================================================================
