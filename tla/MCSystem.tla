------------------------------ MODULE MCSystem ------------------------------
(* Programs for MsanSystem: those of the test suite, and small ones whose   *)
(* ranks choose each of their calls from a set.                             *)
EXTENDS TestPrograms

\* Communicator 1 is MPI_COMM_WORLD; communicator 2 leaves rank 0 out.
MCGroup == (1 :> [k \in 1..num_ranks |-> k - 1]) @@ (2 :> [k \in 1..(num_ranks - 1) |-> k])
MCHandles == [r \in Ranks |-> (1 :> 0) @@ (2 :> 3)]

\* Calls with int buffers of n elements.
Send(dst, tag, n, data) == MPI_Send(x, data, n, "int", dst, tag)
Recv(src, tag, n, status) == MPI_Recv(y, n, "int", src, tag, status)
Coll(name, root) == Collective(name, y, 1, "int", root)

\* Rank r makes up to max calls, each one of calls[r].
Free(calls, max, damaged, ticks, hooks) ==
    [code |-> [r \in Ranks |-> [n \in 1..max |-> calls[r] \cup {NoCall}]],
     faults |-> damaged, ticks |-> ticks, init_hooks |-> hooks]

\* Rank r makes calls[r][n] as its n-th, one of the set, for a while.
Stages(calls, ticks) ==
    [code |-> calls, faults |-> 0, ticks |-> ticks, init_hooks |-> {TRUE}]

-----------------------------------------------------------------------------
\* Two ranks: empty, fitting, short and long messages on two tags, received in
\* another order and with wildcards, and an exchange that may leave the ranks
\* waiting for each other; the shorter ones on a network that damages a message,
\* and with MPI_Init left out of the instrumentation.
PairCalls ==
    (0 :> {Send(1, 1, 0, 1), Send(1, 1, 1, 1), Send(1, 2, 2, 2), Recv(1, 1, 1, FALSE)}) @@
    (1 :> {Recv(0, 1, 1, TRUE), Recv(0, 2, 1, FALSE), Recv(ANY, ANY, 2, TRUE), Send(0, 1, 1, 1)})

Exchanges == Free((0 :> PairCalls[0] \ {Send(1, 1, 0, 1)}) @@
                  (1 :> PairCalls[1] \ {Recv(0, 1, 1, TRUE)}), 3, 0, 0, {TRUE})
Faulty == Free(PairCalls, 2, 1, 0, {TRUE, FALSE})

\* Two ranks on a running clock: three messages, received late or not at all.
Delays ==
    Stages((0 :> <<{Send(1, 1, 1, 1)}, {Send(1, 1, 1, 2), Send(1, 2, 1, 2)}, {Send(1, 1, 1, 3), NoCall}>>) @@
           (1 :> <<{Recv(0, 1, 1, TRUE)}, {Recv(0, ANY, 1, TRUE), NoCall},
                   {Recv(0, ANY, 1, FALSE), NoCall}>>), 2)

\* The same with receives that ask for no status.
Unasked ==
    Stages((0 :> <<{Send(1, 1, 1, 1)}, {Send(1, 1, 1, 2), Send(1, 2, 1, 2)}>>) @@
           (1 :> <<{Recv(ANY, 1, 1, FALSE), Recv(0, ANY, 1, FALSE)}, {Recv(0, 1, 1, TRUE), NoCall}>>), 2)

PairPrograms ==
    ("exchanges" :> Exchanges) @@ ("faulty" :> Faulty) @@ ("delays" :> Delays) @@ ("unasked" :> Unasked)
    @@ ("type_mismatch" :> type_mismatch) @@ ("size_mismatch" :> size_mismatch)
    @@ ("collective_mismatch" :> collective_mismatch)
    @@ ("correct_pingpong" :> correct_pingpong) @@ ("deadlock" :> deadlock)
    @@ ("wrong_tag" :> wrong_tag) @@ ("wrong_tag_nonblocking" :> wrong_tag_nonblocking)
    @@ ("reduce_wrong_root" :> reduce_wrong_root) @@ ("bcast_wrong_root" :> bcast_wrong_root)
    @@ ("large_message_anomaly" :> large_message_anomaly)
    @@ ("multi_type_errors" :> multi_type_errors)

-----------------------------------------------------------------------------
\* Four ranks: two senders that one receiver takes from in any order, and
\* collectives of every kind, with a last rank that may only join a barrier.
Senders ==
    LET coll == {Coll("Bcast", 0), Coll("Barrier", -1)}
        reduce == {Coll("Reduce", 0)}
    IN  Stages((0 :> <<{Send(1, 1, 1, 1), Send(1, 2, 1, 1)} \cup coll, coll \cup {NoCall}>>) @@
               (1 :> <<{Recv(ANY, 1, 1, TRUE), Recv(2, ANY, 1, TRUE)} \cup coll,
                       {Recv(ANY, 1, 1, TRUE), NoCall} \cup coll>>) @@
               (2 :> <<{Send(1, 1, 1, 1)} \cup coll \cup reduce, {Send(1, 1, 1, 1), NoCall}>>) @@
               (3 :> <<{Coll("Barrier", -1), NoCall}>>), 0)

RankPrograms ==
    ("senders" :> Senders) @@ ("correct_broadcast" :> correct_broadcast)
    @@ ("correct_reduce" :> correct_reduce) @@ ("correct_multi_send" :> correct_multi_send)
    @@ ("correct_allreduce" :> correct_allreduce) @@ ("miniapp_eval" :> miniapp_eval)

-----------------------------------------------------------------------------
\* Two ranks that may leave each other waiting, and the sample that does.
StallPrograms ==
    ("mpi_deadlock" :> mpi_deadlock) @@
    ("stall" :> Free((0 :> {Send(1, 1, 1, 1), Recv(1, 1, 1, TRUE), Coll("Barrier", -1)}) @@
                     (1 :> {Send(0, 1, 1, 1), Recv(0, 1, 1, TRUE), Coll("Barrier", -1)}),
                     1, 0, 0, {TRUE}))

On(c, call) == [call EXCEPT !.comm = c]

\* Three ranks: the ranks 1 and 2 also talk on the communicator without rank 0.
SplitPrograms ==
    "split" :> Free((0 :> {Send(1, 1, 1, 1)}) @@
                    (1 :> {On(2, Send(1, 1, 1, 1)), Recv(0, 1, 1, TRUE), On(2, Coll("Bcast", 1))}) @@
                    (2 :> {On(2, Recv(0, 1, 1, TRUE)), On(2, Coll("Bcast", 1))}),
                    2, 0, 0, {TRUE})

ASSUME ProgramsFit == LogsFit /\ HashesDiffer
ASSUME ProgramsOnWorld == OnWorld \/ "split" \in DOMAIN Programs
=============================================================================
