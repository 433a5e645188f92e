---------------------------- MODULE TestPrograms ----------------------------
(* The programs of the repository's test suite (tests/, examples/,          *)
(* evaluation/) and a sample of the editor extension, as the calls each     *)
(* rank makes, and the verdict that run_all_tests.sh expects of the         *)
(* sanitizer for each test.                                                 *)
EXTENDS MsanSystem

CONSTANTS NUM_SMALL, HUGE_COUNT,     \* large_message_anomaly.c
          NUM_ITERATIONS             \* miniapp_eval.c

SizeOf == [int |-> 4, float |-> 4, double |-> 8]

\* The calls on MPI_COMM_WORLD, which is communicator 1.  Variables of a rank
\* that are no neighbours in memory have addresses that are far apart; data
\* stands for what a buffer holds.
MPI_Send(addr, data, count, type, dest, tag) ==
    [op |-> "Send", addr |-> addr, peer |-> dest, tag |-> tag, comm |-> 1,
     nbytes |-> count * SizeOf[type], type |-> type, data |-> data, status |-> FALSE]
MPI_Recv(addr, count, type, source, tag, status) ==
    [op |-> "Recv", addr |-> addr, peer |-> source, tag |-> tag, comm |-> 1,
     nbytes |-> count * SizeOf[type], type |-> type, data |-> 0, status |-> status]
Collective(name, addr, count, type, root) ==
    [op |-> name, addr |-> addr, peer |-> root, tag |-> 0, comm |-> 1,
     nbytes |-> count * SizeOf[type], type |-> type, data |-> 0, status |-> FALSE]

x == 1000
y == 2000

\* A program whose ranks make exactly these calls, on a network without faults.
Straight(code) ==
    [code |-> [r \in Ranks |-> [n \in DOMAIN code[r] |-> {code[r][n]}]],
     faults |-> 0, ticks |-> 0, init_hooks |-> {TRUE}]

OnEveryRank(calls) == Straight([r \in Ranks |-> calls])
OnTwoRanks(calls0, calls1) == Straight([r \in Ranks |-> IF r = 0 THEN calls0 ELSE calls1])

-----------------------------------------------------------------------------
(* examples/                                                                *)

type_mismatch ==
    OnTwoRanks(<<MPI_Send(x, 42, 1, "int", 1, 7)>>, <<MPI_Recv(y, 1, "double", 0, 7, TRUE)>>)

size_mismatch ==
    OnTwoRanks(<<MPI_Send(x, 1, 4, "int", 1, 9)>>, <<MPI_Recv(y, 2, "int", 0, 9, TRUE)>>)

collective_mismatch ==
    Straight([r \in Ranks |-> <<Collective("Bcast", x, 1, "int", IF r = 0 THEN 0 ELSE 1)>>])

-----------------------------------------------------------------------------
(* mpi-sanitizer-vscode/samples/                                            *)

mpi_deadlock ==
    OnTwoRanks(<<MPI_Recv(x, 1, "int", 1, 9, FALSE)>>, <<MPI_Recv(x, 1, "int", 0, 9, FALSE)>>)

-----------------------------------------------------------------------------
(* tests/                                                                   *)

correct_pingpong ==
    OnTwoRanks(<<MPI_Send(x, 42, 1, "int", 1, 10), MPI_Recv(y, 1, "int", 1, 20, TRUE)>>,
               <<MPI_Recv(y, 1, "int", 0, 10, TRUE), MPI_Send(x, 43, 1, "int", 0, 20)>>)

correct_broadcast == OnEveryRank(<<Collective("Bcast", x, 4, "int", 0)>>)
correct_reduce == OnEveryRank(<<Collective("Reduce", y, 1, "int", 0)>>)
correct_allreduce == OnEveryRank(<<Collective("Allreduce", y, 1, "int", -1)>>)

correct_multi_send ==
    Straight([r \in Ranks |->
        IF r = 0 THEN [dest \in 1..3 |-> MPI_Send(x + 4 * dest, dest, 1, "int", dest, dest)]
        ELSE IF r < 4 THEN <<MPI_Recv(y, 1, "int", 0, r, TRUE)>> ELSE <<>>])

deadlock ==
    OnTwoRanks(<<MPI_Send(x, 1, 1, "int", 1, 50)>>, <<MPI_Send(x, 2, 1, "int", 0, 51)>>)

wrong_tag ==
    OnTwoRanks(<<MPI_Send(y, 9, 1, "int", 1, 5), MPI_Send(x, 1, 1, "int", 1, 77),
                 MPI_Recv(x, 1, "int", 1, 88, TRUE)>>,
               <<MPI_Recv(x, 1, "int", 0, 77, TRUE), MPI_Send(y, 42, 1, "int", 0, 88)>>)

wrong_tag_nonblocking ==
    OnTwoRanks(<<MPI_Send(x, 3, 1, "double", 1, 10), MPI_Recv(y, 1, "int", 1, 20, TRUE)>>,
               <<MPI_Recv(y, 1, "int", 0, 10, TRUE), MPI_Send(x, 99, 1, "int", 0, 20)>>)

reduce_wrong_root ==
    Straight([r \in Ranks |-> <<Collective("Reduce", y, 1, "int", 0),
                                Collective("Bcast", x, 1, "int", r)>>])

bcast_wrong_root == Straight([r \in Ranks |-> <<Collective("Bcast", x, 1, "int", r)>>])

large_message_anomaly ==
    OnTwoRanks([t \in 1..NUM_SMALL |-> MPI_Send(x, t, 1, "int", 1, t)]
                    \o <<MPI_Send(y, 100, HUGE_COUNT, "int", 1, NUM_SMALL + 1)>>,
               [t \in 1..NUM_SMALL |-> MPI_Recv(x, 1, "int", 0, t, TRUE)]
                    \o <<MPI_Recv(y, HUGE_COUNT, "int", 0, NUM_SMALL + 1, TRUE)>>)

multi_type_errors ==
    OnTwoRanks(<<MPI_Send(x, 1, 4, "int", 1, 1), MPI_Send(y, 99, 1, "int", 1, 2),
                 MPI_Send(x + 100, 27, 1, "float", 1, 3)>>,
               <<MPI_Recv(x, 2, "int", 0, 1, TRUE), MPI_Recv(y, 1, "double", 0, 2, TRUE),
                 MPI_Recv(x + 100, 1, "float", 0, 3, TRUE)>>)

-----------------------------------------------------------------------------
(* evaluation/miniapp_eval.c: the ranks exchange the ends of their grids    *)
(* with their neighbours, and add up the result.                            *)
Exchange(r, iter) ==
    LET tag_right == 100 + iter
        tag_left == 200 + iter
        value(s) == 100 * iter + s
    IN  (IF r + 1 < num_ranks
         THEN <<MPI_Send(x + 8 * 99, value(r), 1, "double", r + 1, tag_right),
                MPI_Recv(y, 1, "double", r + 1, tag_left, TRUE)>>
         ELSE <<>>)
        \o (IF r - 1 >= 0
            THEN <<MPI_Send(x, value(r), 1, "double", r - 1, tag_left),
                   MPI_Recv(y + 8, 1, "double", r - 1, tag_right, TRUE)>>
            ELSE <<>>)

miniapp_eval ==
    Straight([r \in Ranks |->
        FlattenSeq([n \in 1..NUM_ITERATIONS |-> Exchange(r, n - 1)])
            \o <<Collective("Allreduce", y + 100, 1, "double", -1)>>])

-----------------------------------------------------------------------------
(* run_all_tests.sh: the tags that must be found in the output of a buggy   *)
(* program, and those that must not be in the output of a correct one.      *)
Suite ==
    [type_mismatch |-> {"type-mismatch"}, size_mismatch |-> {"size-mismatch"},
     collective_mismatch |-> {"collective-mismatch"},
     correct_pingpong |-> {}, correct_broadcast |-> {}, correct_reduce |-> {},
     correct_multi_send |-> {}, correct_allreduce |-> {},
     deadlock |-> {"unmatched-send", "deadlock-detected"}, wrong_tag |-> {"unmatched-send"},
     wrong_tag_nonblocking |-> {"type-mismatch"},
     reduce_wrong_root |-> {"collective-mismatch"}, bcast_wrong_root |-> {"collective-mismatch"},
     large_message_anomaly |-> {"anomaly-warning"},
     multi_type_errors |-> {"type-mismatch", "size-mismatch"},
     miniapp_eval |-> {}]

Errors == {"type-mismatch", "size-mismatch", "unmatched-send", "unmatched-recv",
           "deadlock-detected", "collective-mismatch", "overlap-warning", "anomaly-warning",
           "integrity-violation"}

\* The tags in the output: each counter counts the lines with its tag.
Lines ==
    ("type-mismatch" :> type_mismatch_count) @@ ("size-mismatch" :> size_mismatch_count)
    @@ ("unmatched-send" :> unmatched_send_count) @@ ("unmatched-recv" :> unmatched_recv_count)
    @@ ("deadlock-detected" :> deadlock_count) @@ ("collective-mismatch" :> coll_mismatch_count)
    @@ ("overlap-warning" :> overlap_count) @@ ("anomaly-warning" :> anomaly_count)
    @@ ("integrity-violation" :> integrity_count)

Tags == {tag \in Errors : Lines[tag] > 0}

\* The evaluation: every message is paired, nothing is taken for a replay or a
\* stall, and the graph, if it could be written, is the chain of the ranks,
\* labelled by the tags of the first iteration.
Chain ==
    {<<r, r + 1, 100>> : r \in 0..(num_ranks - 2)} \cup {<<r, r - 1, 200>> : r \in 1..(num_ranks - 1)}

EvaluationReport ==
    /\ replay_count = 0 /\ timeout_count = 0
    /\ matched_pairs = 2 * (num_ranks - 1) * NUM_ITERATIONS
    /\ ToSet(edges) \in {{}, Chain}

\* Whatever order the ranks run in, and however far MPI buffers their messages:
\* if the job of a test comes to its report, the test passes, and the report of
\* the evaluation is the one that its documentation shows
\* (run_all_tests.sh 163-213, evaluation/README.md 103-131).
SuiteVerdicts ==
    Reported /\ prog \in DOMAIN Suite =>
        /\ IF Suite[prog] = {} THEN Tags = {} ELSE Suite[prog] \subseteq Tags
        /\ prog = "miniapp_eval" => EvaluationReport

\* The tests that rely on MPI to buffer a message: two ranks that send to each
\* other first, and a message that nobody receives.
NeedBuffers == {"deadlock", "wrong_tag", "miniapp_eval"}

\* Every other test comes to its report, although some of its calls fail, and the
\* ranks of some disagree on their collectives: the runner's timeout of 60
\* seconds is for the others (run_all_tests.sh 113-114).
TestsReport == prog \in DOMAIN Suite \ NeedBuffers ~> Reported
=============================================================================
