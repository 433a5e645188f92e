----------------------------- MODULE MsanSystem -----------------------------
(* The whole sanitizer at run time: the instrumented ranks of Runtime, and  *)
(* the analysis of Detector on the events that rank 0 has gathered.         *)
EXTENDS Runtime, Detector

sysvars == <<jobvars, dvars>>

Init == JobInit /\ DInit

\* Rank 0 calls msan_analyze_events with the array it has gathered.
StartAnalysis ==
    /\ Gatherv
    /\ Analyze(Collected)
    /\ UNCHANGED <<setting, checks>>

AnalysisStep ==
    /\ pc[0] = "analyze"
    /\ DStep
    /\ UNCHANGED <<setting, program, log, gather, delivered>>

Reported == sstep = "done"

EndAnalysis ==
    /\ Reported
    /\ AnalysisReturns
    /\ UNCHANGED <<setting, dvars>>

Program(r) == RankStep(r) /\ UNCHANGED <<setting, dvars>>
Root == RootStep /\ UNCHANGED <<setting, dvars>>
Faults == Network /\ UNCHANGED <<setting, dvars>>
Clock == Tick /\ UNCHANGED dvars
Analysis == StartAnalysis \/ AnalysisStep \/ EndAnalysis

Next == (\E r \in Ranks : Program(r)) \/ Root \/ Faults \/ Clock \/ Analysis

Spec == Init /\ [][Next]_sysvars

\* The job goes on as long as a rank can go on, MPI can move data or rank 0 has
\* analysis left; no fairness between the ranks is needed, since their programs
\* are finite, and nothing is assumed of the faults and of the clock.
Fairness == WF_sysvars((\E r \in Ranks : Program(r)) \/ Root \/ Analysis)

FairSpec == Spec /\ Fairness

\* The bytes that the ranks may log fit an int, so that no displacement wraps
\* (what happens when they do not is GatherLayout's subject).
LogsFit ==
    \A p \in DOMAIN Programs : \A r \in Ranks :
        Len(Programs[p].code[r]) * num_ranks * EventBytes <= IntMax

\* Communicator c has the ranks of MPI_COMM_WORLD in its order, and the same handle
\* on all of them.
Handle(c) == CommHandle[0][c]
World(c) ==
    /\ Group[c] = [k \in 1..num_ranks |-> k - 1]
    /\ \A r \in Ranks : CommHandle[r][c] = Handle(c)

\* All messages are sent and received on such communicators (what happens when they
\* are not is DeliveredIsMatched's subject).
OnWorld ==
    \A p \in DOMAIN Programs : \A r \in Ranks : \A n \in DOMAIN Programs[p].code[r] :
        \A c \in Programs[p].code[r][n] \ {NoCall} : c.op \in {"Send", "Recv"} => World(c.comm)

\* The messages are shorter than the numbers that stand for hashes can tell apart
\* (Checksum), and no buffer is at NULL (MPI_BOTTOM), so that a damaged message has
\* another checksum.
HashLimit == 1024 * 1024
HashesDiffer ==
    \A p \in DOMAIN Programs : \A r \in Ranks : \A n \in DOMAIN Programs[p].code[r] :
        \A c \in Programs[p].code[r][n] \ {NoCall} :
            /\ c.op = "Send" => c.nbytes < HashLimit
            /\ c.op \in {"Send", "Recv"} => c.addr # 0

\* Messages are received on MPI_COMM_WORLD, whose error handler the runtime sets.
ReceivesOnWorld ==
    \A p \in DOMAIN Programs : \A r \in Ranks : \A n \in DOMAIN Programs[p].code[r] :
        \A c \in Programs[p].code[r][n] \ {NoCall} : c.op = "Recv" => c.comm = MPI_COMM_WORLD

-----------------------------------------------------------------------------
Places == {"start", "msan_init", "run", "send", "sync", "recv", "after_recv", "coll", "aborted",
           "gather", "gatherv", "layout", "analyze", "finalized"}

TypeOK ==
    /\ \A r \in Ranks : pc[r] \in Places
    /\ g_rank \in [Ranks -> {-1} \cup Ranks]
    /\ g_seq \in [Ranks -> Nat]
    /\ \A r \in Ranks : /\ g_events[r] \in Seq(Event)
                        /\ \A k \in DOMAIN g_events[r] : g_events[r][k].rank = r
    /\ local_n \in [Ranks -> {-1} \cup Nat]
    /\ DTypeOK

\* The array that rank 0 analyses is the logs of all ranks, each whole and in
\* the order it was written, one rank after the other, although the ranks log
\* and finalize at their own pace; it is what the analysis takes for granted of
\* its argument (runtime.c 118, 186-198).
GatheredIsTheLogs ==
    pc[0] \in {"analyze", "finalized"} =>
        /\ Gathered(all)
        /\ \A k \in 1..(Len(all) - 1) :
              \/ all[k].rank = all[k + 1].rank /\ all[k].seq + 1 = all[k + 1].seq
              \/ all[k].rank < all[k + 1].rank /\ all[k + 1].seq = 1
        /\ \A r \in Ranks : Cardinality({k \in DOMAIN all : all[k].rank = r}) = g_seq[r]

Deliveries == {[src |-> d.src, sseq |-> d.sseq, dst |-> d.dst, rseq |-> d.rseq] : d \in delivered}

MatchedEvents ==
    {[src |-> all[partner[k]].rank, sseq |-> all[partner[k]].seq,
      dst |-> all[k].rank, rseq |-> all[k].seq] : k \in Matched}

\* The receives that were called with a wildcard and without a status, so that
\* their events cannot name the source and the tag (runtime.c 145-148).
Unresolved ==
    {k \in DOMAIN all : \E d \in delivered :
        ~d.named /\ d.dst = all[k].rank /\ d.rseq = all[k].seq}

\* The detector, which only sees envelopes, pairs every receive with the very
\* send whose message MPI delivered to it, across wildcards, tags received out
\* of order and several senders, and pairs nothing else, as long as the events
\* name what was received.
PairsAreDeliveries == Reported /\ Unresolved = {} => MatchedEvents = Deliveries

\* The messages that are on their way.
InTransit == UNION {{<<s, r, k>> : k \in DOMAIN channel[s][r]} : s \in Ranks, r \in Ranks}

\* In a job that ends, what is reported as unmatched are the messages that
\* nobody has received, and the receives without source or tag together with
\* as many sends (detector.c 302-309, 343-353).
UnmatchedIsUndelivered ==
    Reported =>
        /\ unmatched_recv_count = Cardinality(Unresolved)
        /\ unmatched_send_count = Cardinality(InTransit) + Cardinality(Unresolved)

\* integrity-violation is reported for the messages that were damaged, and for
\* those that did not have the size of the receive buffer.
IntegrityIsDamageOrMisfit ==
    Reported /\ Unresolved = {} =>
        integrity_count = Cardinality({d \in delivered : ~d.intact \/ ~d.fits})

\* The ticks between the send of a message and the return of the receive that got it.
Ticks(d) == {<<d, n>> : n \in 1..d.transit}

\* The latencies that are summed up are the times from the send to the return of
\* the receive that got its message: of all messages together, as many ticks as the
\* clock went on while one was on its way (detector.c 285-289, 459).
LatencyIsTransit ==
    Reported /\ Unresolved = {} =>
        /\ total_lat = Cardinality(UNION {Ticks(d) : d \in delivered})
        /\ lat_count = Cardinality({d \in delivered : d.transit > 0})

\* A stall is never reported of a receive whose event names its source and tag:
\* every receive in the log has returned, however late (detector.c 390-413).
StallsAreUnresolved == Reported => stalled \subseteq Unresolved

\* Where every file that calls MPI_Init is instrumented, no error of MPI ends the job
\* before the report; elsewhere one does so only through a rank that has not run a
\* hook when it receives, and takes the ranks that have with it (README.md, Notes).
NoAbort ==
    (\E r \in Ranks : pc[r] = "aborted") =>
        /\ FALSE \in InitHooks
        /\ \E r \in Ranks : pc[r] = "aborted" /\ ~g_inited[r]

\* When every rank has entered __msan_finalize the analysis is completed.
ReportEventually == (\A r \in Ranks : local_n[r] # -1) ~> Reported

-----------------------------------------------------------------------------
(* The silent report, read as a statement about the run.                    *)

\* Event k is the n-th of rank r; the message that event j sent is the one that event
\* k received.
At(k, r, n) == all[k].rank = r /\ all[k].seq = n
Delivers(j, k) == \E e \in Deliveries : At(j, e.src, e.sseq) /\ At(k, e.dst, e.rseq)

\* Every message that was sent was received, undamaged, in a buffer of its size and
\* under its type, by a receive whose event names it; and every rank's n-th collective
\* is rank 0's.
CallsAgree == \A q \in Ranks : \A n \in CallNumbers : CallOf(q, n) = CallOf(0, n)
TypesAgree == \A j, k \in Positions : Delivers(j, k) => all[j].type_name = all[k].type_name
CleanRun ==
    /\ Unresolved = {} /\ InTransit = {}
    /\ \A d \in delivered : d.intact /\ d.fits
    /\ TypesAgree /\ CallsAgree

\* What SilentIffClean says of the array, of the run: the report is without mismatches
\* and unmatched events for exactly the clean runs, as long as no rank calls more
\* collectives than rank 0; and of a clean run it has no deadlock and no stall
\* (detector.c 453-494).
SilentIffCleanRun ==
    \A r \in report :
        NoneCallsMore =>
            /\ CleanRun <=>
                 /\ r.type_mismatch = 0 /\ r.size_mismatch = 0 /\ r.integrity_violation = 0
                 /\ r.collective_mismatch = 0 /\ r.unmatched_sends = 0 /\ r.unmatched_recvs = 0
            /\ CleanRun => r.deadlock_detected = 0 /\ r.timeout_warning = 0

-----------------------------------------------------------------------------
(* Claims of the documentation.                                             *)

\* README.md, Runtime Library: the operations that belong together are
\* compared, so a message that was delivered is matched.
DeliveredIsMatched == Reported => Deliveries \subseteq MatchedEvents

\* Every rank waits in MPI_Recv for a message that nobody has sent.
Deadlocked == \A r \in Ranks : pc[r] = "recv" /\ \A s \in Ranks : Acceptable(s, r) = {}

\* docs/runtime.md, Deadlock Detection: ranks that wait for each other are
\* reported.
DeadlockIsReported == Deadlocked ~> Reported
=============================================================================
