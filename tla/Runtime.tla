------------------------------ MODULE Runtime ------------------------------
(* The instrumented program: every rank runs MPI_Init, a sequence of calls  *)
(* of its program, and MPI_Finalize, with the hooks of runtime.c around     *)
(* them.  MPI itself is outside the repository; it is modelled from what    *)
(* the hooks and the analysis rely on: messages from one rank to another    *)
(* stay in order, a receive takes the first message of its envelope, a send *)
(* may complete before it is received (buffered) or only when it is         *)
(* (rendezvous), and a collective makes its caller wait for the ranks its   *)
(* result depends on.                                                       *)
EXTENDS GatherLayout, Sequences, SequencesExt, FiniteSets

CONSTANTS
    Group,          \* Group[c]: the ranks of MPI_COMM_WORLD in communicator c, in its order
    MPI_COMM_WORLD, \* the communicator whose error handler the runtime sets
    CommHandle,     \* CommHandle[r][c]: c's Fortran handle on rank r
    Programs        \* the programs that may be run (Code and the bounds below)

ANY == -1           \* MPI_ANY_SOURCE, MPI_ANY_TAG

\* Communicator c counts its ranks from 0: its rank p, and its number for rank r.
Member(c, p) == Group[c][p + 1]
RankIn(c, r) == CHOOSE p \in 0..(Len(Group[c]) - 1) : Member(c, p) = r

VARIABLES
    prog,           \* the program that is run: a name in DOMAIN Programs
    now,            \* the clock, the same for all ranks
    pc,             \* pc[r]: where rank r is
    cur,            \* cur[r]: the call rank r is in
    ncalls,         \* ncalls[r]: calls made
    got,            \* got[r]: the message MPI_Recv handed to rank r
    channel,        \* channel[s][r]: messages from s to r
    entered,        \* entered[r][c]: collectives rank r has entered on c
    faults,         \* messages damaged so far
    g_inited, g_rank, g_seq, g_events, errors_return,     \* runtime.c, per rank
    local_n,        \* local_n[r]: the count sent to rank 0, -1 before that
    sent_block,     \* sent_block[r]: the log rank r has sent to rank 0
    delivered       \* history: which send each logged receive took, and how

setting == <<prog, now>>
program == <<pc, cur, ncalls, got, channel, entered, faults>>
log == <<g_inited, g_rank, g_seq, g_events, errors_return>>
gather == <<local_n, sent_block, layout>>
jobvars == <<setting, program, log, gather, delivered>>

NoCall == [op |-> "none"]
NoMessage == [seq |-> 0]

\* The calls that rank r may make as its n-th, NoCall among them when the program
\* may as well be over; and the bounds on what surrounds the program.
Code(r) == Programs[prog].code[r]
MaxFaults == Programs[prog].faults       \* bound: messages damaged on their way
MaxTicks == Programs[prog].ticks         \* bound: clock ticks
InitHooks == Programs[prog].init_hooks   \* whether MPI_Init is instrumented: TRUE, FALSE

Calls == [op : {"Send", "Recv"} \cup CollectiveOps, addr : Nat, peer : Int, tag : Int,
          comm : DOMAIN Group, nbytes : Nat, type : STRING, data : Nat, status : BOOLEAN]

\* Rank r may make the call c: r and the partner it names belong to the
\* communicator, only a receive may leave its partner and its tag open, and tags
\* are not negative.
Callable(r, c) ==
    /\ r \in ToSet(Group[c.comm])
    /\ c.op = "Send" => c.peer \in 0..(Len(Group[c.comm]) - 1) /\ c.tag \in Nat
    /\ c.op = "Recv" => c.peer \in {ANY} \cup 0..(Len(Group[c.comm]) - 1)

\* A communicator has ranks of MPI_COMM_WORLD, and different ones have different
\* handles; the programs are correct in their arguments.
ASSUME RuntimeAssumption ==
    /\ \A c \in DOMAIN Group : Group[c] \in Seq(Ranks)
    /\ MPI_COMM_WORLD \in DOMAIN Group
    /\ CommHandle \in [Ranks -> [DOMAIN Group -> Nat]]
    /\ \A r \in Ranks : \A c, d \in DOMAIN Group : CommHandle[r][c] = CommHandle[r][d] => c = d
    /\ \A p \in DOMAIN Programs :
          /\ Programs[p].code \in [Ranks -> Seq(SUBSET (Calls \cup {NoCall}))]
          /\ \A r \in Ranks : \A n \in DOMAIN Programs[p].code[r] :
                \A c \in Programs[p].code[r][n] \ {NoCall} : Callable(r, c)
          /\ Programs[p].init_hooks \subseteq BOOLEAN

JobInit ==
    /\ prog \in DOMAIN Programs /\ now = 0
    /\ pc = [r \in Ranks |-> "start"]
    /\ cur = [r \in Ranks |-> NoCall]
    /\ ncalls = [r \in Ranks |-> 0]
    /\ got = [r \in Ranks |-> NoMessage]
    /\ channel = [s \in Ranks |-> [r \in Ranks |-> <<>>]]
    /\ entered = [r \in Ranks |-> [c \in DOMAIN Group |-> 0]]
    /\ faults = 0
    /\ g_inited = [r \in Ranks |-> FALSE]
    /\ g_rank = [r \in Ranks |-> -1]
    /\ g_seq = [r \in Ranks |-> 0]
    /\ g_events = [r \in Ranks |-> <<>>]
    /\ errors_return = [r \in Ranks |-> FALSE]
    /\ local_n = [r \in Ranks |-> -1]
    /\ sent_block = [r \in Ranks |-> <<>>]
    /\ LInit
    /\ delivered = {}

Goto(r, l) == pc' = [pc EXCEPT ![r] = l]

-----------------------------------------------------------------------------
(* The hooks.                                                               *)

\* mutated form: the error handler of MPI_COMM_WORLD is left fatal.
InitIfNeededFatal(r) ==
    /\ g_inited' = [g_inited EXCEPT ![r] = TRUE]
    /\ g_rank' = [g_rank EXCEPT ![r] = r]
    /\ UNCHANGED errors_return

\* Assigning again what the first call assigned is the early return.
InitIfNeeded(r) ==
    /\ g_inited' = [g_inited EXCEPT ![r] = TRUE]
    /\ g_rank' = [g_rank EXCEPT ![r] = r]
    /\ errors_return' = [errors_return EXCEPT ![r] = TRUE]

\* The FNV hash of the buffer of cap bytes at addr that holds the len bytes of data;
\* none of a NULL or an empty one.  Different contents are taken to have different hashes.
Checksum(addr, data, len, cap) ==
    IF addr = 0 \/ cap = 0 THEN 0 ELSE 1 + (data * 1024 + len) * 1024 + cap

\* mutated form: the log is not created by the first event, so its rank is not known.
LogEventNoInit(r, kind, addr, peer, tag, comm, nbytes, type, sum, name) ==
    /\ UNCHANGED <<g_inited, g_rank, errors_return>>
    /\ g_seq' = [g_seq EXCEPT ![r] = @ + 1]
    /\ g_events' = [g_events EXCEPT ![r] = Append(@,
            [kind |-> kind, rank |-> g_rank'[r], peer |-> peer, tag |-> tag,
             comm |-> CommHandle[r][comm], nbytes |-> nbytes, buf_addr |-> addr,
             seq |-> g_seq'[r], timestamp |-> now, checksum |-> sum, type_name |-> type,
             coll_name |-> name])]

LogEvent(r, kind, addr, peer, tag, comm, nbytes, type, sum, name) ==
    /\ InitIfNeeded(r)
    /\ g_seq' = [g_seq EXCEPT ![r] = @ + 1]
    /\ g_events' = [g_events EXCEPT ![r] = Append(@,
            [kind |-> kind, rank |-> g_rank'[r], peer |-> peer, tag |-> tag,
             comm |-> CommHandle[r][comm], nbytes |-> nbytes, buf_addr |-> addr,
             seq |-> g_seq'[r], timestamp |-> now, checksum |-> sum, type_name |-> type,
             coll_name |-> name])]

-----------------------------------------------------------------------------
(* The program's calls.                                                     *)

\* MPI_Init returns; the hook after it runs next, unless the file that calls
\* MPI_Init was not instrumented.
MPIInit(r) ==
    /\ pc[r] = "start"
    /\ \E hooked \in InitHooks : Goto(r, IF hooked THEN "msan_init" ELSE "run")
    /\ UNCHANGED <<cur, ncalls, got, channel, entered, faults, log, gather, delivered>>

MsanInit(r) ==
    /\ pc[r] = "msan_init"
    /\ InitIfNeeded(r)
    /\ Goto(r, "run")
    /\ UNCHANGED <<cur, ncalls, got, channel, entered, faults, g_seq, g_events, gather,
                   delivered>>

\* The calls that rank r can make next.
Options(r) == IF ncalls[r] < Len(Code(r)) THEN Code(r)[ncalls[r] + 1] ELSE {}

Call(r, c, l) ==
    /\ pc[r] = "run"
    /\ cur' = [cur EXCEPT ![r] = c]
    /\ ncalls' = [ncalls EXCEPT ![r] = @ + 1]
    /\ Goto(r, l)

\* __msan_before_send, then MPI_Send is entered.
BeginSend(r, c) ==
    /\ c.op = "Send"
    /\ Call(r, c, "send")
    /\ LogEvent(r, "SEND", c.addr, c.peer, c.tag, c.comm, c.nbytes, c.type,
                Checksum(c.addr, c.data, c.nbytes, c.nbytes), NoName)
    /\ UNCHANGED <<got, channel, entered, faults, gather, delivered>>

\* The rank that r's call names.
Peer(r) == Member(cur[r].comm, cur[r].peer)

\* MPI takes the message, and returns at once or waits for the receiver.
DoSend(r) ==
    /\ pc[r] = "send"
    /\ channel' = [channel EXCEPT ![r][Peer(r)] = Append(@,
            [comm |-> cur[r].comm, tag |-> cur[r].tag, nbytes |-> cur[r].nbytes,
             data |-> cur[r].data, seq |-> g_seq[r],
             sent |-> Last(g_events[r]).timestamp, intact |-> TRUE])]
    /\ \E buffered \in BOOLEAN : Goto(r, IF buffered THEN "run" ELSE "sync")
    /\ UNCHANGED <<cur, ncalls, got, entered, faults, log, gather, delivered>>

SyncDone(r) ==
    /\ pc[r] = "sync"
    /\ \A k \in DOMAIN channel[r][Peer(r)] : channel[r][Peer(r)][k].seq # g_seq[r]
    /\ Goto(r, "run")
    /\ UNCHANGED <<cur, ncalls, got, channel, entered, faults, log, gather, delivered>>

\* A message is damaged on its way: its content is not what was sent.
Damaged(m) == [m EXCEPT !.data = @ + 1, !.intact = FALSE]

Damage(s, r) ==
    /\ faults < MaxFaults
    /\ \E k \in DOMAIN channel[s][r] :
        /\ channel[s][r][k].intact /\ channel[s][r][k].nbytes > 0
        /\ channel' = [channel EXCEPT ![s][r][k] = Damaged(@)]
    /\ faults' = faults + 1
    /\ UNCHANGED <<pc, cur, ncalls, got, entered, log, gather, delivered>>

BeginRecv(r, c) ==
    /\ c.op = "Recv"
    /\ Call(r, c, "recv")
    /\ UNCHANGED <<got, channel, entered, faults, log, gather, delivered>>

\* The positions of s's messages to r that r's receive accepts.
Acceptable(s, r) ==
    {k \in DOMAIN channel[s][r] :
        /\ cur[r].comm = channel[s][r][k].comm
        /\ cur[r].peer \in {RankIn(cur[r].comm, s), ANY}
        /\ cur[r].tag \in {channel[s][r][k].tag, ANY}}

Take(s, r, k) ==
    /\ k \in Acceptable(s, r)
    /\ \A m \in Acceptable(s, r) : k <= m
    /\ channel' = [channel EXCEPT ![s][r] = RemoveAt(@, k)]

\* MPI_Recv returns.  A message longer than the buffer is an error, which only
\* returns under MPI_ERRORS_RETURN; the buffer then holds the part that fits.  A
\* communicator of the program has the handler that MPI_COMM_WORLD had when it was
\* made, before or after the runtime set it.
DoRecv(r) ==
    /\ pc[r] = "recv"
    /\ \E s \in Ranks : \E k \in DOMAIN channel[s][r] :
        /\ Take(s, r, k)
        /\ channel[s][r][k].nbytes <= cur[r].nbytes \/ errors_return[r]
        /\ got' = [got EXCEPT ![r] = [source |-> s, tag |-> channel[s][r][k].tag,
                        nbytes |-> channel[s][r][k].nbytes, data |-> channel[s][r][k].data,
                        seq |-> channel[s][r][k].seq, sent |-> channel[s][r][k].sent,
                        intact |-> channel[s][r][k].intact]]
    /\ Goto(r, "after_recv")
    /\ UNCHANGED <<cur, ncalls, entered, faults, log, gather, delivered>>

\* The same error under the default handler is fatal.
RecvAborts(r) ==
    /\ pc[r] = "recv"
    /\ \E s \in Ranks : \E k \in DOMAIN channel[s][r] :
        /\ Take(s, r, k)
        /\ channel[s][r][k].nbytes > cur[r].nbytes
        /\ ~errors_return[r] \/ cur[r].comm # MPI_COMM_WORLD
    /\ Goto(r, "aborted")
    /\ UNCHANGED <<cur, ncalls, got, entered, faults, log, gather, delivered>>

\* A fatal error ends the whole job: MPI stops the other ranks, one after the other.
Stopped(r) ==
    /\ pc[r] \notin {"aborted", "finalized"}
    /\ \E q \in Ranks : pc[q] = "aborted"
    /\ Goto(r, "aborted")
    /\ UNCHANGED <<cur, ncalls, got, channel, entered, faults, log, gather, delivered>>

\* mutated form: a receive is logged with the arguments it was called with.
LoggedPeerArgument(r) == cur[r].peer

\* __msan_after_recv reads the source from the status when there is one.
LoggedPeer(r) == IF cur[r].status THEN RankIn(cur[r].comm, got[r].source) ELSE cur[r].peer

\* mutated form: only the source is read from the status.
LoggedTagArgument(r) == cur[r].tag

LoggedTag(r) == IF cur[r].status THEN got[r].tag ELSE cur[r].tag

AfterRecv(r) ==
    /\ pc[r] = "after_recv"
    /\ LogEvent(r, "RECV", cur[r].addr, LoggedPeer(r), LoggedTag(r), cur[r].comm, cur[r].nbytes,
                cur[r].type, Checksum(cur[r].addr, got[r].data, got[r].nbytes, cur[r].nbytes), NoName)
    /\ delivered' = delivered \cup
            {[src |-> got[r].source, sseq |-> got[r].seq, dst |-> r, rseq |-> g_seq'[r],
              intact |-> got[r].intact, fits |-> got[r].nbytes = cur[r].nbytes,
              transit |-> now - got[r].sent,
              named |-> cur[r].status \/ ANY \notin {cur[r].peer, cur[r].tag}]}
    /\ Goto(r, "run")
    /\ UNCHANGED <<cur, ncalls, got, channel, entered, faults, gather>>

\* __msan_before_collective, then the collective is entered.  The event of a
\* barrier has no root, as in the pass.
BeginColl(r, c) ==
    /\ c.op \in CollectiveOps
    /\ Call(r, c, "coll")
    /\ LogEvent(r, "COLL", c.addr, c.peer, 0, c.comm, c.nbytes, c.type, 0, c.op)
    /\ entered' = [entered EXCEPT ![r][c.comm] = @ + 1]
    /\ UNCHANGED <<got, channel, faults, gather, delivered>>

\* The ranks whose data a rank needs before it can leave its collective.
WaitsFor(r) ==
    LET members == ToSet(Group[cur[r].comm]) IN
    IF cur[r].op \in {"Barrier", "Allreduce"} THEN members
    ELSE IF cur[r].op = "Bcast" THEN {Peer(r)}
    ELSE IF Peer(r) = r THEN members ELSE {}

EndColl(r) ==
    /\ pc[r] = "coll"
    /\ \A q \in WaitsFor(r) : entered[q][cur[r].comm] >= entered[r][cur[r].comm]
    /\ Goto(r, "run")
    /\ UNCHANGED <<cur, ncalls, got, channel, entered, faults, log, gather, delivered>>

-----------------------------------------------------------------------------
(* __msan_finalize, called before MPI_Finalize.                             *)

\* The program of rank r may be over.
Over(r) == \A n \in (ncalls[r] + 1)..Len(Code(r)) : NoCall \in Code(r)[n]

\* mutated form: a rank without events returns before it takes part in the gather of logs.
FinalizeLeaving(r) ==
    /\ pc[r] = "run" /\ Over(r)
    /\ InitIfNeeded(r)
    /\ local_n' = [local_n EXCEPT ![r] = Len(g_events[r])]
    /\ Goto(r, IF r = 0 THEN "gather" ELSE IF g_events[r] = <<>> THEN "left" ELSE "gatherv")
    /\ UNCHANGED <<cur, ncalls, got, channel, entered, faults, g_seq, g_events, sent_block,
                   layout, delivered>>

\* The count goes to rank 0; a rank that is not the root does not wait for it.
Finalize(r) ==
    /\ pc[r] = "run" /\ Over(r)
    /\ InitIfNeeded(r)
    /\ local_n' = [local_n EXCEPT ![r] = Len(g_events[r])]
    /\ Goto(r, IF r = 0 THEN "gather" ELSE "gatherv")
    /\ UNCHANGED <<cur, ncalls, got, channel, entered, faults, g_seq, g_events, sent_block,
                   layout, delivered>>

\* mutated form: rank 0 goes on with the counts that have arrived so far.
GatherEarly ==
    /\ pc[0] = "gather"
    /\ LBegin([r \in Ranks |-> IF local_n[r] = -1 THEN 0 ELSE local_n[r]])
    /\ Goto(0, "layout")
    /\ UNCHANGED <<cur, ncalls, got, channel, entered, faults, log, local_n, sent_block,
                   delivered>>

\* PMPI_Gather completes at rank 0.
Gather ==
    /\ pc[0] = "gather"
    /\ \A r \in Ranks : local_n[r] # -1
    /\ LBegin(local_n)
    /\ Goto(0, "layout")
    /\ UNCHANGED <<cur, ncalls, got, channel, entered, faults, log, local_n, sent_block,
                   delivered>>

Layout ==
    /\ pc[0] = "layout"
    /\ LStep
    /\ UNCHANGED <<program, log, local_n, sent_block, delivered>>

\* PMPI_Gatherv hands a rank's log to MPI; the rank frees it and is done.
SendBlock(r) ==
    /\ r # 0 /\ pc[r] = "gatherv"
    /\ sent_block' = [sent_block EXCEPT ![r] = g_events[r]]
    /\ g_events' = [g_events EXCEPT ![r] = <<>>]
    /\ Goto(r, "finalized")
    /\ UNCHANGED <<cur, ncalls, got, channel, entered, faults, g_inited, g_rank, g_seq,
                   errors_return, local_n, layout, delivered>>

Block(r) == IF r = 0 THEN g_events[0] ELSE sent_block[r]

\* The rank whose block holds byte b of the array.
Owner(b) == CHOOSE r \in Ranks : displs_bytes[r] <= b /\ b < BlockEnd(r)

\* Every block is at its displacement.
Collected ==
    [k \in 1..total_events |->
        LET b == (k - 1) * EventBytes
        IN  Block(Owner(b))[((b - displs_bytes[Owner(b)]) \div EventBytes) + 1]]

\* PMPI_Gatherv completes at rank 0, which goes on with msan_analyze_events.
Gatherv ==
    /\ pc[0] = "layout" /\ LDone
    /\ \A r \in Ranks \ {0} : pc[r] = "finalized"
    /\ Goto(0, "analyze")
    /\ UNCHANGED <<cur, ncalls, got, channel, entered, faults, log, gather, delivered>>

\* msan_analyze_events has returned: rank 0 frees its log.
AnalysisReturns ==
    /\ pc[0] = "analyze"
    /\ g_events' = [g_events EXCEPT ![0] = <<>>]
    /\ Goto(0, "finalized")
    /\ UNCHANGED <<cur, ncalls, got, channel, entered, faults, g_inited, g_rank, g_seq,
                   errors_return, gather, delivered>>

-----------------------------------------------------------------------------
\* A step of rank r in its program or its hooks.
RankStep(r) ==
    \/ MPIInit(r) \/ MsanInit(r)
    \/ \E c \in Options(r) : BeginSend(r, c) \/ BeginRecv(r, c) \/ BeginColl(r, c)
    \/ DoSend(r) \/ SyncDone(r)
    \/ DoRecv(r) \/ RecvAborts(r) \/ Stopped(r) \/ AfterRecv(r)
    \/ EndColl(r)
    \/ Finalize(r) \/ SendBlock(r)

RootStep == Gather \/ Layout

\* Time passes.
Tick ==
    /\ now < MaxTicks
    /\ now' = now + 1
    /\ UNCHANGED <<prog, program, log, gather, delivered>>

Network == \E s, r \in Ranks : Damage(s, r)
=============================================================================
