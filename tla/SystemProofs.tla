---------------------------- MODULE SystemProofs ----------------------------
(* Proofs about MsanSystem as a whole, for every number of ranks and all    *)
(* programs that are correct in their arguments: what the pairs, the        *)
(* unmatched events, the mismatches, the latencies and the stalls of the    *)
(* report stand for, and what a report without any of them says of the run. *)
EXTENDS RuntimeProofs

(* Messages.  A receipt is a message that MPI has handed over to a receive, *)
(* whose event is logged or is the next to be.                              *)

\* The n-th event of rank s sends to rank r; its n-th and m-th event have the same
\* envelope otherwise.
SendAt(s, n, r) ==
    n \in 1..g_seq[s] /\ LogOf(s)[n].kind = "SEND" /\ LogOf(s)[n].peer = r
Alike(s, n, m) == LogOf(s)[n].tag = LogOf(s)[m].tag /\ LogOf(s)[n].comm = LogOf(s)[m].comm

Receipt(r) == [src |-> got[r].source, sseq |-> got[r].seq, dst |-> r, rseq |-> g_seq[r] + 1]
Receipts == Deliveries \cup {Receipt(r) : r \in {q \in Ranks : pc[q] = "after_recv"}}

\* A message on its way is the event that was logged for it, and no message of its
\* envelope has been handed over that was sent later.
OnWay(s, r, m) ==
    /\ SendAt(s, m.seq, r) /\ LogOf(s)[m.seq].tag = m.tag /\ LogOf(s)[m.seq].comm = Handle(m.comm)
    /\ pc[s] = "send" => m.seq < g_seq[s]

Fresh(s, r, m) ==
    \A e \in Receipts : e.src = s /\ e.dst = r /\ Alike(s, e.sseq, m.seq) => e.sseq < m.seq

ChannelInv ==
    \A s, r \in Ranks : \A k \in DOMAIN channel[s][r] :
        /\ OnWay(s, r, channel[s][r][k])
        /\ \A j \in 1..(k - 1) : channel[s][r][j].seq < channel[s][r][k].seq

FreshInv ==
    \A s, r \in Ranks : \A k \in DOMAIN channel[s][r] : Fresh(s, r, channel[s][r][k])

\* A receipt is of a send; no two are of the same send or the same receive; and the
\* sends of its envelope that came before have been received before.
ReceiptOf(e) ==
    /\ e.src \in Ranks /\ e.dst \in Ranks /\ SendAt(e.src, e.sseq, e.dst)
    /\ pc[e.src] = "send" => e.sseq < g_seq[e.src]
    /\ e.rseq \in 1..(g_seq[e.dst] + 1)
    /\ e.rseq > g_seq[e.dst] => pc[e.dst] = "after_recv"

Single(e) ==
    \A f \in Receipts : (e.src = f.src /\ e.sseq = f.sseq) \/ (e.dst = f.dst /\ e.rseq = f.rseq) => e = f

InOrder(e) ==
    \A n \in 1..(e.sseq - 1) : SendAt(e.src, n, e.dst) /\ Alike(e.src, n, e.sseq) =>
        \E f \in Receipts : f.src = e.src /\ f.sseq = n /\ f.dst = e.dst /\ f.rseq < e.rseq

ReceiptInv == \A e \in Receipts : ReceiptOf(e) /\ Single(e) /\ InOrder(e)

\* A message that was sent is still to be handed to MPI, on its way, or received.
Accounted(s, n, r) ==
    \/ pc[s] = "send" /\ n = g_seq[s]
    \/ \E k \in DOMAIN channel[s][r] : channel[s][r][k].seq = n
    \/ \E e \in Receipts : e.src = s /\ e.sseq = n /\ e.dst = r

CoverInv == \A s, r \in Ranks : \A n \in 1..g_seq[s] : SendAt(s, n, r) => Accounted(s, n, r)

\* A rank inside of a call has logged it, or will log what it has received.
InCall(r) ==
    /\ pc[r] \in {"send", "sync", "recv", "after_recv"} => World(cur[r].comm)
    /\ pc[r] = "send" =>
        /\ SendAt(r, g_seq[r], cur[r].peer)
        /\ LogOf(r)[g_seq[r]].tag = cur[r].tag /\ LogOf(r)[g_seq[r]].comm = Handle(cur[r].comm)
    /\ pc[r] = "after_recv" =>
        /\ LogOf(got[r].source)[got[r].seq].tag = got[r].tag
        /\ LogOf(got[r].source)[got[r].seq].comm = Handle(cur[r].comm)
        /\ cur[r].peer \in {got[r].source, ANY} /\ cur[r].tag \in {got[r].tag, ANY}

CallInv == \A r \in Ranks : InCall(r)

\* The event of a receive names what it received, or leaves it open.
Logged(d) ==
    /\ d.rseq \in 1..g_seq[d.dst] /\ LogOf(d.dst)[d.rseq].kind = "RECV"
    /\ LogOf(d.dst)[d.rseq].comm = LogOf(d.src)[d.sseq].comm
    /\ d.named => /\ LogOf(d.dst)[d.rseq].peer = d.src
                  /\ LogOf(d.dst)[d.rseq].tag = LogOf(d.src)[d.sseq].tag
    /\ ~d.named => ANY \in {LogOf(d.dst)[d.rseq].peer, LogOf(d.dst)[d.rseq].tag}

DeliveryInv == \A d \in delivered : Logged(d)

\* Every logged receive has received; and sends go to ranks, under tags.
EventInv ==
    \A r \in Ranks : \A n \in 1..g_seq[r] :
        /\ LogOf(r)[n].kind = "RECV" => \E d \in delivered : d.dst = r /\ d.rseq = n
        /\ LogOf(r)[n].kind = "SEND" => LogOf(r)[n].peer \in Ranks /\ LogOf(r)[n].tag # ANY

MessageInv == ChannelInv /\ FreshInv /\ ReceiptInv /\ CoverInv /\ CallInv /\ DeliveryInv /\ EventInv

-----------------------------------------------------------------------------
(* What steps leave of the logs and messages.                               *)

\* No log loses an event, or changes one.
LogsKept ==
    \A s \in Ranks : g_seq[s] \in Nat /\ g_seq'[s] \in Nat /\ g_seq[s] <= g_seq'[s]
                     /\ \A n \in 1..g_seq[s] : LogOf(s)'[n] = LogOf(s)[n]


\* What was logged stays logged.
LEMMA SendsKept ==
  ASSUME LogsKept, NEW s \in Ranks, NEW n \in 1..g_seq[s]
  PROVE  /\ \A r : SendAt(s, n, r)' <=> SendAt(s, n, r)
         /\ \A m \in 1..g_seq[s] : Alike(s, n, m)' <=> Alike(s, n, m)
         /\ n \in 1..g_seq'[s] /\ LogOf(s)'[n] = LogOf(s)[n]
<1>1. n \in 1..g_seq'[s] /\ \A m \in 1..g_seq[s] : LogOf(s)'[m] = LogOf(s)[m]
  BY DEF LogsKept
<1> QED BY <1>1 DEF SendAt, Alike

\* When messages stay in their order, and none is new, the channels stay right.
LEMMA ChannelsKept ==
  ASSUME ChannelInv, LogsKept,
         \A s \in Ranks : pc'[s] = "send" => pc[s] = "send" \/ g_seq[s] < g_seq'[s],
         \A s, r \in Ranks : \A k \in DOMAIN channel'[s][r] : \E m \in DOMAIN channel[s][r] :
            /\ channel'[s][r][k].seq = channel[s][r][m].seq
            /\ channel'[s][r][k].tag = channel[s][r][m].tag
            /\ channel'[s][r][k].comm = channel[s][r][m].comm
            /\ \A j \in 1..(k - 1) : \E i_ \in 1..(m - 1) :
                  channel'[s][r][j].seq = channel[s][r][i_].seq
  PROVE  ChannelInv'
<1> SUFFICES ASSUME NEW s \in Ranks, NEW r \in Ranks, NEW k \in DOMAIN channel'[s][r]
             PROVE  /\ OnWay(s, r, channel[s][r][k])'
                    /\ \A j \in 1..(k - 1) : channel'[s][r][j].seq < channel'[s][r][k].seq
  BY DEF ChannelInv
<1>1. PICK m \in DOMAIN channel[s][r] :
            /\ channel'[s][r][k].seq = channel[s][r][m].seq
            /\ channel'[s][r][k].tag = channel[s][r][m].tag
            /\ channel'[s][r][k].comm = channel[s][r][m].comm
            /\ \A j \in 1..(k - 1) : \E i_ \in 1..(m - 1) :
                  channel'[s][r][j].seq = channel[s][r][i_].seq
  OBVIOUS
<1>2. OnWay(s, r, channel[s][r][m]) /\ \A j \in 1..(m - 1) : channel[s][r][j].seq < channel[s][r][m].seq
  BY DEF ChannelInv
<1>3. PICK n : n = channel[s][r][m].seq
  OBVIOUS
<1>4. n \in 1..g_seq[s] /\ SendAt(s, n, r) /\ LogOf(s)[n].tag = channel[s][r][m].tag
      /\ LogOf(s)[n].comm = Handle(channel[s][r][m].comm) /\ (pc[s] = "send" => n < g_seq[s])
  BY <1>2, <1>3 DEF OnWay, SendAt
<1>5. SendAt(s, n, r)' /\ LogOf(s)'[n] = LogOf(s)[n]
  BY <1>4, SendsKept
<1>6. pc'[s] = "send" => n < g_seq'[s]
  BY <1>4 DEF LogsKept
<1>7. OnWay(s, r, channel[s][r][k])'
  BY <1>1, <1>3, <1>4, <1>5, <1>6 DEF OnWay, SendAt, Handle
<1> QED BY <1>1, <1>2, <1>7

\* When nothing is handed over, the receipts stay right.
LEMMA ReceiptsKept ==
  ASSUME ReceiptInv, LogsKept, Receipts' = Receipts,
         \A s \in Ranks : pc'[s] = "send" => pc[s] = "send" \/ g_seq[s] < g_seq'[s],
         \A s \in Ranks : pc[s] = "after_recv" => pc'[s] = "after_recv" \/ g_seq[s] < g_seq'[s]
  PROVE  ReceiptInv'
<1> SUFFICES ASSUME NEW e \in Receipts
             PROVE  ReceiptOf(e)' /\ Single(e)' /\ InOrder(e)'
  BY DEF ReceiptInv
<1>1. ReceiptOf(e) /\ Single(e) /\ InOrder(e)
  BY DEF ReceiptInv
<1>2. /\ e.src \in Ranks /\ e.dst \in Ranks /\ SendAt(e.src, e.sseq, e.dst) /\ e.sseq \in 1..g_seq[e.src]
      /\ pc[e.src] = "send" => e.sseq < g_seq[e.src]
      /\ e.rseq \in 1..(g_seq[e.dst] + 1)
      /\ e.rseq > g_seq[e.dst] => pc[e.dst] = "after_recv"
  BY <1>1 DEF ReceiptOf, SendAt
<1>3. /\ g_seq[e.src] \in Nat /\ g_seq'[e.src] \in Nat /\ g_seq[e.src] <= g_seq'[e.src]
      /\ g_seq[e.dst] \in Nat /\ g_seq'[e.dst] \in Nat /\ g_seq[e.dst] <= g_seq'[e.dst]
  BY <1>2 DEF LogsKept
<1>4. SendAt(e.src, e.sseq, e.dst)'
  BY <1>2, SendsKept
<1>5. ReceiptOf(e)'
  <2>1. pc'[e.src] = "send" => e.sseq < g_seq'[e.src]
    BY <1>2, <1>3
  <2>2. e.rseq \in 1..(g_seq'[e.dst] + 1)
    BY <1>2, <1>3
  <2>3. e.rseq > g_seq'[e.dst] => pc'[e.dst] = "after_recv"
    <3> SUFFICES ASSUME e.rseq > g_seq'[e.dst] PROVE pc'[e.dst] = "after_recv"
      OBVIOUS
    <3>1. e.rseq > g_seq[e.dst] /\ ~(g_seq[e.dst] < g_seq'[e.dst])
      BY <1>2, <1>3
    <3> QED BY <3>1, <1>2
  <2> QED BY <1>2, <1>4, <2>1, <2>2, <2>3 DEF ReceiptOf
<1>6. Single(e)'
  BY <1>1 DEF Single
<1>7. InOrder(e)'
  <2> SUFFICES ASSUME NEW n \in 1..(e.sseq - 1), SendAt(e.src, n, e.dst)', Alike(e.src, n, e.sseq)'
               PROVE  \E f \in Receipts : f.src = e.src /\ f.sseq = n /\ f.dst = e.dst /\ f.rseq < e.rseq
    BY DEF InOrder
  <2>1. n \in 1..g_seq[e.src]
    BY <1>2, <1>3
  <2>2. SendAt(e.src, n, e.dst) /\ Alike(e.src, n, e.sseq)
    BY <2>1, <1>2, SendsKept
  <2> QED BY <2>2, <1>1 DEF InOrder
<1> QED BY <1>5, <1>6, <1>7

\* The same for what is on its way.
LEMMA FreshKept ==
  ASSUME ChannelInv, FreshInv, ReceiptInv, LogsKept, Receipts' = Receipts,
         \A s, r \in Ranks : \A k \in DOMAIN channel'[s][r] : \E m \in DOMAIN channel[s][r] :
            channel'[s][r][k].seq = channel[s][r][m].seq
  PROVE  FreshInv'
<1> SUFFICES ASSUME NEW s \in Ranks, NEW r \in Ranks, NEW k \in DOMAIN channel'[s][r]
             PROVE  Fresh(s, r, channel[s][r][k])'
  BY DEF FreshInv
<1>0. PICK n : n = channel'[s][r][k].seq
  OBVIOUS
<1> SUFFICES ASSUME NEW e \in Receipts, e.src = s, e.dst = r, Alike(s, e.sseq, n)' PROVE e.sseq < n
  BY <1>0 DEF Fresh, Alike
<1>1. PICK m \in DOMAIN channel[s][r] : n = channel[s][r][m].seq
  BY <1>0
<1>2. SendAt(s, n, r)
  <2>1. OnWay(s, r, channel[s][r][m])
    BY DEF ChannelInv
  <2> QED BY <1>1, <2>1 DEF OnWay
<1>3. SendAt(s, e.sseq, r)
  BY DEF ReceiptInv, ReceiptOf
<1>4. Alike(s, e.sseq, n)
  BY <1>2, <1>3, SendsKept DEF SendAt
<1>5. Fresh(s, r, channel[s][r][m])
  BY DEF FreshInv
<1> QED BY <1>1, <1>4, <1>5 DEF Fresh

\* The deliveries stay right.
LEMMA DeliveriesKept ==
  ASSUME ReceiptInv, DeliveryInv, LogsKept, NEW d \in delivered
  PROVE  Logged(d)'
<1> DEFINE e == [src |-> d.src, sseq |-> d.sseq, dst |-> d.dst, rseq |-> d.rseq]
<1>1. e \in Receipts
  BY DEF Receipts, Deliveries
<1>2. d.src \in Ranks /\ d.dst \in Ranks /\ d.sseq \in 1..g_seq[d.src]
  BY <1>1 DEF ReceiptInv, ReceiptOf, SendAt
<1>3. Logged(d)
  BY DEF DeliveryInv
<1>4. d.rseq \in 1..g_seq[d.dst] /\ d.rseq \in 1..g_seq'[d.dst]
  BY <1>2, <1>3, SendsKept DEF Logged
<1>5. LogOf(d.src)'[d.sseq] = LogOf(d.src)[d.sseq] /\ LogOf(d.dst)'[d.rseq] = LogOf(d.dst)[d.rseq]
  BY <1>2, <1>4, SendsKept
<1> QED BY <1>3, <1>4, <1>5 DEF Logged

\* A rank that does nothing is in its call as it was.
LEMMA InCallKept ==
  ASSUME ReceiptInv, LogsKept, NEW r \in Ranks, InCall(r), pc'[r] = pc[r], cur'[r] = cur[r],
         got'[r] = got[r], g_seq'[r] = g_seq[r]
  PROVE  InCall(r)'
<1>1. CASE pc[r] = "send"
  <2>1. g_seq[r] \in 1..g_seq[r]
    BY <1>1 DEF InCall, SendAt
  <2>2. LogOf(r)'[g_seq[r]] = LogOf(r)[g_seq[r]]
    BY <2>1 DEF LogsKept
  <2> QED BY <1>1, <2>2 DEF InCall, SendAt, World, Handle
<1>2. CASE pc[r] = "after_recv"
  <2>1. Receipt(r) \in Receipts
    BY <1>2 DEF Receipts
  <2>2. got[r].source \in Ranks /\ got[r].seq \in 1..g_seq[got[r].source]
    BY <2>1 DEF ReceiptInv, ReceiptOf, Receipt, SendAt
  <2>3. LogOf(got[r].source)'[got[r].seq] = LogOf(got[r].source)[got[r].seq]
    BY <2>2 DEF LogsKept
  <2>4. (LogOf(got[r].source)[got[r].seq])' = LogOf(got[r].source)[got[r].seq]
    BY <2>3 DEF LogOf
  <2> QED BY <1>2, <2>4 DEF InCall, World, Handle
<1>3. CASE pc[r] \notin {"send", "after_recv"}
  BY <1>3 DEF InCall, World, Handle
<1> QED BY <1>1, <1>2, <1>3

\* On a communicator with the ranks of MPI_COMM_WORLD a rank has its own number.
LEMMA WorldFacts ==
  ASSUME NEW c \in DOMAIN Group, World(c)
  PROVE  /\ \A r \in Ranks : RankIn(c, r) = r /\ CommHandle[r][c] = Handle(c)
         /\ \A p \in 0..(Len(Group[c]) - 1) : p \in Ranks /\ Member(c, p) = p
<1>1. Group[c] = [k \in 1..num_ranks |-> k - 1] /\ num_ranks \in Nat \ {0} /\ Len(Group[c]) = num_ranks
  BY RanksAssumption DEF World
<1>2. \A p \in 0..(num_ranks - 1) : p \in Ranks /\ p + 1 \in 1..num_ranks /\ Member(c, p) = p
  BY <1>1 DEF Member, Ranks
<1>3. ASSUME NEW r \in Ranks
      PROVE  RankIn(c, r) = r
  <2>1. r \in 0..(Len(Group[c]) - 1) /\ Member(c, r) = r
    BY <1>1, <1>2 DEF Ranks
  <2>2. \A p \in 0..(Len(Group[c]) - 1) : Member(c, p) = r => p = r
    BY <1>1, <1>2
  <2> QED BY <2>1, <2>2 DEF RankIn
<1> QED BY <1>1, <1>2, <1>3 DEF World

\* A communicator is known by its handle.
LEMMA HandlesDiffer ==
  ASSUME NEW c \in DOMAIN Group, NEW d \in DOMAIN Group, Handle(c) = Handle(d)
  PROVE  c = d
BY RuntimeAssumption, ZeroIsRank DEF Handle

\* A step that logs nothing keeps all logs.
LEMMA LogsUnchanged ==
  ASSUME JobTypes, UNCHANGED <<g_seq, g_events, sent_block>>,
         \A s \in Ranks : s # 0 => (pc'[s] = "finalized" <=> pc[s] = "finalized")
  PROVE  LogsKept
<1>1. \A s \in Ranks : g_seq[s] \in Nat /\ g_seq'[s] = g_seq[s] /\ LogOf(s)' = LogOf(s)
  BY DEF JobTypes, LogOf
<1> QED BY <1>1 DEF LogsKept

\* A step that logs an event keeps what was logged before it.
LEMMA LogsAppended ==
  ASSUME JobTypes, RankLogs, NEW r \in Ranks, NEW e \in Event,
         g_events' = [g_events EXCEPT ![r] = Append(@, e)],
         g_seq' = [g_seq EXCEPT ![r] = @ + 1],
         pc[r] # "finalized", pc'[r] # "finalized", UNCHANGED sent_block,
         \A s \in Ranks \ {r} : pc'[s] = pc[s]
  PROVE  /\ LogsKept
         /\ g_seq[r] \in Nat /\ g_seq'[r] = g_seq[r] + 1 /\ LogOf(r)'[g_seq[r] + 1] = e
         /\ \A s \in Ranks \ {r} : g_seq'[s] = g_seq[s]
<1>1. /\ g_seq[r] \in Nat /\ g_seq'[r] = g_seq[r] + 1 /\ g_events'[r] = Append(g_events[r], e)
      /\ g_events[r] \in Seq(Event)
  BY DEF JobTypes
<1>2. \A s \in Ranks \ {r} : /\ g_seq'[s] = g_seq[s] /\ g_seq[s] \in Nat
                             /\ g_events'[s] = g_events[s]
  BY DEF JobTypes
<1>3. LogOf(r) = g_events[r] /\ LogOf(r)' = g_events'[r]
  BY DEF LogOf
<1>4. Len(g_events[r]) = g_seq[r]
  BY <1>3 DEF RankLogs, RankLog, Whole
<1>5. /\ \A n \in 1..g_seq[r] : LogOf(r)'[n] = LogOf(r)[n]
      /\ LogOf(r)'[g_seq[r] + 1] = e
  BY <1>1, <1>3, <1>4
<1>6. \A s \in Ranks \ {r} : LogOf(s)' = LogOf(s)
  BY <1>2 DEF LogOf
<1>7. ASSUME NEW s \in Ranks
      PROVE  g_seq[s] \in Nat /\ g_seq'[s] \in Nat /\ g_seq[s] <= g_seq'[s]
             /\ \A n \in 1..g_seq[s] : LogOf(s)'[n] = LogOf(s)[n]
  <2>1. CASE s = r
    BY <2>1, <1>1, <1>5
  <2>2. CASE s # r
    BY <2>2, <1>2, <1>6
  <2> QED BY <2>1, <2>2
<1> QED BY <1>1, <1>2, <1>5, <1>7 DEF LogsKept

\* A step that logs, sends and hands over nothing keeps the messages as they are.
LEMMA MessagesStay ==
  ASSUME MessageInv, LogsKept, UNCHANGED <<g_seq, delivered, got>>,
         \A s \in Ranks : /\ pc'[s] = "send" <=> pc[s] = "send"
                          /\ pc'[s] = "after_recv" <=> pc[s] = "after_recv",
         \A s \in Ranks : InCall(s)',
         \A s, r \in Ranks : /\ DOMAIN channel'[s][r] = DOMAIN channel[s][r]
                             /\ DOMAIN channel[s][r] \subseteq Nat
                             /\ \A k \in DOMAIN channel[s][r] :
                                  /\ channel'[s][r][k].seq = channel[s][r][k].seq
                                  /\ channel'[s][r][k].tag = channel[s][r][k].tag
                                  /\ channel'[s][r][k].comm = channel[s][r][k].comm
                                  /\ \A j \in 1..(k - 1) : j \in DOMAIN channel[s][r]
  PROVE  MessageInv'
<1>0. ChannelInv /\ FreshInv /\ ReceiptInv /\ CoverInv /\ CallInv /\ DeliveryInv /\ EventInv
  BY DEF MessageInv
<1>1. Receipts' = Receipts
  <2>1. {r \in Ranks : pc'[r] = "after_recv"} = {r \in Ranks : pc[r] = "after_recv"}
    OBVIOUS
  <2>2. \A r : Receipt(r)' = Receipt(r)
    BY DEF Receipt
  <2> QED BY <2>1, <2>2 DEF Receipts, Deliveries
<1>2. ChannelInv'
  BY <1>0, ChannelsKept
<1>3. FreshInv'
  BY <1>0, <1>1, FreshKept
<1>4. ReceiptInv'
  BY <1>0, <1>1, ReceiptsKept
<1>5. CoverInv'
  <2> SUFFICES ASSUME NEW s \in Ranks, NEW r \in Ranks, NEW n \in 1..g_seq[s], SendAt(s, n, r)'
               PROVE  Accounted(s, n, r)'
    BY DEF CoverInv
  <2>1. SendAt(s, n, r)
    BY SendsKept
  <2>2. Accounted(s, n, r)
    BY <1>0, <2>1 DEF CoverInv
  <2> QED BY <1>1, <2>2 DEF Accounted
<1>6. CallInv'
  BY DEF CallInv
<1>7. DeliveryInv'
  BY <1>0, DeliveriesKept DEF DeliveryInv
<1>8. EventInv'
  BY <1>0 DEF EventInv, LogsKept
<1> QED BY <1>2, <1>3, <1>4, <1>5, <1>6, <1>7, <1>8 DEF MessageInv

\* A step that logs one event keeps the messages as they are: a send is the next to
\* be handed to MPI, a receive has received.
LEMMA MessagesStayLogging ==
  ASSUME MessageInv, LogsKept, NEW r \in Ranks, Receipts' = Receipts, UNCHANGED channel,
         pc[r] \in {"run", "after_recv"}, pc'[r] # "after_recv",
         \A s \in Ranks \ {r} : /\ pc'[s] = pc[s] /\ cur'[s] = cur[s] /\ got'[s] = got[s]
                                /\ g_seq'[s] = g_seq[s],
         g_seq'[r] = g_seq[r] + 1,
         LogOf(r)'[g_seq[r] + 1].kind = "SEND" =>
            /\ pc'[r] = "send"
            /\ LogOf(r)'[g_seq[r] + 1].peer \in Ranks /\ LogOf(r)'[g_seq[r] + 1].tag # ANY,
         LogOf(r)'[g_seq[r] + 1].kind = "RECV" =>
            \E d \in delivered' : d.dst = r /\ d.rseq = g_seq[r] + 1,
         delivered \subseteq delivered', \A d \in delivered' \ delivered : Logged(d)',
         InCall(r)'
  PROVE  MessageInv'
<1>0. ChannelInv /\ FreshInv /\ ReceiptInv /\ CoverInv /\ CallInv /\ DeliveryInv /\ EventInv
  BY DEF MessageInv
<1>1. g_seq[r] \in Nat /\ \A s \in Ranks : g_seq[s] \in Nat /\ g_seq'[s] \in Nat
  BY DEF LogsKept
<1>2. /\ \A s \in Ranks : pc'[s] = "send" => pc[s] = "send" \/ g_seq[s] < g_seq'[s]
      /\ \A s \in Ranks : pc[s] = "after_recv" => pc'[s] = "after_recv" \/ g_seq[s] < g_seq'[s]
  BY <1>1
<1>3. \A s, q \in Ranks : \A k \in DOMAIN channel'[s][q] : \E m \in DOMAIN channel[s][q] :
            /\ channel'[s][q][k].seq = channel[s][q][m].seq
            /\ channel'[s][q][k].tag = channel[s][q][m].tag
            /\ channel'[s][q][k].comm = channel[s][q][m].comm
            /\ \A j \in 1..(k - 1) : \E i_ \in 1..(m - 1) :
                  channel'[s][q][j].seq = channel[s][q][i_].seq
  OBVIOUS
<1>4. ChannelInv'
  BY <1>0, <1>2, <1>3, ChannelsKept
<1>5. FreshInv'
  BY <1>0, <1>3, FreshKept
<1>6. ReceiptInv'
  BY <1>0, <1>2, ReceiptsKept
<1>7. CoverInv'
  <2> SUFFICES ASSUME NEW s \in Ranks, NEW q \in Ranks, NEW n \in 1..g_seq'[s], SendAt(s, n, q)'
               PROVE  Accounted(s, n, q)'
    BY DEF CoverInv
  <2>1. CASE n \in 1..g_seq[s]
    <3>1. SendAt(s, n, q)
      BY <2>1, SendsKept
    <3>2. Accounted(s, n, q)
      BY <1>0, <2>1, <3>1 DEF CoverInv
    <3>3. pc[s] = "send" /\ n = g_seq[s] => pc'[s] = "send" /\ n = g_seq'[s]
      OBVIOUS
    <3> QED BY <3>2, <3>3 DEF Accounted
  <2>2. CASE n \notin 1..g_seq[s]
    <3>1. s = r /\ n = g_seq[r] + 1
      BY <1>1, <2>2
    <3>2. LogOf(r)'[g_seq[r] + 1].kind = "SEND"
      BY <3>1 DEF SendAt
    <3> QED BY <3>1, <3>2 DEF Accounted
  <2> QED BY <2>1, <2>2
<1>8. CallInv'
  <2>1. \A s \in Ranks \ {r} : InCall(s)'
    BY <1>0, InCallKept DEF CallInv
  <2> QED BY <2>1 DEF CallInv
<1>9. DeliveryInv'
  BY <1>0, DeliveriesKept DEF DeliveryInv
<1>10. EventInv'
  <2> SUFFICES ASSUME NEW s \in Ranks, NEW n \in 1..g_seq'[s]
               PROVE  /\ LogOf(s)'[n].kind = "RECV" => \E d \in delivered' : d.dst = s /\ d.rseq = n
                      /\ LogOf(s)'[n].kind = "SEND" =>
                            LogOf(s)'[n].peer \in Ranks /\ LogOf(s)'[n].tag # ANY
    BY DEF EventInv
  <2>1. CASE n \in 1..g_seq[s]
    <3>1. LogOf(s)'[n] = LogOf(s)[n]
      BY <2>1, SendsKept
    <3> QED BY <1>0, <2>1, <3>1 DEF EventInv
  <2>2. CASE n \notin 1..g_seq[s]
    <3>1. s = r /\ n = g_seq[r] + 1
      BY <1>1, <2>2
    <3> QED BY <3>1
  <2> QED BY <2>1, <2>2
<1> QED BY <1>4, <1>5, <1>6, <1>7, <1>8, <1>9, <1>10 DEF MessageInv

\* A call that is begun is on a communicator with the ranks of MPI_COMM_WORLD.
LEMMA OptionsOnWorld ==
  ASSUME OnWorld, JobTypes, NEW r \in Ranks, NEW c \in Options(r), c.op \in {"Send", "Recv"}
  PROVE  c \in Calls /\ Callable(r, c) /\ World(c.comm)
<1>1. c # NoCall
  BY DEF NoCall
<1>2. c \in Calls /\ Callable(r, c)
  BY <1>1, OptionsFacts
<1>3. Code(r) \in Seq(SUBSET (Calls \cup {NoCall})) /\ ncalls[r] \in Nat
  BY RuntimeAssumption DEF JobTypes, Code
<1>4. ncalls[r] + 1 \in DOMAIN Code(r) /\ c \in Code(r)[ncalls[r] + 1]
  BY <1>3 DEF Options
<1>5. World(c.comm)
  BY <1>1, <1>4 DEF OnWorld, JobTypes, Code
<1> QED BY <1>2, <1>5

\* The receipts are told by the deliveries, and by who is about to log one.
LEMMA SameReceipts ==
  ASSUME UNCHANGED <<delivered, got>>,
         \A q \in Ranks : /\ pc'[q] = "after_recv" <=> pc[q] = "after_recv"
                          /\ pc[q] = "after_recv" => g_seq'[q] = g_seq[q]
  PROVE  Receipts' = Receipts
<1>1. \A q \in Ranks : pc[q] = "after_recv" => Receipt(q)' = Receipt(q)
  BY DEF Receipt
<1> QED BY <1>1 DEF Receipts, Deliveries

\* A send or a collective is begun.
LEMMA BeginKeepsMessages ==
  ASSUME OnWorld, JobTypes, CallsInHand, RankLogs, MessageInv, NEW r \in Ranks, NEW c \in Options(r),
         BeginSend(r, c) \/ BeginColl(r, c)
  PROVE  MessageInv'
<1>1. /\ pc[r] = "run" /\ UNCHANGED <<got, channel, sent_block, delivered>>
      /\ pc' = [pc EXCEPT ![r] = IF c.op = "Send" THEN "send" ELSE "coll"]
      /\ cur' = [cur EXCEPT ![r] = c]
      /\ g_seq' = [g_seq EXCEPT ![r] = @ + 1]
      /\ BeginSend(r, c) <=> c.op = "Send"
  BY DEF BeginSend, BeginColl, Call, Goto, gather, LogEvent, CollectiveOps
<1>2. PICK e \in Event :
        /\ e.rank = r /\ e.seq = g_seq[r] + 1 /\ g_events' = [g_events EXCEPT ![r] = Append(@, e)]
        /\ e.kind = IF c.op = "Send" THEN "SEND" ELSE "COLL"
        /\ c.op = "Send" => /\ e.peer = c.peer /\ e.tag = c.tag
                            /\ e.comm = CommHandle[r][c.comm]
  BY <1>1, BeginFacts DEF Writes
<1>3. /\ pc'[r] = (IF c.op = "Send" THEN "send" ELSE "coll") /\ cur'[r] = c
      /\ \A s \in Ranks \ {r} : pc'[s] = pc[s] /\ cur'[s] = cur[s]
  BY <1>1 DEF JobTypes
<1>4. pc[r] # "finalized" /\ pc'[r] # "finalized"
  BY <1>1, <1>3
<1>5. /\ LogsKept
      /\ g_seq[r] \in Nat /\ g_seq'[r] = g_seq[r] + 1 /\ LogOf(r)'[g_seq[r] + 1] = e
      /\ \A s \in Ranks \ {r} : g_seq'[s] = g_seq[s]
  BY <1>1, <1>2, <1>3, <1>4, LogsAppended
<1>6. Receipts' = Receipts
  BY <1>1, <1>3, <1>5, SameReceipts
<1>7. CASE c.op = "Send"
  <2>1. c \in Calls /\ Callable(r, c) /\ World(c.comm)
    BY <1>7, OptionsOnWorld
  <2>2. c.comm \in DOMAIN Group /\ c.tag \in Nat
    BY <1>7, <2>1 DEF Calls, Callable
  <2>3. e.comm = Handle(c.comm)
    BY <1>2, <1>7, <2>1 DEF World
  <2>4. InCall(r)'
    <3>1. World(cur'[r].comm) /\ pc'[r] = "send"
      BY <1>3, <1>7, <2>1 DEF World, Handle
    <3>2. SendAt(r, g_seq[r], cur[r].peer)'
      BY <1>2, <1>3, <1>5, <1>7 DEF SendAt
    <3>3. LogOf(r)'[g_seq'[r]].tag = cur'[r].tag /\ LogOf(r)'[g_seq'[r]].comm = Handle(cur'[r].comm)
      BY <1>2, <1>3, <1>5, <1>7, <2>3
    <3> QED BY <3>1, <3>2, <3>3 DEF InCall, Handle
  <2>5. e.kind = "SEND" /\ e.peer \in Ranks /\ e.tag # ANY /\ pc'[r] = "send"
    <3>1. c.peer \in Ranks
      BY <1>7, <2>1, <2>2, WorldFacts DEF Callable
    <3> QED BY <1>2, <1>3, <1>7, <2>2, <3>1 DEF ANY
  <2> QED BY <1>1, <1>3, <1>5, <1>6, <2>4, <2>5, MessagesStayLogging
<1>8. CASE c.op # "Send"
  <2>1. InCall(r)'
    BY <1>3, <1>8 DEF InCall
  <2>2. e.kind = "COLL"
    BY <1>2, <1>8
  <2> QED BY <1>1, <1>3, <1>5, <1>6, <2>1, <2>2, MessagesStayLogging
<1> QED BY <1>7, <1>8

\* What a receive has received is logged.
LEMMA AfterRecvKeepsMessages ==
  ASSUME JobTypes, CallsInHand, RankLogs, MessageInv, NEW r \in Ranks, AfterRecv(r)
  PROVE  MessageInv'
<1>0. ReceiptInv /\ CallInv /\ DeliveryInv
  BY DEF MessageInv
<1>1. /\ pc[r] = "after_recv" /\ pc' = [pc EXCEPT ![r] = "run"]
      /\ UNCHANGED <<cur, got, channel, sent_block>>
      /\ g_seq' = [g_seq EXCEPT ![r] = @ + 1]
  BY DEF AfterRecv, Goto, gather, LogEvent
<1>2. PICK e \in Event :
        /\ e.rank = r /\ e.seq = g_seq[r] + 1 /\ g_events' = [g_events EXCEPT ![r] = Append(@, e)]
        /\ e.kind = "RECV" /\ e.peer = LoggedPeer(r) /\ e.tag = LoggedTag(r)
        /\ e.comm = CommHandle[r][cur[r].comm]
  BY AfterRecvFacts DEF CallsInHand, Writes
<1>3. pc'[r] = "run" /\ \A s \in Ranks \ {r} : pc'[s] = pc[s]
  BY <1>1 DEF JobTypes
<1>4. pc[r] # "finalized" /\ pc'[r] # "finalized"
  BY <1>1, <1>3
<1>5. /\ LogsKept
      /\ g_seq[r] \in Nat /\ g_seq'[r] = g_seq[r] + 1 /\ LogOf(r)'[g_seq[r] + 1] = e
      /\ \A s \in Ranks \ {r} : g_seq'[s] = g_seq[s]
  BY <1>1, <1>2, <1>3, <1>4, LogsAppended
<1>6. PICK d : /\ delivered' = delivered \cup {d}
               /\ [src |-> d.src, sseq |-> d.sseq, dst |-> d.dst, rseq |-> d.rseq] = Receipt(r)
               /\ d.src = got[r].source /\ d.sseq = got[r].seq /\ d.dst = r /\ d.rseq = g_seq[r] + 1
               /\ d.named <=> cur[r].status \/ ANY \notin {cur[r].peer, cur[r].tag}
  <2> DEFINE d == [src |-> got[r].source, sseq |-> got[r].seq, dst |-> r, rseq |-> g_seq'[r],
                   intact |-> got[r].intact, fits |-> got[r].nbytes = cur[r].nbytes,
                   transit |-> now - got[r].sent,
                   named |-> cur[r].status \/ ANY \notin {cur[r].peer, cur[r].tag}]
  <2>1. delivered' = delivered \cup {d}
    BY DEF AfterRecv
  <2>2. d.src = got[r].source /\ d.sseq = got[r].seq /\ d.dst = r /\ d.rseq = g_seq[r] + 1
    BY <1>5
  <2>3. [src |-> d.src, sseq |-> d.sseq, dst |-> d.dst, rseq |-> d.rseq] = Receipt(r)
    BY <2>2 DEF Receipt
  <2>4. d.named <=> cur[r].status \/ ANY \notin {cur[r].peer, cur[r].tag}
    BY Zenon
  <2> HIDE DEF d
  <2> QED BY <2>1, <2>2, <2>3, <2>4
<1>7. Receipts' = Receipts
  <2>1. Deliveries' = Deliveries \cup {Receipt(r)}
    BY <1>6 DEF Deliveries
  <2>2. \A q \in Ranks \ {r} : Receipt(q)' = Receipt(q)
    BY <1>1, <1>5 DEF Receipt
  <2>3. Receipt(r) \in Receipts /\ Receipt(r) \in Receipts'
    BY <1>1, <2>1 DEF Receipts
  <2>4. \A q \in Ranks : pc'[q] = "after_recv" <=> q # r /\ pc[q] = "after_recv"
    BY <1>1, <1>3
  <2>5. {Receipt(q) : q \in {p \in Ranks : pc[p] = "after_recv"}}
            = {Receipt(q)' : q \in {p \in Ranks : pc'[p] = "after_recv"}} \cup {Receipt(r)}
    BY <1>1, <2>2, <2>4
  <2>6. Receipts' = Deliveries' \cup {Receipt(q)' : q \in {p \in Ranks : pc'[p] = "after_recv"}}
    BY DEF Receipts
  <2> QED BY <2>1, <2>5, <2>6 DEF Receipts
<1>8. InCall(r)'
  BY <1>3 DEF InCall
<1>9. Logged(d)'
  <2>1. /\ World(cur[r].comm)
        /\ LogOf(got[r].source)[got[r].seq].tag = got[r].tag
        /\ LogOf(got[r].source)[got[r].seq].comm = Handle(cur[r].comm)
        /\ cur[r].peer \in {got[r].source, ANY} /\ cur[r].tag \in {got[r].tag, ANY}
    BY <1>0, <1>1 DEF CallInv, InCall
  <2>2. Receipt(r) \in Receipts
    BY <1>1 DEF Receipts
  <2>3. d.src \in Ranks /\ d.sseq \in 1..g_seq[d.src]
    BY <1>0, <1>6, <2>2 DEF ReceiptInv, ReceiptOf, Receipt, SendAt
  <2>4. LogOf(d.src)'[d.sseq] = LogOf(d.src)[d.sseq]
    BY <1>5, <2>3, SendsKept
  <2>5. LogOf(d.src)'[d.sseq] = LogOf(got[r].source)[got[r].seq] /\ LogOf(d.dst)'[d.rseq] = e
    BY <1>5, <1>6, <2>4
  <2>6. cur[r].comm \in DOMAIN Group /\ cur[r].status \in BOOLEAN
    BY <1>1 DEF CallsInHand, CallInHand, Calls
  <2>7. e.comm = Handle(cur[r].comm) /\ RankIn(cur[r].comm, got[r].source) = got[r].source
    BY <1>2, <1>6, <2>1, <2>3, <2>6, WorldFacts
  <2>8. /\ d.named => e.peer = got[r].source /\ e.tag = got[r].tag
        /\ ~d.named => ANY \in {e.peer, e.tag}
    BY <1>2, <1>6, <2>1, <2>6, <2>7 DEF LoggedPeer, LoggedTag
  <2>9. d.rseq \in 1..g_seq'[d.dst]
    BY <1>5, <1>6
  <2> QED BY <1>2, <1>6, <2>1, <2>5, <2>7, <2>8, <2>9 DEF Logged
<1>10. e.kind # "SEND" /\ \E f \in delivered' : f.dst = r /\ f.rseq = g_seq[r] + 1
  BY <1>2, <1>6
<1>11. delivered \subseteq delivered' /\ \A f \in delivered' \ delivered : Logged(f)'
  BY <1>6, <1>9
<1> QED BY <1>1, <1>3, <1>5, <1>7, <1>8, <1>10, <1>11, MessagesStayLogging

\* MPI takes a message.
LEMMA DoSendKeepsMessages ==
  ASSUME JobTypes, CallsInHand, RankLogs, MessageInv, NEW r \in Ranks, DoSend(r)
  PROVE  MessageInv'
<1>0. ChannelInv /\ FreshInv /\ ReceiptInv /\ CoverInv /\ CallInv /\ DeliveryInv /\ EventInv
  BY DEF MessageInv
<1>1. /\ pc[r] = "send" /\ UNCHANGED <<cur, got, g_seq, g_events, sent_block, delivered>>
      /\ cur[r] \in Calls /\ Callable(r, cur[r]) /\ cur[r].op = "Send"
  BY DEF DoSend, log, gather, CallsInHand, CallInHand
<1>2. PICK l \in {"run", "sync"} : pc' = [pc EXCEPT ![r] = l]
  BY DEF DoSend, Goto
<1>3. pc'[r] = l /\ \A s \in Ranks \ {r} : pc'[s] = pc[s]
  BY <1>2 DEF JobTypes
<1>4. LogsKept
  BY <1>1, <1>3, LogsUnchanged
<1>5. PICK m, p : /\ p = Peer(r) /\ channel' = [channel EXCEPT ![r][p] = Append(@, m)]
                  /\ m.comm = cur[r].comm /\ m.tag = cur[r].tag /\ m.seq = g_seq[r]
  <2> DEFINE m == [comm |-> cur[r].comm, tag |-> cur[r].tag, nbytes |-> cur[r].nbytes,
                   data |-> cur[r].data, seq |-> g_seq[r],
                   sent |-> Last(g_events[r]).timestamp, intact |-> TRUE]
  <2>1. channel' = [channel EXCEPT ![r][Peer(r)] = Append(@, m)]
    BY DEF DoSend
  <2>2. m.comm = cur[r].comm /\ m.tag = cur[r].tag /\ m.seq = g_seq[r]
    OBVIOUS
  <2> HIDE DEF m
  <2> QED BY <2>1, <2>2
<1>6. p \in Ranks /\ p = cur[r].peer
  <2>1. cur[r].comm \in DOMAIN Group /\ cur[r].peer \in 0..(Len(Group[cur[r].comm]) - 1)
    BY <1>1 DEF Calls, Callable
  <2>2. World(cur[r].comm)
    BY <1>0, <1>1 DEF CallInv, InCall
  <2> QED BY <1>5, <2>1, <2>2, WorldFacts DEF Peer
<1>7. /\ SendAt(r, m.seq, p) /\ LogOf(r)[m.seq].tag = m.tag
      /\ LogOf(r)[m.seq].comm = Handle(m.comm)
  BY <1>0, <1>1, <1>5, <1>6 DEF CallInv, InCall
<1>8. PICK n : n = Len(channel[r][p])
  OBVIOUS
<1>9. /\ n \in Nat /\ DOMAIN channel[r][p] = 1..n /\ DOMAIN channel'[r][p] = 1..(n + 1)
      /\ channel'[r][p][n + 1] = m /\ \A k \in 1..n : channel'[r][p][k] = channel[r][p][k]
  <2>1. channel[r][p] \in Seq(Message) /\ channel'[r][p] = Append(channel[r][p], m)
    BY <1>5, <1>6 DEF JobTypes
  <2> QED BY <1>8, <2>1
<1>10. \A s, q \in Ranks : ~(s = r /\ q = p) => channel'[s][q] = channel[s][q]
  BY <1>5, <1>6 DEF JobTypes
<1>11. Receipts' = Receipts
  BY <1>1, <1>3, SameReceipts
<1>12. ASSUME NEW s \in Ranks, NEW q \in Ranks, NEW k \in DOMAIN channel[s][q]
       PROVE  OnWay(s, q, channel[s][q][k])'
  <2>1. channel'[s][q][k] = channel[s][q][k]
    BY <1>9, <1>10
  <2>2. PICK c : c = channel[s][q][k]
    OBVIOUS
  <2>3. OnWay(s, q, c)
    BY <1>0, <2>2 DEF ChannelInv
  <2>4. c.seq \in 1..g_seq[s]
    BY <2>3 DEF OnWay, SendAt
  <2>5. SendAt(s, c.seq, q)' /\ LogOf(s)'[c.seq] = LogOf(s)[c.seq]
    BY <1>4, <2>3, <2>4, SendsKept DEF OnWay
  <2>6. OnWay(s, q, c)'
    BY <1>1, <1>3, <2>3, <2>5 DEF OnWay, Handle
  <2> QED BY <2>1, <2>2, <2>6
<1>13. OnWay(r, p, m)'
  <2>1. m.seq \in 1..g_seq[r]
    BY <1>7 DEF SendAt
  <2>2. SendAt(r, m.seq, p)' /\ LogOf(r)'[m.seq] = LogOf(r)[m.seq]
    BY <1>4, <1>7, <2>1, SendsKept
  <2> QED BY <1>3, <1>7, <2>2 DEF OnWay, Handle
<1>14. \A k \in 1..n : channel[r][p][k].seq < g_seq[r]
  BY <1>0, <1>1, <1>6, <1>9 DEF ChannelInv, OnWay
<1>15. ChannelInv'
  <2> SUFFICES ASSUME NEW s \in Ranks, NEW q \in Ranks, NEW k \in DOMAIN channel'[s][q]
               PROVE  /\ OnWay(s, q, channel[s][q][k])'
                      /\ \A j \in 1..(k - 1) : channel'[s][q][j].seq < channel'[s][q][k].seq
    BY DEF ChannelInv
  <2>1. CASE s = r /\ q = p /\ k = n + 1
    <3>1. \A j \in 1..(k - 1) : channel'[s][q][j].seq < channel'[s][q][k].seq
      BY <1>5, <1>9, <1>14, <2>1
    <3> QED BY <1>9, <1>13, <2>1, <3>1
  <2>2. CASE s = r /\ q = p /\ k # n + 1
    <3>1. k \in 1..n
      BY <1>9, <2>2
    <3>2. \A j \in 1..(k - 1) : j \in 1..n /\ channel[r][p][j].seq < channel[r][p][k].seq
      BY SMTT(30), <1>0, <1>6, <1>9, <3>1 DEF ChannelInv
    <3> QED BY <1>9, <1>12, <2>2, <3>1, <3>2
  <2>3. CASE ~(s = r /\ q = p)
    BY <1>0, <1>10, <1>12, <2>3 DEF ChannelInv
  <2> QED BY <2>1, <2>2, <2>3
<1>16. FreshInv'
  <2> SUFFICES ASSUME NEW s \in Ranks, NEW q \in Ranks, NEW k \in DOMAIN channel'[s][q],
                      NEW c, c = channel'[s][q][k].seq,
                      NEW e \in Receipts, e.src = s, e.dst = q, Alike(s, e.sseq, c)'
               PROVE  e.sseq < c
    BY <1>11 DEF FreshInv, Fresh, Alike
  <2>1. ReceiptOf(e) /\ SendAt(s, e.sseq, q)
    BY <1>0 DEF ReceiptInv, ReceiptOf
  <2>2. CASE s = r /\ q = p /\ k = n + 1
    BY <1>1, <1>5, <1>9, <2>1, <2>2 DEF ReceiptOf
  <2>3. CASE ~(s = r /\ q = p /\ k = n + 1)
    <3>1. k \in DOMAIN channel[s][q] /\ c = channel[s][q][k].seq
      BY <1>9, <1>10, <2>3
    <3>2. SendAt(s, c, q)
      BY <1>0, <3>1 DEF ChannelInv, OnWay
    <3>3. Alike(s, e.sseq, c)
      BY <1>4, <2>1, <3>2, SendsKept DEF SendAt
    <3>4. Fresh(s, q, channel[s][q][k])
      BY <1>0, <3>1 DEF FreshInv
    <3> QED BY <3>1, <3>3, <3>4 DEF Fresh
  <2> QED BY <2>2, <2>3
<1>17. ReceiptInv'
  BY <1>0, <1>1, <1>2, <1>3, <1>4, <1>11, ReceiptsKept
<1>18. CoverInv'
  <2> SUFFICES ASSUME NEW s \in Ranks, NEW q \in Ranks, NEW k \in 1..g_seq[s], SendAt(s, k, q)'
               PROVE  Accounted(s, k, q)'
    BY <1>1 DEF CoverInv
  <2>1. SendAt(s, k, q)
    BY <1>4, SendsKept
  <2>2. Accounted(s, k, q)
    BY <1>0, <2>1 DEF CoverInv
  <2>3. CASE s = r /\ k = g_seq[s]
    <3>1. q = p
      BY <1>5, <1>7, <2>1, <2>3 DEF SendAt
    <3>2. n + 1 \in DOMAIN channel'[s][q] /\ channel'[s][q][n + 1].seq = k
      BY <1>5, <1>9, <2>3, <3>1
    <3> QED BY <3>2 DEF Accounted
  <2>4. CASE s # r /\ pc[s] = "send" /\ k = g_seq[s]
    BY <1>1, <1>3, <2>4 DEF Accounted
  <2>5. CASE \E j \in DOMAIN channel[s][q] : channel[s][q][j].seq = k
    <3>1. PICK j \in DOMAIN channel[s][q] : channel[s][q][j].seq = k
      BY <2>5
    <3>2. j \in DOMAIN channel'[s][q] /\ channel'[s][q][j] = channel[s][q][j]
      <4>1. CASE s = r /\ q = p
        BY <1>9, <3>1, <4>1
      <4>2. CASE ~(s = r /\ q = p)
        BY <1>10, <3>1, <4>2
      <4> QED BY <4>1, <4>2
    <3> QED BY <3>1, <3>2 DEF Accounted
  <2>6. CASE \E e \in Receipts : e.src = s /\ e.sseq = k /\ e.dst = q
    BY <1>11, <2>6 DEF Accounted
  <2> QED BY <2>2, <2>3, <2>4, <2>5, <2>6 DEF Accounted
<1>19. CallInv'
  <2>1. \A s \in Ranks \ {r} : InCall(s)'
    BY <1>0, <1>1, <1>3, <1>4, InCallKept DEF CallInv
  <2>2. InCall(r)'
    BY <1>0, <1>1, <1>2, <1>3 DEF CallInv, InCall, World, Handle
  <2> QED BY <2>1, <2>2 DEF CallInv
<1>20. DeliveryInv'
  BY <1>0, <1>1, <1>4, DeliveriesKept DEF DeliveryInv
<1>21. EventInv'
  BY <1>0, <1>1, <1>4 DEF EventInv, LogsKept
<1> QED BY <1>15, <1>16, <1>17, <1>18, <1>19, <1>20, <1>21 DEF MessageInv

\* Taking a message leaves the others, in their order.
LEMMA TakeLeaves ==
  ASSUME JobTypes, NEW s \in Ranks, NEW r \in Ranks, NEW k \in DOMAIN channel[s][r], Take(s, r, k),
         NEW p \in Ranks, NEW q \in Ranks
  PROVE  /\ \A j \in DOMAIN channel'[p][q] : \E m \in DOMAIN channel[p][q] :
              /\ ~(p = s /\ q = r /\ m = k) /\ channel'[p][q][j] = channel[p][q][m]
              /\ \A j_ \in 1..(j - 1) : \E m_ \in 1..(m - 1) : channel'[p][q][j_] = channel[p][q][m_]
         /\ \A m \in DOMAIN channel[p][q] :
              \/ p = s /\ q = r /\ m = k
              \/ \E j \in DOMAIN channel'[p][q] : channel'[p][q][j] = channel[p][q][m]
<1>1. /\ k \in 1..Len(channel[s][r]) /\ Len(channel[s][r]) \in Nat /\ channel[s][r] \in Seq(Message)
      /\ channel' = [channel EXCEPT ![s][r] = RemoveAt(@, k)]
  <2>1. channel[s][r] \in Seq(Message)
    BY DEF JobTypes
  <2>2. k \in 1..Len(channel[s][r]) /\ Len(channel[s][r]) \in Nat
    BY <2>1
  <2>3. channel' = [channel EXCEPT ![s][r] = RemoveAt(@, k)]
    BY DEF Take
  <2> QED BY <2>1, <2>2, <2>3
<1>2. CASE ~(p = s /\ q = r)
  <2>1. channel'[p][q] = channel[p][q]
    BY <1>1, <1>2 DEF JobTypes
  <2> QED BY <1>2, <2>1
<1>3. CASE p = s /\ q = r
  <2>1. channel'[p][q] = RemoveAt(channel[s][r], k)
    BY <1>1, <1>3 DEF JobTypes
  <2>2. PICK c, n : c = channel[s][r] /\ n = Len(c)
    OBVIOUS
  <2>3. PICK d : d = channel'[p][q]
    OBVIOUS
  <2>4. /\ n \in Nat /\ k \in 1..n /\ DOMAIN c = 1..n /\ DOMAIN d = 1..(n - 1)
        /\ \A j \in 1..(n - 1) : d[j] = IF j < k THEN c[j] ELSE c[j + 1]
    <3>1. /\ RemoveAt(c, k) \in Seq(Message) /\ Len(RemoveAt(c, k)) = n - 1
          /\ \A j \in 1..(n - 1) : RemoveAt(c, k)[j] = IF j < k THEN c[j] ELSE c[j + 1]
      BY <1>1, <2>2, RemoveAtFacts
    <3> QED BY <1>1, <2>1, <2>2, <2>3, <3>1
  <2>5. ASSUME NEW j \in 1..(n - 1)
        PROVE  \E m \in 1..n : /\ m # k /\ d[j] = c[m]
                               /\ \A j_ \in 1..(j - 1) : \E m_ \in 1..(m - 1) : d[j_] = c[m_]
    <3>1. CASE j < k
      <4>1. \A j_ \in 1..(j - 1) : d[j_] = c[j_]
        BY <2>4, <3>1
      <4> QED BY <2>4, <3>1, <4>1
    <3>2. CASE ~(j < k)
      <4>1. j + 1 \in 1..n /\ j + 1 # k /\ d[j] = c[j + 1]
        BY <2>4, <3>2
      <4>2. \A j_ \in 1..(j - 1) : /\ j_ \in 1..(j + 1 - 1) /\ j_ + 1 \in 1..(j + 1 - 1)
                                   /\ (d[j_] = c[j_] \/ d[j_] = c[j_ + 1])
        BY <2>4
      <4> QED BY <4>1, <4>2
    <3> QED BY <3>1, <3>2
  <2>6. ASSUME NEW m \in 1..n, m # k
        PROVE  \E j \in 1..(n - 1) : d[j] = c[m]
    <3>1. CASE m < k
      BY <2>4, <3>1
    <3>2. CASE ~(m < k)
      <4>1. m - 1 \in 1..(n - 1) /\ ~(m - 1 < k) /\ (m - 1) + 1 = m
        BY <2>4, <2>6, <3>2
      <4> QED BY <2>4, <4>1
    <3> QED BY <3>1, <3>2
  <2>7. /\ channel[p][q] = c /\ channel'[p][q] = d
        /\ DOMAIN channel[p][q] = 1..n /\ DOMAIN channel'[p][q] = 1..(n - 1)
    BY <1>3, <2>2, <2>3, <2>4
  <2>8. \A j \in DOMAIN channel'[p][q] : \E m \in DOMAIN channel[p][q] :
            /\ ~(p = s /\ q = r /\ m = k) /\ channel'[p][q][j] = channel[p][q][m]
            /\ \A j_ \in 1..(j - 1) : \E m_ \in 1..(m - 1) : channel'[p][q][j_] = channel[p][q][m_]
    BY ONLY <2>5, <2>7
  <2>9. \A m \in DOMAIN channel[p][q] :
            \/ p = s /\ q = r /\ m = k
            \/ \E j \in DOMAIN channel'[p][q] : channel'[p][q][j] = channel[p][q][m]
    BY <1>3, <2>6, <2>7
  <2> QED BY <2>8, <2>9
<1> QED BY <1>2, <1>3

\* A receive takes the first message of its envelope.
LEMMA FirstOfEnvelope ==
  ASSUME JobTypes, ChannelInv, NEW s \in Ranks, NEW r \in Ranks, NEW k \in DOMAIN channel[s][r],
         Take(s, r, k), NEW m \in DOMAIN channel[s][r],
         Alike(s, channel[s][r][m].seq, channel[s][r][k].seq)
  PROVE  k <= m
<1>1. channel[s][r][m] \in Message /\ channel[s][r][k] \in Message
  BY DEF JobTypes
<1>2. OnWay(s, r, channel[s][r][m]) /\ OnWay(s, r, channel[s][r][k])
  BY DEF ChannelInv
<1>3. /\ channel[s][r][m].tag = channel[s][r][k].tag
      /\ Handle(channel[s][r][m].comm) = Handle(channel[s][r][k].comm)
  BY <1>2 DEF OnWay, Alike
<1>4. channel[s][r][m].comm = channel[s][r][k].comm
  BY <1>1, <1>3, HandlesDiffer DEF Message
<1>5. m \in Acceptable(s, r)
  BY <1>3, <1>4 DEF Take, Acceptable
<1> QED BY <1>5 DEF Take

\* What a step that takes a message leaves right in any case.
LEMMA TakeKeepsChannels ==
  ASSUME JobTypes, MessageInv, LogsKept, NEW s \in Ranks, NEW r \in Ranks,
         NEW k \in DOMAIN channel[s][r], Take(s, r, k),
         \A q \in Ranks : pc'[q] = "send" => pc[q] = "send"
  PROVE  ChannelInv'
<1>1. ASSUME NEW p \in Ranks, NEW q \in Ranks, NEW j \in DOMAIN channel'[p][q]
      PROVE  \E m \in DOMAIN channel[p][q] :
                /\ channel'[p][q][j].seq = channel[p][q][m].seq
                /\ channel'[p][q][j].tag = channel[p][q][m].tag
                /\ channel'[p][q][j].comm = channel[p][q][m].comm
                /\ \A j_ \in 1..(j - 1) : \E m_ \in 1..(m - 1) :
                        channel'[p][q][j_].seq = channel[p][q][m_].seq
  <2>1. PICK m \in DOMAIN channel[p][q] :
              /\ channel'[p][q][j] = channel[p][q][m]
              /\ \A j_ \in 1..(j - 1) : \E m_ \in 1..(m - 1) : channel'[p][q][j_] = channel[p][q][m_]
    BY TakeLeaves
  <2> QED BY <2>1
<1>2. ChannelInv
  BY DEF MessageInv
<1> QED BY <1>1, <1>2, ChannelsKept

\* MPI hands a message over: it was sent, no other receive has got it, and all of
\* its envelope that were sent before have been handed over before.
LEMMA DoRecvKeepsMessages ==
  ASSUME JobTypes, CallsInHand, RankLogs, MessageInv, NEW r \in Ranks, DoRecv(r)
  PROVE  MessageInv'
<1>0. ChannelInv /\ FreshInv /\ ReceiptInv /\ CoverInv /\ CallInv /\ DeliveryInv /\ EventInv
  BY DEF MessageInv
<1>1. /\ pc[r] = "recv" /\ pc' = [pc EXCEPT ![r] = "after_recv"]
      /\ UNCHANGED <<cur, g_seq, g_events, sent_block, delivered>>
  BY DEF DoRecv, Goto, log, gather
<1>2. PICK s \in Ranks : \E k \in DOMAIN channel[s][r] :
        /\ Take(s, r, k)
        /\ got' = [got EXCEPT ![r] = [source |-> s, tag |-> channel[s][r][k].tag,
                        nbytes |-> channel[s][r][k].nbytes, data |-> channel[s][r][k].data,
                        seq |-> channel[s][r][k].seq, sent |-> channel[s][r][k].sent,
                        intact |-> channel[s][r][k].intact]]
  BY DEF DoRecv
<1>3. PICK k \in DOMAIN channel[s][r] :
        /\ Take(s, r, k)
        /\ got' = [got EXCEPT ![r] = [source |-> s, tag |-> channel[s][r][k].tag,
                        nbytes |-> channel[s][r][k].nbytes, data |-> channel[s][r][k].data,
                        seq |-> channel[s][r][k].seq, sent |-> channel[s][r][k].sent,
                        intact |-> channel[s][r][k].intact]]
  BY <1>2
<1>4. PICK m : m = channel[s][r][k]
  OBVIOUS
<1>5. /\ pc'[r] = "after_recv" /\ \A q \in Ranks \ {r} : pc'[q] = pc[q] /\ got'[q] = got[q]
      /\ got'[r].source = s /\ got'[r].seq = m.seq /\ got'[r].tag = m.tag
  BY <1>1, <1>3, <1>4 DEF JobTypes
<1>6. LogsKept
  BY <1>1, <1>5, LogsUnchanged
<1>7. OnWay(s, r, m) /\ SendAt(s, m.seq, r) /\ m.seq \in 1..g_seq[s] /\ (pc[s] = "send" => m.seq < g_seq[s])
  <2>1. OnWay(s, r, m)
    BY <1>0, <1>4 DEF ChannelInv
  <2> QED BY <2>1 DEF OnWay, SendAt
<1>8. PICK e : e = [src |-> s, sseq |-> m.seq, dst |-> r, rseq |-> g_seq[r] + 1]
  OBVIOUS
<1>9. e.src = s /\ e.sseq = m.seq /\ e.dst = r /\ e.rseq = g_seq[r] + 1 /\ g_seq[r] \in Nat
  BY <1>8 DEF JobTypes
<1>10. Receipts' = Receipts \cup {e}
  <2>1. Receipt(r)' = e
    BY <1>1, <1>5, <1>8 DEF Receipt
  <2>2. \A q \in Ranks \ {r} : Receipt(q)' = Receipt(q)
    BY <1>1, <1>5 DEF Receipt
  <2>3. \A q \in Ranks : pc'[q] = "after_recv" <=> q = r \/ pc[q] = "after_recv"
    BY <1>5
  <2>4. {Receipt(q)' : q \in {p \in Ranks : pc'[p] = "after_recv"}}
            = {Receipt(q) : q \in {p \in Ranks : pc[p] = "after_recv"}} \cup {e}
    BY <1>1, <2>1, <2>2, <2>3
  <2>5. Receipts' = Deliveries' \cup {Receipt(q)' : q \in {p \in Ranks : pc'[p] = "after_recv"}}
    BY DEF Receipts
  <2>6. Deliveries' = Deliveries
    BY <1>1 DEF Deliveries
  <2> QED BY <2>4, <2>5, <2>6 DEF Receipts
<1>11. \A f \in Receipts : /\ ReceiptOf(f) /\ f.src \in Ranks /\ f.dst \in Ranks
                           /\ SendAt(f.src, f.sseq, f.dst) /\ f.sseq \in 1..g_seq[f.src]
  BY <1>0 DEF ReceiptInv, ReceiptOf, SendAt
<1>12. ChannelInv'
  BY <1>3, <1>5, <1>6, TakeKeepsChannels
<1>13. FreshInv'
  <2> SUFFICES ASSUME NEW p \in Ranks, NEW q \in Ranks, NEW j \in DOMAIN channel'[p][q],
                      NEW c, c = channel'[p][q][j].seq,
                      NEW f \in Receipts', f.src = p, f.dst = q, Alike(p, f.sseq, c)'
               PROVE  f.sseq < c
    BY DEF FreshInv, Fresh, Alike
  <2>1. PICK n \in DOMAIN channel[p][q] :
            ~(p = s /\ q = r /\ n = k) /\ channel'[p][q][j] = channel[p][q][n]
    BY <1>3, TakeLeaves
  <2>2. c = channel[p][q][n].seq /\ SendAt(p, c, q)
    BY <1>0, <2>1 DEF ChannelInv, OnWay
  <2>3. CASE f \in Receipts
    <3>1. Alike(p, f.sseq, c)
      BY <1>6, <1>11, <2>2, <2>3, SendsKept DEF SendAt
    <3>2. Fresh(p, q, channel[p][q][n])
      BY <1>0 DEF FreshInv
    <3> QED BY <2>2, <2>3, <3>1, <3>2 DEF Fresh
  <2>4. CASE f = e
    <3>1. p = s /\ q = r /\ f.sseq = m.seq
      BY <1>9, <2>4
    <3>2. Alike(s, m.seq, c)
      BY <1>6, <1>7, <2>2, <3>1, SendsKept DEF SendAt
    <3>3. k <= n
      <4>1. Alike(s, channel[s][r][n].seq, channel[s][r][k].seq)
        BY <1>4, <2>2, <3>1, <3>2 DEF Alike
      <4>2. n \in DOMAIN channel[s][r]
        BY <2>1, <3>1
      <4> QED BY <1>0, <1>3, <4>1, <4>2, FirstOfEnvelope
    <3>4. k \in Nat /\ n \in Nat /\ k \in 1..(n - 1)
      BY SMTT(30), <2>1, <3>1, <3>3 DEF JobTypes
    <3> QED BY <1>0, <1>4, <2>2, <3>1, <3>4 DEF ChannelInv
  <2> QED BY <1>10, <2>3, <2>4
<1>14. ReceiptInv'
  <2>1. ReceiptOf(e)'
    <3>1. SendAt(s, m.seq, r)'
      BY <1>6, <1>7, SendsKept
    <3> QED BY <1>1, <1>5, <1>7, <1>9, <3>1 DEF ReceiptOf
  <2>2. ASSUME NEW f \in Receipts
        PROVE  ReceiptOf(f)'
    <3>1. SendAt(f.src, f.sseq, f.dst)'
      BY <1>6, <1>11, SendsKept
    <3>2. pc'[f.dst] = pc[f.dst] \/ pc'[f.dst] = "after_recv"
      BY <1>5, <1>11
    <3>3. pc'[f.src] = "send" => pc[f.src] = "send"
      BY <1>5, <1>11
    <3> QED BY <1>1, <1>11, <3>1, <3>2, <3>3 DEF ReceiptOf
  <2>3. \A f \in Receipts : ~(e.src = f.src /\ e.sseq = f.sseq) /\ ~(e.dst = f.dst /\ e.rseq = f.rseq)
    <3> SUFFICES ASSUME NEW f \in Receipts
                 PROVE  ~(e.src = f.src /\ e.sseq = f.sseq) /\ ~(e.dst = f.dst /\ e.rseq = f.rseq)
      OBVIOUS
    <3>1. ASSUME e.src = f.src, e.sseq = f.sseq
          PROVE  FALSE
      <4>1. f.src = s /\ f.sseq = m.seq /\ f.dst = r
        BY <1>7, <1>9, <1>11, <3>1 DEF SendAt
      <4>2. Fresh(s, r, m)
        BY <1>0, <1>4 DEF FreshInv
      <4>3. f.sseq < m.seq
        BY <4>1, <4>2 DEF Fresh, Alike
      <4> QED BY <1>7, <4>1, <4>3
    <3>2. ASSUME e.dst = f.dst, e.rseq = f.rseq
          PROVE  FALSE
      BY <1>1, <1>9, <1>11, <3>2 DEF ReceiptOf
    <3> QED BY <3>1, <3>2
  <2>4. \A f \in Receipts' : Single(f)'
    BY <1>0, <1>10, <2>3 DEF ReceiptInv, Single
  <2>5. InOrder(e)'
    <3> SUFFICES ASSUME NEW n \in 1..(m.seq - 1), SendAt(s, n, r)', Alike(s, n, m.seq)'
                 PROVE  \E f \in Receipts : f.src = s /\ f.sseq = n /\ f.dst = r /\ f.rseq < g_seq[r] + 1
      BY <1>9, <1>10 DEF InOrder
    <3>1. n \in 1..g_seq[s] /\ g_seq[s] \in Nat
      BY SMTT(30), <1>7 DEF JobTypes
    <3>2. SendAt(s, n, r) /\ Alike(s, n, m.seq)
      BY <1>6, <1>7, <3>1, SendsKept
    <3>3. Accounted(s, n, r)
      BY <1>0, <3>1, <3>2 DEF CoverInv
    <3>4. ~(\E j \in DOMAIN channel[s][r] : channel[s][r][j].seq = n)
      <4> SUFFICES ASSUME NEW j \in DOMAIN channel[s][r], channel[s][r][j].seq = n
                   PROVE  FALSE
        OBVIOUS
      <4>1. k <= j
        BY <1>0, <1>3, <1>4, <3>2, FirstOfEnvelope
      <4>2. j \in Nat /\ k \in Nat /\ k \in 1..j
        BY SMTT(30), <4>1 DEF JobTypes
      <4>3. CASE k = j
        BY <1>4, <1>7, <4>3
      <4>4. CASE k # j
        <5>1. k \in 1..(j - 1)
          BY <4>2, <4>4
        <5>2. channel[s][r][k].seq < channel[s][r][j].seq
          BY <1>0, <5>1 DEF ChannelInv
        <5> QED BY <1>4, <1>7, <5>2
      <4> QED BY <4>3, <4>4
    <3>5. PICK f \in Receipts : f.src = s /\ f.sseq = n /\ f.dst = r
      BY <1>1, <1>7, <3>1, <3>3, <3>4 DEF Accounted
    <3>6. f.rseq < g_seq[r] + 1
      BY <1>1, <1>9, <1>11, <3>5 DEF ReceiptOf
    <3> QED BY <3>5, <3>6
  <2>6. ASSUME NEW f \in Receipts
        PROVE  InOrder(f)'
    <3> SUFFICES ASSUME NEW n \in 1..(f.sseq - 1), SendAt(f.src, n, f.dst)', Alike(f.src, n, f.sseq)'
                 PROVE  \E h \in Receipts : h.src = f.src /\ h.sseq = n /\ h.dst = f.dst /\ h.rseq < f.rseq
      BY <1>10 DEF InOrder
    <3>1. f.src \in Ranks /\ f.sseq \in 1..g_seq[f.src]
      BY <1>11
    <3>2. g_seq[f.src] \in Nat
      BY <3>1 DEF JobTypes
    <3>3. n \in 1..g_seq[f.src]
      BY <3>1, <3>2
    <3>4. SendAt(f.src, n, f.dst) /\ Alike(f.src, n, f.sseq)
      BY <1>6, <1>11, <3>3, SendsKept
    <3>5. InOrder(f)
      BY <1>0 DEF ReceiptInv
    <3> QED BY <3>4, <3>5 DEF InOrder
  <2> QED BY <1>10, <2>1, <2>2, <2>4, <2>5, <2>6 DEF ReceiptInv
<1>15. CoverInv'
  <2> SUFFICES ASSUME NEW p \in Ranks, NEW q \in Ranks, NEW n \in 1..g_seq[p], SendAt(p, n, q)'
               PROVE  Accounted(p, n, q)'
    BY <1>1 DEF CoverInv
  <2>1. SendAt(p, n, q)
    BY <1>6, SendsKept
  <2>2. Accounted(p, n, q)
    BY <1>0, <2>1 DEF CoverInv
  <2>3. ASSUME NEW c \in DOMAIN channel[p][q], channel[p][q][c].seq = n
        PROVE  Accounted(p, n, q)'
    <3>1. CASE p = s /\ q = r /\ c = k
      BY <1>4, <1>9, <1>10, <2>3, <3>1 DEF Accounted
    <3>2. CASE \E j \in DOMAIN channel'[p][q] : channel'[p][q][j] = channel[p][q][c]
      BY <2>3, <3>2 DEF Accounted
    <3> QED BY <1>3, <3>1, <3>2, TakeLeaves
  <2>4. pc[p] = "send" /\ n = g_seq[p] => pc'[p] = "send" /\ n = g_seq'[p]
    BY <1>1, <1>5
  <2> QED BY <1>10, <2>2, <2>3, <2>4 DEF Accounted
<1>16. CallInv'
  <2>1. \A q \in Ranks \ {r} : InCall(q)'
    BY <1>0, <1>1, <1>5, <1>6, InCallKept DEF CallInv
  <2>2. m \in Message /\ s \in ToSet(Group[m.comm])
    BY <1>4 DEF JobTypes, CallsInHand
  <2>3. World(cur[r].comm) /\ cur[r].comm = m.comm /\ m.comm \in DOMAIN Group
    BY <1>0, <1>1, <1>3, <1>4, <2>2 DEF CallInv, InCall, Take, Acceptable, Message
  <2>4. cur[r].peer \in {s, ANY} /\ cur[r].tag \in {m.tag, ANY}
    BY <1>3, <1>4, <2>3, WorldFacts DEF Take, Acceptable
  <2>5. LogOf(s)'[m.seq].tag = m.tag /\ LogOf(s)'[m.seq].comm = Handle(m.comm)
    BY <1>6, <1>7, SendsKept DEF OnWay
  <2>6. /\ (LogOf(got[r].source)[got[r].seq].tag = got[r].tag)'
        /\ (LogOf(got[r].source)[got[r].seq].comm = Handle(cur[r].comm))'
    BY <1>1, <1>5, <2>3, <2>5 DEF LogOf, Handle
  <2>7. InCall(r)'
    BY <1>1, <1>5, <2>3, <2>4, <2>6 DEF InCall, World, Handle
  <2> QED BY <2>1, <2>7 DEF CallInv
<1>17. DeliveryInv'
  BY <1>0, <1>1, <1>6, DeliveriesKept DEF DeliveryInv
<1>18. EventInv'
  BY <1>0, <1>1, <1>6 DEF EventInv, LogsKept
<1> QED BY <1>12, <1>13, <1>14, <1>15, <1>16, <1>17, <1>18 DEF MessageInv

\* The positions of a channel.
LEMMA ChannelPositions ==
  ASSUME JobTypes, NEW s \in Ranks, NEW r \in Ranks
  PROVE  /\ channel[s][r] \in Seq(Message) /\ DOMAIN channel[s][r] \subseteq Nat
         /\ \A k \in DOMAIN channel[s][r] : \A j \in 1..(k - 1) : j \in DOMAIN channel[s][r]
<1>1. channel[s][r] \in Seq(Message)
  BY DEF JobTypes
<1> QED BY <1>1

\* The steps of a rank that log and send nothing, and hand nothing over.
Quiet(r) ==
    \/ MPIInit(r) \/ MsanInit(r) \/ SyncDone(r) \/ EndColl(r) \/ Finalize(r) \/ SendBlock(r)
    \/ \E c \in Options(r) : BeginRecv(r, c)

\* They keep the logs and take no rank but r any further.
LEMMA QuietSteps ==
  ASSUME JobTypes, NEW r \in Ranks, Quiet(r)
  PROVE  /\ LogsKept /\ UNCHANGED <<channel, got, g_seq, delivered>>
         /\ pc[r] \in {"start", "msan_init", "run", "sync", "coll", "gatherv"}
         /\ pc'[r] \in {"msan_init", "run", "recv", "gather", "gatherv", "finalized"}
         /\ pc'[r] = "recv" => \E c \in Options(r) : BeginRecv(r, c)
         /\ \A s \in Ranks \ {r} : pc'[s] = pc[s] /\ cur'[s] = cur[s]
<1> USE DEF Quiet
<1>1. PICK l \in {"msan_init", "run", "recv", "gather", "gatherv", "finalized"} :
        pc' = [pc EXCEPT ![r] = l] /\ (l = "recv" => \E c \in Options(r) : BeginRecv(r, c))
  BY DEF MPIInit, MsanInit, SyncDone, EndColl, Finalize, SendBlock, BeginRecv, Call, Goto
<1>2. /\ pc[r] \in {"start", "msan_init", "run", "sync", "coll", "gatherv"}
      /\ UNCHANGED <<channel, got, g_seq, delivered>>
  BY DEF MPIInit, MsanInit, SyncDone, EndColl, Finalize, SendBlock, BeginRecv, Call, log
<1>3. pc'[r] = l /\ \A s \in Ranks \ {r} : pc'[s] = pc[s]
  BY <1>1 DEF JobTypes
<1>4. \A s \in Ranks \ {r} : cur'[s] = cur[s]
  BY DEF MPIInit, MsanInit, SyncDone, EndColl, Finalize, SendBlock, BeginRecv, Call, JobTypes
<1>5. LogsKept
  <2>1. CASE SendBlock(r)
    <3>1. /\ r # 0 /\ pc[r] = "gatherv" /\ pc'[r] = "finalized"
          /\ sent_block' = [sent_block EXCEPT ![r] = g_events[r]]
          /\ g_events' = [g_events EXCEPT ![r] = <<>>]
      BY <1>3, <2>1 DEF SendBlock, Goto, JobTypes
    <3>2. \A s \in Ranks : g_seq[s] \in Nat /\ LogOf(s)' = LogOf(s)
      BY <1>3, <3>1 DEF JobTypes, LogOf
    <3> QED BY <1>2, <3>2 DEF LogsKept
  <2>2. CASE ~SendBlock(r)
    <3>1. UNCHANGED <<g_events, sent_block>> /\ l # "finalized"
      <4>1. UNCHANGED <<g_events, sent_block>>
        BY <2>2 DEF MPIInit, MsanInit, SyncDone, EndColl, Finalize, BeginRecv, Call, log,
                          gather
      <4>2. pc'[r] # "finalized"
        BY <1>2, <2>2 DEF MPIInit, MsanInit, SyncDone, EndColl, Finalize, BeginRecv, Call,
                                Goto, JobTypes, InitHooks
      <4> QED BY <1>3, <4>1, <4>2
    <3>2. \A s \in Ranks : s # 0 => (pc'[s] = "finalized" <=> pc[s] = "finalized")
      BY <1>2, <1>3, <3>1
    <3> QED BY <1>2, <3>1, <3>2, LogsUnchanged
  <2> QED BY <2>1, <2>2
<1> QED BY <1>1, <1>2, <1>3, <1>4, <1>5

\* A step of a rank keeps the messages, unless it ends the job.
LEMMA RankStepMessages ==
  ASSUME OnWorld, JobTypes, CallsInHand, RankLogs, MessageInv, NEW r \in Ranks, RankStep(r),
         ~RecvAborts(r), ~Stopped(r)
  PROVE  MessageInv'
<1>1. CASE Quiet(r)
  <2>1. /\ LogsKept /\ UNCHANGED <<channel, got, g_seq, delivered>>
        /\ pc[r] \in {"start", "msan_init", "run", "sync", "coll", "gatherv"}
        /\ pc'[r] \in {"msan_init", "run", "recv", "gather", "gatherv", "finalized"}
        /\ pc'[r] = "recv" => \E c \in Options(r) : BeginRecv(r, c)
        /\ \A s \in Ranks \ {r} : pc'[s] = pc[s] /\ cur'[s] = cur[s]
    BY <1>1, QuietSteps
  <2>2. \A s \in Ranks : InCall(s)'
    <3>1. \A s \in Ranks \ {r} : InCall(s)'
      BY <2>1, InCallKept DEF MessageInv, CallInv
    <3>2. CASE pc'[r] # "recv"
      BY <2>1, <3>1, <3>2 DEF InCall
    <3>3. CASE pc'[r] = "recv"
      <4>1. PICK c \in Options(r) : BeginRecv(r, c)
        BY <2>1, <3>3
      <4>2. c.op = "Recv" /\ cur'[r] = c
        BY <4>1 DEF BeginRecv, Call, JobTypes
      <4>3. World(c.comm)
        BY <4>2, OptionsOnWorld
      <4>4. InCall(r)'
        BY <3>3, <4>2, <4>3 DEF InCall, World, Handle
      <4> QED BY <3>1, <4>4
    <3> QED BY <3>2, <3>3
  <2>3. \A s \in Ranks : /\ pc'[s] = "send" <=> pc[s] = "send"
                         /\ pc'[s] = "after_recv" <=> pc[s] = "after_recv"
    BY <2>1
  <2>4. \A s, q \in Ranks : /\ DOMAIN channel'[s][q] = DOMAIN channel[s][q]
                            /\ DOMAIN channel[s][q] \subseteq Nat
                            /\ \A k \in DOMAIN channel[s][q] :
                                 /\ channel'[s][q][k].seq = channel[s][q][k].seq
                                 /\ channel'[s][q][k].tag = channel[s][q][k].tag
                                 /\ channel'[s][q][k].comm = channel[s][q][k].comm
                                 /\ \A j \in 1..(k - 1) : j \in DOMAIN channel[s][q]
    BY <2>1, ChannelPositions
  <2> QED BY <2>1, <2>2, <2>3, <2>4, MessagesStay
<1>2. CASE \E c \in Options(r) : BeginSend(r, c) \/ BeginColl(r, c)
  BY <1>2, BeginKeepsMessages
<1>3. CASE DoSend(r) \/ DoRecv(r) \/ AfterRecv(r)
  BY <1>3, DoSendKeepsMessages, DoRecvKeepsMessages, AfterRecvKeepsMessages
<1> QED BY <1>1, <1>2, <1>3 DEF RankStep, Quiet

\* A message that is damaged keeps its envelope.
LEMMA DamageKeepsEnvelopes ==
  ASSUME JobTypes, NEW p \in Ranks, NEW q \in Ranks, Damage(p, q), NEW s \in Ranks, NEW r \in Ranks
  PROVE  /\ DOMAIN channel'[s][r] = DOMAIN channel[s][r]
         /\ \A k \in DOMAIN channel[s][r] : /\ channel'[s][r][k].seq = channel[s][r][k].seq
                                            /\ channel'[s][r][k].tag = channel[s][r][k].tag
                                            /\ channel'[s][r][k].comm = channel[s][r][k].comm
<1>1. PICK n \in DOMAIN channel[p][q] :
        channel' = [channel EXCEPT ![p][q][n] = Damaged(@)]
  BY DEF Damage
<1> DEFINE m == Damaged(channel[p][q][n])
<1>2. channel[p][q] \in Seq(Message) /\ channel[p][q][n] \in Message
  <2>1. channel[p][q] \in Seq(Message)
    BY DEF JobTypes
  <2>2. n \in DOMAIN channel[p][q]
    OBVIOUS
  <2> QED BY <2>1, <2>2
<1>3. /\ m.seq = channel[p][q][n].seq /\ m.tag = channel[p][q][n].tag
      /\ m.comm = channel[p][q][n].comm
  BY <1>2 DEF Message, Damaged
<1>4. channel' = [channel EXCEPT ![p][q] = [@ EXCEPT ![n] = m]]
  BY <1>1
<1> HIDE DEF m
<1>5. CASE s = p /\ r = q
  <2>1. channel'[s][r] = [channel[p][q] EXCEPT ![n] = m]
    BY <1>4, <1>5 DEF JobTypes
  <2> QED BY <1>1, <1>2, <1>3, <1>5, <2>1
<1>6. CASE ~(s = p /\ r = q)
  BY <1>4, <1>6 DEF JobTypes
<1> QED BY <1>5, <1>6

\* Until rank 0 has all logs, or an error ends the job, the messages are in order.
Collecting == pc[0] \notin {"analyze", "finalized"} /\ \A r \in Ranks : pc[r] # "aborted"
MessagesLive == Collecting => MessageInv

\* No rank takes a step of its own once rank 0 analyses, or once a rank was aborted
\* that is not aborted any more.
LEMMA RankStepIsEarly ==
  ASSUME JobTypes, NEW r \in Ranks, RankStep(r), Collecting'
  PROVE  Collecting /\ ~RecvAborts(r) /\ ~Stopped(r)
<1>1. pc[r] \notin {"finalized", "aborted"} /\ \E l : pc' = [pc EXCEPT ![r] = l]
  BY DEF RankStep, MPIInit, MsanInit, BeginSend, BeginRecv, BeginColl, Call, DoSend,
     SyncDone, DoRecv, RecvAborts, Stopped, AfterRecv, EndColl, Finalize, SendBlock, Goto
<1>2. \A q \in Ranks \ {r} : pc'[q] = pc[q]
  BY <1>1 DEF JobTypes
<1>3. ~RecvAborts(r) /\ ~Stopped(r)
  BY DEF RecvAborts, Stopped, Goto, JobTypes, Collecting
<1>4. pc[r] # "analyze"
  BY <1>3 DEF RankStep, MPIInit, MsanInit, BeginSend, BeginRecv, BeginColl, Call, DoSend,
     SyncDone, DoRecv, AfterRecv, EndColl, Finalize, SendBlock
<1> QED BY <1>1, <1>2, <1>3, <1>4, ZeroIsRank DEF Collecting

\* Of the other steps before that, only a damage touches a message.
LEMMA OtherStepsAreEarly ==
  ASSUME JobTypes, Collecting',
         \/ (Gather \/ Layout \/ Gatherv \/ AnalysisReturns) /\ UNCHANGED setting
         \/ Network /\ UNCHANGED setting
         \/ Tick
         \/ UNCHANGED jobvars
  PROVE  /\ Collecting
         /\ UNCHANGED <<cur, got, g_seq, g_events, sent_block, delivered>>
         /\ UNCHANGED channel \/ Network
         /\ \A s \in Ranks :
              pc'[s] = pc[s] \/ (s = 0 /\ pc[s] \in {"gather", "layout"} /\ pc'[s] = "layout")
<1>1. ~Gatherv /\ ~AnalysisReturns
  BY ZeroIsRank DEF Gatherv, AnalysisReturns, Goto, JobTypes, Collecting
<1>2. /\ pc' = pc \/ (pc[0] \in {"gather", "layout"} /\ pc' = [pc EXCEPT ![0] = "layout"])
      /\ UNCHANGED <<cur, got, g_seq, g_events, sent_block, delivered>>
      /\ UNCHANGED channel \/ Network
  BY <1>1 DEF Gather, Layout, Network, Damage, Tick, jobvars, Goto, setting, program, log, gather
<1>3. \A s \in Ranks : pc'[s] = pc[s] \/ (s = 0 /\ pc[s] \in {"gather", "layout"} /\ pc'[s] = "layout")
  BY <1>2 DEF JobTypes
<1>4. Collecting
  BY <1>3, ZeroIsRank DEF Collecting
<1> QED BY <1>2, <1>3, <1>4

\* Every step of the job keeps the messages.
LEMMA JobStepMessages ==
  ASSUME OnWorld, JobTypes, CallsInHand, RankLogs, MessagesLive, JobNext
  PROVE  MessagesLive'
<1> SUFFICES ASSUME Collecting' PROVE MessageInv'
  BY DEF MessagesLive
<1>1. CASE \E r \in Ranks : RankStep(r) /\ UNCHANGED setting
  <2>1. PICK r \in Ranks : RankStep(r)
    BY <1>1
  <2>2. Collecting /\ ~RecvAborts(r) /\ ~Stopped(r)
    BY <2>1, RankStepIsEarly
  <2> QED BY <2>1, <2>2, RankStepMessages DEF MessagesLive
<1>2. CASE \/ (Gather \/ Layout \/ Gatherv \/ AnalysisReturns) /\ UNCHANGED setting
           \/ Network /\ UNCHANGED setting
           \/ Tick
           \/ UNCHANGED jobvars
  <2>1. /\ Collecting
        /\ UNCHANGED <<cur, got, g_seq, g_events, sent_block, delivered>>
        /\ UNCHANGED channel \/ Network
        /\ \A s \in Ranks : pc'[s] = pc[s] \/ (s = 0 /\ pc[s] \in {"gather", "layout"} /\ pc'[s] = "layout")
    BY <1>2, OtherStepsAreEarly
  <2>2. MessageInv
    BY <2>1 DEF MessagesLive
  <2>3. \A s \in Ranks : /\ pc'[s] = "send" <=> pc[s] = "send"
                         /\ pc'[s] = "after_recv" <=> pc[s] = "after_recv"
    BY <2>1
  <2>4. LogsKept
    BY <2>1, <2>3, LogsUnchanged
  <2>5. \A s \in Ranks : InCall(s)'
    <3>1. \A s \in Ranks : pc'[s] = pc[s] => InCall(s)'
      BY <2>1, <2>2, <2>4, InCallKept DEF MessageInv, CallInv
    <3>2. \A s \in Ranks : pc'[s] = "layout" => InCall(s)'
      BY DEF InCall
    <3> QED BY <2>1, <3>1, <3>2
  <2>6. \A s, q \in Ranks : /\ DOMAIN channel'[s][q] = DOMAIN channel[s][q]
                            /\ DOMAIN channel[s][q] \subseteq Nat
                            /\ \A k \in DOMAIN channel[s][q] :
                                 /\ channel'[s][q][k].seq = channel[s][q][k].seq
                                 /\ channel'[s][q][k].tag = channel[s][q][k].tag
                                 /\ channel'[s][q][k].comm = channel[s][q][k].comm
                                 /\ \A j \in 1..(k - 1) : j \in DOMAIN channel[s][q]
    <3>1. CASE UNCHANGED channel
      BY <3>1, ChannelPositions
    <3>2. CASE Network
      <4>1. PICK p, q \in Ranks : Damage(p, q)
        BY <3>2 DEF Network
      <4> QED BY <4>1, DamageKeepsEnvelopes, ChannelPositions
    <3> QED BY <2>1, <3>1, <3>2
  <2> QED BY <2>1, <2>2, <2>3, <2>4, <2>5, <2>6, MessagesStay
<1> QED BY <1>1, <1>2 DEF JobNext

\* At the start there are none.
LEMMA InitMessages == JobInit => MessagesLive
<1> SUFFICES ASSUME JobInit PROVE MessageInv
  BY DEF MessagesLive
<1>1. /\ pc = [r \in Ranks |-> "start"] /\ g_seq = [r \in Ranks |-> 0] /\ delivered = {}
      /\ channel = [s \in Ranks |-> [r \in Ranks |-> <<>>]]
  BY DEF JobInit
<1>2. Receipts = {}
  BY <1>1 DEF Receipts, Deliveries
<1>3. ChannelInv /\ FreshInv
  BY <1>1 DEF ChannelInv, FreshInv
<1>4. CoverInv /\ CallInv /\ EventInv
  BY <1>1 DEF CoverInv, CallInv, InCall, EventInv
<1>5. ReceiptInv /\ DeliveryInv
  BY <1>1, <1>2 DEF ReceiptInv, DeliveryInv
<1> QED BY <1>3, <1>4, <1>5 DEF MessageInv

\* For all programs that send and receive on communicators that number the ranks as
\* MPI_COMM_WORLD does, every message that is on its way or received is one that was
\* logged, each once and in the order of its envelope, until an error ends the job.
THEOREM MessagesAreLogged ==
  ASSUME OnWorld
  PROVE  Spec => []MessagesLive
<1>1. Init => MessagesLive
  BY InitMessages DEF Init
<1>2. (JobTypes /\ CallsInHand) /\ RankLogs /\ MessagesLive /\ [Next]_sysvars => MessagesLive'
  BY NextIsJobNext, JobStepMessages
<1> QED BY <1>1, <1>2, JobTypeCorrect, LogsAreWhole, PTL DEF Spec
-----------------------------------------------------------------------------
(* The pairs.  What is known of the messages in the logs is carried over to *)
(* the array; the rest is an argument about the pairing alone.              *)

\* Two sends have the same envelope.
SameSends(j, l) ==
    /\ IsSend(j) /\ IsSend(l)
    /\ all[j].rank = all[l].rank /\ all[j].peer = all[l].peer
    /\ all[j].tag = all[l].tag /\ all[j].comm = all[l].comm

\* Every receive got the message of a send, no two the same, and in the order of its
\* envelope; its event names that send, unless it leaves the source or the tag open.
Links ==
    /\ \A k \in Positions : IsRecv(k) => \E j \in Positions : Delivers(j, k)
    /\ \A e \in Deliveries : \E j, k \in Positions : At(j, e.src, e.sseq) /\ At(k, e.dst, e.rseq)
    /\ \A j, k \in Positions : Delivers(j, k) =>
            IsSend(j) /\ IsRecv(k) /\ (k \notin Unresolved => KeyEqual(all[j], all[k]))
    /\ \A j, k, l, m \in Positions :
            Delivers(j, k) /\ Delivers(l, m) /\ (j = l \/ k = m) => j = l /\ k = m
    /\ \A j, k, l \in Positions :
            Delivers(j, k) /\ SameSends(j, l) /\ l < j => \E m \in Positions : m < k /\ Delivers(l, m)
    /\ \A k \in Unresolved : IsRecv(k) /\ ANY \in {all[k].peer, all[k].tag}
    /\ \A j \in Positions : IsSend(j) => all[j].rank # ANY /\ all[j].tag # ANY

\* A message that is on its way is that of a send of which nothing was received, each of
\* another one; and every other send was received from.  No two events are the same.
InChannel(s, r, k, j) == At(j, s, channel[s][r][k].seq) /\ IsSend(j) /\ all[j].peer = r
Taken(j) == \E k \in Positions : Delivers(j, k)
Transits ==
    /\ \A s, r \in Ranks : \A k \in DOMAIN channel[s][r] :
          \E j \in Positions : InChannel(s, r, k, j) /\ ~Taken(j)
    /\ \A j \in Positions : IsSend(j) /\ ~Taken(j) =>
          \E s, r \in Ranks : \E k \in DOMAIN channel[s][r] : InChannel(s, r, k, j)
    /\ \A s, r \in Ranks : \A k, m \in DOMAIN channel[s][r] :
          channel[s][r][k].seq = channel[s][r][m].seq => k = m
    /\ \A j, l \in Positions : all[j].rank = all[l].rank /\ all[j].seq = all[l].seq => j = l

\* A receive whose event names what it received is matched, with the send whose
\* message it got or an earlier one: an earlier receive that took the send would be of
\* the same envelope and have taken its own message's send, or an earlier one.
LEMMA NamedAreMatched ==
  ASSUME MTypeOK, PairingInv, NothingPairableLeft, phase = "done", Links
  PROVE  \A k \in Positions : IsRecv(k) /\ k \notin Unresolved =>
            k \in Matched /\ \A j \in Positions : Delivers(j, k) => partner[k] <= j
<1> DEFINE Good(k) == k \in Matched /\ \A j \in Positions : Delivers(j, k) => partner[k] <= j
           T == {k \in Positions : IsRecv(k) /\ k \notin Unresolved /\ ~Good(k)}
<1> SUFFICES ASSUME T # {} PROVE FALSE
  OBVIOUS
<1>1. Positions \subseteq Nat /\ Len(all) \in Nat
  BY DEF MTypeOK, Positions
<1>2. PICK k \in T : \A m \in T : k <= m
  BY <1>1, LeastOf
<1>3. k \in Positions /\ IsRecv(k) /\ k \notin Unresolved /\ ~Good(k)
  OBVIOUS
<1>4. \A m \in Positions : m < k /\ IsRecv(m) /\ m \notin Unresolved => Good(m)
  BY <1>1, <1>2, <1>3
<1>5. PICK j \in Positions : Delivers(j, k)
  BY <1>3 DEF Links
<1>6. /\ KeyEqual(all[j], all[k]) /\ IsSend(j) /\ all[j].rank # ANY /\ all[j].tag # ANY
      /\ \A l \in Positions : Delivers(l, k) => l = j
  BY <1>3, <1>5 DEF Links
<1>7. \A m \in Matched : m \in Positions /\ partner[m] \in Positions
  BY DEF Matched, MTypeOK, Positions
<1>8. ASSUME NEW m \in Matched, partner[m] = j, m < k
      PROVE  FALSE
  <2>1. m \in Positions /\ IsRecv(m) /\ KeyEqual(all[j], all[m])
    BY <1>7, <1>8 DEF PairingInv, Marks, PairsAreKeyed
  <2>2. all[m].peer # ANY /\ all[m].tag # ANY
    BY <1>6, <2>1 DEF KeyEqual
  <2>3. m \notin Unresolved
    BY <2>2 DEF Links
  <2>4. PICK l \in Positions : Delivers(l, m)
    BY <2>1 DEF Links
  <2>5. KeyEqual(all[l], all[m]) /\ IsSend(l)
    BY <2>1, <2>3, <2>4 DEF Links
  <2>6. j <= l
    <3> HIDE DEF T
    <3>1. Good(m)
      BY <2>1, <2>3, <1>4, <1>8
    <3> QED BY <3>1, <2>4, <1>8
  <2>7. l # j
    <3> SUFFICES ASSUME l = j PROVE FALSE
      OBVIOUS
    <3>1. k = m
      BY <1>3, <1>5, <2>1, <2>4 DEF Links
    <3> QED BY <3>1, <1>1, <1>3, <1>8
  <2>8. j < l
    BY <2>6, <2>7, <1>1
  <2>9. SameSends(l, j)
    BY <2>1, <2>5, <1>6 DEF SameSends, KeyEqual
  <2>10. PICK p \in Positions : p < m /\ Delivers(j, p)
    BY <2>1, <2>4, <2>8, <2>9 DEF Links
  <2>11. p = k
    BY <2>10, <1>3, <1>5 DEF Links
  <2> QED BY <2>10, <2>11, <2>1, <1>1, <1>3, <1>8
<1>9. k \in Matched
  <2> SUFFICES ASSUME k \notin Matched PROVE FALSE
    OBVIOUS
  <2>1. ~used[k]
    BY <1>3 DEF PairingInv, Marks
  <2>2. used[j]
    BY <2>1, <1>3, <1>6 DEF NothingPairableLeft
  <2>3. PICK m \in Matched : partner[m] = j
    BY <2>2, <1>6 DEF PairingInv, Marks
  <2>4. m \in Positions /\ KeyEqual(all[j], all[m]) /\ m # k
    BY <2>3, <1>7 DEF PairingInv, PairsAreKeyed
  <2>5. ~(k < m)
    <3> SUFFICES ASSUME k < m PROVE FALSE
      OBVIOUS
    <3>1. SameEnvelope(k, m)
      BY <2>4, <1>3, <1>6, EnvelopeSends
    <3>2. k \in 1..(m - 1)
      BY <2>4, <1>1, <1>3 DEF Positions
    <3> QED BY <3>1, <3>2 DEF PairingInv, PairsAreFifo
  <2>6. m < k
    BY <2>4, <2>5, <1>1, <1>3
  <2> QED BY <2>3, <2>6, <1>8
<1> HIDE DEF T
<1>10. partner[k] <= j
  <2>1. j \in Nat /\ j >= 1 /\ partner[k] \in Nat
    BY <1>1, <1>7, <1>9 DEF Positions
  <2>2. ~(j < partner[k])
    <3> SUFFICES ASSUME j < partner[k] PROVE FALSE
      OBVIOUS
    <3>1. j \in 1..(partner[k] - 1)
      BY <2>1
    <3>2. PICK m \in Matched : m < k /\ partner[m] = j
      BY <3>1, <1>6, <1>9 DEF PairingInv, PairsAreFifo
    <3> QED BY <3>2, <1>8
  <2> QED BY <2>1, <2>2
<1> QED BY <1>3, <1>6, <1>9, <1>10

\* When all events do, every receive is matched with that very send.
LEMMA NamedGetTheirs ==
  ASSUME MTypeOK, PairingInv, NothingPairableLeft, phase = "done", Links, Unresolved = {}
  PROVE  \A k \in Positions : IsRecv(k) =>
            k \in Matched /\ \A j \in Positions : Delivers(j, k) => partner[k] = j
<1> DEFINE Good(k) == \A j \in Positions : Delivers(j, k) => partner[k] = j
           T == {k \in Positions : IsRecv(k) /\ ~Good(k)}
<1>0. \A k \in Positions : IsRecv(k) =>
            k \in Matched /\ \A j \in Positions : Delivers(j, k) => partner[k] <= j
  BY NamedAreMatched
<1> SUFFICES ASSUME T # {} PROVE FALSE
  BY <1>0
<1>1. Positions \subseteq Nat /\ Len(all) \in Nat
  BY DEF MTypeOK, Positions
<1>2. PICK k \in T : \A m \in T : k <= m
  BY <1>1, LeastOf
<1>3. k \in Positions /\ IsRecv(k) /\ ~Good(k)
  OBVIOUS
<1>4. \A m \in Positions : m < k /\ IsRecv(m) => Good(m)
  BY <1>1, <1>2, <1>3
<1>5. PICK j \in Positions : Delivers(j, k) /\ partner[k] # j
  BY <1>3
<1> HIDE DEF T
<1>6. k \in Matched /\ partner[k] \in Positions /\ partner[k] < j
  <2>1. k \in Matched /\ partner[k] <= j
    BY <1>0, <1>3, <1>5
  <2>2. partner[k] \in Positions
    BY <2>1 DEF Matched, MTypeOK, Positions
  <2>3. partner[k] \in Nat /\ j \in Nat /\ partner[k] # j
    BY <2>2, <1>1, <1>5
  <2> QED BY <2>1, <2>2, <2>3
<1>7. KeyEqual(all[partner[k]], all[k]) /\ KeyEqual(all[j], all[k])
  BY <1>3, <1>5, <1>6 DEF PairingInv, PairsAreKeyed, Links
<1>8. SameSends(j, partner[k])
  BY <1>7 DEF SameSends, KeyEqual, IsSend
<1>9. PICK m \in Positions : m < k /\ Delivers(partner[k], m)
  BY <1>3, <1>5, <1>6, <1>8 DEF Links
<1>10. IsRecv(m)
  BY <1>6, <1>9 DEF Links
<1>11. partner[m] = partner[k]
  BY <1>4, <1>6, <1>9, <1>10
<1>12. m \in Matched
  BY <1>0, <1>9, <1>10
<1>13. m = k
  BY <1>6, <1>11, <1>12 DEF PairingInv, PairsAreKeyed
<1> QED BY <1>1, <1>3, <1>9, <1>13

\* Then the pairs are the deliveries.
LEMMA PairsFromLinks ==
  ASSUME MTypeOK, PairingInv, NothingPairableLeft, phase = "done", Links, Unresolved = {}
  PROVE  MatchedEvents = Deliveries
<1>1. \A k \in Positions : IsRecv(k) =>
            k \in Matched /\ \A j \in Positions : Delivers(j, k) => partner[k] = j
  BY NamedGetTheirs
<1>2. ASSUME NEW x \in MatchedEvents
      PROVE  x \in Deliveries
  <2>1. PICK k \in Matched : x = [src |-> all[partner[k]].rank, sseq |-> all[partner[k]].seq,
                                  dst |-> all[k].rank, rseq |-> all[k].seq]
    BY DEF MatchedEvents
  <2>2. k \in Positions /\ IsRecv(k)
    BY DEF PairingInv, Marks, Matched
  <2>3. PICK j \in Positions : Delivers(j, k)
    BY <2>2 DEF Links
  <2>4. partner[k] = j
    BY <2>2, <2>3, <1>1
  <2>5. PICK e \in Deliveries : At(j, e.src, e.sseq) /\ At(k, e.dst, e.rseq)
    BY <2>3 DEF Delivers
  <2>6. x = [src |-> e.src, sseq |-> e.sseq, dst |-> e.dst, rseq |-> e.rseq]
    BY <2>1, <2>4, <2>5 DEF At
  <2>7. e = [src |-> e.src, sseq |-> e.sseq, dst |-> e.dst, rseq |-> e.rseq]
    BY DEF Deliveries
  <2> QED BY <2>6, <2>7
<1>3. ASSUME NEW e \in Deliveries
      PROVE  e \in MatchedEvents
  <2>1. PICK j \in Positions, k \in Positions : At(j, e.src, e.sseq) /\ At(k, e.dst, e.rseq)
    BY DEF Links
  <2>2. Delivers(j, k)
    BY <2>1 DEF Delivers
  <2>3. k \in Matched /\ partner[k] = j
    BY <2>2, <1>1 DEF Links
  <2>4. e = [src |-> e.src, sseq |-> e.sseq, dst |-> e.dst, rseq |-> e.rseq]
    BY DEF Deliveries
  <2>5. e = [src |-> all[partner[k]].rank, sseq |-> all[partner[k]].seq,
             dst |-> all[k].rank, rseq |-> all[k].seq]
    BY <2>1, <2>3, <2>4 DEF At
  <2> QED BY <2>3, <2>5 DEF MatchedEvents
<1> QED BY <1>2, <1>3

\* The events of a joined array are those of the logs.
LEMMA JoinedEvents ==
  ASSUME JobTypes, NEW a, NEW off, LogsJoined(a, off),
         \A r \in Ranks : \A n \in 1..g_seq[r] : a[off[r] + n] = LogOf(r)[n]
  PROVE  /\ \A k \in 1..Len(a) :
              /\ a[k].rank \in Ranks /\ off[a[k].rank] \in Nat /\ a[k].seq \in 1..g_seq[a[k].rank]
              /\ k = off[a[k].rank] + a[k].seq
              /\ a[k] = LogOf(a[k].rank)[a[k].seq]
         /\ \A r \in Ranks : \A n \in 1..g_seq[r] : \E k \in 1..Len(a) :
              k = off[r] + n /\ a[k].rank = r /\ a[k].seq = n /\ a[k] = LogOf(r)[n]
<1>1. Len(a) \in Nat
  BY DEF LogsJoined
<1>2. ASSUME NEW k \in 1..Len(a)
      PROVE  /\ a[k].rank \in Ranks /\ off[a[k].rank] \in Nat /\ a[k].seq \in 1..g_seq[a[k].rank]
             /\ k = off[a[k].rank] + a[k].seq
             /\ a[k] = LogOf(a[k].rank)[a[k].seq]
  <2>1. /\ a[k].rank \in Ranks /\ off[a[k].rank] \in Nat /\ g_seq[a[k].rank] \in Nat
        /\ off[a[k].rank] < k /\ k <= off[a[k].rank] + g_seq[a[k].rank]
        /\ a[k].seq = k - off[a[k].rank]
    BY JoinedAt
  <2>2. a[k].seq \in 1..g_seq[a[k].rank] /\ k = off[a[k].rank] + a[k].seq
    BY <2>1, <1>1
  <2> QED BY <2>1, <2>2
<1>3. ASSUME NEW r \in Ranks, NEW n \in 1..g_seq[r]
      PROVE  \E k \in 1..Len(a) : k = off[r] + n /\ a[k].rank = r /\ a[k].seq = n /\ a[k] = LogOf(r)[n]
  <2>1. off[r] \in Nat /\ g_seq[r] \in Nat /\ off[r] + g_seq[r] <= Len(a)
    BY DEF LogsJoined, JobTypes
  <2>2. off[r] + n \in 1..Len(a)
    BY <2>1, <1>1
  <2>3. a[off[r] + n].rank = r /\ a[off[r] + n].seq = n
    BY DEF LogsJoined
  <2> QED BY <2>2, <2>3
<1> QED BY <1>2, <1>3

\* Where the logs stand in the array, what is known of the messages is known of the
\* events.
LEMMA LinksArise ==
  ASSUME JobTypes, MessageInv, Receipts = Deliveries, NEW a, NEW off, LogsJoined(a, off),
         \A r \in Ranks : \A n \in 1..g_seq[r] : a[off[r] + n] = LogOf(r)[n],
         all' = a, delivered' = delivered
  PROVE  Links'
<1>1. /\ Positions' = 1..Len(a) /\ Len(a) \in Nat
      /\ Deliveries' = Deliveries
      /\ \A k, r, n : At(k, r, n)' <=> a[k].rank = r /\ a[k].seq = n
  BY DEF LogsJoined, Positions, Deliveries, At
<1>2. \A k \in 1..Len(a) :
            /\ a[k].rank \in Ranks /\ off[a[k].rank] \in Nat /\ a[k].seq \in 1..g_seq[a[k].rank]
            /\ k = off[a[k].rank] + a[k].seq
            /\ a[k] = LogOf(a[k].rank)[a[k].seq]
  BY JoinedEvents
<1>3. \A r \in Ranks : \A n \in 1..g_seq[r] : \E k \in 1..Len(a) :
            k = off[r] + n /\ a[k].rank = r /\ a[k].seq = n /\ a[k] = LogOf(r)[n]
  BY JoinedEvents
<1>4. ASSUME NEW e \in Deliveries
      PROVE  /\ e.src \in Ranks /\ e.dst \in Ranks /\ SendAt(e.src, e.sseq, e.dst)
             /\ e.sseq \in 1..g_seq[e.src] /\ e.rseq \in 1..g_seq[e.dst]
             /\ \E d \in delivered :
                  Logged(d) /\ d.src = e.src /\ d.sseq = e.sseq /\ d.dst = e.dst /\ d.rseq = e.rseq
  <2>1. PICK d \in delivered : d.src = e.src /\ d.sseq = e.sseq /\ d.dst = e.dst /\ d.rseq = e.rseq
    BY DEF Deliveries
  <2>2. Logged(d)
    BY DEF MessageInv, DeliveryInv
  <2>3. ReceiptOf(e)
    BY DEF MessageInv, ReceiptInv
  <2> QED BY <2>1, <2>2, <2>3 DEF Logged, ReceiptOf, SendAt
<1>5. \A k, m \in 1..Len(a) : a[k].rank = a[m].rank /\ a[k].seq = a[m].seq => k = m
  BY <1>2
<1>6. ASSUME NEW e \in Deliveries
      PROVE  \E j, k \in 1..Len(a) : /\ At(j, e.src, e.sseq)' /\ At(k, e.dst, e.rseq)'
                                     /\ k = off[e.dst] + e.rseq
  <2>1. PICK j \in 1..Len(a) : a[j].rank = e.src /\ a[j].seq = e.sseq
    BY <1>3, <1>4
  <2>2. PICK k \in 1..Len(a) : a[k].rank = e.dst /\ a[k].seq = e.rseq /\ k = off[e.dst] + e.rseq
    BY <1>3, <1>4
  <2> QED BY <2>1, <2>2, <1>1
<1>7. ASSUME NEW k \in 1..Len(a), IsRecv(k)'
      PROVE  \E j \in 1..Len(a) : Delivers(j, k)'
  <2>1. PICK r, n : r = a[k].rank /\ n = a[k].seq
    OBVIOUS
  <2>1a. r \in Ranks /\ n \in 1..g_seq[r] /\ LogOf(r)[n].kind = "RECV"
    BY <2>1, <1>2, <1>7 DEF IsRecv
  <2>2. PICK d \in delivered : d.dst = r /\ d.rseq = n
    BY <2>1a DEF MessageInv, EventInv
  <2> DEFINE e == [src |-> d.src, sseq |-> d.sseq, dst |-> d.dst, rseq |-> d.rseq]
  <2>3. e \in Deliveries /\ e.dst = r /\ e.rseq = n
    BY <2>2 DEF Deliveries
  <2> HIDE DEF e
  <2>4. PICK j \in 1..Len(a) : At(j, e.src, e.sseq)'
    BY <2>3, <1>6
  <2>5. At(k, e.dst, e.rseq)'
    BY <2>1, <2>3, <1>1
  <2> QED BY <2>3, <2>4, <2>5, <1>1 DEF Delivers
<1>8. ASSUME NEW j \in 1..Len(a), NEW k \in 1..Len(a), Delivers(j, k)'
      PROVE  IsSend(j)' /\ IsRecv(k)' /\ (k \notin Unresolved' => KeyEqual(a[j], a[k]))
  <2>1. PICK e \in Deliveries : a[j].rank = e.src /\ a[j].seq = e.sseq /\ a[k].rank = e.dst /\ a[k].seq = e.rseq
    BY <1>1, <1>8 DEF Delivers
  <2>2. PICK d \in delivered :
          Logged(d) /\ d.src = e.src /\ d.sseq = e.sseq /\ d.dst = e.dst /\ d.rseq = e.rseq
    BY <1>4
  <2>3. a[j] = LogOf(d.src)[d.sseq] /\ a[k] = LogOf(d.dst)[d.rseq]
    BY <2>1, <2>2, <1>2
  <2>4. a[j].kind = "SEND" /\ a[j].peer = d.dst
    BY <2>2, <2>3, <1>4 DEF SendAt
  <2>5. a[k].kind = "RECV" /\ a[k].comm = a[j].comm
    BY <2>2, <2>3 DEF Logged
  <2>6. k \notin Unresolved' => d.named
    BY <2>1, <2>2, <1>1 DEF Unresolved, Positions
  <2>7. d.named => a[k].peer = a[j].rank /\ a[k].tag = a[j].tag
    BY <2>1, <2>2, <2>3 DEF Logged
  <2> QED BY <2>1, <2>2, <2>4, <2>5, <2>6, <2>7 DEF IsSend, IsRecv, KeyEqual
<1>9. ASSUME NEW j \in 1..Len(a), NEW k \in 1..Len(a), NEW l \in 1..Len(a), NEW m \in 1..Len(a),
             Delivers(j, k)', Delivers(l, m)', j = l \/ k = m
      PROVE  j = l /\ k = m
  <2>1. PICK e \in Deliveries : a[j].rank = e.src /\ a[j].seq = e.sseq /\ a[k].rank = e.dst /\ a[k].seq = e.rseq
    BY <1>1, <1>9 DEF Delivers
  <2>2. PICK f \in Deliveries : a[l].rank = f.src /\ a[l].seq = f.sseq /\ a[m].rank = f.dst /\ a[m].seq = f.rseq
    BY <1>1, <1>9 DEF Delivers
  <2>3. Single(e)
    BY DEF MessageInv, ReceiptInv
  <2>4. e = f
    BY <2>1, <2>2, <2>3, <1>9 DEF Single
  <2> QED BY <2>1, <2>2, <2>4, <1>5
<1>10. ASSUME NEW j \in 1..Len(a), NEW k \in 1..Len(a), NEW l \in 1..Len(a),
              Delivers(j, k)', SameSends(j, l)', l < j
       PROVE  \E m \in 1..Len(a) : m < k /\ Delivers(l, m)'
  <2>1. PICK e \in Deliveries : a[j].rank = e.src /\ a[j].seq = e.sseq /\ a[k].rank = e.dst /\ a[k].seq = e.rseq
    BY <1>1, <1>10 DEF Delivers
  <2>2. /\ a[l].kind = "SEND" /\ a[j].rank = a[l].rank /\ a[j].peer = a[l].peer
        /\ a[j].tag = a[l].tag /\ a[j].comm = a[l].comm
    BY <1>10 DEF SameSends, IsSend
  <2>3. PICK n : n = a[l].seq
    OBVIOUS
  <2>4. /\ off[e.src] \in Nat /\ l = off[e.src] + n /\ j = off[e.src] + e.sseq /\ n \in 1..g_seq[e.src]
        /\ a[l] = LogOf(e.src)[n] /\ a[j] = LogOf(e.src)[e.sseq] /\ e.sseq \in 1..g_seq[e.src]
    <3>1. a[l].rank = e.src /\ a[l].seq = n
      BY <2>1, <2>2, <2>3
    <3>2. /\ off[e.src] \in Nat /\ l = off[e.src] + n /\ n \in 1..g_seq[e.src]
          /\ a[l] = LogOf(e.src)[n]
      BY <3>1, <1>2
    <3>3. j = off[e.src] + e.sseq /\ a[j] = LogOf(e.src)[e.sseq] /\ e.sseq \in 1..g_seq[e.src]
      BY <2>1, <1>2
    <3> QED BY <3>2, <3>3
  <2>5. n \in 1..(e.sseq - 1)
    <3>1. g_seq[e.src] \in Nat
      BY <1>4 DEF JobTypes
    <3> QED BY <3>1, <2>4, <1>10
  <2>6. SendAt(e.src, n, e.dst) /\ Alike(e.src, n, e.sseq)
    <3>1. LogOf(e.src)[e.sseq].peer = e.dst
      BY <1>4 DEF SendAt
    <3> QED BY <3>1, <2>2, <2>4 DEF SendAt, Alike
  <2>7. InOrder(e)
    BY DEF MessageInv, ReceiptInv
  <2>8. PICK f \in Deliveries : f.src = e.src /\ f.sseq = n /\ f.dst = e.dst /\ f.rseq < e.rseq
    BY <2>5, <2>6, <2>7 DEF InOrder
  <2>9. PICK m \in 1..Len(a) : At(m, f.dst, f.rseq)' /\ m = off[f.dst] + f.rseq
    BY <1>6
  <2>10. m < k
    <3>1. k = off[e.dst] + e.rseq /\ off[e.dst] \in Nat
      BY <2>1, <1>2
    <3>2. f.rseq \in 1..g_seq[e.dst] /\ e.rseq \in 1..g_seq[e.dst] /\ g_seq[e.dst] \in Nat
      BY <2>8, <1>4 DEF JobTypes
    <3> QED BY <3>1, <3>2, <2>8, <2>9
  <2>11. At(l, f.src, f.sseq)'
    <3>1. a[l].rank = f.src /\ a[l].seq = f.sseq
      BY <2>1, <2>2, <2>3, <2>8
    <3> QED BY <3>1, <1>1
  <2> QED BY <2>9, <2>10, <2>11, <1>1 DEF Delivers
<1>11. ASSUME NEW k \in Unresolved'
       PROVE  IsRecv(k)' /\ ANY \in {a[k].peer, a[k].tag}
  <2>1. k \in 1..Len(a)
    BY <1>1 DEF Unresolved, LogsJoined
  <2>2. PICK d \in delivered : ~d.named /\ d.dst = a[k].rank /\ d.rseq = a[k].seq
    BY DEF Unresolved
  <2>3. Logged(d)
    BY DEF MessageInv, DeliveryInv
  <2>4. a[k] = LogOf(d.dst)[d.rseq]
    BY <2>1, <2>2, <1>2
  <2> QED BY <2>2, <2>3, <2>4 DEF Logged, IsRecv
<1>12. ASSUME NEW j \in 1..Len(a), IsSend(j)'
       PROVE  a[j].rank # ANY /\ a[j].tag # ANY
  <2>1. a[j].kind = "SEND"
    BY <1>12 DEF IsSend
  <2>2. a[j].tag # ANY
    BY <2>1, <1>2 DEF MessageInv, EventInv
  <2>3. a[j].rank # ANY
    BY <1>2, ZeroIsRank DEF ANY
  <2> QED BY <2>2, <2>3
<1>13. Links' <=>
          /\ \A k \in 1..Len(a) : IsRecv(k)' => \E j \in 1..Len(a) : Delivers(j, k)'
          /\ \A e \in Deliveries : \E j, k \in 1..Len(a) : At(j, e.src, e.sseq)' /\ At(k, e.dst, e.rseq)'
          /\ \A j, k \in 1..Len(a) : Delivers(j, k)' =>
                IsSend(j)' /\ IsRecv(k)' /\ (k \notin Unresolved' => KeyEqual(a[j], a[k]))
          /\ \A j, k, l, m \in 1..Len(a) :
                Delivers(j, k)' /\ Delivers(l, m)' /\ (j = l \/ k = m) => j = l /\ k = m
          /\ \A j, k, l \in 1..Len(a) :
                Delivers(j, k)' /\ SameSends(j, l)' /\ l < j =>
                    \E m \in 1..Len(a) : m < k /\ Delivers(l, m)'
          /\ \A k \in Unresolved' : IsRecv(k)' /\ ANY \in {a[k].peer, a[k].tag}
          /\ \A j \in 1..Len(a) : IsSend(j)' => a[j].rank # ANY /\ a[j].tag # ANY
  BY <1>1 DEF Links, ANY
<1> QED BY <1>6, <1>7, <1>8, <1>9, <1>10, <1>11, <1>12, <1>13

\* What is known of the channels is known of the array as well.
LEMMA TransitsArise ==
  ASSUME JobTypes, MessageInv, Receipts = Deliveries, NEW a, NEW off, LogsJoined(a, off),
         \A r \in Ranks : \A n \in 1..g_seq[r] : a[off[r] + n] = LogOf(r)[n],
         all' = a, delivered' = delivered, channel' = channel,
         \A r \in Ranks : pc[r] # "send"
  PROVE  Transits'
<1>0. ChannelInv /\ FreshInv /\ ReceiptInv /\ CoverInv /\ DeliveryInv /\ EventInv
  BY DEF MessageInv
<1>1. /\ Positions' = 1..Len(a) /\ Len(a) \in Nat
      /\ Deliveries' = Deliveries
      /\ \A k, r, n : At(k, r, n)' <=> a[k].rank = r /\ a[k].seq = n
  BY DEF LogsJoined, Positions, Deliveries, At
<1>2. /\ \A k \in 1..Len(a) :
            /\ a[k].rank \in Ranks /\ off[a[k].rank] \in Nat /\ a[k].seq \in 1..g_seq[a[k].rank]
            /\ k = off[a[k].rank] + a[k].seq
            /\ a[k] = LogOf(a[k].rank)[a[k].seq]
      /\ \A r \in Ranks : \A n \in 1..g_seq[r] : \E k \in 1..Len(a) :
            k = off[r] + n /\ a[k].rank = r /\ a[k].seq = n /\ a[k] = LogOf(r)[n]
  BY JoinedEvents
<1>3. ASSUME NEW j
      PROVE  Taken(j)' <=> \E k \in 1..Len(a) : \E e \in Deliveries :
                    a[j].rank = e.src /\ a[j].seq = e.sseq /\ a[k].rank = e.dst /\ a[k].seq = e.rseq
  BY <1>1 DEF Taken, Delivers
<1>4. ASSUME NEW s \in Ranks, NEW r \in Ranks, NEW k \in DOMAIN channel[s][r], NEW j
      PROVE  InChannel(s, r, k, j)' <=> /\ a[j].rank = s /\ a[j].seq = channel[s][r][k].seq
                                        /\ a[j].kind = "SEND" /\ a[j].peer = r
  BY DEF InChannel, At, IsSend
<1>5. ASSUME NEW s \in Ranks, NEW r \in Ranks, NEW k \in DOMAIN channel[s][r]
      PROVE  \E j \in 1..Len(a) : InChannel(s, r, k, j)' /\ ~Taken(j)'
  <2>1. PICK n : n = channel[s][r][k].seq
    OBVIOUS
  <2>2. SendAt(s, n, r) /\ Fresh(s, r, channel[s][r][k])
    BY <2>1, <1>0 DEF ChannelInv, FreshInv, OnWay
  <2>3. n \in 1..g_seq[s] /\ LogOf(s)[n].kind = "SEND" /\ LogOf(s)[n].peer = r
    BY <2>2 DEF SendAt
  <2>4. PICK j \in 1..Len(a) : a[j].rank = s /\ a[j].seq = n /\ a[j] = LogOf(s)[n]
    BY <2>3, <1>2
  <2>5. ASSUME NEW e \in Deliveries, s = e.src, n = e.sseq
        PROVE  FALSE
    <3>1. e.dst = r
      BY <2>3, <2>5, <1>0 DEF ReceiptInv, ReceiptOf, SendAt
    <3>2. e.sseq < n
      BY <3>1, <2>1, <2>2, <2>5 DEF Fresh, Alike
    <3>3. n \in Nat
      BY <2>3
    <3> QED BY <3>2, <3>3, <2>5
  <2>6. ~Taken(j)'
    BY <2>4, <2>5, <1>3
  <2> QED BY <2>1, <2>3, <2>4, <2>6, <1>4
<1>6. ASSUME NEW j \in 1..Len(a), IsSend(j)', ~Taken(j)'
      PROVE  \E s, r \in Ranks : \E k \in DOMAIN channel[s][r] : InChannel(s, r, k, j)'
  <2>1. PICK s, n, r : s = a[j].rank /\ n = a[j].seq /\ r = a[j].peer
    OBVIOUS
  <2>2. a[j].kind = "SEND" /\ s \in Ranks /\ n \in 1..g_seq[s] /\ a[j] = LogOf(s)[n]
    BY <2>1, <1>2, <1>6 DEF IsSend
  <2>3. r \in Ranks /\ SendAt(s, n, r)
    <3>1. LogOf(s)[n].kind = "SEND" /\ LogOf(s)[n].peer = r
      BY <2>1, <2>2
    <3>2. r \in Ranks
      BY <1>0, <2>2, <3>1 DEF EventInv
    <3> QED BY <2>2, <3>1, <3>2 DEF SendAt
  <2>4. Accounted(s, n, r)
    BY <2>2, <2>3, <1>0 DEF CoverInv
  <2>5. ASSUME NEW e \in Receipts, e.src = s, e.sseq = n
        PROVE  FALSE
    <3>1. e.dst \in Ranks /\ e.rseq \in 1..g_seq[e.dst]
      <4>1. PICK d \in delivered : d.dst = e.dst /\ d.rseq = e.rseq
        BY DEF Deliveries
      <4> QED BY <4>1, <1>0 DEF ReceiptInv, ReceiptOf, DeliveryInv, Logged
    <3>2. PICK k \in 1..Len(a) : a[k].rank = e.dst /\ a[k].seq = e.rseq
      <4>1. \A q \in Ranks : \A i_ \in 1..g_seq[q] : \E k \in 1..Len(a) : a[k].rank = q /\ a[k].seq = i_
        BY <1>2
      <4> QED BY <3>1, <4>1
    <3> QED BY <3>2, <2>1, <2>5, <1>3, <1>6
  <2>6. PICK k \in DOMAIN channel[s][r] : channel[s][r][k].seq = n
    BY <2>2, <2>3, <2>4, <2>5 DEF Accounted
  <2>7. InChannel(s, r, k, j)'
    <3>1. a[j].rank = s /\ a[j].seq = n /\ a[j].kind = "SEND" /\ a[j].peer = r
      BY <2>1, <2>2
    <3> QED BY <3>1, <2>2, <2>3, <2>6, <1>4
  <2> QED BY <2>2, <2>3, <2>7
<1>7. ASSUME NEW s \in Ranks, NEW r \in Ranks, NEW k \in DOMAIN channel[s][r],
             NEW m \in DOMAIN channel[s][r], channel[s][r][k].seq = channel[s][r][m].seq
      PROVE  k = m
  <2>1. channel[s][r] \in Seq(Message)
    BY ChannelPositions
  <2>2. k \in 1..Len(channel[s][r]) /\ m \in 1..Len(channel[s][r]) /\ channel[s][r][k].seq \in Nat
    <3>1. k \in 1..Len(channel[s][r]) /\ m \in 1..Len(channel[s][r])
      BY <2>1
    <3>2. channel[s][r][k] \in Message
      BY <2>1
    <3> QED BY <3>1, <3>2 DEF Message
  <2>3. /\ k < m => k \in 1..(m - 1)
        /\ m < k => m \in 1..(k - 1)
    BY <2>2
  <2>4. ~(k < m) /\ ~(m < k)
    BY <2>2, <2>3, <1>0, <1>7 DEF ChannelInv
  <2> QED BY <2>2, <2>4
<1>8. \A j, l \in 1..Len(a) : a[j].rank = a[l].rank /\ a[j].seq = a[l].seq => j = l
  BY <1>2
<1> QED BY <1>1, <1>5, <1>6, <1>7, <1>8 DEF Transits

\* The array and the deliveries make the links.
LEMMA LinksKept == ASSUME Links, UNCHANGED <<all, delivered>> PROVE Links'
<1>1. Positions' = Positions /\ Deliveries' = Deliveries /\ Unresolved' = Unresolved
  BY DEF Positions, Deliveries, Unresolved
<1>2. /\ \A j, k : Delivers(j, k)' <=> Delivers(j, k)
      /\ \A j, l : SameSends(j, l)' <=> SameSends(j, l)
      /\ \A k, r, n : At(k, r, n)' <=> At(k, r, n)
      /\ \A k : (IsSend(k)' <=> IsSend(k)) /\ (IsRecv(k)' <=> IsRecv(k))
  BY <1>1 DEF Delivers, SameSends, At, IsSend, IsRecv
<1> QED BY <1>1, <1>2 DEF Links

\* The same for the channels, where a message may still be damaged.
LEMMA TransitsKept ==
  ASSUME Transits, UNCHANGED <<all, delivered>>,
         \A s, r \in Ranks : /\ DOMAIN channel'[s][r] = DOMAIN channel[s][r]
                             /\ \A k \in DOMAIN channel[s][r] :
                                    channel'[s][r][k].seq = channel[s][r][k].seq
  PROVE  Transits'
<1>1. Positions' = Positions /\ Deliveries' = Deliveries
  BY DEF Positions, Deliveries
<1>2. /\ \A k, r, n : At(k, r, n)' <=> At(k, r, n)
      /\ \A k : IsSend(k)' <=> IsSend(k)
  BY DEF At, IsSend
<1>3. \A j : Taken(j)' <=> Taken(j)
  BY <1>1, <1>2 DEF Taken, Delivers
<1>4. \A s, r \in Ranks : \A k \in DOMAIN channel[s][r] : \A j :
            InChannel(s, r, k, j)' <=> InChannel(s, r, k, j)
  BY DEF InChannel, At, IsSend
<1> QED BY <1>1, <1>2, <1>3, <1>4 DEF Transits

\* Once the analysis has started nothing is sent or received.
LEMMA ChannelsStay ==
  ASSUME JobTypes, RootInv, [Next]_sysvars, pc[0] \in {"analyze", "finalized"},
         NEW s \in Ranks, NEW r \in Ranks
  PROVE  /\ DOMAIN channel'[s][r] = DOMAIN channel[s][r]
         /\ \A k \in DOMAIN channel[s][r] : channel'[s][r][k].seq = channel[s][r][k].seq
<1>1. CASE Faults
  BY <1>1, DamageKeepsEnvelopes DEF Faults, Network
<1>2. CASE ~Faults
  <2>1. ~(\E q \in Ranks : Program(q))
    BY RanksAreDone DEF Program
  <2>2. UNCHANGED channel
    BY <1>2, <2>1 DEF Next, Root, RootStep, Gather, Layout, Clock, Tick, Analysis, StartAnalysis, Gatherv,
       AnalysisStep, EndAnalysis, AnalysisReturns, sysvars, jobvars, program
  <2> QED BY <2>2
<1> QED BY <1>1, <1>2

LinkInv == pc[0] \in {"analyze", "finalized"} => Links /\ Transits

\* The links are there when the analysis starts, since by then every message that was
\* received is logged.
LEMMA LinkStep ==
  ASSUME LogsFit, JobTypes, RankLogs, RootInv, MessagesLive, LinkInv, [Next]_sysvars
  PROVE  LinkInv'
<1> SUFFICES ASSUME pc'[0] \in {"analyze", "finalized"} PROVE Links' /\ Transits'
  BY DEF LinkInv
<1>1. CASE StartAnalysis
  <2>1. /\ Gatherv /\ all' = Collected
        /\ pc[0] = "layout" /\ (\A r \in Ranks \ {0} : pc[r] = "finalized")
        /\ delivered' = delivered /\ channel' = channel
    BY <1>1 DEF StartAnalysis, Analyze, Gatherv
  <2>2. MessageInv
    BY <2>1 DEF MessagesLive, Collecting
  <2>3. Receipts = Deliveries
    BY <2>1 DEF Receipts
  <2>4. PICK off : /\ LogsJoined(Collected, off)
                   /\ \A r \in Ranks : \A n \in 1..g_seq[r] : Collected[off[r] + n] = LogOf(r)[n]
    BY <2>1, CollectedIsJoined
  <2>5. PICK a : a = Collected
    OBVIOUS
  <2>6. /\ LogsJoined(a, off) /\ all' = a
        /\ \A r \in Ranks : \A n \in 1..g_seq[r] : a[off[r] + n] = LogOf(r)[n]
    BY <2>1, <2>4, <2>5
  <2>7. \A r \in Ranks : pc[r] # "send"
    BY <2>1
  <2>8. Links'
    BY <2>1, <2>2, <2>3, <2>6, LinksArise
  <2>9. Transits'
    BY <2>1, <2>2, <2>3, <2>6, <2>7, TransitsArise
  <2> QED BY <2>8, <2>9
<1>2. CASE pc[0] \in {"analyze", "finalized"} /\ UNCHANGED <<all, g_seq, delivered>>
  <2>1. Links'
    BY <1>2, LinksKept DEF LinkInv
  <2>2. Transits'
    BY <1>2, TransitsKept, ChannelsStay DEF LinkInv
  <2> QED BY <2>1, <2>2
<1> QED BY <1>1, <1>2, ArrayStays

\* The messages of the array that is analysed, for as long as it is.
THEOREM SystemLinks ==
  ASSUME LogsFit, OnWorld
  PROVE  Spec => []LinkInv
<1>1. Init => LinkInv
  BY ZeroIsRank DEF Init, JobInit, LinkInv
<1>2. (JobTypes /\ CallsInHand /\ RankLogs /\ RootInv) /\ MessagesLive /\ LinkInv /\ [Next]_sysvars
        => LinkInv'
  BY LinkStep
<1> QED BY <1>1, <1>2, LayoutIsRight, MessagesAreLogged, PTL DEF Spec

\* No report is made before the analysis has an array.
LEMMA ReportedIsAnalysed == ASSUME LogsFit PROVE Spec => [](phase # "idle" => pc[0] \in {"analyze", "finalized"})
<1> DEFINE Inv == phase # "idle" => pc[0] \in {"analyze", "finalized"}
<1>1. Init => Inv
  BY DEF Init, DInit, MInit
<1>2. (JobTypes /\ CallsInHand /\ RankLogs /\ RootInv) /\ Inv /\ [Next]_sysvars => Inv'
  <2> SUFFICES ASSUME JobTypes, RootInv, Inv, [Next]_sysvars, phase' # "idle"
               PROVE  pc'[0] \in {"analyze", "finalized"}
    OBVIOUS
  <2> USE DEF Goto
  <2>0. 0 \in Ranks /\ pc \in [Ranks -> Places]
    BY ZeroIsRank DEF JobTypes
  <2>1. CASE StartAnalysis
    BY <2>0, <2>1 DEF StartAnalysis, Gatherv
  <2>2. CASE AnalysisStep
    BY <2>2 DEF AnalysisStep, program
  <2>3. CASE EndAnalysis
    BY <2>0, <2>3 DEF EndAnalysis, AnalysisReturns
  <2>4. ASSUME UNCHANGED dvars PROVE pc[0] \in {"analyze", "finalized"}
    BY <2>4 DEF dvars, mvars
  <2>5. ASSUME NEW r \in Ranks, Program(r) PROVE FALSE
    BY <2>4, <2>5, RanksAreDone DEF Program
  <2>6. CASE Root
    BY <2>4, <2>6 DEF Root, RootStep, Gather, Layout
  <2>7. CASE Faults \/ Clock \/ UNCHANGED sysvars
    <3>1. UNCHANGED <<pc, dvars>>
      BY <2>7 DEF Faults, Network, Damage, Clock, Tick, sysvars, jobvars, program
    <3> QED BY <3>1, <2>4
  <2> QED BY <2>1, <2>2, <2>3, <2>5, <2>6, <2>7 DEF Next, Analysis
<1> QED BY <1>1, <1>2, LayoutIsRight, PTL DEF Spec

\* What the end of the analysis rests on.
EndOfAnalysis ==
    /\ MTypeOK /\ PairingInv /\ NothingPairableLeft /\ CountInv /\ CountsAgree /\ EndInv
    /\ phase # "idle" => Links /\ Transits

\* For all such programs, all of it holds.
LEMMA SystemEnds ==
  ASSUME LogsFit, OnWorld
  PROVE  Spec => []EndOfAnalysis
<1>1. /\ MTypeOK /\ PairingInv /\ NothingPairableLeft /\ CountInv /\ CountsAgree /\ EndInv /\ LinkInv
      /\ (phase # "idle" => pc[0] \in {"analyze", "finalized"})
      => EndOfAnalysis
  BY DEF LinkInv, EndOfAnalysis
<1> QED BY <1>1, SystemAnalyses, SystemLinks, ReportedIsAnalysed, DetectorMatches, MatcherTypeCorrect,
           PairingInvariant, NothingLeft, CountInvariant, CountsAreExact, DetectorEnds, PTL

\* For all programs on such communicators and every number of ranks: when the events
\* name what was received, the detector pairs every receive with the very send whose
\* message MPI delivered to it, and pairs nothing else.
THEOREM PairsAreTheDeliveries ==
  ASSUME LogsFit, OnWorld
  PROVE  Spec => []PairsAreDeliveries
<1>1. EndOfAnalysis => PairsAreDeliveries
  <2> SUFFICES ASSUME EndOfAnalysis, Reported, Unresolved = {} PROVE MatchedEvents = Deliveries
    BY DEF PairsAreDeliveries
  <2>1. phase = "done"
    BY DEF EndOfAnalysis, EndInv, Reported
  <2> QED BY <2>1, PairsFromLinks DEF EndOfAnalysis
<1> QED BY <1>1, SystemEnds, PTL

\* For all such programs: a stall is never reported of a receive whose event names its
\* source and tag.
THEOREM StallsAreOfUnresolved ==
  ASSUME LogsFit, OnWorld
  PROVE  Spec => []StallsAreUnresolved
<1>1. EndOfAnalysis => StallsAreUnresolved
  <2> SUFFICES ASSUME EndOfAnalysis, NEW k \in stalled, k \notin Unresolved PROVE FALSE
    BY DEF StallsAreUnresolved
  <2>1. phase = "done" /\ k \in Positions /\ IsRecv(k) /\ ~used[k]
    BY DEF EndOfAnalysis, EndInv
  <2>2. k \in Matched
    BY <2>1, NamedAreMatched DEF EndOfAnalysis
  <2> QED BY <2>1, <2>2 DEF EndOfAnalysis, PairingInv, Marks
<1> QED BY <1>1, SystemEnds, PTL

\* Two sets whose elements go with each other one by one have the same size.
LEMMA SameSize ==
  ASSUME NEW S, NEW T, NEW R, IsFiniteSet(S),
         \A x \in S : \E y \in T : <<x, y>> \in R,
         \A y \in T : \E x \in S : <<x, y>> \in R,
         \A x, v \in S : \A y, w \in T : <<x, y>> \in R /\ <<v, w>> \in R => (x = v <=> y = w)
  PROVE  IsFiniteSet(T) /\ Cardinality(T) = Cardinality(S)
<1> DEFINE f == [x \in S |-> CHOOSE y \in T : <<x, y>> \in R]
<1>1. \A x \in S : f[x] \in T /\ <<x, f[x]>> \in R
  OBVIOUS
<1>2. f \in [S -> T]
  BY <1>1
<1> HIDE DEF f
<1>3. \A x, v \in S : f[x] = f[v] => x = v
  BY ZenonT(30), <1>1
<1>4. \A y \in T : \E x \in S : f[x] = y
  BY ZenonT(30), <1>1
<1>5. f \in Bijection(S, T)
  BY <1>2, <1>3, <1>4, Fun_IsBij
<1>6. ExistsBijection(S, T)
  BY <1>5 DEF ExistsBijection
<1> QED BY <1>6, FS_Bijection

\* As many sends are left over as there are messages that nobody has received.
LEMMA SendsAndTransits ==
  ASSUME MTypeOK, Links, Transits
  PROVE  /\ IsFiniteSet(InTransit)
         /\ Cardinality({k \in Positions : IsSend(k)}) =
              Cardinality({k \in Positions : IsRecv(k)}) + Cardinality(InTransit)
<1> DEFINE A == {j \in Positions : IsSend(j) /\ Taken(j)}
           B == {j \in Positions : IsSend(j) /\ ~Taken(j)}
           C == {k \in Positions : IsRecv(k)}
           D == {x \in Positions \X Positions : Delivers(x[1], x[2])}
           I == {x \in Positions \X InTransit : InChannel(x[2][1], x[2][2], x[2][3], x[1])}
<1>1. IsFiniteSet(A) /\ IsFiniteSet(B) /\ Cardinality(A) \in Nat /\ Cardinality(B) \in Nat
  <2>1. A \in SUBSET Positions /\ B \in SUBSET Positions
    OBVIOUS
  <2> HIDE DEF A, B
  <2> QED BY <2>1, FiniteParts
<1>2. \A j, k : <<j, k>> \in D <=> j \in Positions /\ k \in Positions /\ Delivers(j, k)
  OBVIOUS
<1>3. Cardinality(C) = Cardinality(A)
  <2>1. \A x \in A : \E y \in C : <<x, y>> \in D
    <3> SUFFICES ASSUME NEW x \in A PROVE \E y \in C : <<x, y>> \in D
      OBVIOUS
    <3>1. PICK y \in Positions : Delivers(x, y)
      BY DEF Taken
    <3>2. y \in C
      BY <3>1 DEF Links
    <3> QED BY <3>1, <3>2
  <2>2. \A y \in C : \E x \in A : <<x, y>> \in D
    <3> SUFFICES ASSUME NEW y \in C PROVE \E x \in A : <<x, y>> \in D
      OBVIOUS
    <3>1. PICK x \in Positions : Delivers(x, y)
      BY DEF Links
    <3>2. x \in A
      BY <3>1 DEF Links, Taken
    <3> QED BY <3>1, <3>2
  <2>3. \A x, v \in A : \A y, w \in C : <<x, y>> \in D /\ <<v, w>> \in D => (x = v <=> y = w)
    BY <1>2 DEF Links
  <2> HIDE DEF A, C, D
  <2> QED BY <1>1, <2>1, <2>2, <2>3, SameSize
<1>4. \A j, x : <<j, x>> \in I <=>
            j \in Positions /\ x \in InTransit /\ InChannel(x[1], x[2], x[3], j)
  OBVIOUS
<1>5. \A x : x \in InTransit <=>
            \E s, r \in Ranks : \E k \in DOMAIN channel[s][r] : x = <<s, r, k>>
  <2> DEFINE P(s, r) == {<<s, r, k>> : k \in DOMAIN channel[s][r]}
  <2>1. InTransit = UNION {P(s, r) : s \in Ranks, r \in Ranks}
    BY DEF InTransit
  <2>2. \A s, r : \A x : x \in P(s, r) <=> \E k \in DOMAIN channel[s][r] : x = <<s, r, k>>
    OBVIOUS
  <2> HIDE DEF P
  <2>3. \A x : x \in UNION {P(s, r) : s \in Ranks, r \in Ranks} <=> \E s, r \in Ranks : x \in P(s, r)
    OBVIOUS
  <2> QED BY <2>1, <2>2, <2>3
<1>6. IsFiniteSet(InTransit) /\ Cardinality(InTransit) = Cardinality(B)
  <2>1. \A j \in B : \E x \in InTransit : <<j, x>> \in I
    <3> SUFFICES ASSUME NEW j \in B PROVE \E x \in InTransit : <<j, x>> \in I
      OBVIOUS
    <3>1. PICK s \in Ranks, r \in Ranks : \E k \in DOMAIN channel[s][r] : InChannel(s, r, k, j)
      BY DEF Transits
    <3>2. PICK k \in DOMAIN channel[s][r] : InChannel(s, r, k, j)
      BY <3>1
    <3>3. <<s, r, k>> \in InTransit
      BY <1>5
    <3> HIDE DEF I
    <3> QED BY <3>2, <3>3, <1>4
  <2>2. \A x \in InTransit : \E j \in B : <<j, x>> \in I
    <3> SUFFICES ASSUME NEW x \in InTransit PROVE \E j \in B : <<j, x>> \in I
      OBVIOUS
    <3>1. PICK s \in Ranks, r \in Ranks : \E k \in DOMAIN channel[s][r] : x = <<s, r, k>>
      BY <1>5
    <3>2. PICK k \in DOMAIN channel[s][r] : x = <<s, r, k>>
      BY <3>1
    <3>3. PICK j \in Positions : InChannel(s, r, k, j) /\ ~Taken(j)
      BY DEF Transits
    <3>4. j \in B
      BY <3>3 DEF InChannel
    <3> HIDE DEF I
    <3> QED BY <3>2, <3>3, <3>4, <1>4
  <2>3. ASSUME NEW j \in B, NEW l \in B, NEW x \in InTransit, NEW y \in InTransit,
               <<j, x>> \in I, <<l, y>> \in I
        PROVE  j = l <=> x = y
    <3>1. PICK s \in Ranks, r \in Ranks : \E k \in DOMAIN channel[s][r] : x = <<s, r, k>>
      BY <1>5
    <3>1a. PICK k \in DOMAIN channel[s][r] : x = <<s, r, k>>
      BY <3>1
    <3>2. PICK p \in Ranks, q \in Ranks : \E m \in DOMAIN channel[p][q] : y = <<p, q, m>>
      BY <1>5
    <3>2a. PICK m \in DOMAIN channel[p][q] : y = <<p, q, m>>
      BY <3>2
    <3>3. InChannel(s, r, k, j) /\ InChannel(p, q, m, l)
      <4> HIDE DEF I
      <4> QED BY <2>3, <3>1a, <3>2a, <1>4
    <3>4. /\ all[j].rank = s /\ all[j].peer = r /\ all[j].seq = channel[s][r][k].seq
          /\ all[l].rank = p /\ all[l].peer = q /\ all[l].seq = channel[p][q][m].seq
      BY <3>3 DEF InChannel, At
    <3>5. ASSUME j = l PROVE x = y
      <4>1. s = p /\ r = q /\ channel[s][r][k].seq = channel[s][r][m].seq
        BY <3>4, <3>5
      <4>2. k = m
        BY <4>1 DEF Transits
      <4> QED BY <4>1, <4>2, <3>1a, <3>2a
    <3>6. ASSUME x = y PROVE j = l
      <4>1. s = p /\ r = q /\ k = m
        BY <3>1a, <3>2a, <3>6
      <4>2. all[j].rank = all[l].rank /\ all[j].seq = all[l].seq
        BY <3>4, <4>1
      <4> QED BY <4>2 DEF Transits
    <3> QED BY <3>5, <3>6
  <2>4. \A j, l \in B : \A x, y \in InTransit : <<j, x>> \in I /\ <<l, y>> \in I => (j = l <=> x = y)
    BY <2>3
  <2> HIDE DEF B, I
  <2> QED BY <1>1, <2>1, <2>2, <2>4, SameSize
<1>7. {k \in Positions : IsSend(k)} = A \cup B /\ A \cap B = {}
  OBVIOUS
<1>8. Cardinality(A \cup B) = Cardinality(A) + Cardinality(B)
  <2> HIDE DEF A, B
  <2> QED BY <1>1, <1>7, DisjointUnion
<1> HIDE DEF A, B
<1> QED BY <1>3, <1>6, <1>7, <1>8

\* The receives that are left are those that leave the source or the tag open: no send is
\* of their envelope.
LEMMA LeftAreUnresolved ==
  ASSUME MTypeOK, PairingInv, NothingPairableLeft, phase = "done", Links
  PROVE  LeftRecvs = Unresolved
<1>1. ASSUME NEW k \in LeftRecvs
      PROVE  k \in Unresolved
  <2>1. k \in Positions /\ IsRecv(k) /\ ~used[k]
    BY DEF LeftRecvs
  <2>2. k \notin Matched
    BY <2>1 DEF PairingInv, Marks
  <2> QED BY <2>1, <2>2, NamedAreMatched
<1>2. ASSUME NEW k \in Unresolved
      PROVE  k \in LeftRecvs
  <2>1. k \in Positions
    BY DEF Unresolved, Positions, MTypeOK
  <2>2. IsRecv(k) /\ ANY \in {all[k].peer, all[k].tag}
    BY DEF Links
  <2>3. ASSUME k \in Matched PROVE FALSE
    <3>1. KeyEqual(all[partner[k]], all[k]) /\ partner[k] \in Positions
      BY <2>1, <2>3 DEF PairingInv, PairsAreKeyed, MTypeOK, Matched, Positions
    <3>2. /\ IsSend(partner[k]) /\ all[partner[k]].rank = all[k].peer
          /\ all[partner[k]].tag = all[k].tag
      BY <3>1 DEF KeyEqual, IsSend
    <3> QED BY <2>2, <3>1, <3>2 DEF Links
  <2>4. ~used[k]
    BY <2>1, <2>2, <2>3 DEF PairingInv, Marks
  <2> QED BY <2>1, <2>2, <2>4 DEF LeftRecvs, Passed
<1> QED BY <1>1, <1>2

\* For all such programs and every number of ranks: what is reported as unmatched are the
\* messages that nobody has received, and the receives that leave the source or the tag
\* open together with as many sends.
THEOREM UnmatchedAreUndelivered ==
  ASSUME LogsFit, OnWorld
  PROVE  Spec => []UnmatchedIsUndelivered
<1>1. EndOfAnalysis => UnmatchedIsUndelivered
  <2> SUFFICES ASSUME EndOfAnalysis, Reported
               PROVE  /\ unmatched_recv_count = Cardinality(Unresolved)
                      /\ unmatched_send_count = Cardinality(InTransit) + Cardinality(Unresolved)
    BY DEF UnmatchedIsUndelivered
  <2>1. phase = "done" /\ MTypeOK /\ Links /\ Transits
    BY DEF EndOfAnalysis, EndInv, Reported
  <2>2. unmatched_recv_count = Cardinality(Unresolved)
    BY <2>1, LeftAreUnresolved DEF EndOfAnalysis, CountInv
  <2>3. /\ matched_pairs + unmatched_recv_count = Cardinality({k \in Positions : IsRecv(k)})
        /\ matched_pairs + unmatched_send_count = Cardinality({k \in Positions : IsSend(k)})
    BY <2>1 DEF EndOfAnalysis, CountsAgree
  <2>4. IsFiniteSet(InTransit)
        /\ Cardinality({k \in Positions : IsSend(k)}) =
             Cardinality({k \in Positions : IsRecv(k)}) + Cardinality(InTransit)
    BY <2>1, SendsAndTransits
  <2>5. Cardinality(InTransit) \in Nat
    BY <2>4, FS_CardinalityType
  <2>6. matched_pairs \in Nat /\ unmatched_recv_count \in Nat /\ unmatched_send_count \in Nat
    BY <2>1 DEF MTypeOK
  <2> QED BY <2>2, <2>3, <2>4, <2>5, <2>6
<1> QED BY <1>1, SystemEnds, PTL

-----------------------------------------------------------------------------
(* Contents and times.  What a message carries is what the checksum of its  *)
(* send was computed of, unless it was damaged, and when the send was       *)
(* logged.                                                                  *)

\* The checksum of a buffer that has an address.
Hash(data, len, cap) == IF cap = 0 THEN 0 ELSE 1 + (data * 1024 + len) * 1024 + cap

\* What message m held when it was sent, and that the log of s has its hash, its size and
\* the time.
SentData(m) == IF m.intact THEN m.data ELSE m.data - 1
Carries(s, m) ==
    /\ LogOf(s)[m.seq].timestamp = m.sent /\ LogOf(s)[m.seq].nbytes = m.nbytes
    /\ SentData(m) \in Nat /\ (~m.intact => m.nbytes > 0)
    /\ HashesDiffer => /\ LogOf(s)[m.seq].checksum = Hash(SentData(m), m.nbytes, m.nbytes)
                       /\ m.nbytes < HashLimit

\* The content of the message that a rank is about to send, or has received; its buffer
\* has an address.
Content(r) ==
    /\ pc[r] = "send" =>
        /\ LogOf(r)[g_seq[r]].nbytes = cur[r].nbytes
        /\ HashesDiffer =>
              /\ LogOf(r)[g_seq[r]].checksum = Hash(cur[r].data, cur[r].nbytes, cur[r].nbytes)
              /\ cur[r].nbytes < HashLimit
    /\ pc[r] \in {"recv", "after_recv"} /\ HashesDiffer => cur[r].addr # 0
    /\ pc[r] = "after_recv" => Carries(got[r].source, got[r])

\* The two events of a delivery have one checksum exactly if nothing happened to the
\* message and it had the size of the buffer, and one size exactly in the latter case; and
\* the time between them is that of the message.
Tells(d) ==
    /\ HashesDiffer =>
          (LogOf(d.src)[d.sseq].checksum = LogOf(d.dst)[d.rseq].checksum <=> d.intact /\ d.fits)
    /\ LogOf(d.src)[d.sseq].nbytes = LogOf(d.dst)[d.rseq].nbytes <=> d.fits
    /\ d.transit = LogOf(d.dst)[d.rseq].timestamp - LogOf(d.src)[d.sseq].timestamp

ContentInv ==
    /\ \A s, r \in Ranks : \A k \in DOMAIN channel[s][r] : Carries(s, channel[s][r][k])
    /\ \A r \in Ranks : Content(r)
    /\ \A d \in delivered : Tells(d)
    /\ \A d, e \in delivered : d.dst = e.dst /\ d.rseq = e.rseq => d = e

ContentLive == Collecting => ContentInv

\* The numbers that stand for hashes tell a damaged message from what was sent, and a
\* buffer that it fills from one that it does not.
LEMMA HashFacts ==
  ASSUME NEW intact \in BOOLEAN, NEW data \in Nat, NEW n \in Nat, NEW cap \in Nat, n < HashLimit,
         ~intact => n > 0, (IF intact THEN data ELSE data - 1) \in Nat
  PROVE  Hash(IF intact THEN data ELSE data - 1, n, n) = Hash(data, n, cap) <=> intact /\ n = cap
<1>1. CASE intact
  BY <1>1 DEF Hash
<1>2. CASE ~intact
  <2>1. PICK d \in Nat : d = data - 1
    BY <1>2
  <2>2. Hash(d, n, n) = 1 + (d * 1024 + n) * 1024 + n /\ Hash(d, n, n) > 0
    BY <1>2 DEF Hash
  <2>3. CASE cap = 0
    BY <1>2, <2>1, <2>2, <2>3 DEF Hash
  <2>4. CASE cap # 0
    <3>1. Hash(data, n, cap) = 1 + ((d + 1) * 1024 + n) * 1024 + cap
      BY <2>1, <2>4 DEF Hash
    <3>2. Hash(d, n, n) < Hash(data, n, cap)
      BY <2>2, <3>1 DEF HashLimit
    <3> QED BY <1>2, <2>1, <2>2, <3>1, <3>2
  <2> QED BY <2>3, <2>4
<1> QED BY <1>1, <1>2

\* What was logged of a message stays logged.
LEMMA CarriesKept ==
  ASSUME LogsKept, NEW s \in Ranks, NEW m, m.seq \in 1..g_seq[s], Carries(s, m)
  PROVE  Carries(s, m)'
<1>1. LogOf(s)'[m.seq] = LogOf(s)[m.seq]
  BY DEF LogsKept
<1> QED BY <1>1 DEF Carries, SentData

\* A rank that does nothing has the content in hand that it had.
LEMMA ContentKept ==
  ASSUME MessageInv, ContentInv, LogsKept, NEW r \in Ranks,
         pc'[r] = "send" => pc[r] = "send" /\ cur'[r] = cur[r] /\ g_seq'[r] = g_seq[r],
         pc'[r] = "after_recv" => pc[r] = "after_recv" /\ got'[r] = got[r],
         pc'[r] \in {"recv", "after_recv"} => pc[r] \in {"recv", "after_recv"} /\ cur'[r] = cur[r]
  PROVE  Content(r)'
<1>1. Content(r) /\ InCall(r) /\ ReceiptInv
  BY DEF MessageInv, ContentInv, CallInv
<1>2. CASE pc'[r] = "send"
  <2>1. g_seq[r] \in 1..g_seq[r]
    BY <1>1, <1>2 DEF InCall, SendAt
  <2>2. LogOf(r)'[g_seq[r]] = LogOf(r)[g_seq[r]]
    BY <2>1 DEF LogsKept
  <2> QED BY <1>1, <1>2, <2>2 DEF Content
<1>3. ASSUME pc'[r] = "after_recv" PROVE Carries(got[r].source, got[r])'
  <2>1. PICK m : m = got[r]
    OBVIOUS
  <2>2. Receipt(r) \in Receipts
    BY <1>3 DEF Receipts
  <2>3. m.source \in Ranks /\ m.seq \in 1..g_seq[m.source]
    BY <1>1, <2>1, <2>2 DEF ReceiptInv, ReceiptOf, Receipt, SendAt
  <2>4. Carries(m.source, m)
    BY <1>1, <1>3, <2>1 DEF Content
  <2>5. Carries(m.source, m)'
    BY <2>3, <2>4, CarriesKept
  <2>6. got'[r] = m
    BY <1>3, <2>1
  <2> QED BY <2>5, <2>6 DEF Carries, SentData, LogOf
<1>4. pc'[r] \in {"recv", "after_recv"} /\ HashesDiffer => cur'[r].addr # 0
  BY <1>1 DEF Content
<1> QED BY <1>2, <1>3, <1>4 DEF Content

\* A step keeps the contents if what it puts into channels and hands carries what was
\* logged, and what it logs as received is new and compared.
LEMMA ContentsKept ==
  ASSUME JobTypes, MessageInv, ContentInv, LogsKept, \A r \in Ranks : Content(r)',
         \A s, r \in Ranks : \A k \in DOMAIN channel'[s][r] :
            \/ Carries(s, channel[s][r][k])'
            \/ \E m \in DOMAIN channel[s][r] : channel'[s][r][k] = channel[s][r][m],
         delivered' = delivered \/
            \E d : /\ delivered' = delivered \cup {d} /\ Tells(d)'
                   /\ d.dst \in Ranks /\ d.rseq = g_seq[d.dst] + 1
  PROVE  ContentInv'
<1>0. ChannelInv /\ ReceiptInv /\ DeliveryInv
  BY DEF MessageInv
<1>1. ASSUME NEW s \in Ranks, NEW r \in Ranks, NEW k \in DOMAIN channel'[s][r]
      PROVE  Carries(s, channel[s][r][k])'
  <2>1. CASE Carries(s, channel[s][r][k])'
    BY <2>1
  <2>2. CASE \E m \in DOMAIN channel[s][r] : channel'[s][r][k] = channel[s][r][m]
    <3>1. PICK m \in DOMAIN channel[s][r] : channel'[s][r][k] = channel[s][r][m]
      BY <2>2
    <3>2. PICK x : x = channel[s][r][m]
      OBVIOUS
    <3>3. OnWay(s, r, x) /\ Carries(s, x)
      BY <1>0, <3>2 DEF ChannelInv, ContentInv
    <3>4. Carries(s, x)'
      BY <3>3, CarriesKept DEF OnWay, SendAt
    <3> QED BY <3>1, <3>2, <3>4 DEF Carries, SentData, LogOf
  <2> QED BY <2>1, <2>2
<1>2. ASSUME NEW d \in delivered
      PROVE  /\ d.src \in Ranks /\ d.dst \in Ranks /\ d.sseq \in 1..g_seq[d.src]
             /\ d.rseq \in 1..g_seq[d.dst]
             /\ Tells(d)'
  <2> DEFINE e == [src |-> d.src, sseq |-> d.sseq, dst |-> d.dst, rseq |-> d.rseq]
  <2>1. e \in Receipts
    BY DEF Receipts, Deliveries
  <2>2. d.src \in Ranks /\ d.dst \in Ranks /\ d.sseq \in 1..g_seq[d.src]
    BY <1>0, <2>1 DEF ReceiptInv, ReceiptOf, SendAt
  <2>3. d.rseq \in 1..g_seq[d.dst]
    BY <1>0 DEF DeliveryInv, Logged
  <2>4. /\ LogOf(d.src)'[d.sseq] = LogOf(d.src)[d.sseq]
        /\ LogOf(d.dst)'[d.rseq] = LogOf(d.dst)[d.rseq]
    BY <2>2, <2>3 DEF LogsKept
  <2>5. Tells(d)
    BY DEF ContentInv
  <2> QED BY <2>2, <2>3, <2>4, <2>5 DEF Tells
<1>3. \A d \in delivered' : Tells(d)'
  BY <1>2
<1>4. \A d, e \in delivered' : d.dst = e.dst /\ d.rseq = e.rseq => d = e
  <2>1. \A d, e \in delivered : d.dst = e.dst /\ d.rseq = e.rseq => d = e
    BY DEF ContentInv
  <2>2. \A r \in Ranks : g_seq[r] \in Nat
    BY DEF JobTypes
  <2>3. \A d \in delivered : d.dst \in Ranks /\ d.rseq \in 1..g_seq[d.dst]
    BY <1>2
  <2> QED BY <2>1, <2>2, <2>3
<1> QED BY <1>1, <1>3, <1>4 DEF ContentInv

\* A send that is begun is of a short message, and no buffer is at NULL.
LEMMA OptionsAreShort ==
  ASSUME JobTypes, NEW r \in Ranks, NEW c \in Options(r), c.op \in {"Send", "Recv"}
  PROVE  /\ c \in Calls
         /\ HashesDiffer => c.addr # 0 /\ (c.op = "Send" => c.nbytes < HashLimit)
<1>1. c # NoCall
  BY DEF NoCall
<1>2. c \in Calls
  BY <1>1, OptionsFacts
<1>3. Code(r) \in Seq(SUBSET (Calls \cup {NoCall})) /\ ncalls[r] \in Nat
  BY RuntimeAssumption DEF JobTypes, Code
<1>4. ncalls[r] + 1 \in DOMAIN Code(r) /\ c \in Code(r)[ncalls[r] + 1]
  BY <1>3 DEF Options
<1>5. HashesDiffer => c.addr # 0 /\ (c.op = "Send" => c.nbytes < HashLimit)
  BY <1>1, <1>4 DEF HashesDiffer, JobTypes, Code
<1> QED BY <1>2, <1>5

\* The checksum of a send is that of the message that will be sent.
LEMMA BeginKeepsContent ==
  ASSUME JobTypes, RankLogs, MessageInv, ContentInv, NEW r \in Ranks,
         NEW c \in Options(r), BeginSend(r, c) \/ BeginColl(r, c)
  PROVE  ContentInv'
<1>1. /\ pc[r] = "run" /\ UNCHANGED <<got, channel, sent_block, delivered>>
      /\ pc' = [pc EXCEPT ![r] = IF c.op = "Send" THEN "send" ELSE "coll"]
      /\ cur' = [cur EXCEPT ![r] = c]
      /\ g_seq' = [g_seq EXCEPT ![r] = @ + 1]
      /\ BeginSend(r, c) <=> c.op = "Send"
  BY DEF BeginSend, BeginColl, Call, Goto, gather, LogEvent, CollectiveOps
<1>2. PICK e \in Event :
        /\ g_events' = [g_events EXCEPT ![r] = Append(@, e)]
        /\ c.op = "Send" => e.checksum = Checksum(c.addr, c.data, c.nbytes, c.nbytes)
        /\ e.nbytes = c.nbytes
  BY <1>1, BeginFacts DEF Writes
<1>3. /\ pc'[r] = (IF c.op = "Send" THEN "send" ELSE "coll") /\ cur'[r] = c
      /\ \A s \in Ranks \ {r} : pc'[s] = pc[s] /\ cur'[s] = cur[s]
  BY <1>1 DEF JobTypes
<1>4. pc[r] # "finalized" /\ pc'[r] # "finalized"
  BY <1>1, <1>3
<1>5. /\ LogsKept
      /\ g_seq[r] \in Nat /\ g_seq'[r] = g_seq[r] + 1 /\ LogOf(r)'[g_seq[r] + 1] = e
      /\ \A s \in Ranks \ {r} : g_seq'[s] = g_seq[s]
  BY <1>1, <1>2, <1>3, <1>4, LogsAppended
<1>6. Content(r)'
  <2>1. CASE c.op = "Send"
    <3>1. HashesDiffer => c.addr # 0 /\ c.nbytes < HashLimit
      BY <2>1, OptionsAreShort
    <3>2. /\ HashesDiffer => LogOf(r)'[g_seq'[r]].checksum = Hash(c.data, c.nbytes, c.nbytes)
          /\ LogOf(r)'[g_seq'[r]].nbytes = c.nbytes
      BY <1>2, <1>5, <2>1, <3>1 DEF Checksum, Hash
    <3> QED BY <1>3, <2>1, <3>1, <3>2 DEF Content, Hash
  <2>2. CASE c.op # "Send"
    BY <1>3, <2>2 DEF Content
  <2> QED BY <2>1, <2>2
<1>7. \A s \in Ranks : Content(s)'
  BY <1>1, <1>3, <1>5, <1>6, ContentKept
<1> QED BY <1>1, <1>5, <1>7, ContentsKept

\* A message goes on its way as it was logged.
LEMMA DoSendKeepsContent ==
  ASSUME JobTypes, CallsInHand, RankLogs, MessageInv, ContentInv, NEW r \in Ranks, DoSend(r)
  PROVE  ContentInv'
<1>1. /\ pc[r] = "send" /\ UNCHANGED <<cur, got, g_seq, g_events, sent_block, delivered>>
      /\ cur[r] \in Calls /\ Callable(r, cur[r]) /\ cur[r].op = "Send"
  BY DEF DoSend, log, gather, CallsInHand, CallInHand
<1>2. PICK l \in {"run", "sync"} : pc' = [pc EXCEPT ![r] = l]
  BY DEF DoSend, Goto
<1>3. pc'[r] = l /\ \A s \in Ranks \ {r} : pc'[s] = pc[s]
  BY <1>2 DEF JobTypes
<1>4. LogsKept
  BY <1>1, <1>3, LogsUnchanged
<1>5. PICK m : /\ channel' = [channel EXCEPT ![r][Peer(r)] = Append(@, m)]
               /\ m.nbytes = cur[r].nbytes /\ m.data = cur[r].data /\ m.seq = g_seq[r] /\ m.intact
               /\ m.sent = Last(g_events[r]).timestamp
  <2> DEFINE m == [comm |-> cur[r].comm, tag |-> cur[r].tag, nbytes |-> cur[r].nbytes,
                   data |-> cur[r].data, seq |-> g_seq[r],
                   sent |-> Last(g_events[r]).timestamp, intact |-> TRUE]
  <2>1. channel' = [channel EXCEPT ![r][Peer(r)] = Append(@, m)]
    BY DEF DoSend
  <2>2. /\ m.nbytes = cur[r].nbytes /\ m.data = cur[r].data /\ m.seq = g_seq[r] /\ m.intact
        /\ m.sent = Last(g_events[r]).timestamp
    OBVIOUS
  <2> HIDE DEF m
  <2> QED BY <2>1, <2>2
<1>6. Carries(r, m)'
  <2>1. Content(r) /\ InCall(r)
    BY DEF ContentInv, MessageInv, CallInv
  <2>2. m.seq \in 1..g_seq[r]
    BY <1>1, <1>5, <2>1 DEF InCall, SendAt
  <2>3. cur[r].data \in Nat
    BY <1>1 DEF Calls
  <2>4. LogOf(r)[g_seq[r]] = Last(g_events[r])
    BY <1>1 DEF LogOf, RankLogs, RankLog, Whole, Last
  <2>5. Carries(r, m)
    BY <1>1, <1>5, <2>1, <2>3, <2>4 DEF Content, Carries, SentData
  <2> QED BY <1>4, <2>2, <2>5, CarriesKept
<1>7. ASSUME NEW s \in Ranks, NEW q \in Ranks, NEW k \in DOMAIN channel'[s][q]
      PROVE  \/ channel'[s][q][k] = m /\ s = r
             \/ \E n \in DOMAIN channel[s][q] : channel'[s][q][k] = channel[s][q][n]
  <2>1. CASE s = r /\ q = Peer(r)
    <3>1. channel[s][q] \in Seq(Message) /\ channel'[s][q] = Append(channel[s][q], m)
      BY <1>5, <2>1 DEF JobTypes
    <3>2. /\ DOMAIN channel[s][q] = 1..Len(channel[s][q]) /\ Len(channel[s][q]) \in Nat
          /\ k \in 1..(Len(channel[s][q]) + 1)
          /\ channel'[s][q][k] = IF k = Len(channel[s][q]) + 1 THEN m ELSE channel[s][q][k]
      BY <3>1
    <3> QED BY <2>1, <3>2
  <2>2. CASE ~(s = r /\ q = Peer(r))
    <3>1. channel'[s][q] = channel[s][q]
      BY <1>5, <2>2 DEF JobTypes
    <3> QED BY <3>1
  <2> QED BY <2>1, <2>2
<1>8. ASSUME NEW s \in Ranks, NEW q \in Ranks, NEW k \in DOMAIN channel'[s][q]
      PROVE  \/ Carries(s, channel[s][q][k])'
             \/ \E n \in DOMAIN channel[s][q] : channel'[s][q][k] = channel[s][q][n]
  <2>1. channel'[s][q][k] = m /\ s = r => Carries(s, channel[s][q][k])'
    BY <1>6 DEF Carries, SentData, LogOf
  <2> QED BY <1>7, <2>1
<1>9. \A s \in Ranks : Content(s)'
  BY <1>1, <1>3, <1>4, ContentKept
<1> QED BY <1>1, <1>4, <1>8, <1>9, ContentsKept

\* MPI hands a message over.
LEMMA DoRecvKeepsContent ==
  ASSUME JobTypes, MessageInv, ContentInv, NEW r \in Ranks, DoRecv(r)
  PROVE  ContentInv'
<1>1. /\ pc[r] = "recv" /\ UNCHANGED <<cur, g_seq, g_events, sent_block, delivered>>
      /\ pc' = [pc EXCEPT ![r] = "after_recv"]
  BY DEF DoRecv, Goto, log, gather
<1>2. PICK s \in Ranks : \E k \in DOMAIN channel[s][r] :
        /\ Take(s, r, k)
        /\ got' = [got EXCEPT ![r] = [source |-> s, tag |-> channel[s][r][k].tag,
                        nbytes |-> channel[s][r][k].nbytes, data |-> channel[s][r][k].data,
                        seq |-> channel[s][r][k].seq, sent |-> channel[s][r][k].sent,
                        intact |-> channel[s][r][k].intact]]
  BY DEF DoRecv
<1>3. PICK k \in DOMAIN channel[s][r] :
        /\ Take(s, r, k)
        /\ got' = [got EXCEPT ![r] = [source |-> s, tag |-> channel[s][r][k].tag,
                        nbytes |-> channel[s][r][k].nbytes, data |-> channel[s][r][k].data,
                        seq |-> channel[s][r][k].seq, sent |-> channel[s][r][k].sent,
                        intact |-> channel[s][r][k].intact]]
  BY <1>2
<1>4. pc'[r] = "after_recv" /\ \A q \in Ranks \ {r} : pc'[q] = pc[q] /\ got'[q] = got[q]
  BY <1>1, <1>3 DEF JobTypes
<1>5. LogsKept
  BY <1>1, <1>4, LogsUnchanged
<1>6. Content(r)'
  <2>1. PICK m : m = channel[s][r][k]
    OBVIOUS
  <2>2. /\ got'[r].source = s /\ got'[r].seq = m.seq /\ got'[r].nbytes = m.nbytes
        /\ got'[r].data = m.data /\ got'[r].intact = m.intact /\ got'[r].sent = m.sent
    BY <1>3, <2>1 DEF JobTypes
  <2>3. Carries(s, m) /\ OnWay(s, r, m)
    BY <2>1 DEF ContentInv, MessageInv, ChannelInv
  <2>4. Carries(s, m)'
    BY <1>5, <2>3, CarriesKept DEF OnWay, SendAt
  <2>5. Carries(got[r].source, got[r])'
    BY <2>2, <2>4 DEF Carries, SentData, LogOf
  <2>6. HashesDiffer => cur'[r].addr # 0
    BY <1>1 DEF ContentInv, Content
  <2> QED BY <1>4, <2>5, <2>6 DEF Content
<1>7. \A q \in Ranks : Content(q)'
  BY <1>1, <1>4, <1>5, <1>6, ContentKept
<1>8. ASSUME NEW p \in Ranks, NEW q \in Ranks, NEW j \in DOMAIN channel'[p][q]
      PROVE  \E m \in DOMAIN channel[p][q] : channel'[p][q][j] = channel[p][q][m]
  BY <1>3, TakeLeaves
<1> QED BY <1>1, <1>5, <1>7, <1>8, ContentsKept

\* The checksum that a receive logs is that of its send exactly if the message was not
\* damaged and filled the buffer.
LEMMA AfterRecvKeepsContent ==
  ASSUME JobTypes, CallsInHand, RankLogs, MessageInv, ContentInv, NEW r \in Ranks, AfterRecv(r)
  PROVE  ContentInv'
<1>1. /\ pc[r] = "after_recv" /\ pc' = [pc EXCEPT ![r] = "run"]
      /\ UNCHANGED <<cur, got, channel, sent_block>>
      /\ g_seq' = [g_seq EXCEPT ![r] = @ + 1]
  BY DEF AfterRecv, Goto, gather, LogEvent
<1>2. PICK e \in Event :
        /\ g_events' = [g_events EXCEPT ![r] = Append(@, e)]
        /\ e.checksum = Checksum(cur[r].addr, got[r].data, got[r].nbytes, cur[r].nbytes)
        /\ e.timestamp = now /\ e.nbytes = cur[r].nbytes
  BY AfterRecvFacts DEF CallsInHand, Writes
<1>3. pc'[r] = "run" /\ \A s \in Ranks \ {r} : pc'[s] = pc[s]
  BY <1>1 DEF JobTypes
<1>4. pc[r] # "finalized" /\ pc'[r] # "finalized"
  BY <1>1, <1>3
<1>5. /\ LogsKept
      /\ g_seq[r] \in Nat /\ g_seq'[r] = g_seq[r] + 1 /\ LogOf(r)'[g_seq[r] + 1] = e
      /\ \A s \in Ranks \ {r} : g_seq'[s] = g_seq[s]
  BY <1>1, <1>2, <1>3, <1>4, LogsAppended
<1>6. PICK d : /\ delivered' = delivered \cup {d}
               /\ d.src = got[r].source /\ d.sseq = got[r].seq /\ d.dst = r /\ d.rseq = g_seq[r] + 1
               /\ d.intact = got[r].intact /\ d.fits = (got[r].nbytes = cur[r].nbytes)
               /\ d.transit = now - got[r].sent
  <2> DEFINE d == [src |-> got[r].source, sseq |-> got[r].seq, dst |-> r, rseq |-> g_seq'[r],
                   intact |-> got[r].intact, fits |-> got[r].nbytes = cur[r].nbytes,
                   transit |-> now - got[r].sent,
                   named |-> cur[r].status \/ ANY \notin {cur[r].peer, cur[r].tag}]
  <2>1. delivered' = delivered \cup {d}
    BY DEF AfterRecv
  <2>2. d.src = got[r].source /\ d.sseq = got[r].seq /\ d.dst = r /\ d.rseq = g_seq[r] + 1
    BY <1>5
  <2>3. /\ d.intact = got[r].intact /\ d.fits = (got[r].nbytes = cur[r].nbytes)
        /\ d.transit = now - got[r].sent
    BY Zenon
  <2> HIDE DEF d
  <2> QED BY <2>1, <2>2, <2>3
<1>7. Tells(d)'
  <2>1. PICK m : m = got[r]
    OBVIOUS
  <2>2. Carries(m.source, m)
    BY <1>1, <2>1 DEF ContentInv, Content
  <2>3. Receipt(r) \in Receipts
    BY <1>1 DEF Receipts
  <2>4. m.source \in Ranks /\ m.seq \in 1..g_seq[m.source]
    BY <2>1, <2>3 DEF MessageInv, ReceiptInv, ReceiptOf, Receipt, SendAt
  <2>5. LogOf(m.source)'[m.seq] = LogOf(m.source)[m.seq]
    BY <1>5, <2>4 DEF LogsKept
  <2>6. m \in Received /\ cur[r] \in Calls
    BY <1>1, <2>1 DEF CallsInHand, CallInHand
  <2>7. m.intact \in BOOLEAN /\ m.data \in Nat /\ m.nbytes \in Nat /\ cur[r].nbytes \in Nat
    BY <2>6 DEF Received, Calls
  <2>8. HashesDiffer =>
          (Hash(SentData(m), m.nbytes, m.nbytes) = Hash(m.data, m.nbytes, cur[r].nbytes)
            <=> m.intact /\ m.nbytes = cur[r].nbytes)
    BY <2>2, <2>7, HashFacts DEF Carries, SentData
  <2>9. HashesDiffer => LogOf(d.src)'[d.sseq].checksum = Hash(SentData(m), m.nbytes, m.nbytes)
    BY <1>6, <2>1, <2>2, <2>5 DEF Carries
  <2>10. HashesDiffer => LogOf(d.dst)'[d.rseq].checksum = Hash(m.data, m.nbytes, cur[r].nbytes)
    <3>1. HashesDiffer => cur[r].addr # 0
      BY <1>1 DEF ContentInv, Content
    <3> QED BY <1>2, <1>5, <1>6, <2>1, <3>1 DEF Checksum, Hash
  <2>11. d.intact = m.intact /\ d.fits = (m.nbytes = cur[r].nbytes)
    BY <1>6, <2>1
  <2> HIDE DEF LogOf
  <2>12. HashesDiffer =>
          (LogOf(d.src)'[d.sseq].checksum = LogOf(d.dst)'[d.rseq].checksum <=> d.intact /\ d.fits)
    BY <2>8, <2>9, <2>10, <2>11
  <2>13. LogOf(d.src)'[d.sseq].timestamp = m.sent /\ LogOf(d.dst)'[d.rseq].timestamp = now
    BY <1>2, <1>5, <1>6, <2>1, <2>2, <2>5 DEF Carries
  <2>14. d.transit = LogOf(d.dst)'[d.rseq].timestamp - LogOf(d.src)'[d.sseq].timestamp
    BY <1>6, <2>1, <2>13
  <2>15. LogOf(d.src)'[d.sseq].nbytes = m.nbytes /\ LogOf(d.dst)'[d.rseq].nbytes = cur[r].nbytes
    BY <1>2, <1>5, <1>6, <2>1, <2>2, <2>5 DEF Carries
  <2>16. LogOf(d.src)'[d.sseq].nbytes = LogOf(d.dst)'[d.rseq].nbytes <=> d.fits
    BY <2>11, <2>15
  <2> QED BY <2>12, <2>14, <2>16 DEF Tells
<1>8. \A s \in Ranks : Content(s)'
  BY <1>1, <1>3, <1>5, ContentKept
<1> QED BY <1>1, <1>5, <1>6, <1>7, <1>8, ContentsKept

\* A message that is damaged still tells what was sent.
LEMMA DamageKeepsContent ==
  ASSUME JobTypes, MessageInv, ContentInv, LogsKept, NEW p \in Ranks, NEW q \in Ranks, Damage(p, q),
         NEW s \in Ranks, NEW r \in Ranks, NEW j \in DOMAIN channel'[s][r]
  PROVE  \/ Carries(s, channel[s][r][j])'
         \/ \E k \in DOMAIN channel[s][r] : channel'[s][r][j] = channel[s][r][k]
<1>1. PICK n \in DOMAIN channel[p][q] :
        /\ channel[p][q][n].intact /\ channel[p][q][n].nbytes > 0
        /\ channel' = [channel EXCEPT ![p][q][n] = Damaged(@)]
  BY DEF Damage
<1>0. PICK m : m = Damaged(channel[p][q][n])
  OBVIOUS
<1>2. channel[p][q] \in Seq(Message) /\ channel[p][q][n] \in Message
  <2>1. channel[p][q] \in Seq(Message)
    BY DEF JobTypes
  <2>2. n \in DOMAIN channel[p][q]
    OBVIOUS
  <2> QED BY <2>1, <2>2
<1>3. /\ m.seq = channel[p][q][n].seq /\ m.nbytes = channel[p][q][n].nbytes
      /\ m.data = channel[p][q][n].data + 1 /\ m.intact = FALSE /\ m.sent = channel[p][q][n].sent
  BY <1>0, <1>2 DEF Message, Damaged
<1>4. channel' = [channel EXCEPT ![p][q] = [@ EXCEPT ![n] = m]]
  BY <1>0, <1>1
<1>5. Carries(p, m)'
  <2>1. PICK x : x = channel[p][q][n]
    OBVIOUS
  <2>2. Carries(p, x) /\ OnWay(p, q, x)
    BY <2>1 DEF ContentInv, MessageInv, ChannelInv
  <2>3. x.data \in Nat
    BY <1>2, <2>1 DEF Message
  <2>4. SentData(m) = SentData(x)
    BY <1>1, <1>3, <2>1, <2>3 DEF SentData
  <2>5. Carries(p, m) /\ m.seq \in 1..g_seq[p]
    BY <1>1, <1>3, <2>1, <2>2, <2>4 DEF Carries, OnWay, SendAt
  <2> QED BY <2>5, CarriesKept
<1>6. CASE s = p /\ r = q
  <2>1. channel'[s][r] = [channel[p][q] EXCEPT ![n] = m]
    BY <1>4, <1>6 DEF JobTypes
  <2>2. channel'[s][r][j] = (IF j = n THEN m ELSE channel[s][r][j]) /\ j \in DOMAIN channel[s][r]
    BY <1>2, <1>6, <2>1
  <2>3. CASE j = n
    BY <1>5, <1>6, <2>2, <2>3 DEF Carries, SentData, LogOf
  <2>4. CASE j # n
    BY <2>2, <2>4
  <2> QED BY <2>3, <2>4
<1>7. CASE ~(s = p /\ r = q)
  <2>1. channel'[s][r] = channel[s][r]
    BY <1>4, <1>7 DEF JobTypes
  <2> QED BY <2>1
<1> QED BY <1>6, <1>7

\* A step of a rank keeps the contents, unless it ends the job.
LEMMA RankStepContent ==
  ASSUME JobTypes, CallsInHand, RankLogs, MessageInv, ContentInv, NEW r \in Ranks, RankStep(r),
         ~RecvAborts(r), ~Stopped(r)
  PROVE  ContentInv'
<1>1. CASE Quiet(r)
  <2>1. /\ LogsKept /\ UNCHANGED <<channel, got, g_seq, delivered>>
        /\ pc'[r] \notin {"send", "after_recv"}
        /\ pc'[r] = "recv" => \E c \in Options(r) : BeginRecv(r, c)
        /\ \A s \in Ranks \ {r} : pc'[s] = pc[s] /\ cur'[s] = cur[s]
    BY <1>1, QuietSteps
  <2>2. \A s \in Ranks \ {r} : Content(s)'
    BY <2>1, ContentKept
  <2>3. pc'[r] = "recv" /\ HashesDiffer => cur'[r].addr # 0
    <3> SUFFICES ASSUME pc'[r] = "recv", HashesDiffer PROVE cur'[r].addr # 0
      OBVIOUS
    <3>1. PICK c \in Options(r) : BeginRecv(r, c)
      BY <2>1
    <3>2. c.op = "Recv" /\ cur'[r] = c
      BY <3>1 DEF BeginRecv, Call, JobTypes
    <3> QED BY <3>2, OptionsAreShort
  <2>4. Content(r)'
    BY <2>1, <2>3 DEF Content
  <2> QED BY <2>1, <2>2, <2>4, ContentsKept
<1>2. CASE \E c \in Options(r) : BeginSend(r, c) \/ BeginColl(r, c)
  BY <1>2, BeginKeepsContent
<1>3. CASE DoSend(r) \/ DoRecv(r) \/ AfterRecv(r)
  BY <1>3, DoSendKeepsContent, DoRecvKeepsContent, AfterRecvKeepsContent
<1> QED BY <1>1, <1>2, <1>3 DEF RankStep, Quiet

\* So does every step of the job.
LEMMA JobStepContent ==
  ASSUME JobTypes, CallsInHand, RankLogs, MessagesLive, ContentLive, JobNext
  PROVE  ContentLive'
<1> SUFFICES ASSUME Collecting' PROVE ContentInv'
  BY DEF ContentLive
<1>1. CASE \E r \in Ranks : RankStep(r) /\ UNCHANGED setting
  <2>1. PICK r \in Ranks : RankStep(r)
    BY <1>1
  <2>2. Collecting /\ ~RecvAborts(r) /\ ~Stopped(r)
    BY <2>1, RankStepIsEarly
  <2> QED BY <2>1, <2>2, RankStepContent DEF MessagesLive, ContentLive
<1>2. CASE \/ (Gather \/ Layout \/ Gatherv \/ AnalysisReturns) /\ UNCHANGED setting
           \/ Network /\ UNCHANGED setting
           \/ Tick
           \/ UNCHANGED jobvars
  <2>1. /\ Collecting
        /\ UNCHANGED <<cur, got, g_seq, g_events, sent_block, delivered>>
        /\ UNCHANGED channel \/ Network
        /\ \A s \in Ranks : pc'[s] = pc[s] \/ (s = 0 /\ pc[s] \in {"gather", "layout"} /\ pc'[s] = "layout")
    BY <1>2, OtherStepsAreEarly
  <2>2. MessageInv /\ ContentInv
    BY <2>1 DEF MessagesLive, ContentLive
  <2>3. LogsKept
    BY <2>1, LogsUnchanged
  <2>4. \A s \in Ranks : Content(s)'
    BY <2>1, <2>2, <2>3, ContentKept
  <2>5. CASE UNCHANGED channel
    BY <2>1, <2>2, <2>3, <2>4, <2>5, ContentsKept
  <2>6. CASE Network
    <3>1. PICK p, q \in Ranks : Damage(p, q)
      BY <2>6 DEF Network
    <3>2. ASSUME NEW s \in Ranks, NEW r \in Ranks, NEW j \in DOMAIN channel'[s][r]
          PROVE  \/ Carries(s, channel[s][r][j])'
                 \/ \E k \in DOMAIN channel[s][r] : channel'[s][r][j] = channel[s][r][k]
      BY <2>2, <2>3, <3>1, DamageKeepsContent
    <3> QED BY <2>1, <2>2, <2>3, <2>4, <3>2, ContentsKept
  <2> QED BY <2>1, <2>5, <2>6
<1> QED BY <1>1, <1>2 DEF JobNext

\* At the start there are none.
LEMMA InitContent == JobInit => ContentLive
<1> SUFFICES ASSUME JobInit PROVE ContentInv
  BY DEF ContentLive
<1>1. /\ pc = [r \in Ranks |-> "start"] /\ delivered = {}
      /\ channel = [s \in Ranks |-> [r \in Ranks |-> <<>>]]
  BY DEF JobInit
<1>2. \A s, r \in Ranks : DOMAIN channel[s][r] = {}
  BY <1>1
<1>3. \A r \in Ranks : Content(r)
  BY <1>1 DEF Content
<1> QED BY <1>1, <1>2, <1>3 DEF ContentInv

\* What the array tells of the contents: the two events of a delivery have one checksum
\* exactly if nothing happened to the message and it had the size of the buffer, one size
\* exactly if it had that, and they are apart by the time that the message was on its way.
ArrayTells(j, k, d) ==
    /\ HashesDiffer => (all[j].checksum = all[k].checksum <=> d.intact /\ d.fits)
    /\ all[j].nbytes = all[k].nbytes <=> d.fits
    /\ d.transit = all[k].timestamp - all[j].timestamp
Contents ==
    /\ \A d \in delivered : \A j, k \in Positions :
          At(j, d.src, d.sseq) /\ At(k, d.dst, d.rseq) => ArrayTells(j, k, d)
    /\ \A d, e \in delivered : d.dst = e.dst /\ d.rseq = e.rseq => d = e

ContentsInArray == pc[0] \in {"analyze", "finalized"} => Contents

\* It is there when the analysis starts, and stays.
LEMMA ContentsStep ==
  ASSUME LogsFit, JobTypes, RankLogs, RootInv, ContentLive, ContentsInArray, [Next]_sysvars
  PROVE  ContentsInArray'
<1> SUFFICES ASSUME pc'[0] \in {"analyze", "finalized"} PROVE Contents'
  BY DEF ContentsInArray
<1>1. CASE StartAnalysis
  <2>1. /\ Gatherv /\ all' = Collected /\ pc[0] = "layout" /\ delivered' = delivered
        /\ \A r \in Ranks \ {0} : pc[r] = "finalized"
    BY <1>1 DEF StartAnalysis, Analyze, Gatherv
  <2>2. ContentInv
    BY <2>1 DEF ContentLive, Collecting
  <2>3. PICK off : /\ LogsJoined(Collected, off)
                   /\ \A r \in Ranks : \A n \in 1..g_seq[r] : Collected[off[r] + n] = LogOf(r)[n]
    BY <2>1, CollectedIsJoined
  <2>4. PICK a : a = Collected
    OBVIOUS
  <2>5. /\ LogsJoined(a, off) /\ all' = a
        /\ \A r \in Ranks : \A n \in 1..g_seq[r] : a[off[r] + n] = LogOf(r)[n]
    BY <2>1, <2>3, <2>4
  <2>6. \A k \in 1..Len(a) : a[k] = LogOf(a[k].rank)[a[k].seq]
    BY <2>5, JoinedEvents
  <2>7. Positions' = 1..Len(a) /\ \A k, r, n : At(k, r, n)' <=> a[k].rank = r /\ a[k].seq = n
    BY <2>5 DEF Positions, At
  <2>8. ASSUME NEW d \in delivered, NEW j \in 1..Len(a), NEW k \in 1..Len(a),
               a[j].rank = d.src, a[j].seq = d.sseq, a[k].rank = d.dst, a[k].seq = d.rseq
        PROVE  /\ HashesDiffer => (a[j].checksum = a[k].checksum <=> d.intact /\ d.fits)
               /\ a[j].nbytes = a[k].nbytes <=> d.fits
               /\ d.transit = a[k].timestamp - a[j].timestamp
    <3>1. Tells(d)
      BY <2>2 DEF ContentInv
    <3>2. a[j] = LogOf(d.src)[d.sseq] /\ a[k] = LogOf(d.dst)[d.rseq]
      BY <2>6, <2>8
    <3> QED BY <3>1, <3>2 DEF Tells
  <2>9. \A d, e \in delivered : d.dst = e.dst /\ d.rseq = e.rseq => d = e
    BY <2>2 DEF ContentInv
  <2> QED BY <2>1, <2>5, <2>7, <2>8, <2>9 DEF Contents, ArrayTells
<1>2. CASE pc[0] \in {"analyze", "finalized"} /\ UNCHANGED <<all, g_seq, delivered>>
  BY <1>2 DEF ContentsInArray, Contents, ArrayTells, Positions, At
<1> QED BY <1>1, <1>2, ArrayStays

\* For all programs on such communicators: each message on its way carries what the
\* checksum in its send's event was computed of, or is known to be damaged, and the time
\* of that event; and of the two events of a delivery the array has the times between which
\* the message was on its way, equal sizes exactly if it was no misfit, and, where hashes
\* differ, equal checksums exactly if it was neither damaged nor a misfit.
THEOREM ContentsAreLogged ==
  ASSUME LogsFit, OnWorld
  PROVE  Spec => [](ContentLive /\ ContentsInArray)
<1>1. Init => ContentLive /\ ContentsInArray
  BY InitContent, ZeroIsRank DEF Init, JobInit, ContentsInArray
<1>2. (JobTypes /\ CallsInHand /\ RankLogs /\ RootInv) /\ MessagesLive
        /\ (ContentLive /\ ContentsInArray) /\ [Next]_sysvars
        => (ContentLive /\ ContentsInArray)'
  BY NextIsJobNext, JobStepContent, ContentsStep
<1> QED BY <1>1, <1>2, LayoutIsRight, MessagesAreLogged, PTL DEF Spec

\* Receive k is matched with the send whose message it got in delivery d.
Meets(k, d) == At(k, d.dst, d.rseq) /\ At(partner[k], d.src, d.sseq)

\* Once the pairs are the deliveries they correspond one to one.
LEMMA PairsMeetDeliveries ==
  ASSUME MTypeOK, Transits, Contents, MatchedEvents = Deliveries
  PROVE  /\ \A k \in Matched : \E d \in delivered : Meets(k, d)
         /\ \A d \in delivered : \E k \in Matched : Meets(k, d)
         /\ \A k, l \in Matched : \A d, e \in delivered : Meets(k, d) /\ Meets(l, e) => (k = l <=> d = e)
         /\ \A k \in Matched : \A d \in delivered : Meets(k, d) => ArrayTells(partner[k], k, d)
<1>1. \A k \in Matched : k \in Positions /\ partner[k] \in Positions
  BY DEF MTypeOK, Matched, Positions
<1>2. ASSUME NEW k \in Matched
      PROVE  \E d \in delivered : Meets(k, d)
  <2>1. [src |-> all[partner[k]].rank, sseq |-> all[partner[k]].seq,
         dst |-> all[k].rank, rseq |-> all[k].seq] \in Deliveries
    BY DEF MatchedEvents
  <2>2. PICK d \in delivered : /\ d.src = all[partner[k]].rank /\ d.sseq = all[partner[k]].seq
                               /\ d.dst = all[k].rank /\ d.rseq = all[k].seq
    BY <2>1 DEF Deliveries
  <2> QED BY <2>2 DEF At, Meets
<1>3. ASSUME NEW d \in delivered
      PROVE  \E k \in Matched : Meets(k, d)
  <2>1. [src |-> d.src, sseq |-> d.sseq, dst |-> d.dst, rseq |-> d.rseq] \in MatchedEvents
    BY DEF Deliveries
  <2>2. PICK k \in Matched : /\ d.src = all[partner[k]].rank /\ d.sseq = all[partner[k]].seq
                             /\ d.dst = all[k].rank /\ d.rseq = all[k].seq
    BY <2>1 DEF MatchedEvents
  <2> QED BY <2>2 DEF At, Meets
<1>4. ASSUME NEW k \in Matched, NEW l \in Matched, NEW d \in delivered, NEW e \in delivered,
             Meets(k, d), Meets(l, e)
      PROVE  k = l <=> d = e
  <2>1. /\ k \in Positions /\ l \in Positions
        /\ all[k].rank = d.dst /\ all[k].seq = d.rseq /\ all[l].rank = e.dst /\ all[l].seq = e.rseq
    BY <1>1, <1>4 DEF At, Meets
  <2>2. k = l => d = e
    BY <2>1 DEF Contents
  <2>3. d = e => k = l
    BY <2>1 DEF Transits
  <2> QED BY <2>2, <2>3
<1>5. ASSUME NEW k \in Matched, NEW d \in delivered, Meets(k, d)
      PROVE  ArrayTells(partner[k], k, d)
  BY <1>1, <1>5 DEF Contents, Meets
<1> QED BY <1>2, <1>3, <1>4, <1>5

\* Pairs with a property are as many as deliveries with a property if the two go together.
LEMMA AsManyDeliveries ==
  ASSUME MTypeOK, Transits, Contents, MatchedEvents = Deliveries,
         NEW P \in SUBSET Matched, NEW D \in SUBSET delivered,
         \A k \in Matched : \A d \in delivered : Meets(k, d) => (k \in P <=> d \in D)
  PROVE  Cardinality(P) = Cardinality(D)
<1> DEFINE R == {x \in Matched \X delivered : Meets(x[1], x[2])}
<1>1. IsFiniteSet(P)
  BY FiniteParts DEF Matched
<1>2. /\ \A k \in P : \E d \in D : <<k, d>> \in R
      /\ \A d \in D : \E k \in P : <<k, d>> \in R
      /\ \A k, l \in P : \A d, e \in D : <<k, d>> \in R /\ <<l, e>> \in R => (k = l <=> d = e)
  BY PairsMeetDeliveries
<1> HIDE DEF R
<1> QED BY ONLY <1>1, <1>2, SameSize

\* The ticks between the events of the pairs are as many as those of the deliveries.
LEMMA AsManyTicks ==
  ASSUME MTypeOK, CountInv, Transits, Contents, MatchedEvents = Deliveries
  PROVE  Cardinality(LatTicks) = Cardinality(UNION {Ticks(d) : d \in delivered})
<1> DEFINE T == UNION {Ticks(d) : d \in delivered}
           R == {x \in LatTicks \X T : Meets(x[1][1], x[2][1]) /\ x[1][2] = x[2][2]}
<1>1. \A x : x \in LatTicks <=> \E k \in Matched : \E n \in 1..Gap(k) : x = <<k, n>>
  BY DEF LatTicks, GapTicks
<1>2. \A y : y \in T <=> \E d \in delivered : \E n \in 1..d.transit : y = <<d, n>>
  BY DEF Ticks
<1>3. \A k \in Matched : \A d \in delivered : Meets(k, d) => Gap(k) = d.transit
  BY PairsMeetDeliveries DEF ArrayTells, Gap
<1>4. IsFiniteSet(LatTicks)
  BY DEF CountInv
<1> HIDE DEF T
<1>5. ASSUME NEW x \in LatTicks
      PROVE  \E y \in T : <<x, y>> \in R
  <2>1a. PICK k \in Matched : \E n \in 1..Gap(k) : x = <<k, n>>
    BY <1>1
  <2>1. PICK n \in 1..Gap(k) : x = <<k, n>>
    BY <2>1a
  <2>2. PICK d \in delivered : Meets(k, d)
    BY PairsMeetDeliveries
  <2>3. <<d, n>> \in T
    BY <1>2, <1>3, <2>1, <2>2
  <2> QED BY <2>1, <2>2, <2>3
<1>6. ASSUME NEW y \in T
      PROVE  \E x \in LatTicks : <<x, y>> \in R
  <2>1a. PICK d \in delivered : \E n \in 1..d.transit : y = <<d, n>>
    BY <1>2
  <2>1. PICK n \in 1..d.transit : y = <<d, n>>
    BY <2>1a
  <2>2. PICK k \in Matched : Meets(k, d)
    BY PairsMeetDeliveries
  <2>3. <<k, n>> \in LatTicks
    BY <1>1, <1>3, <2>1, <2>2
  <2> QED BY <2>1, <2>2, <2>3
<1>7. ASSUME NEW x \in LatTicks, NEW v \in LatTicks, NEW y \in T, NEW w \in T,
             <<x, y>> \in R, <<v, w>> \in R
      PROVE  x = v <=> y = w
  <2>1a. PICK k \in Matched : \E n \in 1..Gap(k) : x = <<k, n>>
    BY <1>1
  <2>1. PICK n \in 1..Gap(k) : x = <<k, n>>
    BY <2>1a
  <2>2a. PICK l \in Matched : \E m \in 1..Gap(l) : v = <<l, m>>
    BY <1>1
  <2>2. PICK m \in 1..Gap(l) : v = <<l, m>>
    BY <2>2a
  <2>3a. PICK d \in delivered : \E n2 \in 1..d.transit : y = <<d, n2>>
    BY <1>2
  <2>3. PICK n2 \in 1..d.transit : y = <<d, n2>>
    BY <2>3a
  <2>4a. PICK e \in delivered : \E m2 \in 1..e.transit : w = <<e, m2>>
    BY <1>2
  <2>4. PICK m2 \in 1..e.transit : w = <<e, m2>>
    BY <2>4a
  <2>5. Meets(k, d) /\ n = n2 /\ Meets(l, e) /\ m = m2
    BY <1>7, <2>1, <2>2, <2>3, <2>4
  <2>6. k = l <=> d = e
    BY <2>5, PairsMeetDeliveries
  <2> QED BY <2>1, <2>2, <2>3, <2>4, <2>5, <2>6
<1> HIDE DEF R
<1>8. Cardinality(T) = Cardinality(LatTicks)
  <2>1. \A x \in LatTicks : \E y \in T : <<x, y>> \in R
    BY <1>5
  <2>2. \A y \in T : \E x \in LatTicks : <<x, y>> \in R
    BY <1>6
  <2>3. \A x, v \in LatTicks : \A y, w \in T : <<x, y>> \in R /\ <<v, w>> \in R => (x = v <=> y = w)
    BY <1>7
  <2> QED BY ONLY <1>4, <2>1, <2>2, <2>3, SameSize
<1> QED BY <1>8 DEF T

\* For all such programs and every number of ranks: when the events name what was
\* received, integrity violations are counted for exactly the messages that were damaged
\* on their way or did not have the size of the receive buffer.
THEOREM IntegrityIsOfDamagedAndMisfits ==
  ASSUME LogsFit, OnWorld, HashesDiffer
  PROVE  Spec => []IntegrityIsDamageOrMisfit
<1>1. /\ EndOfAnalysis /\ PairsAreDeliveries /\ ContentsInArray
      /\ (phase # "idle" => pc[0] \in {"analyze", "finalized"})
      => IntegrityIsDamageOrMisfit
  <2> SUFFICES ASSUME EndOfAnalysis, PairsAreDeliveries, ContentsInArray,
                      phase # "idle" => pc[0] \in {"analyze", "finalized"}, Reported, Unresolved = {}
               PROVE  integrity_count = Cardinality({d \in delivered : ~d.intact \/ ~d.fits})
    BY DEF IntegrityIsDamageOrMisfit
  <2>1. phase = "done" /\ MTypeOK /\ Transits /\ Contents
    BY DEF EndOfAnalysis, EndInv, Reported, ContentsInArray
  <2>2. MatchedEvents = Deliveries
    BY DEF PairsAreDeliveries
  <2>3. integrity_count = Cardinality(SumDiff)
    BY DEF EndOfAnalysis, CountInv
  <2> DEFINE bad == {d \in delivered : ~d.intact \/ ~d.fits}
  <2>4. \A k \in Matched : \A d \in delivered : Meets(k, d) => (k \in SumDiff <=> d \in bad)
    BY <2>1, <2>2, PairsMeetDeliveries DEF ArrayTells, SumDiff
  <2>5. SumDiff \in SUBSET Matched /\ bad \in SUBSET delivered
    BY DEF SumDiff
  <2> HIDE DEF bad
  <2>6. Cardinality(SumDiff) = Cardinality(bad)
    BY <2>1, <2>2, <2>4, <2>5, AsManyDeliveries
  <2> QED BY <2>3, <2>6 DEF bad
<1> QED BY <1>1, SystemEnds, PairsAreTheDeliveries, ContentsAreLogged, ReportedIsAnalysed, PTL

\* For all programs on such communicators and every number of ranks: when the events name
\* what was received, the latency that is reported is the time that the messages were on
\* their way, and the number it is divided by is that of the messages that took any.
THEOREM LatenciesAreTransits ==
  ASSUME LogsFit, OnWorld
  PROVE  Spec => []LatencyIsTransit
<1>1. /\ EndOfAnalysis /\ PairsAreDeliveries /\ ContentsInArray
      /\ (phase # "idle" => pc[0] \in {"analyze", "finalized"})
      => LatencyIsTransit
  <2> DEFINE late == {d \in delivered : d.transit > 0}
  <2> SUFFICES ASSUME EndOfAnalysis, PairsAreDeliveries, ContentsInArray,
                      phase # "idle" => pc[0] \in {"analyze", "finalized"}, Reported, Unresolved = {}
               PROVE  /\ total_lat = Cardinality(UNION {Ticks(d) : d \in delivered})
                      /\ lat_count = Cardinality(late)
    BY DEF LatencyIsTransit
  <2>1. phase = "done" /\ MTypeOK /\ CountInv /\ Transits /\ Contents
    BY DEF EndOfAnalysis, EndInv, Reported, ContentsInArray
  <2>2. MatchedEvents = Deliveries
    BY DEF PairsAreDeliveries
  <2>3. lat_count = Cardinality(LatDiff) /\ total_lat = Cardinality(LatTicks)
    BY <2>1 DEF CountInv
  <2>4. \A k \in Matched : partner[k] \in Positions /\ k \in Positions
    BY <2>1 DEF MTypeOK, Matched, Positions
  <2>5. \A k \in Matched : \A d \in delivered : Meets(k, d) => (k \in LatDiff <=> d \in late)
    <3>1. \A k \in Matched : all[k].timestamp \in Int /\ all[partner[k]].timestamp \in Int
      BY <2>1, <2>4, Bounds
    <3>2. \A k \in Matched : \A d \in delivered :
             Meets(k, d) => d.transit = all[k].timestamp - all[partner[k]].timestamp
      BY <2>1, <2>2, PairsMeetDeliveries DEF ArrayTells
    <3> QED BY <3>1, <3>2 DEF LatDiff
  <2>6. LatDiff \in SUBSET Matched /\ late \in SUBSET delivered
    BY DEF LatDiff
  <2> HIDE DEF late
  <2>7. Cardinality(LatDiff) = Cardinality(late)
    BY <2>1, <2>2, <2>5, <2>6, AsManyDeliveries
  <2>8. Cardinality(LatTicks) = Cardinality(UNION {Ticks(d) : d \in delivered})
    BY <2>1, <2>2, AsManyTicks
  <2> QED BY <2>3, <2>7, <2>8
<1> QED BY <1>1, SystemEnds, PairsAreTheDeliveries, ContentsAreLogged, ReportedIsAnalysed, PTL

\* A size mismatch stands for a message that did not have the size of the buffer that
\* it was received in.
SizeMismatchIsMisfit ==
    Reported /\ Unresolved = {} => size_mismatch_count = Cardinality({d \in delivered : ~d.fits})

\* For all programs on such communicators and every number of ranks: when the events name
\* what was received, size mismatches are counted for exactly the messages that were
\* shorter or longer than the receive buffer (detector.c 302-305).
THEOREM SizesAreOfMisfits ==
  ASSUME LogsFit, OnWorld
  PROVE  Spec => []SizeMismatchIsMisfit
<1>1. /\ EndOfAnalysis /\ PairsAreDeliveries /\ ContentsInArray
      /\ (phase # "idle" => pc[0] \in {"analyze", "finalized"})
      => SizeMismatchIsMisfit
  <2> DEFINE bad == {d \in delivered : ~d.fits}
  <2> SUFFICES ASSUME EndOfAnalysis, PairsAreDeliveries, ContentsInArray,
                      phase # "idle" => pc[0] \in {"analyze", "finalized"}, Reported, Unresolved = {}
               PROVE  size_mismatch_count = Cardinality(bad)
    BY DEF SizeMismatchIsMisfit
  <2>1. phase = "done" /\ MTypeOK /\ Transits /\ Contents
    BY DEF EndOfAnalysis, EndInv, Reported, ContentsInArray
  <2>2. MatchedEvents = Deliveries
    BY DEF PairsAreDeliveries
  <2>3. size_mismatch_count = Cardinality(SizeDiff)
    BY DEF EndOfAnalysis, CountInv
  <2>4. \A k \in Matched : \A d \in delivered : Meets(k, d) => (k \in SizeDiff <=> d \in bad)
    BY <2>1, <2>2, PairsMeetDeliveries DEF ArrayTells, SizeDiff
  <2>5. SizeDiff \in SUBSET Matched /\ bad \in SUBSET delivered
    BY DEF SizeDiff
  <2> HIDE DEF bad
  <2>6. Cardinality(SizeDiff) = Cardinality(bad)
    BY <2>1, <2>2, <2>4, <2>5, AsManyDeliveries
  <2> QED BY <2>3, <2>6
<1> QED BY <1>1, SystemEnds, PairsAreTheDeliveries, ContentsAreLogged, ReportedIsAnalysed, PTL

-----------------------------------------------------------------------------
(* The silent report, read as a statement about the run.                    *)

\* Where the pairs are the deliveries, two events are of one delivery exactly if they
\* are paired.
LEMMA DeliversIsPaired ==
  ASSUME MTypeOK, Transits, MatchedEvents = Deliveries
  PROVE  \A j, k \in Positions : Delivers(j, k) <=> k \in Matched /\ partner[k] = j
<1>1. \A k \in Matched : k \in Positions /\ partner[k] \in Positions
  BY DEF MTypeOK, Matched, Positions
<1>2. ASSUME NEW j \in Positions, NEW k \in Positions, Delivers(j, k)
      PROVE  k \in Matched /\ partner[k] = j
  <2>1. PICK e \in MatchedEvents : At(j, e.src, e.sseq) /\ At(k, e.dst, e.rseq)
    BY <1>2 DEF Delivers
  <2>2. PICK l \in Matched : /\ e.src = all[partner[l]].rank /\ e.sseq = all[partner[l]].seq
                             /\ e.dst = all[l].rank /\ e.rseq = all[l].seq
    BY DEF MatchedEvents
  <2>3. l = k /\ partner[l] = j
    BY <1>1, <2>1, <2>2 DEF At, Transits
  <2> QED BY <2>3
<1>3. ASSUME NEW k \in Matched
      PROVE  Delivers(partner[k], k)
  <2>1. PICK e \in Deliveries :
          e = [src |-> all[partner[k]].rank, sseq |-> all[partner[k]].seq,
               dst |-> all[k].rank, rseq |-> all[k].seq]
    BY DEF MatchedEvents
  <2>2. At(partner[k], e.src, e.sseq) /\ At(k, e.dst, e.rseq)
    BY <2>1 DEF At
  <2> QED BY <2>2 DEF Delivers
<1> QED BY <1>2, <1>3

\* Nothing is unmatched exactly if nothing is unresolved or on its way.
LEMMA NothingUnmatched ==
  ASSUME MTypeOK, Links, Transits,
         unmatched_recv_count = Cardinality(Unresolved),
         unmatched_send_count = Cardinality(InTransit) + Cardinality(Unresolved)
  PROVE  unmatched_send_count = 0 /\ unmatched_recv_count = 0 <=> Unresolved = {} /\ InTransit = {}
<1>1. Unresolved \in SUBSET Positions
  BY DEF Unresolved, Positions, MTypeOK
<1>2. IsFiniteSet(Unresolved) /\ Cardinality(Unresolved) \in Nat
  BY <1>1, FiniteParts
<1>3. IsFiniteSet(InTransit) /\ Cardinality(InTransit) \in Nat
  BY SendsAndTransits, FS_CardinalityType
<1>4. /\ Cardinality(Unresolved) = 0 <=> Unresolved = {}
      /\ Cardinality(InTransit) = 0 <=> InTransit = {}
  BY <1>2, <1>3, FS_EmptySet
<1> QED BY <1>2, <1>3, <1>4

\* No pair differs exactly if all that was delivered was as it was sent.
LEMMA NothingDiffers ==
  ASSUME HashesDiffer, MTypeOK, CountInv, Transits, Contents, MatchedEvents = Deliveries
  PROVE  type_mismatch_count = 0 /\ size_mismatch_count = 0 /\ integrity_count = 0
            <=> (\A d \in delivered : d.intact /\ d.fits) /\ TypesAgree
<1>1. /\ type_mismatch_count = 0 <=> TypeDiff = {}
      /\ size_mismatch_count = 0 <=> SizeDiff = {}
      /\ integrity_count = 0 <=> SumDiff = {}
  <2>1. /\ TypeDiff \in SUBSET Positions /\ SizeDiff \in SUBSET Positions
        /\ SumDiff \in SUBSET Positions
    BY DEF TypeDiff, SizeDiff, SumDiff, Matched
  <2>2. \A S \in SUBSET Positions : Cardinality(S) = 0 <=> S = {}
    BY FiniteParts, FS_EmptySet
  <2> QED BY <2>1, <2>2 DEF CountInv
<1>2. /\ \A k \in Matched : \E d \in delivered : Meets(k, d)
      /\ \A d \in delivered : \E k \in Matched : Meets(k, d)
      /\ \A k \in Matched : \A d \in delivered : Meets(k, d) => ArrayTells(partner[k], k, d)
  BY PairsMeetDeliveries
<1>3. SumDiff = {} /\ SizeDiff = {} <=> \A d \in delivered : d.intact /\ d.fits
  <2>1. ASSUME SumDiff = {}, SizeDiff = {}, NEW d \in delivered
        PROVE  d.intact /\ d.fits
    <3>1. PICK k \in Matched : Meets(k, d)
      BY <1>2
    <3>2. all[partner[k]].checksum = all[k].checksum
      BY <2>1 DEF SumDiff
    <3> QED BY <1>2, <3>1, <3>2 DEF ArrayTells
  <2>2. ASSUME \A d \in delivered : d.intact /\ d.fits, NEW k \in Matched
        PROVE  k \notin SumDiff /\ k \notin SizeDiff
    <3>1. PICK d \in delivered : Meets(k, d)
      BY <1>2
    <3>2. ArrayTells(partner[k], k, d) /\ d.intact /\ d.fits
      BY <1>2, <2>2, <3>1
    <3> QED BY <3>2 DEF ArrayTells, SumDiff, SizeDiff
  <2> QED BY <2>1, <2>2 DEF SumDiff, SizeDiff
<1>4. TypeDiff = {} <=> TypesAgree
  <2>1. \A k \in Matched : k \in Positions /\ partner[k] \in Positions
    BY DEF MTypeOK, Matched, Positions
  <2>2. TypesAgree <=> \A k \in Matched : all[partner[k]].type_name = all[k].type_name
    BY <2>1, DeliversIsPaired DEF TypesAgree
  <2> QED BY <2>2 DEF TypeDiff
<1> QED BY <1>1, <1>3, <1>4

\* For all programs on such communicators whose messages are shorter than the numbers that
\* stand for hashes can tell, and every number of ranks: a report that is silent about
\* mismatches and unmatched events means that the run was clean, and a clean run gets
\* such a report (detector.c 453-494).
THEOREM CleanRunIsSilent ==
  ASSUME LogsFit, OnWorld, HashesDiffer
  PROVE  Spec => []SilentIffCleanRun
<1>1. /\ EndOfAnalysis /\ PairsAreDeliveries /\ UnmatchedIsUndelivered /\ ContentsInArray
      /\ (phase # "idle" => pc[0] \in {"analyze", "finalized"})
      /\ ReportTells /\ sstep \in {"idle", "done"} /\ CTypeOK /\ VerdictExact /\ SilentIffClean
      => SilentIffCleanRun
  <2> SUFFICES ASSUME EndOfAnalysis, PairsAreDeliveries, UnmatchedIsUndelivered, ContentsInArray,
                      phase # "idle" => pc[0] \in {"analyze", "finalized"},
                      ReportTells, sstep \in {"idle", "done"}, CTypeOK, VerdictExact, SilentIffClean,
                      NEW r \in report, NoneCallsMore
               PROVE  /\ CleanRun <=>
                           /\ r.type_mismatch = 0 /\ r.size_mismatch = 0 /\ r.integrity_violation = 0
                           /\ r.collective_mismatch = 0 /\ r.unmatched_sends = 0
                           /\ r.unmatched_recvs = 0
                      /\ CleanRun => r.deadlock_detected = 0 /\ r.timeout_warning = 0
    BY DEF SilentIffCleanRun
  <2>1. Reported /\ phase = "done" /\ cstep = "done"
    BY DEF ReportTells, Reported
  <2>2. MTypeOK /\ CountInv /\ Links /\ Transits /\ Contents
    BY <2>1 DEF EndOfAnalysis, ContentsInArray
  <2>3. unmatched_send_count = 0 /\ unmatched_recv_count = 0 <=> Unresolved = {} /\ InTransit = {}
    BY <2>1, <2>2, NothingUnmatched DEF UnmatchedIsUndelivered
  <2>4. ASSUME Unresolved = {}
        PROVE  type_mismatch_count = 0 /\ size_mismatch_count = 0 /\ integrity_count = 0
                  <=> (\A d \in delivered : d.intact /\ d.fits) /\ TypesAgree
    BY <2>1, <2>2, <2>4, NothingDiffers DEF PairsAreDeliveries
  <2>5. CallsAgree <=> coll_mismatch_count = 0
    BY <2>1, SameCallsAreSilent DEF CallsAgree
  <2>6. /\ r.type_mismatch = type_mismatch_count /\ r.size_mismatch = size_mismatch_count
        /\ r.integrity_violation = integrity_count /\ r.collective_mismatch = coll_mismatch_count
        /\ r.unmatched_sends = unmatched_send_count /\ r.unmatched_recvs = unmatched_recv_count
    BY DEF ReportTells
  <2>7. CleanRun <=>
             /\ r.type_mismatch = 0 /\ r.size_mismatch = 0 /\ r.integrity_violation = 0
             /\ r.collective_mismatch = 0 /\ r.unmatched_sends = 0 /\ r.unmatched_recvs = 0
    BY <2>3, <2>4, <2>5, <2>6 DEF CleanRun
  <2> QED BY <2>7 DEF SilentIffClean
<1> QED BY <1>1, SystemEnds, PairsAreTheDeliveries, UnmatchedAreUndelivered, ContentsAreLogged,
           ReportedIsAnalysed, SystemAnalyses, DetectorMatches, DetectorChecks, DetectorConcludes,
           ReportIsCounters, CollectiveTypeCorrect, VerdictIsExact, CleanIsSilent, PTL

-----------------------------------------------------------------------------
(* What a step of the system may never do.                                  *)

\* Nothing that was logged is lost or changed until rank 0 frees its log, although the
\* other ranks free theirs when they hand it to MPI (runtime.c 197-211); no receipt is
\* forgotten; and the analysis leaves its argument as it was, with no log behind it that
\* goes on.
NothingIsLost ==
    /\ pc'[0] # "finalized" => LogsKept
    /\ delivered \subseteq delivered'
    /\ pc[0] \in {"analyze", "finalized"} => UNCHANGED <<all, g_seq, delivered>>

\* A step of a rank loses no event.
LEMMA RankStepKeepsLogs ==
  ASSUME JobTypes, CallsInHand, RankLogs, NEW r \in Ranks, RankStep(r)
  PROVE  LogsKept /\ delivered \subseteq delivered'
<1>1. CASE Quiet(r)
  BY <1>1, QuietSteps
<1>2. CASE \E c \in Options(r) : BeginSend(r, c) \/ BeginColl(r, c)
  <2>1. PICK c \in Options(r) : BeginSend(r, c) \/ BeginColl(r, c)
    BY <1>2
  <2>2. /\ pc[r] = "run" /\ UNCHANGED <<sent_block, delivered>>
        /\ \E l \in {"send", "coll"} : pc' = [pc EXCEPT ![r] = l]
    BY <2>1 DEF BeginSend, BeginColl, Call, Goto, gather
  <2>3. pc'[r] # "finalized" /\ \A s \in Ranks \ {r} : pc'[s] = pc[s]
    BY <2>2 DEF JobTypes
  <2>4. Logs(r)
    BY <2>1, BeginFacts
  <2> QED BY <2>2, <2>3, <2>4, LogsAppended DEF Logs
<1>3. CASE DoSend(r) \/ DoRecv(r) \/ RecvAborts(r) \/ Stopped(r)
  <2>1. /\ pc[r] # "finalized" /\ UNCHANGED <<g_seq, g_events, sent_block, delivered>>
        /\ \E l \in {"run", "sync", "after_recv", "aborted"} : pc' = [pc EXCEPT ![r] = l]
    BY <1>3 DEF DoSend, DoRecv, RecvAborts, Stopped, Goto, log, gather
  <2>2. \A s \in Ranks : pc'[s] = "finalized" <=> pc[s] = "finalized"
    BY <2>1 DEF JobTypes
  <2> QED BY <2>1, <2>2, LogsUnchanged
<1>4. CASE AfterRecv(r)
  <2>1. /\ pc[r] = "after_recv" /\ pc' = [pc EXCEPT ![r] = "run"] /\ UNCHANGED sent_block
        /\ delivered \subseteq delivered'
    BY <1>4 DEF AfterRecv, Goto, gather
  <2>2. pc'[r] # "finalized" /\ \A s \in Ranks \ {r} : pc'[s] = pc[s]
    BY <2>1 DEF JobTypes
  <2>3. Logs(r)
    BY <1>4, AfterRecvFacts DEF CallsInHand
  <2> QED BY <2>1, <2>2, <2>3, LogsAppended DEF Logs
<1> QED BY <1>1, <1>2, <1>3, <1>4 DEF RankStep, Quiet

\* Neither does any other step, while rank 0 has its log.
LEMMA OtherStepsKeepLogs ==
  ASSUME JobTypes,
         \/ (Gather \/ Layout \/ Gatherv \/ AnalysisReturns) /\ UNCHANGED setting
         \/ Network /\ UNCHANGED setting
         \/ Tick
         \/ UNCHANGED jobvars
  PROVE  (pc'[0] # "finalized" => LogsKept) /\ delivered' = delivered
<1>0. 0 \in Ranks /\ pc \in [Ranks -> Places]
  BY ZeroIsRank DEF JobTypes
<1>1. CASE AnalysisReturns
  BY <1>0, <1>1 DEF AnalysisReturns, Goto
<1>2. CASE ~AnalysisReturns
  <2>1. /\ UNCHANGED <<g_seq, g_events, sent_block, delivered>>
        /\ pc' = pc \/ \E l : pc' = [pc EXCEPT ![0] = l]
    BY <1>2 DEF Gather, Layout, Gatherv, Network, Damage, Tick, jobvars, Goto, program, log, gather
  <2>2. \A s \in Ranks : s # 0 => (pc'[s] = "finalized" <=> pc[s] = "finalized")
    BY <1>0, <2>1
  <2> QED BY <2>1, <2>2, LogsUnchanged
<1> QED BY <1>1, <1>2

\* Once rank 0 analyses, it goes on to do so, or is done.
LEMMA AnalysisIsLast ==
  ASSUME JobTypes, RootInv, [Next]_sysvars, pc[0] \in {"analyze", "finalized"}
  PROVE  pc'[0] \in {"analyze", "finalized"}
<1>0. 0 \in Ranks /\ pc \in [Ranks -> Places]
  BY ZeroIsRank DEF JobTypes
<1>1. ASSUME NEW r \in Ranks, Program(r) PROVE FALSE
  BY <1>1, RanksAreDone DEF Program
<1>2. ~Root /\ ~StartAnalysis
  BY DEF Root, RootStep, Gather, Layout, StartAnalysis, Gatherv
<1>3. CASE EndAnalysis
  BY <1>0, <1>3 DEF EndAnalysis, AnalysisReturns, Goto
<1>4. CASE AnalysisStep \/ Faults \/ Clock \/ UNCHANGED sysvars
  <2>1. pc' = pc
    BY <1>4 DEF AnalysisStep, Faults, Network, Damage, Clock, Tick, sysvars, jobvars, program
  <2> QED BY <2>1
<1> QED BY <1>1, <1>2, <1>3, <1>4 DEF Next, Analysis

\* For every number of ranks and all programs whose logs fit: no step loses or changes an
\* event or a receipt, and none changes the array once rank 0 has it.
THEOREM EventsStay ==
  ASSUME LogsFit
  PROVE  Spec => [][NothingIsLost]_sysvars
<1>1. (JobTypes /\ CallsInHand /\ RankLogs /\ RootInv) /\ [Next]_sysvars => [NothingIsLost]_sysvars
  <2> SUFFICES ASSUME JobTypes, CallsInHand, RankLogs, RootInv, [Next]_sysvars
               PROVE  NothingIsLost
    OBVIOUS
  <2>1. JobNext
    BY NextIsJobNext
  <2>2. (pc'[0] # "finalized" => LogsKept) /\ delivered \subseteq delivered'
    <3>1. CASE \E r \in Ranks : RankStep(r) /\ UNCHANGED setting
      BY <3>1, RankStepKeepsLogs
    <3>2. CASE ~\E r \in Ranks : RankStep(r) /\ UNCHANGED setting
      BY <2>1, <3>2, OtherStepsKeepLogs DEF JobNext
    <3> QED BY <3>1, <3>2
  <2>3. ASSUME pc[0] \in {"analyze", "finalized"}
        PROVE  UNCHANGED <<all, g_seq, delivered>>
    <3>1. pc'[0] \in {"analyze", "finalized"}
      BY <2>3, AnalysisIsLast
    <3>2. ~StartAnalysis
      BY <2>3 DEF StartAnalysis, Gatherv
    <3> QED BY <3>1, <3>2, ArrayStays
  <2> QED BY <2>2, <2>3 DEF NothingIsLost
<1> QED BY <1>1, LayoutIsRight, PTL DEF Spec
=============================================================================
