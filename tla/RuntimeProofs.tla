--------------------------- MODULE RuntimeProofs ----------------------------
(* Proofs about the ranks of MsanSystem up to the analysis, for every       *)
(* number of ranks and all programs that are correct in their arguments:    *)
(* the types, the logs, and the array that they are gathered into.          *)
EXTENDS DetectorProofs, MsanSystem, SequenceTheorems

(* The loop that places the logs, for every event size and every width of   *)
(* int.                                                                     *)

\* A result that fits an int is not changed by it.
LEMMA ToIntFits ==
  ASSUME NEW n \in Nat, n <= IntMax
  PROVE  ToInt(n) = n
<1> DEFINE a == n + IntMax + 1
           b == 2 * (IntMax + 1)
<1>1. a \in Nat /\ b \in Nat /\ 0 <= a /\ a < b
  BY RanksAssumption, LayoutAssumption
<1>2. a % b = a
  <2> HIDE DEF a, b
  <2> QED BY <1>1
<1>3. ToInt(n) = (a % b) - (IntMax + 1)
  BY DEF ToInt
<1> QED BY <1>2, <1>3, RanksAssumption, LayoutAssumption

\* A result is always an int.
LEMMA ToIntType ==
  ASSUME NEW n \in Int
  PROVE  ToInt(n) \in IntRange
<1> DEFINE a == n + IntMax + 1
           b == 2 * (IntMax + 1)
<1>1. a \in Int /\ b \in Nat \ {0}
  BY RanksAssumption, LayoutAssumption
<1>2. a % b \in 0..(b - 1)
  <2> HIDE DEF a, b
  <2> QED BY <1>1
<1>3. ToInt(n) = (a % b) - (IntMax + 1)
  BY DEF ToInt
<1> HIDE DEF a
<1> QED BY <1>2, <1>3, RanksAssumption, LayoutAssumption DEF IntRange

\* What an int can hold is an integer, zero among it.
LEMMA IntRangeIsInt == IntRange \subseteq Int /\ 0 \in IntRange
BY RanksAssumption, LayoutAssumption DEF IntRange

\* The loop is well typed.
THEOREM LayoutTypeCorrect == LoopSpec => []LTypeOK
<1>1. LoopInit => LTypeOK
  BY RanksAssumption, LayoutAssumption, IntRangeIsInt DEF LoopInit, LTypeOK, Zeros, Ranks
<1>2. LTypeOK /\ [LStep]_layout => LTypeOK'
  <2> SUFFICES ASSUME LTypeOK, [LStep]_layout PROVE LTypeOK'
    OBVIOUS
  <2>1. CASE LStep
    <3>1. li \in Ranks
      BY <2>1, RanksAssumption, LayoutAssumption DEF LStep, LTypeOK, Ranks
    <3>2. counts_events[li] \in Nat
      BY <3>1, RanksAssumption, LayoutAssumption DEF LTypeOK
    <3>3. /\ ToInt(total_events * EventBytes) \in IntRange
          /\ ToInt(counts_events[li] * EventBytes) \in IntRange
          /\ ToInt(total_events + counts_events[li]) \in IntRange
      BY <3>2, RanksAssumption, LayoutAssumption, ToIntType, IntRangeIsInt DEF LTypeOK
    <3> QED BY <2>1, <3>1, <3>2, <3>3, RanksAssumption, LayoutAssumption DEF LStep, LTypeOK
  <2>2. CASE UNCHANGED layout
    BY <2>2 DEF layout, LTypeOK
  <2> QED BY <2>1, <2>2
<1> QED BY <1>1, <1>2, PTL DEF LoopSpec

\* While everything fits, nothing has wrapped, and the blocks placed so far tile
\* the part of the array that holds the events so far.
LayoutInv ==
    exact_total * EventBytes <= IntMax =>
        /\ total_events = exact_total
        /\ \A r \in 0..(li - 1) : recvcounts_bytes[r] = counts_events[r] * EventBytes
        /\ li > 0 => displs_bytes[0] = 0 /\ BlockEnd(li - 1) = exact_total * EventBytes
        /\ li = 0 => exact_total = 0
        /\ \A r \in 1..(li - 1) : displs_bytes[r] = BlockEnd(r - 1)

\* One iteration of the loop places one more block behind the others.
LEMMA LayoutStep ==
  ASSUME LTypeOK, LayoutInv, LStep
  PROVE  LayoutInv'
<1> DEFINE c == counts_events[li]
<1>1. li \in Ranks /\ li \in Nat /\ li' = li + 1 /\ counts_events' = counts_events
  BY RanksAssumption, LayoutAssumption DEF LStep, LTypeOK, Ranks
<1>2. c \in Nat /\ exact_total \in Nat /\ exact_total' = exact_total + c
  BY <1>1, RanksAssumption, LayoutAssumption DEF LStep, LTypeOK
<1>3. EventBytes \in Nat /\ EventBytes >= 1 /\ IntMax \in Nat
  BY RanksAssumption, LayoutAssumption
<1> SUFFICES ASSUME exact_total' * EventBytes <= IntMax
             PROVE  /\ total_events' = exact_total'
                    /\ \A r \in 0..li : recvcounts_bytes'[r] = counts_events[r] * EventBytes
                    /\ displs_bytes'[0] = 0
                    /\ displs_bytes'[li] + recvcounts_bytes'[li] = exact_total' * EventBytes
                    /\ \A r \in 1..li : displs_bytes'[r] = BlockEnd(r - 1)'
  <2>1. li' - 1 = li /\ li' > 0 /\ li' # 0
    BY <1>1
  <2> QED BY <2>1, <1>1 DEF LayoutInv, BlockEnd
<1>4. exact_total' * EventBytes = exact_total * EventBytes + c * EventBytes
  BY <1>2, <1>3
<1>5. exact_total * EventBytes \in Nat /\ c * EventBytes \in Nat
  BY <1>2, <1>3
<1>6. exact_total * EventBytes <= IntMax /\ c * EventBytes <= IntMax
  BY <1>3, <1>4, <1>5, <1>2
<1>7. exact_total + c <= (exact_total + c) * EventBytes
  BY <1>2, <1>3
<1>8. exact_total + c <= IntMax
  BY <1>2, <1>3, <1>7
<1>9. total_events = exact_total
  BY <1>6 DEF LayoutInv
<1>10. /\ ToInt(total_events * EventBytes) = exact_total * EventBytes
       /\ ToInt(c * EventBytes) = c * EventBytes
       /\ ToInt(total_events + c) = exact_total + c
  BY <1>2, <1>5, <1>6, <1>8, <1>9, ToIntFits
<1>11. total_events' = exact_total'
  BY <1>2, <1>10 DEF LStep
<1>12. /\ displs_bytes'[li] = exact_total * EventBytes
       /\ recvcounts_bytes'[li] = c * EventBytes
       /\ \A r \in Ranks : r # li => displs_bytes'[r] = displs_bytes[r]
                                     /\ recvcounts_bytes'[r] = recvcounts_bytes[r]
  BY <1>1, <1>10 DEF LStep, LTypeOK
<1>13. \A r \in 0..(li - 1) : r \in Ranks /\ r # li
  BY <1>1, RanksAssumption, LayoutAssumption DEF Ranks
<1>14. \A r \in 0..li : recvcounts_bytes'[r] = counts_events[r] * EventBytes
  <2> SUFFICES ASSUME NEW r \in 0..li PROVE recvcounts_bytes'[r] = counts_events[r] * EventBytes
    OBVIOUS
  <2>1. r = li \/ r \in 0..(li - 1)
    BY <1>1
  <2> QED BY <2>1, <1>6, <1>12, <1>13 DEF LayoutInv
<1>15. displs_bytes'[li] + recvcounts_bytes'[li] = exact_total' * EventBytes
  BY <1>1, <1>4, <1>12
<1>16. displs_bytes'[0] = 0
  <2>1. CASE li = 0
    BY <2>1, <1>2, <1>3, <1>6, <1>12 DEF LayoutInv
  <2>2. CASE li > 0
    <3>1. 0 \in 0..(li - 1)
      BY <2>2, <1>1
    <3> QED BY <2>2, <3>1, <1>6, <1>12, <1>13 DEF LayoutInv
  <2> QED BY <2>1, <2>2, <1>1
<1>17. \A r \in 0..(li - 1) : BlockEnd(r)' = BlockEnd(r)
  BY <1>12, <1>13 DEF BlockEnd
<1>18. \A r \in 1..li : displs_bytes'[r] = BlockEnd(r - 1)'
  <2> SUFFICES ASSUME NEW r \in 1..li PROVE displs_bytes'[r] = BlockEnd(r - 1)'
    OBVIOUS
  <2>1. r - 1 \in 0..(li - 1) /\ li > 0
    BY <1>1
  <2>2. BlockEnd(r - 1)' = BlockEnd(r - 1)
    BY <2>1, <1>12, <1>13 DEF BlockEnd
  <2>3. CASE r = li
    BY <2>1, <2>2, <2>3, <1>6, <1>12 DEF LayoutInv
  <2>4. CASE r # li
    <3>1. r \in 1..(li - 1) /\ r \in 0..(li - 1)
      BY <2>4, <1>1
    <3> QED BY <3>1, <2>2, <1>6, <1>12, <1>13 DEF LayoutInv
  <2> QED BY <2>3, <2>4
<1> QED BY <1>11, <1>14, <1>15, <1>16, <1>18

\* For every number of ranks, event size and width of int: the blocks of the
\* ranks tile the gathered array whenever its bytes fit an int.
THEOREM LayoutTiles == LoopSpec => []BlocksTile
<1>1. LoopInit => LayoutInv
  BY RanksAssumption, LayoutAssumption DEF LoopInit, LayoutInv
<1>2. LTypeOK /\ LayoutInv /\ [LStep]_layout => LayoutInv'
  BY LayoutStep DEF layout, LayoutInv, BlockEnd
<1>3. LTypeOK /\ LayoutInv => BlocksTile
  BY RanksAssumption, LayoutAssumption DEF LTypeOK, LayoutInv, BlocksTile, LDone, Ranks
<1> QED BY <1>1, <1>2, <1>3, LayoutTypeCorrect, PTL DEF LoopSpec

-----------------------------------------------------------------------------
\* What is left of a sequence of messages when one is taken.
LEMMA RemoveAtFacts ==
  ASSUME NEW S, NEW s \in Seq(S), NEW k \in 1..Len(s)
  PROVE  /\ RemoveAt(s, k) \in Seq(S)
         /\ Len(RemoveAt(s, k)) = Len(s) - 1
         /\ \A j \in 1..(Len(s) - 1) : RemoveAt(s, k)[j] = IF j < k THEN s[j] ELSE s[j + 1]
<1> DEFINE a == SubSeq(s, 1, k - 1)
           b == SubSeq(s, k + 1, Len(s))
<1>1. Len(s) \in Nat /\ k - 1 \in 0..Len(s) /\ k + 1 \in 1..(Len(s) + 1)
  OBVIOUS
<1>2. a \in Seq(S) /\ Len(a) = k - 1 /\ \A j \in 1..(k - 1) : a[j] = s[j]
  BY <1>1
<1>3. b \in Seq(S) /\ Len(b) = Len(s) - k /\ \A j \in 1..(Len(s) - k) : b[j] = s[k + j]
  BY <1>1
<1>4. RemoveAt(s, k) = a \o b
  BY DEF RemoveAt
<1> HIDE DEF a, b
<1>5. /\ a \o b \in Seq(S) /\ Len(a \o b) = Len(a) + Len(b)
      /\ \A j \in 1..(Len(a) + Len(b)) : (a \o b)[j] = IF j <= Len(a) THEN a[j] ELSE b[j - Len(a)]
  BY <1>2, <1>3, ConcatProperties
<1>6. Len(a) + Len(b) = Len(s) - 1
  BY <1>1, <1>2, <1>3
<1>7. ASSUME NEW j \in 1..(Len(s) - 1)
      PROVE  (a \o b)[j] = IF j < k THEN s[j] ELSE s[j + 1]
  <2>1. CASE j < k
    BY <2>1, <1>1, <1>2, <1>5, <1>6
  <2>2. CASE ~(j < k)
    <3>1. j - (k - 1) \in 1..(Len(s) - k) /\ k + (j - (k - 1)) = j + 1
      BY <2>2, <1>1
    <3>2. (a \o b)[j] = b[j - (k - 1)]
      BY <2>2, <1>1, <1>2, <1>5, <1>6
    <3> QED BY <2>2, <3>1, <3>2, <1>3
  <2> QED BY <2>1, <2>2
<1> QED BY <1>4, <1>5, <1>6, <1>7

-----------------------------------------------------------------------------
(* Types.                                                                   *)

Message == [comm : DOMAIN Group, tag : Nat, nbytes : Nat, data : Nat, seq : Nat, sent : Int,
            intact : BOOLEAN]
Received == [source : Ranks, tag : Nat, nbytes : Nat, data : Nat, seq : Nat, sent : Int,
             intact : BOOLEAN]

JobTypes ==
    /\ prog \in DOMAIN Programs /\ now \in Nat
    /\ pc \in [Ranks -> Places]
    /\ cur \in [Ranks -> Calls \cup {NoCall}]
    /\ ncalls \in [Ranks -> Nat]
    /\ g_inited \in [Ranks -> BOOLEAN] /\ errors_return \in [Ranks -> BOOLEAN]
    /\ g_rank \in [Ranks -> {-1} \cup Ranks]
    /\ g_seq \in [Ranks -> Nat]
    /\ g_events \in [Ranks -> Seq(Event)]
    /\ sent_block \in [Ranks -> Seq(Event)]
    /\ local_n \in [Ranks -> {-1} \cup Nat]
    /\ channel \in [Ranks -> [Ranks -> Seq(Message)]]
    /\ got \in [Ranks -> Received \cup {NoMessage}]

\* A rank inside of a call has one that it can make; the senders of the messages
\* that are on their way belong to the communicators.
CallInHand(r) ==
    /\ pc[r] \in {"send", "sync", "recv", "after_recv", "coll"} =>
            cur[r] \in Calls /\ Callable(r, cur[r])
    /\ pc[r] \in {"send", "sync"} => cur[r].op = "Send"
    /\ pc[r] = "send" => g_events[r] # <<>>
    /\ pc[r] \in {"recv", "after_recv"} => cur[r].op = "Recv"
    /\ pc[r] = "after_recv" => got[r] \in Received /\ got[r].source \in ToSet(Group[cur[r].comm])

CallsInHand ==
    /\ \A r \in Ranks : CallInHand(r)
    /\ \A s, r \in Ranks : \A k \in DOMAIN channel[s][r] :
            s \in ToSet(Group[channel[s][r][k].comm])

\* Rank 0 is a rank.
LEMMA ZeroIsRank == 0 \in Ranks /\ Ranks \subseteq Nat /\ \A r \in Ranks : r < num_ranks
BY RanksAssumption DEF Ranks

\* The calls that a rank is offered are in order.
LEMMA OptionsFacts ==
  ASSUME JobTypes, NEW r \in Ranks, NEW c \in Options(r), c # NoCall
  PROVE  /\ c \in Calls /\ Callable(r, c)
         /\ ncalls[r] < Len(Code(r)) /\ Len(Code(r)) \in Nat
<1>1. Code(r) \in Seq(SUBSET (Calls \cup {NoCall}))
  BY RuntimeAssumption DEF JobTypes, Code
<1>2. ncalls[r] \in Nat /\ ncalls[r] < Len(Code(r)) /\ c \in Code(r)[ncalls[r] + 1]
  BY DEF JobTypes, Options
<1>3. ncalls[r] + 1 \in DOMAIN Code(r)
  BY <1>1, <1>2
<1>4. c \in Calls
  BY <1>1, <1>2, <1>3
<1>5. Callable(r, c)
  BY <1>2, <1>3, RuntimeAssumption DEF JobTypes, Code
<1> QED BY <1>1, <1>2, <1>4, <1>5

\* Event e is logged as the next of rank r, with this content.
Writes(r, e, kind, peer, tag, comm, nbytes, sum) ==
    /\ e \in Event /\ e.kind = kind /\ e.rank = r /\ e.peer = peer /\ e.tag = tag
    /\ e.comm = CommHandle[r][comm] /\ e.nbytes = nbytes /\ e.seq = g_seq[r] + 1
    /\ e.timestamp = now /\ e.checksum = sum
    /\ g_events' = [g_events EXCEPT ![r] = Append(@, e)]

\* An event that is logged is the next of its rank.
LEMMA LogEventFacts ==
  ASSUME JobTypes, NEW r \in Ranks,
         NEW kind \in Kinds, NEW addr \in Nat, NEW peer \in Int, NEW tag \in Int,
         NEW comm \in DOMAIN Group, NEW nbytes \in Nat, NEW type \in STRING, NEW sum \in Nat,
         NEW name \in CollectiveOps \cup {NoName},
         LogEvent(r, kind, addr, peer, tag, comm, nbytes, type, sum, name)
  PROVE  /\ \E e : Writes(r, e, kind, peer, tag, comm, nbytes, sum)
         /\ g_seq' = [g_seq EXCEPT ![r] = @ + 1]
         /\ InitIfNeeded(r)
<1> DEFINE e == [kind |-> kind, rank |-> r, peer |-> peer, tag |-> tag,
                 comm |-> CommHandle[r][comm], nbytes |-> nbytes, buf_addr |-> addr,
                 seq |-> g_seq[r] + 1, timestamp |-> now, checksum |-> sum, type_name |-> type,
                 coll_name |-> name]
<1>1. g_rank'[r] = r /\ g_seq'[r] = g_seq[r] + 1 /\ g_seq[r] \in Nat /\ now \in Nat
  BY DEF LogEvent, InitIfNeeded, JobTypes
<1>2. CommHandle[r][comm] \in Nat /\ r \in Int
  BY RuntimeAssumption, ZeroIsRank
<1>3. e \in Event
  BY <1>1, <1>2 DEF Event
<1>4. g_events' = [g_events EXCEPT ![r] = Append(@, e)]
  BY <1>1 DEF LogEvent
<1>5. Writes(r, e, kind, peer, tag, comm, nbytes, sum)
  BY <1>3, <1>4 DEF Writes
<1> HIDE DEF e
<1> QED BY <1>5 DEF LogEvent

\* What a call leaves of the log: the rank's next event, or nothing.
Logs(r) ==
    /\ \E e \in Event : /\ e.rank = r /\ e.seq = g_seq[r] + 1
                        /\ g_events' = [g_events EXCEPT ![r] = Append(@, e)]
    /\ g_seq' = [g_seq EXCEPT ![r] = @ + 1]
    /\ InitIfNeeded(r)

\* The beginning of a call.
LEMMA BeginFacts ==
  ASSUME JobTypes, NEW r \in Ranks, NEW c \in Options(r),
         BeginSend(r, c) \/ BeginRecv(r, c) \/ BeginColl(r, c)
  PROVE  /\ c \in Calls /\ Callable(r, c) /\ ncalls[r] < Len(Code(r)) /\ Len(Code(r)) \in Nat
         /\ BeginSend(r, c) => \E e : Writes(r, e, "SEND", c.peer, c.tag, c.comm, c.nbytes,
                                              Checksum(c.addr, c.data, c.nbytes, c.nbytes))
         /\ BeginColl(r, c) => \E e : Writes(r, e, "COLL", c.peer, 0, c.comm, c.nbytes, 0)
         /\ BeginSend(r, c) \/ BeginColl(r, c) => Logs(r)
<1>1. c.op # "none"
  BY DEF BeginSend, BeginRecv, BeginColl, CollectiveOps
<1>2. c # NoCall
  BY <1>1 DEF NoCall
<1>3. /\ c \in Calls /\ Callable(r, c) /\ ncalls[r] < Len(Code(r)) /\ Len(Code(r)) \in Nat
  BY <1>2, OptionsFacts
<1>4. /\ c.addr \in Nat /\ c.peer \in Int /\ c.tag \in Int /\ c.comm \in DOMAIN Group
      /\ c.nbytes \in Nat /\ c.type \in STRING /\ c.data \in Nat
      /\ c.op \in {"Send", "Recv"} \cup CollectiveOps
  BY <1>3 DEF Calls
<1>5. Checksum(c.addr, c.data, c.nbytes, c.nbytes) \in Nat
  BY <1>4 DEF Checksum
<1>6. ASSUME BeginSend(r, c)
      PROVE  /\ \E e : Writes(r, e, "SEND", c.peer, c.tag, c.comm, c.nbytes,
                                Checksum(c.addr, c.data, c.nbytes, c.nbytes))
             /\ Logs(r)
  <2>1. LogEvent(r, "SEND", c.addr, c.peer, c.tag, c.comm, c.nbytes, c.type,
                 Checksum(c.addr, c.data, c.nbytes, c.nbytes), NoName)
    BY <1>6 DEF BeginSend
  <2>2. "SEND" \in Kinds
    BY DEF Kinds
  <2>3. /\ \E e : Writes(r, e, "SEND", c.peer, c.tag, c.comm, c.nbytes,
                           Checksum(c.addr, c.data, c.nbytes, c.nbytes))
        /\ g_seq' = [g_seq EXCEPT ![r] = @ + 1]
        /\ InitIfNeeded(r)
    BY <2>1, <2>2, <1>4, <1>5, LogEventFacts
  <2> QED BY <2>3 DEF Logs, Writes
<1>7. ASSUME BeginColl(r, c)
      PROVE  (\E e : Writes(r, e, "COLL", c.peer, 0, c.comm, c.nbytes, 0)) /\ Logs(r)
  <2>1. LogEvent(r, "COLL", c.addr, c.peer, 0, c.comm, c.nbytes, c.type, 0, c.op)
    BY <1>7 DEF BeginColl
  <2>2. "COLL" \in Kinds /\ c.op \in CollectiveOps \cup {NoName} /\ 0 \in Int /\ 0 \in Nat
    BY <1>7 DEF Kinds, BeginColl
  <2>3. /\ \E e : Writes(r, e, "COLL", c.peer, 0, c.comm, c.nbytes, 0)
        /\ g_seq' = [g_seq EXCEPT ![r] = @ + 1]
        /\ InitIfNeeded(r)
    BY <2>1, <2>2, <1>4, LogEventFacts
  <2> QED BY <2>3 DEF Logs, Writes
<1> QED BY <1>3, <1>6, <1>7

\* The rank that a sender names.
LEMMA PeerFacts ==
  ASSUME NEW r \in Ranks, cur[r] \in Calls, Callable(r, cur[r]), cur[r].op = "Send"
  PROVE  Peer(r) \in Ranks /\ cur[r].tag \in Nat
<1>1. /\ cur[r].comm \in DOMAIN Group /\ cur[r].peer \in 0..(Len(Group[cur[r].comm]) - 1)
      /\ cur[r].tag \in Nat
  BY DEF Calls, Callable
<1>2. Group[cur[r].comm] \in Seq(Ranks)
  BY <1>1, RuntimeAssumption
<1>3. cur[r].peer + 1 \in 1..Len(Group[cur[r].comm])
  BY <1>1, <1>2
<1> QED BY <1>1, <1>2, <1>3 DEF Peer, Member

\* The number that a communicator gives to a rank of it.
LEMMA RankInFacts ==
  ASSUME NEW c \in DOMAIN Group, NEW r \in ToSet(Group[c])
  PROVE  RankIn(c, r) \in 0..(Len(Group[c]) - 1) /\ Member(c, RankIn(c, r)) = r
<1>1. Group[c] \in Seq(Ranks)
  BY RuntimeAssumption
<1>2. PICK n \in DOMAIN Group[c] : Group[c][n] = r
  BY DEF ToSet
<1>3. n - 1 \in 0..(Len(Group[c]) - 1) /\ Member(c, n - 1) = r
  BY <1>1, <1>2 DEF Member
<1> QED BY <1>3 DEF RankIn

\* What a receive finds in the message that it takes.
LEMMA TakeFacts ==
  ASSUME JobTypes, NEW s \in Ranks, NEW r \in Ranks, NEW k \in DOMAIN channel[s][r], Take(s, r, k)
  PROVE  /\ k \in 1..Len(channel[s][r]) /\ Len(channel[s][r]) \in Nat
         /\ channel[s][r] \in Seq(Message) /\ channel[s][r][k] \in Message
         /\ channel' = [channel EXCEPT ![s][r] = RemoveAt(@, k)]
         /\ channel' \in [Ranks -> [Ranks -> Seq(Message)]]
         /\ cur[r].comm = channel[s][r][k].comm
<1>1. channel[s][r] \in Seq(Message)
  BY DEF JobTypes
<1>2. k \in 1..Len(channel[s][r]) /\ Len(channel[s][r]) \in Nat /\ channel[s][r][k] \in Message
  BY <1>1
<1>3. channel' = [channel EXCEPT ![s][r] = RemoveAt(@, k)] /\ cur[r].comm = channel[s][r][k].comm
  BY DEF Take, Acceptable
<1>4. RemoveAt(channel[s][r], k) \in Seq(Message)
  BY <1>1, <1>2, RemoveAtFacts
<1> QED BY <1>1, <1>2, <1>3, <1>4 DEF JobTypes

\* The event of a receive.
LEMMA AfterRecvFacts ==
  ASSUME JobTypes, NEW r \in Ranks, CallInHand(r), AfterRecv(r)
  PROVE  /\ \E e : Writes(r, e, "RECV", LoggedPeer(r), LoggedTag(r), cur[r].comm, cur[r].nbytes,
                            Checksum(cur[r].addr, got[r].data, got[r].nbytes, cur[r].nbytes))
         /\ Logs(r)
<1>1. /\ cur[r] \in Calls /\ Callable(r, cur[r]) /\ got[r] \in Received
      /\ got[r].source \in ToSet(Group[cur[r].comm])
  BY DEF CallInHand, AfterRecv
<1>2. /\ cur[r].addr \in Nat /\ cur[r].peer \in Int /\ cur[r].tag \in Int
      /\ cur[r].comm \in DOMAIN Group /\ cur[r].nbytes \in Nat /\ cur[r].type \in STRING
      /\ got[r].data \in Nat /\ got[r].nbytes \in Nat /\ got[r].tag \in Nat
  BY <1>1 DEF Calls, Received
<1>3. Checksum(cur[r].addr, got[r].data, got[r].nbytes, cur[r].nbytes) \in Nat
  BY <1>2 DEF Checksum
<1>4. LoggedPeer(r) \in Int /\ LoggedTag(r) \in Int
  <2>1. RankIn(cur[r].comm, got[r].source) \in 0..(Len(Group[cur[r].comm]) - 1)
    BY <1>1, <1>2, RankInFacts
  <2> QED BY <2>1, <1>2 DEF LoggedPeer, LoggedTag
<1>5. LogEvent(r, "RECV", cur[r].addr, LoggedPeer(r), LoggedTag(r), cur[r].comm, cur[r].nbytes,
               cur[r].type, Checksum(cur[r].addr, got[r].data, got[r].nbytes, cur[r].nbytes), NoName)
  BY DEF AfterRecv
<1>6. "RECV" \in Kinds
  BY DEF Kinds
<1>7. /\ \E e : Writes(r, e, "RECV", LoggedPeer(r), LoggedTag(r), cur[r].comm, cur[r].nbytes,
                         Checksum(cur[r].addr, got[r].data, got[r].nbytes, cur[r].nbytes))
      /\ g_seq' = [g_seq EXCEPT ![r] = @ + 1]
      /\ InitIfNeeded(r)
  BY <1>2, <1>3, <1>4, <1>5, <1>6, LogEventFacts
<1> QED BY <1>7 DEF Logs, Writes

\* A rank that does nothing stays in its call.
LEMMA OthersKeepCalls ==
  ASSUME NEW r, CallInHand(r), pc'[r] = pc[r], cur'[r] = cur[r], got'[r] = got[r],
         g_events'[r] = g_events[r]
  PROVE  CallInHand(r)'
BY DEF CallInHand, Callable

\* Channels that are left alone hold what they held.
LEMMA ChannelsKeepSenders ==
  ASSUME CallsInHand, UNCHANGED channel, \A r \in Ranks : CallInHand(r)'
  PROVE  CallsInHand'
BY DEF CallsInHand

\* What is left in a channel when a message is taken was there before.
LEMMA TakeKeepsSenders ==
  ASSUME JobTypes, CallsInHand, \A q \in Ranks : CallInHand(q)',
         NEW s \in Ranks, NEW r \in Ranks, NEW k \in DOMAIN channel[s][r], Take(s, r, k)
  PROVE  CallsInHand'
<1>1. /\ k \in 1..Len(channel[s][r]) /\ channel[s][r] \in Seq(Message)
      /\ channel' = [channel EXCEPT ![s][r] = RemoveAt(@, k)]
  BY TakeFacts
<1>2. /\ RemoveAt(channel[s][r], k) \in Seq(Message)
      /\ Len(RemoveAt(channel[s][r], k)) = Len(channel[s][r]) - 1
      /\ \A j \in 1..(Len(channel[s][r]) - 1) : RemoveAt(channel[s][r], k)[j] =
            IF j < k THEN channel[s][r][j] ELSE channel[s][r][j + 1]
  BY <1>1, RemoveAtFacts
<1>3. ASSUME NEW p \in Ranks, NEW q \in Ranks, NEW j \in DOMAIN channel'[p][q]
      PROVE  p \in ToSet(Group[channel'[p][q][j].comm])
  <2>1. CASE p = s /\ q = r
    <3>1. channel'[p][q] = RemoveAt(channel[s][r], k)
      BY <1>1, <2>1 DEF JobTypes
    <3>2. j \in 1..(Len(channel[s][r]) - 1)
      BY <1>2, <3>1
    <3>3. PICK m \in DOMAIN channel[s][r] : channel'[p][q][j] = channel[s][r][m]
      BY <1>1, <1>2, <3>1, <3>2
    <3> QED BY <2>1, <3>3 DEF CallsInHand
  <2>2. CASE ~(p = s /\ q = r)
    <3>1. channel'[p][q] = channel[p][q]
      BY <1>1, <2>2 DEF JobTypes
    <3> QED BY <3>1 DEF CallsInHand
  <2> QED BY <2>1, <2>2
<1> QED BY <1>3 DEF CallsInHand

\* A step of a rank keeps the types, and leaves the rank with a call in hand.
LEMMA RankStepTypes ==
  ASSUME JobTypes, CallsInHand, NEW r \in Ranks, RankStep(r), UNCHANGED setting
  PROVE  JobTypes' /\ CallsInHand'
<1> USE DEF setting, log, gather, Goto
<1>0. CallInHand(r)
  BY DEF CallsInHand
<1>1. CASE MPIInit(r)
  <2>1. PICK hooked \in InitHooks : pc' = [pc EXCEPT ![r] = IF hooked THEN "msan_init" ELSE "run"]
    BY <1>1 DEF MPIInit
  <2>2. JobTypes'
    BY <1>1, <2>1 DEF MPIInit, JobTypes, Places
  <2>3. \A q \in Ranks : CallInHand(q)'
    <3>1. CallInHand(r)'
      BY <2>1 DEF CallInHand, JobTypes
    <3>2. \A q \in Ranks \ {r} : CallInHand(q)'
      BY <1>1, <2>1, OthersKeepCalls DEF MPIInit, CallsInHand, JobTypes
    <3> QED BY <3>1, <3>2
  <2> QED BY <1>1, <2>2, <2>3, ChannelsKeepSenders DEF MPIInit
<1>2. CASE MsanInit(r)
  <2>2. JobTypes'
    BY <1>2 DEF MsanInit, InitIfNeeded, JobTypes, Places
  <2>3. \A q \in Ranks : CallInHand(q)'
    <3>1. CallInHand(r)'
      BY <1>2 DEF MsanInit, CallInHand, JobTypes
    <3>2. \A q \in Ranks \ {r} : CallInHand(q)'
      BY <1>2, OthersKeepCalls DEF MsanInit, CallsInHand, JobTypes
    <3> QED BY <3>1, <3>2
  <2> QED BY <1>2, <2>2, <2>3, ChannelsKeepSenders DEF MsanInit
<1>3. ASSUME NEW c \in Options(r), BeginSend(r, c) \/ BeginRecv(r, c) \/ BeginColl(r, c)
      PROVE  JobTypes' /\ CallsInHand'
  <2>1. /\ c \in Calls /\ Callable(r, c)
        /\ BeginSend(r, c) \/ BeginColl(r, c) => Logs(r)
    BY <1>3, BeginFacts
  <2>2. /\ pc' = [pc EXCEPT ![r] = IF c.op = "Send" THEN "send" ELSE IF c.op = "Recv" THEN "recv" ELSE "coll"]
        /\ cur' = [cur EXCEPT ![r] = c] /\ ncalls' = [ncalls EXCEPT ![r] = @ + 1]
        /\ UNCHANGED <<got, channel, gather>>
        /\ BeginRecv(r, c) => UNCHANGED log
    BY <1>3 DEF BeginSend, BeginRecv, BeginColl, Call, CollectiveOps
  <2>3. JobTypes'
    <3>1. CASE Logs(r)
      BY <3>1, <2>1, <2>2 DEF Logs, InitIfNeeded, JobTypes, Places
    <3>2. CASE BeginRecv(r, c)
      BY <3>2, <2>1, <2>2 DEF JobTypes, Places
    <3> QED BY <1>3, <2>1, <3>1, <3>2
  <2>4. g_events'[r] # <<>> \/ BeginRecv(r, c)
    <3>1. ASSUME Logs(r) PROVE g_events'[r] # <<>>
      BY <3>1 DEF Logs, JobTypes
    <3> QED BY <1>3, <2>1, <3>1
  <2>5. \A q \in Ranks : CallInHand(q)'
    <3>1. CallInHand(r)'
      <4>1. pc'[r] \in {"send", "recv", "coll"} /\ cur'[r] = c
        BY <2>2 DEF JobTypes
      <4>2. pc'[r] = "send" => c.op = "Send" /\ ~BeginRecv(r, c)
        BY <2>2 DEF JobTypes, BeginRecv
      <4>3. pc'[r] = "recv" => c.op = "Recv"
        BY <2>2 DEF JobTypes
      <4> QED BY <4>1, <4>2, <4>3, <2>1, <2>4 DEF CallInHand, Callable
    <3>2. \A q \in Ranks \ {r} : CallInHand(q)'
      <4>1. \A q \in Ranks \ {r} : g_events'[q] = g_events[q]
        BY <1>3, <2>1, <2>2 DEF Logs, JobTypes
      <4> QED BY <2>2, <4>1, OthersKeepCalls DEF CallsInHand, JobTypes
    <3> QED BY <3>1, <3>2
  <2> QED BY <2>2, <2>3, <2>5, ChannelsKeepSenders
<1>4. CASE DoSend(r)
  <2> DEFINE m == [comm |-> cur[r].comm, tag |-> cur[r].tag, nbytes |-> cur[r].nbytes,
                   data |-> cur[r].data, seq |-> g_seq[r],
                   sent |-> Last(g_events[r]).timestamp, intact |-> TRUE]
  <2>1. /\ cur[r] \in Calls /\ Callable(r, cur[r]) /\ cur[r].op = "Send" /\ g_events[r] # <<>>
    BY <1>0, <1>4 DEF CallInHand, DoSend
  <2>2. Peer(r) \in Ranks /\ cur[r].tag \in Nat
    BY <2>1, PeerFacts
  <2>3. Last(g_events[r]).timestamp \in Int
    <3>1. g_events[r] \in Seq(Event) /\ Len(g_events[r]) \in 1..Len(g_events[r])
      BY <2>1 DEF JobTypes
    <3>2. g_events[r][Len(g_events[r])] \in Event
      BY <3>1
    <3> QED BY <3>2 DEF Last, Event
  <2>4. m \in Message /\ r \in ToSet(Group[m.comm])
    BY <2>1, <2>2, <2>3 DEF Message, Calls, Callable, JobTypes
  <2>5. channel' = [channel EXCEPT ![r][Peer(r)] = Append(@, m)]
    BY <1>4 DEF DoSend
  <2> HIDE DEF m
  <2>6. PICK l \in {"run", "sync"} : pc' = [pc EXCEPT ![r] = l]
    BY <1>4 DEF DoSend
  <2>7. JobTypes'
    <3>1. channel' \in [Ranks -> [Ranks -> Seq(Message)]]
      BY <2>2, <2>4, <2>5 DEF JobTypes
    <3> QED BY <1>4, <2>6, <3>1 DEF DoSend, JobTypes, Places
  <2>8. \A q \in Ranks : CallInHand(q)'
    <3>1. CallInHand(r)'
      BY <1>4, <2>1, <2>6 DEF DoSend, CallInHand, Callable, JobTypes
    <3>2. \A q \in Ranks \ {r} : CallInHand(q)'
      BY <1>4, <2>6, OthersKeepCalls DEF DoSend, CallsInHand, JobTypes
    <3> QED BY <3>1, <3>2
  <2>9. ASSUME NEW s \in Ranks, NEW q \in Ranks, NEW k \in DOMAIN channel'[s][q]
        PROVE  s \in ToSet(Group[channel'[s][q][k].comm])
    <3>1. CASE s = r /\ q = Peer(r)
      <4>1. channel[s][q] \in Seq(Message) /\ channel'[s][q] = Append(channel[s][q], m)
        BY SMTT(30), <3>1, <2>2, <2>5 DEF JobTypes
      <4>2. CASE k = Len(channel[s][q]) + 1
        BY <4>1, <4>2, <3>1, <2>4
      <4>3. CASE k # Len(channel[s][q]) + 1
        <5>1. k \in DOMAIN channel[s][q] /\ channel'[s][q][k] = channel[s][q][k]
          BY <4>1, <4>3
        <5> QED BY <5>1 DEF CallsInHand
      <4> QED BY <4>2, <4>3
    <3>2. CASE ~(s = r /\ q = Peer(r))
      <4>1. channel'[s][q] = channel[s][q]
        BY <3>2, <2>2, <2>5 DEF JobTypes
      <4> QED BY <4>1 DEF CallsInHand
    <3> QED BY <3>1, <3>2
  <2> QED BY <2>7, <2>8, <2>9 DEF CallsInHand
<1>5. CASE SyncDone(r) \/ EndColl(r) \/ Stopped(r) \/ RecvAborts(r)
  <2>1. PICK l \in {"run", "aborted"} : pc' = [pc EXCEPT ![r] = l]
    BY <1>5 DEF SyncDone, EndColl, Stopped, RecvAborts
  <2>2. CASE ~RecvAborts(r)
    <3>1. UNCHANGED <<cur, ncalls, got, channel, log, gather>>
      BY <1>5, <2>2 DEF SyncDone, EndColl, Stopped
    <3>2. JobTypes'
      BY <2>1, <3>1 DEF JobTypes, Places
    <3>3. \A q \in Ranks : CallInHand(q)'
      <4>1. CallInHand(r)'
        BY <2>1 DEF CallInHand, JobTypes
      <4>2. \A q \in Ranks \ {r} : CallInHand(q)'
        BY <2>1, <3>1, OthersKeepCalls DEF CallsInHand, JobTypes
      <4> QED BY <4>1, <4>2
    <3> QED BY <3>1, <3>2, <3>3, ChannelsKeepSenders
  <2>3. CASE RecvAborts(r)
    <3>1. UNCHANGED <<cur, ncalls, got, log, gather>>
      BY <2>3 DEF RecvAborts
    <3>2. PICK s \in Ranks : \E k \in DOMAIN channel[s][r] : Take(s, r, k)
      BY <2>3 DEF RecvAborts
    <3>3. PICK k \in DOMAIN channel[s][r] : Take(s, r, k)
      BY <3>2
    <3>4. JobTypes'
      BY <2>1, <3>1, <3>3, TakeFacts DEF JobTypes, Places
    <3>5. \A q \in Ranks : CallInHand(q)'
      <4>1. CallInHand(r)'
        BY <2>1 DEF CallInHand, JobTypes
      <4>2. \A q \in Ranks \ {r} : CallInHand(q)'
        BY <2>1, <3>1, OthersKeepCalls DEF CallsInHand, JobTypes
      <4> QED BY <4>1, <4>2
    <3> QED BY <3>3, <3>4, <3>5, TakeKeepsSenders
  <2> QED BY <2>2, <2>3
<1>6. CASE DoRecv(r)
  <2>0. PICK s \in Ranks : \E k \in DOMAIN channel[s][r] :
          /\ Take(s, r, k)
          /\ got' = [got EXCEPT ![r] = [source |-> s, tag |-> channel[s][r][k].tag,
                        nbytes |-> channel[s][r][k].nbytes, data |-> channel[s][r][k].data,
                        seq |-> channel[s][r][k].seq, sent |-> channel[s][r][k].sent,
                        intact |-> channel[s][r][k].intact]]
    BY <1>6 DEF DoRecv
  <2>1. PICK k \in DOMAIN channel[s][r] :
          /\ Take(s, r, k)
          /\ got' = [got EXCEPT ![r] = [source |-> s, tag |-> channel[s][r][k].tag,
                        nbytes |-> channel[s][r][k].nbytes, data |-> channel[s][r][k].data,
                        seq |-> channel[s][r][k].seq, sent |-> channel[s][r][k].sent,
                        intact |-> channel[s][r][k].intact]]
    BY <2>0
  <2>2. /\ pc' = [pc EXCEPT ![r] = "after_recv"] /\ UNCHANGED <<cur, ncalls, log, gather>>
    BY <1>6 DEF DoRecv
  <2>3. got' \in [Ranks -> Received \cup {NoMessage}] /\ got'[r] \in Received /\ got'[r].source = s
    BY ZenonT(30), <2>1, TakeFacts DEF JobTypes, Message, Received
  <2>4. JobTypes'
    BY <2>1, <2>2, <2>3, TakeFacts DEF JobTypes, Places
  <2>5. \A q \in Ranks : CallInHand(q)'
    <3>1. CallInHand(r)'
      <4>1. cur[r] \in Calls /\ Callable(r, cur[r]) /\ cur[r].op = "Recv"
        BY <1>0, <1>6 DEF DoRecv, CallInHand
      <4>2. s \in ToSet(Group[cur[r].comm])
        <5>1. cur[r].comm = channel[s][r][k].comm
          BY <2>1 DEF Take, Acceptable
        <5>2. s \in ToSet(Group[channel[s][r][k].comm])
          BY DEF CallsInHand
        <5> QED BY <5>1, <5>2
      <4>3. pc'[r] = "after_recv" /\ cur'[r] = cur[r]
        BY <2>2 DEF JobTypes
      <4> QED BY <4>1, <4>2, <4>3, <2>3 DEF CallInHand, Callable
    <3>2. \A q \in Ranks \ {r} : CallInHand(q)'
      BY <2>1, <2>2, OthersKeepCalls DEF CallsInHand, JobTypes
    <3> QED BY <3>1, <3>2
  <2> QED BY <2>1, <2>4, <2>5, TakeKeepsSenders
<1>7. CASE AfterRecv(r)
  <2>1. Logs(r)
    BY <1>0, <1>7, AfterRecvFacts
  <2>2. /\ pc' = [pc EXCEPT ![r] = "run"] /\ UNCHANGED <<cur, ncalls, got, channel, gather>>
    BY <1>7 DEF AfterRecv
  <2>3. JobTypes'
    BY <2>1, <2>2 DEF Logs, InitIfNeeded, JobTypes, Places
  <2>4. \A q \in Ranks : CallInHand(q)'
    <3>1. CallInHand(r)'
      BY <2>2 DEF CallInHand, JobTypes
    <3>2. \A q \in Ranks \ {r} : CallInHand(q)'
      BY <2>1, <2>2, OthersKeepCalls DEF Logs, CallsInHand, JobTypes
    <3> QED BY <3>1, <3>2
  <2> QED BY <2>2, <2>3, <2>4, ChannelsKeepSenders
<1>8. CASE Finalize(r)
  <2>1. PICK l \in {"gather", "gatherv"} : pc' = [pc EXCEPT ![r] = l]
    BY <1>8 DEF Finalize
  <2>2. JobTypes'
    BY <1>8, <2>1 DEF Finalize, InitIfNeeded, JobTypes, Places
  <2>3. \A q \in Ranks : CallInHand(q)'
    <3>1. CallInHand(r)'
      BY <2>1 DEF CallInHand, JobTypes
    <3>2. \A q \in Ranks \ {r} : CallInHand(q)'
      BY <1>8, <2>1, OthersKeepCalls DEF Finalize, CallsInHand, JobTypes
    <3> QED BY <3>1, <3>2
  <2> QED BY <1>8, <2>2, <2>3, ChannelsKeepSenders DEF Finalize
<1>9. CASE SendBlock(r)
  <2>2. JobTypes'
    BY <1>9 DEF SendBlock, JobTypes, Places
  <2>3. \A q \in Ranks : CallInHand(q)'
    <3>1. CallInHand(r)'
      BY <1>9 DEF SendBlock, CallInHand, JobTypes
    <3>2. \A q \in Ranks \ {r} : CallInHand(q)'
      BY <1>9, OthersKeepCalls DEF SendBlock, CallsInHand, JobTypes
    <3> QED BY <3>1, <3>2
  <2> QED BY <1>9, <2>2, <2>3, ChannelsKeepSenders DEF SendBlock
<1> QED BY <1>1, <1>2, <1>3, <1>4, <1>5, <1>6, <1>7, <1>8, <1>9 DEF RankStep

\* The steps of the job, as the analysis sees them.
JobNext ==
    \/ \E r \in Ranks : RankStep(r) /\ UNCHANGED setting
    \/ (Gather \/ Layout \/ Gatherv \/ AnalysisReturns) /\ UNCHANGED setting
    \/ Network /\ UNCHANGED setting
    \/ Tick
    \/ UNCHANGED jobvars

\* Every step of the system is one of the job.
LEMMA NextIsJobNext == [Next]_sysvars => JobNext
<1> SUFFICES ASSUME [Next]_sysvars PROVE JobNext
  OBVIOUS
<1>1. CASE \E r \in Ranks : Program(r)
  BY <1>1 DEF Program, JobNext
<1>2. CASE Root \/ Faults \/ Clock
  BY <1>2 DEF Root, RootStep, Faults, Clock, JobNext
<1>3. CASE Analysis
  BY <1>3 DEF Analysis, StartAnalysis, AnalysisStep, EndAnalysis, JobNext, jobvars
<1>4. CASE UNCHANGED sysvars
  BY <1>4 DEF sysvars, JobNext
<1> QED BY <1>1, <1>2, <1>3, <1>4 DEF Next

\* A damaged message is a message still, of the same sender and on the same
\* communicator.
LEMMA DamageTypes ==
  ASSUME JobTypes, CallsInHand, NEW s \in Ranks, NEW r \in Ranks, Damage(s, r)
  PROVE  /\ channel' \in [Ranks -> [Ranks -> Seq(Message)]]
         /\ \A p, q \in Ranks : \A k \in DOMAIN channel'[p][q] :
                p \in ToSet(Group[channel'[p][q][k].comm])
<1>1. PICK k \in DOMAIN channel[s][r] :
        channel' = [channel EXCEPT ![s][r][k] = Damaged(@)]
  BY DEF Damage
<1> DEFINE m == Damaged(channel[s][r][k])
<1>2. channel[s][r] \in Seq(Message) /\ channel[s][r][k] \in Message
  BY <1>1 DEF JobTypes
<1>3. m \in Message /\ m.comm = channel[s][r][k].comm
  <2>1. PICK x \in Message : x = channel[s][r][k]
    BY <1>2
  <2>2. PICK v \in Nat : v = x.data + 1
    BY DEF Message
  <2>3. m = [x EXCEPT !.data = v, !.intact = FALSE]
    BY <2>1, <2>2 DEF Damaged
  <2>4. m \in Message /\ m.comm = x.comm
    BY <2>3 DEF Message
  <2> QED BY <2>1, <2>4
<1>4. channel' = [channel EXCEPT ![s][r][k] = m]
  BY <1>1
<1> HIDE DEF m
<1>5. [channel[s][r] EXCEPT ![k] = m] \in Seq(Message)
  BY <1>1, <1>2, <1>3
<1>6. channel' = [channel EXCEPT ![s][r] = [@ EXCEPT ![k] = m]]
  BY <1>4
<1>7. channel' \in [Ranks -> [Ranks -> Seq(Message)]]
  BY <1>5, <1>6 DEF JobTypes
<1>8. ASSUME NEW p \in Ranks, NEW q \in Ranks, NEW n \in DOMAIN channel'[p][q]
      PROVE  p \in ToSet(Group[channel'[p][q][n].comm])
  <2>1. CASE p = s /\ q = r
    <3>1. channel'[p][q] = [channel[s][r] EXCEPT ![k] = m]
      BY <1>6, <2>1 DEF JobTypes
    <3>2. n \in DOMAIN channel[s][r]
      BY <3>1, <1>2, <1>1
    <3>3. channel'[p][q][n].comm = channel[s][r][n].comm
      BY <3>1, <3>2, <1>3
    <3> QED BY <2>1, <3>2, <3>3 DEF CallsInHand
  <2>2. CASE ~(p = s /\ q = r)
    <3>1. channel'[p][q] = channel[p][q]
      BY <1>6, <2>2 DEF JobTypes
    <3> QED BY <3>1 DEF CallsInHand
  <2> QED BY <2>1, <2>2
<1> QED BY <1>7, <1>8

\* Every step of the job keeps the types and leaves the ranks with a call in hand.
LEMMA JobStepTypes ==
  ASSUME JobTypes, CallsInHand, JobNext
  PROVE  JobTypes' /\ CallsInHand'
<1> USE DEF setting, program, log, gather, Goto
<1>1. CASE \E r \in Ranks : RankStep(r) /\ UNCHANGED setting
  BY <1>1, RankStepTypes
<1>2. CASE (Gather \/ Layout \/ Gatherv \/ AnalysisReturns) /\ UNCHANGED setting
  <2>1. PICK l \in {pc[0], "layout", "analyze", "finalized"} : pc' = [pc EXCEPT ![0] = l]
    BY <1>2, ZeroIsRank DEF Gather, Layout, Gatherv, AnalysisReturns, JobTypes
  <2>2. /\ UNCHANGED <<prog, now, cur, ncalls, got, channel, g_inited, g_rank, g_seq, errors_return,
                       local_n, sent_block>>
        /\ UNCHANGED g_events \/ g_events' = [g_events EXCEPT ![0] = <<>>]
    BY <1>2 DEF Gather, Layout, Gatherv, AnalysisReturns
  <2>3. pc[0] \in {"gather", "layout", "analyze"}
    BY <1>2 DEF Gather, Layout, Gatherv, AnalysisReturns
  <2>4. JobTypes'
    <3>1. pc' \in [Ranks -> Places]
      BY <2>1, ZeroIsRank DEF JobTypes, Places
    <3>2. g_events' \in [Ranks -> Seq(Event)]
      <4>1. <<>> \in Seq(Event)
        OBVIOUS
      <4>2. g_events \in [Ranks -> Seq(Event)]
        BY DEF JobTypes
      <4> HIDE DEF log, program, setting, gather
      <4>3. CASE g_events' = [g_events EXCEPT ![0] = <<>>]
        BY <4>1, <4>2, <4>3
      <4> QED BY <2>2, <4>2, <4>3
    <3> QED BY <2>2, <3>1, <3>2 DEF JobTypes
  <2>5. \A q \in Ranks : CallInHand(q)'
    <3>1. CallInHand(0)'
      BY <2>1, <2>3, ZeroIsRank DEF CallInHand, JobTypes
    <3>2. \A q \in Ranks \ {0} : CallInHand(q)'
      BY <2>1, <2>2, OthersKeepCalls DEF CallsInHand, JobTypes
    <3> QED BY <3>1, <3>2
  <2> QED BY <2>2, <2>4, <2>5, ChannelsKeepSenders
<1>3. CASE Network /\ UNCHANGED setting
  <2>1. PICK s, r \in Ranks : Damage(s, r)
    BY <1>3 DEF Network
  <2>2. UNCHANGED <<pc, cur, ncalls, got, log, gather, delivered>>
    BY <2>1 DEF Damage
  <2>3. JobTypes'
    <3>1. channel' \in [Ranks -> [Ranks -> Seq(Message)]]
      BY <2>1, DamageTypes
    <3>2. UNCHANGED <<prog, now, pc, cur, ncalls, g_inited, errors_return, g_rank, g_seq, g_events,
                      sent_block, local_n, got>>
      BY <1>3, <2>2
    <3> QED BY <3>1, <3>2 DEF JobTypes
  <2>4. \A q \in Ranks : CallInHand(q)'
    BY <2>2, OthersKeepCalls DEF CallsInHand
  <2> QED BY <2>1, <2>3, <2>4, DamageTypes DEF CallsInHand
<1>4. CASE Tick
  <2>1. JobTypes'
    BY <1>4 DEF Tick, JobTypes
  <2> QED BY <1>4, <2>1, OthersKeepCalls, ChannelsKeepSenders DEF Tick, CallsInHand
<1>5. CASE UNCHANGED jobvars
  <2>1. JobTypes'
    BY <1>5 DEF jobvars, JobTypes
  <2> QED BY <1>5, <2>1, OthersKeepCalls, ChannelsKeepSenders DEF jobvars, CallsInHand
<1> QED BY <1>1, <1>2, <1>3, <1>4, <1>5 DEF JobNext

\* Before MPI_Init.
LEMMA InitTypes == JobInit => JobTypes /\ CallsInHand
<1> SUFFICES ASSUME JobInit PROVE JobTypes /\ CallsInHand
  OBVIOUS
<1>1. JobTypes
  BY DEF JobInit, JobTypes, Places
<1> QED BY <1>1 DEF JobInit, CallsInHand, CallInHand

\* For all programs and every number of ranks, what the ranks log and send keeps
\* its type.
THEOREM JobTypeCorrect == Spec => [](JobTypes /\ CallsInHand)
<1>1. Init => JobTypes /\ CallsInHand
  BY InitTypes DEF Init
<1>2. (JobTypes /\ CallsInHand) /\ [Next]_sysvars => (JobTypes /\ CallsInHand)'
  BY NextIsJobNext, JobStepTypes
<1> QED BY <1>1, <1>2, PTL DEF Spec

-----------------------------------------------------------------------------
(* What a rank has logged.                                                  *)

\* Where a rank is when it has entered __msan_finalize.
Closing == {"gather", "gatherv", "layout", "analyze", "finalized"}

\* The log of a rank, which it frees when it has sent it.
LogOf(r) == IF r # 0 /\ pc[r] = "finalized" THEN sent_block[r] ELSE g_events[r]

Whole(l, n, r) == Len(l) = n /\ \A k \in 1..n : l[k].rank = r /\ l[k].seq = k

\* Every rank has logged at most one event for each of its calls, a receive's only
\* when it has returned; it has announced its events when it closes, and its log
\* is whole until rank 0 frees its own; and hooks have set the error handler.
RankLog(r) ==
    /\ r # 0 => pc[r] \notin {"gather", "layout", "analyze"}
    /\ r = 0 => pc[r] # "gatherv"
    /\ pc[r] \in Closing => local_n[r] = g_seq[r]
    /\ pc[r] \notin Closing => local_n[r] = -1 \/ (pc[r] = "aborted" /\ local_n[r] = g_seq[r])
    /\ g_seq[r] <= ncalls[r] /\ ncalls[r] <= Len(Code(r))
    /\ pc[r] \in {"recv", "after_recv"} => g_seq[r] < ncalls[r]
    /\ g_inited[r] => errors_return[r]
    /\ pc[r] = "finalized" => g_events[r] = <<>>
    /\ ~(r = 0 /\ pc[r] = "finalized") => Whole(LogOf(r), g_seq[r], r)

RankLogs == \A r \in Ranks : RankLog(r)

\* A log stays whole when the next event of its rank is appended.
LEMMA WholeAppend ==
  ASSUME NEW l \in Seq(Event), NEW n \in Nat, NEW r, Whole(l, n, r),
         NEW e \in Event, e.rank = r, e.seq = n + 1
  PROVE  Whole(Append(l, e), n + 1, r)
<1>1. Len(Append(l, e)) = n + 1
  BY DEF Whole
<1>2. ASSUME NEW k \in 1..(n + 1)
      PROVE  Append(l, e)[k].rank = r /\ Append(l, e)[k].seq = k
  <2>1. CASE k = n + 1
    BY <2>1 DEF Whole
  <2>2. CASE k # n + 1
    <3>1. k \in 1..n /\ Append(l, e)[k] = l[k]
      BY <2>2 DEF Whole
    <3> QED BY <3>1 DEF Whole
  <2> QED BY <2>1, <2>2
<1> QED BY <1>1, <1>2 DEF Whole

\* A rank that does nothing keeps its log.
LEMMA OthersKeepLogs ==
  ASSUME NEW r, RankLog(r), UNCHANGED prog, pc'[r] = pc[r], ncalls'[r] = ncalls[r],
         g_seq'[r] = g_seq[r], g_events'[r] = g_events[r], g_inited'[r] = g_inited[r],
         errors_return'[r] = errors_return[r], sent_block'[r] = sent_block[r],
         local_n'[r] = local_n[r]
  PROVE  RankLog(r)'
BY DEF RankLog, LogOf, Code

\* A step of a rank keeps the logs of all of them.
LEMMA RankStepLogs ==
  ASSUME JobTypes, CallsInHand, RankLogs, NEW r \in Ranks, RankStep(r), UNCHANGED setting
  PROVE  RankLogs'
<1> USE DEF setting, log, gather, Goto, InitIfNeeded
<1>0. /\ RankLog(r) /\ g_seq[r] \in Nat /\ ncalls[r] \in Nat /\ g_events[r] \in Seq(Event)
      /\ Len(g_events[r]) \in Nat /\ UNCHANGED prog
      /\ g_inited[r] \in BOOLEAN /\ errors_return[r] \in BOOLEAN
  BY DEF RankLogs, JobTypes
<1>1. CASE \/ MPIInit(r) \/ MsanInit(r) \/ DoSend(r) \/ SyncDone(r) \/ EndColl(r) \/ DoRecv(r)
           \/ RecvAborts(r) \/ Stopped(r)
  <2>1. PICK l \in {"msan_init", "run", "sync", "after_recv", "aborted"} :
          /\ pc' = [pc EXCEPT ![r] = l]
          /\ l = "after_recv" => pc[r] = "recv"
          /\ l = "aborted" \/ pc[r] \in {"start", "msan_init", "send", "sync", "coll", "recv"}
    BY <1>1 DEF MPIInit, MsanInit, DoSend, SyncDone, EndColl, DoRecv, RecvAborts, Stopped
  <2>2. /\ UNCHANGED <<ncalls, g_seq, g_events, local_n, sent_block>>
        /\ UNCHANGED <<g_inited, errors_return>> \/ MsanInit(r)
    BY <1>1 DEF MPIInit, MsanInit, DoSend, SyncDone, EndColl, DoRecv, RecvAborts, Stopped
  <2>3. pc[r] \notin {"aborted", "finalized"}
    BY <1>1 DEF MPIInit, MsanInit, DoSend, SyncDone, EndColl, DoRecv, RecvAborts, Stopped
  <2>4. /\ \A q \in Ranks \ {r} : g_inited'[q] = g_inited[q] /\ errors_return'[q] = errors_return[q]
        /\ g_inited'[r] => errors_return'[r]
    BY <1>0, <2>1, <2>2 DEF MsanInit, JobTypes, RankLog
  <2>5. RankLog(r)'
    <3>1. pc'[r] = l
      BY <2>1 DEF JobTypes
    <3>2. LogOf(r)' = LogOf(r) /\ Code(r)' = Code(r)
      BY <1>0, <2>2, <2>3, <3>1 DEF LogOf, Code
    <3> QED BY <1>0, <2>1, <2>2, <2>3, <2>4, <3>1, <3>2 DEF RankLog, Closing
  <2>6. \A q \in Ranks \ {r} : RankLog(q)'
    BY <1>0, <2>1, <2>2, <2>4, OthersKeepLogs DEF RankLogs, JobTypes
  <2> QED BY <2>5, <2>6 DEF RankLogs
<1>2. ASSUME NEW c \in Options(r), BeginSend(r, c) \/ BeginRecv(r, c) \/ BeginColl(r, c)
      PROVE  RankLogs'
  <2>1. /\ ncalls[r] < Len(Code(r)) /\ Len(Code(r)) \in Nat
        /\ BeginSend(r, c) \/ BeginColl(r, c) => Logs(r)
    BY <1>2, BeginFacts
  <2>2. /\ pc' = [pc EXCEPT ![r] = IF c.op = "Send" THEN "send" ELSE IF c.op = "Recv" THEN "recv" ELSE "coll"]
        /\ ncalls' = [ncalls EXCEPT ![r] = @ + 1] /\ pc[r] = "run"
        /\ UNCHANGED gather
        /\ BeginRecv(r, c) => UNCHANGED log
        /\ BeginRecv(r, c) <=> c.op = "Recv"
    BY <1>2 DEF BeginSend, BeginRecv, BeginColl, Call, CollectiveOps
  <2>3. /\ pc'[r] \in {"send", "recv", "coll"} /\ (pc'[r] = "recv" => BeginRecv(r, c))
        /\ ncalls'[r] = ncalls[r] + 1 /\ Code(r)' = Code(r)
        /\ local_n'[r] = -1
    <3>1. local_n[r] = -1
      BY <1>0, <2>2 DEF RankLog, Closing
    <3> QED BY <1>0, <2>2, <3>1 DEF JobTypes, Code
  <2>4. RankLog(r)'
    <3>1. CASE Logs(r) /\ ~BeginRecv(r, c)
      <4>1. PICK e \in Event : /\ e.rank = r /\ e.seq = g_seq[r] + 1
                               /\ g_events' = [g_events EXCEPT ![r] = Append(@, e)]
        BY <3>1 DEF Logs
      <4>2. Whole(g_events[r], g_seq[r], r)
        BY <1>0, <2>2 DEF RankLog, LogOf
      <4>3. /\ g_events'[r] = Append(g_events[r], e) /\ g_seq'[r] = g_seq[r] + 1
            /\ g_inited'[r] = TRUE /\ errors_return'[r] = TRUE
        BY <3>1, <4>1 DEF Logs, JobTypes
      <4>4. Whole(g_events'[r], g_seq'[r], r)
        BY <1>0, <4>1, <4>2, <4>3, WholeAppend
      <4>5. LogOf(r)' = g_events'[r]
        BY <2>3 DEF LogOf
      <4>6. Whole(LogOf(r), g_seq[r], r)'
        BY <4>4, <4>5 DEF Whole
      <4> QED BY <1>0, <2>1, <2>3, <3>1, <4>3, <4>6 DEF RankLog, Closing
    <3>2. CASE BeginRecv(r, c)
      <4>1. LogOf(r)' = LogOf(r) /\ UNCHANGED <<g_seq, g_events, g_inited, errors_return>>
        BY <2>2, <2>3, <3>2 DEF LogOf
      <4> QED BY <1>0, <2>1, <2>2, <2>3, <4>1 DEF RankLog, Closing
    <3> QED BY <1>2, <2>1, <2>2, <3>1, <3>2 DEF BeginRecv, BeginSend, BeginColl
  <2>5. \A q \in Ranks \ {r} : RankLog(q)'
    <3>1. \A q \in Ranks \ {r} : /\ g_events'[q] = g_events[q] /\ g_seq'[q] = g_seq[q]
                                 /\ g_inited'[q] = g_inited[q] /\ errors_return'[q] = errors_return[q]
      BY <1>2, <2>1, <2>2 DEF Logs, JobTypes
    <3> QED BY <1>0, <2>2, <3>1, OthersKeepLogs DEF RankLogs, JobTypes
  <2> QED BY <2>4, <2>5 DEF RankLogs
<1>3. CASE AfterRecv(r)
  <2>1. Logs(r) /\ pc[r] = "after_recv" /\ pc' = [pc EXCEPT ![r] = "run"] /\ UNCHANGED <<ncalls, gather>>
    BY <1>3, AfterRecvFacts DEF AfterRecv, CallsInHand
  <2>2. PICK e \in Event : /\ e.rank = r /\ e.seq = g_seq[r] + 1
                           /\ g_events' = [g_events EXCEPT ![r] = Append(@, e)]
    BY <2>1 DEF Logs
  <2>3. Whole(g_events[r], g_seq[r], r)
    BY <1>0, <2>1 DEF RankLog, LogOf
  <2>4. /\ g_events'[r] = Append(g_events[r], e) /\ g_seq'[r] = g_seq[r] + 1
        /\ g_inited'[r] = TRUE /\ errors_return'[r] = TRUE /\ pc'[r] = "run"
    BY <2>1, <2>2 DEF Logs, JobTypes
  <2>5. Whole(g_events'[r], g_seq'[r], r)
    BY <1>0, <2>2, <2>3, <2>4, WholeAppend
  <2>6. LogOf(r)' = g_events'[r] /\ Code(r)' = Code(r)
    BY <1>0, <2>4 DEF LogOf, Code
  <2>7. Whole(LogOf(r), g_seq[r], r)'
    BY <2>5, <2>6 DEF Whole
  <2>8. RankLog(r)'
    BY <1>0, <2>1, <2>4, <2>6, <2>7 DEF RankLog, Closing
  <2>9. \A q \in Ranks \ {r} : RankLog(q)'
    <3>1. \A q \in Ranks \ {r} : /\ g_events'[q] = g_events[q] /\ g_seq'[q] = g_seq[q]
                                 /\ g_inited'[q] = g_inited[q] /\ errors_return'[q] = errors_return[q]
      BY <2>1, <2>2 DEF Logs, JobTypes
    <3> QED BY <1>0, <2>1, <3>1, OthersKeepLogs DEF RankLogs, JobTypes
  <2> QED BY <2>8, <2>9 DEF RankLogs
<1>4. CASE Finalize(r)
  <2>1. /\ pc[r] = "run" /\ pc' = [pc EXCEPT ![r] = IF r = 0 THEN "gather" ELSE "gatherv"]
        /\ local_n' = [local_n EXCEPT ![r] = Len(g_events[r])]
        /\ g_inited' = [g_inited EXCEPT ![r] = TRUE]
        /\ errors_return' = [errors_return EXCEPT ![r] = TRUE]
        /\ UNCHANGED <<ncalls, g_seq, g_events, sent_block>>
    BY <1>4 DEF Finalize
  <2>2. Whole(g_events[r], g_seq[r], r)
    BY <1>0, <2>1 DEF RankLog, LogOf
  <2>3. /\ pc'[r] = IF r = 0 THEN "gather" ELSE "gatherv"
        /\ local_n'[r] = g_seq[r] /\ g_inited'[r] = TRUE /\ errors_return'[r] = TRUE
    BY <2>1, <2>2 DEF JobTypes, Whole
  <2>4. LogOf(r)' = LogOf(r) /\ Code(r)' = Code(r)
    BY <1>0, <2>1, <2>3 DEF LogOf, Code
  <2>5. RankLog(r)'
    BY <1>0, <2>1, <2>3, <2>4 DEF RankLog, Closing
  <2>6. \A q \in Ranks \ {r} : RankLog(q)'
    BY <1>0, <2>1, OthersKeepLogs DEF RankLogs, JobTypes
  <2> QED BY <2>5, <2>6 DEF RankLogs
<1>5. CASE SendBlock(r)
  <2>1. /\ r # 0 /\ pc[r] = "gatherv" /\ pc' = [pc EXCEPT ![r] = "finalized"]
        /\ sent_block' = [sent_block EXCEPT ![r] = g_events[r]]
        /\ g_events' = [g_events EXCEPT ![r] = <<>>]
        /\ UNCHANGED <<ncalls, g_seq, g_inited, errors_return, local_n>>
    BY <1>5 DEF SendBlock
  <2>2. Whole(g_events[r], g_seq[r], r)
    BY <1>0, <2>1 DEF RankLog, LogOf
  <2>3. pc'[r] = "finalized" /\ sent_block'[r] = g_events[r] /\ g_events'[r] = <<>>
    BY <2>1 DEF JobTypes
  <2>4. LogOf(r)' = g_events[r] /\ Code(r)' = Code(r)
    BY <1>0, <2>1, <2>3 DEF LogOf, Code
  <2>5. RankLog(r)'
    BY <1>0, <2>1, <2>2, <2>3, <2>4 DEF RankLog, Closing, Whole
  <2>6. \A q \in Ranks \ {r} : RankLog(q)'
    BY <1>0, <2>1, OthersKeepLogs DEF RankLogs, JobTypes
  <2> QED BY <2>5, <2>6 DEF RankLogs
<1> QED BY <1>1, <1>2, <1>3, <1>4, <1>5 DEF RankStep

\* Every step of the job keeps the logs.
LEMMA JobStepLogs ==
  ASSUME JobTypes, CallsInHand, RankLogs, JobNext
  PROVE  RankLogs'
<1> USE DEF setting, program, log, gather, Goto
<1>1. CASE \E r \in Ranks : RankStep(r) /\ UNCHANGED setting
  BY <1>1, RankStepLogs
<1>2. CASE (Gather \/ Layout \/ Gatherv) /\ UNCHANGED setting
  <2>1. PICK l \in {pc[0], "layout", "analyze"} : pc' = [pc EXCEPT ![0] = l]
    BY <1>2, ZeroIsRank DEF Gather, Layout, Gatherv, JobTypes
  <2>2. /\ pc[0] \in {"gather", "layout"}
        /\ UNCHANGED <<prog, ncalls, g_seq, g_events, g_inited, errors_return, sent_block, local_n>>
    BY <1>2 DEF Gather, Layout, Gatherv
  <2>3. RankLog(0)'
    <3>1. pc'[0] = l /\ RankLog(0)
      BY <2>1, ZeroIsRank DEF JobTypes, RankLogs
    <3>2. LogOf(0)' = LogOf(0) /\ Code(0)' = Code(0)
      BY <2>2 DEF LogOf, Code
    <3> QED BY <2>1, <2>2, <3>1, <3>2 DEF RankLog, Closing
  <2>4. \A q \in Ranks \ {0} : RankLog(q)'
    BY <2>1, <2>2, OthersKeepLogs DEF RankLogs, JobTypes
  <2> QED BY <2>3, <2>4 DEF RankLogs
<1>3. CASE AnalysisReturns /\ UNCHANGED setting
  <2>1. /\ pc[0] = "analyze" /\ pc' = [pc EXCEPT ![0] = "finalized"]
        /\ g_events' = [g_events EXCEPT ![0] = <<>>]
        /\ UNCHANGED <<prog, ncalls, g_seq, g_inited, errors_return, sent_block, local_n>>
    BY <1>3 DEF AnalysisReturns
  <2>2. RankLog(0)'
    <3>1. pc'[0] = "finalized" /\ g_events'[0] = <<>> /\ RankLog(0)
      BY <2>1, ZeroIsRank DEF JobTypes, RankLogs
    <3>2. Code(0)' = Code(0)
      BY <2>1 DEF Code
    <3> QED BY <2>1, <3>1, <3>2 DEF RankLog, Closing
  <2>3. \A q \in Ranks \ {0} : RankLog(q)'
    BY <2>1, OthersKeepLogs DEF RankLogs, JobTypes
  <2> QED BY <2>2, <2>3 DEF RankLogs
<1>4. CASE \/ Network /\ UNCHANGED setting
           \/ Tick \/ UNCHANGED jobvars
  <2>1. UNCHANGED <<prog, pc, ncalls, g_seq, g_events, g_inited, errors_return, sent_block, local_n>>
    BY <1>4 DEF Network, Damage, Tick, jobvars
  <2> QED BY <2>1, OthersKeepLogs DEF RankLogs
<1> QED BY <1>1, <1>2, <1>3, <1>4 DEF JobNext

\* Nothing is logged before MPI_Init.
LEMMA InitLogs == JobInit => RankLogs
<1> SUFFICES ASSUME JobInit, NEW r \in Ranks PROVE RankLog(r)
  BY DEF RankLogs
<1>1. Code(r) \in Seq(SUBSET (Calls \cup {NoCall}))
  BY RuntimeAssumption DEF JobInit, Code
<1>2. Len(Code(r)) \in Nat
  BY <1>1
<1> QED BY <1>2 DEF JobInit, RankLog, LogOf, Whole, Closing

\* For all programs and every number of ranks, the logs are whole.
THEOREM LogsAreWhole == Spec => []RankLogs
<1>1. Init => RankLogs
  BY InitLogs DEF Init
<1>2. (JobTypes /\ CallsInHand) /\ RankLogs /\ [Next]_sysvars => RankLogs'
  BY NextIsJobNext, JobStepLogs
<1> QED BY <1>1, <1>2, JobTypeCorrect, PTL DEF Spec

\* What an error needs to be fatal: a rank that receives before its first hook.  A rank
\* that is past its initialisation has run a hook, unless its MPI_Init has none, and
\* receives on MPI_COMM_WORLD.
AbortInv ==
    /\ \A r \in Ranks : pc[r] \notin {"start", "msan_init"} => g_inited[r] \/ FALSE \in InitHooks
    /\ \A r \in Ranks : pc[r] = "recv" => cur[r].comm = MPI_COMM_WORLD
    /\ NoAbort

\* A step of a rank that is no error leaves every rank that is stopped, with what hooks
\* it has run.
LEMMA NoAbortKept ==
  ASSUME JobTypes, AbortInv, NEW r \in Ranks, UNCHANGED prog, NEW l,
         pc' = [pc EXCEPT ![r] = l], pc[r] # "aborted", l # "aborted",
         \A q \in Ranks \ {r} : g_inited'[q] = g_inited[q]
  PROVE  NoAbort'
<1>1. \A q \in Ranks : /\ pc'[q] = "aborted" => pc[q] = "aborted"
                       /\ pc[q] = "aborted" => pc'[q] = "aborted" /\ g_inited'[q] = g_inited[q]
  BY DEF JobTypes
<1>2. InitHooks' = InitHooks
  BY DEF InitHooks
<1> QED BY <1>1, <1>2 DEF AbortInv, NoAbort

\* A rank whose call and hooks are as they were stays as it was.
LEMMA RankStepAborts ==
  ASSUME ReceivesOnWorld, JobTypes, RankLogs, AbortInv, NEW r \in Ranks, RankStep(r), UNCHANGED setting
  PROVE  AbortInv'
<1> USE DEF setting, log, Goto, InitIfNeeded
<1>0. /\ UNCHANGED prog /\ InitHooks' = InitHooks /\ InitHooks \subseteq BOOLEAN
      /\ pc \in [Ranks -> Places] /\ g_inited \in [Ranks -> BOOLEAN]
  BY RuntimeAssumption DEF JobTypes, InitHooks
<1>1. ASSUME NEW c \in Options(r), BeginSend(r, c) \/ BeginRecv(r, c) \/ BeginColl(r, c)
      PROVE  AbortInv'
  <2>1. PICK l \in {"send", "recv", "coll"} :
          /\ pc' = [pc EXCEPT ![r] = l] /\ pc[r] = "run" /\ cur' = [cur EXCEPT ![r] = c]
          /\ l = "recv" => c.op = "Recv" /\ UNCHANGED g_inited
          /\ l # "recv" => g_inited' = [g_inited EXCEPT ![r] = TRUE]
    BY <1>1 DEF BeginSend, BeginRecv, BeginColl, Call, LogEvent
  <2>2. l = "recv" => c.comm = MPI_COMM_WORLD
    <3>1. c # NoCall
      BY <1>1 DEF BeginSend, BeginRecv, BeginColl, CollectiveOps, NoCall
    <3>2. ncalls[r] + 1 \in DOMAIN Code(r) /\ c \in Code(r)[ncalls[r] + 1]
      <4>1. Code(r) \in Seq(SUBSET (Calls \cup {NoCall}))
        BY RuntimeAssumption DEF JobTypes, Code
      <4> QED BY <4>1 DEF Options, JobTypes
    <3> QED BY <2>1, <3>1, <3>2 DEF ReceivesOnWorld, Code, JobTypes
  <2>3. NoAbort'
    BY <1>0, <2>1, NoAbortKept
  <2>4. \A q \in Ranks : /\ pc'[q] = "recv" => cur'[q].comm = MPI_COMM_WORLD
                         /\ pc'[q] \notin {"start", "msan_init"} => g_inited'[q] \/ FALSE \in InitHooks
    <3>1. \A q \in Ranks \ {r} : pc'[q] = pc[q] /\ cur'[q] = cur[q] /\ g_inited'[q] = g_inited[q]
      BY <1>0, <2>1 DEF JobTypes
    <3>2. pc'[r] = l /\ cur'[r] = c /\ (g_inited[r] => g_inited'[r]) /\ (l # "recv" => g_inited'[r])
      BY <1>0, <2>1 DEF JobTypes
    <3> QED BY <2>1, <2>2, <3>1, <3>2 DEF AbortInv
  <2> QED BY <1>0, <2>3, <2>4 DEF AbortInv
<1>2. CASE \/ MPIInit(r) \/ MsanInit(r) \/ DoSend(r) \/ SyncDone(r) \/ DoRecv(r) \/ AfterRecv(r)
           \/ EndColl(r) \/ Finalize(r) \/ SendBlock(r)
  <2>1. PICK l :
          /\ pc' = [pc EXCEPT ![r] = l] /\ l \notin {"aborted", "recv"} /\ pc[r] # "aborted"
          /\ UNCHANGED cur
          /\ UNCHANGED g_inited \/ g_inited' = [g_inited EXCEPT ![r] = TRUE]
          /\ \/ l = "msan_init" \/ pc[r] \notin {"start", "msan_init"}
             \/ FALSE \in InitHooks \/ g_inited' = [g_inited EXCEPT ![r] = TRUE]
    <3>1. CASE MPIInit(r)
      BY <1>0, <3>1 DEF MPIInit
    <3>2. CASE MsanInit(r) \/ AfterRecv(r)
      <4>1. /\ pc' = [pc EXCEPT ![r] = "run"] /\ pc[r] \in {"msan_init", "after_recv"}
            /\ UNCHANGED cur /\ g_inited' = [g_inited EXCEPT ![r] = TRUE]
        BY <3>2 DEF MsanInit, AfterRecv, LogEvent
      <4>2. WITNESS "run"
      <4> QED BY <4>1
    <3>3. CASE DoSend(r)
      <4>1. PICK l \in {"run", "sync"} : pc' = [pc EXCEPT ![r] = l]
        BY <3>3 DEF DoSend
      <4> QED BY <3>3, <4>1 DEF DoSend
    <3>4. CASE DoRecv(r)
      <4>1. /\ pc' = [pc EXCEPT ![r] = "after_recv"] /\ pc[r] = "recv"
            /\ UNCHANGED <<cur, g_inited>>
        BY <3>4 DEF DoRecv
      <4>2. WITNESS "after_recv"
      <4> QED BY <4>1
    <3>5. CASE SyncDone(r) \/ EndColl(r)
      BY <3>5 DEF SyncDone, EndColl
    <3>6. CASE Finalize(r) \/ SendBlock(r)
      <4>1. PICK l \in {"gather", "gatherv", "finalized"} : pc' = [pc EXCEPT ![r] = l]
        BY <3>6 DEF Finalize, SendBlock
      <4>2. /\ pc[r] \in {"run", "gatherv"} /\ UNCHANGED cur
            /\ UNCHANGED g_inited \/ g_inited' = [g_inited EXCEPT ![r] = TRUE]
        BY <3>6 DEF Finalize, SendBlock
      <4>3. WITNESS l
      <4> QED BY <4>1, <4>2
    <3> QED BY <1>2, <3>1, <3>2, <3>3, <3>4, <3>5, <3>6
  <2>2. NoAbort'
    BY <1>0, <2>1, NoAbortKept
  <2>3. \A q \in Ranks : /\ pc'[q] = "recv" => cur'[q].comm = MPI_COMM_WORLD
                         /\ pc'[q] \notin {"start", "msan_init"} => g_inited'[q] \/ FALSE \in InitHooks
    <3>1. \A q \in Ranks \ {r} : pc'[q] = pc[q] /\ g_inited'[q] = g_inited[q]
      BY <1>0, <2>1
    <3>2. /\ pc'[r] = l /\ (g_inited[r] => g_inited'[r])
          /\ \/ l = "msan_init" \/ pc[r] \notin {"start", "msan_init"}
             \/ FALSE \in InitHooks \/ g_inited'[r]
      BY <1>0, <2>1
    <3> QED BY <2>1, <3>1, <3>2 DEF AbortInv
  <2> QED BY <1>0, <2>2, <2>3 DEF AbortInv
<1>3. CASE RecvAborts(r) \/ Stopped(r)
  <2>1. /\ pc' = [pc EXCEPT ![r] = "aborted"] /\ UNCHANGED <<cur, g_inited>> /\ pc[r] # "aborted"
    BY <1>3 DEF RecvAborts, Stopped
  <2>2. FALSE \in InitHooks /\ \E q \in Ranks : pc'[q] = "aborted" /\ ~g_inited[q]
    <3>1. CASE RecvAborts(r)
      <4>1. pc[r] = "recv" /\ ~errors_return[r]
        BY <3>1 DEF RecvAborts, AbortInv
      <4>2. ~g_inited[r]
        BY <4>1 DEF RankLogs, RankLog
      <4> QED BY <4>1, <4>2, <2>1, <1>0 DEF AbortInv
    <3>2. CASE Stopped(r)
      <4>1. PICK q \in Ranks : pc[q] = "aborted" /\ ~g_inited[q]
        BY <3>2 DEF Stopped, AbortInv, NoAbort
      <4>2. FALSE \in InitHooks
        BY <4>1 DEF AbortInv, NoAbort
      <4> QED BY <4>1, <4>2, <2>1, <1>0
    <3> QED BY <1>3, <3>1, <3>2
  <2>3. \A q \in Ranks : pc'[q] = "recv" => pc[q] = "recv"
    BY <2>1, <1>0
  <2> QED BY <1>0, <2>1, <2>2, <2>3 DEF AbortInv, NoAbort
<1> QED BY <1>1, <1>2, <1>3 DEF RankStep

\* For all programs that receive on MPI_COMM_WORLD and every number of ranks, an MPI
\* error ends the job only where a file that calls MPI_Init is not instrumented, and
\* through a rank that has not run a hook when it receives.
THEOREM NoRankAborts ==
  ASSUME ReceivesOnWorld
  PROVE  Spec => []NoAbort
<1>1. Init => AbortInv
  BY DEF Init, JobInit, AbortInv, NoAbort
<1>2. JobTypes /\ RankLogs /\ AbortInv /\ [Next]_sysvars => AbortInv'
  <2> SUFFICES ASSUME JobTypes, RankLogs, AbortInv, JobNext PROVE AbortInv'
    BY NextIsJobNext
  <2>1. CASE \E r \in Ranks : RankStep(r) /\ UNCHANGED setting
    BY <2>1, RankStepAborts
  <2>2. CASE (Gather \/ Layout \/ Gatherv \/ AnalysisReturns) /\ UNCHANGED setting
    <3>1. PICK l \in {"layout", "analyze", "finalized"} : pc' = [pc EXCEPT ![0] = l]
      BY <2>2, ZeroIsRank DEF Gather, Layout, Gatherv, AnalysisReturns, Goto, program, JobTypes
    <3>2. pc[0] \in {"gather", "layout", "analyze"} /\ UNCHANGED <<prog, cur, g_inited>>
      BY <2>2 DEF Gather, Layout, Gatherv, AnalysisReturns, setting, program, log
    <3>3. NoAbort'
      BY <3>1, <3>2, ZeroIsRank, NoAbortKept
    <3>4. \A q \in Ranks : /\ pc'[q] = "recv" => pc[q] = "recv"
                           /\ pc'[q] \notin {"start", "msan_init"} => pc[q] \notin {"start", "msan_init"}
      BY <3>1, <3>2 DEF JobTypes
    <3> QED BY <3>2, <3>3, <3>4 DEF AbortInv, InitHooks
  <2>3. CASE (Network /\ UNCHANGED setting) \/ Tick \/ UNCHANGED jobvars
    <3>1. UNCHANGED <<prog, pc, cur, g_inited>>
      BY <2>3 DEF Network, Damage, Tick, jobvars, setting, program, log
    <3> QED BY <3>1 DEF AbortInv, NoAbort, InitHooks
  <2> QED BY <2>1, <2>2, <2>3 DEF JobNext
<1>3. AbortInv => NoAbort
  BY DEF AbortInv
<1> QED BY <1>1, <1>2, <1>3, JobTypeCorrect, LogsAreWhole, PTL DEF Spec

-----------------------------------------------------------------------------
(* The array that rank 0 gathers.                                           *)

\* A factor keeps the order.
LEMMA TimesKeepsOrder ==
  ASSUME NEW a \in Nat, NEW b \in Nat, NEW c \in Nat, a <= b
  PROVE  a * c <= b * c
<1>1. PICK d \in Nat : b = a + d
  <2>1. b - a \in Nat /\ b = a + (b - a)
    OBVIOUS
  <2> QED BY <2>1
<1>2. b * c = a * c + d * c /\ d * c \in Nat /\ a * c \in Nat
  BY <1>1
<1> QED BY <1>2

\* If each of n ranks has no more than an n-th of m bytes, the first of them
\* together have no more than m.
LEMMA SharesFit ==
  ASSUME NEW t \in Nat, NEW c \in Nat, NEW l \in Nat, NEW n \in Nat \ {0}, NEW b \in Nat \ {0},
         NEW m \in Nat, t * n * b <= l * m, c * n * b <= m, l + 1 <= n
  PROVE  /\ (t + c) * n * b <= (l + 1) * m
         /\ (t + c) * b <= m /\ t * b <= m /\ c * b <= m /\ t + c <= m
<1> DEFINE x == (t + c) * b
<1>1. (t + c) * n * b = t * n * b + c * n * b /\ (l + 1) * m = l * m + m
  OBVIOUS
<1>2. (t + c) * n * b <= (l + 1) * m
  <2>1. t * n * b \in Nat /\ c * n * b \in Nat /\ l * m \in Nat
    OBVIOUS
  <2> QED BY <1>1, <2>1
<1>3. x \in Nat /\ (t + c) * n * b = x * n
  OBVIOUS
<1>4. (l + 1) * m <= n * m
  BY TimesKeepsOrder
<1> HIDE DEF x
<1>5. x <= m
  <2> SUFFICES ASSUME m + 1 <= x PROVE FALSE
    BY <1>3
  <2>1. (m + 1) * n <= x * n
    BY <1>3, TimesKeepsOrder
  <2>2. (m + 1) * n = n * m + n /\ n * m \in Nat
    OBVIOUS
  <2> QED BY <1>2, <1>3, <1>4, <2>1, <2>2
<1>6. x = t * b + c * b /\ t * b \in Nat /\ c * b \in Nat
  BY DEF x
<1>7. (t + c) * 1 <= (t + c) * b
  <2>1. 1 * (t + c) <= b * (t + c)
    BY TimesKeepsOrder
  <2> QED BY <2>1
<1>8. t + c <= x
  BY <1>7 DEF x
<1> QED BY <1>2, <1>3, <1>5, <1>6, <1>8 DEF x

\* The blocks placed so far, in events: off[r] events stand before r's block; the
\* blocks are in the order of the ranks, inside of the array, and cover it.
Placed(off) ==
    /\ \A r \in 0..(li - 1) : /\ displs_bytes[r] = off[r] * EventBytes
                              /\ recvcounts_bytes[r] = counts_events[r] * EventBytes
                              /\ off[r] + counts_events[r] <= exact_total
    /\ \A q, r \in 0..(li - 1) : q < r => off[q] + counts_events[q] <= off[r]
    /\ \A k \in 1..exact_total : \E r \in 0..(li - 1) :
            off[r] < k /\ k <= off[r] + counts_events[r]

\* Rank 0 lays out the announced counts, when all of them have arrived; nothing
\* wraps; and it goes on with the analysis when it has all blocks.
RootInv ==
    /\ LTypeOK
    /\ exact_total * num_ranks * EventBytes <= li * IntMax
    /\ total_events = exact_total
    /\ \E off \in [Ranks -> Nat] : Placed(off)
    /\ pc[0] \notin {"layout", "analyze", "finalized", "aborted"} => LInit
    /\ pc[0] \in {"layout", "analyze", "finalized"} =>
            counts_events = local_n /\ \A r \in Ranks : local_n[r] # -1
    /\ pc[0] \in {"analyze", "finalized"} =>
            LDone /\ \A r \in Ranks \ {0} : pc[r] = "finalized"

\* The log of a rank fits its share of the array.
LEMMA LogFits ==
  ASSUME LogsFit, JobTypes, RankLogs, NEW r \in Ranks
  PROVE  g_seq[r] * num_ranks * EventBytes <= IntMax /\ g_seq[r] <= IntMax /\ g_seq[r] \in Nat
<1> DEFINE n == Len(Code(r))
<1>1. n \in Nat
  BY RuntimeAssumption DEF JobTypes, Code
<1>2. n * num_ranks * EventBytes <= IntMax
  BY DEF LogsFit, JobTypes, Code
<1>3. g_seq[r] \in Nat /\ g_seq[r] <= n
  BY <1>1 DEF RankLogs, RankLog, JobTypes
<1> HIDE DEF n
<1>4. num_ranks \in Nat \ {0} /\ EventBytes \in Nat \ {0} /\ IntMax \in Nat
  BY RanksAssumption, LayoutAssumption
<1>5. PICK d \in Nat \ {0} : d = num_ranks * EventBytes
  BY <1>4
<1>6. n * d <= IntMax
  BY <1>1, <1>2, <1>4, <1>5
<1>7. g_seq[r] * d <= n * d
  BY <1>1, <1>3, <1>5, TimesKeepsOrder
<1>8. g_seq[r] * d \in Nat /\ n * d \in Nat /\ g_seq[r] * num_ranks * EventBytes = g_seq[r] * d
  BY <1>1, <1>3, <1>4, <1>5
<1>9. 1 * g_seq[r] <= d * g_seq[r]
  BY <1>3, TimesKeepsOrder
<1>10. g_seq[r] * d <= IntMax
  BY <1>4, <1>6, <1>7, <1>8
<1>11. g_seq[r] <= IntMax
  BY <1>3, <1>4, <1>8, <1>9, <1>10
<1> QED BY <1>3, <1>8, <1>10, <1>11

\* One more block is placed.
LEMMA PlaceStep ==
  ASSUME LogsFit, JobTypes, RankLogs, RootInv, counts_events = local_n,
         \A r \in Ranks : local_n[r] # -1, LStep
  PROVE  /\ LTypeOK'
         /\ exact_total' * num_ranks * EventBytes <= li' * IntMax
         /\ total_events' = exact_total'
         /\ \E off \in [Ranks -> Nat] : Placed(off)'
<1> DEFINE c == counts_events[li]
<1>0. /\ num_ranks \in Nat \ {0} /\ EventBytes \in Nat \ {0} /\ IntMax \in Nat
      /\ li \in Ranks /\ li \in Nat /\ li' = li + 1 /\ counts_events' = counts_events
      /\ li + 1 <= num_ranks /\ exact_total \in Nat /\ total_events = exact_total
      /\ 0..(li - 1) \subseteq Ranks /\ Ranks \subseteq Nat
  BY RanksAssumption, LayoutAssumption DEF RootInv, LTypeOK, LStep, Ranks
<1>1. c \in Nat /\ c = g_seq[li] /\ c * num_ranks * EventBytes <= IntMax
  BY <1>0, LogFits DEF RankLogs, RankLog
<1>2. /\ exact_total' = exact_total + c
      /\ (exact_total + c) * num_ranks * EventBytes <= (li + 1) * IntMax
      /\ (exact_total + c) * EventBytes <= IntMax
      /\ exact_total * EventBytes <= IntMax /\ c * EventBytes <= IntMax /\ exact_total + c <= IntMax
  <2>1. exact_total * num_ranks * EventBytes <= li * IntMax
    BY DEF RootInv
  <2>2. exact_total' = exact_total + c
    BY DEF LStep
  <2> HIDE DEF c
  <2>3. /\ exact_total \in Nat /\ c \in Nat /\ li \in Nat /\ num_ranks \in Nat \ {0}
        /\ EventBytes \in Nat \ {0} /\ IntMax \in Nat
        /\ exact_total * num_ranks * EventBytes <= li * IntMax
        /\ c * num_ranks * EventBytes <= IntMax /\ li + 1 <= num_ranks
    BY <1>0, <1>1, <2>1
  <2>4. /\ (exact_total + c) * num_ranks * EventBytes <= (li + 1) * IntMax
        /\ (exact_total + c) * EventBytes <= IntMax
        /\ exact_total * EventBytes <= IntMax /\ c * EventBytes <= IntMax /\ exact_total + c <= IntMax
    BY <2>3, SharesFit, Zenon
  <2> QED BY <2>2, <2>4
<1>3. /\ displs_bytes' = [displs_bytes EXCEPT ![li] = exact_total * EventBytes]
      /\ recvcounts_bytes' = [recvcounts_bytes EXCEPT ![li] = c * EventBytes]
      /\ total_events' = exact_total + c
  <2>1. ToInt(exact_total * EventBytes) = exact_total * EventBytes
    BY <1>0, <1>2, ToIntFits
  <2>2. ToInt(c * EventBytes) = c * EventBytes
    BY <1>0, <1>1, <1>2, ToIntFits
  <2>3. ToInt(exact_total + c) = exact_total + c
    BY <1>0, <1>1, <1>2, ToIntFits
  <2> QED BY <1>0, <2>1, <2>2, <2>3 DEF LStep
<1>4. /\ displs_bytes \in [Ranks -> IntRange] /\ recvcounts_bytes \in [Ranks -> IntRange]
      /\ counts_events \in [Ranks -> 0..IntMax]
  BY DEF RootInv, LTypeOK
<1>5. LTypeOK'
  <2>1. exact_total * EventBytes \in IntRange /\ c * EventBytes \in IntRange /\ exact_total + c \in IntRange
    BY <1>0, <1>1, <1>2 DEF IntRange
  <2> QED BY <1>0, <1>1, <1>2, <1>3, <1>4, <2>1 DEF LTypeOK
<1>6. PICK off \in [Ranks -> Nat] : Placed(off)
  BY DEF RootInv
<1>7. PICK o \in [Ranks -> Nat] :
      /\ o[li] = exact_total /\ \A r \in 0..(li - 1) : o[r] = off[r] /\ r # li
      /\ displs_bytes'[li] = exact_total * EventBytes
      /\ recvcounts_bytes'[li] = c * EventBytes
      /\ \A r \in 0..(li - 1) : /\ displs_bytes'[r] = displs_bytes[r]
                                /\ recvcounts_bytes'[r] = recvcounts_bytes[r]
  <2> DEFINE f == [off EXCEPT ![li] = exact_total]
  <2>1. f \in [Ranks -> Nat] /\ f[li] = exact_total /\ \A r \in 0..(li - 1) : f[r] = off[r] /\ r # li
    BY <1>0, <1>6
  <2>2. /\ displs_bytes'[li] = exact_total * EventBytes
        /\ recvcounts_bytes'[li] = c * EventBytes
        /\ \A r \in 0..(li - 1) : /\ displs_bytes'[r] = displs_bytes[r]
                                  /\ recvcounts_bytes'[r] = recvcounts_bytes[r]
    BY <1>0, <1>3, <1>4
  <2> HIDE DEF f
  <2> QED BY <2>1, <2>2
<1>8. \A r \in 0..(li' - 1) : r = li \/ r \in 0..(li - 1)
  BY <1>0
<1>9. \A r \in Ranks : counts_events[r] \in Nat /\ o[r] \in Nat
  BY <1>0, <1>4, <1>7
<1>10. ASSUME NEW r \in 0..(li' - 1)
       PROVE  /\ displs_bytes'[r] = o[r] * EventBytes
              /\ recvcounts_bytes'[r] = counts_events[r] * EventBytes
              /\ o[r] + counts_events[r] <= exact_total'
  <2>1. CASE r = li
    BY <2>1, <1>2, <1>7, <1>0, <1>1
  <2>2. CASE r \in 0..(li - 1)
    <3>1. /\ displs_bytes[r] = off[r] * EventBytes
          /\ recvcounts_bytes[r] = counts_events[r] * EventBytes
          /\ off[r] + counts_events[r] <= exact_total
      BY <2>2, <1>6 DEF Placed
    <3>2. off[r] = o[r] /\ displs_bytes'[r] = displs_bytes[r] /\ recvcounts_bytes'[r] = recvcounts_bytes[r]
      BY <2>2, <1>7
    <3>3. o[r] + counts_events[r] <= exact_total + c
      <4>1. o[r] \in Nat /\ counts_events[r] \in Nat
        BY <2>2, <1>0, <1>9
      <4> QED BY <4>1, <3>1, <3>2, <1>0, <1>1
    <3> QED BY <3>1, <3>2, <3>3, <1>2
  <2> QED BY <2>1, <2>2, <1>8
<1>11. ASSUME NEW q \in 0..(li' - 1), NEW r \in 0..(li' - 1), q < r
       PROVE  o[q] + counts_events[q] <= o[r]
  <2>1. q \in 0..(li - 1)
    BY <1>0, <1>11
  <2>2. CASE r = li
    BY <2>1, <2>2, <1>6, <1>7 DEF Placed
  <2>3. CASE r \in 0..(li - 1)
    BY <2>1, <2>3, <1>6, <1>7, <1>11 DEF Placed
  <2> QED BY <2>2, <2>3, <1>8
<1>12. ASSUME NEW k \in 1..exact_total'
       PROVE  \E r \in 0..(li' - 1) : o[r] < k /\ k <= o[r] + counts_events[r]
  <2>1. CASE k <= exact_total
    <3>1. PICK r \in 0..(li - 1) : off[r] < k /\ k <= off[r] + counts_events[r]
      BY <2>1, <1>0, <1>6 DEF Placed
    <3>2. r \in 0..(li' - 1)
      BY <1>0
    <3> QED BY <3>1, <3>2, <1>7
  <2>2. CASE k > exact_total
    <3>1. li \in 0..(li' - 1)
      BY <1>0
    <3>2. exact_total < k /\ k <= exact_total + c
      BY <2>2, <1>0, <1>1, <1>2
    <3> QED BY <3>1, <3>2, <1>7
  <2> QED BY <2>1, <2>2, <1>0, <1>2, <1>1
<1>13. Placed(o)'
  BY <1>0, <1>10, <1>11, <1>12 DEF Placed
<1> QED BY <1>0, <1>2, <1>3, <1>5, <1>7, <1>13

\* A step that does not touch the layout and the counts, and does not take rank 0 to
\* another part of __msan_finalize, keeps what was said of it.
LEMMA LayoutKept ==
  ASSUME RootInv, UNCHANGED layout, UNCHANGED local_n,
         \A r \in Ranks \ {0} : pc[r] = "finalized" => pc'[r] = "finalized",
         pc'[0] \in {"layout", "analyze", "finalized"} =>
            pc[0] = pc'[0] \/ (pc[0] = "analyze" /\ pc'[0] = "finalized"),
         pc[0] \in {"layout", "analyze", "finalized", "aborted"} =>
            pc'[0] \in {"layout", "analyze", "finalized", "aborted"}
  PROVE  RootInv'
<1>1. LTypeOK' /\ (LInit => LInit') /\ (LDone => LDone')
  BY DEF layout, RootInv, LTypeOK, LInit, LDone
<1>2. PICK off \in [Ranks -> Nat] : Placed(off)
  BY DEF RootInv
<1>3. Placed(off)'
  BY <1>2 DEF Placed, layout
<1>4. \E o \in [Ranks -> Nat] : Placed(o)'
  BY <1>3
<1>5. exact_total' * num_ranks * EventBytes <= li' * IntMax /\ total_events' = exact_total'
      /\ counts_events' = counts_events
  BY DEF layout, RootInv
<1> QED BY <1>1, <1>4, <1>5 DEF RootInv

\* Where a step takes a rank: to the end only from the sending of its log.
LEMMA RankStepMoves ==
  ASSUME JobTypes, NEW r \in Ranks, RankStep(r)
  PROVE  /\ UNCHANGED layout /\ (\E l : pc' = [pc EXCEPT ![r] = l]) /\ pc[r] \notin {"aborted", "finalized"}
         /\ \/ Stopped(r)
            \/ /\ pc[r] \notin {"gather", "layout", "analyze"}
               /\ pc[r] = "gatherv" => r # 0 /\ pc'[r] = "finalized"
               /\ pc[r] # "gatherv" => pc'[r] \notin {"layout", "analyze", "finalized"}
         /\ local_n' = local_n \/ Finalize(r)
<1> USE DEF log, gather, Goto
<1>0. 0 \in Ranks /\ pc \in [Ranks -> Places]
  BY ZeroIsRank DEF JobTypes
<1>1. CASE SendBlock(r)
  BY <1>1, <1>0 DEF SendBlock
<1>2. CASE Finalize(r)
  BY <1>2, <1>0 DEF Finalize
<1>3. CASE \E c \in Options(r) : BeginSend(r, c) \/ BeginRecv(r, c) \/ BeginColl(r, c)
  BY <1>3, <1>0 DEF BeginSend, BeginRecv, BeginColl, Call
<1>4. CASE MPIInit(r) \/ MsanInit(r) \/ DoSend(r) \/ SyncDone(r)
  <2>1. \E l \in {"msan_init", "run", "sync"} : pc' = [pc EXCEPT ![r] = l]
    BY <1>4 DEF MPIInit, MsanInit, DoSend, SyncDone
  <2>2. pc[r] \in {"start", "msan_init", "send", "sync"} /\ UNCHANGED gather
    BY <1>4 DEF MPIInit, MsanInit, DoSend, SyncDone
  <2> QED BY <2>1, <2>2, <1>0
<1>5. CASE DoRecv(r) \/ RecvAborts(r) \/ AfterRecv(r) \/ EndColl(r)
  <2>1. \E l \in {"after_recv", "aborted", "run"} : pc' = [pc EXCEPT ![r] = l]
    BY <1>5 DEF DoRecv, RecvAborts, AfterRecv, EndColl
  <2>2. pc[r] \in {"recv", "after_recv", "coll"} /\ UNCHANGED gather
    BY <1>5 DEF DoRecv, RecvAborts, AfterRecv, EndColl
  <2> QED BY <2>1, <2>2, <1>0
<1>6. CASE Stopped(r)
  BY <1>6 DEF Stopped
<1> QED BY <1>1, <1>2, <1>3, <1>4, <1>5, <1>6 DEF RankStep

\* Every step of the job keeps the layout.
LEMMA JobStepRoot ==
  ASSUME LogsFit, JobTypes, RankLogs, RootInv, JobNext
  PROVE  RootInv'
<1> USE DEF setting, program, log, gather, Goto
<1>0. 0 \in Ranks /\ pc \in [Ranks -> Places]
  BY ZeroIsRank DEF JobTypes
<1>1. ASSUME NEW r \in Ranks, RankStep(r) PROVE RootInv'
  <2>1. /\ UNCHANGED layout /\ (\E l : pc' = [pc EXCEPT ![r] = l]) /\ pc[r] \notin {"aborted", "finalized"}
        /\ \/ Stopped(r)
           \/ /\ pc[r] \notin {"gather", "layout", "analyze"}
              /\ pc[r] = "gatherv" => r # 0 /\ pc'[r] = "finalized"
              /\ pc[r] # "gatherv" => pc'[r] \notin {"layout", "analyze", "finalized"}
        /\ local_n' = local_n \/ Finalize(r)
    BY <1>1, RankStepMoves
  <2>2. CASE pc[r] = "gatherv" /\ ~Stopped(r)
    <3>1. UNCHANGED local_n
      BY <2>1, <2>2 DEF Finalize
    <3>2. pc'[0] = pc[0] /\ \A q \in Ranks : pc'[q] = pc[q] \/ pc'[q] = "finalized"
      BY <2>1, <2>2, <1>0
    <3> QED BY <2>1, <3>1, <3>2, LayoutKept
  <2>4. CASE Stopped(r)
    <3>1. UNCHANGED local_n /\ pc' = [pc EXCEPT ![r] = "aborted"]
      BY <2>4 DEF Stopped
    <3>2. /\ \A q \in Ranks : pc'[q] = pc[q] \/ (q = r /\ pc'[q] = "aborted")
          /\ pc[r] # "finalized"
      BY <2>1, <3>1, <1>0
    <3> QED BY <2>1, <3>1, <3>2, <1>0, LayoutKept
  <2>3. CASE pc[r] # "gatherv" /\ ~Stopped(r)
    <3>1. local_n[r] = -1 \/ pc[r] = "gatherv"
      BY <2>1, <2>3 DEF Closing, RankLogs, RankLog
    <3>2. pc[0] \notin {"layout", "analyze", "finalized"}
      BY <3>1, <2>3 DEF RootInv
    <3>3. /\ pc'[0] \notin {"layout", "analyze", "finalized"}
          /\ pc[0] = "aborted" => pc'[0] = "aborted"
      BY <2>1, <2>3, <3>2, <1>0
    <3>4. LTypeOK' /\ (pc[0] # "aborted" => LInit')
      BY <2>1, <3>2 DEF layout, RootInv, LTypeOK, LInit
    <3>5. PICK off \in [Ranks -> Nat] : Placed(off)
      BY DEF RootInv
    <3>6. Placed(off)'
      BY <2>1, <3>5 DEF Placed, layout
    <3>7. \E o \in [Ranks -> Nat] : Placed(o)'
      BY <3>6
    <3>8. exact_total' * num_ranks * EventBytes <= li' * IntMax /\ total_events' = exact_total'
      BY <2>1 DEF layout, RootInv
    <3> QED BY <3>3, <3>4, <3>7, <3>8 DEF RootInv
  <2> QED BY <2>2, <2>3, <2>4
<1>2. CASE Gather
  <2>1. /\ pc[0] = "gather" /\ pc' = [pc EXCEPT ![0] = "layout"]
        /\ \A r \in Ranks : local_n[r] # -1
        /\ counts_events' = local_n /\ local_n' = local_n
        /\ UNCHANGED <<li, displs_bytes, recvcounts_bytes, total_events, exact_total>>
    BY <1>2 DEF Gather, LBegin
  <2>2. /\ counts_events = Zeros /\ displs_bytes = Zeros /\ recvcounts_bytes = Zeros
        /\ li = 0 /\ total_events = 0 /\ exact_total = 0
    BY <2>1 DEF RootInv, LInit
  <2>3. \A r \in Ranks : local_n[r] \in 0..IntMax
    <3> SUFFICES ASSUME NEW r \in Ranks PROVE local_n[r] \in 0..IntMax
      OBVIOUS
    <3>1. local_n[r] = g_seq[r]
      BY <2>1 DEF RankLogs, RankLog
    <3> QED BY <3>1, LogFits, LayoutAssumption
  <2>4. LTypeOK'
    <3>1. local_n \in [Ranks -> 0..IntMax]
      BY <2>3 DEF JobTypes
    <3> QED BY <2>1, <3>1 DEF RootInv, LTypeOK
  <2>5. \A off \in [Ranks -> Nat] : Placed(off)'
    <3>1. 0..(li' - 1) = {} /\ 1..exact_total' = {}
      BY <2>1, <2>2
    <3> QED BY <3>1 DEF Placed
  <2>6. \E off \in [Ranks -> Nat] : Placed(off)'
    <3>1. [r \in Ranks |-> 0] \in [Ranks -> Nat]
      OBVIOUS
    <3> QED BY <2>5, <3>1
  <2>7. exact_total' * num_ranks * EventBytes <= li' * IntMax /\ total_events' = exact_total'
    BY <2>1 DEF RootInv
  <2>8. pc'[0] = "layout"
    BY <2>1, <1>0
  <2> QED BY <2>1, <2>4, <2>6, <2>7, <2>8 DEF RootInv
<1>3. CASE Layout
  <2>1. /\ pc[0] = "layout" /\ pc' = pc /\ local_n' = local_n /\ LStep
    BY <1>3 DEF Layout
  <2>2. counts_events = local_n /\ \A r \in Ranks : local_n[r] # -1
    BY <2>1 DEF RootInv
  <2>3. counts_events' = counts_events
    BY <2>1 DEF LStep
  <2>4. /\ LTypeOK'
        /\ exact_total' * num_ranks * EventBytes <= li' * IntMax
        /\ total_events' = exact_total'
        /\ \E off \in [Ranks -> Nat] : Placed(off)'
    BY <2>1, <2>2, PlaceStep
  <2> QED BY <2>1, <2>2, <2>3, <2>4 DEF RootInv
<1>4. CASE Gatherv
  <2>1. /\ pc[0] = "layout" /\ pc' = [pc EXCEPT ![0] = "analyze"] /\ UNCHANGED <<layout, local_n>>
        /\ LDone /\ \A r \in Ranks \ {0} : pc[r] = "finalized"
    BY <1>4 DEF Gatherv
  <2>2. /\ counts_events' = local_n' /\ LDone'
        /\ \A r \in Ranks : local_n'[r] # -1 /\ (r # 0 => pc'[r] = "finalized")
        /\ pc'[0] = "analyze"
    BY <2>1, <1>0 DEF RootInv, layout, LDone
  <2>3. LTypeOK'
    BY <2>1 DEF layout, RootInv, LTypeOK
  <2>4. PICK off \in [Ranks -> Nat] : Placed(off)
    BY DEF RootInv
  <2>5. Placed(off)'
    BY <2>1, <2>4 DEF Placed, layout
  <2>6. \E o \in [Ranks -> Nat] : Placed(o)'
    BY <2>5
  <2>7. exact_total' * num_ranks * EventBytes <= li' * IntMax /\ total_events' = exact_total'
    BY <2>1 DEF layout, RootInv
  <2> QED BY <2>2, <2>3, <2>6, <2>7 DEF RootInv
<1>5. CASE AnalysisReturns
  <2>1. /\ pc[0] = "analyze" /\ pc' = [pc EXCEPT ![0] = "finalized"] /\ UNCHANGED <<layout, local_n>>
    BY <1>5 DEF AnalysisReturns
  <2>2. /\ pc'[0] = "finalized"
        /\ \A r \in Ranks \ {0} : pc[r] = "finalized" => pc'[r] = "finalized"
    BY <2>1, <1>0
  <2> QED BY <2>1, <2>2, LayoutKept
<1>6. CASE Network \/ Tick \/ UNCHANGED jobvars
  <2>1. UNCHANGED layout /\ UNCHANGED local_n /\ UNCHANGED pc
    BY <1>6 DEF Network, Damage, Tick, jobvars
  <2> QED BY <2>1, LayoutKept
<1> QED BY <1>1, <1>2, <1>3, <1>4, <1>5, <1>6 DEF JobNext

\* Before the counts are gathered.
LEMMA InitRoot == JobInit => RootInv
<1> SUFFICES ASSUME JobInit PROVE RootInv
  OBVIOUS
<1>1. /\ LInit /\ pc[0] = "start" /\ li = 0 /\ exact_total = 0 /\ total_events = 0
  BY ZeroIsRank DEF JobInit, LInit
<1>2. LTypeOK
  BY <1>1, IntRangeIsInt, LayoutAssumption, RanksAssumption DEF LInit, LTypeOK, Zeros
<1>3. Placed([r \in Ranks |-> 0]) /\ [r \in Ranks |-> 0] \in [Ranks -> Nat]
  <2>1. 0..(li - 1) = {} /\ 1..exact_total = {}
    BY <1>1
  <2> QED BY <2>1 DEF Placed
<1>4. exact_total * num_ranks * EventBytes <= li * IntMax
  BY <1>1, LayoutAssumption, RanksAssumption
<1> QED BY <1>1, <1>2, <1>3, <1>4 DEF RootInv

\* For all programs and every number of ranks, if the logs fit, rank 0 lays them
\* out one after the other.
THEOREM LayoutIsRight ==
  ASSUME LogsFit
  PROVE  Spec => [](JobTypes /\ CallsInHand /\ RankLogs /\ RootInv)
<1>1. Init => RootInv
  BY InitRoot DEF Init
<1>2. (JobTypes /\ CallsInHand) /\ RankLogs /\ RootInv /\ [Next]_sysvars => RootInv'
  BY NextIsJobNext, JobStepRoot
<1> QED BY <1>1, <1>2, JobTypeCorrect, LogsAreWhole, PTL DEF Spec

\* Event counts and byte counts.
LEMMA EventsAndBytes ==
  ASSUME NEW a \in Nat, NEW b \in Nat, NEW e \in Nat \ {0}
  PROVE  /\ a * e <= b * e <=> a <= b
         /\ a * e < b * e <=> a < b
         /\ (a * e) \div e = a
<1>1. ASSUME NEW x \in Nat, NEW y \in Nat, x < y
      PROVE  x * e < y * e
  <2>1. (x + 1) * e <= y * e
    BY <1>1, TimesKeepsOrder
  <2>2. (x + 1) * e = x * e + e /\ x * e \in Nat /\ y * e \in Nat
    OBVIOUS
  <2> QED BY <2>1, <2>2
<1>2. a * e \in Nat /\ b * e \in Nat
  OBVIOUS
<1>3. a < b => a * e < b * e
  BY <1>1
<1>4. b < a => b * e < a * e
  BY <1>1
<1>5. a = b => a * e = b * e
  OBVIOUS
<1>6. (a * e) \div e = a
  OBVIOUS
<1>7. a < b \/ b < a \/ a = b
  OBVIOUS
<1> QED BY <1>2, <1>3, <1>4, <1>5, <1>6, <1>7

\* The array a is the logs of all ranks, whole and one after the other: the log of
\* rank r stands after the first off[r] events.
LogsJoined(a, off) ==
    /\ a \in Seq(Event) /\ off \in [Ranks -> Nat]
    /\ \A r \in Ranks : off[r] + g_seq[r] <= Len(a)
    /\ \A q, r \in Ranks : q < r => off[q] + g_seq[q] <= off[r]
    /\ \A k \in 1..Len(a) : \E r \in Ranks : off[r] < k /\ k <= off[r] + g_seq[r]
    /\ \A r \in Ranks : \A n \in 1..g_seq[r] : a[off[r] + n].rank = r /\ a[off[r] + n].seq = n

\* What rank 0 has when it has received all blocks.
LEMMA CollectedIsJoined ==
  ASSUME LogsFit, JobTypes, RankLogs, RootInv, Gatherv
  PROVE  \E off : /\ LogsJoined(Collected, off)
                  /\ \A r \in Ranks : \A n \in 1..g_seq[r] : Collected[off[r] + n] = LogOf(r)[n]
<1>1. /\ pc[0] = "layout" /\ \A r \in Ranks \ {0} : pc[r] = "finalized"
      /\ li = num_ranks /\ counts_events = local_n /\ \A r \in Ranks : local_n[r] # -1
      /\ total_events = exact_total /\ exact_total \in Nat
  BY DEF Gatherv, RootInv, LDone, LTypeOK
<1>2. PICK off \in [Ranks -> Nat] : Placed(off)
  BY DEF RootInv
<1>3. 0..(li - 1) = Ranks
  BY <1>1 DEF Ranks
<1>4. /\ \A r \in Ranks : counts_events[r] = g_seq[r] /\ g_seq[r] \in Nat /\ off[r] \in Nat
      /\ Ranks \subseteq Nat /\ EventBytes \in Nat \ {0}
  BY <1>1, <1>2, ZeroIsRank, LayoutAssumption DEF RankLogs, RankLog, JobTypes
<1>5. \A r \in Ranks : Block(r) = LogOf(r) /\ LogOf(r) \in Seq(Event) /\ Whole(LogOf(r), g_seq[r], r)
  <2> SUFFICES ASSUME NEW r \in Ranks
               PROVE  Block(r) = LogOf(r) /\ LogOf(r) \in Seq(Event) /\ Whole(LogOf(r), g_seq[r], r)
    OBVIOUS
  <2>1. Block(r) = LogOf(r) /\ ~(r = 0 /\ pc[r] = "finalized")
    BY <1>1 DEF Block, LogOf
  <2>2. LogOf(r) \in Seq(Event)
    BY DEF LogOf, JobTypes
  <2> QED BY <2>1, <2>2 DEF RankLogs, RankLog
<1>6. ASSUME NEW r \in Ranks, NEW n \in 1..g_seq[r]
      PROVE  off[r] + n \in 1..exact_total /\ Collected[off[r] + n] = LogOf(r)[n]
  <2> DEFINE k == off[r] + n
             b == (k - 1) * EventBytes
  <2>1. k \in Nat /\ k - 1 \in Nat /\ off[r] <= k - 1 /\ k - 1 < off[r] + g_seq[r] /\ n - 1 \in Nat
        /\ k - 1 = off[r] + (n - 1)
    BY <1>4
  <2>2. k \in 1..exact_total
    <3>1. off[r] + g_seq[r] <= exact_total
      BY <1>2, <1>3, <1>4 DEF Placed
    <3> QED BY <3>1, <2>1, <1>1, <1>4
  <2>3. ASSUME NEW q \in Ranks
        PROVE  (displs_bytes[q] <= b /\ b < BlockEnd(q)) <=> (off[q] <= k - 1 /\ k - 1 < off[q] + g_seq[q])
    <3>1. displs_bytes[q] = off[q] * EventBytes /\ recvcounts_bytes[q] = g_seq[q] * EventBytes
      BY <1>2, <1>3, <1>4 DEF Placed
    <3>2. BlockEnd(q) = (off[q] + g_seq[q]) * EventBytes
      BY <3>1, <1>4 DEF BlockEnd
    <3>3. off[q] \in Nat /\ off[q] + g_seq[q] \in Nat
      BY <1>4
    <3>4. (off[q] * EventBytes <= (k - 1) * EventBytes) <=> (off[q] <= k - 1)
      BY <2>1, <3>3, <1>4, EventsAndBytes
    <3>5. ((k - 1) * EventBytes < (off[q] + g_seq[q]) * EventBytes) <=> (k - 1 < off[q] + g_seq[q])
      BY <2>1, <3>3, <1>4, EventsAndBytes
    <3> QED BY <3>1, <3>2, <3>4, <3>5
  <2>4. Owner(b) = r
    <3>1. \A q \in Ranks : off[q] <= k - 1 /\ k - 1 < off[q] + g_seq[q] => q = r
      <4> SUFFICES ASSUME NEW q \in Ranks, off[q] <= k - 1, k - 1 < off[q] + g_seq[q], q # r
                   PROVE  FALSE
        OBVIOUS
      <4>1. q < r \/ r < q
        BY <1>4
      <4>2. /\ q < r => off[q] + g_seq[q] <= off[r]
            /\ r < q => off[r] + g_seq[r] <= off[q]
        BY <1>2, <1>3, <1>4 DEF Placed
      <4> HIDE DEF k
      <4> QED BY <4>1, <4>2, <2>1, <1>4
    <3> HIDE DEF b, k
    <3> QED BY <2>1, <2>3, <3>1 DEF Owner
  <2>5. ((b - displs_bytes[r]) \div EventBytes) + 1 = n
    <3>1. displs_bytes[r] = off[r] * EventBytes
      BY <1>2, <1>3 DEF Placed
    <3>2. b - displs_bytes[r] = (n - 1) * EventBytes
      <4>1. b = (off[r] + (n - 1)) * EventBytes
        BY <2>1
      <4>2. (off[r] + (n - 1)) * EventBytes = off[r] * EventBytes + (n - 1) * EventBytes
            /\ off[r] * EventBytes \in Nat /\ (n - 1) * EventBytes \in Nat
        BY <1>4, <2>1
      <4> HIDE DEF b
      <4> QED BY <3>1, <4>1, <4>2
    <3>3. ((n - 1) * EventBytes) \div EventBytes = n - 1
      BY <2>1, <1>4, EventsAndBytes
    <3> HIDE DEF b
    <3> QED BY <3>2, <3>3
  <2>6. Collected[k] = Block(Owner(b))[((b - displs_bytes[Owner(b)]) \div EventBytes) + 1]
    BY <1>1, <2>2 DEF Collected
  <2> HIDE DEF k, b
  <2>7. Collected[k] = LogOf(r)[n] /\ k \in 1..exact_total
    BY <2>2, <2>4, <2>5, <2>6, <1>5
  <2> QED BY <2>7 DEF k
<1>7. \A k \in 1..exact_total : \E r \in Ranks : off[r] < k /\ k <= off[r] + g_seq[r]
  BY <1>2, <1>3, <1>4 DEF Placed
<1>8. ASSUME NEW k \in 1..exact_total
      PROVE  Collected[k] \in Event
  <2>1. PICK r \in Ranks : off[r] < k /\ k <= off[r] + g_seq[r]
    BY <1>7
  <2>2. k - off[r] \in 1..g_seq[r] /\ off[r] + (k - off[r]) = k
    BY <2>1, <1>1, <1>4
  <2>3. Collected[k] = LogOf(r)[k - off[r]]
    BY <2>2, <1>6
  <2>4. k - off[r] \in 1..Len(LogOf(r))
    BY <2>2, <1>5 DEF Whole
  <2> QED BY <2>3, <2>4, <1>5
<1>9. Collected \in Seq(Event) /\ Len(Collected) = exact_total
  <2>1. Collected = [k \in 1..exact_total |-> Collected[k]]
    BY <1>1 DEF Collected
  <2> HIDE DEF Collected
  <2>2. Collected \in [1..exact_total -> Event]
    BY <2>1, <1>8
  <2> QED BY <2>2, <1>1
<1>10. \A r \in Ranks : \A n \in 1..g_seq[r] :
          Collected[off[r] + n].rank = r /\ Collected[off[r] + n].seq = n
  BY <1>5, <1>6 DEF Whole
<1>11. /\ \A r \in Ranks : off[r] + g_seq[r] <= Len(Collected)
       /\ \A q, r \in Ranks : q < r => off[q] + g_seq[q] <= off[r]
  BY <1>2, <1>3, <1>4, <1>9 DEF Placed
<1>12. LogsJoined(Collected, off)
  BY <1>7, <1>9, <1>10, <1>11 DEF LogsJoined
<1> QED BY <1>6, <1>12

\* Where an event of a joined array comes from.
LEMMA JoinedAt ==
  ASSUME JobTypes, NEW a, NEW off, LogsJoined(a, off), NEW k \in 1..Len(a)
  PROVE  /\ a[k].rank \in Ranks /\ off[a[k].rank] \in Nat /\ g_seq[a[k].rank] \in Nat
         /\ off[a[k].rank] < k /\ k <= off[a[k].rank] + g_seq[a[k].rank]
         /\ a[k].seq = k - off[a[k].rank]
<1>1. PICK r \in Ranks : off[r] < k /\ k <= off[r] + g_seq[r]
  BY DEF LogsJoined
<1>2. off[r] \in Nat /\ g_seq[r] \in Nat /\ Len(a) \in Nat
  BY DEF LogsJoined, JobTypes
<1>3. k - off[r] \in 1..g_seq[r] /\ off[r] + (k - off[r]) = k
  BY <1>1, <1>2
<1>4. a[k].rank = r /\ a[k].seq = k - off[r]
  BY <1>3 DEF LogsJoined
<1> QED BY <1>1, <1>2, <1>4

\* The places of a rank's events in a joined array.
LEMMA JoinedBlock ==
  ASSUME JobTypes, NEW a, NEW off, LogsJoined(a, off), NEW r \in Ranks
  PROVE  /\ {k \in 1..Len(a) : a[k].rank = r} = (off[r] + 1)..(off[r] + g_seq[r])
         /\ off[r] \in Nat /\ g_seq[r] \in Nat
<1>1. off[r] \in Nat /\ g_seq[r] \in Nat /\ Len(a) \in Nat /\ off[r] + g_seq[r] <= Len(a)
  BY DEF LogsJoined, JobTypes
<1>2. \A k \in 1..Len(a) : a[k].rank = r => k \in (off[r] + 1)..(off[r] + g_seq[r])
  BY <1>1, JoinedAt
<1>3. ASSUME NEW k \in (off[r] + 1)..(off[r] + g_seq[r])
      PROVE  k \in 1..Len(a) /\ a[k].rank = r
  <2>1. k - off[r] \in 1..g_seq[r] /\ off[r] + (k - off[r]) = k /\ k \in 1..Len(a)
    BY <1>1
  <2> QED BY <2>1 DEF LogsJoined
<1> QED BY <1>1, <1>2, <1>3

\* A joined array is what the analysis takes for granted.
LEMMA JoinedIsGathered ==
  ASSUME JobTypes, NEW a, NEW off, LogsJoined(a, off)
  PROVE  /\ a \in Arrays /\ Gathered(a)
         /\ \A k \in 1..(Len(a) - 1) :
              \/ a[k].rank = a[k + 1].rank /\ a[k].seq + 1 = a[k + 1].seq
              \/ a[k].rank < a[k + 1].rank /\ a[k + 1].seq = 1
         /\ \A r \in Ranks : Cardinality({k \in DOMAIN a : a[k].rank = r}) = g_seq[r]
<1>1. a \in Seq(Event) /\ Len(a) \in Nat /\ DOMAIN a = 1..Len(a)
  BY DEF LogsJoined
<1>2. Grouped(a)
  <2> SUFFICES ASSUME NEW n \in 1..Len(a), NEW k \in 1..n, a[k].rank = a[n].rank, NEW m \in k..n
               PROVE  a[m].rank = a[n].rank
    BY <1>1 DEF Grouped
  <2>1. k \in 1..Len(a) /\ m \in 1..Len(a) /\ a[n].rank \in Ranks
    BY <1>1, JoinedAt
  <2>2. m \in (off[a[n].rank] + 1)..(off[a[n].rank] + g_seq[a[n].rank])
    BY SMTT(30), <2>1, JoinedAt
  <2> QED BY <2>1, <2>2, JoinedBlock
<1>3. Numbered(a)
  <2> SUFFICES ASSUME NEW k \in 1..Len(a), NEW m \in 1..Len(a), a[k].rank = a[m].rank
               PROVE  a[m].seq - a[k].seq = m - k
    BY <1>1 DEF Numbered
  <2> QED BY SMTT(30), JoinedAt
<1>4. Gathered(a)
  BY <1>1, <1>2, <1>3, JoinedAt DEF Gathered
<1>5. ASSUME NEW k \in 1..(Len(a) - 1)
      PROVE  \/ a[k].rank = a[k + 1].rank /\ a[k].seq + 1 = a[k + 1].seq
             \/ a[k].rank < a[k + 1].rank /\ a[k + 1].seq = 1
  <2> DEFINE q == a[k].rank
             r == a[k + 1].rank
  <2>1. k \in 1..Len(a) /\ k + 1 \in 1..Len(a)
    BY <1>1
  <2>2. /\ q \in Ranks /\ off[q] \in Nat /\ g_seq[q] \in Nat /\ off[q] < k /\ k <= off[q] + g_seq[q]
        /\ a[k].seq = k - off[q]
    BY <2>1, JoinedAt
  <2>3. /\ r \in Ranks /\ off[r] \in Nat /\ g_seq[r] \in Nat
        /\ off[r] < k + 1 /\ k + 1 <= off[r] + g_seq[r] /\ a[k + 1].seq = (k + 1) - off[r]
    BY <2>1, JoinedAt
  <2>4. q \in Nat /\ r \in Nat
    BY <2>2, <2>3, ZeroIsRank
  <2>5. CASE q = r
    BY <2>2, <2>3, <2>5
  <2>6. CASE q # r
    <3>1. ~(r < q)
      <4> SUFFICES ASSUME r < q PROVE FALSE
        OBVIOUS
      <4>1. off[r] + g_seq[r] <= off[q]
        BY <2>2, <2>3 DEF LogsJoined
      <4> QED BY <4>1, <2>2, <2>3
    <3>2. q < r
      BY <2>4, <2>6, <3>1
    <3>3. off[q] + g_seq[q] <= off[r]
      BY <3>2, <2>2, <2>3 DEF LogsJoined
    <3>4. off[r] = k
      <4>1. /\ k \in Int /\ off[q] \in Nat /\ g_seq[q] \in Nat /\ off[r] \in Nat
            /\ k <= off[q] + g_seq[q] /\ off[r] < k + 1
        BY <2>1, <2>2, <2>3
      <4>2. \A x, y, z \in Nat : k <= x + y /\ x + y <= z /\ z < k + 1 => z = k
        BY <2>1
      <4> QED BY <3>3, <4>1, <4>2
    <3> QED BY <3>2, <3>4, <2>3
  <2> QED BY <2>5, <2>6
<1>6. ASSUME NEW r \in Ranks
      PROVE  Cardinality({k \in DOMAIN a : a[k].rank = r}) = g_seq[r]
  <2>1. {k \in DOMAIN a : a[k].rank = r} = (off[r] + 1)..(off[r] + g_seq[r])
    BY <1>1, JoinedBlock
  <2>2. off[r] \in Nat /\ g_seq[r] \in Nat
    BY JoinedBlock
  <2>3. Cardinality((off[r] + 1)..(off[r] + g_seq[r])) = g_seq[r]
    <3>1. \A x, y \in Int : Cardinality(x..y) = IF x > y THEN 0 ELSE y - x + 1
      BY FS_Interval
    <3>2. PICK x, y \in Int : x = off[r] + 1 /\ y = off[r] + g_seq[r]
      BY <2>2
    <3>3. (IF x > y THEN 0 ELSE y - x + 1) = g_seq[r]
      BY <2>2, <3>2
    <3> QED BY <3>1, <3>2, <3>3
  <2> QED BY <2>1, <2>3
<1> QED BY <1>1, <1>4, <1>5, <1>6 DEF Arrays

\* While rank 0 analyses, all logs have been sent, and no rank has a step left.
LEMMA RanksAreDone ==
  ASSUME JobTypes, RootInv, pc[0] \in {"analyze", "finalized"}, NEW r \in Ranks, RankStep(r)
  PROVE  FALSE
<1>1. \A q \in Ranks : pc[q] \in {"analyze", "finalized"}
  BY DEF RootInv
<1>2. ~Stopped(r)
  BY <1>1 DEF Stopped
<1> QED BY <1>1, <1>2, RankStepMoves

\* No check writes the array.
LEMMA ChecksKeepArray == ASSUME DStep PROVE all' = all
<1>1. CASE Loops
  BY <1>1, ArrayKept DEF Loops
<1>2. CASE Anomalies
  BY <1>2 DEF Anomalies, mvars
<1>3. CASE ~Loops /\ ~Anomalies
  BY <1>3 DEF DStep, Replays, Stalls, Overlaps, Collectives, Graph, Deadlocks, Conclude, mvars
<1> QED BY <1>1, <1>2, <1>3

\* Once the analysis has started, nothing is logged and nothing received, and the array
\* stays what it is.
LEMMA ArrayStays ==
  ASSUME JobTypes, RootInv, [Next]_sysvars, pc'[0] \in {"analyze", "finalized"}
  PROVE  \/ StartAnalysis
         \/ pc[0] \in {"analyze", "finalized"} /\ UNCHANGED <<all, g_seq, delivered>>
<1> USE DEF Goto
<1>0. 0 \in Ranks /\ pc \in [Ranks -> Places]
  BY ZeroIsRank DEF JobTypes
<1>1. CASE AnalysisStep
  BY <1>1, ChecksKeepArray DEF AnalysisStep, log
<1>2. CASE EndAnalysis
  BY <1>2 DEF EndAnalysis, AnalysisReturns, dvars
<1>3. ASSUME NEW r \in Ranks, Program(r)
      PROVE  FALSE
  <2>1. RankStep(r)
    BY <1>3 DEF Program
  <2>2. pc[0] \notin {"analyze", "finalized"}
    BY <2>1, RanksAreDone
  <2>3. pc'[0] \notin {"analyze", "finalized"}
    <3>1. CASE Stopped(r)
      BY <3>1, <2>2, <1>0 DEF Stopped
    <3>2. CASE ~Stopped(r)
      BY <3>2, <2>1, <2>2, <1>0, RankStepMoves
    <3> QED BY <3>1, <3>2
  <2> QED BY <2>3
<1>4. CASE Root
  <2>1. pc'[0] = "layout"
    BY <1>4, <1>0 DEF Root, RootStep, Gather, Layout, program
  <2> QED BY <2>1
<1>5. CASE Faults \/ Clock \/ UNCHANGED sysvars
  <2>1. UNCHANGED <<all, g_seq, delivered, pc>>
    BY <1>5 DEF Faults, Network, Damage, Clock, Tick, sysvars, jobvars, dvars, program, log
  <2> QED BY <2>1
<1> QED BY <1>1, <1>2, <1>3, <1>4, <1>5 DEF Next, Analysis

\* What rank 0 analyses.
GatherInv == pc[0] \in {"analyze", "finalized"} => \E off : LogsJoined(all, off)

\* The start of the analysis and its steps keep the array what it is.
LEMMA GatherStep ==
  ASSUME LogsFit, JobTypes, RankLogs, RootInv, GatherInv, [Next]_sysvars
  PROVE  GatherInv'
<1> SUFFICES ASSUME pc'[0] \in {"analyze", "finalized"} PROVE \E off : LogsJoined(all, off)'
  BY DEF GatherInv
<1>1. CASE StartAnalysis
  <2>1. Gatherv /\ all' = Collected
    BY <1>1 DEF StartAnalysis, Analyze
  <2>2. g_seq' = g_seq
    BY <2>1 DEF Gatherv, log
  <2>3. PICK off : LogsJoined(Collected, off)
    BY <2>1, CollectedIsJoined
  <2>4. PICK a : a = Collected
    OBVIOUS
  <2>5. LogsJoined(a, off)
    BY <2>3, <2>4
  <2>6. LogsJoined(all, off)'
    BY <2>1, <2>2, <2>4, <2>5 DEF LogsJoined
  <2> QED BY <2>6
<1>2. CASE pc[0] \in {"analyze", "finalized"} /\ UNCHANGED <<all, g_seq, delivered>>
  <2>1. PICK off : LogsJoined(all, off)
    BY <1>2 DEF GatherInv
  <2>2. LogsJoined(all, off)'
    BY <1>2, <2>1 DEF LogsJoined
  <2> QED BY <2>2
<1> QED BY <1>1, <1>2, ArrayStays

SysInv == JobTypes /\ CallsInHand /\ RankLogs /\ RootInv /\ GatherInv

\* The system's invariant.
THEOREM SystemInvariant ==
  ASSUME LogsFit
  PROVE  Spec => []SysInv
<1>1. Init => GatherInv
  BY ZeroIsRank DEF Init, JobInit, GatherInv
<1>2. (JobTypes /\ CallsInHand /\ RankLogs /\ RootInv) /\ GatherInv /\ [Next]_sysvars => GatherInv'
  BY GatherStep
<1>3. (JobTypes /\ CallsInHand /\ RankLogs /\ RootInv) /\ GatherInv => SysInv
  BY DEF SysInv
<1> QED BY <1>1, <1>2, <1>3, LayoutIsRight, PTL DEF Spec

\* For all programs whose logs fit an int and every number of ranks, the array
\* that rank 0 analyses is the logs of all ranks, each whole and in its order, one
\* rank after the other.
THEOREM GatherCorrect ==
  ASSUME LogsFit
  PROVE  Spec => []GatheredIsTheLogs
<1>1. SysInv => GatheredIsTheLogs
  <2> SUFFICES ASSUME SysInv, pc[0] \in {"analyze", "finalized"}
               PROVE  /\ Gathered(all)
                      /\ \A k \in 1..(Len(all) - 1) :
                            \/ all[k].rank = all[k + 1].rank /\ all[k].seq + 1 = all[k + 1].seq
                            \/ all[k].rank < all[k + 1].rank /\ all[k + 1].seq = 1
                      /\ \A r \in Ranks : Cardinality({k \in DOMAIN all : all[k].rank = r}) = g_seq[r]
    BY DEF GatheredIsTheLogs
  <2>1. PICK off : LogsJoined(all, off)
    BY DEF SysInv, GatherInv
  <2>2. JobTypes
    BY DEF SysInv
  <2> QED BY <2>1, <2>2, JoinedIsGathered
<1> QED BY <1>1, SystemInvariant, PTL

\* In the system the analysis runs as Detector says, on arrays that it may have
\* to analyse, whatever the ranks do before.
THEOREM SystemAnalyses ==
  ASSUME LogsFit
  PROVE  Spec => DSpec
<1>1. Init => DInit
  BY DEF Init
<1>2. SysInv /\ [Next]_sysvars => [DNext]_dvars
  <2> SUFFICES ASSUME SysInv, [Next]_sysvars PROVE [DNext]_dvars
    OBVIOUS
  <2>1. CASE StartAnalysis
    <3>1. Gatherv /\ Analyze(Collected) /\ UNCHANGED checks
      BY <2>1 DEF StartAnalysis
    <3>2. \E off : LogsJoined(Collected, off)
      BY <3>1, CollectedIsJoined DEF SysInv
    <3>3. Collected \in Arrays
      BY <3>2, JoinedIsGathered DEF SysInv
    <3>4. MStart
      <4>1. phase = "idle"
        BY <3>1 DEF Analyze
      <4> QED BY <3>1, <3>3, <4>1 DEF MStart
    <3> QED BY <3>1, <3>4 DEF DNext, Enter
  <2>2. CASE AnalysisStep
    BY <2>2 DEF AnalysisStep, DNext
  <2>3. CASE EndAnalysis
    BY <2>3 DEF EndAnalysis
  <2>4. CASE (\E r \in Ranks : Program(r)) \/ Root \/ Faults \/ Clock
    BY <2>4 DEF Program, Root, Faults, Clock
  <2>5. CASE UNCHANGED sysvars
    BY <2>5 DEF sysvars
  <2> QED BY <2>1, <2>2, <2>3, <2>4, <2>5 DEF Next, Analysis
<1> QED BY <1>1, <1>2, SystemInvariant, PTL DEF Spec, DSpec

\* The variables of the ranks and of the analysis keep their types.
THEOREM SystemTypeCorrect ==
  ASSUME LogsFit
  PROVE  Spec => []TypeOK
<1>1. SysInv /\ DTypeOK => TypeOK
  <2> SUFFICES ASSUME SysInv, DTypeOK PROVE TypeOK
    OBVIOUS
  <2>1. ASSUME NEW r \in Ranks, NEW k \in DOMAIN g_events[r]
        PROVE  g_events[r][k].rank = r
    <3>1. RankLog(r) /\ g_events[r] \in Seq(Event)
      BY DEF SysInv, RankLogs, JobTypes
    <3>2. pc[r] # "finalized"
      BY <3>1 DEF RankLog
    <3>3. Whole(g_events[r], g_seq[r], r)
      BY <3>1, <3>2 DEF RankLog, LogOf
    <3> QED BY <3>1, <3>3 DEF Whole
  <2> QED BY <2>1 DEF SysInv, JobTypes, TypeOK
<1> QED BY <1>1, SystemInvariant, SystemAnalyses, DetectorTypeCorrect, PTL

\* What is proved of the analysis on any arrays holds in the system, where the
\* ranks write and send the logs: the pairs are those of MPI's matching order, and
\* the counts and reports of all checks are exact, and silent for clean exchanges.
THEOREM SystemReportsCorrect ==
  ASSUME LogsFit
  PROVE  Spec => [](/\ PairsAreKeyed /\ PairsAreFifo /\ NothingPairableLeft /\ CountsAgree
                    /\ EqualSizesAreUsual /\ ReplayCountIsRepeats /\ OverlapsAreNeighbours
                    /\ SegmentsExact /\ VerdictExact /\ GraphIsTopology /\ ClosureIsExact
                    /\ ReportedAreOnCycles /\ SilentIffClean)
BY SystemAnalyses, DetectorCorrect, CleanIsSilent, PTL
=============================================================================
