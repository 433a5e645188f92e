-------------------------- MODULE WaitGraphProofs --------------------------
(* Proofs about WaitGraph, for every number of ranks and every array.  The  *)
(* matrix is updated while it is read, so the argument keeps the matrix as  *)
(* it was when the round of wk began (base): in round wk the matrix holds     *)
(* base and, of the pairs already visited, those that base joins through wk. *)
EXTENDS WaitGraph, FiniteSetTheorems, WellFoundedInduction, TLAPS

\* The pairs of round wk that the loops over wi and wj have visited.
Visited(a, b) == a < wi \/ (a = wi /\ b < wj)

Joined(a, b) == <<a, wk>> \in base /\ <<wk, b>> \in base

\* R is transitive through the ranks below n.
TransitiveBelow(R, n) ==
    \A m \in Ranks : m < n =>
        \A a, b \in Ranks : <<a, m>> \in R /\ <<m, b>> \in R => <<a, b>> \in R

\* R holds the waits, and nothing that a transitive relation with the waits
\* need not hold.
Between(R) ==
    /\ WaitEdges \subseteq R
    /\ \A S \in SUBSET (Ranks \X Ranks) : WaitEdges \subseteq S /\ Transitive(S) => R \subseteq S

SeedEdges == {<<all[m].rank, all[m].peer>> :
                m \in {n \in Positions : n < wi /\ ~used[n] /\ Waits(all[n])}}

WaitInv ==
    /\ wstep = "seed" => wi \in 1..(Len(all) + 1) /\ adj = SeedEdges
    /\ wstep = "close" =>
        /\ wi \in Ranks /\ wj \in Ranks /\ wk \in Ranks
        /\ Between(base) /\ TransitiveBelow(base, wk)
        /\ adj = base \cup {p \in Ranks \X Ranks : Visited(p[1], p[2]) /\ Joined(p[1], p[2])}
    /\ wstep \in {"report", "done"} =>
        /\ Between(adj) /\ Transitive(adj)
        /\ wi \in 0..num_ranks /\ (wstep = "done" => wi = num_ranks)
        /\ deadlocked = {r \in Ranks : r < wi /\ <<r, r>> \in adj}
        /\ deadlock_count = Cardinality(deadlocked)
    /\ wstep = "idle" => wi = 1 /\ adj = {}
    /\ wstep \in {"idle", "seed", "close"} => deadlocked = {} /\ deadlock_count = 0

-----------------------------------------------------------------------------
\* A wait is an edge between two ranks.
LEMMA WaitIsEdge ==
  ASSUME WTypeOK, Given, NEW m \in Positions, Waits(all[m])
  PROVE  <<all[m].rank, all[m].peer>> \in Ranks \X Ranks
<1>1. all \in Seq(Event) /\ m \in DOMAIN all
  BY DEF WTypeOK, ATypeOK, Positions
<1>4. all \in Arrays
  BY <1>1 DEF Given
<1>2. all[m].rank \in Ranks
  BY <1>1, <1>4 DEF Arrays, Gathered
<1>3. all[m].peer \in Int
  <2>1. all[m] \in Event
    BY <1>1
  <2> QED BY <2>1 DEF Event
<1> QED BY <1>2, <1>3, RanksAssumption DEF Waits, Ranks

\* The array is one of the given ones, or empty.
THEOREM WaitGiven == WSpec => []Given
<1>1. AInit => Given
  BY DEF AInit, Given
<1>2. Given /\ [WNext]_<<all, used, wvars>> => Given'
  BY DEF Given, WNext, WStep, BeginWait, Seed, EndSeed, Close, Report, EndReport, Prepare
<1> QED BY <1>1, <1>2, PTL DEF WSpec

\* Every state of the analysis is well typed.
THEOREM WaitTypeCorrect == WSpec => []WTypeOK
<1>1. AInit /\ WInit => WTypeOK
  BY DEF AInit, WInit, ATypeOK, WTypeOK, Positions
<1>2. WTypeOK /\ Given /\ [WNext]_<<all, used, wvars>> => WTypeOK'
  <2> SUFFICES ASSUME WTypeOK, Given, [WNext]_<<all, used, wvars>> PROVE WTypeOK'
    OBVIOUS
  <2>0. ATypeOK' /\ ATypeOK
    <3>1. CASE all' = all /\ used' = used
      BY <3>1 DEF WTypeOK, ATypeOK, Positions
    <3>2. CASE Prepare
      BY <3>2 DEF Arrays, Prepare, WTypeOK, ATypeOK, Positions
    <3> QED BY <3>1, <3>2 DEF WTypeOK, WNext, WStep, BeginWait, Seed, EndSeed, Close, Report, EndReport
  <2>7. CASE wstep = "idle" /\ Prepare /\ UNCHANGED wvars
    BY <2>0, <2>7 DEF wvars, WTypeOK
  <2>8. CASE BeginWait
    BY <2>0, <2>8 DEF BeginWait, WTypeOK
  <2>1. CASE Seed
    <3>1. adj' \subseteq Ranks \X Ranks
      BY <2>0, <2>1, WaitIsEdge DEF Seed, WTypeOK
    <3> QED BY <2>0, <2>1, <3>1 DEF Seed, WTypeOK
  <2>2. CASE EndSeed
    BY <2>0, <2>2 DEF EndSeed, WTypeOK
  <2>3. CASE Close
    <3>1. adj' \subseteq Ranks \X Ranks
      <4>1. CASE Through(wi, wj)
        <5>1. <<wi, wk>> \in Ranks \X Ranks /\ <<wk, wj>> \in Ranks \X Ranks
          BY <2>0, <4>1 DEF Through, WTypeOK
        <5>2. <<wi, wj>> \in Ranks \X Ranks
          BY <5>1
        <5> QED BY <2>0, <4>1, <5>2, <2>3 DEF Close, WTypeOK
      <4>2. CASE ~Through(wi, wj)
        BY <2>0, <4>2, <2>3 DEF Close, WTypeOK
      <4> QED BY <4>1, <4>2
    <3>2. wi' \in Nat /\ wj' \in Nat /\ wk' \in Nat /\ wstep' \in {"close", "report"}
      BY <2>0, <2>3 DEF Close, NextColumn, NextRow, NextRound, WTypeOK
    <3>3. base' = base \/ base' = adj'
      BY <2>3 DEF Close, NextColumn, NextRow, NextRound
    <3> QED BY <2>0, <2>3, <3>1, <3>2, <3>3 DEF Close, WTypeOK
  <2>4. CASE Report
    <3>1. wi \in Ranks
      BY <2>0, <2>4, RanksAssumption DEF Report, WTypeOK, Ranks
    <3>2. CASE OnDiagonal(wi)
      <4>1. deadlocked' = deadlocked \cup {wi} /\ deadlock_count' = deadlock_count + 1
        BY <2>4, <3>2 DEF Report
      <4> QED BY <2>0, <2>4, <3>1, <4>1 DEF Report, WTypeOK
    <3>3. CASE ~OnDiagonal(wi)
      <4>1. deadlocked' = deadlocked /\ deadlock_count' = deadlock_count
        BY <2>4, <3>3 DEF Report
      <4> QED BY <2>0, <2>4, <4>1 DEF Report, WTypeOK
    <3> QED BY <3>2, <3>3
  <2>5. CASE EndReport
    BY <2>0, <2>5 DEF EndReport, WTypeOK
  <2>6. CASE UNCHANGED <<all, used, wvars>>
    BY <2>0, <2>6 DEF wvars, WTypeOK
  <2> QED BY <2>1, <2>2, <2>3, <2>4, <2>5, <2>6, <2>7, <2>8 DEF WNext, WStep
<1> QED BY <1>1, <1>2, WaitGiven, PTL DEF WSpec

-----------------------------------------------------------------------------
\* Joining every pair through n makes a relation transitive through n as well.
LEMMA RoundIsTransitive ==
  ASSUME NEW B \in SUBSET (Ranks \X Ranks), NEW n \in Ranks, TransitiveBelow(B, n),
         NEW A, A = B \cup {p \in Ranks \X Ranks : <<p[1], n>> \in B /\ <<n, p[2]>> \in B}
  PROVE  TransitiveBelow(A, n + 1)
<1>1. \A a, b \in Ranks : <<a, b>> \in A <=> <<a, b>> \in B \/ (<<a, n>> \in B /\ <<n, b>> \in B)
  OBVIOUS
<1> SUFFICES ASSUME NEW m \in Ranks, m < n + 1, NEW a \in Ranks, NEW b \in Ranks,
                    <<a, m>> \in A, <<m, b>> \in A
             PROVE  <<a, b>> \in A
  BY DEF TransitiveBelow
<1>2. CASE m = n
  BY <1>1, <1>2
<1>3. CASE m < n
  <2>1. \A x, y \in Ranks : <<x, m>> \in B /\ <<m, y>> \in B => <<x, y>> \in B
    BY <1>3 DEF TransitiveBelow
  <2> QED BY <1>1, <2>1
<1> QED BY <1>2, <1>3, RanksAssumption DEF Ranks

\* A pair joined through n is in every transitive relation that holds B.
LEMMA RoundIsBetween ==
  ASSUME NEW B \in SUBSET (Ranks \X Ranks), NEW n \in Ranks, Between(B),
         NEW A, A = B \cup {p \in Ranks \X Ranks : <<p[1], n>> \in B /\ <<n, p[2]>> \in B}
  PROVE  Between(A)
<1>1. WaitEdges \subseteq A
  BY DEF Between
<1>2. ASSUME NEW S \in SUBSET (Ranks \X Ranks), WaitEdges \subseteq S, Transitive(S)
      PROVE  A \subseteq S
  <2>1. B \subseteq S
    BY <1>2 DEF Between
  <2>2. ASSUME NEW p \in Ranks \X Ranks, <<p[1], n>> \in B, <<n, p[2]>> \in B
        PROVE  p \in S
    <3>1. p[1] \in Ranks /\ p[2] \in Ranks /\ p = <<p[1], p[2]>>
      OBVIOUS
    <3> QED BY <2>1, <2>2, <3>1, <1>2 DEF Transitive
  <2> QED BY <2>1, <2>2
<1> QED BY <1>1, <1>2 DEF Between

-----------------------------------------------------------------------------
\* The matrix is empty when the waits are first looked at.
LEMMA BeginWaitInv ==
  ASSUME WTypeOK, WaitInv, BeginWait
  PROVE  WaitInv'
<1>1. /\ wstep = "idle" /\ wstep' = "seed" /\ wi = 1 /\ wi' = 1 /\ all' = all /\ adj' = {}
      /\ deadlocked' = {} /\ deadlock_count' = 0
  BY DEF BeginWait, WaitInv
<1>2. Len(all) \in Nat
  BY DEF WTypeOK, ATypeOK
<1>3. SeedEdges' = {}
  BY <1>1, <1>2 DEF SeedEdges, Positions
<1> QED BY <1>1, <1>2, <1>3 DEF WaitInv

\* Each event adds its own wait.
LEMMA SeedInv ==
  ASSUME WTypeOK, WaitInv, Seed
  PROVE  WaitInv'
<1>1. /\ wstep = "seed" /\ wstep' = "seed" /\ wi \in Positions /\ wi' = wi + 1
      /\ all' = all /\ used' = used /\ deadlocked' = deadlocked /\ deadlock_count' = deadlock_count
  BY DEF Seed
<1>2. Len(all) \in Nat /\ adj = SeedEdges
  BY <1>1 DEF WTypeOK, ATypeOK, WaitInv
<1>3. \A n \in Positions : n < wi + 1 <=> n < wi \/ n = wi
  BY <1>1, <1>2 DEF Positions
<1>4. SeedEdges' = IF ~used[wi] /\ Waits(all[wi])
                   THEN SeedEdges \cup {<<all[wi].rank, all[wi].peer>>} ELSE SeedEdges
  <2>1. {n \in Positions : n < wi + 1 /\ ~used[n] /\ Waits(all[n])}
          = IF ~used[wi] /\ Waits(all[wi])
            THEN {n \in Positions : n < wi /\ ~used[n] /\ Waits(all[n])} \cup {wi}
            ELSE {n \in Positions : n < wi /\ ~used[n] /\ Waits(all[n])}
    BY <1>1, <1>3
  <2> DEFINE Old == {n \in Positions : n < wi /\ ~used[n] /\ Waits(all[n])}
             New == {n \in Positions : n < wi + 1 /\ ~used[n] /\ Waits(all[n])}
  <2>2. SeedEdges' = {<<all[m].rank, all[m].peer>> : m \in New}
    BY <1>1 DEF SeedEdges, Waits, Positions
  <2>3. SeedEdges = {<<all[m].rank, all[m].peer>> : m \in Old}
    BY DEF SeedEdges
  <2> HIDE DEF Old, New
  <2>4. New = IF ~used[wi] /\ Waits(all[wi]) THEN Old \cup {wi} ELSE Old
    BY <2>1 DEF Old, New
  <2> QED BY <2>2, <2>3, <2>4
<1>5. adj' = SeedEdges'
  BY <1>2, <1>4 DEF Seed
<1> QED BY <1>1, <1>2, <1>5 DEF WaitInv, Positions

\* The first round begins with exactly the waits.
LEMMA EndSeedInv ==
  ASSUME WTypeOK, WaitInv, EndSeed
  PROVE  WaitInv'
<1>1. /\ wstep = "seed" /\ wstep' = "close" /\ wi > Len(all) /\ base' = adj /\ adj' = adj
      /\ wk' = 0 /\ wi' = 0 /\ wj' = 0 /\ all' = all /\ used' = used
      /\ deadlocked' = deadlocked /\ deadlock_count' = deadlock_count
  BY DEF EndSeed
<1>2. Len(all) \in Nat /\ wi \in Nat /\ adj = SeedEdges /\ adj \subseteq Ranks \X Ranks
  BY <1>1 DEF WTypeOK, ATypeOK, WaitInv
<1>3. SeedEdges = WaitEdges
  <2>1. \A n \in Positions : n < wi
    BY <1>1, <1>2 DEF Positions
  <2>2. {n \in Positions : n < wi /\ ~used[n] /\ Waits(all[n])}
          = {n \in Positions : ~used[n] /\ Waits(all[n])}
    BY <2>1
  <2> QED BY <2>2 DEF SeedEdges, WaitEdges
<1>4. WaitEdges' = WaitEdges
  BY <1>1 DEF WaitEdges, Waits, Positions
<1>5. Between(base)'
  BY <1>1, <1>2, <1>3, <1>4 DEF Between, Transitive
<1>6. TransitiveBelow(base', wk')
  BY <1>1 DEF TransitiveBelow, Ranks
<1>7. 0 \in Ranks
  BY RanksAssumption DEF Ranks
<1>8. \A a, b \in Ranks : ~(a < 0 \/ (a = 0 /\ b < 0))
  BY DEF Ranks
<1>9. adj' = base' \cup {p \in Ranks \X Ranks : Visited(p[1], p[2])' /\ Joined(p[1], p[2])'}
  BY <1>1, <1>8 DEF Visited
<1> QED BY <1>1, <1>5, <1>6, <1>7, <1>9 DEF WaitInv

\* One iteration of the innermost loop reads the matrix of the round's begin.
LEMMA ThroughBase ==
  ASSUME WTypeOK, WaitInv, wstep = "close"
  PROVE  Through(wi, wj) <=> Joined(wi, wj)
<1>1. /\ wi \in Ranks /\ wj \in Ranks /\ wk \in Ranks
      /\ adj = base \cup {p \in Ranks \X Ranks : Visited(p[1], p[2]) /\ Joined(p[1], p[2])}
  BY DEF WaitInv
<1>2. \A a, b \in Ranks : <<a, b>> \in adj => <<a, b>> \in base \/ Joined(a, b)
  BY <1>1
<1>3. base \subseteq adj
  BY <1>1
<1>4. <<wi, wk>> \in adj <=> <<wi, wk>> \in base
  BY <1>1, <1>2, <1>3 DEF Joined
<1>5. <<wk, wj>> \in adj <=> <<wk, wj>> \in base
  BY <1>1, <1>2, <1>3 DEF Joined
<1> QED BY <1>4, <1>5 DEF Through, Joined

\* One iteration joins one more pair; a full round makes the matrix transitive
\* through one more rank.
LEMMA CloseInv ==
  ASSUME WTypeOK, WaitInv, Close
  PROVE  WaitInv'
<1>1. /\ wstep = "close" /\ all' = all /\ used' = used
      /\ deadlocked' = deadlocked /\ deadlock_count' = deadlock_count
      /\ adj' = IF Through(wi, wj) THEN adj \cup {<<wi, wj>>} ELSE adj
  BY DEF Close
<1>2. /\ wi \in Ranks /\ wj \in Ranks /\ wk \in Ranks
      /\ Between(base) /\ TransitiveBelow(base, wk)
      /\ adj = base \cup {p \in Ranks \X Ranks : Visited(p[1], p[2]) /\ Joined(p[1], p[2])}
      /\ deadlocked = {} /\ deadlock_count = 0
  BY <1>1 DEF WaitInv
<1>3. base \in SUBSET (Ranks \X Ranks)
  BY DEF WTypeOK
<1>4. adj' = base \cup {p \in Ranks \X Ranks :
                (Visited(p[1], p[2]) \/ p = <<wi, wj>>) /\ Joined(p[1], p[2])}
  BY <1>1, <1>2, ThroughBase
<1>5. WaitEdges' = WaitEdges
  BY <1>1 DEF WaitEdges, Waits, Positions
<1>6. \A a, b \in Ranks : Visited(a, b) \/ (a = wi /\ b = wj) <=> a < wi \/ (a = wi /\ b < wj + 1)
  BY <1>2 DEF Visited, Ranks
<1>7. CASE NextColumn
  <2>1. /\ wj < num_ranks - 1 /\ wj' = wj + 1 /\ wstep' = wstep /\ wk' = wk /\ wi' = wi /\ base' = base
    BY <1>7 DEF NextColumn
  <2>2. wj' \in Ranks
    BY <2>1, <1>2, RanksAssumption DEF Ranks
  <2>3. \A a, b \in Ranks : Visited(a, b)' <=> Visited(a, b) \/ (a = wi /\ b = wj)
    BY <2>1, <1>6 DEF Visited
  <2>4. \A a, b \in Ranks : Joined(a, b)' <=> Joined(a, b)
    BY <2>1 DEF Joined
  <2>5. adj' = base \cup {p \in Ranks \X Ranks : Visited(p[1], p[2])' /\ Joined(p[1], p[2])'}
    BY <2>3, <2>4, <1>4
  <2>6. Between(base)' /\ TransitiveBelow(base', wk')
    BY <2>1, <1>2, <1>5 DEF Between, Transitive
  <2> QED BY <2>1, <2>2, <2>5, <2>6, <1>1, <1>2 DEF WaitInv
<1>8. CASE NextRow
  <2>1. /\ wj = num_ranks - 1 /\ wi < num_ranks - 1 /\ wj' = 0 /\ wstep' = wstep /\ wk' = wk
        /\ wi' = wi + 1 /\ base' = base
    BY <1>8 DEF NextRow
  <2>2. wi' \in Ranks /\ wj' \in Ranks
    BY <2>1, <1>2, RanksAssumption DEF Ranks
  <2>3. \A a, b \in Ranks : Visited(a, b)' <=> Visited(a, b) \/ (a = wi /\ b = wj)
    BY <2>1, <1>2, RanksAssumption DEF Visited, Ranks
  <2>4. \A a, b \in Ranks : Joined(a, b)' <=> Joined(a, b)
    BY <2>1 DEF Joined
  <2>5. adj' = base \cup {p \in Ranks \X Ranks : Visited(p[1], p[2])' /\ Joined(p[1], p[2])'}
    BY <2>3, <2>4, <1>4
  <2>6. Between(base)' /\ TransitiveBelow(base', wk')
    BY <2>1, <1>2, <1>5 DEF Between, Transitive
  <2> QED BY <2>1, <2>2, <2>5, <2>6, <1>1, <1>2 DEF WaitInv
<1>9. CASE NextRound
  <2>1. wj = num_ranks - 1 /\ wi = num_ranks - 1 /\ wi' = 0 /\ wj' = 0 /\ base' = adj'
    BY <1>9 DEF NextRound
  <2>2. \A a, b \in Ranks : Visited(a, b) \/ <<a, b>> = <<wi, wj>>
    BY <2>1, RanksAssumption DEF Visited, Ranks
  <2>3. adj' = base \cup {p \in Ranks \X Ranks : <<p[1], wk>> \in base /\ <<wk, p[2]>> \in base}
    BY <2>2, <1>4 DEF Joined
  <2>4. Between(adj') /\ TransitiveBelow(adj', wk + 1)
    BY <2>3, <1>2, <1>3, RoundIsTransitive, RoundIsBetween
  <2>5. Between(adj)'
    BY <2>4, <1>5 DEF Between, Transitive
  <2>6. CASE wk < num_ranks - 1
    <3>1. wk' = wk + 1 /\ wstep' = wstep /\ wk' \in Ranks /\ 0 \in Ranks
      BY <2>6, <1>2, <1>9, RanksAssumption DEF NextRound, Ranks
    <3>2. \A a, b \in Ranks : ~(a < 0 \/ (a = 0 /\ b < 0))
      BY DEF Ranks
    <3>3. adj' = base' \cup {p \in Ranks \X Ranks : Visited(p[1], p[2])' /\ Joined(p[1], p[2])'}
      BY <2>1, <3>2 DEF Visited
    <3>4. Between(base)' /\ TransitiveBelow(base', wk')
      BY <2>1, <2>4, <3>1, <1>5 DEF Between, Transitive
    <3> QED BY <2>1, <3>1, <3>3, <3>4, <1>1, <1>2 DEF WaitInv
  <2>7. CASE ~(wk < num_ranks - 1)
    <3>1. wstep' = "report" /\ \A r \in Ranks : r < wk + 1
      BY <2>7, <1>2, <1>9, RanksAssumption DEF NextRound, Ranks
    <3>2. Transitive(adj)'
      BY <2>4, <3>1 DEF Transitive, TransitiveBelow
    <3>3. {r \in Ranks : r < 0 /\ <<r, r>> \in adj'} = {}
      BY DEF Ranks
    <3>4. 0 \in 0..num_ranks
      BY RanksAssumption
    <3> QED BY <2>1, <2>5, <3>1, <3>2, <3>3, <3>4, <1>1, <1>2, FS_EmptySet DEF WaitInv
  <2> QED BY <2>6, <2>7
<1> QED BY <1>7, <1>8, <1>9 DEF Close

\* Each rank is looked at once.
LEMMA ReportInv ==
  ASSUME WTypeOK, WaitInv, Report
  PROVE  WaitInv'
<1>1. /\ wstep = "report" /\ wstep' = "report" /\ wi < num_ranks /\ wi' = wi + 1 /\ adj' = adj
      /\ all' = all /\ used' = used
  BY DEF Report
<1>2. /\ wi \in Ranks /\ wi' \in 0..num_ranks
      /\ Between(adj) /\ Transitive(adj)
      /\ deadlocked = {r \in Ranks : r < wi /\ <<r, r>> \in adj}
      /\ deadlock_count = Cardinality(deadlocked)
  BY <1>1, RanksAssumption DEF WaitInv, Ranks
<1>3. Between(adj)' /\ Transitive(adj)'
  <2>1. WaitEdges' = WaitEdges
    BY <1>1 DEF WaitEdges, Waits, Positions
  <2> QED BY <2>1, <1>1, <1>2 DEF Between, Transitive
<1>4. \A r \in Ranks : r < wi + 1 <=> r < wi \/ r = wi
  BY <1>2 DEF Ranks
<1>5. wi \notin deadlocked
  BY <1>2 DEF Ranks
<1>6. deadlocked' = IF <<wi, wi>> \in adj THEN deadlocked \cup {wi} ELSE deadlocked
  BY DEF Report, OnDiagonal
<1>7. deadlocked' = {r \in Ranks : r < wi' /\ <<r, r>> \in adj'}
  BY <1>1, <1>2, <1>4, <1>6
<1>8. IsFiniteSet(deadlocked)
  <2>1. IsFiniteSet(Ranks)
    BY FS_Interval, RanksAssumption DEF Ranks
  <2> QED BY <2>1, <1>2, FS_Subset
<1>9. deadlock_count' = Cardinality(deadlocked')
  BY <1>2, <1>5, <1>8, FS_AddElement DEF Report, OnDiagonal
<1> QED BY <1>1, <1>2, <1>3, <1>7, <1>9 DEF WaitInv

\* Every step of the deadlock detection keeps the invariant.
LEMMA WaitNextInv ==
  ASSUME WTypeOK, WaitInv, [WNext]_<<all, used, wvars>>
  PROVE  WaitInv'
<1>1. CASE EndReport
  <2>1. /\ wstep = "report" /\ wstep' = "done" /\ wi = num_ranks /\ wi' = wi /\ adj' = adj
        /\ all' = all /\ used' = used /\ deadlocked' = deadlocked /\ deadlock_count' = deadlock_count
    BY <1>1 DEF EndReport
  <2>2. WaitEdges' = WaitEdges
    BY <2>1 DEF WaitEdges, Waits, Positions
  <2> QED BY <2>1, <2>2 DEF WaitInv, Between, Transitive
<1>2. CASE UNCHANGED <<all, used, wvars>>
  <2>1. WaitEdges' = WaitEdges /\ SeedEdges' = SeedEdges
    BY <1>2 DEF wvars, WaitEdges, SeedEdges, Waits, Positions
  <2>2. UNCHANGED <<all, used, wvars>>
    BY <1>2
  <2> QED BY <2>1, <2>2 DEF WaitInv, Between, Transitive, TransitiveBelow, Visited, Joined, wvars
<1>3. CASE wstep = "idle" /\ Prepare /\ UNCHANGED wvars
  BY <1>3 DEF wvars, WaitInv
<1> QED BY <1>1, <1>2, <1>3, BeginWaitInv, SeedInv, EndSeedInv, CloseInv, ReportInv DEF WNext, WStep

\* The invariant of the rounds.
THEOREM WaitInvariant == WSpec => []WaitInv
<1>1. WTypeOK /\ WaitInv /\ [WNext]_<<all, used, wvars>> => WaitInv'
  BY WaitNextInv
<1>2. WInit => WaitInv
  BY DEF WInit, WaitInv
<1> QED BY <1>1, <1>2, WaitTypeCorrect, PTL DEF WSpec

\* For every number of ranks and every array of events, the in-place loops end
\* with exactly the transitive closure of the waits.
THEOREM ClosureExact == WSpec => []ClosureIsExact
<1>1. WTypeOK /\ WaitInv => ClosureIsExact
  <2> SUFFICES ASSUME WTypeOK, WaitInv, wstep = "done"
               PROVE  /\ WaitEdges \subseteq adj
                      /\ Transitive(adj)
                      /\ \A R \in SUBSET adj : WaitEdges \subseteq R /\ Transitive(R) => R = adj
    BY DEF ClosureIsExact
  <2>1. Between(adj) /\ Transitive(adj) /\ adj \subseteq Ranks \X Ranks
    BY DEF WaitInv, WTypeOK
  <2> QED BY <2>1 DEF Between
<1> QED BY <1>1, WaitTypeCorrect, WaitInvariant, PTL

-----------------------------------------------------------------------------
(* The ranks on a cycle.  A walk follows edges; the closure joins exactly   *)
(* the ranks that a walk joins, and the shortest walk from a rank to itself *)
(* enters no rank twice, so it has at most num_ranks edges.                 *)

\* p walks along m of the edges E.
Walk(E, m, p) ==
    /\ p \in [0..m -> Ranks]
    /\ \A n \in 0..(m - 1) : <<p[n], p[n + 1]>> \in E

\* The pairs that a walk of one edge or more joins.
WalkPairs(E) ==
    {v \in Ranks \X Ranks :
        \E m \in Nat \ {0} : \E p \in [0..m -> Ranks] : Walk(E, m, p) /\ p[0] = v[1] /\ p[m] = v[2]}

\* A set of naturals has a least element.
LEMMA LeastOf ==
  ASSUME NEW T \in SUBSET Nat, T # {}
  PROVE  \E x \in T : \A y \in T : x <= y
<1>1. PICK x \in T : \A y \in T : ~(<<y, x>> \in OpToRel(<, Nat))
  BY NatLessThanWellFounded, WFMin
<1>2. \A y \in T : ~(y < x)
  BY <1>1 DEF OpToRel
<1> QED BY <1>2

\* A transitive relation joins the ends of every walk along its pairs.
LEMMA WalkIsJoined ==
  ASSUME NEW R, Transitive(R), NEW m \in Nat \ {0}, NEW p, Walk(R, m, p)
  PROVE  <<p[0], p[m]>> \in R
<1> DEFINE T == {n \in 1..m : <<p[0], p[n]>> \notin R}
<1>1. CASE T = {}
  BY <1>1
<1>2. CASE T # {}
  <2> T \in SUBSET Nat
    OBVIOUS
  <2> HIDE DEF T
  <2>0. PICK x \in T : \A y \in T : x <= y
    BY <1>2, LeastOf
  <2> USE DEF T
  <2>1. x \in T /\ \A y \in T : x <= y
    BY <2>0
  <2>2. x # 1
    BY <2>1 DEF Walk
  <2>3. x - 1 \in 1..m /\ x - 1 \notin T /\ x - 1 \in 0..(m - 1)
    BY <2>1, <2>2
  <2>4. <<p[0], p[x - 1]>> \in R /\ <<p[x - 1], p[x]>> \in R
    <3>1. (x - 1) + 1 = x
      BY <2>1
    <3> QED BY <2>3, <3>1 DEF Walk
  <2>5. p[0] \in Ranks /\ p[x - 1] \in Ranks /\ p[x] \in Ranks
    BY <2>1, <2>3 DEF Walk
  <2> QED BY <2>1, <2>4, <2>5 DEF Transitive
<1> QED BY <1>1, <1>2

\* A walk to a rank goes on with a walk from it.
LEMMA WalkPairsTransitive ==
  ASSUME NEW E
  PROVE  Transitive(WalkPairs(E))
<1> SUFFICES ASSUME NEW a \in Ranks, NEW b \in Ranks, NEW c \in Ranks,
                    <<a, b>> \in WalkPairs(E), <<b, c>> \in WalkPairs(E)
             PROVE  <<a, c>> \in WalkPairs(E)
  BY DEF Transitive
<1>1. PICK m \in Nat \ {0} : \E p \in [0..m -> Ranks] : Walk(E, m, p) /\ p[0] = a /\ p[m] = b
  BY DEF WalkPairs
<1>2. PICK p \in [0..m -> Ranks] : Walk(E, m, p) /\ p[0] = a /\ p[m] = b
  BY <1>1
<1>3. PICK k \in Nat \ {0} : \E q \in [0..k -> Ranks] : Walk(E, k, q) /\ q[0] = b /\ q[k] = c
  BY DEF WalkPairs
<1>4. PICK q \in [0..k -> Ranks] : Walk(E, k, q) /\ q[0] = b /\ q[k] = c
  BY <1>3
<1> DEFINE pq == [n \in 0..(m + k) |-> IF n <= m THEN p[n] ELSE q[n - m]]
<1>5. pq \in [0..(m + k) -> Ranks]
  BY <1>2, <1>4
<1>6. ASSUME NEW n \in 0..(m + k - 1)
      PROVE  <<pq[n], pq[n + 1]>> \in E
  <2>1. CASE n < m
    <3>1. pq[n] = p[n] /\ pq[n + 1] = p[n + 1]
      BY <2>1
    <3> QED BY <2>1, <3>1, <1>2 DEF Walk
  <2>2. CASE n >= m
    <3>1. n - m \in 0..(k - 1) /\ (n - m) + 1 = (n + 1) - m
      BY <2>2
    <3>2. pq[n] = q[n - m] /\ pq[n + 1] = q[(n - m) + 1]
      <4>1. CASE n = m
        BY <4>1, <1>2, <1>4, <3>1
      <4>2. CASE n > m
        BY <4>2, <3>1
      <4> QED BY <2>2, <4>1, <4>2
    <3> QED BY <3>1, <3>2, <1>4 DEF Walk
  <2> QED BY <2>1, <2>2
<1>7. pq[0] = a /\ pq[m + k] = c
  BY <1>2, <1>4
<1>8. m + k \in Nat \ {0}
  OBVIOUS
<1> HIDE DEF pq
<1>9. Walk(E, m + k, pq)
  BY <1>5, <1>6 DEF Walk
<1> QED BY <1>5, <1>7, <1>8, <1>9 DEF WalkPairs

\* An edge is a walk.
LEMMA EdgesAreWalks ==
  ASSUME NEW E \in SUBSET (Ranks \X Ranks)
  PROVE  E \subseteq WalkPairs(E)
<1> SUFFICES ASSUME NEW a \in Ranks, NEW b \in Ranks, <<a, b>> \in E
             PROVE  <<a, b>> \in WalkPairs(E)
  OBVIOUS
<1> DEFINE p == [n \in 0..1 |-> IF n = 0 THEN a ELSE b]
<1>1. p \in [0..1 -> Ranks] /\ p[0] = a /\ p[1] = b
  OBVIOUS
<1>2. Walk(E, 1, p)
  BY <1>1 DEF Walk
<1> HIDE DEF p
<1>3. \E w \in [0..1 -> Ranks] : Walk(E, 1, w) /\ w[0] = a /\ w[1] = b
  BY <1>1, <1>2
<1>4. \E m \in Nat \ {0} : \E w \in [0..m -> Ranks] : Walk(E, m, w) /\ w[0] = a /\ w[m] = b
  <2>1. 1 \in Nat \ {0}
    OBVIOUS
  <2> WITNESS 1 \in Nat \ {0}
  <2> QED BY <1>3
<1> QED BY <1>4 DEF WalkPairs

\* A walk that is in one rank at the steps i and j, i first, can leave out what
\* is between.
LEMMA ShorterWalk ==
  ASSUME NEW E, NEW m \in Nat \ {0}, NEW p, Walk(E, m, p),
         NEW i \in 1..m, NEW j \in 1..m, i < j, p[i] = p[j]
  PROVE  \E k \in 1..(m - 1) : \E q \in [0..k -> Ranks] :
            Walk(E, k, q) /\ q[0] = p[0] /\ q[k] = p[m]
<1> DEFINE k == m - (j - i)
           q == [n \in 0..k |-> IF n <= i THEN p[n] ELSE p[n + (j - i)]]
<1>1. k \in 1..(m - 1) /\ i <= k
  OBVIOUS
<1>2. q \in [0..k -> Ranks]
  BY DEF Walk
<1>3. ASSUME NEW n \in 0..(k - 1)
      PROVE  <<q[n], q[n + 1]>> \in E
  <2>1. CASE n < i
    BY <2>1 DEF Walk
  <2>2. CASE n >= i
    <3>1. n + (j - i) \in 0..(m - 1) /\ (n + (j - i)) + 1 = (n + 1) + (j - i)
      BY <2>2
    <3>2. q[n] = p[n + (j - i)] /\ q[n + 1] = p[(n + (j - i)) + 1]
      <4>1. CASE n = i
        BY <4>1, <3>1
      <4>2. CASE n > i
        BY <4>2, <3>1
      <4> QED BY <2>2, <4>1, <4>2
    <3> QED BY <3>1, <3>2 DEF Walk
  <2> QED BY <2>1, <2>2
<1>4. q[0] = p[0] /\ q[k] = p[m]
  <2>1. q[0] = p[0]
    BY <1>1
  <2>2. CASE i = k
    BY <1>1, <2>2
  <2>3. CASE i < k
    BY <1>1, <2>3
  <2> QED BY <1>1, <2>1, <2>2, <2>3
<1> HIDE DEF q
<1>5. Walk(E, k, q)
  BY <1>2, <1>3 DEF Walk
<1> QED BY <1>1, <1>2, <1>4, <1>5

\* A walk from a rank to itself can be taken in at most num_ranks steps.
LEMMA ClosedWalkIsCycle ==
  ASSUME NEW E, NEW r \in Ranks, <<r, r>> \in WalkPairs(E)
  PROVE  OnCycle(E, r)
<1> DEFINE T == {m \in Nat \ {0} : \E p \in [0..m -> Ranks] : Walk(E, m, p) /\ p[0] = r /\ p[m] = r}
<1>1. T # {} /\ T \in SUBSET Nat
  BY DEF WalkPairs
<1> HIDE DEF T
<1>2. PICK m \in T : \A y \in T : m <= y
  BY <1>1, LeastOf
<1>3. PICK p \in [0..m -> Ranks] : Walk(E, m, p) /\ p[0] = r /\ p[m] = r
  BY <1>2 DEF T
<1>4. m \in Nat \ {0}
  BY <1>2 DEF T
<1>5. \A i, j \in 1..m : i < j => p[i] # p[j]
  <2> SUFFICES ASSUME NEW i \in 1..m, NEW j \in 1..m, i < j, p[i] = p[j] PROVE FALSE
    OBVIOUS
  <2>1. PICK k \in 1..(m - 1) : \E q \in [0..k -> Ranks] : Walk(E, k, q) /\ q[0] = r /\ q[k] = r
    BY <1>3, <1>4, ShorterWalk
  <2>2. k \in T
    <3>1. k \in Nat \ {0}
      BY <1>4
    <3> QED BY <2>1, <3>1, Zenon DEF T
  <2> QED BY <2>1, <2>2, <1>2, <1>4
<1>6. m <= num_ranks
  <2> SUFFICES ASSUME m > num_ranks PROVE FALSE
    BY <1>4, RanksAssumption
  <2> DEFINE f == [n \in 1..m |-> p[n]]
  <2>1. f \in [1..m -> Ranks]
    BY <1>3, <1>4
  <2>2. IsFiniteSet(1..m) /\ Cardinality(1..m) = m
    BY <1>4, FS_Interval
  <2>3. IsFiniteSet(Ranks) /\ Cardinality(Ranks) = num_ranks
    <3>1. num_ranks \in Nat \ {0} /\ num_ranks - 1 \in Int /\ ~(0 > num_ranks - 1)
      BY RanksAssumption
    <3>2. /\ IsFiniteSet(0..(num_ranks - 1))
          /\ Cardinality(0..(num_ranks - 1)) = IF 0 > num_ranks - 1 THEN 0 ELSE (num_ranks - 1) - 0 + 1
      BY <3>1, FS_Interval
    <3> QED BY <3>1, <3>2 DEF Ranks
  <2>4. Cardinality(Ranks) < Cardinality(1..m)
    BY <1>4, <2>2, <2>3, RanksAssumption
  <2> HIDE DEF f
  <2>5. PICK x \in 1..m, y \in 1..m : x # y /\ f[x] = f[y]
    BY <2>1, <2>2, <2>3, <2>4, FS_PigeonHole
  <2>6. p[x] = p[y]
    BY <2>5 DEF f
  <2> QED BY <1>4, <1>5, <2>5, <2>6
<1>7. m \in 1..num_ranks
  BY <1>4, <1>6, RanksAssumption
<1> QED BY <1>3, <1>7 DEF OnCycle, Walk

\* For every number of ranks and every array of events, the ranks that are
\* reported are those on a cycle of the waits, each counted once.
THEOREM ReportedOnCycles == WSpec => []ReportedAreOnCycles
<1>1. ASSUME WTypeOK, WaitInv, Given, wstep = "done"
      PROVE  /\ deadlocked = {r \in Ranks : OnCycle(WaitEdges, r)}
             /\ deadlock_count = Cardinality(deadlocked)
  <2>1. /\ Between(adj) /\ Transitive(adj)
        /\ deadlocked = {r \in Ranks : r < num_ranks /\ <<r, r>> \in adj}
        /\ deadlock_count = Cardinality(deadlocked)
    BY <1>1 DEF WaitInv
  <2>2. WaitEdges \in SUBSET (Ranks \X Ranks)
    BY <1>1, WaitIsEdge DEF WaitEdges
  <2>3. ASSUME NEW r \in Ranks
        PROVE  <<r, r>> \in adj <=> OnCycle(WaitEdges, r)
    <3>1. ASSUME <<r, r>> \in adj
          PROVE  OnCycle(WaitEdges, r)
      <4>1. WalkPairs(WaitEdges) \in SUBSET (Ranks \X Ranks)
        BY DEF WalkPairs
      <4>2. WaitEdges \subseteq WalkPairs(WaitEdges)
        BY <2>2, EdgesAreWalks
      <4>3. Transitive(WalkPairs(WaitEdges))
        BY WalkPairsTransitive
      <4>4. adj \subseteq WalkPairs(WaitEdges)
        BY <2>1, <4>1, <4>2, <4>3 DEF Between
      <4> QED BY <3>1, <4>4, ClosedWalkIsCycle
    <3>2. ASSUME OnCycle(WaitEdges, r)
          PROVE  <<r, r>> \in adj
      <4>0. PICK m \in 1..num_ranks : \E p \in [0..m -> Ranks] :
                    /\ p[0] = r /\ p[m] = r
                    /\ \A n \in 0..(m - 1) : <<p[n], p[n + 1]>> \in WaitEdges
        BY <3>2 DEF OnCycle
      <4>1. PICK p \in [0..m -> Ranks] :
                    /\ p[0] = r /\ p[m] = r
                    /\ \A n \in 0..(m - 1) : <<p[n], p[n + 1]>> \in WaitEdges
        BY <4>0
      <4>2. WaitEdges \subseteq adj
        BY <2>1 DEF Between
      <4>3. Walk(adj, m, p) /\ m \in Nat \ {0}
        BY <4>1, <4>2 DEF Walk
      <4> QED BY <4>1, <4>3, <2>1, WalkIsJoined
    <3> QED BY <3>1, <3>2
  <2>4. \A r \in Ranks : r < num_ranks
    BY RanksAssumption DEF Ranks
  <2>5. deadlocked = {r \in Ranks : OnCycle(WaitEdges, r)}
    BY <2>1, <2>3, <2>4
  <2> QED BY <2>1, <2>5
<1>2. WTypeOK /\ WaitInv /\ Given => ReportedAreOnCycles
  BY <1>1 DEF ReportedAreOnCycles
<1> QED BY <1>2, WaitTypeCorrect, WaitInvariant, WaitGiven, PTL
=============================================================================
