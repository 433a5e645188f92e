----------------------------- MODULE WaitGraph -----------------------------
(* The deadlock detection of msan_analyze_events (detector.c, step 6): the  *)
(* sends and receives left unmatched are edges of a wait-for graph, three   *)
(* nested loops close its adjacency matrix transitively in place, and the   *)
(* ranks that reach themselves are deadlocked.  One action per iteration of *)
(* the innermost loop.                                                      *)
EXTENDS EventArray

VARIABLES
    wstep,               \* "idle", "seed", "close", "report" or "done"
    wk, wi, wj,          \* the loop indices (wi: also the index of the two others)
    adj,                 \* the pairs <<r, s>> with adj[r * num_ranks + s] # 0
    deadlock_count,
    deadlocked,          \* history: the ranks that were reported
    base                 \* history: adj when the current round of wk began

wvars == <<wstep, wk, wi, wj, adj, deadlock_count, deadlocked, base>>

WInit ==
    /\ wstep = "idle" /\ wk = 0 /\ wi = 1 /\ wj = 0
    /\ adj = {} /\ base = {}
    /\ deadlock_count = 0 /\ deadlocked = {}

-----------------------------------------------------------------------------
BeginWait ==
    /\ wstep = "idle"
    /\ wstep' = "seed"
    /\ UNCHANGED <<all, used, wk, wi, wj, adj, deadlock_count, deadlocked, base>>

\* The event of a call whose peer is a rank, not a wildcard.
Waits(e) == e.kind \in {"SEND", "RECV"} /\ 0 <= e.peer /\ e.peer < num_ranks

\* mutated form: matched calls count as waits too.
SeedEvery ==
    /\ wstep = "seed" /\ wi \in Positions
    /\ adj' = IF Waits(all[wi]) THEN adj \cup {<<all[wi].rank, all[wi].peer>>} ELSE adj
    /\ wi' = wi + 1
    /\ UNCHANGED <<all, used, wstep, wk, wj, deadlock_count, deadlocked, base>>

Seed ==
    /\ wstep = "seed" /\ wi \in Positions
    /\ adj' = IF ~used[wi] /\ Waits(all[wi]) THEN adj \cup {<<all[wi].rank, all[wi].peer>>} ELSE adj
    /\ wi' = wi + 1
    /\ UNCHANGED <<all, used, wstep, wk, wj, deadlock_count, deadlocked, base>>

EndSeed ==
    /\ wstep = "seed" /\ wi > Len(all)
    /\ wstep' = "close"
    /\ wk' = 0 /\ wi' = 0 /\ wj' = 0
    /\ base' = adj
    /\ UNCHANGED <<all, used, adj, deadlock_count, deadlocked>>

\* a waits for wk and wk for b.
Through(a, b) == <<a, wk>> \in adj /\ <<wk, b>> \in adj

\* The three loops go on: to the next column, row or round, or to their end.
NextColumn ==
    /\ wj < num_ranks - 1
    /\ wj' = wj + 1
    /\ UNCHANGED <<wstep, wk, wi, base>>

NextRow ==
    /\ wj = num_ranks - 1 /\ wi < num_ranks - 1
    /\ wi' = wi + 1 /\ wj' = 0
    /\ UNCHANGED <<wstep, wk, base>>

\* mutated form: the rounds stop one short.
NextRoundShort ==
    /\ wj = num_ranks - 1 /\ wi = num_ranks - 1
    /\ wi' = 0 /\ wj' = 0
    /\ base' = adj'
    /\ IF wk < num_ranks - 2
       THEN wk' = wk + 1 /\ UNCHANGED wstep
       ELSE wk' = 0 /\ wstep' = "report"

NextRound ==
    /\ wj = num_ranks - 1 /\ wi = num_ranks - 1
    /\ wi' = 0 /\ wj' = 0
    /\ base' = adj'
    /\ IF wk < num_ranks - 1
       THEN wk' = wk + 1 /\ UNCHANGED wstep
       ELSE wk' = 0 /\ wstep' = "report"

\* One iteration of the innermost loop.
Close ==
    /\ wstep = "close"
    /\ adj' = IF Through(wi, wj) THEN adj \cup {<<wi, wj>>} ELSE adj
    /\ NextColumn \/ NextRow \/ NextRound
    /\ UNCHANGED <<all, used, deadlock_count, deadlocked>>

\* mutated form: a pair that wait for each other is reported, a longer cycle not.
OnDiagonalOfTwo(r) == \E s \in Ranks : <<r, s>> \in adj /\ <<s, r>> \in adj /\ s # r

OnDiagonal(r) == <<r, r>> \in adj

Report ==
    /\ wstep = "report" /\ wi < num_ranks
    /\ IF OnDiagonal(wi)
       THEN deadlocked' = deadlocked \cup {wi} /\ deadlock_count' = deadlock_count + 1
       ELSE UNCHANGED <<deadlocked, deadlock_count>>
    /\ wi' = wi + 1
    /\ UNCHANGED <<all, used, wstep, wk, wj, adj, base>>

EndReport ==
    /\ wstep = "report" /\ wi = num_ranks
    /\ wstep' = "done"
    /\ UNCHANGED <<all, used, wk, wi, wj, adj, deadlock_count, deadlocked, base>>

WStep == BeginWait \/ Seed \/ EndSeed \/ Close \/ Report \/ EndReport

WNext == (wstep = "idle" /\ Prepare /\ UNCHANGED wvars) \/ WStep

WSpec == AInit /\ WInit /\ [][WNext]_<<all, used, wvars>>

-----------------------------------------------------------------------------
WTypeOK ==
    /\ ATypeOK
    /\ wstep \in {"idle", "seed", "close", "report", "done"}
    /\ wi \in Nat /\ wj \in Nat /\ wk \in Nat
    /\ adj \subseteq Ranks \X Ranks /\ base \subseteq Ranks \X Ranks
    /\ deadlock_count \in Nat
    /\ deadlocked \subseteq Ranks

\* The waits that the unmatched events show.
WaitEdges == {<<all[m].rank, all[m].peer>> :
                m \in {n \in Positions : ~used[n] /\ Waits(all[n])}}

Transitive(R) == \A a, b, c \in Ranks : <<a, b>> \in R /\ <<b, c>> \in R => <<a, c>> \in R

\* The loops compute the transitive closure of the waits, although they update
\* the matrix that they read (detector.c 439-442).
ClosureIsExact ==
    wstep = "done" =>
        /\ WaitEdges \subseteq adj
        /\ Transitive(adj)
        /\ \A R \in SUBSET adj : WaitEdges \subseteq R /\ Transitive(R) => R = adj

\* Rank r lies on a cycle of the edges E.
OnCycle(E, r) ==
    \E m \in 1..num_ranks : \E p \in [0..m -> Ranks] :
        /\ p[0] = r /\ p[m] = r
        /\ \A n \in 0..(m - 1) : <<p[n], p[n + 1]>> \in E

\* A rank is deadlocked, and counted once, exactly when it waits for itself
\* through a chain of unmatched calls (detector.c 444-449).
ReportedAreOnCycles ==
    wstep = "done" =>
        /\ deadlocked = {r \in Ranks : OnCycle(WaitEdges, r)}
        /\ deadlock_count = Cardinality(deadlocked)
=============================================================================
