-------------------------- MODULE InstrumentProofs --------------------------
(* Proofs about the instrumentation pass, for all functions.                *)
EXTENDS InstrumentPass, TLAPS

Hooked(ins) == HookedBefore(ins) \/ HookedAfter(ins)

\* The first b instructions of c come of the first d of the function f: without
\* the hooks they are those, in their order, and every call has its own hook.
Done(c, f, b, d) ==
    /\ \A k \in 1..b : c[k].at \in 1..d /\ (~IsHook(c[k]) => c[k] = f[c[k].at])
    /\ \A k, m \in 1..b : k < m /\ ~IsHook(c[k]) /\ ~IsHook(c[m]) => c[k].at < c[m].at
    /\ \A n \in 1..d : \E k \in 1..b : c[k] = f[n]
    /\ \A k \in 1..b : /\ HookIsBefore(c[k]) => k > 1 /\ c[k - 1] = Hook(c[k])
                       /\ HookedAfter(c[k]) /\ ~c[k].invoke => k < b /\ c[k + 1] = Hook(c[k])
    /\ \A k \in 1..b : IsHook(c[k]) =>
         \E m \in {k - 1, k + 1} \cap 1..b : Hooked(c[m]) /\ c[k] = Hook(c[m])
    /\ \A k, m \in 1..b : k # m /\ IsHook(c[k]) => c[k] # c[m]

\* What the pass has left behind the iterator, and what is before it: the rest of
\* the function as it was, after a hook that was just inserted, if there is one.
PassInv ==
    /\ source \in Functions /\ code \in Seq(Instruction)
    /\ \E d \in 0..Len(source) : \E o \in 0..d :
         /\ Len(code) = Len(source) + o
         /\ Done(code, source, d + o, d)
         /\ \A n \in (d + 1)..Len(source) : code[n + o] = source[n]
         /\ pos = d + o + 1 \/ (d + o > 0 /\ pos = d + o /\ IsHook(code[pos]))

-----------------------------------------------------------------------------
\* Inserting moves what follows by one place and keeps the rest.
LEMMA InsertAtFacts ==
  ASSUME NEW S, NEW s \in Seq(S), NEW i \in 1..(Len(s) + 1), NEW e \in S
  PROVE  /\ InsertAt(s, i, e) \in Seq(S)
         /\ Len(InsertAt(s, i, e)) = Len(s) + 1
         /\ \A k \in 1..(Len(s) + 1) :
              InsertAt(s, i, e)[k] = IF k < i THEN s[k] ELSE IF k = i THEN e ELSE s[k - 1]
<1> DEFINE a == SubSeq(s, 1, i - 1)
           b == SubSeq(s, i, Len(s))
<1>1. Len(s) \in Nat /\ i - 1 \in 0..Len(s) /\ i \in 1..(Len(s) + 1)
  OBVIOUS
<1>2. a \in Seq(S) /\ Len(a) = i - 1 /\ \A k \in 1..(i - 1) : a[k] = s[k]
  BY <1>1
<1>3. b \in Seq(S) /\ Len(b) = Len(s) - i + 1 /\ \A k \in 1..(Len(s) - i + 1) : b[k] = s[i + k - 1]
  BY <1>1
<1>4. InsertAt(s, i, e) = a \o <<e>> \o b
  BY DEF InsertAt
<1> HIDE DEF a, b
<1>5. <<e>> \in Seq(S) /\ Len(<<e>>) = 1 /\ <<e>>[1] = e
  OBVIOUS
<1> DEFINE c == a \o <<e>>
<1>6. c \in Seq(S) /\ Len(c) = i /\ \A k \in 1..i : c[k] = IF k < i THEN s[k] ELSE e
  BY <1>1, <1>2, <1>5
<1> HIDE DEF c
<1>0. b \in Seq(S) /\ Len(b) = Len(s) - i + 1 /\ c \in Seq(S) /\ Len(c) = i
  BY <1>3, <1>6
<1>7. (c \o b) \in Seq(S) /\ Len(c \o b) = Len(s) + 1
  <2>1. (c \o b) \in Seq(S) /\ Len(c \o b) = Len(c) + Len(b)
    BY <1>0
  <2> QED BY <1>0, <1>1, <2>1
<1>9. \A k \in 1..(Len(s) + 1) : (c \o b)[k] = IF k <= i THEN c[k] ELSE b[k - i]
  BY <1>0, <1>1
<1>8. ASSUME NEW k \in 1..(Len(s) + 1)
      PROVE  (c \o b)[k] = IF k < i THEN s[k] ELSE IF k = i THEN e ELSE s[k - 1]
  <2>1. CASE k <= i
    BY <1>1, <1>6, <1>9, <2>1
  <2>2. CASE k > i
    <3>1. k - i \in 1..(Len(s) - i + 1) /\ ~(k <= i)
      BY <1>1, <2>2
    <3>3. (c \o b)[k] = b[k - i]
      BY <1>9, <3>1, Zenon
    <3>2. b[k - i] = s[k - 1]
      BY <1>1, <1>3, <3>1
    <3> QED BY <1>1, <2>2, <3>2, <3>3
  <2>3. k <= i \/ k > i
    BY <1>1
  <2> QED BY <2>1, <2>2, <2>3, Zenon
<1> QED BY <1>4, <1>7, <1>8 DEF c

\* A hook is not a call that gets one.
LEMMA HooksAreNoCalls ==
  ASSUME NEW ins
  PROVE  IsHook(ins) => ~Hooked(ins)
BY DEF IsHook, Hooks, Hooked, HookedBefore, HookedAfter, Inits, Sends, Recvs, Finals, Colls

\* A hook is a hook, of the call's own instruction.
LEMMA HookFacts ==
  ASSUME NEW ins, Hooked(ins)
  PROVE  IsHook(Hook(ins)) /\ Hook(ins).at = ins.at
BY DEF IsHook, Hook, HookOf, Hooks, Hooked, HookedBefore, HookedAfter, Inits, Sends, Recvs, Finals, Colls

\* The hook of an instruction is one.
LEMMA HookIsInstruction ==
  ASSUME NEW ins \in Instruction, Hooked(ins)
  PROVE  Hook(ins) \in Instruction
<1>1. HookOf(ins.callee) \in Callees
  BY DEF HookOf, Hooks, Callees
<1>2. ins.callee \in {"MPI_Send", "MPI_Recv", "MPI_Init", "MPI_Init_thread", "MPI_Finalize",
                      "MPI_Barrier", "MPI_Bcast", "MPI_Reduce", "MPI_Allreduce"}
  BY DEF Hooked, HookedBefore, HookedAfter, Inits, Sends, Recvs, Finals, Colls
<1>3. Operands[ins.callee] \in Seq(Int)
  <2>1. Operands[ins.callee] \in
          {<<>>, <<0, 1, 2, 3, 4, 5>>, <<0, 1, 2, 3, 4, 5, 6>>, <<NULL, NULL, NULL, NULL, NULL, 0>>,
           <<0, NULL, 1, 2, 3, 4>>, <<0, 1, 2, 3, 5, 6>>, <<0, 1, 2, 3, NULL, 5>>}
    BY <1>2 DEF Operands
  <2>2. NULL \in Int
    BY DEF NULL
  <2>3. <<>> \in Seq(Int) /\ <<0, 1, 2, 3, 4, 5>> \in Seq(Int) /\ <<0, 1, 2, 3, 4, 5, 6>> \in Seq(Int)
    OBVIOUS
  <2>4. /\ <<NULL, NULL, NULL, NULL, NULL, 0>> \in Seq(Int) /\ <<0, NULL, 1, 2, 3, 4>> \in Seq(Int)
        /\ <<0, 1, 2, 3, 5, 6>> \in Seq(Int) /\ <<0, 1, 2, 3, NULL, 5>> \in Seq(Int)
    BY <2>2
  <2> QED BY <2>1, <2>3, <2>4
<1> QED BY <1>1, <1>3 DEF Hook, Instruction

\* The hook of a call gets what its parameters stand for.
LEMMA HookPasses ==
  ASSUME NEW ins, Hooked(ins)
  PROVE  Passes(Hook(ins), ins)
<1> USE DEF Passes, Hook, HookOf, HookParameters, Parameters, Operands, NULL, ToSet,
            Inits, Sends, Recvs, Finals, Colls
<1>1. CASE ins.callee = "MPI_Init"
  BY <1>1
<1>2. CASE ins.callee = "MPI_Init_thread"
  BY <1>2
<1>3. CASE ins.callee = "MPI_Finalize"
  BY <1>3
<1>4. CASE ins.callee = "MPI_Send"
  BY <1>4
<1>5. CASE ins.callee = "MPI_Recv"
  BY <1>5
<1>6. CASE ins.callee = "MPI_Barrier"
  BY <1>6
<1>7. CASE ins.callee = "MPI_Bcast"
  BY <1>7
<1>8. CASE ins.callee = "MPI_Reduce"
  BY <1>8
<1>9. CASE ins.callee = "MPI_Allreduce"
  BY <1>9
<1> QED BY <1>1, <1>2, <1>3, <1>4, <1>5, <1>6, <1>7, <1>8, <1>9 DEF Hooked, HookedBefore, HookedAfter

-----------------------------------------------------------------------------
\* An instruction without a hook goes over as it is.
LEMMA DonePlain ==
  ASSUME NEW c, NEW c2, NEW f, NEW b \in Nat, NEW d \in Nat, Done(c, f, b, d),
         \A k \in 1..b : c2[k] = c[k], c2[b + 1] = f[d + 1], f[d + 1].at = d + 1,
         ~IsHook(f[d + 1]), ~Hooked(f[d + 1])
  PROVE  Done(c2, f, b + 1, d + 1)
<1>1. \A k \in 1..(b + 1) : k \in 1..b \/ k = b + 1
  OBVIOUS
<1>2. \A n \in 1..(d + 1) : n \in 1..d \/ n = d + 1
  OBVIOUS
<1>3. \A k \in 1..(b + 1) : c2[k].at \in 1..(d + 1) /\ (~IsHook(c2[k]) => c2[k] = f[c2[k].at])
  BY <1>1 DEF Done
<1>4. \A k, m \in 1..(b + 1) : k < m /\ ~IsHook(c2[k]) /\ ~IsHook(c2[m]) => c2[k].at < c2[m].at
  BY <1>1 DEF Done
<1>5. \A n \in 1..(d + 1) : \E k \in 1..(b + 1) : c2[k] = f[n]
  BY SMTT(30), <1>2 DEF Done
<1>6. \A k \in 1..(b + 1) :
        /\ HookIsBefore(c2[k]) => k > 1 /\ c2[k - 1] = Hook(c2[k])
        /\ HookedAfter(c2[k]) /\ ~c2[k].invoke => k < b + 1 /\ c2[k + 1] = Hook(c2[k])
  BY SMTT(30), <1>1 DEF Done, Hooked, HookIsBefore
<1>7. \A k \in 1..(b + 1) : IsHook(c2[k]) =>
        \E m \in {k - 1, k + 1} \cap 1..(b + 1) : Hooked(c2[m]) /\ c2[k] = Hook(c2[m])
  <2>1. \A k \in 1..b : IsHook(c2[k]) =>
          \E m \in {k - 1, k + 1} \cap 1..b : Hooked(c2[m]) /\ c2[k] = Hook(c2[m])
    BY DEF Done
  <2>2. \A k \in 1..(b + 1) : IsHook(c2[k]) => k \in 1..b
    BY <1>1, Zenon
  <2> QED BY <2>1, <2>2
<1>8. \A k, m \in 1..(b + 1) : k # m /\ IsHook(c2[k]) => c2[k] # c2[m]
  <2>1. \A k, m \in 1..b : k # m /\ IsHook(c2[k]) => c2[k] # c2[m]
    BY DEF Done
  <2>2. \A k \in 1..(b + 1) : IsHook(c2[k]) => k \in 1..b /\ c2[k] # c2[b + 1]
    BY <1>1, Zenon
  <2> QED BY <1>1, <2>1, <2>2
<1> QED BY <1>3, <1>4, <1>5, <1>6, <1>7, <1>8 DEF Done

\* A call goes over with its hook, the one next to the other.
LEMMA DoneHooked ==
  ASSUME NEW c, NEW c2, NEW f, NEW b \in Nat, NEW d \in Nat, Done(c, f, b, d),
         \A k \in 1..b : c2[k] = c[k], f[d + 1].at = d + 1, ~IsHook(f[d + 1]), Hooked(f[d + 1]),
         NEW p \in {b + 1, b + 2}, NEW q \in {b + 1, b + 2},
         c2[p] = f[d + 1], c2[q] = Hook(f[d + 1]),
         IF HookedBefore(f[d + 1]) \/ f[d + 1].invoke THEN q = p - 1 ELSE q = p + 1
  PROVE  Done(c2, f, b + 2, d + 1)
<1> DEFINE x == f[d + 1]
           h == Hook(x)
<1>1. IsHook(h) /\ h.at = d + 1 /\ ~Hooked(h)
  BY HookFacts, HooksAreNoCalls
<1>2. /\ \A k \in 1..(b + 2) : k \in 1..b \/ k = p \/ k = q
      /\ \A k \in 1..b : k < p /\ k < q /\ k \in 1..(b + 2)
      /\ p \in 1..(b + 2) /\ q \in 1..(b + 2) /\ (p = q + 1 \/ q = p + 1)
  OBVIOUS
<1>3. \A n \in 1..(d + 1) : n \in 1..d \/ n = d + 1
  OBVIOUS
<1>4. HookedBefore(x) => ~HookedAfter(x)
  BY DEF HookedBefore, HookedAfter, Inits, Sends, Recvs, Finals, Colls
<1>5. \A k \in 1..b : c2[k].at \in 1..d /\ (~IsHook(c2[k]) => c2[k] = f[c2[k].at])
  BY DEF Done
<1>6. Hooked(x) /\ ~IsHook(x) /\ x.at = d + 1 /\ c2[p] = x /\ c2[q] = h
  OBVIOUS
<1>7. IF HookedBefore(x) \/ x.invoke THEN q = p - 1 ELSE q = p + 1
  OBVIOUS
<1> HIDE DEF h
<1>11. \A k \in 1..(b + 2) : c2[k].at \in 1..(d + 1) /\ (~IsHook(c2[k]) => c2[k] = f[c2[k].at])
  BY <1>1, <1>2, <1>5, <1>6
<1> HIDE DEF x
<1>12. \A k, m \in 1..(b + 2) : k < m /\ ~IsHook(c2[k]) /\ ~IsHook(c2[m]) => c2[k].at < c2[m].at
  <2>1. \A k, m \in 1..b : k < m /\ ~IsHook(c2[k]) /\ ~IsHook(c2[m]) => c2[k].at < c2[m].at
    BY DEF Done
  <2>2. \A k, m \in 1..(b + 2) : ~IsHook(c2[k]) /\ ~IsHook(c2[m]) => k # q /\ m # q
    BY <1>1, <1>6
  <2> QED BY <1>2, <1>5, <1>6, <2>1, <2>2
<1>13. \A n \in 1..(d + 1) : \E k \in 1..(b + 2) : c2[k] = f[n]
  BY <1>2, <1>3, <1>6 DEF Done, x
<1>14. \A k \in 1..(b + 2) :
        /\ HookIsBefore(c2[k]) => k > 1 /\ c2[k - 1] = Hook(c2[k])
        /\ HookedAfter(c2[k]) /\ ~c2[k].invoke => k < b + 2 /\ c2[k + 1] = Hook(c2[k])
  <2>1. ASSUME NEW k \in 1..b
        PROVE  /\ HookIsBefore(c2[k]) => k > 1 /\ c2[k - 1] = Hook(c2[k])
               /\ HookedAfter(c2[k]) /\ ~c2[k].invoke => k < b + 2 /\ c2[k + 1] = Hook(c2[k])
    BY DEF Done
  <2>2. ~HookIsBefore(c2[q]) /\ ~HookedAfter(c2[q])
    BY <1>1, <1>6 DEF Hooked, HookIsBefore
  <2>3. /\ HookIsBefore(c2[p]) => p > 1 /\ c2[p - 1] = Hook(c2[p])
        /\ HookedAfter(c2[p]) /\ ~c2[p].invoke => p < b + 2 /\ c2[p + 1] = Hook(c2[p])
    BY <1>2, <1>4, <1>6, <1>7 DEF h, HookIsBefore
  <2> QED BY <1>2, <2>1, <2>2, <2>3
<1>15. \A k \in 1..(b + 2) : IsHook(c2[k]) =>
        \E m \in {k - 1, k + 1} \cap 1..(b + 2) : Hooked(c2[m]) /\ c2[k] = Hook(c2[m])
  <2>1. ASSUME NEW k \in 1..b, IsHook(c2[k])
        PROVE  \E m \in {k - 1, k + 1} \cap 1..(b + 2) : Hooked(c2[m]) /\ c2[k] = Hook(c2[m])
    BY <2>1 DEF Done
  <2>2. p \in {q - 1, q + 1} \cap 1..(b + 2) /\ Hooked(c2[p]) /\ c2[q] = Hook(c2[p])
    BY <1>2, <1>6 DEF h
  <2> QED BY <1>2, <1>6, <2>1, <2>2
<1>16. \A k, m \in 1..(b + 2) : k # m /\ IsHook(c2[k]) => c2[k] # c2[m]
  <2>1. \A k, m \in 1..b : k # m /\ IsHook(c2[k]) => c2[k] # c2[m]
    BY DEF Done
  <2>2. \A k \in 1..b : c2[k] # c2[q] /\ (IsHook(c2[k]) => c2[k] # c2[p])
    BY <1>1, <1>5, <1>6
  <2>3. c2[p] # c2[q]
    BY <1>1, <1>6
  <2>4. ~IsHook(c2[p])
    BY <1>6
  <2> QED BY <1>2, <2>1, <2>2, <2>3, <2>4
<1> QED BY <1>11, <1>12, <1>13, <1>14, <1>15, <1>16 DEF Done

-----------------------------------------------------------------------------
\* Before the first insertion the code is the program.
LEMMA PassInit == Init => PassInv
<1> SUFFICES ASSUME Init PROVE PassInv
  OBVIOUS
<1>1. source \in Seq(Instruction) /\ code = source /\ pos = 1
  BY FunctionsAssumption DEF Init
<1>2. Done(code, source, 0, 0)
  BY DEF Done
<1>3. 0 \in 0..Len(source) /\ 0 \in 0..0 /\ Len(code) = Len(source) + 0 /\ pos = 0 + 0 + 1 /\ 0 + 0 = 0
  BY <1>1
<1>4. \A n \in (0 + 1)..Len(source) : code[n + 0] = source[n]
  BY <1>1
<1> QED BY <1>1, <1>2, <1>3, <1>4 DEF PassInv, Init

\* Passing an instruction and inserting its hook keep the invariant.
LEMMA PassNext == PassInv /\ [Next]_vars => PassInv'
<1> SUFFICES ASSUME PassInv, [Next]_vars PROVE PassInv'
  OBVIOUS
<1>1. PICK d \in 0..Len(source) : \E o \in 0..d :
         /\ Len(code) = Len(source) + o
         /\ Done(code, source, d + o, d)
         /\ \A n \in (d + 1)..Len(source) : code[n + o] = source[n]
         /\ pos = d + o + 1 \/ (d + o > 0 /\ pos = d + o /\ IsHook(code[pos]))
  BY DEF PassInv
<1>2. PICK o \in 0..d :
         /\ Len(code) = Len(source) + o
         /\ Done(code, source, d + o, d)
         /\ \A n \in (d + 1)..Len(source) : code[n + o] = source[n]
         /\ pos = d + o + 1 \/ (d + o > 0 /\ pos = d + o /\ IsHook(code[pos]))
  BY <1>1
<1>3. source \in Functions /\ source \in Seq(Instruction) /\ code \in Seq(Instruction)
  BY FunctionsAssumption DEF PassInv
<1>4. Len(source) \in Nat /\ d \in Nat /\ o \in Nat /\ d + o \in Nat
  BY <1>3
<1> DEFINE b == d + o
\* The instruction at the iterator, and the rest after it.
<1>5. ASSUME pos <= Len(code), ~IsHook(code[pos])
      PROVE  /\ pos = b + 1 /\ d + 1 \in 1..Len(source) /\ d + 1 \in 0..Len(source)
             /\ code[pos] = source[d + 1] /\ source[d + 1] \in Instruction
             /\ source[d + 1].at = d + 1 /\ ~IsHook(source[d + 1])
  <2>1. pos = b + 1
    BY <1>2, <1>5
  <2>2. d + 1 \in 1..Len(source) /\ d + 1 \in 0..Len(source) /\ (d + 1) + o = b + 1
    BY <1>2, <1>4, <1>5, <2>1
  <2>3. code[pos] = source[d + 1]
    <3>1. d + 1 \in (d + 1)..Len(source) /\ (d + 1) + o = pos
      BY <1>4, <2>1, <2>2
    <3> HIDE DEF b
    <3> QED BY <1>2, <3>1
  <2>4. source[d + 1].at = d + 1 /\ ~IsHook(source[d + 1])
    BY <1>3, <2>2, FunctionsAssumption DEF IsHook
  <2> QED BY <1>3, <2>1, <2>2, <2>3, <2>4
<1>6. ASSUME NEW i \in {b + 1, b + 2}, pos <= Len(code), ~IsHook(code[pos]), Hooked(code[pos]),
             source' = source, code' = InsertBefore(i, Hook(code[pos])),
             IF HookedBefore(code[pos]) \/ code[pos].invoke THEN i = b + 1 ELSE i = b + 2,
             pos' = IF i = b + 1 THEN pos + 2 ELSE pos + 1
      PROVE  PassInv'
  <2> DEFINE x == source[d + 1]
             c2 == InsertAt(code, i, Hook(x))
             p == IF i = b + 1 THEN b + 2 ELSE b + 1
  <2>1. /\ pos = b + 1 /\ d + 1 \in 1..Len(source) /\ d + 1 \in 0..Len(source)
        /\ code[pos] = x /\ x \in Instruction /\ x.at = d + 1 /\ ~IsHook(x) /\ Hooked(x)
    BY <1>5, <1>6
  <2>2. Hook(x) \in Instruction /\ IsHook(Hook(x))
    BY <2>1, HookIsInstruction, HookFacts
  <2>3. i \in 1..(Len(code) + 1) /\ Len(code) = Len(source) + o /\ b + 1 <= Len(code) /\ Len(code) \in Nat
    BY <1>2, <1>4, <2>1
  <2>4. code' = c2
    BY <1>6, <2>1 DEF InsertBefore
  <2>5. /\ c2 \in Seq(Instruction) /\ Len(c2) = Len(code) + 1
        /\ \A k \in 1..(Len(code) + 1) :
              c2[k] = IF k < i THEN code[k] ELSE IF k = i THEN Hook(x) ELSE code[k - 1]
    <3> DEFINE h == Hook(x)
    <3>1. h \in Instruction /\ code \in Seq(Instruction) /\ i \in 1..(Len(code) + 1)
      BY <1>3, <2>2, <2>3
    <3> HIDE DEF h, b
    <3>2. /\ InsertAt(code, i, h) \in Seq(Instruction) /\ Len(InsertAt(code, i, h)) = Len(code) + 1
          /\ \A k \in 1..(Len(code) + 1) :
               InsertAt(code, i, h)[k] = IF k < i THEN code[k] ELSE IF k = i THEN h ELSE code[k - 1]
      BY <3>1, InsertAtFacts
    <3> QED BY <3>2 DEF h
  <2> HIDE DEF c2, x
  <2>6. \A k \in 1..b : c2[k] = code[k]
    BY <1>4, <2>3, <2>5
  <2>7. c2[p] = x /\ c2[i] = Hook(x)
    <3>1. i \in 1..(Len(code) + 1) /\ c2[i] = Hook(x)
      BY <2>3, <2>5
    <3>2. CASE i = b + 1
      <4>1. b + 2 \in 1..(Len(code) + 1) /\ ~(b + 2 < i) /\ b + 2 # i /\ (b + 2) - 1 = b + 1
        BY <1>4, <2>3, <3>2
      <4>2. c2[b + 2] = code[b + 1]
        BY <2>5, <4>1
      <4> QED BY <2>1, <3>1, <3>2, <4>2
    <3>3. CASE i = b + 2
      <4>1. b + 1 \in 1..(Len(code) + 1) /\ b + 1 < i /\ i # b + 1
        BY <1>4, <2>3, <3>3
      <4>2. c2[b + 1] = code[b + 1]
        BY <2>5, <4>1
      <4> QED BY <2>1, <3>1, <4>1, <4>2
    <3> QED BY <3>2, <3>3
  <2>8. IF HookedBefore(x) \/ x.invoke THEN i = p - 1 ELSE i = p + 1
    BY <1>4, <1>6, <2>1
  <2>9. Done(c2, source, b + 2, d + 1)
    <3>1. p \in {b + 1, b + 2} /\ b \in Nat
      BY <1>4
    <3> HIDE DEF p, b
    <3> QED BY ZenonT(30), <1>2, <1>4, <2>1, <2>6, <2>7, <2>8, <3>1, DoneHooked DEF x, b
  <2>10. \A n \in (d + 2)..Len(source) : c2[n + (o + 1)] = source[n]
    <3> SUFFICES ASSUME NEW n \in (d + 2)..Len(source) PROVE c2[n + (o + 1)] = source[n]
      OBVIOUS
    <3>1. /\ n + (o + 1) \in 1..(Len(code) + 1) /\ n + (o + 1) > i /\ (n + (o + 1)) - 1 = n + o
          /\ n \in (d + 1)..Len(source)
      BY <1>4, <2>3
    <3>2. c2[n + (o + 1)] = code[n + o]
      BY SMTT(30), <2>5, <3>1
    <3> QED BY <1>2, <3>1, <3>2
  <2>11. pos' = b + 3 \/ (pos' = b + 2 /\ IsHook(c2[b + 2]))
    BY <1>4, <1>6, <2>1, <2>2, <2>7
  <2>12. /\ d + 1 \in 0..Len(source) /\ o + 1 \in 0..(d + 1) /\ Len(c2) = Len(source) + (o + 1)
         /\ (d + 1) + (o + 1) = b + 2 /\ b + 2 > 0 /\ (d + 1) + 1 = d + 2 /\ (b + 2) + 1 = b + 3
    BY <1>4, <2>1, <2>3, <2>5
  <2> HIDE DEF b
  <2>13. \E d_ \in 0..Len(source) : \E o_ \in 0..d_ :
           /\ Len(c2) = Len(source) + o_
           /\ Done(c2, source, d_ + o_, d_)
           /\ \A n \in (d_ + 1)..Len(source) : c2[n + o_] = source[n]
           /\ pos' = d_ + o_ + 1 \/ (d_ + o_ > 0 /\ pos' = d_ + o_ /\ IsHook(c2[pos']))
    <3>1. Done(c2, source, (d + 1) + (o + 1), d + 1)
      BY <2>9, <2>12
    <3>2. \A n \in ((d + 1) + 1)..Len(source) : c2[n + (o + 1)] = source[n]
      BY <2>10, <2>12
    <3>3. \/ pos' = (d + 1) + (o + 1) + 1
          \/ ((d + 1) + (o + 1) > 0 /\ pos' = (d + 1) + (o + 1) /\ IsHook(c2[pos']))
      BY <2>11, <2>12
    <3> QED BY <2>12, <3>1, <3>2, <3>3
  <2> QED BY ZenonT(30), <1>3, <1>6, <2>4, <2>5, <2>13 DEF PassInv
<1>7. ASSUME pos <= Len(code), Hooked(code[pos]) PROVE ~IsHook(code[pos])
  BY <1>7, HooksAreNoCalls
<1>8. CASE InstrumentBefore
  <2>1. Hooked(code[pos]) /\ pos <= Len(code) /\ ~IsHook(code[pos]) /\ pos = b + 1
    BY <1>5, <1>7, <1>8 DEF InstrumentBefore, Hooked
  <2>2. /\ source' = source /\ code' = InsertBefore(b + 1, Hook(code[pos])) /\ pos' = pos + 2
        /\ HookedBefore(code[pos])
    BY <1>4, <1>8, <2>1 DEF InstrumentBefore, Advance
  <2> QED BY <1>6, <2>1, <2>2
<1>9. CASE InstrumentAfter
  <2>1. /\ Hooked(code[pos]) /\ pos <= Len(code) /\ ~IsHook(code[pos]) /\ pos = b + 1
        /\ HookedAfter(code[pos]) /\ source' = source
    BY <1>5, <1>7, <1>9 DEF InstrumentAfter, Hooked
  <2>2. ~HookedBefore(code[pos])
    BY <2>1 DEF HookedBefore, HookedAfter, Inits, Sends, Recvs, Finals, Colls
  <2>3. CASE code[pos].invoke
    <3>1. code' = InsertBefore(b + 1, Hook(code[pos])) /\ pos' = pos + 2
      BY <1>4, <1>9, <2>1, <2>3 DEF InstrumentAfter, Advance
    <3> QED BY <1>6, <2>1, <2>3, <3>1
  <2>4. CASE ~code[pos].invoke
    <3>1. code' = InsertBefore(b + 2, Hook(code[pos])) /\ pos' = pos + 1 /\ b + 2 # b + 1
      BY <1>4, <1>9, <2>1, <2>4 DEF InstrumentAfter, Advance
    <3> QED BY <1>6, <2>1, <2>2, <2>4, <3>1
  <2> QED BY <2>3, <2>4
<1>10. CASE Skip
  <2>1. /\ source' = source /\ code' = code /\ pos' = pos + 1 /\ pos <= Len(code) /\ ~Hooked(code[pos])
    BY <1>10 DEF Skip, Advance, Hooked
  <2>2. CASE IsHook(code[pos]) /\ pos = b
    BY <1>2, <1>3, <1>4, <2>1, <2>2 DEF PassInv
  <2>3. CASE pos = b + 1 /\ ~IsHook(code[pos])
    <3>1. /\ pos = b + 1 /\ d + 1 \in 1..Len(source) /\ d + 1 \in 0..Len(source)
          /\ code[pos] = source[d + 1] /\ source[d + 1].at = d + 1 /\ ~IsHook(source[d + 1])
      BY <1>5, <2>1, <2>3
    <3>2. Done(code, source, b + 1, d + 1)
      BY <1>2, <1>4, <2>1, <3>1, DonePlain
    <3>3. /\ (d + 1) + o = b + 1 /\ o \in 0..(d + 1) /\ pos' = (d + 1) + o + 1
          /\ \A n \in ((d + 1) + 1)..Len(source) : code[n + o] = source[n]
      BY SMTT(30), <1>2, <1>4, <2>1, <3>1
    <3>4. Done(code, source, (d + 1) + o, d + 1)
      BY <3>2, <3>3
    <3> HIDE DEF b
    <3> QED BY <1>2, <1>3, <2>1, <3>1, <3>3, <3>4 DEF PassInv
  <2>4. pos = b + 1 => ~IsHook(code[pos])
    <3> SUFFICES ASSUME pos = b + 1 PROVE ~IsHook(code[pos])
      OBVIOUS
    <3>1. d + 1 \in (d + 1)..Len(source) /\ (d + 1) + o = pos /\ d + 1 \in 1..Len(source)
      BY <1>2, <1>4, <2>1
    <3> QED BY SMTT(30), <1>2, <1>3, <3>1, FunctionsAssumption DEF IsHook
  <2> QED BY <1>2, <2>2, <2>3, <2>4
<1>11. CASE UNCHANGED vars
  BY <1>11 DEF PassInv, vars
<1> QED BY <1>8, <1>9, <1>10, <1>11 DEF Next

\* The invariant is strong enough for what the runs check.
LEMMA PassIsRight == PassInv => TypeOK /\ ProgramIsKept /\ HooksAreInPlace
<1> SUFFICES ASSUME PassInv PROVE TypeOK /\ ProgramIsKept /\ HooksAreInPlace
  OBVIOUS
<1>1. PICK d \in 0..Len(source) : \E o \in 0..d :
         /\ Len(code) = Len(source) + o
         /\ Done(code, source, d + o, d)
         /\ \A n \in (d + 1)..Len(source) : code[n + o] = source[n]
         /\ pos = d + o + 1 \/ (d + o > 0 /\ pos = d + o /\ IsHook(code[pos]))
  BY DEF PassInv
<1>2. PICK o \in 0..d :
         /\ Len(code) = Len(source) + o
         /\ Done(code, source, d + o, d)
         /\ \A n \in (d + 1)..Len(source) : code[n + o] = source[n]
         /\ pos = d + o + 1 \/ (d + o > 0 /\ pos = d + o /\ IsHook(code[pos]))
  BY <1>1
<1>3. source \in Functions /\ source \in Seq(Instruction) /\ code \in Seq(Instruction)
  BY FunctionsAssumption DEF PassInv
<1> DEFINE b == d + o
<1>4. /\ Len(source) \in Nat /\ d \in Nat /\ o \in Nat /\ b \in Nat /\ b <= Len(code)
      /\ Len(code) \in Nat /\ Done(code, source, b, d) /\ DOMAIN code = 1..Len(code)
      /\ DOMAIN source = 1..Len(source) /\ pos \in 1..(Len(code) + 1) /\ pos - 1 <= b
  BY <1>2, <1>3
<1>5. \A n \in DOMAIN source : source[n].at = n /\ ~IsHook(source[n])
  BY <1>3, FunctionsAssumption DEF IsHook
<1>6. ASSUME NEW k \in DOMAIN code, k \notin 1..b
      PROVE  /\ k - o \in (d + 1)..Len(source) /\ k - o \in DOMAIN source /\ code[k] = source[k - o]
             /\ code[k].at = k - o /\ ~IsHook(code[k])
  <2>1. k - o \in (d + 1)..Len(source) /\ k - o \in DOMAIN source /\ (k - o) + o = k
    BY <1>2, <1>4, <1>6
  <2>2. code[k] = source[k - o]
    BY <1>2, <2>1
  <2> QED BY <1>5, <2>1, <2>2
<1>8. TypeOK
  BY <1>2, <1>3, <1>4 DEF TypeOK
<1> HIDE DEF b
<1>12. b \in Nat
  BY <1>4
<1>7. \A k \in 1..b : /\ k \in DOMAIN code /\ code[k].at \in 1..d
                      /\ ~IsHook(code[k]) => code[k] = source[code[k].at]
  <2>1. \A k \in 1..b : code[k].at \in 1..d /\ (~IsHook(code[k]) => code[k] = source[code[k].at])
    BY <1>4 DEF Done
  <2>2. \A k \in 1..b : k \in DOMAIN code
    BY <1>4
  <2> QED BY <2>1, <2>2
<1>11. \A n \in 1..d : n \in DOMAIN source
  BY <1>4
<1>9. ProgramIsKept
  <2>1. ASSUME NEW k \in DOMAIN code, ~IsHook(code[k])
        PROVE  code[k].at \in DOMAIN source /\ code[k] = source[code[k].at]
    <3>1. CASE k \in 1..b
      BY <1>7, <1>11, <1>12, <2>1, <3>1
    <3>2. CASE k \notin 1..b
      BY <1>6, <3>2
    <3> QED BY <3>1, <3>2
  <2>2. ASSUME NEW k \in DOMAIN code, ~IsHook(code[k]), NEW m \in (k + 1)..Len(code), ~IsHook(code[m])
        PROVE  code[k].at < code[m].at
    <3>1. m \in DOMAIN code /\ k < m /\ m \in Nat /\ k \in Nat /\ k >= 1
      BY <1>4
    <3>2. CASE m \in 1..b
      <4>1. k \in 1..b
        BY <1>4, <3>1, <3>2
      <4> QED BY <1>4, <2>2, <3>1, <3>2, <4>1 DEF Done
    <3>3. CASE k \in 1..b /\ m \notin 1..b
      <4>1. code[k].at \in 1..d
        BY <1>7, <1>12, <3>3
      <4>2. m - o \in (d + 1)..Len(source) /\ code[m].at = m - o
        BY <1>6, <3>1, <3>3
      <4> QED BY <1>4, <4>1, <4>2
    <3>4. CASE k \notin 1..b /\ m \notin 1..b
      <4>1. code[k].at = k - o /\ code[m].at = m - o
        BY <1>6, <3>1, <3>4
      <4> QED BY <1>4, <3>1, <4>1
    <3> QED BY <3>2, <3>3, <3>4
  <2>3. ASSUME NEW n \in DOMAIN source PROVE \E k \in DOMAIN code : code[k] = source[n]
    <3>1. CASE n \in 1..d
      <4>1. \E k \in 1..b : code[k] = source[n]
        BY <1>4, <3>1 DEF Done
      <4> QED BY <1>7, <1>12, <4>1
    <3>2. CASE n \notin 1..d
      <4>1. n \in (d + 1)..Len(source) /\ n + o \in DOMAIN code
        BY <1>2, <1>4, <3>2
      <4> QED BY <1>2, <4>1
    <3> QED BY <3>1, <3>2
  <2> QED BY <2>1, <2>2, <2>3 DEF ProgramIsKept
<1>10. HooksAreInPlace
  <2>1. ASSUME NEW k \in 1..(pos - 1)
        PROVE  /\ HookIsBefore(code[k]) => k > 1 /\ code[k - 1] = Hook(code[k])
               /\ HookedAfter(code[k]) /\ ~code[k].invoke => code[k + 1] = Hook(code[k])
    <3>1. k \in 1..b
      BY <1>4
    <3> QED BY <1>4, <3>1 DEF Done
  <2>2. ASSUME NEW k \in DOMAIN code, IsHook(code[k])
        PROVE  \E m \in {k - 1, k + 1} \cap DOMAIN code :
                 /\ HookedBefore(code[m]) \/ HookedAfter(code[m])
                 /\ code[k] = Hook(code[m]) /\ Passes(code[k], code[m])
                 /\ \A n \in DOMAIN code : n # k => code[n] # code[k]
    <3>1. k \in 1..b
      BY <1>6, <2>2
    <3>2. PICK m \in {k - 1, k + 1} \cap 1..b : Hooked(code[m]) /\ code[k] = Hook(code[m])
      BY <1>4, <2>2, <3>1 DEF Done
    <3>3. Passes(code[k], code[m])
      BY <3>2, HookPasses
    <3>4. ASSUME NEW n \in DOMAIN code, n # k PROVE code[n] # code[k]
      <4>1. CASE n \in 1..b
        BY <1>4, <2>2, <3>1, <3>4, <4>1 DEF Done
      <4>2. CASE n \notin 1..b
        BY <1>6, <2>2, <4>2
      <4> QED BY <4>1, <4>2
    <3>5. m \in {k - 1, k + 1} \cap DOMAIN code
      BY <1>7, <1>12, <3>2
    <3> QED BY <3>2, <3>3, <3>4, <3>5 DEF Hooked
  <2> QED BY <2>1, <2>2 DEF HooksAreInPlace
<1> QED BY <1>8, <1>9, <1>10

\* What holds of the pass at every point of its walk over a function.
THEOREM PassInvariant == Spec => []PassInv
BY PassInit, PassNext, PTL DEF Spec

\* The pass changes the code within its type, and at most doubles it.
THEOREM PassTypeCorrect == Spec => []TypeOK
BY PassInvariant, PassIsRight, PTL

\* The pass neither changes nor loses an instruction of the function, and keeps
\* their order, although it inserts into the list that it walks over.
THEOREM PassKeepsProgram == Spec => []ProgramIsKept
BY PassInvariant, PassIsRight, PTL

\* Each call has its own hook next to it, with the operands that the hook declares, and no
\* other hook is there: right after an MPI_Init or MPI_Recv that is no invoke, before all
\* other calls.
THEOREM PassPlacesHooks == Spec => []HooksAreInPlace
BY PassInvariant, PassIsRight, PTL
=============================================================================
