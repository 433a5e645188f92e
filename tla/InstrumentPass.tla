--------------------------- MODULE InstrumentPass ---------------------------
(* The instrumentation pass (MPISanitizePass.cpp): it walks over the        *)
(* instructions of a function and inserts the hooks before or after the MPI *)
(* calls, into the list it walks over, and passes them operands of the      *)
(* calls.  One action per instruction.  The instructions that convert the   *)
(* operands, all of them to the same value, belong to their hook.           *)
EXTENDS Integers, Sequences, SequencesExt

CONSTANTS Functions,     \* the functions to instrument
          Others         \* the functions they may call that are no concern of the pass, "" for none

Sends == {"MPI_Send"}
Recvs == {"MPI_Recv"}
Inits == {"MPI_Init", "MPI_Init_thread"}
Finals == {"MPI_Finalize"}
Colls == {"MPI_Barrier", "MPI_Bcast", "MPI_Reduce", "MPI_Allreduce"}

Hooks == {"__msan_init", "__msan_before_send", "__msan_after_recv", "__msan_finalize",
          "__msan_before_collective"}

\* The numbers from 0 of the call's operands that the hook is passed, after the
\* name of a collective and before file and line; NULL stands for a constant that
\* names nothing: a null pointer, no elements, the root -1.
NULL == -1
Operands ==
    [MPI_Init |-> <<>>, MPI_Init_thread |-> <<>>, MPI_Finalize |-> <<>>,
     MPI_Send |-> <<0, 1, 2, 3, 4, 5>>,
     MPI_Recv |-> <<0, 1, 2, 3, 4, 5, 6>>,
     MPI_Barrier |-> <<NULL, NULL, NULL, NULL, NULL, 0>>,
     MPI_Bcast |-> <<0, NULL, 1, 2, 3, 4>>,
     MPI_Reduce |-> <<0, 1, 2, 3, 5, 6>>,
     MPI_Allreduce |-> <<0, 1, 2, 3, NULL, 5>>]

Callees == Sends \cup Recvs \cup Inits \cup Finals \cup Colls \cup Hooks \cup Others

\* An instruction: the function it calls; whether it is an invoke,
\* which ends its basic block; whether it has all arguments; its place in the
\* program, for a hook that of its call; and the operands a hook is passed.
Instruction == [callee : Callees, invoke : BOOLEAN, full : BOOLEAN, at : Nat, args : Seq(Int)]

ASSUME FunctionsAssumption ==
    \A f \in Functions : /\ f \in Seq(Instruction)
                         /\ \A k \in DOMAIN f : f[k].at = k /\ f[k].callee \notin Hooks

VARIABLES source,        \* history: the function before the pass
          code,          \* its instructions
          pos            \* the position of the iterator

vars == <<source, code, pos>>

Init ==
    /\ source \in Functions
    /\ code = source
    /\ pos = 1

-----------------------------------------------------------------------------
HookOf(name) ==
    IF name \in Inits THEN "__msan_init"
    ELSE IF name \in Sends THEN "__msan_before_send"
    ELSE IF name \in Recvs THEN "__msan_after_recv"
    ELSE IF name \in Finals THEN "__msan_finalize"
    ELSE "__msan_before_collective"

Hook(ins) == [callee |-> HookOf(ins.callee), invoke |-> FALSE, full |-> TRUE, at |-> ins.at,
              args |-> Operands[ins.callee]]

\* The calls that get a hook: MPI_Send and MPI_Recv only with all arguments.
HookedBefore(ins) == ins.callee \in Finals \cup Colls \/ (ins.callee \in Sends /\ ins.full)
HookedAfter(ins) == ins.callee \in Inits \/ (ins.callee \in Recvs /\ ins.full)

\* mutated form: the call itself is replaced.
InsertReplacing(p, ins) == ReplaceAt(code, p, ins)

InsertBefore(p, ins) == InsertAt(code, p, ins)

\* mutated form: the iterator stays at the instruction that was inserted before.
AdvanceToHook(p) == pos + 1

\* The instruction after the current one, whose position is p by now.
Advance(p) == p + 1

InstrumentBefore ==
    /\ pos <= Len(code)
    /\ HookedBefore(code[pos])
    /\ code' = InsertBefore(pos, Hook(code[pos]))
    /\ pos' = Advance(pos + 1)
    /\ UNCHANGED source

\* After a call there is a next instruction to insert before; for an invoke the
\* place is the terminator of its block, which is the invoke.
InstrumentAfter ==
    /\ pos <= Len(code)
    /\ HookedAfter(code[pos])
    /\ IF code[pos].invoke
       THEN code' = InsertBefore(pos, Hook(code[pos])) /\ pos' = Advance(pos + 1)
       ELSE code' = InsertBefore(pos + 1, Hook(code[pos])) /\ pos' = Advance(pos)
    /\ UNCHANGED source

\* Everything else, hooks that were inserted after a call among it.
Skip ==
    /\ pos <= Len(code)
    /\ ~HookedBefore(code[pos]) /\ ~HookedAfter(code[pos])
    /\ pos' = Advance(pos)
    /\ UNCHANGED <<source, code>>

Next == InstrumentBefore \/ InstrumentAfter \/ Skip

Spec == Init /\ [][Next]_vars

-----------------------------------------------------------------------------
IsHook(ins) == ins.callee \in Hooks

TypeOK ==
    /\ source \in Seq(Instruction)
    /\ code \in Seq(Instruction)
    /\ pos \in 1..(Len(code) + 1)
    /\ Len(code) <= 2 * Len(source)

\* Without the hooks the function is the one that was given: no instruction is
\* changed, moved, doubled or lost while the list changes under the iterator
\* (MPISanitizePass.cpp 98-251).
ProgramIsKept ==
    /\ \A k \in DOMAIN code : ~IsHook(code[k]) =>
            /\ code[k].at \in DOMAIN source /\ code[k] = source[code[k].at]
            /\ \A m \in (k + 1)..Len(code) : ~IsHook(code[m]) => code[k].at < code[m].at
    /\ \A n \in DOMAIN source : \E k \in DOMAIN code : code[k] = source[n]

\* The prototypes: of the hooks (msan_runtime.h), and of the MPI functions, the
\* buffer of a broadcast being the one that its root sends.
HookParameters ==
    [__msan_init |-> <<>>, __msan_finalize |-> <<>>,
     __msan_before_send |-> <<"buf", "count", "datatype", "dest", "tag", "comm">>,
     __msan_after_recv |-> <<"buf", "count", "datatype", "source", "tag", "comm", "status">>,
     __msan_before_collective |-> <<"sendbuf", "recvbuf", "count", "datatype", "root", "comm">>]

Parameters ==
    [MPI_Init |-> <<"argc", "argv">>, MPI_Finalize |-> <<>>,
     MPI_Init_thread |-> <<"argc", "argv", "required", "provided">>,
     MPI_Send |-> <<"buf", "count", "datatype", "dest", "tag", "comm">>,
     MPI_Recv |-> <<"buf", "count", "datatype", "source", "tag", "comm", "status">>,
     MPI_Barrier |-> <<"comm">>,
     MPI_Bcast |-> <<"sendbuf", "count", "datatype", "root", "comm">>,
     MPI_Reduce |-> <<"sendbuf", "recvbuf", "count", "datatype", "op", "root", "comm">>,
     MPI_Allreduce |-> <<"sendbuf", "recvbuf", "count", "datatype", "op", "comm">>]

\* The hook gets the operands of the call that its parameters stand for.
Passes(hook, call) ==
    LET wanted == HookParameters[hook.callee]
        given == Parameters[call.callee]
    IN  /\ Len(hook.args) = Len(wanted)
        /\ \A n \in DOMAIN wanted :
              IF wanted[n] \in ToSet(given)
              THEN hook.args[n] + 1 \in DOMAIN given /\ given[hook.args[n] + 1] = wanted[n]
              ELSE hook.args[n] = NULL

\* The calls whose hook is before them: those with a before-hook, and an invoke in any
\* case, since it ends its block.
HookIsBefore(ins) == HookedBefore(ins) \/ (HookedAfter(ins) /\ ins.invoke)

\* Every call that the iterator has passed has its own hook next to it, with the
\* operands that the hook declares: an after-hook of a call right after it, all others
\* right before their call, that of an invoke of MPI_Recv or MPI_Init among them (see
\* RecvHooksFollow); and there are no other hooks.  So the events of calls that are no
\* invokes are logged in their order and with what was passed to them
\* (MPISanitizePass.cpp 110-250).
HooksAreInPlace ==
    /\ \A k \in 1..(pos - 1) :
         /\ HookIsBefore(code[k]) => k > 1 /\ code[k - 1] = Hook(code[k])
         /\ HookedAfter(code[k]) /\ ~code[k].invoke => code[k + 1] = Hook(code[k])
    /\ \A k \in DOMAIN code : IsHook(code[k]) =>
         \E m \in {k - 1, k + 1} \cap DOMAIN code :
            /\ HookedBefore(code[m]) \/ HookedAfter(code[m])
            /\ code[k] = Hook(code[m]) /\ Passes(code[k], code[m])
            /\ \A n \in DOMAIN code : n # k => code[n] # code[k]

\* MPISanitizePass.cpp:160, "insert right after the call": the hook that logs what a
\* receive has received comes after it.
RecvHooksFollow ==
    \A k, n \in DOMAIN code : code[k].callee \in Recvs /\ code[n] = Hook(code[k]) => k < n
=============================================================================
