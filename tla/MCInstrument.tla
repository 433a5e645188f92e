---------------------------- MODULE MCInstrument ----------------------------
(* Functions of up to three instructions and a return: MPI calls of every   *)
(* kind, as calls and as invokes, with too few arguments, and an            *)
(* instruction of no interest.                                              *)
EXTENDS InstrumentPass

Ins(callee, invoke, full) == [callee |-> callee, invoke |-> invoke, full |-> full, at |-> 0, args |-> <<>>]

Bodies == {Ins("MPI_Init", FALSE, TRUE), Ins("MPI_Send", FALSE, TRUE), Ins("MPI_Send", TRUE, TRUE),
           Ins("MPI_Send", FALSE, FALSE), Ins("MPI_Recv", FALSE, TRUE), Ins("MPI_Recv", TRUE, TRUE),
           Ins("MPI_Recv", FALSE, FALSE), Ins("MPI_Bcast", FALSE, TRUE),
           Ins("MPI_Reduce", FALSE, TRUE), Ins("MPI_Allreduce", FALSE, TRUE),
           Ins("MPI_Barrier", FALSE, TRUE), Ins("MPI_Finalize", FALSE, TRUE), Ins("work", FALSE, TRUE)}

Numbered(f) == [k \in DOMAIN f |-> [f[k] EXCEPT !.at = k]]

MCFunctions ==
    {Numbered(f \o <<Ins("", FALSE, TRUE)>>) : f \in UNION {[1..n -> Bodies] : n \in 0..3}}
=============================================================================
