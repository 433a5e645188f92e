------------------------------- MODULE Events -------------------------------
(* The event record that runtime.c logs and detector.c analyses             *)
(* (detector.h, MsanEvent), with the fields the analyses tell apart.  The   *)
(* source location is only printed and is left out; a communicator is the   *)
(* number of its Fortran handle, a checksum a natural number whose value 0  *)
(* is the one the code gives an empty buffer, an address one whose value 0  *)
(* is NULL, and a time stamp a number of clock ticks.                       *)
EXTENDS Integers

CONSTANT num_ranks     \* the size of MPI_COMM_WORLD

ASSUME RanksAssumption == num_ranks \in Nat \ {0}

Ranks == 0..(num_ranks - 1)

Kinds == {"SEND", "RECV", "COLL"}

CollectiveOps == {"Barrier", "Bcast", "Reduce", "Allreduce"}
NoName == ""           \* the collective of a send or a receive

Event == [kind : Kinds, rank : Int, peer : Int, tag : Int, comm : Nat,
          nbytes : Nat, buf_addr : Nat, seq : Nat, timestamp : Int,
          checksum : Nat, type_name : STRING, coll_name : CollectiveOps \cup {NoName}]

\* A send event s and a receive event r name each other as peers, on the same
\* tag and the same communicator.
KeyEqual(s, r) ==
    /\ s.kind = "SEND" /\ r.kind = "RECV"
    /\ s.rank = r.peer /\ s.peer = r.rank
    /\ s.tag = r.tag /\ s.comm = r.comm
=============================================================================
