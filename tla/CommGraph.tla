----------------------------- MODULE CommGraph -----------------------------
(* msan_generate_dot_graph of detector.c: the first send between two ranks  *)
(* becomes a line of the graph; a matrix of bytes remembers the pairs that  *)
(* have one.  One action per iteration of the loop over the events.         *)
EXTENDS EventArray

CONSTANT GraphRanks      \* the side of the matrix: 1024

ASSUME GraphAssumption == GraphRanks \in Nat \ {0}

VARIABLES gstep,         \* "idle", "draw" or "done"
          gi,            \* the loop index
          matrix,        \* the cells that are set
          edges          \* the lines written: <<source, destination, tag>>

gvars == <<gstep, gi, matrix, edges>>

GInit == gstep = "idle" /\ gi = 1 /\ matrix = {} /\ edges = <<>>

-----------------------------------------------------------------------------
\* The file cannot be opened (detector.c 159): no graph.
BeginGraph ==
    /\ gstep = "idle"
    /\ gstep' \in {"draw", "done"}
    /\ UNCHANGED <<all, used, gi, matrix, edges>>

\* mutated form: the rows are one cell too short.
CellOfShortRow(src, dest) == src * (GraphRanks - 1) + dest

Cell(src, dest) == src * GraphRanks + dest

\* A negative destination can name a cell before the matrix, and what is read
\* there may be anything.
MatrixReads(c) == IF c < 0 THEN BOOLEAN ELSE {c \in matrix}

Drawn(e) == e.kind = "SEND" /\ e.rank < GraphRanks /\ e.peer < GraphRanks

Draw ==
    /\ gstep = "draw" /\ gi \in Positions
    /\ LET e == all[gi]
           c == Cell(e.rank, e.peer)
       IN  IF Drawn(e)
           THEN \E seen \in MatrixReads(c) :
                  IF seen THEN UNCHANGED <<matrix, edges>>
                  ELSE /\ edges' = Append(edges, <<e.rank, e.peer, e.tag>>)
                       /\ matrix' = matrix \cup {c}
           ELSE UNCHANGED <<matrix, edges>>
    /\ gi' = gi + 1
    /\ UNCHANGED <<all, used, gstep>>

EndGraph ==
    /\ gstep = "draw" /\ gi > Len(all)
    /\ gstep' = "done"
    /\ UNCHANGED <<all, used, gi, matrix, edges>>

GStep == BeginGraph \/ Draw \/ EndGraph

GNext == (gstep = "idle" /\ Prepare /\ UNCHANGED gvars) \/ GStep

GSpec == AInit /\ GInit /\ [][GNext]_<<all, used, gvars>>

-----------------------------------------------------------------------------
GraphTypeOK ==
    /\ gstep \in {"idle", "draw", "done"}
    /\ gi \in 1..(Len(all) + 1)
    /\ matrix \subseteq Int
    /\ edges \in Seq(Int \X Int \X Int)

Drawings == {k \in Positions : Drawn(all[k])}

\* Every pair of ranks that the sends passed so far connect has exactly one
\* edge, labelled with the tag of the first of them: no pair is taken for
\* another by its cell of the matrix.  A destination below 0, which is no rank,
\* is excluded (detector.c 165-174).
GraphIsTopology ==
    (\A k \in Drawings : all[k].peer >= 0) /\ gstep = "draw" =>
        /\ \A k \in Drawings : k < gi =>
              \E n \in DOMAIN edges : edges[n][1] = all[k].rank /\ edges[n][2] = all[k].peer
        /\ \A n \in DOMAIN edges : \E k \in Drawings :
              /\ k < gi /\ edges[n] = <<all[k].rank, all[k].peer, all[k].tag>>
              /\ \A m \in Drawings : m < k => <<all[m].rank, all[m].peer>> # <<all[k].rank, all[k].peer>>
        /\ \A n, m \in DOMAIN edges :
              edges[n][1] = edges[m][1] /\ edges[n][2] = edges[m][2] => n = m
=============================================================================
