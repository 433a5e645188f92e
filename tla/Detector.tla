------------------------------ MODULE Detector ------------------------------
(* msan_analyze_events of detector.c as a whole: the matching loops with    *)
(* the size statistics between them, then the replay detection, the stall   *)
(* and overlap checks, the collective check, the communication graph, the   *)
(* deadlock detection and the summary, one after the other on the same      *)
(* array and its marks.                                                     *)
EXTENDS Summary

checks == <<avars, rvars, tvars, ovars, cvars, gvars, wvars, svars>>
dvars == <<all, used, mvars, checks>>

DInit ==
    /\ MInit /\ AnomalyInit /\ RInit /\ TInit /\ OInit /\ CInit /\ GInit /\ WInit /\ SInit

-----------------------------------------------------------------------------
\* The analysis is entered.
Enter == MStart /\ UNCHANGED checks

\* Steps 1 and 2; the statistics come between the two loops.
Loops ==
    /\ MStep
    /\ phase = "sends" => astep = "done"
    /\ UNCHANGED checks

Anomalies ==
    /\ phase = "sends"
    /\ AStep
    /\ UNCHANGED <<mvars, rvars, tvars, ovars, cvars, gvars, wvars, svars>>

\* mutated form: the duplicates are looked for before the sends are marked.
ReplaysEarly ==
    /\ phase \in {"match", "sends", "done"}
    /\ RStep
    /\ UNCHANGED <<mvars, avars, tvars, ovars, cvars, gvars, wvars, svars>>

\* Step 2b.
Replays ==
    /\ phase = "done"
    /\ RStep
    /\ UNCHANGED <<mvars, avars, tvars, ovars, cvars, gvars, wvars, svars>>

\* Step 2c.
Stalls ==
    /\ rstep = "done"
    /\ CheckStalls
    /\ UNCHANGED <<mvars, avars, rvars, ovars, cvars, gvars, wvars, svars>>

\* Step 3.
Overlaps ==
    /\ tstep = "done"
    /\ CheckOverlap
    /\ UNCHANGED <<mvars, avars, rvars, tvars, cvars, gvars, wvars, svars>>

\* Step 4.
Collectives ==
    /\ ostep = "done"
    /\ CStep
    /\ UNCHANGED <<mvars, avars, rvars, tvars, ovars, gvars, wvars, svars>>

\* Step 5.
Graph ==
    /\ cstep = "done"
    /\ GStep
    /\ UNCHANGED <<mvars, avars, rvars, tvars, ovars, cvars, wvars, svars>>

\* Step 6.
Deadlocks ==
    /\ gstep = "done"
    /\ WStep
    /\ UNCHANGED <<mvars, avars, rvars, tvars, ovars, cvars, gvars, svars>>

\* Step 7.
Conclude ==
    /\ wstep = "done"
    /\ Summarize
    /\ UNCHANGED <<mvars, avars, rvars, tvars, ovars, cvars, gvars, wvars>>

\* msan_analyze_events goes on, once it has been entered.
DStep == Loops \/ Anomalies \/ Replays \/ Stalls \/ Overlaps \/ Collectives \/ Graph
            \/ Deadlocks \/ Conclude

DNext == Enter \/ DStep

DSpec == DInit /\ [][DNext]_dvars

-----------------------------------------------------------------------------
DTypeOK ==
    /\ MTypeOK /\ AnomalyTypeOK /\ RTypeOK /\ StallTypeOK /\ OverlapTypeOK
    /\ CTypeOK /\ GraphTypeOK /\ WTypeOK
    /\ sstep \in {"idle", "done"}
=============================================================================
