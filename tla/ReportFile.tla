----------------------------- MODULE ReportFile -----------------------------
(* The report files that the jobs of the editor write and that the          *)
(* extension host and the language server watch.  A job is the task of      *)
(* runBuildAnalyze (extension.ts); its rank 0 writes the report last        *)
(* (msan_write_json_report of detector.c), in one piece when it closes the  *)
(* file.  fs.watch reports a change of a file, but not which one.           *)
EXTENDS Integers, Sequences

CONSTANTS Paths,         \* the report files of the workspace's project roots, one each
          MaxRuns        \* bound: jobs that are started

VARIABLES file,          \* file[p]: Absent, Torn, or the number of a whole report
          stamp,         \* stamp[p]: changes of the file so far
          jobs,          \* jobs[p]: "idle", "running" or "writing"
          runs           \* the jobs started so far

fvars == <<file, stamp, jobs, runs>>

Absent == -2
Torn == -1               \* created or truncated, and not yet written
Contents == {Absent, Torn} \cup 0..MaxRuns

\* A file may be left from an earlier session.
FInit ==
    /\ file \in [Paths -> {Absent, 0}]
    /\ stamp = [p \in Paths |-> 0]
    /\ jobs = [p \in Paths |-> "idle"]
    /\ runs = 0

\* executeTask: the sanitized program is built and run in the root whose file p is.
LaunchJob(p) ==
    /\ jobs[p] = "idle" /\ runs < MaxRuns
    /\ jobs' = [jobs EXCEPT ![p] = "running"]
    /\ runs' = runs + 1
    /\ UNCHANGED <<file, stamp>>

Change(p, content) ==
    /\ file' = [file EXCEPT ![p] = content]
    /\ stamp' = [stamp EXCEPT ![p] = @ + 1]

\* fopen with mode "w" creates the file or truncates it.
OpenReport(p) ==
    /\ jobs[p] = "running"
    /\ Change(p, Torn)
    /\ jobs' = [jobs EXCEPT ![p] = "writing"]
    /\ UNCHANGED runs

\* fclose writes what fprintf has collected.
CloseReport(p) ==
    /\ jobs[p] = "writing"
    /\ Change(p, runs)
    /\ jobs' = [jobs EXCEPT ![p] = "idle"]
    /\ UNCHANGED runs

\* The build fails, or the job is killed, before it has written a report.
FailJob(p) ==
    /\ jobs[p] # "idle"
    /\ jobs' = [jobs EXCEPT ![p] = "idle"]
    /\ UNCHANGED <<file, stamp, runs>>

Job(p) == OpenReport(p) \/ CloseReport(p) \/ FailJob(p)

FTypeOK ==
    /\ file \in [Paths -> Contents]
    /\ stamp \in [Paths -> Nat]
    /\ jobs \in [Paths -> {"idle", "running", "writing"}]
    /\ runs \in 0..MaxRuns

\* The report that content c of file p parses to: {} if it does not, or the one
\* report <<p, c>>.
Parsed(p, c) == IF c >= 0 THEN {<<p, c>>} ELSE {}

Reports == Paths \X (0..MaxRuns)

(* A reader of one path, as both programs have it: a watcher, {} or the one *)
(* file it watches with the changes it has been told of; and the reads that *)
(* have been started, in order, each with the content it has seen.          *)

Unread == -3
Watchers == [path : Paths, seen : Nat]
Reads == [path : Paths, data : {Unread} \cup Contents]

\* fs.watch throws when the file does not exist.
Watched(p) == IF file[p] = Absent THEN {} ELSE {[path |-> p, seen |-> stamp[p]]}

\* A change that w has not been told of.
Behind(w) == w.seen # stamp[w.path]

Caught(w) == [w EXCEPT !.seen = stamp[w.path]]
=============================================================================
