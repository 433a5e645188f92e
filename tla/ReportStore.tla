---------------------------- MODULE ReportStore ----------------------------
(* ReportStore of the extension host (reportStore.ts), with the dashboard   *)
(* it drives (extension.ts, dashboardPanel.ts): it watches the report file, *)
(* debounces the changes, reads the file asynchronously and shows what it   *)
(* has read.  The statements between two awaits are one action.             *)
EXTENDS ReportFile, SequencesExt

\* A project root is named by the report file that the jobs in it write.
CONSTANTS PathsIn,       \* PathsIn[r]: what the setting reportPath may resolve to in root r
          FirstRoot,     \* the workspace root
          FirstPath,     \* the path activate resolves
          MaxReads       \* bound: readFile calls under way at the same time

ASSUME StoreAssumption ==
    /\ PathsIn \in [Paths -> SUBSET Paths] /\ FirstRoot \in Paths /\ FirstPath \in Paths
    /\ MaxReads \in Nat /\ MaxRuns \in Nat

VARIABLES root, reportPath,
          watcher,       \* {} or the watcher
          debounce,      \* whether the timer is armed
          reads,         \* the loadReport calls under way
          report,        \* {} (no errors) or the report
          panel          \* the dashboard: {} or {the report it shows}

store == <<root, reportPath, watcher, debounce, reads, report, panel>>
vars == <<fvars, store>>

\* activate calls startWatching.
SInit ==
    /\ FInit
    /\ root = FirstRoot /\ reportPath = FirstPath
    /\ watcher = Watched(FirstPath)
    /\ debounce = TRUE
    /\ reads = <<>> /\ report = {} /\ panel = {}

-----------------------------------------------------------------------------
StartWatching(p) ==
    /\ watcher' = Watched(p)
    /\ debounce' = TRUE

\* setReportPath returns early when nothing changes.
SetReportPath(r, p) ==
    /\ root' = r /\ reportPath' = p
    /\ IF r = root /\ p = reportPath THEN UNCHANGED <<watcher, debounce>> ELSE StartWatching(p)
    /\ UNCHANGED <<reads, report, panel>>

\* mutated form: a change during a read is dropped.
WatchEventWhileIdle ==
    /\ \E w \in watcher : Behind(w) /\ watcher' = {Caught(w)}
    /\ debounce' = (debounce \/ reads = <<>>)
    /\ UNCHANGED <<fvars, root, reportPath, reads, report, panel>>

\* The callback of fs.watch: scheduleLoad.
WatchEvent ==
    /\ \E w \in watcher : Behind(w) /\ watcher' = {Caught(w)}
    /\ debounce' = TRUE
    /\ UNCHANGED <<fvars, root, reportPath, reads, report, panel>>

\* The timer fires: loadReport calls readFile.
TimerFires ==
    /\ debounce /\ Len(reads) < MaxReads
    /\ debounce' = FALSE
    /\ reads' = Append(reads, [path |-> reportPath, data |-> Unread])
    /\ UNCHANGED <<fvars, root, reportPath, watcher, report, panel>>

\* The read sees the file.
ReadFile(k) ==
    /\ reads[k].data = Unread
    /\ reads' = [reads EXCEPT ![k].data = file[reads[k].path]]
    /\ UNCHANGED <<fvars, root, reportPath, watcher, debounce, report, panel>>

\* mutated form: a file that cannot be parsed leaves the old report.
LoadReportIgnoring(k) ==
    /\ reads[k].data # Unread
    /\ reads' = RemoveAt(reads, k)
    /\ IF reads[k].data >= 0
       THEN report' = Parsed(reads[k].path, reads[k].data) /\ panel' = {report'}
       ELSE UNCHANGED <<report, panel>>
    /\ UNCHANGED <<fvars, root, reportPath, watcher, debounce>>

\* mutated form: a file that cannot be parsed is taken for a report.
LoadReportUnparsed(k) ==
    /\ reads[k].data # Unread
    /\ reads' = RemoveAt(reads, k)
    /\ report' = {<<reads[k].path, reads[k].data>>}
    /\ panel' = {report'}
    /\ UNCHANGED <<fvars, root, reportPath, watcher, debounce>>

\* mutated form: a failed load is not announced.
LoadReportSilent(k) ==
    /\ reads[k].data # Unread
    /\ reads' = RemoveAt(reads, k)
    /\ report' = Parsed(reads[k].path, reads[k].data)
    /\ panel' = IF report' = {} THEN panel ELSE {report'}
    /\ UNCHANGED <<fvars, root, reportPath, watcher, debounce>>

\* The rest of loadReport, or of its catch, and the listeners of onDidUpdate:
\* the dashboard is opened if it is not.
LoadReport(k) ==
    /\ reads[k].data # Unread
    /\ reads' = RemoveAt(reads, k)
    /\ report' = Parsed(reads[k].path, reads[k].data)
    /\ panel' = {report'}
    /\ UNCHANGED <<fvars, root, reportPath, watcher, debounce>>

OpenDashboard ==
    /\ panel' = {report}
    /\ UNCHANGED <<fvars, root, reportPath, watcher, debounce, reads, report>>

CloseDashboard ==
    /\ panel' = {}
    /\ UNCHANGED <<fvars, root, reportPath, watcher, debounce, reads, report>>

\* The command: the source file's root and its path are taken over, then the job is
\* run; it is not when the user keeps one that is still running.
BuildAnalyze(r) ==
    /\ LaunchJob(r) \/ (jobs[r] # "idle" /\ UNCHANGED fvars)
    /\ \E p \in PathsIn[r] : SetReportPath(r, p)

Load == \E k \in DOMAIN reads : ReadFile(k) \/ LoadReport(k)

SStep == WatchEvent \/ TimerFires \/ Load

Dashboard == OpenDashboard \/ CloseDashboard

SNext ==
    \/ \E r \in Paths : BuildAnalyze(r)
    \/ \E p \in Paths : Job(p) /\ UNCHANGED store
    \/ SStep \/ Dashboard

Spec == SInit /\ [][SNext]_vars

\* Node runs every timer, callback and continuation that is due.
FairSpec == Spec /\ WF_vars(WatchEvent) /\ WF_vars(TimerFires) /\ WF_vars(Load)

-----------------------------------------------------------------------------
TypeOK ==
    /\ FTypeOK
    /\ root \in Paths /\ reportPath \in Paths
    /\ watcher \subseteq Watchers
    /\ debounce \in BOOLEAN
    /\ reads \in Seq(Reads) /\ Len(reads) <= MaxReads
    /\ report \subseteq Reports
    /\ panel \subseteq SUBSET Reports

\* Nothing is due any more.
Settled == ~debounce /\ reads = <<>> /\ \A w \in watcher : ~Behind(w)

\* When a watcher is in place and nothing is due any more, the store holds what
\* the file of the current path holds, whatever changes, path switches and reads
\* have interleaved.
SettledIsCurrent ==
    Settled /\ watcher # {} => report = Parsed(reportPath, file[reportPath])

\* An open dashboard shows the store's report.
PanelIsCurrent == \A shown \in panel : shown = report

\* A report that is written while its path is watched is shown, unless another
\* change or path comes first.
WrittenIsShown ==
    \A p \in Paths : \A n \in 0..MaxRuns :
        file[p] = n /\ reportPath = p /\ watcher # {}
            ~> report = {<<p, n>>} \/ file[p] # n \/ reportPath # p
=============================================================================
