----------------------------- MODULE DiagServer -----------------------------
(* The language server (server.ts): it watches the report file of the path  *)
(* it was initialised with, debounces the changes, reads the file           *)
(* asynchronously and publishes the diagnostics of its entries, one list    *)
(* per source file (URI).  The statements between two awaits are one        *)
(* action; the diagnostics that the client shows are kept beside.           *)
EXTENDS ReportFile, SequencesExt

CONSTANTS Uris,          \* the source files
          Entries,       \* Entries[rep]: the source files a report has entries for
          MaxReads       \* bound: readFile calls under way at the same time

NoPath == ""             \* before initialisation

VARIABLES reportPath,
          watcher, debounce, reads,      \* as in ReportStore
          lastUris,
          diag           \* diag[u]: {} or the report whose entries u shows

server == <<reportPath, watcher, debounce, reads, lastUris, diag>>
vars == <<fvars, server>>

DInit ==
    /\ reportPath = NoPath /\ watcher = {} /\ debounce = FALSE /\ reads = <<>>
    /\ lastUris = {}
    /\ diag = [u \in Uris |-> {}]

-----------------------------------------------------------------------------
\* mutated form: the path of the client is not kept.
InitializeNoPath(p) ==
    /\ reportPath = NoPath
    /\ watcher' = Watched(p)
    /\ debounce' = TRUE
    /\ UNCHANGED <<fvars, reportPath, reads, lastUris, diag>>

\* mutated form: only changes are read.
InitializeNoRead(p) ==
    /\ reportPath = NoPath
    /\ reportPath' = p
    /\ watcher' = Watched(p)
    /\ UNCHANGED <<fvars, debounce, reads, lastUris, diag>>

\* onInitialize, with startWatch.
Initialize(p) ==
    /\ reportPath = NoPath
    /\ reportPath' = p
    /\ watcher' = Watched(p)
    /\ debounce' = TRUE
    /\ UNCHANGED <<fvars, reads, lastUris, diag>>

\* The callback of fs.watch: scheduleRead.
WatchEvent ==
    /\ \E w \in watcher : Behind(w) /\ watcher' = {Caught(w)}
    /\ debounce' = TRUE
    /\ UNCHANGED <<fvars, reportPath, reads, lastUris, diag>>

TimerFires ==
    /\ debounce /\ Len(reads) < MaxReads
    /\ debounce' = FALSE
    /\ reads' = Append(reads, [path |-> reportPath, data |-> Unread])
    /\ UNCHANGED <<fvars, reportPath, watcher, lastUris, diag>>

ReadFile(k) ==
    /\ reads[k].data = Unread
    /\ reads' = [reads EXCEPT ![k].data = file[reads[k].path]]
    /\ UNCHANGED <<fvars, reportPath, watcher, debounce, lastUris, diag>>

\* mutated form: a source file without entries keeps its old diagnostics.
PublishNotClearing(rep) ==
    /\ diag' = [u \in Uris |-> IF u \in Entries[rep] THEN {rep} ELSE diag[u]]
    /\ lastUris' = Entries[rep]

\* A list for every source file with entries, and an empty one for those that
\* had entries the last time.
Publish(rep) ==
    /\ diag' = [u \in Uris |-> IF u \in Entries[rep] THEN {rep}
                               ELSE IF u \in lastUris THEN {} ELSE diag[u]]
    /\ lastUris' = Entries[rep]

ClearAllDiagnostics ==
    /\ diag' = [u \in Uris |-> IF u \in lastUris THEN {} ELSE diag[u]]
    /\ lastUris' = {}

\* The rest of readAndPublish, or its catch.
ReadAndPublish(k) ==
    /\ reads[k].data # Unread
    /\ reads' = RemoveAt(reads, k)
    /\ IF reads[k].data >= 0
       THEN \E rep \in Parsed(reads[k].path, reads[k].data) : Publish(rep)
       ELSE ClearAllDiagnostics
    /\ UNCHANGED <<fvars, reportPath, watcher, debounce>>

Read == \E k \in DOMAIN reads : ReadFile(k) \/ ReadAndPublish(k)

-----------------------------------------------------------------------------
TypeOK ==
    /\ FTypeOK
    /\ reportPath \in Paths \cup {NoPath}
    /\ watcher \subseteq Watchers
    /\ debounce \in BOOLEAN
    /\ reads \in Seq(Reads) /\ Len(reads) <= MaxReads
    /\ lastUris \subseteq Uris
    /\ diag \in [Uris -> SUBSET Reports]

\* The diagnostics on the screen are all those of one report and no others: no
\* list is left behind by a report that has been replaced or lost
\* (server.ts 70-75, 109-119).
DiagnosticsAreOneReport ==
    /\ \A u \in Uris : diag[u] # {} <=> u \in lastUris
    /\ lastUris # {} => \E rep \in Reports : /\ Entries[rep] = lastUris
                                             /\ \A u \in lastUris : diag[u] = {rep}

Settled == ~debounce /\ reads = <<>> /\ \A w \in watcher : ~Behind(w)

\* The lists that the set of reports reps ({} or one) calls for.
Lists(reps) == [u \in Uris |-> {rep \in reps : u \in Entries[rep]}]

\* When a watcher is in place and nothing is due any more, the diagnostics are
\* those of the report in the file.
SettledIsCurrent ==
    Settled /\ watcher # {} => diag = Lists(Parsed(reportPath, file[reportPath]))
=============================================================================
