------------------------------- MODULE Editor -------------------------------
(* The editor: the extension host with its store, its dashboard and its     *)
(* CodeLens actions, and the language server with its diagnostics, which    *)
(* watch the report files on their own.  The server is started with the     *)
(* path that the store begins with (extension.ts, activate and              *)
(* startLanguageServer).                                                    *)
EXTENDS ReportStore

CONSTANTS Uris,
          Entries,       \* Entries[r][rep]: the source files rep has entries for, its
                         \* relative names being resolved in root r
          Faulty         \* the reports that count an error in their summary

VARIABLES lsPath, lsWatcher, lsDebounce, lsReads, lastUris, diag

D == INSTANCE DiagServer WITH
        Entries <- Entries[FirstRoot], reportPath <- lsPath, watcher <- lsWatcher, debounce <- lsDebounce, reads <- lsReads

ASSUME EditorAssumption ==
    Entries \in [Paths -> [Reports -> SUBSET Uris]] /\ Faulty \subseteq Reports /\ D!NoPath \notin Paths

lsvars == <<lsPath, lsWatcher, lsDebounce, lsReads, lastUris, diag>>
evars == <<vars, lsvars>>

EInit == SInit /\ D!DInit

\* The client passes the path that activate has resolved.
StartServer == D!Initialize(FirstPath) /\ UNCHANGED store

ServerStep == (D!WatchEvent \/ D!TimerFires \/ D!Read) /\ UNCHANGED store

ENext == (SNext /\ UNCHANGED lsvars) \/ StartServer \/ ServerStep

ESpec == EInit /\ [][ENext]_evars

\* The CodeLens actions above the calls of each source file: the provider keeps
\* nothing, and is asked again whenever the store has loaded.  The store resolves the
\* names in its root, the server in that of the workspace.
Lenses == [u \in Uris |-> {rep \in report : u \in Entries[root][rep]}]

-----------------------------------------------------------------------------
ETypeOK == TypeOK /\ D!TypeOK

\* The squiggles on the screen are all those of one report and no others: no
\* list is left behind by a report that has been replaced or lost
\* (server.ts 70-75, 109-119).
SquigglesAreOneReport == D!DiagnosticsAreOneReport

\* When the server's watcher is in place and nothing is due in it any more, the
\* squiggles are those of the report in the file, whatever the store does
\* (server.ts 44-68, 77-119).
SquigglesAreCurrent == D!SettledIsCurrent

EditorSettled == Settled /\ watcher # {} /\ D!Settled /\ lsWatcher # {}

\* While the store and the server have one path and one root, and nothing is due in
\* either, the squiggles, the lenses and the dashboard are of the same report
\* (extension.ts 24, 87-91, 136-148).
ViewsAgree ==
    EditorSettled /\ reportPath = lsPath /\ root = FirstRoot =>
        diag = Lenses /\ \A shown \in panel : diag = D!Lists(shown)

-----------------------------------------------------------------------------
\* README.md, Overview and Diagnostics and Reporting: the extension surfaces the
\* findings of the runtime as squiggles, so a report that counts errors has some.
ErrorsAreSurfaced ==
    EditorSettled /\ reportPath = lsPath /\ report \cap Faulty # {} =>
        \E u \in Uris : diag[u] # {}
=============================================================================
