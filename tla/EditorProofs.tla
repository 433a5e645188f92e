---------------------------- MODULE EditorProofs ----------------------------
(* Proofs about ReportStore and Editor, for every set of paths and of source *)
(* files, every bound on the jobs and every bound on the reads under way.   *)
(* The argument is about the read that was started last: as long as nothing *)
(* else is due, it is a read of the current path that has not seen the file *)
(* yet or has seen what is in it now.                                       *)
EXTENDS Editor, SequenceTheorems, TLAPS

-----------------------------------------------------------------------------
\* What is left of the reads when one is done.
LEMMA RemoveAtFacts ==
  ASSUME NEW S, NEW s \in Seq(S), NEW k \in 1..Len(s)
  PROVE  /\ RemoveAt(s, k) \in Seq(S)
         /\ Len(RemoveAt(s, k)) = Len(s) - 1
         /\ \A j \in 1..(Len(s) - 1) : RemoveAt(s, k)[j] = IF j < k THEN s[j] ELSE s[j + 1]
<1> DEFINE a == SubSeq(s, 1, k - 1)
           b == SubSeq(s, k + 1, Len(s))
<1>1. Len(s) \in Nat /\ k - 1 \in 0..Len(s) /\ k + 1 \in 1..(Len(s) + 1)
  OBVIOUS
<1>2. a \in Seq(S) /\ Len(a) = k - 1 /\ \A j \in 1..(k - 1) : a[j] = s[j]
  BY <1>1
<1>3. b \in Seq(S) /\ Len(b) = Len(s) - k /\ \A j \in 1..(Len(s) - k) : b[j] = s[k + j]
  BY <1>1
<1>4. RemoveAt(s, k) = a \o b
  BY DEF RemoveAt
<1> HIDE DEF a, b
<1>5. /\ a \o b \in Seq(S) /\ Len(a \o b) = Len(a) + Len(b)
      /\ \A j \in 1..(Len(a) + Len(b)) : (a \o b)[j] = IF j <= Len(a) THEN a[j] ELSE b[j - Len(a)]
  BY <1>2, <1>3, ConcatProperties
<1>6. Len(a) + Len(b) = Len(s) - 1
  BY <1>1, <1>2, <1>3
<1>7. ASSUME NEW j \in 1..(Len(s) - 1)
      PROVE  (a \o b)[j] = IF j < k THEN s[j] ELSE s[j + 1]
  <2>1. CASE j < k
    BY <2>1, <1>1, <1>2, <1>5, <1>6
  <2>2. CASE ~(j < k)
    <3>1. j - (k - 1) \in 1..(Len(s) - k) /\ k + (j - (k - 1)) = j + 1
      BY <2>2, <1>1
    <3>2. (a \o b)[j] = b[j - (k - 1)]
      BY <2>2, <1>1, <1>2, <1>5, <1>6
    <3> QED BY <2>2, <3>1, <3>2, <1>3
  <2> QED BY <2>1, <2>2
<1> QED BY <1>4, <1>5, <1>6, <1>7

-----------------------------------------------------------------------------
(* The report files.                                                        *)

\* A job changes at most the file of its path, by one more change.
LEMMA JobStep ==
  ASSUME FTypeOK, NEW p \in Paths, Job(p) \/ LaunchJob(p)
  PROVE  /\ FTypeOK'
         /\ \A q \in Paths : stamp[q] <= stamp'[q]
         /\ \A q \in Paths : file'[q] # file[q] => stamp'[q] = stamp[q] + 1
         /\ \A q \in Paths : stamp'[q] = stamp[q] => file'[q] = file[q]
<1>1. MaxRuns \in Nat /\ runs \in 0..MaxRuns /\ Torn \in Contents /\ runs \in Contents
  BY StoreAssumption DEF FTypeOK, Contents
<1>2. CASE OpenReport(p)
  BY <1>1, <1>2 DEF OpenReport, Change, FTypeOK
<1>3. CASE CloseReport(p)
  BY <1>1, <1>3 DEF CloseReport, Change, FTypeOK
<1>4. CASE FailJob(p)
  BY <1>1, <1>4 DEF FailJob, FTypeOK
<1>5. CASE LaunchJob(p)
  BY <1>1, <1>5 DEF LaunchJob, FTypeOK
<1> QED BY <1>2, <1>3, <1>4, <1>5 DEF Job

\* The files are what they were.
LEMMA FilesKept ==
  ASSUME FTypeOK, UNCHANGED fvars
  PROVE  FTypeOK'
BY DEF FTypeOK, fvars

\* What a watcher can be.
LEMMA WatchedFacts ==
  ASSUME FTypeOK, NEW p \in Paths
  PROVE  /\ Watched(p) \subseteq Watchers
         /\ \A w \in Watched(p) : Watched(p) = {w} /\ w.path = p /\ w.seen = stamp[p]
BY DEF FTypeOK, Watched, Watchers

\* A watcher that has caught up.
LEMMA CaughtFacts ==
  ASSUME FTypeOK, NEW w \in Watchers
  PROVE  Caught(w) \in Watchers /\ Caught(w).path = w.path /\ Caught(w).seen = stamp[w.path]
BY DEF FTypeOK, Caught, Watchers

\* A file is read as the report it holds, or not at all.
LEMMA ParsedFacts ==
  ASSUME NEW p \in Paths, NEW c \in Contents
  PROVE  Parsed(p, c) \subseteq Reports /\ (c >= 0 => <<p, c>> \in Reports /\ Parsed(p, c) = {<<p, c>>})
BY StoreAssumption DEF Parsed, Reports, Contents, Absent, Torn

-----------------------------------------------------------------------------
(* The store.                                                               *)

\* Starting, seeing the file and finishing keep the reads well typed.
LEMMA ReadsTyped ==
  ASSUME FTypeOK, reads \in Seq(Reads), NEW k \in DOMAIN reads
  PROVE  /\ [reads EXCEPT ![k].data = file[reads[k].path]] \in Seq(Reads)
         /\ Len([reads EXCEPT ![k].data = file[reads[k].path]]) = Len(reads)
         /\ RemoveAt(reads, k) \in Seq(Reads) /\ Len(RemoveAt(reads, k)) = Len(reads) - 1
<1>1. k \in 1..Len(reads) /\ reads[k] \in Reads /\ Len(reads) \in Nat
  OBVIOUS
<1>2. file[reads[k].path] \in Contents
  BY <1>1 DEF FTypeOK, Reads
<1>3. [reads[k] EXCEPT !.data = file[reads[k].path]] \in Reads
  BY <1>1, <1>2 DEF Reads
<1>4. [reads EXCEPT ![k].data = file[reads[k].path]] \in Seq(Reads)
        /\ Len([reads EXCEPT ![k].data = file[reads[k].path]]) = Len(reads)
  BY <1>1, <1>3
<1>5. RemoveAt(reads, k) \in Seq(Reads) /\ Len(RemoveAt(reads, k)) = Len(reads) - 1
  BY <1>1, RemoveAtFacts
<1> QED BY <1>4, <1>5

\* The variables of the store and of the files keep their types.
LEMMA StoreTypeStep ==
  ASSUME TypeOK, [SNext]_vars
  PROVE  TypeOK'
<1>1. FTypeOK /\ MaxReads \in Nat /\ reads \in Seq(Reads) /\ Len(reads) \in Nat
  BY StoreAssumption DEF TypeOK
<1>2. ASSUME NEW r \in Paths, BuildAnalyze(r) PROVE TypeOK'
  <2>0. PICK p \in Paths : SetReportPath(r, p)
    BY <1>2, StoreAssumption DEF BuildAnalyze
  <2>1. FTypeOK'
    BY <1>1, <1>2, JobStep, FilesKept DEF BuildAnalyze
  <2>2. /\ root' = r /\ reportPath' = p /\ reads' = reads /\ report' = report /\ panel' = panel
        /\ \/ watcher' = watcher /\ debounce' = debounce
           \/ watcher' = Watched(p) /\ debounce' = TRUE
    BY <2>0 DEF SetReportPath, StartWatching
  <2>3. watcher' \subseteq Watchers
    BY <2>2, <1>1, WatchedFacts DEF TypeOK
  <2> QED BY <2>1, <2>2, <2>3 DEF TypeOK
<1>3. ASSUME NEW p \in Paths, Job(p), UNCHANGED store PROVE TypeOK'
  BY <1>1, <1>3, JobStep DEF TypeOK, store
<1>4. CASE WatchEvent
  <2>1. FTypeOK'
    BY <1>1, <1>4, FilesKept DEF WatchEvent
  <2>2. watcher' \subseteq Watchers
    BY <1>1, <1>4, CaughtFacts DEF WatchEvent, TypeOK
  <2>3. debounce' = TRUE /\ UNCHANGED <<root, reportPath, reads, report, panel>>
    BY <1>4 DEF WatchEvent
  <2> QED BY <2>1, <2>2, <2>3 DEF TypeOK
<1>5. CASE TimerFires
  <2>1. FTypeOK'
    BY <1>1, <1>5, FilesKept DEF TimerFires
  <2>2. [path |-> reportPath, data |-> Unread] \in Reads
    BY DEF TypeOK, Reads
  <2>3. reads' \in Seq(Reads) /\ Len(reads') = Len(reads) + 1
    BY <2>2, <1>1, <1>5 DEF TimerFires
  <2>4. Len(reads') <= MaxReads
    BY <2>3, <1>1, <1>5 DEF TimerFires
  <2>5. debounce' = FALSE /\ UNCHANGED <<root, reportPath, watcher, report, panel>>
    BY <1>5 DEF TimerFires
  <2> QED BY <2>1, <2>3, <2>4, <2>5 DEF TypeOK
<1>6. ASSUME NEW k \in DOMAIN reads, ReadFile(k) PROVE TypeOK'
  <2>1. FTypeOK'
    BY <1>1, <1>6, FilesKept DEF ReadFile
  <2>2. reads' \in Seq(Reads) /\ Len(reads') = Len(reads)
    BY <1>1, <1>6, ReadsTyped DEF ReadFile
  <2> QED BY <2>1, <2>2, <1>6 DEF ReadFile, TypeOK
<1>7. ASSUME NEW k \in DOMAIN reads, LoadReport(k) PROVE TypeOK'
  <2>1. FTypeOK'
    BY <1>1, <1>7, FilesKept DEF LoadReport
  <2>2. reads' \in Seq(Reads) /\ Len(reads') = Len(reads) - 1
    BY <1>1, <1>7, ReadsTyped DEF LoadReport
  <2>3. reads[k] \in Reads
    BY <1>1
  <2>4. reads[k].path \in Paths /\ reads[k].data \in Contents
    BY <2>3, <1>7 DEF LoadReport, Reads
  <2>5. report' \subseteq Reports /\ panel' \subseteq SUBSET Reports
    BY <2>4, <1>7, ParsedFacts DEF LoadReport
  <2>6. Len(reads') <= MaxReads
    BY <2>2, <1>1 DEF TypeOK
  <2> QED BY <2>1, <2>2, <2>5, <2>6, <1>7 DEF LoadReport, TypeOK
<1>8. CASE Dashboard
  <2>1. FTypeOK'
    BY <1>1, <1>8, FilesKept DEF Dashboard, OpenDashboard, CloseDashboard
  <2> QED BY <2>1, <1>8 DEF Dashboard, OpenDashboard, CloseDashboard, TypeOK
<1>9. CASE UNCHANGED vars
  BY <1>1, <1>9, FilesKept DEF vars, store, TypeOK
<1> QED BY <1>2, <1>3, <1>4, <1>5, <1>6, <1>7, <1>8, <1>9 DEF SNext, SStep, Load

\* The store, its watcher, its reads and its dashboard keep their types, however
\* many jobs and reads are under way (reportStore.ts 26-33).
THEOREM StoreTypeCorrect == Spec => []TypeOK
<1>1. SInit => TypeOK
  <2> SUFFICES ASSUME SInit PROVE TypeOK
    OBVIOUS
  <2>1. FTypeOK
    BY StoreAssumption DEF SInit, FInit, FTypeOK, Contents, Absent
  <2>2. Watched(FirstPath) \subseteq Watchers
    BY <2>1, StoreAssumption, WatchedFacts
  <2>3. <<>> \in Seq(Reads) /\ Len(<<>>) = 0
    OBVIOUS
  <2> QED BY <2>1, <2>2, <2>3, StoreAssumption DEF SInit, TypeOK
<1> QED BY <1>1, StoreTypeStep, PTL DEF Spec

\* For every set of paths and every number of reads under way, an open dashboard
\* shows the store's report.
THEOREM PanelCurrent == Spec => []PanelIsCurrent
<1>1. SInit => PanelIsCurrent
  BY DEF SInit, PanelIsCurrent
<1>2. PanelIsCurrent /\ [SNext]_vars => PanelIsCurrent'
  BY DEF PanelIsCurrent, SNext, SStep, Load, Dashboard, BuildAnalyze, SetReportPath, WatchEvent,
         TimerFires, ReadFile, LoadReport, OpenDashboard, CloseDashboard, store, vars
<1> QED BY <1>1, <1>2, PTL DEF Spec

-----------------------------------------------------------------------------
\* The store is told of the changes of the file at its path.
Watching ==
    \A w \in watcher : watcher = {w} /\ w.path = reportPath /\ w.seen <= stamp[reportPath]

InStep == ~debounce /\ watcher # {} /\ \A w \in watcher : ~Behind(w)

\* When no change has to be read any more, the read that was started last is of
\* the current file, or, when all are done, the report is.
LastReadIsCurrent ==
    InStep =>
        IF reads = <<>> THEN report = Parsed(reportPath, file[reportPath])
        ELSE /\ reads[Len(reads)].path = reportPath
             /\ reads[Len(reads)].data \in {Unread, file[reportPath]}

StoreInv == Watching /\ LastReadIsCurrent

\* The reads are answered in the order in which they were started.
LoadsInOrder == (\E k \in DOMAIN reads : LoadReport(k)) => LoadReport(1)

\* A job that changes the current file leaves its watcher behind.
LEMMA StoreSeesJobs ==
  ASSUME TypeOK, StoreInv, NEW p \in Paths, Job(p) \/ LaunchJob(p), UNCHANGED store
  PROVE  StoreInv'
<1>1. /\ \A q \in Paths : stamp[q] <= stamp'[q]
      /\ \A q \in Paths : stamp'[q] = stamp[q] => file'[q] = file[q]
      /\ reportPath \in Paths /\ \A q \in Paths : stamp[q] \in Nat /\ stamp'[q] \in Nat
  BY JobStep DEF TypeOK, FTypeOK
<1>2. /\ watcher' = watcher /\ reportPath' = reportPath /\ debounce' = debounce
      /\ reads' = reads /\ report' = report
  BY DEF store
<1>3. \A w \in watcher : w.path = reportPath /\ w.seen \in Nat /\ w.seen <= stamp[reportPath]
  BY DEF StoreInv, Watching, TypeOK, Watchers
<1>4. Watching'
  BY <1>1, <1>2, <1>3 DEF StoreInv, Watching
<1>5. ASSUME InStep' PROVE InStep /\ file'[reportPath] = file[reportPath]
  <2>1. PICK w \in watcher : w.seen = stamp'[reportPath]
    BY <1>2, <1>3, <1>5 DEF InStep, Behind
  <2>2. stamp'[reportPath] = stamp[reportPath]
    BY <2>1, <1>1, <1>3
  <2>3. \A v \in watcher : ~Behind(v)
    BY <2>2, <1>2, <1>3, <1>5 DEF InStep, Behind
  <2> QED BY <2>2, <2>3, <1>1, <1>2, <1>5 DEF InStep
<1>6. LastReadIsCurrent'
  BY <1>2, <1>5 DEF StoreInv, LastReadIsCurrent, Parsed
<1> QED BY <1>4, <1>6 DEF StoreInv

\* A timer, a read or an answer leaves the last read current.
LEMMA StoreInvStep ==
  ASSUME TypeOK, StoreInv, [SNext]_vars, LoadsInOrder
  PROVE  StoreInv'
<1>1. FTypeOK /\ reads \in Seq(Reads) /\ Len(reads) \in Nat /\ reportPath \in Paths
  BY DEF TypeOK
<1>2. ASSUME NEW r \in Paths, BuildAnalyze(r) PROVE StoreInv'
  <2>0. PICK p \in Paths : SetReportPath(r, p)
    BY <1>2, StoreAssumption DEF BuildAnalyze
  <2>1. CASE r = root /\ p = reportPath
    <3>1. UNCHANGED store
      BY <2>0, <2>1 DEF SetReportPath, store
    <3>2. CASE LaunchJob(r)
      BY <3>1, <3>2, StoreSeesJobs
    <3>3. CASE UNCHANGED fvars
      BY <3>1, <3>3 DEF StoreInv, Watching, LastReadIsCurrent, InStep, Behind, Parsed, store, fvars
    <3> QED BY <3>2, <3>3, <1>2 DEF BuildAnalyze
  <2>2. CASE ~(r = root /\ p = reportPath)
    <3>1. reportPath' = p /\ watcher' = Watched(p) /\ debounce' = TRUE
      BY <2>0, <2>2 DEF SetReportPath, StartWatching
    <3>2. stamp'[p] = stamp[p] /\ stamp[p] \in Nat
      BY <1>1, <1>2 DEF BuildAnalyze, LaunchJob, fvars, FTypeOK
    <3>3. Watching'
      BY <3>1, <3>2, <1>1, WatchedFacts DEF Watching
    <3> QED BY <3>1, <3>3 DEF StoreInv, LastReadIsCurrent, InStep
  <2> QED BY <2>1, <2>2
<1>3. ASSUME NEW p \in Paths, Job(p), UNCHANGED store PROVE StoreInv'
  BY <1>3, StoreSeesJobs
<1>4. CASE WatchEvent
  <2>1. PICK w \in watcher : watcher' = {Caught(w)}
    BY <1>4 DEF WatchEvent
  <2>2. debounce' = TRUE /\ reportPath' = reportPath /\ stamp' = stamp
    BY <1>4 DEF WatchEvent, fvars
  <2>3. w \in Watchers /\ w.path = reportPath /\ stamp[reportPath] \in Nat
    BY <1>1 DEF StoreInv, Watching, TypeOK, FTypeOK
  <2>4. Watching'
    BY <2>1, <2>2, <2>3, <1>1, CaughtFacts DEF Watching
  <2> QED BY <2>2, <2>4 DEF StoreInv, LastReadIsCurrent, InStep
<1>5. CASE TimerFires
  <2>1. /\ reads' = Append(reads, [path |-> reportPath, data |-> Unread])
        /\ UNCHANGED <<fvars, root, reportPath, watcher, report>>
    BY <1>5 DEF TimerFires
  <2>2. Len(reads') = Len(reads) + 1 /\ reads'[Len(reads) + 1] = [path |-> reportPath, data |-> Unread]
    BY <2>1, <1>1
  <2>3. reads' # <<>>
    BY <2>2, <1>1
  <2>4. Watching'
    BY <2>1 DEF StoreInv, Watching, fvars
  <2> QED BY <2>1, <2>2, <2>3, <2>4 DEF StoreInv, LastReadIsCurrent
<1>6. ASSUME NEW k \in DOMAIN reads, ReadFile(k) PROVE StoreInv'
  <2>1. /\ reads' = [reads EXCEPT ![k].data = file[reads[k].path]]
        /\ UNCHANGED <<fvars, root, reportPath, watcher, debounce, report>>
    BY <1>6 DEF ReadFile
  <2>2. Len(reads') = Len(reads) /\ k \in 1..Len(reads) /\ reads # <<>> /\ reads' # <<>>
    BY <2>1, <1>1
  <2>3. /\ reads'[Len(reads)].path = reads[Len(reads)].path
        /\ \/ reads'[Len(reads)].data = reads[Len(reads)].data
           \/ reads'[Len(reads)].data = file[reads[Len(reads)].path]
    <3>1. reads[Len(reads)] \in Reads
      BY <2>2, <1>1
    <3> QED BY <3>1, <2>1, <2>2, <1>1 DEF Reads
  <2>4. Watching' /\ (InStep' => InStep)
    BY <2>1 DEF StoreInv, Watching, InStep, Behind, fvars
  <2>5. LastReadIsCurrent'
    BY <2>1, <2>2, <2>3, <2>4 DEF StoreInv, LastReadIsCurrent, fvars
  <2> QED BY <2>4, <2>5 DEF StoreInv
<1>7. ASSUME NEW k \in DOMAIN reads, LoadReport(k) PROVE StoreInv'
  <2>1. LoadReport(1)
    BY <1>7 DEF LoadsInOrder
  <2>2. /\ reads[1].data # Unread /\ reads' = RemoveAt(reads, 1)
        /\ report' = Parsed(reads[1].path, reads[1].data)
        /\ UNCHANGED <<fvars, root, reportPath, watcher, debounce>>
    BY <2>1 DEF LoadReport
  <2>3. /\ 1 \in 1..Len(reads) /\ reads # <<>>
        /\ reads' \in Seq(Reads) /\ Len(reads') = Len(reads) - 1
        /\ \A j \in 1..(Len(reads) - 1) : reads'[j] = reads[j + 1]
    <3>1. 1 \in 1..Len(reads) /\ reads # <<>>
      BY <1>1, <1>7
    <3>2. /\ RemoveAt(reads, 1) \in Seq(Reads) /\ Len(RemoveAt(reads, 1)) = Len(reads) - 1
          /\ \A j \in 1..(Len(reads) - 1) :
                RemoveAt(reads, 1)[j] = IF j < 1 THEN reads[j] ELSE reads[j + 1]
      BY <3>1, <1>1, RemoveAtFacts
    <3> QED BY <3>1, <3>2, <2>2, <1>1
  <2>4. Watching' /\ (InStep' => InStep)
    BY <2>2 DEF StoreInv, Watching, InStep, Behind, fvars
  <2>5. LastReadIsCurrent'
    <3>1. CASE Len(reads) = 1
      <4>1. reads' = <<>>
        BY <3>1, <2>3
      <4> QED BY <4>1, <3>1, <2>2, <2>3, <2>4 DEF StoreInv, LastReadIsCurrent, Parsed, fvars
    <3>2. CASE Len(reads) # 1
      <4>1. /\ reads' # <<>> /\ Len(reads') \in 1..(Len(reads) - 1)
            /\ reads'[Len(reads')] = reads[Len(reads)]
        BY <3>2, <2>3, <1>1
      <4> QED BY <4>1, <2>2, <2>3, <2>4 DEF StoreInv, LastReadIsCurrent, fvars
    <3> QED BY <3>1, <3>2
  <2> QED BY <2>4, <2>5 DEF StoreInv
<1>8. CASE Dashboard \/ UNCHANGED vars
  BY <1>8 DEF StoreInv, Watching, LastReadIsCurrent, InStep, Behind, Parsed, Dashboard,
              OpenDashboard, CloseDashboard, vars, store, fvars
<1> QED BY <1>2, <1>3, <1>4, <1>5, <1>6, <1>7, <1>8 DEF SNext, SStep, Load

\* As long as the reads are answered in the order in which they were started,
\* the store that has nothing due any more holds what the file of its path
\* holds, for every set of paths and any number of reads under way.
THEOREM StoreCurrentInOrder == Spec /\ [][LoadsInOrder]_vars => []SettledIsCurrent
<1>1. SInit => StoreInv
  <2> SUFFICES ASSUME SInit PROVE StoreInv
    OBVIOUS
  <2>1. FTypeOK
    BY StoreAssumption DEF SInit, FInit, FTypeOK, Contents, Absent
  <2>2. stamp[FirstPath] \in Nat
    BY <2>1, StoreAssumption DEF FTypeOK
  <2>3. Watching
    BY <2>1, <2>2, StoreAssumption, WatchedFacts DEF SInit, Watching
  <2> QED BY <2>3 DEF SInit, StoreInv, LastReadIsCurrent, InStep
<1>2. TypeOK /\ StoreInv /\ [SNext]_vars /\ [LoadsInOrder]_vars => StoreInv'
  <2>1. CASE UNCHANGED vars
    BY <2>1 DEF StoreInv, Watching, LastReadIsCurrent, InStep, Behind, Parsed, vars, store, fvars
  <2> QED BY <2>1, StoreInvStep
<1>3. StoreInv => SettledIsCurrent
  BY DEF StoreInv, LastReadIsCurrent, InStep, SettledIsCurrent, Settled
<1> QED BY <1>1, <1>2, <1>3, StoreTypeCorrect, PTL DEF Spec

\* One read at a time is answered in order: when the timer never fires before the
\* read that it started last has been answered, the store that has nothing due
\* any more holds what the file of its path holds, for every set of paths.
THEOREM StoreCurrent ==
  ASSUME MaxReads = 1
  PROVE  Spec => []SettledIsCurrent
<1>1. TypeOK => LoadsInOrder
  <2> SUFFICES ASSUME TypeOK PROVE LoadsInOrder
    OBVIOUS
  <2>1. \A k \in DOMAIN reads : k = 1
    BY DEF TypeOK
  <2> QED BY <2>1 DEF LoadsInOrder
<1>2. TypeOK => [LoadsInOrder]_vars
  BY <1>1
<1> QED BY <1>2, StoreTypeCorrect, StoreCurrentInOrder, PTL

-----------------------------------------------------------------------------
(* The language server, in the editor.                                      *)

\* The server is initialised once.
ServerWaits == lsPath = D!NoPath => lsWatcher = {} /\ lsDebounce = FALSE /\ lsReads = <<>>

\* The server reads the files that the store reads.
LEMMA SameFiles ==
  /\ D!FTypeOK <=> FTypeOK
  /\ \A p : D!Watched(p) = Watched(p)
  /\ \A w : (D!Behind(w) <=> Behind(w)) /\ D!Caught(w) = Caught(w)
  /\ \A p, c : D!Parsed(p, c) = Parsed(p, c)
  /\ D!Watchers = Watchers /\ D!Reads = Reads /\ D!Reports = Reports /\ D!Unread = Unread
BY DEF D!FTypeOK, FTypeOK, D!Contents, Contents, D!Absent, Absent, D!Torn, Torn, D!Watched, Watched,
       D!Behind, Behind, D!Caught, Caught, D!Parsed, Parsed, D!Watchers, Watchers, D!Reads, Reads,
       D!Unread, Unread, D!Reports, Reports

\* The store's steps change the files by a step of one job, or not at all.
LEMMA StoreStepFiles ==
  ASSUME [SNext]_vars
  PROVE  UNCHANGED fvars \/ \E p \in Paths : Job(p) \/ LaunchJob(p)
BY DEF SNext, SStep, Load, Dashboard, BuildAnalyze, WatchEvent, TimerFires, ReadFile, LoadReport,
       OpenDashboard, CloseDashboard, vars

\* To the store, the server does not exist.
THEOREM EditorStore == ESpec => Spec
<1>1. EInit => SInit
  BY DEF EInit
<1>2. [ENext]_evars => [SNext]_vars
  BY DEF ENext, evars, vars, StartServer, ServerStep, D!Initialize, D!WatchEvent, D!TimerFires, D!Read,
         D!ReadFile, D!ReadAndPublish, D!fvars, fvars
<1> QED BY <1>1, <1>2, PTL DEF ESpec, Spec

\* The entries of a report are lists of source files.
LEMMA EntriesFacts ==
  ASSUME NEW rep \in Reports
  PROVE  Entries[FirstRoot][rep] \in SUBSET Uris
BY StoreAssumption, EditorAssumption

\* Publishing and clearing keep the diagnostics well typed.
LEMMA PublishTyped ==
  ASSUME diag \in [Uris -> SUBSET Reports], lastUris \subseteq Uris,
         (\E rep \in Reports : D!Publish(rep)) \/ D!ClearAllDiagnostics
  PROVE  diag' \in [Uris -> SUBSET Reports] /\ lastUris' \subseteq Uris
<1>1. ASSUME NEW rep \in Reports, D!Publish(rep)
      PROVE  diag' \in [Uris -> SUBSET Reports] /\ lastUris' \subseteq Uris
  BY <1>1, EntriesFacts DEF D!Publish
<1>2. CASE D!ClearAllDiagnostics
  BY <1>2 DEF D!ClearAllDiagnostics
<1> QED BY <1>1, <1>2

\* What an answer that arrives does to the diagnostics.
LEMMA AnswerFacts ==
  ASSUME FTypeOK, lsReads \in Seq(Reads), NEW k \in DOMAIN lsReads, D!ReadAndPublish(k)
  PROVE  /\ k \in 1..Len(lsReads) /\ Len(lsReads) \in Nat
         /\ lsReads[k].path \in Paths /\ lsReads[k].data \in Contents
         /\ lsReads' = RemoveAt(lsReads, k)
         /\ lsReads' \in Seq(Reads) /\ Len(lsReads') = Len(lsReads) - 1
         /\ UNCHANGED <<fvars, lsPath, lsWatcher, lsDebounce>>
         /\ IF lsReads[k].data >= 0
            THEN /\ <<lsReads[k].path, lsReads[k].data>> \in Reports
                 /\ D!Publish(<<lsReads[k].path, lsReads[k].data>>)
                 /\ Parsed(lsReads[k].path, lsReads[k].data) = {<<lsReads[k].path, lsReads[k].data>>}
            ELSE D!ClearAllDiagnostics /\ Parsed(lsReads[k].path, lsReads[k].data) = {}
<1>1. k \in 1..Len(lsReads) /\ Len(lsReads) \in Nat /\ lsReads[k] \in Reads
  OBVIOUS
<1>2. lsReads[k].path \in Paths /\ lsReads[k].data \in Contents
  BY <1>1, SameFiles DEF D!ReadAndPublish, Reads
<1>3. /\ lsReads' = RemoveAt(lsReads, k) /\ UNCHANGED <<fvars, lsPath, lsWatcher, lsDebounce>>
      /\ IF lsReads[k].data >= 0
         THEN \E rep \in Parsed(lsReads[k].path, lsReads[k].data) : D!Publish(rep)
         ELSE D!ClearAllDiagnostics
  <2>1. D!Parsed(lsReads[k].path, lsReads[k].data) = Parsed(lsReads[k].path, lsReads[k].data)
    BY DEF D!Parsed, Parsed
  <2>2. UNCHANGED <<fvars, lsPath, lsWatcher, lsDebounce>>
    BY DEF D!ReadAndPublish, D!fvars, fvars
  <2>3. /\ lsReads' = RemoveAt(lsReads, k)
        /\ IF lsReads[k].data >= 0
           THEN \E rep \in D!Parsed(lsReads[k].path, lsReads[k].data) : D!Publish(rep)
           ELSE D!ClearAllDiagnostics
    <3>1. D!RemoveAt(lsReads, k) = RemoveAt(lsReads, k)
      BY DEF D!RemoveAt, RemoveAt
    <3> QED BY <3>1, Zenon DEF D!ReadAndPublish
  <2> QED BY <2>1, <2>2, <2>3
<1>4. lsReads' \in Seq(Reads) /\ Len(lsReads') = Len(lsReads) - 1
  BY <1>1, <1>3, RemoveAtFacts
<1>5. CASE lsReads[k].data >= 0
  <2>1. /\ <<lsReads[k].path, lsReads[k].data>> \in Reports
        /\ Parsed(lsReads[k].path, lsReads[k].data) = {<<lsReads[k].path, lsReads[k].data>>}
    BY <1>2, <1>5, ParsedFacts
  <2>2. D!Publish(<<lsReads[k].path, lsReads[k].data>>)
    BY <2>1, <1>3, <1>5
  <2> QED BY <2>1, <2>2, <1>1, <1>2, <1>3, <1>4, <1>5
<1>6. CASE ~(lsReads[k].data >= 0)
  <2>1. Parsed(lsReads[k].path, lsReads[k].data) = {}
    BY <1>6 DEF Parsed
  <2> QED BY <2>1, <1>1, <1>2, <1>3, <1>4, <1>6
<1> QED BY <1>5, <1>6

\* The server's variables keep their types, whatever the store does.
LEMMA ServerTypeStep ==
  ASSUME TypeOK', D!TypeOK, ServerWaits, [ENext]_evars
  PROVE  D!TypeOK' /\ ServerWaits'
<1> USE DEF ServerWaits
<1>1. /\ FTypeOK /\ FTypeOK' /\ MaxReads \in Nat /\ lsReads \in Seq(Reads) /\ Len(lsReads) \in Nat
      /\ lsPath \in Paths \cup {D!NoPath} /\ lsWatcher \subseteq Watchers /\ lsDebounce \in BOOLEAN
      /\ Len(lsReads) <= MaxReads /\ lastUris \subseteq Uris /\ diag \in [Uris -> SUBSET Reports]
      /\ D!NoPath \notin Paths
  BY SameFiles, StoreAssumption, EditorAssumption DEF D!TypeOK, TypeOK
<1>2. D!FTypeOK'
  BY <1>1, SameFiles DEF D!FTypeOK, FTypeOK, D!Contents, Contents, D!Absent, Absent, D!Torn, Torn
<1>3. CASE UNCHANGED lsvars
  <2>1. UNCHANGED <<lsPath, lsWatcher, lsDebounce, lsReads, lastUris, diag>>
    BY <1>3 DEF lsvars
  <2> QED BY <2>1, <1>1, <1>2, SameFiles DEF D!TypeOK
<1>4. CASE StartServer
  <2>1. /\ lsPath = D!NoPath /\ lsPath' = FirstPath /\ lsWatcher' = Watched(FirstPath) /\ lsDebounce' = TRUE
        /\ UNCHANGED <<lsReads, lastUris, diag>>
    BY <1>4, SameFiles DEF StartServer, D!Initialize
  <2>2. Watched(FirstPath) \subseteq Watchers
    BY <1>1, StoreAssumption, WatchedFacts
  <2> QED BY <2>1, <2>2, <1>1, <1>2, SameFiles, StoreAssumption DEF D!TypeOK
<1>5. CASE D!WatchEvent
  <2>1. /\ \E w \in lsWatcher : lsWatcher' = {Caught(w)}
        /\ lsDebounce' = TRUE /\ UNCHANGED <<lsPath, lsReads, lastUris, diag>>
    BY <1>5, SameFiles DEF D!WatchEvent
  <2>2. lsWatcher' \subseteq Watchers /\ lsPath # D!NoPath
    BY <2>1, <1>1, CaughtFacts
  <2> QED BY <2>1, <2>2, <1>1, <1>2, SameFiles DEF D!TypeOK
<1>6. CASE D!TimerFires
  <2>1. /\ lsDebounce = TRUE /\ Len(lsReads) < MaxReads /\ lsDebounce' = FALSE
        /\ lsReads' = Append(lsReads, [path |-> lsPath, data |-> Unread])
        /\ UNCHANGED <<lsPath, lsWatcher, lastUris, diag>>
    BY <1>1, <1>6, SameFiles DEF D!TimerFires
  <2>2. lsPath \in Paths
    BY <2>1, <1>1
  <2>3. [path |-> lsPath, data |-> Unread] \in Reads
    BY <2>2 DEF Reads
  <2>4. lsReads' \in Seq(Reads) /\ Len(lsReads') = Len(lsReads) + 1
    BY <2>1, <2>3, <1>1
  <2>5. Len(lsReads') <= MaxReads
    BY <2>1, <2>4, <1>1
  <2> QED BY <2>1, <2>2, <2>4, <2>5, <1>1, <1>2, SameFiles DEF D!TypeOK
<1>7. ASSUME NEW k \in DOMAIN lsReads, D!ReadFile(k)
      PROVE  D!TypeOK' /\ ServerWaits'
  <2>1. /\ lsReads' = [lsReads EXCEPT ![k].data = file[lsReads[k].path]]
        /\ UNCHANGED <<lsPath, lsWatcher, lsDebounce, lastUris, diag>>
    BY <1>7 DEF D!ReadFile
  <2>2. k \in 1..Len(lsReads) /\ lsReads[k] \in Reads
    BY <1>1
  <2>3. file[lsReads[k].path] \in Contents
    BY <2>2, <1>1 DEF FTypeOK, Reads
  <2>4. [lsReads[k] EXCEPT !.data = file[lsReads[k].path]] \in Reads
    BY <2>2, <2>3 DEF Reads
  <2>5. lsReads' \in Seq(Reads) /\ Len(lsReads') = Len(lsReads)
    BY <2>1, <2>2, <2>4, <1>1
  <2>6. lsPath # D!NoPath
    BY <2>2, <1>1
  <2> QED BY <2>1, <2>5, <2>6, <1>1, <1>2, SameFiles DEF D!TypeOK
<1>8. ASSUME NEW k \in DOMAIN lsReads, D!ReadAndPublish(k)
      PROVE  D!TypeOK' /\ ServerWaits'
  <2>1. /\ k \in 1..Len(lsReads)
        /\ lsReads' \in Seq(Reads) /\ Len(lsReads') = Len(lsReads) - 1
        /\ UNCHANGED <<lsPath, lsWatcher, lsDebounce>>
    BY <1>1, <1>8, AnswerFacts
  <2>2. (\E rep \in Reports : D!Publish(rep)) \/ D!ClearAllDiagnostics
    BY <1>1, <1>8, AnswerFacts
  <2>3. diag' \in [Uris -> SUBSET Reports] /\ lastUris' \subseteq Uris
    BY <2>2, <1>1, PublishTyped
  <2>4. lsPath # D!NoPath /\ Len(lsReads') <= MaxReads
    BY <2>1, <1>1
  <2> QED BY <2>1, <2>3, <2>4, <1>1, <1>2, SameFiles DEF D!TypeOK
<1> QED BY <1>3, <1>4, <1>5, <1>6, <1>7, <1>8 DEF ENext, evars, ServerStep, D!Read

\* The types of the server, and that it does nothing before it is initialised.
LEMMA ServerTypes == ESpec => [](D!TypeOK /\ ServerWaits)
<1>1. TypeOK /\ EInit => D!TypeOK /\ ServerWaits
  <2> SUFFICES ASSUME TypeOK, EInit PROVE D!TypeOK /\ ServerWaits
    OBVIOUS
  <2>1. D!FTypeOK
    BY SameFiles DEF TypeOK
  <2>2. /\ lsPath = D!NoPath /\ lsWatcher = {} /\ lsDebounce = FALSE /\ lsReads = <<>> /\ lastUris = {}
        /\ diag = [u \in Uris |-> {}]
    BY DEF EInit, D!DInit
  <2>3. lsReads \in Seq(D!Reads) /\ Len(lsReads) = 0
    BY <2>2
  <2>4. Len(lsReads) <= MaxReads
    BY <2>3, StoreAssumption
  <2>5. diag \in [Uris -> SUBSET D!Reports] /\ lastUris \subseteq Uris
    BY <2>2
  <2>6. lsPath \in Paths \cup {D!NoPath} /\ lsWatcher \subseteq D!Watchers /\ lsDebounce \in BOOLEAN
    BY <2>2
  <2>7. D!TypeOK
    BY <2>1, <2>3, <2>4, <2>5, <2>6 DEF D!TypeOK
  <2> QED BY <2>2, <2>7 DEF ServerWaits
<1>2. D!TypeOK /\ ServerWaits /\ TypeOK' /\ [ENext]_evars => (D!TypeOK /\ ServerWaits)'
  BY ServerTypeStep
<1> QED BY <1>1, <1>2, EditorStore, StoreTypeCorrect, PTL DEF ESpec

\* The extension host and the language server together keep their types
\* (reportStore.ts 26-33, server.ts 25-29).
THEOREM EditorTypeCorrect == ESpec => []ETypeOK
<1>1. TypeOK /\ D!TypeOK => ETypeOK
  BY DEF ETypeOK
<1> QED BY <1>1, EditorStore, StoreTypeCorrect, ServerTypes, PTL

-----------------------------------------------------------------------------
\* Publishing a report leaves exactly its lists on the screen, when those that
\* were there are known to the server; clearing leaves none.
LEMMA PublishFacts ==
  ASSUME diag \in [Uris -> SUBSET Reports], lastUris \subseteq Uris, D!DiagnosticsAreOneReport
  PROVE  /\ \A rep \in Reports : D!Publish(rep) =>
                D!DiagnosticsAreOneReport' /\ diag' = D!Lists({rep})
         /\ D!ClearAllDiagnostics => D!DiagnosticsAreOneReport' /\ diag' = D!Lists({})
<1>1. \A u \in Uris : diag[u] # {} <=> u \in lastUris
  BY DEF D!DiagnosticsAreOneReport
<1>2. ASSUME NEW rep \in Reports, D!Publish(rep)
      PROVE  D!DiagnosticsAreOneReport' /\ diag' = D!Lists({rep})
  <2>1. Entries[FirstRoot][rep] \subseteq Uris
    BY EntriesFacts
  <2>2. /\ lastUris' = Entries[FirstRoot][rep]
        /\ diag' = [u \in Uris |-> IF u \in Entries[FirstRoot][rep] THEN {rep} ELSE {}]
    BY <1>1, <1>2 DEF D!Publish
  <2>3. diag' = D!Lists({rep})
    <3>1. \A u \in Uris : {r \in {rep} : u \in Entries[FirstRoot][r]} = IF u \in Entries[FirstRoot][rep] THEN {rep} ELSE {}
      OBVIOUS
    <3> QED BY <2>2, <3>1 DEF D!Lists
  <2>4. \A u \in Uris : diag'[u] # {} <=> u \in lastUris'
    BY <2>2
  <2>5. rep \in D!Reports /\ Entries[FirstRoot][rep] = lastUris' /\ \A u \in lastUris' : diag'[u] = {rep}
    BY <2>1, <2>2, SameFiles
  <2> QED BY <2>3, <2>4, <2>5 DEF D!DiagnosticsAreOneReport
<1>3. ASSUME D!ClearAllDiagnostics
      PROVE  D!DiagnosticsAreOneReport' /\ diag' = D!Lists({})
  <2>1. lastUris' = {} /\ diag' = [u \in Uris |-> {}]
    BY <1>1, <1>3 DEF D!ClearAllDiagnostics
  <2>2. diag' = D!Lists({})
    BY <2>1 DEF D!Lists
  <2> QED BY <2>1, <2>2 DEF D!DiagnosticsAreOneReport
<1> QED BY <1>2, <1>3

\* An answer that arrives leaves the lists of what it holds on the screen.
LEMMA AnswerPublishes ==
  ASSUME D!TypeOK, D!DiagnosticsAreOneReport, NEW k \in DOMAIN lsReads, D!ReadAndPublish(k)
  PROVE  /\ D!DiagnosticsAreOneReport'
         /\ diag' = D!Lists(Parsed(lsReads[k].path, lsReads[k].data))
<1>1. FTypeOK /\ lsReads \in Seq(Reads) /\ diag \in [Uris -> SUBSET Reports] /\ lastUris \subseteq Uris
  BY SameFiles DEF D!TypeOK
<1>2. CASE lsReads[k].data >= 0
  <2> DEFINE rep == <<lsReads[k].path, lsReads[k].data>>
  <2>1. rep \in Reports /\ D!Publish(rep) /\ Parsed(lsReads[k].path, lsReads[k].data) = {rep}
    BY <1>1, <1>2, AnswerFacts
  <2> HIDE DEF rep
  <2> QED BY <2>1, <1>1, PublishFacts
<1>3. CASE ~(lsReads[k].data >= 0)
  <2>1. D!ClearAllDiagnostics /\ Parsed(lsReads[k].path, lsReads[k].data) = {}
    BY <1>1, <1>3, AnswerFacts
  <2> QED BY <2>1, <1>1, PublishFacts
<1> QED BY <1>2, <1>3

\* The steps that touch the diagnostics are the answers of the server.
LEMMA OneReportStep ==
  ASSUME D!TypeOK, D!DiagnosticsAreOneReport, [ENext]_evars
  PROVE  D!DiagnosticsAreOneReport'
<1>1. CASE UNCHANGED <<lastUris, diag>>
  BY <1>1 DEF D!DiagnosticsAreOneReport, D!Reports
<1>2. ASSUME NEW k \in DOMAIN lsReads, D!ReadAndPublish(k) PROVE D!DiagnosticsAreOneReport'
  BY <1>2, AnswerPublishes
<1> QED BY <1>1, <1>2 DEF ENext, evars, lsvars, StartServer, ServerStep, D!Initialize, D!WatchEvent,
           D!TimerFires, D!Read, D!ReadFile

\* For every set of source files and every assignment of entries to reports, the
\* squiggles on the screen are all those of one report: no list is left behind,
\* in whatever order the reads are answered.
THEOREM SquigglesOneReport == ESpec => []SquigglesAreOneReport
<1>1. EInit => D!DiagnosticsAreOneReport
  BY DEF EInit, D!DInit, D!DiagnosticsAreOneReport
<1>2. D!TypeOK /\ D!DiagnosticsAreOneReport /\ [ENext]_evars => D!DiagnosticsAreOneReport'
  BY OneReportStep
<1>3. D!DiagnosticsAreOneReport => SquigglesAreOneReport
  BY DEF SquigglesAreOneReport
<1> QED BY <1>1, <1>2, <1>3, ServerTypes, PTL DEF ESpec

-----------------------------------------------------------------------------
\* The server is told of the changes of the file at its path; when no change has
\* to be read any more, the read that was started last is of the current file,
\* or, when all are done, the diagnostics are.
ServerWatching ==
    \A w \in lsWatcher : lsWatcher = {w} /\ w.path = lsPath /\ lsPath \in Paths
                         /\ w.seen <= stamp[lsPath]

ServerInStep == ~lsDebounce /\ lsWatcher # {} /\ \A w \in lsWatcher : ~Behind(w)

ServerReadIsCurrent ==
    ServerInStep =>
        IF lsReads = <<>> THEN diag = D!Lists(Parsed(lsPath, file[lsPath]))
        ELSE /\ lsReads[Len(lsReads)].path = lsPath
             /\ lsReads[Len(lsReads)].data \in {Unread, file[lsPath]}

ServerInv == ServerWatching /\ ServerReadIsCurrent

\* The server's reads are answered in the order in which they were started.
AnswersInOrder == (\E k \in DOMAIN lsReads : D!ReadAndPublish(k)) => D!ReadAndPublish(1)

\* A step of the store leaves the server in step, or behind.
LEMMA ServerSeesJobs ==
  ASSUME TypeOK, D!TypeOK, ServerInv, [SNext]_vars, UNCHANGED lsvars
  PROVE  ServerInv'
<1>1. UNCHANGED <<lsPath, lsWatcher, lsDebounce, lsReads, lastUris, diag>>
  BY DEF lsvars
<1>2. CASE UNCHANGED fvars
  BY <1>1, <1>2 DEF ServerInv, ServerWatching, ServerReadIsCurrent, ServerInStep, Behind, Parsed,
                    D!Lists, fvars
<1>3. ASSUME NEW p \in Paths, Job(p) \/ LaunchJob(p) PROVE ServerInv'
  <2>1. /\ \A q \in Paths : stamp[q] <= stamp'[q]
        /\ \A q \in Paths : stamp'[q] = stamp[q] => file'[q] = file[q]
        /\ \A q \in Paths : stamp[q] \in Nat /\ stamp'[q] \in Nat
    BY <1>3, JobStep DEF TypeOK, FTypeOK
  <2>2. \A w \in lsWatcher : /\ w.path = lsPath /\ w.seen \in Nat /\ w.seen <= stamp[lsPath]
                             /\ lsPath \in Paths
    BY SameFiles DEF ServerInv, ServerWatching, D!TypeOK, Watchers
  <2>3. ServerWatching'
    BY <1>1, <2>1, <2>2 DEF ServerInv, ServerWatching
  <2>4. ASSUME ServerInStep' PROVE ServerInStep /\ file'[lsPath] = file[lsPath]
    <3>1. PICK w \in lsWatcher : w.seen = stamp'[lsPath]
      BY <1>1, <2>2, <2>4 DEF ServerInStep, Behind
    <3>2. stamp'[lsPath] = stamp[lsPath] /\ lsPath \in Paths
      BY <3>1, <2>1, <2>2
    <3>3. \A v \in lsWatcher : ~Behind(v)
      BY <3>2, <1>1, <2>2, <2>4 DEF ServerInStep, Behind
    <3> QED BY <3>2, <3>3, <2>1, <1>1, <2>4 DEF ServerInStep
  <2>5. ServerReadIsCurrent'
    BY <1>1, <2>4 DEF ServerInv, ServerReadIsCurrent, Parsed, D!Lists
  <2> QED BY <2>3, <2>5 DEF ServerInv
<1> QED BY <1>2, <1>3, StoreStepFiles

\* A step of the server leaves its last read current.
LEMMA ServerInvStep ==
  ASSUME TypeOK, D!TypeOK, ServerWaits, ServerInv, D!DiagnosticsAreOneReport, [ENext]_evars,
         AnswersInOrder
  PROVE  ServerInv'
<1>1. /\ FTypeOK /\ lsReads \in Seq(Reads) /\ Len(lsReads) \in Nat /\ lsPath \in Paths \cup {D!NoPath}
      /\ lsWatcher \subseteq Watchers /\ D!NoPath \notin Paths
  BY SameFiles, EditorAssumption DEF D!TypeOK
<1>2. CASE SNext /\ UNCHANGED lsvars
  BY <1>2, ServerSeesJobs
<1>3. CASE UNCHANGED evars
  <2>1. UNCHANGED vars /\ UNCHANGED lsvars
    BY <1>3 DEF evars
  <2> QED BY <2>1, ServerSeesJobs
<1>4. CASE StartServer
  <2>1. lsPath' = FirstPath /\ lsWatcher' = Watched(FirstPath) /\ lsDebounce' = TRUE /\ stamp' = stamp
    BY <1>4, SameFiles DEF StartServer, D!Initialize, D!fvars
  <2>2. stamp[FirstPath] \in Nat /\ FirstPath \in Paths
    BY <1>1, StoreAssumption DEF FTypeOK
  <2>3. ServerWatching'
    BY <2>1, <2>2, <1>1, WatchedFacts DEF ServerWatching
  <2> QED BY <2>1, <2>3 DEF ServerInv, ServerReadIsCurrent, ServerInStep
<1>5. CASE D!WatchEvent
  <2>1. PICK w \in lsWatcher : lsWatcher' = {Caught(w)}
    BY <1>5, SameFiles DEF D!WatchEvent
  <2>2. lsDebounce' = TRUE /\ lsPath' = lsPath /\ stamp' = stamp
    BY <1>5 DEF D!WatchEvent, D!fvars
  <2>3. w \in Watchers /\ w.path = lsPath /\ lsPath \in Paths
    BY <1>1 DEF ServerInv, ServerWatching
  <2>4. stamp[lsPath] \in Nat
    BY <2>3, <1>1 DEF FTypeOK
  <2>5. ServerWatching'
    BY <2>1, <2>2, <2>3, <2>4, <1>1, CaughtFacts DEF ServerWatching
  <2> QED BY <2>2, <2>5 DEF ServerInv, ServerReadIsCurrent, ServerInStep
<1>6. CASE D!TimerFires
  <2>1. /\ lsReads' = Append(lsReads, [path |-> lsPath, data |-> Unread])
        /\ UNCHANGED <<stamp, lsPath, lsWatcher>>
    BY <1>6, SameFiles DEF D!TimerFires, D!fvars
  <2>2. /\ Len(lsReads') = Len(lsReads) + 1
        /\ lsReads'[Len(lsReads) + 1] = [path |-> lsPath, data |-> Unread]
    BY <2>1, <1>1
  <2>3. lsReads' # <<>>
    BY <2>2, <1>1
  <2>4. ServerWatching'
    BY <2>1 DEF ServerInv, ServerWatching
  <2> QED BY <2>1, <2>2, <2>3, <2>4 DEF ServerInv, ServerReadIsCurrent
<1>7. ASSUME NEW k \in DOMAIN lsReads, D!ReadFile(k) PROVE ServerInv'
  <2>1. /\ lsReads' = [lsReads EXCEPT ![k].data = file[lsReads[k].path]]
        /\ UNCHANGED <<file, stamp, lsPath, lsWatcher, lsDebounce>>
    BY <1>7 DEF D!ReadFile, D!fvars
  <2>2. Len(lsReads') = Len(lsReads) /\ k \in 1..Len(lsReads) /\ lsReads # <<>> /\ lsReads' # <<>>
    BY <2>1, <1>1
  <2>3. /\ lsReads'[Len(lsReads)].path = lsReads[Len(lsReads)].path
        /\ \/ lsReads'[Len(lsReads)].data = lsReads[Len(lsReads)].data
           \/ lsReads'[Len(lsReads)].data = file[lsReads[Len(lsReads)].path]
    <3>1. lsReads[Len(lsReads)] \in Reads
      BY <2>2, <1>1
    <3> QED BY <3>1, <2>1, <2>2, <1>1 DEF Reads
  <2>4. ServerWatching' /\ (ServerInStep' => ServerInStep)
    BY <2>1 DEF ServerInv, ServerWatching, ServerInStep, Behind
  <2>5. ServerReadIsCurrent'
    BY <2>1, <2>2, <2>3, <2>4 DEF ServerInv, ServerReadIsCurrent
  <2> QED BY <2>4, <2>5 DEF ServerInv
<1>8. ASSUME NEW k \in DOMAIN lsReads, D!ReadAndPublish(k) PROVE ServerInv'
  <2>1. 1 \in DOMAIN lsReads /\ D!ReadAndPublish(1)
    BY <1>1, <1>8 DEF AnswersInOrder
  <2>2. /\ 1 \in 1..Len(lsReads) /\ lsReads # <<>> /\ lsReads' = RemoveAt(lsReads, 1)
        /\ lsReads' \in Seq(Reads) /\ Len(lsReads') = Len(lsReads) - 1
        /\ UNCHANGED <<fvars, lsPath, lsWatcher, lsDebounce>>
    <3>1. /\ 1 \in 1..Len(lsReads) /\ lsReads' = RemoveAt(lsReads, 1)
          /\ lsReads' \in Seq(Reads) /\ Len(lsReads') = Len(lsReads) - 1
          /\ UNCHANGED <<fvars, lsPath, lsWatcher, lsDebounce>>
      BY <1>1, <2>1, AnswerFacts, Zenon
    <3>2. lsReads # <<>>
      BY <3>1
    <3> QED BY <3>1, <3>2
  <2>3. diag' = D!Lists(Parsed(lsReads[1].path, lsReads[1].data)) /\ lsReads[1].data # Unread
    BY <2>1, AnswerPublishes, SameFiles DEF D!ReadAndPublish
  <2>4. \A j \in 1..(Len(lsReads) - 1) : lsReads'[j] = lsReads[j + 1]
    <3>1. \A j \in 1..(Len(lsReads) - 1) :
            RemoveAt(lsReads, 1)[j] = IF j < 1 THEN lsReads[j] ELSE lsReads[j + 1]
      BY <2>2, <1>1, RemoveAtFacts
    <3> QED BY <3>1, <2>2
  <2>5. ServerWatching' /\ (ServerInStep' => ServerInStep)
    BY <2>2 DEF ServerInv, ServerWatching, ServerInStep, Behind, fvars
  <2>6. ServerReadIsCurrent'
    <3>1. CASE Len(lsReads) = 1
      <4>1. lsReads' = <<>>
        BY <3>1, <2>2
      <4>2. ServerInStep => lsReads[1].path = lsPath /\ lsReads[1].data = file[lsPath]
        BY <3>1, <2>2, <2>3 DEF ServerInv, ServerReadIsCurrent
      <4>3. ServerInStep' => diag' = D!Lists(Parsed(lsPath, file[lsPath]))'
        <5>1. \A s : D!Lists(s)' = D!Lists(s)
          BY DEF D!Lists
        <5>2. Parsed(lsPath, file[lsPath])' = Parsed(lsPath, file[lsPath])
          BY <2>2 DEF Parsed, fvars
        <5> QED BY <4>2, <5>1, <5>2, <2>3, <2>5 DEF D!Lists
      <4> QED BY <4>1, <4>3 DEF ServerReadIsCurrent
    <3>2. CASE Len(lsReads) # 1
      <4>1. /\ lsReads' # <<>> /\ Len(lsReads') \in 1..(Len(lsReads) - 1)
            /\ lsReads'[Len(lsReads')] = lsReads[Len(lsReads)]
        BY <3>2, <2>2, <2>4, <1>1
      <4> QED BY <4>1, <2>2, <2>5 DEF ServerInv, ServerReadIsCurrent, fvars
    <3> QED BY <3>1, <3>2
  <2> QED BY <2>5, <2>6 DEF ServerInv
<1> QED BY <1>2, <1>3, <1>4, <1>5, <1>6, <1>7, <1>8 DEF ENext, ServerStep, D!Read

\* As long as the server's reads are answered in the order in which they were
\* started, the squiggles are those of the report in the file when nothing is
\* due in the server any more, for any number of reads under way.
THEOREM SquigglesCurrentInOrder == ESpec /\ [][AnswersInOrder]_evars => []SquigglesAreCurrent
<1>1. EInit => ServerInv
  BY DEF EInit, D!DInit, ServerInv, ServerWatching, ServerReadIsCurrent, ServerInStep
<1>2. /\ TypeOK /\ D!TypeOK /\ ServerWaits /\ SquigglesAreOneReport /\ ServerInv
      /\ [ENext]_evars /\ [AnswersInOrder]_evars
      => ServerInv'
  <2>1. CASE UNCHANGED evars
    <3>1. ASSUME TypeOK, D!TypeOK, ServerInv PROVE ServerInv'
      <4>1. UNCHANGED vars /\ UNCHANGED lsvars
        BY <2>1 DEF evars
      <4> QED BY <4>1, <3>1, ServerSeesJobs
    <3> QED BY <3>1
  <2> QED BY <2>1, ServerInvStep DEF SquigglesAreOneReport
<1>3. ServerInv => SquigglesAreCurrent
  <2> SUFFICES ASSUME ServerInv, D!Settled, lsWatcher # {}
               PROVE  diag = D!Lists(D!Parsed(lsPath, file[lsPath]))
    BY DEF SquigglesAreCurrent, D!SettledIsCurrent
  <2>1. ServerInStep /\ lsReads = <<>>
    BY SameFiles DEF D!Settled, ServerInStep
  <2>2. D!Parsed(lsPath, file[lsPath]) = Parsed(lsPath, file[lsPath])
    BY DEF D!Parsed, Parsed
  <2> QED BY <2>1, <2>2 DEF ServerInv, ServerReadIsCurrent
<1> QED BY <1>1, <1>2, <1>3, EditorStore, StoreTypeCorrect, ServerTypes, SquigglesOneReport, PTL DEF ESpec

\* One read at a time is answered in order: when the server's timer never fires
\* before the read that it started last has been answered, its squiggles are
\* those of the report in the file when nothing is due any more.
THEOREM SquigglesCurrent ==
  ASSUME MaxReads = 1
  PROVE  ESpec => []SquigglesAreCurrent
<1>1. D!TypeOK => AnswersInOrder
  <2> SUFFICES ASSUME D!TypeOK PROVE AnswersInOrder
    OBVIOUS
  <2>1. \A k \in DOMAIN lsReads : k = 1
    BY DEF D!TypeOK
  <2> QED BY <2>1 DEF AnswersInOrder
<1>2. D!TypeOK => [AnswersInOrder]_evars
  BY <1>1
<1> QED BY <1>2, ServerTypes, SquigglesCurrentInOrder, PTL

\* What the three views show is the report in the file, so they agree: when the
\* store and the server have one path and one root and each reads one file at a
\* time, and nothing is due in either, the squiggles, the lenses and the
\* dashboard are of one report.
THEOREM ViewsAgreeWhenSettled ==
  ASSUME MaxReads = 1
  PROVE  ESpec => []ViewsAgree
<1>1. SettledIsCurrent /\ PanelIsCurrent /\ SquigglesAreCurrent => ViewsAgree
  <2> SUFFICES ASSUME SettledIsCurrent, PanelIsCurrent, SquigglesAreCurrent, EditorSettled,
                      reportPath = lsPath, root = FirstRoot
               PROVE  diag = Lenses /\ \A shown \in panel : diag = D!Lists(shown)
    BY DEF ViewsAgree
  <2>1. report = Parsed(reportPath, file[reportPath])
    BY DEF SettledIsCurrent, EditorSettled
  <2>2. diag = D!Lists(D!Parsed(lsPath, file[lsPath]))
    BY DEF SquigglesAreCurrent, D!SettledIsCurrent, EditorSettled
  <2>3. D!Parsed(lsPath, file[lsPath]) = report
    BY <2>1 DEF D!Parsed, Parsed
  <2>4. diag = Lenses
    BY <2>2, <2>3 DEF Lenses, D!Lists
  <2> QED BY <2>2, <2>3, <2>4 DEF PanelIsCurrent
<1> QED BY <1>1, EditorStore, StoreCurrent, PanelCurrent, SquigglesCurrent, PTL
=============================================================================
