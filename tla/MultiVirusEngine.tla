--------------------------- MODULE MultiVirusEngine ---------------------------
(***************************************************************************)
(* A scan as ScanEngine/multivirusengine.cpp runs it: Start creates the    *)
(* workers of ScanThreadVari, a thread that counts the files and a thread  *)
(* that walks the directories (countfilevari.cpp) and deals every file to  *)
(* a worker; each thread reports its end by setting its bit in             *)
(* mScanStopStatue, and the thread that completes the bits tells the       *)
(* observer ALL_FINISHED.  Stop may come at any time from another thread.  *)
(*                                                                         *)
(* Left out: Pause and Continue, whose bodies begin with `return', hence   *)
(* the PAUSE states; the cloud engine, which Start no longer creates.  The *)
(* report thread, SetScanDynamicStatus and a Start whose worker creation   *)
(* fails are in EngineControl.                                             *)
(***************************************************************************)
EXTENDS ScanThreadVari, Sequences, Functions

CONSTANTS
  Trees,      \* what a walk can meet: sequences of different files
  MaxJobs,    \* bound: how many times Start is called
  MaxStops    \* bound: how many times Stop is called

ASSUME EngineAssumption ==
  /\ Trees \subseteq { t \in Seq(Files) : IsInjective(t) }
  /\ MaxJobs \in Nat /\ MaxStops \in Nat

VARIABLES
  engineStatus,      \* MultiVirusEngine::mStatus
  mScanStopStatue,   \* the set of the bits that are 1
  mScanStatusMutex,  \* who holds it
  virusCount,        \* mReportData.mVirusCount
  tree,              \* the files of the current job
  wkpc, wkpos, wki,  \* the walker: program counter, file, worker it tries
  wkStatus,          \* CountFileVari::mStatus of the walker
  ctpc,              \* the counting thread
  clpc, clk,         \* the thread that calls Start
  upc, upk,          \* the thread that calls Stop
  finished,          \* ALL_FINISHED events of the current job
  job, stops         \* Start and Stop calls so far

engVars  == <<engineStatus, mScanStopStatue, virusCount, finished>>
walkVars == <<wkpc, wkpos, wki, wkStatus>>
callVars == <<clpc, clk, upc, upk, job, stops, tree>>
vars     == <<stvVars, engVars, mScanStatusMutex, walkVars, ctpc, callVars>>

\* The bits of mScanStopStatue: 0 the count, 1 the walk, w + 2 worker w.
CountBit   == 0
WalkBit    == 1
ExitBit(w) == w + 2
mScanExitFlag == {CountBit, WalkBit} \cup { ExitBit(w) : w \in Workers }

EngineTypeOK ==
  /\ TypeOK
  /\ engineStatus \in {"INIT", "START", "STOP"}
  /\ mScanStopStatue \in SUBSET mScanExitFlag
  /\ mScanStatusMutex \in {"free", "start", "walker"}
  /\ virusCount \in Nat
  /\ tree \in Trees \cup {<<>>}
  /\ wkpc \in {"none", "begin", "next", "deal", "try", "call", "leave", "last", "gone"}
  /\ wkpos \in Nat \ {0}
  /\ wki \in 0 .. ThreadCount
  /\ wkStatus \in {"INIT", "SCANING", "STOP"}
  /\ ctpc \in {"none", "begin", "gone"}
  /\ clpc \in {"idle", "lock", "release", "join", "create", "unlock"}
  /\ clk \in 0 .. ThreadCount
  /\ upc \in {"idle", "walk", "stop"}
  /\ upk \in 0 .. ThreadCount
  /\ finished \in Nat
  /\ job \in 0 .. MaxJobs
  /\ stops \in 0 .. MaxStops

EngineInit ==
  /\ Init
  /\ engineStatus = "INIT" /\ mScanStopStatue = {} /\ virusCount = 0 /\ finished = 0
  /\ mScanStatusMutex = "free"
  /\ wkpc = "none" /\ wkpos = 1 /\ wki = 0 /\ wkStatus = "INIT"
  /\ ctpc = "none"
  /\ clpc = "idle" /\ clk = 0 /\ upc = "idle" /\ upk = 0
  /\ job = 0 /\ stops = 0 /\ tree = <<>>

-----------------------------------------------------------------------------
(* OnVirusEvent: the end of a thread, under mScanExitMutex.                *)

\* Mutants: the count's bit is not waited for; the workers' are not.
EndsWhen(bit, complete) ==
  /\ mScanStopStatue' = mScanStopStatue \cup {bit}
  /\ IF complete
     THEN engineStatus' = "STOP" /\ finished' = finished + 1
     ELSE UNCHANGED <<engineStatus, finished>>
  /\ UNCHANGED virusCount
EndsWithoutCount(bit, early) ==
  EndsWhen(bit, early \/ mScanExitFlag \subseteq (mScanStopStatue \cup {bit, CountBit}))
EndsWithoutWorkers(bit, early) ==
  EndsWhen(bit, early \/ {CountBit, WalkBit} \subseteq (mScanStopStatue \cup {bit}))

\* Sets a bit; when the bits are complete, or `early' says so, the status
\* becomes STOP (NotifyScanFinished) and the observer gets ALL_FINISHED.
ThreadEnds(bit, early) ==
  /\ mScanStopStatue' = mScanStopStatue \cup {bit}
  /\ IF mScanStopStatue' = mScanExitFlag \/ early
     THEN engineStatus' = "STOP" /\ finished' = finished + 1
     ELSE UNCHANGED <<engineStatus, finished>>
  /\ UNCHANGED virusCount

\* The walker holds mScanExitMutex while it tells the workers.
ScanExitMutexFree == wkpc # "last"

CountFinish ==
  /\ ctpc = "begin" /\ ScanExitMutexFree
  /\ ctpc' = "gone"
  /\ ThreadEnds(CountBit, FALSE)
  /\ UNCHANGED <<stvVars, mScanStatusMutex, walkVars, callVars>>

\* JUDGE_EXIT of worker w.
WorkerExit(w) ==
  /\ JudgeExit(w) /\ ScanExitMutexFree
  /\ ThreadEnds(ExitBit(w), FALSE)
  /\ UNCHANGED <<mScanStatusMutex, walkVars, ctpc, callVars>>

\* Mutant: only the reporting worker's viruses are counted.
WorkerReportOwn(w) ==
  /\ Report(w)
  /\ virusCount' = mVirusCount[w]
  /\ UNCHANGED <<engineStatus, mScanStopStatue, finished, mScanStatusMutex, walkVars, ctpc, callVars>>

\* JUDGE_DANGE: under mReportMutex the counts of all workers are added up.
WorkerReport(w) ==
  /\ Report(w)
  /\ virusCount' = SumFunction(mVirusCount)
  /\ UNCHANGED <<engineStatus, mScanStopStatue, finished, mScanStatusMutex, walkVars, ctpc, callVars>>

-----------------------------------------------------------------------------
(* The walker: ThreadWork and CountFile, with DealFile.                    *)

\* SCAN_START clears the counters; the status overwrites an earlier STOP.
WalkBegin ==
  /\ wkpc = "begin"
  /\ wkpc' = "next"
  /\ wkStatus' = "SCANING"
  /\ virusCount' = 0
  /\ UNCHANGED <<stvVars, engineStatus, mScanStopStatue, finished, mScanStatusMutex,
                 wkpos, wki, ctpc, callVars>>

MoreFiles == wkStatus # "STOP" /\ wkpos <= Len(tree)

\* FILE_PATH is ignored unless the engine's status is START.
WalkFile ==
  /\ wkpc = "next" /\ MoreFiles
  /\ IF engineStatus = "START"
     THEN wkpc' = "deal" /\ UNCHANGED wkpos
     ELSE wkpos' = wkpos + 1 /\ UNCHANGED wkpc
  /\ UNCHANGED <<stvVars, engVars, mScanStatusMutex, wki, wkStatus, ctpc, callVars>>

\* DealFile spins on trylock while the status is START, and goes on without
\* the mutex when it is not.
DealLock ==
  /\ wkpc = "deal"
  /\ \/ /\ engineStatus = "START" /\ mScanStatusMutex = "free"
        /\ mScanStatusMutex' = "walker"
     \/ /\ engineStatus # "START"
        /\ UNCHANGED mScanStatusMutex
  /\ wkpc' = "try" /\ wki' = 0
  /\ UNCHANGED <<stvVars, engVars, wkpos, wkStatus, ctpc, callVars>>

\* Append on worker wki: refused, or entered.
DealTry ==
  /\ wkpc = "try" /\ wki < ThreadCount
  /\ \/ AppendRefused(wki) /\ wki' = wki + 1 /\ UNCHANGED wkpc
     \/ AppendEnter(wki) /\ wkpc' = "call" /\ UNCHANGED wki
  /\ UNCHANGED <<engVars, mScanStatusMutex, wkpos, wkStatus, ctpc, callVars>>

\* Inside Append: false sends the walker to the next worker, true ends DealFile.
DealCall ==
  /\ wkpc = "call"
  /\ \/ (AppendBusy \/ AppendNoRoom) /\ wkpc' = "try" /\ wki' = wki + 1
     \/ (AppendPath(tree[wkpos]) \/ AppendMark) /\ UNCHANGED <<wkpc, wki>>
     \/ AppendDone /\ wkpc' = "leave" /\ UNCHANGED wki
  /\ UNCHANGED <<engVars, mScanStatusMutex, wkpos, wkStatus, ctpc, callVars>>

\* No worker took the file: give up if the status has changed, else try again.
DealAgain ==
  /\ wkpc = "try" /\ wki = ThreadCount
  /\ IF engineStatus # "START"
     THEN wkpc' = "leave" /\ UNCHANGED wki
     ELSE wki' = 0 /\ UNCHANGED wkpc
  /\ UNCHANGED <<stvVars, engVars, mScanStatusMutex, wkpos, wkStatus, ctpc, callVars>>

\* The mutex is unlocked whether or not the walker holds it.
DealLeave ==
  /\ wkpc = "leave"
  /\ mScanStatusMutex' = "free"
  /\ wkpc' = "next" /\ wkpos' = wkpos + 1
  /\ UNCHANGED <<stvVars, engVars, wki, wkStatus, ctpc, callVars>>

\* SCAN_FINISH, under mScanExitMutex: Last on worker after worker ...
WalkOver ==
  /\ wkpc = "next" /\ ~ MoreFiles
  /\ wkpc' = "last" /\ wki' = 0
  /\ UNCHANGED <<stvVars, engVars, mScanStatusMutex, wkpos, wkStatus, ctpc, callVars>>

WalkLast ==
  /\ wkpc = "last" /\ wki < ThreadCount
  /\ Last(wki)
  /\ wki' = wki + 1
  /\ UNCHANGED <<engVars, mScanStatusMutex, wkpc, wkpos, wkStatus, ctpc, callVars>>

\* Mutant: the last worker is not told.
WalkFinishOneShort ==
  /\ wkpc = "last" /\ wki = ThreadCount - 1
  /\ wkpc' = "gone"
  /\ ThreadEnds(WalkBit, wkpos = 1)
  /\ UNCHANGED <<stvVars, mScanStatusMutex, wkpos, wki, wkStatus, ctpc, callVars>>

\* ... then the bit; a walk that counted no file finishes the scan at once.
WalkFinish ==
  /\ wkpc = "last" /\ wki = ThreadCount
  /\ wkpc' = "gone"
  /\ ThreadEnds(WalkBit, wkpos = 1)
  /\ UNCHANGED <<stvVars, mScanStatusMutex, wkpos, wki, wkStatus, ctpc, callVars>>

Walker ==
  \/ WalkBegin \/ WalkFile \/ DealLock \/ DealTry \/ DealCall \/ DealAgain \/ DealLeave
  \/ WalkOver \/ WalkLast \/ WalkFinish

-----------------------------------------------------------------------------
(* Start, called by one thread, which waits for ALL_FINISHED in between.   *)

\* Mutant: the next job is started without waiting for the end of the last.
StartCallAtOnce ==
  /\ clpc = "idle" /\ job < MaxJobs
  /\ clpc' = "lock"
  /\ UNCHANGED <<stvVars, engVars, mScanStatusMutex, walkVars, ctpc, clk, upc, upk, job, stops, tree>>

\* The caller's protocol: the next Start comes after an ALL_FINISHED and not
\* in the middle of a Stop (the task thread sleeps a second in between).
StartCall ==
  /\ clpc = "idle" /\ job < MaxJobs
  /\ job = 0 \/ finished > 0
  /\ upc = "idle"
  /\ clpc' = "lock"
  /\ UNCHANGED <<stvVars, engVars, mScanStatusMutex, walkVars, ctpc, clk, upc, upk, job, stops, tree>>

StartLock ==
  /\ clpc = "lock" /\ mScanStatusMutex = "free"
  /\ mScanStatusMutex' = "start"
  /\ engineStatus' = "STOP"
  /\ clpc' = IF job = 0 THEN "create" ELSE "release"
  /\ clk' = 0
  /\ UNCHANGED <<stvVars, mScanStopStatue, virusCount, finished, walkVars, ctpc, upc, upk, job, stops, tree>>

\* Release deletes worker after worker: the destructor stops the thread ...
ReleaseStop ==
  /\ clpc = "release" /\ clk < ThreadCount
  /\ Stop(clk)
  /\ clpc' = "join"
  /\ UNCHANGED <<engVars, mScanStatusMutex, walkVars, ctpc, clk, upc, upk, job, stops, tree>>

\* ... and joins it.
ReleaseJoin ==
  /\ clpc = "join" /\ wpc[clk] = "gone"
  /\ clpc' = "release" /\ clk' = clk + 1
  /\ UNCHANGED <<stvVars, engVars, mScanStatusMutex, walkVars, ctpc, upc, upk, job, stops, tree>>

\* Then the walker and the counting thread.
ReleaseWalk ==
  /\ clpc = "release" /\ clk = ThreadCount
  /\ wkStatus' = "STOP"
  /\ clpc' = "create"
  /\ UNCHANGED <<stvVars, engVars, mScanStatusMutex, wkpc, wkpos, wki, ctpc, clk, upc, upk, job, stops, tree>>

StartCreate ==
  /\ clpc = "create"
  /\ wkpc \in {"none", "gone"} /\ ctpc \in {"none", "gone"}
  /\ NewWorkers
  /\ tree' \in Trees
  /\ engineStatus' = "START" /\ mScanStopStatue' = {} /\ finished' = 0
  /\ wkpc' = "begin" /\ wkpos' = 1 /\ wki' = 0 /\ wkStatus' = "INIT"
  /\ ctpc' = "begin"
  /\ clpc' = "unlock" /\ job' = job + 1
  /\ UNCHANGED <<virusCount, mScanStatusMutex, clk, upc, upk, stops>>

StartUnlock ==
  /\ clpc = "unlock"
  /\ mScanStatusMutex' = "free"
  /\ clpc' = "idle"
  /\ UNCHANGED <<stvVars, engVars, walkVars, ctpc, clk, upc, upk, job, stops, tree>>

Starter == StartLock \/ ReleaseStop \/ ReleaseJoin \/ ReleaseWalk \/ StartCreate \/ StartUnlock

-----------------------------------------------------------------------------
(* Stop, called by another thread once the workers exist.                  *)

\* NotifyScanFinished: the engine's status first ...
StopCall ==
  /\ upc = "idle" /\ stops < MaxStops
  /\ job > 0 /\ clpc \in {"idle", "unlock"}
  /\ engineStatus' = "STOP"
  /\ upc' = "walk" /\ upk' = 0 /\ stops' = stops + 1
  /\ UNCHANGED <<stvVars, mScanStopStatue, virusCount, finished, mScanStatusMutex, walkVars,
                 ctpc, clpc, clk, job, tree>>

\* ... then the walker's ...
StopWalk ==
  /\ upc = "walk"
  /\ wkStatus' = "STOP"
  /\ upc' = "stop"
  /\ UNCHANGED <<stvVars, engVars, mScanStatusMutex, wkpc, wkpos, wki, ctpc,
                 clpc, clk, upk, job, stops, tree>>

\* ... then Stop on worker after worker.
StopWorker ==
  /\ upc = "stop"
  /\ \/ upk < ThreadCount /\ Stop(upk) /\ upk' = upk + 1 /\ UNCHANGED upc
     \/ upk = ThreadCount /\ upc' = "idle" /\ UNCHANGED <<stvVars, upk>>
  /\ UNCHANGED <<engVars, mScanStatusMutex, walkVars, ctpc, clpc, clk, job, stops, tree>>

-----------------------------------------------------------------------------
WorkerStep(w) == WorkStep(w) /\ UNCHANGED <<engVars, mScanStatusMutex, walkVars, ctpc, callVars>>
WorkerSpurious(w) == SpuriousWake(w) /\ UNCHANGED <<engVars, mScanStatusMutex, walkVars, ctpc, callVars>>

EngineNext ==
  \/ \E w \in Workers : WorkerStep(w) \/ WorkerSpurious(w) \/ WorkerReport(w) \/ WorkerExit(w)
  \/ Walker \/ CountFinish
  \/ StartCall \/ Starter
  \/ StopCall \/ StopWalk \/ StopWorker

EngineSpec == EngineInit /\ [][EngineNext]_vars

\* Every thread goes on when it can; a worker that wants its mutex gets it at
\* last, because the walker sleeps 100 ms between its attempts.  Nothing makes
\* anybody call Start or Stop, or a wait return without a signal.
Fairness ==
  /\ \A w \in Workers : /\ WF_vars(WorkerStep(w) \/ WorkerReport(w) \/ WorkerExit(w))
                        /\ SF_vars(FullScanLock(w) /\ UNCHANGED <<engVars, mScanStatusMutex, walkVars, ctpc, callVars>>)
  /\ WF_vars(Walker) /\ WF_vars(CountFinish) /\ WF_vars(Starter) /\ WF_vars(StopWalk \/ StopWorker)

FairEngineSpec == EngineSpec /\ Fairness

-----------------------------------------------------------------------------
(* Properties.                                                             *)

\* The comment on mScanStopStatue: when the bits are complete "all thread exit,
\* the scan finished".  Here: after ALL_FINISHED no thread of the job is
\* left, if the walk met a file; that of an empty walk comes with every worker there.
FinishedMeansAllExitedIfAnyFile ==
  (finished > 0 /\ wkpos > 1) =>
    wkpc = "gone" /\ ctpc = "gone" /\ \A w \in Workers : wpc[w] = "gone"

\* The observer hears of the end of a job that met a file once.
FinishedOnceIfAnyFile == wkpos > 1 => finished <= 1

\* What ALL_FINISHED promises when nobody called Stop: every file the walk met
\* was judged once, and the report counts exactly the infected ones.
FinishedMeansJudged ==
  (finished > 0 /\ stopped = {} /\ stops = 0) =>
    \A i \in 1 .. Len(tree) : judged[tree[i]] = 1
ReportComplete ==
  (finished > 0 /\ wkpos > 1 /\ clpc = "idle") =>
    virusCount = Cardinality({ f \in Infected : judged[f] > 0 })

\* ALL_FINISHED is the end of a job: announced once, after the last thread, with
\* every file judged ...
EndSafety == FinishedMeansAllExitedIfAnyFile /\ FinishedOnceIfAnyFile /\ FinishedMeansJudged

\* ... and with the report complete.
ReportSafety == EngineTypeOK /\ ReportComplete

\* Release deletes the workers before it joins the walker: the walker must not
\* be in the middle of handing a file to one of them.
NoDealDuringRelease == clpc \in {"release", "join", "create"} => wkpc \in {"none", "gone"}

\* A walker that has begun comes to its end although the workers can sleep
\* through the signal of a full pool: Append signals a full pool again.
WalkEnds == wkpc = "begin" ~> wkpc = "gone"

\* A worker sleeps and nobody will signal it: it tested its flags before Last
\* or Stop set them and began to wait after the signal.
Missed(w) == wpc[w] = "asleep" /\ (mLastRound[w] \/ mFinished[w])

\* A worker stopped before its thread ran drains its pool while the walker
\* fills it: an entry consumed between its path and its mark stays prepared
\* with an empty path, and `while (!Empty())' goes round for ever.
Torn(w) == w \in stopped /\ wpc[w] \in Scanning /\ \E i \in prepared[w] : file[w][i] = NoFile

\* Last: "it mean the pool is the last file, scan finish, then can exit the
\* thread" (the comment in scanthreadvari.h).  These two are all that can keep
\* a job from its end, with or without Stop.
EndOrStuck ==
  wkpc = "begin" ~> (finished > 0 \/ \E w \in Workers : Missed(w) \/ Torn(w))

-----------------------------------------------------------------------------
\* The engine implements ScanJob: the end of the bits, of the queues and of the
\* threads is the end of one job as its observer sees it.
SJ == INSTANCE ScanJob WITH
        phase  <- IF job = 0 THEN "idle" ELSE IF finished = 0 THEN "running" ELSE "ended",
        handed <- accepted,
        done   <- { f \in Files : judged[f] > 0 },
        halted <- stopped # {}
ImplementsScanJob == SJ!Spec
=============================================================================
