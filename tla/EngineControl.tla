---------------------------- MODULE EngineControl ----------------------------
(***************************************************************************)
(* The workers of ScanEngine/multivirusengine.cpp as they are created,     *)
(* added, taken away and deleted while a scan runs: Start with Release,    *)
(* SetScanDynamicStatus (a user's INTELLIGENT_SCAN command), Stop and the  *)
(* report thread, with every creation that may fail.                       *)
(*                                                                         *)
(* A worker is its life and the files in its pool; how it waits and wakes  *)
(* is in ScanThreadVari, and no signal is missed here.  Each of Start,     *)
(* SetScanDynamicStatus and Stop runs in a thread of its own: the task     *)
(* thread, the listener, and the listener or the USB thread.  A thread     *)
(* that uses a worker that is not there has no defined outcome: `wild'     *)
(* notes who it was, and the model stops.                                  *)
(***************************************************************************)
EXTENDS Integers, FiniteSets

CONSTANTS
  MaxThreads,    \* workers, up to 4 in the code
  MaxFiles,      \* bound: files of a walk
  PoolSize,      \* files a worker collects, MAX_FILE_POOL
  CreateFails,   \* creating a worker may fail
  MaxJobs, MaxResizes, MaxStops,  \* bounds: calls
  ResizeAndStop  \* bound: both SetScanDynamicStatus and Stop may be called

ASSUME ControlConstants ==
  /\ MaxThreads \in Nat \ {0} /\ MaxFiles \in Nat \ {0} /\ PoolSize \in Nat \ {0}
  /\ CreateFails \in BOOLEAN
  /\ MaxJobs \in Nat /\ MaxResizes \in Nat /\ MaxStops \in Nat
  /\ ResizeAndStop \in BOOLEAN

Tags == 0 .. MaxThreads - 1

VARIABLES
  status,        \* mStatus
  count,         \* mScanThreadCount
  len,           \* the size of mScanThreadVari
  life, pool,    \* of the workers
  told, stopped, \* workers that got Last and Stop
  bits, flag,    \* mScanStopStatue and mScanExitFlag, as sets of bits
  mutex,         \* who holds mScanStatusMutex
  wkpc, wki, wkpos, wkStop,   \* the walker
  ctpc,          \* the counting thread
  clpc, clk, cln,             \* the thread that calls Start
  rspc, rsk, rsn, rso,        \* the thread that calls SetScanDynamicStatus
  uppc, upk,     \* the thread that calls Stop
  sleeping, using,            \* report threads, asleep and with mReportSummary
  size, judged, dropped,      \* files: of the walk, scanned, lost with a worker
  added,         \* history: workers that SetScanDynamicStatus created for the job
  finished,      \* ALL_FINISHED events of the job
  job, resizes, stops,        \* calls so far
  wild           \* who used a worker that was not there

workers == <<len, life, pool, told, stopped>>
ends == <<status, bits, finished>>
walker == <<wkpc, wki, wkpos, wkStop>>
starter == <<clpc, clk, cln, job, size>>
resizer == <<rspc, rsk, rsn, rso, resizes>>
stopper == <<uppc, upk, stops>>
reports == <<sleeping, using>>
files == <<judged, dropped, added>>
vars == <<count, workers, ends, flag, mutex, walker, ctpc, starter, resizer, stopper,
          reports, files, wild>>

Init ==
  /\ status = "INIT" /\ count = 0 /\ len = 0
  /\ life = [w \in Tags |-> "none"] /\ pool = [w \in Tags |-> {}]
  /\ told = {} /\ stopped = {} /\ bits = {} /\ flag = {} /\ mutex = "free"
  /\ wkpc = "none" /\ wki = 0 /\ wkpos = 1 /\ wkStop = FALSE /\ ctpc = "none"
  /\ clpc = "idle" /\ clk = 0 /\ cln = 0
  /\ rspc = "idle" /\ rsk = 0 /\ rsn = 0 /\ rso = 0
  /\ uppc = "idle" /\ upk = 0
  /\ sleeping = 0 /\ using = 0
  /\ size = 0 /\ judged = {} /\ dropped = {} /\ added = {}
  /\ finished = 0 /\ job = 0 /\ resizes = 0 /\ stops = 0 /\ wild = {}

Alive == {"wait", "scan", "drain", "report", "gone"}

\* mScanThreadVari[i] is a worker; after Release it is NULL, after a shrink a
\* pointer to what was one.
There(i) == i < len /\ life[i] \in Alive
AllThere == \A i \in 0 .. count - 1 : There(i)

Bits(n) == {0, 1} \cup {i + 2 : i \in 0 .. n - 1}

(***************************************************************************)
(* OnVirusEvent: a thread ends, under mScanExitMutex.                      *)
(***************************************************************************)
\* The walker holds it while it tells the workers.
ScanExitMutexFree == wkpc # "last"

\* finish_mask is made from mScanThreadCount, whatever it is now; a walk that
\* met no file is over at once.
ThreadEnds(bit) ==
  /\ bits' = bits \cup {bit}
  /\ IF bits' \cap Bits(count) = flag \/ (bit = 1 /\ wkpos = 1)
     THEN status' = "STOP" /\ finished' = finished + 1
     ELSE UNCHANGED <<status, finished>>

CountFinish ==
  /\ wild = {} /\ ctpc = "begin" /\ ScanExitMutexFree /\ ctpc' = "gone" /\ ThreadEnds(0)
  /\ UNCHANGED <<count, workers, flag, mutex, walker, starter, resizer, stopper,
                 reports, files, wild>>

(***************************************************************************)
(* A worker.                                                               *)
(***************************************************************************)
\* In all actions: what they leave alone, and that nothing wild has happened.
WorkerSame == wild = {} /\ UNCHANGED <<count, len, told, stopped, flag, mutex, walker, ctpc, starter,
                          resizer, stopper, reports, dropped, added>>
Becomes(w, l) == life' = [life EXCEPT ![w] = l]
Full(w) == Cardinality(pool[w]) = PoolSize

\* Mutant: the rest of the pool is not scanned.
MoveNoDrain(w) ==
  /\ \/ life[w] = "wait" /\ w \notin stopped /\ Full(w) /\ Becomes(w, "scan")
     \/ life[w] = "scan" /\ pool[w] = {} /\ Becomes(w, "wait")
     \/ life[w] = "wait" /\ w \in told /\ Becomes(w, "report")
     \/ life[w] \in {"wait", "scan"} /\ w \in stopped /\ Becomes(w, "report")
  /\ UNCHANGED <<pool, ends, judged, wild>> /\ WorkerSame

\* Full: scan all; Last: scan the rest and end; Stop: end.
Move(w) ==
  /\ \/ life[w] = "wait" /\ w \notin stopped /\ Full(w) /\ Becomes(w, "scan")
     \/ life[w] = "scan" /\ pool[w] = {} /\ Becomes(w, "wait")
     \/ life[w] = "wait" /\ w \in told /\ w \notin stopped /\ ~Full(w) /\ Becomes(w, "drain")
     \/ life[w] = "drain" /\ pool[w] = {} /\ Becomes(w, "report")
     \/ life[w] \in {"wait", "scan"} /\ w \in stopped /\ Becomes(w, "report")
  /\ UNCHANGED <<pool, ends, judged, wild>> /\ WorkerSame

\* The engine adds up the counts of all workers (JUDGE_START, JUDGE_DANGE).
Judge(w) ==
  /\ life[w] = "drain" \/ (life[w] = "scan" /\ w \notin stopped)
  /\ \E f \in pool[w] :
       /\ pool' = [pool EXCEPT ![w] = @ \ {f}] /\ judged' = judged \cup {f}
  /\ wild' = wild \cup {h \in {"judge"} : ~AllThere}
  /\ UNCHANGED <<life, ends>> /\ WorkerSame

\* JUDGE_EXIT.
Exit(w) ==
  /\ life[w] = "report" /\ ScanExitMutexFree /\ Becomes(w, "gone") /\ ThreadEnds(w + 2)
  /\ UNCHANGED <<pool, judged, wild>> /\ WorkerSame

(***************************************************************************)
(* The walker: FILE_PATH with DealFile, and SCAN_FINISH.                   *)
(***************************************************************************)
WalkerSame == wild = {} /\ UNCHANGED <<count, len, life, stopped, flag, wkStop, ctpc, starter, resizer,
                          stopper, reports, files>>

\* The thread begins: a Stop before that is overwritten.
WalkBegin ==
  /\ wild = {} /\ wkpc = "begin" /\ wkpc' = "next" /\ wkStop' = FALSE
  /\ UNCHANGED <<count, workers, ends, flag, mutex, wki, wkpos, ctpc, starter, resizer,
                 stopper, reports, files, wild>>

WalkFile ==
  /\ wkpc = "next" /\ ~wkStop /\ wkpos <= size
  /\ IF status = "START" THEN wkpc' = "deal" /\ UNCHANGED wkpos
     ELSE wkpos' = wkpos + 1 /\ UNCHANGED wkpc
  /\ UNCHANGED <<pool, told, ends, mutex, wki, wild>> /\ WalkerSame

\* Mutant: the walker does not wait for mScanStatusMutex.
DealNoLock ==
  /\ wkpc = "deal" /\ UNCHANGED mutex
  /\ wkpc' = "try" /\ wki' = 0
  /\ UNCHANGED <<pool, told, ends, wkpos, wild>> /\ WalkerSame

\* Spins on trylock while the status is START, then goes on anyhow.
DealLock ==
  /\ wkpc = "deal"
  /\ \/ status = "START" /\ mutex = "free" /\ mutex' = "walker"
     \/ status # "START" /\ UNCHANGED mutex
  /\ wkpc' = "try" /\ wki' = 0
  /\ UNCHANGED <<pool, told, ends, wkpos, wild>> /\ WalkerSame

\* Append on worker wki.
DealTry ==
  /\ wkpc = "try" /\ wki < count
  /\ \/ /\ ~There(wki) /\ wild' = wild \cup {"deal"} /\ UNCHANGED <<pool, wki, wkpc>>
     \/ /\ There(wki) /\ life[wki] = "wait" /\ wki \notin stopped /\ ~Full(wki)
        /\ pool' = [pool EXCEPT ![wki] = @ \cup {wkpos}]
        /\ wkpc' = "leave" /\ UNCHANGED <<wki, wild>>
     \/ /\ There(wki) /\ (life[wki] # "wait" \/ wki \in stopped \/ Full(wki))
        /\ wki' = wki + 1 /\ UNCHANGED <<pool, wkpc, wild>>
  /\ UNCHANGED <<told, ends, mutex, wkpos>> /\ WalkerSame

DealAgain ==
  /\ wkpc = "try" /\ wki >= count
  /\ IF status # "START" THEN wkpc' = "leave" /\ UNCHANGED wki
     ELSE wki' = 0 /\ UNCHANGED wkpc
  /\ UNCHANGED <<pool, told, ends, mutex, wkpos, wild>> /\ WalkerSame

\* Unlocks the mutex, whoever holds it.
DealLeave ==
  /\ wkpc = "leave" /\ mutex' = "free" /\ wkpc' = "next" /\ wkpos' = wkpos + 1
  /\ UNCHANGED <<pool, told, ends, wki, wild>> /\ WalkerSame

\* SCAN_FINISH takes mScanExitMutex and not mScanStatusMutex.
WalkOver ==
  /\ wkpc = "next" /\ (wkStop \/ wkpos > size) /\ wkpc' = "last" /\ wki' = 0
  /\ UNCHANGED <<pool, told, ends, mutex, wkpos, wild>> /\ WalkerSame

WalkLast ==
  /\ wkpc = "last" /\ wki < count
  /\ \/ ~There(wki) /\ wild' = wild \cup {"last"} /\ UNCHANGED <<told, wki>>
     \/ There(wki) /\ told' = told \cup {wki} /\ wki' = wki + 1 /\ UNCHANGED wild
  /\ UNCHANGED <<pool, ends, mutex, wkpos, wkpc>> /\ WalkerSame

\* Mutant: the last worker is not told.
WalkFinishOneShort ==
  /\ wkpc = "last" /\ wki >= count - 1 /\ wkpc' = "gone" /\ ThreadEnds(1)
  /\ UNCHANGED <<pool, told, mutex, wki, wkpos, wild>> /\ WalkerSame

WalkFinish ==
  /\ wkpc = "last" /\ wki >= count /\ wkpc' = "gone" /\ ThreadEnds(1)
  /\ UNCHANGED <<pool, told, mutex, wki, wkpos, wild>> /\ WalkerSame

Walker ==
  \/ WalkBegin \/ WalkFile \/ DealLock \/ DealTry \/ DealAgain \/ DealLeave
  \/ WalkOver \/ WalkLast \/ WalkFinish

(***************************************************************************)
(* A worker is created at the end of mScanThreadVari, or deleted.          *)
(***************************************************************************)
Create(w) ==
  /\ life' = [life EXCEPT ![w] = "wait"] /\ pool' = [pool EXCEPT ![w] = {}]
  /\ told' = told \ {w} /\ stopped' = stopped \ {w} /\ len' = len + 1

\* ~ScanThreadVari: Stop, then join.
DeleteStop(w) == stopped' = stopped \cup {w} /\ UNCHANGED <<len, life, pool, told>>
DeleteJoin(w, rest) ==
  /\ life[w] = "gone" /\ Becomes(w, rest) /\ dropped' = dropped \cup pool[w]
  /\ pool' = [pool EXCEPT ![w] = {}] /\ UNCHANGED <<len, told, stopped>>

(***************************************************************************)
(* Start, after an ALL_FINISHED.                                           *)
(***************************************************************************)
StarterSame == wild = {} /\ UNCHANGED <<ctpc, resizer, stopper, using>>

\* Mutant: without waiting for the end of the last job.
StartCallAtOnce ==
  /\ clpc = "idle" /\ job < MaxJobs
  /\ clpc' = "lock" /\ cln' \in 1 .. MaxThreads
  /\ UNCHANGED <<count, workers, ends, flag, mutex, walker, clk, job, size, sleeping, files, wild>>
  /\ StarterSame

StartCall ==
  /\ clpc = "idle" /\ job < MaxJobs /\ (job = 0 \/ finished > 0)
  /\ clpc' = "lock" /\ cln' \in 1 .. MaxThreads
  /\ UNCHANGED <<count, workers, ends, flag, mutex, walker, clk, job, size, sleeping, files, wild>>
  /\ StarterSame

StartLock ==
  /\ clpc = "lock" /\ mutex = "free" /\ mutex' = "start"
  /\ status' = "STOP" /\ clpc' = "release" /\ clk' = 0
  /\ UNCHANGED <<count, workers, bits, finished, flag, walker, cln, job, size, sleeping, files, wild>>
  /\ StarterSame

\* Release walks over mScanThreadCount workers.
ReleaseStop ==
  /\ clpc = "release" /\ clk < count
  /\ \/ There(clk) /\ DeleteStop(clk) /\ clpc' = "join" /\ UNCHANGED wild
     \/ ~There(clk) /\ wild' = wild \cup {"start"} /\ UNCHANGED <<workers, clpc>>
  /\ UNCHANGED <<count, ends, flag, mutex, walker, clk, cln, job, size, sleeping, files>>
  /\ StarterSame

ReleaseJoin ==
  /\ clpc = "join" /\ DeleteJoin(clk, "null") /\ clpc' = "release" /\ clk' = clk + 1
  /\ UNCHANGED <<count, ends, flag, mutex, walker, cln, job, size, sleeping, judged, added, wild>>
  /\ StarterSame

\* The walker and the counting thread are joined.
StartInit ==
  /\ clpc = "release" /\ clk >= count
  /\ wkpc \in {"none", "gone"} /\ ctpc \in {"none", "gone"}
  /\ life' = [w \in Tags |-> "none"] /\ len' = 0
  /\ status' = "START" /\ bits' = {} /\ flag' = Bits(cln) /\ count' = cln
  /\ finished' = 0 /\ size' \in 1 .. MaxFiles /\ judged' = {} /\ dropped' = {} /\ added' = {}
  /\ clpc' = "create" /\ clk' = 0 /\ job' = job + 1
  /\ UNCHANGED <<pool, told, stopped, mutex, walker, cln, sleeping, wild>> /\ StarterSame

StartCreate ==
  /\ clpc = "create" /\ clk < cln
  /\ \/ len = clk /\ Create(clk) /\ clk' = clk + 1 /\ UNCHANGED wild
     \/ len # clk /\ wild' = wild \cup {"start"} /\ UNCHANGED <<workers, clk>>
  /\ UNCHANGED <<count, ends, flag, mutex, walker, clpc, cln, job, size, sleeping, files>>
  /\ StarterSame

\* mScanThreadCount keeps the number of workers that were wanted.
StartFails ==
  /\ clpc = "create" /\ clk < cln /\ CreateFails
  /\ status' = "STOP" /\ mutex' = "free" /\ clpc' = "failed"
  /\ UNCHANGED <<count, workers, bits, finished, flag, walker, clk, cln, job, size,
                 sleeping, files, wild>> /\ StarterSame

StartThreads ==
  /\ wild = {} /\ clpc = "create" /\ clk = cln
  /\ wkpc' = "begin" /\ wki' = 0 /\ wkpos' = 1 /\ wkStop' = FALSE /\ ctpc' = "begin"
  /\ sleeping' = sleeping + 1
  /\ mutex' = "free" /\ clpc' = "idle"
  /\ UNCHANGED <<count, workers, ends, flag, clk, cln, job, size, files, wild,
                 resizer, stopper, using>>

Starter ==
  \/ StartLock \/ ReleaseStop \/ ReleaseJoin \/ StartInit
  \/ StartCreate \/ StartFails \/ StartThreads

(***************************************************************************)
(* SetScanDynamicStatus.                                                   *)
(***************************************************************************)
ResizeSame == wild = {} /\ UNCHANGED <<ends, walker, ctpc, starter, stopper, reports, judged>>

ResizeCall ==
  /\ rspc = "idle" /\ resizes < MaxResizes /\ resizes' = resizes + 1
  /\ stops = 0 \/ ResizeAndStop
  /\ rsn' \in 1 .. MaxThreads \ {count} /\ rspc' = "lock"
  /\ UNCHANGED <<count, workers, flag, mutex, rsk, rso, dropped, added, wild>> /\ ResizeSame

\* The number first, the workers after it.
ResizeLock ==
  /\ rspc = "lock" /\ mutex = "free" /\ mutex' = "resize"
  /\ rspc' = IF rsn > count THEN "grow" ELSE IF rsn < count THEN "shrink" ELSE "flags"
  /\ rsk' = IF rsn > count THEN count ELSE rsn
  /\ count' = rsn /\ rso' = count
  /\ UNCHANGED <<workers, flag, rsn, resizes, dropped, added, wild>> /\ ResizeSame

\* push_back: the worker gets the number rsk, the vector its next place.
Grow ==
  /\ rspc = "grow" /\ rsk < rsn
  /\ \/ /\ len = rsk /\ Create(rsk) /\ rsk' = rsk + 1 /\ added' = added \cup {rsk}
        /\ UNCHANGED <<rspc, wild>>
     \/ /\ len # rsk /\ wild' = wild \cup {"grow"} /\ UNCHANGED <<workers, rsk, rspc, added>>
     \/ /\ CreateFails /\ rspc' = "failed" /\ UNCHANGED <<workers, rsk, wild, added>>
  /\ UNCHANGED <<count, flag, mutex, rsn, rso, resizes, dropped>> /\ ResizeSame

ShrinkStop ==
  /\ rspc = "shrink" /\ rsk < rso
  /\ \/ There(rsk) /\ DeleteStop(rsk) /\ rspc' = "join" /\ UNCHANGED wild
     \/ ~There(rsk) /\ wild' = wild \cup {"shrink"} /\ UNCHANGED <<workers, rspc>>
  /\ UNCHANGED <<count, flag, mutex, rsk, rsn, rso, resizes, dropped, added>> /\ ResizeSame

ShrinkJoin ==
  /\ rspc = "join" /\ DeleteJoin(rsk, "deleted") /\ rspc' = "shrink" /\ rsk' = rsk + 1
  /\ UNCHANGED <<count, flag, mutex, rsn, rso, resizes, added, wild>> /\ ResizeSame

Erase ==
  /\ rspc = "shrink" /\ rsk >= rso /\ rspc' = "flags"
  /\ len' = rsn /\ life' = [w \in Tags |-> IF w < rsn THEN life[w] ELSE "none"]
  /\ UNCHANGED <<count, pool, told, stopped, flag, mutex, rsk, rsn, rso, resizes, dropped, added, wild>>
  /\ ResizeSame

\* mScanExitFlag, and the mutex.
ResizeFlags ==
  /\ rspc = "flags" \/ (rspc = "grow" /\ rsk = rsn)
  /\ flag' = Bits(count) /\ mutex' = "free" /\ rspc' = "idle"
  /\ UNCHANGED <<count, workers, rsk, rsn, rso, resizes, dropped, added, wild>> /\ ResizeSame

Resizer == ResizeLock \/ Grow \/ ShrinkStop \/ ShrinkJoin \/ Erase \/ ResizeFlags

(***************************************************************************)
(* Stop takes no lock.                                                     *)
(***************************************************************************)
StopperSame == wild = {} /\ UNCHANGED <<count, bits, finished, flag, mutex, ctpc, starter, resizer,
                           reports, files>>

StopCall ==
  /\ uppc = "idle" /\ stops < MaxStops
  /\ resizes = 0 \/ ResizeAndStop
  /\ status' = "STOP" /\ uppc' = "walk" /\ upk' = 0 /\ stops' = stops + 1
  /\ UNCHANGED <<workers, walker, wild>> /\ StopperSame

StopWalk ==
  /\ uppc = "walk" /\ wkStop' = TRUE /\ uppc' = "stop"
  /\ UNCHANGED <<workers, status, wkpc, wki, wkpos, upk, stops, wild>> /\ StopperSame

StopWorker ==
  /\ uppc = "stop"
  /\ \/ /\ upk < count /\ There(upk) /\ DeleteStop(upk) /\ upk' = upk + 1
        /\ UNCHANGED <<uppc, wild>>
     \/ /\ upk < count /\ upk < len /\ life[upk] = "null" /\ upk' = upk + 1
        /\ UNCHANGED <<workers, uppc, wild>>
     \/ /\ upk < count /\ ~There(upk) /\ ~(upk < len /\ life[upk] = "null")
        /\ wild' = wild \cup {"stop"} /\ UNCHANGED <<workers, uppc, upk>>
     \/ /\ upk >= count /\ uppc' = "idle" /\ UNCHANGED <<workers, upk, wild>>
  /\ UNCHANGED <<status, walker, stops>> /\ StopperSame

(***************************************************************************)
(* The report thread of each job, which nobody joins.                      *)
(***************************************************************************)
ReportSame == wild = {} /\ UNCHANGED <<count, workers, ends, flag, mutex, walker, ctpc, starter, resizer,
                          stopper, files>>

ReportTest ==
  /\ sleeping > 0
  /\ \/ status = "STOP" /\ sleeping' = sleeping - 1 /\ UNCHANGED using
     \/ /\ status # "STOP" /\ bits # flag
        /\ sleeping' = sleeping - 1 /\ using' = using + 1
  /\ UNCHANGED wild /\ ReportSame

\* mReportSummary points into the workers.
ReportUse ==
  /\ using > 0 /\ using' = using - 1 /\ sleeping' = sleeping + 1
  /\ wild' = wild \cup {h \in {"report"} : \E i \in 0 .. len - 1 : ~There(i)}
  /\ ReportSame

-----------------------------------------------------------------------------
WorkerStep(w) == Move(w) \/ Judge(w) \/ Exit(w)

Next ==
  \/ \E w \in Tags : WorkerStep(w)
  \/ Walker \/ CountFinish
  \/ StartCall \/ Starter
  \/ ResizeCall \/ Resizer
  \/ StopCall \/ StopWalk \/ StopWorker
  \/ ReportTest \/ ReportUse

Spec == Init /\ [][Next]_vars

\* Every thread goes on; nothing makes anybody call Start, Stop or
\* SetScanDynamicStatus, or fail.
Fairness ==
  /\ \A w \in Tags : WF_vars(WorkerStep(w))
  /\ WF_vars(Walker) /\ WF_vars(CountFinish)
  /\ WF_vars(Starter) /\ WF_vars(Resizer)
  /\ WF_vars(StopWalk \/ StopWorker)

FairSpec == Spec /\ Fairness

-----------------------------------------------------------------------------
\* Types; who holds a mutex is in the part of its code that is locked.
TypeOK ==
  /\ status \in {"INIT", "START", "STOP"} /\ count \in 0 .. MaxThreads /\ len \in 0 .. MaxThreads
  /\ \A w \in Tags : pool[w] \subseteq 1 .. MaxFiles /\ Cardinality(pool[w]) <= PoolSize
  /\ \A w \in Tags : life[w] = "none" \/ w < len
  /\ bits \subseteq Bits(MaxThreads) /\ flag \subseteq Bits(MaxThreads)
  /\ mutex = "walker" => wkpc \in {"try", "leave"}
  /\ mutex = "start" => clpc \in {"release", "join", "create"}
  /\ mutex = "resize" => rspc \in {"grow", "shrink", "join", "flags", "failed"}

\* A job that nobody resizes and whose workers could be created uses only
\* workers that are there; all but Stop, which takes no lock, in the middle of a
\* Start, and the report thread, which nobody joins before Release.
WildNeedsResize == wild \subseteq {"stop", "report"} \/ resizes > 0 \/ clpc = "failed"

\* "here, ensure ok!!!" (the comment on the lock in DealFile): as long as nobody
\* calls Stop, no worker comes or goes while the walker deals out a file.
DealExcludesResize ==
  /\ stops = 0 => "deal" \notin wild
  /\ ~(stops = 0 /\ wkpc \in {"try", "leave"} /\ rspc \in {"grow", "shrink", "join", "flags"})

\* Who may meet a worker that is not there, and who never does.
WorkersSafety == TypeOK /\ WildNeedsResize /\ DealExcludesResize

AllExited ==
  wkpc = "gone" /\ ctpc = "gone" /\ \A w \in Tags : There(w) => life[w] = "gone"

\* After ALL_FINISHED of a walk that met a file only workers are left that were
\* added to the job.  (With Stop, DealLeave unlocks what SetScanDynamicStatus has locked, and that may
\* run on into the next Start.)
FinishedLeavesAdded ==
  finished > 0 /\ wkpos > 1 /\ clpc = "idle" /\ (stops = 0 \/ resizes = 0) =>
    wkpc = "gone" /\ ctpc = "gone" /\ \A w \in Tags : There(w) => life[w] = "gone" \/ w \in added

\* Without Stop every file of the walk is scanned, or lost with a worker that was
\* taken away, or left to one that was added.
EveryFileAccounted ==
  finished > 0 /\ wkpos > 1 /\ clpc = "idle" /\ stops = 0 /\ wild = {} =>
    1 .. size \subseteq judged \cup dropped \cup UNION {pool[w] : w \in added}

\* ALL_FINISHED leaves no thread and no file behind but those of added workers.
FinishedAccounts == FinishedLeavesAdded /\ EveryFileAccounted

\* A worker added after SCAN_FINISH waits for a Last that has been.
Untold(w) == w \in added /\ There(w) /\ life[w] = "wait" /\ wkpc = "gone" /\ w \notin told

\* The last JUDGE_EXIT came before the new mScanExitFlag.
Overlooked == AllExited /\ finished = 0 /\ bits \cap Bits(count) = flag

\* A Stop that began before Start set the status to START and stopped the new
\* workers after it: they refuse every file, and the walker tries for ever.
Refusing == status = "START" /\ wkpc = "try" /\ \A w \in Tags : There(w) => w \in stopped

\* The mutex of a resize that failed.
Leaked == rspc = "failed"

\* These are all that can keep a job from its end.
EndOrStuck ==
  wkpc = "begin" ~>
    (finished > 0 \/ wild # {} \/ Leaked \/ Overlooked \/ Refusing \/ \E w \in Tags : Untold(w))
=============================================================================
