---------------------------- MODULE ScanThreadVari ----------------------------
(***************************************************************************)
(* The scan workers of the engine library: ScanThreadVari, one thread per  *)
(* worker, each with a fixed pool of file entries (ScanEngine/             *)
(* scanthreadvari.cpp).  One directory walker calls Append and Last, any   *)
(* thread may call Stop.  The module is open: it leaves to its user when   *)
(* those calls are made, and says what the workers do with them.           *)
(*                                                                         *)
(* A thread is a program counter.  One action is one stretch of code       *)
(* between two points where another thread can see or change what it       *)
(* uses; mSize is a plain int, so `mSize++' and `mSize--' are a load and a *)
(* store.                                                                  *)
(***************************************************************************)
EXTENDS Integers, FiniteSets

CONSTANTS
  ThreadCount,     \* how many workers MultiVirusEngine::Start creates
  MAX_FILE_POOL,   \* entries of a worker's pool
  Files,           \* the files the walker can find
  Infected,        \* those in which the engine finds a virus
  NoFile           \* the empty path of a free entry

ASSUME ScanAssumption ==
  /\ ThreadCount \in Nat \ {0}
  /\ MAX_FILE_POOL \in Nat \ {0}
  /\ Infected \subseteq Files
  /\ NoFile \notin Files

Workers == 0 .. ThreadCount - 1
Slots   == 0 .. MAX_FILE_POOL - 1

VARIABLES
  file,            \* mScanPool[i]->file, per worker
  prepared,        \* the entries with state ENTRY_PREPARED, per worker
  mSize,
  mStatus,
  mFinished,
  mLastRound,
  mFullScanMutex,  \* who holds it
  mVirusCount,
  wpc, wpos, wreg, \* a worker's program counter, loop index and register
  app,             \* the Append call in progress (the only caller is the walker)
  feeding,         \* the walker may still call Append
  accepted,        \* the files for which Append returned true
  judged,          \* how often each file went through the engine
  stopped          \* the workers on which Stop was called

poolVars == <<file, prepared, mSize>>
flagVars == <<mStatus, mFinished, mLastRound>>
workVars == <<wpc, wpos, wreg, mVirusCount>>
histVars == <<accepted, judged, stopped>>
stvVars  == <<poolVars, flagVars, mFullScanMutex, workVars, app, feeding, histVars>>

\* "begin": created, Work not entered; "asleep": blocked in mEmptyCond->Wait;
\* "exit": Work returned, JUDGE_EXIT not yet delivered; "gone": the thread ended.
WorkerPC == {"none", "begin", "loop", "full", "lock", "last", "wait", "asleep",
             "scan", "report", "consume", "dec", "exit", "gone"}
Scanning == {"scan", "report", "consume", "dec"}
NoAppend == [pc |-> "idle", w |-> 0, slot |-> 0, reg |-> 0]

TypeOK ==
  /\ file \in [Workers -> [Slots -> Files \cup {NoFile}]]
  /\ prepared \in [Workers -> SUBSET Slots]
  /\ mSize \in [Workers -> Int]
  /\ mStatus \in [Workers -> {"INITILIZE", "SCANING", "STOP"}]
  /\ mFinished \in [Workers -> BOOLEAN]
  /\ mLastRound \in [Workers -> BOOLEAN]
  /\ mFullScanMutex \in [Workers -> {"free", "worker", "walker"}]
  /\ mVirusCount \in [Workers -> Nat]
  /\ wpc \in [Workers -> WorkerPC]
  /\ wpos \in [Workers -> 0 .. MAX_FILE_POOL]
  /\ wreg \in [Workers -> Int]
  /\ app \in [pc : {"idle", "lock", "mark", "count"}, w : Workers, slot : Slots, reg : Int]
  /\ feeding \in BOOLEAN
  /\ accepted \in SUBSET Files
  /\ judged \in [Files -> Nat]
  /\ stopped \in SUBSET Workers

-----------------------------------------------------------------------------
Full(w)     == mSize[w] = MAX_FILE_POOL
Empty(w)    == mSize[w] = 0 \/ prepared[w] = {}
Valid(w, i) == i \notin prepared[w] /\ file[w][i] = NoFile

\* The first entry Append may use.
FirstValid(w, i) == Valid(w, i) /\ \A j \in 0 .. i - 1 : ~ Valid(w, j)

\* mEmptyCond->Signal / Broadcast: only a thread already waiting is woken, and
\* each worker's condition has no waiter but the worker itself.
Wake(pcs, S) == [w \in Workers |-> IF w \in S /\ pcs[w] = "asleep" THEN "loop" ELSE pcs[w]]

-----------------------------------------------------------------------------
(* Construction: ScanThreadVari::NEW for every worker, with the old ones   *)
(* joined and deleted before.                                              *)

Zero    == [w \in Workers |-> 0]
Nowhere == [w \in Workers |-> FALSE]
NoPath  == [w \in Workers |-> [i \in Slots |-> NoFile]]

Init ==
  /\ feeding = FALSE
  /\ wpc = [w \in Workers |-> "none"]
  /\ file = NoPath
  /\ prepared = [w \in Workers |-> {}]
  /\ mSize = Zero
  /\ mStatus = [w \in Workers |-> "INITILIZE"]
  /\ mFinished = Nowhere
  /\ mLastRound = Nowhere
  /\ mFullScanMutex = [w \in Workers |-> "free"]
  /\ mVirusCount = Zero
  /\ wpos = Zero
  /\ wreg = Zero
  /\ app = NoAppend
  /\ accepted = {}
  /\ judged = [f \in Files |-> 0]
  /\ stopped = {}

NewWorkers ==
  /\ ~ feeding
  /\ \A w \in Workers : wpc[w] \in {"none", "gone"}
  /\ feeding' = TRUE
  /\ wpc' = [w \in Workers |-> "begin"]
  /\ file' = NoPath
  /\ prepared' = [w \in Workers |-> {}]
  /\ mSize' = Zero
  /\ mStatus' = [w \in Workers |-> "INITILIZE"]
  /\ mFinished' = Nowhere
  /\ mLastRound' = Nowhere
  /\ mFullScanMutex' = [w \in Workers |-> "free"]
  /\ mVirusCount' = Zero
  /\ wpos' = Zero
  /\ wreg' = Zero
  /\ app' = NoAppend
  /\ accepted' = {}
  /\ judged' = [f \in Files |-> 0]
  /\ stopped' = {}

-----------------------------------------------------------------------------
(* Append, called by the walker for one worker at a time.                  *)

\* `if (STOP == mStatus) return false'.
AppendRefused(w) ==
  /\ feeding /\ app.pc = "idle"
  /\ mStatus[w] = "STOP"
  /\ UNCHANGED stvVars

AppendEnter(w) ==
  /\ feeding /\ app.pc = "idle"
  /\ mStatus[w] # "STOP"
  /\ app' = [NoAppend EXCEPT !.pc = "lock", !.w = w]
  /\ UNCHANGED <<poolVars, flagVars, mFullScanMutex, workVars, feeding, histVars>>

\* TryLock fails: return false.
AppendBusy ==
  /\ app.pc = "lock"
  /\ mFullScanMutex[app.w] # "free"
  /\ app' = NoAppend
  /\ UNCHANGED <<poolVars, flagVars, mFullScanMutex, workVars, feeding, histVars>>

\* Mutant: a full worker is not signalled again.
AppendNoRoomSilent ==
  /\ app.pc = "lock"
  /\ mFullScanMutex[app.w] = "free"
  /\ \A i \in Slots : ~ Valid(app.w, i)
  /\ app' = NoAppend
  /\ UNCHANGED <<poolVars, flagVars, mFullScanMutex, workVars, feeding, histVars>>

\* TryLock succeeds and no entry is free: a full worker is signalled again.
AppendNoRoom ==
  /\ app.pc = "lock"
  /\ mFullScanMutex[app.w] = "free"
  /\ \A i \in Slots : ~ Valid(app.w, i)
  /\ wpc' = Wake(wpc, IF Full(app.w) THEN {app.w} ELSE {})
  /\ app' = NoAppend
  /\ UNCHANGED <<poolVars, flagVars, mFullScanMutex, wpos, wreg, mVirusCount, feeding, histVars>>

\* Mutant: the result of TryLock is ignored.
AppendPathUnlocked(f) ==
  /\ app.pc = "lock"
  /\ f \notin accepted
  /\ \E i \in Slots :
       /\ FirstValid(app.w, i)
       /\ file' = [file EXCEPT ![app.w][i] = f]
       /\ app' = [app EXCEPT !.pc = "mark", !.slot = i]
  /\ accepted' = accepted \cup {f}
  /\ UNCHANGED <<prepared, mSize, flagVars, mFullScanMutex, workVars, feeding, judged, stopped>>

\* The path is written into the first free entry ...
AppendPath(f) ==
  /\ app.pc = "lock"
  /\ mFullScanMutex[app.w] = "free"
  /\ f \notin accepted
  /\ \E i \in Slots :
       /\ FirstValid(app.w, i)
       /\ file' = [file EXCEPT ![app.w][i] = f]
       /\ app' = [app EXCEPT !.pc = "mark", !.slot = i]
  /\ mFullScanMutex' = [mFullScanMutex EXCEPT ![app.w] = "walker"]
  /\ accepted' = accepted \cup {f}
  /\ UNCHANGED <<prepared, mSize, flagVars, workVars, feeding, judged, stopped>>

\* ... then the entry is marked (and mSize loaded) ...
AppendMark ==
  /\ app.pc = "mark"
  /\ prepared' = [prepared EXCEPT ![app.w] = @ \cup {app.slot}]
  /\ app' = [app EXCEPT !.pc = "count", !.reg = mSize[app.w]]
  /\ UNCHANGED <<file, mSize, flagVars, mFullScanMutex, workVars, feeding, histVars>>

\* ... mSize is stored, a full worker signalled, the mutex released: true.
AppendDone ==
  /\ app.pc = "count"
  /\ mSize' = [mSize EXCEPT ![app.w] = app.reg + 1]
  /\ wpc' = Wake(wpc, IF app.reg + 1 = MAX_FILE_POOL THEN {app.w} ELSE {})
  /\ mFullScanMutex' = [mFullScanMutex EXCEPT ![app.w] = "free"]
  /\ app' = NoAppend
  /\ UNCHANGED <<file, prepared, flagVars, wpos, wreg, mVirusCount, feeding, histVars>>

\* Last: the walker is through, and calls it for worker after worker.
Last(w) ==
  /\ app.pc = "idle" /\ wpc[w] # "none"
  /\ mLastRound' = [mLastRound EXCEPT ![w] = TRUE]
  /\ wpc' = Wake(wpc, {w})
  /\ feeding' = FALSE
  /\ UNCHANGED <<poolVars, mStatus, mFinished, mFullScanMutex, wpos, wreg, mVirusCount, app, histVars>>

\* Stop: sets mStatus, then mFinished, then signals.  One step is enough: a
\* worker that acts between the stores does what it could do before or after
\* all three.
Stop(w) ==
  /\ wpc[w] # "none"
  /\ mStatus' = [mStatus EXCEPT ![w] = "STOP"]
  /\ mFinished' = [mFinished EXCEPT ![w] = TRUE]
  /\ wpc' = Wake(wpc, {w})
  /\ stopped' = stopped \cup {w}
  /\ UNCHANGED <<poolVars, mLastRound, mFullScanMutex, wpos, wreg, mVirusCount,
                 app, feeding, accepted, judged>>

-----------------------------------------------------------------------------
(* Work: the worker's thread.                                              *)

\* `mStatus = SCANING', whatever was there.
WorkBegin(w) ==
  /\ wpc[w] = "begin"
  /\ mStatus' = [mStatus EXCEPT ![w] = "SCANING"]
  /\ wpc' = [wpc EXCEPT ![w] = "loop"]
  /\ UNCHANGED <<poolVars, mFinished, mLastRound, mFullScanMutex, wpos, wreg, mVirusCount,
                 app, feeding, histVars>>

\* Mutant: the pool is not drained behind the loop.
LoopTestNoDrain(w) ==
  /\ wpc[w] = "loop"
  /\ wpc' = [wpc EXCEPT ![w] = IF mFinished[w] THEN "exit" ELSE "full"]
  /\ UNCHANGED <<poolVars, flagVars, mFullScanMutex, wpos, wreg, mVirusCount, app, feeding, histVars>>

\* `while (!mFinished)', and behind the loop the return of a stopped worker or
\* the drain of the pool.
LoopTest(w) ==
  /\ wpc[w] = "loop"
  /\ \/ /\ mFinished[w]
        /\ wpc' = [wpc EXCEPT ![w] = IF mStatus[w] = "STOP" THEN "exit" ELSE "scan"]
        /\ wpos' = [wpos EXCEPT ![w] = 0]
     \/ /\ ~ mFinished[w]
        /\ wpc' = [wpc EXCEPT ![w] = "full"]
        /\ UNCHANGED wpos
  /\ UNCHANGED <<poolVars, flagVars, mFullScanMutex, wreg, mVirusCount, app, feeding, histVars>>

FullTest(w) ==
  /\ wpc[w] = "full"
  /\ wpc' = [wpc EXCEPT ![w] = IF Full(w) THEN "lock" ELSE "last"]
  /\ UNCHANGED <<poolVars, flagVars, mFullScanMutex, wpos, wreg, mVirusCount, app, feeding, histVars>>

FullScanLock(w) ==
  /\ wpc[w] = "lock"
  /\ mFullScanMutex[w] = "free"
  /\ mFullScanMutex' = [mFullScanMutex EXCEPT ![w] = "worker"]
  /\ wpc' = [wpc EXCEPT ![w] = "scan"]
  /\ wpos' = [wpos EXCEPT ![w] = 0]
  /\ UNCHANGED <<poolVars, flagVars, wreg, mVirusCount, app, feeding, histVars>>

LastTest(w) ==
  /\ wpc[w] = "last"
  /\ mFinished' = [mFinished EXCEPT ![w] = @ \/ mLastRound[w]]
  /\ wpc' = [wpc EXCEPT ![w] = IF mLastRound[w] THEN "loop" ELSE "wait"]
  /\ UNCHANGED <<poolVars, mStatus, mLastRound, mFullScanMutex, wpos, wreg, mVirusCount,
                 app, feeding, histVars>>

\* mEmptyCond->Wait takes the condition's own mutex, which guards no state.
EmptyWait(w) ==
  /\ wpc[w] = "wait"
  /\ wpc' = [wpc EXCEPT ![w] = "asleep"]
  /\ UNCHANGED <<poolVars, flagVars, mFullScanMutex, wpos, wreg, mVirusCount, app, feeding, histVars>>

\* pthread_cond_wait may return without a signal.
SpuriousWake(w) ==
  /\ wpc[w] = "asleep"
  /\ wpc' = [wpc EXCEPT ![w] = "loop"]
  /\ UNCHANGED <<poolVars, flagVars, mFullScanMutex, wpos, wreg, mVirusCount, app, feeding, histVars>>

InFullScan(w) == mFullScanMutex[w] = "worker"

\* A stopped worker skips what is left of a full pool.
SkipStopped(w) ==
  /\ wpc[w] = "scan" /\ wpos[w] \in Slots
  /\ InFullScan(w) /\ mStatus[w] = "STOP"
  /\ mFinished' = [mFinished EXCEPT ![w] = TRUE]
  /\ wpos' = [wpos EXCEPT ![w] = @ + 1]
  /\ UNCHANGED <<poolVars, mStatus, mLastRound, mFullScanMutex, wpc, wreg, mVirusCount,
                 app, feeding, histVars>>

\* LocalScanFile returns at once on an empty path.
SkipEmpty(w) ==
  /\ wpc[w] = "scan" /\ wpos[w] \in Slots
  /\ ~ (InFullScan(w) /\ mStatus[w] = "STOP")
  /\ file[w][wpos[w]] = NoFile
  /\ wpos' = [wpos EXCEPT ![w] = @ + 1]
  /\ UNCHANGED <<poolVars, flagVars, mFullScanMutex, wpc, wreg, mVirusCount, app, feeding, histVars>>

\* LocalScanFile: the entry's file goes through the cache and the engine.
Judge(w) ==
  /\ wpc[w] = "scan" /\ wpos[w] \in Slots
  /\ ~ (InFullScan(w) /\ mStatus[w] = "STOP")
  /\ LET f == file[w][wpos[w]] IN
       /\ f # NoFile
       /\ judged' = [judged EXCEPT ![f] = @ + 1]
       /\ mVirusCount' = [mVirusCount EXCEPT ![w] = IF f \in Infected THEN @ + 1 ELSE @]
       /\ wpc' = [wpc EXCEPT ![w] = IF f \in Infected THEN "report" ELSE "consume"]
  /\ UNCHANGED <<poolVars, flagVars, mFullScanMutex, wpos, wreg, app, feeding, accepted, stopped>>

\* OnVirusEvent(JUDGE_DANGE) hands the virus to the observer.
Report(w) ==
  /\ wpc[w] = "report"
  /\ wpc' = [wpc EXCEPT ![w] = "consume"]
  /\ UNCHANGED <<poolVars, flagVars, mFullScanMutex, wpos, wreg, mVirusCount, app, feeding, histVars>>

\* consume() frees the entry; mSize is loaded ...
Consume(w) ==
  /\ wpc[w] = "consume"
  /\ file' = [file EXCEPT ![w][wpos[w]] = NoFile]
  /\ prepared' = [prepared EXCEPT ![w] = @ \ {wpos[w]}]
  /\ wreg' = [wreg EXCEPT ![w] = mSize[w]]
  /\ wpc' = [wpc EXCEPT ![w] = "dec"]
  /\ UNCHANGED <<mSize, flagVars, mFullScanMutex, wpos, mVirusCount, app, feeding, histVars>>

\* ... and stored.
Decrement(w) ==
  /\ wpc[w] = "dec"
  /\ mSize' = [mSize EXCEPT ![w] = wreg[w] - 1]
  /\ wpc' = [wpc EXCEPT ![w] = "scan"]
  /\ wpos' = [wpos EXCEPT ![w] = @ + 1]
  /\ UNCHANGED <<file, prepared, flagVars, mFullScanMutex, wreg, mVirusCount, app, feeding, histVars>>

\* The end of a pass: the mutex is released after a full pool, and the drain
\* goes round until the pool is empty.
PassEnd(w) ==
  /\ wpc[w] = "scan" /\ wpos[w] = MAX_FILE_POOL
  /\ wpos' = [wpos EXCEPT ![w] = 0]
  /\ wpc' = [wpc EXCEPT ![w] = IF InFullScan(w) THEN "loop"
                               ELSE IF Empty(w) THEN "exit" ELSE "scan"]
  /\ mFullScanMutex' = [mFullScanMutex EXCEPT ![w] = IF @ = "worker" THEN "free" ELSE @]
  /\ UNCHANGED <<poolVars, flagVars, wreg, mVirusCount, app, feeding, histVars>>

\* ThreadWork reports JUDGE_EXIT and the thread ends.
JudgeExit(w) ==
  /\ wpc[w] = "exit"
  /\ wpc' = [wpc EXCEPT ![w] = "gone"]
  /\ UNCHANGED <<poolVars, flagVars, mFullScanMutex, wpos, wreg, mVirusCount, app, feeding, histVars>>

-----------------------------------------------------------------------------
\* What a worker does between two of its events for the engine.
WorkStep(w) ==
  \/ WorkBegin(w) \/ LoopTest(w) \/ FullTest(w) \/ FullScanLock(w) \/ LastTest(w)
  \/ EmptyWait(w) \/ SkipStopped(w) \/ SkipEmpty(w) \/ Judge(w) \/ Consume(w) \/ Decrement(w) \/ PassEnd(w)

AppendStep ==
  \/ AppendBusy \/ AppendNoRoom \/ AppendMark \/ AppendDone
  \/ \E f \in Files : AppendPath(f)

Next ==
  \/ NewWorkers \/ AppendStep
  \/ \E w \in Workers :
       \/ AppendRefused(w) \/ AppendEnter(w) \/ Last(w) \/ Stop(w)
       \/ WorkStep(w) \/ SpuriousWake(w) \/ Report(w) \/ JudgeExit(w)

Spec == Init /\ [][Next]_stvVars
-----------------------------------------------------------------------------
(* Properties.                                                             *)

\* No file goes through the engine twice, whatever the order of Append, Stop,
\* the full-pool scan and the drain without the mutex (LocalScanFile, consume).
JudgedOnce == \A f \in Files : judged[f] <= 1

\* Every file Append took has been judged once all workers have ended and none
\* was stopped: no hand-over between walker, full-pool scan and drain loses one.
EveryFileJudged ==
  (stopped = {} /\ \A w \in Workers : wpc[w] = "gone") =>
    \A f \in accepted : judged[f] = 1

\* mSize is the number of prepared entries whenever neither Append nor the
\* worker is between a change of the pool and its store to mSize.
SizeIsCount ==
  \A w \in Workers \ stopped :
    (wpc[w] # "dec" /\ ~ (app.w = w /\ app.pc = "count")) =>
      mSize[w] = Cardinality(prepared[w])

\* The safety of the pools.
PoolSafety == TypeOK /\ JudgedOnce /\ EveryFileJudged /\ SizeIsCount

\* "Exclusive while scanning: no file may be added to the pool during a scan"
\* (the comment on mFullScanMutex): no step of Append changes the entries of a
\* worker that is scanning them.
AddsDuring(S) ==
  \A w \in S : wpc[w] \in Scanning =>
    \A i \in Slots : file'[w][i] \in {file[w][i], NoFile}
NoAppendDuringScanUnlessStopped == [][AddsDuring(Workers \ stopped)]_stvVars
=============================================================================
