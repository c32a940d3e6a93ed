------------------------ MODULE MultiVirusEngineProofs ------------------------
(***************************************************************************)
(* The workers: the inductive invariant of ScanThreadVari and what follows *)
(* from it, for any number of workers, any pool size and any set of files. *)
(*                                                                         *)
(* The engine: it drives its workers as ScanThreadVari allows, so that     *)
(* what is proved of the workers holds in the engine; the bits of          *)
(* mScanStopStatue and the ended threads agree; the report is complete;    *)
(* and the engine implements ScanJob.                                      *)
(***************************************************************************)
EXTENDS MultiVirusEngine, FiniteSetTheorems, WellFoundedInduction, TLAPS

\* Who holds a worker's mutex, and where its scan loop stands.
ControlOf(w) ==
  /\ wpc[w] \in {"report", "consume", "dec"} => wpos[w] \in Slots
  /\ wpc[w] \in {"report", "consume"} => file[w][wpos[w]] # NoFile
  /\ mFullScanMutex[w] = "walker" <=> (app.w = w /\ app.pc \in {"mark", "count"})
  /\ mFullScanMutex[w] = "worker" => wpc[w] \in Scanning
Control == \A w \in Workers : ControlOf(w)

\* A worker that was not stopped drains its pool, and ends, only after the
\* walker's last Append.
FeedingOf(w) ==
  /\ mLastRound[w] => ~ feeding
  /\ w \notin stopped => mStatus[w] # "STOP" /\ (mFinished[w] => mLastRound[w])
  /\ (wpc[w] \in Scanning \cup {"exit", "gone"} /\ mFullScanMutex[w] # "worker") => mFinished[w]
Feeding ==
  /\ app.pc # "idle" => feeding
  /\ \A w \in Workers : FeedingOf(w)

\* Where an accepted file is: in exactly one entry and not judged, in the
\* entry its worker is judging, or judged and in no entry.
Judging(w, i) == wpc[w] \in {"report", "consume"} /\ wpos[w] = i
OneEntry ==
  \A w, v \in Workers : \A i, j \in Slots :
    (file[w][i] # NoFile /\ file[w][i] = file[v][j]) => (w = v /\ i = j)
EntryState ==
  \A w \in Workers : \A i \in Slots : file[w][i] # NoFile =>
    /\ file[w][i] \in accepted
    /\ judged[file[w][i]] = IF Judging(w, i) THEN 1 ELSE 0
Untouched == \A f \in Files : f \notin accepted => judged[f] = 0
NotTwice  == \A f \in Files : judged[f] \in {0, 1}
NotLost   == \A f \in accepted : judged[f] = 0 => \E w \in Workers : \E i \in Slots : file[w][i] = f
Custody   == OneEntry /\ EntryState /\ Untouched /\ NotTwice /\ NotLost

\* The entries, their marks and mSize agree on a worker that was not stopped.
Marking(w, i) == app.pc = "mark" /\ app.w = w /\ app.slot = i
Counting(w)   == app.pc = "count" /\ app.w = w
AccountingOf(w) ==
  /\ \A i \in Slots : i \in prepared[w] <=> (file[w][i] # NoFile /\ ~ Marking(w, i))
  /\ \A i \in Slots : Marking(w, i) => file[w][i] # NoFile
  /\ Counting(w) => app.reg = mSize[w]
  /\ wpc[w] = "dec" => wreg[w] = mSize[w]
  /\ Cardinality(prepared[w]) = IF Counting(w) THEN mSize[w] + 1
                                ELSE IF wpc[w] = "dec" THEN mSize[w] - 1 ELSE mSize[w]
  /\ wpc[w] \in {"exit", "gone"} => \A i \in Slots : file[w][i] = NoFile
Accounting == \A w \in Workers \ stopped : AccountingOf(w)

IInv == TypeOK /\ Control /\ Feeding /\ Custody /\ Accounting

-----------------------------------------------------------------------------
\* The constants are what they are assumed to be, and Wake touches only
\* program counters of sleeping workers.
LEMMA SlotFacts ==
  /\ 0 \in Workers /\ 0 \in Slots
  /\ IsFiniteSet(Slots)
  /\ \A i \in Slots : i \in Int /\ i + 1 \in 0 .. MAX_FILE_POOL
BY ScanAssumption, FS_Interval DEF Workers, Slots

LEMMA WakeFacts ==
  ASSUME NEW S, NEW pcs \in [Workers -> WorkerPC]
  PROVE  /\ Wake(pcs, S) \in [Workers -> WorkerPC]
         /\ \A w \in Workers : Wake(pcs, S)[w] = pcs[w] \/ (pcs[w] = "asleep" /\ Wake(pcs, S)[w] = "loop")
BY DEF Wake, WorkerPC

\* Every step keeps the variables in their types.
LEMMA TypeStep ==
  ASSUME TypeOK, Control, [Next]_stvVars
  PROVE  TypeOK'
<1> USE ScanAssumption, SlotFacts DEF TypeOK
<1>1. CASE NewWorkers
  BY <1>1 DEF NewWorkers, NoPath, Zero, Nowhere, NoAppend, WorkerPC
<1>2. ASSUME NEW w \in Workers, Last(w) PROVE TypeOK'
  BY <1>2, WakeFacts DEF Last, poolVars, histVars
<1>3. CASE AppendBusy
  BY <1>3 DEF AppendBusy, NoAppend, poolVars, flagVars, workVars, histVars
<1>4. CASE AppendNoRoom
  BY <1>4, WakeFacts DEF AppendNoRoom, NoAppend, poolVars, flagVars, histVars
<1>5. CASE AppendMark
  BY <1>5 DEF AppendMark, flagVars, workVars, histVars
<1>6. CASE AppendDone
  BY <1>6, WakeFacts DEF AppendDone, NoAppend, flagVars, histVars
<1>7. ASSUME NEW f \in Files, AppendPath(f) PROVE TypeOK'
  <2>1. PICK i \in Slots : /\ file' = [file EXCEPT ![app.w][i] = f]
                           /\ app' = [app EXCEPT !.pc = "mark", !.slot = i]
    BY <1>7 DEF AppendPath
  <2>2. file' \in [Workers -> [Slots -> Files \cup {NoFile}]]
    BY <2>1
  <2>3. app' \in [pc : {"idle", "lock", "mark", "count"}, w : Workers, slot : Slots, reg : Int]
    BY <2>1
  <2> QED
    BY <1>7, <2>2, <2>3 DEF AppendPath, flagVars, workVars
<1>8. ASSUME NEW w \in Workers, AppendRefused(w) \/ AppendEnter(w) PROVE TypeOK'
  <2>1. CASE AppendRefused(w)
    BY <2>1 DEF AppendRefused, stvVars, poolVars, flagVars, workVars, histVars
  <2>2. CASE AppendEnter(w)
    <3>1. app' \in [pc : {"idle", "lock", "mark", "count"}, w : Workers, slot : Slots, reg : Int]
      BY <2>2 DEF AppendEnter, NoAppend
    <3> QED BY <2>2, <3>1 DEF AppendEnter, poolVars, flagVars, workVars, histVars
  <2> QED BY <1>8, <2>1, <2>2
<1>9. ASSUME NEW w \in Workers, Stop(w) PROVE TypeOK'
  BY <1>9, WakeFacts DEF Stop, poolVars
<1>10. ASSUME NEW w \in Workers, WorkBegin(w) \/ LoopTest(w) \/ FullTest(w) \/ FullScanLock(w) PROVE TypeOK'
  <2>1. CASE WorkBegin(w)
    BY <2>1 DEF WorkBegin, poolVars, histVars, WorkerPC
  <2>2. CASE LoopTest(w)
    <3>1. wpc' \in [Workers -> WorkerPC]
      <4>1. PICK p \in WorkerPC : wpc' = [wpc EXCEPT ![w] = p]
        BY <2>2 DEF LoopTest, WorkerPC
      <4> QED BY <4>1
    <3>2. wpos' \in [Workers -> 0 .. MAX_FILE_POOL]
      <4>1. wpos' = [wpos EXCEPT ![w] = 0] \/ wpos' = wpos
        BY <2>2 DEF LoopTest
      <4>2. 0 \in 0 .. MAX_FILE_POOL /\ wpos \in [Workers -> 0 .. MAX_FILE_POOL]
        OBVIOUS
      <4> QED BY <4>1, <4>2
    <3> QED BY <2>2, <3>1, <3>2 DEF LoopTest, poolVars, flagVars, histVars
  <2>3. CASE FullTest(w)
    BY <2>3 DEF FullTest, poolVars, flagVars, histVars, WorkerPC
  <2>4. CASE FullScanLock(w)
    BY <2>4 DEF FullScanLock, poolVars, flagVars, histVars, WorkerPC
  <2> QED BY <1>10, <2>1, <2>2, <2>3, <2>4
<1>11. ASSUME NEW w \in Workers, LastTest(w) \/ EmptyWait(w) \/ SpuriousWake(w) PROVE TypeOK'
  BY <1>11 DEF LastTest, EmptyWait, SpuriousWake, poolVars, flagVars, histVars, WorkerPC
<1>12. ASSUME NEW w \in Workers, SkipStopped(w) \/ SkipEmpty(w) PROVE TypeOK'
  <2>1. CASE SkipStopped(w)
    <3>1. wpos' \in [Workers -> 0 .. MAX_FILE_POOL] /\ mFinished' \in [Workers -> BOOLEAN]
      BY <2>1 DEF SkipStopped
    <3> QED BY <2>1, <3>1 DEF SkipStopped, poolVars, histVars
  <2>2. CASE SkipEmpty(w)
    <3>1. wpos' \in [Workers -> 0 .. MAX_FILE_POOL]
      BY <2>2 DEF SkipEmpty
    <3> QED BY <2>2, <3>1 DEF SkipEmpty, poolVars, flagVars, histVars
  <2> QED BY <1>12, <2>1, <2>2
<1>13. ASSUME NEW w \in Workers, Judge(w) PROVE TypeOK'
  <2> DEFINE f == file[w][wpos[w]]
  <2>1. f \in Files /\ judged' = [judged EXCEPT ![f] = @ + 1]
    BY <1>13 DEF Judge
  <2>2. judged' \in [Files -> Nat]
    BY <2>1
  <2>3. mVirusCount' \in [Workers -> Nat] /\ wpc' \in [Workers -> WorkerPC]
    <3>1. PICK p \in WorkerPC : wpc' = [wpc EXCEPT ![w] = p]
      BY <1>13 DEF Judge, WorkerPC
    <3>2. mVirusCount' = [mVirusCount EXCEPT ![w] = IF f \in Infected THEN @ + 1 ELSE @]
      BY <1>13 DEF Judge
    <3> QED BY <3>1, <3>2
  <2> QED BY <1>13, <2>2, <2>3 DEF Judge, poolVars, flagVars
<1>14. ASSUME NEW w \in Workers, Report(w) \/ JudgeExit(w) PROVE TypeOK'
  BY <1>14 DEF Report, JudgeExit, poolVars, flagVars, histVars, WorkerPC
<1>15. ASSUME NEW w \in Workers, Consume(w) PROVE TypeOK'
  BY <1>15 DEF Consume, Control, ControlOf, flagVars, histVars, WorkerPC
<1>16. ASSUME NEW w \in Workers, Decrement(w) PROVE TypeOK'
  BY <1>16 DEF Decrement, Control, ControlOf, flagVars, histVars, WorkerPC
<1>17. ASSUME NEW w \in Workers, PassEnd(w) PROVE TypeOK'
  BY <1>17 DEF PassEnd, poolVars, flagVars, histVars, WorkerPC
<1>18. CASE UNCHANGED stvVars
  BY <1>18 DEF stvVars, poolVars, flagVars, workVars, histVars
<1> QED
  BY <1>1, <1>2, <1>3, <1>4, <1>5, <1>6, <1>7, <1>8, <1>9, <1>10, <1>11, <1>12, <1>13,
     <1>14, <1>15, <1>16, <1>17, <1>18 DEF Next, AppendStep, WorkStep

\* The steps that signal a condition wake sleeping workers and nothing else.
LEMMA WakingSteps ==
  ASSUME TypeOK, AppendNoRoom \/ AppendDone \/ \E w \in Workers : Last(w) \/ Stop(w)
  PROVE  \A u \in Workers : wpc'[u] = wpc[u] \/ (wpc[u] = "asleep" /\ wpc'[u] = "loop")
<1>1. \E S : wpc' = Wake(wpc, S)
  BY DEF Last, AppendNoRoom, AppendDone, Stop
<1> QED BY <1>1, WakeFacts DEF TypeOK

\* Every step keeps the workers' control as Control says.
LEMMA ControlStep ==
  ASSUME TypeOK, Control, [Next]_stvVars
  PROVE  Control'
<1> USE ScanAssumption, SlotFacts DEF TypeOK, Control, ControlOf, Scanning
<1> SUFFICES ASSUME NEW v \in Workers PROVE ControlOf(v)'
  OBVIOUS
<1>1. CASE NewWorkers
  BY <1>1 DEF NewWorkers, NoAppend
<1>2. ASSUME NEW w \in Workers, Last(w) PROVE ControlOf(v)'
  BY <1>2, WakingSteps DEF Last, poolVars
<1>3. CASE AppendBusy
  BY <1>3 DEF AppendBusy, NoAppend, poolVars, workVars
<1>4. CASE AppendNoRoom
  BY <1>4, WakingSteps DEF AppendNoRoom, NoAppend, poolVars
<1>5. CASE AppendMark
  BY <1>5 DEF AppendMark, workVars
<1>6. CASE AppendDone
  <2>1. wpc'[v] = wpc[v] \/ (wpc[v] = "asleep" /\ wpc'[v] = "loop")
    BY <1>6, WakingSteps
  <2> QED BY <1>6, <2>1 DEF AppendDone, NoAppend
<1>7. ASSUME NEW f \in Files, AppendPath(f) PROVE ControlOf(v)'
  BY <1>7 DEF AppendPath, FirstValid, Valid, workVars
<1>8. ASSUME NEW w \in Workers, AppendRefused(w) \/ AppendEnter(w) PROVE ControlOf(v)'
  BY <1>8 DEF AppendRefused, AppendEnter, NoAppend, stvVars, poolVars, workVars
<1>9. ASSUME NEW w \in Workers, Stop(w) PROVE ControlOf(v)'
  BY <1>9, WakingSteps DEF Stop, poolVars
<1>10. ASSUME NEW w \in Workers, WorkBegin(w) \/ LoopTest(w) \/ FullTest(w) \/ FullScanLock(w) PROVE ControlOf(v)'
  <2>1. CASE WorkBegin(w)
    BY <2>1 DEF WorkBegin, poolVars
  <2>2. CASE LoopTest(w)
    BY <2>2 DEF LoopTest, poolVars
  <2>3. CASE FullTest(w)
    BY <2>3 DEF FullTest, poolVars
  <2>4. CASE FullScanLock(w)
    BY <2>4 DEF FullScanLock, poolVars
  <2> QED BY <1>10, <2>1, <2>2, <2>3, <2>4
<1>11. ASSUME NEW w \in Workers, LastTest(w) \/ EmptyWait(w) \/ SpuriousWake(w) PROVE ControlOf(v)'
  <2>1. CASE LastTest(w)
    BY <2>1 DEF LastTest, poolVars
  <2>2. CASE EmptyWait(w)
    BY <2>2 DEF EmptyWait, poolVars
  <2>3. CASE SpuriousWake(w)
    BY <2>3 DEF SpuriousWake, poolVars
  <2> QED BY <1>11, <2>1, <2>2, <2>3
<1>12. ASSUME NEW w \in Workers, SkipStopped(w) \/ SkipEmpty(w) PROVE ControlOf(v)'
  <2>1. CASE SkipStopped(w)
    BY <2>1 DEF SkipStopped, poolVars
  <2>2. CASE SkipEmpty(w)
    BY <2>2 DEF SkipEmpty, poolVars
  <2> QED BY <1>12, <2>1, <2>2
<1>13. ASSUME NEW w \in Workers, Judge(w) PROVE ControlOf(v)'
  BY <1>13 DEF Judge, poolVars
<1>14. ASSUME NEW w \in Workers, Report(w) \/ JudgeExit(w) PROVE ControlOf(v)'
  <2>1. CASE Report(w)
    BY <2>1 DEF Report, poolVars
  <2>2. CASE JudgeExit(w)
    BY <2>2 DEF JudgeExit, poolVars
  <2> QED BY <1>14, <2>1, <2>2
<1>15. ASSUME NEW w \in Workers, Consume(w) PROVE ControlOf(v)'
  BY <1>15 DEF Consume
<1>16. ASSUME NEW w \in Workers, Decrement(w) PROVE ControlOf(v)'
  BY <1>16 DEF Decrement
<1>17. ASSUME NEW w \in Workers, PassEnd(w) PROVE ControlOf(v)'
  BY <1>17 DEF PassEnd, poolVars
<1>18. CASE UNCHANGED stvVars
  BY <1>18 DEF stvVars, poolVars, workVars
<1> QED
  BY <1>1, <1>2, <1>3, <1>4, <1>5, <1>6, <1>7, <1>8, <1>9, <1>10, <1>11, <1>12, <1>13,
     <1>14, <1>15, <1>16, <1>17, <1>18 DEF Next, AppendStep, WorkStep

\* Every step keeps the order of the walker's last Append, the flags and the drain.
LEMMA FeedingStep ==
  ASSUME TypeOK, Control, Feeding, [Next]_stvVars
  PROVE  Feeding'
<1> USE ScanAssumption, SlotFacts DEF TypeOK, Feeding, FeedingOf, Scanning
<1>0. ASSUME NEW v \in Workers PROVE FeedingOf(v)'
  <2>1. CASE NewWorkers
    BY <2>1 DEF NewWorkers, Nowhere
  <2>2. ASSUME NEW w \in Workers, Last(w) PROVE FeedingOf(v)'
    BY <2>2, WakingSteps DEF Last, histVars
  <2>3. CASE AppendNoRoom \/ AppendDone
    <3>1. wpc'[v] = wpc[v] \/ (wpc[v] = "asleep" /\ wpc'[v] = "loop")
      BY <2>3, WakingSteps
    <3>2. CASE AppendNoRoom
      BY <3>1, <3>2 DEF AppendNoRoom, flagVars, histVars
    <3>3. CASE AppendDone
      <4>1. mFullScanMutex[app.w] = "walker" /\ app.w \in Workers
        BY <3>3 DEF AppendDone, Control, ControlOf
      <4>2. mFullScanMutex' = [mFullScanMutex EXCEPT ![app.w] = "free"] /\ UNCHANGED <<flagVars, feeding, stopped>>
        BY <3>3 DEF AppendDone, histVars
      <4> QED BY <3>1, <4>1, <4>2 DEF flagVars
    <3> QED BY <2>3, <3>2, <3>3
  <2>4. CASE AppendBusy \/ AppendMark \/ \E f \in Files : AppendPath(f)
    <3>1. CASE AppendBusy
      BY <3>1 DEF AppendBusy, flagVars, workVars, histVars
    <3>2. CASE AppendMark
      BY <3>2 DEF AppendMark, flagVars, workVars, histVars
    <3>3. ASSUME NEW f \in Files, AppendPath(f) PROVE FeedingOf(v)'
      BY <3>3 DEF AppendPath, flagVars, workVars
    <3> QED BY <2>4, <3>1, <3>2, <3>3
  <2>5. ASSUME NEW w \in Workers, AppendRefused(w) \/ AppendEnter(w) PROVE FeedingOf(v)'
    <3>1. UNCHANGED <<wpc, mStatus, mFinished, mLastRound, mFullScanMutex, feeding, stopped>>
      BY <2>5 DEF AppendRefused, AppendEnter, stvVars, flagVars, workVars, histVars
    <3> QED BY <3>1
  <2>6. ASSUME NEW w \in Workers, Stop(w) PROVE FeedingOf(v)'
    BY <2>6, WakingSteps DEF Stop
  <2>7. ASSUME NEW w \in Workers, WorkBegin(w) \/ LoopTest(w) \/ FullTest(w) \/ FullScanLock(w) PROVE FeedingOf(v)'
    <3>1. CASE WorkBegin(w)
      BY <3>1 DEF WorkBegin, histVars
    <3>2. CASE LoopTest(w)
      BY <3>2 DEF LoopTest, flagVars, histVars
    <3>3. CASE FullTest(w)
      BY <3>3 DEF FullTest, flagVars, histVars
    <3>4. CASE FullScanLock(w)
      BY <3>4 DEF FullScanLock, flagVars, histVars
    <3> QED BY <2>7, <3>1, <3>2, <3>3, <3>4
  <2>8. ASSUME NEW w \in Workers, LastTest(w) \/ EmptyWait(w) \/ SpuriousWake(w) PROVE FeedingOf(v)'
    <3>1. CASE LastTest(w)
      BY <3>1 DEF LastTest, histVars
    <3>2. CASE EmptyWait(w)
      BY <3>2 DEF EmptyWait, flagVars, histVars
    <3>3. CASE SpuriousWake(w)
      BY <3>3 DEF SpuriousWake, flagVars, histVars
    <3> QED BY <2>8, <3>1, <3>2, <3>3
  <2>9. ASSUME NEW w \in Workers, SkipStopped(w) \/ SkipEmpty(w) PROVE FeedingOf(v)'
    <3>1. CASE SkipStopped(w)
      BY <2>9, <3>1 DEF SkipStopped, histVars
    <3>2. CASE SkipEmpty(w)
      BY <2>9, <3>2 DEF SkipEmpty, flagVars, histVars
    <3> QED BY <2>9, <3>1, <3>2
  <2>10. ASSUME NEW w \in Workers, Judge(w) \/ Report(w) \/ Consume(w) \/ Decrement(w) PROVE FeedingOf(v)'
    <3>1. CASE Judge(w)
      BY <3>1 DEF Judge, flagVars
    <3>2. CASE Report(w)
      BY <3>2 DEF Report, flagVars, histVars
    <3>3. CASE Consume(w)
      BY <3>3 DEF Consume, flagVars, histVars
    <3>4. CASE Decrement(w)
      BY <3>4 DEF Decrement, flagVars, histVars
    <3> QED BY <2>10, <3>1, <3>2, <3>3, <3>4
  <2>11. ASSUME NEW w \in Workers, PassEnd(w) \/ JudgeExit(w) PROVE FeedingOf(v)'
    <3>1. CASE PassEnd(w)
      BY <3>1 DEF PassEnd, InFullScan, flagVars, histVars
    <3>2. CASE JudgeExit(w)
      BY <3>2 DEF JudgeExit, flagVars, histVars
    <3> QED BY <2>11, <3>1, <3>2
  <2>12. CASE UNCHANGED stvVars
    BY <2>12 DEF stvVars, flagVars, workVars, histVars
  <2> QED
    BY <2>1, <2>2, <2>3, <2>4, <2>5, <2>6, <2>7, <2>8, <2>9, <2>10, <2>11, <2>12
    DEF Next, AppendStep, WorkStep
<1>1. (app.pc # "idle" => feeding)'
  <2>1. CASE NewWorkers \/ AppendBusy \/ AppendNoRoom \/ AppendDone \/ \E w \in Workers : Last(w)
    BY <2>1 DEF NewWorkers, AppendBusy, AppendNoRoom, AppendDone, Last, NoAppend
  <2>2. CASE AppendMark \/ \E w \in Workers : AppendRefused(w) \/ AppendEnter(w)
    BY <2>2 DEF AppendMark, AppendRefused, AppendEnter, stvVars
  <2>3. CASE \E f \in Files : AppendPath(f)
    BY <2>3 DEF AppendPath
  <2>4. ASSUME UNCHANGED <<app, feeding>> PROVE (app.pc # "idle" => feeding)'
    BY <2>4
  <2> QED
    BY <2>1, <2>2, <2>3, <2>4
    DEF Next, AppendStep, WorkStep, Stop, WorkBegin, LoopTest, FullTest, FullScanLock, LastTest,
        EmptyWait, SpuriousWake, SkipStopped, SkipEmpty, Judge, Report, Consume, Decrement, PassEnd,
        JudgeExit, stvVars
<1> QED BY <1>0, <1>1

\* Only four actions move a file: the others leave the entries alone and let no
\* worker begin or end with one.
LEMMA CustodyFrame ==
  ASSUME Custody, UNCHANGED <<file, accepted, judged>>,
         \A w \in Workers : \A i \in Slots : Judging(w, i)' <=> Judging(w, i)
  PROVE  Custody'
BY DEF Custody, OneEntry, EntryState, Untouched, NotTwice, NotLost

\* Every step keeps the custody of files: Append, Judge, Consume and the rest.
LEMMA CustodyStep ==
  ASSUME TypeOK, Control, Custody, [Next]_stvVars
  PROVE  Custody'
<1> USE ScanAssumption, SlotFacts DEF TypeOK
<1>1. CASE NewWorkers
  BY <1>1 DEF NewWorkers, NoPath, Custody, OneEntry, EntryState, Untouched, NotTwice, NotLost
<1>2. ASSUME NEW f \in Files, AppendPath(f) PROVE Custody'
  <2>1. PICK k \in Slots : FirstValid(app.w, k) /\ file' = [file EXCEPT ![app.w][k] = f]
    BY <1>2 DEF AppendPath
  <2>2. file[app.w][k] = NoFile /\ ~ Judging(app.w, k)
    BY <2>1 DEF FirstValid, Valid, Control, ControlOf, Judging
  <2>3. /\ f \notin accepted /\ accepted' = accepted \cup {f}
        /\ UNCHANGED <<judged, wpc, wpos>>
    BY <1>2 DEF AppendPath, workVars
  <2>4. \A w \in Workers : \A i \in Slots :
          file'[w][i] = IF w = app.w /\ i = k THEN f ELSE file[w][i]
    BY <2>1
  <2>5. \A w \in Workers : \A i \in Slots : file[w][i] # f
    BY <2>3 DEF Custody, EntryState
  <2>6. OneEntry'
    <3> SUFFICES ASSUME NEW w \in Workers, NEW v \in Workers, NEW i \in Slots, NEW j \in Slots,
                        file'[w][i] # NoFile, file'[w][i] = file'[v][j]
                 PROVE  w = v /\ i = j
      BY DEF OneEntry
    <3>1. /\ file'[w][i] = IF w = app.w /\ i = k THEN f ELSE file[w][i]
          /\ file'[v][j] = IF v = app.w /\ j = k THEN f ELSE file[v][j]
      BY <2>4
    <3>2. file[w][i] # f /\ file[v][j] # f
      BY <2>5
    <3>3. file[w][i] # NoFile /\ file[w][i] = file[v][j] => w = v /\ i = j
      BY DEF Custody, OneEntry
    <3> QED BY <3>1, <3>2, <3>3
  <2>7. EntryState'
    <3> SUFFICES ASSUME NEW w \in Workers, NEW i \in Slots, file'[w][i] # NoFile
                 PROVE  /\ file'[w][i] \in accepted'
                        /\ judged'[file'[w][i]] = IF Judging(w, i)' THEN 1 ELSE 0
      BY DEF EntryState
    <3>1. Judging(w, i)' <=> Judging(w, i)
      BY <2>3 DEF Judging
    <3>2. CASE w = app.w /\ i = k
      <4>1. file'[w][i] = f /\ judged[f] = 0 /\ ~ Judging(w, i)
        BY <3>2, <2>2, <2>3, <2>4 DEF Custody, Untouched
      <4> QED BY <4>1, <3>1, <2>3
    <3>3. CASE ~ (w = app.w /\ i = k)
      <4>1. file'[w][i] = file[w][i]
        BY <3>3, <2>4
      <4> QED BY <4>1, <3>1, <2>3 DEF Custody, EntryState
    <3> QED BY <3>2, <3>3
  <2>8. NotLost'
    <3>1. file'[app.w][k] = f /\ app.w \in Workers
      BY <2>4
    <3>2. ASSUME NEW w \in Workers, NEW i \in Slots, file[w][i] # NoFile PROVE file'[w][i] = file[w][i]
      BY <3>2, <2>2, <2>4
    <3> SUFFICES ASSUME NEW g \in accepted', judged'[g] = 0
                 PROVE  \E w \in Workers : \E i \in Slots : file'[w][i] = g
      BY DEF NotLost
    <3>3. CASE g = f
      BY <3>1, <3>3
    <3>4. CASE g # f
      <4>1. PICK w \in Workers, i \in Slots : file[w][i] = g
        BY <3>4, <2>3 DEF Custody, NotLost
      <4>2. g # NoFile
        BY <2>3
      <4> QED BY <4>1, <4>2, <3>2
    <3> QED BY <3>3, <3>4
  <2> QED BY <2>3, <2>6, <2>7, <2>8 DEF Custody, Untouched, NotTwice
<1>3. ASSUME NEW w \in Workers, Judge(w) PROVE Custody'
  <2> DEFINE f == file[w][wpos[w]]
  <2>1. /\ wpos[w] \in Slots /\ f \in Files /\ f # NoFile /\ ~ Judging(w, wpos[w])
        /\ judged' = [judged EXCEPT ![f] = @ + 1]
        /\ wpc'[w] \in {"report", "consume"} /\ \A u \in Workers \ {w} : wpc'[u] = wpc[u]
        /\ UNCHANGED <<file, accepted, wpos>>
    BY <1>3 DEF Judge, Judging, poolVars
  <2>2. f \in accepted /\ judged[f] = 0
    BY <2>1 DEF Custody, EntryState
  <2>3. \A u \in Workers : \A i \in Slots : Judging(u, i)' <=> (Judging(u, i) \/ (u = w /\ i = wpos[w]))
    BY <2>1, <1>3 DEF Judging, Judge
  <2> HIDE DEF f
  <2>4. \A g \in Files : judged'[g] = IF g = f THEN 1 ELSE judged[g]
    BY <2>1, <2>2
  <2> QED
    BY <2>1, <2>2, <2>3, <2>4 DEF Custody, OneEntry, EntryState, Untouched, NotTwice, NotLost, f
<1>4. ASSUME NEW w \in Workers, Consume(w) PROVE Custody'
  <2>1. /\ wpos[w] \in Slots /\ Judging(w, wpos[w]) /\ file[w][wpos[w]] # NoFile
        /\ UNCHANGED <<accepted, judged, wpos>>
    BY <1>4 DEF Consume, Control, ControlOf, Judging, histVars
  <2>2. \A u \in Workers : \A i \in Slots :
          file'[u][i] = IF u = w /\ i = wpos[w] THEN NoFile ELSE file[u][i]
    BY <1>4 DEF Consume
  <2>3. \A u \in Workers : \A i \in Slots : Judging(u, i)' <=> (Judging(u, i) /\ u # w)
    BY <1>4, <2>1 DEF Consume, Judging
  <2>4. OneEntry' /\ Untouched' /\ NotTwice'
    BY <2>1, <2>2 DEF Custody, OneEntry, Untouched, NotTwice
  <2>6. EntryState'
    <3> SUFFICES ASSUME NEW u \in Workers, NEW i \in Slots, file'[u][i] # NoFile
                 PROVE  /\ file'[u][i] \in accepted'
                        /\ judged'[file'[u][i]] = IF Judging(u, i)' THEN 1 ELSE 0
      BY DEF EntryState
    <3>1. ~ (u = w /\ i = wpos[w]) /\ file'[u][i] = file[u][i]
      BY <2>2
    <3>2. Judging(u, i)' <=> Judging(u, i)
      BY <3>1, <2>3 DEF Judging
    <3> QED BY <3>1, <3>2, <2>1 DEF Custody, EntryState
  <2>5. NotLost'
    <3>1. judged[file[w][wpos[w]]] = 1
      BY <2>1 DEF Custody, EntryState
    <3> SUFFICES ASSUME NEW g \in accepted, judged[g] = 0
                 PROVE  \E u \in Workers : \E i \in Slots : file'[u][i] = g
      BY <2>1 DEF NotLost
    <3>2. PICK u \in Workers, i \in Slots : file[u][i] = g
      BY DEF Custody, NotLost
    <3>3. ~ (u = w /\ i = wpos[w])
      BY <3>1, <3>2
    <3> QED BY <3>2, <3>3, <2>2
  <2> QED BY <2>4, <2>5, <2>6 DEF Custody
<1>5. CASE AppendNoRoom \/ AppendDone \/ \E w \in Workers : Last(w) \/ Stop(w)
  <2>1. \A u \in Workers : wpc'[u] = wpc[u] \/ (wpc[u] = "asleep" /\ wpc'[u] = "loop")
    BY <1>5, WakingSteps
  <2>2. UNCHANGED <<file, accepted, judged, wpos>>
    BY <1>5 DEF Last, AppendNoRoom, AppendDone, Stop, poolVars, histVars
  <2> QED BY <2>1, <2>2, CustodyFrame DEF Judging
<1>6. CASE AppendBusy \/ AppendMark \/ \E w \in Workers : AppendRefused(w) \/ AppendEnter(w)
  <2>1. UNCHANGED <<file, accepted, judged, wpos, wpc>>
    BY <1>6 DEF AppendBusy, AppendMark, AppendRefused, AppendEnter, stvVars, poolVars, workVars, histVars
  <2> QED BY <2>1, CustodyFrame DEF Judging
<1>7. ASSUME NEW w \in Workers, WorkBegin(w) \/ LoopTest(w) \/ FullTest(w) \/ FullScanLock(w) \/ LastTest(w)
             \/ EmptyWait(w) \/ SpuriousWake(w) \/ JudgeExit(w) \/ PassEnd(w)
             \/ SkipStopped(w) \/ SkipEmpty(w) \/ Decrement(w)
      PROVE  Custody'
  <2>1. UNCHANGED <<file, accepted, judged>>
    BY <1>7 DEF WorkBegin, LoopTest, FullTest, FullScanLock, LastTest, EmptyWait, SpuriousWake, JudgeExit,
                PassEnd, SkipStopped, SkipEmpty, Decrement, poolVars, histVars
  <2>2. /\ wpc[w] \notin {"report", "consume"} /\ wpc'[w] \notin {"report", "consume"}
        /\ \A u \in Workers \ {w} : wpc'[u] = wpc[u] /\ wpos'[u] = wpos[u]
    BY <1>7 DEF WorkBegin, LoopTest, FullTest, FullScanLock, LastTest, EmptyWait, SpuriousWake, JudgeExit,
                PassEnd, SkipStopped, SkipEmpty, Decrement
  <2> QED BY <2>1, <2>2, CustodyFrame DEF Judging
<1>8. ASSUME NEW w \in Workers, Report(w) PROVE Custody'
  <2>1. \A u \in Workers : \A i \in Slots : Judging(u, i)' <=> Judging(u, i)
    BY <1>8 DEF Report, Judging
  <2> QED BY <1>8, <2>1, CustodyFrame DEF Report, poolVars, histVars
<1>9. CASE UNCHANGED stvVars
  BY <1>9, CustodyFrame DEF stvVars, poolVars, workVars, histVars, Judging
<1> QED
  BY <1>1, <1>2, <1>3, <1>4, <1>5, <1>6, <1>7, <1>8, <1>9 DEF Next, AppendStep, WorkStep

\* While the walker may append, a worker that was not stopped scans only under
\* its mutex.
LEMMA NoDrainWhileFeeding ==
  ASSUME TypeOK, Control, Feeding, NEW w \in Workers \ stopped
  PROVE  /\ (feeding /\ mFullScanMutex[w] # "worker") => wpc[w] \notin Scanning \cup {"exit", "gone"}
         /\ (app.w = w /\ app.pc \in {"mark", "count"}) => wpc[w] \notin Scanning \cup {"exit", "gone"}
BY DEF TypeOK, Control, ControlOf, Feeding, FeedingOf

\* Steps that leave a worker's entries, its mSize and the Append on it alone
\* keep its accounts, unless they take it into or out of a decrement or to its end.
LEMMA AccountingFrame ==
  ASSUME NEW w \in Workers, AccountingOf(w),
         file'[w] = file[w], prepared'[w] = prepared[w], mSize'[w] = mSize[w], wreg'[w] = wreg[w],
         \/ app' = app
         \/ /\ app.w = w => app.pc \notin {"mark", "count"}
            /\ app'.w = w => app'.pc \notin {"mark", "count"},
         wpc'[w] = "dec" <=> wpc[w] = "dec",
         wpc'[w] \in {"exit", "gone"} => wpc[w] \in {"exit", "gone"}
  PROVE  AccountingOf(w)'
BY DEF AccountingOf, Marking, Counting

\* The steps of Append on the worker it works on.
LEMMA AccountingAppend ==
  ASSUME TypeOK, Control, Feeding, NEW w \in Workers \ stopped, AccountingOf(w), app.w = w,
         AppendMark \/ AppendDone \/ \E f \in Files : AppendPath(f)
  PROVE  AccountingOf(w)'
<1> USE ScanAssumption, SlotFacts DEF TypeOK
<1>0. IsFiniteSet(prepared[w]) /\ Cardinality(prepared[w]) \in Nat
  BY FS_Subset, FS_CardinalityType
<1>1. CASE AppendMark
  <2>1. app.slot \notin prepared[w] /\ app.slot \in Slots /\ wpc[w] # "dec" /\ wpc[w] \notin {"exit", "gone"}
    BY <1>1, NoDrainWhileFeeding DEF AppendMark, AccountingOf, Marking, Scanning
  <2>2. Cardinality(prepared[w] \cup {app.slot}) = Cardinality(prepared[w]) + 1
    BY <1>0, <2>1, FS_AddElement
  <2>3. /\ prepared'[w] = prepared[w] \cup {app.slot}
        /\ app'.pc = "count" /\ app'.w = w /\ app'.reg = mSize[w]
        /\ UNCHANGED <<file, mSize, wpc, wreg>>
    BY <1>1 DEF AppendMark, workVars
  <2>4. Cardinality(prepared[w]) = mSize[w]
    BY <1>1, <2>1 DEF AppendMark, AccountingOf, Counting
  <2> QED
    BY <1>1, <2>1, <2>2, <2>3, <2>4 DEF AppendMark, AccountingOf, Marking, Counting
<1>2. CASE AppendDone
  <2>1. /\ mSize'[w] = app.reg + 1 /\ app'.pc = "idle"
        /\ UNCHANGED <<file, prepared, wreg>>
    BY <1>2 DEF AppendDone, NoAppend
  <2>2. wpc[w] \notin {"dec", "exit", "gone"}
    BY <1>2, NoDrainWhileFeeding DEF AppendDone, Scanning
  <2>3. wpc'[w] \notin {"dec", "exit", "gone"}
    BY <1>2, <2>2, WakingSteps
  <2> QED
    BY <1>2, <2>1, <2>2, <2>3 DEF AppendDone, AccountingOf, Marking, Counting
<1>3. ASSUME NEW f \in Files, AppendPath(f) PROVE AccountingOf(w)'
  <2>1. PICK k \in Slots : /\ FirstValid(w, k) /\ file' = [file EXCEPT ![w][k] = f]
                           /\ app' = [app EXCEPT !.pc = "mark", !.slot = k]
    BY <1>3 DEF AppendPath
  <2>2. wpc[w] \notin {"dec", "exit", "gone"}
    BY <1>3, NoDrainWhileFeeding DEF AppendPath, Feeding, Scanning
  <2>3. app.pc = "lock" /\ UNCHANGED <<prepared, mSize, wpc, wreg>>
    BY <1>3 DEF AppendPath, workVars
  <2>4. app'.pc = "mark" /\ app'.w = w /\ app'.slot = k
    BY <2>1
  <2>5. k \notin prepared[w] /\ f # NoFile
    BY <2>1 DEF FirstValid, Valid
  <2>6. \A i \in Slots : file'[w][i] = IF i = k THEN f ELSE file[w][i]
    BY <2>1
  <2> QED
    BY <2>2, <2>3, <2>4, <2>5, <2>6 DEF AccountingOf, Marking, Counting
<1> QED BY <1>1, <1>2, <1>3

\* A worker that ends without having been stopped has an empty pool.
LEMMA EmptyAtExit ==
  ASSUME TypeOK, Control, Feeding, NEW w \in Workers \ stopped, AccountingOf(w), PassEnd(w),
         mFullScanMutex[w] # "worker", Empty(w)
  PROVE  \A i \in Slots : file[w][i] = NoFile
<1> USE ScanAssumption, SlotFacts DEF TypeOK
<1>1. wpc[w] = "scan" /\ app.pc = "idle"
  BY DEF PassEnd, Feeding, FeedingOf, Scanning
<1>2. IsFiniteSet(prepared[w]) /\ Cardinality(prepared[w]) = mSize[w]
  BY <1>1, FS_Subset DEF AccountingOf, Counting
<1>3. prepared[w] = {}
  BY <1>2, FS_EmptySet DEF Empty
<1> QED BY <1>1, <1>3 DEF AccountingOf, Marking

\* Taking one member of a finite set makes it smaller by one.
LEMMA RemoveOne ==
  ASSUME NEW S, IsFiniteSet(S), NEW x \in S
  PROVE  Cardinality(S \ {x}) = Cardinality(S) - 1
BY FS_RemoveElement

\* Consuming an entry takes its mark and one from the count.
LEMMA AccountingConsume ==
  ASSUME TypeOK, Control, Feeding, NEW w \in Workers \ stopped, AccountingOf(w), Consume(w)
  PROVE  AccountingOf(w)'
<1> USE ScanAssumption, SlotFacts DEF TypeOK
<1>1. wpc[w] = "consume" /\ wpos[w] \in Slots /\ file[w][wpos[w]] # NoFile
  BY DEF Consume, Control, ControlOf
<1>2. ~ Counting(w) /\ \A i \in Slots : ~ Marking(w, i)
  BY <1>1, NoDrainWhileFeeding DEF Scanning, Counting, Marking
<1>3. IsFiniteSet(prepared[w]) /\ wpos[w] \in prepared[w] /\ Cardinality(prepared[w]) = mSize[w]
  BY <1>1, <1>2, FS_Subset DEF AccountingOf
<1>4. Cardinality(prepared[w] \ {wpos[w]}) = mSize[w] - 1
  <2>1. Cardinality(prepared[w] \ {wpos[w]}) = Cardinality(prepared[w]) - 1
    BY <1>3, RemoveOne
  <2> QED BY <1>3, <2>1
<1>5. /\ wpc'[w] = "dec" /\ wreg'[w] = mSize[w] /\ UNCHANGED <<mSize, app>>
      /\ prepared'[w] = prepared[w] \ {wpos[w]}
  BY DEF Consume
<1>6. \A i \in Slots : file'[w][i] = IF i = wpos[w] THEN NoFile ELSE file[w][i]
  BY DEF Consume
<1>7. ~ Counting(w)' /\ \A i \in Slots : ~ Marking(w, i)'
  BY <1>2, <1>5 DEF Counting, Marking
<1> QED BY <1>2, <1>4, <1>5, <1>6, <1>7 DEF AccountingOf

\* Storing the decremented size brings it back to the count.
LEMMA AccountingDecrement ==
  ASSUME TypeOK, Control, Feeding, NEW w \in Workers \ stopped, AccountingOf(w), Decrement(w)
  PROVE  AccountingOf(w)'
<1> USE ScanAssumption, SlotFacts DEF TypeOK
<1>1. ~ Counting(w) /\ \A i \in Slots : ~ Marking(w, i)
  BY NoDrainWhileFeeding DEF Decrement, Scanning, Counting, Marking
<1>2. /\ wpc[w] = "dec" /\ wpc'[w] = "scan" /\ mSize'[w] = wreg[w] - 1
      /\ UNCHANGED <<file, prepared, wreg, app>>
  BY DEF Decrement
<1> QED BY <1>1, <1>2 DEF AccountingOf, Counting, Marking

\* Every step keeps the accounts of the workers that were not stopped.
LEMMA AccountingStep ==
  ASSUME TypeOK, Control, Feeding, Accounting, [Next]_stvVars
  PROVE  Accounting'
<1> USE ScanAssumption, SlotFacts DEF TypeOK
<1> SUFFICES ASSUME NEW v \in Workers \ stopped' PROVE AccountingOf(v)'
  BY DEF Accounting
<1>1. CASE NewWorkers
  <2>1. /\ wpc'[v] = "begin" /\ prepared'[v] = {} /\ mSize'[v] = 0 /\ app'.pc = "idle"
        /\ \A i \in Slots : file'[v][i] = NoFile
    BY <1>1 DEF NewWorkers, NoPath, Zero, NoAppend
  <2> QED BY <2>1, FS_EmptySet DEF AccountingOf, Marking, Counting
<1>2. CASE ~ NewWorkers
  <2>1. stopped \subseteq stopped'
    <3>1. CASE AppendStep \/ UNCHANGED stvVars
      BY <3>1 DEF AppendStep, AppendBusy, AppendNoRoom, AppendMark, AppendDone, AppendPath,
           stvVars, histVars
    <3>2. ASSUME NEW w \in Workers, AppendRefused(w) \/ AppendEnter(w) \/ Last(w) \/ Stop(w)
          PROVE  stopped \subseteq stopped'
      BY <3>2 DEF AppendRefused, AppendEnter, Last, Stop, stvVars, histVars
    <3>3. ASSUME NEW w \in Workers, WorkStep(w)
          PROVE  stopped \subseteq stopped'
      BY <3>3 DEF WorkStep, WorkBegin, LoopTest, FullTest, FullScanLock, LastTest, EmptyWait,
           SkipStopped, SkipEmpty, Judge, Consume, Decrement, PassEnd, histVars
    <3>4. ASSUME NEW w \in Workers, SpuriousWake(w) \/ Report(w) \/ JudgeExit(w)
          PROVE  stopped \subseteq stopped'
      BY <3>4 DEF SpuriousWake, Report, JudgeExit, histVars
    <3> QED BY <1>2, <3>1, <3>2, <3>3, <3>4 DEF Next
  <2>2. v \in Workers \ stopped /\ AccountingOf(v)
    BY <2>1 DEF Accounting
  <2>3. CASE \E w \in Workers : Last(w) \/ Stop(w)
    <3>1. \A u \in Workers : wpc'[u] = wpc[u] \/ (wpc[u] = "asleep" /\ wpc'[u] = "loop")
      BY <2>3, WakingSteps
    <3>2. UNCHANGED <<file, prepared, mSize, wreg, app>>
      BY <2>3 DEF Last, Stop, poolVars
    <3> QED BY <2>2, <3>1, <3>2, AccountingFrame
  <2>4. CASE AppendNoRoom
    <3>1. \A u \in Workers : wpc'[u] = wpc[u] \/ (wpc[u] = "asleep" /\ wpc'[u] = "loop")
      BY <2>4, WakingSteps
    <3>2. UNCHANGED <<file, prepared, mSize, wreg>> /\ app.pc = "lock" /\ app'.pc = "idle"
      BY <2>4 DEF AppendNoRoom, NoAppend, poolVars
    <3> QED BY <2>2, <3>1, <3>2, AccountingFrame
  <2>5. CASE AppendBusy
    <3>1. UNCHANGED <<file, prepared, mSize, wreg, wpc>> /\ app.pc = "lock" /\ app'.pc = "idle"
      BY <2>5 DEF AppendBusy, NoAppend, poolVars, workVars
    <3> QED BY <2>2, <3>1, AccountingFrame
  <2>6. ASSUME NEW w \in Workers, AppendRefused(w) PROVE AccountingOf(v)'
    <3>1. UNCHANGED <<file, prepared, mSize, wreg, wpc, app>>
      BY <2>6 DEF AppendRefused, stvVars, poolVars, workVars
    <3> QED BY <2>2, <3>1, AccountingFrame
  <2>7. ASSUME NEW w \in Workers, AppendEnter(w) PROVE AccountingOf(v)'
    <3>1. UNCHANGED <<file, prepared, mSize, wreg, wpc>> /\ app.pc = "idle" /\ app'.pc = "lock"
      BY <2>7 DEF AppendEnter, NoAppend, poolVars, workVars
    <3> QED BY <2>2, <3>1, AccountingFrame
  <2>8. CASE AppendMark \/ AppendDone \/ \E f \in Files : AppendPath(f)
    <3>1. CASE app.w = v
      BY <2>2, <2>8, <3>1, AccountingAppend
    <3>2. CASE app.w # v
      <4>1. file'[v] = file[v] /\ prepared'[v] = prepared[v] /\ mSize'[v] = mSize[v] /\ wreg' = wreg
        BY <2>8, <3>2 DEF AppendMark, AppendDone, AppendPath, workVars
      <4>2. wpc'[v] = wpc[v] \/ (wpc[v] = "asleep" /\ wpc'[v] = "loop")
        BY <2>8, WakingSteps DEF AppendMark, AppendPath, workVars
      <4>3. app'.w # v \/ app'.pc = "idle"
        <5>1. CASE AppendDone
          BY <5>1 DEF AppendDone, NoAppend
        <5>2. CASE AppendMark
          <6>1. app' = [app EXCEPT !.pc = "count", !.reg = mSize[app.w]]
            BY <5>2 DEF AppendMark
          <6> QED BY <6>1, <3>2
        <5>3. ASSUME NEW f \in Files, AppendPath(f) PROVE app'.w # v
          <6>1. PICK i \in Slots : app' = [app EXCEPT !.pc = "mark", !.slot = i]
            BY <5>3 DEF AppendPath
          <6> QED BY <6>1, <3>2
        <5> QED BY <2>8, <5>1, <5>2, <5>3
      <4> QED BY <2>2, <3>2, <4>1, <4>2, <4>3, AccountingFrame
    <3> QED BY <3>1, <3>2
  <2>9. ASSUME NEW w \in Workers, Consume(w) PROVE AccountingOf(v)'
    <3>1. CASE w = v
      BY <2>2, <2>9, <3>1, AccountingConsume
    <3>2. CASE w # v
      <4>1. /\ file'[v] = file[v] /\ prepared'[v] = prepared[v] /\ mSize' = mSize
            /\ wreg'[v] = wreg[v] /\ wpc'[v] = wpc[v] /\ app' = app
        BY <2>9, <3>2 DEF Consume
      <4> QED BY <2>2, <4>1, AccountingFrame
    <3> QED BY <3>1, <3>2
  <2>10. ASSUME NEW w \in Workers, Decrement(w) PROVE AccountingOf(v)'
    <3>1. CASE w = v
      BY <2>2, <2>10, <3>1, AccountingDecrement
    <3>2. CASE w # v
      <4>1. /\ file' = file /\ prepared' = prepared /\ mSize'[v] = mSize[v]
            /\ wreg' = wreg /\ wpc'[v] = wpc[v] /\ app' = app
        BY <2>10, <3>2 DEF Decrement
      <4> QED BY <2>2, <4>1, AccountingFrame
    <3> QED BY <3>1, <3>2
  <2>11. ASSUME NEW w \in Workers, PassEnd(w) PROVE AccountingOf(v)'
    <3>1. UNCHANGED <<file, prepared, mSize, wreg, app>>
      BY <2>11 DEF PassEnd, poolVars
    <3>2. CASE w = v /\ mFullScanMutex[v] # "worker" /\ Empty(v)
      <4>1. \A i \in Slots : file[v][i] = NoFile
        BY <2>2, <2>11, <3>2, EmptyAtExit
      <4>2. wpc[v] # "dec" /\ wpc'[v] # "dec"
        BY <2>11, <3>2 DEF PassEnd, InFullScan
      <4> QED BY <2>2, <3>1, <4>1, <4>2 DEF AccountingOf, Marking, Counting
    <3>3. CASE ~ (w = v /\ mFullScanMutex[v] # "worker" /\ Empty(v))
      <4>1. /\ wpc'[v] = "dec" <=> wpc[v] = "dec"
            /\ wpc'[v] \in {"exit", "gone"} => wpc[v] \in {"exit", "gone"}
        BY <2>11, <3>3 DEF PassEnd, InFullScan
      <4> QED BY <2>2, <3>1, <4>1, AccountingFrame
    <3> QED BY <3>2, <3>3
  <2>12. ASSUME NEW w \in Workers, LoopTest(w) PROVE AccountingOf(v)'
    <3>1. UNCHANGED <<file, prepared, mSize, wreg, app>>
      BY <2>12 DEF LoopTest, poolVars
    <3>2. mStatus[v] # "STOP"
      BY <2>2 DEF Feeding, FeedingOf
    <3>3. /\ wpc'[v] = "dec" <=> wpc[v] = "dec"
          /\ wpc'[v] \in {"exit", "gone"} => wpc[v] \in {"exit", "gone"}
      BY <2>12, <3>2 DEF LoopTest
    <3> QED BY <2>2, <3>1, <3>3, AccountingFrame
  <2>13. ASSUME NEW w \in Workers,
                WorkBegin(w) \/ FullTest(w) \/ FullScanLock(w) \/ LastTest(w) \/ EmptyWait(w) \/ SpuriousWake(w)
                \/ SkipStopped(w) \/ SkipEmpty(w) \/ Judge(w) \/ Report(w) \/ JudgeExit(w)
         PROVE  AccountingOf(v)'
    <3>1. UNCHANGED <<file, prepared, mSize, wreg, app>>
      BY <2>13 DEF WorkBegin, FullTest, FullScanLock, LastTest, EmptyWait, SpuriousWake, SkipStopped,
                   SkipEmpty, Judge, Report, JudgeExit, poolVars
    <3>2. /\ wpc'[v] = "dec" <=> wpc[v] = "dec"
          /\ wpc'[v] \in {"exit", "gone"} => wpc[v] \in {"exit", "gone"}
      BY <2>13 DEF WorkBegin, FullTest, FullScanLock, LastTest, EmptyWait, SpuriousWake, SkipStopped,
                   SkipEmpty, Judge, Report, JudgeExit
    <3> QED BY <2>2, <3>1, <3>2, AccountingFrame
  <2>14. CASE UNCHANGED stvVars
    BY <2>2, <2>14, AccountingFrame DEF stvVars, poolVars, workVars
  <2> QED
    BY <1>2, <2>3, <2>4, <2>5, <2>6, <2>7, <2>8, <2>9, <2>10, <2>11, <2>12, <2>13, <2>14
    DEF Next, AppendStep, WorkStep
<1> QED BY <1>1, <1>2

-----------------------------------------------------------------------------
\* The initial states satisfy the invariant: no worker, no file.
LEMMA InitInvariant == Init => IInv
<1> SUFFICES ASSUME Init PROVE IInv
  OBVIOUS
<1> USE ScanAssumption, SlotFacts DEF Init
<1>1. TypeOK
  <2>1. app \in [pc : {"idle", "lock", "mark", "count"}, w : Workers, slot : Slots, reg : Int]
    BY DEF NoAppend
  <2>2. /\ file \in [Workers -> [Slots -> Files \cup {NoFile}]]
        /\ prepared \in [Workers -> SUBSET Slots]
    BY DEF NoPath
  <2>3. /\ mSize \in [Workers -> Int] /\ wpos \in [Workers -> 0 .. MAX_FILE_POOL]
        /\ wreg \in [Workers -> Int] /\ mVirusCount \in [Workers -> Nat]
        /\ mFinished \in [Workers -> BOOLEAN] /\ mLastRound \in [Workers -> BOOLEAN]
    BY DEF Zero, Nowhere
  <2>4. /\ mStatus \in [Workers -> {"INITILIZE", "SCANING", "STOP"}]
        /\ mFullScanMutex \in [Workers -> {"free", "worker", "walker"}]
        /\ wpc \in [Workers -> WorkerPC] /\ judged \in [Files -> Nat]
    BY DEF WorkerPC
  <2> QED BY <2>1, <2>2, <2>3, <2>4 DEF TypeOK
<1>2. Control
  BY DEF Control, ControlOf, NoAppend
<1>3. Feeding
  BY DEF Feeding, FeedingOf, Nowhere, NoAppend, Scanning
<1>4. Custody
  BY DEF Custody, OneEntry, EntryState, Untouched, NotTwice, NotLost, NoPath
<1>5. Accounting
  <2> SUFFICES ASSUME NEW w \in Workers \ stopped PROVE AccountingOf(w)
    BY DEF Accounting
  <2>1. /\ prepared[w] = {} /\ mSize[w] = 0 /\ wpc[w] = "none" /\ app.pc = "idle"
        /\ \A i \in Slots : file[w][i] = NoFile
    BY DEF NoPath, Zero, NoAppend
  <2> QED BY <2>1, FS_EmptySet DEF AccountingOf, Marking, Counting
<1> QED BY <1>1, <1>2, <1>3, <1>4, <1>5 DEF IInv

\* Type correctness, custody of the files and the accounts hold in every state.
THEOREM Invariance == Spec => []IInv
<1>1. IInv /\ [Next]_stvVars => IInv'
  BY TypeStep, ControlStep, FeedingStep, CustodyStep, AccountingStep DEF IInv
<1> QED BY <1>1, InitInvariant, PTL DEF Spec

\* Every variable of the workers and of Append keeps its type.
THEOREM TypeCorrect == Spec => []TypeOK
<1>1. IInv => TypeOK
  BY DEF IInv
<1> QED BY <1>1, Invariance, PTL

\* However Append, Stop and the two scans of the pool interleave, no file goes
\* through the engine twice.
THEOREM NoFileTwice == Spec => []JudgedOnce
<1>1. IInv => JudgedOnce
  BY DEF IInv, Custody, NotTwice, JudgedOnce
<1> QED BY <1>1, Invariance, PTL

\* When no worker was stopped and all have ended, each accepted file was judged.
THEOREM NoFileLost == Spec => []EveryFileJudged
<1>1. IInv => EveryFileJudged
  <2> SUFFICES ASSUME IInv, stopped = {}, \A w \in Workers : wpc[w] = "gone", NEW f \in accepted
               PROVE  judged[f] = 1
    BY DEF EveryFileJudged
  <2>1. f \in Files /\ f # NoFile
    BY ScanAssumption DEF IInv, TypeOK
  <2>2. \A w \in Workers : \A i \in Slots : file[w][i] = NoFile
    BY DEF IInv, Accounting, AccountingOf
  <2>3. judged[f] # 0
    BY <2>1, <2>2 DEF IInv, Custody, NotLost
  <2> QED BY <2>1, <2>3 DEF IInv, Custody, NotTwice
<1> QED BY <1>1, Invariance, PTL

\* mSize, changed by two threads without a common lock, counts the entries.
THEOREM SizeCounts == Spec => []SizeIsCount
<1>1. IInv => SizeIsCount
  BY DEF IInv, Accounting, AccountingOf, Counting, SizeIsCount
<1> QED BY <1>1, Invariance, PTL

\* The pools are safe in every order of Append, Last, Stop and Work.
THEOREM PoolsAreSafe == Spec => []PoolSafety
<1>1. TypeOK /\ JudgedOnce /\ EveryFileJudged /\ SizeIsCount => PoolSafety
  BY DEF PoolSafety
<1> QED BY <1>1, TypeCorrect, NoFileTwice, NoFileLost, SizeCounts, PTL

\* No file is added to the pool of a worker that is scanning it, unless the
\* worker was stopped.
THEOREM NoAppendInScan == Spec => NoAppendDuringScanUnlessStopped
<1>1. IInv /\ [Next]_stvVars => [AddsDuring(Workers \ stopped)]_stvVars
  <2> SUFFICES ASSUME IInv, Next, NEW w \in Workers \ stopped, wpc[w] \in Scanning, NEW i \in Slots
               PROVE  file'[w][i] \in {file[w][i], NoFile}
    BY DEF AddsDuring
  <2>1. CASE NewWorkers
    BY <2>1 DEF NewWorkers, NoPath
  <2>2. ASSUME NEW f \in Files, AppendPath(f) PROVE file'[w][i] = file[w][i]
    <3>1. app.w # w
      BY <2>2, NoDrainWhileFeeding DEF IInv, Feeding, AppendPath
    <3> QED BY <2>2, <3>1 DEF AppendPath, IInv, TypeOK
  <2>3. ASSUME NEW u \in Workers, Consume(u) PROVE file'[w][i] \in {file[w][i], NoFile}
    BY <2>3 DEF Consume, IInv, TypeOK
  <2>4. CASE file' = file
    BY <2>4
  <2> QED
    BY <2>1, <2>2, <2>3, <2>4
    DEF Next, AppendStep, WorkStep, Last, AppendBusy, AppendNoRoom, AppendMark,
         AppendDone, AppendRefused, AppendEnter, Stop, WorkBegin, LoopTest,
         FullTest, FullScanLock, LastTest, EmptyWait, SpuriousWake, SkipStopped, SkipEmpty, Judge, Report,
         Decrement, PassEnd, JudgeExit, stvVars, poolVars
<1> QED BY <1>1, Invariance, PTL DEF NoAppendDuringScanUnlessStopped, Spec

-----------------------------------------------------------------------------
(* The engine. *)

\* The loop indices and program counters of the engine's own threads.
Indices ==
  /\ tree \in Seq(Files)
  /\ wkpos \in Nat \ {0}
  /\ wki \in 0 .. ThreadCount /\ clk \in 0 .. ThreadCount /\ upk \in 0 .. ThreadCount
  /\ wkpc \in {"none", "begin", "next", "deal", "try", "call", "leave", "last", "gone"}
  /\ ctpc \in {"none", "begin", "gone"}
  /\ wkpc \in {"deal", "try", "call", "leave"} => wkpos <= Len(tree)
  /\ wkpc = "call" => wki < ThreadCount
  /\ clpc = "join" => clk < ThreadCount

\* The steps that neither create the threads of a job nor end one of them.
ThreadStep ==
  \/ \E w \in Workers : WorkerStep(w) \/ WorkerSpurious(w) \/ WorkerReport(w)
  \/ WalkBegin \/ WalkFile \/ DealLock \/ DealTry \/ DealCall \/ DealAgain \/ DealLeave
  \/ WalkOver \/ WalkLast
CallerStep ==
  \/ StartCall \/ StartLock \/ ReleaseStop \/ ReleaseJoin \/ ReleaseWalk \/ StartUnlock
  \/ StopCall \/ StopWalk \/ StopWorker

\* A thread's bit is set exactly when the thread has ended.
BitsOf ==
  /\ mScanStopStatue \subseteq mScanExitFlag
  /\ CountBit \in mScanStopStatue <=> ctpc = "gone"
  /\ WalkBit \in mScanStopStatue <=> wkpc = "gone"
  /\ \A w \in Workers : ExitBit(w) \in mScanStopStatue <=> wpc[w] = "gone"

\* When the end of the job is announced: after the walk, and for a walk that
\* met a file once, with the last bit.
Announced ==
  /\ finished \in Nat
  /\ finished > 0 => wkpc = "gone"
  /\ wkpos > 1 => finished = IF mScanStopStatue = mScanExitFlag THEN 1 ELSE 0
Bits == BitsOf /\ Announced

\* Threads exist from the first Start on, and Start finds a job that has been
\* announced.
Callers ==
  /\ job \in Nat
  /\ wkpc = "none" <=> job = 0
  /\ \A w \in Workers : wpc[w] = "none" <=> job = 0
  /\ clpc \in {"lock", "release", "join", "create"} => job = 0 \/ finished > 0
  /\ clpc \in {"release", "join"} => job > 0
  /\ upc # "idle" => job > 0

EInv == Indices /\ Bits /\ Callers

-----------------------------------------------------------------------------
\* EngineNext, sorted by what a step does to the set of threads.
LEMMA SortedSteps ==
  EngineNext <=> \/ ThreadStep \/ CallerStep \/ StartCreate
                 \/ CountFinish \/ WalkFinish \/ \E w \in Workers : WorkerExit(w)
BY DEF EngineNext, ThreadStep, CallerStep, Walker, Starter

\* An index below ThreadCount is a worker, and its successor is still an index.
LEMMA IndexFacts ==
  ASSUME NEW k \in 0 .. ThreadCount, k < ThreadCount
  PROVE  k \in Workers /\ k + 1 \in 0 .. ThreadCount
BY ScanAssumption DEF Workers

\* Every step of the engine is a step of the workers' specification, or leaves
\* the workers alone.
LEMMA EngineStepIsWorkerStep ==
  ASSUME Indices, [EngineNext]_vars
  PROVE  [Next]_stvVars
<1>1. CASE UNCHANGED vars
  BY <1>1 DEF vars
<1>2. ASSUME NEW w \in Workers, WorkerStep(w) \/ WorkerSpurious(w) \/ WorkerReport(w) \/ WorkerExit(w)
      PROVE  Next
  BY <1>2 DEF WorkerStep, WorkerSpurious, WorkerReport, WorkerExit, Next
<1>3. CASE WalkBegin \/ WalkFile \/ DealLock \/ DealAgain \/ DealLeave \/ WalkOver \/ WalkFinish
  BY <1>3 DEF WalkBegin, WalkFile, DealLock, DealAgain, DealLeave, WalkOver, WalkFinish
<1>4. CASE DealTry
  <2>1. wki \in Workers
    BY <1>4, IndexFacts DEF DealTry, Indices
  <2> QED BY <1>4, <2>1 DEF DealTry, Next
<1>5. CASE DealCall
  <2>1. wkpos \in 1 .. Len(tree)
    BY <1>5 DEF DealCall, Indices
  <2>2. tree[wkpos] \in Files
    BY <2>1 DEF Indices
  <2> QED BY <1>5, <2>2 DEF DealCall, Next, AppendStep
<1>6. CASE WalkLast
  <2>1. wki \in Workers
    BY <1>6, IndexFacts DEF WalkLast, Indices
  <2> QED BY <1>6, <2>1 DEF WalkLast, Next
<1>7. CASE ReleaseStop
  <2>1. clk \in Workers
    BY <1>7, IndexFacts DEF ReleaseStop, Indices
  <2> QED BY <1>7, <2>1 DEF ReleaseStop, Next
<1>8. CASE StopWorker
  <2>1. upk < ThreadCount => upk \in Workers
    BY IndexFacts DEF Indices
  <2> QED BY <1>8, <2>1 DEF StopWorker, Next
<1>9. CASE StartCreate
  BY <1>9 DEF StartCreate, Next
<1>10. CASE CountFinish \/ StartCall \/ StartLock \/ ReleaseJoin \/ ReleaseWalk \/ StartUnlock \/ StopCall \/ StopWalk
  BY <1>10 DEF CountFinish, StartCall, StartLock, ReleaseJoin, ReleaseWalk, StartUnlock, StopCall, StopWalk
<1> QED
  BY <1>1, <1>2, <1>3, <1>4, <1>5, <1>6, <1>7, <1>8, <1>9, <1>10 DEF EngineNext, Walker, Starter

\* Every step keeps the engine's indices where its loops need them.
LEMMA IndicesStep ==
  ASSUME Indices, [EngineNext]_vars
  PROVE  Indices'
<1> USE DEF Indices
<1>1. CASE UNCHANGED vars
  BY <1>1 DEF vars, walkVars, callVars
<1>2. ASSUME NEW w \in Workers, WorkerStep(w) \/ WorkerSpurious(w) \/ WorkerReport(w) \/ WorkerExit(w)
      PROVE  Indices'
  BY <1>2 DEF WorkerStep, WorkerSpurious, WorkerReport, WorkerExit, walkVars, callVars
<1>3. CASE WalkBegin
  BY <1>3 DEF WalkBegin, callVars
<1>4. CASE WalkFile
  BY <1>4 DEF WalkFile, MoreFiles, callVars
<1>5. CASE DealLock
  BY <1>5, ScanAssumption DEF DealLock, callVars
<1>6. CASE DealTry
  <2>1. wki \in Workers /\ wki + 1 \in 0 .. ThreadCount
    BY <1>6, IndexFacts DEF DealTry
  <2> QED BY <1>6, <2>1 DEF DealTry, callVars
<1>7. CASE DealCall
  <2>1. wki + 1 \in 0 .. ThreadCount /\ wkpc = "call"
    BY <1>7, IndexFacts DEF DealCall
  <2> QED BY <1>7, <2>1 DEF DealCall, callVars
<1>8. CASE DealAgain \/ DealLeave
  BY <1>8, ScanAssumption DEF DealAgain, DealLeave, callVars
<1>9. CASE WalkOver \/ WalkFinish
  BY <1>9, ScanAssumption DEF WalkOver, WalkFinish, callVars
<1>10. CASE WalkLast
  BY <1>10, IndexFacts DEF WalkLast, callVars
<1>11. CASE CountFinish
  BY <1>11 DEF CountFinish, walkVars, callVars
<1>12. CASE StartCall \/ StartLock \/ StartUnlock
  BY <1>12, ScanAssumption DEF StartCall, StartLock, StartUnlock, walkVars
<1>13. CASE ReleaseStop
  BY <1>13 DEF ReleaseStop, walkVars
<1>14. CASE ReleaseJoin
  BY <1>14, IndexFacts DEF ReleaseJoin, walkVars
<1>15. CASE ReleaseWalk
  BY <1>15 DEF ReleaseWalk
<1>16. CASE StartCreate
  BY <1>16, EngineAssumption, ScanAssumption DEF StartCreate
<1>17. CASE StopCall \/ StopWalk
  BY <1>17, ScanAssumption DEF StopCall, StopWalk, walkVars
<1>18. CASE StopWorker
  BY <1>18, IndexFacts DEF StopWorker, walkVars
<1> QED
  BY <1>1, <1>2, <1>3, <1>4, <1>5, <1>6, <1>7, <1>8, <1>9, <1>10, <1>11, <1>12, <1>13,
     <1>14, <1>15, <1>16, <1>17, <1>18 DEF EngineNext, Walker, Starter

\* The indices are right in every state of the engine.
LEMMA IndicesAlways == EngineSpec => []Indices
<1>1. EngineInit => Indices
  BY ScanAssumption DEF EngineInit, Indices
<1> QED BY <1>1, IndicesStep, PTL DEF EngineSpec

\* The engine calls its workers only as their specification allows: what is
\* proved of the workers holds in the engine.
THEOREM EngineUsesWorkers == EngineSpec => Spec
<1>1. EngineInit => Init
  BY DEF EngineInit
<1> QED BY <1>1, IndicesAlways, EngineStepIsWorkerStep, PTL DEF EngineSpec, Spec

-----------------------------------------------------------------------------
\* The bits are different numbers.
LEMMA BitFacts ==
  /\ CountBit # WalkBit /\ CountBit \in mScanExitFlag /\ WalkBit \in mScanExitFlag
  /\ \A w \in Workers : ExitBit(w) \in mScanExitFlag /\ ExitBit(w) # CountBit /\ ExitBit(w) # WalkBit
  /\ \A u, w \in Workers : ExitBit(u) = ExitBit(w) => u = w
BY DEF CountBit, WalkBit, ExitBit, mScanExitFlag, Workers

\* No step of a worker but JudgeExit, and no call on a worker, makes a worker
\* end or appear.
LEMMA WorkersStay ==
  ASSUME TypeOK, NEW w \in Workers,
         \/ WorkStep(w) \/ SpuriousWake(w) \/ Report(w) \/ Last(w) \/ Stop(w)
         \/ AppendRefused(w) \/ AppendEnter(w) \/ AppendStep
  PROVE  \A u \in Workers : /\ wpc'[u] = "gone" <=> wpc[u] = "gone"
                            /\ wpc'[u] = "none" <=> wpc[u] = "none"
<1>0. wpc \in [Workers -> WorkerPC]
  BY DEF TypeOK
<1> SUFFICES ASSUME NEW u \in Workers
             PROVE  /\ wpc'[u] = "gone" <=> wpc[u] = "gone"
                    /\ wpc'[u] = "none" <=> wpc[u] = "none"
  OBVIOUS
<1>1. CASE Last(w) \/ Stop(w) \/ AppendNoRoom \/ AppendDone
  <2>1. wpc'[u] = wpc[u] \/ (wpc[u] = "asleep" /\ wpc'[u] = "loop")
    BY <1>1, WakingSteps
  <2> QED BY <2>1
<1>2. CASE AppendRefused(w) \/ AppendEnter(w) \/ AppendBusy \/ AppendMark \/ \E f \in Files : AppendPath(f)
  <2>1. wpc' = wpc
    BY <1>2 DEF AppendRefused, AppendEnter, AppendBusy, AppendMark, AppendPath, stvVars, workVars
  <2> QED BY <2>1
<1>3. CASE WorkStep(w) \/ SpuriousWake(w) \/ Report(w)
  <2>1. wpc[w] \notin {"none", "gone"} /\ \E pc \in WorkerPC \ {"none", "gone"} : wpc' = [wpc EXCEPT ![w] = pc]
    <3>1. CASE WorkBegin(w) \/ EmptyWait(w) \/ SpuriousWake(w) \/ FullScanLock(w)
      BY <1>0, <3>1 DEF WorkBegin, EmptyWait, SpuriousWake, FullScanLock, WorkerPC
    <3>2. CASE LoopTest(w) \/ FullTest(w) \/ LastTest(w)
      BY <1>0, <3>2 DEF LoopTest, FullTest, LastTest, WorkerPC
    <3>3. CASE SkipStopped(w) \/ SkipEmpty(w)
      <4>1. wpc' = [wpc EXCEPT ![w] = "scan"] /\ wpc[w] = "scan"
        BY <1>0, <3>3 DEF SkipStopped, SkipEmpty
      <4> QED BY <4>1 DEF WorkerPC
    <3>4. CASE Judge(w)
      BY <1>0, <3>4 DEF Judge, WorkerPC
    <3>5. CASE Report(w) \/ Consume(w) \/ Decrement(w)
      BY <1>0, <3>5 DEF Report, Consume, Decrement, WorkerPC
    <3>6. CASE PassEnd(w)
      BY <1>0, <3>6 DEF PassEnd, WorkerPC
    <3> QED BY <1>3, <3>1, <3>2, <3>3, <3>4, <3>5, <3>6 DEF WorkStep
  <2> QED BY <1>0, <2>1
<1> QED
  BY <1>1, <1>2, <1>3 DEF AppendStep

\* What the steps that end no thread leave alone.
ThreadsStay ==
  /\ UNCHANGED <<mScanStopStatue, finished, ctpc, job>>
  /\ wkpc' = "gone" <=> wkpc = "gone"
  /\ wkpc' = "none" <=> wkpc = "none"
  /\ \A u \in Workers : /\ wpc'[u] = "gone" <=> wpc[u] = "gone"
                        /\ wpc'[u] = "none" <=> wpc[u] = "none"
  /\ wkpos' = wkpos \/ wkpc \notin {"none", "gone"}

\* The steps of the threads of a job, but the last of each, are such steps ...
LEMMA ThreadStepStays ==
  ASSUME TypeOK, Indices, ThreadStep
  PROVE  ThreadsStay
<1> USE DEF ThreadsStay
<1>1. ASSUME NEW w \in Workers, WorkerStep(w) \/ WorkerSpurious(w) \/ WorkerReport(w)
      PROVE  ThreadsStay
  BY <1>1, WorkersStay DEF WorkerStep, WorkerSpurious, WorkerReport, engVars, walkVars, callVars
<1>2. CASE WalkBegin \/ WalkFile \/ DealLock \/ DealAgain \/ DealLeave \/ WalkOver
  BY <1>2 DEF WalkBegin, WalkFile, DealLock, DealAgain, DealLeave, WalkOver, stvVars, workVars, engVars, callVars
<1>3. CASE DealTry
  <2>1. wki \in Workers
    BY <1>3, IndexFacts DEF DealTry, Indices
  <2> QED BY <1>3, <2>1, WorkersStay DEF DealTry, engVars, callVars
<1>4. CASE DealCall
  <2>1. tree[wkpos] \in Files
    BY <1>4 DEF DealCall, Indices
  <2>2. AppendStep
    BY <1>4, <2>1 DEF DealCall, AppendStep
  <2> QED BY <1>4, <2>2, WorkersStay, SlotFacts DEF DealCall, engVars, callVars
<1>5. CASE WalkLast
  <2>1. wki \in Workers
    BY <1>5, IndexFacts DEF WalkLast, Indices
  <2> QED BY <1>5, <2>1, WorkersStay DEF WalkLast, engVars, callVars
<1> QED BY <1>1, <1>2, <1>3, <1>4, <1>5 DEF ThreadStep

\* ... and so are the steps of the callers of Start and Stop, but StartCreate.
LEMMA CallerStepStays ==
  ASSUME TypeOK, Indices, CallerStep
  PROVE  ThreadsStay /\ UNCHANGED <<wkpc, wkpos>>
<1> USE DEF ThreadsStay
<1>1. CASE StartCall \/ StartLock \/ ReleaseJoin \/ ReleaseWalk \/ StartUnlock \/ StopCall \/ StopWalk
  BY <1>1 DEF StartCall, StartLock, ReleaseJoin, ReleaseWalk, StartUnlock, StopCall, StopWalk,
              stvVars, workVars, engVars, walkVars, callVars
<1>2. CASE ReleaseStop
  <2>1. clk \in Workers
    BY <1>2, IndexFacts DEF ReleaseStop, Indices
  <2> QED BY <1>2, <2>1, WorkersStay DEF ReleaseStop, engVars, walkVars
<1>3. CASE StopWorker
  <2>1. CASE upk < ThreadCount
    <3>1. upk \in Workers /\ Stop(upk)
      BY <1>3, <2>1, IndexFacts DEF StopWorker, Indices
    <3> QED BY <1>3, <3>1, WorkersStay DEF StopWorker, engVars, walkVars
  <2>2. CASE UNCHANGED stvVars
    BY <1>3, <2>2 DEF StopWorker, engVars, walkVars, stvVars, workVars
  <2> QED BY <1>3, <2>1, <2>2 DEF StopWorker
<1> QED BY <1>1, <1>2, <1>3 DEF CallerStep

\* The end of a thread sets its bit, and announces the end of the job with the
\* last bit or after an empty walk.
LEMMA EndAnnounced ==
  ASSUME NEW bit \in mScanExitFlag, NEW early \in BOOLEAN, ThreadEnds(bit, early),
         finished \in Nat
  PROVE  /\ mScanStopStatue' = mScanStopStatue \cup {bit}
         /\ finished' = IF mScanStopStatue' = mScanExitFlag \/ early THEN finished + 1 ELSE finished
         /\ finished' \in Nat
BY DEF ThreadEnds

\* A thread that ends sets a new bit; when it may announce the end of the job
\* only after the walk, the announcement stays as Announced says.
LEMMA EndKeepsAnnounced ==
  ASSUME NEW bit \in mScanExitFlag, NEW early \in BOOLEAN, ThreadEnds(bit, early),
         bit \notin mScanStopStatue, Announced, wkpos' = wkpos, wkpos > 1 => ~ early,
         wkpc = "gone" => wkpc' = "gone",
         (mScanStopStatue' = mScanExitFlag \/ early) => wkpc' = "gone"
  PROVE  Announced'
<1>1. mScanStopStatue # mScanExitFlag
  OBVIOUS
<1>2. /\ finished' = IF mScanStopStatue' = mScanExitFlag \/ early THEN finished + 1 ELSE finished
      /\ finished' \in Nat
  BY EndAnnounced DEF Announced
<1>3. finished' > 0 => wkpc' = "gone"
  BY <1>2 DEF Announced
<1>4. wkpos > 1 => finished = 0
  BY <1>1 DEF Announced
<1> QED BY <1>2, <1>3, <1>4 DEF Announced

\* Every step keeps the bits and the announcement in step with the threads.
LEMMA BitsStep ==
  ASSUME TypeOK, Indices, Bits, [EngineNext]_vars
  PROVE  Bits'
<1> USE DEF Bits, BitsOf, Announced
<1>1. CASE UNCHANGED vars
  BY <1>1 DEF vars, stvVars, workVars, engVars, walkVars
<1>2. ASSUME ThreadsStay PROVE Bits'
  <2>1. BitsOf'
    BY <1>2 DEF ThreadsStay
  <2>2. CASE wkpos' = wkpos
    BY <1>2, <2>1, <2>2 DEF ThreadsStay
  <2>3. CASE wkpc \notin {"none", "gone"}
    <3>1. finished = 0 /\ mScanStopStatue # mScanExitFlag
      BY <2>3, BitFacts
    <3> QED BY <1>2, <2>1, <3>1 DEF ThreadsStay
  <2> QED BY <1>2, <2>2, <2>3 DEF ThreadsStay
<1>3. CASE StartCreate
  <2>1. mScanStopStatue' = {} /\ finished' = 0 /\ wkpc' = "begin" /\ wkpos' = 1 /\ ctpc' = "begin"
    BY <1>3 DEF StartCreate
  <2>2. \A w \in Workers : wpc'[w] = "begin"
    BY <1>3 DEF StartCreate, NewWorkers
  <2> QED BY <2>1, <2>2
<1>4. CASE CountFinish
  <2>1. /\ ThreadEnds(CountBit, FALSE) /\ ctpc = "begin" /\ ctpc' = "gone"
        /\ UNCHANGED <<wpc, wkpc, wkpos>>
    BY <1>4 DEF CountFinish, stvVars, workVars, walkVars
  <2>2. CountBit \notin mScanStopStatue
    BY <2>1
  <2>3. BitsOf'
    BY <2>1, BitFacts, EndAnnounced
  <2>4. mScanStopStatue' = mScanExitFlag => wkpc = "gone"
    BY <2>1, BitFacts, EndAnnounced
  <2>5. Announced'
    BY <2>1, <2>2, <2>4, BitFacts, EndKeepsAnnounced
  <2> QED BY <2>3, <2>5
<1>5. ASSUME NEW w \in Workers, WorkerExit(w) PROVE Bits'
  <2>1. /\ ThreadEnds(ExitBit(w), FALSE) /\ wpc[w] = "exit"
        /\ wpc' = [wpc EXCEPT ![w] = "gone"]
        /\ UNCHANGED <<ctpc, wkpc, wkpos>>
    BY <1>5 DEF WorkerExit, JudgeExit, walkVars
  <2>2. ExitBit(w) \notin mScanStopStatue
    BY <2>1
  <2>3. BitsOf'
    <3>1. mScanStopStatue' = mScanStopStatue \cup {ExitBit(w)}
      BY <2>1, BitFacts, EndAnnounced
    <3>2. \A u \in Workers : wpc'[u] = "gone" <=> (wpc[u] = "gone" \/ u = w)
      BY <2>1 DEF TypeOK
    <3> QED BY <2>1, <3>1, <3>2, BitFacts
  <2>4. mScanStopStatue' = mScanExitFlag => wkpc = "gone"
    BY <2>1, BitFacts, EndAnnounced
  <2>5. Announced'
    BY <2>1, <2>2, <2>4, BitFacts, EndKeepsAnnounced
  <2> QED BY <2>3, <2>5
<1>6. CASE WalkFinish
  <2>1. /\ ThreadEnds(WalkBit, wkpos = 1) /\ wkpc = "last" /\ wkpc' = "gone"
        /\ UNCHANGED <<wpc, ctpc, wkpos>>
    BY <1>6 DEF WalkFinish, stvVars, workVars
  <2>2. WalkBit \notin mScanStopStatue /\ finished = 0
    BY <2>1
  <2>3. BitsOf'
    BY <2>1, BitFacts, EndAnnounced
  <2>4. wkpos > 1 => ~ (wkpos = 1)
    BY DEF Indices
  <2>5. Announced'
    BY <2>1, <2>2, <2>4, BitFacts, EndKeepsAnnounced
  <2> QED BY <2>3, <2>5
<1> QED
  BY <1>1, <1>2, <1>3, <1>4, <1>5, <1>6, SortedSteps, ThreadStepStays, CallerStepStays

\* Every step keeps the callers' order: threads before Stop, an announced end
\* before Release.
LEMMA CallersStep ==
  ASSUME TypeOK, Indices, Bits, Callers, [EngineNext]_vars
  PROVE  Callers'
<1> USE DEF Callers
<1>1. CASE UNCHANGED vars
  BY <1>1 DEF vars, stvVars, workVars, engVars, walkVars, callVars
<1>2. CASE ThreadStep
  <2>1. UNCHANGED callVars
    BY <1>2 DEF ThreadStep, WorkerStep, WorkerSpurious, WorkerReport, WalkBegin, WalkFile, DealLock,
                DealTry, DealCall, DealAgain, DealLeave, WalkOver, WalkLast
  <2> QED BY <1>2, <2>1, ThreadStepStays DEF ThreadsStay, callVars
<1>3. CASE CallerStep
  <2>1. ThreadsStay
    BY <1>3, CallerStepStays
  <2>2. CASE StartCall \/ StartLock \/ StartUnlock
    BY <2>1, <2>2 DEF StartCall, StartLock, StartUnlock, ThreadsStay, Bits, Announced
  <2>3. CASE ReleaseStop \/ ReleaseJoin \/ ReleaseWalk
    BY <2>1, <2>3 DEF ReleaseStop, ReleaseJoin, ReleaseWalk, ThreadsStay
  <2>4. CASE StopCall \/ StopWalk \/ StopWorker
    BY <2>1, <2>4 DEF StopCall, StopWalk, StopWorker, ThreadsStay
  <2> QED BY <1>3, <2>2, <2>3, <2>4 DEF CallerStep
<1>4. CASE StartCreate
  <2>1. \A w \in Workers : wpc'[w] = "begin"
    BY <1>4 DEF StartCreate, NewWorkers
  <2> QED BY <1>4, <2>1 DEF StartCreate
<1>5. CASE CountFinish
  <2>1. finished' \in {finished, finished + 1} /\ UNCHANGED <<wpc, wkpc, callVars>>
    BY <1>5 DEF CountFinish, ThreadEnds, stvVars, workVars, walkVars
  <2> QED BY <2>1 DEF callVars, Bits, Announced
<1>6. CASE WalkFinish
  <2>1. /\ finished' \in {finished, finished + 1} /\ UNCHANGED <<wpc, callVars>>
        /\ wkpc = "last" /\ wkpc' = "gone"
    BY <1>6 DEF WalkFinish, ThreadEnds, stvVars, workVars
  <2> QED BY <2>1 DEF callVars, Bits, Announced
<1>7. ASSUME NEW w \in Workers, WorkerExit(w) PROVE Callers'
  <2>1. /\ finished' \in {finished, finished + 1} /\ UNCHANGED <<wkpc, callVars>>
        /\ wpc[w] = "exit" /\ wpc' = [wpc EXCEPT ![w] = "gone"]
    BY <1>7 DEF WorkerExit, JudgeExit, ThreadEnds, walkVars
  <2>2. \A u \in Workers : wpc'[u] = "none" <=> wpc[u] = "none"
    BY <2>1 DEF TypeOK
  <2> QED BY <2>1, <2>2 DEF callVars, Bits, Announced
<1> QED
  BY <1>1, <1>2, <1>3, <1>4, <1>5, <1>6, <1>7, SortedSteps

\* The invariant of the engine.
THEOREM EngineInvariance == EngineSpec => [](IInv /\ EInv)
<1>1. EngineInit => EInv
  <2> SUFFICES ASSUME EngineInit PROVE EInv
    OBVIOUS
  <2>1. Indices
    BY ScanAssumption DEF EngineInit, Indices
  <2>2. Bits
    BY BitFacts DEF EngineInit, Init, Bits, BitsOf, Announced
  <2>3. Callers
    BY DEF EngineInit, Init, Callers
  <2> QED BY <2>1, <2>2, <2>3 DEF EInv
<1>2. EInv /\ IInv /\ [EngineNext]_vars => EInv'
  BY IndicesStep, BitsStep, CallersStep DEF EInv, IInv
<1> QED BY <1>1, <1>2, EngineUsesWorkers, Invariance, PTL DEF EngineSpec

-----------------------------------------------------------------------------
\* After ALL_FINISHED of a walk that met a file, no thread of the job is left.
THEOREM EndIsTheEnd == EngineSpec => []FinishedMeansAllExitedIfAnyFile
<1>1. EInv => FinishedMeansAllExitedIfAnyFile
  <2> SUFFICES ASSUME EInv, finished > 0, wkpos > 1
               PROVE  wkpc = "gone" /\ ctpc = "gone" /\ \A w \in Workers : wpc[w] = "gone"
    BY DEF FinishedMeansAllExitedIfAnyFile
  <2>1. mScanStopStatue = mScanExitFlag
    BY DEF EInv, Bits, Announced
  <2> QED BY <2>1, BitFacts DEF EInv, Bits, BitsOf
<1> QED BY <1>1, EngineInvariance, PTL

\* The observer hears ALL_FINISHED of such a job at most once.
THEOREM EndIsAnnouncedOnce == EngineSpec => []FinishedOnceIfAnyFile
<1>1. EInv => FinishedOnceIfAnyFile
  BY DEF EInv, Bits, Announced, FinishedOnceIfAnyFile
<1> QED BY <1>1, EngineInvariance, PTL

\* The walker is not handing out files while Release deletes the workers.
THEOREM ReleaseAfterWalk == EngineSpec => []NoDealDuringRelease
<1>1. EInv => NoDealDuringRelease
  BY DEF EInv, Bits, Announced, Callers, NoDealDuringRelease
<1> QED BY <1>1, EngineInvariance, PTL

-----------------------------------------------------------------------------
(* What the walker has handed over.                                        *)

\* The current file is in a pool, but DealFile has not returned.
Handing == wkpc = "call" /\ app.pc \in {"mark", "count"}

\* A walk that has passed no file has handed none over; without Stop the walk
\* goes on to its end and hands over every file it passes.
EmptyHanded == (wkpos = 1 /\ wkpc # "leave" /\ ~ Handing) => accepted = {}
Running     == (stops = 0 /\ job > 0 /\ finished = 0) => engineStatus = "START" /\ wkStatus # "STOP"
HandedOver  ==
  stops = 0 =>
    /\ \A i \in 1 .. Len(tree) : i < wkpos => tree[i] \in accepted
    /\ (wkpc = "leave" \/ Handing) => tree[wkpos] \in accepted
    /\ wkpc \in {"last", "gone"} => wkpos > Len(tree)
Walk ==
  /\ stops \in Nat
  /\ upc # "idle" => stops > 0
  /\ EmptyHanded /\ Running /\ HandedOver

\* While there is a walker that has not ended, the job is not announced and,
\* without Stop, runs.
LEMMA WalkerRuns ==
  ASSUME EInv, Walk, wkpc \notin {"none", "gone"}
  PROVE  finished = 0 /\ job > 0 /\ (stops = 0 => engineStatus = "START" /\ wkStatus # "STOP")
BY DEF EInv, Bits, Announced, Callers, Walk, Running

\* Every step of the walker keeps what it has handed over.
LEMMA WalkerKeepsWalk ==
  ASSUME TypeOK, EInv, Walk, Walker, ~ WalkFinish
  PROVE  Walk'
<1>0. /\ wkpos \in Nat \ {0} /\ tree \in Seq(Files)
      /\ wkpc \in {"deal", "try", "call", "leave"} => wkpos \in 1 .. Len(tree)
  BY DEF EInv, Indices
<1>1. UNCHANGED <<tree, stops, upc, job>>
  BY DEF Walker, WalkBegin, WalkFile, DealLock, DealTry, DealCall, DealAgain, DealLeave,
         WalkOver, WalkLast, callVars
<1> SUFFICES EmptyHanded' /\ Running' /\ HandedOver'
  BY <1>1 DEF Walk
<1> USE DEF Walk, EmptyHanded, Running, HandedOver, Handing
<1>2. CASE WalkBegin
  BY <1>1, <1>2, WalkerRuns DEF WalkBegin, stvVars, histVars
<1>3. CASE WalkFile
  <2>1. UNCHANGED <<accepted, app, engineStatus, wkStatus, finished>> /\ wkpc = "next"
    BY <1>3 DEF WalkFile, stvVars, histVars, engVars
  <2>2. CASE wkpc' = "deal" /\ wkpos' = wkpos
    BY <1>1, <2>1, <2>2
  <2>3. CASE engineStatus # "START" /\ wkpos' = wkpos + 1 /\ wkpc' = wkpc
    BY <1>0, <1>1, <2>1, <2>3, WalkerRuns
  <2> QED BY <1>3, <2>2, <2>3 DEF WalkFile
<1>4. CASE DealLock
  BY <1>1, <1>4 DEF DealLock, stvVars, histVars, engVars
<1>5. CASE DealTry
  <2>1. /\ UNCHANGED <<accepted, engineStatus, wkStatus, finished, wkpos>> /\ wkpc = "try"
        /\ (wkpc' = "try" /\ app' = app) \/ (wkpc' = "call" /\ app'.pc = "lock")
    BY <1>5 DEF DealTry, AppendRefused, AppendEnter, NoAppend, stvVars, histVars, engVars
  <2> QED BY <1>1, <2>1
<1>6. CASE DealCall
  <2>1. UNCHANGED <<engineStatus, wkStatus, finished, wkpos>> /\ wkpc = "call"
    BY <1>6 DEF DealCall, engVars
  <2>2. CASE (AppendBusy \/ AppendNoRoom) /\ wkpc' = "try"
    <3>1. UNCHANGED accepted /\ app.pc = "lock"
      BY <2>2 DEF AppendBusy, AppendNoRoom, histVars
    <3> QED BY <1>1, <2>1, <2>2, <3>1
  <2>3. CASE AppendPath(tree[wkpos]) /\ UNCHANGED wkpc
    <3>1. accepted' = accepted \cup {tree[wkpos]} /\ app'.pc = "mark"
      BY <2>3 DEF AppendPath, TypeOK
    <3> QED BY <1>1, <2>1, <2>3, <3>1
  <2>4. CASE AppendMark /\ UNCHANGED wkpc
    <3>1. UNCHANGED accepted /\ app.pc = "mark" /\ app'.pc = "count"
      BY <2>4 DEF AppendMark, histVars, TypeOK
    <3> QED BY <1>1, <2>1, <2>4, <3>1
  <2>5. CASE AppendDone /\ wkpc' = "leave"
    <3>1. UNCHANGED accepted /\ app.pc = "count"
      BY <2>5 DEF AppendDone, histVars
    <3> QED BY <1>1, <2>1, <2>5, <3>1
  <2> QED BY <1>6, <2>2, <2>3, <2>4, <2>5 DEF DealCall
<1>7. CASE DealAgain
  <2>1. /\ UNCHANGED <<accepted, app, engineStatus, wkStatus, finished, wkpos>> /\ wkpc = "try"
        /\ wkpc' = "try" \/ (wkpc' = "leave" /\ engineStatus # "START")
    BY <1>7 DEF DealAgain, stvVars, histVars, engVars
  <2> QED BY <1>1, <2>1, WalkerRuns
<1>8. CASE DealLeave
  <2>1. /\ UNCHANGED <<accepted, engineStatus, wkStatus, finished>>
        /\ wkpc = "leave" /\ wkpc' = "next" /\ wkpos' = wkpos + 1
    BY <1>8 DEF DealLeave, stvVars, histVars, engVars
  <2> QED BY <1>0, <1>1, <2>1
<1>9. CASE WalkOver
  <2>1. /\ UNCHANGED <<accepted, app, engineStatus, wkStatus, finished, wkpos>>
        /\ wkpc = "next" /\ wkpc' = "last" /\ (wkStatus = "STOP" \/ ~ (wkpos <= Len(tree)))
    BY <1>9 DEF WalkOver, MoreFiles, stvVars, histVars, engVars
  <2> QED BY <1>0, <1>1, <2>1, WalkerRuns
<1>10. CASE WalkLast
  BY <1>1, <1>10 DEF WalkLast, Last, histVars, engVars
<1> QED
  BY <1>2, <1>3, <1>4, <1>5, <1>6, <1>7, <1>8, <1>9, <1>10 DEF Walker

\* Every step keeps what the walker has handed over.
LEMMA WalkStep ==
  ASSUME TypeOK, EInv, Walk, [EngineNext]_vars
  PROVE  Walk'
<1> USE DEF Walk, EmptyHanded, Running, HandedOver, Handing
<1>1. CASE UNCHANGED vars
  BY <1>1 DEF vars, stvVars, histVars, engVars, walkVars, callVars
<1>2. ASSUME NEW w \in Workers, WorkerStep(w) \/ WorkerSpurious(w) \/ WorkerReport(w) PROVE Walk'
  <2>1. UNCHANGED <<app, accepted, engineStatus, finished, walkVars, callVars>>
    <3>1. CASE WorkerReport(w)
      BY <3>1 DEF WorkerReport, Report, histVars
    <3>2. CASE WorkerSpurious(w)
      BY <3>2 DEF WorkerSpurious, SpuriousWake, histVars, engVars
    <3>3. CASE WorkerStep(w)
      BY <3>3 DEF WorkerStep, WorkStep, WorkBegin, LoopTest, FullTest, FullScanLock, LastTest, EmptyWait,
                  SkipStopped, SkipEmpty, Judge, Consume, Decrement, PassEnd, histVars, engVars
    <3> QED BY <1>2, <3>1, <3>2, <3>3
  <2> QED BY <2>1 DEF walkVars, callVars
<1>3. CASE StartCall \/ StartUnlock \/ ReleaseJoin
  BY <1>3 DEF StartCall, StartUnlock, ReleaseJoin, stvVars, histVars, engVars, walkVars
<1>4. CASE StartLock \/ ReleaseWalk
  <2>1. job = 0 \/ finished > 0
    BY <1>4 DEF StartLock, ReleaseWalk, EInv, Callers
  <2>2. /\ UNCHANGED <<accepted, app, wkpos, wkpc, tree, stops, upc, job, finished>>
    BY <1>4 DEF StartLock, ReleaseWalk, stvVars, histVars, engVars, walkVars
  <2> QED BY <2>1, <2>2 DEF EInv, Bits, Announced, Callers
<1>5. CASE ReleaseStop \/ StopWorker
  BY <1>5 DEF ReleaseStop, StopWorker, Stop, stvVars, histVars, engVars, walkVars
<1>6. CASE StopCall
  <2>1. stops' > 0 /\ stops' \in Nat /\ UNCHANGED <<accepted, app, wkpos, wkpc>>
    BY <1>6 DEF StopCall, stvVars, histVars, walkVars
  <2> QED BY <2>1
<1>7. CASE StopWalk
  <2>1. stops > 0 /\ UNCHANGED <<accepted, app, wkpos, wkpc, stops>>
    BY <1>7 DEF StopWalk, stvVars, histVars
  <2> QED BY <2>1
<1>8. CASE StartCreate
  BY <1>8 DEF StartCreate, NewWorkers, NoAppend
<1>9. CASE CountFinish \/ \E w \in Workers : WorkerExit(w)
  <2>1. /\ UNCHANGED <<accepted, app, walkVars, callVars>>
        /\ (finished' = finished /\ engineStatus' = engineStatus) \/ finished' = finished + 1
    BY <1>9 DEF CountFinish, WorkerExit, JudgeExit, ThreadEnds, stvVars, histVars
  <2> QED BY <2>1 DEF walkVars, callVars, EInv, Bits, Announced
<1>10. CASE WalkFinish
  <2>1. /\ UNCHANGED <<accepted, app, wkStatus, wkpos, callVars>> /\ wkpc = "last" /\ wkpc' = "gone"
        /\ (finished' = finished /\ engineStatus' = engineStatus) \/ finished' = finished + 1
    BY <1>10 DEF WalkFinish, ThreadEnds, stvVars, histVars
  <2> QED BY <2>1 DEF callVars, EInv, Bits, Announced
<1>11. CASE Walker /\ ~ WalkFinish
  BY <1>11, WalkerKeepsWalk
<1> QED
  BY <1>1, <1>2, <1>3, <1>4, <1>5, <1>6, <1>7, <1>8, <1>9, <1>10, <1>11 DEF EngineNext, Starter

\* The walk's invariant, with those it rests on.
THEOREM WalkInvariance == EngineSpec => [](IInv /\ EInv /\ Walk)
<1>1. EngineInit => Walk
  BY DEF EngineInit, Init, Walk, EmptyHanded, Running, HandedOver, Handing, NoAppend
<1>2. IInv /\ EInv /\ Walk /\ [EngineNext]_vars => Walk'
  BY WalkStep DEF IInv
<1> QED BY <1>1, <1>2, EngineInvariance, PTL DEF EngineSpec

\* What ALL_FINISHED promises when nobody called Stop: each file the walk met
\* was judged once.
THEOREM EndMeansJudged == EngineSpec => []FinishedMeansJudged
<1>1. IInv /\ EInv /\ Walk /\ EveryFileJudged => FinishedMeansJudged
  <2> SUFFICES ASSUME IInv, EInv, Walk, EveryFileJudged, finished > 0, stopped = {}, stops = 0,
                      NEW i \in 1 .. Len(tree)
               PROVE  judged[tree[i]] = 1
    BY DEF FinishedMeansJudged
  <2>1. wkpc = "gone"
    BY DEF EInv, Bits, Announced
  <2>2. wkpos > Len(tree) /\ wkpos \in Nat /\ Len(tree) \in Nat
    BY <2>1 DEF Walk, HandedOver, EInv, Indices
  <2>3. i < wkpos /\ wkpos > 1
    BY <2>2
  <2>4. tree[i] \in accepted
    BY <2>3 DEF Walk, HandedOver
  <2>5. \A w \in Workers : wpc[w] = "gone"
    BY <2>3, BitFacts DEF EInv, Bits, BitsOf, Announced
  <2> QED BY <2>4, <2>5 DEF EveryFileJudged
<1>2. EngineSpec => []EveryFileJudged
  BY EngineUsesWorkers, NoFileLost, PTL
<1> QED BY <1>1, <1>2, WalkInvariance, PTL

-----------------------------------------------------------------------------
(* The engine implements ScanJob.                                          *)

Phase == IF job = 0 THEN "idle" ELSE IF finished = 0 THEN "running" ELSE "ended"
Done  == { f \in Files : judged[f] > 0 }
jobView == <<Phase, accepted, Done, stopped # {}>>

\* No file is handed over or in a pool once the end of the job is announced.
LEMMA NothingAfterEnd ==
  ASSUME IInv, EInv, Walk, finished > 0
  PROVE  /\ wkpc = "gone"
         /\ \A w \in Workers : wpc[w] = "gone" \/ \A i \in Slots : file[w][i] = NoFile
<1>1. wkpc = "gone"
  BY DEF EInv, Bits, Announced
<1>2. CASE wkpos > 1
  BY <1>1, <1>2, BitFacts DEF EInv, Bits, BitsOf, Announced
<1>3. CASE wkpos = 1
  <2>1. accepted = {}
    BY <1>1, <1>3 DEF Walk, EmptyHanded, Handing
  <2> QED BY <1>1, <2>1 DEF IInv, Custody, EntryState
<1> QED BY <1>2, <1>3 DEF EInv, Indices

\* When the last bit is set, or the walk was empty, everything handed over was
\* judged, unless a worker was stopped.
LEMMA AllJudgedAtEnd ==
  ASSUME IInv, stopped = {},
         accepted = {} \/ \A w \in Workers : \A i \in Slots : file[w][i] = NoFile
  PROVE  Done = accepted
<1>1. \A f \in accepted : judged[f] # 0
  <2> SUFFICES ASSUME NEW f \in accepted, judged[f] = 0 PROVE FALSE
    OBVIOUS
  <2>1. f # NoFile
    BY ScanAssumption DEF IInv, TypeOK
  <2>2. \E w \in Workers : \E i \in Slots : file[w][i] = f
    BY DEF IInv, Custody, NotLost
  <2> QED BY <2>1, <2>2
<1>2. accepted \subseteq Files
  BY DEF IInv, TypeOK
<1>3. \A f \in Files : judged[f] \in {0, 1} /\ (f \notin accepted => judged[f] = 0)
  BY DEF IInv, Custody, NotTwice, Untouched
<1> QED BY <1>1, <1>2, <1>3 DEF Done

\* The end of a thread is the end of the job, or changes nothing of it.
LEMMA EndIsEnd ==
  ASSUME IInv, EInv, Walk, NEW bit \in mScanExitFlag, NEW early \in BOOLEAN, ThreadEnds(bit, early),
         bit \notin mScanStopStatue, early => accepted = {}, job > 0,
         \A w \in Workers : bit # ExitBit(w) \/ wpc[w] = "exit",
         UNCHANGED <<accepted, judged, stopped, job>>
  PROVE  SJ!End \/ UNCHANGED jobView
<1>1. /\ mScanStopStatue' = mScanStopStatue \cup {bit}
      /\ finished' = IF mScanStopStatue' = mScanExitFlag \/ early THEN finished + 1 ELSE finished
      /\ finished \in Nat /\ finished' \in Nat
  BY EndAnnounced DEF EInv, Bits, Announced
<1>2. UNCHANGED <<accepted, Done, stopped>>
  BY DEF Done
<1>3. CASE finished > 0 \/ finished' = finished
  <2>1. Phase' = Phase
    BY <1>1, <1>3 DEF Phase
  <2> QED BY <1>2, <2>1 DEF jobView
<1>4. CASE finished = 0 /\ finished' = 1
  <2>1. Phase = "running" /\ Phase' = "ended"
    BY <1>4 DEF Phase
  <2>2. stopped = {} => Done = accepted
    <3> SUFFICES ASSUME stopped = {} PROVE Done = accepted
      OBVIOUS
    <3>1. CASE early
      BY <3>1, AllJudgedAtEnd
    <3>2. CASE mScanStopStatue' = mScanExitFlag
      <4>1. \A w \in Workers : wpc[w] \in {"exit", "gone"}
        BY <1>1, <3>2, BitFacts DEF EInv, Bits, BitsOf
      <4>2. \A w \in Workers : \A i \in Slots : file[w][i] = NoFile
        BY <4>1 DEF IInv, Accounting, AccountingOf
      <4> QED BY <4>2, AllJudgedAtEnd
    <3> QED BY <1>1, <1>4, <3>1, <3>2
  <2> QED BY <1>2, <2>1, <2>2 DEF SJ!End, Phase, Done
<1> QED BY <1>1, <1>3, <1>4

\* A step of Append by the walker takes the current file over, or changes
\* nothing of the job; so does a judgement.
LEMMA TakeAndJudge ==
  ASSUME IInv, EInv, Walk, UNCHANGED <<job, finished>>
  PROVE  /\ \A f \in Files : (AppendPath(f) /\ wkpc = "call") => SJ!Take(f)
         /\ \A w \in Workers : Judge(w) => \E f \in Files : SJ!Judge(f)
<1>1. Phase' = Phase
  BY DEF Phase
<1>2. ASSUME NEW f \in Files, AppendPath(f), wkpc = "call" PROVE SJ!Take(f)
  <2>1. Phase = "running"
    BY <1>2, WalkerRuns DEF Phase
  <2>2. /\ f \notin accepted /\ accepted' = accepted \cup {f}
        /\ UNCHANGED <<judged, stopped>>
    BY <1>2 DEF AppendPath
  <2> QED BY <1>1, <2>1, <2>2 DEF SJ!Take, Phase
<1>3. ASSUME NEW w \in Workers, Judge(w) PROVE \E f \in Files : SJ!Judge(f)
  <2>0. file[w][wpos[w]] \in Files
    BY <1>3 DEF Judge, IInv, TypeOK
  <2> PICK f \in Files : f = file[w][wpos[w]]
    BY <2>0
  <2>1. /\ wpos[w] \in Slots /\ f # NoFile /\ file[w][wpos[w]] = f /\ wpc[w] = "scan"
        /\ judged' = [judged EXCEPT ![f] = @ + 1]
        /\ UNCHANGED <<accepted, stopped>>
    BY <1>3 DEF Judge
  <2>2. f \in Files /\ judged \in [Files -> Nat]
    BY <2>1 DEF IInv, TypeOK
  <2>3. f \in accepted /\ judged[f] = 0
    BY <2>1 DEF IInv, Custody, EntryState, Judging
  <2>4. job > 0
    BY <2>1 DEF EInv, Callers
  <2>5. finished = 0
    BY <2>1, NothingAfterEnd DEF EInv, Bits, Announced
  <2>6. Phase = "running"
    BY <2>4, <2>5 DEF Phase
  <2>7. Done' = Done \cup {f} /\ f \notin Done
    BY <2>1, <2>2, <2>3 DEF Done
  <2>8. SJ!Judge(f)
    BY <1>1, <2>1, <2>3, <2>6, <2>7 DEF SJ!Judge, Phase, Done
  <2> QED BY <2>8
<1> QED BY <1>2, <1>3

\* Each step of the engine is a step of ScanJob or leaves its variables alone.
LEMMA EngineStepIsJobStep ==
  ASSUME IInv, EInv, Walk, [EngineNext]_vars
  PROVE  SJ!Next \/ UNCHANGED jobView
<1>0. ASSUME UNCHANGED <<accepted, judged, stopped, job, finished>> PROVE UNCHANGED jobView
  BY <1>0 DEF jobView, Phase, Done
<1>1. CASE UNCHANGED vars
  BY <1>0, <1>1 DEF vars, stvVars, histVars, engVars, callVars
<1>2. ASSUME NEW w \in Workers, WorkerStep(w) \/ WorkerSpurious(w) \/ WorkerReport(w)
      PROVE  SJ!Next \/ UNCHANGED jobView
  <2>1. UNCHANGED <<job, finished>>
    BY <1>2 DEF WorkerStep, WorkerSpurious, WorkerReport, engVars, callVars
  <2>2. CASE Judge(w)
    BY <2>1, <2>2, TakeAndJudge DEF SJ!Next
  <2>3. CASE ~ Judge(w)
    <3>1. UNCHANGED histVars
      BY <1>2, <2>3
      DEF WorkerStep, WorkerSpurious, WorkerReport, WorkStep, WorkBegin, LoopTest, FullTest, FullScanLock,
          LastTest, EmptyWait, SpuriousWake, SkipStopped, SkipEmpty, Consume, Decrement, PassEnd, Report
    <3> QED BY <1>0, <2>1, <3>1 DEF histVars
  <2> QED BY <2>2, <2>3
<1>3. CASE \/ WalkBegin \/ WalkFile \/ DealLock \/ DealTry \/ DealAgain \/ DealLeave \/ WalkOver \/ WalkLast
           \/ StartCall \/ StartLock \/ ReleaseJoin \/ ReleaseWalk \/ StartUnlock \/ StopCall \/ StopWalk
  BY <1>0, <1>3
  DEF WalkBegin, WalkFile, DealLock, DealTry, AppendRefused, AppendEnter, DealAgain, DealLeave, WalkOver,
      WalkLast, Last, StartCall, StartLock, ReleaseJoin, ReleaseWalk, StartUnlock, StopCall, StopWalk,
      stvVars, histVars, engVars, callVars
<1>4. CASE DealCall
  <2>1. UNCHANGED <<job, finished>> /\ wkpc = "call" /\ tree[wkpos] \in Files
    BY <1>4 DEF DealCall, engVars, callVars, EInv, Indices
  <2>2. CASE AppendPath(tree[wkpos])
    BY <2>1, <2>2, TakeAndJudge DEF SJ!Next
  <2>3. CASE AppendBusy \/ AppendNoRoom \/ AppendMark \/ AppendDone
    BY <1>0, <2>1, <2>3 DEF AppendBusy, AppendNoRoom, AppendMark, AppendDone, histVars
  <2> QED BY <1>4, <2>2, <2>3 DEF DealCall
<1>5. CASE ReleaseStop \/ StopWorker
  <2>1. UNCHANGED <<accepted, judged, job, finished>> /\ job > 0 /\ job \in Nat
    BY <1>5 DEF ReleaseStop, StopWorker, Stop, stvVars, histVars, engVars, callVars, EInv, Callers
  <2>2. stopped' # {} \/ UNCHANGED stopped
    BY <1>5 DEF ReleaseStop, StopWorker, Stop, stvVars, histVars
  <2>3. Phase \in {"running", "ended"} /\ Phase' = Phase /\ Done' = Done
    BY <2>1 DEF Phase, Done
  <2>4. CASE stopped' # {}
    BY <2>1, <2>3, <2>4 DEF SJ!Next, SJ!Halt, Phase, Done
  <2>5. CASE UNCHANGED stopped
    BY <1>0, <2>1, <2>5
  <2> QED BY <2>2, <2>4, <2>5
<1>6. CASE StartCreate
  <2>1. job = 0 \/ finished > 0
    BY <1>6 DEF StartCreate, EInv, Callers
  <2>2. /\ finished' = 0 /\ job' = job + 1 /\ job \in Nat /\ finished \in Nat
        /\ accepted' = {} /\ judged' = [f \in Files |-> 0] /\ stopped' = {}
    BY <1>6 DEF StartCreate, NewWorkers, EInv, Callers, Bits, Announced
  <2>3. Phase \in {"idle", "ended"} /\ Phase' = "running" /\ Done' = {}
    BY <2>1, <2>2 DEF Phase, Done
  <2> QED BY <2>2, <2>3 DEF SJ!Next, SJ!Begin, Phase, Done
<1>7. CASE CountFinish
  <2>1. /\ ThreadEnds(CountBit, FALSE) /\ ctpc = "begin" /\ UNCHANGED <<accepted, judged, stopped, job>>
    BY <1>7 DEF CountFinish, stvVars, histVars, callVars
  <2>2. CASE job = 0
    BY <2>1, <2>2, <1>0 DEF jobView, Phase, Done
  <2>3. CASE job > 0
    <3>1. SJ!End \/ UNCHANGED jobView
      BY <2>1, <2>3, BitFacts, EndIsEnd DEF EInv, Bits, BitsOf
    <3> QED BY <3>1 DEF SJ!Next
  <2> QED BY <2>2, <2>3 DEF EInv, Callers
<1>8. ASSUME NEW w \in Workers, WorkerExit(w) PROVE SJ!Next \/ UNCHANGED jobView
  <2>1. /\ ThreadEnds(ExitBit(w), FALSE) /\ wpc[w] = "exit" /\ UNCHANGED <<accepted, judged, stopped, job>>
    BY <1>8 DEF WorkerExit, JudgeExit, histVars, callVars
  <2>2. job > 0 /\ ExitBit(w) \notin mScanStopStatue
    BY <2>1 DEF EInv, Callers, Bits, BitsOf
  <2>3. SJ!End \/ UNCHANGED jobView
    BY <2>1, <2>2, BitFacts, EndIsEnd
  <2> QED BY <2>3 DEF SJ!Next
<1>9. CASE WalkFinish
  <2>1. /\ ThreadEnds(WalkBit, wkpos = 1) /\ wkpc = "last" /\ UNCHANGED <<accepted, judged, stopped, job>>
    BY <1>9 DEF WalkFinish, stvVars, histVars, callVars
  <2>2. /\ job > 0 /\ WalkBit \notin mScanStopStatue
        /\ wkpos = 1 => accepted = {}
    BY <2>1 DEF EInv, Callers, Bits, BitsOf, Walk, EmptyHanded, Handing
  <2>3. SJ!End \/ UNCHANGED jobView
    BY <2>1, <2>2, BitFacts, EndIsEnd
  <2> QED BY <2>3 DEF SJ!Next
<1> QED
  BY <1>1, <1>2, <1>3, <1>4, <1>5, <1>6, <1>7, <1>8, <1>9 DEF EngineNext, Walker, Starter

\* The engine, with its threads, bits and pools, implements ScanJob.
THEOREM EngineImplementsScanJob == EngineSpec => ImplementsScanJob
<1>1. EngineInit => SJ!Init
  BY DEF EngineInit, Init, SJ!Init
<1>2. IInv /\ EInv /\ Walk /\ [EngineNext]_vars => [SJ!Next]_SJ!jobVars
  BY EngineStepIsJobStep DEF jobView, SJ!jobVars, Phase, Done
<1> QED BY <1>1, <1>2, WalkInvariance, PTL DEF EngineSpec, ImplementsScanJob, SJ!Spec

\* ALL_FINISHED comes once, after the last thread, when every file is judged.
THEOREM EndIsSafe == EngineSpec => []EndSafety
<1>1. FinishedMeansAllExitedIfAnyFile /\ FinishedOnceIfAnyFile /\ FinishedMeansJudged => EndSafety
  BY DEF EndSafety
<1> QED BY <1>1, EndIsTheEnd, EndIsAnnouncedOnce, EndMeansJudged, PTL
-----------------------------------------------------------------------------
(* The report.                                                             *)

\* SumFunction adds the values in the order in which CHOOSE takes the arguments.
Pick(s) == CHOOSE x \in s : TRUE
Fold(c, S) == CHOOSE f : f = [s \in SUBSET S |-> IF s = {} THEN 0 ELSE c[Pick(s)] + f[s \ {Pick(s)}]]

\* SumFunction, without the operators it is passed through.
LEMMA SumIsFold == \A c : SumFunction(c) = Fold(c, DOMAIN c)[DOMAIN c]
BY DEF SumFunction, SumFunctionOnSet, FoldFunctionOnSet, MapThenFoldSet, Fold, Pick

\* A collection of subsets of a finite set has a smallest one: induction, as a
\* fact that needs no operator.
LEMMA MinimalSet ==
  ASSUME NEW S, IsFiniteSet(S), NEW B, B \subseteq SUBSET S, B # {}
  PROVE  \E m \in B : \A t \in B : t \subseteq m => t = m
<1>1. IsWellFoundedOn(StrictSubsetOrdering(S), SUBSET S)
  BY FS_StrictSubsetOrderingWellFounded, FS_FiniteSubsetsOfFinite
<1>2. PICK m \in B : \A t \in B : ~ (<<t, m>> \in StrictSubsetOrdering(S))
  BY <1>1, WFMin
<1> QED BY <1>2 DEF StrictSubsetOrdering

\* A sum as a set: one pair for each unit that is added.
Units(s, c) == {p \in s \X Nat : p[2] \in 1 .. c[p[1]]}

\* Each further argument adds its value.
LEMMA UnitsOfMore ==
  ASSUME NEW S, NEW c \in [S -> Nat], NEW s \in SUBSET S, NEW x \in s, IsFiniteSet(Units(s \ {x}, c))
  PROVE  /\ IsFiniteSet(Units(s, c))
         /\ Cardinality(Units(s, c)) = c[x] + Cardinality(Units(s \ {x}, c))
<1> DEFINE X == {x} \X (1 .. c[x])
<1>1. Units(s, c) = Units(s \ {x}, c) \cup X
  BY DEF Units
<1>2. Units(s \ {x}, c) \cap X = {}
  BY DEF Units
<1>3. IsFiniteSet(X) /\ Cardinality(X) = c[x]
  <2>1. IsFiniteSet({x}) /\ Cardinality({x}) = 1
    BY FS_Singleton
  <2>2. c[x] \in Nat
    OBVIOUS
  <2>3. IsFiniteSet(1 .. c[x]) /\ Cardinality(1 .. c[x]) = c[x]
    <3> DEFINE n == c[x]
    <3>1. n \in Int /\ 1 \in Int
      BY <2>2
    <3> HIDE DEF n
    <3>2. /\ IsFiniteSet(1 .. n)
          /\ Cardinality(1 .. n) = IF 1 > n THEN 0 ELSE n - 1 + 1
      BY <3>1, FS_Interval
    <3>3. n \in Nat
      BY <2>2 DEF n
    <3>4. Cardinality(1 .. n) = n
      BY <3>2, <3>3
    <3> QED BY <3>2, <3>4 DEF n
  <2>4. IsFiniteSet(X) /\ Cardinality(X) = 1 * c[x]
    BY <2>1, <2>3, FS_Product
  <2> QED BY <2>2, <2>4
<1>4. Cardinality({}) = 0
  BY FS_EmptySet
<1>5. Cardinality(Units(s \ {x}, c)) \in Nat
  BY FS_CardinalityType
<1> HIDE DEF X
<1>6. c[x] \in Nat
  OBVIOUS
<1>7. /\ IsFiniteSet(Units(s \ {x}, c) \cup X)
      /\ Cardinality(Units(s \ {x}, c) \cup X) =
           Cardinality(Units(s \ {x}, c)) + Cardinality(X) - Cardinality(Units(s \ {x}, c) \cap X)
  BY <1>3, FS_Union
<1>8. Cardinality(Units(s \ {x}, c) \cup X) = c[x] + Cardinality(Units(s \ {x}, c))
  <2>1. Cardinality(Units(s \ {x}, c) \cap X) = 0
    BY <1>2, <1>4
  <2> QED BY <1>3, <1>5, <1>6, <1>7, <2>1
<1> QED BY <1>1, <1>7, <1>8, Zenon

\* There are finitely many units.
LEMMA UnitsFinite ==
  ASSUME NEW S, IsFiniteSet(S), NEW c \in [S -> Nat]
  PROVE  \A s \in SUBSET S : IsFiniteSet(Units(s, c))
<1> DEFINE B == {s \in SUBSET S : ~ IsFiniteSet(Units(s, c))}
<1> SUFFICES ASSUME B # {} PROVE FALSE
  OBVIOUS
<1>0. B \subseteq SUBSET S
  OBVIOUS
<1>1. PICK m \in B : \A t \in B : t \subseteq m => t = m
  <2> HIDE DEF B
  <2> QED BY <1>0, MinimalSet
<1>2. m # {}
  <2>1. Units({}, c) = {}
    BY DEF Units
  <2> QED BY <2>1, FS_EmptySet
<1>3. PICK x \in m : TRUE
  BY <1>2
<1>4. IsFiniteSet(Units(m \ {x}, c))
  BY <1>1, <1>3
<1> QED BY <1>3, <1>4, UnitsOfMore

\* What SumFunction adds up is the number of units.
LEMMA SumIsUnits ==
  ASSUME NEW S, IsFiniteSet(S), NEW c \in [S -> Nat]
  PROVE  SumFunction(c) = Cardinality(Units(S, c))
<1> DEFINE Eq(f) == f = [s \in SUBSET S |-> IF s = {} THEN 0 ELSE c[Pick(s)] + f[s \ {Pick(s)}]]
           count == [s \in SUBSET S |-> Cardinality(Units(s, c))]
           sum == Fold(c, S)
<1>1. Cardinality(Units({}, c)) = 0
  <2>1. Units({}, c) = {}
    BY DEF Units
  <2> QED BY <2>1, FS_EmptySet
<1>2. \A s \in SUBSET S : s # {} => Pick(s) \in s
  BY DEF Pick
<1>3. \A s \in SUBSET S : s # {} => count[s] = c[Pick(s)] + count[s \ {Pick(s)}]
  <2> SUFFICES ASSUME NEW s \in SUBSET S, s # {}
               PROVE  count[s] = c[Pick(s)] + count[s \ {Pick(s)}]
    OBVIOUS
  <2>1. s \ {Pick(s)} \in SUBSET S
    OBVIOUS
  <2> QED BY <1>2, <2>1, UnitsFinite, UnitsOfMore
<1>4. Eq(count)
  BY <1>1, <1>3
<1>5. Eq(sum)
  <2>1. \E f : Eq(f)
    BY <1>4
  <2> QED BY <2>1 DEF Fold
<1>6. \A s \in SUBSET S : sum[s] = count[s]
  <2> DEFINE B == {s \in SUBSET S : sum[s] # count[s]}
  <2> SUFFICES ASSUME B # {} PROVE FALSE
    OBVIOUS
  <2>0. B \subseteq SUBSET S
    OBVIOUS
  <2>1. PICK m \in B : \A t \in B : t \subseteq m => t = m
    <3> HIDE DEF B
    <3> QED BY <2>0, MinimalSet
  <2>2. CASE m = {}
    BY <1>4, <1>5, <2>1, <2>2
  <2>3. CASE m # {}
    <3>1. sum[m \ {Pick(m)}] = count[m \ {Pick(m)}]
      <4>1. m \ {Pick(m)} \notin B
        BY <1>2, <2>1, <2>3
      <4> QED BY <4>1
    <3> QED BY <1>3, <1>5, <2>1, <2>3, <3>1
  <2> QED BY <2>2, <2>3
<1> QED BY <1>6, SumIsFold

\* One more in one place makes the sum one more.
LEMMA SumOfMore ==
  ASSUME NEW S, IsFiniteSet(S), NEW c \in [S -> Nat], NEW x \in S
  PROVE  SumFunction([c EXCEPT ![x] = @ + 1]) = SumFunction(c) + 1
<1> DEFINE d == [c EXCEPT ![x] = @ + 1]
<1>1. d \in [S -> Nat]
  OBVIOUS
<1>2. Units(S, d) = Units(S, c) \cup {<<x, c[x] + 1>>}
  BY DEF Units
<1>3. <<x, c[x] + 1>> \notin Units(S, c)
  BY DEF Units
<1>4. IsFiniteSet(Units(S, c))
  BY UnitsFinite
<1>5. Cardinality(Units(S, d)) = Cardinality(Units(S, c)) + 1
  BY <1>2, <1>3, <1>4, FS_AddElement
<1> QED BY <1>1, <1>5, SumIsUnits

\* The viruses found so far, and the counts of the workers that found them.
Found == { f \in Infected : judged[f] > 0 }
Counted == IsFiniteSet(Found) /\ SumFunction(mVirusCount) = Cardinality(Found)

\* No worker has found anything, and none has counted anything.
LEMMA NothingCounted ==
  /\ SumFunction(Zero) = 0
  /\ \A S : S = {} => IsFiniteSet(S) /\ Cardinality(S) = 0
<1>1. IsFiniteSet(Workers) /\ Zero \in [Workers -> Nat]
  BY FS_Interval, ScanAssumption DEF Workers, Zero
<1>2. Units(Workers, Zero) = {}
  BY DEF Units, Zero
<1> QED BY <1>1, <1>2, SumIsUnits, FS_EmptySet

\* A virus is counted by its worker in the step that finds it.
LEMMA CountedStep ==
  ASSUME IInv, Counted, [Next]_stvVars
  PROVE  Counted'
<1> USE DEF Counted, Found
<1>0. TypeOK
  BY DEF IInv
<1>1. CASE NewWorkers
  <2>1. mVirusCount' = Zero /\ judged' = [f \in Files |-> 0]
    BY <1>1 DEF NewWorkers
  <2>2. Found' = {}
    BY <2>1, ScanAssumption
  <2> QED BY <2>1, <2>2, NothingCounted
<1>2. ASSUME NEW w \in Workers, Judge(w) PROVE Counted'
  <2> DEFINE f == file[w][wpos[w]]
  <2>1. /\ wpc[w] = "scan" /\ wpos[w] \in Slots /\ f \in Files
        /\ judged' = [judged EXCEPT ![f] = @ + 1]
        /\ mVirusCount' = [mVirusCount EXCEPT ![w] = IF f \in Infected THEN @ + 1 ELSE @]
    BY <1>2, <1>0, ScanAssumption DEF Judge, TypeOK
  <2>2. judged[f] = 0
    <3>1. ~ Judging(w, wpos[w]) /\ file[w][wpos[w]] # NoFile
      BY <2>1, ScanAssumption DEF Judging
    <3> QED BY <2>1, <3>1 DEF IInv, Custody, EntryState
  <2>3. judged \in [Files -> Nat] /\ mVirusCount \in [Workers -> Nat] /\ Infected \subseteq Files
    BY <1>0, ScanAssumption DEF TypeOK
  <2> HIDE DEF f
  <2>4. CASE f \in Infected
    <3>1. Found' = Found \cup {f} /\ f \notin Found
      BY <2>1, <2>2, <2>3, <2>4
    <3>2. IsFiniteSet(Workers)
      BY FS_Interval, ScanAssumption DEF Workers
    <3>3. mVirusCount' = [mVirusCount EXCEPT ![w] = @ + 1]
      BY <2>1, <2>4
    <3>4. SumFunction(mVirusCount') = SumFunction(mVirusCount) + 1
      BY <2>3, <3>2, <3>3, SumOfMore
    <3>5. IsFiniteSet(Found \cup {f}) /\ Cardinality(Found \cup {f}) = Cardinality(Found) + 1
      BY <3>1, FS_AddElement
    <3> QED BY <3>1, <3>4, <3>5
  <2>5. CASE f \notin Infected
    <3>1. Found' = Found /\ mVirusCount' = mVirusCount
      BY <2>1, <2>3, <2>5
    <3> QED BY <3>1
  <2> QED BY <2>4, <2>5
<1>3. CASE UNCHANGED <<mVirusCount, judged>>
  BY <1>3
<1>4. CASE UNCHANGED stvVars
  BY <1>3, <1>4 DEF stvVars, workVars, histVars
<1>5. CASE AppendStep
  <2> HIDE DEF Counted
  <2>1. UNCHANGED <<mVirusCount, judged>>
    <3>1. ASSUME NEW f \in Files, AppendPath(f) PROVE UNCHANGED <<mVirusCount, judged>>
      BY <3>1 DEF AppendPath, workVars
    <3>2. CASE AppendBusy \/ AppendNoRoom \/ AppendMark \/ AppendDone
      BY <3>2 DEF AppendBusy, AppendNoRoom, AppendMark, AppendDone, workVars, histVars
    <3> QED BY <1>5, <3>1, <3>2 DEF AppendStep
  <2> QED BY <1>3, <2>1
<1>6. ASSUME NEW w \in Workers, ~ Judge(w), WorkStep(w) \/ JudgeExit(w) \/ Report(w) \/ SpuriousWake(w)
      PROVE  Counted'
  BY <1>3, <1>6
  DEF WorkStep, WorkBegin, LoopTest, FullTest, FullScanLock, LastTest, EmptyWait, SpuriousWake,
      SkipStopped, SkipEmpty, Report, Consume, Decrement, PassEnd, JudgeExit, histVars, workVars
<1>7. ASSUME NEW w \in Workers, Last(w) \/ Stop(w) \/ AppendRefused(w) \/ AppendEnter(w)
      PROVE  Counted'
  BY <1>3, <1>7 DEF Last, Stop, AppendRefused, AppendEnter, stvVars, histVars, workVars
<1> QED BY <1>1, <1>2, <1>4, <1>5, <1>6, <1>7 DEF Next

\* The workers' counts add up to the viruses found, whoever counts when.
THEOREM CountsAddUp == Spec => []Counted
<1>1. Init => Counted
  <2> SUFFICES ASSUME Init PROVE Counted
    OBVIOUS
  <2>1. mVirusCount = Zero /\ Found = {}
    BY ScanAssumption DEF Init, Found
  <2> QED BY <2>1, NothingCounted DEF Counted
<1>2. IInv /\ Counted /\ [Next]_stvVars => Counted'
  BY CountedStep
<1> QED BY <1>1, <1>2, Invariance, PTL DEF Spec

\* The report has the workers' sum, or a worker is going to report; before the
\* walk begins it is that of the last job.
Reported ==
  /\ wkpc \in {"none", "begin"} => wkpos = 1
  /\ wkpc \notin {"none", "begin"} =>
       virusCount = SumFunction(mVirusCount) \/ \E w \in Workers : wpc[w] = "report"

\* No step takes a virus count or a pending report from a worker: only Judge
\* counts, and what it counts it is going to report.
LEMMA PendingStays ==
  ASSUME TypeOK, NEW w \in Workers,
         \/ WorkStep(w) \/ SpuriousWake(w) \/ JudgeExit(w) \/ Last(w) \/ Stop(w)
         \/ AppendRefused(w) \/ AppendEnter(w) \/ AppendStep \/ UNCHANGED stvVars
  PROVE  /\ \A u \in Workers : wpc[u] = "report" => wpc'[u] = "report"
         /\ mVirusCount' = mVirusCount \/ \E u \in Workers : wpc'[u] = "report"
<1>0. wpc \in [Workers -> WorkerPC]
  BY DEF TypeOK
<1>1. CASE Last(w) \/ Stop(w) \/ AppendNoRoom \/ AppendDone
  <2>1. \A u \in Workers : wpc'[u] = wpc[u] \/ (wpc[u] = "asleep" /\ wpc'[u] = "loop")
    BY <1>1, WakingSteps
  <2>2. mVirusCount' = mVirusCount
    BY <1>1 DEF Last, Stop, AppendNoRoom, AppendDone
  <2> QED BY <2>1, <2>2
<1>2. CASE AppendRefused(w) \/ AppendEnter(w) \/ AppendBusy \/ AppendMark \/ \E f \in Files : AppendPath(f)
  <2>1. wpc' = wpc /\ mVirusCount' = mVirusCount
    <3>1. ASSUME NEW f \in Files, AppendPath(f) PROVE wpc' = wpc /\ mVirusCount' = mVirusCount
      BY <3>1 DEF AppendPath, workVars
    <3>2. CASE AppendRefused(w) \/ AppendEnter(w) \/ AppendBusy \/ AppendMark
      BY <3>2 DEF AppendRefused, AppendEnter, AppendBusy, AppendMark, stvVars, workVars
    <3> QED BY <1>2, <3>1, <3>2
  <2> QED BY <2>1
<1>3. CASE WorkBegin(w) \/ EmptyWait(w) \/ SpuriousWake(w) \/ FullScanLock(w) \/ JudgeExit(w)
  BY <1>0, <1>3 DEF WorkBegin, EmptyWait, SpuriousWake, FullScanLock, JudgeExit
<1>4. CASE LoopTest(w) \/ FullTest(w) \/ LastTest(w)
  BY <1>0, <1>4 DEF LoopTest, FullTest, LastTest
<1>5. CASE SkipStopped(w) \/ SkipEmpty(w)
  BY <1>5 DEF SkipStopped, SkipEmpty
<1>6. CASE Judge(w)
  <2>1. CASE file[w][wpos[w]] \in Infected
    <3> DEFINE f == file[w][wpos[w]]
    <3>1. wpc[w] = "scan" /\ wpc' = [wpc EXCEPT ![w] = IF f \in Infected THEN "report" ELSE "consume"]
      BY <1>6 DEF Judge
    <3> HIDE DEF f
    <3>2. wpc' = [wpc EXCEPT ![w] = "report"]
      BY <2>1, <3>1 DEF f
    <3> QED BY <1>0, <3>1, <3>2
  <2>2. CASE file[w][wpos[w]] \notin Infected
    <3>1. mVirusCount' = mVirusCount
      BY <1>6, <2>2 DEF Judge, TypeOK
    <3> QED BY <1>0, <1>6, <3>1 DEF Judge
  <2> QED BY <2>1, <2>2
<1>7. CASE Consume(w) \/ Decrement(w) \/ PassEnd(w)
  BY <1>0, <1>7 DEF Consume, Decrement, PassEnd
<1>8. CASE UNCHANGED stvVars
  BY <1>8 DEF stvVars, workVars
<1> QED BY <1>1, <1>2, <1>3, <1>4, <1>5, <1>6, <1>7, <1>8 DEF WorkStep, AppendStep

\* Every step keeps the report: Judge makes it pending, Report makes it right.
LEMMA ReportedStep ==
  ASSUME IInv, EInv, Walk, Counted, Reported, [EngineNext]_vars
  PROVE  Reported'
<1> USE DEF Reported
<1>0. TypeOK /\ Indices
  BY DEF IInv, EInv
<1>1. ASSUME UNCHANGED virusCount, wkpc' \notin {"none", "begin"},
             wkpc \in {"none", "begin"} => wkpc' = wkpc,
             NEW w \in Workers,
             \/ WorkStep(w) \/ SpuriousWake(w) \/ JudgeExit(w) \/ Last(w) \/ Stop(w)
             \/ AppendRefused(w) \/ AppendEnter(w) \/ AppendStep \/ UNCHANGED stvVars
      PROVE  Reported'
  <2>1. /\ \A u \in Workers : wpc[u] = "report" => wpc'[u] = "report"
        /\ mVirusCount' = mVirusCount \/ \E u \in Workers : wpc'[u] = "report"
    BY <1>0, <1>1, PendingStays
  <2> QED BY <1>1, <2>1
<1>2. ASSUME wkpc' \in {"none", "begin"}, UNCHANGED <<wkpc, wkpos>> PROVE Reported'
  BY <1>2
<1>3. 0 \in Workers
  BY ScanAssumption DEF Workers
<1>4. ASSUME NEW w \in Workers, WorkerStep(w) \/ WorkerSpurious(w) \/ WorkerExit(w) PROVE Reported'
  BY <1>1, <1>2, <1>4 DEF WorkerStep, WorkerSpurious, WorkerExit, ThreadEnds, walkVars, engVars
<1>5. ASSUME NEW w \in Workers, WorkerReport(w) PROVE Reported'
  <2>1. virusCount' = SumFunction(mVirusCount') /\ UNCHANGED <<wkpc, wkpos>>
    BY <1>5 DEF WorkerReport, Report, walkVars
  <2> QED BY <2>1
<1>6. CASE WalkBegin
  <2>1. accepted = {}
    BY <1>6 DEF WalkBegin, Walk, EmptyHanded, Handing
  <2>2. Found = {}
    <3>1. \A f \in Files : judged[f] = 0
      BY <2>1 DEF IInv, Custody, Untouched
    <3> QED BY <3>1, ScanAssumption DEF Found
  <2>3. SumFunction(mVirusCount) = 0
    BY <2>2, NothingCounted DEF Counted
  <2>4. mVirusCount' = mVirusCount /\ virusCount' = 0 /\ wkpc' = "next"
    BY <1>6 DEF WalkBegin, stvVars, workVars
  <2> QED BY <2>3, <2>4
<1>7. CASE WalkFile \/ DealLock \/ DealAgain \/ DealLeave \/ WalkOver
  <2>1. /\ UNCHANGED <<virusCount, stvVars>> /\ wkpc \notin {"none", "begin"}
        /\ wkpc' \notin {"none", "begin"}
    BY <1>7 DEF WalkFile, DealLock, DealAgain, DealLeave, WalkOver, engVars
  <2> QED BY <1>1, <1>3, <2>1
<1>8. CASE DealTry
  <2>1. wki \in Workers
    BY <1>0, <1>8, IndexFacts DEF DealTry, Indices
  <2>2. /\ AppendRefused(wki) \/ AppendEnter(wki)
        /\ UNCHANGED virusCount /\ wkpc = "try" /\ wkpc' \notin {"none", "begin"}
    BY <1>8 DEF DealTry, engVars
  <2> QED BY <1>1, <2>1, <2>2
<1>9. CASE DealCall
  <2>1. tree[wkpos] \in Files
    BY <1>0, <1>9 DEF DealCall, Indices
  <2>2. AppendStep /\ UNCHANGED virusCount /\ wkpc = "call" /\ wkpc' \notin {"none", "begin"}
    BY <1>9, <2>1 DEF DealCall, AppendStep, engVars
  <2> QED BY <1>1, <1>3, <2>2
<1>10. CASE WalkLast
  <2>1. wki \in Workers
    BY <1>0, <1>10, IndexFacts DEF WalkLast, Indices
  <2>2. Last(wki) /\ UNCHANGED virusCount /\ wkpc = "last" /\ wkpc' = "last"
    BY <1>10 DEF WalkLast, engVars
  <2> QED BY <1>1, <2>1, <2>2
<1>11. CASE WalkFinish
  <2>1. UNCHANGED <<virusCount, stvVars>> /\ wkpc = "last" /\ wkpc' = "gone"
    BY <1>11 DEF WalkFinish, ThreadEnds
  <2> QED BY <1>1, <1>3, <2>1
<1>12. CASE CountFinish \/ StartCall \/ StartLock \/ ReleaseJoin \/ ReleaseWalk \/ StartUnlock
            \/ StopCall \/ StopWalk \/ UNCHANGED vars
  <2>1. UNCHANGED <<virusCount, stvVars, wkpc, wkpos>>
    BY <1>12 DEF CountFinish, StartCall, StartLock, ReleaseJoin, ReleaseWalk, StartUnlock, StopCall,
                 StopWalk, ThreadEnds, engVars, walkVars, vars
  <2> QED BY <1>1, <1>2, <1>3, <2>1
<1>13. CASE ReleaseStop
  <2>1. clk \in Workers
    BY <1>0, <1>13, IndexFacts DEF ReleaseStop, Indices
  <2>2. Stop(clk) /\ UNCHANGED <<virusCount, wkpc, wkpos>>
    BY <1>13 DEF ReleaseStop, engVars, walkVars
  <2> QED BY <1>1, <1>2, <2>1, <2>2
<1>14. CASE StopWorker
  <2>1. /\ UNCHANGED <<virusCount, wkpc, wkpos>>
        /\ UNCHANGED stvVars \/ (upk \in Workers /\ Stop(upk))
    BY <1>0, <1>14, IndexFacts DEF StopWorker, Indices, engVars, walkVars
  <2> QED BY <1>1, <1>2, <1>3, <2>1
<1>15. CASE StartCreate
  BY <1>15 DEF StartCreate
<1> QED
  BY <1>4, <1>5, <1>6, <1>7, <1>8, <1>9, <1>10, <1>11, <1>12, <1>13, <1>14, <1>15
  DEF EngineNext, Walker, Starter

\* Types of the variables that Indices does not speak of.
Rest ==
  /\ engineStatus \in {"INIT", "START", "STOP"}
  /\ mScanStatusMutex \in {"free", "start", "walker"}
  /\ virusCount \in Nat
  /\ tree \in Trees \cup {<<>>}
  /\ wkStatus \in {"INIT", "SCANING", "STOP"}
  /\ clpc \in {"idle", "lock", "release", "join", "create", "unlock"}
  /\ upc \in {"idle", "walk", "stop"}
  /\ job \in 0 .. MaxJobs /\ stops \in 0 .. MaxStops
  /\ clpc \notin {"idle", "unlock"} => job < MaxJobs

\* Every step keeps those types: the report is a sum of the workers' counts.
LEMMA RestStep ==
  ASSUME TypeOK, Rest, [EngineNext]_vars
  PROVE  Rest'
<1> USE DEF Rest
<1>1. CASE UNCHANGED vars
  BY <1>1 DEF vars, engVars, walkVars, callVars
<1>2. ASSUME NEW w \in Workers, WorkerReport(w) PROVE Rest'
  <2>1. SumFunction(mVirusCount) = Cardinality(Units(Workers, mVirusCount))
    <3>1. IsFiniteSet(Workers)
      BY FS_Interval, ScanAssumption DEF Workers
    <3> QED BY <3>1, SumIsUnits DEF TypeOK
  <2>2. IsFiniteSet(Units(Workers, mVirusCount))
    <3>1. IsFiniteSet(Workers)
      BY FS_Interval, ScanAssumption DEF Workers
    <3> QED BY <3>1, UnitsFinite DEF TypeOK
  <2>3. virusCount' \in Nat
    BY <1>2, <2>1, <2>2, FS_CardinalityType DEF WorkerReport
  <2> QED BY <1>2, <2>3 DEF WorkerReport, walkVars, callVars
<1>3. ASSUME NEW w \in Workers, WorkerStep(w) \/ WorkerSpurious(w) PROVE Rest'
  BY <1>3 DEF WorkerStep, WorkerSpurious, engVars, walkVars, callVars
<1>4. CASE CountFinish \/ \E w \in Workers : WorkerExit(w)
  BY <1>4 DEF CountFinish, WorkerExit, ThreadEnds, walkVars, callVars
<1>5. CASE WalkFinish
  BY <1>5 DEF WalkFinish, ThreadEnds, callVars
<1>6. CASE Walker /\ ~ WalkFinish
  BY <1>6 DEF Walker, WalkBegin, WalkFile, DealLock, DealTry, DealCall, DealAgain, DealLeave,
              WalkOver, WalkLast, engVars, callVars
<1>7. CASE StartCall \/ StartLock \/ ReleaseStop \/ ReleaseJoin \/ ReleaseWalk \/ StartUnlock
  BY <1>7 DEF StartCall, StartLock, ReleaseStop, ReleaseJoin, ReleaseWalk, StartUnlock, engVars, walkVars
<1>8. CASE StartCreate
  BY <1>8, EngineAssumption DEF StartCreate
<1>9. CASE StopCall
  BY <1>9, EngineAssumption DEF StopCall, walkVars
<1>10. CASE StopWalk \/ StopWorker
  BY <1>10 DEF StopWalk, StopWorker, engVars, walkVars
<1> QED
  BY <1>1, <1>2, <1>3, <1>4, <1>5, <1>6, <1>7, <1>8, <1>9, <1>10 DEF EngineNext, Starter

\* The report's invariant, with those it rests on.
THEOREM ReportInvariance == EngineSpec => [](Counted /\ Reported /\ Rest)
<1>1. EngineInit => Reported /\ Rest
  BY EngineAssumption DEF EngineInit, Reported, Rest
<1>2. IInv /\ EInv /\ Walk /\ Counted /\ Reported /\ [EngineNext]_vars => Reported'
  BY ReportedStep
<1>3. IInv /\ Rest /\ [EngineNext]_vars => Rest'
  BY RestStep DEF IInv
<1>4. EngineSpec => []Counted
  BY EngineUsesWorkers, CountsAddUp, PTL
<1> QED BY <1>1, <1>2, <1>3, <1>4, WalkInvariance, PTL DEF EngineSpec

\* When the end of a job that met a file is announced, the report counts every
\* virus found, whichever workers found them and in whatever order they reported.
THEOREM ReportIsSafe == EngineSpec => []ReportSafety
<1>1. IInv /\ EInv /\ Rest => EngineTypeOK
  BY DEF IInv, EInv, Indices, Bits, BitsOf, Announced, Rest, EngineTypeOK
<1>2. Counted /\ Reported /\ FinishedMeansAllExitedIfAnyFile => ReportComplete
  <2> SUFFICES ASSUME Counted, Reported, FinishedMeansAllExitedIfAnyFile, finished > 0, wkpos > 1
               PROVE  virusCount = Cardinality(Found)
    BY DEF ReportComplete, Found
  <2>1. wkpc = "gone" /\ \A w \in Workers : wpc[w] = "gone"
    BY DEF FinishedMeansAllExitedIfAnyFile
  <2>2. virusCount = SumFunction(mVirusCount)
    BY <2>1 DEF Reported
  <2> QED BY <2>2 DEF Counted
<1>3. EngineTypeOK /\ ReportComplete => ReportSafety
  BY DEF ReportSafety
<1> QED BY <1>1, <1>2, <1>3, ReportInvariance, WalkInvariance, EndIsTheEnd, PTL
=============================================================================
