-------------------------- MODULE EngineControlProofs --------------------------
(***************************************************************************)
(* The workers of a scan are there when they are used, and the end of a    *)
(* job leaves nothing behind but what was added to it: for any number of   *)
(* workers, files and calls of Start, SetScanDynamicStatus and Stop.       *)
(*                                                                         *)
(* The invariant says, for every place of the three callers, which workers *)
(* are there (Staff); Locks says why no two of them are at work together,  *)
(* Ends why Start finds no walker, and Left and Dealt what the announced   *)
(* end of a job means for its workers and its files.                       *)
(***************************************************************************)
EXTENDS EngineControl, FiniteSetTheorems, TLAPS

Dead     == {"none", "null", "deleted"}
Starting == {"release", "join", "create"}
Resizing == {"grow", "shrink", "join", "flags", "failed"}

Types ==
  /\ status \in {"INIT", "START", "STOP"} /\ count \in 0 .. MaxThreads /\ len \in 0 .. MaxThreads
  /\ life \in [Tags -> Alive \cup Dead] /\ pool \in [Tags -> SUBSET (1 .. MaxFiles)]
  /\ bits \subseteq Bits(MaxThreads) /\ flag \subseteq Bits(MaxThreads)
  /\ wkpc \in {"none", "begin", "next", "deal", "try", "leave", "last", "gone"}
  /\ wki \in Nat /\ wkpos \in Nat \ {0} /\ ctpc \in {"none", "begin", "gone"}
  /\ clpc \in {"idle", "lock", "release", "join", "create", "failed"}
  /\ clk \in Nat /\ cln \in 0 .. MaxThreads
  /\ rspc \in {"idle", "lock", "grow", "shrink", "join", "flags", "failed"}
  /\ rsk \in Nat /\ rsn \in 0 .. MaxThreads /\ rso \in 0 .. MaxThreads /\ upk \in Nat
  /\ size \in 0 .. MaxFiles /\ finished \in Nat /\ job \in Nat /\ resizes \in Nat /\ stops \in Nat

\* Where a thread's index is, and what its program counter says of the mutex.
Places ==
  /\ clpc = "create" => clk <= cln
  /\ clpc = "join" => clk \in Tags
  /\ rspc = "join" => rsk \in Tags
  /\ wkpc \in {"deal", "try", "leave"} => wkpos <= size
  /\ \A w \in Tags : life[w] = "none" \/ w < len
  /\ mutex = "walker" => wkpc \in {"try", "leave"}
  /\ mutex = "start" => clpc \in Starting
  /\ mutex = "resize" => rspc \in Resizing
  /\ rspc # "idle" => resizes > 0
  /\ added # {} => resizes > 0
  /\ uppc # "idle" => stops > 0
Sizes == \A w \in Tags : Cardinality(pool[w]) <= PoolSize

\* The end of a job is announced after its walk, and Start finds a job that has
\* been announced.
Ends ==
  /\ job > 0 => {0, 1} \subseteq flag
  /\ 1 \in bits => wkpc = "gone"
  /\ 0 \in bits => ctpc = "gone"
  /\ finished > 0 /\ job > 0 => wkpc = "gone"
  /\ finished > 0 /\ wkpos > 1 => ctpc = "gone"
  /\ job = 0 => wkpc = "none" /\ ctpc = "none" /\ wkpos = 1
  /\ clpc \in {"create", "failed"} =>
       /\ job > 0 /\ finished = 0 /\ 0 \notin bits /\ 1 \notin bits
       /\ wkpc \in {"none", "gone"} /\ ctpc \in {"none", "gone"}
  /\ clpc \in {"lock", "release", "join"} => job = 0 \/ finished > 0

\* Without Stop the mutex keeps the walker, Start and SetScanDynamicStatus
\* apart, and only a worker that is being deleted has been stopped.
Locks ==
  stops = 0 =>
    /\ rspc \in Resizing => mutex = "resize"
    /\ clpc \in Starting => mutex = "start"
    /\ wkpc \in {"try", "leave"} => mutex = "walker"
    /\ wkpc \notin {"none", "gone"} \/ clpc = "create" => status = "START"
    /\ ~ wkStop
    /\ \A w \in Tags : w \in stopped /\ life[w] \in Alive =>
         (rspc = "join" /\ w = rsk) \/ (clpc = "join" /\ w = clk)

\* What follows needs one of two things, that nobody called Stop or that nobody
\* called SetScanDynamicStatus, and a Start that did not fail.
Live == (stops = 0 \/ resizes = 0) /\ clpc # "failed"

\* The workers that are there, at every place of Start and SetScanDynamicStatus,
\* and mScanExitFlag: the bits of mScanThreadCount workers, the old number while
\* the new one is being made true.
StaffIs(S) == \A w \in Tags : life[w] \in Alive <=> w \in S
Staff ==
  /\ clpc \in {"idle", "lock"} /\ rspc \in {"idle", "lock"} => len = count /\ StaffIs(0 .. count - 1)
  /\ clpc \in {"release", "join"} => len = count /\ StaffIs(clk .. count - 1)
  /\ clpc = "create" => count = cln /\ len = clk /\ StaffIs(0 .. clk - 1)
  /\ rspc \in {"grow", "failed"} =>
       /\ rso < rsn /\ count = rsn /\ len = rsk /\ rso <= rsk /\ rsk <= rsn
       /\ StaffIs(0 .. rsk - 1) /\ rso .. rsk - 1 \subseteq added
  /\ rspc \in {"shrink", "join"} =>
       /\ rsn < rso /\ count = rsn /\ len = rso /\ rsn <= rsk /\ rsk <= rso
       /\ StaffIs(0 .. rsn - 1 \cup rsk .. rso - 1)
  /\ rspc = "join" => rsk < rso
  /\ rspc = "flags" => rsn <= rso /\ count = rsn /\ len = count /\ StaffIs(0 .. count - 1)
  /\ job > 0 => flag = Bits(IF rspc \in Resizing THEN rso ELSE count)

\* No file is in the pool of a worker that is not there, nor in any before the
\* walker has dealt one.
Pools ==
  /\ \A w \in Tags : life[w] \in Dead => pool[w] = {}
  /\ clpc = "create" \/ (wkpos = 1 /\ wkpc # "leave") => \A w \in Tags : pool[w] = {}

\* A worker whose bit is set has ended, unless it was deleted and added again;
\* after the end of a job that met a file all have, but those that were added.
Left ==
  /\ \A w \in Tags : w + 2 \in bits =>
       life[w] \in Dead \cup {"gone"} \/ (clpc # "create" /\ w \in added)
  /\ clpc = "create" => \A w \in Tags : w + 2 \in bits => life[w] = "gone"
  /\ finished > 0 /\ wkpos > 1 => \A w \in Tags : life[w] \in Dead \cup {"gone"} \/ w \in added

\* Without Stop: every file the walker has passed is somewhere, it passes all,
\* and a worker ends with an empty pool.
Covered(i) == i \in judged \cup dropped \/ \E w \in Tags : i \in pool[w]
Dealt ==
  /\ clpc # "create" =>
       /\ \A i \in 1 .. size : i < wkpos \/ (i = wkpos /\ wkpc = "leave") => Covered(i)
       /\ wkpc \in {"last", "gone"} => wkpos > size
  /\ \A w \in Tags : life[w] \in {"report", "gone"} /\ w \notin stopped => pool[w] = {}
  /\ finished > 0 /\ wkpos > 1 => \A w \in Tags \ added : pool[w] = {}

\* Who has met a worker that was not there.
Wild ==
  /\ resizes = 0 /\ clpc # "failed" => wild \subseteq {"stop", "report"}
  /\ stops = 0 => "deal" \notin wild

IInv ==
  /\ Types /\ Places /\ Sizes /\ Ends /\ Locks /\ Wild
  /\ Live => Staff /\ Pools /\ Left
  /\ Live /\ stops = 0 => Dealt
-----------------------------------------------------------------------------
\* The pools are finite: what a file more or less does to their size.
LEMMA PoolSizes ==
  /\ Cardinality({}) = 0
  /\ \A S \in SUBSET (1 .. MaxFiles) :
       /\ Cardinality(S) \in Nat
       /\ \A f \in S : Cardinality(S \ {f}) <= Cardinality(S)
       /\ \A f \in 1 .. MaxFiles : Cardinality(S \cup {f}) <= Cardinality(S) + 1
<1>1. IsFiniteSet(1 .. MaxFiles)
  BY FS_Interval, ControlConstants
<1>2. ASSUME NEW S \in SUBSET (1 .. MaxFiles)
      PROVE  /\ Cardinality(S) \in Nat
             /\ \A f \in S : Cardinality(S \ {f}) <= Cardinality(S)
             /\ \A f \in 1 .. MaxFiles : Cardinality(S \cup {f}) <= Cardinality(S) + 1
  <2>1. IsFiniteSet(S) /\ Cardinality(S) \in Nat
    BY <1>1, FS_Subset, FS_CardinalityType
  <2>2. \A f \in S : Cardinality(S \ {f}) <= Cardinality(S)
    BY <2>1, FS_RemoveElement
  <2>3. \A f \in 1 .. MaxFiles : Cardinality(S \cup {f}) <= Cardinality(S) + 1
    BY <2>1, FS_AddElement
  <2> QED BY <2>1, <2>2, <2>3
<1> QED BY <1>2, FS_EmptySet

\* The walker puts a file only into a pool that is not full.
LEMMA SizesStep ==
  ASSUME Types, Places, Sizes, [Next]_vars
  PROVE  Sizes'
<1> USE ControlConstants DEF Sizes
<1>0. pool \in [Tags -> SUBSET (1 .. MaxFiles)]
  BY DEF Types
<1>1. ASSUME NEW w \in Tags, pool' = [pool EXCEPT ![w] = {}] PROVE Sizes'
  BY <1>0, <1>1, PoolSizes
<1>2. ASSUME NEW w \in Tags, Judge(w) PROVE Sizes'
  <2>1. PICK f \in pool[w] : pool' = [pool EXCEPT ![w] = @ \ {f}]
    BY <1>2 DEF Judge
  <2>2. /\ Cardinality(pool[w] \ {f}) <= Cardinality(pool[w])
        /\ Cardinality(pool[w]) \in Nat /\ Cardinality(pool[w] \ {f}) \in Nat
    <3>1. pool[w] \in SUBSET (1 .. MaxFiles) /\ pool[w] \ {f} \in SUBSET (1 .. MaxFiles)
      BY <1>0
    <3> QED BY <3>1, PoolSizes
  <2>3. pool'[w] = pool[w] \ {f} /\ \A v \in Tags \ {w} : pool'[v] = pool[v]
    BY <1>0, <2>1
  <2>4. Cardinality(pool'[w]) <= PoolSize
    BY <2>2, <2>3
  <2> QED BY <2>3, <2>4
<1>3. CASE DealTry
  <2>1. CASE UNCHANGED pool
    BY <2>1
  <2>2. CASE wkpc = "try" /\ wki < count /\ ~ Full(wki) /\ pool' = [pool EXCEPT ![wki] = @ \cup {wkpos}]
    <3>1. wki \in Tags /\ wkpos \in 1 .. MaxFiles
      BY <2>2 DEF Types, Places, Tags
    <3>2. /\ Cardinality(pool[wki] \cup {wkpos}) <= Cardinality(pool[wki]) + 1
          /\ Cardinality(pool[wki]) \in Nat /\ Cardinality(pool[wki] \cup {wkpos}) \in Nat
      <4>1. pool[wki] \in SUBSET (1 .. MaxFiles) /\ pool[wki] \cup {wkpos} \in SUBSET (1 .. MaxFiles)
        BY <1>0, <3>1
      <4> QED BY <3>1, <4>1, PoolSizes
    <3>3. Cardinality(pool[wki]) <= PoolSize /\ Cardinality(pool[wki]) # PoolSize
      BY <2>2, <3>1 DEF Full
    <3>4. pool'[wki] = pool[wki] \cup {wkpos} /\ \A v \in Tags \ {wki} : pool'[v] = pool[v]
      BY <1>0, <2>2, <3>1
    <3>5. Cardinality(pool'[wki]) <= PoolSize
      BY <3>2, <3>3, <3>4
    <3> QED BY <3>4, <3>5
  <2> QED BY <1>3, <2>1, <2>2 DEF DealTry
<1>4. CASE ReleaseJoin
  BY <1>1, <1>4 DEF ReleaseJoin, DeleteJoin, Places
<1>5. CASE StartCreate
  <2>1. clk \in Tags
    BY <1>5 DEF StartCreate, Types, Tags
  <2> QED BY <1>1, <1>5, <2>1 DEF StartCreate, Create, workers
<1>6. CASE Grow
  <2>1. rsk \in Tags
    BY <1>6 DEF Grow, Types, Tags
  <2> QED BY <1>1, <1>6, <2>1 DEF Grow, Create, workers
<1>7. CASE ShrinkJoin
  BY <1>1, <1>7 DEF ShrinkJoin, DeleteJoin, Places
<1>8. CASE CountFinish \/ WalkBegin \/ WalkFile \/ DealLock \/ DealAgain \/ DealLeave \/ WalkOver
          \/ WalkLast \/ WalkFinish \/ StartCall \/ StartLock \/ ReleaseStop \/ StartInit \/
          StartFails \/ StartThreads \/ ResizeCall \/ ResizeLock \/ ShrinkStop \/ Erase \/
          ResizeFlags \/ StopCall \/ StopWalk \/ StopWorker \/ ReportTest \/ ReportUse \/ \E w \in
          Tags : Move(w) \/ Exit(w)
  <2>1. UNCHANGED pool
    BY <1>8 DEF Move, Exit, CountFinish, WalkBegin, WalkFile, DealLock, DealAgain, DealLeave,
        WalkOver, WalkLast, WalkFinish, StartCall, StartLock, ReleaseStop, StartInit, StartFails,
        StartThreads, ResizeCall, ResizeLock, ShrinkStop, Erase, ResizeFlags, StopCall, StopWalk,
        StopWorker, ReportTest, ReportUse, WorkerSame, Becomes, ThreadEnds, WalkerSame,
        StarterSame, DeleteStop, ResizeSame, StopperSame, ReportSame, workers
  <2> QED BY <2>1
<1>9. CASE UNCHANGED vars
  BY <1>9 DEF vars, workers
<1> QED
  BY <1>2, <1>3, <1>4, <1>5, <1>6, <1>7, <1>8, <1>9 DEF Next, WorkerStep, Walker, Starter, Resizer

\* Every step keeps the types.
LEMMA TypesStep ==
  ASSUME Types, Places, [Next]_vars
  PROVE  Types'
<1> USE ControlConstants DEF Types, Places, Tags, Bits, Alive, Dead
<1>1. ASSUME NEW w \in Tags, Move(w) PROVE Types'
  BY <1>1 DEF Move, WorkerSame, Becomes, ends, walker, starter, resizer, stopper
<1>2. ASSUME NEW w \in Tags, Judge(w) PROVE Types'
  BY <1>2 DEF Judge, WorkerSame, ends, walker, starter, resizer, stopper
<1>3. ASSUME NEW w \in Tags, Exit(w) PROVE Types'
  BY <1>3 DEF Exit, WorkerSame, Becomes, ThreadEnds, walker, starter, resizer, stopper
<1>4. CASE CountFinish
  BY <1>4 DEF CountFinish, ThreadEnds, workers, walker, starter, resizer, stopper
<1>5. CASE WalkBegin
  BY <1>5 DEF WalkBegin, workers, ends, starter, resizer, stopper
<1>6. CASE WalkFile
  BY <1>6 DEF WalkFile, WalkerSame, ends, starter, resizer, stopper
<1>7. CASE DealLock
  BY <1>7 DEF DealLock, WalkerSame, ends, walker, starter, resizer, stopper
<1>8. CASE DealTry
  BY <1>8 DEF DealTry, WalkerSame, ends, starter, resizer, stopper
<1>9. CASE DealAgain
  BY <1>9 DEF DealAgain, WalkerSame, ends, starter, resizer, stopper
<1>10. CASE DealLeave
  BY <1>10 DEF DealLeave, WalkerSame, ends, starter, resizer, stopper
<1>11. CASE WalkOver
  BY <1>11 DEF WalkOver, WalkerSame, ends, starter, resizer, stopper
<1>12. CASE WalkLast
  BY <1>12 DEF WalkLast, WalkerSame, ends, starter, resizer, stopper
<1>13. CASE WalkFinish
  BY <1>13 DEF WalkFinish, WalkerSame, ThreadEnds, starter, resizer, stopper
<1>14. CASE StartCall
  BY <1>14 DEF StartCall, StarterSame, workers, ends, walker, resizer, stopper
<1>15. CASE StartLock
  BY <1>15 DEF StartLock, StarterSame, workers, walker, resizer, stopper
<1>16. CASE ReleaseStop
  BY <1>16 DEF ReleaseStop, StarterSame, DeleteStop, workers, ends, walker, resizer, stopper
<1>17. CASE ReleaseJoin
  BY <1>17 DEF ReleaseJoin, StarterSame, DeleteJoin, Becomes, ends, walker, resizer, stopper
<1>18. CASE StartInit
  BY <1>18 DEF StartInit, StarterSame, walker, resizer, stopper
<1>19. CASE StartCreate
  BY <1>19 DEF StartCreate, StarterSame, Create, workers, ends, walker, resizer, stopper
<1>20. CASE StartFails
  BY <1>20 DEF StartFails, StarterSame, workers, walker, resizer, stopper
<1>21. CASE StartThreads
  BY <1>21 DEF StartThreads, workers, ends, resizer, stopper
<1>22. CASE ResizeCall
  BY <1>22 DEF ResizeCall, ResizeSame, workers, ends, walker, starter, stopper
<1>23. CASE ResizeLock
  BY <1>23 DEF ResizeLock, ResizeSame, workers, ends, walker, starter, stopper
<1>24. CASE Grow
  BY <1>24 DEF Grow, ResizeSame, Create, workers, ends, walker, starter, stopper
<1>25. CASE ShrinkStop
  BY <1>25 DEF ShrinkStop, ResizeSame, DeleteStop, workers, ends, walker, starter, stopper
<1>26. CASE ShrinkJoin
  BY <1>26 DEF ShrinkJoin, ResizeSame, DeleteJoin, Becomes, ends, walker, starter, stopper
<1>27. CASE Erase
  BY <1>27 DEF Erase, ResizeSame, ends, walker, starter, stopper
<1>28. CASE ResizeFlags
  BY <1>28 DEF ResizeFlags, ResizeSame, workers, ends, walker, starter, stopper
<1>29. CASE StopCall
  BY <1>29 DEF StopCall, StopperSame, workers, walker, starter, resizer
<1>30. CASE StopWorker
  BY <1>30 DEF StopWorker, StopperSame, DeleteStop, workers, walker, starter, resizer
<1>31. CASE StopWalk \/ ReportTest \/ ReportUse
  <2>1. UNCHANGED <<status, count, len, life, pool, bits, flag, wkpc, wki, wkpos, ctpc, clpc, clk,
        cln, rspc, rsk, rsn, rso, upk, size, finished, job, resizes, stops>>
    <3> HIDE DEF Types, Places, Bits, Alive, Dead
    <3> QED BY <1>31 DEF StopWalk, ReportTest, ReportUse, StopperSame, ReportSame, workers, ends,
        walker, starter, resizer, stopper
  <2> QED BY <2>1
<1>32. CASE UNCHANGED vars
  BY <1>32 DEF vars, workers, ends, walker, starter, resizer, stopper
<1> HIDE DEF Types, Places, Tags, Bits, Alive, Dead
<1> QED BY <1>1, <1>2, <1>3, <1>4, <1>5, <1>6, <1>7, <1>8, <1>9, <1>10, <1>11, <1>12, <1>13,
    <1>14, <1>15, <1>16, <1>17, <1>18, <1>19, <1>20, <1>21, <1>22, <1>23, <1>24, <1>25, <1>26,
    <1>27, <1>28, <1>29, <1>30, <1>31, <1>32 DEF Next, WorkerStep, Walker, Starter, Resizer

\* Every step keeps the threads in their places.
LEMMA PlacesStep ==
  ASSUME Types, Places, [Next]_vars
  PROVE  Places'
<1> USE ControlConstants DEF Types, Places, Tags, Alive, Dead, Starting, Resizing
<1>1. ASSUME NEW w \in Tags, Move(w) PROVE Places'
  BY <1>1 DEF Move, WorkerSame, Becomes, walker, starter, resizer, stopper
<1>2. ASSUME NEW w \in Tags, Exit(w) PROVE Places'
  BY <1>2 DEF Exit, WorkerSame, Becomes, ThreadEnds, walker, starter, resizer, stopper
<1>3. CASE WalkBegin
  BY <1>3 DEF WalkBegin, workers, starter, resizer, stopper, files
<1>4. CASE WalkFile
  BY <1>4 DEF WalkFile, WalkerSame, starter, resizer, stopper, files
<1>5. CASE DealLock
  BY <1>5 DEF DealLock, WalkerSame, walker, starter, resizer, stopper, files
<1>6. CASE DealTry
  BY <1>6 DEF DealTry, WalkerSame, starter, resizer, stopper, files
<1>7. CASE DealAgain
  BY <1>7 DEF DealAgain, WalkerSame, starter, resizer, stopper, files
<1>8. CASE DealLeave
  BY <1>8 DEF DealLeave, WalkerSame, starter, resizer, stopper, files
<1>9. CASE WalkOver
  BY <1>9 DEF WalkOver, WalkerSame, starter, resizer, stopper, files
<1>10. CASE WalkFinish
  BY <1>10 DEF WalkFinish, WalkerSame, ThreadEnds, starter, resizer, stopper, files
<1>11. CASE StartCall
  BY <1>11 DEF StartCall, StarterSame, workers, walker, resizer, stopper, files
<1>12. CASE StartLock
  BY <1>12 DEF StartLock, StarterSame, workers, walker, resizer, stopper, files
<1>13. CASE ReleaseStop
  BY <1>13 DEF ReleaseStop, StarterSame, DeleteStop, workers, walker, resizer, stopper, files
<1>14. CASE ReleaseJoin
  BY <1>14 DEF ReleaseJoin, StarterSame, DeleteJoin, Becomes, walker, resizer, stopper
<1>15. CASE StartInit
  BY <1>15 DEF StartInit, StarterSame, walker, resizer, stopper
<1>16. CASE StartCreate
  BY <1>16 DEF StartCreate, StarterSame, Create, workers, walker, resizer, stopper, files
<1>17. CASE StartFails
  BY <1>17 DEF StartFails, StarterSame, workers, walker, resizer, stopper, files
<1>18. CASE StartThreads
  BY <1>18 DEF StartThreads, workers, resizer, stopper, files
<1>19. CASE ResizeCall
  BY <1>19 DEF ResizeCall, ResizeSame, workers, walker, starter, stopper
<1>20. CASE ResizeLock
  BY <1>20 DEF ResizeLock, ResizeSame, workers, walker, starter, stopper
<1>21. CASE Grow
  BY <1>21 DEF Grow, ResizeSame, Create, workers, walker, starter, stopper
<1>22. CASE ShrinkStop
  BY <1>22 DEF ShrinkStop, ResizeSame, DeleteStop, workers, walker, starter, stopper
<1>23. CASE ShrinkJoin
  BY <1>23 DEF ShrinkJoin, ResizeSame, DeleteJoin, Becomes, walker, starter, stopper
<1>24. CASE Erase
  BY <1>24 DEF Erase, ResizeSame, walker, starter, stopper
<1>25. CASE ResizeFlags
  BY <1>25 DEF ResizeFlags, ResizeSame, workers, walker, starter, stopper
<1>26. CASE StopCall
  BY <1>26 DEF StopCall, StopperSame, workers, walker, starter, resizer, files
<1>27. CASE StopWalk
  BY <1>27 DEF StopWalk, StopperSame, workers, starter, resizer, files
<1>28. CASE StopWorker
  BY <1>28 DEF StopWorker, StopperSame, DeleteStop, workers, walker, starter, resizer, files
<1>29. CASE CountFinish \/ WalkLast \/ ReportTest \/ ReportUse \/ \E w \in Tags : Judge(w)
  <2>1. UNCHANGED <<clpc, clk, cln, rspc, rsk, wkpc, wkpos, size, life, len, mutex, resizes,
        added, uppc, stops>>
    <3> HIDE DEF Types, Places, Alive, Dead, Starting, Resizing
    <3> QED BY <1>29 DEF Judge, CountFinish, WalkLast, ReportTest, ReportUse, WorkerSame,
        ThreadEnds, WalkerSame, ReportSame, workers, walker, starter, resizer, stopper, files
  <2> QED BY <2>1
<1>30. CASE UNCHANGED vars
  BY <1>30 DEF vars, workers, walker, starter, resizer, stopper, files
<1> HIDE DEF Types, Places, Tags, Alive, Dead, Starting, Resizing
<1> QED BY <1>1, <1>2, <1>3, <1>4, <1>5, <1>6, <1>7, <1>8, <1>9, <1>10, <1>11, <1>12, <1>13,
    <1>14, <1>15, <1>16, <1>17, <1>18, <1>19, <1>20, <1>21, <1>22, <1>23, <1>24, <1>25, <1>26,
    <1>27, <1>28, <1>29, <1>30 DEF Next, WorkerStep, Walker, Starter, Resizer

\* Every step keeps the end of a job behind its walk: the bits of the walk and the
\* count are in every mScanExitFlag.
LEMMA EndsStep ==
  ASSUME Types, Ends, [Next]_vars
  PROVE  Ends'
<1> USE ControlConstants DEF Types, Ends, Bits, Tags
<1>1. ASSUME NEW w \in Tags, Exit(w) PROVE Ends'
  BY <1>1 DEF Exit, WorkerSame, Becomes, ThreadEnds, walker, starter
<1>2. CASE CountFinish
  BY <1>2 DEF CountFinish, ThreadEnds, walker, starter
<1>3. CASE WalkBegin
  BY <1>3 DEF WalkBegin, ends, starter
<1>4. CASE WalkFile
  BY <1>4 DEF WalkFile, WalkerSame, ends, starter
<1>5. CASE DealLock
  BY <1>5 DEF DealLock, WalkerSame, ends, walker, starter
<1>6. CASE DealTry
  BY <1>6 DEF DealTry, WalkerSame, ends, starter
<1>7. CASE DealAgain
  BY <1>7 DEF DealAgain, WalkerSame, ends, starter
<1>8. CASE DealLeave
  BY <1>8 DEF DealLeave, WalkerSame, ends, starter
<1>9. CASE WalkOver
  BY <1>9 DEF WalkOver, WalkerSame, ends, starter
<1>10. CASE WalkFinish
  BY <1>10 DEF WalkFinish, WalkerSame, ThreadEnds, starter
<1>11. CASE StartCall
  BY <1>11 DEF StartCall, StarterSame, ends, walker
<1>12. CASE StartLock
  BY <1>12 DEF StartLock, StarterSame, walker
<1>13. CASE ReleaseStop
  BY <1>13 DEF ReleaseStop, StarterSame, DeleteStop, ends, walker
<1>14. CASE ReleaseJoin
  BY <1>14 DEF ReleaseJoin, StarterSame, DeleteJoin, Becomes, ends, walker
<1>15. CASE StartInit
  BY <1>15 DEF StartInit, StarterSame, walker
<1>16. CASE StartFails
  BY <1>16 DEF StartFails, StarterSame, walker
<1>17. CASE StartThreads
  BY <1>17 DEF StartThreads, ends
<1>18. CASE ResizeFlags
  BY <1>18 DEF ResizeFlags, ResizeSame, ends, walker, starter
<1>19. CASE WalkLast \/ StartCreate \/ ResizeCall \/ ResizeLock \/ Grow \/ ShrinkStop \/
          ShrinkJoin \/ Erase \/ StopCall \/ StopWalk \/ StopWorker \/ ReportTest \/ ReportUse \/
          \E w \in Tags : Move(w) \/ Judge(w)
  <2>1. UNCHANGED <<flag, bits, finished, job, wkpc, wkpos, ctpc, clpc>>
    <3> HIDE DEF Types, Ends, Bits
    <3> QED BY <1>19 DEF Move, Judge, WalkLast, StartCreate, ResizeCall, ResizeLock, Grow,
        ShrinkStop, ShrinkJoin, Erase, StopCall, StopWalk, StopWorker, ReportTest, ReportUse,
        WorkerSame, Becomes, WalkerSame, StarterSame, Create, ResizeSame, DeleteStop, DeleteJoin,
        StopperSame, ReportSame, ends, walker, starter
  <2> QED BY <2>1
<1>20. CASE UNCHANGED vars
  BY <1>20 DEF vars, ends, walker, starter
<1> HIDE DEF Types, Ends, Bits, Tags
<1> QED BY <1>1, <1>2, <1>3, <1>4, <1>5, <1>6, <1>7, <1>8, <1>9, <1>10, <1>11, <1>12, <1>13,
    <1>14, <1>15, <1>16, <1>17, <1>18, <1>19, <1>20 DEF Next, WorkerStep, Walker, Starter, Resizer

\* Without Stop the status is START as long as there is a walker, which therefore
\* has the mutex when it deals.
LEMMA LocksStep ==
  ASSUME Types, Places, Ends, Locks, [Next]_vars
  PROVE  Locks'
<1> USE ControlConstants DEF Types, Places, Ends, Locks, Starting, Resizing, Tags, Bits, Alive,
       Dead
<1>1. ASSUME NEW w \in Tags, Move(w) PROVE Locks'
  BY <1>1 DEF Move, WorkerSame, Becomes, ends, walker, starter, resizer, stopper
<1>2. ASSUME NEW w \in Tags, Exit(w) PROVE Locks'
  BY <1>2 DEF Exit, WorkerSame, Becomes, ThreadEnds, walker, starter, resizer, stopper
<1>3. CASE CountFinish
  BY <1>3 DEF CountFinish, ThreadEnds, workers, walker, starter, resizer, stopper
<1>4. CASE WalkBegin
  BY <1>4 DEF WalkBegin, workers, ends, starter, resizer, stopper
<1>5. CASE WalkFile
  BY <1>5 DEF WalkFile, WalkerSame, ends, starter, resizer, stopper
<1>6. CASE DealLock
  BY <1>6 DEF DealLock, WalkerSame, ends, walker, starter, resizer, stopper
<1>7. CASE DealTry
  BY <1>7 DEF DealTry, WalkerSame, ends, starter, resizer, stopper
<1>8. CASE DealAgain
  BY <1>8 DEF DealAgain, WalkerSame, ends, starter, resizer, stopper
<1>9. CASE DealLeave
  BY <1>9 DEF DealLeave, WalkerSame, ends, starter, resizer, stopper
<1>10. CASE WalkOver
  BY <1>10 DEF WalkOver, WalkerSame, ends, starter, resizer, stopper
<1>11. CASE WalkFinish
  BY <1>11 DEF WalkFinish, WalkerSame, ThreadEnds, starter, resizer, stopper
<1>12. CASE StartCall
  BY <1>12 DEF StartCall, StarterSame, workers, ends, walker, resizer, stopper
<1>13. CASE StartLock
  BY <1>13 DEF StartLock, StarterSame, workers, walker, resizer, stopper
<1>14. CASE ReleaseStop
  BY <1>14 DEF ReleaseStop, StarterSame, DeleteStop, workers, ends, walker, resizer, stopper
<1>15. CASE ReleaseJoin
  BY <1>15 DEF ReleaseJoin, StarterSame, DeleteJoin, Becomes, ends, walker, resizer, stopper
<1>16. CASE StartInit
  BY <1>16 DEF StartInit, StarterSame, walker, resizer, stopper
<1>17. CASE StartCreate
  BY <1>17 DEF StartCreate, StarterSame, Create, workers, ends, walker, resizer, stopper
<1>18. CASE StartFails
  BY <1>18 DEF StartFails, StarterSame, workers, walker, resizer, stopper
<1>19. CASE StartThreads
  BY <1>19 DEF StartThreads, workers, ends, resizer, stopper
<1>20. CASE ResizeCall
  BY <1>20 DEF ResizeCall, ResizeSame, workers, ends, walker, starter, stopper
<1>21. CASE ResizeLock
  BY <1>21 DEF ResizeLock, ResizeSame, workers, ends, walker, starter, stopper
<1>22. CASE Grow
  BY <1>22 DEF Grow, ResizeSame, Create, workers, ends, walker, starter, stopper
<1>23. CASE ShrinkStop
  BY <1>23 DEF ShrinkStop, ResizeSame, DeleteStop, workers, ends, walker, starter, stopper
<1>24. CASE ShrinkJoin
  BY <1>24 DEF ShrinkJoin, ResizeSame, DeleteJoin, Becomes, ends, walker, starter, stopper
<1>25. CASE Erase
  BY <1>25 DEF Erase, ResizeSame, ends, walker, starter, stopper
<1>26. CASE ResizeFlags
  BY <1>26 DEF ResizeFlags, ResizeSame, workers, ends, walker, starter, stopper
<1>27. CASE StopCall
  BY <1>27 DEF StopCall, StopperSame, workers, walker, starter, resizer
<1>28. CASE StopWalk
  BY <1>28 DEF StopWalk, StopperSame, workers, starter, resizer
<1>29. CASE StopWorker
  BY <1>29 DEF StopWorker, StopperSame, DeleteStop, workers, walker, starter, resizer
<1>30. CASE WalkLast \/ ReportTest \/ ReportUse \/ \E w \in Tags : Judge(w)
  <2>1. UNCHANGED <<stops, rspc, mutex, clpc, wkpc, status, wkStop, life, stopped, rsk, clk>>
    <3> HIDE DEF Types, Places, Ends, Locks, Starting, Resizing, Bits, Alive, Dead
    <3> QED BY <1>30 DEF Judge, WalkLast, ReportTest, ReportUse, WorkerSame, WalkerSame,
        ReportSame, workers, ends, walker, starter, resizer, stopper
  <2> QED BY <2>1
<1>31. CASE UNCHANGED vars
  BY <1>31 DEF vars, workers, ends, walker, starter, resizer, stopper
<1> HIDE DEF Types, Places, Ends, Locks, Starting, Resizing, Tags, Bits, Alive, Dead
<1> QED BY <1>1, <1>2, <1>3, <1>4, <1>5, <1>6, <1>7, <1>8, <1>9, <1>10, <1>11, <1>12, <1>13,
    <1>14, <1>15, <1>16, <1>17, <1>18, <1>19, <1>20, <1>21, <1>22, <1>23, <1>24, <1>25, <1>26,
    <1>27, <1>28, <1>29, <1>30, <1>31 DEF Next, WorkerStep, Walker, Starter, Resizer

\* Start and SetScanDynamicStatus create and delete the workers they mean to.
LEMMA StaffStep ==
  ASSUME Types, Places, Ends, Locks, Live => Staff, [Next]_vars
  PROVE  (Live => Staff)'
<1> USE ControlConstants DEF Types, Places, Ends, Locks, Live, Staff, StaffIs, Starting, Resizing,
       Tags, Alive, Dead, Bits
<1>1. ASSUME NEW w \in Tags, Move(w) PROVE (Live => Staff)'
  BY <1>1 DEF Move, WorkerSame, Becomes, starter, resizer, stopper
<1>2. ASSUME NEW w \in Tags, Exit(w) PROVE (Live => Staff)'
  BY <1>2 DEF Exit, WorkerSame, Becomes, ThreadEnds, starter, resizer, stopper
<1>3. CASE StartCall
  BY <1>3 DEF StartCall, StarterSame, workers, resizer, stopper, files
<1>4. CASE StartLock
  BY <1>4 DEF StartLock, StarterSame, workers, resizer, stopper, files
<1>5. CASE ReleaseStop
  BY <1>5 DEF ReleaseStop, StarterSame, DeleteStop, workers, resizer, stopper, files
<1>6. CASE ReleaseJoin
  BY <1>6 DEF ReleaseJoin, StarterSame, DeleteJoin, Becomes, resizer, stopper
<1>7. CASE StartInit
  BY <1>7 DEF StartInit, StarterSame, resizer, stopper
<1>8. CASE StartCreate
  BY <1>8 DEF StartCreate, StarterSame, Create, workers, resizer, stopper, files
<1>9. CASE StartFails
  BY <1>9 DEF StartFails, StarterSame, workers, resizer, stopper, files
<1>10. CASE StartThreads
  BY <1>10 DEF StartThreads, workers, resizer, stopper, files
<1>11. CASE ResizeCall
  BY <1>11 DEF ResizeCall, ResizeSame, workers, starter, stopper
<1>12. CASE ResizeLock
  BY <1>12 DEF ResizeLock, ResizeSame, workers, starter, stopper
<1>13. CASE Grow
  BY <1>13 DEF Grow, ResizeSame, Create, workers, starter, stopper
<1>14. CASE ShrinkStop
  BY <1>14 DEF ShrinkStop, ResizeSame, DeleteStop, workers, starter, stopper
<1>15. CASE ShrinkJoin
  BY <1>15 DEF ShrinkJoin, ResizeSame, DeleteJoin, Becomes, starter, stopper
<1>16. CASE Erase
  BY <1>16 DEF Erase, ResizeSame, starter, stopper
<1>17. CASE ResizeFlags
  BY <1>17 DEF ResizeFlags, ResizeSame, workers, starter, stopper
<1>18. CASE StopCall
  BY <1>18 DEF StopCall, StopperSame, workers, starter, resizer, files
<1>19. CASE CountFinish \/ WalkBegin \/ WalkFile \/ DealLock \/ DealTry \/ DealAgain \/ DealLeave
          \/ WalkOver \/ WalkLast \/ WalkFinish \/ StopWalk \/ StopWorker \/ ReportTest \/
          ReportUse \/ \E w \in Tags : Judge(w)
  <2>1. UNCHANGED <<stops, resizes, clpc, rspc, len, count, life, clk, cln, rso, rsn, rsk, added,
        job, flag>>
    <3> HIDE DEF Types, Places, Ends, Locks, Live, Staff, StaffIs, Starting, Resizing, Alive, Dead, Bits
    <3> QED BY <1>19 DEF Judge, CountFinish, WalkBegin, WalkFile, DealLock, DealTry, DealAgain,
        DealLeave, WalkOver, WalkLast, WalkFinish, StopWalk, StopWorker, ReportTest, ReportUse,
        WorkerSame, ThreadEnds, WalkerSame, StopperSame, DeleteStop, ReportSame, workers, starter,
        resizer, stopper, files
  <2> QED BY <2>1
<1>20. CASE UNCHANGED vars
  BY <1>20 DEF vars, workers, starter, resizer, stopper, files
<1> HIDE DEF Types, Places, Ends, Locks, Live, Staff, StaffIs, Starting, Resizing, Tags, Alive, Dead, Bits
<1> QED BY <1>1, <1>2, <1>3, <1>4, <1>5, <1>6, <1>7, <1>8, <1>9, <1>10, <1>11, <1>12, <1>13,
    <1>14, <1>15, <1>16, <1>17, <1>18, <1>19, <1>20 DEF Next, WorkerStep, Walker, Starter, Resizer

\* A worker takes its files with it, and the walker gives files only to workers
\* that are there.
LEMMA PoolsStep ==
  ASSUME Types, Places, Ends, Locks, Live => Staff, Live => Pools, [Next]_vars
  PROVE  (Live => Pools)'
<1> USE ControlConstants DEF Types, Places, Ends, Locks, Live, Staff, StaffIs, Pools, Starting,
       Resizing, Tags, Alive, Dead, Bits
<1>1. ASSUME NEW w \in Tags, Move(w) PROVE (Live => Pools)'
  BY <1>1 DEF Move, WorkerSame, Becomes, walker, starter, resizer, stopper
<1>2. ASSUME NEW w \in Tags, Judge(w) PROVE (Live => Pools)'
  BY <1>2 DEF Judge, WorkerSame, walker, starter, resizer, stopper
<1>3. ASSUME NEW w \in Tags, Exit(w) PROVE (Live => Pools)'
  BY <1>3 DEF Exit, WorkerSame, Becomes, ThreadEnds, walker, starter, resizer, stopper
<1>4. CASE WalkBegin
  BY <1>4 DEF WalkBegin, workers, starter, resizer, stopper
<1>5. CASE WalkFile
  BY <1>5 DEF WalkFile, WalkerSame, starter, resizer, stopper
<1>6. CASE DealLock
  BY <1>6 DEF DealLock, WalkerSame, walker, starter, resizer, stopper
<1>7. CASE DealTry
  BY <1>7 DEF DealTry, WalkerSame, starter, resizer, stopper
<1>8. CASE DealAgain
  BY <1>8 DEF DealAgain, WalkerSame, starter, resizer, stopper
<1>9. CASE DealLeave
  BY <1>9 DEF DealLeave, WalkerSame, starter, resizer, stopper
<1>10. CASE WalkOver
  BY <1>10 DEF WalkOver, WalkerSame, starter, resizer, stopper
<1>11. CASE WalkFinish
  BY <1>11 DEF WalkFinish, WalkerSame, ThreadEnds, starter, resizer, stopper
<1>12. CASE StartCall
  BY <1>12 DEF StartCall, StarterSame, workers, walker, resizer, stopper
<1>13. CASE StartLock
  BY <1>13 DEF StartLock, StarterSame, workers, walker, resizer, stopper
<1>14. CASE ReleaseStop
  BY <1>14 DEF ReleaseStop, StarterSame, DeleteStop, workers, walker, resizer, stopper
<1>15. CASE ReleaseJoin
  BY <1>15 DEF ReleaseJoin, StarterSame, DeleteJoin, Becomes, walker, resizer, stopper
<1>16. CASE StartInit
  BY <1>16 DEF StartInit, StarterSame, walker, resizer, stopper
<1>17. CASE StartCreate
  BY <1>17 DEF StartCreate, StarterSame, Create, workers, walker, resizer, stopper
<1>18. CASE StartFails
  BY <1>18 DEF StartFails, StarterSame, workers, walker, resizer, stopper
<1>19. CASE StartThreads
  BY <1>19 DEF StartThreads, workers, resizer, stopper
<1>20. CASE ResizeCall
  BY <1>20 DEF ResizeCall, ResizeSame, workers, walker, starter, stopper
<1>21. CASE Grow
  BY <1>21 DEF Grow, ResizeSame, Create, workers, walker, starter, stopper
<1>22. CASE ShrinkJoin
  BY <1>22 DEF ShrinkJoin, ResizeSame, DeleteJoin, Becomes, walker, starter, stopper
<1>23. CASE Erase
  BY <1>23 DEF Erase, ResizeSame, walker, starter, stopper
<1>24. CASE StopCall
  BY <1>24 DEF StopCall, StopperSame, workers, walker, starter, resizer
<1>25. CASE CountFinish \/ WalkLast \/ ResizeLock \/ ShrinkStop \/ ResizeFlags \/ StopWalk \/
          StopWorker \/ ReportTest \/ ReportUse
  <2>1. UNCHANGED <<stops, resizes, clpc, life, pool, wkpos, wkpc>>
    <3> HIDE DEF Types, Places, Ends, Locks, Live, Staff, StaffIs, Pools, Starting, Resizing, Alive, Dead, Bits
    <3> QED BY <1>25 DEF CountFinish, WalkLast, ResizeLock, ShrinkStop, ResizeFlags, StopWalk,
        StopWorker, ReportTest, ReportUse, ThreadEnds, WalkerSame, ResizeSame, DeleteStop,
        StopperSame, ReportSame, workers, walker, starter, resizer, stopper
  <2> QED BY <2>1
<1>26. CASE UNCHANGED vars
  BY <1>26 DEF vars, workers, walker, starter, resizer, stopper
<1> HIDE DEF Types, Places, Ends, Locks, Live, Staff, StaffIs, Pools, Starting, Resizing, Tags, Alive, Dead, Bits
<1> QED BY <1>1, <1>2, <1>3, <1>4, <1>5, <1>6, <1>7, <1>8, <1>9, <1>10, <1>11, <1>12, <1>13,
    <1>14, <1>15, <1>16, <1>17, <1>18, <1>19, <1>20, <1>21, <1>22, <1>23, <1>24, <1>25, <1>26 DEF
    Next, WorkerStep, Walker, Starter, Resizer

\* The bits complete the flag only when every worker of the flag has ended; with
\* fewer workers than the flag speaks of they cannot.
LEMMA LeftStep ==
  ASSUME Types, Places, Ends, Locks, Live => Staff, Live => Left, [Next]_vars
  PROVE  (Live => Left)'
<1> USE ControlConstants DEF Types, Places, Ends, Locks, Live, Staff, StaffIs, Left, Starting,
       Resizing, Tags, Alive, Dead, Bits
<1>1. ASSUME NEW w \in Tags, Move(w) PROVE (Live => Left)'
  BY <1>1 DEF Move, WorkerSame, Becomes, ends, walker, starter, resizer, stopper
<1>2. ASSUME NEW w \in Tags, Exit(w) PROVE (Live => Left)'
  BY <1>2 DEF Exit, WorkerSame, Becomes, ThreadEnds, walker, starter, resizer, stopper
<1>3. CASE CountFinish
  BY <1>3 DEF CountFinish, ThreadEnds, workers, walker, starter, resizer, stopper, files
<1>4. CASE WalkFile
  BY <1>4 DEF WalkFile, WalkerSame, ends, starter, resizer, stopper, files
<1>5. CASE DealLeave
  BY <1>5 DEF DealLeave, WalkerSame, ends, starter, resizer, stopper, files
<1>6. CASE WalkFinish
  BY <1>6 DEF WalkFinish, WalkerSame, ThreadEnds, starter, resizer, stopper, files
<1>7. CASE StartCall
  BY <1>7 DEF StartCall, StarterSame, workers, ends, walker, resizer, stopper, files
<1>8. CASE StartLock
  BY <1>8 DEF StartLock, StarterSame, workers, walker, resizer, stopper, files
<1>9. CASE ReleaseStop
  BY <1>9 DEF ReleaseStop, StarterSame, DeleteStop, workers, ends, walker, resizer, stopper, files
<1>10. CASE ReleaseJoin
  BY <1>10 DEF ReleaseJoin, StarterSame, DeleteJoin, Becomes, ends, walker, resizer, stopper
<1>11. CASE StartInit
  BY <1>11 DEF StartInit, StarterSame, walker, resizer, stopper
<1>12. CASE StartCreate
  BY <1>12 DEF StartCreate, StarterSame, Create, workers, ends, walker, resizer, stopper, files
<1>13. CASE StartFails
  BY <1>13 DEF StartFails, StarterSame, workers, walker, resizer, stopper, files
<1>14. CASE StartThreads
  BY <1>14 DEF StartThreads, workers, ends, resizer, stopper, files
<1>15. CASE ResizeCall
  BY <1>15 DEF ResizeCall, ResizeSame, workers, ends, walker, starter, stopper
<1>16. CASE Grow
  BY <1>16 DEF Grow, ResizeSame, Create, workers, ends, walker, starter, stopper
<1>17. CASE ShrinkJoin
  BY <1>17 DEF ShrinkJoin, ResizeSame, DeleteJoin, Becomes, ends, walker, starter, stopper
<1>18. CASE Erase
  BY <1>18 DEF Erase, ResizeSame, ends, walker, starter, stopper
<1>19. CASE StopCall
  BY <1>19 DEF StopCall, StopperSame, workers, walker, starter, resizer, files
<1>20. CASE WalkBegin \/ DealLock \/ DealTry \/ DealAgain \/ WalkOver \/ WalkLast \/ ResizeLock \/
          ShrinkStop \/ ResizeFlags \/ StopWalk \/ StopWorker \/ ReportTest \/ ReportUse \/ \E w
          \in Tags : Judge(w)
  <2>1. UNCHANGED <<stops, resizes, clpc, bits, life, added, finished, wkpos>>
    <3> HIDE DEF Types, Places, Ends, Locks, Live, Staff, StaffIs, Left, Starting, Resizing, Alive, Dead, Bits
    <3> QED BY <1>20 DEF Judge, WalkBegin, DealLock, DealTry, DealAgain, WalkOver, WalkLast,
        ResizeLock, ShrinkStop, ResizeFlags, StopWalk, StopWorker, ReportTest, ReportUse,
        WorkerSame, WalkerSame, ResizeSame, DeleteStop, StopperSame, ReportSame, workers, ends,
        walker, starter, resizer, stopper, files
  <2> QED BY <2>1
<1>21. CASE UNCHANGED vars
  BY <1>21 DEF vars, workers, ends, walker, starter, resizer, stopper, files
<1> HIDE DEF Types, Places, Ends, Locks, Live, Staff, StaffIs, Left, Starting, Resizing, Tags, Alive, Dead, Bits
<1> QED BY <1>1, <1>2, <1>3, <1>4, <1>5, <1>6, <1>7, <1>8, <1>9, <1>10, <1>11, <1>12, <1>13,
    <1>14, <1>15, <1>16, <1>17, <1>18, <1>19, <1>20, <1>21 DEF Next, WorkerStep, Walker, Starter,
    Resizer

\* The end of a thread loses no file: what it may be the end of is a job whose
\* workers have ended, each with an empty pool.
LEMMA EndKeepsDealt ==
  ASSUME Types, Places, Ends, Locks, Live => Staff, Live => Pools, Live /\ stops = 0 => Dealt,
         (Live => Left)', NEW bit \in Nat, ThreadEnds(bit),
         UNCHANGED <<count, flag, pool, judged, dropped, added, stopped, size, job, wkpos>>,
         UNCHANGED <<stops, resizes, clpc, clk, rspc, rsk, rsn, rso>>,
         wkpc' = wkpc \/ (wkpc = "last" /\ wkpc' = "gone"),
         \A w \in Tags : life'[w] = life[w] \/ (life[w] = "report" /\ life'[w] = "gone")
  PROVE  (Live /\ stops = 0 => Dealt)'
<1> SUFFICES ASSUME Live, stops = 0 PROVE Dealt'
  BY DEF Live
<1>0. Dealt /\ Staff /\ Pools /\ Left'
  BY DEF Live
<1>1. /\ clpc # "create" =>
           /\ \A i \in 1 .. size : i < wkpos \/ (i = wkpos /\ wkpc' = "leave") => Covered(i)
           /\ wkpc' \in {"last", "gone"} => wkpos > size
  BY <1>0 DEF Dealt
<1>2. \A w \in Tags : life'[w] \in {"report", "gone"} /\ w \notin stopped => pool[w] = {}
  BY <1>0 DEF Dealt
<1>3. ASSUME finished' > 0, wkpos > 1, NEW w \in Tags \ added PROVE pool[w] = {}
  <2>1. CASE finished > 0
    BY <1>0, <1>3, <2>1 DEF Dealt
  <2>2. CASE ~ (finished > 0)
    <3>1. (bits \cup {bit}) \cap Bits(count) = flag
      BY <1>3, <2>2 DEF ThreadEnds, Types
    <3>2. job > 0
      BY <1>3 DEF Ends, Types
    <3>3. rspc # "join"
      <4> SUFFICES ASSUME rspc = "join" PROVE FALSE
        OBVIOUS
      <4>1. flag = Bits(rso) /\ count = rsn /\ rsn < rso
        BY <1>0, <3>2 DEF Staff, Resizing
      <4>2. rso + 1 \in Bits(rso) /\ rso + 1 \notin Bits(rsn)
        BY <4>1 DEF Bits, Types
      <4> QED BY <3>1, <4>1, <4>2
    <3>4. clpc # "join"
      BY <2>2, <3>2 DEF Ends, Types
    <3>5. life'[w] \in Dead \cup {"gone"}
      BY <1>0, <1>3 DEF Left
    <3>6. CASE life'[w] = "gone"
      <4>1. life[w] \in Alive
        BY <3>6 DEF Alive
      <4>2. w \notin stopped
        BY <3>3, <3>4, <4>1 DEF Locks
      <4> QED BY <1>2, <3>6, <4>2
    <3>7. CASE life'[w] \in Dead
      BY <1>0, <3>7 DEF Pools, Dead
    <3> QED BY <3>5, <3>6, <3>7
  <2> QED BY <2>1, <2>2
<1> QED BY <1>1, <1>2, <1>3 DEF Dealt, Covered

\* Without Stop no step loses a file.
LEMMA DealtStep ==
  ASSUME Types, Places, Ends, Locks, Live => Staff, Live => Pools, Live => Left,
         Live /\ stops = 0 => Dealt, (Live => Left)', [Next]_vars
  PROVE  (Live /\ stops = 0 => Dealt)'
<1> USE ControlConstants DEF Types, Places, Ends, Locks, Live, Staff, StaffIs, Pools, Left, Dealt,
       Covered, Starting, Resizing, Tags, Alive, Dead, Bits
<1>1. ASSUME NEW w \in Tags, Move(w) PROVE (Live /\ stops = 0 => Dealt)'
  BY <1>1 DEF Move, WorkerSame, Becomes, ends, walker, starter, resizer, stopper
<1>2. ASSUME NEW w \in Tags, Judge(w) PROVE (Live /\ stops = 0 => Dealt)'
  BY <1>2 DEF Judge, WorkerSame, ends, walker, starter, resizer, stopper
<1>3. ASSUME NEW w \in Tags, Exit(w) PROVE (Live /\ stops = 0 => Dealt)'
  <2> HIDE DEF Types, Places, Ends, Locks, Live, Staff, StaffIs, Pools, Left, Dealt, Covered, Starting, Resizing, Alive, Dead, Bits
  <2>1. /\ ThreadEnds(w + 2) /\ life[w] = "report" /\ life' = [life EXCEPT ![w] = "gone"] /\ wkpc' = wkpc
        /\ UNCHANGED <<count, flag, pool, judged, dropped, added, stopped, size, job, wkpos>>
        /\ UNCHANGED <<stops, resizes, clpc, clk, rspc, rsk, rsn, rso>>
    BY <1>3 DEF Exit, WorkerSame, Becomes, walker, starter, resizer, stopper
  <2>2. \A v \in Tags : life'[v] = life[v] \/ (life[v] = "report" /\ life'[v] = "gone")
    BY <2>1 DEF Types
  <2>3. w + 2 \in Nat
    BY DEF Tags
  <2> QED BY <2>1, <2>2, <2>3, EndKeepsDealt
<1>4. CASE CountFinish
  <2> HIDE DEF Types, Places, Ends, Locks, Live, Staff, StaffIs, Pools, Left, Dealt, Covered, Starting, Resizing, Alive, Dead, Bits
  <2>1. /\ ThreadEnds(0) /\ life' = life /\ wkpc' = wkpc
        /\ UNCHANGED <<count, flag, pool, judged, dropped, added, stopped, size, job, wkpos>>
        /\ UNCHANGED <<stops, resizes, clpc, clk, rspc, rsk, rsn, rso>>
    BY <1>4 DEF CountFinish, workers, walker, starter, resizer, stopper, files
  <2> QED BY <2>1, EndKeepsDealt
<1>5. CASE WalkBegin
  BY <1>5 DEF WalkBegin, workers, ends, starter, resizer, stopper, files
<1>6. CASE WalkFile
  BY <1>6 DEF WalkFile, WalkerSame, ends, starter, resizer, stopper, files
<1>7. CASE DealLock
  BY <1>7 DEF DealLock, WalkerSame, ends, walker, starter, resizer, stopper, files
<1>8. CASE DealTry
  BY <1>8 DEF DealTry, WalkerSame, ends, starter, resizer, stopper, files
<1>9. CASE DealAgain
  BY <1>9 DEF DealAgain, WalkerSame, ends, starter, resizer, stopper, files
<1>10. CASE DealLeave
  BY <1>10 DEF DealLeave, WalkerSame, ends, starter, resizer, stopper, files
<1>11. CASE WalkOver
  BY <1>11 DEF WalkOver, WalkerSame, ends, starter, resizer, stopper, files
<1>12. CASE WalkFinish
  <2> HIDE DEF Types, Places, Ends, Locks, Live, Staff, StaffIs, Pools, Left, Dealt, Covered, Starting, Resizing, Alive, Dead, Bits
  <2>1. /\ ThreadEnds(1) /\ life' = life /\ wkpc = "last" /\ wkpc' = "gone"
        /\ UNCHANGED <<count, flag, pool, judged, dropped, added, stopped, size, job, wkpos>>
        /\ UNCHANGED <<stops, resizes, clpc, clk, rspc, rsk, rsn, rso>>
    BY <1>12 DEF WalkFinish, WalkerSame, starter, resizer, stopper, files
  <2> QED BY <2>1, EndKeepsDealt
<1>13. CASE StartCall
  BY <1>13 DEF StartCall, StarterSame, workers, ends, walker, resizer, stopper, files
<1>14. CASE StartLock
  BY <1>14 DEF StartLock, StarterSame, workers, walker, resizer, stopper, files
<1>15. CASE ReleaseStop
  BY <1>15 DEF ReleaseStop, StarterSame, DeleteStop, workers, ends, walker, resizer, stopper,
    files
<1>16. CASE ReleaseJoin
  BY <1>16 DEF ReleaseJoin, StarterSame, DeleteJoin, Becomes, ends, walker, resizer, stopper
<1>17. CASE StartInit
  BY <1>17 DEF StartInit, StarterSame, walker, resizer, stopper
<1>18. CASE StartCreate
  BY <1>18 DEF StartCreate, StarterSame, Create, workers, ends, walker, resizer, stopper, files
<1>19. CASE StartFails
  BY <1>19 DEF StartFails, StarterSame, workers, walker, resizer, stopper, files
<1>20. CASE StartThreads
  BY <1>20 DEF StartThreads, workers, ends, resizer, stopper, files
<1>21. CASE ResizeCall
  BY <1>21 DEF ResizeCall, ResizeSame, workers, ends, walker, starter, stopper
<1>22. CASE Grow
  BY <1>22 DEF Grow, ResizeSame, Create, workers, ends, walker, starter, stopper
<1>23. CASE ShrinkStop
  BY <1>23 DEF ShrinkStop, ResizeSame, DeleteStop, workers, ends, walker, starter, stopper
<1>24. CASE ShrinkJoin
  BY <1>24 DEF ShrinkJoin, ResizeSame, DeleteJoin, Becomes, ends, walker, starter, stopper
<1>25. CASE Erase
  BY <1>25 DEF Erase, ResizeSame, ends, walker, starter, stopper
<1>26. CASE StopCall
  BY <1>26 DEF StopCall, StopperSame, workers, walker, starter, resizer, files
<1>27. CASE StopWorker
  BY <1>27 DEF StopWorker, StopperSame, DeleteStop, workers, walker, starter, resizer, files
<1>28. CASE WalkLast \/ ResizeLock \/ ResizeFlags \/ StopWalk \/ ReportTest \/ ReportUse
  <2>1. UNCHANGED <<stops, resizes, clpc, judged, dropped, pool, size, wkpos, wkpc, life, stopped,
        finished, added>>
    <3> HIDE DEF Types, Places, Ends, Locks, Live, Staff, StaffIs, Pools, Left, Dealt, Covered, Starting, Resizing, Alive, Dead, Bits
    <3> QED BY <1>28 DEF WalkLast, ResizeLock, ResizeFlags, StopWalk, ReportTest, ReportUse,
        WalkerSame, ResizeSame, StopperSame, ReportSame, workers, ends, walker, starter, resizer,
        stopper, files
  <2> QED BY <2>1
<1>29. CASE UNCHANGED vars
  BY <1>29 DEF vars, workers, ends, walker, starter, resizer, stopper, files
<1> HIDE DEF Types, Places, Ends, Locks, Live, Staff, StaffIs, Pools, Left, Dealt, Covered, Starting, Resizing, Tags, Alive, Dead, Bits
<1> QED BY <1>1, <1>2, <1>3, <1>4, <1>5, <1>6, <1>7, <1>8, <1>9, <1>10, <1>11, <1>12, <1>13,
    <1>14, <1>15, <1>16, <1>17, <1>18, <1>19, <1>20, <1>21, <1>22, <1>23, <1>24, <1>25, <1>26,
    <1>27, <1>28, <1>29 DEF Next, WorkerStep, Walker, Starter, Resizer

\* Every step that uses a worker finds it there, but those that Wild lets not.
LEMMA WildStep ==
  ASSUME Types, Places, Ends, Locks, Live => Staff, Live => Pools, Live => Left, Wild, [Next]_vars
  PROVE  Wild'
<1> USE ControlConstants DEF Types, Places, Ends, Locks, Live, Staff, StaffIs, Pools, Left, Wild,
       There, AllThere, Starting, Resizing, Tags, Alive, Dead, Bits
<1>1. ASSUME NEW w \in Tags, Judge(w) PROVE Wild'
  BY <1>1 DEF Judge, WorkerSame, starter, resizer, stopper
<1>2. CASE DealTry
  BY <1>2 DEF DealTry, WalkerSame, starter, resizer, stopper
<1>3. CASE WalkLast
  BY <1>3 DEF WalkLast, WalkerSame, starter, resizer, stopper
<1>4. CASE StartCall
  BY <1>4 DEF StartCall, StarterSame, resizer, stopper
<1>5. CASE StartLock
  BY <1>5 DEF StartLock, StarterSame, resizer, stopper
<1>6. CASE ReleaseStop
  BY <1>6 DEF ReleaseStop, StarterSame, DeleteStop, resizer, stopper
<1>7. CASE ReleaseJoin
  BY <1>7 DEF ReleaseJoin, StarterSame, DeleteJoin, Becomes, resizer, stopper
<1>8. CASE StartInit
  BY <1>8 DEF StartInit, StarterSame, resizer, stopper
<1>9. CASE StartCreate
  BY <1>9 DEF StartCreate, StarterSame, Create, resizer, stopper
<1>10. CASE StartFails
  BY <1>10 DEF StartFails, StarterSame, resizer, stopper
<1>11. CASE StartThreads
  BY <1>11 DEF StartThreads, resizer, stopper
<1>12. CASE ResizeCall
  BY <1>12 DEF ResizeCall, ResizeSame, starter, stopper
<1>13. CASE Grow
  BY <1>13 DEF Grow, ResizeSame, Create, starter, stopper
<1>14. CASE ShrinkStop
  BY <1>14 DEF ShrinkStop, ResizeSame, DeleteStop, starter, stopper
<1>15. CASE StopCall
  BY <1>15 DEF StopCall, StopperSame, starter, resizer
<1>16. CASE StopWorker
  BY <1>16 DEF StopWorker, StopperSame, DeleteStop, starter, resizer
<1>17. CASE ReportUse
  BY <1>17 DEF ReportUse, ReportSame, starter, resizer, stopper
<1>18. CASE CountFinish \/ WalkBegin \/ WalkFile \/ DealLock \/ DealAgain \/ DealLeave \/ WalkOver
          \/ WalkFinish \/ ResizeLock \/ ShrinkJoin \/ Erase \/ ResizeFlags \/ StopWalk \/
          ReportTest \/ \E w \in Tags : Move(w) \/ Exit(w)
  <2>1. UNCHANGED <<resizes, stops, clpc, wild>>
    <3> HIDE DEF Types, Places, Ends, Locks, Live, Staff, StaffIs, Pools, Left, Wild, There, AllThere, Starting, Resizing, Alive, Dead, Bits
    <3> QED BY <1>18 DEF Move, Exit, CountFinish, WalkBegin, WalkFile, DealLock, DealAgain,
        DealLeave, WalkOver, WalkFinish, ResizeLock, ShrinkJoin, Erase, ResizeFlags, StopWalk,
        ReportTest, WorkerSame, Becomes, ThreadEnds, WalkerSame, ResizeSame, DeleteJoin,
        StopperSame, ReportSame, starter, resizer, stopper
  <2> QED BY <2>1
<1>19. CASE UNCHANGED vars
  BY <1>19 DEF vars, starter, resizer, stopper
<1> HIDE DEF Types, Places, Ends, Locks, Live, Staff, StaffIs, Pools, Left, Wild, There, AllThere, Starting, Resizing, Tags, Alive, Dead, Bits
<1> QED BY <1>1, <1>2, <1>3, <1>4, <1>5, <1>6, <1>7, <1>8, <1>9, <1>10, <1>11, <1>12, <1>13,
    <1>14, <1>15, <1>16, <1>17, <1>18, <1>19 DEF Next, WorkerStep, Walker, Starter, Resizer

-----------------------------------------------------------------------------
\* The invariant of the workers, whoever calls Start, SetScanDynamicStatus and
\* Stop, for any number of workers, files and calls.
THEOREM ControlInvariance == Spec => []IInv
<1>1. Init => IInv
  <2> SUFFICES ASSUME Init PROVE IInv
    OBVIOUS
  <2> USE ControlConstants DEF Init, Tags
  <2>1. Types /\ Places /\ Ends /\ Locks /\ Wild
    BY DEF Types, Places, Ends, Locks, Wild, Alive, Dead, Starting, Resizing
  <2>2. Sizes
    BY PoolSizes DEF Sizes
  <2>3. Staff /\ Pools /\ Left
    BY DEF Staff, StaffIs, Pools, Left, Alive, Dead
  <2>4. Dealt
    BY DEF Dealt
  <2> QED BY <2>1, <2>2, <2>3, <2>4 DEF IInv
<1>2. IInv /\ [Next]_vars => IInv'
  <2> SUFFICES ASSUME IInv, [Next]_vars PROVE IInv'
    OBVIOUS
  <2>1. /\ Types /\ Places /\ Sizes /\ Ends /\ Locks /\ Wild
        /\ Live => Staff
        /\ Live => Pools
        /\ Live => Left
        /\ Live /\ stops = 0 => Dealt
    BY DEF IInv
  <2>2. Types' /\ Places' /\ Sizes' /\ Ends' /\ Locks'
    BY <2>1, TypesStep, PlacesStep, SizesStep, EndsStep, LocksStep
  <2>3. (Live => Staff)'
    BY <2>1, StaffStep
  <2>4. (Live => Pools)'
    BY <2>1, PoolsStep
  <2>5. (Live => Left)'
    BY <2>1, LeftStep
  <2>6. (Live /\ stops = 0 => Dealt)'
    BY <2>1, <2>5, DealtStep
  <2>7. Wild'
    BY <2>1, WildStep
  <2> QED BY <2>2, <2>3, <2>4, <2>5, <2>6, <2>7 DEF IInv
<1> QED BY <1>1, <1>2, PTL DEF Spec

\* A job that nobody resizes, and whose Start did not fail, uses only workers
\* that are there, but for Stop and the report thread; and as long as nobody
\* calls Stop no worker comes or goes while the walker deals out a file.
THEOREM WorkersAreSafe == Spec => []WorkersSafety
<1>1. IInv => WorkersSafety
  <2> SUFFICES ASSUME IInv PROVE WorkersSafety
    OBVIOUS
  <2>1. TypeOK
    BY DEF IInv, Types, Places, Sizes, TypeOK, Starting, Resizing
  <2>2. WildNeedsResize
    BY DEF IInv, Wild, Types, WildNeedsResize
  <2>3. DealExcludesResize
    BY DEF IInv, Wild, Locks, Resizing, DealExcludesResize
  <2> QED BY <2>1, <2>2, <2>3 DEF WorkersSafety
<1> QED BY <1>1, ControlInvariance, PTL

\* ALL_FINISHED of a walk that met a file leaves no thread but those of workers
\* that were added, and without Stop no file but in their pools.
THEOREM FinishedIsAccounted == Spec => []FinishedAccounts
<1>1. IInv => FinishedAccounts
  <2> SUFFICES ASSUME IInv, finished > 0, wkpos > 1, clpc = "idle", stops = 0 \/ resizes = 0
               PROVE  /\ wkpc = "gone" /\ ctpc = "gone"
                      /\ \A w \in Tags : There(w) => life[w] = "gone" \/ w \in added
                      /\ stops = 0 => 1 .. size \subseteq judged \cup dropped \cup UNION {pool[w] : w \in added}
    BY DEF FinishedAccounts, FinishedLeavesAdded, EveryFileAccounted
  <2>1. job > 0 /\ wkpc = "gone" /\ ctpc = "gone"
    BY DEF IInv, Ends, Types
  <2>2. Live
    BY DEF Live
  <2>3. \A w \in Tags : There(w) => life[w] = "gone" \/ w \in added
    BY <2>2 DEF IInv, Left, There, Alive, Dead
  <2>4. ASSUME stops = 0, NEW i \in 1 .. size
        PROVE  i \in judged \cup dropped \cup UNION {pool[w] : w \in added}
    <3>1. Dealt
      BY <2>2, <2>4 DEF IInv
    <3>2. Covered(i)
      <4>1. i < wkpos
        BY <2>1, <3>1 DEF Dealt, IInv, Types
      <4> QED BY <3>1, <4>1 DEF Dealt
    <3>3. \A w \in Tags \ added : pool[w] = {}
      BY <3>1 DEF Dealt
    <3> QED BY <3>2, <3>3 DEF Covered
  <2> QED BY <2>1, <2>3, <2>4
<1> QED BY <1>1, ControlInvariance, PTL
=============================================================================
