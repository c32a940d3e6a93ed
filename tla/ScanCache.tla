------------------------------- MODULE ScanCache -------------------------------
(***************************************************************************)
(* The cache of white files (ScanEngine/scancache.cpp) between the scan    *)
(* workers, which ask it before a scan and tell it after one, and its own  *)
(* threads, which load and store it.                                       *)
(*                                                                         *)
(* There is one cache file per top-level folder.  Workers come in under    *)
(* the engine's mJudgeCacheMutex, the cache's threads work under           *)
(* mCacheMutex; mCacheStatus is all that keeps the two apart.  A file is   *)
(* known by a block of four hashes of its parts; mHashPool finds a block   *)
(* by its first hash, its key.                                             *)
(*                                                                         *)
(* A call under mJudgeCacheMutex that does not use the pool is one step;   *)
(* one that does is two, the test of mCacheStatus and the use.  A cache    *)
(* thread's steps are its lock, its choice, and its work.  Files change    *)
(* at any time, MaxChanges times.  Not modelled: the intelligent scan, which  *)
(* passes by the engine and tells the cache nothing.                       *)
(***************************************************************************)
EXTENDS Integers, SequencesExt, Selection

CONSTANTS
  Workers,      \* scan threads
  Threads,      \* the cache's threads alive at one time
  Files, Folders,
  FolderOf,     \* [Files -> Folders]: GetCacheFile
  Blocks,       \* what GetFileHash can return
  MaxKey,       \* a block's first hash is one of 1 .. MaxKey
  KeyOf,        \* [Blocks -> 1 .. MaxKey]
  Bad,          \* the blocks of files the engine calls a virus
  MaxTime, MaxLooks, MaxJobs, MaxChanges,   \* bounds of the model
  None

Keys == 1 .. MaxKey

ASSUME ScanCacheConstants ==
  /\ FolderOf \in [Files -> Folders] /\ KeyOf \in [Blocks -> Keys]
  /\ MaxKey \in Nat /\ Bad \subseteq Blocks
  /\ MaxTime \in Nat /\ MaxLooks \in Nat /\ MaxJobs \in Nat /\ MaxChanges \in Nat
  /\ None \notin Files \cup Folders \cup Blocks \cup Workers \cup Threads

VARIABLES
  status,    \* mCacheStatus
  pool,      \* mHashPool: [Keys -> sequence of entries], no bucket if empty
  notes,     \* mCachePool: [Files -> entry or None]
  lastKey,   \* mCacheBlock.hash[0], 0 after a reset
  current,   \* mCurrentCacheFile
  disk,      \* [Folders -> sequence of entries]
  judge,     \* holder of mJudgeCacheMutex over more than one step
  cmutex,    \* holder of mCacheMutex
  tpc,       \* the cache's threads
  wpc, wfile,
  block,     \* the file's block as GetFileHash read it
  file,      \* [Files -> entry]: the file's block (None: unreadable) and mtime
  changes,   \* changes of files so far
  fin,       \* calls of Finished in this job
  looked,    \* a worker asked in this job
  freed,     \* the cache was deleted under a thread of its own
  looks, jobs,   \* spent so far
  white,     \* cacheHistory: blocks the engine has judged white
  wrong,     \* cacheHistory: files passed as white though they were not
  erased     \* cacheHistory: entries taken out by a lookup

poolVars == <<pool, notes, lastKey, current, disk>>
cacheHistory == <<white, wrong, erased>>
jobVars == <<fin, looked, freed, looks, jobs>>
workVars == <<wpc, wfile, block>>
allVars == <<status, poolVars, judge, cmutex, tpc, workVars, file, changes, jobVars, cacheHistory>>

Entry == [block : Blocks, time : 0 .. MaxTime]

\* A cache file of an earlier run: none, or a white block.
OldFiles == {<<>>} \cup {<<[block |-> b, time |-> 0]>> : b \in Blocks \ Bad}

CacheInit ==
  /\ status = "UNLOAD"
  /\ pool = [k \in Keys |-> <<>>]
  /\ notes = [f \in Files |-> None]
  /\ lastKey = 0
  /\ current = None
  /\ disk \in [Folders -> OldFiles]
  /\ judge = None /\ cmutex = None
  /\ tpc = [t \in Threads |-> "none"]
  /\ wpc = [w \in Workers |-> "idle"]
  /\ wfile = [w \in Workers |-> None]
  /\ block = None
  /\ file \in [Files -> [block : Blocks, time : {0}]] /\ changes = 0
  /\ fin = 0 /\ looked = FALSE /\ freed = FALSE
  /\ looks = 0 /\ jobs = 1
  /\ white = {e.block : e \in UNION {ToSet(disk[d]) : d \in Folders}}
  /\ wrong = {} /\ erased = {}

Size == \E k \in Keys : pool[k] # <<>>

\* pthread_create(&mCacheThread): the handle of an earlier thread is lost.
Create == \E t \in Threads :
  tpc[t] = "none" /\ tpc' = [tpc EXCEPT ![t] = "lock"]

(***************************************************************************)
(* ScanFile, called by a worker under mJudgeCacheMutex.                    *)
(***************************************************************************)
\* The file goes to the engine.
AskEngine(w, f) ==
  /\ wpc' = [wpc EXCEPT ![w] = "scan"] /\ wfile' = [wfile EXCEPT ![w] = f]

Ask(w, f) ==
  /\ wpc[w] = "idle" /\ judge = None /\ fin = 0 /\ ~freed /\ looks < MaxLooks
  /\ looks' = looks + 1 /\ looked' = TRUE
  /\ UNCHANGED <<pool, notes, disk, cmutex, file, changes, fin, freed, jobs, cacheHistory>>

LookUnload(w, f) ==
  /\ status = "UNLOAD" /\ status' = "LOADING"
  /\ current' = FolderOf[f]
  /\ Ask(w, f) /\ AskEngine(w, f) /\ Create
  /\ UNCHANGED <<lastKey, judge, block>>

LookBusy(w, f) ==
  /\ status \in {"LOADING", "UNLOADING"}
  /\ Ask(w, f) /\ AskEngine(w, f)
  /\ UNCHANGED <<status, lastKey, current, judge, tpc, block>>

LookSwap(w, f) ==
  /\ status = "SWAP" /\ status' = "UNLOADING"
  /\ Ask(w, f) /\ AskEngine(w, f) /\ Create
  /\ UNCHANGED <<lastKey, current, judge, block>>

LookOther(w, f) ==
  /\ status = "LOADED" /\ current # FolderOf[f] /\ status' = "SWAP"
  /\ Ask(w, f) /\ AskEngine(w, f)
  /\ UNCHANGED <<lastKey, current, judge, tpc, block>>

\* GetFileHash fails: neither scanned nor looked up.
LookUnreadable(w, f) ==
  /\ status = "LOADED" /\ current = FolderOf[f] /\ file[f].block = None
  /\ Ask(w, f) /\ lastKey' = 0
  /\ UNCHANGED <<status, current, judge, tpc, workVars>>

LookLoaded(w, f) ==
  /\ status = "LOADED" /\ current = FolderOf[f] /\ file[f].block # None
  /\ Ask(w, f)
  /\ judge' = w
  /\ lastKey' = KeyOf[file[f].block] /\ block' = file[f].block
  /\ wpc' = [wpc EXCEPT ![w] = "probe"] /\ wfile' = [wfile EXCEPT ![w] = f]
  /\ UNCHANGED <<status, current, tpc>>

Bucket == pool[KeyOf[block]]

\* The first entry of the bucket with the same block, 0 if there is none.
Found == SelectInSeq(Bucket, LAMBDA e : e.block = block)
Noted(f) == [block |-> block, time |-> file[f].time]

\* An entry with another time is erased.
ProbeErase(w) ==
  /\ wpc[w] = "probe" /\ ~freed
  /\ \E i \in {Found} \ {0} : Bucket[i].time # file[wfile[w]].time
  /\ pool' = [pool EXCEPT ![KeyOf[block]] = RemoveAt(@, Found)]
  /\ erased' = erased \cup {Bucket[Found]}
  /\ notes' = [notes EXCEPT ![wfile[w]] = IF @ = None THEN Noted(wfile[w]) ELSE @]
  /\ AskEngine(w, wfile[w])
  /\ judge' = None /\ block' = None
  /\ UNCHANGED <<status, lastKey, current, disk, cmutex, tpc, file, changes, jobVars, white, wrong>>

\* No bucket: mCachePool.insert keeps an older note of the file.
ProbeNew(w) ==
  /\ wpc[w] = "probe" /\ ~freed /\ Bucket = <<>>
  /\ notes' = [notes EXCEPT ![wfile[w]] = IF @ = None THEN Noted(wfile[w]) ELSE @]
  /\ AskEngine(w, wfile[w])
  /\ judge' = None /\ block' = None
  /\ UNCHANGED <<status, pool, lastKey, current, disk, cmutex, tpc, file, changes, jobVars, cacheHistory>>

\* The answer "white": found with its time, or not found in a bucket of others.
ProbeWhite(w) ==
  /\ wpc[w] = "probe" /\ ~freed /\ Bucket # <<>>
  /\ \A i \in {Found} \ {0} : Bucket[i].time = file[wfile[w]].time
  /\ wrong' = wrong \cup {f \in {wfile[w]} : block \notin white}
  /\ wpc' = [wpc EXCEPT ![w] = "idle"] /\ wfile' = [wfile EXCEPT ![w] = None]
  /\ judge' = None /\ block' = None
  /\ UNCHANGED <<status, poolVars, cmutex, tpc, file, changes, jobVars, white, erased>>

(***************************************************************************)
(* The scan, and CacheFile for a file that was found white.                *)
(***************************************************************************)
ScanWhite(w) ==
  /\ wpc[w] = "scan" /\ file[wfile[w]].block \in Blocks \ Bad
  /\ white' = white \cup {file[wfile[w]].block}
  /\ wpc' = [wpc EXCEPT ![w] = "cache"]
  /\ UNCHANGED <<status, poolVars, judge, cmutex, tpc, wfile, block, file, changes, jobVars, wrong, erased>>

ScanOther(w) ==
  /\ wpc[w] = "scan" /\ file[wfile[w]].block \in Bad \cup {None}
  /\ wpc' = [wpc EXCEPT ![w] = "idle"] /\ wfile' = [wfile EXCEPT ![w] = None]
  /\ UNCHANGED <<status, poolVars, judge, cmutex, tpc, block, file, changes, jobVars, cacheHistory>>

\* Mutant: the status is not tested.
CacheUntested(w) ==
  /\ wpc[w] = "cache" /\ judge = None /\ ~freed
  /\ wpc' = [wpc EXCEPT ![w] = "put"] /\ judge' = w
  /\ UNCHANGED <<status, poolVars, cmutex, tpc, wfile, block, file, changes, jobVars, cacheHistory>>

CacheTest(w) ==
  /\ wpc[w] = "cache" /\ judge = None /\ ~freed /\ status = "LOADED"
  /\ wpc' = [wpc EXCEPT ![w] = "put"] /\ judge' = w
  /\ UNCHANGED <<status, poolVars, cmutex, tpc, wfile, block, file, changes, jobVars, cacheHistory>>

CacheNot(w) ==
  /\ wpc[w] = "cache" /\ judge = None /\ ~freed /\ status # "LOADED"
  /\ wpc' = [wpc EXCEPT ![w] = "idle"] /\ wfile' = [wfile EXCEPT ![w] = None]
  /\ UNCHANGED <<status, poolVars, judge, cmutex, tpc, block, file, changes, jobVars, cacheHistory>>

\* What is cached for a file without a note: what it is now.  The block is a
\* fresh local: below 512 bytes only its key is read, and of an unreadable file
\* nothing; the rest is what was on the stack.
Fresh(f) ==
  IF file[f].block # None
    THEN [block : {b \in Blocks : KeyOf[b] = KeyOf[file[f].block]}, time : {file[f].time}]
  ELSE [block : Blocks, time : {0}]

\* The bucket is looked for under mCacheBlock, which is the file last asked
\* about by any worker; a bucket is made under the entry's own key, and
\* map::insert does nothing if there is one.
Put(e) ==
  pool' = IF lastKey \in Keys /\ pool[lastKey] # <<>>
            THEN [pool EXCEPT ![lastKey] = Append(@, e)]
          ELSE IF pool[KeyOf[e.block]] = <<>>
            THEN [pool EXCEPT ![KeyOf[e.block]] = <<e>>]
          ELSE pool

CachePut(w) ==
  /\ wpc[w] = "put" /\ ~freed
  /\ \/ notes[wfile[w]] = None /\ \E e \in Fresh(wfile[w]) : Put(e)
     \/ notes[wfile[w]] # None /\ Put(notes[wfile[w]])
  /\ notes' = [notes EXCEPT ![wfile[w]] = None]
  /\ wpc' = [wpc EXCEPT ![w] = "idle"] /\ wfile' = [wfile EXCEPT ![w] = None]
  /\ judge' = None
  /\ UNCHANGED <<status, lastKey, current, disk, cmutex, tpc, block, file, changes, jobVars, cacheHistory>>

(***************************************************************************)
(* The cache's threads: CacheWork, WorkFunc.                               *)
(***************************************************************************)
ThreadSame == UNCHANGED <<notes, lastKey, current, judge, workVars, file, changes, jobVars, cacheHistory>>

Lock(t) ==
  /\ tpc[t] = "lock" /\ cmutex = None /\ ~freed
  /\ cmutex' = t /\ tpc' = [tpc EXCEPT ![t] = "run"]
  /\ UNCHANGED <<status, pool, disk>> /\ ThreadSame

StoreBegin(t) ==
  /\ tpc[t] = "run" /\ Size /\ ~freed
  /\ status' = "UNLOADING" /\ tpc' = [tpc EXCEPT ![t] = "store"]
  /\ UNCHANGED <<pool, disk, cmutex>> /\ ThreadSame

\* The buckets in the order of their keys; the status before the pool is empty.
Store(t) ==
  /\ tpc[t] = "store" /\ ~freed
  /\ disk' = [d \in Folders |->
                IF d = current THEN FlattenSeq([k \in Keys |-> pool[k]]) ELSE disk[d]]
  /\ status' = "UNLOAD" /\ tpc' = [tpc EXCEPT ![t] = "clear"]
  /\ UNCHANGED <<pool, cmutex>> /\ ThreadSame

Clear(t) ==
  /\ tpc[t] = "clear" /\ ~freed
  /\ pool' = [k \in Keys |-> <<>>]
  /\ cmutex' = None /\ tpc' = [tpc EXCEPT ![t] = "none"]
  /\ UNCHANGED <<status, disk>> /\ ThreadSame

\* Mutant: the status is LOADED while the file is being read.
LoadEarly(t) ==
  /\ tpc[t] = "run" /\ ~Size /\ ~freed
  /\ status' = "LOADED" /\ tpc' = [tpc EXCEPT ![t] = "load"]
  /\ UNCHANGED <<pool, disk, cmutex>> /\ ThreadSame

\* Nothing in the pool: the cache file is loaded, whatever the thread was for.
LoadBegin(t) ==
  /\ tpc[t] = "run" /\ ~Size /\ ~freed
  /\ status' = "LOADING" /\ tpc' = [tpc EXCEPT ![t] = "load"]
  /\ UNCHANGED <<pool, disk, cmutex>> /\ ThreadSame

OnDisk == IF current = None THEN <<>> ELSE disk[current]

\* Mutant: the loader gives up and leaves the status.
LoadFails(t) ==
  /\ tpc[t] = "load" /\ ~freed
  /\ cmutex' = None /\ tpc' = [tpc EXCEPT ![t] = "none"]
  /\ UNCHANGED <<status, pool, disk>> /\ ThreadSame

Load(t) ==
  /\ tpc[t] = "load" /\ ~freed
  /\ pool' = [k \in Keys |-> Kept(OnDisk, {e \in ToSet(OnDisk) : KeyOf[e.block] = k})]
  /\ status' = "LOADED"
  /\ cmutex' = None /\ tpc' = [tpc EXCEPT ![t] = "none"]
  /\ UNCHANGED disk /\ ThreadSame

(***************************************************************************)
(* The engine's side, and the file system's.                               *)
(***************************************************************************)
\* NotifyScanFinished: the workers have ended; an empty walk announces its end
\* twice.
Finished ==
  /\ \A w \in Workers : wpc[w] = "idle"
  /\ fin = 0 \/ (fin = 1 /\ ~looked)
  /\ ~freed /\ fin' = fin + 1
  /\ status' = "UNLOADING" /\ Create
  /\ UNCHANGED <<poolVars, judge, cmutex, workVars, file, changes, looked, freed, looks, jobs, cacheHistory>>

\* Release and the next Start: the cache is deleted and made anew.
Release ==
  /\ fin > 0 /\ ~freed /\ jobs < MaxJobs
  /\ \A t \in Threads : tpc[t] = "none"
  /\ status' = "UNLOAD" /\ pool' = [k \in Keys |-> <<>>]
  /\ notes' = [f \in Files |-> None] /\ lastKey' = 0 /\ current' = None
  /\ fin' = 0 /\ looked' = FALSE /\ jobs' = jobs + 1
  /\ UNCHANGED <<disk, judge, cmutex, tpc, workVars, file, changes, freed, looks, cacheHistory>>

\* ... while one of its threads runs: what happens then is undefined.
ReleaseInUse ==
  /\ fin > 0 /\ ~freed /\ jobs < MaxJobs
  /\ \E t \in Threads : tpc[t] # "none"
  /\ freed' = TRUE
  /\ UNCHANGED <<status, poolVars, judge, cmutex, tpc, workVars, file, changes, fin>>
  /\ UNCHANGED <<looked, looks, jobs, cacheHistory>>

\* mtime counts seconds: it may stay.
ChangeFile(f) ==
  /\ changes < MaxChanges /\ changes' = changes + 1
  /\ \E b \in (Blocks \cup {None}) \ {file[f].block}, t \in {file[f].time, file[f].time + 1} :
        t <= MaxTime /\ file' = [file EXCEPT ![f] = [block |-> b, time |-> t]]
  /\ UNCHANGED <<status, poolVars, judge, cmutex, tpc, workVars, jobVars, cacheHistory>>

ThreadStep(t) ==
  Lock(t) \/ StoreBegin(t) \/ Store(t) \/ Clear(t) \/ LoadBegin(t) \/ Load(t)

CacheNext ==
  \/ \E w \in Workers :
        \/ \E f \in Files :
              \/ LookUnload(w, f) \/ LookBusy(w, f) \/ LookSwap(w, f) \/ LookOther(w, f)
              \/ LookUnreadable(w, f) \/ LookLoaded(w, f)
        \/ ProbeErase(w) \/ ProbeNew(w) \/ ProbeWhite(w)
        \/ ScanWhite(w) \/ ScanOther(w) \/ CacheTest(w) \/ CacheNot(w) \/ CachePut(w)
  \/ \E t \in Threads : ThreadStep(t)
  \/ Finished \/ Release \/ ReleaseInUse
  \/ \E f \in Files : ChangeFile(f)

CacheSpec == CacheInit /\ [][CacheNext]_allVars

\* The cache's threads run.
LiveSpec == CacheSpec /\ \A t \in Threads : WF_allVars(ThreadStep(t))

-----------------------------------------------------------------------------
\* Types, and who holds which mutex.
CacheTypeOK ==
  /\ status \in {"UNLOAD", "LOADING", "LOADED", "SWAP", "UNLOADING"}
  /\ \A k \in Keys : \A i \in 1 .. Len(pool[k]) : pool[k][i] \in Entry
  /\ \A f \in Files : notes[f] \in Entry \cup {None}
  /\ lastKey \in Keys \cup {0} /\ current \in Folders \cup {None}
  /\ \A d \in Folders : \A i \in 1 .. Len(disk[d]) : disk[d][i] \in Entry
  /\ \A w \in Workers : wpc[w] \in {"probe", "put"} <=> judge = w
  /\ \A t \in Threads : tpc[t] \in {"run", "store", "clear", "load"} <=> cmutex = t
  /\ wrong \subseteq Files /\ changes \in 0 .. MaxChanges

\* mHashPool is shared by workers and cache threads under two different mutexes:
\* while a thread stores, clears or loads it, no worker uses it (mCacheStatus is
\* set in the right order in ScanFile, WorkFunc and Finished).
PoolIsExclusive == \A t \in Threads, w \in Workers :
  ~(tpc[t] \in {"store", "clear", "load"} /\ wpc[w] \in {"probe", "put"})

\* A cache file loses an entry only if a lookup took it out: whatever the order
\* of swaps, loads and the end of the scan, a pool is stored over the file it was
\* loaded from (mCurrentCacheFile, WorkFunc).
DiskKeepsEntries ==
  [][\A d \in Folders : ToSet(disk[d]) \ ToSet(disk'[d]) \subseteq erased]_allVars

\* A file passed as white is one the engine has judged white (scancache.h:20),
\* as long as no file changes and no two of them begin alike: one that begins
\* like a white file is passed unseen.
WhiteWasJudged ==
  changes = 0 /\ (\A b, c \in Blocks : KeyOf[b] = KeyOf[c] => b = c) => wrong = {}

\* The pool is used by one at a time and answers only what was judged.
CacheSafety == CacheTypeOK /\ PoolIsExclusive /\ WhiteWasJudged

\* A cache that is being loaded or stored settles, so that files are cached
\* again, unless it is deleted in the middle.
StatusSettles ==
  status \in {"LOADING", "UNLOADING"} ~> status \in {"LOADED", "UNLOAD"} \/ freed
=============================================================================
