------------------------------ MODULE DefenEngine ------------------------------
(***************************************************************************)
(* The file monitor of the kernel-defence daemon (DefenMod/defenengine.cpp *)
(* and defenmodproxy.cpp): a monitor thread gets file changes from inotify *)
(* or fanotify and judges them against a cache of files; changed files are *)
(* queued for a scan thread, which asks the scanning daemon and notes the  *)
(* answer in the cache.  load_defen_module starts it, again if it already  *)
(* runs, and unload_defen_module stops and deletes it.                     *)
(*                                                                         *)
(* m_lock is held for a whole JudgeChange and for each pass of ThreadMain, *)
(* which are one step each.  Changes the rules on processes and paths let  *)
(* pass never reach the cache and are left out.  Of an entry's pid all that *)
(* counts is whether a change is by the process of the last one.  Entries  *)
(* carry numbers that are not given out again, so that a freed one is      *)
(* recognised.                                                             *)
(***************************************************************************)
EXTENDS Integers, Sequences, SequencesExt, FiniteSets, Selection

CONSTANTS
  Watched,    \* files
  MaxEntries, \* bound on the cache entries ever made
  MaxCache,   \* MAX_CACHE_NUMBER
  HotCount,   \* the 10 of JudgeChange
  MaxWraps,   \* bound on the entries whose count wraps, each of them once
  MaxScans,   \* bound on the length of m_scans, which the code does not bound
  MaxLoads    \* bound on calls of load_defen_module

\* Numbers of cache entries.
Entries == 1 .. MaxEntries

ASSUME DefenEngineConstants ==
  /\ Watched # {} /\ MaxEntries \in Nat
  /\ MaxCache \in Nat /\ HotCount \in Nat \ {0} /\ MaxWraps \in Nat /\ MaxScans \in Nat /\ MaxLoads \in Nat

NoEntry == 0
Queued == 0      \* CacheFileInfo_t::result: not scanned,
Scanning == 1    \* being scanned,
White == 2       \* clean,
Black == 9       \* infected
Many == HotCount + 1 \* CacheFileInfo_t::count: larger ones are not told apart
Loads == 1 .. MaxLoads

VARIABLES
  fanotify, \* which library was loaded, fanotify's or inotify's: never changes
  entry,    \* [Entries -> [path, result, count]] of those ever created
  caches,   \* [Watched -> Seq(Entries)]: the entries of a path, in order
  m_scans,  \* Seq(Entries)
  m_run,
  created,  \* number of entries created
  evicted,  \* entries deleted by JudgeChange
  pc,       \* [Loads -> ThreadPcs]: scan threads
  finfo,    \* [Loads -> Entries \cup {NoEntry}]: entry a thread holds
  result,   \* [Loads -> results]: what the thread will note in it
  mStatus,  \* DefenModProxy::mStatus
  mon,      \* [Loads -> MonPcs]: monitor threads
  m_thread, \* the scan thread that will be joined: the last one created
  mDefenceThread, \* the monitor thread that will be joined
  cpc,      \* the thread that loads and unloads
  loads,    \* calls of load_defen_module so far
  dirty,    \* history, while m_run: files changed (or not scanned) since their last scan began
  excused,  \* history, while m_run: files with, since then, a change ignored for its process
            \* or as a hot file or lost unread, or with no answer to that scan
  revived,  \* history: files with an infected entry that was scanned again
  wrapped   \* history: entries whose count has passed its width

cacheVars == <<entry, caches, m_scans, created, evicted>>
threadVars == <<pc, finfo, result>>
history == <<dirty, excused, revived, wrapped>>
controlVars == <<mStatus, mon, m_thread, mDefenceThread, cpc, loads, m_run, fanotify>>
vars == <<cacheVars, threadVars, history, controlVars>>

Init ==
  /\ fanotify \in BOOLEAN
  /\ entry = [e \in Entries |-> [path |-> CHOOSE f \in Watched : TRUE, result |-> Queued, count |-> 0]]
  /\ caches = [f \in Watched |-> <<>>] /\ m_scans = <<>>
  /\ created = 0 /\ evicted = {}
  /\ pc = [t \in Loads |-> "none"] /\ finfo = [t \in Loads |-> NoEntry] /\ result = [t \in Loads |-> Queued]
  /\ m_run = FALSE /\ mStatus = FALSE /\ mon = [t \in Loads |-> "none"]
  /\ m_thread = 0 /\ mDefenceThread = 0 /\ cpc = "idle" /\ loads = 0
  /\ dirty = {} /\ excused = {} /\ revived = {} /\ wrapped = {}

\* Mutant: nobody is woken.
BroadcastNone(p) == p

Broadcast(p) == [t \in Loads |-> IF p[t] = "asleep" THEN "woken" ELSE p[t]]
\* What the histories of a running monitor take in.
WhileRun(fs) == IF m_run THEN fs ELSE {}

InQueue(f) == \E i \in DOMAIN m_scans : entry[m_scans[i]].path = f
Held == {finfo[t] : t \in {u \in Loads : pc[u] # "exit"}} \ {NoEntry}

\* The entries of the cache and then the engine have been deleted.
Deleted == cpc \in {"rejoin", "deleted", "wild"}

\* An entry was deleted that is queued or held by a scan thread.  What the
\* threads do from then on is undefined, and is not followed.
UsedFreed == evicted \cap (ToSet(m_scans) \cup Held) # {}
Gone == Deleted \/ UsedFreed

---------------------------------------------------------------------------
(* JudgeChange, under m_lock, and the broadcast of onDefenEvent. *)

\* count has 24 bits: the change that makes it wrap to 0 (over: the entries it
\* does that to) comes some time after it has become large.
More(e, over) == IF e \in over THEN 0 ELSE IF entry[e].count = Many THEN Many ELSE entry[e].count + 1
CanWrap(f) == {e \in ToSet(caches[f]) \ wrapped : entry[e].count = Many}
NotBlack(f) == Kept(caches[f], {e \in Entries : entry[e].result # Black})

\* A change ends at this entry: it waits for its scan, or the same process
\* changes the file again (own: the entries whose last change was by the process
\* that makes this one), or the file is clean and changes too often.
IsHot(e, over) == entry[e].result = White /\ More(e, over) > HotCount
Ends(e, own, over) == entry[e].result = Queued \/ e \in own \/ IsHot(e, over)
EndsAt(f, own, over) == {i \in DOMAIN NotBlack(f) : Ends(NotBlack(f)[i], own, over)}

Counted(e, over) == [entry[e] EXCEPT !.count = More(e, over)]
Requeued(e, over) == [Counted(e, over) EXCEPT !.result = Queued]
Wrapping(es, over) ==
  wrapped' = wrapped \cup (es \cap over) /\ Cardinality(wrapped') <= MaxWraps

\* The change is ignored.  Entries before the one it ends at are set back to
\* Queued all the same, but not put into m_scans.
JudgeIgnored(f, own, over) ==
  /\ EndsAt(f, own, over) # {}
  /\ LET list == NotBlack(f)
         k == CHOOSE i \in EndsAt(f, own, over) : \A j \in EndsAt(f, own, over) : i <= j
     IN  /\ entry' = [e \in Entries |-> IF e = list[k] THEN Counted(e, over)
                                        ELSE IF e \in {list[i] : i \in 1 .. k - 1} THEN Requeued(e, over) ELSE entry[e]]
         /\ Wrapping({list[i] : i \in 1 .. k}, over)
         /\ excused' = IF entry[list[k]].result = Queued THEN excused ELSE excused \cup WhileRun({f})
  /\ UNCHANGED <<caches, m_scans, created, evicted, pc>>

\* Mutant: the entry goes back to Queued but not into m_scans.
JudgeRescanNoPush(f, own, over) ==
  /\ NotBlack(f) # <<>> /\ EndsAt(f, own, over) = {}
  /\ entry' = [e \in Entries |-> IF e \in ToSet(NotBlack(f)) THEN Requeued(e, over) ELSE entry[e]]
  /\ Wrapping(ToSet(NotBlack(f)), over)
  /\ pc' = Broadcast(pc)
  /\ UNCHANGED <<m_scans, caches, created, evicted, excused>>

JudgeRescan(f, own, over) ==
  /\ NotBlack(f) # <<>> /\ EndsAt(f, own, over) = {} /\ Len(m_scans) < MaxScans
  /\ entry' = [e \in Entries |-> IF e \in ToSet(NotBlack(f)) THEN Requeued(e, over) ELSE entry[e]]
  /\ Wrapping(ToSet(NotBlack(f)), over)
  /\ m_scans' = Append(m_scans, Last(NotBlack(f)))
  /\ pc' = Broadcast(pc)
  /\ UNCHANGED <<caches, created, evicted, excused>>

\* Mutant: an entry's count is not looked at.
VictimsAnyCount(f) ==
  {g \in Watched \ {f} : Len(caches[g]) = 1 /\ entry[caches[g][1]].result = White}

\* What may be deleted when the cache has become too large.
Victims(f) ==
  {g \in Watched \ {f} :
     /\ Len(caches[g]) = 1
     /\ entry[caches[g][1]].result = White /\ entry[caches[g][1]].count = 1}

TooLarge(f) == Cardinality({g \in Watched : caches[g] # <<>>} \cup {f}) > MaxCache

NewEntry(f) ==
  /\ NotBlack(f) = <<>> /\ created + 1 \in Entries /\ Len(m_scans) < MaxScans
  /\ created' = created + 1
  /\ entry' = [entry EXCEPT ![created'] = [path |-> f, result |-> Queued, count |-> 1]]
  /\ m_scans' = Append(m_scans, created')
  /\ pc' = Broadcast(pc)
  /\ UNCHANGED <<excused, wrapped>>

JudgeNew(f) ==
  /\ NewEntry(f) /\ ~(TooLarge(f) /\ Victims(f) # {})
  /\ caches' = [caches EXCEPT ![f] = Append(@, created')]
  /\ UNCHANGED evicted

JudgeNewEvict(f) ==
  /\ NewEntry(f) /\ TooLarge(f)
  /\ \E g \in Victims(f) :
       /\ caches' = [caches EXCEPT ![f] = Append(@, created'), ![g] = <<>>]
       /\ evicted' = evicted \cup {caches[g][1]}

---------------------------------------------------------------------------
(* DefenceWorkFunc, a monitor thread. *)

\* It says that it runs, unless inotify or fanotify could not be set up.
MonInit(m) ==
  /\ mon[m] = "init" /\ ~Gone
  /\ mStatus' \in {mStatus, TRUE} /\ mon' = [mon EXCEPT ![m] = "loop"]
  /\ UNCHANGED <<cacheVars, threadVars, history, m_thread, mDefenceThread, cpc, loads, m_run, fanotify>>

MonLoop(m) ==
  /\ mon[m] = "loop" /\ ~Gone
  /\ mon' = [mon EXCEPT ![m] = IF mStatus THEN "poll" ELSE "exit"]
  /\ UNCHANGED <<cacheVars, threadVars, history, mStatus, m_thread, mDefenceThread, cpc, loads, m_run, fanotify>>

MonEvent(m, f, own, over) ==
  /\ mon[m] = "poll" /\ ~Gone
  /\ JudgeIgnored(f, own, over) \/ JudgeRescan(f, own, over) \/ JudgeNew(f) \/ JudgeNewEvict(f)
  /\ dirty' = dirty \cup WhileRun({f})
  /\ mon' = [mon EXCEPT ![m] = "loop"]
  /\ UNCHANGED <<finfo, result, revived, mStatus, m_thread, mDefenceThread, cpc, loads, m_run, fanotify>>

\* Changes that never get to JudgeChange: an inotify event without a name, one of
\* the watched directory itself, ends the reading of what was read together with
\* it; and the kernel's queue of either library may overflow.
MonLost(m, lost) ==
  /\ mon[m] = "poll" /\ ~Gone
  /\ dirty' = dirty \cup WhileRun(lost) /\ excused' = excused \cup WhileRun(lost)
  /\ mon' = [mon EXCEPT ![m] = "loop"]
  /\ UNCHANGED <<cacheVars, threadVars, revived, wrapped, mStatus, m_thread, mDefenceThread, cpc, loads, m_run, fanotify>>

\* Only inotify's poll has a timeout.
MonTimeout(m) ==
  /\ mon[m] = "poll" /\ ~fanotify /\ ~Gone
  /\ mon' = [mon EXCEPT ![m] = "loop"]
  /\ UNCHANGED <<cacheVars, threadVars, history, mStatus, m_thread, mDefenceThread, cpc, loads, m_run, fanotify>>

\* An error of poll ends the thread; mStatus stays, and no Start makes another.
MonError(m) ==
  /\ mon[m] = "poll" /\ ~Gone
  /\ mon' = [mon EXCEPT ![m] = "exit"]
  /\ UNCHANGED <<cacheVars, threadVars, history, mStatus, m_thread, mDefenceThread, cpc, loads, m_run, fanotify>>

---------------------------------------------------------------------------
(* ThreadMain, a scan thread. *)

TestRun(t) ==
  /\ pc[t] = "test" /\ ~Gone
  /\ pc' = [pc EXCEPT ![t] = IF m_run THEN "lock" ELSE "exit"]
  /\ UNCHANGED <<cacheVars, finfo, result, history, controlVars>>

\* The result of the last scan is noted when the lock is taken again; it is not
\* used after that.
ResultNoted(t) == IF finfo[t] = NoEntry THEN entry ELSE [entry EXCEPT ![finfo[t]].result = result[t]]
ResultGone(t) == result' = [result EXCEPT ![t] = Queued]

LockSleep(t) ==
  /\ pc[t] = "lock" /\ m_run /\ m_scans = <<>> /\ ~Gone
  /\ entry' = ResultNoted(t) /\ finfo' = [finfo EXCEPT ![t] = NoEntry]
  /\ ResultGone(t) /\ pc' = [pc EXCEPT ![t] = "asleep"]
  /\ UNCHANGED <<caches, m_scans, created, evicted, history, controlVars>>

\* The front of m_scans, to be scanned.
Take(t, noted) ==
  LET e == Head(m_scans)
      f == entry[e].path
  IN  /\ entry' = [noted EXCEPT ![e].result = Scanning]
      /\ finfo' = [finfo EXCEPT ![t] = e] /\ m_scans' = Tail(m_scans)
      /\ ResultGone(t) /\ pc' = [pc EXCEPT ![t] = "scan"]
      /\ dirty' = dirty \ {f} /\ excused' = excused \ {f}
      /\ revived' = IF noted[e].result = Black THEN revived \cup {f} ELSE revived
      /\ UNCHANGED <<caches, created, evicted, wrapped, controlVars>>

LockTake(t) ==
  /\ pc[t] = "lock" /\ m_run /\ m_scans # <<>> /\ ~Gone
  /\ Take(t, ResultNoted(t))

LockStop(t) ==
  /\ pc[t] = "lock" /\ ~m_run /\ ~Gone
  /\ entry' = ResultNoted(t) /\ finfo' = [finfo EXCEPT ![t] = NoEntry]
  /\ ResultGone(t) /\ pc' = [pc EXCEPT ![t] = "test"]
  /\ UNCHANGED <<caches, m_scans, created, evicted, history, controlVars>>

\* pthread_cond_wait may return without a broadcast.
SpuriousWake(t) ==
  /\ pc[t] = "asleep" /\ ~Gone
  /\ pc' = [pc EXCEPT ![t] = "woken"]
  /\ UNCHANGED <<cacheVars, finfo, result, history, controlVars>>

WokenTake(t) ==
  /\ pc[t] = "woken" /\ m_run /\ m_scans # <<>> /\ ~Gone
  /\ Take(t, entry)

WokenNone(t) ==
  /\ pc[t] = "woken" /\ ~(m_run /\ m_scans # <<>>) /\ ~Gone
  /\ pc' = [pc EXCEPT ![t] = "test"]
  /\ UNCHANGED <<cacheVars, finfo, result, history, controlVars>>

\* NotifyData: infected, clean, or no answer, which counts as not scanned.
Scan(t, r) ==
  /\ pc[t] = "scan" /\ ~Gone
  /\ result' = [result EXCEPT ![t] = r]
  /\ LET unscanned == IF r = Queued THEN WhileRun({entry[finfo[t]].path}) ELSE {}
     IN  dirty' = dirty \cup unscanned /\ excused' = excused \cup unscanned
  /\ pc' = [pc EXCEPT ![t] = "test"]
  /\ UNCHANGED <<cacheVars, finfo, revived, wrapped, controlVars>>

ScanThread(t) ==
  \/ TestRun(t) \/ LockSleep(t) \/ LockTake(t) \/ LockStop(t) \/ WokenTake(t) \/ WokenNone(t)
  \/ \E r \in {Queued, White, Black} : Scan(t, r)

---------------------------------------------------------------------------
(* load_defen_module and unload_defen_module. *)

\* Each call makes a scan thread, and a monitor thread as long as none has said
\* that it runs.
StartFileMonitor ==
  /\ cpc = "idle" /\ loads < MaxLoads
  /\ loads' = loads + 1 /\ m_run' = TRUE
  /\ pc' = [pc EXCEPT ![loads'] = "test"] /\ m_thread' = loads'
  /\ IF mStatus THEN UNCHANGED <<mon, mDefenceThread>>
     ELSE mon' = [mon EXCEPT ![loads'] = "init"] /\ mDefenceThread' = loads'
  /\ UNCHANGED <<cacheVars, finfo, result, history, mStatus, cpc, fanotify>>

StopFlag ==
  /\ cpc = "idle" /\ loads > 0
  /\ m_run' = FALSE /\ cpc' = "broadcast"
  /\ dirty' = {} /\ excused' = {}
  /\ UNCHANGED <<cacheVars, threadVars, revived, wrapped, mStatus, mon, m_thread, mDefenceThread, loads, fanotify>>

StopBroadcast ==
  /\ cpc = "broadcast" /\ cpc' = "join"
  /\ pc' = Broadcast(pc)
  /\ UNCHANGED <<cacheVars, finfo, result, history, mStatus, mon, m_thread, mDefenceThread, loads, m_run, fanotify>>

StopJoin ==
  /\ cpc = "join" /\ pc[m_thread] = "exit"
  /\ mStatus' = FALSE /\ cpc' = "monjoin"
  /\ UNCHANGED <<cacheVars, threadVars, history, mon, m_thread, mDefenceThread, loads, m_run, fanotify>>

StopMonitorJoin ==
  /\ cpc = "monjoin" /\ mon[mDefenceThread] = "exit"
  /\ cpc' = "rejoin"
  /\ UNCHANGED <<cacheVars, threadVars, history, mStatus, mon, m_thread, mDefenceThread, loads, m_run, fanotify>>

\* The destructors: ~DefenModProxy calls Stop again, which joins the joined thread
\* and destroys the mutex once more.  That is undefined: it may be refused and
\* the engine be deleted, or crash, or wait for a thread that got the old one's
\* place.
StopAgain ==
  /\ cpc = "rejoin" /\ cpc' \in {"deleted", "wild"}
  /\ UNCHANGED <<cacheVars, threadVars, history, mStatus, mon, m_thread, mDefenceThread, loads, m_run, fanotify>>

\* inotify reports every change with pid 0, so that all are by one process.
OwnOf(f) == IF fanotify THEN SUBSET ToSet(caches[f]) ELSE {ToSet(caches[f])}

Next ==
  \/ StartFileMonitor \/ StopFlag \/ StopBroadcast \/ StopJoin \/ StopMonitorJoin \/ StopAgain
  \/ \E t \in Loads : ScanThread(t) \/ SpuriousWake(t)
  \/ \E m \in Loads : \/ MonInit(m) \/ MonLoop(m) \/ MonTimeout(m) \/ MonError(m)
                      \/ \E f \in Watched : \E own \in OwnOf(f), over \in SUBSET CanWrap(f) : MonEvent(m, f, own, over)
                      \/ \E lost \in SUBSET Watched \ {{}} : MonLost(m, lost)

\* Threads run on, scans come to an answer, and an unload that has begun goes
\* on.  Nothing says that files change.
Fairness ==
  /\ \A t \in Loads : WF_vars(ScanThread(t))
  /\ \A m \in Loads : WF_vars(MonInit(m) \/ MonLoop(m) \/ MonTimeout(m))
  /\ WF_vars(StopBroadcast \/ StopJoin \/ StopMonitorJoin \/ StopAgain)

Spec == Init /\ [][Next]_vars /\ Fairness

---------------------------------------------------------------------------
(* Properties. *)

ThreadPcs == {"none", "test", "lock", "asleep", "woken", "scan", "exit"}
Results == {Queued, Scanning, White, Black}

TypeOK ==
  /\ entry \in [Entries -> [path : Watched, result : Results, count : 0 .. Many]]
  /\ caches \in [Watched -> Seq(Entries)] /\ m_scans \in Seq(Entries)
  /\ created \in Entries \cup {0} /\ evicted \subseteq Entries
  /\ pc \in [Loads -> ThreadPcs] /\ finfo \in [Loads -> Entries \cup {NoEntry}] /\ result \in [Loads -> Results]
  /\ mon \in [Loads -> {"none", "init", "loop", "poll", "exit"}]
  /\ {m_run, mStatus, fanotify} \subseteq BOOLEAN
  /\ m_thread \in Loads \cup {0} /\ mDefenceThread \in Loads \cup {0} /\ loads \in 0 .. MaxLoads
  /\ cpc \in {"idle", "broadcast", "join", "monjoin", "rejoin", "deleted", "wild"}
  /\ dirty \cup excused \cup revived \subseteq Watched /\ wrapped \subseteq Entries

\* An entry that is deleted to keep the cache small is neither queued nor held
\* by a scan thread, which use it without asking the cache, unless its count has
\* passed its 24 bits and says 1 again.
EvictedIsUnused == evicted \cap (ToSet(m_scans) \cup Held) \subseteq wrapped

\* A file that changed is queued for a scan that begins after the change,
\* unless the change was made by the process that changed it before or to a file
\* that changes too often, or was lost on its way from the kernel, or the scanner
\* did not answer for the file, or an infected entry of it was scanned again, or a
\* second load made a second scan thread, whose results the first one's late
\* note overwrites.
ChangeIsQueued ==
  m_run /\ loads = 1 => \A f \in dirty : InQueue(f) \/ f \in excused \cup revived

\* A path has two entries in play only after an infected entry was scanned
\* again: it had been queued once more while the scan ran that found it (or a
\* second scan thread had it).
OneEntryInPlay ==
  loads = 1 => \A f \in Watched : Len(NotBlack(f)) > 1 => f \in revived

\* When the engine is deleted, its threads have ended, unless it was loaded a
\* second time while it ran: only the threads of the last load are joined.
DeletedAfterThreads ==
  Deleted /\ loads = 1 => \A t \in Loads : pc[t] \in {"none", "exit"} /\ mon[t] \in {"none", "exit"}

\* Entries and engine are deleted only when nothing uses them, and a path has
\* one entry that says whether it is to be scanned.
EntrySafety == TypeOK /\ EvictedIsUnused /\ OneEntryInPlay /\ DeletedAfterThreads

IsScanned(f) == \E t \in Loads : pc[t] = "scan" /\ entry[finfo[t]].path = f

\* A queued file is scanned, however often others are queued and it is itself
\* queued again meanwhile, unless the monitor is stopped or an entry in use was
\* deleted.
QueuedIsScanned ==
  \A f \in Watched : InQueue(f) ~> IsScanned(f) \/ ~m_run \/ UsedFreed

\* An unload comes to its end, unless the status it cleared is set again by a
\* monitor thread that was still at its start, or, with fanotify, the monitor
\* thread waits for one more change, or the second join of the monitor thread goes
\* wrong, or an entry in use was deleted.
UnloadEnds ==
  cpc = "broadcast" ~>
    \/ cpc \in {"deleted", "wild"} \/ UsedFreed
    \/ cpc = "monjoin" /\ mStatus
    \/ cpc = "monjoin" /\ fanotify /\ mon[mDefenceThread] = "poll"
=============================================================================
