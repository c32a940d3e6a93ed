# A TLA+ model of UnixRav

UnixRav (`src/UnixRav3`) is an anti-virus suite for Linux: a few daemons that
talk over local sockets, a scan-engine library with threads of its own, two
kernel modules and several user interfaces. This directory holds TLA+ modules
of its concurrent parts, TLC configurations that check them on small instances
and proofs checked by TLAPS. Paths below are relative to `src/UnixRav3`.

## 1. The system

### 1.1 Inventory

| Component | State it keeps | Operations | Hard behaviour | What makes it correct |
|---|---|---|---|---|
| Scan worker, `ScanEngine/scanthreadvari.cpp` | a pool of entries, `mSize`, `mStatus`, `mFinished`, `mLastRound`, `mFullScanMutex`, `mEmptyCond` | `Append` and `Last` (walker), `Stop` (any thread), `Work` (its thread) | unlocked flags and counter, a condition without predicate, a pool used with and without its mutex | every file taken over is judged once, `mSize` counts the pool, the worker ends |
| Engine, `ScanEngine/multivirusengine.cpp` | the workers, the bits of `mScanStopStatue`, the report | `Start` (with `Release`), `Stop`, `DealFile`, `OnVirusEvent` | three kinds of threads end in any order, Stop and Start from other threads | `ALL_FINISHED` once, last, with nothing lost |
| Walker, `ScanEngine/countfilevari.cpp` | list of paths, `mStatus` | `Start`, `Stop`, its thread; one instance counts, one deals | Stop while it deals | visits every file until stopped |
| White cache, `ScanEngine/scancache.cpp` | `mHashPool`, `mCachePool`, `mCacheStatus`, one cache file per top folder | `ScanFile`, `CacheFile`, `Finished`, loading and storing threads | load, store and look-up interleave under two mutexes | passes only what the engine has judged; a pool is stored over its own file |
| One-file engine, `ScanEngine/scanengine.cpp` | the closed engine's handle | `ScanOneFile`, `Terminal` | - | - |
| Cloud engine, `ScanEngine/cloudengine.cpp` | request queue | never created (`Start` has it commented out) | - | - |
| Quarantine, `ScanEngine/ravquafile.cpp`, `RavDaemon/GJCZ/controller.cpp` | copies, the index (disk, memory, temporary file), rows | quarantine, restore, delete, change of owner | three threads behind a lock that only keeps processes out; a crash between copy, index and row | nothing is removed before its copy is complete; a row can be restored |
| Task queue, `RavDaemon/GJCZ/controller.cpp`, `mainengine.cpp` | `mScanTaskPool`, `mApplication`, two conditions | pushes from command, USB, schedule and defence threads; the task thread | unlocked queue, lost `ALL_FINISHED` | every queued task runs to its end, events go to the running task |
| `CommonAPI/handler.cpp` | message queue, hashes, flag | `PostMessage`, its thread, destructor | condition tested once, callback under the lock | messages handled once and in order, the destructor ends |
| `CommonAPI/threadpool.h` | task queue, detached threads | `AppendTask`, `Run`, `Stop` | signal only on an empty queue; locks freed under running threads | every task runs |
| `CommonAPI/circlelink.h` | a ring | `Append`, `Reset` | try-lock drops elements | - |
| Daemon frame, `RavDaemon/COMMON/service.cpp` | lock file, socket | the start, `NotifyData`, the watch on the other daemons | test, takeover and lock in three steps; a child inherits the lock | one instance that answers at the socket |
| Tray and relay, `RavDaemon/RJJH` | routing table, notification queue | routes bundles between interfaces and daemons | a daemon restarts in between | - |
| `RavDaemon/GLTX` | list of management centres, the Communicator | reload, change of the centre, the daemon's end | a handler that joins a thread which posts to it; a list without a lock | a change ends; only a centre that was tried is dropped |
| `RavDaemon/ZDFY`, `DefenMod` | file cache, scan queue | file monitor and scan thread, load and unload | an answer noted after the lock was left; a monitor thread that outlives Stop | a change leads to a scan after it; unload ends |
| `Kernel/ravdefen` | channels with counts and semaphores; table of written files | ask and answer, timeout; note a write, report it at the close | late answers, a daemon that dies, calls inside the hooks at the exit | an answer reaches its own call, every call returns; every count is right |
| `Kernel/ravfilter`, `Netfilter` | rules | ioctl and socket | - | - |
| `Communicator` | heartbeat worker, authorization thread | `Start`, `Stop`, `Work` | cancelled at any cancellation point | with GLTX above |
| `Storage`, `BaseController` | database | - | - | - |
| `RavWatcher`, `Authorization`, `Upgrade`, `TarMaker`, `Setup`, interfaces | files, processes | - | - | - |

### 1.2 How a scan runs

`MultiVirusEngine::Start` creates `threadCount` workers, a counting
`CountFileVari` and a dealing one (the *walker*). The walker hands each file to
the first worker whose `Append` returns true. A worker sleeps on `mEmptyCond`
until its pool is full, scans the full pool holding `mFullScanMutex`, and
sleeps again; after `Last` it drains what is left. Each thread that ends sets a
bit of `mScanStopStatue`; the thread that completes `mScanExitFlag` reports
`ALL_FINISHED` to the observer (the scan daemon), which then starts the next
task; that `Start` stops, joins and deletes the old workers and threads. In the
daemon a task is a `ScanProxy` in `mScanTaskPool`, pushed by a handler of a
command, a schedule or a USB device; the task thread (`ScanPoolWork`) takes the
front one, starts the engine and waits on `mScanTaskCond` for `ALL_FINISHED`.

### 1.3 How the rest hangs together

A daemon is a process of its own. `ServiceBinder` makes it the only one of its
kind (`DaemonStart`); each daemon watches some of the others and starts them
again. A kernel hook asks ZDFY about an execution (`DefenChannel`) and notes
written files until they are closed (`ObjTable`); where the hooks cannot be
used, ZDFY's file monitor (`DefenEngine`) follows changes through inotify or
fanotify. Both end in a scan of one file by GJCZ, whose finds, like those of a
scan job, go to the quarantine (`Quarantine`). GLTX keeps the connection to a
management centre with a message thread and a heartbeat (`CenterSwitch`).

## 2. The modules

| Module | Models | Uses |
|---|---|---|
| `ScanThreadVari` | the scan workers; open to calls of a walker and a stopper | |
| `MultiVirusEngine` | engine, both `CountFileVari` threads, the callers of Start and Stop, composed with the workers | EXTENDS `ScanThreadVari` |
| `ScanJob` | what a scan promises its observer, without threads | instantiated by `MultiVirusEngine` and `ScanTasks` |
| `EngineControl` | the same engine as its workers come and go: resizing, failing creation, the report thread | |
| `ScanTasks` | the scan daemon's task pool, its task thread, the producers, `mApplication`, the engine reduced to `ScanJob` | |
| `TaskQueue` | what a queue of tasks promises | instantiated by `ScanTasks` |
| `ScanCache` | the white-file cache between scan workers and its own threads | |
| `Quarantine` | copies, index and rows; finders, the user's commands, crashes | |
| `MessageHandler` | the daemons' message thread | |
| `CenterSwitch` | GLTX: the handler composed with heartbeat worker, listener and main thread | EXTENDS `MessageHandler` |
| `ThreadPool` | the pool of the web service | |
| `DefenChannel` | a kernel request, its channel, the daemon's answer | |
| `Verdicts` | what the hooks promise to a system call | instantiated by `DefenChannel` |
| `ObjTable` | the kernel's table of written files | |
| `DefenEngine` | ZDFY's file monitor, scan queue and cache | |
| `DaemonStart` | the start, watch and end of the instances of a daemon | |
| `Selection` | what a loop that passes by some elements leaves of a list (`Kept`) | used by `ScanCache`, `Quarantine`, `DefenEngine` |
| `MultiVirusEngineProofs` | invariants and theorems of `ScanThreadVari` and `MultiVirusEngine` | EXTENDS the module, TLAPS |
| `EngineControlProofs`, `ScanTasksProofs`, `CenterSwitchProofs`, `ThreadPoolProofs`, `DaemonStartProofs` | those of the module of that name | EXTENDS it, TLAPS |
| `RavdefenProofs` | those of `DefenChannel` and `ObjTable` | EXTENDS both, TLAPS |
| `FileRecordsProofs` | those of `Quarantine`, `ScanCache` and `DefenEngine` | EXTENDS the three, TLAPS |
| `MC...` | values of constants for TLC | |

In all of them an action is a stretch of code between two points at which
another thread can interfere: a region under a mutex, or a single access where
there is none. A signal wakes a thread only while it waits and is lost
otherwise; a wait may return without one, `MaxWakes` times where that has
consequences. Where the code does something without a defined outcome (the front
of an empty queue, a deleted worker, a freed lock), a variable (`wild` in most
modules) records who did it and that thread, or the model, goes no further.
History variables are marked as such where they are declared and guard nothing,
except that an operation may be counted against its bound.

### 2.1 ScanThreadVari

A worker's thread is a program counter `wpc[w]` with the loop index `wpos[w]`
and a register. An action is a stretch of code between two points where
another thread can interfere:

- `Append` is `AppendRefused`, or `AppendEnter` and then `AppendBusy` (try-lock
  fails), `AppendNoRoom`, or `AppendPath`, `AppendMark`, `AppendDone`. Path,
  entry state and `mSize` are separate steps because the drain of a worker
  reads them without the mutex. `mSize++` and `mSize--` are a load and a store.
- `Work` is `WorkBegin`; `LoopTest`, `FullTest`, `LastTest`, `EmptyWait` (the
  loop's tests, one step each, so that `Last`, `Stop` and a signal can come
  between them); `FullScanLock`, then for every entry `SkipStopped`,
  `SkipEmpty` or `Judge`, `Report`, `Consume`, `Decrement`; `PassEnd`;
  `JudgeExit`.
- A signal wakes a worker only in state `asleep`; otherwise it is lost
  (`Wake`). `SpuriousWake` is a wait that returns by itself.

Abstractions: a file is one visit of the walker, a member of `Files`; the
engine's verdict is the constant `Infected`; a file answered by the cache is
judged by it. Pause is left out: `MultiVirusEngine::Pause` returns in its first
line. Ghost variables: `feeding` (the walker may still call `Append`),
`accepted`, `judged`, `stopped`. `NewWorkers` may run again only when all
workers are gone, as `Release` joins them before `Start` creates new ones.

### 2.2 MultiVirusEngine

Four kinds of threads besides the workers: the walker (`wkpc`), the counter
(`ctpc`), the thread that calls Start (`clpc`) and the one that calls Stop
(`upc`). `mScanStopStatue` is the set of its bits. `ThreadEnds` is the common
tail of the three ends in `OnVirusEvent`; they run under `mScanExitMutex`, so
each is one step, except the walker's, which calls `Last` worker by worker
while the others are kept out (`ScanExitMutexFree`). `mScanStatusMutex` is a
variable, since `DealFile` unlocks it without always holding it. A walk is a
sequence of files, chosen at Start from the constant `Trees`.

Assumed of the callers, and taken from the scan daemon: the task thread calls
Start again only after an `ALL_FINISHED` (`Controller::ScanPoolWork` waits for
it and sleeps a second), and Stop neither begins inside Start nor is still
running when Start begins. The daemon does not enforce the second part; the
hazard list says so.

Left out here: what `EngineControl` adds, cloud events and the statistics of
`JUDGE_START`.

### 2.3 ScanJob

One job as its observer sees it: `Begin`, `Take`, `Judge`, `Halt`, `End`. End
requires every file taken over to be judged unless the job was halted, and
nothing is taken over or judged after it. `ImplementsScanJob` maps the engine's
queues, threads and bits to it.

### 2.4 ScanTasks and TaskQueue

The pool is a `std::queue` over a deque: cells, `start` and `finish`. A push is
two steps, `PushLoad` (read the end) and `PushStore` (write the task and the new
end), as nothing locks it; `pop` (`TaskPop`) moves `start`. Producers are the
thread of the command listener (user, remote, context-menu, defence and
scheduled scans: one thread, one command at a time) and the thread of the USB
checker, which exists only if the USB monitor is on. A handler is its test and
the creation of the task (`UserScan`, `RemoteScan`, `OtherScan`, `ScheduleScan`,
`PluginScan`), the push, and the signal (`PushSignal`); or its test of the front
task or of `mApplication` (`UserStop`, `RemoteStop`, `PluginRemoved`) and then
`StopScan`. A remote stop asks for the application type `REMOTE_COMMAND`, which
a user's scan has as well (`UserScaner`), so that it stops both
(`RemoteCommand`).

`ScanPoolWork` is `TaskTest`, `PoolWait`, `TaskFront`, then `TaskFail` or
`TaskBegin` (with `TaskRelease` for a job that still runs), `TaskWait`,
`TaskPop`, `TaskDelete`. A signal that meets no waiter is lost; `PoolWake` and
`TaskWake` are waits that return without one. The engine is a `ScanJob` without
files (`UsesScanJob`), whose `ALL_FINISHED` is `EngineEnd`, `ReportEnd` (uses
`mApplication`) and `SignalEnd`; `again` is its second announcement for a walk
that met no file.

A read of `front()` of an empty queue or through a pointer to a deleted task has
no defined result: the step records who did it in `wild` and the model stops.
Three more ghost variables let the properties name what breaks the code's
protocol instead of hiding it: `wakes` counts waits that returned unsignalled,
`torn` says that a push has overwritten another, `missed` that the task thread
was signalled after its test and before its wait. Safety properties say
`wakes = 0` or `~ torn` where the code needs it: which task is at the front and
how many user scans there are only depends on the pushes, while where
events and stops arrive depends on the wakes too.

`TaskQueue` is a sequence of tasks and the current one: `Submit`, `Begin`,
`Finish`. The mapping reads the cells between `start` and `finish`, and the
task thread's `app` from `TaskFront` to `TaskPop`.

### 2.5 EngineControl

The engine once more, with workers that are created, added, taken away and
deleted: `StartCall` to `StartThreads` (with `ReleaseStop`, `ReleaseJoin` and
`StartFails`), `ResizeCall` to `ResizeFlags` for `SetScanDynamicStatus`,
`StopCall`, `StopWalk`, `StopWorker`, and `ReportTest`, `ReportUse` for the
report thread. A worker is its life and the set of files in its pool, and no
signal is missed: how it waits is `ScanThreadVari`'s subject, who may use it is
this one's. `mScanStatusMutex` has a holder (`mutex`) that `DealLeave` takes
away from whoever has it, as `DealFile` does.

### 2.6 ScanCache

`mHashPool` is a function from the first hash of a block (its *key*) to entries,
`mCachePool` the notes of files looked up and not found, `disk` the cache files.
A look-up is `LookUnload`, `LookBusy`, `LookSwap`, `LookOther`, `LookUnreadable`
or `LookLoaded`, each of them one outcome of the tests in `ScanFile`; one that
uses the pool goes on with `ProbeErase`, `ProbeNew` or `ProbeWhite`. `CacheTest`
and `CachePut` are `CacheFile`. A thread of the cache is `Lock`, then
`StoreBegin`, `Store`, `Clear`, `LoadBegin`, `Load`. `Finished`, `Release` and
`ReleaseInUse` (the cache is freed under a thread) end a job. Files change at
any time.

### 2.7 Quarantine

A find is `Find`, `BackUpBegin`, `BackUpCopy` (or its failure), `BackUpIndex`,
`BackUpRename`, `BackUpLog`, `RemoveOriginal`; a command is `Command`, then the
steps of a restore, `CheckRight` and `Rechown`, then `Delete` and `DeleteRow`,
which every RESTORE goes on to. The index is on disk, in `m_pstIndexData` and in
a temporary file; `ReadMem`, `WriteIndex` and `RenameIndex` move it.
`WriteIndexFails` is an index file that cannot be opened or written to its end,
which no caller asks about (`BackUpIndexFails`, `RestoreIndex`): the old index
stays, and the number of the copy is given out again. A virus need not be backed
up at all, by the settings or because the user ignores it, and a back-up may be
refused or fail; `GiveUp` then keeps the original or removes it, as the monitor's
thread does without asking (`RespondDefenVirus`). `DaemonDies` loses what is in
memory. `harm` notes what has happened of the
things that are known to break the folder: operations that overlap, a crash, a
failing copy, a failing index file, a full folder, a restore that came before
the removal of the original, a file that is gone, and numbers that start again (`RestoreIndex` unlinks an empty
index, and a full folder may have left rows whose copies were evicted: the next
copies take their names).

### 2.8 MessageHandler and CenterSwitch

`Post` is the whole of `PostMessage`, which runs under `mMutex` (`PostSame` when
the hash is already queued; `PostCut` when the thread is cancelled inside). The looper is `Lock`, `Test`, `Wait`, `Woken` (or
`FlagSet`, or `FrontOfEmpty`), `HandleBegin`, `HandleEnd`, `Unlock`; the
destructor `DestroyFlag`, `DestroySignal`, `DestroyJoin`.

`CenterSwitch` is GLTX around it: the three threads that make requests through
the Communicator (`pc`: the worker with its heartbeats, the authorization thread,
one that reports), the listener (`npc`), the handler inside `HandleMessage`
(`hpc`), which stops the old Communicator (`StopCancel`, `StopJoin`,
`StopJoinAuth`), starts the new one (`Start`) and pops the list (`PopCenter`,
`PopOfEmpty`), and the main thread that ends the daemon (`epc`).

A request is `RequestBegins` (or `ReportBegins`), `RequestGoesOn` if
`mRequestMutex` was taken, and `RequestEnds` or `WorkFails`; the callbacks for
its answer run with that mutex and may post (`CallbackPosts`, `ThreadPosts`). A
cancel is acted on in I/O, in sleep (`ThreadCancelled`) and where `PostMessage`
logs (`ThreadCut`), never in a wait for a mutex. A thread cancelled there never
gives `mRequestMutex` or `mMutex` back: they are then `"lost"`. A new
Communicator has a new `mRequestMutex`. When two threads meet in a Communicator
or a list that one of them deletes, that one goes no further (`"gone"`,
`"wild"`). Left out: `START_COMMUNICATOR`, the first connection, and locks inside
libraries that a cancelled thread may leave locked.

### 2.9 ThreadPool

`GetTask` and `AppendTask` are regions under `mQueueMutex`; the signal comes
after it (`Signal`). The pool is deleted while detached workers may still be
inside (`DeletePool`, `UseFreed`); the accept thread is not joined
(`AppendFreed`).

### 2.10 DefenChannel and ObjTable

A request goes through `AllocSeq`, `AllocDown`, `GetChannel`, `SendOk` or
`SendFail`, `WaitGet`, `WaitDown` or `WaitTimeout`, `FreeOne`, `ReadVerdict`;
its answer through `Receive`, `InputGet`, `InputCopy`, `InputUp`,
`InputRelease`, `InputDrop`. Both hold references to the channel that are
counted in `valid`. The daemon may die (`Crash`) with questions in its inbox and
come back (`Restart`). `Verdicts` has two actions, `Decide` and `Return`.

In `ObjTable` a call is a thread inside `fake_write` (`WriteCall`, `FindGet` or
`FindNone`, `Allocate`, `Link`, `LinkFull` or `LinkTwice`, `Put`, `RealWrite`)
or `fake_close` (`CloseCall`, `GetInode`, `DelObj` or `DelNone`, `Report`,
`RealClose`); the module's exit is `Unhook`, `Collect`, `PutOne`, `Unload`.
Entries are blocks that may be allocated again once freed.

### 2.11 DefenEngine

`JudgeChange` is one step, as it runs under `m_lock`: `JudgeIgnored`,
`JudgeRescan`, `JudgeNew` or `JudgeNewEvict`. An entry's `count` has 24 bits in
the code. In the model it is exact up to `HotCount + 1`, larger values are not
told apart, and from there the next change may make it wrap to 0 (`over`), once
for each entry (`wrapped`). Whether a change is by the process of the last one
is `own`; with inotify a change comes without a process, so that all changes
seem to be of one (`OwnOf`).

The scan thread is `LockTake`, `Scan` and the note of the result with the next
lock; the monitor thread `MonInit`, which fails if inotify or fanotify cannot be
set up, `MonLoop`, `MonEvent`, `MonTimeout`, `MonError`. `MonLost` are changes
that never reach `JudgeChange`: `WatchInotifyEvents` leaves the buffer it has
read at the first event without a name, and the kernel's queue may overflow. A
load starts both threads; an unload is `StopFlag`, `StopBroadcast`, `StopJoin`,
`StopMonitorJoin` and `StopAgain`: the destructors run `DefenModProxy::Stop` once
more, which joins the joined thread and destroys the mutex again. That is
undefined; the model ends there with the engine deleted or `"wild"`.

### 2.12 DaemonStart

An instance is `ProbeOpen`, `ProbeLock`, `ProbeClose` (the test of the lock),
`OwnerIsMine`, `OwnerIsOther` (lsof names the owner), `Unlink`, `UnlinkSock` and
`Bind` (the socket is taken over; `BindFails` if another has bound it in
between, whereupon `Construct` fails and the instance ends), `LockOpen`, `Lock`.
`socket` and `listen` do not fail. `Watchers` are the other daemons,
which start one when no process is left. A daemon that has started another one
(`KidStart`) has lent it its lock.

## 3. What is checked

The twelve runs, and what TLC finds with two workers:

| Run | Instance | States | Shows |
|---|---|---|---|
| `engine` | 2 workers, pools of 2, walks of 0, 1 and 3 files, 2 jobs, 1 Stop | 1 583 158 | `PoolSafety`: files judged once, `mSize` right; `EndSafety`: `ALL_FINISHED` once, last, with all files judged; `ReportSafety`: all viruses counted; no dealing during Release, no addition during a scan; implements `ScanJob` |
| `engine_live` | 1 worker, pool of 2, 2 jobs, 1 Stop | 61 852 | the walk ends; the job ends, or a worker missed its last signal, or an entry was torn by the drain |
| `control` | 2 workers, pools of 2, 2 files, failing creation, 2 jobs, 2 resizes or 1 Stop | 371 828 | `WorkersSafety`: who can meet a worker that is not there; `FinishedAccounts`: the end leaves no thread and no file but those of added workers; `EndOrStuck` |
| `tasks` | both producers, 2 tasks, 1 unsignalled wake | 219 455 | `TasksSafety`: the running job's task is there, first, and gets its events, one user scan at a time; a stop hits its own task; `ScanJob` is used as it promises; the pool implements `TaskQueue` until a push undoes another; a queued task is done or a signal was missed |
| `handler_switch` | 2 messages, 2 hashes, 1 wake, 2 centres; worker, authorization thread and a report | 351 160 | `SwitchSafety`: order, hashes, no read of an empty queue without a wake, the tried centre stays the first; a change of the centre and the daemon's end come to an end but for named obstacles |
| `pool` | 2 workers, 3 tasks, 1 wake | 57 900 | `QueueSafety`: tasks taken once and in order, and left only by a missed signal; every task is worked unless that happened |
| `defen` | 3 calls, 1 channel | 262 934 | `ChannelSafety`: counts, semaphores and answers belong to one call at a time; a denial is lost by a timeout only; implements `Verdicts`; calls return and channels come back; no deadlock |
| `defen_engine` | 2 files, 2 entries in a cache for 1, 1 wrapped count, inotify or fanotify, 1 load | 556 872 | `EntrySafety`: what is evicted or deleted is unused, but for a wrapped count; a change leads to a scan after it but for named rules; queued files are scanned; an unload ends but for named obstacles |
| `obj_table` | 2 calls, 2 descriptors, 2 inodes, 3 blocks, a table for 2, symmetry | 524 238 | `TableSafety`: the counter and all reference counts; writes are noted; the exit frees the table |
| `scan_cache` | 2 workers, 2 cache threads, 2 files in 2 folders, 3 look-ups, 2 jobs, 1 change | 550 856 | `CacheSafety`: one user of the pool at a time, only judged files are passed; cache files lose nothing; a load or a store ends |
| `quarantine` | 3 files, 2 finders, a folder for 2, failing copies and index files, 2 commands, 1 crash, symmetry | 2 889 449 | `RowSafety`: rows can be restored, each from its own copy; where there is a back-up, the original goes after the copy |
| `daemon_start` | watchers GLTX and ZDFY, 6 starts, 2 ends | 102 396 | a daemon that started alone keeps lock and socket; the service comes back |

A property named `...Safety` is the conjunction of the module's type invariant
and of parts that have names and comments of their own; a run checks the
conjunction, a theorem proves part by part.

Properties and the code's weak points. Several properties have an exception in
their statement (`...OrStuck`, `...OrMissed`, `...Unless...`, `...Until...`,
`Unheard`). The exception is what the code really does, found as a
counterexample to the property without it; the property then says that nothing
else can go wrong:

- a worker that tests `mLastRound` before `Last` and waits after it sleeps for
  ever (`Missed`), and an entry taken by the drain between path and state stays
  prepared (`Torn`);
- an empty walk announces `ALL_FINISHED` with every worker there, and again
  later; hence the `wkpos > 1` of `EndSafety`;
- a Stop before a worker's thread runs is overwritten, and the drain of that
  worker meets `Append`;
- the task thread misses a push or an `ALL_FINISHED` that comes before its wait;
- two pushes without a lock can undo each other (`torn`);
- a worker added after `SCAN_FINISH` never gets `Last`, the last `JUDGE_EXIT`
  may come before a new `mScanExitFlag`, and a resize that fails keeps its mutex
  (`Untold`, `Overlooked`, `Leaked`);
- the handler joins a heartbeat worker or an authorization thread that waits for
  the handler's mutex, itself or behind another thread's request, or for an
  `mRequestMutex` left locked by a cancelled thread (`HandlerStuck`); the main
  thread at the daemon's end may wait behind that mutex too
  (`EndWaitsBehindIt`), behind a stuck handler or behind a lost `mMutex`, meet
  the handler or a report in what it deletes, or signal a looper on its way to
  the wait;
- a signal of the thread pool is lost when its worker is between `GetTask` and
  the wait, and later tasks signal nobody;
- a change is ignored when its process made the last one too (with inotify every
  change seems to) or when a clean file changes too often, or lost before
  `JudgeChange`, or its scan got no answer (`excused`); an infected entry that
  was queued again while it was scanned gets a second entry (`revived`);
- an entry in use is deleted if its count has wrapped to 1 (`wrapped`); the
  model notes it (`UsedFreed`) and does not follow what comes of it;
- a second load leaves the first one's threads behind (`loads = 1`);
- an unload joins a monitor thread that has set `mStatus` again, or with fanotify
  waits for one more change, or goes wrong in the second join;
- a file that begins like a white one is passed without a scan;
- overlapping operations, crashes, failing copies and index files and a full
  folder leave rows that cannot be restored; an index file that could not be
  written also lets the next copy take the name of one a row has;
- a virus is removed without a copy if none was made (by the settings, the
  user's choice or a failure), and may be after an overlap, an early restore, a
  file that was gone for a while, a full folder or a failed index file;
- an entry linked by a call that was inside the hooks at the kernel module's exit
  stays (`late`);
- daemons that start together both go on, and a running daemon may have lost
  its socket (`Unheard`).

Bounds. `Max...` constants bound calls, events and faults. One run has a state
constraint: `quarantine` does not follow what comes after two threads were in
the index at a time (`Followed`), since every property excepts it; the
theorems have no such limit. Two jobs are enough for what crosses from one job to the next (old
bits, flags and threads against Release), since Start resets the rest. Pools of
two entries with three files and two workers let a pool be full, half full and
drained, and make the walker go to the second worker, be refused and try again.
In `control`, two workers are enough to add one to one and to take one of two
away; `ResizeAndStop = FALSE` takes the resizes and the Stop in different
behaviours, which keeps the run short. In `tasks`, the second task is pushed
while the first is being begun, run, ended or popped, and one early wake puts
its Start against a running job; more tasks only lengthen the queue, and its
order for every `MaxTasks` is proved. One channel with three calls makes each
later call reuse a channel that an answer may still come for. A cache of one and
a table of two are full at once. Two daemons that start beside a third cover two
that know of each other and one that comes later, and six starts leave each
watcher one after each end. `defen_engine` loads the library once: `MaxLoads`
allows a second load, which multiplies the states beyond a run's time, and of
which the code keeps none of the promises but `EvictedIsUnused`. `HotCount` is 1
instead of 10: a clean file is hot at the first change after its scan, and what
is queued again are files whose scan is under way and clean ones whose count has
wrapped. One wrap is enough to bring a count back to 1. With `HotCount = 2` or 3
and `MaxWraps = 0` (219 652 and 538 120 states) clean files are queued again
without a wrap, and the four properties hold as well; with `HotCount = 2` and
`MaxWraps = 1` (1 192 218 states) the two invariants do, while the liveness
properties take longer than a run may.

Fairness. Threads scheduled by the kernel take their next step if they stay able
to: weak fairness of every thread's steps. Strong fairness is assumed only where
a thread waits for a mutex that is free again and again: a worker for
`mFullScanMutex` (`FullScanLock`; its competitor only tries the lock and sleeps
100 ms after each round), the posts to the message handler (`PostsAny`), and a
cancelled thread's wait for `mRequestMutex` (`RequestGoesOn`). A request ends,
since curl has a timeout. Nothing is assumed of callers: nobody need call Start,
Stop, a load, an unload, `RELOAD_CONFIG` or a command, no heartbeat need fail,
no wait need return unsignalled, no daemon need end, no file need change.
`tasks` assumes that a job of the engine ends; `EndOrStuck` names the cases in
which it does not. `defen` assumes neither that the daemon answers nor that it
comes back.

Deadlock is checked in `defen`. The other systems really stop: their bounded
calls are used up, or they have reached one of the obstacles above, with
nothing left to do.

## 4. What is proved

For every number of workers, entries and files (`ScanAssumption`),
`MultiVirusEngineProofs` proves of the workers (`Spec`):

- `PoolsAreSafe`: `[]PoolSafety`, from `TypeCorrect`, `NoFileTwice`, `NoFileLost`
  and `SizeCounts`;
- `NoAppendInScan`: `NoAppendDuringScanUnlessStopped`.

The inductive invariant `IInv` (theorem `Invariance`) has four parts beside
`TypeOK`. *Control*: who holds `mFullScanMutex` in which program counter, and
which counters a worker that is not stopped can have. *Feeding*: an unstopped
worker drains only after `Last`, hence when the walker is through; this is why
the unlocked drain is safe without Stop. *Custody*: a file is in at most one
entry of one pool, an unjudged accepted file is in one, and a file that was
judged is in none but the entry being consumed. *Accounting*: `mSize`, with the
increments and decrements under way, is the number of prepared entries. None of
the four is inductive alone: accounting needs that the walker and the worker
are never between load and store on the same `mSize`, which is control and
feeding; custody at the end needs accounting, because a drain ends on
`mSize == 0`. `Stop` breaks accounting for the stopped worker (its drain may
run against `Append`), so accounting and feeding speak of unstopped workers
only, and custody of all.

and of the engine (`EngineSpec`), for every set of walks
(`EngineAssumption`) and any number of calls of Start and Stop:

- `EngineUsesWorkers`: the engine's steps are the workers' steps or leave them
  alone, so every theorem above holds in the engine;
- `EndIsSafe`: `[]EndSafety`, from `EndIsTheEnd`, `EndIsAnnouncedOnce` and
  `EndMeansJudged`;
- `ReleaseAfterWalk`: `[]NoDealDuringRelease`;
- `EngineImplementsScanJob`: `ImplementsScanJob`;
- `ReportIsSafe`: `[]ReportSafety`.

The end and Release rest on `EInv` (theorem `EngineInvariance`). *Indices*: types
and loop indices of the engine's own threads. *Bits*: a thread's bit is set
exactly when the thread has ended; an end is announced only after the walker's,
and for a walk that met a file `finished` is 1 when the bits are complete and 0
before. *Callers*: Start runs only for the first job or after an announcement,
and threads exist from the first Start on. `NoDealDuringRelease` is not visible
in Release, which deletes the workers first and joins the walker last: it holds
because Start comes after an announcement and an announcement after the
walker's end.

`EndMeansJudged` and the refinement need the history of the walk as well:
`Walk` (theorem `WalkInvariance`) says that a walk that has passed no file has
handed over none (*EmptyHanded*), and that without Stop the job goes on until it
is announced (*Running*) and the walker has handed over every file before its
position (*HandedOver*). With the workers' custody and accounting, empty pools at
the last bit then mean that all those files are judged. The refinement is one
lemma per kind of step: `Begin` at `StartCreate`, `Take` at `AppendPath`,
`Judge` at `Judge`, `Halt` at a Stop of a worker, `End` at the thread that
completes the bits or the walker of an empty walk.

The report is the sum of the workers' `mVirusCount`, which the model computes by
a fold. `SumIsUnits` shows, by a smallest set on which it would fail, that the
sum is the size of a set of units, one for each virus a worker has counted;
from that, one virus more adds one (`SumOfMore`), whatever the order of the
fold. *Counted* (theorem `CountsAddUp`): the sum is the number of infected files
judged so far, by custody, since no file is judged twice. *Reported* (theorem
`ReportInvariance`): while the report is not that sum, a worker is between its
count and its report, which at the end nobody is.

`EngineControlProofs` proves of the engine whose workers come and go, for any
number of workers, files, resizes and stops (`ControlConstants`):

- `WorkersAreSafe`: `[]WorkersSafety`;
- `FinishedIsAccounted`: `[]FinishedAccounts`.

Its invariant (theorem `ControlInvariance`) has a part for each question the two
depend on. *Locks*: without Stop, `mScanStatusMutex` keeps walker, Start and
resize apart, although `DealFile` may unlock it for another thread. *Staff*:
which workers are there at each point of Start and of the resize, and that
`mScanExitFlag` has the bits of the old number until the new one has been made
true. *Left*: a worker whose bit is set has ended, unless it was deleted and
added again; this is where the bit of a removed worker can stand for an added
one. *Dealt*: every file the walker has passed is in a pool, judged or dropped.
*Ends* ties the announcement to the walk. With Stop and a resize in the same
behaviour the mutex no longer keeps them apart, and *Staff*, *Left* and *Dealt*
are not claimed; what is left are `Types`, `Places`, `Sizes`, `Ends` and what
`Wild` says of who may meet a missing worker.

`ScanTasksProofs` proves of `TasksSpec`, for every `MaxTasks` and `MaxWakes` and
each set of producers (`TasksAssumption`):

- `TasksAreSafe`: `[]TasksSafety`, from `TasksTypeCorrect`, `NoScanWithoutTask`,
  `FrontOnly`, `UserScansExclude` and `EventsComeHome`;
- `StopsComeHome`: `[]StopHitsItsTask`;
- `TasksUseScanJob`: `UsesScanJob`;
- `TasksAreAQueue`: `QueueUntilTorn`; and `OneProducerIsAQueue`:
  `ImplementsTaskQueue`, if the only producer is the listener's thread.

That the indices of the deque stay in range is already not inductive. *Holding*:
the task thread has a task that is not deleted from `TaskFront` to `TaskDelete`.
*Room*: a push that has not stored yet leaves one cell for each other push under
way. *Popped*: `start` counts the deleted tasks, one less while the popped task
is not deleted yet, so it cannot pass what was created, even when waits return
early. *Running*: a job that has not reported its end has its task with the task
thread. These with `TypeOK` are `TypeInv` (theorem `TypeInvariance`). `IInv`
(theorem `TasksInvariance`) adds what holds up to the first push that undoes
another: *Fifo*, the cells of the pool hold different living tasks, disjoint
from those being pushed, the first being the one that was begun; *Users*, at
most one user's task in the pool or on its way there, since only the listener's
thread creates one and tests the pool first; *Events*, `mApplication` is the
task at work or a scheduled one; and, without early wakes, *Stops*, a task for
which somebody will stop the engine is the first of the pool, about to be
deleted, or gone. In the refinement of `TaskQueue` a push is `Submit` at
`PushStore`, which adds behind the cells that are there unless another push has
moved the end since the load; then it sets `torn`, the exception of
`QueueUntilTorn`. With one producer nothing moves the end between load and store
(*Solo*). `Begin` is `TaskFront`, `Finish` is `TaskPop`.

`RavdefenProofs`, for any number of calls and channels (`DefenConstants`):
`ChannelsAreSafe` (`[]ChannelSafety`), `DenialIsKept`,
`DefenImplementsVerdicts`. The invariant (`DefenInvariance`) computes the count
and the semaphore of a channel from where its request and its answer are
(*ChannelInv*), ties each of them to the channel as long as it has a reference
(*Control*), and says that who has passed the wait without a timeout has been
answered (*History*) with the verdict in the buffer (*Buffer*). Neither the
count nor the semaphore is inductive without the other: a channel is given out
again when the count is zero, and only then the semaphore must be one.

The same module, for any number of calls, descriptors, inodes and blocks
(`ObjTableConstants`): `TableIsSafe` (`[]TableSafety`), `WritesAreNoted`
(`[]DirtyIsNoted`), `ExitFreesTheTable` (`[]ExitFrees`). The invariant says that
each count is the size of the set of references, that an entry is linked once
and not when it is lost (*LinkedOnce*), that a block about to be linked is its
call's alone (*Fresh*), that what a call is going to write is noted
(*AheadIsNoted*), and what the exit leaves (*ExitOrder*). *Fresh* is what makes
the second look-up under the write lock safe.

`ThreadPoolProofs`, for any workers and tasks (`PoolConstants`): `PoolIsSafe`
(`[]QueueSafety`). *SomeoneLooks*: while a task waits, a signal is under way or a
worker will look again, unless a signal has been missed.

`CenterSwitchProofs`, for any messages, hashes and centres (`HandlerConstants`,
`SwitchConstants`): `SwitchIsSafe` (`[]SwitchSafety`). Every step of GLTX's
threads is a step of the handler, a post that is cut off included, or leaves it
alone (*SwitchIsHandler*), so the handler's invariant carries over: a looper
inside `HandleMessage` has a message, and one that will not look again was woken
for a message, for the end or without a signal (*InHandle*, *WokenFor*).
`TriedIsFirst` is inductive with the types.

`DaemonStartProofs`, for any watchers, starts and ends (`StartConstants`):
`OneAloneKeepsAll` (`[]AloneKeepsAll`). Instances that are starting know of each
other (*Mutual*); beside one that runs alone, later ones get no further than
lsof (*Held*); and one that started alone gets there because nobody holds the
lock of the file under the path, nor binds a socket, while it starts (*Coming*,
*Made*).

`FileRecordsProofs` is about what the engines write down about files. Its first
part says what `Kept` and `FlattenSeq` make of a list. The library's induction
theorems take an operator, which the provers cannot instantiate; induction is
therefore stated about a set of numbers that has 0 and with each number the next
(`NatInduct`), or by a least counterexample (`LeastExists`).

Of the quarantine, for any files, finders, folder size, commands and crashes
(`QuarantineConstants`): `RowsAreSafe` (`[]RowSafety`) and `RemovedAreSaved`
(`RemovedHasCopy`). The invariant (theorem `QuarantineInvariance`) is a ladder:
each part holds as long as certain harms have not happened. Without overlapping
operations, one thread is in the index, and the image in memory is that of the
file, but for the next number, which is ahead in memory if an index file could
not be written (*Alone*, *Mirror*). If every index file was written too, what is
being restored is out of the index (*Out*); without a crash, no temporary file is
left (*Stale*); if neither happened and the numbers have not started again,
every row's number is below the next one, so that its copy is its own or gone
(*Below*); if nothing was evicted either, what a row names is in the index, once
(*Listed*); and without any harm its copy is complete (*InOrder*). A failed
index file breaks all but the first and *Stale*: the number of a copy that is on
the disk, and soon in a row, is then free for the next one. *Saved* says of a
file that is about to be removed after its back-up that the copy is there; it
excepts overlaps, early restores, files that were gone, evictions and failed
index files, but no crash. A finder at "nocopy" removes the original without
one; `RemovedHasCopy` names it. *Below* is not inductive over `RestoreIndex`: an
index that has become empty is unlinked and `m_nNextIndex` begins again at 0,
while a folder that was full may have left rows with the old numbers. `harm`
therefore distinguishes "restart" and `CopyIsOwn` excepts it; the folder of two
in the run is large enough for that case.

Of the cache, for any workers, threads, files, folders and blocks
(`ScanCacheConstants`): `CacheIsSafe` (`[]CacheSafety`) and `DiskEntriesStay`
(`DiskKeepsEntries`). The invariant (theorem `CacheInvariance`): who holds which of the two
mutexes (*Mutexes*); during a job at most one thread has a load or a store ahead
of it, `mCacheStatus` tells, and nobody looks up meanwhile (*StatusTells*); the
pool has the entries of the file it was loaded from but for erased ones, unless
a thread is about to clear it (*PoolCovers*, from which a store loses nothing);
and, as long as no file has changed and no two blocks have the same first hash,
every entry, note and hash in use comes from a block that was judged white
(*AllJudged*). The last part must speak of the files on the disk, the pool, the
notes and the workers at once, since an entry passes through all of them.

Of the file monitor, for any files, sizes of the cache, wraps and `HotCount`
(`DefenEngineConstants`): `EntriesAreSafe` (`[]EntrySafety`) and
`ChangesAreQueued` (`[]ChangeIsQueued`). The invariant (theorem `MonitorInvariance`): an
entry in the queue or held by a scan thread is in the cache, in one place, unless
its count wrapped and it was deleted (*Places*); an entry whose count is 1 and has
not wrapped has been queued once, so that it waits or one thread has it or its
scan is over (*Once*). That is why an eviction, which takes a white entry of
count 1, frees nothing that is used, and why it does once a count has wrapped.
With a single load of the library also: a path has one entry in play
(*OneInPlay*), an entry marked as queued is queued, unless a scan got no answer or
a change was lost or ignored (*MarkedIsQueued*), and the two joins of an unload
wait for all the threads there are (*Joined*), before the destructors' second
Stop. Of several loads the two properties say only what *Places* and *Once*
give, as a second load may leave a thread of the first behind: the theorem holds
for every `MaxLoads`, the run loads once. `StepKinds` reduces the steps of all
threads to those that matter to the cache.

Only model-checked: the liveness properties, since no prover here handles
fairness and ENABLED (`WorkedOrMissed`, `UnloadEnds`, `ChannelComesBack`,
`CallReturns`, `WalkEnds`, `EndOrStuck` of both engines, `SwitchEndsOrStuck`,
`QueuedIsDoneOrMissed`, `QueuedIsScanned`, `StatusSettles`, `ServedOrUnheard`,
`DaemonEndsOrStuck`). Every safety invariant and every action property that a
run checks is a theorem.

## 5. Plan

What the order of work was: the scan workers, the engine and `ScanJob`; the task
queue; the kernel channel; the message thread, the centre change and the thread
pool; the file monitor and the table of written files; the cache; the resizing
of the engine; the quarantine; the daemons' start. Proofs of the workers, the
engine, the task queue, the kernel module, the thread pool, the message thread
and the daemons' start came first; then the report, the resizing, the
quarantine, the cache and the file monitor.

What would come next, in this order:

1. `NotifyData` with its retries, the second construction step and the routing of
   bundles through RJJH;
2. the exit of the kernel module under running calls in `DefenChannel`, as
   `ObjTable` has it.

## 6. Not modelled

- The one-file engine, the closed anti-virus library behind it, and the formats
  of archives and rules: their result is a constant (`Infected`, `Bad`).
- The cloud engine: nothing creates it. Pause and Continue: the engine returns
  in its first line.
- The log ring: only the user interface reads it.
- The USB checker's mounting, sockets and bundles, HTTP, SQL, XML, zip and
  configuration: conversion and I/O without concurrent state of their own. Their
  events are inputs of the modules above.
- `ravfilter`, the patching of the system-call table, `Netfilter`: kernel
  internals and rules passed on.
- `RavWatcher`, `Authorization`, `Upgrade`, `TarMaker`, `Setup`, the interfaces
  and browser plugins: short sequential programs or widgets.
- `ThirdPart`, `unix_engine2013`, `EDRS`, `RavQt.bak`, `.svn`: vendored code,
  headers of the closed engine, generated tables and copies. They are most of
  the repository's lines, so that the modelled files are a small share of it.

What each component leaves out is in the notes of `PROJECT.json`.
