------------------------------- MODULE ScanTasks -------------------------------
(***************************************************************************)
(* The queue of scan tasks of the scan daemon (RavDaemon/GJCZ).  Handlers  *)
(* in the listener's thread and in the USB checker's thread push tasks     *)
(* (ScanProxy objects) to mScanTaskPool; one task thread takes the front   *)
(* task, starts the engine for it, waits for ALL_FINISHED, pops the task   *)
(* and deletes it.  mApplication is the task the engine's events go to.    *)
(*                                                                         *)
(* The engine is what ScanJob leaves of it: a job begins, is halted and    *)
(* ends; MultiVirusEngine implements ScanJob.  A use of a deleted task or  *)
(* of a cell that holds none has no defined outcome: it is recorded in     *)
(* `wild' and the model stops there.                                       *)
(*                                                                         *)
(* Left out: the policy on virus events, the configuration, and the sleep  *)
(* of a second between ALL_FINISHED and pop, which delays but orders       *)
(* nothing.                                                                *)
(***************************************************************************)
EXTENDS Naturals, FiniteSets, Sequences

CONSTANTS
  Producers,  \* "command": the listener's thread; "usb": the USB checker's, if it runs
  MaxTasks,   \* bound: how many tasks are created
  MaxWakes    \* bound: how many waits return without a signal

ASSUME TasksAssumption ==
  /\ Producers \subseteq {"command", "usb"}
  /\ MaxTasks \in Nat \ {0} /\ MaxWakes \in Nat

Tasks  == 1 .. MaxTasks
NoTask == 0
Kinds  == {"user", "remote", "schedule", "other", "plugin"}
Cells  == 1 .. MaxTasks + 1

VARIABLES
  cell, start, finish,   \* mScanTaskPool: a deque, its elements in start .. finish - 1
  created, kind, alive,  \* tasks made by NEW, their classes, those not deleted
  mApplication,          \* Controller::mApplication
  tpc, tapp,             \* the task thread, its local `app'
  ppc, ptask, pat,       \* a producer, the task it pushes or stops, the end it has loaded
  phase, owner,          \* the engine's job and the task it runs for
  haltedFor,             \* the tasks whose stop has reached the job
  again,                 \* the job will announce its end a second time
  epc,                   \* the engine's thread that is in OnVirusEvent(ALL_FINISHED)
  wakes,                 \* waits that have returned without a signal
  torn,                  \* a push has undone another
  missed,                \* the task thread was signalled just before it began to wait
  wild                   \* who used a task that is not there

poolVars   == <<cell, start, finish>>
taskVars   == <<created, kind, alive>>
threadVars == <<tpc, tapp>>
prodVars   == <<ppc, ptask, pat>>
engineVars == <<phase, owner, haltedFor, again, epc>>
noteVars   == <<wakes, torn, missed>>
vars == <<poolVars, taskVars, mApplication, threadVars, prodVars, engineVars, noteVars, wild>>

TypeOK ==
  /\ cell \in [Cells -> Tasks \cup {NoTask}]
  /\ start \in Cells /\ finish \in Cells
  /\ created \in 0 .. MaxTasks
  /\ kind \in [Tasks -> Kinds \cup {"none"}]
  /\ alive \subseteq 1 .. created
  /\ mApplication \in Tasks \cup {NoTask}
  /\ tpc \in {"test", "wait", "asleepPool", "front", "start", "began", "asleepTask", "pop", "delete"}
  /\ tapp \in Tasks \cup {NoTask}
  /\ ppc \in [Producers -> {"idle", "load", "store", "signal", "stop"}]
  /\ ptask \in [Producers -> Tasks \cup {NoTask}]
  /\ pat \in [Producers -> Cells]
  /\ phase \in {"idle", "running", "ended"}
  /\ owner \in Tasks \cup {NoTask}
  /\ haltedFor \subseteq Tasks
  /\ again \in BOOLEAN
  /\ epc \in {"none", "end", "late", "signal"}
  /\ wakes \in 0 .. MaxWakes /\ torn \in BOOLEAN /\ missed \in BOOLEAN
  /\ wild \in {"none", "front", "delete", "command", "remote", "usb", "end", "late"}

TasksInit ==
  /\ cell = [i \in Cells |-> NoTask] /\ start = 1 /\ finish = 1
  /\ created = 0 /\ kind = [t \in Tasks |-> "none"] /\ alive = {}
  /\ mApplication = NoTask
  /\ tpc = "test" /\ tapp = NoTask
  /\ ppc = [p \in Producers |-> "idle"] /\ ptask = [p \in Producers |-> NoTask]
  /\ pat = [p \in Producers |-> 1]
  /\ phase = "idle" /\ owner = NoTask /\ haltedFor = {} /\ again = FALSE /\ epc = "none"
  /\ wakes = 0 /\ torn = FALSE /\ missed = FALSE /\ wild = "none"

PoolEmpty == start = finish
Front     == cell[start]

\* Threads go on while nobody has followed a pointer to a task that is not there.
At(p, l)    == wild = "none" /\ p \in Producers /\ ppc[p] = l
TaskAt(l)   == wild = "none" /\ tpc = l
EngineAt(l) == wild = "none" /\ epc = l

\* Thread `who' has followed a pointer to a task that is not there.
Wild(who) ==
  /\ wild' = who
  /\ UNCHANGED <<poolVars, taskVars, mApplication, threadVars, prodVars, engineVars, noteVars>>

-----------------------------------------------------------------------------
(* Producers: a handler creates a task, pushes it and signals the pool.    *)

\* NEW and the setters, up to the push.
Create(p, k) ==
  /\ At(p, "idle") /\ created < MaxTasks
  /\ created' = created + 1
  /\ kind' = [kind EXCEPT ![created + 1] = k]
  /\ alive' = alive \cup {created + 1}
  /\ ptask' = [ptask EXCEPT ![p] = created + 1]
  /\ ppc' = [ppc EXCEPT ![p] = "load"]
  /\ UNCHANGED <<poolVars, threadVars, pat, engineVars, noteVars, wild>>

\* A user's scan is refused while the pool is not empty.
UserScan == PoolEmpty /\ Create("command", "user") /\ UNCHANGED mApplication

RemoteScan   == Create("command", "remote") /\ UNCHANGED mApplication
OtherScan    == Create("command", "other") /\ UNCHANGED mApplication

\* Mutant: a plugin's task becomes mApplication at once.
PluginScanCurrent == Create("usb", "plugin") /\ mApplication' = created + 1

PluginScan   == Create("usb", "plugin") /\ UNCHANGED mApplication

\* A scheduled scan becomes mApplication before it is queued.
ScheduleScan == Create("command", "schedule") /\ mApplication' = created + 1

\* A handler returns.
Return(p) ==
  /\ ppc' = [ppc EXCEPT ![p] = "idle"]
  /\ ptask' = [ptask EXCEPT ![p] = NoTask]
  /\ pat' = [pat EXCEPT ![p] = 1]

\* push, without a lock: the end of the deque is loaded ...
PushLoad(p) ==
  /\ At(p, "load")
  /\ pat' = [pat EXCEPT ![p] = finish]
  /\ ppc' = [ppc EXCEPT ![p] = "store"]
  /\ UNCHANGED <<poolVars, taskVars, mApplication, threadVars, ptask, engineVars, noteVars, wild>>

\* ... the task is written there and the end stored: a push in between is undone.
PushStore(p) ==
  /\ At(p, "store")
  /\ cell' = [cell EXCEPT ![pat[p]] = ptask[p]]
  /\ finish' = pat[p] + 1
  /\ torn' = (torn \/ pat[p] # finish)
  /\ ppc' = [ppc EXCEPT ![p] = "signal"]
  /\ UNCHANGED <<start, taskVars, mApplication, threadVars, ptask, pat, engineVars, wakes, missed, wild>>

\* mScanPoolCond: only a thread that is waiting gets the signal.
PushSignal(p) ==
  /\ At(p, "signal")
  /\ Return(p)
  /\ tpc' = IF tpc = "asleepPool" THEN "front" ELSE tpc
  /\ missed' = (missed \/ tpc = "wait")
  /\ UNCHANGED <<poolVars, taskVars, mApplication, tapp, engineVars, wakes, torn, wild>>

-----------------------------------------------------------------------------
(* Stops.                                                                  *)

\* The handler goes on to StopScan because of task t.
WillStop(p, t) ==
  /\ ppc' = [ppc EXCEPT ![p] = "stop"]
  /\ ptask' = [ptask EXCEPT ![p] = t]
  /\ UNCHANGED <<poolVars, taskVars, threadVars, pat, engineVars, noteVars, wild>>

\* Mutant: any user's scan in the pool will do.
UserStopAny ==
  /\ At("command", "idle")
  /\ \E i \in start .. finish - 1 : kind[cell[i]] = "user" /\ WillStop("command", cell[i])
  /\ UNCHANGED mApplication

\* STOP_SCAN: if the front task is a user's scan.
UserStop ==
  /\ At("command", "idle") /\ ~ PoolEmpty
  /\ Front \in alive /\ kind[Front] = "user" /\ WillStop("command", Front)
  /\ UNCHANGED mApplication

\* INTELLIGENT_SCAN reads the front without asking whether there is one (a scan
\* and a stop ask it too, when the pool is not empty); the engine's part,
\* SetScanDynamicStatus, is in EngineControl.
IntelligentScan ==
  /\ At("command", "idle") /\ Front \notin alive
  /\ Wild("command")

\* A remote stop: if mApplication is of the application type REMOTE_COMMAND,
\* which a remote scan is and a user's scan (UserScaner) too.
RemoteCommand == {"remote", "user"}
RemoteStop ==
  /\ At("command", "idle") /\ mApplication # NoTask
  /\ \/ /\ mApplication \in alive /\ kind[mApplication] \in RemoteCommand
        /\ WillStop("command", mApplication) /\ UNCHANGED mApplication
     \/ mApplication \notin alive /\ Wild("remote")

\* USB_REMOVED: the front task, without asking whether there is one.
PluginRemoved ==
  /\ At("usb", "idle")
  /\ \/ Front \in alive /\ kind[Front] = "plugin" /\ mApplication' = Front /\ WillStop("usb", Front)
     \/ Front \notin alive /\ Wild("usb")

\* Stop of the engine halts whatever job runs by now.
StopScan(p) ==
  /\ At(p, "stop")
  /\ Return(p)
  /\ haltedFor' = IF phase = "running" THEN haltedFor \cup {ptask[p]} ELSE haltedFor
  /\ UNCHANGED <<poolVars, taskVars, mApplication, threadVars, phase, owner, again, epc, noteVars, wild>>

-----------------------------------------------------------------------------
(* ScanPoolWork, the task thread.                                          *)

Goto(l) == tpc' = l
AllButThread == <<poolVars, taskVars, mApplication, tapp, prodVars, engineVars, wild>>

TaskTest ==
  /\ TaskAt("test")
  /\ Goto(IF PoolEmpty THEN "wait" ELSE "front")
  /\ UNCHANGED <<AllButThread, noteVars>>

PoolWait == TaskAt("wait") /\ Goto("asleepPool") /\ UNCHANGED <<AllButThread, noteVars>>

\* A wait may return without a signal; the pool is not tested again.
PoolWake ==
  /\ TaskAt("asleepPool") /\ wakes < MaxWakes
  /\ Goto("front") /\ wakes' = wakes + 1
  /\ UNCHANGED <<AllButThread, torn, missed>>

\* front(), SetApplication and Prepare.
TaskFront ==
  /\ TaskAt("front")
  /\ \/ /\ Front \in alive
        /\ tapp' = Front /\ mApplication' = Front
        /\ Goto("start") /\ missed' = FALSE
        /\ UNCHANGED <<poolVars, taskVars, prodVars, engineVars, wakes, torn, wild>>
     \/ Front \notin alive /\ Wild("front")

\* Mutant: a failed task stays in the pool.
TaskFailStays == TaskAt("start") /\ Goto("test") /\ UNCHANGED <<AllButThread, noteVars>>

\* StartScan fails: the configuration cannot be loaded.
TaskFail == TaskAt("start") /\ Goto("pop") /\ UNCHANGED <<AllButThread, noteVars>>

\* Mutant: Start does not join the old job.
TaskBeginNow ==
  /\ TaskAt("start")
  /\ phase' = "running" /\ owner' = tapp /\ haltedFor' = {}
  /\ Goto("began")
  /\ UNCHANGED <<poolVars, taskVars, mApplication, tapp, prodVars, again, epc, noteVars, wild>>

\* Start stops a job that still runs (Release) ...
TaskRelease ==
  /\ TaskAt("start") /\ phase = "running"
  /\ haltedFor' = haltedFor \cup {tapp}
  /\ UNCHANGED <<poolVars, taskVars, mApplication, threadVars, prodVars, phase, owner, again, epc,
                 noteVars, wild>>

\* ... joins its threads, and begins the new one.
TaskBegin ==
  /\ TaskAt("start") /\ phase # "running" /\ ~ again /\ epc = "none"
  /\ phase' = "running" /\ owner' = tapp /\ haltedFor' = {}
  /\ Goto("began")
  /\ UNCHANGED <<poolVars, taskVars, mApplication, tapp, prodVars, again, epc, noteVars, wild>>

TaskWait == TaskAt("began") /\ Goto("asleepTask") /\ UNCHANGED <<AllButThread, noteVars>>

TaskWake ==
  /\ TaskAt("asleepTask") /\ wakes < MaxWakes
  /\ Goto("pop") /\ wakes' = wakes + 1
  /\ UNCHANGED <<AllButThread, torn, missed>>

TaskPop ==
  /\ TaskAt("pop")
  /\ start' = start + 1
  /\ Goto("delete") /\ missed' = FALSE
  /\ UNCHANGED <<cell, finish, taskVars, mApplication, tapp, prodVars, engineVars, wakes, torn, wild>>

\* ScanFinished, delete: mApplication keeps its value.
TaskDelete ==
  /\ TaskAt("delete")
  /\ \/ /\ tapp \in alive
        /\ alive' = alive \ {tapp} /\ kind' = [kind EXCEPT ![tapp] = "none"] /\ tapp' = NoTask
        /\ Goto("test")
        /\ UNCHANGED <<poolVars, created, mApplication, prodVars, engineVars, noteVars, wild>>
     \/ tapp \notin alive /\ Wild("delete")

TaskThread ==
  \/ TaskTest \/ PoolWait \/ TaskFront \/ TaskFail \/ TaskRelease \/ TaskBegin \/ TaskWait
  \/ TaskPop \/ TaskDelete

-----------------------------------------------------------------------------
(* The engine's threads: ALL_FINISHED, once or, for a walk that met no     *)
(* file, perhaps twice.                                                    *)

EngineEnd ==
  /\ EngineAt("none") /\ phase = "running"
  /\ phase' = "ended" /\ epc' = "end"
  /\ again' \in BOOLEAN
  /\ UNCHANGED <<poolVars, taskVars, mApplication, threadVars, prodVars, owner, haltedFor, noteVars, wild>>

EngineEndAgain ==
  /\ EngineAt("none") /\ phase = "ended" /\ again
  /\ again' = FALSE /\ epc' = "late"
  /\ UNCHANGED <<poolVars, taskVars, mApplication, threadVars, prodVars, phase, owner, haltedFor, noteVars, wild>>

\* OnVirusEvent asks mApplication for its type, logs and reports ...
ReportEnd ==
  /\ EngineAt("end") \/ EngineAt("late")
  /\ \/ /\ mApplication \in alive
        /\ epc' = "signal"
        /\ UNCHANGED <<poolVars, taskVars, mApplication, threadVars, prodVars, phase, owner, haltedFor, again,
                       noteVars, wild>>
     \/ mApplication \notin alive /\ Wild(epc)

\* Mutant: nobody is signalled.
SignalEndNot ==
  /\ EngineAt("signal") /\ epc' = "none"
  /\ UNCHANGED <<poolVars, taskVars, mApplication, threadVars, prodVars, phase, owner, haltedFor, again,
                 noteVars, wild>>

\* ... and signals mScanTaskCond.
SignalEnd ==
  /\ EngineAt("signal")
  /\ epc' = "none"
  /\ tpc' = IF tpc = "asleepTask" THEN "pop" ELSE tpc
  /\ missed' = (missed \/ tpc = "began")
  /\ UNCHANGED <<poolVars, taskVars, mApplication, tapp, prodVars, phase, owner, haltedFor, again,
                 wakes, torn, wild>>

Engine == EngineEnd \/ EngineEndAgain \/ ReportEnd \/ SignalEnd

-----------------------------------------------------------------------------
Push(p) == PushLoad(p) \/ PushStore(p) \/ PushSignal(p) \/ StopScan(p)

Command ==
  \/ UserScan \/ RemoteScan \/ OtherScan \/ ScheduleScan
  \/ UserStop \/ IntelligentScan \/ RemoteStop
Usb == PluginScan \/ PluginRemoved

TasksNext ==
  \/ Command \/ Usb
  \/ \E p \in Producers : Push(p)
  \/ TaskThread \/ PoolWake \/ TaskWake
  \/ Engine

TasksSpec == TasksInit /\ [][TasksNext]_vars

\* Threads go on; a job of the engine comes to its end (what can keep it from
\* that is MultiVirusEngine's EndOrStuck).  Nobody has to ask for a scan or a
\* stop, no wait has to return unsignalled, no job has to announce twice.
TasksFairness ==
  /\ WF_vars(TaskThread)
  /\ WF_vars(EngineEnd \/ ReportEnd \/ SignalEnd)
  /\ \A p \in Producers : WF_vars(Push(p))

FairTasksSpec == TasksSpec /\ TasksFairness

-----------------------------------------------------------------------------
(* Properties.  A wait that returns unsignalled ends the task thread's     *)
(* protocol, a push that undoes another the queue's: most of what follows  *)
(* holds up to then (wakes = 0, ~ torn).                                   *)

Pool == start .. finish - 1

\* While the engine runs a task's job, and until the end of the first
\* ALL_FINISHED, that task is the one the task thread waits for, it exists, and
\* so does the task that gets the job's events.
TaskOutlivesScan ==
  ((phase = "running" \/ epc = "end") /\ wakes = 0) =>
    /\ tpc \in {"began", "asleepTask"} /\ tapp = owner
    /\ owner \in alive /\ mApplication \in alive

\* A job's events go to its task, or to a scheduled scan that was created
\* while the job ran and still waits.
EventsOfOwner ==
  (phase = "running" /\ wakes = 0 /\ ~ torn) =>
    mApplication = owner \/ (kind[mApplication] = "schedule" /\ mApplication # tapp)

\* RespondScanCommand refuses a user's scan while there is any task: there is
\* never more than one in the pool.
OneUserScan == ~ torn => Cardinality({ i \in Pool : kind[cell[i]] = "user" }) <= 1

\* A stop that was meant for one task reaches another task's job only when its
\* own task is gone.
StopHitsItsTask == (wakes = 0 /\ ~ torn) => haltedFor \subseteq {owner} \cup (Tasks \ alive)

\* The first task of the pool is the only one that may have been begun, so that
\* no task begins before one pushed earlier has ended.
FrontIsCurrent ==
  (~ torn /\ tpc \in {"start", "began", "asleepTask", "pop"}) => Front = tapp

\* The task of a running job is there, the first in the pool, and gets the job's
\* events; no user's scan waits behind another.
TasksSafety == TypeOK /\ TaskOutlivesScan /\ EventsOfOwner /\ FrontIsCurrent /\ OneUserScan

\* A task in the pool is done some day, unless a push was undone, a dead task
\* used, or the task thread sleeps for ever because the signal it waits for
\* came just before it began to wait.
Queued(t) == \E i \in Pool : cell[i] = t
QueuedIsDoneOrMissed ==
  \A t \in Tasks : Queued(t) ~> (t \notin alive \/ torn \/ wild # "none" \/ []missed)

-----------------------------------------------------------------------------
\* The engine is started, stopped and ended as ScanJob allows.
SJ == INSTANCE ScanJob WITH
        Files <- {}, phase <- phase, handed <- {}, done <- {}, halted <- haltedFor # {}
UsesScanJob == SJ!Spec

\* The pool with its task thread is a queue that keeps the order and loses
\* nothing, until a push without a lock undoes another; with one producer, always.
TQ == INSTANCE TaskQueue WITH
        queue <- SubSeq(cell, start, finish - 1),
        current <- IF tpc \in {"start", "began", "asleepTask", "pop"} THEN tapp ELSE NoTask
QueueUntilTorn == TQ!Init /\ [][torn' \/ TQ!Next]_(TQ!queueVars)

\* With one producer, always.
ImplementsTaskQueue == TQ!Spec
=============================================================================
