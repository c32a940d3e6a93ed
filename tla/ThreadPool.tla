------------------------------ MODULE ThreadPool ------------------------------
(***************************************************************************)
(* The thread pool (CommonAPI/threadpool.h) as the web service of the      *)
(* kernel-defence daemon uses it (ZDFY/webserver.cpp): the accept thread   *)
(* appends tasks, detached workers take and work on them, and the          *)
(* destructor frees the pool without waiting for the workers.              *)
(*                                                                         *)
(* GetTask and AppendTask run under mQueueMutex and are one step; the      *)
(* signal comes after the mutex is released.  A worker that finds no task  *)
(* waits without looking again.  Use of the freed locks is undefined: the  *)
(* worker that does it is noted and does nothing more.                     *)
(***************************************************************************)
EXTENDS Integers, Sequences, SequencesExt

CONSTANTS
  Workers,
  Tasks,     \* each appended once
  NoTask,
  MaxWakes   \* bound: returns of a wait without a signal

ASSUME PoolConstants == NoTask \notin Tasks /\ MaxWakes \in Nat

VARIABLES
  mTaskQueue, \* Seq(Tasks)
  mStop,
  freed,      \* the destructor has deleted the locks
  pc,         \* [Workers -> WorkerPcs]
  task,       \* [Workers -> Tasks \cup {NoTask}]
  apc,        \* the accept thread: "idle", "signal" between unlock and Signal, "gone"
  dpc,        \* the destructor: "none", "broadcast", "delete", "done"
  appended,   \* history: tasks appended, in order
  taken,      \* history: tasks taken, in order
  worked,     \* history: tasks worked
  wakes,      \* unsignalled wakes so far
  missed      \* history: a signal found no waiting worker

vars == <<mTaskQueue, mStop, freed, pc, task, apc, dpc, appended, taken, worked, wakes, missed>>

WorkerPcs == {"test", "get", "towait", "asleep", "work", "exit", "gone"}
Asleep == {w \in Workers : pc[w] = "asleep"}

Init ==
  /\ mTaskQueue = <<>> /\ mStop = FALSE /\ freed = FALSE
  /\ pc = [w \in Workers |-> "test"] /\ task = [w \in Workers |-> NoTask]
  /\ apc = "idle" /\ dpc = "none"
  /\ appended = <<>> /\ taken = <<>> /\ worked = {} /\ wakes = 0 /\ missed = FALSE

queueVars == <<mTaskQueue, apc, appended>>
otherVars == <<mStop, freed, dpc, wakes, missed>>

---------------------------------------------------------------------------
(* Run, a worker. *)

TestStop(w) ==
  /\ pc[w] = "test"
  /\ pc' = [pc EXCEPT ![w] = IF mStop THEN "exit" ELSE "get"]
  /\ UNCHANGED <<task, taken, worked, queueVars, otherVars>>

GetTask(w) ==
  /\ pc[w] = "get" /\ ~freed /\ mTaskQueue # <<>>
  /\ task' = [task EXCEPT ![w] = Head(mTaskQueue)]
  /\ mTaskQueue' = Tail(mTaskQueue) /\ taken' = Append(taken, Head(mTaskQueue))
  /\ pc' = [pc EXCEPT ![w] = "work"]
  /\ UNCHANGED <<worked, apc, appended, otherVars>>

GetNoTask(w) ==
  /\ pc[w] = "get" /\ ~freed /\ mTaskQueue = <<>>
  /\ pc' = [pc EXCEPT ![w] = "towait"]
  /\ UNCHANGED <<task, taken, worked, queueVars, otherVars>>

\* The pool's locks are gone.
UseFreed(w) ==
  /\ pc[w] \in {"get", "towait"} /\ freed
  /\ pc' = [pc EXCEPT ![w] = "gone"]
  /\ UNCHANGED <<task, taken, worked, queueVars, otherVars>>

\* Mutant: the worker gives up when there is no task.
WaitNever(w) ==
  /\ pc[w] = "towait" /\ ~freed
  /\ pc' = [pc EXCEPT ![w] = "exit"]
  /\ UNCHANGED <<task, taken, worked, queueVars, otherVars>>

Wait(w) ==
  /\ pc[w] = "towait" /\ ~freed
  /\ pc' = [pc EXCEPT ![w] = "asleep"]
  /\ UNCHANGED <<task, taken, worked, queueVars, otherVars>>

SpuriousWake(w) ==
  /\ pc[w] = "asleep" /\ wakes < MaxWakes
  /\ pc' = [pc EXCEPT ![w] = "test"] /\ wakes' = wakes + 1
  /\ UNCHANGED <<task, taken, worked, queueVars, mStop, freed, dpc, missed>>

Work(w) ==
  /\ pc[w] = "work"
  /\ worked' = worked \cup {task[w]} /\ task' = [task EXCEPT ![w] = NoTask]
  /\ pc' = [pc EXCEPT ![w] = "test"]
  /\ UNCHANGED <<taken, queueVars, otherVars>>

Worker(w) ==
  \/ TestStop(w) \/ GetTask(w) \/ GetNoTask(w) \/ UseFreed(w) \/ Wait(w) \/ Work(w)

---------------------------------------------------------------------------
(* AppendTask.  Nobody joins the accept thread: it may append to a pool that has
   been stopped or freed. *)

\* Mutant: the signal is for a queue that was not empty.
AppendWrongSignal(t) ==
  /\ apc = "idle" /\ ~freed /\ t \notin ToSet(appended)
  /\ mTaskQueue' = Append(mTaskQueue, t) /\ appended' = Append(appended, t)
  /\ apc' = IF mTaskQueue # <<>> THEN "signal" ELSE "idle"
  /\ UNCHANGED <<pc, task, taken, worked, otherVars>>

AppendTask(t) ==
  /\ apc = "idle" /\ ~freed /\ t \notin ToSet(appended)
  /\ mTaskQueue' = Append(mTaskQueue, t) /\ appended' = Append(appended, t)
  /\ apc' = IF mTaskQueue = <<>> THEN "signal" ELSE "idle"
  /\ UNCHANGED <<pc, task, taken, worked, otherVars>>

Signal ==
  /\ apc = "signal" /\ ~freed /\ apc' = "idle"
  /\ \/ \E w \in Asleep : pc' = [pc EXCEPT ![w] = "test"] /\ UNCHANGED missed
     \/ Asleep = {} /\ missed' = TRUE /\ UNCHANGED pc
  /\ UNCHANGED <<mTaskQueue, appended, task, taken, worked, mStop, freed, dpc, wakes>>

AppendFreed ==
  /\ freed /\ apc \in {"idle", "signal"}
  /\ apc' = "gone"
  /\ UNCHANGED <<mTaskQueue, appended, pc, task, taken, worked, otherVars>>

---------------------------------------------------------------------------
(* ~ThreadPool. *)

StopFlag ==
  /\ dpc = "none"
  /\ mStop' = TRUE /\ dpc' = "broadcast"
  /\ UNCHANGED <<pc, task, taken, worked, queueVars, freed, wakes, missed>>

StopBroadcast ==
  /\ dpc = "broadcast" /\ dpc' = "delete"
  /\ pc' = [w \in Workers |-> IF pc[w] = "asleep" THEN "test" ELSE pc[w]]
  /\ UNCHANGED <<task, taken, worked, queueVars, mStop, freed, wakes, missed>>

DeletePool ==
  /\ dpc = "delete" /\ dpc' = "done"
  /\ freed' = TRUE
  /\ UNCHANGED <<pc, task, taken, worked, queueVars, mStop, wakes, missed>>

Next ==
  \/ \E w \in Workers : Worker(w) \/ SpuriousWake(w)
  \/ \E t \in Tasks : AppendTask(t)
  \/ Signal \/ AppendFreed \/ StopFlag \/ StopBroadcast \/ DeletePool

\* Workers run, tasks come to an end, and a begun call goes on.
Fairness ==
  /\ \A w \in Workers : WF_vars(Worker(w))
  /\ WF_vars(Signal) /\ WF_vars(StopBroadcast) /\ WF_vars(DeletePool)

Spec == Init /\ [][Next]_vars /\ Fairness

---------------------------------------------------------------------------
(* Properties. *)

TypeOK ==
  /\ mTaskQueue \in Seq(Tasks) /\ appended \in Seq(Tasks) /\ taken \in Seq(Tasks) /\ worked \subseteq Tasks
  /\ {mStop, freed, missed} \subseteq BOOLEAN
  /\ pc \in [Workers -> WorkerPcs] /\ task \in [Workers -> Tasks \cup {NoTask}]
  /\ apc \in {"idle", "signal", "gone"} /\ dpc \in {"none", "broadcast", "delete", "done"}
  /\ wakes \in 0 .. MaxWakes
  /\ \A w \in Workers : task[w] # NoTask <=> pc[w] = "work"

\* Workers take the tasks in the order in which they were appended, each once.
TakenInOrder == taken \o mTaskQueue = appended

\* Tasks lie in the queue with every worker asleep and no signal on its way only
\* after a signal that no worker waited for, given to one between GetTask and
\* its wait.
IdleNeedsMiss ==
  mTaskQueue # <<>> /\ Asleep = Workers /\ apc = "idle" => missed

\* Tasks are taken once, in order, and left only by a missed signal.
QueueSafety == TypeOK /\ TakenInOrder /\ IdleNeedsMiss

\* An appended task is worked, unless the pool is stopped or a signal was missed
\* and all workers sleep: AppendTask signals only for an empty queue, so that
\* later tasks wake nobody either.
WorkedOrMissed ==
  \A t \in Tasks :
    t \in ToSet(appended) ~> t \in worked \/ mStop \/ (missed /\ Asleep = Workers)
=============================================================================
