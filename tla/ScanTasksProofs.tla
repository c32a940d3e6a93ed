---------------------------- MODULE ScanTasksProofs ----------------------------
(***************************************************************************)
(* Theorems about ScanTasks: its type invariant, the safety properties the *)
(* runs check, that it uses the engine as ScanJob allows, and that with    *)
(* one producer it implements TaskQueue.                                   *)
(***************************************************************************)
EXTENDS ScanTasks, FiniteSetTheorems, SequenceTheorems, TLAPS

-----------------------------------------------------------------------------
(* Parts of the inductive invariant.                                       *)

\* The task thread has a task that is not deleted yet, events have one too, and
\* who stops the engine does it for one.
HasTask == {"start", "began", "asleepTask", "pop", "delete"}
Holding ==
  /\ tpc \in HasTask => tapp \in alive /\ mApplication \in alive
  /\ mApplication \in 0 .. created
  /\ \A p \in Producers : ppc[p] = "stop" => ptask[p] \in Tasks

\* A push in progress will need one cell more.
Pushing(p) == p \in Producers /\ ppc[p] \in {"load", "store"}
Need(p)    == IF Pushing(p) THEN 1 ELSE 0
Other(p)   == IF p = "usb" THEN "command" ELSE "usb"
Room ==
  /\ finish + Need("command") + Need("usb") <= created + 1
  /\ \A p \in Producers : ppc[p] = "store" => pat[p] + Need(Other(p)) <= created

\* Every task that was popped is deleted, but the one under way.
Dead == 1 .. created \ alive
Popped ==
  /\ IsFiniteSet(Dead)
  /\ Cardinality(Dead) = IF tpc = "delete" THEN start - 2 ELSE start - 1

\* A job that runs has its task with the task thread.
Running ==
  /\ epc # "none" => phase = "ended"
  /\ (wakes = 0 /\ (phase = "running" \/ epc = "end")) =>
        tpc \in {"began", "asleepTask"} /\ tapp = owner

TypeInv == TypeOK /\ Holding /\ Room /\ Popped /\ Running

\* While no push has undone another, the pool holds different tasks that exist,
\* none of them still being pushed, and the first is the task thread's.
Fifo ==
  ~ torn =>
    /\ start <= finish
    /\ \A i \in finish .. MaxTasks + 1 : cell[i] = NoTask
    /\ \A i \in Pool : cell[i] \in alive
    /\ \A i, j \in Pool : cell[i] = cell[j] => i = j
    /\ \A p \in Producers : Pushing(p) =>
          ptask[p] \in alive /\ ptask[p] # NoTask /\ \A i \in Pool : cell[i] # ptask[p]
    /\ \A p, q \in Producers : Pushing(p) /\ Pushing(q) /\ p # q => ptask[p] # ptask[q]
    /\ tpc \in HasTask => \A p \in Producers : Pushing(p) => ptask[p] # tapp
    /\ tpc \in HasTask \ {"delete"} => start < finish /\ cell[start] = tapp
    /\ tpc = "delete" => \A i \in Pool : cell[i] # tapp

\* A user's scan is alone in the pool with those on their way to it.
Users ==
  ~ torn =>
    /\ \A i, j \in Pool : kind[cell[i]] = "user" /\ kind[cell[j]] = "user" => i = j
    /\ Pushing("command") /\ kind[ptask["command"]] = "user" =>
          \A i \in Pool : kind[cell[i]] # "user"
    /\ Pushing("usb") => kind[ptask["usb"]] = "plugin"

\* Events go to the task at work or to a scheduled one.
Events ==
  (~ torn /\ tpc \in HasTask \ {"delete"}) =>
    mApplication = tapp \/ (kind[mApplication] = "schedule" /\ mApplication # tapp)

\* A task for which somebody will stop the engine is the first of the pool, or
\* about to be deleted, or gone.
InHand(t) ==
  \/ start < finish /\ t = cell[start]
  \/ tpc = "delete" /\ t = tapp
Stops ==
  (wakes = 0 /\ ~ torn) =>
    /\ haltedFor \subseteq 1 .. created
    /\ haltedFor \cap alive \subseteq {owner}
    /\ \A p \in Producers : ppc[p] = "stop" =>
          ptask[p] \in 1 .. created /\ (ptask[p] \in alive => InHand(ptask[p]))
    /\ (mApplication \in alive /\ kind[mApplication] \in RemoteCommand) => InHand(mApplication)

IInv == TypeInv /\ Fifo /\ Users /\ Events /\ Stops

-----------------------------------------------------------------------------
(* The shapes of a step.                                                   *)

\* A producer creates a task.
Creation(p, k) ==
  /\ Create(p, k)
  /\ k = "user" => PoolEmpty
  /\ p = "usb" <=> k = "plugin"
  /\ \/ UNCHANGED mApplication
     \/ k = "schedule" /\ mApplication' = created + 1

\* A producer makes up its mind to stop the engine for task t.
Intent(p, t) ==
  /\ At(p, "idle") /\ t \in alive
  /\ WillStop(p, t)
  /\ \/ t = Front /\ UNCHANGED mApplication
     \/ t = mApplication /\ kind[t] \in RemoteCommand /\ UNCHANGED mApplication
     \/ t = Front /\ kind[t] = "plugin" /\ mApplication' = t

\* A step of a producer.
Produces(p) ==
  \/ \E k \in Kinds : Creation(p, k)
  \/ \E t \in Tasks : Intent(p, t)
  \/ PushLoad(p) \/ PushStore(p) \/ PushSignal(p) \/ StopScan(p)

\* A step of the task thread that changes nothing but where it is.
Moves == TaskTest \/ PoolWait \/ PoolWake \/ TaskFail \/ TaskWait \/ TaskWake

\* A step that uses a task which is not there.
Strays == \E who \in {"front", "delete", "command", "remote", "usb", "end", "late"} : Wild(who)

\* Every step has one of these shapes.
LEMMA Shapes ==
  ASSUME TypeOK, TasksNext
  PROVE  \/ Strays
         \/ \E p \in Producers : Produces(p)
         \/ Moves \/ TaskRelease \/ TaskBegin \/ TaskPop
         \/ TaskFront /\ UNCHANGED wild
         \/ TaskDelete /\ UNCHANGED wild
         \/ EngineEnd \/ EngineEndAgain \/ SignalEnd
         \/ ReportEnd /\ UNCHANGED wild
<1> USE TasksAssumption
<1>1. CASE UserScan \/ RemoteScan \/ OtherScan \/ ScheduleScan \/ PluginScan
  <2>1. Strays \/ Creation("command", "user") \/ Creation("command", "remote")
        \/ Creation("command", "other") \/ Creation("command", "schedule") \/ Creation("usb", "plugin")
    BY <1>1 DEF UserScan, RemoteScan, OtherScan, ScheduleScan, PluginScan, Creation, Strays
  <2>2. \A p, k : Creation(p, k) => p \in Producers
    BY DEF Creation, Create, At
  <2>3. {"user", "remote", "other", "schedule", "plugin"} \subseteq Kinds
    BY DEF Kinds
  <2> QED
    BY <2>1, <2>2, <2>3 DEF Produces
<1>2. CASE UserStop \/ IntelligentScan \/ RemoteStop \/ PluginRemoved
  <2>1. alive \subseteq Tasks
    BY DEF TypeOK, Tasks
  <2>2. Strays \/ \E p \in Producers : \E t \in alive : Intent(p, t)
    BY <1>2 DEF UserStop, IntelligentScan, RemoteStop, PluginRemoved, Intent, Strays, At
  <2> QED
    BY <2>1, <2>2 DEF Produces
<1>3. CASE \E p \in Producers : Push(p)
  BY <1>3 DEF Push, Produces
<1>4. CASE TaskThread \/ PoolWake \/ TaskWake
  <2>1. TaskFront => Strays \/ UNCHANGED wild
    BY DEF TaskFront, Strays
  <2>2. TaskDelete => Strays \/ UNCHANGED wild
    BY DEF TaskDelete, Strays
  <2> QED
    BY <1>4, <2>1, <2>2 DEF TaskThread, Moves
<1>5. CASE Engine
  <2>1. ReportEnd => Strays \/ UNCHANGED wild
    BY DEF ReportEnd, Strays, EngineAt
  <2> QED
    BY <1>5, <2>1 DEF Engine
<1> QED
  BY <1>1, <1>2, <1>3, <1>4, <1>5 DEF TasksNext, Command, Usb

-----------------------------------------------------------------------------
(* Types.                                                                  *)

\* Nothing is pushed and nothing dead at the beginning.
LEMMA TypeInit == TasksInit => TypeInv
<1> SUFFICES ASSUME TasksInit PROVE TypeInv
  OBVIOUS
<1> USE TasksAssumption
<1>1. TypeOK
  <2>1. 1 \in Cells /\ 0 \in 0 .. MaxTasks /\ 0 \in 0 .. MaxWakes
    BY DEF Cells
  <2>2. cell \in [Cells -> Tasks \cup {NoTask}] /\ kind \in [Tasks -> Kinds \cup {"none"}]
    BY DEF TasksInit
  <2>3. ppc \in [Producers -> {"idle", "load", "store", "signal", "stop"}]
        /\ ptask \in [Producers -> Tasks \cup {NoTask}] /\ pat \in [Producers -> Cells]
    BY <2>1 DEF TasksInit
  <2> QED
    BY <2>1, <2>2, <2>3 DEF TasksInit, TypeOK
<1>2. Holding /\ Room /\ Running
  BY DEF TasksInit, NoTask, Holding, HasTask, Room, Need, Pushing, Running
<1>3. Popped
  <2>1. Dead = {}
    BY DEF TasksInit, Dead
  <2> QED
    BY <2>1, FS_EmptySet DEF TasksInit, Popped
<1> QED
  BY <1>1, <1>2, <1>3 DEF TypeInv

\* The end of the pool is within it while a push needs a cell, and so is its
\* start while the task thread holds a task that is still alive.
LEMMA Bounds ==
  ASSUME TypeInv
  PROVE  /\ \A p \in Producers : ppc[p] = "load" => finish <= MaxTasks
         /\ \A p \in Producers : ppc[p] = "store" => pat[p] <= MaxTasks
         /\ tpc = "pop" => start <= MaxTasks
<1> USE TasksAssumption
<1>1. ASSUME NEW p \in Producers, ppc[p] = "load" PROVE finish <= MaxTasks
  <2>1. p \in {"command", "usb"}
    OBVIOUS
  <2>2. Need(p) = 1 /\ Need("command") \in 0 .. 1 /\ Need("usb") \in 0 .. 1
    BY <1>1 DEF Need, Pushing
  <2> QED
    BY <2>1, <2>2 DEF TypeInv, TypeOK, Room, Cells
<1>2. ASSUME NEW p \in Producers, ppc[p] = "store" PROVE pat[p] <= MaxTasks
  <2>1. Need(Other(p)) \in 0 .. 1
    BY DEF Need
  <2> QED
    BY <1>2, <2>1 DEF TypeInv, TypeOK, Room, Cells
<1>3. ASSUME tpc = "pop" PROVE start <= MaxTasks
  <2>1. tapp \in 1 .. MaxTasks /\ tapp \notin Dead /\ Dead \subseteq 1 .. MaxTasks
    BY <1>3 DEF TypeInv, TypeOK, Holding, HasTask, Dead, Tasks, NoTask
  <2>2. IsFiniteSet(1 .. MaxTasks) /\ Cardinality(1 .. MaxTasks) = MaxTasks
    BY FS_Interval
  <2>3. Dead # 1 .. MaxTasks /\ Dead \in SUBSET (1 .. MaxTasks)
    BY <2>1
  <2>4. /\ IsFiniteSet(Dead)
        /\ Cardinality(Dead) <= Cardinality(1 .. MaxTasks)
        /\ Cardinality(Dead) # Cardinality(1 .. MaxTasks)
    BY <2>2, <2>3, FS_Subset
  <2>5. Cardinality(Dead) \in Nat
    BY <2>4, FS_CardinalityType
  <2> QED
    BY <1>3, <2>2, <2>4, <2>5 DEF TypeInv, Popped, TypeOK, Cells
<1> QED
  BY <1>1, <1>2, <1>3

\* Every variable keeps its type.
LEMMA TypeOKStep ==
  ASSUME TypeInv, TasksNext
  PROVE  TypeOK'
<1> USE TasksAssumption DEF poolVars, taskVars, threadVars, prodVars, engineVars, noteVars,
      AllButThread, Goto, At, TaskAt, EngineAt
<1>1. TypeOK /\ MaxTasks + 1 \in Nat
  BY DEF TypeInv
<1>2. CASE Strays
  BY <1>1, <1>2 DEF Strays, Wild, TypeOK
<1>3. ASSUME NEW p \in Producers, Produces(p) PROVE TypeOK'
  <2>1. ASSUME NEW k \in Kinds, Creation(p, k) PROVE TypeOK'
    <3>1. created + 1 \in Tasks /\ created + 1 \in 0 .. MaxTasks /\ 1 .. created \subseteq 1 .. created + 1
      BY <1>1, <2>1 DEF Creation, Create, TypeOK, Tasks
    <3> QED
      BY <1>1, <2>1, <3>1 DEF Creation, Create, TypeOK
  <2>2. ASSUME NEW t \in Tasks, Intent(p, t) PROVE TypeOK'
    BY <1>1, <2>2 DEF Intent, WillStop, TypeOK
  <2>3. CASE PushLoad(p)
    BY <1>1, <2>3 DEF PushLoad, TypeOK
  <2>4. CASE PushStore(p)
    <3>1. pat[p] + 1 \in Cells
      BY <1>1, <2>4, Bounds DEF PushStore, At, TypeOK, Cells
    <3> QED
      BY <1>1, <2>4, <3>1 DEF PushStore, TypeOK
  <2>5. CASE PushSignal(p)
    <3>1. 1 \in Cells
      BY DEF Cells
    <3> QED
      BY <1>1, <2>5, <3>1 DEF PushSignal, Return, TypeOK
  <2>6. CASE StopScan(p)
    <3>1. 1 \in Cells
      BY DEF Cells
    <3>2. haltedFor' \subseteq Tasks
      BY <1>1, <2>6 DEF StopScan, TypeInv, Holding, TypeOK
    <3> QED
      BY <1>1, <2>6, <3>1, <3>2 DEF StopScan, Return, TypeOK
  <2> QED
    BY <1>3, <2>1, <2>2, <2>3, <2>4, <2>5, <2>6 DEF Produces
<1>4. CASE Moves
  <2>1. CASE TaskTest
    BY <1>1, <2>1 DEF TaskTest, TypeOK
  <2>2. CASE PoolWait \/ TaskFail \/ TaskWait
    <3>1. CASE PoolWait
      BY <1>1, <3>1 DEF PoolWait, TypeOK
    <3>2. CASE TaskFail
      BY <1>1, <3>2 DEF TaskFail, TypeOK
    <3>3. CASE TaskWait
      BY <1>1, <3>3 DEF TaskWait, TypeOK
    <3> QED
      BY <2>2, <3>1, <3>2, <3>3
  <2>3. CASE PoolWake \/ TaskWake
    <3>1. wakes' \in 0 .. MaxWakes
      BY <1>1, <2>3 DEF PoolWake, TaskWake, TypeOK
    <3>2. CASE PoolWake
      BY <1>1, <3>1, <3>2 DEF PoolWake, TypeOK
    <3>3. CASE TaskWake
      BY <1>1, <3>1, <3>3 DEF TaskWake, TypeOK
    <3> QED
      BY <2>3, <3>2, <3>3
  <2> QED
    BY <1>4, <2>1, <2>2, <2>3 DEF Moves
<1>5. CASE TaskRelease \/ TaskBegin
  <2>1. tapp \in Tasks
    BY <1>1, <1>5 DEF TypeInv, TypeOK, Holding, HasTask, TaskRelease, TaskBegin, TaskAt, Tasks
  <2> QED
    BY <1>1, <1>5, <2>1 DEF TaskRelease, TaskBegin, TypeOK
<1>6. CASE TaskPop
  <2>1. start + 1 \in Cells
    BY <1>1, <1>6, Bounds DEF TaskPop, TaskAt, TypeOK, Cells
  <2> QED
    BY <1>1, <1>6, <2>1 DEF TaskPop, TypeOK
<1>7. CASE TaskFront /\ UNCHANGED wild
  <2>1. Front \in Tasks \cup {NoTask}
    BY <1>1 DEF TypeOK, Front
  <2> QED
    BY <1>1, <1>7, <2>1 DEF TaskFront, Wild, TypeOK
<1>8. CASE TaskDelete /\ UNCHANGED wild
  BY <1>1, <1>8 DEF TaskDelete, Wild, TypeOK
<1>9. CASE EngineEnd \/ EngineEndAgain \/ SignalEnd
  <2>1. CASE EngineEnd
    BY <1>1, <2>1 DEF EngineEnd, TypeOK
  <2>2. CASE EngineEndAgain
    BY <1>1, <2>2 DEF EngineEndAgain, TypeOK
  <2>3. CASE SignalEnd
    BY <1>1, <2>3 DEF SignalEnd, TypeOK
  <2> QED
    BY <1>9, <2>1, <2>2, <2>3
<1>10. CASE ReportEnd /\ UNCHANGED wild
  BY <1>1, <1>10 DEF ReportEnd, Wild, TypeOK
<1> QED
  BY <1>1, <1>2, <1>3, <1>4, <1>5, <1>6, <1>7, <1>8, <1>9, <1>10, Shapes

\* The task at hand is deleted by nobody but the task thread.
LEMMA HoldingStep ==
  ASSUME TypeInv, TasksNext
  PROVE  Holding'
<1> USE TasksAssumption DEF poolVars, taskVars, threadVars, prodVars, engineVars, noteVars,
      AllButThread, Goto, At, TaskAt, EngineAt, HasTask
<1>1. TypeOK /\ Holding
  BY DEF TypeInv
<1>2. CASE Strays
  BY <1>1, <1>2 DEF Strays, Wild, Holding
<1>3. ASSUME NEW p \in Producers, Produces(p) PROVE Holding'
  <2>1. ASSUME NEW k \in Kinds, Creation(p, k) PROVE Holding'
    BY <1>1, <2>1 DEF Creation, Create, Holding, TypeOK
  <2>2. ASSUME NEW t \in Tasks, Intent(p, t) PROVE Holding'
    BY <1>1, <2>2 DEF Intent, WillStop, Holding, TypeOK
  <2>3. CASE PushLoad(p) \/ PushStore(p)
    BY <1>1, <2>3 DEF PushLoad, PushStore, Holding, TypeOK
  <2>4. CASE PushSignal(p)
    BY <1>1, <2>4 DEF PushSignal, Return, Holding, TypeOK
  <2>5. CASE StopScan(p)
    BY <1>1, <2>5 DEF StopScan, Return, Holding, TypeOK
  <2> QED
    BY <1>3, <2>1, <2>2, <2>3, <2>4, <2>5 DEF Produces
<1>4. CASE Moves
  BY <1>1, <1>4 DEF Moves, TaskTest, PoolWait, PoolWake, TaskFail, TaskWait, TaskWake, Holding
<1>5. CASE TaskRelease \/ TaskBegin \/ TaskPop
  BY <1>1, <1>5 DEF TaskRelease, TaskBegin, TaskPop, Holding
<1>6. CASE TaskFront /\ UNCHANGED wild
  <2>1. /\ Front \in alive /\ tapp' = Front /\ mApplication' = Front /\ tpc' = "start"
        /\ UNCHANGED <<created, alive, ppc, ptask>>
    BY <1>6 DEF TaskFront, Wild
  <2>2. Front \in 0 .. created
    BY <1>1, <2>1 DEF TypeOK
  <2> QED
    BY <1>1, <2>1, <2>2 DEF Holding
<1>7. CASE TaskDelete /\ UNCHANGED wild
  BY <1>1, <1>7 DEF TaskDelete, Wild, Holding
<1>8. CASE EngineEnd \/ EngineEndAgain \/ SignalEnd
  BY <1>1, <1>8 DEF EngineEnd, EngineEndAgain, SignalEnd, Holding
<1>9. CASE ReportEnd /\ UNCHANGED wild
  BY <1>1, <1>9 DEF ReportEnd, Wild, Holding
<1> QED
  BY <1>1, <1>2, <1>3, <1>4, <1>5, <1>6, <1>7, <1>8, <1>9, Shapes

\* What a step of one producer must show for Room: its own push has room, and
\* it takes no more of the room of the other than it makes.
LEMMA RoomOfOne ==
  ASSUME TypeOK, TypeOK', Room, NEW p \in Producers, NEW l,
         ppc' = [ppc EXCEPT ![p] = l],
         \A r \in Producers \ {p} : pat'[r] = pat[r],
         finish' + Need(p)' + Need(Other(p)) <= created' + 1,
         l = "store" => pat'[p] + Need(Other(p)) <= created',
         created - Need(p) <= created' - Need(p)'
  PROVE  Room'
<1> USE TasksAssumption
<1>1. /\ ppc'[p] = l
      /\ \A r \in Producers \ {p} : ppc'[r] = ppc[r] /\ r = Other(p) /\ Other(r) = p
      /\ p \in {"command", "usb"} /\ Other(p) # p
  BY DEF TypeOK, Other
<1>2. /\ finish \in Nat /\ created \in Nat /\ finish' \in Nat /\ created' \in Nat
      /\ \A r \in Producers : pat[r] \in Nat /\ pat'[r] \in Nat
  BY DEF TypeOK, Cells
<1>3. Need(Other(p))' = Need(Other(p)) /\ \A r : Need(r) \in 0 .. 1 /\ Need(r)' \in 0 .. 1
  BY <1>1 DEF Need, Pushing, Other
<1>4. Need("command")' + Need("usb")' = Need(p)' + Need(Other(p))
  BY <1>1, <1>3 DEF Other
<1>5. finish' + Need("command")' + Need("usb")' <= created' + 1
  BY <1>2, <1>3, <1>4
<1>6. ASSUME NEW r \in Producers, ppc'[r] = "store" PROVE pat'[r] + Need(Other(r))' <= created'
  <2>1. CASE r = p
    BY <1>1, <1>3, <1>6, <2>1
  <2>2. CASE r # p
    <3>1. pat[r] + Need(p) <= created
      BY <1>1, <1>6, <2>2 DEF Room
    <3>2. pat'[r] = pat[r] /\ Other(r) = p
      BY <1>1, <2>2
    <3> QED
      BY <1>2, <1>3, <3>1, <3>2
  <2> QED
    BY <2>1, <2>2
<1> QED
  BY <1>5, <1>6 DEF Room

\* What Room says of a producer.
LEMMA RoomSays ==
  ASSUME TypeOK, Room, NEW p \in Producers
  PROVE  /\ finish + Need(p) + Need(Other(p)) <= created + 1
         /\ ppc[p] = "store" => pat[p] + Need(Other(p)) <= created
         /\ Need(Other(p)) \in 0 .. 1
         /\ finish \in Nat /\ created \in Nat /\ pat[p] \in Nat
<1>1. p \in {"command", "usb"} /\ Need("command") \in 0 .. 1 /\ Need("usb") \in 0 .. 1
  BY TasksAssumption DEF Need
<1> QED
  BY <1>1 DEF Room, Other, TypeOK, Cells

\* There is room for every task that has been created.
LEMMA RoomStep ==
  ASSUME TypeInv, TasksNext
  PROVE  Room'
<1> USE TasksAssumption DEF poolVars, taskVars, threadVars, prodVars, engineVars, noteVars,
      AllButThread, Goto, At, TaskAt, EngineAt
<1>1. TypeOK /\ Room /\ TypeOK'
  BY TypeOKStep DEF TypeInv
<1>2. ASSUME UNCHANGED <<finish, created, ppc, pat>> PROVE Room'
  BY <1>1, <1>2 DEF Room, Need, Pushing
<1>3. ASSUME NEW p \in Producers, Produces(p) PROVE Room'
  <2>1. ASSUME NEW l, ppc' = [ppc EXCEPT ![p] = l]
        PROVE  ppc'[p] = l
    BY <1>1, <2>1 DEF TypeOK
  <2>2. ASSUME NEW k \in Kinds, Creation(p, k) PROVE Room'
    <3>1. ppc' = [ppc EXCEPT ![p] = "load"] /\ ppc[p] = "idle" /\ created' = created + 1 /\ UNCHANGED <<finish, pat>>
      BY <2>2 DEF Creation, Create
    <3>2. Need(p) = 0 /\ Need(p)' = 1
      BY <2>1, <3>1 DEF Need, Pushing
    <3>3. \A r \in Producers \ {p} : pat'[r] = pat[r]
      BY <1>1, <3>1 DEF TypeOK
    <3>5. /\ finish' + Need(p)' + Need(Other(p)) <= created' + 1
          /\ "load" = "store" => pat'[p] + Need(Other(p)) <= created'
          /\ created - Need(p) <= created' - Need(p)'
      BY <1>1, <3>1, <3>2, <3>3, RoomSays
    <3> QED
      BY <1>1, <3>1, <3>3, <3>5, RoomOfOne
  <2>3. ASSUME NEW t \in Tasks, Intent(p, t) PROVE Room'
    <3>1. ppc' = [ppc EXCEPT ![p] = "stop"] /\ ppc[p] = "idle" /\ UNCHANGED <<finish, created, pat>>
      BY <2>3 DEF Intent, WillStop
    <3>2. Need(p) = 0 /\ Need(p)' = 0
      BY <2>1, <3>1 DEF Need, Pushing
    <3>3. \A r \in Producers \ {p} : pat'[r] = pat[r]
      BY <1>1, <3>1 DEF TypeOK
    <3>5. /\ finish' + Need(p)' + Need(Other(p)) <= created' + 1
          /\ "stop" = "store" => pat'[p] + Need(Other(p)) <= created'
          /\ created - Need(p) <= created' - Need(p)'
      BY <1>1, <3>1, <3>2, <3>3, RoomSays
    <3> QED
      BY <1>1, <3>1, <3>3, <3>5, RoomOfOne
  <2>4. CASE PushLoad(p)
    <3>1. ppc' = [ppc EXCEPT ![p] = "store"] /\ ppc[p] = "load" /\ pat' = [pat EXCEPT ![p] = finish]
          /\ UNCHANGED <<finish, created>>
      BY <2>4 DEF PushLoad
    <3>2. Need(p) = 1 /\ Need(p)' = 1
      BY <2>1, <3>1 DEF Need, Pushing
    <3>3. \A r \in Producers \ {p} : pat'[r] = pat[r]
      BY <1>1, <3>1 DEF TypeOK
    <3>4. pat'[p] = finish
      BY <1>1, <3>1 DEF TypeOK
    <3>5. /\ finish' + Need(p)' + Need(Other(p)) <= created' + 1
          /\ "store" = "store" => pat'[p] + Need(Other(p)) <= created'
          /\ created - Need(p) <= created' - Need(p)'
      BY <1>1, <3>1, <3>2, <3>3, <3>4, RoomSays
    <3> QED
      BY <1>1, <3>1, <3>3, <3>5, RoomOfOne
  <2>5. CASE PushStore(p)
    <3>1. ppc' = [ppc EXCEPT ![p] = "signal"] /\ ppc[p] = "store" /\ finish' = pat[p] + 1
          /\ UNCHANGED <<created, pat>>
      BY <2>5 DEF PushStore
    <3>2. Need(p) = 1 /\ Need(p)' = 0
      BY <2>1, <3>1 DEF Need, Pushing
    <3>3. \A r \in Producers \ {p} : pat'[r] = pat[r]
      BY <1>1, <3>1 DEF TypeOK
    <3>5. /\ finish' + Need(p)' + Need(Other(p)) <= created' + 1
          /\ "signal" = "store" => pat'[p] + Need(Other(p)) <= created'
          /\ created - Need(p) <= created' - Need(p)'
      BY <1>1, <3>1, <3>2, <3>3, RoomSays
    <3> QED
      BY <1>1, <3>1, <3>3, <3>5, RoomOfOne
  <2>6. CASE PushSignal(p) \/ StopScan(p)
    <3>1. ppc' = [ppc EXCEPT ![p] = "idle"] /\ ppc[p] \in {"signal", "stop"} /\ pat' = [pat EXCEPT ![p] = 1]
          /\ UNCHANGED <<finish, created>>
      BY <2>6 DEF PushSignal, StopScan, Return
    <3>2. Need(p) = 0 /\ Need(p)' = 0
      BY <2>1, <3>1 DEF Need, Pushing
    <3>3. \A r \in Producers \ {p} : pat'[r] = pat[r]
      BY <1>1, <3>1 DEF TypeOK
    <3>5. /\ finish' + Need(p)' + Need(Other(p)) <= created' + 1
          /\ "idle" = "store" => pat'[p] + Need(Other(p)) <= created'
          /\ created - Need(p) <= created' - Need(p)'
      BY <1>1, <3>1, <3>2, <3>3, RoomSays
    <3> QED
      BY <1>1, <3>1, <3>3, <3>5, RoomOfOne
  <2> QED
    BY <1>3, <2>2, <2>3, <2>4, <2>5, <2>6 DEF Produces
<1>4. CASE Strays
  BY <1>2, <1>4 DEF Strays, Wild
<1>5. CASE Moves
  BY <1>2, <1>5 DEF Moves, TaskTest, PoolWait, PoolWake, TaskFail, TaskWait, TaskWake
<1>6. CASE TaskRelease \/ TaskBegin \/ TaskPop
  BY <1>2, <1>6 DEF TaskRelease, TaskBegin, TaskPop
<1>7. CASE (TaskFront \/ TaskDelete \/ ReportEnd) /\ UNCHANGED wild
  BY <1>2, <1>7 DEF TaskFront, TaskDelete, ReportEnd, Wild
<1>8. CASE EngineEnd \/ EngineEndAgain \/ SignalEnd
  BY <1>2, <1>8 DEF EngineEnd, EngineEndAgain, SignalEnd
<1> QED
  BY <1>1, <1>3, <1>4, <1>5, <1>6, <1>7, <1>8, Shapes

\* The start of the pool counts the dead.
LEMMA PoppedStep ==
  ASSUME TypeInv, TasksNext
  PROVE  Popped'
<1> USE TasksAssumption DEF poolVars, taskVars, threadVars, prodVars, engineVars, noteVars,
      AllButThread, Goto, At, TaskAt, EngineAt
<1>1. TypeOK /\ Popped /\ start \in Nat /\ created \in Nat
  BY DEF TypeInv, TypeOK, Cells
<1>2. ASSUME UNCHANGED <<start, created, alive>>, tpc # "delete", tpc' # "delete" PROVE Popped'
  BY <1>1, <1>2 DEF Popped, Dead
<1>3. ASSUME UNCHANGED <<start, created, alive, tpc>> PROVE Popped'
  BY <1>1, <1>3 DEF Popped, Dead
<1>4. ASSUME NEW p \in Producers, Produces(p) PROVE Popped'
  <2>1. ASSUME NEW k \in Kinds, Creation(p, k) PROVE Popped'
    <3>1. Dead' = Dead /\ UNCHANGED <<start, tpc>>
      BY <1>1, <2>1 DEF Creation, Create, Dead, TypeOK
    <3> QED
      BY <1>1, <3>1 DEF Popped
  <2>2. ASSUME NEW t \in Tasks, Intent(p, t) PROVE Popped'
    BY <1>3, <2>2 DEF Intent, WillStop
  <2>3. CASE PushLoad(p) \/ PushStore(p) \/ StopScan(p)
    BY <1>3, <2>3 DEF PushLoad, PushStore, StopScan
  <2>4. CASE PushSignal(p)
    <3>1. UNCHANGED <<start, created, alive>> /\ (UNCHANGED tpc \/ (tpc # "delete" /\ tpc' # "delete"))
      BY <2>4 DEF PushSignal
    <3> QED
      BY <1>2, <1>3, <3>1
  <2> QED
    BY <1>4, <2>1, <2>2, <2>3, <2>4 DEF Produces
<1>5. CASE Strays
  BY <1>3, <1>5 DEF Strays, Wild
<1>6. CASE Moves
  <2>1. UNCHANGED <<start, created, alive>> /\ tpc # "delete" /\ tpc' # "delete"
    BY <1>6 DEF Moves, TaskTest, PoolWait, PoolWake, TaskFail, TaskWait, TaskWake
  <2> QED
    BY <1>2, <2>1
<1>7. CASE TaskRelease \/ TaskBegin \/ EngineEnd \/ EngineEndAgain \/ SignalEnd
  <2>1. UNCHANGED <<start, created, alive>> /\ (UNCHANGED tpc \/ (tpc # "delete" /\ tpc' # "delete"))
    BY <1>7 DEF TaskRelease, TaskBegin, EngineEnd, EngineEndAgain, SignalEnd
  <2> QED
    BY <1>2, <1>3, <2>1
<1>8. CASE (TaskFront \/ ReportEnd) /\ UNCHANGED wild
  <2>1. UNCHANGED <<start, created, alive>> /\ (UNCHANGED tpc \/ (tpc # "delete" /\ tpc' # "delete"))
    BY <1>8 DEF TaskFront, ReportEnd, Wild
  <2> QED
    BY <1>2, <1>3, <2>1
<1>9. CASE TaskPop
  <2>1. tpc = "pop" /\ tpc' = "delete" /\ start' = start + 1 /\ Dead' = Dead
    BY <1>9 DEF TaskPop, Dead
  <2> QED
    BY <1>1, <2>1 DEF Popped
<1>10. CASE TaskDelete /\ UNCHANGED wild
  <2>1. /\ tpc = "delete" /\ tpc' = "test" /\ UNCHANGED <<start, created>>
        /\ tapp \in alive /\ alive' = alive \ {tapp}
    BY <1>10 DEF TaskDelete, Wild
  <2>2. Dead' = Dead \cup {tapp} /\ tapp \notin Dead
    BY <1>1, <2>1 DEF Dead, TypeOK
  <2>3. IsFiniteSet(Dead \cup {tapp}) /\ Cardinality(Dead \cup {tapp}) = Cardinality(Dead) + 1
    BY <1>1, <2>2, FS_AddElement DEF Popped
  <2> QED
    BY <1>1, <2>1, <2>2, <2>3 DEF Popped
<1> QED
  BY <1>4, <1>5, <1>6, <1>7, <1>8, <1>9, <1>10, <1>1, Shapes

\* The task thread does not leave a task whose job runs.
LEMMA RunningStep ==
  ASSUME TypeInv, TasksNext
  PROVE  Running'
<1> USE TasksAssumption DEF poolVars, taskVars, threadVars, prodVars, engineVars, noteVars,
      AllButThread, Goto, At, TaskAt, EngineAt
<1>1. TypeOK /\ Running
  BY DEF TypeInv
<1>2. CASE Strays
  BY <1>1, <1>2 DEF Strays, Wild, Running
<1>3. ASSUME NEW p \in Producers, Produces(p) PROVE Running'
  <2>1. UNCHANGED <<threadVars, phase, owner, epc, wakes>>
        \/ (tpc = "asleepPool" /\ tpc' = "front" /\ UNCHANGED <<tapp, phase, owner, epc, wakes>>)
    BY <1>3 DEF Produces, Creation, Create, Intent, WillStop, PushLoad, PushStore, PushSignal, StopScan
  <2> QED
    BY <1>1, <2>1 DEF Running
<1>4. CASE Moves
  <2>1. CASE TaskTest \/ PoolWait \/ TaskFail \/ TaskWait
    BY <1>1, <2>1 DEF TaskTest, PoolWait, TaskFail, TaskWait, Running
  <2>2. CASE PoolWake \/ TaskWake
    <3>1. wakes' # 0
      BY <1>1, <2>2 DEF PoolWake, TaskWake, TypeOK
    <3> QED
      BY <1>1, <2>2, <3>1 DEF PoolWake, TaskWake, Running
  <2> QED
    BY <1>4, <2>1, <2>2 DEF Moves
<1>5. CASE TaskRelease \/ TaskBegin \/ TaskPop
  BY <1>1, <1>5 DEF TaskRelease, TaskBegin, TaskPop, Running
<1>6. CASE (TaskFront \/ TaskDelete) /\ UNCHANGED wild
  BY <1>1, <1>6 DEF TaskFront, TaskDelete, Wild, Running
<1>7. CASE EngineEnd \/ EngineEndAgain \/ SignalEnd
  BY <1>1, <1>7 DEF EngineEnd, EngineEndAgain, SignalEnd, Running
<1>8. CASE ReportEnd /\ UNCHANGED wild
  BY <1>1, <1>8 DEF ReportEnd, Wild, Running
<1> QED
  BY <1>1, <1>2, <1>3, <1>4, <1>5, <1>6, <1>7, <1>8, Shapes

\* A step that changes nothing changes none of the parts.
LEMMA StutterIInv ==
  ASSUME UNCHANGED vars
  PROVE  /\ TypeInv => TypeInv'
         /\ Fifo /\ Users /\ Events /\ Stops => (Fifo /\ Users /\ Events /\ Stops)'
<1> USE DEF vars, poolVars, taskVars, threadVars, prodVars, engineVars, noteVars
<1>1. TypeInv => TypeInv'
  BY DEF TypeInv, TypeOK, Holding, Room, Need, Pushing, Popped, Dead, Running
<1>2. Fifo => Fifo'
  BY DEF Fifo, Pool, Pushing
<1>3. Users => Users'
  BY DEF Users, Pool, Pushing
<1>4. Events /\ Stops => (Events /\ Stops)'
  BY DEF Events, Stops, InHand
<1> QED
  BY <1>1, <1>2, <1>3, <1>4

\* The types, with what keeps the indices of the pool within it, in every state.
THEOREM TypeInvariance == TasksSpec => []TypeInv
<1>1. TypeInv /\ [TasksNext]_vars => TypeInv'
  BY TypeOKStep, HoldingStep, RoomStep, PoppedStep, RunningStep, StutterIInv DEF TypeInv
<1> QED
  BY <1>1, TypeInit, PTL DEF TasksSpec

\* The type invariant of ScanTasks.
THEOREM TasksTypeCorrect == TasksSpec => []TypeOK
<1>1. TypeInv => TypeOK
  BY DEF TypeInv
<1> QED
  BY <1>1, TypeInvariance, PTL

\* The task of a job that runs is there, and so is the one that gets its events.
THEOREM NoScanWithoutTask == TasksSpec => []TaskOutlivesScan
<1>1. TypeInv => TaskOutlivesScan
  BY DEF TypeInv, Holding, HasTask, Running, TaskOutlivesScan
<1> QED
  BY <1>1, TypeInvariance, PTL

-----------------------------------------------------------------------------
(* The pool in order.                                                      *)

\* What an element of the pool is made of.
LEMMA PoolFacts ==
  ASSUME TypeOK
  PROVE  /\ Pool \subseteq Cells
         /\ start \in Nat /\ finish \in Nat /\ Cells \subseteq Nat
         /\ \A i : i \in Pool <=> i \in Nat /\ start <= i /\ i < finish
         /\ NoTask \notin alive /\ alive \subseteq Tasks /\ created + 1 \notin alive
         /\ \A i \in Cells : cell[i] \in Tasks \cup {NoTask}
  BY TasksAssumption DEF TypeOK, Pool, Cells, NoTask, Tasks

\* Without a torn push, pool, pushes and task thread stay apart and in order.
LEMMA FifoStep ==
  ASSUME TypeInv, TypeInv', Fifo, TasksNext
  PROVE  Fifo'
<1> USE TasksAssumption DEF poolVars, taskVars, threadVars, prodVars, engineVars, noteVars,
      AllButThread, Goto, At, TaskAt, EngineAt, HasTask
<1>1. TypeOK /\ TypeOK'
  BY DEF TypeInv
<1>2. ASSUME NEW p \in Producers, Produces(p) PROVE Fifo'
  <2>1. ASSUME NEW k \in Kinds, Creation(p, k) PROVE Fifo'
    <3>1. /\ ppc' = [ppc EXCEPT ![p] = "load"] /\ ptask' = [ptask EXCEPT ![p] = created + 1]
          /\ alive' = alive \cup {created + 1} /\ ppc[p] = "idle"
          /\ UNCHANGED <<poolVars, threadVars, torn>>
      BY <2>1 DEF Creation, Create
    <3>2. /\ ppc'[p] = "load" /\ ptask'[p] = created + 1
          /\ \A q \in Producers \ {p} : ppc'[q] = ppc[q] /\ ptask'[q] = ptask[q]
      BY <1>1, <3>1 DEF TypeOK
    <3>3. created + 1 # NoTask /\ created + 1 \notin alive
      BY <1>1 DEF TypeOK, NoTask
    <3>4. tpc \in HasTask => tapp \in alive
      BY DEF TypeInv, Holding
    <3> QED
      BY <3>1, <3>2, <3>3, <3>4 DEF Fifo, Pool, Pushing
  <2>2. ASSUME NEW t \in Tasks, Intent(p, t) PROVE Fifo'
    <3>1. /\ ppc' = [ppc EXCEPT ![p] = "stop"] /\ ptask' = [ptask EXCEPT ![p] = t]
          /\ UNCHANGED <<poolVars, alive, threadVars, torn>>
      BY <2>2 DEF Intent, WillStop
    <3>2. /\ ppc'[p] = "stop"
          /\ \A q \in Producers \ {p} : ppc'[q] = ppc[q] /\ ptask'[q] = ptask[q]
      BY <1>1, <3>1 DEF TypeOK
    <3> QED
      BY <3>1, <3>2 DEF Fifo, Pool, Pushing
  <2>3. CASE PushLoad(p)
    <3>1. ppc' = [ppc EXCEPT ![p] = "store"] /\ ppc[p] = "load"
          /\ UNCHANGED <<poolVars, alive, threadVars, ptask, torn>>
      BY <2>3 DEF PushLoad
    <3>2. ppc'[p] = "store" /\ \A q \in Producers \ {p} : ppc'[q] = ppc[q]
      BY <1>1, <3>1 DEF TypeOK
    <3> QED
      BY <3>1, <3>2 DEF Fifo, Pool, Pushing
  <2>4. CASE PushStore(p)
    <3> SUFFICES ASSUME ~ torn' PROVE Fifo'
      BY DEF Fifo
    <3>1. /\ ppc' = [ppc EXCEPT ![p] = "signal"] /\ ppc[p] = "store"
          /\ pat[p] = finish /\ finish' = finish + 1 /\ ~ torn
          /\ cell' = [cell EXCEPT ![finish] = ptask[p]]
          /\ UNCHANGED <<start, alive, threadVars, ptask>>
      BY <2>4 DEF PushStore
    <3>2. ppc'[p] = "signal" /\ \A q \in Producers \ {p} : ppc'[q] = ppc[q]
      BY <1>1, <3>1 DEF TypeOK
    <3>3. cell'[finish] = ptask[p] /\ \A i \in Cells \ {finish} : cell'[i] = cell[i]
      BY <1>1, <3>1 DEF TypeOK
    <3>4. Pushing(p) /\ ptask[p] \in alive /\ ptask[p] # NoTask /\ \A i \in Pool : cell[i] # ptask[p]
      BY <3>1 DEF Pushing, Fifo
    <3>5. start <= finish /\ Pool' = Pool \cup {finish} /\ finish \notin Pool /\ finish \in Nat /\ start \in Nat
          /\ Pool \subseteq Cells
      BY <1>1, <3>1 DEF Pool, TypeOK, Cells, Fifo
    <3>6. \A q \in Producers : Pushing(q)' => q # p /\ Pushing(q)
      BY <3>2 DEF Pushing
    <3>7. \A i \in finish' .. MaxTasks + 1 : cell'[i] = NoTask
      BY <1>1, <3>1, <3>3, <3>5 DEF Fifo, Cells
    <3>8. \A i \in Pool' : cell'[i] \in alive'
      BY <3>1, <3>3, <3>4, <3>5 DEF Fifo
    <3>9. \A i, j \in Pool' : cell'[i] = cell'[j] => i = j
      BY <3>1, <3>3, <3>4, <3>5 DEF Fifo
    <3>10. \A q \in Producers : Pushing(q)' => ptask[q] \in alive /\ ptask[q] # NoTask
             /\ \A i \in Pool' : cell'[i] # ptask[q]
      BY <3>1, <3>3, <3>4, <3>5, <3>6 DEF Fifo
    <3>11. tpc \in HasTask \ {"delete"} => start < finish' /\ cell'[start] = tapp
      BY <3>1, <3>3, <3>5 DEF Fifo, Pool
    <3>12. tpc = "delete" => \A i \in Pool' : cell'[i] # tapp
      BY <3>1, <3>3, <3>4, <3>5 DEF Fifo
    <3> QED
      BY <3>1, <3>5, <3>6, <3>7, <3>8, <3>9, <3>10, <3>11, <3>12 DEF Fifo
  <2>5. CASE PushSignal(p) \/ StopScan(p)
    <3>1. /\ ppc' = [ppc EXCEPT ![p] = "idle"] /\ ptask' = [ptask EXCEPT ![p] = NoTask]
          /\ UNCHANGED <<poolVars, alive, tapp, torn>>
          /\ UNCHANGED tpc \/ (tpc = "asleepPool" /\ tpc' = "front")
      BY <2>5 DEF PushSignal, StopScan, Return
    <3>2. /\ ppc'[p] = "idle"
          /\ \A q \in Producers \ {p} : ppc'[q] = ppc[q] /\ ptask'[q] = ptask[q]
      BY <1>1, <3>1 DEF TypeOK
    <3> QED
      BY <3>1, <3>2 DEF Fifo, Pool, Pushing
  <2> QED
    BY <1>2, <2>1, <2>2, <2>3, <2>4, <2>5 DEF Produces
<1>3. CASE Strays
  BY <1>3 DEF Strays, Wild, Fifo, Pool, Pushing
<1>4. CASE Moves
  BY <1>4 DEF Moves, TaskTest, PoolWait, PoolWake, TaskFail, TaskWait, TaskWake, Fifo, Pool, Pushing
<1>5. CASE TaskRelease \/ TaskBegin \/ EngineEnd \/ EngineEndAgain \/ SignalEnd
  BY <1>5 DEF TaskRelease, TaskBegin, EngineEnd, EngineEndAgain, SignalEnd, Fifo, Pool, Pushing
<1>6. CASE ReportEnd /\ UNCHANGED wild
  BY <1>6 DEF ReportEnd, Wild, Fifo, Pool, Pushing
<1>7. CASE TaskFront /\ UNCHANGED wild
  <2> SUFFICES ASSUME ~ torn PROVE Fifo'
    BY <1>7 DEF TaskFront, Wild, Fifo
  <2>1. /\ Front \in alive /\ tapp' = Front /\ tpc' = "start"
        /\ UNCHANGED <<poolVars, alive, ppc, ptask, torn>>
    BY <1>7 DEF TaskFront, Wild
  <2>2. start < finish
    BY <1>1, <2>1, PoolFacts DEF Fifo, Front, Cells, TypeOK
  <2>3. start \in Pool
    BY <1>1, <2>2, PoolFacts
  <2> QED
    BY <2>1, <2>2, <2>3 DEF Fifo, Pool, Pushing, Front
<1>8. CASE TaskPop
  <2> SUFFICES ASSUME ~ torn PROVE Fifo'
    BY <1>8 DEF TaskPop, Fifo
  <2>1. /\ tpc = "pop" /\ tpc' = "delete" /\ start' = start + 1
        /\ UNCHANGED <<cell, finish, alive, tapp, ppc, ptask, torn>>
    BY <1>8 DEF TaskPop
  <2>2. start < finish /\ cell[start] = tapp /\ start \in Pool /\ Pool' = Pool \ {start} /\ start + 1 <= finish
    BY <1>1, <2>1, PoolFacts DEF Fifo, Pool
  <2> QED
    BY <2>1, <2>2 DEF Fifo, Pushing
<1>9. CASE TaskDelete /\ UNCHANGED wild
  <2> SUFFICES ASSUME ~ torn PROVE Fifo'
    BY <1>9 DEF TaskDelete, Wild, Fifo
  <2>1. /\ tpc = "delete" /\ tpc' = "test" /\ alive' = alive \ {tapp}
        /\ UNCHANGED <<poolVars, ppc, ptask, torn>>
    BY <1>9 DEF TaskDelete, Wild
  <2> QED
    BY <2>1 DEF Fifo, Pool, Pushing
<1> QED
  BY <1>1, <1>2, <1>3, <1>4, <1>5, <1>6, <1>7, <1>8, <1>9, Shapes

\* The class of a task in the pool or on its way there does not change.
LEMMA UsersStep ==
  ASSUME TypeInv, TypeInv', Fifo, Users, TasksNext
  PROVE  Users'
<1> USE TasksAssumption DEF poolVars, taskVars, threadVars, prodVars, engineVars, noteVars,
      AllButThread, Goto, At, TaskAt, EngineAt
<1>1. TypeOK /\ TypeOK'
  BY DEF TypeInv
<1>2. ASSUME UNCHANGED <<poolVars, kind, ppc, ptask, torn>> PROVE Users'
  BY <1>2 DEF Users, Pool, Pushing
<1>3. ASSUME NEW p \in Producers, Produces(p) PROVE Users'
  <2>1. ASSUME NEW k \in Kinds, Creation(p, k) PROVE Users'
    <3> SUFFICES ASSUME ~ torn PROVE Users'
      BY <2>1 DEF Creation, Create, Users
    <3>1. /\ ppc' = [ppc EXCEPT ![p] = "load"] /\ ptask' = [ptask EXCEPT ![p] = created + 1]
          /\ kind' = [kind EXCEPT ![created + 1] = k] /\ created + 1 \in Tasks
          /\ k = "user" => PoolEmpty
          /\ p = "usb" <=> k = "plugin"
          /\ UNCHANGED <<poolVars, torn>>
      BY <1>1, <2>1 DEF Creation, Create, TypeOK, Tasks
    <3>2. /\ ppc'[p] = "load" /\ ptask'[p] = created + 1
          /\ \A q \in Producers \ {p} : ppc'[q] = ppc[q] /\ ptask'[q] = ptask[q]
      BY <1>1, <3>1 DEF TypeOK
    <3>3. /\ kind'[created + 1] = k
          /\ \A t \in alive : kind'[t] = kind[t]
      BY <1>1, <3>1, PoolFacts DEF TypeOK
    <3>4. \A i \in Pool : kind'[cell[i]] = kind[cell[i]]
      BY <3>3 DEF Fifo
    <3>5. \A q \in Producers : Pushing(q) => kind'[ptask[q]] = kind[ptask[q]]
      BY <3>3 DEF Fifo
    <3>6. \A i, j \in Pool' : kind'[cell'[i]] = "user" /\ kind'[cell'[j]] = "user" => i = j
      BY <3>1, <3>4 DEF Users, Pool
    <3>7. ASSUME Pushing("command")', kind'[ptask'["command"]] = "user"
          PROVE  \A i \in Pool' : kind'[cell'[i]] # "user"
      <4>1. CASE p = "command"
        <5>1. Pool' = {}
          BY <1>1, <3>1, <3>2, <3>3, <3>7, <4>1 DEF PoolEmpty, Pool, TypeOK, Cells
        <5> QED
          BY <5>1
      <4>2. CASE p # "command"
        BY <3>1, <3>2, <3>4, <3>5, <3>7, <4>2 DEF Users, Pool, Pushing
      <4> QED
        BY <4>1, <4>2
    <3>8. Pushing("usb")' => kind'[ptask'["usb"]] = "plugin"
      BY <3>1, <3>2, <3>3, <3>5 DEF Users, Pushing
    <3> QED
      BY <3>6, <3>7, <3>8 DEF Users
  <2>2. ASSUME NEW t \in Tasks, Intent(p, t) PROVE Users'
    <3>1. /\ ppc' = [ppc EXCEPT ![p] = "stop"] /\ ptask' = [ptask EXCEPT ![p] = t]
          /\ UNCHANGED <<poolVars, kind, torn>>
      BY <2>2 DEF Intent, WillStop
    <3>2. /\ ppc'[p] = "stop"
          /\ \A q \in Producers \ {p} : ppc'[q] = ppc[q] /\ ptask'[q] = ptask[q]
      BY <1>1, <3>1 DEF TypeOK
    <3> QED
      BY <3>1, <3>2 DEF Users, Pool, Pushing
  <2>3. CASE PushLoad(p)
    <3>1. ppc' = [ppc EXCEPT ![p] = "store"] /\ ppc[p] = "load"
          /\ UNCHANGED <<poolVars, kind, ptask, torn>>
      BY <2>3 DEF PushLoad
    <3>2. ppc'[p] = "store" /\ \A q \in Producers \ {p} : ppc'[q] = ppc[q]
      BY <1>1, <3>1 DEF TypeOK
    <3> QED
      BY <3>1, <3>2 DEF Users, Pool, Pushing
  <2>4. CASE PushStore(p)
    <3> SUFFICES ASSUME ~ torn' PROVE Users'
      BY DEF Users
    <3>1. /\ ppc' = [ppc EXCEPT ![p] = "signal"] /\ ppc[p] = "store"
          /\ pat[p] = finish /\ finish' = finish + 1 /\ ~ torn
          /\ cell' = [cell EXCEPT ![finish] = ptask[p]]
          /\ UNCHANGED <<start, kind, ptask>>
      BY <2>4 DEF PushStore
    <3>2. ppc'[p] = "signal" /\ \A q \in Producers \ {p} : ppc'[q] = ppc[q]
      BY <1>1, <3>1 DEF TypeOK
    <3>3. cell'[finish] = ptask[p] /\ \A i \in Pool : cell'[i] = cell[i]
      BY <1>1, <3>1, PoolFacts DEF TypeOK
    <3>4. Pool' = Pool \cup {finish} /\ finish \notin Pool
      BY <1>1, <3>1 DEF Pool, TypeOK, Cells, Fifo
    <3>5. Pushing(p) /\ \A q \in Producers : Pushing(q)' => q # p /\ Pushing(q)
      BY <3>1, <3>2 DEF Pushing
    <3>6. p \in {"command", "usb"}
      OBVIOUS
    <3>7. CASE p = "command"
      <4>1. ~ Pushing("command")'
        BY <3>5, <3>7
      <4>2. \A i, j \in Pool' : kind[cell'[i]] = "user" /\ kind[cell'[j]] = "user" => i = j
        BY <3>1, <3>3, <3>4, <3>5, <3>7 DEF Users
      <4>3. Pushing("usb")' => kind[ptask["usb"]] = "plugin"
        BY <3>1, <3>5 DEF Users, Pushing
      <4> QED
        BY <3>1, <4>1, <4>2, <4>3 DEF Users
    <3>8. CASE p = "usb"
      <4>1. kind[ptask[p]] = "plugin" /\ ~ Pushing("usb")'
        BY <3>1, <3>5, <3>8 DEF Users
      <4>2. \A i, j \in Pool' : kind[cell'[i]] = "user" /\ kind[cell'[j]] = "user" => i = j
        BY <3>1, <3>3, <3>4, <4>1 DEF Users
      <4>3. Pushing("command")' /\ kind[ptask["command"]] = "user" => \A i \in Pool' : kind[cell'[i]] # "user"
        BY <3>1, <3>3, <3>4, <3>5, <4>1 DEF Users, Pushing
      <4> QED
        BY <3>1, <4>1, <4>2, <4>3 DEF Users
    <3> QED
      BY <3>6, <3>7, <3>8
  <2>5. CASE PushSignal(p) \/ StopScan(p)
    <3>1. /\ ppc' = [ppc EXCEPT ![p] = "idle"] /\ ptask' = [ptask EXCEPT ![p] = NoTask]
          /\ UNCHANGED <<poolVars, kind, torn>>
      BY <2>5 DEF PushSignal, StopScan, Return
    <3>2. /\ ppc'[p] = "idle"
          /\ \A q \in Producers \ {p} : ppc'[q] = ppc[q] /\ ptask'[q] = ptask[q]
      BY <1>1, <3>1 DEF TypeOK
    <3> QED
      BY <3>1, <3>2 DEF Users, Pool, Pushing
  <2> QED
    BY <1>3, <2>1, <2>2, <2>3, <2>4, <2>5 DEF Produces
<1>4. CASE Strays \/ TaskRelease \/ TaskBegin \/ EngineEnd \/ EngineEndAgain \/ SignalEnd
  BY <1>2, <1>4 DEF Strays, Wild, TaskRelease, TaskBegin, EngineEnd, EngineEndAgain, SignalEnd
<1>5. CASE Moves
  BY <1>2, <1>5 DEF Moves, TaskTest, PoolWait, PoolWake, TaskFail, TaskWait, TaskWake
<1>6. CASE (TaskFront \/ ReportEnd) /\ UNCHANGED wild
  BY <1>2, <1>6 DEF TaskFront, ReportEnd, Wild
<1>7. CASE TaskPop
  <2>1. start' = start + 1 /\ UNCHANGED <<cell, finish, kind, ppc, ptask, torn>>
    BY <1>7 DEF TaskPop
  <2>2. Pool' \subseteq Pool
    BY <1>1, <2>1 DEF Pool, TypeOK, Cells
  <2> QED
    BY <2>1, <2>2 DEF Users, Pushing
<1>8. CASE TaskDelete /\ UNCHANGED wild
  <2> SUFFICES ASSUME ~ torn PROVE Users'
    BY <1>8 DEF TaskDelete, Wild, Users
  <2>1. /\ tpc = "delete" /\ kind' = [kind EXCEPT ![tapp] = "none"] /\ tapp \in Tasks
        /\ UNCHANGED <<poolVars, ppc, ptask, torn>>
    BY <1>1, <1>8, PoolFacts DEF TaskDelete, Wild
  <2>2. \A t \in alive \ {tapp} : kind'[t] = kind[t]
    BY <1>1, <2>1, PoolFacts DEF TypeOK
  <2>3. \A i \in Pool : kind'[cell[i]] = kind[cell[i]]
    BY <2>1, <2>2 DEF Fifo
  <2>4. \A q \in Producers : Pushing(q) => kind'[ptask[q]] = kind[ptask[q]]
    BY <2>1, <2>2 DEF Fifo, HasTask
  <2> QED
    BY <2>1, <2>3, <2>4 DEF Users, Pool, Pushing
<1> QED
  BY <1>1, <1>3, <1>4, <1>5, <1>6, <1>7, <1>8, Shapes

\* Only the task thread, a schedule and a removed device change whose events come.
LEMMA EventsStep ==
  ASSUME TypeInv, TypeInv', Fifo, Events, TasksNext
  PROVE  Events'
<1> USE TasksAssumption DEF poolVars, taskVars, threadVars, prodVars, engineVars, noteVars,
      AllButThread, Goto, At, TaskAt, EngineAt, HasTask
<1>1. TypeOK /\ Holding
  BY DEF TypeInv
<1>2. ASSUME NEW p \in Producers, Produces(p) PROVE Events'
  <2>1. ASSUME NEW k \in Kinds, Creation(p, k) PROVE Events'
    <3>1. /\ kind' = [kind EXCEPT ![created + 1] = k] /\ created + 1 \in Tasks
          /\ UNCHANGED <<threadVars, torn>>
          /\ UNCHANGED mApplication \/ (k = "schedule" /\ mApplication' = created + 1)
      BY <1>1, <2>1 DEF Creation, Create, TypeOK, Tasks
    <3>2. kind'[created + 1] = k /\ \A t \in alive : kind'[t] = kind[t]
      BY <1>1, <3>1, PoolFacts DEF TypeOK
    <3>3. created + 1 \notin alive
      BY <1>1, PoolFacts
    <3> QED
      BY <1>1, <3>1, <3>2, <3>3 DEF Events, Holding
  <2>2. ASSUME NEW t \in Tasks, Intent(p, t) PROVE Events'
    BY <2>2 DEF Intent, WillStop, Events, Fifo, Front
  <2>3. CASE PushLoad(p) \/ PushStore(p)
    BY <2>3 DEF PushLoad, PushStore, Events
  <2>4. CASE PushSignal(p) \/ StopScan(p)
    BY <2>4 DEF PushSignal, StopScan, Events
  <2> QED
    BY <1>2, <2>1, <2>2, <2>3, <2>4 DEF Produces
<1>3. CASE Strays
  BY <1>3 DEF Strays, Wild, Events
<1>4. CASE Moves
  BY <1>4 DEF Moves, TaskTest, PoolWait, PoolWake, TaskFail, TaskWait, TaskWake, Events
<1>5. CASE TaskRelease \/ TaskBegin \/ TaskPop
  BY <1>5 DEF TaskRelease, TaskBegin, TaskPop, Events
<1>6. CASE (TaskFront \/ TaskDelete) /\ UNCHANGED wild
  BY <1>6 DEF TaskFront, TaskDelete, Wild, Events
<1>7. CASE EngineEnd \/ EngineEndAgain \/ SignalEnd
  BY <1>7 DEF EngineEnd, EngineEndAgain, SignalEnd, Events
<1>8. CASE ReportEnd /\ UNCHANGED wild
  BY <1>8 DEF ReportEnd, Wild, Events
<1> QED
  BY <1>1, <1>2, <1>3, <1>4, <1>5, <1>6, <1>7, <1>8, Shapes

\* A task for which the engine will be stopped does not lose the front of the
\* pool to another before it is deleted.
LEMMA StopsStep ==
  ASSUME TypeInv, TypeInv', Fifo, Fifo', Stops, TasksNext
  PROVE  Stops'
<1> SUFFICES ASSUME wakes' = 0, ~ torn' PROVE Stops'
  BY DEF Stops
<1> USE TasksAssumption DEF poolVars, taskVars, threadVars, prodVars, engineVars, noteVars,
      AllButThread, Goto, At, TaskAt, EngineAt
<1>1. TypeOK /\ TypeOK' /\ Holding /\ Running
  BY DEF TypeInv
<1>2. ASSUME UNCHANGED <<wakes, torn, haltedFor, created, alive, kind, owner, ppc, ptask, start, finish, cell,
                         mApplication>>,
             tpc # "delete" \/ UNCHANGED <<tpc, tapp>>
      PROVE  Stops'
  BY <1>2 DEF Stops, InHand
<1>3. ASSUME NEW p \in Producers, Produces(p) PROVE Stops'
  <2>1. ASSUME NEW k \in Kinds, Creation(p, k) PROVE Stops'
    <3>1. /\ ppc' = [ppc EXCEPT ![p] = "load"] /\ ptask' = [ptask EXCEPT ![p] = created + 1]
          /\ kind' = [kind EXCEPT ![created + 1] = k] /\ created + 1 \in Tasks
          /\ created' = created + 1 /\ alive' = alive \cup {created + 1}
          /\ UNCHANGED <<poolVars, threadVars, wakes, torn, haltedFor, owner>>
          /\ UNCHANGED mApplication \/ (k = "schedule" /\ mApplication' = created + 1)
      BY <1>1, <2>1 DEF Creation, Create, TypeOK, Tasks
    <3>2. /\ ppc'[p] = "load"
          /\ \A q \in Producers \ {p} : ppc'[q] = ppc[q] /\ ptask'[q] = ptask[q]
      BY <1>1, <3>1 DEF TypeOK
    <3>3. kind'[created + 1] = k /\ \A t \in Tasks \ {created + 1} : kind'[t] = kind[t]
      BY <1>1, <3>1 DEF TypeOK
    <3>4. 1 .. created \subseteq 1 .. created + 1 /\ created + 1 \notin 1 .. created
      BY <1>1 DEF TypeOK
    <3>5. haltedFor' \subseteq 1 .. created' /\ haltedFor' \cap alive' \subseteq {owner'}
      BY <3>1, <3>4 DEF Stops
    <3>6. \A q \in Producers : ppc'[q] = "stop" =>
            ptask'[q] \in 1 .. created' /\ (ptask'[q] \in alive' => InHand(ptask[q])')
      BY <3>1, <3>2, <3>4 DEF Stops, InHand
    <3>7. mApplication' \in alive' /\ kind'[mApplication'] \in RemoteCommand => InHand(mApplication)'
      <4>1. CASE UNCHANGED mApplication
        <5>1. mApplication # created + 1
          BY <1>1 DEF Holding, TypeOK
        <5>2. mApplication \in alive' => mApplication \in alive /\ kind'[mApplication] = kind[mApplication]
          BY <1>1, <3>1, <3>3, <5>1, PoolFacts
        <5> QED
          BY <3>1, <4>1, <5>2 DEF Stops, InHand
      <4>2. CASE k = "schedule" /\ mApplication' = created + 1
        BY <3>3, <4>2 DEF RemoteCommand
      <4> QED
        BY <3>1, <4>1, <4>2
    <3> QED
      BY <3>5, <3>6, <3>7 DEF Stops
  <2>2. ASSUME NEW t \in Tasks, Intent(p, t) PROVE Stops'
    <3>1. /\ ppc' = [ppc EXCEPT ![p] = "stop"] /\ ptask' = [ptask EXCEPT ![p] = t] /\ t \in alive
          /\ UNCHANGED <<poolVars, taskVars, threadVars, wakes, torn, haltedFor, owner>>
          /\ \/ t = Front /\ UNCHANGED mApplication
             \/ t = mApplication /\ kind[t] \in RemoteCommand /\ UNCHANGED mApplication
             \/ t = Front /\ kind[t] = "plugin" /\ mApplication' = t
      BY <2>2 DEF Intent, WillStop
    <3>2. /\ ptask'[p] = t
          /\ \A q \in Producers \ {p} : ppc'[q] = ppc[q] /\ ptask'[q] = ptask[q]
      BY <1>1, <3>1 DEF TypeOK
    <3>3. t = Front => start < finish
      BY <1>1, <3>1, PoolFacts DEF Fifo, Front, Cells, TypeOK
    <3>4. InHand(t)
      BY <3>1, <3>3 DEF Stops, InHand, Front
    <3>5. t \in 1 .. created
      BY <1>1, <3>1 DEF TypeOK
    <3> QED
      BY <3>1, <3>2, <3>4, <3>5 DEF Stops, InHand
  <2>3. CASE PushLoad(p)
    <3>1. ppc' = [ppc EXCEPT ![p] = "store"]
          /\ UNCHANGED <<poolVars, taskVars, threadVars, wakes, torn, haltedFor, owner, ptask, mApplication>>
      BY <2>3 DEF PushLoad
    <3>2. ppc'[p] = "store" /\ \A q \in Producers \ {p} : ppc'[q] = ppc[q]
      BY <1>1, <3>1 DEF TypeOK
    <3> QED
      BY <3>1, <3>2 DEF Stops, InHand
  <2>4. CASE PushStore(p)
    <3>1. /\ ppc' = [ppc EXCEPT ![p] = "signal"] /\ pat[p] = finish /\ finish' = finish + 1 /\ ~ torn
          /\ cell' = [cell EXCEPT ![finish] = ptask[p]]
          /\ UNCHANGED <<start, taskVars, threadVars, wakes, haltedFor, owner, ptask, mApplication>>
      BY <2>4 DEF PushStore
    <3>2. ppc'[p] = "signal" /\ \A q \in Producers \ {p} : ppc'[q] = ppc[q]
      BY <1>1, <3>1 DEF TypeOK
    <3>3. start < finish => start < finish' /\ cell'[start] = cell[start]
      BY <1>1, <3>1 DEF TypeOK, Cells
    <3>4. \A t : InHand(t) => (start < finish' /\ t = cell'[start]) \/ (tpc = "delete" /\ t = tapp)
      BY <3>3 DEF InHand
    <3> QED
      BY <3>1, <3>2, <3>4 DEF Stops, InHand
  <2>5. CASE PushSignal(p)
    <3>1. /\ ppc' = [ppc EXCEPT ![p] = "idle"] /\ ptask' = [ptask EXCEPT ![p] = NoTask]
          /\ UNCHANGED <<poolVars, taskVars, tapp, wakes, torn, haltedFor, owner, mApplication>>
          /\ UNCHANGED tpc \/ tpc = "asleepPool"
      BY <2>5 DEF PushSignal, Return
    <3>2. /\ ppc'[p] = "idle"
          /\ \A q \in Producers \ {p} : ppc'[q] = ppc[q] /\ ptask'[q] = ptask[q]
      BY <1>1, <3>1 DEF TypeOK
    <3> QED
      BY <3>1, <3>2 DEF Stops, InHand
  <2>6. CASE StopScan(p)
    <3>1. /\ ppc' = [ppc EXCEPT ![p] = "idle"] /\ ptask' = [ptask EXCEPT ![p] = NoTask] /\ ppc[p] = "stop"
          /\ haltedFor' = IF phase = "running" THEN haltedFor \cup {ptask[p]} ELSE haltedFor
          /\ UNCHANGED <<poolVars, taskVars, threadVars, wakes, torn, owner, mApplication>>
      BY <2>6 DEF StopScan, Return
    <3>2. /\ ppc'[p] = "idle"
          /\ \A q \in Producers \ {p} : ppc'[q] = ppc[q] /\ ptask'[q] = ptask[q]
      BY <1>1, <3>1 DEF TypeOK
    <3>3. phase = "running" /\ ptask[p] \in alive => ptask[p] = owner
      <4> SUFFICES ASSUME phase = "running", ptask[p] \in alive PROVE ptask[p] = owner
        OBVIOUS
      <4>1. tpc \in {"began", "asleepTask"} /\ tapp = owner
        BY <1>1, <3>1 DEF Running
      <4>2. cell[start] = tapp
        BY <3>1, <4>1 DEF Fifo, HasTask
      <4> QED
        BY <3>1, <4>1, <4>2 DEF Stops, InHand
    <3>4. ptask[p] \in 1 .. created
      BY <3>1 DEF Stops
    <3> QED
      BY <3>1, <3>2, <3>3, <3>4 DEF Stops, InHand
  <2> QED
    BY <1>3, <2>1, <2>2, <2>3, <2>4, <2>5, <2>6 DEF Produces
<1>4. CASE Strays
  BY <1>2, <1>4 DEF Strays, Wild
<1>5. CASE Moves
  <2>1. ~ (PoolWake \/ TaskWake)
    BY <1>1 DEF PoolWake, TaskWake, TypeOK
  <2> QED
    BY <1>2, <1>5, <2>1 DEF Moves, TaskTest, PoolWait, TaskFail, TaskWait
<1>6. CASE EngineEnd \/ EngineEndAgain \/ SignalEnd
  BY <1>2, <1>6 DEF EngineEnd, EngineEndAgain, SignalEnd
<1>7. CASE ReportEnd /\ UNCHANGED wild
  BY <1>2, <1>7 DEF ReportEnd, Wild
<1>8. CASE TaskRelease
  BY <1>1, <1>8 DEF TaskRelease, Running
<1>9. CASE TaskBegin
  BY <1>9 DEF TaskBegin, Stops, InHand
<1>10. CASE TaskFront /\ UNCHANGED wild
  <2>1. /\ Front \in alive /\ tpc = "front" /\ mApplication' = Front
        /\ UNCHANGED <<poolVars, taskVars, ppc, ptask, haltedFor, owner, wakes, torn>>
    BY <1>10 DEF TaskFront, Wild
  <2>2. start < finish
    BY <1>1, <2>1, PoolFacts DEF Fifo, Front, Cells, TypeOK
  <2> QED
    BY <2>1, <2>2 DEF Stops, InHand, Front
<1>11. CASE TaskPop
  <2>1. /\ tpc = "pop" /\ tpc' = "delete"
        /\ UNCHANGED <<cell, finish, taskVars, tapp, mApplication, ppc, ptask, haltedFor, owner, wakes, torn>>
    BY <1>11 DEF TaskPop
  <2>2. cell[start] = tapp
    BY <2>1 DEF Fifo, HasTask
  <2> QED
    BY <2>1, <2>2 DEF Stops, InHand
<1>12. CASE TaskDelete /\ UNCHANGED wild
  <2>1. /\ tpc = "delete" /\ alive' = alive \ {tapp} /\ kind' = [kind EXCEPT ![tapp] = "none"]
        /\ UNCHANGED <<poolVars, created, mApplication, ppc, ptask, haltedFor, owner, wakes, torn>>
    BY <1>12 DEF TaskDelete, Wild
  <2>2. \A t \in alive' : kind'[t] = kind[t]
    BY <1>1, <2>1, PoolFacts DEF TypeOK
  <2> QED
    BY <2>1, <2>2 DEF Stops, InHand
<1> QED
  BY <1>1, <1>3, <1>4, <1>5, <1>6, <1>7, <1>8, <1>9, <1>10, <1>11, <1>12, Shapes

\* An empty pool is in order, and nobody stops anything.
LEMMA OrderInit == TasksInit => Fifo /\ Users /\ Events /\ Stops
<1> SUFFICES ASSUME TasksInit PROVE Fifo /\ Users /\ Events /\ Stops
  OBVIOUS
<1>1. Pool = {} /\ \A i \in Cells : cell[i] = NoTask
  BY DEF TasksInit, Pool
<1>2. \A p \in Producers : ~ Pushing(p)
  BY DEF TasksInit, Pushing
<1>3. Fifo
  BY <1>1, <1>2 DEF TasksInit, Fifo, HasTask, Cells
<1>4. Users
  BY <1>1, <1>2 DEF TasksInit, Users, Pushing
<1>5. Events /\ Stops
  BY DEF TasksInit, Events, Stops, HasTask
<1> QED
  BY <1>3, <1>4, <1>5

\* All parts of the invariant hold in every state.
THEOREM TasksInvariance == TasksSpec => []IInv
<1> DEFINE Order == Fifo /\ Users /\ Events /\ Stops
<1>1. TasksInit => Order
  BY OrderInit
<1>2. TypeInv /\ TypeInv' /\ Order /\ [TasksNext]_vars => Order'
  BY FifoStep, UsersStep, EventsStep, StopsStep, StutterIInv
<1>3. TypeInv /\ Order => IInv
  BY DEF IInv
<1> HIDE DEF Order
<1> QED
  BY <1>1, <1>2, <1>3, TypeInvariance, PTL DEF TasksSpec

\* Only the first task of the pool may have been begun, so that tasks run in the
\* order in which they were pushed.
THEOREM FrontOnly == TasksSpec => []FrontIsCurrent
<1>1. IInv => FrontIsCurrent
  BY DEF IInv, Fifo, HasTask, FrontIsCurrent, Front
<1> QED
  BY <1>1, TasksInvariance, PTL

\* There is never more than one user's scan in the pool.
THEOREM UserScansExclude == TasksSpec => []OneUserScan
<1>1. IInv => OneUserScan
  <2> SUFFICES ASSUME IInv, ~ torn
               PROVE  Cardinality({ i \in Pool : kind[cell[i]] = "user" }) <= 1
    BY DEF OneUserScan
  <2> DEFINE U == { i \in Pool : kind[cell[i]] = "user" }
  <2>1. \A i, j \in U : i = j
    BY DEF IInv, Users
  <2>2. U = {} \/ \E x : U = {x}
    BY <2>1
  <2>3. Cardinality(U) = 0 \/ Cardinality(U) = 1
    BY <2>2, FS_EmptySet, FS_Singleton
  <2> QED
    BY <2>3
<1> QED
  BY <1>1, TasksInvariance, PTL

\* A job's events go to its task or to a waiting scheduled scan.
THEOREM EventsComeHome == TasksSpec => []EventsOfOwner
<1>1. IInv => EventsOfOwner
  BY DEF IInv, TypeInv, Running, Events, HasTask, EventsOfOwner
<1> QED
  BY <1>1, TasksInvariance, PTL

\* The task of a running job is there, the first in the pool, gets the job's
\* events, and no user's scan waits behind another.
THEOREM TasksAreSafe == TasksSpec => []TasksSafety
<1>1. TypeOK /\ TaskOutlivesScan /\ EventsOfOwner /\ FrontIsCurrent /\ OneUserScan => TasksSafety
  BY DEF TasksSafety
<1> QED
  BY <1>1, TasksTypeCorrect, NoScanWithoutTask, EventsComeHome, FrontOnly, UserScansExclude, PTL

\* A stop meant for a task that still exists reaches no other task's job.
THEOREM StopsComeHome == TasksSpec => []StopHitsItsTask
<1>1. IInv => StopHitsItsTask
  BY DEF IInv, TypeInv, TypeOK, Stops, StopHitsItsTask
<1> QED
  BY <1>1, TasksInvariance, PTL

-----------------------------------------------------------------------------
(* The engine is used as ScanJob allows.                                   *)

\* What each step is for the job.
LEMMA JobStep ==
  ASSUME TypeInv, TasksNext
  PROVE  [SJ!Next]_(SJ!jobVars)
<1> USE DEF poolVars, taskVars, threadVars, prodVars, engineVars, noteVars,
      AllButThread, Goto, At, TaskAt, EngineAt
<1>1. TypeOK
  BY DEF TypeInv
<1>2. ASSUME UNCHANGED <<phase, haltedFor>> PROVE UNCHANGED SJ!jobVars
  BY <1>2 DEF SJ!jobVars
<1>3. ASSUME phase = "running", haltedFor' # {}, UNCHANGED phase PROVE SJ!Next
  BY <1>3 DEF SJ!Next, SJ!Halt
<1>4. ASSUME NEW p \in Producers, Produces(p) PROVE [SJ!Next]_(SJ!jobVars)
  <2>1. CASE StopScan(p)
    <3>1. UNCHANGED phase /\ (UNCHANGED haltedFor \/ (phase = "running" /\ haltedFor' # {}))
      BY <2>1 DEF StopScan
    <3> QED
      BY <1>2, <1>3, <3>1
  <2>2. CASE ~ StopScan(p)
    <3>1. UNCHANGED <<phase, haltedFor>>
      BY <1>4, <2>2 DEF Produces, Creation, Create, Intent, WillStop, PushLoad, PushStore, PushSignal
    <3> QED
      BY <1>2, <3>1
  <2> QED
    BY <2>1, <2>2
<1>5. CASE Strays \/ EngineEndAgain \/ SignalEnd \/ TaskPop
  BY <1>2, <1>5 DEF Strays, Wild, EngineEndAgain, SignalEnd, TaskPop
<1>6. CASE Moves
  BY <1>2, <1>6 DEF Moves, TaskTest, PoolWait, PoolWake, TaskFail, TaskWait, TaskWake
<1>7. CASE (TaskFront \/ TaskDelete \/ ReportEnd) /\ UNCHANGED wild
  BY <1>2, <1>7 DEF TaskFront, TaskDelete, ReportEnd, Wild
<1>8. CASE TaskRelease
  <2>1. phase = "running" /\ haltedFor' # {} /\ UNCHANGED phase
    BY <1>8 DEF TaskRelease
  <2> QED
    BY <1>3, <2>1
<1>9. CASE TaskBegin
  <2>1. phase \in {"idle", "ended"} /\ phase' = "running" /\ haltedFor' = {}
    BY <1>1, <1>9 DEF TaskBegin, TypeOK
  <2> QED
    BY <2>1 DEF SJ!Next, SJ!Begin
<1>10. CASE EngineEnd
  <2>1. phase = "running" /\ phase' = "ended" /\ UNCHANGED haltedFor
    BY <1>10 DEF EngineEnd
  <2> QED
    BY <2>1 DEF SJ!Next, SJ!End
<1> QED
  BY <1>1, <1>4, <1>5, <1>6, <1>7, <1>8, <1>9, <1>10, Shapes

\* The task thread and the stops use the engine as ScanJob promises it to work.
THEOREM TasksUseScanJob == TasksSpec => UsesScanJob
<1>1. TasksInit => SJ!Init
  BY DEF TasksInit, SJ!Init
<1>2. TypeInv /\ [TasksNext]_vars => [SJ!Next]_(SJ!jobVars)
  <2>1. UNCHANGED vars => UNCHANGED SJ!jobVars
    BY DEF vars, engineVars, SJ!jobVars
  <2> QED
    BY <2>1, JobStep
<1> QED
  BY <1>1, <1>2, TypeInvariance, PTL DEF TasksSpec, UsesScanJob, SJ!Spec

-----------------------------------------------------------------------------
(* Until a push undoes another, the pool is a queue.                       *)

\* Nothing mends a pool in which a push has undone another.
LEMMA TornStays ==
  ASSUME TypeOK, torn, TasksNext
  PROVE  torn'
<1> USE DEF poolVars, taskVars, threadVars, prodVars, engineVars, noteVars, AllButThread, Goto, At, TaskAt, EngineAt
<1>1. ASSUME NEW p \in Producers, Produces(p) PROVE torn'
  BY <1>1 DEF Produces, Creation, Create, Intent, WillStop, PushLoad, PushStore, PushSignal, StopScan
<1>2. CASE Strays \/ TaskRelease \/ TaskBegin \/ TaskPop \/ EngineEnd \/ EngineEndAgain \/ SignalEnd
  BY <1>2 DEF Strays, Wild, TaskRelease, TaskBegin, TaskPop, EngineEnd, EngineEndAgain, SignalEnd
<1>3. CASE Moves
  BY <1>3 DEF Moves, TaskTest, PoolWait, PoolWake, TaskFail, TaskWait, TaskWake
<1>4. CASE (TaskFront \/ TaskDelete \/ ReportEnd) /\ UNCHANGED wild
  BY <1>4 DEF TaskFront, TaskDelete, ReportEnd, Wild
<1> QED
  BY <1>1, <1>2, <1>3, <1>4, Shapes

\* A stretch of cells with one more at its end is the old one with an element
\* appended; without its first, the old one's tail.
LEMMA Stretch ==
  ASSUME NEW c, NEW a \in Nat \ {0}, NEW b \in Nat, a <= b + 1,
         \A i \in a .. b : c[i] \in Tasks
  PROVE  /\ SubSeq(c, a, b) \in Seq(Tasks)
         /\ Len(SubSeq(c, a, b)) = b - a + 1
         /\ \A i \in 1 .. b - a + 1 : SubSeq(c, a, b)[i] = c[a + i - 1]
<1>1. Len(SubSeq(c, a, b)) = IF a <= b THEN b - a + 1 ELSE 0
  BY SubSeqProperties
<1> QED
  BY <1>1, SubSeqProperties

\* See above.
LEMMA StretchGrows ==
  ASSUME NEW c, NEW d, NEW a \in Nat \ {0}, NEW b \in Nat, a <= b + 1,
         \A i \in a .. b : c[i] \in Tasks /\ d[i] = c[i],
         d[b + 1] \in Tasks
  PROVE  SubSeq(d, a, b + 1) = Append(SubSeq(c, a, b), d[b + 1])
<1> DEFINE s == SubSeq(c, a, b)
           t == SubSeq(d, a, b + 1)
<1>1. s \in Seq(Tasks) /\ Len(s) = b - a + 1 /\ \A i \in 1 .. b - a + 1 : s[i] = c[a + i - 1]
  BY Stretch
<1>2. \A i \in a .. b + 1 : d[i] \in Tasks
  OBVIOUS
<1>3. t \in Seq(Tasks) /\ Len(t) = b - a + 2 /\ \A i \in 1 .. b - a + 2 : t[i] = d[a + i - 1]
  BY <1>2, Stretch
<1>4. /\ Append(s, d[b + 1]) \in Seq(Tasks)
      /\ Len(Append(s, d[b + 1])) = b - a + 2
      /\ \A i \in 1 .. b - a + 1 : Append(s, d[b + 1])[i] = c[a + i - 1]
      /\ Append(s, d[b + 1])[b - a + 2] = d[b + 1]
  BY <1>1, AppendProperties
<1>5. ASSUME NEW i \in 1 .. b - a + 2 PROVE t[i] = Append(s, d[b + 1])[i]
  <2>1. CASE i = b - a + 2
    BY <1>3, <1>4, <2>1
  <2>2. CASE i # b - a + 2
    <3>1. i \in 1 .. b - a + 1 /\ a + i - 1 \in a .. b
      BY <2>2
    <3> QED
      BY <1>3, <1>4, <3>1
  <2> QED
    BY <2>1, <2>2
<1> QED
  BY <1>3, <1>4, <1>5, SeqEqual

\* See above.
LEMMA StretchShrinks ==
  ASSUME NEW c, NEW a \in Nat \ {0}, NEW b \in Nat, a <= b,
         \A i \in a .. b : c[i] \in Tasks
  PROVE  /\ SubSeq(c, a, b) # <<>>
         /\ Head(SubSeq(c, a, b)) = c[a]
         /\ Tail(SubSeq(c, a, b)) = SubSeq(c, a + 1, b)
<1> DEFINE s == SubSeq(c, a, b)
           t == SubSeq(c, a + 1, b)
<1>1. s \in Seq(Tasks) /\ Len(s) = b - a + 1 /\ \A i \in 1 .. b - a + 1 : s[i] = c[a + i - 1]
  BY Stretch
<1>2. s # <<>> /\ Head(s) = c[a]
  <2>1. s # <<>>
    <3>1. Len(s) >= 1
      BY <1>1
    <3>2. Len(<<>>) = 0
      OBVIOUS
    <3> HIDE DEF s
    <3> QED
      BY <3>1, <3>2
  <2>2. Head(s) = s[1]
    BY <1>1, <2>1
  <2> QED
    BY <1>1, <2>1, <2>2
<1>3. t \in Seq(Tasks) /\ Len(t) = b - a /\ \A i \in 1 .. b - a : t[i] = c[a + i]
  <2>1. a + 1 \in Nat \ {0} /\ a + 1 <= b + 1 /\ \A i \in a + 1 .. b : c[i] \in Tasks
    OBVIOUS
  <2> QED
    BY <2>1, Stretch
<1>4. /\ Tail(s) \in Seq(Tasks) /\ Len(Tail(s)) = b - a
      /\ \A i \in 1 .. b - a : Tail(s)[i] = s[i + 1]
  BY <1>1, <1>2, HeadTailProperties
<1>5. \A i \in 1 .. b - a : Tail(s)[i] = t[i]
  BY <1>1, <1>3, <1>4
<1> QED
  BY <1>2, <1>3, <1>4, <1>5, SeqEqual

\* The task the pool's thread works on.
AtWork == IF tpc \in {"start", "began", "asleepTask", "pop"} THEN tapp ELSE NoTask
Queue  == SubSeq(cell, start, finish - 1)

\* What each step is for the queue.
LEMMA QueueStep ==
  ASSUME TypeInv, TypeInv', Fifo, Fifo', ~ torn', TasksNext
  PROVE  [TQ!Next]_(TQ!queueVars)
<1> USE DEF poolVars, taskVars, threadVars, prodVars, engineVars, noteVars,
      AllButThread, Goto, At, TaskAt, EngineAt
<1>0. TQ!Next <=> \/ AtWork = NoTask /\ Queue # <<>> /\ AtWork' = Head(Queue) /\ UNCHANGED Queue
                  \/ AtWork # NoTask /\ Queue' = Tail(Queue) /\ AtWork' = NoTask
                  \/ \E t \in Tasks : Queue' = Append(Queue, t) /\ UNCHANGED AtWork
  BY DEF TQ!Next, TQ!Begin, TQ!Finish, TQ!Submit, AtWork, Queue
<1>1. /\ TypeOK /\ ~ torn
      /\ start \in Nat \ {0} /\ finish - 1 \in Nat /\ start <= (finish - 1) + 1
      /\ \A i \in start .. finish - 1 : cell[i] \in Tasks
  <2>1. TypeOK /\ ~ torn
    BY TornStays DEF TypeInv
  <2> QED
    BY <2>1, PoolFacts DEF TypeOK, Fifo, Cells, Pool
<1>2. ASSUME UNCHANGED <<Queue, AtWork>> PROVE UNCHANGED TQ!queueVars
  BY <1>2 DEF TQ!queueVars, AtWork, Queue
<1>3. ASSUME NEW p \in Producers, Produces(p) PROVE [TQ!Next]_(TQ!queueVars)
  <2>1. CASE PushStore(p)
    <3>1. /\ ppc[p] = "store" /\ pat[p] = finish /\ finish' = finish + 1
          /\ cell' = [cell EXCEPT ![finish] = ptask[p]] /\ finish \in Cells
          /\ UNCHANGED <<start, threadVars>>
      BY <1>1, <2>1 DEF PushStore, TypeOK
    <3>2. ptask[p] \in Tasks
      BY <1>1, <3>1, PoolFacts DEF Fifo, Pushing
    <3>3. cell'[finish] = ptask[p] /\ \A i \in start .. finish - 1 : cell'[i] = cell[i]
      BY <1>1, <3>1, PoolFacts DEF TypeOK, Pool
    <3>4. (finish - 1) + 1 = finish /\ finish' - 1 = finish
      BY <1>1, <3>1 DEF TypeOK, Cells
    <3>5. SubSeq(cell', start, finish) = Append(SubSeq(cell, start, finish - 1), cell'[finish])
      <4>1. \A i \in start .. finish - 1 : cell[i] \in Tasks /\ cell'[i] = cell[i]
        BY <1>1, <3>3
      <4>2. cell'[(finish - 1) + 1] \in Tasks
        BY <3>2, <3>3, <3>4
      <4>3. SubSeq(cell', start, (finish - 1) + 1) = Append(SubSeq(cell, start, finish - 1), cell'[(finish - 1) + 1])
        BY <1>1, <4>1, <4>2, StretchGrows
      <4> QED
        BY <3>4, <4>3
    <3>6. Queue' = Append(Queue, ptask[p]) /\ UNCHANGED AtWork
      BY <3>1, <3>3, <3>4, <3>5 DEF Queue, AtWork
    <3> QED
      BY <1>0, <3>2, <3>6
  <2>2. CASE ~ PushStore(p)
    <3>1. UNCHANGED poolVars /\ UNCHANGED tapp /\ (UNCHANGED tpc \/ (tpc = "asleepPool" /\ tpc' = "front"))
      BY <1>3, <2>2 DEF Produces, Creation, Create, Intent, WillStop, PushLoad, PushSignal, StopScan
    <3>2. UNCHANGED <<Queue, AtWork>>
      BY <3>1 DEF Queue, AtWork
    <3> QED
      BY <1>2, <3>2
  <2> QED
    BY <2>1, <2>2
<1>4. CASE Strays \/ TaskRelease \/ TaskBegin \/ EngineEnd \/ EngineEndAgain \/ SignalEnd
  <2>1. UNCHANGED <<Queue, AtWork>>
    BY <1>4 DEF Strays, Wild, TaskRelease, TaskBegin, EngineEnd, EngineEndAgain, SignalEnd, Queue, AtWork
  <2> QED
    BY <1>2, <2>1
<1>5. CASE Moves
  <2>1. UNCHANGED <<Queue, AtWork>>
    BY <1>5 DEF Moves, TaskTest, PoolWait, PoolWake, TaskFail, TaskWait, TaskWake, Queue, AtWork
  <2> QED
    BY <1>2, <2>1
<1>6. CASE (TaskDelete \/ ReportEnd) /\ UNCHANGED wild
  <2>1. UNCHANGED <<Queue, AtWork>>
    BY <1>6 DEF TaskDelete, ReportEnd, Wild, Queue, AtWork
  <2> QED
    BY <1>2, <2>1
<1>7. CASE TaskFront /\ UNCHANGED wild
  <2>1. /\ tpc = "front" /\ tpc' = "start" /\ tapp' = cell[start]
        /\ UNCHANGED poolVars /\ Front \in alive
    BY <1>7 DEF TaskFront, Wild, Front
  <2>2. start <= finish - 1
    <3>1. start < finish
      BY <1>1, <2>1, PoolFacts DEF Fifo, Front, Cells, TypeOK
    <3>2. start \in Nat /\ finish \in Nat
      BY <1>1 DEF TypeOK, Cells
    <3> QED
      BY <3>1, <3>2
  <2>3. Queue # <<>> /\ Head(Queue) = cell[start]
    BY <1>1, <2>2, StretchShrinks DEF Queue
  <2>4. AtWork = NoTask /\ AtWork' = Head(Queue) /\ UNCHANGED Queue
    BY <2>1, <2>3 DEF AtWork, Queue
  <2> QED
    BY <1>0, <2>3, <2>4
<1>8. CASE TaskPop
  <2>1. /\ tpc = "pop" /\ tpc' = "delete" /\ start' = start + 1
        /\ UNCHANGED <<cell, finish>>
    BY <1>8 DEF TaskPop
  <2>2. start <= finish - 1 /\ tapp # NoTask
    <3>1. start < finish
      BY <1>1, <2>1 DEF Fifo, HasTask
    <3>2. tapp \in alive
      BY <1>1, <2>1 DEF HasTask, TypeInv, Holding
    <3>3. start \in Nat /\ finish \in Nat /\ NoTask \notin alive
      BY <1>1, PoolFacts
    <3> QED
      BY <3>1, <3>2, <3>3
  <2>3. Tail(Queue) = SubSeq(cell, start + 1, finish - 1)
    BY <1>1, <2>2, StretchShrinks DEF Queue
  <2>4. AtWork # NoTask /\ AtWork' = NoTask /\ Queue' = Tail(Queue)
    BY <2>1, <2>2, <2>3 DEF AtWork, Queue
  <2> QED
    BY <1>0, <2>4
<1> QED
  BY <1>1, <1>3, <1>4, <1>5, <1>6, <1>7, <1>8, Shapes

\* Until a push undoes another, pool and task thread are a queue: nothing is
\* lost, and tasks are done in the order of their pushes.
THEOREM TasksAreAQueue == TasksSpec => QueueUntilTorn
<1>1. TasksInit => TQ!Init
  <2> SUFFICES ASSUME TasksInit PROVE TQ!Init
    OBVIOUS
  <2>1. SubSeq(cell, 1, 0) = <<>>
    BY SubSeqEmpty
  <2> QED
    BY <2>1 DEF TasksInit, TQ!Init
<1>2. IInv /\ IInv' /\ [TasksNext]_vars => [TQ!Next \/ torn']_(TQ!queueVars)
  <2>1. UNCHANGED vars => UNCHANGED TQ!queueVars
    BY DEF vars, poolVars, threadVars, TQ!queueVars
  <2> QED
    BY <2>1, QueueStep DEF IInv
<1> QED
  BY <1>1, <1>2, TasksInvariance, PTL DEF TasksSpec, QueueUntilTorn

\* The one producer finds the end of the pool where it has loaded it.
Solo ==
  /\ ~ torn
  /\ \A p \in Producers : ppc[p] = "store" => pat[p] = finish

\* Nobody else moves the end.
LEMMA SoloStep ==
  ASSUME Producers = {"command"}, TypeInv, Solo, [TasksNext]_vars
  PROVE  Solo'
<1> USE DEF vars, poolVars, taskVars, threadVars, prodVars, engineVars, noteVars,
      AllButThread, Goto, At, TaskAt, EngineAt
<1>1. TypeOK
  BY DEF TypeInv
<1>2. ASSUME UNCHANGED <<finish, torn, ppc, pat>> PROVE Solo'
  BY <1>2 DEF Solo
<1>3. ASSUME NEW p \in Producers, Produces(p) PROVE Solo'
  <2>1. ASSUME NEW k \in Kinds, Creation(p, k) PROVE Solo'
    BY <1>1, <2>1 DEF Creation, Create, Solo, TypeOK
  <2>2. ASSUME NEW t \in Tasks, Intent(p, t) PROVE Solo'
    BY <1>1, <2>2 DEF Intent, WillStop, Solo, TypeOK
  <2>3. CASE PushLoad(p)
    BY <1>1, <2>3 DEF PushLoad, Solo, TypeOK
  <2>4. CASE PushStore(p)
    BY <1>1, <2>4 DEF PushStore, Solo, TypeOK
  <2>5. CASE PushSignal(p) \/ StopScan(p)
    BY <1>1, <2>5 DEF PushSignal, StopScan, Return, Solo, TypeOK
  <2> QED
    BY <1>3, <2>1, <2>2, <2>3, <2>4, <2>5 DEF Produces
<1>4. CASE Strays \/ TaskRelease \/ TaskBegin \/ TaskPop \/ EngineEnd \/ EngineEndAgain \/ SignalEnd
  BY <1>2, <1>4 DEF Strays, Wild, TaskRelease, TaskBegin, TaskPop, EngineEnd, EngineEndAgain, SignalEnd
<1>5. CASE Moves
  BY <1>2, <1>5 DEF Moves, TaskTest, PoolWait, PoolWake, TaskFail, TaskWait, TaskWake
<1>6. CASE (TaskFront \/ TaskDelete \/ ReportEnd) /\ UNCHANGED wild
  BY <1>2, <1>6 DEF TaskFront, TaskDelete, ReportEnd, Wild
<1>7. CASE UNCHANGED vars
  BY <1>2, <1>7
<1> QED
  BY <1>1, <1>3, <1>4, <1>5, <1>6, <1>7, Shapes

\* With the listener's thread as the only producer no push undoes another, and
\* pool and task thread are a queue for ever.
THEOREM OneProducerIsAQueue ==
  ASSUME Producers = {"command"}
  PROVE  TasksSpec => ImplementsTaskQueue
<1>1. TasksInit => Solo
  BY DEF TasksInit, Solo
<1>2. TypeInv /\ Solo /\ [TasksNext]_vars => Solo'
  BY SoloStep
<1>3. Solo => ~ torn
  BY DEF Solo
<1> QED
  BY <1>1, <1>2, <1>3, TypeInvariance, TasksAreAQueue, PTL
     DEF TasksSpec, QueueUntilTorn, ImplementsTaskQueue, TQ!Spec
=============================================================================
