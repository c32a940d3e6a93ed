--------------------------- MODULE ThreadPoolProofs ---------------------------
(***************************************************************************)
(* Theorems about ThreadPool, for any number of workers, tasks and wakes:  *)
(* its types, the order in which tasks are taken, and that only a missed   *)
(* signal leaves a task to sleeping workers.                               *)
(***************************************************************************)
EXTENDS ThreadPool, SequenceTheorems, TLAPS

\* A task waits: a signal is on its way, or a worker will look at the queue
\* again, or a signal has been missed.
SomeoneLooks ==
  mTaskQueue # <<>> /\ ~missed =>
    apc \in {"signal", "gone"} \/ \E w \in Workers : pc[w] \notin {"towait", "asleep"}

IInv == TypeOK /\ TakenInOrder /\ SomeoneLooks

-----------------------------------------------------------------------------
\* What is taken moves from the front of the queue to the end of the taken.
LEMMA HeadMoves ==
  ASSUME NEW S, NEW s \in Seq(S), NEW q \in Seq(S), q # <<>>
  PROVE  Append(s, Head(q)) \o Tail(q) = s \o q
<1>1. Head(q) = q[1] /\ q[1] \in S /\ Tail(q) \in Seq(S)  BY HeadTailProperties
<1>2. Len(q) \in Nat \ {0}  BY EmptySeq
<1>3. 1 \in 1 .. Len(q) /\ Len(q) \in 1 .. Len(q)  BY <1>2
<1>4. q = <<q[1]>> \o Tail(q)
  <2>1. SubSeq(q, 1, Len(q)) = <<q[1]>> \o SubSeq(q, 1 + 1, Len(q))  BY <1>3, SubSeqRecursiveFirst
  <2>2. SubSeq(q, 1, Len(q)) = q  BY SubSeqFull
  <2>3. Tail(q) = SubSeq(q, 2, Len(q))  BY TailIsSubSeq
  <2> QED BY <2>1, <2>2, <2>3
<1>5. Append(s, q[1]) = s \o <<q[1]>> /\ <<q[1]>> \in Seq(S)  BY <1>1, AppendIsConcat
<1>6. (s \o <<q[1]>>) \o Tail(q) = s \o (<<q[1]>> \o Tail(q))
  BY <1>1, <1>5, ConcatAssociative
<1> QED BY <1>1, <1>4, <1>5, <1>6

\* What is appended to the second of two sequences is appended to both.
LEMMA AppendMoves ==
  ASSUME NEW S, NEW s \in Seq(S), NEW q \in Seq(S), NEW e \in S
  PROVE  s \o Append(q, e) = Append(s \o q, e)
<1>1. <<e>> \in Seq(S) /\ s \o q \in Seq(S)  BY ConcatProperties
<1>2. Append(q, e) = q \o <<e>>  BY AppendIsConcat
<1>3. Append(s \o q, e) = (s \o q) \o <<e>>  BY <1>1, AppendIsConcat
<1> QED BY <1>1, <1>2, <1>3, ConcatAssociative

-----------------------------------------------------------------------------
\* No step changes the type of a variable.
LEMMA TypeNext == ASSUME TypeOK, [Next]_vars PROVE TypeOK'
<1> USE PoolConstants DEF TypeOK, queueVars, otherVars, WorkerPcs
<1>1. ASSUME NEW w \in Workers, TestStop(w) PROVE TypeOK'  BY <1>1 DEF TestStop
<1>2. ASSUME NEW w \in Workers, GetTask(w) PROVE TypeOK'
  <2>1. Head(mTaskQueue) \in Tasks /\ Tail(mTaskQueue) \in Seq(Tasks)
    BY <1>2, HeadTailProperties DEF GetTask
  <2>2. Append(taken, Head(mTaskQueue)) \in Seq(Tasks)  BY <2>1, AppendProperties
  <2> QED BY <1>2, <2>1, <2>2 DEF GetTask
<1>3. ASSUME NEW w \in Workers, GetNoTask(w) PROVE TypeOK'  BY <1>3 DEF GetNoTask
<1>4. ASSUME NEW w \in Workers, UseFreed(w) PROVE TypeOK'  BY <1>4 DEF UseFreed
<1>5. ASSUME NEW w \in Workers, Wait(w) PROVE TypeOK'  BY <1>5 DEF Wait
<1>6. ASSUME NEW w \in Workers, Work(w) PROVE TypeOK'  BY <1>6 DEF Work
<1>7. ASSUME NEW w \in Workers, SpuriousWake(w) PROVE TypeOK'  BY <1>7 DEF SpuriousWake
<1>8. ASSUME NEW t \in Tasks, AppendTask(t) PROVE TypeOK'
  <2>1. Append(mTaskQueue, t) \in Seq(Tasks) /\ Append(appended, t) \in Seq(Tasks)
    BY AppendProperties
  <2> QED BY <1>8, <2>1 DEF AppendTask
<1>9. CASE Signal  BY <1>9 DEF Signal, Asleep
<1>10. CASE AppendFreed  BY <1>10 DEF AppendFreed
<1>11. CASE StopFlag  BY <1>11 DEF StopFlag
<1>12. CASE StopBroadcast  BY <1>12 DEF StopBroadcast
<1>13. CASE DeletePool  BY <1>13 DEF DeletePool
<1>14. CASE UNCHANGED vars  BY <1>14 DEF vars
<1> QED BY <1>1, <1>2, <1>3, <1>4, <1>5, <1>6, <1>7, <1>8, <1>9, <1>10, <1>11, <1>12, <1>13, <1>14
        DEF Next, Worker

\* Tasks go from the queue to those taken in order.
LEMMA OrderNext == ASSUME TypeOK, TakenInOrder, [Next]_vars PROVE TakenInOrder'
<1> USE DEF TakenInOrder, queueVars, otherVars
<1>1. ASSUME NEW w \in Workers, GetTask(w) PROVE TakenInOrder'
  <2>1. Append(taken, Head(mTaskQueue)) \o Tail(mTaskQueue) = taken \o mTaskQueue
    BY <1>1, HeadMoves DEF GetTask, TypeOK
  <2> QED BY <1>1, <2>1 DEF GetTask
<1>2. ASSUME NEW t \in Tasks, AppendTask(t) PROVE TakenInOrder'
  <2>1. taken \o Append(mTaskQueue, t) = Append(taken \o mTaskQueue, t)
    BY AppendMoves DEF TypeOK
  <2> QED BY <1>2, <2>1 DEF AppendTask
<1>3. ASSUME UNCHANGED <<taken, mTaskQueue, appended>> PROVE TakenInOrder'  BY <1>3
<1>4. ASSUME NEW w \in Workers, TestStop(w) \/ GetNoTask(w) \/ UseFreed(w) \/ Wait(w) \/ Work(w) \/ SpuriousWake(w)
      PROVE  TakenInOrder'
  BY <1>3, <1>4 DEF TestStop, GetNoTask, UseFreed, Wait, Work, SpuriousWake
<1>5. CASE Signal \/ AppendFreed \/ StopFlag \/ StopBroadcast \/ DeletePool \/ UNCHANGED vars
  BY <1>3, <1>5 DEF Signal, AppendFreed, StopFlag, StopBroadcast, DeletePool, vars
<1> QED BY <1>1, <1>2, <1>4, <1>5 DEF Next, Worker

\* A worker that stops looking has found the queue empty.
LEMMA LooksNext == ASSUME TypeOK, SomeoneLooks, [Next]_vars PROVE SomeoneLooks'
<1> USE DEF SomeoneLooks, queueVars, otherVars, TypeOK, WorkerPcs
<1>1. ASSUME NEW w \in Workers, TestStop(w) PROVE SomeoneLooks'  BY <1>1 DEF TestStop
<1>2. ASSUME NEW w \in Workers, GetTask(w) PROVE SomeoneLooks'
  <2>1. pc'[w] = "work"  BY <1>2 DEF GetTask
  <2> QED BY <2>1
<1>3. ASSUME NEW w \in Workers, GetNoTask(w) PROVE SomeoneLooks'  BY <1>3 DEF GetNoTask
<1>4. ASSUME NEW w \in Workers, UseFreed(w) PROVE SomeoneLooks'
  <2>1. pc'[w] = "gone"  BY <1>4 DEF UseFreed
  <2> QED BY <2>1
<1>5. ASSUME NEW w \in Workers, Wait(w) PROVE SomeoneLooks'
  <2>1. \A v \in Workers : pc[v] \notin {"towait", "asleep"} => pc'[v] = pc[v]  BY <1>5 DEF Wait
  <2> QED BY <1>5, <2>1 DEF Wait
<1>6. ASSUME NEW w \in Workers, Work(w) \/ SpuriousWake(w) PROVE SomeoneLooks'
  <2>1. pc'[w] = "test"  BY <1>6 DEF Work, SpuriousWake
  <2> QED BY <2>1
<1>8. ASSUME NEW t \in Tasks, AppendTask(t) PROVE SomeoneLooks'
  BY <1>8 DEF AppendTask
<1>9. CASE Signal
  <2>1. ASSUME NEW w \in Asleep, pc' = [pc EXCEPT ![w] = "test"] PROVE SomeoneLooks'
    <3>1. w \in Workers  BY DEF Asleep
    <3>2. pc'[w] = "test"  BY <2>1, <3>1
    <3> QED BY <3>1, <3>2
  <2>2. CASE missed'  BY <2>2
  <2> QED BY <1>9, <2>1, <2>2 DEF Signal
<1>10. CASE AppendFreed  BY <1>10 DEF AppendFreed
<1>11. CASE StopFlag \/ DeletePool \/ UNCHANGED vars  BY <1>11 DEF StopFlag, DeletePool, vars
<1>12. CASE StopBroadcast
  <2>1. \A w \in Workers : pc[w] \notin {"towait", "asleep"} => pc'[w] = pc[w]
    BY <1>12 DEF StopBroadcast
  <2> QED BY <1>12, <2>1 DEF StopBroadcast
<1> QED BY <1>1, <1>2, <1>3, <1>4, <1>5, <1>6, <1>8, <1>9, <1>10, <1>11, <1>12 DEF Next, Worker

\* The invariant holds at the beginning.
LEMMA PoolInit == Init => IInv
<1> SUFFICES ASSUME Init PROVE IInv  OBVIOUS
<1>1. TypeOK
  <2>1. <<>> \in Seq(Tasks)  BY EmptySeq
  <2>2. {mStop, freed, missed} \subseteq BOOLEAN  BY Zenon DEF Init
  <2>3. 0 \in 0 .. MaxWakes  BY PoolConstants
  <2> QED BY <2>1, <2>2, <2>3 DEF Init, TypeOK, WorkerPcs
<1>2. <<>> \o <<>> = <<>>  BY ConcatEmptySeq, EmptySeq
<1> QED BY <1>1, <1>2 DEF Init, IInv, TakenInOrder, SomeoneLooks

\* Every behaviour of the pool keeps the inductive invariant.
THEOREM PoolInvariance == Spec => []IInv
<1>1. ASSUME IInv, [Next]_vars PROVE IInv'
  BY <1>1, TypeNext, OrderNext, LooksNext DEF IInv
<1> QED BY <1>1, PoolInit, PTL DEF Spec

\* Every variable keeps its type; only a worker at work has a task.
THEOREM PoolTypeCorrect == Spec => []TypeOK
<1>1. IInv => TypeOK  BY DEF IInv
<1> QED BY <1>1, PoolInvariance, PTL

\* GetTask takes the tasks in the order of AppendTask, none twice.
THEOREM TasksAreTakenInOrder == Spec => []TakenInOrder
<1>1. IInv => TakenInOrder  BY DEF IInv
<1> QED BY <1>1, PoolInvariance, PTL

\* With all workers asleep in Wait and no Signal under way, a task in the queue
\* means that an earlier signal met nobody.
THEOREM IdleWorkersMissedASignal == Spec => []IdleNeedsMiss
<1>1. IInv => IdleNeedsMiss  BY DEF IInv, SomeoneLooks, IdleNeedsMiss, Asleep
<1> QED BY <1>1, PoolInvariance, PTL

\* Tasks are taken once, in order, and left only by a missed signal.
THEOREM PoolIsSafe == Spec => []QueueSafety
<1>1. TypeOK /\ TakenInOrder /\ IdleNeedsMiss => QueueSafety  BY DEF QueueSafety
<1> QED BY <1>1, PoolTypeCorrect, TasksAreTakenInOrder, IdleWorkersMissedASignal, PTL
=============================================================================
