--------------------------- MODULE CenterSwitchProofs ---------------------------
(***************************************************************************)
(* Theorems about CenterSwitch, for any messages, hashes and centres: its  *)
(* types, and what the message handler promises with the threads of GLTX   *)
(* at work on it: messages are handled once and in order, the set of       *)
(* hashes is that of the queue, an empty queue is read only after a wait   *)
(* that returned without a signal, and the centre that is tried stays the  *)
(* first of the list unless that is reloaded.                              *)
(***************************************************************************)
EXTENDS CenterSwitch, SequenceTheorems, TLAPS

-----------------------------------------------------------------------------
(* The inductive invariant.                                                *)

\* HandleMessage has a message, and the destructor has set the flag first.
InHandle ==
  /\ lpc = "handle" => mMessageQueue # <<>>
  /\ dpc # "none" => mFinishFlag

\* A looper that does not look at the queue again was woken for a message, for
\* the end, or without a signal.
WokenFor ==
  /\ WildNeedsWake
  /\ lpc \in {"woken", "flag"} /\ mMessageQueue = <<>> /\ ~mFinishFlag => wakes > 0

HInv == TypeOK /\ InHandle /\ HandledInOrder /\ HashesOfQueue /\ WokenFor

-----------------------------------------------------------------------------
(* The handler.                                                            *)

\* What is handled moves from the front of the queue to the end of the handled.
LEMMA HeadMoves ==
  ASSUME NEW S, NEW s \in Seq(S), NEW q \in Seq(S), q # <<>>
  PROVE  Append(s, Head(q)) \o Tail(q) = s \o q
<1>1. Head(q) = q[1] /\ q[1] \in S /\ Tail(q) \in Seq(S)  BY HeadTailProperties
<1>2. Len(q) \in Nat \ {0}  BY EmptySeq
<1>3. 1 \in 1 .. Len(q) /\ Len(q) \in 1 .. Len(q)  BY <1>2
<1>4. q = <<q[1]>> \o Tail(q)
  <2>1. SubSeq(q, 1, Len(q)) = <<q[1]>> \o SubSeq(q, 1 + 1, Len(q))  BY <1>3, SubSeqRecursiveFirst
  <2>2. SubSeq(q, 1, Len(q)) = q  BY SubSeqFull
  <2>3. Tail(q) = SubSeq(q, 2, Len(q))  BY TailIsSubSeq
  <2> QED BY <2>1, <2>2, <2>3
<1>5. Append(s, q[1]) = s \o <<q[1]>> /\ <<q[1]>> \in Seq(S)  BY <1>1, AppendIsConcat
<1>6. (s \o <<q[1]>>) \o Tail(q) = s \o (<<q[1]>> \o Tail(q))
  BY <1>1, <1>5, ConcatAssociative
<1> QED BY <1>1, <1>4, <1>5, <1>6

\* What is appended to the second of two sequences is appended to both.
LEMMA AppendMoves ==
  ASSUME NEW S, NEW s \in Seq(S), NEW q \in Seq(S), NEW e \in S
  PROVE  s \o Append(q, e) = Append(s \o q, e)
<1>1. <<e>> \in Seq(S) /\ s \o q \in Seq(S)  BY ConcatProperties
<1>2. Append(q, e) = q \o <<e>>  BY AppendIsConcat
<1>3. Append(s \o q, e) = (s \o q) \o <<e>>  BY <1>1, AppendIsConcat
<1> QED BY <1>1, <1>2, <1>3, ConcatAssociative

\* No step of the handler changes the type of a variable.
LEMMA HandlerTypeNext == ASSUME TypeOK, InHandle, [Next]_vars PROVE TypeOK' /\ InHandle'
<1>0. ASSUME DestroySignal PROVE missed' \in BOOLEAN
  <2> DEFINE late == lpc \in {"lock", "test", "towait"}
  <2>1. missed' = late  BY <1>0 DEF DestroySignal
  <2>2. late \in BOOLEAN  OBVIOUS
  <2> QED BY <2>1, <2>2, Zenon
<1> USE HandlerConstants DEF TypeOK, InHandle, queueVars, LooperPcs, Signalled
<1>1. ASSUME NEW m \in Messages, NEW h \in Hashes, Post(m, h) PROVE TypeOK' /\ InHandle'
  <2>1. /\ Append(mMessageQueue, m) \in Seq(Messages) /\ Append(accepted, m) \in Seq(Messages)
        /\ Append(mMessageQueue, m) # <<>>
    BY AppendProperties
  <2> QED BY <1>1, <2>1 DEF Post
<1>2. ASSUME NEW m \in Messages, NEW h \in Hashes, PostSame(m, h) PROVE TypeOK' /\ InHandle'
  BY <1>2 DEF PostSame
<1>2b. ASSUME NEW m \in Messages, NEW h \in Hashes, PostCut(m, h) PROVE TypeOK' /\ InHandle'
  BY <1>2b DEF PostCut
<1>3. CASE Lock  BY <1>3 DEF Lock
<1>4. CASE Test  BY <1>4 DEF Test
<1>5. CASE Wait  BY <1>5 DEF Wait
<1>6. CASE SpuriousWake  BY <1>6 DEF SpuriousWake
<1>7. CASE Woken  BY <1>7 DEF Woken
<1>8. CASE FlagSet  BY <1>8 DEF FlagSet
<1>9. CASE FrontOfEmpty  BY <1>9 DEF FrontOfEmpty
<1>10. CASE HandleBegin  BY <1>10 DEF HandleBegin
<1>11. CASE HandleEnd
  <2>1. Head(mMessageQueue) \in Messages /\ Tail(mMessageQueue) \in Seq(Messages)
    BY <1>11, HeadTailProperties DEF HandleEnd
  <2>2. Append(handled, Head(mMessageQueue)) \in Seq(Messages)  BY <2>1, AppendProperties
  <2> QED BY <1>11, <2>1, <2>2 DEF HandleEnd
<1>12. CASE Unlock  BY <1>12 DEF Unlock
<1>13. CASE DestroyFlag  BY <1>13 DEF DestroyFlag
<1>14. CASE DestroySignal
  <2> QED BY <1>0, <1>14 DEF DestroySignal
<1>15. CASE DestroyJoin  BY <1>15 DEF DestroyJoin
<1>16. CASE UNCHANGED vars  BY <1>16 DEF vars
<1> QED BY <1>1, <1>2, <1>2b, <1>3, <1>4, <1>5, <1>6, <1>7, <1>8, <1>9, <1>10, <1>11, <1>12, <1>13, <1>14,
           <1>15, <1>16 DEF Next, Looper

\* Steps that leave queue and hashes alone.
LEMMA QuietSteps ==
  ASSUME [Next]_vars, ~HandleEnd,
         ~\E m \in Messages, h \in Hashes : Post(m, h) \/ PostSame(m, h) \/ PostCut(m, h)
  PROVE  UNCHANGED queueVars
  BY DEF Next, Looper, Lock, Test, Wait, SpuriousWake, Woken, FlagSet, FrontOfEmpty, HandleBegin, Unlock,
         DestroyFlag, DestroySignal, DestroyJoin, queueVars, vars

\* The queue is a queue: messages leave it in the order of their posts.
LEMMA OrderNext == ASSUME TypeOK, InHandle, HandledInOrder, [Next]_vars PROVE HandledInOrder'
<1>1. ASSUME NEW m \in Messages, NEW h \in Hashes, Post(m, h) PROVE HandledInOrder'
  <2>1. handled \o Append(mMessageQueue, m) = Append(handled \o mMessageQueue, m)
    BY AppendMoves DEF TypeOK
  <2> QED BY <1>1, <2>1 DEF Post, HandledInOrder
<1>2. CASE HandleEnd
  <2>1. Append(handled, Head(mMessageQueue)) \o Tail(mMessageQueue) = handled \o mMessageQueue
    BY <1>2, HeadMoves DEF HandleEnd, TypeOK, InHandle
  <2> QED BY <1>2, <2>1 DEF HandleEnd, HandledInOrder
<1>3. ASSUME UNCHANGED <<mMessageQueue, accepted, handled>> PROVE HandledInOrder'
  BY <1>3 DEF HandledInOrder
<1>4. ASSUME NEW m \in Messages, NEW h \in Hashes, PostSame(m, h) \/ PostCut(m, h) PROVE HandledInOrder'
  BY <1>3, <1>4 DEF PostSame, PostCut
<1> QED BY <1>1, <1>2, <1>3, <1>4, QuietSteps DEF queueVars

\* Post adds the hash of its message, HandleEnd takes that of the first message
\* away, which no other queued message has.
LEMMA HashesNext == ASSUME TypeOK, InHandle, HashesOfQueue, [Next]_vars PROVE HashesOfQueue'
<1> DEFINE q == mMessageQueue
<1>0. /\ q \in Seq(Messages) /\ Len(q) \in Nat /\ DOMAIN q = 1 .. Len(q)
      /\ \A i \in 1 .. Len(q) : q[i] \in Messages
      /\ hash \in [Messages -> Hashes \cup {NoHash}]
  BY LenProperties, ElementOfSeq DEF TypeOK
<1>h. /\ mQueueHash = {hash[q[i]] : i \in 1 .. Len(q)}
      /\ \A i, j \in 1 .. Len(q) : hash[q[i]] = hash[q[j]] => i = j
  BY <1>0 DEF HashesOfQueue
<1>1. ASSUME NEW m \in Messages, NEW h \in Hashes, hash[m] = NoHash, hash' = [hash EXCEPT ![m] = h],
             NEW i \in 1 .. Len(q)
      PROVE  hash'[q[i]] = hash[q[i]]
  <2>1. mQueueHash \subseteq Hashes /\ hash[q[i]] \in mQueueHash  BY <1>h DEF TypeOK
  <2>2. q[i] # m  BY <1>1, <2>1, HandlerConstants
  <2> QED BY <1>0, <1>1, <2>2
<1>2. ASSUME NEW m \in Messages, NEW h \in Hashes, Post(m, h) PROVE HashesOfQueue'
  <2>1. /\ hash[m] = NoHash /\ hash' = [hash EXCEPT ![m] = h] /\ h \notin mQueueHash
        /\ mQueueHash' = mQueueHash \cup {h} /\ q' = Append(q, m)
    BY <1>2 DEF Post
  <2>2. /\ q' \in Seq(Messages) /\ Len(q') = Len(q) + 1 /\ q'[Len(q) + 1] = m
        /\ \A i \in 1 .. Len(q) : q'[i] = q[i]
    BY <1>0, <2>1, AppendProperties
  <2>3. DOMAIN q' = 1 .. Len(q) + 1  BY <2>2, LenProperties
  <2>4. hash'[m] = h  BY <1>0, <2>1
  <2>5. \A i \in 1 .. Len(q) : hash'[q'[i]] = hash[q[i]] /\ hash[q[i]] \in mQueueHash
    BY <1>1, <1>h, <2>1, <2>2
  <2>6. \A i \in 1 .. Len(q) + 1 : i \in 1 .. Len(q) \/ i = Len(q) + 1  BY <1>0
  <2>7. 1 .. Len(q) \subseteq 1 .. Len(q) + 1 /\ Len(q) + 1 \in 1 .. Len(q) + 1  BY <1>0
  <2>8. mQueueHash' = {hash'[q'[i]] : i \in 1 .. Len(q) + 1}
    <3>1. ASSUME NEW x \in mQueueHash' PROVE \E i \in 1 .. Len(q) + 1 : x = hash'[q'[i]]
      BY <1>h, <2>1, <2>2, <2>4, <2>5, <2>7
    <3>2. ASSUME NEW i \in 1 .. Len(q) + 1 PROVE hash'[q'[i]] \in mQueueHash'
      BY <2>1, <2>2, <2>4, <2>5, <2>6
    <3> QED BY <3>1, <3>2
  <2>9. ASSUME NEW i \in 1 .. Len(q) + 1, NEW j \in 1 .. Len(q) + 1, hash'[q'[i]] = hash'[q'[j]]
        PROVE  i = j
    BY <1>h, <2>1, <2>2, <2>4, <2>5, <2>6, <2>9
  <2> QED BY <2>3, <2>8, <2>9 DEF HashesOfQueue
<1>3. ASSUME NEW m \in Messages, NEW h \in Hashes, PostSame(m, h) \/ PostCut(m, h) PROVE HashesOfQueue'
  <2>1. hash[m] = NoHash /\ hash' = [hash EXCEPT ![m] = h] /\ UNCHANGED <<mQueueHash, mMessageQueue>>
    BY <1>3 DEF PostSame, PostCut
  <2>2. \A i \in 1 .. Len(q) : hash'[q[i]] = hash[q[i]]  BY <1>1, <2>1
  <2>3. mQueueHash' = {hash'[q[i]] : i \in 1 .. Len(q)}  BY <1>h, <2>1, <2>2
  <2> QED BY <1>0, <1>h, <2>1, <2>2, <2>3 DEF HashesOfQueue
<1>4. CASE HandleEnd
  <2>1. /\ q # <<>> /\ q' = Tail(q) /\ hash' = hash /\ mQueueHash' = mQueueHash \ {hash[Head(q)]}
    BY <1>4 DEF HandleEnd, InHandle
  <2>2. /\ Head(q) = q[1] /\ Tail(q) \in Seq(Messages) /\ Len(Tail(q)) = Len(q) - 1
        /\ \A i \in 1 .. Len(q) - 1 : Tail(q)[i] = q[i + 1]
    BY <1>0, <2>1, HeadTailProperties
  <2>3. DOMAIN q' = 1 .. Len(q) - 1  BY <2>1, <2>2, LenProperties
  <2>4. Len(q) \in Nat \ {0}  BY <1>0, <2>1, EmptySeq
  <2>5. \A i \in 1 .. Len(q) - 1 : i + 1 \in 1 .. Len(q) /\ i + 1 # 1  BY <2>4
  <2>6. \A i \in 1 .. Len(q) : i # 1 => i - 1 \in 1 .. Len(q) - 1 /\ (i - 1) + 1 = i  BY <2>4
  <2>7. 1 \in 1 .. Len(q)  BY <2>4
  <2>8. mQueueHash' = {hash'[q'[i]] : i \in 1 .. Len(q) - 1}
    <3>1. ASSUME NEW x \in mQueueHash' PROVE \E i \in 1 .. Len(q) - 1 : x = hash'[q'[i]]
      <4>1. PICK i \in 1 .. Len(q) : x = hash[q[i]]  BY <1>h, <2>1
      <4>2. i # 1  BY <2>1, <2>2, <4>1
      <4>3. i - 1 \in 1 .. Len(q) - 1 /\ q'[i - 1] = q[i]  BY <2>1, <2>2, <2>6, <4>2
      <4> QED BY <2>1, <4>1, <4>3
    <3>2. ASSUME NEW i \in 1 .. Len(q) - 1 PROVE hash'[q'[i]] \in mQueueHash'
      <4>1. i + 1 \in 1 .. Len(q) /\ i + 1 # 1 /\ q'[i] = q[i + 1]  BY <2>1, <2>2, <2>5
      <4>2. hash[q[i + 1]] # hash[q[1]]  BY <1>h, <2>7, <4>1
      <4> QED BY <1>h, <2>1, <2>2, <4>1, <4>2
    <3> QED BY <3>1, <3>2
  <2>9. ASSUME NEW i \in 1 .. Len(q) - 1, NEW j \in 1 .. Len(q) - 1, hash'[q'[i]] = hash'[q'[j]]
        PROVE  i = j
    <3>1. i + 1 \in 1 .. Len(q) /\ j + 1 \in 1 .. Len(q) /\ q'[i] = q[i + 1] /\ q'[j] = q[j + 1]
      BY <2>1, <2>2, <2>5
    <3>2. i + 1 = j + 1  BY <1>h, <2>1, <2>9, <3>1
    <3> QED BY <3>2
  <2> QED BY <2>3, <2>8, <2>9 DEF HashesOfQueue
<1>5. ASSUME UNCHANGED queueVars PROVE HashesOfQueue'  BY <1>5 DEF HashesOfQueue, queueVars
<1> QED BY <1>2, <1>3, <1>4, <1>5, QuietSteps

\* An empty queue is looked at without a test after an unsignalled wake only.
LEMMA WokenNext == ASSUME TypeOK, InHandle, WokenFor, [Next]_vars PROVE WokenFor'
<1> USE DEF TypeOK, InHandle, WokenFor, WildNeedsWake, queueVars, Signalled
<1>1. ASSUME NEW m \in Messages, NEW h \in Hashes, Post(m, h) PROVE WokenFor'
  <2>1. Append(mMessageQueue, m) # <<>>  BY AppendProperties
  <2> QED BY <1>1, <2>1 DEF Post
<1>2. ASSUME NEW m \in Messages, NEW h \in Hashes, PostSame(m, h) \/ PostCut(m, h) PROVE WokenFor'
  BY <1>2 DEF PostSame, PostCut
<1>3. CASE Lock \/ Test \/ Wait  BY <1>3 DEF Lock, Test, Wait
<1>4. CASE SpuriousWake
  <2>1. wakes' > 0  BY <1>4 DEF SpuriousWake
  <2> QED BY <2>1
<1>5. CASE Woken \/ FlagSet \/ FrontOfEmpty \/ HandleBegin
  BY <1>5 DEF Woken, FlagSet, FrontOfEmpty, HandleBegin
<1>6. CASE HandleEnd \/ Unlock  BY <1>6 DEF HandleEnd, Unlock
<1>7. CASE DestroyFlag \/ DestroySignal \/ DestroyJoin
  BY <1>7 DEF DestroyFlag, DestroySignal, DestroyJoin
<1>8. CASE UNCHANGED vars  BY <1>8 DEF vars
<1> QED BY <1>1, <1>2, <1>3, <1>4, <1>5, <1>6, <1>7, <1>8 DEF Next, Looper

\* The handler's invariant holds at the beginning.
LEMMA HandlerInit == Init => HInv
<1> SUFFICES ASSUME Init PROVE HInv  OBVIOUS
<1>1. <<>> \in Seq(Messages)  BY EmptySeq
<1>2. <<>> \o <<>> = <<>>  BY ConcatEmptySeq, EmptySeq
<1>3. TypeOK
  <2>1. hash \in [Messages -> Hashes \cup {NoHash}]  BY DEF Init
  <2>2. wakes \in 0 .. MaxWakes  BY HandlerConstants DEF Init
  <2>3. mFinishFlag \in BOOLEAN /\ wild \in BOOLEAN /\ missed \in BOOLEAN  BY DEF Init
  <2>4. mMutex = "looper" <=> lpc \in {"test", "towait", "flag", "handle", "unlock", "gone"}  BY DEF Init
  <2> QED BY <1>1, <2>1, <2>2, <2>3, <2>4 DEF Init, TypeOK, LooperPcs
<1>4. HashesOfQueue
  <2>1. DOMAIN mMessageQueue = {}  BY DEF Init
  <2> QED BY <2>1 DEF Init, HashesOfQueue
<1> QED BY <1>2, <1>3, <1>4 DEF Init, HInv, InHandle, HandledInOrder, WokenFor, WildNeedsWake

\* ... and a step of the handler keeps it.
LEMMA HandlerNext == ASSUME HInv, [Next]_vars PROVE HInv'
  BY HandlerTypeNext, OrderNext, HashesNext, WokenNext DEF HInv

-----------------------------------------------------------------------------
(* GLTX's threads at the handler.                                          *)

\* A thread posts a message and a hash of the instance.
LEMMA NewOnes == ASSUME mQueueHash \subseteq Hashes PROVE NewMessages \subseteq Messages /\ NewHashes \subseteq Hashes
<1>1. ASSUME NEW S, NEW x \in OneOf(S) PROVE x \in S
  <2>1. S # {}  BY <1>1 DEF OneOf
  <2> QED BY <1>1, <2>1 DEF OneOf
<1> QED BY <1>1 DEF NewMessages, NewHashes

\* Whatever they do is a step of the handler or does not touch it.
LEMMA SwitchIsHandler == ASSUME TypeOK, [SwitchNext]_allVars PROVE [Next]_vars
<1>0. NewMessages \subseteq Messages /\ NewHashes \subseteq Hashes  BY NewOnes DEF TypeOK
<1>1. ASSUME NEW m \in NewMessages, NEW h \in NewHashes, Post(m, h) \/ PostSame(m, h) \/ PostCut(m, h) PROVE Next
  BY <1>0, <1>1 DEF Next
<1>2. CASE HandlerStep
  BY <1>2 DEF HandlerStep, HandlerLoops, HandleOther, HandleCenter, HandleStopped, StopCancel, StopJoin,
       StopJoinAuth, Start, PopCenter, PopOfEmpty, HandleDone, Next, Looper
<1>3. CASE HandlerWakes  BY <1>3 DEF HandlerWakes, Next
<1>4. CASE WorkStartsAuth \/ WorkFails \/ ReportBegins
  BY <1>4 DEF WorkStartsAuth, WorkFails, ReportBegins, Asks
<1>5. ASSUME NEW t \in Threads, ThreadStep(t) PROVE [Next]_vars
  <2>1. CASE RequestBegins(t) \/ RequestGoesOn(t) \/ RequestEnds(t) \/ CallbackPosts(t) \/ LoopEnds(t) \/ ThreadCancelled(t)
    BY <2>1 DEF RequestBegins, Asks, RequestGoesOn, RequestEnds, CallbackPosts, LoopEnds, ThreadCancelled
  <2>2. CASE ThreadPostsAny(t)  BY <1>1, <2>2 DEF ThreadPostsAny, ThreadPosts, Posts
  <2>3. CASE ThreadCutAny(t)  BY <1>1, <2>3 DEF ThreadCutAny, ThreadCut
  <2> QED BY <1>5, <2>1, <2>2, <2>3 DEF ThreadStep, ThreadCutAny
<1>6. CASE ListenerPostsAny  BY <1>1, <1>6 DEF ListenerPostsAny, ListenerPosts, Posts
<1>7. CASE (\E list \in CenterLists : Reload(list)) \/ (\E c \in Centers : Offer(c))
  BY <1>7 DEF Reload, Offer
<1>8. CASE EndListener \/ EndListenerJoin \/ EndStop \/ EndJoin \/ EndJoinAuth \/ EndDelete \/ EndMeetsOther
  BY <1>8 DEF EndListener, EndListenerJoin, EndStop, EndJoin, EndJoinAuth, EndDelete, EndMeetsOther
<1>9. CASE EndHandler  BY <1>9 DEF EndHandler, Next
<1>10. CASE UNCHANGED allVars  BY <1>10 DEF allVars
<1> QED BY <1>2, <1>3, <1>4, <1>5, <1>6, <1>7, <1>8, <1>9, <1>10 DEF SwitchNext, EndStep

HPlaces == {"none", "cancel", "join", "joinauth", "start", "pop", "done", "gone"}
NPlaces == {"idle", "post", "report", "ended"}
EPlaces == {"none", "listener", "stop", "join", "joinauth", "delete", "deljoin", "delauth", "freed", "wild"}

\* The parts of the types that the handler does not know.
CommTyped ==
  /\ mState \in BOOLEAN /\ wcancel \in BOOLEAN
  /\ pc \in [Threads -> Places] /\ mRequestMutex \in Threads \cup {"none", "lost"}
ListTyped ==
  /\ mCenterList \in Seq(Centers) /\ mCurrentCenter \in Centers
  /\ secret \in BOOLEAN /\ reloaded \in BOOLEAN
MainTyped == npc \in NPlaces /\ epc \in EPlaces
HandlerTyped == hpc \in HPlaces /\ (hpc # "none" <=> lpc = "handle")

SwitchTyped == CommTyped /\ ListTyped /\ MainTyped /\ HandlerTyped

\* A thread goes from place to place.
LEMMA GotoTyped ==
  ASSUME pc \in [Threads -> Places], NEW t \in Threads, NEW l \in Places, Goto(t, l)
  PROVE  pc' \in [Threads -> Places]
  BY DEF Goto

\* The steps of the threads that make requests keep the types.
LEMMA ThreadTypeNext ==
  ASSUME SwitchTyped, NEW t \in Threads, ThreadStep(t)
  PROVE  CommTyped' /\ npc' \in NPlaces /\ UNCHANGED <<listVars, hpc, epc>>
<1> USE DEF SwitchTyped, CommTyped, MainTyped
<1>0. {"none", "sleep", "ask", "io", "callback", "post", "last", "ended"} \subseteq Places  BY DEF Places
<1>1. ASSUME NEW l \in Places, NEW n \in NPlaces, Leaves(t, l, n)
      PROVE  pc' \in [Threads -> Places] /\ npc' \in NPlaces
  BY <1>0, <1>1, GotoTyped DEF Leaves
<1>2. Orphan(t) => mRequestMutex' \in Threads \cup {"none", "lost"}  BY DEF Orphan
<1>3. CASE RequestBegins(t)  BY <1>0, <1>3, GotoTyped DEF RequestBegins, Asks, listVars
<1>4. CASE RequestGoesOn(t)  BY <1>0, <1>4, GotoTyped DEF RequestGoesOn, listVars
<1>5. CASE RequestEnds(t)  BY <1>0, <1>1, <1>5 DEF RequestEnds, listVars, NPlaces
<1>6. CASE CallbackPosts(t)  BY <1>0, <1>6, GotoTyped DEF CallbackPosts, listVars
<1>7. CASE LoopEnds(t)  BY <1>0, <1>7, GotoTyped DEF LoopEnds, listVars
<1>8. CASE ThreadPostsAny(t)
  <2> DEFINE l == CASE pc[t] = "callback" -> "io" [] pc[t] = "post" -> "sleep" [] pc[t] = "last" -> "ended"
  <2>1. Goto(t, l) /\ InPostMessage(t) /\ UNCHANGED <<mState, mRequestMutex, wcancel, listVars, hpc, npc, epc>>
    BY <1>8 DEF ThreadPostsAny, ThreadPosts
  <2>2. l \in Places  BY <1>0, <2>1 DEF InPostMessage
  <2> HIDE DEF l
  <2> QED BY <2>1, <2>2, GotoTyped
<1>9. CASE ThreadCancelled(t)  BY <1>0, <1>1, <1>2, <1>9 DEF ThreadCancelled, listVars, NPlaces
<1>10. CASE ThreadCutAny(t)  BY <1>0, <1>1, <1>2, <1>10 DEF ThreadCutAny, ThreadCut, listVars, NPlaces
<1> QED BY <1>3, <1>4, <1>5, <1>6, <1>7, <1>8, <1>9, <1>10 DEF ThreadStep, ThreadCutAny

\* They and the listener leave the looper inside HandleMessage or outside.
LEMMA PostsInHandle ==
  ASSUME NEW m, NEW h, Post(m, h) \/ PostSame(m, h) \/ PostCut(m, h)
  PROVE  lpc' = "handle" <=> lpc = "handle"
  BY DEF Post, PostSame, PostCut, Signalled

LEMMA ThreadInHandle == ASSUME NEW t, ThreadStep(t) PROVE lpc' = "handle" <=> lpc = "handle"
<1>1. CASE RequestBegins(t) \/ RequestGoesOn(t) \/ RequestEnds(t) \/ CallbackPosts(t) \/ LoopEnds(t) \/ ThreadCancelled(t)
  BY <1>1 DEF RequestBegins, Asks, RequestGoesOn, RequestEnds, CallbackPosts, LoopEnds, ThreadCancelled, vars
<1>2. CASE ThreadPostsAny(t)  BY <1>2, PostsInHandle DEF ThreadPostsAny, ThreadPosts, Posts
<1>3. CASE ThreadCutAny(t)  BY <1>3, PostsInHandle DEF ThreadCutAny, ThreadCut
<1> QED BY <1>1, <1>2, <1>3 DEF ThreadStep, ThreadCutAny

\* No step of GLTX changes them.
LEMMA SwitchTypeNext == ASSUME TypeOK, SwitchTyped, [SwitchNext]_allVars PROVE SwitchTyped'
<1>l. lpc \in LooperPcs  BY DEF TypeOK
<1>p. {"none", "sleep", "post"} \subseteq Places /\ {"worker", "auth", "reporter"} \subseteq Threads
  BY DEF Places, Threads
<1> USE DEF SwitchTyped, CommTyped, ListTyped, MainTyped, HandlerTyped, HPlaces, NPlaces, EPlaces,
            switchVars, commVars, listVars, Signalled, EngineFreed
<1>2. CASE HandlerLoops
  BY <1>2 DEF HandlerLoops, Lock, Test, Wait, Woken, FlagSet, FrontOfEmpty, Unlock
<1>3. CASE HandlerWakes  BY <1>3 DEF HandlerWakes, SpuriousWake
<1>4. CASE HandleOther  BY <1>4 DEF HandleOther, HandleBegin
<1>5. CASE HandleCenter
  <2>1. Head(mCenterList) \in Centers  BY <1>5, HeadTailProperties DEF HandleCenter
  <2>2. lpc' = "handle" /\ mCurrentCenter' = Head(mCenterList) /\ hpc' = "cancel"
    BY <1>5 DEF HandleCenter, HandleBegin
  <2>3. UNCHANGED <<commVars, secret, mCenterList, reloaded, npc, epc>>
    BY <1>5 DEF HandleCenter
  <2>4. CommTyped' /\ MainTyped'  BY <2>3
  <2>5. ListTyped' /\ HandlerTyped'  BY <2>1, <2>2, <2>3
  <2> QED BY <2>4, <2>5
<1>6. CASE HandleStopped  BY <1>6 DEF HandleStopped, HandleBegin
<1>7. CASE StopCancel \/ StopJoin \/ PopOfEmpty
  BY <1>7 DEF StopCancel, StopJoin, PopOfEmpty, vars
<1>8. CASE StopJoinAuth \/ Start
  <2>1. pc' \in [Threads -> Places]  BY <1>p, <1>8, GotoTyped DEF StopJoinAuth, Start
  <2> QED BY <1>8, <2>1 DEF StopJoinAuth, Start, vars
<1>9. CASE PopCenter
  <2>1. Tail(mCenterList) \in Seq(Centers)  BY <1>9, HeadTailProperties DEF PopCenter
  <2> QED BY <1>9, <2>1 DEF PopCenter, vars
<1>10. CASE HandleDone  BY <1>10 DEF HandleDone, HandleEnd
<1>11. CASE WorkStartsAuth \/ WorkFails
  <2>1. pc' \in [Threads -> Places]  BY <1>p, <1>11, GotoTyped DEF WorkStartsAuth, WorkFails
  <2> QED BY <1>11, <2>1 DEF WorkStartsAuth, WorkFails, vars
<1>12. CASE ReportBegins
  <2>1. pc' \in [Threads -> Places]
    <3>1. {"io", "ask"} \subseteq Places  BY DEF Places
    <3> QED BY <1>p, <1>12, <3>1, GotoTyped DEF ReportBegins, Asks
  <2>2. mRequestMutex' \in Threads \cup {"none", "lost"}  BY <1>p, <1>12 DEF ReportBegins, Asks
  <2> QED BY <1>12, <2>1, <2>2 DEF ReportBegins, Asks, vars
<1>13. ASSUME NEW t \in Threads, ThreadStep(t) PROVE SwitchTyped'
  <2>1. CommTyped' /\ npc' \in NPlaces /\ UNCHANGED <<listVars, hpc, epc>>  BY <1>13, ThreadTypeNext
  <2>2. lpc' = "handle" <=> lpc = "handle"  BY <1>13, ThreadInHandle
  <2> QED BY <2>1, <2>2
<1>14. CASE ListenerPostsAny  BY <1>14, PostsInHandle DEF ListenerPostsAny, ListenerPosts, Posts
<1>15. ASSUME NEW list \in CenterLists, Reload(list) PROVE SwitchTyped'
  <2>1. Switching \in BOOLEAN  BY DEF Switching
  <2>2. reloaded' \in BOOLEAN  BY <1>15, <2>1, Zenon DEF Reload
  <2>3. list \in Seq(Centers)  BY SwitchConstants
  <2> QED BY <1>15, <2>2, <2>3 DEF Reload, vars
<1>16. ASSUME NEW c \in Centers, Offer(c) PROVE SwitchTyped'
  <2>1. Append(mCenterList, c) \in Seq(Centers)  BY AppendProperties
  <2> QED BY <1>16, <2>1 DEF Offer, vars
<1>17. CASE EndListener \/ EndListenerJoin \/ EndStop \/ EndJoin \/ EndMeetsOther
  BY <1>17 DEF EndListener, EndListenerJoin, EndStop, EndJoin, EndMeetsOther, vars
<1>18. CASE EndJoinAuth \/ EndDelete
  <2>1. pc' \in [Threads -> Places]  BY <1>p, <1>18, GotoTyped DEF EndJoinAuth, EndDelete
  <2> QED BY <1>18, <2>1 DEF EndJoinAuth, EndDelete, vars
<1>19. CASE EndHandler
  BY <1>19 DEF EndHandler, DestroyFlag, DestroySignal, DestroyJoin
<1>20. CASE UNCHANGED allVars  BY <1>20 DEF allVars, vars
<1> QED BY <1>2, <1>3, <1>4, <1>5, <1>6, <1>7, <1>8, <1>9, <1>10, <1>11, <1>12, <1>13, <1>14, <1>15, <1>16, <1>17,
           <1>18, <1>19, <1>20 DEF SwitchNext, HandlerStep, EndStep

\* Every behaviour of GLTX keeps the handler's invariant.
THEOREM HandlerInvariance == SwitchSpec => []HInv
<1>1. SwitchInit => HInv  BY HandlerInit DEF SwitchInit
<1>2. ASSUME HInv, [SwitchNext]_allVars PROVE HInv'  BY <1>2, SwitchIsHandler, HandlerNext DEF HInv
<1> QED BY <1>1, <1>2, PTL DEF SwitchSpec

\* The types of what the handler does not know are invariant.
LEMMA SwitchIsTyped == SwitchSpec => []SwitchTyped
<1>1. SwitchInit => SwitchTyped
  <2>1. (CHOOSE c \in Centers : TRUE) \in Centers  BY SwitchConstants
  <2>2. SwitchInit => pc \in [Threads -> Places]  BY DEF SwitchInit, Places
  <2> QED BY <2>1, <2>2, SwitchConstants
        DEF SwitchInit, Init, SwitchTyped, CommTyped, ListTyped, MainTyped, HandlerTyped, HPlaces, NPlaces, EPlaces
<1>2. HInv /\ SwitchTyped /\ [SwitchNext]_allVars => SwitchTyped'
  BY SwitchTypeNext DEF HInv
<1> QED BY <1>1, <1>2, HandlerInvariance, PTL DEF SwitchSpec

\* Every variable of the composition keeps its type; the handler is inside
\* HandleMessage just when its looper is.
THEOREM SwitchTypeCorrect == SwitchSpec => []SwitchTypeOK
<1>1. HInv /\ SwitchTyped => SwitchTypeOK
  <2> SUFFICES ASSUME HInv, SwitchTyped PROVE SwitchTypeOK  OBVIOUS
  <2>1. {secret, mState, wcancel, reloaded} \subseteq BOOLEAN
    BY Zenon DEF SwitchTyped, CommTyped, ListTyped
  <2> QED BY <2>1 DEF HInv, SwitchTyped, CommTyped, ListTyped, MainTyped, HandlerTyped, HPlaces, NPlaces, EPlaces,
                      SwitchTypeOK
<1> QED BY <1>1, HandlerInvariance, SwitchIsTyped, PTL

\* Messages are handled once each and in the order of their posts, while a
\* heartbeat worker, a listener and the daemon's end come in between.
THEOREM MessagesAreHandledInOrder == SwitchSpec => []HandledInOrder
<1>1. HInv => HandledInOrder  BY DEF HInv
<1> QED BY <1>1, HandlerInvariance, PTL

\* A message is refused only for the hash of one that is in the queue.
THEOREM HashesAreTheQueues == SwitchSpec => []HashesOfQueue
<1>1. HInv => HashesOfQueue  BY DEF HInv
<1> QED BY <1>1, HandlerInvariance, PTL

\* front() of an empty queue needs a wait that returned without a signal.
THEOREM WildReadsNeedAWake == SwitchSpec => []WildNeedsWake
<1>1. HInv => WildNeedsWake  BY DEF HInv, WokenFor
<1> QED BY <1>1, HandlerInvariance, PTL

\* The list keeps the centre that is tried first until it is popped, if no
\* reload comes in between: only HandleCenter begins a switch, PopCenter takes
\* the first, and Offer adds behind it.
LEMMA TriedNext == ASSUME SwitchTyped, TriedIsFirst, [SwitchNext]_allVars PROVE TriedIsFirst'
<1> USE DEF TriedIsFirst, Switching, switchVars, listVars, EngineFreed
<1>1. CASE HandlerStep
  BY <1>1 DEF HandlerStep, HandlerLoops, HandleOther, HandleCenter, HandleStopped, StopCancel, StopJoin,
       StopJoinAuth, Start, PopCenter, PopOfEmpty, HandleDone
<1>2. CASE HandlerWakes  BY <1>2 DEF HandlerWakes
<1>3. CASE WorkStartsAuth \/ WorkFails \/ ReportBegins
  BY <1>3 DEF WorkStartsAuth, WorkFails, ReportBegins, Asks
<1>4. ASSUME NEW t \in Threads, ThreadStep(t) PROVE TriedIsFirst'
  <2>1. UNCHANGED <<listVars, hpc, epc>>  BY <1>4, ThreadTypeNext
  <2> QED BY <2>1
<1>5. CASE ListenerPostsAny  BY <1>5 DEF ListenerPostsAny, ListenerPosts
<1>6. ASSUME NEW list \in CenterLists, Reload(list) PROVE TriedIsFirst'  BY <1>6 DEF Reload
<1>7. ASSUME NEW c \in Centers, Offer(c) PROVE TriedIsFirst'
  <2>1. mCenterList # <<>> => Append(mCenterList, c) # <<>> /\ Head(Append(mCenterList, c)) = Head(mCenterList)
    BY <1>7 DEF SwitchTyped, ListTyped
  <2> QED BY <1>7, <2>1 DEF Offer
<1>8. CASE EndListener \/ EndStep
  BY <1>8 DEF EndStep, EndListener, EndListenerJoin, EndStop, EndJoin, EndJoinAuth, EndDelete, EndMeetsOther, EndHandler
<1>9. CASE UNCHANGED allVars  BY <1>9 DEF allVars
<1> HIDE DEF TriedIsFirst, Switching, switchVars, listVars, EngineFreed
<1> QED BY <1>1, <1>2, <1>3, <1>4, <1>5, <1>6, <1>7, <1>8, <1>9 DEF SwitchNext

\* The handler's queue and the list of centres are safe in every order of
\* heartbeats, commands and the daemon's end.
THEOREM SwitchIsSafe == SwitchSpec => []SwitchSafety
<1>1. SwitchInit => TriedIsFirst  BY DEF SwitchInit, TriedIsFirst, Switching
<1>2. SwitchTyped /\ TriedIsFirst /\ [SwitchNext]_allVars => TriedIsFirst'
  BY TriedNext
<1>3. SwitchTypeOK /\ HandledInOrder /\ HashesOfQueue /\ WildNeedsWake /\ TriedIsFirst => SwitchSafety
  BY DEF SwitchSafety
<1> QED BY <1>1, <1>2, <1>3, SwitchIsTyped, SwitchTypeCorrect, MessagesAreHandledInOrder,
           HashesAreTheQueues, WildReadsNeedAWake, PTL DEF SwitchSpec
=============================================================================
