----------------------------- MODULE CenterSwitch -----------------------------
(***************************************************************************)
(* How GLTX, the network daemon, changes its management centre: the handler *)
(* thread of MessageHandler at work on CHANGE_OTHRE_CENTER_ADDR, the threads *)
(* of the Communicator (the worker and its heartbeats, the authorization    *)
(* thread), another thread that reports through it, the socket listener     *)
(* that gets RELOAD_CONFIG, and the main thread that ends the daemon.       *)
(*                                                                          *)
(* Every request of a Communicator is made under its mRequestMutex, the     *)
(* callbacks for the answer included, and these may post to the handler.    *)
(* The handler deletes the old Communicator (cancel and join the worker,    *)
(* then the authorization thread) with the handler's mMutex held.  A cancel *)
(* is acted on in I/O and sleep; the thread's mutex then stays locked.      *)
(* pthread_mutex_lock is no cancellation point.  mCenterList has no lock;   *)
(* each of its operations is one step here.                                 *)
(*                                                                          *)
(* At its end the daemon stops the listener and the Communicator and frees  *)
(* them before ~Handler ends the handler thread.  Where two threads meet in *)
(* a Communicator or a list that one of them deletes, nothing is known of   *)
(* what follows: the one that deletes goes no further (hpc = "gone", epc =  *)
(* "wild").                                                                 *)
(*                                                                          *)
(* The kinds of messages are not told apart: the handler takes one for a     *)
(* CHANGE_OTHRE_CENTER_ADDR or for another.                                 *)
(*                                                                          *)
(* Left out: START_COMMUNICATOR, as the first centre is connected to; locks *)
(* inside libraries that a cancelled thread may leave locked.               *)
(***************************************************************************)
EXTENDS MessageHandler

CONSTANTS
  Centers,       \* centre addresses
  CenterLists,   \* bound: the source lists a RELOAD_CONFIG finds in the storage
  MaxCenters     \* bound on mCenterList

ASSUME SwitchConstants ==
  Centers # {} /\ CenterLists \subseteq Seq(Centers) /\ MaxCenters \in Nat

\* The reporter is the thread of an update or an upload, or the listener's.
Threads == {"worker", "auth", "reporter"}

VARIABLES
  secret,          \* mAppConfig->SecretMachine(): never changes
  mCenterList,     \* Seq(Centers)
  mCurrentCenter,  \* address of the Communicator and of the configuration
  mState,          \* Communicator::mState
  mRequestMutex,   \* who holds it: a thread, "none", or "lost": a thread has ended with it
  pc,              \* [Threads -> Places]
  wcancel,         \* pthread_cancel was called for the worker
  hpc,             \* the handler inside HandleMessage
  npc,             \* the listener thread; "report": it is the reporter
  epc,             \* the main thread, which ends the daemon
  reloaded         \* history: a reload replaced the list during the switch

commVars   == <<mState, mRequestMutex, pc, wcancel>>
listVars   == <<secret, mCenterList, mCurrentCenter, reloaded>>
switchVars == <<commVars, listVars, hpc, npc, epc>>
allVars    == <<vars, switchVars>>

\* Where a thread is: outside a request ("sleep"), in line for mRequestMutex
\* ("ask"), in I/O with it ("io"), in PostMessage with it ("callback") or without
\* ("post", and "last" after the loop).
Places == {"none", "sleep", "ask", "io", "callback", "post", "last", "ended"}
InPostMessage(t) == pc[t] \in {"callback", "post", "last"}

SwitchInit ==
  /\ Init
  /\ secret \in BOOLEAN
  /\ mCenterList \in CenterLists
  /\ mCurrentCenter = CHOOSE c \in Centers : TRUE
  /\ mState = TRUE /\ mRequestMutex = "none"
  /\ pc = [t \in Threads |-> IF t = "worker" THEN "sleep" ELSE "none"]
  /\ wcancel = FALSE
  /\ hpc = "none" /\ npc = "idle" /\ epc = "none"
  /\ reloaded = FALSE

Goto(t, l) == pc' = [pc EXCEPT ![t] = l]

\* Bound: a thread goes to PostMessage only with a message left for it.
MessageLeft ==
  Cardinality({m \in Messages : hash[m] = NoHash})
    > Cardinality({t \in Threads : InPostMessage(t)}) + (IF npc = "post" THEN 1 ELSE 0)

OneOf(S) == IF S = {} THEN {} ELSE {CHOOSE x \in S : TRUE}

\* Messages are made when they are posted; a random hash is that of a queued
\* message or another.
NewMessages == OneOf({m \in Messages : hash[m] = NoHash})
NewHashes == mQueueHash \cup OneOf(Hashes \ mQueueHash)

Posts(m, h) == Post(m, h) \/ PostSame(m, h)

---------------------------------------------------------------------------
(* Requests: APIService::httpRequest and the callbacks for its answer.     *)

\* The thread for authorizations is started after the first heartbeats.
WorkStartsAuth ==
  /\ pc["worker"] = "sleep" /\ pc["auth"] = "none"
  /\ Goto("auth", "sleep")
  /\ UNCHANGED <<vars, mState, mRequestMutex, wcancel, listVars, hpc, npc, epc>>

\* mRequestMutex is free, or the thread waits for it ...
Asks(t) ==
  /\ IF mRequestMutex = "none" THEN mRequestMutex' = t /\ Goto(t, "io")
                               ELSE UNCHANGED mRequestMutex /\ Goto(t, "ask")
  /\ UNCHANGED <<vars, mState, wcancel, listVars, hpc, epc>>

RequestBegins(t) == pc[t] = "sleep" /\ Asks(t) /\ UNCHANGED npc

\* A report: on the listener's thread, or on one of its own.
ReportBegins ==
  /\ pc["reporter"] = "none" /\ hpc # "start" /\ epc # "freed"
  /\ (npc = "idle" /\ npc' = "report") \/ UNCHANGED npc
  /\ Asks("reporter")

\* ... until it gets it.
RequestGoesOn(t) ==
  /\ pc[t] = "ask" /\ mRequestMutex = "none"
  /\ mRequestMutex' = t /\ Goto(t, "io")
  /\ UNCHANGED <<vars, mState, wcancel, listVars, hpc, npc, epc>>

\* Thread t leaves its request for place l, the listener's thread for n.
Leaves(t, l, n) ==
  /\ Goto(t, IF t = "reporter" THEN "none" ELSE l)
  /\ npc' = IF t = "reporter" /\ npc = "report" THEN n ELSE npc

\* The request is over.  If it was in vain, that was the first error, or within
\* the interval since it, or there is no other centre to try.
RequestEnds(t) ==
  /\ pc[t] = "io" /\ Leaves(t, "sleep", "idle")
  /\ mRequestMutex' = "none"
  /\ UNCHANGED <<vars, mState, wcancel, listVars, hpc, epc>>

\* RespondConnectError goes on to PostMessage; the interval since the first error
\* may be over at any time.
RespondSwitch == mCenterList # <<>> /\ MessageLeft

\* HEAD_ERROR, or COMM_REMOTE with logs to upload: a callback goes to PostMessage,
\* with a CHANGE_OTHRE_CENTER_ADDR or a REPORT_RUA_LOG.
CallbackPosts(t) ==
  /\ pc[t] = "io"
  /\ MessageLeft /\ Goto(t, "callback")
  /\ UNCHANGED <<vars, mState, mRequestMutex, wcancel, listVars, hpc, npc, epc>>

\* The fifth equal error of a heartbeat, which has given mRequestMutex back.
WorkFails ==
  /\ pc["worker"] = "io" /\ RespondSwitch
  /\ mRequestMutex' = "none" /\ Goto("worker", "post")
  /\ UNCHANGED <<vars, mState, wcancel, listVars, hpc, npc, epc>>

\* The loops of Work and Auth end; that of Work perhaps with an error.
LoopEnds(t) ==
  /\ t # "reporter" /\ pc[t] = "sleep" /\ ~mState
  /\ \/ Goto(t, "ended")
     \/ t = "worker" /\ RespondSwitch /\ Goto(t, "last")
  /\ UNCHANGED <<vars, mState, mRequestMutex, wcancel, listVars, hpc, npc, epc>>

\* PostMessage has returned.
ThreadPosts(t, m, h) ==
  /\ InPostMessage(t)
  /\ Posts(m, h)
  /\ Goto(t, CASE pc[t] = "callback" -> "io" [] pc[t] = "post" -> "sleep" [] pc[t] = "last" -> "ended")
  /\ UNCHANGED <<mState, mRequestMutex, wcancel, listVars, hpc, npc, epc>>

\* pthread_cancel was called for thread t; for the authorization thread, by
\* whoever waits for it.
Cancelled(t) ==
  \/ t = "worker" /\ wcancel
  \/ t = "auth" /\ (hpc = "joinauth" \/ epc \in {"joinauth", "delauth"})
  \/ t = "reporter" /\ npc = "report" /\ epc = "listener"

\* A thread that ends with mRequestMutex never gives it back.
Orphan(t) == mRequestMutex' = IF mRequestMutex = t THEN "lost" ELSE mRequestMutex

ThreadCancelled(t) ==
  /\ Cancelled(t) /\ pc[t] \in {"sleep", "io"}
  /\ Leaves(t, "ended", "ended") /\ Orphan(t)
  /\ UNCHANGED <<vars, mState, wcancel, listVars, hpc, epc>>

\* ... nor mMutex.
ThreadCut(t, m, h) ==
  /\ Cancelled(t) /\ InPostMessage(t)
  /\ PostCut(m, h)
  /\ Leaves(t, "ended", "ended") /\ Orphan(t)
  /\ UNCHANGED <<mState, wcancel, listVars, hpc, epc>>

---------------------------------------------------------------------------
(* The listener: RELOAD_CONFIG. *)

Switching == hpc \in {"cancel", "join", "joinauth", "start", "pop"}

Reload(list) ==
  /\ npc = "idle" /\ ~secret /\ MessageLeft
  /\ mCenterList' = list /\ reloaded' = Switching
  /\ npc' = "post"
  /\ UNCHANGED <<vars, commVars, secret, mCurrentCenter, hpc, epc>>

\* On a secret machine the command brings one address.
Offer(c) ==
  /\ npc = "idle" /\ secret /\ c # mCurrentCenter /\ Len(mCenterList) < MaxCenters /\ MessageLeft
  /\ mCenterList' = Append(mCenterList, c)
  /\ npc' = "post"
  /\ UNCHANGED <<vars, commVars, secret, mCurrentCenter, reloaded, hpc, epc>>

ListenerPosts(m, h) ==
  /\ npc = "post"
  /\ (Posts(m, h) /\ npc' = "idle") \/ (epc = "listener" /\ PostCut(m, h) /\ npc' = "ended")
  /\ UNCHANGED <<commVars, listVars, hpc, epc>>

---------------------------------------------------------------------------
(* The handler: CHANGE_OTHRE_CENTER_ADDR, InitCommunication, ~Communicator. *)

\* What ~MainEngine frees is gone; HandleMessage is then the base class's.
EngineFreed == epc = "freed"

\* The main thread is inside Communicator::Stop.
EndJoins == epc \in {"join", "joinauth", "deljoin", "delauth"}

\* Another step of the looper, outside HandleMessage.
HandlerLoops ==
  /\ Lock \/ Test \/ Wait \/ Woken \/ FlagSet \/ FrontOfEmpty \/ Unlock
  /\ UNCHANGED switchVars

HandlerWakes == SpuriousWake /\ UNCHANGED switchVars

\* No centre, or no engine, or another message: a REPORT_RUA_LOG only creates a
\* thread that reports.
HandleOther ==
  /\ HandleBegin
  /\ hpc' = "done"
  /\ UNCHANGED <<commVars, listVars, npc, epc>>

HandleCenter ==
  /\ HandleBegin /\ mCenterList # <<>> /\ ~EngineFreed /\ ~EndJoins
  /\ mCurrentCenter' = Head(mCenterList) /\ hpc' = "cancel"
  /\ UNCHANGED <<commVars, secret, mCenterList, reloaded, npc, epc>>

\* The Communicator is deleted under the main thread that joins its threads.
HandleStopped ==
  /\ HandleBegin /\ mCenterList # <<>> /\ EndJoins
  /\ hpc' = "gone" /\ epc' = "wild"
  /\ UNCHANGED <<commVars, listVars, npc>>

\* Mutant: the join without the cancel.
StopOnlyFlag ==
  /\ hpc = "cancel"
  /\ mState' = FALSE /\ hpc' = "join"
  /\ UNCHANGED <<vars, mRequestMutex, pc, wcancel, listVars, npc, epc>>

StopCancel ==
  /\ hpc = "cancel"
  /\ mState' = FALSE /\ wcancel' = TRUE
  /\ hpc' = "join"
  /\ UNCHANGED <<vars, mRequestMutex, pc, listVars, npc, epc>>

AuthEnded == pc["auth"] \in {"none", "ended"}

\* The worker is joined; the authorization thread is cancelled ...
StopJoin ==
  /\ hpc = "join" /\ pc["worker"] = "ended"
  /\ hpc' = "joinauth"
  /\ UNCHANGED <<vars, commVars, listVars, npc, epc>>

\* ... and joined.  A report may still be on its way through what is deleted.
StopJoinAuth ==
  /\ hpc = "joinauth" /\ AuthEnded
  /\ Goto("auth", "none")
  /\ hpc' = IF pc["reporter"] = "none" THEN "start" ELSE "gone"
  /\ UNCHANGED <<vars, mState, mRequestMutex, wcancel, listVars, npc, epc>>

\* The new Communicator.
Start ==
  /\ hpc = "start"
  /\ mState' = TRUE /\ Goto("worker", "sleep") /\ wcancel' = FALSE
  /\ mRequestMutex' = "none"
  /\ hpc' = "pop"
  /\ UNCHANGED <<vars, listVars, npc, epc>>

PopCenter ==
  /\ hpc = "pop" /\ mCenterList # <<>>
  /\ mCenterList' = Tail(mCenterList) /\ hpc' = "done"
  /\ UNCHANGED <<vars, commVars, secret, mCurrentCenter, reloaded, npc, epc>>

\* pop() of an empty queue: nothing is known of what follows.
PopOfEmpty ==
  /\ hpc = "pop" /\ mCenterList = <<>>
  /\ hpc' = "gone"
  /\ UNCHANGED <<vars, commVars, listVars, npc, epc>>

HandleDone ==
  /\ hpc = "done" /\ HandleEnd
  /\ hpc' = "none" /\ reloaded' = FALSE
  /\ UNCHANGED <<commVars, secret, mCenterList, mCurrentCenter, npc, epc>>

HandlerStep ==
  \/ HandlerLoops \/ HandleOther \/ HandleCenter \/ HandleStopped \/ StopCancel \/ StopJoin
  \/ StopJoinAuth \/ Start \/ PopCenter \/ PopOfEmpty \/ HandleDone

---------------------------------------------------------------------------
(* The daemon's end: MainEngine::Stop, ~MainEngine, ~Handler. *)

\* The signal to exit has come; the listener is cancelled ...
EndListener ==
  /\ epc = "none" /\ epc' = "listener"
  /\ UNCHANGED <<vars, commVars, listVars, hpc, npc>>

\* ... and joined.
EndListenerJoin ==
  /\ epc = "listener" /\ npc \in {"idle", "ended"}
  /\ epc' = "stop" /\ npc' = "ended"
  /\ UNCHANGED <<vars, commVars, listVars, hpc>>

\* The handler is deleting or making the Communicator.
HandlerHasIt == hpc \in {"cancel", "join", "joinauth", "start"}

\* Communicator::Stop, called by MainEngine::Stop and again by ~Communicator.
EndStop ==
  /\ epc \in {"stop", "delete"} /\ ~HandlerHasIt
  /\ mState' = FALSE /\ wcancel' = TRUE
  /\ epc' = IF epc = "stop" THEN "join" ELSE "deljoin"
  /\ UNCHANGED <<vars, mRequestMutex, pc, listVars, hpc, npc>>

EndJoin ==
  /\ epc \in {"join", "deljoin"} /\ pc["worker"] = "ended"
  /\ epc' = IF epc = "join" THEN "joinauth" ELSE "delauth"
  /\ UNCHANGED <<vars, commVars, listVars, hpc, npc>>

EndJoinAuth ==
  /\ epc = "joinauth" /\ AuthEnded
  /\ epc' = "delete" /\ Goto("auth", "none")
  /\ UNCHANGED <<vars, mState, mRequestMutex, wcancel, listVars, hpc, npc>>

\* The Communicator is deleted, and mCenterList goes with the MainEngine.
EndDelete ==
  /\ epc = "delauth" /\ AuthEnded /\ hpc # "pop" /\ pc["reporter"] = "none"
  /\ epc' = "freed" /\ Goto("auth", "none")
  /\ UNCHANGED <<vars, mState, mRequestMutex, wcancel, listVars, hpc, npc>>

EndMeetsOther ==
  /\ \/ epc \in {"stop", "delete"} /\ HandlerHasIt
     \/ epc = "delauth" /\ AuthEnded /\ (hpc = "pop" \/ pc["reporter"] # "none")
  /\ epc' = "wild"
  /\ UNCHANGED <<vars, commVars, listVars, hpc, npc>>

EndHandler ==
  /\ EngineFreed
  /\ DestroyFlag \/ DestroySignal \/ DestroyJoin
  /\ UNCHANGED switchVars

EndStep ==
  EndListenerJoin \/ EndStop \/ EndJoin \/ EndJoinAuth \/ EndDelete \/ EndMeetsOther \/ EndHandler

---------------------------------------------------------------------------

ThreadPostsAny(t) == \E m \in NewMessages, h \in NewHashes : ThreadPosts(t, m, h)
ThreadCutAny(t) == \E m \in NewMessages, h \in NewHashes : ThreadCut(t, m, h)
ListenerPostsAny == \E m \in NewMessages, h \in NewHashes : ListenerPosts(m, h)
PostsAny == ListenerPostsAny \/ \E t \in Threads : ThreadPostsAny(t)

ThreadStep(t) ==
  \/ RequestBegins(t) \/ RequestGoesOn(t) \/ RequestEnds(t) \/ CallbackPosts(t)
  \/ LoopEnds(t) \/ ThreadPostsAny(t) \/ ThreadCancelled(t)
  \/ ThreadCutAny(t)

SwitchNext ==
  \/ HandlerStep \/ HandlerWakes
  \/ WorkStartsAuth \/ WorkFails \/ ReportBegins
  \/ \E t \in Threads : ThreadStep(t)
  \/ \E list \in CenterLists : Reload(list)
  \/ \E c \in Centers : Offer(c)
  \/ ListenerPostsAny
  \/ EndListener \/ EndStep

\* Threads run on.  A request ends (curl has a timeout); a cancelled thread that
\* waits for mRequestMutex gets it when it is free again and again; a cancel is
\* acted on at the next point for it, and a post is made when mMutex is free
\* again and again (one condition is enough for these: the bound on messages
\* makes both come to an end).  An end that has begun goes on.
SwitchFairness ==
  /\ WF_allVars(HandlerStep) /\ WF_allVars(EndStep)
  /\ WF_allVars(\E t \in Threads : RequestEnds(t))
  /\ SF_allVars(\E t \in Threads : Cancelled(t) /\ RequestGoesOn(t))
  /\ SF_allVars(PostsAny \/ \E t \in Threads : ThreadCancelled(t))

SwitchSpec == SwitchInit /\ [][SwitchNext]_allVars /\ SwitchFairness

---------------------------------------------------------------------------
(* Properties. *)

SwitchTypeOK ==
  /\ TypeOK
  /\ mCenterList \in Seq(Centers) /\ mCurrentCenter \in Centers
  /\ {secret, mState, wcancel, reloaded} \subseteq BOOLEAN
  /\ pc \in [Threads -> Places] /\ mRequestMutex \in Threads \cup {"none", "lost"}
  /\ hpc \in {"none", "cancel", "join", "joinauth", "start", "pop", "done", "gone"}
  /\ npc \in {"idle", "post", "report", "ended"}
  /\ epc \in {"none", "listener", "stop", "join", "joinauth", "delete", "deljoin", "delauth", "freed", "wild"}
  /\ hpc # "none" <=> lpc = "handle"

\* The centre that is being tried is the first of the list until it is popped,
\* which it therefore is from a list that is not empty, as long as no
\* RELOAD_CONFIG comes during the switch (without a lock around the list,
\* neither holds when one does).
TriedIsFirst ==
  Switching =>
    reloaded \/ (mCenterList # <<>> /\ Head(mCenterList) = mCurrentCenter)

\* Messages are handled once and in order, hashes are those of the queue, and
\* neither queue nor list is read when empty but for a wake or a reload.
SwitchSafety == SwitchTypeOK /\ HandledInOrder /\ HashesOfQueue /\ WildNeedsWake /\ TriedIsFirst

\* The handler holds mMutex and waits for a thread that waits for it, in
\* PostMessage or for one that is there with mRequestMutex, or for
\* mRequestMutex, which a cancelled thread has left locked.
HandlerStuckWith(t) ==
  \/ InPostMessage(t)
  \/ pc[t] = "ask" /\ (mRequestMutex = "lost" \/ \E o \in Threads : mRequestMutex = o /\ InPostMessage(o))

HandlerStuck ==
  (hpc = "join" /\ HandlerStuckWith("worker")) \/ (hpc = "joinauth" /\ HandlerStuckWith("auth"))

\* The daemon's centre change ends, except when the worker or the authorization
\* thread, when the handler joins it, is on its way into the mutex the handler
\* holds, or behind a mutex that a cancelled thread holds for ever.
SwitchEndsOrStuck == hpc = "cancel" ~> hpc \in {"done", "gone"} \/ HandlerStuck

\* The main thread joins one that waits for mRequestMutex.
EndWaitsBehindIt ==
  \/ epc \in {"join", "deljoin"} /\ pc["worker"] = "ask"
  \/ epc \in {"joinauth", "delauth"} /\ pc["auth"] = "ask"

\* The daemon's end comes to its end, except when it meets the handler or a
\* report in the Communicator or the list, or waits for a thread behind a mutex
\* that a cancelled thread holds for ever or for a handler that is stuck as
\* above, or the handler's queue or list was read when empty, or ~Handler
\* signalled a looper on its way to the wait.
DaemonEndsOrStuck ==
  epc = "listener" ~>
    \/ dpc = "destroyed" \/ epc = "wild" \/ wild \/ hpc = "gone"
    \/ HandlerStuck \/ mMutex = "lost"
    \/ mRequestMutex = "lost" /\ EndWaitsBehindIt
    \/ missed /\ lpc = "asleep"
=============================================================================
