---------------------------- MODULE MessageHandler ----------------------------
(***************************************************************************)
(* The message thread of the daemons (CommonAPI/handler.cpp): threads post *)
(* messages to a queue, one looper thread hands them to the observer's     *)
(* HandleMessage, and the destructor stops the looper and joins it.        *)
(*                                                                         *)
(* PostMessage runs under mMutex from end to end and is one step.  The     *)
(* looper holds mMutex from its test of the queue to the wait, and during  *)
(* HandleMessage.  The destructor uses no mutex.  What the program does    *)
(* after it has read from an empty queue is undefined: the model notes it  *)
(* (wild) and lets the looper do nothing more.                             *)
(***************************************************************************)
EXTENDS Integers, Sequences, SequencesExt

CONSTANTS
  Messages,  \* messages, each posted at most once
  Hashes,    \* values of Message::hash; two messages may share one
  NoHash,
  MaxWakes   \* bound: returns of pthread_cond_wait without a signal

ASSUME HandlerConstants == NoHash \notin Hashes /\ MaxWakes \in Nat

VARIABLES
  mMutex,         \* "free", "looper", or "lost": a thread has ended with it
  mMessageQueue,  \* Seq(Messages)
  hash,           \* [Messages -> Hashes \cup {NoHash}]
  mQueueHash,     \* hashes of queued messages
  mFinishFlag,
  lpc,            \* where the looper is
  dpc,            \* where the destructor is
  wakes,          \* unsignalled wakes so far
  wild,           \* the looper has read from an empty queue
  missed,         \* history: the destructor's signal found the looper on its way to the wait
  accepted,       \* history: messages put into the queue, in order
  handled         \* history: messages handled, in order

vars == <<mMutex, mMessageQueue, hash, mQueueHash, mFinishFlag, lpc, dpc, wakes, wild, missed, accepted, handled>>

Init ==
  /\ mMutex = "free" /\ mMessageQueue = <<>>
  /\ hash = [m \in Messages |-> NoHash] /\ mQueueHash = {}
  /\ mFinishFlag = FALSE
  /\ lpc = "lock" /\ dpc = "none"
  /\ wakes = 0 /\ wild = FALSE /\ missed = FALSE
  /\ accepted = <<>> /\ handled = <<>>

\* pthread_cond_signal: a waiting looper will wake; without one it is lost.
Signalled == IF lpc = "asleep" THEN "woken" ELSE lpc

queueVars == <<mMessageQueue, hash, mQueueHash, accepted, handled>>

---------------------------------------------------------------------------
(* PostMessage. *)

Post(m, h) ==
  /\ mMutex = "free" /\ dpc # "destroyed" /\ hash[m] = NoHash
  /\ h \notin mQueueHash
  /\ hash' = [hash EXCEPT ![m] = h]
  /\ mQueueHash' = mQueueHash \cup {h}
  /\ mMessageQueue' = Append(mMessageQueue, m)
  /\ accepted' = Append(accepted, m)
  /\ lpc' = Signalled
  /\ UNCHANGED <<mMutex, mFinishFlag, dpc, wakes, wild, missed, handled>>

\* A message with the hash of a queued one is dropped.
PostSame(m, h) ==
  /\ mMutex = "free" /\ dpc # "destroyed" /\ hash[m] = NoHash
  /\ h \in mQueueHash
  /\ hash' = [hash EXCEPT ![m] = h]
  /\ UNCHANGED <<mMutex, mMessageQueue, mQueueHash, mFinishFlag, lpc, dpc, wakes, wild, missed, accepted, handled>>

\* The printf before that is where a poster that is cancelled may end, and leave
\* the mutex locked.
PostCut(m, h) ==
  /\ mMutex = "free" /\ dpc # "destroyed" /\ hash[m] = NoHash
  /\ h \in mQueueHash
  /\ hash' = [hash EXCEPT ![m] = h]
  /\ mMutex' = "lost"
  /\ UNCHANGED <<mMessageQueue, mQueueHash, mFinishFlag, lpc, dpc, wakes, wild, missed, accepted, handled>>

---------------------------------------------------------------------------
(* HandleFunction, the looper. *)

Lock ==
  /\ lpc = "lock" /\ mMutex = "free"
  /\ mMutex' = "looper" /\ lpc' = "test"
  /\ UNCHANGED <<mFinishFlag, dpc, wakes, wild, missed, queueVars>>

Test ==
  /\ lpc = "test"
  /\ lpc' = IF mMessageQueue = <<>> THEN "towait" ELSE "flag"
  /\ UNCHANGED <<mMutex, mFinishFlag, dpc, wakes, wild, missed, queueVars>>

\* pthread_cond_wait gives up the mutex and sleeps in one step ...
Wait ==
  /\ lpc = "towait"
  /\ mMutex' = "free" /\ lpc' = "asleep"
  /\ UNCHANGED <<mFinishFlag, dpc, wakes, wild, missed, queueVars>>

\* ... may return without a signal ...
SpuriousWake ==
  /\ lpc = "asleep" /\ wakes < MaxWakes
  /\ lpc' = "woken" /\ wakes' = wakes + 1
  /\ UNCHANGED <<mMutex, mFinishFlag, dpc, wild, missed, queueVars>>

\* ... and takes the mutex again.  The queue is not tested a second time.
Woken ==
  /\ lpc = "woken" /\ mMutex = "free"
  /\ mMutex' = "looper" /\ lpc' = "flag"
  /\ UNCHANGED <<mFinishFlag, dpc, wakes, wild, missed, queueVars>>

FlagSet ==
  /\ lpc = "flag" /\ mFinishFlag
  /\ lpc' = "unlock"
  /\ UNCHANGED <<mMutex, mFinishFlag, dpc, wakes, wild, missed, queueVars>>

\* front() of an empty queue.
FrontOfEmpty ==
  /\ lpc = "flag" /\ ~mFinishFlag /\ mMessageQueue = <<>>
  /\ lpc' = "gone" /\ wild' = TRUE
  /\ UNCHANGED <<mMutex, mFinishFlag, dpc, wakes, missed, queueVars>>

HandleBegin ==
  /\ lpc = "flag" /\ ~mFinishFlag /\ mMessageQueue # <<>>
  /\ lpc' = "handle"
  /\ UNCHANGED <<mMutex, mFinishFlag, dpc, wakes, wild, missed, queueVars>>

\* Mutant: the hash of a handled message stays.
HandleKeepsHash ==
  /\ lpc = "handle"
  /\ handled' = Append(handled, Head(mMessageQueue))
  /\ mMessageQueue' = Tail(mMessageQueue)
  /\ lpc' = "unlock"
  /\ UNCHANGED <<mMutex, hash, mQueueHash, mFinishFlag, dpc, wakes, wild, missed, accepted>>

\* The observer's HandleMessage has returned.
HandleEnd ==
  /\ lpc = "handle"
  /\ mQueueHash' = mQueueHash \ {hash[Head(mMessageQueue)]}
  /\ handled' = Append(handled, Head(mMessageQueue))
  /\ mMessageQueue' = Tail(mMessageQueue)
  /\ lpc' = "unlock"
  /\ UNCHANGED <<mMutex, hash, mFinishFlag, dpc, wakes, wild, missed, accepted>>

Unlock ==
  /\ lpc = "unlock"
  /\ mMutex' = "free"
  /\ lpc' = IF mFinishFlag THEN "exit" ELSE "lock"
  /\ UNCHANGED <<mFinishFlag, dpc, wakes, wild, missed, queueVars>>

Looper ==
  \/ Lock \/ Test \/ Wait \/ Woken \/ FlagSet \/ FrontOfEmpty \/ HandleBegin
  \/ HandleEnd \/ Unlock

---------------------------------------------------------------------------
(* ~Handler. *)

DestroyFlag ==
  /\ dpc = "none"
  /\ mFinishFlag' = TRUE /\ dpc' = "flagged"
  /\ UNCHANGED <<mMutex, lpc, wakes, wild, missed, queueVars>>

\* Mutant: no signal.
DestroyNoSignal ==
  /\ dpc = "flagged" /\ dpc' = "join"
  /\ UNCHANGED <<mMutex, mFinishFlag, lpc, wakes, wild, missed, queueVars>>

DestroySignal ==
  /\ dpc = "flagged"
  /\ lpc' = Signalled /\ dpc' = "join"
  /\ missed' = (lpc \in {"lock", "test", "towait"})
  /\ UNCHANGED <<mMutex, mFinishFlag, wakes, wild, queueVars>>

DestroyJoin ==
  /\ dpc = "join" /\ lpc = "exit"
  /\ dpc' = "destroyed"
  /\ UNCHANGED <<mMutex, mFinishFlag, lpc, wakes, wild, missed, queueVars>>

Next ==
  \/ \E m \in Messages, h \in Hashes : Post(m, h) \/ PostSame(m, h) \/ PostCut(m, h)
  \/ Looper \/ SpuriousWake
  \/ DestroyFlag \/ DestroySignal \/ DestroyJoin

Spec == Init /\ [][Next]_vars

---------------------------------------------------------------------------
(* Properties. *)

LooperPcs == {"lock", "test", "towait", "asleep", "woken", "flag", "handle", "unlock", "exit", "gone"}

TypeOK ==
  /\ mMutex \in {"free", "looper", "lost"}
  /\ mMessageQueue \in Seq(Messages) /\ accepted \in Seq(Messages) /\ handled \in Seq(Messages)
  /\ hash \in [Messages -> Hashes \cup {NoHash}]
  /\ mQueueHash \subseteq Hashes
  /\ mFinishFlag \in BOOLEAN /\ wild \in BOOLEAN /\ missed \in BOOLEAN
  /\ lpc \in LooperPcs
  /\ dpc \in {"none", "flagged", "join", "destroyed"}
  /\ wakes \in 0 .. MaxWakes
  /\ mMutex = "looper" <=> lpc \in {"test", "towait", "flag", "handle", "unlock", "gone"}

\* Messages are handled once each, in the order in which they were posted.
HandledInOrder == handled \o mMessageQueue = accepted

\* mQueueHash holds the hashes of the queued messages and no others: a message
\* is never refused for one that has been handled.
HashesOfQueue ==
  /\ mQueueHash = {hash[mMessageQueue[i]] : i \in DOMAIN mMessageQueue}
  /\ \A i, j \in DOMAIN mMessageQueue :
       hash[mMessageQueue[i]] = hash[mMessageQueue[j]] => i = j

\* The untested front() after a wait needs a wake without a signal: no signal
\* of PostMessage or of the destructor leads to it.
WildNeedsWake == wild => wakes > 0
=============================================================================
