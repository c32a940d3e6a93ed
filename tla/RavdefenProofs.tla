----------------------------- MODULE RavdefenProofs -----------------------------
(***************************************************************************)
(* Theorems about the two parts of the kernel module ravdefen.             *)
(*                                                                         *)
(* DefenChannel, for any number of requests and channels: its type         *)
(* invariant, the balance of references and semaphores, that an answer     *)
(* reaches its own request, what a timeout and the daemon's death can do,  *)
(* and that it implements Verdicts.                                        *)
(*                                                                         *)
(* ObjTable, for any number of calls, descriptors, inodes and blocks and   *)
(* any size of the table: its types, the counter of linked entries, that   *)
(* every entry's count is the number of its references, that what is       *)
(* written is noted, and what is left after the module's exit.             *)
(***************************************************************************)
EXTENDS DefenChannel, ObjTable, FiniteSetTheorems, TLAPS

-----------------------------------------------------------------------------
(* Parts of the inductive invariant.                                       *)

Waited == {"wget", "wait", "wfree", "free", "read", "done"}
Passed == {"wfree", "free", "read", "done"}
Upped  == {"rel", "drop", "served"}

\* The semaphore of a channel in use: taken by __alloc_seq, raised by the
\* answer, taken by __wait_seq unless that timed out.
SemOf(r) ==
  One(pc[r] = "down") + One(place[r] \in Upped) - One(pc[r] \in Passed /\ r \notin timedOut)

\* A channel's request knows it, and its counts follow from where the request
\* and its answer are.
ChannelInv(c) ==
  /\ msg[c] # NoRequest => seq[msg[c]] = c /\ Refs(msg[c]) > 0
  /\ valid[c] = IF msg[c] = NoRequest THEN 0 ELSE Refs(msg[c])
  /\ sem[c] = IF msg[c] = NoRequest THEN 1 ELSE SemOf(msg[c])

\* A request has a channel from __alloc_seq on, a question on its way once it
\* waits, and stays the channel's as long as there are references.
Control(r) ==
  /\ pc[r] \in {"idle", "alloc"} => seq[r] = -1
  /\ pc[r] \notin {"idle", "alloc", "send", "read", "done"} => seq[r] # -1
  /\ place[r] # "kernel" => pc[r] \in Waited
  /\ pc[r] \in Waited \ {"read", "done"} => place[r] # "kernel"
  /\ place[r] \in InInput => seq[r] # -1
  /\ seq[r] # -1 /\ Refs(r) > 0 => msg[seq[r]] = r

\* Who has passed the wait without a timeout has been answered.
History(r) ==
  /\ r \in timedOut => pc[r] \in Passed
  /\ pc[r] \in Passed /\ r \notin timedOut /\ seq[r] # -1 /\ place[r] # "kernel"
       => place[r] \in Upped
  /\ r \in wild => r \in timedOut
  /\ place[r] \in InInput => decided[r] # NoVerdict
  /\ decided[r] # NoVerdict => place[r] \notin {"kernel", "inbox"} /\ seq[r] # -1

\* The buffer holds the initial verdict until the answer is copied.
Buffer(r) ==
  /\ buf[r] \in {UV_pass, decided[r]}
  /\ place[r] \in {"up"} \cup Upped /\ seq[r] # -1 => buf[r] = decided[r] \/ r \in timedOut
  /\ result[r] # NoVerdict <=> pc[r] = "done"
  /\ pc[r] = "done" => result[r] = buf[r]

IInv ==
  /\ TypeOK
  /\ \A c \in Channels : ChannelInv(c)
  /\ \A r \in Requests : Control(r) /\ History(r) /\ Buffer(r)

-----------------------------------------------------------------------------
(* A step of one request or of its answer changes one channel.             *)

Same(q) ==
  /\ pc'[q] = pc[q] /\ seq'[q] = seq[q] /\ place'[q] = place[q]
  /\ buf'[q] = buf[q] /\ result'[q] = result[q] /\ decided'[q] = decided[q]
  /\ q \in timedOut' <=> q \in timedOut
  /\ q \in wild' <=> q \in wild

SameChannel(c) == valid'[c] = valid[c] /\ sem'[c] = sem[c] /\ msg'[c] = msg[c]

\* Counts of a request that does not move.
LEMMA SameRefs == ASSUME NEW q, Same(q) PROVE Refs(q)' = Refs(q) /\ SemOf(q)' = SemOf(q)
  BY DEF Same, Refs, One, OwnRefs, AnswerRefs, SemOf

\* A channel that does not change, of a request that does not move.
LEMMA OtherChannel ==
  ASSUME NEW c \in Channels, ChannelInv(c), SameChannel(c), msg[c] # NoRequest => Same(msg[c])
  PROVE  ChannelInv(c)'
  BY SameRefs DEF ChannelInv, SameChannel, Same

\* A request that does not move, while its channel stays its own.
LEMMA OtherRequest ==
  ASSUME NEW q \in Requests, Control(q), History(q), Buffer(q), Same(q),
         seq[q] # -1 /\ Refs(q) > 0 => msg'[seq[q]] = q
  PROVE  Control(q)' /\ History(q)' /\ Buffer(q)'
<1>1. Refs(q)' = Refs(q)  BY SameRefs
<1>2. Control(q)'  BY <1>1 DEF Control, Same
<1> QED BY <1>2 DEF History, Buffer, Same

\* A step of r that changes at most the channel that is r's own.
LEMMA OwnChannel ==
  ASSUME IInv, TypeOK', NEW r \in Requests, \A q \in Requests \ {r} : Same(q),
         seq'[r] = seq[r], \A c \in Channels : c # seq[r] => SameChannel(c),
         Control(r)', History(r)', Buffer(r)',
         seq[r] \in Channels, msg[seq[r]] = r, ChannelInv(seq[r])'
  PROVE  IInv'
<1>1. ASSUME NEW c \in Channels PROVE ChannelInv(c)'
  <2>1. CASE c = seq[r]  BY <2>1
  <2>2. CASE c # seq[r]
    <3>1. msg[c] # r /\ (msg[c] # NoRequest => msg[c] \in Requests)
      BY <2>2, DefenConstants DEF IInv, TypeOK, ChannelInv
    <3> QED BY <2>2, <3>1, OtherChannel DEF IInv
  <2> QED BY <2>1, <2>2
<1>2. ASSUME NEW q \in Requests PROVE Control(q)' /\ History(q)' /\ Buffer(q)'
  <2>1. CASE q = r  BY <2>1
  <2>2. CASE q # r
    <3>1. seq[q] # -1 /\ Refs(q) > 0 => msg'[seq[q]] = q
      BY <2>2 DEF IInv, TypeOK, Control, SameChannel
    <3> QED BY <2>2, <3>1, OtherRequest DEF IInv
  <2> QED BY <2>1, <2>2
<1> QED BY <1>1, <1>2 DEF IInv

\* A step of r that changes no channel and no count of r's.
LEMMA KeepsChannels ==
  ASSUME IInv, TypeOK', NEW r \in Requests, \A q \in Requests \ {r} : Same(q),
         seq'[r] = seq[r], \A c \in Channels : c # seq[r] => SameChannel(c),
         Control(r)', History(r)', Buffer(r)',
         seq[r] # -1 => /\ SameChannel(seq[r])
                        /\ msg[seq[r]] = r => Refs(r)' = Refs(r) /\ SemOf(r)' = SemOf(r)
  PROVE  IInv'
<1>0. \A c \in Channels : SameChannel(c)  BY DEF Channels
<1>1. ASSUME NEW c \in Channels PROVE ChannelInv(c)'
  <2>1. CASE msg[c] = r
    <3>1. seq[r] = c /\ ChannelInv(c)  BY <2>1, DefenConstants DEF IInv, ChannelInv
    <3>2. c # -1  BY DEF Channels
    <3> QED BY <1>0, <2>1, <3>1, <3>2 DEF ChannelInv, SameChannel
  <2>2. CASE msg[c] # r
    <3>1. msg[c] # NoRequest => msg[c] \in Requests  BY DEF IInv, TypeOK
    <3> QED BY <1>0, <2>2, <3>1, OtherChannel DEF IInv
  <2> QED BY <2>1, <2>2
<1>2. ASSUME NEW q \in Requests PROVE Control(q)' /\ History(q)' /\ Buffer(q)'
  <2>1. CASE q = r  BY <2>1
  <2>2. CASE q # r
    <3>1. seq[q] # -1 /\ Refs(q) > 0 => msg'[seq[q]] = q
      BY <1>0, <2>2 DEF IInv, TypeOK, Control, SameChannel
    <3> QED BY <2>2, <3>1, OtherRequest DEF IInv
  <2> QED BY <2>1, <2>2
<1> QED BY <1>1, <1>2 DEF IInv

\* Giving back a reference that exists.
LEMMA FreeType ==
  ASSUME TypeOK, NEW c \in Channels, valid[c] \in Nat \ {0}, FreeSeq(c)
  PROVE  /\ valid' \in [Channels -> Nat] /\ sem' \in [Channels -> {0, 1}]
         /\ msg' \in [Channels -> Requests \cup {NoRequest}]
<1>1. valid' = [valid EXCEPT ![c] = valid[c] - 1] /\ valid[c] - 1 \in Nat  BY DEF FreeSeq
<1>2. valid' \in [Channels -> Nat]  BY <1>1 DEF TypeOK
<1> QED BY <1>2 DEF TypeOK, FreeSeq

-----------------------------------------------------------------------------
(* The actions.                                                            *)

\* A call that is not asked about.
LEMMA NotAskedInv == ASSUME IInv, NEW r \in Requests, NotAsked(r) PROVE IInv'
<1>1. TypeOK /\ Control(r) /\ History(r) /\ Buffer(r)  BY DEF IInv
<1>2. TypeOK'
  BY <1>1, DefenConstants DEF TypeOK, NotAsked, history, Goto, Pcs, Places, Channels, InInput,
       Verdict
<1>3. \A q \in Requests \ {r} : Same(q)  BY <1>1 DEF NotAsked, history, Goto, TypeOK, Same
<1>4. seq'[r] = seq[r] /\ \A c \in Channels : c # seq[r] => SameChannel(c)
  BY <1>1 DEF NotAsked, history, Goto, TypeOK, SameChannel
<1>5. Control(r)' /\ History(r)' /\ Buffer(r)'
  BY <1>1, DefenConstants DEF NotAsked, history, Goto, TypeOK, Control, History, Buffer, Refs, One,
       OwnRefs, AnswerRefs, Waited, Passed, Upped, InInput, Verdict
<1>6. seq[r] # -1 => SameChannel(seq[r]) /\ (msg[seq[r]] = r => Refs(r)' = Refs(r) /\ SemOf(r)' = SemOf(r))
  BY <1>1 DEF NotAsked, history, Goto, TypeOK, SameChannel, Control, History, Buffer, Refs, One,
       OwnRefs, AnswerRefs, Waited, Passed, Upped, InInput, SemOf
<1> QED BY <1>2, <1>3, <1>4, <1>5, <1>6, KeepsChannels

\* A synchronous call begins.
LEMMA AskSyncInv == ASSUME IInv, NEW r \in Requests, AskSync(r) PROVE IInv'
<1>1. TypeOK /\ Control(r) /\ History(r) /\ Buffer(r)  BY DEF IInv
<1>2. TypeOK'
  BY <1>1, DefenConstants DEF TypeOK, AskSync, history, Goto, Pcs, Places, Channels, InInput,
       Verdict
<1>3. \A q \in Requests \ {r} : Same(q)  BY <1>1 DEF AskSync, history, Goto, TypeOK, Same
<1>4. seq'[r] = seq[r] /\ \A c \in Channels : c # seq[r] => SameChannel(c)
  BY <1>1 DEF AskSync, history, Goto, TypeOK, SameChannel
<1>5. Control(r)' /\ History(r)' /\ Buffer(r)'
  BY <1>1, DefenConstants DEF AskSync, history, Goto, TypeOK, Control, History, Buffer, Refs, One,
       OwnRefs, AnswerRefs, Waited, Passed, Upped, InInput, Verdict
<1>6. seq[r] # -1 => SameChannel(seq[r]) /\ (msg[seq[r]] = r => Refs(r)' = Refs(r) /\ SemOf(r)' = SemOf(r))
  BY <1>1 DEF AskSync, history, Goto, TypeOK, SameChannel, Control, History, Buffer, Refs, One,
       OwnRefs, AnswerRefs, Waited, Passed, Upped, InInput, SemOf
<1> QED BY <1>2, <1>3, <1>4, <1>5, <1>6, KeepsChannels

\* An asynchronous one.
LEMMA AskAsyncInv == ASSUME IInv, NEW r \in Requests, AskAsync(r) PROVE IInv'
<1>1. TypeOK /\ Control(r) /\ History(r) /\ Buffer(r)  BY DEF IInv
<1>2. TypeOK'
  BY <1>1, DefenConstants DEF TypeOK, AskAsync, history, Goto, Pcs, Places, Channels, InInput,
       Verdict
<1>3. \A q \in Requests \ {r} : Same(q)  BY <1>1 DEF AskAsync, history, Goto, TypeOK, Same
<1>4. seq'[r] = seq[r] /\ \A c \in Channels : c # seq[r] => SameChannel(c)
  BY <1>1 DEF AskAsync, history, Goto, TypeOK, SameChannel
<1>5. Control(r)' /\ History(r)' /\ Buffer(r)'
  BY <1>1, DefenConstants DEF AskAsync, history, Goto, TypeOK, Control, History, Buffer, Refs, One,
       OwnRefs, AnswerRefs, Waited, Passed, Upped, InInput, Verdict
<1>6. seq[r] # -1 => SameChannel(seq[r]) /\ (msg[seq[r]] = r => Refs(r)' = Refs(r) /\ SemOf(r)' = SemOf(r))
  BY <1>1 DEF AskAsync, history, Goto, TypeOK, SameChannel, Control, History, Buffer, Refs, One,
       OwnRefs, AnswerRefs, Waited, Passed, Upped, InInput, SemOf
<1> QED BY <1>2, <1>3, <1>4, <1>5, <1>6, KeepsChannels

\* No channel is free.
LEMMA AllocFullInv == ASSUME IInv, NEW r \in Requests, AllocFull(r) PROVE IInv'
<1>1. TypeOK /\ Control(r) /\ History(r) /\ Buffer(r)  BY DEF IInv
<1>2. TypeOK'
  BY <1>1, DefenConstants DEF TypeOK, AllocFull, history, Goto, Pcs, Places, Channels, InInput,
       Verdict
<1>3. \A q \in Requests \ {r} : Same(q)  BY <1>1 DEF AllocFull, history, Goto, TypeOK, Same
<1>4. seq'[r] = seq[r] /\ \A c \in Channels : c # seq[r] => SameChannel(c)
  BY <1>1 DEF AllocFull, history, Goto, TypeOK, SameChannel
<1>5. Control(r)' /\ History(r)' /\ Buffer(r)'
  BY <1>1, DefenConstants DEF AllocFull, history, Goto, TypeOK, Control, History, Buffer, Refs, One,
       OwnRefs, AnswerRefs, Waited, Passed, Upped, InInput, Verdict
<1>6. seq[r] # -1 => SameChannel(seq[r]) /\ (msg[seq[r]] = r => Refs(r)' = Refs(r) /\ SemOf(r)' = SemOf(r))
  BY <1>1 DEF AllocFull, history, Goto, TypeOK, SameChannel, Control, History, Buffer, Refs, One,
       OwnRefs, AnswerRefs, Waited, Passed, Upped, InInput, SemOf
<1> QED BY <1>2, <1>3, <1>4, <1>5, <1>6, KeepsChannels

\* The question is sent.
LEMMA SendOkInv == ASSUME IInv, NEW r \in Requests, SendOk(r) PROVE IInv'
<1>1. TypeOK /\ Control(r) /\ History(r) /\ Buffer(r)  BY DEF IInv
<1>2. TypeOK'
  BY <1>1, DefenConstants DEF TypeOK, SendOk, history, Goto, Move, Pcs, Places, Channels, InInput,
       Verdict
<1>3. \A q \in Requests \ {r} : Same(q)  BY <1>1 DEF SendOk, history, Goto, Move, TypeOK, Same
<1>4. seq'[r] = seq[r] /\ \A c \in Channels : c # seq[r] => SameChannel(c)
  BY <1>1 DEF SendOk, history, Goto, Move, TypeOK, SameChannel
<1>5. Control(r)' /\ History(r)' /\ Buffer(r)'
  BY <1>1, DefenConstants DEF SendOk, history, Goto, Move, TypeOK, Control, History, Buffer, Refs,
       One, OwnRefs, AnswerRefs, Waited, Passed, Upped, InInput, Verdict
<1>6. seq[r] # -1 => SameChannel(seq[r]) /\ (msg[seq[r]] = r => Refs(r)' = Refs(r) /\ SemOf(r)' = SemOf(r))
  BY <1>1 DEF SendOk, history, Goto, Move, TypeOK, SameChannel, Control, History, Buffer, Refs, One,
       OwnRefs, AnswerRefs, Waited, Passed, Upped, InInput, SemOf
<1> QED BY <1>2, <1>3, <1>4, <1>5, <1>6, KeepsChannels

\* The question is not sent.
LEMMA SendFailInv == ASSUME IInv, NEW r \in Requests, SendFail(r) PROVE IInv'
<1>1. TypeOK /\ Control(r) /\ History(r) /\ Buffer(r)  BY DEF IInv
<1>2. TypeOK'
  BY <1>1, DefenConstants DEF TypeOK, SendFail, history, Goto, Pcs, Places, Channels, InInput,
       Verdict
<1>3. \A q \in Requests \ {r} : Same(q)  BY <1>1 DEF SendFail, history, Goto, TypeOK, Same
<1>4. seq'[r] = seq[r] /\ \A c \in Channels : c # seq[r] => SameChannel(c)
  BY <1>1 DEF SendFail, history, Goto, TypeOK, SameChannel
<1>5. Control(r)' /\ History(r)' /\ Buffer(r)'
  BY <1>1, DefenConstants DEF SendFail, history, Goto, TypeOK, Control, History, Buffer, Refs, One,
       OwnRefs, AnswerRefs, Waited, Passed, Upped, InInput, Verdict
<1>6. seq[r] # -1 => SameChannel(seq[r]) /\ (msg[seq[r]] = r => Refs(r)' = Refs(r) /\ SemOf(r)' = SemOf(r))
  BY <1>1 DEF SendFail, history, Goto, TypeOK, SameChannel, Control, History, Buffer, Refs, One,
       OwnRefs, AnswerRefs, Waited, Passed, Upped, InInput, SemOf
<1> QED BY <1>2, <1>3, <1>4, <1>5, <1>6, KeepsChannels

\* down_timeout gives up; the answer has not raised the semaphore.
LEMMA WaitTimeoutInv == ASSUME IInv, NEW r \in Requests, WaitTimeout(r) PROVE IInv'
<1>1. TypeOK /\ Control(r) /\ History(r) /\ Buffer(r)  BY DEF IInv
<1>2. TypeOK'
  BY <1>1, DefenConstants DEF TypeOK, WaitTimeout, history, Goto, Pcs, Places, Channels, InInput,
       Verdict
<1>3. \A q \in Requests \ {r} : Same(q)  BY <1>1 DEF WaitTimeout, history, Goto, TypeOK, Same
<1>4. seq'[r] = seq[r] /\ \A c \in Channels : c # seq[r] => SameChannel(c)
  BY <1>1 DEF WaitTimeout, history, Goto, TypeOK, SameChannel
<1>5. Control(r)' /\ History(r)' /\ Buffer(r)'
  BY <1>1, DefenConstants DEF WaitTimeout, history, Goto, TypeOK, Control, History, Buffer, Refs,
       One, OwnRefs, AnswerRefs, Waited, Passed, Upped, InInput, Verdict
<1>6. seq[r] # -1 => SameChannel(seq[r]) /\ (msg[seq[r]] = r => Refs(r)' = Refs(r) /\ SemOf(r)' = SemOf(r))
  BY <1>1 DEF WaitTimeout, history, Goto, TypeOK, SameChannel, Control, History, Buffer, Refs, One,
       OwnRefs, AnswerRefs, Waited, Passed, Upped, InInput, SemOf
<1> QED BY <1>2, <1>3, <1>4, <1>5, <1>6, KeepsChannels

\* The call returns what its buffer holds.
LEMMA ReadVerdictInv == ASSUME IInv, NEW r \in Requests, ReadVerdict(r) PROVE IInv'
<1>1. TypeOK /\ Control(r) /\ History(r) /\ Buffer(r)  BY DEF IInv
<1>2. TypeOK'
  BY <1>1, DefenConstants DEF TypeOK, ReadVerdict, history, Goto, Pcs, Places, Channels, InInput,
       Verdict
<1>3. \A q \in Requests \ {r} : Same(q)  BY <1>1 DEF ReadVerdict, history, Goto, TypeOK, Same
<1>4. seq'[r] = seq[r] /\ \A c \in Channels : c # seq[r] => SameChannel(c)
  BY <1>1 DEF ReadVerdict, history, Goto, TypeOK, SameChannel
<1>5. Control(r)' /\ History(r)' /\ Buffer(r)'
  BY <1>1, DefenConstants DEF ReadVerdict, history, Goto, TypeOK, Control, History, Buffer, Refs,
       One, OwnRefs, AnswerRefs, Waited, Passed, Upped, InInput, Verdict
<1>6. seq[r] # -1 => SameChannel(seq[r]) /\ (msg[seq[r]] = r => Refs(r)' = Refs(r) /\ SemOf(r)' = SemOf(r))
  BY <1>1 DEF ReadVerdict, history, Goto, TypeOK, SameChannel, Control, History, Buffer, Refs, One,
       OwnRefs, AnswerRefs, Waited, Passed, Upped, InInput, SemOf
<1> QED BY <1>2, <1>3, <1>4, <1>5, <1>6, KeepsChannels

\* The daemon reads a question and judges.
LEMMA ReceiveInv == ASSUME IInv, NEW r \in Requests, NEW v \in Verdict, Receive(r, v) PROVE IInv'
<1>1. TypeOK /\ Control(r) /\ History(r) /\ Buffer(r)  BY DEF IInv
<1>2. TypeOK'
  BY <1>1, DefenConstants DEF TypeOK, Receive, history, Move, requestVars, DaemonIdle, Pcs, Places,
       Channels, InInput, Verdict
<1>3. \A q \in Requests \ {r} : Same(q)
  BY <1>1 DEF Receive, history, Move, requestVars, DaemonIdle, TypeOK, Same
<1>4. seq'[r] = seq[r] /\ \A c \in Channels : c # seq[r] => SameChannel(c)
  BY <1>1 DEF Receive, history, Move, requestVars, DaemonIdle, TypeOK, SameChannel
<1>5. Control(r)' /\ History(r)' /\ Buffer(r)'
  BY <1>1, DefenConstants DEF Receive, history, Move, requestVars, DaemonIdle, TypeOK, Control,
       History, Buffer, Refs, One, OwnRefs, AnswerRefs, Waited, Passed, Upped, InInput, Verdict
<1>6. seq[r] # -1 => SameChannel(seq[r]) /\ (msg[seq[r]] = r => Refs(r)' = Refs(r) /\ SemOf(r)' = SemOf(r))
  BY <1>1 DEF Receive, history, Move, requestVars, DaemonIdle, TypeOK, SameChannel, Control,
       History, Buffer, Refs, One, OwnRefs, AnswerRefs, Waited, Passed, Upped, InInput, SemOf
<1> QED BY <1>2, <1>3, <1>4, <1>5, <1>6, KeepsChannels

\* A question that is not answered.
LEMMA ReceiveAsyncInv == ASSUME IInv, NEW r \in Requests, ReceiveAsync(r) PROVE IInv'
<1>1. TypeOK /\ Control(r) /\ History(r) /\ Buffer(r)  BY DEF IInv
<1>2. TypeOK'
  BY <1>1, DefenConstants DEF TypeOK, ReceiveAsync, history, Move, requestVars, DaemonIdle, Pcs,
       Places, Channels, InInput, Verdict
<1>3. \A q \in Requests \ {r} : Same(q)
  BY <1>1 DEF ReceiveAsync, history, Move, requestVars, DaemonIdle, TypeOK, Same
<1>4. seq'[r] = seq[r] /\ \A c \in Channels : c # seq[r] => SameChannel(c)
  BY <1>1 DEF ReceiveAsync, history, Move, requestVars, DaemonIdle, TypeOK, SameChannel
<1>5. Control(r)' /\ History(r)' /\ Buffer(r)'
  BY <1>1, DefenConstants DEF ReceiveAsync, history, Move, requestVars, DaemonIdle, TypeOK, Control,
       History, Buffer, Refs, One, OwnRefs, AnswerRefs, Waited, Passed, Upped, InInput, Verdict
<1>6. seq[r] # -1 => SameChannel(seq[r]) /\ (msg[seq[r]] = r => Refs(r)' = Refs(r) /\ SemOf(r)' = SemOf(r))
  BY <1>1 DEF ReceiveAsync, history, Move, requestVars, DaemonIdle, TypeOK, SameChannel, Control,
       History, Buffer, Refs, One, OwnRefs, AnswerRefs, Waited, Passed, Upped, InInput, SemOf
<1> QED BY <1>2, <1>3, <1>4, <1>5, <1>6, KeepsChannels

\* The answer is copied into the buffer of its own request.
LEMMA InputCopyInv == ASSUME IInv, NEW r \in Requests, InputCopy(r) PROVE IInv'
<1>1. TypeOK /\ Control(r) /\ History(r) /\ Buffer(r)  BY DEF IInv
<1>2. seq[r] \in Channels /\ msg[seq[r]] = r /\ ChannelInv(seq[r])
  <2>1. seq[r] # -1  BY <1>1 DEF InputCopy, Control, InInput, NextFree
  <2>2. Refs(r) > 0
    BY <1>1, <2>1 DEF InputCopy, TypeOK, Control, Refs, One, OwnRefs, AnswerRefs, InInput, Waited,
         NextFree, Pcs
  <2> QED BY <1>1, <2>1, <2>2 DEF TypeOK, Control, IInv
<1>3. valid[seq[r]] = Refs(r) /\ valid[seq[r]] \in Nat \ {0}
  BY <1>1, <1>2, DefenConstants DEF ChannelInv, TypeOK
<1>4. decided[r] \in Verdict  BY <1>1 DEF TypeOK, History, InputCopy, InInput
<1>5. TypeOK'
  BY <1>1, <1>2, <1>4, DefenConstants DEF TypeOK, InputCopy, history, Move, requestVars, Places,
       InInput
<1>6. \A q \in Requests \ {r} : Same(q)
  BY <1>1, <1>2, <1>3 DEF InputCopy, history, Move, requestVars, TypeOK, Same
<1>7. seq'[r] = seq[r] /\ \A c \in Channels : c # seq[r] => SameChannel(c)
  BY <1>1 DEF InputCopy, history, Move, requestVars, TypeOK, SameChannel
<1>8. Control(r)' /\ History(r)' /\ Buffer(r)'
  BY <1>1, <1>2, <1>3, DefenConstants DEF InputCopy, history, Move, requestVars, TypeOK, Control,
       History, Buffer, Refs, One, OwnRefs, AnswerRefs, Waited, Passed, Upped, InInput, Verdict,
       ChannelInv, SemOf
<1>9. seq[r] # -1 => SameChannel(seq[r]) /\ (msg[seq[r]] = r => Refs(r)' = Refs(r) /\ SemOf(r)' = SemOf(r))
  BY <1>1 DEF InputCopy, history, Move, requestVars, TypeOK, SameChannel, Control, History, Buffer,
       Refs, One, OwnRefs, AnswerRefs, Waited, Passed, Upped, InInput, SemOf
<1> QED BY <1>5, <1>6, <1>7, <1>8, <1>9, KeepsChannels

\* The down after the allocation.
LEMMA AllocDownInv == ASSUME IInv, NEW r \in Requests, AllocDown(r) PROVE IInv'
<1>1. TypeOK /\ Control(r) /\ History(r) /\ Buffer(r)  BY DEF IInv
<1>2. seq[r] \in Channels /\ msg[seq[r]] = r /\ ChannelInv(seq[r])
  <2>1. seq[r] # -1  BY <1>1 DEF AllocDown, Control, InInput, NextFree
  <2>2. Refs(r) > 0
    BY <1>1, <2>1 DEF AllocDown, TypeOK, Control, Refs, One, OwnRefs, AnswerRefs, InInput, Waited,
         NextFree, Pcs
  <2> QED BY <1>1, <2>1, <2>2 DEF TypeOK, Control, IInv
<1>3. valid[seq[r]] = Refs(r) /\ valid[seq[r]] \in Nat \ {0}
  BY <1>1, <1>2, DefenConstants DEF ChannelInv, TypeOK
<1>4. TypeOK'
  BY <1>1, <1>2, <1>3, DefenConstants DEF TypeOK, AllocDown, history, Goto, Pcs, Places, Channels,
       InInput, Verdict, ChannelInv, SemOf, Upped, Passed, Waited, One, Control, History
<1>5. \A q \in Requests \ {r} : Same(q)
  BY <1>1, <1>2, <1>3 DEF AllocDown, history, Goto, TypeOK, Same
<1>6. seq'[r] = seq[r] /\ \A c \in Channels : c # seq[r] => SameChannel(c)
  BY <1>1 DEF AllocDown, history, Goto, TypeOK, SameChannel
<1>7. Control(r)' /\ History(r)' /\ Buffer(r)'
  BY <1>1, <1>2, <1>3, DefenConstants DEF AllocDown, history, Goto, TypeOK, Control, History,
       Buffer, Refs, One, OwnRefs, AnswerRefs, Waited, Passed, Upped, InInput, Verdict, ChannelInv,
       SemOf
<1>8. ChannelInv(seq[r])'
  BY <1>1, <1>2, DefenConstants DEF AllocDown, history, Goto, TypeOK, ChannelInv, Control, History,
       Buffer, Refs, One, OwnRefs, AnswerRefs, Waited, Passed, Upped, InInput, SemOf
<1> QED BY <1>2, <1>4, <1>5, <1>6, <1>7, <1>8, OwnChannel

\* The wait ends with the answer.
LEMMA WaitDownInv == ASSUME IInv, NEW r \in Requests, WaitDown(r) PROVE IInv'
<1>1. TypeOK /\ Control(r) /\ History(r) /\ Buffer(r)  BY DEF IInv
<1>2. seq[r] \in Channels /\ msg[seq[r]] = r /\ ChannelInv(seq[r])
  <2>1. seq[r] # -1  BY <1>1 DEF WaitDown, Control, InInput, NextFree
  <2>2. Refs(r) > 0
    BY <1>1, <2>1 DEF WaitDown, TypeOK, Control, Refs, One, OwnRefs, AnswerRefs, InInput, Waited,
         NextFree, Pcs
  <2> QED BY <1>1, <2>1, <2>2 DEF TypeOK, Control, IInv
<1>3. valid[seq[r]] = Refs(r) /\ valid[seq[r]] \in Nat \ {0}
  BY <1>1, <1>2, DefenConstants DEF ChannelInv, TypeOK
<1>4. TypeOK'
  BY <1>1, <1>2, <1>3, DefenConstants DEF TypeOK, WaitDown, history, Goto, Pcs, Places, Channels,
       InInput, Verdict, ChannelInv, SemOf, Upped, Passed, Waited, One, Control, History
<1>5. \A q \in Requests \ {r} : Same(q)
  BY <1>1, <1>2, <1>3 DEF WaitDown, history, Goto, TypeOK, Same
<1>6. seq'[r] = seq[r] /\ \A c \in Channels : c # seq[r] => SameChannel(c)
  BY <1>1 DEF WaitDown, history, Goto, TypeOK, SameChannel
<1>7. Control(r)' /\ History(r)' /\ Buffer(r)'
  BY <1>1, <1>2, <1>3, DefenConstants DEF WaitDown, history, Goto, TypeOK, Control, History, Buffer,
       Refs, One, OwnRefs, AnswerRefs, Waited, Passed, Upped, InInput, Verdict, ChannelInv, SemOf
<1>8. ChannelInv(seq[r])'
  BY <1>1, <1>2, DefenConstants DEF WaitDown, history, Goto, TypeOK, ChannelInv, Control, History,
       Buffer, Refs, One, OwnRefs, AnswerRefs, Waited, Passed, Upped, InInput, SemOf
<1> QED BY <1>2, <1>4, <1>5, <1>6, <1>7, <1>8, OwnChannel

\* The reference taken before the send.
LEMMA GetChannelInv == ASSUME IInv, NEW r \in Requests, GetChannel(r) PROVE IInv'
<1>1. TypeOK /\ Control(r) /\ History(r) /\ Buffer(r)  BY DEF IInv
<1>2. seq[r] \in Channels /\ msg[seq[r]] = r /\ ChannelInv(seq[r])
  <2>1. seq[r] # -1  BY <1>1 DEF GetChannel, Control, InInput, NextFree
  <2>2. Refs(r) > 0
    BY <1>1, <2>1 DEF GetChannel, TypeOK, Control, Refs, One, OwnRefs, AnswerRefs, InInput, Waited,
         NextFree, Pcs
  <2> QED BY <1>1, <2>1, <2>2 DEF TypeOK, Control, IInv
<1>3. valid[seq[r]] = Refs(r) /\ valid[seq[r]] \in Nat \ {0}
  BY <1>1, <1>2, DefenConstants DEF ChannelInv, TypeOK
<1>4. TypeOK'
  BY <1>1, <1>2, <1>3, DefenConstants DEF TypeOK, GetChannel, history, Goto, GetRef, Pcs, Places,
       Channels, InInput, Verdict, ChannelInv, SemOf, Upped, Passed, Waited, One, Control, History
<1>5. \A q \in Requests \ {r} : Same(q)
  BY <1>1, <1>2, <1>3 DEF GetChannel, history, Goto, GetRef, TypeOK, Same
<1>6. seq'[r] = seq[r] /\ \A c \in Channels : c # seq[r] => SameChannel(c)
  BY <1>1 DEF GetChannel, history, Goto, GetRef, TypeOK, SameChannel
<1>7. Control(r)' /\ History(r)' /\ Buffer(r)'
  BY <1>1, <1>2, <1>3, DefenConstants DEF GetChannel, history, Goto, GetRef, TypeOK, Control,
       History, Buffer, Refs, One, OwnRefs, AnswerRefs, Waited, Passed, Upped, InInput, Verdict,
       ChannelInv, SemOf
<1>8. ChannelInv(seq[r])'
  BY <1>1, <1>2, DefenConstants DEF GetChannel, history, Goto, GetRef, TypeOK, ChannelInv, Control,
       History, Buffer, Refs, One, OwnRefs, AnswerRefs, Waited, Passed, Upped, InInput, SemOf
<1> QED BY <1>2, <1>4, <1>5, <1>6, <1>7, <1>8, OwnChannel

\* The reference taken in __wait_seq.
LEMMA WaitGetInv == ASSUME IInv, NEW r \in Requests, WaitGet(r) PROVE IInv'
<1>1. TypeOK /\ Control(r) /\ History(r) /\ Buffer(r)  BY DEF IInv
<1>2. seq[r] \in Channels /\ msg[seq[r]] = r /\ ChannelInv(seq[r])
  <2>1. seq[r] # -1  BY <1>1 DEF WaitGet, Control, InInput, NextFree
  <2>2. Refs(r) > 0
    BY <1>1, <2>1 DEF WaitGet, TypeOK, Control, Refs, One, OwnRefs, AnswerRefs, InInput, Waited,
         NextFree, Pcs
  <2> QED BY <1>1, <2>1, <2>2 DEF TypeOK, Control, IInv
<1>3. valid[seq[r]] = Refs(r) /\ valid[seq[r]] \in Nat \ {0}
  BY <1>1, <1>2, DefenConstants DEF ChannelInv, TypeOK
<1>4. TypeOK'
  BY <1>1, <1>2, <1>3, DefenConstants DEF TypeOK, WaitGet, history, Goto, GetRef, Pcs, Places,
       Channels, InInput, Verdict, ChannelInv, SemOf, Upped, Passed, Waited, One, Control, History
<1>5. \A q \in Requests \ {r} : Same(q)
  BY <1>1, <1>2, <1>3 DEF WaitGet, history, Goto, GetRef, TypeOK, Same
<1>6. seq'[r] = seq[r] /\ \A c \in Channels : c # seq[r] => SameChannel(c)
  BY <1>1 DEF WaitGet, history, Goto, GetRef, TypeOK, SameChannel
<1>7. Control(r)' /\ History(r)' /\ Buffer(r)'
  BY <1>1, <1>2, <1>3, DefenConstants DEF WaitGet, history, Goto, GetRef, TypeOK, Control, History,
       Buffer, Refs, One, OwnRefs, AnswerRefs, Waited, Passed, Upped, InInput, Verdict, ChannelInv,
       SemOf
<1>8. ChannelInv(seq[r])'
  BY <1>1, <1>2, DefenConstants DEF WaitGet, history, Goto, GetRef, TypeOK, ChannelInv, Control,
       History, Buffer, Refs, One, OwnRefs, AnswerRefs, Waited, Passed, Upped, InInput, SemOf
<1> QED BY <1>2, <1>4, <1>5, <1>6, <1>7, <1>8, OwnChannel

\* The answer finds its channel in use.
LEMMA InputGetInv == ASSUME IInv, NEW r \in Requests, InputGet(r) PROVE IInv'
<1>1. TypeOK /\ Control(r) /\ History(r) /\ Buffer(r)  BY DEF IInv
<1>2. seq[r] \in Channels /\ msg[seq[r]] = r /\ ChannelInv(seq[r])
  <2>1. seq[r] # -1  BY <1>1 DEF InputGet, Control, InInput, NextFree
  <2>2. Refs(r) > 0
    BY <1>1, <2>1 DEF InputGet, TypeOK, Control, Refs, One, OwnRefs, AnswerRefs, InInput, Waited,
         NextFree, Pcs
  <2> QED BY <1>1, <2>1, <2>2 DEF TypeOK, Control, IInv
<1>3. valid[seq[r]] = Refs(r) /\ valid[seq[r]] \in Nat \ {0}
  BY <1>1, <1>2, DefenConstants DEF ChannelInv, TypeOK
<1>4. TypeOK'
  BY <1>1, <1>2, <1>3, DefenConstants DEF TypeOK, InputGet, history, Move, GetRef, requestVars, Pcs,
       Places, Channels, InInput, Verdict, ChannelInv, SemOf, Upped, Passed, Waited, One, Control,
       History
<1>5. \A q \in Requests \ {r} : Same(q)
  BY <1>1, <1>2, <1>3 DEF InputGet, history, Move, GetRef, requestVars, TypeOK, Same
<1>6. seq'[r] = seq[r] /\ \A c \in Channels : c # seq[r] => SameChannel(c)
  BY <1>1 DEF InputGet, history, Move, GetRef, requestVars, TypeOK, SameChannel
<1>7. Control(r)' /\ History(r)' /\ Buffer(r)'
  BY <1>1, <1>2, <1>3, DefenConstants DEF InputGet, history, Move, GetRef, requestVars, TypeOK,
       Control, History, Buffer, Refs, One, OwnRefs, AnswerRefs, Waited, Passed, Upped, InInput,
       Verdict, ChannelInv, SemOf
<1>8. ChannelInv(seq[r])'
  BY <1>1, <1>2, DefenConstants DEF InputGet, history, Move, GetRef, requestVars, TypeOK,
       ChannelInv, Control, History, Buffer, Refs, One, OwnRefs, AnswerRefs, Waited, Passed, Upped,
       InInput, SemOf
<1> QED BY <1>2, <1>4, <1>5, <1>6, <1>7, <1>8, OwnChannel

\* The answer raises the semaphore, which was taken.
LEMMA InputUpInv == ASSUME IInv, NEW r \in Requests, InputUp(r) PROVE IInv'
<1>1. TypeOK /\ Control(r) /\ History(r) /\ Buffer(r)  BY DEF IInv
<1>2. seq[r] \in Channels /\ msg[seq[r]] = r /\ ChannelInv(seq[r])
  <2>1. seq[r] # -1  BY <1>1 DEF InputUp, Control, InInput, NextFree
  <2>2. Refs(r) > 0
    BY <1>1, <2>1 DEF InputUp, TypeOK, Control, Refs, One, OwnRefs, AnswerRefs, InInput, Waited,
         NextFree, Pcs
  <2> QED BY <1>1, <2>1, <2>2 DEF TypeOK, Control, IInv
<1>3. valid[seq[r]] = Refs(r) /\ valid[seq[r]] \in Nat \ {0}
  BY <1>1, <1>2, DefenConstants DEF ChannelInv, TypeOK
<1>4. TypeOK'
  BY <1>1, <1>2, <1>3, DefenConstants DEF TypeOK, InputUp, history, Move, requestVars, Pcs, Places,
       Channels, InInput, Verdict, ChannelInv, SemOf, Upped, Passed, Waited, One, Control, History
<1>5. \A q \in Requests \ {r} : Same(q)
  BY <1>1, <1>2, <1>3 DEF InputUp, history, Move, requestVars, TypeOK, Same
<1>6. seq'[r] = seq[r] /\ \A c \in Channels : c # seq[r] => SameChannel(c)
  BY <1>1 DEF InputUp, history, Move, requestVars, TypeOK, SameChannel
<1>7. Control(r)' /\ History(r)' /\ Buffer(r)'
  BY <1>1, <1>2, <1>3, DefenConstants DEF InputUp, history, Move, requestVars, TypeOK, Control,
       History, Buffer, Refs, One, OwnRefs, AnswerRefs, Waited, Passed, Upped, InInput, Verdict,
       ChannelInv, SemOf
<1>8. ChannelInv(seq[r])'
  BY <1>1, <1>2, DefenConstants DEF InputUp, history, Move, requestVars, TypeOK, ChannelInv,
       Control, History, Buffer, Refs, One, OwnRefs, AnswerRefs, Waited, Passed, Upped, InInput,
       SemOf
<1> QED BY <1>2, <1>4, <1>5, <1>6, <1>7, <1>8, OwnChannel

\* A request gives back a reference.
LEMMA FreeOneInv == ASSUME IInv, NEW r \in Requests, FreeOne(r) PROVE IInv'
<1>1. TypeOK /\ Control(r) /\ History(r) /\ Buffer(r)  BY DEF IInv
<1>2. seq[r] \in Channels /\ msg[seq[r]] = r /\ ChannelInv(seq[r])
  <2>1. seq[r] # -1  BY <1>1 DEF FreeOne, Control, InInput, NextFree
  <2>2. Refs(r) > 0
    BY <1>1, <2>1 DEF FreeOne, TypeOK, Control, Refs, One, OwnRefs, AnswerRefs, InInput, Waited,
         NextFree, Pcs
  <2> QED BY <1>1, <2>1, <2>2 DEF TypeOK, Control, IInv
<1>3. valid[seq[r]] = Refs(r) /\ valid[seq[r]] \in Nat \ {0}
  BY <1>1, <1>2, DefenConstants DEF ChannelInv, TypeOK
<1>4. /\ pc[r] \in {"fail1", "fail2", "wfree", "free"}
      /\ pc' = [pc EXCEPT ![r] = IF pc[r] = "fail1" THEN "fail2" ELSE IF pc[r] = "wfree" THEN "free" ELSE "read"]
  <2>1. pc[r] \in {"fail1", "fail2", "wfree", "free"}  BY DEF FreeOne, NextFree
  <2>2. pc' = [pc EXCEPT ![r] = NextFree[pc[r]]]  BY DEF FreeOne, Goto
  <2>3. NextFree[pc[r]] = IF pc[r] = "fail1" THEN "fail2" ELSE IF pc[r] = "wfree" THEN "free" ELSE "read"
    BY <2>1 DEF NextFree
  <2> QED BY <2>1, <2>2, <2>3
<1>5. FreeSeq(seq[r])  BY DEF FreeOne
<1>6. /\ valid' \in [Channels -> Nat] /\ sem' \in [Channels -> {0, 1}]
      /\ msg' \in [Channels -> Requests \cup {NoRequest}]
  BY <1>1, <1>2, <1>3, <1>5, FreeType
<1>7. TypeOK'  BY <1>1, <1>6, <1>4 DEF TypeOK, FreeOne, history, Pcs
<1>8. \A q \in Requests \ {r} : Same(q)
  BY <1>1, <1>2, <1>3, <1>4 DEF FreeOne, history, Goto, FreeSeq, NextFree, TypeOK, Same
<1>9. seq'[r] = seq[r] /\ \A c \in Channels : c # seq[r] => SameChannel(c)
  BY <1>1 DEF FreeOne, history, Goto, FreeSeq, NextFree, TypeOK, SameChannel
<1>10. Control(r)' /\ History(r)' /\ Buffer(r)'
  BY <1>1, <1>2, <1>3, <1>4, DefenConstants DEF FreeOne, history, Goto, FreeSeq, NextFree, TypeOK,
       Control, History, Buffer, Refs, One, OwnRefs, AnswerRefs, Waited, Passed, Upped, InInput,
       Verdict, ChannelInv, SemOf
<1>11. ChannelInv(seq[r])'
  BY <1>1, <1>2, DefenConstants DEF FreeOne, history, Goto, FreeSeq, NextFree, TypeOK, ChannelInv,
       Control, History, Buffer, Refs, One, OwnRefs, AnswerRefs, Waited, Passed, Upped, InInput,
       SemOf
<1> QED BY <1>2, <1>7, <1>8, <1>9, <1>10, <1>11, OwnChannel

\* The answer gives back its own reference.
LEMMA InputReleaseInv == ASSUME IInv, NEW r \in Requests, InputRelease(r) PROVE IInv'
<1>1. TypeOK /\ Control(r) /\ History(r) /\ Buffer(r)  BY DEF IInv
<1>2. seq[r] \in Channels /\ msg[seq[r]] = r /\ ChannelInv(seq[r])
  <2>1. seq[r] # -1  BY <1>1 DEF InputRelease, Control, InInput, NextFree
  <2>2. Refs(r) > 0
    BY <1>1, <2>1 DEF InputRelease, TypeOK, Control, Refs, One, OwnRefs, AnswerRefs, InInput,
         Waited, NextFree, Pcs
  <2> QED BY <1>1, <2>1, <2>2 DEF TypeOK, Control, IInv
<1>3. valid[seq[r]] = Refs(r) /\ valid[seq[r]] \in Nat \ {0}
  BY <1>1, <1>2, DefenConstants DEF ChannelInv, TypeOK
<1>4. FreeSeq(seq[r])  BY DEF InputRelease
<1>5. /\ valid' \in [Channels -> Nat] /\ sem' \in [Channels -> {0, 1}]
      /\ msg' \in [Channels -> Requests \cup {NoRequest}]
  BY <1>1, <1>2, <1>3, <1>4, FreeType
<1>6. TypeOK'  BY <1>1, <1>5 DEF TypeOK, InputRelease, history, Move, requestVars, Places, InInput
<1>7. \A q \in Requests \ {r} : Same(q)
  BY <1>1, <1>2, <1>3 DEF InputRelease, history, Move, FreeSeq, requestVars, TypeOK, Same
<1>8. seq'[r] = seq[r] /\ \A c \in Channels : c # seq[r] => SameChannel(c)
  BY <1>1 DEF InputRelease, history, Move, FreeSeq, requestVars, TypeOK, SameChannel
<1>9. Control(r)' /\ History(r)' /\ Buffer(r)'
  BY <1>1, <1>2, <1>3, DefenConstants DEF InputRelease, history, Move, FreeSeq, requestVars, TypeOK,
       Control, History, Buffer, Refs, One, OwnRefs, AnswerRefs, Waited, Passed, Upped, InInput,
       Verdict, ChannelInv, SemOf
<1>10. ChannelInv(seq[r])'
  BY <1>1, <1>2, DefenConstants DEF InputRelease, history, Move, FreeSeq, requestVars, TypeOK,
       ChannelInv, Control, History, Buffer, Refs, One, OwnRefs, AnswerRefs, Waited, Passed, Upped,
       InInput, SemOf
<1> QED BY <1>2, <1>6, <1>7, <1>8, <1>9, <1>10, OwnChannel

\* The answer gives back its request's reference.
LEMMA InputDropInv == ASSUME IInv, NEW r \in Requests, InputDrop(r) PROVE IInv'
<1>1. TypeOK /\ Control(r) /\ History(r) /\ Buffer(r)  BY DEF IInv
<1>2. seq[r] \in Channels /\ msg[seq[r]] = r /\ ChannelInv(seq[r])
  <2>1. seq[r] # -1  BY <1>1 DEF InputDrop, Control, InInput, NextFree
  <2>2. Refs(r) > 0
    BY <1>1, <2>1 DEF InputDrop, TypeOK, Control, Refs, One, OwnRefs, AnswerRefs, InInput, Waited,
         NextFree, Pcs
  <2> QED BY <1>1, <2>1, <2>2 DEF TypeOK, Control, IInv
<1>3. valid[seq[r]] = Refs(r) /\ valid[seq[r]] \in Nat \ {0}
  BY <1>1, <1>2, DefenConstants DEF ChannelInv, TypeOK
<1>4. FreeSeq(seq[r])  BY DEF InputDrop
<1>5. /\ valid' \in [Channels -> Nat] /\ sem' \in [Channels -> {0, 1}]
      /\ msg' \in [Channels -> Requests \cup {NoRequest}]
  BY <1>1, <1>2, <1>3, <1>4, FreeType
<1>6. TypeOK'  BY <1>1, <1>5 DEF TypeOK, InputDrop, history, Move, requestVars, Places
<1>7. \A q \in Requests \ {r} : Same(q)
  BY <1>1, <1>2, <1>3 DEF InputDrop, history, Move, FreeSeq, requestVars, TypeOK, Same
<1>8. seq'[r] = seq[r] /\ \A c \in Channels : c # seq[r] => SameChannel(c)
  BY <1>1 DEF InputDrop, history, Move, FreeSeq, requestVars, TypeOK, SameChannel
<1>9. Control(r)' /\ History(r)' /\ Buffer(r)'
  BY <1>1, <1>2, <1>3, DefenConstants DEF InputDrop, history, Move, FreeSeq, requestVars, TypeOK,
       Control, History, Buffer, Refs, One, OwnRefs, AnswerRefs, Waited, Passed, Upped, InInput,
       Verdict, ChannelInv, SemOf
<1>10. ChannelInv(seq[r])'
  BY <1>1, <1>2, DefenConstants DEF InputDrop, history, Move, FreeSeq, requestVars, TypeOK,
       ChannelInv, Control, History, Buffer, Refs, One, OwnRefs, AnswerRefs, Waited, Passed, Upped,
       InInput, SemOf
<1> QED BY <1>2, <1>6, <1>7, <1>8, <1>9, <1>10, OwnChannel

\* A channel without references gets a new request.
LEMMA AllocSeqInv == ASSUME IInv, NEW r \in Requests, AllocSeq(r) PROVE IInv'
<1>1. TypeOK /\ Control(r) /\ History(r) /\ Buffer(r)  BY DEF IInv
<1>2. PICK c \in Channels : /\ valid[c] = 0
                            /\ valid' = [valid EXCEPT ![c] = 1]
                            /\ msg' = [msg EXCEPT ![c] = r]
                            /\ seq' = [seq EXCEPT ![r] = c]
  BY DEF AllocSeq
<1>3. seq[r] = -1 /\ pc' = [pc EXCEPT ![r] = "down"] /\ pc[r] = "alloc" /\ place[r] = "kernel"
  BY <1>1 DEF AllocSeq, Goto, Control, Waited
<1>4. UNCHANGED <<sem, buf, result, place, alive, decided, timedOut, wild>>
  BY DEF AllocSeq, history
<1>5. msg[c] = NoRequest /\ sem[c] = 1  BY <1>2, DefenConstants DEF IInv, TypeOK, ChannelInv
<1>6. TypeOK'  BY <1>1, <1>2, <1>3, <1>4 DEF TypeOK, Pcs
<1>7. \A q \in Requests \ {r} : Same(q)  BY <1>1, <1>2, <1>3, <1>4 DEF TypeOK, Same
<1>8. Control(r)' /\ History(r)' /\ Buffer(r)'
  BY <1>1, <1>2, <1>3, <1>4, DefenConstants DEF TypeOK, Control, History, Buffer, Refs, One,
       OwnRefs, AnswerRefs, Waited, Passed, Upped, InInput, Channels
<1>9. ASSUME NEW d \in Channels PROVE ChannelInv(d)'
  <2>1. CASE d = c
    <3>1. msg'[c] = r /\ seq'[r] = c /\ valid'[c] = 1 /\ sem'[c] = 1 /\ pc'[r] = "down" /\ place'[r] = "kernel"
          /\ r # NoRequest /\ r \notin timedOut'
      BY <1>1, <1>2, <1>3, <1>4, <1>5, DefenConstants DEF TypeOK, History, Passed
    <3>2. Refs(r)' = 1 /\ SemOf(r)' = 1
      BY <3>1 DEF Refs, One, OwnRefs, AnswerRefs, SemOf, Upped, Passed
    <3> QED BY <2>1, <3>1, <3>2 DEF ChannelInv
  <2>2. CASE d # c
    <3>1. d # -1 /\ ChannelInv(d)  BY DEF IInv, Channels
    <3>2. msg[d] # r  BY <1>3, <3>1, DefenConstants DEF ChannelInv
    <3>3. SameChannel(d)  BY <1>1, <1>2, <1>4, <2>2 DEF TypeOK, SameChannel
    <3> QED BY <1>1, <1>7, <3>1, <3>2, <3>3, OtherChannel DEF TypeOK
  <2> QED BY <2>1, <2>2
<1>10. ASSUME NEW q \in Requests PROVE Control(q)' /\ History(q)' /\ Buffer(q)'
  <2>1. CASE q = r  BY <1>8, <2>1
  <2>2. CASE q # r
    <3>1. seq[q] # -1 /\ Refs(q) > 0 => seq[q] \in Channels /\ msg[seq[q]] = q
      BY <1>1 DEF IInv, TypeOK, Control
    <3>2. seq[q] # -1 /\ Refs(q) > 0 => msg'[seq[q]] = q
      BY <1>1, <1>2, <1>5, <3>1, DefenConstants DEF TypeOK
    <3> QED BY <1>7, <2>2, <3>2, OtherRequest DEF IInv
  <2> QED BY <2>1, <2>2
<1> QED BY <1>6, <1>9, <1>10 DEF IInv

\* The daemon's death takes questions that have not reached their channels.
LEMMA CrashInv == ASSUME IInv, Crash PROVE IInv'
<1>1. TypeOK'  BY DEF IInv, TypeOK, Crash, Places, requestVars, history
<1>2. ASSUME NEW q \in Requests
      PROVE  /\ Refs(q)' = Refs(q) /\ SemOf(q)' = SemOf(q)
             /\ place'[q] = IF place[q] \in {"inbox", "get"} THEN "lost" ELSE place[q]
             /\ place[q] \notin {"copy", "up", "rel", "drop"}
  BY DEF IInv, TypeOK, Crash, Refs, One, OwnRefs, AnswerRefs, SemOf, Upped, InInput, requestVars,
       history
<1>3. UNCHANGED <<valid, sem, msg, buf, decided, timedOut, wild, pc, seq, result>>
  BY DEF Crash, requestVars, history
<1>4. ASSUME NEW c \in Channels PROVE ChannelInv(c)'
  <2>1. msg[c] # NoRequest => msg[c] \in Requests  BY DEF IInv, TypeOK
  <2> QED BY <1>2, <1>3, <2>1 DEF IInv, ChannelInv
<1>5. ASSUME NEW q \in Requests PROVE Control(q)' /\ History(q)' /\ Buffer(q)'
  BY <1>2, <1>3 DEF IInv, Control, History, Buffer, InInput, Upped
<1> QED BY <1>1, <1>4, <1>5 DEF IInv

\* Steps that leave alive alone.
LEMMA RestartInv == ASSUME IInv, Restart \/ UNCHANGED vars PROVE IInv'
<1>1. UNCHANGED <<valid, sem, msg, place, buf, decided, timedOut, wild, pc, seq, result>> /\ alive' \in BOOLEAN
  BY DEF Restart, vars, requestVars, history, IInv, TypeOK
<1>2. TypeOK'  BY <1>1 DEF IInv, TypeOK
<1>3. \A c \in Channels : ChannelInv(c)'
  BY <1>1 DEF IInv, ChannelInv, Refs, OwnRefs, AnswerRefs, SemOf, One
<1>4. \A r \in Requests : Control(r)' /\ History(r)' /\ Buffer(r)'
  BY <1>1 DEF IInv, Control, History, Buffer, Refs, OwnRefs, AnswerRefs, One
<1> QED BY <1>2, <1>3, <1>4 DEF IInv

\* All channels are free and nobody has asked.
LEMMA InitInv == Init => IInv
<1> SUFFICES ASSUME Init PROVE IInv  OBVIOUS
<1>1. TypeOK  BY DEF Init, TypeOK, Pcs, Places, Verdict
<1>2. \A c \in Channels : ChannelInv(c)  BY DEF Init, ChannelInv
<1>3. \A r \in Requests : Control(r) /\ History(r) /\ Buffer(r)
  BY DefenConstants DEF Init, Control, History, Buffer, Waited, Passed, Upped, InInput
<1> QED BY <1>1, <1>2, <1>3 DEF IInv

-----------------------------------------------------------------------------
(* Theorems.                                                               *)

\* Every reachable state satisfies the inductive invariant.
THEOREM DefenInvariance == Spec => []IInv
<1>1. Init => IInv  BY InitInv
<1>2. IInv /\ [Next]_vars => IInv'
  <2> SUFFICES ASSUME IInv, [Next]_vars PROVE IInv'  OBVIOUS
  <2>1. ASSUME NEW r \in Requests, NotAsked(r) \/ AskSync(r) \/ AskAsync(r) PROVE IInv'
    BY <2>1, NotAskedInv, AskSyncInv, AskAsyncInv
  <2>2. ASSUME NEW r \in Requests, Request(r) PROVE IInv'
    BY <2>2, AllocSeqInv, AllocFullInv, AllocDownInv, GetChannelInv, SendOkInv, SendFailInv,
       WaitGetInv, WaitDownInv, WaitTimeoutInv, FreeOneInv, ReadVerdictInv DEF Request
  <2>3. ASSUME NEW r \in Requests, Daemon(r) PROVE IInv'
    BY <2>3, ReceiveInv, ReceiveAsyncInv, InputGetInv, InputCopyInv, InputUpInv, InputReleaseInv,
       InputDropInv DEF Daemon
  <2>4. CASE Crash \/ Restart \/ UNCHANGED vars  BY <2>4, CrashInv, RestartInv
  <2> QED BY <2>1, <2>2, <2>3, <2>4 DEF Next
<1> QED BY <1>1, <1>2, PTL DEF Spec

\* The type invariant.
THEOREM DefenTypeCorrect == Spec => []TypeOK
<1>1. IInv => TypeOK  BY DEF IInv
<1> QED BY <1>1, DefenInvariance, PTL

\* The reference count of a channel is the number of its references, however
\* answers, timeouts and failed sends interleave.
THEOREM ReferencesBalance == Spec => []RefsBalanced
<1>1. IInv => RefsBalanced  BY DEF IInv, RefsBalanced, ChannelInv
<1> QED BY <1>1, DefenInvariance, PTL

\* The untimed down of __alloc_seq finds the semaphore free.
THEOREM AllocationNeverWaits == Spec => []AllocNeverWaits
<1>1. IInv => AllocNeverWaits
  <2> SUFFICES ASSUME IInv, NEW r \in Requests, pc[r] = "down" PROVE sem[seq[r]] = 1
    BY DEF AllocNeverWaits
  <2>1. seq[r] \in Channels /\ place[r] = "kernel" /\ r \notin timedOut
    BY DEF IInv, TypeOK, Control, History, Waited, Passed
  <2>2. msg[seq[r]] = r  BY <2>1 DEF IInv, Control, Refs, OwnRefs, AnswerRefs, One, Channels
  <2> QED BY <2>1, <2>2, DefenConstants DEF IInv, ChannelInv, SemOf, One, Upped, Passed
<1> QED BY <1>1, DefenInvariance, PTL

\* A channel number is not used again while an answer to it may come.
THEOREM AnswersFindRequests == Spec => []AnswerFindsItsRequest
<1>1. IInv => AnswerFindsItsRequest
  <2> SUFFICES ASSUME IInv, NEW r \in Requests, place[r] \in {"get", "copy", "up", "rel", "drop"}
               PROVE  msg[seq[r]] = r /\ valid[seq[r]] > 0
    BY DEF AnswerFindsItsRequest
  <2>1. seq[r] \in Channels /\ seq[r] # -1 /\ pc[r] \in Waited
    BY DEF IInv, TypeOK, Control, InInput
  <2>2. Refs(r) > 0  BY <2>1 DEF Refs, OwnRefs, AnswerRefs, One, Waited
  <2>3. msg[seq[r]] = r  BY <2>1, <2>2 DEF IInv, Control
  <2> QED BY <2>1, <2>2, <2>3, DefenConstants DEF IInv, ChannelInv
<1> QED BY <1>1, DefenInvariance, PTL

\* The verdict of a call is the daemon's for this call, or pass.
THEOREM VerdictIsOwn == Spec => []OwnVerdict
<1>1. IInv => OwnVerdict  BY DEF IInv, OwnVerdict, Buffer
<1> QED BY <1>1, DefenInvariance, PTL

\* A call that did not time out and was denied fails.
THEOREM DenialIsKept == Spec => []DenialStands
<1>1. IInv => DenialStands
  <2> SUFFICES ASSUME IInv, NEW r \in Requests, pc[r] = "done", decided[r] = UV_deny, r \notin timedOut
               PROVE  result[r] = UV_deny
    BY DEF DenialStands
  <2>1. place[r] \notin {"kernel", "inbox"} /\ seq[r] # -1  BY DefenConstants DEF IInv, History
  <2>2. place[r] \in Upped  BY <2>1 DEF IInv, History, Passed
  <2> QED BY <2>1, <2>2 DEF IInv, Buffer
<1> QED BY <1>1, DefenInvariance, PTL

\* Only a call that timed out can have its freed buffer written.
THEOREM LateWriteIsTimeout == Spec => []LateWriteNeedsTimeout
<1>1. IInv => LateWriteNeedsTimeout  BY DEF IInv, TypeOK, History, LateWriteNeedsTimeout
<1> QED BY <1>1, DefenInvariance, PTL

\* A channel that is kept after its call has returned waits for an answer, or
\* for one that was lost.
THEOREM LeaksAreUnanswered == Spec => []LeakIsUnanswered
<1>1. IInv => LeakIsUnanswered
  <2> SUFFICES ASSUME IInv, NEW c \in Channels, msg[c] # NoRequest, pc[msg[c]] = "done"
               PROVE  place[msg[c]] \in {"inbox", "lost"} \cup InInput
    BY DEF LeakIsUnanswered
  <2>1. msg[c] \in Requests /\ Refs(msg[c]) > 0  BY DEF IInv, TypeOK, ChannelInv
  <2>2. place[msg[c]] \in Places \ {"kernel", "served"}
    BY <2>1 DEF IInv, TypeOK, Refs, OwnRefs, AnswerRefs, One, Places, InInput
  <2> QED BY <2>2 DEF Places
<1> QED BY <1>1, DefenInvariance, PTL

\* A channel belongs to one request until its last reference is gone.
THEOREM ChannelsAreSafe == Spec => []ChannelSafety
<1>1. /\ TypeOK /\ RefsBalanced /\ AllocNeverWaits
      /\ AnswerFindsItsRequest /\ LateWriteNeedsTimeout /\ LeakIsUnanswered
      => ChannelSafety
  BY DEF ChannelSafety
<1> QED BY <1>1, DefenTypeCorrect, ReferencesBalance, AllocationNeverWaits, AnswersFindRequests,
           LateWriteIsTimeout, LeaksAreUnanswered, PTL

\* Channels, counts and copies implement Verdicts.
THEOREM DefenImplementsVerdicts == Spec => ImplementsVerdicts
<1>1. Init => V!Init  BY DEF Init, V!Init
<1>2. IInv /\ [Next]_vars => [V!Next]_<<decided, result>>
  <2> SUFFICES ASSUME IInv, [Next]_vars, UNCHANGED <<decided, result>> => FALSE PROVE V!Next  OBVIOUS
  <2>1. ASSUME NEW r \in Requests, NotAsked(r) PROVE V!Return(r, UV_pass)
    BY <2>1 DEF IInv, Buffer, NotAsked, history, V!Return
  <2>2. ASSUME NEW r \in Requests, ReadVerdict(r) PROVE V!Return(r, buf[r]) /\ buf[r] \in Verdict
    BY <2>2 DEF IInv, TypeOK, Buffer, ReadVerdict, history, V!Return
  <2>3. ASSUME NEW r \in Requests, NEW v \in Verdict, Receive(r, v) PROVE V!Decide(r, v)
    BY <2>3 DEF IInv, History, Receive, requestVars, V!Decide
  <2>4. ASSUME NEW r \in Requests, AskSync(r) \/ AskAsync(r) PROVE FALSE
    BY <2>4 DEF AskSync, AskAsync, history
  <2>5. ASSUME NEW r \in Requests, Request(r) PROVE ReadVerdict(r)
    BY <2>5 DEF Request, AllocSeq, AllocFull, AllocDown, GetChannel, SendOk, SendFail, WaitGet,
         WaitDown,
                WaitTimeout, FreeOne, history
  <2>6. ASSUME NEW r \in Requests, Daemon(r) PROVE \E v \in Verdict : Receive(r, v)
    BY <2>6 DEF Daemon, ReceiveAsync, InputGet, InputCopy, InputUp, InputRelease, InputDrop,
         history, requestVars
  <2>7. CASE Crash \/ Restart \/ UNCHANGED vars
    BY <2>7 DEF Crash, Restart, vars, history, requestVars
  <2> QED BY <2>1, <2>2, <2>3, <2>4, <2>5, <2>6, <2>7 DEF Next, V!Next, Verdict
<1> QED BY <1>1, <1>2, DefenInvariance, PTL DEF Spec, ImplementsVerdicts, V!Spec
-----------------------------------------------------------------------------
(***************************************************************************)
(* The table of written files: ObjTable.                                   *)
(***************************************************************************)
-----------------------------------------------------------------------------
(* The inductive invariant.                                                *)

Counted(e) ==
  /\ ref[e] = Cardinality(RefsTo(e))
  /\ e \in alloc <=> RefsTo(e) # {}

\* An entry is linked once, and not once it is lost or on ot_clear's list.
LinkedOnce ==
  /\ \A i, j \in Linked : tree[i] = tree[j] => i = j
  /\ InTree \cap (leaked \cup lst) = {}

\* A block on its way to be linked is its call's alone.
Fresh == \A c \in Calls : tpc[c] = "link" => RefsTo(ote[c]) = {<<"call", c>>}

\* What a call is going to write is noted.
AheadIsNoted == \A c \in Calls : tpc[c] \in {"put", "write"} =>
  tree[inode[c]] # None \/ inode[c] \in missed

\* ot_clear's list is used by it alone; with no call inside when it took the
\* tree, nothing is linked and nobody inside afterwards.
ExitOrder ==
  /\ phase \in {"in", "unhooked", "oops"} => lst = {}
  /\ phase = "gone" => lst = {}
  /\ phase \in {"putting", "gone"} /\ ~late => Linked = {} /\ \A c \in Calls : tpc[c] = "out"

TableInv == TableTypes /\ CntOfTree /\ RefsCounted /\ LinkedOnce /\ Fresh
          /\ DirtyIsNoted /\ AheadIsNoted /\ ExitOrder

-----------------------------------------------------------------------------
(* References.                                                             *)

\* e has the reference y of kind k.
RefIs(e, k, y) ==
  \/ k = "tree" /\ y \in Inodes /\ tree[y] = e
  \/ k = "call" /\ y \in Calls /\ ote[y] = e
  \/ k = "list" /\ y = e /\ e \in lst
  \/ k = "leak" /\ y = e /\ e \in leaked

\* What is a reference, pair by pair.
LEMMA InRefs == ASSUME NEW e, NEW k, NEW y PROVE <<k, y>> \in RefsTo(e) <=> RefIs(e, k, y)
  BY DEF RefsTo, RefIs

\* References are pairs.
LEMMA PairsOnly == ASSUME NEW e, NEW x \in RefsTo(e) PROVE x = <<x[1], x[2]>>
  BY DEF RefsTo

\* An entry has finitely many references.
LEMMA RefsFinite == ASSUME NEW e PROVE IsFiniteSet(RefsTo(e))
<1> DEFINE I == {i \in Inodes : tree[i] = e}
           C == {c \in Calls : ote[c] = e}
<1>1. IsFiniteSet(I) /\ IsFiniteSet(C)  BY FS_Subset, ObjTableConstants
<1>2. \A S : IsFiniteSet({e} \cap S)
  BY FS_Subset, FS_Singleton
<1>3. \A k : IsFiniteSet({k})  BY FS_Singleton
<1>4. /\ IsFiniteSet({"tree"} \X I) /\ IsFiniteSet({"call"} \X C)
      /\ IsFiniteSet({"list"} \X ({e} \cap lst)) /\ IsFiniteSet({"leak"} \X ({e} \cap leaked))
  BY <1>1, <1>2, <1>3, FS_Product
<1> QED BY <1>4, FS_Union DEF RefsTo

\* An entry nothing happens to.
LEMMA SameCounted ==
  ASSUME NEW e, Counted(e), RefsTo(e)' = RefsTo(e), ref'[e] = ref[e], e \in alloc' <=> e \in alloc
  PROVE  Counted(e)'
  BY DEF Counted

\* A reference is taken, with an increment.
LEMMA TakeRef ==
  ASSUME NEW e, NEW x, Counted(e), x \notin RefsTo(e), RefsTo(e)' = RefsTo(e) \cup {x},
         ref'[e] = ref[e] + 1, e \in alloc'
  PROVE  Counted(e)'
<1>1. Cardinality(RefsTo(e) \cup {x}) = Cardinality(RefsTo(e)) + 1
  BY RefsFinite, FS_AddElement
<1> QED BY <1>1 DEF Counted

\* A reference is dropped, with a decrement that frees at zero.
LEMMA DropRef ==
  ASSUME NEW e, NEW x, Counted(e), x \in RefsTo(e), RefsTo(e)' = RefsTo(e) \ {x},
         ref'[e] = ref[e] - 1, e \in alloc' <=> (e \in alloc /\ ref[e] # 1)
  PROVE  Counted(e)'
<1>1. Cardinality(RefsTo(e) \ {x}) = Cardinality(RefsTo(e)) - 1
  BY RefsFinite, FS_RemoveElement
<1>2. Cardinality(RefsTo(e)) \in Nat /\ IsFiniteSet(RefsTo(e) \ {x})
  BY RefsFinite, FS_CardinalityType, FS_RemoveElement
<1>3. RefsTo(e) \ {x} = {} <=> Cardinality(RefsTo(e) \ {x}) = 0
  BY <1>2, FS_EmptySet
<1> QED BY <1>1, <1>2, <1>3 DEF Counted

\* A reference passes from one holder to another.
LEMMA MoveRef ==
  ASSUME NEW e, NEW x, NEW y, Counted(e), x \in RefsTo(e), y \notin RefsTo(e),
         RefsTo(e)' = (RefsTo(e) \ {x}) \cup {y},
         ref'[e] = ref[e], e \in alloc' <=> e \in alloc
  PROVE  Counted(e)'
<1>1. Cardinality(RefsTo(e) \ {x}) = Cardinality(RefsTo(e)) - 1 /\ IsFiniteSet(RefsTo(e) \ {x})
  BY RefsFinite, FS_RemoveElement
<1>2. Cardinality((RefsTo(e) \ {x}) \cup {y}) = Cardinality(RefsTo(e) \ {x}) + 1
  BY <1>1, FS_AddElement
<1>3. Cardinality(RefsTo(e)) \in Nat  BY RefsFinite, FS_CardinalityType
<1> QED BY <1>1, <1>2, <1>3 DEF Counted

\* An entry's references stay when its place in the tree, with the calls, on
\* the list and among the lost does.
LEMMA RefsKept ==
  ASSUME NEW e, \A i \in Inodes : tree'[i] = e <=> tree[i] = e,
         \A c \in Calls : ote'[c] = e <=> ote[c] = e,
         e \in lst' <=> e \in lst, e \in leaked' <=> e \in leaked
  PROVE  RefsTo(e)' = RefsTo(e)
<1>1. {i \in Inodes : tree'[i] = e} = {i \in Inodes : tree[i] = e}  OBVIOUS
<1>2. {c \in Calls : ote'[c] = e} = {c \in Calls : ote[c] = e}  OBVIOUS
<1>3. {e} \cap lst' = {e} \cap lst /\ {e} \cap leaked' = {e} \cap leaked  OBVIOUS
<1> QED BY <1>1, <1>2, <1>3 DEF RefsTo

\* The references one step later, pair by pair.
LEMMA RefsAre ==
  ASSUME NEW e, NEW S, \A x \in S : x = <<x[1], x[2]>>,
         \A k, y : <<k, y>> \in S <=> RefIs(e, k, y)'
  PROVE  RefsTo(e)' = S
<1>1. \A k, y : <<k, y>> \in RefsTo(e)' <=> RefIs(e, k, y)'  BY DEF RefsTo, RefIs
<1>2. \A x \in RefsTo(e)' : x = <<x[1], x[2]>>  BY DEF RefsTo
<1>3. ASSUME NEW x \in RefsTo(e)' PROVE x \in S
  <2>1. x = <<x[1], x[2]>>  BY <1>2
  <2>2. <<x[1], x[2]>> \in S  BY <1>1, <2>1
  <2> QED BY <2>1, <2>2
<1>4. ASSUME NEW x \in S PROVE x \in RefsTo(e)'
  <2>1. x = <<x[1], x[2]>>  OBVIOUS
  <2>2. <<x[1], x[2]>> \in RefsTo(e)'  BY <1>1, <2>1
  <2> QED BY <2>1, <2>2
<1> QED BY <1>3, <1>4

\* One reference more.
LEMMA RefsPlus ==
  ASSUME NEW e, NEW k0, NEW y0,
         \A k, y : RefIs(e, k, y)' <=> RefIs(e, k, y) \/ (k = k0 /\ y = y0)
  PROVE  RefsTo(e)' = RefsTo(e) \cup {<<k0, y0>>}
<1>1. ASSUME NEW k, NEW y PROVE <<k, y>> \in RefsTo(e) \cup {<<k0, y0>>} <=> RefIs(e, k, y)'
  <2>1. <<k, y>> \in RefsTo(e) <=> RefIs(e, k, y)  BY InRefs
  <2>2. <<k, y>> = <<k0, y0>> <=> k = k0 /\ y = y0  OBVIOUS
  <2> QED BY <2>1, <2>2
<1>2. \A x \in RefsTo(e) \cup {<<k0, y0>>} : x = <<x[1], x[2]>>  BY PairsOnly
<1> QED BY <1>1, <1>2, RefsAre

\* One reference less.
LEMMA RefsMinus ==
  ASSUME NEW e, NEW k0, NEW y0,
         \A k, y : RefIs(e, k, y)' <=> RefIs(e, k, y) /\ ~(k = k0 /\ y = y0)
  PROVE  RefsTo(e)' = RefsTo(e) \ {<<k0, y0>>}
<1>1. ASSUME NEW k, NEW y PROVE <<k, y>> \in RefsTo(e) \ {<<k0, y0>>} <=> RefIs(e, k, y)'
  <2>1. <<k, y>> \in RefsTo(e) <=> RefIs(e, k, y)  BY InRefs
  <2>2. <<k, y>> = <<k0, y0>> <=> k = k0 /\ y = y0  OBVIOUS
  <2> QED BY <2>1, <2>2
<1>2. \A x \in RefsTo(e) \ {<<k0, y0>>} : x = <<x[1], x[2]>>  BY PairsOnly
<1> QED BY <1>1, <1>2, RefsAre

\* The table's reference becomes another one.
LEMMA RefsMoved ==
  ASSUME NEW e, NEW i, NEW k1,
         \A k, y : RefIs(e, k, y)' <=> (RefIs(e, k, y) /\ ~(k = "tree" /\ y = i)) \/ (k = k1 /\ y = e)
  PROVE  RefsTo(e)' = (RefsTo(e) \ {<<"tree", i>>}) \cup {<<k1, e>>}
<1>1. ASSUME NEW k, NEW y
      PROVE  <<k, y>> \in (RefsTo(e) \ {<<"tree", i>>}) \cup {<<k1, e>>} <=> RefIs(e, k, y)'
  <2>1. <<k, y>> \in RefsTo(e) <=> RefIs(e, k, y)  BY InRefs
  <2>2. <<k, y>> = <<"tree", i>> <=> k = "tree" /\ y = i  OBVIOUS
  <2>3. <<k, y>> = <<k1, e>> <=> k = k1 /\ y = e  OBVIOUS
  <2> QED BY <2>1, <2>2, <2>3
<1>2. \A x \in (RefsTo(e) \ {<<"tree", i>>}) \cup {<<k1, e>>} : x = <<x[1], x[2]>>  BY PairsOnly
<1> QED BY <1>1, <1>2, RefsAre

-----------------------------------------------------------------------------
(* Types.                                                                  *)

\* Every step keeps the types.
LEMMA TypeNext == ASSUME TableTypes, [TableNext]_tableVars PROVE TableTypes'
<1> USE ObjTableConstants
<1> USE DEF TableTypes, CallPcs, CallGoto, Running, TableSame, HistorySame, ModuleSame, call
<1>1. ASSUME NEW f \in Fds, NEW i \in Inodes, Open(f, i) PROVE TableTypes'
  BY <1>1 DEF Open
<1>2. ASSUME NEW f \in Fds, ProcessEnds(f) PROVE TableTypes'
  BY <1>2 DEF ProcessEnds
<1>3. ASSUME NEW c \in Calls, NEW f \in Fds, WriteCall(c, f) PROVE TableTypes'
  BY <1>3 DEF WriteCall
<1>4. ASSUME NEW c \in Calls, NEW f \in Fds, CloseCall(c, f) PROVE TableTypes'
  BY <1>4 DEF CloseCall
<1>5. ASSUME NEW c \in Calls, NEW f \in Fds, CloseNoPath(c, f) PROVE TableTypes'
  BY <1>5 DEF CloseNoPath
<1>6. ASSUME NEW c \in Calls, FindGet(c) PROVE TableTypes'
  BY <1>6 DEF FindGet
<1>7. ASSUME NEW c \in Calls, FindNone(c) PROVE TableTypes'
  BY <1>7 DEF FindNone
<1>8. ASSUME NEW c \in Calls, Allocate(c) PROVE TableTypes'
  BY <1>8 DEF Allocate
<1>9. ASSUME NEW c \in Calls, AllocateNone(c) PROVE TableTypes'
  BY <1>9 DEF AllocateNone
<1>10. ASSUME NEW c \in Calls, Link(c) PROVE TableTypes'
  BY <1>10 DEF Link
<1>11. ASSUME NEW c \in Calls, LinkFull(c) PROVE TableTypes'
  <2>1. Cardinality(Linked) \in Nat  BY FS_CardinalityType, FS_Subset DEF Linked
  <2> QED BY <1>11, <2>1 DEF LinkFull, Dropped, InTree, Linked
<1>12. ASSUME NEW c \in Calls, LinkTwice(c) PROVE TableTypes'
  BY <1>12 DEF LinkTwice
<1>13. ASSUME NEW c \in Calls, Release(c) PROVE TableTypes'
  BY <1>13 DEF Release, Put
<1>14. ASSUME NEW c \in Calls, RealWrite(c) PROVE TableTypes'
  BY <1>14 DEF RealWrite
<1>15. ASSUME NEW c \in Calls, GetInode(c) PROVE TableTypes'
  BY <1>15 DEF GetInode
<1>16. ASSUME NEW c \in Calls, DelObj(c) PROVE TableTypes'
  BY <1>16 DEF DelObj
<1>17. ASSUME NEW c \in Calls, DelNone(c) PROVE TableTypes'
  BY <1>17 DEF DelNone
<1>18. ASSUME NEW c \in Calls, Report(c) PROVE TableTypes'
  BY <1>18 DEF Report
<1>19. ASSUME NEW c \in Calls, RealClose(c) PROVE TableTypes'
  BY <1>19 DEF RealClose
<1>20. ASSUME Unhook \/ CollectNoMemory \/ Unload \/ UNCHANGED tableVars PROVE TableTypes'
  BY <1>20 DEF Unhook, CollectNoMemory, Unload, tableVars
<1>21. ASSUME Collect PROVE TableTypes'
  <2>1. Cardinality(Linked) \in Nat  BY FS_CardinalityType, FS_Subset DEF Linked
  <2> QED BY <1>21, <2>1 DEF Collect, InTree, Linked
<1>22. ASSUME PutOne PROVE TableTypes'
  BY <1>22 DEF PutOne, Put
<1> QED BY <1>1, <1>2, <1>3, <1>4, <1>5, <1>6, <1>7, <1>8, <1>9, <1>10, <1>11, <1>12,
           <1>13, <1>14, <1>15, <1>16, <1>17, <1>18, <1>19, <1>20, <1>21, <1>22 DEF TableNext

-----------------------------------------------------------------------------
(* References, action by action.                                           *)

RInv == TableTypes /\ RefsCounted /\ LinkedOnce /\ Fresh /\ ExitOrder

\* Every entry is counted.
LEMMA AllCounted == RefsCounted <=> \A e \in Entries : Counted(e)
  BY DEF RefsCounted, Counted

\* An entry that is linked, held, listed or lost has a reference.
LEMMA HasRef ==
  ASSUME NEW e
  PROVE  /\ \A i \in Inodes : tree[i] = e => <<"tree", i>> \in RefsTo(e)
         /\ \A c \in Calls : ote[c] = e => <<"call", c>> \in RefsTo(e)
         /\ e \in lst => <<"list", e>> \in RefsTo(e)
         /\ e \in leaked => <<"leak", e>> \in RefsTo(e)
  BY InRefs DEF RefIs

\* A step that leaves tree, entries, lists, counts and blocks alone, and sends
\* no call to the link.
LEMMA RefsQuiet ==
  ASSUME RInv, UNCHANGED <<tree, ote, lst, leaked, ref, alloc>>,
         \A c \in Calls : tpc'[c] = "link" => tpc[c] = "link"
  PROVE  (RefsCounted /\ LinkedOnce /\ Fresh)'
<1>1. \A e : RefsTo(e)' = RefsTo(e)  BY RefsKept
<1>2. RefsCounted'  BY <1>1, AllCounted, SameCounted DEF RInv, RefsCounted
<1>3. LinkedOnce'  BY DEF RInv, LinkedOnce, Linked, InTree
<1>4. Fresh'  BY <1>1 DEF RInv, Fresh
<1> QED BY <1>2, <1>3, <1>4

\* A step that touches one entry.
LEMMA OneEntry ==
  ASSUME RefsCounted, NEW g, Counted(g)',
         \A e \in Entries \ {g} : RefsTo(e)' = RefsTo(e) /\ ref'[e] = ref[e] /\ (e \in alloc' <=> e \in alloc)
  PROVE  RefsCounted'
<1>1. ASSUME NEW e \in Entries, e # g PROVE Counted(e)'
  BY <1>1, SameCounted, AllCounted
<1>2. \A e \in Entries : Counted(e)'  BY <1>1
<1> QED BY <1>2 DEF RefsCounted, Counted

\* The calls on their way to the link still hold their own.
LEMMA FreshKept ==
  ASSUME TableTypes, Fresh, NEW g, \A e \in Entries \ {g} : RefsTo(e)' = RefsTo(e),
         \A d \in Calls : tpc'[d] = "link" => tpc[d] = "link" /\ ote'[d] = ote[d] /\ ote[d] # g
  PROVE  Fresh'
  BY DEF Fresh, TableTypes

\* An entry with another reference than its call's is not on the way to the link.
LEMMA NotFresh ==
  ASSUME TableTypes, Fresh, NEW g, NEW d \in Calls, tpc[d] = "link", NEW k, NEW y,
         RefIs(g, k, y), <<k, y>> # <<"call", d>>
  PROVE  ote[d] # g
<1>1. RefsTo(ote[d]) = {<<"call", d>>}
  BY DEF Fresh
<1>2. <<k, y>> \in RefsTo(g)
  BY InRefs
<1> QED BY <1>1, <1>2

\* A call takes the entry it found.
LEMMA FindGetRefs ==
  ASSUME RInv, NEW c \in Calls, FindGet(c) PROVE (RefsCounted /\ LinkedOnce /\ Fresh)'
<1>0. /\ tpc[c] = "find" /\ tree[inode[c]] # None
      /\ tree' = tree /\ lst' = lst /\ leaked' = leaked /\ alloc' = alloc
      /\ ote' = [ote EXCEPT ![c] = tree[inode[c]]]
      /\ ref' = [ref EXCEPT ![tree[inode[c]]] = @ + 1]
      /\ tpc' = [tpc EXCEPT ![c] = "put"]
  BY DEF FindGet, Running, CallGoto, TableSame, ModuleSame, HistorySame
<1>1. PICK g \in Entries : g = tree[inode[c]]
  BY <1>0 DEF RInv, TableTypes
<1>2. /\ inode[c] \in Inodes /\ ote[c] = None /\ g # None /\ tpc[c] = "find"
      /\ tree' = tree /\ lst' = lst /\ leaked' = leaked /\ alloc' = alloc
      /\ ote' = [ote EXCEPT ![c] = g] /\ ref' = [ref EXCEPT ![g] = @ + 1]
      /\ tpc' = [tpc EXCEPT ![c] = "put"]
  <2>1. inode[c] \in Inodes /\ ote[c] = None  BY <1>0 DEF RInv, TableTypes
  <2> QED BY <1>0, <1>1, <2>1
<1>3. ote \in [Calls -> Entries \cup {None}] /\ ref \in [Entries -> Int] /\ tpc \in [Calls -> CallPcs]
  BY DEF RInv, TableTypes
<1>4. RefIs(g, "tree", inode[c])  BY <1>1, <1>2 DEF RefIs
<1>5. ~RefIs(g, "call", c)  BY <1>2 DEF RefIs
<1>6. ASSUME NEW e \in Entries \ {g} PROVE RefsTo(e)' = RefsTo(e) /\ ref'[e] = ref[e]
  <2>1. \A d \in Calls : ote'[d] = e <=> ote[d] = e  BY <1>2, <1>3, <1>6, ObjTableConstants
  <2>2. RefsTo(e)' = RefsTo(e)  BY <1>2, <2>1, RefsKept
  <2> QED BY <1>2, <1>3, <2>2
<1>7. Counted(g)'
  <2>1. \A k, y : RefIs(g, k, y)' <=> RefIs(g, k, y) \/ (k = "call" /\ y = c)
    BY <1>2, <1>3 DEF RefIs
  <2>2. RefsTo(g)' = RefsTo(g) \cup {<<"call", c>>}  BY <2>1, RefsPlus
  <2>3. <<"call", c>> \notin RefsTo(g) /\ <<"tree", inode[c]>> \in RefsTo(g)
    BY <1>4, <1>5, InRefs DEF RefIs
  <2>4. Counted(g) /\ g \in alloc' /\ ref'[g] = ref[g] + 1
    BY <1>2, <1>3, <2>3 DEF RInv, RefsCounted, Counted
  <2> QED BY <2>2, <2>3, <2>4, TakeRef
<1>8. RefsCounted'  BY <1>2, <1>6, <1>7, OneEntry DEF RInv
<1>9. LinkedOnce'  BY <1>2 DEF RInv, LinkedOnce, Linked, InTree
<1>10. Fresh'
  <2>1. ASSUME NEW d \in Calls, tpc'[d] = "link" PROVE tpc[d] = "link" /\ ote'[d] = ote[d] /\ ote[d] # g
    <3>1. d # c /\ tpc[d] = "link" /\ ote'[d] = ote[d]  BY <1>2, <1>3, <2>1
    <3> QED BY <1>4, <3>1, NotFresh DEF RInv
  <2> QED BY <1>6, <2>1, FreshKept DEF RInv
<1> QED BY <1>8, <1>9, <1>10

\* A block is allocated: the call's reference is its first.
LEMMA AllocateRefs ==
  ASSUME RInv, NEW c \in Calls, Allocate(c) PROVE (RefsCounted /\ LinkedOnce /\ Fresh)'
<1>0. /\ tpc[c] = "alloc" /\ tpc' = [tpc EXCEPT ![c] = "link"]
      /\ tree' = tree /\ lst' = lst /\ leaked' = leaked
  BY DEF Allocate, Running, CallGoto, TableSame, ModuleSame, HistorySame
<1>1. PICK g \in Entries \ alloc : /\ alloc' = alloc \cup {g} /\ ref' = [ref EXCEPT ![g] = 1]
                                   /\ ote' = [ote EXCEPT ![c] = g]
  BY DEF Allocate
<1>2. ote[c] = None  BY <1>0 DEF RInv, TableTypes
<1>3. ote \in [Calls -> Entries \cup {None}] /\ ref \in [Entries -> Int] /\ tpc \in [Calls -> CallPcs]
  BY DEF RInv, TableTypes
<1>4. RefsTo(g) = {} /\ ref[g] = 0  BY <1>1, FS_EmptySet DEF RInv, RefsCounted
<1>5. ASSUME NEW e \in Entries \ {g}
      PROVE  RefsTo(e)' = RefsTo(e) /\ ref'[e] = ref[e] /\ (e \in alloc' <=> e \in alloc)
  <2>1. \A d \in Calls : ote'[d] = e <=> ote[d] = e
    BY <1>1, <1>2, <1>3, <1>5, ObjTableConstants
  <2>2. RefsTo(e)' = RefsTo(e)  BY <1>0, <2>1, RefsKept
  <2> QED BY <1>1, <1>3, <1>5, <2>2
<1>6. RefsTo(g)' = {<<"call", c>>}
  <2>1. \A k, y : RefIs(g, k, y)' <=> RefIs(g, k, y) \/ (k = "call" /\ y = c)
    BY <1>0, <1>1, <1>2, <1>3 DEF RefIs
  <2>2. RefsTo(g)' = RefsTo(g) \cup {<<"call", c>>}  BY <2>1, RefsPlus
  <2> QED BY <1>4, <2>2
<1>7. Counted(g)'
  <2>1. Counted(g)  BY <1>1 DEF RInv, RefsCounted, Counted
  <2>2. /\ <<"call", c>> \notin RefsTo(g) /\ RefsTo(g)' = RefsTo(g) \cup {<<"call", c>>}
        /\ g \in alloc' /\ ref'[g] = ref[g] + 1
    BY <1>1, <1>3, <1>4, <1>6
  <2> QED BY <2>1, <2>2, TakeRef
<1>8. RefsCounted'  BY <1>5, <1>7, OneEntry DEF RInv
<1>9. LinkedOnce'  BY <1>0 DEF RInv, LinkedOnce, Linked, InTree
<1>10. Fresh'
  <2>1. ASSUME NEW d \in Calls, tpc'[d] = "link" PROVE RefsTo(ote[d])' = {<<"call", d>>}
    <3>1. CASE d = c  BY <1>1, <1>3, <1>6, <3>1
    <3>2. CASE d # c
      <4>1. tpc[d] = "link" /\ ote'[d] = ote[d] /\ ote[d] \in Entries
        BY <1>0, <1>1, <1>3, <2>1, <3>2 DEF RInv, TableTypes
      <4>2. RefsTo(ote[d]) = {<<"call", d>>}  BY <4>1 DEF RInv, Fresh
      <4>3. ote[d] # g  BY <1>4, <4>2
      <4> QED BY <1>5, <4>1, <4>2, <4>3
    <3> QED BY <3>1, <3>2
  <2> QED BY <2>1 DEF Fresh
<1> QED BY <1>8, <1>9, <1>10

\* What a call on its way to the link holds.
LEMMA FreshBlock ==
  ASSUME RInv, NEW c \in Calls, tpc[c] = "link"
  PROVE  /\ ote[c] \in Entries /\ ote[c] \in alloc /\ ref[ote[c]] = 1
         /\ RefsTo(ote[c]) = {<<"call", c>>}
         /\ ote[c] \notin InTree \cup lst \cup leaked
         /\ \A d \in Calls : d # c => ote[d] # ote[c]
<1>1. ote[c] \in Entries /\ RefsTo(ote[c]) = {<<"call", c>>}  BY DEF RInv, TableTypes, Fresh
<1>2. \A k, y : RefIs(ote[c], k, y) => k = "call" /\ y = c
  <2>1. ASSUME NEW k, NEW y, RefIs(ote[c], k, y) PROVE k = "call" /\ y = c
    <3>1. <<k, y>> \in {<<"call", c>>}  BY <1>1, <2>1, InRefs
    <3> QED BY <3>1
  <2> QED BY <2>1
<1>3. ote[c] \notin InTree \cup lst \cup leaked
  BY <1>1, <1>2 DEF RefIs, InTree, Linked
<1>4. \A d \in Calls : d # c => ote[d] # ote[c]  BY <1>2 DEF RefIs
<1>5. ref[ote[c]] = 1 /\ ote[c] \in alloc  BY <1>1, FS_Singleton DEF RInv, RefsCounted
<1> QED BY <1>1, <1>3, <1>4, <1>5

\* The entry is linked: the table's reference.
LEMMA LinkRefs ==
  ASSUME RInv, NEW c \in Calls, Link(c) PROVE (RefsCounted /\ LinkedOnce /\ Fresh)'
<1>0. /\ tpc[c] = "link" /\ tpc' = [tpc EXCEPT ![c] = "put"] /\ tree[inode[c]] = None
      /\ tree' = [tree EXCEPT ![inode[c]] = ote[c]] /\ ref' = [ref EXCEPT ![ote[c]] = @ + 1]
      /\ lst' = lst /\ leaked' = leaked /\ alloc' = alloc /\ ote' = ote
  BY DEF Link, Running, CallGoto, ModuleSame, HistorySame
<1>1. /\ ote \in [Calls -> Entries \cup {None}] /\ ref \in [Entries -> Int]
      /\ tpc \in [Calls -> CallPcs] /\ tree \in [Inodes -> Entries \cup {None}] /\ inode[c] \in Inodes
  BY <1>0 DEF RInv, TableTypes
<1>2. PICK g \in Entries : g = ote[c]  BY <1>0, FreshBlock
<1>3. /\ RefsTo(g) = {<<"call", c>>} /\ g \in alloc /\ g \notin InTree \cup lst \cup leaked
      /\ \A d \in Calls : d # c => ote[d] # g
  BY <1>0, <1>2, FreshBlock
<1>4. ASSUME NEW e \in Entries \ {g}
      PROVE  RefsTo(e)' = RefsTo(e) /\ ref'[e] = ref[e] /\ (e \in alloc' <=> e \in alloc)
  <2>1. \A i \in Inodes : tree'[i] = e <=> tree[i] = e
    BY <1>0, <1>1, <1>2, <1>4, ObjTableConstants
  <2>2. RefsTo(e)' = RefsTo(e)  BY <1>0, <2>1, RefsKept
  <2> QED BY <1>0, <1>1, <1>2, <1>4, <2>2
<1>5. Counted(g)'
  <2>1. \A k, y : RefIs(g, k, y)' <=> RefIs(g, k, y) \/ (k = "tree" /\ y = inode[c])
    BY <1>0, <1>1, <1>2 DEF RefIs
  <2>2. RefsTo(g)' = RefsTo(g) \cup {<<"tree", inode[c]>>}  BY <2>1, RefsPlus
  <2>3. <<"tree", inode[c]>> \notin RefsTo(g)  BY <1>3
  <2>4. Counted(g) /\ g \in alloc' /\ ref'[g] = ref[g] + 1
    BY <1>0, <1>1, <1>2, <1>3 DEF RInv, RefsCounted, Counted
  <2> QED BY <2>2, <2>3, <2>4, TakeRef
<1>6. RefsCounted'  BY <1>4, <1>5, OneEntry DEF RInv
<1>7. LinkedOnce'
  BY <1>0, <1>1, <1>2, <1>3 DEF RInv, LinkedOnce, Linked, InTree
<1>8. Fresh'
  <2>1. ASSUME NEW d \in Calls, tpc'[d] = "link" PROVE tpc[d] = "link" /\ ote'[d] = ote[d] /\ ote[d] # g
    BY <1>0, <1>1, <1>3, <2>1
  <2> QED BY <1>4, <2>1, FreshKept DEF RInv
<1> QED BY <1>6, <1>7, <1>8

\* The block that could not be linked is freed.
LEMMA LinkTwiceRefs ==
  ASSUME RInv, NEW c \in Calls, LinkTwice(c) PROVE (RefsCounted /\ LinkedOnce /\ Fresh)'
<1>0. /\ tpc[c] = "link" /\ tpc' = [tpc EXCEPT ![c] = "write"]
      /\ alloc' = alloc \ {ote[c]} /\ ref' = [ref EXCEPT ![ote[c]] = 0]
      /\ ote' = [ote EXCEPT ![c] = None]
      /\ lst' = lst /\ leaked' = leaked /\ tree' = tree
  BY DEF LinkTwice, Running, CallGoto, TableSame, ModuleSame, HistorySame
<1>1. /\ ote \in [Calls -> Entries \cup {None}] /\ ref \in [Entries -> Int] /\ tpc \in [Calls -> CallPcs]
  BY DEF RInv, TableTypes
<1>2. PICK g \in Entries : g = ote[c]  BY <1>0, FreshBlock
<1>3. /\ RefsTo(g) = {<<"call", c>>} /\ g \in alloc /\ ref[g] = 1
      /\ \A d \in Calls : d # c => ote[d] # g
  BY <1>0, <1>2, FreshBlock
<1>4. ASSUME NEW e \in Entries \ {g}
      PROVE  RefsTo(e)' = RefsTo(e) /\ ref'[e] = ref[e] /\ (e \in alloc' <=> e \in alloc)
  <2>1. \A d \in Calls : ote'[d] = e <=> ote[d] = e
    BY <1>0, <1>1, <1>2, <1>4, ObjTableConstants
  <2>2. RefsTo(e)' = RefsTo(e)  BY <1>0, <2>1, RefsKept
  <2> QED BY <1>0, <1>1, <1>2, <1>4, <2>2
<1>5. Counted(g)'
  <2>1. \A k, y : RefIs(g, k, y)' <=> RefIs(g, k, y) /\ ~(k = "call" /\ y = c)
    BY <1>0, <1>1, <1>2, ObjTableConstants DEF RefIs
  <2>2. RefsTo(g)' = RefsTo(g) \ {<<"call", c>>}  BY <2>1, RefsMinus
  <2>3. Counted(g)  BY DEF RInv, RefsCounted, Counted
  <2>4. ref'[g] = ref[g] - 1 /\ (g \in alloc' <=> (g \in alloc /\ ref[g] # 1))
    BY <1>0, <1>1, <1>2, <1>3
  <2> QED BY <1>3, <2>2, <2>3, <2>4, DropRef
<1>6. RefsCounted'  BY <1>4, <1>5, OneEntry DEF RInv
<1>7. LinkedOnce'  BY <1>0 DEF RInv, LinkedOnce, Linked, InTree
<1>8. Fresh'
  <2>1. ASSUME NEW d \in Calls, tpc'[d] = "link" PROVE tpc[d] = "link" /\ ote'[d] = ote[d] /\ ote[d] # g
    BY <1>0, <1>1, <1>3, <2>1
  <2> QED BY <1>4, <2>1, FreshKept DEF RInv
<1> QED BY <1>6, <1>7, <1>8

\* ot_release_obj gives the call's reference back.
LEMMA ReleaseRefs ==
  ASSUME RInv, NEW c \in Calls, Release(c) PROVE (RefsCounted /\ LinkedOnce /\ Fresh)'
<1>0. /\ tpc[c] = "put" /\ tpc' = [tpc EXCEPT ![c] = "write"] /\ Put(ote[c])
      /\ ote' = [ote EXCEPT ![c] = None]
      /\ lst' = lst /\ leaked' = leaked /\ tree' = tree
  BY DEF Release, Running, CallGoto, TableSame, ModuleSame, HistorySame
<1>1. /\ ote \in [Calls -> Entries \cup {None}] /\ ref \in [Entries -> Int] /\ tpc \in [Calls -> CallPcs]
  BY DEF RInv, TableTypes
<1>2. PICK g \in Entries : g = ote[c]  BY <1>0 DEF RInv, TableTypes
<1>3. RefIs(g, "call", c)  BY <1>2 DEF RefIs
<1>4. /\ ref' = [ref EXCEPT ![g] = @ - 1]
      /\ alloc' = IF ref[g] = 1 THEN alloc \ {g} ELSE alloc
  BY <1>0, <1>2 DEF Put
<1>5. ASSUME NEW e \in Entries \ {g}
      PROVE  RefsTo(e)' = RefsTo(e) /\ ref'[e] = ref[e] /\ (e \in alloc' <=> e \in alloc)
  <2>1. \A d \in Calls : ote'[d] = e <=> ote[d] = e
    BY <1>0, <1>1, <1>2, <1>5, ObjTableConstants
  <2>2. RefsTo(e)' = RefsTo(e)  BY <1>0, <2>1, RefsKept
  <2> QED BY <1>1, <1>4, <1>5, <2>2
<1>6. Counted(g)'
  <2>1. \A k, y : RefIs(g, k, y)' <=> RefIs(g, k, y) /\ ~(k = "call" /\ y = c)
    BY <1>0, <1>1, <1>2, ObjTableConstants DEF RefIs
  <2>2. RefsTo(g)' = RefsTo(g) \ {<<"call", c>>}  BY <2>1, RefsMinus
  <2>3. Counted(g)  BY DEF RInv, RefsCounted, Counted
  <2>4. ref'[g] = ref[g] - 1 /\ (g \in alloc' <=> (g \in alloc /\ ref[g] # 1))
    BY <1>1, <1>4
  <2>5. <<"call", c>> \in RefsTo(g)  BY <1>3, InRefs
  <2> QED BY <2>2, <2>3, <2>4, <2>5, DropRef
<1>7. RefsCounted'  BY <1>5, <1>6, OneEntry DEF RInv
<1>8. LinkedOnce'  BY <1>0 DEF RInv, LinkedOnce, Linked, InTree
<1>9. Fresh'
  <2>1. ASSUME NEW d \in Calls, tpc'[d] = "link" PROVE tpc[d] = "link" /\ ote'[d] = ote[d] /\ ote[d] # g
    <3>1. d # c /\ tpc[d] = "link" /\ ote'[d] = ote[d]  BY <1>0, <1>1, <2>1
    <3> QED BY <1>2, <3>1, FreshBlock
  <2> QED BY <1>5, <2>1, FreshKept DEF RInv
<1> QED BY <1>7, <1>8, <1>9

\* ot_del_obj takes the table's reference, and nobody gives it back.
LEMMA DelObjRefs ==
  ASSUME RInv, NEW c \in Calls, DelObj(c) PROVE (RefsCounted /\ LinkedOnce /\ Fresh)'
<1>0. /\ tpc[c] = "del" /\ tpc' = [tpc EXCEPT ![c] = "report"] /\ tree[inode[c]] # None
      /\ tree' = [tree EXCEPT ![inode[c]] = None] /\ leaked' = leaked \cup {tree[inode[c]]}
      /\ lst' = lst /\ ote' = ote /\ ref' = ref /\ alloc' = alloc
  BY DEF DelObj, Running, CallGoto, ModuleSame
<1>1. /\ tree \in [Inodes -> Entries \cup {None}] /\ tpc \in [Calls -> CallPcs] /\ inode[c] \in Inodes
  BY <1>0 DEF RInv, TableTypes
<1>2. PICK g \in Entries : g = tree[inode[c]]  BY <1>0, <1>1
<1>3. g \in InTree /\ g \notin lst \cup leaked /\ (\A i \in Inodes : tree[i] = g => i = inode[c])
  BY <1>1, <1>2, ObjTableConstants DEF RInv, LinkedOnce, InTree, Linked
<1>4. RefIs(g, "tree", inode[c])  BY <1>1, <1>2 DEF RefIs
<1>5. ASSUME NEW e \in Entries \ {g}
      PROVE  RefsTo(e)' = RefsTo(e) /\ ref'[e] = ref[e] /\ (e \in alloc' <=> e \in alloc)
  <2>1. \A i \in Inodes : tree'[i] = e <=> tree[i] = e
    BY <1>0, <1>1, <1>2, <1>5, ObjTableConstants
  <2>2. e \in leaked' <=> e \in leaked  BY <1>0, <1>2, <1>5
  <2>3. RefsTo(e)' = RefsTo(e)  BY <1>0, <2>1, <2>2, RefsKept
  <2> QED BY <1>0, <2>3
<1>6. Counted(g)'
  <2>1. \A k, y : RefIs(g, k, y)' <=> (RefIs(g, k, y) /\ ~(k = "tree" /\ y = inode[c]))
                                        \/ (k = "leak" /\ y = g)
    BY <1>0, <1>1, <1>2, <1>3, ObjTableConstants DEF RefIs
  <2>2. RefsTo(g)' = (RefsTo(g) \ {<<"tree", inode[c]>>}) \cup {<<"leak", g>>}  BY <2>1, RefsMoved
  <2>3. Counted(g)  BY DEF RInv, RefsCounted, Counted
  <2>4. <<"tree", inode[c]>> \in RefsTo(g)  BY <1>4, InRefs
  <2>5. <<"leak", g>> \notin RefsTo(g)
    <3>1. ~RefIs(g, "leak", g)  BY <1>3 DEF RefIs
    <3> QED BY <3>1, InRefs
  <2> QED BY <1>0, <2>2, <2>3, <2>4, <2>5, MoveRef
<1>7. RefsCounted'  BY <1>5, <1>6, OneEntry DEF RInv
<1>8. LinkedOnce'
  <2>1. \A i \in Inodes : tree'[i] # None => tree[i] = tree'[i] /\ tree'[i] # g
    BY <1>0, <1>1, <1>2, <1>3
  <2> QED BY <1>0, <1>2, <2>1 DEF RInv, LinkedOnce, Linked, InTree
<1>9. Fresh'
  <2>1. ASSUME NEW d \in Calls, tpc'[d] = "link" PROVE tpc[d] = "link" /\ ote'[d] = ote[d] /\ ote[d] # g
    <3>1. d # c /\ tpc[d] = "link" /\ ote'[d] = ote[d]  BY <1>0, <1>1, <2>1
    <3> QED BY <1>3, <3>1, FreshBlock
  <2> QED BY <1>5, <2>1, FreshKept DEF RInv
<1> QED BY <1>7, <1>8, <1>9

\* ot_clear puts an entry of its list.
LEMMA PutOneRefs ==
  ASSUME RInv, PutOne PROVE (RefsCounted /\ LinkedOnce /\ Fresh)'
<1>0. tree' = tree /\ ote' = ote /\ leaked' = leaked /\ tpc' = tpc
  BY DEF PutOne, HistorySame, call
<1>1. PICK g \in lst : Put(g) /\ lst' = lst \ {g}  BY DEF PutOne
<1>2. g \in Entries /\ ref \in [Entries -> Int] /\ ote \in [Calls -> Entries \cup {None}]
  BY <1>1 DEF RInv, TableTypes
<1>3. /\ ref' = [ref EXCEPT ![g] = @ - 1]
      /\ alloc' = IF ref[g] = 1 THEN alloc \ {g} ELSE alloc
  BY <1>1 DEF Put
<1>4. ASSUME NEW e \in Entries \ {g}
      PROVE  RefsTo(e)' = RefsTo(e) /\ ref'[e] = ref[e] /\ (e \in alloc' <=> e \in alloc)
  <2>1. e \in lst' <=> e \in lst  BY <1>1, <1>4
  <2>2. RefsTo(e)' = RefsTo(e)  BY <1>0, <2>1, RefsKept
  <2> QED BY <1>2, <1>3, <1>4, <2>2
<1>5. Counted(g)'
  <2>1. \A k, y : RefIs(g, k, y)' <=> RefIs(g, k, y) /\ ~(k = "list" /\ y = g)
    BY <1>0, <1>1 DEF RefIs
  <2>2. RefsTo(g)' = RefsTo(g) \ {<<"list", g>>}  BY <2>1, RefsMinus
  <2>3. Counted(g)  BY <1>2 DEF RInv, RefsCounted, Counted
  <2>4. ref'[g] = ref[g] - 1 /\ (g \in alloc' <=> (g \in alloc /\ ref[g] # 1))
    BY <1>2, <1>3
  <2>5. <<"list", g>> \in RefsTo(g)  BY HasRef
  <2> QED BY <2>2, <2>3, <2>4, <2>5, DropRef
<1>6. RefsCounted'  BY <1>2, <1>4, <1>5, OneEntry DEF RInv
<1>7. LinkedOnce'  BY <1>0, <1>1 DEF RInv, LinkedOnce, Linked, InTree
<1>8. Fresh'
  <2>1. ASSUME NEW d \in Calls, tpc'[d] = "link" PROVE tpc[d] = "link" /\ ote'[d] = ote[d] /\ ote[d] # g
    BY <1>0, <1>1, <2>1, FreshBlock
  <2> QED BY <1>4, <2>1, FreshKept DEF RInv
<1> QED BY <1>6, <1>7, <1>8

\* ot_clear moves all entries to its list.
LEMMA CollectRefs ==
  ASSUME RInv, Collect PROVE (RefsCounted /\ LinkedOnce /\ Fresh)'
<1>0. /\ tree' = [i \in Inodes |-> None] /\ lst' = InTree /\ phase = "unhooked"
      /\ ote' = ote /\ leaked' = leaked /\ tpc' = tpc /\ ref' = ref /\ alloc' = alloc
  BY DEF Collect, call
<1>1. /\ lst = {} /\ tree \in [Inodes -> Entries \cup {None}]
      /\ \A i \in Inodes : tree'[i] = None
  BY <1>0 DEF RInv, ExitOrder, TableTypes
<1>2. ASSUME NEW e \in Entries, e \notin InTree PROVE RefsTo(e)' = RefsTo(e)
  <2>1. \A i \in Inodes : tree[i] # e  BY <1>2, ObjTableConstants DEF InTree, Linked
  <2>2. \A i \in Inodes : tree'[i] # e  BY <1>1, <1>2, ObjTableConstants
  <2> QED BY <1>0, <1>1, <1>2, <2>1, <2>2, RefsKept
<1>3. ASSUME NEW e \in Entries, e \in InTree PROVE Counted(e)'
  <2>1. PICK i \in Inodes : tree[i] = e  BY <1>3 DEF InTree, Linked
  <2>2. \A j \in Inodes : tree[j] = e => j = i
    BY <1>3, <2>1, ObjTableConstants DEF RInv, LinkedOnce, Linked
  <2>3. \A k, y : RefIs(e, k, y)' <=> (RefIs(e, k, y) /\ ~(k = "tree" /\ y = i)) \/ (k = "list" /\ y = e)
    BY <1>0, <1>1, <1>3, <2>1, <2>2, ObjTableConstants DEF RefIs
  <2>4. RefsTo(e)' = (RefsTo(e) \ {<<"tree", i>>}) \cup {<<"list", e>>}  BY <2>3, RefsMoved
  <2>5. Counted(e)  BY DEF RInv, RefsCounted, Counted
  <2>6. <<"tree", i>> \in RefsTo(e)  BY <2>1, HasRef
  <2>7. <<"list", e>> \notin RefsTo(e)
    <3>1. ~RefIs(e, "list", e)  BY <1>1 DEF RefIs
    <3> QED BY <3>1, InRefs
  <2> QED BY <1>0, <2>4, <2>5, <2>6, <2>7, MoveRef
<1>4. ASSUME NEW e \in Entries, e \notin InTree PROVE Counted(e)'
  BY <1>0, <1>2, <1>4, SameCounted, AllCounted DEF RInv
<1>5. RefsCounted'
  <2>1. \A e \in Entries : Counted(e)'  BY <1>3, <1>4
  <2> QED BY <2>1 DEF RefsCounted, Counted
<1>6. LinkedOnce'  BY <1>1 DEF LinkedOnce, Linked, InTree
<1>7. Fresh'
  <2>1. ASSUME NEW d \in Calls, tpc'[d] = "link" PROVE RefsTo(ote[d])' = {<<"call", d>>}
    <3>1. tpc[d] = "link" /\ ote'[d] = ote[d]  BY <1>0, <2>1
    <3>2. /\ ote[d] \in Entries /\ ote[d] \notin InTree /\ RefsTo(ote[d]) = {<<"call", d>>}
      BY <3>1, FreshBlock
    <3> QED BY <1>2, <3>1, <3>2
  <2> QED BY <2>1 DEF Fresh
<1> QED BY <1>5, <1>6, <1>7

\* __ot_clear and the link.
LEMMA LinkFullRefs ==
  ASSUME RInv, NEW c \in Calls, LinkFull(c) PROVE (RefsCounted /\ LinkedOnce /\ Fresh)'
<1>0. /\ tpc[c] = "link" /\ tpc' = [tpc EXCEPT ![c] = "put"]
      /\ tree' = [i \in Inodes |-> IF i = inode[c] THEN ote[c] ELSE None]
      /\ ref' = [e \in Entries |-> IF e = ote[c] THEN ref[e] + 1
                                   ELSE IF e \in InTree THEN ref[e] - 1 ELSE ref[e]]
      /\ alloc' = alloc \ Dropped /\ lst' = lst /\ leaked' = leaked /\ ote' = ote
  BY DEF LinkFull, Running, CallGoto, ModuleSame
<1>1. /\ tree \in [Inodes -> Entries \cup {None}] /\ tpc \in [Calls -> CallPcs] /\ inode[c] \in Inodes
      /\ ref \in [Entries -> Int]
  BY <1>0 DEF RInv, TableTypes
<1>2. PICK g \in Entries : g = ote[c]  BY <1>0, FreshBlock
<1>3. /\ RefsTo(g) = {<<"call", c>>} /\ g \in alloc /\ g \notin InTree \cup lst \cup leaked
      /\ \A d \in Calls : d # c => ote[d] # g
  BY <1>0, <1>2, FreshBlock
<1>4. \A i \in Inodes : tree[i] # g  BY <1>3, ObjTableConstants, <1>2 DEF InTree, Linked
<1>5. ASSUME NEW e \in Entries \ {g}, e \notin InTree PROVE RefsTo(e)' = RefsTo(e)
  <2>1. \A i \in Inodes : tree[i] # e  BY <1>5, ObjTableConstants DEF InTree, Linked
  <2>2. \A i \in Inodes : tree'[i] # e  BY <1>0, <1>2, <1>5, ObjTableConstants
  <2> QED BY <1>0, <2>1, <2>2, RefsKept
<1>6. ASSUME NEW e \in Entries \ {g}, e \notin InTree PROVE Counted(e)'
  <2>1. Counted(e)  BY DEF RInv, RefsCounted, Counted
  <2>2. ref'[e] = ref[e] /\ (e \in alloc' <=> e \in alloc)
    BY <1>0, <1>1, <1>2, <1>6 DEF Dropped
  <2> QED BY <1>5, <1>6, <2>1, <2>2, SameCounted
<1>7. ASSUME NEW e \in Entries \ {g}, e \in InTree PROVE Counted(e)'
  <2>1. PICK i \in Inodes : tree[i] = e  BY <1>7 DEF InTree, Linked
  <2>2. \A j \in Inodes : tree[j] = e => j = i
    BY <1>7, <2>1, ObjTableConstants DEF RInv, LinkedOnce, Linked
  <2>3. \A j \in Inodes : tree'[j] # e  BY <1>0, <1>2, <1>7, ObjTableConstants
  <2>4. \A k, y : RefIs(e, k, y)' <=> RefIs(e, k, y) /\ ~(k = "tree" /\ y = i)
    BY <1>0, <2>1, <2>2, <2>3 DEF RefIs
  <2>5. RefsTo(e)' = RefsTo(e) \ {<<"tree", i>>}  BY <2>4, RefsMinus
  <2>6. Counted(e)  BY DEF RInv, RefsCounted, Counted
  <2>7. <<"tree", i>> \in RefsTo(e)  BY <2>1, HasRef
  <2>8. ref'[e] = ref[e] - 1 /\ (e \in alloc' <=> (e \in alloc /\ ref[e] # 1))
    BY <1>0, <1>1, <1>2, <1>7 DEF Dropped
  <2> QED BY <2>5, <2>6, <2>7, <2>8, DropRef
<1>8. Counted(g)'
  <2>1. \A k, y : RefIs(g, k, y)' <=> RefIs(g, k, y) \/ (k = "tree" /\ y = inode[c])
    BY <1>0, <1>1, <1>2, <1>4, ObjTableConstants DEF RefIs
  <2>2. RefsTo(g)' = RefsTo(g) \cup {<<"tree", inode[c]>>}  BY <2>1, RefsPlus
  <2>3. Counted(g)  BY DEF RInv, RefsCounted, Counted
  <2>4. g \in alloc' /\ ref'[g] = ref[g] + 1  BY <1>0, <1>1, <1>2, <1>3 DEF Dropped
  <2>5. <<"tree", inode[c]>> \notin RefsTo(g)  BY <1>3
  <2> QED BY <2>2, <2>3, <2>4, <2>5, TakeRef
<1>9. RefsCounted'
  <2>1. \A e \in Entries : Counted(e)'  BY <1>6, <1>7, <1>8
  <2> QED BY <2>1 DEF RefsCounted, Counted
<1>10. LinkedOnce'
  BY <1>0, <1>2, <1>3 DEF LinkedOnce, Linked, InTree
<1>11. Fresh'
  <2>1. ASSUME NEW d \in Calls, tpc'[d] = "link" PROVE RefsTo(ote[d])' = {<<"call", d>>}
    <3>1. d # c /\ tpc[d] = "link" /\ ote'[d] = ote[d]  BY <1>0, <1>1, <2>1
    <3>2. /\ ote[d] \in Entries /\ ote[d] \notin InTree /\ RefsTo(ote[d]) = {<<"call", d>>}
      BY <3>1, FreshBlock
    <3>3. ote[d] # g  BY <1>3, <3>1
    <3> QED BY <1>5, <3>1, <3>2, <3>3
  <2> QED BY <2>1 DEF Fresh
<1> QED BY <1>9, <1>10, <1>11

\* Every step keeps the references.
LEMMA RefsNext == ASSUME RInv, [TableNext]_tableVars PROVE (RefsCounted /\ LinkedOnce /\ Fresh)'
<1>1. CASE \/ \E f \in Fds, i \in Inodes : Open(f, i)
           \/ \E f \in Fds : ProcessEnds(f)
           \/ \E c \in Calls, f \in Fds : WriteCall(c, f) \/ CloseCall(c, f) \/ CloseNoPath(c, f)
           \/ \E c \in Calls : \/ FindNone(c) \/ AllocateNone(c) \/ RealWrite(c) \/ GetInode(c)
                               \/ DelNone(c) \/ Report(c) \/ RealClose(c)
           \/ Unhook \/ CollectNoMemory \/ Unload \/ UNCHANGED tableVars
  <2>1. UNCHANGED <<tree, ote, lst, leaked, ref, alloc>>
    BY <1>1 DEF Open, ProcessEnds, WriteCall, CloseCall, CloseNoPath, FindNone, AllocateNone,
       RealWrite, GetInode, DelNone, Report, RealClose, Unhook, CollectNoMemory, Unload, tableVars,
       call, TableSame, ModuleSame, HistorySame
  <2>2. ASSUME NEW d \in Calls, tpc'[d] = "link" PROVE tpc[d] = "link"
    BY <1>1, <2>2 DEF Open, ProcessEnds, WriteCall, CloseCall, CloseNoPath, FindNone,
       AllocateNone, RealWrite, GetInode, DelNone, Report, RealClose, Unhook, CollectNoMemory,
       Unload, tableVars, call, CallGoto, RInv, TableTypes
  <2> QED BY <2>1, <2>2, RefsQuiet
<1>2. CASE \/ \E c \in Calls : \/ FindGet(c) \/ Allocate(c) \/ Link(c) \/ LinkFull(c)
                               \/ LinkTwice(c) \/ Release(c) \/ DelObj(c)
           \/ Collect \/ PutOne
  BY <1>2, FindGetRefs, AllocateRefs, LinkRefs, LinkFullRefs, LinkTwiceRefs, ReleaseRefs,
     DelObjRefs, CollectRefs, PutOneRefs
<1> QED BY <1>1, <1>2 DEF TableNext

-----------------------------------------------------------------------------
(* The counter.                                                            *)

\* The linked inodes can be counted.
LEMMA LinkedFinite == IsFiniteSet(Linked) /\ Cardinality(Linked) \in Nat
  BY FS_Subset, FS_CardinalityType, ObjTableConstants DEF Linked

\* The counter follows the tree, and the tree is dropped in time.
LEMMA CntNext == ASSUME TableTypes, CntOfTree, [TableNext]_tableVars PROVE CntOfTree'
<1> USE ObjTableConstants
<1>1. ASSUME NEW c \in Calls, Link(c) PROVE CntOfTree'
  <2>1. /\ inode[c] \in Inodes \ Linked /\ ote[c] # None /\ cnt' = cnt + 1 /\ ~Full
        /\ tree' = [tree EXCEPT ![inode[c]] = ote[c]]
    BY <1>1 DEF Link, Running, TableTypes, Linked
  <2>2. Linked' = Linked \cup {inode[c]}  BY <2>1 DEF Linked, TableTypes
  <2>3. Cardinality(Linked') = Cardinality(Linked) + 1
    BY <2>1, <2>2, LinkedFinite, FS_AddElement
  <2> QED BY <2>1, <2>3, LinkedFinite DEF CntOfTree, Full, TableTypes
<1>2. ASSUME NEW c \in Calls, LinkFull(c) PROVE CntOfTree'
  <2>1. /\ inode[c] \in Inodes /\ ote[c] # None /\ cnt' = cnt - Cardinality(Linked) + 1
        /\ tree' = [i \in Inodes |-> IF i = inode[c] THEN ote[c] ELSE None]
    BY <1>2 DEF LinkFull, Running, TableTypes
  <2>2. Linked' = {inode[c]}  BY <2>1 DEF Linked
  <2>3. Cardinality(Linked') = 1  BY <2>2, FS_Singleton
  <2> QED BY <2>1, <2>3, LinkedFinite DEF CntOfTree
<1>3. ASSUME NEW c \in Calls, DelObj(c) PROVE CntOfTree'
  <2>1. /\ inode[c] \in Linked /\ cnt' = cnt - 1 /\ tree' = [tree EXCEPT ![inode[c]] = None]
    BY <1>3 DEF DelObj, Running, TableTypes, Linked
  <2>2. Linked' = Linked \ {inode[c]}  BY <2>1 DEF Linked, TableTypes
  <2>3. Cardinality(Linked') = Cardinality(Linked) - 1
    BY <2>1, <2>2, LinkedFinite, FS_RemoveElement
  <2> QED BY <2>1, <2>3, LinkedFinite DEF CntOfTree
<1>4. ASSUME Collect PROVE CntOfTree'
  <2>1. Linked' = {} /\ cnt' = cnt - Cardinality(Linked)  BY <1>4 DEF Collect, Linked
  <2>2. Cardinality(Linked') = 0  BY <2>1, FS_EmptySet
  <2> QED BY <2>1, <2>2, LinkedFinite DEF CntOfTree
<1>5. CASE UNCHANGED <<tree, cnt>>
  BY <1>5 DEF CntOfTree, Linked
<1>6. \/ \E c \in Calls : Link(c) \/ LinkFull(c) \/ DelObj(c)
      \/ Collect \/ UNCHANGED <<tree, cnt>>
  BY DEF TableNext, Open, ProcessEnds, WriteCall, CloseCall, CloseNoPath, FindGet, FindNone,
     Allocate, AllocateNone, LinkTwice, Release, RealWrite, GetInode, DelNone, Report,
     RealClose, Unhook, CollectNoMemory, PutOne, Unload, tableVars, TableSame
<1> QED BY <1>1, <1>2, <1>3, <1>4, <1>5, <1>6

-----------------------------------------------------------------------------
(* What is written is noted.                                               *)

\* Every step keeps the notes.
LEMMA DirtyNext == ASSUME TableTypes, DirtyIsNoted, AheadIsNoted, [TableNext]_tableVars
                   PROVE  (DirtyIsNoted /\ AheadIsNoted)'
<1> USE ObjTableConstants DEF DirtyIsNoted, AheadIsNoted, CallGoto, Running, TableTypes, CallPcs
<1>1. ASSUME NEW c \in Calls, Link(c) PROVE (DirtyIsNoted /\ AheadIsNoted)'
  BY <1>1 DEF Link, ModuleSame, HistorySame
<1>2. ASSUME NEW c \in Calls, LinkFull(c) PROVE (DirtyIsNoted /\ AheadIsNoted)'
  BY <1>2 DEF LinkFull, ModuleSame, Linked
<1>3. ASSUME NEW c \in Calls, DelObj(c) PROVE (DirtyIsNoted /\ AheadIsNoted)'
  BY <1>3 DEF DelObj, ModuleSame, WriteAhead
<1>4. ASSUME Collect PROVE (DirtyIsNoted /\ AheadIsNoted)'
  BY <1>4 DEF Collect, call, Linked
<1>5. ASSUME NEW c \in Calls, AllocateNone(c) PROVE (DirtyIsNoted /\ AheadIsNoted)'
  BY <1>5 DEF AllocateNone, TableSame, ModuleSame
<1>6. ASSUME NEW c \in Calls, RealWrite(c) PROVE (DirtyIsNoted /\ AheadIsNoted)'
  BY <1>6 DEF RealWrite, TableSame, ModuleSame
<1>7. ASSUME NEW c \in Calls, Report(c) PROVE (DirtyIsNoted /\ AheadIsNoted)'
  BY <1>7 DEF Report, TableSame, ModuleSame
<1>8. ASSUME NEW c \in Calls,
             FindGet(c) \/ FindNone(c) \/ Allocate(c) \/ LinkTwice(c) \/ Release(c)
      PROVE  (DirtyIsNoted /\ AheadIsNoted)'
  BY <1>8 DEF FindGet, FindNone, Allocate, LinkTwice, Release, TableSame, ModuleSame, HistorySame
<1>9. ASSUME NEW c \in Calls, GetInode(c) \/ DelNone(c) \/ RealClose(c)
      PROVE  (DirtyIsNoted /\ AheadIsNoted)'
  BY <1>9 DEF GetInode, DelNone, RealClose, TableSame, ModuleSame, HistorySame
<1>10. ASSUME NEW c \in Calls, NEW f \in Fds,
              WriteCall(c, f) \/ CloseCall(c, f) \/ CloseNoPath(c, f)
       PROVE  (DirtyIsNoted /\ AheadIsNoted)'
  BY <1>10 DEF WriteCall, CloseCall, CloseNoPath, ModuleSame, HistorySame
<1>11. CASE UNCHANGED <<tree, tpc, inode, path, dirty, missed>>
  BY <1>11
<1>12. \/ \E f \in Fds, i \in Inodes : Open(f, i)
       \/ \E f \in Fds : ProcessEnds(f)
       \/ Unhook \/ CollectNoMemory \/ PutOne \/ Unload \/ UNCHANGED tableVars
       => UNCHANGED <<tree, tpc, inode, path, dirty, missed>>
  BY DEF Open, ProcessEnds, Unhook, CollectNoMemory, PutOne, Unload, tableVars, call, HistorySame
<1> QED BY <1>1, <1>2, <1>3, <1>4, <1>5, <1>6, <1>7, <1>8, <1>9, <1>10, <1>11, <1>12 DEF TableNext

-----------------------------------------------------------------------------
(* The module's exit.                                                      *)

\* Every step keeps the order of the exit.
LEMMA ExitNext == ASSUME TableTypes, ExitOrder, [TableNext]_tableVars PROVE ExitOrder'
<1> USE DEF ExitOrder, CallGoto, Running, Linked
<1>1. ASSUME NEW c \in Calls, NEW f \in Fds,
             WriteCall(c, f) \/ CloseCall(c, f) \/ CloseNoPath(c, f)
      PROVE  ExitOrder'
  BY <1>1 DEF WriteCall, CloseCall, CloseNoPath, ModuleSame
<1>2. ASSUME NEW c \in Calls, tpc[c] # "out", UNCHANGED <<phase, lst, late>> PROVE ExitOrder'
  BY <1>2
<1>3. ASSUME NEW c \in Calls,
             \/ FindGet(c) \/ FindNone(c) \/ Allocate(c) \/ AllocateNone(c) \/ Link(c)
             \/ LinkFull(c) \/ LinkTwice(c) \/ Release(c) \/ RealWrite(c) \/ GetInode(c)
             \/ DelObj(c) \/ DelNone(c) \/ Report(c) \/ RealClose(c)
      PROVE  tpc[c] # "out" /\ UNCHANGED <<phase, lst, late>>
  BY <1>3 DEF FindGet, FindNone, Allocate, AllocateNone, Link, LinkFull, LinkTwice, Release,
     RealWrite, GetInode, DelObj, DelNone, Report, RealClose, ModuleSame
<1>4. ASSUME NEW f \in Fds, (\E i \in Inodes : Open(f, i)) \/ ProcessEnds(f) PROVE ExitOrder'
  BY <1>4 DEF Open, ProcessEnds, ModuleSame, call
<1>5. ASSUME Unhook \/ CollectNoMemory \/ Unload \/ UNCHANGED tableVars PROVE ExitOrder'
  BY <1>5 DEF Unhook, CollectNoMemory, Unload, tableVars, call
<1>6. ASSUME Collect PROVE ExitOrder'
  BY <1>6 DEF Collect, call
<1>7. ASSUME PutOne PROVE ExitOrder'
  BY <1>7 DEF PutOne, call
<1> QED BY <1>1, <1>2, <1>3, <1>4, <1>5, <1>6, <1>7 DEF TableNext

-----------------------------------------------------------------------------
(* The theorems.                                                           *)

\* The table starts right.
LEMMA ObjTableInit == TableInit => TableInv
<1> SUFFICES ASSUME TableInit PROVE TableInv  OBVIOUS
<1> USE ObjTableConstants DEF TableInit
<1>1. TableTypes
  <2>1. \A c \in Calls : tpc[c] = "out" /\ fd[c] = None /\ ote[c] = None  OBVIOUS
  <2>2. /\ tree \in [Inodes -> Entries \cup {None}] /\ cnt \in Int /\ ref \in [Entries -> Int]
        /\ opened \in [Fds -> Inodes \cup {None}] /\ tpc \in [Calls -> CallPcs]
        /\ fd \in [Calls -> Fds \cup {None}] /\ inode \in [Calls -> Inodes \cup {None}]
        /\ path \in [Calls -> Inodes \cup {None}] /\ ote \in [Calls -> Entries \cup {None}]
    BY DEF CallPcs
  <2> QED BY <2>1, <2>2 DEF TableTypes
<1>2. Linked = {} /\ InTree = {}  BY DEF Linked, InTree
<1>3. CntOfTree  BY <1>2, FS_EmptySet DEF CntOfTree
<1>4. ASSUME NEW e \in Entries PROVE RefsTo(e) = {}
  <2>1. {i \in Inodes : tree[i] = e} = {} /\ {c \in Calls : ote[c] = e} = {}  OBVIOUS
  <2> QED BY <2>1 DEF RefsTo
<1>5. RefsCounted  BY <1>4, FS_EmptySet DEF RefsCounted
<1>6. LinkedOnce /\ Fresh  BY <1>2 DEF LinkedOnce, Fresh
<1>7. DirtyIsNoted /\ AheadIsNoted /\ ExitOrder  BY DEF DirtyIsNoted, AheadIsNoted, ExitOrder
<1> QED BY <1>1, <1>3, <1>5, <1>6, <1>7 DEF TableInv

\* Every behaviour of the table keeps the inductive invariant.
THEOREM ObjTableInvariance == TableSpec => []TableInv
<1>1. ASSUME TableInv, [TableNext]_tableVars PROVE TableInv'
  BY <1>1, TypeNext, CntNext, RefsNext, DirtyNext, ExitNext DEF TableInv, RInv
<1> QED BY <1>1, ObjTableInit, PTL DEF TableSpec

\* Every variable keeps its type.
THEOREM ObjTableTypeCorrect == TableSpec => []TableTypes
<1>1. TableInv => TableTypes  BY DEF TableInv
<1> QED BY <1>1, ObjTableInvariance, PTL

\* The counter that decides when ot_add_obj drops the table is the number of
\* linked entries, and never above max_cnt.
THEOREM CounterIsSize == TableSpec => []CntOfTree
<1>1. TableInv => CntOfTree  BY DEF TableInv
<1> QED BY <1>1, ObjTableInvariance, PTL

\* Every entry's count is the number of its references: no call, table or list
\* uses a freed block, and only ot_del_obj's entries are lost.
THEOREM ReferencesAreCounted == TableSpec => []RefsCounted
<1>1. TableInv => RefsCounted  BY DEF TableInv
<1> QED BY <1>1, ObjTableInvariance, PTL

\* The table, its counter and the counts of its entries agree.
THEOREM TableIsSafe == TableSpec => []TableSafety
<1>1. TableTypes /\ CntOfTree /\ RefsCounted => TableSafety  BY DEF TableSafety
<1> QED BY <1>1, ObjTableTypeCorrect, CounterIsSize, ReferencesAreCounted, PTL

\* What was written and not reported is in the table, but for the named causes.
THEOREM WritesAreNoted == TableSpec => []DirtyIsNoted
<1>1. TableInv => DirtyIsNoted  BY DEF TableInv
<1> QED BY <1>1, ObjTableInvariance, PTL

\* With no call inside, the module's exit frees all but the lost entries.
THEOREM ExitFreesTheTable == TableSpec => []ExitFrees
<1>1. ASSUME TableInv, phase = "gone", ~late PROVE alloc = leaked
  <2>1. /\ Linked = {} /\ lst = {} /\ \A c \in Calls : ote[c] = None
    BY <1>1 DEF TableInv, ExitOrder, TableTypes
  <2>2. \A e \in Entries : \A k, y : RefIs(e, k, y) => k = "leak" /\ e \in leaked
    BY <2>1, ObjTableConstants DEF RefIs, Linked
  <2>3. ASSUME NEW e \in Entries PROVE e \in alloc <=> e \in leaked
    <3>1. CASE e \in leaked
      <4>1. RefsTo(e) # {}  BY <3>1, HasRef
      <4> QED BY <1>1, <3>1, <4>1 DEF TableInv, RefsCounted
    <3>2. CASE e \notin leaked
      <4>1. ASSUME NEW x \in RefsTo(e) PROVE FALSE
        <5>1. x = <<x[1], x[2]>>  BY PairsOnly
        <5>2. RefIs(e, x[1], x[2])  BY <5>1, InRefs
        <5> QED BY <2>2, <3>2, <5>2
      <4>2. RefsTo(e) = {}  BY <4>1
      <4> QED BY <1>1, <3>2, <4>2 DEF TableInv, RefsCounted
    <3> QED BY <3>1, <3>2
  <2>4. alloc \subseteq Entries /\ leaked \subseteq Entries  BY <1>1 DEF TableInv, TableTypes
  <2> QED BY <2>3, <2>4
<1>2. TableInv => ExitFrees  BY <1>1 DEF ExitFrees
<1> QED BY <1>2, ObjTableInvariance, PTL
=================================================================================
