----------------------------- MODULE DefenChannel -----------------------------
(***************************************************************************)
(* The synchronous channel between the kernel module ravdefen and the      *)
(* defence daemon (Kernel/ravdefen/ukcom.c, get_verdict in kmod.c; user    *)
(* side ukcom_u.c with the loop of front.c).                               *)
(*                                                                         *)
(* A hooked system call (a request) takes a channel, sends its number with *)
(* the question and waits on the channel's semaphore with a timeout.  The  *)
(* daemon's answer names the channel and is worked on in the daemon's      *)
(* thread (netlink calls __input from sendto): it copies the answer over   *)
(* the request's buffer and raises the semaphore.  References to a channel *)
(* are counted in `valid' under channel_mutex, and the last one resets it. *)
(*                                                                         *)
(* A request is one call of get_verdict and has a buffer of its own; the   *)
(* buffer is written as its verdict alone.  Each region under the mutex is *)
(* one step, and so is each semaphore operation and the copy.              *)
(***************************************************************************)
EXTENDS Integers

CONSTANTS
  Requests,      \* hooked system calls, each with its own buffer
  MAX_CHANNEL,   \* number of channels
  UV_pass, UV_deny,
  NoVerdict, NoRequest

ASSUME DefenConstants ==
  /\ MAX_CHANNEL \in Nat \ {0}
  /\ NoRequest \notin Requests
  /\ NoVerdict \notin {UV_pass, UV_deny}
  /\ UV_pass # UV_deny

VARIABLES
  valid,     \* [Channels -> Int]: channel.valid, the reference count
  sem,       \* [Channels -> Int]: value of channel.sem
  msg,       \* [Channels -> request whose buffer channel.msg points to]
  pc,        \* where the request is in get_verdict / __ukcom_trigger
  seq,       \* its channel, -1 for none
  buf,       \* msg->verdict in the request's buffer
  result,    \* verdict it returned with
  place,     \* where its question (and then the answer to it) is
  alive,     \* the daemon's process exists
  decided,   \* history: the daemon's verdict for it
  timedOut,  \* history: requests whose down_timeout timed out
  wild       \* history: requests whose freed buffer was written

vars == <<valid, sem, msg, pc, seq, buf, result, place, alive, decided, timedOut, wild>>

Channels == 0 .. MAX_CHANNEL - 1
Verdict == {UV_pass, UV_deny}

\* The steps of __input, run in the daemon's thread, and of the answer's way.
InInput == {"get", "copy", "up", "rel", "drop"}
Places == {"kernel", "inbox", "served", "lost"} \cup InInput
Pcs == {"idle", "alloc", "down", "get", "send", "fail1", "fail2",
        "wget", "wait", "wfree", "free", "read", "done"}

Init ==
  /\ valid = [c \in Channels |-> 0]
  /\ sem = [c \in Channels |-> 1]
  /\ msg = [c \in Channels |-> NoRequest]
  /\ pc = [r \in Requests |-> "idle"]
  /\ seq = [r \in Requests |-> -1]
  /\ buf = [r \in Requests |-> UV_pass]
  /\ result = [r \in Requests |-> NoVerdict]
  /\ place = [r \in Requests |-> "kernel"]
  /\ alive = TRUE
  /\ decided = [r \in Requests |-> NoVerdict]
  /\ timedOut = {} /\ wild = {}

---------------------------------------------------------------------------
(* The operations on a channel. *)

\* __get_channel: counts a reference even to a channel that is not in use.
GetRef(c) == valid' = [valid EXCEPT ![c] = @ + 1]

\* __free_seq: the last reference resets the channel.
FreeSeq(c) ==
  /\ valid' = [valid EXCEPT ![c] = @ - 1]
  /\ IF valid[c] = 1
     THEN /\ msg' = [msg EXCEPT ![c] = NoRequest]
          /\ sem' = [sem EXCEPT ![c] = 1]
     ELSE UNCHANGED <<msg, sem>>

Goto(r, l) == pc' = [pc EXCEPT ![r] = l]
Move(r, p) == place' = [place EXCEPT ![r] = p]

history == <<decided, timedOut, wild>>

---------------------------------------------------------------------------
(* A request: get_verdict and __ukcom_trigger. *)

\* Paths that are not asked about, and a buffer that cannot be allocated.
NotAsked(r) ==
  /\ pc[r] = "idle" /\ Goto(r, "done")
  /\ result' = [result EXCEPT ![r] = UV_pass]
  /\ UNCHANGED <<valid, sem, msg, seq, buf, place, alive, history>>

\* ACTION_execve and ACTION_rename are synchronous ...
AskSync(r) ==
  /\ pc[r] = "idle" /\ Goto(r, "alloc")
  /\ UNCHANGED <<valid, sem, msg, seq, buf, result, place, alive, history>>

\* ... the others are sent with the number -1 and are not waited for.
AskAsync(r) ==
  /\ pc[r] = "idle" /\ Goto(r, "send")
  /\ UNCHANGED <<valid, sem, msg, seq, buf, result, place, alive, history>>

\* __alloc_seq: the first free channel; the semaphore is taken afterwards.
AllocSeq(r) ==
  /\ pc[r] = "alloc"
  /\ \E c \in Channels :
       /\ valid[c] = 0 /\ \A d \in Channels : valid[d] = 0 => c <= d
       /\ valid' = [valid EXCEPT ![c] = 1]
       /\ msg' = [msg EXCEPT ![c] = r]
       /\ seq' = [seq EXCEPT ![r] = c]
  /\ Goto(r, "down")
  /\ UNCHANGED <<sem, buf, result, place, alive, history>>

\* All channels are taken: the question is sent without a number.
AllocFull(r) ==
  /\ pc[r] = "alloc" /\ \A c \in Channels : valid[c] # 0
  /\ Goto(r, "send")
  /\ UNCHANGED <<valid, sem, msg, seq, buf, result, place, alive, history>>

AllocDown(r) ==
  /\ pc[r] = "down" /\ sem[seq[r]] > 0
  /\ sem' = [sem EXCEPT ![seq[r]] = @ - 1]
  /\ Goto(r, "get")
  /\ UNCHANGED <<valid, msg, seq, buf, result, place, alive, history>>

GetChannel(r) ==
  /\ pc[r] = "get" /\ GetRef(seq[r]) /\ Goto(r, "send")
  /\ UNCHANGED <<sem, msg, seq, buf, result, place, alive, history>>

\* The question is in the daemon's socket; without a number nobody waits.
SendOk(r) ==
  /\ pc[r] = "send" /\ alive
  /\ Move(r, "inbox")
  /\ Goto(r, IF seq[r] = -1 THEN "read" ELSE "wget")
  /\ UNCHANGED <<valid, sem, msg, seq, buf, result, alive, history>>

\* Mutant: a failed send gives back one reference only.
SendFailFreesOne(r) ==
  /\ pc[r] = "send"
  /\ Goto(r, IF seq[r] = -1 THEN "read" ELSE "fail2")
  /\ UNCHANGED <<valid, sem, msg, seq, buf, result, place, alive, history>>

\* No memory, no daemon, or its socket is full: the call will pass.
SendFail(r) ==
  /\ pc[r] = "send"
  /\ Goto(r, IF seq[r] = -1 THEN "read" ELSE "fail1")
  /\ UNCHANGED <<valid, sem, msg, seq, buf, result, place, alive, history>>

WaitGet(r) ==
  /\ pc[r] = "wget" /\ GetRef(seq[r]) /\ Goto(r, "wait")
  /\ UNCHANGED <<sem, msg, seq, buf, result, place, alive, history>>

WaitDown(r) ==
  /\ pc[r] = "wait" /\ sem[seq[r]] > 0
  /\ sem' = [sem EXCEPT ![seq[r]] = @ - 1]
  /\ Goto(r, "wfree")
  /\ UNCHANGED <<valid, msg, seq, buf, result, place, alive, history>>

\* Mutant: down instead of down_timeout.
WaitForEver(r) ==
  /\ pc[r] = "wait" /\ sem[seq[r]] > 0 /\ sem[seq[r]] = 0
  /\ timedOut' = timedOut \cup {r} /\ Goto(r, "wfree")
  /\ UNCHANGED <<valid, sem, msg, seq, buf, result, place, alive, decided, wild>>

\* down_timeout gives up: nothing tells the caller.
WaitTimeout(r) ==
  /\ pc[r] = "wait" /\ sem[seq[r]] = 0
  /\ timedOut' = timedOut \cup {r}
  /\ Goto(r, "wfree")
  /\ UNCHANGED <<valid, sem, msg, seq, buf, result, place, alive, decided, wild>>

\* Mutant: the way out gives back the answer's reference as well.
NextFreeMore == [fail1 |-> "fail2", fail2 |-> "read", wfree |-> "free", free |-> "fail2"]

\* The references are given back one by one, two on either way out.
NextFree == [fail1 |-> "fail2", fail2 |-> "read", wfree |-> "free", free |-> "read"]

FreeOne(r) ==
  /\ pc[r] \in DOMAIN NextFree
  /\ FreeSeq(seq[r]) /\ Goto(r, NextFree[pc[r]])
  /\ UNCHANGED <<seq, buf, result, place, alive, history>>

\* verdict = msg->verdict; vfree(msg).
ReadVerdict(r) ==
  /\ pc[r] = "read" /\ Goto(r, "done")
  /\ result' = [result EXCEPT ![r] = buf[r]]
  /\ UNCHANGED <<valid, sem, msg, seq, buf, place, alive, history>>

Request(r) ==
  \/ AllocSeq(r) \/ AllocFull(r) \/ AllocDown(r) \/ GetChannel(r)
  \/ SendOk(r) \/ SendFail(r) \/ WaitGet(r) \/ WaitDown(r) \/ WaitTimeout(r)
  \/ FreeOne(r) \/ ReadVerdict(r)

---------------------------------------------------------------------------
(* The daemon: one thread that reads a question and answers it. *)

requestVars == <<pc, seq, result>>

DaemonIdle == alive /\ \A r \in Requests : place[r] \notin InInput

\* A question with a number is judged and answered ...
Receive(r, v) ==
  /\ DaemonIdle /\ place[r] = "inbox" /\ seq[r] # -1
  /\ decided' = [decided EXCEPT ![r] = v]
  /\ Move(r, "get")
  /\ UNCHANGED <<valid, sem, msg, buf, alive, timedOut, wild, requestVars>>

\* ... and ukcom_reply_msg sends nothing for -1.
ReceiveAsync(r) ==
  /\ DaemonIdle /\ place[r] = "inbox" /\ seq[r] = -1
  /\ Move(r, "served")
  /\ UNCHANGED <<valid, sem, msg, buf, alive, history, requestVars>>

\* Mutant: the answer is not copied.
InputGetNoCopy(r) ==
  /\ place[r] = "get" /\ GetRef(seq[r])
  /\ Move(r, IF valid[seq[r]] = 0 THEN "drop" ELSE "up")
  /\ UNCHANGED <<sem, msg, buf, alive, history, requestVars>>

\* __release_seq: a channel not in use is counted, but not written.
InputGet(r) ==
  /\ place[r] = "get" /\ GetRef(seq[r])
  /\ Move(r, IF valid[seq[r]] = 0 THEN "drop" ELSE "copy")
  /\ UNCHANGED <<sem, msg, buf, alive, history, requestVars>>

\* memcpy(ch->msg, ...): the buffer may be freed by now.
InputCopy(r) ==
  LET owner == msg[seq[r]] IN
  /\ place[r] = "copy" /\ owner # NoRequest
  /\ IF pc[owner] = "done"
     THEN wild' = wild \cup {owner} /\ UNCHANGED buf
     ELSE buf' = [buf EXCEPT ![owner] = decided[r]] /\ UNCHANGED wild
  /\ Move(r, "up")
  /\ UNCHANGED <<valid, sem, msg, alive, decided, timedOut, requestVars>>

InputUp(r) ==
  /\ place[r] = "up"
  /\ sem' = [sem EXCEPT ![seq[r]] = @ + 1]
  /\ Move(r, "rel")
  /\ UNCHANGED <<valid, msg, buf, alive, history, requestVars>>

InputRelease(r) ==
  /\ place[r] = "rel" /\ FreeSeq(seq[r]) /\ Move(r, "drop")
  /\ UNCHANGED <<buf, alive, history, requestVars>>

\* Mutant: the answer gives back its own reference only.
InputKeeps(r) ==
  /\ place[r] = "drop" /\ Move(r, "served")
  /\ UNCHANGED <<valid, msg, sem, buf, alive, history, requestVars>>

\* The second __free_seq gives back the request's second reference.
InputDrop(r) ==
  /\ place[r] = "drop" /\ FreeSeq(seq[r]) /\ Move(r, "served")
  /\ UNCHANGED <<buf, alive, history, requestVars>>

\* The daemon dies between system calls, with its unread questions.
Crash ==
  /\ alive /\ alive' = FALSE
  /\ \A r \in Requests : place[r] \notin InInput \ {"get"}
  /\ place' = [r \in Requests |-> IF place[r] \in {"inbox", "get"} THEN "lost" ELSE place[r]]
  /\ UNCHANGED <<valid, sem, msg, buf, history, requestVars>>

Restart ==
  /\ ~alive /\ alive' = TRUE
  /\ UNCHANGED <<valid, sem, msg, buf, place, history, requestVars>>

Daemon(r) ==
  \/ \E v \in Verdict : Receive(r, v)
  \/ ReceiveAsync(r) \/ InputGet(r) \/ InputCopy(r) \/ InputUp(r)
  \/ InputRelease(r) \/ InputDrop(r)

Next ==
  \/ \E r \in Requests :
       NotAsked(r) \/ AskSync(r) \/ AskAsync(r) \/ Request(r) \/ Daemon(r)
  \/ Crash \/ Restart

\* A system call runs on, and the timer of down_timeout with it; a living
\* daemon reads on.
Fairness ==
  /\ \A r \in Requests : WF_vars(Request(r))
  /\ \A r \in Requests : WF_vars(Daemon(r))

Spec == Init /\ [][Next]_vars /\ Fairness
---------------------------------------------------------------------------
(* Properties. *)

\* References that request r holds on its channel: taken in __alloc_seq,
\* before the send and in __wait_seq.  One is left for the answer.
One(b) == IF b THEN 1 ELSE 0

OwnRefs(r) ==
  One(pc[r] \notin {"idle", "alloc"} /\ ~(pc[r] \in {"read", "done"} /\ place[r] = "kernel"))
  + One(pc[r] \in {"send", "fail1", "wget", "wait", "wfree", "free"})
  + One(pc[r] \in {"wait", "wfree"})

\* ... and what its answer has added or given back.
AnswerRefs(r) ==
  One(place[r] \in {"copy", "up", "rel"}) - One(place[r] = "served")

Refs(r) == OwnRefs(r) + AnswerRefs(r)

TypeOK ==
  /\ valid \in [Channels -> Nat]
  /\ sem \in [Channels -> {0, 1}]
  /\ msg \in [Channels -> Requests \cup {NoRequest}]
  /\ pc \in [Requests -> Pcs]
  /\ seq \in [Requests -> Channels \cup {-1}]
  /\ buf \in [Requests -> Verdict]
  /\ result \in [Requests -> Verdict \cup {NoVerdict}]
  /\ place \in [Requests -> Places]
  /\ alive \in BOOLEAN
  /\ decided \in [Requests -> Verdict \cup {NoVerdict}]
  /\ timedOut \subseteq Requests /\ wild \subseteq Requests

\* channel.valid is at any time the number of references of the channel's
\* request and of its answer, on every way out of __ukcom_trigger and in
\* every order of answer and timeout; with none the channel has no request.
RefsBalanced ==
  \A c \in Channels : valid[c] = IF msg[c] = NoRequest THEN 0 ELSE Refs(msg[c])

\* The down in __alloc_seq, which has no timeout, never waits: whatever the
\* channel's last user and a late answer left, the semaphore is 1.
AllocNeverWaits == \A r \in Requests : pc[r] = "down" => sem[seq[r]] = 1

\* __release_seq copies an answer to the request it belongs to: a channel
\* number is not given to another request while an answer to it may come.
AnswerFindsItsRequest ==
  \A r \in Requests : place[r] \in {"get", "copy", "up", "rel", "drop"} =>
    /\ msg[seq[r]] = r
    /\ valid[seq[r]] > 0

\* get_verdict returns what the daemon said of this call, or lets it pass.
OwnVerdict ==
  \A r \in Requests : result[r] # NoVerdict => result[r] \in {UV_pass, decided[r]}

\* A denial is lost by a timeout and in no other way.
DenialStands ==
  \A r \in Requests :
    pc[r] = "done" /\ decided[r] = UV_deny /\ r \notin timedOut => result[r] = UV_deny

\* The copy into a buffer that get_verdict has freed needs a timeout: the
\* answer of a call that was waited for is copied before the call returns.
LateWriteNeedsTimeout == wild \subseteq timedOut

\* A channel is kept for a call that has returned only while its answer may
\* still come or was lost with the daemon.
LeakIsUnanswered ==
  \A c \in Channels : msg[c] # NoRequest /\ pc[msg[c]] = "done" =>
    place[msg[c]] \in {"inbox", "lost"} \cup InInput

\* A channel, its semaphore and its answer belong to one request until the last
\* reference is gone; then the channel is as if it had never been used.
ChannelSafety ==
  /\ TypeOK /\ RefsBalanced /\ AllocNeverWaits
  /\ AnswerFindsItsRequest /\ LateWriteNeedsTimeout /\ LeakIsUnanswered

\* A hooked call returns, whatever the daemon does.
CallReturns == \A r \in Requests : pc[r] = "alloc" ~> pc[r] = "done"

\* A channel becomes free again and again, or its question died with the daemon.
Leaked(c) == msg[c] # NoRequest /\ place[msg[c]] = "lost"
ChannelComesBack == \A c \in Channels : []<>(valid[c] = 0 \/ Leaked(c))

\* Channels, counts and copies implement Verdicts.
V == INSTANCE Verdicts
ImplementsVerdicts == V!Spec
=============================================================================
