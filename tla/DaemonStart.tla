------------------------------ MODULE DaemonStart ------------------------------
(***************************************************************************)
(* How a daemon (GJCZ, GLTX or ZDFY) becomes the only one of its kind:     *)
(* ServiceBinder::Construct tests the lock file, asks lsof whose lock it   *)
(* is, takes over the socket, and locks the file last.  The other daemons  *)
(* start it again when no process of its name is left; several of them may *)
(* do so at once, and what a daemon starts inherits its lock.              *)
(*                                                                         *)
(* An instance of the daemon is a number, in the order of their starts.    *)
(* `path' is the file now under the name of the lock file: the number of   *)
(* the instance that created it, 0 for none.  A lock belongs to an open    *)
(* file, and so to an instance and to the daemon it has started (its kid). *)
(* The socket is the number of the instance that has bound its path last,  *)
(* 0 if the path is free.                                                  *)
(***************************************************************************)
EXTENDS Naturals, FiniteSets

CONSTANTS
  Watchers,   \* the daemons that start this one again
  MaxStarts,  \* bound: how often it is started
  MaxEnds     \* bound: how often it ends

ASSUME StartConstants == MaxStarts \in Nat \ {0} /\ MaxEnds \in Nat

Daemons == 1 .. MaxStarts

VARIABLES
  pc, file, locked,  \* of an instance: where it is, the lock file it has open, with the lock
  kid,               \* a daemon that it has started lives, with its open files
  path, sock,
  lsof,              \* one of the four places of lsof is there
  watch, started,    \* watchers that found no process; instances so far
  beside,            \* history: instances that were starting at the same time
  misjudged          \* history: a running daemon's lock was taken for another's

openVars == <<file, locked, kid>>
vars == <<pc, openVars, path, sock, lsof, watch, started, beside, misjudged>>

Init ==
  /\ pc = [p \in Daemons |-> "none"] /\ file = [p \in Daemons |-> 0]
  /\ locked = [p \in Daemons |-> FALSE] /\ kid = [p \in Daemons |-> FALSE]
  /\ path = 0 /\ sock = 0 /\ lsof \in BOOLEAN
  /\ watch = {} /\ started = 0
  /\ beside = [p \in Daemons |-> {}] /\ misjudged = FALSE

StartingAt == {"probe", "try", "probing", "lsof", "unlink", "listen", "bind", "open", "lock"}
Starting == {p \in Daemons : pc[p] \in StartingAt}
Running  == {p \in Daemons : pc[p] = "run"}
Alive    == Starting \cup Running

Goto(p, l) == pc' = [pc EXCEPT ![p] = l]
Opens(p, i, l) == file' = [file EXCEPT ![p] = i] /\ locked' = [locked EXCEPT ![p] = l]
Closes(p) == Opens(p, 0, FALSE)

\* flock(LOCK_EX | LOCK_NB) on the file p has open.
Free(p) == \A q \in Daemons : ~(locked[q] /\ file[q] = file[p])

-----------------------------------------------------------------------------
(* ProcessHelperWork of another daemon: test, then start.                  *)

WatcherCheck(w) ==
  /\ w \notin watch /\ Alive = {} /\ started < MaxStarts
  /\ watch' = watch \cup {w}
  /\ UNCHANGED <<pc, openVars, path, sock, lsof, started, beside, misjudged>>

WatcherStart(w) ==
  /\ w \in watch /\ watch' = watch \ {w} /\ started < MaxStarts
  /\ started' = started + 1 /\ Goto(started', "probe")
  /\ beside' = [p \in Daemons |-> IF p = started' THEN Starting
                                  ELSE IF p \in Starting THEN beside[p] \cup {started'} ELSE beside[p]]
  /\ UNCHANGED <<openVars, path, sock, lsof, misjudged>>

-----------------------------------------------------------------------------
(* GetProcState: is the file there and locked?                             *)

Same == UNCHANGED <<lsof, watch, started, beside>>

ProbeOpen(p) ==
  /\ pc[p] = "probe"
  /\ \/ path = 0 /\ Goto(p, "listen") /\ UNCHANGED openVars
     \/ path # 0 /\ Goto(p, "try") /\ Opens(p, path, FALSE) /\ UNCHANGED kid
  /\ UNCHANGED <<path, sock, misjudged>> /\ Same

\* The probe takes the lock itself, for a moment.
ProbeLock(p) ==
  /\ pc[p] = "try"
  /\ \/ Free(p) /\ Goto(p, "probing") /\ Opens(p, file[p], TRUE)
     \/ ~Free(p) /\ Goto(p, "lsof") /\ Closes(p)
  /\ UNCHANGED <<kid, path, sock, misjudged>> /\ Same

ProbeClose(p) ==
  /\ pc[p] = "probing" /\ Goto(p, "listen") /\ Closes(p)
  /\ UNCHANGED <<kid, path, sock, misjudged>> /\ Same

MineHasIt == path # 0 /\ \E q \in Alive : file[q] = path
KidHasIt  == path # 0 /\ \E q \in Daemons : kid[q] /\ file[q] = path

\* GetFileOwner is the first process that has the file open: of this name ...
OwnerIsMine(p) ==
  /\ pc[p] = "lsof" /\ lsof /\ MineHasIt
  /\ Goto(p, "refused")
  /\ UNCHANGED <<openVars, path, sock, misjudged>> /\ Same

\* Mutant: a lock is a lock, whoever has it.
OwnerIsOtherRefused(p) ==
  /\ pc[p] = "lsof"
  /\ ~lsof \/ KidHasIt \/ ~MineHasIt
  /\ Goto(p, "refused")
  /\ UNCHANGED <<openVars, path, sock, misjudged>> /\ Same

\* ... or a kid, or there is none, or no lsof.
OwnerIsOther(p) ==
  /\ pc[p] = "lsof"
  /\ ~lsof \/ KidHasIt \/ ~MineHasIt
  /\ Goto(p, "unlink")
  /\ misjudged' = (misjudged \/ \E q \in Running : locked[q] /\ file[q] = path)
  /\ UNCHANGED <<openVars, path, sock>> /\ Same

Unlink(p) ==
  /\ pc[p] = "unlink" /\ Goto(p, "listen") /\ path' = 0
  /\ UNCHANGED <<openVars, sock, misjudged>> /\ Same

-----------------------------------------------------------------------------
(* CenterListener::Start, then LockProcState.                              *)

\* InitLocalSock unlinks the socket ...
UnlinkSock(p) ==
  /\ pc[p] = "listen" /\ Goto(p, "bind") /\ sock' = 0
  /\ UNCHANGED <<openVars, path, misjudged>> /\ Same

\* ... and binds a new one, ...
Bind(p) ==
  /\ pc[p] = "bind" /\ sock = 0 /\ Goto(p, "open") /\ sock' = p
  /\ UNCHANGED <<openVars, path, misjudged>> /\ Same

\* ... unless another has bound one in between: Construct fails.
BindFails(p) ==
  /\ pc[p] = "bind" /\ sock # 0 /\ Goto(p, "refused")
  /\ UNCHANGED <<openVars, path, sock, misjudged>> /\ Same

LockOpen(p) ==
  /\ pc[p] = "open" /\ Goto(p, "lock")
  /\ path' = (IF path = 0 THEN p ELSE path) /\ Opens(p, path', FALSE)
  /\ UNCHANGED <<kid, sock, misjudged>> /\ Same

\* Mutant: the file is closed, and with it the lock.
LockAndClose(p) ==
  /\ pc[p] = "lock" /\ Goto(p, "run") /\ Closes(p)
  /\ UNCHANGED <<kid, path, sock, misjudged>> /\ Same

\* The outcome is not looked at.
Lock(p) ==
  /\ pc[p] = "lock" /\ Goto(p, "run")
  /\ \/ Free(p) /\ Opens(p, file[p], TRUE)
     \/ ~Free(p) /\ Closes(p)
  /\ UNCHANGED <<kid, path, sock, misjudged>> /\ Same

Start(p) ==
  \/ ProbeOpen(p) \/ ProbeLock(p) \/ ProbeClose(p)
  \/ OwnerIsMine(p) \/ OwnerIsOther(p) \/ Unlink(p)
  \/ UnlinkSock(p) \/ Bind(p) \/ BindFails(p) \/ LockOpen(p) \/ Lock(p)

-----------------------------------------------------------------------------
(* A daemon ends, by DAEMON_EXIT or a crash, and starts other daemons.     *)

End(p) ==
  /\ p \in Alive /\ Goto(p, "dead") /\ Cardinality({q \in Daemons : pc[q] = "dead"}) < MaxEnds
  /\ IF kid[p] THEN UNCHANGED <<file, locked>> ELSE Closes(p)
  /\ UNCHANGED <<kid, path, sock, misjudged>> /\ Same

\* system() in p's own helper: no file is closed on exec.
KidStart(p) ==
  /\ pc[p] = "run" /\ ~kid[p] /\ kid' = [kid EXCEPT ![p] = TRUE]
  /\ UNCHANGED <<pc, file, locked, path, sock, misjudged>> /\ Same

KidEnd(p) ==
  /\ kid[p] /\ kid' = [kid EXCEPT ![p] = FALSE]
  /\ IF pc[p] = "run" THEN UNCHANGED <<file, locked>> ELSE Closes(p)
  /\ UNCHANGED <<pc, path, sock, misjudged>> /\ Same

Next ==
  \/ \E w \in Watchers : WatcherCheck(w) \/ WatcherStart(w)
  \/ \E p \in Daemons : Start(p) \/ End(p) \/ KidStart(p) \/ KidEnd(p)

\* Watchers look again and again and a start goes on; nothing has to end, and
\* no kid has to be started.
Fairness ==
  /\ \A w \in Watchers : WF_vars(WatcherCheck(w) \/ WatcherStart(w))
  /\ \A p \in Daemons : WF_vars(Start(p))

Spec == Init /\ [][Next]_vars /\ Fairness

-----------------------------------------------------------------------------
\* Types; a file is locked once; only who has it open has the lock.
TypeOK ==
  /\ pc \in [Daemons -> StartingAt \cup {"none", "run", "refused", "dead"}]
  /\ file \in [Daemons -> Daemons \cup {0}] /\ path \in Daemons \cup {0} /\ sock \in Daemons \cup {0}
  /\ watch \subseteq Watchers /\ started \in 0 .. MaxStarts
  /\ \A p \in Daemons : locked[p] => /\ file[p] # 0
                                     /\ \A q \in Daemons : locked[q] /\ file[q] = file[p] => q = p
  /\ \A p \in Daemons : file[p] # 0 => p \in Alive \/ kid[p]

\* "check the lock file, check the owner", "the process started, then locked"
\* (Construct): a daemon that started while no other was starting, and whose
\* lock was never taken for its kid's, keeps lock and socket as long as it runs,
\* whoever is started, refused or ends after it.
AloneKeepsAll ==
  \A p \in Running : beside[p] = {} /\ ~misjudged =>
    locked[p] /\ file[p] = path /\ sock = p

\* Somebody answers at the socket some day, unless a daemon runs that has lost
\* it to one that started beside it, or to one that misjudged its lock: the
\* watchers see that one's process and start none.  (MaxStarts must leave every
\* watcher a start after each end.)
Serves == sock \in Running
Unheard == \E p \in Running : sock # p /\ (beside[p] # {} \/ misjudged)
ServedOrUnheard == ~Serves ~> (Serves \/ Unheard)
=============================================================================
