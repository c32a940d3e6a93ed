--------------------------- MODULE DaemonStartProofs ---------------------------
(***************************************************************************)
(* Theorems about DaemonStart, for any watchers and any number of starts   *)
(* and ends: its types, with the exclusion of the lock, and that a daemon  *)
(* which started alone keeps lock and socket.                              *)
(***************************************************************************)
EXTENDS DaemonStart, TLAPS

-----------------------------------------------------------------------------
(* The inductive invariant.                                                *)

OpenTypes ==
  /\ locked \in [Daemons -> BOOLEAN] /\ kid \in [Daemons -> BOOLEAN]
  /\ beside \in [Daemons -> SUBSET Daemons] /\ misjudged \in BOOLEAN

Shut == {"none", "probe", "lsof", "unlink", "listen", "bind", "open", "refused"}

\* Instances come in order; where a daemon has no file open; where kids come from.
Places ==
  \A p \in Daemons :
    /\ pc[p] = "none" <=> p > started
    /\ pc[p] \in Shut => file[p] = 0 /\ ~locked[p]
    /\ pc[p] \in {"try", "probing", "lock"} => file[p] # 0
    /\ kid[p] => pc[p] \in {"run", "dead"}

Typed == TypeOK /\ OpenTypes /\ Places

\* A file is its maker's, which has come past LockOpen.
Made ==
  \A i \in Daemons : (path = i \/ \E q \in Daemons : file[q] = i) => pc[i] \in {"lock", "run", "dead"}

\* Two that are starting know of each other.
Mutual == \A p, q \in Starting : p # q => q \in beside[p]

Sole(p) == beside[p] = {} /\ ~misjudged

\* Beside one that runs alone the others get no further than lsof.
KeepsAll(p) ==
  /\ locked[p] /\ file[p] = path /\ sock = p
  /\ \A q \in Starting : pc[q] \in {"probe", "try", "lsof"} /\ (pc[q] = "try" => file[q] = path)
Held == \A p \in Running : Sole(p) => KeepsAll(p)

\* Nobody has the lock of the file under the path.
Unheld == path = 0 \/ \A q \in Daemons : ~(locked[q] /\ file[q] = path)

\* One that starts alone is going to get the lock.
GetsAll(p) ==
  /\ pc[p] \in {"try", "probing", "lock"} => file[p] = path
  /\ pc[p] = "probing" => locked[p]
  /\ pc[p] \in {"listen", "bind", "open", "lock"} => Unheld
  /\ pc[p] = "bind" => sock = 0
  /\ pc[p] \in {"open", "lock"} => sock = p
  /\ pc[p] = "lock" => path # 0
Coming == \A p \in Starting : Sole(p) => GetsAll(p)

IInv == Typed /\ Made /\ Mutual /\ Held /\ Coming

-----------------------------------------------------------------------------
(* Types: four kinds of steps of an instance, and the start of one.         *)

\* What none of them touches.
Rest == UNCHANGED <<watch, started, beside>>

\* The files stay as they are.
LEMMA MoveTyped ==
  ASSUME Typed, NEW p \in Daemons, NEW l \in (StartingAt \cup {"run", "refused"}) \ {"try", "probing", "lock"},
         pc[p] # "none", ~kid[p], file[p] = 0, ~locked[p],
         pc' = [pc EXCEPT ![p] = l], UNCHANGED <<file, locked, kid>>, Rest,
         path' \in Daemons \cup {0}, sock' \in Daemons \cup {0}, misjudged' \in BOOLEAN
  PROVE  Typed'
<1> USE DEF Typed, TypeOK, OpenTypes, Places, Shut, StartingAt, Starting, Running, Alive, Rest
<1>1. pc'[p] = l /\ \A q \in Daemons : q # p => pc'[q] = pc[q]  OBVIOUS
<1>2. TypeOK'
  <2>1. pc' \in [Daemons -> StartingAt \cup {"none", "run", "refused", "dead"}]  OBVIOUS
  <2>2. \A q \in Daemons : file[q] # 0 => q \in Alive' \/ kid[q]  BY <1>1
  <2> QED BY <2>1, <2>2, Zenon
<1>3. OpenTypes'  OBVIOUS
<1>4. Places'  BY <1>1
<1> QED BY <1>2, <1>3, <1>4

\* The file is closed.
LEMMA CloseTyped ==
  ASSUME Typed, NEW p \in Daemons, NEW l \in {"lsof", "listen", "run", "dead"},
         pc[p] # "none", kid'[p] => l \in {"run", "dead"},
         pc' = [pc EXCEPT ![p] = l], file' = [file EXCEPT ![p] = 0], locked' = [locked EXCEPT ![p] = FALSE],
         kid' \in [Daemons -> BOOLEAN], \A q \in Daemons : q # p => kid'[q] = kid[q],
         UNCHANGED <<path, sock, misjudged>>, Rest
  PROVE  Typed'
<1> USE DEF Typed, TypeOK, OpenTypes, Places, Shut, StartingAt, Starting, Running, Alive, Rest
<1>1. pc'[p] = l /\ \A q \in Daemons : q # p => pc'[q] = pc[q]  OBVIOUS
<1>2. file'[p] = 0 /\ \A q \in Daemons : q # p => file'[q] = file[q]  OBVIOUS
<1>3. ~locked'[p] /\ \A q \in Daemons : q # p => locked'[q] = locked[q]  OBVIOUS
<1>4. TypeOK'
  <2>1. /\ pc' \in [Daemons -> StartingAt \cup {"none", "run", "refused", "dead"}]
        /\ file' \in [Daemons -> Daemons \cup {0}]
    OBVIOUS
  <2>2. \A q \in Daemons : locked'[q] => /\ file'[q] # 0
                                         /\ \A r \in Daemons : locked'[r] /\ file'[r] = file'[q] => r = q
    BY <1>2, <1>3
  <2>3. \A q \in Daemons : file'[q] # 0 => q \in Alive' \/ kid'[q]  BY <1>1, <1>2
  <2> QED BY <2>1, <2>2, <2>3
<1>5. OpenTypes'  OBVIOUS
<1>6. Places'  BY <1>1, <1>2, <1>3
<1> QED BY <1>4, <1>5, <1>6

\* A file is opened.
LEMMA OpenTyped ==
  ASSUME Typed, NEW p \in Daemons, NEW l \in {"try", "lock"}, NEW i \in Daemons,
         pc[p] # "none", ~kid[p],
         pc' = [pc EXCEPT ![p] = l], file' = [file EXCEPT ![p] = i], locked' = [locked EXCEPT ![p] = FALSE],
         UNCHANGED <<kid, sock, misjudged>>, path' \in Daemons \cup {0}, Rest
  PROVE  Typed'
<1> USE DEF Typed, TypeOK, OpenTypes, Places, Shut, StartingAt, Starting, Running, Alive, Rest
<1>1. pc'[p] = l /\ \A q \in Daemons : q # p => pc'[q] = pc[q]  OBVIOUS
<1>2. file'[p] = i /\ \A q \in Daemons : q # p => file'[q] = file[q]  OBVIOUS
<1>3. ~locked'[p] /\ \A q \in Daemons : q # p => locked'[q] = locked[q]  OBVIOUS
<1>4. TypeOK'
  <2>1. /\ pc' \in [Daemons -> StartingAt \cup {"none", "run", "refused", "dead"}]
        /\ file' \in [Daemons -> Daemons \cup {0}]
    OBVIOUS
  <2>2. \A q \in Daemons : locked'[q] => /\ file'[q] # 0
                                         /\ \A r \in Daemons : locked'[r] /\ file'[r] = file'[q] => r = q
    BY <1>2, <1>3
  <2>3. \A q \in Daemons : file'[q] # 0 => q \in Alive' \/ kid'[q]  BY <1>1, <1>2
  <2> QED BY <2>1, <2>2, <2>3
<1>5. OpenTypes'  OBVIOUS
<1>6. i # 0  BY DEF Daemons
<1>7. Places'  BY <1>1, <1>2, <1>3, <1>6
<1> QED BY <1>4, <1>5, <1>7

\* A free file is locked.
LEMMA LockTyped ==
  ASSUME Typed, NEW p \in Daemons, NEW l \in {"probing", "run"},
         pc[p] \in {"try", "lock"}, Free(p),
         pc' = [pc EXCEPT ![p] = l], file' = [file EXCEPT ![p] = file[p]], locked' = [locked EXCEPT ![p] = TRUE],
         UNCHANGED <<kid, path, sock, misjudged>>, Rest
  PROVE  Typed'
<1> USE DEF Typed, TypeOK, OpenTypes, Places, Shut, StartingAt, Starting, Running, Alive, Rest
<1>1. pc'[p] = l /\ \A q \in Daemons : q # p => pc'[q] = pc[q]  OBVIOUS
<1>2. file' = file  OBVIOUS
<1>3. locked'[p] /\ \A q \in Daemons : q # p => locked'[q] = locked[q]  OBVIOUS
<1>4. TypeOK'
  <2>1. pc' \in [Daemons -> StartingAt \cup {"none", "run", "refused", "dead"}]  OBVIOUS
  <2>2. \A q \in Daemons : locked'[q] => /\ file[q] # 0
                                         /\ \A r \in Daemons : locked'[r] /\ file[r] = file[q] => r = q
    BY <1>3 DEF Free
  <2>3. \A q \in Daemons : file[q] # 0 => q \in Alive' \/ kid'[q]  BY <1>1
  <2> QED BY <1>2, <2>1, <2>2, <2>3
<1>5. OpenTypes'  OBVIOUS
<1>6. Places'  BY <1>1, <1>2, <1>3
<1> QED BY <1>4, <1>5, <1>6

\* A daemon is started: the next instance, which was none.
LEMMA StartTyped ==
  ASSUME Typed, NEW w \in Watchers, WatcherStart(w)
  PROVE  /\ Typed' /\ started' \in Daemons /\ pc[started'] = "none" /\ pc'[started'] = "probe"
         /\ \A p \in Daemons : p # started' => pc'[p] = pc[p]
         /\ UNCHANGED <<file, locked, kid, path, sock, misjudged>>
<1> USE StartConstants DEF Typed, TypeOK, OpenTypes, Places, Shut, StartingAt, Starting, Running, Alive
<1>1. started' \in Daemons /\ started' = started + 1 /\ started' \in 0 .. MaxStarts
  BY DEF WatcherStart, Daemons
<1>2. /\ pc' = [pc EXCEPT ![started'] = "probe"] /\ watch' \subseteq Watchers
      /\ UNCHANGED <<file, locked, kid, path, sock, misjudged>>
  BY DEF WatcherStart, Goto, openVars
<1>3. /\ pc[started'] = "none" /\ file[started'] = 0 /\ ~locked[started'] /\ ~kid[started']
  <2>1. pc[started'] = "none"
    BY <1>1
  <2> QED BY <1>1, <2>1
<1>4. \A p \in Daemons : p # started' => pc'[p] = pc[p] /\ (p > started' <=> p > started)
  BY <1>1, <1>2 DEF Daemons
<1>5. pc'[started'] = "probe"  BY <1>1, <1>2
<1>6. TypeOK'
  <2>1. pc' \in [Daemons -> StartingAt \cup {"none", "run", "refused", "dead"}]  BY <1>1, <1>2
  <2>2. \A p \in Daemons : file[p] # 0 => p \in Alive' \/ kid[p]  BY <1>3, <1>4
  <2> QED BY <1>1, <1>2, <2>1, <2>2
<1>7. OpenTypes'
  <2>1. beside' \in [Daemons -> SUBSET Daemons]  BY <1>1 DEF WatcherStart
  <2> QED BY <1>2, <2>1
<1>8. ~(started' > started')  BY <1>1
<1>9. Places'  BY <1>1, <1>2, <1>3, <1>4, <1>5, <1>8
<1> QED BY <1>1, <1>2, <1>3, <1>4, <1>5, <1>6, <1>7, <1>9

\* No step changes the type of a variable, and a lock has one holder.
LEMMA TypeNext == ASSUME Typed, [Next]_vars PROVE Typed'
<1> USE DEF Goto, Opens, Closes, Same, openVars, Rest
<1>0. \A p \in Daemons : pc[p] \in StartingAt => pc[p] # "none" /\ ~kid[p]
  BY DEF Typed, Places, StartingAt
<1>1. ASSUME NEW w \in Watchers, WatcherCheck(w) PROVE Typed'
  BY <1>1 DEF WatcherCheck, Typed, TypeOK, OpenTypes, Places, Alive, Starting, Running
<1>2. ASSUME NEW w \in Watchers, WatcherStart(w) PROVE Typed'  BY <1>2, StartTyped
<1>3. ASSUME NEW p \in Daemons, Start(p) PROVE Typed'
  <2>1. pc[p] \in StartingAt
    BY <1>3 DEF Start, ProbeOpen, ProbeLock, ProbeClose, OwnerIsMine, OwnerIsOther, Unlink, UnlinkSock, Bind,
       BindFails, LockOpen,
                Lock, StartingAt
  <2>2. pc[p] # "none" /\ ~kid[p]  BY <1>0, <2>1
  <2>3. pc[p] \in Shut => file[p] = 0 /\ ~locked[p]  BY DEF Typed, Places
  <2>4. path \in Daemons \cup {0} /\ sock \in Daemons \cup {0} /\ misjudged \in BOOLEAN
        /\ kid \in [Daemons -> BOOLEAN]
    BY DEF Typed, TypeOK, OpenTypes
  <2>5. CASE ProbeOpen(p)
    <3>1. CASE path = 0  BY <2>2, <2>3, <2>4, <2>5, <3>1, MoveTyped DEF ProbeOpen, Shut, StartingAt
    <3>2. CASE path # 0  BY <2>2, <2>4, <2>5, <3>2, OpenTyped DEF ProbeOpen
    <3> QED BY <3>1, <3>2
  <2>6. CASE ProbeLock(p)
    <3>1. CASE Free(p)  BY <2>6, <3>1, LockTyped DEF ProbeLock
    <3>2. CASE ~Free(p)  BY <2>2, <2>4, <2>6, <3>2, CloseTyped DEF ProbeLock
    <3> QED BY <3>1, <3>2
  <2>7. CASE ProbeClose(p)  BY <2>2, <2>4, <2>7, CloseTyped DEF ProbeClose
  <2>8. CASE OwnerIsMine(p)  BY <2>2, <2>3, <2>4, <2>8, MoveTyped DEF OwnerIsMine, Shut, StartingAt
  <2>9. CASE OwnerIsOther(p)
    <3>1. misjudged' \in BOOLEAN  BY <2>9, Zenon DEF OwnerIsOther
    <3> QED BY <2>2, <2>3, <2>4, <2>9, <3>1, MoveTyped DEF OwnerIsOther, Shut, StartingAt
  <2>10. CASE Unlink(p)  BY <2>2, <2>3, <2>4, <2>10, MoveTyped DEF Unlink, Shut, StartingAt
  <2>11. CASE UnlinkSock(p)  BY <2>2, <2>3, <2>4, <2>11, MoveTyped DEF UnlinkSock, Shut, StartingAt
  <2>14. CASE Bind(p)  BY <2>2, <2>3, <2>4, <2>14, MoveTyped DEF Bind, Shut, StartingAt
  <2>15. CASE BindFails(p)  BY <2>2, <2>3, <2>4, <2>15, MoveTyped DEF BindFails, Shut, StartingAt
  <2>12. CASE LockOpen(p)
    <3>1. path' \in Daemons  BY <2>4, <2>12 DEF LockOpen
    <3> QED BY <2>2, <2>4, <2>12, <3>1, OpenTyped DEF LockOpen
  <2>13. CASE Lock(p)
    <3>1. CASE Free(p)  BY <2>13, <3>1, LockTyped DEF Lock
    <3>2. CASE ~Free(p)  BY <2>2, <2>4, <2>13, <3>2, CloseTyped DEF Lock
    <3> QED BY <3>1, <3>2
  <2> QED BY <1>3, <2>5, <2>6, <2>7, <2>8, <2>9, <2>10, <2>11, <2>12, <2>13, <2>14, <2>15 DEF Start
<1>4. ASSUME NEW p \in Daemons, End(p) PROVE Typed'
  <2>1. pc[p] # "none" /\ kid \in [Daemons -> BOOLEAN]
    BY <1>4 DEF End, Alive, Starting, Running, StartingAt, Typed, OpenTypes
  <2>2. CASE kid[p]
    <3>1. /\ pc[p] = "run" /\ pc' = [pc EXCEPT ![p] = "dead"]
          /\ UNCHANGED <<file, locked, kid, path, sock, misjudged, watch, started, beside>>
      BY <1>4, <1>0, <2>2 DEF End, Alive, Starting, Running
    <3>2. pc'[p] = "dead" /\ \A q \in Daemons : q # p => pc'[q] = pc[q]
      BY <3>1 DEF Typed, TypeOK
    <3>3. pc' \in [Daemons -> StartingAt \cup {"none", "run", "refused", "dead"}]
      BY <3>1 DEF Typed, TypeOK
    <3>4. \A q \in Daemons : file[q] # 0 => q \in Alive' \/ kid[q]
      BY <2>2, <3>2 DEF Typed, TypeOK, Alive, Starting, Running
    <3> QED BY <3>1, <3>2, <3>3, <3>4 DEF Typed, TypeOK, OpenTypes, Places, Shut
  <2>3. CASE ~kid[p]  BY <1>4, <2>1, <2>3, CloseTyped DEF End
  <2> QED BY <2>2, <2>3
<1>5. ASSUME NEW p \in Daemons, KidStart(p) PROVE Typed'
  <2>1. /\ pc[p] = "run" /\ kid' = [kid EXCEPT ![p] = TRUE]
        /\ UNCHANGED <<pc, file, locked, path, sock, misjudged, watch, started, beside>>
    BY <1>5 DEF KidStart
  <2>2. \A q \in Daemons : kid[q] => kid'[q]  BY <2>1 DEF Typed, OpenTypes
  <2>3. \A q \in Daemons : q # p => kid'[q] = kid[q]  BY <2>1 DEF Typed, OpenTypes
  <2> QED BY <2>1, <2>2, <2>3 DEF Typed, TypeOK, OpenTypes, Places, Shut, Alive, Starting, Running
<1>6. ASSUME NEW p \in Daemons, KidEnd(p) PROVE Typed'
  <2>1. /\ kid[p] /\ kid' = [kid EXCEPT ![p] = FALSE]
        /\ UNCHANGED <<pc, path, sock, misjudged, watch, started, beside>>
    BY <1>6 DEF KidEnd
  <2>2. ~kid'[p] /\ \A q \in Daemons : q # p => kid'[q] = kid[q]  BY <2>1 DEF Typed, OpenTypes
  <2>3. CASE pc[p] = "run"
    <3>1. UNCHANGED <<file, locked>>  BY <1>6, <2>3 DEF KidEnd
    <3>2. p \in Alive  BY <2>3 DEF Alive, Running
    <3> QED BY <2>1, <2>2, <3>1, <3>2 DEF Typed, TypeOK, OpenTypes, Places, Shut, Alive, Starting, Running
  <2>4. CASE pc[p] # "run"
    <3>1. pc[p] = "dead"  BY <2>1, <2>4 DEF Typed, Places
    <3>2. pc' = [pc EXCEPT ![p] = "dead"] /\ kid' \in [Daemons -> BOOLEAN]
      BY <2>1, <3>1 DEF Typed, TypeOK, OpenTypes
    <3> QED BY <1>6, <2>1, <2>2, <2>4, <3>1, <3>2, CloseTyped DEF KidEnd
  <2> QED BY <2>3, <2>4
<1>7. CASE UNCHANGED vars
  BY <1>7 DEF vars, Typed, TypeOK, OpenTypes, Places, Alive, Starting, Running
<1> QED BY <1>1, <1>2, <1>3, <1>4, <1>5, <1>6, <1>7 DEF Next

-----------------------------------------------------------------------------
(* What files are there, and who is starting.                              *)

\* Files are made by LockOpen only.
LEMMA MadeNext == ASSUME Typed, Made, [Next]_vars PROVE Made'
<1> USE DEF Goto, Opens, Closes, Same, openVars
<1> DEFINE Past(i) == pc[i] \in {"lock", "run", "dead"}
<1>1. SUFFICES ASSUME NEW i \in Daemons, path' = i \/ \E q \in Daemons : file'[q] = i
               PROVE  pc'[i] \in {"lock", "run", "dead"}
  BY DEF Made
<1>2. pc \in [Daemons -> StartingAt \cup {"none", "run", "refused", "dead"}]
      /\ file \in [Daemons -> Daemons \cup {0}] /\ i # 0
  BY DEF Typed, TypeOK, Daemons
<1>3. path = i \/ (\E q \in Daemons : file[q] = i) => Past(i)  BY DEF Made
<1>4. ASSUME NEW w \in Watchers, WatcherStart(w) PROVE Past(i)'
  BY <1>1, <1>3, <1>4, StartTyped
<1>5. ASSUME NEW p \in Daemons, ProbeOpen(p) PROVE Past(i)'
  BY <1>1, <1>2, <1>3, <1>5 DEF ProbeOpen
<1>6. ASSUME NEW p \in Daemons, ProbeLock(p) PROVE Past(i)'
  <2>1. \A q \in Daemons : file'[q] \in {file[q], 0}  BY <1>2, <1>6 DEF ProbeLock
  <2> QED BY <1>1, <1>2, <1>3, <1>6, <2>1 DEF ProbeLock
<1>7. ASSUME NEW p \in Daemons, ProbeClose(p) PROVE Past(i)'
  <2>1. \A q \in Daemons : file'[q] \in {file[q], 0}  BY <1>2, <1>7 DEF ProbeClose
  <2> QED BY <1>1, <1>2, <1>3, <1>7, <2>1 DEF ProbeClose
<1>8. ASSUME NEW p \in Daemons, OwnerIsMine(p) \/ OwnerIsOther(p) \/ Unlink(p)
                              \/ UnlinkSock(p) \/ Bind(p) \/ BindFails(p)
     PROVE  Past(i)'
  BY <1>1, <1>2, <1>3, <1>8 DEF OwnerIsMine, OwnerIsOther, Unlink, UnlinkSock, Bind, BindFails
<1>9. ASSUME NEW p \in Daemons, LockOpen(p) PROVE Past(i)'
  <2>1. pc'[p] = "lock" /\ \A q \in Daemons : q # p => pc'[q] = pc[q]  BY <1>2, <1>9 DEF LockOpen
  <2>2. path' \in {path, p} /\ \A q \in Daemons : file'[q] \in {file[q], path'}
    BY <1>2, <1>9 DEF LockOpen
  <2>3. i = p \/ path = i \/ \E q \in Daemons : file[q] = i  BY <1>1, <2>2
  <2> QED BY <1>3, <2>1, <2>3
<1>10. ASSUME NEW p \in Daemons, Lock(p) PROVE Past(i)'
  <2>1. \A q \in Daemons : file'[q] \in {file[q], 0}  BY <1>2, <1>10 DEF Lock
  <2> QED BY <1>1, <1>2, <1>3, <1>10, <2>1 DEF Lock
<1>11. ASSUME NEW p \in Daemons, End(p) PROVE Past(i)'
  <2>1. \A q \in Daemons : file'[q] \in {file[q], 0}  BY <1>2, <1>11 DEF End
  <2> QED BY <1>1, <1>2, <1>3, <1>11, <2>1 DEF End
<1>12. ASSUME NEW p \in Daemons, KidEnd(p) PROVE Past(i)'
  <2>1. \A q \in Daemons : file'[q] \in {file[q], 0}  BY <1>2, <1>12 DEF KidEnd
  <2> QED BY <1>1, <1>2, <1>3, <1>12, <2>1 DEF KidEnd
<1>13. ASSUME UNCHANGED <<pc, file, path>> PROVE Past(i)'  BY <1>1, <1>3, <1>13
<1>14. ASSUME NEW w \in Watchers, WatcherCheck(w) PROVE Past(i)'  BY <1>13, <1>14 DEF WatcherCheck
<1>15. ASSUME NEW p \in Daemons, KidStart(p) PROVE Past(i)'  BY <1>13, <1>15 DEF KidStart
<1>16. CASE UNCHANGED vars  BY <1>13, <1>16 DEF vars
<1> QED BY <1>4, <1>5, <1>6, <1>7, <1>8, <1>9, <1>10, <1>11, <1>12, <1>14, <1>15, <1>16 DEF Next, Start

\* Only a start adds one that is starting; beside grows for those that are.
LEMMA StartersNext ==
  ASSUME Typed, [Next]_vars, ~\E w \in Watchers : WatcherStart(w)
  PROVE  beside' = beside /\ Starting' \subseteq Starting /\ (misjudged => misjudged')
<1> USE DEF Goto, Same, openVars, Starting, StartingAt
<1>1. pc \in [Daemons -> StartingAt \cup {"none", "run", "refused", "dead"}]  BY DEF Typed, TypeOK
<1>2. ASSUME NEW p \in Daemons, Start(p)
      PROVE  /\ p \in Starting /\ beside' = beside /\ (misjudged => misjudged')
             /\ \A q \in Daemons : q # p => pc'[q] = pc[q]
  <2> USE DEF ProbeOpen, ProbeLock, ProbeClose, OwnerIsMine, OwnerIsOther, Unlink, UnlinkSock, Bind, BindFails,
     LockOpen, Lock
  <2>1. p \in Starting /\ beside' = beside  BY <1>2 DEF Start
  <2>2. \E l : pc' = [pc EXCEPT ![p] = l]  BY <1>2 DEF Start
  <2>3. misjudged => misjudged'
    <3>1. CASE OwnerIsOther(p)  BY <3>1, Zenon
    <3>2. CASE ~OwnerIsOther(p)  BY <1>2, <3>2 DEF Start
    <3> QED BY <3>1, <3>2
  <2> QED BY <1>1, <2>1, <2>2, <2>3
<1>3. ASSUME NEW p \in Daemons, End(p)
      PROVE  /\ beside' = beside /\ misjudged' = misjudged
             /\ pc'[p] = "dead" /\ \A q \in Daemons : q # p => pc'[q] = pc[q]
  BY <1>1, <1>3 DEF End
<1>4. ASSUME NEW p \in Daemons, KidStart(p) \/ KidEnd(p) PROVE UNCHANGED <<pc, beside, misjudged>>
  BY <1>4 DEF KidStart, KidEnd
<1>5. ASSUME NEW w \in Watchers, WatcherCheck(w) PROVE UNCHANGED <<pc, beside, misjudged>>
  BY <1>5 DEF WatcherCheck
<1>6. CASE UNCHANGED vars  BY <1>6 DEF vars
<1> QED BY <1>2, <1>3, <1>4, <1>5, <1>6 DEF Next

\* A start, the other way to change who is starting.
LEMMA StarterNext ==
  ASSUME Typed, NEW w \in Watchers, WatcherStart(w)
  PROVE  /\ Starting' = Starting \cup {started'} /\ started' \notin Starting
         /\ beside'[started'] = Starting
         /\ \A p \in Starting : beside'[p] = beside[p] \cup {started'}
         /\ \A p \in Daemons \ Starting : p # started' => beside'[p] = beside[p]
<1>1. /\ started' \in Daemons /\ pc[started'] = "none" /\ pc'[started'] = "probe"
      /\ \A p \in Daemons : p # started' => pc'[p] = pc[p]
  BY StartTyped
<1>2. started' \notin Starting /\ Starting' = Starting \cup {started'}
  BY <1>1 DEF Starting, StartingAt
<1> QED BY <1>1, <1>2 DEF WatcherStart, Starting

\* Two that are starting go on knowing of each other.
LEMMA MutualNext == ASSUME Typed, Mutual, [Next]_vars PROVE Mutual'
<1>1. CASE \E w \in Watchers : WatcherStart(w)  BY <1>1, StarterNext DEF Mutual
<1>2. CASE ~\E w \in Watchers : WatcherStart(w)  BY <1>2, StartersNext DEF Mutual
<1> QED BY <1>1, <1>2

-----------------------------------------------------------------------------
(* A daemon alone.                                                         *)

\* A step of Start is a starting daemon's.
LEMMA StartIsStarting == ASSUME NEW p, Start(p), p \in Daemons PROVE p \in Starting
  BY DEF Start, ProbeOpen, ProbeLock, ProbeClose, OwnerIsMine, OwnerIsOther, Unlink, UnlinkSock, Bind,
     BindFails, LockOpen, Lock,
         Starting, StartingAt

\* Another's step past lsof takes place beside a running daemon only if one of
\* the two is not alone.
LEMMA HeldNext == ASSUME IInv, [Next]_vars PROVE Held'
<1> USE DEF Goto, Opens, Closes, Same, openVars
<1>1. SUFFICES ASSUME NEW r \in Daemons, pc'[r] = "run", Sole(r)' PROVE KeepsAll(r)'
  BY DEF Held, Running
<1>2. /\ pc \in [Daemons -> StartingAt \cup {"none", "run", "refused", "dead"}]
      /\ file \in [Daemons -> Daemons \cup {0}] /\ locked \in [Daemons -> BOOLEAN]
      /\ \A p \in Daemons : locked[p] => file[p] # 0
  BY DEF IInv, Typed, TypeOK, OpenTypes
<1>3. pc[r] = "run" /\ Sole(r) => KeepsAll(r)  BY DEF IInv, Held, Running
<1>4. ASSUME NEW w \in Watchers, WatcherStart(w) PROVE KeepsAll(r)'
  <2>1. pc[r] = "run" /\ r \notin Starting /\ UNCHANGED <<file, locked, path, sock, misjudged>>
    BY <1>1, <1>4, StartTyped DEF IInv, Starting, StartingAt
  <2>2. r # started' /\ beside'[r] = beside[r]  BY <1>1, <1>4, <2>1, StarterNext, StartTyped DEF IInv
  <2>3. KeepsAll(r)  BY <1>1, <1>3, <2>1, <2>2 DEF Sole
  <2>4. \A q \in Starting' : q # started' => q \in Starting /\ pc'[q] = pc[q]
    BY <1>4, StarterNext, StartTyped DEF IInv, Starting
  <2>5. pc'[started'] = "probe"  BY <1>4, StartTyped DEF IInv
  <2> QED BY <2>1, <2>3, <2>4, <2>5 DEF KeepsAll
<1>5. ASSUME ~\E w \in Watchers : WatcherStart(w), pc[r] = "run" PROVE KeepsAll(r)
  <2>1. beside' = beside /\ (misjudged => misjudged')  BY <1>5, StartersNext DEF IInv
  <2> QED BY <1>1, <1>3, <1>5, <2>1 DEF Sole
<1>6. ASSUME NEW p \in Daemons, Start(p), p # r PROVE KeepsAll(r)'
  <2>1. ~(\E w \in Watchers : WatcherStart(w)) /\ p \in Starting
    BY <1>6, StartIsStarting DEF WatcherStart, Start, ProbeOpen, ProbeLock, ProbeClose, OwnerIsMine, OwnerIsOther,
       Unlink, UnlinkSock, Bind, BindFails, LockOpen, Lock
  <2>2. pc[r] = "run" /\ \A q \in Daemons : q # p => pc'[q] = pc[q]
    BY <1>1, <1>2, <1>6 DEF Start, ProbeOpen, ProbeLock, ProbeClose, OwnerIsMine, OwnerIsOther, Unlink,
       UnlinkSock, Bind, BindFails,
       LockOpen, Lock
  <2>3. KeepsAll(r)  BY <1>5, <2>1, <2>2
  <2>4. pc[p] \in {"probe", "try", "lsof"}  BY <2>1, <2>3 DEF KeepsAll
  <2>5. \A q \in Starting' : q # p => q \in Starting /\ pc'[q] = pc[q]  BY <2>2 DEF Starting
  <2>6. CASE ProbeOpen(p)
    <3>1. path # 0  BY <1>2, <2>3 DEF KeepsAll
    <3>2. pc'[p] = "try" /\ file'[p] = path /\ UNCHANGED <<path, sock>>
      BY <1>2, <2>6, <3>1 DEF ProbeOpen
    <3>3. \A q \in Daemons : q # p => file'[q] = file[q] /\ locked'[q] = locked[q]
      BY <1>2, <2>6, <3>1 DEF ProbeOpen
    <3> QED BY <1>6, <2>2, <2>3, <2>5, <3>2, <3>3 DEF KeepsAll, Starting
  <2>7. CASE ProbeLock(p)
    <3>1. pc[p] = "try" /\ file[p] = path  BY <2>1, <2>3, <2>7 DEF KeepsAll, ProbeLock
    <3>2. ~Free(p)  BY <2>3, <3>1 DEF Free, KeepsAll
    <3>3. pc'[p] = "lsof" /\ UNCHANGED <<path, sock>>  BY <1>2, <2>7, <3>2 DEF ProbeLock
    <3>4. \A q \in Daemons : q # p => file'[q] = file[q] /\ locked'[q] = locked[q]
      BY <1>2, <2>7, <3>2 DEF ProbeLock
    <3> QED BY <1>6, <2>2, <2>3, <2>5, <3>3, <3>4 DEF KeepsAll, Starting
  <2>8. CASE OwnerIsMine(p)
    <3>1. pc'[p] = "refused" /\ UNCHANGED <<file, locked, path, sock>>  BY <1>2, <2>8 DEF OwnerIsMine
    <3> QED BY <2>2, <2>3, <2>5, <3>1 DEF KeepsAll, Starting, StartingAt
  <2>9. CASE OwnerIsOther(p)
    <3>1. r \in Running /\ locked[r] /\ file[r] = path  BY <2>2, <2>3 DEF KeepsAll, Running
    <3>2. misjudged'  BY <2>9, <3>1, Zenon DEF OwnerIsOther
    <3> QED BY <1>1, <3>2 DEF Sole
  <2> QED BY <1>6, <2>4, <2>6, <2>7, <2>8, <2>9 DEF Start, ProbeClose, Unlink, UnlinkSock, Bind, BindFails,
     LockOpen, Lock
<1>7. ASSUME Start(r) PROVE KeepsAll(r)'
  <2>1. Lock(r)
    BY <1>1, <1>2, <1>7 DEF Start, ProbeOpen, ProbeLock, ProbeClose, OwnerIsMine, OwnerIsOther, Unlink,
       UnlinkSock, Bind, BindFails,
       LockOpen
  <2>2. pc[r] = "lock" /\ UNCHANGED <<path, sock, beside, misjudged>>  BY <2>1 DEF Lock
  <2>3. r \in Starting /\ GetsAll(r)  BY <1>1, <2>2 DEF IInv, Coming, Sole, Starting, StartingAt
  <2>4. Free(r)  BY <2>2, <2>3 DEF GetsAll, Unheld, Free
  <2>5. locked'[r] /\ file'[r] = path  BY <1>2, <2>1, <2>2, <2>3, <2>4 DEF Lock, GetsAll
  <2>6. Starting' = {}
    <3>1. Starting = {r}  BY <1>1, <2>2, <2>3 DEF IInv, Mutual, Sole
    <3>2. \A q \in Daemons : q # r => pc'[q] = pc[q]  BY <2>1 DEF Lock
    <3> QED BY <1>1, <3>1, <3>2 DEF Starting, StartingAt
  <2> QED BY <2>2, <2>3, <2>5, <2>6 DEF KeepsAll, GetsAll
<1>8. ASSUME NEW p \in Daemons, End(p) PROVE KeepsAll(r)'
  <2>1. p # r /\ pc[r] = "run" /\ UNCHANGED <<path, sock>>
        /\ \A q \in Daemons : q # p => pc'[q] = pc[q] /\ file'[q] = file[q] /\ locked'[q] = locked[q]
    BY <1>1, <1>2, <1>8 DEF End
  <2>2. KeepsAll(r)  BY <1>5, <1>8, <2>1 DEF End, WatcherStart
  <2>3. pc'[p] = "dead"  BY <1>2, <1>8 DEF End
  <2> QED BY <2>1, <2>2, <2>3 DEF KeepsAll, Starting, StartingAt
<1>9. ASSUME NEW p \in Daemons, KidStart(p) PROVE KeepsAll(r)'
  <2>1. UNCHANGED <<pc, file, locked, path, sock, beside, misjudged>>  BY <1>9 DEF KidStart
  <2> QED BY <1>1, <1>3, <2>1 DEF KeepsAll, Sole, Starting
<1>10. ASSUME NEW p \in Daemons, KidEnd(p) PROVE KeepsAll(r)'
  <2>1. UNCHANGED <<pc, path, sock, beside, misjudged>>  BY <1>10 DEF KidEnd
  <2>2. KeepsAll(r)  BY <1>1, <1>3, <2>1 DEF Sole
  <2>3. \A q \in Daemons : pc[q] # "dead" => file'[q] = file[q] /\ locked'[q] = locked[q]
    BY <1>2, <1>10 DEF KidEnd, IInv, Typed, Places
  <2> QED BY <1>1, <2>1, <2>2, <2>3 DEF KeepsAll, Starting, StartingAt
<1>11. CASE UNCHANGED vars \/ \E w \in Watchers : WatcherCheck(w)
  <2>1. UNCHANGED <<pc, file, locked, path, sock, beside, misjudged>>  BY <1>11 DEF vars, WatcherCheck
  <2> QED BY <1>1, <1>3, <2>1 DEF KeepsAll, Sole, Starting
<1> QED BY <1>4, <1>6, <1>7, <1>8, <1>9, <1>10, <1>11 DEF Next

\* One that starts alone finds each step's outcome as it left it.
LEMMA ComingNext == ASSUME IInv, [Next]_vars PROVE Coming'
<1> USE DEF Goto, Opens, Closes, Same, openVars
<1>1. SUFFICES ASSUME NEW r \in Daemons, pc'[r] \in StartingAt, Sole(r)' PROVE GetsAll(r)'
  BY DEF Coming, Starting
<1>2. /\ pc \in [Daemons -> StartingAt \cup {"none", "run", "refused", "dead"}]
      /\ file \in [Daemons -> Daemons \cup {0}] /\ locked \in [Daemons -> BOOLEAN]
      /\ path \in Daemons \cup {0}
      /\ \A p \in Daemons : locked[p] => file[p] # 0
  BY DEF IInv, Typed, TypeOK, OpenTypes
<1>3. CASE \E w \in Watchers : WatcherStart(w)
  <2>1. PICK w \in Watchers : WatcherStart(w)  BY <1>3
  <2>2. r # started' => r \in Starting  BY <1>1, <2>1, StarterNext DEF IInv, Starting
  <2>3. r = started'  BY <1>1, <2>1, <2>2, StarterNext DEF IInv, Sole
  <2>4. pc'[r] = "probe"  BY <2>1, <2>3, StartTyped DEF IInv
  <2> QED BY <2>4 DEF GetsAll
<1>4. CASE ~\E w \in Watchers : WatcherStart(w)
  <2>1. r \in Starting /\ Sole(r)  BY <1>1, <1>4, StartersNext DEF IInv, Starting, Sole
  <2>2. GetsAll(r) /\ Starting = {r}  BY <2>1 DEF IInv, Coming, Mutual, Sole
  <2>3. ASSUME NEW p \in Daemons, Start(p) PROVE GetsAll(r)'
    <3>1. p = r  BY <2>2, <2>3, StartIsStarting
    <3>2. CASE ProbeOpen(r)
      <4>1. CASE path = 0
        <5>1. pc'[r] = "listen" /\ path' = 0  BY <1>2, <3>2, <4>1 DEF ProbeOpen
        <5> QED BY <5>1 DEF GetsAll, Unheld
      <4>2. CASE path # 0
        <5>1. pc'[r] = "try" /\ file'[r] = path /\ path' = path  BY <1>2, <3>2, <4>2 DEF ProbeOpen
        <5> QED BY <5>1 DEF GetsAll
      <4> QED BY <4>1, <4>2
    <3>3. CASE ProbeLock(r)
      <4>1. CASE Free(r)
        <5>1. pc[r] = "try" /\ pc'[r] = "probing" /\ file'[r] = file[r] /\ locked'[r] /\ path' = path
          BY <1>2, <3>3, <4>1 DEF ProbeLock
        <5> QED BY <2>2, <5>1 DEF GetsAll
      <4>2. CASE ~Free(r)
        <5>1. pc'[r] = "lsof"  BY <1>2, <3>3, <4>2 DEF ProbeLock
        <5> QED BY <5>1 DEF GetsAll
      <4> QED BY <4>1, <4>2
    <3>4. CASE ProbeClose(r)
      <4>1. /\ pc[r] = "probing" /\ pc'[r] = "listen" /\ path' = path /\ ~locked'[r]
            /\ \A q \in Daemons : q # r => file'[q] = file[q] /\ locked'[q] = locked[q]
        BY <1>2, <3>4 DEF ProbeClose
      <4>2. locked[r] /\ file[r] = path  BY <2>2, <4>1 DEF GetsAll
      <4>3. \A q \in Daemons : locked[q] /\ file[q] = path => q = r
        BY <4>2 DEF IInv, Typed, TypeOK
      <4>4. Unheld'  BY <4>1, <4>3 DEF Unheld
      <4> QED BY <4>1, <4>4 DEF GetsAll
    <3>5. CASE OwnerIsMine(r)
      <4>1. pc'[r] = "refused"  BY <1>2, <3>5 DEF OwnerIsMine
      <4> QED BY <1>1, <4>1 DEF StartingAt
    <3>6. CASE OwnerIsOther(r)
      <4>1. pc'[r] = "unlink"  BY <1>2, <3>6 DEF OwnerIsOther
      <4> QED BY <4>1 DEF GetsAll
    <3>7. CASE Unlink(r)
      <4>1. pc'[r] = "listen" /\ path' = 0  BY <1>2, <3>7 DEF Unlink
      <4> QED BY <4>1 DEF GetsAll, Unheld
    <3>8. CASE UnlinkSock(r)
      <4>1. pc[r] = "listen" /\ pc'[r] = "bind" /\ sock' = 0 /\ UNCHANGED <<file, locked, path>>
        BY <1>2, <3>8 DEF UnlinkSock
      <4> QED BY <2>2, <4>1 DEF GetsAll, Unheld
    <3>11. CASE Bind(r)
      <4>1. pc[r] = "bind" /\ pc'[r] = "open" /\ sock' = r /\ UNCHANGED <<file, locked, path>>
        BY <1>2, <3>11 DEF Bind
      <4> QED BY <2>2, <4>1 DEF GetsAll, Unheld
    <3>12. CASE BindFails(r)
      <4>1. pc'[r] = "refused"  BY <1>2, <3>12 DEF BindFails
      <4> QED BY <1>1, <4>1 DEF StartingAt
    <3>9. CASE LockOpen(r)
      <4>1. /\ pc[r] = "open" /\ pc'[r] = "lock" /\ sock' = sock /\ ~locked'[r]
            /\ path' = (IF path = 0 THEN r ELSE path) /\ file'[r] = path'
            /\ \A q \in Daemons : q # r => file'[q] = file[q] /\ locked'[q] = locked[q]
        BY <1>2, <3>9 DEF LockOpen
      <4>2. path' # 0  BY <4>1 DEF Daemons
      <4>3. Unheld'
        <5>1. CASE path = 0
          <6>1. \A q \in Daemons : file[q] # r  BY <4>1 DEF IInv, Made
          <6> QED BY <4>1, <5>1, <6>1 DEF Unheld
        <5>2. CASE path # 0  BY <2>2, <4>1, <5>2 DEF Unheld, GetsAll
        <5> QED BY <5>1, <5>2
      <4> QED BY <2>2, <4>1, <4>2, <4>3 DEF GetsAll
    <3>10. CASE Lock(r)
      <4>1. pc'[r] = "run"  BY <1>2, <3>10 DEF Lock
      <4> QED BY <1>1, <4>1 DEF StartingAt
    <3> QED BY <2>3, <3>1, <3>2, <3>3, <3>4, <3>5, <3>6, <3>7, <3>8, <3>9, <3>10, <3>11, <3>12 DEF Start
  <2>4. ASSUME /\ \A q \in Daemons : locked'[q] => locked[q] /\ file'[q] = file[q]
               /\ UNCHANGED <<path, sock>>
               /\ pc'[r] = pc[r] /\ file'[r] = file[r] /\ locked'[r] = locked[r]
        PROVE  GetsAll(r)'
    <3>1. Unheld => Unheld'  BY <2>4 DEF Unheld
    <3> QED BY <2>2, <2>4, <3>1 DEF GetsAll
  <2>5. ASSUME NEW p \in Daemons, End(p) PROVE GetsAll(r)'
    <3>1. p # r  BY <1>1, <1>2, <2>5 DEF End, StartingAt
    <3> QED BY <1>2, <2>4, <2>5, <3>1 DEF End
  <2>6. ASSUME NEW p \in Daemons, KidEnd(p) PROVE GetsAll(r)'
    <3>1. p # r  BY <2>1, <2>6 DEF KidEnd, IInv, Typed, Places, Starting, StartingAt
    <3> QED BY <1>2, <2>4, <2>6, <3>1 DEF KidEnd
  <2>7. ASSUME NEW p \in Daemons, KidStart(p) PROVE GetsAll(r)'
    BY <2>4, <2>7 DEF KidStart
  <2>8. CASE UNCHANGED vars \/ \E w \in Watchers : WatcherCheck(w)
    BY <2>4, <2>8 DEF vars, WatcherCheck
  <2> QED BY <1>4, <2>3, <2>5, <2>6, <2>7, <2>8 DEF Next
<1> QED BY <1>3, <1>4

-----------------------------------------------------------------------------
\* The invariant holds at the beginning.
LEMMA DaemonInit == Init => IInv
<1> SUFFICES ASSUME Init PROVE IInv  OBVIOUS
<1>1. TypeOK
  BY StartConstants DEF Init, TypeOK, StartingAt
<1>2. \A p \in Daemons : p > 0 /\ p # 0  BY DEF Daemons
<1>3. OpenTypes /\ Places  BY <1>2 DEF Init, OpenTypes, Places
<1>4. Made  BY <1>2 DEF Init, Made
<1>5. Mutual /\ Held /\ Coming
  BY DEF Init, Mutual, Held, Coming, Starting, StartingAt, Running
<1> QED BY <1>1, <1>3, <1>4, <1>5 DEF IInv, Typed

\* Every behaviour of the instances keeps the inductive invariant.
THEOREM DaemonInvariance == Spec => []IInv
<1>1. ASSUME IInv, [Next]_vars PROVE IInv'
  BY <1>1, TypeNext, MadeNext, MutualNext, HeldNext, ComingNext DEF IInv
<1> QED BY <1>1, DaemonInit, PTL DEF Spec

\* Every variable keeps its type, and a lock file is locked by one instance.
THEOREM DaemonTypeCorrect == Spec => []TypeOK
<1>1. IInv => TypeOK  BY DEF IInv, Typed
<1> QED BY <1>1, DaemonInvariance, PTL

\* A daemon that started while no other was starting, and whose lock was not
\* taken for its kid's, has the lock of the file under the path, and the socket.
THEOREM OneAloneKeepsAll == Spec => []AloneKeepsAll
<1>1. IInv => AloneKeepsAll  BY DEF IInv, Held, Sole, KeepsAll, AloneKeepsAll
<1> QED BY <1>1, DaemonInvariance, PTL
=============================================================================
