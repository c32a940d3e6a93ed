------------------------------ MODULE Quarantine ------------------------------
(***************************************************************************)
(* The quarantine of the scanning daemon: RavDaemon/GJCZ/controller.cpp,   *)
(* mainengine.cpp and ScanEngine/ravquafile.cpp.                           *)
(*                                                                         *)
(* A virus that is found is copied into the quarantine folder under the    *)
(* next number, the index file is written anew, a row of the data base     *)
(* notes where the copy is, and the original is removed.  A user restores  *)
(* or deletes what a row names.                                            *)
(*                                                                         *)
(* The index lives in three places: on indexFile, in m_pstIndexData while it is *)
(* not NULL, and in a temporary file while it is written.  All threads of  *)
(* the daemon share one RavQuaFile: a scan worker (the engine's            *)
(* mReportMutex lets one in at a time), the handler thread that treats     *)
(* what the file monitor found, and the listener's thread.  The lock of    *)
(* ravlockfile.cpp is an fcntl lock: it keeps other processes out, not     *)
(* other threads, and so has no place here.                                *)
(*                                                                         *)
(* Every copy, index file and table row is one step; a part of the index   *)
(* code without file I/O is not split.  Files have one size.  Not          *)
(* modelled: the white lists, the import of an old quarantine at the first *)
(* start, the tool that empties the quarantine without the daemon, and a   *)
(* data base that fails.                                                   *)
(***************************************************************************)
EXTENDS Integers, SequencesExt, FiniteSets, Selection

CONSTANTS
  Paths,        \* paths of files
  Finders,      \* threads that find viruses
  Capacity,     \* files the quarantine holds, 500 MB in the code
  CopyFails,    \* copies, index files and changes of ownership may fail
  MaxFound, MaxCommands, MaxCrashes,   \* bounds of the model
  Null

ASSUME QuarantineConstants ==
  /\ IsFiniteSet(Finders)
  /\ Capacity \in Nat \ {0} /\ CopyFails \in BOOLEAN
  /\ MaxFound \in Nat /\ MaxCommands \in Nat /\ MaxCrashes \in Nat
  /\ Null \notin Paths \cup Nat \cup Finders
  /\ Null \notin Seq([name : Nat, valid : BOOLEAN]) /\ Null \notin [next : Nat, names : Seq(Nat)]

Names == 0 .. MaxFound

VARIABLES
  viruses,    \* files with a virus, at their paths
  store,      \* [Names -> Paths or Null]: the copies in the folder
  indexFile,  \* [next, names], or Null
  tmp,        \* the index file being written
  mem,        \* m_pstIndexData: sequence of [name, valid], or Null
  next,       \* m_stIndexHead.m_nNextIndex
  rows, lastId,   \* QuarantineTable: [id, file, name, repair]
  foreign,    \* restored files that do not belong to their owner
  fpc, ffile, fname,   \* the finders
  upc, urow,           \* the listener's thread
  found, commands, crashes,   \* spent so far
  harm        \* history: what has happened that is known to do harm

index == <<indexFile, tmp, mem, next>>
finder == <<fpc, ffile, fname>>
user == <<upc, urow>>
counts == <<found, commands, crashes>>
table == <<rows, lastId>>
quaVars == <<viruses, store, index, table, foreign, finder, user, counts, harm>>

Harms == {"overlap", "early", "full", "copy", "index", "crash", "vanished", "restart"}

QuaInit ==
  /\ viruses = Paths
  /\ store = [n \in Names |-> Null]
  /\ indexFile = Null /\ tmp = Null /\ mem = Null /\ next = 0
  /\ rows = {} /\ lastId = 0 /\ foreign = {}
  /\ fpc = [p \in Finders |-> "idle"]
  /\ ffile = [p \in Finders |-> Null]
  /\ fname = [p \in Finders |-> Null]
  /\ upc = "idle" /\ urow = Null
  /\ found = 0 /\ commands = 0 /\ crashes = 0
  /\ harm = {}

AtRest == upc = "idle" /\ \A p \in Finders : fpc[p] = "idle"

\* Threads between their first look at the index and its new version: the lock
\* file would keep them apart if they were processes.
InIndex ==
  {p \in Finders : fpc[p] \in {"copy", "index", "rename"}} \cup
  {u \in {"user"} : upc \in {"copy", "index", "rename", "unlink"}}
Overlap == {h \in {"overlap"} : InIndex # {}}

(***************************************************************************)
(* The index.                                                              *)
(***************************************************************************)
Valid(m) ==
  IF m = Null THEN <<>>
  ELSE LET v == Kept(m, {e \in ToSet(m) : e.valid}) IN [i \in 1 .. Len(v) |-> v[i].name]

\* ReadRavQuaIndex, called if m_pstIndexData is NULL.
ReadMem ==
  IF mem # Null THEN mem
  ELSE IF indexFile = Null THEN Null
  ELSE [i \in 1 .. Len(indexFile.names) |-> [name |-> indexFile.names[i], valid |-> TRUE]]
ReadNext ==
  IF mem # Null THEN next ELSE IF indexFile = Null THEN 0 ELSE indexFile.next

\* cleanspace: the first so many entries make room for one more.
Evicted(m) == IF m = Null THEN 0 ELSE IF Len(m) >= Capacity THEN Len(m) + 1 - Capacity ELSE 0

Written(n, names) == [next |-> n, names |-> names]

\* WriteRavQuaIndex: the new index is in the temporary file, the old one gone...
WriteIndex(n, names) ==
  /\ tmp' = Written(n, names) /\ indexFile' = Null /\ next' = n
  /\ mem' = IF Valid(mem) = <<>> THEN Null ELSE mem

\* It cannot be opened, or not be written to its end: nobody asks.  The old one
\* stays, and after a failed write nothing of the new one but its number, which the
\* next reading of the old one takes back.
WriteIndexFails(n) ==
  /\ CopyFails /\ UNCHANGED indexFile /\ next' = n
  /\ \/ UNCHANGED tmp /\ mem' = IF Valid(mem) = <<>> THEN Null ELSE mem
     \/ tmp' = Null /\ mem' = Null

\* ... and it takes its place, if no one else has moved it.
RenameIndex ==
  /\ indexFile' = IF tmp # Null THEN tmp ELSE indexFile
  /\ tmp' = Null /\ mem' = Null
  /\ UNCHANGED next

(***************************************************************************)
(* A virus is found: ProcessVirus, DealVirusWithConfig, QuarantineVirus,   *)
(* BackUpFile.                                                             *)
(***************************************************************************)
FinderSame == UNCHANGED <<foreign, user, commands, crashes>>

Goto(p, l) == fpc' = [fpc EXCEPT ![p] = l]

\* There is no backup if the settings want none, or the virus is to be ignored or
\* the user has not confirmed that it is to be treated.
Find(p, f) ==
  /\ fpc[p] = "idle" /\ f \in viruses /\ found < MaxFound
  /\ found' = found + 1
  /\ \E l \in {"found", "nocopy"} : Goto(p, l)
  /\ ffile' = [ffile EXCEPT ![p] = f]
  /\ UNCHANGED <<viruses, store, index, table, fname, harm>> /\ FinderSame

\* The file is gone: BackUpFile succeeds without a copy.
BackUpMissing(p) ==
  /\ fpc[p] = "found" /\ ffile[p] \notin viruses
  /\ fname' = [fname EXCEPT ![p] = Null] /\ Goto(p, "log")
  /\ harm' = harm \cup {"vanished"}
  /\ UNCHANGED <<viruses, store, index, table, ffile, found>> /\ FinderSame

\* Too large or the like.
BackUpRefused(p) ==
  /\ fpc[p] = "found" /\ ffile[p] \in viruses /\ CopyFails
  /\ Goto(p, "nocopy")
  /\ UNCHANGED <<viruses, store, index, table, ffile, fname, found, harm>> /\ FinderSame

BackUpBegin(p) ==
  /\ fpc[p] = "found" /\ ffile[p] \in viruses
  /\ LET m == ReadMem
         k == Evicted(m) IN
       /\ mem' = IF m = Null THEN Null
                 ELSE [i \in 1 .. Len(m) |-> [m[i] EXCEPT !.valid = @ /\ i > k]]
       /\ store' = [n \in Names |->
                      IF \E i \in 1 .. k : m[i].name = n THEN Null ELSE store[n]]
       /\ harm' = harm \cup Overlap \cup {h \in {"full"} : k > 0}
  /\ next' = ReadNext
  /\ fname' = [fname EXCEPT ![p] = ReadNext]
  /\ Goto(p, "copy")
  /\ UNCHANGED <<viruses, indexFile, tmp, table, ffile, found>> /\ FinderSame

BackUpCopy(p) ==
  /\ fpc[p] = "copy" /\ ffile[p] \in viruses
  /\ store' = [store EXCEPT ![fname[p]] = ffile[p]]
  /\ Goto(p, "index")
  /\ UNCHANGED <<viruses, index, table, ffile, fname, found, harm>> /\ FinderSame

\* Mutant: BackUpFile returns 0.
BackUpCopyFailsSilently(p) ==
  /\ fpc[p] = "copy" /\ (CopyFails \/ ffile[p] \notin viruses)
  /\ store' = [store EXCEPT ![fname[p]] = Null]
  /\ Goto(p, "log") /\ harm' = harm \cup {"copy"}
  /\ UNCHANGED <<viruses, index, table, ffile, fname, found>> /\ FinderSame

\* If the copy has been opened, it is removed.
BackUpCopyFails(p) ==
  /\ fpc[p] = "copy" /\ (CopyFails \/ ffile[p] \notin viruses)
  /\ store' \in {store, [store EXCEPT ![fname[p]] = Null]}
  /\ Goto(p, "nocopy") /\ harm' = harm \cup {"copy"}
  /\ UNCHANGED <<viruses, index, table, ffile, fname, found>> /\ FinderSame

\* Mutant: the number is not counted up.
BackUpIndexSame(p) ==
  /\ fpc[p] = "index"
  /\ WriteIndex(next, Append(Valid(mem), fname[p]))
  /\ Goto(p, "rename")
  /\ UNCHANGED <<viruses, store, table, ffile, fname, found, harm>> /\ FinderSame

BackUpIndex(p) ==
  /\ fpc[p] = "index"
  /\ WriteIndex(next + 1, Append(Valid(mem), fname[p]))
  /\ Goto(p, "rename")
  /\ UNCHANGED <<viruses, store, table, ffile, fname, found, harm>> /\ FinderSame

BackUpIndexFails(p) ==
  /\ fpc[p] = "index"
  /\ WriteIndexFails(next + 1) /\ harm' = harm \cup {"index"}
  /\ Goto(p, "log")
  /\ UNCHANGED <<viruses, store, table, ffile, fname, found>> /\ FinderSame

BackUpRename(p) ==
  /\ fpc[p] = "rename" /\ RenameIndex /\ Goto(p, "log")
  /\ UNCHANGED <<viruses, store, table, ffile, fname, found, harm>> /\ FinderSame

\* AppendQuaLog.
BackUpLog(p) ==
  /\ fpc[p] = "log"
  /\ lastId' = lastId + 1
  /\ rows' = rows \cup
       {[id |-> lastId + 1, file |-> ffile[p], name |-> fname[p], repair |-> FALSE]}
  /\ Goto(p, "remove")
  /\ UNCHANGED <<viruses, store, index, ffile, fname, found, harm>> /\ FinderSame

Done(p) ==
  /\ Goto(p, "idle")
  /\ ffile' = [ffile EXCEPT ![p] = Null] /\ fname' = [fname EXCEPT ![p] = Null]

\* The scan engine cleans the file, the monitor's thread unlinks it.
RemoveOriginal(p) ==
  /\ fpc[p] = "remove" /\ viruses' = viruses \ {ffile[p]} /\ Done(p)
  /\ UNCHANGED <<store, index, table, found, harm>> /\ FinderSame

\* Without a backup: kept or removed by the scan engine, as mBackupFailedAction, the
\* settings and the user say; the monitor's thread does not ask why there is none
\* and unlinks it.
GiveUp(p) ==
  /\ fpc[p] = "nocopy" /\ viruses' \in {viruses, viruses \ {ffile[p]}} /\ Done(p)
  /\ UNCHANGED <<store, index, table, found, harm>> /\ FinderSame

(***************************************************************************)
(* A user's command on a row: RespondQuarantineCommand, RestoreQuarantine, *)
(* DeleteQuarantine, RestoreFile.                                          *)
(***************************************************************************)
UserSame == UNCHANGED <<finder, found, crashes>>

Command(r) ==
  /\ upc = "idle" /\ commands < MaxCommands /\ commands' = commands + 1
  /\ urow' = r

Position(m, n) == IF m = Null THEN 0 ELSE SelectInSeq(m, LAMBDA e : e.name = n)

\* No copy, or none in the index.  RESTORE falls through into DELETE.
RestoreRefused(r) ==
  /\ Command(r)
  /\ LET there == r.name # Null /\ store[r.name] # Null IN
       \/ ~there /\ UNCHANGED index
       \/ /\ there /\ Position(ReadMem, r.name) = 0
          /\ mem' = ReadMem /\ next' = ReadNext /\ UNCHANGED <<indexFile, tmp>>
  /\ upc' = "delete"
  /\ UNCHANGED <<viruses, store, table, foreign, harm>> /\ UserSame

\* Restored before the original is removed.
Early(r) == {h \in {"early"} :
  \E p \in Finders : fpc[p] \in {"log", "remove"} /\ ffile[p] = store[r.name]}

RestoreBegin(r) ==
  /\ Command(r)
  /\ r.name # Null /\ store[r.name] # Null /\ Position(ReadMem, r.name) # 0
  /\ mem' = [ReadMem EXCEPT ![Position(ReadMem, r.name)].valid = FALSE]
  /\ next' = ReadNext
  /\ upc' = "copy" /\ harm' = harm \cup Overlap \cup Early(r)
  /\ UNCHANGED <<viruses, store, indexFile, tmp, table, foreign>> /\ UserSame

RestoreCopy ==
  /\ upc = "copy" /\ store[urow.name] # Null
  /\ viruses' = viruses \cup {store[urow.name]}
  /\ upc' = "index"
  /\ UNCHANGED <<store, index, table, foreign, urow, commands, harm>> /\ UserSame

\* If the target has been opened, it is removed.  The mark in m_pstIndexData stays.
RestoreCopyFails ==
  /\ upc = "copy" /\ (CopyFails \/ store[urow.name] = Null)
  /\ viruses' \in {viruses, viruses \ {store[urow.name]}}
  /\ upc' = "delete" /\ harm' = harm \cup {"copy"}
  /\ UNCHANGED <<store, index, table, foreign, urow, commands>> /\ UserSame

\* An index without entries is unlinked: the numbers start again, although rows
\* may be left whose copies a full folder has evicted.
RestoreIndex ==
  /\ upc = "index"
  /\ \/ /\ Valid(mem) = <<>> /\ indexFile' = Null /\ mem' = Null /\ upc' = "unlink"
        /\ harm' = harm \cup {h \in {"restart"} : "full" \in harm}
        /\ UNCHANGED <<tmp, next>>
     \/ /\ Valid(mem) # <<>> /\ WriteIndex(next, Valid(mem)) /\ upc' = "rename"
        /\ UNCHANGED harm
     \/ /\ Valid(mem) # <<>> /\ WriteIndexFails(next) /\ upc' = "unlink"
        /\ harm' = harm \cup {"index"}
  /\ UNCHANGED <<viruses, store, table, foreign, urow, commands>> /\ UserSame

RestoreRename ==
  /\ upc = "rename" /\ RenameIndex /\ upc' = "unlink"
  /\ UNCHANGED <<viruses, store, table, foreign, urow, commands, harm>> /\ UserSame

RestoreUnlink ==
  /\ upc = "unlink"
  /\ store' = [store EXCEPT ![urow.name] = Null]
  /\ upc' = "check"
  /\ UNCHANGED <<viruses, index, table, foreign, urow, commands, harm>> /\ UserSame

NoRow == {r \in rows : r.id # urow.id}

\* Owner and mode are right: DeleteQuarantine, and again in DELETE.
CheckRight ==
  /\ upc = "check" /\ upc' = "delete"
  /\ rows' = NoRow
  /\ UNCHANGED <<viruses, store, index, lastId, foreign, urow, commands, harm>> /\ UserSame

\* They could not be set: UpdateQuaLog with the owner's name.
CheckWrong ==
  /\ upc = "check" /\ CopyFails /\ upc' = "delete"
  /\ foreign' = foreign \cup {urow.file}
  /\ rows' = {[r EXCEPT !.repair = @ \/ r.id = urow.id] : r \in rows}
  /\ UNCHANGED <<viruses, store, index, lastId, urow, commands, harm>> /\ UserSame

Delete(r) ==
  /\ Command(r) /\ upc' = "delete"
  /\ UNCHANGED <<viruses, store, index, table, foreign, harm>> /\ UserSame

\* The row goes.  unlink gets the bare number of the copy and finds no such
\* file in the daemon's directory.
DeleteRow ==
  /\ upc = "delete" /\ upc' = "idle" /\ urow' = Null
  /\ rows' = NoRow
  /\ UNCHANGED <<viruses, store, index, lastId, foreign, commands, harm>> /\ UserSame

(***************************************************************************)
(* The rest.                                                               *)
(***************************************************************************)
\* RechownQuarantine, when the owner logs in.
Rechown(r) ==
  /\ r.repair /\ foreign' = foreign \ {r.file} /\ rows' = rows \ {r}
  /\ UNCHANGED <<viruses, store, index, lastId, finder, user, counts, harm>>

\* The daemon dies and is started again.
DaemonDies ==
  /\ crashes < MaxCrashes /\ crashes' = crashes + 1
  /\ mem' = Null /\ next' = 0
  /\ fpc' = [p \in Finders |-> "idle"]
  /\ ffile' = [p \in Finders |-> Null] /\ fname' = [p \in Finders |-> Null]
  /\ upc' = "idle" /\ urow' = Null
  /\ harm' = harm \cup {h \in {"crash"} : ~AtRest}
  /\ UNCHANGED <<viruses, store, indexFile, tmp, table, foreign, found, commands>>

FinderStep(p) ==
  \/ \E f \in Paths : Find(p, f)
  \/ BackUpMissing(p) \/ BackUpRefused(p) \/ BackUpBegin(p)
  \/ BackUpCopy(p) \/ BackUpCopyFails(p) \/ BackUpIndex(p) \/ BackUpIndexFails(p) \/ BackUpRename(p)
  \/ BackUpLog(p) \/ RemoveOriginal(p) \/ GiveUp(p)

UserStep ==
  \/ \E r \in rows : RestoreRefused(r) \/ RestoreBegin(r) \/ Delete(r)
  \/ RestoreCopy \/ RestoreCopyFails \/ RestoreIndex \/ RestoreRename \/ RestoreUnlink
  \/ CheckRight \/ CheckWrong \/ DeleteRow

QuaNext ==
  \/ \E p \in Finders : FinderStep(p)
  \/ UserStep
  \/ \E r \in rows : Rechown(r)
  \/ DaemonDies

QuaSpec == QuaInit /\ [][QuaNext]_quaVars

-----------------------------------------------------------------------------
\* Types, and where a temporary index may be: as long as nothing has gone wrong,
\* only between the two steps that write an index.
QuaTypeOK ==
  /\ viruses \subseteq Paths /\ store \in [Names -> Paths \cup {Null}]
  /\ indexFile # Null => indexFile.next \in Nat /\ ToSet(indexFile.names) \subseteq Names
  /\ mem # Null => \A i \in 1 .. Len(mem) : mem[i].name \in Names /\ mem[i].valid \in BOOLEAN
  /\ \A r \in rows : r.id \in 1 .. lastId /\ r.file \in Paths /\ r.name \in Names \cup {Null}
  /\ tmp # Null =>
       harm # {} \/ upc = "rename" \/ \E p \in Finders : fpc[p] = "rename"
  /\ foreign \subseteq Paths /\ harm \subseteq Harms

Indexed == IF indexFile = Null THEN {} ELSE ToSet(indexFile.names)
CanRestore(r) == r.name \in Indexed /\ store[r.name] = r.file

\* "The quarantine keeps backups of the files deleted by the virus removal; you
\* can restore them" (RavQt/LogViewer/isolationgroup.cpp:42): what a row names
\* is in the folder, with the right content, and in the index.
Restorable == AtRest => \A r \in rows : CanRestore(r)

\* Whatever has been done one after the other, without a crash, a failing copy or
\* index file or a full folder, every row can be restored.
RestorableInOrder == harm = {} => Restorable

\* A full folder and failing copies do not make a row name another file's copy,
\* unless the numbers start again or an index file could not be written, and no two
\* entries of the index share a copy, whenever the daemon dies (m_nNextIndex).
CopyIsOwn ==
  /\ harm \cap {"overlap", "crash", "restart", "index"} = {} => \A r \in rows :
        r.name = Null \/ (upc # "idle" /\ r.id = urow.id) \/ store[r.name] \in {Null, r.file}
  /\ "overlap" \notin harm /\ indexFile # Null => IsInjective(indexFile.names)

\* Rows, copies and index agree: each row has a copy of its own.
RowSafety == QuaTypeOK /\ RestorableInOrder /\ CopyIsOwn

\* The original is removed only when its copy is complete and still there, whenever
\* the daemon dies and whatever else is found or restored: BackUpFile comes first.
\* It is removed without one by a finder that made none (by the settings or the
\* user's choice, or because the copy failed), and perhaps if the file was gone
\* for a while, the folder full, an index file not written, two threads in the
\* index at a time, or the copy restored before the original was removed.
RemovedHasCopy ==
  [][\A f \in viruses \ viruses' :
        \/ harm \cap {"overlap", "early", "vanished", "full", "index"} # {}
        \/ \E n \in Names : store[n] = f
        \/ \E p \in Finders : fpc[p] = "nocopy" /\ ffile[p] = f]_quaVars
=============================================================================
