------------------------------- MODULE ObjTable -------------------------------
(***************************************************************************)
(* The table of written files of the kernel module ravdefen                *)
(* (Kernel/ravdefen/obj_tbl.c, kobj.h) and the two hooked system calls     *)
(* that use it (fake_write and fake_close in kmod.c).                      *)
(*                                                                         *)
(* A write notes the file's inode in the table and then writes; a close    *)
(* takes the inode out of the table, and if it was there the file is       *)
(* reported to the daemon before the real close.  Entries are allocated    *)
(* blocks with a reference count: one reference for the table and one for  *)
(* each call that works with the entry.  The table holds at most max_cnt   *)
(* entries; one more, and it drops all it has.                             *)
(*                                                                         *)
(* A call is a thread inside fake_write or fake_close.  Each region under  *)
(* the table's lock is a step, and so is each decrement outside of it, the *)
(* look at the descriptor table, the report and the real system call.  A   *)
(* freed block may be allocated again.  The inode of a closed descriptor   *)
(* is not followed further than the table does: by its number alone.       *)
(***************************************************************************)
EXTENDS Integers, FiniteSets

CONSTANTS
  Calls,     \* threads that may be inside a hooked system call
  Fds,       \* file descriptors
  Inodes,
  Entries,   \* the blocks kmalloc can give; a call finds no memory without one
  MaxCnt,    \* ot_header.max_cnt
  None       \* no entry, no inode, no descriptor

ASSUME ObjTableConstants ==
  /\ IsFiniteSet(Calls) /\ IsFiniteSet(Inodes)
  /\ MaxCnt \in Nat \ {0}
  /\ None \notin Entries \cup Inodes \cup Fds

VARIABLES
  tree,     \* [Inodes -> Entries \cup {None}]: the entries linked in the tree
  cnt,      \* ot_header.cnt
  ref,      \* [Entries -> Int]: kobj.refcount
  alloc,    \* the blocks allocated
  opened,   \* [Fds -> Inodes \cup {None}]
  tpc,       \* where the call is
  fd,       \* its descriptor
  inode,    \* what get_inode gave it
  path,     \* the file whose path get_fullpath gave it
  ote,      \* the entry it works with
  phase,    \* of the module: in, unhooked, putting, gone, oops
  lst,      \* ot_clear's ote_lst: entries still to be put
  leaked,   \* history: entries ot_del_obj returned to fake_close
  dirty,    \* history: inodes written since their last report
  missed,   \* history: inodes whose entry went without a report, or may have
  late      \* history: a call was inside when ot_clear took the tree

call == <<tpc, fd, inode, path, ote>>
tableVars == <<tree, cnt, ref, alloc, opened, call, phase, lst, leaked, dirty, missed, late>>

Linked == {i \in Inodes : tree[i] # None}
InTree == {tree[i] : i \in Linked}

TableInit ==
  /\ tree = [i \in Inodes |-> None]
  /\ cnt = 0
  /\ ref = [e \in Entries |-> 0]
  /\ alloc = {}
  /\ opened = [f \in Fds |-> None]
  /\ tpc = [c \in Calls |-> "out"]
  /\ fd = [c \in Calls |-> None]
  /\ inode = [c \in Calls |-> None]
  /\ path = [c \in Calls |-> None]
  /\ ote = [c \in Calls |-> None]
  /\ phase = "in"
  /\ lst = {}
  /\ leaked = {}
  /\ dirty = {}
  /\ missed = {}
  /\ late = FALSE

CallGoto(c, at) == tpc' = [tpc EXCEPT ![c] = at]
Running(c, at) == tpc[c] = at /\ phase \notin {"gone", "oops"}
TableSame == UNCHANGED <<tree, cnt>>
HistorySame == UNCHANGED <<leaked, dirty, missed>>
ModuleSame == UNCHANGED <<phase, lst, late>>

(***************************************************************************)
(* The kernel's side: files are opened, and a process that ends closes its *)
(* descriptors without the system call close.                              *)
(***************************************************************************)
Open(f, i) ==
  /\ opened[f] = None
  /\ opened' = [opened EXCEPT ![f] = i]
  /\ UNCHANGED <<tree, cnt, ref, alloc, call>> /\ ModuleSame /\ HistorySame

ProcessEnds(f) ==
  /\ opened[f] # None
  /\ \A c \in Calls : fd[c] # f
  /\ opened' = [opened EXCEPT ![f] = None]
  /\ UNCHANGED <<tree, cnt, ref, alloc, call>> /\ ModuleSame /\ HistorySame

(***************************************************************************)
(* fake_write: get_inode, ot_add_obj, ot_release_obj, real_write.          *)
(***************************************************************************)
WriteCall(c, f) ==
  /\ phase = "in" /\ tpc[c] = "out" /\ opened[f] # None
  /\ CallGoto(c, "find")
  /\ fd' = [fd EXCEPT ![c] = f]
  /\ inode' = [inode EXCEPT ![c] = opened[f]]
  /\ UNCHANGED <<tree, cnt, ref, alloc, opened, path, ote>> /\ ModuleSame /\ HistorySame

\* ot_add_obj, under the read lock.
FindGet(c) ==
  /\ Running(c, "find") /\ tree[inode[c]] # None
  /\ ote' = [ote EXCEPT ![c] = tree[inode[c]]]
  /\ ref' = [ref EXCEPT ![tree[inode[c]]] = @ + 1]
  /\ CallGoto(c, "put")
  /\ UNCHANGED <<alloc, opened, fd, inode, path>> /\ TableSame /\ ModuleSame /\ HistorySame

FindNone(c) ==
  /\ Running(c, "find") /\ tree[inode[c]] = None
  /\ CallGoto(c, "alloc")
  /\ UNCHANGED <<ref, alloc, opened, fd, inode, path, ote>>
  /\ TableSame /\ ModuleSame /\ HistorySame

Allocate(c) ==
  /\ Running(c, "alloc")
  /\ \E e \in Entries \ alloc :
        /\ alloc' = alloc \cup {e}
        /\ ref' = [ref EXCEPT ![e] = 1]
        /\ ote' = [ote EXCEPT ![c] = e]
  /\ CallGoto(c, "link")
  /\ UNCHANGED <<opened, fd, inode, path>> /\ TableSame /\ ModuleSame /\ HistorySame

AllocateNone(c) ==
  /\ Running(c, "alloc") /\ alloc = Entries
  /\ CallGoto(c, "write")
  /\ missed' = missed \cup {inode[c]}
  /\ UNCHANGED <<ref, alloc, opened, fd, inode, path, ote, leaked, dirty>>
  /\ TableSame /\ ModuleSame

Full == cnt >= MaxCnt

\* What __ot_clear leaves of the reference counts and frees.
Dropped == {e \in InTree : ref[e] = 1}

\* The write lock: room, so the entry is linked, with a second reference.
Link(c) ==
  /\ Running(c, "link") /\ ~Full /\ tree[inode[c]] = None
  /\ tree' = [tree EXCEPT ![inode[c]] = ote[c]]
  /\ cnt' = cnt + 1
  /\ ref' = [ref EXCEPT ![ote[c]] = @ + 1]
  /\ CallGoto(c, "put")
  /\ UNCHANGED <<alloc, opened, fd, inode, path, ote>> /\ ModuleSame /\ HistorySame

\* Mutant: __ot_clear leaves the counter.
LinkFullKeepsCnt(c) ==
  /\ Running(c, "link") /\ Full
  /\ tree' = [i \in Inodes |-> IF i = inode[c] THEN ote[c] ELSE None]
  /\ cnt' = cnt + 1
  /\ ref' = [e \in Entries |-> IF e = ote[c] THEN ref[e] + 1
                               ELSE IF e \in InTree THEN ref[e] - 1 ELSE ref[e]]
  /\ alloc' = alloc \ Dropped
  /\ missed' = missed \cup (Linked \ {inode[c]})
  /\ CallGoto(c, "put")
  /\ UNCHANGED <<opened, fd, inode, path, ote, leaked, dirty>> /\ ModuleSame

\* The table is full: __ot_clear, then the link, which now succeeds.
LinkFull(c) ==
  /\ Running(c, "link") /\ Full
  /\ tree' = [i \in Inodes |-> IF i = inode[c] THEN ote[c] ELSE None]
  /\ cnt' = cnt - Cardinality(Linked) + 1
  /\ ref' = [e \in Entries |-> IF e = ote[c] THEN ref[e] + 1
                               ELSE IF e \in InTree THEN ref[e] - 1 ELSE ref[e]]
  /\ alloc' = alloc \ Dropped
  /\ missed' = missed \cup (Linked \ {inode[c]})
  /\ CallGoto(c, "put")
  /\ UNCHANGED <<opened, fd, inode, path, ote, leaked, dirty>> /\ ModuleSame

\* Another call linked the inode meanwhile: the new block is freed.
LinkTwice(c) ==
  /\ Running(c, "link") /\ ~Full /\ tree[inode[c]] # None
  /\ alloc' = alloc \ {ote[c]}
  /\ ref' = [ref EXCEPT ![ote[c]] = 0]
  /\ ote' = [ote EXCEPT ![c] = None]
  /\ CallGoto(c, "write")
  /\ UNCHANGED <<opened, fd, inode, path>> /\ TableSame /\ ModuleSame /\ HistorySame

\* kobj_put: the last reference frees the block.
Put(e) ==
  /\ ref' = [ref EXCEPT ![e] = @ - 1]
  /\ alloc' = IF ref[e] = 1 THEN alloc \ {e} ELSE alloc

Release(c) ==
  /\ Running(c, "put")
  /\ Put(ote[c])
  /\ ote' = [ote EXCEPT ![c] = None]
  /\ CallGoto(c, "write")
  /\ UNCHANGED <<opened, fd, inode, path>> /\ TableSame /\ ModuleSame /\ HistorySame

\* The descriptor may be closed by now, or be another file's.
RealWrite(c) ==
  /\ Running(c, "write")
  /\ dirty' = dirty \cup ({opened[fd[c]]} \ {None})
  /\ missed' = missed \cup ({opened[fd[c]]} \ {None, inode[c]})
  /\ CallGoto(c, "out")
  /\ fd' = [fd EXCEPT ![c] = None]
  /\ inode' = [inode EXCEPT ![c] = None]
  /\ UNCHANGED <<ref, alloc, opened, path, ote, leaked>> /\ TableSame /\ ModuleSame

(***************************************************************************)
(* fake_close: get_fullpath, get_inode, ot_del_obj, the report, real_close *)
(***************************************************************************)
CloseCall(c, f) ==
  /\ phase = "in" /\ tpc[c] = "out" /\ opened[f] # None
  /\ CallGoto(c, "inode")
  /\ fd' = [fd EXCEPT ![c] = f]
  /\ path' = [path EXCEPT ![c] = opened[f]]
  /\ UNCHANGED <<tree, cnt, ref, alloc, opened, inode, ote>> /\ ModuleSame /\ HistorySame

\* get_fullpath finds no memory: no report.
CloseNoPath(c, f) ==
  /\ phase = "in" /\ tpc[c] = "out" /\ opened[f] # None
  /\ CallGoto(c, "close")
  /\ fd' = [fd EXCEPT ![c] = f]
  /\ UNCHANGED <<tree, cnt, ref, alloc, opened, inode, path, ote>> /\ ModuleSame /\ HistorySame

GetInode(c) ==
  /\ Running(c, "inode")
  /\ inode' = [inode EXCEPT ![c] = opened[fd[c]]]
  /\ CallGoto(c, IF opened[fd[c]] = None THEN "close" ELSE "del")
  /\ UNCHANGED <<ref, alloc, opened, fd, path, ote>> /\ TableSame /\ ModuleSame /\ HistorySame

\* A write of the inode is on its way that has noted it already.
WriteAhead(i) == \E c \in Calls : tpc[c] \in {"put", "write"} /\ inode[c] = i

\* Mutant: the entry is taken out and the file not reported.
DelNoReport(c) ==
  /\ Running(c, "del") /\ tree[inode[c]] # None
  /\ tree' = [tree EXCEPT ![inode[c]] = None]
  /\ cnt' = cnt - 1
  /\ leaked' = leaked \cup {tree[inode[c]]}
  /\ missed' = IF WriteAhead(inode[c]) \/ path[c] # inode[c]
               THEN missed \cup {inode[c]} ELSE missed \ {inode[c]}
  /\ CallGoto(c, "close")
  /\ UNCHANGED <<ref, alloc, opened, fd, inode, path, ote, dirty>> /\ ModuleSame

\* ot_del_obj: out of the tree; the table's reference is nobody's now.
DelObj(c) ==
  /\ Running(c, "del") /\ tree[inode[c]] # None
  /\ tree' = [tree EXCEPT ![inode[c]] = None]
  /\ cnt' = cnt - 1
  /\ leaked' = leaked \cup {tree[inode[c]]}
  /\ missed' = IF WriteAhead(inode[c]) \/ path[c] # inode[c]
               THEN missed \cup {inode[c]} ELSE missed \ {inode[c]}
  /\ CallGoto(c, "report")
  /\ UNCHANGED <<ref, alloc, opened, fd, inode, path, ote, dirty>> /\ ModuleSame

DelNone(c) ==
  /\ Running(c, "del") /\ tree[inode[c]] = None
  /\ CallGoto(c, "close")
  /\ UNCHANGED <<ref, alloc, opened, fd, inode, path, ote>>
  /\ TableSame /\ ModuleSame /\ HistorySame

\* get_verdict(ACTION_written, path): the daemon looks at the file.
Report(c) ==
  /\ Running(c, "report")
  /\ dirty' = dirty \ {path[c]}
  /\ CallGoto(c, "close")
  /\ UNCHANGED <<ref, alloc, opened, fd, inode, path, ote, leaked, missed>>
  /\ TableSame /\ ModuleSame

RealClose(c) ==
  /\ Running(c, "close")
  /\ opened' = [opened EXCEPT ![fd[c]] = None]
  /\ CallGoto(c, "out")
  /\ fd' = [fd EXCEPT ![c] = None]
  /\ inode' = [inode EXCEPT ![c] = None]
  /\ path' = [path EXCEPT ![c] = None]
  /\ UNCHANGED <<ref, alloc, ote>> /\ TableSame /\ ModuleSame /\ HistorySame

(***************************************************************************)
(* exit_panzer_module: the hooks are removed, and ot_free clears the table *)
(* without waiting for the calls that are inside.                          *)
(***************************************************************************)
Unhook ==
  /\ phase = "in" /\ phase' = "unhooked"
  /\ UNCHANGED <<tree, cnt, ref, alloc, opened, call, lst, late>> /\ HistorySame

\* Mutant: the list stays empty.
CollectNothing ==
  /\ phase = "unhooked" /\ phase' = "putting"
  /\ tree' = [i \in Inodes |-> None]
  /\ cnt' = cnt - Cardinality(Linked)
  /\ missed' = missed \cup Linked
  /\ late' = \E c \in Calls : tpc[c] # "out"
  /\ UNCHANGED <<ref, alloc, opened, call, lst, leaked, dirty>>

\* ot_clear under the write lock: the entries move to a list.
Collect ==
  /\ phase = "unhooked" /\ phase' = "putting"
  /\ tree' = [i \in Inodes |-> None]
  /\ cnt' = cnt - Cardinality(Linked)
  /\ lst' = InTree
  /\ missed' = missed \cup Linked
  /\ late' = \E c \in Calls : tpc[c] # "out"
  /\ UNCHANGED <<ref, alloc, opened, call, leaked, dirty>>

\* No memory for the list: its elements are put all the same.
CollectNoMemory ==
  /\ phase = "unhooked" /\ phase' = "oops" /\ Linked # {}
  /\ UNCHANGED <<tree, cnt, ref, alloc, opened, call, lst, late>> /\ HistorySame

PutOne ==
  /\ phase = "putting"
  /\ \E e \in lst : Put(e) /\ lst' = lst \ {e}
  /\ UNCHANGED <<tree, cnt, opened, call, phase, late>> /\ HistorySame

Unload ==
  /\ phase = "putting" /\ lst = {} /\ phase' = "gone"
  /\ UNCHANGED <<tree, cnt, ref, alloc, opened, call, lst, late>> /\ HistorySame

TableNext ==
  \/ \E f \in Fds, i \in Inodes : Open(f, i)
  \/ \E f \in Fds : ProcessEnds(f)
  \/ \E c \in Calls :
        \/ \E f \in Fds : WriteCall(c, f) \/ CloseCall(c, f) \/ CloseNoPath(c, f)
        \/ FindGet(c) \/ FindNone(c) \/ Allocate(c) \/ AllocateNone(c)
        \/ Link(c) \/ LinkFull(c) \/ LinkTwice(c) \/ Release(c) \/ RealWrite(c)
        \/ GetInode(c) \/ DelObj(c) \/ DelNone(c) \/ Report(c) \/ RealClose(c)
  \/ Unhook \/ Collect \/ CollectNoMemory \/ PutOne \/ Unload

TableSpec == TableInit /\ [][TableNext]_tableVars

-----------------------------------------------------------------------------
CallPcs == {"out", "find", "alloc", "link", "put", "write", "inode", "del", "report", "close"}

\* Types; a descriptor is held exactly by the calls inside.
TableTypes ==
  /\ tree \in [Inodes -> Entries \cup {None}]
  /\ cnt \in Int
  /\ ref \in [Entries -> Int]
  /\ alloc \subseteq Entries
  /\ opened \in [Fds -> Inodes \cup {None}]
  /\ tpc \in [Calls -> CallPcs]
  /\ fd \in [Calls -> Fds \cup {None}]
  /\ inode \in [Calls -> Inodes \cup {None}]
  /\ path \in [Calls -> Inodes \cup {None}]
  /\ ote \in [Calls -> Entries \cup {None}]
  /\ phase \in {"in", "unhooked", "putting", "gone", "oops"}
  /\ lst \subseteq Entries
  /\ leaked \subseteq Entries
  /\ dirty \subseteq Inodes
  /\ missed \subseteq Inodes
  /\ late \in BOOLEAN
  /\ \A c \in Calls : tpc[c] = "out" <=> fd[c] = None
  /\ \A c \in Calls : tpc[c] \in {"find", "alloc", "link", "put", "write", "del"} => inode[c] # None
  /\ \A c \in Calls : tpc[c] \in {"link", "put"} <=> ote[c] # None

\* The counter that decides when the table is dropped is the number of linked
\* entries, and it never passes max_cnt (ot_add_obj, ot_del_obj, __ot_clear,
\* ot_clear): a counter that drifts would drop the table at every write.
CntOfTree == cnt = Cardinality(Linked) /\ cnt <= MaxCnt

\* The references to an entry: the table's, those of the calls that work with
\* it, ot_clear's list, and the one ot_del_obj leaves to nobody.
RefsTo(e) ==
  ({"tree"} \X {i \in Inodes : tree[i] = e}) \cup ({"call"} \X {c \in Calls : ote[c] = e})
    \cup ({"list"} \X ({e} \cap lst)) \cup ({"leak"} \X ({e} \cap leaked))

\* Each entry's count is the number of its references, and it is allocated
\* exactly while there is one (kobj.h, obj_tbl.c): no call and no table holds a
\* freed entry, and only fake_close, which never puts what ot_del_obj returns,
\* loses memory.
RefsCounted == \A e \in Entries :
  /\ ref[e] = Cardinality(RefsTo(e))
  /\ e \in alloc <=> RefsTo(e) # {}

\* The table, its counter and the counts of its entries agree.
TableSafety == TableTypes /\ CntOfTree /\ RefsCounted

\* A file that was written and not reported since is in the table, or its
\* report is on the way, unless one of these came first: the table was full or
\* there was no memory, another call's close took the entry between this call's
\* note and its write, or the descriptor changed under the call (fake_write notes
\* before it writes; fake_close takes path and inode one after the other).
DirtyIsNoted == \A i \in dirty :
  \/ tree[i] # None
  \/ \E c \in Calls : tpc[c] = "report" /\ path[c] = i
  \/ i \in missed

\* After ot_free, if no call was inside a hook when it took the table, all that
\* is still allocated are the entries fake_close never put.
ExitFrees == phase = "gone" /\ ~late => alloc = leaked
=============================================================================
