------------------------------- MODULE PFrame -------------------------------
(***************************************************************************)
(* The vnodes in memory and the pages cached for them: the data of         *)
(* K3/vnode.c and K3/pframe.c and what their functions do between two      *)
(* sleeps.                                                                 *)
(*                                                                         *)
(* s is a record with                                                      *)
(*   vn        the vnodes: number on disk, VN_BUSY, reference count and    *)
(*             resident pages, latest first                                *)
(*   inuse     vnode_inuse_list                                            *)
(*   pf        the page frames: vnode, page number, dirty and busy bits,   *)
(*             whether it has what was stored last in the page (data), and *)
(*             whether a page table maps it for writing                    *)
(*   alloc     alloc_list                                                  *)
(*   asleep    what each thread sleeps on: a vn_waitq or a pf_waitq        *)
(*   disk      whether the disk has what was stored last in each page      *)
(*   linked    which files still have a name                               *)
(*   panic     the first KASSERT that failed, by the name of the function  *)
(* A vnode or a frame is its address, which slab_obj_alloc hands out again *)
(* when the object has been freed.                                         *)
(***************************************************************************)
EXTENDS Integers, Sequences, SequencesExt, FiniteSets, FiniteSetsExt, TLC

CONSTANTS
  Threads,
  Inos, Root,     \* the files of the file system, and its root
  Pages,          \* Pages[i]: the page numbers of file i
  NumVnodes,      \* bound: vnodes in memory
  NumFrames,      \* bound: page frames
  NULL

ASSUME PFrameConstants ==
  /\ Root \in Inos
  /\ Pages \in [Inos -> SUBSET Nat]
  /\ NumVnodes \in Nat \ {0} /\ NumFrames \in Nat

Vnodes == 1..NumVnodes
Frames == 1..NumFrames

NoVnode == [ino |-> NULL, busy |-> FALSE, refcount |-> 0, respages |-> << >>]
NoFrame == [obj |-> NULL, num |-> 0, dirty |-> FALSE, busy |-> FALSE, data |-> FALSE, mapped |-> FALSE]

vn_waitq(v) == <<"vn", v>>
pf_waitq(f) == <<"pf", f>>

KASSERT(s, cond, fn) == [s EXCEPT !.panic = IF @ = "" /\ ~cond THEN fn ELSE @]

sched_sleep_on(s, t, q) == [s EXCEPT !.asleep[t] = q]

sched_broadcast_on(s, q) ==
  [s EXCEPT !.asleep = [t \in Threads |-> IF @[t] = q THEN NULL ELSE @[t]]]

nrespages(s, v) == Len(s.vn[v].respages)

\* fs_op->query_vnode: whether the file still has a name.
query_vnode(s, v) == s.linked[s.vn[v].ino]

\* The file system is mounted: its root is in memory, referenced by fs_root and as the
\* working directory of the idle process.
Mounted ==
  [vn     |-> [v \in Vnodes |-> IF v = 1 THEN [NoVnode EXCEPT !.ino = Root, !.refcount = 2]
                                ELSE NoVnode],
   inuse  |-> <<1>>,
   pf     |-> [f \in Frames |-> NoFrame],
   alloc  |-> << >>,
   asleep |-> [t \in Threads |-> NULL],
   disk   |-> [i \in Inos |-> [n \in Pages[i] |-> TRUE]],
   linked |-> [i \in Inos |-> TRUE],
   panic  |-> ""]

-----------------------------------------------------------------------------
(* Vnodes.                                                                 *)

vref(s, v) ==
  [KASSERT(s, 0 < s.vn[v].refcount, "vref") EXCEPT !.vn[v].refcount = @ + 1]

\* Mutant: a vnode that is being brought in or taken away is passed over.
InUse_not_busy(s, i) == SelectSeq(s.inuse, LAMBDA v : s.vn[v].ino = i /\ ~s.vn[v].busy)

\* The vnodes of file i on vnode_inuse_list.
InUse(s, i) == SelectSeq(s.inuse, LAMBDA v : s.vn[v].ino = i)

\* slab_obj_alloc and slab_obj_free for vnodes.
FreeVnodes(s) == {v \in Vnodes : s.vn[v].ino = NULL}

\* vget, when the file is not in memory: the vnode can be found before it is read.
NewVnode(s, v, i) ==
  [s EXCEPT !.vn[v] = [NoVnode EXCEPT !.ino = i, !.busy = TRUE], !.inuse = <<v>> \o @]

\* vget, when read_vnode is back.
VnodeRead(s, v) == [s EXCEPT !.vn[v].busy = FALSE, !.vn[v].refcount = 1]

\* The assertions at the start of vput.
CheckPut(s, v) ==
  KASSERT(KASSERT(s, nrespages(s, v) < s.vn[v].refcount, "vput"), ~s.vn[v].busy, "vput")

\* The vnode is becoming passively referenced, and its file has no name.
Doomed(s, v) == nrespages(s, v) = s.vn[v].refcount - 1 /\ ~query_vnode(s, v)

\* The end of vput: the vnode goes when that was the last reference, and stays busy
\* while delete_vnode runs.
DropRef(s, v) ==
  IF s.vn[v].refcount > 1 THEN [s EXCEPT !.vn[v].refcount = @ - 1]
  ELSE [KASSERT(s, nrespages(s, v) = 0, "vput") EXCEPT !.vn[v].refcount = 0, !.vn[v].busy = TRUE]

\* vput, when delete_vnode is back.
VnodeGone(s, v) ==
  [sched_broadcast_on(s, vn_waitq(v)) EXCEPT !.vn[v] = NoVnode, !.inuse = Remove(@, v)]

\* vfs_is_in_use: whether a vnode has more active references than fs_root's.
vfs_is_in_use(s) ==
  \E v \in ToSet(s.inuse) :
    s.vn[v].refcount - nrespages(s, v) > (IF s.vn[v].ino = Root THEN 1 ELSE 0)

-----------------------------------------------------------------------------
(* Page frames.                                                            *)

\* The frames that pframe_get_resident finds, of which there should be one.
Resident(s, v, n) == {f \in Frames : s.pf[f].obj = v /\ s.pf[f].num = n}

\* pframe_get_resident moves the frame to the end of alloc_list.
Requested(s, f) == [s EXCEPT !.alloc = Append(Remove(@, f), f)]

FreeFrames(s) == {f \in Frames : s.pf[f].obj = NULL}

\* Mutant: the page does not refer to its vnode.
pframe_alloc_no_ref(s, f, v, n) ==
  [s EXCEPT
     !.pf[f] = [NoFrame EXCEPT !.obj = v, !.num = n, !.busy = TRUE],
     !.alloc = Append(@, f),
     !.vn[v].respages = <<f>> \o @]

\* pframe_alloc, and pframe_fill up to fillpage.
pframe_alloc(s, f, v, n) ==
  [vref(s, v) EXCEPT
     !.pf[f] = [NoFrame EXCEPT !.obj = v, !.num = n, !.busy = TRUE],
     !.alloc = Append(@, f),
     !.vn[v].respages = <<f>> \o @]

\* Mutant: nobody is woken.
NotBusy_silent(s, f) == [s EXCEPT !.pf[f].busy = FALSE]

\* What pframe_fill, pframe_dirty and pframe_clean do when the operation of the
\* memory object is back.
NotBusy(s, f) == sched_broadcast_on([s EXCEPT !.pf[f].busy = FALSE], pf_waitq(f))

\* pframe_dirty up to dirtypage.
StartDirty(s, f) == [KASSERT(s, ~s.pf[f].busy, "pframe_dirty") EXCEPT !.pf[f].busy = TRUE]

\* Mutant: programs go on storing into the page while it is written.
StartClean_mapped(s, f) ==
  [KASSERT(s, s.pf[f].dirty, "pframe_clean") EXCEPT !.pf[f].dirty = FALSE, !.pf[f].busy = TRUE]

\* pframe_clean up to cleanpage: the frame leaves the page tables.
StartClean(s, f) ==
  [KASSERT(s, s.pf[f].dirty, "pframe_clean") EXCEPT
     !.pf[f].dirty = FALSE, !.pf[f].mapped = FALSE, !.pf[f].busy = TRUE]

\* pframe_free, up to the object's put.
Forget(s, f) ==
  [KASSERT(s, s.pf[f].obj # NULL /\ ~s.pf[f].busy, "pframe_free") EXCEPT
     !.pf[f] = NoFrame,
     !.alloc = Remove(@, f),
     !.vn[s.pf[f].obj].respages = Remove(@, f)]

\* The vput of pframe_free, while the caller has the vnode referenced: it only counts
\* down.
PutPage(s, v) ==
  DropRef(KASSERT(CheckPut(s, v), ~Doomed(s, v) /\ s.vn[v].refcount > 1, "vput"), v)

pframe_free(s, f) == PutPage(Forget(s, f), s.pf[f].obj)

\* Mutant: vput does not wait for pages that are being written.
Uncache_no_wait(s, v) == FoldLeft(LAMBDA a, f : pframe_free(a, f), s, s.vn[v].respages)

\* The loop of vput over the resident pages of a doomed vnode, up to the first page
\* it has to wait for.
Uncache(s, v) ==
  LET pages == s.vn[v].respages
      busy  == {i \in DOMAIN pages : s.pf[pages[i]].busy}
      upto  == IF busy = {} THEN Len(pages) ELSE Min(busy) - 1
  IN  FoldLeft(LAMBDA a, f : pframe_free(a, f), s, SubSeq(pages, 1, upto))

-----------------------------------------------------------------------------
(* Shutdown, when every process is gone: nothing runs but the idle process, *)
(* so that no sleep matters.  Writing a page succeeds: the code asserts it. *)

\* A page is written back.
Clean(s, f) ==
  IF ~s.pf[f].dirty THEN s
  ELSE [NotBusy(StartClean(s, f), f) EXCEPT
          !.disk[s.vn[s.pf[f].obj].ino][s.pf[f].num] = s.pf[f].data]

\* vput to the end.
vput_now(s, v) ==
  LET d == DropRef(CheckPut(s, v), v)
  IN  IF d.vn[v].refcount = 0 THEN VnodeGone(d, v) ELSE d

\* pframe_free of a clean page, to the end of the vput in it.
FreeNow(s, f) == vput_now(Forget(KASSERT(s, ~s.pf[f].dirty, "vnode_flush_all"), f), s.pf[f].obj)

CachedPages(s) == FlattenSeq([i \in DOMAIN s.inuse |-> s.vn[s.inuse[i]].respages])

\* All pages are cleaned before the first one is freed.
vnode_flush_all(s) ==
  LET pages   == CachedPages(s)
      cleaned == FoldLeft(LAMBDA a, f : Clean(a, f), s, pages)
  IN  FoldLeft(LAMBDA a, f : FreeNow(a, f), cleaned, pages)

\* pframe_clean_all and the loop that follows it in pframe_shutdown.
pframe_shutdown(s) ==
  LET cleaned == FoldLeft(LAMBDA a, f : Clean(a, f), s, s.alloc)
  IN  FoldLeft(LAMBDA a, f : FreeNow(a, f), cleaned, s.alloc)

\* Mutant: the root vnode is left to itself.
vfs_shutdown_keeps_root(s) ==
  vnode_flush_all(KASSERT(s, ~vfs_is_in_use(s), "idleproc_run"))

\* vfs_shutdown: panics when the file system is in use; the last vput is fs_root's.
vfs_shutdown(s) ==
  LET flushed == vnode_flush_all(KASSERT(s, ~vfs_is_in_use(s), "idleproc_run"))
  IN  vput_now(flushed, Head(InUse(flushed, Root)))

\* What idleproc_run does after init is gone.  pageoutd, which pframe_shutdown waits
\* for, has been asleep since it started: nothing calls pageoutd_wakeup.
HaltCleanly(s) ==
  pframe_shutdown(vfs_shutdown(vput_now(s, Head(InUse(s, Root)))))
=============================================================================
