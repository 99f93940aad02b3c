------------------------------ MODULE PageCache ------------------------------
(***************************************************************************)
(* Threads that use the vnode cache and the page cache at the same time:   *)
(* vget and vput of K3/vnode.c, pframe_get, pframe_dirty, pframe_clean_all *)
(* and pframe_shutdown of K3/pframe.c, and the shutdown of K2/kmain.c.     *)
(*                                                                         *)
(* A step is what a thread does from one sleep to the next.  A thread      *)
(* sleeps on a queue (s.asleep) or inside an operation of the file system  *)
(* (pc is read, delete, fill, dirty or clean), which external code ends.   *)
(* thr[t] has the variables of t's call that live across its sleeps.  Any  *)
(* thread that is awake may run next.                                      *)
(***************************************************************************)
EXTENDS PFrame

CONSTANTS
  IoFails,      \* whether fillpage and cleanpage may return an error
  LateLookups   \* whether a name can go while a vget that found it sleeps

ASSUME PageCacheConstants == IoFails \in BOOLEAN /\ LateLookups \in BOOLEAN

VARIABLES s, thr

vars == <<s, thr>>

\* pc      where the thread is; user: in no call
\* ino     the file that vget is asked for
\* v       the vnode the thread has a reference to
\* num, w  the arguments pagenum and forwrite of pframe_lookup
\* f       the page frame of pframe_get, pframe_clean_all or vput
\* val     whether cleanpage is writing what was stored last in the page
User == [pc |-> "user", ino |-> NULL, v |-> NULL, num |-> 0, w |-> FALSE, f |-> NULL, val |-> FALSE]

InUser(t) == thr[t].pc = "user" /\ s.panic = ""
InOp(t, op) == thr[t].pc = op /\ s.panic = ""
Awake(t, pc) == thr[t].pc = pc /\ s.asleep[t] = NULL /\ s.panic = ""

Outcomes == IF IoFails THEN {TRUE, FALSE} ELSE {TRUE}

Init ==
  /\ s = Mounted
  /\ thr = [t \in Threads |-> User]

\* The call of t is over, and t has a reference to v.
Back(t, v) == thr' = [thr EXCEPT ![t] = [User EXCEPT !.v = v]]

-----------------------------------------------------------------------------
(* vget and vput.                                                          *)

\* From the label find to the next sleep.
Find(t, i) ==
  LET found == InUse(s, i)
  IN  \/ /\ found # << >> /\ s.vn[Head(found)].busy
         /\ s' = sched_sleep_on(s, t, vn_waitq(Head(found)))
         /\ thr' = [thr EXCEPT ![t] = [User EXCEPT !.pc = "vget", !.ino = i]]
      \/ /\ found # << >> /\ ~s.vn[Head(found)].busy
         /\ s' = vref(s, Head(found))
         /\ Back(t, Head(found))
      \/ /\ found = << >> /\ FreeVnodes(s) # {}
         /\ s' = NewVnode(s, Min(FreeVnodes(s)), i)
         /\ thr' = [thr EXCEPT ![t] = [User EXCEPT !.pc = "read", !.v = Min(FreeVnodes(s))]]

\* A lookup gives the number of a file that has a name.
vget(t, i) ==
  /\ InUser(t) /\ thr[t].v = NULL
  /\ s.linked[i]
  /\ Find(t, i)

vget_again(t) ==
  /\ Awake(t, "vget")
  /\ Find(t, thr[t].ino)

\* read_vnode returns.
read_vnode(t) ==
  /\ InOp(t, "read")
  /\ s' = VnodeRead(s, thr[t].v)
  /\ Back(t, thr[t].v)

\* The rest of vput, when the pages are dealt with.
PutVnode(t, v, ss) ==
  /\ s' = DropRef(ss, v)
  /\ IF ss.vn[v].refcount > 1 THEN Back(t, NULL)
     ELSE thr' = [thr EXCEPT ![t] = [User EXCEPT !.pc = "delete", !.v = v]]

\* The loop of vput, from ss.
UncacheFrom(t, v, ss) ==
  \/ /\ ss.vn[v].respages = << >>
     /\ PutVnode(t, v, KASSERT(ss, ss.vn[v].refcount = 1, "vput"))
  \/ /\ ss.vn[v].respages # << >>
     /\ LET f == Head(ss.vn[v].respages)
        IN  /\ s' = sched_sleep_on(ss, t, pf_waitq(f))
            /\ thr' = [thr EXCEPT ![t] = [User EXCEPT !.pc = "uncache", !.v = v, !.f = f]]

\* The last thread that has the vnode takes the mappings of the file with it.
Unmapped(t, v) ==
  IF \E u \in Threads \ {t} : thr[u].v = v THEN s
  ELSE [s EXCEPT !.pf = [f \in Frames |-> IF @[f].obj = v THEN [@[f] EXCEPT !.mapped = FALSE] ELSE @[f]]]

vput(t) ==
  /\ InUser(t) /\ thr[t].v # NULL
  /\ LET v == thr[t].v
         c == CheckPut(Unmapped(t, v), v)
     IN  IF Doomed(c, v) THEN UncacheFrom(t, v, Uncache(c, v)) ELSE PutVnode(t, v, c)

\* The page that vput waited for is still the one it means to free.
uncache_again(t) ==
  /\ Awake(t, "uncache")
  /\ LET v == thr[t].v
     IN  UncacheFrom(t, v, Uncache(KASSERT(s, s.pf[thr[t].f].obj = v, "vput"), v))

\* delete_vnode returns.
delete_vnode(t) ==
  /\ InOp(t, "delete")
  /\ s' = VnodeGone(s, thr[t].v)
  /\ Back(t, NULL)

\* The file system's unlink takes the name of a file that t has open.
unlink(t) ==
  /\ InUser(t) /\ thr[t].v # NULL
  /\ s.vn[thr[t].v].ino # Root
  /\ LateLookups \/ \A u \in Threads : thr[u].ino # s.vn[thr[t].v].ino
  /\ s' = [s EXCEPT !.linked[s.vn[thr[t].v].ino] = FALSE]
  /\ UNCHANGED thr

-----------------------------------------------------------------------------
(* Getting, dirtying and storing into a page.                              *)

\* pframe_get returns frame f in state ss; if the page is to be written, it is made
\* dirty.
Got(t, c, f, ss) ==
  \/ /\ ~c.w
     /\ s' = ss
     /\ Back(t, c.v)
  \/ /\ c.w
     /\ s' = StartDirty(ss, f)
     /\ thr' = [thr EXCEPT ![t] = [c EXCEPT !.pc = "dirty", !.f = f]]

\* pframe_get up to its sleep, or to fillpage.  page_alloc can return NULL, because
\* other parts of the kernel use memory too, and pframe_get asserts that it did not.
GetPage(t, c) ==
  LET found == Resident(s, c.v, c.num)
      f     == Min(found)
      new   == Min(FreeFrames(s))
  IN  \/ /\ found # {} /\ ~s.pf[f].busy
         /\ Got(t, c, f, Requested(s, f))
      \/ /\ found # {} /\ s.pf[f].busy
         /\ s' = sched_sleep_on(Requested(s, f), t, pf_waitq(f))
         /\ thr' = [thr EXCEPT ![t] = [c EXCEPT !.pc = "get", !.f = f]]
      \/ /\ found = {} /\ FreeFrames(s) # {}
         /\ s' = pframe_alloc(s, new, c.v, c.num)
         /\ thr' = [thr EXCEPT ![t] = [c EXCEPT !.pc = "fill", !.f = new]]
      \/ /\ found = {}
         /\ s' = KASSERT(s, FALSE, "pframe_get")
         /\ UNCHANGED thr

pframe_get(t, n, w) ==
  /\ InUser(t) /\ thr[t].v # NULL
  /\ n \in Pages[s.vn[thr[t].v].ino]
  /\ GetPage(t, [User EXCEPT !.v = thr[t].v, !.num = n, !.w = w])

\* pframe_get returns after its sleep.  The frame may be busy again, or gone, or some
\* other page's: nothing looks.  Then the assertion fails, or the caller goes on with
\* a frame that is not its page; the model stops there.
get_again(t) ==
  /\ Awake(t, "get")
  /\ LET c == thr[t]
     IN  IF c.f \in Resident(s, c.v, c.num) /\ ~s.pf[c.f].busy
         THEN Got(t, c, c.f, s)
         ELSE s' = KASSERT(s, FALSE, "pframe_get") /\ UNCHANGED thr

\* fillpage returns.  On an error pframe_get frees the frame, and then asserts that
\* what it has freed is not busy.
fillpage(t, ok) ==
  /\ InOp(t, "fill")
  /\ LET c == thr[t]
         n == NotBusy([s EXCEPT !.pf[c.f].data = s.disk[s.vn[c.v].ino][c.num]], c.f)
     IN  \/ ok /\ Got(t, c, c.f, n)
         \/ /\ ~ok
            /\ \E stillBusy \in BOOLEAN :
                 s' = KASSERT(pframe_free(n, c.f), ~stillBusy, "pframe_get")
            /\ Back(t, c.v)

\* A store into frame f in state ss: every other copy of the page is out of date.
Stored(f, ss) ==
  LET i == ss.vn[ss.pf[f].obj].ino
  IN  [ss EXCEPT !.pf[f].data = TRUE, !.disk[i][ss.pf[f].num] = FALSE]

Outdated(f) == [u \in Threads |-> IF thr[u].f = f THEN [thr[u] EXCEPT !.val = FALSE] ELSE thr[u]]

\* dirtypage returns, and the caller maps the page and stores into it.
dirtypage(t) ==
  /\ InOp(t, "dirty")
  /\ LET c == thr[t]
     IN  /\ s' = Stored(c.f, [NotBusy(s, c.f) EXCEPT !.pf[c.f].dirty = TRUE,
                                                        !.pf[c.f].mapped = TRUE])
         /\ thr' = [Outdated(c.f) EXCEPT ![t] = [User EXCEPT !.v = c.v]]

\* A program stores into a page that is mapped for writing; the kernel sees nothing.
Store(t, f) ==
  /\ InUser(t) /\ thr[t].v # NULL
  /\ s.pf[f].obj = thr[t].v /\ s.pf[f].mapped
  /\ s' = Stored(f, s)
  /\ thr' = Outdated(f)

-----------------------------------------------------------------------------
(* sync(2).                                                                *)

\* pframe_clean_all, from the label list_start to the next sleep.
CleanAll(t, v, ss) ==
  LET held == {i \in DOMAIN ss.alloc : ss.pf[ss.alloc[i]].busy \/ ss.pf[ss.alloc[i]].dirty}
      f    == ss.alloc[Min(held)]
      At(pc) == thr' = [thr EXCEPT ![t] = [User EXCEPT !.pc = pc, !.v = v, !.f = f, !.val = ss.pf[f].data]]
  IN  \/ held = {} /\ s' = ss /\ Back(t, v)
      \/ held # {} /\ ss.pf[f].busy /\ s' = sched_sleep_on(ss, t, pf_waitq(f)) /\ At("sync")
      \/ held # {} /\ ~ss.pf[f].busy /\ s' = StartClean(ss, f) /\ At("clean")

sys_sync(t) ==
  /\ InUser(t)
  /\ CleanAll(t, thr[t].v, s)

sync_again(t) ==
  /\ Awake(t, "sync")
  /\ CleanAll(t, thr[t].v, s)

\* cleanpage returns; after an error the page is dirty again.
cleanpage(t, ok) ==
  /\ InOp(t, "clean")
  /\ LET f == thr[t].f
         i == s.vn[s.pf[f].obj].ino
         n == NotBusy(s, f)
     IN  \/ ok /\ CleanAll(t, thr[t].v, [n EXCEPT !.disk[i][s.pf[f].num] = thr[t].val])
         \/ ~ok /\ CleanAll(t, thr[t].v, [n EXCEPT !.pf[f].dirty = TRUE])

-----------------------------------------------------------------------------
\* The idle process, when init and with it every other process is gone.
shutdown ==
  /\ \A t \in Threads : InUser(t) /\ thr[t].v = NULL
  /\ s.inuse # << >>
  /\ s' = HaltCleanly(s)
  /\ thr' = [t \in Threads |-> [User EXCEPT !.pc = "halted"]]

Next ==
  \/ \E t \in Threads :
       \/ \E i \in Inos \ {Root} : vget(t, i)
       \/ vget_again(t) \/ read_vnode(t)
       \/ vput(t) \/ uncache_again(t) \/ delete_vnode(t) \/ unlink(t)
       \/ \E n \in UNION {Pages[i] : i \in Inos}, w \in BOOLEAN : pframe_get(t, n, w)
       \/ get_again(t)
       \/ \E ok \in Outcomes : fillpage(t, ok) \/ cleanpage(t, ok)
       \/ dirtypage(t) \/ \E f \in Frames : Store(t, f)
       \/ sys_sync(t) \/ sync_again(t)
  \/ shutdown

Spec == Init /\ [][Next]_vars

-----------------------------------------------------------------------------
(* Properties.                                                             *)

\* The thread that is in an operation of the file system on frame f.
InIO(f) == {t \in Threads : thr[t].pc \in {"fill", "dirty", "clean"} /\ thr[t].f = f}

\* A file has one vnode and a page of it one frame, although vget and pframe_get
\* sleep between looking for one and having brought it in; the lists of vnode.c and
\* pframe.c hold exactly the vnodes and the frames that are in use.
NoDuplicates ==
  /\ \A v, u \in Vnodes : s.vn[v].ino # NULL /\ s.vn[v].ino = s.vn[u].ino => v = u
  /\ \A f, g \in Frames :
       s.pf[f].obj # NULL /\ s.pf[f].obj = s.pf[g].obj /\ s.pf[f].num = s.pf[g].num => f = g
  /\ IsInjective(s.inuse) /\ ToSet(s.inuse) = Vnodes \ FreeVnodes(s)
  /\ IsInjective(s.alloc) /\ ToSet(s.alloc) = Frames \ FreeFrames(s)
  /\ \A v \in Vnodes : ToSet(s.vn[v].respages) = {f \in Frames : s.pf[f].obj = v}

\* A vnode's count is the number of its references: the threads that have it, its
\* resident pages, fs_root and the idle process; it is busy exactly while one thread is bringing it in
\* or taking it away.
VnodeRefs ==
  \A v \in Vnodes \ FreeVnodes(s) :
    LET by == {t \in Threads : thr[t].v = v}
        io == {t \in by : thr[t].pc \in {"read", "delete"}}
    IN  /\ s.vn[v].busy <=> io # {}
        /\ s.vn[v].busy => by = io /\ Cardinality(io) = 1 /\ s.vn[v].refcount = 0
        /\ ~s.vn[v].busy =>
             s.vn[v].refcount = Cardinality(by) + nrespages(s, v)
                                  + (IF s.vn[v].ino = Root THEN 2 ELSE 0)

\* A busy page is in the hands of one thread, which will make it not busy and wake
\* whoever sleeps on its queue: nobody sleeps on the queue of a page that is not busy
\* or that has been freed.
PageWaitersHaveWaker ==
  /\ \A f \in Frames : Cardinality(InIO(f)) = IF s.pf[f].busy THEN 1 ELSE 0
  /\ \A t \in Threads, f \in Frames : s.asleep[t] = pf_waitq(f) => s.pf[f].busy

\* What was last stored in a page of a file that has a name is in its frame, and on
\* the disk too when the frame is gone, or is neither dirty nor being cleaned.
NoStoreLost ==
  \A i \in Inos : \A n \in Pages[i] :
    s.linked[i] =>
      LET frames == {f \in Frames : s.pf[f].obj # NULL /\ s.vn[s.pf[f].obj].ino = i /\ s.pf[f].num = n}
      IN  /\ \A f \in frames : (\E t \in InIO(f) : thr[t].pc = "fill") \/ s.pf[f].data
          /\ (\A f \in frames : ~s.pf[f].dirty /\ ~s.pf[f].busy) => s.disk[i][n]

\* Whatever is interleaved, the only assertions that can fail are those at the end of
\* pframe_get: no frame is left, or the frame was waited for, or fillpage failed.
AssertsHold == s.panic \in {"", "pframe_get"}

\* When the machine halts, every page is on the disk and no vnode or frame is left.
HaltsClean ==
  (\E t \in Threads : thr[t].pc = "halted") =>
    /\ s.inuse = << >> /\ s.alloc = << >>
    /\ \A i \in Inos : s.linked[i] => \A n \in Pages[i] : s.disk[i][n]

\* "as long as this routine returns successfully, the returned page will be a
\* non-busy page that will be guaranteed to remain resident" (pframe.c:326), since it
\* should wait "in a loop since the page might not still be resident".
GetReturnsPage ==
  [][\A t \in Threads :
       get_again(t) => thr[t].f \in Resident(s, thr[t].v, thr[t].num) /\ ~s.pf[thr[t].f].busy]_vars

\* vget sleeps because the vnode is "either being brought in or it's on its way out"
\* (vnode.c:112).
VnodeWaitersHaveWaker ==
  \A t \in Threads, v \in Vnodes : s.asleep[t] = vn_waitq(v) => s.vn[v].busy
=============================================================================
