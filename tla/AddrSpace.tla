----------------------------- MODULE AddrSpace ------------------------------
(***************************************************************************)
(* Processes and their memory: do_mmap and do_munmap (K3/mmap.c), do_brk   *)
(* (K3/brk.c), do_fork (K3/fork.c), handle_pagefault (K3/pagefault.c),     *)
(* copy_to_user and copy_from_user on one page (K3/access.c), and sync(2)  *)
(* page by page (pframe_clean_all), over the memory objects and vmmaps.    *)
(*                                                                         *)
(* Addresses given to do_brk are in units of 1/PAGE_SIZE of a page.        *)
(* Processes run the code of their first area, so that one whose map is    *)
(* empty makes no system call.                                             *)
(***************************************************************************)
EXTENDS VMMap

CONSTANTS
  Procs, First,   \* the processes, and the one the system starts with
  PAGE_SIZE,
  START_BRK,      \* p_start_brk, the same in all processes: fork copies it
  BrkAddrs,       \* the addresses given to brk
  Requests,       \* the mappings asked for: records [file, lo, n, prot, shared, off]
  Unmaps,         \* the ranges unmapped: pairs <<lo, n>>
  UnmapsHeap,     \* whether a program unmaps the last page of its own heap
  Splits,         \* whether a range is unmapped from the middle of an area
  Buffers,        \* pages that system calls read and write for the program
  Touched,        \* bound: the pages that are accessed
  InitDisk        \* the contents of the files at the start

VARIABLES
  m,       \* the memory objects
  map,     \* map[p]: the areas of p_vmmap
  p_brk,   \* the break, NULL when there is no such process
  pt,      \* pt[p]: the page table, what each page is mapped to
  asked    \* asked[p]: the address of p's last successful brk

vars == <<m, map, p_brk, pt, asked>>

ASSUME AddrSpaceConstants ==
  /\ First \in Procs
  /\ PAGE_SIZE \in Nat \ {0}
  /\ START_BRK \in LOW * PAGE_SIZE + 1..HIGH * PAGE_SIZE
  /\ BrkAddrs \subseteq Nat
  /\ Requests \subseteq [file : Files \cup {NULL}, lo : {0} \cup UserPages, n : Nat \ {0},
                         prot : SUBSET {"PROT_READ", "PROT_WRITE"}, shared : BOOLEAN,
                         off : PageNums]
  /\ \A r \in Requests : r.lo + r.n <= HIGH
  /\ \A r \in Unmaps : r[1] \in UserPages /\ r[2] \in Nat \ {0} /\ r[1] + r[2] <= HIGH
  /\ UnmapsHeap \in BOOLEAN /\ Splits \in BOOLEAN /\ Buffers \subseteq Touched
  /\ Touched \subseteq UserPages
  /\ InitDisk \in [Files -> [PageNums -> Values]]

\* The first page at or above an address.
PageAfter(addr) == (addr - 1) \div PAGE_SIZE + 1

NoPages == [v \in UserPages |-> NULL]

Clear(table, lo, hi) == [v \in UserPages |-> IF v \in lo..hi - 1 THEN NULL ELSE table[v]]

Runs(p) == p_brk[p] # NULL /\ map[p] # << >>

Mem(p) == [m |-> m, map |-> map[p]]

\* The first process after the loader: one private anonymous area up to the break.
Init ==
  LET s == vmmap_map([m |-> NoObjects(InitDisk), map |-> << >>], NULL, LOW,
                     PageAfter(START_BRK) - LOW, {"PROT_READ", "PROT_WRITE"}, FALSE, 0)
  IN  /\ m = s.m
      /\ map = [p \in Procs |-> IF p = First THEN s.map ELSE << >>]
      /\ p_brk = [p \in Procs |-> IF p = First THEN START_BRK ELSE NULL]
      /\ asked = p_brk
      /\ pt = [p \in Procs |-> NoPages]

-----------------------------------------------------------------------------
(* mmap, munmap and brk.                                                   *)

\* What the programs of a run do not do to [lo, hi).
Allowed(p, lo, hi) ==
  /\ UnmapsHeap \/ PageAfter(p_brk[p]) - 1 \notin lo..hi - 1
  /\ Splits \/ ~ \E i \in DOMAIN map[p] : map[p][i].start < lo /\ hi < map[p][i].end

\* Bound: objects for the halves of an area, and for n areas.
Room(n) == Cardinality(FreeObjs(m)) >= n + (IF Splits THEN 2 ELSE 0)

\* do_mmap, when vmmap_map finds room; it changes nothing when it fails.
do_mmap(p, r) ==
  LET s == vmmap_map(Mem(p), r.file, r.lo, r.n, r.prot, r.shared, r.off)
  IN  /\ Runs(p)
      /\ Room(2)
      /\ r.lo # 0 => Allowed(p, r.lo, r.lo + r.n)
      /\ s.ret # -1
      /\ m' = s.m
      /\ map' = [map EXCEPT ![p] = s.map]
      /\ pt' = [pt EXCEPT ![p] = Clear(@, s.ret, s.ret + r.n)]
      /\ UNCHANGED <<p_brk, asked>>

do_munmap(p, lo, n) ==
  LET s == vmmap_remove(Mem(p), lo, n)
  IN  /\ Runs(p)
      /\ Room(0)
      /\ Allowed(p, lo, lo + n)
      /\ m' = s.m
      /\ map' = [map EXCEPT ![p] = s.map]
      /\ pt' = [pt EXCEPT ![p] = Clear(@, lo, lo + n)]
      /\ UNCHANGED <<p_brk, asked>>

\* The break moves to a page boundary below: the pages above are unmapped.
brk_shrink(p, addr, begin, end) ==
  LET s == vmmap_remove(Mem(p), end, begin - end)
  IN  /\ m' = s.m
      /\ map' = [map EXCEPT ![p] = s.map]
      /\ pt' = [pt EXCEPT ![p] = Clear(@, end, begin)]
      /\ p_brk' = [p_brk EXCEPT ![p] = addr]
      /\ asked' = [asked EXCEPT ![p] = addr]

\* The area below the break is extended.  There is none to extend when that page
\* has been unmapped: the store through the NULL area faults in the kernel.
brk_grow(p, addr, begin, end) ==
  LET area == vmmap_lookup(map[p], begin - 1)
  IN  /\ vmmap_is_range_empty(map[p], begin, end - begin)
      /\ m' = KASSERT(m, area # 0)
      /\ map' = IF area = 0 THEN map ELSE [map EXCEPT ![p][area].end = end]
      /\ p_brk' = [p_brk EXCEPT ![p] = addr]
      /\ asked' = [asked EXCEPT ![p] = addr]
      /\ UNCHANGED pt

\* Mutant: the address is rounded down to a page.
do_brk_rounds_down(p, addr) ==
  /\ Runs(p)
  /\ addr >= START_BRK
  /\ addr \div PAGE_SIZE < PageAfter(p_brk[p])
  /\ brk_shrink(p, addr, PageAfter(p_brk[p]), addr \div PAGE_SIZE)

\* do_brk, when it succeeds.  Within a page it succeeds and does nothing.
do_brk(p, addr) ==
  LET begin == PageAfter(p_brk[p])
      end   == PageAfter(addr)
  IN  /\ Runs(p)
      /\ addr <= HIGH * PAGE_SIZE
      /\ addr >= START_BRK
      /\ \/ end < begin /\ brk_shrink(p, addr, begin, end)
         \/ end > begin /\ brk_grow(p, addr, begin, end)
         \/ /\ end = begin
            /\ asked' = [asked EXCEPT ![p] = addr]
            /\ UNCHANGED <<m, map, p_brk, pt>>

-----------------------------------------------------------------------------
(* fork and exit.                                                          *)

\* Mutant: the child's area gets the parent's object itself.
ForkArea_no_copy(s, i) ==
  LET obj == s.map[i].obj
  IN  [s EXCEPT !.m = ref(@, obj), !.clone[i].obj = obj]

\* Mutant: mmo_bottom_obj is set to the object that is shadowed.
ForkArea_shallow(s, i) ==
  LET obj == s.map[i].obj
      m1  == ref(s.m, obj)
      m2  == shadow_create(m1, obj, obj)
  IN  IF s.clone[i].shared
      THEN [s EXCEPT !.m = m1, !.clone[i].obj = obj]
      ELSE [m     |-> shadow_create(m2, obj, obj),
            map   |-> [s.map EXCEPT ![i].obj = Fresh(m1)],
            clone |-> [s.clone EXCEPT ![i].obj = Fresh(m2)]]

\* One turn of do_fork's loop, for the i-th area of the child's map.  A private
\* area's object is shadowed twice, for the parent and for the child.
ForkArea(s, i) ==
  LET j   == vmmap_lookup(s.map, s.clone[i].start)
      obj == s.map[j].obj
      m1  == ref(s.m, obj)
      m2  == shadow_create(m1, obj, m1.bottom[obj])
  IN  IF s.clone[i].shared
      THEN [s EXCEPT !.m = m1, !.clone[i].obj = obj]
      ELSE [m     |-> shadow_create(m2, obj, m1.bottom[obj]),
            map   |-> [s.map EXCEPT ![j].obj = Fresh(m1)],
            clone |-> [s.clone EXCEPT ![i].obj = Fresh(m2)]]

\* Mutant: the parent's page table is not emptied.
do_fork_keeps_ptes(p, c) ==
  LET s == FoldLeft(ForkArea, [m |-> m, map |-> map[p], clone |-> map[p]],
                    [i \in 1..Len(map[p]) |-> i])
  IN  /\ Runs(p) /\ p_brk[c] = NULL
      /\ Room(2 * Len(SelectSeq(map[p], LAMBDA a : ~a.shared)))
      /\ m' = s.m
      /\ map' = [map EXCEPT ![p] = s.map, ![c] = s.clone]
      /\ p_brk' = [p_brk EXCEPT ![c] = p_brk[p]]
      /\ asked' = [asked EXCEPT ![c] = asked[p]]
      /\ UNCHANGED pt

do_fork(p, c) ==
  LET s == FoldLeft(ForkArea, [m |-> m, map |-> map[p], clone |-> map[p]],
                    [i \in 1..Len(map[p]) |-> i])
  IN  /\ Runs(p)
      /\ p_brk[c] = NULL
      /\ Room(2 * Len(SelectSeq(map[p], LAMBDA a : ~a.shared)))
      /\ m' = s.m
      /\ map' = [map EXCEPT ![p] = s.map, ![c] = s.clone]
      /\ pt' = [pt EXCEPT ![p] = NoPages]
      /\ p_brk' = [p_brk EXCEPT ![c] = p_brk[p]]
      /\ asked' = [asked EXCEPT ![c] = asked[p]]

\* do_exit: the process's map and page table are destroyed.
Exit(p) ==
  LET s == vmmap_destroy(Mem(p))
  IN  /\ p_brk[p] # NULL
      /\ m' = s.m
      /\ map' = [map EXCEPT ![p] = << >>]
      /\ pt' = [pt EXCEPT ![p] = NoPages]
      /\ p_brk' = [p_brk EXCEPT ![p] = NULL]
      /\ asked' = [asked EXCEPT ![p] = NULL]

-----------------------------------------------------------------------------
(* Accesses by the program and by the kernel.                              *)

Area(p, v) == map[p][vmmap_lookup(map[p], v)]

Permits(p, v, perm) == mapped(map[p], v) /\ perm \in Area(p, v).prot

\* handle_pagefault for a load from a page the process may read.
read_fault(p, v) ==
  LET n == PageNum(Area(p, v), v)
      r == lookup_read(m, Area(p, v).obj, n)
  IN  /\ m' = r.m
      /\ pt' = [pt EXCEPT ![p][v] = [obj |-> r.obj, num |-> n, write |-> FALSE]]

\* handle_pagefault for a store to a page the process may write.
write_fault(p, v) ==
  LET n == PageNum(Area(p, v), v)
      o == Area(p, v).obj
  IN  \E g \in Values :
        /\ m' = pframe_dirty(lookup_write(m, o, n, g), o, n)
        /\ pt' = [pt EXCEPT ![p][v] = [obj |-> o, num |-> n, write |-> TRUE]]

\* The processor faults when the page table has no page, or none it may write.  A
\* process that may not make the access is killed.
handle_pagefault(p, v, write) ==
  /\ Runs(p)
  /\ ~(pt[p][v] # NULL /\ (write => pt[p][v].write))
  /\ IF Permits(p, v, IF write THEN "PROT_WRITE" ELSE "PROT_READ")
     THEN /\ IF write THEN write_fault(p, v) ELSE read_fault(p, v)
          /\ UNCHANGED <<map, p_brk, asked>>
     ELSE Exit(p)

\* A store by the program to a page it has mapped for writing.
Store(p, v, x) ==
  LET e == pt[p][v]
  IN  /\ Runs(p)
      /\ e # NULL /\ e.write
      /\ m' = [m EXCEPT !.respages[e.obj][e.num].val = x]
      /\ UNCHANGED <<map, p_brk, asked, pt>>

\* copy_to_user of one page: vmmap_write looks the page up for writing, stores and
\* marks it dirty.
copy_to_user(p, v, x) ==
  LET n == PageNum(Area(p, v), v)
      o == Area(p, v).obj
  IN  /\ v \in Buffers /\ Runs(p)
      /\ Permits(p, v, "PROT_WRITE")
      /\ m' = [pframe_dirty(lookup_write(m, o, n, 0), o, n) EXCEPT !.respages[o][n].val = x]
      /\ UNCHANGED <<map, p_brk, asked, pt>>

\* copy_from_user of one page: vmmap_read also looks it up for writing.
copy_from_user(p, v) ==
  /\ v \in Buffers /\ Runs(p)
  /\ Permits(p, v, "PROT_READ")
  /\ \E g \in Values : m' = lookup_write(m, Area(p, v).obj, PageNum(Area(p, v), v), g)
  /\ UNCHANGED <<map, p_brk, asked, pt>>

\* Mutant: the page stays in the page tables.
clean_keeps_ptes(o, n) ==
  /\ CanClean(m, o, n)
  /\ m' = pframe_clean(m, o, n)
  /\ UNCHANGED <<map, p_brk, asked, pt>>

\* One page of pframe_clean_all, which may block before the next one.
\* pframe_remove_from_pts: the areas on the object's mmo_vmas are those whose chain
\* ends in it.
clean(o, n) ==
  LET Shows(p, v) == /\ mapped(map[p], v)
                     /\ Last(Chain(m, Area(p, v).obj)) = o
                     /\ PageNum(Area(p, v), v) = n
  IN  /\ CanClean(m, o, n)
      /\ m' = pframe_clean(m, o, n)
      /\ pt' = [p \in Procs |-> [v \in UserPages |-> IF Shows(p, v) THEN NULL ELSE pt[p][v]]]
      /\ UNCHANGED <<map, p_brk, asked>>

Next ==
  \/ \E p \in Procs :
       \/ \E r \in Requests : do_mmap(p, r)
       \/ \E u \in Unmaps : do_munmap(p, u[1], u[2])
       \/ \E addr \in BrkAddrs : do_brk(p, addr)
       \/ \E c \in Procs : do_fork(p, c)
       \/ Exit(p)
       \/ \E v \in Touched :
            \/ \E write \in BOOLEAN : handle_pagefault(p, v, write)
            \/ \E x \in Values : Store(p, v, x) \/ copy_to_user(p, v, x)
            \/ copy_from_user(p, v)
  \/ \E o \in Objs, n \in PageNums : clean(o, n)

Spec == Init /\ [][Next]_vars

-----------------------------------------------------------------------------
(* Properties.                                                             *)

\* The area that do_brk looks up below the break when it grows the heap is there and
\* ends exactly at the break, after any brk, mmap, munmap, fork and exit: for programs
\* that do not unmap the page below the break themselves.
HeapEndsAtBreak ==
  \A p \in Procs :
    Runs(p) => /\ mapped(map[p], PageAfter(p_brk[p]) - 1)
               /\ Area(p, PageAfter(p_brk[p]) - 1).end = PageAfter(p_brk[p])

\* No KASSERT of the memory objects and page frames fails, and do_brk always finds
\* the area it extends.
NoPanic == ~m.panic

\* The areas of every vmmap stay in order, inside user memory and apart, and on
\* every map that vmmap_find_range is called on it finds "a gap as high in the
\* address space as possible".
MapsInOrder ==
  \A p \in Procs :
    /\ Sorted(map[p])
    /\ map[p] # << >> =>
         \A n \in 1..HIGH - LOW : vmmap_find_range(map[p], n) = HighestGap(map[p], n)

\* mmo_refcount counts exactly the areas, the shadow objects and the resident pages
\* that refer to an object (and the opener of a file), so that vmmap_remove, fork,
\* exit and put free an object when, and only when, nobody can reach it.
RefcountsExact ==
  \A o \in Objs :
    m.refcount[o] =
      Cardinality({<<p, i>> \in Procs \X (1..HIGH) : i \in DOMAIN map[p] /\ map[p][i].obj = o})
      + Cardinality({q \in Objs : m.shadowed[q] = o})
      + nrespages(m, o)
      + IF o \in Files THEN 1 ELSE 0

\* shadow_fillpage may take the shortcut mmo_bottom_obj: it is the object at which
\* "the chain of shadow objects all the way to the bottom" ends.
BottomIsLast ==
  \A o \in Objs : m.ops[o] = "shadow" => m.bottom[o] = Last(Chain(m, o))

\* A page table entry never shows a page that the map does not: the area is there
\* and permits the access, and the frame is the one a page fault would find now.
\* After munmap, brk, fork, exit or a store by anyone no stale entry is left.
PageTablesFresh ==
  \A p \in Procs, v \in UserPages :
    pt[p][v] # NULL =>
      LET e == pt[p][v]
          n == PageNum(Area(p, v), v)
      IN  /\ mapped(map[p], v)
          /\ e.num = n
          /\ Holders(m, Chain(m, Area(p, v).obj), n) # << >>
          /\ e.obj = Head(Holders(m, Chain(m, Area(p, v).obj), n))
          /\ e.write => Permits(p, v, "PROT_WRITE") /\ e.obj = Area(p, v).obj

\* "Make sure a future write to the page will fault (and hence dirty it)": a page
\* that some process can store to without a fault is dirty, and a page of a file
\* that is not dirty is what the disk holds, so that sync loses no store.
NoStoreLost ==
  /\ \A p \in Procs, v \in UserPages :
       pt[p][v] # NULL /\ pt[p][v].write => m.respages[pt[p][v].obj][pt[p][v].num].dirty
  /\ \A f \in Files : \A n \in DOMAIN m.respages[f] :
       m.respages[f][n].dirty \/ m.respages[f][n].val = m.disk[f][n]

\* What a load finds through the page table is what the map and the memory objects
\* say the page holds: "copy_to_user and copy_from_user are used to copy to and from
\* the user space of the current process".
LoadsSeeMemory ==
  \A p \in Procs, v \in UserPages :
    pt[p][v] # NULL =>
      LET r == lookup_read(m, Area(p, v).obj, pt[p][v].num)
      IN  m.respages[pt[p][v].obj][pt[p][v].num].val = r.m.respages[r.obj][pt[p][v].num].val

\* "If MAP_PRIVATE is specified set up a shadow object for the mmobj": a shared area
\* shows its file or anonymous object itself, so that its stores are seen by others.
SharedNotShadowed ==
  \A p \in Procs : \A i \in DOMAIN map[p] :
    map[p][i].shared => m.ops[map[p][i].obj] # "shadow"

\* "this function "returns" the new break through the "ret" argument": a successful
\* brk sets the break to the address that was asked for.
BreakIsAsked == p_brk = asked
=============================================================================
