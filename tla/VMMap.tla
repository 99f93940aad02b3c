-------------------------------- MODULE VMMap --------------------------------
(***************************************************************************)
(* Address spaces: K3/vmmap.c.                                             *)
(*                                                                         *)
(* A vmmap is the sequence of its vmareas in list order.  An area covers   *)
(* the pages vma_start .. vma_end - 1 and shows page vma_off of its object *)
(* at vma_start.  Functions that change a map and the memory objects take  *)
(* and return a record s with the fields map and m.                        *)
(***************************************************************************)
EXTENDS MMObj

CONSTANTS
  LOW, HIGH   \* ADDR_TO_PN(USER_MEM_LOW) and ADDR_TO_PN(USER_MEM_HIGH)

ASSUME UserMemory == LOW \in Nat \ {0} /\ HIGH \in Nat /\ LOW < HIGH

UserPages == LOW..HIGH - 1

Covers(area, vfn) == vfn >= area.start /\ vfn < area.end

\* The page of the area's object that the area shows at vfn.
PageNum(area, vfn) == vfn - area.start + area.off

-----------------------------------------------------------------------------
\* vmmap_lookup: the place in the list of the first area that covers the page;
\* 0 when no area does.
vmmap_lookup(map, vfn) == SelectInSeq(map, LAMBDA a : Covers(a, vfn))

mapped(map, vfn) == vmmap_lookup(map, vfn) # 0

vmmap_is_range_empty(map, lo, npages) ==
  \A i \in DOMAIN map : map[i].end <= lo \/ lo + npages <= map[i].start

\* Before the first area that does not start below the new one.
vmmap_insert(map, area) ==
  LET Below(a) == a.start < area.start
  IN  SelectSeq(map, Below) \o << area >> \o SelectSeq(map, LAMBDA a : ~Below(a))

\* Mutant: a gap is taken although it is one page too small.
vmmap_find_range_tight(map, npages) ==
  LET gap(i) == IF i = Len(map) THEN HIGH - map[i].end ELSE map[i + 1].start - map[i].end
      top(i) == IF i = Len(map) THEN HIGH ELSE map[i + 1].start
      fits   == {i \in 1..Len(map) : npages <= gap(i) + 1}
  IN  IF fits # {} THEN top(Max(fits)) - npages ELSE -1

\* VMMAP_DIR_HILO, the direction do_mmap asks for, on a map that is not empty:
\* the gap above each area from the last one down, then the one below the first.
vmmap_find_range(map, npages) ==
  LET top(i) == IF i = Len(map) THEN HIGH ELSE map[i + 1].start
      fits   == {i \in 1..Len(map) : npages <= top(i) - map[i].end}
  IN  IF fits # {} THEN top(Max(fits)) - npages
      ELSE IF npages <= map[1].start - LOW THEN map[1].start - npages
      ELSE -1

-----------------------------------------------------------------------------
(* vmmap_remove of the pages lo .. hi - 1, area by area.                   *)

\* Case 3: vma_start and vma_off move together.
MoveStart(a, hi) == [a EXCEPT !.start = hi, !.off = @ + hi - a.start]

\* Mutant: the second half takes no reference to the object.
Split_no_ref(s, a, lo, hi) ==
  LET first == Fresh(s.m)
      m1    == shadow_create(s.m, a.obj, first)
  IN  [map |-> s.map \o << [a EXCEPT !.end = lo, !.obj = first],
                           [MoveStart(a, hi) EXCEPT !.obj = Fresh(m1)] >>,
       m   |-> shadow_create(m1, a.obj, first)]

\* The area is cut in two; each half gets a shadow object of its own, whose
\* mmo_bottom_obj is computed from the first of the two before that one is linked.
Split(s, a, lo, hi) ==
  LET first == Fresh(s.m)
      m1    == shadow_create(s.m, a.obj, first)
      m2    == ref(shadow_create(m1, a.obj, first), a.obj)
  IN  [map |-> s.map \o << [a EXCEPT !.end = lo, !.obj = first],
                           [MoveStart(a, hi) EXCEPT !.obj = Fresh(m1)] >>,
       m   |-> m2]

\* Mutant: the reference to the object of a removed area is kept.
DropArea_keeps_ref(s, a) == s

DropArea(s, a) == [s EXCEPT !.m = put(@, a.obj)]

\* The four cases of the comment above vmmap_remove, and the areas outside.
RemoveArea(s, a, lo, hi) ==
  LET keep(b) == [s EXCEPT !.map = Append(@, b)]
  IN  CASE lo > a.start /\ hi < a.end                  -> Split(s, a, lo, hi)
        [] lo > a.start /\ lo < a.end /\ hi >= a.end   -> keep([a EXCEPT !.end = lo])
        [] lo <= a.start /\ hi > a.start /\ hi < a.end -> keep(MoveStart(a, hi))
        [] lo <= a.start /\ hi >= a.end                -> DropArea(s, a)
        [] OTHER                                       -> keep(a)

vmmap_remove(s, lo, npages) ==
  FoldLeft(LAMBDA acc, a : RemoveArea(acc, a, lo, lo + npages),
           [s EXCEPT !.map = << >>], s.map)

\* vmmap_destroy: every area's object is put.
vmmap_destroy(s) == [map |-> << >>, m |-> FoldLeft(LAMBDA m, a : put(m, a.obj), s.m, s.map)]

-----------------------------------------------------------------------------
(* vmmap_map.  file is NULL for an anonymous mapping.  The result has the  *)
(* first page of the new area in the field ret, -1 when there is no room.  *)

\* The object of the new area: the file's (its mmap operation takes a reference)
\* or a new anonymous one, below a shadow object when the mapping is private.
MapObject(m, file, shared) ==
  LET base == IF file = NULL THEN Fresh(m) ELSE file
      m1   == IF file = NULL THEN anon_create(m) ELSE ref(m, file)
  IN  IF shared
      THEN [m |-> m1, obj |-> base]
      ELSE [m |-> shadow_create(m1, base, base), obj |-> Fresh(m1)]

vmmap_map(s, file, lopage, npages, prot, shared, off) ==
  LET lo   == IF lopage # 0 THEN lopage ELSE vmmap_find_range(s.map, npages)
      room == IF lopage # 0 /\ ~vmmap_is_range_empty(s.map, lopage, npages)
              THEN vmmap_remove(s, lopage, npages) ELSE s
      new  == MapObject(room.m, file, shared)
      area == [start |-> lo, end |-> lo + npages, off |-> off,
               prot |-> prot, shared |-> shared, obj |-> new.obj]
  IN  IF lo = -1
      THEN [map |-> s.map, m |-> s.m, ret |-> -1]
      ELSE [map |-> vmmap_insert(room.map, area), m |-> new.m, ret |-> lo]

-----------------------------------------------------------------------------
(* What the map stands for.                                                *)

\* The areas are in order, not empty, inside user memory, and do not overlap.
Sorted(map) ==
  /\ \A i \in DOMAIN map : LOW <= map[i].start /\ map[i].start < map[i].end /\ map[i].end <= HIGH
  /\ \A i \in 1..Len(map) - 1 : map[i].end <= map[i + 1].start

\* "a gap as high in the address space as possible", or -1.
HighestGap(map, npages) ==
  LET starts == {v \in LOW..HIGH - npages : \A w \in v..v + npages - 1 : ~mapped(map, w)}
  IN  IF starts = {} THEN -1 ELSE Max(starts)
=============================================================================
