-------------------------------- MODULE MMObj --------------------------------
(***************************************************************************)
(* Memory objects and their resident pages: K3/anon.c, K3/shadow.c and the *)
(* page frame functions of K3/pframe.c they call.                          *)
(*                                                                         *)
(* A memory system is a record m with, for every object,                   *)
(*   ops        which kind of object it is                                 *)
(*   refcount   mmo_refcount                                               *)
(*   shadowed   mmo_shadowed                                               *)
(*   bottom     mmo_un.mmo_bottom_obj                                      *)
(*   respages   the resident pages: value, dirty bit and pin count         *)
(* and the contents of the files (disk) and whether a KASSERT has failed   *)
(* (panic).  Functions that return a page frame return the object that     *)
(* holds it.  An operation is one step, although filling or cleaning a     *)
(* page of a file can block.  g is what a page frame holds before it is    *)
(* filled.                                                                 *)
(***************************************************************************)
EXTENDS Integers, Sequences, SequencesExt, FiniteSets, TLC

CONSTANTS
  Files,      \* the objects of files (the vn_mmobj of their vnodes)
  NumObjs,    \* bound: how many anonymous and shadow objects can be allocated
  PageNums,   \* the page numbers within an object
  Values,     \* the contents of a page
  NULL

ASSUME MMObjConstants ==
  /\ NumObjs \in Nat
  /\ PageNums \subseteq Nat
  /\ 0 \in Values
  /\ Files \cap (1..NumObjs) = {}

Objs == Files \cup 1..NumObjs

KASSERT(m, cond) == [m EXCEPT !.panic = @ \/ ~cond]

nrespages(m, o) == Cardinality(DOMAIN m.respages[o])

resident(m, o, n) == n \in DOMAIN m.respages[o]

FreeObjs(m) == {o \in Objs : m.ops[o] = "free"}

\* Every file starts with one reference, from whoever has it open.
NoObjects(disk) ==
  [ops      |-> [o \in Objs |-> IF o \in Files THEN "file" ELSE "free"],
   refcount |-> [o \in Objs |-> IF o \in Files THEN 1 ELSE 0],
   shadowed |-> [o \in Objs |-> NULL],
   bottom   |-> [o \in Objs |-> NULL],
   respages |-> [o \in Objs |-> << >>],
   disk     |-> disk,
   panic    |-> FALSE]

-----------------------------------------------------------------------------
(* Creating objects, and the references to them.                           *)

\* slab_obj_alloc.
Fresh(m) == CHOOSE o \in FreeObjs(m) : \A q \in FreeObjs(m) : o <= q

anon_create(m) == [m EXCEPT !.ops[Fresh(m)] = "anon", !.refcount[Fresh(m)] = 1]

\* shadow_create followed by the caller's assignments of mmo_shadowed and
\* mmo_bottom_obj.
shadow_create(m, below, bot) ==
  LET o == Fresh(m)
  IN  [m EXCEPT !.ops[o] = "shadow",
                !.refcount[o] = 1,
                !.shadowed[o] = below,
                !.bottom[o] = bot]

ref(m, o) == [KASSERT(m, 0 < m.refcount[o]) EXCEPT !.refcount[o] = @ + 1]

\* The loop of anon_put and shadow_put over the resident pages: the assertions of
\* pframe_unpin, pframe_clean and pframe_free on each of them.
CanUncache(m, o) ==
  \A n \in DOMAIN m.respages[o] :
    LET page == m.respages[o][n]
    IN  IF m.ops[o] = "shadow" THEN page.pin = 1 /\ page.dirty ELSE page.pin = 0

\* anon_put and shadow_put; vput for a file, which stays open.  When only the
\* resident pages refer to the object, they and the object go.
RECURSIVE put(_, _)
put(m, o) ==
  LET a == KASSERT(m, 0 < m.refcount[o])
  IN  IF m.ops[o] = "file" \/ m.refcount[o] # nrespages(m, o) + 1
      THEN [a EXCEPT !.refcount[o] = @ - 1]
      ELSE LET gone == [KASSERT(a, CanUncache(m, o)) EXCEPT
                          !.ops[o] = "free", !.refcount[o] = 0, !.shadowed[o] = NULL,
                          !.bottom[o] = NULL, !.respages[o] = << >>]
           IN  IF m.ops[o] = "shadow" THEN put(gone, m.shadowed[o]) ELSE gone

-----------------------------------------------------------------------------
(* Looking pages up.                                                       *)

\* o, the object it shadows, and so on to the last one.
RECURSIVE Chain(_, _)
Chain(m, o) ==
  IF m.shadowed[o] = NULL THEN << o >> ELSE << o >> \o Chain(m, m.shadowed[o])

\* The objects of the sequence s that have page n resident.
Holders(m, s, n) == SelectSeq(s, LAMBDA o : resident(m, o, n))

\* pframe_alloc, with the new page as it is when it has been filled.
pframe_alloc(m, o, n, page) ==
  [ref(m, o) EXCEPT !.respages[o] = (n :> page) @@ @]

\* pframe_get on an anonymous object (anon_fillpage) or a file.
get_bottom(m, o, n) ==
  IF resident(m, o, n)
  THEN m
  ELSE pframe_alloc(m, o, n, [val   |-> IF m.ops[o] = "file" THEN m.disk[o][n] ELSE 0,
                              dirty |-> FALSE,
                              pin   |-> 0])

\* pframe_lookup with forwrite = 0: the first object of the chain with the page
\* resident, or the last object, into which the page is brought.
lookup_read(m, o, n) ==
  LET chain == Chain(m, o)
      found == Holders(m, Front(chain), n)
  IN  IF found # << >>
      THEN [m |-> m, obj |-> Head(found)]
      ELSE [m |-> get_bottom(m, Last(chain), n), obj |-> Last(chain)]

\* shadow_fillpage: the page (o, n) is resident and holds g.
shadow_fillpage(m, o, n) ==
  LET found == Holders(m, Tail(Chain(m, o)), n)
      src   == IF found # << >> THEN [m |-> m, obj |-> Head(found)]
               ELSE lookup_read(m, m.bottom[o], n)
      val   == src.m.respages[src.obj][n].val
  IN  [src.m EXCEPT !.respages[o][n].val = val, !.respages[o][n].pin = @ + 1]

\* Mutant: the new page of a shadow object is not marked dirty.
lookup_write_clean(m, o, n, g) ==
  IF m.ops[o] # "shadow" THEN get_bottom(m, o, n)
  ELSE IF resident(m, o, n) THEN m
  ELSE shadow_fillpage(pframe_alloc(m, o, n, [val |-> g, dirty |-> FALSE, pin |-> 0]), o, n)

\* pframe_lookup with forwrite = 1.
lookup_write(m, o, n, g) ==
  IF m.ops[o] # "shadow" THEN get_bottom(m, o, n)
  ELSE IF resident(m, o, n) THEN m
  ELSE [shadow_fillpage(pframe_alloc(m, o, n, [val |-> g, dirty |-> FALSE, pin |-> 0]), o, n)
          EXCEPT !.respages[o][n].dirty = TRUE]

\* pframe_dirty: each kind of object marks the page dirty.
pframe_dirty(m, o, n) == [m EXCEPT !.respages[o][n].dirty = TRUE]

\* A page that sync(2) writes back: on alloc_list, that is not pinned, and dirty.
CanClean(m, o, n) ==
  resident(m, o, n) /\ m.respages[o][n].pin = 0 /\ m.respages[o][n].dirty

\* pframe_clean, without the page tables.
pframe_clean(m, o, n) ==
  [m EXCEPT !.respages[o][n].dirty = FALSE,
            !.disk = IF o \in Files THEN [@ EXCEPT ![o][n] = m.respages[o][n].val] ELSE @]
=============================================================================
