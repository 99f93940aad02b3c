------------------------ MODULE AddrSpaceRefinement -------------------------
(***************************************************************************)
(* AddrSpace implements MemAbs.  The variables entry and store hold the    *)
(* refinement mapping: in every state they are computed from the memory     *)
(* objects and the maps, and they decide nothing.                          *)
(***************************************************************************)
EXTENDS AddrSpace

VARIABLES entry, store

\* What p sees at page v: its area's object and page number at the end of the chain
\* of shadow objects, and the copy in the first shadow object that has the page.
AbsEntry(p, v) ==
  LET area  == Area(p, v)
      chain == Chain(m, area.obj)
      n     == PageNum(area, v)
      found == Holders(m, Front(chain), n)
  IN  IF ~mapped(map[p], v) THEN NULL
      ELSE [src    |-> <<Last(chain), n>>,
            shared |-> area.shared,
            own    |-> IF found = << >> THEN NULL ELSE m.respages[Head(found)][n].val]

\* The contents of a page of a file or of an anonymous object.
AbsStore(o, n) ==
  IF m.ops[o] # "shadow" /\ resident(m, o, n) THEN m.respages[o][n].val
  ELSE IF o \in Files THEN m.disk[o][n] ELSE 0

Entries == [p \in Procs |-> [v \in UserPages |-> AbsEntry(p, v)]]

Stored == [s \in Objs \X PageNums |-> AbsStore(s[1], s[2])]

MappedInit == Init /\ entry = Entries /\ store = Stored

MappedNext == Next /\ entry' = Entries' /\ store' = Stored'

MappedSpec == MappedInit /\ [][MappedNext]_<<vars, entry, store>>

Abs == INSTANCE MemAbs WITH
  Pages <- UserPages, Sources <- Objs \X PageNums, FileSources <- Files \X PageNums

\* Shadow objects, shared page frames and reference counts together give every
\* process the memory of MemAbs: a store to a private page is seen by nobody else,
\* a store to a shared page by everybody, and fork copies what the parent sees.
ImplementsMemAbs == Abs!Spec
=============================================================================
