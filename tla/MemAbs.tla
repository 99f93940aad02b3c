------------------------------- MODULE MemAbs --------------------------------
(***************************************************************************)
(* What the virtual memory system promises to processes.  A mapped page    *)
(* shows a page of a file or of anonymous memory (its source).  A shared   *)
(* page always shows its source.  A private page shows its source until    *)
(* the process has contents of its own there; from then on, nobody else's  *)
(* stores are seen in it and its stores are seen by nobody else.  Fork     *)
(* gives the child what the parent sees at that moment.  There are no      *)
(* shadow objects, areas, reference counts or page frames here.            *)
(***************************************************************************)
CONSTANTS Procs, Pages, Sources, FileSources, Values, NULL

VARIABLES
  entry,   \* entry[p][v]: what p has mapped at page v, or NULL
  store    \* store[s]: the contents of source s

vars == <<entry, store>>

Entries == [src : Sources, shared : BOOLEAN, own : Values \cup {NULL}]

Mapped(p) == {v \in Pages : entry[p][v] # NULL}

InUse == UNION {{entry[p][v].src : v \in Mapped(p)} : p \in Procs} \cup FileSources

View(e) == IF e.own # NULL THEN e.own ELSE store[e.src]

\* Sources that are in use before and after a step keep their contents, and a
\* source that comes into use is zero.
Keeps ==
  LET before == InUse
  IN  \A s \in InUse' : store'[s] = IF s \in before THEN store[s] ELSE 0

Init ==
  /\ entry \in [Procs -> [Pages -> Entries \cup {NULL}]]
  /\ \A p \in Procs, v \in Pages : entry[p][v] # NULL => entry[p][v].own = NULL
  /\ store \in [Sources -> Values]

\* Nothing changes but the pages P of process p.
Only(p, P) ==
  \A q \in Procs, v \in Pages : (q = p /\ v \in P) \/ entry'[q][v] = entry[q][v]

\* Pages are unmapped or get new contents from their source.
Remap(p) ==
  LET P == {v \in Pages : entry'[p][v] # entry[p][v]}
  IN  /\ Only(p, P)
      /\ \A v \in P : entry'[p][v] # NULL => entry'[p][v].own = NULL
      /\ Keeps

\* The break grows over pages that were not mapped; what they show is not said.
Extend(p) ==
  LET P == Mapped(p)' \ Mapped(p)
  IN  /\ Only(p, P)
      /\ UNCHANGED store

Write(p, v, x) ==
  /\ entry[p][v] # NULL
  /\ IF entry[p][v].shared
     THEN /\ Only(p, {})
          /\ store' = [store EXCEPT ![entry[p][v].src] = x]
     ELSE /\ Only(p, {v})
          /\ entry'[p][v] = [entry[p][v] EXCEPT !.own = x]
          /\ UNCHANGED store

\* A private page stops following its source.
Detach(p, v) ==
  /\ entry[p][v] # NULL /\ ~entry[p][v].shared
  /\ Only(p, {v})
  /\ entry'[p][v] = [entry[p][v] EXCEPT !.own = View(entry[p][v])]
  /\ UNCHANGED store

Fork(p, c) ==
  /\ Mapped(c) = {}
  /\ Only(c, Pages)
  /\ entry'[c] = entry[p]
  /\ UNCHANGED store

Exit(p) ==
  /\ Only(p, Pages)
  /\ Mapped(p)' = {}
  /\ Keeps

Next ==
  \/ \E p \in Procs : Remap(p) \/ Extend(p) \/ Exit(p)
  \/ \E p \in Procs, v \in Pages : Detach(p, v) \/ \E x \in Values : Write(p, v, x)
  \/ \E p, c \in Procs : Fork(p, c)

Spec == Init /\ [][Next]_vars
=============================================================================
