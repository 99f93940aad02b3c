------------------------------ MODULE MCSyscall ------------------------------
(***************************************************************************)
(* An instance of Syscall for TLC: pages of four bytes, page 1 readable    *)
(* and writable, page 2 read-only, page 3 writable only, page 4 without an *)
(* area.                                                                   *)
(***************************************************************************)
EXTENDS Syscall, TLC

SmallProt == 1 :> {"READ", "WRITE"} @@ 2 :> {"READ"} @@ 3 :> {"WRITE"}

AllBuffers == (4..19) \X (0..4)

OnePage(b) == b[2] > 0 /\ ADDR_TO_PN(b[1]) = ADDR_TO_PN(b[1] + b[2] - 1)

PageBuffers == {b \in AllBuffers : OnePage(b)}

\* read: buffers that stay in one page, which has an area or which they begin (at the end
\* of the file nothing is copied, and a page without an area is looked up all the same).
BackBuffers ==
  {b \in PageBuffers : ADDR_TO_PN(b[1]) \in DOMAIN Prot \/ PAGE_OFFSET(b[1]) = 0}

\* write: buffers that stay in one page and do not end with it, unless the next page has an
\* area, and buffers that end inside the next page with both pages readable.
FrontBuffers ==
  {b \in PageBuffers : ADDR_TO_PN(b[1] + b[2]) \in DOMAIN Prot \cup {ADDR_TO_PN(b[1])}}
  \cup {b \in AllBuffers : b[1] \in 5..7 /\ b[1] + b[2] \in 9..11}
=============================================================================
