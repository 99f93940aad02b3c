------------------------------- MODULE UserMem -------------------------------
(***************************************************************************)
(* The kernel's access to the memory of a process: addr_perm, range_perm,  *)
(* copy_from_user and copy_to_user of K3/access.c, vmmap_read and          *)
(* vmmap_write of K3/vmmap.c, byte by byte.                                *)
(*                                                                         *)
(* mem maps addresses to bytes.  A buffer in the kernel is a sequence.  A  *)
(* result has ret, 0 or the error, what was copied, and whether the code   *)
(* used the area of a page that has none (fault).                          *)
(***************************************************************************)
EXTENDS Integers, Sequences, SequencesExt

CONSTANTS
  PAGE_SIZE,
  Prot      \* Prot[pn]: the vma_prot of the area page pn is in; other pages have no area

ASSUME UserMemConstants ==
  /\ PAGE_SIZE \in Nat \ {0}
  /\ DOMAIN Prot \subseteq Nat
  /\ \A pn \in DOMAIN Prot : Prot[pn] \subseteq {"READ", "WRITE", "EXEC"}

ADDR_TO_PN(a) == a \div PAGE_SIZE
PAGE_OFFSET(a) == a % PAGE_SIZE

-----------------------------------------------------------------------------
(* Permissions.                                                            *)

\* One of the permissions asked for is enough.
addr_perm(a, perm) ==
  ADDR_TO_PN(a) \in DOMAIN Prot /\ perm \cap Prot[ADDR_TO_PN(a)] # {}

\* Mutant: the range is taken to be one byte shorter.
range_perm_short(a, len, perm) ==
  \A i \in 0..len : a + i * PAGE_SIZE < a + len - 1 => addr_perm(a + i * PAGE_SIZE, perm)

\* The addresses a, a + PAGE_SIZE, ... of the range.
range_perm(a, len, perm) ==
  \A i \in 0..len : a + i * PAGE_SIZE < a + len => addr_perm(a + i * PAGE_SIZE, perm)

-----------------------------------------------------------------------------
(* Copying.                                                                *)

Bytes(mem, a, n) == [i \in 1..n |-> mem[a + i - 1]]

Put(mem, a, buf) ==
  [x \in DOMAIN mem |-> IF x \in a .. a + Len(buf) - 1 THEN buf[x - a + 1] ELSE mem[x]]

Unmapped(pages) == pages \ DOMAIN Prot # {}

\* The page after the range is looked up too when the range ends with its page.  From
\* the second page on, as many bytes of each page are copied as the last one has.
vmmap_read(mem, a, n) ==
  LET first == ADDR_TO_PN(a)
      last  == ADDR_TO_PN(a + n)
      more  == [i \in 1 .. last - first |->
                  Bytes(mem, (first + i) * PAGE_SIZE, PAGE_OFFSET(a + n))]
  IN  IF Unmapped(first..last) THEN [ret |-> "0", buf |-> << >>, fault |-> TRUE]
      ELSE [ret   |-> "0",
            buf   |-> IF first = last THEN Bytes(mem, a, n)
                      ELSE Bytes(mem, a, PAGE_SIZE - PAGE_OFFSET(a)) \o FlattenSeq(more),
            fault |-> FALSE]

\* Mutant: the copy starts at the beginning of the page.
vmmap_write_unaligned(mem, a, buf) ==
  [ret |-> "0", mem |-> Put(mem, ADDR_TO_PN(a) * PAGE_SIZE, buf), fault |-> FALSE]

\* As in vmmap_read, but the pages after the first get one byte less.
vmmap_write(mem, a, buf) ==
  LET first == ADDR_TO_PN(a)
      end   == a - 1 + Len(buf)
      last  == ADDR_TO_PN(end)
      head  == PAGE_SIZE - PAGE_OFFSET(a)
      len   == PAGE_OFFSET(end)
      NextPage(m, i) ==
        Put(m, (first + i) * PAGE_SIZE, SubSeq(buf, head + (i - 1) * len + 1, head + i * len))
  IN  IF Unmapped(first..last) THEN [ret |-> "0", mem |-> mem, fault |-> TRUE]
      ELSE [ret   |-> "0",
            mem   |-> IF first >= last THEN Put(mem, a, buf)
                      ELSE FoldLeft(NextPage, Put(mem, a, SubSeq(buf, 1, head)),
                                    [i \in 1 .. last - first |-> i]),
            fault |-> FALSE]

copy_from_user(mem, a, n) ==
  IF range_perm(a, n, {"READ"}) THEN vmmap_read(mem, a, n)
  ELSE [ret |-> "EFAULT", buf |-> << >>, fault |-> FALSE]

copy_to_user(mem, a, buf) ==
  IF range_perm(a, Len(buf), {"WRITE"}) THEN vmmap_write(mem, a, buf)
  ELSE [ret |-> "EFAULT", mem |-> mem, fault |-> FALSE]
=============================================================================
