---------------------------- MODULE MCAddrSpace -----------------------------
(* Small instances of AddrSpace.                                           *)
EXTENDS AddrSpace

CONSTANTS p1, p2, f1

ReadWrite == {"PROT_READ", "PROT_WRITE"}

OneProc == {p1}
TwoProcs == {p1, p2}

OneFile == {f1}

\* Anonymous memory starts with 0, the file with another value if there is one.
MCDisk == [f \in Files |-> [n \in PageNums |-> Max(Values)]]

Request(file, lo, n, prot, shared, off) ==
  [file |-> file, lo |-> lo, n |-> n, prot |-> prot, shared |-> shared, off |-> off]

\* Page 2 is mapped to the first page of the file, shared or private.
FileRequests == {Request(f1, 2, 1, ReadWrite, shared, 0) : shared \in BOOLEAN}

\* A read-only page of the file and an anonymous page shared between processes.
SharedRequests == {Request(f1, 3, 1, {"PROT_READ"}, TRUE, 0),
                   Request(NULL, 3, 1, ReadWrite, TRUE, 0)}

\* Areas at a fixed place and where there is room, shared and private.
LayoutRequests == {Request(f1, 3, 3, ReadWrite, TRUE, 0), Request(f1, 0, 3, ReadWrite, FALSE, 1),
                   Request(f1, 0, 1, ReadWrite, TRUE, 2)}

NoUnmaps == {}
SharedUnmaps == {<<3, 1>>}
AllUnmaps == {<<lo, n>> \in UserPages \X (1..HIGH - LOW) : lo + n <= HIGH}
=============================================================================
