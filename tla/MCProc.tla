------------------------------- MODULE MCProc --------------------------------
(* Proc for small sets of process objects.                                 *)
EXTENDS Proc

CONSTANTS idle, p1, p2, p3, p4

FourProcs == {idle, p1, p2, p3}
QueuesOfFour == FourProcs \cup {TtyQ}

FiveProcs == FourProcs \cup {p4}
QueuesOfFive == FiveProcs \cup {TtyQ}
=============================================================================
