--------------------------- MODULE SchedRefinement ---------------------------
(***************************************************************************)
(* Sched implements SchedAbs: between two threads nobody runs, and the     *)
(* loop of sched_switch is invisible until its dequeue.                    *)
(***************************************************************************)
EXTENDS Sched

Abs == INSTANCE SchedAbs
         WITH running <- IF Executing THEN curthr ELSE NULL,
              ready   <- k.tq[RunQ],
              waiting <- [q \in WaitQueues |-> k.tq[q]]

\* sched_switch with interrupts at every point implements an atomic choice of the
\* first runnable thread, and makes it whenever there is one (given a timer).
ImplementsSchedAbs == Abs!Spec
=============================================================================
