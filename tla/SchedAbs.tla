------------------------------ MODULE SchedAbs -------------------------------
(***************************************************************************)
(* What the scheduler promises to the rest of the kernel: at most one      *)
(* thread runs, it runs until it gives up the CPU, and choosing the next   *)
(* one is a single step that takes the first runnable thread.  There are   *)
(* no interrupt levels, no loop and no halt here; Sched implements this   *)
(* specification, and the modules of the kernel's other components use it  *)
(* as their picture of sched_switch.                                       *)
(***************************************************************************)
EXTENDS Sequences, SequencesExt

CONSTANTS Threads, WaitQueues, NULL

VARIABLES
  running,   \* the running thread, or NULL between two threads
  ready,     \* the runnable threads, in the order in which they will run
  waiting    \* the sleeping threads of each queue, in the order of their wakeups

vars == <<running, ready, waiting>>

Ready == ToSet(ready)
Asleep(q) == ToSet(waiting[q])

Init ==
  /\ running \in Threads
  /\ ready = << >>
  /\ waiting = [q \in WaitQueues |-> << >>]

Sleep(q) ==
  /\ running # NULL
  /\ waiting' = [waiting EXCEPT ![q] = Append(@, running)]
  /\ running' = NULL
  /\ UNCHANGED ready

Yield ==
  /\ running # NULL
  /\ ready' = Append(ready, running)
  /\ running' = NULL
  /\ UNCHANGED waiting

Exit ==
  /\ running # NULL
  /\ running' = NULL
  /\ UNCHANGED <<ready, waiting>>

Start(t) ==
  /\ running # NULL /\ t # running
  /\ t \notin Ready
  /\ \A q \in WaitQueues : t \notin Asleep(q)
  /\ ready' = Append(ready, t)
  /\ UNCHANGED <<running, waiting>>

\* Wake the first n sleepers of q.
Wake(q, n) ==
  /\ ready' = ready \o SubSeq(waiting[q], 1, n)
  /\ waiting' = [waiting EXCEPT ![q] = SubSeq(@, n + 1, Len(@))]
  /\ UNCHANGED running

\* Wake one sleeper out of turn, because it was cancelled.
Interrupt(q, t) ==
  /\ t \in Asleep(q)
  /\ waiting' = [waiting EXCEPT ![q] = RemoveFirst(@, t)]
  /\ ready' = Append(ready, t)
  /\ UNCHANGED running

\* A thread that was woken while it was being cancelled goes to the back.
Requeue(t) ==
  /\ t \in Ready
  /\ ready' = Append(RemoveFirst(ready, t), t)
  /\ UNCHANGED <<running, waiting>>

Dispatch ==
  /\ running = NULL /\ ready # << >>
  /\ running' = Head(ready)
  /\ ready' = Tail(ready)
  /\ UNCHANGED waiting

Next ==
  \/ \E q \in WaitQueues : Sleep(q)
  \/ Yield
  \/ Exit
  \/ \E t \in Threads : Start(t) \/ Requeue(t)
  \/ \E q \in WaitQueues : \E n \in 1..Len(waiting[q]) : Wake(q, n)
  \/ \E q \in WaitQueues, t \in Threads : Interrupt(q, t)
  \/ Dispatch

Safety == Init /\ [][Next]_vars

\* Someone runs whenever someone can.
Spec == Safety /\ WF_vars(Dispatch)
=============================================================================
