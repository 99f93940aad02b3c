------------------------------- MODULE KTQueue -------------------------------
(***************************************************************************)
(* The thread queues of K1/sched.c and K1/sched_helper.c.                  *)
(*                                                                         *)
(* A thread system is a record k with the fields of every kthread_t and    *)
(* ktqueue_t that the scheduler touches:                                   *)
(*   kt_state, kt_wchan, kt_cancelled   the fields of each thread          *)
(*   tq                                 the threads linked on each queue,  *)
(*                                      the next one to be dequeued first  *)
(*   panic                              a KASSERT has failed               *)
(* Each C function is an operator from thread systems to thread systems,   *)
(* so that a caller composes them in the order of its statements.  The     *)
(* field tq_size is always Len(tq[q]) and is left out.                     *)
(***************************************************************************)
EXTENDS Integers, Sequences, SequencesExt

CONSTANTS
  Threads,      \* the kthread_t objects
  WaitQueues,   \* every ktqueue_t except the run queue
  RunQ,         \* kt_runq
  NULL          \* the null pointer

ASSUME QueueNames ==
  /\ RunQ \notin WaitQueues
  /\ NULL \notin WaitQueues
  /\ NULL # RunQ
  /\ NULL \notin Threads

Queues == WaitQueues \cup {RunQ}

Sleeping == {"KT_SLEEP", "KT_SLEEP_CANCELLABLE"}

ThreadStates == {"KT_NO_STATE", "KT_RUN", "KT_EXITED"} \cup Sleeping

ThreadSystems ==
  [kt_state     : [Threads -> ThreadStates],
   kt_wchan     : [Threads -> Queues \cup {NULL}],
   kt_cancelled : [Threads -> BOOLEAN],
   tq           : [Queues -> Seq(Threads)],
   panic        : BOOLEAN]

\* No thread exists and every queue is empty (sched_queue_init).
EmptySystem ==
  [kt_state     |-> [t \in Threads |-> "KT_NO_STATE"],
   kt_wchan     |-> [t \in Threads |-> NULL],
   kt_cancelled |-> [t \in Threads |-> FALSE],
   tq           |-> [q \in Queues |-> << >>],
   panic        |-> FALSE]

KASSERT(k, cond) == [k EXCEPT !.panic = @ \/ ~cond]

sched_queue_empty(k, q) == k.tq[q] = << >>

-----------------------------------------------------------------------------
(* Queue manipulation.  The C list grows at its head and is dequeued at    *)
(* its tail: first in, first out.                                          *)

\* Mutant: the thread does not know its queue.
ktqueue_enqueue_no_wchan(k, q, t) ==
  [KASSERT(k, k.kt_wchan[t] = NULL) EXCEPT !.tq[q] = Append(@, t)]

ktqueue_enqueue(k, q, t) ==
  [KASSERT(k, k.kt_wchan[t] = NULL) EXCEPT
     !.tq[q] = Append(@, t),
     !.kt_wchan[t] = q]

\* Only called on a queue that is not empty; the thread it returns is Head(k.tq[q]).
ktqueue_dequeue(k, q) ==
  [k EXCEPT !.kt_wchan[Head(k.tq[q])] = NULL,
            !.tq[q] = Tail(@)]

ktqueue_remove(k, q, t) ==
  [KASSERT(k, Contains(k.tq[q], t)) EXCEPT
     !.tq[q] = RemoveFirst(@, t),
     !.kt_wchan[t] = NULL]

-----------------------------------------------------------------------------
(* The scheduler's operations on threads and queues.                       *)

set_state(k, t, st) == [k EXCEPT !.kt_state[t] = st]

sched_make_runnable(k, t) ==
  ktqueue_enqueue(set_state(KASSERT(k, k.kt_wchan[t] # RunQ), t, "KT_RUN"), RunQ, t)

\* What sched_sleep_on and sched_cancellable_sleep_on do before sched_switch.
sleep_enqueue(k, q, t, st) == ktqueue_enqueue(set_state(k, t, st), q, t)

sched_wakeup_on(k, q) ==
  IF sched_queue_empty(k, q)
  THEN k
  ELSE LET t == Head(k.tq[q])
       IN  sched_make_runnable(
             KASSERT(ktqueue_dequeue(k, q), k.kt_state[t] \in Sleeping), t)

\* The loop of sched_broadcast_on moves the threads one by one, in queue order.
sched_broadcast_on(k, q) ==
  [k EXCEPT
     !.kt_state = [t \in Threads |-> IF Contains(k.tq[q], t) THEN "KT_RUN" ELSE @[t]],
     !.kt_wchan = [t \in Threads |-> IF Contains(k.tq[q], t) THEN RunQ ELSE @[t]],
     !.tq = [k.tq EXCEPT ![q] = << >>, ![RunQ] = k.tq[RunQ] \o k.tq[q]]]

\* Mutant: a thread in a cancellable sleep is made runnable where it is.
sched_cancel_no_remove(k, t) ==
  LET c == [k EXCEPT !.kt_cancelled[t] = TRUE]
  IN  IF k.kt_state[t] = "KT_SLEEP_CANCELLABLE" THEN sched_make_runnable(c, t) ELSE c

\* Mutant: a thread in a cancellable sleep goes on sleeping.
sched_cancel_flag_only(k, t) == [k EXCEPT !.kt_cancelled[t] = TRUE]

\* The test of sched_cancel, "!= KT_NO_STATE || != KT_EXITED", is always true.
sched_cancel(k, t) ==
  LET c == [k EXCEPT !.kt_cancelled[t] = TRUE]
  IN  IF k.kt_state[t] = "KT_SLEEP_CANCELLABLE"
      THEN sched_make_runnable(ktqueue_remove(c, k.kt_wchan[t], t), t)
      ELSE c

\* kthread_create: the thread is KT_RUN and on no queue until it is made runnable.
kthread_create(k, t) ==
  [k EXCEPT !.kt_state[t] = "KT_RUN",
            !.kt_wchan[t] = NULL,
            !.kt_cancelled[t] = FALSE]

\* kthread_exit up to proc_thread_exited.
kthread_exit(k, t) == set_state(KASSERT(k, k.kt_wchan[t] = NULL), t, "KT_EXITED")

\* kthread_destroy: the object returns to the slab allocator.
kthread_destroy(k, t) ==
  [k EXCEPT !.kt_state[t] = "KT_NO_STATE", !.kt_cancelled[t] = FALSE]

-----------------------------------------------------------------------------
(* What the functions above must keep true of every thread system.         *)

\* A thread is linked on the queue its kt_wchan names, once, and on no other.
QueuesMatch(k) ==
  /\ \A q \in Queues, t \in Threads : k.kt_wchan[t] = q <=> Contains(k.tq[q], t)
  /\ \A q \in Queues : IsInjective(k.tq[q])

\* The state of a queued thread is the one its queue is for.
StatesMatch(k) ==
  \A t \in Threads :
    /\ k.kt_wchan[t] = RunQ => k.kt_state[t] = "KT_RUN"
    /\ k.kt_wchan[t] \in WaitQueues <=> k.kt_state[t] \in Sleeping
=============================================================================
