-------------------------------- MODULE Sched --------------------------------
(***************************************************************************)
(* The scheduler of K1/sched.c, K1/sched_helper.c and K1/kthread.c at the  *)
(* granularity of interrupts.                                              *)
(*                                                                         *)
(* Weenix runs one thread at a time and never preempts it: thread code is  *)
(* atomic except where an interrupt handler runs, which needs the          *)
(* interrupt priority level (IPL) to be low.  Handlers call                *)
(* sched_wakeup_on or sched_broadcast_on on the queue of a device.  The    *)
(* places where such a handler can change what thread code goes on to use  *)
(* are the loop of sched_switch and sched_cancel, and those are split into *)
(* steps here; everywhere else a handler commutes with the thread's code.  *)
(***************************************************************************)
EXTENDS KTQueue

CONSTANTS
  DeviceQ,   \* the queues whose threads are woken by interrupt handlers
  First,     \* the thread that is running when interrupts are enabled
  Timer      \* TRUE when some device interrupts again and again

ASSUME SchedConstants ==
  /\ DeviceQ \subseteq WaitQueues
  /\ First \in Threads
  /\ Timer \in BOOLEAN

VARIABLES
  k,         \* the thread system (see KTQueue)
  curthr,    \* the current thread; keeps its value while sched_switch loops
  pc,        \* where the CPU is: in a thread, in sched_cancel or in sched_switch
  victim,    \* the argument of sched_cancel
  ipl,       \* the current interrupt priority level
  saved_ipl, \* the IPL each thread that is switched out restores when it resumes
  pending    \* the device queues with an interrupt still to come

vars == <<k, curthr, pc, victim, ipl, saved_ipl, pending>>

\* "loop", "nonempty", "empty" and "halted" are inside sched_switch: before the
\* test of the run queue, after it, and in intr_wait.
PCs == {"run", "cancel", "loop", "nonempty", "empty", "halted"}

\* A thread is executing, not sched_switch.
Executing == pc \in {"run", "cancel"}

Init ==
  /\ k = kthread_create(EmptySystem, First)
  /\ curthr = First
  /\ pc = "run"
  /\ victim = NULL
  /\ ipl = "LOW"
  /\ saved_ipl = [t \in Threads |-> "LOW"]
  /\ pending = {}

-----------------------------------------------------------------------------
(* The current thread's calls.                                             *)

Running == pc = "run" /\ ~k.panic

\* The entry of sched_switch: the caller's IPL is kept in a local variable.
EnterSwitch(level) ==
  /\ pc' = "loop"
  /\ ipl' = level
  /\ saved_ipl' = [saved_ipl EXCEPT ![curthr] = level]
  /\ UNCHANGED <<curthr, victim>>

InThread == UNCHANGED <<curthr, pc, victim, ipl, saved_ipl>>

SleepOn(q) ==
  /\ Running
  /\ k' = sleep_enqueue(k, q, curthr, "KT_SLEEP")
  /\ EnterSwitch(ipl)
  /\ UNCHANGED pending

\* Mutant: kt_cancelled is not looked at before the sleep.
CancellableSleepOn_untested(q) ==
  /\ Running
  /\ k' = sleep_enqueue(k, q, curthr, "KT_SLEEP_CANCELLABLE")
  /\ EnterSwitch(ipl)
  /\ UNCHANGED pending

CancellableSleepOn(q) ==
  /\ Running
  /\ IF k.kt_cancelled[curthr]
     THEN InThread /\ UNCHANGED k      \* returns -EINTR at once
     ELSE /\ k' = sleep_enqueue(k, q, curthr, "KT_SLEEP_CANCELLABLE")
          /\ EnterSwitch(ipl)
  /\ UNCHANGED pending

\* A driver masks interrupts, starts its device and sleeps until the handler
\* wakes it; the sleep is cancellable for a terminal.
DeviceSleep(q, st) ==
  /\ Running
  /\ ipl = "LOW"
  /\ st = "KT_SLEEP_CANCELLABLE" => ~k.kt_cancelled[curthr]
  /\ k' = sleep_enqueue(k, q, curthr, st)
  /\ pending' = pending \cup {q}
  /\ EnterSwitch("HIGH")

\* ... and lowers the IPL again when sched_sleep_on has returned.
DeviceReturn ==
  /\ Running
  /\ ipl = "HIGH"
  /\ ipl' = "LOW"
  /\ UNCHANGED <<k, curthr, pc, victim, saved_ipl, pending>>

Yield ==
  /\ Running
  /\ k' = sched_make_runnable(k, curthr)
  /\ EnterSwitch(ipl)
  /\ UNCHANGED pending

WakeupOn(q) ==
  /\ Running
  /\ k' = sched_wakeup_on(k, q)
  /\ InThread
  /\ UNCHANGED pending

BroadcastOn(q) ==
  /\ Running
  /\ k' = sched_broadcast_on(k, q)
  /\ InThread
  /\ UNCHANGED pending

\* kthread_create followed by sched_make_runnable; a new context starts at IPL_LOW.
Create(t) ==
  /\ Running
  /\ k.kt_state[t] = "KT_NO_STATE"
  /\ k' = sched_make_runnable(kthread_create(k, t), t)
  /\ saved_ipl' = [saved_ipl EXCEPT ![t] = "LOW"]
  /\ UNCHANGED <<curthr, pc, victim, ipl, pending>>

\* kthread_exit; the idle thread, here First, never exits.
Exit ==
  /\ Running
  /\ ipl = "LOW"
  /\ curthr # First
  /\ k' = kthread_exit(k, curthr)
  /\ EnterSwitch(ipl)
  /\ UNCHANGED pending

Destroy(t) ==
  /\ Running
  /\ k.kt_state[t] = "KT_EXITED"
  /\ k' = kthread_destroy(k, t)
  /\ InThread
  /\ UNCHANGED pending

\* kthread_cancel on another thread, up to the test of its state in sched_cancel.
Cancel(t) ==
  /\ Running
  /\ t # curthr
  /\ k.kt_state[t] # "KT_NO_STATE"
  /\ k' = [k EXCEPT !.kt_cancelled[t] = TRUE]
  /\ IF k.kt_state[t] = "KT_SLEEP_CANCELLABLE"
     THEN pc' = "cancel" /\ victim' = t
     ELSE UNCHANGED <<pc, victim>>
  /\ UNCHANGED <<curthr, ipl, saved_ipl, pending>>

\* Mutant: the thread is not taken off its queue.
CancelWake_no_remove ==
  /\ pc = "cancel" /\ ~k.panic
  /\ k' = sched_make_runnable(k, victim)
  /\ pc' = "run"
  /\ victim' = NULL
  /\ UNCHANGED <<curthr, ipl, saved_ipl, pending>>

\* The body of that test.  An interrupt may have woken the thread since, and
\* then it is taken off the run queue and put back.
CancelWake ==
  /\ pc = "cancel" /\ ~k.panic
  /\ k' = sched_make_runnable(ktqueue_remove(k, k.kt_wchan[victim], victim), victim)
  /\ pc' = "run"
  /\ victim' = NULL
  /\ UNCHANGED <<curthr, ipl, saved_ipl, pending>>

-----------------------------------------------------------------------------
(* sched_switch.                                                           *)

\* Mutant: an "if" instead of the loop, the run queue is taken to be filled.
SwitchTest_once ==
  /\ pc = "loop" /\ ~k.panic
  /\ pc' = "nonempty"
  /\ ipl' = "LOW"
  /\ UNCHANGED <<k, curthr, victim, saved_ipl, pending>>

\* The run queue is looked at with interrupts masked, then the IPL is lowered.
SwitchTest ==
  /\ pc = "loop" /\ ~k.panic
  /\ pc' = IF sched_queue_empty(k, RunQ) THEN "empty" ELSE "nonempty"
  /\ ipl' = "LOW"
  /\ UNCHANGED <<k, curthr, victim, saved_ipl, pending>>

\* intr_wait: enable interrupts and halt until the next one.
SwitchHalt ==
  /\ pc = "empty" /\ ~k.panic
  /\ pc' = "halted"
  /\ UNCHANGED <<k, curthr, victim, ipl, saved_ipl, pending>>

\* Mutant: the thread at the wrong end of the run queue is chosen.
SwitchTo_last ==
  /\ pc = "nonempty" /\ ~k.panic
  /\ LET next == Last(k.tq[RunQ])
     IN  /\ k' = ktqueue_remove(k, RunQ, next)
         /\ curthr' = next
         /\ ipl' = saved_ipl[next]
  /\ pc' = "run"
  /\ UNCHANGED <<victim, saved_ipl, pending>>

\* The dequeue, the switch of contexts, and the new thread's return from its
\* own call of sched_switch, which restores its IPL.
SwitchTo ==
  /\ pc = "nonempty" /\ ~k.panic
  /\ LET next == Head(k.tq[RunQ])
     IN  /\ k' = ktqueue_dequeue(k, RunQ)
         /\ curthr' = next
         /\ ipl' = saved_ipl[next]
  /\ pc' = "run"
  /\ UNCHANGED <<victim, saved_ipl, pending>>

-----------------------------------------------------------------------------
(* Interrupts.                                                             *)

\* Mutant: sched_switch halts again without looking at the run queue.
TakeInterrupt_halts_again ==
  /\ ipl = "LOW" /\ ~k.panic
  /\ UNCHANGED <<curthr, pc, victim, ipl, saved_ipl>>

\* The handler returns to the instruction after the one it interrupted, which
\* for a halted CPU is the next iteration of sched_switch's loop.
TakeInterrupt ==
  /\ ipl = "LOW" /\ ~k.panic
  /\ pc' = IF pc = "halted" THEN "loop" ELSE pc
  /\ UNCHANGED <<curthr, victim, ipl, saved_ipl>>

DeviceInterrupt(q) ==
  /\ q \in pending
  /\ TakeInterrupt
  /\ pending' = pending \ {q}
  /\ k' \in {sched_wakeup_on(k, q), sched_broadcast_on(k, q)}

TimerInterrupt ==
  /\ Timer
  /\ TakeInterrupt
  /\ UNCHANGED <<k, pending>>

-----------------------------------------------------------------------------
ThreadQ == WaitQueues \ DeviceQ

\* The calls with which the current thread gives up the CPU.
GiveUp ==
  \/ \E q \in ThreadQ : SleepOn(q) \/ (CancellableSleepOn(q) /\ pc' # "run")
  \/ \E q \in DeviceQ, st \in Sleeping : DeviceSleep(q, st)
  \/ Yield
  \/ Exit

KernelStep == CancelWake \/ SwitchTest \/ SwitchHalt \/ SwitchTo

Next ==
  \/ \E q \in ThreadQ :
       SleepOn(q) \/ CancellableSleepOn(q) \/ WakeupOn(q) \/ BroadcastOn(q)
  \/ \E q \in DeviceQ, st \in Sleeping : DeviceSleep(q, st)
  \/ DeviceReturn
  \/ Yield
  \/ Exit
  \/ \E t \in Threads : Create(t) \/ Destroy(t) \/ Cancel(t)
  \/ KernelStep
  \/ \E q \in DeviceQ : DeviceInterrupt(q)
  \/ TimerInterrupt

Spec == Init /\ [][Next]_vars

\* The CPU keeps executing; a device that was started raises its interrupt, which
\* stays pending while it is masked; the timer ticks; and no thread keeps the CPU
\* for ever, which is what a kernel without preemption asks of its threads.
Fairness ==
  /\ WF_vars(KernelStep)
  /\ WF_vars(GiveUp)
  /\ WF_vars(DeviceReturn)
  /\ \A q \in DeviceQ : SF_vars(DeviceInterrupt(q))
  /\ WF_vars(TimerInterrupt)

FairSpec == Spec /\ Fairness

-----------------------------------------------------------------------------
(* Properties.                                                             *)

\* The values the variables take.
TypeOK ==
  /\ k \in ThreadSystems
  /\ curthr \in Threads
  /\ pc \in PCs
  /\ victim \in Threads \cup {NULL}
  /\ ipl \in {"LOW", "HIGH"}
  /\ saved_ipl \in [Threads -> {"LOW", "HIGH"}]
  /\ pending \subseteq DeviceQ

\* The list links, kt_wchan and kt_state agree for every thread, whatever
\* interrupts arrive: ktqueue_enqueue, ktqueue_dequeue and ktqueue_remove never
\* leave a thread on two queues, on one its kt_wchan does not name, or on one
\* that does not go with its state.
QueuesConsistent == QueuesMatch(k) /\ StatesMatch(k)

\* "unless the thread is in the KT_NO_STATE or KT_EXITED state, it should be on
\* some queue.  Otherwise, it will never be run again" (sched.c:131): the only
\* other thread on no queue is the one that is executing.
NoThreadLost ==
  \A t \in Threads :
    k.kt_wchan[t] = NULL <=>
      \/ k.kt_state[t] \in {"KT_NO_STATE", "KT_EXITED"}
      \/ t = curthr /\ Executing

\* No KASSERT of sched.c, sched_helper.c or kthread.c fails.
NoPanic == ~k.panic

\* The run queue that sched_switch found not empty before it lowered the IPL is
\* still not empty when it dequeues: ktqueue_dequeue never returns NULL there.
SwitchTargetExists == pc = "nonempty" => ~sched_queue_empty(k, RunQ)

\* A cancelled thread is not left in a cancellable sleep, although kt_cancelled
\* is set and tested in different calls (sched_cancel, sched_cancellable_sleep_on).
CancelledWakes ==
  \A t \in Threads :
    k.kt_cancelled[t] /\ k.kt_state[t] = "KT_SLEEP_CANCELLABLE"
      => pc = "cancel" /\ victim = t

\* A thread that is runnable eventually runs.
RunnableRuns ==
  \A t \in Threads : k.kt_wchan[t] = RunQ ~> curthr = t /\ pc = "run"

\* "If there are no threads on the run queue ... wait for one [interrupt] to
\* occur" (sched.c:169): the CPU sits in intr_wait only while no thread is
\* runnable.
WaitsOnlyWhenIdle == pc = "halted" => sched_queue_empty(k, RunQ)
=============================================================================
