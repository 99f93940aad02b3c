----------------------------- MODULE SchedProofs -----------------------------
(***************************************************************************)
(* Proofs about Sched, for any number of threads and queues: its safety    *)
(* invariants.                                                             *)
(***************************************************************************)
EXTENDS Sched, KTQueueProofs

-----------------------------------------------------------------------------
(* The inductive invariant.  The properties of Sched need two more facts:  *)
(* the executing thread is KT_RUN, so that nobody destroys and creates it  *)
(* again, and the thread that sched_cancel is about to take off a queue is *)
(* on one, although an interrupt may have moved it since the test.         *)

CurrentRuns == Executing => k.kt_state[curthr] = "KT_RUN"

VictimQueued ==
  pc = "cancel" => victim \in Threads /\ victim # curthr /\ k.kt_wchan[victim] # NULL

IInv ==
  /\ TypeOK
  /\ QueuesConsistent
  /\ NoThreadLost
  /\ NoPanic
  /\ SwitchTargetExists
  /\ CancelledWakes
  /\ CurrentRuns
  /\ VictimQueued

\* Every queue name is a queue or RunQ, and the queues of devices are wait queues.
LEMMA QueueSets ==
  /\ RunQ \in Queues /\ WaitQueues \subseteq Queues /\ DeviceQ \subseteq WaitQueues
  /\ ThreadQ \subseteq WaitQueues
  /\ NULL \notin Queues /\ \A q \in WaitQueues : q # RunQ
BY QueueNames, SchedConstants DEF Queues, ThreadQ

\* The invariant holds when the first thread starts.
LEMMA InitIInv == Init => IInv
<1> SUFFICES ASSUME Init PROVE IInv
  OBVIOUS
<1> DEFINE e == EmptySystem
<1>1. /\ e \in ThreadSystems /\ e.panic = FALSE
      /\ e.kt_wchan = [t \in Threads |-> NULL] /\ e.tq = [q \in Queues |-> << >>]
      /\ e.kt_state = [t \in Threads |-> "KT_NO_STATE"]
      /\ e.kt_cancelled = [t \in Threads |-> FALSE]
  <2>1. << >> \in Seq(Threads)
    BY EmptySeq
  <2> QED BY <2>1 DEF EmptySystem, ThreadSystems, ThreadStates
<1>2. QueuesMatch(e)
  BY <1>1, QueueSets DEF QueuesMatch, Contains, IsInjective
<1>3. First \in Threads /\ e.kt_wchan[First] = NULL
  BY <1>1, SchedConstants
<1> HIDE DEF e
<1>4. /\ WellFormed(k)
      /\ k.kt_state = [e.kt_state EXCEPT ![First] = "KT_RUN"]
      /\ k.kt_cancelled = [e.kt_cancelled EXCEPT ![First] = FALSE]
      /\ k.panic = FALSE /\ k.kt_wchan = e.kt_wchan
  BY <1>1, <1>2, <1>3, CreateCorrect, Zenon DEF Init, e
<1>5. TypeOK
  BY <1>3, <1>4 DEF Init, TypeOK, PCs, WellFormed
<1>6. QueuesConsistent
  BY <1>1, <1>3, <1>4, QueueSets DEF QueuesConsistent, WellFormed, StatesMatch, Sleeping
<1>7. NoThreadLost /\ CurrentRuns
  BY <1>1, <1>3, <1>4 DEF Init, NoThreadLost, CurrentRuns, Executing
<1>8. NoPanic /\ CancelledWakes
  BY <1>1, <1>3, <1>4 DEF NoPanic, CancelledWakes
<1> QED BY <1>5, <1>6, <1>7, <1>8 DEF Init, IInv, SwitchTargetExists, VictimQueued

\* The current thread goes to sleep.
LEMMA SleepStep ==
  ASSUME IInv, Running, NEW q \in WaitQueues, NEW st \in Sleeping,
         st = "KT_SLEEP_CANCELLABLE" => ~k.kt_cancelled[curthr],
         k' = sleep_enqueue(k, q, curthr, st),
         NEW level \in {"LOW", "HIGH"}, EnterSwitch(level),
         pending' \subseteq DeviceQ
  PROVE  IInv'
<1>1. /\ k \in ThreadSystems /\ curthr \in Threads /\ QueuesMatch(k) /\ StatesMatch(k)
      /\ k.kt_wchan[curthr] = NULL
  BY DEF IInv, TypeOK, QueuesConsistent, NoThreadLost, Running, Executing
<1>2. WellFormed(k') /\ LinkedAs(k, k', q, curthr, st)
  BY <1>1, QueueSets, SleepCorrect, Zenon DEF ThreadStates
<1>3. \A x \in Threads : /\ k'.kt_state[x] = IF x = curthr THEN st ELSE k.kt_state[x]
                         /\ k'.kt_wchan[x] = IF x = curthr THEN q ELSE k.kt_wchan[x]
  BY <1>1, <1>2, FieldTypes DEF LinkedAs
<1>4. TypeOK'
  BY <1>2 DEF IInv, TypeOK, EnterSwitch, PCs, WellFormed
<1>5. QueuesConsistent'
  BY <1>1, <1>2, <1>3, QueueSets DEF QueuesConsistent, WellFormed, StatesMatch
<1>6. NoThreadLost'
  <2>1. st \notin {"KT_NO_STATE", "KT_EXITED"}
    BY DEF Sleeping
  <2> QED BY <1>1, <1>3, <2>1, QueueSets DEF IInv, NoThreadLost, EnterSwitch, Running, Executing
<1>7. NoPanic' /\ CancelledWakes'
  BY <1>1, <1>2, <1>3 DEF IInv, NoPanic, CancelledWakes, LinkedAs, Running
<1> QED BY <1>4, <1>5, <1>6, <1>7
        DEF IInv, SwitchTargetExists, CurrentRuns, VictimQueued, EnterSwitch, Executing

\* Threads of a wait queue are woken, by the current thread or by a handler.
LEMMA WakeStep ==
  ASSUME IInv, NEW q \in WaitQueues,
         k' \in {sched_wakeup_on(k, q), sched_broadcast_on(k, q)},
         pc' = pc \/ (pc = "halted" /\ pc' = "loop"),
         UNCHANGED <<curthr, victim, ipl, saved_ipl>>,
         pending' \subseteq DeviceQ
  PROVE  IInv'
<1>1. k \in ThreadSystems /\ QueuesMatch(k) /\ StatesMatch(k) /\ ~k.panic
  BY DEF IInv, TypeOK, QueuesConsistent, NoPanic
<1>2. WellFormed(k') /\ \E T \in SUBSET Threads : Woken(k, k', q, T)
  BY <1>1, WakeupCorrect, BroadcastCorrect
<1>3. PICK T \in SUBSET Threads : Woken(k, k', q, T)
  BY <1>2
<1>4. \A x \in Threads : /\ k'.kt_state[x] = IF x \in T THEN "KT_RUN" ELSE k.kt_state[x]
                         /\ k'.kt_wchan[x] = IF x \in T THEN RunQ ELSE k.kt_wchan[x]
                         /\ x \in T => k.kt_wchan[x] = q
  BY <1>3 DEF Woken
<1>5. TypeOK'
  BY <1>2 DEF IInv, TypeOK, PCs, WellFormed
<1>6. StatesMatch(k')
  BY <1>1, <1>4, QueueSets DEF StatesMatch, Sleeping
<1>7. NoThreadLost'
  <2>1. \A x \in T : /\ k.kt_state[x] \in Sleeping /\ k.kt_wchan[x] # NULL
                     /\ k'.kt_wchan[x] # NULL
    BY <1>1, <1>4, QueueSets DEF StatesMatch
  <2>2. Executing' = Executing
    BY DEF Executing
  <2> QED BY <1>4, <2>1, <2>2 DEF IInv, NoThreadLost, Sleeping
<1>8. NoPanic' /\ CancelledWakes'
  BY <1>1, <1>3, <1>4 DEF IInv, NoPanic, CancelledWakes, Woken
<1>9. SwitchTargetExists'
  <2>1. k.tq[RunQ] \in Seq(Threads) /\ k.tq[q] \in Seq(Threads)
    BY <1>1, FieldTypes, QueueSets
  <2>2. ASSUME k'.tq[RunQ] = << >> PROVE k.tq[RunQ] = << >>
    <3>1. PICK n \in 0..Len(k.tq[q]) : k'.tq[RunQ] = k.tq[RunQ] \o SubSeq(k.tq[q], 1, n)
      BY <1>3, Zenon DEF Woken, MovedToRunQ
    <3>2. SubSeq(k.tq[q], 1, n) \in Seq(Threads)
      <4> DEFINE w == k.tq[q]
      <4>1. 1 \in Int /\ n \in Int /\ \A i \in 1..n : w[i] \in Threads
        BY <2>1, ElementOfSeq, LenProperties
      <4> HIDE DEF w
      <4>2. SubSeq(w, 1, n) \in Seq(Threads)
        BY <4>1, SubSeqProperties
      <4> QED BY <4>2 DEF w
    <3> DEFINE a == k.tq[RunQ]
               b == SubSeq(k.tq[q], 1, n)
    <3>3. a \in Seq(Threads) /\ b \in Seq(Threads) /\ a \o b = << >>
      BY <2>1, <2>2, <3>1, <3>2, Zenon
    <3> HIDE DEF a, b
    <3>4. a = << >>
      BY <3>3, ConcatEqualIffEmpty
    <3> QED BY <3>4 DEF a
  <2> QED BY <2>2 DEF IInv, SwitchTargetExists, sched_queue_empty
<1>10. CurrentRuns'
  <2>1. curthr \in Threads /\ curthr' = curthr /\ Executing' = Executing
    BY DEF IInv, TypeOK, Executing
  <2> QED BY <1>4, <2>1 DEF IInv, CurrentRuns
<1>11. VictimQueued'
  BY <1>4, QueueSets DEF IInv, VictimQueued
<1> QED BY <1>2, <1>5, <1>6, <1>7, <1>8, <1>9, <1>10, <1>11, SMTT(30)
        DEF IInv, QueuesConsistent, WellFormed

\* The current thread puts itself on the run queue.
LEMMA YieldStep ==
  ASSUME IInv, Yield
  PROVE  IInv'
<1>1. /\ k \in ThreadSystems /\ curthr \in Threads /\ QueuesMatch(k) /\ StatesMatch(k)
      /\ k.kt_wchan[curthr] = NULL
  BY DEF IInv, TypeOK, QueuesConsistent, NoThreadLost, Yield, Running, Executing
<1>2. WellFormed(k') /\ LinkedAs(k, k', RunQ, curthr, "KT_RUN")
  BY <1>1, MakeRunnableCorrect DEF Yield
<1>3. \A x \in Threads : /\ k'.kt_state[x] = IF x = curthr THEN "KT_RUN" ELSE k.kt_state[x]
                         /\ k'.kt_wchan[x] = IF x = curthr THEN RunQ ELSE k.kt_wchan[x]
  BY <1>1, <1>2, FieldTypes DEF LinkedAs
<1>4. TypeOK'
  BY <1>2 DEF IInv, TypeOK, Yield, EnterSwitch, PCs, WellFormed
<1>5. QueuesConsistent'
  BY <1>1, <1>2, <1>3, QueueSets DEF QueuesConsistent, WellFormed, StatesMatch, Sleeping
<1>6. NoThreadLost'
  BY <1>1, <1>3, QueueSets DEF IInv, NoThreadLost, Yield, EnterSwitch, Running, Executing
<1>7. NoPanic' /\ CancelledWakes'
  BY <1>1, <1>2, <1>3 DEF IInv, NoPanic, CancelledWakes, LinkedAs, Yield, Running
<1> QED BY <1>4, <1>5, <1>6, <1>7
        DEF IInv, SwitchTargetExists, CurrentRuns, VictimQueued, Yield, EnterSwitch, Executing

\* The current thread creates a thread and makes it runnable.
LEMMA CreateStep ==
  ASSUME IInv, NEW t \in Threads, Create(t)
  PROVE  IInv'
<1> DEFINE c == kthread_create(k, t)
<1>1. /\ k \in ThreadSystems /\ curthr \in Threads /\ QueuesMatch(k) /\ StatesMatch(k)
      /\ k.kt_wchan[t] = NULL /\ t # curthr /\ pc = "run" /\ Executing /\ Executing'
  BY DEF IInv, TypeOK, QueuesConsistent, NoThreadLost, CurrentRuns, Create, Running, Executing
<1>2. /\ c \in ThreadSystems /\ QueuesMatch(c) /\ c.kt_wchan = k.kt_wchan
      /\ c.panic = k.panic /\ c.kt_state = [k.kt_state EXCEPT ![t] = "KT_RUN"]
      /\ c.kt_cancelled = [k.kt_cancelled EXCEPT ![t] = FALSE]
  BY <1>1, CreateCorrect DEF WellFormed
<1> HIDE DEF c
<1>3. WellFormed(k') /\ LinkedAs(c, k', RunQ, t, "KT_RUN")
  BY <1>1, <1>2, MakeRunnableCorrect DEF Create, c
<1>4. \A x \in Threads : /\ k'.kt_state[x] = IF x = t THEN "KT_RUN" ELSE k.kt_state[x]
                         /\ k'.kt_wchan[x] = IF x = t THEN RunQ ELSE k.kt_wchan[x]
                         /\ k'.kt_cancelled[x] => k.kt_cancelled[x]
  BY <1>1, <1>2, <1>3, FieldTypes DEF LinkedAs
<1>5. TypeOK'
  BY <1>3 DEF IInv, TypeOK, Create, WellFormed
<1>6. QueuesConsistent'
  BY <1>1, <1>3, <1>4, QueueSets, SMTT(30) DEF QueuesConsistent, WellFormed, StatesMatch, Sleeping
<1>7. NoThreadLost'
  BY <1>1, <1>4, QueueSets DEF IInv, NoThreadLost, Create
<1>8. NoPanic' /\ CancelledWakes'
  BY <1>1, <1>2, <1>3, <1>4 DEF IInv, NoPanic, CancelledWakes, LinkedAs, Create
<1> QED BY <1>1, <1>4, <1>5, <1>6, <1>7, <1>8, SMTT(30)
        DEF IInv, SwitchTargetExists, CurrentRuns, VictimQueued, Create

\* The current thread exits.
LEMMA ExitStep ==
  ASSUME IInv, Exit
  PROVE  IInv'
<1>1. /\ k \in ThreadSystems /\ curthr \in Threads /\ QueuesMatch(k) /\ StatesMatch(k)
      /\ k.kt_wchan[curthr] = NULL
  BY DEF IInv, TypeOK, QueuesConsistent, NoThreadLost, Exit, Running, Executing
<1>2. k' = set_state(k, curthr, "KT_EXITED")
  BY <1>1, ExitCorrect DEF Exit
<1>3. /\ WellFormed(k') /\ k'.kt_state = [k.kt_state EXCEPT ![curthr] = "KT_EXITED"]
      /\ k'.kt_cancelled = k.kt_cancelled /\ k'.panic = k.panic
      /\ k'.kt_wchan = k.kt_wchan
  BY <1>1, <1>2, SetStateCorrect DEF ThreadStates
<1>4. \A x \in Threads : k'.kt_state[x] = IF x = curthr THEN "KT_EXITED" ELSE k.kt_state[x]
  BY <1>1, <1>3, FieldTypes
<1>5. TypeOK'
  BY <1>3 DEF IInv, TypeOK, Exit, EnterSwitch, PCs, WellFormed
<1>6. QueuesConsistent'
  BY <1>1, <1>3, <1>4, QueueSets, SMTT(30) DEF QueuesConsistent, WellFormed, StatesMatch, Sleeping
<1>7. NoThreadLost'
  BY <1>1, <1>3, <1>4 DEF IInv, NoThreadLost, Exit, EnterSwitch, Running, Executing
<1>8. NoPanic' /\ CancelledWakes'
  BY <1>3, <1>4 DEF IInv, NoPanic, CancelledWakes, Exit, Running
<1> QED BY <1>5, <1>6, <1>7, <1>8
        DEF IInv, SwitchTargetExists, CurrentRuns, VictimQueued, Exit, EnterSwitch, Executing

\* A thread that has exited is destroyed.
LEMMA DestroyStep ==
  ASSUME IInv, NEW t \in Threads, Destroy(t)
  PROVE  IInv'
<1>1. /\ k \in ThreadSystems /\ curthr \in Threads /\ QueuesMatch(k) /\ StatesMatch(k)
      /\ k.kt_state[t] = "KT_EXITED" /\ t # curthr /\ pc = "run" /\ pc' = "run"
  BY DEF IInv, TypeOK, QueuesConsistent, CurrentRuns, Destroy, Running, Executing, InThread
<1>2. /\ WellFormed(k') /\ k'.kt_state = [k.kt_state EXCEPT ![t] = "KT_NO_STATE"]
      /\ k'.kt_cancelled = [k.kt_cancelled EXCEPT ![t] = FALSE]
      /\ k'.panic = k.panic /\ k'.kt_wchan = k.kt_wchan
  BY <1>1, DestroyCorrect DEF Destroy
<1>3. \A x \in Threads : /\ k'.kt_state[x] = IF x = t THEN "KT_NO_STATE" ELSE k.kt_state[x]
                         /\ k'.kt_cancelled[x] => k.kt_cancelled[x]
  BY <1>1, <1>2, FieldTypes
<1>4. TypeOK'
  BY <1>2 DEF IInv, TypeOK, Destroy, InThread, WellFormed
<1>5. QueuesConsistent'
  BY <1>1, <1>2, <1>3, QueueSets, SMTT(30) DEF QueuesConsistent, WellFormed, StatesMatch, Sleeping
<1>6. NoThreadLost'
  BY <1>1, <1>2, <1>3 DEF IInv, NoThreadLost, Destroy, InThread, Executing
<1>7. NoPanic' /\ CancelledWakes'
  BY <1>1, <1>2, <1>3 DEF IInv, NoPanic, CancelledWakes, Destroy, InThread
<1> QED BY <1>1, <1>3, <1>4, <1>5, <1>6, <1>7, SMTT(30)
        DEF IInv, SwitchTargetExists, CurrentRuns, VictimQueued, Destroy, InThread, Executing

\* sched_cancel up to its test.
LEMMA CancelStep ==
  ASSUME IInv, NEW t \in Threads, Cancel(t)
  PROVE  IInv'
<1>1. /\ k \in ThreadSystems /\ curthr \in Threads /\ QueuesMatch(k) /\ StatesMatch(k)
      /\ t # curthr /\ pc = "run" /\ Executing /\ Executing'
  BY DEF IInv, TypeOK, QueuesConsistent, Cancel, Running, Executing
<1>2. /\ WellFormed(k') /\ k'.kt_cancelled = [k.kt_cancelled EXCEPT ![t] = TRUE]
      /\ k'.kt_state = k.kt_state /\ k'.panic = k.panic /\ k'.kt_wchan = k.kt_wchan
  <2>1. k' = [k EXCEPT !.kt_cancelled[t] = TRUE]
    BY DEF Cancel
  <2>2. WellFormed(k') /\ Marked(k, k', t)
    BY <1>1, <2>1, MarkCancelledCorrect, Zenon
  <2> QED BY <2>2, Zenon DEF Marked
<1>3. \A x \in Threads : k'.kt_cancelled[x] => k.kt_cancelled[x] \/ x = t
  BY <1>1, <1>2, FieldTypes
<1>4. TypeOK'
  BY <1>2 DEF IInv, TypeOK, Cancel, PCs, WellFormed
<1>5. QueuesConsistent'
  BY <1>1, <1>2 DEF QueuesConsistent, WellFormed, StatesMatch
<1>6. NoThreadLost'
  BY <1>1, <1>2 DEF IInv, NoThreadLost, Cancel
<1>7. NoPanic' /\ CancelledWakes'
  <2>1. \A x \in Threads : ~(k.kt_cancelled[x] /\ k.kt_state[x] = "KT_SLEEP_CANCELLABLE")
    BY <1>1 DEF IInv, CancelledWakes
  <2>2. k.kt_state[t] = "KT_SLEEP_CANCELLABLE" => pc' = "cancel" /\ victim' = t
    BY DEF Cancel
  <2> QED BY <1>2, <1>3, <2>1, <2>2 DEF IInv, NoPanic, CancelledWakes
<1>8. VictimQueued'
  <2>1. ASSUME k.kt_state[t] = "KT_SLEEP_CANCELLABLE" PROVE k.kt_wchan[t] # NULL
    BY <1>1, <2>1, QueueSets DEF StatesMatch, Sleeping
  <2> QED BY <1>1, <1>2, <2>1 DEF Cancel, VictimQueued
<1>9. SwitchTargetExists' /\ CurrentRuns'
  BY <1>1, <1>2 DEF IInv, SwitchTargetExists, CurrentRuns, Cancel
<1> QED BY <1>4, <1>5, <1>6, <1>7, <1>8, <1>9, SMTT(30) DEF IInv

\* The body of that test, wherever interrupts have left the thread.
LEMMA CancelWakeStep ==
  ASSUME IInv, CancelWake
  PROVE  IInv'
<1> DEFINE q == k.kt_wchan[victim]
<1>1. /\ k \in ThreadSystems /\ curthr \in Threads /\ QueuesMatch(k) /\ StatesMatch(k)
      /\ victim \in Threads /\ victim # curthr /\ q # NULL
      /\ pc = "cancel" /\ pc' = "run" /\ curthr' = curthr
  BY DEF IInv, TypeOK, QueuesConsistent, VictimQueued, CancelWake
<1>2. /\ q \in Queues /\ k.kt_wchan[victim] = q
      /\ k' = sched_make_runnable(ktqueue_remove(k, q, victim), victim)
  BY <1>1, FieldTypes DEF CancelWake
<1> HIDE DEF q
<1>3. WellFormed(k') /\ Requeued(k, k', q, victim)
  BY <1>1, <1>2, CancelWakeCorrect, SMTT(30)
<1>4. \A x \in Threads : /\ k'.kt_state[x] = IF x = victim THEN "KT_RUN" ELSE k.kt_state[x]
                         /\ k'.kt_wchan[x] = IF x = victim THEN RunQ ELSE k.kt_wchan[x]
  BY <1>1, <1>3, FieldTypes, SMTT(30) DEF Requeued
<1>5. TypeOK'
  BY <1>3 DEF IInv, TypeOK, CancelWake, PCs, WellFormed
<1>6. QueuesConsistent'
  BY <1>1, <1>3, <1>4, QueueSets, SMTT(30) DEF QueuesConsistent, WellFormed, StatesMatch, Sleeping
<1>7. NoThreadLost'
  <2>1. Executing /\ Executing'
    BY <1>1, SMTT(30) DEF Executing
  <2> QED BY <1>1, <1>4, <2>1, QueueSets, SMTT(30) DEF IInv, NoThreadLost
<1>8. NoPanic' /\ CancelledWakes'
  BY <1>1, <1>3, <1>4, SMTT(30) DEF IInv, NoPanic, CancelledWakes, Requeued
<1>9. CurrentRuns'
  BY <1>1, <1>4 DEF IInv, CurrentRuns, Executing
<1> QED BY <1>1, <1>5, <1>6, <1>7, <1>8, <1>9, SMTT(30) DEF IInv, SwitchTargetExists, VictimQueued

\* The dequeue of sched_switch and the switch to that thread.
LEMMA SwitchToStep ==
  ASSUME IInv, SwitchTo
  PROVE  IInv'
<1> DEFINE t == Head(k.tq[RunQ])
<1>1. /\ k \in ThreadSystems /\ QueuesMatch(k) /\ StatesMatch(k) /\ ~k.panic
      /\ ~sched_queue_empty(k, RunQ) /\ pc = "nonempty" /\ pc' = "run" /\ curthr' = t
      /\ k' = ktqueue_dequeue(k, RunQ)
  BY DEF IInv, TypeOK, QueuesConsistent, NoPanic, SwitchTargetExists, SwitchTo
<1>2. /\ t \in Threads /\ k.kt_wchan[t] = RunQ
      /\ WellFormed(k') /\ Unlinked(k, k', RunQ, t)
  BY <1>1, QueueSets, DequeueCorrect, Zenon
<1> HIDE DEF t
<1>3. \A x \in Threads : /\ k'.kt_wchan[x] = IF x = t THEN NULL ELSE k.kt_wchan[x]
                         /\ k'.kt_state[x] = k.kt_state[x]
  BY <1>1, <1>2, FieldTypes DEF Unlinked
<1>4. k.kt_state[t] = "KT_RUN"
  BY <1>1, <1>2, SMTT(30) DEF StatesMatch
<1>5. TypeOK'
  <2>1. ipl' \in {"LOW", "HIGH"}
    BY <1>1, <1>2, SMTT(30) DEF IInv, TypeOK, SwitchTo, t
  <2> QED BY <1>1, <1>2, <2>1, SMTT(30) DEF IInv, TypeOK, SwitchTo, PCs, WellFormed
<1>6. QueuesConsistent'
  BY <1>1, <1>2, <1>3, <1>4, QueueSets, SMTT(30) DEF QueuesConsistent, WellFormed, StatesMatch, Sleeping
<1>7. NoThreadLost'
  <2>1. ~Executing /\ Executing'
    BY <1>1, SMTT(30) DEF Executing
  <2> QED BY <1>1, <1>2, <1>3, <1>4, <2>1, SMTT(30) DEF IInv, NoThreadLost
<1>8. NoPanic' /\ CancelledWakes'
  BY <1>1, <1>2, <1>3, SMTT(30) DEF IInv, NoPanic, CancelledWakes, Unlinked
<1>9. CurrentRuns'
  BY <1>1, <1>2, <1>3, <1>4, SMTT(30) DEF CurrentRuns
<1> QED BY <1>1, <1>5, <1>6, <1>7, <1>8, <1>9, SMTT(30) DEF IInv, SwitchTargetExists, VictimQueued

\* The steps that leave the thread system alone.
LEMMA QuietStep ==
  ASSUME IInv, UNCHANGED <<k, curthr, victim, saved_ipl, pending>>,
         ipl' \in {"LOW", "HIGH"}, pc' \in PCs,
         Executing' <=> Executing,
         pc' = "cancel" => pc = "cancel",
         pc' = "nonempty" => pc = "nonempty" \/ ~sched_queue_empty(k, RunQ),
         pc = "cancel" => pc' = "cancel"
  PROVE  IInv'
<1>1. TypeOK'
  BY DEF IInv, TypeOK
<1>2. QueuesConsistent' /\ NoPanic'
  BY DEF IInv, QueuesConsistent, NoPanic
<1>3. NoThreadLost' /\ CurrentRuns'
  BY DEF IInv, NoThreadLost, CurrentRuns
<1>4. CancelledWakes' /\ VictimQueued'
  BY DEF IInv, CancelledWakes, VictimQueued
<1>5. SwitchTargetExists'
  BY DEF IInv, SwitchTargetExists
<1> QED BY <1>1, <1>2, <1>3, <1>4, <1>5, SMTT(30) DEF IInv

-----------------------------------------------------------------------------
(* Theorems.                                                               *)

\* Every step keeps the invariant.
LEMMA NextIInv == IInv /\ [Next]_vars => IInv'
<1> SUFFICES ASSUME IInv, [Next]_vars PROVE IInv'
  OBVIOUS
<1>0. /\ pending \subseteq DeviceQ /\ ipl \in {"LOW", "HIGH"} /\ pc \in PCs
      /\ curthr \in Threads
  BY DEF IInv, TypeOK
<1>1. ASSUME NEW q \in ThreadQ, SleepOn(q) PROVE IInv'
  BY <1>0, <1>1, QueueSets, SleepStep, SMTT(30) DEF SleepOn, Sleeping
<1>2. ASSUME NEW q \in ThreadQ, CancellableSleepOn(q) PROVE IInv'
  <2>1. CASE k.kt_cancelled[curthr]
    <3>1. UNCHANGED <<k, curthr, pc, victim, ipl, saved_ipl, pending>>
      BY <1>2, <2>1 DEF CancellableSleepOn, InThread
    <3> QED BY <1>0, <3>1, QuietStep, SMTT(30) DEF Executing
  <2>2. CASE ~k.kt_cancelled[curthr]
    BY <1>0, <1>2, <2>2, QueueSets, SleepStep, SMTT(30) DEF CancellableSleepOn, Sleeping
  <2> QED BY <2>1, <2>2
<1>3. ASSUME NEW q \in ThreadQ, WakeupOn(q) PROVE IInv'
  BY <1>0, <1>3, QueueSets, WakeStep, SMTT(30) DEF WakeupOn, InThread
<1>4. ASSUME NEW q \in ThreadQ, BroadcastOn(q) PROVE IInv'
  BY <1>0, <1>4, QueueSets, WakeStep, SMTT(30) DEF BroadcastOn, InThread
<1>5. ASSUME NEW q \in DeviceQ, NEW st \in Sleeping, DeviceSleep(q, st) PROVE IInv'
  BY <1>0, <1>5, QueueSets, SleepStep, SMTT(30) DEF DeviceSleep
<1>6. CASE DeviceReturn
  BY <1>0, <1>6, QuietStep, SMTT(30) DEF DeviceReturn, Executing
<1>7. CASE Yield
  BY <1>7, YieldStep
<1>8. CASE Exit
  BY <1>8, ExitStep
<1>9. ASSUME NEW t \in Threads, Create(t) \/ Destroy(t) \/ Cancel(t) PROVE IInv'
  BY <1>9, CreateStep, DestroyStep, CancelStep, SMTT(30)
<1>10. CASE CancelWake
  BY <1>10, CancelWakeStep
<1>11. CASE SwitchTest
  BY <1>0, <1>11, QuietStep, SMTT(30) DEF SwitchTest, Executing, PCs
<1>12. CASE SwitchHalt
  BY <1>0, <1>12, QuietStep, SMTT(30) DEF SwitchHalt, Executing, PCs
<1>13. CASE SwitchTo
  BY <1>13, SwitchToStep
<1>14. ASSUME NEW q \in DeviceQ, DeviceInterrupt(q) PROVE IInv'
  BY <1>0, <1>14, QueueSets, WakeStep, SMTT(30) DEF DeviceInterrupt, TakeInterrupt
<1>15. CASE TimerInterrupt
  BY <1>0, <1>15, QuietStep, SMTT(30) DEF TimerInterrupt, TakeInterrupt, Executing, PCs
<1>16. CASE UNCHANGED vars
  BY <1>0, <1>16, QuietStep, SMTT(30) DEF vars, Executing
<1> QED BY <1>1, <1>2, <1>3, <1>4, <1>5, <1>6, <1>7, <1>8, <1>9, <1>10, <1>11, <1>12, SMTT(30),
           <1>13, <1>14, <1>15, <1>16 DEF Next, KernelStep

\* The invariant holds in every state the scheduler reaches.
THEOREM SchedInvariant == Spec => []IInv
<1>1. Init => IInv
  BY InitIInv
<1>2. IInv /\ [Next]_vars => IInv'
  BY NextIInv
<1> QED BY <1>1, <1>2, PTL DEF Spec

\* Variables keep their types (every function of sched.c and kthread.c).
THEOREM SchedTypeCorrect == Spec => []TypeOK
<1>1. IInv => TypeOK
  BY DEF IInv
<1> QED BY <1>1, SchedInvariant, PTL

\* Whatever interrupts arrive, the links, kt_wchan and kt_state of every thread
\* agree (ktqueue_enqueue, ktqueue_dequeue, ktqueue_remove).
THEOREM SchedQueuesConsistent == Spec => []QueuesConsistent
<1>1. IInv => QueuesConsistent
  BY DEF IInv
<1> QED BY <1>1, SchedInvariant, PTL

\* A thread that has not exited is executing or on a queue, so it can run again
\* (the rule that the comment of sched_cancel states).
THEOREM SchedNoThreadLost == Spec => []NoThreadLost
<1>1. IInv => NoThreadLost
  BY DEF IInv
<1> QED BY <1>1, SchedInvariant, PTL

\* No KASSERT fails, and sched_switch always finds the thread it dequeues.
THEOREM SchedNeverPanics == Spec => [](NoPanic /\ SwitchTargetExists)
<1>1. IInv => NoPanic /\ SwitchTargetExists
  BY DEF IInv
<1> QED BY <1>1, SchedInvariant, PTL

\* A cancelled thread is never left in a cancellable sleep (sched_cancel).
THEOREM SchedCancelledWakes == Spec => []CancelledWakes
<1>1. IInv => CancelledWakes
  BY DEF IInv
<1> QED BY <1>1, SchedInvariant, PTL
=============================================================================
