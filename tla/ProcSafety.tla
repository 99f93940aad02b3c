----------------------------- MODULE ProcSafety ------------------------------
(***************************************************************************)
(* A proof about Proc, for every number of processes: no assertion fails   *)
(* while there are pids enough.                                            *)
(***************************************************************************)
EXTENDS ProcProofs

-----------------------------------------------------------------------------
(* No assertion fails while there are at least as many pids as process     *)
(* objects.                                                                *)

EnoughPids == IsFiniteSet(Procs) /\ Cardinality(Procs) <= PROC_MAX_COUNT

\* No process has the pid -1.
PidsKnown == \A p \in Procs : IsListed(p) => p_pid[p] # -1

Safe == NoPanic /\ PidsKnown

\* A process that goes to sleep is on no queue.
LEMMA SleepSafe ==
  ASSUME IInv, Safe, NEW c \in Procs, curproc = c, NEW q \in WaitQueues, NEW st \in Sleeping,
         k' = sleep_enqueue(k, q, c, st), UNCHANGED table
  PROVE  Safe'
<1>1. /\ k \in ThreadSystems /\ QueuesMatch(k) /\ k.kt_wchan[c] = NULL
      /\ st \in ThreadStates /\ q \in Queues
  BY CurrentFacts, ProcNames DEF ThreadStates
<1>2. LinkedAs(k, k', q, c, st)
  BY <1>1, SleepCorrect, Zenon DEF Procs
<1> QED BY <1>2 DEF Safe, NoPanic, PidsKnown, LinkedAs, table, IsListed

\* The only child that idle reaps is init.
LEMMA ReapSafe ==
  ASSUME IInv, Safe, NEW c \in Procs, curproc = c, ~halted,
         NEW p \in Procs, IsChild(c, p), NEW st, Reap(c, p, st)
  PROVE  Safe'
<1> DEFINE d == kthread_destroy(k, p)
           b == (c = Idle => p_pid[p] = PID_INIT)
<1>1. k \in ThreadSystems /\ QueuesMatch(k) /\ p \in Threads
  BY CurrentFacts DEF Procs
<1>2. IsListed(p) /\ p_pproc[p] = c
  BY DEF IInv, Linkage
<1>3. b
  <2> SUFFICES ASSUME c = Idle PROVE p_pid[p] = PID_INIT
    OBVIOUS
  <2>1. p = proc_initproc /\ p # NULL
    BY <1>2, ProcNames DEF IInv, IdleSound
  <2> QED BY <2>1 DEF IInv, InitSound
<1>4. k' = KASSERT(d, b) /\ b \in BOOLEAN
  BY DEF Reap
<1>5. d \in ThreadSystems /\ QueuesMatch(d) /\ d.panic = k.panic
  BY <1>1, DestroyCorrect, Zenon DEF WellFormed
<1> HIDE DEF b, d
<1>6. k' = d
  BY <1>3, <1>4, <1>5, AssertFields, Zenon
<1>7. ASSUME NEW x \in Procs, IsListed(x)' PROVE p_pid'[x] # -1
  <2>1. /\ proc_list \in Seq(Procs) /\ Contains(proc_list, p) /\ IsInjective(proc_list)
        /\ proc_list' = RemoveFirst(proc_list, p)
    BY <1>2 DEF IInv, TypeOK, Linkage, IsListed, Reap
  <2>2. IsListed(x) /\ x # p
    BY <1>7, <2>1, RemoveContains DEF IsListed
  <2> QED BY <2>2 DEF Reap, Safe, PidsKnown, IInv, TypeOK
<1> QED BY <1>5, <1>6, <1>7 DEF Safe, NoPanic, PidsKnown

\* do_waitpid(-1).
LEMMA WaitAnySafe ==
  ASSUME IInv, Safe, NEW c \in Procs, curproc = c, ~halted, WaitAnyLoop(c)
  PROVE  Safe'
<1>1. CASE SleepInWait(k, c, [fn |-> "any", target |-> NULL, status |-> 0]) /\ UNCHANGED table
  <2>1. k' = sleep_enqueue(k, c, c, "KT_SLEEP") /\ c \in WaitQueues /\ "KT_SLEEP" \in Sleeping
    BY <1>1, ProcNames DEF SleepInWait, Sleeping
  <2> QED BY <1>1, <2>1, SleepSafe
<1>2. ASSUME NEW n \in DeadChildren(c), Reap(c, p_children[c][n], p_status[p_children[c][n]])
      PROVE  Safe'
  <2> DEFINE p == p_children[c][n]
  <2>1. p_children[c] \in Seq(Procs) /\ n \in 1..Len(p_children[c])
    BY LenProperties DEF DeadChildren, IInv, TypeOK
  <2>2. p \in Procs /\ IsChild(c, p)
    BY <2>1, ElementOfSeq DEF IsChild, Contains
  <2>3. Reap(c, p, p_status[p])
    BY <1>2
  <2> HIDE DEF p
  <2> QED BY <2>2, <2>3, ReapSafe
<1> QED BY <1>1, <1>2 DEF WaitAnyLoop

\* do_waitpid(pid) for the child p.
LEMMA WaitPidSafe ==
  ASSUME IInv, Safe, NEW c \in Procs, curproc = c, ~halted,
         NEW p \in Procs, IsChild(c, p), NEW st, WaitPidLoop(c, p, st)
  PROVE  Safe'
<1>1. CASE SleepInWait(k, c, [fn |-> "pid", target |-> p, status |-> st]) /\ UNCHANGED table
  <2>1. k' = sleep_enqueue(k, c, c, "KT_SLEEP") /\ c \in WaitQueues /\ "KT_SLEEP" \in Sleeping
    BY <1>1, ProcNames DEF SleepInWait, Sleeping
  <2> QED BY <1>1, <2>1, SleepSafe
<1>2. CASE Reap(c, p, st)
  BY <1>2, ReapSafe
<1> QED BY <1>1, <1>2 DEF WaitPidLoop

\* A new process gets a pid.
LEMMA CreateSafe ==
  ASSUME IInv, Safe, EnoughPids, NEW c \in Procs, curproc = c, ~halted,
         c = Idle => proc_initproc = NULL,
         NEW p \in FreeObjects, proc_create(c, p)
  PROVE  /\ PidsKnown'
         /\ proc_create_asserts(c)
         /\ c = Idle => _proc_getid = PID_INIT
<1>1. p \in Procs /\ ~IsListed(p)
  BY DEF IInv, ThreadsSound, FreeObjects
<1>2. _proc_getid # -1
  BY <1>1, PidsSuffice DEF EnoughPids
<1>3. _proc_getid # PID_IDLE /\ (_proc_getid = PID_INIT <=> c = Idle)
  BY GetIdOf
<1>4. ASSUME NEW x \in Procs, IsListed(x)' PROVE p_pid'[x] # -1
  <2>1. /\ proc_list \in Seq(Procs) /\ ~Contains(proc_list, p) /\ IsInjective(proc_list)
        /\ proc_list' = Append(proc_list, p)
    BY <1>1 DEF IInv, TypeOK, Linkage, IsListed, proc_create
  <2>2. IsListed(x) \/ x = p
    BY <1>1, <1>4, <2>1, AppendContains DEF IsListed
  <2>3. p_pid' = [p_pid EXCEPT ![p] = _proc_getid]
    BY DEF proc_create
  <2> QED BY <1>1, <1>2, <2>2, <2>3 DEF Safe, PidsKnown, IInv, TypeOK
<1>5. proc_create_asserts(c)
  BY <1>3 DEF proc_create_asserts, IInv, IdleSound
<1> QED BY <1>3, <1>4, <1>5 DEF PidsKnown

\* A process creates a child.
LEMMA SpawnSafe ==
  ASSUME IInv, Safe, EnoughPids, NEW c \in Procs, NEW p \in Procs, Spawn(c, p)
  PROVE  Safe'
<1> DEFINE b == proc_create_asserts(c)
<1>1. /\ curproc = c /\ ~halted /\ c # Idle /\ p \in FreeObjects
      /\ k.kt_state[p] = "KT_NO_STATE" /\ proc_create(c, p)
  BY DEF Spawn, Calls, Runs, FreeObjects
<1>2. k \in ThreadSystems /\ QueuesMatch(k) /\ StatesMatch(k)
  BY <1>1, CurrentFacts
<1>3. PidsKnown' /\ b
  BY <1>1, CreateSafe
<1>4. k' = sched_make_runnable(kthread_create(KASSERT(k, b), p), p)
  BY DEF Spawn
<1> HIDE DEF b
<1>5. KASSERT(k, b) = k
  BY <1>2, <1>3, AssertHolds, Zenon
<1>6. k'.panic = k.panic
  BY <1>1, <1>2, <1>4, <1>5, SpawnThreads DEF Procs
<1> QED BY <1>3, <1>6 DEF Safe, NoPanic

\* Idle creates init, whose pid is PID_INIT.
LEMMA IdleSafe ==
  ASSUME IInv, Safe, EnoughPids, NEW p \in Procs, idleproc_run(p)
  PROVE  Safe'
<1> DEFINE b == proc_create_asserts(Idle) /\ _proc_getid = PID_INIT
           e == sched_make_runnable(kthread_create(k, p), p)
<1>1. /\ curproc = Idle /\ ~halted /\ p \in FreeObjects /\ Idle \in Procs /\ p # Idle
      /\ proc_initproc = NULL /\ k.kt_state[p] = "KT_NO_STATE" /\ proc_create(Idle, p)
  BY CurrentFacts, ProcNames DEF idleproc_run, Runs, FreeObjects
<1>2. k \in ThreadSystems /\ QueuesMatch(k) /\ StatesMatch(k) /\ k.kt_wchan[Idle] = NULL
  BY <1>1, CurrentFacts
<1>3. PidsKnown' /\ b
  BY <1>1, CreateSafe
<1>4. k' = sleep_enqueue(KASSERT(e, b), Idle, Idle, "KT_SLEEP")
  BY DEF idleproc_run, SleepInWait
<1>5. /\ e \in ThreadSystems /\ QueuesMatch(e) /\ e.panic = k.panic
      /\ e.kt_wchan[Idle] = NULL
  BY <1>1, <1>2, SpawnThreads DEF WellFormed, Procs
<1> HIDE DEF b, e
<1>6. KASSERT(e, b) = e
  BY <1>3, <1>5, AssertHolds, Zenon
<1>7. LinkedAs(e, k', Idle, Idle, "KT_SLEEP")
  BY <1>1, <1>4, <1>5, <1>6, SleepCorrect, ProcNames DEF ThreadStates, Sleeping, Procs
<1> QED BY <1>3, <1>5, <1>7 DEF Safe, NoPanic, LinkedAs

\* A process that exits has a pid, a parent and an init to leave its children to.
LEMMA ExitSafe ==
  ASSUME IInv, Safe, NEW c \in Procs \ {Idle}, curproc = c, ~halted,
         NEW st, ExitFrom(k, c, st)
  PROVE  Safe'
<1> DEFINE s == set_state(k, c, "KT_EXITED")
           b == exit_asserts(c)
           w == sched_wakeup_on(s, p_pproc[c])
<1>1. /\ k \in ThreadSystems /\ QueuesMatch(k) /\ StatesMatch(k) /\ c \in Threads
      /\ k.kt_wchan[c] = NULL /\ IsListed(c)
  BY CurrentFacts DEF Procs
<1>2. p_pproc[c] \in Procs /\ p_pproc[c] \in WaitQueues
  BY <1>1, ProcNames DEF IInv, Linkage
<1>3. b
  <2>1. p_pid[c] \in -1..PROC_MAX_COUNT - 1 /\ p_pid[c] # -1
    BY <1>1 DEF IInv, PidsSound, Safe, PidsKnown
  <2>2. p_pid[c] # 0
    <3>1. IsListed(Idle) /\ p_pid[Idle] = 0
      BY ProcNames DEF IInv, IdleSound, ThreadsSound, PID_IDLE
    <3> QED BY <1>1, <2>1, <3>1, ProcNames DEF IInv, PidsSound
  <2>3. 1 <= p_pid[c]
    BY <2>1, <2>2, ProcNames
  <2>4. proc_initproc # NULL
    BY <1>1, InitExists, ProcNames
  <2> QED BY <1>2, <2>3, <2>4, ProcNames DEF exit_asserts
<1>4. /\ s \in ThreadSystems /\ QueuesMatch(s) /\ s.kt_wchan = k.kt_wchan
      /\ s.kt_state = [k.kt_state EXCEPT ![c] = "KT_EXITED"] /\ s.panic = k.panic
  <2>1. "KT_EXITED" \in ThreadStates
    BY DEF ThreadStates
  <2> QED BY <1>1, <2>1, SetStateCorrect DEF WellFormed
<1>5. k' = KASSERT(w, b)
  <2>1. kthread_exit(k, c) = s
    BY <1>1, ExitCorrect
  <2> QED BY <2>1 DEF ExitFrom
<1> HIDE DEF s, b
<1>6. StatesMatch(s)
  <2>1. \A x \in Threads : /\ s.kt_state[x] = IF x = c THEN "KT_EXITED" ELSE k.kt_state[x]
                           /\ s.kt_wchan[x] = k.kt_wchan[x]
    BY <1>1, <1>4, FieldTypes
  <2>2. k.kt_state[c] = "KT_RUN"
    BY CurrentFacts
  <2> QED BY <1>1, <2>1, <2>2, ProcNames DEF StatesMatch, Sleeping
<1>7. w = sched_wakeup_on(s, p_pproc[c])
  OBVIOUS
<1> HIDE DEF w
<1>8. w \in ThreadSystems /\ QueuesMatch(w) /\ w.panic = s.panic
  BY <1>2, <1>4, <1>6, <1>7, WakeupThreads DEF WellFormed
<1>9. k' = w
  BY <1>3, <1>5, <1>8, AssertHolds, Zenon
<1>10. PidsKnown'
  BY DEF ExitFrom, Safe, PidsKnown, IsListed
<1> QED BY <1>4, <1>8, <1>9, <1>10 DEF Safe, NoPanic

\* A cancelled thread is on the queue that its kt_wchan names.
LEMMA KillNextSafe ==
  ASSUME IInv, Safe, NEW c \in Procs, KillNext(c)
  PROVE  Safe'
<1> DEFINE p == proc_list[kill_at]
           m == [k EXCEPT !.kt_cancelled[p] = TRUE]
           q == k.kt_wchan[p]
<1>1. /\ k \in ThreadSystems /\ QueuesMatch(k) /\ StatesMatch(k)
      /\ UNCHANGED table /\ p \in Procs
      /\ k' = IF Victim(c, p) THEN sched_cancel(k, p) ELSE k
  <2>1. proc_list \in Seq(Procs) /\ kill_at \in 1..Len(proc_list)
    BY LenProperties DEF KillNext, IInv, TypeOK
  <2>2. p \in Procs
    BY <2>1, ElementOfSeq
  <2> QED BY <2>2 DEF KillNext, IInv, TypeOK, ThreadsSound
<1> HIDE DEF p
<1>2. PidsKnown'
  BY <1>1 DEF Safe, PidsKnown, table, IsListed
<1>3. WellFormed(m) /\ Marked(k, m, p)
  BY <1>1, MarkCancelledCorrect, Zenon DEF Procs
<1>4. CASE k' = k
  BY <1>2, <1>4 DEF Safe, NoPanic
<1>5. CASE k' = m
  <2> HIDE DEF m
  <2> QED BY <1>2, <1>3, <1>5 DEF Safe, NoPanic, Marked
<1>6. CASE k' = sched_make_runnable(ktqueue_remove(m, q, p), p)
           /\ k.kt_state[p] = "KT_SLEEP_CANCELLABLE"
  <2> HIDE DEF m
  <2>1. q \in Queues /\ m.kt_wchan[p] = q /\ m \in ThreadSystems /\ QueuesMatch(m)
    BY <1>1, <1>3, <1>6, ProcNames DEF StatesMatch, Sleeping, Marked, WellFormed, Procs
  <2>2. Requeued(m, k', q, p)
    BY <1>1, <1>6, <2>1, CancelWakeCorrect DEF Procs
  <2> QED BY <1>2, <1>3, <2>2 DEF Safe, NoPanic, Requeued, Marked
<1> QED BY <1>1, <1>4, <1>5, <1>6 DEF sched_cancel

\* Every step keeps the assertions true.
LEMMA NextSafe ==
  ASSUME EnoughPids, IInv, Safe, [Next]_vars
  PROVE  Safe'
<1>1. ASSUME NEW p \in Procs, idleproc_run(p) PROVE Safe'
  BY <1>1, IdleSafe
<1>2. ASSUME NEW c \in Procs, NEW p \in Procs, Spawn(c, p) PROVE Safe'
  BY <1>2, SpawnSafe
<1>3. ASSUME NEW c \in Procs, NEW pid \in 1..PROC_MAX_COUNT - 1, WaitPid(c, pid) PROVE Safe'
  <2>1. PICK p \in ToSet(p_children[c]) : WaitPidLoop(c, p, p_status[p])
    BY <1>3 DEF WaitPid
  <2>2. p \in Procs /\ IsChild(c, p)
    <3>1. p_children[c] \in Seq(Procs) /\ DOMAIN p_children[c] = 1..Len(p_children[c])
      BY LenProperties DEF IInv, TypeOK
    <3>2. \E n \in 1..Len(p_children[c]) : p = p_children[c][n]
      BY <2>1, <3>1 DEF ToSet
    <3> QED BY <3>1, <3>2, ElementOfSeq DEF IsChild, Contains
  <2>3. curproc = c /\ ~halted
    BY <1>3 DEF WaitPid, Calls, Runs
  <2> QED BY <2>1, <2>2, <2>3, WaitPidSafe
<1>4. ASSUME NEW c \in Procs, NEW st \in Statuses, do_exit(c, st) PROVE Safe'
  BY <1>4, ExitSafe DEF do_exit, Calls, Runs
<1>5. ASSUME NEW c \in Procs, WaitAny(c) PROVE Safe'
  BY <1>5, WaitAnySafe DEF WaitAny, Calls, Runs
<1>6. ASSUME UNCHANGED <<k, table>> PROVE Safe'
  BY <1>6 DEF Safe, NoPanic, PidsKnown, table, IsListed
<1>7. ASSUME NEW c \in Procs, WaitNoChild(c) \/ proc_kill_all(c) PROVE Safe'
  <2>1. UNCHANGED <<k, table>>
    BY <1>7 DEF WaitNoChild, proc_kill_all
  <2> QED BY <1>6, <2>1
<1>8. ASSUME NEW c \in Procs, WaitResume(c) PROVE Safe'
  <2>1. curproc = c /\ ~halted
    BY <1>8, ProcNames DEF WaitResume, IInv, TypeOK, CallsSound
  <2>2. CASE frame[c].fn = "any" /\ WaitAnyLoop(c)
    BY <2>1, <2>2, WaitAnySafe
  <2>3. CASE frame[c].fn = "pid" /\ WaitPidLoop(c, frame[c].target, frame[c].status)
    <3>1. frame[c].target \in Procs /\ IsChild(c, frame[c].target)
      BY <2>3 DEF IInv, CallsSound
    <3> QED BY <2>1, <2>3, <3>1, WaitPidSafe
  <2> QED BY <1>8, <2>2, <2>3 DEF WaitResume
<1>9. ASSUME NEW c \in Procs, CancelledExit(c) PROVE Safe'
  BY <1>9, ExitSafe DEF CancelledExit, Runs, IInv, IdleSound
<1>10. ASSUME NEW c \in Procs, KillNext(c) PROVE Safe'
  BY <1>10, KillNextSafe
<1>11. ASSUME NEW c \in Procs, KillSelf(c) PROVE Safe'
  <2>1. curproc = c /\ kill_at # 0
    <3>1. Len(proc_list) \in Nat
      BY LenProperties DEF IInv, TypeOK
    <3> QED BY <1>11, <3>1 DEF KillSelf
  <2>2. c # Idle /\ ~halted
    BY <2>1 DEF IInv, CallsSound
  <2>3. CASE ExitFrom(k, c, 0)
    BY <2>1, <2>2, <2>3, ExitSafe
  <2>4. CASE UNCHANGED <<k, table>>
    BY <1>6, <2>4
  <2> QED BY <1>11, <2>3, <2>4 DEF KillSelf
<1>12. ASSUME NEW c \in Procs, TtySleep(c) PROVE Safe'
  <2>1. /\ curproc = c /\ k' = sleep_enqueue(k, TtyQ, c, "KT_SLEEP_CANCELLABLE")
        /\ UNCHANGED table /\ TtyQ \in WaitQueues /\ "KT_SLEEP_CANCELLABLE" \in Sleeping
    BY <1>12, ProcNames DEF TtySleep, Calls, Runs, Sleeping
  <2> QED BY <2>1, SleepSafe
<1>13. ASSUME NEW c \in Procs, Yield(c) PROVE Safe'
  <2>1. /\ curproc = c /\ k' = sched_make_runnable(k, c) /\ UNCHANGED table
    BY <1>13 DEF Yield, Calls, Runs
  <2>2. k \in ThreadSystems /\ QueuesMatch(k) /\ k.kt_wchan[c] = NULL
    BY <2>1, CurrentFacts
  <2>3. LinkedAs(k, k', RunQ, c, "KT_RUN")
    BY <2>1, <2>2, MakeRunnableCorrect DEF Procs
  <2> QED BY <2>1, <2>3 DEF Safe, NoPanic, PidsKnown, LinkedAs, table, IsListed
<1>14. CASE InitDrain
  BY <1>6, <1>14 DEF InitDrain
<1>15. CASE InitLoop
  <2> DEFINE c == proc_initproc
  <2>1. c \in Procs /\ curproc = c /\ ~halted
    BY <1>15 DEF InitLoop, Runs, IInv, TypeOK
  <2>2. c # Idle
    BY <2>1, ProcNames DEF IInv, InitSound
  <2>3. CASE WaitAnyLoop(c)
    <3> HIDE DEF c
    <3> QED BY <2>1, <2>3, WaitAnySafe
  <2>4. CASE ExitFrom(k, c, 0)
    <3> HIDE DEF c
    <3> QED BY <2>1, <2>2, <2>4, ExitSafe
  <2> QED BY <1>15, <2>3, <2>4 DEF InitLoop
<1>16. CASE TtyWake
  <2>1. /\ k \in ThreadSystems /\ QueuesMatch(k) /\ StatesMatch(k)
        /\ k' = sched_wakeup_on(k, TtyQ) /\ TtyQ \in WaitQueues /\ UNCHANGED table
    BY <1>16, ProcNames DEF IInv, TypeOK, ThreadsSound, TtyWake
  <2>2. k'.panic = k.panic
    BY <2>1, WakeupThreads
  <2> QED BY <2>1, <2>2 DEF Safe, NoPanic, PidsKnown, table, IsListed
<1>17. CASE sched_switch
  <2>1. /\ k \in ThreadSystems /\ QueuesMatch(k) /\ RunQ \in Queues
        /\ k' = ktqueue_dequeue(k, RunQ) /\ UNCHANGED table
        /\ ~sched_queue_empty(k, RunQ)
    BY <1>17, ProcNames DEF IInv, TypeOK, ThreadsSound, sched_switch
  <2>2. Unlinked(k, k', RunQ, Head(k.tq[RunQ]))
    BY <2>1, DequeueCorrect, Zenon
  <2> QED BY <2>1, <2>2 DEF Safe, NoPanic, PidsKnown, Unlinked, table, IsListed
<1>18. CASE hard_shutdown \/ UNCHANGED vars
  BY <1>6, <1>18 DEF hard_shutdown, vars
<1> QED BY <1>1, <1>2, <1>3, <1>4, <1>5, <1>7, <1>8, <1>9, <1>10, <1>11, <1>12, <1>13,
           <1>14, <1>15, <1>16, <1>17, <1>18 DEF Next

\* With at least as many pids as process objects no KASSERT of proc.c, kthread.c,
\* kmain.c or the queues ever fails, however processes exit, wait and are killed.
THEOREM ProcNeverPanics ==
  ASSUME EnoughPids
  PROVE  Spec => []NoPanic
<1>1. Init => IInv /\ Safe
  <2> SUFFICES ASSUME Init PROVE Safe
    BY InitIInv
  <2>1. NoPanic
    <3>1. EmptySystem \in ThreadSystems /\ ~EmptySystem.panic
          /\ EmptySystem.kt_wchan[Idle] = NULL /\ Idle \in Threads
      <4>1. << >> \in Seq(Threads)
        BY EmptySeq
      <4> QED BY <4>1, ProcNames DEF EmptySystem, ThreadSystems, ThreadStates, Procs
    <3>2. QueuesMatch(EmptySystem)
      BY ProcNames DEF EmptySystem, QueuesMatch, Contains, IsInjective
    <3> QED BY <3>1, <3>2, CreateCorrect, Zenon DEF Init, NoPanic
  <2>2. PidsKnown
    BY DEF Init, PidsKnown, IsListed, Contains, PID_IDLE
  <2> QED BY <2>1, <2>2 DEF Safe
<1>2. (IInv /\ Safe) /\ [Next]_vars => (IInv /\ Safe)'
  BY NextIInv, NextSafe
<1>3. IInv /\ Safe => NoPanic
  BY DEF Safe
<1> QED BY <1>1, <1>2, <1>3, PTL DEF Spec
=============================================================================
