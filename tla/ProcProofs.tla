----------------------------- MODULE ProcProofs ------------------------------
(***************************************************************************)
(* Proofs about Proc, for every number of processes: the process tree is   *)
(* consistent, do_waitpid never holds a dangling pointer, and no two       *)
(* processes have one pid.                                                 *)
(***************************************************************************)
EXTENDS ProcCreate

-----------------------------------------------------------------------------
(* Exit.                                                                   *)

\* When init has no children, it and idle are the only processes.
LEMMA InitIsLast ==
  ASSUME IInv, ~halted, proc_initproc \in Procs, IsListed(proc_initproc),
         \A y \in Procs : ~IsChild(proc_initproc, y)
  PROVE  \A p \in Procs : IsListed(p) => p \in {Idle, proc_initproc}
<1> DEFINE S == {p \in Procs \ {Idle} : IsListed(p) /\ p # proc_initproc}
<1> SUFFICES ASSUME S # {} PROVE FALSE
  OBVIOUS
<1>1. S \in SUBSET {p \in Procs \ {Idle} : IsListed(p)}
  OBVIOUS
<1>2. PICK p \in S : p_pproc[p] \notin S
  BY <1>1, Zenon DEF IInv, Rooted
<1>3. p_pproc[p] \in Procs /\ IsChild(p_pproc[p], p) /\ p_state[p_pproc[p]] = "PROC_RUNNING"
  BY <1>2 DEF IInv, Linkage
<1>4. IsListed(p_pproc[p])
  BY <1>3 DEF IInv, ThreadsSound
<1>5. p_pproc[p] \in {Idle, proc_initproc}
  BY <1>2, <1>3, <1>4
<1>6. p_pproc[p] # Idle
  BY <1>2 DEF IInv, IdleSound
<1> QED BY <1>3, <1>5, <1>6

\* c exits: its parent is woken, its children go to init.
LEMMA ExitStep ==
  ASSUME IInv, NEW c \in Procs \ {Idle}, curproc = c, frame[c] = NoFrame, ~halted,
         c = proc_initproc => p_children[c] = << >>,
         NEW st \in Statuses, ExitFrom(k, c, st), kill_at' = 0
  PROVE  IInv'
<1> DEFINE i == proc_initproc
           s == set_state(k, c, "KT_EXITED")
           w == sched_wakeup_on(s, p_pproc[c])
<1>1. /\ k \in ThreadSystems /\ QueuesMatch(k) /\ StatesMatch(k)
      /\ k.kt_wchan[c] = NULL /\ k.kt_state[c] = "KT_RUN" /\ c \in Threads
      /\ p_state[c] = "PROC_RUNNING" /\ IsListed(c)
  BY CurrentFacts DEF Procs
<1>2. /\ i \in Procs /\ i # Idle /\ IsListed(i) /\ p_pproc[i] = Idle /\ p_pid[i] = PID_INIT
      /\ ~k.kt_cancelled[i]
  BY <1>1, InitExists
<1>3. p_pproc[c] \in Procs /\ p_pproc[c] \in WaitQueues
  BY <1>1, ProcNames DEF IInv, Linkage
<1>4. /\ s \in ThreadSystems /\ QueuesMatch(s) /\ s.kt_wchan = k.kt_wchan
      /\ s.kt_state = [k.kt_state EXCEPT ![c] = "KT_EXITED"]
      /\ s.kt_cancelled = k.kt_cancelled
  BY <1>1, SetStateCorrect DEF WellFormed, ThreadStates
<1>5. k' = KASSERT(w, exit_asserts(c))
  <2>1. kthread_exit(k, c) = s
    BY <1>1, ExitCorrect
  <2> QED BY <2>1 DEF ExitFrom
<1> HIDE DEF s
<1>6. StatesMatch(s) /\ w = sched_wakeup_on(s, p_pproc[c])
  <2>1. \A x \in Threads : /\ s.kt_state[x] = IF x = c THEN "KT_EXITED" ELSE k.kt_state[x]
                           /\ s.kt_wchan[x] = k.kt_wchan[x]
    BY <1>1, <1>4, FieldTypes
  <2> QED BY <1>1, <2>1, ProcNames DEF StatesMatch, Sleeping
<1> HIDE DEF w
<1>7. WellFormed(w) /\ StatesMatch(w) /\ w.kt_cancelled = s.kt_cancelled /\ SomeWoken(s, w)
  BY <1>3, <1>4, <1>6, WakeupThreads
<1>8. PICK T \in SUBSET Threads : \A x \in Threads :
              /\ x \in T => s.kt_state[x] \in Sleeping
              /\ w.kt_state[x] = IF x \in T THEN "KT_RUN" ELSE s.kt_state[x]
              /\ w.kt_wchan[x] = IF x \in T THEN RunQ ELSE s.kt_wchan[x]
  BY <1>7, Zenon DEF SomeWoken
<1>9. WellFormed(k') /\ SameThreads(w, k')
  <2>1. exit_asserts(c) \in BOOLEAN /\ w \in ThreadSystems /\ QueuesMatch(w)
    BY <1>7 DEF exit_asserts, WellFormed
  <2> QED BY <1>5, <2>1, AssertFields, Zenon
<1>10. StatesMatch(k')
  BY <1>7, <1>9 DEF StatesMatch, SameThreads
<1>11. \A x \in Procs :
         /\ k'.kt_state[x] = "KT_NO_STATE" <=> k.kt_state[x] = "KT_NO_STATE"
         /\ k'.kt_state[x] = "KT_EXITED" <=> k.kt_state[x] = "KT_EXITED" \/ x = c
         /\ k'.kt_cancelled[x] = k.kt_cancelled[x]
  <2>1. \A x \in Procs : s.kt_state[x] = IF x = c THEN "KT_EXITED" ELSE k.kt_state[x]
    BY <1>1, <1>4, FieldTypes DEF Procs
  <2> QED BY <1>1, <1>4, <1>7, <1>8, <1>9, <2>1 DEF SameThreads, Sleeping, Procs
<1>12. /\ p_children' \in [Procs -> Seq(Procs)]
       /\ \A x \in Procs : IsInjective(p_children'[x])
       /\ \A x, y \in Procs :
            IsChild(x, y)' <=> (x # c /\ IsChild(x, y)) \/ (x = i /\ IsChild(c, y))
  <2> DEFINE v == p_children[i] \o p_children[c]
  <2>1. /\ p_children \in [Procs -> Seq(Procs)]
        /\ \A x \in Procs : IsInjective(p_children[x])
    BY DEF IInv, TypeOK, Linkage
  <2>2. v \in Seq(Procs) /\ \A y : Contains(v, y) <=> IsChild(i, y) \/ IsChild(c, y)
    <3>1. v \in Seq(Procs)
      BY <1>2, <2>1, ConcatProperties
    <3> QED BY <1>2, <2>1, <3>1, ConcatContains DEF IsChild
  <2>3. c # i => IsInjective(v)
    <3>1. c # i => \A y \in Procs : ~(IsChild(i, y) /\ IsChild(c, y))
      BY <1>2 DEF IInv, Linkage
    <3> QED BY <1>2, <2>1, <3>1, ConcatContains DEF IsChild
  <2>4. << >> \in Seq(Procs) /\ IsInjective(<< >>) /\ \A y : ~Contains(<< >>, y)
    BY EmptySeq DEF IsInjective, Contains
  <2>5. p_children' = [p_children EXCEPT ![i] = v, ![c] = << >>]
    BY <1>2, <2>1 DEF ExitFrom
  <2> HIDE DEF v, i
  <2>6. /\ p_children' \in [Procs -> Seq(Procs)]
        /\ \A x \in Procs :
             p_children'[x] = IF x = c THEN << >> ELSE IF x = i THEN v ELSE p_children[x]
    BY <1>2, <2>1, <2>2, <2>4, <2>5, Zenon
  <2>7. \A x \in Procs : IsInjective(p_children'[x])
    BY <2>1, <2>3, <2>4, <2>6
  <2>8. \A y \in Procs : c = i => ~IsChild(c, y)
    BY <2>4 DEF IsChild, i
  <2>9. \A x, y \in Procs :
          IsChild(x, y)' <=> (x # c /\ IsChild(x, y)) \/ (x = i /\ IsChild(c, y))
    BY <2>2, <2>4, <2>6, <2>8 DEF IsChild
  <2> QED BY <2>6, <2>7, <2>9
<1>13. /\ \A x \in Procs : p_pproc'[x] = IF IsChild(c, x) THEN i ELSE p_pproc[x]
       /\ \A x \in Procs : p_state'[x] = IF x = c THEN "PROC_DEAD" ELSE p_state[x]
       /\ UNCHANGED <<p_pid, proc_list, proc_initproc, next_pid, frame, halted>>
       /\ curproc' = NULL
  BY DEF IInv, TypeOK, ExitFrom, IsChild
<1>14. p_state[i] = "PROC_RUNNING"
  <2>1. p_state[i] # "PROC_DEAD"
    BY <1>1, <1>2, ProcNames DEF IInv, InitSound
  <2> QED BY <1>2, <2>1, Zenon DEF IInv, TypeOK, ThreadsSound, ProcStates
<1>15. c = i => \A x \in Procs : IsListed(x) => x \in {Idle, i}
  <2> SUFFICES ASSUME c = i PROVE \A x \in Procs : IsListed(x) => x \in {Idle, i}
    OBVIOUS
  <2>1. \A y \in Procs : ~IsChild(i, y)
    BY DEF IsChild, Contains
  <2> QED BY <1>2, <2>1, InitIsLast
<1> HIDE DEF i
<1>16. TypeOK'
  <2>1. p_pproc' \in [Procs -> Procs \cup {NULL}]
    BY <1>2, <1>13 DEF IInv, TypeOK, ExitFrom, i
  <2>2. p_status' \in [Procs -> Statuses] /\ p_state' \in [Procs -> ProcStates]
    BY DEF IInv, TypeOK, ExitFrom, ProcStates
  <2> QED BY <1>9, <1>12, <1>13, <2>1, <2>2 DEF IInv, TypeOK, WellFormed
<1>17. ThreadsSound'
  <2>1. \A x \in Procs : IsListed(x)' <=> IsListed(x)
    BY <1>13 DEF IsListed
  <2>2. \A x \in Procs : /\ IsListed(x) <=> k.kt_state[x] # "KT_NO_STATE"
                         /\ p_state[x] = "free" <=> k.kt_state[x] = "KT_NO_STATE"
                         /\ p_state[x] = "PROC_DEAD" <=> k.kt_state[x] = "KT_EXITED"
    BY DEF IInv, ThreadsSound
  <2>3. k.kt_state[c] = "KT_RUN"
    BY CurrentFacts
  <2>4. \A x \in Procs : /\ IsListed(x)' <=> k'.kt_state[x] # "KT_NO_STATE"
                         /\ p_state'[x] = "free" <=> k'.kt_state[x] = "KT_NO_STATE"
                         /\ p_state'[x] = "PROC_DEAD" <=> k'.kt_state[x] = "KT_EXITED"
    BY <1>11, <1>13, <2>1, <2>2, <2>3
  <2> QED BY <1>9, <1>10, <1>13, <2>4 DEF ThreadsSound, WellFormed
<1>18. Linkage'
  <2>1. ASSUME NEW x \in Procs \ {Idle}, IsListed(x)'
        PROVE  /\ p_pproc'[x] \in Procs /\ p_state'[p_pproc'[x]] = "PROC_RUNNING"
               /\ IsChild(p_pproc[x], x)'
    <3>1. /\ IsListed(x) /\ p_pproc[x] \in Procs /\ p_state[p_pproc[x]] = "PROC_RUNNING"
          /\ IsChild(p_pproc[x], x)
      BY <1>13, <2>1 DEF IInv, Linkage, IsListed
    <3>2. \A z \in Procs : (z # c /\ IsChild(z, x)) \/ (z = i /\ IsChild(c, x)) =>
                             Contains(p_children'[z], x)
      BY <1>12 DEF IsChild
    <3>3. CASE IsChild(c, x)
      <4>1. c # i
        <5>1. c = i => p_children[c] = << >>
          BY DEF i
        <5> QED BY <3>3, <5>1 DEF IsChild, Contains
      <4> QED BY <1>2, <1>13, <1>14, <3>2, <3>3, <4>1 DEF IsChild
    <3>4. CASE ~IsChild(c, x)
      <4>1. p_pproc'[x] = p_pproc[x] /\ p_pproc[x] # c
        BY <1>13, <3>1, <3>4
      <4> QED BY <1>13, <3>1, <3>2, <4>1 DEF IsChild
    <3> QED BY <3>3, <3>4
  <2>2. ASSUME NEW x \in Procs, NEW y \in Procs, IsChild(x, y)'
        PROVE  IsListed(y)' /\ p_pproc'[y] = x
    <3>1. (x # c /\ IsChild(x, y)) \/ (x = i /\ IsChild(c, y))
      BY <1>12, <2>2
    <3>2. \A z \in Procs : IsChild(z, y) => IsListed(y) /\ p_pproc[y] = z
      BY DEF IInv, Linkage
    <3>3. IsListed(y)' <=> IsListed(y)
      BY <1>13 DEF IsListed
    <3> QED BY <1>13, <3>1, <3>2, <3>3
  <2>3. IsInjective(proc_list')
    BY <1>13 DEF IInv, Linkage
  <2> QED BY <1>12, <2>1, <2>2, <2>3 DEF Linkage
<1>19. Rooted'
  <2> SUFFICES ASSUME NEW S \in SUBSET {x \in Procs \ {Idle} : IsListed(x)}, S # {}
               PROVE  \E x \in S : p_pproc'[x] \notin S
    BY <1>13 DEF Rooted, IsListed
  <2>1. CASE i \in S
    <3>1. ~IsChild(c, i)
      BY <1>2, <1>1 DEF IInv, Linkage
    <3> QED BY <1>2, <1>13, <2>1, <3>1
  <2>2. CASE i \notin S /\ \E x \in S : IsChild(c, x)
    BY <1>13, <2>2
  <2>3. CASE ~\E x \in S : IsChild(c, x)
    <3>1. PICK x \in S : p_pproc[x] \notin S
      BY DEF IInv, Rooted
    <3> QED BY <1>13, <2>3, <3>1
  <2> QED BY <2>1, <2>2, <2>3
<1>20. IdleSound'
  <2>1. ~IsChild(c, Idle)
    BY ProcNames DEF IInv, Linkage, IdleSound
  <2> QED BY <1>2, <1>11, <1>13, <2>1, ProcNames DEF IInv, IdleSound
<1>21. InitSound'
  <2>1. ~IsChild(c, i)
    BY <1>2 DEF IInv, Linkage
  <2>2. /\ proc_initproc' = i /\ p_pproc'[i] = Idle /\ p_pid'[i] = PID_INIT /\ proc_list' = proc_list
        /\ ~k'.kt_cancelled[i] /\ Contains(proc_list', i)
        /\ p_state'[i] = "PROC_DEAD" => c = i
    BY <1>2, <1>11, <1>13, <1>14, <2>1 DEF i, IsListed
  <2> QED BY <1>2, <1>15, <2>2, ProcNames DEF InitSound, IsListed
<1>22. CallsSound'
  <2>1. ASSUME NEW x \in Procs, frame'[x].fn = "pid"
        PROVE  frame'[x].target \in Procs /\ IsChild(x, frame[x].target)'
    <3>1. frame'[x] = frame[x] /\ x # c
      <4>1. frame' = frame
        BY <1>13
      <4>2. frame[c].fn = "none"
        BY DEF NoFrame
      <4> QED BY <2>1, <4>1, <4>2
    <3>2. frame[x].target \in Procs /\ IsChild(x, frame[x].target)
      BY <2>1, <3>1 DEF IInv, CallsSound
    <3>3. \A y \in Procs : IsChild(x, y) => Contains(p_children'[x], y)
      BY <1>12, <3>1 DEF IsChild
    <3> QED BY <3>1, <3>2, <3>3 DEF IsChild
  <2> QED BY <1>13, <2>1 DEF CallsSound
<1>23. PidsSound'
  BY <1>13 DEF IInv, PidsSound, IsListed
<1> QED BY <1>16, <1>17, <1>18, <1>19, <1>20, <1>21, <1>22, <1>23 DEF IInv

-----------------------------------------------------------------------------
(* The invariant.                                                          *)

\* An iteration of do_waitpid(-1).
LEMMA WaitAnyStep ==
  ASSUME IInv, NEW c \in Procs, curproc = c, kill_at = 0, ~halted, WaitAnyLoop(c)
  PROVE  IInv'
<1>1. CASE DeadChildren(c) = {} /\ SleepInWait(k, c, [fn |-> "any", target |-> NULL, status |-> 0])
             /\ UNCHANGED <<table, init_drains, ret, kill_at, halting, halted>>
  <2> DEFINE f == [fn |-> "any", target |-> NULL, status |-> 0]
  <2>1. f \in Frames /\ f.fn # "pid" /\ c \in WaitQueues /\ "KT_SLEEP" \in Sleeping
    BY ProcNames DEF Frames, Sleeping
  <2>2. k' = sleep_enqueue(k, c, c, "KT_SLEEP") /\ frame' = [frame EXCEPT ![c] = f] /\ curproc' = NULL
    BY <1>1 DEF SleepInWait
  <2> HIDE DEF f
  <2> QED BY <1>1, <2>1, <2>2, SleepStep
<1>2. ASSUME NEW n \in DeadChildren(c), Reap(c, p_children[c][n], p_status[p_children[c][n]])
      PROVE  IInv'
  <2> DEFINE p == p_children[c][n]
  <2>1. /\ p_children[c] \in Seq(Procs) /\ n \in 1..Len(p_children[c])
        /\ p_state[p] = "PROC_DEAD"
    BY LenProperties DEF DeadChildren, IInv, TypeOK
  <2>2. p \in Procs /\ IsChild(c, p)
    BY <2>1, ElementOfSeq DEF IsChild, Contains
  <2>3. Reap(c, p, p_status[p])
    BY <1>2
  <2> HIDE DEF p
  <2> QED BY <2>1, <2>2, <2>3, ReapStep
<1> QED BY <1>1, <1>2 DEF WaitAnyLoop

\* An iteration of do_waitpid(pid) for the child p.
LEMMA WaitPidStep ==
  ASSUME IInv, NEW c \in Procs, curproc = c, kill_at = 0, ~halted,
         NEW p \in Procs, IsChild(c, p), NEW st \in Statuses, WaitPidLoop(c, p, st)
  PROVE  IInv'
<1>1. CASE SleepInWait(k, c, [fn |-> "pid", target |-> p, status |-> st])
             /\ UNCHANGED <<table, init_drains, ret, kill_at, halting, halted>>
  <2> DEFINE f == [fn |-> "pid", target |-> p, status |-> st]
  <2>1. f \in Frames /\ f.target = p /\ c \in WaitQueues /\ "KT_SLEEP" \in Sleeping
    BY ProcNames DEF Frames, Sleeping
  <2>2. k' = sleep_enqueue(k, c, c, "KT_SLEEP") /\ frame' = [frame EXCEPT ![c] = f] /\ curproc' = NULL
    BY <1>1 DEF SleepInWait
  <2> HIDE DEF f
  <2> QED BY <1>1, <2>1, <2>2, SleepStep
<1>2. CASE p_state[p] = "PROC_DEAD" /\ Reap(c, p, st)
  BY <1>2, ReapStep
<1> QED BY <1>1, <1>2 DEF WaitPidLoop

\* A thread that waited goes on.
LEMMA WaitResumeStep ==
  ASSUME IInv, NEW c \in Procs, WaitResume(c)
  PROVE  IInv'
<1>1. curproc = c /\ kill_at = 0 /\ ~halted
  BY ProcNames DEF WaitResume, IInv, TypeOK, CallsSound
<1>2. CASE frame[c].fn = "any" /\ WaitAnyLoop(c)
  BY <1>1, <1>2, WaitAnyStep
<1>3. CASE frame[c].fn = "pid" /\ WaitPidLoop(c, frame[c].target, frame[c].status)
  <2>1. frame[c] \in Frames /\ frame[c].target \in Procs /\ IsChild(c, frame[c].target)
    BY <1>3 DEF IInv, TypeOK, CallsSound
  <2>2. frame[c].status \in Statuses
    BY <2>1 DEF Frames
  <2> QED BY <1>1, <1>3, <2>1, <2>2, WaitPidStep
<1> QED BY <1>2, <1>3 DEF WaitResume

\* kthread_create and sched_make_runnable of a free object.
LEMMA SpawnThreads ==
  ASSUME NEW kk \in ThreadSystems, QueuesMatch(kk), StatesMatch(kk),
         NEW p \in Threads, kk.kt_state[p] = "KT_NO_STATE",
         NEW e, e = sched_make_runnable(kthread_create(kk, p), p)
  PROVE  /\ WellFormed(e) /\ StatesMatch(e) /\ e.panic = kk.panic
         /\ \A x \in Threads :
              /\ e.kt_state[x] = IF x = p THEN "KT_RUN" ELSE kk.kt_state[x]
              /\ e.kt_wchan[x] = IF x = p THEN RunQ ELSE kk.kt_wchan[x]
              /\ e.kt_cancelled[x] => kk.kt_cancelled[x] /\ x # p
<1> DEFINE d == kthread_create(kk, p)
<1>1. kk.kt_wchan[p] = NULL
  BY FieldTypes DEF StatesMatch, Sleeping, Queues
<1>2. /\ d \in ThreadSystems /\ QueuesMatch(d) /\ d.kt_wchan = kk.kt_wchan
      /\ d.panic = kk.panic /\ d.kt_state = [kk.kt_state EXCEPT ![p] = "KT_RUN"]
      /\ d.kt_cancelled = [kk.kt_cancelled EXCEPT ![p] = FALSE]
  BY <1>1, CreateCorrect DEF WellFormed
<1>3. e = sched_make_runnable(d, p)
  OBVIOUS
<1> HIDE DEF d
<1>4. WellFormed(e) /\ LinkedAs(d, e, RunQ, p, "KT_RUN")
  BY <1>1, <1>2, <1>3, MakeRunnableCorrect
<1>5. \A x \in Threads :
        /\ e.kt_state[x] = IF x = p THEN "KT_RUN" ELSE kk.kt_state[x]
        /\ e.kt_wchan[x] = IF x = p THEN RunQ ELSE kk.kt_wchan[x]
        /\ e.kt_cancelled[x] => kk.kt_cancelled[x] /\ x # p
  BY <1>2, <1>4, FieldTypes DEF LinkedAs
<1>6. StatesMatch(e)
  BY <1>1, <1>5, ProcNames DEF StatesMatch, Sleeping
<1> QED BY <1>2, <1>4, <1>5, <1>6 DEF LinkedAs

\* A process creates a child.
LEMMA SpawnStep ==
  ASSUME IInv, NEW c \in Procs, NEW p \in Procs, Spawn(c, p)
  PROVE  IInv'
<1> DEFINE b == proc_create_asserts(c)
           kk == KASSERT(k, b)
<1>1. /\ curproc = c /\ kill_at = 0 /\ ~halted /\ c # Idle /\ p \in FreeObjects
      /\ k.kt_state[p] = "KT_NO_STATE" /\ proc_create(c, p)
      /\ UNCHANGED <<curproc, frame, kill_at, halted>>
  BY DEF Spawn, Calls, Runs, FreeObjects
<1>2. /\ k \in ThreadSystems /\ QueuesMatch(k) /\ StatesMatch(k)
      /\ k.kt_wchan[c] = NULL /\ k.kt_state[c] = "KT_RUN"
  BY <1>1, CurrentFacts
<1>3. WellFormed(kk) /\ SameThreads(k, kk)
  <2>1. b \in BOOLEAN
    BY DEF proc_create_asserts
  <2> HIDE DEF b
  <2> QED BY <1>2, <2>1, AssertFields
<1>4. k' = sched_make_runnable(kthread_create(kk, p), p)
  BY DEF Spawn
<1> HIDE DEF kk
<1>5. kk \in ThreadSystems /\ QueuesMatch(kk) /\ StatesMatch(kk) /\ kk.kt_state[p] = "KT_NO_STATE"
  BY <1>1, <1>2, <1>3 DEF WellFormed, SameThreads, StatesMatch
<1>6. /\ WellFormed(k') /\ StatesMatch(k')
      /\ \A x \in Threads :
           /\ k'.kt_state[x] = IF x = p THEN "KT_RUN" ELSE kk.kt_state[x]
           /\ k'.kt_wchan[x] = IF x = p THEN RunQ ELSE kk.kt_wchan[x]
           /\ k'.kt_cancelled[x] => kk.kt_cancelled[x] /\ x # p
  BY <1>4, <1>5, SpawnThreads DEF Procs
<1>7. \A x \in Procs : KeptBut(p, x)
  BY <1>1, <1>3, <1>6 DEF KeptBut, SameThreads, Procs
<1>8. CurrentSound'
  BY <1>1, <1>2, <1>3, <1>6 DEF CurrentSound, SameThreads, Procs
<1>9. NoFrame \in Frames /\ NoFrame.fn # "pid"
  BY ProcNames DEF Frames, NoFrame
<1> QED BY <1>1, <1>6, <1>7, <1>8, <1>9, CreateStep

\* Idle creates init and waits for it.
LEMMA IdleStep ==
  ASSUME IInv, NEW p \in Procs, idleproc_run(p)
  PROVE  IInv'
<1> DEFINE b == proc_create_asserts(Idle) /\ _proc_getid = PID_INIT
           e == sched_make_runnable(kthread_create(k, p), p)
           a == KASSERT(e, b)
           f == [fn |-> "any", target |-> NULL, status |-> 0]
<1>1. /\ curproc = Idle /\ kill_at = 0 /\ ~halted /\ p \in FreeObjects
      /\ proc_initproc = NULL /\ k.kt_state[p] = "KT_NO_STATE" /\ proc_create(Idle, p)
      /\ UNCHANGED <<kill_at, halted>>
  BY DEF idleproc_run, Runs, FreeObjects
<1>2. /\ k \in ThreadSystems /\ QueuesMatch(k) /\ StatesMatch(k) /\ Idle \in Procs
      /\ k.kt_wchan[Idle] = NULL /\ k.kt_state[Idle] = "KT_RUN"
  BY <1>1, CurrentFacts, ProcNames
<1>3. /\ k' = sleep_enqueue(a, Idle, Idle, "KT_SLEEP") /\ curproc' = NULL
      /\ frame' = [frame EXCEPT ![Idle] = f]
  BY DEF idleproc_run, SleepInWait
<1>4. /\ WellFormed(e) /\ StatesMatch(e)
      /\ \A x \in Threads :
           /\ e.kt_state[x] = IF x = p THEN "KT_RUN" ELSE k.kt_state[x]
           /\ e.kt_wchan[x] = IF x = p THEN RunQ ELSE k.kt_wchan[x]
           /\ e.kt_cancelled[x] => k.kt_cancelled[x] /\ x # p
  BY <1>1, <1>2, SpawnThreads DEF Procs
<1>5. b \in BOOLEAN
  BY DEF proc_create_asserts
<1> HIDE DEF e, b
<1>6. WellFormed(a) /\ SameThreads(e, a)
  BY <1>4, <1>5, AssertFields DEF WellFormed
<1> HIDE DEF a
<1>7. Idle # p /\ a.kt_wchan[Idle] = NULL /\ a.kt_state[Idle] = "KT_RUN" /\ StatesMatch(a)
  BY <1>1, <1>2, <1>4, <1>6, Zenon DEF SameThreads, StatesMatch, Procs
<1>8. WellFormed(k') /\ LinkedAs(a, k', Idle, Idle, "KT_SLEEP")
  BY <1>2, <1>3, <1>6, <1>7, SleepCorrect, ProcNames DEF WellFormed, ThreadStates, Sleeping, Procs
<1>9. \A x \in Threads :
        /\ k'.kt_state[x] = IF x = Idle THEN "KT_SLEEP" ELSE a.kt_state[x]
        /\ k'.kt_wchan[x] = IF x = Idle THEN Idle ELSE a.kt_wchan[x]
        /\ k'.kt_cancelled[x] = a.kt_cancelled[x]
  BY <1>2, <1>6, <1>8, FieldTypes DEF LinkedAs, WellFormed, Procs
<1>10. StatesMatch(k')
  BY <1>2, <1>7, <1>9, ProcNames DEF StatesMatch, Sleeping, Procs
<1>11. \A x \in Procs : KeptBut(p, x)
  <2>1. \A x \in Procs :
          /\ k'.kt_state[x] = IF x = Idle THEN "KT_SLEEP" ELSE IF x = p THEN "KT_RUN" ELSE k.kt_state[x]
          /\ k'.kt_cancelled[x] => k.kt_cancelled[x] /\ x # p
    BY <1>4, <1>6, <1>9 DEF SameThreads, Procs
  <2> QED BY <1>1, <1>2, <1>7, <2>1 DEF KeptBut
<1>12. CurrentSound'
  BY <1>3 DEF CurrentSound
<1>13. f \in Frames /\ f.fn # "pid"
  BY ProcNames DEF Frames
<1> HIDE DEF f
<1> QED BY <1>1, <1>2, <1>3, <1>8, <1>10, <1>11, <1>12, <1>13, CreateStep, Zenon

\* The invariant holds when the idle thread starts.
LEMMA InitIInv == Init => IInv
<1> SUFFICES ASSUME Init PROVE IInv
  OBVIOUS
<1> DEFINE e == EmptySystem
<1>1. /\ e \in ThreadSystems
      /\ e.kt_wchan = [t \in Threads |-> NULL] /\ e.tq = [q \in Queues |-> << >>]
      /\ e.kt_state = [t \in Threads |-> "KT_NO_STATE"]
      /\ e.kt_cancelled = [t \in Threads |-> FALSE]
  <2>1. << >> \in Seq(Threads)
    BY EmptySeq
  <2> QED BY <2>1 DEF EmptySystem, ThreadSystems, ThreadStates
<1>2. QueuesMatch(e)
  BY <1>1, ProcNames DEF QueuesMatch, Contains, IsInjective
<1>3. Idle \in Threads /\ e.kt_wchan[Idle] = NULL /\ k = kthread_create(e, Idle)
  BY <1>1, ProcNames DEF Procs, Init
<1> HIDE DEF e
<1>4. /\ WellFormed(k)
      /\ k.kt_state = [e.kt_state EXCEPT ![Idle] = "KT_RUN"]
      /\ k.kt_cancelled = [e.kt_cancelled EXCEPT ![Idle] = FALSE]
      /\ k.kt_wchan = e.kt_wchan
  BY <1>1, <1>2, <1>3, CreateCorrect, Zenon
<1>5. \A x \in Procs : /\ k.kt_state[x] = IF x = Idle THEN "KT_RUN" ELSE "KT_NO_STATE"
                       /\ k.kt_wchan[x] = NULL /\ ~k.kt_cancelled[x]
  BY <1>1, <1>4 DEF Procs
<1>6. StatesMatch(k)
  BY <1>5, ProcNames DEF StatesMatch, Sleeping, Procs
<1>7. << >> \in Seq(Procs) /\ << Idle >> \in Seq(Procs)
  BY EmptySeq, ProcNames
<1>8. /\ \A x \in Procs : IsListed(x) <=> x = Idle
      /\ \A x, y \in Procs : ~IsChild(x, y)
  BY DEF Init, IsListed, IsChild, Contains
<1>9. TypeOK
  <2>1. NoFrame \in Frames
    BY ProcNames DEF NoFrame, Frames
  <2>2. frame \in [Procs -> Frames] /\ p_children \in [Procs -> Seq(Procs)]
    BY <1>7, <2>1 DEF Init
  <2>3. p_pid \in [Procs -> Int] /\ p_state \in [Procs -> ProcStates]
    BY DEF Init, ProcStates, PID_IDLE
  <2>4. p_pproc \in [Procs -> Procs \cup {NULL}] /\ p_status \in [Procs -> Statuses]
    BY ProcNames DEF Init
  <2>5. next_pid \in 0..PROC_MAX_COUNT - 1
    BY ProcNames DEF Init
  <2>6. curproc \in Procs \cup {NULL} /\ proc_list \in Seq(Procs)
    BY <1>7, ProcNames DEF Init
  <2> QED BY <1>4, <2>2, <2>3, <2>4, <2>5, <2>6, Zenon DEF TypeOK, Init, WellFormed
<1>10. ThreadsSound
  BY <1>4, <1>5, <1>6, <1>8, ProcNames DEF ThreadsSound, WellFormed, Init
<1>11. Linkage
  <2>1. IsInjective(<< >>) /\ IsInjective(<< Idle >>)
    BY DEF IsInjective
  <2> QED BY <1>8, <2>1 DEF Linkage, Init
<1>12. Rooted
  BY <1>8 DEF Rooted
<1>13. IdleSound
  BY <1>5, ProcNames DEF IdleSound, Init
<1>14. InitSound
  BY DEF InitSound, Init, PID_INIT
<1>15. CallsSound
  BY DEF CallsSound, Init, NoFrame
<1>16. PidsSound
  BY <1>8, ProcNames DEF PidsSound, Init, PID_IDLE
<1> QED BY <1>9, <1>10, <1>11, <1>12, <1>13, <1>14, <1>15, <1>16 DEF IInv

\* Every step keeps the invariant.
LEMMA NextIInv == IInv /\ [Next]_vars => IInv'
<1> SUFFICES ASSUME IInv, [Next]_vars PROVE IInv'
  OBVIOUS
<1>0. kill_at \in Nat /\ 0 \in Statuses /\ p_status \in [Procs -> Statuses]
  BY ProcNames DEF IInv, TypeOK
<1>1. ASSUME NEW p \in Procs, idleproc_run(p) PROVE IInv'
  BY <1>1, IdleStep
<1>2. ASSUME NEW c \in Procs, NEW p \in Procs, Spawn(c, p) PROVE IInv'
  BY <1>2, SpawnStep
<1>3. ASSUME NEW c \in Procs, NEW pid \in 1..PROC_MAX_COUNT - 1, WaitPid(c, pid) PROVE IInv'
  <2>1. PICK p \in ToSet(p_children[c]) : WaitPidLoop(c, p, p_status[p])
    BY <1>3 DEF WaitPid
  <2>2. p \in Procs /\ IsChild(c, p)
    <3>1. p_children[c] \in Seq(Procs) /\ DOMAIN p_children[c] = 1..Len(p_children[c])
      BY LenProperties DEF IInv, TypeOK
    <3>2. \E n \in 1..Len(p_children[c]) : p = p_children[c][n]
      BY <2>1, <3>1 DEF ToSet
    <3> QED BY <3>1, <3>2, ElementOfSeq DEF IsChild, Contains
  <2>3. curproc = c /\ kill_at = 0 /\ ~halted
    BY <1>3 DEF WaitPid, Calls, Runs
  <2> QED BY <1>0, <2>1, <2>2, <2>3, WaitPidStep
<1>4. ASSUME NEW c \in Procs, NEW st \in Statuses, do_exit(c, st) PROVE IInv'
  BY <1>4, ExitStep DEF do_exit, Calls, Runs
<1>5. ASSUME NEW c \in Procs, WaitAny(c) PROVE IInv'
  BY <1>5, WaitAnyStep DEF WaitAny, Calls, Runs
<1>6. ASSUME NEW c \in Procs, WaitNoChild(c) PROVE IInv'
  BY <1>0, <1>6, StillStep DEF WaitNoChild
<1>7. ASSUME NEW c \in Procs, WaitResume(c) PROVE IInv'
  BY <1>7, WaitResumeStep
<1>8. ASSUME NEW c \in Procs, CancelledExit(c) PROVE IInv'
  <2>1. /\ curproc = c /\ frame[c] = NoFrame /\ kill_at = 0 /\ ~halted /\ k.kt_cancelled[c]
        /\ ExitFrom(k, c, 0) /\ kill_at' = 0
    BY <1>8 DEF CancelledExit, Runs
  <2>2. c # Idle /\ IsListed(c)
    BY <2>1, CurrentFacts DEF IInv, IdleSound
  <2>3. c # proc_initproc
    BY <2>1, <2>2, InitExists
  <2> QED BY <1>0, <2>1, <2>2, <2>3, ExitStep
<1>9. ASSUME NEW c \in Procs, proc_kill_all(c) PROVE IInv'
  <2>1. c \in Procs \ {Idle} /\ Runs(c) /\ kill_at' = 1
    BY <1>9 DEF proc_kill_all, Calls
  <2>2. UNCHANGED <<k, curproc, table, frame, halted>>
    BY <1>9 DEF proc_kill_all
  <2> QED BY <2>1, <2>2, StillStep
<1>10. ASSUME NEW c \in Procs, KillNext(c) PROVE IInv'
  BY <1>10, KillNextStep
<1>11. ASSUME NEW c \in Procs, KillSelf(c) PROVE IInv'
  <2>1. curproc = c /\ kill_at # 0 /\ kill_at' = 0
    <3>1. Len(proc_list) \in Nat
      BY LenProperties DEF IInv, TypeOK
    <3> QED BY <1>11, <3>1 DEF KillSelf
  <2>2. c # Idle /\ frame[c] = NoFrame /\ ~halted /\ IsListed(c)
    BY <2>1, CurrentFacts DEF IInv, CallsSound
  <2>3. CASE p_pid[p_pproc[c]] # PID_IDLE /\ ExitFrom(k, c, 0)
    <3>1. c # proc_initproc
      BY <2>2, <2>3, InitExists DEF IInv, IdleSound
    <3> QED BY <1>0, <2>1, <2>2, <2>3, <3>1, ExitStep
  <2>4. CASE UNCHANGED <<k, curproc, table, frame, init_drains, ret, halted>>
    BY <2>1, <2>4, StillStep
  <2> QED BY <1>11, <2>3, <2>4 DEF KillSelf
<1>12. ASSUME NEW c \in Procs, TtySleep(c) PROVE IInv'
  <2>1. /\ curproc = c /\ kill_at = 0 /\ ~halted /\ frame[c] = NoFrame
        /\ k' = sleep_enqueue(k, TtyQ, c, "KT_SLEEP_CANCELLABLE") /\ curproc' = NULL
        /\ UNCHANGED <<table, kill_at, halted>> /\ frame' = frame
    BY <1>12 DEF TtySleep, Calls, Runs
  <2>2. /\ frame' = [frame EXCEPT ![c] = NoFrame] /\ NoFrame \in Frames /\ NoFrame.fn # "pid"
        /\ TtyQ \in WaitQueues /\ "KT_SLEEP_CANCELLABLE" \in Sleeping
    BY <2>1, ProcNames DEF IInv, TypeOK, NoFrame, Frames, Sleeping
  <2> QED BY <2>1, <2>2, SleepStep, Zenon
<1>13. ASSUME NEW c \in Procs, Yield(c) PROVE IInv'
  BY <1>13, YieldStep
<1>14. CASE InitDrain
  BY <1>0, <1>14, StillStep DEF InitDrain
<1>15. CASE InitLoop
  <2> DEFINE c == proc_initproc
  <2>1. c \in Procs /\ curproc = c /\ frame[c] = NoFrame /\ kill_at = 0 /\ ~halted
    BY <1>15 DEF InitLoop, Runs, IInv, TypeOK
  <2>2. c # Idle
    BY <2>1, ProcNames DEF IInv, InitSound
  <2>3. CASE p_children[c] # << >> /\ WaitAnyLoop(c)
    <3> HIDE DEF c
    <3> QED BY <2>1, <2>3, WaitAnyStep
  <2>4. CASE p_children[c] = << >> /\ ExitFrom(k, c, 0) /\ kill_at' = kill_at
    BY <1>0, <2>1, <2>2, <2>4, ExitStep
  <2> QED BY <1>15, <2>3, <2>4 DEF InitLoop
<1>16. CASE TtyWake
  BY <1>16, TtyWakeStep
<1>17. CASE sched_switch
  BY <1>17, SwitchStep
<1>18. CASE hard_shutdown \/ UNCHANGED vars
  BY <1>0, <1>18, StillStep DEF hard_shutdown, vars
<1> QED BY <1>1, <1>2, <1>3, <1>4, <1>5, <1>6, <1>7, <1>8, <1>9, <1>10, <1>11, <1>12,
           <1>13, <1>14, <1>15, <1>16, <1>17, <1>18 DEF Next

\* The invariant holds in every state the processes reach.
THEOREM ProcInvariant == Spec => []IInv
<1>1. Init => IInv
  BY InitIInv
<1>2. IInv /\ [Next]_vars => IInv'
  BY NextIInv
<1> QED BY <1>1, <1>2, PTL DEF Spec

\* Parents and children agree, whatever exits, is killed or is reaped in whatever
\* order: every process but idle has a parent that exists and is not a zombie
\* (proc_create, proc_cleanup, do_waitpid).
THEOREM ProcFamilyTree == Spec => []FamilyTree
<1>1. IInv => FamilyTree
  <2> SUFFICES ASSUME IInv PROVE FamilyTree
    OBVIOUS
  <2>1. TypeOK /\ Listed \subseteq Procs /\ \A p \in Procs : p \in Listed <=> IsListed(p)
    BY ListedIs DEF IInv
  <2>2. ASSUME NEW p \in Listed \ {Idle}
        PROVE  /\ p_pproc[p] \in Listed /\ p_state[p_pproc[p]] = "PROC_RUNNING"
               /\ Contains(p_children[p_pproc[p]], p)
    <3>1. /\ p_pproc[p] \in Procs /\ p_state[p_pproc[p]] = "PROC_RUNNING"
          /\ IsChild(p_pproc[p], p)
      BY <2>1 DEF IInv, Linkage
    <3>2. IsListed(p_pproc[p])
      BY <3>1 DEF IInv, ThreadsSound
    <3> QED BY <2>1, <3>1, <3>2 DEF IsChild
  <2>3. ASSUME NEW c \in Procs, NEW p \in ToSet(p_children[c])
        PROVE  p \in Listed /\ p_pproc[p] = c
    <3>1. p_children[c] \in Seq(Procs) /\ DOMAIN p_children[c] = 1..Len(p_children[c])
      BY <2>1, LenProperties DEF TypeOK
    <3>2. \E n \in 1..Len(p_children[c]) : p = p_children[c][n]
      BY <3>1 DEF ToSet
    <3>3. p \in Procs /\ IsChild(c, p)
      BY <3>1, <3>2, ElementOfSeq DEF IsChild, Contains
    <3> QED BY <2>1, <3>3 DEF IInv, Linkage
  <2> QED BY <2>2, <2>3 DEF FamilyTree
<1> QED BY <1>1, ProcInvariant, PTL

\* The child that do_waitpid waits for across its sleeps stays a child of the
\* caller, so the pointer does not dangle.
THEOREM ProcWaitTargetStays == Spec => []WaitTargetStays
<1>1. IInv => WaitTargetStays
  BY DEF IInv, CallsSound, WaitTargetStays, IsChild
<1> QED BY <1>1, ProcInvariant, PTL

\* Two processes that exist at the same time never have the same pid, however
\* often next_pid wraps around (_proc_getid).
THEOREM ProcPidsUnique == Spec => []PidsUnique
<1>1. IInv => PidsUnique
  BY ListedIs DEF IInv, PidsSound, PidsUnique
<1> QED BY <1>1, ProcInvariant, PTL
=============================================================================
