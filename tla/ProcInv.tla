------------------------------- MODULE ProcInv -------------------------------
(***************************************************************************)
(* The inductive invariant of Proc, and the steps that keep it: sleeping,  *)
(* waking, cancelling and switching, and the reaping of a zombie.          *)
(***************************************************************************)
EXTENDS Proc, KTQueueProofs

-----------------------------------------------------------------------------
(* The inductive invariant.                                                *)

ProcStates == {"free", "PROC_RUNNING", "PROC_DEAD"}

Frames == [fn : {"none", "any", "pid"}, target : Procs \cup {NULL}, status : Statuses]

\* The type of the state.
TypeOK ==
  /\ k \in ThreadSystems
  /\ curproc \in Procs \cup {NULL}
  /\ p_pid \in [Procs -> Int]
  /\ p_pproc \in [Procs -> Procs \cup {NULL}]
  /\ p_children \in [Procs -> Seq(Procs)]
  /\ p_status \in [Procs -> Statuses]
  /\ p_state \in [Procs -> ProcStates]
  /\ proc_list \in Seq(Procs)
  /\ proc_initproc \in Procs \cup {NULL}
  /\ next_pid \in 0..PROC_MAX_COUNT - 1
  /\ frame \in [Procs -> Frames]
  /\ kill_at \in Nat
  /\ halted \in BOOLEAN

IsListed(p) == Contains(proc_list, p)

IsChild(c, p) == Contains(p_children[c], p)

\* The queues are sound, a process and its thread are in step, and the current
\* thread is on no queue.
ThreadsSound ==
  /\ QueuesMatch(k)
  /\ StatesMatch(k)
  /\ \A p \in Procs : IsListed(p) <=> k.kt_state[p] # "KT_NO_STATE"
  /\ \A p \in Procs : p_state[p] = "free" <=> k.kt_state[p] = "KT_NO_STATE"
  /\ \A p \in Procs : p_state[p] = "PROC_DEAD" <=> k.kt_state[p] = "KT_EXITED"
  /\ curproc # NULL => k.kt_wchan[curproc] = NULL /\ k.kt_state[curproc] = "KT_RUN"

\* The lists hold each process once, and parents and children agree.
Linkage ==
  /\ IsInjective(proc_list)
  /\ \A c \in Procs : IsInjective(p_children[c])
  /\ \A p \in Procs \ {Idle} : IsListed(p) =>
       /\ p_pproc[p] \in Procs
       /\ p_state[p_pproc[p]] = "PROC_RUNNING"
       /\ IsChild(p_pproc[p], p)
  /\ \A c, p \in Procs : IsChild(c, p) => IsListed(p) /\ p_pproc[p] = c

\* Going from child to parent never runs in a circle.
Rooted ==
  \A S \in SUBSET {p \in Procs \ {Idle} : IsListed(p)} :
    S # {} => \E p \in S : p_pproc[p] \notin S

\* The idle process never exits, and init is its only child.
IdleSound ==
  /\ p_pproc[Idle] = NULL
  /\ p_pid[Idle] = PID_IDLE
  /\ p_state[Idle] = "PROC_RUNNING"
  /\ ~k.kt_cancelled[Idle]
  /\ \A p \in Procs : p_pproc[p] = Idle => p = proc_initproc

\* Init exists from its creation to the shutdown, is never cancelled, and is the
\* last process to exit.
InitSound ==
  /\ proc_initproc = NULL => proc_list = << Idle >> /\ next_pid = PID_INIT
  /\ proc_initproc # NULL /\ ~halted =>
       /\ proc_initproc # Idle
       /\ IsListed(proc_initproc)
       /\ p_pproc[proc_initproc] = Idle
       /\ p_pid[proc_initproc] = PID_INIT
       /\ ~k.kt_cancelled[proc_initproc]
       /\ p_state[proc_initproc] = "PROC_DEAD" =>
            \A p \in Procs : IsListed(p) => p \in {Idle, proc_initproc}

\* What holds while a thread is inside do_waitpid or proc_kill_all, and after the
\* shutdown.
CallsSound ==
  /\ \A c \in Procs : frame[c].fn = "pid" =>
       frame[c].target \in Procs /\ IsChild(c, frame[c].target)
  /\ kill_at # 0 => curproc \in Procs \ {Idle} /\ frame[curproc] = NoFrame /\ ~halted
  /\ halted => curproc = Idle /\ frame[Idle] = NoFrame

\* Pids in use are pids, and two processes share one only when it is -1.
PidsSound ==
  \A p \in Procs : IsListed(p) =>
    /\ p_pid[p] \in -1..PROC_MAX_COUNT - 1
    /\ \A q \in Procs : IsListed(q) /\ p # q /\ p_pid[p] = p_pid[q] => p_pid[p] = -1

IInv ==
  /\ TypeOK /\ ThreadsSound /\ Linkage /\ Rooted
  /\ IdleSound /\ InitSound /\ CallsSound /\ PidsSound

\* The names of processes and queues.
LEMMA ProcNames ==
  /\ Idle \in Procs /\ NULL \notin Procs /\ NULL \notin Queues /\ NULL # Idle
  /\ Procs \subseteq WaitQueues /\ TtyQ \in WaitQueues
  /\ WaitQueues \subseteq Queues /\ RunQ \in Queues /\ RunQ \notin WaitQueues
  /\ 0 \in Statuses /\ PROC_MAX_COUNT \in Nat /\ PROC_MAX_COUNT >= 2
BY QueueNames, ProcConstants DEF Procs, Queues

\* The elements of the set Listed.
LEMMA ListedIs ==
  ASSUME TypeOK
  PROVE  /\ \A p \in Procs : p \in Listed <=> IsListed(p)
         /\ Listed \subseteq Procs
<1>1. proc_list \in Seq(Procs) /\ DOMAIN proc_list = 1..Len(proc_list)
  BY LenProperties DEF TypeOK
<1>2. \A i \in 1..Len(proc_list) : proc_list[i] \in Procs
  BY <1>1, ElementOfSeq
<1> QED BY <1>1, <1>2 DEF Listed, ToSet, IsListed, Contains

\* e is k except for the panic flag.
SameThreads(kk, e) ==
  /\ e.kt_state = kk.kt_state
  /\ e.kt_wchan = kk.kt_wchan
  /\ e.kt_cancelled = kk.kt_cancelled
  /\ e.tq = kk.tq

\* KASSERT changes only the panic flag, and not even that when the assertion holds.
LEMMA AssertFields ==
  ASSUME NEW kk \in ThreadSystems, QueuesMatch(kk), NEW b \in BOOLEAN
  PROVE  /\ WellFormed(KASSERT(kk, b))
         /\ SameThreads(kk, KASSERT(kk, b))
         /\ b => KASSERT(kk, b) = kk
<1> DEFINE e == KASSERT(kk, b)
<1>1. e \in ThreadSystems
  BY FieldTypes, Zenon DEF KASSERT, ThreadSystems
<1>2. SameThreads(kk, e)
  BY FieldTypes DEF KASSERT, ThreadSystems, SameThreads
<1>3. QueuesMatch(e)
  BY <1>2 DEF SameThreads, QueuesMatch
<1>4. b => e = kk
  BY AssertHolds, Zenon
<1> QED BY <1>1, <1>2, <1>3, <1>4 DEF WellFormed

-----------------------------------------------------------------------------
(* Steps that leave the process table alone.                               *)

\* What a step on threads must keep of thread x.
Kept(x) ==
  /\ k'.kt_state[x] = "KT_NO_STATE" <=> k.kt_state[x] = "KT_NO_STATE"
  /\ k'.kt_state[x] = "KT_EXITED" <=> k.kt_state[x] = "KT_EXITED"
  /\ k'.kt_cancelled[x] => k.kt_cancelled[x] \/ (x # Idle /\ p_pproc[x] # Idle)

\* The current thread is on no queue.
CurrentSound == curproc # NULL => k.kt_wchan[curproc] = NULL /\ k.kt_state[curproc] = "KT_RUN"

\* A step that keeps the table and, of the threads, what the table knows of them.
LEMMA QuietStep ==
  ASSUME IInv, UNCHANGED <<table, halted>>,
         WellFormed(k'), StatesMatch(k'), \A x \in Procs : Kept(x),
         curproc' \in Procs \cup {NULL}, CurrentSound',
         frame' \in [Procs -> Frames], kill_at' \in Nat, CallsSound'
  PROVE  IInv'
<1>1. TypeOK'
  BY DEF IInv, TypeOK, table, WellFormed
<1>2. ThreadsSound'
  BY DEF IInv, ThreadsSound, table, WellFormed, Kept, CurrentSound, IsListed
<1>3. Linkage' /\ Rooted'
  BY DEF IInv, Linkage, Rooted, table, IsListed, IsChild
<1>4. IdleSound'
  BY ProcNames DEF IInv, IdleSound, table, Kept
<1>5. InitSound'
  BY DEF IInv, TypeOK, InitSound, table, Kept, IsListed
<1>6. PidsSound'
  BY DEF IInv, PidsSound, table, IsListed
<1> QED BY <1>1, <1>2, <1>3, <1>4, <1>5, <1>6 DEF IInv

\* What the invariant says of a process that runs.
LEMMA CurrentFacts ==
  ASSUME IInv, NEW c \in Procs, curproc = c
  PROVE  /\ k \in ThreadSystems /\ QueuesMatch(k) /\ StatesMatch(k)
         /\ k.kt_wchan[c] = NULL /\ k.kt_state[c] = "KT_RUN"
         /\ IsListed(c) /\ p_state[c] = "PROC_RUNNING"
BY ProcNames DEF IInv, TypeOK, ThreadsSound, ProcStates

\* The current process goes to sleep on a queue.
LEMMA SleepStep ==
  ASSUME IInv, NEW c \in Procs, curproc = c, NEW q \in WaitQueues, NEW st \in Sleeping,
         k' = sleep_enqueue(k, q, c, st), curproc' = NULL, UNCHANGED <<table, kill_at, halted>>,
         kill_at = 0, ~halted, NEW f \in Frames, frame' = [frame EXCEPT ![c] = f],
         f.fn = "pid" => f.target \in Procs /\ IsChild(c, f.target)
  PROVE  IInv'
<1>1. /\ k \in ThreadSystems /\ QueuesMatch(k) /\ StatesMatch(k)
      /\ k.kt_wchan[c] = NULL /\ k.kt_state[c] = "KT_RUN"
      /\ st \in ThreadStates /\ q \in Queues
  BY CurrentFacts, ProcNames DEF ThreadStates
<1>2. WellFormed(k') /\ LinkedAs(k, k', q, c, st)
  BY <1>1, SleepCorrect, Zenon DEF Procs
<1>3. \A x \in Procs : /\ k'.kt_state[x] = IF x = c THEN st ELSE k.kt_state[x]
                       /\ k'.kt_wchan[x] = IF x = c THEN q ELSE k.kt_wchan[x]
                       /\ k'.kt_cancelled[x] = k.kt_cancelled[x]
  BY <1>1, <1>2, FieldTypes DEF LinkedAs, Procs
<1>4. StatesMatch(k')
  BY <1>1, <1>3, ProcNames DEF StatesMatch, Procs
<1>5. \A x \in Procs : Kept(x)
  BY <1>1, <1>3 DEF Kept, Sleeping
<1>6. frame' \in [Procs -> Frames]
  BY DEF IInv, TypeOK
<1>7. CallsSound'
  BY DEF IInv, TypeOK, CallsSound, table, IsChild
<1>8. CurrentSound' /\ kill_at' \in Nat
  BY DEF CurrentSound
<1> QED BY <1>2, <1>4, <1>5, <1>6, <1>7, <1>8, QuietStep

\* Some sleepers of kk are runnable in e, and nothing else differs.
SomeWoken(kk, e) ==
  \E T \in SUBSET Threads : \A x \in Threads :
    /\ x \in T => kk.kt_state[x] \in Sleeping
    /\ e.kt_state[x] = IF x \in T THEN "KT_RUN" ELSE kk.kt_state[x]
    /\ e.kt_wchan[x] = IF x \in T THEN RunQ ELSE kk.kt_wchan[x]

\* sched_wakeup_on, seen from the threads: those of a set T, all asleep on q, become
\* runnable.
LEMMA WakeupThreads ==
  ASSUME NEW kk \in ThreadSystems, QueuesMatch(kk), StatesMatch(kk), NEW q \in WaitQueues,
         NEW e, e = sched_wakeup_on(kk, q)
  PROVE  /\ WellFormed(e) /\ StatesMatch(e)
         /\ e.kt_cancelled = kk.kt_cancelled /\ e.panic = kk.panic
         /\ SomeWoken(kk, e)
<1>1. WellFormed(e) /\ \E T \in SUBSET Threads : Woken(kk, e, q, T)
  BY WakeupCorrect
<1>2. PICK T \in SUBSET Threads : Woken(kk, e, q, T)
  BY <1>1
<1>3. \A x \in Threads : /\ x \in T => kk.kt_state[x] \in Sleeping
                         /\ e.kt_state[x] = IF x \in T THEN "KT_RUN" ELSE kk.kt_state[x]
                         /\ e.kt_wchan[x] = IF x \in T THEN RunQ ELSE kk.kt_wchan[x]
  BY <1>2 DEF Woken, StatesMatch
<1>4. StatesMatch(e)
  BY <1>3, ProcNames DEF StatesMatch, Sleeping
<1>5. SomeWoken(kk, e)
  BY <1>3 DEF SomeWoken
<1> QED BY <1>1, <1>2, <1>4, <1>5 DEF Woken

\* The interrupt handler of the terminal wakes a thread.
LEMMA TtyWakeStep ==
  ASSUME IInv, TtyWake
  PROVE  IInv'
<1>1. /\ k \in ThreadSystems /\ QueuesMatch(k) /\ StatesMatch(k)
      /\ k' = sched_wakeup_on(k, TtyQ) /\ TtyQ \in WaitQueues
      /\ UNCHANGED <<curproc, table, frame, kill_at, halted>>
  BY ProcNames DEF IInv, TypeOK, ThreadsSound, TtyWake
<1>2. WellFormed(k') /\ StatesMatch(k') /\ k'.kt_cancelled = k.kt_cancelled /\ SomeWoken(k, k')
  BY <1>1, WakeupThreads
<1>3. PICK T \in SUBSET Threads : \A x \in Threads :
              /\ x \in T => k.kt_state[x] \in Sleeping
              /\ k'.kt_state[x] = IF x \in T THEN "KT_RUN" ELSE k.kt_state[x]
              /\ k'.kt_wchan[x] = IF x \in T THEN RunQ ELSE k.kt_wchan[x]
  BY <1>2 DEF SomeWoken
<1>4. \A x \in Procs : Kept(x)
  BY <1>2, <1>3 DEF Kept, Sleeping, Procs
<1>5. CurrentSound'
  BY <1>1, <1>3, Zenon DEF IInv, TypeOK, ThreadsSound, CurrentSound, Sleeping, Procs
<1>6. /\ curproc' \in Procs \cup {NULL} /\ frame' \in [Procs -> Frames] /\ kill_at' \in Nat
      /\ CallsSound'
  BY <1>1 DEF IInv, TypeOK, CallsSound, table, IsChild
<1> QED BY <1>1, <1>2, <1>4, <1>5, <1>6, QuietStep

\* The current process puts itself on the run queue.
LEMMA YieldStep ==
  ASSUME IInv, NEW c \in Procs, Yield(c)
  PROVE  IInv'
<1>1. /\ k \in ThreadSystems /\ QueuesMatch(k) /\ StatesMatch(k)
      /\ k.kt_wchan[c] = NULL /\ k.kt_state[c] = "KT_RUN"
      /\ kill_at = 0 /\ ~halted
  BY CurrentFacts DEF Yield, Calls, Runs
<1>2. WellFormed(k') /\ LinkedAs(k, k', RunQ, c, "KT_RUN")
  BY <1>1, MakeRunnableCorrect DEF Yield, Procs
<1>3. \A x \in Procs : /\ k'.kt_state[x] = k.kt_state[x]
                       /\ k'.kt_wchan[x] = IF x = c THEN RunQ ELSE k.kt_wchan[x]
                       /\ k'.kt_cancelled[x] = k.kt_cancelled[x]
  BY <1>1, <1>2, FieldTypes DEF LinkedAs, Procs
<1>4. StatesMatch(k')
  BY <1>1, <1>3, ProcNames DEF StatesMatch, Sleeping, Procs
<1>5. \A x \in Procs : Kept(x)
  BY <1>3 DEF Kept
<1>6. /\ curproc' = NULL /\ UNCHANGED <<table, frame, kill_at, halted>>
  BY DEF Yield
<1>7. CallsSound' /\ CurrentSound' /\ frame' \in [Procs -> Frames] /\ kill_at' \in Nat
  BY <1>1, <1>6 DEF IInv, TypeOK, CallsSound, CurrentSound, table, IsChild
<1> QED BY <1>2, <1>4, <1>5, <1>6, <1>7, QuietStep

\* The dispatch of the next thread.
LEMMA SwitchStep ==
  ASSUME IInv, sched_switch
  PROVE  IInv'
<1> DEFINE t == Head(k.tq[RunQ])
<1>1. /\ k \in ThreadSystems /\ QueuesMatch(k) /\ StatesMatch(k)
      /\ ~sched_queue_empty(k, RunQ) /\ curproc = NULL /\ curproc' = t
      /\ k' = ktqueue_dequeue(k, RunQ)
      /\ UNCHANGED <<table, frame, kill_at, halted>>
  BY DEF IInv, TypeOK, ThreadsSound, sched_switch
<1>2. /\ t \in Threads /\ k.kt_wchan[t] = RunQ
      /\ WellFormed(k') /\ Unlinked(k, k', RunQ, t)
  BY <1>1, ProcNames, DequeueCorrect, Zenon
<1> HIDE DEF t
<1>3. \A x \in Threads : /\ k'.kt_wchan[x] = IF x = t THEN NULL ELSE k.kt_wchan[x]
                         /\ k'.kt_state[x] = k.kt_state[x]
                         /\ k'.kt_cancelled[x] = k.kt_cancelled[x]
  BY <1>1, <1>2, FieldTypes DEF Unlinked
<1>4. k.kt_state[t] = "KT_RUN"
  BY <1>1, <1>2 DEF StatesMatch
<1>5. StatesMatch(k')
  BY <1>1, <1>2, <1>3, <1>4, ProcNames DEF StatesMatch, Sleeping
<1>6. CurrentSound' /\ \A x \in Procs : Kept(x)
  BY <1>1, <1>2, <1>3, <1>4 DEF Kept, CurrentSound, Procs
<1>7. CallsSound'
  BY <1>1, ProcNames DEF IInv, CallsSound, table, IsChild
<1>8. curproc' \in Procs \cup {NULL} /\ frame' \in [Procs -> Frames] /\ kill_at' \in Nat
  BY <1>1, <1>2 DEF IInv, TypeOK, Procs
<1> QED BY <1>1, <1>2, <1>5, <1>6, <1>7, <1>8, QuietStep

\* A step that leaves the threads alone.
LEMMA StillStep ==
  ASSUME IInv, UNCHANGED <<k, curproc, table, frame, halted>>, kill_at' \in Nat,
         kill_at' # 0 => kill_at # 0 \/ \E c \in Procs \ {Idle} : Runs(c)
  PROVE  IInv'
<1>1. WellFormed(k') /\ StatesMatch(k') /\ CurrentSound'
  BY DEF IInv, TypeOK, ThreadsSound, CurrentSound, WellFormed
<1>2. \A x \in Procs : Kept(x)
  BY DEF Kept
<1>3. CallsSound'
  BY DEF IInv, CallsSound, table, IsChild, Runs
<1>4. curproc' \in Procs \cup {NULL} /\ frame' \in [Procs -> Frames]
  BY DEF IInv, TypeOK
<1> QED BY <1>1, <1>2, <1>3, <1>4, QuietStep

\* proc_kill_all cancels one process.
LEMMA KillNextStep ==
  ASSUME IInv, NEW c \in Procs, KillNext(c)
  PROVE  IInv'
<1> DEFINE p == proc_list[kill_at]
           m == [k EXCEPT !.kt_cancelled[p] = TRUE]
           q == k.kt_wchan[p]
<1>1. /\ k \in ThreadSystems /\ QueuesMatch(k) /\ StatesMatch(k)
      /\ k.kt_wchan[c] = NULL /\ k.kt_state[c] = "KT_RUN" /\ curproc = c
      /\ UNCHANGED <<curproc, table, frame, halted>> /\ kill_at' = kill_at + 1
      /\ kill_at \in Nat /\ kill_at # 0 /\ p \in Procs
      /\ k' = IF Victim(c, p) THEN sched_cancel(k, p) ELSE k
  <2>1. proc_list \in Seq(Procs) /\ kill_at \in 1..Len(proc_list) /\ kill_at \in Nat
    BY LenProperties DEF KillNext, IInv, TypeOK
  <2>2. p \in Procs /\ kill_at # 0
    BY <2>1, ElementOfSeq
  <2> QED BY <2>1, <2>2, CurrentFacts DEF KillNext
<1> HIDE DEF p
<1>2. CASE ~Victim(c, p)
  BY <1>1, <1>2, StillStep
<1>3. CASE Victim(c, p)
  <2>1. p # Idle /\ p_pproc[p] # Idle /\ p # c
    BY <1>3, ProcNames DEF Victim, IInv, IdleSound
  <2>2. WellFormed(m) /\ Marked(k, m, p)
    BY <1>1, MarkCancelledCorrect, Zenon DEF Procs
  <2> HIDE DEF m
  <2>3. /\ WellFormed(k') /\ StatesMatch(k')
        /\ \A x \in Procs : Kept(x) /\ (k'.kt_wchan[x] = k.kt_wchan[x] \/ x = p)
                                    /\ (k'.kt_state[x] = k.kt_state[x] \/ x = p)
    <3>1. CASE k.kt_state[p] = "KT_SLEEP_CANCELLABLE"
      <4>1. k' = sched_make_runnable(ktqueue_remove(m, q, p), p)
        BY <1>1, <1>3, <3>1 DEF sched_cancel, m
      <4>2. q \in Queues /\ m.kt_wchan[p] = q /\ m \in ThreadSystems /\ QueuesMatch(m)
        BY <1>1, <2>2, <3>1, ProcNames DEF StatesMatch, Sleeping, Marked, WellFormed, Procs
      <4>3. WellFormed(k') /\ Requeued(m, k', q, p)
        BY <1>1, <4>1, <4>2, CancelWakeCorrect DEF Procs
      <4>4. \A x \in Procs : /\ k'.kt_state[x] = IF x = p THEN "KT_RUN" ELSE k.kt_state[x]
                             /\ k'.kt_wchan[x] = IF x = p THEN RunQ ELSE k.kt_wchan[x]
                             /\ k'.kt_cancelled[x] => k.kt_cancelled[x] \/ x = p
        BY <1>1, <2>2, <4>3, FieldTypes DEF Requeued, Marked, Procs
      <4>5. StatesMatch(k')
        BY <1>1, <4>4, ProcNames DEF StatesMatch, Sleeping, Procs
      <4> QED BY <2>1, <3>1, <4>3, <4>4, <4>5 DEF Kept
    <3>2. CASE k.kt_state[p] # "KT_SLEEP_CANCELLABLE"
      <4>1. k' = m
        BY <1>1, <1>3, <3>2 DEF sched_cancel, m
      <4>2. \A x \in Procs : k'.kt_cancelled[x] => k.kt_cancelled[x] \/ x = p
        BY <1>1, <2>2, <4>1, FieldTypes DEF Marked, Procs
      <4>3. StatesMatch(k')
        BY <1>1, <2>2, <4>1 DEF StatesMatch, Marked
      <4> QED BY <2>1, <2>2, <4>1, <4>2, <4>3 DEF Kept, Marked
    <3> QED BY <3>1, <3>2
  <2>4. CurrentSound'
    BY <1>1, <2>1, <2>3 DEF CurrentSound
  <2>5. CallsSound'
    BY <1>1 DEF IInv, CallsSound, table, IsChild
  <2>6. /\ curproc' \in Procs \cup {NULL} /\ frame' \in [Procs -> Frames]
        /\ kill_at' \in Nat
    BY <1>1 DEF IInv, TypeOK
  <2> QED BY <1>1, <2>3, <2>4, <2>5, <2>6, QuietStep
<1> QED BY <1>2, <1>3

-----------------------------------------------------------------------------
(* Steps that change the process table.                                    *)

\* A process that is not running has no children.
LEMMA OnlyRunningHaveChildren ==
  ASSUME IInv, NEW p \in Procs, p_state[p] # "PROC_RUNNING"
  PROVE  \A y \in Procs : ~IsChild(p, y)
<1> SUFFICES ASSUME NEW y \in Procs, IsChild(p, y) PROVE FALSE
  OBVIOUS
<1>1. IsListed(y) /\ p_pproc[y] = p
  BY DEF IInv, Linkage
<1>2. y # Idle
  BY <1>1, ProcNames DEF IInv, IdleSound
<1> QED BY <1>1, <1>2 DEF IInv, Linkage

\* While a process other than idle exists, so does init.
LEMMA InitExists ==
  ASSUME IInv, NEW p \in Procs \ {Idle}, IsListed(p), ~halted
  PROVE  /\ proc_initproc \in Procs \ {Idle}
         /\ IsListed(proc_initproc)
         /\ p_pproc[proc_initproc] = Idle
         /\ p_pid[proc_initproc] = PID_INIT
         /\ ~k.kt_cancelled[proc_initproc]
<1>1. ASSUME proc_initproc = NULL PROVE FALSE
  <2>1. Contains(<< Idle >>, p)
    BY <1>1 DEF IInv, InitSound, IsListed
  <2> QED BY <2>1 DEF Contains
<1> QED BY <1>1 DEF IInv, TypeOK, InitSound

\* A zombie is reaped by its parent.
LEMMA ReapStep ==
  ASSUME IInv, NEW c \in Procs, curproc = c, kill_at = 0, ~halted,
         NEW p \in Procs, IsChild(c, p), p_state[p] = "PROC_DEAD", NEW st, Reap(c, p, st)
  PROVE  IInv'
<1> DEFINE d == kthread_destroy(k, p)
           b == (c = Idle => p_pid[p] = PID_INIT)
<1>1. /\ k \in ThreadSystems /\ QueuesMatch(k) /\ StatesMatch(k)
      /\ k.kt_wchan[c] = NULL /\ k.kt_state[c] = "KT_RUN"
      /\ p_state[c] = "PROC_RUNNING" /\ p # c
      /\ k.kt_state[p] = "KT_EXITED" /\ p \in Threads
      /\ IsListed(p) /\ p_pproc[p] = c /\ p # Idle
  BY CurrentFacts, ProcNames DEF IInv, ThreadsSound, Linkage, IdleSound, Procs
<1>2. /\ d \in ThreadSystems /\ QueuesMatch(d) /\ d.kt_wchan = k.kt_wchan
      /\ d.kt_state = [k.kt_state EXCEPT ![p] = "KT_NO_STATE"]
      /\ d.kt_cancelled = [k.kt_cancelled EXCEPT ![p] = FALSE]
  BY <1>1, DestroyCorrect DEF WellFormed
<1>3. WellFormed(k') /\ SameThreads(d, k')
  <2>1. k' = KASSERT(d, b) /\ b \in BOOLEAN
    BY DEF Reap
  <2> HIDE DEF b, d
  <2> QED BY <1>2, <2>1, AssertFields, Zenon
<1> HIDE DEF d, b
<1>4. \A x \in Procs : /\ k'.kt_state[x] = IF x = p THEN "KT_NO_STATE" ELSE k.kt_state[x]
                       /\ k'.kt_wchan[x] = k.kt_wchan[x]
                       /\ k'.kt_cancelled[x] => k.kt_cancelled[x]
  BY <1>1, <1>2, <1>3, FieldTypes DEF SameThreads, Procs
<1>5. StatesMatch(k')
  BY <1>1, <1>4, ProcNames DEF StatesMatch, Sleeping, Procs
<1>6. \A y \in Procs : ~IsChild(p, y)
  BY OnlyRunningHaveChildren
<1>7. /\ proc_list' \in Seq(Procs) /\ IsInjective(proc_list')
      /\ \A y \in Procs : IsListed(y)' <=> IsListed(y) /\ y # p
  <2>1. proc_list \in Seq(Procs) /\ Contains(proc_list, p) /\ IsInjective(proc_list)
        /\ proc_list' = RemoveFirst(proc_list, p)
    BY <1>1 DEF IInv, TypeOK, Linkage, IsListed, Reap
  <2> QED BY <2>1, RemoveContains DEF IsListed
<1>8. /\ p_children' \in [Procs -> Seq(Procs)]
      /\ \A x \in Procs : IsInjective(p_children'[x])
      /\ \A x, y \in Procs : IsChild(x, y)' <=> IsChild(x, y) /\ y # p
  <2> DEFINE w == RemoveFirst(p_children[c], p)
  <2>1. /\ p_children \in [Procs -> Seq(Procs)]
        /\ \A x \in Procs : IsInjective(p_children[x])
    BY DEF IInv, TypeOK, Linkage
  <2>2. /\ w \in Seq(Procs) /\ IsInjective(w)
        /\ \A y : Contains(w, y) <=> Contains(p_children[c], y) /\ y # p
    BY <2>1, RemoveContains DEF IsChild
  <2>3. << >> \in Seq(Procs) /\ IsInjective(<< >>) /\ \A y : ~Contains(<< >>, y)
    BY EmptySeq DEF IsInjective, Contains
  <2>4. p_children' = [p_children EXCEPT ![c] = w, ![p] = << >>]
    BY DEF Reap
  <2> HIDE DEF w
  <2>5. /\ p_children' \in [Procs -> Seq(Procs)]
        /\ \A x \in Procs :
             p_children'[x] = IF x = p THEN << >> ELSE IF x = c THEN w ELSE p_children[x]
    BY <1>1, <2>1, <2>2, <2>3, <2>4, Zenon
  <2>6. \A x \in Procs : IsInjective(p_children'[x])
    BY <2>1, <2>2, <2>3, <2>5
  <2>7. ASSUME NEW x \in Procs, NEW y \in Procs
        PROVE  IsChild(x, y)' <=> IsChild(x, y) /\ y # p
    <3>1. IsChild(x, p) => x = c
      BY <1>1 DEF IInv, Linkage
    <3> QED BY <1>6, <2>2, <2>3, <2>5, <3>1, Zenon DEF IsChild
  <2> QED BY <2>5, <2>6, <2>7
<1>9. /\ \A x \in Procs : p_pproc'[x] = IF x = p THEN NULL ELSE p_pproc[x]
      /\ \A x \in Procs : p_pid'[x] = IF x = p THEN -1 ELSE p_pid[x]
      /\ \A x \in Procs : p_state'[x] = IF x = p THEN "free" ELSE p_state[x]
      /\ \A x \in Procs : frame'[x] = IF x = c THEN NoFrame ELSE frame[x]
      /\ curproc' = curproc /\ proc_initproc' = proc_initproc /\ next_pid' = next_pid
      /\ kill_at' = kill_at /\ halted' = (c = Idle)
  BY <1>1 DEF IInv, TypeOK, Reap
<1>10. TypeOK'
  <2>1. /\ p_pid' \in [Procs -> Int] /\ p_pproc' \in [Procs -> Procs \cup {NULL}]
        /\ p_status' \in [Procs -> Statuses] /\ p_state' \in [Procs -> ProcStates]
    BY ProcNames DEF IInv, TypeOK, Reap, ProcStates
  <2>2. NoFrame \in Frames
    BY ProcNames DEF NoFrame, Frames
  <2>3. frame' \in [Procs -> Frames]
    BY <2>2 DEF IInv, TypeOK, Reap
  <2> QED BY <1>3, <1>7, <1>8, <1>9, <2>1, <2>3 DEF IInv, TypeOK, WellFormed
<1>11. ThreadsSound'
  <2>1. \A x \in Procs : /\ IsListed(x) <=> k.kt_state[x] # "KT_NO_STATE"
                         /\ p_state[x] = "free" <=> k.kt_state[x] = "KT_NO_STATE"
                         /\ p_state[x] = "PROC_DEAD" <=> k.kt_state[x] = "KT_EXITED"
    BY DEF IInv, ThreadsSound
  <2>2. \A x \in Procs : /\ IsListed(x)' <=> k'.kt_state[x] # "KT_NO_STATE"
                         /\ p_state'[x] = "free" <=> k'.kt_state[x] = "KT_NO_STATE"
                         /\ p_state'[x] = "PROC_DEAD" <=> k'.kt_state[x] = "KT_EXITED"
    BY <1>4, <1>7, <1>9, <2>1
  <2>3. curproc' = c /\ k'.kt_wchan[c] = NULL /\ k'.kt_state[c] = "KT_RUN"
    BY <1>1, <1>4, <1>9
  <2> QED BY <1>3, <1>5, <2>2, <2>3 DEF ThreadsSound, WellFormed
<1>12. Linkage'
  <2>1. ASSUME NEW x \in Procs \ {Idle}, IsListed(x)'
        PROVE  /\ p_pproc'[x] \in Procs /\ p_state'[p_pproc'[x]] = "PROC_RUNNING"
               /\ IsChild(p_pproc[x], x)'
    <3>1. x # p /\ p_pproc'[x] = p_pproc[x] /\ p_pproc[x] \in Procs
          /\ p_state[p_pproc[x]] = "PROC_RUNNING" /\ IsChild(p_pproc[x], x)
      BY <1>7, <1>9, <2>1 DEF IInv, Linkage
    <3>2. p_pproc[x] # p
      BY <3>1
    <3>3. \A z \in Procs : IsChild(z, x) => Contains(p_children'[z], x)
      BY <1>8, <3>1 DEF IsChild
    <3>4. IsChild(p_pproc[x], x)'
      BY <3>1, <3>3 DEF IsChild
    <3> QED BY <1>9, <3>1, <3>2, <3>4
  <2>2. ASSUME NEW x \in Procs, NEW y \in Procs, IsChild(x, y)'
        PROVE  IsListed(y)' /\ p_pproc'[y] = x
    BY <1>7, <1>8, <1>9, <2>2, Zenon DEF IInv, Linkage
  <2> QED BY <1>7, <1>8, <2>1, <2>2, Zenon DEF Linkage
<1>13. Rooted'
  <2> SUFFICES ASSUME NEW S \in SUBSET {x \in Procs \ {Idle} : IsListed(x)'}, S # {}
               PROVE  \E x \in S : p_pproc'[x] \notin S
    BY DEF Rooted
  <2>1. /\ S \in SUBSET {x \in Procs \ {Idle} : IsListed(x)}
        /\ \A x \in S : p_pproc'[x] = p_pproc[x]
    BY <1>7, <1>9
  <2>2. PICK x \in S : p_pproc[x] \notin S
    BY <2>1 DEF IInv, Rooted
  <2> QED BY <2>1, <2>2
<1>14. IdleSound'
  BY <1>1, <1>4, <1>9, ProcNames DEF IInv, IdleSound
<1>15. InitSound'
  <2>1. /\ proc_initproc \in Procs \ {Idle} /\ IsListed(proc_initproc)
        /\ p_pproc[proc_initproc] = Idle /\ p_pid[proc_initproc] = PID_INIT
        /\ ~k.kt_cancelled[proc_initproc]
    BY <1>1, InitExists
  <2>2. CASE c = Idle
    BY <1>9, <2>1, <2>2, ProcNames, Zenon DEF InitSound
  <2>3. CASE c # Idle
    <3>1. proc_initproc # p
      BY <1>1, <2>1, <2>3
    <3>2. p_state[proc_initproc] = "PROC_DEAD" =>
            \A x \in Procs : IsListed(x) => x \in {Idle, proc_initproc}
      BY <2>1, ProcNames DEF IInv, InitSound
    <3>3. IsListed(proc_initproc)'
      BY <1>7, <1>9, <2>1, <3>1 DEF IsListed
    <3> QED BY <1>4, <1>7, <1>9, <2>1, <3>1, <3>2, <3>3, ProcNames DEF InitSound
  <2> QED BY <2>2, <2>3
<1>16. CallsSound'
  <2>1. ASSUME NEW x \in Procs, frame'[x].fn = "pid"
        PROVE  frame'[x].target \in Procs /\ IsChild(x, frame[x].target)'
    <3>1. x # c /\ frame'[x] = frame[x]
      BY <1>9, <2>1 DEF NoFrame
    <3>2. frame[x].target \in Procs /\ IsChild(x, frame[x].target)
      BY <2>1, <3>1 DEF IInv, CallsSound
    <3>3. frame[x].target # p
      BY <1>1, <3>1, <3>2 DEF IInv, Linkage
    <3>4. \A y \in Procs : IsChild(x, y) /\ y # p => Contains(p_children'[x], y)
      BY <1>8 DEF IsChild
    <3> QED BY <3>1, <3>2, <3>3, <3>4 DEF IsChild
  <2> QED BY <1>9, <2>1, Zenon DEF CallsSound, IsChild
<1>17. PidsSound'
  BY <1>7, <1>9 DEF IInv, PidsSound
<1> QED BY <1>10, <1>11, <1>12, <1>13, <1>14, <1>15, <1>16, <1>17 DEF IInv
=============================================================================
