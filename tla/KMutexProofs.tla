---------------------------- MODULE KMutexProofs -----------------------------
(***************************************************************************)
(* Proofs about KMutex, for any number of threads and mutexes: mutual      *)
(* exclusion, what km_holder means, and, when no thread is cancelled, that *)
(* no assertion fails and that the mutexes implement MutexAbs.             *)
(***************************************************************************)
EXTENDS KMutex, KTQueueProofs, FiniteSetTheorems

-----------------------------------------------------------------------------
(* The inductive invariant.  MutualExclusion follows from the holder being *)
(* the owner.  A lock call that wakes up takes itself for the owner        *)
(* without looking at km_holder, so the invariant has to say that a        *)
(* thread on its way out of a lock call is the holder, unless it was woken *)
(* by a cancellation, and that every sleeper is in a lock call.            *)

TypeOK ==
  /\ k \in ThreadSystems
  /\ curthr \in Threads \cup {NULL}
  /\ km_holder \in [Mutexes -> Threads \cup {NULL}]
  /\ call \in [Threads -> [fn  : {"none", "lock", "lock_cancellable"},
                           mtx : Mutexes \cup {NULL}]]
  /\ owns \in [Threads -> SUBSET Mutexes]
  /\ refused \in [Threads -> SUBSET Mutexes]

\* The current thread is on no queue.
CurrentUnlinked == curthr \in Threads => k.kt_wchan[curthr] = NULL

\* A thread that sleeps on a mutex is in a call that locks it, cancellable if the
\* sleep is, and somebody holds the mutex.
Sleeper(t) ==
  k.kt_wchan[t] \in Mutexes =>
    /\ call[t].mtx = k.kt_wchan[t]
    /\ km_holder[k.kt_wchan[t]] # NULL
    /\ k.kt_state[t] = "KT_SLEEP_CANCELLABLE" => call[t].fn = "lock_cancellable"

\* A thread that was woken in a lock call was handed the mutex or has been cancelled.
Woke(t) ==
  call[t].mtx \in Mutexes /\ k.kt_wchan[t] # call[t].mtx =>
    \/ km_holder[call[t].mtx] = t
    \/ call[t].fn = "lock_cancellable" /\ k.kt_cancelled[t]

\* An owner is the holder and not in a call for the same mutex; a holder is accounted
\* for as HolderExplained says.
Holding(t) ==
  \A m \in Mutexes :
    /\ m \in owns[t] => km_holder[m] = t /\ call[t].mtx # m
    /\ km_holder[m] = t => \/ m \in owns[t]
                           \/ call[t].mtx = m /\ k.kt_wchan[t] # m
                           \/ m \in refused[t]

InCall(t) == call[t] = NoCall \/ call[t].mtx \in Mutexes

\* Without cancellation no call is refused and no assertion fails.
Uncancelled ==
  ~Cancellable => /\ ~k.panic
                  /\ \A t \in Threads : refused[t] = {} /\ call[t].fn # "lock_cancellable"

IInv ==
  /\ TypeOK
  /\ QueuesMatch(k) /\ StatesMatch(k)
  /\ CurrentUnlinked
  /\ \A t \in Threads : Sleeper(t) /\ Woke(t) /\ Holding(t) /\ InCall(t)
  /\ Uncancelled

\* The names of mutexes and queues.
LEMMA MutexNames ==
  /\ Mutexes \subseteq Queues /\ RunQ \in Queues /\ NULL \notin Mutexes
  /\ RunQ \notin Mutexes /\ NULL # RunQ /\ NULL \notin Threads
BY QueueNames DEF Mutexes, Queues

-----------------------------------------------------------------------------
(* Steps that leave the queues alone.                                      *)

\* A failed assertion stops the kernel and changes nothing else.
LEMMA PanicStep ==
  ASSUME IInv, Panic(FALSE), Cancellable
  PROVE  IInv'
<1>1. /\ k' \in ThreadSystems
      /\ k'.kt_state = k.kt_state /\ k'.kt_wchan = k.kt_wchan
      /\ k'.kt_cancelled = k.kt_cancelled /\ k'.tq = k.tq
  BY FieldTypes DEF IInv, TypeOK, Panic, KASSERT, ThreadSystems
<1>2. TypeOK'
  BY <1>1 DEF IInv, TypeOK, Panic
<1>3. QueuesMatch(k') /\ StatesMatch(k')
  BY <1>1 DEF IInv, QueuesMatch, StatesMatch
<1>4. CurrentUnlinked'
  BY <1>1 DEF IInv, CurrentUnlinked, Panic
<1>5. ASSUME NEW t \in Threads
      PROVE  Sleeper(t)' /\ Woke(t)' /\ Holding(t)' /\ InCall(t)'
  <2>1. Sleeper(t) /\ Woke(t) /\ Holding(t) /\ InCall(t)
        /\ UNCHANGED <<km_holder, call, owns, refused>>
    BY DEF IInv, Panic
  <2>2. Sleeper(t)' /\ Woke(t)'
    BY <1>1, <2>1 DEF Sleeper, Woke
  <2>3. Holding(t)'
    BY <1>1, <2>1 DEF Holding
  <2> QED BY <2>1, <2>2, <2>3 DEF InCall
<1> QED BY <1>2, <1>3, <1>4, <1>5 DEF IInv, Uncancelled

\* A lock call finds the mutex free.
LEMMA TakeFreeStep ==
  ASSUME IInv, NEW t \in Threads, NEW m \in Mutexes, Runs(t), km_holder[m] = NULL,
         TakeFree(t, m)
  PROVE  IInv'
<1>1. TypeOK'
  BY DEF IInv, TypeOK, TakeFree, Locked
<1>2. QueuesMatch(k') /\ StatesMatch(k') /\ CurrentUnlinked'
  BY DEF IInv, CurrentUnlinked, TakeFree
<1>3. /\ km_holder' = [km_holder EXCEPT ![m] = t] /\ k' = k /\ call' = call
      /\ owns' = [owns EXCEPT ![t] = @ \cup {m}]
      /\ refused' = [refused EXCEPT ![t] = @ \ {m}]
      /\ call[t].mtx = NULL /\ t # NULL
  BY MutexNames DEF TakeFree, Locked, Runs, NoCall
<1>4. ASSUME NEW u \in Threads
      PROVE  Sleeper(u)' /\ Woke(u)' /\ Holding(u)' /\ InCall(u)'
  <2>1. Sleeper(u)'
    BY <1>3 DEF IInv, TypeOK, Sleeper
  <2>2. Woke(u)'
    BY <1>3, MutexNames DEF IInv, TypeOK, Woke
  <2>3. Holding(u)'
    BY <1>3, MutexNames DEF IInv, TypeOK, Holding
  <2> QED BY <1>3, <2>1, <2>2, <2>3 DEF IInv, InCall
<1>5. Uncancelled'
  BY <1>3 DEF IInv, TypeOK, Uncancelled
<1> QED BY <1>1, <1>2, <1>4, <1>5 DEF IInv

\* A cancellable lock call is refused at once.
LEMMA RefusedStep ==
  ASSUME IInv, NEW t \in Threads, NEW m \in Mutexes, Cancellable, Refused(t, m),
         UNCHANGED <<k, curthr, km_holder, call>>
  PROVE  IInv'
<1>1. TypeOK' /\ refused' = [refused EXCEPT ![t] = @ \cup {m}] /\ owns' = owns
  BY DEF IInv, TypeOK, Refused
<1>2. QueuesMatch(k') /\ StatesMatch(k') /\ CurrentUnlinked'
  BY DEF IInv, CurrentUnlinked
<1>3. ASSUME NEW u \in Threads
      PROVE  Sleeper(u)' /\ Woke(u)' /\ Holding(u)' /\ InCall(u)'
  BY <1>1 DEF IInv, TypeOK, Sleeper, Woke, Holding, InCall
<1> QED BY <1>1, <1>2, <1>3 DEF IInv, Uncancelled

\* A lock call that slept returns.
LEMMA LockReturnStep ==
  ASSUME IInv, NEW t \in Threads, LockReturn(t)
  PROVE  IInv'
<1> DEFINE m == call[t].mtx
<1>1. /\ m \in Mutexes /\ k.kt_wchan[t] = NULL /\ k' = k /\ km_holder' = km_holder
      /\ curthr' = curthr /\ call' = [call EXCEPT ![t] = NoCall]
  BY DEF IInv, InCall, CurrentUnlinked, LockReturn
<1>2. NoCall \in [fn : {"none", "lock", "lock_cancellable"}, mtx : Mutexes \cup {NULL}]
  BY DEF NoCall
<1>3. QueuesMatch(k') /\ StatesMatch(k') /\ CurrentUnlinked'
  BY <1>1 DEF IInv, CurrentUnlinked
<1>4. CASE call[t].fn = "lock_cancellable" /\ k.kt_cancelled[t]
  <2>1. owns' = owns /\ refused' = [refused EXCEPT ![t] = @ \cup {m}]
    BY <1>4 DEF LockReturn, Refused
  <2>2. TypeOK'
    BY <1>1, <1>2, <2>1 DEF IInv, TypeOK
  <2>3. ASSUME NEW u \in Threads
        PROVE  Sleeper(u)' /\ Woke(u)' /\ Holding(u)' /\ InCall(u)'
    <3>1. Sleeper(u)'
      BY <1>1, MutexNames DEF IInv, TypeOK, Sleeper
    <3>2. Woke(u)'
      BY <1>1, MutexNames DEF IInv, TypeOK, Woke, NoCall
    <3>3. Holding(u)'
      BY <1>1, <2>1, MutexNames DEF IInv, TypeOK, Holding, NoCall
    <3> QED BY <1>1, <3>1, <3>2, <3>3 DEF IInv, TypeOK, InCall
  <2>4. Uncancelled'
    BY <1>4 DEF IInv, Uncancelled
  <2> QED BY <1>3, <2>2, <2>3, <2>4 DEF IInv
<1>5. CASE ~(call[t].fn = "lock_cancellable" /\ k.kt_cancelled[t])
  <2>1. /\ owns' = [owns EXCEPT ![t] = @ \cup {m}]
        /\ refused' = [refused EXCEPT ![t] = @ \ {m}]
    BY <1>5 DEF LockReturn, Locked
  <2>2. TypeOK'
    BY <1>1, <1>2, <2>1 DEF IInv, TypeOK
  <2>3. km_holder[m] = t
    BY <1>1, <1>5, MutexNames DEF IInv, Woke
  <2>4. ASSUME NEW u \in Threads
        PROVE  Sleeper(u)' /\ Woke(u)' /\ Holding(u)' /\ InCall(u)'
    <3>1. Sleeper(u)'
      BY <1>1, MutexNames DEF IInv, TypeOK, Sleeper
    <3>2. Woke(u)'
      BY <1>1, MutexNames DEF IInv, TypeOK, Woke, NoCall
    <3>3. Holding(u)'
      BY <1>1, <2>1, <2>3, MutexNames DEF IInv, TypeOK, Holding, NoCall
    <3> QED BY <1>1, <3>1, <3>2, <3>3 DEF IInv, TypeOK, InCall
  <2>5. Uncancelled'
    BY <1>1, <2>1 DEF IInv, TypeOK, Uncancelled, NoCall
  <2> QED BY <1>3, <2>2, <2>4, <2>5 DEF IInv
<1> QED BY <1>4, <1>5

-----------------------------------------------------------------------------
(* Steps that move threads between queues.                                 *)

\* The current thread goes to sleep on a mutex somebody else holds.
LEMMA SleepStep ==
  ASSUME IInv, NEW t \in Threads, NEW m \in Mutexes, Runs(t), m \notin owns[t],
         km_holder[m] \notin {t, NULL},
         NEW fn \in {"lock", "lock_cancellable"}, NEW st \in Sleeping,
         st = "KT_SLEEP_CANCELLABLE" => fn = "lock_cancellable",
         fn = "lock_cancellable" => Cancellable,
         Sleep(t, m, fn, st)
  PROVE  IInv'
<1>1. /\ k \in ThreadSystems /\ QueuesMatch(k) /\ StatesMatch(k)
      /\ k.kt_wchan[t] = NULL /\ st \in ThreadStates /\ m \in Queues
  BY MutexNames DEF IInv, TypeOK, CurrentUnlinked, Runs, ThreadStates
<1>2. WellFormed(k') /\ LinkedAs(k, k', m, t, st)
  BY <1>1, SleepCorrect, Zenon DEF Sleep
<1>3. \A x \in Threads : /\ k'.kt_state[x] = IF x = t THEN st ELSE k.kt_state[x]
                         /\ k'.kt_wchan[x] = IF x = t THEN m ELSE k.kt_wchan[x]
                         /\ k'.kt_cancelled[x] = k.kt_cancelled[x]
  BY <1>1, <1>2, FieldTypes DEF LinkedAs
<1>4. /\ call' = [call EXCEPT ![t] = [fn |-> fn, mtx |-> m]]
      /\ refused' = [refused EXCEPT ![t] = @ \ {m}]
      /\ curthr' = NULL /\ km_holder' = km_holder /\ owns' = owns
  BY DEF Sleep
<1>5. TypeOK'
  BY <1>2, <1>4 DEF IInv, TypeOK, WellFormed
<1>6. QueuesMatch(k') /\ StatesMatch(k')
  BY <1>1, <1>2, <1>3, MutexNames DEF WellFormed, StatesMatch, Mutexes
<1>7. CurrentUnlinked'
  BY <1>4, MutexNames DEF CurrentUnlinked
<1>8. ASSUME NEW u \in Threads
      PROVE  Sleeper(u)' /\ Woke(u)' /\ Holding(u)' /\ InCall(u)'
  <2>1. Sleeper(u)'
    BY <1>3, <1>4 DEF IInv, TypeOK, Sleeper
  <2>2. Woke(u)'
    BY <1>3, <1>4 DEF IInv, TypeOK, Woke
  <2>3. Holding(u)'
    <3>1. call[t].mtx = NULL
      BY DEF Runs, NoCall
    <3> QED BY <1>3, <1>4, <3>1, MutexNames DEF IInv, TypeOK, Holding
  <2> QED BY <1>4, <2>1, <2>2, <2>3 DEF IInv, TypeOK, InCall
<1>9. Uncancelled'
  BY <1>2, <1>4 DEF IInv, TypeOK, Uncancelled, LinkedAs
<1> QED BY <1>5, <1>6, <1>7, <1>8, <1>9 DEF IInv

\* What sched_wakeup_on does to the fields of the threads: the first sleeper, if
\* there is one, becomes runnable.
LEMMA WakeupFields ==
  ASSUME NEW s \in ThreadSystems, QueuesMatch(s), StatesMatch(s), NEW m \in Mutexes
  PROVE  LET e == sched_wakeup_on(s, m)
         IN  /\ WellFormed(e) /\ e.kt_cancelled = s.kt_cancelled /\ e.panic = s.panic
             /\ \A x \in Threads :
                  LET heir == s.tq[m] # << >> /\ x = Head(s.tq[m])
                  IN  /\ e.kt_state[x] = IF heir THEN "KT_RUN" ELSE s.kt_state[x]
                      /\ e.kt_wchan[x] = IF heir THEN RunQ ELSE s.kt_wchan[x]
<1> DEFINE e == sched_wakeup_on(s, m)
           h == Head(s.tq[m])
           d == ktqueue_dequeue(s, m)
<1>1. CASE s.tq[m] = << >>
  BY <1>1 DEF sched_wakeup_on, sched_queue_empty, WellFormed
<1>2. CASE s.tq[m] # << >>
  <2>1. /\ h \in Threads /\ s.kt_wchan[h] = m
        /\ d \in ThreadSystems /\ QueuesMatch(d) /\ Unlinked(s, d, m, h)
    BY <1>2, DequeueCorrect, MutexNames, Zenon DEF WellFormed, sched_queue_empty
  <2>2. KASSERT(d, s.kt_state[h] \in Sleeping) = d
    <3>1. s.kt_state[h] \in Sleeping
      BY <2>1 DEF StatesMatch, Mutexes
    <3> QED BY <2>1, <3>1, AssertHolds, Zenon
  <2>3. e = sched_make_runnable(d, h)
    BY <1>2, <2>2 DEF sched_wakeup_on, sched_queue_empty
  <2> HIDE DEF d, h, e
  <2>4. d.kt_wchan[h] = NULL
    BY <2>1, FieldTypes DEF Unlinked
  <2>5. WellFormed(e) /\ LinkedAs(d, e, RunQ, h, "KT_RUN")
    BY <2>1, <2>3, <2>4, MakeRunnableCorrect
  <2>6. ASSUME NEW x \in Threads
        PROVE  /\ e.kt_state[x] = IF x = h THEN "KT_RUN" ELSE s.kt_state[x]
               /\ e.kt_wchan[x] = IF x = h THEN RunQ ELSE s.kt_wchan[x]
    BY <2>1, <2>5, FieldTypes DEF LinkedAs, Unlinked
  <2>7. e.kt_cancelled = s.kt_cancelled /\ e.panic = s.panic
    BY <2>1, <2>5 DEF LinkedAs, Unlinked
  <2> QED BY <1>2, <2>5, <2>6, <2>7 DEF h, e
<1> QED BY <1>1, <1>2

\* The owner unlocks and passes the mutex on.
LEMMA UnlockStep ==
  ASSUME IInv, NEW t \in Threads, NEW m \in Mutexes, kmutex_unlock(t, m)
  PROVE  IInv'
<1> DEFINE heir == IF sched_queue_empty(k, m) THEN NULL ELSE Head(k.tq[m])
           e == sched_wakeup_on(k, m)
<1>1. /\ Runs(t) /\ m \in owns[t] /\ km_holder[m] = t /\ call[t].mtx = NULL
      /\ k \in ThreadSystems /\ QueuesMatch(k) /\ StatesMatch(k) /\ k.kt_wchan[t] = NULL
  BY DEF kmutex_unlock, IInv, TypeOK, Holding, CurrentUnlinked, Runs, NoCall
<1>2. /\ WellFormed(e) /\ e.kt_cancelled = k.kt_cancelled /\ e.panic = k.panic
      /\ \A x \in Threads :
           /\ e.kt_state[x] = IF x = heir THEN "KT_RUN" ELSE k.kt_state[x]
           /\ e.kt_wchan[x] = IF x = heir THEN RunQ ELSE k.kt_wchan[x]
  BY <1>1, WakeupFields, MutexNames DEF sched_queue_empty
<1>3. heir = NULL \/ (heir \in Threads /\ k.kt_wchan[heir] = m)
  BY <1>1, DequeueCorrect, MutexNames, Zenon DEF sched_queue_empty
<1>4. ASSUME NEW x \in Threads, k.kt_wchan[x] = m PROVE heir # NULL
  <2>1. Contains(k.tq[m], x)
    BY <1>1, <1>4, MutexNames DEF QueuesMatch
  <2>2. ~sched_queue_empty(k, m)
    BY <2>1 DEF Contains, sched_queue_empty
  <2>3. Head(k.tq[m]) \in Threads
    BY <1>1, <2>2, DequeueCorrect, MutexNames, Zenon
  <2> QED BY <2>2, <2>3, MutexNames
<1>5. t # heir
  BY <1>1, <1>3, MutexNames
<1>6. /\ km_holder' = [km_holder EXCEPT ![m] = heir] /\ k' = KASSERT(e, t # heir)
      /\ owns' = [owns EXCEPT ![t] = @ \ {m}]
      /\ curthr' = curthr /\ call' = call /\ refused' = refused
  BY <1>1 DEF kmutex_unlock
<1>7. k' = e
  BY <1>2, <1>5, <1>6, AssertHolds, Zenon DEF WellFormed
<1> HIDE DEF heir, e
<1>8. TypeOK'
  BY <1>2, <1>3, <1>6, <1>7 DEF IInv, TypeOK, WellFormed
<1>9. QueuesMatch(k') /\ StatesMatch(k')
  BY <1>1, <1>2, <1>3, <1>7, MutexNames DEF WellFormed, StatesMatch, Mutexes, Sleeping
<1>10. CurrentUnlinked'
  BY <1>1, <1>2, <1>5, <1>6, <1>7 DEF CurrentUnlinked, Runs
<1>11. ASSUME NEW u \in Threads
       PROVE  Sleeper(u)' /\ Woke(u)' /\ Holding(u)' /\ InCall(u)'
  <2>1. Sleeper(u)'
    BY <1>2, <1>3, <1>4, <1>6, <1>7, MutexNames DEF IInv, TypeOK, Sleeper
  <2>2. Woke(u)'
    <3>1. u = heir => call[u].mtx = m
      BY <1>3, MutexNames DEF IInv, Sleeper
    <3> QED BY <1>1, <1>2, <1>3, <1>6, <1>7, <3>1, MutexNames DEF IInv, TypeOK, Woke
  <2>3. Holding(u)'
    <3>1. u = heir => call[u].mtx = m /\ m \notin owns[u]
      BY <1>1, <1>3, <1>5, MutexNames DEF IInv, Sleeper, Holding
    <3>2. ASSUME NEW n \in Mutexes, n \in owns'[u]
          PROVE  km_holder'[n] = u /\ call'[u].mtx # n
      BY <1>1, <1>6, <3>2 DEF IInv, TypeOK, Holding
    <3>3. ASSUME NEW n \in Mutexes, km_holder'[n] = u
          PROVE  \/ n \in owns'[u]
                 \/ call'[u].mtx = n /\ k'.kt_wchan[u] # n
                 \/ n \in refused'[u]
      <4>1. CASE n = m
        BY <1>2, <1>6, <1>7, <3>1, <3>3, <4>1, MutexNames DEF IInv, TypeOK
      <4>2. CASE n # m
        BY <1>2, <1>6, <1>7, <3>3, <4>2, MutexNames DEF IInv, TypeOK, Holding
      <4> QED BY <4>1, <4>2
    <3> QED BY <3>2, <3>3 DEF Holding
  <2> QED BY <1>6, <2>1, <2>2, <2>3 DEF IInv, InCall
<1>12. Uncancelled'
  BY <1>2, <1>6, <1>7 DEF IInv, Uncancelled
<1> QED BY <1>8, <1>9, <1>10, <1>11, <1>12 DEF IInv

\* kthread_cancel of another thread, which may sleep on a mutex.
LEMMA CancelStep ==
  ASSUME IInv, NEW t \in Threads, NEW u \in Threads, Cancel(t, u)
  PROVE  IInv'
<1> DEFINE c == [k EXCEPT !.kt_cancelled[u] = TRUE]
<1>1. /\ Cancellable /\ curthr = t /\ t # u /\ k' = sched_cancel(k, u)
      /\ UNCHANGED <<curthr, km_holder, call, owns, refused>>
      /\ k \in ThreadSystems /\ QueuesMatch(k) /\ StatesMatch(k) /\ k.kt_wchan[t] = NULL
  BY DEF Cancel, Runs, IInv, TypeOK, CurrentUnlinked
<1>2. c \in ThreadSystems /\ QueuesMatch(c) /\ Marked(k, c, u)
  BY <1>1, MarkCancelledCorrect, Zenon DEF WellFormed
<1>3. \/ k' = c
      \/ /\ k.kt_state[u] = "KT_SLEEP_CANCELLABLE"
         /\ k' = sched_make_runnable(ktqueue_remove(c, k.kt_wchan[u], u), u)
  BY <1>1 DEF sched_cancel
<1> HIDE DEF c
<1> DEFINE woken(x) == x = u /\ k.kt_state[u] = "KT_SLEEP_CANCELLABLE" /\ k' # c
<1>4. /\ WellFormed(k')
      /\ \A x \in Threads :
           /\ k'.kt_state[x] = IF woken(x) THEN "KT_RUN" ELSE k.kt_state[x]
           /\ k'.kt_wchan[x] = IF woken(x) THEN RunQ ELSE k.kt_wchan[x]
           /\ k'.kt_cancelled[x] = IF x = u THEN TRUE ELSE k.kt_cancelled[x]
  <2>1. CASE k' = c
    BY <1>1, <1>2, <2>1, FieldTypes DEF Marked, WellFormed
  <2>2. CASE k' # c
    <3>1. k.kt_wchan[u] \in Queues /\ c.kt_wchan[u] = k.kt_wchan[u]
      BY <1>1, <1>2, <1>3, <2>2, MutexNames DEF StatesMatch, Sleeping, Marked, Mutexes
    <3>2. WellFormed(k') /\ Requeued(c, k', k.kt_wchan[u], u)
      BY <1>2, <1>3, <2>2, <3>1, CancelWakeCorrect, Zenon
    <3>3. ASSUME NEW x \in Threads
          PROVE  /\ k'.kt_state[x] = IF woken(x) THEN "KT_RUN" ELSE k.kt_state[x]
                 /\ k'.kt_wchan[x] = IF woken(x) THEN RunQ ELSE k.kt_wchan[x]
      BY <1>1, <1>2, <1>3, <2>2, <3>2, FieldTypes DEF Requeued, Marked
    <3>4. ASSUME NEW x \in Threads
          PROVE  k'.kt_cancelled[x] = IF x = u THEN TRUE ELSE k.kt_cancelled[x]
      <4>1. k'.kt_cancelled = [k.kt_cancelled EXCEPT ![u] = TRUE]
        BY <1>2, <3>2, Zenon DEF Requeued, Marked
      <4>2. k.kt_cancelled \in [Threads -> BOOLEAN]
        BY <1>1, FieldTypes
      <4> QED BY <4>1, <4>2
    <3> QED BY <3>2, <3>3, <3>4
  <2> QED BY <2>1, <2>2
<1>5. woken(u) => k.kt_wchan[u] \in Mutexes
  BY <1>1 DEF StatesMatch, Sleeping, Mutexes
<1> HIDE DEF woken
<1>6. \A x \in Threads : woken(x) => x = u /\ k.kt_state[u] = "KT_SLEEP_CANCELLABLE"
  BY DEF woken
<1>7. TypeOK'
  BY <1>1, <1>4 DEF IInv, TypeOK, WellFormed
<1>8. QueuesMatch(k') /\ StatesMatch(k')
  BY <1>1, <1>4, <1>5, <1>6, MutexNames DEF WellFormed, StatesMatch, Mutexes, Sleeping
<1>9. CurrentUnlinked'
  BY <1>1, <1>4, <1>6 DEF CurrentUnlinked
<1>10. ASSUME NEW x \in Threads
       PROVE  Sleeper(x)' /\ Woke(x)' /\ Holding(x)' /\ InCall(x)'
  <2>1. Sleeper(x) /\ Woke(x) /\ Holding(x) /\ InCall(x)
    BY DEF IInv
  <2>2. Sleeper(x)'
    BY <1>1, <1>4, <2>1, MutexNames DEF Sleeper
  <2>3. Woke(x)'
    BY <1>1, <1>4, <1>5, <1>6, <2>1, MutexNames DEF Woke, Sleeper
  <2>4. Holding(x)'
    BY <1>1, <1>4, <2>1, MutexNames DEF Holding
  <2> QED BY <1>1, <2>1, <2>2, <2>3, <2>4 DEF InCall
<1> QED BY <1>1, <1>7, <1>8, <1>9, <1>10 DEF IInv, Uncancelled

\* The current thread goes back to the run queue, or the first thread of the run
\* queue becomes the current one: no mutex and no call is touched.
LEMMA RunQueueStep ==
  ASSUME IInv, NEW t \in Threads, NEW q \in {NULL, RunQ}, WellFormed(k'),
         k'.panic = k.panic, k'.kt_cancelled = k.kt_cancelled,
         \A x \in Threads : /\ x # t => k'.kt_state[x] = k.kt_state[x]
                            /\ k'.kt_wchan[x] = IF x = t THEN q ELSE k.kt_wchan[x],
         k.kt_wchan[t] \in {NULL, RunQ}, k'.kt_state[t] = "KT_RUN",
         curthr' \in {NULL, t}, curthr' = t => q = NULL,
         UNCHANGED <<km_holder, call, owns, refused>>
  PROVE  IInv'
<1>1. TypeOK'
  BY DEF IInv, TypeOK, WellFormed
<1>2. QueuesMatch(k') /\ StatesMatch(k')
  BY MutexNames DEF IInv, WellFormed, StatesMatch, Mutexes, Sleeping
<1>3. CurrentUnlinked'
  BY MutexNames DEF CurrentUnlinked
<1>4. ASSUME NEW x \in Threads
      PROVE  Sleeper(x)' /\ Woke(x)' /\ Holding(x)' /\ InCall(x)'
  <2>1. Sleeper(x) /\ Woke(x) /\ Holding(x) /\ InCall(x)
    BY DEF IInv
  <2>2. Sleeper(x)'
    BY <2>1, MutexNames DEF Sleeper
  <2>3. Woke(x)'
    BY <2>1, MutexNames DEF Woke
  <2>4. Holding(x)'
    BY <2>1, MutexNames DEF Holding
  <2> QED BY <2>1, <2>2, <2>3, <2>4 DEF InCall
<1>5. Uncancelled'
  BY DEF IInv, Uncancelled
<1> QED BY <1>1, <1>2, <1>3, <1>4, <1>5 DEF IInv

\* A thread gives up the CPU.
LEMMA YieldStep ==
  ASSUME IInv, NEW t \in Threads, Yield(t)
  PROVE  IInv'
<1>1. /\ k \in ThreadSystems /\ QueuesMatch(k) /\ k.kt_wchan[t] = NULL
      /\ k' = sched_make_runnable(k, t) /\ curthr' = NULL
      /\ UNCHANGED <<km_holder, call, owns, refused>>
  BY DEF IInv, TypeOK, Yield, Runs, CurrentUnlinked
<1>2. WellFormed(k') /\ LinkedAs(k, k', RunQ, t, "KT_RUN")
  BY <1>1, MakeRunnableCorrect
<1>3. ASSUME NEW x \in Threads
      PROVE  /\ x # t => k'.kt_state[x] = k.kt_state[x]
             /\ k'.kt_wchan[x] = IF x = t THEN RunQ ELSE k.kt_wchan[x]
  BY <1>1, <1>2, FieldTypes DEF LinkedAs
<1>4. /\ k'.panic = k.panic /\ k'.kt_cancelled = k.kt_cancelled
      /\ k'.kt_state[t] = "KT_RUN" /\ t # NULL
  BY <1>1, <1>2, FieldTypes, MutexNames DEF LinkedAs
<1> QED BY <1>1, <1>2, <1>3, <1>4, RunQueueStep, SMTT(30)

\* sched_switch resumes the first thread of the run queue.
LEMMA SwitchStep ==
  ASSUME IInv, sched_switch
  PROVE  IInv'
<1> DEFINE t == Head(k.tq[RunQ])
<1>1. /\ k \in ThreadSystems /\ QueuesMatch(k) /\ StatesMatch(k)
      /\ ~sched_queue_empty(k, RunQ) /\ k' = ktqueue_dequeue(k, RunQ) /\ curthr' = t
      /\ UNCHANGED <<km_holder, call, owns, refused>>
  BY DEF IInv, TypeOK, sched_switch
<1>2. /\ t \in Threads /\ k.kt_wchan[t] = RunQ /\ WellFormed(k')
      /\ Unlinked(k, k', RunQ, t)
  BY <1>1, DequeueCorrect, MutexNames, Zenon
<1> HIDE DEF t
<1>3. ASSUME NEW x \in Threads
      PROVE  /\ x # t => k'.kt_state[x] = k.kt_state[x]
             /\ k'.kt_wchan[x] = IF x = t THEN NULL ELSE k.kt_wchan[x]
  BY <1>1, <1>2, FieldTypes DEF Unlinked
<1>4. /\ k'.panic = k.panic /\ k'.kt_cancelled = k.kt_cancelled
      /\ k'.kt_state[t] = "KT_RUN" /\ t # NULL
  BY <1>1, <1>2, MutexNames DEF Unlinked, StatesMatch
<1> QED BY <1>1, <1>2, <1>3, <1>4, RunQueueStep, SMTT(30)

-----------------------------------------------------------------------------
(* Theorems.                                                               *)

\* A sequence of SetToSeqs has every element once.
LEMMA AllInOrder ==
  ASSUME NEW order \in SetToSeqs(Threads)
  PROVE  /\ order \in Seq(Threads) /\ IsInjective(order)
         /\ \A t \in Threads : Contains(order, t)
<1> DEFINE n == Cardinality(Threads)
<1>1. n \in Nat /\ IsFiniteSet(1..n) /\ Cardinality(1..n) = n
  BY KMutexConstants, FS_CardinalityType, FS_Interval
<1>2. order \in [1..n -> Threads] /\ \A i, j \in 1..n : i # j => order[i] # order[j]
  BY DEF SetToSeqs
<1> HIDE DEF n
<1>3. order \in Seq(Threads) /\ Len(order) = n /\ DOMAIN order = 1..n
  BY <1>1, <1>2, SeqDef, LenProperties
<1>4. order \in Injection(1..n, Threads)
  BY <1>2 DEF Injection, IsInjective
<1>5. order \in Surjection(1..n, Threads)
  BY <1>1, <1>4, KMutexConstants, FS_Injection DEF n
<1> QED BY <1>2, <1>3, <1>5 DEF Surjection, Contains, IsInjective

\* At boot every thread is runnable and no mutex is held.
LEMMA InitIInv == Init => IInv
<1> SUFFICES ASSUME Init PROVE IInv
  OBVIOUS
<1>1. PICK order \in SetToSeqs(Threads) :
        k = [EmptySystem EXCEPT
               !.kt_state = [t \in Threads |-> "KT_RUN"],
               !.kt_wchan = [t \in Threads |-> RunQ],
               !.tq[RunQ] = order]
  BY DEF Init
<1>2. /\ order \in Seq(Threads) /\ IsInjective(order)
      /\ \A t \in Threads : Contains(order, t)
  BY AllInOrder
<1>3. /\ k.kt_state = [t \in Threads |-> "KT_RUN"]
      /\ k.kt_wchan = [t \in Threads |-> RunQ]
      /\ k.kt_cancelled = [t \in Threads |-> FALSE]
      /\ k.tq = [q \in Queues |-> IF q = RunQ THEN order ELSE << >>]
      /\ k.panic = FALSE
  BY <1>1, MutexNames DEF EmptySystem
<1>4. k \in ThreadSystems
  <2>1. k.tq \in [Queues -> Seq(Threads)]
    BY <1>2, <1>3, EmptySeq
  <2>2. k = [kt_state |-> k.kt_state, kt_wchan |-> k.kt_wchan,
             kt_cancelled |-> k.kt_cancelled, tq |-> k.tq, panic |-> k.panic]
    BY <1>1 DEF EmptySystem
  <2>3. /\ k.kt_state \in [Threads -> ThreadStates]
        /\ k.kt_wchan \in [Threads -> Queues \cup {NULL}]
        /\ k.kt_cancelled \in [Threads -> BOOLEAN]
        /\ k.panic \in BOOLEAN
    BY <1>3, MutexNames DEF ThreadStates
  <2> QED BY <2>1, <2>2, <2>3, Zenon DEF ThreadSystems
<1>5. QueuesMatch(k)
  <2>1. ASSUME NEW q \in Queues, NEW t \in Threads
        PROVE  k.kt_wchan[t] = q <=> Contains(k.tq[q], t)
    <3>1. ~Contains(<< >>, t)
      BY DEF Contains
    <3> QED BY <1>2, <1>3, <3>1
  <2>2. ASSUME NEW q \in Queues PROVE IsInjective(k.tq[q])
    <3>1. IsInjective(<< >>)
      BY DEF IsInjective
    <3> QED BY <1>2, <1>3, <3>1
  <2> QED BY <2>1, <2>2 DEF QueuesMatch
<1>6. StatesMatch(k)
  BY <1>3, MutexNames DEF StatesMatch, Sleeping, Mutexes
<1>7. /\ call = [t \in Threads |-> NoCall] /\ owns = [t \in Threads |-> {}]
      /\ refused = [t \in Threads |-> {}] /\ km_holder = [m \in Mutexes |-> NULL]
      /\ curthr = NULL
  BY DEF Init
<1>8. TypeOK
  BY <1>4, <1>7 DEF TypeOK, NoCall
<1>9. CurrentUnlinked /\ Uncancelled
  BY <1>3, <1>7, MutexNames DEF CurrentUnlinked, Uncancelled, NoCall
<1>10. ASSUME NEW t \in Threads
       PROVE  Sleeper(t) /\ Woke(t) /\ Holding(t) /\ InCall(t)
  BY <1>3, <1>7, MutexNames DEF Sleeper, Woke, Holding, InCall, NoCall
<1> QED BY <1>4, <1>5, <1>6, <1>8, <1>9, <1>10 DEF IInv

\* A thread that asks for a mutex it does not own finds itself the holder only after
\* a refused call.
LEMMA NotHolder ==
  ASSUME IInv, NEW t \in Threads, NEW m \in Mutexes, Runs(t), m \notin owns[t],
         km_holder[m] = t
  PROVE  Cancellable
BY MutexNames DEF IInv, Holding, Runs, NoCall, Uncancelled

\* Every step keeps the invariant.
LEMMA NextIInv == IInv /\ [Next]_vars => IInv'
<1> SUFFICES ASSUME IInv, [Next]_vars PROVE IInv'
  OBVIOUS
<1>1. ASSUME NEW t \in Threads, NEW m \in Mutexes, kmutex_lock(t, m) PROVE IInv'
  <2>1. Runs(t) /\ m \notin owns[t]
    BY <1>1 DEF kmutex_lock
  <2>2. CASE km_holder[m] = t /\ Panic(FALSE)
    BY <2>1, <2>2, NotHolder, PanicStep
  <2>3. CASE km_holder[m] = NULL /\ TakeFree(t, m)
    BY <2>1, <2>3, TakeFreeStep
  <2>4. CASE km_holder[m] \notin {t, NULL} /\ Sleep(t, m, "lock", "KT_SLEEP")
    BY <2>1, <2>4, SleepStep DEF Sleeping
  <2> QED BY <1>1, <2>2, <2>3, <2>4 DEF kmutex_lock
<1>2. ASSUME NEW t \in Threads, NEW m \in Mutexes, kmutex_lock_cancellable(t, m) PROVE IInv'
  <2>1. Runs(t) /\ m \notin owns[t] /\ Cancellable
    BY <1>2 DEF kmutex_lock_cancellable
  <2>2. CASE Panic(FALSE)
    BY <2>1, <2>2, PanicStep
  <2>3. CASE km_holder[m] = NULL /\ TakeFree(t, m)
    BY <2>1, <2>3, TakeFreeStep
  <2>4. CASE km_holder[m] \notin {t, NULL} /\ Panic(t = km_holder[m])
    <3>1. Panic(FALSE)
      BY <2>4 DEF Panic, KASSERT
    <3> QED BY <2>1, <3>1, PanicStep
  <2>5. CASE Refused(t, m) /\ UNCHANGED <<k, curthr, km_holder, call>>
    BY <2>1, <2>5, RefusedStep
  <2>6. CASE /\ km_holder[m] \notin {t, NULL}
             /\ Sleep(t, m, "lock_cancellable", "KT_SLEEP_CANCELLABLE")
    BY <2>1, <2>6, SleepStep DEF Sleeping
  <2> QED BY <1>2, <2>2, <2>3, <2>4, <2>5, <2>6 DEF kmutex_lock_cancellable
<1>3. ASSUME NEW t \in Threads, NEW m \in Mutexes, kmutex_unlock(t, m) PROVE IInv'
  BY <1>3, UnlockStep
<1>4. ASSUME NEW t \in Threads, LockReturn(t) PROVE IInv'
  BY <1>4, LockReturnStep
<1>5. ASSUME NEW t \in Threads, Yield(t) PROVE IInv'
  BY <1>5, YieldStep
<1>6. ASSUME NEW t \in Threads, NEW u \in Threads, Cancel(t, u) PROVE IInv'
  BY <1>6, CancelStep
<1>7. CASE sched_switch
  BY <1>7, SwitchStep
<1>8. CASE UNCHANGED vars
  BY <1>8 DEF vars, IInv, TypeOK, CurrentUnlinked, Sleeper, Woke, Holding, InCall, Uncancelled
<1> QED BY <1>1, <1>2, <1>3, <1>4, <1>5, <1>6, <1>7, <1>8 DEF Next

\* The invariant holds in every state the mutexes reach.
THEOREM MutexInvariant == Spec => []IInv
<1>1. Init => IInv
  BY InitIInv
<1>2. IInv /\ [Next]_vars => IInv'
  BY NextIInv
<1> QED BY <1>1, <1>2, PTL DEF Spec

\* Two callers never both believe that they have locked a mutex, whether or not
\* threads are cancelled (kmutex_lock, kmutex_lock_cancellable, kmutex_unlock).
THEOREM MutexExcludes == Spec => []MutualExclusion
<1>1. IInv => MutualExclusion
  BY DEF IInv, TypeOK, Holding, MutualExclusion
<1> QED BY <1>1, MutexInvariant, PTL

\* km_holder always means what HolderExplained says, and a mutex with sleepers has a
\* holder (kmutex_unlock hands the mutex over before the heir runs).
THEOREM MutexHolderExplained == Spec => []HolderExplained
<1>1. ASSUME IInv, NEW m \in Mutexes, ~sched_queue_empty(k, m) PROVE km_holder[m] # NULL
  <2>1. Head(k.tq[m]) \in Threads /\ k.kt_wchan[Head(k.tq[m])] = m
    BY <1>1, DequeueCorrect, MutexNames, Zenon DEF IInv, TypeOK
  <2> QED BY <1>1, <2>1 DEF IInv, Sleeper
<1>2. IInv => HolderExplained
  BY <1>1 DEF IInv, Holding, HolderExplained
<1> QED BY <1>2, MutexInvariant, PTL

\* When no thread is cancelled, no assertion of kmutex.c or of the queue functions
\* it calls fails: the caller of kmutex_unlock is the holder and not its own heir.
THEOREM MutexNeverPanics == Spec => [](Cancellable \/ NoPanicCancellable)
<1>1. IInv => Cancellable \/ NoPanicCancellable
  BY DEF IInv, Uncancelled, NoPanicCancellable
<1> QED BY <1>1, MutexInvariant, PTL

-----------------------------------------------------------------------------
(* Refinement.  A step of KMutex is a step of MutexAbs or leaves the       *)
(* owners and the calls alone, when no thread is cancelled: a refused call *)
(* has no counterpart in MutexAbs.                                         *)

\* The owner and the requests of MutexAbs, as Abs maps them: o stands for owns or
\* owns', c for call or call'.
OwnerOf(o, m) ==
  IF \E t \in Threads : m \in o[t] THEN CHOOSE t \in Threads : m \in o[t] ELSE NULL

Owner(o) == [m \in Mutexes |-> OwnerOf(o, m)]

WantOf(c, m) == {t \in Threads : c[t].mtx = m}

Want(c) == [m \in Mutexes |-> WantOf(c, m)]

\* No two threads own m; no two threads own the same mutex; no thread owns m.
Single(o, m) == \A t, u \in Threads : m \in o[t] /\ m \in o[u] => t = u

AllSingle(o) == \A m \in Mutexes : Single(o, m)

Free(o, m) == \A u \in Threads : m \notin o[u]

\* From o to p, m gets the owner t; or t gives m back.
Gained(o, p, t, m) ==
  \A u \in Threads, n \in Mutexes : n \in p[u] <=> n \in o[u] \/ (u = t /\ n = m)

Lost(o, p, t, m) ==
  \A u \in Threads, n \in Mutexes : n \in p[u] <=> n \in o[u] /\ ~(u = t /\ n = m)

\* From c to d, a call of t for m begins; or it ends.
Begun(c, d, t, m) ==
  /\ \A u \in Threads \ {t} : d[u].mtx = c[u].mtx
  /\ c[t].mtx \notin Mutexes /\ d[t].mtx = m

Ended(c, d, t, m) ==
  /\ \A u \in Threads \ {t} : d[u].mtx = c[u].mtx
  /\ c[t].mtx = m /\ d[t].mtx \notin Mutexes

\* The mapped owner is the one thread that owns the mutex.
LEMMA OwnerIs ==
  ASSUME NEW o, NEW m, Single(o, m)
  PROVE  /\ OwnerOf(o, m) \in Threads \cup {NULL}
         /\ \A t \in Threads : OwnerOf(o, m) = t <=> m \in o[t]
<1>1. CASE \E t \in Threads : m \in o[t]
  <2>1. OwnerOf(o, m) \in Threads /\ m \in o[OwnerOf(o, m)]
    BY <1>1 DEF OwnerOf
  <2> QED BY <1>1, <2>1 DEF Single
<1>2. CASE ~\E t \in Threads : m \in o[t]
  BY <1>2, MutexNames DEF OwnerOf
<1> QED BY <1>1, <1>2

\* If only m changes owners, so does the mapping, to whom m has now.
LEMMA OwnerChanges ==
  ASSUME NEW o, NEW p, NEW m \in Mutexes, AllSingle(o),
         \A n \in Mutexes \ {m}, t \in Threads : n \in p[t] <=> n \in o[t]
  PROVE  Owner(p) = [Owner(o) EXCEPT ![m] = OwnerOf(p, m)]
<1>1. ASSUME NEW n \in Mutexes \ {m} PROVE OwnerOf(p, n) = OwnerOf(o, n)
  <2>1. Single(o, n) /\ Single(p, n)
    BY DEF AllSingle, Single
  <2> QED BY <2>1, OwnerIs
<1> QED BY <1>1, Zenon DEF Owner

\* A lock call gets m for t.
LEMMA OwnerGains ==
  ASSUME NEW o, NEW p, NEW t \in Threads, NEW m \in Mutexes,
         AllSingle(o), Free(o, m), Gained(o, p, t, m)
  PROVE  Owner(o)[m] = NULL /\ Owner(p) = [Owner(o) EXCEPT ![m] = t]
<1>1. \A n \in Mutexes \ {m}, u \in Threads : n \in p[u] <=> n \in o[u]
  BY DEF Gained
<1>2. Owner(p) = [Owner(o) EXCEPT ![m] = OwnerOf(p, m)]
  BY <1>1, OwnerChanges, Zenon
<1>3. Single(p, m) /\ m \in p[t]
  BY DEF Single, Gained, Free
<1>4. OwnerOf(p, m) = t
  BY <1>3, OwnerIs, Zenon
<1>5. OwnerOf(o, m) = NULL
  BY DEF OwnerOf, Free
<1> QED BY <1>2, <1>4, <1>5, Zenon DEF Owner

\* kmutex_unlock takes m from t.
LEMMA OwnerLoses ==
  ASSUME NEW o, NEW p, NEW t \in Threads, NEW m \in Mutexes,
         AllSingle(o), m \in o[t], Lost(o, p, t, m)
  PROVE  Owner(o)[m] = t /\ Owner(p) = [Owner(o) EXCEPT ![m] = NULL]
<1>1. \A n \in Mutexes \ {m}, u \in Threads : n \in p[u] <=> n \in o[u]
  BY DEF Lost
<1>2. Owner(p) = [Owner(o) EXCEPT ![m] = OwnerOf(p, m)]
  BY <1>1, OwnerChanges, Zenon
<1>3. Single(o, m) /\ \A u \in Threads : m \notin p[u]
  BY DEF AllSingle, Single, Lost
<1>4. OwnerOf(p, m) = NULL
  BY <1>3 DEF OwnerOf
<1>5. OwnerOf(o, m) = t
  BY <1>3, OwnerIs, Zenon
<1> QED BY <1>2, <1>4, <1>5, Zenon DEF Owner

\* A call of t for m begins.
LEMMA WantGains ==
  ASSUME NEW c, NEW d, NEW t \in Threads, NEW m \in Mutexes, Begun(c, d, t, m)
  PROVE  Want(d) = [Want(c) EXCEPT ![m] = @ \cup {t}]
<1>1. ASSUME NEW n \in Mutexes \ {m} PROVE WantOf(d, n) = WantOf(c, n)
  BY DEF Begun, WantOf
<1>2. WantOf(d, m) = WantOf(c, m) \cup {t}
  BY DEF Begun, WantOf
<1> QED BY <1>1, <1>2, Zenon DEF Want

\* A call of t for m ends.
LEMMA WantLoses ==
  ASSUME NEW c, NEW d, NEW t \in Threads, NEW m \in Mutexes, Ended(c, d, t, m)
  PROVE  t \in Want(c)[m] /\ Want(d) = [Want(c) EXCEPT ![m] = @ \ {t}]
<1>1. ASSUME NEW n \in Mutexes \ {m} PROVE WantOf(d, n) = WantOf(c, n)
  BY DEF Ended, WantOf
<1>2. t \in WantOf(c, m) /\ WantOf(d, m) = WantOf(c, m) \ {t}
  BY DEF Ended, WantOf
<1> QED BY <1>1, <1>2, Zenon DEF Want

\* The mapping of Abs, with the names above.
LEMMA AbsNames ==
  /\ Abs!Init <=> Owner(owns) = [m \in Mutexes |-> NULL] /\ Want(call) = [m \in Mutexes |-> {}]
  /\ \A t, m : /\ Abs!Take(t, m) <=> /\ Owner(owns)[m] = NULL
                                     /\ Owner(owns') = [Owner(owns) EXCEPT ![m] = t]
                                     /\ Want(call') = Want(call)
               /\ Abs!Request(t, m) <=> /\ Owner(owns)[m] # t
                                        /\ Want(call') = [Want(call) EXCEPT ![m] = @ \cup {t}]
                                        /\ Owner(owns') = Owner(owns)
               /\ Abs!Grant(t, m) <=> /\ Owner(owns)[m] = NULL
                                      /\ t \in Want(call)[m]
                                      /\ Owner(owns') = [Owner(owns) EXCEPT ![m] = t]
                                      /\ Want(call') = [Want(call) EXCEPT ![m] = @ \ {t}]
               /\ Abs!Release(t, m) <=> /\ Owner(owns)[m] = t
                                        /\ Owner(owns') = [Owner(owns) EXCEPT ![m] = NULL]
                                        /\ Want(call') = Want(call)
  /\ (UNCHANGED Abs!vars) <=> Owner(owns') = Owner(owns) /\ Want(call') = Want(call)
BY DEF Abs!Init, Abs!Take, Abs!Request, Abs!Grant, Abs!Release, Abs!vars, Owner, OwnerOf, Want, WantOf

\* In a state of the mutexes no mutex has two owners, and the owner is the holder.
LEMMA OwnersSingle ==
  ASSUME IInv
  PROVE  /\ AllSingle(owns)
         /\ \A m \in Mutexes, u \in Threads : m \in owns[u] => km_holder[m] = u
         /\ DOMAIN call = Threads
BY DEF IInv, TypeOK, Holding, AllSingle, Single

\* A lock call returns 0.
LEMMA LockedGains ==
  ASSUME IInv, NEW t \in Threads, NEW m \in Mutexes, Free(owns, m), Locked(t, m)
  PROVE  Owner(owns)[m] = NULL /\ Owner(owns') = [Owner(owns) EXCEPT ![m] = t]
<1>1. Gained(owns, owns', t, m)
  BY DEF IInv, TypeOK, Locked, Gained
<1> QED BY <1>1, OwnersSingle, OwnerGains

\* A lock call that finds the mutex free takes it.
LEMMA TakeIsTake ==
  ASSUME IInv, NEW t \in Threads, NEW m \in Mutexes, km_holder[m] = NULL, TakeFree(t, m)
  PROVE  Abs!Take(t, m)
<1>1. Free(owns, m)
  BY OwnersSingle, MutexNames DEF Free
<1>2. Owner(owns)[m] = NULL /\ Owner(owns') = [Owner(owns) EXCEPT ![m] = t]
  BY <1>1, LockedGains DEF TakeFree
<1>3. Want(call') = Want(call)
  BY DEF TakeFree
<1> QED BY <1>2, <1>3, AbsNames, Zenon

\* A lock call that sleeps asks for the mutex.
LEMMA SleepIsRequest ==
  ASSUME IInv, NEW t \in Threads, NEW m \in Mutexes, NEW fn, NEW st, Runs(t), m \notin owns[t],
         Sleep(t, m, fn, st)
  PROVE  Abs!Request(t, m)
<1>1. Single(owns, m)
  BY OwnersSingle DEF AllSingle
<1>2. OwnerOf(owns, m) # t
  BY <1>1, OwnerIs, Zenon
<1>3. Owner(owns)[m] # t
  BY <1>2 DEF Owner
<1>4. Owner(owns') = Owner(owns)
  BY DEF Sleep
<1>5. Begun(call, call', t, m)
  BY OwnersSingle, MutexNames DEF Sleep, Runs, NoCall, Begun
<1>6. Want(call') = [Want(call) EXCEPT ![m] = @ \cup {t}]
  BY <1>5, WantGains
<1> QED BY <1>3, <1>4, <1>6, AbsNames, Zenon

\* A lock call that returns 0 after its sleep is granted the mutex: the thread that
\* had it has given it back, because the sleeper is the holder now.
LEMMA ReturnIsGrant ==
  ASSUME IInv, ~Cancellable, NEW t \in Threads, NEW m \in Mutexes, call[t].mtx = m,
         LockReturn(t)
  PROVE  Abs!Grant(t, m)
<1>1. call[t].fn # "lock_cancellable" /\ k.kt_wchan[t] = NULL
  BY DEF LockReturn, IInv, Uncancelled, CurrentUnlinked
<1>2. km_holder[m] = t
  BY <1>1, MutexNames DEF IInv, Woke
<1>3. Locked(t, m) /\ call' = [call EXCEPT ![t] = NoCall]
  BY <1>1 DEF LockReturn
<1>4. Free(owns, m)
  BY <1>2 DEF IInv, Holding, Free
<1>5. Owner(owns)[m] = NULL /\ Owner(owns') = [Owner(owns) EXCEPT ![m] = t]
  BY <1>3, <1>4, LockedGains
<1>6. Ended(call, call', t, m)
  BY <1>3, OwnersSingle, MutexNames DEF NoCall, Ended
<1>7. t \in Want(call)[m] /\ Want(call') = [Want(call) EXCEPT ![m] = @ \ {t}]
  BY <1>6, WantLoses
<1> QED BY <1>5, <1>7, AbsNames, Zenon

\* kmutex_unlock releases the mutex, whoever its heir is.
LEMMA UnlockIsRelease ==
  ASSUME IInv, NEW t \in Threads, NEW m \in Mutexes, kmutex_unlock(t, m)
  PROVE  Abs!Release(t, m)
<1>1. m \in owns[t] /\ km_holder[m] = t
  BY OwnersSingle DEF kmutex_unlock
<1>2. owns' = [owns EXCEPT ![t] = @ \ {m}] /\ call' = call
  BY <1>1 DEF kmutex_unlock
<1>3. Lost(owns, owns', t, m)
  BY <1>2 DEF IInv, TypeOK, Lost
<1>4. Owner(owns)[m] = t /\ Owner(owns') = [Owner(owns) EXCEPT ![m] = NULL]
  BY <1>1, <1>3, OwnersSingle, OwnerLoses
<1>5. Want(call') = Want(call)
  BY <1>2
<1> QED BY <1>4, <1>5, AbsNames, Zenon

\* What changes neither owners nor calls is not seen by the callers.
LEMMA Unseen ==
  ASSUME UNCHANGED <<call, owns>>
  PROVE  UNCHANGED Abs!vars
BY AbsNames

\* Every step is a step of the abstract mutexes or is not seen.
LEMMA NextIsAbs ==
  ASSUME ~Cancellable, IInv, [Next]_vars
  PROVE  [Abs!Next]_(Abs!vars)
<1>1. ASSUME NEW t \in Threads, NEW m \in Mutexes, kmutex_lock(t, m)
      PROVE  Abs!Next \/ UNCHANGED Abs!vars
  <2>1. Runs(t) /\ m \notin owns[t]
    BY <1>1 DEF kmutex_lock
  <2>2. CASE km_holder[m] = t /\ Panic(FALSE)
    BY <2>1, <2>2, NotHolder
  <2>3. CASE km_holder[m] = NULL /\ TakeFree(t, m)
    <3>1. Abs!Take(t, m)
      BY <2>3, TakeIsTake
    <3> QED BY <3>1 DEF Abs!Next
  <2>4. CASE Sleep(t, m, "lock", "KT_SLEEP")
    <3>1. Abs!Request(t, m)
      BY <2>1, <2>4, SleepIsRequest
    <3> QED BY <3>1 DEF Abs!Next
  <2> QED BY <1>1, <2>2, <2>3, <2>4 DEF kmutex_lock
<1>2. ASSUME NEW t \in Threads, NEW m \in Mutexes, kmutex_unlock(t, m)
      PROVE  Abs!Next
  <2>1. Abs!Release(t, m)
    BY <1>2, UnlockIsRelease
  <2> QED BY <2>1 DEF Abs!Next
<1>3. ASSUME NEW t \in Threads, LockReturn(t)
      PROVE  Abs!Next
  <2>1. PICK m \in Mutexes : call[t].mtx = m
    BY <1>3 DEF IInv, InCall, LockReturn
  <2>2. Abs!Grant(t, m)
    BY <1>3, <2>1, ReturnIsGrant
  <2> QED BY <2>2 DEF Abs!Next
<1>4. ASSUME NEW t \in Threads, Yield(t) PROVE UNCHANGED Abs!vars
  BY <1>4, Unseen DEF Yield
<1>5. CASE sched_switch
  BY <1>5, Unseen DEF sched_switch
<1>6. CASE UNCHANGED vars
  BY <1>6, Unseen DEF vars
<1> QED BY <1>1, <1>2, <1>3, <1>4, <1>5, <1>6 DEF Next, kmutex_lock_cancellable, Cancel

\* kmutex_lock and kmutex_unlock implement the mutexes of MutexAbs when no thread is
\* cancelled: the safety part of ImplementsMutexAbs.
THEOREM MutexImplementsAbs ==
  ASSUME ~Cancellable
  PROVE  Spec => Abs!Safety
<1>1. Init => Abs!Init
  <2>1. ASSUME Init PROVE Owner(owns) = [m \in Mutexes |-> NULL]
    BY <2>1 DEF Init, Owner, OwnerOf
  <2>2. ASSUME Init PROVE Want(call) = [m \in Mutexes |-> {}]
    BY <2>2, MutexNames DEF Init, Want, WantOf, NoCall
  <2> QED BY <2>1, <2>2, AbsNames, Zenon
<1>2. IInv /\ [Next]_vars => [Abs!Next]_(Abs!vars)
  BY NextIsAbs
<1> QED BY <1>1, <1>2, MutexInvariant, PTL DEF Spec, Abs!Safety
=============================================================================
