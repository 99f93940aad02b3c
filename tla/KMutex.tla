------------------------------- MODULE KMutex --------------------------------
(***************************************************************************)
(* The mutexes of K1/kmutex.c over the thread queues of K1/sched.c.        *)
(*                                                                         *)
(* A mutex and its km_waitq share a name.  sched_switch is the atomic      *)
(* dispatch that Sched is shown to implement (SchedAbs): curthr is NULL    *)
(* from the moment a thread gives up the CPU until the next one resumes.   *)
(* call[t] is the mutex call in which t sleeps; owns[t] is the caller's    *)
(* view, the mutexes its calls have locked; refused[t] is the mutexes      *)
(* whose last lock call by t returned -EINTR.                              *)
(***************************************************************************)
EXTENDS KTQueue, FiniteSets

CONSTANT
  Cancellable   \* TRUE when threads lock cancellably and are cancelled

ASSUME KMutexConstants == Cancellable \in BOOLEAN /\ IsFiniteSet(Threads)

VARIABLES k, curthr, km_holder, call, owns, refused

vars == <<k, curthr, km_holder, call, owns, refused>>

Mutexes == WaitQueues

NoCall == [fn |-> "none", mtx |-> NULL]

\* kmutex_init, with some order of the threads on the run queue.
Init ==
  /\ \E order \in SetToSeqs(Threads) :
       k = [EmptySystem EXCEPT
              !.kt_state = [t \in Threads |-> "KT_RUN"],
              !.kt_wchan = [t \in Threads |-> RunQ],
              !.tq[RunQ] = order]
  /\ curthr = NULL
  /\ km_holder = [m \in Mutexes |-> NULL]
  /\ call = [t \in Threads |-> NoCall]
  /\ owns = [t \in Threads |-> {}]
  /\ refused = [t \in Threads |-> {}]

-----------------------------------------------------------------------------
\* The thread t runs outside any mutex call.
Runs(t) == curthr = t /\ call[t] = NoCall /\ ~k.panic

\* Sleep on the wait queue of m inside the mutex call fn.
Sleep(t, m, fn, st) ==
  /\ k' = sleep_enqueue(k, m, t, st)
  /\ call' = [call EXCEPT ![t] = [fn |-> fn, mtx |-> m]]
  /\ curthr' = NULL
  /\ refused' = [refused EXCEPT ![t] = @ \ {m}]
  /\ UNCHANGED <<km_holder, owns>>

\* A lock call returns 0 to t.
Locked(t, m) ==
  /\ owns' = [owns EXCEPT ![t] = @ \cup {m}]
  /\ refused' = [refused EXCEPT ![t] = @ \ {m}]

\* A lock call returns -EINTR to t.
Refused(t, m) ==
  /\ refused' = [refused EXCEPT ![t] = @ \cup {m}]
  /\ UNCHANGED owns

TakeFree(t, m) ==
  /\ km_holder' = [km_holder EXCEPT ![m] = t]
  /\ Locked(t, m)
  /\ UNCHANGED <<k, curthr, call>>

Panic(cond) ==
  /\ k' = KASSERT(k, cond)
  /\ UNCHANGED <<curthr, km_holder, call, owns, refused>>

\* Mutant: the holder is not looked at.
kmutex_lock_untested(t, m) == Runs(t) /\ m \notin owns[t] /\ TakeFree(t, m)

\* Callers follow "No thread should ever try to lock a mutex it already has locked".
kmutex_lock(t, m) ==
  /\ Runs(t) /\ m \notin owns[t]
  /\ \/ km_holder[m] = t /\ Panic(FALSE)
     \/ km_holder[m] = NULL /\ TakeFree(t, m)
     \/ /\ km_holder[m] \notin {t, NULL}
        /\ Sleep(t, m, "lock", "KT_SLEEP")

\* The call of kmutex_unlock for a cancelled holder fails that function's
\* assertion, because the caller is not the holder.
kmutex_lock_cancellable(t, m) ==
  /\ Cancellable
  /\ Runs(t) /\ m \notin owns[t]
  /\ \/ km_holder[m] = t /\ Panic(FALSE)
     \/ km_holder[m] = NULL /\ TakeFree(t, m)
     \/ /\ km_holder[m] \notin {t, NULL}
        /\ k.kt_cancelled[km_holder[m]]
        /\ Panic(t = km_holder[m])
     \/ /\ km_holder[m] \notin {t, NULL}
        /\ ~k.kt_cancelled[km_holder[m]]
        /\ IF k.kt_cancelled[t]
           THEN Refused(t, m) /\ UNCHANGED <<k, curthr, km_holder, call>>
           ELSE Sleep(t, m, "lock_cancellable", "KT_SLEEP_CANCELLABLE")

\* The sleep inside a lock call is over.  The code looks at kt_cancelled, never
\* at km_holder.
LockReturn(t) ==
  /\ curthr = t /\ call[t] # NoCall /\ ~k.panic
  /\ LET m == call[t].mtx
     IN  IF call[t].fn = "lock_cancellable" /\ k.kt_cancelled[t]
         THEN Refused(t, m)
         ELSE Locked(t, m)
  /\ call' = [call EXCEPT ![t] = NoCall]
  /\ UNCHANGED <<k, curthr, km_holder>>

\* What the mutants of kmutex_unlock have in common: who holds the mutex next and
\* what happens to the queues.
UnlockAs(t, m, holder, queues) ==
  /\ Runs(t) /\ m \in owns[t]
  /\ km_holder' = [km_holder EXCEPT ![m] = holder]
  /\ k' = queues
  /\ owns' = [owns EXCEPT ![t] = @ \ {m}]
  /\ UNCHANGED <<curthr, call, refused>>

\* Mutant: nobody is woken.
kmutex_unlock_no_wakeup(t, m) == UnlockAs(t, m, NULL, k)

\* Mutant: the mutex is passed on to a thread that goes on sleeping.
kmutex_unlock_sleeping_heir(t, m) ==
  UnlockAs(t, m, IF sched_queue_empty(k, m) THEN NULL ELSE Head(k.tq[m]), k)

\* The first sleeper becomes the holder before it runs.
kmutex_unlock(t, m) ==
  /\ Runs(t) /\ m \in owns[t]
  /\ IF km_holder[m] # t
     THEN Panic(FALSE)
     ELSE LET heir == IF sched_queue_empty(k, m) THEN NULL ELSE Head(k.tq[m])
          IN  /\ km_holder' = [km_holder EXCEPT ![m] = heir]
              /\ k' = KASSERT(sched_wakeup_on(k, m), t # heir)
              /\ owns' = [owns EXCEPT ![t] = @ \ {m}]
              /\ UNCHANGED <<curthr, call, refused>>

\* kthread_cancel on another thread.
Cancel(t, u) ==
  /\ Cancellable
  /\ Runs(t) /\ t # u
  /\ k' = sched_cancel(k, u)
  /\ UNCHANGED <<curthr, km_holder, call, owns, refused>>

Yield(t) ==
  /\ Runs(t)
  /\ k' = sched_make_runnable(k, t)
  /\ curthr' = NULL
  /\ UNCHANGED <<km_holder, call, owns, refused>>

sched_switch ==
  /\ curthr = NULL /\ ~k.panic
  /\ ~sched_queue_empty(k, RunQ)
  /\ curthr' = Head(k.tq[RunQ])
  /\ k' = ktqueue_dequeue(k, RunQ)
  /\ UNCHANGED <<km_holder, call, owns, refused>>

Next ==
  \/ \E t \in Threads, m \in Mutexes :
       kmutex_lock(t, m) \/ kmutex_lock_cancellable(t, m) \/ kmutex_unlock(t, m)
  \/ \E t \in Threads : LockReturn(t) \/ Yield(t)
  \/ \E t, u \in Threads : Cancel(t, u)
  \/ sched_switch

Spec == Init /\ [][Next]_vars

\* The CPU is never left idle, no thread keeps it for ever, and a thread that
\* owns a mutex gives it back at some point.
Fairness ==
  /\ WF_vars(sched_switch)
  /\ \A t \in Threads :
       /\ WF_vars(LockReturn(t))
       /\ WF_vars(Yield(t))
       /\ \A m \in Mutexes : SF_vars(kmutex_unlock(t, m))

FairSpec == Spec /\ Fairness

-----------------------------------------------------------------------------
(* Properties.                                                             *)

\* Two callers never both believe that they have locked a mutex, although
\* kmutex_unlock passes it on to a thread that has yet to run.
MutualExclusion ==
  \A t, u \in Threads : t # u => owns[t] \cap owns[u] = {}

\* km_holder is the owner, a thread on its way out of a lock call that was handed
\* the mutex while it slept, or a thread whose cancellable call was refused; and
\* every sleeper of the wait queue has someone other than itself to wait for.
HolderExplained ==
  \A m \in Mutexes :
    /\ \A t \in Threads :
         /\ m \in owns[t] => km_holder[m] = t
         /\ km_holder[m] = t => \/ m \in owns[t]
                                \/ call[t].mtx = m /\ k.kt_wchan[t] # m
                                \/ m \in refused[t]
    /\ ~sched_queue_empty(k, m) => km_holder[m] # NULL

\* Every kmutex_lock returns, in whatever order threads ask, if owners unlock.
LockReturns ==
  \A t \in Threads : call[t].fn = "lock" ~> call[t] = NoCall

\* "if you are cancelled while holding mtx, you should unlock mtx" (kmutex.c:48):
\* a thread to which kmutex_lock_cancellable returned -EINTR does not hold it.
EintrMeansNotHolder ==
  \A t \in Threads : \A m \in refused[t] : km_holder[m] # t

\* The assertions of kmutex.c hold when threads are cancelled too: the holder
\* test of kmutex_unlock (kmutex.c:91) and "curthr != mtx->km_holder".
NoPanicCancellable == ~k.panic

-----------------------------------------------------------------------------
(* The abstract mutex, seen from the callers.                              *)

Abs == INSTANCE MutexAbs
         WITH owner <- [m \in Mutexes |->
                          IF \E t \in Threads : m \in owns[t]
                          THEN CHOOSE t \in Threads : m \in owns[t] ELSE NULL],
              want  <- [m \in Mutexes |-> {t \in Threads : call[t].mtx = m}]

\* kmutex_lock and kmutex_unlock implement a fair mutex.
ImplementsMutexAbs == Abs!Spec
=============================================================================
