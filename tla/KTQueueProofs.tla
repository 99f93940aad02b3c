---------------------------- MODULE KTQueueProofs ----------------------------
(***************************************************************************)
(* Lemmas about the operators of KTQueue: on a well-formed thread system   *)
(* each queue function, called as its KASSERTs demand, returns a           *)
(* well-formed thread system, and what it does to each field.              *)
(***************************************************************************)
EXTENDS KTQueue, SeqLemmas

-----------------------------------------------------------------------------
(* Well-formed thread systems and what each function does to them.         *)

WellFormed(k) == k \in ThreadSystems /\ QueuesMatch(k)

\* e is k with t linked at the end of q.
Linked(k, e, q, t) ==
  /\ e.kt_state = k.kt_state
  /\ e.kt_cancelled = k.kt_cancelled
  /\ e.panic = k.panic
  /\ e.kt_wchan = [k.kt_wchan EXCEPT ![t] = q]
  /\ e.tq = [k.tq EXCEPT ![q] = Append(@, t)]

\* e is k with t no longer on the queue q.
Unlinked(k, e, q, t) ==
  /\ e.kt_state = k.kt_state
  /\ e.kt_cancelled = k.kt_cancelled
  /\ e.panic = k.panic
  /\ e.kt_wchan = [k.kt_wchan EXCEPT ![t] = NULL]
  /\ \A r \in Queues \ {q} : e.tq[r] = k.tq[r]
  /\ \A x \in Threads : Contains(e.tq[q], x) <=> Contains(k.tq[q], x) /\ x # t

\* The types of the fields.
LEMMA FieldTypes ==
  ASSUME NEW k \in ThreadSystems
  PROVE  /\ k.kt_state \in [Threads -> ThreadStates]
         /\ k.kt_wchan \in [Threads -> Queues \cup {NULL}]
         /\ k.kt_cancelled \in [Threads -> BOOLEAN]
         /\ k.tq \in [Queues -> Seq(Threads)]
         /\ k.panic \in BOOLEAN
BY DEF ThreadSystems

\* ktqueue_enqueue of a thread that is on no queue.
LEMMA EnqueueCorrect ==
  ASSUME NEW k \in ThreadSystems, QueuesMatch(k), NEW q \in Queues, NEW t \in Threads,
         k.kt_wchan[t] = NULL
  PROVE  /\ WellFormed(ktqueue_enqueue(k, q, t))
         /\ Linked(k, ktqueue_enqueue(k, q, t), q, t)
<1> DEFINE e == ktqueue_enqueue(k, q, t)
<1>0. Append(k.tq[q], t) \in Seq(Threads)
  BY FieldTypes, AppendProperties
<1>1. e \in ThreadSystems
  BY <1>0, FieldTypes, Zenon DEF ktqueue_enqueue, KASSERT, ThreadSystems
<1>2. e.kt_state = k.kt_state
  BY FieldTypes DEF ktqueue_enqueue, KASSERT, ThreadSystems
<1>3. e.kt_cancelled = k.kt_cancelled
  BY FieldTypes DEF ktqueue_enqueue, KASSERT, ThreadSystems
<1>4. e.panic = k.panic
  BY FieldTypes DEF ktqueue_enqueue, KASSERT, ThreadSystems
<1>5. e.kt_wchan = [k.kt_wchan EXCEPT ![t] = q]
  BY FieldTypes DEF ktqueue_enqueue, KASSERT, ThreadSystems
<1>6. e.tq = [k.tq EXCEPT ![q] = Append(@, t)]
  BY FieldTypes DEF ktqueue_enqueue, KASSERT, ThreadSystems
<1> HIDE DEF e
<1>7. \A r \in Queues : e.tq[r] = IF r = q THEN Append(k.tq[q], t) ELSE k.tq[r]
  BY <1>6, FieldTypes
<1>8. \A x \in Threads : e.kt_wchan[x] = IF x = t THEN q ELSE k.kt_wchan[x]
  BY <1>5, FieldTypes
<1>9. \A r \in Queues : ~Contains(k.tq[r], t)
  BY QueueNames DEF QueuesMatch, Queues
<1>10. \A x : Contains(Append(k.tq[q], t), x) <=> Contains(k.tq[q], x) \/ x = t
  BY FieldTypes, AppendContains
<1>11. IsInjective(Append(k.tq[q], t))
  BY FieldTypes, AppendContains, <1>9 DEF QueuesMatch
<1>12. ASSUME NEW r \in Queues, NEW x \in Threads
       PROVE  e.kt_wchan[x] = r <=> Contains(e.tq[r], x)
  BY <1>7, <1>8, <1>9, <1>10 DEF QueuesMatch
<1>13. \A r \in Queues : IsInjective(e.tq[r])
  BY <1>7, <1>11 DEF QueuesMatch
<1>14. QueuesMatch(e)
  BY <1>12, <1>13 DEF QueuesMatch
<1>15. Linked(k, e, q, t)
  BY <1>2, <1>3, <1>4, <1>5, <1>6 DEF Linked
<1> QED BY <1>1, <1>14, <1>15 DEF WellFormed, e

\* Relinking keeps the type.
LEMMA RelinkType ==
  ASSUME NEW k \in ThreadSystems,
         NEW w \in [Threads -> Queues \cup {NULL}], NEW f \in [Queues -> Seq(Threads)]
  PROVE  [k EXCEPT !.tq = f, !.kt_wchan = w] \in ThreadSystems
BY Zenon DEF ThreadSystems

\* What is left to show about a function that unlinks t from q.
LEMMA UnlinkedMatch ==
  ASSUME NEW k \in ThreadSystems, QueuesMatch(k), NEW q \in Queues, NEW t \in Threads,
         k.kt_wchan[t] = q,
         NEW e, Unlinked(k, e, q, t), IsInjective(e.tq[q])
  PROVE  QueuesMatch(e)
<1>1. \A x \in Threads : e.kt_wchan[x] = IF x = t THEN NULL ELSE k.kt_wchan[x]
  BY FieldTypes DEF Unlinked
<1>2. ASSUME NEW r \in Queues, NEW x \in Threads
      PROVE  e.kt_wchan[x] = r <=> Contains(e.tq[r], x)
  <2>1. CASE x = t
    <3>1. e.kt_wchan[x] # r
      BY <1>1, <2>1, QueueNames DEF Queues
    <3>2. ~Contains(e.tq[r], x)
      BY <2>1 DEF Unlinked, QueuesMatch
    <3> QED BY <3>1, <3>2
  <2>2. CASE x # t
    BY <1>1, <2>2 DEF Unlinked, QueuesMatch
  <2> QED BY <2>1, <2>2
<1>3. \A r \in Queues : IsInjective(e.tq[r])
  BY DEF Unlinked, QueuesMatch
<1> QED BY <1>2, <1>3 DEF QueuesMatch

\* ktqueue_dequeue takes the first thread of the queue.
LEMMA DequeueCorrect ==
  ASSUME NEW k \in ThreadSystems, QueuesMatch(k), NEW q \in Queues,
         ~sched_queue_empty(k, q)
  PROVE  /\ Head(k.tq[q]) \in Threads
         /\ k.kt_wchan[Head(k.tq[q])] = q
         /\ WellFormed(ktqueue_dequeue(k, q))
         /\ Unlinked(k, ktqueue_dequeue(k, q), q, Head(k.tq[q]))
         /\ ktqueue_dequeue(k, q).tq = [k.tq EXCEPT ![q] = Tail(@)]
<1> DEFINE e == ktqueue_dequeue(k, q)
           t == Head(k.tq[q])
<1>0. k.tq[q] \in Seq(Threads) /\ k.tq[q] # << >> /\ IsInjective(k.tq[q])
  BY FieldTypes DEF sched_queue_empty, QueuesMatch
<1>1. t \in Threads /\ Tail(k.tq[q]) \in Seq(Threads)
  BY <1>0, HeadTailProperties
<1>2. k.kt_wchan[t] = q
  BY <1>0, <1>1, TailContains DEF QueuesMatch
<1> HIDE DEF t
<1>3. e = [k EXCEPT !.kt_wchan[t] = NULL, !.tq[q] = Tail(@)]
  BY SMTT(30) DEF ktqueue_dequeue, t
<1> HIDE DEF e
<1>4. e \in ThreadSystems
  <2>1. [k.kt_wchan EXCEPT ![t] = NULL] \in [Threads -> Queues \cup {NULL}]
    BY <1>1, FieldTypes
  <2>2. [k.tq EXCEPT ![q] = Tail(@)] \in [Queues -> Seq(Threads)]
    BY <1>1, FieldTypes
  <2>3. e = [k EXCEPT !.tq = [k.tq EXCEPT ![q] = Tail(@)],
                      !.kt_wchan = [k.kt_wchan EXCEPT ![t] = NULL]]
    BY <1>3, Zenon DEF ThreadSystems
  <2> QED BY <2>1, <2>2, <2>3, RelinkType, Zenon
<1>5. e.kt_state = k.kt_state
  BY <1>3, FieldTypes DEF ThreadSystems
<1>6. e.kt_cancelled = k.kt_cancelled
  BY <1>3, FieldTypes DEF ThreadSystems
<1>7. e.panic = k.panic
  BY <1>3, FieldTypes DEF ThreadSystems
<1>8. e.kt_wchan = [k.kt_wchan EXCEPT ![t] = NULL]
  BY <1>3, FieldTypes DEF ThreadSystems
<1>9. e.tq = [k.tq EXCEPT ![q] = Tail(@)]
  BY <1>3, FieldTypes DEF ThreadSystems
<1>10. e.tq[q] = Tail(k.tq[q]) /\ \A r \in Queues \ {q} : e.tq[r] = k.tq[r]
  BY <1>9, FieldTypes
<1>11. /\ \A x : Contains(Tail(k.tq[q]), x) <=> Contains(k.tq[q], x) /\ x # t
       /\ IsInjective(Tail(k.tq[q]))
  BY <1>0, TailContains DEF t
<1>12. Unlinked(k, e, q, t)
  BY <1>5, <1>6, <1>7, <1>8, <1>10, <1>11 DEF Unlinked
<1>13. QueuesMatch(e)
  BY <1>1, <1>2, <1>10, <1>11, <1>12, UnlinkedMatch
<1> QED BY <1>1, <1>2, <1>4, <1>9, <1>12, <1>13 DEF WellFormed, e, t

\* ktqueue_remove takes a thread off the queue its kt_wchan names.
LEMMA RemoveCorrect ==
  ASSUME NEW k \in ThreadSystems, QueuesMatch(k), NEW q \in Queues, NEW t \in Threads,
         k.kt_wchan[t] = q
  PROVE  /\ WellFormed(ktqueue_remove(k, q, t))
         /\ Unlinked(k, ktqueue_remove(k, q, t), q, t)
         /\ ktqueue_remove(k, q, t).tq = [k.tq EXCEPT ![q] = RemoveFirst(@, t)]
<1> DEFINE e == ktqueue_remove(k, q, t)
           w == RemoveFirst(k.tq[q], t)
<1>0. k.tq[q] \in Seq(Threads) /\ Contains(k.tq[q], t) /\ IsInjective(k.tq[q])
  BY FieldTypes DEF QueuesMatch
<1>1. /\ w \in Seq(Threads)
      /\ \A x : Contains(w, x) <=> Contains(k.tq[q], x) /\ x # t
      /\ IsInjective(w)
  BY <1>0, RemoveContains
<1>2. KASSERT(k, Contains(k.tq[q], t)) = k
  BY <1>0, FieldTypes DEF KASSERT, ThreadSystems
<1>3. e = [k EXCEPT !.tq[q] = RemoveFirst(@, t), !.kt_wchan[t] = NULL]
  BY <1>2, SMTT(30) DEF ktqueue_remove
<1> HIDE DEF e
<1>4. e \in ThreadSystems
  <2>1. [k.kt_wchan EXCEPT ![t] = NULL] \in [Threads -> Queues \cup {NULL}]
    BY <1>1, FieldTypes
  <2>2. [k.tq EXCEPT ![q] = RemoveFirst(@, t)] \in [Queues -> Seq(Threads)]
    BY <1>1, FieldTypes
  <2>3. e = [k EXCEPT !.tq = [k.tq EXCEPT ![q] = RemoveFirst(@, t)],
                      !.kt_wchan = [k.kt_wchan EXCEPT ![t] = NULL]]
    BY <1>3 DEF ThreadSystems
  <2> QED BY <2>1, <2>2, <2>3, RelinkType, Zenon
<1>5. e.kt_state = k.kt_state
  BY <1>3, FieldTypes DEF ThreadSystems
<1>6. e.kt_cancelled = k.kt_cancelled
  BY <1>3, FieldTypes DEF ThreadSystems
<1>7. e.panic = k.panic
  BY <1>3, FieldTypes DEF ThreadSystems
<1>8. e.kt_wchan = [k.kt_wchan EXCEPT ![t] = NULL]
  BY <1>3, FieldTypes DEF ThreadSystems
<1>9. e.tq = [k.tq EXCEPT ![q] = RemoveFirst(@, t)]
  BY <1>3, FieldTypes DEF ThreadSystems
<1>10. e.tq[q] = w /\ \A r \in Queues \ {q} : e.tq[r] = k.tq[r]
  BY <1>9, FieldTypes
<1> HIDE DEF w
<1>11. Unlinked(k, e, q, t)
  BY <1>1, <1>5, <1>6, <1>7, <1>8, <1>10 DEF Unlinked
<1>12. QueuesMatch(e)
  BY <1>1, <1>10, <1>11, UnlinkedMatch
<1> QED BY <1>4, <1>9, <1>11, <1>12 DEF WellFormed, e, w

\* An assertion that holds changes nothing.
LEMMA AssertHolds ==
  ASSUME NEW k \in ThreadSystems
  PROVE  KASSERT(k, TRUE) = k
BY FieldTypes DEF KASSERT, ThreadSystems

\* Setting the state of a thread leaves the queues alone.
LEMMA SetStateCorrect ==
  ASSUME NEW k \in ThreadSystems, QueuesMatch(k), NEW t \in Threads, NEW st \in ThreadStates
  PROVE  /\ WellFormed(set_state(k, t, st))
         /\ set_state(k, t, st).kt_state = [k.kt_state EXCEPT ![t] = st]
         /\ set_state(k, t, st).kt_cancelled = k.kt_cancelled
         /\ set_state(k, t, st).panic = k.panic
         /\ set_state(k, t, st).kt_wchan = k.kt_wchan
         /\ set_state(k, t, st).tq = k.tq
<1> DEFINE e == set_state(k, t, st)
<1> USE FieldTypes DEF set_state, ThreadSystems
<1>1. e \in ThreadSystems
  BY Zenon
<1>2. e.kt_state = [k.kt_state EXCEPT ![t] = st]
  OBVIOUS
<1>3. e.kt_cancelled = k.kt_cancelled
  OBVIOUS
<1>4. e.panic = k.panic
  OBVIOUS
<1>5. e.kt_wchan = k.kt_wchan
  OBVIOUS
<1>6. e.tq = k.tq
  OBVIOUS
<1>7. QueuesMatch(e)
  BY <1>5, <1>6 DEF QueuesMatch
<1> QED BY <1>1, <1>2, <1>3, <1>4, <1>5, <1>6, <1>7, Zenon DEF WellFormed

\* e is k with t in the state st at the end of q.
LinkedAs(k, e, q, t, st) ==
  /\ e.kt_state = [k.kt_state EXCEPT ![t] = st]
  /\ e.kt_cancelled = k.kt_cancelled
  /\ e.panic = k.panic
  /\ e.kt_wchan = [k.kt_wchan EXCEPT ![t] = q]
  /\ e.tq = [k.tq EXCEPT ![q] = Append(@, t)]

\* sched_sleep_on and sched_cancellable_sleep_on of a thread that is on no queue.
LEMMA SleepCorrect ==
  ASSUME NEW k \in ThreadSystems, QueuesMatch(k), NEW q \in Queues, NEW t \in Threads,
         NEW st \in ThreadStates, k.kt_wchan[t] = NULL
  PROVE  /\ WellFormed(sleep_enqueue(k, q, t, st))
         /\ LinkedAs(k, sleep_enqueue(k, q, t, st), q, t, st)
<1> DEFINE s == set_state(k, t, st)
<1>1. /\ s \in ThreadSystems /\ QueuesMatch(s)
      /\ s.kt_state = [k.kt_state EXCEPT ![t] = st]
      /\ s.kt_cancelled = k.kt_cancelled /\ s.panic = k.panic
      /\ s.kt_wchan = k.kt_wchan /\ s.tq = k.tq
  BY SetStateCorrect DEF WellFormed
<1> HIDE DEF s
<1>2. WellFormed(ktqueue_enqueue(s, q, t)) /\ Linked(s, ktqueue_enqueue(s, q, t), q, t)
  BY <1>1, EnqueueCorrect
<1> QED BY <1>1, <1>2 DEF Linked, LinkedAs, sleep_enqueue, s

\* sched_make_runnable of a thread that is on no queue.
LEMMA MakeRunnableCorrect ==
  ASSUME NEW k \in ThreadSystems, QueuesMatch(k), NEW t \in Threads, k.kt_wchan[t] = NULL
  PROVE  /\ WellFormed(sched_make_runnable(k, t))
         /\ LinkedAs(k, sched_make_runnable(k, t), RunQ, t, "KT_RUN")
<1>1. KASSERT(k, k.kt_wchan[t] # RunQ) = k
  BY AssertHolds, QueueNames, Zenon
<1>2. sched_make_runnable(k, t) = sleep_enqueue(k, RunQ, t, "KT_RUN")
  BY <1>1 DEF sched_make_runnable, sleep_enqueue
<1> QED BY <1>2, SleepCorrect DEF Queues, ThreadStates

\* The first n threads of q have moved to the end of the run queue.
MovedToRunQ(k, e, q, n) ==
  /\ e.tq[RunQ] = k.tq[RunQ] \o SubSeq(k.tq[q], 1, n)
  /\ e.tq[q] = SubSeq(k.tq[q], n + 1, Len(k.tq[q]))
  /\ \A r \in Queues \ {q, RunQ} : e.tq[r] = k.tq[r]

\* e is k with the threads of the set T, the first ones of the wait queue q, made
\* runnable in their order on q.
Woken(k, e, q, T) ==
  /\ \A x \in Threads : e.kt_state[x] = IF x \in T THEN "KT_RUN" ELSE k.kt_state[x]
  /\ \A x \in Threads : e.kt_wchan[x] = IF x \in T THEN RunQ ELSE k.kt_wchan[x]
  /\ e.kt_cancelled = k.kt_cancelled
  /\ e.panic = k.panic
  /\ \A x \in T : k.kt_wchan[x] = q
  /\ \E n \in 0..Len(k.tq[q]) : MovedToRunQ(k, e, q, n)

\* sched_wakeup_on wakes at most one thread.
LEMMA WakeupCorrect ==
  ASSUME NEW k \in ThreadSystems, QueuesMatch(k), StatesMatch(k), NEW q \in WaitQueues
  PROVE  /\ WellFormed(sched_wakeup_on(k, q))
         /\ \E T \in SUBSET Threads : Woken(k, sched_wakeup_on(k, q), q, T)
<1>1. CASE sched_queue_empty(k, q)
  <2>1. sched_wakeup_on(k, q) = k
    BY <1>1 DEF sched_wakeup_on
  <2>2. 0 \in 0..Len(k.tq[q]) /\ MovedToRunQ(k, k, q, 0)
    <3>1. k.tq[RunQ] \in Seq(Threads) /\ k.tq[q] \in Seq(Threads)
      BY FieldTypes DEF Queues
    <3>2. SubSeq(k.tq[q], 1, 0) = << >> /\ SubSeq(k.tq[q], 0 + 1, Len(k.tq[q])) = k.tq[q]
      BY <3>1, SubSeqEmpty, SubSeqFull
    <3> QED BY <3>1, <3>2, ConcatEmptySeq, LenProperties DEF MovedToRunQ
  <2>3. Woken(k, k, q, {})
    BY <2>2 DEF Woken
  <2> QED BY <2>1, <2>3 DEF WellFormed
<1>2. CASE ~sched_queue_empty(k, q)
  <2> DEFINE t == Head(k.tq[q])
             d == ktqueue_dequeue(k, q)
             r == sched_make_runnable(d, t)
  <2>1. /\ t \in Threads /\ k.kt_wchan[t] = q
        /\ d \in ThreadSystems /\ QueuesMatch(d) /\ Unlinked(k, d, q, t)
    BY <1>2, DequeueCorrect, Zenon DEF Queues, WellFormed
  <2>2. KASSERT(d, k.kt_state[t] \in Sleeping) = d
    <3>1. k.kt_state[t] \in Sleeping
      BY <2>1 DEF StatesMatch
    <3> QED BY <2>1, <3>1, AssertHolds, Zenon
  <2>3. sched_wakeup_on(k, q) = r
    BY <1>2, <2>2 DEF sched_wakeup_on
  <2> HIDE DEF d, t
  <2>4. d.kt_wchan[t] = NULL
    BY <2>1, FieldTypes DEF Unlinked
  <2>5. WellFormed(r) /\ LinkedAs(d, r, RunQ, t, "KT_RUN")
    BY <2>1, <2>4, MakeRunnableCorrect
  <2> HIDE DEF r
  <2>6. \A x \in Threads : r.kt_state[x] = IF x \in {t} THEN "KT_RUN" ELSE k.kt_state[x]
    BY <2>1, <2>5, FieldTypes DEF LinkedAs, Unlinked
  <2>7. \A x \in Threads : r.kt_wchan[x] = IF x \in {t} THEN RunQ ELSE k.kt_wchan[x]
    BY <2>1, <2>5, FieldTypes DEF LinkedAs, Unlinked
  <2>8. 1 \in 0..Len(k.tq[q]) /\ MovedToRunQ(k, r, q, 1)
    <3>1. RunQ \in Queues /\ q \in Queues /\ RunQ # q
      BY QueueNames DEF Queues
    <3>2. /\ k.tq[RunQ] \in Seq(Threads) /\ k.tq[q] \in Seq(Threads)
          /\ k.tq[q] # << >> /\ Len(k.tq[q]) \in Nat /\ Len(k.tq[q]) > 0
      BY <1>2, <3>1, FieldTypes, LenProperties, EmptySeq DEF sched_queue_empty
    <3>3. SubSeq(k.tq[q], 1, 1) = << t >>
      <4>1. k.tq[q][1] = t
        BY <3>2 DEF t
      <4>2. SubSeq(k.tq[q], 1, 1) = << k.tq[q][1] >> \o SubSeq(k.tq[q], 1 + 1, 1)
        BY <3>2, SubSeqRecursiveFirst
      <4>3. SubSeq(k.tq[q], 1 + 1, 1) = << >>
        BY SubSeqEmpty
      <4>4. << t >> \in Seq(Threads)
        BY <2>1
      <4> QED BY <4>1, <4>2, <4>3, <4>4, ConcatEmptySeq, Zenon
    <3>4. r.tq[RunQ] = Append(k.tq[RunQ], t)
      BY <2>1, <2>5, <3>1, FieldTypes DEF LinkedAs, Unlinked
    <3>5. r.tq[RunQ] = k.tq[RunQ] \o SubSeq(k.tq[q], 1, 1)
      BY <2>1, <3>2, <3>3, <3>4, AppendIsConcat, Zenon
    <3>6. d.tq[q] = SubSeq(k.tq[q], 1 + 1, Len(k.tq[q]))
      <4>1. d.tq = [k.tq EXCEPT ![q] = Tail(@)]
        BY <1>2, <3>1, DequeueCorrect DEF d
      <4>2. d.tq[q] = Tail(k.tq[q])
        BY <4>1, <3>1, FieldTypes
      <4> QED BY <4>2, <3>2, TailIsSubSeq
    <3>7. \A x \in Queues \ {RunQ} : r.tq[x] = d.tq[x]
      BY <2>1, <2>5, <3>1, FieldTypes, SMTT(30) DEF LinkedAs
    <3> QED BY <2>1, <3>1, <3>2, <3>5, <3>6, <3>7, SMTT(30) DEF MovedToRunQ, Unlinked
  <2>9. Woken(k, r, q, {t})
    BY <2>1, <2>5, <2>6, <2>7, <2>8 DEF Woken, LinkedAs, Unlinked
  <2> QED BY <2>1, <2>3, <2>5, <2>9
<1> QED BY <1>1, <1>2

\* sched_broadcast_on wakes every thread of the queue.
LEMMA BroadcastCorrect ==
  ASSUME NEW k \in ThreadSystems, QueuesMatch(k), NEW q \in WaitQueues
  PROVE  /\ WellFormed(sched_broadcast_on(k, q))
         /\ \E T \in SUBSET Threads : Woken(k, sched_broadcast_on(k, q), q, T)
<1> DEFINE e == sched_broadcast_on(k, q)
           T == {x \in Threads : Contains(k.tq[q], x)}
           st == [t \in Threads |-> IF Contains(k.tq[q], t) THEN "KT_RUN" ELSE k.kt_state[t]]
           wc == [t \in Threads |-> IF Contains(k.tq[q], t) THEN RunQ ELSE k.kt_wchan[t]]
           f == [k.tq EXCEPT ![q] = << >>, ![RunQ] = k.tq[RunQ] \o k.tq[q]]
<1>1. /\ RunQ \in Queues /\ q \in Queues /\ RunQ # q
      /\ k.tq[RunQ] \in Seq(Threads) /\ k.tq[q] \in Seq(Threads)
      /\ k.tq[RunQ] \o k.tq[q] \in Seq(Threads)
  BY FieldTypes, QueueNames, ConcatProperties DEF Queues
<1>2. e = [k EXCEPT !.kt_state = st, !.kt_wchan = wc, !.tq = f]
  BY DEF sched_broadcast_on
<1> HIDE DEF e, st, wc, f
<1>3. e.kt_state = st
  BY <1>2 DEF ThreadSystems
<1>4. e.kt_wchan = wc
  BY <1>2 DEF ThreadSystems
<1>5. e.kt_cancelled = k.kt_cancelled /\ e.panic = k.panic
  BY <1>2 DEF ThreadSystems
<1>6. e.tq = f
  BY <1>2 DEF ThreadSystems
<1>7. \A r \in Queues : e.tq[r] = IF r = q THEN << >>
                                  ELSE IF r = RunQ THEN k.tq[RunQ] \o k.tq[q] ELSE k.tq[r]
  BY <1>1, <1>6, FieldTypes DEF f
<1>8. e \in ThreadSystems
  <2>1. st \in [Threads -> ThreadStates]
    BY FieldTypes DEF st, ThreadStates
  <2>2. wc \in [Threads -> Queues \cup {NULL}]
    BY <1>1, FieldTypes DEF wc
  <2>3. f \in [Queues -> Seq(Threads)]
    <3>1. << >> \in Seq(Threads)
      BY EmptySeq
    <3> QED BY <1>1, <3>1, FieldTypes, Zenon DEF f
  <2> QED BY <1>2, <2>1, <2>2, <2>3, Zenon DEF ThreadSystems
<1>9. \A x \in Threads : ~(Contains(k.tq[RunQ], x) /\ Contains(k.tq[q], x))
  BY <1>1 DEF QueuesMatch
<1>10. /\ \A x : Contains(k.tq[RunQ] \o k.tq[q], x) <=> Contains(k.tq[RunQ], x) \/ Contains(k.tq[q], x)
       /\ IsInjective(k.tq[RunQ] \o k.tq[q])
  BY <1>1, <1>9, ConcatContains DEF QueuesMatch
<1>11. ASSUME NEW r \in Queues, NEW x \in Threads
       PROVE  e.kt_wchan[x] = r <=> Contains(e.tq[r], x)
  <2>1. ~Contains(<< >>, x)
    BY DEF Contains
  <2>2. e.kt_wchan[x] = IF Contains(k.tq[q], x) THEN RunQ ELSE k.kt_wchan[x]
    BY <1>4 DEF wc
  <2>3. /\ k.kt_wchan[x] = r <=> Contains(k.tq[r], x)
        /\ k.kt_wchan[x] = q <=> Contains(k.tq[q], x)
        /\ k.kt_wchan[x] = RunQ <=> Contains(k.tq[RunQ], x)
    BY <1>1 DEF QueuesMatch
  <2> QED BY <1>1, <1>7, <1>10, <2>1, <2>2, <2>3, SMTT(30)
<1>12. \A r \in Queues : IsInjective(e.tq[r])
  <2>1. IsInjective(<< >>)
    BY DEF IsInjective
  <2> QED BY <1>7, <1>10, <2>1 DEF QueuesMatch
<1>13. WellFormed(e)
  BY <1>8, <1>11, <1>12 DEF WellFormed, QueuesMatch
<1>14. Len(k.tq[q]) \in 0..Len(k.tq[q]) /\ MovedToRunQ(k, e, q, Len(k.tq[q]))
  <2>1. Len(k.tq[q]) \in Nat
    BY <1>1, LenProperties
  <2>2. SubSeq(k.tq[q], 1, Len(k.tq[q])) = k.tq[q]
    BY <1>1, SubSeqFull
  <2>3. SubSeq(k.tq[q], Len(k.tq[q]) + 1, Len(k.tq[q])) = << >>
    BY <2>1, SubSeqEmpty
  <2>4. e.tq[RunQ] = k.tq[RunQ] \o k.tq[q] /\ e.tq[q] = << >>
    BY <1>1, <1>7, Zenon
  <2>5. \A r \in Queues \ {q, RunQ} : e.tq[r] = k.tq[r]
    BY <1>7
  <2>6. MovedToRunQ(k, e, q, Len(k.tq[q]))
    BY <2>2, <2>3, <2>4, <2>5, Zenon DEF MovedToRunQ
  <2> QED BY <2>1, <2>6
<1>15. Woken(k, e, q, T)
  BY <1>1, <1>3, <1>4, <1>5, <1>14, SMTT(30) DEF Woken, QueuesMatch, st, wc
<1> QED BY <1>13, <1>15 DEF e

\* kthread_create of an object that is on no queue.
LEMMA CreateCorrect ==
  ASSUME NEW k \in ThreadSystems, QueuesMatch(k), NEW t \in Threads, k.kt_wchan[t] = NULL
  PROVE  /\ WellFormed(kthread_create(k, t))
         /\ kthread_create(k, t).kt_state = [k.kt_state EXCEPT ![t] = "KT_RUN"]
         /\ kthread_create(k, t).kt_cancelled = [k.kt_cancelled EXCEPT ![t] = FALSE]
         /\ kthread_create(k, t).panic = k.panic
         /\ kthread_create(k, t).kt_wchan = k.kt_wchan
         /\ kthread_create(k, t).tq = k.tq
<1> DEFINE e == kthread_create(k, t)
<1> USE FieldTypes DEF kthread_create, ThreadSystems
<1>1. e \in ThreadSystems
  BY Zenon DEF ThreadStates
<1>2. e.kt_state = [k.kt_state EXCEPT ![t] = "KT_RUN"]
  OBVIOUS
<1>3. e.kt_cancelled = [k.kt_cancelled EXCEPT ![t] = FALSE]
  OBVIOUS
<1>4. e.panic = k.panic
  OBVIOUS
<1>5. e.kt_wchan = k.kt_wchan
  OBVIOUS
<1>6. e.tq = k.tq
  OBVIOUS
<1>7. QueuesMatch(e)
  BY <1>5, <1>6 DEF QueuesMatch
<1> QED BY <1>1, <1>2, <1>3, <1>4, <1>5, <1>6, <1>7, SMTT(30) DEF WellFormed

\* kthread_exit of a thread that is on no queue.
LEMMA ExitCorrect ==
  ASSUME NEW k \in ThreadSystems, QueuesMatch(k), NEW t \in Threads, k.kt_wchan[t] = NULL
  PROVE  kthread_exit(k, t) = set_state(k, t, "KT_EXITED")
BY AssertHolds, Zenon DEF kthread_exit

\* kthread_destroy.
LEMMA DestroyCorrect ==
  ASSUME NEW k \in ThreadSystems, QueuesMatch(k), NEW t \in Threads
  PROVE  /\ WellFormed(kthread_destroy(k, t))
         /\ kthread_destroy(k, t).kt_state = [k.kt_state EXCEPT ![t] = "KT_NO_STATE"]
         /\ kthread_destroy(k, t).kt_cancelled = [k.kt_cancelled EXCEPT ![t] = FALSE]
         /\ kthread_destroy(k, t).panic = k.panic
         /\ kthread_destroy(k, t).kt_wchan = k.kt_wchan
         /\ kthread_destroy(k, t).tq = k.tq
<1> DEFINE e == kthread_destroy(k, t)
<1> USE FieldTypes DEF kthread_destroy, ThreadSystems
<1>1. e \in ThreadSystems
  BY Zenon DEF ThreadStates
<1>2. e.kt_state = [k.kt_state EXCEPT ![t] = "KT_NO_STATE"]
  OBVIOUS
<1>3. e.kt_cancelled = [k.kt_cancelled EXCEPT ![t] = FALSE]
  OBVIOUS
<1>4. e.panic = k.panic
  OBVIOUS
<1>5. e.kt_wchan = k.kt_wchan
  OBVIOUS
<1>6. e.tq = k.tq
  OBVIOUS
<1>7. QueuesMatch(e)
  BY <1>5, <1>6 DEF QueuesMatch
<1> QED BY <1>1, <1>2, <1>3, <1>4, <1>5, <1>6, <1>7, SMTT(30) DEF WellFormed

\* e is k with t's kt_cancelled set.
Marked(k, e, t) ==
  /\ e.kt_cancelled = [k.kt_cancelled EXCEPT ![t] = TRUE]
  /\ e.kt_state = k.kt_state
  /\ e.panic = k.panic
  /\ e.kt_wchan = k.kt_wchan
  /\ e.tq = k.tq

\* The first half of sched_cancel: the flag is set.
LEMMA MarkCancelledCorrect ==
  ASSUME NEW k \in ThreadSystems, QueuesMatch(k), NEW t \in Threads
  PROVE  /\ WellFormed([k EXCEPT !.kt_cancelled[t] = TRUE])
         /\ Marked(k, [k EXCEPT !.kt_cancelled[t] = TRUE], t)
<1> DEFINE e == [k EXCEPT !.kt_cancelled[t] = TRUE]
<1> USE FieldTypes DEF ThreadSystems
<1>1. e \in ThreadSystems
  BY Zenon
<1>2. Marked(k, e, t)
  BY DEF Marked
<1>3. QueuesMatch(e)
  BY <1>2 DEF Marked, QueuesMatch
<1> HIDE DEF e
<1>4. WellFormed(e) /\ Marked(k, e, t)
  BY <1>1, <1>2, <1>3, Zenon DEF WellFormed
<1> QED BY <1>4 DEF e

\* e is k with t moved from q to the end of the run queue.
Requeued(k, e, q, t) ==
  /\ e.kt_state = [k.kt_state EXCEPT ![t] = "KT_RUN"]
  /\ e.kt_cancelled = k.kt_cancelled
  /\ e.panic = k.panic
  /\ e.kt_wchan = [k.kt_wchan EXCEPT ![t] = RunQ]
  /\ e.tq = [[k.tq EXCEPT ![q] = RemoveFirst(@, t)] EXCEPT ![RunQ] = Append(@, t)]

\* The second half of sched_cancel: a thread on a queue, perhaps already the run
\* queue, goes to the end of the run queue.
LEMMA CancelWakeCorrect ==
  ASSUME NEW k \in ThreadSystems, QueuesMatch(k), NEW q \in Queues, NEW t \in Threads,
         k.kt_wchan[t] = q
  PROVE  /\ WellFormed(sched_make_runnable(ktqueue_remove(k, q, t), t))
         /\ Requeued(k, sched_make_runnable(ktqueue_remove(k, q, t), t), q, t)
<1> DEFINE r == ktqueue_remove(k, q, t)
           e == sched_make_runnable(r, t)
<1>1. /\ r \in ThreadSystems /\ QueuesMatch(r) /\ Unlinked(k, r, q, t)
      /\ r.tq = [k.tq EXCEPT ![q] = RemoveFirst(@, t)]
  BY RemoveCorrect DEF WellFormed
<1> HIDE DEF r
<1>2. r.kt_wchan[t] = NULL
  BY <1>1, FieldTypes DEF Unlinked
<1>3. WellFormed(e) /\ LinkedAs(r, e, RunQ, t, "KT_RUN")
  BY <1>1, <1>2, MakeRunnableCorrect
<1> HIDE DEF e
<1>4. e.kt_wchan = [k.kt_wchan EXCEPT ![t] = RunQ]
  BY <1>1, <1>3, FieldTypes, Zenon DEF LinkedAs, Unlinked
<1>5. Requeued(k, e, q, t)
  BY <1>1, <1>3, <1>4 DEF LinkedAs, Unlinked, Requeued
<1> QED BY <1>3, <1>5 DEF e, r
=============================================================================
