------------------------------ MODULE MutexAbs -------------------------------
(***************************************************************************)
(* What kmutex_lock and kmutex_unlock promise to their callers: a mutex    *)
(* has one owner, a thread that asks for it owns it when the call returns, *)
(* and every call returns if owners keep giving the mutex back.  Nothing   *)
(* is said about queues or about who comes next.                           *)
(***************************************************************************)
CONSTANTS Threads, Mutexes, NULL

VARIABLES
  owner,   \* owner[m]: the thread that has locked m, or NULL
  want     \* want[m]: the threads inside a call that locks m

vars == <<owner, want>>

Init ==
  /\ owner = [m \in Mutexes |-> NULL]
  /\ want = [m \in Mutexes |-> {}]

\* Lock a free mutex.
Take(t, m) ==
  /\ owner[m] = NULL
  /\ owner' = [owner EXCEPT ![m] = t]
  /\ UNCHANGED want

Request(t, m) ==
  /\ owner[m] # t
  /\ want' = [want EXCEPT ![m] = @ \cup {t}]
  /\ UNCHANGED owner

Grant(t, m) ==
  /\ owner[m] = NULL
  /\ t \in want[m]
  /\ owner' = [owner EXCEPT ![m] = t]
  /\ want' = [want EXCEPT ![m] = @ \ {t}]

Release(t, m) ==
  /\ owner[m] = t
  /\ owner' = [owner EXCEPT ![m] = NULL]
  /\ UNCHANGED want

Next ==
  \E t \in Threads, m \in Mutexes :
    Take(t, m) \/ Request(t, m) \/ Grant(t, m) \/ Release(t, m)

Safety == Init /\ [][Next]_vars

\* A mutex that is free again and again is granted to each thread that wants it.
Spec == Safety /\ \A t \in Threads, m \in Mutexes : SF_vars(Grant(t, m))
=============================================================================
