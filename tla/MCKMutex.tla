------------------------------ MODULE MCKMutex -------------------------------
(* KMutex for small sets of threads and mutexes.                           *)
EXTENDS KMutex

CONSTANTS t1, t2, t3, t4, m1, m2

TwoThreads == {t1, t2}
ThreeThreads == {t1, t2, t3}
FourThreads == {t1, t2, t3, t4}
OneMutex == {m1}
TwoMutexes == {m1, m2}
=============================================================================
