----------------------------- MODULE ProcCreate ------------------------------
(***************************************************************************)
(* The choice of a pid, and the creation of a process, keep the invariant  *)
(* of ProcInv.                                                             *)
(***************************************************************************)
EXTENDS ProcInv, FiniteSetTheorems, WellFoundedInduction

-----------------------------------------------------------------------------
(* Process identifiers.                                                    *)

\* A set of natural numbers that is not empty has a least element.
LEMMA LeastElement ==
  ASSUME NEW T \in SUBSET Nat, T # {}
  PROVE  \E x \in T : \A y \in T : x <= y
<1> DEFINE R == OpToRel(<, Nat)
<1>1. \E x \in T : \A y \in T : ~ (<<y, x>> \in R)
  BY NatLessThanWellFounded, WFMin, Zenon
<1>2. \A x, y \in Nat : <<y, x>> \in R <=> y < x
  BY DEF OpToRel
<1> HIDE DEF R
<1>3. PICK x \in T : \A y \in T : ~ (<<y, x>> \in R)
  BY <1>1
<1>4. ASSUME NEW y \in T PROVE x <= y
  <2>1. ~ (y < x) /\ x \in Nat /\ y \in Nat
    BY <1>2, <1>3, Zenon
  <2> QED BY <2>1
<1> QED BY <1>4

\* Pids are remainders: they are in range, and small numbers stay what they are.
LEMMA PidRemainder ==
  /\ \A a \in Nat : a % PROC_MAX_COUNT \in 0..PROC_MAX_COUNT - 1
  /\ \A a \in 0..PROC_MAX_COUNT - 1 : /\ a % PROC_MAX_COUNT = a
                                      /\ (a + PROC_MAX_COUNT) % PROC_MAX_COUNT = a
<1>1. ASSUME NEW n \in Nat, n >= 1
      PROVE  /\ \A a \in Nat : a % n \in 0..n - 1
             /\ \A a \in 0..n - 1 : a % n = a /\ (a + n) % n = a
  BY <1>1
<1>2. PROC_MAX_COUNT \in Nat /\ PROC_MAX_COUNT >= 1
  BY ProcNames
<1> QED BY <1>1, <1>2, Zenon

\* The distances from next_pid, going up and around, at which pids are free.
FreeDistances ==
  {d \in 0..PROC_MAX_COUNT - 1 : (next_pid + d) % PROC_MAX_COUNT \notin UsedPids}

\* _proc_getid returns -1 or a pid that no process has, the next one if it is free.
LEMMA GetIdSound ==
  ASSUME TypeOK
  PROVE  /\ _proc_getid \in -1..PROC_MAX_COUNT - 1
         /\ _proc_getid # -1 => \A p \in Procs : IsListed(p) => p_pid[p] # _proc_getid
         /\ _proc_getid = -1 => FreeDistances = {}
         /\ next_pid \notin UsedPids => _proc_getid = next_pid
<1> USE ProcNames DEF FreeDistances
<1>1. next_pid \in 0..PROC_MAX_COUNT - 1
  BY DEF TypeOK
<1>2. _proc_getid = IF FreeDistances = {} THEN -1
                    ELSE (next_pid + (CHOOSE d \in FreeDistances : \A e \in FreeDistances : d <= e))
                           % PROC_MAX_COUNT
  BY DEF _proc_getid
<1>3. CASE FreeDistances = {}
  <2>1. _proc_getid = -1
    BY <1>2, <1>3
  <2>2. next_pid \in UsedPids
    <3>1. 0 \in 0..PROC_MAX_COUNT - 1 /\ next_pid + 0 = next_pid
      BY <1>1
    <3>2. next_pid % PROC_MAX_COUNT = next_pid
      BY <1>1, PidRemainder, Zenon
    <3> QED BY <1>3, <3>1, <3>2
  <2> QED BY <1>3, <2>1, <2>2
<1>4. CASE FreeDistances # {}
  <2> DEFINE d == CHOOSE d \in FreeDistances : \A e \in FreeDistances : d <= e
  <2>1. d \in FreeDistances /\ \A e \in FreeDistances : d <= e
    <3>1. FreeDistances \in SUBSET Nat
      OBVIOUS
    <3>2. \E x \in FreeDistances : \A y \in FreeDistances : x <= y
      BY <1>4, <3>1, LeastElement, Zenon
    <3> QED BY <3>2, Zenon
  <2>2. _proc_getid = (next_pid + d) % PROC_MAX_COUNT
    BY <1>2, <1>4
  <2> HIDE DEF d
  <2>3. d \in Nat /\ next_pid + d \in Nat /\ _proc_getid \notin UsedPids
    BY <1>1, <2>1, <2>2
  <2>4. _proc_getid \in 0..PROC_MAX_COUNT - 1
    BY <2>2, <2>3, PidRemainder, Zenon
  <2>5. ASSUME NEW p \in Procs, IsListed(p) PROVE p_pid[p] \in UsedPids
    BY <2>5, ListedIs DEF UsedPids, Listed
  <2>6. ASSUME next_pid \notin UsedPids PROVE _proc_getid = next_pid
    <3>1. next_pid + 0 = next_pid
      BY <1>1
    <3>2. next_pid % PROC_MAX_COUNT = next_pid
      BY <1>1, PidRemainder, Zenon
    <3>3. 0 \in FreeDistances
      BY <2>6, <3>1, <3>2
    <3>4. d = 0
      BY <2>1, <2>3, <3>3
    <3> QED BY <2>2, <3>1, <3>2, <3>4
  <2> QED BY <2>3, <2>4, <2>5, <2>6
<1> QED BY <1>3, <1>4

\* The pid that c gives its new process: idle's child gets PID_INIT, and any other
\* process neither PID_IDLE nor PID_INIT.
LEMMA GetIdOf ==
  ASSUME IInv, NEW c \in Procs, curproc = c, ~halted, c = Idle => proc_initproc = NULL
  PROVE  /\ _proc_getid # PID_IDLE
         /\ _proc_getid = PID_INIT <=> c = Idle
<1>1. TypeOK /\ p_pid[Idle] = PID_IDLE /\ IsListed(c) /\ IsListed(Idle)
  BY CurrentFacts, ProcNames DEF IInv, IdleSound, ThreadsSound
<1>2. _proc_getid # PID_IDLE
  BY <1>1, GetIdSound, ProcNames DEF PID_IDLE
<1>3. CASE c = Idle
  <2>1. proc_list = << Idle >> /\ next_pid = PID_INIT
    BY <1>3 DEF IInv, InitSound
  <2>2. UsedPids = {PID_IDLE}
    BY <1>1, <2>1 DEF UsedPids, ToSet
  <2> QED BY <1>1, <1>2, <1>3, <2>1, <2>2, GetIdSound DEF PID_INIT, PID_IDLE
<1>4. CASE c # Idle
  <2>1. /\ proc_initproc \in Procs /\ IsListed(proc_initproc)
        /\ p_pid[proc_initproc] = PID_INIT
    BY <1>1, <1>4, InitExists
  <2> QED BY <1>1, <1>2, <1>4, <2>1, GetIdSound DEF PID_INIT
<1> QED BY <1>3, <1>4, <1>2

\* While there are more pids than other processes, one is free.
LEMMA PidsSuffice ==
  ASSUME IInv, IsFiniteSet(Procs), Cardinality(Procs) <= PROC_MAX_COUNT,
         NEW p \in Procs, ~IsListed(p)
  PROVE  _proc_getid # -1
<1> SUFFICES ASSUME _proc_getid = -1 PROVE FALSE
  OBVIOUS
<1> DEFINE N == 0..PROC_MAX_COUNT - 1
           L == {x \in Procs : IsListed(x) /\ p_pid[x] \in N}
           f == [x \in L |-> p_pid[x]]
<1>1. TypeOK /\ next_pid \in N /\ FreeDistances = {}
  BY GetIdSound DEF IInv, TypeOK
<1>2. ASSUME NEW v \in N PROVE \E x \in L : p_pid[x] = v
  <2>1. \E d \in N : (next_pid + d) % PROC_MAX_COUNT = v
    <3>1. CASE v >= next_pid
      <4>1. v - next_pid \in N /\ next_pid + (v - next_pid) = v
        BY <1>1, <3>1, ProcNames
      <4>2. v % PROC_MAX_COUNT = v
        BY PidRemainder, Zenon
      <4> QED BY <4>1, <4>2
    <3>2. CASE v < next_pid
      <4>1. /\ v - next_pid + PROC_MAX_COUNT \in N
            /\ next_pid + (v - next_pid + PROC_MAX_COUNT) = v + PROC_MAX_COUNT
        BY <1>1, <3>2, ProcNames
      <4>2. (v + PROC_MAX_COUNT) % PROC_MAX_COUNT = v
        BY PidRemainder, Zenon
      <4> QED BY <4>1, <4>2
    <3> QED BY <1>1, <3>1, <3>2
  <2>2. v \in UsedPids
    BY <1>1, <2>1 DEF FreeDistances
  <2> QED BY <1>1, <2>2, ListedIs DEF UsedPids, Listed
<1>3. IsFiniteSet(L) /\ Cardinality(L) < Cardinality(Procs)
  <2>1. L \subseteq Procs \ {p}
    OBVIOUS
  <2>2. /\ IsFiniteSet(Procs \ {p}) /\ Cardinality(Procs \ {p}) = Cardinality(Procs) - 1
        /\ Cardinality(Procs) \in Nat
    BY FS_RemoveElement, FS_CardinalityType
  <2>3. IsFiniteSet(L) /\ Cardinality(L) <= Cardinality(Procs \ {p}) /\ Cardinality(L) \in Nat
    <3> HIDE DEF L
    <3> QED BY <2>1, <2>2, FS_Subset, FS_CardinalityType
  <2> HIDE DEF L
  <2> QED BY <2>2, <2>3
<1>4. f \in Surjection(L, N)
  <2>1. f \in [L -> N] /\ \A v \in N : \E x \in L : f[x] = v
    BY <1>2
  <2> QED BY <2>1, Zenon DEF Surjection
<1>5. Cardinality(N) <= Cardinality(L)
  <2> HIDE DEF f, L, N
  <2> QED BY <1>3, <1>4, FS_Surjection
<1>6. Cardinality(N) = PROC_MAX_COUNT
  BY FS_Interval, ProcNames
<1>7. Cardinality(L) \in Nat /\ Cardinality(Procs) \in Nat
  BY <1>3, FS_CardinalityType
<1> QED BY <1>3, <1>5, <1>6, <1>7, ProcNames

-----------------------------------------------------------------------------
(* Creation.                                                               *)

\* What a step that creates p must keep of thread x.
KeptBut(p, x) ==
  /\ k'.kt_state[x] = "KT_NO_STATE" <=> k.kt_state[x] = "KT_NO_STATE" /\ x # p
  /\ k'.kt_state[x] = "KT_EXITED" <=> k.kt_state[x] = "KT_EXITED"
  /\ k'.kt_cancelled[x] => k.kt_cancelled[x] /\ x # p

\* c creates the process p.
LEMMA CreateStep ==
  ASSUME IInv, NEW c \in Procs, curproc = c, kill_at = 0, ~halted,
         c = Idle => proc_initproc = NULL,
         NEW p \in FreeObjects, proc_create(c, p),
         WellFormed(k'), StatesMatch(k'), \A x \in Procs : KeptBut(p, x),
         curproc' \in {c, NULL}, CurrentSound',
         NEW f \in Frames, f.fn # "pid",
         frame' \in {frame, [frame EXCEPT ![c] = f]}, UNCHANGED <<kill_at, halted>>
  PROVE  IInv'
<1> DEFINE pid == _proc_getid
<1>1. /\ p \in Procs /\ k.kt_state[p] = "KT_NO_STATE" /\ ~IsListed(p)
      /\ p_state[p] = "free" /\ p # c /\ p # Idle
      /\ p_state[c] = "PROC_RUNNING" /\ IsListed(c)
  BY CurrentFacts, ProcNames DEF IInv, ThreadsSound, FreeObjects, IdleSound
<1>2. \A y \in Procs : ~IsChild(p, y)
  BY <1>1, OnlyRunningHaveChildren
<1>3. /\ TypeOK /\ pid \in -1..PROC_MAX_COUNT - 1
      /\ pid # -1 => \A x \in Procs : IsListed(x) => p_pid[x] # pid
  BY GetIdSound DEF IInv
<1>4. pid # PID_IDLE /\ (pid = PID_INIT <=> c = Idle)
  BY GetIdOf
<1> HIDE DEF pid
<1>5. /\ proc_list' \in Seq(Procs) /\ IsInjective(proc_list')
      /\ \A y \in Procs : IsListed(y)' <=> IsListed(y) \/ y = p
  <2>1. /\ proc_list \in Seq(Procs) /\ ~Contains(proc_list, p) /\ IsInjective(proc_list)
        /\ proc_list' = Append(proc_list, p)
    BY <1>1 DEF IInv, TypeOK, Linkage, IsListed, proc_create
  <2>2. proc_list' \in Seq(Procs)
    BY <1>1, <2>1, AppendProperties
  <2> QED BY <1>1, <2>1, <2>2, AppendContains DEF IsListed
<1>6. /\ p_children' \in [Procs -> Seq(Procs)]
      /\ \A x \in Procs : IsInjective(p_children'[x])
      /\ \A x, y \in Procs : IsChild(x, y)' <=> IsChild(x, y) \/ (x = c /\ y = p)
  <2> DEFINE w == Append(p_children[c], p)
  <2>1. /\ p_children \in [Procs -> Seq(Procs)]
        /\ \A x \in Procs : IsInjective(p_children[x])
    BY DEF IInv, TypeOK, Linkage
  <2>2. ~IsChild(c, p)
    BY <1>1 DEF IInv, Linkage
  <2>3. /\ w \in Seq(Procs) /\ IsInjective(w)
        /\ \A y : Contains(w, y) <=> Contains(p_children[c], y) \/ y = p
    <3>1. w \in Seq(Procs)
      BY <1>1, <2>1, AppendProperties
    <3> QED BY <1>1, <2>1, <2>2, <3>1, AppendContains DEF IsChild
  <2>4. << >> \in Seq(Procs) /\ IsInjective(<< >>) /\ \A y : ~Contains(<< >>, y)
    BY EmptySeq DEF IsInjective, Contains
  <2>5. p_children' = [p_children EXCEPT ![p] = << >>, ![c] = w]
    BY <1>1, <2>1 DEF proc_create
  <2> HIDE DEF w
  <2>6. /\ p_children' \in [Procs -> Seq(Procs)]
        /\ \A x \in Procs :
             p_children'[x] = IF x = c THEN w ELSE IF x = p THEN << >> ELSE p_children[x]
    BY <1>1, <2>1, <2>3, <2>4, <2>5, Zenon
  <2>7. \A x \in Procs : IsInjective(p_children'[x])
    BY <2>1, <2>3, <2>4, <2>6
  <2>8. \A x, y \in Procs : IsChild(x, y)' <=> IsChild(x, y) \/ (x = c /\ y = p)
    BY <1>1, <1>2, <2>3, <2>4, <2>6 DEF IsChild
  <2> QED BY <2>6, <2>7, <2>8
<1>7. /\ \A x \in Procs : p_pproc'[x] = IF x = p THEN c ELSE p_pproc[x]
      /\ \A x \in Procs : p_pid'[x] = IF x = p THEN pid ELSE p_pid[x]
      /\ \A x \in Procs : p_state'[x] = IF x = p THEN "PROC_RUNNING" ELSE p_state[x]
      /\ proc_initproc' = IF c = Idle THEN p ELSE proc_initproc
  BY <1>1, <1>4 DEF IInv, TypeOK, proc_create, pid
<1>8. TypeOK'
  <2>1. /\ p_pid' \in [Procs -> Int] /\ p_pproc' \in [Procs -> Procs \cup {NULL}]
        /\ p_status' \in [Procs -> Statuses] /\ p_state' \in [Procs -> ProcStates]
        /\ proc_initproc' \in Procs \cup {NULL}
    BY <1>1, <1>3, ProcNames DEF IInv, TypeOK, proc_create, ProcStates, pid
  <2>2. next_pid' \in 0..PROC_MAX_COUNT - 1
    <3>1. next_pid' = IF pid = -1 THEN next_pid ELSE (pid + 1) % PROC_MAX_COUNT
      BY DEF proc_create, pid
    <3>2. pid # -1 => pid + 1 \in Nat
      BY <1>3, ProcNames
    <3>3. pid # -1 => (pid + 1) % PROC_MAX_COUNT \in 0..PROC_MAX_COUNT - 1
      BY <3>2, PidRemainder, Zenon
    <3> QED BY <1>3, <3>1, <3>3 DEF TypeOK
  <2>3. frame' \in [Procs -> Frames]
    BY Zenon DEF IInv, TypeOK
  <2>4. kill_at' \in Nat /\ halted' \in BOOLEAN /\ curproc' \in Procs \cup {NULL}
    BY DEF IInv, TypeOK
  <2> QED BY <1>5, <1>6, <2>1, <2>2, <2>3, <2>4 DEF TypeOK, WellFormed
<1>9. ThreadsSound'
  BY <1>1, <1>5, <1>7 DEF IInv, ThreadsSound, WellFormed, KeptBut, CurrentSound
<1>10. Linkage'
  <2>1. ASSUME NEW x \in Procs \ {Idle}, IsListed(x)'
        PROVE  /\ p_pproc'[x] \in Procs /\ p_state'[p_pproc'[x]] = "PROC_RUNNING"
               /\ IsChild(p_pproc[x], x)'
    <3>1. \A z \in Procs : IsChild(z, x) \/ (z = c /\ x = p) => Contains(p_children'[z], x)
      BY <1>6 DEF IsChild
    <3>2. CASE x = p
      BY <1>1, <1>7, <3>1, <3>2 DEF IsChild
    <3>3. CASE x # p
      <4>1. p_pproc[x] \in Procs /\ p_state[p_pproc[x]] = "PROC_RUNNING" /\ IsChild(p_pproc[x], x)
        BY <1>5, <2>1, <3>3 DEF IInv, Linkage
      <4> QED BY <1>1, <1>7, <3>1, <3>3, <4>1 DEF IsChild
    <3> QED BY <3>2, <3>3
  <2>2. ASSUME NEW x \in Procs, NEW y \in Procs, IsChild(x, y)'
        PROVE  IsListed(y)' /\ p_pproc'[y] = x
    <3>1. IsChild(x, y) \/ (x = c /\ y = p)
      BY <1>6, <2>2
    <3>2. IsChild(x, y) => IsListed(y) /\ p_pproc[y] = x
      BY DEF IInv, Linkage
    <3> QED BY <1>1, <1>5, <1>7, <3>1, <3>2
  <2> QED BY <1>5, <1>6, <2>1, <2>2 DEF Linkage
<1>11. Rooted'
  <2> SUFFICES ASSUME NEW S \in SUBSET Procs, S # {},
                      \A x \in S : x # Idle /\ (IsListed(x) \/ x = p)
               PROVE  \E x \in S : p_pproc'[x] \notin S
    BY <1>5 DEF Rooted
  <2> DEFINE U == S \ {p}
  <2>1. CASE U = {}
    BY <1>1, <1>7, <2>1
  <2>2. CASE U # {}
    <3>1. U \in SUBSET {x \in Procs \ {Idle} : IsListed(x)}
      OBVIOUS
    <3>2. PICK x \in U : p_pproc[x] \notin U
      BY <2>2, <3>1, Zenon DEF IInv, Rooted
    <3>3. p_state[p_pproc[x]] = "PROC_RUNNING"
      BY <3>1, <3>2 DEF IInv, Linkage
    <3> QED BY <1>1, <1>7, <3>2, <3>3
  <2> QED BY <2>1, <2>2
<1>12. IdleSound'
  <2>1. \A x \in Procs : p_pproc'[x] = Idle => x = proc_initproc'
    <3>1. ASSUME NEW x \in Procs, c = Idle, p_pproc[x] = Idle PROVE FALSE
      BY <3>1, ProcNames DEF IInv, IdleSound
    <3> QED BY <1>1, <1>7, <3>1, Zenon DEF IInv, IdleSound
  <2> QED BY <1>1, <1>7, <2>1, ProcNames DEF IInv, IdleSound, KeptBut
<1>13. InitSound'
  <2>1. CASE c = Idle
    <3>1. proc_initproc' = p /\ p_pproc'[p] = Idle /\ p_pid'[p] = PID_INIT
          /\ p_state'[p] = "PROC_RUNNING" /\ IsListed(p)' /\ ~k'.kt_cancelled[p]
      BY <1>1, <1>4, <1>5, <1>7, <2>1 DEF KeptBut
    <3>2. IsListed(proc_initproc)'
      BY <3>1 DEF IsListed
    <3> QED BY <1>1, <3>1, <3>2, ProcNames DEF InitSound
  <2>2. CASE c # Idle
    <3> DEFINE i == proc_initproc
    <3>1. /\ i \in Procs /\ i # Idle /\ IsListed(i) /\ p_pproc[i] = Idle /\ p_pid[i] = PID_INIT
          /\ ~k.kt_cancelled[i]
      BY <1>1, <2>2, InitExists
    <3>2. p_state[i] # "PROC_DEAD"
      BY <1>1, <2>2, <3>1, ProcNames DEF IInv, InitSound
    <3> HIDE DEF i
    <3>3. /\ proc_initproc' = i /\ i # p /\ p_pproc'[i] = Idle /\ p_pid'[i] = PID_INIT
          /\ p_state'[i] # "PROC_DEAD" /\ ~k'.kt_cancelled[i] /\ Contains(proc_list', i)
      BY <1>1, <1>5, <1>7, <2>2, <3>1, <3>2 DEF KeptBut, i, IsListed
    <3> QED BY <3>1, <3>3, ProcNames DEF InitSound, IsListed
  <2> QED BY <2>1, <2>2
<1>14. CallsSound'
  <2>1. ASSUME NEW x \in Procs, frame'[x].fn = "pid"
        PROVE  frame'[x].target \in Procs /\ IsChild(x, frame[x].target)'
    <3>1. frame'[x] = frame[x]
      BY <2>1 DEF IInv, TypeOK
    <3>2. frame[x].target \in Procs /\ IsChild(x, frame[x].target)
      BY <2>1, <3>1 DEF IInv, CallsSound
    <3>3. \A y \in Procs : IsChild(x, y) => Contains(p_children'[x], y)
      BY <1>6 DEF IsChild
    <3> QED BY <3>1, <3>2, <3>3 DEF IsChild
  <2> QED BY <2>1 DEF CallsSound
<1>15. PidsSound'
  BY <1>3, <1>5, <1>7 DEF IInv, PidsSound
<1> QED BY <1>8, <1>9, <1>10, <1>11, <1>12, <1>13, <1>14, <1>15 DEF IInv
=============================================================================
