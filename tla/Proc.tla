-------------------------------- MODULE Proc ---------------------------------
(***************************************************************************)
(* Processes: K1/proc.c, the exit path of K1/kthread.c, the process side   *)
(* of K1/kmain.c and the cancellation test of K3/syscall.c.                *)
(*                                                                         *)
(* A process has one thread (the kernel is built without MTP), so a        *)
(* process and its thread share a name, and so does the p_wait queue.      *)
(* Names stand for the objects of the slab allocator and are used again    *)
(* after a process is reaped.  sched_switch is the atomic dispatch that    *)
(* Sched is shown to implement.                                            *)
(***************************************************************************)
EXTENDS KTQueue

CONSTANTS
  Idle,            \* the idle process
  TtyQ,            \* a queue on which threads sleep cancellably
  Statuses,        \* the values processes exit with
  PROC_MAX_COUNT   \* pids are 0 .. PROC_MAX_COUNT - 1

ASSUME ProcConstants ==
  /\ Idle \in Threads
  /\ TtyQ \notin Threads
  /\ WaitQueues = Threads \cup {TtyQ}
  /\ 0 \in Statuses /\ Statuses \subseteq Int
  /\ PROC_MAX_COUNT \in Nat /\ PROC_MAX_COUNT >= 2

Procs == Threads
PID_IDLE == 0
PID_INIT == 1

VARIABLES
  k,             \* the thread system (see KTQueue)
  curproc,       \* the current process, NULL inside sched_switch
  p_pid, p_pproc, p_children, p_status, p_state,   \* the fields of proc_t
  proc_list,     \* _proc_list
  proc_initproc,
  next_pid,
  frame,         \* the do_waitpid call in which a thread is
  init_drains,   \* initproc_run has left the shell for its last loop
  ret,           \* what do_waitpid last returned to each process
  kill_at,       \* the place in _proc_list of the loop of proc_kill_all, or 0
  halting,       \* proc_kill_all was called while init_drains
  halted         \* hard_shutdown

table == <<p_pid, p_pproc, p_children, p_status, p_state, proc_list, proc_initproc, next_pid>>

vars == <<k, curproc, table, frame, init_drains, ret, kill_at, halting, halted>>

NoFrame == [fn |-> "none", target |-> NULL, status |-> 0]

\* The status do_waitpid gave its caller, and the one the child exited with.
NoReturn == [status |-> 0, exited |-> 0]

-----------------------------------------------------------------------------
(* Process identifiers.                                                    *)

UsedPids == {p_pid[p] : p \in ToSet(proc_list)}

\* Mutant: the list is not searched for processes that have the pid.
_proc_getid_unsearched == next_pid

\* _proc_getid: the first unused pid from next_pid on, cyclically, or -1.
_proc_getid ==
  LET Free == {d \in 0..PROC_MAX_COUNT - 1 : (next_pid + d) % PROC_MAX_COUNT \notin UsedPids}
  IN  IF Free = {} THEN -1
      ELSE (next_pid + (CHOOSE d \in Free : \A e \in Free : d <= e)) % PROC_MAX_COUNT

\* proc_create on behalf of process c, for the object p.  The pid is not checked.
proc_create(c, p) ==
  LET pid == _proc_getid
  IN  /\ p_pid' = [p_pid EXCEPT ![p] = pid]
      /\ next_pid' = IF pid = -1 THEN next_pid ELSE (pid + 1) % PROC_MAX_COUNT
      /\ p_pproc' = [p_pproc EXCEPT ![p] = c]
      /\ p_children' = [p_children EXCEPT ![p] = << >>, ![c] = Append(@, p)]
      /\ p_status' = [p_status EXCEPT ![p] = 0]
      /\ p_state' = [p_state EXCEPT ![p] = "PROC_RUNNING"]
      /\ proc_list' = Append(proc_list, p)
      /\ proc_initproc' = IF pid = PID_INIT THEN p ELSE proc_initproc

\* The assertions of proc_create, made when c creates a process.
proc_create_asserts(c) ==
  /\ _proc_getid = PID_IDLE => proc_list = << >>
  /\ _proc_getid = PID_INIT => p_pid[c] = PID_IDLE

FreeObjects == {p \in Procs : k.kt_state[p] = "KT_NO_STATE"}

\* The state in which bootstrap enters the idle thread.
Init ==
  /\ k = kthread_create(EmptySystem, Idle)
  /\ curproc = Idle
  /\ p_pid = [p \in Procs |-> IF p = Idle THEN PID_IDLE ELSE -1]
  /\ p_pproc = [p \in Procs |-> NULL]
  /\ p_children = [p \in Procs |-> << >>]
  /\ p_status = [p \in Procs |-> 0]
  /\ p_state = [p \in Procs |-> IF p = Idle THEN "PROC_RUNNING" ELSE "free"]
  /\ proc_list = << Idle >>
  /\ proc_initproc = NULL
  /\ next_pid = 1
  /\ frame = [p \in Procs |-> NoFrame]
  /\ init_drains = FALSE
  /\ ret = [p \in Procs |-> NoReturn]
  /\ kill_at = 0
  /\ halting = FALSE
  /\ halted = FALSE

-----------------------------------------------------------------------------
(* do_waitpid.                                                             *)

\* c sleeps on its own p_wait inside do_waitpid.
SleepInWait(kk, c, f) ==
  /\ k' = sleep_enqueue(kk, c, c, "KT_SLEEP")
  /\ frame' = [frame EXCEPT ![c] = f]
  /\ curproc' = NULL

\* Mutant: the child is unlinked and do_waitpid goes round its loop again.
Reap_loops(c, p, st) ==
  /\ k' = kthread_destroy(k, p)
  /\ proc_list' = RemoveFirst(proc_list, p)
  /\ p_children' = [p_children EXCEPT ![c] = RemoveFirst(@, p)]
  /\ p_state' = [p_state EXCEPT ![p] = "free"]
  /\ UNCHANGED <<curproc, p_pid, p_pproc, p_status, proc_initproc, next_pid,
                 frame, init_drains, ret, kill_at, halting, halted>>

\* Unlink and free the dead child p of c and return the status st to the caller.
\* The fields of the freed object get fixed values.
Reap(c, p, st) ==
  /\ k' = KASSERT(kthread_destroy(k, p), c = Idle => p_pid[p] = PID_INIT)
  /\ proc_list' = RemoveFirst(proc_list, p)
  /\ p_children' = [p_children EXCEPT ![c] = RemoveFirst(@, p), ![p] = << >>]
  /\ p_pid' = [p_pid EXCEPT ![p] = -1]
  /\ p_pproc' = [p_pproc EXCEPT ![p] = NULL]
  /\ p_status' = [p_status EXCEPT ![p] = 0]
  /\ p_state' = [p_state EXCEPT ![p] = "free"]
  /\ ret' = [ret EXCEPT ![p] = NoReturn,
                        ![c] = [status |-> st, exited |-> p_status[p]]]
  /\ frame' = [frame EXCEPT ![c] = NoFrame]
  /\ halted' = (c = Idle)     \* idleproc_run shuts down when its wait returns
  /\ UNCHANGED <<curproc, proc_initproc, next_pid, init_drains, kill_at, halting>>

\* The places of the zombies in the list of c's children.
DeadChildren(c) == {i \in DOMAIN p_children[c] : p_state[p_children[c][i]] = "PROC_DEAD"}

\* An iteration of the loop for pid = -1: reap the first dead child or sleep.
WaitAnyLoop(c) ==
  \/ \E i \in DeadChildren(c) :
       /\ \A j \in DeadChildren(c) : i <= j
       /\ Reap(c, p_children[c][i], p_status[p_children[c][i]])
  \/ /\ DeadChildren(c) = {}
     /\ SleepInWait(k, c, [fn |-> "any", target |-> NULL, status |-> 0])
     /\ UNCHANGED <<table, init_drains, ret, kill_at, halting, halted>>

\* The loop for pid > 0.  The caller's status was stored before the loop.
WaitPidLoop(c, p, st) ==
  \/ p_state[p] = "PROC_DEAD" /\ Reap(c, p, st)
  \/ /\ p_state[p] # "PROC_DEAD"
     /\ SleepInWait(k, c, [fn |-> "pid", target |-> p, status |-> st])
     /\ UNCHANGED <<table, init_drains, ret, kill_at, halting, halted>>

\* A thread that waited runs again and goes on with its loop.
WaitResume(c) ==
  /\ curproc = c /\ frame[c] # NoFrame /\ ~k.panic
  /\ \/ frame[c].fn = "any" /\ WaitAnyLoop(c)
     \/ frame[c].fn = "pid" /\ WaitPidLoop(c, frame[c].target, frame[c].status)

-----------------------------------------------------------------------------
(* kthread_exit, proc_thread_exited and proc_cleanup: process c exits from *)
(* the thread system kk.  sched_wakeup_on comes first, then the children   *)
(* go to init, and the process is dead only after that.                    *)

exit_asserts(c) ==
  /\ proc_initproc # NULL
  /\ 1 <= p_pid[c]
  /\ p_pproc[c] # NULL

\* Mutant: the children of the process stay with it.
ExitFrom_keeps_children(kk, c, st) ==
  /\ k' = KASSERT(sched_wakeup_on(kthread_exit(kk, c), p_pproc[c]), exit_asserts(c))
  /\ p_status' = [p_status EXCEPT ![c] = st]
  /\ p_state' = [p_state EXCEPT ![c] = "PROC_DEAD"]
  /\ curproc' = NULL
  /\ UNCHANGED <<p_children, p_pproc, p_pid, proc_list, proc_initproc, next_pid,
                 frame, init_drains, ret, halted>>

ExitFrom(kk, c, st) ==
  /\ k' = KASSERT(sched_wakeup_on(kthread_exit(kk, c), p_pproc[c]), exit_asserts(c))
  /\ p_children' = [p_children EXCEPT ![proc_initproc] = @ \o p_children[c], ![c] = << >>]
  /\ p_pproc' = [p \in Procs |->
                   IF Contains(p_children[c], p) THEN proc_initproc ELSE p_pproc[p]]
  /\ p_status' = [p_status EXCEPT ![c] = st]
  /\ p_state' = [p_state EXCEPT ![c] = "PROC_DEAD"]
  /\ curproc' = NULL
  /\ UNCHANGED <<p_pid, proc_list, proc_initproc, next_pid, frame, init_drains, ret, halted>>

-----------------------------------------------------------------------------
(* What a process does when it runs.  A cancelled thread exits at its next *)
(* system call boundary (syscall_handler), so it makes no other call.      *)

Runs(c) == curproc = c /\ frame[c] = NoFrame /\ kill_at = 0 /\ ~k.panic /\ ~halted

Calls(c) ==
  /\ Runs(c)
  /\ c # Idle
  /\ ~k.kt_cancelled[c]
  /\ c = proc_initproc => ~init_drains

\* initproc_create, sched_make_runnable and do_waitpid(-1) of idleproc_run.
idleproc_run(p) ==
  /\ Runs(Idle) /\ proc_initproc = NULL
  /\ p \in FreeObjects
  /\ proc_create(Idle, p)
  /\ SleepInWait(KASSERT(sched_make_runnable(kthread_create(k, p), p),
                         proc_create_asserts(Idle) /\ _proc_getid = PID_INIT),
                 Idle, [fn |-> "any", target |-> NULL, status |-> 0])
  /\ UNCHANGED <<init_drains, ret, kill_at, halting, halted>>

\* proc_create, kthread_create and sched_make_runnable, as in the shell commands
\* of kmain.c.
Spawn(c, p) ==
  /\ Calls(c)
  /\ p \in FreeObjects
  /\ proc_create(c, p)
  /\ k' = sched_make_runnable(kthread_create(KASSERT(k, proc_create_asserts(c)), p), p)
  /\ UNCHANGED <<curproc, frame, init_drains, ret, kill_at, halting, halted>>

\* do_waitpid(-1) by a process that has children.
WaitAny(c) ==
  /\ Calls(c)
  /\ p_children[c] # << >>
  /\ WaitAnyLoop(c)

\* do_waitpid(pid) for the child that has this pid.
WaitPid(c, pid) ==
  /\ Calls(c)
  /\ pid > 0
  /\ \E p \in ToSet(p_children[c]) : p_pid[p] = pid /\ WaitPidLoop(c, p, p_status[p])

\* do_waitpid without such a child: -ECHILD.
WaitNoChild(c) ==
  /\ Calls(c)
  /\ ret' = [ret EXCEPT ![c] = NoReturn]
  /\ UNCHANGED <<k, curproc, table, frame, init_drains, kill_at, halting, halted>>

do_exit(c, st) ==
  /\ Calls(c)
  /\ c # proc_initproc
  /\ ExitFrom(k, c, st)
  /\ UNCHANGED <<kill_at, halting>>

\* syscall_handler finds kt_cancelled and exits with kt_retval, which kthread_cancel
\* set to the status of proc_kill, 0.
CancelledExit(c) ==
  /\ Runs(c)
  /\ k.kt_cancelled[c]
  /\ ExitFrom(k, c, 0)
  /\ UNCHANGED <<kill_at, halting>>

\* proc_kill_all starts its loop over the process list.
proc_kill_all(c) ==
  /\ Calls(c)
  /\ kill_at' = 1
  /\ halting' = (halting \/ init_drains)
  /\ UNCHANGED <<k, curproc, table, frame, init_drains, ret, halted>>

Victim(c, p) ==
  /\ p_pproc[p] # NULL
  /\ p_pid[p_pproc[p]] # PID_IDLE
  /\ p_pid[p] # PID_IDLE
  /\ p # c

\* The loop comes to the next process and cancels it (proc_kill).  Interrupts are
\* handled between two of these steps.
KillNext(c) ==
  /\ curproc = c /\ ~k.panic
  /\ kill_at \in DOMAIN proc_list
  /\ k' = IF Victim(c, proc_list[kill_at]) THEN sched_cancel(k, proc_list[kill_at]) ELSE k
  /\ kill_at' = kill_at + 1
  /\ UNCHANGED <<curproc, table, frame, init_drains, ret, halting, halted>>

\* After the loop the caller exits, unless it is a child of the idle process.
KillSelf(c) ==
  /\ curproc = c /\ ~k.panic
  /\ kill_at = Len(proc_list) + 1
  /\ kill_at' = 0
  /\ \/ p_pid[p_pproc[c]] # PID_IDLE /\ ExitFrom(k, c, 0)
     \/ /\ p_pid[p_pproc[c]] = PID_IDLE
        /\ UNCHANGED <<k, curproc, table, frame, init_drains, ret, halted>>
  /\ UNCHANGED halting

\* initproc_run leaves the shell ...
InitDrain ==
  /\ proc_initproc # NULL /\ Calls(proc_initproc)
  /\ init_drains' = TRUE
  /\ UNCHANGED <<k, curproc, table, frame, ret, kill_at, halting, halted>>

\* ... and waits for any child until there is none, then returns and exits.
InitLoop ==
  /\ proc_initproc # NULL /\ Runs(proc_initproc) /\ init_drains
  /\ IF p_children[proc_initproc] # << >>
     THEN WaitAnyLoop(proc_initproc)
     ELSE ExitFrom(k, proc_initproc, 0) /\ UNCHANGED <<kill_at, halting>>

\* sched_cancellable_sleep_on.
TtySleep(c) ==
  /\ Calls(c)
  /\ k' = sleep_enqueue(k, TtyQ, c, "KT_SLEEP_CANCELLABLE")
  /\ curproc' = NULL
  /\ UNCHANGED <<table, frame, init_drains, ret, kill_at, halting, halted>>

\* The terminal's interrupt handler.
TtyWake ==
  /\ ~k.panic /\ ~halted
  /\ ~sched_queue_empty(k, TtyQ)
  /\ k' = sched_wakeup_on(k, TtyQ)
  /\ UNCHANGED <<curproc, table, frame, init_drains, ret, kill_at, halting, halted>>

Yield(c) ==
  /\ Calls(c)
  /\ k' = sched_make_runnable(k, c)
  /\ curproc' = NULL
  /\ UNCHANGED <<table, frame, init_drains, ret, kill_at, halting, halted>>

sched_switch ==
  /\ curproc = NULL /\ ~k.panic
  /\ ~sched_queue_empty(k, RunQ)
  /\ curproc' = Head(k.tq[RunQ])
  /\ k' = ktqueue_dequeue(k, RunQ)
  /\ UNCHANGED <<table, frame, init_drains, ret, kill_at, halting, halted>>

\* hard_shutdown: the machine stays halted.
hard_shutdown == halted /\ UNCHANGED vars

Next ==
  \/ \E p \in Procs : idleproc_run(p)
  \/ \E c, p \in Procs : Spawn(c, p)
  \/ \E c \in Procs, pid \in 1..PROC_MAX_COUNT - 1 : WaitPid(c, pid)
  \/ \E c \in Procs, st \in Statuses : do_exit(c, st)
  \/ \E c \in Procs :
       \/ WaitAny(c) \/ WaitNoChild(c) \/ WaitResume(c)
       \/ CancelledExit(c)
       \/ proc_kill_all(c) \/ KillNext(c) \/ KillSelf(c)
       \/ TtySleep(c) \/ Yield(c)
  \/ InitDrain
  \/ InitLoop
  \/ TtyWake
  \/ sched_switch
  \/ hard_shutdown

Spec == Init /\ [][Next]_vars

\* The CPU keeps running, and a thread that is inside do_waitpid or proc_kill_all,
\* has been cancelled or is in init's last loop does not keep the CPU for ever.
Fairness ==
  /\ WF_vars(sched_switch)
  /\ WF_vars(InitLoop)
  /\ \A c \in Procs : /\ WF_vars(WaitResume(c)) /\ WF_vars(CancelledExit(c))
                   /\ WF_vars(KillNext(c)) /\ WF_vars(KillSelf(c))

FairSpec == Spec /\ Fairness

-----------------------------------------------------------------------------
(* Properties.                                                             *)

Listed == ToSet(proc_list)

\* Two processes that exist at the same time, zombies included, never have the
\* same pid, also after next_pid has wrapped around.
PidsUnique ==
  \A p, q \in Listed : p # q /\ p_pid[p] = p_pid[q] => p_pid[p] = -1

\* p_pproc and p_children are two views of one tree: the parent of every process
\* but idle exists and is not a zombie, and each is linked where the other says,
\* across exits that hand the children to init and across reaping.
FamilyTree ==
  /\ \A p \in Listed \ {Idle} :
       /\ p_pproc[p] \in Listed
       /\ p_state[p_pproc[p]] = "PROC_RUNNING"
       /\ Contains(p_children[p_pproc[p]], p)
  /\ \A c \in Procs : \A p \in ToSet(p_children[c]) : p \in Listed /\ p_pproc[p] = c

\* do_waitpid keeps a pointer to the child across its sleeps; the child is still
\* a child of the same process, so the pointer does not dangle.
WaitTargetStays ==
  \A c \in Procs : frame[c].fn = "pid" => Contains(p_children[c], frame[c].target)

\* No KASSERT of proc.c, kthread.c, kmain.c or the queues fails.
NoPanic == ~k.panic

\* proc_kill_all, called once init only waits for its children, brings the machine
\* to its shutdown whatever the processes were doing, and with every process but the
\* idle one reaped.
KillAllHalts == halting ~> halted /\ proc_list = << Idle >>

\* "dispose of one of the exited children of the current process and return its
\* exit status in the status argument" (proc.c:395).
WaitReturnsExitStatus == \A c \in Procs : ret[c].status = ret[c].exited

\* "if all children of this process are still running, then this function blocks
\* on its own p_wait queue until one exits" (proc.c:396): a process asleep in
\* do_waitpid(-1) has no exited child.
BlocksOnlyIfAllRun ==
  \A c \in Procs :
    frame[c].fn = "any" /\ k.kt_wchan[c] = c => DeadChildren(c) = {}

\* The assertions hold too when more processes are created than there are pids
\* ("Returns the next available PID", proc.c:166).
NoPanicWhenPidsRunOut == ~k.panic
=============================================================================
