------------------------------- MODULE Syscall -------------------------------
(***************************************************************************)
(* The system call layer: syscall_handler, syscall_dispatch and the sys_   *)
(* functions of K3/syscall.c, with user_strdup and user_vecdup of          *)
(* K3/access.c.                                                            *)
(*                                                                         *)
(* A sys_ function is a sequence of steps: copy the arguments, allocate,   *)
(* call the do_ function, copy a result out.  Each step says which         *)
(* temporaries its error path frees and which are freed once it succeeded. *)
(* The do_ functions, other processes and the values of the arguments are  *)
(* nondeterministic: any copy, allocation or do_ call may fail, and the    *)
(* thread may be cancelled at any point.  The buffers of read and write    *)
(* are copied byte by byte with the operators of UserMem.                  *)
(***************************************************************************)
EXTENDS UserMem, FiniteSets

CONSTANTS
  ReadBuffers,    \* <<address, nbytes>> of the buffers a program gives to read
  WriteBuffers    \* the same for write

ASSUME SyscallConstants ==
  \A b \in ReadBuffers \cup WriteBuffers :
    b[1] \in Nat /\ b[1] >= PAGE_SIZE /\ b[2] \in 0..PAGE_SIZE

VARIABLES
  c,             \* the call the thread is in, or was in last: see User
  kt_errno,
  kt_cancelled,
  fault          \* where the kernel used a pointer that is not valid, or ""

vars == <<c, kt_errno, kt_cancelled, fault>>

-----------------------------------------------------------------------------
(* The steps a sys_ function is made of.                                   *)

\* On an error fail is freed and the function returns -1, or goes to its cleanup label;
\* otherwise done is freed and the next step runs.  err: what kt_errno becomes when the
\* step fails, "own" for the error the step reports itself.
Op(op, arg, fail, done, err) ==
  [op |-> op, arg |-> arg, fail |-> fail, done |-> done, err |-> err]

CopyArgs == Op("copy", "", {}, {}, "EFAULT")
CopyIn(fail) == Op("in", "", fail, {}, "own")
CopyOut(fail, done) == Op("out", "", fail, done, "own")
DoCall(fail, done) == Op("do", "", fail, done, "own")
Strdup(x, fail) == Op("strdup", x, fail, {}, "EINVAL")
PageAlloc(x) == Op("page_alloc", x, {}, {}, "own")
Skip(n) == Op("skip", n, {}, {}, "own")      \* the next n steps are optional

sys_read == <<CopyArgs, PageAlloc("buf"), DoCall({"buf"}, {}), CopyOut({"buf"}, {"buf"})>>
sys_write == <<CopyArgs, PageAlloc("buf"), CopyIn({"buf"}), DoCall({"buf"}, {"buf"})>>

\* Up to two turns of the loop; do_getdent returning 0 leaves it.
Getdent == Op("getdent", "", {}, {}, "own")
sys_getdents == <<CopyArgs, Skip(3), Getdent, Skip(1), Getdent>>

\* close, dup, brk, fork: the arguments are in registers.
sys_close == <<DoCall({}, {})>>
sys_dup == <<DoCall({}, {})>>
sys_brk == <<DoCall({}, {})>>
sys_fork == <<DoCall({}, {})>>

sys_dup2 == <<CopyArgs, DoCall({}, {})>>
sys_lseek == <<CopyArgs, DoCall({}, {})>>
sys_mmap == <<CopyArgs, DoCall({}, {})>>
sys_munmap == <<CopyArgs, DoCall({}, {})>>

sys_mkdir == <<CopyArgs, Strdup("path", {}), DoCall({"path"}, {"path"})>>
sys_rmdir == <<CopyArgs, Strdup("path", {}), DoCall({"path"}, {"path"})>>
sys_unlink == <<CopyArgs, Strdup("path", {}), DoCall({"path"}, {"path"})>>
sys_chdir == <<CopyArgs, Strdup("path", {}), DoCall({"path"}, {"path"})>>
sys_open == <<CopyArgs, Strdup("path", {}), DoCall({"path"}, {"path"})>>

\* Mutant: the error path of the second string forgets the first one.
sys_link_leak ==
  <<CopyArgs, Strdup("to", {}), Strdup("from", {}), DoCall({"to", "from"}, {"to", "from"})>>

sys_link ==
  <<CopyArgs, Strdup("to", {}), Strdup("from", {"to"}), DoCall({"to", "from"}, {"to", "from"})>>
sys_rename ==
  <<CopyArgs, Strdup("old", {}), Strdup("new", {"old"}), DoCall({"old", "new"}, {"old", "new"})>>

\* Built with __MOUNTING__.  Only the source may be missing.
sys_mount ==
  <<CopyArgs, Op("strdup", "source", {}, {}, "ignored"), Strdup("target", {"source"}),
    Strdup("type", {"source", "target"}),
    DoCall({"source", "target", "type"}, {"source", "target", "type"})>>
sys_umount == <<CopyArgs, Strdup("target", {}), DoCall({"target"}, {"target"})>>

sys_stat ==
  <<CopyArgs, Strdup("path", {}), DoCall({"path"}, {}), CopyOut({"path"}, {"path"})>>
sys_waitpid == <<CopyArgs, DoCall({}, {}), Skip(1), CopyOut({}, {})>>
sys_pipe == <<DoCall({}, {}), CopyOut({}, {})>>
sys_uname == [i \in 1..5 |-> CopyOut({}, {})]

\* The result of user_strdup is not looked at.
sys_debug == <<CopyArgs, Op("strdup", "message", {}, {}, "ignored"),
               Op("free", "", {}, {"message"}, "own")>>
sys_kshell == <<Op("kmalloc", "ksh", {}, {}, "ENODEV"), DoCall({"ksh"}, {"ksh"})>>

\* A vector of two strings.  tmp holds the argstrs, vec the result.
user_vecdup(tmp, vec, s1, s2) ==
  <<Op("kmalloc", tmp, {}, {}, "ENOMEM"),
    Op("kmalloc", vec, {tmp}, {}, "ENOMEM"),
    Op("veccopy", "", {tmp, vec}, {}, "own"),
    Op("strdup", s1, {tmp, vec}, {}, "own"),
    Op("strdup", s2, {tmp, vec, s1}, {}, "own"),
    Op("free", "", {}, {tmp}, "own")>>

\* What the cleanup label frees, each if it is not NULL; free_vector frees a vector and
\* its strings.
ExecveCleanup ==
  {"filename", "argv", "argv1", "argv2", "envp", "envp1", "envp2"}

sys_execve ==
  <<CopyArgs, Op("strdup", "filename", {}, {}, "own"), Skip(6)>>
  \o user_vecdup("atmp", "argv", "argv1", "argv2") \o <<Skip(6)>>
  \o user_vecdup("etmp", "envp", "envp1", "envp2")
  \o <<Op("execve", "", {}, {}, "own"), Op("cleanup", "", {}, ExecveCleanup, "own")>>

\* SYS_sync, SYS_getpid, SYS_thr_yield and SYS_errno cannot fail and hold nothing; SYS_halt
\* returns -1 without an error.  SYS_exit and SYS_thr_exit do not return.
Plan ==
  [read |-> sys_read, write |-> sys_write, getdents |-> sys_getdents, close |-> sys_close,
   dup |-> sys_dup, brk |-> sys_brk, fork |-> sys_fork, dup2 |-> sys_dup2,
   lseek |-> sys_lseek, mmap |-> sys_mmap, munmap |-> sys_munmap, mkdir |-> sys_mkdir,
   rmdir |-> sys_rmdir, unlink |-> sys_unlink, chdir |-> sys_chdir, open |-> sys_open,
   link |-> sys_link, rename |-> sys_rename, stat |-> sys_stat, waitpid |-> sys_waitpid,
   pipe |-> sys_pipe, uname |-> sys_uname, debug |-> sys_debug, kshell |-> sys_kshell,
   execve |-> sys_execve, mount |-> sys_mount, umount |-> sys_umount]

-----------------------------------------------------------------------------
(* The state of a call.                                                    *)

Addrs == PAGE_SIZE .. (CHOOSE m \in DOMAIN Prot : \A k \in DOMAIN Prot : k <= m) * PAGE_SIZE
                      + 3 * PAGE_SIZE - 1

\* What the program's memory holds before a read, and before a write.
Blank == [a \in Addrs |-> 0]
Written == [a \in Addrs |-> a]

\* The i-th byte a read takes from the file.
FileBytes(n) == [i \in 1..n |-> i]

User == [sys |-> "none", pc |-> 0, held |-> {}, freed |-> {}, addr |-> 0, n |-> 0, mem |-> << >>,
         buf |-> << >>, ret |-> "ok", failed |-> "", did |-> FALSE]

Init ==
  /\ c = User
  /\ kt_errno = "0"
  /\ kt_cancelled = FALSE
  /\ fault = ""

InKernel == c.pc > 0 /\ fault = ""

Step == Plan[c.sys][c.pc]

\* kfree and page_free; a pointer may be NULL.
Free(frees) ==
  [c EXCEPT !.held = @ \ frees, !.freed = @ \cup (frees \cap c.held)]

\* The call after the step o succeeded, and after it failed with error e.
Proceed(o) == [Free(o.done) EXCEPT !.pc = @ + 1]

FailStep(o, e) ==
  IF c.sys = "execve"
    THEN [Free(o.fail) EXCEPT !.pc = Len(sys_execve), !.failed = e]
    ELSE [Free(o.fail) EXCEPT !.pc = Len(Plan[c.sys]) + 1, !.failed = e, !.ret = "-1"]

\* kfree of memory that this call has freed before.
Freed(frees) == IF frees \cap c.freed = {} THEN fault ELSE "kfree"

\* The error path of the step o: its frees, kt_errno and the return.
Fail(o, e) ==
  /\ c' = FailStep(o, e)
  /\ kt_errno' = IF o.err = "own" THEN e ELSE o.err
  /\ fault' = Freed(o.fail)
  /\ UNCHANGED kt_cancelled

Succeed(o) ==
  /\ c' = Proceed(o)
  /\ fault' = Freed(o.done)
  /\ UNCHANGED <<kt_errno, kt_cancelled>>

\* The kernel uses a pointer that is not valid.
Crash(where) ==
  /\ fault' = where
  /\ UNCHANGED <<c, kt_errno, kt_cancelled>>

At(op) == InKernel /\ c.pc <= Len(Plan[c.sys]) /\ Step.op = op

-----------------------------------------------------------------------------
(* The steps.                                                              *)

\* copy_from_user of the structure with the arguments.
copy_args ==
  /\ At("copy")
  /\ Succeed(Step) \/ Fail(Step, "EFAULT")

kmalloc ==
  /\ At("kmalloc")
  /\ \/ /\ c' = [Proceed(Step) EXCEPT !.held = @ \cup {Step.arg}]
        /\ UNCHANGED <<kt_errno, kt_cancelled, fault>>
     \/ Fail(Step, Step.err)

\* No caller looks at the result: without a page the buffer is at address 0.
page_alloc ==
  /\ At("page_alloc")
  /\ \/ /\ c' = [Proceed(Step) EXCEPT !.held = @ \cup {Step.arg}]
        /\ UNCHANGED <<kt_errno, kt_cancelled, fault>>
     \/ Crash("page_alloc")

\* The string itself is freed again when copying it fails.
user_strdup ==
  /\ At("strdup")
  /\ \/ /\ c' = [Proceed(Step) EXCEPT !.held = @ \cup {Step.arg}]
        /\ UNCHANGED <<kt_errno, kt_cancelled, fault>>
     \/ \E e \in {"ENOMEM", "EFAULT"} :
          \/ Step.err # "ignored" /\ Fail(Step, e)
          \/ /\ Step.err = "ignored"
             /\ c' = Proceed(Step)
             /\ kt_errno' = e
             /\ UNCHANGED <<kt_cancelled, fault>>

\* When the argstrs cannot be copied the fail path walks a vector nobody filled.
copy_vector ==
  /\ At("veccopy")
  /\ Succeed(Step) \/ Fail(Step, "EFAULT") \/ Crash("user_vecdup")

release ==
  /\ At("free")
  /\ Succeed(Step)

\* A part of the function that the arguments may leave out.
optional ==
  /\ At("skip")
  /\ c' = [c EXCEPT !.pc = @ + 1] \/ c' = [c EXCEPT !.pc = @ + 1 + Step.arg]
  /\ UNCHANGED <<kt_errno, kt_cancelled, fault>>

\* copy_from_user of the program's buffer, in sys_write.
CopiedIn(r) ==
  \/ r.ret # "0" /\ Fail(Step, r.ret)
  \/ /\ r.ret = "0"
     /\ c' = [Proceed(Step) EXCEPT !.buf = r.buf]
     /\ fault' = IF r.fault THEN "vmmap_read" ELSE fault
     /\ UNCHANGED <<kt_errno, kt_cancelled>>

copy_in == At("in") /\ CopiedIn(copy_from_user(c.mem, c.addr, c.n))

\* copy_to_user of a result: of the bytes read, or of a structure.
CopiedOut(r) ==
  \/ r.ret # "0" /\ Fail(Step, r.ret)
  \/ /\ r.ret = "0"
     /\ c' = [Proceed(Step) EXCEPT !.mem = r.mem]
     /\ fault' = IF r.fault THEN "vmmap_write" ELSE Freed(Step.done)
     /\ UNCHANGED <<kt_errno, kt_cancelled>>

copy_out ==
  /\ At("out")
  /\ \/ c.sys = "read" /\ CopiedOut(copy_to_user(c.mem, c.addr, c.buf))
     \/ c.sys # "read" /\ (Succeed(Step) \/ Fail(Step, "EFAULT"))

\* The do_ function; do_read delivers up to nbytes bytes.
do_call ==
  /\ At("do")
  /\ \/ Fail(Step, "EIO")
     \/ \E k \in 0..c.n :
          /\ c' = [Proceed(Step) EXCEPT !.did = TRUE,
                                        !.buf = IF c.sys = "read" THEN FileBytes(k) ELSE @]
          /\ fault' = Freed(Step.done)
          /\ UNCHANGED <<kt_errno, kt_cancelled>>

\* One turn of the loop of sys_getdents.
getdent ==
  /\ At("getdent")
  /\ \/ Fail(Step, "EIO")
     \/ /\ c' = [FailStep(Step, "EFAULT") EXCEPT !.did = TRUE]
        /\ kt_errno' = "EFAULT"
        /\ UNCHANGED <<kt_cancelled, fault>>
     \/ /\ c' = [c EXCEPT !.pc = Len(sys_getdents) + 1]
        /\ kt_errno' = "0"
        /\ UNCHANGED <<kt_cancelled, fault>>
     \/ /\ c' = [Proceed(Step) EXCEPT !.did = TRUE]
        /\ UNCHANGED <<kt_errno, kt_cancelled, fault>>

\* Mutant: kt_errno is only assigned when do_execve fails.
do_execve_keep_errno ==
  /\ At("execve")
  /\ \/ c' = [Proceed(Step) EXCEPT !.did = TRUE] /\ UNCHANGED kt_errno
     \/ c' = [Proceed(Step) EXCEPT !.failed = "EIO"] /\ kt_errno' = "EIO"
  /\ UNCHANGED <<kt_cancelled, fault>>

\* Its result goes to kt_errno either way.
do_execve ==
  /\ At("execve")
  /\ \/ c' = [Proceed(Step) EXCEPT !.did = TRUE] /\ kt_errno' = "0"
     \/ c' = [Proceed(Step) EXCEPT !.failed = "EIO"] /\ kt_errno' = "EIO"
  /\ UNCHANGED <<kt_cancelled, fault>>

\* The cleanup label of sys_execve: -1 if kt_errno is set.
cleanup ==
  /\ At("cleanup")
  /\ c' = [Proceed(Step) EXCEPT !.ret = IF kt_errno # "0" THEN "-1" ELSE "ok"]
  /\ UNCHANGED <<kt_errno, kt_cancelled, fault>>

-----------------------------------------------------------------------------
(* Entry, return, and what happens meanwhile.                              *)

\* kthread_exit.
Exited == [User EXCEPT !.pc = -1]

Enter(sys, b, mem) == [User EXCEPT !.sys = sys, !.pc = 1, !.addr = b[1], !.n = b[2], !.mem = mem]

\* syscall_handler up to the call of the sys_ function, and the default case.
syscall_handler ==
  /\ c.pc = 0
  /\ \/ kt_cancelled /\ c' = Exited /\ UNCHANGED kt_errno
     \/ /\ ~ kt_cancelled
        /\ \/ \E b \in ReadBuffers : c' = Enter("read", b, Blank)
           \/ \E b \in WriteBuffers : c' = Enter("write", b, Written)
           \/ \E sys \in DOMAIN Plan \ {"read", "write"} : c' = Enter(sys, <<0, 0>>, << >>)
        /\ UNCHANGED kt_errno
     \/ /\ ~ kt_cancelled
        /\ c' = [User EXCEPT !.ret = "-1", !.failed = "ENOSYS"]
        /\ kt_errno' = "ENOSYS"
  /\ UNCHANGED <<kt_cancelled, fault>>

\* The rest of syscall_handler.  What the thread still holds stays allocated.
syscall_return ==
  /\ InKernel
  /\ c.pc = Len(Plan[c.sys]) + 1
  /\ c' = IF kt_cancelled THEN [Exited EXCEPT !.held = c.held] ELSE [c EXCEPT !.pc = 0]
  /\ UNCHANGED <<kt_errno, kt_cancelled, fault>>

\* SYS_set_errno.
set_errno ==
  /\ c.pc = 0 /\ ~ kt_cancelled
  /\ c' = User
  /\ kt_errno' \in {"0", "EINVAL"}
  /\ UNCHANGED <<kt_cancelled, fault>>

\* Another thread kills the process or halts the system.
kthread_cancel ==
  /\ c.pc >= 0 /\ ~ kt_cancelled /\ fault = ""
  /\ kt_cancelled' = TRUE
  /\ UNCHANGED <<c, kt_errno, fault>>

Next ==
  \/ copy_args \/ kmalloc \/ page_alloc \/ user_strdup \/ copy_vector \/ release \/ optional
  \/ copy_in \/ copy_out \/ do_call \/ getdent \/ do_execve \/ cleanup
  \/ syscall_handler \/ syscall_return \/ set_errno \/ kthread_cancel

Spec == Init /\ [][Next]_vars

-----------------------------------------------------------------------------
(* Properties.                                                             *)

\* The kernel uses an invalid pointer, or frees memory twice, in two places only: in
\* sys_read and sys_write when page_alloc fails, and on the fail path of user_vecdup.  In
\* particular vmmap_read and vmmap_write find an area for every page of these buffers,
\* which they assume and range_perm has to ensure.
NoFault == fault \in {"", "page_alloc", "user_vecdup"}

\* Every temporary a call allocates (the page of read and write, each copied string, the
\* vectors of execve, the shell) is freed on every path, so a thread that is back in user
\* mode, or that has exited because it was cancelled meanwhile, leaves nothing behind.
NothingLeftBehind == fault = "" /\ c.pc \in {0, -1} => c.held = {}

\* A call returns -1 exactly if one of its steps failed, with kt_errno set, whatever
\* earlier calls and SYS_set_errno left in kt_errno (sys_execve decides by it); and only
\* the calls that copy a result out after the do_ function (read, getdents, waitpid, stat,
\* pipe) can fail after it took effect.
MinusOneMeansFailed ==
  fault = "" /\ c.pc = 0 =>
    /\ c.ret = "-1" <=> c.failed # ""
    /\ c.ret = "-1" => kt_errno # "0"
    /\ c.ret = "-1" /\ c.did => c.sys \in {"read", "getdents", "waitpid", "stat", "pipe"}

\* What a program gets from a successful read are the bytes do_read delivered, at its
\* buffer and nowhere else, and do_write gets exactly the bytes of the program's buffer.
CopiesExact ==
  fault = "" /\ c.pc = 0 /\ c.ret = "ok" =>
    /\ c.sys = "read" => c.mem = Put(Blank, c.addr, c.buf)
    /\ c.sys = "write" => c.buf = Bytes(Written, c.addr, c.n)

=============================================================================
