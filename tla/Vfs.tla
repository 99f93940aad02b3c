--------------------------------- MODULE Vfs ---------------------------------
(***************************************************************************)
(* The system calls on files: K2/vfs_syscall.c, K2/open.c and the part of  *)
(* K3/fork.c that shares open files.                                       *)
(*                                                                         *)
(* k is the state the calls work on: the file system (k.fs), the open      *)
(* files (k.file), the descriptors of every process (k.fd) and the working *)
(* directories (k.cwd).  A call is a function from k to a result and a     *)
(* new k, and one step, except read and write: their vnode operation may   *)
(* block, so each is two steps, and call[p] is what p has read before it   *)
(* blocked.                                                                *)
(***************************************************************************)
EXTENDS Namev

CONSTANTS
  Procs, First,   \* processes, and the one that runs at first
  NFILES,         \* descriptors of a process
  NumFiles,       \* bound: how many files can be open
  MaxPos,         \* bound: the largest position in a file
  Paths,          \* bound: the paths that are used
  OpenFlags,      \* bound: the flags files are opened with
  Offsets,        \* bound: the offsets of lseek
  Ops,            \* bound: the calls that are made
  LinkDirs,       \* whether link and rename are called with directories
  SeekDuringIO    \* whether a file is sought while another call is using it

ASSUME VfsConstants ==
  /\ First \in Procs
  /\ NFILES \in Nat \ {0} /\ NumFiles \in Nat \ {0}
  /\ LinkDirs \in BOOLEAN /\ SeekDuringIO \in BOOLEAN

VARIABLES k, call

vars == <<k, call>>

Fds == 0 .. NFILES - 1
AnyFd == 0 .. NFILES   \* NFILES stands for every descriptor out of range
Files == 1..NumFiles

EIO == 1   \* a small errno, so that positions can be larger

NoFile == [refs |-> 0, mode |-> {}, pos |-> 0, vnode |-> NULL]

Alive(p) == k.cwd[p] # NULL
Ready(p) == Alive(p) /\ call[p] = NULL

Init ==
  /\ k = [fs   |-> Mounted,
          file |-> [f \in Files |-> NoFile],
          fd   |-> [p \in Procs |-> [fd \in Fds |-> NULL]],
          cwd  |-> [p \in Procs |-> IF p = First THEN vfs_root_vn ELSE NULL]]
  /\ call = [p \in Procs |-> NULL]

-----------------------------------------------------------------------------
(* Files and descriptors.                                                  *)

Result(ret, kk) == [ret |-> ret, k |-> kk]

\* The file of a descriptor, or NULL: what fget finds, and the tests before it.
FileOf(kk, p, fd) == IF fd \in Fds THEN kk.fd[p][fd] ELSE NULL

\* fget and fref of a file that is open.
fref(kk, f) == [kk EXCEPT !.file[f].refs = @ + 1]

\* The last reference to a file goes with its vnode.
fput(kk, f) ==
  IF kk.file[f].refs > 1 THEN [kk EXCEPT !.file[f].refs = @ - 1]
  ELSE [kk EXCEPT !.file[f] = NoFile,
                  !.fs = IF kk.file[f].vnode = NULL THEN KASSERT(@, kk.file[f].refs = 1)
                         ELSE vput(@, kk.file[f].vnode)]

EmptyFds(kk, p) == {fd \in Fds : kk.fd[p][fd] = NULL}

get_empty_fd(kk, p) == Min(EmptyFds(kk, p))

FreeFiles(kk) == {f \in Files : kk.file[f].refs = 0}

\* do_open's reading of the access mode in the flags: O_RDONLY is no bit, and is
\* recognised only when no flag but O_CREAT is set.
Access(flags) ==
  CASE "O_WRONLY" \in flags /\ "O_RDWR" \notin flags -> {"WRITE"}
    [] "O_RDWR" \in flags /\ "O_WRONLY" \notin flags -> {"READ", "WRITE"}
    [] flags \subseteq {"O_CREAT"}                   -> {"READ"}
    [] OTHER                                         -> {}

OpenMode(flags) == Access(flags) \cup (IF "O_APPEND" \in flags THEN {"APPEND"} ELSE {})

\* do_open, with the descriptor fd and the file f it took.  On an error both are
\* given back.
Opened(kk, p, fd, f, o) ==
  IF o.ret = "0" THEN Result("0", [kk EXCEPT !.fs = o.s, !.file[f].vnode = o.v])
  ELSE Result(o.ret, fput([kk EXCEPT !.fs = o.s, !.fd[p][fd] = NULL], f))

OpenWith(kk, p, path, flags, fd, f) ==
  IF Access(flags) = {} THEN Result("EINVAL", fput([kk EXCEPT !.fd[p][fd] = NULL], f))
  ELSE Opened(kk, p, fd, f, open_namev(kk.fs, kk.cwd[p], path, flags))

OpenAt(kk, p, path, flags, fd, f) ==
  OpenWith([kk EXCEPT !.fd[p][fd] = f,
                      !.file[f] = [NoFile EXCEPT !.refs = 1, !.mode = OpenMode(flags)]],
           p, path, flags, fd, f)

do_open(kk, p, path, flags) ==
  IF EmptyFds(kk, p) = {} THEN Result("EMFILE", kk)
  ELSE IF FreeFiles(kk) = {} THEN Result("ENOMEM", kk)
  ELSE OpenAt(kk, p, path, flags, get_empty_fd(kk, p), Min(FreeFiles(kk)))

do_close(kk, p, fd) ==
  IF FileOf(kk, p, fd) = NULL THEN Result("EBADF", kk)
  ELSE Result("0", [fput(kk, kk.fd[p][fd]) EXCEPT !.fd[p][fd] = NULL])

\* do_dup, holding the file f.
DupOf(kk, p, f) ==
  IF EmptyFds(kk, p) = {} THEN Result("EMFILE", fput(kk, f))
  ELSE Result("0", [kk EXCEPT !.fd[p][get_empty_fd(kk, p)] = f])

do_dup(kk, p, fd) ==
  IF FileOf(kk, p, fd) = NULL THEN Result("EBADF", kk)
  ELSE DupOf(fref(kk, kk.fd[p][fd]), p, kk.fd[p][fd])

do_dup2(kk, p, ofd, nfd) ==
  IF FileOf(kk, p, ofd) = NULL \/ nfd \notin Fds THEN Result("EBADF", kk)
  ELSE IF ofd = nfd THEN Result("0", kk)
  ELSE Result("0", [fref(IF kk.fd[p][nfd] = NULL THEN kk ELSE do_close(kk, p, nfd).k,
                         kk.fd[p][ofd])
                      EXCEPT !.fd[p][nfd] = kk.fd[p][ofd]])

SeekTo(kk, f, newPos) ==
  IF newPos < 0 THEN Result("EINVAL", kk) ELSE Result("0", [kk EXCEPT !.file[f].pos = newPos])

\* do_lseek on the file f.
SeekFile(kk, f, offset, whence) ==
  SeekTo(kk, f, offset + CASE whence = "SEEK_SET" -> 0
                           [] whence = "SEEK_CUR" -> kk.file[f].pos
                           [] whence = "SEEK_END" -> kk.fs.len[kk.file[f].vnode])

do_lseek(kk, p, fd, offset, whence) ==
  IF FileOf(kk, p, fd) = NULL THEN Result("EBADF", kk)
  ELSE SeekFile(kk, kk.fd[p][fd], offset, whence)

\* do_getdent, of a directory whose entries are left out: the position moves past one.
GetDent(kk, p, fd, f) ==
  IF f = NULL THEN Result("EBADF", kk)
  ELSE IF ~IsDir(kk.fs, kk.file[f].vnode) THEN Result("ENOTDIR", kk)
  ELSE IF kk.file[f].pos >= Cardinality(DOMAIN kk.fs.dir[kk.file[f].vnode])
  THEN Result("0", kk)
  ELSE Result("0", fput(do_lseek(fref(kk, f), p, fd, 1, "SEEK_CUR").k, f))

do_getdent(kk, p, fd) == GetDent(kk, p, fd, FileOf(kk, p, fd))

-----------------------------------------------------------------------------
(* Calls on paths.                                                         *)

\* The return of a call that changes the file system only.
End(kk, ret, s) == Result(ret, [kk EXCEPT !.fs = s])

(* In what follows d is what dir_namev found, l what lookup found there, o *)
(* what open_namev found and c what the operation of the file system did.  *)

Made(kk, d, c) == End(kk, c.ret, vput(c.s, d.v))

\* Mutant: a name that exists is no obstacle.
MakeAt_no_test(kk, kind, d, l) == Made(kk, d, fs_create(d.s, d.v, d.name, kind))

MakeAt(kk, kind, d, l) ==
  IF l.ret = "0" THEN End(kk, "EEXIST", vput(vput(l.s, l.v), d.v))
  ELSE IF l.ret = "ENOTDIR" THEN End(kk, l.ret, vput(l.s, d.v))
  ELSE Made(kk, d, fs_create(l.s, d.v, d.name, kind))

MakeIn(kk, kind, d) ==
  IF d.ret # "0" THEN End(kk, d.ret, d.s)
  ELSE MakeAt(kk, kind, d, lookup(d.s, d.v, d.name))

do_mkdir(kk, p, path) == MakeIn(kk, "dir", dir_namev(kk.fs, kk.cwd[p], path))

do_mknod(kk, p, path, kind) ==
  IF kind # "chr" THEN Result("EINVAL", kk)
  ELSE MakeIn(kk, kind, dir_namev(kk.fs, kk.cwd[p], path))

RemovedDir(kk, d, l, c) == End(kk, c.ret, vput(vput(c.s, l.v), d.v))

RmdirAt(kk, d, l) ==
  IF l.ret # "0" THEN End(kk, l.ret, vput(l.s, d.v))
  ELSE IF IsDir(l.s, l.v) THEN RemovedDir(kk, d, l, fs_rmdir(l.s, d.v, d.name))
  ELSE End(kk, "ENOTDIR", vput(vput(l.s, l.v), d.v))

RmdirIn(kk, d) ==
  IF d.ret # "0" THEN End(kk, d.ret, d.s)
  ELSE IF ~IsDir(d.s, d.v) THEN End(kk, "ENOTDIR", vput(d.s, d.v))
  ELSE IF d.name = "." THEN End(kk, "EINVAL", vput(d.s, d.v))
  ELSE IF d.name = ".." THEN End(kk, "ENOTEMPTY", vput(d.s, d.v))
  ELSE RmdirAt(kk, d, lookup(d.s, d.v, d.name))

do_rmdir(kk, p, path) == RmdirIn(kk, dir_namev(kk.fs, kk.cwd[p], path))

UnlinkAt(kk, d, l) ==
  IF l.ret # "0" THEN End(kk, l.ret, vput(l.s, d.v))
  ELSE IF IsDir(l.s, l.v) THEN End(kk, "EPERM", vput(vput(l.s, l.v), d.v))
  ELSE End(kk, "0", vput(vput(fs_unlink(l.s, d.v, d.name), l.v), d.v))

UnlinkIn(kk, d) ==
  IF d.ret # "0" THEN End(kk, d.ret, d.s)
  ELSE IF ~IsDir(d.s, d.v) THEN End(kk, "ENOTDIR", vput(d.s, d.v))
  ELSE UnlinkAt(kk, d, lookup(d.s, d.v, d.name))

do_unlink(kk, p, path) == UnlinkIn(kk, dir_namev(kk.fs, kk.cwd[p], path))

Linked(kk, o, d, c) == End(kk, c.ret, vput(vput(c.s, o.v), d.v))

\* Mutant: a name that exists is replaced.
LinkAt_replaces(kk, o, d, l) == Linked(kk, o, d, fs_link(d.s, o.v, d.v, d.name))

LinkAt(kk, o, d, l) ==
  IF l.ret # "0" THEN Linked(kk, o, d, fs_link(l.s, o.v, d.v, d.name))
  ELSE End(kk, "EEXIST", vput(vput(vput(l.s, l.v), o.v), d.v))

LinkIn(kk, o, d) ==
  IF d.ret # "0" THEN End(kk, d.ret, vput(d.s, o.v))
  ELSE IF ~IsDir(d.s, d.v) THEN End(kk, "ENOTDIR", d.s)
  ELSE LinkAt(kk, o, d, lookup(d.s, d.v, d.name))

LinkFrom(kk, p, o, to) ==
  IF o.ret # "0" THEN End(kk, o.ret, o.s) ELSE LinkIn(kk, o, dir_namev(o.s, kk.cwd[p], to))

\* do_link.  That "from" is a directory is not tested.
do_link(kk, p, from, to) == LinkFrom(kk, p, open_namev(kk.fs, kk.cwd[p], from, {}), to)

RenameFrom(r, p, oldname) == IF r.ret # "0" THEN r ELSE do_unlink(r.k, p, oldname)

do_rename(kk, p, oldname, newname) == RenameFrom(do_link(kk, p, oldname, newname), p, oldname)

\* Mutant: the old working directory is not put.
ChangeTo_keeps_old(kk, p, o) ==
  IF o.ret # "0" THEN End(kk, o.ret, o.s)
  ELSE IF ~IsDir(o.s, o.v) THEN End(kk, "ENOTDIR", vput(o.s, o.v))
  ELSE Result("0", [kk EXCEPT !.fs = o.s, !.cwd[p] = o.v])

ChangeTo(kk, p, o) ==
  IF o.ret # "0" THEN End(kk, o.ret, o.s)
  ELSE IF ~IsDir(o.s, o.v) THEN End(kk, "ENOTDIR", vput(o.s, o.v))
  ELSE Result("0", [kk EXCEPT !.fs = vput(o.s, kk.cwd[p]), !.cwd[p] = o.v])

do_chdir(kk, p, path) == ChangeTo(kk, p, open_namev(kk.fs, kk.cwd[p], path, {}))

Stat(kk, o) == End(kk, o.ret, IF o.ret = "0" THEN vput(o.s, o.v) ELSE o.s)

do_stat(kk, p, path) == Stat(kk, open_namev(kk.fs, kk.cwd[p], path, {}))

-----------------------------------------------------------------------------
(* Steps.                                                                  *)

\* A call that does not block.
Atomic(p, op, r) ==
  /\ op \in Ops
  /\ Ready(p)
  /\ k' = r.k
  /\ UNCHANGED call

\* Whether another process is in a read or a write of the file.
InUse(p, f) == \E q \in Procs \ {p} : call[q] # NULL /\ k.fd[q][call[q].fd] = f

\* The calls on paths that link makes are with files only, unless LinkDirs.
MayLink(p, path) ==
  LinkDirs \/ LET v == Walk(k.fs, k.cwd[p], path) IN v # NULL => ~IsDir(k.fs, v)

\* A bound on what a step leads to; a step that fails an assertion is not cut.
PositionsBounded == k'.fs.panic \/ \A f \in Files : k'.file[f].pos <= MaxPos

PathCall(p, path) ==
  \/ \E flags \in OpenFlags : Atomic(p, "open", do_open(k, p, path, flags))
  \/ Atomic(p, "mkdir", do_mkdir(k, p, path))
  \/ \E kind \in {"chr", "reg"} : Atomic(p, "mknod", do_mknod(k, p, path, kind))
  \/ Atomic(p, "rmdir", do_rmdir(k, p, path))
  \/ Atomic(p, "unlink", do_unlink(k, p, path))
  \/ Atomic(p, "chdir", do_chdir(k, p, path))
  \/ Atomic(p, "stat", do_stat(k, p, path))

TwoPathCall(p, from, to) ==
  /\ Ready(p)
  /\ MayLink(p, from)
  /\ \/ Atomic(p, "link", do_link(k, p, from, to))
     \/ Atomic(p, "rename", do_rename(k, p, from, to))

FdCall(p, fd) ==
  \/ Atomic(p, "close", do_close(k, p, fd))
  \/ Atomic(p, "dup", do_dup(k, p, fd))
  \/ \E nfd \in AnyFd : Atomic(p, "dup2", do_dup2(k, p, fd, nfd))
  \/ Atomic(p, "getdent", do_getdent(k, p, fd)) /\ PositionsBounded

Seek(p, fd, offset, whence) ==
  /\ "lseek" \in Ops
  /\ SeekDuringIO \/ FileOf(k, p, fd) = NULL \/ ~InUse(p, FileOf(k, p, fd))
  /\ Atomic(p, "lseek", do_lseek(k, p, fd, offset, whence))
  /\ PositionsBounded

\* do_read and do_write up to the vnode operation: the file is held, and its
\* position has been read.  An append moves it to the end first.
BeginIO(p, op, fd) ==
  LET f == FileOf(k, p, fd)
  IN  /\ op \in Ops
      /\ Ready(p)
      /\ f # NULL
      /\ op \in k.file[f].mode
      /\ ~IsDir(k.fs, k.file[f].vnode)
      /\ k' = IF op = "WRITE" /\ "APPEND" \in k.file[f].mode
              THEN do_lseek(fref(k, f), p, fd, 0, "SEEK_END").k ELSE fref(k, f)
      /\ call' = [call EXCEPT ![p] = [op |-> op, fd |-> fd, pos |-> k'.file[f].pos]]

\* The rest of do_read: n is what the operation returned, or minus an error.
read_seek(kk, p, fd, n) ==
  IF n # 0 THEN do_lseek(kk, p, fd, n, "SEEK_CUR")
  ELSE do_lseek(kk, p, fd, 0, "SEEK_END")

\* The operation reads what there is of one byte, or fails.
read_results(v, pos) ==
  {IF k.fs.kind[v] = "chr" \/ pos < k.fs.len[v] THEN 1 ELSE 0}
    \cup {-EIO}

EndRead(p) ==
  LET f == k.fd[p][call[p].fd]
  IN  /\ call[p] # NULL /\ call[p].op = "READ"
      /\ \E n \in read_results(k.file[f].vnode, call[p].pos) :
           k' = fput(read_seek(k, p, call[p].fd, n).k, f)
      /\ PositionsBounded
      /\ call' = [call EXCEPT ![p] = NULL]

\* One byte is written to v where the position was; the position of the file f must
\* then be within the file.
Wrote(kk, f, v) ==
  [kk EXCEPT !.fs = KASSERT(@, kk.fs.kind[v] = "chr" \/ kk.file[f].pos <= kk.fs.len[v])]

WriteByte(kk, f, v, pos) ==
  Wrote([kk EXCEPT !.fs.len[v] = IF kk.fs.kind[v] = "chr" THEN 0 ELSE Max({@, pos + 1})], f, v)

\* Mutant: the position moves by the two bytes asked for, not by the one written.
EndWrite_asked(p) ==
  LET f == k.fd[p][call[p].fd]
  IN  /\ call[p] # NULL /\ call[p].op = "WRITE"
      /\ k' = fput(do_lseek(WriteByte(k, f, k.file[f].vnode, call[p].pos),
                            p, call[p].fd, 2, "SEEK_CUR").k, f)
      /\ PositionsBounded
      /\ call' = [call EXCEPT ![p] = NULL]

\* The rest of do_write, when the operation succeeds and when it fails.
EndWrite(p) ==
  LET f == k.fd[p][call[p].fd]
  IN  /\ call[p] # NULL /\ call[p].op = "WRITE"
      /\ \/ /\ call[p].pos < MaxPos
            /\ k' = fput(do_lseek(WriteByte(k, f, k.file[f].vnode, call[p].pos),
                                  p, call[p].fd, 1, "SEEK_CUR").k, f)
            /\ PositionsBounded
         \/ k' = fput(k, f)
      /\ call' = [call EXCEPT ![p] = NULL]

\* Mutant: the child's descriptors are no references.
Fork_no_ref(p, q) ==
  /\ "fork" \in Ops
  /\ Ready(p) /\ ~Alive(q)
  /\ k' = [k EXCEPT !.fd[q] = k.fd[p], !.cwd[q] = k.cwd[p], !.fs = vref(@, k.cwd[p])]
  /\ UNCHANGED call

\* do_fork: the child has the files and the working directory of its parent.
Fork(p, q) ==
  /\ "fork" \in Ops
  /\ Ready(p) /\ ~Alive(q)
  /\ k' = [k EXCEPT !.fd[q] = k.fd[p], !.cwd[q] = k.cwd[p], !.fs = vref(@, k.cwd[p]),
                    !.file = [f \in Files |->
                      [k.file[f] EXCEPT !.refs =
                         @ + Cardinality({fd \in Fds : k.fd[p][fd] = f})]]]
  /\ UNCHANGED call

\* A process that exits closes its files and puts its working directory.
Exit(p) ==
  LET closed == FoldLeft(LAMBDA kk, fd : do_close(kk, p, fd).k, k, SetToSeq(Fds))
  IN  /\ "exit" \in Ops
      /\ Ready(p)
      /\ k' = [closed EXCEPT !.fs = vput(@, k.cwd[p]), !.cwd[p] = NULL]
      /\ UNCHANGED call

Next ==
  \E p \in Procs :
    \/ \E path \in Paths : PathCall(p, path)
    \/ \E from, to \in Paths : TwoPathCall(p, from, to)
    \/ \E fd \in AnyFd : FdCall(p, fd)
    \/ \E fd \in AnyFd, offset \in Offsets, whence \in {"SEEK_SET", "SEEK_CUR", "SEEK_END"} :
         Seek(p, fd, offset, whence)
    \/ \E op \in {"READ", "WRITE"}, fd \in Fds : BeginIO(p, op, fd)
    \/ EndRead(p)
    \/ EndWrite(p)
    \/ \E q \in Procs : Fork(p, q)
    \/ Exit(p)

Spec == Init /\ [][Next]_vars

-----------------------------------------------------------------------------
(* Properties.                                                             *)

\* No KASSERT fails: no reference is put twice, and a write finds the position of
\* its file within the file when it ends (do_write).
NoPanic == ~k.fs.panic

\* A vnode has one reference for every open file, every working directory, and the
\* mount of the root: every path out of a call, with or without an error, puts what
\* it took (dir_namev, open_namev and all their callers).
VnodeRefsExact ==
  \A v \in Vnodes :
    k.fs.refs[v] = Cardinality({f \in Files : k.file[f].vnode = v})
                   + Cardinality({p \in Procs : k.cwd[p] = v})
                   + (IF v = vfs_root_vn THEN 1 ELSE 0)

\* A file has one reference for every descriptor and for every call that is using
\* it, so it is closed exactly with the last of them (do_dup, do_dup2, do_close,
\* do_read, do_write, do_fork), and its vnode is put then and no earlier.
FileRefsExact ==
  /\ VnodeRefsExact
  /\ \A f \in Files :
       k.file[f].refs =
         Cardinality({pf \in Procs \X Fds : k.fd[pf[1]][pf[2]] = f})
         + Cardinality({p \in Procs : call[p] # NULL /\ k.fd[p][call[p].fd] = f})

\* A directory has one name, and its ".." is the directory that has it: "Since
\* directories cannot have more than one link" (namev.c:257).
DirsHaveOneName ==
  \A v \in Vnodes \ {vfs_root_vn} :
    IsDir(k.fs, v) /\ "." \in DOMAIN k.fs.dir[v] =>
      \E d \in Vnodes \ {v} : \E n \in DOMAIN k.fs.dir[d] :
        LinksTo(k.fs, v) = {<<d, n>>} /\ k.fs.dir[v][".."] = d

\* Opening a path finds what the names of the path lead to, one by one, and takes
\* exactly one reference to it; a path that leads nowhere takes none, whatever the
\* place at which lookup stopped (dir_namev's two vnodes in hand, open_namev).
LookupExact ==
  \A p \in Procs, path \in Paths : Alive(p) =>
    LET o == open_namev(k.fs, k.cwd[p], path, {})
        v == Walk(k.fs, k.cwd[p], path)
    IN  IF o.ret = "0" THEN o.v = v /\ o.s = [k.fs EXCEPT !.refs[v] = @ + 1]
        ELSE /\ o.s = k.fs
             /\ \/ v = NULL
                \/ path.slash /\ ~IsDir(k.fs, v)
                \/ path.names = << >>

\* A rename that succeeds leaves the file under the new name and not under the old,
\* one that fails leaves every name as it was (do_rename's two steps).
RenameMoves ==
  \A p \in Procs, from, to \in Paths : Ready(p) /\ MayLink(p, from) =>
    LET r == do_rename(k, p, from, to)
        v == Walk(k.fs, k.cwd[p], from)
    IN  IF r.ret = "0"
        THEN /\ Walk(r.k.fs, k.cwd[p], to) = v
             /\ Walk(r.k.fs, k.cwd[p], from) = NULL
             /\ Cardinality(LinksTo(r.k.fs, v)) = Cardinality(LinksTo(k.fs, v))
        ELSE r.k = k
=============================================================================
