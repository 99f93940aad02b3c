-------------------------------- MODULE Namev --------------------------------
(***************************************************************************)
(* Path lookup over a tree of vnodes: K2/namev.c.                          *)
(*                                                                         *)
(* A file system is a record s with, for every vnode,                      *)
(*   kind   what it is                                                     *)
(*   dir    the entries of a directory, "." and ".." among them            *)
(*   len    vn_len of a regular file                                       *)
(*   refs   vn_refcount                                                    *)
(* and whether a KASSERT has failed (panic).  A path is a record: whether  *)
(* it starts with a slash, its names, and whether it ends with a slash.    *)
(* Functions return a record with the error (or 0), the file system and    *)
(* what they found.  The operations of the file system below the VFS layer *)
(* are external; none of them blocks here.                                 *)
(***************************************************************************)
EXTENDS Integers, Sequences, SequencesExt, FiniteSets, TLC

CONSTANTS
  NumVnodes,   \* bound: how many vnodes there can be
  LongName,    \* a name of more than NAME_LEN characters
  NULL

ASSUME NamevConstants == NumVnodes \in Nat \ {0} /\ LongName \in STRING

Vnodes == 1..NumVnodes

vfs_root_vn == 1

Dots == {".", ".."}

KASSERT(s, cond) == [s EXCEPT !.panic = @ \/ ~cond]

IsDir(s, v) == s.kind[v] = "dir"

\* The names of a vnode, as pairs of a directory and a name.
LinksTo(s, v) ==
  UNION {{<<d, n>> : n \in {n \in DOMAIN s.dir[d] \ Dots : s.dir[d][n] = v}} : d \in Vnodes}

NewDir(v, parent) == ("." :> v) @@ (".." :> parent)

\* Mounted, with the references of the mount and of one working directory.
Mounted ==
  [kind  |-> [v \in Vnodes |-> IF v = vfs_root_vn THEN "dir" ELSE "free"],
   dir   |-> [v \in Vnodes |-> IF v = vfs_root_vn THEN NewDir(v, v) ELSE << >>],
   len   |-> [v \in Vnodes |-> 0],
   refs  |-> [v \in Vnodes |-> IF v = vfs_root_vn THEN 2 ELSE 0],
   panic |-> FALSE]

-----------------------------------------------------------------------------
(* References, and the operations of the file system.                      *)

vref(s, v) == [KASSERT(s, s.refs[v] > 0) EXCEPT !.refs[v] = @ + 1]

\* vget: a vnode in use has one more reference, any other is brought in with one.
vget(s, v) == IF s.refs[v] > 0 THEN vref(s, v) ELSE [s EXCEPT !.refs[v] = 1]

\* vput, where no page is resident.  The file system frees the inode of a vnode with
\* no reference and no name.
vput(s, v) ==
  IF s.refs[v] > 1 \/ v = vfs_root_vn \/ LinksTo(s, v) # {}
  THEN [KASSERT(s, s.refs[v] > 0) EXCEPT !.refs[v] = @ - 1]
  ELSE [KASSERT(s, s.refs[v] > 0) EXCEPT !.refs[v] = @ - 1, !.kind[v] = "free",
                                         !.dir[v] = << >>, !.len[v] = 0]

FreeVnodes(s) == {v \in Vnodes : s.kind[v] = "free"}

\* The create, mkdir and mknod operations, for a name that is not there, with v for
\* the new vnode.  A directory that has been removed takes no entries.
NewNode(s, d, name, kind, v) ==
  [s EXCEPT !.kind[v] = kind,
            !.dir[v] = IF kind = "dir" THEN NewDir(v, d) ELSE << >>,
            !.dir[d] = (name :> v) @@ @]

fs_create(s, d, name, kind) ==
  IF "." \notin DOMAIN s.dir[d] THEN [ret |-> "ENOENT", s |-> s, v |-> NULL]
  ELSE IF FreeVnodes(s) = {} THEN [ret |-> "ENOSPC", s |-> s, v |-> NULL]
  ELSE [ret |-> "0", s |-> NewNode(s, d, name, kind, Min(FreeVnodes(s))), v |-> Min(FreeVnodes(s))]

fs_link(s, v, d, name) ==
  IF "." \notin DOMAIN s.dir[d] THEN [ret |-> "ENOENT", s |-> s]
  ELSE [ret |-> "0", s |-> [s EXCEPT !.dir[d] = (name :> v) @@ @]]

\* The unlink operation, and what rmdir does to the parent.
fs_unlink(s, d, name) ==
  [s EXCEPT !.dir[d] = [n \in DOMAIN s.dir[d] \ {name} |-> s.dir[d][n]]]

fs_rmdir(s, d, name) ==
  LET v == s.dir[d][name]
  IN  IF DOMAIN s.dir[v] \subseteq Dots
      THEN [ret |-> "0", s |-> [fs_unlink(s, d, name) EXCEPT !.dir[v] = << >>]]
      ELSE [ret |-> "ENOTEMPTY", s |-> s]

-----------------------------------------------------------------------------
\* lookup; the file system's operation takes a reference to what it finds.
lookup(s, d, name) ==
  IF ~IsDir(s, d) THEN [ret |-> "ENOTDIR", s |-> s, v |-> NULL]
  ELSE IF name \notin DOMAIN s.dir[d] THEN [ret |-> "ENOENT", s |-> s, v |-> NULL]
  ELSE [ret |-> "0", s |-> vget(s, s.dir[d][name]), v |-> s.dir[d][name]]

\* One turn of dir_namev's loop, once the previous directory is put.  The loop is
\* left with an error ("stop"), or at a name that does not exist; what is left of the
\* path is then noted in "rest".
Found(w, r) ==
  IF r.ret = "ENOTDIR"
  THEN [w EXCEPT !.s = vput(w.s, w.base), !.ret = r.ret, !.stop = TRUE]
  ELSE [w EXCEPT !.s = r.s, !.ret = r.ret, !.prev = w.base,
                 !.base = IF r.ret = "0" THEN r.v ELSE @]

Descend(w, name) ==
  IF name = LongName
  THEN [w EXCEPT !.s = vput(w.s, w.base), !.ret = "ENAMETOOLONG", !.stop = TRUE]
  ELSE Found(w, lookup(w.s, w.base, name))

Resolve(w, name) ==
  IF w.ret # "0" THEN [w EXCEPT !.rest = TRUE]
  ELSE Descend([w EXCEPT !.s = IF w.prev = NULL THEN @ ELSE vput(@, w.prev)], name)

\* The state of the loop before the first name.
Start(s, from) ==
  [s |-> vref(s, from), prev |-> NULL, base |-> from, ret |-> "0", stop |-> FALSE, rest |-> FALSE]

Failed(ret, s) == [ret |-> ret, s |-> s, v |-> NULL, name |-> NULL]

\* Mutant: the vnode the last name leads to is not put.
Resolved_keeps_last(w, path) ==
  IF w.stop THEN Failed(w.ret, w.s)
  ELSE IF (path.slash \/ w.rest) /\ ~IsDir(w.s, w.base)
  THEN Failed("ENOTDIR", vput(vput(w.s, w.prev), w.base))
  ELSE IF w.rest THEN Failed("ENOENT", vput(w.s, w.prev))
  ELSE [ret |-> "0", s |-> w.s, v |-> w.prev, name |-> Last(path.names)]

\* What dir_namev does after the loop.
Resolved(w, path) ==
  IF w.stop THEN Failed(w.ret, w.s)
  ELSE IF (path.slash \/ w.rest) /\ ~IsDir(w.s, w.base)
  THEN Failed("ENOTDIR", vput(vput(w.s, w.prev), w.base))
  ELSE IF w.rest THEN Failed("ENOENT", vput(w.s, w.prev))
  ELSE [ret  |-> "0",
        s    |-> IF w.ret = "0" THEN vput(w.s, w.base) ELSE w.s,
        v    |-> w.prev,
        name |-> Last(path.names)]

\* dir_namev: the directory of the last name of a path, which need not exist.
dir_namev(s, cwd, path) ==
  IF path.names # << >>
  THEN Resolved(FoldLeft(Resolve, Start(s, IF path.abs THEN vfs_root_vn ELSE cwd), path.names),
                path)
  ELSE IF path.abs
  THEN [ret |-> "0", s |-> vref(s, vfs_root_vn), v |-> vfs_root_vn, name |-> "."]
  ELSE Failed("EINVAL", s)

\* open_namev, with the open flags as a set: d is the directory dir_namev found, l
\* what lookup found there and c what the create operation made.
Created(c, d) ==
  [ret |-> c.ret, s |-> vput(IF c.ret = "0" THEN vget(c.s, c.v) ELSE c.s, d.v), v |-> c.v]

OpenFound(l, d, flags) ==
  IF l.ret = "ENOENT" /\ "O_CREAT" \in flags
  THEN Created(fs_create(l.s, d.v, d.name, "reg"), d)
  ELSE IF l.ret # "0" THEN [ret |-> l.ret, s |-> vput(l.s, d.v), v |-> NULL]
  ELSE IF flags \cap {"O_WRONLY", "O_RDWR"} # {} /\ IsDir(l.s, l.v)
  THEN [ret |-> "EISDIR", s |-> vput(vput(l.s, l.v), d.v), v |-> NULL]
  ELSE [ret |-> "0", s |-> vput(l.s, d.v), v |-> l.v]

OpenIn(d, flags) ==
  IF d.ret # "0" THEN [ret |-> d.ret, s |-> d.s, v |-> NULL]
  ELSE OpenFound(lookup(d.s, d.v, d.name), d, flags)

open_namev(s, cwd, path, flags) == OpenIn(dir_namev(s, cwd, path), flags)

-----------------------------------------------------------------------------
(* What a path names, without references: the vnode, or an error.          *)

\* The directory each name leads to, from the left; NULL once there is none.
Walk(s, cwd, path) ==
  FoldLeft(LAMBDA v, n : IF v = NULL \/ ~IsDir(s, v) \/ n \notin DOMAIN s.dir[v] THEN NULL
                         ELSE s.dir[v][n],
           IF path.abs THEN vfs_root_vn ELSE cwd, path.names)
=============================================================================
