-------------------------------- MODULE MCVfs --------------------------------
(* Small instances of Vfs: a tree of up to three nodes under the root.     *)
EXTENDS Vfs

CONSTANTS p1, p2

Path(abs, names, slash) == [abs |-> abs, names |-> names, slash |-> slash]
Abs(names) == Path(TRUE, names, FALSE)
Rel(names) == Path(FALSE, names, FALSE)

OneProc == {p1}
TwoProcs == {p1, p2}
ProcSymmetry == Permutations(TwoProcs)

\* Names in the root and one level down, from the root and from the working
\* directory; the root itself, no name, a last slash, a name that is too long.
TreePaths ==
  {Abs(<< >>), Rel(<< >>), Abs(<<"x">>), Abs(<<"x", "y">>), Rel(<<"y">>),
   Rel(<<"..">>), Path(FALSE, <<"y">>, TRUE), Abs(<<"x", "long">>)}
TreeOps ==
  {"open", "close", "getdent", "mkdir", "mknod", "rmdir", "unlink", "link", "rename", "chdir", "stat"}
TreeFlags == {{}, {"O_RDWR", "O_CREAT"}}

FilePaths == {Abs(<<"x">>)}
FileOps ==
  {"open", "close", "dup", "dup2", "lseek", "unlink", "fork", "exit", "READ", "WRITE"}
FileFlags == {{"O_WRONLY", "O_CREAT", "O_APPEND"}, {"O_RDWR", "O_CREAT"}, {"O_WRONLY", "O_RDWR"}}

SmallOffsets == {-1, 1}
=============================================================================
