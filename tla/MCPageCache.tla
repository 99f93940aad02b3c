----------------------------- MODULE MCPageCache -----------------------------
(* Small instances of PageCache: the root of a file system and one file.   *)
EXTENDS PageCache

CONSTANTS t1, t2, t3, root, file

TwoFiles == {root, file}

FilePages == (root :> {}) @@ (file :> {0, 1})

TwoThreads == {t1, t2}
ThreeThreads == {t1, t2, t3}
ThreadSymmetry == Permutations(Threads)
=============================================================================
