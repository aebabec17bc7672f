----------------------------- MODULE MCRepoLock -----------------------------
(* Three nb processes, started any number of times, on one lockfile.        *)
EXTENDS RepoLock, TLC

Symmetry == Permutations(Procs) \cup Permutations(Inodes)
=============================================================================
