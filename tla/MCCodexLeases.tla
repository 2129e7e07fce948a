---------------------------- MODULE MCCodexLeases ----------------------------
(* Leases with three worktrees for two places, so that the limit is reached.  *)
EXTENDS CodexLeases, TLC

Symmetry == Permutations(Threads) \cup Permutations(Worktrees) \cup Permutations(Owners)
=============================================================================
