-------------------------- MODULE MCCodexSupervisor --------------------------
(* The supervision of one thread on a small instance. *)
EXTENDS CodexSupervisor, TLC

Symmetry == Permutations(Turns) \cup Permutations(Slots)
=============================================================================
