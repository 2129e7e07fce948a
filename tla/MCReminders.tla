----------------------------- MODULE MCReminders -----------------------------
(* Two items over two days: i1 is due on the first, with two slots, and       *)
(* expires on the second; i2 is in the digest of the first.                   *)
EXTENDS Reminders, TLC

CONSTANTS i1, i2

MCDeadline == [i \in Items |-> IF i = i1 THEN 1 ELSE 5]
\* Both items far away: the digest lists them.
MCLateDeadline == [i \in Items |-> 5]

MCImportance == [i \in Items |-> IF i = i1 THEN 5 ELSE 1]
Symmetry == Permutations(Targets) \cup Permutations(Runs)

MCTimes == <<<<1, 8>>, <<1, 10>>, <<2, 7>>>>
=============================================================================
