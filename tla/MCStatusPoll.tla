---------------------------- MODULE MCStatusPoll ----------------------------
(* TLC instances of StatusPoll. *)
EXTENDS StatusPoll, TLC

\* The cookies of every revision but the first expire.
Hints == [n \in 1..MaxRevision |-> IF n = 1 THEN {} ELSE {3}]

NoHints == [n \in 1..MaxRevision |-> {}]

Slots == Permutations(Poll) \cup Permutations(Upload)
============================================================================
