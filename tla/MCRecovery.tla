----------------------------- MODULE MCRecovery -----------------------------
(* TLC instances of Recovery. *)
EXTENDS Recovery, TLC

Slots == Permutations(Window) \cup Permutations(Starter)
           \cup Permutations(Capturer)
============================================================================
