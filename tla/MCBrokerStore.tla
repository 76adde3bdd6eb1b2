--------------------------- MODULE MCBrokerStore ---------------------------
(* TLC instance of BrokerStore. *)
EXTENDS BrokerStore, TLC

Symmetry == Permutations(User) \cup Permutations(Hash) \cup Permutations(Scope)
============================================================================
