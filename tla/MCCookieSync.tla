---------------------------- MODULE MCCookieSync ----------------------------
(* TLC instances of CookieSync. *)
EXTENDS CookieSync, TLC

CONSTANTS h1, h2, h3, f1, f2

\* h1 and h2 differ in an attribute that the file does not show.
Rendering == [h \in Hash |-> IF h \in {h1, h2} THEN f1 ELSE f2]

Targets == Permutations(Scope)
============================================================================
