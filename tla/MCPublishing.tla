---------------------------- MODULE MCPublishing ----------------------------
(* TLC instance of Publishing. *)
EXTENDS Publishing

Cookie(k, t) == [key |-> k, value |-> k, expires |-> t, auth |-> k = 1,
                 safe |-> k < 3]

\* No cookies; a session in two orders; the session renewed; a session with a
\* cookie that the broker refuses.
Jars == {<<>>, <<Cookie(1, 5), Cookie(2, 0)>>, <<Cookie(2, 0), Cookie(1, 5)>>,
         <<Cookie(1, 7), Cookie(2, 0)>>, <<Cookie(1, 5), Cookie(3, 0)>>}

Hashes == {sum(cookies) : cookies \in Canonical}
=============================================================================
