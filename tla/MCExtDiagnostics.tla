-------------------------- MODULE MCExtDiagnostics --------------------------
(* TLC instances of ExtDiagnostics. *)
EXTENDS ExtDiagnostics

CONSTANTS s1, s2, popup

\* Details that pass as they are, that redaction makes pass and that fill a
\* body, and that it leaves as the broker refuses them.
Plain == [depth |-> 1, content |-> "plain", bytes |-> 1]
Wide == [depth |-> maxDiagnosticDepth + 2, content |-> "secret",
         bytes |-> maxDiagnosticsBytes]
Kept == [depth |-> 1, content |-> "kept", bytes |-> 1]

\* The worker logs what it does for either scope and what it does for none,
\* with the texts of errors; the popup logs the choice of a profile.
Pages == {<<Worker, s1, Kept>>, <<Worker, s2, Wide>>,
          <<Worker, NoScope, Plain>>, <<popup, s1, Plain>>}

\* All scopes are granted, or one is not.
Granted == {{s1, s2}, {s1}}
=============================================================================
