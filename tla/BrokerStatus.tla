---------------------------- MODULE BrokerStatus ----------------------------
(***************************************************************************)
(* What the broker promises to those who watch its status endpoints: for   *)
(* each scope the revision that is current and its auth_health.  It is the *)
(* abstract specification that BrokerStore implements (users, grants and   *)
(* reports are hidden in the steps that change the health), and the broker *)
(* that the extension's model talks to.                                    *)
(***************************************************************************)
EXTENDS Integers

CONSTANTS
    Scope,          \* provider/profile pairs
    RevisionsKept,  \* revisions that a rollback can return to
    MaxRevision     \* bound: no scope gets more revisions than this

VARIABLES
    top,      \* highest revision published for a scope, 0 for none
    pointer,  \* revision that is current, 0 for none
    health    \* auth_health of that revision

statusVars == <<top, pointer, health>>

StatusInit ==
    /\ top = [s \in Scope |-> 0]
    /\ pointer = [s \in Scope |-> 0]
    /\ health = [s \in Scope |-> "missing"]

\* Every publication has the next number, is current and healthy.
Publish(s) ==
    /\ top[s] < MaxRevision
    /\ top' = [top EXCEPT ![s] = @ + 1]
    /\ pointer' = [pointer EXCEPT ![s] = top[s] + 1]
    /\ health' = [health EXCEPT ![s] = "healthy"]

\* A rollback to a revision that is still kept, with the health it had.
Return(s, n) ==
    /\ pointer[s] # 0
    /\ n \in 1..top[s] /\ n > top[s] - RevisionsKept
    /\ pointer' = [pointer EXCEPT ![s] = n]
    /\ \E h \in {"healthy", "refresh_required"} :
         health' = [health EXCEPT ![s] = h]
    /\ UNCHANGED top

\* A report raises the alarm of its own scope only.
Raise(s) ==
    /\ health[s] = "healthy"
    /\ health' = [health EXCEPT ![s] = "refresh_required"]
    /\ UNCHANGED <<top, pointer>>

\* Reports are withdrawn, by their reader or with its access, which may
\* concern several scopes at once.
Calm(scopes) ==
    /\ \A s \in scopes : health[s] = "refresh_required"
    /\ health' = [s \in Scope |-> IF s \in scopes THEN "healthy"
                                                  ELSE health[s]]
    /\ UNCHANGED <<top, pointer>>

StatusNext ==
    \/ \E s \in Scope : Publish(s) \/ Raise(s)
    \/ \E s \in Scope, n \in 1..MaxRevision : Return(s, n)
    \/ \E scopes \in SUBSET Scope : Calm(scopes)

StatusSpec == StatusInit /\ [][StatusNext]_statusVars
============================================================================
