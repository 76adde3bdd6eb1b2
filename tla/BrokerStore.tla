---------------------------- MODULE BrokerStore ----------------------------
(***************************************************************************)
(* The broker's SQLite store (internal/broker/store.go, health.go,         *)
(* users.go): cookie revisions and the pointer to the current one, broker  *)
(* users with their grants, and the health reports of consumers.  Every    *)
(* action is one committed transaction or single statement; what happens   *)
(* between the statements of a request is BrokerApi's subject.             *)
(*                                                                         *)
(* A scope is a (provider, profile) pair.  A cookie set is known by its    *)
(* sha256 only: the store never looks inside it.                           *)
(***************************************************************************)
EXTENDS Integers, FiniteSets, FiniteSetsExt

CONSTANTS
    Scope,          \* provider/profile pairs
    User,           \* user names
    Password,       \* passwords a user may be given
    Hash,           \* sha256 of the cookie sets that get published
    Kind,           \* report kinds that consumers send
    RevisionsKept,  \* LIMIT of the pruning DELETE; 5 in the code
    MaxRevision,    \* bound: no scope gets more revisions than this
    MaxGrant        \* bound: no more grants than this are ever made

Role == {"publisher", "reader", "diagnostics_reader"}
Reason == {"ordinary", "recovery"}
ReportKind == {"ok", "authentication_required", "access_denied",
               "rate_limited", "unknown_failure"}

ASSUME KindAssumption == Kind \subseteq ReportKind
ASSUME KeptAssumption == RevisionsKept \in Nat \ {0}
ASSUME BoundAssumption == MaxRevision \in Nat /\ MaxGrant \in Nat

VARIABLES
    revisions,       \* table revisions: a set of rows
    current,         \* table current_revisions: 0 where a scope has no row
    users,           \* table users: NoUser where there is no row
    user_scopes,     \* table user_scopes: a set of grants
    nextGrant,       \* AUTOINCREMENT sequence of user_scopes.grant_id
    consumer_state,  \* table consumer_state: revision_seen, 0 for no row
    reports,         \* table consumer_reports: a set of rows
    published        \* history: every (scope, revision, sha256) ever stored

storeVars == <<revisions, current, users, user_scopes, nextGrant,
               consumer_state, reports, published>>

NoUser == [role |-> "none", password |-> "none"]

Revision == [scope : Scope, revision : Nat, sha256 : Hash, reason : Reason]
Grants == [username : User, scope : Scope, grant_id : Nat]
Report == [scope : Scope, revision : Nat, username : User, kind : ReportKind,
           grant_id : Nat]
Publication == [scope : Scope, revision : Nat, sha256 : Hash]
Account == [role : Role, password : Password] \cup {NoUser}

Init ==
    /\ revisions = {}
    /\ current = [s \in Scope |-> 0]
    /\ users = [u \in User |-> NoUser]
    /\ user_scopes = {}
    /\ nextGrant = 1
    /\ consumer_state = [u \in User |-> [s \in Scope |-> 0]]
    /\ reports = {}
    /\ published = {}

----------------------------------------------------------------------------
(* Queries.                                                                *)

RowsOf(s) == {r \in revisions : r.scope = s}
History(s) == {p \in published : p.scope = s}
Numbers(rows) == {r.revision : r \in rows}

\* Mutant: the existence check of the revision is dropped.
AnyRevision(s, n) == n \in Nat

HasRevision(s, n) == n \in Numbers(RowsOf(s))

\* The join of revisions and current_revisions: at most one row.
CurrentRow(s) == {r \in RowsOf(s) : r.revision = current[s]}

\* Mutant: numbers follow the count of rows, which pruning lowers.
CountRevision(s) == Cardinality(RowsOf(s)) + 1

\* COALESCE(MAX(revision),0)+1
NextRevision(s) == Max({0} \cup Numbers(RowsOf(s))) + 1

\* Mutant: one row too many survives.
NewestAndOneMore(rows) ==
    {r \in rows :
        Cardinality({n \in Numbers(rows) : n > r.revision}) <= RevisionsKept}

\* ORDER BY revision DESC LIMIT 5
Newest(rows) ==
    {r \in rows :
        Cardinality({n \in Numbers(rows) : n > r.revision}) < RevisionsKept}

\* Grants of user u for scope s: none or one, by the UNIQUE constraint.
GrantOf(u, s) == {g \in user_scopes : g.username = u /\ g.scope = s}

\* The row userPasswordHash selects exists and VerifyPassword accepts.
Authenticate(u, pw, role, s) ==
    /\ users[u] = [role |-> role, password |-> pw]
    /\ GrantOf(u, s) # {}

AuthenticateRole(u, pw, role) == users[u] = [role |-> role, password |-> pw]

\* The reports that count: filed by a reader under the grant it still holds.
ActiveReports(s, n) ==
    {p \in reports :
        /\ p.scope = s /\ p.revision = n
        /\ users[p.username].role = "reader"
        /\ \E g \in GrantOf(p.username, s) : g.grant_id = p.grant_id}

AuthHealth(s, n) ==
    IF \E p \in ActiveReports(s, n) : p.kind = "authentication_required"
    THEN "refresh_required" ELSE "healthy"

\* What the status endpoints say about a scope.
Health(s) ==
    IF CurrentRow(s) = {} THEN "missing" ELSE AuthHealth(s, current[s])

----------------------------------------------------------------------------
(* Publications and the pointer to the current revision.                   *)

\* Put finds the cookie set it was given already current.
Deduplicated(s, h, why) ==
    /\ why # "recovery"
    /\ \E r \in CurrentRow(s) : r.sha256 = h

PutUnchanged(s, h, why) ==
    /\ Deduplicated(s, h, why)
    /\ UNCHANGED storeVars

\* Mutant: ON CONFLICT DO NOTHING, the pointer moves only the first time.
PointOnce(s, n) == [current EXCEPT ![s] = IF current[s] = 0 THEN n ELSE @]

\* INSERT INTO current_revisions .. ON CONFLICT DO UPDATE
PointTo(s, n) == [current EXCEPT ![s] = n]

\* Store revision n, make it current and prune; the reports of pruned
\* revisions go with them (ON DELETE CASCADE).
InsertRevision(s, n, h, why) ==
    LET row == [scope |-> s, revision |-> n, sha256 |-> h, reason |-> why]
        rows == RowsOf(s) \cup {row}
        pruned == rows \ Newest(rows)
    IN  /\ n <= MaxRevision
        /\ revisions' = (revisions \cup {row}) \ pruned
        /\ current' = PointTo(s, n)
        /\ reports' = {p \in reports :
                          ~(p.scope = s /\ p.revision \in Numbers(pruned))}
        /\ published' = published \cup
             {[scope |-> s, revision |-> n, sha256 |-> h]}
        /\ UNCHANGED <<users, user_scopes, nextGrant, consumer_state>>

PutRevision(s, h, why) ==
    /\ ~Deduplicated(s, h, why)
    /\ InsertRevision(s, NextRevision(s), h, why)

Put(s, h, why) == PutUnchanged(s, h, why) \/ PutRevision(s, h, why)

\* An UPDATE: it needs an existing pointer and an existing revision.
Rollback(s, n) ==
    /\ current[s] # 0
    /\ HasRevision(s, n)
    /\ current' = [current EXCEPT ![s] = n]
    /\ UNCHANGED <<revisions, users, user_scopes, nextGrant, consumer_state,
                   reports, published>>

----------------------------------------------------------------------------
(* Users and grants.                                                       *)

\* Mutant: a rowid without AUTOINCREMENT, free again once deleted.
ReusedGrant(u, s) ==
    [username |-> u, scope |-> s,
     grant_id |-> Max({0} \cup {g.grant_id : g \in user_scopes}) + 1]

NewGrant(u, s) == [username |-> u, scope |-> s, grant_id |-> nextGrant]

CreateUser(u, pw, role, s) ==
    /\ users[u] = NoUser
    /\ nextGrant <= MaxGrant
    /\ users' = [users EXCEPT ![u] = [role |-> role, password |-> pw]]
    /\ user_scopes' = user_scopes \cup {NewGrant(u, s)}
    /\ nextGrant' = nextGrant + 1
    /\ UNCHANGED <<revisions, current, consumer_state, reports, published>>

\* Mutant: foreign keys are not enforced on this connection.
DeleteUserRow(u) ==
    /\ users[u] # NoUser
    /\ users' = [users EXCEPT ![u] = NoUser]
    /\ UNCHANGED <<revisions, current, user_scopes, nextGrant,
                   consumer_state, reports, published>>

\* Grants, consumer state and reports of the user are deleted in cascade.
DeleteUser(u) ==
    /\ users[u] # NoUser
    /\ users' = [users EXCEPT ![u] = NoUser]
    /\ user_scopes' = {g \in user_scopes : g.username # u}
    /\ consumer_state' = [consumer_state EXCEPT ![u] = [s \in Scope |-> 0]]
    /\ reports' = {p \in reports : p.username # u}
    /\ UNCHANGED <<revisions, current, nextGrant, published>>

\* Mutant: an upsert instead of an update.
UpsertPassword(u, pw) ==
    /\ users' = [users EXCEPT ![u] = [role |-> users[u].role, password |-> pw]]
    /\ UNCHANGED <<revisions, current, user_scopes, nextGrant,
                   consumer_state, reports, published>>

ChangePassword(u, pw) ==
    /\ users[u] # NoUser
    /\ users' = [users EXCEPT ![u] = [role |-> users[u].role, password |-> pw]]
    /\ UNCHANGED <<revisions, current, user_scopes, nextGrant,
                   consumer_state, reports, published>>

\* ON CONFLICT DO NOTHING: a second grant of the same scope is an error.
Grant(u, s) ==
    /\ users[u] # NoUser
    /\ GrantOf(u, s) = {}
    /\ nextGrant <= MaxGrant
    /\ user_scopes' = user_scopes \cup {NewGrant(u, s)}
    /\ nextGrant' = nextGrant + 1
    /\ UNCHANGED <<revisions, current, users, consumer_state, reports,
                   published>>

\* Reports and consumer state of the user stay.
Revoke(u, s) ==
    /\ GrantOf(u, s) # {}
    /\ user_scopes' = user_scopes \ GrantOf(u, s)
    /\ UNCHANGED <<revisions, current, users, nextGrant, consumer_state,
                   reports, published>>

----------------------------------------------------------------------------
(* What consumers leave behind.                                            *)

\* Upsert of the revision a GET served; the foreign key needs the user.
RecordConsumerSeen(u, s, n) ==
    /\ users[u] # NoUser
    /\ consumer_state' = [consumer_state EXCEPT ![u][s] = n]
    /\ UNCHANGED <<revisions, current, users, user_scopes, nextGrant, reports,
                   published>>

\* Mutant: one report per revision, whoever sends it.
SameRevision(p, u, s, n) == p.scope = s /\ p.revision = n

\* The primary key of consumer_reports, on which the upsert conflicts.
SameReport(p, u, s, n) ==
    p.scope = s /\ p.revision = n /\ p.username = u

\* INSERT .. SELECT from users and user_scopes, ON CONFLICT DO UPDATE.
PutHealthReport(u, s, n, kind) ==
    /\ HasRevision(s, n)
    /\ users[u].role = "reader"
    /\ \E g \in GrantOf(u, s) :
         reports' = {p \in reports : ~SameReport(p, u, s, n)}
                    \cup {[scope |-> s, revision |-> n, username |-> u,
                           kind |-> kind, grant_id |-> g.grant_id]}
    /\ UNCHANGED <<revisions, current, users, user_scopes, nextGrant,
                   consumer_state, published>>

----------------------------------------------------------------------------
PublisherNext == \E s \in Scope, h \in Hash, why \in Reason : Put(s, h, why)

AdminNext ==
    \/ \E s \in Scope, n \in 1..MaxRevision : Rollback(s, n)
    \/ \E u \in User, pw \in Password, role \in Role, s \in Scope :
          CreateUser(u, pw, role, s)
    \/ \E u \in User : DeleteUser(u)
    \/ \E u \in User, pw \in Password : ChangePassword(u, pw)
    \/ \E u \in User, s \in Scope : Grant(u, s)
    \/ \E u \in User, s \in Scope : Revoke(u, s)

ConsumerNext ==
    \/ \E u \in User, s \in Scope : \E n \in Numbers(History(s)) :
          RecordConsumerSeen(u, s, n)
    \/ \E u \in User, s \in Scope, n \in 1..MaxRevision, kind \in Kind :
          PutHealthReport(u, s, n, kind)

Next == PublisherNext \/ AdminNext \/ ConsumerNext

Spec == Init /\ [][Next]_storeVars

----------------------------------------------------------------------------
(* Properties.                                                             *)

\* Every table holds rows of its own shape.
TypeOK ==
    /\ revisions \subseteq Revision
    /\ current \in [Scope -> Nat]
    /\ users \in [User -> Account]
    /\ user_scopes \subseteq Grants
    /\ nextGrant \in Nat
    /\ consumer_state \in [User -> [Scope -> Nat]]
    /\ reports \subseteq Report
    /\ published \subseteq Publication

\* First revision that is kept when hi have been published.
OldestKept(hi) == IF hi < RevisionsKept THEN 1 ELSE hi - RevisionsKept + 1

\* Whatever publications and rollbacks happened, the revisions of a scope were
\* numbered 1, 2, 3, ... without a gap, and the rows Put's pruning leaves are
\* exactly the newest RevisionsKept of them.
RetentionWindow ==
    \A s \in Scope : \E hi \in 0..MaxRevision :
        /\ Numbers(History(s)) = 1..hi
        /\ Numbers(RowsOf(s)) = OldestKept(hi)..hi

\* Once something was published for a scope, its pointer names exactly one
\* stored row: pruning after a rollback never deletes the revision that
\* consumers are being served.
CurrentRetained ==
    \A s \in Scope :
        IF History(s) = {} THEN current[s] = 0
        ELSE \E r \in revisions : CurrentRow(s) = {r}

\* A revision number means one cookie set for ever: consumers and reports may
\* refer to a revision by its number although Put recomputes MAX(revision)+1
\* over a table it prunes and rollbacks move the pointer back.
RevisionNamesOneContent ==
    /\ \A p, q \in published :
          p.scope = q.scope /\ p.revision = q.revision => p.sha256 = q.sha256
    /\ \A r \in revisions :
          [scope |-> r.scope, revision |-> r.revision, sha256 |-> r.sha256]
             \in published

\* Deleting users and pruning revisions leaves no orphan: every report is
\* about a stored revision and by an existing user, every grant and every
\* consumer_state row belongs to an existing user.
NoOrphans ==
    /\ \A p \in reports :
          HasRevision(p.scope, p.revision) /\ users[p.username] # NoUser
    /\ \A g \in user_scopes : users[g.username] # NoUser
    /\ \A u \in User, s \in Scope :
          consumer_state[u][s] # 0 => users[u] # NoUser

Alarm(s) == Health(s) = "refresh_required"

\* A step that turns a scope to refresh_required either files an
\* authentication_required report on the revision that is current, or rolls
\* the pointer back to a revision that had been reported.  In particular no
\* change of users and grants does: a report filed under a revoked grant, or
\* by a deleted user, never counts again when access is given back, because
\* grant ids are never reused.
AlarmHasCause ==
    [][\A s \in Scope : ~Alarm(s) /\ Alarm(s)' =>
         \/ current[s]' # current[s] /\ published' = published
         \/ \E p \in reports' \ reports :
               /\ p.scope = s /\ p.revision = current[s]
               /\ p.kind = "authentication_required"]_storeVars

\* The other direction: while the pointer stays, each report that raised the
\* alarm is withdrawn by its own reader (a newer report of the same revision)
\* or goes because that reader lost its access.  No reader clears the alarm
\* of another one.
AlarmClearedByItsReader ==
    [][\A s \in Scope : Alarm(s) /\ ~Alarm(s)' /\ current[s]' = current[s] =>
         \A p \in ActiveReports(s, current[s]) :
            p.kind = "authentication_required" =>
              \/ GrantOf(p.username, s)' # GrantOf(p.username, s)
              \/ \E q \in reports' \ reports :
                    /\ q.scope = s /\ q.revision = p.revision
                    /\ q.username = p.username]_storeVars

\* Put answers auth_health "healthy" for a new revision without looking: no
\* report can have been waiting for the number it is given.
FreshRevisionIsHealthy ==
    [][\A s \in Scope :
         History(s)' # History(s) => Health(s)' = "healthy"]_storeVars

Status == INSTANCE BrokerStatus WITH
    top <- [s \in Scope |-> Max({0} \cup Numbers(History(s)))],
    pointer <- current,
    health <- [s \in Scope |-> Health(s)]

\* What can be observed at the status endpoints follows BrokerStatus: each
\* publication takes the next number and starts healthy, a rollback stays
\* within the revisions kept, one report raises the alarm of one scope, and
\* whatever else happens to users and grants only ever ends alarms.
ShowsStatus == Status!StatusSpec
============================================================================
