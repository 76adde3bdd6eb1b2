----------------------------- MODULE BrokerApi -----------------------------
(***************************************************************************)
(* The HTTP handlers of the broker (internal/broker/http.go, auth.go) over *)
(* BrokerStore, statement by statement.  Handlers run concurrently but     *)
(* share the one SQLite connection that SetMaxOpenConns(1) allows; only    *)
(* Put keeps it across statements, for its transaction.  brokerctl is a    *)
(* process of its own on the same database and commits between any two     *)
(* statements of a handler.                                                *)
(*                                                                         *)
(* External, modelled from its use here: SQLite in WAL mode.  A statement  *)
(* is atomic.  A transaction that has read and then writes fails (BUSY)    *)
(* when another process committed in between.                              *)
(***************************************************************************)
EXTENDS BrokerStore

CONSTANTS
    Request,  \* slots for requests in flight
    Calls,    \* the requests that clients make
    NoHash,   \* no If-None-Match header; no content in a reply
    Free      \* the connection is in the pool

VARIABLES
    req,      \* requests in flight: handler step, input and local state
    reply,    \* the response written by the last step, if it wrote one
    conn,     \* who holds the connection across statements
    stale     \* another process committed since the transaction read

apiVars == <<storeVars, req, reply, conn, stale>>

Login == [user : User, password : Password]
PutCall == [op : {"put"}, login : Login, scope : Scope, hash : Hash,
            why : Reason]
GetCall == [op : {"get"}, login : Login, scope : Scope,
            etag : Hash \cup {NoHash}]
StatusCall == [op : {"status"}, login : Login, scope : Scope]
ReportCall == [op : {"report"}, login : Login, scope : Scope,
               revision : 1..MaxRevision, kind : Kind]
ListCall == [op : {"list"}, login : Login]
Call == PutCall \cup GetCall \cup StatusCall \cup ReportCall \cup ListCall

ASSUME CallAssumption == Calls \subseteq Call
ASSUME NoHashAssumption == NoHash \notin Hash
ASSUME FreeAssumption == Free \notin Request

NoCall == [op |-> "none"]
NoRow == [revision |-> 0, sha256 |-> NoHash]

\* A slot: pc is the next step; row is what Current or Put read (GET
\* /v1/status sends all rows and none is told apart); at is the
\* scope a status is read for; todo what GET /v1/status has still to look up.
Idle == [pc |-> "idle", call |-> NoCall, row |-> NoRow, at |-> {},
         todo |-> {}]

NoReply == [call |-> NoCall, code |-> 0, row |-> NoRow]

ApiInit ==
    /\ Init
    /\ req = [i \in Request |-> Idle]
    /\ reply = NoReply
    /\ conn = Free
    /\ stale = FALSE

----------------------------------------------------------------------------
(* Control of a handler.                                                   *)

Goto(i, label) ==
    /\ req' = [req EXCEPT ![i].pc = label]
    /\ reply' = NoReply

\* The handler goes on with the row it has read.
GotoWith(i, label, r) ==
    /\ req' = [req EXCEPT ![i].pc = label,
                          ![i].row = [revision |-> r.revision,
                                      sha256 |-> r.sha256]]
    /\ reply' = NoReply

\* The handler writes its response and returns.
Respond(i, code, r) ==
    /\ req' = [req EXCEPT ![i] = Idle]
    /\ reply' = [call |-> req[i].call, code |-> code, row |-> r]

Problem(i, code) == Respond(i, code, NoRow)

\* One statement outside a transaction: it needs the connection and gives it
\* back before the handler goes on.
Statement(i, label) ==
    /\ req[i].pc = label
    /\ conn = Free
    /\ UNCHANGED <<conn, stale>>

Arrive(i, c) ==
    /\ req[i] = Idle
    /\ req' = [req EXCEPT ![i].pc = "auth", ![i].call = c,
                          ![i].at = IF c.op = "list" THEN {} ELSE {c.scope}]
    /\ reply' = NoReply
    /\ UNCHANGED <<storeVars, conn, stale>>

\* authorized and AuthenticateRole; status tries the reader role first.
Authorized(c) ==
    LET u == c.login.user
        pw == c.login.password
    IN  CASE c.op = "put" -> Authenticate(u, pw, "publisher", c.scope)
          [] c.op = "list" -> AuthenticateRole(u, pw, "publisher")
          [] OTHER -> Authenticate(u, pw, "reader", c.scope)

FirstStep(c) ==
    CASE c.op = "put" -> "select"
      [] c.op = "list" -> "scopes"
      [] c.op = "report" -> "count"
      [] OTHER -> "current"

Authorize(i) ==
    LET c == req[i].call IN
    /\ Statement(i, "auth")
    /\ \/ Authorized(c) /\ Goto(i, FirstStep(c))
       \/ ~Authorized(c) /\ c.op = "status" /\ Goto(i, "auth2")
       \/ ~Authorized(c) /\ c.op # "status" /\ Problem(i, 401)
    /\ UNCHANGED storeVars

AuthorizePublisher(i) ==
    LET c == req[i].call IN
    /\ Statement(i, "auth2")
    /\ IF Authenticate(c.login.user, c.login.password, "publisher", c.scope)
       THEN Goto(i, "current") ELSE Problem(i, 401)
    /\ UNCHANGED storeVars

----------------------------------------------------------------------------
(* PUT cookies: Store.Put.                                                 *)

\* Mutant: enrichStatus runs before COMMIT, which still has the connection.
PutSameInTx(i) ==
    LET c == req[i].call IN
    /\ req[i].pc = "select"
    /\ conn = Free
    /\ Deduplicated(c.scope, c.hash, c.why)
    /\ \E r \in CurrentRow(c.scope) : GotoWith(i, "enrich", r)
    /\ conn' = i
    /\ UNCHANGED <<storeVars, stale>>

\* BEGIN and the SELECT of the current row find the cookies current already:
\* COMMIT, and only then enrichStatus on the freed connection.
PutSame(i) ==
    LET c == req[i].call IN
    /\ Statement(i, "select")
    /\ Deduplicated(c.scope, c.hash, c.why)
    /\ \E r \in CurrentRow(c.scope) : GotoWith(i, "enrich", r)
    /\ UNCHANGED storeVars

\* BEGIN and the two SELECTs, which read one snapshot.  What they decide,
\* that a revision is due and its number, is carried to the writes.
PutBegin(i) ==
    LET c == req[i].call IN
    /\ req[i].pc = "select"
    /\ conn = Free
    /\ ~Deduplicated(c.scope, c.hash, c.why)
    /\ GotoWith(i, "write", [revision |-> NextRevision(c.scope),
                             sha256 |-> c.hash])
    /\ conn' = i
    /\ stale' = FALSE
    /\ UNCHANGED storeVars

\* Mutant: the writes do not run in the transaction of the SELECTs.
PutWriteLate(i) ==
    LET c == req[i].call
        r == req[i].row
    IN  /\ req[i].pc = "write"
        /\ InsertRevision(c.scope, r.revision, c.hash, c.why)
        /\ Respond(i, 201, r)
        /\ conn' = Free
        /\ stale' = FALSE

\* The INSERT takes the write lock, so the rest up to COMMIT is one step.
\* Nothing is looked up again.
PutWrite(i) ==
    LET c == req[i].call
        r == req[i].row
    IN  /\ req[i].pc = "write"
        /\ ~stale
        /\ InsertRevision(c.scope, r.revision, c.hash, c.why)
        /\ Respond(i, 201, r)
        /\ conn' = Free
        /\ UNCHANGED stale

\* The upgrade to a write transaction fails, or there is no room left (the
\* bound MaxRevision stands for a full database): rollback and 500.
PutFail(i) ==
    /\ req[i].pc = "write"
    /\ stale \/ req[i].row.revision > MaxRevision
    /\ Problem(i, 500)
    /\ conn' = Free
    /\ stale' = FALSE
    /\ UNCHANGED storeVars

----------------------------------------------------------------------------
(* Store.Current and enrichStatus, shared by GET cookies.txt, the two      *)
(* status endpoints and the end of an unchanged PUT.                       *)

ReadCurrent(i) ==
    /\ Statement(i, "current")
    /\ \E s \in req[i].at :
         \/ \E r \in CurrentRow(s) :
              IF req[i].call.op = "list" THEN Goto(i, "enrich")
              ELSE GotoWith(i, "enrich", r)
         \/ /\ CurrentRow(s) = {}
            /\ IF req[i].call.op = "list" THEN Goto(i, "listing")
               ELSE Problem(i, 404)
    /\ UNCHANGED storeVars

Enrich(i) ==
    /\ Statement(i, "enrich")
    /\ CASE req[i].call.op = "get" -> Goto(i, "seen")
         [] req[i].call.op = "list" -> Goto(i, "listing")
         [] OTHER -> Respond(i, 200, req[i].row)
    /\ UNCHANGED storeVars

\* Mutant: the content is read again when the response is written.
RecordSeenReread(i) ==
    LET c == req[i].call
        r == req[i].row
    IN  /\ Statement(i, "seen")
        /\ RecordConsumerSeen(c.login.user, c.scope, r.revision)
        /\ \E q \in CurrentRow(c.scope) :
             Respond(i, 200, [revision |-> r.revision, sha256 |-> q.sha256])

\* The end of getCookies: 304 compares the content, not the revision.
RecordSeen(i) ==
    LET c == req[i].call
        r == req[i].row
    IN  /\ Statement(i, "seen")
        /\ RecordConsumerSeen(c.login.user, c.scope, r.revision)
        /\ Respond(i, IF c.etag = r.sha256 THEN 304 ELSE 200, r)

\* The user was deleted meanwhile: the foreign key refuses the row.
RecordSeenFail(i) ==
    /\ Statement(i, "seen")
    /\ users[req[i].call.login.user] = NoUser
    /\ Problem(i, 500)
    /\ UNCHANGED storeVars

----------------------------------------------------------------------------
(* GET /v1/status.                                                         *)

\* Mutant: the rows of user_scopes instead of their scopes.
ListGrants(i) ==
    LET mine == {g \in user_scopes : g.username = req[i].call.login.user} IN
    /\ Statement(i, "scopes")
    /\ req' = [req EXCEPT ![i].pc = "listing", ![i].todo = mine]
    /\ reply' = NoReply
    /\ UNCHANGED storeVars

ListScopes(i) ==
    LET mine == {g \in user_scopes : g.username = req[i].call.login.user} IN
    /\ Statement(i, "scopes")
    /\ req' = [req EXCEPT ![i].pc = "listing",
                          ![i].todo = {g.scope : g \in mine}]
    /\ reply' = NoReply
    /\ UNCHANGED storeVars

\* The loop of StatusesForScopes, in any order of the scopes.
ListNext(i) ==
    /\ req[i].pc = "listing"
    /\ \/ \E s \in req[i].todo :
            /\ req' = [req EXCEPT ![i].pc = "current", ![i].at = {s},
                                  ![i].todo = @ \ {s}]
            /\ reply' = NoReply
       \/ req[i].todo = {} /\ Respond(i, 200, NoRow)
    /\ UNCHANGED <<storeVars, conn, stale>>

----------------------------------------------------------------------------
(* POST reports: Store.PutHealthReport, two statements.  The reads of the  *)
(* status before and after it only feed a log line.                        *)

ReportCount(i) ==
    LET c == req[i].call IN
    /\ Statement(i, "count")
    /\ IF HasRevision(c.scope, c.revision)
       THEN Goto(i, "insert") ELSE Problem(i, 422)
    /\ UNCHANGED storeVars

\* The INSERT selects the reader's grant anew.
ReportInsert(i) ==
    LET c == req[i].call IN
    /\ Statement(i, "insert")
    /\ PutHealthReport(c.login.user, c.scope, c.revision, c.kind)
    /\ Respond(i, 200, NoRow)

\* It finds no grant, or the foreign key finds the revision pruned.
ReportRefused(i) ==
    LET c == req[i].call IN
    /\ Statement(i, "insert")
    /\ \/ users[c.login.user].role # "reader"
       \/ GrantOf(c.login.user, c.scope) = {}
       \/ ~HasRevision(c.scope, c.revision)
    /\ Problem(i, 422)
    /\ UNCHANGED storeVars

----------------------------------------------------------------------------
(* Failures and the other process.                                         *)

\* Mutant: the deferred Rollback is missing.
AbortHolding(i) ==
    /\ req[i] # Idle
    /\ req' = [req EXCEPT ![i] = Idle]
    /\ reply' = NoReply
    /\ UNCHANGED <<storeVars, conn, stale>>

\* The client goes away: the request's context is cancelled and an open
\* transaction is rolled back.
Abort(i) ==
    /\ req[i] # Idle
    /\ req' = [req EXCEPT ![i] = Idle]
    /\ reply' = NoReply
    /\ conn' = IF conn = i THEN Free ELSE conn
    /\ stale' = (stale /\ conn # i)
    /\ UNCHANGED storeVars

\* The broker stops and starts again: SQLite drops what was not committed.
Restart ==
    /\ \E i \in Request : req[i] # Idle
    /\ req' = [i \in Request |-> Idle]
    /\ reply' = NoReply
    /\ conn' = Free
    /\ stale' = FALSE
    /\ UNCHANGED storeVars

\* brokerctl commits; a transaction that has already read is now too old.
Brokerctl ==
    /\ AdminNext
    /\ stale' = (conn # Free)
    /\ reply' = NoReply
    /\ UNCHANGED <<req, conn>>

----------------------------------------------------------------------------
Handle(i) ==
    \/ Authorize(i) \/ AuthorizePublisher(i)
    \/ PutSame(i) \/ PutBegin(i) \/ PutWrite(i) \/ PutFail(i)
    \/ ReadCurrent(i) \/ Enrich(i) \/ RecordSeen(i) \/ RecordSeenFail(i)
    \/ ListScopes(i) \/ ListNext(i)
    \/ ReportCount(i) \/ ReportInsert(i) \/ ReportRefused(i)

ApiNext ==
    \/ \E i \in Request : Handle(i) \/ Abort(i) \/ \E c \in Calls : Arrive(i, c)
    \/ Restart
    \/ Brokerctl

ApiSpec == ApiInit /\ [][ApiNext]_apiVars

\* database/sql hands the connection to a waiting goroutine whenever it is
\* freed, so a statement that can run again and again is run at last.
FairApiSpec == ApiSpec /\ \A i \in Request : SF_apiVars(Handle(i))

----------------------------------------------------------------------------
(* Properties.                                                             *)

Label == {"idle", "auth", "auth2", "select", "write", "current", "enrich",
          "seen", "scopes", "listing", "count", "insert"}

Row == [revision : Nat, sha256 : Hash] \cup {NoRow}
Code == {0, 200, 201, 304, 401, 404, 422, 500}

\* Shapes of the handlers' state.
ApiTypeOK ==
    /\ TypeOK
    /\ req \in [Request ->
         [pc : Label, call : Calls \cup {NoCall}, row : Row,
          at : SUBSET Scope, todo : SUBSET Scope]]
    /\ reply \in [call : Calls \cup {NoCall}, code : Code, row : Row]
    /\ conn \in Request \cup {Free}
    /\ stale \in BOOLEAN

\* The connection is held by exactly the request that is inside Put's write
\* transaction: no early return, abort or restart leaks it.
ConnectionOwner ==
    \A i \in Request : conn = i <=> req[i].pc = "write"

\* The handlers together behave like the store whose operations are atomic,
\* although each of them spreads its reads and writes over several statements
\* with other requests, brokerctl, aborts and restarts in between.  A PUT
\* writes what its SELECTs decided: the revision must still be due, and its
\* number the next one, when a rollback or other handlers came in between.
ImplementsStore == Spec

\* Every request comes to its end, so each slot is idle again and again: no
\* handler waits for ever for the only connection, none while it holds it.
RequestsEnd == \A i \in Request : []<>(req[i] = Idle)

\* Revision and content in one answer belong together (ETag, X-Cookie-Revision
\* and body of a GET; revision and sha256 of a PUT), and a publisher that is
\* told 200 or 201 sent exactly the cookies stored under that revision.
AnswerWasPublished ==
    reply.row # NoRow =>
        /\ [scope |-> reply.call.scope, revision |-> reply.row.revision,
            sha256 |-> reply.row.sha256] \in published
        /\ reply.call.op = "put" => reply.row.sha256 = reply.call.hash
============================================================================
