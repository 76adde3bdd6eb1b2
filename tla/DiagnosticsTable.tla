-------------------------- MODULE DiagnosticsTable --------------------------
(***************************************************************************)
(* The broker's diagnostics (internal/broker/diagnostics.go, http.go,      *)
(* store.go): POST /v1/diagnostics/events validates, authorizes, inserts   *)
(* and prunes; GET pages through the rows by id.                           *)
(*                                                                         *)
(* An event is [scope, at, details]: the scope that its details name, its  *)
(* timestamp and what the broker tells apart of the details: how deep they *)
(* nest, whether their words and lists are in order, and their size.  Time *)
(* runs in half seconds.                                                   *)
(***************************************************************************)
EXTENDS Integers, FiniteSetsExt, SequencesExt

CONSTANTS
    Scope,                \* provider/profile pairs
    Grants,               \* sets of scopes that the publisher may be granted
    Installation,         \* ids of browser installations
    maxDiagnosticEvents,  \* events of a POST; 1000 in the code
    maxDiagnosticDepth,   \* nesting of details; 4
    maxDiagnosticsBytes,  \* body of a POST; 1 MiB, and 4 MiB unpacked
    RowsKept,             \* rows that pruning leaves; 10000
    Retention,            \* age of rows that pruning removes; 30 days
    Tolerance,            \* age of events that a POST may hold; 31 days
    Ahead,                \* how far they may be in the future; 5 minutes
    maxLimit,             \* largest page; 200
    defaultLimit          \* page when none, or a larger one, is asked for; 100

ASSUME TableAssumption ==
    /\ {maxDiagnosticEvents, maxDiagnosticDepth, maxDiagnosticsBytes, RowsKept,
        maxLimit, defaultLimit} \subseteq Nat \ {0}
    /\ Grants \subseteq SUBSET Scope
    /\ {Retention, Tolerance, Ahead} \subseteq Nat

VARIABLES
    diagnostics,  \* rows
    nextId,       \* AUTOINCREMENT
    publishes,    \* scopes that the publisher has been granted
    now           \* half seconds

tableVars == <<diagnostics, nextId, publishes, now>>

Row == [id : Nat, scope : Scope, installation_id : Installation, at : Int]

TableInit ==
    /\ diagnostics = {}
    /\ nextId = 1
    /\ publishes \in Grants
    /\ now = 0

----------------------------------------------------------------------------
(* POST /v1/diagnostics/events.                                            *)

\* Format(time.RFC3339Nano) drops trailing zeros, and columns compare as
\* text: ":05.5Z" is before ":05Z", for '.' is before 'Z'.
Text(t) == IF t % 2 = 0 THEN t + 1 ELSE t - 1

\* content: "plain" passes.  "secret" is what the extension's redaction
\* removes: a bearer token, a cookie header, a private key, a text that is too
\* long.  "kept" is what it leaves: a forbidden key, an "authorization:" or
\* "token=" whose value alone is replaced, a list of more than 500.
\* bytes: what they add to a body once they are redacted.
Details == [depth : Nat, content : {"plain", "secret", "kept"}, bytes : Nat]

validateDetails(details) ==
    /\ details.depth <= maxDiagnosticDepth
    /\ details.content = "plain"

ValidateDiagnostics(s, events) ==
    /\ Len(events) \in 1..maxDiagnosticEvents
    /\ \A e \in Range(events) :
         /\ e.at \in (now - Tolerance)..(now + Ahead)
         /\ e.scope = s
         /\ validateDetails(e.details)

\* Neither MaxBytesReader nor LimitReader cuts the body off.
BodyFits(events) ==
    MapThenSumSet(LAMBDA k : events[k].details.bytes, DOMAIN events)
        <= maxDiagnosticsBytes

\* Mutant: the most recently inserted rows are kept.
RankById(r, rows) == Cardinality({q \in rows : q.id > r.id})

\* Place of a row in ORDER BY timestamp DESC, id DESC.
Rank(r, rows) ==
    Cardinality({q \in rows : \/ Text(q.at) > Text(r.at)
                              \/ q.at = r.at /\ q.id > r.id})

Pruned(rows) ==
    {r \in rows : /\ Text(r.at) >= Text(now - Retention)
                  /\ Rank(r, rows) < RowsKept}

PutDiagnostics(s, i, events) ==
    LET inserted == {[id |-> nextId + k - 1, scope |-> s,
                      installation_id |-> i, at |-> events[k].at] :
                       k \in DOMAIN events}
    IN  /\ diagnostics' = Pruned(diagnostics \cup inserted)
        /\ nextId' = nextId + Len(events)
        /\ UNCHANGED <<publishes, now>>

\* The handler accepts: the body can be read, the payload is valid and the
\* publisher may write s.
Accepts(s, events) ==
    BodyFits(events) /\ ValidateDiagnostics(s, events) /\ s \in publishes

----------------------------------------------------------------------------
(* GET /v1/diagnostics/events.                                             *)

PageLength(limit) == IF limit \in 1..maxLimit THEN limit ELSE defaultLimit

\* Mutant: a page shows the latest events of those before the cursor.
LatestFirst(rows, limit) == {r \in rows : Rank(r, rows) < PageLength(limit)}

\* ORDER BY id DESC LIMIT.
FirstRows(rows, limit) ==
    {r \in rows : Cardinality({q \in rows : q.id > r.id}) < PageLength(limit)}

\* from, to and installation are sets of at most one value, empty when the
\* query does not filter; severity and event_type compare as installation_id.
Matching(s, installation, from, to) ==
    {r \in diagnostics :
       /\ r.scope = s
       /\ \A i \in installation : r.installation_id = i
       /\ \A t \in from : Text(r.at) >= Text(t)
       /\ \A t \in to : Text(r.at) <= Text(t)}

Diagnostics(rows, before, limit) ==
    FirstRows({r \in rows : before > 0 => r.id < before}, limit)

nextBeforeId(page) == IF page = {} THEN 0 ELSE Min({r.id : r \in page})

----------------------------------------------------------------------------
(* Correctness.                                                            *)

PagesCover(all) ==
    \A before \in 0..nextId, limit \in 0..(maxLimit + 1) :
      LET rows == {r \in all : before > 0 => r.id < before}
          page == Diagnostics(all, before, limit)
      IN  /\ page = {r \in rows : r.id >= nextBeforeId(page)}
          /\ page = {} => rows = {}

\* A reader of GET that follows next_before_id sees every matching row once: a
\* page (Store.Diagnostics) holds all the rows from the next cursor up to its
\* own, and only a query that is exhausted has an empty page.  When it asks
\* for a span of time, although from and to compare as text, no row of the
\* seconds between them is missing and none outside of them is shown.
QueriesAreExact ==
    \A s \in Scope :
      LET Second(a, b, i) == {r \in diagnostics : /\ r.scope = s
                                                  /\ r.installation_id = i
                                                  /\ r.at \div 2 \in a..b}
      IN  /\ PagesCover(Matching(s, {}, {}, {}))
          /\ \A i \in Installation, from, to \in 0..now :
               LET shown == Matching(s, {i}, {from}, {to})
               IN  /\ Second(from \div 2 + 1, to \div 2 - 1, i) \subseteq shown
                   /\ shown \subseteq Second(from \div 2, to \div 2, i)

\* Although rows are pruned by the order of text (PutDiagnostics), a row that
\* goes is past its retention, or the table is full of rows of its second or
\* later ones.
PruningDropsTheOldest ==
    [][\A r \in diagnostics \ diagnostics' :
         \/ r.at \div 2 <= (now - Retention) \div 2
         \/ /\ Cardinality(diagnostics') = RowsKept
            /\ \A q \in diagnostics' : q.at \div 2 >= r.at \div 2]_tableVars
=============================================================================
