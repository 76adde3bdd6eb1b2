# Verification of media-cookie-broker

TLA+ models of the cookie broker, TLC runs that check them on small instances
and TLAPS proofs of their safety properties for instances of every size.

## The system

A browser extension captures the cookies of a media provider and publishes them
to a broker; downloaders on consumer hosts receive them as `cookies.txt` files
and report when they no longer authenticate.  A *scope* is a pair of provider
and profile (`youtube/default`); everything is kept per scope.

| part | state | operations |
|---|---|---|
| revision store (`internal/broker/store.go`) | tables `revisions`, `current_revisions` | `Put`, `Current`, `Rollback` |
| users and grants (`users.go`) | `users`, `user_scopes` | `CreateUser`, `DeleteUser`, `ChangePassword`, `Grant`, `Revoke` |
| consumer health (`health.go`) | `consumer_state`, `consumer_reports` | `RecordConsumerSeen`, `PutHealthReport`, `enrichStatus` |
| HTTP API (`http.go`, `auth.go`) | requests in flight, the one database connection | PUT cookies, GET cookies.txt, GET status (one scope, all scopes), POST reports, diagnostics |
| `brokerctl` | none: a second process on the same database | `rollback`, `user add/delete/passwd/grant/revoke` |
| `cookie-sync` daemon (`cmd/cookie-sync`) | cookie file, sidecar, combined jar; content, sidecar bytes and ETag in memory | one round per tick: fetch every target, rebuild the jar |
| `cookie-sync report` | none: a short-lived process on the same files | read file and sidecar, compare, POST a report |
| extension (`extension/*.js`) | `chrome.storage.local`: sync status, recovery contexts, poll state, diagnostic batches | upload with retries, recovery windows, status poll and notifications, diagnostics upload |
| diagnostics table (`diagnostics.go`, `store.go`) | table `diagnostics` | `PutDiagnostics` with pruning, `Diagnostics` with filters and cursor |
| upload validation (`validate.go`) | none | `ValidateUpload`, `AuthExpiry` |
| `mcb`, installers | see "What is not modelled" | |

The extension calls the API; the API calls the store over a pool of **one**
connection (`SetMaxOpenConns(1)`); `brokerctl` writes to the same database
from outside; the daemon and the report command call the API and share two
files per target that are replaced one at a time.

What is hard here: handlers of several statements interleave with each other
and with `brokerctl`; one connection for all of them; a pointer, a pruned table
and a number computed from that table that must stay consistent through
rollbacks; reports that must count exactly while their sender has access; two
files that are never updated together, with crashes and foreign writers in
between; a 304 that says nothing about the local disk; uploads that overlap, are
retried and arrive late; timestamps that are compared as text; a service worker whose
handlers overlap at every `await`, read whole maps from storage and write them
back, and which the browser may stop at any time.  The section `hazards`
of `PROJECT.json` lists each place in the code with the property that guards it.

## Modules

| module | models |
|---|---|
| `BrokerStore` | the database; every action one committed transaction or statement |
| `BrokerApi` | the handlers over `BrokerStore`, statement by statement |
| `CookieSync` | a consumer host against `BrokerStore` |
| `BrokerStatus` | what the broker promises to those who watch its status: the abstract specification of `BrokerStore`, and the broker of `StatusPoll` |
| `StatusPoll` | the extension's polls, notifications and uploads |
| `Recovery` | the extension's recovery windows and their records |
| `Publishing` | a publication from end to end: the browser's cookies, `upload()`, an unreliable network, `ValidateUpload` and `BrokerStore` |
| `DiagnosticsTable` | the broker's diagnostics: what it accepts, keeps and shows |
| `ExtDiagnostics` | the extension's history of events and its upload to `DiagnosticsTable` |
| `MC*` | model values and symmetry for TLC |
| `*Proofs` | the theorems |
| `OrderLemmas` | lemmas that several proofs share: least elements, ranks, and the first n of a finite ordered set |

### BrokerStore

A table is a set of rows, or a function where the primary key is total over
the constants (`current`, `users`, `consumer_state`; 0 and `NoUser` stand for a
missing row).  A cookie set is known by its sha256: the store compares nothing
else.  `PutRevision` is the whole transaction: the comparison with the current
cookies and `MAX+1`, and then `InsertRevision`: the insert, the upsert of the
pointer, the pruning delete, and the cascade that deletes the reports of pruned
revisions.  `Rollback` is one `UPDATE` with an `EXISTS`.  `DeleteUser`
includes the cascades of the schema; `Revoke` deletes the grant and leaves
reports and consumer state where they are, as the code does.  `grant_id` comes
from an `AUTOINCREMENT` sequence (`nextGrant`).  `published` is a history
variable with everything ever stored; no guard reads it except the choice of
the revision that a GET may record.

`Health(s)` is what `enrichStatus` and `StatusesForScopes` answer: `missing`,
`healthy`, or `refresh_required` when an active report says
`authentication_required`.  A report is active while its sender is a reader and
holds the grant under which it was filed.

Left out: encryption, captured and created times, `updated_at`, cookie counts,
expiry hints, `publication_reason` beyond its effect on deduplication.  A scope
and a user name are taken as valid; the code refuses others before any
statement.  Initial grants: the command line of `user add` gives exactly one.

### BrokerApi

A request is a slot with a program counter, its input, the row it has read and
the scopes it still has to look up.  A statement outside a transaction needs
the free connection and gives it back (`Statement`); only `Put` keeps it, from
`PutBegin` to `PutWrite` or `PutFail`.  `PutBegin` is its SELECTs: it decides
that the cookies are new, and for which number; `PutWrite` does what was decided,
without asking again.  `Put` that finds the cookies current
commits and then takes the connection again for `enrichStatus`, as `PutSame`
followed by `Enrich`.  The two queries of `enrichStatus` are one step, since
nothing the model keeps depends on them.  `Current` before and after a report
only feeds a log line and is left out, as are requests refused for their syntax.

`Brokerctl` is any administrative operation, at any time: it does not wait for
the broker's connection.  SQLite is external and modelled from its use: a
statement is atomic; a transaction that has read fails to become a writer when
somebody else has committed since (`stale`, then `PutFail` answers 500).
`Grant` and `Revoke` end with a second commit that only sets `updated_at`;
its effect on an open `Put` would be the same failure.

`Abort` is a client that goes away: the context is cancelled and the deferred
`Rollback` frees the connection.  It also stands for any other storage error,
whose answer is 500 and whose effect is nothing.  `Restart` is the end of the
process with requests in flight.

`ImplementsStore == Spec`: the variables of the store are those of
`BrokerStore` itself, so the refinement mapping is the identity and the
property says that every handler step is one atomic store operation or changes
nothing of the store.  It is not so by construction for a PUT: the store's
`PutRevision` compares and numbers in the state in which it writes, the handler in
an earlier one, and `brokerctl` may have moved the pointer in between.

### CookieSync

The daemon is a program counter (`daemon.pc`), the target it works on and the
response in hand.  `Request` is the GET (one step of the broker, justified by
`BrokerApi`), and its answer is acted on later, when the broker may have moved
on.  `WriteCookie` and `Accept` are the two `atomicWrite` calls, with the
acceptance into memory only after the second.  `WriteFails` may leave the new
file in place (the rename succeeded and the sync of the directory failed) or
not.  `Crash` empties the memory and leaves the files.  `LocalChange` is any
other program on the host: it may replace, break or delete the cookie file and
delete the sidecar.  It does not forge a sidecar.

A file is known by the sha256 of its bytes, which the sidecar records.  That is
not the sha256 of the cookie set, which is the ETag: `renderNetscape` drops
`same_site`, so two cookie sets may have one rendering; it is a constant
function of the model, any function from `Hash` to `File`.

The targets are fetched in any order (the code: the configured one) and the
combined jar is configured.  `confirmed` and `touched` are history variables:
what the last fetch of a target, if it returned without error, was told, and
which targets others have changed since it began.

### BrokerStatus

Three functions of the scope: the highest revision published, the current one
and its health, with four steps: `Publish`, `Return` (a rollback within the
window), `Raise` and `Calm`.  `BrokerStore` implements it under the mapping
`Status == INSTANCE BrokerStatus WITH ...`, in which users, grants, consumer
state and reports disappear: `CreateUser` or `RecordConsumerSeen` are seen as
nothing, `Revoke` and `DeleteUser` at most as `Calm`.

### StatusPoll

`run` and `Refresh`/`RefreshAgain` are `run()` and `runAfterCurrent()` of
`createPollCoordinator`; `Settle` is its `finally` together with what the end
of a poll sets free.  A poll has a step for every await at which something can
happen in between: the answer of the broker (`Answer`), the read of
`controlPlaneState` (`Load`), the evaluation of one scope with its notifications
(`Evaluate`), the write (`Save`), and `PollFails` at any of them.
`runPeriodicCycle` is the alarm with `cycleInFlight`, `PollNow` the popup.
`Notices` and `StateAfter` are the two results of `evaluateBrokerStatus`, with
time in hours.  An upload is its requests: `PutAnswered`, `PutLost` (stored, but
the answer is lost) and `PutFails`, with `Retry` between them, then the refresh.
`Stop` is the browser stopping the worker: everything but storage is gone.

`view` records how much had been published when the broker answered; `shown` and
`saved` are the notifications given, and those given when a poll last stored its
results, as long as what they say is still so.  A notification counts as given
when it is handed to Chrome; `createNotification` only logs it when Chrome
refuses.  Left out: a change of settings, `notificationContexts`, the capture of
cookies (an upload starts with some), `syncStatus`.

### Recovery

Chrome's windows are given ids once.  `start()` is a slot with a step per await:
`loadContexts`, `CheckWindows`, `SavePruned`, `Setup`, `observeRecoveryWindow`,
`RecheckWindows`, `SaveContext`, and `RemoveWindow` after an error; every return
goes through `Leave`, the `finally`.  `tabs.onUpdated` is `Arrives`, `Resolve`,
`UploadEnds`, `complete`, `CloseWindow`; `windows.onRemoved` is `LoadRemoved` and
`SaveRemoved`.  Each handler carries its own copy of the records from its load
to its save, as the code does.  Chrome may open a window of the wrong kind or
none, storage writes may fail, and the user opens incognito windows and closes
any window at any time.  A record is its mode: provider and profile are copied
and compared only with themselves.  The tab is not told from its window.

### Publishing

`Change` is a cookie that Chrome reports to `cookies.onChanged`, whose handler
awaits `settings()` (`changing` counts such handlers) and then creates the alarm
(`CreateAlarm`), unless `settings()` is rejected (`SetupFails`) or the worker is
stopped.  `AlarmFires`, `SyncNow` and `Recover` are the three callers of
`upload()`, which captures the jar as it is then (`Begin`), or only logs
`sync_skipped` when no normal tab or cookie store is to be had (`Skip`).  `requestUpload` puts
the request on the network, where it stays until the broker takes it
(`PutAccepted`, `PutRefused`) or it is lost; the worker may give up waiting first
(`Timeout`), so requests overtake each other and arrive after their upload has
ended.  `Accept` is the PUT in one step, as `BrokerApi` justifies: `ValidateUpload`
sorts the cookies, hashes them and refuses some, `AuthExpiry` takes the hint, and
`Put` is that of `BrokerStore`.  The canonical order is the one listing of the
cookies in which their keys ascend: keys (domain, path and name) are unique once
the cookies are valid, so `sort.Slice` can give no other.  `snapshot` is the ciphertext and the hint of
every revision.  A cookie is a record whose `safe` stands for the syntax of its
fields.  sha256 is taken as injective: `sum` is the sorted cookies themselves.

`accepted` and `excused` are history variables: what the last accepted request,
or a rollback, made current, and the scopes whose last change need not be served,
because the user was told that its upload failed, or Chrome stopped it, or an
older upload or a rollback replaced it, or the code gave it up in silence
(`SetupFails`, `Skip`, a stop before the alarm) and nothing else is left that would
publish these cookies (`Forgotten`).

Left out: `syncStatus`, which decides nothing; incomplete settings and disabled
providers (a change then does nothing); the two calls that read the two domains of
one provider.

### DiagnosticsTable

Rows with their ids, and time in half seconds: `Text` is the place of a timestamp
in the order of RFC3339Nano texts, where a whole second sorts after its fractions,
since trailing zeros and the point with them are dropped.  `PutDiagnostics` is the
transaction, inserts and pruning; `Diagnostics` is one page.  An event is its
scope, its time and of its details the depth, the size and a class of content:
plain; a secret that the extension's redaction removes; or something that it keeps
and the broker refuses (`token=[redacted]`, a forbidden key name, a list of more
than 500).  The two limits of a body, packed and unpacked, are one.  Severity and
type are left out.

### ExtDiagnostics

`logDiagnostic` is `ReadBatches` and `WriteBatches`, of the worker and of the
popup, whose locks do not exclude each other.  `Appended` and `FifoPruned` are its
two halves; the loop over the oldest batches is written as the number of batches
that go.  `uploadDiagnostics` is `StartUpload`, one post per scope in the order in
which the scopes appear (`PostAccepted`, `PostRefused`, `PostLost`) and `SaveUpload`,
which is both of its endings.  Every writer carries the copy it has read.  An event
is a number of the history variable `log`, and the events of a batch are the set of
their numbers: an event is only ever appended after those logged before it, so the
order of the array is that of the numbers (`DiagTypeOK` checks what this rests on).
Of them, `received` are those that the broker has
accepted, `late` those appended to a batch that already had their scope marked.
`redactDiagnosticValue` cuts the depth and makes secrets plain.
`BackoffEnds` is the passing of `nextAttemptAt`.  Remote diagnostics are enabled.

## Properties

Safety, as invariants and action properties:

* `RetentionWindow`: numbers 1, 2, 3, … without a gap, of which exactly the
  newest `RevisionsKept` are stored.
* `CurrentRetained`: the pointer names exactly one stored row.
* `RevisionNamesOneContent`: a number means one cookie set for ever.
* `NoOrphans`: no report, grant or state refers to something deleted.
* `AlarmHasCause`, `AlarmClearedByItsReader`: who can raise and clear
  `refresh_required`.
* `FreshRevisionIsHealthy`: what `Put` answers about a new revision is so.
* `ConnectionOwner`: the connection is never leaked.
* `AnswerWasPublished`: revision and content of an answer belong together.
* `ImplementsStore`: the handlers are atomic as far as the store can tell, although
  a PUT acts on what it read before.
* `ReportNamesItsCookies`: a report names the revision whose cookies its sender
  read.
* `SidecarsAreHonest`: tampered bytes are never promoted to metadata.
* `SuccessMeansInSync`: a fetch without error means that the files are right.
* `JarKeepsTargets`: last known good.
* `ShowsStatus`: the store implements `BrokerStatus`.
* `RefreshIsFresh`: the poll that ends an upload shows that upload, although
  polls are shared.
* `StatusNeverGoesBack`: the stored status never falls back to an older answer.
* `ToldBeforeRecorded`, `NoticesAreNew`: notifications are neither lost nor
  repeated once recorded, and warnings of expiry only escalate.
* `OneIsolatedWindow`: isolated recoveries never share a session.
* `FlagHasOwner`: `isolatedStartInFlight` is never left set.
* `ClosesOnlyItsOwn`: no window of the user, and none of a normal recovery, is
  closed; a started isolated one only after publication.
* `RevisionsBringNews`: an ordinary publication makes a revision only if the
  cookies are others than those served, whatever their order and however often
  they are sent.
* `ServedIsAccepted`: what is served is what was accepted last, down to the expiry
  of one cookie, and its hint is right.
* `LossIsFifo`: an event leaves the history as the oldest, by a clear, or because a
  copy that was read before is written back.
* `MarksAreHonest`: a scope is marked uploaded in a batch only when the broker has
  its events, those appended later excepted.
* `PruningDropsTheOldest`: pruning by text loses only rows that are too old, or
  the oldest ones to the second.
* `QueriesAreExact`: following the cursor shows every row once, and a span of time
  is exact to the second.

Liveness:

* `RequestsEnd`: every request ends.  Fairness: strong for each handler.
  `database/sql` queues the goroutines that wait for a connection and hands a
  freed one to them, so a handler whose step is enabled again and again takes it.
  Clients and `brokerctl` are not assumed to do anything.
* `Converges`: when the broker settles on some cookies and the reader keeps its
  access, file, sidecar and jar end up with them.  Fairness: weak for the
  daemon, which loops on a ticker and whose requests have a timeout of 20
  seconds.  Faults are bounded in number by `MaxFaults`, so they end.
* `AlarmIsNoticed`: an alarm that lasts is notified.  Fairness: weak for the
  periodic alarm, which Chrome keeps firing; for the steps of a poll, whose
  request is aborted after 20 seconds; and for the end of the upload of
  diagnostics, which the cycle awaits.  The last one the code does not bound
  (`diagnostics.js:159` has no timeout); Chrome does, by stopping the worker.
  Nothing is assumed of the popup, the broker or the user.
* `ChangeIsPublished`: a change of the cookies is served in the end, or is excused
  for one of the reasons above.  Fairness: weak for the steps of uploads and
  alarms together: `settings()` settles, Chrome fires alarms, requests are answered or aborted after 20
  seconds, retries follow after fixed delays.
* `QueueDrains`: pending batches are uploaded in the end, unless the next upload has
  a body that the broker never takes: with an event whose scope is not granted, that
  is too old or that has kept forbidden content, or with too many bytes.
  Fairness: weak for the extension's steps together: the periodic alarm starts
  uploads, backoff is at most an hour, and a request ends or fails.  As above, the
  code does not bound the request itself.

In the last two the inputs (changes, events, losses, stops) are bounded by
`MaxInputs`, so they end: the properties say what the system comes to once it is
left alone.

## Runs

| run | instance | states | shows |
|---|---|---|---|
| `store` | 1 scope, 2 users, 2 cookie sets, 2 kept, 3 revisions, 2 grants | 232 k | retention, pointer, numbering, orphans, alarms, `ShowsStatus` |
| `api_requests` | 2 requests of a user who is publisher or reader in turn, 2 cookie sets, 2 kept, 3 revisions, 2 grants | 418 k | refinement, connection, answers, `RequestsEnd` |
| `sync_target` | 1 target, 3 cookie sets (2 with one rendering), 2 revisions, 1 fault | 946 k | files, sidecars, reports, `Converges` |
| `sync_jar` | 2 targets, no sidecars, 2 faults | 1.8 M | the combined jar |
| `sync_feedback` | 1 target, 1 cookie set, no fault | | violation, see "Findings" |
| `publish` | a scope captured on change and one with recovery, 2 uploads of 2 attempts, 2 revisions, 5 inputs | 996 k | validation, deduplication, `ChangeIsPublished` |
| `poll_share` | 2 polls, 2 uploads, 2 revisions, 1 fault | 873 k | the coordinator, freshness of refreshes |
| `poll_watch` | 1 scope, 2 revisions, thresholds 1 h and 2 h, 4 hours, 1 fault | 814 k | notifications, `AlarmIsNoticed` |
| `recovery_windows` | 2 windows, 2 starts, 2 captures | 1.7 M | isolation, the flag, which windows are closed |
| `recovery_record` | 2 windows, 1 start, 1 capture | | violation, see "Findings" |
| `diag_upload` | 2 scopes, 2 pages that log, 2 installations, batches of 2, 3 events and 2 rows kept, bodies of 2 bytes, 4 inputs | 528 k | both histories, marks, queries, `QueueDrains` |
| `diag_delivery` | the same | | violation, see "Findings" |

Why the bounds are enough to be interesting: `RevisionsKept` is 5 in the code
and 1 or 2 in the runs, below `MaxRevision` in those of the store and the API,
so pruning happens and a rollback to the edge of the window is followed by
publications that push it out. In `api_requests` the pointer may so move between the
SELECTs of a PUT and its INSERT; one user name suffices there, because a request
that was authorized goes on while `brokerctl` deletes its user and makes a reader
of the name. Two grants are what two readers at a time take,
or a reader that is revoked and granted again; the proofs are for any number. Two
requests are enough for one to commit between any two statements of the other;
a third process, `brokerctl`, is always there. One fault in `sync_target` is a
crash, a failed write or a foreign change at any step; two in `sync_jar` give a
crash after a failed write and a foreign change during a fetch; in `poll_watch` the one fault
is a stop of the worker or a failed call at any await. Two poll slots are
enough to see a second poll if one ever started beside the first, and two
uploads to see one join what the other began; `RETRIES` is 3 in the code and 1
where two uploads overlap, since a retry is an upload that starts again.
Thresholds of one and two hours against an expiry three hours ahead let them be
crossed one by one, both at once, or not at all before the hint passes. Two
windows are two isolated ones, were both ever opened, or one of the extension
and one of the user. Five inputs in `publish` are, for instance, a change, a request
that stays on its way, a second change and a rollback or a stop; the jars hold one
session in two orders, the same with a later expiry, one that the broker refuses
and none, and two uploads of two attempts put up to four requests on the network.
In `diag_upload` the limits are so small that four inputs overflow all of them:
two events close a batch, three fill the history, two fill the table, an event
is past retention after two half seconds and refused after three; the broker's
limit is that of one upload exactly, as in the code (10 batches of 100, 1000); the
details are plain, too deep with a secret and as large as a body, or of the kind
that redaction keeps. The theorems
remove these bounds for every module, except for liveness.

Deadlock is checked where something can always happen: in all but `publish` and
the `diag_` runs, which come to rest when their inputs are used up.

`MaxRevision`, `MaxGrant`, `MaxHour`, `MaxFaults`, `MaxInputs`, and the number of
slots for requests, polls, uploads, starts and captures, are bounds of the models,
not of the code.  In `BrokerApi` a `Put` at the bound fails with 500, like a
full database.

## Findings

`sync_feedback` refutes `ReportIsObserved`, the first half of the feedback loop
in the repository's README ("broker-aware consumer reports
authentication_required … extension observes the broker state").  The trace: revision 1 is
published and fetched; the user recovers, but the browser still has the same
cookies, and the recovery publishes them as revision 2 (recovery is never
deduplicated); the daemon is answered 304, because the ETag is the sha256 of
the cookies, and keeps its sidecar, which names revision 1
(`cmd/cookie-sync/main.go:164-170`); the consumer finds that its cookies do not
authenticate and reports it, for revision 1; the broker accepts the report, but
revision 2 is current and stays `healthy`, and nobody is notified.

`recovery_record` refutes `RecoveryIsRecorded`, after SECURITY.md ("The spanning
extension records the broker-created window/tab").  `start()`, `tabs.onUpdated`
and `windows.onRemoved` each load all records, wait, and save all of them.  The
trace: a recovery is on record and its window is closed by the user while
another recovery is starting; `onRemoved` has loaded the records when `start()`
saves its new one and returns success, and then saves what it had loaded, less
the closed window.  The new window is no longer on record: the user signs in,
the arrival at the hand-off page is ignored and nothing is published.  The same
happens, with a much wider gap, when a recovery starts during the upload that
ends another one, because `complete()` saves the records from before the upload.
What survives this race is proved: isolation and `ClosesOnlyItsOwn` do not
depend on the records being complete.

`diag_delivery` refutes `UploadedMeansReceived`.  The options page counts the
"events pending remote upload" (`extension/options.js:25`), and a batch that is not
pending is never looked at again.  The trace: an event of a scope is logged and
uploaded, and its batch, which has room, is marked with the scope; a second event
of the scope is appended to the batch, which becomes pending again and keeps the
mark; the next upload skips the event because of the mark
(`extension/diagnostics.js:148`), finds that no scope is missing and sets
`pending` to false.  The event never reaches the broker.  That can be most
events: a batch takes a hundred, and uploads run every few minutes.
`MarksAreHonest` shows that nothing else breaks the meaning of a mark.

## Proofs

All of them hold for every value of the constants that satisfies the named
assumptions (`KeptAssumption`: at least one revision is kept;
`BoundAssumption`, `KindAssumption`, `CallAssumption`, `NoHashAssumption`,
`FreeAssumption`, `HostAssumption`: types and distinctness of the markers;
`PollAssumption`: thresholds are positive numbers of hours, and there is at least
one attempt; `PublishAssumption`, `HashAssumption`: a jar is a sequence of cookies
with keys that can be compared, and the hash of every valid one is a hash;
`TableAssumption`, `ExtAssumption`: every limit of the diagnostics is at least one,
and the markers are distinct).  TLC evaluates all of them on the runs' instances.

`BrokerStoreProofs`.  Three invariants, each inductive relative to the ones
before it:

* `TypeWindow == TypeOK /\ RetentionWindow`.  The window is inductive on its
  own, given the types: the stored numbers are an interval ending at `hi`,
  so `MAX+1` is `hi + 1` and the pruning removes at most the lowest number.  The
  lemmas before it say what `Max`, `Newest` and the cardinality of an interval
  are; they are the only place where cardinality is reasoned about.
* `Ledger == RowKeys /\ CurrentRetained /\ RevisionNamesOneContent`.  `RowKeys`
  (the primary key of `revisions`) is needed because rows are a set in the
  model.  The pointer survives pruning because `Put` has just moved it to the
  highest number; a number is fresh because, by the window, `published` has
  exactly 1 to `hi`.
* `Access == NoOrphans /\ GrantIds /\ ReportKeys`.  `GrantIds` says that all
  ids in use, in grants and in reports, are below `nextGrant`, and that a grant
  id identifies a grant; without it a new grant could match an old report.

The action properties follow from these: `AlarmHasCause` and
`AlarmClearedByItsReader` by cases on the operations, `FreshRevisionIsHealthy`
since by `NoOrphans` no report can be about a number above `hi`.

`StatusRefined` shows that every step of `Spec` is a step of `BrokerStatus` or
changes none of its variables: by the window, `top` is `hi`, so `PutRevision` is
`Publish` and `Rollback` stays inside `Return`; a report is `Raise` for its own
scope; every other operation raises no alarm, by the lemma behind
`AlarmHasCause`, and is therefore a `Calm`, perhaps of no scope.

`BrokerApiProofs`.  `ApiInv` adds to the store's invariants that a handler at a
label works on a call of the right kind (`OnTrack`), that a row it carries was
published for its scope, with the publisher's own hash in a PUT (`Carries`),
and the two properties themselves.  The store's invariants are reused through
the refinement: every step is a `[Next]_storeVars`, which `RecordSeen` shows
with `Carries` (the recorded revision was published) and `PutWrite` with `Decided`:
what a PUT has read is still so, as long as nobody else has committed since (`stale`),
so that its cookies are still new and its number is still the next one.  `Refinement` is then
`ApiSpec => ImplementsStore`, the whole specification `Spec` and not only its
invariants.

`CookieSyncProofs`.  `SyncInv` adds that a response in hand speaks of something
published (`ResponseInHand`), that what the daemon trusts is complete
(`TrustIsWhole`: an ETag is only kept with the content and the sidecar that go
with it), and what the files are while a fetch is between its two writes
(`FetchInProgress`).  The published history only grows and keeps one content
per number, so what was true of a response when it was sent is still true when
its files are written or a report is sent.

`RecoveryProofs`.  Two inductive invariants over `Shapes` (types, and that
handlers which speak of a window have one):

* `Exclusion`: `FlagHasOwner` is inductive by itself.  With it, a start that has
  seen no incognito window (`Cleared`) stays alone until it opens its own
  (`ClearedIsAlone`), because the user's windows do not count and no other
  isolated start can get past the flag.  Records play no part in it.
* `Ownership`: every copy of the records, in storage or in a handler, calls only
  such windows isolated that were opened for isolated recovery
  (`AllRecordsTrue`); the window a start holds is its own and not yet started
  (`HeldWindows`); a capture that is about to close has published
  (`CapturesKnow`); and a held window is closed by nobody else
  (`HeldNotClosed`).  Copies may be stale, but nothing in them is ever made up:
  that is why lost updates cannot lead to closing the wrong window.

`StatusPollProofs`.  `Sharing` is the coordinator: at most one poll is under way,
it is `inFlight`, and uploads wait for it or for none.  Two invariants stand on it:

* `Freshness`: the revision of an upload whose PUT was answered is at most `top`
  (`Published`); a poll that an upload finds or starts after it has waited was not
  answered before the upload was stored (`Fresh`), which is why joining it is sound,
  and why `runAfterCurrent` first has to wait; an answer in hand is no older than
  what is stored (`InOrder`).  `RefreshIsFresh` and `StatusNeverGoesBack` follow.
* `Memory`: what a stored state records has been shown (`Told`), and the other way
  round, a state makes every warning given before it was stored old, and the weaker
  ones with it (`Covers`).  A poll under way has both for the scopes it is done with
  (`Evaluated`), and what it read is still what is stored, since no other poll can
  have written.  A warning stays due because time does not go back (`Due`).

`PublishingProofs`.  The store's invariants are reused through the refinement
`PublishImplementsStore`, that is `PublishSpec => Spec`.  `Traffic` says which
requests may still be on the network; `Content`, that every number ever published
has the snapshot that its hash stands for, that no other number has one, and that
the current one has the cookies accepted last.  `ServedIsAccepted` is the last part
of it and the correctness of the canonical order; so is `RevisionsBringNews`,
because equal sets of cookies have equal canonical forms.  That the order exists is
shown by ranks (a cookie goes where as many keys are below its own); that it is
unique, by the first place where two of them would differ.

`ExtDiagnosticsProofs`, of the extension and the table together:

* `TableInv`: ids name rows and stay below `nextId`, so both the order of a page and
  that of pruning are orders, and the first n of them are exactly n or all there are.
  `Text` never leaves its second, which is why an order of texts is right to the
  second, for pruning as for spans of time.
* `Clock`: the times in the log ascend and none is ahead of the clock.
* `HistoryInv`: every copy of the history, stored or carried by a page or by the
  upload, is in order, within its limits and honestly marked (`Good`).  A stale copy
  loses events but makes nothing up, and the marks that the upload adds are for
  events that are in `received` by then.  The event that a page is about to append
  is later than every one in its copy.
* `LossIsFifo` looks at the last batch that the loop removes: either all of it is too
  old, and with it everything before, or what follows it already reaches the limit.

`OrderLemmas`.  Least and greatest elements of finite sets of integers, elements by
rank, and the first n in an order, proved from the theorems on finite sets.

### Only model-checked

`RequestsEnd`, `Converges`, `AlarmIsNoticed`, `ChangeIsPublished` and `QueueDrains`:
liveness under fairness is outside what the proof system does.  And the violations
`ReportIsObserved`, `RecoveryIsRecorded` and `UploadedMeansReceived`.  Every
invariant and every action property of the passing runs is a theorem.

## What is not modelled

* `/healthz`, and requests that are refused for their syntax before any statement.
* The words that redaction removes from texts and keys, and those that the broker
  refuses in them, beyond the three classes of `Details`.
* A connection without foreign keys: the pragma is run once (`store.go:60-63`), and
  one that `database/sql` opened in place of a broken one would not cascade.  Whether
  the driver ever breaks one, say after an interrupted statement (`Abort`), is
  decided outside of the repository.
* `syncStatus` and `notificationContexts`: `record` reads the map, changes one scope
  and writes all of it back, so overlapping uploads of two providers may undo each
  other's entry; only what the popup shows depends on it.
* The capture of a provider with two domains in two calls
  (`service-worker.js:46-49`): a sign-in between them gives a mixed capture, which
  the alarm of that change replaces.
* `revision_seen` going back when two GETs of a reader overlap (`health.go:13`) and
  `last_report_at` as a maximum of texts (`health.go:85`): no decision depends on
  either.  `enrichStatus` not asking `rows.Err()` (`health.go:77`): a statement is
  atomic in the models.
* Whether Chrome shows a notification that it was given (`service-worker.js:107`).
* Encryption at rest and argon2: passwords are equal or not, rows readable.
* The provider tables, UI pages, installers, `mcb`, container and proxy
  configuration: constants, forms and shell programs without shared state.
* Time, outside of the thresholds of `StatusPoll` and the ages and texts of the
  diagnostics.  Ticks, timeouts and retries are steps that may happen.

## Plan

1. *Done*: `BrokerStore`, `BrokerApi`, `CookieSync`, their runs and proofs.
2. *Done*: `BrokerStatus` and the refinement by the store; `StatusPoll` with its
   runs; `Recovery` with its runs and proofs.
3. *Done*: `Publishing`, with validation, expiry hints and the change alarms, over
   the store.
4. *Done*: `DiagnosticsTable` and `ExtDiagnostics` with their runs.
5. *Done*: the proofs of `StatusPoll`, `Publishing`, `DiagnosticsTable` and
   `ExtDiagnostics`, and that `Publishing` implements the store.
6. Shorter proofs: `ExtDiagnosticsProofs` is the longest, and its lemmas on sequences
   of batches could be shared with other histories if the extension gets any.
