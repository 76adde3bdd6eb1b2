----------------------------- MODULE Publishing -----------------------------
(***************************************************************************)
(* Publications from end to end: the browser's cookies, the service        *)
(* worker that uploads them when they change (extension/service-worker.js) *)
(* and PUT .../cookies, which validates them and puts them in canonical    *)
(* order (internal/broker/validate.go) before they are stored.             *)
(*                                                                         *)
(* A cookie is [key, value, expires, auth, safe]: key stands for domain,   *)
(* path and name, expires is 0 for a session cookie, auth says that the    *)
(* provider authenticates by it, safe that its fields pass the broker's    *)
(* tests.  The settings are complete and the providers enabled.  Slots     *)
(* stand for uploads in progress; the code has no limit on them.           *)
(***************************************************************************)
EXTENDS BrokerStore, SequencesExt

CONSTANTS
    Jar,          \* contents of a cookie store, in the order of getAll
    Interactive,  \* scopes of providers with a recovery workflow
    Upload,       \* slots for uploads
    RETRIES,      \* attempts of an upload; 3 in the code
    MaxInputs     \* bound: changes, clicks, recoveries, rollbacks, revocations,
                  \* lost or delayed messages, failed calls of Chrome's API
                  \* and stops together

ASSUME PublishAssumption ==
    /\ Interactive \subseteq Scope
    /\ <<>> \in Jar
    /\ \A cookies \in Jar :
         /\ cookies \in Seq(Range(cookies))
         /\ \A c \in Range(cookies) : c.key \in Int /\ c.expires \in Nat
    /\ RETRIES \in Nat \ {0} /\ MaxInputs \in Nat

VARIABLES
    snapshot,  \* ciphertext and auth_expires_at of each revision ever stored
    jar,       \* the browser's cookies of a scope
    changing,  \* handlers of cookies.onChanged that await settings(), by scope
    alarms,    \* scopes with a change alarm
    upload,    \* upload() in progress
    network,   \* PUT requests on their way
    granted,   \* the publisher may write
    inputs,    \* inputs so far
    accepted,  \* history: what the broker said that it serves
    excused    \* history: scopes whose last change need not be served

browser == <<jar, changing, alarms>>
publishVars == <<storeVars, snapshot, browser, upload, network, granted,
                 inputs, accepted, excused>>

NoSnapshot == [cookies |-> <<>>, auth_expires_at |-> {}]
Rest == [pc |-> "idle", scope |-> {}, why |-> "ordinary", cookies |-> <<>>,
         attempt |-> 0]

PublishInit ==
    /\ Init
    /\ snapshot = [s \in Scope |-> [n \in 0..MaxRevision |-> NoSnapshot]]
    /\ jar = [s \in Scope |-> <<>>]
    /\ changing = [s \in Scope |-> 0]
    /\ alarms = {}
    /\ upload = [j \in Upload |-> Rest]
    /\ network = {}
    /\ granted = TRUE
    /\ inputs = 0
    /\ accepted = [s \in Scope |-> <<>>]
    /\ excused = {}

\* Something happens from outside.
Input == inputs < MaxInputs /\ inputs' = inputs + 1

Served(s) == snapshot[s][current[s]]
UpToDate(s) == Range(Served(s).cookies) = Range(jar[s])

----------------------------------------------------------------------------
(* ValidateUpload and AuthExpiry.                                          *)

\* Mutant: the cookies are hashed in the order of the request.
asSent(cookies) == cookies

\* sort.Slice by domain, path and name, which are unique.
canonical(cookies) ==
    CHOOSE sorted \in [DOMAIN cookies -> Range(cookies)] :
        /\ Range(sorted) = Range(cookies)
        /\ \A i, j \in DOMAIN sorted : i < j => sorted[i].key < sorted[j].key

\* Mutant: only names and values are hashed.
sumOfValues(cookies) == [i \in DOMAIN cookies |->
                           [key |-> cookies[i].key, value |-> cookies[i].value]]

\* Injective, as sha256 is taken to be.
sum(cookies) == cookies

ValidateUpload(cookies) ==
    /\ cookies # <<>>
    /\ \A c \in Range(cookies) : c.safe
    /\ IsInjective([i \in DOMAIN cookies |-> cookies[i].key])

\* What may be stored.
Canonical == {canonical(cookies) : cookies \in {c \in Jar : ValidateUpload(c)}}

ASSUME HashAssumption == {sum(cookies) : cookies \in Canonical} \subseteq Hash

\* The earliest expiry of an authentication cookie, as a set of at most one.
AuthExpiry(cookies) ==
    LET times == {c.expires : c \in {d \in Range(cookies) :
                                       d.auth /\ d.expires > 0}}
    IN  {t \in times : \A u \in times : t <= u}

----------------------------------------------------------------------------
(* The service worker.                                                     *)

\* collect and validateCapture have something to upload.
Capturable(s) ==
    /\ jar[s] # <<>>
    /\ s \in Interactive => \E c \in Range(jar[s]) : c.auth

\* A slot is free when nothing of its last upload is left.
Idle(j) == upload[j] = Rest /\ \A q \in network : q.upload # j

\* upload() up to the first request.  With nothing to upload, the failure is
\* recorded and notified.
Begin(j, s, why) ==
    /\ Idle(j)
    /\ upload' = IF Capturable(s)
                 THEN [upload EXCEPT ![j] =
                         [pc |-> "send", scope |-> {s}, why |-> why,
                          cookies |-> jar[s], attempt |-> 1]]
                 ELSE upload
    /\ excused' = IF Capturable(s) THEN excused ELSE excused \cup {s}

\* captureContext throws, as there is no normal tab or Chrome does not expose
\* its cookie store, or the recovery has moved on: upload() logs and returns.
Skip(j) == Idle(j) /\ UNCHANGED upload

\* Nothing is left that would publish the cookies as they are now.
Forgotten(s) ==
    IF \/ s \in alarms' \/ changing'[s] > 0
       \/ \E j \in Upload : s \in upload'[j].scope /\ upload'[j].cookies = jar'[s]
    THEN {} ELSE {s}

\* cookies.onChanged: the handler awaits settings() before anything else.
Change(s) ==
    /\ \E cookies \in Jar \ {jar[s]} : jar' = [jar EXCEPT ![s] = cookies]
    /\ changing' = IF s \in Interactive THEN changing
                   ELSE [changing EXCEPT ![s] = @ + 1]
    /\ excused' = excused \ {s}
    /\ Input
    /\ UNCHANGED <<storeVars, snapshot, alarms, upload, network, granted, accepted>>

\* Mutant: changes are ignored while an upload of the scope is in progress.
CreateAlarmWhenIdle(s) ==
    /\ changing[s] > 0
    /\ changing' = [changing EXCEPT ![s] = @ - 1]
    /\ alarms' = IF \E j \in Upload : s \in upload[j].scope THEN alarms
                 ELSE alarms \cup {s}
    /\ UNCHANGED <<storeVars, snapshot, jar, upload, network, granted, inputs,
                   accepted, excused>>

\* The handler goes on and creates the alarm, or replaces it.
CreateAlarm(s) ==
    /\ changing[s] > 0
    /\ changing' = [changing EXCEPT ![s] = @ - 1]
    /\ alarms' = alarms \cup {s}
    /\ UNCHANGED <<storeVars, snapshot, jar, upload, network, granted, inputs,
                   accepted, excused>>

\* settings() is rejected: cookie_change_setup_failed is logged, that is all.
SetupFails(s) ==
    /\ changing[s] > 0
    /\ changing' = [changing EXCEPT ![s] = @ - 1]
    /\ Input
    /\ UNCHANGED <<storeVars, snapshot, jar, alarms, upload, network, granted,
                   accepted>>
    /\ excused' = excused \cup Forgotten(s)

AlarmFires(j, s) ==
    /\ s \in alarms
    /\ alarms' = alarms \ {s}
    /\ UNCHANGED <<storeVars, snapshot, jar, changing, network, granted, accepted>>
    /\ \/ Begin(j, s, "ordinary") /\ UNCHANGED inputs
       \/ Skip(j) /\ Input /\ excused' = excused \cup Forgotten(s)

\* "Sync now" of the popup, and the arrival at the end of a recovery.
SyncNow(j, s) ==
    /\ \/ Begin(j, s, "ordinary")
       \/ Skip(j) /\ UNCHANGED excused
    /\ Input
    /\ UNCHANGED <<storeVars, snapshot, browser, network, granted, accepted>>

Recover(j, s) ==
    /\ s \in Interactive
    /\ \/ Begin(j, s, "recovery")
       \/ Skip(j) /\ UNCHANGED excused
    /\ Input
    /\ UNCHANGED <<storeVars, snapshot, browser, network, granted, accepted>>

requestUpload(j) ==
    /\ upload[j].pc = "send"
    /\ upload' = [upload EXCEPT ![j].pc = "wait"]
    /\ network' = network \cup
         {[upload |-> j, attempt |-> upload[j].attempt, why |-> upload[j].why,
           cookies |-> upload[j].cookies, scope |-> s] : s \in upload[j].scope}
    /\ UNCHANGED <<storeVars, snapshot, browser, granted, inputs, accepted,
                   excused>>

\* Mutant: one attempt too many.
FailOnceMore(j) ==
    LET u == upload[j] IN
    IF u.attempt <= RETRIES
    THEN /\ upload' = [upload EXCEPT ![j].pc = "send", ![j].attempt = @ + 1]
         /\ UNCHANGED excused
    ELSE /\ upload' = [upload EXCEPT ![j] = Rest]
         /\ excused' = excused \cup {s \in u.scope : jar[s] = u.cookies}

\* An attempt fails.  After the last one the failure is recorded and notified,
\* which tells the user of this capture.
Fail(j) ==
    LET u == upload[j] IN
    IF u.attempt < RETRIES
    THEN /\ upload' = [upload EXCEPT ![j].pc = "send", ![j].attempt = @ + 1]
         /\ UNCHANGED excused
    ELSE /\ upload' = [upload EXCEPT ![j] = Rest]
         /\ excused' = excused \cup {s \in u.scope : jar[s] = u.cookies}

Waits(q) == upload[q.upload].pc = "wait" /\ upload[q.upload].attempt = q.attempt

\* The request is aborted after 20 seconds.  It may still be on its way, which
\* is an input; or it is lost, or the answer to it.
Timeout(j) ==
    /\ upload[j].pc = "wait"
    /\ IF \E q \in network : q.upload = j /\ Waits(q) THEN Input
       ELSE UNCHANGED inputs
    /\ Fail(j)
    /\ UNCHANGED <<storeVars, snapshot, browser, network, granted, accepted>>

\* Chrome stops the worker, with its uploads and the handlers that had not
\* created their alarm; alarms and requests that were sent remain.
Stop ==
    /\ \/ \E j \in Upload : upload[j] # Rest
       \/ \E s \in Scope : changing[s] > 0
    /\ upload' = [j \in Upload |-> Rest]
    /\ changing' = [s \in Scope |-> 0]
    /\ Input
    /\ UNCHANGED <<storeVars, snapshot, jar, alarms, network, granted, accepted>>
    /\ excused' = excused \cup
         {s \in Scope :
            \/ changing[s] > 0 /\ s \in Forgotten(s)
            \/ \E j \in Upload : s \in upload[j].scope /\ jar[s] = upload[j].cookies}

----------------------------------------------------------------------------
(* The broker.                                                             *)

\* API.put: the cookies are stored as they were sorted.
Accept(s, cookies, why) ==
    LET sorted == canonical(cookies)
        n == NextRevision(s)
    IN  /\ granted
        /\ ValidateUpload(cookies)
        /\ Put(s, sum(sorted), why)
        /\ snapshot' = IF Deduplicated(s, sum(sorted), why) THEN snapshot
                       ELSE [snapshot EXCEPT ![s][n] =
                               [cookies |-> sorted,
                                auth_expires_at |-> AuthExpiry(sorted)]]
        /\ accepted' = [accepted EXCEPT ![s] = cookies]

\* The bound MaxRevision stands for a full database, as in BrokerApi.
Refuses(s, cookies, why) ==
    \/ ~granted
    \/ ~ValidateUpload(cookies)
    \/ /\ ~Deduplicated(s, sum(canonical(cookies)), why)
       /\ NextRevision(s) > MaxRevision

\* What was served is so no more: the last change is overtaken.
Overtaken(s) == IF UpToDate(s) /\ ~UpToDate(s)' THEN {s} ELSE {}

\* A request arrives, and its answer if the worker still waits and hears it.
PutAccepted(q) ==
    /\ q \in network
    /\ network' = network \ {q}
    /\ Accept(q.scope, q.cookies, q.why)
    /\ IF Waits(q)
       THEN \/ /\ upload' = [upload EXCEPT ![q.upload] = Rest]
               /\ UNCHANGED inputs
            \/ Input /\ UNCHANGED upload
       ELSE UNCHANGED <<upload, inputs>>
    /\ UNCHANGED <<browser, granted>>
    /\ excused' = excused \cup Overtaken(q.scope)

PutRefused(q) ==
    /\ q \in network
    /\ network' = network \ {q}
    /\ Refuses(q.scope, q.cookies, q.why)
    /\ IF Waits(q) THEN Fail(q.upload) ELSE UNCHANGED <<upload, excused>>
    /\ UNCHANGED <<storeVars, snapshot, browser, granted, inputs, accepted>>

PutLost(q) ==
    /\ q \in network
    /\ network' = network \ {q}
    /\ Input
    /\ UNCHANGED <<storeVars, snapshot, browser, upload, granted, accepted, excused>>

\* brokerctl
RollBack(s, n) ==
    /\ Rollback(s, n)
    /\ accepted' = [accepted EXCEPT ![s] = snapshot[s][n].cookies]
    /\ Input
    /\ UNCHANGED <<snapshot, browser, upload, network, granted>>
    /\ excused' = excused \cup Overtaken(s)

RevokeOrGrant ==
    /\ granted' = ~granted
    /\ Input
    /\ UNCHANGED <<storeVars, snapshot, browser, upload, network, accepted,
                   excused>>

----------------------------------------------------------------------------
Step ==
    \/ \E j \in Upload : \/ requestUpload(j) \/ Timeout(j)
                         \/ \E s \in Scope : AlarmFires(j, s)
    \/ \E s \in Scope : CreateAlarm(s)
    \/ \E q \in network : PutAccepted(q) \/ PutRefused(q)

PublishNext ==
    \/ Step
    \/ \E s \in Scope : \/ Change(s) \/ SetupFails(s)
                        \/ \E n \in 1..MaxRevision : RollBack(s, n)
    \/ \E j \in Upload, s \in Scope : SyncNow(j, s) \/ Recover(j, s)
    \/ \E q \in network : PutLost(q)
    \/ RevokeOrGrant
    \/ Stop

PublishSpec == PublishInit /\ [][PublishNext]_publishVars

\* Chrome fires alarms, requests are answered or aborted, and retries follow:
\* what has begun goes on.
FairPublishSpec == PublishSpec /\ WF_publishVars(Step)

----------------------------------------------------------------------------
(* Correctness.                                                            *)

\* Every variable has its type, an upload makes at most RETRIES attempts, and
\* only the one that waits for an attempt can be answered by it.
PublishTypeOK ==
    /\ alarms \subseteq Scope \ Interactive
    /\ changing \in [Scope -> Nat] /\ \A s \in Interactive : changing[s] = 0
    /\ jar \in [Scope -> Jar] /\ accepted \in [Scope -> Jar \cup Canonical]
    /\ excused \subseteq Scope /\ granted \in BOOLEAN
    /\ inputs \in 0..MaxInputs
    /\ \A j \in Upload :
         /\ upload[j].pc \in {"idle", "send", "wait"}
         /\ upload[j].attempt \in 0..RETRIES
         /\ Cardinality({q \in network : q.upload = j}) <= RETRIES
    /\ \A q \in network : /\ q.scope \in Scope /\ q.cookies \in Jar
                          /\ q.attempt \in 1..RETRIES
                          /\ upload[q.upload] # Rest =>
                               upload[q.upload].cookies = q.cookies
    /\ \A s \in Scope, n \in 0..MaxRevision :
         snapshot[s][n] # NoSnapshot => n # 0 /\ n < NextRevision(s)

\* An ordinary publication (Put of store.go) makes a revision only if the
\* cookies differ from those served, whatever order Chrome lists them in and
\* however often they are sent: consumers see a new revision only when there
\* is something new.
RevisionsBringNews ==
    [][\A r \in revisions' \ revisions :
         r.reason = "ordinary" =>
           Range(Served(r.scope).cookies)' # Range(Served(r.scope).cookies)
      ]_publishVars

\* What the broker serves is what the last accepted request held, down to the
\* expiry of a cookie that changed in nothing else, and its hint is the
\* earliest expiry of an authentication cookie (Put, AuthExpiry).
ServedIsAccepted ==
    \A s \in Scope :
      LET cookies == Range(accepted[s])
          hints == {c \in cookies : c.auth /\ c.expires # 0}
      IN  /\ Range(Served(s).cookies) = cookies
          /\ \A t \in Served(s).auth_expires_at, c \in hints : t <= c.expires
          /\ Served(s).auth_expires_at = {} <=> hints = {}

\* The cookies of a scope that is captured on change are served in the end,
\* through changes during uploads, refusals, lost and late messages, unless
\* the user has been notified that this capture failed, or it was served and a
\* delayed older upload or a rollback has replaced it, or, with nothing else
\* left to publish them, they met one of the ends that the code only logs or
\* does not notice: settings() rejected before the alarm, captureContext
\* without a cookie store, the worker stopped before the alarm was created or
\* during the upload (onChanged, the change alarm and upload()).
ChangeIsPublished ==
    \A s \in Scope \ Interactive : <>[](UpToDate(s) \/ s \in excused)
=============================================================================
