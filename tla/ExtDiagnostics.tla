--------------------------- MODULE ExtDiagnostics ---------------------------
(***************************************************************************)
(* The extension's diagnostics (extension/diagnostics.js): a bounded       *)
(* history in chrome.storage.local, which the service worker and the popup *)
(* append to, the options page clears and the periodic cycle uploads.      *)
(*                                                                         *)
(* Every `lock' is local to the page that imports the module, and the      *)
(* upload takes none: a writer writes back the batches that it read.       *)
(* Remote diagnostics are enabled; every member of Scope is of an enabled  *)
(* provider, and events of no scope stay local.                            *)
(***************************************************************************)
EXTENDS DiagnosticsTable

CONSTANTS
    Logger,            \* pages that log: the worker and the popup
    Worker,            \* the one that Chrome may stop, and that uploads
    Self,              \* installationId
    NoScope,           \* scope of a generic event
    Logs,              \* who logs events of which scope with which details
    EVENTS_PER_BATCH,  \* 100 in the code
    MAX_EVENTS,        \* 10000
    BatchesPerUpload,  \* 10
    MaxInputs          \* bound: events logged here, events posted by others,
                       \* half seconds, lost requests, stops and clears

ASSUME ExtAssumption ==
    /\ Worker \in Logger /\ Self \in Installation /\ NoScope \notin Scope
    /\ Logs \subseteq Logger \X (Scope \cup {NoScope}) \X Details
    /\ {EVENTS_PER_BATCH, MAX_EVENTS, BatchesPerUpload} \subseteq Nat \ {0}
    /\ MaxInputs \in Nat

VARIABLES
    batches,   \* storage: diagnosticBatches
    backoff,   \* storage: diagnosticState.nextAttemptAt is to come
    logger,    \* logDiagnostic in progress: the copy read, the event's number
    upload,    \* uploadDiagnostics in progress
    inputs,    \* inputs so far
    log,       \* history: the events logged, in order
    received,  \* history: numbers of the events that the broker accepted
    late       \* history: those appended after their scope was marked

extension == <<batches, backoff, logger, upload>>
history == <<log, received, late>>
diagVars == <<tableVars, extension, inputs, history>>

\* The events of a batch are numbers of log, and their order is the order of
\* the numbers: an event is appended after those that were logged before it.
Batch == [events : SUBSET Nat, uploadedScopes : SUBSET Scope, pending : BOOLEAN]
Event == [scope : Scope \cup {NoScope}, at : Nat, details : Details]
Quiet == [pc |-> "idle", stored |-> <<>>, event |-> 0]
NoUpload == [pc |-> "idle", stored |-> <<>>, todo |-> {}, completed |-> {}]

DiagInit ==
    /\ TableInit
    /\ batches = <<>>
    /\ backoff = FALSE
    /\ logger = [l \in Logger |-> Quiet]
    /\ upload = NoUpload
    /\ inputs = 0
    /\ log = <<>>
    /\ received = {}
    /\ late = {}

\* Something happens from outside.
Input == inputs < MaxInputs /\ inputs' = inputs + 1

EventsFrom(k, stored) == UNION {stored[i].events : i \in k..Len(stored)}
Events(stored) == EventsFrom(1, stored)
Stored == Events(batches)

\* The events of these numbers, in order.
EventsOf(numbers) ==
    [k \in 1..Cardinality(numbers) |->
       log[CHOOSE e \in numbers : Cardinality({d \in numbers : d <= e}) = k]]

----------------------------------------------------------------------------
(* logDiagnostic.                                                          *)

\* A container at the last depth that the broker accepts becomes a text, and
\* secrets go; names of keys, lists and the word before a secret stay.
redactDiagnosticValue(details) ==
    [details EXCEPT
       !.depth = IF @ > maxDiagnosticDepth THEN maxDiagnosticDepth ELSE @,
       !.content = IF @ = "secret" THEN "plain" ELSE @]

ReadBatches(l, s, details) ==
    /\ logger[l].pc = "idle"
    /\ log' = Append(log, [scope |-> s, at |-> now,
                           details |-> redactDiagnosticValue(details)])
    /\ logger' = [logger EXCEPT ![l] = [pc |-> "write", stored |-> batches,
                                        event |-> Len(log) + 1]]
    /\ Input
    /\ UNCHANGED <<tableVars, batches, backoff, upload, received, late>>

\* Mutant: a batch may get one event more.
HasRoomForTwo(stored) ==
    /\ stored # <<>>
    /\ Cardinality(stored[Len(stored)].events) <= EVENTS_PER_BATCH

HasRoom(stored) ==
    /\ stored # <<>>
    /\ Cardinality(stored[Len(stored)].events) < EVENTS_PER_BATCH

Appended(stored, e) ==
    IF HasRoom(stored)
    THEN [stored EXCEPT ![Len(stored)].events = @ \cup {e},
                        ![Len(stored)].pending = TRUE]
    ELSE Append(stored, [events |-> {e}, uploadedScopes |-> {},
                         pending |-> TRUE])

\* Mutant: of the oldest batch, its oldest events are kept.
FirstOf(n, events) == {e \in events : Cardinality({d \in events : d < e}) < n}

LastOf(n, events) == {e \in events : Cardinality({d \in events : d > e}) < n}

\* The loop of FIFO pruning.  After k batches are removed it goes on while
\* the next one is too old or there are too many events, and ends when some
\* of that batch are kept.
FifoPruned(stored) ==
    LET Recent(e) == log[e].at >= now - Retention
        Rest(k) == SubSeq(stored, k + 1, Len(stored))
        Count(k) == Cardinality(EventsFrom(k + 1, stored))
        Goes(k) == /\ k < Len(stored)
                   /\ \/ ~Recent(Max(stored[k + 1].events))
                      \/ Count(k) > MAX_EVENTS
        Keep(k) == LastOf(MAX_EVENTS - Count(k + 1),
                          {e \in stored[k + 1].events : Recent(e)})
        k == Min({j \in 0..Len(stored) : Goes(j) => Keep(j) # {}})
    IN  IF Goes(k) THEN [Rest(k) EXCEPT ![1].events = Keep(k)] ELSE Rest(k)

WriteBatches(l) ==
    LET stored == logger[l].stored
        e == logger[l].event
    IN  /\ logger[l].pc = "write"
        /\ batches' = FifoPruned(Appended(stored, e))
        /\ late' = IF /\ HasRoom(stored)
                      /\ log[e].scope \in stored[Len(stored)].uploadedScopes
                   THEN late \cup {e} ELSE late
        /\ logger' = [logger EXCEPT ![l] = Quiet]
        /\ UNCHANGED <<tableVars, backoff, upload, inputs, log, received>>

----------------------------------------------------------------------------
(* uploadDiagnostics.                                                      *)

PendingOf(stored) == {i \in DOMAIN stored : stored[i].pending}

\* The first pending batches.
Selected(stored) ==
    {i \in PendingOf(stored) :
       Cardinality({j \in PendingOf(stored) : j < i}) < BatchesPerUpload}

NeededScopes(batch) == {log[e].scope : e \in batch.events} \cap Scope

\* The events to post: those of an enabled scope that is not marked.
Grouped(stored) ==
    UNION {{e \in stored[i].events :
              log[e].scope \in Scope \ stored[i].uploadedScopes} :
             i \in Selected(stored)}

StartUpload ==
    /\ upload.pc = "idle"
    /\ ~backoff
    /\ PendingOf(batches) # {}
    /\ upload' = [pc |-> "post", stored |-> batches,
                  todo |-> Grouped(batches), completed |-> {}]
    /\ UNCHANGED <<tableVars, batches, backoff, logger, inputs, history>>

\* The scopes are posted in the order in which they first appear in todo.
OfScope(s, numbers) == {e \in numbers : log[e].scope = s}

\* The broker takes the events of a scope.
Receive(s) ==
    LET group == OfScope(s, upload.todo) IN
    /\ PutDiagnostics(s, Self, EventsOf(group))
    /\ received' = received \cup group

IsPosting(s) ==
    /\ upload.pc = "post"
    /\ upload.todo # {}
    /\ log[Min(upload.todo)].scope = s

PostAccepted(s) ==
    /\ IsPosting(s)
    /\ Accepts(s, EventsOf(OfScope(s, upload.todo)))
    /\ Receive(s)
    /\ upload' = [upload EXCEPT !.todo = @ \ OfScope(s, @),
                                !.completed = @ \cup {s}]
    /\ UNCHANGED <<batches, backoff, logger, inputs, log, late>>

\* Mutant: a scope counts as completed whatever the broker answers.
PostRefusedCompletes(s) ==
    /\ IsPosting(s)
    /\ ~Accepts(s, EventsOf(OfScope(s, upload.todo)))
    /\ upload' = [upload EXCEPT !.pc = "failed", !.completed = @ \cup {s}]
    /\ UNCHANGED <<tableVars, batches, backoff, logger, inputs, history>>

PostRefused(s) ==
    /\ IsPosting(s)
    /\ ~Accepts(s, EventsOf(OfScope(s, upload.todo)))
    /\ upload' = [upload EXCEPT !.pc = "failed"]
    /\ UNCHANGED <<tableVars, batches, backoff, logger, inputs, history>>

\* The request is lost, or the answer to it.
PostLost(s) ==
    /\ IsPosting(s)
    /\ \/ UNCHANGED <<tableVars, received>>
       \/ Accepts(s, EventsOf(OfScope(s, upload.todo))) /\ Receive(s)
    /\ upload' = [upload EXCEPT !.pc = "failed"]
    /\ Input
    /\ UNCHANGED <<batches, backoff, logger, log, late>>

\* Mutant: what earlier uploads completed does not count.
updateCompleted(u) ==
    [i \in DOMAIN u.stored |->
       LET batch == u.stored[i] IN
       IF i \notin Selected(u.stored) THEN batch
       ELSE [batch EXCEPT
               !.uploadedScopes = @ \cup u.completed,
               !.pending = ~(NeededScopes(batch) \subseteq u.completed)]]

updateBatches(u) ==
    [i \in DOMAIN u.stored |->
       LET batch == u.stored[i]
           uploadedScopes == batch.uploadedScopes \cup u.completed
       IN  IF i \notin Selected(u.stored) THEN batch
           ELSE [batch EXCEPT
                   !.uploadedScopes = uploadedScopes,
                   !.pending = ~(NeededScopes(batch) \subseteq uploadedScopes)]]

SaveUpload ==
    /\ \/ upload.pc = "post" /\ upload.todo = {}
       \/ upload.pc = "failed"
    /\ batches' = updateBatches(upload)
    /\ backoff' = (upload.pc = "failed")
    /\ upload' = NoUpload
    /\ UNCHANGED <<tableVars, logger, inputs, history>>

----------------------------------------------------------------------------
(* The options page, Chrome, time and other publishers.                    *)

clearDiagnostics ==
    /\ batches # <<>>
    /\ batches' = <<>>
    /\ backoff' = FALSE
    /\ Input
    /\ UNCHANGED <<tableVars, logger, upload, history>>

\* Chrome stops the worker, or a page is closed; a failed write has the same
\* effect.
Stop(l) ==
    /\ logger[l] # Quiet \/ (l = Worker /\ upload # NoUpload)
    /\ logger' = [logger EXCEPT ![l] = Quiet]
    /\ upload' = IF l = Worker THEN NoUpload ELSE upload
    /\ Input
    /\ UNCHANGED <<tableVars, batches, backoff, history>>

BackoffEnds ==
    /\ backoff
    /\ backoff' = FALSE
    /\ UNCHANGED <<tableVars, batches, logger, upload, inputs, history>>

Tick ==
    /\ now' = now + 1
    /\ Input
    /\ UNCHANGED <<diagnostics, nextId, publishes, extension, history>>

Others == Installation \ {Self}

\* Another installation posts an event of any age, with details that pass.
OthersPost(i, s) ==
    /\ \E t \in (now - Tolerance)..(now + Ahead) :
         LET details == [depth |-> 1, content |-> "plain", bytes |-> 1]
             events == <<[scope |-> s, at |-> t, details |-> details]>>
         IN  Accepts(s, events) /\ PutDiagnostics(s, i, events)
    /\ Input
    /\ UNCHANGED <<extension, history>>

Writing == \E l \in Logger : WriteBatches(l)
Uploading == \/ StartUpload \/ SaveUpload
             \/ \E s \in Scope : PostAccepted(s) \/ PostRefused(s)

DiagNext ==
    \/ \E who \in Logs : ReadBatches(who[1], who[2], who[3])
    \/ Writing \/ Uploading \/ BackoffEnds \/ Tick \/ clearDiagnostics
    \/ \E s \in Scope : PostLost(s)
    \/ \E l \in Logger : Stop(l)
    \/ \E i \in Others, s \in Scope : OthersPost(i, s)

DiagSpec == DiagInit /\ [][DiagNext]_diagVars

\* The extension's own steps go on: the periodic alarm starts uploads, whose
\* steps end, backoff is bounded by an hour, and writes to storage end.
FairDiagSpec ==
    DiagSpec /\ WF_diagVars(Writing \/ Uploading \/ BackoffEnds)

----------------------------------------------------------------------------
(* Correctness.                                                            *)

Bounded(stored) ==
    /\ \A i \in DOMAIN stored :
         /\ Cardinality(stored[i].events) \in 1..EVENTS_PER_BATCH
         /\ \A d \in stored[i].events, e \in EventsFrom(i + 1, stored) : d < e
    /\ Events(stored) \subseteq DOMAIN log
    /\ Cardinality(Events(stored)) <= MAX_EVENTS

Writer == [pc : {"idle", "write"}, stored : Seq(Batch), event : Nat]
Uploader == [pc : {"idle", "post", "failed"}, stored : Seq(Batch),
             todo : SUBSET Nat, completed : SUBSET Scope]

\* Every variable has its type.  The history, and every copy of it that a page
\* holds, is in the order logged and within its limits (EVENTS_PER_BATCH and
\* MAX_EVENTS of diagnostics.js), and the event that a page is about to append
\* to its copy is later; the table is within its limit (PutDiagnostics).
DiagTypeOK ==
    /\ diagnostics \subseteq Row /\ Cardinality(diagnostics) <= RowsKept
    /\ nextId \in Nat /\ now \in Nat /\ publishes \subseteq Scope
    /\ batches \in Seq(Batch) /\ Bounded(batches)
    /\ backoff \in BOOLEAN
    /\ logger \in [Logger -> Writer]
    /\ \A l \in Logger : /\ Bounded(logger[l].stored)
                         /\ logger[l].event \in 0..Len(log)
                         /\ \A e \in Events(logger[l].stored) :
                              e < logger[l].event
    /\ upload \in Uploader
    /\ Bounded(upload.stored) /\ upload.todo \subseteq DOMAIN log
    /\ log \in Seq(Event)
    /\ received \cup late \subseteq DOMAIN log
    /\ inputs \in 0..MaxInputs

\* The copies that pages are about to write back.
Copies ==
    {logger[l].stored : l \in {m \in Logger : logger[m].pc = "write"}}
      \cup {u.stored : u \in {upload} \ {NoUpload}}

\* An event leaves the history because it is among the oldest, which are too
\* old or too many (the FIFO pruning of logDiagnostic), because the history
\* is cleared, or because a page writes back a copy that was read before the
\* event was stored; in no other way.
LossIsFifo ==
    [][\A e \in Stored \ Stored' :
         \/ batches' = <<>>
         \/ \E copy \in Copies : e \notin Events(copy)
         \/ /\ \A d \in Stored' : e < d
            /\ \/ log[e].at < now - Retention
               \/ Cardinality(Stored') = MAX_EVENTS]_diagVars

\* A scope is marked in a batch (uploadedScopes) only after the broker has
\* accepted its events: all those that were in the batch when it was marked,
\* through lost answers, stops of the worker and copies written back late.
MarksAreHonest ==
    \A i \in DOMAIN batches :
      \A e \in batches[i].events :
        log[e].scope \in batches[i].uploadedScopes => e \in received \cup late

\* The broker refuses every body with this event: its scope is not granted,
\* it is too old, or redaction leaves what validateDetails forbids.
Refused(e) ==
    \/ log[e].scope \notin publishes
    \/ log[e].at < now - Tolerance
    \/ log[e].details.content = "kept"

\* The next upload's body for this scope cannot pass.
HeldUp(s) ==
    LET group == OfScope(s, Grouped(batches)) IN
    \/ \E e \in group : Refused(e)
    \/ ~BodyFits(EventsOf(group))

\* The queue of pending batches is uploaded in the end (the periodic cycle
\* calls uploadDiagnostics, which backs off for a while when it fails), unless
\* the batches that come first hold a body that the broker never takes.  No
\* other body holds it up: the events of the batches are never too many, deep
\* details and secrets have been redacted so that they pass, lost requests are
\* tried again, and a batch whose scopes are marked one upload after the other
\* ends although no upload completes them all.
QueueDrains ==
    <>[](\/ PendingOf(batches) = {}
         \/ \E s \in Scope : HeldUp(s))

\* The options page calls a batch that is not pending uploaded: the broker
\* has received its events of every enabled scope.
UploadedMeansReceived ==
    \A i \in DOMAIN batches \ PendingOf(batches) :
      \A e \in batches[i].events :
        log[e].scope \in publishes => e \in received
=============================================================================
