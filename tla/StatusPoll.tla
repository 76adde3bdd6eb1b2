----------------------------- MODULE StatusPoll -----------------------------
(***************************************************************************)
(* The extension's service worker as a watcher of the broker               *)
(* (extension/control-plane.js, service-worker.js): polls of GET           *)
(* /v1/status behind a coordinator, the notifications they lead to, and    *)
(* uploads, which end with a refresh of the status.  The worker may be     *)
(* stopped by the browser between any two awaits; chrome.storage.local     *)
(* survives it.                                                            *)
(*                                                                         *)
(* The broker is BrokerStatus.  The settings are complete and constant.    *)
(***************************************************************************)
EXTENDS BrokerStatus, FiniteSetsExt

CONSTANTS
    Poll,        \* slots for polls
    Upload,      \* slots for uploads
    NoPoll,      \* no poll is in flight
    Thresholds,  \* expiryThresholdHours, normalized
    expires,     \* hour of auth_expires_at of a revision: a set of at most one
    RETRIES,     \* attempts of an upload; 3 in the code
    MaxHour,     \* bound: hours that pass
    MaxFaults    \* bound: lost requests and stops of the worker together

ASSUME PollAssumption ==
    /\ NoPoll \notin Poll
    /\ Thresholds \subseteq Nat \ {0}
    /\ expires \in [1..MaxRevision -> SUBSET Nat]
    /\ RETRIES \in Nat \ {0}
    /\ MaxHour \in Nat /\ MaxFaults \in Nat
    /\ MaxRevision \in Nat /\ RevisionsKept \in Nat

VARIABLES
    granted,            \* scopes of the publisher
    login,              \* its password is right
    now,                \* hours
    inFlight,           \* the coordinator's poll
    cycle,              \* cycleInFlight: "none", its poll or "diagnostics"
    poll,               \* polls: step, answer, states before and after
    upload,             \* uploads: step, scope, attempt, revision, poll
    controlPlaneState,  \* storage: what earlier polls have seen of a scope
    brokerStatus,       \* storage: what the popup shows
    faults,             \* faults so far
    shown,              \* history: notices handed to Chrome, while topical
    saved               \* history: those that a poll has recorded as given

access == <<granted, login>>
storage == <<controlPlaneState, brokerStatus>>
history == <<shown, saved>>
worker == <<inFlight, cycle>>
pollVars == <<statusVars, access, now, worker, poll, upload, storage,
              faults, history>>

\* A scope of which nothing is known, and a status that was not listed.
Unknown == [revision |-> 0, health |-> "none", fired |-> {},
            passed |-> FALSE]
Unlisted == [revision |-> 0, health |-> "none"]
NoStatus == [s \in Scope |-> Unlisted]
NoStates == [s \in Scope |-> Unknown]
NoView == [s \in Scope |-> 0]

\* view is history: how much had been published when the broker answered.
Idle == [pc |-> "idle", status |-> NoStatus, previous |-> NoStates,
         next |-> NoStates, todo |-> {}, view |-> NoView]
Asking == [Idle EXCEPT !.pc = "ask"]

\* scope: the one of the upload, as a set; on: the poll it waits for.
Rest == [pc |-> "idle", scope |-> {}, attempt |-> 0, revision |-> 0,
         on |-> NoPoll]

PollInit ==
    /\ StatusInit
    /\ granted = Scope
    /\ login = TRUE
    /\ now = 0
    /\ inFlight = NoPoll
    /\ cycle = "none"
    /\ poll = [p \in Poll |-> Idle]
    /\ upload = [j \in Upload |-> Rest]
    /\ controlPlaneState = NoStates
    /\ brokerStatus = [connected |-> FALSE, profiles |-> NoStatus,
                       view |-> NoView]
    /\ faults = 0
    /\ shown = [s \in Scope |-> {}]
    /\ saved = [s \in Scope |-> {}]

Fault == faults < MaxFaults /\ faults' = faults + 1

----------------------------------------------------------------------------
(* createPollCoordinator.                                                  *)

\* Mutant: every call starts a poll of its own.
runsAlone(p) ==
    /\ poll[p] = Idle
    /\ inFlight' = p
    /\ poll' = [poll EXCEPT ![p] = Asking]

\* run(): poll p is the one in flight, or becomes it.
run(p) ==
    \/ /\ inFlight = p
       /\ UNCHANGED <<inFlight, poll>>
    \/ /\ inFlight = NoPoll
       /\ poll[p] = Idle
       /\ inFlight' = p
       /\ poll' = [poll EXCEPT ![p] = Asking]

\* Mutant: the in-flight poll is forgotten only when it succeeds.
SettleOnSuccess(p) ==
    /\ poll' = [poll EXCEPT ![p] = Idle]
    /\ inFlight' = IF inFlight = p /\ poll[p].pc = "evaluate" THEN NoPoll
                   ELSE inFlight
    /\ upload' = [j \in Upload |->
          IF upload[j].on # p THEN upload[j]
          ELSE IF upload[j].pc = "await"
               THEN [upload[j] EXCEPT !.pc = "again", !.on = NoPoll]
               ELSE Rest]
    /\ cycle' = IF cycle = p THEN "diagnostics" ELSE cycle

\* Poll p is over, well or not: it is in flight no longer, uploads that have
\* waited for it to pass call run(), uploads it was run for return, and the
\* periodic cycle goes on.
Settle(p) ==
    /\ poll' = [poll EXCEPT ![p] = Idle]
    /\ inFlight' = IF inFlight = p THEN NoPoll ELSE inFlight
    /\ upload' = [j \in Upload |->
          IF upload[j].on # p THEN upload[j]
          ELSE IF upload[j].pc = "await"
               THEN [upload[j] EXCEPT !.pc = "again", !.on = NoPoll]
               ELSE Rest]
    /\ cycle' = IF cycle = p THEN "diagnostics" ELSE cycle

\* The popup asks for a poll.
PollNow ==
    /\ \E p \in Poll : run(p)
    /\ UNCHANGED <<statusVars, access, now, cycle, upload, storage, faults,
                   history>>

\* The periodic alarm starts a cycle unless one is going on.
runPeriodicCycle ==
    /\ cycle = "none"
    /\ \E p \in Poll : run(p) /\ cycle' = p
    /\ UNCHANGED <<statusVars, access, now, upload, storage, faults, history>>

\* uploadDiagnostics has returned, well or not.
EndCycle ==
    /\ cycle = "diagnostics"
    /\ cycle' = "none"
    /\ UNCHANGED <<statusVars, access, now, inFlight, poll, upload, storage,
                   faults, history>>

----------------------------------------------------------------------------
(* evaluateBrokerStatus.                                                   *)

Alarmed(n) == [event |-> "refresh_required", revision |-> n, hours |-> 0]

\* 0 hours: the hint has passed.
Expiry(n, t) == [event |-> "expiry", revision |-> n, hours |-> t]

HoursLeft(status) ==
    IF status.revision = 0 THEN {}
    ELSE {e - now : e \in expires[status.revision]}

Passed(status) == \E left \in HoursLeft(status) : left <= 0

\* The state an evaluation starts from.
Base(status, previous) ==
    IF previous.revision = status.revision THEN previous
    ELSE [Unknown EXCEPT !.revision = status.revision]

Crossed(status, previous) ==
    {t \in Thresholds \ Base(status, previous).fired :
        \E left \in HoursLeft(status) : 0 < left /\ left <= t}

Notices(status, previous) ==
    LET n == status.revision
        base == Base(status, previous)
        crossed == Crossed(status, previous)
    IN  (IF /\ status.health = "refresh_required"
            /\ base.health # "refresh_required"
         THEN {Alarmed(n)} ELSE {})
        \cup (IF Passed(status) /\ ~base.passed THEN {Expiry(n, 0)} ELSE {})
        \cup (IF crossed # {} THEN {Expiry(n, Min(crossed))} ELSE {})

\* Mutant: only the threshold that is notified counts as fired.
StateNoticed(status, previous) ==
    LET base == Base(status, previous)
        crossed == Crossed(status, previous)
    IN  [revision |-> status.revision,
         health |-> status.health,
         fired |-> base.fired \cup (IF Passed(status) THEN Thresholds ELSE
                      IF crossed # {} THEN {Min(crossed)} ELSE {}),
         passed |-> base.passed \/ Passed(status)]

StateAfter(status, previous) ==
    LET base == Base(status, previous) IN
    [revision |-> status.revision,
     health |-> status.health,
     fired |-> base.fired \cup (IF Passed(status) THEN Thresholds
                                ELSE Crossed(status, previous)),
     passed |-> base.passed \/ Passed(status)]

----------------------------------------------------------------------------
(* pollBrokerStatusOnce.                                                   *)

\* GET /v1/status is answered.
Answer(p) ==
    /\ poll[p].pc = "ask"
    /\ login
    /\ poll' = [poll EXCEPT
          ![p].pc = "load",
          ![p].status = [s \in Scope |->
              IF s \in granted
              THEN [revision |-> pointer[s], health |-> health[s]]
              ELSE Unlisted],
          ![p].view = top]
    /\ UNCHANGED <<statusVars, access, now, worker, upload, storage, faults,
                   history>>

\* Mutant: the new states are recorded before the user is notified.
LoadAndSave(p) ==
    LET listed == {s \in Scope : poll[p].status[s] # Unlisted} IN
    /\ poll[p].pc = "load"
    /\ poll' = [poll EXCEPT ![p].pc = "evaluate",
                            ![p].previous = controlPlaneState,
                            ![p].todo = listed]
    /\ controlPlaneState' = [s \in Scope |->
          IF s \in listed
          THEN StateAfter(poll[p].status[s], controlPlaneState[s])
          ELSE Unknown]
    /\ UNCHANGED <<statusVars, access, now, worker, upload, brokerStatus,
                   faults, history>>

\* What earlier polls have recorded is read from storage.
Load(p) ==
    LET listed == {s \in Scope : poll[p].status[s] # Unlisted} IN
    /\ poll[p].pc = "load"
    /\ poll' = [poll EXCEPT ![p].pc = "evaluate",
                            ![p].previous = controlPlaneState,
                            ![p].todo = listed]
    /\ UNCHANGED <<statusVars, access, now, worker, upload, storage, faults,
                   history>>

\* One scope of the answer: its new state, and the notifications, each shown
\* before the poll goes on.
Evaluate(p, s) ==
    LET status == poll[p].status[s]
        previous == poll[p].previous[s]
    IN  /\ poll[p].pc = "evaluate"
        /\ s \in poll[p].todo
        /\ poll' = [poll EXCEPT ![p].todo = @ \ {s},
                                ![p].next[s] = StateAfter(status, previous)]
        /\ shown' = [shown EXCEPT ![s] = @ \cup Notices(status, previous)]
        /\ UNCHANGED <<statusVars, access, now, worker, upload, storage,
                       faults, saved>>

\* The notice speaks of what the state still is.
Topical(n, state) ==
    /\ n.revision = state.revision
    /\ n.event = "refresh_required" => state.health = "refresh_required"

\* Status and states are stored together; scopes not listed are forgotten.
Save(p) ==
    /\ poll[p].pc = "evaluate"
    /\ poll[p].todo = {}
    /\ controlPlaneState' = poll[p].next
    /\ brokerStatus' = [connected |-> TRUE, profiles |-> poll[p].status,
                        view |-> poll[p].view]
    /\ shown' = [s \in Scope |->
          {n \in shown[s] : Topical(n, poll[p].next[s])}]
    /\ saved' = shown'
    /\ Settle(p)
    /\ UNCHANGED <<statusVars, access, now, faults>>

\* The broker refuses the login (401), the request is lost or times out, or
\* storage fails; the profiles that were known stay.
PollFails(p) ==
    /\ \/ poll[p].pc = "ask" /\ ~login /\ UNCHANGED faults
       \/ poll[p].pc # "idle" /\ Fault
    /\ brokerStatus' = [brokerStatus EXCEPT !.connected = FALSE]
    /\ Settle(p)
    /\ UNCHANGED <<statusVars, access, now, controlPlaneState, history>>

----------------------------------------------------------------------------
(* upload: its requests and the refresh that follows.                      *)

StartUpload(j, s) ==
    /\ upload[j] = Rest
    /\ upload' = [upload EXCEPT ![j] = [Rest EXCEPT !.pc = "put",
                                         !.scope = {s}, !.attempt = 1]]
    /\ UNCHANGED <<statusVars, access, now, worker, poll, storage, faults,
                   history>>

\* The broker's Put: a new revision, or the current one once more.
Publishes(s) == Publish(s) \/ (pointer[s] # 0 /\ UNCHANGED statusVars)

PutAnswered(j) ==
    /\ upload[j].pc = "put"
    /\ \E s \in upload[j].scope :
         /\ login /\ s \in granted
         /\ Publishes(s)
         /\ upload' = [upload EXCEPT ![j].pc = "refresh",
                                     ![j].revision = pointer'[s]]
    /\ UNCHANGED <<access, now, worker, poll, storage, faults, history>>

\* Mutant: one attempt too many.
RetryOnceMore(j) ==
    upload' = [upload EXCEPT ![j] =
        IF @.attempt <= RETRIES
        THEN [@ EXCEPT !.attempt = upload[j].attempt + 1] ELSE Rest]

\* The next attempt, if there is one.
Retry(j) ==
    upload' = [upload EXCEPT ![j] =
        IF @.attempt < RETRIES
        THEN [@ EXCEPT !.attempt = upload[j].attempt + 1] ELSE Rest]

\* The cookies are stored, the answer is lost.
PutLost(j) ==
    /\ upload[j].pc = "put"
    /\ Fault
    /\ \E s \in upload[j].scope : login /\ s \in granted /\ Publishes(s)
    /\ Retry(j)
    /\ UNCHANGED <<access, now, worker, poll, storage, history>>

\* The broker refuses, cannot be reached or cannot store.
PutFails(j) ==
    /\ upload[j].pc = "put"
    /\ \/ /\ ~login \/ \E s \in upload[j].scope : s \notin granted
          /\ UNCHANGED faults
       \/ Fault
    /\ Retry(j)
    /\ UNCHANGED <<statusVars, access, now, worker, poll, storage, history>>

\* Mutant: run() instead of runAfterCurrent().
RefreshAtOnce(j) ==
    /\ upload[j].pc = "refresh"
    /\ \E p \in Poll :
         /\ run(p)
         /\ upload' = [upload EXCEPT ![j].pc = "joined", ![j].on = p]
    /\ UNCHANGED <<statusVars, access, now, cycle, storage, faults, history>>

\* runAfterCurrent(): a poll in flight may have asked before the publication,
\* so it is waited for; otherwise a new one starts.
Refresh(j) ==
    /\ upload[j].pc = "refresh"
    /\ \/ /\ inFlight # NoPoll
          /\ upload' = [upload EXCEPT ![j].pc = "await", ![j].on = inFlight]
          /\ UNCHANGED <<inFlight, poll>>
       \/ /\ inFlight = NoPoll
          /\ \E p \in Poll :
               /\ run(p)
               /\ upload' = [upload EXCEPT ![j].pc = "joined", ![j].on = p]
    /\ UNCHANGED <<statusVars, access, now, cycle, storage, faults, history>>

\* ... and after the wait run() joins whatever poll is in flight by then.
RefreshAgain(j) ==
    /\ upload[j].pc = "again"
    /\ \E p \in Poll :
         /\ run(p)
         /\ upload' = [upload EXCEPT ![j].pc = "joined", ![j].on = p]
    /\ UNCHANGED <<statusVars, access, now, cycle, storage, faults, history>>

----------------------------------------------------------------------------
(* The environment.                                                        *)

\* The browser stops the service worker; an event starts it again.
Stop ==
    /\ Fault
    /\ inFlight' = NoPoll
    /\ cycle' = "none"
    /\ poll' = [p \in Poll |-> Idle]
    /\ upload' = [j \in Upload |-> Rest]
    /\ UNCHANGED <<statusVars, access, now, storage, history>>

\* Other publishers, consumers and brokerctl.
Broker ==
    /\ StatusNext
    /\ UNCHANGED <<access, now, worker, poll, upload, storage, faults,
                   history>>

\* brokerctl changes the publisher's grants or its password.
Brokerctl ==
    /\ granted' \in SUBSET Scope
    /\ login' \in BOOLEAN
    /\ UNCHANGED <<statusVars, now, worker, poll, upload, storage, faults,
                   history>>

Tick ==
    /\ now < MaxHour
    /\ now' = now + 1
    /\ UNCHANGED <<statusVars, access, worker, poll, upload, storage, faults,
                   history>>

PollStep(p) ==
    Answer(p) \/ Load(p) \/ (\E s \in Scope : Evaluate(p, s)) \/ Save(p)
      \/ PollFails(p)

UploadStep(j) ==
    \/ \E s \in Scope : StartUpload(j, s)
    \/ PutAnswered(j) \/ PutLost(j) \/ PutFails(j)
    \/ Refresh(j) \/ RefreshAgain(j)

PollNext ==
    \/ PollNow \/ runPeriodicCycle \/ EndCycle \/ Stop \/ Broker \/ Brokerctl \/ Tick
    \/ \E p \in Poll : PollStep(p)
    \/ \E j \in Upload : UploadStep(j)

PollSpec == PollInit /\ [][PollNext]_pollVars

\* The periodic alarm keeps firing; the steps of a poll go on, since its request
\* is aborted after 20 seconds and the rest is local; and uploads of
\* diagnostics end.  Nothing is asked of the popup.
FairPollSpec ==
    /\ PollSpec
    /\ WF_pollVars(runPeriodicCycle)
    /\ WF_pollVars(EndCycle)
    /\ \A p \in Poll : WF_pollVars(PollStep(p))

----------------------------------------------------------------------------
(* Properties.                                                             *)

Health == {"missing", "healthy", "refresh_required"}
Listing == [revision : 0..MaxRevision, health : Health \cup {"none"}]
State == [revision : 0..MaxRevision, health : Health \cup {"none"},
          fired : SUBSET Thresholds, passed : BOOLEAN]
Notice == [event : {"refresh_required", "expiry"},
           revision : 0..MaxRevision, hours : Nat]
PollState == [pc : {"idle", "ask", "load", "evaluate"},
              status : [Scope -> Listing],
              previous : [Scope -> State], next : [Scope -> State],
              todo : SUBSET Scope, view : [Scope -> Nat]]
UploadState == [pc : {"idle", "put", "refresh", "await", "again", "joined"},
                scope : SUBSET Scope, attempt : 0..RETRIES,
                revision : Nat, on : Poll \cup {NoPoll}]
Shown == [connected : BOOLEAN, profiles : [Scope -> Listing],
          view : [Scope -> Nat]]

\* Shapes; in particular no upload makes more than RETRIES attempts.
PollTypeOK ==
    /\ top \in [Scope -> Nat]
    /\ pointer \in [Scope -> 0..MaxRevision]
    /\ health \in [Scope -> Health]
    /\ granted \subseteq Scope /\ login \in BOOLEAN
    /\ now \in 0..MaxHour
    /\ inFlight \in Poll \cup {NoPoll}
    /\ cycle \in Poll \cup {"none", "diagnostics"}
    /\ poll \in [Poll -> PollState]
    /\ upload \in [Upload -> UploadState]
    /\ controlPlaneState \in [Scope -> State]
    /\ brokerStatus \in Shown
    /\ faults \in 0..MaxFaults
    /\ shown \in [Scope -> SUBSET Notice]
    /\ saved \in [Scope -> SUBSET Notice]

\* The status refresh at the end of an upload shows at least that upload: the
\* poll that is run for it asks the broker, or has asked it, after the cookies
\* were stored, although polls that began earlier may be in flight and polls
\* of other callers are shared.
RefreshIsFresh ==
    \A j \in Upload : upload[j].pc = "joined" =>
        LET asked == poll[upload[j].on] IN
        \/ asked.pc = "ask"
        \/ /\ asked.pc # "idle"
           /\ \A s \in upload[j].scope : asked.view[s] >= upload[j].revision

\* The status the popup shows never falls back to an earlier answer of the
\* broker, whoever asks for polls and however the worker is stopped.
StatusNeverGoesBack ==
    [][\A s \in Scope : brokerStatus'.view[s] >= brokerStatus.view[s]]_pollVars

\* What is recorded as known to the user was handed to Chrome to be shown: a stop of the
\* worker, or a failure, between the notifications of a poll and the write of
\* its results may repeat a notification but never loses one.
ToldBeforeRecorded ==
    \A s \in Scope :
        LET state == controlPlaneState[s] IN
        /\ state.health = "refresh_required"
             => Alarmed(state.revision) \in shown[s]
        /\ brokerStatus.profiles[s].health = "refresh_required"
             => Alarmed(brokerStatus.profiles[s].revision) \in shown[s]
        /\ \A t \in state.fired : \E n \in shown[s] :
             n.event = "expiry" /\ n.revision = state.revision /\ n.hours <= t

\* A notification is not given again once a poll has recorded it and the state
\* it speaks of has not changed since, and expiry warnings only escalate.
NoticesAreNew ==
    [][\A p \in Poll, s \in Scope :
         s \in poll[p].todo /\ poll'[p].todo = poll[p].todo \ {s} =>
           \A n \in Notices(poll[p].status[s], poll[p].previous[s]) :
             /\ n \notin saved[s]
             /\ \A m \in saved[s] :
                  /\ n.event = "expiry" /\ m.event = "expiry"
                  /\ n.revision = m.revision
                  => n.hours < m.hours]_pollVars

\* An alarm that lasts reaches the user: if from some time on a revision of a
\* scope of the publisher is current and asks for a refresh, a notification
\* about it is given, whatever polls failed, whatever earlier revisions were
\* notified and however often the worker was stopped before.
AlarmIsNoticed ==
    \A s \in Scope, n \in 1..MaxRevision :
        <>[](/\ health[s] = "refresh_required" /\ pointer[s] = n
             /\ login /\ s \in granted)
          => <>[](Alarmed(n) \in shown[s])
============================================================================
