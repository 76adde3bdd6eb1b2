-------------------------- MODULE StatusPollProofs --------------------------
(***************************************************************************)
(* Proofs about StatusPoll, for any number of scopes, polls and uploads,   *)
(* every set of thresholds and every bound.                                *)
(***************************************************************************)
EXTENDS StatusPoll, OrderLemmas, TLAPS

----------------------------------------------------------------------------
(* Types.                                                                  *)

\* The values at rest have their types.
LEMMA Rests ==
  /\ NoStatus \in [Scope -> Listing]
  /\ NoStates \in [Scope -> State]
  /\ NoView \in [Scope -> Nat]
  /\ Idle \in PollState /\ Asking \in PollState
  /\ Rest \in UploadState
<1>1. 0 \in 0..MaxRevision /\ 0 \in 0..RETRIES
  BY PollAssumption
<1>2. NoStatus \in [Scope -> Listing]
  BY <1>1 DEF NoStatus, Listing, Unlisted
<1>3. NoStates \in [Scope -> State]
  BY <1>1 DEF NoStates, State, Unknown
<1>4. NoView \in [Scope -> Nat]
  BY DEF NoView
<1>5. Idle \in PollState /\ Asking \in PollState
  BY <1>2, <1>3, <1>4 DEF Idle, Asking, PollState
<1>6. Rest \in UploadState
  BY <1>1 DEF Rest, UploadState
<1> QED  BY <1>2, <1>3, <1>4, <1>5, <1>6

\* The types hold at first.
LEMMA TypeInit == PollInit => PollTypeOK
<1> SUFFICES ASSUME PollInit PROVE PollTypeOK
  OBVIOUS
<1>1. 0 \in 0..MaxRevision /\ 0 \in 0..MaxHour /\ 0 \in 0..MaxFaults
  BY PollAssumption
<1> QED  BY <1>1, Rests DEF PollInit, PollTypeOK, StatusInit, Health, Shown

\* What an evaluation computes has its type.
LEMMA EvaluationType ==
  ASSUME NEW status \in Listing, NEW previous \in State, now \in Nat
  PROVE  /\ Base(status, previous) \in State
         /\ Crossed(status, previous) \in SUBSET Thresholds
         /\ StateAfter(status, previous) \in State
         /\ Notices(status, previous) \subseteq Notice
<1>1. Base(status, previous) \in State
  BY DEF Base, State, Listing, Unknown
<1>2. Crossed(status, previous) \in SUBSET Thresholds
  BY DEF Crossed
<1>3. StateAfter(status, previous) \in State
  <2>1. /\ Base(status, previous).passed \in BOOLEAN
        /\ Base(status, previous).fired \in SUBSET Thresholds
    BY <1>1 DEF State
  <2> QED  BY <1>1, <1>2 DEF StateAfter, State, Listing, Passed
<1>4. Notices(status, previous) \subseteq Notice
  <2>1. Crossed(status, previous) # {} =>
          Min(Crossed(status, previous)) \in Nat
    BY <1>2, MinOfNaturals, PollAssumption
  <2>2. Alarmed(status.revision) \in Notice
    BY DEF Alarmed, Notice, Listing
  <2>3. \A h \in Nat : Expiry(status.revision, h) \in Notice
    BY DEF Expiry, Notice, Listing
  <2> QED  BY <2>1, <2>2, <2>3 DEF Notices
<1> QED  BY <1>1, <1>2, <1>3, <1>4

\* The broker's own steps.
LEMMA BrokerType ==
  ASSUME PollTypeOK, StatusNext \/ (\E s \in Scope : Publish(s)) \/ UNCHANGED statusVars
  PROVE  /\ top' \in [Scope -> Nat]
         /\ pointer' \in [Scope -> 0..MaxRevision]
         /\ health' \in [Scope -> Health]
<1> USE DEF PollTypeOK, Health
<1>1. ASSUME NEW s \in Scope, Publish(s)
      PROVE  /\ top' \in [Scope -> Nat]
             /\ pointer' \in [Scope -> 0..MaxRevision]
             /\ health' \in [Scope -> Health]
  BY <1>1, PollAssumption DEF Publish
<1>2. ASSUME NEW s \in Scope, Raise(s)
      PROVE  /\ top' \in [Scope -> Nat]
             /\ pointer' \in [Scope -> 0..MaxRevision]
             /\ health' \in [Scope -> Health]
  BY <1>2 DEF Raise
<1>3. ASSUME NEW s \in Scope, NEW n \in 1..MaxRevision, Return(s, n)
      PROVE  /\ top' \in [Scope -> Nat]
             /\ pointer' \in [Scope -> 0..MaxRevision]
             /\ health' \in [Scope -> Health]
  BY <1>3, PollAssumption DEF Return
<1>4. ASSUME NEW scopes \in SUBSET Scope, Calm(scopes)
      PROVE  /\ top' \in [Scope -> Nat]
             /\ pointer' \in [Scope -> 0..MaxRevision]
             /\ health' \in [Scope -> Health]
  BY <1>4 DEF Calm
<1> QED  BY <1>1, <1>2, <1>3, <1>4 DEF StatusNext, statusVars

\* A poll that begins has its type,
LEMMA RunType ==
  ASSUME PollTypeOK, NEW p \in Poll, run(p)
  PROVE  inFlight' = p /\ poll' \in [Poll -> PollState]
BY Rests DEF PollTypeOK, run

\* as do those who waited for it when it settles.
LEMMA SettleType ==
  ASSUME PollTypeOK, NEW p \in Poll, Settle(p)
  PROVE  /\ inFlight' \in Poll \cup {NoPoll}
         /\ cycle' \in Poll \cup {"none", "diagnostics"}
         /\ poll' \in [Poll -> PollState]
         /\ upload' \in [Upload -> UploadState]
<1>1. inFlight' \in Poll \cup {NoPoll} /\ cycle' \in Poll \cup {"none", "diagnostics"}
  BY DEF PollTypeOK, Settle
<1>2. poll' \in [Poll -> PollState]
  BY Rests DEF PollTypeOK, Settle
<1>3. \A j \in Upload :
        [upload[j] EXCEPT !.pc = "again", !.on = NoPoll] \in UploadState
  <2>1. \A j \in Upload : upload[j] \in UploadState
    BY DEF PollTypeOK
  <2> QED  BY <2>1 DEF UploadState
<1>4. upload' \in [Upload -> UploadState]
  BY <1>3, Rests DEF PollTypeOK, Settle
<1> QED  BY <1>1, <1>2, <1>4

\* Updates of one upload.
LEMMA UploadUpdates ==
  ASSUME NEW u \in UploadState
  PROVE  /\ \A n \in Nat : [u EXCEPT !.pc = "refresh", !.revision = n] \in UploadState
         /\ \A p \in Poll : /\ [u EXCEPT !.pc = "await", !.on = p] \in UploadState
                            /\ [u EXCEPT !.pc = "joined", !.on = p] \in UploadState
         /\ u.attempt < RETRIES =>
              [u EXCEPT !.attempt = u.attempt + 1] \in UploadState
         /\ \A s \in Scope : [u EXCEPT !.pc = "put", !.scope = {s},
                                        !.attempt = 1] \in UploadState
<1>1. \A n \in Nat : [u EXCEPT !.pc = "refresh", !.revision = n] \in UploadState
  BY DEF UploadState
<1>2. \A p \in Poll : /\ [u EXCEPT !.pc = "await", !.on = p] \in UploadState
                      /\ [u EXCEPT !.pc = "joined", !.on = p] \in UploadState
  BY DEF UploadState
<1>3. u.attempt < RETRIES =>
              [u EXCEPT !.attempt = u.attempt + 1] \in UploadState
  <2>1. u.attempt \in 0..RETRIES
    BY DEF UploadState
  <2>2. u.attempt < RETRIES => u.attempt + 1 \in 0..RETRIES
    BY <2>1, PollAssumption
  <2> QED  BY <2>2 DEF UploadState
<1>4. \A s \in Scope : [u EXCEPT !.pc = "put", !.scope = {s},
                                  !.attempt = 1] \in UploadState
  <2>1. 1 \in 0..RETRIES
    BY PollAssumption
  <2> QED  BY <2>1 DEF UploadState
<1> QED  BY <1>1, <1>2, <1>3, <1>4

\* Steps of polls keep the types,
LEMMA PollStepType ==
  ASSUME PollTypeOK, NEW p \in Poll, PollStep(p)
  PROVE  PollTypeOK'
<1> USE DEF statusVars, access, worker, storage, history
<1>p. poll[p] \in PollState
  BY DEF PollTypeOK
<1>1. CASE Answer(p)
  <2>1. \A s \in Scope : (IF s \in granted
              THEN [revision |-> pointer[s], health |-> health[s]]
              ELSE Unlisted) \in Listing
    BY PollAssumption DEF PollTypeOK, Listing, Unlisted
  <2> DEFINE status == [s \in Scope |->
              IF s \in granted
              THEN [revision |-> pointer[s], health |-> health[s]]
              ELSE Unlisted]
  <2>2. status \in [Scope -> Listing]
    BY <2>1
  <2> HIDE DEF status
  <2>3. [poll[p] EXCEPT !.pc = "load", !.status = status, !.view = top] \in PollState
    BY <1>p, <2>2 DEF PollState, PollTypeOK
  <2>4. poll' = [poll EXCEPT ![p] =
                   [poll[p] EXCEPT !.pc = "load", !.status = status, !.view = top]]
    BY <1>1 DEF Answer, status
  <2>5. poll' \in [Poll -> PollState]
    BY <2>3, <2>4 DEF PollTypeOK
  <2> QED  BY <1>1, <2>5 DEF Answer, PollTypeOK
<1>2. CASE Load(p)
  <2> DEFINE listed == {s \in Scope : poll[p].status[s] # Unlisted}
  <2>1. [poll[p] EXCEPT !.pc = "evaluate", !.previous = controlPlaneState,
                        !.todo = listed] \in PollState
    BY <1>p DEF PollState, PollTypeOK
  <2>2. poll' = [poll EXCEPT ![p] =
           [poll[p] EXCEPT !.pc = "evaluate", !.previous = controlPlaneState,
                           !.todo = listed]]
    BY <1>2 DEF Load
  <2> HIDE DEF listed
  <2>3. poll' \in [Poll -> PollState]
    BY <2>1, <2>2 DEF PollTypeOK
  <2> QED  BY <1>2, <2>3 DEF Load, PollTypeOK
<1>3. ASSUME NEW s \in Scope, Evaluate(p, s)  PROVE PollTypeOK'
  <2> DEFINE status == poll[p].status[s]
             previous == poll[p].previous[s]
  <2>1. status \in Listing /\ previous \in State
    BY <1>p DEF PollState
  <2>2. StateAfter(status, previous) \in State /\ Notices(status, previous) \subseteq Notice
    BY <2>1, EvaluationType DEF PollTypeOK
  <2> HIDE DEF status, previous
  <2>3. [poll[p].next EXCEPT ![s] = StateAfter(status, previous)] \in [Scope -> State]
    BY <1>p, <2>2 DEF PollState
  <2>4. [poll[p] EXCEPT !.todo = @ \ {s},
                        !.next = [poll[p].next EXCEPT ![s] = StateAfter(status, previous)]]
          \in PollState
    BY <1>p, <2>3 DEF PollState
  <2>5. poll' = [poll EXCEPT ![p] = [poll[p] EXCEPT !.todo = @ \ {s},
                   !.next = [poll[p].next EXCEPT ![s] = StateAfter(status, previous)]]]
    BY <1>3 DEF Evaluate, PollTypeOK, status, previous
  <2>6. poll' \in [Poll -> PollState]
    BY <2>4, <2>5 DEF PollTypeOK
  <2>7. shown' \in [Scope -> SUBSET Notice]
    BY <1>3, <2>2 DEF Evaluate, PollTypeOK, status, previous
  <2> QED  BY <1>3, <2>6, <2>7 DEF Evaluate, PollTypeOK
<1>4. CASE Save(p)
  <2>1. controlPlaneState' \in [Scope -> State] /\ brokerStatus' \in Shown
    BY <1>4, <1>p DEF Save, PollState, Shown
  <2>2. shown' \in [Scope -> SUBSET Notice] /\ saved' \in [Scope -> SUBSET Notice]
    BY <1>4 DEF Save, PollTypeOK
  <2>3. /\ inFlight' \in Poll \cup {NoPoll}
        /\ cycle' \in Poll \cup {"none", "diagnostics"}
        /\ poll' \in [Poll -> PollState]
        /\ upload' \in [Upload -> UploadState]
    BY <1>4, SettleType DEF Save
  <2> QED  BY <1>4, <2>1, <2>2, <2>3 DEF Save, PollTypeOK
<1>5. CASE PollFails(p)
  <2>1. brokerStatus' \in Shown
    BY <1>5 DEF PollFails, PollTypeOK, Shown
  <2>2. faults' \in 0..MaxFaults
    BY <1>5, PollAssumption DEF PollFails, PollTypeOK, Fault
  <2>3. /\ inFlight' \in Poll \cup {NoPoll}
        /\ cycle' \in Poll \cup {"none", "diagnostics"}
        /\ poll' \in [Poll -> PollState]
        /\ upload' \in [Upload -> UploadState]
    BY <1>5, SettleType DEF PollFails
  <2> QED  BY <1>5, <2>1, <2>2, <2>3 DEF PollFails, PollTypeOK
<1> QED  BY <1>1, <1>2, <1>3, <1>4, <1>5 DEF PollStep

\* a retry that of its upload,
LEMMA RetryType ==
  ASSUME PollTypeOK, NEW j \in Upload, Retry(j)
  PROVE  upload' \in [Upload -> UploadState]
<1>1. upload[j] \in UploadState
  BY DEF PollTypeOK
<1>2. (IF upload[j].attempt < RETRIES
       THEN [upload[j] EXCEPT !.attempt = upload[j].attempt + 1]
       ELSE Rest) \in UploadState
  BY <1>1, UploadUpdates, Rests
<1> DEFINE u == IF upload[j].attempt < RETRIES
                THEN [upload[j] EXCEPT !.attempt = upload[j].attempt + 1]
                ELSE Rest
<1>3. upload' = [upload EXCEPT ![j] = u]
  BY DEF Retry
<1> HIDE DEF u
<1>4. u \in UploadState
  BY <1>2 DEF u
<1> QED  BY <1>3, <1>4 DEF PollTypeOK

\* and so do steps of uploads,
LEMMA UploadStepType ==
  ASSUME PollTypeOK, NEW j \in Upload, UploadStep(j)
  PROVE  PollTypeOK'
<1> USE DEF statusVars, access, worker, storage, history
<1>j. upload[j] \in UploadState
  BY DEF PollTypeOK
<1>f. Fault => faults' \in 0..MaxFaults
  BY PollAssumption DEF PollTypeOK, Fault
<1>1. ASSUME NEW s \in Scope, StartUpload(j, s)  PROVE PollTypeOK'
  <2>1. [Rest EXCEPT !.pc = "put", !.scope = {s}, !.attempt = 1] \in UploadState
    BY Rests, UploadUpdates
  <2>2. upload' \in [Upload -> UploadState]
    BY <1>1, <2>1 DEF PollTypeOK, StartUpload
  <2> QED  BY <1>1, <2>2 DEF StartUpload, PollTypeOK
<1>2. CASE PutAnswered(j)
  <2>1. PICK s \in upload[j].scope :
          /\ Publishes(s)
          /\ upload' = [upload EXCEPT ![j].pc = "refresh",
                                      ![j].revision = pointer'[s]]
    BY <1>2 DEF PutAnswered
  <2>2. s \in Scope
    BY <1>j DEF UploadState
  <2>3. /\ top' \in [Scope -> Nat]
        /\ pointer' \in [Scope -> 0..MaxRevision]
        /\ health' \in [Scope -> Health]
    BY <2>1, <2>2, BrokerType DEF Publishes
  <2>4. pointer'[s] \in Nat
    BY <2>2, <2>3
  <2>5. [upload[j] EXCEPT !.pc = "refresh", !.revision = pointer'[s]] \in UploadState
    BY <1>j, <2>4, UploadUpdates
  <2>6. upload' \in [Upload -> UploadState]
    BY <2>1, <2>5 DEF PollTypeOK
  <2> QED  BY <1>2, <2>3, <2>6 DEF PutAnswered, PollTypeOK
<1>3. CASE PutLost(j)
  <2>1. PICK s \in upload[j].scope : Publishes(s)
    BY <1>3 DEF PutLost
  <2>2. s \in Scope
    BY <1>j DEF UploadState
  <2>3. /\ top' \in [Scope -> Nat]
        /\ pointer' \in [Scope -> 0..MaxRevision]
        /\ health' \in [Scope -> Health]
    BY <2>1, <2>2, BrokerType DEF Publishes
  <2>4. upload' \in [Upload -> UploadState]
    BY <1>3, RetryType DEF PutLost
  <2> QED  BY <1>3, <1>f, <2>3, <2>4 DEF PutLost, PollTypeOK
<1>4. CASE PutFails(j)
  <2>1. upload' \in [Upload -> UploadState]
    BY <1>4, RetryType DEF PutFails
  <2>2. faults' \in 0..MaxFaults
    BY <1>4, <1>f DEF PutFails, PollTypeOK
  <2> QED  BY <1>4, <2>1, <2>2 DEF PutFails, PollTypeOK
<1>5. CASE Refresh(j)
  <2>1. CASE inFlight # NoPoll
    <3>1. [upload[j] EXCEPT !.pc = "await", !.on = inFlight] \in UploadState
      BY <1>j, <2>1, UploadUpdates DEF PollTypeOK
    <3>2. upload' \in [Upload -> UploadState]
      BY <1>5, <2>1, <3>1 DEF PollTypeOK, Refresh
    <3> QED  BY <1>5, <2>1, <3>2 DEF Refresh, PollTypeOK
  <2>2. CASE inFlight = NoPoll
    <3>1. PICK p \in Poll : run(p) /\ upload' = [upload EXCEPT ![j].pc = "joined", ![j].on = p]
      BY <1>5, <2>2 DEF Refresh
    <3>2. [upload[j] EXCEPT !.pc = "joined", !.on = p] \in UploadState
      BY <1>j, UploadUpdates
    <3>3. upload' \in [Upload -> UploadState]
      BY <3>1, <3>2 DEF PollTypeOK
    <3>4. inFlight' = p /\ poll' \in [Poll -> PollState]
      BY <3>1, RunType
    <3> QED  BY <1>5, <3>3, <3>4 DEF Refresh, PollTypeOK
  <2> QED  BY <2>1, <2>2
<1>6. CASE RefreshAgain(j)
  <2>1. PICK p \in Poll : run(p) /\ upload' = [upload EXCEPT ![j].pc = "joined", ![j].on = p]
    BY <1>6 DEF RefreshAgain
  <2>2. [upload[j] EXCEPT !.pc = "joined", !.on = p] \in UploadState
    BY <1>j, UploadUpdates
  <2>3. upload' \in [Upload -> UploadState]
    BY <2>1, <2>2 DEF PollTypeOK
  <2>4. inFlight' = p /\ poll' \in [Poll -> PollState]
    BY <2>1, RunType
  <2> QED  BY <1>6, <2>3, <2>4 DEF RefreshAgain, PollTypeOK
<1> QED  BY <1>1, <1>2, <1>3, <1>4, <1>5, <1>6 DEF UploadStep

\* hence every step.
LEMMA TypeNext ==
  ASSUME PollTypeOK, [PollNext]_pollVars
  PROVE  PollTypeOK'
<1> USE DEF statusVars, access, worker, storage, history
<1>1. CASE PollNow
  <2>1. inFlight' \in Poll /\ poll' \in [Poll -> PollState]
    BY <1>1, RunType DEF PollNow
  <2> QED  BY <1>1, <2>1 DEF PollNow, PollTypeOK
<1>2. CASE runPeriodicCycle
  <2>1. inFlight' \in Poll /\ poll' \in [Poll -> PollState] /\ cycle' \in Poll
    BY <1>2, RunType DEF runPeriodicCycle
  <2> QED  BY <1>2, <2>1 DEF runPeriodicCycle, PollTypeOK
<1>3. CASE EndCycle
  BY <1>3 DEF EndCycle, PollTypeOK
<1>4. CASE Stop
  BY <1>4, Rests, PollAssumption DEF Stop, Fault, PollTypeOK
<1>5. CASE Broker
  <2>1. /\ top' \in [Scope -> Nat]
        /\ pointer' \in [Scope -> 0..MaxRevision]
        /\ health' \in [Scope -> Health]
    BY <1>5, BrokerType DEF Broker
  <2> QED  BY <1>5, <2>1 DEF Broker, PollTypeOK
<1>6. CASE Brokerctl
  BY <1>6 DEF Brokerctl, PollTypeOK
<1>7. CASE Tick
  BY <1>7, PollAssumption DEF Tick, PollTypeOK
<1>8. CASE UNCHANGED pollVars
  BY <1>8 DEF pollVars, PollTypeOK
<1> QED  BY <1>1, <1>2, <1>3, <1>4, <1>5, <1>6, <1>7, <1>8, PollStepType,
            UploadStepType DEF PollNext

\* Types hold, and no upload makes more than RETRIES attempts (upload of
\* service-worker.js).
THEOREM PollTypeCorrect == PollSpec => []PollTypeOK
BY TypeInit, TypeNext, PTL DEF PollSpec

----------------------------------------------------------------------------
(* The inductive invariants.                                               *)

\* At most one poll is under way, and it is the coordinator's.
OnePoll ==
    \A p \in Poll : IF inFlight = p THEN poll[p].pc # "idle"
                                    ELSE poll[p] = Idle

\* Uploads wait for that poll and for no other.
Waiting ==
    \A j \in Upload :
        IF upload[j].pc \in {"await", "joined"}
        THEN upload[j].on = inFlight /\ inFlight # NoPoll
        ELSE upload[j].on = NoPoll

Sharing == OnePoll /\ Waiting

\* Once its PUT is answered, the revision of an upload is known to the broker.
Stored(j) == upload[j].pc \in {"refresh", "await", "again", "joined"}

\* An upload is of one scope.
OneScope(j) == \A s, t \in upload[j].scope : s = t

Published ==
    /\ \A s \in Scope : pointer[s] <= top[s]
    /\ \A j \in Upload : OneScope(j)
    /\ \A j \in Upload : Stored(j) =>
         \A s \in upload[j].scope : upload[j].revision <= top[s]

\* An upload that has waited for earlier polls to pass can join any poll that
\* is in flight then.
Fresh ==
    \A j \in Upload, p \in Poll :
        upload[j].pc \in {"again", "joined"} /\ inFlight = p =>
          \/ poll[p].pc = "ask"
          \/ \A s \in upload[j].scope : upload[j].revision <= poll[p].view[s]

\* Answers in hand are no older than what is stored.
InOrder ==
    \A s \in Scope :
        /\ brokerStatus.view[s] <= top[s]
        /\ \A p \in Poll : poll[p].pc \in {"load", "evaluate"} =>
             /\ brokerStatus.view[s] <= poll[p].view[s]
             /\ poll[p].view[s] <= top[s]

Freshness == PollTypeOK /\ Sharing /\ Published /\ Fresh /\ InOrder

\* What a state records has been shown.
Told(state, notices) ==
    /\ state.health = "refresh_required" => Alarmed(state.revision) \in notices
    /\ state.passed => Expiry(state.revision, 0) \in notices
    /\ \A t \in state.fired : \E n \in notices :
         n.event = "expiry" /\ n.revision = state.revision /\ n.hours <= t

\* A warning of expiry, once due, stays due: time does not go back.
Due(n) ==
    n.event = "expiry" =>
      /\ n.revision # 0
      /\ \E e \in expires[n.revision] : e - now <= n.hours

\* A state that makes all the warnings given so far, and weaker ones, old.
Covers(state, notices) ==
    \A n \in notices :
        n.event = "expiry" /\ n.revision = state.revision =>
          /\ n.hours = 0 => state.passed
          /\ \A t \in Thresholds : t >= n.hours => t \in state.fired

\* What is stored: states, status and notices agree.
StorageAgrees ==
    \A s \in Scope :
        /\ Told(controlPlaneState[s], shown[s])
        /\ brokerStatus.profiles[s].health = controlPlaneState[s].health
        /\ brokerStatus.profiles[s].revision = controlPlaneState[s].revision
        /\ \A n \in shown[s] : Due(n)
        /\ \A n \in saved[s] : Topical(n, controlPlaneState[s])
        /\ Covers(controlPlaneState[s], saved[s])

\* What a poll is about to store: the scopes it is done with.
Evaluated(p, s) ==
    /\ Told(poll[p].next[s], shown[s])
    /\ Covers(poll[p].next[s], shown[s])
    /\ poll[p].next[s].revision = poll[p].status[s].revision
    /\ poll[p].next[s].health = poll[p].status[s].health

PollAgrees ==
    \A p \in Poll :
        IF poll[p].pc = "evaluate"
        THEN /\ poll[p].previous = controlPlaneState
             /\ \A s \in Scope \ poll[p].todo : Evaluated(p, s)
        ELSE poll[p].todo = {} /\ poll[p].next = NoStates

Memory == PollTypeOK /\ Sharing /\ StorageAgrees /\ PollAgrees

----------------------------------------------------------------------------
(* Sharing.                                                                *)

\* Nothing is shared at first.
LEMMA SharingInit == PollInit => Sharing
BY PollAssumption DEF PollInit, Sharing, OnePoll, Waiting, Idle, Rest

\* run(): nothing changes, or a poll starts where there was none.
LEMMA RunShares ==
  ASSUME PollTypeOK, OnePoll, NEW p \in Poll, run(p)
  PROVE  /\ inFlight' = p
         /\ OnePoll'
         /\ \/ UNCHANGED <<inFlight, poll>>
            \/ inFlight = NoPoll /\ poll' = [poll EXCEPT ![p] = Asking]
<1>1. Asking.pc = "ask"
  BY DEF Asking, Idle
<1> QED  BY <1>1, PollAssumption DEF PollTypeOK, OnePoll, run

\* The end of the poll in flight leaves no poll, and nobody who waits for one.
LEMMA SettleShares ==
  ASSUME PollTypeOK, Sharing, NEW p \in Poll, poll[p].pc # "idle", Settle(p)
  PROVE  /\ inFlight = p /\ inFlight' = NoPoll
         /\ poll' = [q \in Poll |-> Idle]
         /\ \A j \in Upload :
              IF upload[j].pc = "await"
              THEN upload'[j] = [upload[j] EXCEPT !.pc = "again", !.on = NoPoll]
              ELSE upload'[j] = IF upload[j].pc = "joined" THEN Rest
                                                           ELSE upload[j]
         /\ Sharing'
<1>1. inFlight = p
  BY DEF Sharing, OnePoll, Idle
<1>2. inFlight' = NoPoll
  BY <1>1 DEF Settle
<1>3. poll' = [q \in Poll |-> Idle]
  BY <1>1 DEF Settle, Sharing, OnePoll, PollTypeOK
<1>4. \A j \in Upload :
         IF upload[j].pc = "await"
         THEN upload'[j] = [upload[j] EXCEPT !.pc = "again", !.on = NoPoll]
         ELSE upload'[j] = IF upload[j].pc = "joined" THEN Rest
                                                      ELSE upload[j]
  BY <1>1, PollAssumption DEF Settle, Sharing, Waiting
<1>5. OnePoll'
  BY <1>2, <1>3, PollAssumption DEF OnePoll
<1>6. Waiting'
  <2> SUFFICES ASSUME NEW j \in Upload
               PROVE  /\ upload'[j].pc \notin {"await", "joined"}
                      /\ upload'[j].on = NoPoll
    BY DEF Waiting
  <2>1. upload[j] \in UploadState
    BY DEF PollTypeOK
  <2>2. CASE upload[j].pc = "await"
    BY <1>4, <2>1, <2>2 DEF UploadState
  <2>3. CASE upload[j].pc = "joined"
    <3>1. upload'[j] = Rest
      BY <1>4, <2>3
    <3> QED  BY <3>1 DEF Rest
  <2>4. CASE upload[j].pc \notin {"await", "joined"}
    BY <1>4, <2>4 DEF Sharing, Waiting
  <2> QED  BY <2>2, <2>3, <2>4
<1> QED  BY <1>1, <1>2, <1>3, <1>4, <1>5, <1>6 DEF Sharing

\* A step of the poll in flight that is not its last.
LEMMA StepShares ==
  ASSUME PollTypeOK, Sharing, NEW p \in Poll, poll[p].pc # "idle",
         NEW q \in PollState, q.pc # "idle",
         poll' = [poll EXCEPT ![p] = q], UNCHANGED <<inFlight, upload>>
  PROVE  Sharing'
<1>1. inFlight = p
  BY DEF Sharing, OnePoll, Idle
<1> QED  BY <1>1 DEF Sharing, OnePoll, Waiting, PollTypeOK

\* The awaits of a poll before its last one, as updates of its record.
LEMMA PollAdvances ==
  ASSUME PollTypeOK, NEW p \in Poll,
         Answer(p) \/ Load(p) \/ \E s \in Scope : Evaluate(p, s)
  PROVE  /\ UNCHANGED <<statusVars, inFlight, upload, storage>>
         /\ poll[p].pc # "idle"
         /\ \E q \in PollState : /\ poll' = [poll EXCEPT ![p] = q]
                                 /\ q.pc # "idle"
<1>1. /\ UNCHANGED <<statusVars, inFlight, upload, storage>>
      /\ poll[p].pc # "idle"
  BY DEF Answer, Load, Evaluate, worker
<1>2. poll' = [poll EXCEPT ![p] = poll'[p]]
  BY DEF Answer, Load, Evaluate, PollTypeOK
<1>3. poll'[p] \in PollState
  BY PollStepType DEF PollStep, PollTypeOK
<1>4. poll[p] \in PollState
  BY DEF PollTypeOK
<1>5. poll'[p].pc # "idle"
  <2>1. CASE Answer(p)
    BY <1>4, <2>1 DEF Answer, PollTypeOK, PollState
  <2>2. CASE Load(p)
    BY <1>4, <2>2 DEF Load, PollTypeOK, PollState
  <2>3. ASSUME NEW s \in Scope, Evaluate(p, s)  PROVE poll'[p].pc # "idle"
    <3>1. poll'[p].pc = poll[p].pc
      BY <1>4, <2>3 DEF Evaluate, PollTypeOK, PollState
    <3> QED  BY <1>1, <3>1
  <2> QED  BY <2>1, <2>2, <2>3
<1> QED  BY <1>1, <1>2, <1>3, <1>5

\* Attempts of an upload that has not been answered.
LEMMA RetryShares ==
  ASSUME PollTypeOK, Sharing, NEW j \in Upload, upload[j].pc = "put", Retry(j),
         UNCHANGED <<inFlight, poll>>
  PROVE  /\ Sharing'
         /\ upload'[j].pc \in {"idle", "put"}
         /\ \A i \in Upload : i # j => upload'[i] = upload[i]
<1>1. upload[j] \in UploadState
  BY DEF PollTypeOK
<1>2. \A i \in Upload : i # j => upload'[i] = upload[i]
  BY DEF Retry, PollTypeOK
<1>3. upload'[j].pc \in {"idle", "put"} /\ upload'[j].on = NoPoll
  <2>1. CASE upload[j].attempt < RETRIES
    <3>1. upload'[j] = [upload[j] EXCEPT !.attempt = upload[j].attempt + 1]
      BY <2>1 DEF Retry, PollTypeOK
    <3> QED  BY <1>1, <3>1 DEF UploadState, Sharing, Waiting
  <2>2. CASE ~(upload[j].attempt < RETRIES)
    <3>1. upload'[j] = Rest
      BY <2>2 DEF Retry, PollTypeOK
    <3> QED  BY <3>1 DEF Rest
  <2> QED  BY <2>1, <2>2
<1> QED  BY <1>2, <1>3 DEF Sharing, OnePoll, Waiting

\* Steps of uploads preserve the invariant of sharing,
LEMMA UploadShares ==
  ASSUME PollTypeOK, Sharing, NEW j \in Upload, UploadStep(j)
  PROVE  Sharing'
<1>j. upload[j] \in UploadState
  BY DEF PollTypeOK
<1>1. ASSUME NEW s \in Scope, StartUpload(j, s)  PROVE Sharing'
  <2>1. [Rest EXCEPT !.pc = "put", !.scope = {s}, !.attempt = 1].pc = "put"
        /\ [Rest EXCEPT !.pc = "put", !.scope = {s}, !.attempt = 1].on = NoPoll
    BY DEF Rest
  <2> QED  BY <1>1, <2>1 DEF StartUpload, Sharing, OnePoll, Waiting, PollTypeOK,
                              worker
<1>2. CASE PutAnswered(j)
  <2>1. upload'[j].pc = "refresh" /\ upload'[j].on = NoPoll
    BY <1>2, <1>j DEF PutAnswered, Sharing, Waiting, PollTypeOK, UploadState
  <2>2. \A i \in Upload : i # j => upload'[i] = upload[i]
    BY <1>2 DEF PutAnswered, PollTypeOK
  <2> QED  BY <1>2, <2>1, <2>2 DEF PutAnswered, worker, Sharing, OnePoll, Waiting
<1>3. CASE PutLost(j)
  BY <1>3, RetryShares DEF PutLost, worker
<1>4. CASE PutFails(j)
  BY <1>4, RetryShares DEF PutFails, worker
<1>5. ASSUME NEW p \in Poll, run(p), upload[j].pc \in {"refresh", "again"},
             inFlight = NoPoll \/ upload[j].pc = "again",
             upload' = [upload EXCEPT ![j].pc = "joined", ![j].on = p]
      PROVE  Sharing'
  <2>1. inFlight' = p /\ OnePoll' /\ (inFlight = NoPoll \/ UNCHANGED inFlight)
    BY <1>5, RunShares DEF Sharing
  <2>2. upload'[j].pc = "joined" /\ upload'[j].on = p
    BY <1>5, <1>j DEF PollTypeOK, UploadState
  <2>3. \A i \in Upload : i # j => upload'[i] = upload[i]
    BY <1>5 DEF PollTypeOK
  <2>4. Waiting'
    <3> SUFFICES ASSUME NEW i \in Upload, i # j
                 PROVE  IF upload[i].pc \in {"await", "joined"}
                        THEN upload[i].on = inFlight'
                        ELSE upload[i].on = NoPoll
      BY <2>1, <2>2, <2>3, PollAssumption DEF Waiting
    <3> QED  BY <2>1 DEF Sharing, Waiting
  <2> QED  BY <2>1, <2>4 DEF Sharing
<1>6. CASE Refresh(j)
  <2>1. CASE inFlight # NoPoll
    <3>1. /\ UNCHANGED <<inFlight, poll>>
          /\ upload' = [upload EXCEPT ![j].pc = "await", ![j].on = inFlight]
      BY <1>6, <2>1 DEF Refresh
    <3>2. upload'[j].pc = "await" /\ upload'[j].on = inFlight
      BY <3>1, <1>j DEF PollTypeOK, UploadState
    <3>3. \A i \in Upload : i # j => upload'[i] = upload[i]
      BY <3>1 DEF PollTypeOK
    <3> QED  BY <2>1, <3>1, <3>2, <3>3 DEF Sharing, OnePoll, Waiting
  <2>2. CASE inFlight = NoPoll
    BY <1>5, <1>6, <2>2 DEF Refresh
  <2> QED  BY <2>1, <2>2
<1>7. CASE RefreshAgain(j)
  BY <1>5, <1>7 DEF RefreshAgain
<1> QED  BY <1>1, <1>2, <1>3, <1>4, <1>6, <1>7 DEF UploadStep

\* and so do steps of polls,
LEMMA PollShares ==
  ASSUME PollTypeOK, Sharing, NEW p \in Poll, PollStep(p)
  PROVE  Sharing'
<1>1. CASE Answer(p) \/ Load(p) \/ \E s \in Scope : Evaluate(p, s)
  BY <1>1, PollAdvances, StepShares
<1>2. CASE Save(p)
  BY <1>2, SettleShares DEF Save
<1>3. CASE PollFails(p)
  BY <1>3, SettleShares DEF PollFails
<1> QED  BY <1>1, <1>2, <1>3 DEF PollStep

\* hence every step.
LEMMA SharingNext ==
  ASSUME PollTypeOK, Sharing, [PollNext]_pollVars
  PROVE  Sharing'
<1> USE DEF statusVars, access, worker, storage, history
<1>0. ASSUME NEW p \in Poll, run(p), UNCHANGED upload  PROVE Sharing'
  <2>1. inFlight' = p /\ OnePoll' /\ (inFlight = NoPoll \/ UNCHANGED inFlight)
    BY <1>0, RunShares DEF Sharing
  <2> QED  BY <1>0, <2>1, PollAssumption DEF Sharing, Waiting
<1>1. CASE PollNow
  BY <1>0, <1>1 DEF PollNow
<1>2. CASE runPeriodicCycle
  BY <1>0, <1>2 DEF runPeriodicCycle
<1>3. CASE Stop
  BY <1>3, PollAssumption DEF Stop, Sharing, OnePoll, Waiting, Rest
<1>4. CASE EndCycle \/ Broker \/ Brokerctl \/ Tick \/ UNCHANGED pollVars
  <2>1. UNCHANGED <<inFlight, poll, upload>>
    BY <1>4 DEF EndCycle, Broker, Brokerctl, Tick, pollVars
  <2> QED  BY <2>1 DEF Sharing, OnePoll, Waiting
<1> QED  BY <1>1, <1>2, <1>3, <1>4, PollShares, UploadShares DEF PollNext

----------------------------------------------------------------------------
(* Freshness.                                                              *)

\* Revisions are never taken back.
LEMMA TopGrows ==
  ASSUME PollTypeOK, \A s \in Scope : pointer[s] <= top[s],
         StatusNext \/ (\E s \in Scope : Publish(s)) \/ UNCHANGED statusVars
  PROVE  \A s \in Scope : top[s] <= top'[s] /\ pointer'[s] <= top'[s]
<1> USE DEF PollTypeOK
<1>1. ASSUME NEW t \in Scope, Publish(t)
      PROVE  \A s \in Scope : top[s] <= top'[s] /\ pointer'[s] <= top'[s]
  BY <1>1, PollAssumption DEF Publish
<1>2. ASSUME NEW t \in Scope, Raise(t)
      PROVE  \A s \in Scope : top[s] <= top'[s] /\ pointer'[s] <= top'[s]
  BY <1>2 DEF Raise
<1>3. ASSUME NEW t \in Scope, NEW n \in 1..MaxRevision, Return(t, n)
      PROVE  \A s \in Scope : top[s] <= top'[s] /\ pointer'[s] <= top'[s]
  BY <1>3, PollAssumption DEF Return
<1>4. ASSUME NEW scopes \in SUBSET Scope, Calm(scopes)
      PROVE  \A s \in Scope : top[s] <= top'[s] /\ pointer'[s] <= top'[s]
  BY <1>4 DEF Calm
<1> QED  BY <1>1, <1>2, <1>3, <1>4 DEF StatusNext, statusVars

\* ... which holds for every step of the system.
LEMMA BrokerGoesOn ==
  ASSUME PollTypeOK, [PollNext]_pollVars
  PROVE  StatusNext \/ (\E s \in Scope : Publish(s)) \/ UNCHANGED statusVars
<1>1. CASE PollNow \/ runPeriodicCycle \/ EndCycle \/ Stop \/ Broker
           \/ Brokerctl \/ Tick
  BY <1>1 DEF PollNow, runPeriodicCycle, EndCycle, Stop, Broker, Brokerctl, Tick
<1>2. ASSUME NEW p \in Poll, PollStep(p)  PROVE UNCHANGED statusVars
  BY <1>2 DEF PollStep, Answer, Load, Evaluate, Save, PollFails
<1>3. ASSUME NEW j \in Upload, UploadStep(j)
      PROVE  (\E s \in Scope : Publish(s)) \/ UNCHANGED statusVars
  <2>1. upload[j].scope \subseteq Scope
    BY DEF PollTypeOK, UploadState
  <2> QED  BY <1>3, <2>1 DEF UploadStep, StartUpload, PutAnswered, PutLost,
                             PutFails, Refresh, RefreshAgain, Publishes
<1>4. CASE UNCHANGED pollVars
  BY <1>4 DEF pollVars
<1> QED  BY <1>1, <1>2, <1>3, <1>4 DEF PollNext


\* How an upload may change: it is left alone or gets past a poll, it begins, tries
\* again or ends, or its PUT was answered with what is current by then.
Passes(j) ==
    /\ upload'[j].scope = upload[j].scope
    /\ upload'[j].revision = upload[j].revision
    /\ \/ upload'[j].pc = upload[j].pc
       \/ upload[j].pc = "refresh" /\ upload'[j].pc = "await"
       \/ upload[j].pc = "await" /\ upload'[j].pc = "again" /\ inFlight' = NoPoll
       \/ upload[j].pc = "again" /\ upload'[j].pc = "joined"
       \/ upload[j].pc = "refresh" /\ upload'[j].pc = "joined" /\ inFlight = NoPoll

Puts(j) == upload'[j].pc \in {"idle", "put"} /\ (OneScope(j) => OneScope(j)')

Succeeds(j) ==
    /\ upload'[j].pc = "refresh"
    /\ upload'[j].scope = upload[j].scope
    /\ \E s \in upload[j].scope : upload'[j].revision = pointer'[s]

\* These are all the ways in which an upload moves.
LEMMA UploadMoves ==
  ASSUME PollTypeOK, Sharing, [PollNext]_pollVars, NEW j \in Upload
  PROVE  Passes(j) \/ Puts(j) \/ Succeeds(j)
<1>j. upload[j] \in UploadState
  BY DEF PollTypeOK
<1>0. ASSUME upload'[j] = upload[j]  PROVE Passes(j)
  BY <1>0 DEF Passes
<1>1. ASSUME upload'[j] = Rest  PROVE Puts(j)
  <2>1. Rest.pc = "idle" /\ Rest.scope = {}
    BY DEF Rest
  <2> QED  BY <1>1, <2>1 DEF Puts, OneScope
<1>2. CASE PollNow \/ runPeriodicCycle \/ EndCycle \/ Broker \/ Brokerctl \/ Tick
           \/ UNCHANGED pollVars
  BY <1>0, <1>2 DEF PollNow, runPeriodicCycle, EndCycle, Broker, Brokerctl, Tick,
                    pollVars
<1>3. CASE Stop
  BY <1>1, <1>3 DEF Stop
<1>4. ASSUME NEW p \in Poll, PollStep(p)  PROVE Passes(j) \/ Puts(j)
  <2>1. CASE Answer(p) \/ Load(p) \/ \E s \in Scope : Evaluate(p, s)
    BY <1>0, <2>1 DEF Answer, Load, Evaluate
  <2>2. CASE poll[p].pc # "idle" /\ Settle(p)
    <3>1. CASE upload[j].pc = "await"
      <4>1. /\ upload'[j] = [upload[j] EXCEPT !.pc = "again", !.on = NoPoll]
            /\ inFlight' = NoPoll
        BY <2>2, <3>1, SettleShares
      <4> QED  BY <1>j, <3>1, <4>1 DEF Passes, UploadState
    <3>2. CASE upload[j].pc = "joined"
      BY <1>1, <2>2, <3>2, SettleShares
    <3>3. CASE upload[j].pc \notin {"await", "joined"}
      BY <1>0, <2>2, <3>3, SettleShares
    <3> QED  BY <3>1, <3>2, <3>3
  <2> QED  BY <1>4, <2>1, <2>2 DEF PollStep, Save, PollFails
<1>5. ASSUME NEW i \in Upload, UploadStep(i), i # j  PROVE Passes(j)
  BY <1>0, <1>5 DEF UploadStep, StartUpload, PutAnswered, PutLost, PutFails, Retry,
                    Refresh, RefreshAgain, PollTypeOK
<1>6. ASSUME Retry(j), upload[j].pc = "put"  PROVE Puts(j)
  <2>1. CASE upload[j].attempt < RETRIES
    <3>1. upload'[j] = [upload[j] EXCEPT !.attempt = upload[j].attempt + 1]
      BY <1>6, <2>1 DEF Retry, PollTypeOK
    <3> QED  BY <1>6, <1>j, <3>1 DEF UploadState, Puts, OneScope
  <2>2. CASE ~(upload[j].attempt < RETRIES)
    BY <1>1, <1>6, <2>2 DEF Retry, PollTypeOK
  <2> QED  BY <2>1, <2>2
<1>7. ASSUME NEW p \in Poll, upload' = [upload EXCEPT ![j].pc = "joined", ![j].on = p]
      PROVE  /\ upload'[j].pc = "joined"
             /\ upload'[j].scope = upload[j].scope
             /\ upload'[j].revision = upload[j].revision
  BY <1>7, <1>j DEF PollTypeOK, UploadState
<1>8. CASE UploadStep(j)
  <2>1. ASSUME NEW s \in Scope, StartUpload(j, s)  PROVE Puts(j)
    <3>1. upload'[j] = [Rest EXCEPT !.pc = "put", !.scope = {s}, !.attempt = 1]
      BY <2>1 DEF StartUpload, PollTypeOK
    <3> QED  BY <3>1 DEF Rest, Puts, OneScope
  <2>2. CASE PutAnswered(j)
    <3>1. PICK s \in upload[j].scope :
            upload' = [upload EXCEPT ![j].pc = "refresh", ![j].revision = pointer'[s]]
      BY <2>2 DEF PutAnswered
    <3>2. /\ upload'[j].pc = "refresh"
          /\ upload'[j].scope = upload[j].scope
          /\ upload'[j].revision = pointer'[s]
      BY <3>1, <1>j DEF PollTypeOK, UploadState
    <3> QED  BY <3>2 DEF Succeeds
  <2>3. CASE PutLost(j) \/ PutFails(j)
    BY <1>6, <2>3 DEF PutLost, PutFails
  <2>4. CASE Refresh(j)
    <3>1. CASE inFlight # NoPoll
      <4>1. upload' = [upload EXCEPT ![j].pc = "await", ![j].on = inFlight]
        BY <2>4, <3>1 DEF Refresh
      <4>2. /\ upload'[j].pc = "await"
            /\ upload'[j].scope = upload[j].scope
            /\ upload'[j].revision = upload[j].revision
        BY <4>1, <1>j DEF PollTypeOK, UploadState
      <4> QED  BY <2>4, <4>2 DEF Refresh, Passes
    <3>2. CASE inFlight = NoPoll
      BY <1>7, <2>4, <3>2 DEF Refresh, Passes
    <3> QED  BY <3>1, <3>2
  <2>5. CASE RefreshAgain(j)
    BY <1>7, <2>5 DEF RefreshAgain, Passes
  <2> QED  BY <1>8, <2>1, <2>2, <2>3, <2>4, <2>5 DEF UploadStep
<1> QED  BY <1>2, <1>3, <1>4, <1>5, <1>8 DEF PollNext

\* The poll in flight after a step has not asked yet, has just been answered,
\* or has the answer it had.
LEMMA PollMoves ==
  ASSUME PollTypeOK, Sharing, [PollNext]_pollVars, NEW p \in Poll, inFlight' = p
  PROVE  \/ poll'[p].pc = "ask"
         \/ inFlight = p /\ poll'[p].view = top /\ UNCHANGED <<top, storage>>
         \/ /\ inFlight = p /\ poll'[p].view = poll[p].view
            /\ poll[p].pc \in {"load", "evaluate"} /\ UNCHANGED storage
<1>p. poll[p] \in PollState
  BY DEF PollTypeOK
<1>0. ASSUME inFlight = p, poll'[p] = poll[p], UNCHANGED storage
      PROVE  \/ poll'[p].pc = "ask"
             \/ /\ poll'[p].view = poll[p].view
                /\ poll[p].pc \in {"load", "evaluate"} /\ UNCHANGED storage
  BY <1>0, <1>p DEF Sharing, OnePoll, PollState
<1>1. ASSUME NEW q \in Poll, run(q), UNCHANGED storage
      PROVE  \/ poll'[p].pc = "ask"
             \/ /\ inFlight = p /\ poll'[p].view = poll[p].view
                /\ poll[p].pc \in {"load", "evaluate"} /\ UNCHANGED storage
  <2>1. q = p
    BY <1>1, RunShares DEF Sharing
  <2>2. CASE poll' = [poll EXCEPT ![p] = Asking]
    BY <2>2 DEF Asking, Idle, PollTypeOK
  <2>3. CASE UNCHANGED <<inFlight, poll>>
    BY <1>0, <1>1, <2>3
  <2> QED  BY <1>1, <2>1, <2>2, <2>3, RunShares DEF Sharing
<1>2. CASE PollNow \/ runPeriodicCycle
  BY <1>1, <1>2 DEF PollNow, runPeriodicCycle
<1>3. CASE EndCycle \/ Broker \/ Brokerctl \/ Tick \/ UNCHANGED pollVars
  <2>1. UNCHANGED <<inFlight, poll, storage>>
    BY <1>3 DEF EndCycle, Broker, Brokerctl, Tick, pollVars, worker
  <2> QED  BY <1>0, <2>1
<1>4. CASE Stop
  BY <1>4, PollAssumption DEF Stop
<1>5. ASSUME NEW q \in Poll, PollStep(q)
      PROVE  \/ inFlight = p /\ poll'[p].view = top /\ UNCHANGED <<top, storage>>
             \/ /\ inFlight = p /\ poll'[p].view = poll[p].view
                /\ poll[p].pc \in {"load", "evaluate"} /\ UNCHANGED storage
  <2>1. ~Save(q) /\ ~PollFails(q)
    BY <1>5, SettleShares, PollAssumption DEF Save, PollFails
  <2>2. Answer(q) \/ Load(q) \/ \E s \in Scope : Evaluate(q, s)
    BY <1>5, <2>1 DEF PollStep
  <2>3. q = p /\ inFlight = p
    BY <2>2, PollAdvances DEF Sharing, OnePoll, Idle
  <2>4. CASE Answer(p)
    BY <2>3, <2>4, <1>p DEF Answer, PollTypeOK, PollState, statusVars
  <2>5. CASE Load(p)
    BY <2>3, <2>5, <1>p DEF Load, PollTypeOK, PollState
  <2>6. ASSUME NEW s \in Scope, Evaluate(p, s)
        PROVE  poll'[p].view = poll[p].view /\ poll[p].pc = "evaluate" /\ UNCHANGED storage
    BY <2>6, <1>p DEF Evaluate, PollTypeOK, PollState
  <2> QED  BY <2>2, <2>3, <2>4, <2>5, <2>6
<1>6. ASSUME NEW j \in Upload, UploadStep(j)
      PROVE  \/ poll'[p].pc = "ask"
             \/ /\ inFlight = p /\ poll'[p].view = poll[p].view
                /\ poll[p].pc \in {"load", "evaluate"} /\ UNCHANGED storage
  <2>1. \/ UNCHANGED <<inFlight, poll, storage>>
        \/ \E q \in Poll : run(q) /\ UNCHANGED storage
    BY <1>6 DEF UploadStep, StartUpload, PutAnswered, PutLost, PutFails, Refresh,
                RefreshAgain, worker
  <2> QED  BY <1>0, <1>1, <2>1
<1> QED  BY <1>2, <1>3, <1>4, <1>5, <1>6 DEF PollNext

\* The invariant of freshness holds at first.
LEMMA FreshnessInit == PollInit => Freshness
<1> SUFFICES ASSUME PollInit PROVE Freshness
  OBVIOUS
<1>1. Rest.pc = "idle" /\ Rest.scope = {} /\ Idle.pc = "idle"
  BY DEF Rest, Idle
<1>2. Published /\ Fresh /\ InOrder
  BY <1>1 DEF PollInit, StatusInit, Published, OneScope, Stored, Fresh, InOrder, NoView
<1> QED  BY <1>2, TypeInit, SharingInit DEF Freshness

\* Every step preserves what uploads know to be published,
LEMMA PublishedNext ==
  ASSUME Freshness, [PollNext]_pollVars
  PROVE  Published'
<1>0. PollTypeOK /\ Sharing /\ PollTypeOK'
  BY TypeNext DEF Freshness
<1>1. \A s \in Scope : top[s] <= top'[s] /\ pointer'[s] <= top'[s]
  BY <1>0, BrokerGoesOn, TopGrows DEF Freshness, Published
<1> SUFFICES ASSUME NEW j \in Upload
             PROVE  /\ OneScope(j)'
                    /\ Stored(j)' => \A s \in upload'[j].scope :
                                       upload'[j].revision <= top'[s]
  BY <1>1 DEF Published
<1>2. upload[j] \in UploadState /\ upload'[j] \in UploadState
  BY <1>0 DEF PollTypeOK
<1>3. CASE Passes(j)
  BY <1>0, <1>1, <1>2, <1>3
  DEF Passes, Freshness, Published, OneScope, Stored, UploadState, PollTypeOK
<1>4. CASE Puts(j)
  BY <1>4 DEF Puts, Freshness, Published, Stored
<1>5. CASE Succeeds(j)
  BY <1>1, <1>2, <1>5 DEF Succeeds, Freshness, Published, OneScope, UploadState
<1> QED  BY <1>0, <1>3, <1>4, <1>5, UploadMoves

\* that what a refresh shows is fresh,
LEMMA FreshNext ==
  ASSUME Freshness, [PollNext]_pollVars
  PROVE  Fresh'
<1>0. PollTypeOK /\ Sharing
  BY DEF Freshness
<1> SUFFICES ASSUME NEW j \in Upload, NEW p \in Poll,
                    upload'[j].pc \in {"again", "joined"}, inFlight' = p
             PROVE  \/ poll'[p].pc = "ask"
                    \/ \A s \in upload'[j].scope : upload'[j].revision <= poll'[p].view[s]
  BY DEF Fresh
<1>1. Passes(j)
  BY <1>0, UploadMoves DEF Puts, Succeeds
<1>2. CASE inFlight = p /\ poll'[p].view = top
  BY <1>1, <1>2 DEF Passes, Freshness, Published, Stored
<1>3. CASE inFlight = p /\ poll'[p].view = poll[p].view /\ poll[p].pc # "ask"
  BY <1>1, <1>3, PollAssumption DEF Passes, Freshness, Fresh
<1> QED  BY <1>0, <1>2, <1>3, PollMoves

\* The stored answer changes only when a poll is saved.
LEMMA StatusMoves ==
  ASSUME PollTypeOK, [PollNext]_pollVars
  PROVE  \/ brokerStatus'.view = brokerStatus.view
         \/ \E p \in Poll : Save(p)
<1>1. CASE PollNow \/ runPeriodicCycle \/ EndCycle \/ Stop \/ Broker
           \/ Brokerctl \/ Tick
  BY <1>1 DEF PollNow, runPeriodicCycle, EndCycle, Stop, Broker, Brokerctl, Tick,
              storage
<1>2. ASSUME NEW p \in Poll, PollStep(p), ~Save(p)
      PROVE  brokerStatus'.view = brokerStatus.view
  <2>1. CASE PollFails(p)
    BY <2>1 DEF PollFails, PollTypeOK, Shown
  <2> QED  BY <1>2, <2>1 DEF PollStep, Answer, Load, Evaluate, storage
<1>3. ASSUME NEW j \in Upload, UploadStep(j)
      PROVE  brokerStatus'.view = brokerStatus.view
  BY <1>3 DEF UploadStep, StartUpload, PutAnswered, PutLost, PutFails, Refresh,
              RefreshAgain, storage
<1>4. CASE UNCHANGED pollVars
  BY <1>4 DEF pollVars, storage
<1> QED  BY <1>1, <1>2, <1>3, <1>4 DEF PollNext

\* ... and the answer it saves is no older.
LEMMA SaveIsLater ==
  ASSUME Freshness, NEW p \in Poll, Save(p), NEW s \in Scope
  PROVE  /\ brokerStatus'.view[s] = poll[p].view[s]
         /\ brokerStatus.view[s] <= brokerStatus'.view[s]
         /\ brokerStatus'.view[s] <= top[s]
<1>1. brokerStatus'.view = poll[p].view
  BY DEF Save
<1> QED  BY <1>1 DEF Save, Freshness, InOrder

\* and that answers come in the order of their polls.
LEMMA InOrderNext ==
  ASSUME Freshness, [PollNext]_pollVars
  PROVE  InOrder'
<1>0. PollTypeOK /\ Sharing /\ PollTypeOK' /\ Sharing'
  BY TypeNext, SharingNext DEF Freshness
<1>1. \A s \in Scope : top[s] <= top'[s] /\ top[s] \in Nat /\ top'[s] \in Nat
  BY <1>0, BrokerGoesOn, TopGrows DEF Freshness, Published, PollTypeOK
<1>2. \A s \in Scope : /\ brokerStatus.view[s] \in Nat
                       /\ \A p \in Poll : poll[p].view[s] \in Nat
  BY <1>0 DEF PollTypeOK, Shown, PollState
<1> SUFFICES ASSUME NEW s \in Scope
             PROVE  /\ brokerStatus'.view[s] <= top'[s]
                    /\ \A p \in Poll : poll'[p].pc \in {"load", "evaluate"} =>
                         /\ brokerStatus'.view[s] <= poll'[p].view[s]
                         /\ poll'[p].view[s] <= top'[s]
  BY DEF InOrder
<1>3. CASE \E p \in Poll : Save(p)
  <2>1. PICK p \in Poll : Save(p)
    BY <1>3
  <2>2. poll' = [q \in Poll |-> Idle]
    BY <1>0, <2>1, SettleShares DEF Save
  <2>3. brokerStatus'.view[s] <= top[s] /\ brokerStatus'.view[s] \in Nat
    BY <1>2, <2>1, SaveIsLater
  <2> QED  BY <1>1, <2>2, <2>3 DEF Idle
<1>4. CASE brokerStatus'.view = brokerStatus.view
  <2>1. brokerStatus'.view[s] <= top'[s]
    BY <1>1, <1>2, <1>4 DEF Freshness, InOrder
  <2>2. ASSUME NEW p \in Poll, poll'[p].pc \in {"load", "evaluate"}
        PROVE  brokerStatus'.view[s] <= poll'[p].view[s] /\ poll'[p].view[s] <= top'[s]
    <3>1. inFlight' = p
      BY <1>0, <2>2 DEF Sharing, OnePoll, Idle
    <3>2. CASE poll'[p].view = top
      BY <1>1, <1>2, <1>4, <3>2 DEF Freshness, InOrder
    <3>3. CASE poll'[p].view = poll[p].view /\ poll[p].pc \in {"load", "evaluate"}
      BY <1>1, <1>2, <1>4, <3>3 DEF Freshness, InOrder
    <3> QED  BY <1>0, <2>2, <3>1, <3>2, <3>3, PollMoves
  <2> QED  BY <2>1, <2>2
<1> QED  BY <1>0, <1>3, <1>4, StatusMoves

\* Every step preserves the invariant of freshness,
LEMMA FreshnessNext ==
  ASSUME Freshness, [PollNext]_pollVars
  PROVE  Freshness'
<1>1. PollTypeOK /\ Sharing
  BY DEF Freshness
<1> QED  BY <1>1, TypeNext, SharingNext, PublishedNext, FreshNext, InOrderNext DEF Freshness

\* which therefore always holds
LEMMA FreshnessAlways == PollSpec => []Freshness
BY FreshnessInit, FreshnessNext, PTL DEF PollSpec

\* and implies that a refresh is fresh.
LEMMA FreshnessSuffices == Freshness => RefreshIsFresh
<1> SUFFICES ASSUME Freshness, NEW j \in Upload, upload[j].pc = "joined"
             PROVE  \/ poll[upload[j].on].pc = "ask"
                    \/ /\ poll[upload[j].on].pc # "idle"
                       /\ \A s \in upload[j].scope :
                            poll[upload[j].on].view[s] >= upload[j].revision
  BY DEF RefreshIsFresh
<1>1. upload[j].on = inFlight /\ inFlight \in Poll
  BY DEF Freshness, Sharing, Waiting, PollTypeOK
<1>2. poll[inFlight].pc # "idle"
  BY <1>1 DEF Freshness, Sharing, OnePoll
<1>3. \/ poll[inFlight].pc = "ask"
      \/ \A s \in upload[j].scope : upload[j].revision <= poll[inFlight].view[s]
  BY <1>1 DEF Freshness, Fresh
<1>4. upload[j].revision \in Nat /\ \A s \in upload[j].scope : poll[inFlight].view[s] \in Nat
  BY <1>1 DEF Freshness, PollTypeOK, UploadState, PollState
<1> QED  BY <1>1, <1>2, <1>3, <1>4

\* The poll that an upload is refreshed by (runAfterCurrent of
\* createPollCoordinator) asks the broker after the cookies were stored, for
\* any number of uploads and callers that share polls.
THEOREM RefreshIsFreshAlways == PollSpec => []RefreshIsFresh
BY FreshnessAlways, FreshnessSuffices, PTL

\* The status in storage is never replaced by an earlier answer of the broker.
THEOREM StatusNeverGoesBackAlways == PollSpec => StatusNeverGoesBack
<1>1. ASSUME Freshness, [PollNext]_pollVars
      PROVE  [\A s \in Scope : brokerStatus'.view[s] >= brokerStatus.view[s]]_pollVars
  <2>1. PollTypeOK /\ PollTypeOK'
    BY <1>1, TypeNext DEF Freshness
  <2>2. \A s \in Scope : brokerStatus'.view[s] \in Nat /\ brokerStatus.view[s] \in Nat
    BY <2>1 DEF PollTypeOK, Shown
  <2>3. \A s \in Scope : brokerStatus.view[s] <= brokerStatus'.view[s]
    BY <1>1, <2>1, <2>2, StatusMoves, SaveIsLater
  <2> QED  BY <2>2, <2>3
<1> QED  BY <1>1, FreshnessAlways, PTL DEF PollSpec, StatusNeverGoesBack

----------------------------------------------------------------------------
(* Memory.                                                                 *)

\* The parts of what an evaluation computes.
LEMMA EvaluationParts ==
  ASSUME NEW status, NEW previous
  PROVE  /\ StateAfter(status, previous).revision = status.revision
         /\ StateAfter(status, previous).health = status.health
         /\ StateAfter(status, previous).passed =
              (Base(status, previous).passed \/ Passed(status))
         /\ StateAfter(status, previous).fired =
              Base(status, previous).fired \cup
                (IF Passed(status) THEN Thresholds ELSE Crossed(status, previous))
BY DEF StateAfter

\* A notice that an evaluation gives is due.
LEMMA NoticesAreDue ==
  ASSUME NEW status \in Listing, NEW previous \in State, now \in Nat,
         NEW n \in Notices(status, previous)
  PROVE  Due(n)
<1> DEFINE crossed == Crossed(status, previous)
<1>1. ASSUME NEW h \in Nat, NEW left \in HoursLeft(status), left <= h
      PROVE  Due(Expiry(status.revision, h))
  <2>1. Expiry(status.revision, h).revision = status.revision
        /\ Expiry(status.revision, h).hours = h
    BY DEF Expiry
  <2>2. status.revision # 0 /\ \E e \in expires[status.revision] : left = e - now
    BY <1>1 DEF HoursLeft
  <2> QED  BY <1>1, <2>1, <2>2 DEF Due
<1>2. CASE n = Alarmed(status.revision)
  BY <1>2 DEF Due, Alarmed
<1>3. CASE Passed(status) /\ n = Expiry(status.revision, 0)
  BY <1>1, <1>3 DEF Passed
<1>4. CASE crossed # {} /\ n = Expiry(status.revision, Min(crossed))
  <2>1. crossed \in SUBSET Nat
    BY PollAssumption DEF Crossed
  <2>2. Min(crossed) \in crossed
    BY <1>4, <2>1, MinOfNaturals
  <2>3. \E left \in HoursLeft(status) : left <= Min(crossed)
    BY <2>2 DEF Crossed
  <2> QED  BY <1>1, <1>4, <2>1, <2>2, <2>3
<1> QED  BY <1>2, <1>3, <1>4 DEF Notices

\* The new state of a scope records only what was told before or is told now.
LEMMA EvaluationTells ==
  ASSUME NEW status \in Listing, NEW previous \in State, now \in Nat,
         NEW notices, Told(previous, notices)
  PROVE  Told(StateAfter(status, previous), notices \cup Notices(status, previous))
<1> DEFINE base == Base(status, previous)
           crossed == Crossed(status, previous)
           new == Notices(status, previous)
           all == notices \cup new
           n == status.revision
<1>1. \/ base = previous /\ previous.revision = n
      \/ base.health = "none" /\ base.fired = {} /\ base.passed = FALSE
  BY DEF Base, Unknown
<1>2. Base(status, previous) \in State
  BY EvaluationType
<1>3. status.health = "refresh_required" => Alarmed(n) \in all
  <2>1. CASE base.health = "refresh_required"
    BY <1>1, <2>1 DEF Told
  <2>2. CASE base.health # "refresh_required"
    BY <2>2 DEF Notices
  <2> QED  BY <2>1, <2>2
<1>4. base.passed \/ Passed(status) => Expiry(n, 0) \in all
  <2>1. CASE base.passed
    BY <1>1, <2>1 DEF Told
  <2>2. CASE ~base.passed
    BY <2>2 DEF Notices
  <2> QED  BY <2>1, <2>2
<1>e. \A h : Expiry(n, h).event = "expiry" /\ Expiry(n, h).revision = n
             /\ Expiry(n, h).hours = h
  BY DEF Expiry
<1>5. ASSUME NEW t \in base.fired
      PROVE  \E m \in all : m.event = "expiry" /\ m.revision = n /\ m.hours <= t
  BY <1>1, <1>5 DEF Told
<1>6. ASSUME Passed(status), NEW t \in Thresholds
      PROVE  \E m \in all : m.event = "expiry" /\ m.revision = n /\ m.hours <= t
  <2>1. 0 <= t
    BY PollAssumption
  <2> QED  BY <1>4, <1>6, <1>e, <2>1
<1>7. ASSUME NEW t \in crossed
      PROVE  \E m \in all : m.event = "expiry" /\ m.revision = n /\ m.hours <= t
  <2>1. crossed \in SUBSET Nat
    BY PollAssumption DEF Crossed
  <2>2. Min(crossed) <= t
    BY <2>1, MinOfNaturals
  <2>3. Expiry(n, Min(crossed)) \in all
    BY DEF Notices
  <2> QED  BY <1>e, <2>2, <2>3
<1> HIDE DEF base, crossed, new, all, n
<1>8. ASSUME NEW t \in StateAfter(status, previous).fired
      PROVE  \E m \in all : m.event = "expiry" /\ m.revision = n /\ m.hours <= t
  <2>1. t \in base.fired \/ (Passed(status) /\ t \in Thresholds) \/ t \in crossed
    BY EvaluationParts DEF base, crossed
  <2> QED  BY <1>5, <1>6, <1>7, <2>1
<1> QED  BY <1>3, <1>4, <1>8, EvaluationParts DEF Told, all, new, n, base

\* ... and makes everything told old: time has not gone back since.
LEMMA EvaluationCovers ==
  ASSUME NEW status \in Listing, NEW previous \in State, now \in Nat,
         NEW notices \in SUBSET Notice, \A n \in notices : Due(n)
  PROVE  Covers(StateAfter(status, previous), notices)
<1> DEFINE after == StateAfter(status, previous)
<1>0. after.revision = status.revision
  BY EvaluationParts
<1> SUFFICES ASSUME NEW n \in notices, n.event = "expiry", n.revision = status.revision
             PROVE  /\ n.hours = 0 => after.passed
                    /\ \A t \in Thresholds : t >= n.hours => t \in after.fired
  BY <1>0 DEF Covers
<1> HIDE DEF after
<1>1. PICK e \in expires[status.revision] : e - now <= n.hours
  BY DEF Due
<1>2. status.revision \in 1..MaxRevision
  <2>1. status.revision # 0 /\ status.revision \in 0..MaxRevision
    BY DEF Due, Listing
  <2> QED  BY <2>1, PollAssumption
<1>3. e \in Nat /\ n.hours \in Nat
  BY <1>2, PollAssumption DEF Notice
<1>4. e - now \in HoursLeft(status)
  BY <1>2 DEF HoursLeft
<1>5. n.hours = 0 => after.passed
  BY <1>1, <1>3, <1>4, EvaluationParts DEF after, Passed
<1>6. ASSUME NEW t \in Thresholds, t >= n.hours  PROVE t \in after.fired
  <2>1. t \in Nat
    BY PollAssumption
  <2>2. CASE Passed(status)
    BY <2>2, EvaluationParts DEF after
  <2>3. CASE ~Passed(status)
    <3>1. 0 < e - now /\ e - now <= t
      BY <1>1, <1>3, <1>4, <1>6, <2>1, <2>3 DEF Passed
    <3>2. t \in Base(status, previous).fired \cup Crossed(status, previous)
      BY <1>4, <3>1 DEF Crossed
    <3> QED  BY <2>3, <3>2, EvaluationParts DEF after
  <2> QED  BY <2>2, <2>3
<1> QED  BY <1>5, <1>6

\* The invariant of memory holds at first,
LEMMA MemoryInit == PollInit => Memory
<1> SUFFICES ASSUME PollInit PROVE Memory
  OBVIOUS
<1>1. Told(Unknown, {}) /\ Covers(Unknown, {})
  BY DEF Told, Covers, Unknown
<1>2. StorageAgrees
  BY <1>1 DEF PollInit, StorageAgrees, NoStates, NoStatus, Unknown, Unlisted
<1>3. PollAgrees
  BY DEF PollInit, PollAgrees, Idle
<1> QED  BY <1>2, <1>3, TypeInit, SharingInit DEF Memory

\* Steps that touch neither notices nor what is stored of scopes: due notices
\* stay due.
LEMMA StorageStays ==
  ASSUME PollTypeOK, PollTypeOK', StorageAgrees, now <= now',
         UNCHANGED <<controlPlaneState, history>>,
         brokerStatus'.profiles = brokerStatus.profiles
  PROVE  StorageAgrees'
<1> USE DEF history
<1>1. \A s \in Scope : \A n \in shown[s] : Due(n)'
  <2> SUFFICES ASSUME NEW s \in Scope, NEW n \in shown[s], n.event = "expiry"
               PROVE  n.revision # 0 /\ \E e \in expires[n.revision] : e - now' <= n.hours
    BY DEF Due
  <2>1. n \in Notice
    BY DEF PollTypeOK
  <2>2. n.revision # 0 /\ n.revision \in 1..MaxRevision /\ n.hours \in Nat
    BY <2>1, PollAssumption DEF StorageAgrees, Due, Notice
  <2>3. PICK e \in expires[n.revision] : e - now <= n.hours
    BY DEF StorageAgrees, Due
  <2>4. e \in Nat /\ now \in Nat /\ now' \in Nat
    BY <2>2, PollAssumption DEF PollTypeOK
  <2>5. e - now' <= n.hours
    BY <2>2, <2>3, <2>4
  <2> QED  BY <2>2, <2>5
<1>2. \A s \in Scope : /\ controlPlaneState'[s] = controlPlaneState[s]
                       /\ shown'[s] = shown[s] /\ saved'[s] = saved[s]
                       /\ brokerStatus'.profiles[s] = brokerStatus.profiles[s]
  OBVIOUS
<1> QED  BY <1>1, <1>2 DEF StorageAgrees, Told, Covers, Topical

\* Steps after which every poll has nothing left to evaluate.
LEMMA NothingToSave ==
  ASSUME PollAgrees, UNCHANGED <<controlPlaneState, shown>>,
         \A p \in Poll : \/ poll'[p] = poll[p]
                         \/ /\ poll'[p].pc # "evaluate"
                            /\ poll'[p].todo = {} /\ poll'[p].next = NoStates
  PROVE  PollAgrees'
<1> SUFFICES ASSUME NEW p \in Poll
             PROVE  IF poll'[p].pc = "evaluate"
                    THEN /\ poll'[p].previous = controlPlaneState'
                         /\ \A s \in Scope \ poll'[p].todo : Evaluated(p, s)'
                    ELSE poll'[p].todo = {} /\ poll'[p].next = NoStates
  BY DEF PollAgrees
<1>1. CASE poll'[p] = poll[p]
  BY <1>1 DEF PollAgrees, Evaluated, Told, Covers
<1> QED  BY <1>1

\* One scope is evaluated.
LEMMA EvaluateRemembers ==
  ASSUME Memory, PollTypeOK', NEW p \in Poll, NEW s \in Scope, Evaluate(p, s)
  PROVE  StorageAgrees' /\ PollAgrees'
<1> DEFINE status == poll[p].status[s]
           previous == poll[p].previous[s]
           after == StateAfter(status, previous)
           new == Notices(status, previous)
<1>p. poll[p] \in PollState
  BY DEF Memory, PollTypeOK
<1>1. status \in Listing /\ previous \in State /\ now \in Nat
  BY <1>p DEF PollState, Memory, PollTypeOK
<1>2. previous = controlPlaneState[s]
  BY DEF Memory, PollAgrees, Evaluate
<1>3. UNCHANGED <<now, storage, saved>>
  BY DEF Evaluate
<1>4. /\ shown'[s] = shown[s] \cup new
      /\ \A t \in Scope : t # s => shown'[t] = shown[t]
  BY DEF Evaluate, Memory, PollTypeOK
<1>5. \A t \in Scope : \A n \in shown'[t] : Due(n)
  BY <1>1, <1>4, NoticesAreDue DEF Memory, StorageAgrees
<1>6. Told(after, shown'[s])
  BY <1>1, <1>2, <1>4, EvaluationTells DEF Memory, StorageAgrees
<1>7. Covers(after, shown'[s])
  BY <1>1, <1>5, EvaluationCovers DEF PollTypeOK
<1>8. after.revision = status.revision /\ after.health = status.health
  BY EvaluationParts
<1>9. /\ poll'[p].pc = "evaluate" /\ poll'[p].status = poll[p].status
      /\ poll'[p].previous = poll[p].previous
      /\ poll'[p].todo = poll[p].todo \ {s}
      /\ poll'[p].next = [poll[p].next EXCEPT ![s] = after]
      /\ \A q \in Poll : q # p => poll'[q] = poll[q]
  BY <1>p DEF Evaluate, Memory, PollTypeOK, PollState
<1> HIDE DEF after, new
<1>10. poll'[p].next[s] = after
       /\ \A t \in Scope : t # s => poll'[p].next[t] = poll[p].next[t]
  BY <1>p, <1>9 DEF PollState
<1>11. StorageAgrees'
  <2>1. \A t \in Scope : Told(controlPlaneState[t], shown'[t])
    BY <1>4 DEF Memory, StorageAgrees, Told
  <2>2. \A t \in Scope : \A n \in shown'[t] : Due(n)'
    BY <1>3, <1>5 DEF Due
  <2> QED  BY <1>3, <2>1, <2>2 DEF Memory, StorageAgrees, storage, Told, Covers, Topical
<1>12. PollAgrees'
  <2>1. \A t \in Scope \ poll'[p].todo : Evaluated(p, t)'
    <3> SUFFICES ASSUME NEW t \in Scope, t \notin poll'[p].todo  PROVE Evaluated(p, t)'
      OBVIOUS
    <3>1. CASE t = s
      BY <1>6, <1>7, <1>8, <1>9, <1>10, <3>1 DEF Evaluated, Told, Covers
    <3>2. CASE t # s
      <4>1. Evaluated(p, t)
        BY <1>9, <3>2 DEF Memory, PollAgrees, Evaluate
      <4> QED  BY <1>4, <1>9, <1>10, <3>2, <4>1 DEF Evaluated, Told, Covers
    <3> QED  BY <3>1, <3>2
  <2>2. poll'[p].previous = controlPlaneState'
    BY <1>3, <1>9 DEF Memory, PollAgrees, Evaluate, storage
  <2>3. ASSUME NEW q \in Poll, q # p
        PROVE  poll'[q].pc # "evaluate" /\ poll'[q].todo = {} /\ poll'[q].next = NoStates
    <3>1. poll'[q] = Idle
      <4>1. poll[p].pc # "idle"
        BY DEF Evaluate
      <4>2. inFlight = p
        BY <4>1 DEF Memory, Sharing, OnePoll, Idle
      <4> QED  BY <1>9, <2>3, <4>2 DEF Memory, Sharing, OnePoll
    <3> QED  BY <3>1 DEF Idle
  <2> QED  BY <1>9, <2>1, <2>2, <2>3 DEF PollAgrees
<1> QED  BY <1>11, <1>12

\* Scopes that are not listed have a state of which nothing is known.
LEMMA LoadRemembers ==
  ASSUME Memory, NEW p \in Poll, Load(p)
  PROVE  PollAgrees'
<1>p. poll[p] \in PollState
  BY DEF Memory, PollTypeOK
<1>1. /\ poll'[p].pc = "evaluate" /\ poll'[p].status = poll[p].status
      /\ poll'[p].previous = controlPlaneState
      /\ poll'[p].todo = {s \in Scope : poll[p].status[s] # Unlisted}
      /\ poll'[p].next = poll[p].next
      /\ \A q \in Poll : q # p => poll'[q] = poll[q]
      /\ UNCHANGED <<storage, shown>>
  BY <1>p DEF Load, Memory, PollTypeOK, PollState, history
<1>2. poll[p].next = NoStates
  BY DEF Memory, PollAgrees, Load
<1>3. ASSUME NEW s \in Scope, s \notin poll'[p].todo  PROVE Evaluated(p, s)'
  <2>1. poll'[p].status[s] = Unlisted /\ poll'[p].next[s] = Unknown
    BY <1>1, <1>2, <1>3 DEF NoStates
  <2>2. Told(Unknown, shown[s])
    BY DEF Told, Unknown
  <2>3. Covers(Unknown, shown[s])
    BY DEF Covers, Unknown, Memory, StorageAgrees, Due
  <2>4. Unknown.revision = Unlisted.revision /\ Unknown.health = Unlisted.health
    BY DEF Unknown, Unlisted
  <2>5. shown'[s] = shown[s]
    BY <1>1
  <2> QED  BY <2>1, <2>2, <2>3, <2>4, <2>5 DEF Evaluated
<1>4. ASSUME NEW q \in Poll, q # p
      PROVE  poll'[q].pc # "evaluate" /\ poll'[q].todo = {} /\ poll'[q].next = NoStates
  <2>1. poll'[q] = Idle
    <3>1. poll[p].pc # "idle"
      BY DEF Load
    <3>2. inFlight = p
      BY <3>1 DEF Memory, Sharing, OnePoll, Idle
    <3> QED  BY <1>1, <1>4, <3>2 DEF Memory, Sharing, OnePoll
  <2> QED  BY <2>1 DEF Idle
<1>5. controlPlaneState' = controlPlaneState
  BY <1>1 DEF storage
<1> QED  BY <1>1, <1>3, <1>4, <1>5 DEF PollAgrees

\* The states are stored, and with them which notices have been given.
LEMMA SaveRemembers ==
  ASSUME Memory, NEW p \in Poll, Save(p)
  PROVE  StorageAgrees' /\ PollAgrees'
<1>1. /\ controlPlaneState' = poll[p].next
      /\ brokerStatus'.profiles = poll[p].status
      /\ \A s \in Scope : shown'[s] = {n \in shown[s] : Topical(n, poll[p].next[s])}
      /\ saved' = shown' /\ now' = now
  BY DEF Save
<1>2. ASSUME NEW s \in Scope  PROVE Evaluated(p, s)
  BY DEF Memory, PollAgrees, Save
<1>3. ASSUME NEW s \in Scope  PROVE Told(poll[p].next[s], shown'[s])
  <2> DEFINE state == poll[p].next[s]
  <2>1. \A n : n.event = "expiry" /\ n.revision = state.revision => Topical(n, state)
    BY DEF Topical
  <2>2. /\ state.health = "refresh_required" => Topical(Alarmed(state.revision), state)
        /\ Topical(Expiry(state.revision, 0), state)
    BY DEF Topical, Alarmed, Expiry
  <2>3. Told(state, shown[s])
    BY <1>2 DEF Evaluated
  <2> HIDE DEF state
  <2>4. Told(state, shown'[s])
    BY <1>1, <2>1, <2>2, <2>3 DEF Told, state
  <2> QED  BY <2>4 DEF state
<1>4. ASSUME NEW s \in Scope  PROVE Covers(poll[p].next[s], saved'[s])
  BY <1>1, <1>2 DEF Evaluated, Covers
<1>5. StorageAgrees'
  <2> SUFFICES ASSUME NEW s \in Scope
               PROVE  /\ Told(controlPlaneState'[s], shown'[s])
                      /\ brokerStatus'.profiles[s].health = controlPlaneState'[s].health
                      /\ brokerStatus'.profiles[s].revision = controlPlaneState'[s].revision
                      /\ \A n \in shown'[s] : Due(n)'
                      /\ \A n \in saved'[s] : Topical(n, controlPlaneState'[s])
                      /\ Covers(controlPlaneState'[s], saved'[s])
    BY DEF StorageAgrees, Told, Covers, Topical
  <2>1. \A n \in shown'[s] : Due(n)'
    BY <1>1 DEF Memory, StorageAgrees, Due
  <2> QED  BY <1>1, <1>2, <1>3, <1>4, <2>1 DEF Evaluated
<1>6. PollAgrees'
  <2>1. poll' = [q \in Poll |-> Idle]
    BY SettleShares DEF Save, Memory
  <2> QED  BY <2>1 DEF PollAgrees, Idle
<1> QED  BY <1>5, <1>6

\* every step preserves it,
LEMMA MemoryNext ==
  ASSUME Memory, [PollNext]_pollVars
  PROVE  Memory'
<1>0. PollTypeOK /\ Sharing /\ PollTypeOK' /\ Sharing'
  BY TypeNext, SharingNext DEF Memory
<1> SUFFICES StorageAgrees' /\ PollAgrees'
  BY <1>0 DEF Memory
<1>n. now \in Nat
  BY <1>0 DEF PollTypeOK
<1>1. ASSUME NEW p \in Poll, run(p)
      PROVE  \A q \in Poll : \/ poll'[q] = poll[q]
                             \/ /\ poll'[q].pc # "evaluate"
                                /\ poll'[q].todo = {} /\ poll'[q].next = NoStates
  <2>1. UNCHANGED poll \/ poll' = [poll EXCEPT ![p] = Asking]
    BY <1>1 DEF run
  <2> QED  BY <1>0, <2>1 DEF Asking, Idle, PollTypeOK
<1>2. ASSUME UNCHANGED <<controlPlaneState, brokerStatus, history>>, now <= now',
             \/ UNCHANGED poll
             \/ \E p \in Poll : run(p)
             \/ poll' = [p \in Poll |-> Idle]
      PROVE  StorageAgrees' /\ PollAgrees'
  BY <1>0, <1>1, <1>2, StorageStays, NothingToSave DEF Memory, Idle, history
<1>3. CASE PollNow \/ runPeriodicCycle \/ EndCycle \/ Stop \/ Broker \/ Brokerctl \/ Tick
           \/ UNCHANGED pollVars
  BY <1>n, <1>2, <1>3 DEF PollNow, runPeriodicCycle, EndCycle, Stop, Broker, Brokerctl,
                          Tick, pollVars, storage
<1>4. ASSUME NEW j \in Upload, UploadStep(j)  PROVE StorageAgrees' /\ PollAgrees'
  <2>1. UNCHANGED <<controlPlaneState, brokerStatus, history, now>>
    BY <1>4 DEF UploadStep, StartUpload, PutAnswered, PutLost, PutFails, Refresh,
                RefreshAgain, storage
  <2>2. UNCHANGED poll \/ \E p \in Poll : run(p)
    BY <1>4 DEF UploadStep, StartUpload, PutAnswered, PutLost, PutFails, Refresh,
                RefreshAgain
  <2> QED  BY <1>n, <1>2, <2>1, <2>2
<1>5. ASSUME NEW p \in Poll, PollStep(p)  PROVE StorageAgrees' /\ PollAgrees'
  <2>p. poll[p] \in PollState
    BY <1>0 DEF PollTypeOK
  <2>1. CASE Answer(p)
    <3>1. /\ poll'[p].pc = "load" /\ poll'[p].todo = poll[p].todo
          /\ poll'[p].next = poll[p].next
          /\ \A q \in Poll : q # p => poll'[q] = poll[q]
      <4>1. poll \in [Poll -> PollState]
        BY <1>0 DEF PollTypeOK
      <4>2. \E status, view : poll' = [poll EXCEPT ![p].pc = "load",
                                       ![p].status = status, ![p].view = view]
        BY <2>1 DEF Answer
      <4>3. PICK status, view : poll' = [poll EXCEPT ![p].pc = "load",
                                       ![p].status = status, ![p].view = view]
        BY <4>2
      <4> QED  BY <4>1, <4>3, <2>p DEF PollState
    <3>2. poll[p].todo = {} /\ poll[p].next = NoStates
      BY <2>1 DEF Memory, PollAgrees, Answer
    <3>3. UNCHANGED <<controlPlaneState, brokerStatus, history, now>>
      BY <2>1 DEF Answer, storage
    <3> QED  BY <1>0, <1>n, <3>1, <3>2, <3>3, StorageStays, NothingToSave DEF Memory, history
  <2>2. CASE Load(p)
    <3>1. UNCHANGED <<controlPlaneState, brokerStatus, history>> /\ now <= now'
      BY <1>n, <2>2 DEF Load, storage
    <3> QED  BY <1>0, <2>2, <3>1, StorageStays, LoadRemembers DEF Memory
  <2>3. CASE \E s \in Scope : Evaluate(p, s)
    BY <1>0, <2>3, EvaluateRemembers
  <2>4. CASE Save(p)
    BY <2>4, SaveRemembers
  <2>5. CASE PollFails(p)
    <3>1. poll' = [q \in Poll |-> Idle]
      BY <1>0, <2>5, SettleShares DEF PollFails
    <3>2. brokerStatus'.profiles = brokerStatus.profiles
      BY <1>0, <2>5 DEF PollFails, PollTypeOK, Shown
    <3>3. UNCHANGED <<controlPlaneState, history>> /\ now <= now'
      BY <1>n, <2>5 DEF PollFails
    <3> QED  BY <1>0, <3>1, <3>2, <3>3, StorageStays, NothingToSave DEF Memory, Idle, history
  <2> QED  BY <1>5, <2>1, <2>2, <2>3, <2>4, <2>5 DEF PollStep
<1> QED  BY <1>3, <1>4, <1>5 DEF PollNext

\* so it always holds
LEMMA MemoryAlways == PollSpec => []Memory
BY MemoryInit, MemoryNext, PTL DEF PollSpec

\* and implies that users are told before it is recorded.
LEMMA MemorySuffices == Memory => ToldBeforeRecorded
<1> SUFFICES ASSUME Memory, NEW s \in Scope
             PROVE  /\ controlPlaneState[s].health = "refresh_required"
                         => Alarmed(controlPlaneState[s].revision) \in shown[s]
                    /\ brokerStatus.profiles[s].health = "refresh_required"
                         => Alarmed(brokerStatus.profiles[s].revision) \in shown[s]
                    /\ \A t \in controlPlaneState[s].fired : \E n \in shown[s] :
                         /\ n.event = "expiry" /\ n.hours <= t
                         /\ n.revision = controlPlaneState[s].revision
  BY DEF ToldBeforeRecorded
<1> QED  BY DEF Memory, StorageAgrees, Told

\* What storage records as known to the user was shown before
\* (pollBrokerStatusOnce), however polls fail and the worker is stopped.
THEOREM ToldBeforeRecordedAlways == PollSpec => []ToldBeforeRecorded
BY MemoryAlways, MemorySuffices, PTL

\* In every state, the notices that the poll under way would give are new.
LEMMA NoticesNew ==
  ASSUME Memory, NEW p \in Poll, NEW s \in Scope, s \in poll[p].todo,
         NEW n \in Notices(poll[p].status[s], poll[p].previous[s])
  PROVE  /\ n \notin saved[s]
         /\ \A m \in saved[s] :
              /\ n.event = "expiry" /\ m.event = "expiry"
              /\ n.revision = m.revision
              => n.hours < m.hours
<1> DEFINE status == poll[p].status[s]
           previous == poll[p].previous[s]
           base == Base(status, previous)
           crossed == Crossed(status, previous)
<1>p. poll[p] \in PollState
  BY DEF Memory, PollTypeOK
<1>1. previous = controlPlaneState[s]
  BY DEF Memory, PollAgrees
<1>2. /\ \A m \in saved[s] : Topical(m, previous)
      /\ Covers(previous, saved[s])
  BY <1>1 DEF Memory, StorageAgrees
<1>3. \A m \in saved[s] : m.revision = previous.revision /\ m.hours \in Nat
  BY <1>2 DEF Topical, Memory, PollTypeOK, Notice
<1>4. status.revision # previous.revision \/ base = previous
  BY DEF Base
<1>5. CASE n = Alarmed(status.revision) /\ base.health # "refresh_required"
  <2>1. n.event = "refresh_required" /\ n.revision = status.revision
    BY <1>5 DEF Alarmed
  <2> QED  BY <1>2, <1>3, <1>4, <1>5, <2>1 DEF Topical
<1>6. CASE n = Expiry(status.revision, 0) /\ ~base.passed
  <2>1. n.event = "expiry" /\ n.revision = status.revision /\ n.hours = 0
    BY <1>6 DEF Expiry
  <2>2. ASSUME NEW m \in saved[s], m.event = "expiry", m.revision = status.revision
        PROVE  m.hours # 0
    BY <1>2, <1>3, <1>4, <1>6, <2>2 DEF Covers
  <2> QED  BY <1>3, <2>1, <2>2
<1>7. CASE crossed # {} /\ n = Expiry(status.revision, Min(crossed))
  <2>0. Crossed(status, previous) \in SUBSET Nat
    BY PollAssumption DEF Crossed
  <2>1. Min(crossed) \in crossed /\ Min(crossed) \in Nat
    BY <1>7, <2>0, MinOfNaturals
  <2>2. Min(crossed) \in Thresholds /\ Min(crossed) \notin base.fired
    BY <2>1 DEF Crossed
  <2>3. n.event = "expiry" /\ n.revision = status.revision /\ n.hours = Min(crossed)
    BY <1>7 DEF Expiry
  <2>4. ASSUME NEW m \in saved[s], m.event = "expiry", m.revision = status.revision
        PROVE  Min(crossed) < m.hours
    <3>1. base = previous /\ m.revision = previous.revision /\ m.hours \in Nat
      BY <1>3, <1>4, <2>4
    <3>2. ~(Min(crossed) >= m.hours)
      BY <1>2, <2>2, <2>4, <3>1 DEF Covers
    <3> QED  BY <2>1, <3>1, <3>2
  <2> QED  BY <2>1, <2>3, <2>4
<1> QED  BY <1>5, <1>6, <1>7 DEF Notices

\* No notification that is recorded is given again while what it says is
\* still so, and warnings of expiry escalate (evaluateBrokerStatus).
THEOREM NoticesAreNewAlways == PollSpec => NoticesAreNew
<1>1. ASSUME Memory
      PROVE  \A p \in Poll, s \in Scope :
         s \in poll[p].todo /\ poll'[p].todo = poll[p].todo \ {s} =>
           \A n \in Notices(poll[p].status[s], poll[p].previous[s]) :
             /\ n \notin saved[s]
             /\ \A m \in saved[s] :
                  /\ n.event = "expiry" /\ m.event = "expiry"
                  /\ n.revision = m.revision
                  => n.hours < m.hours
  BY <1>1, NoticesNew
<1> QED  BY <1>1, MemoryAlways, PTL DEF NoticesAreNew
============================================================================
