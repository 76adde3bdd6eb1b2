-------------------------- MODULE PublishingProofs --------------------------
(***************************************************************************)
(* Proofs about Publishing, for every set of cookie jars and any number of *)
(* scopes, uploads, attempts and inputs.  The store underneath is that of  *)
(* BrokerStore, so that its invariants hold here too.                      *)
(***************************************************************************)
EXTENDS Publishing, BrokerStoreProofs, OrderLemmas, TLAPS

----------------------------------------------------------------------------
(* Canonical order.                                                        *)

KeyOf(S) == [c \in S |-> c.key]

\* Cookies that pass ValidateUpload are as many as their keys.
LEMMA ValidJar ==
  ASSUME NEW cookies \in Jar, ValidateUpload(cookies)
  PROVE  /\ Len(cookies) \in Nat /\ Len(cookies) # 0
         /\ DOMAIN cookies = 1..Len(cookies)
         /\ KeyOf(Range(cookies)) \in [Range(cookies) -> Int]
         /\ \A c, d \in Range(cookies) :
              KeyOf(Range(cookies))[c] = KeyOf(Range(cookies))[d] => c = d
         /\ IsFiniteSet(Range(cookies))
         /\ Cardinality(Range(cookies)) = Len(cookies)
<1> DEFINE S == Range(cookies)
           n == Len(cookies)
<1>1. cookies \in Seq(S) /\ \A c \in S : c.key \in Int
  BY PublishAssumption
<1> HIDE DEF S
<1>2. n \in Nat /\ DOMAIN cookies = 1..n /\ cookies \in [1..n -> S]
  BY <1>1
<1>3. n # 0
  BY <1>1 DEF ValidateUpload
<1>4. S = {cookies[i] : i \in 1..n}
  BY <1>2 DEF S, Range
<1>5. KeyOf(S) \in [S -> Int]
  BY <1>1 DEF KeyOf
<1>6. \A i, j \in 1..n : cookies[i].key = cookies[j].key => i = j
  BY <1>2 DEF ValidateUpload, IsInjective
<1>7. ASSUME NEW c \in S, NEW d \in S, KeyOf(S)[c] = KeyOf(S)[d]
      PROVE  c = d
  <2>1. c.key = d.key
    BY <1>7 DEF KeyOf
  <2>2. PICK i \in 1..n, j \in 1..n : c = cookies[i] /\ d = cookies[j]
    BY <1>4
  <2> QED  BY <1>6, <2>1, <2>2
<1>8. cookies \in Surjection(1..n, S) /\ cookies \in Injection(1..n, S)
  BY <1>2, <1>4, <1>6 DEF Surjection, Injection, IsInjective
<1>9. IsFiniteSet(1..n) /\ Cardinality(1..n) = n
  BY <1>2, FS_Interval
<1>10. IsFiniteSet(S) /\ Cardinality(S) = n
  BY <1>8, <1>9, FS_Surjection
<1> QED  BY <1>2, <1>3, <1>5, <1>7, <1>10 DEF S

\* ValidateUpload's sort.Slice: the same cookies, in ascending order.
LEMMA CanonicalSorts ==
  ASSUME NEW cookies \in Jar, ValidateUpload(cookies)
  PROVE  /\ Range(canonical(cookies)) = Range(cookies)
         /\ Lists(canonical(cookies), Len(cookies), Range(cookies),
                  KeyOf(Range(cookies)))
         /\ DOMAIN canonical(cookies) = 1..Len(cookies)
<1> DEFINE S == Range(cookies)
           n == Len(cookies)
           key == KeyOf(S)
<1>1. /\ n \in Nat /\ DOMAIN cookies = 1..n
      /\ IsFiniteSet(S) /\ Cardinality(S) = n
      /\ key \in [S -> Int] /\ \A c, d \in S : key[c] = key[d] => c = d
  BY ValidJar
<1>2. \A c \in S : key[c] = c.key
  BY DEF KeyOf
<1> HIDE DEF S, key, n
<1>3. PICK f \in [1..n -> S] : Ascending(f, n, key) /\ S = {f[i] : i \in 1..n}
  BY <1>1, SortedListing
<1> DEFINE Sorts(g) == /\ Range(g) = Range(cookies)
                       /\ \A i, j \in DOMAIN g : i < j => g[i].key < g[j].key
<1>4. f \in [DOMAIN cookies -> Range(cookies)] /\ Sorts(f)
  <2>1. DOMAIN f = 1..n /\ Range(f) = S
    BY <1>3 DEF Range
  <2>2. ASSUME NEW i \in 1..n, NEW j \in 1..n, i < j  PROVE f[i].key < f[j].key
    <3>1. f[i] \in S /\ f[j] \in S /\ key[f[i]] < key[f[j]]
      BY <1>3, <2>2 DEF Ascending
    <3> QED  BY <1>2, <3>1
  <2>3. f \in [DOMAIN cookies -> Range(cookies)]
    BY <1>1, <1>3 DEF S
  <2> QED  BY <2>1, <2>2, <2>3 DEF S
<1>5. canonical(cookies) \in [DOMAIN cookies -> Range(cookies)]
      /\ Sorts(canonical(cookies))
  BY <1>4 DEF canonical
<1>6. Ascending(canonical(cookies), n, key)
  <2> SUFFICES ASSUME NEW i \in 1..n, NEW j \in 1..n, i < j
               PROVE  key[canonical(cookies)[i]] < key[canonical(cookies)[j]]
    BY DEF Ascending
  <2>1. canonical(cookies)[i] \in S /\ canonical(cookies)[j] \in S
    BY <1>1, <1>5 DEF S
  <2>2. canonical(cookies)[i].key < canonical(cookies)[j].key
    BY <1>1, <1>5
  <2> QED  BY <1>2, <2>1, <2>2
<1> QED  BY <1>1, <1>5, <1>6 DEF Lists, S, key, n

\* Canonical forms differ only if the cookies do: the hash does not depend on
\* the order in which they were sent.
LEMMA CanonicalDecides ==
  ASSUME NEW c \in Canonical, NEW d \in Canonical, Range(c) = Range(d)
  PROVE  c = d
<1>1. PICK a \in Jar : ValidateUpload(a) /\ c = canonical(a)
  BY DEF Canonical
<1>2. PICK b \in Jar : ValidateUpload(b) /\ d = canonical(b)
  BY DEF Canonical
<1> DEFINE S == Range(c)
<1>3. /\ Lists(c, Len(a), S, KeyOf(S)) /\ DOMAIN c = 1..Len(a)
      /\ Lists(d, Len(b), S, KeyOf(S)) /\ DOMAIN d = 1..Len(b)
  BY <1>1, <1>2, CanonicalSorts
<1>4. KeyOf(S) \in [S -> Int]
  BY <1>1, CanonicalSorts, ValidJar
<1>5. Within(c, Len(a), d, Len(b)) /\ Within(d, Len(b), c, Len(a))
  BY <1>3 DEF Within, Range
<1> QED  BY <1>3, <1>4, <1>5, SortedUnique

\* Stored cookie sets are not empty, and their expiries are numbers.
LEMMA CanonicalCookies ==
  ASSUME NEW c \in Canonical
  PROVE  /\ Range(c) # {}
         /\ \A x \in Range(c) : x.expires \in Nat
         /\ sum(c) = c /\ c \in Hash
<1>1. PICK a \in Jar : ValidateUpload(a) /\ c = canonical(a)
  BY DEF Canonical
<1>2. Range(c) = Range(a) /\ DOMAIN c = 1..Len(a) /\ Len(a) \in Nat \ {0}
  BY <1>1, CanonicalSorts, ValidJar
<1>3. Range(c) # {}
  <2>1. 1 \in DOMAIN c
    BY <1>2
  <2> QED  BY <2>1 DEF Range
<1>4. \A x \in Range(c) : x.expires \in Nat
  BY <1>2, PublishAssumption
<1>5. sum(c) = c
  BY DEF sum
<1>6. c \in Hash
  BY <1>5, HashAssumption
<1> QED  BY <1>3, <1>4, <1>5, <1>6

\* AuthExpiry: the earliest of the expiries that count, if there is one.
LEMMA EarliestExpiry ==
  ASSUME NEW c, \A x \in Range(c) : x.expires \in Nat
  PROVE  LET hints == {x \in Range(c) : x.auth /\ x.expires # 0}
         IN  /\ \A t \in AuthExpiry(c), x \in hints : t <= x.expires
             /\ AuthExpiry(c) = {} <=> hints = {}
<1> DEFINE hints == {x \in Range(c) : x.auth /\ x.expires # 0}
           times == {x.expires : x \in hints}
<1>1. AuthExpiry(c) = {t \in times : \A u \in times : t <= u}
  <2>1. hints = {d \in Range(c) : d.auth /\ d.expires > 0}
    OBVIOUS
  <2> QED  BY <2>1 DEF AuthExpiry
<1>2. times \in SUBSET Nat /\ (times = {} <=> hints = {})
  OBVIOUS
<1>3. \A x \in hints : x.expires \in times
  OBVIOUS
<1> HIDE DEF times, hints
<1>4. times # {} => Min(times) \in AuthExpiry(c)
  BY <1>1, <1>2, MinOfNaturals
<1>5. \A t \in AuthExpiry(c), x \in hints : t <= x.expires
  BY <1>1, <1>3
<1>6. AuthExpiry(c) = {} <=> hints = {}
  BY <1>1, <1>2, <1>4
<1> QED  BY <1>5, <1>6 DEF hints

----------------------------------------------------------------------------
(* The inductive invariant.                                                *)

UploadState == [pc : {"idle", "send", "wait"}, scope : SUBSET Scope,
                why : Reason, cookies : Jar, attempt : 0..RETRIES]
Request == [upload : Upload, attempt : 1..RETRIES, why : Reason,
            cookies : Jar, scope : Scope]

\* An upload is of one scope; one that has not begun leaves no trace.
Slots ==
    \A j \in Upload :
        /\ upload[j].pc = "idle" => upload[j] = Rest
        /\ upload[j].pc # "idle" => upload[j].attempt # 0
        /\ \A s, t \in upload[j].scope : s = t

\* Requests on their way are attempts of the upload in their slot, none is
\* from an attempt to come, and no attempt was sent twice.
Attempts ==
    /\ \A q \in network : upload[q.upload] # Rest =>
         /\ upload[q.upload].cookies = q.cookies
         /\ q.attempt <= upload[q.upload].attempt
         /\ upload[q.upload].pc = "send" => q.attempt # upload[q.upload].attempt
    /\ \A q, r \in network :
         q.upload = r.upload /\ q.attempt = r.attempt => q = r

Traffic == /\ upload \in [Upload -> UploadState]
           /\ network \subseteq Request
           /\ Slots /\ Attempts

SnapshotOf(c) == [cookies |-> c, auth_expires_at |-> AuthExpiry(c)]
Snapshots == {NoSnapshot} \cup {SnapshotOf(c) : c \in Canonical}

Shapes ==
    /\ alarms \subseteq Scope \ Interactive
    /\ changing \in [Scope -> Nat] /\ \A s \in Interactive : changing[s] = 0
    /\ jar \in [Scope -> Jar] /\ accepted \in [Scope -> Jar \cup Canonical]
    /\ excused \subseteq Scope /\ granted \in BOOLEAN
    /\ inputs \in 0..MaxInputs
    /\ snapshot \in [Scope -> [0..MaxRevision -> Snapshots]]

\* Every revision ever stored has the snapshot that its hash stands for, no
\* other number has one, and the current one holds what was accepted last.
Content ==
    /\ \A p \in published :
         /\ p.sha256 \in Canonical
         /\ snapshot[p.scope][p.revision] = SnapshotOf(p.sha256)
    /\ \A s \in Scope, n \in 0..MaxRevision :
         snapshot[s][n] # NoSnapshot => n \in Numbers(History(s))
    /\ \A s \in Scope : Range(Served(s).cookies) = Range(accepted[s])

StoreInv == TypeWindow /\ Ledger

PublishInv == StoreInv /\ Traffic /\ Shapes /\ Content

----------------------------------------------------------------------------
(* Uploads and requests.                                                   *)

\* An upload that has ended is an upload.
LEMMA RestIsUpload == Rest \in UploadState /\ Rest.pc = "idle" /\ Rest.scope = {}
BY PublishAssumption DEF Rest, UploadState, Reason

\* One more attempt.
Again(u) == [u EXCEPT !.pc = "send", !.attempt = u.attempt + 1]

\* What another attempt keeps of the upload.
LEMMA AgainIs ==
  ASSUME NEW u \in UploadState
  PROVE  /\ Again(u).pc = "send" /\ Again(u).scope = u.scope
         /\ Again(u).cookies = u.cookies
         /\ Again(u).attempt = u.attempt + 1 /\ u.attempt \in Nat
BY DEF UploadState, Again

\* Uploads end or try again, and requests arrive or are lost.
LEMMA TrafficShrinks ==
  ASSUME Traffic, network' \subseteq network, upload' \in [Upload -> UploadState],
         \A j \in Upload :
            \/ upload'[j] \in {upload[j], Rest}
            \/ upload[j].pc # "idle" /\ upload'[j] = Again(upload[j])
  PROVE  Traffic'
<1>1. ASSUME NEW j \in Upload, upload[j].pc # "idle"
      PROVE  /\ Again(upload[j]).pc = "send"
             /\ Again(upload[j]).scope = upload[j].scope
             /\ Again(upload[j]).cookies = upload[j].cookies
             /\ Again(upload[j]).attempt = upload[j].attempt + 1
             /\ upload[j].attempt \in Nat
             /\ upload[j] # Rest
  BY <1>1, RestIsUpload, AgainIs DEF Traffic
<1>2. Slots'
  <2> SUFFICES ASSUME NEW j \in Upload
               PROVE  /\ upload'[j].pc = "idle" => upload'[j] = Rest
                      /\ upload'[j].pc # "idle" => upload'[j].attempt # 0
                      /\ \A s, t \in upload'[j].scope : s = t
    BY DEF Slots
  <2>1. CASE upload'[j] = upload[j]
    BY <2>1 DEF Traffic, Slots
  <2>2. CASE upload'[j] = Rest
    BY <2>2, RestIsUpload
  <2>3. CASE upload[j].pc # "idle" /\ upload'[j] = Again(upload[j])
    BY <1>1, <2>3 DEF Traffic, Slots
  <2> QED  BY <2>1, <2>2, <2>3
<1>3. Attempts'
  <2>1. ASSUME NEW q \in network', upload'[q.upload] # Rest
        PROVE  /\ upload'[q.upload].cookies = q.cookies
               /\ q.attempt <= upload'[q.upload].attempt
               /\ upload'[q.upload].pc = "send" => q.attempt # upload'[q.upload].attempt
    <3>1. q \in network /\ q.upload \in Upload /\ q.attempt \in Nat
      BY DEF Traffic, Request
    <3>2. CASE upload'[q.upload] = upload[q.upload]
      BY <2>1, <3>1, <3>2 DEF Traffic, Attempts
    <3>3. CASE upload[q.upload].pc # "idle" /\ upload'[q.upload] = Again(upload[q.upload])
      <4>1. upload[q.upload].cookies = q.cookies /\ q.attempt <= upload[q.upload].attempt
        BY <1>1, <3>1, <3>3 DEF Traffic, Attempts
      <4> QED  BY <1>1, <3>1, <3>3, <4>1
    <3> QED  BY <2>1, <3>1, <3>2, <3>3
  <2>2. \A q, r \in network' :
          q.upload = r.upload /\ q.attempt = r.attempt => q = r
    BY DEF Traffic, Attempts
  <2> QED  BY <2>1, <2>2 DEF Attempts
<1> QED  BY <1>2, <1>3 DEF Traffic

\* A failure ends an upload or tries it again.
LEMMA FailEnds ==
  ASSUME Traffic, NEW j \in Upload, upload[j].pc = "wait", Fail(j)
  PROVE  /\ upload' \in [Upload -> UploadState]
         /\ \A i \in Upload :
              \/ upload'[i] \in {upload[i], Rest}
              \/ upload[i].pc # "idle" /\ upload'[i] = Again(upload[i])
         /\ excused' \subseteq excused \cup Scope
<1>j. upload[j] \in UploadState
  BY DEF Traffic
<1>1. CASE upload[j].attempt < RETRIES
  <2>1. upload' = [upload EXCEPT ![j] = Again(upload[j])] /\ excused' = excused
    BY <1>1 DEF Fail, Again, Traffic
  <2>2. Again(upload[j]) \in UploadState
    <3>1. upload[j].attempt + 1 \in 0..RETRIES
      BY <1>j, <1>1, PublishAssumption DEF UploadState
    <3> QED  BY <1>j, <3>1 DEF UploadState, Again
  <2> QED  BY <2>1, <2>2 DEF Traffic
<1>2. CASE ~(upload[j].attempt < RETRIES)
  <2>1. /\ upload' = [upload EXCEPT ![j] = Rest]
        /\ excused' = excused \cup {s \in upload[j].scope : jar[s] = upload[j].cookies}
    BY <1>2 DEF Fail
  <2> QED  BY <1>j, <2>1, RestIsUpload DEF Traffic, UploadState
<1> QED  BY <1>1, <1>2

\* An upload that begins has no request under way yet.
LEMMA BeginTraffic ==
  ASSUME Traffic, Shapes, NEW j \in Upload, NEW s \in Scope, NEW why \in Reason,
         Begin(j, s, why), UNCHANGED network
  PROVE  Traffic' /\ excused' \subseteq Scope
<1> DEFINE u == [pc |-> "send", scope |-> {s}, why |-> why, cookies |-> jar[s],
                 attempt |-> 1]
<1>1. u \in UploadState
  BY PublishAssumption DEF UploadState, Shapes
<1>2. u.pc = "send" /\ u.attempt = 1 /\ u.scope = {s}
  OBVIOUS
<1>3. upload' = upload \/ upload' = [upload EXCEPT ![j] = u]
  BY DEF Begin
<1>4. excused' \subseteq Scope
  BY DEF Begin, Shapes
<1> HIDE DEF u
<1>5. CASE upload' = upload
  BY <1>4, <1>5 DEF Traffic, Slots, Attempts
<1>6. CASE upload' = [upload EXCEPT ![j] = u]
  <2>1. /\ upload' \in [Upload -> UploadState]
        /\ upload'[j] = u /\ \A i \in Upload : i # j => upload'[i] = upload[i]
    BY <1>1, <1>6 DEF Traffic
  <2>2. \A q \in network : q.upload \in Upload /\ q.upload # j
    BY DEF Begin, Idle, Traffic, Request
  <2>3. Slots'
    BY <1>2, <2>1 DEF Traffic, Slots
  <2>4. Attempts'
    BY <2>1, <2>2 DEF Traffic, Attempts
  <2> QED  BY <1>4, <2>1, <2>3, <2>4 DEF Traffic
<1> QED  BY <1>3, <1>5, <1>6

\* A request carries what its upload holds.
LEMMA RequestTraffic ==
  ASSUME Traffic, NEW j \in Upload, requestUpload(j)
  PROVE  Traffic'
<1> DEFINE u == upload[j]
           Sent(s) == [upload |-> j, attempt |-> u.attempt, why |-> u.why,
                       cookies |-> u.cookies, scope |-> s]
<1>j. u \in UploadState
  BY DEF Traffic
<1>1. u.pc = "send" /\ u # Rest /\ u.attempt \in 1..RETRIES
  BY <1>j, RestIsUpload, PublishAssumption DEF requestUpload, Traffic, Slots, UploadState
<1>2. /\ upload' \in [Upload -> UploadState]
      /\ upload'[j].pc = "wait" /\ upload'[j].cookies = u.cookies
      /\ upload'[j].attempt = u.attempt /\ upload'[j].scope = u.scope
      /\ \A i \in Upload : i # j => upload'[i] = upload[i]
  BY <1>j DEF requestUpload, Traffic, UploadState
<1>3. network' = network \cup {Sent(s) : s \in u.scope}
  BY DEF requestUpload
<1>4. \A s \in u.scope : /\ Sent(s) \in Request
                         /\ Sent(s).upload = j /\ Sent(s).attempt = u.attempt
                         /\ Sent(s).cookies = u.cookies
  BY <1>j, <1>1 DEF Request, UploadState
<1>5. \A s, t \in u.scope : s = t
  BY DEF Traffic, Slots
<1>6. \A q \in network : /\ q.upload \in Upload /\ q.attempt \in Nat
                         /\ q.upload = j => /\ q.attempt <= u.attempt
                                            /\ q.attempt # u.attempt
                                            /\ q.cookies = u.cookies
  BY <1>1 DEF Traffic, Attempts, Request
<1> HIDE DEF u, Sent
<1>7. network' \subseteq Request
  BY <1>3, <1>4 DEF Traffic
<1>8. Slots'
  BY <1>1, <1>2, <1>5 DEF Traffic, Slots
<1>9. \A q \in network' : q \in network \/ \E s \in u.scope : q = Sent(s)
  BY <1>3
<1>10. ASSUME NEW q \in network', upload'[q.upload] # Rest
       PROVE  /\ upload'[q.upload].cookies = q.cookies
              /\ q.attempt <= upload'[q.upload].attempt
              /\ upload'[q.upload].pc = "send" => q.attempt # upload'[q.upload].attempt
  <2>1. CASE q \in network /\ q.upload # j
    BY <1>2, <1>6, <1>10, <2>1 DEF Traffic, Attempts
  <2>2. CASE q \in network /\ q.upload = j
    BY <1>2, <1>6, <2>2
  <2>3. CASE \E s \in u.scope : q = Sent(s)
    BY <1>1, <1>2, <1>4, <2>3
  <2> QED  BY <1>9, <2>1, <2>2, <2>3
<1>11. ASSUME NEW q \in network', NEW r \in network',
              q.upload = r.upload, q.attempt = r.attempt
       PROVE  q = r
  <2>1. CASE q \in network /\ r \in network
    BY <1>11, <2>1 DEF Traffic, Attempts
  <2>2. CASE \E s \in u.scope : q = Sent(s)
    BY <1>4, <1>5, <1>6, <1>9, <1>11, <2>2
  <2>3. CASE \E s \in u.scope : r = Sent(s)
    BY <1>4, <1>5, <1>6, <1>9, <1>11, <2>3
  <2> QED  BY <1>9, <2>1, <2>2, <2>3
<1>12. Attempts'
  BY <1>10, <1>11 DEF Attempts
<1> QED  BY <1>2, <1>7, <1>8, <1>12 DEF Traffic

----------------------------------------------------------------------------
(* The steps.                                                              *)

\* What an accepted request has put in order is a content of the store.
LEMMA AcceptIsPut ==
  ASSUME NEW s \in Scope, NEW cookies \in Jar, NEW why \in Reason,
         Accept(s, cookies, why)
  PROVE  /\ canonical(cookies) \in Canonical
         /\ sum(canonical(cookies)) = canonical(cookies)
         /\ canonical(cookies) \in Hash
         /\ Range(canonical(cookies)) = Range(cookies)
         /\ Put(s, canonical(cookies), why)
<1>1. ValidateUpload(cookies) /\ Put(s, sum(canonical(cookies)), why)
  BY DEF Accept
<1>2. canonical(cookies) \in Canonical
  BY <1>1 DEF Canonical
<1> QED  BY <1>1, <1>2, CanonicalCookies, CanonicalSorts

\* Every step is one of the store's, or leaves the store alone.
LEMMA StoreGoesOn ==
  ASSUME Traffic, [PublishNext]_publishVars
  PROVE  [Next]_storeVars
<1>1. ASSUME NEW q \in network, PutAccepted(q)  PROVE Next
  <2>1. q.scope \in Scope /\ q.cookies \in Jar /\ q.why \in Reason
    BY DEF Traffic, Request
  <2>2. Accept(q.scope, q.cookies, q.why)
    BY <1>1 DEF PutAccepted
  <2>3. canonical(q.cookies) \in Hash /\ Put(q.scope, canonical(q.cookies), q.why)
    BY <2>1, <2>2, AcceptIsPut
  <2> QED  BY <2>1, <2>3 DEF Next, PublisherNext
<1>2. ASSUME NEW s \in Scope, NEW n \in 1..MaxRevision, RollBack(s, n)  PROVE Next
  BY <1>2 DEF RollBack, Next, AdminNext
<1>3. CASE RevokeOrGrant \/ Stop \/ UNCHANGED publishVars
  BY <1>3 DEF RevokeOrGrant, Stop, publishVars
<1>4. ASSUME NEW s \in Scope, Change(s) \/ CreateAlarm(s) \/ SetupFails(s)
      PROVE  UNCHANGED storeVars
  BY <1>4 DEF Change, CreateAlarm, SetupFails
<1>5. ASSUME NEW j \in Upload, NEW s \in Scope,
             SyncNow(j, s) \/ Recover(j, s) \/ AlarmFires(j, s)
      PROVE  UNCHANGED storeVars
  BY <1>5 DEF SyncNow, Recover, AlarmFires
<1>6. ASSUME NEW j \in Upload, requestUpload(j) \/ Timeout(j)  PROVE UNCHANGED storeVars
  BY <1>6 DEF requestUpload, Timeout
<1>7. ASSUME NEW q \in network, PutRefused(q) \/ PutLost(q)  PROVE UNCHANGED storeVars
  BY <1>7 DEF PutRefused, PutLost
<1> QED  BY <1>1, <1>2, <1>3, <1>4, <1>5, <1>6, <1>7 DEF PublishNext, Step

\* Every step preserves the agreement of requests and uploads,
LEMMA TrafficNext ==
  ASSUME Traffic, Shapes, [PublishNext]_publishVars
  PROVE  Traffic'
<1> USE DEF browser
<1>0. ASSUME network' \subseteq network, UNCHANGED upload  PROVE Traffic'
  BY <1>0, TrafficShrinks DEF Traffic
<1>1. ASSUME NEW s \in Scope, Change(s) \/ CreateAlarm(s) \/ SetupFails(s)
      PROVE  Traffic'
  BY <1>0, <1>1 DEF Change, CreateAlarm, SetupFails
<1>2. ASSUME NEW j \in Upload, NEW s \in Scope,
             SyncNow(j, s) \/ Recover(j, s) \/ AlarmFires(j, s)
      PROVE  Traffic'
  <2>1. UNCHANGED network
    BY <1>2 DEF SyncNow, Recover, AlarmFires
  <2>2. CASE Skip(j)
    BY <1>0, <2>1, <2>2 DEF Skip
  <2>3. ASSUME NEW why \in Reason, Begin(j, s, why)  PROVE Traffic'
    BY <2>1, <2>3, BeginTraffic
  <2> QED  BY <1>2, <2>2, <2>3 DEF SyncNow, Recover, AlarmFires, Reason
<1>3. ASSUME NEW j \in Upload, requestUpload(j)  PROVE Traffic'
  BY <1>3, RequestTraffic
<1>4. ASSUME NEW j \in Upload, Timeout(j)  PROVE Traffic'
  BY <1>4, FailEnds, TrafficShrinks DEF Timeout
<1>5. CASE Stop
  <2>1. upload' \in [Upload -> UploadState] /\ \A j \in Upload : upload'[j] = Rest
    BY <1>5, RestIsUpload DEF Stop
  <2>2. network' \subseteq network
    BY <1>5 DEF Stop
  <2> QED  BY <2>1, <2>2, TrafficShrinks
<1>6. ASSUME NEW q \in network, PutAccepted(q)  PROVE Traffic'
  <2>1. network' \subseteq network
    BY <1>6 DEF PutAccepted
  <2>2. UNCHANGED upload \/ upload' = [upload EXCEPT ![q.upload] = Rest]
    BY <1>6 DEF PutAccepted
  <2>3. /\ upload' \in [Upload -> UploadState]
        /\ \A j \in Upload : upload'[j] \in {upload[j], Rest}
    BY <2>2, RestIsUpload DEF Traffic
  <2> QED  BY <2>1, <2>3, TrafficShrinks
<1>7. ASSUME NEW q \in network, PutRefused(q)  PROVE Traffic'
  <2>1. network' \subseteq network /\ q.upload \in Upload
    BY <1>7 DEF PutRefused, Traffic, Request
  <2>2. CASE Waits(q)
    BY <1>7, <2>1, <2>2, FailEnds, TrafficShrinks DEF PutRefused, Waits
  <2>3. CASE ~Waits(q)
    BY <1>0, <1>7, <2>1, <2>3 DEF PutRefused
  <2> QED  BY <2>2, <2>3
<1>8. ASSUME NEW q \in network, PutLost(q)  PROVE Traffic'
  BY <1>0, <1>8 DEF PutLost
<1>9. ASSUME NEW s \in Scope, NEW n \in 1..MaxRevision, RollBack(s, n)  PROVE Traffic'
  BY <1>0, <1>9 DEF RollBack
<1>10. CASE RevokeOrGrant \/ UNCHANGED publishVars
  BY <1>0, <1>10 DEF RevokeOrGrant, publishVars
<1> QED  BY <1>1, <1>2, <1>3, <1>4, <1>5, <1>6, <1>7, <1>8, <1>9, <1>10 DEF PublishNext, Step

\* The pointer names a number with a snapshot, or nothing was published.
LEMMA PointerHasContent ==
  ASSUME StoreInv, Content, NEW s \in Scope
  PROVE  /\ current[s] \in 0..MaxRevision
         /\ \A r \in CurrentRow(s) : /\ r.sha256 \in Canonical
                                     /\ Served(s) = SnapshotOf(r.sha256)
         /\ CurrentRow(s) = {} => Served(s) = NoSnapshot
<1>0. TypeOK /\ Ledger
  BY DEF StoreInv, TypeWindow
<1>1. PICK hi \in 0..MaxRevision : Numbers(History(s)) = 1..hi
  BY DEF StoreInv, TypeWindow, RetentionWindow
<1>2. hi \in Nat /\ hi <= MaxRevision /\ MaxRevision \in Nat
  BY BoundAssumption
<1>3. ASSUME NEW r \in CurrentRow(s)
      PROVE  /\ current[s] = r.revision /\ r.revision \in 1..hi
             /\ r.sha256 \in Canonical
             /\ Served(s) = SnapshotOf(r.sha256)
  <2> DEFINE p == [scope |-> s, revision |-> r.revision, sha256 |-> r.sha256]
  <2>1. p \in published
    BY <1>0, RowRead
  <2>2. p.scope = s /\ p.revision = r.revision /\ p.sha256 = r.sha256
    OBVIOUS
  <2> HIDE DEF p
  <2>3. r.revision \in Numbers(History(s))
    BY <2>1, <2>2 DEF Numbers, History
  <2>4. current[s] = r.revision
    BY DEF CurrentRow
  <2> QED  BY <1>1, <2>1, <2>2, <2>3, <2>4 DEF Content, Served
<1>4. ASSUME CurrentRow(s) = {}
      PROVE  current[s] = 0 /\ Served(s) = NoSnapshot
  <2>1. current[s] = 0
    BY <1>0, <1>4 DEF Ledger, CurrentRetained
  <2>2. 0 \notin Numbers(History(s)) /\ 0 \in 0..MaxRevision
    BY <1>1, <1>2
  <2> QED  BY <2>1, <2>2 DEF Content, Served
<1>5. current[s] \in 0..MaxRevision
  BY <1>2, <1>3, <1>4
<1> QED  BY <1>3, <1>4, <1>5

\* A request is accepted.
LEMMA AcceptContent ==
  ASSUME PublishInv, NEW s \in Scope, NEW cookies \in Jar, NEW why \in Reason,
         Accept(s, cookies, why)
  PROVE  /\ Content'
         /\ snapshot' \in [Scope -> [0..MaxRevision -> Snapshots]]
         /\ accepted' \in [Scope -> Jar \cup Canonical]
         /\ Served(s)' = SnapshotOf(canonical(cookies))
<1> DEFINE sorted == canonical(cookies)
<1>0. TypeOK /\ Ledger /\ StoreInv /\ Content /\ Shapes
  BY DEF PublishInv, StoreInv, TypeWindow
<1>1. /\ sorted \in Canonical /\ sorted \in Hash /\ sum(sorted) = sorted
      /\ Range(sorted) = Range(cookies)
      /\ Put(s, sorted, why)
  BY AcceptIsPut
<1>2. /\ snapshot' = IF Deduplicated(s, sorted, why) THEN snapshot
                     ELSE [snapshot EXCEPT ![s][NextRevision(s)] = SnapshotOf(sorted)]
      /\ accepted' = [accepted EXCEPT ![s] = cookies]
  BY <1>1 DEF Accept, SnapshotOf
<1> HIDE DEF sorted
<1>3. /\ accepted' \in [Scope -> Jar \cup Canonical]
      /\ accepted'[s] = cookies
      /\ \A t \in Scope : t # s => accepted'[t] = accepted[t]
  BY <1>0, <1>2 DEF Shapes
<1>r. SnapshotOf(sorted).cookies = sorted
  BY DEF SnapshotOf
<1>4. CASE Deduplicated(s, sorted, why)
  <2>1. UNCHANGED storeVars /\ UNCHANGED snapshot
    BY <1>1, <1>2, <1>4 DEF Put, PutUnchanged, PutRevision
  <2>2. Served(s) = SnapshotOf(sorted)
    BY <1>0, <1>4, PointerHasContent DEF Deduplicated
  <2>3. \A t \in Scope : Served(t)' = Served(t)
    BY <2>1 DEF Served, storeVars
  <2>4. \A t \in Scope : Range(Served(t)'.cookies) = Range(accepted'[t])
    <3> SUFFICES ASSUME NEW t \in Scope  PROVE Range(Served(t)'.cookies) = Range(accepted'[t])
      OBVIOUS
    <3>1. CASE t = s
      BY <1>1, <1>3, <1>r, <2>2, <2>3, <3>1
    <3>2. CASE t # s
      BY <1>0, <1>3, <2>3, <3>2 DEF Content
    <3> QED  BY <3>1, <3>2
  <2>5. Content'
    BY <1>0, <2>1, <2>4 DEF Content, storeVars, History, Numbers
  <2> QED  BY <1>0, <1>3, <2>1, <2>2, <2>3, <2>5 DEF Shapes, sorted
<1>5. CASE ~Deduplicated(s, sorted, why)
  <2>0. PutRevision(s, sorted, why)
    BY <1>1, <1>5 DEF Put, PutUnchanged
  <2>1. PICK hi \in 0..MaxRevision : Window(s, hi)
    BY <1>0 DEF StoreInv, TypeWindow, RetentionWindow, Window
  <2>2. hi \in Nat /\ Numbers(History(s)) = 1..hi
    BY <2>1, BoundAssumption DEF Window
  <2> DEFINE n == hi + 1
             p == [scope |-> s, revision |-> n, sha256 |-> sorted]
  <2>3. /\ NextRevision(s) = n /\ n <= MaxRevision
        /\ current' = [current EXCEPT ![s] = n]
        /\ published' = published \cup {p}
    BY <1>0, <1>1, <2>0, <2>1, <2>2, PutEffect DEF Window
  <2>4. n \in 0..MaxRevision /\ n \notin 1..hi
    BY <2>2, <2>3, BoundAssumption
  <2>5. snapshot' = [snapshot EXCEPT ![s][n] = SnapshotOf(sorted)]
    BY <1>2, <1>5, <2>3
  <2>p. p.scope = s /\ p.revision = n /\ p.sha256 = sorted
    OBVIOUS
  <2> HIDE DEF n, p
  <2>6. SnapshotOf(sorted) \in Snapshots
    BY <1>1 DEF Snapshots
  <2>7. /\ snapshot' \in [Scope -> [0..MaxRevision -> Snapshots]]
        /\ snapshot'[s][n] = SnapshotOf(sorted)
        /\ \A t \in Scope, m \in 0..MaxRevision :
             t # s \/ m # n => snapshot'[t][m] = snapshot[t][m]
    BY <1>0, <2>4, <2>5, <2>6 DEF Shapes
  <2>8. current'[s] = n /\ \A t \in Scope : t # s => current'[t] = current[t]
    BY <1>0, <2>3 DEF TypeOK
  <2>9. Served(s)' = SnapshotOf(sorted)
    BY <2>7, <2>8 DEF Served
  <2>10. \A t \in Scope : t # s => Served(t)' = Served(t)
    <3> SUFFICES ASSUME NEW t \in Scope, t # s  PROVE Served(t)' = Served(t)
      OBVIOUS
    <3>1. current[t] \in 0..MaxRevision /\ current'[t] = current[t]
      BY <1>0, <2>8, PointerHasContent
    <3>2. snapshot'[t][current[t]] = snapshot[t][current[t]]
      BY <2>7, <3>1
    <3> QED  BY <3>1, <3>2 DEF Served
  <2>11. ASSUME NEW o \in published'
         PROVE  /\ o.sha256 \in Canonical
                /\ snapshot'[o.scope][o.revision] = SnapshotOf(o.sha256)
    <3>1. CASE o = p
      BY <1>1, <2>7, <2>p, <3>1
    <3>2. CASE o \in published
      <4>1. /\ o.sha256 \in Canonical
            /\ snapshot[o.scope][o.revision] = SnapshotOf(o.sha256)
            /\ o.scope \in Scope
        BY <1>0, <3>2 DEF Content, TypeOK, Publication
      <4>2. o.revision \in Numbers(History(o.scope))
        BY <3>2 DEF Numbers, History
      <4>3. PICK k \in 0..MaxRevision : Numbers(History(o.scope)) = 1..k
        BY <1>0, <4>1 DEF StoreInv, TypeWindow, RetentionWindow
      <4>4. o.revision \in 0..MaxRevision
        BY <4>2, <4>3, BoundAssumption
      <4>5. o.scope # s \/ o.revision # n
        BY <2>2, <2>4, <4>2
      <4> QED  BY <2>7, <4>1, <4>4, <4>5
    <3> QED  BY <2>3, <3>1, <3>2
  <2>12. ASSUME NEW t \in Scope, NEW m \in 0..MaxRevision, snapshot'[t][m] # NoSnapshot
         PROVE  m \in Numbers(History(t))'
    <3>1. History(t) \subseteq History(t)'
      BY <2>3 DEF History
    <3>2. CASE t = s /\ m = n
      BY <2>3, <2>p, <3>2 DEF Numbers, History
    <3>3. CASE ~(t = s /\ m = n)
      <4>1. m \in Numbers(History(t))
        BY <1>0, <2>7, <2>12, <3>3 DEF Content
      <4> QED  BY <3>1, <4>1 DEF Numbers
    <3> QED  BY <3>2, <3>3
  <2>13. \A t \in Scope : Range(Served(t)'.cookies) = Range(accepted'[t])
    <3> SUFFICES ASSUME NEW t \in Scope  PROVE Range(Served(t)'.cookies) = Range(accepted'[t])
      OBVIOUS
    <3>1. CASE t = s
      BY <1>1, <1>3, <1>r, <2>9, <3>1
    <3>2. CASE t # s
      BY <1>0, <1>3, <2>10, <3>2 DEF Content
    <3> QED  BY <3>1, <3>2
  <2>14. Content'
    BY <2>11, <2>12, <2>13 DEF Content
  <2> QED  BY <1>3, <2>7, <2>9, <2>14 DEF sorted
<1> QED  BY <1>4, <1>5

\* brokerctl goes back to a revision that is still stored.
LEMMA RollBackContent ==
  ASSUME PublishInv, NEW s \in Scope, NEW n \in 1..MaxRevision, RollBack(s, n)
  PROVE  Content' /\ accepted' \in [Scope -> Jar \cup Canonical]
<1>0. TypeOK /\ Ledger /\ StoreInv /\ Content /\ Shapes
  BY DEF PublishInv, StoreInv, TypeWindow
<1>1. /\ HasRevision(s, n) /\ current' = [current EXCEPT ![s] = n]
      /\ UNCHANGED <<revisions, published, snapshot>>
      /\ accepted' = [accepted EXCEPT ![s] = snapshot[s][n].cookies]
  BY DEF RollBack, Rollback
<1>2. PICK r \in revisions : r.scope = s /\ r.revision = n
  BY <1>1 DEF HasRevision, Numbers, RowsOf
<1> DEFINE p == [scope |-> s, revision |-> n, sha256 |-> r.sha256]
<1>3. p \in published
  BY <1>0, <1>2 DEF Ledger, RevisionNamesOneContent
<1>4. p.scope = s /\ p.revision = n /\ p.sha256 = r.sha256
  OBVIOUS
<1> HIDE DEF p
<1>5. snapshot[s][n] = SnapshotOf(r.sha256) /\ r.sha256 \in Canonical
  BY <1>0, <1>3, <1>4 DEF Content
<1>6. snapshot[s][n].cookies \in Canonical
  BY <1>5 DEF SnapshotOf
<1>7. /\ accepted' \in [Scope -> Jar \cup Canonical]
      /\ accepted'[s] = snapshot[s][n].cookies
      /\ \A t \in Scope : t # s => accepted'[t] = accepted[t]
  BY <1>0, <1>1, <1>6 DEF Shapes
<1>8. /\ Served(s)' = snapshot[s][n]
      /\ \A t \in Scope : t # s => Served(t)' = Served(t)
  BY <1>0, <1>1 DEF Served, TypeOK
<1>9. \A t \in Scope : Range(Served(t)'.cookies) = Range(accepted'[t])
  BY <1>0, <1>7, <1>8 DEF Content
<1>10. Content'
  BY <1>0, <1>1, <1>9 DEF Content, History, Numbers
<1> QED  BY <1>7, <1>10

\* The other steps leave the broker alone.
LEMMA ContentStays ==
  ASSUME Content, UNCHANGED <<storeVars, snapshot, accepted>>
  PROVE  Content'
BY DEF Content, Served, History, Numbers, storeVars

\* the shapes of the other variables, and what the store serves.
LEMMA ShapesAndContentNext ==
  ASSUME PublishInv, [PublishNext]_publishVars
  PROVE  Shapes' /\ Content'
<1> USE DEF browser
<1>0. Traffic /\ Shapes /\ Content
  BY DEF PublishInv
<1>i. Input => inputs' \in 0..MaxInputs
  BY <1>0, PublishAssumption DEF Input, Shapes
<1>f. \A s : Forgotten(s) \subseteq {s}
  BY DEF Forgotten
<1>1. ASSUME NEW s \in Scope, Change(s)  PROVE Shapes' /\ Content'
  <2>1. jar' \in [Scope -> Jar]
    BY <1>0, <1>1 DEF Change, Shapes
  <2>2. changing' \in [Scope -> Nat] /\ \A t \in Interactive : changing'[t] = 0
    BY <1>0, <1>1, PublishAssumption DEF Change, Shapes
  <2> QED  BY <1>0, <1>1, <1>i, <2>1, <2>2, ContentStays DEF Change, Shapes
<1>c. ASSUME NEW s \in Scope, CreateAlarm(s) \/ SetupFails(s)
      PROVE  Shapes' /\ Content'
  <2>1. changing[s] > 0 /\ changing' = [changing EXCEPT ![s] = @ - 1]
        /\ UNCHANGED <<storeVars, snapshot, jar, granted, accepted>>
    BY <1>c DEF CreateAlarm, SetupFails
  <2>2. s \notin Interactive
    BY <1>0, <2>1 DEF Shapes
  <2>3. changing' \in [Scope -> Nat] /\ \A t \in Interactive : changing'[t] = 0
    BY <1>0, <2>1, <2>2, PublishAssumption DEF Shapes
  <2>4. alarms' \subseteq Scope \ Interactive
    BY <1>0, <1>c, <2>2 DEF CreateAlarm, SetupFails, Shapes
  <2>5. excused' \subseteq Scope /\ inputs' \in 0..MaxInputs
    BY <1>0, <1>c, <1>f, <1>i DEF CreateAlarm, SetupFails, Shapes
  <2> QED  BY <1>0, <2>1, <2>3, <2>4, <2>5, ContentStays DEF Shapes
<1>2. ASSUME NEW j \in Upload, NEW s \in Scope,
             SyncNow(j, s) \/ Recover(j, s) \/ AlarmFires(j, s)
      PROVE  Shapes' /\ Content'
  <2>1. UNCHANGED <<storeVars, snapshot, accepted, jar, changing, granted, network>>
    BY <1>2 DEF SyncNow, Recover, AlarmFires
  <2>2. excused' \subseteq Scope
    <3>1. ASSUME NEW why \in Reason, Begin(j, s, why)  PROVE excused' \subseteq Scope
      BY <1>0, <2>1, <3>1, BeginTraffic
    <3>2. CASE Skip(j) /\ excused' \subseteq excused \cup Forgotten(s)
      BY <1>0, <1>f, <3>2 DEF Shapes
    <3> QED  BY <1>2, <3>1, <3>2 DEF SyncNow, Recover, AlarmFires, Reason
  <2>3. alarms' \subseteq alarms /\ inputs' \in 0..MaxInputs
    BY <1>0, <1>2, <1>i DEF SyncNow, Recover, AlarmFires, Shapes
  <2> QED  BY <1>0, <2>1, <2>2, <2>3, ContentStays DEF Shapes
<1>3. ASSUME NEW j \in Upload, requestUpload(j)  PROVE Shapes' /\ Content'
  BY <1>0, <1>3, ContentStays DEF requestUpload, Shapes
<1>4. ASSUME NEW j \in Upload, Timeout(j)  PROVE Shapes' /\ Content'
  <2>1. excused' \subseteq Scope
    BY <1>0, <1>4, FailEnds DEF Timeout, Shapes
  <2>2. inputs' \in 0..MaxInputs
    BY <1>0, <1>4, <1>i DEF Timeout, Shapes
  <2>3. UNCHANGED <<storeVars, snapshot, accepted, jar, changing, alarms, granted>>
    BY <1>4 DEF Timeout
  <2> QED  BY <1>0, <2>1, <2>2, <2>3, ContentStays DEF Shapes
<1>5. CASE Stop
  <2>1. excused' \subseteq Scope
    BY <1>0, <1>5 DEF Stop, Shapes
  <2>2. changing' \in [Scope -> Nat] /\ \A t \in Interactive : changing'[t] = 0
    BY <1>5, PublishAssumption DEF Stop
  <2> QED  BY <1>0, <1>5, <1>i, <2>1, <2>2, ContentStays DEF Stop, Shapes
<1>6. ASSUME NEW q \in network, PutAccepted(q)  PROVE Shapes' /\ Content'
  <2>1. q.scope \in Scope /\ q.cookies \in Jar /\ q.why \in Reason
    BY <1>0 DEF Traffic, Request
  <2>2. Accept(q.scope, q.cookies, q.why)
    BY <1>6 DEF PutAccepted
  <2>3. /\ Content'
        /\ snapshot' \in [Scope -> [0..MaxRevision -> Snapshots]]
        /\ accepted' \in [Scope -> Jar \cup Canonical]
    BY <2>1, <2>2, AcceptContent
  <2>4. excused' \subseteq Scope
    BY <1>0, <1>6, <2>1 DEF PutAccepted, Overtaken, Shapes
  <2>5. inputs' \in 0..MaxInputs
    BY <1>0, <1>6, <1>i DEF PutAccepted, Shapes
  <2>6. UNCHANGED <<jar, changing, alarms, granted>>
    BY <1>6 DEF PutAccepted
  <2> QED  BY <1>0, <2>3, <2>4, <2>5, <2>6 DEF Shapes
<1>7. ASSUME NEW q \in network, PutRefused(q)  PROVE Shapes' /\ Content'
  <2>1. q.upload \in Upload
    BY <1>0 DEF Traffic, Request
  <2>2. excused' \subseteq Scope
    <3>1. CASE Waits(q)
      BY <1>0, <1>7, <2>1, <3>1, FailEnds DEF PutRefused, Waits, Shapes
    <3>2. CASE ~Waits(q)
      BY <1>0, <1>7, <3>2 DEF PutRefused, Shapes
    <3> QED  BY <3>1, <3>2
  <2>3. UNCHANGED <<storeVars, snapshot, accepted, jar, changing, alarms, granted, inputs>>
    BY <1>7 DEF PutRefused
  <2> QED  BY <1>0, <2>2, <2>3, ContentStays DEF Shapes
<1>8. ASSUME NEW q \in network, PutLost(q)  PROVE Shapes' /\ Content'
  BY <1>0, <1>8, <1>i, ContentStays DEF PutLost, Shapes
<1>9. ASSUME NEW s \in Scope, NEW n \in 1..MaxRevision, RollBack(s, n)
      PROVE  Shapes' /\ Content'
  <2>1. Content' /\ accepted' \in [Scope -> Jar \cup Canonical]
    BY <1>9, RollBackContent
  <2>2. excused' \subseteq Scope
    BY <1>0, <1>9 DEF RollBack, Overtaken, Shapes
  <2>3. UNCHANGED <<snapshot, jar, changing, alarms, granted>> /\ inputs' \in 0..MaxInputs
    BY <1>9, <1>i DEF RollBack
  <2> QED  BY <1>0, <2>1, <2>2, <2>3 DEF Shapes
<1>10. CASE RevokeOrGrant
  <2>1. granted' \in BOOLEAN
    BY <1>10 DEF RevokeOrGrant
  <2> QED  BY <1>0, <1>10, <1>i, <2>1, ContentStays DEF RevokeOrGrant, Shapes
<1>11. CASE UNCHANGED publishVars
  BY <1>0, <1>11, ContentStays DEF publishVars, Shapes
<1> QED  BY <1>1, <1>c, <1>2, <1>3, <1>4, <1>5, <1>6, <1>7, <1>8, <1>9, <1>10, <1>11
         DEF PublishNext, Step

\* The invariant holds at first,
LEMMA PublishInvInit == PublishInit => PublishInv
<1> SUFFICES ASSUME PublishInit PROVE PublishInv
  OBVIOUS
<1>1. StoreInv
  BY TypeWindowInit, LedgerInit DEF PublishInit, StoreInv
<1>2. Traffic
  BY RestIsUpload DEF PublishInit, Traffic, Slots, Attempts
<1>3. Shapes
  BY PublishAssumption, BoundAssumption DEF PublishInit, Shapes, Snapshots
<1>4. Content
  <2>1. \A s \in Scope, n \in 0..MaxRevision : snapshot[s][n] = NoSnapshot
    BY DEF PublishInit
  <2>2. \A s \in Scope : Served(s) = NoSnapshot
    <3>1. \A s \in Scope : current[s] = 0 /\ 0 \in 0..MaxRevision
      BY BoundAssumption DEF PublishInit, Init
    <3> QED  BY <2>1, <3>1 DEF Served
  <2>3. \A s \in Scope : accepted[s] = NoSnapshot.cookies
    BY DEF PublishInit, NoSnapshot
  <2>4. published = {}
    BY DEF PublishInit, Init
  <2> QED  BY <2>1, <2>2, <2>3, <2>4 DEF Content
<1> QED  BY <1>1, <1>2, <1>3, <1>4 DEF PublishInv

\* every step preserves it,
LEMMA PublishInvNext ==
  ASSUME PublishInv, [PublishNext]_publishVars
  PROVE  PublishInv'
<1>1. Traffic /\ Shapes /\ StoreInv
  BY DEF PublishInv
<1>2. [Next]_storeVars
  BY <1>1, StoreGoesOn
<1>3. StoreInv'
  BY <1>1, <1>2, TypeWindowStep, LedgerStep DEF StoreInv
<1>4. Traffic'
  BY <1>1, TrafficNext
<1> QED  BY <1>3, <1>4, ShapesAndContentNext DEF PublishInv

\* and so it always holds.
LEMMA PublishInvariant == PublishSpec => []PublishInv
BY PublishInvInit, PublishInvNext, PTL DEF PublishSpec

----------------------------------------------------------------------------
(* The results.                                                            *)

\* Attempts are numbered 1 to RETRIES, so no more requests are on their way.
LEMMA RequestsOfUpload ==
  ASSUME Traffic, NEW j \in Upload
  PROVE  Cardinality({q \in network : q.upload = j}) <= RETRIES
<1> DEFINE Q == {q \in network : q.upload = j}
           number == [q \in Q |-> q.attempt]
<1>1. \A q \in Q : q.attempt \in 1..RETRIES
  BY DEF Traffic, Request
<1>2. \A q, r \in Q : q.attempt = r.attempt => q = r
  BY DEF Traffic, Attempts
<1>3. number \in Injection(Q, 1..RETRIES)
  BY <1>1, <1>2 DEF Injection, IsInjective
<1>4. IsFiniteSet(1..RETRIES) /\ Cardinality(1..RETRIES) = RETRIES
  <2>1. RETRIES \in Int /\ ~(1 > RETRIES) /\ RETRIES - 1 + 1 = RETRIES
    BY PublishAssumption
  <2> QED  BY <2>1, FS_Interval
<1> HIDE DEF Q, number
<1>5. Cardinality(Q) <= RETRIES
  BY <1>3, <1>4, FS_Injection
<1> QED  BY <1>5 DEF Q

\* The invariant implies the type invariant,
LEMMA TypesSuffice == PublishInv => PublishTypeOK
<1> SUFFICES ASSUME PublishInv PROVE PublishTypeOK
  OBVIOUS
<1>0. Traffic /\ Shapes /\ Content /\ StoreInv
  BY DEF PublishInv
<1>1. \A j \in Upload : /\ upload[j].pc \in {"idle", "send", "wait"}
                        /\ upload[j].attempt \in 0..RETRIES
  BY <1>0 DEF Traffic, UploadState
<1>2. \A q \in network : /\ q.scope \in Scope /\ q.cookies \in Jar
                         /\ q.attempt \in 1..RETRIES
                         /\ upload[q.upload] # Rest =>
                              upload[q.upload].cookies = q.cookies
  BY <1>0 DEF Traffic, Request, Attempts
<1>3. ASSUME NEW s \in Scope, NEW n \in 0..MaxRevision, snapshot[s][n] # NoSnapshot
      PROVE  n # 0 /\ n < NextRevision(s)
  <2>1. PICK hi \in 0..MaxRevision : Window(s, hi)
    BY <1>0 DEF StoreInv, TypeWindow, RetentionWindow, Window
  <2>2. hi \in Nat /\ Numbers(History(s)) = 1..hi /\ Numbers(RowsOf(s)) = OldestKept(hi)..hi
    BY <2>1, BoundAssumption DEF Window
  <2>3. NextRevision(s) = hi + 1
    BY <2>2, MaxOfWindow DEF NextRevision
  <2>4. n \in 1..hi
    BY <1>0, <1>3, <2>2 DEF Content
  <2> QED  BY <2>2, <2>3, <2>4
<1> QED  BY <1>0, <1>1, <1>2, <1>3, RequestsOfUpload DEF PublishTypeOK, Shapes

\* No upload makes more than RETRIES attempts (upload of service-worker.js), no more than
\* that many of its requests are on their way, and what is on its way for an
\* upload in progress is what it has captured.
THEOREM PublishTypeCorrect == PublishSpec => []PublishTypeOK
BY PublishInvariant, TypesSuffice, PTL

\* and that what is served was accepted.
LEMMA ContentSuffices == PublishInv => ServedIsAccepted
<1> SUFFICES ASSUME PublishInv, NEW s \in Scope
             PROVE  LET hints == {c \in Range(accepted[s]) : c.auth /\ c.expires # 0}
                    IN  /\ Range(Served(s).cookies) = Range(accepted[s])
                        /\ \A t \in Served(s).auth_expires_at, c \in hints : t <= c.expires
                        /\ Served(s).auth_expires_at = {} <=> hints = {}
  BY DEF ServedIsAccepted
<1>0. Content /\ StoreInv
  BY DEF PublishInv
<1>1. Range(Served(s).cookies) = Range(accepted[s])
  BY <1>0 DEF Content
<1>2. CASE CurrentRow(s) = {}
  <2>1. Served(s).cookies = <<>> /\ Served(s).auth_expires_at = {}
    BY <1>0, <1>2, PointerHasContent DEF NoSnapshot
  <2>2. Range(accepted[s]) = {}
    BY <1>1, <2>1 DEF Range
  <2> QED  BY <1>1, <2>1, <2>2
<1>3. CASE CurrentRow(s) # {}
  <2>1. PICK r \in CurrentRow(s) : TRUE
    BY <1>3
  <2> DEFINE c == r.sha256
  <2>2. c \in Canonical /\ Served(s) = SnapshotOf(c)
    BY <1>0, <2>1, PointerHasContent
  <2> HIDE DEF c
  <2>3. Served(s).cookies = c /\ Served(s).auth_expires_at = AuthExpiry(c)
    BY <2>2 DEF SnapshotOf
  <2>4. Range(c) = Range(accepted[s]) /\ \A x \in Range(c) : x.expires \in Nat
    BY <1>1, <2>2, <2>3, CanonicalCookies
  <2>5. LET hints == {x \in Range(c) : x.auth /\ x.expires # 0}
        IN  /\ \A t \in AuthExpiry(c), x \in hints : t <= x.expires
            /\ AuthExpiry(c) = {} <=> hints = {}
    BY <2>4, EarliestExpiry
  <2> QED  BY <1>1, <2>3, <2>4, <2>5
<1> QED  BY <1>2, <1>3

\* The broker serves the cookies of the request it accepted last, whatever
\* their order, with the earliest expiry that counts, through deduplication,
\* pruning, rollbacks and late requests (Put, AuthExpiry).
THEOREM ServedIsAcceptedAlways == PublishSpec => []ServedIsAccepted
BY PublishInvariant, ContentSuffices, PTL

\* A publication that makes an ordinary revision changes what is served.
LEMMA NewsStep ==
  ASSUME PublishInv, [PublishNext]_publishVars, NEW r \in revisions' \ revisions,
         r.reason = "ordinary"
  PROVE  Range(Served(r.scope).cookies)' # Range(Served(r.scope).cookies)
<1>0. Traffic /\ Shapes /\ Content /\ StoreInv
  BY DEF PublishInv
<1>1. PICK q \in network : PutAccepted(q)
  <2>1. ASSUME NEW s \in Scope, NEW n \in 1..MaxRevision, RollBack(s, n)
        PROVE  UNCHANGED revisions
    BY <2>1 DEF RollBack, Rollback
  <2> QED  BY <2>1 DEF PublishNext, Step, RevokeOrGrant, Stop, publishVars, Change,
                       CreateAlarm, SetupFails,
                       SyncNow, Recover, AlarmFires, requestUpload, Timeout, PutRefused,
                       PutLost, storeVars
<1> DEFINE s == q.scope
           sorted == canonical(q.cookies)
<1>2. s \in Scope /\ q.cookies \in Jar /\ q.why \in Reason /\ Accept(s, q.cookies, q.why)
  BY <1>0, <1>1 DEF Traffic, Request, PutAccepted
<1>3. sorted \in Canonical /\ sorted \in Hash /\ Put(s, sorted, q.why)
  BY <1>2, AcceptIsPut
<1>4. Served(s)' = SnapshotOf(sorted)
  BY <1>2, AcceptContent
<1> HIDE DEF s, sorted
<1>5. PutRevision(s, sorted, q.why)
  BY <1>3 DEF Put, PutUnchanged, storeVars
<1>6. r.scope = s /\ r.reason = q.why
  BY <1>5 DEF PutRevision, InsertRevision
<1>7. ~Deduplicated(s, sorted, q.why) /\ q.why # "recovery"
  BY <1>5, <1>6 DEF PutRevision, InsertRevision
<1>8. SnapshotOf(sorted).cookies = sorted /\ Range(sorted) # {}
  BY <1>3, CanonicalCookies DEF SnapshotOf
<1>9. CASE CurrentRow(s) = {}
  <2>1. Served(s).cookies = <<>>
    BY <1>0, <1>2, <1>9, PointerHasContent DEF NoSnapshot
  <2>2. Range(Served(s).cookies) = {}
    BY <2>1 DEF Range
  <2> QED  BY <1>4, <1>6, <1>8, <2>2
<1>10. CASE CurrentRow(s) # {}
  <2>1. PICK o \in CurrentRow(s) : TRUE
    BY <1>10
  <2>2. o.sha256 \in Canonical /\ Served(s) = SnapshotOf(o.sha256)
    BY <1>0, <1>2, <2>1, PointerHasContent
  <2>3. o.sha256 # sorted
    BY <1>7, <2>1 DEF Deduplicated
  <2>4. Range(o.sha256) # Range(sorted)
    BY <1>3, <2>2, <2>3, CanonicalDecides
  <2>5. Served(s).cookies = o.sha256
    BY <2>2 DEF SnapshotOf
  <2> QED  BY <1>4, <1>6, <1>8, <2>4, <2>5
<1> QED  BY <1>9, <1>10

\* An ordinary publication makes a revision only if the cookies differ from
\* those served: order and repetition never make one (Put of store.go).
THEOREM RevisionsBringNewsAlways == PublishSpec => RevisionsBringNews
<1>1. ASSUME PublishInv, [PublishNext]_publishVars
      PROVE  [\A r \in revisions' \ revisions :
                r.reason = "ordinary" =>
                  Range(Served(r.scope).cookies)' # Range(Served(r.scope).cookies)]_publishVars
  BY <1>1, NewsStep
<1> QED  BY <1>1, PublishInvariant, PTL DEF PublishSpec, RevisionsBringNews

\* Publications that come from browsers are operations of the store: what is
\* proved of BrokerStore holds with the extension at work.
THEOREM PublishImplementsStore == PublishSpec => Spec
<1>1. PublishInit => Init
  BY DEF PublishInit
<1>2. ASSUME PublishInv, [PublishNext]_publishVars  PROVE [Next]_storeVars
  BY <1>2, StoreGoesOn DEF PublishInv
<1> QED  BY <1>1, <1>2, PublishInvariant, PTL DEF PublishSpec, Spec
============================================================================
