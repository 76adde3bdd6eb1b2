-------------------------- MODULE BrokerApiProofs --------------------------
(***************************************************************************)
(* The handlers of BrokerApi implement the atomic store of BrokerStore,    *)
(* for any number of requests in flight and any calls.                     *)
(***************************************************************************)
EXTENDS BrokerApi, BrokerStoreProofs

Slot == [pc : Label, call : Calls \cup {NoCall}, row : Row,
         at : SUBSET Scope, todo : SUBSET Scope]

\* ApiTypeOK without the tables.
HandlersTyped ==
    /\ req \in [Request -> Slot]
    /\ reply \in [call : Calls \cup {NoCall}, code : Code, row : Row]
    /\ conn \in Request \cup {Free}
    /\ stale \in BOOLEAN

\* A handler is at a step of its own operation, about its own scope.
OnTrack(q) ==
    \/ q = Idle
    \/ /\ q.call \in Calls
       /\ q.pc # "idle"
       /\ q.call.op # "list" => q.at = {q.call.scope}
       /\ q.pc \in {"select", "write"} => q.call.op = "put"
       /\ q.pc = "current" => q.call.op \in {"get", "status", "list"}
       /\ q.pc = "seen" => q.call.op = "get"
       /\ q.pc \in {"scopes", "listing"} => q.call.op = "list"
       /\ q.pc \in {"count", "insert"} => q.call.op = "report"
       /\ q.pc = "auth2" => q.call.op = "status"
       /\ q.pc = "write" => q.row.sha256 = q.call.hash

\* Revision and content that answer a call are a publication, and a PUT sent
\* that content.
Fits(c, r, publications) ==
    /\ [scope |-> c.scope, revision |-> r.revision, sha256 |-> r.sha256]
          \in publications
    /\ c.op = "put" => r.sha256 = c.hash

\* What a handler carries from Current to its response, although the store
\* may change in between.
Carries(q, publications) ==
    q.pc \in {"enrich", "seen"} /\ q.call.op # "list" =>
        Fits(q.call, q.row, publications)

HandlersFit ==
    \A i \in Request : OnTrack(req[i]) /\ Carries(req[i], published)

\* What the SELECTs of a PUT decided still holds when it comes to write: the
\* cookies are not current, and the number is the next one.
Decided ==
    \A i \in Request : LET c == req[i].call IN
        req[i].pc = "write" /\ ~stale =>
            /\ ~Deduplicated(c.scope, c.hash, c.why)
            /\ req[i].row.revision = NextRevision(c.scope)

ApiInv ==
    /\ TypeWindow /\ Ledger
    /\ HandlersTyped /\ HandlersFit /\ ConnectionOwner /\ AnswerWasPublished
    /\ Decided

----------------------------------------------------------------------------
(* Facts about calls, rows and slots.                                      *)

\* The fields a call has, by its operation.
LEMMA CallFields ==
  ASSUME NEW c \in Calls
  PROVE  /\ c # NoCall
         /\ c.op \in {"put", "get", "status", "report", "list"}
         /\ c.login.user \in User
         /\ c.op # "list" => c.scope \in Scope
         /\ c.op = "put" => c.hash \in Hash /\ c.why \in Reason
         /\ c.op = "report" => c.revision \in 1..MaxRevision /\ c.kind \in Kind
<1> USE CallAssumption
    DEF Call, PutCall, GetCall, StatusCall, ReportCall, ListCall, Login, NoCall
<1>1. CASE c \in PutCall
  BY <1>1
<1>2. CASE c \in GetCall
  BY <1>2
<1>3. CASE c \in StatusCall
  BY <1>3
<1>4. CASE c \in ReportCall
  BY <1>4
<1>5. CASE c \in ListCall
  BY <1>5
<1> QED
  BY <1>1, <1>2, <1>3, <1>4, <1>5

\* The join of revisions and current_revisions has one row at most.
LEMMA CurrentRowUnique ==
  ASSUME Ledger, NEW s \in Scope, NEW q \in CurrentRow(s), NEW r \in CurrentRow(s)
  PROVE  q = r
BY DEF Ledger, RowKeys, CurrentRow, RowsOf

\* MAX(revision)+1 is a number.
LEMMA NextIsNatural ==
  ASSUME TypeWindow, NEW s \in Scope
  PROVE  NextRevision(s) \in Nat
<1>1. PICK hi \in 0..MaxRevision : Numbers(RowsOf(s)) = OldestKept(hi)..hi
  BY DEF TypeWindow, RetentionWindow
<1>2. hi \in Nat
  BY <1>1, BoundAssumption
<1> QED
  BY <1>1, <1>2, MaxOfWindow DEF NextRevision

\* A step that sets one slot keeps the others fit.
LEMMA SlotSet ==
  ASSUME req \in [Request -> Slot], HandlersFit, published \subseteq published',
         NEW i \in Request, NEW q \in Slot,
         req' = [req EXCEPT ![i] = q],
         OnTrack(q), Carries(q, published')
  PROVE  req' \in [Request -> Slot] /\ HandlersFit'
<1>1. req' \in [Request -> Slot]
  OBVIOUS
<1>2. ASSUME NEW j \in Request
      PROVE  OnTrack(req'[j]) /\ Carries(req'[j], published')
  <2>1. CASE j = i
    BY <2>1
  <2>2. CASE j # i
    BY <2>2 DEF HandlersFit, OnTrack, Carries, Fits
  <2> QED
    BY <2>1, <2>2
<1> QED
  BY <1>1, <1>2 DEF HandlersFit

Reply == [call : Calls \cup {NoCall}, code : Code, row : Row]

\* What a step of one handler has to show: the slot, the response and the
\* connection it leaves behind.
LEMMA SlotStep ==
  ASSUME ApiInv, published \subseteq published',
         NEW i \in Request, NEW q \in Slot,
         req' = [req EXCEPT ![i] = q],
         OnTrack(q), Carries(q, published'),
         reply' \in Reply,
         reply'.row # NoRow => Fits(reply'.call, reply'.row, published'),
         conn' = IF q.pc = "write" THEN i ELSE IF conn = i THEN Free ELSE conn,
         q.pc = "write" => conn \in {Free, i},
         stale' \in BOOLEAN
  PROVE  HandlersTyped' /\ HandlersFit' /\ ConnectionOwner' /\ AnswerWasPublished'
<1>1. req' \in [Request -> Slot] /\ HandlersFit'
  BY SlotSet DEF ApiInv, HandlersTyped
<1>2. HandlersTyped'
  BY <1>1 DEF HandlersTyped, Reply, ApiInv
<1>3. ConnectionOwner'
  BY FreeAssumption DEF ConnectionOwner, ApiInv, HandlersTyped
<1>4. AnswerWasPublished'
  BY DEF AnswerWasPublished, Fits
<1> QED
  BY <1>1, <1>2, <1>3, <1>4

\* The handler goes on to a step at which it carries nothing new.
LEMMA GotoStep ==
  ASSUME ApiInv, UNCHANGED storeVars, NEW i \in Request, NEW label \in Label,
         Goto(i, label), OnTrack([req[i] EXCEPT !.pc = label]),
         label \in {"enrich", "seen"} =>
             req[i].pc \in {"enrich", "seen"} \/ req[i].call.op = "list",
         label # "write", conn = Free, UNCHANGED <<conn, stale>>
  PROVE  HandlersTyped' /\ HandlersFit' /\ ConnectionOwner' /\ AnswerWasPublished'
<1> DEFINE q == [req[i] EXCEPT !.pc = label]
<1>1. req[i] \in Slot /\ q \in Slot /\ stale \in BOOLEAN
  BY DEF ApiInv, HandlersTyped, Slot
<1>2. published' = published
  BY DEF storeVars
<1>3. Carries(q, published')
  BY <1>1, <1>2 DEF ApiInv, HandlersFit, Carries, Slot
<1>4. reply' = NoReply /\ reply' \in Reply /\ reply'.row = NoRow
  BY DEF Goto, NoReply, Reply, Code, Row
<1>5. req' = [req EXCEPT ![i] = q]
  BY DEF Goto
<1>6. conn' = IF q.pc = "write" THEN i ELSE IF conn = i THEN Free ELSE conn
  BY <1>1 DEF Slot
<1>7. q.pc = label
  BY <1>1 DEF Slot
<1> QED
  BY <1>1, <1>2, <1>3, <1>4, <1>5, <1>6, <1>7, SlotStep

\* The handler goes on to enrichStatus with a row that fits its call.
LEMMA GotoWithStep ==
  ASSUME ApiInv, UNCHANGED storeVars, NEW i \in Request, NEW r,
         r.revision \in Nat, r.sha256 \in Hash,
         GotoWith(i, "enrich", r), req[i] # Idle,
         req[i].call.op # "list" => Fits(req[i].call, r, published),
         conn = Free, UNCHANGED <<conn, stale>>
  PROVE  HandlersTyped' /\ HandlersFit' /\ ConnectionOwner' /\ AnswerWasPublished'
<1> DEFINE row == [revision |-> r.revision, sha256 |-> r.sha256]
           q == [req[i] EXCEPT !.pc = "enrich", !.row = row]
<1>1. req[i] \in Slot /\ stale \in BOOLEAN
  BY DEF ApiInv, HandlersTyped
<1>2. row \in Row
  BY DEF Row
<1>3. q \in Slot /\ q.pc = "enrich" /\ q.row = row /\ q.call = req[i].call
      /\ q.at = req[i].at
  BY <1>1, <1>2 DEF Slot, Label
<1>4. published' = published
  BY DEF storeVars
<1>5. Carries(q, published')
  BY <1>3, <1>4 DEF Carries, Fits
<1>6. OnTrack(q)
  BY <1>3 DEF ApiInv, HandlersFit, OnTrack
<1>7. reply' = NoReply /\ reply' \in Reply /\ reply'.row = NoRow
  BY DEF GotoWith, NoReply, Reply, Code, Row
<1>8. req' = [req EXCEPT ![i] = q]
  BY <1>1 DEF GotoWith, Slot
<1> QED
  BY <1>1, <1>3, <1>4, <1>5, <1>6, <1>7, <1>8, SlotStep

\* The handler responds, and rolls back or commits what it had open.
LEMMA RespondStep ==
  ASSUME ApiInv, published \subseteq published', NEW i \in Request,
         NEW code \in Code, NEW r \in Row, Respond(i, code, r),
         r # NoRow => Fits(req[i].call, r, published'),
         conn' = IF conn = i THEN Free ELSE conn,
         stale' \in BOOLEAN
  PROVE  HandlersTyped' /\ HandlersFit' /\ ConnectionOwner' /\ AnswerWasPublished'
<1>1. Idle \in Slot /\ OnTrack(Idle) /\ Carries(Idle, published')
      /\ Idle.pc = "idle"
  BY DEF Idle, Slot, Label, Row, OnTrack, Carries
<1>2. req[i].call \in Calls \cup {NoCall}
  BY DEF ApiInv, HandlersTyped, Slot
<1>3. reply' = [call |-> req[i].call, code |-> code, row |-> r]
      /\ reply' \in Reply
  BY <1>2 DEF Respond, Reply
<1>4. req' = [req EXCEPT ![i] = Idle]
  BY DEF Respond
<1> QED
  BY <1>1, <1>3, <1>4, SlotStep

----------------------------------------------------------------------------
(* The steps of a handler, one by one.                                     *)

\* A step of a handler is a step of the store or leaves it alone, and keeps
\* the parts of ApiInv that speak of handlers.
LEMMA HandlerStep ==
  ASSUME ApiInv, NEW i \in Request, Handle(i)
  PROVE  /\ [Next]_storeVars
         /\ HandlersTyped' /\ HandlersFit' /\ ConnectionOwner'
         /\ AnswerWasPublished'
<1> DEFINE c == req[i].call
           Goal == /\ [Next]_storeVars
                   /\ HandlersTyped' /\ HandlersFit' /\ ConnectionOwner'
                   /\ AnswerWasPublished'
<1>a. TypeOK /\ Ledger /\ req[i] \in Slot /\ OnTrack(req[i])
      /\ Carries(req[i], published) /\ stale \in BOOLEAN
      /\ conn \in Request \cup {Free}
  BY DEF ApiInv, TypeWindow, HandlersTyped, HandlersFit
<1>b. req[i] # Idle =>
        /\ c \in Calls /\ c.login.user \in User
        /\ c.op \in {"put", "get", "status", "report", "list"}
        /\ c.op # "list" => c.scope \in Scope /\ req[i].at = {c.scope}
        /\ c.op = "put" => c.hash \in Hash /\ c.why \in Reason
        /\ c.op = "report" => c.revision \in 1..MaxRevision /\ c.kind \in Kind
  BY <1>a, CallFields DEF OnTrack
<1>c. Idle.pc = "idle"
  BY DEF Idle
<1>d. conn = Free /\ conn' = conn => conn' = IF conn = i THEN Free ELSE conn
  BY FreeAssumption
<1>e. NoRow \in Row /\ {200, 201, 304, 401, 404, 422, 500} \subseteq Code
  BY DEF Row, Code
<1>1. CASE Authorize(i)
  <2>1. req[i] # Idle /\ req[i].pc = "auth" /\ conn = Free
        /\ UNCHANGED <<conn, stale>> /\ UNCHANGED storeVars
    BY <1>1, <1>c DEF Authorize, Statement
  <2>2. CASE Goto(i, FirstStep(c))
    <3>1. FirstStep(c) \in Label \ {"enrich", "seen", "write"}
      BY DEF FirstStep, Label
    <3>2. OnTrack([req[i] EXCEPT !.pc = FirstStep(c)])
      BY <1>a, <1>b, <2>1 DEF FirstStep, OnTrack, Slot
    <3> QED
      BY <2>1, <2>2, <3>1, <3>2, GotoStep
  <2>3. CASE c.op = "status" /\ Goto(i, "auth2")
    <3>1. OnTrack([req[i] EXCEPT !.pc = "auth2"]) /\ "auth2" \in Label
      BY <1>a, <1>b, <2>1, <2>3 DEF OnTrack, Slot, Label
    <3> QED
      BY <2>1, <2>3, <3>1, GotoStep
  <2>4. CASE Problem(i, 401)
    BY <1>a, <1>d, <1>e, <2>1, <2>4, RespondStep DEF Problem, storeVars
  <2> QED
    BY <1>1, <2>2, <2>3, <2>4 DEF Authorize
<1>2. CASE AuthorizePublisher(i)
  <2>1. req[i] # Idle /\ req[i].pc = "auth2" /\ conn = Free
        /\ UNCHANGED <<conn, stale>> /\ UNCHANGED storeVars
    BY <1>2, <1>c DEF AuthorizePublisher, Statement
  <2>2. CASE Goto(i, "current")
    <3>1. OnTrack([req[i] EXCEPT !.pc = "current"]) /\ "current" \in Label
      BY <1>a, <1>b, <2>1, <2>2 DEF OnTrack, Slot, Label
    <3> QED
      BY <2>1, <2>2, <3>1, GotoStep
  <2>3. CASE Problem(i, 401)
    BY <1>a, <1>d, <1>e, <2>1, <2>3, RespondStep DEF Problem, storeVars
  <2> QED
    BY <1>2, <2>2, <2>3 DEF AuthorizePublisher
<1>3. CASE PutSame(i)
  <2>1. req[i] # Idle /\ req[i].pc = "select" /\ conn = Free
        /\ UNCHANGED <<conn, stale>> /\ UNCHANGED storeVars
    BY <1>3, <1>c DEF PutSame, Statement
  <2>2. c.op = "put"
    BY <1>a, <2>1 DEF OnTrack
  <2>3. PICK r \in CurrentRow(c.scope) : GotoWith(i, "enrich", r)
    BY <1>3 DEF PutSame
  <2>4. r.sha256 = c.hash
    BY <1>3, <1>a, <1>b, <2>1, <2>2, CurrentRowUnique DEF PutSame, Deduplicated
  <2>5. Fits(c, r, published) /\ r.revision \in Nat /\ r.sha256 \in Hash
    BY <1>a, <1>b, <2>1, <2>2, <2>3, <2>4, RowRead DEF Fits
  <2> QED
    BY <2>1, <2>3, <2>5, GotoWithStep
<1>4. CASE PutBegin(i)
  <2> DEFINE n == NextRevision(c.scope)
             row == [revision |-> n, sha256 |-> c.hash]
             q == [req[i] EXCEPT !.pc = "write", !.row = row]
  <2>1. req[i] # Idle /\ req[i].pc = "select" /\ conn = Free /\ conn' = i
        /\ UNCHANGED storeVars /\ stale' = FALSE /\ GotoWith(i, "write", row)
    BY <1>4, <1>c DEF PutBegin
  <2>2. c.op = "put" /\ n \in Nat
    BY <1>a, <1>b, <2>1, NextIsNatural DEF OnTrack, ApiInv
  <2>3. row \in Row
    BY <1>b, <2>1, <2>2 DEF Row
  <2>4. q \in Slot /\ q.pc = "write" /\ q.row = row /\ q.call = c
        /\ q.at = req[i].at
    BY <1>a, <2>3 DEF Slot, Label
  <2>5. OnTrack(q) /\ Carries(q, published')
    BY <1>b, <2>1, <2>2, <2>4 DEF OnTrack, Carries
  <2>6. reply' \in Reply /\ reply'.row = NoRow /\ req' = [req EXCEPT ![i] = q]
    BY <1>a, <2>1 DEF GotoWith, NoReply, Reply, Code, Row, Slot
  <2>7. published' = published
    BY <2>1 DEF storeVars
  <2> HIDE DEF q
  <2> QED
    BY <2>1, <2>4, <2>5, <2>6, <2>7, SlotStep
<1>5. CASE PutWrite(i)
  <2> DEFINE r == req[i].row
  <2>1. req[i] # Idle /\ req[i].pc = "write" /\ conn' = Free /\ stale' = stale
        /\ InsertRevision(c.scope, r.revision, c.hash, c.why)
        /\ Respond(i, 201, r) /\ ~stale
    BY <1>5, <1>c DEF PutWrite
  <2>2. c.op = "put" /\ r.sha256 = c.hash
    BY <1>a, <2>1 DEF OnTrack
  <2>3. PutRevision(c.scope, c.hash, c.why)
    BY <2>1 DEF PutRevision, ApiInv, Decided
  <2>4. Next
    BY <1>b, <2>1, <2>2, <2>3 DEF Next, PublisherNext, Put
  <2>5. published' = published \cup
          {[scope |-> c.scope, revision |-> r.revision, sha256 |-> c.hash]}
    BY <2>1 DEF InsertRevision
  <2>6. r \in Row /\ Fits(c, r, published')
    BY <1>a, <2>2, <2>5 DEF Slot, Fits
  <2>7. conn = i
    BY <2>1 DEF ApiInv, ConnectionOwner
  <2>8. (conn' = IF conn = i THEN Free ELSE conn) /\ stale' \in BOOLEAN
    BY <1>a, <2>1, <2>7
  <2>9. published \subseteq published' /\ 201 \in Code
    BY <1>e, <2>5
  <2> HIDE DEF r
  <2> QED
    BY <2>1, <2>4, <2>6, <2>8, <2>9, RespondStep
<1>6. CASE PutFail(i)
  <2>1. req[i].pc = "write" /\ UNCHANGED storeVars /\ conn' = Free
        /\ stale' = FALSE /\ Respond(i, 500, NoRow)
    BY <1>6 DEF PutFail, Problem
  <2>2. conn = i
    BY <2>1 DEF ApiInv, ConnectionOwner
  <2>3. (conn' = IF conn = i THEN Free ELSE conn) /\ stale' \in BOOLEAN
    BY <2>1, <2>2
  <2>4. published \subseteq published' /\ 500 \in Code
    BY <1>e, <2>1 DEF storeVars
  <2> QED
    BY <1>e, <2>1, <2>3, <2>4, RespondStep
<1>7. CASE ReadCurrent(i)
  <2>1. req[i] # Idle /\ req[i].pc = "current" /\ conn = Free
        /\ UNCHANGED <<conn, stale>> /\ UNCHANGED storeVars
    BY <1>7, <1>c DEF ReadCurrent, Statement
  <2>2. PICK s \in req[i].at :
          \/ c.op = "list" /\ Goto(i, "enrich")
          \/ \E r \in CurrentRow(s) : GotoWith(i, "enrich", r)
          \/ c.op = "list" /\ Goto(i, "listing")
          \/ Problem(i, 404)
    BY <1>7 DEF ReadCurrent
  <2>3. s \in Scope /\ (c.op # "list" => s = c.scope)
    BY <1>a, <1>b, <2>1 DEF Slot
  <2>4. ASSUME NEW r \in CurrentRow(s), GotoWith(i, "enrich", r)
        PROVE  Goal
    <3>1. r.revision \in Nat /\ r.sha256 \in Hash
          /\ (c.op # "list" /\ c.op # "put" => Fits(c, r, published))
      BY <1>a, <2>3, RowRead DEF Fits
    <3>2. c.op # "put"
      BY <1>a, <1>b, <2>1 DEF OnTrack
    <3> QED
      BY <2>1, <2>4, <3>1, <3>2, GotoWithStep
  <2>5. CASE c.op = "list" /\ Goto(i, "listing")
    <3>1. OnTrack([req[i] EXCEPT !.pc = "listing"]) /\ "listing" \in Label
      BY <1>a, <1>b, <2>1, <2>5 DEF OnTrack, Slot, Label
    <3> QED
      BY <2>1, <2>5, <3>1, GotoStep
  <2>6. CASE c.op = "list" /\ Goto(i, "enrich")
    <3>1. OnTrack([req[i] EXCEPT !.pc = "enrich"]) /\ "enrich" \in Label
      BY <1>a, <1>b, <2>1, <2>6 DEF OnTrack, Slot, Label
    <3> QED
      BY <2>1, <2>6, <3>1, GotoStep
  <2>7. CASE Problem(i, 404)
    BY <1>a, <1>d, <1>e, <2>1, <2>7, RespondStep DEF Problem, storeVars
  <2> QED
    BY <2>2, <2>4, <2>5, <2>6, <2>7
<1>8. CASE Enrich(i)
  <2>1. req[i] # Idle /\ req[i].pc = "enrich" /\ conn = Free
        /\ UNCHANGED <<conn, stale>> /\ UNCHANGED storeVars
    BY <1>8, <1>c DEF Enrich, Statement
  <2>2. CASE c.op = "get" /\ Goto(i, "seen")
    <3>1. OnTrack([req[i] EXCEPT !.pc = "seen"]) /\ "seen" \in Label
      BY <1>a, <1>b, <2>1, <2>2 DEF OnTrack, Slot, Label
    <3> QED
      BY <2>1, <2>2, <3>1, GotoStep
  <2>3. CASE c.op = "list" /\ Goto(i, "listing")
    <3>1. OnTrack([req[i] EXCEPT !.pc = "listing"]) /\ "listing" \in Label
      BY <1>a, <1>b, <2>1, <2>3 DEF OnTrack, Slot, Label
    <3> QED
      BY <2>1, <2>3, <3>1, GotoStep
  <2>4. CASE c.op # "list" /\ Respond(i, 200, req[i].row)
    <3>1. req[i].row \in Row /\ Fits(c, req[i].row, published)
      BY <1>a, <2>1, <2>4 DEF Slot, Carries
    <3> QED
      BY <1>a, <1>d, <1>e, <2>1, <2>4, <3>1, RespondStep DEF storeVars
  <2> QED
    BY <1>8, <2>2, <2>3, <2>4 DEF Enrich
<1>9. CASE RecordSeen(i)
  <2> DEFINE r == req[i].row
             code == IF c.etag = r.sha256 THEN 304 ELSE 200
  <2>1. req[i] # Idle /\ req[i].pc = "seen" /\ conn = Free
        /\ UNCHANGED <<conn, stale>> /\ Respond(i, code, r)
        /\ RecordConsumerSeen(c.login.user, c.scope, r.revision)
    BY <1>9, <1>c DEF RecordSeen, Statement
  <2>2. c.op = "get"
    BY <1>a, <2>1 DEF OnTrack
  <2>3. r \in Row /\ Fits(c, r, published)
    BY <1>a, <2>1, <2>2 DEF Slot, Carries
  <2>4. r.revision \in Numbers(History(c.scope))
    BY <2>3 DEF Fits, Numbers, History
  <2>5. Next
    BY <1>b, <2>1, <2>2, <2>4 DEF Next, ConsumerNext
  <2>6. published' = published /\ code \in Code
    BY <1>e, <2>1 DEF RecordConsumerSeen
  <2> HIDE DEF r, code
  <2> QED
    BY <1>a, <1>d, <2>1, <2>3, <2>5, <2>6, RespondStep
<1>10. CASE RecordSeenFail(i)
  <2>1. conn = Free /\ UNCHANGED <<conn, stale>> /\ UNCHANGED storeVars
        /\ Respond(i, 500, NoRow)
    BY <1>10 DEF RecordSeenFail, Statement, Problem
  <2> QED
    BY <1>a, <1>d, <1>e, <2>1, RespondStep DEF storeVars
<1>11. CASE ListScopes(i)
  <2> DEFINE mine == {g \in user_scopes : g.username = c.login.user}
             q == [req[i] EXCEPT !.pc = "listing",
                                 !.todo = {g.scope : g \in mine}]
  <2>1. req[i] # Idle /\ req[i].pc = "scopes" /\ conn = Free
        /\ UNCHANGED <<conn, stale>> /\ UNCHANGED storeVars
        /\ req' = [req EXCEPT ![i] = q] /\ reply' = NoReply
    BY <1>11, <1>c DEF ListScopes, Statement
  <2>2. {g.scope : g \in mine} \subseteq Scope
    BY <1>a DEF TypeOK, Grants
  <2>3. q \in Slot /\ q.pc = "listing" /\ OnTrack(q) /\ Carries(q, published')
    BY <1>a, <1>b, <2>1, <2>2 DEF OnTrack, Slot, Label, Carries
  <2>4. reply' \in Reply /\ reply'.row = NoRow /\ published' = published
    BY <2>1 DEF NoReply, Reply, Code, Row, storeVars
  <2> HIDE DEF q
  <2> QED
    BY <1>a, <1>d, <2>1, <2>3, <2>4, SlotStep
<1>12. CASE ListNext(i)
  <2>1. req[i] # Idle /\ req[i].pc = "listing" /\ conn # i
        /\ UNCHANGED <<conn, stale>> /\ UNCHANGED storeVars
    BY <1>12, <1>c DEF ListNext, ApiInv, ConnectionOwner
  <2>2. ASSUME NEW s \in req[i].todo,
               req' = [req EXCEPT ![i].pc = "current", ![i].at = {s},
                                  ![i].todo = @ \ {s}],
               reply' = NoReply
        PROVE  Goal
    <3> DEFINE q == [req[i] EXCEPT !.pc = "current", !.at = {s},
                                   !.todo = @ \ {s}]
    <3>1. req' = [req EXCEPT ![i] = q]
      BY <1>a, <2>2 DEF Slot
    <3>2. c.op = "list"
      BY <1>a, <2>1 DEF OnTrack
    <3>3. q \in Slot /\ q.pc = "current" /\ OnTrack(q) /\ Carries(q, published')
      BY <1>a, <1>b, <2>1, <3>2 DEF OnTrack, Slot, Label, Carries
    <3>4. reply' \in Reply /\ reply'.row = NoRow /\ published' = published
      BY <2>1, <2>2 DEF NoReply, Reply, Code, Row, storeVars
    <3> HIDE DEF q
    <3> QED
      BY <1>a, <2>1, <3>1, <3>3, <3>4, SlotStep
  <2>3. CASE Respond(i, 200, NoRow)
    BY <1>a, <1>e, <2>1, <2>3, RespondStep DEF storeVars
  <2> QED
    BY <1>12, <2>2, <2>3 DEF ListNext
<1>13. CASE ReportCount(i)
  <2>1. req[i] # Idle /\ req[i].pc = "count" /\ conn = Free
        /\ UNCHANGED <<conn, stale>> /\ UNCHANGED storeVars
    BY <1>13, <1>c DEF ReportCount, Statement
  <2>2. CASE Goto(i, "insert")
    <3>1. OnTrack([req[i] EXCEPT !.pc = "insert"]) /\ "insert" \in Label
      BY <1>a, <1>b, <2>1, <2>2 DEF OnTrack, Slot, Label
    <3> QED
      BY <2>1, <2>2, <3>1, GotoStep
  <2>3. CASE Problem(i, 422)
    BY <1>a, <1>d, <1>e, <2>1, <2>3, RespondStep DEF Problem, storeVars
  <2> QED
    BY <1>13, <2>2, <2>3 DEF ReportCount
<1>14. CASE ReportInsert(i)
  <2>1. req[i] # Idle /\ req[i].pc = "insert" /\ conn = Free
        /\ UNCHANGED <<conn, stale>> /\ Respond(i, 200, NoRow)
        /\ PutHealthReport(c.login.user, c.scope, c.revision, c.kind)
    BY <1>14, <1>c DEF ReportInsert, Statement
  <2>2. c.op = "report"
    BY <1>a, <2>1 DEF OnTrack
  <2>3. Next
    BY <1>b, <2>1, <2>2 DEF Next, ConsumerNext
  <2>4. published' = published
    BY <2>1 DEF PutHealthReport
  <2> QED
    BY <1>a, <1>d, <1>e, <2>1, <2>3, <2>4, RespondStep
<1>15. CASE ReportRefused(i)
  <2>1. conn = Free /\ UNCHANGED <<conn, stale>> /\ UNCHANGED storeVars
        /\ Respond(i, 422, NoRow)
    BY <1>15 DEF ReportRefused, Statement, Problem
  <2> QED
    BY <1>a, <1>d, <1>e, <2>1, RespondStep DEF storeVars
<1> QED
  BY <1>1, <1>2, <1>3, <1>4, <1>5, <1>6, <1>7, <1>8, <1>9, <1>10, <1>11,
     <1>12, <1>13, <1>14, <1>15 DEF Handle

----------------------------------------------------------------------------
(* The invariant and what follows from it.                                 *)

\* The empty database with no request in flight.
LEMMA ApiInvInit == ApiInit => ApiInv
<1> SUFFICES ASSUME ApiInit PROVE ApiInv
  OBVIOUS
<1>1. TypeWindow /\ Ledger
  BY TypeWindowInit, LedgerInit DEF ApiInit
<1>2. HandlersTyped
  BY DEF ApiInit, HandlersTyped, Idle, Slot, Label, Row, NoReply, Code
<1>3. HandlersFit
  BY DEF ApiInit, HandlersFit, OnTrack, Carries, Idle
<1>4. ConnectionOwner
  BY FreeAssumption DEF ApiInit, ConnectionOwner, Idle
<1>5. AnswerWasPublished
  BY DEF ApiInit, AnswerWasPublished, NoReply
<1>6. Decided
  BY DEF ApiInit, Decided, Idle
<1> QED
  BY <1>1, <1>2, <1>3, <1>4, <1>5, <1>6 DEF ApiInv

\* The decision of a PUT stays good, or stale says that it may not be: with
\* the connection taken no other handler runs a statement.
LEMMA DecidedStep ==
  ASSUME ApiInv, [ApiNext]_apiVars, ConnectionOwner', req' \in [Request -> Slot]
  PROVE  Decided'
<1>a. req \in [Request -> Slot] /\ Decided
  BY DEF ApiInv, HandlersTyped
<1>1. CASE conn' = Free
  <2>1. \A j \in Request : req'[j].pc # "write"
    BY <1>1, FreeAssumption DEF ConnectionOwner
  <2> QED
    BY <2>1 DEF Decided
<1>2. ASSUME UNCHANGED storeVars, stale' = stale \/ conn' = Free,
             \A j \in Request : req'[j].pc = "write" => req'[j] = req[j]
      PROVE  Decided'
  <2>1. CASE stale' = stale
    BY <1>a, <1>2, <2>1
       DEF Decided, storeVars, Deduplicated, CurrentRow, RowsOf, NextRevision,
           Numbers
  <2> QED
    BY <1>1, <1>2, <2>1
<1>3. ASSUME NEW i \in Request, PutBegin(i)
      PROVE  Decided'
  <2> DEFINE c == req[i].call
  <2>1. conn' = i /\ UNCHANGED storeVars /\ ~Deduplicated(c.scope, c.hash, c.why)
        /\ GotoWith(i, "write", [revision |-> NextRevision(c.scope),
                                 sha256 |-> c.hash])
    BY <1>3 DEF PutBegin
  <2>2. req'[i].call = c /\ req'[i].row.revision = NextRevision(c.scope)
    BY <1>a, <2>1 DEF GotoWith, Slot
  <2>3. \A j \in Request : req'[j].pc = "write" => j = i
    BY <2>1 DEF ConnectionOwner
  <2>4. ~Deduplicated(c.scope, c.hash, c.why)'
        /\ NextRevision(c.scope)' = NextRevision(c.scope)
    BY <2>1, <2>2
       DEF storeVars, Deduplicated, CurrentRow, RowsOf, NextRevision, Numbers
  <2> QED
    BY <2>2, <2>3, <2>4 DEF Decided
<1>4. ASSUME NEW i \in Request, ListNext(i)
      PROVE  Decided'
  <2>1. UNCHANGED storeVars /\ stale' = stale
    BY <1>4 DEF ListNext
  <2>2. \A j \in Request : req'[j].pc = "write" => req'[j] = req[j]
    <3>1. req'[i].pc \in {"current", "idle"}
      <4>1. CASE Respond(i, 200, NoRow)
        BY <1>a, <4>1 DEF Respond, Idle
      <4>2. ASSUME NEW s \in req[i].todo,
                   req' = [req EXCEPT ![i].pc = "current", ![i].at = {s},
                                      ![i].todo = @ \ {s}]
            PROVE  req'[i].pc = "current"
        <5>1. req' = [req EXCEPT ![i] = [req[i] EXCEPT !.pc = "current",
                                           !.at = {s}, !.todo = @ \ {s}]]
          BY <1>a, <4>2 DEF Slot
        <5> QED
          BY <1>a, <5>1 DEF Slot
      <4> QED
        BY <1>4, <4>1, <4>2 DEF ListNext
    <3>2. \A j \in Request : j # i => req'[j] = req[j]
      BY <1>4, <1>a DEF ListNext, Respond
    <3> QED
      BY <3>1, <3>2
  <2> QED
    BY <1>2, <2>1, <2>2
<1>5. ASSUME NEW i \in Request, Handle(i)
      PROVE  Decided'
  BY <1>1, <1>3, <1>4, <1>5
     DEF Handle, Authorize, AuthorizePublisher, PutSame, PutWrite, PutFail,
         ReadCurrent, Enrich, RecordSeen, RecordSeenFail, ListScopes,
         ReportCount, ReportInsert, ReportRefused, Statement
<1>6. ASSUME NEW i \in Request, Abort(i)
      PROVE  Decided'
  <2>1. UNCHANGED storeVars
        /\ \A j \in Request : req'[j].pc = "write" => req'[j] = req[j]
    BY <1>6, <1>a DEF Abort, Idle
  <2>2. CASE conn = i
    BY <1>1, <1>6, <2>2 DEF Abort
  <2>3. CASE conn # i
    BY <1>2, <1>6, <2>1, <2>3 DEF Abort, ApiInv, HandlersTyped
  <2> QED
    BY <2>2, <2>3
<1>7. ASSUME NEW i \in Request, NEW c \in Calls, Arrive(i, c)
      PROVE  Decided'
  <2>1. UNCHANGED storeVars /\ stale' = stale
    BY <1>7 DEF Arrive
  <2>2. \A j \in Request : req'[j].pc = "write" => req'[j] = req[j]
    BY <1>7, <1>a DEF Arrive, Slot
  <2> QED
    BY <1>2, <2>1, <2>2
<1>8. ASSUME Restart
      PROVE  Decided'
  BY <1>1, <1>8 DEF Restart
<1>9. ASSUME Brokerctl
      PROVE  Decided'
  <2>1. CASE stale'
    BY <2>1 DEF Decided
  <2> QED
    BY <1>1, <1>9, <2>1 DEF Brokerctl
<1>10. ASSUME UNCHANGED apiVars
       PROVE  Decided'
  BY <1>2, <1>10 DEF apiVars
<1> QED
  BY <1>5, <1>6, <1>7, <1>8, <1>9, <1>10 DEF ApiNext

\* Every step of the broker or of brokerctl is a step of the store or leaves
\* it alone, and keeps ApiInv.
LEMMA ApiStep ==
  ASSUME ApiInv, [ApiNext]_apiVars
  PROVE  [Next]_storeVars /\ ApiInv'
<1> DEFINE Kept == HandlersTyped' /\ HandlersFit' /\ ConnectionOwner'
                   /\ AnswerWasPublished'
<1>a. req \in [Request -> Slot] /\ HandlersFit /\ stale \in BOOLEAN
  BY DEF ApiInv, HandlersTyped
<1>b. NoReply \in Reply /\ NoReply.row = NoRow
  BY DEF NoReply, Reply, Code, Row
<1>c. Idle \in Slot /\ OnTrack(Idle) /\ Idle.pc = "idle"
      /\ \A pub : Carries(Idle, pub)
  BY DEF Idle, Slot, Label, Row, OnTrack, Carries
<1>1. ASSUME NEW i \in Request, Handle(i)
      PROVE  [Next]_storeVars /\ Kept
  BY <1>1, HandlerStep
<1>2. ASSUME NEW i \in Request, Abort(i)
      PROVE  [Next]_storeVars /\ Kept
  <2>1. UNCHANGED storeVars /\ published' = published
    BY <1>2 DEF Abort, storeVars
  <2>2. req' = [req EXCEPT ![i] = Idle] /\ reply' = NoReply
        /\ (conn' = IF conn = i THEN Free ELSE conn) /\ stale' \in BOOLEAN
    BY <1>2, <1>a DEF Abort
  <2> QED
    BY <1>b, <1>c, <2>1, <2>2, SlotStep
<1>3. ASSUME NEW i \in Request, NEW c \in Calls, Arrive(i, c)
      PROVE  [Next]_storeVars /\ Kept
  <2> DEFINE at == IF c.op = "list" THEN {} ELSE {c.scope}
             q == [req[i] EXCEPT !.pc = "auth", !.call = c, !.at = at]
  <2>1. UNCHANGED storeVars /\ published' = published /\ UNCHANGED <<conn, stale>>
        /\ reply' = NoReply /\ req[i] = Idle
    BY <1>3 DEF Arrive, storeVars
  <2>2. req' = [req EXCEPT ![i] = q]
    BY <1>3, <1>a DEF Arrive, Slot
  <2>3. at \in SUBSET Scope
    BY CallFields
  <2>4. q \in Slot /\ q.pc = "auth" /\ q.call = c /\ q.at = at
    BY <1>a, <2>3 DEF Slot, Label
  <2>5. OnTrack(q) /\ Carries(q, published')
    BY <2>4 DEF OnTrack, Carries
  <2>6. conn # i
    BY <1>c, <2>1 DEF ApiInv, ConnectionOwner
  <2> HIDE DEF q
  <2> QED
    BY <1>a, <1>b, <2>1, <2>2, <2>4, <2>5, <2>6, SlotStep
<1>4. ASSUME Restart
      PROVE  [Next]_storeVars /\ Kept
  <2>1. UNCHANGED storeVars /\ req' = [i \in Request |-> Idle] /\ conn' = Free
        /\ stale' = FALSE /\ reply' = NoReply
    BY <1>4 DEF Restart
  <2>2. HandlersTyped'
    BY <1>b, <1>c, <2>1 DEF HandlersTyped, Reply
  <2>3. HandlersFit'
    BY <1>c, <2>1 DEF HandlersFit
  <2>4. ConnectionOwner'
    BY <1>c, <2>1, FreeAssumption DEF ConnectionOwner
  <2>5. AnswerWasPublished'
    BY <1>b, <2>1 DEF AnswerWasPublished
  <2> QED
    BY <2>1, <2>2, <2>3, <2>4, <2>5
<1>5. ASSUME Brokerctl
      PROVE  [Next]_storeVars /\ Kept
  <2>1. Next /\ UNCHANGED <<req, conn>> /\ reply' = NoReply /\ stale' \in BOOLEAN
    BY <1>5 DEF Brokerctl, Next
  <2>2. published \subseteq published'
    BY <2>1, HistoryGrows
  <2>3. HandlersTyped'
    BY <1>b, <2>1 DEF ApiInv, HandlersTyped, Reply
  <2>4. HandlersFit'
    BY <1>a, <2>1, <2>2 DEF HandlersFit, OnTrack, Carries, Fits
  <2>5. ConnectionOwner'
    BY <2>1 DEF ApiInv, ConnectionOwner
  <2>6. AnswerWasPublished'
    BY <1>b, <2>1 DEF AnswerWasPublished
  <2> QED
    BY <2>1, <2>3, <2>4, <2>5, <2>6
<1>6. ASSUME UNCHANGED apiVars
      PROVE  [Next]_storeVars /\ Kept
  <2>1. UNCHANGED storeVars /\ UNCHANGED <<req, reply, conn, stale>>
        /\ published' = published
    BY <1>6 DEF apiVars, storeVars
  <2>2. HandlersTyped'
    BY <2>1 DEF ApiInv, HandlersTyped
  <2>3. HandlersFit'
    BY <1>a, <2>1 DEF HandlersFit
  <2>4. ConnectionOwner'
    BY <2>1 DEF ApiInv, ConnectionOwner
  <2>5. AnswerWasPublished'
    BY <2>1 DEF ApiInv, AnswerWasPublished
  <2> QED
    BY <2>1, <2>2, <2>3, <2>4, <2>5
<1>7. [Next]_storeVars /\ Kept
  BY <1>1, <1>2, <1>3, <1>4, <1>5, <1>6 DEF ApiNext
<1>8. TypeWindow' /\ Ledger'
  BY <1>7, TypeWindowStep, LedgerStep DEF ApiInv
<1>9. Decided'
  BY <1>7, DecidedStep DEF HandlersTyped
<1> QED
  BY <1>7, <1>8, <1>9 DEF ApiInv

\* ApiInv holds in every reachable state.
LEMMA ApiInvariant == ApiSpec => []ApiInv
<1>1. ApiInv /\ [ApiNext]_apiVars => ApiInv'
  BY ApiStep
<1> QED
  BY <1>1, ApiInvInit, PTL DEF ApiSpec

\* Tables and handlers keep their shapes.
THEOREM ApiTypeCorrect == ApiSpec => []ApiTypeOK
<1>1. ApiInv => ApiTypeOK
  BY DEF ApiInv, TypeWindow, HandlersTyped, ApiTypeOK, Slot
<1> QED
  BY <1>1, ApiInvariant, PTL

\* However many handlers compete for the single connection, whoever aborts
\* or restarts: it is held exactly by the handler inside a write transaction.
THEOREM ConnectionNeverLeaks == ApiSpec => []ConnectionOwner
<1>1. ApiInv => ConnectionOwner
  BY DEF ApiInv
<1> QED
  BY <1>1, ApiInvariant, PTL

\* Every response pairs a revision with the content published under it.
THEOREM AnswersAreConsistent == ApiSpec => []AnswerWasPublished
<1>1. ApiInv => AnswerWasPublished
  BY DEF ApiInv
<1> QED
  BY <1>1, ApiInvariant, PTL

\* The handlers implement the atomic store: whatever BrokerStoreProofs proves
\* of Spec holds of the concurrent broker.
THEOREM Refinement == ApiSpec => ImplementsStore
<1>1. ApiInit => Init
  BY DEF ApiInit
<1>2. ApiInv /\ [ApiNext]_apiVars => [Next]_storeVars
  BY ApiStep
<1> QED
  BY <1>1, <1>2, ApiInvariant, PTL DEF ApiSpec, ImplementsStore, Spec
============================================================================
