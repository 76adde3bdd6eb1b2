------------------------- MODULE BrokerStoreProofs -------------------------
(***************************************************************************)
(* Proofs about BrokerStore, for every set of scopes, users, passwords and *)
(* cookie sets, every retention limit and every bound.                     *)
(***************************************************************************)
EXTENDS BrokerStore, FiniteSetTheorems, TLAPS

----------------------------------------------------------------------------
(* The pruning window.                                                     *)

\* The lower end of the window, and how it moves.
LEMMA OldestKeptFacts ==
  ASSUME NEW hi \in Nat
  PROVE  /\ OldestKept(hi) \in Nat
         /\ 1 <= OldestKept(hi)
         /\ OldestKept(hi) <= hi + 1
         /\ hi # 0 => OldestKept(hi) <= hi
         /\ OldestKept(hi) <= OldestKept(hi + 1)
         /\ \A n \in 1..(hi + 1) :
               OldestKept(hi + 1) <= n <=> hi + 1 - n < RevisionsKept
BY KeptAssumption DEF OldestKept

\* An interval grows by one at its upper end.
LEMMA IntervalAdd ==
  ASSUME NEW lo \in Nat, NEW hi \in Nat, lo <= hi + 1
  PROVE  (lo..hi) \cup {hi + 1} = lo..(hi + 1)
OBVIOUS

\* The numbers of a set of rows with one more row.
LEMMA NumbersAdd ==
  ASSUME NEW rows, NEW row
  PROVE  Numbers(rows \cup {row}) = Numbers(rows) \cup {row.revision}
BY DEF Numbers

\* How many numbers of a window are greater than one of them.
LEMMA GreaterThan ==
  ASSUME NEW lo \in Nat, NEW hi \in Nat, NEW n \in lo..hi
  PROVE  Cardinality({m \in lo..hi : m > n}) = hi - n
<1>1. {m \in lo..hi : m > n} = (n + 1)..hi
  OBVIOUS
<1>2. n + 1 \in Int /\ hi \in Int
  OBVIOUS
<1>3. Cardinality((n + 1)..hi) = IF n + 1 > hi THEN 0 ELSE hi - (n + 1) + 1
  BY <1>2, FS_Interval
<1>4. Cardinality({m \in lo..hi : m > n}) = Cardinality((n + 1)..hi)
  BY <1>1
<1> QED
  BY <1>3, <1>4

\* COALESCE(MAX(..),0) over the window of stored numbers is the number of
\* revisions published so far.
LEMMA MaxOfWindow ==
  ASSUME NEW hi \in Nat
  PROVE  Max({0} \cup OldestKept(hi)..hi) = hi
<1> DEFINE S == {0} \cup OldestKept(hi)..hi
<1>2. hi \in S /\ \A y \in S : y \in Int /\ hi >= y
  BY OldestKeptFacts
<1>3. \E x \in S : \A y \in S : x >= y
  BY <1>2
<1>4. Max(S) \in S /\ \A y \in S : Max(S) >= y
  BY <1>3 DEF Max
<1> QED
  BY <1>2, <1>4

\* The rows that ORDER BY revision DESC LIMIT keeps, when the numbers of the
\* rows are the old window with one more revision on top.
LEMMA NewestOfWindow ==
  ASSUME NEW hi \in Nat, NEW rows,
         Numbers(rows) = OldestKept(hi)..(hi + 1)
  PROVE  Newest(rows) =
           {r \in rows : r.revision \in OldestKept(hi + 1)..(hi + 1)}
<1> DEFINE N == Numbers(rows)
           lo == OldestKept(hi)
           lo1 == OldestKept(hi + 1)
<1>0. /\ lo \in Nat /\ 1 <= lo
      /\ \A n \in 1..(hi + 1) : lo1 <= n <=> hi + 1 - n < RevisionsKept
      /\ lo1 \in Nat
  BY OldestKeptFacts
<1> HIDE DEF lo, lo1
<1>1. ASSUME NEW r \in rows
      PROVE  Cardinality({n \in N : n > r.revision}) < RevisionsKept
               <=> r.revision \in lo1..(hi + 1)
  <2>1. r.revision \in N
    BY DEF Numbers
  <2>2. N = lo..(hi + 1)
    BY DEF lo
  <2>3. PICK k \in lo..(hi + 1) : k = r.revision
    BY <2>1, <2>2
  <2>4. Cardinality({n \in N : n > k}) = hi + 1 - k
    <3>1. PICK top \in Nat : top = hi + 1
      OBVIOUS
    <3>2. k \in lo..top
      BY <3>1
    <3>3. Cardinality({n \in lo..top : n > k}) = top - k
      BY <1>0, <3>2, GreaterThan
    <3>4. {n \in N : n > k} = {n \in lo..top : n > k}
      BY <2>2, <3>1
    <3>5. Cardinality({n \in N : n > k}) = top - k
      BY <3>3, <3>4, Zenon
    <3> QED
      BY <3>1, <3>5
  <2>5. k \in 1..(hi + 1)
    BY <1>0
  <2> HIDE DEF N
  <2> QED
    BY <2>3, <2>4, <2>5, <1>0
<1> QED
  BY <1>1 DEF Newest, lo1

\* What a publication does to a scope whose window is known.
LEMMA PutEffect ==
  ASSUME TypeOK, NEW s \in Scope, NEW h \in Hash, NEW why \in Reason,
         NEW hi \in Nat, Numbers(RowsOf(s)) = OldestKept(hi)..hi,
         PutRevision(s, h, why)
  PROVE  /\ NextRevision(s) = hi + 1
         /\ hi + 1 <= MaxRevision
         /\ revisions' =
              {r \in revisions \cup {[scope |-> s, revision |-> hi + 1,
                                      sha256 |-> h, reason |-> why]} :
                 r.scope = s => r.revision \in OldestKept(hi + 1)..(hi + 1)}
         /\ current' = [current EXCEPT ![s] = hi + 1]
         /\ published' = published \cup
              {[scope |-> s, revision |-> hi + 1, sha256 |-> h]}
         /\ reports' \subseteq reports
         /\ \A p \in reports : p.scope = s /\ p \notin reports'
               => p.revision \notin OldestKept(hi + 1)..(hi + 1)
         /\ \A p \in reports' : p.scope = s
               => p.revision \notin OldestKept(hi)..(hi + 1)
                    \/ p.revision \in OldestKept(hi + 1)..(hi + 1)
         /\ \A p \in reports : p.scope # s => p \in reports'
<1> DEFINE row == [scope |-> s, revision |-> hi + 1, sha256 |-> h,
                   reason |-> why]
           rows == RowsOf(s) \cup {row}
           pruned == rows \ Newest(rows)
<1>1. NextRevision(s) = hi + 1
  BY MaxOfWindow DEF NextRevision
<1>2. Numbers(rows) = OldestKept(hi)..(hi + 1)
  <2>1. Numbers(rows) = Numbers(RowsOf(s)) \cup {hi + 1}
    BY NumbersAdd
  <2>2. OldestKept(hi) \in Nat /\ OldestKept(hi) <= hi + 1
    BY OldestKeptFacts
  <2>3. (OldestKept(hi)..hi) \cup {hi + 1} = OldestKept(hi)..(hi + 1)
    BY <2>2, IntervalAdd
  <2> QED
    BY <2>1, <2>3
<1>3. Newest(rows) =
        {r \in rows : r.revision \in OldestKept(hi + 1)..(hi + 1)}
  BY <1>2, NewestOfWindow
<1>4. pruned =
        {r \in rows : r.revision \notin OldestKept(hi + 1)..(hi + 1)}
  BY <1>3
<1>5. Numbers(pruned) =
        (OldestKept(hi)..(hi + 1)) \ (OldestKept(hi + 1)..(hi + 1))
  <2> SUFFICES ASSUME NEW n
               PROVE  n \in Numbers(pruned) <=>
                        n \in Numbers(rows)
                          /\ n \notin OldestKept(hi + 1)..(hi + 1)
    BY <1>2
  <2> QED
    BY <1>4, Zenon DEF Numbers
<1>6. /\ revisions' = (revisions \cup {row}) \ pruned
      /\ current' = [current EXCEPT ![s] = hi + 1]
      /\ hi + 1 <= MaxRevision
      /\ reports' = {p \in reports :
                       ~(p.scope = s /\ p.revision \in Numbers(pruned))}
      /\ published' = published \cup
              {[scope |-> s, revision |-> hi + 1, sha256 |-> h]}
  BY <1>1 DEF PutRevision, InsertRevision, PointTo
<1>7. revisions' = {r \in revisions \cup {row} :
                 r.scope = s => r.revision \in OldestKept(hi + 1)..(hi + 1)}
  BY <1>4, <1>6 DEF RowsOf
<1> QED
  BY <1>1, <1>5, <1>6, <1>7

----------------------------------------------------------------------------
(* Types and the retention window.                                         *)

Window(s, hi) ==
    /\ Numbers(History(s)) = 1..hi
    /\ Numbers(RowsOf(s)) = OldestKept(hi)..hi

\* The window of the scope that is published to slides by one; the windows of
\* the other scopes stay.
LEMMA PutMovesWindow ==
  ASSUME TypeOK, NEW s \in Scope, NEW h \in Hash, NEW why \in Reason,
         NEW hi \in Nat, Window(s, hi), PutRevision(s, h, why)
  PROVE  /\ hi + 1 \in 0..MaxRevision
         /\ Window(s, hi + 1)'
         /\ \A t \in Scope : t # s =>
               RowsOf(t)' = RowsOf(t) /\ History(t)' = History(t)
<1> DEFINE row == [scope |-> s, revision |-> hi + 1, sha256 |-> h,
                   reason |-> why]
           pub == [scope |-> s, revision |-> hi + 1, sha256 |-> h]
           lo == OldestKept(hi)
           lo1 == OldestKept(hi + 1)
<1>1. /\ hi + 1 <= MaxRevision
      /\ revisions' = {r \in revisions \cup {row} :
                         r.scope = s => r.revision \in lo1..(hi + 1)}
      /\ published' = published \cup {pub}
  BY PutEffect DEF Window
<1>2. RowsOf(s)' = {r \in RowsOf(s) \cup {row} : r.revision \in lo1..(hi + 1)}
  BY <1>1 DEF RowsOf
<1>3. History(s)' = History(s) \cup {pub}
  BY <1>1 DEF History
<1>4. Numbers(RowsOf(s) \cup {row}) = lo..(hi + 1)
  <2>1. Numbers(RowsOf(s) \cup {row}) = Numbers(RowsOf(s)) \cup {hi + 1}
    BY NumbersAdd
  <2>2. Numbers(RowsOf(s)) = lo..hi
    BY DEF Window
  <2>3. lo \in Nat /\ lo <= hi + 1
    BY OldestKeptFacts
  <2>4. (lo..hi) \cup {hi + 1} = lo..(hi + 1)
    BY <2>3, IntervalAdd
  <2> QED
    BY <2>1, <2>2, <2>4
<1>5. Numbers(RowsOf(s)') = lo1..(hi + 1)
  <2> DEFINE A == RowsOf(s) \cup {row}
  <2>1. Numbers({r \in A : r.revision \in lo1..(hi + 1)})
          = Numbers(A) \cap lo1..(hi + 1)
    <3> HIDE DEF A, lo1
    <3> QED
      BY Zenon DEF Numbers
  <2>2. lo \in Nat /\ lo1 \in Nat /\ lo <= lo1
    BY OldestKeptFacts
  <2>3. (lo..(hi + 1)) \cap (lo1..(hi + 1)) = lo1..(hi + 1)
    <3> HIDE DEF lo, lo1
    <3> QED
      BY <2>2
  <2> QED
    BY <1>2, <1>4, <2>1, <2>3
<1>6. Numbers(History(s)') = 1..(hi + 1)
  <2>1. Numbers(History(s) \cup {pub}) = Numbers(History(s)) \cup {hi + 1}
    BY NumbersAdd
  <2>2. (1..hi) \cup {hi + 1} = 1..(hi + 1)
    OBVIOUS
  <2> QED
    BY <1>3, <2>1, <2>2 DEF Window
<1>7. ASSUME NEW t \in Scope, t # s
      PROVE  RowsOf(t)' = RowsOf(t) /\ History(t)' = History(t)
  BY <1>1, <1>7 DEF RowsOf, History
<1>8. hi + 1 \in 0..MaxRevision
  BY <1>1, BoundAssumption
<1> QED
  BY <1>5, <1>6, <1>7, <1>8 DEF Window, Numbers

\* Types and the window are inductive together: the number Put chooses is a
\* natural number only because the stored numbers form an interval.
TypeWindow == TypeOK /\ RetentionWindow

\* The empty tables.
LEMMA TypeWindowInit == Init => TypeWindow
<1> SUFFICES ASSUME Init PROVE TypeWindow
  OBVIOUS
<1>1. TypeOK
  BY DEF Init, TypeOK, Account
<1>2. ASSUME NEW s \in Scope
      PROVE  Window(s, 0)
  <2>1. RowsOf(s) = {} /\ History(s) = {}
    BY DEF Init, RowsOf, History
  <2>2. OldestKept(0) = 1
    BY KeptAssumption DEF OldestKept
  <2> QED
    BY <2>1, <2>2 DEF Window, Numbers
<1> QED
  BY <1>1, <1>2, BoundAssumption DEF TypeWindow, RetentionWindow, Window

\* RecordConsumerSeen is called with the number of a served revision.
LEMMA SeenIsNatural ==
  ASSUME TypeOK, NEW s \in Scope, NEW n \in Numbers(History(s))
  PROVE  n \in Nat
BY DEF TypeOK, Numbers, History, Publication

\* A publication stores well-formed rows.
LEMMA TypePut ==
  ASSUME TypeOK, NEW s \in Scope, NEW h \in Hash, NEW why \in Reason,
         NEW hi \in Nat, Window(s, hi), PutRevision(s, h, why)
  PROVE  TypeOK'
<1>1. /\ revisions' \subseteq revisions \cup
           {[scope |-> s, revision |-> hi + 1, sha256 |-> h, reason |-> why]}
      /\ current' = [current EXCEPT ![s] = hi + 1]
      /\ published' = published \cup
           {[scope |-> s, revision |-> hi + 1, sha256 |-> h]}
      /\ reports' \subseteq reports
  BY PutEffect DEF Window
<1>2. UNCHANGED <<users, user_scopes, nextGrant, consumer_state>>
  BY DEF PutRevision, InsertRevision
<1> QED
  BY <1>1, <1>2 DEF TypeOK, Revision, Publication

\* A step that touches no revision keeps the window.
LEMMA WindowUnchanged ==
  ASSUME RetentionWindow, UNCHANGED <<revisions, published>>
  PROVE  RetentionWindow'
BY DEF RetentionWindow, Numbers, History, RowsOf

\* Shapes and window survive every operation of the store.
LEMMA TypeWindowStep == TypeWindow /\ [Next]_storeVars => TypeWindow'
<1> SUFFICES ASSUME TypeOK, RetentionWindow, [Next]_storeVars
             PROVE  TypeOK' /\ RetentionWindow'
  BY DEF TypeWindow
<1>1. ASSUME NEW s \in Scope, NEW h \in Hash, NEW why \in Reason,
             PutRevision(s, h, why)
      PROVE  TypeOK' /\ RetentionWindow'
  <2>1. PICK hi \in 0..MaxRevision : Window(s, hi)
    BY DEF RetentionWindow, Window
  <2>2. hi \in Nat
    BY <2>1, BoundAssumption
  <2>3. /\ hi + 1 \in 0..MaxRevision
        /\ Window(s, hi + 1)'
        /\ \A t \in Scope : t # s =>
              RowsOf(t)' = RowsOf(t) /\ History(t)' = History(t)
    BY <1>1, <2>1, <2>2, PutMovesWindow
  <2>4. TypeOK'
    BY <1>1, <2>1, <2>2, TypePut
  <2>5. ASSUME NEW t \in Scope
        PROVE  \E k \in 0..MaxRevision : Window(t, k)'
    <3>1. CASE t = s
      BY <2>3, <3>1
    <3>2. CASE t # s
      <4>1. PICK k \in 0..MaxRevision : Window(t, k)
        BY DEF RetentionWindow, Window
      <4> QED
        BY <2>3, <3>2, <4>1 DEF Window, Numbers
    <3> QED
      BY <3>1, <3>2
  <2> QED
    BY <2>4, <2>5 DEF RetentionWindow, Window
<1>2. ASSUME NEW s \in Scope, NEW n \in 1..MaxRevision, Rollback(s, n)
      PROVE  TypeOK' /\ RetentionWindow'
  BY <1>2, WindowUnchanged, BoundAssumption DEF TypeOK, Rollback
<1>3. ASSUME NEW u \in User, NEW pw \in Password, NEW role \in Role,
             NEW s \in Scope, CreateUser(u, pw, role, s)
      PROVE  TypeOK' /\ RetentionWindow'
  BY <1>3, WindowUnchanged DEF TypeOK, CreateUser, Account, Grants, NewGrant
<1>4. ASSUME NEW u \in User, DeleteUser(u)
      PROVE  TypeOK' /\ RetentionWindow'
  BY <1>4, WindowUnchanged DEF TypeOK, DeleteUser, Account
<1>5. ASSUME NEW u \in User, NEW pw \in Password, ChangePassword(u, pw)
      PROVE  TypeOK' /\ RetentionWindow'
  <2>1. users[u].role \in Role
    BY <1>5 DEF TypeOK, ChangePassword, Account
  <2> QED
    BY <1>5, <2>1, WindowUnchanged DEF TypeOK, ChangePassword, Account
<1>6. ASSUME NEW u \in User, NEW s \in Scope, Grant(u, s)
      PROVE  TypeOK' /\ RetentionWindow'
  BY <1>6, WindowUnchanged DEF TypeOK, Grant, Grants, NewGrant
<1>7. ASSUME NEW u \in User, NEW s \in Scope, Revoke(u, s)
      PROVE  TypeOK' /\ RetentionWindow'
  BY <1>7, WindowUnchanged DEF TypeOK, Revoke
<1>8. ASSUME NEW u \in User, NEW s \in Scope, NEW n \in Numbers(History(s)),
             RecordConsumerSeen(u, s, n)
      PROVE  TypeOK' /\ RetentionWindow'
  BY <1>8, WindowUnchanged, SeenIsNatural DEF TypeOK, RecordConsumerSeen
<1>9. ASSUME NEW u \in User, NEW s \in Scope, NEW n \in 1..MaxRevision,
             NEW kind \in Kind, PutHealthReport(u, s, n, kind)
      PROVE  TypeOK' /\ RetentionWindow'
  BY <1>9, WindowUnchanged, KindAssumption, BoundAssumption
     DEF TypeOK, PutHealthReport, Report, GrantOf, Grants
<1>10. CASE UNCHANGED storeVars
  BY <1>10, WindowUnchanged DEF TypeOK, storeVars
<1> QED
  BY <1>1, <1>2, <1>3, <1>4, <1>5, <1>6, <1>7, <1>8, <1>9, <1>10
     DEF Next, PublisherNext, AdminNext, ConsumerNext, Put, PutUnchanged

(* Every reachable state has tables of the declared shape. *)
THEOREM TypeCorrect == Spec => []TypeOK
<1>1. TypeWindow => TypeOK
  BY DEF TypeWindow
<1> QED
  BY TypeWindowInit, TypeWindowStep, <1>1, PTL DEF Spec

(* Put numbers the revisions of a scope 1, 2, 3, ... and keeps exactly the
   newest RevisionsKept, for any limit and any history of rollbacks. *)
THEOREM WindowRetained == Spec => []RetentionWindow
<1>1. TypeWindow => RetentionWindow
  BY DEF TypeWindow
<1> QED
  BY TypeWindowInit, TypeWindowStep, <1>1, PTL DEF Spec

----------------------------------------------------------------------------
(* Stored revisions, the pointer and the contents they stand for.          *)

\* PRIMARY KEY(provider, profile, revision)
RowKeys ==
    \A r, q \in revisions :
        r.scope = q.scope /\ r.revision = q.revision => r = q

Ledger == RowKeys /\ CurrentRetained /\ RevisionNamesOneContent

\* The empty tables.
LEMMA LedgerInit == Init => Ledger
BY DEF Init, Ledger, RowKeys, CurrentRetained, RevisionNamesOneContent,
       History

\* A publication: its number is new, and the pointer follows it.
LEMMA LedgerPut ==
  ASSUME TypeOK, Ledger, NEW s \in Scope, NEW h \in Hash, NEW why \in Reason,
         NEW hi \in Nat, Window(s, hi), PutRevision(s, h, why)
  PROVE  Ledger'
<1> DEFINE row == [scope |-> s, revision |-> hi + 1, sha256 |-> h,
                   reason |-> why]
           pub == [scope |-> s, revision |-> hi + 1, sha256 |-> h]
           lo1 == OldestKept(hi + 1)
<1>1. /\ revisions' = {r \in revisions \cup {row} :
                         r.scope = s => r.revision \in lo1..(hi + 1)}
      /\ current' = [current EXCEPT ![s] = hi + 1]
      /\ published' = published \cup {pub}
  BY PutEffect DEF Window
<1>2. /\ \A r \in revisions : r.scope = s => r.revision # hi + 1
      /\ \A p \in published : p.scope = s => p.revision # hi + 1
  <2>1. \A r \in revisions : r.scope = s => r.revision \in OldestKept(hi)..hi
    BY DEF Window, Numbers, RowsOf
  <2>2. \A p \in published : p.scope = s => p.revision \in 1..hi
    BY DEF Window, Numbers, History
  <2>3. OldestKept(hi) \in Nat
    BY OldestKeptFacts
  <2> QED
    BY <2>1, <2>2, <2>3
<1>3. row \in revisions'
  <2>1. lo1 \in Nat /\ lo1 <= hi + 1
    <3>1. \A k \in Nat : OldestKept(k) \in Nat /\ (k # 0 => OldestKept(k) <= k)
      BY OldestKeptFacts
    <3> QED
      BY <3>1
  <2>2. row.revision \in lo1..(hi + 1)
    BY <2>1
  <2> QED
    BY <1>1, <2>2
<1> HIDE DEF lo1
<1>4. RowKeys'
  BY <1>1, <1>2 DEF Ledger, RowKeys
<1>5. RevisionNamesOneContent'
  BY <1>1, <1>2 DEF Ledger, RevisionNamesOneContent
<1>6. ASSUME NEW t \in Scope
      PROVE  IF History(t)' = {} THEN current'[t] = 0
             ELSE \E r \in revisions' : CurrentRow(t)' = {r}
  <2>1. CASE t = s
    <3>1. History(s)' # {}
      <4>1. pub \in published' /\ pub.scope = s
        BY <1>1
      <4>2. pub \in History(s)'
        BY <4>1, Zenon DEF History
      <4> QED
        BY <4>2
    <3>2. current'[s] = hi + 1
      BY <1>1 DEF TypeOK
    <3>3. CurrentRow(s)' = {row}
      BY <1>1, <1>2, <1>3, <3>2 DEF CurrentRow, RowsOf
    <3> QED
      BY <1>3, <2>1, <3>1, <3>3
  <2>2. CASE t # s
    <3>1. History(t)' = History(t) /\ RowsOf(t)' = RowsOf(t)
      BY <1>1, <2>2 DEF History, RowsOf
    <3>2. current'[t] = current[t]
      BY <1>1, <2>2 DEF TypeOK
    <3>3. CurrentRow(t)' = CurrentRow(t)
      BY <3>1, <3>2 DEF CurrentRow
    <3>4. CASE History(t) = {}
      BY <3>1, <3>2, <3>4 DEF Ledger, CurrentRetained
    <3>5. CASE History(t) # {}
      <4>1. PICK r \in revisions : CurrentRow(t) = {r}
        BY <3>5 DEF Ledger, CurrentRetained
      <4>2. r \in revisions'
        BY <4>1, <3>1 DEF CurrentRow, RowsOf
      <4> QED
        BY <3>1, <3>3, <3>5, <4>1, <4>2
    <3> QED
      BY <3>4, <3>5
  <2> QED
    BY <2>1, <2>2
<1> QED
  BY <1>4, <1>5, <1>6 DEF Ledger, CurrentRetained

\* A rollback: the revision it names is stored.
LEMMA LedgerRollback ==
  ASSUME TypeOK, Ledger, NEW s \in Scope, NEW n \in Nat, Rollback(s, n)
  PROVE  Ledger'
<1>1. RowKeys' /\ RevisionNamesOneContent'
  BY DEF Rollback, Ledger, RowKeys, RevisionNamesOneContent
<1>2. ASSUME NEW t \in Scope
      PROVE  IF History(t)' = {} THEN current'[t] = 0
             ELSE \E r \in revisions' : CurrentRow(t)' = {r}
  <2>1. History(t)' = History(t) /\ RowsOf(t)' = RowsOf(t)
        /\ revisions' = revisions
    BY DEF Rollback, History, RowsOf
  <2>2. CASE t = s
    <3>1. History(s) # {}
      BY DEF Rollback, Ledger, CurrentRetained
    <3>2. PICK r \in RowsOf(s) : r.revision = n
      BY DEF Rollback, HasRevision, Numbers
    <3>3. current'[s] = n
      BY DEF Rollback, TypeOK
    <3>4. CurrentRow(s)' = {r}
      BY <2>1, <3>2, <3>3 DEF CurrentRow, RowsOf, Ledger, RowKeys
    <3> QED
      BY <2>1, <2>2, <3>1, <3>2, <3>4 DEF RowsOf
  <2>3. CASE t # s
    <3>1. current'[t] = current[t]
      BY <2>3 DEF Rollback, TypeOK
    <3>2. CurrentRow(t)' = CurrentRow(t)
      BY <2>1, <3>1 DEF CurrentRow
    <3>3. IF History(t) = {} THEN current[t] = 0
          ELSE \E r \in revisions : CurrentRow(t) = {r}
      BY DEF Ledger, CurrentRetained
    <3> QED
      BY <2>1, <3>1, <3>2, <3>3
  <2> QED
    BY <2>2, <2>3
<1> QED
  BY <1>1, <1>2 DEF Ledger, CurrentRetained

\* Operations on users and reports do not touch the ledger.
LEMMA LedgerUnchanged ==
  ASSUME Ledger, UNCHANGED <<revisions, current, published>>
  PROVE  Ledger'
BY DEF Ledger, RowKeys, CurrentRetained, RevisionNamesOneContent, History,
       CurrentRow, RowsOf

\* The ledger survives every operation of the store.
LEMMA LedgerStep == TypeWindow /\ Ledger /\ [Next]_storeVars => Ledger'
<1> SUFFICES ASSUME TypeOK, RetentionWindow, Ledger, [Next]_storeVars
             PROVE  Ledger'
  BY DEF TypeWindow
<1>1. ASSUME NEW s \in Scope, NEW h \in Hash, NEW why \in Reason,
             PutRevision(s, h, why)
      PROVE  Ledger'
  <2>1. PICK hi \in 0..MaxRevision : Window(s, hi)
    BY DEF RetentionWindow, Window
  <2>2. hi \in Nat
    BY <2>1, BoundAssumption
  <2> QED
    BY <1>1, <2>1, <2>2, LedgerPut
<1>2. ASSUME NEW s \in Scope, NEW n \in 1..MaxRevision, Rollback(s, n)
      PROVE  Ledger'
  BY <1>2, LedgerRollback, BoundAssumption
<1>3. ASSUME UNCHANGED <<revisions, current, published>>
      PROVE  Ledger'
  BY <1>3, LedgerUnchanged
<1> QED
  BY <1>1, <1>2, <1>3
     DEF Next, PublisherNext, AdminNext, ConsumerNext, Put, PutUnchanged,
         CreateUser, DeleteUser, ChangePassword, Grant, Revoke,
         RecordConsumerSeen, PutHealthReport, storeVars

(* The pointer of a scope always names one stored row: neither pruning nor a
   rollback, in any order, takes away what consumers are served. *)
THEOREM PointerSafe == Spec => []CurrentRetained
<1>1. Ledger => CurrentRetained
  BY DEF Ledger
<1> QED
  BY TypeWindowInit, TypeWindowStep, LedgerInit, LedgerStep, <1>1, PTL
     DEF Spec

(* A revision number stands for one cookie set in the whole history. *)
THEOREM NumbersNeverReused == Spec => []RevisionNamesOneContent
<1>1. Ledger => RevisionNamesOneContent
  BY DEF Ledger
<1> QED
  BY TypeWindowInit, TypeWindowStep, LedgerInit, LedgerStep, <1>1, PTL
     DEF Spec

----------------------------------------------------------------------------
(* Users, grants and reports.                                              *)

\* Grant ids come from a counter that only grows.
GrantIds ==
    /\ \A g \in user_scopes : g.grant_id < nextGrant
    /\ \A p \in reports : p.grant_id < nextGrant

\* PRIMARY KEY(provider, profile, revision, username)
ReportKeys ==
    \A p, q \in reports :
        SameReport(p, q.username, q.scope, q.revision) => p = q

Access == NoOrphans /\ GrantIds /\ ReportKeys

\* The empty tables.
LEMMA AccessInit == Init => Access
BY DEF Init, Access, NoOrphans, GrantIds, ReportKeys

\* Pruning takes the reports of a revision with it.
LEMMA AccessPut ==
  ASSUME TypeOK, Access, NEW s \in Scope, NEW h \in Hash, NEW why \in Reason,
         NEW hi \in Nat, Window(s, hi), PutRevision(s, h, why)
  PROVE  Access'
<1> DEFINE lo == OldestKept(hi)
           lo1 == OldestKept(hi + 1)
<1>1. /\ reports' \subseteq reports
      /\ \A p \in reports' : p.scope = s
            => p.revision \notin lo..(hi + 1) \/ p.revision \in lo1..(hi + 1)
  BY PutEffect DEF Window
<1>2. UNCHANGED <<users, user_scopes, nextGrant, consumer_state>>
  BY DEF PutRevision, InsertRevision
<1>3. /\ Window(s, hi + 1)'
      /\ \A t \in Scope : t # s => RowsOf(t)' = RowsOf(t)
  BY PutMovesWindow
<1>4. ASSUME NEW p \in reports'
      PROVE  HasRevision(p.scope, p.revision)' /\ users'[p.username] # NoUser
  <2>1. p \in reports /\ p.scope \in Scope
    BY <1>1 DEF TypeOK, Report
  <2>2. HasRevision(p.scope, p.revision) /\ users[p.username] # NoUser
    BY <2>1 DEF Access, NoOrphans
  <2>3. CASE p.scope # s
    BY <1>2, <1>3, <2>1, <2>2, <2>3 DEF HasRevision, Numbers
  <2>4. CASE p.scope = s
    <3>1. p.revision \in lo..hi
      BY <2>2, <2>4 DEF HasRevision, Window
    <3>2. lo \in Nat
      BY OldestKeptFacts
    <3>3. p.revision \in lo..(hi + 1)
      BY <3>1, <3>2
    <3>4. p.revision \in lo1..(hi + 1)
      BY <1>1, <2>4, <3>3
    <3> QED
      BY <1>2, <1>3, <2>2, <2>4, <3>4 DEF HasRevision, Window
  <2> QED
    BY <2>3, <2>4
<1> QED
  BY <1>1, <1>2, <1>4 DEF Access, NoOrphans, GrantIds, ReportKeys

\* References and grant ids survive every operation of the store.
LEMMA AccessStep == TypeWindow /\ Access /\ [Next]_storeVars => Access'
<1> SUFFICES ASSUME TypeOK, RetentionWindow, Access, [Next]_storeVars
             PROVE  Access'
  BY DEF TypeWindow
<1> USE DEF Access, NoOrphans, GrantIds, ReportKeys, SameReport
<1>1. ASSUME NEW s \in Scope, NEW h \in Hash, NEW why \in Reason,
             PutRevision(s, h, why)
      PROVE  Access'
  <2>1. PICK hi \in 0..MaxRevision : Window(s, hi)
    BY DEF RetentionWindow, Window
  <2>2. hi \in Nat
    BY <2>1, BoundAssumption
  <2> QED
    BY <1>1, <2>1, <2>2, AccessPut
<1>2. ASSUME NEW s \in Scope, NEW n \in 1..MaxRevision, Rollback(s, n)
      PROVE  Access'
  BY <1>2 DEF Rollback, HasRevision, Numbers, RowsOf
<1>3. ASSUME NEW u \in User, NEW pw \in Password, NEW role \in Role,
             NEW s \in Scope, CreateUser(u, pw, role, s)
      PROVE  Access'
  BY <1>3 DEF CreateUser, HasRevision, Numbers, RowsOf, TypeOK, NewGrant,
              NoUser, Role, Report, Grants
<1>4. ASSUME NEW u \in User, DeleteUser(u)
      PROVE  Access'
  BY <1>4 DEF DeleteUser, HasRevision, Numbers, RowsOf, TypeOK, Report, Grants
<1>5. ASSUME NEW u \in User, NEW pw \in Password, ChangePassword(u, pw)
      PROVE  Access'
  BY <1>5 DEF ChangePassword, HasRevision, Numbers, RowsOf, TypeOK, NoUser,
              Account, Role, Report, Grants
<1>6. ASSUME NEW u \in User, NEW s \in Scope, Grant(u, s)
      PROVE  Access'
  BY <1>6 DEF Grant, HasRevision, Numbers, RowsOf, TypeOK, NewGrant, Grants,
              Report
<1>7. ASSUME NEW u \in User, NEW s \in Scope, Revoke(u, s)
      PROVE  Access'
  BY <1>7 DEF Revoke, HasRevision, Numbers, RowsOf
<1>8. ASSUME NEW u \in User, NEW s \in Scope, NEW n \in Numbers(History(s)),
             RecordConsumerSeen(u, s, n)
      PROVE  Access'
  BY <1>8 DEF RecordConsumerSeen, HasRevision, Numbers, RowsOf, TypeOK
<1>9. ASSUME NEW u \in User, NEW s \in Scope, NEW n \in 1..MaxRevision,
             NEW kind \in Kind, PutHealthReport(u, s, n, kind)
      PROVE  Access'
  BY <1>9 DEF PutHealthReport, HasRevision, Numbers, RowsOf, TypeOK, GrantOf,
              Grants, NoUser
<1>10. CASE UNCHANGED storeVars
  BY <1>10 DEF storeVars, HasRevision, Numbers, RowsOf
<1> QED
  BY <1>1, <1>2, <1>3, <1>4, <1>5, <1>6, <1>7, <1>8, <1>9, <1>10
     DEF Next, PublisherNext, AdminNext, ConsumerNext, Put, PutUnchanged

(* Foreign keys hold through cascades and pruning: no report without its
   revision and its user, no grant or consumer state without its user. *)
THEOREM ReferencesKept == Spec => []NoOrphans
<1>1. Access => NoOrphans
  BY DEF Access
<1> QED
  BY TypeWindowInit, TypeWindowStep, AccessInit, AccessStep, <1>1, PTL
     DEF Spec

----------------------------------------------------------------------------
(* The health of a scope.                                                  *)

\* The reports that turn a scope to refresh_required.
Complaints(s) ==
    {p \in ActiveReports(s, current[s]) : p.kind = "authentication_required"}

\* refresh_required, spelled out.
LEMMA AlarmIsComplaint ==
  ASSUME NEW s \in Scope
  PROVE  Alarm(s) <=> CurrentRow(s) # {} /\ Complaints(s) # {}
BY DEF Alarm, Health, AuthHealth, Complaints

\* The same in the next state.
LEMMA AlarmIsComplaintNext ==
  ASSUME NEW s \in Scope
  PROVE  Alarm(s)' <=> CurrentRow(s)' # {} /\ Complaints(s)' # {}
BY DEF Alarm, Health, AuthHealth, Complaints

\* A report counts from one state to the next when its row, the role of its
\* author and the author's grants stay.
LEMMA StaysActive ==
  ASSUME NEW s \in Scope, current'[s] = current[s],
         NEW p \in Complaints(s), p \in reports',
         users'[p.username].role = users[p.username].role,
         GrantOf(p.username, s)' = GrantOf(p.username, s)
  PROVE  p \in Complaints(s)'
BY DEF Complaints, ActiveReports

\* The current row of a scope survives a step that moves no pointer.
LEMMA PointerStays ==
  ASSUME NEW s \in Scope, UNCHANGED <<revisions, current>>
  PROVE  CurrentRow(s)' = CurrentRow(s)
BY DEF CurrentRow, RowsOf

\* No report is waiting for the number that a publication is given, and the
\* other scopes do not notice it.
LEMMA FreshPut ==
  ASSUME TypeOK, Access, NEW s \in Scope, NEW h \in Hash,
         NEW why \in Reason, NEW hi \in Nat, Window(s, hi),
         PutRevision(s, h, why)
  PROVE  /\ current'[s] = hi + 1
         /\ CurrentRow(s)' # {}
         /\ ActiveReports(s, hi + 1)' = {}
         /\ \A t \in Scope : t # s =>
              /\ History(t)' = History(t)
              /\ current'[t] = current[t]
              /\ CurrentRow(t)' = CurrentRow(t)
              /\ Complaints(t)' = Complaints(t)
<1>1. /\ Window(s, hi + 1)'
      /\ \A t \in Scope : t # s =>
              RowsOf(t)' = RowsOf(t) /\ History(t)' = History(t)
  BY PutMovesWindow
<1>2. /\ current' = [current EXCEPT ![s] = hi + 1]
      /\ reports' \subseteq reports
      /\ \A p \in reports : p.scope # s => p \in reports'
  BY PutEffect DEF Window
<1>3. UNCHANGED <<users, user_scopes>>
  BY DEF PutRevision, InsertRevision
<1>4. current'[s] = hi + 1 /\ \A t \in Scope : t # s => current'[t] = current[t]
  BY <1>2 DEF TypeOK
<1>5. CurrentRow(s)' # {}
  <2>1. hi + 1 \in Numbers(RowsOf(s)')
    <3>1. Numbers(RowsOf(s)') = OldestKept(hi + 1)..(hi + 1)
      BY <1>1 DEF Window, Numbers
    <3>2. \A k \in Nat : OldestKept(k) \in Nat /\ (k # 0 => OldestKept(k) <= k)
      BY OldestKeptFacts
    <3> QED
      BY <3>1, <3>2
  <2>2. PICK r \in RowsOf(s)' : r.revision = hi + 1
    BY <2>1 DEF Numbers
  <2> QED
    BY <1>4, <2>2 DEF CurrentRow
<1>6. \A p \in reports : p.scope = s => p.revision # hi + 1
  <2>1. \A p \in reports : p.scope = s => p.revision \in OldestKept(hi)..hi
    BY DEF Access, NoOrphans, HasRevision, Window
  <2>2. OldestKept(hi) \in Nat
    BY OldestKeptFacts
  <2> QED
    BY <2>1, <2>2
<1>7. ActiveReports(s, hi + 1)' = {}
  BY <1>2, <1>6 DEF ActiveReports
<1>8. ASSUME NEW t \in Scope, t # s
      PROVE  CurrentRow(t)' = CurrentRow(t) /\ Complaints(t)' = Complaints(t)
  <2>1. CurrentRow(t)' = CurrentRow(t)
    BY <1>1, <1>4, <1>8 DEF CurrentRow
  <2>2. \A u : GrantOf(u, t)' = GrantOf(u, t)
    BY <1>3 DEF GrantOf
  <2>3. Complaints(t)' = Complaints(t)
    BY <1>2, <1>3, <1>4, <1>8, <2>2 DEF Complaints, ActiveReports
  <2> QED
    BY <2>1, <2>3
<1> QED
  BY <1>1, <1>4, <1>5, <1>7, <1>8

(* A publication turns its scope healthy, whatever was reported before. *)
THEOREM PublicationHeals == Spec => FreshRevisionIsHealthy
<1>1. ASSUME TypeWindow, Ledger, Access, [Next]_storeVars, NEW s \in Scope,
             History(s)' # History(s)
      PROVE  Health(s)' = "healthy"
  <2>1. PICK t \in Scope, h \in Hash, why \in Reason : PutRevision(t, h, why)
    BY <1>1 DEF Next, PublisherNext, AdminNext, ConsumerNext, Put,
         PutUnchanged, Rollback, CreateUser, DeleteUser, ChangePassword,
         Grant, Revoke, RecordConsumerSeen, PutHealthReport, storeVars,
         History
  <2>2. PICK hi \in 0..MaxRevision : Window(t, hi)
    BY <1>1 DEF TypeWindow, RetentionWindow, Window
  <2>3. hi \in Nat
    BY <2>2, BoundAssumption
  <2>4. TypeOK
    BY <1>1 DEF TypeWindow
  <2>5. /\ current'[t] = hi + 1
        /\ CurrentRow(t)' # {}
        /\ ActiveReports(t, hi + 1)' = {}
        /\ \A x \in Scope : x # t => History(x)' = History(x)
    BY <1>1, <2>1, <2>2, <2>3, <2>4, FreshPut
  <2>6. s = t
    BY <1>1, <2>5
  <2> QED
    BY <2>5, <2>6 DEF Health, AuthHealth, ActiveReports
<1>2. TypeWindow /\ Ledger /\ Access /\ [Next]_storeVars =>
        [\A s \in Scope : History(s)' # History(s) => Health(s)' = "healthy"]_storeVars
  BY <1>1
<1> QED
  BY TypeWindowInit, TypeWindowStep, LedgerInit, LedgerStep, AccessInit,
     AccessStep, <1>2, PTL DEF Spec, FreshRevisionIsHealthy

\* What AlarmHasCause asks of a step for one scope.
Caused(s) ==
    ~Alarm(s) /\ Alarm(s)' =>
      \/ current[s]' # current[s] /\ published' = published
      \/ \E p \in reports' \ reports :
            /\ p.scope = s /\ p.revision = current[s]
            /\ p.kind = "authentication_required"

\* An alarm cannot come up when no report starts to count.
LEMMA NoNewComplaint ==
  ASSUME NEW s \in Scope, CurrentRow(s)' = CurrentRow(s),
         Complaints(s)' \subseteq Complaints(s)
  PROVE  Caused(s)
BY AlarmIsComplaint, AlarmIsComplaintNext DEF Caused

\* The alarm of a scope comes up for one of two reasons.
LEMMA CausedStep ==
  ASSUME TypeWindow, Access, [Next]_storeVars, NEW s \in Scope
  PROVE  Caused(s)
<1> USE DEF Complaints, ActiveReports
<1>0. TypeOK
  BY DEF TypeWindow
<1>1. ASSUME NEW t \in Scope, NEW h \in Hash, NEW why \in Reason,
             PutRevision(t, h, why)
      PROVE  Caused(s)
  <2>1. PICK hi \in 0..MaxRevision : Window(t, hi)
    BY DEF TypeWindow, RetentionWindow, Window
  <2>2. hi \in Nat
    BY <2>1, BoundAssumption
  <2>3. /\ current'[t] = hi + 1
        /\ ActiveReports(t, hi + 1)' = {}
        /\ \A x \in Scope : x # t =>
             CurrentRow(x)' = CurrentRow(x) /\ Complaints(x)' = Complaints(x)
    BY <1>0, <1>1, <2>1, <2>2, FreshPut
  <2>4. CASE s # t
    BY <2>3, <2>4, NoNewComplaint
  <2>5. CASE s = t
    BY <2>3, <2>5, AlarmIsComplaintNext DEF Caused
  <2> QED
    BY <2>4, <2>5
<1>2. ASSUME NEW t \in Scope, NEW n \in 1..MaxRevision, Rollback(t, n)
      PROVE  Caused(s)
  <2>1. CASE current'[s] # current[s]
    BY <1>2, <2>1 DEF Caused, Rollback
  <2>2. CASE current'[s] = current[s]
    <3>1. CurrentRow(s)' = CurrentRow(s)
      BY <1>2, <2>2 DEF CurrentRow, RowsOf, Rollback
    <3>2. \A u : GrantOf(u, s)' = GrantOf(u, s)
      BY <1>2 DEF GrantOf, Rollback
    <3>3. Complaints(s)' \subseteq Complaints(s)
      BY <1>2, <2>2, <3>2 DEF Rollback
    <3> QED
      BY <3>1, <3>3, NoNewComplaint
  <2> QED
    BY <2>1, <2>2
<1>3. ASSUME NEW u \in User, NEW pw \in Password, NEW role \in Role,
             NEW t \in Scope, CreateUser(u, pw, role, t)
      PROVE  Caused(s)
  <2>1. CurrentRow(s)' = CurrentRow(s)
    BY <1>3, PointerStays DEF CreateUser
  <2>2. \A p \in reports : p.username # u /\ p.grant_id # nextGrant
    BY <1>0, <1>3 DEF CreateUser, Access, NoOrphans, GrantIds, TypeOK, Report
  <2>3. Complaints(s)' \subseteq Complaints(s)
    BY <1>0, <1>3, <2>2 DEF CreateUser, GrantOf, NewGrant, TypeOK, Report
  <2> QED
    BY <2>1, <2>3, NoNewComplaint
<1>4. ASSUME NEW u \in User, DeleteUser(u)
      PROVE  Caused(s)
  <2>1. CurrentRow(s)' = CurrentRow(s)
    BY <1>4, PointerStays DEF DeleteUser
  <2>2. Complaints(s)' \subseteq Complaints(s)
    BY <1>0, <1>4 DEF DeleteUser, GrantOf, TypeOK, Report
  <2> QED
    BY <2>1, <2>2, NoNewComplaint
<1>5. ASSUME NEW u \in User, NEW pw \in Password, ChangePassword(u, pw)
      PROVE  Caused(s)
  <2>1. CurrentRow(s)' = CurrentRow(s)
    BY <1>5, PointerStays DEF ChangePassword
  <2>2. Complaints(s)' \subseteq Complaints(s)
    BY <1>0, <1>5 DEF ChangePassword, GrantOf, TypeOK, Report
  <2> QED
    BY <2>1, <2>2, NoNewComplaint
<1>6. ASSUME NEW u \in User, NEW t \in Scope, Grant(u, t)
      PROVE  Caused(s)
  <2>1. CurrentRow(s)' = CurrentRow(s)
    BY <1>6, PointerStays DEF Grant
  <2>2. \A p \in reports : p.grant_id # nextGrant
    BY <1>0 DEF Access, GrantIds, TypeOK, Report
  <2>3. Complaints(s)' \subseteq Complaints(s)
    BY <1>0, <1>6, <2>2 DEF Grant, GrantOf, NewGrant, TypeOK, Report
  <2> QED
    BY <2>1, <2>3, NoNewComplaint
<1>7. ASSUME NEW u \in User, NEW t \in Scope, Revoke(u, t)
      PROVE  Caused(s)
  <2>1. CurrentRow(s)' = CurrentRow(s)
    BY <1>7, PointerStays DEF Revoke
  <2>2. Complaints(s)' \subseteq Complaints(s)
    BY <1>0, <1>7 DEF Revoke, GrantOf
  <2> QED
    BY <2>1, <2>2, NoNewComplaint
<1>8. ASSUME NEW u \in User, NEW t \in Scope, NEW n \in Numbers(History(t)),
             RecordConsumerSeen(u, t, n)
      PROVE  Caused(s)
  <2>1. CurrentRow(s)' = CurrentRow(s)
    BY <1>8, PointerStays DEF RecordConsumerSeen
  <2>2. Complaints(s)' \subseteq Complaints(s)
    BY <1>8 DEF RecordConsumerSeen, GrantOf
  <2> QED
    BY <2>1, <2>2, NoNewComplaint
<1>9. ASSUME NEW u \in User, NEW t \in Scope, NEW n \in 1..MaxRevision,
             NEW kind \in Kind, PutHealthReport(u, t, n, kind)
      PROVE  Caused(s)
  <2>1. CurrentRow(s)' = CurrentRow(s)
    BY <1>9, PointerStays DEF PutHealthReport
  <2>2. CASE Complaints(s)' \subseteq Complaints(s)
    BY <2>1, <2>2, NoNewComplaint
  <2>3. CASE ~(Complaints(s)' \subseteq Complaints(s))
    <3>1. PICK p \in Complaints(s)' : p \notin Complaints(s)
      BY <2>3
    <3>2. p \notin reports
      BY <1>9, <3>1 DEF PutHealthReport, GrantOf
    <3> QED
      BY <1>9, <3>1, <3>2 DEF Caused, PutHealthReport
  <2> QED
    BY <2>2, <2>3
<1>10. CASE UNCHANGED storeVars
  <2>1. CurrentRow(s)' = CurrentRow(s)
    BY <1>10, PointerStays DEF storeVars
  <2>2. Complaints(s)' \subseteq Complaints(s)
    BY <1>10 DEF storeVars, GrantOf
  <2> QED
    BY <2>1, <2>2, NoNewComplaint
<1> QED
  BY <1>1, <1>2, <1>3, <1>4, <1>5, <1>6, <1>7, <1>8, <1>9, <1>10
     DEF Next, PublisherNext, AdminNext, ConsumerNext, Put, PutUnchanged

(* A scope turns to refresh_required only by a report on its current revision
   or by a rollback: no sequence of grants, revocations, deletions and new
   accounts brings an old report back to life. *)
THEOREM AlarmsAreCaused == Spec => AlarmHasCause
<1>1. TypeWindow /\ Access /\ [Next]_storeVars =>
        [\A s \in Scope : Caused(s)]_storeVars
  BY CausedStep
<1> QED
  BY TypeWindowInit, TypeWindowStep, AccessInit, AccessStep, <1>1, PTL
     DEF Spec, AlarmHasCause, Caused

\* What AlarmClearedByItsReader asks of a step for one report.
Withdrawn(s, p) ==
    \/ GrantOf(p.username, s)' # GrantOf(p.username, s)
    \/ \E q \in reports' \ reports :
          /\ q.scope = s /\ q.revision = p.revision
          /\ q.username = p.username

\* While the pointer of a scope stays, a complaint is withdrawn by its own
\* reader or goes on counting.
LEMMA ComplaintStep ==
  ASSUME TypeWindow, Access, [Next]_storeVars, NEW s \in Scope,
         current'[s] = current[s], NEW p \in Complaints(s), ~Withdrawn(s, p)
  PROVE  p \in Complaints(s)' /\ CurrentRow(s)' = CurrentRow(s)
<1>0. TypeOK
  BY DEF TypeWindow
<1>a. /\ p \in reports /\ p.scope = s /\ p.revision = current[s]
      /\ p.username \in User
      /\ users[p.username].role = "reader"
      /\ GrantOf(p.username, s) # {}
  BY <1>0 DEF Complaints, ActiveReports, TypeOK, Report
<1>b. GrantOf(p.username, s)' = GrantOf(p.username, s)
  BY DEF Withdrawn
<1>c. SUFFICES /\ p \in reports'
               /\ users'[p.username].role = users[p.username].role
               /\ CurrentRow(s)' = CurrentRow(s)
  BY <1>b, StaysActive
<1>1. ASSUME NEW t \in Scope, NEW h \in Hash, NEW why \in Reason,
             PutRevision(t, h, why)
      PROVE  /\ p \in reports'
             /\ users'[p.username].role = users[p.username].role
             /\ CurrentRow(s)' = CurrentRow(s)
  <2>1. PICK hi \in 0..MaxRevision : Window(t, hi)
    BY DEF TypeWindow, RetentionWindow, Window
  <2>2. hi \in Nat
    BY <2>1, BoundAssumption
  <2>3. /\ current'[t] = hi + 1
        /\ \A x \in Scope : x # t => CurrentRow(x)' = CurrentRow(x)
    BY <1>0, <1>1, <2>1, <2>2, FreshPut
  <2>4. s # t
    <3>1. SUFFICES ASSUME s = t PROVE FALSE
      OBVIOUS
    <3>2. p.revision \in OldestKept(hi)..hi
      BY <1>a, <2>1, <3>1 DEF Access, NoOrphans, HasRevision, Window
    <3>3. OldestKept(hi) \in Nat
      BY <2>2, OldestKeptFacts
    <3> QED
      BY <1>a, <2>2, <2>3, <3>1, <3>2, <3>3
  <2>5. \A q \in reports : q.scope # t => q \in reports'
    BY <1>0, <1>1, <2>1, <2>2, PutEffect DEF Window
  <2>6. users' = users
    BY <1>1 DEF PutRevision, InsertRevision
  <2> QED
    BY <1>a, <2>3, <2>4, <2>5, <2>6
<1>2. ASSUME NEW t \in Scope, NEW n \in 1..MaxRevision, Rollback(t, n)
      PROVE  /\ p \in reports'
             /\ users'[p.username].role = users[p.username].role
             /\ CurrentRow(s)' = CurrentRow(s)
  BY <1>2, <1>a DEF Rollback, CurrentRow, RowsOf
<1>3. ASSUME NEW u \in User, NEW pw \in Password, NEW role \in Role,
             NEW t \in Scope, CreateUser(u, pw, role, t)
      PROVE  /\ p \in reports'
             /\ users'[p.username].role = users[p.username].role
             /\ CurrentRow(s)' = CurrentRow(s)
  <2>1. p.username # u
    BY <1>3, <1>a DEF CreateUser, NoUser
  <2> QED
    BY <1>0, <1>3, <1>a, <2>1 DEF CreateUser, CurrentRow, RowsOf, TypeOK
<1>4. ASSUME NEW u \in User, DeleteUser(u)
      PROVE  /\ p \in reports'
             /\ users'[p.username].role = users[p.username].role
             /\ CurrentRow(s)' = CurrentRow(s)
  <2>1. p.username # u
    BY <1>4, <1>a, <1>b DEF DeleteUser, GrantOf
  <2> QED
    BY <1>0, <1>4, <1>a, <2>1 DEF DeleteUser, CurrentRow, RowsOf, TypeOK
<1>5. ASSUME NEW u \in User, NEW pw \in Password, ChangePassword(u, pw)
      PROVE  /\ p \in reports'
             /\ users'[p.username].role = users[p.username].role
             /\ CurrentRow(s)' = CurrentRow(s)
  BY <1>0, <1>5, <1>a DEF ChangePassword, CurrentRow, RowsOf, TypeOK
<1>9. ASSUME NEW u \in User, NEW t \in Scope, NEW n \in 1..MaxRevision,
             NEW kind \in Kind, PutHealthReport(u, t, n, kind)
      PROVE  /\ p \in reports'
             /\ users'[p.username].role = users[p.username].role
             /\ CurrentRow(s)' = CurrentRow(s)
  <2>1. CurrentRow(s)' = CurrentRow(s) /\ users' = users
    BY <1>9, PointerStays DEF PutHealthReport
  <2>2. PICK g \in GrantOf(u, t) :
          reports' = {q \in reports : ~SameReport(q, u, t, n)}
                     \cup {[scope |-> t, revision |-> n, username |-> u,
                            kind |-> kind, grant_id |-> g.grant_id]}
    BY <1>9 DEF PutHealthReport
  <2> DEFINE q == [scope |-> t, revision |-> n, username |-> u,
                   kind |-> kind, grant_id |-> g.grant_id]
  <2>3. CASE ~SameReport(p, u, t, n)
    BY <1>a, <2>1, <2>2, <2>3
  <2>4. CASE SameReport(p, u, t, n)
    <3>1. q \in reports' /\ q.scope = s /\ q.revision = p.revision
          /\ q.username = p.username
      BY <1>a, <2>2, <2>4 DEF SameReport
    <3>2. q \in reports
      BY <3>1 DEF Withdrawn
    <3>3. q = p
      BY <3>1, <3>2, <1>a DEF Access, ReportKeys, SameReport
    <3> QED
      BY <2>1, <3>1, <3>3
  <2> QED
    BY <2>3, <2>4
<1>10. CASE UNCHANGED <<revisions, current, users, reports>>
  BY <1>10, <1>a, PointerStays
<1> QED
  BY <1>1, <1>2, <1>3, <1>4, <1>5, <1>9, <1>10
     DEF Next, PublisherNext, AdminNext, ConsumerNext, Put, PutUnchanged,
         Grant, Revoke, RecordConsumerSeen, storeVars

(* While the pointer stays, a scope turns healthy again only when every reader
   that complained filed a newer report itself or lost its grant. *)
THEOREM AlarmsAreWithdrawn == Spec => AlarmClearedByItsReader
<1>1. ASSUME TypeWindow, Access, [Next]_storeVars, NEW s \in Scope,
             Alarm(s), ~Alarm(s)', current'[s] = current[s],
             NEW p \in ActiveReports(s, current[s]),
             p.kind = "authentication_required"
      PROVE  Withdrawn(s, p)
  <2>1. SUFFICES ASSUME ~Withdrawn(s, p) PROVE FALSE
    OBVIOUS
  <2>2. p \in Complaints(s)
    BY <1>1 DEF Complaints
  <2>3. p \in Complaints(s)' /\ CurrentRow(s)' = CurrentRow(s)
    BY <1>1, <2>1, <2>2, ComplaintStep
  <2>4. CurrentRow(s) # {}
    BY <1>1, AlarmIsComplaint
  <2> QED
    BY <1>1, <2>3, <2>4, AlarmIsComplaintNext
<1>2. TypeWindow /\ Access /\ [Next]_storeVars =>
        [\A s \in Scope : Alarm(s) /\ ~Alarm(s)' /\ current[s]' = current[s] =>
           \A p \in ActiveReports(s, current[s]) :
              p.kind = "authentication_required" => Withdrawn(s, p)]_storeVars
  BY <1>1
<1> QED
  BY TypeWindowInit, TypeWindowStep, AccessInit, AccessStep, <1>2, PTL
     DEF Spec, AlarmClearedByItsReader, Withdrawn

----------------------------------------------------------------------------
(* For the modules that build on the store.                                *)

\* A row that Current reads was published, under its own number.
LEMMA RowRead ==
  ASSUME TypeOK, Ledger, NEW s \in Scope, NEW r \in CurrentRow(s)
  PROVE  /\ r.revision \in Nat /\ r.sha256 \in Hash
         /\ [scope |-> s, revision |-> r.revision, sha256 |-> r.sha256]
               \in published
<1>1. r \in revisions /\ r.scope = s
  BY DEF CurrentRow, RowsOf
<1>2. r \in Revision
  BY <1>1 DEF TypeOK
<1>3. [scope |-> r.scope, revision |-> r.revision, sha256 |-> r.sha256] \in published
  BY <1>1 DEF Ledger, RevisionNamesOneContent
<1> QED  BY <1>1, <1>2, <1>3 DEF Revision

\* No step forgets a publication.
LEMMA HistoryGrows == [Next]_storeVars => published \subseteq published'
<1> SUFFICES ASSUME [Next]_storeVars  PROVE published \subseteq published'
  OBVIOUS
<1>1. CASE PublisherNext
  <2>1. PICK s \in Scope, h \in Hash, why \in Reason :
          PutUnchanged(s, h, why) \/ PutRevision(s, h, why)
    BY <1>1 DEF PublisherNext, Put
  <2>2. CASE PutUnchanged(s, h, why)
    BY <2>2 DEF PutUnchanged, storeVars
  <2>3. CASE PutRevision(s, h, why)
    BY <2>3, Zenon DEF PutRevision, InsertRevision
  <2> QED  BY <2>1, <2>2, <2>3
<1>2. CASE AdminNext
  BY <1>2 DEF AdminNext, Rollback, CreateUser, DeleteUser, ChangePassword, Grant,
              Revoke
<1>3. CASE ConsumerNext
  BY <1>3 DEF ConsumerNext, RecordConsumerSeen, PutHealthReport
<1>4. CASE UNCHANGED storeVars
  BY <1>4 DEF storeVars
<1> QED  BY <1>1, <1>2, <1>3, <1>4 DEF Next

----------------------------------------------------------------------------
(* What the status endpoints show.                                         *)

\* The largest revision of a history that starts at 1.
LEMMA MaxOfHistory ==
  ASSUME NEW hi \in Nat
  PROVE  Max({0} \cup 1..hi) = hi
<1> DEFINE S == {0} \cup 1..hi
<1>1. hi \in S /\ \A y \in S : y \in Int /\ hi >= y
  OBVIOUS
<1>2. Max(S) \in S /\ \A y \in S : Max(S) >= y
  BY <1>1 DEF Max
<1> QED
  BY <1>1, <1>2

\* The health of a scope by its current row and its alarm.
LEMMA HealthIs ==
  ASSUME NEW s \in Scope
  PROVE  Health(s) = IF CurrentRow(s) = {} THEN "missing"
                     ELSE IF Alarm(s) THEN "refresh_required" ELSE "healthy"
BY DEF Health, AuthHealth, Alarm

\* The same in the next state.
LEMMA HealthIsNext ==
  ASSUME NEW s \in Scope
  PROVE  Health(s)' = IF CurrentRow(s)' = {} THEN "missing"
                      ELSE IF Alarm(s)' THEN "refresh_required" ELSE "healthy"
BY DEF Health, AuthHealth, Alarm

\* Nothing was published, nothing is shown.
LEMMA StatusStart == Init => Status!StatusInit
<1> SUFFICES ASSUME Init PROVE Status!StatusInit
  OBVIOUS
<1>1. ASSUME NEW s \in Scope
      PROVE  Numbers(History(s)) = 1..0 /\ CurrentRow(s) = {}
  BY DEF Init, Numbers, History, CurrentRow, RowsOf
<1>2. \A s \in Scope : /\ Max({0} \cup Numbers(History(s))) = 0
                       /\ Health(s) = "missing"
  BY <1>1, MaxOfHistory, HealthIs
<1> QED
  BY <1>2 DEF Status!StatusInit, Init

\* A publication is seen as one.
LEMMA PutIsPublish ==
  ASSUME TypeWindow, Access, NEW s \in Scope, NEW h \in Hash,
         NEW why \in Reason, PutRevision(s, h, why)
  PROVE  Status!Publish(s)
<1>0. TypeOK
  BY DEF TypeWindow
<1>1. PICK hi \in 0..MaxRevision : Window(s, hi)
  BY DEF TypeWindow, RetentionWindow, Window
<1>2. hi \in Nat /\ hi + 1 \in Nat
  BY BoundAssumption
<1>3. /\ hi + 1 <= MaxRevision
      /\ Numbers(History(s))' = 1..(hi + 1)
      /\ \A t \in Scope : t # s => History(t)' = History(t)
  BY <1>0, <1>1, <1>2, PutMovesWindow, BoundAssumption DEF Window
<1>4. /\ current'[s] = hi + 1
      /\ CurrentRow(s)' # {}
      /\ ActiveReports(s, hi + 1)' = {}
      /\ \A t \in Scope : t # s =>
           /\ CurrentRow(t)' = CurrentRow(t)
           /\ Complaints(t)' = Complaints(t)
  BY <1>0, <1>1, <1>2, FreshPut
<1>5. /\ Max({0} \cup Numbers(History(s))) = hi
      /\ Max({0} \cup Numbers(History(s)))' = hi + 1
  BY <1>1, <1>2, <1>3, MaxOfHistory DEF Window
<1>6. Health(s)' = "healthy"
  BY <1>4 DEF Health, AuthHealth, ActiveReports
<1>7. \A t \in Scope : t # s =>
         /\ Max({0} \cup Numbers(History(t)))' = Max({0} \cup Numbers(History(t)))
         /\ Health(t)' = Health(t)
  BY <1>3, <1>4, HealthIs, HealthIsNext, AlarmIsComplaint,
     AlarmIsComplaintNext DEF Numbers
<1>8. current' = [current EXCEPT ![s] = hi + 1]
  <2>1. Numbers(RowsOf(s)) = OldestKept(hi)..hi
    BY <1>1 DEF Window
  <2> QED  BY <1>0, <1>2, <2>1, PutEffect
<1>9. /\ [t \in Scope |-> Max({0} \cup Numbers(History(t)))]' =
           [[t \in Scope |-> Max({0} \cup Numbers(History(t)))]
              EXCEPT ![s] = hi + 1]
      /\ [t \in Scope |-> Health(t)]' =
           [[t \in Scope |-> Health(t)] EXCEPT ![s] = "healthy"]
  BY <1>5, <1>6, <1>7
<1>10. hi < MaxRevision
  BY <1>3, <1>2, BoundAssumption
<1> QED
  BY <1>5, <1>8, <1>9, <1>10 DEF Status!Publish

\* A rollback stays within the revisions that are kept.
LEMMA RollbackIsReturn ==
  ASSUME TypeWindow, NEW s \in Scope, NEW n \in 1..MaxRevision, Rollback(s, n)
  PROVE  Status!Return(s, n)
<1>0. TypeOK
  BY DEF TypeWindow
<1>1. PICK hi \in 0..MaxRevision : Window(s, hi)
  BY DEF TypeWindow, RetentionWindow, Window
<1>2. hi \in Nat
  BY BoundAssumption
<1>3. Max({0} \cup Numbers(History(s))) = hi
  BY <1>1, <1>2, MaxOfHistory DEF Window
<1>4. n \in OldestKept(hi)..hi
  BY <1>1 DEF Rollback, HasRevision, Window
<1>5. n \in 1..hi /\ n > hi - RevisionsKept
  BY <1>2, <1>4, KeptAssumption DEF OldestKept
<1>6. \A t \in Scope : History(t)' = History(t) /\ RowsOf(t)' = RowsOf(t)
  BY DEF Rollback, History, RowsOf
<1>7. CurrentRow(s)' # {}
  BY <1>0, <1>6 DEF Rollback, CurrentRow, HasRevision, Numbers, TypeOK
<1>8. Health(s)' \in {"healthy", "refresh_required"}
  BY <1>7, HealthIsNext
<1>9. \A t \in Scope : t # s => Health(t)' = Health(t)
  BY <1>0, <1>6 DEF Rollback, Health, AuthHealth, ActiveReports, GrantOf,
     CurrentRow, TypeOK
<1>10. [t \in Scope |-> Health(t)]' =
         [[t \in Scope |-> Health(t)] EXCEPT ![s] = Health(s)']
  BY <1>9
<1>11. UNCHANGED [t \in Scope |-> Max({0} \cup Numbers(History(t)))]
  BY <1>6 DEF Numbers
<1> QED
  BY <1>3, <1>5, <1>8, <1>10, <1>11 DEF Status!Return, Rollback

\* A step that moves no pointer and raises no alarm only ends some.
LEMMA NoRaiseIsCalm ==
  ASSUME UNCHANGED <<revisions, current, published>>,
         \A s \in Scope : Alarm(s)' => Alarm(s)
  PROVE  Status!Calm({s \in Scope : Alarm(s) /\ ~Alarm(s)'})
<1>1. \A s \in Scope : /\ CurrentRow(s)' = CurrentRow(s)
                       /\ History(s)' = History(s)
  BY DEF CurrentRow, RowsOf, History
<1>2. \A s \in Scope : Alarm(s) => CurrentRow(s) # {}
  BY AlarmIsComplaint
<1>3. \A s \in Scope : Health(s)' =
         IF Alarm(s) /\ ~Alarm(s)' THEN "healthy" ELSE Health(s)
  BY <1>1, <1>2, HealthIs, HealthIsNext
<1>4. UNCHANGED [s \in Scope |-> Max({0} \cup Numbers(History(s)))]
  BY <1>1 DEF Numbers
<1> QED
  BY <1>3, <1>4 DEF Status!Calm, Alarm

\* A report concerns the alarm of its own scope.
LEMMA ReportIsRaise ==
  ASSUME NEW u \in User, NEW s \in Scope, NEW n, NEW kind,
         PutHealthReport(u, s, n, kind), ~Alarm(s), Alarm(s)'
  PROVE  Status!Raise(s)
<1>1. \A t \in Scope : /\ CurrentRow(t)' = CurrentRow(t)
                       /\ History(t)' = History(t)
  BY DEF PutHealthReport, CurrentRow, RowsOf, History
<1>2. Health(s) = "healthy" /\ Health(s)' = "refresh_required"
  BY <1>1, AlarmIsComplaintNext, HealthIs, HealthIsNext
<1>3. \A t \in Scope : t # s => Complaints(t)' = Complaints(t)
  BY DEF PutHealthReport, Complaints, ActiveReports, GrantOf, SameReport
<1>4. \A t \in Scope : t # s => Health(t)' = Health(t)
  BY <1>1, <1>3, HealthIs, HealthIsNext, AlarmIsComplaint,
     AlarmIsComplaintNext
<1>5. [t \in Scope |-> Health(t)]' =
         [[t \in Scope |-> Health(t)] EXCEPT ![s] = "refresh_required"]
  BY <1>2, <1>4
<1>6. UNCHANGED [t \in Scope |-> Max({0} \cup Numbers(History(t)))]
  BY <1>1 DEF Numbers
<1> QED
  BY <1>2, <1>5, <1>6 DEF Status!Raise, PutHealthReport

\* Every step of the store is a step that watchers may see, or none.
LEMMA StatusStep ==
  ASSUME TypeWindow, Access, [Next]_storeVars
  PROVE  [Status!StatusNext]_(Status!statusVars)
<1>1. ASSUME NEW s \in Scope, NEW h \in Hash, NEW why \in Reason,
             PutRevision(s, h, why)
      PROVE  Status!StatusNext
  BY <1>1, PutIsPublish DEF Status!StatusNext
<1>2. ASSUME NEW s \in Scope, NEW n \in 1..MaxRevision, Rollback(s, n)
      PROVE  Status!StatusNext
  BY <1>2, RollbackIsReturn DEF Status!StatusNext
<1>3. ASSUME UNCHANGED <<revisions, current, published>>,
             \A s \in Scope : Alarm(s)' => Alarm(s)
      PROVE  Status!StatusNext
  BY <1>3, NoRaiseIsCalm DEF Status!StatusNext
<1>4. ASSUME NEW u \in User, NEW s \in Scope, NEW n \in 1..MaxRevision,
             NEW kind \in Kind, PutHealthReport(u, s, n, kind)
      PROVE  Status!StatusNext
  <2>1. CASE ~Alarm(s) /\ Alarm(s)'
    BY <1>4, <2>1, ReportIsRaise DEF Status!StatusNext
  <2>2. CASE ~(~Alarm(s) /\ Alarm(s)')
    <3>1. \A p \in reports' \ reports : p.scope = s
      BY <1>4 DEF PutHealthReport
    <3>2. \A t \in Scope : Alarm(t)' => Alarm(t)
      BY <1>4, <2>2, <3>1, CausedStep DEF Caused, PutHealthReport
    <3> QED
      BY <1>3, <1>4, <3>2 DEF PutHealthReport
  <2> QED
    BY <2>1, <2>2
<1>5. ASSUME UNCHANGED <<revisions, current, published>>,
             reports' \subseteq reports
      PROVE  Status!StatusNext
  <2>1. \A t \in Scope : Alarm(t)' => Alarm(t)
    BY <1>5, CausedStep DEF Caused
  <2> QED
    BY <1>3, <1>5, <2>1
<1>6. CASE UNCHANGED storeVars
  BY <1>5, <1>6 DEF storeVars
<1>7. CASE Next
  <2>1. \/ \E s \in Scope, h \in Hash, why \in Reason : PutRevision(s, h, why)
        \/ \E s \in Scope, n \in 1..MaxRevision : Rollback(s, n)
        \/ \E u \in User, s \in Scope, n \in 1..MaxRevision, kind \in Kind :
              PutHealthReport(u, s, n, kind)
        \/ /\ UNCHANGED <<revisions, current, published>>
           /\ reports' \subseteq reports
    BY <1>7 DEF Next, PublisherNext, AdminNext, ConsumerNext, Put,
         PutUnchanged, storeVars, CreateUser, DeleteUser, ChangePassword,
         Grant, Revoke, RecordConsumerSeen
  <2> QED
    BY <1>1, <1>2, <1>4, <1>5, <2>1
<1> QED
  BY <1>6, <1>7

(* The store implements what it promises to those who watch the status: next
   numbers, healthy publications, rollbacks within the window, alarms raised
   by reports alone. *)
THEOREM StatusRefined == Spec => ShowsStatus
<1>1. TypeWindow /\ Access /\ [Next]_storeVars
        => [Status!StatusNext]_(Status!statusVars)
  BY StatusStep
<1> QED
  BY StatusStart, TypeWindowInit, TypeWindowStep, AccessInit, AccessStep,
     <1>1, PTL DEF Spec, ShowsStatus, Status!StatusSpec
============================================================================
