------------------------ MODULE ExtDiagnosticsProofs ------------------------
(***************************************************************************)
(* Proofs about the broker's table of diagnostics and the extension's      *)
(* history of them.                                                        *)
(***************************************************************************)
EXTENDS ExtDiagnostics, OrderLemmas, SequenceTheorems, TLAPS

----------------------------------------------------------------------------
(* The table.                                                              *)

\* Texts can be compared.
LEMMA TextType == ASSUME NEW t \in Int  PROVE Text(t) \in Int
BY DEF Text

\* The text of a timestamp is that of its second, and no two are the same.
LEMMA TextOfTime ==
  ASSUME NEW t \in Int, NEW u \in Int
  PROVE  /\ Text(t) \in Int
         /\ Text(t) \div 2 = t \div 2
         /\ Text(t) >= Text(u) => t \div 2 >= u \div 2
         /\ t \div 2 > u \div 2 => Text(t) > Text(u)
         /\ Text(t) = Text(u) => t = u
<1>1. Text(t) \in Int /\ Text(u) \in Int
  BY DEF Text
<1>2. Text(t) \div 2 = t \div 2
  BY DEF Text
<1>3. Text(t) >= Text(u) => t \div 2 >= u \div 2
  BY DEF Text
<1>4. t \div 2 > u \div 2 => Text(t) > Text(u)
  BY DEF Text
<1>5. Text(t) = Text(u) => t = u
  BY DEF Text
<1> QED  BY <1>1, <1>2, <1>3, <1>4, <1>5

\* The rows are finitely many, and an id below the next one names each.
Keyed(rows, next) ==
    /\ rows \subseteq Row /\ IsFiniteSet(rows)
    /\ \A r \in rows : r.id \in 1..(next - 1)
    /\ \A q, r \in rows : q.id = r.id => q = r

TableInv ==
    /\ Keyed(diagnostics, nextId)
    /\ Cardinality(diagnostics) <= RowsKept
    /\ nextId \in Nat \ {0} /\ now \in Nat /\ publishes \subseteq Scope

\* The orders of a page and of pruning.
ById(rows) == {p \in rows \X rows : p[1].id > p[2].id}
ByText(rows) ==
    {p \in rows \X rows : \/ Text(p[1].at) > Text(p[2].at)
                          \/ p[1].at = p[2].at /\ p[1].id > p[2].id}

\* No two rows of a table have the same id, so ids order them.
LEMMA IdsOrder ==
  ASSUME NEW rows, NEW next \in Nat, Keyed(rows, next)
  PROVE  Orders(ById(rows), rows) /\ IsFiniteSet(rows)
<1>1. \A r \in rows : r.id \in Int
  BY DEF Keyed
<1> QED  BY <1>1 DEF Orders, ById, Keyed

\* So do texts of timestamps, with ids where those are equal.
LEMMA TextsOrder ==
  ASSUME NEW rows, NEW next \in Nat, Keyed(rows, next)
  PROVE  Orders(ByText(rows), rows)
<1>1. \A r \in rows : r.id \in Int /\ r.at \in Int
  BY DEF Keyed, Row
<1>2. \A q, r \in rows : /\ Text(q.at) \in Int
                         /\ Text(q.at) = Text(r.at) => q.at = r.at
  BY <1>1, TextOfTime
<1>3. \A q, r \in rows : q.id = r.id => q = r
  BY DEF Keyed
<1>4. \A q, r \in rows :
        <<q, r>> \in ByText(rows) <=> \/ Text(q.at) > Text(r.at)
                                      \/ q.at = r.at /\ q.id > r.id
  BY DEF ByText
<1>5. \A x \in rows : <<x, x>> \notin ByText(rows)
  BY <1>1, <1>2, <1>4
<1>6. ASSUME NEW x \in rows, NEW y \in rows, x # y
      PROVE  <<x, y>> \in ByText(rows) \/ <<y, x>> \in ByText(rows)
  <2>1. CASE x.at = y.at
    <3>1. x.id # y.id
      BY <1>3, <1>6
    <3> QED  BY <1>1, <1>4, <2>1, <3>1
  <2>2. CASE x.at # y.at
    <3>1. Text(x.at) # Text(y.at)
      BY <1>2, <2>2
    <3>2. Text(x.at) > Text(y.at) \/ Text(y.at) > Text(x.at)
      BY <1>2, <3>1
    <3> QED  BY <1>4, <3>2
  <2> QED  BY <2>1, <2>2
<1>7. ASSUME NEW x \in rows, NEW y \in rows, NEW z \in rows,
             <<x, y>> \in ByText(rows), <<y, z>> \in ByText(rows)
      PROVE  <<x, z>> \in ByText(rows)
  <2>1. /\ Text(x.at) > Text(y.at) \/ (x.at = y.at /\ x.id > y.id)
        /\ Text(y.at) > Text(z.at) \/ (y.at = z.at /\ y.id > z.id)
    BY <1>4, <1>7
  <2>2. Text(x.at) > Text(z.at) \/ (x.at = z.at /\ x.id > z.id)
    BY <1>1, <1>2, <2>1
  <2> QED  BY <1>4, <2>2
<1> QED  BY <1>5, <1>6, <1>7 DEF Orders

\* A page holds the first rows by id, and pruning the first by text.
LEMMA PageIsTop ==
  ASSUME NEW rows, NEW limit
  PROVE  FirstRows(rows, limit) = Top(PageLength(limit), ById(rows), rows)
<1>1. \A r \in rows : AheadOf(ById(rows), rows, r) = {q \in rows : q.id > r.id}
  BY DEF AheadOf, ById
<1> QED  BY <1>1 DEF FirstRows, Top

\* Of the first rows by text, pruning leaves those that are not too old.
LEMMA PruningKeepsTop ==
  ASSUME NEW rows
  PROVE  Pruned(rows) = {r \in Top(RowsKept, ByText(rows), rows) :
                           Text(r.at) >= Text(now - Retention)}
<1>1. \A r \in rows :
        AheadOf(ByText(rows), rows, r)
          = {q \in rows : \/ Text(q.at) > Text(r.at)
                          \/ q.at = r.at /\ q.id > r.id}
  BY DEF AheadOf, ByText
<1>2. \A r \in rows : Rank(r, rows) = Cardinality(AheadOf(ByText(rows), rows, r))
  BY <1>1 DEF Rank
<1> HIDE DEF Rank
<1> QED  BY <1>2 DEF Pruned, Top

\* The rows that a POST inserts, and the payloads that it may hold.
Inserted(s, i, events) ==
    {[id |-> nextId + k - 1, scope |-> s, installation_id |-> i,
      at |-> events[k].at] : k \in DOMAIN events}

Payload(events) ==
    /\ Len(events) \in Nat /\ DOMAIN events = 1..Len(events)
    /\ \A k \in DOMAIN events : events[k].at \in Int

\* Inserting gives new ids.
LEMMA InsertKeyed ==
  ASSUME TableInv, NEW s \in Scope, NEW i \in Installation, NEW events,
         Payload(events)
  PROVE  Keyed(diagnostics \cup Inserted(s, i, events), nextId + Len(events))
<1> DEFINE n == Len(events)
           row == [k \in 1..n |-> [id |-> nextId + k - 1, scope |-> s,
                                   installation_id |-> i, at |-> events[k].at]]
           new == Inserted(s, i, events)
<1>1. n \in Nat /\ nextId \in Nat \ {0} /\ DOMAIN events = 1..n
  BY DEF Payload, TableInv
<1>2. \A k \in 1..n : events[k].at \in Int
  BY DEF Payload
<1> HIDE DEF n
<1>3. \A k \in 1..n : /\ row[k] \in Row
                      /\ row[k].id = nextId + k - 1
                      /\ nextId + k - 1 \in Nat
  BY <1>1, <1>2 DEF Row
<1>4. new = {row[k] : k \in 1..n}
  BY <1>1 DEF Inserted
<1> HIDE DEF row, new
<1>5. DOMAIN row = 1..n /\ row \in [1..n -> new]
  BY <1>4 DEF row
<1>6. row \in Surjection(1..n, new)
  BY <1>4, <1>5 DEF Surjection
<1>7. IsFiniteSet(new)
  BY <1>1, <1>6, FS_Interval, FS_Surjection
<1>8. \A r \in new : /\ r \in Row
                     /\ \E k \in 1..n : r = row[k] /\ r.id = nextId + k - 1
  BY <1>3, <1>4
<1>9. /\ diagnostics \subseteq Row /\ IsFiniteSet(diagnostics)
      /\ \A r \in diagnostics : r.id \in 1..(nextId - 1)
      /\ \A q, r \in diagnostics : q.id = r.id => q = r
  BY DEF TableInv, Keyed
<1>10. IsFiniteSet(diagnostics \cup new)
  BY <1>7, <1>9, FS_Union
<1>11. \A r \in new : r.id \in nextId..(nextId + n - 1)
  BY <1>1, <1>8
<1>12. \A q, r \in new : q.id = r.id => q = r
  <2> SUFFICES ASSUME NEW q \in new, NEW r \in new, q.id = r.id  PROVE q = r
    OBVIOUS
  <2>1. PICK k \in 1..n : q = row[k] /\ q.id = nextId + k - 1
    BY <1>8
  <2>2. PICK j \in 1..n : r = row[j] /\ r.id = nextId + j - 1
    BY <1>8
  <2>3. k = j
    BY <1>1, <2>1, <2>2
  <2> QED  BY <2>1, <2>2, <2>3
<1>13. \A r \in diagnostics \cup new : r.id \in 1..(nextId + n - 1)
  BY <1>1, <1>9, <1>11
<1>14. \A q, r \in diagnostics \cup new : q.id = r.id => q = r
  <2> SUFFICES ASSUME NEW q \in diagnostics \cup new, NEW r \in diagnostics \cup new,
                      q.id = r.id
               PROVE  q = r
    OBVIOUS
  <2>1. \A a \in diagnostics, b \in new : a.id # b.id
    BY <1>1, <1>9, <1>11
  <2> QED  BY <1>9, <1>12, <2>1
<1>15. diagnostics \cup new \subseteq Row
  BY <1>8, <1>9
<1>16. Keyed(diagnostics \cup new, nextId + n)
  <2> DEFINE rows == diagnostics \cup new
  <2>1. /\ IsFiniteSet(rows) /\ rows \subseteq Row
        /\ \A r \in rows : r.id \in 1..(nextId + n - 1)
        /\ \A q, r \in rows : q.id = r.id => q = r
    BY <1>10, <1>13, <1>14, <1>15
  <2> HIDE DEF rows
  <2>2. Keyed(rows, nextId + n)
    BY <1>1, <2>1 DEF Keyed
  <2> QED  BY <2>2 DEF rows
<1> QED  BY <1>16 DEF n, new

\* What pruning leaves: at most RowsKept rows, of those that were there.
LEMMA PruningBounds ==
  ASSUME NEW rows, NEW next \in Nat, Keyed(rows, next)
  PROVE  /\ Keyed(Pruned(rows), next)
         /\ Cardinality(Pruned(rows)) \in Nat
         /\ Cardinality(Pruned(rows)) <= RowsKept
<1> DEFINE top == Top(RowsKept, ByText(rows), rows)
<1>1. RowsKept \in Nat /\ IsFiniteSet(rows)
  BY TableAssumption DEF Keyed
<1>2. /\ IsFiniteSet(top)
      /\ Cardinality(top) = IF RowsKept <= Cardinality(rows) THEN RowsKept
                            ELSE Cardinality(rows)
  BY <1>1, TextsOrder, TopOfOrder
<1>3. Cardinality(top) <= RowsKept
  BY <1>1, <1>2, FS_CardinalityType
<1>4. Pruned(rows) \subseteq top /\ Pruned(rows) \subseteq rows
  BY PruningKeepsTop DEF Top
<1> HIDE DEF top
<1>5. /\ IsFiniteSet(Pruned(rows)) /\ Cardinality(Pruned(rows)) \in Nat
      /\ Cardinality(Pruned(rows)) <= Cardinality(top)
  BY <1>2, <1>4, FS_Subset, FS_CardinalityType
<1>6. Cardinality(top) \in Nat
  BY <1>2, FS_CardinalityType
<1> QED  BY <1>1, <1>3, <1>4, <1>5, <1>6 DEF Keyed

\* A row that pruning drops is too old, or RowsKept rows ahead of it are kept.
LEMMA PruningDrops ==
  ASSUME NEW rows, NEW next \in Nat, Keyed(rows, next), now \in Nat,
         NEW r \in rows, r \notin Pruned(rows)
  PROVE  \/ r.at \div 2 <= (now - Retention) \div 2
         \/ /\ Cardinality(Pruned(rows)) = RowsKept
            /\ \A q \in Pruned(rows) : q.at \div 2 >= r.at \div 2
<1> DEFINE top == Top(RowsKept, ByText(rows), rows)
           cut == now - Retention
<1>1. RowsKept \in Nat \ {0} /\ cut \in Int /\ IsFiniteSet(rows)
  BY TableAssumption DEF Keyed
<1>2. \A q \in rows : q.at \in Int
  BY DEF Keyed, Row
<1>3. Pruned(rows) = {q \in top : Text(q.at) >= Text(cut)} /\ top \subseteq rows
  BY PruningKeepsTop DEF Top
<1> HIDE DEF cut
<1>4. CASE ~(Text(r.at) >= Text(cut))
  <2>0. Text(cut) \in Int /\ Text(r.at) \in Int
    BY <1>1, <1>2, TextType
  <2>1. Text(cut) >= Text(r.at)
    BY <1>4, <2>0
  <2>2. cut \div 2 >= r.at \div 2
    BY <1>1, <1>2, <2>1, TextOfTime
  <2>3. cut \div 2 \in Int /\ r.at \div 2 \in Int
    BY <1>1, <1>2
  <2> QED  BY <2>2, <2>3 DEF cut
<1>5. CASE Text(r.at) >= Text(cut)
  <2>1. r \notin top
    BY <1>3, <1>5
  <2>2. /\ Cardinality(top) = IF RowsKept <= Cardinality(rows) THEN RowsKept
                              ELSE Cardinality(rows)
        /\ \A q \in top, z \in rows \ top : <<q, z>> \in ByText(rows)
    BY <1>1, TextsOrder, TopOfOrder
  <2> HIDE DEF top
  <2>3. Cardinality(top) # Cardinality(rows)
    BY <1>1, <1>3, <2>1, FS_Subset
  <2>4. Cardinality(top) = RowsKept
    BY <2>2, <2>3
  <2>5. \A q \in top : Text(q.at) >= Text(r.at)
    <3> SUFFICES ASSUME NEW q \in top  PROVE Text(q.at) >= Text(r.at)
      OBVIOUS
    <3>1. <<q, r>> \in ByText(rows) /\ q \in rows
      BY <1>3, <2>1, <2>2
    <3>2. Text(q.at) > Text(r.at) \/ q.at = r.at
      BY <3>1 DEF ByText
    <3>3. Text(q.at) \in Int /\ Text(r.at) \in Int
      BY <1>2, <3>1, TextType
    <3> QED  BY <3>2, <3>3
  <2>6. \A q \in top : Text(q.at) >= Text(cut)
    <3> SUFFICES ASSUME NEW q \in top  PROVE Text(q.at) >= Text(cut)
      OBVIOUS
    <3>1. Text(q.at) \in Int /\ Text(r.at) \in Int /\ Text(cut) \in Int
      BY <1>1, <1>2, <1>3, TextType
    <3> QED  BY <1>5, <2>5, <3>1
  <2>7. Pruned(rows) = top
    BY <1>3, <2>6
  <2>8. \A q \in top : q.at \div 2 >= r.at \div 2
    BY <1>2, <1>3, <2>5, TextOfTime
  <2> QED  BY <2>4, <2>7, <2>8
<1> QED  BY <1>4, <1>5

----------------------------------------------------------------------------
(* Steps of the table.                                                     *)

\* A POST is accepted, or at most time goes by.
TableStep ==
    \/ \E s \in Scope, i \in Installation : \E events :
         Payload(events) /\ PutDiagnostics(s, i, events)
    \/ UNCHANGED <<diagnostics, nextId, publishes>> /\ now' \in {now, now + 1}

\* What the broker accepts is a payload.
LEMMA AcceptedPayload ==
  ASSUME TableInv, NEW s, NEW events, Accepts(s, events),
         Len(events) \in Nat, DOMAIN events = 1..Len(events)
  PROVE  Payload(events)
<1>1. now \in Int /\ Tolerance \in Int /\ Ahead \in Int
  BY TableAssumption DEF TableInv
<1>2. \A k \in DOMAIN events : events[k] \in Range(events)
  BY DEF Range
<1>3. \A e \in Range(events) : e.at \in (now - Tolerance)..(now + Ahead)
  BY DEF Accepts, ValidateDiagnostics
<1>4. \A k \in DOMAIN events : events[k].at \in Int
  BY <1>1, <1>2, <1>3
<1> QED  BY <1>4 DEF Payload

\* A payload has as many events as there are numbers.
LEMMA EventsOfLength ==
  ASSUME NEW numbers, IsFiniteSet(numbers)
  PROVE  /\ Len(EventsOf(numbers)) = Cardinality(numbers)
         /\ Len(EventsOf(numbers)) \in Nat
         /\ DOMAIN EventsOf(numbers) = 1..Len(EventsOf(numbers))
<1>1. Cardinality(numbers) \in Nat
  BY FS_CardinalityType
<1>2. DOMAIN EventsOf(numbers) = 1..Cardinality(numbers)
  BY DEF EventsOf
<1>3. Len(EventsOf(numbers)) = Cardinality(numbers)
  BY <1>1 DEF EventsOf
<1> QED  BY <1>1, <1>2, <1>3

\* The invariant holds on.
LEMMA TableInvNext ==
  ASSUME TableInv, TableStep
  PROVE  TableInv'
<1>1. ASSUME NEW s \in Scope, NEW i \in Installation, NEW events,
             Payload(events), PutDiagnostics(s, i, events)
      PROVE  TableInv'
  <2> DEFINE rows == diagnostics \cup Inserted(s, i, events)
             next == nextId + Len(events)
  <2>1. /\ diagnostics' = Pruned(rows) /\ nextId' = next
        /\ publishes' = publishes /\ now' = now
    BY <1>1 DEF PutDiagnostics, Inserted
  <2>2. next \in Nat \ {0}
    BY <1>1 DEF TableInv, Payload
  <2>3. Keyed(rows, next)
    BY <1>1, InsertKeyed
  <2> HIDE DEF rows, next
  <2>4. Keyed(Pruned(rows), next) /\ Cardinality(Pruned(rows)) <= RowsKept
    BY <2>2, <2>3, PruningBounds
  <2>5. Keyed(diagnostics', nextId')
    BY <2>1, <2>4
  <2>6. Cardinality(diagnostics') <= RowsKept
    BY <2>1, <2>4
  <2>7. nextId' \in Nat \ {0} /\ now' \in Nat /\ publishes' \subseteq Scope
    BY <2>1, <2>2 DEF TableInv
  <2> QED  BY <2>5, <2>6, <2>7 DEF TableInv
<1>2. ASSUME UNCHANGED <<diagnostics, nextId, publishes>>, now' \in {now, now + 1}
      PROVE  TableInv'
  BY <1>2 DEF TableInv, Keyed
<1> QED  BY <1>1, <1>2 DEF TableStep

DropsOldest ==
    \A r \in diagnostics \ diagnostics' :
      \/ r.at \div 2 <= (now - Retention) \div 2
      \/ /\ Cardinality(diagnostics') = RowsKept
         /\ \A q \in diagnostics' : q.at \div 2 >= r.at \div 2

\* A step drops rows in no other way.
LEMMA StepDropsOldest ==
  ASSUME TableInv, TableStep
  PROVE  DropsOldest
<1>1. ASSUME NEW s \in Scope, NEW i \in Installation, NEW events,
             Payload(events), PutDiagnostics(s, i, events)
      PROVE  DropsOldest
  <2> DEFINE rows == diagnostics \cup Inserted(s, i, events)
             next == nextId + Len(events)
  <2>1. diagnostics' = Pruned(rows)
    BY <1>1 DEF PutDiagnostics, Inserted
  <2>2. next \in Nat /\ now \in Nat
    BY <1>1 DEF TableInv, Payload
  <2>3. Keyed(rows, next)
    BY <1>1, InsertKeyed
  <2>4. diagnostics \subseteq rows
    OBVIOUS
  <2> HIDE DEF rows, next
  <2>5. \A r \in rows : r \notin Pruned(rows) =>
          \/ r.at \div 2 <= (now - Retention) \div 2
          \/ /\ Cardinality(Pruned(rows)) = RowsKept
             /\ \A q \in Pruned(rows) : q.at \div 2 >= r.at \div 2
    BY <2>2, <2>3, PruningDrops
  <2> QED  BY <2>1, <2>4, <2>5 DEF DropsOldest
<1>2. ASSUME UNCHANGED <<diagnostics, nextId, publishes>>
      PROVE  DropsOldest
  BY <1>2 DEF DropsOldest
<1> QED  BY <1>1, <1>2 DEF TableStep

----------------------------------------------------------------------------
(* Queries.                                                                *)

\* A page holds the rows from the next cursor on, and is empty only when no
\* row is left.
LEMMA PageIsExact ==
  ASSUME NEW rows, NEW next \in Nat, Keyed(rows, next),
         NEW limit \in 0..(maxLimit + 1), NEW page, page = FirstRows(rows, limit)
  PROVE  /\ page = {r \in rows : r.id >= nextBeforeId(page)}
         /\ page = {} => rows = {}
<1> DEFINE n == PageLength(limit)
<1>1. n \in Nat \ {0}
  BY TableAssumption DEF PageLength
<1>2. \A r \in rows : r.id \in Nat
  BY DEF Keyed
<1>3. page = Top(n, ById(rows), rows) /\ page \subseteq rows
  BY PageIsTop DEF Top
<1>4. Orders(ById(rows), rows) /\ IsFiniteSet(rows)
  BY IdsOrder
<1> HIDE DEF n
<1>5. /\ Cardinality(page) = IF n <= Cardinality(rows) THEN n
                             ELSE Cardinality(rows)
      /\ \A x \in page, z \in rows \ page : <<x, z>> \in ById(rows)
  BY <1>1, <1>3, <1>4, TopOfOrder
<1>6. CASE page = {}
  <2>1. Cardinality(page) = 0
    BY <1>6, FS_EmptySet
  <2>2. Cardinality(rows) = 0
    BY <1>1, <1>5, <2>1
  <2>3. rows = {}
    BY <1>4, <2>2, FS_EmptySet
  <2> QED  BY <1>6, <2>3
<1>7. CASE page # {}
  <2> DEFINE ids == {r.id : r \in page}
  <2>1. ids \in SUBSET Nat /\ ids # {}
    BY <1>2, <1>3, <1>7
  <2>2. Min(ids) \in ids /\ \A y \in ids : Min(ids) <= y
    <3> HIDE DEF ids
    <3> QED  BY <2>1, MinOfNaturals
  <2>3. nextBeforeId(page) = Min(ids)
    BY <1>7 DEF nextBeforeId
  <2>4. PICK least \in page : nextBeforeId(page) = least.id
    BY <2>2, <2>3
  <2>5. \A r \in page : r.id >= nextBeforeId(page)
    BY <1>2, <1>3, <2>2, <2>3, <2>4
  <2> HIDE DEF ids
  <2>6. ASSUME NEW z \in rows, z.id >= nextBeforeId(page)  PROVE z \in page
    <3> SUFFICES ASSUME z \notin page  PROVE FALSE
      OBVIOUS
    <3>1. <<least, z>> \in ById(rows)
      BY <1>5
    <3>2. least.id > z.id
      BY <3>1 DEF ById
    <3> QED  BY <1>2, <1>3, <2>4, <2>6, <3>2
  <2> QED  BY <1>3, <1>7, <2>5, <2>6
<1> QED  BY <1>6, <1>7

\* Any part of a table has ids that name its rows.
LEMMA KeyedSubset ==
  ASSUME NEW all, NEW next, Keyed(all, next), NEW rows \in SUBSET all
  PROVE  Keyed(rows, next)
<1>1. IsFiniteSet(rows)
  BY FS_Subset DEF Keyed
<1> QED  BY <1>1 DEF Keyed

\* Pages of any query are exact.
LEMMA PagesAreExact ==
  ASSUME TableInv, NEW all \in SUBSET diagnostics
  PROVE  PagesCover(all)
<1> SUFFICES ASSUME NEW before \in 0..nextId, NEW limit \in 0..(maxLimit + 1)
             PROVE  LET rows == {r \in all : before > 0 => r.id < before}
                        page == Diagnostics(all, before, limit)
                    IN  /\ page = {r \in rows : r.id >= nextBeforeId(page)}
                        /\ page = {} => rows = {}
  BY DEF PagesCover
<1> DEFINE rows == {r \in all : before > 0 => r.id < before}
           page == Diagnostics(all, before, limit)
<1>1. Keyed(diagnostics, nextId) /\ nextId \in Nat
  BY DEF TableInv
<1>2. rows \in SUBSET diagnostics /\ page = FirstRows(rows, limit)
  BY DEF Diagnostics
<1> HIDE DEF rows, page
<1>3. Keyed(rows, nextId)
  BY <1>1, <1>2, KeyedSubset
<1>4. /\ page = {r \in rows : r.id >= nextBeforeId(page)}
      /\ page = {} => rows = {}
  BY <1>1, <1>2, <1>3, PageIsExact
<1> QED  BY <1>4 DEF rows, page

SpanIsExact(s, i, from, to) ==
    LET Second(a, b) == {r \in diagnostics : /\ r.scope = s
                                             /\ r.installation_id = i
                                             /\ r.at \div 2 \in a..b}
        shown == Matching(s, {i}, {from}, {to})
    IN  /\ Second(from \div 2 + 1, to \div 2 - 1) \subseteq shown
        /\ shown \subseteq Second(from \div 2, to \div 2)

\* A table whose ids name its rows answers queries exactly.
LEMMA QueriesSuffice ==
  ASSUME TableInv
  PROVE  QueriesAreExact
<1> SUFFICES ASSUME NEW s \in Scope
             PROVE  /\ PagesCover(Matching(s, {}, {}, {}))
                    /\ \A i \in Installation, from, to \in 0..now :
                         SpanIsExact(s, i, from, to)
  BY DEF QueriesAreExact, SpanIsExact
<1>1. PagesCover(Matching(s, {}, {}, {}))
  <2>1. Matching(s, {}, {}, {}) \in SUBSET diagnostics
    BY DEF Matching
  <2> QED  BY <2>1, PagesAreExact
<1>2. ASSUME NEW i \in Installation, NEW from \in 0..now, NEW to \in 0..now,
             NEW r \in diagnostics, r.scope = s, r.installation_id = i
      PROVE  /\ r.at \div 2 \in (from \div 2 + 1)..(to \div 2 - 1)
                  => r \in Matching(s, {i}, {from}, {to})
             /\ r \in Matching(s, {i}, {from}, {to})
                  => r.at \div 2 \in (from \div 2)..(to \div 2)
  <2>1. r.at \in Int /\ from \in Int /\ to \in Int
    BY DEF TableInv, Keyed, Row
  <2>2. r \in Matching(s, {i}, {from}, {to})
          <=> Text(r.at) >= Text(from) /\ Text(r.at) <= Text(to)
    BY <1>2 DEF Matching
  <2>3. /\ Text(r.at) \in Int /\ Text(from) \in Int /\ Text(to) \in Int
        /\ Text(r.at) >= Text(from) => r.at \div 2 >= from \div 2
        /\ Text(to) >= Text(r.at) => to \div 2 >= r.at \div 2
        /\ r.at \div 2 > from \div 2 => Text(r.at) > Text(from)
        /\ to \div 2 > r.at \div 2 => Text(to) > Text(r.at)
    BY <2>1, TextOfTime
  <2>4. r.at \div 2 \in Int /\ from \div 2 \in Int /\ to \div 2 \in Int
    BY <2>1
  <2> DEFINE a == r.at \div 2
             b == from \div 2
             c == to \div 2
  <2>5. /\ a \in Int /\ b \in Int /\ c \in Int
        /\ Text(r.at) >= Text(from) => a >= b
        /\ Text(to) >= Text(r.at) => c >= a
        /\ a > b => Text(r.at) > Text(from)
        /\ c > a => Text(to) > Text(r.at)
    BY <2>3, <2>4
  <2> HIDE DEF a, b, c
  <2>6. a \in (b + 1)..(c - 1) => Text(r.at) >= Text(from) /\ Text(r.at) <= Text(to)
    BY <2>3, <2>5
  <2>7. Text(r.at) >= Text(from) /\ Text(r.at) <= Text(to) => a \in b..c
    BY <2>3, <2>5
  <2> QED  BY <2>2, <2>6, <2>7 DEF a, b, c
<1>3. ASSUME NEW i \in Installation, NEW from \in 0..now, NEW to \in 0..now
      PROVE  SpanIsExact(s, i, from, to)
  <2> DEFINE shown == Matching(s, {i}, {from}, {to})
             Own == {r \in diagnostics : r.scope = s /\ r.installation_id = i}
             inner == (from \div 2 + 1)..(to \div 2 - 1)
             outer == (from \div 2)..(to \div 2)
  <2>1. ASSUME NEW r \in Own
        PROVE  /\ r.at \div 2 \in inner => r \in shown
               /\ r \in shown => r.at \div 2 \in outer
    <3>1. r \in diagnostics /\ r.scope = s /\ r.installation_id = i
      OBVIOUS
    <3> QED  BY <1>2, <3>1
  <2>2. shown \subseteq Own
    BY DEF Matching
  <2>3. SpanIsExact(s, i, from, to)
          <=> /\ {r \in diagnostics : /\ r.scope = s /\ r.installation_id = i
                                      /\ r.at \div 2 \in inner} \subseteq shown
              /\ shown \subseteq {r \in diagnostics :
                                   /\ r.scope = s /\ r.installation_id = i
                                   /\ r.at \div 2 \in outer}
    BY DEF SpanIsExact
  <2> HIDE DEF shown, inner, outer
  <2> QED  BY <2>1, <2>2, <2>3
<1> QED  BY <1>1, <1>3

----------------------------------------------------------------------------
(* Histories.                                                              *)

\* Batches of events in the order logged.
Chain(stored) ==
    /\ stored \in Seq(Batch)
    /\ \A i \in 1..Len(stored) :
         /\ stored[i].events \subseteq DOMAIN log
         /\ Cardinality(stored[i].events) \in 1..EVENTS_PER_BATCH
    /\ \A i, j \in 1..Len(stored) :
         i < j => \A d \in stored[i].events, e \in stored[j].events : d < e

Fits(stored) == Cardinality(Events(stored)) <= MAX_EVENTS

\* Events are logged at the times when they happen.
Clock ==
    /\ log \in Seq(Event) /\ now \in Nat
    /\ \A e \in DOMAIN log : log[e].at <= now
    /\ \A d, e \in DOMAIN log : d < e => log[d].at <= log[e].at

\* The bounds that the type invariant states, batch by batch.
LEMMA BoundedIsChain ==
  ASSUME NEW stored
  PROVE  stored \in Seq(Batch) /\ Bounded(stored) <=> Chain(stored) /\ Fits(stored)
<1> SUFFICES ASSUME stored \in Seq(Batch)
             PROVE  Bounded(stored) <=> Chain(stored) /\ Fits(stored)
  BY DEF Chain
<1>1. DOMAIN stored = 1..Len(stored) /\ Len(stored) \in Nat
  OBVIOUS
<1>2. Events(stored) \subseteq DOMAIN log
        <=> \A i \in 1..Len(stored) : stored[i].events \subseteq DOMAIN log
  BY <1>1 DEF Events, EventsFrom
<1>3. ASSUME NEW i \in 1..Len(stored), NEW e
      PROVE  e \in EventsFrom(i + 1, stored)
               <=> \E j \in 1..Len(stored) : i < j /\ e \in stored[j].events
  BY <1>1 DEF EventsFrom
<1>4. (\A i \in 1..Len(stored) :
         \A d \in stored[i].events, e \in EventsFrom(i + 1, stored) : d < e)
      <=>
      (\A i, j \in 1..Len(stored) :
         i < j => \A d \in stored[i].events, e \in stored[j].events : d < e)
  BY <1>3
<1> QED  BY <1>1, <1>2, <1>4 DEF Bounded, Chain, Fits

\* Sets of events are finite.
LEMMA LogFinite ==
  ASSUME log \in Seq(Event), NEW events \in SUBSET DOMAIN log
  PROVE  /\ events \in SUBSET Nat
         /\ IsFiniteSet(events) /\ Cardinality(events) \in Nat
<1>1. DOMAIN log = 1..Len(log) /\ Len(log) \in Nat
  OBVIOUS
<1>2. IsFiniteSet(1..Len(log)) /\ events \in SUBSET (1..Len(log))
  BY <1>1, FS_Interval
<1>3. IsFiniteSet(events)
  BY <1>2, FS_Subset
<1> QED  BY <1>1, <1>2, <1>3, FS_CardinalityType

\* The events of a history are in the log.
LEMMA ChainEvents ==
  ASSUME log \in Seq(Event), NEW stored, Chain(stored), NEW k \in Nat \ {0}
  PROVE  EventsFrom(k, stored) \in SUBSET DOMAIN log
  BY DEF EventsFrom, Chain

\* The latest n of some events.
Latest(events) == {p \in events \X events : p[1] > p[2]}

\* LastOf takes the latest events, and as many as there are up to n.
LEMMA LastOfIsTop ==
  ASSUME NEW events \in SUBSET Nat, IsFiniteSet(events), NEW n \in Int
  PROVE  /\ LastOf(n, events) \in SUBSET events
         /\ IsFiniteSet(LastOf(n, events))
         /\ n <= 0 => LastOf(n, events) = {}
         /\ n >= 0 => Cardinality(LastOf(n, events))
                        = IF n <= Cardinality(events) THEN n
                          ELSE Cardinality(events)
         /\ \A e \in LastOf(n, events), d \in events \ LastOf(n, events) : d < e
<1>1. Orders(Latest(events), events)
  BY DEF Orders, Latest
<1>2. \A e \in events :
        AheadOf(Latest(events), events, e) = {d \in events : d > e}
  BY DEF AheadOf, Latest
<1>3. LastOf(n, events) = Top(n, Latest(events), events)
  BY <1>2 DEF LastOf, Top
<1>4. LastOf(n, events) \in SUBSET events
  BY DEF LastOf
<1>5. IsFiniteSet(LastOf(n, events))
  BY <1>4, FS_Subset
<1>6. CASE n >= 0
  <2>1. n \in Nat
    BY <1>6
  <2>2. /\ Cardinality(Top(n, Latest(events), events))
             = IF n <= Cardinality(events) THEN n ELSE Cardinality(events)
        /\ \A e \in Top(n, Latest(events), events),
              d \in events \ Top(n, Latest(events), events) :
             <<e, d>> \in Latest(events)
    BY <1>1, <2>1, TopOfOrder
  <2>3. Cardinality(LastOf(n, events))
          = IF n <= Cardinality(events) THEN n ELSE Cardinality(events)
    BY <1>3, <2>2
  <2>4. \A e \in LastOf(n, events), d \in events \ LastOf(n, events) :
          <<e, d>> \in Latest(events)
    BY <1>3, <2>2
  <2>5. \A e \in LastOf(n, events), d \in events \ LastOf(n, events) : d < e
    BY <1>4, <2>4 DEF Latest
  <2>6. ASSUME n = 0  PROVE LastOf(n, events) = {}
    <3>1. Cardinality(events) \in Nat
      BY FS_CardinalityType
    <3>2. Cardinality(LastOf(n, events)) = 0
      BY <2>3, <2>6, <3>1
    <3> QED  BY <1>5, <3>2, FS_EmptySet
  <2> QED  BY <1>4, <1>5, <1>6, <2>3, <2>5, <2>6
<1>7. CASE n < 0
  <2>1. \A e \in events : Cardinality(AheadOf(Latest(events), events, e)) \in Nat
    BY <1>1, PlacesAscend
  <2>2. ASSUME NEW e \in LastOf(n, events)  PROVE FALSE
    <3>1. e \in events /\ Cardinality(AheadOf(Latest(events), events, e)) < n
      BY <1>3 DEF Top
    <3> QED  BY <1>7, <2>1, <3>1
  <2> QED  BY <1>5, <1>7, <2>2
<1> QED  BY <1>6, <1>7

\* Appending an event that is later than those stored.
LEMMA AppendedChain ==
  ASSUME log \in Seq(Event), NEW stored, Chain(stored), NEW e \in DOMAIN log,
         \A d \in Events(stored) : d < e, NEW grown, grown = Appended(stored, e)
  PROVE  /\ Chain(grown) /\ Len(grown) \in Nat \ {0}
         /\ Events(grown) = Events(stored) \cup {e}
         /\ \A i \in 1..Len(grown) : \A d \in grown[i].events :
              \/ /\ i \in 1..Len(stored) /\ d \in stored[i].events
                 /\ grown[i].uploadedScopes = stored[i].uploadedScopes
              \/ /\ d = e
                 /\ grown[i].uploadedScopes
                      = IF HasRoom(stored) THEN stored[Len(stored)].uploadedScopes
                        ELSE {}
<1> DEFINE n == Len(stored)
<1>1. stored \in Seq(Batch) /\ n \in Nat /\ DOMAIN stored = 1..n
  BY DEF Chain
<1>2. \A i \in 1..n : /\ stored[i] \in Batch
                      /\ stored[i].events \subseteq DOMAIN log
                      /\ Cardinality(stored[i].events) \in 1..EVENTS_PER_BATCH
  BY <1>1 DEF Chain
<1>3. \A i, j \in 1..n :
        i < j => \A d \in stored[i].events, f \in stored[j].events : d < f
  BY DEF Chain
<1>4. \A i \in 1..n : \A d \in stored[i].events : d < e
  BY <1>1 DEF Events, EventsFrom
<1>5. e \in Nat /\ EVENTS_PER_BATCH \in Nat \ {0}
  BY ExtAssumption
<1>6. CASE HasRoom(stored)
  <2> DEFINE batch == [stored[n] EXCEPT !.events = @ \cup {e}, !.pending = TRUE]
  <2>1. n \in 1..n /\ Cardinality(stored[n].events) < EVENTS_PER_BATCH
    BY <1>1, <1>6 DEF HasRoom
  <2>2. grown = [stored EXCEPT ![n] = batch]
    BY <1>1, <1>6, <2>1 DEF Appended
  <2>3. /\ batch \in Batch
        /\ batch.events = stored[n].events \cup {e}
        /\ batch.uploadedScopes = stored[n].uploadedScopes
    BY <1>2, <1>5, <2>1 DEF Batch
  <2> HIDE DEF batch
  <2>4. /\ grown \in Seq(Batch) /\ Len(grown) = n
        /\ \A i \in 1..n : grown[i] = IF i = n THEN batch ELSE stored[i]
    BY <1>1, <2>1, <2>2, <2>3
  <2>5. \A i \in 1..n : grown[i].events = IF i = n THEN stored[n].events \cup {e}
                                          ELSE stored[i].events
    BY <2>3, <2>4
  <2>6. Cardinality(batch.events) \in 1..EVENTS_PER_BATCH
    <3>1. stored[n].events \in SUBSET DOMAIN log /\ e \notin stored[n].events
      BY <1>2, <1>4, <1>5, <2>1
    <3>2. IsFiniteSet(stored[n].events) /\ Cardinality(stored[n].events) \in Nat
      BY <3>1, LogFinite
    <3>3. Cardinality(stored[n].events \cup {e}) = Cardinality(stored[n].events) + 1
      BY <3>1, <3>2, FS_AddElement
    <3> QED  BY <1>5, <2>1, <2>3, <3>2, <3>3
  <2>7. \A i \in 1..n : /\ grown[i].events \subseteq DOMAIN log
                        /\ Cardinality(grown[i].events) \in 1..EVENTS_PER_BATCH
    BY <1>2, <2>3, <2>4, <2>6
  <2>8. \A i, j \in 1..n :
          i < j => \A d \in grown[i].events, f \in grown[j].events : d < f
    BY <1>3, <1>4, <2>1, <2>5
  <2>9. Chain(grown)
    BY <2>4, <2>7, <2>8 DEF Chain
  <2>10. Events(grown) = Events(stored) \cup {e}
    <3>1. Events(grown) = UNION {grown[i].events : i \in 1..n}
      BY <2>4 DEF Events, EventsFrom
    <3>2. Events(stored) = UNION {stored[i].events : i \in 1..n}
      BY DEF Events, EventsFrom
    <3>3. ASSUME NEW d  PROVE d \in Events(grown) <=> d \in Events(stored) \cup {e}
      <4>1. d \in Events(grown) <=> \E i \in 1..n : d \in grown[i].events
        BY <3>1
      <4>2. d \in Events(stored) <=> \E i \in 1..n : d \in stored[i].events
        BY <3>2
      <4> QED  BY <2>1, <2>5, <4>1, <4>2
    <3> QED  BY <3>3
  <2>11. \A i \in 1..n : grown[i].uploadedScopes = stored[i].uploadedScopes
    BY <2>3, <2>4
  <2>12. Len(grown) \in Nat \ {0}
    <3>1. n \in Nat \ {0}
      BY <1>1, <2>1
    <3>2. Len(grown) = n
      BY <2>4
    <3> QED  BY <3>1, <3>2
  <2>13. ASSUME NEW i \in 1..n, NEW d \in grown[i].events
         PROVE  d \in stored[i].events \/ (d = e /\ i = n)
    BY <2>5
  <2> QED  BY <1>6, <2>4, <2>9, <2>10, <2>11, <2>12, <2>13
<1>7. CASE ~HasRoom(stored)
  <2> DEFINE batch == [events |-> {e}, uploadedScopes |-> {}, pending |-> TRUE]
  <2>1. grown = Append(stored, batch)
    BY <1>7 DEF Appended
  <2>2. batch \in Batch /\ batch.events = {e} /\ batch.uploadedScopes = {}
    BY <1>5 DEF Batch
  <2> HIDE DEF batch
  <2>3. /\ grown \in Seq(Batch) /\ Len(grown) = n + 1
        /\ grown[n + 1] = batch /\ \A i \in 1..n : grown[i] = stored[i]
    BY <1>1, <2>1, <2>2
  <2>4. Cardinality(batch.events) \in 1..EVENTS_PER_BATCH
    <3>1. Cardinality({e}) = 1
      BY FS_Singleton
    <3> QED  BY <1>5, <2>2, <3>1
  <2>5. \A i \in 1..(n + 1) : i \in 1..n \/ i = n + 1
    BY <1>1
  <2>6. \A i \in 1..(n + 1) :
          /\ grown[i].events \subseteq DOMAIN log
          /\ Cardinality(grown[i].events) \in 1..EVENTS_PER_BATCH
    BY <1>2, <2>2, <2>3, <2>4, <2>5
  <2>7. \A i, j \in 1..(n + 1) :
          i < j => \A d \in grown[i].events, f \in grown[j].events : d < f
    BY <1>1, <1>3, <1>4, <2>2, <2>3, <2>5
  <2>8. Chain(grown)
    BY <2>3, <2>6, <2>7 DEF Chain
  <2>9. Events(grown) = Events(stored) \cup {e}
    <3>1. Events(grown) = UNION {grown[i].events : i \in 1..(n + 1)}
      BY <2>3 DEF Events, EventsFrom
    <3>2. Events(stored) = UNION {stored[i].events : i \in 1..n}
      BY DEF Events, EventsFrom
    <3>3. ASSUME NEW d  PROVE d \in Events(grown) <=> d \in Events(stored) \cup {e}
      <4>1. d \in Events(grown) <=> \E i \in 1..(n + 1) : d \in grown[i].events
        BY <3>1
      <4>2. d \in Events(stored) <=> \E i \in 1..n : d \in grown[i].events
        BY <2>3, <3>2
      <4>3. d = e <=> d \in grown[n + 1].events
        BY <2>2, <2>3
      <4>4. \A i \in 1..n : i \in 1..(n + 1)
        BY <1>1
      <4>5. n + 1 \in 1..(n + 1)
        BY <1>1
      <4> QED  BY <2>5, <4>1, <4>2, <4>3, <4>4, <4>5
    <3> QED  BY <3>3
  <2>10. Len(grown) \in Nat \ {0}
    BY <1>1, <2>3
  <2>11. \A i \in 1..n : grown[i].uploadedScopes = stored[i].uploadedScopes
    BY <2>3
  <2> QED  BY <1>7, <2>2, <2>3, <2>5, <2>8, <2>9, <2>10, <2>11
<1> QED  BY <1>6, <1>7

----------------------------------------------------------------------------
(* FIFO pruning.                                                           *)

\* The parts of the loop.
IsRecent(e) == log[e].at >= now - Retention
CountAfter(k, stored) == Cardinality(EventsFrom(k + 1, stored))
RecentOf(k, stored) == {e \in stored[k + 1].events : IsRecent(e)}
KeptOf(k, stored) ==
    LastOf(MAX_EVENTS - CountAfter(k + 1, stored), RecentOf(k, stored))
GoesOn(k, stored) ==
    /\ k < Len(stored)
    /\ \/ ~IsRecent(Max(stored[k + 1].events))
       \/ CountAfter(k, stored) > MAX_EVENTS
RestOf(k, stored) == SubSeq(stored, k + 1, Len(stored))

\* What pruning leaves after it has removed k batches: the others, or all but
\* some events of the next one.
PrunedTo(k, stored, left) ==
    /\ k \in 0..Len(stored)
    /\ \A j \in 0..(k - 1) : GoesOn(j, stored) /\ KeptOf(j, stored) = {}
    /\ \/ ~GoesOn(k, stored) /\ left = RestOf(k, stored)
       \/ /\ GoesOn(k, stored) /\ KeptOf(k, stored) # {}
          /\ left = [RestOf(k, stored) EXCEPT ![1].events = KeptOf(k, stored)]

\* The loop ends.
LEMMA LoopEnds ==
  ASSUME NEW stored, Chain(stored)
  PROVE  \E k \in 0..Len(stored) : PrunedTo(k, stored, FifoPruned(stored))
<1> DEFINE Ends == {j \in 0..Len(stored) :
                      GoesOn(j, stored) => KeptOf(j, stored) # {}}
           k == Min(Ends)
<1>1. Len(stored) \in Nat
  BY DEF Chain
<1>2. Len(stored) \in Ends
  BY <1>1 DEF GoesOn
<1>3. Ends \in SUBSET Nat /\ Ends # {}
  BY <1>1, <1>2
<1>4. k \in Ends /\ \A j \in Ends : k <= j
  <2> HIDE DEF Ends
  <2> QED  BY <1>3, MinOfNaturals
<1>5. FifoPruned(stored)
        = IF GoesOn(k, stored)
          THEN [RestOf(k, stored) EXCEPT ![1].events = KeptOf(k, stored)]
          ELSE RestOf(k, stored)
  BY DEF FifoPruned, GoesOn, RestOf, KeptOf, RecentOf, CountAfter, IsRecent
<1> HIDE DEF k
<1>6. k \in 0..Len(stored) /\ (GoesOn(k, stored) => KeptOf(k, stored) # {})
  BY <1>4
<1>7. \A j \in 0..(k - 1) : j \in 0..Len(stored) /\ j \notin Ends
  <2>1. \A j \in 0..(k - 1) : j \in 0..Len(stored) /\ ~(k <= j)
    BY <1>1, <1>6
  <2> HIDE DEF Ends
  <2> QED  BY <1>4, <2>1
<1>8. \A j \in 0..(k - 1) : GoesOn(j, stored) /\ KeptOf(j, stored) = {}
  BY <1>7
<1> QED  BY <1>5, <1>6, <1>8 DEF PrunedTo

\* The events of the batches after the first k, by batch.
LEMMA EventsSplit ==
  ASSUME log \in Seq(Event), NEW stored, Chain(stored), NEW k \in Nat,
         k < Len(stored)
  PROVE  /\ EventsFrom(k + 1, stored)
              = stored[k + 1].events \cup EventsFrom(k + 2, stored)
         /\ stored[k + 1].events \in SUBSET DOMAIN log
         /\ EventsFrom(k + 2, stored) \in SUBSET DOMAIN log
         /\ \A d \in stored[k + 1].events, e \in EventsFrom(k + 2, stored) : d < e
<1>1. Len(stored) \in Nat /\ k + 1 \in 1..Len(stored)
  BY DEF Chain
<1>2. \A i \in (k + 1)..Len(stored) : i = k + 1 \/ i \in (k + 2)..Len(stored)
  BY <1>1
<1>3. \A i \in (k + 2)..Len(stored) : i \in (k + 1)..Len(stored)
  BY <1>1
<1>4. k + 1 \in (k + 1)..Len(stored)
  BY <1>1
<1>5. ASSUME NEW e
      PROVE  e \in EventsFrom(k + 1, stored)
               <=> e \in stored[k + 1].events \cup EventsFrom(k + 2, stored)
  BY <1>2, <1>3, <1>4 DEF EventsFrom
<1>6. stored[k + 1].events \in SUBSET DOMAIN log
  BY <1>1 DEF Chain
<1>7. EventsFrom(k + 2, stored) \in SUBSET DOMAIN log
  BY ChainEvents
<1>8. ASSUME NEW d \in stored[k + 1].events, NEW e \in EventsFrom(k + 2, stored)
      PROVE  d < e
  <2>1. PICK i \in (k + 2)..Len(stored) : e \in stored[i].events
    BY DEF EventsFrom
  <2>2. i \in 1..Len(stored) /\ k + 1 < i
    BY <1>1
  <2> QED  BY <1>1, <2>1, <2>2 DEF Chain
<1> QED  BY <1>5, <1>6, <1>7, <1>8

\* What is left of a history, batch by batch.
LEMMA LeftBatches ==
  ASSUME log \in Seq(Event), NEW stored, Chain(stored), NEW k, NEW left,
         PrunedTo(k, stored, left)
  PROVE  /\ left \in Seq(Batch) /\ Len(left) = Len(stored) - k
         /\ \A i \in 1..Len(left) :
              /\ k + i \in 1..Len(stored)
              /\ left[i].events = IF GoesOn(k, stored) /\ i = 1
                                  THEN KeptOf(k, stored)
                                  ELSE stored[k + i].events
              /\ left[i].uploadedScopes = stored[k + i].uploadedScopes
         /\ KeptOf(k, stored) \subseteq stored[k + 1].events
<1> DEFINE rest == RestOf(k, stored)
           kept == KeptOf(k, stored)
           n == Len(stored)
<1>1. stored \in Seq(Batch) /\ n \in Nat /\ k \in 0..n
  BY DEF Chain, PrunedTo
<1>2. /\ rest \in Seq(Batch) /\ Len(rest) = n - k
      /\ \A i \in 1..(n - k) : rest[i] = stored[k + i] /\ k + i \in 1..n
  BY <1>1 DEF RestOf
<1>3. kept \subseteq stored[k + 1].events
  BY DEF KeptOf, RecentOf, LastOf
<1> HIDE DEF rest, kept, n
<1>4. CASE ~GoesOn(k, stored)
  <2>1. left = rest
    BY <1>4 DEF PrunedTo, rest
  <2> QED  BY <1>2, <1>3, <1>4, <2>1 DEF kept, n
<1>5. CASE GoesOn(k, stored)
  <2>1. left = [rest EXCEPT ![1].events = kept] /\ k < n
    BY <1>5 DEF PrunedTo, rest, kept, n, GoesOn
  <2>2. 1 \in 1..(n - k) /\ 1 \in 1..Len(rest)
    BY <1>1, <1>2, <2>1
  <2> DEFINE batch == [rest[1] EXCEPT !.events = kept]
  <2>3. rest[1] \in Batch /\ rest[1] = stored[k + 1]
    BY <1>2, <2>2
  <2>4. kept \in SUBSET Nat
    BY <1>3, <2>3 DEF Batch
  <2>5. /\ batch \in Batch /\ batch.events = kept
        /\ batch.uploadedScopes = stored[k + 1].uploadedScopes
    BY <2>3, <2>4 DEF Batch
  <2>6. left = [rest EXCEPT ![1] = batch]
    BY <1>2, <2>1, <2>2
  <2> HIDE DEF batch
  <2>7. /\ left \in Seq(Batch) /\ Len(left) = n - k
        /\ \A i \in 1..(n - k) : left[i] = IF i = 1 THEN batch ELSE rest[i]
    BY <1>2, <2>2, <2>5, <2>6
  <2>8. ASSUME NEW i \in 1..(n - k)
        PROVE  /\ k + i \in 1..n
               /\ left[i].events = IF i = 1 THEN kept ELSE stored[k + i].events
               /\ left[i].uploadedScopes = stored[k + i].uploadedScopes
    <3>1. CASE i = 1
      BY <1>2, <2>5, <2>7, <3>1
    <3>2. CASE i # 1
      BY <1>2, <2>7, <3>2
    <3> QED  BY <3>1, <3>2
  <2> QED  BY <1>3, <1>5, <2>7, <2>8 DEF kept, n
<1> QED  BY <1>4, <1>5

\* The events that are kept of a batch are its latest recent ones, and there
\* is room for them.
LEMMA KeptSize ==
  ASSUME log \in Seq(Event), NEW stored, Chain(stored), NEW k \in Nat,
         k < Len(stored), NEW rest, rest = EventsFrom(k + 2, stored),
         NEW kept, kept = KeptOf(k, stored)
  PROVE  /\ kept \in SUBSET RecentOf(k, stored)
         /\ RecentOf(k, stored) \in SUBSET stored[k + 1].events
         /\ IsFiniteSet(RecentOf(k, stored)) /\ IsFiniteSet(kept)
         /\ Cardinality(rest) \in Nat /\ Cardinality(kept) \in Nat
         /\ Cardinality(RecentOf(k, stored)) \in Nat
         /\ Cardinality(kept \cup rest) = Cardinality(kept) + Cardinality(rest)
         /\ kept # {} => /\ Cardinality(kept) > 0
                         /\ Cardinality(kept \cup rest) <= MAX_EVENTS
         /\ kept # {} /\ Cardinality(kept \cup rest) < MAX_EVENTS
              => kept = RecentOf(k, stored)
         /\ kept = {} /\ RecentOf(k, stored) # {} => Cardinality(rest) >= MAX_EVENTS
         /\ \A e \in kept, d \in RecentOf(k, stored) \ kept : d < e
<1> DEFINE recent == RecentOf(k, stored)
           room == MAX_EVENTS - Cardinality(rest)
<1>1. /\ stored[k + 1].events \in SUBSET DOMAIN log
      /\ rest \in SUBSET DOMAIN log
      /\ \A d \in stored[k + 1].events, e \in rest : d < e
  BY EventsSplit
<1>2. recent \in SUBSET stored[k + 1].events
  BY DEF RecentOf
<1> HIDE DEF recent
<1>3. /\ recent \in SUBSET Nat /\ IsFiniteSet(recent) /\ Cardinality(recent) \in Nat
      /\ rest \in SUBSET Nat /\ IsFiniteSet(rest) /\ Cardinality(rest) \in Nat
  BY <1>1, <1>2, LogFinite
<1>4. MAX_EVENTS \in Nat \ {0} /\ room \in Int
  BY <1>3, ExtAssumption
<1>5. kept = LastOf(room, recent)
  <2>1. (k + 1) + 1 = k + 2
    OBVIOUS
  <2>2. CountAfter(k + 1, stored) = Cardinality(rest)
    BY <2>1 DEF CountAfter
  <2> QED  BY <2>2 DEF KeptOf, recent
<1> HIDE DEF room
<1>6. /\ kept \in SUBSET recent
      /\ IsFiniteSet(kept)
      /\ room <= 0 => kept = {}
      /\ room >= 0 => Cardinality(kept) = IF room <= Cardinality(recent) THEN room
                                          ELSE Cardinality(recent)
      /\ \A e \in kept, d \in recent \ kept : d < e
  BY <1>3, <1>4, <1>5, LastOfIsTop
<1>7. kept \cap rest = {}
  <2> SUFFICES ASSUME NEW e \in kept, e \in rest  PROVE FALSE
    OBVIOUS
  <2>1. e < e /\ e \in Nat
    BY <1>1, <1>2, <1>3, <1>6
  <2> QED  BY <2>1
<1>8. Cardinality(kept) \in Nat
  BY <1>6, FS_CardinalityType
<1>9. Cardinality(kept \cup rest) = Cardinality(kept) + Cardinality(rest)
  <2>1. Cardinality(kept \cup rest)
          = Cardinality(kept) + Cardinality(rest) - Cardinality(kept \cap rest)
    BY <1>3, <1>6, FS_Union
  <2>2. Cardinality(kept \cap rest) = 0
    BY <1>7, FS_EmptySet
  <2> QED  BY <1>3, <1>8, <2>1, <2>2
<1>10. kept # {} => Cardinality(kept) > 0
  BY <1>6, <1>8, FS_EmptySet
<1>11. ASSUME kept # {}
       PROVE  /\ Cardinality(kept \cup rest) <= MAX_EVENTS
              /\ Cardinality(kept \cup rest) < MAX_EVENTS => kept = recent
  <2>1. room > 0
    BY <1>4, <1>6, <1>11
  <2>2. Cardinality(kept) = IF room <= Cardinality(recent) THEN room
                            ELSE Cardinality(recent)
    BY <1>4, <1>6, <2>1
  <2>3. Cardinality(kept) <= room
    BY <1>3, <1>4, <2>2
  <2>4. Cardinality(kept \cup rest) <= MAX_EVENTS
    BY <1>3, <1>4, <1>8, <1>9, <2>3 DEF room
  <2>5. ASSUME Cardinality(kept \cup rest) < MAX_EVENTS  PROVE kept = recent
    <3>1. Cardinality(kept) < room
      BY <1>3, <1>4, <1>8, <1>9, <2>5 DEF room
    <3>2. Cardinality(kept) = Cardinality(recent)
      BY <1>3, <1>4, <2>2, <3>1
    <3> QED  BY <1>3, <1>6, <3>2, FS_Subset
  <2> QED  BY <2>4, <2>5
<1>12. ASSUME kept = {}, recent # {}
       PROVE  Cardinality(rest) >= MAX_EVENTS
  <2>1. Cardinality(kept) = 0 /\ Cardinality(recent) # 0
    BY <1>3, <1>12, FS_EmptySet
  <2>2. ~(room > 0)
    BY <1>3, <1>4, <1>6, <2>1
  <2> QED  BY <1>3, <1>4, <2>2 DEF room
<1> QED  BY <1>2, <1>3, <1>6, <1>8, <1>9, <1>10, <1>11, <1>12 DEF recent

\* The events that are left.
LEMMA LeftEvents ==
  ASSUME log \in Seq(Event), NEW stored, Chain(stored), NEW k, NEW left,
         PrunedTo(k, stored, left)
  PROVE  Events(left) = IF GoesOn(k, stored)
                        THEN KeptOf(k, stored) \cup EventsFrom(k + 2, stored)
                        ELSE EventsFrom(k + 1, stored)
<1> DEFINE n == Len(stored)
           kept == KeptOf(k, stored)
<1>1. n \in Nat /\ k \in 0..n
  BY DEF Chain, PrunedTo
<1>2. /\ Len(left) = n - k
      /\ \A i \in 1..(n - k) : left[i].events = IF GoesOn(k, stored) /\ i = 1
                                                THEN kept
                                                ELSE stored[k + i].events
  BY LeftBatches
<1>3. ASSUME NEW e
      PROVE  e \in Events(left) <=> \E i \in 1..(n - k) : e \in left[i].events
  BY <1>2 DEF Events, EventsFrom
<1>4. ASSUME NEW e, NEW b \in {1, 2}
      PROVE  e \in EventsFrom(k + b, stored)
               <=> \E i \in b..(n - k) : e \in stored[k + i].events
  <2>1. \A j \in (k + b)..n : j - k \in b..(n - k) /\ k + (j - k) = j
    BY <1>1
  <2>2. \A i \in b..(n - k) : k + i \in (k + b)..n
    BY <1>1
  <2>3. e \in EventsFrom(k + b, stored)
          <=> \E j \in (k + b)..n : e \in stored[j].events
    BY DEF EventsFrom
  <2> QED  BY <2>1, <2>2, <2>3
<1> HIDE DEF n, kept
<1>5. CASE ~GoesOn(k, stored)
  <2>1. ASSUME NEW e  PROVE e \in Events(left) <=> e \in EventsFrom(k + 1, stored)
    BY <1>2, <1>3, <1>4, <1>5
  <2> QED  BY <1>5, <2>1
<1>6. CASE GoesOn(k, stored)
  <2>1. k < n
    BY <1>6 DEF GoesOn, n
  <2>2. 1 \in 1..(n - k) /\ left[1].events = kept
    BY <1>1, <1>2, <1>6, <2>1
  <2>3. \A i \in 1..(n - k) : i = 1 \/ i \in 2..(n - k)
    BY <1>1
  <2>4. \A i \in 2..(n - k) : i \in 1..(n - k) /\ left[i].events = stored[k + i].events
    BY <1>1, <1>2
  <2>5. ASSUME NEW e
        PROVE  e \in Events(left) <=> e \in kept \cup EventsFrom(k + 2, stored)
    <3>1. e \in EventsFrom(k + 2, stored)
            <=> \E i \in 2..(n - k) : e \in left[i].events
      BY <1>4, <2>4
    <3> QED  BY <1>3, <2>2, <2>3, <2>4, <3>1
  <2> QED  BY <1>6, <2>5 DEF kept
<1> QED  BY <1>5, <1>6

\* Pruning leaves a history in order and within its limit, of batches that
\* keep their marks.
LEMMA FifoChain ==
  ASSUME log \in Seq(Event), NEW stored, Chain(stored), NEW k, NEW left,
         PrunedTo(k, stored, left)
  PROVE  /\ Chain(left) /\ Fits(left)
         /\ \A i \in 1..Len(left) :
              \E j \in 1..Len(stored) :
                /\ left[i].events \subseteq stored[j].events
                /\ left[i].uploadedScopes = stored[j].uploadedScopes
<1> DEFINE n == Len(stored)
           kept == KeptOf(k, stored)
<1>1. n \in Nat /\ k \in 0..n /\ k \in Nat
  BY DEF Chain, PrunedTo
<1>2. /\ left \in Seq(Batch) /\ Len(left) = n - k
      /\ kept \subseteq stored[k + 1].events
      /\ \A i \in 1..(n - k) :
           /\ k + i \in 1..n
           /\ left[i].events = IF GoesOn(k, stored) /\ i = 1 THEN kept
                               ELSE stored[k + i].events
           /\ left[i].uploadedScopes = stored[k + i].uploadedScopes
  BY LeftBatches
<1>3. \A i \in 1..n : /\ stored[i].events \subseteq DOMAIN log
                      /\ Cardinality(stored[i].events) \in 1..EVENTS_PER_BATCH
  BY DEF Chain
<1>4. \A i, j \in 1..n :
        i < j => \A d \in stored[i].events, e \in stored[j].events : d < e
  BY DEF Chain
<1>5. GoesOn(k, stored) => k < n /\ kept # {}
  BY DEF GoesOn, PrunedTo
<1> HIDE DEF n, kept
<1>6. \A i \in 1..(n - k) : left[i].events \subseteq stored[k + i].events
  BY <1>2
<1>7. ASSUME NEW i \in 1..(n - k)
      PROVE  /\ left[i].events \subseteq DOMAIN log
             /\ Cardinality(left[i].events) \in 1..EVENTS_PER_BATCH
  <2>1. k + i \in 1..n /\ left[i].events \subseteq stored[k + i].events
    BY <1>2, <1>6
  <2>2. stored[k + i].events \in SUBSET DOMAIN log
    BY <1>3, <2>1
  <2>3. CASE GoesOn(k, stored) /\ i = 1
    <3>1. left[i].events = kept /\ k < n /\ kept # {}
      BY <1>2, <1>5, <2>3
    <3>2. Cardinality(kept) \in Nat /\ Cardinality(kept) > 0
      <4> DEFINE rest == EventsFrom(k + 2, stored)
      <4>1. k \in Nat /\ k < Len(stored)
        BY <1>1, <3>1 DEF n
      <4>2. /\ Cardinality(rest) \in Nat /\ Cardinality(kept) \in Nat
            /\ Cardinality(kept \cup rest) = Cardinality(kept) + Cardinality(rest)
            /\ kept # {} => /\ Cardinality(kept) > 0
                            /\ Cardinality(kept \cup rest) <= MAX_EVENTS
        BY <4>1, KeptSize DEF kept
      <4> QED  BY <3>1, <4>2
    <3>3. IsFiniteSet(stored[k + i].events)
      BY <2>2, LogFinite
    <3>4. Cardinality(left[i].events) <= Cardinality(stored[k + i].events)
      BY <2>1, <3>3, FS_Subset
    <3>5. Cardinality(stored[k + i].events) \in 1..EVENTS_PER_BATCH
      BY <1>3, <2>1
    <3>6. EVENTS_PER_BATCH \in Nat
      BY ExtAssumption
    <3>7. Cardinality(left[i].events) \in Nat /\ Cardinality(left[i].events) > 0
      BY <3>1, <3>2
    <3>8. Cardinality(left[i].events) \in 1..EVENTS_PER_BATCH
      BY <3>4, <3>5, <3>6, <3>7
    <3> QED  BY <2>1, <2>2, <3>8
  <2>4. CASE ~(GoesOn(k, stored) /\ i = 1)
    <3>1. left[i].events = stored[k + i].events
      BY <1>2, <2>4
    <3> QED  BY <1>3, <2>1, <3>1
  <2> QED  BY <2>3, <2>4
<1>8. ASSUME NEW i \in 1..(n - k), NEW j \in 1..(n - k), i < j,
             NEW d \in left[i].events, NEW e \in left[j].events
      PROVE  d < e
  <2>1. k + i \in 1..n /\ k + j \in 1..n /\ k + i < k + j
    BY <1>1, <1>2, <1>8
  <2>2. d \in stored[k + i].events /\ e \in stored[k + j].events
    BY <1>6
  <2> QED  BY <1>4, <2>1, <2>2
<1>9. Chain(left)
  BY <1>2, <1>7, <1>8 DEF Chain
<1>10. Fits(left)
  <2>1. MAX_EVENTS \in Nat
    BY ExtAssumption
  <2>2. CASE GoesOn(k, stored)
    <3>1. k < n /\ kept # {}
      BY <1>5, <2>2
    <3>2. Cardinality(kept \cup EventsFrom(k + 2, stored)) <= MAX_EVENTS
      BY <1>1, <3>1, KeptSize DEF n, kept
    <3>3. Events(left) = kept \cup EventsFrom(k + 2, stored)
      BY <2>2, LeftEvents DEF kept
    <3> QED  BY <3>2, <3>3 DEF Fits
  <2>3. CASE ~GoesOn(k, stored)
    <3>1. Events(left) = EventsFrom(k + 1, stored)
      BY <2>3, LeftEvents
    <3>2. EventsFrom(k + 1, stored) \in SUBSET DOMAIN log
      BY <1>1, ChainEvents
    <3>3. Cardinality(EventsFrom(k + 1, stored)) \in Nat
      BY <3>2, LogFinite
    <3>4. CASE k < n
      BY <2>1, <2>3, <3>1, <3>3, <3>4 DEF GoesOn, CountAfter, Fits, n
    <3>5. CASE ~(k < n)
      <4>1. (k + 1)..n = {}
        BY <1>1, <3>5
      <4>2. EventsFrom(k + 1, stored) = {}
        BY <4>1 DEF EventsFrom, n
      <4> QED  BY <2>1, <3>1, <4>2, FS_EmptySet DEF Fits
    <3> QED  BY <3>4, <3>5
  <2> QED  BY <2>2, <2>3
<1> QED  BY <1>2, <1>6, <1>9, <1>10 DEF n

\* An event that pruning removes is before those that are left, and it is too
\* old or there are as many as the limit.
LEMMA FifoLoss ==
  ASSUME Clock, NEW stored, Chain(stored), NEW k, NEW left,
         PrunedTo(k, stored, left), NEW e \in Events(stored), e \notin Events(left)
  PROVE  /\ \A d \in Events(left) : e < d
         /\ log[e].at < now - Retention \/ Cardinality(Events(left)) = MAX_EVENTS
<1> DEFINE n == Len(stored)
           kept == KeptOf(k, stored)
           rest == EventsFrom(k + 2, stored)
<1>1. n \in Nat /\ k \in 0..n /\ k \in Nat /\ log \in Seq(Event)
  BY DEF Chain, PrunedTo, Clock
<1>2. MAX_EVENTS \in Nat \ {0} /\ now - Retention \in Int
  BY ExtAssumption, TableAssumption DEF Clock
<1>3. \A d \in DOMAIN log : d \in Nat /\ log[d].at \in Int
  <2>1. \A d \in DOMAIN log : d \in Nat /\ log[d] \in Event
    BY <1>1
  <2> QED  BY <2>1 DEF Event
<1>4. PICK b \in 1..n : e \in stored[b].events
  BY DEF Events, EventsFrom
<1>5. \A i \in 1..n : stored[i].events \in SUBSET DOMAIN log
  BY DEF Chain
<1>6. \A i, j \in 1..n :
        i < j => \A d \in stored[i].events, f \in stored[j].events : d < f
  BY DEF Chain
<1>7. Events(left) = IF GoesOn(k, stored) THEN kept \cup rest
                     ELSE EventsFrom(k + 1, stored)
  BY <1>1, LeftEvents
<1>8. ASSUME NEW c \in {1, 2}, NEW d
      PROVE  d \in EventsFrom(k + c, stored)
               <=> \E i \in 1..n : k + c <= i /\ d \in stored[i].events
  BY <1>1 DEF EventsFrom
<1>9. GoesOn(k, stored) => k < n /\ kept # {}
  BY DEF GoesOn, PrunedTo
<1>10. ASSUME k < n
       PROVE  /\ kept \in SUBSET RecentOf(k, stored)
              /\ RecentOf(k, stored) \in SUBSET stored[k + 1].events
              /\ kept # {} => Cardinality(kept \cup rest) <= MAX_EVENTS
              /\ kept # {} /\ Cardinality(kept \cup rest) < MAX_EVENTS
                   => kept = RecentOf(k, stored)
              /\ \A f \in kept, d \in RecentOf(k, stored) \ kept : d < f
  BY <1>1, <1>10, KeptSize
<1> HIDE DEF n, kept, rest
\* The event is in a batch that is gone, or in the one of which some are kept.
<1>11. b <= k \/ (GoesOn(k, stored) /\ b = k + 1 /\ e \notin kept)
  <2>1. CASE ~GoesOn(k, stored)
    <3>1. e \notin EventsFrom(k + 1, stored)
      BY <1>7, <2>1
    <3>2. ~(k + 1 <= b)
      BY <1>4, <1>8, <3>1
    <3> QED  BY <1>1, <3>2
  <2>2. CASE GoesOn(k, stored)
    <3>1. e \notin kept /\ e \notin EventsFrom(k + 2, stored)
      BY <1>7, <2>2 DEF rest
    <3>2. ~(k + 2 <= b)
      BY <1>4, <1>8, <3>1
    <3> QED  BY <1>1, <2>2, <3>1, <3>2
  <2> QED  BY <2>1, <2>2
\* Every event that is recent makes the later ones recent.
<1>12. ASSUME IsRecent(e), NEW d \in DOMAIN log, e < d  PROVE IsRecent(d)
  <2>1. e \in DOMAIN log
    BY <1>4, <1>5
  <2>2. log[e].at <= log[d].at
    BY <1>12, <2>1 DEF Clock
  <2> QED  BY <1>2, <1>3, <1>12, <2>1, <2>2 DEF IsRecent
<1>13. ASSUME NEW d \in Events(left)  PROVE e < d
  <2>1. CASE b <= k
    <3>1. PICK i \in 1..n : k + 1 <= i /\ d \in stored[i].events
      <4>1. CASE GoesOn(k, stored)
        <5>1. k < n /\ k + 1 \in 1..n /\ d \in kept \cup rest
          BY <1>1, <1>7, <1>9, <4>1
        <5>2. CASE d \in kept
          <6>1. d \in stored[k + 1].events
            BY <1>10, <5>1, <5>2
          <6> QED  BY <1>1, <5>1, <6>1
        <5>3. CASE d \in rest
          <6>1. PICK i \in 1..n : k + 2 <= i /\ d \in stored[i].events
            BY <1>8, <5>3 DEF rest
          <6> QED  BY <1>1, <6>1
        <5> QED  BY <5>1, <5>2, <5>3
      <4>2. CASE ~GoesOn(k, stored)
        <5>1. d \in EventsFrom(k + 1, stored)
          BY <1>7, <4>2
        <5> QED  BY <1>8, <5>1
      <4> QED  BY <4>1, <4>2
    <3>2. b < i
      BY <1>1, <2>1, <3>1
    <3> QED  BY <1>4, <1>6, <3>1, <3>2
  <2>2. CASE GoesOn(k, stored) /\ b = k + 1 /\ e \notin kept
    <3>1. k < n /\ k + 1 \in 1..n /\ d \in kept \cup rest
      BY <1>1, <1>7, <1>9, <2>2
    <3>2. CASE d \in kept
      <4>1. d \in RecentOf(k, stored) /\ e \in stored[k + 1].events
        BY <1>4, <1>10, <2>2, <3>1, <3>2
      <4>2. IsRecent(d) /\ d \in stored[k + 1].events
        BY <4>1 DEF RecentOf
      <4>3. CASE IsRecent(e)
        <5>1. e \in RecentOf(k, stored) \ kept
          BY <2>2, <4>1, <4>3 DEF RecentOf
        <5> QED  BY <1>10, <3>1, <3>2, <5>1
      <4>4. CASE ~IsRecent(e)
        <5>1. d \in DOMAIN log /\ e \in DOMAIN log /\ d \in Nat /\ e \in Nat
          BY <1>3, <1>5, <3>1, <4>1, <4>2
        <5>2. ~(d < e)
          <6> SUFFICES ASSUME d < e  PROVE FALSE
            OBVIOUS
          <6>1. log[d].at <= log[e].at
            BY <5>1 DEF Clock
          <6>2. IsRecent(e)
            BY <1>2, <1>3, <4>2, <5>1, <6>1 DEF IsRecent
          <6> QED  BY <4>4, <6>2
        <5>3. d # e
          BY <4>2, <4>4
        <5> QED  BY <5>1, <5>2, <5>3
      <4> QED  BY <4>3, <4>4
    <3>3. CASE d \in rest
      <4>1. PICK i \in 1..n : k + 2 <= i /\ d \in stored[i].events
        BY <1>8, <3>3 DEF rest
      <4>2. b < i
        BY <1>1, <2>2, <4>1
      <4> QED  BY <1>4, <1>6, <4>1, <4>2
    <3> QED  BY <3>1, <3>2, <3>3
  <2> QED  BY <1>11, <2>1, <2>2
<1>14. ASSUME IsRecent(e)  PROVE Cardinality(Events(left)) = MAX_EVENTS
  <2>1. Cardinality(Events(left)) \in Nat
    <3>1. Chain(left)
      BY <1>1, FifoChain
    <3>2. Events(left) \in SUBSET DOMAIN log
      BY <1>1, <3>1, ChainEvents DEF Events
    <3> QED  BY <1>1, <3>2, LogFinite
  <2>2. Cardinality(Events(left)) <= MAX_EVENTS
    BY <1>1, FifoChain DEF Fits
  \* When whole batches are gone, the last of them has recent events, and the
  \* others had as many as the limit.
  <2>3. ASSUME b <= k
        PROVE  /\ Cardinality(EventsFrom(k + 1, stored)) >= MAX_EVENTS
               /\ k < n => RecentOf(k, stored) = stored[k + 1].events
    <3> DEFINE j == k - 1
    <3>1. j \in Nat /\ j < n /\ j + 1 = k /\ j + 2 = k + 1 /\ k \in 1..n
      BY <1>1, <2>3
    <3>2. KeptOf(j, stored) = {}
      BY <1>1, <3>1 DEF PrunedTo
    <3> HIDE DEF j
    <3>3. Cardinality(stored[k].events) \in 1..EVENTS_PER_BATCH
      BY <3>1 DEF Chain, n
    <3>4. stored[k].events # {}
      BY <3>3, FS_EmptySet
    <3>5. PICK d \in stored[k].events : d = e \/ (b < k /\ e < d)
      <4>1. CASE b = k
        BY <1>4, <4>1
      <4>2. CASE b < k
        BY <1>4, <1>6, <3>1, <3>4, <4>2
      <4> QED  BY <1>1, <2>3, <4>1, <4>2
    <3>6. IsRecent(d)
      BY <1>5, <1>12, <1>14, <3>1, <3>5
    <3>7. RecentOf(j, stored) # {}
      BY <3>1, <3>5, <3>6 DEF RecentOf
    <3>8. Cardinality(EventsFrom(j + 2, stored)) >= MAX_EVENTS
      BY <1>1, <3>1, <3>2, <3>7, KeptSize DEF n
    <3>9. ASSUME k < n  PROVE RecentOf(k, stored) = stored[k + 1].events
      <4>1. k + 1 \in 1..n /\ b < k + 1
        BY <1>1, <2>3, <3>9
      <4>2. \A f \in stored[k + 1].events : f \in DOMAIN log /\ e < f
        BY <1>4, <1>5, <1>6, <4>1
      <4>3. \A f \in stored[k + 1].events : IsRecent(f)
        BY <1>12, <1>14, <4>2
      <4> QED  BY <4>3 DEF RecentOf
    <3> QED  BY <3>1, <3>8, <3>9
  <2>4. CASE ~GoesOn(k, stored)
    <3>1. b <= k /\ Events(left) = EventsFrom(k + 1, stored)
      BY <1>7, <1>11, <2>4
    <3>2. Cardinality(Events(left)) >= MAX_EVENTS
      BY <2>3, <3>1
    <3> QED  BY <1>2, <2>1, <2>2, <3>2
  <2>5. CASE GoesOn(k, stored)
    <3>1. k < n /\ kept # {} /\ Events(left) = kept \cup rest
      BY <1>7, <1>9, <2>5
    <3> SUFFICES ASSUME Cardinality(Events(left)) < MAX_EVENTS  PROVE FALSE
      BY <1>2, <2>1, <2>2
    <3>2. kept = RecentOf(k, stored)
      BY <1>10, <3>1
    <3>3. CASE b <= k
      <4>1. Events(left) = stored[k + 1].events \cup rest
        BY <2>3, <3>1, <3>2, <3>3
      <4>2. Events(left) = EventsFrom(k + 1, stored)
        BY <1>1, <3>1, <4>1, EventsSplit DEF n, rest
      <4> QED  BY <1>2, <2>1, <2>3, <3>3, <4>2
    <3>4. CASE b = k + 1 /\ e \notin kept
      <4>1. e \in RecentOf(k, stored)
        BY <1>4, <1>14, <3>4 DEF RecentOf
      <4> QED  BY <3>2, <3>4, <4>1
    <3> QED  BY <1>11, <3>3, <3>4
  <2> QED  BY <2>4, <2>5
<1>15. ~IsRecent(e) => log[e].at < now - Retention
  <2>1. e \in DOMAIN log
    BY <1>4, <1>5
  <2> QED  BY <1>2, <1>3, <2>1 DEF IsRecent
<1> QED  BY <1>13, <1>14, <1>15

----------------------------------------------------------------------------
(* Copies of the history, and what pages are about to do with them.        *)

\* A copy is in order and within its limits, and its marks are honest: rec are
\* the events that were received or came late.
Good(stored, events, rec) ==
    /\ stored \in Seq(Batch)
    /\ \A i \in 1..Len(stored) :
         /\ stored[i].events \subseteq DOMAIN events
         /\ Cardinality(stored[i].events) \in 1..EVENTS_PER_BATCH
         /\ \A e \in stored[i].events :
              events[e].scope \in stored[i].uploadedScopes => e \in rec
    /\ \A i, j \in 1..Len(stored) :
         i < j => \A d \in stored[i].events, e \in stored[j].events : d < e
    /\ Fits(stored)

\* The event to append is later than those of the copy.
GoodWriter(w, events, rec) ==
    /\ w \in Writer /\ Good(w.stored, events, rec)
    /\ w.event \in 0..Len(events) /\ (w.pc = "write" => w.event # 0)
    /\ \A e \in Events(w.stored) : e < w.event

\* An event of a selected batch and of a scope that is not marked is still to
\* be posted, or the broker has it; it does when the scope is completed.
Sent(u, events, rcv) ==
    \A i \in Selected(u.stored) :
      \A e \in u.stored[i].events :
        events[e].scope \in Scope \ u.stored[i].uploadedScopes =>
          /\ e \in u.todo \cup rcv
          /\ events[e].scope \in u.completed => e \in rcv

GoodUpload(u, events, rec, rcv) ==
    /\ u \in Uploader /\ Good(u.stored, events, rec)
    /\ u.todo \subseteq DOMAIN events
    /\ Sent(u, events, rcv)

HistoryInv ==
    /\ Good(batches, log, received \cup late)
    /\ backoff \in BOOLEAN
    /\ DOMAIN logger = Logger
    /\ \A l \in Logger : GoodWriter(logger[l], log, received \cup late)
    /\ logger \in [Logger -> Writer]
    /\ GoodUpload(upload, log, received \cup late, received)
    /\ received \cup late \subseteq DOMAIN log
    /\ inputs \in 0..MaxInputs

DiagInv == TableInv /\ Clock /\ HistoryInv

\* A good copy is a history in order, within its limit, with honest marks.
LEMMA GoodIsChain ==
  ASSUME NEW stored, NEW rec
  PROVE  Good(stored, log, rec)
           <=> /\ Chain(stored) /\ Fits(stored)
               /\ \A i \in 1..Len(stored) : \A e \in stored[i].events :
                    log[e].scope \in stored[i].uploadedScopes => e \in rec
<1>1. Good(stored, log, rec)
        => /\ Chain(stored) /\ Fits(stored)
           /\ \A i \in 1..Len(stored) : \A e \in stored[i].events :
                log[e].scope \in stored[i].uploadedScopes => e \in rec
  BY DEF Good, Chain
<1>2. /\ Chain(stored) /\ Fits(stored)
      /\ \A i \in 1..Len(stored) : \A e \in stored[i].events :
           log[e].scope \in stored[i].uploadedScopes => e \in rec
      => Good(stored, log, rec)
  BY DEF Good, Chain
<1> QED  BY <1>1, <1>2

\* The log and what was received only grow, which disturbs no copy.
Grows(events, rec, events2, rec2) ==
    /\ events \in Seq(Event) /\ events2 \in Seq(Event)
    /\ Len(events) <= Len(events2)
    /\ \A e \in DOMAIN events : e \in DOMAIN events2 /\ events2[e] = events[e]
    /\ rec \subseteq rec2

\* A copy of the history stays good,
LEMMA GoodGrows ==
  ASSUME NEW events, NEW rec, NEW events2, NEW rec2,
         Grows(events, rec, events2, rec2), NEW stored, Good(stored, events, rec)
  PROVE  Good(stored, events2, rec2)
<1>1. \A i \in 1..Len(stored) :
        /\ stored[i].events \subseteq DOMAIN events2
        /\ \A e \in stored[i].events :
             events2[e].scope \in stored[i].uploadedScopes => e \in rec2
  BY DEF Good, Grows
<1> QED  BY <1>1 DEF Good

\* and so does the copy of a page that logs,
LEMMA WriterGrows ==
  ASSUME NEW events, NEW rec, NEW events2, NEW rec2,
         Grows(events, rec, events2, rec2), NEW w, GoodWriter(w, events, rec)
  PROVE  GoodWriter(w, events2, rec2)
<1>1. Good(w.stored, events2, rec2)
  BY GoodGrows DEF GoodWriter
<1>2. w.event \in 0..Len(events2)
  BY DEF GoodWriter, Grows
<1> QED  BY <1>1, <1>2 DEF GoodWriter

\* and that of an upload.
LEMMA UploadGrows ==
  ASSUME NEW events, NEW rec, NEW events2, NEW rec2, NEW rcv, NEW rcv2,
         Grows(events, rec, events2, rec2), rcv \subseteq rcv2,
         NEW u, GoodUpload(u, events, rec, rcv)
  PROVE  GoodUpload(u, events2, rec2, rcv2)
<1>1. Good(u.stored, events2, rec2)
  BY GoodGrows DEF GoodUpload
<1>2. u.todo \subseteq DOMAIN events2
  BY DEF GoodUpload, Grows
<1>3. Selected(u.stored) \subseteq 1..Len(u.stored)
  BY DEF Selected, PendingOf, GoodUpload, Good
<1>4. \A i \in Selected(u.stored) : \A e \in u.stored[i].events :
        events2[e] = events[e]
  BY <1>3 DEF GoodUpload, Good, Grows
<1>5. Sent(u, events2, rcv2)
  BY <1>4 DEF GoodUpload, Sent
<1> QED  BY <1>1, <1>2, <1>5 DEF GoodUpload

\* An empty history is good, and pages that do nothing.
LEMMA EmptyIsGood ==
  ASSUME NEW events \in Seq(Event), NEW rec
  PROVE  /\ Good(<<>>, events, rec)
         /\ GoodWriter(Quiet, events, rec)
         /\ \A rcv : GoodUpload(NoUpload, events, rec, rcv)
<1>1. Events(<<>>) = {}
  BY DEF Events, EventsFrom
<1>2. Fits(<<>>)
  <2>1. \A S : S = {} => Cardinality(S) = 0
    BY FS_EmptySet
  <2>2. Cardinality(Events(<<>>)) = 0
    BY <1>1, <2>1
  <2>3. MAX_EVENTS \in Nat
    BY ExtAssumption
  <2> QED  BY <2>2, <2>3 DEF Fits
<1>3. Good(<<>>, events, rec)
  BY <1>2 DEF Good
<1>4. GoodWriter(Quiet, events, rec)
  <2>1. Quiet \in Writer /\ Quiet.stored = <<>> /\ Quiet.event = 0 /\ Quiet.pc = "idle"
    BY DEF Quiet, Writer
  <2>2. Len(events) \in Nat
    OBVIOUS
  <2> QED  BY <1>1, <1>3, <2>1, <2>2 DEF GoodWriter
<1>5. Selected(<<>>) = {}
  BY DEF Selected, PendingOf
<1>6. NoUpload \in Uploader /\ NoUpload.stored = <<>> /\ NoUpload.todo = {}
  BY DEF NoUpload, Uploader
<1>7. \A rcv : Sent(NoUpload, events, rcv)
  BY <1>5, <1>6 DEF Sent
<1> QED  BY <1>3, <1>4, <1>6, <1>7 DEF GoodUpload

\* WriteBatches writes back a copy that is good again.
LEMMA WriteIsGood ==
  ASSUME Clock, NEW stored, NEW rec, Good(stored, log, rec), NEW e \in DOMAIN log,
         \A d \in Events(stored) : d < e, NEW rec2, rec \subseteq rec2,
         HasRoom(stored) /\ log[e].scope \in stored[Len(stored)].uploadedScopes
           => e \in rec2
  PROVE  Good(FifoPruned(Appended(stored, e)), log, rec2)
<1> DEFINE grown == Appended(stored, e)
           left == FifoPruned(grown)
<1>1. log \in Seq(Event)
  BY DEF Clock
<1>2. /\ Chain(stored)
      /\ \A i \in 1..Len(stored) : \A d \in stored[i].events :
           log[d].scope \in stored[i].uploadedScopes => d \in rec
  BY GoodIsChain
<1>3. /\ Chain(grown)
      /\ \A i \in 1..Len(grown) : \A d \in grown[i].events :
           \/ /\ i \in 1..Len(stored) /\ d \in stored[i].events
              /\ grown[i].uploadedScopes = stored[i].uploadedScopes
           \/ /\ d = e
              /\ grown[i].uploadedScopes
                   = IF HasRoom(stored) THEN stored[Len(stored)].uploadedScopes
                     ELSE {}
  BY <1>1, <1>2, AppendedChain
<1> HIDE DEF grown
<1>4. PICK k : PrunedTo(k, grown, left)
  BY <1>3, LoopEnds
<1> HIDE DEF left
<1>5. /\ Chain(left) /\ Fits(left)
      /\ \A i \in 1..Len(left) :
           \E j \in 1..Len(grown) :
             /\ left[i].events \subseteq grown[j].events
             /\ left[i].uploadedScopes = grown[j].uploadedScopes
  BY <1>1, <1>3, <1>4, FifoChain
<1>6. ASSUME NEW i \in 1..Len(grown), NEW d \in grown[i].events,
             log[d].scope \in grown[i].uploadedScopes
      PROVE  d \in rec2
  <2>1. CASE /\ i \in 1..Len(stored) /\ d \in stored[i].events
             /\ grown[i].uploadedScopes = stored[i].uploadedScopes
    BY <1>2, <1>6, <2>1
  <2>2. CASE /\ d = e
             /\ grown[i].uploadedScopes
                  = IF HasRoom(stored) THEN stored[Len(stored)].uploadedScopes
                    ELSE {}
    BY <1>6, <2>2
  <2> QED  BY <1>3, <2>1, <2>2
<1>7. \A i \in 1..Len(left) : \A d \in left[i].events :
        log[d].scope \in left[i].uploadedScopes => d \in rec2
  BY <1>5, <1>6
<1>8. Good(left, log, rec2)
  BY <1>5, <1>7, GoodIsChain
<1> QED  BY <1>8 DEF left, grown

\* An upload begins with everything that it selects to be posted.
LEMMA StartIsGood ==
  ASSUME log \in Seq(Event), NEW stored, NEW rec, NEW rcv, Good(stored, log, rec)
  PROVE  GoodUpload([pc |-> "post", stored |-> stored,
                     todo |-> Grouped(stored), completed |-> {}], log, rec, rcv)
<1> DEFINE u == [pc |-> "post", stored |-> stored,
                 todo |-> Grouped(stored), completed |-> {}]
<1>1. stored \in Seq(Batch) /\ DOMAIN stored = 1..Len(stored)
  BY DEF Good
<1>2. Selected(stored) \subseteq 1..Len(stored)
  BY <1>1 DEF Selected, PendingOf
<1>3. \A i \in 1..Len(stored) : stored[i].events \subseteq DOMAIN log
  BY DEF Good
<1>4. Grouped(stored) \subseteq DOMAIN log
  BY <1>2, <1>3 DEF Grouped
<1>5. Grouped(stored) \subseteq Nat
  BY <1>4
<1>6. \A i \in Selected(stored) : \A e \in stored[i].events :
        log[e].scope \in Scope \ stored[i].uploadedScopes => e \in Grouped(stored)
  BY DEF Grouped
<1> HIDE DEF Grouped
<1>7. /\ u \in Uploader /\ u.stored = stored /\ u.todo = Grouped(stored)
      /\ u.completed = {}
  BY <1>1, <1>5 DEF Uploader
<1> HIDE DEF u
<1>8. Sent(u, log, rcv)
  BY <1>6, <1>7 DEF Sent
<1>9. GoodUpload(u, log, rec, rcv)
  BY <1>4, <1>7, <1>8 DEF GoodUpload
<1> QED  BY <1>9 DEF u

\* The broker has accepted the events of a scope.
LEMMA PostIsGood ==
  ASSUME NEW u, NEW rec, NEW rcv, GoodUpload(u, log, rec, rcv), NEW s \in Scope,
         NEW rec2, NEW rcv2, Grows(log, rec, log, rec2),
         rcv2 = rcv \cup OfScope(s, u.todo)
  PROVE  GoodUpload([u EXCEPT !.todo = @ \ OfScope(s, @),
                              !.completed = @ \cup {s}], log, rec2, rcv2)
<1> DEFINE v == [u EXCEPT !.todo = @ \ OfScope(s, @), !.completed = @ \cup {s}]
<1>1. u \in Uploader
  BY DEF GoodUpload
<1>2. /\ v \in Uploader /\ v.stored = u.stored /\ v.completed = u.completed \cup {s}
      /\ v.todo = u.todo \ OfScope(s, u.todo)
  BY <1>1 DEF Uploader
<1> HIDE DEF v
<1>3. Good(v.stored, log, rec2)
  BY <1>2, GoodGrows DEF GoodUpload
<1>4. v.todo \subseteq DOMAIN log
  BY <1>2 DEF GoodUpload
<1>5. ASSUME NEW i \in Selected(v.stored), NEW e \in v.stored[i].events,
             log[e].scope \in Scope \ v.stored[i].uploadedScopes
      PROVE  /\ e \in v.todo \cup rcv2
             /\ log[e].scope \in v.completed => e \in rcv2
  <2>1. /\ e \in u.todo \cup rcv
        /\ log[e].scope \in u.completed => e \in rcv
    BY <1>2, <1>5 DEF GoodUpload, Sent
  <2>2. e \in u.todo /\ log[e].scope = s => e \in rcv2
    BY DEF OfScope
  <2>3. e \in v.todo \cup rcv2
    BY <1>2, <2>1
  <2>4. ASSUME log[e].scope \in v.completed  PROVE e \in rcv2
    BY <1>2, <2>1, <2>2, <2>4
  <2> QED  BY <2>3, <2>4
<1>6. Sent(v, log, rcv2)
  BY <1>5 DEF Sent
<1>7. GoodUpload(v, log, rec2, rcv2)
  BY <1>2, <1>3, <1>4, <1>6 DEF GoodUpload
<1> QED  BY <1>7 DEF v

\* A failure changes nothing of what was sent.
LEMMA FailIsGood ==
  ASSUME NEW u, NEW rec, NEW rcv, GoodUpload(u, log, rec, rcv)
  PROVE  GoodUpload([u EXCEPT !.pc = "failed"], log, rec, rcv)
<1> DEFINE v == [u EXCEPT !.pc = "failed"]
<1>1. u \in Uploader
  BY DEF GoodUpload
<1>2. /\ v \in Uploader /\ v.stored = u.stored /\ v.completed = u.completed
      /\ v.todo = u.todo
  BY <1>1 DEF Uploader
<1> HIDE DEF v
<1>3. Sent(v, log, rcv)
  BY <1>2 DEF GoodUpload, Sent
<1>4. GoodUpload(v, log, rec, rcv)
  BY <1>2, <1>3 DEF GoodUpload
<1> QED  BY <1>4 DEF v

\* The end of an upload marks only what the broker has.
LEMMA SaveIsGood ==
  ASSUME NEW u, NEW rec, NEW rcv, GoodUpload(u, log, rec, rcv),
         rcv \subseteq rec, NEW saved, saved = updateBatches(u)
  PROVE  Good(saved, log, rec) /\ Events(saved) = Events(u.stored)
<1> DEFINE n == Len(u.stored)
<1>1. u \in Uploader /\ u.stored \in Seq(Batch) /\ u.completed \in SUBSET Scope
  BY DEF GoodUpload, Uploader
<1>2. n \in Nat /\ DOMAIN u.stored = 1..n /\ \A i \in 1..n : u.stored[i] \in Batch
  BY <1>1
<1> DEFINE Marked(i) ==
             [u.stored[i] EXCEPT
                !.uploadedScopes = u.stored[i].uploadedScopes \cup u.completed,
                !.pending = ~(NeededScopes(u.stored[i])
                                \subseteq u.stored[i].uploadedScopes \cup u.completed)]
<1>3. saved = [i \in 1..n |-> IF i \notin Selected(u.stored) THEN u.stored[i]
                              ELSE Marked(i)]
  BY <1>2 DEF updateBatches
<1>4. ASSUME NEW i \in 1..n
      PROVE  /\ Marked(i) \in Batch
             /\ Marked(i).events = u.stored[i].events
             /\ Marked(i).uploadedScopes = u.stored[i].uploadedScopes \cup u.completed
  <2> DEFINE b == u.stored[i]
             marks == b.uploadedScopes \cup u.completed
             p == ~(NeededScopes(b) \subseteq marks)
  <2>1. b \in Batch /\ p \in BOOLEAN
    BY <1>2
  <2>2. marks \in SUBSET Scope
    BY <1>1, <2>1 DEF Batch
  <2>3. Marked(i) = [b EXCEPT !.uploadedScopes = marks, !.pending = p]
    OBVIOUS
  <2> HIDE DEF b, marks, p
  <2>4. /\ [b EXCEPT !.uploadedScopes = marks, !.pending = p] \in Batch
        /\ [b EXCEPT !.uploadedScopes = marks, !.pending = p].events = b.events
        /\ [b EXCEPT !.uploadedScopes = marks, !.pending = p].uploadedScopes = marks
    BY <2>1, <2>2 DEF Batch
  <2>5. /\ Marked(i) \in Batch /\ Marked(i).events = b.events
        /\ Marked(i).uploadedScopes = marks
    BY <2>3, <2>4
  <2> QED  BY <2>5 DEF b, marks
<1> HIDE DEF Marked, n
<1>5. /\ saved \in Seq(Batch) /\ Len(saved) = n
      /\ \A i \in 1..n : /\ saved[i].events = u.stored[i].events
                         /\ saved[i].uploadedScopes
                              = IF i \in Selected(u.stored)
                                THEN u.stored[i].uploadedScopes \cup u.completed
                                ELSE u.stored[i].uploadedScopes
  <2>1. \A i \in 1..n : saved[i] \in Batch
    BY <1>2, <1>3, <1>4
  <2>2. saved \in Seq(Batch) /\ Len(saved) = n
    BY <1>2, <1>3, <2>1
  <2> QED  BY <1>3, <1>4, <2>2
<1>6. Events(saved) = Events(u.stored)
  <2>1. ASSUME NEW e  PROVE e \in Events(saved) <=> e \in Events(u.stored)
    <3>1. e \in Events(saved) <=> \E i \in 1..n : e \in saved[i].events
      BY <1>5 DEF Events, EventsFrom
    <3>2. e \in Events(u.stored) <=> \E i \in 1..n : e \in u.stored[i].events
      BY DEF Events, EventsFrom, n
    <3> QED  BY <1>5, <3>1, <3>2
  <2> QED  BY <2>1
<1>7. /\ \A i \in 1..n :
           /\ u.stored[i].events \subseteq DOMAIN log
           /\ Cardinality(u.stored[i].events) \in 1..EVENTS_PER_BATCH
           /\ \A e \in u.stored[i].events :
                log[e].scope \in u.stored[i].uploadedScopes => e \in rec
      /\ \A i, j \in 1..n :
           i < j => \A d \in u.stored[i].events, e \in u.stored[j].events : d < e
      /\ Fits(u.stored)
  BY DEF GoodUpload, Good, n
<1>8. ASSUME NEW i \in 1..n, NEW e \in saved[i].events,
             log[e].scope \in saved[i].uploadedScopes
      PROVE  e \in rec
  <2>1. e \in u.stored[i].events
    BY <1>5
  <2>2. CASE log[e].scope \in u.stored[i].uploadedScopes
    BY <1>7, <2>1, <2>2
  <2>3. CASE log[e].scope \notin u.stored[i].uploadedScopes
    <3>1. i \in Selected(u.stored) /\ log[e].scope \in u.completed
      BY <1>5, <1>8, <2>3
    <3>2. log[e].scope \in Scope \ u.stored[i].uploadedScopes
      BY <1>1, <2>3, <3>1
    <3>3. e \in rcv
      BY <2>1, <3>1, <3>2 DEF GoodUpload, Sent
    <3> QED  BY <3>3
  <2> QED  BY <2>2, <2>3
<1>9. Fits(saved)
  BY <1>6, <1>7 DEF Fits
<1>10. \A i \in 1..n : /\ saved[i].events \subseteq DOMAIN log
                       /\ Cardinality(saved[i].events) \in 1..EVENTS_PER_BATCH
  BY <1>5, <1>7
<1>11. ASSUME NEW i \in 1..n, NEW j \in 1..n, i < j,
              NEW d \in saved[i].events, NEW e \in saved[j].events
       PROVE  d < e
  <2>1. d \in u.stored[i].events /\ e \in u.stored[j].events
    BY <1>5
  <2> QED  BY <1>7, <1>11, <2>1
<1>12. Good(saved, log, rec)
  BY <1>5, <1>8, <1>9, <1>10, <1>11 DEF Good
<1> QED  BY <1>6, <1>12

----------------------------------------------------------------------------
(* The invariant.                                                          *)

\* The invariant holds at first,
LEMMA DiagInvInit ==
  ASSUME DiagInit
  PROVE  DiagInv
<1>1. TableInv
  <2>1. IsFiniteSet({}) /\ Cardinality({}) = 0
    BY FS_EmptySet
  <2>2. Keyed(diagnostics, nextId)
    BY <2>1 DEF DiagInit, TableInit, Keyed
  <2>3. Cardinality(diagnostics) <= RowsKept
    BY <2>1, TableAssumption DEF DiagInit, TableInit
  <2>4. nextId \in Nat \ {0} /\ now \in Nat /\ publishes \subseteq Scope
    BY TableAssumption DEF DiagInit, TableInit
  <2> QED  BY <2>2, <2>3, <2>4 DEF TableInv
<1>2. log = <<>> /\ log \in Seq(Event)
  BY DEF DiagInit
<1>3. Clock
  BY <1>2 DEF DiagInit, TableInit, Clock
<1>4. /\ Good(batches, log, received \cup late)
      /\ GoodUpload(upload, log, received \cup late, received)
      /\ GoodWriter(Quiet, log, received \cup late)
  <2> DEFINE rec == received \cup late
  <2>1. batches = <<>> /\ upload = NoUpload
    BY DEF DiagInit
  <2> HIDE DEF rec, NoUpload
  <2>2. /\ Good(<<>>, log, rec) /\ GoodWriter(Quiet, log, rec)
        /\ GoodUpload(NoUpload, log, rec, received)
    BY <1>2, EmptyIsGood
  <2>3. Good(batches, log, rec) /\ GoodUpload(upload, log, rec, received)
    BY <2>1, <2>2
  <2> QED  BY <2>2, <2>3 DEF rec
<1>5. Quiet \in Writer
  BY <1>4 DEF GoodWriter
<1>6. logger = [l \in Logger |-> Quiet]
  BY DEF DiagInit
<1> HIDE DEF Quiet
<1>7. /\ DOMAIN logger = Logger /\ logger \in [Logger -> Writer]
      /\ \A l \in Logger : GoodWriter(logger[l], log, received \cup late)
  BY <1>4, <1>5, <1>6
<1>8. /\ backoff \in BOOLEAN /\ received \cup late \subseteq DOMAIN log
      /\ inputs \in 0..MaxInputs
  <2>1. backoff = FALSE /\ received = {} /\ late = {} /\ inputs = 0
    BY DEF DiagInit
  <2>2. inputs \in 0..MaxInputs
    BY <2>1, ExtAssumption
  <2> QED  BY <2>1, <2>2
<1>9. HistoryInv
  BY <1>4, <1>7, <1>8 DEF HistoryInv
<1> QED  BY <1>1, <1>3, <1>9 DEF DiagInv

\* What a step does to the table.
LEMMA StepsTable ==
  ASSUME DiagInv, [DiagNext]_diagVars
  PROVE  TableStep
<1> DEFINE Same == UNCHANGED <<diagnostics, nextId, publishes>> /\ now' = now
<1>1. Same => TableStep
  BY DEF TableStep
<1>2. ASSUME NEW s \in Scope, NEW group, group = OfScope(s, upload.todo),
             Accepts(s, EventsOf(group)), PutDiagnostics(s, Self, EventsOf(group))
      PROVE  TableStep
  <2>1. group \in SUBSET DOMAIN log /\ log \in Seq(Event) /\ Self \in Installation
    BY <1>2, ExtAssumption DEF OfScope, DiagInv, HistoryInv, GoodUpload, Clock
  <2>2. IsFiniteSet(group)
    BY <2>1, LogFinite
  <2>3. Payload(EventsOf(group))
    BY <1>2, <2>2, EventsOfLength, AcceptedPayload DEF DiagInv
  <2> QED  BY <1>2, <2>1, <2>3 DEF TableStep
<1>3. ASSUME NEW s \in Scope, PostAccepted(s)  PROVE TableStep
  BY <1>2, <1>3 DEF PostAccepted, Receive
<1>4. ASSUME NEW s \in Scope, PostLost(s)  PROVE TableStep
  BY <1>1, <1>2, <1>4 DEF PostLost, Receive, tableVars
<1>5. ASSUME NEW i \in Others, NEW s \in Scope, OthersPost(i, s)  PROVE TableStep
  <2> DEFINE details == [depth |-> 1, content |-> "plain", bytes |-> 1]
             Posted(t) == <<[scope |-> s, at |-> t, details |-> details]>>
  <2>1. PICK t : Accepts(s, Posted(t)) /\ PutDiagnostics(s, i, Posted(t))
    BY <1>5 DEF OthersPost
  <2> DEFINE events == Posted(t)
  <2>2. Len(events) \in Nat /\ DOMAIN events = 1..Len(events)
    OBVIOUS
  <2>3. Accepts(s, events) /\ PutDiagnostics(s, i, events)
    BY <2>1
  <2> HIDE DEF events
  <2>4. Payload(events)
    BY <2>2, <2>3, AcceptedPayload DEF DiagInv
  <2>5. i \in Installation
    BY DEF Others
  <2> QED  BY <2>3, <2>4, <2>5 DEF TableStep
<1>6. ASSUME Tick  PROVE TableStep
  BY <1>6 DEF Tick, TableStep
<1>7. ASSUME UNCHANGED tableVars  PROVE TableStep
  BY <1>1, <1>7 DEF tableVars
<1>8. ASSUME NEW l, NEW s, NEW what, ReadBatches(l, s, what)  PROVE UNCHANGED tableVars
  BY <1>8 DEF ReadBatches
<1>9. ASSUME Writing  PROVE UNCHANGED tableVars
  BY <1>9 DEF Writing, WriteBatches
<1>10. ASSUME \/ StartUpload \/ SaveUpload \/ \E s \in Scope : PostRefused(s)
              \/ BackoffEnds \/ clearDiagnostics \/ \E l \in Logger : Stop(l)
       PROVE  UNCHANGED tableVars
  BY <1>10 DEF StartUpload, SaveUpload, PostRefused, BackoffEnds, clearDiagnostics, Stop
<1>11. UNCHANGED diagVars => UNCHANGED tableVars
  BY DEF diagVars
<1> QED  BY <1>3, <1>4, <1>5, <1>6, <1>7, <1>8, <1>9, <1>10, <1>11
         DEF DiagNext, Uploading

\* What a step does to the log: time goes on and nothing is forgotten.
LEMMA StepsGrow ==
  ASSUME DiagInv, [DiagNext]_diagVars
  PROVE  /\ Clock' /\ Grows(log, received \cup late, log', received' \cup late')
         /\ received \subseteq received'
         /\ received' \cup late' \subseteq DOMAIN log'
<1>1. /\ log \in Seq(Event) /\ now \in Nat
      /\ \A e \in DOMAIN log : log[e].at <= now
      /\ \A d, e \in DOMAIN log : d < e => log[d].at <= log[e].at
  BY DEF DiagInv, Clock
<1>2. received \cup late \subseteq DOMAIN log
  BY DEF DiagInv, HistoryInv
<1>3. now' \in {now, now + 1} /\ now' \in Nat
  <2>1. \A s, i, events : PutDiagnostics(s, i, events) => now' = now
    BY DEF PutDiagnostics
  <2>2. now' \in {now, now + 1}
    BY <2>1, StepsTable DEF TableStep
  <2> QED  BY <1>1, <2>2
<1>4. \A e \in DOMAIN log : log[e].at \in Nat
  <2>1. \A e \in DOMAIN log : log[e] \in Event
    BY <1>1
  <2> QED  BY <2>1 DEF Event
<1>5. ASSUME NEW l \in Logger, NEW s \in Scope \cup {NoScope}, NEW what \in Details,
             ReadBatches(l, s, what)
      PROVE  /\ Clock' /\ Grows(log, received \cup late, log', received' \cup late')
             /\ received \subseteq received'
             /\ received' \cup late' \subseteq DOMAIN log'
  <2> DEFINE new == [scope |-> s, at |-> now,
                     details |-> redactDiagnosticValue(what)]
             n == Len(log)
  <2>1. /\ log' = Append(log, new) /\ received' = received /\ late' = late
        /\ now' = now
    BY <1>5 DEF ReadBatches, tableVars
  <2>2. redactDiagnosticValue(what) \in Details
    BY TableAssumption DEF redactDiagnosticValue, Details
  <2>3. new \in Event /\ new.at = now
    BY <1>1, <2>2 DEF Event
  <2> HIDE DEF new
  <2>4. /\ log' \in Seq(Event) /\ n \in Nat /\ Len(log') = n + 1
        /\ DOMAIN log' = 1..(n + 1) /\ DOMAIN log = 1..n
        /\ log'[n + 1] = new /\ \A e \in 1..n : log'[e] = log[e]
    BY <1>1, <2>1, <2>3
  <2> HIDE DEF n
  <2>5. \A e \in 1..(n + 1) : e = n + 1 \/ e \in 1..n
    BY <2>4
  <2>6. \A e \in 1..(n + 1) : log'[e].at <= now'
    BY <1>1, <2>1, <2>3, <2>4, <2>5
  <2>7. ASSUME NEW d \in 1..(n + 1), NEW e \in 1..(n + 1), d < e
        PROVE  log'[d].at <= log'[e].at
    <3>1. d \in 1..n
      BY <2>4, <2>7
    <3>2. CASE e = n + 1
      BY <1>1, <2>3, <2>4, <3>1, <3>2
    <3>3. CASE e \in 1..n
      BY <1>1, <2>4, <2>7, <3>1, <3>3
    <3> QED  BY <2>5, <3>2, <3>3
  <2>8. Clock'
    BY <1>3, <2>4, <2>6, <2>7 DEF Clock
  <2>9. Grows(log, received \cup late, log', received' \cup late')
    <3>1. Len(log) <= Len(log')
      BY <2>4 DEF n
    <3>2. \A e \in DOMAIN log : e \in DOMAIN log' /\ log'[e] = log[e]
      BY <2>4
    <3> QED  BY <1>1, <2>1, <2>4, <3>1, <3>2 DEF Grows
  <2>10. received' \cup late' \subseteq DOMAIN log'
    BY <1>2, <2>1, <2>4
  <2> QED  BY <2>1, <2>8, <2>9, <2>10
<1>6. ASSUME log' = log, received \subseteq received', late \subseteq late',
             received' \cup late' \subseteq DOMAIN log
      PROVE  /\ Clock' /\ Grows(log, received \cup late, log', received' \cup late')
             /\ received \subseteq received'
             /\ received' \cup late' \subseteq DOMAIN log'
  <2>1. \A e \in DOMAIN log : log[e].at <= now'
    BY <1>1, <1>3, <1>4
  <2>2. Clock'
    BY <1>1, <1>3, <1>6, <2>1 DEF Clock
  <2>3. Grows(log, received \cup late, log', received' \cup late')
    BY <1>1, <1>6 DEF Grows
  <2> QED  BY <1>6, <2>2, <2>3
<1> DEFINE Keeps == /\ log' = log /\ received \subseteq received'
                    /\ late \subseteq late'
                    /\ received' \cup late' \subseteq DOMAIN log
<1>7. ASSUME UNCHANGED history  PROVE Keeps
  BY <1>2, <1>7 DEF history
<1>8. ASSUME NEW s \in Scope, PostAccepted(s) \/ PostLost(s)  PROVE Keeps
  <2>1. OfScope(s, upload.todo) \subseteq DOMAIN log
    BY DEF OfScope, DiagInv, HistoryInv, GoodUpload
  <2> QED  BY <1>2, <1>8, <2>1 DEF PostAccepted, PostLost, Receive
<1>9. ASSUME NEW l \in Logger, WriteBatches(l)  PROVE Keeps
  <2>1. logger[l].event \in 0..Len(log) /\ logger[l].event # 0
    BY <1>9 DEF WriteBatches, DiagInv, HistoryInv, GoodWriter
  <2>2. logger[l].event \in DOMAIN log
    BY <1>1, <2>1
  <2> QED  BY <1>2, <1>9, <2>2 DEF WriteBatches
<1>10. ASSUME \/ StartUpload \/ SaveUpload \/ \E s \in Scope : PostRefused(s)
              \/ BackoffEnds \/ clearDiagnostics \/ \E l \in Logger : Stop(l)
              \/ Tick \/ \E i \in Others, s \in Scope : OthersPost(i, s)
       PROVE  UNCHANGED history
  BY <1>10 DEF StartUpload, SaveUpload, PostRefused, BackoffEnds, clearDiagnostics,
               Stop, Tick, OthersPost
<1>11. UNCHANGED diagVars => UNCHANGED history
  BY DEF diagVars
<1>12. (\E who \in Logs : ReadBatches(who[1], who[2], who[3])) \/ Keeps
  BY <1>7, <1>8, <1>9, <1>10, <1>11 DEF DiagNext, Uploading, Writing
<1>13. \A who \in Logs : /\ who[1] \in Logger /\ who[2] \in Scope \cup {NoScope}
                          /\ who[3] \in Details
  BY ExtAssumption
<1> HIDE DEF Keeps
<1>14. CASE \E who \in Logs : ReadBatches(who[1], who[2], who[3])
  BY <1>5, <1>13, <1>14
<1>15. CASE Keeps
  BY <1>6, <1>15 DEF Keeps
<1> QED  BY <1>12, <1>14, <1>15

\* The batches that are stored stay good.
LEMMA BatchesNext ==
  ASSUME DiagInv, [DiagNext]_diagVars
  PROVE  Good(batches', log', received' \cup late')
<1> DEFINE rec == received \cup late
           rec2 == received' \cup late'
<1>1. Grows(log, rec, log', rec2) /\ log' \in Seq(Event)
  BY StepsGrow DEF Clock
<1>2. Good(batches, log, rec) /\ Clock /\ rec \subseteq rec2
  BY <1>1 DEF DiagInv, HistoryInv, Grows
<1>3. ASSUME batches' = batches  PROVE Good(batches', log', rec2)
  <2> HIDE DEF rec, rec2
  <2>1. Good(batches, log', rec2)
    BY <1>1, <1>2, GoodGrows
  <2> QED  BY <1>3, <2>1
<1>4. ASSUME NEW l \in Logger, WriteBatches(l)  PROVE Good(batches', log', rec2)
  <2> DEFINE stored == logger[l].stored
             e == logger[l].event
  <2>1. /\ batches' = FifoPruned(Appended(stored, e)) /\ log' = log
        /\ logger[l].pc = "write"
        /\ late' = IF HasRoom(stored) /\ log[e].scope \in stored[Len(stored)].uploadedScopes
                   THEN late \cup {e} ELSE late
    BY <1>4 DEF WriteBatches
  <2>2. GoodWriter(logger[l], log, rec)
    BY DEF DiagInv, HistoryInv
  <2>3. /\ Good(stored, log, rec) /\ e \in 0..Len(log) /\ e # 0
        /\ \A d \in Events(stored) : d < e
    BY <2>1, <2>2 DEF GoodWriter
  <2>4. e \in DOMAIN log
    BY <1>2, <2>3 DEF Clock
  <2>5. HasRoom(stored) /\ log[e].scope \in stored[Len(stored)].uploadedScopes
          => e \in rec2
    BY <2>1
  <2> HIDE DEF stored, e, rec, rec2
  <2>6. Good(FifoPruned(Appended(stored, e)), log, rec2)
    BY <1>2, <2>3, <2>4, <2>5, WriteIsGood
  <2> QED  BY <2>1, <2>6
<1>5. ASSUME SaveUpload  PROVE Good(batches', log', rec2)
  <2>1. batches' = updateBatches(upload) /\ log' = log /\ rec2 = rec
    BY <1>5 DEF SaveUpload, history
  <2>2. GoodUpload(upload, log, rec, received) /\ received \subseteq rec
    BY DEF DiagInv, HistoryInv
  <2> HIDE DEF rec, rec2
  <2>3. Good(updateBatches(upload), log, rec)
    BY <2>2, SaveIsGood
  <2> QED  BY <2>1, <2>3
<1>6. ASSUME clearDiagnostics  PROVE Good(batches', log', rec2)
  <2>1. batches' = <<>>
    BY <1>6 DEF clearDiagnostics
  <2> HIDE DEF rec2
  <2>2. Good(<<>>, log', rec2)
    BY <1>1, EmptyIsGood
  <2> QED  BY <2>1, <2>2
<1>7. ASSUME NEW l, NEW s, NEW what, ReadBatches(l, s, what)  PROVE batches' = batches
  BY <1>7 DEF ReadBatches
<1>8. ASSUME \/ StartUpload \/ \E s \in Scope : PostAccepted(s) \/ PostRefused(s)
             \/ \E s \in Scope : PostLost(s)
             \/ BackoffEnds \/ \E l \in Logger : Stop(l)
             \/ Tick \/ \E i \in Others, s \in Scope : OthersPost(i, s)
      PROVE  batches' = batches
  BY <1>8 DEF StartUpload, PostAccepted, PostRefused, PostLost, BackoffEnds, Stop,
              Tick, OthersPost, extension
<1>9. UNCHANGED diagVars => batches' = batches
  BY DEF diagVars, extension
<1> HIDE DEF rec2
<1>10. Good(batches', log', rec2)
  BY <1>3, <1>4, <1>5, <1>6, <1>7, <1>8, <1>9 DEF DiagNext, Uploading, Writing
<1> QED  BY <1>10 DEF rec2

\* So do the copies of the pages that log.
LEMMA LoggerNext ==
  ASSUME DiagInv, [DiagNext]_diagVars
  PROVE  /\ DOMAIN logger' = Logger /\ logger' \in [Logger -> Writer]
         /\ \A l \in Logger : GoodWriter(logger'[l], log', received' \cup late')
<1> DEFINE rec == received \cup late
           rec2 == received' \cup late'
<1>1. Grows(log, rec, log', rec2) /\ log' \in Seq(Event)
  BY StepsGrow DEF Clock
<1>2. /\ logger \in [Logger -> Writer]
      /\ \A l \in Logger : GoodWriter(logger[l], log, rec)
      /\ Good(batches, log, rec) /\ log \in Seq(Event)
  BY DEF DiagInv, HistoryInv, Clock
<1> DEFINE Result == /\ DOMAIN logger' = Logger /\ logger' \in [Logger -> Writer]
                     /\ \A l \in Logger : GoodWriter(logger'[l], log', rec2)
<1>3. \A l \in Logger : GoodWriter(logger[l], log', rec2)
  <2> HIDE DEF rec, rec2
  <2> QED  BY <1>1, <1>2, WriterGrows
<1>4. GoodWriter(Quiet, log', rec2) /\ Quiet \in Writer
  <2>1. GoodWriter(Quiet, log', rec2)
    <3> HIDE DEF rec2
    <3> QED  BY <1>1, EmptyIsGood
  <2> QED  BY <2>1 DEF GoodWriter
<1>5. ASSUME logger' = logger  PROVE Result
  <2> HIDE DEF rec2
  <2> QED  BY <1>2, <1>3, <1>5
<1>6. ASSUME NEW l \in Logger, NEW w, GoodWriter(w, log', rec2),
             logger' = [logger EXCEPT ![l] = w]
      PROVE  Result
  <2>1. w \in Writer
    BY <1>6 DEF GoodWriter
  <2> HIDE DEF rec2
  <2>2. logger' \in [Logger -> Writer] /\ DOMAIN logger' = Logger
    BY <1>2, <1>6, <2>1
  <2>3. \A m \in Logger : logger'[m] = IF m = l THEN w ELSE logger[m]
    BY <1>2, <1>6
  <2>4. \A m \in Logger : GoodWriter(logger'[m], log', rec2)
    BY <1>3, <1>6, <2>3
  <2> QED  BY <2>2, <2>4
<1>7. ASSUME NEW l \in Logger, NEW s, NEW what, ReadBatches(l, s, what)  PROVE Result
  <2> DEFINE w == [pc |-> "write", stored |-> batches, event |-> Len(log) + 1]
             new == [scope |-> s, at |-> now,
                     details |-> redactDiagnosticValue(what)]
  <2>1. logger' = [logger EXCEPT ![l] = w] /\ log' = Append(log, new)
    BY <1>7 DEF ReadBatches
  <2>2. Len(log) \in Nat /\ DOMAIN log = 1..Len(log)
    BY <1>2
  <2> HIDE DEF new
  <2>3. Len(log') = Len(log) + 1
    BY <1>2, <2>1
  <2>4. batches \in Seq(Batch)
    BY <1>2 DEF Good
  <2>5. /\ w \in Writer /\ w.stored = batches /\ w.event = Len(log) + 1
    BY <2>2, <2>4 DEF Writer
  <2> HIDE DEF w
  <2>6. Good(batches, log', rec2)
    <3> HIDE DEF rec, rec2
    <3> QED  BY <1>1, <1>2, GoodGrows
  <2>7. Events(batches) \subseteq DOMAIN log
    BY <1>2 DEF Good, Events, EventsFrom
  <2>8. \A e \in Events(batches) : e < Len(log) + 1
    BY <2>2, <2>7
  <2>9. Len(log) + 1 \in 0..Len(log') /\ Len(log) + 1 # 0
    BY <2>2, <2>3
  <2> HIDE DEF rec2
  <2>10. GoodWriter(w, log', rec2)
    BY <2>5, <2>6, <2>8, <2>9 DEF GoodWriter
  <2> QED  BY <1>6, <2>1, <2>10
<1>8. ASSUME NEW l \in Logger, WriteBatches(l) \/ Stop(l)  PROVE Result
  <2>1. logger' = [logger EXCEPT ![l] = Quiet]
    BY <1>8 DEF WriteBatches, Stop
  <2> HIDE DEF Result, rec2
  <2> QED  BY <1>4, <1>6, <2>1
<1>9. ASSUME \/ StartUpload \/ \E s \in Scope : PostAccepted(s) \/ PostRefused(s)
             \/ SaveUpload \/ \E s \in Scope : PostLost(s)
             \/ BackoffEnds \/ clearDiagnostics
             \/ Tick \/ \E i \in Others, s \in Scope : OthersPost(i, s)
      PROVE  logger' = logger
  BY <1>9 DEF StartUpload, SaveUpload, PostAccepted, PostRefused, PostLost,
              BackoffEnds, clearDiagnostics, Tick, OthersPost, extension
<1>10. UNCHANGED diagVars => logger' = logger
  BY DEF diagVars, extension
<1>11. \A who \in Logs : who[1] \in Logger
  BY ExtAssumption
<1> HIDE DEF Result
<1>12. Result
  BY <1>5, <1>7, <1>8, <1>9, <1>10, <1>11 DEF DiagNext, Uploading, Writing
<1> QED  BY <1>12 DEF Result, rec2

\* So does the upload.
LEMMA UploadNext ==
  ASSUME DiagInv, [DiagNext]_diagVars
  PROVE  GoodUpload(upload', log', received' \cup late', received')
<1> DEFINE rec == received \cup late
           rec2 == received' \cup late'
           Result == GoodUpload(upload', log', rec2, received')
<1>1. /\ Grows(log, rec, log', rec2) /\ log' \in Seq(Event)
      /\ received \subseteq received'
  BY StepsGrow DEF Clock
<1>2. /\ GoodUpload(upload, log, rec, received)
      /\ Good(batches, log, rec) /\ log \in Seq(Event)
  BY DEF DiagInv, HistoryInv, Clock
<1>3. GoodUpload(upload, log', rec2, received')
  <2> HIDE DEF rec, rec2
  <2> QED  BY <1>1, <1>2, UploadGrows
<1>4. GoodUpload(NoUpload, log', rec2, received')
  <2> HIDE DEF rec2
  <2> QED  BY <1>1, EmptyIsGood
<1>5. ASSUME StartUpload  PROVE Result
  <2> DEFINE u == [pc |-> "post", stored |-> batches,
                   todo |-> Grouped(batches), completed |-> {}]
  <2>1. upload' = u /\ log' = log /\ rec2 = rec /\ received' = received
    BY <1>5 DEF StartUpload, history
  <2> HIDE DEF rec, rec2
  <2>2. GoodUpload(u, log, rec, received)
    BY <1>2, StartIsGood
  <2> HIDE DEF u
  <2> QED  BY <2>1, <2>2
<1>6. ASSUME NEW s \in Scope, PostAccepted(s)  PROVE Result
  <2> DEFINE u == [upload EXCEPT !.todo = @ \ OfScope(s, @),
                                 !.completed = @ \cup {s}]
  <2>1. /\ upload' = u /\ log' = log
        /\ received' = received \cup OfScope(s, upload.todo)
    BY <1>6 DEF PostAccepted, Receive
  <2>2. Grows(log, rec, log, rec2)
    BY <1>1, <2>1
  <2> HIDE DEF rec, rec2
  <2>3. GoodUpload(u, log, rec2, received')
    BY <1>2, <2>1, <2>2, PostIsGood
  <2> HIDE DEF u
  <2> QED  BY <2>1, <2>3
<1>7. ASSUME NEW s \in Scope, PostRefused(s) \/ PostLost(s)  PROVE Result
  <2> DEFINE u == [upload EXCEPT !.pc = "failed"]
  <2>1. upload' = u /\ log' = log
    BY <1>7 DEF PostRefused, PostLost, history
  <2> HIDE DEF rec2
  <2>2. GoodUpload(upload, log, rec2, received')
    BY <1>3, <2>1
  <2>3. GoodUpload(u, log, rec2, received')
    BY <2>2, FailIsGood
  <2> HIDE DEF u
  <2> QED  BY <2>1, <2>3
<1>8. ASSUME upload' = NoUpload  PROVE Result
  <2> HIDE DEF rec2, NoUpload
  <2> QED  BY <1>4, <1>8
<1>9. ASSUME upload' = upload  PROVE Result
  <2> HIDE DEF rec2
  <2> QED  BY <1>3, <1>9
<1>10. ASSUME NEW l \in Logger, Stop(l)  PROVE upload' = NoUpload \/ upload' = upload
  BY <1>10 DEF Stop
<1>11. ASSUME SaveUpload  PROVE upload' = NoUpload
  BY <1>11 DEF SaveUpload
<1>12. ASSUME NEW l, NEW s, NEW what, ReadBatches(l, s, what)  PROVE upload' = upload
  BY <1>12 DEF ReadBatches
<1>13. ASSUME \/ Writing \/ BackoffEnds \/ clearDiagnostics
              \/ Tick \/ \E i \in Others, s \in Scope : OthersPost(i, s)
       PROVE  upload' = upload
  BY <1>13 DEF Writing, WriteBatches, BackoffEnds, clearDiagnostics, Tick,
               OthersPost, extension
<1>14. UNCHANGED diagVars => upload' = upload
  BY DEF diagVars, extension
<1> HIDE DEF Result
<1>15. Result
  BY <1>5, <1>6, <1>7, <1>8, <1>9, <1>10, <1>11, <1>12, <1>13, <1>14
     DEF DiagNext, Uploading
<1> QED  BY <1>15 DEF Result, rec2

\* every step preserves it,
LEMMA DiagInvNext ==
  ASSUME DiagInv, [DiagNext]_diagVars
  PROVE  DiagInv'
<1>1. TableInv'
  BY StepsTable, TableInvNext DEF DiagInv
<1>2. Clock' /\ received' \cup late' \subseteq DOMAIN log'
  BY StepsGrow
<1>3. inputs' \in 0..MaxInputs
  <2>1. inputs \in 0..MaxInputs /\ MaxInputs \in Nat
    BY ExtAssumption DEF DiagInv, HistoryInv
  <2>2. inputs' = inputs \/ Input
    BY DEF DiagNext, ReadBatches, Writing, WriteBatches, Uploading, StartUpload,
           SaveUpload, PostAccepted, PostRefused, BackoffEnds, Tick,
           clearDiagnostics, PostLost, Stop, OthersPost, diagVars
  <2> QED  BY <2>1, <2>2 DEF Input
<1>4. backoff' \in BOOLEAN
  <2>1. backoff \in BOOLEAN
    BY DEF DiagInv, HistoryInv
  <2>2. \/ backoff' = backoff \/ backoff' = FALSE
        \/ backoff' = (upload.pc = "failed")
    BY DEF DiagNext, ReadBatches, Writing, WriteBatches, Uploading, StartUpload,
           SaveUpload, PostAccepted, PostRefused, BackoffEnds, Tick,
           clearDiagnostics, PostLost, Stop, OthersPost, diagVars, extension
  <2> QED  BY <2>1, <2>2
<1>5. HistoryInv'
  BY <1>2, <1>3, <1>4, BatchesNext, LoggerNext, UploadNext DEF HistoryInv
<1> QED  BY <1>1, <1>2, <1>5 DEF DiagInv

\* and so it always holds.
LEMMA DiagInvAlways ==  DiagSpec => []DiagInv
<1>1. DiagInit => DiagInv
  BY DiagInvInit
<1>2. DiagInv /\ [DiagNext]_diagVars => DiagInv'
  BY DiagInvNext
<1> QED  BY <1>1, <1>2, PTL DEF DiagSpec

----------------------------------------------------------------------------
(* Theorems.                                                               *)

\* The invariant implies the type invariant.
LEMMA TypesFollow ==
  ASSUME DiagInv
  PROVE  DiagTypeOK
<1>1. /\ diagnostics \subseteq Row /\ Cardinality(diagnostics) <= RowsKept
      /\ nextId \in Nat /\ now \in Nat /\ publishes \subseteq Scope
  BY DEF DiagInv, TableInv, Keyed
<1>2. \A stored, rec : Good(stored, log, rec)
        => stored \in Seq(Batch) /\ Bounded(stored)
  BY GoodIsChain, BoundedIsChain
<1>3. batches \in Seq(Batch) /\ Bounded(batches) /\ Bounded(upload.stored)
  BY <1>2 DEF DiagInv, HistoryInv, GoodUpload
<1>4. \A l \in Logger : /\ Bounded(logger[l].stored)
                        /\ logger[l].event \in 0..Len(log)
                        /\ \A e \in Events(logger[l].stored) : e < logger[l].event
  BY <1>2 DEF DiagInv, HistoryInv, GoodWriter
<1>5. /\ logger \in [Logger -> Writer] /\ upload \in Uploader
      /\ upload.todo \subseteq DOMAIN log /\ received \cup late \subseteq DOMAIN log
      /\ inputs \in 0..MaxInputs
  BY DEF DiagInv, HistoryInv, GoodUpload
<1>6. backoff \in BOOLEAN /\ log \in Seq(Event)
  BY DEF DiagInv, HistoryInv, Clock
<1> QED  BY <1>1, <1>3, <1>4, <1>5, <1>6 DEF DiagTypeOK

\* Whatever the limits and however many pages write, every copy of the history
\* is in the order logged and within EVENTS_PER_BATCH and MAX_EVENTS, and the
\* table within the rows that PutDiagnostics leaves.
THEOREM DiagTypeCorrect ==  DiagSpec => []DiagTypeOK
<1>1. DiagInv => DiagTypeOK
  BY TypesFollow
<1> QED  BY <1>1, DiagInvAlways, PTL

\* uploadDiagnostics marks a scope in a batch only when the broker has the
\* events of that scope that were in it, although the upload takes no lock:
\* copies that are written back late bring back only honest marks.
THEOREM MarksAreHonestAlways ==  DiagSpec => []MarksAreHonest
<1>1. ASSUME DiagInv  PROVE MarksAreHonest
  <2>1. Good(batches, log, received \cup late) /\ DOMAIN batches = 1..Len(batches)
    BY <1>1 DEF DiagInv, HistoryInv, Good
  <2>2. \A i \in 1..Len(batches) : \A e \in batches[i].events :
          log[e].scope \in batches[i].uploadedScopes => e \in received \cup late
    BY <2>1 DEF Good
  <2> QED  BY <2>1, <2>2 DEF MarksAreHonest
<1> QED  BY <1>1, DiagInvAlways, PTL

\* Following next_before_id shows every matching row once, and a span of time
\* loses no row of a second within it although timestamps compare as text:
\* Store.Diagnostics, for every table that PutDiagnostics can build.
THEOREM QueriesAreExactAlways ==  DiagSpec => []QueriesAreExact
<1>1. DiagInv => QueriesAreExact
  BY QueriesSuffice DEF DiagInv
<1> QED  BY <1>1, DiagInvAlways, PTL

\* PutDiagnostics prunes the oldest rows by second, and only those past their
\* retention or beyond RowsKept.
THEOREM PruningDropsTheOldestAlways ==  DiagSpec => PruningDropsTheOldest
<1>1. DiagInv /\ [DiagNext]_diagVars => [DropsOldest]_tableVars
  BY StepsTable, StepDropsOldest DEF DiagInv
<1> QED  BY <1>1, DiagInvAlways, PTL
         DEF DiagSpec, PruningDropsTheOldest, DropsOldest

\* The loss that a step may cause.
LossAllowed ==
    \A e \in Stored \ Stored' :
      \/ batches' = <<>>
      \/ \E copy \in Copies : e \notin Events(copy)
      \/ /\ \A d \in Stored' : e < d
         /\ \/ log[e].at < now - Retention
            \/ Cardinality(Stored') = MAX_EVENTS

\* A step causes no other loss.
LEMMA StepLoses ==
  ASSUME DiagInv, [DiagNext]_diagVars
  PROVE  LossAllowed
<1> DEFINE rec == received \cup late
<1>1. Stored = Events(batches) /\ Stored' = Events(batches')
  BY DEF Stored
<1>2. batches' = batches => LossAllowed
  BY <1>1 DEF LossAllowed
<1>3. ASSUME NEW l \in Logger, WriteBatches(l)  PROVE LossAllowed
  <2> DEFINE stored == logger[l].stored
             e == logger[l].event
             grown == Appended(stored, e)
             left == FifoPruned(grown)
  <2>1. batches' = left /\ logger[l].pc = "write"
    BY <1>3 DEF WriteBatches
  <2>2. stored \in Copies
    BY <2>1 DEF Copies
  <2>3. Clock /\ log \in Seq(Event) /\ GoodWriter(logger[l], log, rec)
    BY DEF DiagInv, HistoryInv, Clock
  <2>4. /\ Good(stored, log, rec) /\ e \in 0..Len(log) /\ e # 0
        /\ \A d \in Events(stored) : d < e
    BY <2>1, <2>3 DEF GoodWriter
  <2>5. e \in DOMAIN log
    BY <2>3, <2>4
  <2> HIDE DEF stored, e, rec, left
  <2>6. Chain(stored)
    BY <2>4, GoodIsChain
  <2>7. Chain(grown) /\ Events(grown) = Events(stored) \cup {e}
    BY <2>3, <2>4, <2>5, <2>6, AppendedChain
  <2> HIDE DEF grown
  <2>8. PICK k : PrunedTo(k, grown, left)
    BY <2>7, LoopEnds DEF left
  <2>9. \A f \in Events(grown) : f \notin Events(left) =>
          /\ \A d \in Events(left) : f < d
          /\ log[f].at < now - Retention \/ Cardinality(Events(left)) = MAX_EVENTS
    BY <2>3, <2>7, <2>8, FifoLoss
  <2>10. Stored' = Events(left)
    BY <1>1, <2>1
  <2>11. ASSUME NEW f \in Stored \ Stored', \A copy \in Copies : f \in Events(copy)
         PROVE  /\ \A d \in Stored' : f < d
                /\ log[f].at < now - Retention \/ Cardinality(Stored') = MAX_EVENTS
    <3>1. f \in Events(grown) /\ f \notin Events(left)
      BY <2>2, <2>7, <2>10, <2>11
    <3> QED  BY <2>9, <2>10, <3>1
  <2> QED  BY <2>11 DEF LossAllowed
<1>4. ASSUME SaveUpload  PROVE LossAllowed
  <2>1. batches' = updateBatches(upload) /\ upload.pc \in {"post", "failed"}
    BY <1>4 DEF SaveUpload
  <2>2. upload.stored \in Copies
    BY <2>1 DEF Copies, NoUpload
  <2>3. GoodUpload(upload, log, rec, received) /\ received \subseteq rec
    BY DEF DiagInv, HistoryInv
  <2> HIDE DEF rec
  <2>4. Events(updateBatches(upload)) = Events(upload.stored)
    BY <2>3, SaveIsGood
  <2>5. Stored' = Events(upload.stored)
    BY <1>1, <2>1, <2>4
  <2> QED  BY <2>2, <2>5 DEF LossAllowed
<1>5. ASSUME clearDiagnostics  PROVE LossAllowed
  BY <1>5 DEF clearDiagnostics, LossAllowed
<1>6. ASSUME NEW l, NEW s, NEW what, ReadBatches(l, s, what)  PROVE batches' = batches
  BY <1>6 DEF ReadBatches
<1>7. ASSUME \/ StartUpload \/ \E s \in Scope : PostAccepted(s) \/ PostRefused(s)
             \/ \E s \in Scope : PostLost(s)
             \/ BackoffEnds \/ \E l \in Logger : Stop(l)
             \/ Tick \/ \E i \in Others, s \in Scope : OthersPost(i, s)
      PROVE  batches' = batches
  BY <1>7 DEF StartUpload, PostAccepted, PostRefused, PostLost, BackoffEnds, Stop,
              Tick, OthersPost, extension
<1>8. UNCHANGED diagVars => batches' = batches
  BY DEF diagVars, extension
<1> QED  BY <1>2, <1>3, <1>4, <1>5, <1>6, <1>7, <1>8 DEF DiagNext, Uploading, Writing

\* logDiagnostic loses an event only as one of the oldest, when it is past its
\* retention or the history is full to the limit, or with a copy that was read
\* before the event was stored.
THEOREM LossIsFifoAlways ==  DiagSpec => LossIsFifo
<1>1. DiagInv /\ [DiagNext]_diagVars => [LossAllowed]_diagVars
  BY StepLoses
<1> QED  BY <1>1, DiagInvAlways, PTL DEF DiagSpec, LossIsFifo, LossAllowed
============================================================================
