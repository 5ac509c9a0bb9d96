------------------------------ MODULE ReadsProofs ------------------------------
(***************************************************************************)
(* For every number of rows, readers and page sizes: a walk by cursor      *)
(* returns what a scan would and always moves on, and an overview can be   *)
(* trusted for what lasts.                                                 *)
(***************************************************************************)
EXTENDS Reads, FiniteSetTheorems, TLAPS

(* The page taken from S ends where the rest of S begins.                  *)
LEMMA PageIsFirst ==
  ASSUME TypeOK, NEW S \in SUBSET Row, NEW n \in Nat,
         NEW i \in S, i \notin FirstOf(S, n), NEW k \in FirstOf(S, n)
  PROVE  Precedes(k, i)
<1> DEFINE Before(j) == {l \in S : Precedes(l, j)}
<1>1. \A j \in Row : row[j].at \in Nat /\ j \in Nat
  BY RowAssumption, TimeAssumption DEF TypeOK, RowRecord, Time
<1>2. Cardinality(Before(i)) \in Nat /\ Cardinality(Before(k)) \in Nat /\ IsFiniteSet(Before(k))
  BY RowAssumption, FS_Subset, FS_CardinalityType
<1>3. Cardinality(Before(k)) < n /\ ~(Cardinality(Before(i)) < n)
  BY DEF FirstOf
<1>4. CASE Precedes(i, k)
  <2>1. \A l \in S : Precedes(l, i) => Precedes(l, k)
    BY <1>1, <1>4 DEF Precedes, FirstOf
  <2>2. Before(i) \in SUBSET Before(k)
    BY <2>1
  <2>3. Cardinality(Before(i)) <= Cardinality(Before(k))
    BY <1>2, <2>2, FS_Subset
  <2> QED
    BY <1>2, <1>3, <2>3
<1>5. i # k
  OBVIOUS
<1> QED
  BY <1>1, <1>4, <1>5 DEF Precedes, FirstOf

(* When n rows or fewer are left the page is all of them.                  *)
LEMMA LastPageIsRest ==
  ASSUME TypeOK, NEW S \in SUBSET Row, NEW n \in Nat, Cardinality(S) <= n
  PROVE  FirstOf(S, n) = S
<1> SUFFICES ASSUME NEW i \in S PROVE Cardinality({l \in S : Precedes(l, i)}) < n
  BY DEF FirstOf
<1>1. row[i].at \in Nat /\ i \in Nat
  BY RowAssumption, TimeAssumption DEF TypeOK, RowRecord, Time
<1>2. ~Precedes(i, i)
  BY <1>1 DEF Precedes
<1>3. {l \in S : Precedes(l, i)} \in SUBSET (S \ {i})
  BY <1>2
<1>4. IsFiniteSet(S) /\ Cardinality(S) \in Nat
  BY RowAssumption, FS_Subset, FS_CardinalityType
<1>5. IsFiniteSet(S \ {i}) /\ Cardinality(S \ {i}) = Cardinality(S) - 1
  BY <1>4, FS_RemoveElement
<1>6. Cardinality({l \in S : Precedes(l, i)}) <= Cardinality(S \ {i})
  BY <1>3, <1>5, FS_Subset
<1>7. Cardinality({l \in S : Precedes(l, i)}) \in Nat
  BY <1>3, <1>5, FS_Subset, FS_CardinalityType
<1> QED
  BY <1>4, <1>5, <1>6, <1>7

LEMMA LimitIsPositive == \A limit \in Limit : Normalized(limit) \in Nat \ {0}
BY LimitAssumption DEF Normalized

(* A page of S is made of rows of S, its cursor is that of its last row.   *)
LEMMA CursorIsLast ==
  ASSUME TypeOK, NEW S \in SUBSET Row, NEW n \in Nat,
         NEW next \in NextCursor(S, FirstOf(S, n))
  PROVE  /\ next \in Cursor /\ next # None /\ next # Broken
         /\ \E k \in FirstOf(S, n) :
              /\ next.at = row[k].at /\ next.id = k
              /\ \A j \in FirstOf(S, n) : k = j \/ Precedes(j, k)
         /\ \A i \in FirstOf(S, n) : ~Beyond(next, i)
         /\ \A i \in S \ FirstOf(S, n) : Beyond(next, i)
<1>1. PICK k \in FirstOf(S, n) : /\ next = [at |-> row[k].at, id |-> k]
                                 /\ \A j \in FirstOf(S, n) : k = j \/ Precedes(j, k)
  BY DEF NextCursor
<1>2. FirstOf(S, n) \subseteq S
  BY DEF FirstOf
<1>3. k \in Row /\ row[k].at \in Time
  BY <1>1, <1>2 DEF TypeOK, RowRecord
<1>4. next \in Cursor /\ next # None /\ next # Broken /\ next.at = row[k].at /\ next.id = k
  BY <1>1, <1>3, CursorAssumption DEF Cursor, Time
<1>5. \A j \in Row : row[j].at \in Nat /\ j \in Nat
  BY RowAssumption, TimeAssumption DEF TypeOK, RowRecord, Time
<1>6. \A i \in FirstOf(S, n) : ~Beyond(next, i)
  BY <1>1, <1>2, <1>3, <1>4, <1>5 DEF Beyond, Precedes
<1>7. \A i \in S \ FirstOf(S, n) : Beyond(next, i)
  <2> SUFFICES ASSUME NEW i \in S, i \notin FirstOf(S, n) PROVE Beyond(next, i)
    OBVIOUS
  <2>1. Precedes(k, i)
    BY PageIsFirst
  <2> QED
    BY <2>1, <1>4 DEF Precedes, Beyond
<1> QED
  BY <1>1, <1>4, <1>6, <1>7

(* The writers leave a visible row where it is, do not revive it, and a    *)
(* walk owes of the other rows those that come into sight ahead of its     *)
(* cursor: nothing that a reader knows of the tables is taken back.        *)
LEMMA WriterKeeps ==
  ASSUME IInv, TypeOK', UNCHANGED <<req, got, again>>, now <= now',
         \A i \in Row : Visible(i) =>
           /\ Visible(i)' /\ row'[i].table = row[i].table /\ row'[i].tenant = row[i].tenant
           /\ row'[i].tag = row[i].tag /\ row'[i].at = row[i].at
           /\ row[i].status = "ended" => row'[i].status = "ended",
         \A r \in Reader : req[r].op # "walk" => owed'[r] = owed[r],
         \A r \in Reader : req[r].op = "walk" =>
           /\ owed[r] \subseteq owed'[r]
           /\ \A i \in Row : Visible(i) /\ i \in owed'[r] => i \in owed[r]
           /\ \A i \in Row : ~Visible(i) =>
                (i \in owed'[r] <=> Matches(req[r].query, i)' /\ Beyond(req[r].cursor, i)')
  PROVE  IInv'
<1>1. TypeOK /\ \A r \in Reader : WalkOK(r) /\ RestOK(r) /\ OverviewOK(r)
  BY DEF IInv
<1>2. \A r \in Reader : owed[r] \subseteq Row /\ owed'[r] \subseteq Row
  BY <1>1 DEF TypeOK
<1>3. \A r \in Reader : req[r].there \subseteq Row /\ req[r].gone \subseteq Row
  BY <1>1 DEF TypeOK, ReaderState
<1>4. \A r \in Reader, c \in Counter : req[r].answer[c] \subseteq Row
  BY <1>1 DEF TypeOK, ReaderState
<1>5. \A i \in Row : Visible(i) =>
        /\ \A q : Matches(q, i) <=> Matches(q, i)'
        /\ \A c : Beyond(c, i) <=> Beyond(c, i)'
  BY DEF Matches, Asked, Beyond
<1>6. \A r \in Reader : WalkOK(r)'
  <2> SUFFICES ASSUME NEW r \in Reader, req[r].op = "walk" PROVE WalkOK(r)'
    BY DEF WalkOK
  <2> DEFINE q == req[r].query
  <2> DEFINE c == req[r].cursor
  <2>1. \A i \in Row : Matches(q, i) => Visible(i)
    BY DEF Matches
  <2>2. \A i \in owed[r] : Matches(q, i) /\ (i \in got[r] \/ Beyond(c, i))
    BY <1>1 DEF WalkOK
  <2>3. ASSUME NEW i \in owed'[r] PROVE Matches(q, i)' /\ (i \in got[r] \/ Beyond(c, i)')
    <3>1. CASE Visible(i)
      BY <1>2, <1>5, <2>2, <2>3, <3>1
    <3>2. CASE ~Visible(i)
      BY <1>2, <2>3, <3>2
    <3> QED
      BY <3>1, <3>2
  <2>4. ASSUME ~req[r].damaged
        PROVE  /\ again[r] = {} /\ got[r] \subseteq owed'[r]
               /\ \A i \in got[r] : ~Beyond(c, i)'
               /\ \A i \in Row : Matches(q, i)' /\ Beyond(c, i)' => i \in owed'[r]
    <3>1. /\ again[r] = {} /\ got[r] \subseteq owed[r]
          /\ \A i \in got[r] : ~Beyond(c, i)
          /\ \A i \in Row : Matches(q, i) /\ Beyond(c, i) => i \in owed[r]
      BY <1>1, <2>4 DEF WalkOK
    <3>2. \A i \in got[r] : ~Beyond(c, i)'
      BY <1>2, <1>5, <2>1, <2>2, <3>1
    <3>3. \A i \in Row : Matches(q, i)' /\ Beyond(c, i)' => i \in owed'[r]
      BY <1>5, <3>1
    <3> QED
      BY <3>1, <3>2, <3>3
  <2>5. req[r].cursor # Broken
    BY <1>1 DEF WalkOK
  <2> QED
    BY <2>3, <2>4, <2>5 DEF WalkOK
<1>7. \A r \in Reader : RestOK(r)'
  BY <1>1 DEF RestOK
<1>8. \A r \in Reader : OverviewOK(r)'
  <2> SUFFICES ASSUME NEW r \in Reader, req[r].op = "overview" PROVE OverviewOK(r)'
    BY DEF OverviewOK
  <2>1. req[r].at <= now /\ req[r].at \in Nat /\ now \in Nat /\ now' \in Nat
    BY <1>1, TimeAssumption DEF OverviewOK, TypeOK, ReaderState, Time
  <2>2. \A i \in req[r].there : Visible(i)' /\ row'[i].tenant = req[r].tenant
    BY <1>1, <1>3 DEF OverviewOK
  <2>3. \A i \in req[r].gone : row'[i].status = "ended"
    BY <1>1, <1>3 DEF OverviewOK, Visible
  <2>4. \A c \in Counter : \A i \in req[r].answer[c] : Visible(i)'
    BY <1>1, <1>4 DEF OverviewOK
  <2> QED
    BY <2>1, <2>2, <2>3, <2>4 DEF OverviewOK
<1>9. WalkIsScan'
  BY DEF IInv, WalkIsScan
<1>10. CountsAreCurrent'
  <2> SUFFICES ASSUME NEW r \in Reader, NEW c \in Counter \ {"recentAuditEvents"},
                      req[r].op = "overview", c \notin req[r].todo
               PROVE  Current(r, c)'
    BY DEF CountsAreCurrent
  <2>1. Current(r, c) /\ OverviewOK(r)
    BY <1>1 DEF IInv, CountsAreCurrent
  <2>2. \A i \in Row : row[i].at \in Nat
    BY <1>1, TimeAssumption DEF TypeOK, RowRecord, Time
  <2>3. now \in Nat /\ now' \in Nat /\ SessionTtl \in Nat
    BY <1>1, TimeAssumption DEF TypeOK, Time
  <2>4. ASSUME NEW i \in req[r].there, row'[i].status = "live", row'[i].table = TableOf[c],
               c = "activeSessions" => row'[i].at + SessionTtl > now'
        PROVE  i \in req[r].answer[c]
    <3>1. i \in Row /\ Visible(i)
      BY <1>3, <2>1 DEF OverviewOK
    <3>2. row[i].status = "live" /\ row[i].table = TableOf[c] /\ row'[i].at = row[i].at
      BY <2>4, <3>1 DEF Visible
    <3>3. c = "activeSessions" => row[i].at + SessionTtl > now
      BY <2>2, <2>3, <2>4, <3>1, <3>2
    <3> QED
      BY <2>1, <3>2, <3>3 DEF Current
  <2>5. \A i \in req[r].answer[c] :
          /\ row'[i].tenant = req[r].tenant
          /\ c = "activeSessions" => row'[i].at + SessionTtl > req[r].at
    BY <1>4, <2>1 DEF Current, OverviewOK
  <2> QED
    BY <2>1, <2>4, <2>5 DEF Current
<1>11. RecentAreNewest'
  <2> SUFFICES ASSUME NEW r \in Reader, NEW c \in Counter \ req[r].todo,
                      req[r].op = "overview", c = "recentAuditEvents"
               PROVE  Recent(r, req[r].answer[c])'
    BY DEF RecentAreNewest
  <2>1. Recent(r, req[r].answer[c]) /\ OverviewOK(r)
    BY <1>1 DEF IInv, RecentAreNewest
  <2> QED
    BY <1>3, <1>4, <2>1 DEF Recent, OverviewOK
<1> QED
  BY <1>6, <1>7, <1>8, <1>9, <1>10, <1>11 DEF IInv

LEMMA InsertIInv ==
  ASSUME IInv, NEW i \in Row, NEW t \in Table, NEW g \in Tenant, NEW tag \in Tag \cup {None},
         Insert(i, t, g, tag)
  PROVE  IInv'
<1> DEFINE x == [status |-> "writing", table |-> t, tenant |-> g, tag |-> tag, at |-> now]
<1>1. TypeOK /\ row[i].status = "absent" /\ row' = [row EXCEPT ![i] = x]
      /\ UNCHANGED <<now, req, owed, got, again>>
  BY DEF IInv, Insert, history
<1>2. x \in RowRecord /\ x.status = "writing"
  BY <1>1, TableAssumption DEF RowRecord, TypeOK
<1> HIDE DEF x
<1>3. \A k \in Row : row'[k] = IF k = i THEN x ELSE row[k]
  BY <1>1 DEF TypeOK
<1>4. TypeOK' /\ now <= now'
  BY <1>1, <1>2, TimeAssumption DEF TypeOK, Time
<1>5. ~Visible(i) /\ ~Visible(i)'
  BY <1>1, <1>2, <1>3 DEF Visible
<1>6. \A r \in Reader, k \in Row :
        req[r].op = "walk" /\ ~Visible(k) => k \notin owed[r] /\ ~Matches(req[r].query, k)'
  BY <1>3, <1>5 DEF IInv, WalkOK, Matches, Visible
<1>7. \A k \in Row : Visible(k) =>
        /\ Visible(k)' /\ row'[k].table = row[k].table /\ row'[k].tenant = row[k].tenant
        /\ row'[k].tag = row[k].tag /\ row'[k].at = row[k].at
        /\ row[k].status = "ended" => row'[k].status = "ended"
  BY <1>3, <1>5 DEF Visible
<1> QED
  BY <1>1, <1>4, <1>6, <1>7, WriterKeeps

LEMMA AbortIInv ==
  ASSUME IInv, NEW i \in Row, Abort(i)
  PROVE  IInv'
<1>1. TypeOK /\ row[i].status = "writing" /\ row' = [row EXCEPT ![i] = NoRow]
      /\ UNCHANGED <<now, req, owed, got, again>>
  BY DEF IInv, Abort, history
<1>2. NoRow \in RowRecord /\ NoRow.status = "absent"
  BY TimeAssumption DEF RowRecord, NoRow, Time
<1>3. \A k \in Row : row'[k] = IF k = i THEN NoRow ELSE row[k]
  BY <1>1 DEF TypeOK
<1>4. TypeOK' /\ now <= now'
  BY <1>1, <1>2, TimeAssumption DEF TypeOK, Time
<1>5. ~Visible(i) /\ ~Visible(i)'
  BY <1>1, <1>2, <1>3 DEF Visible
<1>6. \A r \in Reader, k \in Row :
        req[r].op = "walk" /\ ~Visible(k) => k \notin owed[r] /\ ~Matches(req[r].query, k)'
  BY <1>3, <1>5 DEF IInv, WalkOK, Matches, Visible
<1>7. \A k \in Row : Visible(k) =>
        /\ Visible(k)' /\ row'[k].table = row[k].table /\ row'[k].tenant = row[k].tenant
        /\ row'[k].tag = row[k].tag /\ row'[k].at = row[k].at
        /\ row[k].status = "ended" => row'[k].status = "ended"
  BY <1>3, <1>5 DEF Visible
<1> QED
  BY <1>1, <1>4, <1>6, <1>7, WriterKeeps

LEMMA EndIInv ==
  ASSUME IInv, NEW i \in Row, End(i)
  PROVE  IInv'
<1> DEFINE x == [row[i] EXCEPT !.status = "ended"]
<1>1. TypeOK /\ row[i].status = "live" /\ row' = [row EXCEPT ![i] = x] /\ row[i] \in RowRecord
      /\ UNCHANGED <<now, req, owed, got, again>>
  BY DEF IInv, End, history, TypeOK
<1>2. /\ x \in RowRecord /\ x.status = "ended" /\ x.table = row[i].table
      /\ x.tenant = row[i].tenant /\ x.tag = row[i].tag /\ x.at = row[i].at
  BY <1>1 DEF RowRecord
<1> HIDE DEF x
<1>3. \A k \in Row : row'[k] = IF k = i THEN x ELSE row[k]
  BY <1>1 DEF TypeOK
<1>4. TypeOK' /\ now <= now'
  BY <1>1, <1>2, TimeAssumption DEF TypeOK, Time
<1>5. Visible(i) /\ Visible(i)'
  BY <1>1, <1>2, <1>3 DEF Visible
<1>6. \A r \in Reader, k \in Row :
        req[r].op = "walk" /\ ~Visible(k) => k \notin owed[r] /\ ~Matches(req[r].query, k)'
  BY <1>3, <1>5 DEF IInv, WalkOK, Matches, Visible
<1>7. \A k \in Row : Visible(k) =>
        /\ Visible(k)' /\ row'[k].table = row[k].table /\ row'[k].tenant = row[k].tenant
        /\ row'[k].tag = row[k].tag /\ row'[k].at = row[k].at
        /\ row[k].status = "ended" => row'[k].status = "ended"
  BY <1>2, <1>3, <1>5 DEF Visible
<1> QED
  BY <1>1, <1>4, <1>6, <1>7, WriterKeeps

LEMMA CommitIInv ==
  ASSUME IInv, NEW i \in Row, Commit(i)
  PROVE  IInv'
<1> DEFINE x == [row[i] EXCEPT !.status = "live"]
<1> DEFINE Ahead(r) == req[r].op = "walk" /\ Asked(req[r].query, i) /\ Beyond(req[r].cursor, i)
<1>1. TypeOK /\ row[i].status = "writing" /\ row' = [row EXCEPT ![i] = x] /\ row[i] \in RowRecord
      /\ UNCHANGED <<now, req, got, again>>
      /\ owed' = [r \in Reader |-> IF Ahead(r) THEN owed[r] \cup {i} ELSE owed[r]]
  BY DEF IInv, Commit, TypeOK
<1>2. /\ x \in RowRecord /\ x.status = "live" /\ x.table = row[i].table
      /\ x.tenant = row[i].tenant /\ x.tag = row[i].tag /\ x.at = row[i].at
  BY <1>1 DEF RowRecord
<1> HIDE DEF x
<1>3. \A k \in Row : row'[k] = IF k = i THEN x ELSE row[k]
  BY <1>1 DEF TypeOK
<1>4. owed' \in [Reader -> SUBSET Row]
  BY <1>1 DEF TypeOK
<1>5. TypeOK' /\ now <= now'
  BY <1>1, <1>2, <1>4, TimeAssumption DEF TypeOK, Time
<1>6. ~Visible(i) /\ Visible(i)'
  BY <1>1, <1>2, <1>3 DEF Visible
<1>7. \A k \in Row : Visible(k) =>
        /\ Visible(k)' /\ row'[k].table = row[k].table /\ row'[k].tenant = row[k].tenant
        /\ row'[k].tag = row[k].tag /\ row'[k].at = row[k].at
        /\ row[k].status = "ended" => row'[k].status = "ended"
  BY <1>3, <1>6 DEF Visible
<1>8. \A r \in Reader : owed'[r] = IF Ahead(r) THEN owed[r] \cup {i} ELSE owed[r]
  BY <1>1
<1>9. ASSUME NEW r \in Reader, req[r].op = "walk"
      PROVE  /\ owed[r] \subseteq owed'[r]
             /\ \A k \in Row : Visible(k) /\ k \in owed'[r] => k \in owed[r]
             /\ \A k \in Row : ~Visible(k) =>
                  (k \in owed'[r] <=> Matches(req[r].query, k)' /\ Beyond(req[r].cursor, k)')
  <2>1. \A k \in Row : ~Visible(k) => k \notin owed[r]
    BY <1>9 DEF IInv, WalkOK, Matches
  <2>2. Matches(req[r].query, i)' /\ Beyond(req[r].cursor, i)' <=> Ahead(r)
    BY <1>1, <1>2, <1>3, <1>6, <1>9 DEF Matches, Asked, Beyond
  <2>3. \A k \in Row : ~Visible(k) /\ k # i => ~Matches(req[r].query, k)'
    BY <1>3 DEF Matches, Visible
  <2> QED
    BY <1>6, <1>8, <2>1, <2>2, <2>3
<1>10. \A r \in Reader : req[r].op # "walk" => owed'[r] = owed[r]
  BY <1>8
<1> QED
  BY <1>1, <1>5, <1>7, <1>9, <1>10, WriterKeeps

LEMMA TickIInv ==
  ASSUME IInv, Tick
  PROVE  IInv'
<1>1. TypeOK /\ now < MaxTime /\ now' = now + 1 /\ UNCHANGED <<row, req, owed, got, again>>
  BY DEF IInv, Tick, history
<1>2. TypeOK' /\ now <= now'
  BY <1>1, TimeAssumption DEF TypeOK, Time
<1>3. \A r \in Reader, k \in Row :
        req[r].op = "walk" /\ ~Visible(k) => k \notin owed[r] /\ ~Matches(req[r].query, k)'
  BY <1>1 DEF IInv, WalkOK, Matches, Visible
<1> QED
  BY <1>1, <1>2, <1>3, WriterKeeps DEF Visible

(* A reader moves on to x: the others are left where they were.            *)
LEMMA ReaderMoves ==
  ASSUME IInv, NEW r \in Reader, NEW x \in ReaderState, req' = [req EXCEPT ![r] = x],
         UNCHANGED <<now, row>>,
         owed' \in [Reader -> SUBSET Row], got' \in [Reader -> SUBSET Row],
         again' \in [Reader -> SUBSET Row],
         \A p \in Reader : p # r => owed'[p] = owed[p] /\ got'[p] = got[p] /\ again'[p] = again[p],
         WalkOK(r)', RestOK(r)', OverviewOK(r)',
         x.op = "walked" =>
           owed'[r] \subseteq got'[r] /\ (~x.damaged => got'[r] = owed'[r]),
         ~x.damaged => again'[r] = {},
         \A c \in Counter \ {"recentAuditEvents"} :
           x.op = "overview" /\ c \notin x.todo => Current(r, c)',
         \A c \in Counter \ x.todo :
           x.op = "overview" /\ c = "recentAuditEvents" => Recent(r, req[r].answer[c])'
  PROVE  IInv'
<1>1. TypeOK /\ req' \in [Reader -> ReaderState] /\ req'[r] = x
      /\ \A p \in Reader : p # r => req'[p] = req[p]
  BY DEF IInv, TypeOK
<1>2. TypeOK'
  BY <1>1 DEF TypeOK
<1>3. ASSUME NEW p \in Reader, p # r
      PROVE  WalkOK(p)' /\ RestOK(p)' /\ OverviewOK(p)'
  <2>1. /\ req'[p] = req[p] /\ owed'[p] = owed[p] /\ got'[p] = got[p] /\ again'[p] = again[p]
        /\ WalkOK(p) /\ RestOK(p) /\ OverviewOK(p)
    BY <1>1, <1>3 DEF IInv
  <2>2. \A i \in Row : \A q : Matches(q, i) <=> Matches(q, i)'
    BY DEF Matches, Asked, Visible
  <2>3. \A i : \A c : Beyond(c, i) <=> Beyond(c, i)'
    BY DEF Beyond
  <2>4. owed[p] \subseteq Row
    BY <1>1 DEF TypeOK
  <2>5. WalkOK(p)'
    BY <2>1, <2>2, <2>3, <2>4 DEF WalkOK
  <2>6. RestOK(p)' /\ OverviewOK(p)'
    BY <2>1 DEF RestOK, OverviewOK, Visible
  <2> QED
    BY <2>5, <2>6
<1>4. WalkIsScan'
  <2> SUFFICES ASSUME NEW p \in Reader
               PROVE  /\ req'[p].op = "walked" =>
                           /\ owed'[p] \subseteq got'[p]
                           /\ ~req'[p].damaged => got'[p] = owed'[p]
                      /\ ~req'[p].damaged => again'[p] = {}
    BY DEF WalkIsScan
  <2> QED
    BY <1>1 DEF IInv, WalkIsScan
<1>5. CountsAreCurrent'
  <2> SUFFICES ASSUME NEW p \in Reader, NEW c \in Counter \ {"recentAuditEvents"},
                      req'[p].op = "overview", c \notin req'[p].todo
               PROVE  Current(p, c)'
    BY DEF CountsAreCurrent
  <2>1. CASE p = r
    BY <1>1, <2>1
  <2>2. CASE p # r
    <3>1. req'[p] = req[p] /\ Current(p, c)
      BY <1>1, <2>2 DEF IInv, CountsAreCurrent
    <3> QED
      BY <3>1 DEF Current
  <2> QED
    BY <2>1, <2>2
<1>6. RecentAreNewest'
  <2> SUFFICES ASSUME NEW p \in Reader, NEW c \in Counter \ req'[p].todo,
                      req'[p].op = "overview", c = "recentAuditEvents"
               PROVE  Recent(p, req[p].answer[c])'
    BY DEF RecentAreNewest
  <2>1. CASE p = r
    BY <1>1, <2>1
  <2>2. CASE p # r
    <3>1. req'[p] = req[p] /\ Recent(p, req[p].answer[c])
      BY <1>1, <2>2 DEF IInv, RecentAreNewest
    <3> QED
      BY <3>1 DEF Recent
  <2> QED
    BY <2>1, <2>2
<1> QED
  BY <1>2, <1>3, <1>4, <1>5, <1>6 DEF IInv

LEMMA IdleOK == Idle \in ReaderState /\ Idle.op = "none" /\ ~Idle.damaged
BY TimeAssumption DEF Idle, ReaderState, Time, Cursor

LEMMA WalkBeginIInv ==
  ASSUME IInv, NEW r \in Reader, NEW q \in Query, WalkBegin(r, q)
  PROVE  IInv'
<1> DEFINE x == [Idle EXCEPT !.op = "walk", !.query = q]
<1> DEFINE S == {i \in Row : Matches(q, i)}
<1>1. /\ TypeOK /\ req[r].op = "none" /\ req' = [req EXCEPT ![r] = x]
      /\ owed' = [owed EXCEPT ![r] = S] /\ UNCHANGED <<now, row, got, again>>
  BY DEF IInv, WalkBegin
<1>2. /\ x \in ReaderState /\ x.op = "walk" /\ x.query = q /\ x.cursor = None /\ ~x.damaged
  BY IdleOK DEF Idle, ReaderState
<1> HIDE DEF x
<1>4. /\ got[r] = {} /\ again[r] = {} /\ owed'[r] = S /\ req'[r] = x
      /\ owed' \in [Reader -> SUBSET Row] /\ \A p \in Reader : p # r => owed'[p] = owed[p]
  BY <1>1 DEF IInv, RestOK, TypeOK
<1>5. \A i \in Row : Matches(q, i)' <=> i \in S
  BY <1>1 DEF Matches, Asked, Visible
<1>6. \A i : Beyond(None, i)'
  BY DEF Beyond
<1>7. WalkOK(r)'
  BY <1>1, <1>2, <1>4, <1>5, <1>6, NullAssumption DEF WalkOK
<1>8. RestOK(r)' /\ OverviewOK(r)'
  BY <1>2, <1>4 DEF RestOK, OverviewOK
<1> QED
  BY <1>1, <1>2, <1>4, <1>7, <1>8, ReaderMoves DEF TypeOK

LEMMA LeaveIInv ==
  ASSUME IInv, NEW r \in Reader, Leave(r)
  PROVE  IInv'
<1>1. /\ TypeOK /\ req' = [req EXCEPT ![r] = Idle] /\ UNCHANGED <<now, row>>
      /\ owed' = [owed EXCEPT ![r] = {}] /\ got' = [got EXCEPT ![r] = {}]
      /\ again' = [again EXCEPT ![r] = {}]
  BY DEF IInv, Leave
<1>2. /\ owed' \in [Reader -> SUBSET Row] /\ got' \in [Reader -> SUBSET Row]
      /\ again' \in [Reader -> SUBSET Row]
      /\ owed'[r] = {} /\ got'[r] = {} /\ again'[r] = {} /\ req'[r] = Idle
      /\ \A p \in Reader : p # r => owed'[p] = owed[p] /\ got'[p] = got[p] /\ again'[p] = again[p]
  BY <1>1 DEF TypeOK
<1>3. WalkOK(r)' /\ RestOK(r)' /\ OverviewOK(r)'
  BY <1>2, IdleOK DEF WalkOK, RestOK, OverviewOK
<1> QED
  BY <1>1, <1>2, <1>3, IdleOK, ReaderMoves

LEMMA OverviewBeginIInv ==
  ASSUME IInv, NEW r \in Reader, NEW g \in Tenant, OverviewBegin(r, g)
  PROVE  IInv'
<1> DEFINE there == {i \in Row : Visible(i) /\ row[i].tenant = g}
<1> DEFINE gone == {i \in Row : row[i].status = "ended" /\ row[i].tenant = g}
<1> DEFINE x == [Idle EXCEPT !.op = "overview", !.tenant = g, !.at = now, !.todo = Counter,
                             !.there = there, !.gone = gone]
<1>1. /\ TypeOK /\ req[r].op = "none" /\ req' = [req EXCEPT ![r] = x]
      /\ UNCHANGED <<now, row, owed, got, again>>
  BY DEF IInv, OverviewBegin, history
<1>2. /\ x \in ReaderState /\ x.op = "overview" /\ x.tenant = g /\ x.at = now
      /\ x.todo = Counter /\ x.there = there /\ x.gone = gone /\ ~x.damaged
      /\ \A c \in Counter : x.answer[c] = {}
  BY <1>1, IdleOK DEF Idle, ReaderState, TypeOK
<1> HIDE DEF x
<1>3. /\ owed[r] = {} /\ got[r] = {} /\ again[r] = {} /\ req'[r] = x
  BY <1>1 DEF IInv, RestOK, TypeOK
<1>4. WalkOK(r)' /\ RestOK(r)'
  BY <1>1, <1>2, <1>3 DEF WalkOK, RestOK
<1>5. now <= now
  BY <1>1, TimeAssumption DEF TypeOK, Time
<1>6. OverviewOK(r)'
  BY <1>1, <1>2, <1>3, <1>5 DEF OverviewOK, Visible
<1> QED
  BY <1>1, <1>2, <1>3, <1>4, <1>6, ReaderMoves DEF TypeOK

(* The rows that are left out of the newest are older than all of them.    *)
LEMMA LeftOutIsOlder ==
  ASSUME NEW S \in SUBSET Row, NEW T \in Newest(S, Top), NEW i \in S \ T
  PROVE  /\ T \subseteq S /\ Cardinality(T) = Top
         /\ \A j \in T : row[j].at >= row[i].at
<1>1. /\ T \in SUBSET S /\ \A k \in T, j \in S \ T : row[k].at >= row[j].at
      /\ Cardinality(T) = IF Cardinality(S) <= Top THEN Cardinality(S) ELSE Top
  BY DEF Newest
<1>2. IsFiniteSet(S)
  BY RowAssumption, FS_Subset
<1>3. Cardinality(T) # Cardinality(S)
  BY <1>1, <1>2, FS_Subset
<1> QED
  BY <1>1, <1>3

LEMMA OverviewReadIInv ==
  ASSUME IInv, NEW r \in Reader, NEW c \in Counter, OverviewRead(r, c)
  PROVE  IInv'
<1> DEFINE found == Counted(c, req[r].tenant, req[r].at)
<1>1. /\ TypeOK /\ req[r].op = "overview" /\ c \in req[r].todo /\ req[r] \in ReaderState
      /\ UNCHANGED <<now, row, owed, got, again>> /\ OverviewOK(r)
  BY DEF IInv, OverviewRead, history, TypeOK
<1>2. PICK T \in IF c = "recentAuditEvents" THEN Newest(found, Top) ELSE {found} :
        req' = [req EXCEPT ![r].todo = @ \ {c}, ![r].answer[c] = T]
  BY DEF OverviewRead
<1> DEFINE x == [req[r] EXCEPT !.todo = @ \ {c}, !.answer[c] = T]
<1>3. found \subseteq Row
  BY DEF Counted
<1>4. T \subseteq found
  BY <1>2 DEF Newest
<1>5. x \in ReaderState
  <2>1. req[r].answer \in [Counter -> SUBSET Row] /\ T \in SUBSET Row
    BY <1>1, <1>3, <1>4 DEF ReaderState
  <2>2. [req[r].answer EXCEPT ![c] = T] \in [Counter -> SUBSET Row]
    BY <2>1
  <2> QED
    BY <1>1, <2>2 DEF ReaderState
<1>6. req' = [req EXCEPT ![r] = x] /\ req'[r] = x
  BY <1>1, <1>2 DEF TypeOK
<1>7. /\ x.op = "overview" /\ x.tenant = req[r].tenant /\ x.at = req[r].at
      /\ x.there = req[r].there /\ x.gone = req[r].gone /\ x.damaged = req[r].damaged
      /\ x.todo = req[r].todo \ {c}
      /\ \A d \in Counter : x.answer[d] = IF d = c THEN T ELSE req[r].answer[d]
  BY <1>1 DEF ReaderState
<1>8. owed[r] = {} /\ got[r] = {} /\ again[r] = {}
  BY <1>1 DEF IInv, RestOK
<1>9. \A i \in Row : Visible(i) <=> Visible(i)'
  BY <1>1 DEF Visible
<1>10. \A i \in found : /\ i \in Row /\ Visible(i) /\ row[i].table = TableOf[c]
                        /\ row[i].tenant = req[r].tenant
                        /\ c \in {"activeUsers", "apiKeys", "activeSessions"} =>
                             row[i].status = "live"
                        /\ c = "activeSessions" => row[i].at + SessionTtl > req[r].at
  BY DEF Counted
<1>11. ASSUME NEW i \in req[r].there, row[i].table = TableOf[c],
              c \in {"activeUsers", "apiKeys", "activeSessions"} => row[i].status = "live",
              c = "activeSessions" => row[i].at + SessionTtl > now
       PROVE  i \in found
  <2>1. i \in Row /\ Visible(i) /\ row[i].tenant = req[r].tenant
    BY <1>1 DEF OverviewOK, ReaderState
  <2>2. /\ row[i].at \in Nat /\ now \in Nat /\ SessionTtl \in Nat /\ req[r].at \in Nat
        /\ req[r].at <= now
    BY <1>1, <2>1, TimeAssumption DEF TypeOK, RowRecord, Time, OverviewOK, ReaderState
  <2>3. c = "activeSessions" => row[i].at + SessionTtl > req[r].at
    BY <1>11, <2>2
  <2> QED
    BY <1>11, <2>1, <2>3 DEF Counted
<1> HIDE DEF x, found
<1>12. OverviewOK(r)'
  <2>1. \A d \in Counter : \A i \in x.answer[d] : Visible(i)
    BY <1>1, <1>4, <1>7, <1>10 DEF OverviewOK
  <2>2. /\ x.at <= now /\ \A i \in x.there : Visible(i) /\ row[i].tenant = x.tenant
        /\ \A i \in x.gone : row[i].status = "ended"
    BY <1>1, <1>7 DEF OverviewOK
  <2> QED
    BY <1>1, <1>6, <2>1, <2>2 DEF OverviewOK, Visible
<1>13. WalkOK(r)' /\ RestOK(r)'
  BY <1>1, <1>6, <1>7, <1>8 DEF WalkOK, RestOK
<1>14. ASSUME NEW d \in Counter \ {"recentAuditEvents"}, d \notin x.todo
       PROVE  Current(r, d)'
  <2>1. CASE d = c
    <3>1. T = found
      BY <1>2, <1>14, <2>1
    <3>2. \A i \in req[r].gone : row[i].status = "ended"
      BY <1>1 DEF OverviewOK
    <3>3. x.answer[d] = found
      BY <1>7, <2>1, <3>1
    <3>4. ASSUME NEW i \in req[r].there, row[i].status = "live", row[i].table = TableOf[d],
                 d = "activeSessions" => row[i].at + SessionTtl > now
          PROVE  i \in found
      BY <1>11, <2>1, <3>4
    <3>5. d \in {"activeUsers", "apiKeys", "activeSessions"} => found \cap req[r].gone = {}
      BY <1>10, <2>1, <3>2
    <3>6. \A i \in found : /\ row[i].tenant = req[r].tenant
                           /\ d = "activeSessions" => row[i].at + SessionTtl > req[r].at
      BY <1>10, <2>1
    <3> QED
      BY <1>1, <1>6, <1>7, <3>3, <3>4, <3>5, <3>6 DEF Current
  <2>2. CASE d # c
    <3>1. Current(r, d) /\ x.answer[d] = req[r].answer[d]
      BY <1>1, <1>7, <1>14, <2>2 DEF IInv, CountsAreCurrent
    <3> QED
      BY <1>1, <1>6, <1>7, <3>1 DEF Current
  <2> QED
    BY <2>1, <2>2
<1>15. ASSUME NEW d \in Counter \ x.todo, d = "recentAuditEvents"
       PROVE  Recent(r, req[r].answer[d])'
  <2>1. CASE d = c
    <3>1. T \in Newest(found, Top) /\ x.answer[d] = T
      BY <1>2, <1>7, <1>15, <2>1
    <3>2. ASSUME NEW i \in req[r].there \ T, row[i].table = "audit_logs"
          PROVE  Cardinality(T) = Top /\ \A j \in T : row[j].at >= row[i].at
      <4>1. i \in found
        BY <1>11, <1>15, <2>1, <3>2 DEF TableOf
      <4> QED
        BY <1>3, <3>1, <4>1, LeftOutIsOlder
    <3> QED
      BY <1>1, <1>6, <1>7, <3>1, <3>2 DEF Recent
  <2>2. CASE d # c
    <3>1. Recent(r, req[r].answer[d]) /\ x.answer[d] = req[r].answer[d]
      BY <1>1, <1>7, <1>15, <2>2 DEF IInv, RecentAreNewest
    <3> QED
      BY <1>1, <1>6, <1>7, <3>1 DEF Recent
  <2> QED
    BY <2>1, <2>2
<1> QED
  BY <1>1, <1>5, <1>6, <1>7, <1>8, <1>12, <1>13, <1>14, <1>15, ReaderMoves DEF TypeOK

(* A cursor that names a row beyond another is beyond it with all it leads *)
(* to.                                                                     *)
LEMMA Onward ==
  ASSUME TypeOK, NEW c \in Cursor, NEW next \in Cursor, next # None, next # Broken,
         NEW k \in Row, next.at = row[k].at, next.id = k, Beyond(c, k),
         NEW i \in Row, Beyond(next, i)
  PROVE  Beyond(c, i)
<1>1. \A j \in Row : row[j].at \in Nat /\ j \in Nat
  BY RowAssumption, TimeAssumption DEF TypeOK, RowRecord, Time
<1>2. CASE c \in {None, Broken}
  BY <1>2 DEF Beyond
<1>3. CASE c \in [at : Time, id : Row]
  <2>1. c.at \in 0..MaxTime /\ c.id \in Row
    BY <1>3 DEF Time
  <2>2. c.id \in Nat
    BY <2>1, RowAssumption
  <2>3. c.at \in Nat
    BY <2>1, TimeAssumption
  <2> QED
    BY <1>1, <2>2, <2>3 DEF Beyond
<1> QED
  BY <1>2, <1>3 DEF Cursor

LEMMA WalkPageIInv ==
  ASSUME IInv, NEW r \in Reader, NEW limit \in Limit, NEW c \in {req[r].cursor, Broken},
         WalkPage(r, limit, c)
  PROVE  IInv'
<1> DEFINE n == Normalized(limit)
<1> DEFINE q == req[r].query
<1> DEFINE S == {i \in Row : Matches(q, i) /\ Beyond(c, i)}
<1> DEFINE page == FirstOf(S, n)
<1> DEFINE hurt == req[r].damaged \/ c = Broken
<1>1. /\ TypeOK /\ req[r].op = "walk" /\ req[r] \in ReaderState /\ WalkOK(r)
      /\ UNCHANGED <<now, row, owed>>
      /\ got' = [got EXCEPT ![r] = got[r] \cup page]
      /\ again' = [again EXCEPT ![r] = again[r] \cup (got[r] \cap page)]
  BY DEF IInv, WalkPage, TypeOK
<1>2. \/ /\ Cardinality(S) > n
         /\ \E next \in NextCursor(S, page) :
              req' = [req EXCEPT ![r].cursor = next, ![r].damaged = @ \/ c = Broken]
      \/ /\ Cardinality(S) <= n
         /\ req' = [req EXCEPT ![r].op = "walked", ![r].damaged = @ \/ c = Broken]
  BY DEF WalkPage
<1>3. /\ S \in SUBSET Row /\ page \subseteq S /\ n \in Nat /\ hurt \in BOOLEAN
      /\ c \in Cursor /\ req[r].cursor \in Cursor /\ req[r].cursor # Broken
  BY <1>1, LimitIsPositive DEF FirstOf, WalkOK, ReaderState, Cursor
<1>4. /\ owed[r] \subseteq Row /\ got[r] \subseteq Row
      /\ got'[r] = got[r] \cup page /\ again'[r] = again[r] \cup (got[r] \cap page)
      /\ got' \in [Reader -> SUBSET Row] /\ again' \in [Reader -> SUBSET Row]
      /\ \A p \in Reader : p # r => got'[p] = got[p] /\ again'[p] = again[p]
  BY <1>1, <1>3 DEF TypeOK
<1>5. \A i \in owed[r] : Matches(q, i) /\ (i \in got[r] \/ i \in S)
  <2>1. \A i \in owed[r] : Matches(q, i) /\ (i \in got[r] \/ Beyond(req[r].cursor, i))
    BY <1>1 DEF WalkOK
  <2>2. \A i \in Row : Beyond(Broken, i)
    BY DEF Beyond
  <2> QED
    BY <1>4, <2>1, <2>2
<1>6. ASSUME ~hurt
      PROVE  /\ c = req[r].cursor /\ again'[r] = {} /\ got'[r] \subseteq owed[r]
             /\ \A i \in got[r] : ~Beyond(c, i)
             /\ \A i \in Row : Matches(q, i) /\ Beyond(c, i) => i \in owed[r]
  <2>1. /\ c = req[r].cursor /\ again[r] = {} /\ got[r] \subseteq owed[r]
        /\ \A i \in got[r] : ~Beyond(c, i)
        /\ \A i \in Row : Matches(q, i) /\ Beyond(c, i) => i \in owed[r]
    BY <1>1, <1>6 DEF WalkOK
  <2> QED
    BY <1>3, <1>4, <2>1
<1>7. ASSUME NEW i \in Row
      PROVE  /\ \A p : Matches(p, i) <=> Matches(p, i)'
             /\ \A d : Beyond(d, i) <=> Beyond(d, i)'
  BY <1>1 DEF Matches, Asked, Visible, Beyond
<1>8. ASSUME NEW next \in NextCursor(S, page),
             req' = [req EXCEPT ![r].cursor = next, ![r].damaged = @ \/ c = Broken]
      PROVE  IInv'
  <2> DEFINE x == [req[r] EXCEPT !.cursor = next, !.damaged = hurt]
  <2>1. req' = [req EXCEPT ![r] = x]
    BY <1>1, <1>8 DEF TypeOK
  <2>2. PICK k \in page : next.at = row[k].at /\ next.id = k
    BY <1>1, <1>3, CursorIsLast
  <2>3. /\ next \in Cursor /\ next # None /\ next # Broken
        /\ \A i \in page : ~Beyond(next, i)
        /\ \A i \in S \ page : Beyond(next, i)
    BY <1>1, <1>3, CursorIsLast
  <2>4. k \in Row /\ Beyond(c, k)
    BY <1>3, <2>2
  <2>5. /\ x \in ReaderState /\ x.op = "walk" /\ x.query = q /\ x.cursor = next /\ x.damaged = hurt
        /\ req'[r] = x
    BY <1>1, <1>3, <2>1, <2>3 DEF ReaderState, TypeOK
  <2>6. \A i \in owed[r] : Matches(q, i) /\ (i \in got'[r] \/ Beyond(next, i))
    BY <1>4, <1>5, <2>3
  <2>7. ASSUME ~hurt
        PROVE  /\ \A i \in got'[r] : ~Beyond(next, i)
               /\ \A i \in Row : Matches(q, i) /\ Beyond(next, i) => i \in owed[r]
    <3>1. \A i \in Row : Beyond(next, i) => Beyond(c, i)
      BY <1>1, <1>3, <2>2, <2>3, <2>4, Onward
    <3>2. \A i \in got[r] : ~Beyond(next, i)
      BY <1>4, <1>6, <2>7, <3>1
    <3> QED
      BY <1>4, <1>6, <2>3, <2>7, <3>1, <3>2
  <2> HIDE DEF S, page, hurt, x
  <2>8. WalkOK(r)'
    BY <1>1, <1>4, <1>6, <1>7, <2>3, <2>5, <2>6, <2>7 DEF WalkOK
  <2>9. RestOK(r)' /\ OverviewOK(r)'
    BY <2>5 DEF RestOK, OverviewOK
  <2> QED
    BY <1>1, <1>4, <1>6, <2>1, <2>5, <2>8, <2>9, ReaderMoves DEF TypeOK
<1>9. ASSUME Cardinality(S) <= n,
             req' = [req EXCEPT ![r].op = "walked", ![r].damaged = @ \/ c = Broken]
      PROVE  IInv'
  <2> DEFINE x == [req[r] EXCEPT !.op = "walked", !.damaged = hurt]
  <2>1. page = S
    BY <1>1, <1>3, <1>9, LastPageIsRest
  <2>2. req' = [req EXCEPT ![r] = x]
    BY <1>1, <1>9 DEF TypeOK
  <2>3. x \in ReaderState /\ x.op = "walked" /\ x.damaged = hurt /\ req'[r] = x
    BY <1>1, <1>3, <2>2 DEF ReaderState, TypeOK
  <2>4. owed[r] \subseteq got'[r]
    BY <1>4, <1>5, <2>1
  <2> HIDE DEF S, page, hurt, x
  <2>5. WalkOK(r)' /\ RestOK(r)' /\ OverviewOK(r)'
    BY <2>3 DEF WalkOK, RestOK, OverviewOK
  <2> QED
    BY <1>1, <1>4, <1>6, <2>2, <2>3, <2>4, <2>5, ReaderMoves DEF TypeOK
<1> QED
  BY <1>2, <1>8, <1>9

(* Init establishes IInv and every step keeps it.                          *)
LEMMA InitIInv == Init => IInv
<1> SUFFICES ASSUME Init PROVE IInv
  OBVIOUS
<1>1. NoRow \in RowRecord
  BY TimeAssumption DEF RowRecord, NoRow, Time
<1>2. /\ TypeOK /\ \A r \in Reader : req[r] = Idle /\ owed[r] = {} /\ got[r] = {} /\ again[r] = {}
  BY <1>1, IdleOK, TimeAssumption DEF Init, TypeOK, Time
<1>3. \A r \in Reader : req[r].op = "none" /\ ~req[r].damaged
  BY <1>2, IdleOK
<1>4. \A r \in Reader : WalkOK(r) /\ RestOK(r) /\ OverviewOK(r)
  BY <1>2, <1>3 DEF WalkOK, RestOK, OverviewOK
<1> QED
  BY <1>2, <1>3, <1>4 DEF IInv, WalkIsScan, CountsAreCurrent, RecentAreNewest

LEMMA NextIInv == IInv /\ [Next]_vars => IInv'
<1> SUFFICES ASSUME IInv, [Next]_vars PROVE IInv'
  OBVIOUS
<1>1. CASE Tick
  BY <1>1, TickIInv
<1>2. ASSUME NEW i \in Row, Write(i) PROVE IInv'
  BY <1>2, InsertIInv, CommitIInv, AbortIInv, EndIInv DEF Write
<1>3. ASSUME NEW r \in Reader, Read(r) PROVE IInv'
  BY <1>3, WalkBeginIInv, WalkPageIInv, OverviewBeginIInv, OverviewReadIInv, LeaveIInv DEF Read
<1>4. CASE UNCHANGED vars
  <2>1. UNCHANGED <<now, row, req, owed, got, again>>
    BY <1>4 DEF vars
  <2> QED
    BY <2>1 DEF IInv, TypeOK, WalkOK, RestOK, OverviewOK, WalkIsScan,
                CountsAreCurrent, RecentAreNewest, Current, Recent, Visible, Matches, Asked, Beyond
<1> QED
  BY <1>1, <1>2, <1>3, <1>4 DEF Next

THEOREM Invariance == Spec => []IInv
BY InitIInv, NextIInv, PTL DEF Spec

THEOREM TypeCorrect == Spec => []TypeOK
<1>1. IInv => TypeOK
  BY DEF IInv
<1> QED
  BY <1>1, Invariance, PTL

(* A walk by cursor returns what one scan of the list would.               *)
THEOREM WalksAreScans == Spec => []WalkIsScan
<1>1. IInv => WalkIsScan
  BY DEF IInv
<1> QED
  BY <1>1, Invariance, PTL

(* What the overview counts is of the caller's tenant, leaves out nothing  *)
(* that was there all along and counts nothing that had ended before.      *)
THEOREM CountsStayCurrent == Spec => []CountsAreCurrent
<1>1. IInv => CountsAreCurrent
  BY DEF IInv
<1> QED
  BY <1>1, Invariance, PTL

(* The recent events of the overview leave out none that was there before  *)
(* it began, unless the page is full of others as new.                     *)
THEOREM RecentStaysNewest == Spec => []RecentAreNewest
<1>1. IInv => RecentAreNewest
  BY DEF IInv
<1> QED
  BY <1>1, Invariance, PTL

(* No page but the last leaves the cursor where it was.                    *)
THEOREM WalksAdvance == Spec => WalkAdvances
<1> DEFINE Advances ==
      \A r \in Reader, limit \in Limit :
        WalkPage(r, limit, req[r].cursor) /\ req'[r].op = "walk" =>
          Moved(req[r].cursor, req'[r].cursor)
<1>1. ASSUME IInv, [Next]_vars PROVE [Advances]_vars
  <2> SUFFICES ASSUME NEW r \in Reader, NEW limit \in Limit,
                      WalkPage(r, limit, req[r].cursor), req'[r].op = "walk"
               PROVE  Moved(req[r].cursor, req'[r].cursor)
    OBVIOUS
  <2> DEFINE n == Normalized(limit)
  <2> DEFINE c == req[r].cursor
  <2> DEFINE S == {i \in Row : Matches(req[r].query, i) /\ Beyond(c, i)}
  <2>1. TypeOK /\ n \in Nat /\ S \in SUBSET Row /\ c \in Cursor /\ c # Broken /\ req[r] \in ReaderState
    BY <1>1, LimitIsPositive DEF IInv, WalkOK, WalkPage, TypeOK, ReaderState
  <2>2. PICK next \in NextCursor(S, FirstOf(S, n)) : req'[r].cursor = next
    <3>1. CASE \E next \in NextCursor(S, FirstOf(S, n)) :
                 req' = [req EXCEPT ![r].cursor = next, ![r].damaged = @ \/ c = Broken]
      <4>1. PICK next \in NextCursor(S, FirstOf(S, n)) :
              req' = [req EXCEPT ![r].cursor = next, ![r].damaged = @ \/ c = Broken]
        BY <3>1
      <4>2. req'[r] = [req[r] EXCEPT !.cursor = next, !.damaged = @ \/ c = Broken]
        BY <2>1, <4>1 DEF TypeOK
      <4> QED
        BY <2>1, <4>2 DEF ReaderState
    <3>2. CASE req' = [req EXCEPT ![r].op = "walked", ![r].damaged = @ \/ c = Broken]
      BY <1>1, <2>1, <3>2 DEF IInv, TypeOK, ReaderState
    <3> QED
      BY <3>1, <3>2 DEF WalkPage
  <2>3. PICK k \in FirstOf(S, n) : next.at = row[k].at /\ next.id = k
    BY <2>1, CursorIsLast
  <2>4. Beyond(c, k)
    BY <2>3 DEF FirstOf
  <2> QED
    BY <2>1, <2>2, <2>3, <2>4 DEF Moved, Beyond
<1>2. Spec => [][Advances]_vars
  BY <1>1, Invariance, PTL DEF Spec
<1> QED
  BY <1>2 DEF WalkAdvances
===============================================================================
