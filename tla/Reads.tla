-------------------------------- MODULE Reads ---------------------------------
(***************************************************************************)
(* The read side of the gateway: lists of roles, API keys and audit events *)
(* that a client walks page by page with a cursor, and the overview of the *)
(* dashboard, put together from statements that share no snapshot.  Other  *)
(* requests write the tables all the while.                                *)
(*                                                                         *)
(* A step is one database statement.  A page is one statement, so nothing  *)
(* of a walk is kept by the server: its state is the cursor that the       *)
(* client sends back.                                                      *)
(***************************************************************************)
EXTENDS Naturals, FiniteSets

CONSTANTS
  Reader,        \* clients that read
  Row,           \* ids of rows; ids are compared, so they are numbers
  Table,         \* the tables that have rows at all
  Tenant,
  Tag,           \* what the filters of the audit list compare, as one column
  Limit,         \* values of ?limit=, None when it is not sent
  DefaultLimit, MaxLimit,
  Top,           \* how many audit events the overview shows
  SessionTtl,    \* JWT_REFRESH_TTL_SECONDS
  MaxTime,       \* bound on the clock
  None, Broken   \* no cursor; one that does not decode

Tables == {"users", "roles", "api_keys", "sessions", "audit_logs"}
Listed == {"roles", "api_keys", "audit_logs"}
Endable == {"users", "api_keys", "sessions"}

ASSUME RowAssumption == Row \subseteq Nat /\ IsFiniteSet(Row)
ASSUME TableAssumption == Table \subseteq Tables
ASSUME LimitAssumption ==
  /\ Limit \subseteq Nat \cup {None} /\ None \notin Nat
  /\ DefaultLimit \in Nat \ {0} /\ MaxLimit \in Nat \ {0}
ASSUME TimeAssumption == MaxTime \in Nat /\ SessionTtl \in Nat /\ Top \in Nat
ASSUME NullAssumption == None \notin Tag /\ None \notin Tenant /\ None # Broken
ASSUME CursorAssumption ==
  \A t \in 0..MaxTime, i \in Row : [at |-> t, id |-> i] # None /\ [at |-> t, id |-> i] # Broken

VARIABLES
  now,     \* the clock of the database and of the handlers
  row,     \* the rows of all tables
  req,     \* what each reader is doing
  owed,    \* history: the rows that a walk must return before it ends
  got,     \* history: the rows that a walk has returned
  again    \* history: those of them it has returned twice or more

vars == <<now, row, req, owed, got, again>>
history == <<owed, got, again>>

Time == 0..MaxTime

(* An insert stamps createdAt when it starts; the row is "writing" until   *)
(* the statement commits.  "ended": a user not ACTIVE, a key or a session  *)
(* revoked.                                                                *)
NoRow == [status |-> "absent", table |-> None, tenant |-> None, tag |-> None, at |-> 0]
Visible(i) == row[i].status \in {"live", "ended"}

(* TableOf: what each statement of the overview reads.                     *)
TableOf == [users |-> "users", activeUsers |-> "users", roles |-> "roles",
            apiKeys |-> "api_keys", activeSessions |-> "sessions",
            recentAuditEvents |-> "audit_logs"]
Counter == {c \in DOMAIN TableOf : TableOf[c] \in Table}

(* What a list is asked for; an absent since or until is the end of time.  *)
(* Only the audit list has filters.                                        *)
Query ==
  {q \in [table : Listed \cap Table, tenant : Tenant, tag : Tag \cup {None},
          since : Time, until : Time] :
     q.table # "audit_logs" => q.tag = None /\ q.since = 0 /\ q.until = MaxTime}

(* A reader at rest.  query: of a walk; cursor: the client's copy; damaged:*)
(* history, did the server get a cursor of this walk that does not decode? *)
(* at: the clock when an overview began; todo, answer: the statements left *)
(* and the rows that the others found; there, gone: history, the tenant's  *)
(* rows that were visible, and of those the ones ended, when it began.     *)
Idle == [op |-> "none", query |-> None, cursor |-> None, damaged |-> FALSE, tenant |-> None,
         at |-> 0, todo |-> {}, answer |-> [c \in Counter |-> {}],
         there |-> {}, gone |-> {}]

Init ==
  /\ now = 0
  /\ row = [i \in Row |-> NoRow]
  /\ req = [r \in Reader |-> Idle]
  /\ owed = [r \in Reader |-> {}] /\ got = [r \in Reader |-> {}]
  /\ again = [r \in Reader |-> {}]

-------------------------------------------------------------------------------
(* Lists.                                                                  *)

(* normalizeLimit.                                                         *)
Normalized(limit) ==
  IF limit = None \/ limit = 0 THEN DefaultLimit
  ELSE IF limit <= MaxLimit THEN limit ELSE MaxLimit

(* The order of every list: createdAt DESC, id DESC.                       *)
Precedes(i, j) == row[i].at > row[j].at \/ (row[i].at = row[j].at /\ i > j)

(* The where clause of the three list methods, without the cursor.         *)
Asked(q, i) ==
  /\ row[i].table = q.table /\ row[i].tenant = q.tenant
  /\ q.tag = None \/ row[i].tag = q.tag
  /\ q.since <= row[i].at /\ row[i].at <= q.until
Matches(q, i) == Visible(i) /\ Asked(q, i)

(* Slips: ties of createdAt are skipped; or the last row comes again.      *)
BeyondInTime(c, i)  == c \in {None, Broken} \/ row[i].at < c.at
BeyondOrAt(c, i) ==
  \/ c \in {None, Broken}
  \/ row[i].at < c.at
  \/ row[i].at = c.at /\ i <= c.id

(* cursorWhere: strictly after the row that the cursor names.  A cursor    *)
(* that does not decode counts as none.                                    *)
Beyond(c, i) ==
  \/ c \in {None, Broken}
  \/ row[i].at < c.at
  \/ row[i].at = c.at /\ i < c.id

(* orderBy and take: the first n of a set of rows.                         *)
FirstOf(S, n) == {i \in S : Cardinality({j \in S : Precedes(j, i)}) < n}

(* Slip: the page ends where the row that was peeked at begins.            *)
CursorAtPeek(S, page) ==
  {[at |-> row[i].at, id |-> i] : i \in {k \in S \ page : \A j \in S \ page : k = j \/ Precedes(k, j)}}

(* buildPage: limit + 1 rows are taken; when the row too many is there the *)
(* cursor names the last row of the page.                                  *)
NextCursor(S, page) ==
  {[at |-> row[i].at, id |-> i] : i \in {k \in page : \A j \in page : k = j \/ Precedes(j, k)}}

WalkBegin(r, q) ==
  /\ req[r].op = "none"
  /\ req' = [req EXCEPT ![r] = [Idle EXCEPT !.op = "walk", !.query = q]]
  /\ owed' = [owed EXCEPT ![r] = {i \in Row : Matches(q, i)}]
  /\ UNCHANGED <<now, row, got, again>>

(* The client asks for a page with the cursor c, its own or a broken copy. *)
WalkPage(r, limit, c) ==
  LET n    == Normalized(limit)
      S    == {i \in Row : Matches(req[r].query, i) /\ Beyond(c, i)}
      page == FirstOf(S, n) IN
  /\ req[r].op = "walk"
  /\ c = req[r].cursor \/ (c = Broken /\ ~req[r].damaged /\ req[r].cursor # None)
  /\ got' = [got EXCEPT ![r] = @ \cup page]
  /\ again' = [again EXCEPT ![r] = @ \cup (got[r] \cap page)]
  /\ \/ /\ Cardinality(S) > n
        /\ \E next \in NextCursor(S, page) :
             req' = [req EXCEPT ![r].cursor = next, ![r].damaged = @ \/ c = Broken]
     \/ /\ Cardinality(S) <= n
        /\ req' = [req EXCEPT ![r].op = "walked", ![r].damaged = @ \/ c = Broken]
  /\ UNCHANGED <<now, row, owed>>

-------------------------------------------------------------------------------
(* The overview.                                                           *)

(* Slip: a revoked session counts until it expires.                        *)
CountedThoughRevoked(c, g, t) ==
  {i \in Row : /\ Visible(i) /\ row[i].table = TableOf[c] /\ row[i].tenant = g
               /\ c \in {"activeUsers", "apiKeys"} => row[i].status = "live"
               /\ c = "activeSessions" => row[i].at + SessionTtl > t}

(* The rows of tenant g that the statement c is about, at time t.          *)
Counted(c, g, t) ==
  {i \in Row : /\ Visible(i) /\ row[i].table = TableOf[c] /\ row[i].tenant = g
               /\ c \in {"activeUsers", "apiKeys"} => row[i].status = "live"
               /\ c = "activeSessions" => row[i].status = "live" /\ row[i].at + SessionTtl > t}

(* Slip: the oldest events are taken.                                      *)
Oldest(S, n) ==
  {T \in SUBSET S : /\ Cardinality(T) = IF Cardinality(S) <= n THEN Cardinality(S) ELSE n
                    /\ \A i \in T, j \in S \ T : row[i].at <= row[j].at}

(* orderBy createdAt DESC, take: rows of one createdAt come in any order.  *)
Newest(S, n) ==
  {T \in SUBSET S : /\ Cardinality(T) = IF Cardinality(S) <= n THEN Cardinality(S) ELSE n
                    /\ \A i \in T, j \in S \ T : row[i].at >= row[j].at}

(* Promise.all: new Date() is read as the statements are sent, together.   *)
OverviewBegin(r, g) ==
  /\ req[r].op = "none"
  /\ req' = [req EXCEPT ![r] =
       [Idle EXCEPT !.op = "overview", !.tenant = g, !.at = now, !.todo = Counter,
                    !.there = {i \in Row : Visible(i) /\ row[i].tenant = g},
                    !.gone = {i \in Row : row[i].status = "ended" /\ row[i].tenant = g}]]
  /\ UNCHANGED <<now, row, history>>

(* They are executed in any order, on connections of their own.            *)
OverviewRead(r, c) ==
  LET found == Counted(c, req[r].tenant, req[r].at) IN
  /\ req[r].op = "overview" /\ c \in req[r].todo
  /\ \E T \in IF c = "recentAuditEvents" THEN Newest(found, Top) ELSE {found} :
       req' = [req EXCEPT ![r].todo = @ \ {c}, ![r].answer[c] = T]
  /\ UNCHANGED <<now, row, history>>

(* The answer, or the last page, has been used: the reader starts afresh.  *)
Leave(r) ==
  /\ req[r].op = "walked" \/ (req[r].op = "overview" /\ req[r].todo = {})
  /\ req' = [req EXCEPT ![r] = Idle]
  /\ owed' = [owed EXCEPT ![r] = {}] /\ got' = [got EXCEPT ![r] = {}]
  /\ again' = [again EXCEPT ![r] = {}]
  /\ UNCHANGED <<now, row>>

-------------------------------------------------------------------------------
(* The writers: the inserts and updates of the use cases, each reduced to  *)
(* what the reads can see of it.  No code deletes a row of these tables or *)
(* changes its createdAt.                                                  *)

Insert(i, t, g, tag) ==
  /\ row[i].status = "absent"
  /\ tag # None <=> t = "audit_logs"
  /\ row' = [row EXCEPT ![i] =
               [status |-> "writing", table |-> t, tenant |-> g, tag |-> tag, at |-> now]]
  /\ UNCHANGED <<now, req, history>>

(* A walk owes the new row when the row is ahead of its cursor.            *)
Commit(i) ==
  /\ row[i].status = "writing"
  /\ row' = [row EXCEPT ![i].status = "live"]
  /\ owed' = [r \in Reader |->
                IF req[r].op = "walk" /\ Asked(req[r].query, i) /\ Beyond(req[r].cursor, i)
                THEN owed[r] \cup {i} ELSE owed[r]]
  /\ UNCHANGED <<now, req, got, again>>

(* The insert fails, on a unique key or with its connection.               *)
Abort(i) ==
  /\ row[i].status = "writing"
  /\ row' = [row EXCEPT ![i] = NoRow]
  /\ UNCHANGED <<now, req, history>>

(* A user is disabled or locked, a key or a session revoked.               *)
End(i) ==
  /\ row[i].status = "live" /\ row[i].table \in Endable
  /\ row' = [row EXCEPT ![i].status = "ended"]
  /\ UNCHANGED <<now, req, history>>

Tick ==
  /\ now < MaxTime
  /\ now' = now + 1
  /\ UNCHANGED <<row, req, history>>

Write(i) ==
  \/ \E t \in Table, g \in Tenant, tag \in Tag \cup {None} : Insert(i, t, g, tag)
  \/ Commit(i) \/ Abort(i) \/ End(i)

Read(r) ==
  \/ \E q \in Query : WalkBegin(r, q)
  \/ \E limit \in Limit, c \in {req[r].cursor, Broken} : WalkPage(r, limit, c)
  \/ \E g \in Tenant : OverviewBegin(r, g)
  \/ \E c \in Counter : OverviewRead(r, c)
  \/ Leave(r)

Next == Tick \/ (\E i \in Row : Write(i)) \/ (\E r \in Reader : Read(r))

Spec == Init /\ [][Next]_vars

-------------------------------------------------------------------------------
(* The rows, the readers and the histories have their types.               *)
RowRecord == [status : {"absent", "writing", "live", "ended"}, table : Tables \cup {None},
              tenant : Tenant \cup {None}, tag : Tag \cup {None}, at : Time]
Cursor == [at : Time, id : Row] \cup {None, Broken}
ReaderState ==
  [op : {"none", "walk", "walked", "overview"}, query : Query \cup {None}, cursor : Cursor,
   damaged : BOOLEAN, tenant : Tenant \cup {None}, at : Time, todo : SUBSET Counter,
   answer : [Counter -> SUBSET Row], there : SUBSET Row, gone : SUBSET Row]

TypeOK ==
  /\ now \in Time
  /\ row \in [Row -> RowRecord]
  /\ req \in [Reader -> ReaderState]
  /\ owed \in [Reader -> SUBSET Row]
  /\ got \in [Reader -> SUBSET Row]
  /\ again \in [Reader -> SUBSET Row]

(* A walk that ends has returned every matching row that was visible when  *)
(* it began, and every one that was committed ahead of its cursor since,   *)
(* however many carry the same createdAt and whatever the page sizes.      *)
(* Unless a broken cursor made it start over, it has returned no other row *)
(* and, from its first page on, no row twice.                              *)
WalkIsScan ==
  \A r \in Reader :
    /\ req[r].op = "walked" => owed[r] \subseteq got[r]
    /\ ~req[r].damaged => again[r] = {}
    /\ req[r].op = "walked" /\ ~req[r].damaged => got[r] = owed[r]

(* The counts of an overview share no snapshot, yet each can be trusted    *)
(* for what lasts: a row live from before the request until now is counted *)
(* and no row that had ended, or session that had expired, before it is.   *)
Current(r, c) ==
  /\ \A i \in req[r].there :
       /\ row[i].status = "live" /\ row[i].table = TableOf[c]
       /\ c = "activeSessions" => row[i].at + SessionTtl > now
       => i \in req[r].answer[c]
  /\ c \in {"activeUsers", "apiKeys", "activeSessions"} =>
       req[r].answer[c] \cap req[r].gone = {}
  /\ \A i \in req[r].answer[c] :
       /\ row[i].tenant = req[r].tenant
       /\ c = "activeSessions" => row[i].at + SessionTtl > req[r].at
CountsAreCurrent ==
  \A r \in Reader, c \in Counter \ {"recentAuditEvents"} :
    req[r].op = "overview" /\ c \notin req[r].todo => Current(r, c)

(* An audit event that was visible when the overview began is missing from *)
(* its recent events only if Top events at least as new are there.         *)
Recent(r, T) ==
  \A i \in req[r].there \ T :
    row[i].table = "audit_logs" =>
      /\ Cardinality(T) = Top
      /\ \A j \in T : row[j].at >= row[i].at
RecentAreNewest ==
  \A r \in Reader : \A c \in Counter \ req[r].todo :
    req[r].op = "overview" /\ c = "recentAuditEvents" => Recent(r, req[r].answer[c])

(* Every page of a walk but the last moves its cursor strictly on, so that *)
(* a client that follows the cursor comes to the end of the list, whatever *)
(* is inserted meanwhile.                                                  *)
Moved(c, d) == c = None \/ d.at < c.at \/ (d.at = c.at /\ d.id < c.id)
WalkAdvances ==
  [][\A r \in Reader, limit \in Limit :
       WalkPage(r, limit, req[r].cursor) /\ req'[r].op = "walk" =>
         Moved(req[r].cursor, req'[r].cursor)]_vars

(* The inductive invariant: what a cursor says of the rows on either side  *)
(* of it, and what an unfinished overview still knows of the tables.       *)
WalkOK(r) ==
  req[r].op = "walk" =>
    /\ req[r].cursor # Broken
    /\ \A i \in owed[r] : Matches(req[r].query, i) /\ (i \in got[r] \/ Beyond(req[r].cursor, i))
    /\ ~req[r].damaged =>
         /\ again[r] = {} /\ got[r] \subseteq owed[r]
         /\ \A i \in got[r] : ~Beyond(req[r].cursor, i)
         /\ \A i \in Row : Matches(req[r].query, i) /\ Beyond(req[r].cursor, i) => i \in owed[r]

RestOK(r) ==
  req[r].op \in {"none", "overview"} => owed[r] = {} /\ got[r] = {} /\ again[r] = {}

OverviewOK(r) ==
  req[r].op = "overview" =>
    /\ req[r].at <= now
    /\ \A i \in req[r].there : Visible(i) /\ row[i].tenant = req[r].tenant
    /\ \A i \in req[r].gone : row[i].status = "ended"
    /\ \A c \in Counter : \A i \in req[r].answer[c] : Visible(i)

IInv ==
  /\ TypeOK
  /\ \A r \in Reader : WalkOK(r) /\ RestOK(r) /\ OverviewOK(r)
  /\ WalkIsScan
  /\ CountsAreCurrent /\ RecentAreNewest
===============================================================================
