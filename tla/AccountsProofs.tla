---------------------------- MODULE AccountsProofs ----------------------------
(***************************************************************************)
(* The safety properties of Accounts, proved for every value of its        *)
(* constants.  Each action preserves the inductive invariant IInv; the     *)
(* properties follow from it.  Most actions only move one request on: for  *)
(* those MoveOn reduces the invariant to the slot that moved.  At the end: *)
(* Accounts implements Membership under the mapping given in Accounts.     *)
(***************************************************************************)
EXTENDS Accounts, TLAPS

(* The initial states satisfy the inductive invariant.                     *)
LEMMA InitIInv == Init => IInv
<1> SUFFICES ASSUME Init PROVE IInv
  OBVIOUS
<1> USE NullAssumption DEF Init, NoRow, Idle
<1>1. TypeOK
  BY DEF TypeOK, UserRow, RequestState, Pc
<1>2. RowsOK /\ OneUserPerAddress
  BY DEF RowsOK, OneUserPerAddress
<1>3. \A r \in Request : SlotOK(r)
  BY DEF SlotOK, StepOf, LocalsOf, HistoryOf, Registering
<1> QED
  BY <1>1, <1>2, <1>3 DEF IInv, Registering

(* A free slot is sound.                                                   *)
LEMMA IdleSlot ==
  ASSUME NEW r \in Request, req[r] = Idle
  PROVE  SlotOK(r) /\ ~Registering(r)
BY DEF Idle, SlotOK, StepOf, LocalsOf, HistoryOf, Registering

(* A free slot is a request state.                                         *)
LEMMA IdleType == Idle \in RequestState
BY DEF Idle, RequestState, Pc

(* The slot of a request that does not move stays sound while the tables   *)
(* keep what it relies on.                                                 *)
LEMMA OtherSlot ==
  ASSUME NEW q \in Request, SlotOK(q), req'[q] = req[q], confirmed \subseteq confirmed',
         tenant' = tenant, user' = user, secret' = secret
  PROVE  SlotOK(q)'
<1>1. StepOf(q)'
  BY DEF SlotOK, StepOf
<1>2. LocalsOf(q)'
  BY DEF SlotOK, LocalsOf, Registering, Owns, Matches
<1>3. HistoryOf(q)'
  BY DEF SlotOK, HistoryOf, Matches, Barred
<1> QED
  BY <1>1, <1>2, <1>3 DEF SlotOK

(* A step that moves one request and leaves the tables alone.              *)
LEMMA MoveOn ==
  ASSUME IInv, NEW r \in Request, NEW x \in RequestState,
         req' = [req EXCEPT ![r] = x], TypeOK',
         confirmed' = confirmed, tenant' = tenant, user' = user, secret' = secret,
         SlotOK(r)', Registering(r)' => Registering(r) /\ x.found = req[r].found
  PROVE  IInv'
<1>1. RowsOK' /\ OneUserPerAddress'
  BY DEF IInv, RowsOK, OneUserPerAddress, Matches
<1>2. req'[r] = x /\ \A q \in Request : q # r => req'[q] = req[q]
  BY DEF IInv, TypeOK
<1>3. \A q \in Request : SlotOK(q)'
  BY <1>2, OtherSlot DEF IInv
<1>4. \A q, p \in Request : q # p /\ Registering(q)' /\ Registering(p)'
                              => req'[q].found # req'[p].found
  BY <1>2 DEF IInv, Registering
<1> QED
  BY <1>1, <1>3, <1>4 DEF IInv

(* What the types make of the request that moves.                          *)
LEMMA SlotType ==
  ASSUME TypeOK, NEW r \in Request
  PROVE  /\ req[r] \in RequestState
         /\ \A pc \in Pc : [req[r] EXCEPT !.pc = pc] \in RequestState
         /\ \A pc \in Pc : [req EXCEPT ![r].pc = pc] = [req EXCEPT ![r] = [req[r] EXCEPT !.pc = pc]]
BY DEF TypeOK, RequestState

(* A reply ends the request and touches no table.                          *)
LEMMA ReplyIInv ==
  ASSUME IInv, NEW r \in Request, NEW code, Reply(r, code), req[r].pc # "idle",
         req[r].op = "login" /\ code # "ACCEPTED" => code \in Refusal,
         audit' \in SUBSET AuditRow,
         confirmed' = confirmed, tenant' = tenant, user' = user, secret' = secret
  PROVE  IInv'
<1>1. TypeOK /\ SlotOK(r)
  BY DEF IInv
<1>2. req[r].tenant \in Tenant /\ req[r].email \in Spelling
  BY <1>1 DEF SlotOK, StepOf
<1>3. req' = [req EXCEPT ![r] = Idle] /\ req'[r] = Idle
  BY <1>1 DEF Reply, TypeOK
<1>4. TypeOK'
  BY <1>1, <1>2, <1>3, IdleType DEF TypeOK, Reply
<1>5. SlotOK(r)' /\ ~Registering(r)'
  BY <1>3 DEF Idle, SlotOK, StepOf, LocalsOf, HistoryOf, Registering
<1> QED
  BY <1>3, <1>4, <1>5, IdleType, MoveOn

(* What Objection returns.                                                 *)
LEMMA ObjectionType ==
  ASSUME TypeOK, NEW g \in Tenant
  PROVE  /\ Objection(g) \in Refusal \cup {"none"}
         /\ Objection(g) = "none" => tenant[g] = "ACTIVE"
BY DEF TypeOK, Objection, Refusal

(* A request arrives in a free slot.                                       *)
LEMMA ArriveIInv ==
  ASSUME IInv, NEW r \in Request, Arrive(r)
  PROVE  IInv'
<1>1. TypeOK
  BY DEF IInv
<1>2. PICK g \in Tenant, e \in Spelling, p \in Password :
        RegisterBegin(r, g, e, p) \/ LoginBegin(r, g, e, p)
  BY DEF Arrive
<1>3. ASSUME RegisterBegin(r, g, e, p) PROVE IInv'
  <2> DEFINE x == [Idle EXCEPT !.op = "register", !.pc = "find_tenant",
                               !.tenant = g, !.email = e, !.password = p]
  <2>1. req' = [req EXCEPT ![r] = x] /\ UNCHANGED <<tables, audit, history>>
    BY <1>3 DEF RegisterBegin
  <2>2. x \in RequestState
    BY DEF RequestState, Idle, Pc
  <2>3. TypeOK' /\ req'[r] = x
    BY <1>1, <2>1, <2>2 DEF TypeOK, tables, history
  <2>4. SlotOK(r)' /\ ~Registering(r)'
    BY <2>3 DEF SlotOK, StepOf, LocalsOf, HistoryOf, Registering, Idle
  <2> HIDE DEF x
  <2> QED
    BY <2>1, <2>2, <2>3, <2>4, MoveOn DEF tables, history
<1>4. ASSUME LoginBegin(r, g, e, p) PROVE IInv'
  <2> DEFINE barred == \/ tenant[g] = "SUSPENDED"
                       \/ \E u \in Found(g, Normalized[e]) : user[u].status \in Inactive
             entitled == <<g, Normalized[e], p>> \in confirmed
             x == [Idle EXCEPT !.op = "login", !.pc = "find_tenant", !.tenant = g, !.email = e,
                               !.password = p, !.barred = barred, !.entitled = entitled]
  <2>1. req' = [req EXCEPT ![r] = x] /\ UNCHANGED <<tables, audit, history>>
    BY <1>4 DEF LoginBegin
  <2>2. x \in RequestState
    <3>1. barred \in BOOLEAN /\ entitled \in BOOLEAN
      OBVIOUS
    <3> HIDE DEF barred, entitled
    <3> QED
      BY <3>1 DEF RequestState, Idle, Pc
  <2>3. TypeOK' /\ req'[r] = x
    BY <1>1, <2>1, <2>2 DEF TypeOK, tables, history
  <2>4. barred => \/ tenant[g] = "SUSPENDED"
                  \/ \E u \in User : Matches(u, g, Normalized[e]) /\ Barred(u)
    BY DEF Found, Matches, Barred
  <2>5. StepOf(r)' /\ LocalsOf(r)' /\ ~Registering(r)'
    BY <2>3 DEF StepOf, LocalsOf, Registering, Idle
  <2>6. HistoryOf(r)'
    <3>1. /\ x.entitled = entitled /\ x.barred = barred /\ x.reason = "none"
          /\ x.pc = "find_tenant" /\ x.tenant = g /\ x.email = e /\ x.password = p
      BY DEF Idle
    <3> HIDE DEF x, barred
    <3> QED
      BY <2>1, <2>3, <2>4, <3>1 DEF HistoryOf, Matches, Barred, tables, history
  <2> HIDE DEF x
  <2> QED
    BY <2>1, <2>2, <2>3, <2>5, <2>6, MoveOn DEF tables, history, SlotOK
<1> QED
  BY <1>2, <1>3, <1>4

(* A step that only advances a request to the given step.                  *)
LEMMA GotoIInv ==
  ASSUME IInv, NEW r \in Request, NEW pc \in Pc, Goto(r, pc), req[r].pc # "idle",
         pc \notin {"idle", "refuse", "upsert", "answer"}, req[r].reason = "none",
         UNCHANGED <<tables, audit, history>>,
         Normalized[req[r].email] \in Address,
         req[r].op \in {"register", "login"},
         req[r].op = "register" => pc \in {"find_user", "create_user"},
         req[r].op = "login" => pc \in {"find_user", "accepted"},
         req[r].barred => pc # "accepted",
         req[r].pc = "find_tenant" => tenant[req[r].tenant] # "SUSPENDED",
         pc = "accepted" => req[r].pc = "find_credential" /\ secret[req[r].found] = req[r].password
  PROVE  IInv'
<1>1. TypeOK /\ SlotOK(r)
  BY DEF IInv
<1> DEFINE x == [req[r] EXCEPT !.pc = pc]
<1>2. x \in RequestState /\ req' = [req EXCEPT ![r] = x]
  BY <1>1, SlotType DEF Goto
<1>3. /\ x.pc = pc /\ x.op = req[r].op /\ x.tenant = req[r].tenant /\ x.email = req[r].email
      /\ x.password = req[r].password /\ x.found = req[r].found /\ x.reason = req[r].reason
      /\ x.barred = req[r].barred /\ x.entitled = req[r].entitled
  BY <1>1, SlotType DEF RequestState
<1> HIDE DEF x
<1>4. TypeOK' /\ req'[r] = x
  BY <1>1, <1>2 DEF TypeOK, tables, history
<1>5. StepOf(r)'
  BY <1>1, <1>3, <1>4 DEF SlotOK, StepOf
<1>6. LocalsOf(r)' /\ ~Registering(r)'
  BY <1>1, <1>3, <1>4 DEF SlotOK, LocalsOf, StepOf, Registering, tables, Owns, Matches
<1>7. HistoryOf(r)'
  BY <1>1, <1>3, <1>4 DEF SlotOK, HistoryOf, StepOf, tables, history, Matches, Barred
<1> QED
  BY <1>2, <1>4, <1>5, <1>6, <1>7, MoveOn DEF tables, history, SlotOK

(* The tenant is read: both operations refuse or go on alike.              *)
LEMMA TenantIInv ==
  ASSUME IInv, NEW r \in Request, RegisterTenant(r) \/ LoginTenant(r)
  PROVE  IInv'
<1>1. TypeOK /\ SlotOK(r)
  BY DEF IInv
<1> DEFINE objection == Objection(req[r].tenant)
<1>2. req[r].pc = "find_tenant" /\ req[r].op \in {"register", "login"}
  BY DEF RegisterTenant, LoginTenant, At
<1>3. req[r].tenant \in Tenant /\ req[r].email \in Spelling
  BY <1>1, <1>2 DEF SlotOK, StepOf
<1>4. UNCHANGED <<tables, audit, confirmed>>
  BY DEF RegisterTenant, LoginTenant
<1>5. CASE objection # "none" /\ Reply(r, objection)
  <2>1. objection \in Refusal
    BY <1>1, <1>3, <1>5, ObjectionType
  <2> HIDE DEF objection
  <2> QED
    BY <1>1, <1>2, <1>4, <1>5, <2>1, ReplyIInv DEF tables, TypeOK
<1>6. CASE objection = "none" /\ Goto(r, "find_user") /\ UNCHANGED refused
  <2>1. tenant[req[r].tenant] = "ACTIVE" /\ Normalized[req[r].email] \in Address
    BY <1>1, <1>3, <1>6, ObjectionType, EmailAssumption
  <2>2. req[r].reason = "none" /\ "find_user" \in Pc
    BY <1>1, <1>2 DEF SlotOK, StepOf, Pc
  <2> QED
    BY <1>2, <1>4, <1>6, <2>1, <2>2, GotoIInv DEF history
<1> QED
  BY <1>5, <1>6 DEF RegisterTenant, LoginTenant

(* A registration looks for its address.                                   *)
LEMMA RegisterFindIInv ==
  ASSUME IInv, NEW r \in Request, RegisterFind(r)
  PROVE  IInv'
<1>1. TypeOK /\ SlotOK(r)
  BY DEF IInv
<1>2. req[r].pc = "find_user" /\ req[r].op = "register" /\ UNCHANGED <<tables, audit, confirmed>>
  BY DEF RegisterFind, At
<1>3. CASE Reply(r, "USER_ALREADY_EXISTS")
  BY <1>1, <1>2, <1>3, ReplyIInv DEF tables, TypeOK
<1>4. CASE Goto(r, "create_user") /\ UNCHANGED refused
  <2>1. req[r].reason = "none" /\ "create_user" \in Pc /\ Normalized[req[r].email] \in Address
    BY <1>1, <1>2 DEF SlotOK, StepOf, Pc
  <2> QED
    BY <1>1, <1>2, <1>4, <2>1, GotoIInv DEF history
<1> QED
  BY <1>3, <1>4 DEF RegisterFind

(* A registration inserts its row, or learns that another came first.      *)
LEMMA RegisterCreateIInv ==
  ASSUME IInv, NEW r \in Request, RegisterCreate(r)
  PROVE  IInv'
<1> DEFINE g == req[r].tenant
           a == Normalized[req[r].email]
<1>1. TypeOK /\ SlotOK(r) /\ RowsOK /\ OneUserPerAddress
  BY DEF IInv
<1>2. /\ req[r].pc = "create_user" /\ req[r].op = "register"
      /\ UNCHANGED <<tenant, secret, audit, confirmed>>
  BY DEF RegisterCreate, At
<1>3. g \in Tenant /\ a \in Address /\ req[r].reason = "none" /\ ~req[r].entitled /\ ~req[r].barred
  BY <1>1, <1>2 DEF SlotOK, StepOf
<1>4. CASE Reply(r, "INTERNAL_SERVER_ERROR") /\ UNCHANGED user
  BY <1>1, <1>2, <1>4, ReplyIInv DEF TypeOK
<1>5. CASE /\ Found(g, a) = {} /\ UNCHANGED refused
           /\ \E u \in User :
                /\ user[u].status = "absent"
                /\ user' = [user EXCEPT ![u] = [status |-> "ACTIVE", tenant |-> g, address |-> a]]
                /\ req' = [req EXCEPT ![r].found = u, ![r].pc = "upsert"]
  <2>1. PICK u \in User :
          /\ user[u].status = "absent"
          /\ user' = [user EXCEPT ![u] = [status |-> "ACTIVE", tenant |-> g, address |-> a]]
          /\ req' = [req EXCEPT ![r].found = u, ![r].pc = "upsert"]
    BY <1>5
  <2> DEFINE x == [req[r] EXCEPT !.found = u, !.pc = "upsert"]
  <2>2. x \in RequestState /\ req' = [req EXCEPT ![r] = x]
    <3>1. req[r] \in RequestState /\ "upsert" \in Pc
      BY <1>1, SlotType DEF Pc
    <3>2. x \in RequestState
      BY <3>1 DEF RequestState
    <3>3. req' = [req EXCEPT ![r] = x]
      BY <1>1, <2>1, <3>1 DEF TypeOK, RequestState
    <3> QED
      BY <3>2, <3>3
  <2>3. /\ x.pc = "upsert" /\ x.op = req[r].op /\ x.tenant = g /\ x.email = req[r].email
        /\ x.password = req[r].password /\ x.found = u /\ x.reason = req[r].reason
        /\ x.barred = req[r].barred /\ x.entitled = req[r].entitled
    BY <1>1, SlotType DEF RequestState
  <2> HIDE DEF x
  <2>4. req'[r] = x /\ \A q \in Request : q # r => req'[q] = req[q]
    BY <1>1, <2>2 DEF TypeOK
  <2>5. /\ user'[u].status = "ACTIVE" /\ user'[u].tenant = g /\ user'[u].address = a
        /\ \A v \in User : v # u => user'[v] = user[v]
    BY <1>1, <2>1 DEF TypeOK
  <2>6. TypeOK'
    <3>1. user' \in [User -> UserRow]
      BY <1>1, <1>3, <2>1 DEF TypeOK, UserRow
    <3>2. req' \in [Request -> RequestState]
      BY <1>1, <2>2 DEF TypeOK
    <3> QED
      BY <1>1, <1>2, <1>5, <3>1, <3>2 DEF TypeOK
  <2>7. \A v \in User : \A h, b : Matches(v, h, b) => v # u /\ user'[v] = user[v]
    BY <2>1, <2>5 DEF Matches
  <2>8. RowsOK'
    <3>1. \A v \in User : user'[v].status = "absent" => secret'[v] = None
      BY <1>1, <1>2, <2>5 DEF RowsOK
    <3>2. \A c \in confirmed : \E v \in User : Matches(v, c[1], c[2])' /\ secret'[v] = c[3]
      BY <1>1, <1>2, <2>7 DEF RowsOK, Matches
    <3> QED
      BY <1>2, <3>1, <3>2 DEF RowsOK
  <2>9. OneUserPerAddress'
    <3>1. \A v \in User : user[v].status # "absent" => user[v].tenant # g \/ user[v].address # a
      BY <1>5 DEF Found
    <3> QED
      BY <1>1, <2>5, <3>1 DEF OneUserPerAddress
  <2>10. SlotOK(r)'
    <3>1. StepOf(r)'
      BY <1>1, <1>2, <1>3, <2>3, <2>4 DEF SlotOK, StepOf
    <3>2. LocalsOf(r)'
      BY <1>1, <1>2, <2>1, <2>3, <2>4, <2>5
      DEF RowsOK, LocalsOf, Owns, Matches, Registering
    <3>3. HistoryOf(r)'
      BY <1>3, <2>3, <2>4 DEF HistoryOf
    <3> QED
      BY <3>1, <3>2, <3>3 DEF SlotOK
  <2>11. ASSUME NEW q \in Request, q # r PROVE SlotOK(q)' /\ (Registering(q) => req[q].found # u)
    <3>1. SlotOK(q) /\ req'[q] = req[q]
      BY <2>4, <2>11 DEF IInv
    <3>2. Registering(q) => req[q].found # u
      BY <2>1, <3>1 DEF SlotOK, LocalsOf, Owns, Matches
    <3>3. StepOf(q)'
      BY <3>1 DEF SlotOK, StepOf
    <3>4. LocalsOf(q)'
      BY <1>2, <2>7, <3>1 DEF SlotOK, LocalsOf, Owns, Matches, Registering
    <3>5. HistoryOf(q)'
      BY <1>2, <2>7, <3>1 DEF SlotOK, HistoryOf, Matches, Barred
    <3> QED
      BY <3>2, <3>3, <3>4, <3>5 DEF SlotOK
  <2>12. \A q, p \in Request : q # p /\ Registering(q)' /\ Registering(p)'
                                => req'[q].found # req'[p].found
    BY <2>3, <2>4, <2>11 DEF IInv, Registering
  <2> QED
    BY <2>6, <2>8, <2>9, <2>10, <2>11, <2>12 DEF IInv
<1> QED
  BY <1>4, <1>5 DEF RegisterCreate

(* The credential is stored: the row is still this request's alone.        *)
LEMMA RegisterCredentialIInv ==
  ASSUME IInv, NEW r \in Request, RegisterCredential(r)
  PROVE  IInv'
<1> DEFINE u == req[r].found
<1>1. TypeOK /\ SlotOK(r) /\ RowsOK /\ OneUserPerAddress
  BY DEF IInv
<1>2. /\ req[r].pc = "upsert" /\ req[r].op = "register" /\ Goto(r, "answer")
      /\ UNCHANGED <<tenant, user, audit, history>>
      /\ secret' = [secret EXCEPT ![u] = req[r].password]
  BY DEF RegisterCredential, At
<1>3. u \in User /\ Owns(r) /\ secret[u] = None /\ req[r].password \in Password /\ u \in User
  BY <1>1, <1>2 DEF SlotOK, StepOf, LocalsOf, Registering
<1> DEFINE x == [req[r] EXCEPT !.pc = "answer"]
<1>4. x \in RequestState /\ req' = [req EXCEPT ![r] = x]
  BY <1>1, <1>2, SlotType DEF Goto, Pc
<1>5. /\ x.pc = "answer" /\ x.op = req[r].op /\ x.tenant = req[r].tenant /\ x.email = req[r].email
      /\ x.password = req[r].password /\ x.found = u /\ x.reason = req[r].reason
      /\ x.barred = req[r].barred /\ x.entitled = req[r].entitled
  BY <1>1, SlotType DEF RequestState
<1> HIDE DEF x
<1>6. req'[r] = x /\ \A q \in Request : q # r => req'[q] = req[q]
  BY <1>1, <1>4 DEF TypeOK
<1>7. secret'[u] = req[r].password /\ \A v \in User : v # u => secret'[v] = secret[v]
  BY <1>1, <1>2, <1>3 DEF TypeOK
<1>8. TypeOK'
  <2>1. secret' \in [User -> Password \cup {None}] /\ req' \in [Request -> RequestState]
    BY <1>1, <1>2, <1>3, <1>4 DEF TypeOK
  <2> QED
    BY <1>1, <1>2, <2>1 DEF TypeOK, history
<1>9. \A v \in User : secret[v] # None => secret'[v] = secret[v]
  BY <1>3, <1>7
<1>10. RowsOK'
  <2>1. \A v \in User : user'[v].status = "absent" => secret'[v] = None
    BY <1>1, <1>2, <1>3, <1>7 DEF RowsOK, Owns, Matches
  <2>2. \A c \in confirmed : c[3] # None
    BY <1>1, NullAssumption DEF TypeOK
  <2>3. \A c \in confirmed : \E v \in User : Matches(v, c[1], c[2])' /\ secret'[v] = c[3]
    BY <1>1, <1>2, <1>9, <2>2 DEF RowsOK, Matches
  <2> QED
    BY <1>2, <2>1, <2>3 DEF RowsOK, history
<1>11. OneUserPerAddress'
  BY <1>1, <1>2 DEF OneUserPerAddress
<1>12. SlotOK(r)'
  <2>1. StepOf(r)'
    BY <1>1, <1>2, <1>5, <1>6 DEF SlotOK, StepOf
  <2>2. LocalsOf(r)'
    BY <1>2, <1>3, <1>5, <1>6, <1>7 DEF LocalsOf, Owns, Matches, Registering
  <2>3. HistoryOf(r)'
    BY <1>1, <1>2, <1>5, <1>6 DEF HistoryOf, SlotOK, StepOf
  <2> QED
    BY <2>1, <2>2, <2>3 DEF SlotOK
<1>13. ASSUME NEW q \in Request, q # r PROVE SlotOK(q)'
  <2>1. SlotOK(q) /\ req'[q] = req[q]
    BY <1>6, <1>13 DEF IInv
  <2>2. Registering(q) => req[q].found # u
    BY <1>2, <1>13 DEF IInv, Registering
  <2>3. StepOf(q)'
    BY <2>1 DEF SlotOK, StepOf
  <2>4. req[q].pc \in {"answer", "accepted"} =>
          req[q].password \in Password /\ req[q].found \in User /\ secret[req[q].found] # None
    BY <2>1, NullAssumption DEF SlotOK, StepOf, LocalsOf, Registering
  <2>5. LocalsOf(q)'
    BY <1>2, <1>7, <1>9, <2>1, <2>2, <2>4 DEF SlotOK, LocalsOf, Owns, Matches, Registering
  <2>6. HistoryOf(q)'
    BY <1>2, <2>1 DEF SlotOK, HistoryOf, Matches, Barred, history
  <2> QED
    BY <2>3, <2>5, <2>6 DEF SlotOK
<1>14. \A q, p \in Request : q # p /\ Registering(q)' /\ Registering(p)'
                              => req'[q].found # req'[p].found
  BY <1>2, <1>5, <1>6 DEF IInv, Registering
<1> QED
  BY <1>8, <1>10, <1>11, <1>12, <1>13, <1>14 DEF IInv

(* A registration is confirmed: its user has the password it was sent.     *)
LEMMA RegisterAnswerIInv ==
  ASSUME IInv, NEW r \in Request, RegisterAnswer(r)
  PROVE  IInv'
<1> DEFINE g == req[r].tenant
           a == Normalized[req[r].email]
           new == <<g, a, req[r].password>>
<1>1. TypeOK /\ SlotOK(r) /\ RowsOK /\ OneUserPerAddress
  BY DEF IInv
<1>2. /\ req[r].pc = "answer" /\ req[r].op = "register" /\ Reply(r, "CREATED")
      /\ UNCHANGED <<tenant, user, secret>> /\ confirmed' = confirmed \cup {new}
  BY DEF RegisterAnswer, At, tables
<1>3. g \in Tenant /\ req[r].email \in Spelling /\ a \in Address /\ req[r].password \in Password
  BY <1>1, <1>2 DEF SlotOK, StepOf
<1>4. req[r].found \in User /\ Matches(req[r].found, g, a) /\ secret[req[r].found] = req[r].password
  BY <1>1, <1>2 DEF SlotOK, LocalsOf, Owns, Registering
<1>5. req'[r] = Idle /\ (\A q \in Request : q # r => req'[q] = req[q]) /\ refused' = refused
  BY <1>1, <1>2 DEF TypeOK, Reply
<1>6. TypeOK'
  <2>1. audit' \in SUBSET AuditRow
    BY <1>1, <1>3, <1>4 DEF TypeOK, RegisterAnswer, Record, AuditRow
  <2>2. req' \in [Request -> RequestState]
    BY <1>1, <1>2, IdleType DEF TypeOK, Reply
  <2>3. confirmed' \in SUBSET (Tenant \X Address \X Password)
    BY <1>1, <1>2, <1>3 DEF TypeOK
  <2> QED
    BY <1>1, <1>2, <1>5, <2>1, <2>2, <2>3 DEF TypeOK
<1>7. RowsOK'
  <2>1. \A c \in confirmed' : \E v \in User : Matches(v, c[1], c[2]) /\ secret[v] = c[3]
    BY <1>1, <1>2, <1>4 DEF RowsOK
  <2> QED
    BY <1>1, <1>2, <2>1 DEF RowsOK, Matches
<1>8. OneUserPerAddress'
  BY <1>1, <1>2 DEF OneUserPerAddress
<1>9. \A q \in Request : SlotOK(q)'
  <2>1. SlotOK(r)'
    BY <1>5 DEF Idle, SlotOK, StepOf, LocalsOf, HistoryOf, Registering
  <2>2. ASSUME NEW q \in Request, q # r PROVE SlotOK(q)'
    BY <1>2, <1>5, <2>2, OtherSlot DEF IInv
  <2> QED
    BY <2>1, <2>2
<1>10. \A q, p \in Request : q # p /\ Registering(q)' /\ Registering(p)'
                              => req'[q].found # req'[p].found
  BY <1>5 DEF IInv, Registering, Idle
<1> QED
  BY <1>6, <1>7, <1>8, <1>9, <1>10 DEF IInv

(* A login becomes doubtful: only who was never confirmed, or is barred.   *)
LEMMA DoubtIInv ==
  ASSUME IInv, NEW r \in Request, NEW u \in User \cup {None}, NEW reason \in Doubts,
         Doubt(r, u, reason), req[r].op = "login", req[r].pc \in {"find_user", "find_credential"},
         req[r].entitled => reason = "user_disabled", UNCHANGED <<tables, audit, history>>
  PROVE  IInv'
<1>1. TypeOK /\ SlotOK(r)
  BY DEF IInv
<1> DEFINE x == [req[r] EXCEPT !.found = u, !.pc = "refuse", !.reason = reason]
<1>2. req[r] \in RequestState /\ "refuse" \in Pc
  BY <1>1, SlotType DEF Pc
<1>3. x \in RequestState
  BY <1>2 DEF RequestState
<1>4. req' = [req EXCEPT ![r] = x]
  BY <1>1, <1>2 DEF Doubt, TypeOK, RequestState
<1>5. /\ x.pc = "refuse" /\ x.op = "login" /\ x.tenant = req[r].tenant /\ x.email = req[r].email
      /\ x.password = req[r].password /\ x.found = u /\ x.reason = reason
      /\ x.barred = req[r].barred /\ x.entitled = req[r].entitled
  BY <1>2 DEF RequestState
<1> HIDE DEF x
<1>6. TypeOK' /\ req'[r] = x
  BY <1>1, <1>3, <1>4 DEF TypeOK, tables, history
<1>7. reason # "none"
  BY DEF Doubts
<1>8. StepOf(r)'
  BY <1>1, <1>5, <1>6, <1>7 DEF SlotOK, StepOf
<1>9. LocalsOf(r)' /\ ~Registering(r)'
  BY <1>5, <1>6 DEF LocalsOf, Registering
<1>10. HistoryOf(r)'
  BY <1>1, <1>5, <1>6 DEF SlotOK, HistoryOf, tables, history, Matches, Barred
<1> QED
  BY <1>3, <1>4, <1>6, <1>8, <1>9, <1>10, MoveOn DEF tables, history, SlotOK

(* A login looks for its user.                                             *)
LEMMA LoginFindIInv ==
  ASSUME IInv, NEW r \in Request, LoginFind(r)
  PROVE  IInv'
<1> DEFINE g == req[r].tenant
           a == Normalized[req[r].email]
<1>1. TypeOK /\ SlotOK(r) /\ RowsOK /\ OneUserPerAddress
  BY DEF IInv
<1>2. req[r].pc = "find_user" /\ req[r].op = "login" /\ UNCHANGED <<tables, audit, history>>
  BY DEF LoginFind, At
<1>3. \A u : u \in Found(g, a) <=> u \in User /\ Matches(u, g, a)
  BY DEF Found, Matches
<1>4. CASE Found(g, a) = {} /\ Doubt(r, None, "user_not_found")
  <2>1. req[r].entitled => \E u \in User : Matches(u, g, a)
    BY <1>1 DEF SlotOK, HistoryOf, RowsOK
  <2> QED
    BY <1>2, <1>3, <1>4, <2>1, DoubtIInv DEF Doubts
<1>5. ASSUME NEW u \in Found(g, a), Doubt(r, u, "user_disabled") PROVE IInv'
  BY <1>2, <1>3, <1>5, DoubtIInv DEF Doubts
<1>6. ASSUME NEW u \in Found(g, a), ~Barred(u),
             req' = [req EXCEPT ![r].found = u, ![r].pc = "find_credential"]
      PROVE  IInv'
  <2> DEFINE x == [req[r] EXCEPT !.found = u, !.pc = "find_credential"]
  <2>1. req[r] \in RequestState /\ "find_credential" \in Pc /\ u \in User /\ Matches(u, g, a)
    BY <1>1, <1>3, <1>6, SlotType DEF Pc
  <2>2. x \in RequestState
    BY <2>1 DEF RequestState
  <2>3. req' = [req EXCEPT ![r] = x]
    BY <1>1, <1>6, <2>1 DEF TypeOK, RequestState
  <2>4. /\ x.pc = "find_credential" /\ x.op = "login" /\ x.tenant = g /\ x.email = req[r].email
        /\ x.password = req[r].password /\ x.found = u /\ x.reason = req[r].reason
        /\ x.barred = req[r].barred /\ x.entitled = req[r].entitled
    BY <1>2, <2>1 DEF RequestState
  <2> HIDE DEF x
  <2>5. TypeOK' /\ req'[r] = x
    BY <1>1, <1>2, <2>2, <2>3 DEF TypeOK, tables, history
  <2>6. StepOf(r)'
    BY <1>1, <1>2, <2>4, <2>5 DEF SlotOK, StepOf
  <2>7. LocalsOf(r)' /\ ~Registering(r)'
    BY <1>2, <2>1, <2>4, <2>5 DEF LocalsOf, Registering, Owns, Matches, tables
  <2>8. ~req[r].barred
    BY <1>1, <1>2, <1>6, <2>1 DEF SlotOK, HistoryOf, OneUserPerAddress, Matches
  <2>9. HistoryOf(r)'
    BY <1>1, <1>2, <2>4, <2>5, <2>8 DEF SlotOK, HistoryOf, history
  <2> QED
    BY <1>2, <2>2, <2>3, <2>5, <2>6, <2>7, <2>9, MoveOn DEF tables, history, SlotOK
<1> QED
  BY <1>4, <1>5, <1>6 DEF LoginFind

(* A login compares the password: who was confirmed with it is accepted.   *)
LEMMA LoginCredentialIInv ==
  ASSUME IInv, NEW r \in Request, LoginCredential(r)
  PROVE  IInv'
<1> DEFINE u == req[r].found
<1>1. TypeOK /\ SlotOK(r) /\ RowsOK /\ OneUserPerAddress
  BY DEF IInv
<1>2. req[r].pc = "find_credential" /\ req[r].op = "login" /\ UNCHANGED <<tables, audit, history>>
  BY DEF LoginCredential, At
<1>3. u \in User /\ Owns(r) /\ req[r].reason = "none" /\ Normalized[req[r].email] \in Address
  BY <1>1, <1>2 DEF SlotOK, LocalsOf, StepOf
<1>4. req[r].password \in Password /\ req[r].password # None
  BY <1>1, <1>2, NullAssumption DEF SlotOK, StepOf
<1>5. req[r].entitled => secret[u] = req[r].password
  BY <1>1, <1>3 DEF SlotOK, HistoryOf, RowsOK, Owns, OneUserPerAddress, Matches
<1>6. CASE secret[u] = None /\ Doubt(r, u, "no_password_credential")
  BY <1>2, <1>3, <1>4, <1>5, <1>6, DoubtIInv DEF Doubts
<1>7. CASE secret[u] \notin {None, req[r].password} /\ Doubt(r, u, "bad_password")
  BY <1>2, <1>3, <1>5, <1>7, DoubtIInv DEF Doubts
<1>8. CASE secret[u] = req[r].password /\ Goto(r, "accepted")
  <2>1. "accepted" \in Pc /\ ~req[r].barred
    BY <1>1, <1>2 DEF SlotOK, HistoryOf, Pc
  <2> QED
    BY <1>2, <1>3, <1>8, <2>1, GotoIInv
<1> QED
  BY <1>6, <1>7, <1>8 DEF LoginCredential

(* The ends of a login.                                                    *)
LEMMA LoginEndIInv ==
  ASSUME IInv, NEW r \in Request, LoginRefuse(r) \/ LoginAccept(r)
  PROVE  IInv'
<1>1. TypeOK /\ SlotOK(r)
  BY DEF IInv
<1>2. CASE LoginRefuse(r)
  <2> DEFINE code == IF req[r].reason = "user_disabled" THEN "USER_DISABLED" ELSE "INVALID_CREDENTIALS"
  <2>1. /\ req[r].pc = "refuse" /\ req[r].op = "login" /\ Reply(r, code)
        /\ UNCHANGED <<tables, confirmed>>
    BY <1>2 DEF LoginRefuse, At
  <2>2. req[r].tenant \in Tenant /\ req[r].email \in Spelling /\ req[r].found \in User \cup {None}
    BY <1>1, <2>1 DEF SlotOK, StepOf, TypeOK, RequestState
  <2>3. audit' \in SUBSET AuditRow
    BY <1>1, <1>2, <2>2 DEF LoginRefuse, Record, AuditRow, TypeOK
  <2>4. code \in Refusal
    BY DEF Refusal
  <2> HIDE DEF code
  <2> QED
    BY <2>1, <2>3, <2>4, ReplyIInv DEF tables
<1>3. CASE LoginAccept(r)
  BY <1>1, <1>3, ReplyIInv DEF LoginAccept, At, tables, TypeOK
<1> QED
  BY <1>2, <1>3

(* A request fails: its slot is free and the tables are as they are.       *)
LEMMA FailIInv ==
  ASSUME IInv, NEW r \in Request, Fail(r)
  PROVE  IInv'
<1>1. TypeOK
  BY DEF IInv
<1>2. req' = [req EXCEPT ![r] = Idle] /\ UNCHANGED <<tables, audit, history>>
  BY DEF Fail
<1>3. TypeOK' /\ req'[r] = Idle
  BY <1>1, <1>2, IdleType DEF TypeOK, tables, history
<1>4. SlotOK(r)' /\ ~Registering(r)'
  BY <1>3 DEF Idle, SlotOK, StepOf, LocalsOf, HistoryOf, Registering
<1> QED
  BY <1>2, <1>3, <1>4, IdleType, MoveOn DEF tables, history

(* The operator only ever makes tenants and users inactive.                *)
LEMMA OperatorIInv ==
  ASSUME IInv, Operator
  PROVE  IInv'
<1>1. TypeOK /\ RowsOK /\ OneUserPerAddress /\ UNCHANGED <<secret, audit, req, history>>
  BY DEF IInv, Operator, Suspend, Disable
<1>2. TypeOK' /\ \A g \in Tenant : tenant[g] = "SUSPENDED" => tenant'[g] = "SUSPENDED"
  <2>1. ASSUME NEW g \in Tenant, Suspend(g)
        PROVE  tenant' \in [Tenant -> {"absent", "ACTIVE", "SUSPENDED"}] /\ user' = user
               /\ \A h \in Tenant : tenant[h] = "SUSPENDED" => tenant'[h] = "SUSPENDED"
    BY <1>1, <2>1 DEF Suspend, TypeOK
  <2>2. ASSUME NEW u \in User, NEW status \in Inactive, Disable(u, status)
        PROVE  user' \in [User -> UserRow] /\ tenant' = tenant
    <3>1. user[u] \in UserRow /\ user[u].status = "ACTIVE" /\ NoRow.status = "absent"
      BY <1>1, <2>2 DEF Disable, TypeOK, NoRow
    <3>2. [user[u] EXCEPT !.status = status] \in UserRow
      BY <3>1 DEF UserRow
    <3> QED
      BY <1>1, <2>2, <3>2 DEF Disable, TypeOK
  <2> QED
    BY <1>1, <2>1, <2>2 DEF Operator, TypeOK, history
<1>3. \A u \in User : /\ user'[u].tenant = user[u].tenant /\ user'[u].address = user[u].address
                      /\ user'[u].status = "absent" <=> user[u].status = "absent"
                      /\ Barred(u) => Barred(u)'
  <2>1. ASSUME NEW g \in Tenant, Suspend(g) PROVE user' = user
    BY <2>1 DEF Suspend
  <2>2. ASSUME NEW v \in User, NEW status \in Inactive, Disable(v, status), NEW u \in User
        PROVE  /\ user'[u].tenant = user[u].tenant /\ user'[u].address = user[u].address
               /\ user'[u].status = "absent" <=> user[u].status = "absent"
               /\ Barred(u) => Barred(u)'
    BY <1>1, <2>2 DEF Disable, TypeOK, UserRow, Inactive, Barred
  <2> QED
    BY <2>1, <2>2 DEF Operator, Barred
<1>4. \A u, g, a : u \in User => (Matches(u, g, a)' <=> Matches(u, g, a))
  BY <1>3 DEF Matches
<1>5. RowsOK' /\ OneUserPerAddress'
  <2>1. confirmed' = confirmed /\ secret' = secret
    BY <1>1 DEF history
  <2> QED
    BY <1>1, <1>3, <1>4, <2>1 DEF RowsOK, OneUserPerAddress
<1>6. ASSUME NEW q \in Request PROVE SlotOK(q)'
  <2>1. SlotOK(q) /\ req' = req /\ secret' = secret /\ confirmed' = confirmed
    BY <1>1 DEF IInv, history
  <2>2. StepOf(q)'
    BY <2>1 DEF SlotOK, StepOf
  <2>3. LocalsOf(q)'
    BY <1>4, <2>1 DEF SlotOK, LocalsOf, Registering, Owns
  <2>4. req[q].barred /\ req[q].pc = "find_tenant" => req[q].tenant \in Tenant
    BY <2>1 DEF SlotOK, StepOf
  <2>5. HistoryOf(q)'
    BY <1>2, <1>3, <1>4, <2>1, <2>4 DEF SlotOK, HistoryOf
  <2> QED
    BY <2>2, <2>3, <2>5 DEF SlotOK
<1> QED
  BY <1>1, <1>2, <1>5, <1>6 DEF IInv, Registering

(* Every step preserves the inductive invariant.                           *)
LEMMA NextIInv == IInv /\ [Next]_vars => IInv'
<1> SUFFICES ASSUME IInv, [Next]_vars PROVE IInv'
  OBVIOUS
<1>1. CASE UNCHANGED vars
  <2>1. TypeOK' /\ RowsOK' /\ OneUserPerAddress'
    BY <1>1 DEF IInv, vars, TypeOK, RowsOK, OneUserPerAddress, Matches
  <2>2. \A q \in Request : SlotOK(q)'
    BY <1>1, OtherSlot DEF IInv, vars
  <2> QED
    BY <1>1, <2>1, <2>2 DEF IInv, vars, Registering
<1>2. ASSUME NEW r \in Request, Step(r) PROVE IInv'
  BY <1>2, TenantIInv, RegisterFindIInv, RegisterCreateIInv, RegisterCredentialIInv,
     RegisterAnswerIInv, LoginFindIInv, LoginCredentialIInv, LoginEndIInv DEF Step
<1> QED
  BY <1>1, <1>2, ArriveIInv, FailIInv, OperatorIInv DEF Next

(* The inductive invariant holds in every reachable state.                 *)
THEOREM Invariance == Spec => []IInv
BY InitIInv, NextIInv, PTL DEF Spec

(* Tables, request slots and histories have their types.                   *)
THEOREM TypeCorrect == Spec => []TypeOK
<1>1. IInv => TypeOK
  BY DEF IInv
<1> QED
  BY <1>1, Invariance, PTL

(* Racing registrations leave a tenant one user per address.               *)
THEOREM OneAccount == Spec => []OneUserPerAddress
<1>1. IInv => OneUserPerAddress
  BY DEF IInv
<1> QED
  BY <1>1, Invariance, PTL

(* Who was told that the registration succeeded is not refused for the     *)
(* address or the password afterwards.                                     *)
THEOREM ConfirmedNotRefused == Spec => []RegisteredCanLogin
<1>1. IInv => RegisteredCanLogin
  BY DEF IInv, SlotOK, HistoryOf, RegisteredCanLogin
<1> QED
  BY <1>1, Invariance, PTL

(* A login is accepted only as the user it names, with that user's         *)
(* password.                                                               *)
THEOREM AcceptedIsAuthentic == Spec => []LoginIsAuthentic
<1>1. IInv => LoginIsAuthentic
  BY DEF IInv, SlotOK, LocalsOf, Owns, Matches, LoginIsAuthentic
<1> QED
  BY <1>1, Invariance, PTL

(* No login that arrives after its tenant or user became inactive is       *)
(* accepted.                                                               *)
THEOREM BarredNotAccepted == Spec => []NoBarredLogin
<1>1. IInv => NoBarredLogin
  BY DEF IInv, SlotOK, HistoryOf, NoBarredLogin
<1> QED
  BY <1>1, Invariance, PTL

(* A step that drops no audit row and refuses no login for its user or     *)
(* password keeps the refusals audited.                                    *)
LEMMA KeepsAudited ==
  ASSUME RefusalsAreAudited, audit \subseteq audit',
         \A x \in refused' : x \in refused \/ x[3] \notin {"INVALID_CREDENTIALS", "USER_DISABLED"}
  PROVE  RefusalsAreAudited'
<1>1. ASSUME NEW x \in refused', x[3] \in {"INVALID_CREDENTIALS", "USER_DISABLED"}
      PROVE  \E a \in audit' : a.action = "USER_LOGIN_FAILED" /\ a.tenant = x[1] /\ a.email = x[2]
  <2>1. x \in refused
    BY <1>1
  <2>2. PICK a \in audit : a.action = "USER_LOGIN_FAILED" /\ a.tenant = x[1] /\ a.email = x[2]
    BY <1>1, <2>1 DEF RefusalsAreAudited, Audited
  <2> QED
    BY <2>2
<1> QED
  BY <1>1 DEF RefusalsAreAudited, Audited

(* What LoginRefuse reports it has recorded, if recording does not fail.   *)
LEMMA RefuseAudited ==
  ASSUME ~MayLose, RefusalsAreAudited, NEW r \in Request, LoginRefuse(r)
  PROVE  RefusalsAreAudited'
<1> DEFINE a == [action |-> "USER_LOGIN_FAILED", tenant |-> req[r].tenant,
                 user |-> req[r].found, email |-> req[r].email]
           code == IF req[r].reason = "user_disabled" THEN "USER_DISABLED" ELSE "INVALID_CREDENTIALS"
<1>1. audit' = audit \cup {a}
  BY DEF LoginRefuse, Record
<1>2. refused' = refused \cup {<<req[r].tenant, req[r].email, code>>}
  BY DEF LoginRefuse, Reply, At
<1>3. a.action = "USER_LOGIN_FAILED" /\ a.tenant = req[r].tenant /\ a.email = req[r].email
  OBVIOUS
<1> HIDE DEF a, code
<1>4. ASSUME NEW x \in refused', x[3] \in {"INVALID_CREDENTIALS", "USER_DISABLED"}
      PROVE  \E b \in audit' : b.action = "USER_LOGIN_FAILED" /\ b.tenant = x[1] /\ b.email = x[2]
  <2>1. CASE x \in refused
    <3>1. PICK b \in audit : b.action = "USER_LOGIN_FAILED" /\ b.tenant = x[1] /\ b.email = x[2]
      BY <1>4, <2>1 DEF RefusalsAreAudited, Audited
    <3> QED
      BY <1>1, <3>1
  <2>2. CASE x = <<req[r].tenant, req[r].email, code>>
    <3>1. x[1] = req[r].tenant /\ x[2] = req[r].email
      BY <2>2
    <3> QED
      BY <1>1, <1>3, <3>1
  <2> QED
    BY <1>2, <1>4, <2>1, <2>2
<1> QED
  BY <1>4 DEF RefusalsAreAudited, Audited

(* A request that stops before its login is decided refuses none for its   *)
(* user or password: the tenant is the objection.                          *)
LEMMA TenantRefusal ==
  ASSUME NEW r \in Request, RegisterTenant(r) \/ LoginTenant(r)
  PROVE  \A x \in refused' : x \in refused \/ x[3] \notin {"INVALID_CREDENTIALS", "USER_DISABLED"}
<1>1. Objection(req[r].tenant) \in {"TENANT_NOT_FOUND", "TENANT_SUSPENDED", "none"}
  BY DEF Objection
<1> DEFINE x0 == <<req[r].tenant, req[r].email, Objection(req[r].tenant)>>
<1>2. x0[3] = Objection(req[r].tenant)
  OBVIOUS
<1>3. refused' = refused \/ refused' = refused \cup {x0}
  BY DEF RegisterTenant, LoginTenant, Reply
<1> QED
  BY <1>1, <1>2, <1>3

(* As long as the sink loses no row, a login is refused for its user or    *)
(* password only after an audit row says so, whatever else fails.          *)
THEOREM RefusalsStayAudited == ~MayLose => (Spec => []RefusalsAreAudited)
<1> SUFFICES ASSUME ~MayLose PROVE Spec => []RefusalsAreAudited
  OBVIOUS
<1>1. Init => RefusalsAreAudited
  BY DEF Init, RefusalsAreAudited
<1>2. ASSUME RefusalsAreAudited, [Next]_vars PROVE RefusalsAreAudited'
  <2>1. CASE UNCHANGED vars
    BY <1>2, <2>1, KeepsAudited DEF vars
  <2>2. CASE Operator
    BY <1>2, <2>2, KeepsAudited DEF Operator, Suspend, Disable, history
  <2>3. ASSUME NEW r \in Request, Arrive(r) \/ Fail(r) PROVE RefusalsAreAudited'
    BY <1>2, <2>3, KeepsAudited DEF Arrive, RegisterBegin, LoginBegin, Fail, history
  <2>4. ASSUME NEW r \in Request, RegisterTenant(r) \/ LoginTenant(r) PROVE RefusalsAreAudited'
    <3>1. audit' = audit
      BY <2>4 DEF RegisterTenant, LoginTenant
    <3> QED
      BY <1>2, <2>4, <3>1, TenantRefusal, KeepsAudited
  <2>5. ASSUME NEW r \in Request,
               \/ RegisterFind(r) \/ RegisterCreate(r) \/ RegisterCredential(r) \/ RegisterAnswer(r)
               \/ LoginFind(r) \/ LoginCredential(r) \/ LoginAccept(r)
        PROVE  RefusalsAreAudited'
    <3>1. audit \subseteq audit' /\ refused' = refused
      BY <2>5 DEF RegisterFind, RegisterCreate, RegisterCredential, RegisterAnswer, LoginFind,
                  LoginCredential, LoginAccept, Reply, Record, At, history
    <3> QED
      BY <1>2, <3>1, KeepsAudited
  <2> QED
    BY <1>2, <2>1, <2>2, <2>3, <2>4, <2>5, RefuseAudited DEF Next, Step
<1> QED
  BY <1>1, <1>2, PTL DEF Spec

-------------------------------------------------------------------------------
(* The refinement.  What the abstract view shows of an address: the row    *)
(* that has it, of which there is one, or nothing.                         *)
LEMMA RowSeen ==
  ASSUME TypeOK, OneUserPerAddress, NEW u \in User, NEW g \in Tenant, NEW a \in Address,
         Matches(u, g, a)
  PROVE  MemberAccount[<<g, a>>] = [status |-> user[u].status, password |-> secret[u]]
<1>1. Found(g, a) = {u}
  BY DEF Found, OneUserPerAddress, Matches
<1>2. (CHOOSE v \in Found(g, a) : TRUE) = u
  BY <1>1
<1> QED
  BY <1>1, <1>2 DEF MemberAccount

(* A free address shows nothing.                                           *)
LEMMA FreeSeen ==
  ASSUME NEW g \in Tenant, NEW a \in Address, Found(g, a) = {}
  PROVE  MemberAccount[<<g, a>>] = NoAccount
BY DEF MemberAccount

(* What an address shows changes with its row and credential only.         *)
LEMMA SameSeen ==
  ASSUME NEW x \in Tenant \X Address, Found(x[1], x[2])' = Found(x[1], x[2]),
         \A v \in Found(x[1], x[2]) : user'[v].status = user[v].status /\ secret'[v] = secret[v]
  PROVE  MemberAccount'[x] = MemberAccount[x]
<1>1. CASE Found(x[1], x[2]) = {}
  BY <1>1 DEF MemberAccount
<1>2. CASE Found(x[1], x[2]) # {}
  <2> DEFINE v == CHOOSE w \in Found(x[1], x[2]) : TRUE
  <2>1. v \in Found(x[1], x[2])
    BY <1>2
  <2>2. MemberAccount[x] = [status |-> user[v].status, password |-> secret[v]]
    BY <1>2 DEF MemberAccount
  <2>3. MemberAccount'[x] = [status |-> user'[v].status, password |-> secret'[v]]
    BY <1>2 DEF MemberAccount
  <2> QED
    BY <2>1, <2>2, <2>3
<1> QED
  BY <1>1, <1>2

(* Where both tables stay, so does every account.                          *)
LEMMA TablesSeen ==
  ASSUME UNCHANGED <<user, secret>>
  PROVE  MemberAccount' = MemberAccount
BY DEF MemberAccount, Found

(* How the abstract view follows one slot.                                 *)
LEMMA SlotSeen ==
  ASSUME TypeOK, NEW r \in Request, NEW x, req' = [req EXCEPT ![r] = x]
  PROVE  /\ MemberAsk' = [MemberAsk EXCEPT ![r] = AskView(x)]
         /\ MemberStage' = [MemberStage EXCEPT ![r] = StageView(x)]
         /\ MemberAsk[r] = AskView(req[r]) /\ MemberStage[r] = StageView(req[r])
BY DEF TypeOK, MemberAsk, MemberStage

(* A request that goes on, and tells nobody anything.                      *)
LEMMA MovesSeen ==
  ASSUME TypeOK, NEW r \in Request, NEW x, req' = [req EXCEPT ![r] = x],
         AskView(x) = AskView(req[r]), UNCHANGED <<tenant, audit, confirmed, refused>>
  PROVE  /\ Members!Moves(r, req[r].op, StageView(req[r]), StageView(x))
         /\ MemberAsk' = MemberAsk
<1>1. /\ MemberAsk' = [MemberAsk EXCEPT ![r] = AskView(x)]
      /\ MemberStage' = [MemberStage EXCEPT ![r] = StageView(x)]
      /\ MemberAsk[r] = AskView(req[r]) /\ MemberStage[r] = StageView(req[r])
  BY SlotSeen
<1>2. MemberAsk' = MemberAsk /\ MemberAsk[r].op = req[r].op
  BY <1>1 DEF MemberAsk, AskView
<1>3. MemberTrail' = MemberTrail
  BY DEF MemberTrail
<1> QED
  BY <1>1, <1>2, <1>3 DEF Members!Moves, Members!told

(* The same for a new statement only.                                      *)
LEMMA GotoSeen ==
  ASSUME TypeOK, NEW r \in Request, NEW pc \in Pc, Goto(r, pc),
         UNCHANGED <<tenant, audit, confirmed, refused>>
  PROVE  Members!Moves(r, req[r].op, StageView(req[r]), StageView([req[r] EXCEPT !.pc = pc]))
<1> DEFINE x == [req[r] EXCEPT !.pc = pc]
<1>1. x \in RequestState /\ req' = [req EXCEPT ![r] = x]
  BY SlotType DEF Goto
<1>2. AskView(x) = AskView(req[r])
  <2>1. req[r] \in RequestState
    BY SlotType
  <2> QED
    BY <2>1 DEF AskView, RequestState
<1> HIDE DEF x
<1> QED
  BY <1>1, <1>2, MovesSeen DEF x

(* A request that ends.                                                    *)
LEMMA EndSeen ==
  ASSUME TypeOK, NEW r \in Request, req[r].pc # "idle", req' = [req EXCEPT ![r] = Idle],
         UNCHANGED tables
  PROVE  Members!Ends(r)
<1>1. StageView(Idle) = "idle" /\ StageView(req[r]) # "idle"
  <2>1. req[r].pc \in Pc
    BY DEF TypeOK, RequestState
  <2> QED
    BY <2>1 DEF StageView, Idle, Pc
<1>2. MemberAccount' = MemberAccount /\ tenant' = tenant
  BY TablesSeen DEF tables
<1>3. /\ MemberAsk' = [MemberAsk EXCEPT ![r] = AskView(Idle)]
      /\ MemberStage' = [MemberStage EXCEPT ![r] = StageView(Idle)]
      /\ MemberStage[r] = StageView(req[r])
  BY SlotSeen
<1> QED
  BY <1>1, <1>2, <1>3 DEF Members!Ends

(* A request that comes to nothing.                                        *)
LEMMA StopSeen ==
  ASSUME TypeOK, NEW r \in Request, req[r].pc # "idle", req' = [req EXCEPT ![r] = Idle],
         UNCHANGED <<tables, audit, history>>,
         \/ MayFail
         \/ req[r].op = "register" /\ req[r].pc \in {"find_tenant", "find_user", "create_user"}
         \/ req[r].pc = "accepted"
  PROVE  Members!Stop(r)
<1>1. Members!Ends(r)
  BY EndSeen
<1>2. MemberStage[r] = StageView(req[r]) /\ MemberAsk[r].op = req[r].op
  BY DEF MemberStage, MemberAsk, AskView
<1>3. \/ MayFail
      \/ MemberAsk[r].op = "register" /\ MemberStage[r] \in {"asked", "admitted"}
      \/ MemberStage[r] = "matched"
  BY <1>2 DEF StageView
<1>4. UNCHANGED Members!told
  BY DEF MemberTrail, Members!told, history
<1> QED
  BY <1>1, <1>3, <1>4 DEF Members!Stop

(* Recording an audit row is saying what it says.                          *)
LEMMA RecordSeen ==
  ASSUME NEW r \in Request, NEW row, Record(row), NEW action,
         RowView(row) = [action |-> action, tenant |-> req[r].tenant, email |-> req[r].email]
  PROVE  Members!Says(r, action)
<1>1. MemberAsk[r].tenant = req[r].tenant /\ MemberAsk[r].email = req[r].email
  BY DEF MemberAsk, AskView
<1>2. CASE audit' = audit \cup {row}
  <2>1. MemberTrail' = MemberTrail \cup {RowView(row)}
    BY <1>2 DEF MemberTrail
  <2> QED
    BY <1>1, <2>1 DEF Members!Says
<1>3. CASE MayLose /\ UNCHANGED audit
  BY <1>3 DEF MemberTrail, Members!Says
<1> QED
  BY <1>2, <1>3 DEF Record

(* The account that a request is about.                                    *)
LEMMA SubjectSeen ==
  ASSUME IInv, NEW r \in Request, req[r].pc # "idle"
  PROVE  /\ req[r].tenant \in Tenant /\ Normalized[req[r].email] \in Address
         /\ Members!Subject(r) = <<req[r].tenant, Normalized[req[r].email]>>
         /\ MemberAsk[r].op = req[r].op /\ MemberAsk[r].password = req[r].password
         /\ MemberAsk[r].tenant = req[r].tenant /\ MemberAsk[r].email = req[r].email
         /\ MemberStage[r] = StageView(req[r])
<1>1. req[r].tenant \in Tenant /\ req[r].email \in Spelling
  BY DEF IInv, SlotOK, StepOf
<1>2. Normalized[req[r].email] \in Address
  BY <1>1, EmailAssumption
<1>3. MemberAsk[r] = AskView(req[r]) /\ MemberStage[r] = StageView(req[r])
  BY DEF MemberAsk, MemberStage
<1> QED
  BY <1>1, <1>2, <1>3 DEF Members!Subject, AskView

(* Arrivals map to Ask.                                                    *)
LEMMA ArriveSeen ==
  ASSUME IInv, NEW r \in Request, Arrive(r)
  PROVE  Members!Ask(r)
<1>1. TypeOK
  BY DEF IInv
<1>2. PICK x : /\ req' = [req EXCEPT ![r] = x] /\ x.pc = "find_tenant"
  <2>1. PICK g \in Tenant, e \in Spelling, p \in Password :
          RegisterBegin(r, g, e, p) \/ LoginBegin(r, g, e, p)
    BY DEF Arrive
  <2>2. CASE RegisterBegin(r, g, e, p)
    <3> DEFINE x == [Idle EXCEPT !.op = "register", !.pc = "find_tenant",
                                 !.tenant = g, !.email = e, !.password = p]
    <3>1. req' = [req EXCEPT ![r] = x]
      BY <2>2 DEF RegisterBegin
    <3>2. x.pc = "find_tenant"
      BY DEF Idle
    <3> QED
      BY <3>1, <3>2
  <2>3. CASE LoginBegin(r, g, e, p)
    <3> DEFINE barred == \/ tenant[g] = "SUSPENDED"
                         \/ \E u \in Found(g, Normalized[e]) : user[u].status \in Inactive
               x == [Idle EXCEPT !.op = "login", !.pc = "find_tenant", !.tenant = g,
                                 !.email = e, !.password = p, !.barred = barred,
                                 !.entitled = <<g, Normalized[e], p>> \in confirmed]
    <3>1. req' = [req EXCEPT ![r] = x]
      BY <2>3 DEF LoginBegin
    <3>2. x.pc = "find_tenant"
      BY DEF Idle
    <3> HIDE DEF x
    <3> QED
      BY <3>1, <3>2
  <2> QED
    BY <2>1, <2>2, <2>3
<1>3. req[r].pc = "idle" /\ UNCHANGED <<tables, audit, history>>
  BY DEF Arrive, RegisterBegin, LoginBegin
<1>4. StageView(x) = "asked" /\ StageView(req[r]) = "idle"
  BY <1>2, <1>3 DEF StageView
<1>5. /\ MemberAsk' = [MemberAsk EXCEPT ![r] = AskView(x)]
      /\ MemberStage' = [MemberStage EXCEPT ![r] = StageView(x)]
      /\ MemberStage[r] = StageView(req[r])
  BY <1>1, <1>2, SlotSeen
<1>6. MemberAsk'[r] = AskView(x)
  BY <1>5 DEF MemberAsk
<1>7. MemberAccount' = MemberAccount /\ tenant' = tenant /\ UNCHANGED Members!told
  BY <1>3, TablesSeen DEF tables, history, MemberTrail, Members!told
<1> QED
  BY <1>4, <1>5, <1>6, <1>7 DEF Members!Ask

(* Both operations are admitted by the state of the tenant.                *)
LEMMA TenantSeen ==
  ASSUME IInv, NEW r \in Request, RegisterTenant(r) \/ LoginTenant(r)
  PROVE  Members!Admit(r) \/ Members!Stop(r) \/ Members!Refuse(r)
<1> DEFINE objection == Objection(req[r].tenant)
<1>1. /\ TypeOK /\ req[r].pc = "find_tenant" /\ req[r].op \in {"register", "login"}
      /\ UNCHANGED <<tables, audit, confirmed>>
  BY DEF IInv, RegisterTenant, LoginTenant, At
<1>2. /\ req[r].tenant \in Tenant /\ StageView(req[r]) = "asked"
      /\ MemberStage[r] = "asked" /\ MemberAsk[r].tenant = req[r].tenant
      /\ MemberAsk[r].email = req[r].email
  BY <1>1, SubjectSeen DEF StageView
<1>3. CASE objection = "none" /\ Goto(r, "find_user") /\ UNCHANGED refused
  <2>1. tenant[req[r].tenant] = "ACTIVE"
    BY <1>1, <1>2, <1>3, ObjectionType
  <2>2. "find_user" \in Pc /\ StageView([req[r] EXCEPT !.pc = "find_user"]) = "admitted"
    <3>1. req[r] \in RequestState
      BY <1>1, SlotType
    <3> QED
      BY <3>1 DEF Pc, StageView, RequestState
  <2>3. Members!Moves(r, req[r].op, "asked", "admitted")
    BY <1>1, <1>2, <1>3, <2>2, GotoSeen DEF tables
  <2>4. MemberAccount' = MemberAccount
    BY <1>1, TablesSeen DEF tables
  <2> QED
    BY <1>1, <1>2, <2>1, <2>3, <2>4 DEF Members!Admit
<1>4. CASE objection # "none" /\ Reply(r, objection)
  <2>1. req' = [req EXCEPT ![r] = Idle] /\ Members!Ends(r)
    BY <1>1, <1>4, EndSeen DEF Reply
  <2>2. CASE req[r].op = "register"
    <3>1. refused' = refused
      BY <1>4, <2>2 DEF Reply
    <3> QED
      BY <1>1, <2>1, <2>2, <3>1, StopSeen DEF history
  <2>3. CASE req[r].op = "login"
    <3>1. \/ objection = "TENANT_NOT_FOUND" /\ tenant[req[r].tenant] = "absent"
          \/ objection = "TENANT_SUSPENDED" /\ tenant[req[r].tenant] = "SUSPENDED"
      BY <1>4 DEF Objection
    <3>2. objection # "ACCEPTED"
      BY <3>1
    <3>3. refused' = refused \cup {<<req[r].tenant, req[r].email, objection>>}
      BY <1>4, <2>3, <3>2 DEF Reply
    <3>4. Members!Refuses(r, objection) /\ UNCHANGED MemberTrail
      BY <1>1, <1>2, <2>1, <3>3 DEF Members!Refuses, MemberTrail
    <3> QED
      BY <1>2, <3>1, <3>4 DEF Members!Refuse
  <2> QED
    BY <1>1, <2>2, <2>3
<1> QED
  BY <1>3, <1>4 DEF RegisterTenant, LoginTenant

(* The look-up of a registration: taken, or nothing that anyone sees.      *)
LEMMA RegisterFindSeen ==
  ASSUME IInv, NEW r \in Request, RegisterFind(r)
  PROVE  Members!Stop(r) \/ UNCHANGED Members!vars
<1>1. /\ TypeOK /\ req[r].pc = "find_user" /\ req[r].op = "register"
      /\ UNCHANGED <<tables, audit, confirmed>>
  BY DEF IInv, RegisterFind, At
<1>2. CASE Reply(r, "USER_ALREADY_EXISTS")
  <2>1. req' = [req EXCEPT ![r] = Idle] /\ refused' = refused
    BY <1>1, <1>2 DEF Reply
  <2> QED
    BY <1>1, <2>1, StopSeen DEF history
<1>3. CASE Goto(r, "create_user") /\ UNCHANGED refused
  <2> DEFINE x == [req[r] EXCEPT !.pc = "create_user"]
  <2>1. /\ x \in RequestState /\ req' = [req EXCEPT ![r] = x]
        /\ AskView(x) = AskView(req[r]) /\ StageView(x) = "admitted"
    <3>1. req[r] \in RequestState /\ "create_user" \in Pc
      BY <1>1, SlotType DEF Pc
    <3>2. x \in RequestState /\ req' = [req EXCEPT ![r] = x]
      BY <1>1, <1>3, <3>1, SlotType DEF Goto
    <3> QED
      BY <3>1, <3>2 DEF AskView, StageView, RequestState
  <2> HIDE DEF x
  <2>2. StageView(req[r]) = "admitted"
    BY <1>1 DEF StageView
  <2>3. Members!Moves(r, req[r].op, StageView(req[r]), StageView(x)) /\ MemberAsk' = MemberAsk
    BY <1>1, <1>3, <2>1, MovesSeen DEF tables
  <2>4. MemberStage' = [MemberStage EXCEPT ![r] = MemberStage[r]]
    BY <2>1, <2>2, <2>3 DEF Members!Moves
  <2>5. MemberStage' = MemberStage
    BY <2>4 DEF MemberStage
  <2>6. MemberAccount' = MemberAccount
    BY <1>1, TablesSeen DEF tables
  <2> QED
    BY <1>1, <2>3, <2>5, <2>6 DEF Members!Moves, Members!told, Members!vars
<1> QED
  BY <1>2, <1>3 DEF RegisterFind

(* A step that changes what one address shows.                             *)
LEMMA OneSeen ==
  ASSUME NEW x \in Tenant \X Address, NEW y, MemberAccount'[x] = y,
         \A z \in Tenant \X Address : z # x => MemberAccount'[z] = MemberAccount[z]
  PROVE  MemberAccount' = [MemberAccount EXCEPT ![x] = y]
<1>1. /\ MemberAccount = [z \in Tenant \X Address |-> MemberAccount[z]]
      /\ MemberAccount' = [z \in Tenant \X Address |-> MemberAccount'[z]]
  BY DEF MemberAccount
<1> QED
  BY <1>1

(* RowSeen, after the step.                                                *)
LEMMA RowSeenThen ==
  ASSUME OneUserPerAddress', NEW u \in User, NEW g \in Tenant, NEW a \in Address,
         Matches(u, g, a)'
  PROVE  MemberAccount'[<<g, a>>] = [status |-> user'[u].status, password |-> secret'[u]]
<1>1. Found(g, a)' = {u}
  BY DEF Found, OneUserPerAddress, Matches
<1>2. (CHOOSE v \in Found(g, a)' : TRUE) = u
  BY <1>1
<1> QED
  BY <1>1, <1>2 DEF MemberAccount

(* The insert: the address is claimed, or was by another.                  *)
LEMMA RegisterCreateSeen ==
  ASSUME IInv, IInv', NEW r \in Request, RegisterCreate(r)
  PROVE  Members!Stop(r) \/ Members!Claim(r)
<1> DEFINE g == req[r].tenant
           a == Normalized[req[r].email]
<1>1. /\ TypeOK /\ req[r].pc = "create_user" /\ req[r].op = "register"
      /\ UNCHANGED <<tenant, secret, audit, confirmed>>
  BY DEF IInv, RegisterCreate, At
<1>2. CASE Reply(r, "INTERNAL_SERVER_ERROR") /\ UNCHANGED user
  <2>1. req' = [req EXCEPT ![r] = Idle] /\ refused' = refused
    BY <1>1, <1>2 DEF Reply
  <2> QED
    BY <1>1, <1>2, <2>1, StopSeen DEF history, tables
<1>3. CASE /\ Found(g, a) = {} /\ UNCHANGED refused
           /\ \E u \in User :
                /\ user[u].status = "absent"
                /\ user' = [user EXCEPT ![u] = [status |-> "ACTIVE", tenant |-> g, address |-> a]]
                /\ req' = [req EXCEPT ![r].found = u, ![r].pc = "upsert"]
  <2>1. PICK u \in User :
          /\ user[u].status = "absent"
          /\ user' = [user EXCEPT ![u] = [status |-> "ACTIVE", tenant |-> g, address |-> a]]
          /\ req' = [req EXCEPT ![r].found = u, ![r].pc = "upsert"]
    BY <1>3
  <2>2. g \in Tenant /\ a \in Address /\ Members!Subject(r) = <<g, a>> /\ StageView(req[r]) = "admitted"
    BY <1>1, SubjectSeen DEF StageView
  <2> DEFINE x == [req[r] EXCEPT !.found = u, !.pc = "upsert"]
  <2>3. /\ req' = [req EXCEPT ![r] = x]
        /\ AskView(x) = AskView(req[r]) /\ StageView(x) = "claimed"
    <3>1. req[r] \in RequestState
      BY <1>1, SlotType
    <3>2. req' = [req EXCEPT ![r] = x]
      BY <1>1, <2>1, <3>1 DEF TypeOK, RequestState
    <3> QED
      BY <3>1, <3>2 DEF AskView, StageView, RequestState
  <2> HIDE DEF x
  <2>4. Members!Moves(r, "register", "admitted", "claimed")
    <3>1. Members!Moves(r, req[r].op, StageView(req[r]), StageView(x))
      BY <1>1, <1>3, <2>3, MovesSeen
    <3> QED
      BY <1>1, <2>2, <2>3, <3>1
  <2>5. MemberAccount[<<g, a>>] = NoAccount
    BY <1>3, <2>2, FreeSeen
  <2>6. /\ user'[u] = [status |-> "ACTIVE", tenant |-> g, address |-> a]
        /\ secret'[u] = None /\ \A v \in User : v # u => user'[v] = user[v]
    BY <1>1, <2>1 DEF IInv, TypeOK, RowsOK
  <2>7. MemberAccount'[<<g, a>>] = [status |-> "ACTIVE", password |-> None]
    BY <2>2, <2>6, RowSeenThen DEF IInv, Matches
  <2>8. ASSUME NEW z \in Tenant \X Address, z # <<g, a>> PROVE MemberAccount'[z] = MemberAccount[z]
    <3>1. z = <<z[1], z[2]>>
      OBVIOUS
    <3>2. z[1] # g \/ z[2] # a
      BY <2>8, <3>1
    <3>3. Found(z[1], z[2])' = Found(z[1], z[2]) /\ u \notin Found(z[1], z[2])
      BY <2>1, <2>6, <3>2 DEF Found
    <3>4. \A v \in Found(z[1], z[2]) : user'[v].status = user[v].status /\ secret'[v] = secret[v]
      BY <1>1, <2>6, <3>3 DEF Found
    <3> QED
      BY <3>3, <3>4, SameSeen
  <2>9. MemberAccount' = [MemberAccount EXCEPT ![<<g, a>>] = [status |-> "ACTIVE", password |-> None]]
    BY <2>2, <2>7, <2>8, OneSeen
  <2> QED
    BY <2>2, <2>4, <2>5, <2>9 DEF Members!Claim
<1> QED
  BY <1>2, <1>3 DEF RegisterCreate

(* A step that changes no address but one, in the row of that address.     *)
LEMMA OthersSeen ==
  ASSUME IInv, NEW u \in User, user[u].status # "absent",
         NEW z \in Tenant \X Address, z # <<user[u].tenant, user[u].address>>,
         user'[u].tenant = user[u].tenant, user'[u].address = user[u].address,
         \A v \in User : v # u => user'[v] = user[v] /\ secret'[v] = secret[v]
  PROVE  MemberAccount'[z] = MemberAccount[z]
<1>1. z = <<z[1], z[2]>>
  OBVIOUS
<1>2. user[u].tenant # z[1] \/ user[u].address # z[2]
  BY <1>1
<1>3. Found(z[1], z[2])' = Found(z[1], z[2]) /\ u \notin Found(z[1], z[2])
  BY <1>2 DEF Found
<1>4. \A v \in Found(z[1], z[2]) : user'[v].status = user[v].status /\ secret'[v] = secret[v]
  BY <1>3 DEF Found
<1> QED
  BY <1>3, <1>4, SameSeen

(* The credential: the account that this registration claimed, and that    *)
(* has none, gets its password.                                            *)
LEMMA RegisterCredentialSeen ==
  ASSUME IInv, IInv', NEW r \in Request, RegisterCredential(r)
  PROVE  Members!SetPassword(r)
<1> DEFINE g == req[r].tenant
           a == Normalized[req[r].email]
           u == req[r].found
<1>1. /\ TypeOK /\ SlotOK(r) /\ req[r].pc = "upsert" /\ req[r].op = "register"
      /\ secret' = [secret EXCEPT ![u] = req[r].password] /\ Goto(r, "answer")
      /\ UNCHANGED <<tenant, user, audit, history>>
  BY DEF IInv, RegisterCredential, At
<1>2. u \in User /\ Matches(u, g, a) /\ secret[u] = None
  BY <1>1 DEF SlotOK, LocalsOf, Registering, Owns
<1>3. /\ g \in Tenant /\ a \in Address /\ Members!Subject(r) = <<g, a>>
      /\ StageView(req[r]) = "claimed" /\ MemberAsk[r].password = req[r].password
  BY <1>1, SubjectSeen DEF StageView
<1>4. "answer" \in Pc /\ StageView([req[r] EXCEPT !.pc = "answer"]) = "registered"
  <2>1. req[r] \in RequestState
    BY <1>1, SlotType
  <2> QED
    BY <2>1 DEF Pc, StageView, RequestState
<1>5. Members!Moves(r, "register", "claimed", "registered")
  <2>1. Members!Moves(r, req[r].op, StageView(req[r]), StageView([req[r] EXCEPT !.pc = "answer"]))
    BY <1>1, <1>4, GotoSeen DEF history
  <2> QED
    BY <1>1, <1>3, <1>4, <2>1
<1>6. MemberAccount[<<g, a>>] = [status |-> user[u].status, password |-> None]
  BY <1>1, <1>2, <1>3, RowSeen DEF IInv
<1>7. MemberAccount'[<<g, a>>] = [status |-> user[u].status, password |-> req[r].password]
  <2>1. /\ user'[u].status # "absent" /\ user'[u].tenant = g /\ user'[u].address = a
        /\ secret'[u] = req[r].password /\ user' = user
    BY <1>1, <1>2 DEF Matches, TypeOK
  <2> QED
    BY <1>2, <1>3, <2>1, RowSeenThen DEF IInv, Matches
<1>8. \A z \in Tenant \X Address : z # <<g, a>> => MemberAccount'[z] = MemberAccount[z]
  BY <1>1, <1>2, OthersSeen DEF Matches, TypeOK
<1>9. MemberAccount' = [MemberAccount EXCEPT ![<<g, a>>] =
                          [status |-> user[u].status, password |-> req[r].password]]
  BY <1>3, <1>7, <1>8, OneSeen
<1>10. MemberAccount' = [MemberAccount EXCEPT ![<<g, a>>].password = req[r].password]
  <2>1. [MemberAccount[<<g, a>>] EXCEPT !.password = req[r].password]
          = [status |-> user[u].status, password |-> req[r].password]
    BY <1>6
  <2> QED
    BY <1>9, <2>1
<1> QED
  BY <1>3, <1>5, <1>6, <1>10 DEF Members!SetPassword

(* The answer to a registration.                                           *)
LEMMA RegisterAnswerSeen ==
  ASSUME IInv, NEW r \in Request, RegisterAnswer(r)
  PROVE  Members!Confirm(r)
<1> DEFINE row == [action |-> "USER_REGISTERED", tenant |-> req[r].tenant, user |-> req[r].found,
                   email |-> req[r].email]
<1>1. /\ TypeOK /\ req[r].pc = "answer" /\ req[r].op = "register" /\ UNCHANGED tables
      /\ confirmed' = confirmed \cup
           {<<req[r].tenant, Normalized[req[r].email], req[r].password>>}
      /\ req' = [req EXCEPT ![r] = Idle] /\ refused' = refused /\ Record(row)
  BY DEF IInv, RegisterAnswer, At, Reply
<1>2. /\ MemberStage[r] = "registered" /\ MemberAsk[r].tenant = req[r].tenant
      /\ MemberAsk[r].email = req[r].email /\ MemberAsk[r].password = req[r].password
  BY <1>1, SubjectSeen DEF StageView
<1>3. Members!Ends(r)
  BY <1>1, EndSeen
<1>4. RowView(row) = [action |-> "USER_REGISTERED", tenant |-> req[r].tenant, email |-> req[r].email]
  BY DEF RowView
<1> HIDE DEF row
<1>5. Members!Says(r, "USER_REGISTERED")
  BY <1>1, <1>4, RecordSeen
<1> QED
  BY <1>1, <1>2, <1>3, <1>5 DEF Members!Confirm

(* A login that is in doubt is a miss.                                     *)
LEMMA DoubtSeen ==
  ASSUME IInv, NEW r \in Request, NEW u, NEW reason, Doubt(r, u, reason), req[r].op = "login",
         req[r].pc \in {"find_user", "find_credential"}, UNCHANGED <<tables, audit, history>>
  PROVE  /\ Members!Moves(r, "login", IF req[r].pc = "find_user" THEN "admitted" ELSE "met",
                          IF reason = "user_disabled" THEN "barred" ELSE "unknown")
         /\ MemberAccount' = MemberAccount
<1>1. TypeOK
  BY DEF IInv
<1> DEFINE x == [req[r] EXCEPT !.found = u, !.pc = "refuse", !.reason = reason]
<1>2. req[r] \in RequestState
  BY <1>1, SlotType
<1>3. req' = [req EXCEPT ![r] = x]
  BY <1>1, <1>2 DEF Doubt, TypeOK, RequestState
<1>4. /\ AskView(x) = AskView(req[r])
      /\ StageView(x) = IF reason = "user_disabled" THEN "barred" ELSE "unknown"
  BY <1>2 DEF AskView, StageView, RequestState
<1>5. StageView(req[r]) = IF req[r].pc = "find_user" THEN "admitted" ELSE "met"
  BY DEF StageView
<1> HIDE DEF x
<1>6. Members!Moves(r, req[r].op, StageView(req[r]), StageView(x))
  BY <1>1, <1>3, <1>4, MovesSeen DEF tables, history
<1>7. MemberAccount' = MemberAccount
  BY TablesSeen DEF tables
<1> QED
  BY <1>4, <1>5, <1>6, <1>7

(* The look-up of a login.                                                 *)
LEMMA LoginFindSeen ==
  ASSUME IInv, NEW r \in Request, LoginFind(r)
  PROVE  Members!Miss(r) \/ Members!Meet(r)
<1> DEFINE g == req[r].tenant
           a == Normalized[req[r].email]
<1>1. /\ TypeOK /\ OneUserPerAddress /\ req[r].pc = "find_user" /\ req[r].op = "login"
      /\ UNCHANGED <<tables, audit, history>>
  BY DEF IInv, LoginFind, At
<1>2. /\ g \in Tenant /\ a \in Address /\ Members!Subject(r) = <<g, a>>
      /\ StageView(req[r]) = "admitted"
  BY <1>1, SubjectSeen DEF StageView
<1>3. ASSUME NEW u \in Found(g, a)
      PROVE  u \in User /\ user[u].status # "absent" /\ MemberAccount[<<g, a>>].status = user[u].status
  <2>1. u \in User /\ Matches(u, g, a)
    BY DEF Found, Matches
  <2>2. MemberAccount[<<g, a>>] = [status |-> user[u].status, password |-> secret[u]]
    BY <1>1, <1>2, <2>1, RowSeen
  <2> QED
    BY <2>1, <2>2 DEF Matches
<1>4. CASE Found(g, a) = {} /\ Doubt(r, None, "user_not_found")
  <2>1. MemberAccount[<<g, a>>] = NoAccount
    BY <1>2, <1>4, FreeSeen
  <2>2. Members!Moves(r, "login", "admitted", "unknown") /\ MemberAccount' = MemberAccount
    BY <1>1, <1>4, DoubtSeen
  <2> QED
    BY <1>2, <2>1, <2>2 DEF Members!Miss
<1>5. ASSUME NEW u \in Found(g, a), Barred(u), Doubt(r, u, "user_disabled")
      PROVE  Members!Miss(r)
  <2>1. MemberAccount[<<g, a>>].status \in {"DISABLED", "LOCKED"}
    BY <1>3, <1>5 DEF Barred, Inactive
  <2>2. Members!Moves(r, "login", "admitted", "barred") /\ MemberAccount' = MemberAccount
    BY <1>1, <1>5, DoubtSeen
  <2> QED
    BY <1>2, <2>1, <2>2 DEF Members!Miss
<1>6. ASSUME NEW u \in Found(g, a), ~Barred(u),
             req' = [req EXCEPT ![r].found = u, ![r].pc = "find_credential"]
      PROVE  Members!Meet(r)
  <2>1. MemberAccount[<<g, a>>].status = "ACTIVE"
    <3>1. user[u] \in UserRow /\ user[u].status # "absent"
      BY <1>1, <1>3 DEF TypeOK
    <3>2. user[u].status = "ACTIVE"
      BY <1>6, <3>1 DEF UserRow, NoRow, Barred
    <3> QED
      BY <1>3, <3>2
  <2> DEFINE x == [req[r] EXCEPT !.found = u, !.pc = "find_credential"]
  <2>2. /\ req' = [req EXCEPT ![r] = x]
        /\ AskView(x) = AskView(req[r]) /\ StageView(x) = "met"
    <3>1. req[r] \in RequestState
      BY <1>1, SlotType
    <3>2. req' = [req EXCEPT ![r] = x]
      BY <1>1, <1>6, <3>1 DEF TypeOK, RequestState
    <3> QED
      BY <3>1, <3>2 DEF AskView, StageView, RequestState
  <2> HIDE DEF x
  <2>3. Members!Moves(r, req[r].op, StageView(req[r]), StageView(x))
    BY <1>1, <2>2, MovesSeen DEF tables, history
  <2>4. MemberAccount' = MemberAccount
    BY <1>1, TablesSeen DEF tables
  <2> QED
    BY <1>1, <1>2, <2>1, <2>2, <2>3, <2>4 DEF Members!Meet
<1> QED
  BY <1>4, <1>5, <1>6 DEF LoginFind

(* The comparison of a login's password.                                   *)
LEMMA LoginCredentialSeen ==
  ASSUME IInv, NEW r \in Request, LoginCredential(r)
  PROVE  Members!Miss(r) \/ Members!Match(r)
<1> DEFINE g == req[r].tenant
           a == Normalized[req[r].email]
           u == req[r].found
<1>1. /\ TypeOK /\ OneUserPerAddress /\ SlotOK(r) /\ UNCHANGED <<tables, audit, history>>
      /\ req[r].pc = "find_credential" /\ req[r].op = "login"
  BY DEF IInv, LoginCredential, At
<1>2. u \in User /\ Matches(u, g, a) /\ req[r].password # None
  BY <1>1, NullAssumption DEF SlotOK, StepOf, LocalsOf, Owns
<1>3. /\ g \in Tenant /\ a \in Address /\ Members!Subject(r) = <<g, a>>
      /\ StageView(req[r]) = "met" /\ MemberAsk[r].password = req[r].password
  BY <1>1, SubjectSeen DEF StageView
<1>4. MemberAccount[<<g, a>>].password = secret[u] /\ MemberAccount' = MemberAccount
  <2>1. MemberAccount[<<g, a>>] = [status |-> user[u].status, password |-> secret[u]]
    BY <1>1, <1>2, <1>3, RowSeen
  <2> QED
    BY <1>1, <2>1, TablesSeen DEF tables
<1>5. ASSUME NEW reason \in {"no_password_credential", "bad_password"}, Doubt(r, u, reason),
             secret[u] # req[r].password
      PROVE  Members!Miss(r)
  <2>1. Members!Moves(r, "login", "met", "unknown")
    BY <1>1, <1>5, DoubtSeen
  <2> QED
    BY <1>3, <1>4, <1>5, <2>1 DEF Members!Miss
<1>6. CASE secret[u] = req[r].password /\ Goto(r, "accepted")
  <2>1. "accepted" \in Pc /\ StageView([req[r] EXCEPT !.pc = "accepted"]) = "matched"
    <3>1. req[r] \in RequestState
      BY <1>1, SlotType
    <3> QED
      BY <3>1 DEF Pc, StageView, RequestState
  <2>2. Members!Moves(r, req[r].op, StageView(req[r]), StageView([req[r] EXCEPT !.pc = "accepted"]))
    BY <1>1, <1>6, <2>1, GotoSeen DEF tables, history
  <2>3. Members!Moves(r, "login", "met", "matched")
    BY <1>1, <1>3, <2>1, <2>2
  <2> QED
    BY <1>3, <1>4, <1>6, <2>3 DEF Members!Match
<1> QED
  BY <1>2, <1>5, <1>6 DEF LoginCredential

(* A refusal tells the caller and the trail.                               *)
LEMMA LoginRefuseSeen ==
  ASSUME IInv, NEW r \in Request, LoginRefuse(r)
  PROVE  Members!Refuse(r)
<1> DEFINE row == [action |-> "USER_LOGIN_FAILED", tenant |-> req[r].tenant,
                   user |-> req[r].found, email |-> req[r].email]
           code == IF req[r].reason = "user_disabled" THEN "USER_DISABLED" ELSE "INVALID_CREDENTIALS"
<1>1. /\ req[r].pc = "refuse" /\ req[r].op = "login" /\ Reply(r, code) /\ Record(row)
      /\ UNCHANGED <<tables, confirmed>> /\ TypeOK
  BY DEF IInv, LoginRefuse, At
<1>2. /\ MemberStage[r] = IF req[r].reason = "user_disabled" THEN "barred" ELSE "unknown"
      /\ MemberAsk[r].tenant = req[r].tenant /\ MemberAsk[r].email = req[r].email
  BY <1>1, SubjectSeen DEF StageView
<1>3. Members!Ends(r)
  BY <1>1, EndSeen DEF Reply
<1>4. RowView(row) = [action |-> "USER_LOGIN_FAILED", tenant |-> req[r].tenant,
                      email |-> req[r].email]
  BY DEF RowView
<1> HIDE DEF row
<1>5. Members!Says(r, "USER_LOGIN_FAILED")
  BY <1>1, <1>4, RecordSeen
<1>6. refused' = refused \cup {<<req[r].tenant, req[r].email, code>>}
  BY <1>1 DEF Reply
<1>7. Members!Refuses(r, code)
  BY <1>1, <1>2, <1>3, <1>6 DEF Members!Refuses
<1> QED
  BY <1>2, <1>5, <1>7 DEF Members!Refuse

(* A login that goes on as a session, and a request that fails.            *)
LEMMA StopsSeen ==
  ASSUME IInv, NEW r \in Request, LoginAccept(r) \/ Fail(r)
  PROVE  Members!Stop(r)
<1>1. TypeOK /\ SlotOK(r)
  BY DEF IInv
<1>2. CASE LoginAccept(r)
  BY <1>1, <1>2, StopSeen DEF LoginAccept, At, Reply, history
<1>3. CASE Fail(r)
  <2>1. req[r].pc = "create_user" => req[r].op = "register"
    BY <1>1 DEF SlotOK, StepOf, TypeOK, RequestState
  <2> QED
    BY <1>1, <1>3, <2>1, StopSeen DEF Fail
<1> QED
  BY <1>2, <1>3

(* The operator disables the account of a row, or suspends a tenant.       *)
LEMMA DisableSeen ==
  ASSUME IInv, IInv', NEW u \in User, NEW status \in Inactive, Disable(u, status)
  PROVE  \E x \in Tenant \X Address, s \in {"DISABLED", "LOCKED"} : Members!Disable(x, s)
<1> DEFINE g == user[u].tenant
           a == user[u].address
<1>1. /\ TypeOK /\ user[u].status = "ACTIVE" /\ user' = [user EXCEPT ![u].status = status]
      /\ UNCHANGED <<tenant, secret, audit, req, history>>
  BY DEF IInv, Disable
<1>2. user[u] \in UserRow /\ u \in User
  BY <1>1 DEF TypeOK
<1>3. g \in Tenant /\ a \in Address
  BY <1>1, <1>2 DEF UserRow, NoRow
<1>4. /\ user'[u].status = status /\ user'[u].tenant = g /\ user'[u].address = a
      /\ status # "absent" /\ \A v \in User : v # u => user'[v] = user[v]
  BY <1>1, <1>2 DEF TypeOK, UserRow, NoRow, Inactive
<1> HIDE DEF g, a
<1>5. MemberAccount[<<g, a>>] = [status |-> "ACTIVE", password |-> secret[u]]
  <2>1. Matches(u, g, a)
    BY <1>1 DEF Matches, g, a
  <2> QED
    BY <1>1, <1>3, <2>1, RowSeen DEF IInv
<1>6. \A z \in Tenant \X Address : z # <<g, a>> => MemberAccount'[z] = MemberAccount[z]
  BY <1>1, <1>4, OthersSeen DEF g, a
<1>7. PICK x \in Tenant \X Address : x = <<g, a>>
  BY <1>3
<1>8. PICK t, b : t = g /\ b = a
  OBVIOUS
<1>9. MemberAccount'[<<t, b>>] = [status |-> status, password |-> secret[u]]
  <2>1. user'[u].status # "absent" /\ user'[u].tenant = t /\ user'[u].address = b
    BY <1>4, <1>8
  <2>2. OneUserPerAddress' /\ t \in Tenant /\ b \in Address
    BY <1>3, <1>8 DEF IInv
  <2>3. MemberAccount'[<<t, b>>] = [status |-> user'[u].status, password |-> secret'[u]]
    BY <2>1, <2>2, RowSeenThen DEF Matches
  <2> QED
    BY <1>1, <1>4, <2>3
<1>10. MemberAccount' = [MemberAccount EXCEPT ![x] = [status |-> status, password |-> secret[u]]]
  BY <1>6, <1>7, <1>8, <1>9, OneSeen
<1>11. MemberAccount' = [MemberAccount EXCEPT ![x].status = status]
  <2>1. [MemberAccount[x] EXCEPT !.status = status] = [status |-> status, password |-> secret[u]]
    BY <1>5, <1>7
  <2> QED
    BY <1>10, <2>1
<1>12. UNCHANGED <<tenant, MemberAsk, MemberStage, Members!told>> /\ MemberAccount[x].status = "ACTIVE"
  BY <1>1, <1>5, <1>7 DEF MemberAsk, MemberStage, MemberTrail, Members!told, history
<1>13. Members!Disable(x, status)
  BY <1>11, <1>12 DEF Members!Disable
<1> QED
  BY <1>13 DEF Inactive

(* A suspended tenant changes no account.                                  *)
LEMMA SuspendSeen ==
  ASSUME NEW g \in Tenant, Suspend(g)
  PROVE  Members!Suspend(g)
<1>1. UNCHANGED <<user, secret, audit, req, history>>
  BY DEF Suspend
<1>2. MemberAccount' = MemberAccount
  BY <1>1, TablesSeen
<1>3. UNCHANGED <<MemberAsk, MemberStage, Members!told>>
  BY <1>1 DEF MemberAsk, MemberStage, MemberTrail, Members!told, history
<1> QED
  BY <1>2, <1>3 DEF Suspend, Members!Suspend

(* The initial states map to the initial states.                           *)
LEMMA InitSeen == Init => Members!Init
<1> SUFFICES ASSUME Init PROVE Members!Init
  OBVIOUS
<1>1. \A g, a : Found(g, a) = {}
  BY DEF Init, Found, NoRow
<1>2. MemberAccount = [x \in Tenant \X Address |-> NoAccount]
  BY <1>1 DEF MemberAccount
<1>3. StageView(Idle) = "idle" /\ \A r \in Request : req[r] = Idle
  BY DEF Init, StageView, Idle
<1>4. /\ MemberAsk = [r \in Request |-> AskView(Idle)]
      /\ MemberStage = [r \in Request |-> "idle"]
  BY <1>3 DEF MemberAsk, MemberStage
<1>5. MemberTrail = {}
  BY DEF Init, MemberTrail
<1> QED
  BY <1>2, <1>4, <1>5 DEF Init, Members!Init

(* Every step maps to a step of Membership, or to none.                    *)
LEMMA NextSeen == IInv /\ IInv' /\ [Next]_vars => [Members!Next]_Members!vars
<1> SUFFICES ASSUME IInv, IInv', [Next]_vars PROVE [Members!Next]_Members!vars
  OBVIOUS
<1>1. CASE UNCHANGED vars
  BY <1>1 DEF vars, MemberAccount, MemberAsk, MemberStage, MemberTrail, Found, Members!vars
<1>2. CASE Operator
  BY <1>2, SuspendSeen, DisableSeen DEF Operator, Members!Next
<1>3. ASSUME NEW r \in Request, Arrive(r) \/ Fail(r) PROVE Members!Next
  BY <1>3, ArriveSeen, StopsSeen DEF Members!Next
<1>4. ASSUME NEW r \in Request, Step(r) PROVE [Members!Next]_Members!vars
  <2>1. CASE RegisterTenant(r) \/ LoginTenant(r)
    BY <2>1, TenantSeen DEF Members!Next
  <2>2. CASE RegisterFind(r)
    BY <2>2, RegisterFindSeen DEF Members!Next
  <2>3. CASE RegisterCreate(r) \/ RegisterCredential(r) \/ RegisterAnswer(r)
    BY <2>3, RegisterCreateSeen, RegisterCredentialSeen, RegisterAnswerSeen DEF Members!Next
  <2>4. CASE LoginFind(r) \/ LoginCredential(r)
    BY <2>4, LoginFindSeen, LoginCredentialSeen DEF Members!Next
  <2>5. CASE LoginRefuse(r) \/ LoginAccept(r)
    BY <2>5, LoginRefuseSeen, StopsSeen DEF Members!Next
  <2> QED
    BY <1>4, <2>1, <2>2, <2>3, <2>4, <2>5 DEF Step
<1> QED
  BY <1>1, <1>2, <1>3, <1>4 DEF Next

(* Whatever the requests interleave with and wherever they fail, an        *)
(* address belongs to the one registration that claimed it, has no other   *)
(* password than the one it gave, and no answer says what was not so while *)
(* its request was under way: the handlers implement Membership.           *)
THEOREM Implements == Spec => ImplementsMembership
BY InitSeen, NextSeen, Invariance, PTL DEF Spec, ImplementsMembership, Members!Spec
===============================================================================
