-------------------------- MODULE SessionsRefinement --------------------------
(***************************************************************************)
(* Results about the steps of Sessions, from the inductive invariant       *)
(* proved in SessionsProofs: token rows only settle, Sessions implements   *)
(* SessionAuthority under the mapping given in Sessions, and revocations   *)
(* complete when handlers go on.                                           *)
(***************************************************************************)
EXTENDS SessionsProofs

(* Every step lets token rows only settle.                                 *)
LEMMA RowsSettleStep == IInv /\ [Next]_vars => \A t \in Token : RowSettles(t)
<1> SUFFICES ASSUME IInv, [Next]_vars, NEW t \in Token PROVE RowSettles(t)
  OBVIOUS
<1>1. TypeOK /\ RowsOK
  BY DEF IInv
<1>2. CASE token' = token
  BY <1>2 DEF RowSettles
<1>3. ASSUME NEW r \in Request, LoginCreateToken(r) PROVE RowSettles(t)
  <2>1. PICK n \in Token :
          /\ token[n].status = "absent"
          /\ token' = [token EXCEPT ![n] = MintedRow(req[r].sid, req[r].sid, req[r].at)]
    BY <1>3 DEF LoginCreateToken
  <2>2. n # t => token'[t] = token[t]
    BY <1>1, <2>1 DEF TypeOK
  <2> QED
    BY <2>1, <2>2 DEF RowSettles
<1>4. ASSUME NEW r \in Request, RefreshRotate(r) PROVE RowSettles(t)
  <2>1. PICK n \in Token :
          /\ token[n].status = "absent"
          /\ token' = Rotation(req[r].tok, n, req[r].sid, req[r].at)
    BY <1>4 DEF RefreshRotate
  <2>2. req[r].tok \in Token /\ req[r].tok # n
    BY <1>4, <2>1 DEF IInv, SlotOK, LocalsOf, RefreshRotate, At, Stored
  <2>3. CASE t = req[r].tok
    <3>1. token'[t] = [token[t] EXCEPT !.replacedBy = n] /\ token[t] \in TokenRow
      BY <1>1, <2>1, <2>2, <2>3 DEF Rotation, TypeOK
    <3>2. n # NoToken
      BY NullAssumption
    <3> QED
      BY <3>1, <3>2 DEF RowSettles, TokenRow
  <2>4. CASE t # req[r].tok /\ t # n
    <3>1. token'[t] = token[t]
      BY <1>1, <2>1, <2>2, <2>4 DEF Rotation, TypeOK
    <3> QED
      BY <3>1 DEF RowSettles
  <2> QED
    BY <2>1, <2>3, <2>4 DEF RowSettles
<1>5. ASSUME NEW r \in Request, RevokeFamily(r) PROVE RowSettles(t)
  <2>1. token' = RevokedFamily(token[req[r].tok].familyId, Why(r)) /\ token[t] \in TokenRow
    BY <1>1, <1>5 DEF RevokeFamily, TypeOK
  <2>2. \/ token'[t] = token[t]
        \/ token[t].status = "open" /\ token'[t] = [token[t] EXCEPT !.status = Why(r)]
    BY <2>1 DEF RevokedFamily
  <2> QED
    BY <2>1, <2>2 DEF RowSettles, TokenRow, Reason
<1>6. ASSUME NEW r \in Request, Arrive(r) \/ Fail(r) PROVE token' = token
  BY <1>6 DEF Arrive, Fail, LoginBegin, RefreshBegin, LogoutBegin, AuthBegin, tables
<1>7. ASSUME NEW r \in Request, Step(r) PROVE RowSettles(t)
  BY <1>2, <1>3, <1>4, <1>5, <1>7 DEF Step, LoginCreateSession, RefreshFind, RefreshSession, Answer,
     LogoutFind, RevokeSession, Confirm, AuthSession, Serve, tables
<1> QED
  BY <1>2, <1>6, <1>7 DEF Next, Tick, vars, tables

(* Rows of refresh_tokens only settle: no write of any handler moves a     *)
(* token to another session or family, prolongs it, un-rotates it, un-     *)
(* revokes it or changes the reason it was first revoked for (the          *)
(* revokedAt: null guard of revokeFamily).                                 *)
THEOREM RowsSettle == Spec => TokenRowsSettle
<1>1. IInv /\ [Next]_vars => [\A t \in Token : RowSettles(t)]_vars
  BY RowsSettleStep
<1> QED
  BY <1>1, Invariance, PTL DEF Spec, TokenRowsSettle

(* How the abstract view follows one slot.                                 *)
LEMMA SlotMoves ==
  ASSUME TypeOK, NEW r \in Request, NEW rec \in RequestState, req' = [req EXCEPT ![r] = rec]
  PROVE  /\ AuthorityAsking' = IF rec.pc = "idle" \/ rec.pc \in Decided
                               THEN AuthorityAsking \ {r} ELSE AuthorityAsking \cup {r}
         /\ AuthorityGranted' = [AuthorityGranted EXCEPT ![r] =
                                   IF rec.pc \in Decided THEN rec.sid ELSE NoSession]
<1>1. req'[r] = rec /\ \A q \in Request : q # r => req'[q] = req[q]
  BY DEF TypeOK
<1>2. AuthorityAsking' = IF rec.pc = "idle" \/ rec.pc \in Decided
                         THEN AuthorityAsking \ {r} ELSE AuthorityAsking \cup {r}
  BY <1>1 DEF AuthorityAsking, Acting, Decided
<1>3. AuthorityGranted' = [AuthorityGranted EXCEPT ![r] =
                             IF rec.pc \in Decided THEN rec.sid ELSE NoSession]
  <2> DEFINE to == IF rec.pc \in Decided THEN rec.sid ELSE NoSession
             grant(q) == IF req[q].pc \in Decided THEN req[q].sid ELSE NoSession
  <2>1. AuthorityGranted = [q \in Request |-> grant(q)]
    BY DEF AuthorityGranted, Acting, Decided
  <2>2. AuthorityGranted' = [q \in Request |-> grant(q)']
    BY DEF AuthorityGranted, Acting, Decided
  <2>3. grant(r)' = to /\ \A q \in Request : q # r => grant(q)' = grant(q)
    BY <1>1
  <2> HIDE DEF to, grant
  <2>4. AuthorityGranted' = [AuthorityGranted EXCEPT ![r] = to]
    BY <2>1, <2>2, <2>3
  <2> QED
    BY <2>4 DEF to
<1> QED
  BY <1>2, <1>3

(* The initial tables map to an authority that has granted nothing.        *)
LEMMA InitAuthority == Init => Authority!Init
BY DEF Init, Authority!Init, AuthorityStatus, AuthorityAsking, AuthorityGranted, Acting, Idle,
   Revoked, Reason, NoSessionRow

(* A request that ends maps to Finish.                                     *)
LEMMA EndAuthority ==
  ASSUME TypeOK, NEW r \in Request, End(r), req[r].pc # "idle", session' = session, closed' = closed,
         req[r].pc \in Decided => req[r].sid # NoSession
  PROVE  Authority!Finish(r)
<1>1. Idle \in RequestState /\ Idle.pc = "idle"
  BY IdleType DEF Idle
<1>2. /\ AuthorityAsking' = AuthorityAsking \ {r}
      /\ AuthorityGranted' = [AuthorityGranted EXCEPT ![r] = NoSession]
  BY <1>1, SlotMoves DEF End, Decided
<1>3. AuthorityStatus' = AuthorityStatus
  BY DEF AuthorityStatus, Revoked
<1>4. r \in AuthorityAsking \/ AuthorityGranted[r] # NoSession
  BY DEF AuthorityAsking, AuthorityGranted, Acting, Decided
<1> QED
  BY <1>2, <1>3, <1>4 DEF Authority!Finish

(* The abstract status is a function of the table sessions.                *)
LEMMA SameSessions ==
  ASSUME session' = session
  PROVE  AuthorityStatus' = AuthorityStatus
BY DEF AuthorityStatus, Revoked

(* A request that arrives maps to Ask.                                     *)
LEMMA AskAuthority ==
  ASSUME IInv, NEW r \in Request, Arrive(r)
  PROVE  Authority!Ask(r)
<1>1. TypeOK /\ req[r].pc = "idle" /\ session' = session /\ closed' = closed
  BY DEF IInv, Arrive, LoginBegin, RefreshBegin, LogoutBegin, AuthBegin, tables, history
<1>2. PICK rec \in RequestState : /\ req' = [req EXCEPT ![r] = rec]
                                 /\ rec.pc \in {"create_session", "find_token", "find_session"}
  <2>1. IInv'
    BY NextIInv DEF Next
  <2>2. req'[r] \in RequestState /\ req' = [req EXCEPT ![r] = req'[r]]
    BY <1>1, <2>1 DEF IInv, TypeOK, Arrive, LoginBegin, RefreshBegin, LogoutBegin, AuthBegin
  <2>3. req'[r].pc \in {"create_session", "find_token", "find_session"}
    <3>1. CASE LoginBegin(r)
      BY <1>1, <3>1 DEF LoginBegin, TypeOK, Idle
    <3>2. ASSUME NEW t \in held \cup {NoToken}, RefreshBegin(r, t)
          PROVE  req'[r].pc = "find_token"
      BY <1>1, <3>2 DEF RefreshBegin, TypeOK, Idle
    <3>3. ASSUME NEW t \in held \cup {NoToken}, LogoutBegin(r, t)
          PROVE  req'[r].pc = "find_token"
      BY <1>1, <3>3 DEF LogoutBegin, TypeOK, Idle
    <3>4. ASSUME NEW b \in bearer, AuthBegin(r, b)
          PROVE  req'[r].pc = "find_session"
      BY <1>1, <3>4 DEF AuthBegin, TypeOK, Idle
    <3> QED
      BY <3>1, <3>2, <3>3, <3>4 DEF Arrive
  <2> QED
    BY <2>2, <2>3
<1>3. /\ AuthorityAsking' = AuthorityAsking \cup {r}
      /\ AuthorityGranted' = [AuthorityGranted EXCEPT ![r] = NoSession]
  BY <1>1, <1>2, SlotMoves DEF Decided
<1>4. r \notin AuthorityAsking /\ AuthorityGranted[r] = NoSession
  BY <1>1 DEF AuthorityAsking, AuthorityGranted, Acting, Decided
<1>5. AuthorityGranted' = AuthorityGranted
  BY <1>3, <1>4 DEF AuthorityGranted
<1> QED
  BY <1>1, <1>3, <1>4, <1>5, SameSessions DEF Authority!Ask

(* A step that moves a request from one undecided, or one decided, place   *)
(* to another and leaves the sessions alone is invisible.                  *)
LEMMA StutterAuthority ==
  ASSUME TypeOK, NEW r \in Request, NEW rec \in RequestState, req' = [req EXCEPT ![r] = rec],
         session' = session, closed' = closed, req[r].pc # "idle", rec.pc # "idle",
         \/ req[r].pc \notin Decided /\ rec.pc \notin Decided
         \/ req[r].pc \in Decided /\ rec.pc \in Decided /\ rec.sid = req[r].sid
  PROVE  UNCHANGED Authority!vars
<1>1. AuthorityAsking' = AuthorityAsking
  BY SlotMoves DEF AuthorityAsking, Acting, Decided
<1>2. AuthorityGranted' = AuthorityGranted
  BY SlotMoves DEF AuthorityGranted, Acting, Decided
<1> QED
  BY <1>1, <1>2, SameSessions DEF Authority!vars

(* The session read that lets a request through is the instant it is       *)
(* granted the session.                                                    *)
LEMMA GrantAuthority ==
  ASSUME TypeOK, NEW r \in Request, NEW pc \in {"rotate", "serve"}, Goto(r, pc),
         req[r].pc = "find_session", req[r].sid \in Session, session[req[r].sid].status = "open",
         session' = session, closed' = closed
  PROVE  Authority!Grant(r, req[r].sid)
<1> DEFINE rec == [req[r] EXCEPT !.pc = pc]
<1>1. req[r] \in RequestState
  BY DEF TypeOK
<1>2. rec \in RequestState /\ rec.pc = pc /\ rec.sid = req[r].sid
  BY <1>1 DEF RequestState, Pc
<1>3. req' = [req EXCEPT ![r] = rec]
  BY DEF Goto, TypeOK
<1>4. /\ AuthorityAsking' = AuthorityAsking \ {r}
      /\ AuthorityGranted' = [AuthorityGranted EXCEPT ![r] = req[r].sid]
  BY <1>2, <1>3, SlotMoves DEF Decided
<1>5. r \in AuthorityAsking /\ AuthorityStatus[req[r].sid] = "open"
  BY DEF AuthorityAsking, AuthorityStatus, Acting, Decided, Revoked, Reason
<1> QED
  BY <1>4, <1>5, SameSessions DEF Authority!Grant

(* The insert of a session maps to Open.                                   *)
LEMMA LoginCreateSessionAuthority ==
  ASSUME IInv, NEW r \in Request, LoginCreateSession(r)
  PROVE  \E s \in Session : Authority!Open(r, s)
<1>1. PICK s \in Session :
        /\ session[s].status = "absent"
        /\ session' = [session EXCEPT ![s] = [status |-> "open", expiresAt |-> Deadline(req[r].at)]]
        /\ req' = [req EXCEPT ![r].sid = s, ![r].pc = "create_token"]
  BY DEF LoginCreateSession
<1> DEFINE rec == [req[r] EXCEPT !.sid = s, !.pc = "create_token"]
<1>2. /\ TypeOK /\ req[r] \in RequestState /\ req[r].pc = "create_session" /\ closed' = closed
  BY DEF LoginCreateSession, At, IInv, TypeOK, history
<1>3. rec \in RequestState /\ rec.pc = "create_token" /\ rec.sid = s /\ req' = [req EXCEPT ![r] = rec]
  BY <1>1, <1>2 DEF RequestState, Pc, TypeOK
<1>4. /\ AuthorityAsking' = AuthorityAsking \ {r}
      /\ AuthorityGranted' = [AuthorityGranted EXCEPT ![r] = s]
  BY <1>2, <1>3, SlotMoves DEF Decided
<1>5. AuthorityStatus' = [AuthorityStatus EXCEPT ![s] = "open"]
  BY <1>1, <1>2 DEF AuthorityStatus, Revoked, Reason, TypeOK
<1>6. r \in AuthorityAsking /\ AuthorityStatus[s] = "absent"
  BY <1>1, <1>2 DEF AuthorityAsking, AuthorityStatus, Acting, Decided, Revoked, Reason
<1> QED
  BY <1>2, <1>4, <1>5, <1>6 DEF Authority!Open

(* The update of a session maps to Revoke the first time, later to a       *)
(* stutter.                                                                *)
LEMMA RevokeSessionAuthority ==
  ASSUME IInv, NEW r \in Request, RevokeSession(r)
  PROVE  Authority!Revoke(req[r].sid) \/ UNCHANGED Authority!vars
<1> DEFINE s == req[r].sid
           rec == [req[r] EXCEPT !.pc = "confirm"]
<1>1. /\ TypeOK /\ req[r] \in RequestState /\ req[r].pc = "revoke_session" /\ closed' = closed
      /\ s \in Session /\ session[s].status # "absent" /\ Why(r) \in Reason
      /\ session' = [session EXCEPT ![s].status = Why(r)]
  BY DEF RevokeSession, RevokedSession, IInv, TypeOK, SlotOK, LocalsOf, Revoking, Exists, Why, Reason, history
<1>2. rec \in RequestState /\ rec.pc = "confirm" /\ req' = [req EXCEPT ![r] = rec]
  BY <1>1 DEF RevokeSession, Goto, AfterSession, RequestState, Pc, TypeOK
<1>3. AuthorityAsking' = AuthorityAsking /\ AuthorityGranted' = AuthorityGranted
  BY <1>1, <1>2, SlotMoves DEF AuthorityAsking, AuthorityGranted, Acting, Decided
<1>4. AuthorityStatus' = [AuthorityStatus EXCEPT ![s] = "revoked"]
  BY <1>1 DEF AuthorityStatus, Revoked, TypeOK, SessionRow
<1>5. CASE session[s].status = "open"
  BY <1>1, <1>3, <1>4, <1>5 DEF Authority!Revoke, AuthorityStatus, Revoked, Reason
<1>6. CASE Revoked(s)
  BY <1>1, <1>3, <1>4, <1>6 DEF Authority!vars, AuthorityStatus
<1> QED
  BY <1>1, <1>5, <1>6 DEF TypeOK, SessionRow, Status, Revoked

(* The answer to a logout or to a detected reuse maps to Confirm.          *)
LEMMA ConfirmAuthority ==
  ASSUME IInv, NEW r \in Request, Confirm(r)
  PROVE  req[r].sid \in Session /\ Authority!Confirm(r, req[r].sid)
<1>1. /\ TypeOK /\ req[r].pc = "confirm" /\ session' = session /\ closed' = closed \cup {req[r].sid}
      /\ req' = [req EXCEPT ![r] = Idle]
      /\ req[r].sid \in Session /\ Revoked(req[r].sid)
  BY DEF Confirm, End, IInv, SlotOK, LocalsOf, Revoking, Exists, tables
<1>2. Idle \in RequestState /\ Idle.pc = "idle"
  BY IdleType DEF Idle
<1>3. /\ AuthorityAsking' = AuthorityAsking \ {r}
      /\ AuthorityGranted' = [AuthorityGranted EXCEPT ![r] = NoSession]
  BY <1>1, <1>2, SlotMoves DEF Decided
<1>4. /\ r \in AuthorityAsking /\ AuthorityGranted[r] = NoSession
      /\ AuthorityStatus[req[r].sid] = "revoked"
  BY <1>1 DEF AuthorityAsking, AuthorityGranted, AuthorityStatus, Acting, Decided
<1>5. AuthorityGranted' = AuthorityGranted
  BY <1>3, <1>4 DEF AuthorityGranted
<1> QED
  BY <1>1, <1>3, <1>4, <1>5, SameSessions DEF Authority!Confirm

(* Every step of a handler maps to an abstract step or a stutter.          *)
LEMMA StepAuthority ==
  ASSUME IInv, NEW r \in Request, Step(r)
  PROVE  [Authority!Next]_(Authority!vars)
<1>1. TypeOK /\ req[r] \in RequestState /\ SlotOK(r) /\ IInv'
  BY NextIInv DEF IInv, TypeOK, Next
<1>2. ASSUME End(r), session' = session, closed' = closed, req[r].pc # "idle"
      PROVE  Authority!Finish(r)
  BY <1>1, <1>2, EndAuthority DEF SlotOK, LocalsOf, Decided
<1>3. ASSUME NEW pc \in Pc, req' = [req EXCEPT ![r].pc = pc],
             session' = session, closed' = closed,
             req[r].pc \notin Decided \cup {"idle"}, pc \notin Decided \cup {"idle"}
      PROVE  UNCHANGED Authority!vars
  <2> DEFINE rec == [req[r] EXCEPT !.pc = pc]
  <2>1. rec \in RequestState /\ req' = [req EXCEPT ![r] = rec] /\ rec.pc = pc
    BY <1>1, <1>3 DEF RequestState, TypeOK
  <2> QED
    BY <1>1, <1>3, <2>1, StutterAuthority
<1>4. CASE LoginCreateSession(r)
  BY <1>4, LoginCreateSessionAuthority DEF Authority!Next
<1>5. ASSUME NEW n \in Token, req' = [req EXCEPT ![r].new = n, ![r].pc = "answer"],
             session' = session, closed' = closed, req[r].pc \in {"create_token", "rotate"}
      PROVE  UNCHANGED Authority!vars
  <2> DEFINE rec == [req[r] EXCEPT !.new = n, !.pc = "answer"]
  <2>1. /\ rec \in RequestState /\ req' = [req EXCEPT ![r] = rec]
        /\ rec.pc = "answer" /\ rec.sid = req[r].sid
    BY <1>1, <1>5 DEF RequestState, Pc, TypeOK
  <2> QED
    BY <1>1, <1>5, <2>1, StutterAuthority DEF Decided
<1>6. CASE LoginCreateToken(r) \/ RefreshRotate(r)
  BY <1>5, <1>6 DEF LoginCreateToken, RefreshRotate, At, history
<1>7. ASSUME NEW s, NEW pc \in {"revoke_family", "find_session"}, session' = session, closed' = closed,
             req[r].pc = "find_token", req' = [req EXCEPT ![r].sid = s, ![r].pc = pc]
      PROVE  UNCHANGED Authority!vars
  <2>1. /\ req'[r] \in RequestState /\ req' = [req EXCEPT ![r] = req'[r]] /\ req'[r].pc = pc
    BY <1>1, <1>7 DEF IInv, TypeOK, RequestState
  <2> QED
    BY <1>1, <1>7, <2>1, StutterAuthority DEF Decided
<1>8. CASE RefreshFind(r) \/ LogoutFind(r)
  <2>1. session' = session /\ closed' = closed /\ req[r].pc = "find_token"
    BY <1>8 DEF RefreshFind, LogoutFind, At, tables, history
  <2>2. \/ End(r)
        \/ \E pc \in {"revoke_family", "find_session"} :
             req' = [req EXCEPT ![r].sid = token[req[r].tok].sessionId, ![r].pc = pc]
    BY <1>8 DEF RefreshFind, LogoutFind, FirstWrite
  <2> QED
    BY <1>2, <1>7, <2>1, <2>2 DEF Authority!Next
<1>9. ASSUME req[r].pc = "find_session", NEW at, Live(req[r].sid, at), NEW pc \in {"rotate", "serve"},
             Goto(r, pc), session' = session, closed' = closed
      PROVE  Authority!Next
  <2>1. req[r].sid \in Session /\ session[req[r].sid].status = "open"
    BY <1>1, <1>9 DEF SlotOK, LocalsOf, Live, Exists
  <2> QED
    BY <1>1, <1>9, <2>1, GrantAuthority DEF Authority!Next
<1>10. CASE RefreshSession(r) \/ AuthSession(r)
  BY <1>2, <1>9, <1>10 DEF RefreshSession, AuthSession, At, tables, history, Authority!Next
<1>11. CASE Answer(r) \/ Serve(r)
  BY <1>2, <1>11 DEF Answer, Serve, tables, history, Authority!Next
<1>12. CASE RevokeFamily(r)
  BY <1>3, <1>12 DEF RevokeFamily, Goto, AfterFamily, Pc, Decided, history
<1>13. CASE RevokeSession(r)
  <2>1. req[r].sid \in Session
    BY <1>1, <1>13 DEF RevokeSession, SlotOK, LocalsOf, Revoking, Exists
  <2> QED
    BY <1>13, <2>1, RevokeSessionAuthority DEF Authority!Next
<1>14. CASE Confirm(r)
  BY <1>14, ConfirmAuthority DEF Authority!Next
<1> QED
  BY <1>4, <1>6, <1>8, <1>10, <1>11, <1>12, <1>13, <1>14 DEF Step

(* Every step maps to an abstract step or a stutter.                       *)
LEMMA NextAuthority == IInv /\ [Next]_vars => [Authority!Next]_(Authority!vars)
<1> SUFFICES ASSUME IInv, [Next]_vars PROVE [Authority!Next]_(Authority!vars)
  OBVIOUS
<1>1. CASE Tick \/ UNCHANGED vars
  BY <1>1 DEF Tick, vars, tables, history, Authority!vars, AuthorityStatus, AuthorityAsking,
     AuthorityGranted, Acting, Revoked
<1>2. ASSUME NEW r \in Request, Arrive(r) PROVE Authority!Next
  BY <1>2, AskAuthority DEF Authority!Next
<1>3. ASSUME NEW r \in Request, Fail(r) PROVE Authority!Next
  BY <1>3, EndAuthority DEF Fail, IInv, SlotOK, LocalsOf, Decided, tables, history, Authority!Next
<1> QED
  BY <1>1, <1>2, <1>3, StepAuthority DEF Next

(* The handlers, interleaved in any way and failing at any await,          *)
(* implement the abstract authority over sessions.                         *)
THEOREM Implements == Spec => ImplementsAuthority
<1> QED
  BY InitAuthority, NextAuthority, Invariance, PTL DEF Spec, Authority!Spec, ImplementsAuthority
-------------------------------------------------------------------------------
(* Revocations complete.  A request that is to revoke s goes through three *)
(* states, and in each of them only a step of its own moves it.            *)
AtFamily(r, s)  == req[r].pc = "revoke_family" /\ req[r].sid = s
AtSession(r, s) == req[r].pc = "revoke_session" /\ req[r].sid = s

(* No other request touches a slot, and without failures one that is not   *)
(* about to insert a row only goes on.                                     *)
LEMMA OnlyItsStep ==
  ASSUME ~MayFail, [Next]_vars, TypeOK, NEW r \in Request, req[r].pc # "idle", ~OutOfRows(r)
  PROVE  req'[r] = req[r] \/ Step(r)
<1>1. ASSUME NEW q \in Request, Step(q), q # r PROVE req'[r] = req[r]
  BY <1>1 DEF TypeOK, Step, LoginCreateSession, LoginCreateToken, RefreshFind, RefreshSession,
     RefreshRotate, Answer, LogoutFind, RevokeFamily, RevokeSession, Confirm, AuthSession, Serve,
     Goto, End
<1>2. ASSUME NEW q \in Request, Arrive(q) PROVE req'[r] = req[r]
  BY <1>2 DEF TypeOK, Arrive, LoginBegin, RefreshBegin, LogoutBegin, AuthBegin
<1>3. ASSUME NEW q \in Request, Fail(q) PROVE req'[r] = req[r]
  BY <1>3 DEF TypeOK, Fail, End
<1> QED
  BY <1>1, <1>2, <1>3 DEF Next, Tick, vars

(* The session of a stored token does not change.                          *)
LEMMA DoomStays ==
  ASSUME IInv, [Next]_vars, NEW r \in Request, NEW s \in Session, Dooms(r, s), req'[r] = req[r]
  PROVE  Dooms(r, s)'
<1>1. req[r].tok \in Token /\ token[req[r].tok].status # "absent"
  BY DEF IInv, SlotOK, LocalsOf, Stored, Dooms
<1>2. token'[req[r].tok].sessionId = token[req[r].tok].sessionId
  BY <1>1, RowsSettleStep DEF RowSettles
<1> QED
  BY <1>2 DEF Dooms

(* What a step of such a request does.                                     *)
LEMMA DoomSteps ==
  ASSUME IInv, NEW r \in Request, NEW s \in Session, Dooms(r, s), Step(r)
  PROVE  AtFamily(r, s)'
<1>1. TypeOK /\ req[r].tok # NoToken /\ (req[r].op = "refresh" => Reused(req[r].tok))
  BY DEF IInv, SlotOK, HistoryOf, StepOf, Dooms, Reused, Exchanging, Revoking
<1>2. req' = [req EXCEPT ![r].sid = token[req[r].tok].sessionId, ![r].pc = FirstWrite]
  BY <1>1 DEF Dooms, Step, At, LoginCreateSession, LoginCreateToken, RefreshFind, RefreshSession,
     RefreshRotate, Answer, LogoutFind, RevokeFamily, RevokeSession, Confirm, AuthSession, Serve
<1> QED
  BY <1>1, <1>2 DEF Dooms, AtFamily, FirstWrite, TypeOK, RequestState

LEMMA FamilySteps ==
  ASSUME IInv, NEW r \in Request, NEW s \in Session, AtFamily(r, s), Step(r)
  PROVE  AtSession(r, s)'
<1>1. RevokeFamily(r)
  BY DEF AtFamily, Step, At, LoginCreateSession, LoginCreateToken, RefreshFind, RefreshSession,
     RefreshRotate, Answer, LogoutFind, RevokeFamily, RevokeSession, Confirm, AuthSession, Serve
<1> QED
  BY <1>1 DEF IInv, TypeOK, RequestState, AtFamily, AtSession, RevokeFamily, Goto, AfterFamily

LEMMA SessionSteps ==
  ASSUME IInv, NEW r \in Request, NEW s \in Session, AtSession(r, s), Step(r)
  PROVE  Revoked(s)'
<1>1. RevokeSession(r)
  BY DEF AtSession, Step, At, LoginCreateSession, LoginCreateToken, RefreshFind, RefreshSession,
     RefreshRotate, Answer, LogoutFind, RevokeFamily, RevokeSession, Confirm, AuthSession, Serve
<1> QED
  BY <1>1 DEF IInv, TypeOK, SessionRow, AtSession, RevokeSession, RevokedSession, Revoked, Why, Reason

(* One request and one session.                                            *)
LEMMA OneRevocationCompletes ==
  ASSUME ~MayFail, NEW r \in Request, NEW s \in Session
  PROVE  Spec /\ Served(r) => (Dooms(r, s) ~> Revoked(s))
<1>1. IInv /\ [Next]_vars /\ Dooms(r, s) => Dooms(r, s)' \/ AtFamily(r, s)'
  BY OnlyItsStep, DoomStays, DoomSteps DEF IInv, Dooms, OutOfRows
<1>2. IInv /\ [Next]_vars /\ AtFamily(r, s) => AtFamily(r, s)' \/ AtSession(r, s)'
  BY OnlyItsStep, FamilySteps DEF IInv, AtFamily, OutOfRows
<1>3. IInv /\ [Next]_vars /\ AtSession(r, s) => AtSession(r, s)' \/ Revoked(s)'
  BY OnlyItsStep, SessionSteps DEF IInv, AtSession, OutOfRows
<1>4. IInv /\ Dooms(r, s) /\ <<Step(r)>>_vars => AtFamily(r, s)'
  BY DoomSteps
<1>5. IInv /\ AtFamily(r, s) /\ <<Step(r)>>_vars => AtSession(r, s)'
  BY FamilySteps
<1>6. IInv /\ AtSession(r, s) /\ <<Step(r)>>_vars => Revoked(s)'
  BY SessionSteps
<1>7. Dooms(r, s) \/ AtFamily(r, s) \/ AtSession(r, s) => Ready(r)
  BY DEF Dooms, AtFamily, AtSession, Ready, OutOfRows
<1>8. Spec => []IInv
  BY Invariance
<1> QED
  BY <1>1, <1>2, <1>3, <1>4, <1>5, <1>6, <1>7, <1>8, PTL DEF Spec, Served

(* A logout, and a refresh with a token that had been rotated before, end  *)
(* with the session revoked, if each handler whose statement can run does  *)
(* run it at last and no call fails.                                       *)
THEOREM RevocationsComplete ==
  ASSUME ~MayFail
  PROVE  Spec /\ (\A r \in Request : Served(r)) => RevocationCompletes
<1> SUFFICES ASSUME NEW r \in Request, NEW s \in Session
             PROVE  Spec /\ (\A q \in Request : Served(q)) => (Dooms(r, s) ~> Revoked(s))
  BY DEF RevocationCompletes
<1>1. Spec /\ Served(r) => (Dooms(r, s) ~> Revoked(s))
  BY OneRevocationCompletes
<1>2. (\A q \in Request : Served(q)) => Served(r)
  OBVIOUS
<1> QED
  BY <1>1, <1>2, PTL
===============================================================================
