---------------------------- MODULE SessionsForks -----------------------------
(***************************************************************************)
(* For every value of the constants of Sessions: a family of refresh       *)
(* tokens forks only for a client that sent one token twice, a session     *)
(* without a token is nobody's, and sessions keep their deadlines.         *)
(***************************************************************************)
EXTENDS SessionsProofs

(* A step that keeps what the fork invariant reads of the token table.     *)
LEMMA KeepsForks ==
  ASSUME FInv, replayed \subseteq replayed',
         \A t \in Token : /\ token'[t].sessionId = token[t].sessionId
                          /\ token'[t].replacedBy = token[t].replacedBy
                          /\ token'[t].status = "absent" <=> token[t].status = "absent",
         \A r \in Request : Opening(r)' => Opening(r) /\ req'[r].sid = req[r].sid,
         replayed \subseteq Token
  PROVE  FInv'
<1>1. ForksNeedReplay'
  <2> SUFFICES ASSUME NEW t \in Token, NEW u \in Token,
                      token'[t].status # "absent", ~Rotated(t)',
                      token'[u].status # "absent", ~Rotated(u)',
                      token'[t].sessionId = token'[u].sessionId, t # u
               PROVE  \E x \in replayed' : token'[x].sessionId = token'[t].sessionId
    BY DEF ForksNeedReplay
  <2>1. PICK x \in replayed : token[x].sessionId = token[t].sessionId
    BY DEF FInv, ForksNeedReplay, Rotated
  <2> QED
    BY <2>1
<1>2. \A r \in Request : Opening(r)' => \A t \in Token : token'[t].sessionId # req'[r].sid
  BY DEF FInv
<1>3. \A r, q \in Request : r # q /\ Opening(r)' /\ Opening(q)' => req'[r].sid # req'[q].sid
  BY DEF FInv
<1> QED
  BY <1>1, <1>2, <1>3 DEF FInv

(* The session of a new login has no token and no other login.             *)
LEMMA LoginCreateSessionForks ==
  ASSUME IInv, FInv, NEW r \in Request, LoginCreateSession(r)
  PROVE  FInv'
<1>1. PICK s \in Session :
        /\ session[s].status = "absent"
        /\ req' = [req EXCEPT ![r].sid = s, ![r].pc = "create_token"]
  BY DEF LoginCreateSession
<1>2. token' = token /\ replayed' = replayed
  BY DEF LoginCreateSession, history
<1>3. req'[r].sid = s /\ \A q \in Request : q # r => req'[q] = req[q]
  BY <1>1 DEF IInv, TypeOK, RequestState
<1>4. \A t \in Token : token[t].sessionId # s
  <2> SUFFICES ASSUME NEW t \in Token PROVE token[t].sessionId # s
    OBVIOUS
  <2>1. CASE token[t].status = "absent"
    BY <2>1, NullAssumption DEF IInv, RowsOK, NoTokenRow
  <2>2. CASE token[t].status # "absent"
    BY <1>1, <2>2 DEF IInv, RowsOK, Stored, Exists
  <2> QED
    BY <2>1, <2>2
<1>5. \A q \in Request : Opening(q) => req[q].sid # s
  BY <1>1 DEF IInv, SlotOK, LocalsOf, Opening, Exists
<1>6. ForksNeedReplay'
  BY <1>2 DEF FInv, ForksNeedReplay, Rotated
<1>7. \A q \in Request : Opening(q)' => \A t \in Token : token'[t].sessionId # req'[q].sid
  BY <1>2, <1>3, <1>4 DEF FInv, Opening
<1>8. \A q, p \in Request : q # p /\ Opening(q)' /\ Opening(p)' => req'[q].sid # req'[p].sid
  BY <1>3, <1>5 DEF FInv, Opening
<1> QED
  BY <1>6, <1>7, <1>8 DEF FInv

(* A new row n of session s, in a table whose other rows keep their        *)
(* sessions: no login is about to use s.                                   *)
LEMMA NewRow ==
  ASSUME IInv, FInv, NEW r \in Request, NEW n \in Token, NEW s,
         \A t \in Token \ {n} : token'[t].sessionId = token[t].sessionId,
         token'[n].sessionId = s,
         \A q \in Request \ {r} : req'[q] = req[q] /\ (Opening(q) => req[q].sid # s),
         ~Opening(r)'
  PROVE  /\ \A q \in Request : Opening(q)' => \A t \in Token : token'[t].sessionId # req'[q].sid
         /\ \A q, p \in Request : q # p /\ Opening(q)' /\ Opening(p)' => req'[q].sid # req'[p].sid
BY DEF FInv, Opening

(* Its first token ends the login's privilege.                             *)
LEMMA LoginCreateTokenForks ==
  ASSUME IInv, FInv, NEW r \in Request, LoginCreateToken(r)
  PROVE  FInv'
<1> DEFINE s == req[r].sid
<1>1. PICK n \in Token :
        /\ token[n].status = "absent"
        /\ token' = [token EXCEPT ![n] = MintedRow(s, s, req[r].at)]
        /\ req' = [req EXCEPT ![r].new = n, ![r].pc = "answer"]
  BY DEF LoginCreateToken
<1>2. replayed' = replayed /\ replayed \subseteq Token /\ Opening(r)
  BY DEF LoginCreateToken, history, At, IInv, TypeOK, Opening
<1>3. req'[r].pc = "answer" /\ \A q \in Request \ {r} : req'[q] = req[q]
  BY <1>1 DEF IInv, TypeOK, RequestState
<1>4. token'[n].sessionId = s /\ \A t \in Token \ {n} : token'[t] = token[t]
  BY <1>1 DEF IInv, TypeOK, MintedRow
<1>5. \A t \in Token : token[t].sessionId # s
  BY <1>2 DEF FInv
<1> HIDE DEF s
<1>6. ForksNeedReplay'
  <2> SUFFICES ASSUME NEW t \in Token, NEW u \in Token,
                      token'[t].status # "absent", ~Rotated(t)',
                      token'[u].status # "absent", ~Rotated(u)',
                      token'[t].sessionId = token'[u].sessionId, t # u
               PROVE  \E x \in replayed' : token'[x].sessionId = token'[t].sessionId
    BY DEF ForksNeedReplay
  <2>1. t # n /\ u # n
    BY <1>4, <1>5
  <2>2. PICK x \in replayed : token[x].sessionId = token[t].sessionId
    BY <1>4, <2>1 DEF FInv, ForksNeedReplay, Rotated
  <2>3. x # n
    BY <1>1, <2>1, <2>2, <1>4, NullAssumption
       DEF IInv, RowsOK, NoTokenRow, Stored, Exists
  <2> QED
    BY <1>2, <1>4, <2>1, <2>2, <2>3
<1>7. \A q \in Request \ {r} : Opening(q) => req[q].sid # s
  BY <1>2 DEF FInv, s
<1> QED
  BY <1>3, <1>4, <1>6, <1>7, NewRow DEF FInv, Opening

(* A rotation marks one token for each it adds, unless it marks one twice. *)
LEMMA RefreshRotateForks ==
  ASSUME IInv, FInv, NEW r \in Request, RefreshRotate(r)
  PROVE  FInv'
<1> DEFINE s == req[r].sid
           t == req[r].tok
<1>1. PICK n \in Token :
        /\ token[n].status = "absent"
        /\ token' = Rotation(t, n, s, req[r].at)
        /\ req' = [req EXCEPT ![r].new = n, ![r].pc = "answer"]
  BY DEF RefreshRotate
<1>2. replayed' = replayed /\ replayed \subseteq Token
  BY DEF RefreshRotate, history, IInv, TypeOK
<1>3. req'[r].pc = "answer" /\ \A q \in Request \ {r} : req'[q] = req[q]
  BY <1>1 DEF IInv, TypeOK, RequestState
<1>4. t \in Token /\ token[t].sessionId = s /\ s \in Session /\ Stored(t)
  BY DEF RefreshRotate, At, IInv, SlotOK, LocalsOf, Stored, Exists
<1>5. Rotated(t) => t \in replayed
  BY <1>4, NullAssumption DEF RefreshRotate, At, IInv, ReplaysOK, Exchanging
<1>6. t # n /\ token[n].sessionId = NoSession
  BY <1>1, <1>4 DEF Stored, IInv, RowsOK, NoTokenRow
<1> HIDE DEF s, t
<1>7. /\ token'[n].sessionId = s
      /\ token'[t].sessionId = s /\ token'[t].replacedBy = n
      /\ \A u \in Token \ {n, t} : token'[u] = token[u]
  BY <1>1, <1>4, <1>6 DEF Rotation, MintedRow, IInv, TypeOK, TokenRow
<1>8. ForksNeedReplay'
  <2> SUFFICES ASSUME NEW u \in Token, NEW v \in Token,
                      token'[u].status # "absent", ~Rotated(u)',
                      token'[v].status # "absent", ~Rotated(v)',
                      token'[u].sessionId = token'[v].sessionId, u # v
               PROVE  \E x \in replayed' : token'[x].sessionId = token'[u].sessionId
    BY DEF ForksNeedReplay
  <2>1. u # t /\ v # t
    BY <1>7, NullAssumption DEF Rotated
  <2>2. \A x \in replayed : token[x].sessionId \in Session => token'[x].sessionId = token[x].sessionId
    BY <1>2, <1>4, <1>6, <1>7, NullAssumption
  <2>3. CASE u # n /\ v # n
    <3>1. PICK x \in replayed : token[x].sessionId = token[u].sessionId
      BY <1>7, <2>1, <2>3 DEF FInv, ForksNeedReplay, Rotated
    <3>2. token[u].sessionId \in Session
      BY <1>7, <2>1, <2>3 DEF IInv, RowsOK, Stored, Exists
    <3> QED
      BY <1>2, <1>7, <2>1, <2>2, <2>3, <3>1, <3>2
  <2>4. CASE u = n \/ v = n
    <3>1. PICK w \in {u, v} : w # n /\ w # t /\ token[w].sessionId = s /\ token[w].status # "absent" /\ ~Rotated(w)
      BY <1>7, <2>1, <2>4 DEF Rotated
    <3>2. \E x \in replayed : token[x].sessionId = s
      <4>1. CASE Rotated(t)
        BY <1>4, <1>5, <4>1
      <4>2. CASE ~Rotated(t)
        BY <1>4, <3>1, <4>2 DEF FInv, ForksNeedReplay, Stored
      <4> QED
        BY <4>1, <4>2
    <3> QED
      BY <1>2, <1>4, <1>7, <2>1, <2>2, <2>4, <3>1, <3>2
  <2> QED
    BY <2>3, <2>4
<1>9. \A q \in Request \ {r} : Opening(q) => req[q].sid # s
  BY <1>4 DEF FInv
<1>10. \A u \in Token \ {n} : token'[u].sessionId = token[u].sessionId
  BY <1>4, <1>7
<1> QED
  BY <1>3, <1>7, <1>8, <1>9, <1>10, NewRow DEF FInv, Opening

(* A revocation rotates nothing.                                           *)
LEMMA RevokeFamilyForks ==
  ASSUME IInv, FInv, NEW r \in Request, RevokeFamily(r)
  PROVE  FInv'
<1>1. \A t \in Token : /\ token'[t].sessionId = token[t].sessionId
                       /\ token'[t].replacedBy = token[t].replacedBy
                       /\ token'[t].status = "absent" <=> token[t].status = "absent"
  BY DEF RevokeFamily, RevokedFamily, Why, IInv, TypeOK, TokenRow
<1>2. \A q \in Request : Opening(q)' => Opening(q) /\ req'[q].sid = req[q].sid
  BY DEF RevokeFamily, Goto, AfterFamily, Opening, IInv, TypeOK, RequestState
<1>3. replayed' = replayed /\ replayed \subseteq Token
  BY DEF RevokeFamily, history, IInv, TypeOK
<1> QED
  BY <1>1, <1>2, <1>3, KeepsForks

(* Every step keeps the fork invariant.                                    *)
LEMMA NextFInv == IInv /\ FInv /\ [Next]_vars => FInv'
<1> SUFFICES ASSUME IInv, FInv, [Next]_vars PROVE FInv'
  OBVIOUS
<1>0. replayed \subseteq Token /\ req \in [Request -> RequestState]
  BY DEF IInv, TypeOK
<1>1. CASE UNCHANGED vars \/ Tick
  BY <1>0, <1>1, KeepsForks DEF vars, Tick, tables, history, Opening
<1>2. ASSUME NEW r \in Request, Arrive(r) PROVE FInv'
  <2>1. token' = token /\ replayed \subseteq replayed'
    BY <1>2 DEF Arrive, LoginBegin, RefreshBegin, LogoutBegin, AuthBegin, tables, history
  <2> DEFINE Elsewhere == \E x : req' = [req EXCEPT ![r] = x] /\ x.pc # "create_token"
  <2>2. Elsewhere
    <3>1. CASE LoginBegin(r)
      <4> DEFINE x == [Idle EXCEPT !.op = "login", !.pc = "create_session", !.at = now]
      <4>1. req' = [req EXCEPT ![r] = x] /\ x.pc = "create_session"
        BY <3>1 DEF LoginBegin, Idle
      <4> QED
        BY <4>1
    <3>2. ASSUME NEW t, RefreshBegin(r, t) PROVE Elsewhere
      <4> DEFINE x == [Idle EXCEPT !.op = "refresh", !.pc = "find_token", !.tok = t, !.at = now,
                         !.late  = t # NoToken /\ Revoked(token[t].sessionId),
                         !.spent = t # NoToken /\ Rotated(t)]
      <4>1. req' = [req EXCEPT ![r] = x] /\ x.pc = "find_token"
        BY <3>2 DEF RefreshBegin, Idle
      <4> QED
        BY <4>1
    <3>3. ASSUME NEW t, LogoutBegin(r, t) PROVE Elsewhere
      <4> DEFINE x == [Idle EXCEPT !.op = "logout", !.pc = "find_token", !.tok = t]
      <4>1. req' = [req EXCEPT ![r] = x] /\ x.pc = "find_token"
        BY <3>3 DEF LogoutBegin, Idle
      <4> QED
        BY <4>1
    <3>4. ASSUME NEW b, AuthBegin(r, b) PROVE Elsewhere
      <4> DEFINE x == [Idle EXCEPT !.op = "bearer", !.pc = "find_session", !.sid = b.sid,
                                   !.late = Revoked(b.sid)]
      <4>1. req' = [req EXCEPT ![r] = x] /\ x.pc = "find_session"
        BY <3>4 DEF AuthBegin, Idle
      <4> QED
        BY <4>1
    <3> QED
      BY <1>2, <3>1, <3>2, <3>3, <3>4 DEF Arrive
  <2>3. \A q \in Request : Opening(q)' => Opening(q) /\ req'[q].sid = req[q].sid
    BY <1>0, <2>2 DEF Opening
  <2> QED
    BY <1>0, <2>1, <2>3, KeepsForks
<1>3. ASSUME NEW r \in Request,
             \/ RefreshFind(r) \/ RefreshSession(r) \/ Answer(r) \/ LogoutFind(r)
             \/ RevokeSession(r) \/ Confirm(r) \/ AuthSession(r) \/ Serve(r) \/ Fail(r)
      PROVE  FInv'
  <2>1. token' = token /\ replayed' = replayed
    BY <1>3 DEF RefreshFind, RefreshSession, Answer, LogoutFind, RevokeSession, Confirm,
                AuthSession, Serve, Fail, tables, history
  <2>2. \A q \in Request : Opening(q)' => Opening(q) /\ req'[q].sid = req[q].sid
    BY <1>0, <1>3 DEF RefreshFind, RefreshSession, Answer, LogoutFind, RevokeSession, Confirm,
                AuthSession, Serve, Fail, End, Goto, FirstWrite, AfterSession, Opening, Idle,
                RequestState
  <2> QED
    BY <1>0, <2>1, <2>2, KeepsForks
<1> QED
  BY <1>1, <1>2, <1>3, LoginCreateSessionForks, LoginCreateTokenForks, RefreshRotateForks,
     RevokeFamilyForks DEF Next, Step

(* However requests interleave, a family has two tokens that were never    *)
(* rotated only if some client sent one of its tokens to refresh twice.    *)
THEOREM ForksAreReplays == Spec => []ForksNeedReplay
<1>1. Init => FInv
  BY NullAssumption DEF Init, FInv, ForksNeedReplay, NoTokenRow, Opening, Idle
<1>2. FInv => ForksNeedReplay
  BY DEF FInv
<1> QED
  BY <1>1, <1>2, NextFInv, Invariance, PTL DEF Spec

-------------------------------------------------------------------------------
(* Sessions that have a token at all.                                      *)
Owned(s) == \E t \in Token : token[t].sessionId = s

(* No step takes a session its last token.                                 *)
LEMMA OwnedStays ==
  ASSUME IInv, [Next]_vars, NEW s \in Session, Owned(s)
  PROVE  Owned(s)'
<1>1. PICK t \in Token : token[t].sessionId = s
  BY DEF Owned
<1>2. token[t].status # "absent" /\ token \in [Token -> TokenRow]
  BY <1>1, NullAssumption DEF IInv, RowsOK, NoTokenRow, TypeOK
<1>3. token'[t].sessionId = token[t].sessionId
  <2>1. CASE token' = token
    BY <2>1
  <2>2. ASSUME NEW r \in Request, LoginCreateToken(r) PROVE token'[t].sessionId = token[t].sessionId
    BY <1>2, <2>2 DEF LoginCreateToken
  <2>3. ASSUME NEW r \in Request, RefreshRotate(r) PROVE token'[t].sessionId = token[t].sessionId
    BY <1>2, <2>3 DEF RefreshRotate, Rotation, TokenRow
  <2>4. ASSUME NEW r \in Request, RevokeFamily(r) PROVE token'[t].sessionId = token[t].sessionId
    BY <1>2, <2>4 DEF RevokeFamily, RevokedFamily, TokenRow
  <2>5. \/ token' = token
        \/ \E r \in Request : LoginCreateToken(r) \/ RefreshRotate(r) \/ RevokeFamily(r)
    BY DEF Next, Step, Arrive, Fail, Tick, LoginBegin, RefreshBegin, LogoutBegin, AuthBegin,
           LoginCreateSession, RefreshFind, RefreshSession, Answer, LogoutFind, RevokeSession,
           Confirm, AuthSession, Serve, tables, vars
  <2> QED
    BY <2>1, <2>2, <2>3, <2>4, <2>5
<1> QED
  BY <1>1, <1>3 DEF Owned

(* A step that delivers nothing, and after which its request works on no   *)
(* session, on one that has a token, or is a login about to store one.     *)
LEMMA KeepsOrphans ==
  ASSUME IInv, OrphansAreUnheld, [Next]_vars, NEW r \in Request,
         bearer' = bearer,
         \A q \in Request : q # r => req'[q] = req[q],
         req'[r].sid \in Session =>
           \/ req'[r].pc = "create_token"
           \/ \E t \in Token : req'[r].sid \in {token[t].sessionId, token'[t].sessionId}
  PROVE  OrphansAreUnheld'
<1> SUFFICES ASSUME NEW s \in Session, \A t \in Token : token'[t].sessionId # s
             PROVE  /\ \A b \in bearer' : b.sid # s
                    /\ \A q \in Request : req'[q].sid = s => req'[q].pc = "create_token"
  BY DEF OrphansAreUnheld
<1>1. \A t \in Token : token[t].sessionId # s
  BY OwnedStays DEF Owned
<1> QED
  BY <1>1 DEF OrphansAreUnheld, Owned

(* Every step keeps orphans unheld.                                        *)
LEMMA NextOrphans == IInv /\ OrphansAreUnheld /\ [Next]_vars => OrphansAreUnheld'
<1> SUFFICES ASSUME IInv, OrphansAreUnheld, [Next]_vars PROVE OrphansAreUnheld'
  OBVIOUS
<1>0. req \in [Request -> RequestState] /\ token \in [Token -> TokenRow]
      /\ NoSession \notin Session
  BY NullAssumption DEF IInv, TypeOK
<1>1. CASE UNCHANGED vars \/ Tick
  BY <1>1 DEF OrphansAreUnheld, vars, Tick, tables, clients
<1>2. ASSUME NEW r \in Request, req[r].sid \in Session, req[r].pc # "create_token"
      PROVE  Owned(req[r].sid)
  BY <1>2 DEF OrphansAreUnheld, Owned
<1>3. ASSUME NEW r \in Request, Arrive(r) PROVE OrphansAreUnheld'
  <2>1. bearer' = bearer
    BY <1>3 DEF Arrive, LoginBegin, RefreshBegin, LogoutBegin, AuthBegin, clients
  <2>2. CASE LoginBegin(r)
    <3> DEFINE x == [Idle EXCEPT !.op = "login", !.pc = "create_session", !.at = now]
    <3>1. req' = [req EXCEPT ![r] = x] /\ x.sid = NoSession
      BY <2>2 DEF LoginBegin, Idle
    <3> QED
      BY <1>0, <2>1, <3>1, KeepsOrphans
  <2>3. ASSUME NEW t, RefreshBegin(r, t) PROVE OrphansAreUnheld'
    <3> DEFINE x == [Idle EXCEPT !.op = "refresh", !.pc = "find_token", !.tok = t, !.at = now,
                       !.late  = t # NoToken /\ Revoked(token[t].sessionId),
                       !.spent = t # NoToken /\ Rotated(t)]
    <3>1. req' = [req EXCEPT ![r] = x] /\ x.sid = NoSession
      BY <2>3 DEF RefreshBegin, Idle
    <3> QED
      BY <1>0, <2>1, <3>1, KeepsOrphans
  <2>4. ASSUME NEW t, LogoutBegin(r, t) PROVE OrphansAreUnheld'
    <3> DEFINE x == [Idle EXCEPT !.op = "logout", !.pc = "find_token", !.tok = t]
    <3>1. req' = [req EXCEPT ![r] = x] /\ x.sid = NoSession
      BY <2>4 DEF LogoutBegin, Idle
    <3> QED
      BY <1>0, <2>1, <3>1, KeepsOrphans
  <2>5. ASSUME NEW b \in bearer, AuthBegin(r, b) PROVE OrphansAreUnheld'
    <3> DEFINE x == [Idle EXCEPT !.op = "bearer", !.pc = "find_session", !.sid = b.sid,
                                 !.late = Revoked(b.sid)]
    <3>1. req' = [req EXCEPT ![r] = x] /\ x.sid = b.sid
      BY <2>5 DEF AuthBegin, Idle
    <3>2. b.sid \in Session => Owned(b.sid)
      BY DEF OrphansAreUnheld, Owned
    <3> QED
      BY <1>0, <2>1, <3>1, <3>2, KeepsOrphans DEF Owned
  <2> QED
    BY <1>3, <2>2, <2>3, <2>4, <2>5 DEF Arrive
<1>4. ASSUME NEW r \in Request,
             RefreshSession(r) \/ RevokeFamily(r) \/ RevokeSession(r) \/ Confirm(r) \/ AuthSession(r)
               \/ Serve(r) \/ Fail(r)
      PROVE  OrphansAreUnheld'
  <2>1. bearer' = bearer /\ (\A q \in Request : q # r => req'[q] = req[q])
        /\ (req'[r].sid = NoSession \/ (req'[r].sid = req[r].sid /\ req[r].pc # "create_token"))
    BY <1>0, <1>4 DEF RefreshSession, RevokeFamily, RevokeSession, Confirm, AuthSession, Serve, Fail,
                      At, End, Goto, AfterFamily, AfterSession, Idle, RequestState, clients
  <2> QED
    BY <1>0, <1>2, <2>1, KeepsOrphans DEF Owned
<1>5. ASSUME NEW r \in Request, RefreshFind(r) \/ LogoutFind(r) PROVE OrphansAreUnheld'
  <2>1. bearer' = bearer /\ (\A q \in Request : q # r => req'[q] = req[q])
        /\ (req'[r].sid = NoSession \/ (req[r].tok # NoToken /\ req'[r].sid = token[req[r].tok].sessionId))
    BY <1>0, <1>5 DEF RefreshFind, LogoutFind, End, FirstWrite, Idle, RequestState, clients
  <2>2. req[r].tok # NoToken => Owned(token[req[r].tok].sessionId)
    BY <1>0 DEF Owned, RequestState
  <2> QED
    BY <1>0, <2>1, <2>2, KeepsOrphans DEF Owned
<1>6. ASSUME NEW r \in Request, LoginCreateSession(r) PROVE OrphansAreUnheld'
  <2>1. bearer' = bearer /\ (\A q \in Request : q # r => req'[q] = req[q]) /\ req'[r].pc = "create_token"
    BY <1>0, <1>6 DEF LoginCreateSession, RequestState, clients
  <2> QED
    BY <2>1, KeepsOrphans
<1>7. ASSUME NEW r \in Request, LoginCreateToken(r) PROVE OrphansAreUnheld'
  <2>1. bearer' = bearer /\ (\A q \in Request : q # r => req'[q] = req[q]) /\ req'[r].sid = req[r].sid
    BY <1>0, <1>7 DEF LoginCreateToken, RequestState, clients
  <2>2. PICK n \in Token : token' = [token EXCEPT ![n] = MintedRow(req[r].sid, req[r].sid, req[r].at)]
    BY <1>7 DEF LoginCreateToken
  <2>3. token'[n].sessionId = req[r].sid
    BY <1>0, <2>2 DEF MintedRow
  <2> QED
    BY <2>1, <2>3, KeepsOrphans DEF Owned
<1>8. ASSUME NEW r \in Request, RefreshRotate(r) PROVE OrphansAreUnheld'
  <2>1. bearer' = bearer /\ (\A q \in Request : q # r => req'[q] = req[q])
        /\ req'[r].sid = req[r].sid /\ req[r].pc = "rotate"
    BY <1>0, <1>8 DEF RefreshRotate, At, RequestState, clients
  <2> QED
    BY <1>2, <2>1, KeepsOrphans DEF Owned
<1>9. ASSUME NEW r \in Request, Answer(r) PROVE OrphansAreUnheld'
  <2>1. /\ req'[r].sid = NoSession /\ \A q \in Request : q # r => req'[q] = req[q]
        /\ token' = token
        /\ \A b \in bearer' : b \in bearer \/ b.sid = req[r].sid
    BY <1>0, <1>9 DEF Answer, End, Idle, clients, tables
  <2>2. Owned(req[r].sid)
    BY <1>9 DEF Answer, IInv, SlotOK, LocalsOf, Stored, Owned
  <2> QED
    BY <1>0, <2>1, <2>2 DEF OrphansAreUnheld, Owned
<1> QED
  BY <1>1, <1>3, <1>4, <1>5, <1>6, <1>7, <1>8, <1>9 DEF Next, Step

(* A session whose login died before it stored a token is nobody's.        *)
THEOREM OrphansStayUnheld == Spec => []OrphansAreUnheld
<1>1. Init => OrphansAreUnheld
  BY NullAssumption DEF Init, OrphansAreUnheld, Idle
<1> QED
  BY <1>1, NextOrphans, Invariance, PTL DEF Spec

(* However a session is refreshed it ends at the deadline of its login,    *)
(* and it never reopens.                                                   *)
THEOREM DeadlinesStay == Spec => SessionRowsSettle
<1> DEFINE Settled ==
      \A s \in Session : session[s].status # "absent" =>
        /\ session'[s].status # "absent" /\ session'[s].expiresAt = session[s].expiresAt
        /\ Revoked(s) => session'[s].status \in Reason
<1>1. ASSUME TypeOK, [Next]_vars PROVE Settled \/ UNCHANGED vars
  <2>1. \/ UNCHANGED session
        \/ \E r \in Request : LoginCreateSession(r) \/ RevokeSession(r)
    BY <1>1 DEF Next, Step, Arrive, Fail, Tick, LoginBegin, RefreshBegin, LogoutBegin, AuthBegin,
           LoginCreateToken, RefreshFind, RefreshSession, RefreshRotate, Answer, LogoutFind,
           RevokeFamily, Confirm, AuthSession, Serve, tables, vars
  <2>2. CASE UNCHANGED session
    BY <2>2 DEF Revoked
  <2>3. ASSUME NEW r \in Request, LoginCreateSession(r) PROVE Settled
    BY <1>1, <2>3 DEF LoginCreateSession, TypeOK, Revoked
  <2>4. ASSUME NEW r \in Request, RevokeSession(r) PROVE Settled
    BY <1>1, <2>4 DEF RevokeSession, RevokedSession, Why, TypeOK, SessionRow, Revoked, Reason
  <2> QED
    BY <2>1, <2>2, <2>3, <2>4
<1> HIDE DEF Settled
<1>2. Spec => [][Settled]_vars
  BY <1>1, TypeCorrect, PTL DEF Spec
<1> QED
  BY <1>2 DEF SessionRowsSettle, Settled
===============================================================================
