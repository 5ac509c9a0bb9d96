------------------------------- MODULE Sessions -------------------------------
(***************************************************************************)
(* Sessions, refresh-token families and access tokens: the second half of  *)
(* login, refresh-token rotation with reuse detection, logout, and the     *)
(* session check that guards every bearer request.                         *)
(*                                                                         *)
(* Handlers of different requests interleave at every await.  A step is    *)
(* one database statement (or one transaction) with the code up to the     *)
(* next await; what a handler keeps in local variables across an await is  *)
(* kept in req[r], where it can grow stale.                                *)
(***************************************************************************)
EXTENDS Naturals, FiniteSets

CONSTANTS
  Request,     \* request slots; a slot is reused when its request ends
  Session,     \* ids of rows of "sessions"; familyId is drawn with the row
               \* and is as unique, so it is represented by the session's id
  Token,       \* rows of "refresh_tokens", one per minted secret
  NoSession, NoToken,
  RefreshTtl,  \* JWT_REFRESH_TTL_SECONDS
  AccessTtl,   \* JWT_ACCESS_TTL_SECONDS
  MaxTime,     \* bound on the clock
  MayFail      \* may database calls, replies and the process fail?

ASSUME NullAssumption == NoSession \notin Session /\ NoToken \notin Token
ASSUME TimeAssumption ==
  /\ RefreshTtl \in Nat \ {0}
  /\ AccessTtl \in Nat \ {0}
  /\ MaxTime \in Nat
ASSUME FailAssumption == MayFail \in BOOLEAN

VARIABLES
  now,        \* the clock every handler reads
  session,    \* the table "sessions"
  token,      \* the table "refresh_tokens"
  audit,      \* the table "audit_logs", as the set of what it claims
  req,        \* the local state of the request in each slot
  held,       \* refresh tokens delivered in some reply
  bearer,     \* access tokens delivered in some reply
  presented,  \* history: tokens sent to /refresh so far
  replayed,   \* history: tokens sent to /refresh twice or more
  closed      \* history: sessions a caller has been told are closed

vars == <<now, session, token, audit, req, held, bearer,
          presented, replayed, closed>>
tables  == <<session, token>>
clients == <<held, bearer>>
history == <<presented, replayed, closed>>

Reason == {"LOGOUT", "REUSE_DETECTED"}          \* revokedReason, when revokedAt is set
Status == {"absent", "open"} \cup Reason

NoSessionRow   == [status |-> "absent", expiresAt |-> 0]
NoTokenRow == [status |-> "absent", sessionId |-> NoSession, familyId |-> NoSession,
            expiresAt |-> 0, replacedBy |-> NoToken]

(* A free slot.  tok: the row found (stored); sid: its session; new: the   *)
(* row minted; at: the clock on arrival.  late, spent: history, was the session *)
(* revoked, the token rotated, when the request arrived?                   *)
Idle == [op |-> "none", pc |-> "idle", tok |-> NoToken, sid |-> NoSession,
         new |-> NoToken, at |-> 0, late |-> FALSE, spent |-> FALSE]

Init ==
  /\ now = 0
  /\ session = [s \in Session |-> NoSessionRow]
  /\ token = [t \in Token |-> NoTokenRow]
  /\ audit = {}
  /\ req = [r \in Request |-> Idle]
  /\ held = {} /\ bearer = {}
  /\ presented = {} /\ replayed = {} /\ closed = {}

-------------------------------------------------------------------------------
(* What the handlers test, write and do next.  Some definitions are         *)
(* preceded by a slip: the same definition with a plausible mistake, which *)
(* no action uses and which the properties at the end must tell from it.   *)

At(r, op, pc) == req[r].op = op /\ req[r].pc = pc
Goto(r, pc)   == req' = [req EXCEPT ![r].pc = pc]
End(r)        == req' = [req EXCEPT ![r] = Idle]

Revoked(s) == session[s].status \in Reason

(* rotatedAt and replacedById are written together, by rotate alone.       *)
Rotated(t) == token[t].replacedBy # NoToken

(* Slips: the reason for the revocation is read, or any revocation counts. *)
ReusedIfSoRevoked(t) == token[t].status = "REUSE_DETECTED"
ReusedIfRevoked(t)   == Rotated(t) \/ token[t].status \in Reason

(* What the refresh handler takes for a reuse: stored.rotatedAt !== null.  *)
Reused(t) == Rotated(t)

(* Neither revoked nor expired at the time the request read the clock.     *)
Usable(t, at) == token[t].status = "open" /\ token[t].expiresAt > at

(* Slip: the deadline is checked and the revocation is not.                *)
LiveByDeadline(s, at) == session[s].status # "absent" /\ session[s].expiresAt > at

(* session found, not revoked, not expired at that same time.              *)
Live(s, at) == session[s].status = "open" /\ session[s].expiresAt > at

Deadline(at) == at + RefreshTtl

MintedRow(s, f, at) ==
  [status |-> "open", sessionId |-> s, familyId |-> f, expiresAt |-> Deadline(at),
   replacedBy |-> NoToken]

(* Slips: the old row is not marked; or the new one goes to the end of the *)
(* chain, so that no family forks.                                         *)
RotationUnmarked(t, n, s, at) == [token EXCEPT ![n] = MintedRow(s, token[t].familyId, at)]
RotationAtEnd(t, n, s, at) ==
  [token EXCEPT ![n] = MintedRow(s, token[t].familyId, at),
                ![IF Rotated(t) THEN token[t].replacedBy ELSE t].replacedBy = n]

(* The transaction of rotate: create n, then mark t, whatever t is now.    *)
Rotation(t, n, s, at) ==
  [token EXCEPT ![n] = MintedRow(s, token[t].familyId, at),
                ![t].replacedBy = n]

(* Slip: where familyId = f.                                               *)
RevokedFamilyAgain(f, why) ==
  [t \in Token |-> IF token[t].familyId = f
                   THEN [token[t] EXCEPT !.status = why] ELSE token[t]]

(* updateMany where familyId = f and revokedAt is null.                    *)
RevokedFamily(f, why) ==
  [t \in Token |-> IF token[t].familyId = f /\ token[t].status = "open"
                   THEN [token[t] EXCEPT !.status = why] ELSE token[t]]

(* update by id: an earlier reason is overwritten.                         *)
RevokedSession(s, why) == [session EXCEPT ![s].status = why]

(* Slip: the second write is forgotten.                                    *)
FamilyOnly  == "confirm"

(* Logout and reuse detection share their two writes.                      *)
Why(r)        == IF req[r].op = "logout" THEN "LOGOUT" ELSE "REUSE_DETECTED"
FirstWrite    == "revoke_family"
AfterFamily   == "revoke_session"
AfterSession  == "confirm"

(* PrismaAuditSink.record: the row is written, or the failure is swallowed.*)
Record(action, s) ==
  \/ audit' = audit \cup {<<action, s>>}
  \/ MayFail /\ UNCHANGED audit

-------------------------------------------------------------------------------
(* Login, from the moment the password has been verified.                  *)

LoginBegin(r) ==
  /\ req[r].pc = "idle"
  /\ req' = [req EXCEPT ![r] = [Idle EXCEPT !.op = "login",
                                            !.pc = "create_session", !.at = now]]
  /\ UNCHANGED <<now, tables, audit, clients, history>>

LoginCreateSession(r) ==
  /\ At(r, "login", "create_session")
  /\ \E s \in Session :
       /\ session[s].status = "absent"
       /\ session' = [session EXCEPT ![s] =
                        [status |-> "open", expiresAt |-> Deadline(req[r].at)]]
       /\ req' = [req EXCEPT ![r].sid = s, ![r].pc = "create_token"]
  /\ UNCHANGED <<now, token, audit, clients, history>>

(* Slip: nobody waits for the insert, and nobody notices that it failed.   *)
LoginUnawaited(r) ==
  /\ At(r, "login", "create_token")
  /\ Goto(r, "answer")
  /\ \/ \E n \in Token :
          /\ token[n].status = "absent"
          /\ token' = [token EXCEPT ![n] = MintedRow(req[r].sid, req[r].sid, req[r].at)]
     \/ MayFail /\ UNCHANGED token
  /\ UNCHANGED <<now, session, audit, clients, history>>

LoginCreateToken(r) ==
  /\ At(r, "login", "create_token")
  /\ \E n \in Token :
       /\ token[n].status = "absent"
       /\ token' = [token EXCEPT ![n] = MintedRow(req[r].sid, req[r].sid, req[r].at)]
       /\ req' = [req EXCEPT ![r].new = n, ![r].pc = "answer"]
  /\ UNCHANGED <<now, session, audit, clients, history>>

-------------------------------------------------------------------------------
(* Refresh.  NoToken stands for a secret that matches no row.              *)

RefreshBegin(r, t) ==
  /\ req[r].pc = "idle"
  /\ req' = [req EXCEPT ![r] =
       [Idle EXCEPT !.op = "refresh", !.pc = "find_token", !.tok = t, !.at = now,
                    !.late  = t # NoToken /\ Revoked(token[t].sessionId),
                    !.spent = t # NoToken /\ Rotated(t)]]
  /\ presented' = presented \cup ({t} \ {NoToken})
  /\ replayed'  = replayed \cup ({t} \cap presented)
  /\ UNCHANGED <<now, tables, audit, clients, closed>>

RefreshFind(r) ==
  LET t == req[r].tok IN
  /\ At(r, "refresh", "find_token")
  /\ \/ /\ t # NoToken /\ Reused(t)
        /\ req' = [req EXCEPT ![r].sid = token[t].sessionId, ![r].pc = FirstWrite]
     \/ /\ t # NoToken /\ ~Reused(t) /\ Usable(t, req[r].at)
        /\ req' = [req EXCEPT ![r].sid = token[t].sessionId, ![r].pc = "find_session"]
     \/ /\ t # NoToken => ~Reused(t) /\ ~Usable(t, req[r].at)
        /\ End(r)
  /\ UNCHANGED <<now, tables, audit, clients, history>>

(* Slip: the session is not read again.                                    *)
RefreshTrusting(r) ==
  /\ At(r, "refresh", "find_session")
  /\ Goto(r, "rotate")
  /\ UNCHANGED <<now, tables, audit, clients, history>>

(* Slip: a session that has ended is not refused.                          *)
RefreshSessionLive(r) ==
  /\ At(r, "refresh", "find_session")
  /\ Live(req[r].sid, req[r].at)
  /\ Goto(r, "rotate")
  /\ UNCHANGED <<now, tables, audit, clients, history>>

RefreshSession(r) ==
  /\ At(r, "refresh", "find_session")
  /\ IF Live(req[r].sid, req[r].at) THEN Goto(r, "rotate") ELSE End(r)
  /\ UNCHANGED <<now, tables, audit, clients, history>>

(* Slip: a session lives on for as long as it is refreshed.                *)
RotateAndExtend(r) ==
  /\ At(r, "refresh", "rotate")
  /\ \E n \in Token :
       /\ token[n].status = "absent"
       /\ token' = Rotation(req[r].tok, n, req[r].sid, req[r].at)
       /\ req' = [req EXCEPT ![r].new = n, ![r].pc = "answer"]
  /\ session' = [session EXCEPT ![req[r].sid].expiresAt = Deadline(req[r].at)]
  /\ UNCHANGED <<now, audit, clients, history>>

RefreshRotate(r) ==
  /\ At(r, "refresh", "rotate")
  /\ \E n \in Token :
       /\ token[n].status = "absent"
       /\ token' = Rotation(req[r].tok, n, req[r].sid, req[r].at)
       /\ req' = [req EXCEPT ![r].new = n, ![r].pc = "answer"]
  /\ UNCHANGED <<now, session, audit, clients, history>>

-------------------------------------------------------------------------------
(* The end of login and refresh: the access token is signed, which touches *)
(* no shared state, the audit row written and the reply sent; it may be    *)
(* lost on its way.                                                        *)

Answer(r) ==
  /\ req[r].pc = "answer"
  /\ Record(IF req[r].op = "login" THEN "LOGGED_IN" ELSE "ROTATED", req[r].sid)
  /\ \/ /\ held' = held \cup {req[r].new}
        /\ bearer' = bearer \cup {[sid |-> req[r].sid, exp |-> now + AccessTtl]}
     \/ MayFail /\ UNCHANGED clients
  /\ End(r)
  /\ UNCHANGED <<now, tables, history>>

-------------------------------------------------------------------------------
(* Logout: any stored token of the family will do, rotated or not.  The    *)
(* session read fills columns of the audit row and nothing else.           *)

LogoutBegin(r, t) ==
  /\ req[r].pc = "idle"
  /\ req' = [req EXCEPT ![r] = [Idle EXCEPT !.op = "logout", !.pc = "find_token", !.tok = t]]
  /\ UNCHANGED <<now, tables, audit, clients, history>>

LogoutFind(r) ==
  LET t == req[r].tok IN
  /\ At(r, "logout", "find_token")
  /\ IF t = NoToken
     THEN End(r)
     ELSE req' = [req EXCEPT ![r].sid = token[t].sessionId, ![r].pc = FirstWrite]
  /\ UNCHANGED <<now, tables, audit, clients, history>>

RevokeFamily(r) ==
  /\ req[r].pc = "revoke_family"
  /\ token' = RevokedFamily(token[req[r].tok].familyId, Why(r))
  /\ Goto(r, AfterFamily)
  /\ UNCHANGED <<now, session, audit, clients, history>>

RevokeSession(r) ==
  /\ req[r].pc = "revoke_session"
  /\ session' = RevokedSession(req[r].sid, Why(r))
  /\ Goto(r, AfterSession)
  /\ UNCHANGED <<now, token, audit, clients, history>>

Confirm(r) ==
  /\ req[r].pc = "confirm"
  /\ Record(Why(r), req[r].sid)
  /\ closed' = closed \cup {req[r].sid}
  /\ End(r)
  /\ UNCHANGED <<now, tables, clients, presented, replayed>>

-------------------------------------------------------------------------------
(* A bearer request: signature and deadline on arrival, then the session,  *)
(* then the route's handler under the principal that was built.            *)

AuthBegin(r, b) ==
  /\ req[r].pc = "idle"
  /\ b.exp > now
  /\ req' = [req EXCEPT ![r] =
       [Idle EXCEPT !.op = "bearer", !.pc = "find_session", !.sid = b.sid,
                    !.late = Revoked(b.sid)]]
  /\ UNCHANGED <<now, tables, audit, clients, history>>

AuthSession(r) ==
  /\ At(r, "bearer", "find_session")
  /\ IF Live(req[r].sid, now) THEN Goto(r, "serve") ELSE End(r)
  /\ UNCHANGED <<now, tables, audit, clients, history>>

Serve(r) ==
  /\ req[r].pc = "serve"
  /\ End(r)
  /\ UNCHANGED <<now, tables, audit, clients, history>>

-------------------------------------------------------------------------------
(* A database call rejects or the process dies: the request is gone, what  *)
(* it has committed stays.  Without MayFail it happens only to a request   *)
(* for which the bounded tables have no row left.                          *)

OutOfRows(r) ==
  \/ req[r].pc = "create_session" /\ \A s \in Session : session[s].status # "absent"
  \/ req[r].pc \in {"create_token", "rotate"} /\ \A t \in Token : token[t].status # "absent"

Fail(r) ==
  /\ req[r].pc # "idle"
  /\ MayFail \/ OutOfRows(r)
  /\ End(r)
  /\ UNCHANGED <<now, tables, audit, clients, history>>

Tick ==
  /\ now < MaxTime
  /\ now' = now + 1
  /\ UNCHANGED <<tables, audit, req, clients, history>>

Arrive(r) ==
  \/ LoginBegin(r)
  \/ \E t \in held \cup {NoToken} : RefreshBegin(r, t) \/ LogoutBegin(r, t)
  \/ \E b \in bearer : AuthBegin(r, b)

Step(r) ==
  \/ LoginCreateSession(r) \/ LoginCreateToken(r)
  \/ RefreshFind(r) \/ RefreshSession(r) \/ RefreshRotate(r)
  \/ Answer(r)
  \/ LogoutFind(r) \/ RevokeFamily(r) \/ RevokeSession(r) \/ Confirm(r)
  \/ AuthSession(r) \/ Serve(r)

Next == Tick \/ \E r \in Request : Arrive(r) \/ Step(r) \/ Fail(r)

Spec == Init /\ [][Next]_vars

(* Once a handler has begun, its calls return one after the other.         *)
FairSpec == Spec /\ \A r \in Request : WF_vars(Step(r))

(* When there is a step to take, and the fairness of r in terms of it: by  *)
(* NoHandlerStuck, below, Served(r) is WF_vars(Step(r)).                   *)
Ready(r)  == req[r].pc # "idle" /\ ~OutOfRows(r)
Served(r) == []<>~Ready(r) \/ []<><<Step(r)>>_vars

-------------------------------------------------------------------------------
(* The tables, the request slots and what clients hold have their types.   *)
Time == 0..MaxTime
SessionRow == [status : Status, expiresAt : 0..(MaxTime + RefreshTtl)]
TokenRow ==
  [status : Status, sessionId : Session \cup {NoSession},
   familyId : Session \cup {NoSession}, expiresAt : 0..(MaxTime + RefreshTtl),
   replacedBy : Token \cup {NoToken}]
Op == {"none", "login", "refresh", "logout", "bearer"}
Pc == {"idle", "create_session", "create_token", "find_token", "find_session",
       "rotate", "answer", "revoke_family", "revoke_session", "confirm",
       "serve"}
RequestState ==
  [op : Op, pc : Pc, tok : Token \cup {NoToken}, sid : Session \cup {NoSession},
   new : Token \cup {NoToken}, at : Time, late : BOOLEAN, spent : BOOLEAN]
AuditAction == {"LOGGED_IN", "ROTATED"} \cup Reason

TypeOK ==
  /\ now \in Time
  /\ session \in [Session -> SessionRow]
  /\ token \in [Token -> TokenRow]
  /\ audit \in SUBSET (AuditAction \X Session)
  /\ req \in [Request -> RequestState]
  /\ held \in SUBSET Token
  /\ bearer \in SUBSET [sid : Session, exp : 0..(MaxTime + AccessTtl)]
  /\ presented \in SUBSET Token
  /\ replayed \in SUBSET presented
  /\ closed \in SUBSET Session

(* A refresh request that arrives after its session was revoked never      *)
(* rotates and never gets tokens, and no bearer request that arrives then  *)
(* reaches a route, even with a token that a rotation racing the           *)
(* revocation minted into the revoked family.                              *)
Accepted(r) == req[r].pc \in {"rotate", "answer", "serve"}
NoLateExchange == \A r \in Request : req[r].late => ~Accepted(r)

(* A refresh request that arrives after its token was rotated never gets   *)
(* tokens for it: the only reuse that succeeds is one already in flight.   *)
NoSecondExchange == \A r \in Request : req[r].spent => ~Accepted(r)

(* Reuse detection never logs out a client that sent each token once: a    *)
(* session it revoked has a token that was sent to /refresh twice.         *)
NoFalseAlarm ==
  \A s \in Session : session[s].status = "REUSE_DETECTED" =>
    \E t \in replayed : token[t].sessionId = s

(* Rotation chains: a rotated token is replaced by another row of the same *)
(* session and family that expires no earlier, no row replaces two, and no *)
(* token of a family expires before its session does.                      *)
Lineage ==
  /\ \A t \in Token : token[t].status # "absent" =>
       /\ token[t].familyId = token[t].sessionId
       /\ session[token[t].sessionId].status # "absent"
       /\ session[token[t].sessionId].expiresAt <= token[t].expiresAt
  /\ \A t \in Token : Rotated(t) =>
       LET n == token[t].replacedBy IN
       /\ n # t
       /\ token[n].status # "absent"
       /\ token[n].familyId = token[t].familyId
       /\ token[t].expiresAt <= token[n].expiresAt
       /\ \A u \in Token : token[u].replacedBy = n => u = t

(* The audit trail claims only what happened: a session it says was closed *)
(* is revoked, a rotation it reports is in the token table, a login it     *)
(* reports left a session with a token.                                    *)
AuditIsTruthful ==
  \A a \in audit :
    /\ a[1] \in Reason => Revoked(a[2])
    /\ a[1] = "ROTATED" => \E t \in Token : token[t].sessionId = a[2] /\ Rotated(t)
    /\ a[1] = "LOGGED_IN" => \E t \in Token : token[t].sessionId = a[2]

(* A row of refresh_tokens only ever settles: its session, family and      *)
(* deadline never change, a rotated token stays rotated, and a revoked one *)
(* keeps the reason it was first revoked for.                              *)
RowSettles(t) ==
  LET a == token[t]  b == token'[t] IN
  a.status # "absent" =>
    /\ b.sessionId = a.sessionId /\ b.familyId = a.familyId /\ b.expiresAt = a.expiresAt
    /\ a.replacedBy # NoToken => b.replacedBy # NoToken
    /\ a.status \in Reason => b.status = a.status
TokenRowsSettle == [][\A t \in Token : RowSettles(t)]_vars

(* Refreshing buys no time: a session ends at the deadline that its login  *)
(* set, which is what bounds the refreshes of a user who was disabled, or  *)
(* whose tenant was suspended, after the login; nor does it ever reopen.   *)
SessionRowsSettle ==
  [][\A s \in Session : session[s].status # "absent" =>
       /\ session'[s].status # "absent" /\ session'[s].expiresAt = session[s].expiresAt
       /\ Revoked(s) => session'[s].status \in Reason]_vars

(* A login that dies between its two rows leaves a session that is open    *)
(* but nobody's: no access token names it, and no request works on it but  *)
(* the login that has yet to store its token.                              *)
OrphansAreUnheld ==
  \A s \in Session : (\A t \in Token : token[t].sessionId # s) =>
    /\ \A b \in bearer : b.sid # s
    /\ \A r \in Request : req[r].sid = s => req[r].pc = "create_token"

(* A family forks only for a client that sent one token twice: two tokens  *)
(* of one session that have not been rotated come of a replay, in flight   *)
(* at the same time or after the first exchange failed half way.           *)
ForksNeedReplay ==
  \A t, u \in Token :
    /\ token[t].status # "absent" /\ ~Rotated(t)
    /\ token[u].status # "absent" /\ ~Rotated(u)
    /\ token[t].sessionId = token[u].sessionId /\ t # u
    => \E x \in replayed : token[x].sessionId = token[t].sessionId

(* "Each refresh rotates the token and invalidates the previous one": an   *)
(* invalidated token is not exchanged for another one.                     *)
RotationInvalidates ==
  [][\A t \in Token : Rotated(t) => token'[t].replacedBy = token[t].replacedBy]_vars

(* Whatever the others do to the tables, no handler gets to where it has   *)
(* nothing left to do but has not answered: each outcome of each statement *)
(* leads on, or to the end of the request.                                 *)
NoHandlerStuck == \A r \in Request : Ready(r) <=> ENABLED <<Step(r)>>_vars

(* A logout, or a refresh with a token rotated before it arrived, ends     *)
(* with the session revoked, when no call fails.                           *)
Dooms(r, s) ==
  /\ req[r].pc = "find_token" /\ req[r].tok # NoToken
  /\ token[req[r].tok].sessionId = s
  /\ req[r].op = "logout" \/ req[r].spent
RevocationCompletes ==
  \A r \in Request, s \in Session : Dooms(r, s) ~> Revoked(s)

(* The abstract authority over sessions that this module implements: every *)
(* request is granted a session that was open while it was outstanding, a  *)
(* revoked session stays revoked, and a caller who is told that a session  *)
(* is closed is told so after it is.                                       *)
Decided == {"create_token", "rotate", "answer", "serve"}
Acting(r) == req[r].pc \in Decided
AuthorityStatus  == [s \in Session |-> IF Revoked(s) THEN "revoked" ELSE session[s].status]
AuthorityAsking  == {r \in Request : req[r].pc # "idle" /\ ~Acting(r)}
AuthorityGranted == [r \in Request |-> IF Acting(r) THEN req[r].sid ELSE NoSession]
Authority == INSTANCE SessionAuthority WITH
  status <- AuthorityStatus, asking <- AuthorityAsking, granted <- AuthorityGranted
ImplementsAuthority == Authority!Spec
===============================================================================
