---------------------------- MODULE SessionsProofs ----------------------------
(***************************************************************************)
(* The safety properties of Sessions, proved for every value of its        *)
(* constants.  Each action preserves the inductive invariant IInv of       *)
(* SessionsInvariant; the properties follow from it.  What a step does to  *)
(* the slots of other requests goes through two facts about the tables:    *)
(* rows settle (TokensSettle, SessionsSettle), and a slot that relies on   *)
(* rows that settle stays sound (OtherSlot).                               *)
(***************************************************************************)
EXTENDS SessionsInvariant, TLAPS

(* What a stored token, and a session, keep through a step.                *)
TokensSettle ==
  \A t \in Token : Stored(t) =>
    /\ Stored(t)' /\ token'[t].sessionId = token[t].sessionId /\ token'[t].familyId = token[t].familyId
    /\ token'[t].expiresAt = token[t].expiresAt
    /\ Rotated(t) => Rotated(t)'

SessionsSettle ==
  \A s \in Session : Exists(s) =>
    /\ Exists(s)' /\ session'[s].expiresAt = session[s].expiresAt
    /\ Revoked(s) => Revoked(s)'

(* The initial tables satisfy the inductive invariant.                     *)
LEMMA InitIInv == Init => IInv
<1> SUFFICES ASSUME Init PROVE IInv
  OBVIOUS
<1> USE NullAssumption, TimeAssumption DEF Init, NoSessionRow, NoTokenRow, Idle, Stored, Rotated
<1>1. TypeOK
  BY DEF TypeOK, Time, SessionRow, TokenRow, Status, Reason, RequestState, Op, Pc
<1>2. \A r \in Request : SlotOK(r)
  BY <1>1 DEF SlotOK, StepOf, LocalsOf, HistoryOf, Revoking, Exchanging
<1>3. RowsOK /\ ClientsOK /\ ReplaysOK
  BY DEF RowsOK, ClientsOK, ReplaysOK, Revoking, Exchanging
<1>4. Lineage /\ NoFalseAlarm /\ AuditIsTruthful
  BY DEF Lineage, NoFalseAlarm, AuditIsTruthful
<1> QED
  BY <1>1, <1>2, <1>3, <1>4 DEF IInv

(* The clock is a number.                                                  *)
LEMMA NowIsNat == TypeOK => now \in Nat
BY TimeAssumption DEF TypeOK, Time

(* A free slot is a request state.                                         *)
LEMMA IdleType == Idle \in RequestState
BY TimeAssumption DEF RequestState, Op, Pc, Idle, Time

(* Deadlines computed from a time stay within their bound.                 *)
LEMMA DeadlineType ==
  ASSUME NEW at \in Time
  PROVE  Deadline(at) \in 0..(MaxTime + RefreshTtl) /\ Deadline(at) \in Nat
BY TimeAssumption DEF Deadline, Time

(* A row that is minted.                                                   *)
LEMMA MintedRowFields ==
  ASSUME NEW s \in Session, NEW f \in Session, NEW at \in Time
  PROVE  LET new == MintedRow(s, f, at) IN
         /\ new \in TokenRow /\ new.status = "open" /\ new.sessionId = s /\ new.familyId = f
         /\ new.expiresAt = Deadline(at) /\ new.replacedBy = NoToken
BY DeadlineType DEF MintedRow, TokenRow, Status

(* A slot that a step leaves alone stays sound if the rows it relies on    *)
(* settle.                                                                 *)
LEMMA OtherSlot ==
  ASSUME TypeOK, RowsOK, NEW q \in Request, SlotOK(q), req'[q] = req[q],
         now <= now', now \in Nat, now' \in Nat, TokensSettle, SessionsSettle
  PROVE  SlotOK(q)'
<1>1. req[q] \in RequestState
  BY DEF TypeOK
<1>2. StepOf(q)'
  BY DEF SlotOK, StepOf, Revoking, Exchanging
<1>3. LocalsOf(q)'
  BY <1>1 DEF SlotOK, LocalsOf, TokensSettle, SessionsSettle, Stored, Exists, Revoking, RequestState, Time
<1>4. HistoryOf(q)'
  BY <1>1 DEF SlotOK, StepOf, LocalsOf, HistoryOf, TokensSettle, SessionsSettle, Stored, Exists, Revoking, RowsOK, Accepted
<1> QED BY <1>2, <1>3, <1>4 DEF SlotOK

(* A freed slot is sound.                                                  *)
LEMMA FreeSlot ==
  ASSUME NEW q \in Request, req'[q] = Idle, now' \in Nat
  PROVE  SlotOK(q)'
BY DEF SlotOK, StepOf, LocalsOf, HistoryOf, Revoking, Exchanging, Idle

(* All slots stay sound if one moves soundly and the rows settle.          *)
LEMMA SlotsStep ==
  ASSUME IInv, NEW r \in Request, NEW rec \in RequestState, req' = [req EXCEPT ![r] = rec],
         now' = now, TokensSettle, SessionsSettle, SlotOK(r)'
  PROVE  /\ req' \in [Request -> RequestState]
         /\ req'[r] = rec /\ \A q \in Request : q # r => req'[q] = req[q]
         /\ \A q \in Request : SlotOK(q)'
<1>1. TypeOK /\ RowsOK /\ now \in Nat
  BY NowIsNat DEF IInv
<1>2. /\ req' \in [Request -> RequestState] /\ req'[r] = rec
      /\ \A q \in Request : q # r => req'[q] = req[q]
  BY <1>1 DEF TypeOK
<1>3. ASSUME NEW q \in Request PROVE SlotOK(q)'
  BY <1>1, <1>2, OtherSlot DEF IInv
<1> QED
  BY <1>2, <1>3

(* Replays are untouched by a step that presents nothing, rotates nothing  *)
(* and keeps its own request's operation and token.                        *)
LEMMA ReplaysStep ==
  ASSUME ReplaysOK, NEW r \in Request, req \in [Request -> RequestState], NEW rec \in RequestState,
         req' = [req EXCEPT ![r] = rec],
         UNCHANGED <<presented, replayed>>,
         \A t \in Token : Rotated(t)' <=> Rotated(t),
         \/ rec.op # "refresh"
         \/ /\ rec.op = req[r].op /\ rec.tok = req[r].tok
            /\ Exchanging(r)' => Exchanging(r)
            /\ Revoking(r)' => Revoking(r) \/ rec.tok \in replayed
  PROVE  ReplaysOK'
<1>1. req'[r] = rec /\ \A q \in Request : q # r => req'[q] = req[q]
  OBVIOUS
<1>2. \A q \in Request : req[q].tok \in Token \cup {NoToken}
  BY DEF RequestState
<1> QED
  BY <1>1, <1>2 DEF ReplaysOK, Revoking, Exchanging

(* A step that changes one slot and no table, history or client keeps      *)
(* IInv.                                                                   *)
LEMMA LocalStep ==
  ASSUME IInv, NEW r \in Request, NEW rec \in RequestState, req' = [req EXCEPT ![r] = rec],
         UNCHANGED <<now, session, token, audit, held, bearer, presented, replayed, closed>>,
         SlotOK(r)',
         \/ rec.op # "refresh"
         \/ /\ rec.op = req[r].op /\ rec.tok = req[r].tok
            /\ Exchanging(r)' => Exchanging(r)
            /\ Revoking(r)' => Revoking(r) \/ rec.tok \in replayed
  PROVE  IInv'
<1>1. TypeOK /\ ReplaysOK
  BY DEF IInv
<1>2. TypeOK'
  BY <1>1 DEF TypeOK
<1>3. TokensSettle /\ SessionsSettle
  BY DEF TokensSettle, SessionsSettle, Stored, Exists, Revoked, Rotated
<1>4. \A q \in Request : SlotOK(q)'
  BY <1>3, SlotsStep
<1>5. RowsOK' /\ ClientsOK'
  BY DEF IInv, RowsOK, ClientsOK, Stored, Exists, Revoked
<1>6. \A t \in Token : Rotated(t)' <=> Rotated(t)
  BY DEF Rotated
<1>7. ReplaysOK'
  BY <1>1, <1>6, ReplaysStep DEF TypeOK
<1>8. Lineage' /\ NoFalseAlarm' /\ AuditIsTruthful'
  BY DEF IInv, Lineage, NoFalseAlarm, AuditIsTruthful, Revoked, Rotated
<1> QED
  BY <1>2, <1>4, <1>5, <1>7, <1>8 DEF IInv

(* A request that ends and changes nothing else keeps IInv.                *)
LEMMA EndStep ==
  ASSUME IInv, NEW r \in Request, End(r), 
         UNCHANGED <<now, session, token, audit, held, bearer, presented, replayed, closed>>
  PROVE  IInv'
<1>1. req' = [req EXCEPT ![r] = Idle] /\ req'[r] = Idle /\ now' \in Nat /\ Idle.op # "refresh"
  BY NowIsNat DEF End, IInv, TypeOK, Idle
<1>2. SlotOK(r)'
  BY <1>1, FreeSlot
<1> QED
  BY <1>1, <1>2, IdleType, LocalStep

(* LoginBegin keeps the inductive invariant.                               *)
LEMMA LoginBeginStep ==
  ASSUME IInv, NEW r \in Request, LoginBegin(r)
  PROVE  IInv'
<1> DEFINE rec == [Idle EXCEPT !.op = "login", !.pc = "create_session", !.at = now]
<1>1. TypeOK /\ now \in Time /\ now \in Nat
  BY NowIsNat DEF IInv, TypeOK
<1>2. rec \in RequestState
  BY <1>1, IdleType DEF RequestState, Op, Pc
<1>3. req' = [req EXCEPT ![r] = rec]
  BY DEF LoginBegin
<1>4. req'[r] = rec
  BY <1>1, <1>3 DEF TypeOK
<1>5. UNCHANGED <<now, session, token, audit, held, bearer, presented, replayed, closed>>
  BY DEF LoginBegin, tables, clients, history
<1>6. SlotOK(r)'
  <2>1. /\ rec.op = "login" /\ rec.pc = "create_session" /\ rec.tok = NoToken
        /\ rec.at = now /\ rec.sid = NoSession /\ rec.late = FALSE /\ rec.spent = FALSE
    BY DEF Idle
  <2> QED
    BY <1>1, <1>4, <1>5, <2>1 DEF SlotOK, StepOf, LocalsOf, HistoryOf, Revoking
<1>7. rec.op # "refresh"
  BY DEF Idle
<1> QED
  BY <1>2, <1>3, <1>5, <1>6, <1>7, <1>4, LocalStep

(* RefreshBegin keeps the inductive invariant.                             *)
LEMMA RefreshBeginStep ==
  ASSUME IInv, NEW r \in Request, NEW t \in held \cup {NoToken}, RefreshBegin(r, t)
  PROVE  IInv'
<1> DEFINE late == t # NoToken /\ Revoked(token[t].sessionId)
           spent == t # NoToken /\ Rotated(t)
           rec == [Idle EXCEPT !.op = "refresh", !.pc = "find_token", !.tok = t, !.at = now,
                               !.late = late, !.spent = spent]
<1>1. /\ TypeOK /\ RowsOK /\ now \in Time /\ now \in Nat
      /\ t # NoToken => Stored(t) 
  BY NowIsNat DEF IInv, TypeOK, ClientsOK
<1>2. t \in Token \cup {NoToken} BY <1>1 DEF Stored
<1>3. rec \in RequestState
  BY <1>1, <1>2, IdleType DEF RequestState, Op, Pc
<1>4. /\ req' \in [Request -> RequestState] /\ req'[r] = rec
      /\ \A q \in Request : q # r => req'[q] = req[q]
  BY <1>1, <1>3 DEF RefreshBegin, TypeOK
<1>5. /\ UNCHANGED <<now, session, token, audit, held, bearer, closed>>
      /\ presented' = presented \cup ({t} \ {NoToken})
      /\ replayed'  = replayed \cup ({t} \cap presented)
  BY DEF RefreshBegin, tables, clients
<1>6. TokensSettle /\ SessionsSettle
  BY <1>5 DEF TokensSettle, SessionsSettle, Stored, Exists, Revoked, Rotated
<1>7. SlotOK(r)'
  <2>1. /\ req'[r].op = "refresh" /\ req'[r].pc = "find_token" /\ req'[r].tok = t
        /\ req'[r].at = now /\ req'[r].sid = NoSession /\ req'[r].late = late /\ req'[r].spent = spent
    BY <1>4 DEF Idle
  <2>2. StepOf(r)'
    BY <2>1 DEF StepOf, Exchanging
  <2>3. LocalsOf(r)'
    BY <2>1, <1>1, <1>5 DEF LocalsOf, Revoking, Stored, RowsOK
  <2>4. HistoryOf(r)'
    BY <2>1, <1>5 DEF HistoryOf, Accepted, Revoked, Rotated
  <2> QED
    BY <2>2, <2>3, <2>4 DEF SlotOK
<1>8. ASSUME NEW q \in Request PROVE SlotOK(q)'
  BY <1>1, <1>4, <1>5, <1>6, <1>7, OtherSlot DEF IInv
<1>9. TypeOK'
  BY <1>1, <1>4, <1>5 DEF TypeOK, Stored
<1>10. RowsOK' /\ ClientsOK' /\ Lineage' /\ AuditIsTruthful' /\ NoFalseAlarm'
  BY <1>5 DEF IInv, RowsOK, ClientsOK, Stored, Exists, Revoked, Lineage, AuditIsTruthful, NoFalseAlarm, Rotated
<1>11. ReplaysOK'
  <2>1. req'[r].op = "refresh" /\ req'[r].pc = "find_token" /\ req'[r].tok = t
    BY <1>4 DEF Idle
  <2>2. ReplaysOK
    BY DEF IInv
  <2>3. ASSUME NEW q \in Request, req'[q].op = "refresh", req'[q].tok # NoToken
        PROVE  req'[q].tok \in presented'
    BY <1>4, <1>5, <2>1, <2>2, <2>3 DEF ReplaysOK
  <2>4. ASSUME NEW q \in Request, NEW p \in Request, q # p,
               req'[q].op = "refresh", req'[p].op = "refresh",
               req'[q].tok # NoToken, req'[q].tok = req'[p].tok
        PROVE  req'[q].tok \in replayed'
    <3>1. CASE q # r /\ p # r
      BY <1>4, <1>5, <2>2, <2>4, <3>1 DEF ReplaysOK
    <3>2. CASE q = r /\ p # r
      <4>1. t \in presented
        BY <1>4, <2>1, <2>2, <2>4, <3>2 DEF ReplaysOK
      <4> QED
        BY <1>5, <2>1, <3>2, <4>1
    <3>3. CASE q # r /\ p = r
      <4>1. t \in presented
        BY <1>4, <2>1, <2>2, <2>4, <3>3 DEF ReplaysOK
      <4> QED
        BY <1>5, <2>1, <2>4, <3>3, <4>1
    <3> QED
      BY <2>4, <3>1, <3>2, <3>3
  <2>5. ASSUME NEW u \in Token, Rotated(u)' PROVE u \in presented'
    BY <1>5, <2>2, <2>5 DEF ReplaysOK, Rotated
  <2>6. ASSUME NEW q \in Request, Exchanging(q)', req'[q].tok # NoToken, Rotated(req[q].tok)'
        PROVE  req'[q].tok \in replayed'
    BY <1>2, <1>4, <1>5, <2>1, <2>2, <2>6 DEF ReplaysOK, Rotated, Exchanging
  <2>7. ASSUME NEW q \in Request, req'[q].op = "refresh", Revoking(q)'
        PROVE  req'[q].tok \in replayed'
    BY <1>4, <1>5, <2>1, <2>2, <2>7 DEF ReplaysOK, Revoking
  <2> QED
    BY <2>3, <2>4, <2>5, <2>6, <2>7 DEF ReplaysOK
<1> QED
  BY <1>8, <1>9, <1>10, <1>11 DEF IInv

(* RefreshFind keeps the inductive invariant.                              *)
LEMMA RefreshFindStep ==
  ASSUME IInv, NEW r \in Request, RefreshFind(r)
  PROVE  IInv'
<1> DEFINE t == req[r].tok
           to(pc) == [req[r] EXCEPT !.sid = token[t].sessionId, !.pc = pc]
<1>1. /\ TypeOK /\ RowsOK /\ ReplaysOK /\ SlotOK(r) /\ now \in Nat
      /\ req[r] \in RequestState /\ req[r].op = "refresh" /\ req[r].pc = "find_token"
  BY NowIsNat DEF RefreshFind, At, IInv, TypeOK
<1>2. UNCHANGED <<now, session, token, audit, held, bearer, presented, replayed, closed>>
  BY DEF RefreshFind, tables, clients, history
<1>3. ASSUME t # NoToken, NEW pc \in {"revoke_family", "find_session"},
             pc = "revoke_family" <=> Rotated(t),
             req' = [req EXCEPT ![r].sid = token[t].sessionId, ![r].pc = pc]
      PROVE  IInv'
  <2>1. Stored(t) /\ Exists(token[t].sessionId) /\ token[t] \in TokenRow
    BY <1>1, <1>3 DEF SlotOK, LocalsOf, RowsOK, Stored, TypeOK
  <2>2. to(pc) \in RequestState /\ to(pc).op = "refresh" /\ to(pc).pc = pc /\ to(pc).tok = t /\ to(pc).sid = token[t].sessionId
        /\ to(pc).at = req[r].at /\ to(pc).late = req[r].late /\ to(pc).spent = req[r].spent
    BY <1>1, <2>1 DEF RequestState, TokenRow, Pc
  <2>3. req' = [req EXCEPT ![r] = to(pc)] /\ req'[r] = to(pc)
    BY <1>1, <1>3 DEF TypeOK
  <2>4. StepOf(r)'
    BY <2>2, <2>3 DEF StepOf, Exchanging, Revoking
  <2>5. LocalsOf(r)'
    BY <1>1, <1>2, <1>3, <2>1, <2>2, <2>3, NullAssumption DEF SlotOK, LocalsOf, Revoking, Stored, Exists
  <2>6. HistoryOf(r)'
    BY <1>1, <1>2, <1>3, <2>2, <2>3 DEF SlotOK, HistoryOf, Revoking, Revoked, Rotated, Accepted
  <2>7. Revoking(r)' => t \in replayed
    BY <1>1, <1>3, <2>2, <2>3 DEF ReplaysOK, Exchanging, Revoking
  <2>8. Exchanging(r)
    BY <1>1 DEF Exchanging
  <2> QED
    BY <1>1, <1>2, <2>2, <2>3, <2>4, <2>5, <2>6, <2>7, <2>8, LocalStep DEF SlotOK
<1> QED
  BY <1>2, <1>3, EndStep DEF RefreshFind, FirstWrite, Reused

(* RefreshSession keeps the inductive invariant.                           *)
LEMMA RefreshSessionStep ==
  ASSUME IInv, NEW r \in Request, RefreshSession(r)
  PROVE  IInv'
<1>1. /\ TypeOK /\ SlotOK(r) /\ now \in Nat
      /\ req[r] \in RequestState /\ req[r].op = "refresh" /\ req[r].pc = "find_session"
  BY NowIsNat DEF RefreshSession, At, IInv, TypeOK
<1>2. UNCHANGED <<now, session, token, audit, held, bearer, presented, replayed, closed>>
  BY DEF RefreshSession, tables, clients, history
<1>3. CASE Live(req[r].sid, req[r].at) /\ Goto(r, "rotate")
  <2> DEFINE rec == [req[r] EXCEPT !.pc = "rotate"]
  <2>1. rec \in RequestState /\ req' = [req EXCEPT ![r] = rec] /\ req'[r] = rec
    BY <1>1, <1>3 DEF Goto, TypeOK, RequestState, Pc
  <2>2. /\ rec.op = "refresh" /\ rec.pc = "rotate" /\ rec.tok = req[r].tok /\ rec.sid = req[r].sid
        /\ rec.at = req[r].at /\ rec.late = req[r].late /\ rec.spent = req[r].spent
    BY <1>1 DEF RequestState
  <2>3. StepOf(r)' /\ LocalsOf(r)'
    BY <1>1, <1>2, <2>1, <2>2 DEF SlotOK, StepOf, LocalsOf, Exchanging, Revoking, Stored, Exists
  <2>4. ~req[r].late
    BY <1>1, <1>3 DEF SlotOK, HistoryOf, LocalsOf, Live, Revoked, Reason
  <2>5. ~req[r].spent
    BY <1>1 DEF SlotOK, HistoryOf, Revoking
  <2>6. HistoryOf(r)'
    BY <2>1, <2>2, <2>4, <2>5 DEF HistoryOf
  <2>7. Exchanging(r) /\ ~Revoking(r)'
    BY <1>1, <2>1, <2>2 DEF Exchanging, Revoking
  <2> QED
    BY <1>1, <1>2, <2>1, <2>2, <2>3, <2>6, <2>7, LocalStep DEF SlotOK
<1> QED
  BY <1>2, <1>3, EndStep DEF RefreshSession

(* LogoutBegin keeps the inductive invariant.                              *)
LEMMA LogoutBeginStep ==
  ASSUME IInv, NEW r \in Request, NEW t \in held \cup {NoToken}, LogoutBegin(r, t)
  PROVE  IInv'
<1> DEFINE rec == [Idle EXCEPT !.op = "logout", !.pc = "find_token", !.tok = t]
<1>1. /\ TypeOK /\ now \in Nat
      /\ t # NoToken => Stored(t)
  BY NowIsNat DEF IInv, TypeOK, ClientsOK
<1>2. rec \in RequestState
  BY <1>1, IdleType DEF RequestState, Op, Pc, Stored
<1>3. req' = [req EXCEPT ![r] = rec]
  BY DEF LogoutBegin
<1>4. req'[r] = rec
  BY <1>1, <1>3 DEF TypeOK
<1>5. UNCHANGED <<now, session, token, audit, held, bearer, presented, replayed, closed>>
  BY DEF LogoutBegin, tables, clients, history
<1>6. /\ rec.op = "logout" /\ rec.pc = "find_token" /\ rec.tok = t
      /\ rec.at = 0 /\ rec.sid = NoSession /\ rec.late = FALSE /\ rec.spent = FALSE
  BY DEF Idle
<1>7. SlotOK(r)'
  BY <1>1, <1>4, <1>5, <1>6 DEF SlotOK, StepOf, LocalsOf, HistoryOf, Revoking, Stored
<1> QED
  BY <1>2, <1>3, <1>5, <1>6, <1>7, <1>4, LocalStep

(* LogoutFind keeps the inductive invariant.                               *)
LEMMA LogoutFindStep ==
  ASSUME IInv, NEW r \in Request, LogoutFind(r)
  PROVE  IInv'
<1> DEFINE t == req[r].tok
           rec == [req[r] EXCEPT !.sid = token[t].sessionId, !.pc = "revoke_family"]
<1>1. /\ TypeOK /\ RowsOK /\ SlotOK(r) /\ now \in Nat
      /\ req[r] \in RequestState /\ req[r].op = "logout" /\ req[r].pc = "find_token"
  BY NowIsNat DEF LogoutFind, At, IInv, TypeOK
<1>2. UNCHANGED <<now, session, token, audit, held, bearer, presented, replayed, closed>>
  BY DEF LogoutFind, tables, clients, history
<1>3. CASE t # NoToken
  <2>1. Stored(t) /\ Exists(token[t].sessionId) /\ token[t] \in TokenRow
    BY <1>1, <1>3 DEF SlotOK, LocalsOf, RowsOK, Stored, TypeOK
  <2>2. /\ rec \in RequestState /\ rec.op = "logout" /\ rec.pc = "revoke_family"
        /\ rec.tok = t /\ rec.sid = token[t].sessionId
        /\ rec.at = req[r].at /\ rec.late = req[r].late /\ rec.spent = req[r].spent
    BY <1>1, <2>1 DEF RequestState, TokenRow, Pc
  <2>3. req' = [req EXCEPT ![r] = rec] /\ req'[r] = rec
    BY <1>1, <1>3 DEF LogoutFind, FirstWrite, TypeOK
  <2>4. StepOf(r)' /\ HistoryOf(r)'
    BY <1>1, <2>2, <2>3 DEF SlotOK, StepOf, HistoryOf, Revoking
  <2>5. LocalsOf(r)'
    BY <1>1, <1>2, <1>3, <2>1, <2>2, <2>3, NullAssumption DEF SlotOK, LocalsOf, Revoking, Stored, Exists
  <2> QED
    BY <1>2, <2>2, <2>3, <2>4, <2>5, LocalStep DEF SlotOK
<1> QED
  BY <1>2, <1>3, EndStep DEF LogoutFind

(* AuthBegin keeps the inductive invariant.                                *)
LEMMA AuthBeginStep ==
  ASSUME IInv, NEW r \in Request, NEW b \in bearer, AuthBegin(r, b)
  PROVE  IInv'
<1> DEFINE late == Revoked(b.sid)
           rec == [Idle EXCEPT !.op = "bearer", !.pc = "find_session", !.sid = b.sid, !.late = late]
<1>1. TypeOK /\ now \in Nat /\ Exists(b.sid)
  BY NowIsNat DEF IInv, TypeOK, ClientsOK
<1>2. rec \in RequestState
  <2>1. b.sid \in Session /\ late \in BOOLEAN
    BY <1>1 DEF Exists, Revoked
  <2> QED
    BY <2>1, IdleType DEF RequestState, Op, Pc
<1>3. req' = [req EXCEPT ![r] = rec]
  BY DEF AuthBegin
<1>4. req'[r] = rec
  BY <1>1, <1>3 DEF TypeOK
<1>5. UNCHANGED <<now, session, token, audit, held, bearer, presented, replayed, closed>>
  BY DEF AuthBegin, tables, clients, history
<1>6. /\ rec.op = "bearer" /\ rec.pc = "find_session" /\ rec.tok = NoToken
      /\ rec.at = 0 /\ rec.sid = b.sid /\ rec.late = late /\ rec.spent = FALSE
  BY DEF Idle
<1>7. StepOf(r)' /\ LocalsOf(r)'
  BY <1>1, <1>4, <1>5, <1>6, NullAssumption DEF StepOf, LocalsOf, Revoking, Exists
<1>8. HistoryOf(r)'
  BY <1>4, <1>5, <1>6 DEF HistoryOf, Accepted, Revoked
<1> QED
  BY <1>2, <1>3, <1>5, <1>6, <1>7, <1>8, <1>4, LocalStep DEF SlotOK

(* AuthSession keeps the inductive invariant.                              *)
LEMMA AuthSessionStep ==
  ASSUME IInv, NEW r \in Request, AuthSession(r)
  PROVE  IInv'
<1> DEFINE rec == [req[r] EXCEPT !.pc = "serve"]
<1>1. /\ TypeOK /\ SlotOK(r) /\ now \in Nat
      /\ req[r] \in RequestState /\ req[r].op = "bearer" /\ req[r].pc = "find_session"
  BY NowIsNat DEF AuthSession, At, IInv, TypeOK
<1>2. UNCHANGED <<now, session, token, audit, held, bearer, presented, replayed, closed>>
  BY DEF AuthSession, tables, clients, history
<1>3. CASE Live(req[r].sid, now) /\ Goto(r, "serve")
  <2>1. rec \in RequestState /\ req' = [req EXCEPT ![r] = rec] /\ req'[r] = rec
    BY <1>1, <1>3 DEF Goto, TypeOK, RequestState, Pc
  <2>2. /\ rec.op = "bearer" /\ rec.pc = "serve" /\ rec.tok = req[r].tok /\ rec.sid = req[r].sid
        /\ rec.at = req[r].at /\ rec.late = req[r].late /\ rec.spent = req[r].spent
    BY <1>1 DEF RequestState
  <2>3. StepOf(r)' /\ LocalsOf(r)'
    BY <1>1, <1>2, <2>1, <2>2 DEF SlotOK, StepOf, LocalsOf, Exchanging, Revoking, Stored, Exists
  <2>4. ~req[r].late /\ ~req[r].spent
    BY <1>1, <1>3 DEF SlotOK, HistoryOf, LocalsOf, Live, Revoked, Reason
  <2>5. HistoryOf(r)'
    BY <2>1, <2>2, <2>4 DEF HistoryOf
  <2> QED
    BY <1>1, <1>2, <2>1, <2>2, <2>3, <2>5, LocalStep DEF SlotOK
<1> QED
  BY <1>2, <1>3, EndStep DEF AuthSession

(* Serve and Fail keep the inductive invariant.                            *)
LEMMA ServeStep ==
  ASSUME IInv, NEW r \in Request, Serve(r) \/ Fail(r)
  PROVE  IInv'
BY EndStep DEF Serve, Fail, tables, clients, history

(* LoginCreateSession keeps the inductive invariant.                       *)
LEMMA LoginCreateSessionStep ==
  ASSUME IInv, NEW r \in Request, LoginCreateSession(r)
  PROVE  IInv'
<1>1. PICK s \in Session :
        /\ session[s].status = "absent"
        /\ session' = [session EXCEPT ![s] = [status |-> "open", expiresAt |-> Deadline(req[r].at)]]
        /\ req' = [req EXCEPT ![r].sid = s, ![r].pc = "create_token"]
  BY DEF LoginCreateSession
<1> DEFINE rec == [req[r] EXCEPT !.sid = s, !.pc = "create_token"]
<1>2. /\ TypeOK /\ RowsOK /\ ClientsOK /\ ReplaysOK /\ Lineage /\ NoFalseAlarm /\ AuditIsTruthful /\ SlotOK(r)
      /\ now \in Nat /\ req[r] \in RequestState /\ req[r].op = "login" /\ req[r].pc = "create_session"
  BY NowIsNat DEF LoginCreateSession, At, IInv, TypeOK
<1>3. UNCHANGED <<now, token, audit, held, bearer, presented, replayed, closed>>
  BY DEF LoginCreateSession, clients, history
<1>4. /\ session' \in [Session -> SessionRow]
      /\ session'[s].status = "open" /\ session'[s].expiresAt = Deadline(req[r].at)
      /\ \A u \in Session : u # s => session'[u] = session[u]
  BY <1>1, <1>2, TimeAssumption DEF TypeOK, SessionRow, Status, Deadline, RequestState, Time
<1>5. ~Revoked(s) /\ ~Exists(s)
  BY <1>1 DEF Revoked, Exists, Reason
<1>6. TokensSettle /\ SessionsSettle
  <2>1. TokensSettle
    BY <1>3 DEF TokensSettle, Stored, Rotated
  <2>2. SessionsSettle
    BY <1>4, <1>5 DEF SessionsSettle, Exists, Revoked
  <2> QED
    BY <2>1, <2>2
<1>7. /\ rec \in RequestState /\ rec.op = "login" /\ rec.pc = "create_token" /\ rec.sid = s
      /\ rec.tok = req[r].tok /\ rec.at = req[r].at /\ rec.late = req[r].late /\ rec.spent = req[r].spent
  BY <1>2 DEF RequestState, Pc
<1>8. req' = [req EXCEPT ![r] = rec] /\ req'[r] = rec
  BY <1>1, <1>2 DEF TypeOK
<1>9. StepOf(r)' /\ HistoryOf(r)'
  BY <1>2, <1>7, <1>8 DEF SlotOK, StepOf, HistoryOf
<1>10. LocalsOf(r)'
  BY <1>2, <1>3, <1>4, <1>7, <1>8, NullAssumption DEF SlotOK, LocalsOf, Revoking, Exists, Stored
<1>11. req' \in [Request -> RequestState] /\ \A q \in Request : SlotOK(q)'
  BY <1>3, <1>6, <1>7, <1>8, <1>9, <1>10, SlotsStep DEF SlotOK
<1>12. TypeOK'
  BY <1>2, <1>3, <1>4, <1>11 DEF TypeOK
<1>13. RowsOK'
  BY <1>2, <1>3, <1>4, <1>6 DEF RowsOK, SessionsSettle, Stored, Exists
<1>14. ClientsOK'
  BY <1>2, <1>3, <1>6, <1>4, <1>5 DEF ClientsOK, SessionsSettle, Stored, Exists, Revoked, TypeOK
<1>15. ReplaysOK'
  <2>1. \A t \in Token : Rotated(t)' <=> Rotated(t)
    BY <1>3 DEF Rotated
  <2> QED
    BY <1>2, <1>3, <1>7, <1>8, <2>1, ReplaysStep DEF TypeOK
<1>16. Lineage'
  BY <1>2, <1>3, <1>6 DEF RowsOK, Lineage, Rotated, SessionsSettle, Stored, Exists
<1>17. NoFalseAlarm' /\ AuditIsTruthful'
  BY <1>2, <1>3, <1>4, <1>5 DEF NoFalseAlarm, AuditIsTruthful, Rotated, Revoked, TypeOK
<1> QED
  BY <1>11, <1>12, <1>13, <1>14, <1>15, <1>16, <1>17 DEF IInv

(* LoginCreateToken keeps the inductive invariant.                         *)
LEMMA LoginCreateTokenStep ==
  ASSUME IInv, NEW r \in Request, LoginCreateToken(r)
  PROVE  IInv'
<1>1. PICK n \in Token :
        /\ token[n].status = "absent"
        /\ token' = [token EXCEPT ![n] = MintedRow(req[r].sid, req[r].sid, req[r].at)]
        /\ req' = [req EXCEPT ![r].new = n, ![r].pc = "answer"]
  BY DEF LoginCreateToken
<1> DEFINE s == req[r].sid
           rec == [req[r] EXCEPT !.new = n, !.pc = "answer"]
<1>2. /\ TypeOK /\ RowsOK /\ ClientsOK /\ ReplaysOK /\ Lineage /\ NoFalseAlarm /\ AuditIsTruthful /\ SlotOK(r)
      /\ now \in Nat /\ req[r] \in RequestState /\ req[r].op = "login" /\ req[r].pc = "create_token"
  BY NowIsNat DEF LoginCreateToken, At, IInv, TypeOK
<1>3. UNCHANGED <<now, session, audit, held, bearer, presented, replayed, closed>>
  BY DEF LoginCreateToken, clients, history
<1>4. Exists(s) /\ session[s].expiresAt = Deadline(req[r].at) /\ req[r].at <= now /\ req[r].at \in Time
  BY <1>2 DEF SlotOK, LocalsOf, RequestState
<1>5. /\ token' \in [Token -> TokenRow]
      /\ token'[n].status = "open" /\ token'[n].sessionId = s /\ token'[n].familyId = s
      /\ token'[n].expiresAt = Deadline(req[r].at) /\ token'[n].replacedBy = NoToken
      /\ \A t \in Token : t # n => token'[t] = token[t]
  <2> DEFINE new == MintedRow(s, s, req[r].at)
  <2>1. /\ new \in TokenRow /\ new.status = "open" /\ new.sessionId = s /\ new.familyId = s
        /\ new.expiresAt = Deadline(req[r].at) /\ new.replacedBy = NoToken
    BY <1>4, MintedRowFields DEF Exists
  <2> HIDE DEF new
  <2>2. token' = [token EXCEPT ![n] = new]
    BY <1>1 DEF new
  <2> QED
    BY <1>2, <2>1, <2>2 DEF TypeOK
<1>6. token[n] = NoTokenRow /\ ~Stored(n) /\ ~Rotated(n) /\ ~Rotated(n)'
  BY <1>1, <1>2, <1>5 DEF RowsOK, Stored, Rotated, NoTokenRow
<1>7. TokensSettle /\ SessionsSettle
  <2>1. TokensSettle
    BY <1>5, <1>6 DEF TokensSettle, Stored, Rotated
  <2>2. SessionsSettle
    BY <1>3 DEF SessionsSettle, Exists, Revoked
  <2> QED
    BY <2>1, <2>2
<1>8. /\ rec \in RequestState /\ rec.op = "login" /\ rec.pc = "answer" /\ rec.sid = s /\ rec.new = n
      /\ rec.tok = req[r].tok /\ rec.at = req[r].at /\ rec.late = req[r].late /\ rec.spent = req[r].spent
  BY <1>2 DEF RequestState, Pc
<1>9. req' = [req EXCEPT ![r] = rec] /\ req'[r] = rec
  BY <1>1, <1>2 DEF TypeOK
<1>10. StepOf(r)' /\ HistoryOf(r)'
  BY <1>2, <1>8, <1>9 DEF SlotOK, StepOf, HistoryOf
<1>11. LocalsOf(r)'
  BY <1>2, <1>3, <1>4, <1>5, <1>8, <1>9 DEF SlotOK, LocalsOf, Revoking, Exists, Stored
<1>12. req' \in [Request -> RequestState] /\ \A q \in Request : SlotOK(q)'
  BY <1>3, <1>7, <1>8, <1>9, <1>10, <1>11, SlotsStep DEF SlotOK
<1>13. TypeOK'
  BY <1>2, <1>3, <1>5, <1>12 DEF TypeOK
<1>14. RowsOK'
  BY <1>2, <1>3, <1>4, <1>5, TimeAssumption DEF RowsOK, Stored, Exists, Deadline, Time
<1>15. ClientsOK'
  BY <1>2, <1>3, <1>5 DEF ClientsOK, Stored, Exists, Revoked
<1>16. ReplaysOK'
  <2>1. \A t \in Token : Rotated(t)' <=> Rotated(t)
    BY <1>5, <1>6, NullAssumption, <1>1 DEF Rotated
  <2> QED
    BY <1>2, <1>3, <1>8, <1>9, <2>1, ReplaysStep DEF TypeOK
<1>17. Lineage'
  <2>1. session[s].expiresAt <= Deadline(req[r].at)
    BY <1>4, TimeAssumption DEF Deadline, Time
  <2>2. \A t \in Token : Rotated(t) => token[t].replacedBy # n
    BY <1>1, <1>2 DEF Lineage
  <2>3. ASSUME NEW u \in Token, token'[u].status # "absent"
        PROVE  /\ token'[u].familyId = token'[u].sessionId
               /\ session[token'[u].sessionId].status # "absent"
               /\ session[token'[u].sessionId].expiresAt <= token'[u].expiresAt
    BY <1>2, <1>4, <1>5, <2>1, <2>3 DEF Lineage, Exists
  <2>4. ASSUME NEW u \in Token, Rotated(u)'
        PROVE  LET m == token'[u].replacedBy IN
               /\ m # u /\ token'[m].status # "absent" /\ token'[m].familyId = token'[u].familyId
               /\ token'[u].expiresAt <= token'[m].expiresAt
               /\ \A v \in Token : token'[v].replacedBy = m => v = u
    <3>1. u # n /\ Rotated(u) /\ token'[u] = token[u] /\ token[u].replacedBy # n
      BY <1>5, <1>6, <2>2, <2>4 DEF Rotated
    <3>2. token[u].replacedBy \in Token
      BY <1>2, <3>1 DEF Rotated, TypeOK, TokenRow
    <3> QED
      BY <1>2, <1>5, <3>1, <3>2, NullAssumption DEF Lineage, Rotated
  <2> QED
    BY <1>3, <2>3, <2>4 DEF Lineage, Rotated
<1>18. NoFalseAlarm' /\ AuditIsTruthful'
  BY <1>2, <1>3, <1>5, <1>6, NullAssumption DEF NoFalseAlarm, AuditIsTruthful, Rotated, Revoked, TypeOK, NoTokenRow
<1> QED
  BY <1>12, <1>13, <1>14, <1>15, <1>16, <1>17, <1>18 DEF IInv

(* RefreshRotate keeps the inductive invariant.                            *)
LEMMA RefreshRotateStep ==
  ASSUME IInv, NEW r \in Request, RefreshRotate(r)
  PROVE  IInv'
<1>1. PICK n \in Token :
        /\ token[n].status = "absent"
        /\ token' = Rotation(req[r].tok, n, req[r].sid, req[r].at)
        /\ req' = [req EXCEPT ![r].new = n, ![r].pc = "answer"]
  BY DEF RefreshRotate
<1> DEFINE s == req[r].sid
           t == req[r].tok
           rec == [req[r] EXCEPT !.new = n, !.pc = "answer"]
<1>2. /\ TypeOK /\ RowsOK /\ ClientsOK /\ ReplaysOK /\ Lineage /\ NoFalseAlarm /\ AuditIsTruthful /\ SlotOK(r)
      /\ now \in Nat /\ req[r] \in RequestState /\ req[r].op = "refresh" /\ req[r].pc = "rotate"
  BY NowIsNat DEF RefreshRotate, At, IInv, TypeOK
<1>3. UNCHANGED <<now, session, audit, held, bearer, presented, replayed, closed>>
  BY DEF RefreshRotate, clients, history
<1>4. /\ Exists(s) /\ req[r].at <= now /\ req[r].at \in Time
      /\ t # NoToken /\ t \in Token /\ t # n /\ token[t].status # "absent"
      /\ token[t].sessionId = s /\ token[t].familyId = s /\ token[t] \in TokenRow
      /\ token[t].expiresAt <= Deadline(req[r].at)
  BY <1>1, <1>2 DEF SlotOK, LocalsOf, RequestState, Stored, Lineage, TypeOK
<1>5. /\ token' \in [Token -> TokenRow]
      /\ token'[n].status = "open" /\ token'[n].sessionId = s /\ token'[n].familyId = s
      /\ token'[n].expiresAt = Deadline(req[r].at) /\ token'[n].replacedBy = NoToken
      /\ token'[t].status = token[t].status /\ token'[t].sessionId = s /\ token'[t].familyId = s
      /\ token'[t].expiresAt = token[t].expiresAt /\ token'[t].replacedBy = n
      /\ \A u \in Token : u # n /\ u # t => token'[u] = token[u]
  <2> DEFINE new == MintedRow(s, s, req[r].at)
             old == [token[t] EXCEPT !.replacedBy = n]
  <2>1. /\ new \in TokenRow /\ new.status = "open" /\ new.sessionId = s /\ new.familyId = s
        /\ new.expiresAt = Deadline(req[r].at) /\ new.replacedBy = NoToken
    BY <1>4, MintedRowFields DEF Exists
  <2>2. /\ old \in TokenRow /\ old.status = token[t].status /\ old.sessionId = s /\ old.familyId = s
        /\ old.expiresAt = token[t].expiresAt /\ old.replacedBy = n
    BY <1>4 DEF TokenRow
  <2>3. token' = [token EXCEPT ![n] = new, ![t] = old]
    BY <1>1, <1>2, <1>4 DEF Rotation, TypeOK
  <2> HIDE DEF new, old
  <2> QED
    BY <1>2, <1>4, <2>1, <2>2, <2>3 DEF TypeOK
<1>6. /\ token[n] = NoTokenRow /\ ~Stored(n) /\ ~Rotated(n) /\ ~Rotated(n)' /\ token'[t].replacedBy # NoToken
      /\ t \in presented
  <2>1. token[n] = NoTokenRow /\ ~Stored(n)
    BY <1>1, <1>2 DEF RowsOK, Stored
  <2>2. ~Rotated(n)
    BY <2>1 DEF Rotated, NoTokenRow
  <2>3. ~Rotated(n)' /\ token'[t].replacedBy # NoToken
    BY <1>5, NullAssumption DEF Rotated
  <2>4. t \in presented
    BY <1>2, <1>4 DEF ReplaysOK
  <2> QED
    BY <2>1, <2>2, <2>3, <2>4
<1>7. TokensSettle /\ SessionsSettle
  <2>1. TokensSettle
    <3>1. ASSUME NEW u \in Token, Stored(u), u # t
          PROVE  token'[u] = token[u]
      BY <1>5, <1>6, <3>1
    <3> QED
      BY <1>4, <1>5, <1>6, <3>1 DEF TokensSettle, Stored, Rotated
  <2>2. SessionsSettle
    BY <1>3 DEF SessionsSettle, Exists, Revoked
  <2> QED
    BY <2>1, <2>2
<1>8. /\ rec \in RequestState /\ rec.op = "refresh" /\ rec.pc = "answer" /\ rec.sid = s /\ rec.new = n
      /\ rec.tok = t /\ rec.at = req[r].at /\ rec.late = req[r].late /\ rec.spent = req[r].spent
  BY <1>2 DEF RequestState, Pc
<1>9. req' = [req EXCEPT ![r] = rec] /\ req'[r] = rec
  BY <1>1, <1>2 DEF TypeOK
<1>10. StepOf(r)'
  BY <1>8, <1>9 DEF StepOf
<1>11. LocalsOf(r)'
  BY <1>2, <1>3, <1>4, <1>5, <1>6, <1>8, <1>9 DEF SlotOK, LocalsOf, Revoking, Exists, Stored, Rotated
<1>12. HistoryOf(r)'
  BY <1>2, <1>8, <1>9 DEF SlotOK, HistoryOf, Revoking, Accepted
<1>13. /\ req' \in [Request -> RequestState]
       /\ \A q \in Request : q # r => req'[q] = req[q]
       /\ \A q \in Request : SlotOK(q)'
  BY <1>3, <1>7, <1>8, <1>9, <1>10, <1>11, <1>12, SlotsStep DEF SlotOK
<1>14. TypeOK'
  BY <1>2, <1>3, <1>5, <1>13 DEF TypeOK
<1>15. RowsOK'
  BY <1>2, <1>3, <1>4, <1>5, TimeAssumption DEF RowsOK, Stored, Exists, Deadline, Time
<1>16. ClientsOK'
  BY <1>2, <1>3, <1>4, <1>5 DEF ClientsOK, Stored, Exists, Revoked
<1>17. ReplaysOK'
  <2>1. \A u \in Token : u # t => (Rotated(u)' <=> Rotated(u))
    BY <1>5, <1>6 DEF Rotated
  <2>2. ~Exchanging(r)' /\ ~Revoking(r)' /\ req'[r].op = "refresh" /\ req'[r].tok = t
    BY <1>8, <1>9 DEF Exchanging, Revoking
  <2>3. \A q \in Request : q # r => /\ Exchanging(q)' <=> Exchanging(q)
                                    /\ Revoking(q)' <=> Revoking(q)
    BY <1>13 DEF Exchanging, Revoking
  <2>4. ASSUME NEW q \in Request, Exchanging(q)', req'[q].tok # NoToken, Rotated(req[q].tok)'
        PROVE  req'[q].tok \in replayed
    <3>1. q # r /\ req'[q] = req[q] /\ Exchanging(q) /\ req[q].tok \in Token
      BY <1>2, <1>13, <2>2, <2>3, <2>4 DEF RequestState, TypeOK
    <3>2. CASE req[q].tok = t
      BY <1>2, <1>4, <3>1, <3>2 DEF ReplaysOK, Exchanging
    <3>3. CASE req[q].tok # t
      BY <1>2, <2>1, <2>4, <3>1, <3>3 DEF ReplaysOK, Rotated
    <3> QED
      BY <3>2, <3>3
  <2>5. \A u \in Token : Rotated(u)' => u \in presented
    BY <1>2, <1>6, <2>1 DEF ReplaysOK
  <2>6. \A q \in Request : req'[q].op = req[q].op /\ req'[q].tok = req[q].tok
    BY <1>2, <1>8, <1>9, <1>13
  <2> QED
    BY <1>2, <1>3, <2>2, <2>3, <2>4, <2>5, <2>6 DEF ReplaysOK
<1>18. Lineage'
  <2>1. session[s].expiresAt <= Deadline(req[r].at)
    <3>1. session[s].expiresAt <= token[t].expiresAt /\ session[s].expiresAt \in Nat
          /\ token[t].expiresAt \in Nat
      BY <1>2, <1>4, TimeAssumption DEF Lineage, TypeOK, SessionRow, TokenRow, Exists, Time
    <3> QED
      BY <1>4, <3>1, TimeAssumption DEF Deadline, Time
  <2>2. \A u \in Token : Rotated(u) => token[u].replacedBy # n
    BY <1>1, <1>2 DEF Lineage
  <2>3. ASSUME NEW u \in Token, token'[u].status # "absent"
        PROVE  /\ token'[u].familyId = token'[u].sessionId
               /\ session[token'[u].sessionId].status # "absent"
               /\ session[token'[u].sessionId].expiresAt <= token'[u].expiresAt
    BY <1>2, <1>4, <1>5, <2>1, <2>3 DEF Lineage, Exists
  <2>4. ASSUME NEW u \in Token, Rotated(u)'
        PROVE  LET m == token'[u].replacedBy IN
               /\ m # u /\ token'[m].status # "absent" /\ token'[m].familyId = token'[u].familyId
               /\ token'[u].expiresAt <= token'[m].expiresAt
               /\ \A v \in Token : token'[v].replacedBy = m => v = u
    <3>1. CASE u = t
      BY <1>4, <1>5, <2>2, <3>1, NullAssumption DEF Rotated
    <3>2. CASE u # t
      <4>1. u # n /\ Rotated(u) /\ token'[u] = token[u] /\ token[u].replacedBy # n
        BY <1>5, <1>6, <2>2, <2>4, <3>2 DEF Rotated
      <4>2. token[u].replacedBy \in Token
        BY <1>2, <4>1 DEF Rotated, TypeOK, TokenRow
      <4> QED
        BY <1>2, <1>4, <1>5, <4>1, <4>2, NullAssumption DEF Lineage, Rotated
    <3> QED
      BY <3>1, <3>2
  <2> QED
    BY <1>3, <2>3, <2>4 DEF Lineage, Rotated
<1>19. NoFalseAlarm' /\ AuditIsTruthful'
  BY <1>2, <1>3, <1>4, <1>5, <1>6, NullAssumption DEF NoFalseAlarm, AuditIsTruthful, Rotated, Revoked, TypeOK, NoTokenRow
<1> QED
  BY <1>13, <1>14, <1>15, <1>16, <1>17, <1>18, <1>19 DEF IInv

(* Answer keeps the inductive invariant.                                   *)
LEMMA AnswerStep ==
  ASSUME IInv, NEW r \in Request, Answer(r)
  PROVE  IInv'
<1> DEFINE s == req[r].sid
<1>1. /\ TypeOK /\ RowsOK /\ ClientsOK /\ ReplaysOK /\ Lineage /\ NoFalseAlarm /\ AuditIsTruthful /\ SlotOK(r)
      /\ now \in Nat /\ req[r] \in RequestState /\ req[r].pc = "answer"
  BY NowIsNat DEF Answer, IInv, TypeOK
<1>2. UNCHANGED <<now, session, token, presented, replayed, closed>>
  BY DEF Answer, tables, history
<1>3. /\ req' = [req EXCEPT ![r] = Idle] /\ req'[r] = Idle /\ Idle.op # "refresh"
  BY <1>1 DEF Answer, End, TypeOK, Idle
<1>4. /\ Exists(s) /\ Stored(req[r].new) /\ token[req[r].new].sessionId = s
      /\ req[r].op = "refresh" => /\ Stored(req[r].tok) /\ Rotated(req[r].tok)
                                  /\ token[req[r].tok].sessionId = s
      /\ req[r].op \in {"login", "refresh"}
  BY <1>1 DEF SlotOK, StepOf, LocalsOf, Revoking, Idle, RequestState, Op
<1>5. TokensSettle /\ SessionsSettle
  BY <1>2 DEF TokensSettle, SessionsSettle, Stored, Exists, Revoked, Rotated
<1>6. req' \in [Request -> RequestState] /\ \A q \in Request : SlotOK(q)'
  <2>1. SlotOK(r)'
    BY <1>1, <1>2, <1>3, FreeSlot
  <2> QED
    BY <1>2, <1>3, <1>5, <2>1, IdleType, SlotsStep
<1>7. \A t \in held' : t \in held \/ t = req[r].new
  BY DEF Answer, clients
<1>8. \A b \in bearer' : b \in bearer \/ b = [sid |-> s, exp |-> now + AccessTtl]
  BY DEF Answer, clients
<1>9. \A a \in audit' : a \in audit \/ a = <<IF req[r].op = "login" THEN "LOGGED_IN" ELSE "ROTATED", s>>
  BY DEF Answer, Record
<1>10. TypeOK'
  <2>1. now + AccessTtl \in 0..(MaxTime + AccessTtl)
    BY <1>1, TimeAssumption DEF TypeOK, Time
  <2>2. held' \in SUBSET Token
    BY <1>1, <1>4, <1>7 DEF TypeOK, Stored
  <2>3. bearer' \in SUBSET [sid : Session, exp : 0..(MaxTime + AccessTtl)]
    BY <1>1, <1>4, <1>8, <2>1 DEF TypeOK, Exists
  <2>4. audit' \in SUBSET (AuditAction \X Session)
    BY <1>1, <1>4, <1>9 DEF TypeOK, Exists, AuditAction
  <2> QED
    BY <1>1, <1>2, <1>6, <2>2, <2>3, <2>4 DEF TypeOK
<1>11. RowsOK'
  BY <1>1, <1>2 DEF RowsOK, Stored, Exists
<1>12. ClientsOK'
  BY <1>1, <1>2, <1>4, <1>7, <1>8 DEF ClientsOK, Stored, Exists, Revoked
<1>13. ReplaysOK'
  <2>1. \A t \in Token : Rotated(t)' <=> Rotated(t)
    BY <1>2 DEF Rotated
  <2> QED
    BY <1>1, <1>2, <1>3, <2>1, IdleType, ReplaysStep DEF TypeOK
<1>14. Lineage' /\ NoFalseAlarm'
  BY <1>1, <1>2 DEF Lineage, NoFalseAlarm, Rotated
<1>15. AuditIsTruthful'
  <2>1. ASSUME NEW a \in audit'
        PROVE  /\ a[1] \in Reason => Revoked(a[2])
               /\ a[1] = "ROTATED" => \E t \in Token : token[t].sessionId = a[2] /\ Rotated(t)
               /\ a[1] = "LOGGED_IN" => \E t \in Token : token[t].sessionId = a[2]
    <3>1. CASE a \in audit
      BY <1>1, <3>1 DEF AuditIsTruthful
    <3>2. CASE a = <<"LOGGED_IN", s>> /\ req[r].op = "login"
      BY <1>4, <3>2 DEF Stored, Reason
    <3>3. CASE a = <<"ROTATED", s>> /\ req[r].op = "refresh"
      BY <1>4, <3>3 DEF Stored, Reason
    <3> QED
      BY <1>4, <1>9, <3>1, <3>2, <3>3
  <2> QED
    BY <1>2, <2>1 DEF AuditIsTruthful, Revoked, Rotated
<1> QED
  BY <1>6, <1>10, <1>11, <1>12, <1>13, <1>14, <1>15 DEF IInv

(* RevokeFamily keeps the inductive invariant.                             *)
LEMMA RevokeFamilyStep ==
  ASSUME IInv, NEW r \in Request, RevokeFamily(r)
  PROVE  IInv'
<1> DEFINE f == token[req[r].tok].familyId
           rec == [req[r] EXCEPT !.pc = "revoke_session"]
<1>1. /\ TypeOK /\ RowsOK /\ ClientsOK /\ ReplaysOK /\ Lineage /\ NoFalseAlarm /\ AuditIsTruthful /\ SlotOK(r)
      /\ now \in Nat /\ req[r] \in RequestState /\ req[r].pc = "revoke_family"
  BY NowIsNat DEF RevokeFamily, IInv, TypeOK
<1>2. UNCHANGED <<now, session, audit, held, bearer, presented, replayed, closed>>
  BY DEF RevokeFamily, clients, history
<1>3. Why(r) \in Reason
  BY DEF Why, Reason
<1>4. /\ token' \in [Token -> TokenRow]
      /\ \A t \in Token : /\ token'[t].sessionId = token[t].sessionId
                          /\ token'[t].familyId = token[t].familyId
                          /\ token'[t].expiresAt = token[t].expiresAt
                          /\ token'[t].replacedBy = token[t].replacedBy
      /\ \A t \in Token : \/ token'[t] = token[t]
                          \/ token[t].status = "open" /\ token'[t].status = Why(r)
  <2>1. token' = RevokedFamily(f, Why(r))
    BY DEF RevokeFamily
  <2>2. ASSUME NEW t \in Token
        PROVE  /\ token'[t] \in TokenRow
               /\ token'[t].sessionId = token[t].sessionId
               /\ token'[t].familyId = token[t].familyId
               /\ token'[t].expiresAt = token[t].expiresAt
               /\ token'[t].replacedBy = token[t].replacedBy
               /\ \/ token'[t] = token[t]
                  \/ token[t].status = "open" /\ token'[t].status = Why(r)
    <3>1. CASE token[t].familyId = f /\ token[t].status = "open"
      <4>1. token'[t] = [token[t] EXCEPT !.status = Why(r)]
        BY <2>1, <3>1 DEF RevokedFamily
      <4> QED
        BY <1>1, <1>3, <3>1, <4>1 DEF TypeOK, TokenRow, Status
    <3>2. CASE ~(token[t].familyId = f /\ token[t].status = "open")
      <4>1. token'[t] = token[t]
        BY <2>1, <3>2 DEF RevokedFamily
      <4>2. token[t] \in TokenRow
        BY <1>1 DEF TypeOK
      <4> QED
        BY <4>1, <4>2
    <3> QED
      BY <3>1, <3>2
  <2>3. token' \in [Token -> TokenRow]
    <3> DEFINE row(t) == IF token[t].familyId = f /\ token[t].status = "open"
                         THEN [token[t] EXCEPT !.status = Why(r)] ELSE token[t]
    <3>1. token' = [t \in Token |-> row(t)]
      BY <2>1 DEF RevokedFamily
    <3> HIDE DEF row
    <3>2. \A t \in Token : row(t) \in TokenRow
      BY <2>2, <3>1
    <3> QED
      BY <3>1, <3>2
  <2> QED
    BY <2>2, <2>3
<1>5. \A t \in Token : Stored(t)' <=> Stored(t)
  BY <1>3, <1>4 DEF Stored, Reason
<1>6. \A t \in Token : Rotated(t)' <=> Rotated(t)
  BY <1>4 DEF Rotated
<1>7. TokensSettle /\ SessionsSettle
  BY <1>2, <1>4, <1>5, <1>6 DEF TokensSettle, SessionsSettle, Exists, Revoked
<1>8. /\ rec \in RequestState /\ rec.op = req[r].op /\ rec.pc = "revoke_session" /\ rec.sid = req[r].sid
      /\ rec.tok = req[r].tok /\ rec.at = req[r].at /\ rec.late = req[r].late /\ rec.spent = req[r].spent
  BY <1>1 DEF RequestState, Pc
<1>9. req' = [req EXCEPT ![r] = rec] /\ req'[r] = rec
  BY <1>1 DEF RevokeFamily, Goto, AfterFamily, TypeOK
<1>10. /\ req[r].tok \in Token /\ req[r].tok # NoToken /\ Stored(req[r].tok)
       /\ req[r].op \in {"refresh", "logout"} /\ Exists(req[r].sid)
  BY <1>1, NullAssumption DEF SlotOK, StepOf, LocalsOf, Revoking, Idle, RequestState, Op, Stored
<1>11. StepOf(r)'
  BY <1>8, <1>9, <1>10 DEF StepOf, Revoking
<1>12. LocalsOf(r)'
  BY <1>1, <1>2, <1>4, <1>5, <1>8, <1>9, <1>10 DEF SlotOK, LocalsOf, Revoking, Exists
<1>13. HistoryOf(r)'
  BY <1>1, <1>2, <1>4, <1>6, <1>8, <1>9, <1>10 DEF SlotOK, HistoryOf, Revoking, Accepted, Revoked
<1>14. req' \in [Request -> RequestState] /\ \A q \in Request : SlotOK(q)'
  BY <1>2, <1>7, <1>8, <1>9, <1>11, <1>12, <1>13, SlotsStep DEF SlotOK
<1>15. TypeOK'
  BY <1>1, <1>2, <1>4, <1>14 DEF TypeOK
<1>16. RowsOK'
  BY <1>1, <1>2, <1>3, <1>4 DEF RowsOK, Stored, Exists, Reason
<1>17. ClientsOK'
  BY <1>1, <1>2, <1>5 DEF ClientsOK, Exists, Revoked, TypeOK
<1>18. ReplaysOK'
  <2>1. \A t \in Token : Rotated(t)' <=> Rotated(t)
    BY <1>6, <1>4 DEF Rotated
  <2>2. ~Exchanging(r)' /\ Revoking(r)
    BY <1>1, <1>8, <1>9 DEF Exchanging, Revoking
  <2> QED
    BY <1>1, <1>2, <1>8, <1>9, <2>1, <2>2, ReplaysStep DEF TypeOK
<1>19. Lineage'
  <2>1. \A t \in Token : token'[t].status # "absent" <=> token[t].status # "absent"
    BY <1>5 DEF Stored
  <2>2. \A t \in Token : Rotated(t) => token[t].replacedBy \in Token
    BY <1>1 DEF Rotated, TypeOK, TokenRow
  <2> QED
    BY <1>1, <1>2, <1>4, <1>6, <2>1, <2>2 DEF Lineage
<1>20. NoFalseAlarm' /\ AuditIsTruthful'
  BY <1>1, <1>2, <1>4, <1>6 DEF NoFalseAlarm, AuditIsTruthful, Revoked, TypeOK
<1> QED
  BY <1>14, <1>15, <1>16, <1>17, <1>18, <1>19, <1>20 DEF IInv

(* RevokeSession keeps the inductive invariant.                            *)
LEMMA RevokeSessionStep ==
  ASSUME IInv, NEW r \in Request, RevokeSession(r)
  PROVE  IInv'
<1> DEFINE s == req[r].sid
           rec == [req[r] EXCEPT !.pc = "confirm"]
<1>1. /\ TypeOK /\ RowsOK /\ ClientsOK /\ ReplaysOK /\ Lineage /\ NoFalseAlarm /\ AuditIsTruthful /\ SlotOK(r)
      /\ now \in Nat /\ req[r] \in RequestState /\ req[r].pc = "revoke_session"
  BY NowIsNat DEF RevokeSession, IInv, TypeOK
<1>2. UNCHANGED <<now, token, audit, held, bearer, presented, replayed, closed>>
  BY DEF RevokeSession, clients, history
<1>3. /\ Exists(s) /\ req[r].tok # NoToken /\ Stored(req[r].tok) /\ token[req[r].tok].sessionId = s
      /\ req[r].op \in {"refresh", "logout"} /\ Why(r) \in Reason
  BY <1>1 DEF SlotOK, StepOf, LocalsOf, Revoking, Idle, RequestState, Op, Why, Reason
<1>4. /\ session' \in [Session -> SessionRow]
      /\ session'[s].status = Why(r)
      /\ \A u \in Session : session'[u].expiresAt = session[u].expiresAt
      /\ \A u \in Session : u # s => session'[u] = session[u]
  BY <1>1, <1>3 DEF RevokeSession, RevokedSession, TypeOK, SessionRow, Status, Exists
<1>5. \A u \in Session : /\ Exists(u)' <=> Exists(u)
                         /\ Revoked(u) => Revoked(u)'
  BY <1>3, <1>4 DEF Exists, Revoked, Reason
<1>6. TokensSettle /\ SessionsSettle
  BY <1>2, <1>4, <1>5 DEF TokensSettle, SessionsSettle, Stored, Rotated
<1>7. /\ rec \in RequestState /\ rec.op = req[r].op /\ rec.pc = "confirm" /\ rec.sid = s
      /\ rec.tok = req[r].tok /\ rec.at = req[r].at /\ rec.late = req[r].late /\ rec.spent = req[r].spent
  BY <1>1 DEF RequestState, Pc
<1>8. req' = [req EXCEPT ![r] = rec] /\ req'[r] = rec
  BY <1>1 DEF RevokeSession, Goto, AfterSession, TypeOK
<1>9. StepOf(r)'
  BY <1>3, <1>7, <1>8 DEF StepOf, Revoking
<1>10. LocalsOf(r)'
  BY <1>1, <1>2, <1>3, <1>4, <1>5, <1>7, <1>8 DEF SlotOK, LocalsOf, Revoking, Stored, Exists, Revoked
<1>11. HistoryOf(r)'
  BY <1>1, <1>2, <1>3, <1>4, <1>7, <1>8 DEF SlotOK, HistoryOf, Revoking, Accepted, Revoked, Rotated
<1>12. req' \in [Request -> RequestState] /\ \A q \in Request : SlotOK(q)'
  BY <1>2, <1>6, <1>7, <1>8, <1>9, <1>10, <1>11, SlotsStep DEF SlotOK
<1>13. TypeOK'
  BY <1>1, <1>2, <1>4, <1>12 DEF TypeOK
<1>14. RowsOK'
  BY <1>1, <1>2, <1>3, <1>4, <1>5 DEF RowsOK, Stored, Exists, Reason
<1>15. ClientsOK'
  BY <1>1, <1>2, <1>5 DEF ClientsOK, Stored, TypeOK
<1>16. ReplaysOK'
  <2>1. \A t \in Token : Rotated(t)' <=> Rotated(t)
    BY <1>2 DEF Rotated
  <2>2. ~Exchanging(r)' /\ Revoking(r)
    BY <1>1, <1>7, <1>8 DEF Exchanging, Revoking
  <2> QED
    BY <1>1, <1>2, <1>7, <1>8, <2>1, <2>2, ReplaysStep DEF TypeOK
<1>17. Lineage'
  BY <1>1, <1>2, <1>4, <1>5 DEF Lineage, RowsOK, Rotated, Stored, Exists
<1>18. NoFalseAlarm'
  <2>1. req[r].op = "refresh" => req[r].tok \in replayed
    BY <1>1 DEF ReplaysOK, Revoking
  <2>2. ASSUME NEW u \in Session, session'[u].status = "REUSE_DETECTED"
        PROVE  \E t \in replayed : token[t].sessionId = u
    <3>1. CASE u = s
      BY <1>3, <1>4, <2>1, <2>2, <3>1 DEF Why
    <3>2. CASE u # s
      BY <1>1, <1>4, <2>2, <3>2 DEF NoFalseAlarm
    <3> QED
      BY <3>1, <3>2
  <2> QED
    BY <1>2, <2>2 DEF NoFalseAlarm
<1>19. AuditIsTruthful'
  BY <1>1, <1>2, <1>5 DEF AuditIsTruthful, Rotated, TypeOK
<1> QED
  BY <1>12, <1>13, <1>14, <1>15, <1>16, <1>17, <1>18, <1>19 DEF IInv

(* Confirm keeps the inductive invariant.                                  *)
LEMMA ConfirmStep ==
  ASSUME IInv, NEW r \in Request, Confirm(r)
  PROVE  IInv'
<1> DEFINE s == req[r].sid
<1>1. /\ TypeOK /\ RowsOK /\ ClientsOK /\ ReplaysOK /\ Lineage /\ NoFalseAlarm /\ AuditIsTruthful /\ SlotOK(r)
      /\ now \in Nat /\ req[r] \in RequestState /\ req[r].pc = "confirm"
  BY NowIsNat DEF Confirm, IInv, TypeOK
<1>2. UNCHANGED <<now, session, token, held, bearer, presented, replayed>> /\ closed' = closed \cup {s}
  BY DEF Confirm, tables, clients
<1>3. req' = [req EXCEPT ![r] = Idle] /\ req'[r] = Idle /\ Idle.op # "refresh"
  BY <1>1 DEF Confirm, End, TypeOK, Idle
<1>4. Exists(s) /\ Revoked(s) /\ Why(r) \in Reason
  BY <1>1 DEF SlotOK, LocalsOf, Revoking, Why, Reason
<1>5. TokensSettle /\ SessionsSettle
  BY <1>2 DEF TokensSettle, SessionsSettle, Stored, Exists, Revoked, Rotated
<1>6. req' \in [Request -> RequestState] /\ \A q \in Request : SlotOK(q)'
  <2>1. SlotOK(r)'
    BY <1>1, <1>2, <1>3, FreeSlot
  <2> QED
    BY <1>2, <1>3, <1>5, <2>1, IdleType, SlotsStep
<1>7. \A a \in audit' : a \in audit \/ a = <<Why(r), s>>
  BY DEF Confirm, Record
<1>8. TypeOK'
  <2>1. audit' \in SUBSET (AuditAction \X Session)
    BY <1>1, <1>4, <1>7 DEF TypeOK, Exists, AuditAction
  <2> QED
    BY <1>1, <1>2, <1>4, <1>6, <2>1 DEF TypeOK, Exists
<1>9. RowsOK' /\ ClientsOK'
  BY <1>1, <1>2, <1>4 DEF RowsOK, ClientsOK, Stored, Exists, Revoked
<1>10. ReplaysOK'
  <2>1. \A t \in Token : Rotated(t)' <=> Rotated(t)
    BY <1>2 DEF Rotated
  <2> QED
    BY <1>1, <1>2, <1>3, <2>1, IdleType, ReplaysStep DEF TypeOK
<1>11. Lineage' /\ NoFalseAlarm'
  BY <1>1, <1>2 DEF Lineage, NoFalseAlarm, Rotated
<1>12. AuditIsTruthful'
  BY <1>1, <1>2, <1>4, <1>7 DEF AuditIsTruthful, Revoked, Rotated, Reason
<1> QED
  BY <1>6, <1>8, <1>9, <1>10, <1>11, <1>12 DEF IInv

(* Tick keeps the inductive invariant.                                     *)
LEMMA TickStep ==
  ASSUME IInv, Tick
  PROVE  IInv'
<1>1. /\ TypeOK /\ RowsOK /\ ClientsOK /\ ReplaysOK /\ Lineage /\ NoFalseAlarm /\ AuditIsTruthful
      /\ now \in Nat /\ now' = now + 1 /\ now' \in Time
      /\ UNCHANGED <<session, token, audit, req, held, bearer, presented, replayed, closed>>
  BY NowIsNat, TimeAssumption DEF Tick, IInv, TypeOK, Time, tables, clients, history
<1>2. TokensSettle /\ SessionsSettle
  BY <1>1 DEF TokensSettle, SessionsSettle, Stored, Exists, Revoked, Rotated
<1>3. ASSUME NEW q \in Request PROVE SlotOK(q)'
  <2>1. SlotOK(q) /\ req'[q] = req[q] /\ now <= now' /\ now' \in Nat
    BY <1>1 DEF IInv
  <2> QED
    BY <1>1, <1>2, <2>1, OtherSlot
<1>4. TypeOK'
  BY <1>1 DEF TypeOK
<1>5. RowsOK'
  BY <1>1, TimeAssumption DEF RowsOK, Stored, Exists, Deadline, TypeOK, TokenRow
<1>6. ClientsOK' /\ Lineage' /\ NoFalseAlarm' /\ AuditIsTruthful'
  BY <1>1 DEF ClientsOK, Lineage, NoFalseAlarm, AuditIsTruthful, Stored, Exists, Revoked, Rotated
<1>7. ReplaysOK'
  BY <1>1 DEF ReplaysOK, Revoking, Exchanging, Rotated
<1> QED
  BY <1>3, <1>4, <1>5, <1>6, <1>7 DEF IInv

(* Every step keeps the inductive invariant.                               *)
LEMMA NextIInv == IInv /\ [Next]_vars => IInv'
<1> SUFFICES ASSUME IInv, [Next]_vars PROVE IInv'
  OBVIOUS
<1>1. CASE Tick
  BY <1>1, TickStep
<1>2. ASSUME NEW r \in Request, Arrive(r) PROVE IInv'
  BY <1>2, LoginBeginStep, RefreshBeginStep, LogoutBeginStep, AuthBeginStep DEF Arrive
<1>3. ASSUME NEW r \in Request, Step(r) PROVE IInv'
  BY <1>3, LoginCreateSessionStep, LoginCreateTokenStep, RefreshFindStep, RefreshSessionStep,
     RefreshRotateStep, AnswerStep, LogoutFindStep, RevokeFamilyStep, RevokeSessionStep,
     ConfirmStep, AuthSessionStep, ServeStep DEF Step
<1>4. ASSUME NEW r \in Request, Fail(r) PROVE IInv'
  BY <1>4, ServeStep
<1>5. CASE UNCHANGED vars
  BY <1>5 DEF vars, tables, clients, history, IInv, TypeOK, SlotOK, StepOf, LocalsOf, HistoryOf, RowsOK,
     ClientsOK, ReplaysOK, Lineage, NoFalseAlarm, AuditIsTruthful, Revoking, Exchanging, Stored,
     Exists, Revoked, Rotated, Accepted
<1> QED
  BY <1>1, <1>2, <1>3, <1>4, <1>5 DEF Next

(* The inductive invariant holds in every reachable state, for any number  *)
(* of requests, sessions and tokens, any lifetimes, and with or without    *)
(* failures.                                                               *)
THEOREM Invariance == Spec => []IInv
<1> QED
  BY InitIInv, NextIInv, PTL DEF Spec

(* Tables, request slots and clients keep their types.                     *)
THEOREM TypeCorrect == Spec => []TypeOK
<1>1. IInv => TypeOK
  BY DEF IInv
<1> QED
  BY <1>1, Invariance, PTL

(* A refresh or bearer request that arrives after its session was revoked  *)
(* (session.revokedAt checks of rotate-refresh-token.ts and                *)
(* authenticate.ts) is never accepted, however it interleaves with         *)
(* rotations.                                                              *)
THEOREM LateNeverAccepted == Spec => []NoLateExchange
<1>1. IInv => NoLateExchange
  BY DEF IInv, NoLateExchange, SlotOK, HistoryOf
<1> QED
  BY <1>1, Invariance, PTL

(* A refresh that arrives after its token was rotated never gets tokens    *)
(* for it (the rotatedAt check of rotate-refresh-token.ts).                *)
THEOREM ExchangedOnce == Spec => []NoSecondExchange
<1>1. IInv => NoSecondExchange
  BY DEF IInv, NoSecondExchange, SlotOK, HistoryOf, Accepted, Revoking
<1> QED
  BY <1>1, Invariance, PTL

(* A session revoked for reuse has a token that was sent to /refresh at    *)
(* least twice: reuse detection has no false positives.                    *)
THEOREM AlarmIsReal == Spec => []NoFalseAlarm
<1>1. IInv => NoFalseAlarm
  BY DEF IInv
<1> QED
  BY <1>1, Invariance, PTL

(* Rotation chains stay within their session and family, never merge, and  *)
(* never expire before the session.                                        *)
THEOREM ChainsAreSound == Spec => []Lineage
<1>1. IInv => Lineage
  BY DEF IInv
<1> QED
  BY <1>1, Invariance, PTL

(* What the audit trail says of sessions is true of the tables.            *)
THEOREM AuditClaimsHold == Spec => []AuditIsTruthful
<1>1. IInv => AuditIsTruthful
  BY DEF IInv
<1> QED
  BY <1>1, Invariance, PTL
===============================================================================
