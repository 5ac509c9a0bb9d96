-------------------------- MODULE SessionsInvariant ---------------------------
(***************************************************************************)
(* The inductive invariant of Sessions, in named parts.  TLC checks it on  *)
(* small instances, SessionsProofs proves it for every instance.           *)
(***************************************************************************)
EXTENDS Sessions

Exists(s) == s \in Session /\ session[s].status # "absent"
Stored(t) == t \in Token /\ token[t].status # "absent"

Revoking(r) == req[r].pc \in {"revoke_family", "revoke_session", "confirm"}
Exchanging(r) == req[r].op = "refresh" /\ req[r].pc \in {"find_token", "find_session", "rotate"}

(* Which steps a request of each kind goes through.                        *)
StepOf(r) ==
  /\ req[r].op = "none"    => req[r] = Idle
  /\ req[r].op = "login"   => req[r].pc \in {"create_session", "create_token", "answer"}
  /\ req[r].op = "refresh" => Exchanging(r) \/ Revoking(r) \/ req[r].pc = "answer"
  /\ req[r].op = "logout"  => req[r].pc = "find_token" \/ Revoking(r)
  /\ req[r].op = "bearer"  => req[r].pc \in {"find_session", "serve"}

(* What a handler's local variables still say about the tables.            *)
LocalsOf(r) ==
  /\ req[r].at <= now
  /\ req[r].tok # NoToken => Stored(req[r].tok)
  /\ req[r].sid # NoSession => Exists(req[r].sid)
  /\ req[r].pc \in {"create_token", "rotate", "answer", "find_session", "serve"} \/ Revoking(r)
       => req[r].sid # NoSession
  /\ req[r].op \in {"refresh", "logout"} /\ req[r].pc # "find_token" =>
       req[r].tok # NoToken /\ token[req[r].tok].sessionId = req[r].sid
  /\ req[r].op = "refresh" /\ req[r].tok # NoToken =>
       token[req[r].tok].expiresAt <= Deadline(req[r].at)
  /\ req[r].pc = "create_token" =>
       req[r].op = "login" /\ session[req[r].sid].expiresAt = Deadline(req[r].at)
  /\ req[r].pc = "answer" =>
       /\ Stored(req[r].new) /\ token[req[r].new].sessionId = req[r].sid
       /\ req[r].op = "refresh" => Rotated(req[r].tok)
  /\ req[r].pc = "confirm" => Revoked(req[r].sid)

RowsOK ==
  /\ \A s \in Session : session[s].status = "absent" => session[s] = NoSessionRow
  /\ \A t \in Token : token[t].status = "absent" => token[t] = NoTokenRow
  /\ \A t \in Token : Stored(t) =>
       /\ Exists(token[t].sessionId)
       /\ token[t].expiresAt <= Deadline(now)

ClientsOK ==
  /\ \A t \in held : Stored(t)
  /\ \A b \in bearer : Exists(b.sid)
  /\ \A s \in closed : Revoked(s)

(* Two requests that sent the same token make it a replayed one; so does   *)
(* one that has yet to exchange a token that is already rotated.           *)
ReplaysOK ==
  /\ \A r \in Request : req[r].op = "refresh" /\ req[r].tok # NoToken => req[r].tok \in presented
  /\ \A r, q \in Request :
       r # q /\ req[r].op = "refresh" /\ req[q].op = "refresh" /\ req[r].tok # NoToken
         /\ req[r].tok = req[q].tok => req[r].tok \in replayed
  /\ \A t \in Token : Rotated(t) => t \in presented
  /\ \A r \in Request : Exchanging(r) /\ req[r].tok # NoToken /\ Rotated(req[r].tok)
       => req[r].tok \in replayed
  /\ \A r \in Request : req[r].op = "refresh" /\ Revoking(r) => req[r].tok \in replayed

HistoryOf(r) ==
  /\ req[r].late =>
       /\ ~Accepted(r)
       /\ \/ req[r].op = "bearer" /\ Revoked(req[r].sid)
          \/ req[r].op = "refresh" /\ req[r].tok # NoToken /\ Revoked(token[req[r].tok].sessionId)
  /\ req[r].spent =>
       /\ req[r].op = "refresh" /\ req[r].tok # NoToken /\ Rotated(req[r].tok)
       /\ req[r].pc = "find_token" \/ Revoking(r)

SlotOK(r) == StepOf(r) /\ LocalsOf(r) /\ HistoryOf(r)

(* The inductive invariant: what the handlers rely on between two awaits,  *)
(* from which every safety property of Sessions follows.                   *)
IInv ==
  /\ TypeOK
  /\ \A r \in Request : SlotOK(r)
  /\ RowsOK
  /\ ClientsOK
  /\ ReplaysOK
  /\ Lineage
  /\ NoFalseAlarm
  /\ AuditIsTruthful

(* The inductive invariant behind ForksNeedReplay, beside IInv: a login    *)
(* that is about to store its first token is alone with its session.       *)
Opening(r) == req[r].pc = "create_token"

FInv ==
  /\ ForksNeedReplay
  /\ \A r \in Request : Opening(r) => \A t \in Token : token[t].sessionId # req[r].sid
  /\ \A r, q \in Request : r # q /\ Opening(r) /\ Opening(q) => req[r].sid # req[q].sid
===============================================================================
