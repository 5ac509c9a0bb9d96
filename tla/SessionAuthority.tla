--------------------------- MODULE SessionAuthority ---------------------------
(***************************************************************************)
(* What the gateway promises about sessions, with no tables, tokens or     *)
(* clocks.  A request is granted the authority of a session only if that   *)
(* session was open at some instant while the request was outstanding; a   *)
(* revoked session is never opened again; and a caller is told that a      *)
(* session is closed (logout, reuse detection) only once it is.            *)
(* Sessions.tla is shown to implement this module.                         *)
(***************************************************************************)
CONSTANTS
  Request,     \* requests in flight
  Session,     \* session identifiers
  NoSession    \* "no session", for a request that has been granted nothing

VARIABLES
  status,      \* status[s]: "absent", "open" or "revoked"
  asking,      \* the requests that have arrived and are not yet decided
  granted,     \* granted[r]: the session whose authority r acts under
  closed       \* sessions some caller has been told are closed

vars == <<status, asking, granted, closed>>

Init ==
  /\ status  = [s \in Session |-> "absent"]
  /\ asking  = {}
  /\ granted = [r \in Request |-> NoSession]
  /\ closed  = {}

(* A request arrives.                                                      *)
Ask(r) ==
  /\ r \notin asking
  /\ granted[r] = NoSession
  /\ asking' = asking \cup {r}
  /\ UNCHANGED <<status, granted, closed>>

(* A login opens a new session and acts under it.                          *)
Open(r, s) ==
  /\ r \in asking
  /\ status[s] = "absent"
  /\ status'  = [status EXCEPT ![s] = "open"]
  /\ asking'  = asking \ {r}
  /\ granted' = [granted EXCEPT ![r] = s]
  /\ UNCHANGED closed

(* The instant at which a request is accepted: the session must be open.   *)
Grant(r, s) ==
  /\ r \in asking
  /\ status[s] = "open"
  /\ asking'  = asking \ {r}
  /\ granted' = [granted EXCEPT ![r] = s]
  /\ UNCHANGED <<status, closed>>

Revoke(s) ==
  /\ status[s] = "open"
  /\ status' = [status EXCEPT ![s] = "revoked"]
  /\ UNCHANGED <<asking, granted, closed>>

(* A caller is told that s is closed; its request is over.                 *)
Confirm(r, s) ==
  /\ r \in asking
  /\ status[s] = "revoked"
  /\ closed' = closed \cup {s}
  /\ asking' = asking \ {r}
  /\ UNCHANGED <<status, granted>>

(* A request ends: refused, answered or failed.                            *)
Finish(r) ==
  /\ r \in asking \/ granted[r] # NoSession
  /\ asking'  = asking \ {r}
  /\ granted' = [granted EXCEPT ![r] = NoSession]
  /\ UNCHANGED <<status, closed>>

Next ==
  \/ \E r \in Request : Ask(r) \/ Finish(r)
  \/ \E r \in Request, s \in Session : Open(r, s) \/ Grant(r, s) \/ Confirm(r, s)
  \/ \E s \in Session : Revoke(s)

Spec == Init /\ [][Next]_vars
===============================================================================
