------------------------------ MODULE Deployment ------------------------------
(***************************************************************************)
(* Processes of the gateway and what each makes of its environment: the    *)
(* keys it signs and verifies access tokens with, the issuer and audience  *)
(* that it names in them and asks for, the key it publishes, and the       *)
(* secrets it hashes passwords, refresh tokens and API keys with.          *)
(*                                                                         *)
(* A process reads the environment once, when it starts.  What it signs    *)
(* and hashes outlives it, and is presented to processes that were started *)
(* later, or under another environment, as in a rolling restart.           *)
(***************************************************************************)
EXTENDS Naturals

CONSTANTS
  Process,
  Config,      \* the environments that operators deploy, right or wrong
  Pair,        \* RSA key pairs that operators make; a PEM names its pair
  Drawn,       \* key pairs that processes draw when they start
  Issuer, Audience, Kid, Pepper,
  Strong,      \* the peppers of 16 characters or more
  Token, Row,  \* slots for what has been signed, and for what has been hashed
  AccessTtl,   \* JWT_ACCESS_TTL_SECONDS
  PerSecond,   \* readings of the clock in a second
  MaxTime,     \* bound on the clock
  None

Mode == {"development", "production"}

ASSUME PairAssumption == Pair \cap Drawn = {} /\ None \notin Pair \cup Drawn \cup Pepper \cup Kid
ASSUME PepperAssumption == Strong \subseteq Pepper /\ Pepper \cap Kid = {}
ASSUME TimeAssumption == AccessTtl \in Nat \ {0} /\ PerSecond \in Nat \ {0} /\ MaxTime \in Nat
ASSUME ConfigAssumption ==
  Config \subseteq [mode : Mode, private : Pair \cup {None}, public : Pair \cup {None},
                    issuer : Issuer, audience : Audience, kid : Kid,
                    pepper : Pepper \cup {None}]

VARIABLES
  now,      \* the clock of all processes
  env,      \* the environment that the next process to start will read
  process,  \* the running processes
  token,    \* access tokens in the hands of clients
  row       \* hashes in the database

vars == <<now, env, process, token, row>>

Kind == {"password", "refresh_token", "api_key"}

Init ==
  /\ now = 0
  /\ env \in Config
  /\ process = [p \in Process |-> None]
  /\ token = [t \in Token |-> None]
  /\ row = [w \in Row |-> None]

-------------------------------------------------------------------------------
(* What a process makes of its environment.  A slip is the definition that *)
(* follows it with a plausible mistake, which no action uses.              *)

Complete(c) == c.private # None /\ c.public # None

(* Slip: one of the PEMs will do.                                          *)
AcceptedWithOnePem(c) ==
  c.mode = "production" => c.pepper \in Strong /\ (c.private # None \/ c.public # None)

(* EnvSchema.superRefine; loadEnv throws on what it does not accept.       *)
Accepted(c) == c.mode = "production" => c.pepper \in Strong /\ Complete(c)

(* The key pairs that are not in use yet.                                  *)
Fresh ==
  Drawn \ ({process[p].private : p \in {q \in Process : process[q] # None}}
           \cup {token[t].key : t \in {u \in Token : token[u] # None}})

(* Slip: the PEMs are for production only.                                 *)
KeysByMode(c) ==
  IF c.mode = "production" THEN {<<c.private, c.public>>} ELSE {<<d, d>> : d \in Fresh}

(* The constructor of JwtIssuer: both PEMs, which need not belong together,*)
(* or a pair of its own.                                                   *)
Keys(c) == IF Complete(c) THEN {<<c.private, c.public>>} ELSE {<<d, d>> : d \in Fresh}

(* Slip: the key id is taken though there is a pepper.                     *)
SecretOfKid(c) == c.kid

(* PASSWORD_PEPPER || JWT_KEY_ID: for refresh tokens and API keys.         *)
Secret(c) == IF c.pepper # None THEN c.pepper ELSE c.kid

(* Argon2Hasher seasons passwords with the pepper, or not at all.          *)
Under(kind, c) == IF kind = "password" THEN c.pepper ELSE Secret(c)

(* Seconds on the clock, rounded down.                                     *)
Seconds(at) == at \div PerSecond

(* Slip: iat is rounded up.                                                *)
ExpiryRoundedUp(at) == (at + PerSecond - 1) \div PerSecond + AccessTtl

(* exp, from iat = floor(now); the reply announces exp as expiresAt.       *)
Expiry(at) == Seconds(at) + AccessTtl

(* jwtVerify compares exp with the seconds of the clock, rounded down.     *)
Expired(t) == token[t].exp <= Seconds(now)

Running(p) == process[p] # None

(* verifyAccessToken at p: the signature, whatever kid the header names,   *)
(* the issuer, the audience and the deadline.  The claims it also asks for *)
(* are in every token that a process signs.                                *)
Verifies(p, t) ==
  /\ token[t].key = process[p].public
  /\ token[t].issuer = process[p].env.issuer /\ token[t].audience = process[p].env.audience
  /\ ~Expired(t)

(* jwks at p.                                                              *)
Published(p) == [kid |-> process[p].env.kid, key |-> process[p].public]

(* p finds the row of a secret by its hash, the one stored in w.           *)
Recognises(p, w) == row[w].under = Under(row[w].kind, process[p].env)

(* What p signs and hashes now; env and at are remembered for properties.  *)
Signed(p) ==
  [key |-> process[p].private, kid |-> process[p].env.kid,
   issuer |-> process[p].env.issuer, audience |-> process[p].env.audience,
   exp |-> Expiry(now), at |-> now, env |-> process[p].env]
Hashed(p, kind) ==
  [kind |-> kind, under |-> Under(kind, process[p].env), env |-> process[p].env]

-------------------------------------------------------------------------------
(* The operator changes the environment; running processes do not see it.  *)
Deploy(c) ==
  /\ c # env
  /\ env' = c
  /\ UNCHANGED <<now, process, token, row>>

(* bootstrap: loadEnv, buildContainer, listen.  A process that does not    *)
(* accept its environment ends before it listens.                          *)
Start(p) ==
  /\ ~Running(p)
  /\ Accepted(env)
  /\ \E keys \in Keys(env) :
       process' = [process EXCEPT ![p] = [env |-> env, private |-> keys[1], public |-> keys[2]]]
  /\ UNCHANGED <<now, env, token, row>>

(* SIGTERM, SIGINT or a crash: a process keeps nothing.                    *)
Stop(p) ==
  /\ Running(p)
  /\ process' = [process EXCEPT ![p] = None]
  /\ UNCHANGED <<now, env, token, row>>

(* A password is set, or an API key minted, by p.                          *)
Store(p, w, kind) ==
  /\ Running(p)
  /\ row' = [row EXCEPT ![w] = Hashed(p, kind)]
  /\ UNCHANGED <<now, env, process, token>>

(* The end of a login, whatever password it was: p mints a refresh token   *)
(* and signs an access token.                                              *)
Login(p, w, t) ==
  /\ Running(p)
  /\ row' = [row EXCEPT ![w] = Hashed(p, "refresh_token")]
  /\ token' = [token EXCEPT ![t] = Signed(p)]
  /\ UNCHANGED <<now, env, process>>

(* A refresh that reaches p, of a token that some process minted: it is    *)
(* found, and another takes its place; otherwise nothing happens.          *)
Refresh(p, w, t) ==
  /\ Running(p)
  /\ row[w] # None /\ row[w].kind = "refresh_token" /\ Recognises(p, w)
  /\ row' = [row EXCEPT ![w] = Hashed(p, "refresh_token")]
  /\ token' = [token EXCEPT ![t] = Signed(p)]
  /\ UNCHANGED <<now, env, process>>

Tick ==
  /\ now < MaxTime
  /\ now' = now + 1
  /\ UNCHANGED <<env, process, token, row>>

Next ==
  \/ Tick
  \/ \E c \in Config : Deploy(c)
  \/ \E p \in Process :
       \/ Start(p) \/ Stop(p)
       \/ \E w \in Row, kind \in {"password", "api_key"} : Store(p, w, kind)
       \/ \E w \in Row, t \in Token : Login(p, w, t) \/ Refresh(p, w, t)

Spec == Init /\ [][Next]_vars

-------------------------------------------------------------------------------
(* The processes, the tokens and the rows have their types.                *)
Time == 0..MaxTime
ProcessState == [env : Config, private : Pair \cup Drawn, public : Pair \cup Drawn]
TokenState ==
  [key : Pair \cup Drawn, kid : Kid, issuer : Issuer, audience : Audience,
   exp : 0..(MaxTime + AccessTtl), at : Time, env : Config]
RowState == [kind : Kind, under : Pepper \cup Kid \cup {None}, env : Config]

TypeOK ==
  /\ now \in Time
  /\ env \in Config
  /\ process \in [Process -> ProcessState \cup {None}]
  /\ token \in [Token -> TokenState \cup {None}]
  /\ row \in [Row -> RowState \cup {None}]

(* However processes are restarted and environments changed, an access     *)
(* token that was signed with the operator's PEMs is accepted, until the   *)
(* expiry that its reply announced, by every process started with the same *)
(* matching PEMs, issuer and audience, and by none that was started with   *)
(* another issuer or audience.  A process of the same PEMs and key id      *)
(* publishes the key for other services to verify the token with.          *)
ReplicasAgree ==
  \A p \in Process, t \in Token : Running(p) /\ token[t] # None =>
    LET c == process[p].env  e == token[t].env IN
    /\ Complete(c) /\ c.private = c.public /\ c.private = e.private /\ c.public = e.public
    => /\ Verifies(p, t) <=>
            /\ c.issuer = e.issuer /\ c.audience = e.audience
            /\ now < token[t].exp * PerSecond
       /\ c.kid = e.kid => Published(p) = [kid |-> token[t].kid, key |-> token[t].key]

(* A token is accepted for no longer than the configured lifetime, to the  *)
(* reading of the clock, and loses less than a second of it to rounding.   *)
LifetimeIsKept ==
  \A t \in Token : token[t] # None =>
    LET age == now - token[t].at IN
    /\ age >= AccessTtl * PerSecond => Expired(t)
    /\ age <= (AccessTtl - 1) * PerSecond => ~Expired(t)

(* Nothing that production signs or publishes comes from a key pair that a *)
(* process drew for itself and takes with it when it stops.                *)
NoDrawnKeyInProduction ==
  /\ \A p \in Process : Running(p) /\ process[p].env.mode = "production" =>
       process[p].private \in Pair /\ process[p].public \in Pair
  /\ \A t \in Token : token[t] # None /\ token[t].env.mode = "production" =>
       token[t].key \in Pair

(* Passwords, refresh tokens and API keys survive restarts and a rotation  *)
(* of the signing keys and their id: in production, for as long as the     *)
(* pepper stays; elsewhere the id must stay too, but for passwords.        *)
SecretsSurvive ==
  \A p \in Process, w \in Row : Running(p) /\ row[w] # None =>
    LET c == process[p].env  e == row[w].env IN
    /\ c.pepper = e.pepper
    /\ \/ c.mode = "production" /\ e.mode = "production"
       \/ c.kid = e.kid
       \/ row[w].kind = "password"
    => Recognises(p, w)

(* The inductive invariant: what a running process, a token and a hash     *)
(* still tell of the environment they come from.                           *)
ProcessOK(p) ==
  LET c == process[p].env IN
  /\ Accepted(c)
  /\ Complete(c) => process[p].private = c.private /\ process[p].public = c.public
TokenOK(t) ==
  /\ Accepted(token[t].env)
  /\ token[t].kid = token[t].env.kid
  /\ token[t].issuer = token[t].env.issuer /\ token[t].audience = token[t].env.audience
  /\ Complete(token[t].env) => token[t].key = token[t].env.private
  /\ token[t].at <= now
  /\ token[t].exp = Expiry(token[t].at)
RowOK(w) ==
  /\ Accepted(row[w].env)
  /\ row[w].under = Under(row[w].kind, row[w].env)

IInv ==
  /\ TypeOK
  /\ \A p \in Process : Running(p) => ProcessOK(p)
  /\ \A t \in Token : token[t] # None => TokenOK(t)
  /\ \A w \in Row : row[w] # None => RowOK(w)
===============================================================================
