--------------------------- MODULE DeploymentProofs ---------------------------
(***************************************************************************)
(* The properties of Deployment, for any processes, environments and       *)
(* clock.  IInv says what a running process, a token and a hash still tell *)
(* of the environment that they come from; the properties compare two of   *)
(* them.                                                                   *)
(***************************************************************************)
EXTENDS Deployment, TLAPS

(* What is known of a quotient.                                            *)
LEMMA Division ==
  ASSUME NEW a \in Nat, NEW b \in Nat \ {0}
  PROVE  a \div b \in Nat /\ (a \div b) * b <= a /\ a < ((a \div b) + 1) * b
OBVIOUS

(* Comparing seconds is comparing readings of the clock.                   *)
LEMMA Quotients ==
  ASSUME NEW q \in Nat, NEW b \in Nat \ {0}, NEW e \in Nat, NEW n \in Nat,
         q * b <= n, n < (q + 1) * b
  PROVE  e <= q <=> e * b <= n
<1>1. CASE e <= q
  OBVIOUS
<1>2. CASE e > q
  OBVIOUS
<1> QED BY <1>1, <1>2

(* A fraction of a number is no more than the number.                      *)
LEMMA QuotientBound ==
  ASSUME NEW a \in Nat, NEW b \in Nat \ {0}
  PROVE  a \div b <= a
<1>1. a \div b \in Nat /\ (a \div b) * b <= a
  BY Division
<1>2. ASSUME NEW q \in Nat, q * b <= a PROVE q <= a
  BY <1>2
<1> QED BY <1>1, <1>2

(* A token is expired once the clock has reached its announced expiry.     *)
LEMMA ExpiryIsAnnounced ==
  ASSUME IInv, NEW t \in Token, token[t] # None
  PROVE  /\ token[t].exp \in Nat /\ now \in Nat
         /\ Expired(t) <=> token[t].exp * PerSecond <= now
<1>1. token[t] \in TokenState
  BY DEF IInv, TypeOK
<1>2. token[t].exp \in Nat /\ now \in Nat
  BY <1>1, TimeAssumption DEF TokenState, IInv, TypeOK, Time
<1>3. now \div PerSecond \in Nat /\ (now \div PerSecond) * PerSecond <= now
      /\ now < ((now \div PerSecond) + 1) * PerSecond
  BY <1>2, Division, TimeAssumption
<1>4. token[t].exp <= now \div PerSecond <=> token[t].exp * PerSecond <= now
  BY <1>2, <1>3, Quotients, TimeAssumption
<1> QED
  BY <1>2, <1>4 DEF Expired, Seconds

(* The environments have their types.                                      *)
LEMMA ConfigType ==
  ASSUME NEW c \in Config
  PROVE  /\ c.mode \in Mode /\ c.private \in Pair \cup {None} /\ c.public \in Pair \cup {None}
         /\ c.issuer \in Issuer /\ c.audience \in Audience
         /\ c.kid \in Kid /\ c.pepper \in Pepper \cup {None}
BY ConfigAssumption

(* The keys of a process that starts.                                      *)
LEMMA KeysType ==
  ASSUME NEW c \in Config, NEW keys \in Keys(c)
  PROVE  /\ keys[1] \in Pair \cup Drawn /\ keys[2] \in Pair \cup Drawn
         /\ Complete(c) => keys[1] = c.private /\ keys[2] = c.public
BY ConfigType DEF Keys, Complete, Fresh

(* What a running process signs and hashes.                                *)
LEMMA SignedOK ==
  ASSUME IInv, NEW p \in Process, Running(p)
  PROVE  /\ Signed(p) \in TokenState /\ Accepted(Signed(p).env)
         /\ Signed(p).kid = Signed(p).env.kid
         /\ Signed(p).issuer = Signed(p).env.issuer /\ Signed(p).audience = Signed(p).env.audience
         /\ Complete(Signed(p).env) => Signed(p).key = Signed(p).env.private
         /\ Signed(p).at = now /\ Signed(p).exp = Expiry(now)
<1>1. process[p] \in ProcessState /\ ProcessOK(p) /\ now \in Time /\ now \in Nat
  BY TimeAssumption DEF IInv, TypeOK, Running, Time
<1>2. process[p].env \in Config /\ process[p].private \in Pair \cup Drawn
  BY <1>1 DEF ProcessState
<1>3. /\ process[p].env.kid \in Kid
      /\ process[p].env.issuer \in Issuer /\ process[p].env.audience \in Audience
  BY <1>2, ConfigType
<1>4. Expiry(now) \in 0..(MaxTime + AccessTtl)
  <2>1. now \div PerSecond \in Nat /\ now \div PerSecond <= now
    BY <1>1, Division, QuotientBound, TimeAssumption
  <2> QED
    BY <1>1, <2>1, TimeAssumption DEF Expiry, Seconds, Time
<1> QED
  BY <1>1, <1>2, <1>3, <1>4 DEF Signed, TokenState, ProcessOK

(* A hash that is stored.                                                 *)
LEMMA HashedOK ==
  ASSUME IInv, NEW p \in Process, Running(p), NEW kind \in Kind
  PROVE  /\ Hashed(p, kind) \in RowState /\ Accepted(Hashed(p, kind).env)
         /\ Hashed(p, kind).under = Under(Hashed(p, kind).kind, Hashed(p, kind).env)
<1>1. process[p] \in ProcessState /\ ProcessOK(p)
  BY DEF IInv, TypeOK, Running
<1>2. process[p].env \in Config
  BY <1>1 DEF ProcessState
<1>3. Under(kind, process[p].env) \in Pepper \cup Kid \cup {None}
  BY <1>2, ConfigType DEF Under, Secret
<1> QED
  BY <1>1, <1>2, <1>3 DEF Hashed, RowState, ProcessOK

(* IInv holds before any process runs.                                     *)
LEMMA InitIInv == Init => IInv
<1> SUFFICES ASSUME Init PROVE IInv
  OBVIOUS
<1>1. TypeOK
  BY TimeAssumption DEF Init, TypeOK, Time
<1>2. \A p \in Process : ~Running(p)
  BY DEF Init, Running
<1> QED
  BY <1>1, <1>2 DEF Init, IInv

(* A step that only changes what is running keeps IInv if each process is  *)
(* as its environment says.                                                *)
LEMMA ProcessStep ==
  ASSUME IInv, UNCHANGED <<now, env, token, row>>,
         process' \in [Process -> ProcessState \cup {None}],
         \A p \in Process : Running(p)' => ProcessOK(p)'
  PROVE  IInv'
<1>1. TypeOK'
  BY DEF IInv, TypeOK
<1>2. \A t \in Token : token'[t] # None => TokenOK(t)'
  BY DEF IInv, TokenOK
<1>3. \A w \in Row : row'[w] # None => RowOK(w)'
  BY DEF IInv, RowOK
<1> QED
  BY <1>1, <1>2, <1>3 DEF IInv

(* A process that starts is as its environment says.                       *)
LEMMA StartStep ==
  ASSUME IInv, NEW p \in Process, Start(p)
  PROVE  IInv'
<1>1. PICK keys \in Keys(env) :
        process' = [process EXCEPT ![p] = [env |-> env, private |-> keys[1], public |-> keys[2]]]
  BY DEF Start
<1> DEFINE new == [env |-> env, private |-> keys[1], public |-> keys[2]]
<1>2. env \in Config /\ process \in [Process -> ProcessState \cup {None}]
  BY DEF IInv, TypeOK
<1>3. /\ keys[1] \in Pair \cup Drawn /\ keys[2] \in Pair \cup Drawn
      /\ Complete(env) => keys[1] = env.private /\ keys[2] = env.public
  BY <1>2, KeysType
<1>4. new \in ProcessState
  BY <1>2, <1>3 DEF ProcessState
<1>5. /\ process' \in [Process -> ProcessState \cup {None}] /\ process'[p] = new
      /\ \A q \in Process : q # p => process'[q] = process[q]
  BY <1>1, <1>2, <1>4
<1>6. ProcessOK(p)'
  <2>1. process'[p].env = env /\ process'[p].private = keys[1] /\ process'[p].public = keys[2]
    BY <1>5
  <2>2. Accepted(env)
    BY DEF Start
  <2> QED
    BY <1>3, <2>1, <2>2 DEF ProcessOK
<1>7. \A q \in Process : Running(q)' => ProcessOK(q)'
  BY <1>5, <1>6 DEF IInv, Running, ProcessOK
<1>8. UNCHANGED <<now, env, token, row>>
  BY DEF Start
<1> QED
  BY <1>5, <1>7, <1>8, ProcessStep

(* A process that stops takes its part of IInv with it.                    *)
LEMMA StopStep ==
  ASSUME IInv, NEW p \in Process, Stop(p)
  PROVE  IInv'
<1>1. process \in [Process -> ProcessState \cup {None}]
  BY DEF IInv, TypeOK
<1>2. process' = [process EXCEPT ![p] = None] /\ UNCHANGED <<now, env, token, row>>
  BY DEF Stop
<1>3. /\ process' \in [Process -> ProcessState \cup {None}] /\ process'[p] = None
      /\ \A q \in Process : q # p => process'[q] = process[q]
  BY <1>1, <1>2
<1>4. \A q \in Process : Running(q)' => ProcessOK(q)'
  BY <1>3 DEF IInv, Running, ProcessOK
<1> QED
  BY <1>2, <1>3, <1>4, ProcessStep

(* A step that hashes, and perhaps signs, keeps IInv if what it writes is  *)
(* as the environment of a process says.                                   *)
LEMMA WriteStep ==
  ASSUME IInv, NEW p \in Process, Running(p), NEW kind \in Kind, NEW w \in Row,
         row' = [row EXCEPT ![w] = Hashed(p, kind)],
         UNCHANGED <<now, env, process>>,
         \/ UNCHANGED token
         \/ \E t \in Token : token' = [token EXCEPT ![t] = Signed(p)]
  PROVE  IInv'
<1>1. TypeOK
  BY DEF IInv
<1> DEFINE h == Hashed(p, kind)
<1>2. h \in RowState /\ Accepted(h.env) /\ h.under = Under(h.kind, h.env)
  BY HashedOK
<1>3. row' \in [Row -> RowState \cup {None}] /\ row'[w] = h /\ \A x \in Row : x # w => row'[x] = row[x]
  BY <1>1, <1>2 DEF TypeOK
<1>4. \A x \in Row : row'[x] # None => RowOK(x)'
  <2>1. RowOK(w)'
    BY <1>2, <1>3 DEF RowOK
  <2> QED
    BY <1>3, <2>1 DEF IInv, RowOK
<1>5. token' \in [Token -> TokenState \cup {None}] /\ \A u \in Token : token'[u] # None => TokenOK(u)'
  <2>1. CASE UNCHANGED token
    BY <1>1, <2>1 DEF IInv, TypeOK, TokenOK
  <2>2. ASSUME NEW t \in Token, token' = [token EXCEPT ![t] = Signed(p)]
        PROVE  /\ token' \in [Token -> TokenState \cup {None}]
               /\ \A u \in Token : token'[u] # None => TokenOK(u)'
    <3> DEFINE g == Signed(p)
    <3>1. /\ g \in TokenState /\ Accepted(g.env) /\ g.kid = g.env.kid
          /\ g.issuer = g.env.issuer /\ g.audience = g.env.audience
          /\ Complete(g.env) => g.key = g.env.private
          /\ g.at = now /\ g.exp = Expiry(now) /\ now \in Nat
      BY <1>1, SignedOK, TimeAssumption DEF TypeOK, Time
    <3>2. /\ token' \in [Token -> TokenState \cup {None}] /\ token'[t] = g
          /\ \A u \in Token : u # t => token'[u] = token[u]
      BY <1>1, <2>2, <3>1 DEF TypeOK
    <3> HIDE DEF g
    <3>3. TokenOK(t)'
      BY <3>1, <3>2 DEF TokenOK
    <3> QED
      BY <3>2, <3>3 DEF IInv, TokenOK
  <2> QED
    BY <2>1, <2>2
<1>6. TypeOK'
  BY <1>1, <1>3, <1>5 DEF TypeOK
<1>7. \A q \in Process : Running(q)' => ProcessOK(q)'
  BY DEF IInv, Running, ProcessOK
<1> QED
  BY <1>4, <1>5, <1>6, <1>7 DEF IInv

(* The clock and the operator touch nothing that runs or is stored.        *)
LEMMA OutsideStep ==
  ASSUME IInv, Tick \/ \E c \in Config : Deploy(c)
  PROVE  IInv'
<1>1. /\ now' \in Time /\ now <= now' /\ env' \in Config
      /\ UNCHANGED <<process, token, row>>
  BY TimeAssumption DEF IInv, TypeOK, Time, Tick, Deploy
<1>2. TypeOK'
  BY <1>1 DEF IInv, TypeOK
<1>3. \A p \in Process : Running(p)' => ProcessOK(p)'
  BY <1>1 DEF IInv, Running, ProcessOK
<1>4. ASSUME NEW t \in Token, token'[t] # None PROVE TokenOK(t)'
  <2>1. TokenOK(t) /\ token[t] \in TokenState
    BY <1>1, <1>4 DEF IInv, TypeOK
  <2>2. token[t].at <= now'
    <3>1. token[t].at \in Nat /\ now \in Nat /\ now' \in Nat /\ token[t].at <= now
      BY <1>1, <2>1, TimeAssumption DEF TokenOK, TokenState, Time, IInv, TypeOK
    <3> QED
      BY <1>1, <3>1
  <2> QED
    BY <1>1, <2>1, <2>2 DEF TokenOK
<1>5. \A w \in Row : row'[w] # None => RowOK(w)'
  BY <1>1 DEF IInv, RowOK
<1> QED
  BY <1>2, <1>3, <1>4, <1>5 DEF IInv

(* Every step keeps IInv.                                                  *)
LEMMA NextIInv == IInv /\ [Next]_vars => IInv'
<1> SUFFICES ASSUME IInv, [Next]_vars PROVE IInv'
  OBVIOUS
<1>1. CASE UNCHANGED vars
  BY <1>1 DEF vars, IInv, TypeOK, Running, ProcessOK, TokenOK, RowOK
<1>2. CASE Tick \/ \E c \in Config : Deploy(c)
  BY <1>2, OutsideStep
<1>3. ASSUME NEW p \in Process, Start(p) \/ Stop(p) PROVE IInv'
  BY <1>3, StartStep, StopStep
<1>4. ASSUME NEW p \in Process, NEW w \in Row, NEW kind \in {"password", "api_key"}, Store(p, w, kind)
      PROVE  IInv'
  BY <1>4, WriteStep DEF Store, Kind
<1>5. ASSUME NEW p \in Process, NEW w \in Row, NEW t \in Token, Login(p, w, t) \/ Refresh(p, w, t)
      PROVE  IInv'
  BY <1>5, WriteStep DEF Login, Refresh, Kind
<1> QED
  BY <1>1, <1>2, <1>3, <1>4, <1>5 DEF Next

(* IInv holds in every reachable state of every instance.                  *)
THEOREM Invariance == Spec => []IInv
BY InitIInv, NextIInv, PTL DEF Spec

(* The processes, the tokens and the rows have their types.                *)
THEOREM TypeCorrect == Spec => []TypeOK
<1>1. IInv => TypeOK
  BY DEF IInv
<1> QED
  BY <1>1, Invariance, PTL

(* A token signed with the operator's PEMs is accepted by every process    *)
(* with the same PEMs, issuer and audience, and by none with the same PEMs *)
(* alone, whatever was restarted in between.                               *)
THEOREM ReplicasAlwaysAgree == Spec => []ReplicasAgree
<1>1. ASSUME IInv, NEW p \in Process, NEW t \in Token, Running(p), token[t] # None,
             Complete(process[p].env), process[p].env.private = process[p].env.public,
             process[p].env.private = token[t].env.private,
             process[p].env.public = token[t].env.public
      PROVE  /\ Verifies(p, t) <=>
                  /\ process[p].env.issuer = token[t].env.issuer
                  /\ process[p].env.audience = token[t].env.audience
                  /\ now < token[t].exp * PerSecond
             /\ process[p].env.kid = token[t].env.kid =>
                  Published(p) = [kid |-> token[t].kid, key |-> token[t].key]
  <2>1. ProcessOK(p) /\ TokenOK(t)
    BY <1>1 DEF IInv
  <2>2. Complete(token[t].env)
    BY <1>1 DEF Complete
  <2>3. process[p].public = token[t].key
    BY <1>1, <2>1, <2>2 DEF ProcessOK, TokenOK
  <2>4. /\ token[t].exp * PerSecond \in Nat /\ now \in Nat
        /\ Expired(t) <=> token[t].exp * PerSecond <= now
    BY <1>1, ExpiryIsAnnounced, TimeAssumption
  <2> QED
    BY <2>1, <2>3, <2>4 DEF Verifies, Published, TokenOK
<1>2. IInv => ReplicasAgree
  BY <1>1 DEF ReplicasAgree
<1> QED
  BY <1>2, Invariance, PTL

(* Rounding to seconds never lengthens the life of a token, and takes less *)
(* than a second of it.                                                    *)
THEOREM LifetimesAreKept == Spec => []LifetimeIsKept
<1>1. ASSUME IInv, NEW t \in Token, token[t] # None
      PROVE  /\ now - token[t].at >= AccessTtl * PerSecond => Expired(t)
             /\ now - token[t].at <= (AccessTtl - 1) * PerSecond => ~Expired(t)
  <2>1. /\ token[t].at \in Nat /\ now \in Nat /\ token[t].exp = Seconds(token[t].at) + AccessTtl
    BY <1>1, TimeAssumption DEF IInv, TypeOK, TokenState, Time, TokenOK, Expiry
  <2>2. Expired(t) <=> token[t].exp * PerSecond <= now
    BY <1>1, ExpiryIsAnnounced
  <2> DEFINE a == token[t].at
             q == token[t].at \div PerSecond
  <2>3. q \in Nat /\ q * PerSecond <= a /\ a < (q + 1) * PerSecond
    BY <2>1, Division, TimeAssumption
  <2>4. token[t].exp = q + AccessTtl
    BY <2>1 DEF Seconds
  <2>5. token[t].exp * PerSecond = q * PerSecond + AccessTtl * PerSecond
    <3>1. ASSUME NEW x \in Nat PROVE (x + AccessTtl) * PerSecond = x * PerSecond + AccessTtl * PerSecond
      BY TimeAssumption
    <3> QED
      BY <2>3, <2>4, <3>1
  <2> HIDE DEF q, a
  <2>6. /\ (q + 1) * PerSecond = q * PerSecond + PerSecond
        /\ (AccessTtl - 1) * PerSecond = AccessTtl * PerSecond - PerSecond
        /\ q * PerSecond \in Nat /\ AccessTtl * PerSecond \in Nat
    BY <2>3, TimeAssumption
  <2>7. a \in Nat
    BY <2>1 DEF a
  <2>8. /\ now - a >= AccessTtl * PerSecond => token[t].exp * PerSecond <= now
        /\ now - a <= (AccessTtl - 1) * PerSecond => ~(token[t].exp * PerSecond <= now)
    BY <2>1, <2>3, <2>5, <2>6, <2>7, TimeAssumption
  <2> QED
    BY <2>2, <2>8 DEF a
<1>2. IInv => LifetimeIsKept
  BY <1>1 DEF LifetimeIsKept
<1> QED
  BY <1>2, Invariance, PTL

(* Production signs and publishes with the operator's keys only.           *)
THEOREM ProductionKeysAreGiven == Spec => []NoDrawnKeyInProduction
<1>1. ASSUME NEW c \in Config, Accepted(c), c.mode = "production"
      PROVE  Complete(c) /\ c.private \in Pair /\ c.public \in Pair
  BY <1>1, ConfigType DEF Accepted, Complete
<1>2. ASSUME IInv, NEW p \in Process, Running(p), process[p].env.mode = "production"
      PROVE  process[p].private \in Pair /\ process[p].public \in Pair
  <2>1. ProcessOK(p) /\ process[p].env \in Config
    BY <1>2 DEF IInv, TypeOK, Running, ProcessState
  <2> QED
    BY <1>1, <1>2, <2>1 DEF ProcessOK
<1>3. ASSUME IInv, NEW t \in Token, token[t] # None, token[t].env.mode = "production"
      PROVE  token[t].key \in Pair
  <2>1. TokenOK(t) /\ token[t].env \in Config
    BY <1>3 DEF IInv, TypeOK, TokenState
  <2> QED
    BY <1>1, <1>3, <2>1 DEF TokenOK
<1>4. IInv => NoDrawnKeyInProduction
  BY <1>2, <1>3 DEF NoDrawnKeyInProduction
<1> QED
  BY <1>4, Invariance, PTL

(* Hashes survive restarts and rotations of the signing keys.              *)
THEOREM SecretsAlwaysSurvive == Spec => []SecretsSurvive
<1>1. ASSUME IInv, NEW p \in Process, NEW w \in Row, Running(p), row[w] # None,
             process[p].env.pepper = row[w].env.pepper,
             \/ process[p].env.mode = "production" /\ row[w].env.mode = "production"
             \/ process[p].env.kid = row[w].env.kid
             \/ row[w].kind = "password"
      PROVE  Recognises(p, w)
  <2>1. ProcessOK(p) /\ process[p].env \in Config /\ RowOK(w)
    BY <1>1 DEF IInv, TypeOK, Running, ProcessState
  <2>2. process[p].env.mode = "production" => process[p].env.pepper # None
    BY <2>1, PepperAssumption, PairAssumption DEF ProcessOK, Accepted
  <2>3. Under(row[w].kind, process[p].env) = Under(row[w].kind, row[w].env)
    BY <1>1, <2>2 DEF Under, Secret
  <2> QED
    BY <2>1, <2>3 DEF Recognises, RowOK
<1>2. IInv => SecretsSurvive
  BY <1>1 DEF SecretsSurvive
<1> QED
  BY <1>2, Invariance, PTL
===============================================================================
