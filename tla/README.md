# A formal model of saas-auth-gateway

TLA+ specifications of the gateway's server code, the TLC runs that check them
on small instances, and TLAPS proofs of the main results for every instance.
Paths are relative to the repository; the server is under `src/`, the schema
and the seed under `prisma/`.

## 1. The system

A Fastify server on one Node process (or several behind one database). All state
that outlives a request is in Postgres, reached through Prisma; every handler
is an `async` function, and handlers of different requests interleave at every
`await`. Only `refreshTokens.rotate` and `roles.replacePermissions` run several
statements in a transaction; everything else is one statement at a time.

| Component | State | Operations | Hard part |
|---|---|---|---|
| Registration and password check (`modules/auth/application/register-user.ts`, first half of `login-with-password.ts`) | `tenants`, `users`, `credentials` | register, check a password | look-up before insert; user and credential written separately; tenant, user and credential read separately |
| Sessions and refresh tokens (second half of `login-with-password.ts`, `rotate-refresh-token.ts`, `logout.ts`) | `sessions`, `refresh_tokens` | login, refresh, logout | rotation races rotation, reuse detection and logout; two-statement revocation; lost replies |
| Bearer authentication (`infra/http/hooks/authenticate.ts`, `infra/crypto/jwt-issuer.ts`) | reads `sessions`, `api_keys` | resolve a principal | what was checked may no longer hold when the handler runs |
| Guards (`require-permission.ts`, `tenant-scope.ts`) | reads `roles`, `user_roles` | permission and tenant check | permissions are merged over all tenants, so isolation rests on assignments |
| Roles (`modules/rbac`) | `roles`, `role_permissions`, `user_roles` | create, assign, unassign, list | look-up before insert; checks several awaits before the write |
| API keys (`modules/api-keys`) | `api_keys` | mint, list, get, revoke, touch | the unawaited update of `lastUsedAt`; revocation by id |
| Audit trail (`infra/audit`, `modules/audit`) | `audit_logs` | record (failures swallowed), list | written after the fact, in a statement of its own |
| Pagination (`core/shared/pagination.ts`, `page-builder.ts`) | a cursor held by the client | next page | rows come between pages, commit late, and share a `createdAt` |
| Dashboard (`modules/dashboard`) | reads five tables | overview | no common snapshot |
| Seed (`prisma/seed.ts`) | tenant, roles, permissions, admin | bring roles up to date, create what is missing | dies half way and is run again; runs overlap |
| Keys and secrets (`config/env.ts`, `container.ts`, `infra/crypto`) | signing keys, issuer, audience and hash secrets of a process | sign, verify, publish, hash | what one process signed or hashed is presented to another, of another environment |
| Lifecycle (`main.ts`, `app.ts`) | the process | start, refuse to start, stop, crash | rolling restarts |

How they interact: the routes call the use cases, which share nothing but the
tables. Login is Accounts followed by Sessions in one handler. A tenant route
runs `authenticate`, then `requirePermission`, then `assertTenantAccess`, then
its use case. Every use case ends with `audit.record`, which is awaited and
never throws.

What would make each component correct: one user per address and a login that
works once it was confirmed (registration); a revoked session that nobody gets
anything from any more, a rotated token that is never exchanged later, no false
alarm (sessions); nothing done by who was not permitted at some instant of the
request (guards, roles); keys that stay revoked (API keys); a trail that claims
only what happened (audit); each row once and none skipped (pagination); counts
that hold for what did not change meanwhile (dashboard); roles that are never
empty during an upgrade and a rerun that completes what a crash left open
(seed); replicas that accept the tokens of each other, and keys and secrets
whose rotation loses nothing that it need not (keys and secrets).

## 2. The modules

| Module | What it is |
|---|---|
| `SessionAuthority` | abstract: what the gateway promises about sessions, without tables, tokens or clocks |
| `Sessions` | login from the verified password on, refresh, logout, the session check of bearer requests |
| `SessionsInvariant` | its inductive invariants `IInv`, in named parts, and `FInv` |
| `SessionsProofs` | `Spec => []IInv` and the safety properties |
| `SessionsRefinement` | `TokenRowsSettle`; `Sessions` implements `SessionAuthority`; revocations complete |
| `SessionsForks` | `ForksNeedReplay`, `OrphansAreUnheld`, `SessionRowsSettle` |
| `Membership` | abstract: what the gateway promises about accounts, without look-ups, rows or statements |
| `Accounts` | registration, login up to the verified password; its invariant `IInv` at the end |
| `AccountsProofs` | `Spec => []IInv` and the safety properties; `Accounts` implements `Membership` |
| `TenantAuthority` | abstract: what the gateway promises about roles, assignments, keys and their audit trail, without guards, look-ups or statements |
| `Access` | permission and key guards, roles, assignments, API keys; its invariant `IInv` at the end |
| `AccessProofs` | `Spec => []IInv`, the safety and action properties; `Access` implements `TenantAuthority` |
| `Reads` | lists walked by cursor and the overview, among writers; `IInv` at the end |
| `ReadsProofs` | `Spec => []IInv` and the safety and action properties |
| `Seed` | overlapping runs of the seed script; `IInv` at the end |
| `SeedProofs` | `Spec => []IInv`, the safety properties; waits end, and so do runs |
| `Deployment` | processes, environments, keys and secrets; `IInv` at the end |
| `DeploymentProofs` | `Spec => []IInv` and the safety properties |
| `MCSessions`, `MCAccounts`, `MCAccess`, `MCReads`, `MCDeployment` | instances for TLC (`Seed` needs none) |

Conventions shared by the modules:

* **A step is one database statement, or one transaction, with the code up to
  the next `await`.** Postgres runs each statement atomically, and nothing
  else of what a handler does between two awaits is visible outside of it. `rotate`
  is one step: a reader at READ COMMITTED sees both of its statements or none.
  Its `update` is by id, so that of two transactions on one row the second
  waits and then overwrites, which is what two steps in sequence do.
* `req[r]` holds the local variables of the handler in slot `r`, `pc` the
  statement it is about to run; a slot is reused when its request ends, so the
  number of slots bounds how many requests overlap, not how many there are.
  What `req[r]` keeps across a step is what the code keeps in a local across an
  `await`, and can be as stale as there.
* `Fail(r)`: a call rejects, or the process dies; the request is gone and what
  it committed stays. It needs `MayFail`, except where the bounded tables are
  full. A lost reply is a choice of the step that sends it. `Record` is the
  audit sink: the row is written or the failure swallowed (in Accounts, where a
  property depends on it, only when `MayLose`).
* The clock `now` advances by `Tick` and never goes back; handlers of different
  processes are taken to read the same clock. Times are in units of the
  model; deadlines are compared as the code does (`<=` means expired).
* History variables (`presented`, `replayed`, `closed`, `confirmed`, `refused`,
  `permitted`, `owed`, `got`, `again`, and the fields `late`, `spent`, `barred`,
  `entitled`, `damaged`, `there`, `gone`, `before`) record
  the past for the properties; no guard reads them.
* A *slip* is a definition with a plausible mistake, kept just before the
  definition it spoils. No action uses it; put in its place, it must make TLC
  report the property listed beside it in `PROJECT.json` ("mutants").

### Sessions

| Source | Model |
|---|---|
| `login-with-password.ts:91-142` | `LoginBegin`, `LoginCreateSession`, `LoginCreateToken`, `Answer` |
| `rotate-refresh-token.ts:45-70` | `RefreshBegin` (arrival, clock), `RefreshFind` (`findByHash` and the four outcomes) |
| `rotate-refresh-token.ts:51-66` | `RevokeFamily`, `RevokeSession`, `Confirm`, shared with logout |
| `rotate-refresh-token.ts:72-119` | `RefreshSession`, `RefreshRotate`, `Answer` |
| `logout.ts:28-49` | `LogoutBegin`, `LogoutFind`, then the three shared steps |
| `authenticate.ts:66-82`, `jwt-issuer.ts` | `AuthBegin` (signature and deadline), `AuthSession`, `Serve` |

A token row stands for its secret. `revokedAt`/`revokedReason` are `status`;
`rotatedAt`/`replacedById`, always written together, are `replacedBy`.
`familyId` is drawn with the session row and is as unique, so it is
represented by the session's id. Signing an access token touches no shared
state and belongs to `Answer`, so the modelled deadline of an access token is
at most later than the real one. The session that logout reads fills columns of the
audit row only. Clients send any token that any reply delivered, in any order
and as often as they like, or garbage (`NoToken`).

### Accounts

Registration and the first half of login, with an operator who suspends tenants
and disables or locks users at the database (no code of the repository does, so
`Suspend`, `Disable` are external; they are one-way). `Normalized` is
`Email.create` on the addresses that the route schema lets through: callers
may spell one address in several ways. A stored hash stands for the password:
`verify` succeeds on the right one only. An insert that meets the unique key
`(tenantId, emailNormalized)` fails, and what the error handler does not know is answered 500.

`Membership` keeps one account per tenant and address: claimed by one registration, for ever, and
given its password by that one. A login is admitted, meets the account and
matches the password at three instants, as the code reads three tables; it is
turned away only for what was so at one of them, and a caller is told only
what the request came to. Under the mapping at the end of `Accounts` an account is the row of its address
with its credential, the claim is the insert, and a look-up that finds the address free is
not seen: what it saw may be false before the insert. Nothing but the request that is
answered writes to the trail, and the row says what it was told.

### Access

A user's principal is taken as authenticated (Sessions' business); an API key is
looked up, its `lastUsedAt` update sent off into `touching` and applied, in any
order, by `Touch`. The tenant row that `CreateRole` and `CreateApiKey` read is
not a step: the principal's tenant exists and no code deletes one. The
`Catalog` is cut down to the permissions of the modelled routes. The audit row of a
change is written by `Answer`; since no statement here reads the trail, the model
keeps only the row that the last step wrote (`wrote`). The seed has
stored one owner role per tenant (`SeedRole`, `SeedGrant`). `Route` bounds
which routes callers use in an instance; between them the runs use all.

`TenantAuthority` has a request allowed at one instant, at which its principal
holds the permission, and acting at one later instant, once, on rows of its own
tenant. Under the mapping at the end of `Access`, the instant of permission is
the read of the roles or of the key row by the guard, the instant of the effect
is the one write of the handler, and all else of a handler is not seen, nor is
`lastUsedAt`. The trail then claims that effect, once, after it, or nothing where the sink
fails; it names the user who was the principal, and nobody if it was a key. What may happen in between is left as wide as the code leaves it: the
principal may have lost the permission when the effect comes.

### Reads

| Source | Model |
|---|---|
| `pagination.ts:22-25` (`normalizeLimit`) | `Normalized` |
| `page-builder.ts:17-26` (`cursorWhere`), `pagination.ts:36-54` | `Beyond`; `None` and `Broken` are the cursors that decode to nothing |
| `role.ts:51-63`, `api-key.ts:38-49`, `audit-log.ts:25-60` | `Asked`, `Matches`, `Precedes`, `FirstOf`, `WalkPage` |
| `page-builder.ts:33-45` (`buildPage`) | `NextCursor`, and the two ends of `WalkPage` |
| `get-overview.ts:29-47` | `OverviewBegin`, `OverviewRead` per statement, `Counted`, `Newest` |

A walk is the client's loop over one list with one set of filters; nothing of
it is kept by the server. The filters of the audit list are one column (`Tag`)
and the interval. An insert is stamped when it starts (`Insert`) and seen when
it commits (`Commit`), so a row may turn up behind a cursor; ids are compared as
numbers, in an order unrelated to the time. No code deletes a row of these
tables. The history variable `owed` says what a walk must return: what matched
and was visible when it began, and what was committed ahead of its cursor
since. A row committed behind the cursor is not owed and not returned: that is
as much as a cursor can promise.

### Seed

One action per statement of `prisma/seed.ts`, and of `RegisterUser` where the
script calls it. `replacePermissions` is `Clear` (the delete, which waits while
another transaction has deleted the same rows) and `Fill` (insert and commit);
what other scripts see of the role changes at the commit only. A script that waited finds
its rows gone, does not see the new ones, and clashes with them on
`(roleId, permission)`: the two versions are taken to share a permission, as
two releases of one role do. `Die` is the end of the process or the failure of a
statement, and rolls an open transaction back. Scripts begin in the order of
their numbers, at any time. The admin's audit row is written and never read. The seed
makes its tenant active and nothing here suspends it.

### Deployment

| Source | Model |
|---|---|
| `env.ts:44-74` | `Accepted`; `Start` only under an accepted environment |
| `jwt-issuer.ts:30-44` | `Complete`, `Keys`, `Fresh` |
| `jwt-issuer.ts:46-72`, `:74-103`, `:105-117` | `Signed` with `Expiry`, `Verifies` with `Expired`, `Published` |
| `env.ts:19-20`, `container.ts:125-132` | the fields of `Config`: `issuer`, `audience`, the PEMs, `kid` |
| `container.ts:118-123`, `argon2-hasher.ts:24-26` | `Secret`, `Under` |
| `refresh-token-service.ts`, `api-key-service.ts` | `Hashed`, `Recognises` |
| `main.ts` | `Start`, `Stop` |

A key pair stands for what it signs and verifies; a hash for the secret that it was
made under. A token carries the issuer and audience of the process that signed it, and a verifier asks
for its own (`jwt-issuer.ts:61-62`, `:76-80`); the other claims that it asks for (`:85-91`)
are in every token that is signed. `private` and `public` are chosen separately, since the
code does not check that they belong together. Drawn pairs are not those of
any running process or token. A request is one step here: what happens inside
it is the matter of Sessions and Accounts. Processes and verifiers read one
clock, `PerSecond` readings of it make a second, and `jose` compares `exp` with the
seconds of the clock rounded down (external).

## 3. The runs

"Request = 2" means any number of requests of every kind, at most two at a time.
Two are enough for every hazard listed: each is a read and a later write of one
request with one write of another in between, and a third actor is the clock, the operator or a
late `Touch`.

| Run | Instance | Properties |
|---|---|---|
| `sessions_race` | 2 requests, 2 sessions, 3 tokens, clock to 1 (with 1 session), lifetime 2, no failures | `NoLateExchange`, `NoSecondExchange`, `NoFalseAlarm`, `Lineage`, `ForksNeedReplay`, `TokenRowsSettle` |
| `sessions_failures` | 2 requests, 1 session, 2 tokens, clock to 1, lifetime 1, failures | `IInv`, `AuditIsTruthful`, `OrphansAreUnheld`, `ImplementsAuthority` |
| `sessions_liveness` | 2 requests, 1 session, 2 tokens, fair, clock to 1, lifetime 2, no failures, no symmetry | `NoHandlerStuck`, `RevocationCompletes`, `SessionRowsSettle` |
| `sessions_fork` | violation | `RotationInvalidates` |
| `accounts_race` | 2 requests, 2 users, 2 spellings of one address, 2 passwords, failures everywhere but in the audit sink | `IInv`, `RegisteredCanLogin`, `RefusalsAreAudited`, `NoBarredLogin`, `ImplementsMembership` |
| `accounts_partial` | violation | `RegistrationIsAtomic` |
| `access_roles` | 2 requests, 2 tenants, 4 role rows, no keys | `ActsWithPermission`, `GrantsStayInTenant`, `ImplementsTenantAuthority` |
| `access_keys` | 2 requests, 2 tenants, 1 key, clock to 2, failures | `KeysSettle`, `ImplementsTenantAuthority` |
| `reads` | 1 reader, 3 rows of 2 tables, 2 tenants, 2 tags, pages of 1 and 2, clock to 1 | `IInv`, `WalkIsScan`, `CountsAreCurrent`, `RecentAreNewest`, `WalkAdvances` |
| `seed` | 3 scripts, 2 versions, 2 roles, fair, no symmetry | `IInv`, `RolesAreWhole`, `RolesAreSynced`, `OwnerIsReady`, `OneGetsThrough`, `NoScriptStuck`, `EveryRunEnds` |
| `seed_rerun` | violation | `SuccessLeavesOwner` |
| `deployment` | 2 processes, 11 environments, 1 token, 1 row, 3 drawn pairs, clock to 4 with 2 readings a second | `IInv`, `ReplicasAgree`, `LifetimeIsKept`, `NoDrawnKeyInProduction`, `SecretsSurvive` |

Why the bounds suffice to reach the interesting cases: three tokens are a login
and two rotations of one token, or a chain of two; two sessions tell a family from its neighbour;
in `sessions_failures` a lifetime of one against a clock that reaches one, and in `access_keys` against one that
reaches two, lets tokens, sessions and keys expire between any two steps. In `sessions_race` and `sessions_liveness` a
lifetime of two lets tokens be rotated after the tick as well as before it, so that rows of one session have
different deadlines, and a request that read the clock before the tick may write its row after
one that read it later: the case that the deadlines of `Lineage` are about. It takes three tokens and one
session, and its slip (`RotationAtEnd`) breaks nothing else. What two sessions are
there for needs no clock, so the constraint `OneSessionInTime`
lets the clock move only while there is one of them. Full tables stop a request as a failure would, which a real table does not: nothing depends on it. Refresh tokens
that are `held` never leave the client's hands, so every replay of old tokens is
included. Two spellings, two passwords and two users are what a race for
one address can use. In `access_roles` two role rows are
free, so that two creations of one name have room to collide, and one
of the requested permissions is not in the catalog.

A reader has no effect on the tables, so one is as good as two. Three rows and
pages of one and two give pages that end between rows of one `createdAt`, a row before,
at and behind a cursor, and a late commit on either side; the limits sent are
1 and none, which means the default of 2, and one list and one counted table cover the code, which
is the same for the others. Of three scripts one can hold a lock, one wait and one
overtake or die; two roles tell the owner's from the next, and two versions
the state before an upgrade from that after. Two processes, one of them restarted at will, are
every pair of a signer and a verifier; of three drawn pairs one is always free
when a process starts; the environments differ in
their keys with their id, issuer, audience, pepper and mode one at a time, those that
production must refuse included.

Capped, and so no more than bounds: the clock (`MaxTime`), the requests, readers, scripts and
processes at a time, and the rows and tokens. In `reads` rows are not
reused; in `deployment` they are.

Symmetry is used over request slots, rows, passwords and the spellings of one address in the safety runs only. Of the roles
and users that the seed refers to, `MCAccess` exchanges those of the two tenants
all at once (`Swap`), which maps the instance to itself.

**Fairness.** `sessions_liveness` assumes weak fairness of `Step(r)` for each
request: once its handler has begun, each call returns and the event loop
runs the continuation. That is what Node gives a handler whose database calls neither hang nor reject;
arrivals, the clock and failures get no fairness. With failures
the property does not hold: a failure between the two writes of a logout leaves
the session open.

`seed` assumes weak fairness of `Step(s)` for each script that has begun: Postgres grants
a lock when its holder ends, and the script goes on when its statement returns.
Nobody has to start a script, and death gets no fairness. `EveryRunEnds` then
rests on this: a script that waits is released both by the commit and by the
death of the one that it waits for.

Both modules also say in plain terms when a handler or a script has a statement to run
(`Ready`), and what fairness is in terms of it (`Served`): again and again there is
nothing to run, or a step is taken. `NoHandlerStuck` and `NoScriptStuck` check that `Ready` is
exactly the `ENABLED` of weak fairness, so that `Served` is `WF`. They also say what a
deadlock would break: nobody that has begun is ever without a step of its own but a
script that waits, and the one that it waits for has one.

### What the violations show

1. `sessions_fork`: two overlapping refreshes with one token both rotate it:
   the family has two live tokens and no alarm is raised
   (`ARCHITECTURE.md:222-224`). The properties that survive say how
   far it can go: `NoSecondExchange` (the second one was already in flight)
   and `ForksNeedReplay` (a client sent one token twice).
2. `accounts_partial`: a failure between the two writes of a registration leaves a user
   that can neither log in nor register again (`ARCHITECTURE.md:178-179`). The two
   writes of a logout (`logout.ts:34-35`) are as little a unit.
3. `seed_rerun`: a seed that dies between registering the admin and assigning the owner role
   leaves an admin without a role, and every later run exits with 0 and leaves it so
   (`ARCHITECTURE.md:430-431`, `README.md:63`). `OwnerIsReady` and `OneGetsThrough` say what
   does hold.

Other places where the code and its documents part, seen while modelling and not
given a run of their own:

* A rotation that overlaps a logout inserts an unrevoked token into the revoked
  family (`logout.ts:16-17` says it revokes "the entire refresh-token family").
  `NoLateExchange` shows that it is worth nothing to its holder.
* A login that names an unknown or suspended tenant throws before any call of
  `recordFailure` and leaves no audit row (`README.md:26`: "every failed login").
  `RefusalsAreAudited` holds of the others.
* A key that mints or revokes a key, or changes roles, leaves an audit row that names nobody and
  says "system": the routes hand on the id of a user only (`api-keys/http/routes.ts:97`, `ClaimOf`),
  and the actor type `api-key` (`audit/http/schemas.ts:18`) is written nowhere
  (`README.md:26-28`: "Every write ... with actor"). `ImplementsTenantAuthority` shows that all else the row says is right.
* Of two overlapping registrations of one address, the loser meets the unique key and
  gets 500, not the 409 of `test/integration/auth.test.ts:74-79`.
* `ARCHITECTURE.md:229-232` has keys rotate on a schedule with the old ones still
  published. A process has one pair and publishes that one; after a rotation, tokens
  signed before it are refused (`ReplicasAgree` is about processes of the same PEMs only, and
  says that those of another issuer or audience refuse them too).
* `loadEnv` accepts a private and a public key that do not belong together: the process
  then refuses every token that it signs. One environment of `deployment` is of this kind.

## 4. The proofs

For every set of requests, sessions, tokens, tenants, users, spellings, roles and keys, every
positive lifetime and every clock bound, with and without failures:

* `SessionsProofs`: `Invariance` (`Spec => []IInv`), and from it `TypeCorrect`,
  `LateNeverAccepted`, `ExchangedOnce`, `AlarmIsReal`, `ChainsAreSound`,
  `AuditClaimsHold`.
* `SessionsForks`: `ForksAreReplays` (`ForksNeedReplay`), `OrphansStayUnheld`
  (`OrphansAreUnheld`) and `DeadlinesStay` (`SessionRowsSettle`).
* `SessionsRefinement`: `RowsSettle` (`TokenRowsSettle`), `RevocationsComplete`
  (`RevocationCompletes`, for `~MayFail` and `Served` handlers) and `Implements`:
  `Sessions` implements `SessionAuthority` under the mapping at the end of
  `Sessions`. The linearisation point of a refresh is the read of the session,
  not the rotation: a request has been granted its session from
  `RefreshSession` (or `AuthSession`) on.
* `AccountsProofs`: `Invariance`, `TypeCorrect`, `OneAccount`,
  `ConfirmedNotRefused`, `AcceptedIsAuthentic`, `BarredNotAccepted`, and
  `RefusalsStayAudited`, under the hypothesis that the sink loses nothing (`~MayLose`),
  and `Implements`: `Accounts` implements `Membership`.
* `AccessProofs`: `Invariance`, `TypeCorrect`, `PermittedOnly`, `TenantsApart`,
  `NamesUnique`, `KeysAreSettled`, and `Implements`: `Access` implements `TenantAuthority`,
  audit rows included.
* `ReadsProofs`: `Invariance`, `TypeCorrect`, `WalksAreScans`, `CountsStayCurrent`,
  `RecentStaysNewest`, `WalksAdvance`.
* `SeedProofs`: `Invariance`, `RolesStayWhole`, `RolesGetSynced`, `OwnersAreReady`,
  `SomeScriptGetsThrough`, `WaitsAreForTheReady` (`NobodyWaitsInVain`, the half of `NoScriptStuck`
  that needs no `ENABLED`); for `Served` scripts `WaitsEnd`, and `EachRunEnds`
  (`EveryRunEnds`) if `DeathsEnd` and there are no more than three roles;
  `FewDeathsEnd`: `DeathsEnd` holds of three scripts or fewer.
* `DeploymentProofs`: `Invariance`, `TypeCorrect`, `ReplicasAlwaysAgree`,
  `LifetimesAreKept`, `ProductionKeysAreGiven`, `SecretsAlwaysSurvive`.

Assumptions: only the named ones on the constants (the null values are no
members, lifetimes are positive naturals, `Normalized` maps spellings to
addresses, failures are on or off, users, keys and roles have different ids, each user has one
home tenant, and the seed has stored one role per tenant and name and assigned roles to
users of their own tenant only; rows and scripts are numbers, the rows finitely many;
there is at least one role; the operator's key pairs are not drawn ones, and no pepper is a key id).

The argument. Few of the safety properties are inductive by themselves. `NoFalseAlarm` needs
to know that whoever is about to revoke for reuse holds a token that was
sent twice, which follows only because a token is rotated by a request that
sent it (`ReplaysOK`): a second request with the same token makes it a replayed one at its arrival.
`NoLateExchange` needs that a late request's session stays revoked through
the request's whole life (`HistoryOf`). `Lineage` needs that what a handler
still remembers of a row, several awaits after it read it, bounds the
deadline that it will write (`LocalsOf`): the successor's deadline is computed from an old reading
of the clock. `ForksNeedReplay` needs that a login about to store its first token is alone with its
session (`FInv`), and that whoever rotates a token a second time had sent it again.
`AuditIsTruthful` needs that the step before a claim left what it claims.
For Accounts, `RegisteredCanLogin` needs that no two registrations work on one user row and
that a row without a credential belongs to an unfinished registration.
`Implements` of Accounts shows each step as one of `Membership` or as none, from `IInv` before and after it:
the row of an address is unique, so that its account is well defined (`RowSeen`), a
change to one row shows in one account only (`OthersSeen`), and a handler that moves on or ends is
seen to do so (`MovesSeen`, `EndSeen`).
For Access, `ActsWithPermission` rests on `GrantsStayInTenant`: the guard merges the permissions
of a user's roles in all tenants, and sees what the user may do in this one only because no other tenant's
role was ever assigned. `Implements` rests on it in the same way. That in turn needs that the user and the role an
assignment was checked for, one and two awaits earlier, are still of the tenant
(`LocalsOf`): no code moves a row to another tenant.
For Reads, `WalkIsScan` needs that every owed row is got or still beyond the cursor
and that nothing got is beyond it (`WalkOK`). A page keeps that because the rows of a page
precede all others beyond the cursor (`PageIsFirst`, by counting the rows before
each) and the order is total, which the tie-break by id is for.
For Seed, `OneGetsThrough` needs a leader: while nobody has died, each row
that exists has a script that is past it, so that whoever fails on a row fails behind another
that goes on (`LeadOK`). `WaitsEnd` and `EachRunEnds` need that a waiting script waits
for somebody, and for one only (`LockOK`).
For Deployment, a process, a token and a hash still tell which
environment they come from (`ProcessOK`, `TokenOK`, `RowOK`), and the properties compare two
of them; `LifetimeIsKept` and `ReplicasAgree` need in addition what rounding down does to a
comparison (`Division`, `Quotients`).
Each action has a lemma that it preserves `IInv`; actions that only move a request on share one
(`LocalStep`, `MoveOn`), and `OtherSlot` disposes of the requests that did not move.

Liveness is proved from fairness in plain terms, `Served`, since `ENABLED` is beyond this
prover; that `Served` is the weak fairness of the runs is what TLC checks (`NoHandlerStuck`,
`NoScriptStuck`). The proofs chain statements: each, once reached, stays until its step is
taken, and the step leads to the next or to the end (`Hop`, with the route of a script in `After`).
Where a script waits, the chain goes through the one that it waits for, which cannot
wait itself (`HolderReleases`, `HolderClashes`).

Two things of `EveryRunEnds` the proof assumes. `DeathsEnd`: from some time on, no script
dies while others may wait for it. Without it a script could be sent back to its delete for ever by ever new
scripts that die. It holds wherever the scripts are finitely many, since each dies
once (`DiesOnce`); for three or fewer, as in the runs, that is proved (`FewDeathsEnd`). And `Roles <= 3`, the number that `SYSTEM_ROLES` has
(`core/rbac/permissions.ts:50-54`): one role follows the other, and for any number of them the
argument is an induction over a temporal formula, which is beyond this prover. `WaitsEnd` needs neither.

Only model-checked: that `Ready` is `ENABLED`, as said, which is `NoHandlerStuck` and the other half of `NoScriptStuck`.

## 5. Not modelled, and why

How argon2, RSA and HMAC compute, and how a bearer header or an API key is parsed, is computation without
shared state; only what their results depend on is modelled. Input
validation happens before any state is read. Rate limiting, headers, OpenAPI, logging
and health checks are a library's or plain I/O, and so is `app.close()`, which lets running requests
finish; a process that dies in the middle of them is `Fail` of Sessions, Accounts and Access.
`sessions.revokeFamily`, `refreshTokens.revokeById`, `roles.delete` and `auditLogs.count` are called by no
code. The texts of errors and audit metadata are left out. Audit rows are read back by the list and the
overview only, which Reads models with rows of any kind. That a row which commits behind a cursor is left out of the
walk, and that the counts of one overview may be of different instants, is what the code does and no document denies:
`WalkIsScan` and `CountsAreCurrent` excuse the one and allow the other.

Accounts, Sessions and Access are not composed. Refresh and logout read and write neither users nor tenants
nor roles, and registration and the guards no session: the modules share no variable
that one writes and another reads, apart from the hand-over of a
verified user inside one login, and the principal that the guards take as given. A disabled user keeps
refreshing until the session's deadline, which `SessionRowsSettle` shows does not move.

## 6. What could come next

1. Login as one handler, Accounts followed by Sessions, once any code reads users or tenants
   after the password was verified.
2. A second instance of `reads` with two lists walked at once, if the lists ever come to share a cursor format
   with something that deletes rows.
3. A `Deployment` with clocks that differ between processes, should the verifier be given a tolerance.
