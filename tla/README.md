# A TLA+ model of goauth-server

goauth-server is an OAuth 2.0 authorization server in Go: HTTP handlers (gin)
call services, the services run SQL statements (sqlc, pgx) on PostgreSQL. No
service opens a transaction. Every statement is atomic by itself, a handler is
a sequence of statements, and the handlers of all requests, in one process or
in several replicas, interleave between them. A failed statement, a cancelled
request or a killed process ends a handler anywhere and leaves what it has
written. This project models that: one action per statement, any interleaving,
an end after any statement.

## The system and its inventory

| Part | Source | Module |
|---|---|---|
| token tables and statements | `internal/repository` | `Store` |
| authorization code grant | `service/auth/authorization.go` | `CodeExchange` |
| refresh token grant, replay detection | `service/auth/rotation.go` | `Rotation` |
| token revocation (RFC 7009) | `service/auth/revoke.go` | `Revocation` |
| session administration, clean-up | `service/session`, `handler/admin_lockout.go` | `Revocation` |
| sessions of direct logins and changes of password | `handler/login_handler.go`, `change_password_handler.go` | `DirectLogin` |
| bearer authentication, logout | `middleware/auth.go` | `BearerGate` |
| the above on the same tables | `api/v1/router.go` | `TokenService` |
| what they promise together | | `Credentials` |
| credentials and lockout | `service/auth/login.go` | `Lockout` |
| login of one account, forced password change | `change_password.go`, `token.go` | `Accounts` |
| client and provider registries | `service/client`, `service/provider` | `Registry` |
| provider login, callback, user upsert | `authorization.go`, `web/handler` | `ProviderLogin` |
| rate limiter | `middleware/ratelimit.go` | `RateLimiter` |
| CSRF cookie | `middleware/csrf.go` | `Csrf` |
| listings and pagination | `handler/handler.go`, the four list handlers | `Listing` |
| start-up | `app/auth-server/bootstrap.go`, `server.go` | `Bootstrap` |

`TokenService` composes the five token components, `Accounts` extends
`Lockout`, and `ProviderLogin` extends `Registry`: each of these pairs shares
rows. `MCTokenService`, `MCAccounts`, `MCProviderLogin` and `MCAdminApi` are
small instances for TLC; the modules named `*Proofs` hold the theorems.

## How state and actions correspond to the code

**Store** holds the tables as functions from identifiers to rows: `codes`,
`access`, `refresh`, `clients`, and `audit`, an append-only set. An identifier
without a row is `NoRow`; a row deleted by a clean-up is `Purged`. `jwt` holds
the claims of every signed access token, because a token exists apart from its
row. `held` is the set of tokens some caller has received. A raw token and its
hash share one identifier (SHA-256 is taken to be injective), and a family is
named by its first token. Each operator is one SQL statement with its WHERE
clause: `MarkAuthorizationCodeUsed` has no condition on `used_at` because the
UPDATE has none.

**CodeExchange, Rotation, Revocation, DirectLogin, BearerGate** each hold the
requests in flight as `ex`, `rot`, `rev`, `login` and `gate`: a function from
workers to a record with a program counter, the arguments and the locals. A
value read in one statement and used in a later one is in that record, so it is
stale exactly when the code's is. `*Fail` ends a request anywhere. Errors that
the code discards (`_ = ...`) are a disjunct in which the statement has no
effect and the request goes on. Fields and variables marked *history* (`dead`,
`grants`, `swept`, `reported`, `beside`) only record what happened, for the properties.

`DirectLogin` has the two requests that open a session without a client. A login
revokes the user's access tokens and stores its own in two statements;
`ChangePassword`, once the account's row is written, revokes the user's refresh
tokens, logs, and stores a session beside those that are there. `beside` records
which sessions were stored without ending which.

**TokenService** puts the five on one store. A configuration disables a kind of
request by giving it no workers; `AdminOps` lists the single-statement
operations in use. The clean-ups are functions that the server defines and does
not schedule; they are in the model because an operator can.

**Credentials** is what the token service promises, with no requests, clock or
failures: a code, an access token or a refresh token is issued once, ends and
never comes back; tokens are minted from ended codes; a refresh token succeeds
an ended one of the same owner and family. `TokenService!ImplementsCredentials`
instantiates it. The mapping reads a row as good, ended (revoked, used or
purged) or unissued (`CodeStatus`, `TokenStatus`), a refresh row as a node of
its family's tree (`FamilyTree`), and takes the history `grants` for the pairs
of code and token.

**Lockout** is one `users` row and the attempts in flight. `req[w].last` is
`last_failed_login_at` as the attempt first read it, which is what the window
test uses. `times` and `recent` are history: when the counted failures happened
and when they were decided upon.

**Accounts** continues the attempts of `Lockout` to the session they open. The
row gets a password, `force_password_change` and `is_active`; a login reads the
hash when it begins and the flag in `UpdateLastLogin`, after the check.
`chal` are the challenge tokens, which are signed and stored nowhere; `chg` are
the change-password requests. `late` records that the change was made before an
attempt began.

**Registry** is the tables `clients` and `oauth_providers` under concurrent
administrators. `UpdateProvider` reads the row and writes every column back;
`DeleteProvider` and `UpdateProvider` check the owner in a statement of their
own. A new secret's hash is in the row before the answer shows the secret;
`AdminFail` can end a request between the two, and `lost` records the secret.
`raced` and `shown` are history too.

**ProviderLogin** adds the browser: tabs that share one session cookie, the
redirect to a provider, the callback with its two calls of the provider, the
lookup and INSERT of `upsertUser`, and the INSERT of the code. Who signs in at
the provider is a choice. `off` records what was switched off during all of a
callback, `lone` that no other login touched the cookie.

**RateLimiter** is one key: its entry in the map under the mutex, limiters that
requests use after they released it, the reservation that `Retry-After` is
computed from and its cancellation, and the clean-up. The token bucket of
`golang.org/x/time/rate` is external. Time and tokens are integers: a token is
`Cost` units, and a tick refills one.

**Csrf** is one browser's `csrf_token` cookie: scripts read it, requests carry
it as it is when they are sent, and each answer sets it when it arrives. The
browser is external; `Serve` is the middleware. `calm` records that a script read
a settled cookie that did not expire before the request was sent.

**Listing** is one of the four tables and an administrator who reads it page by
page. A request is two statements, the page and the count. Absent parameters
become the defaults and zero values that the services pass on, and the offset is
converted to a signed integer of `IntWidth` bits.

**Bootstrap** is the default admin's row, the number of active default clients,
whether another client is active, and the statement each replica runs next. A
replica that exits is started again. The admin, once past the forced change,
creates and deletes clients; only active ones count at the next start.

## Runs

All configurations switch the deadlock check off: an idle server may stop, and
the bounds on tokens and time end every behaviour.

| Run | Checks | Result |
|---|---|---|
| `tokens` | `TypeOK`, `NoLateRedemption`, `BurnBeforeMint`, `RevocationAuditTruthful`, `HeldIsRecorded`, `NoLateAdmission`, `SingleSession`, `ImplementsCredentials` | hold |
| `rotation` | `Lineage`, `DeadFamilyStaysDead`, `ImplementsCredentials`; one request of a kind at a time: `SerialSingleUse`, `SerialRotatedOnce`, `SerialOneLive`, `SerialReplayEnds` | hold |
| `accounts` | `AccTypeOK`, `GuessBound`, `NoSessionBeforeChange`, `OldPasswordStaysOut`, `ChangeIsFinal` | hold |
| `provider_login` | `TypeOK`, `SecretReachable`, `RetainsUnlessOvertaken`, `ProviderIdentityFixed`, `OwnersOnly`, `CodeGoesWhereAsked`, `CodeForWhoSignedIn`, `NoCodeWhileOff`, `OnlyOverlapLosesLogin` | hold |
| `admin_api` | `ApiTypeOK`, `RateBound`, `RetryAfterHonest`, `SettledNeverRefused`, `MissesOnlyWhatLeft`, `ListedByName` | hold |
| `bootstrap` | `BootTypeOK`, `AdminMustRotate`, `DefaultClientsBounded`, `AllServeUnlessHalfCreated` | hold |
| `code_race` | `SingleUse` | violated with two exchanges |
| `replay_race` | `ReplayEndsFamily` | violated with two rotations |
| `revoke_linked` | `RevokesLinked` | violated by a discarded error |
| `lockout_window` | `LockOnlyAfterBurst` | violated without concurrency |
| `disabled_login` | `DisabledStaysOut` | violated: no login step reads `is_active` |
| `bootstrap_stuck` | `AllServeEventually` | violated by one crash |

The violated properties are sentences of the repository's documents or
comments; `PROJECT.json` quotes each.

`code_race` and `replay_race` have one cause: a check and the write that
depends on it are two statements. The same window makes `RotatedOnce` fail with
two rotations in flight. The `Serial*`
properties show that what the races break holds, with requests failing
anywhere, when requests of a kind do not overlap.

Some properties say how far a defence goes where the stronger sentence fails.
`ReplayEndsFamily` fails under concurrency; by `DeadFamilyStaysDead`, once the
rotations in flight have drained and every token is revoked, the family is
finished for good. W concurrent login attempts can pass the threshold of the
lockout; by `GuessBound`, never as far as W - 1 failures beyond it without a
lock set or coming. Two changes of password that overlap overwrite each other;
by `ChangeIsFinal`, no challenge token changes anything once they are done. An
update of a provider can undo another one; by `RetainsUnlessOvertaken`, only one
that came between its read and its write. Two tabs can lose a login to each
other; by `OnlyOverlapLosesLogin`, only by overlapping, and by
`CodeGoesWhereAsked` never a code to the wrong place. A walk through a listing
can miss rows; by `MissesOnlyWhatLeft`, at most one for each row that left the
listing. A crash can end the bootstrap for good; by `AllServeUnlessHalfCreated`,
only by leaving an admin row without admin rights. Two replicas can each create
a default client, and one is created anew when all clients were deleted; by
`DefaultClientsBounded` there are never more active ones than replicas. Requests
that are sent before the browser has a CSRF cookie can be refused; by
`SettledNeverRefused`, none that reads the cookie after that. A login that read
the old hash can outlive a change of password; by `OldPasswordStaysOut`, none
that begins after it. A secret can be lost with the answer that shows it; by
`SecretReachable`, in no other way.

### Where comments and documents differ from the code

Five of the properties that hold state what the code does where a comment, a
test or a document says otherwise.

- `HeldIsRecorded`: Login and ChangePassword store their tokens before they
  answer. `authorization.go:370` and `auth_test.go:485` say that direct-login
  tokens are not persisted.
- `NoLateAdmission`: a token without a row passes `IsTokenRevoked`, so a row that
  is purged between the two checks of `AuthMiddleware` lets an expired token
  through. The comment at `authorization.go:364` says that a token that is not
  found is treated as revoked.
- `SingleSession`: `authorization.go:339` speaks of single-session semantics. Two
  sessions of one user are both in force when `ChangePassword` opens one, which
  ends no other, or when a login stores its token while another is between its
  UPDATE and its INSERT. The property exempts these two cases and no other.
- `RevocationAuditTruthful`: `refresh_token_family_revoked` is written although
  the family's UPDATE may have failed. `AdministratorGuide.md:1024` says that
  the entire family was revoked; what holds is that one token of it is.
- `ListedByName`: an absent id is compared as the zero UUID, so a code or a token
  is listed only by requests that name both its client and its user, and a direct
  login's token, whose client is NULL, never. `session.go:49` and
  `RepositoryDocumentation.md:741` say that an absent id does not filter.

### Mixes

Several questions about one specification are asked in one run. The MC modules
have a variable `mix`, chosen at the start and never changed, that says which
requests come in: for `tokens`, two exchanges; an exchange and a revocation, or
two revocations; a login and two authenticated requests; two logins or changes
of password at a time; an exchange, a rotation, a revocation and a change of
password, any two of them at a time, so that a revoked refresh token is
replayed; for `rotation`, an exchange and two rotations, or one of each at a
time. A mix only removes behaviours from `Next`. The proofs are about `Next`
itself, without mixes, except the four of the `Serial*` properties, which name
the mix, and `ApiTypeCorrect`, which is about the composition in `MCAdminApi`.

### Bounds

Two workers are enough for every race found: each is between one reader and one
writer. Three refresh tokens allow a root and two successors of one token (a
fork), or a chain of two rotations; three access tokens let a third session
follow two. Two clients and two users let a property compare them. The
clock of the token service runs to 1 or 2 with lifetimes of 0 or 1, so that a
token or code can expire between any two statements and be purged; the mix
`rotation` has no clock, because expiry only makes a rotation refuse earlier,
and the mix `serial` has one.

`MaxFailures` and `MaxTime` in `Lockout` exceed the threshold by enough for a
lock, its expiry and a second burst; two challenge tokens and two changes allow
a change while another token is outstanding. In `provider_login` two clients
share the provider ids, and three secrets allow two regenerations. In
`admin_api` a bucket has two tokens, three requests let a refusal be overtaken
by another one and by a request that is admitted, the clock goes past the idle
time after which an entry is evicted, and `MaxLimiters` allows one eviction;
`MaxDebt` bounds what overlapping refusals reserve. Three scripts suffice for a
cookie that is set by an answer between another script's read and request.
Listings have three rows and pages of one or two; `IntWidth` is 3, so that the offset 4
is the first that wraps, as 2^31 is in the code; `MaxLeft` bounds how often rows
leave. `MaxClients` in `Bootstrap` is above the number of replicas, so that it
is not what bounds the clients.

Symmetry is used for identifiers and workers, which are interchangeable, in
runs without a liveness property.

### Fairness

Only `Bootstrap` has liveness properties. It assumes weak fairness of each
replica's own steps: a started process runs, and the orchestrator (the
deployment in `k8s/`) restarts one that exited. Crashes are bounded by
`MaxCrashes` and have no fairness. The request handlers promise nothing that
must eventually happen, since every request can fail.

## Proofs

TLAPS proves these for every value of the constants: any number of clients,
users, tokens, workers, tabs, administrators, scripts, rows, replicas and
crashes, and every request of the composition.

| Theorem | States |
|---|---|
| **`TokenServiceProofs`** | |
| `TypeCorrect` | `TypeOK` |
| `LateRedemptionRefused` | `NoLateRedemption` |
| `CodeBurnedFirst` | `BurnBeforeMint` |
| `LineageHolds` | `Lineage` |
| `DeadFamilyIsFinal` | `DeadFamilyStaysDead` |
| `HeldAlwaysRecorded` | `HeldIsRecorded` |
| `LateAdmissionRefused` | `NoLateAdmission` |
| `AuditIsTruthful` | `RevocationAuditTruthful` |
| `Refinement` | `ImplementsCredentials` |
| `CodeSpentOnce` | `SingleUse`, while `CodesApart` |
| `TokenRotatedOnce`, `FamilyHasOneLive`, `ReplayIsFinal` | `RotatedOnce`, `OneLivePerFamily`, `ReplayEndsFamily`, while `FamiliesApart` |
| `OneSessionPerUser` | `SingleSession` |
| `SerialSpentOnce`, `SerialTokenRotatedOnce`, `SerialFamilyHasOneLive`, `SerialReplayIsFinal` | the `Serial*` properties |
| **`AccountsProofs`** | |
| `AccountKeepsLockout` | `AccSpec => Spec`: the account's steps are steps of the lockout |
| `AccountTypeCorrect` | `AccTypeOK` |
| `LockoutGuessBound`, `AccountGuessBound` | `GuessBound`, of the lockout and of the account, for a threshold of 2 or more |
| `SessionsFollowTheChange` | `NoSessionBeforeChange` |
| `OldPasswordIsOut` | `OldPasswordStaysOut` |
| `ForcedChangeIsFinal` | `ChangeIsFinal` |
| **`ProviderLoginProofs`** | |
| `LoginTypeCorrect` | `TypeOK` |
| `SecretAlwaysReachable` | `SecretReachable` |
| `SecretRetained` | `RetainsUnlessOvertaken` |
| `ProviderIdentityKept` | `ProviderIdentityFixed` |
| `WrittenByOwnersOnly` | `OwnersOnly` |
| `CodesGoWhereAsked` | `CodeGoesWhereAsked` |
| `CodesForWhoSignedIn` | `CodeForWhoSignedIn` |
| `NoCodeThroughWhatIsOff` | `NoCodeWhileOff` |
| `LoneLoginIsKept` | `OnlyOverlapLosesLogin` |
| **`AdminApiProofs`** | |
| `RateTypeCorrect` | `TypeOK` of the rate limiter |
| `RetryAfterAlwaysHonest` | `RetryAfterHonest` |
| `RateBoundedApart` | `RateBound`, while `RefusalsApart` |
| `SettledScriptsPass` | `SettledNeverRefused` |
| **`ListingProofs`** | |
| `BootTypeCorrect` | `BootTypeOK` |
| `AdminAlwaysMustRotate` | `AdminMustRotate` |
| `DefaultClientsAlwaysBounded` | `DefaultClientsBounded` |
| `ListTypeCorrect` | `ListTypeOK` |
| `SessionsListedByName` | `ListedByName` |
| `WalkMissesOnlyWhatLeft` | `MissesOnlyWhatLeft`, for tables of at most 2^(IntWidth - 1) rows |
| `ApiKeepsComponents`, `ApiTypeCorrect` | the composition's steps are the components'; `ApiTypeOK` |

### Assumptions

Every module names its own. Markers for NULL, no row, a deleted row or nobody
are not rows, numbers or identifiers (`StoreAssumption`, `RowAssumption`,
`NoneAssumption`, `RegistryAssumption`, `LoginAssumption`, `NoRowAssumption` and
parts of the others). Lifetimes and bounds are numbers. Sets that are counted
are finite: the replicas, the workers of the lockout, the rows of a table.
`LockoutAssumption` has the positivity checks of `config.go`. `RateAssumption`
says that an idle entry is evicted only after the bucket has refilled and a
request that looked it up has used it (`Burst * Cost + MaxStall <= TTL`): in the
code entries live five minutes, and every route's bucket refills in one. `ListingAssumption`
numbers the rows; `WidthAssumption` states the two facts about powers of two
that `Int32` relies on, because the prover does not compute with exponents. TLC
evaluates each of them in a run.

Some theorems have a hypothesis of their own.

- `CodesApart` and `FamiliesApart` say that no two exchanges of one code, or
  rotations of one family, are in flight together. Without them the properties
  fail, as `code_race` and `replay_race` show; with them everything else may
  still overlap and fail.
- `RefusalsApart` says that no two refusals of one limiter are between the
  reservation and its cancellation. See below, only model-checked.
- `GuessBound` needs a threshold of 2 or more: with 1, which the configuration
  allows, the first failure finds no earlier one in the row and does not lock.
- `WalkMissesOnlyWhatLeft` takes a table whose offsets do not overflow: in the
  code, 2^31 rows.

### Argument

The components of the token service share the tables, so a proof by one large
case split would consider every action of every component for every conjunct.
`SessionProofs` instead states what *any* action may do to the tables
(`StoreStep`): a code's binding never changes and `used` and `revoked` are never
taken back, a purged row stays purged, a refresh row keeps its identity and
stays revoked. Each component proves that its own actions are such steps
(`ExStep`, `RotStep`, `RevStep`, `AdminStep`, `LoginStep`, `GateStep`) and that
its own invariant survives such a step made by any other component (`ExKept`,
`RotKept`, ...). `TokenServiceProofs` puts the pieces together in `IInv` and
`RInv`. The registry is treated in the same way: `RowsStep` and `Passed` say
what a request does to the rows and to the other requests.

The properties are not inductive.

- `NoLateRedemption` needs that an unusable code stays unusable while a request
  is still before its checks (`CodeDecays`).
- `BurnBeforeMint` needs that a request past `ExMarkUsed` has a used or purged
  code (`Burned`).
- `Lineage` needs that a request past its lookup agrees with the row it read in
  family, client and user, and that this row is revoked once the request has
  marked it (`RotBound`).
- `DeadFamilyStaysDead` needs that a family's first row exists and that only
  rotations of the family, or its first INSERT, add rows to it (`Rooted`,
  `RootsOnly`).
- `HeldIsRecorded` needs that a row names the user of its token and does not
  expire before it (`RowsMatch`), and that each of the three kinds of request
  that mint has stored the token before it answers (`ExRecorded`, `RotRecorded`,
  `LoginRecorded`).
- `NoLateAdmission` needs that a token that was spent when the request came in
  stays spent until the second check (`GateSafe`); a deleted row is a token that
  has expired, by `RowsMatch`.
- `RevocationAuditTruthful` needs that a revocation that is about to log has run
  its UPDATE (`AuditSafe`), and that a rotation that is about to log a replay has
  read a revoked row (`RotBound`).
- `SingleUse` and the rotation properties need that a request that has passed its
  check is the first for its code or its token: nothing was minted or succeeded
  before it (`ExFirst`, `RotFirst`). The check establishes this, and only a
  request that overlaps can take it away. The mix `serial` implies the
  hypotheses, which gives the `Serial*` theorems.
- `SingleSession` needs that the sessions that are in force when a login has run
  its UPDATE and not its INSERT were stored in between (`LoginFirst`).
- `GuessBound` needs a count for every window (`MissBound`): the failures
  decided in it, together with the attempts that can still be decided in it
  without a lock (`Risk`), are fewer than the threshold and the workers allow.
  An attempt is at risk as long as what it read of the row is older than the
  window. The count moves from the attempts to the history with each decision,
  and `Dated` orders the times in the row and in the history.
- `NoSessionBeforeChange`, `OldPasswordStaysOut` and `ChangeIsFinal` need what a
  login knows past the comparison: its password is the hash it read, which is
  still the account's if the change was made before it began, and the forced
  change, if there was one, is made (`AccSafe`).
- The properties of the registries need that a row that a request has read is
  still there, or deleted, under the same client, and that an update that was
  not overtaken still holds the secret it read (`AdminSafe`).
- The properties of the provider login need what a login knows by how far it is
  (`FlowSafe`), that states are not shared (`OwnStates`), and that the URIs of a
  client's row were registered (`LoginSafe`).
- `AdminMustRotate` needs that the one replica that has created the row is at
  the statement that the columns show (`Written`); `DefaultClientsBounded` that
  there is room for the replicas that have counted no client (`Room`): while a
  default client is active no other replica joins them, and a deletion only makes
  room.
- `RetryAfterHonest` needs that a limiter in debt may act again only when its
  debt is paid (`Bucket`), that a request uses the limiter that the map still
  names (`Current`), and that this limiter holds a token by the time promised
  (`Kept`). A promise counts where no other reservation was outstanding when the
  refusal's own was cancelled (`Undisturbed`); where refusals overlap, the time
  that one of them names can be too short.
- `RateBound` needs that what was admitted is missing from the bucket, together
  with what a refusal under way has reserved and can put back, and that it is
  forgotten by the time an entry is evicted (`Taken`).
- `SettledNeverRefused` needs that the cookie stays settled, and the header its
  value, until a calm request is sent, and that the header is the request's cookie
  until it is served (`CallSafe`).
- `MissesOnlyWhatLeft` needs a count during the walk (`WalkSafe`): the rows that
  stayed and were passed without being shown are at most those that left. A row
  is passed when its place on the listing is not beyond the offset; an INSERT
  moves rows away from the offset, and a row that leaves moves each of those
  below it up by one, so that at most one passes the offset.

For `Refinement`, `InitImplements` maps initial states, and `StepImplements`
maps each statement to one abstract step or to a stutter: there is a lemma for
each way in which a statement changes the mapped state (`IssuesCode`,
`EndsTokens`, `IssuesRefreshToken`, ...) and one per component that picks the
lemma for each of its actions. `Mint` and `Succeed` have guards, which follow
from `IInv`: the code is used or purged, the predecessor is revoked.

Each proof module starts with `USE Zenon`, so that a leaf is tried with Zenon
unless it says otherwise. The leaves that need arithmetic, or the types of
records, cite `SMT`.

### Only model-checked

- `AllServeUnlessHalfCreated` is a liveness property, which the prover does not
  handle.
- `RateBound` with refusals that overlap. What a cancellation puts back depends
  on the reservations made after it, so that the invariant is a sum over all the
  reservations outstanding, in the order in which they were made; to reason about
  such a sum takes an induction over data. TLC checks it with three requests.
- The violated sentences: a counterexample is all there is to show.

## Abstractions

- One clock for the replicas and the database.
- Signatures, hashes and encryption are perfect; random values never collide.
- Passwords are compared, not strings: `Lockout` alone takes the result of the
  comparison as a choice. Client authentication is the guard that the client is
  active.
- Inputs that validation refuses change nothing and are left out, except where
  the refusal is a check of stored state.
- Scopes are reduced to whether they contain `offline_access`.
- In `Accounts` a session is whoever opened it; the token tables, and the refresh
  tokens that `ChangePassword` revokes, are the subject of `DirectLogin`, which
  takes the checks of the account as passed.
- Wording, status codes and metadata are left out.

## Not modelled

- CORS and security headers, metrics, logging, health checks: nothing is stored,
  and no request depends on another one's.
- AES-GCM encryption, Argon2id, the password policy, URI validation: pure
  functions on strings.
- The admin check of `AdminMiddleware`: one read before each request.
- `RevokeAccessTokensByClient` and the bulk revocations of `service/session`:
  nothing calls them.
- `MaxLifetimeDays`: the configuration is read and no code uses it.
- Generated Swagger text and the parsing of environment variables.
