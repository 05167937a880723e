# TLA+ models of AppSecHub's authentication subsystem

This directory holds TLA+ specifications of the parts of AppSecHub
(`src/`, Go) whose correctness depends on concurrency, ordering, time or
partial failure. It also holds the TLC configurations that check them. Every
definition that models code is listed with its source lines under `map` in
`PROJECT.json`.

## 1. Inventory

### Components, their state and operations

| Component | Source | State | Operations |
|---|---|---|---|
| OIDC state store | `internal/infras/oauth/state_store.go` | `data map[state]StateData{CodeVerifier, Nonce, ExpiresAt}` under one mutex; a gc goroutine with a 1-minute ticker | `Save`, `GetAndDelete` (delete, then lazy expiry check), `gc` sweep |
| Entra (OIDC) login handler | `internal/interfaces/http/handler/entra_handler.go` | the store (created in `NewEntraHandler` when nil), the provider and verifier | `Login` (3 random values, `Save`, redirect with the nonce and a *plain* PKCE challenge); `Callback` (parameter check, `GetAndDelete`, code `Exchange`, `id_token`, `Verify`, claims, nonce check, email check, `LoginOIDC`) |
| OIDC login use case | `application/usecase/userusecase/login_oidc.go` | user repository, token issuer, optional refresh store | `Execute(email)`: `NewEmail`, `GetByEmail`, `GenerateToken`, `store.Issue` (**error discarded**) |
| Login rate limiting | `interfaces/http/router/auth.go`, `cmd/api/bootstrap.go` (`buildRouter`) | the handler chain of `POST /v1/auth/login`; per-instance in-memory buckets; Redis buckets shared by the instances | chain assembly from the config; per-IP (memory), per-email (Redis, after `ValidateJSON`) and per-IP (Redis, `router.Use`) admission |
| User use cases | `userusecase/aggregator.go`, `create_user.go`, `change_password.go`, `get_me.go`, `domain/identity` | users in the repository (email, password hash, role) | `Register` (no public admin), `ChangePassword` (read, compare, hash, update), `GetMe`; `Login`/`Refresh`/`Logout` delegate to use cases that are not in the tree |
| Token service (JWT) | wired in `bootstrap.go` (`initJWTService`, the validator closure of `buildRouter`); the service is not in the tree | per instance: signing key id, verification key ids, issuer/audience, leeway | `GenerateToken`, `ValidateToken`; set up at each start by runtime capability probing; the `ConfigureAlgorithm` error is discarded |
| Refresh-token store | wired in `bootstrap.go` (`buildUserComponents`); the store is not in the tree | tokens with subject, expiry and a revoked flag (Redis) | `Issue`, `Consume`/rotate, `Revoke` (spec 4.2) |
| Asset inventory | `infras/storage/postgres/asset_repository.go`, `handler/asset_handler.go`, `usecase/asset`, `domain/asset`, `dto/asset_dto.go`, `router/asset.go` | assets, application profiles and repository links in Postgres | `UpsertAsset` (write, then a separate read-back), `TouchSeen`, `UpsertApplicationProfile` (read-back by *asset* id), `LinkApplicationRepo`, `UnlinkApplicationRepo`, `ListAssets` |
| Error mapping | `interfaces/http/response/mapper.go` | none | `FromError` table |
| Bootstrap | `cmd/api/bootstrap.go` | config | DB pool and migrations, i18n, RBAC policy load, component wiring |

### How they interact

* A browser calls `GET /entra/login`. The handler saves
  `{verifier, nonce, now+10m}` under a fresh random state and redirects to the
  IdP. The IdP later redirects the browser to `/entra/callback?state&code`.
  The callback consumes the state from the store. It then exchanges the code
  with the IdP over the network, checks the ID token, and calls
  `UserUsecases.LoginOIDC`. That call reads the user repository, signs a JWT,
  and issues a refresh token when a store is configured.
* `POST /v1/auth/login` passes through a chain of middleware before the
  handler. `registerAuthRoutes` fixes that chain when the route is
  registered. `buildRouter` later appends a Redis limiter to the *engine*,
  which gin does not add to routes that are already registered.
* Shared state: the state store (per process), the Redis buckets (all
  instances), the IdP's single-use authorization codes, the user repository.

### What is hard

* Concurrent callbacks carrying the same state: replays, reloads, and a
  second code from a reloaded authorization URL. The store's mutex and its
  delete-before-check order are what make a handshake single-use.
* Time: a callback that arrives after 10 minutes, and the gc sweep running
  at the same time as `GetAndDelete`.
* Partial failure: the code exchange fails after the IdP has spent the code.
  `store.Issue` fails after the access token was signed. Redis becomes
  unreachable during admission.
* An adversary who makes a victim's browser open a callback URL. The state is
  never bound to the browser that started the handshake.
* Several instances: per-instance buckets, against Redis buckets shared by
  all instances.

### Properties that make each component correct

* State store: an entry can be retrieved at most once, only while it is live,
  and is never live again (`RefinesSingleUse`). Expired entries are
  eventually swept (`ExpiredEventuallySwept`).
* Federated login:
  * a handshake yields at most one session (`AtMostOneSessionPerHandshake`);
  * no session is issued for an unprovisioned email (`TypeOK`);
  * a session goes only to the browser that initiated the handshake
    (`SessionBoundToInitiator`);
  * a callback carrying the state of a live handshake is not refused,
    whichever instance serves it (`LiveStateAccepted`).
* Rate limiting:
  * in every window of ticks `t..now`, per-email admissions across
    instances stay within `Burst + RPS*(now-t)`, so idle time cannot be
    banked for a later burst (`EmailAdmissionBounded`);
  * the same holds per IP (`IPAdmissionBounded`).
* Asset inventory:
  * only assets with a valid type, environment and criticality are stored
    (`TypeOK`);
  * an upsert answers with exactly its own write (`UpsertAnswersOwnWrite`);
  * only application assets carry application profiles
    (`ProfilesOnlyOfApplications`).
* User accounts:
  * a successful password change replaced the password it was authorised
    by (`ChangeAuthorisedByReplacedPassword`).
* Access tokens: a token verifies until it expires at every instance
  started with the configuration it was signed under or a later one,
  however restarts and key rotations interleave
  (`TokensVerifyAtNewerInstances`). The code breaks this when a key load
  fails (finding 7).

## 2. Modules

| Module | Models | Composes |
|---|---|---|
| `SingleUseState` | the abstract promise of spec 4.4: issue, retrieve once while live, lapse | none |
| `OIDCStateStore` | `InMemoryStateStore`: `Save`, `GetAndDelete`, `gc` and the clock, with callers that save fresh values and retrieve any of them | refines `SingleUseState` (`INSTANCE ... WITH issued <- saved, live <- Live`) |
| `EntraLogin` | `EntraHandler.Login`/`Callback` and `LoginOIDCUseCase.Execute`, plus an IdP with single-use codes, browsers that resend callbacks, an adversary, and instances behind a load balancer | `INSTANCE OIDCStateStore` (its map and clock) |
| `LoginRateLimit` | the `POST /v1/auth/login` chain built by `registerAuthRoutes`/`buildRouter`, per-instance memory buckets, shared Redis buckets, Redis outages | none |
| `AssetInventory` | `AssetHandler` (`UpsertAsset`, `ListAssets`, `UpsertApplication`, `LinkApplicationRepo`) with `AssetRepository` underneath; concurrent requests on shared tables | none |
| `UserAccounts` | `CreateUserUseCase`, `GetMeUseCase`, `ChangePasswordUseCase` on the user repository; concurrent requests | none |
| `TokenService` | `initJWTService` at each instance start (`NewJWTService`, `SetMeta`, `ConfigureAlgorithm` with its error discarded), `GenerateToken`, the `buildRouter` validator, key rotation as a configuration change | none |
| `MC_*` | constants for TLC | `EXTENDS` the module they check |

How code maps to state and actions:

* `OIDCStateStore`:
  * `data` is `s.data` and `now` is `time.Now()`;
  * each mutex-protected method is one atomic action;
  * `Expired(d)` is `time.Now().After(d.ExpiresAt)`;
  * `GetAndDelete` deletes any present entry, and `Found` is its `ok` result.
* `EntraLogin`:
  * `Login` is the whole handler. The three random values are named by the
    handshake number, because independent 192/384-bit values never collide.
  * A callback is three actions: `CallbackState` (parameter check and
    `GetAndDelete`), `CallbackExchange` (code exchange with PKCE, `id_token`,
    `Verify`, claims, nonce and email checks) and `CallbackIssue`
    (`LoginOIDC`: `GetByEmail` fails for an unprovisioned email and
    `GenerateToken` may fail for any user, both answering "token issue
    failed"; `store.Issue` may fail silently). They are separate because the store and the IdP's codes
    are shared with other requests; the checks between them touch nothing
    shared.
  * A transport failure of the exchange may happen before or after the IdP
    spent the code.
  * Every request reaches an instance the load balancer picks
    (`at`). `registerAuthRoutes` builds each instance's handler with a nil
    store, so each process has its own map. The store is therefore keyed
    by `<<instance, state>>` (the `Store` instance). The gc goroutines of
    the processes are one sweep step, since a sweep removes only expired
    entries.
* `LoginRateLimit`:
  * `LoginChain` is the chain the route actually runs, assembled the way gin
    assembles it; each middleware is one action of the request's progress;
  * the Redis step is atomic, as spec 4.3 requires. The buckets,
    `ValidateJSON` and the Redis limiter are not in the tree and are
    `spec_modelled` in the map.
  * A request records the tick at which it passed a Redis limiter
    (`passed`), and `admitted` logs each admission with that tick: the
    bucket bounds deductions, and a request may reach the handler a tick
    after it took its token.
* `AssetInventory`:
  * `assets`, `profiles` and `links` are the three tables; `reqs` holds each
    request's position (`pc`) and answer; `writes` numbers row versions, so
    an answer can be compared with the write that produced it.
  * Each SQL statement is one atomic step: `UpsertAssetHandle` (binding,
    `validateAssetFields` of `NewAsset`, id parse), `UpsertAssetWrite` (the `INSERT ... ON CONFLICT`),
    `UpsertAssetReadBack` (the `SELECT` by id); the same split for
    application profiles, whose write needs the asset row (foreign key).
    `LinkApplicationRepo` binds and then runs the one statement of the
    repository (`LinkInsert`: id parse, insert guarded by the foreign key).
  * The SQL text is generated code outside the tree. The model assumes what
    the query names say: an upsert by primary key, a read by id, a foreign
    key from profile to asset, and nothing else.
* `UserAccounts`:
  * `users` is the repository; each repository call is one step, and
    `ChangePassword` is two (`GetByID`, then compare, hash and `Update`),
    because nothing joins them;
  * `Save`, `Update` and `Hash` may fail; a password digest is the password
    itself and `Compare` is equality; `ver` counts writes of a user row.
* `TokenService`:
  * `cfg` is the deployed configuration (`JWT.KID`, `PublicKeysDir`, with
    a version number `ver` per rollout); `svc[i]` is the JWT service of
    instance `i` (up, signing key id, verification key ids, the
    configuration it started with); `tokens` records every signed token.
  * `InitJWTService` is the whole of `initJWTService`. `NewJWTService`
    signs with the secret. `Configured` is a successful
    `ConfigureAlgorithm`. Its failure (a private key that cannot be read,
    `KeyLoads`) is discarded, and the instance keeps the secret.
  * `Accepts` is the validator closure: `ValidateToken` accepts a known key
    id until `exp + leeway`.

## 3. Runs

| Run | Checks | Result and meaning |
|---|---|---|
| `state_store` | `RefinesSingleUse`, `ExpiredEventuallySwept` | pass: whatever the clock, gc and concurrent callers do, the store behaves as a single-use store, and every expired entry leaves memory |
| `entra_login` | `TypeOK`, `AtMostOneSessionPerHandshake` | pass: replays, reloads and forged callbacks never yield two sessions for one handshake; no unprovisioned account gets a session |
| `entra_csrf` | `SessionBoundToInitiator` | **violation**: the adversary starts a handshake, signs in as itself and makes the victim's browser open the callback URL; the victim receives tokens for the adversary's account (login CSRF) |
| `entra_instances` | `LiveStateAccepted` | **violation**: Login runs on instance 1 and saves the state there; the callback is routed to instance 2, whose store does not hold it, and the live handshake is refused as invalid state |
| `login_rate_limit` | `EmailAdmissionBounded` | pass: with Redis configured and fail-closed, in every window `t..now` each account gets at most `Burst + RPS*(now-t)` admissions across instances, whenever Redis goes down and up |
| `login_rate_limit_ip` | `IPAdmissionBounded` | **violation**: with two instances, one IP gets `Burst` admissions from each instance's memory limiter; the Redis per-IP limiter from `buildRouter` is never on the route |
| `asset_inventory` | `TypeOK` | pass: whatever requests interleave, including malformed ids and invalid fields, only assets with a valid type, environment and criticality are stored |
| `asset_upsert_answer` | `UpsertAnswersOwnWrite` | **violation**: two upserts of one id interleave write, write, read, read; the first request answers 200 with the second request's row |
| `asset_profile_type` | `ProfilesOnlyOfApplications` | **violation**: `PUT /assets/:id/application` on a `host` asset stores an application profile |
| `user_password_lost_update` | `ChangeAuthorisedByReplacedPassword` | **violation**: two changes read the same user, both compare against the old password, both write; the second overwrites a password it was never shown |
| `token_key_loss` | `TokensVerifyAtNewerInstances` | **violation**: an instance starts while its private key cannot be read; the discarded error leaves it on the shared secret, and it signs a token with it; after a restart that reads the key, the instance rejects that unexpired token |

### Bounds and why they suffice

* `state_store`: three state values, TTL of 1 tick, horizon of 3 ticks, so
  an entry can be retrieved live, retrieved expired or swept, and entries
  saved at different ticks expire at different ticks.
* `entra_login`: two browsers (victim, adversary), two logins, two codes,
  two callback requests, TTL 0 with one tick (so a state can expire before
  its callback). Two codes for one handshake (a reload) and two concurrent
  callbacks are what the replay property needs; a forged callback needs one
  adversary handshake and code. Three callback requests take over 5 minutes.
  One instance: the properties of this run concern one store.
* `entra_instances`: two instances, one login, one code, one callback and
  no time passing, the smallest scene in which the callback can reach
  another instance than the login.
* `login_rate_limit`: two instances, one IP, two emails, `Burst = 2`,
  `RPS = 1`, three requests, one tick: one more request than a bucket
  admits, a refill inside the window, and Redis may go down and up at any
  point. A fourth request takes far beyond five minutes.
  `login_rate_limit_ip` uses the same bounds; two emails make the per-IP
  bound differ from the per-email one.
* `asset_inventory`: one asset id, one profile id, one repo id, an invalid
  id, field values `MCFields` (a valid host, a valid application, and one
  invalid type, environment or criticality each), three requests. The
  races are on one id, so one id suffices; three requests allow two
  concurrent upserts plus a profile write or a list.
* `user_password_lost_update`: one email, two passwords, roles `user`,
  `admin` and an invalid one, one user, three requests: a registration and
  two concurrent changes, the smallest scene of the lost update.
* `token_key_loss`: two instances, two key ids (one rotation), access-token
  TTL 2 and leeway 1 so a token outlives a restart, two recorded tokens,
  three ticks; the key load may fail at any start.

### Fairness

* `OIDCStateStore.Spec` assumes weak fairness of `Gc` only: the goroutine
  started by `NewInMemoryStateStore` ticks every minute for the life of the
  process.
* Users, browsers, clients and the IdP are not fair: a user may abandon a
  login. The other runs check safety and action properties only.
* The asset, user and token runs set `CHECK_DEADLOCK FALSE`: with a bounded number of requests the system stops once all are
  answered, which is not a deadlock of the code.

### Mutations

Every property of a passing run is shown to catch a plausible bug (see
`mutants` in `PROJECT.json`): `GetAndDelete` not deleting; the expiry test
lost; gc one tick late; the user lookup skipped; the fail-closed setting
ignored; the criticality check of `validateAssetFields` dropped.

## 4. Findings

1. **Login CSRF** (`entra_handler.go:71`). The state is checked only for
   existence in a server-side map, not against the browser that started the
   handshake. The spec calls it a CSRF token. Run `entra_csrf`.
2. **OIDC state is per instance** (`auth.go:59`). `registerAuthRoutes`
   passes a nil store to `NewEntraHandler`, which then creates an
   `InMemoryStateStore`. The comment at `state_store.go:21` calls that store
   "suitable for single-instance dev". With several instances and no
   load-balancer affinity, a callback that reaches another instance than its
   Login fails with "invalid state". Spec 9 says the state store is chosen by
   deployment topology. Run `entra_instances`.
3. **Per-IP Redis limiter never applied** (`bootstrap.go:133`).
   `router.Use(...)` runs after `router.New` has registered the route, and
   gin copies a group's middleware into a route's chain at registration.
   Run `login_rate_limit_ip`. This rests on gin's documented registration
   semantics, since gin is not in the tree.
4. **Upsert answers another request's row** (`asset_repository.go:51`).
   The write and the read-back are two statements without a transaction;
   the code's comment says the read-back only fetches timestamps.
   Run `asset_upsert_answer`.
5. **Profiles of non-application assets** (`asset_repository.go:142`).
   The `ApplicationProfile` comment in `domain/asset/application.go:9`
   allows profiles only for assets of type application; neither the handler
   nor the repository checks the asset's type. Run `asset_profile_type`.
6. **Password-change lost update** (`change_password.go:38`). The compare
   uses a read the update does not re-check (no version, no transaction),
   against spec 5. Run `user_password_lost_update`.

7. **Unreadable private key is not fatal** (`bootstrap.go:61`).
   `_ = ac.ConfigureAlgorithm(...)` discards the error, so an instance
   whose key cannot be read starts with the shared secret and signs
   tokens with it. Once the instance restarts and reads the key, it
   rejects those unexpired tokens. Spec 4.1 says loss of the configured
   private key is fatal at startup, not at request time. Run
   `token_key_loss`.

Also noted, without a run:
* **Partial tokens** (`login_oidc.go:42`). `refresh, _ = uc.store.Issue(...)`
  returns a login response with an access token and an empty refresh
  token, although spec 4.5 says no flow issues partial tokens. A unit test
  with a failing store reaches it. `CallbackIssue` keeps the failing
  `Issue` as a choice.
* `Login` sends the PKCE verifier itself as a `plain` challenge
  (`entra_handler.go:59`); spec 4.5 derives the challenge from it.
* `ListAssets` ignores its filter argument (`asset_repository.go:96`):
  `internetOnly` never narrows the list. Deterministic, so a unit test
  reaches it; the model's `ListRows` states it.
* `Logout` revokes only the presented token (`aggregator.go:75`); a token
  rotated from it earlier stays valid. Spec 8 does not say whether logout
  ends the family, so this is a spec gap.
* During a rolling key rotation an instance that has not restarted does
  not know the new key id and rejects tokens from restarted instances.
  Keys are loaded only at startup, so this follows from the design.
  `TokensVerifyAtNewerInstances` therefore speaks only of instances with
  the same or a newer configuration. A passing run of it would only
  restate that design, so the property is checked only where the code
  breaks it (`token_key_loss`).
* With refresh enabled and no Redis (`auth.go:52`, `bootstrap.go:79`),
  `/refresh` and `/logout` are registered but `NewUserUsecases` wires no
  store: logins return no refresh token and every refresh is refused.
  Spec 9 asks for a process-local store variant in that topology. The
  outcome is fixed by configuration, so a unit test reaches it.
* `Register` checks for no existing email before `repo.Save`
  (`create_user.go:36`), so concurrent registrations rely on a database
  constraint that is not in the tree.

## 5. Plan

Done: `OIDCStateStore`/`SingleUseState`, `EntraLogin`, `LoginRateLimit`,
`AssetInventory`, `UserAccounts`, `TokenService`.

Next: composing `LoginRateLimit` with the local login, and `UserAccounts`
with concurrent registrations once the database constraint is in the
tree.

## 6. Not modelled

* Bootstrap I/O (database pool, migrations, i18n, RBAC policy loading):
  configuration and I/O only.
* `route.go`: delegation only.
* `response/mapper.go`: a total error-to-status table with no state.
* HTTP binding, JSON and URL formatting, and logging are abstracted away;
  random values are fresh identities.
* `TouchSeen` and `UnlinkApplicationRepo` (`asset_repository.go`) have no
  caller and no route, so no request reaches them.
* The refresh-token store and the `Refresh`/`Logout` use cases are not in
  the tree; only their wiring is. A model of them could only restate
  spec 4.2, so they are not modelled. `CallbackIssue` keeps a failing
  `store.Issue` as a choice. `RefreshSession.tla`, `SessionTokens.tla`,
  `AuthSessions.tla` and `MC_AuthSessions` are an earlier model of that
  store; no run checks them, and they are to be removed.
* Token cryptography, issuer, audience and not-before: the same on every
  instance, so only key ids and expiry decide verification.
* ID-token signature cryptography is abstracted to the IdP being honest
  about what it signed.
