# TLA+ models of reva's public-link share subsystem, tracing, OIDC authentication, the static auth registry and the mesh directory

This directory holds TLA+ models of the code under `src/`, the TLC
configurations that check them, and `PROJECT.json`. `PROJECT.json` lists the
components, runs, mutants, the map from definitions to source lines, the
findings and the hazards.

## 1. Inventory

### Components and the state each keeps

| Component | Source | State |
|---|---|---|
| SQL public-link share manager (`package sql`) | `src/unnamed/part_000` 1-610 | the `oc_share` table (rows of all share types, with `orphan`, `expiration`, `share_with` = password hash, `token`, `internal`); the auto-increment id; the janitor goroutine; the locals of each request goroutine between its SQL statements |
| Capability signatures (`pkg/publicshare`, not in `src/`) | spec §4.3 | none: `CreateSignature` is a deterministic function of token, password hash and expiration |
| Tracing | `part_000` 611-946, `part_001`, `pkg/rhttp/utils` | the `tr` global (tracer-provider cache behind a mutex), the span-start mutex, `initOnce`, the prefix → handler map of the HTTP middleware |
| Static auth registry | `pkg/auth/registry/static` | a rules map (read only) |
| OIDC auth manager | `pkg/auth/manager/oidc` | the lazily created `am.provider`, its configuration |
| authprovider service, recovery interceptor | `internal/grpc/services/authprovider`, `internal/grpc/interceptors/recovery` | the chosen auth manager and the blocked-users set (configuration) |
| Mesh directory, OCM provider authorizer, gateway pass-throughs | `internal/http/services/meshdirectory`, `internal/grpc/services/ocmproviderauthorizer`, `internal/grpc/services/gateway/ocminvitemanager.go` | configuration (prefix, driver) and, per request, the answer travelling back hop by hop |
| credential strategy, ocdav delete, app registry, appctx, siteacc, ocmd config, sciencemesh | the other files | none of their own beyond configuration: they forward calls and map answers to statuses |

### Operations of the share manager

- `CreatePublicShare`: one insert with a fresh token. The password is hashed when non-empty, and an expiration of 0 is not stored.
- `UpdatePublicShare`: one update of one field group, selected by id or token and owner/initiator. It is not scoped by share type or orphan flag, and it does not check the rows affected. It then calls `GetPublicShare(ref, sign=false)`.
- `GetPublicShare`:
  - `getByID` (scoped to owner/initiator) or `getByToken` (unscoped), both excluding orphans and other share types;
  - then the expiry test against `time.Now()`: an expired share triggers the bulk cleanup and NotFound;
  - otherwise the share is returned, with a signature if it is protected and signing was asked for.
- `ListPublicShares`:
  - builds the predicate, with filters OR-ed per kind and AND-ed across kinds;
  - `uidOwnerFilters` drops the ownership predicate when the caller administers the project of any resource filter;
  - one query, whose rows are scanned one at a time; each expired row triggers the bulk cleanup and is skipped.
- `RevokePublicShare`: one delete scoped by id or token and owner/initiator, not by share type. Zero rows gives NotFound.
- `GetPublicShareByToken`:
  - reads by share type and token, **without** the orphan condition;
  - expired → cleanup and NotFound;
  - no password → the share;
  - otherwise `authenticate` (a password, or a signature whose expiration is not past and which equals `CreateSignature(token, hash, exp)`), then a signature if asked.
- `cleanupExpiredShares`: `update … set orphan=1 where expiration < ?` with `time.Now().Format("2006-01-02 03:04:05")`. It runs from the janitor's ticker and from every read that meets an expired share.

### How the parts interact

Many request goroutines call the manager at the same time. Each SQL statement is atomic in MySQL, but a method that issues several statements, or reads the clock after reading a row, can be interleaved with other methods and with the janitor:
- Update's write and its trailing Get;
- Get's read and its expiry test;
- the listing cursor and each row's test;
- the token lookup and the authentication.

Signatures handed out by one call are checked by a later `GetPublicShareByToken`, possibly after the password was changed.

The mesh directory's `GET /providers` crosses three services: `serveJSON` calls the gateway, which forwards to the OCM provider authorizer, which asks its driver. A failure can be reported at each hop as a Go error of the call or as a response carrying an error status, and each caller has to check both.

### Hard behaviours

- Interleavings of a method's statements with other methods and with the janitor.
- Wall-clock-dependent expiry and cleanup. The cleanup cutoff is formatted on a 12-hour clock.
- Soft deletion (orphan) versus hard deletion (revoke), and which lookups honour each.
- Scoping: share type, ownership, and project-admin escalation.
- Signatures issued under one password hash and verified under a later one.

### Properties that make the manager correct

- The cleanup orphans exactly the expired rows. This has two directions, and the code breaks both.
- No read grants access to an orphaned share.
- Other share types are never touched. The code breaks this.
- An update succeeds only for the owner or creator.
- A list shows a share only to its owner or creator, or to an admin of that resource's project space.

## 2. Modules

- `PublicShareSQL.tla` models the share manager:
  - **State:** `db` (oc_share), `nextId`, `salt` (the number of bcrypt hashes drawn), `now` (hours), `issued` (history of signatures handed out, with the token and hash they were issued under), `wk` (locals of each request goroutine), `requests` (the call budget).
  - **Splitting of methods into actions:** each method is split at its SQL statements and clock reads:
    - `UpdatePublicShare` → `UpdateGet`;
    - `GetPublicShare` → `GetExpired` | `GetReturn`;
    - `ListPublicShares` → (`ListScanExpired` | `ListScanKeep`)*;
    - `GetPublicShareByToken` → `AuthExpired` | `AuthOpen` | `AuthGranted` | `AuthDenied`.
  - **Single actions:** `CreatePublicShare`, `RevokePublicShare` and `JanitorRun` are one action each.
  - **Clock:** `Tick` advances the clock by `Step`.
  - **Mapping:** `PROJECT.json` "map" gives the source lines of every definition.
- `MC_PublicShareSQL.tla` instantiates it:
  - alice owns `home`, and a project account owns `proj` in project space `p1`, which bob administers;
  - one share of another type, id 1, is already in the table;
  - tokens are model values, one per id. `TokenFor` is injective, which models `RandString(15)` never colliding.

- `TracingDispatch.tla` models the tracing HTTP middleware (`Middleware`, `part_000` 660-692) and the URL helpers of `pkg/rhttp/utils`:
  - **Strings:** a URL is a sequence over a small alphabet containing `"/"`. `strings.TrimRight` and `strings.Split` are recursive operators; `CleanURL`, `UrlHasPrefix` and `GetSubURL` follow the Go functions line by line.
  - **State:** `handlers` (the keys of the handler map, one per registered prefix, chosen once in `Init`) and `served` (the last request and the prefix whose handler served it, or `Noop`).
  - **Action:** `Serve(path)` is the whole `handlerFunc`: exact match, then the longest accepted non-empty prefix (ties as a set, since Go's map order decides), then `handlers[""]`, then the no-op handler.
  - `MC_TracingDispatch.tla` takes the alphabet `{/, a, b}`, strings up to 4 characters, and the prefixes `""`, `"a"`, `"b"`, `"a/b"`.
- `TracerProviders.tla` models the tracer-provider cache `tr` (`part_000` 885-946) and `Init` (776-819):
  - **State:** `reg` (`t.reg`), `exp` (`t.exp`), `initDone` (`initOnce`), `holder` (the goroutine holding `t.mux`), and per goroutine `pc`, `want` and `ret` (the last provider returned and its name). `built` counts SDK providers.
  - **Actions:** `InitTracing(c)` is the whole `initOnce.Do` body over an abstract configuration (decode error, agent, collector, exporter error); every early return leaves `t.exp` unchanged. `tracerProvider` is split at its lock: `TracerProviderLoad` (lock and load; a hit returns) and `TracerProviderCreate` (hostname and resource may fail, giving the cached no-op provider; store and unlock).

- `TracerCache.tla` is the abstract specification of `tracerProvider`: `reg`, a write-once map from name to provider, and `ret`, each caller's last result. `Get(c, n)` returns the cached entry or adds one, in one atomic step. `TracerProviders` maps its own `reg` and `ret` onto it (`Cache == INSTANCE TracerCache WITH Providers <- Provider`). Taking the lock, a miss and `Init` are stuttering steps of the cache. `ImplementsTracerCache == Cache!Spec` is checked as a PROPERTY.

- `OIDCManager.tla` models the OIDC auth manager (`pkg/auth/manager/oidc/oidc.go`):
  - **State:** `mapping` (`am.oidcUsersMapping`, built by `Configure` in `Init`; a file mapping a group twice makes `New` fail, so no such state exists), `provider` (`am.provider`), `built` and `handed` (the providers `NewProvider` built and `getOIDCProvider` returned), per goroutine `pc`, `tok` (the userinfo claims of its last call) and `ret` (its result: a user, an error or a panic).
  - **Actions:** `ProviderCheck` (the unlocked read of `am.provider`), `ProviderCreate` (`oidc.NewProvider` returns; success overwrites `am.provider`), `AuthFinish` (the rest of `Authenticate`, one step because it reads only the configuration and calls the provider and the gateway).
  - **Claims:** a claim map is a record. Number claims keep their Go dynamic type (`Nil`, `Float`, `Int64`), because the user is built with `.(int64)` assertions. `WithDefaults`, `ResolveUser`, `GetUserType` and `AuthResult` follow the code. The gateway is `Directory` (users by username) with nondeterministic transport failures.
  - `MC_OIDCManager.tla`: two subjects (one known to the gateway), two issuers, two groups, three mapping files (none, one per issuer, one refused), and every claim shape below.
- `MeshDirectory.tla` composes the mesh directory HTTP service, the gateway and the OCM provider authorizer:
  - **State:** `prefix` and `pa` (the configured prefix and authorizer driver, from `config.init` and `New`; a driver that is unknown or fails to build fails `New`, and the service is then not served, `pa = Nil`), `hop` (where the current request is), `answer` (what travels back: a Go error or a response with a status and a list), `listed` (what the driver answered), `response`, `served`.
  - **Actions:** `Handler(head)` is `Handler` with `ShiftPath`, `getClient` and the call in `serveJSON`; `GatewayForward` and `GatewayReturn` are the gateway's pass-through (no client: INTERNAL status with a nil error; a failed call: a Go error); `AuthorizerServe` is `service.ListAllProviders` with the driver's answer; `ServeJSONReply` is the rest of `serveJSON`. `GetInfoByDomain` and `IsProviderAllowed` are the authorizer's other two handlers, called directly by OCM clients outside `src/`; `probe` holds their last response. A refusal by the driver and a driver failure both give INTERNAL.
  - The gateway's `ListAllProviders` is not under `src/`. It is modelled by the pass-through pattern that its OCM invite handlers in `src/` (`ocminvitemanager.go`) show line for line.
  - The drivers (json, mentix, open) are not under `src/`: a driver answers a list of providers or an error.
  - `MC_MeshDirectory.tla`: one provider, the default, a registered and an unknown driver, two requests.
- `StaticRegistry.tla` is the static auth registry:
  - **State:** `rules` (the rules map, fixed by `New`) and `out` (the answer of the last call).
  - **Actions:** `Init` is `New` with `config.init` (`ConfigInit`: an empty map becomes `basic` → the gateway address); `ListProviders` makes `len(rules)` nil entries and appends the rules in any order, since Go's map order is unspecified; `GetProvider(t)` gives the rule's `ProviderInfo` or NotFound.
  - The map is never written after `New`, so concurrent callers cannot interfere and one caller is enough.
  - `MC_StaticRegistry.tla`: three configurations (empty, one rule, two rules).
- `AuthProviderService.tla` composes the `authprovider` gRPC service with `OIDCManager` (it extends it, adding the response status `resp`; `ServiceSpec` is its specification): `Authenticate` refuses a blocked `ClientId` or starts the manager; `ManagerCreate` and `ManagerFinish` are the manager's steps, with the response status (`StatusOf`, the error-type switch; a panic becomes INTERNAL through the recovery interceptor, `RecoveryStatus`). `ServiceInit` is `New`: `config.init` (`AuthManagerOf`) and `getAuthManager` (`GetAuthManager`: plugin, registered manager or error) select the oidc manager.

### Abstractions

- **Time:**
  - Time is in hours, and both the clock and expirations are counted in hours.
  - `FormatNow(t)` models the layout `03` (12-hour clock, hour 0 printed as 12) read back by MySQL as a 24-hour DATETIME.
  - The one-instant boundary of `t.Before(now)` / `now.After(exp)` is kept literally. It does not stand for the real one, which has nanosecond width.
- **Hashes:** a bcrypt hash is a record of the password and a fresh salt, so two hashes of one password differ and `checkPasswordHash` compares the password.
- **Data left out:** display name, permissions, description, quicklink, stime and store errors are not modelled. No property reads them, and the model does not include store failures.

### Plan (later work)

1. Done: `MeshDirectory`; the configuration of the authprovider service.
2. The gRPC interceptor wiring (`part_001`), which only calls `tracerProvider`.
3. Done: the static auth registry (`StaticRegistry`).
4. Done: the authorizer's `GetInfoByDomain` and `IsProviderAllowed` (in `MeshDirectory`).

## 3. Runs

| Run | Expect | Checks | Shows |
|---|---|---|---|
| `core` (`MC_core.cfg`) | pass | `TypeOK` | Two goroutines and the janitor over 5 calls, by token, with expiration and password updates, every statement of every method interleaved: the rows, the goroutines' locals and the issued signatures stay well formed, and a stored password is always a bcrypt hash. About 1.3M distinct states, symmetry over goroutines. |
| `sweep_midnight` | violation | `SweepOnlyOrphansExpired` | At 24:00 the cutoff is formatted as 12:00 of the next day, and a share expiring at 30 is orphaned while live. The same layout puts the afternoon cutoff 12 hours in the past (a read then leaves an expired row unorphaned); the finding records both. |
| `auth_orphan` | violation | `AuthNeverServesOrphan` | Create with exp 7, tick to 12, and sweep. The owner then sets exp 18: the Update answers NotFound, but the public link grants access to the orphaned row. |
| `update_non_owner` | violation | `UpdateOnlyByOwnerOrCreator` | bob updates alice's share by token. No row changes, yet the call returns the share. |
| `dispatch` (`MC_dispatch.cfg`) | pass | `TypeOK`, `UrlHelpersCorrect`, `DispatchMostSpecific` | For every set of registered prefixes and every path of up to 4 characters, `UrlHasPrefix` agrees with the path-tree reference (`AtOrBelow`), `GetSubURL` returns the rest as an absolute path, and the request goes to a deepest registered prefix above it, or to the no-op handler only when there is none. |
| `providers` (`MC_providers.cfg`) | pass | `TypeOK`, `ImplementsTracerCache` | Two goroutines ask for providers of two services while `Init` runs. `tracerProvider` implements the atomic write-once cache `TracerCache`: no cached provider is ever replaced, and every call returns the one cached for its name. |
| `oidc` (`MC_oidc.cfg`) | pass | `TypeOK`, `NoAssertionPanic`, `MappedIdentity` | For every mapping file and every claim shape (issuer absent or another, email absent, uid absent / 0 / 5, gid absent / 5, group claims absent, one or two groups), `Authenticate` never panics on its `int64` assertions, and with a mapping a token logs in only as the directory user of the one entry of its own issuer that its groups match. |
| `blocked_oidc` | violation | `BlockedNeverAuthenticated` | With the oidc manager, `ClientId` is empty, so the blocked-users check never matches, and a blocked user's token is answered OK. |
| `mesh_status` (`MC_mesh_status.cfg`) | violation | `SuccessCarriesList` | `GET /providers`: the gateway has no client for the authorizer (or the driver fails), the answer is an INTERNAL status with a nil error, and the mesh directory answers 200 with the body `null`. |
| `static_list` (`MC_static_list.cfg`) | violation | `ListMatchesRules` | `New` with no rules gives the default `basic` rule; `ListProviders` answers `<<nil, basic>>`: the listing is `len(rules)` nil entries followed by the rules. |
| `list_admin` | violation | `ListAuthorized` | bob, admin of p1 only, lists with filters on a p1 and a p2 resource and sees alice's share on p2. |
| `foreign_row` (`MC_foreign_row.cfg`) | violation | `OtherShareTypesUntouched` | alice owns a user share (id 1) in `oc_share`. Her password update by id 1 passes the selector, which has no `share_type` condition, and writes a bcrypt hash over the user share's recipient. Revoke by id deletes the row the same way. |

Each property of a passing run has a mutant in `PROJECT.json`, and TLC finds each mutant violated:

| Mutant | Property it breaks |
|---|---|
| an update storing the plaintext password | `TypeOK` |
| `UrlHasPrefix` accepting a prefix one segment longer than the URL | `UrlHelpersCorrect` |
| the dispatch loop keeping any matching prefix, not the longest | `DispatchMostSpecific` |
| the handler map keyed by cleaned prefixes | `TypeOK` (dispatch) |
| `tracerProvider` loading and storing without `t.mux` | `ImplementsTracerCache` (a second miss replaces the first provider) |
| the provider stored under the caller instead of the name | `TypeOK` (providers) |
| `preferred_username` defaulting to the email before the id claim | `TypeOK` (oidc) |
| `resolveUser` not writing uid and gid back as `int64` | `NoAssertionPanic` |
| `resolveUser` not filtering mapping entries by issuer | `MappedIdentity` |

### Bounds

- **Core run:**
  - `MaxId = 3`: the foreign row and two public shares;
  - one password, and two salts, so a password can be re-set under a new salt;
  - `ExpInputs = {12}` with the clock going 6 → 12 → 18, which crosses an expiration and reaches the afternoon;
  - `MaxRequests = 5`, the length of the shortest scenario that issues a signature and then changes the password (create, get with sign, update password, authenticate) plus one: long enough for a password reset between issuing and using a signature.
- **Dispatch run:** strings of up to 4 characters over `{/, a, b}` include empty segments (`a//b`), missing leading and doubled trailing slashes, and paths two segments deep, so a deeper prefix (`a/b`) and a shallower one (`a`) both match; `MaxLen = 3` was too short for a wrong dispatch to show. `UrlHelpersCorrect` compares each served path with every string of `Str`.
- **Providers run:** two goroutines and two names are enough for two misses of one name to race; `MaxProviders = 3` lets both names be built and one more.
- **OIDC run:** one goroutine: the claim properties do not depend on the provider race between two first calls. The claim shapes cover every branch of `resolveUser` (mapping / subject lookup / no lookup, a known and an unknown user, zero and non-zero ids) and a group of another issuer. Every mail contains `@`, as the OIDC email claim is an address; the subject is always present, as OIDC requires.
- **Violation runs:** each uses the smallest bounds that contain its scenario. They are listed in the table above.

### Fairness

No run checks a liveness property, and no fairness is assumed. The share manager's methods block only on store round trips, and whether those return is decided by the database driver and the `sql.DB` pool, which are not under `src/`. The other components have no waits that the code bounds.

## 4. Not modelled, and why

- **A refinement of the share store to the spec's lifecycle (§3, §4.4):** the store does not implement it. The midnight cleanup orphans live shares (`sweep_midnight`), and the token lookup serves orphaned rows (`auth_orphan`). A refinement check would only repeat those findings.
- **Binding a signature to its password hash:** `GetPublicShareByToken` hands the signature check to `publicshare.Authenticate`, which is in `pkg/publicshare`, outside `src/`. The model takes that check as given, so no property about it would test code under `src/`.
- **Store failures and preparation errors:** every such path returns an error and changes nothing.
- **`config.init` defaults of the share manager and of tracing:** they do not affect the behaviours checked. The defaults of the authprovider service, the mesh directory and the provider authorizer are modelled, because they select the manager, the prefix and the driver.
- **Span creation:** tracing has no effect on the manager's state; `SpanStart`'s attributes and the SDK's batching are not modelled.
- **Init racing `tracerProvider`:** `Init` writes `t.exp` without `t.mux`. The providers run contains the interleavings, but a torn interface read is below the model's atomic steps, and no statement says which order is intended (see the hazards).
- **Two first `Authenticate` calls racing in `getOIDCProvider`:** `OIDCManager` contains the race (two callers each build a provider), but no run asserts a singleton. The providers are built from the same issuer and are interchangeable, and the unsynchronised pointer write is below the model's atomic steps.
- **The janitor's exit on SIGHUP, SIGINT or SIGQUIT:** whether the server keeps serving after the signal is decided in `cmd/revad`, which is not under `src/`.
- **The gateway, the auth registry service and the drivers:** not under `src/`. They appear only as nondeterministic answers, and the gateway as the pass-through pattern of `ocminvitemanager.go`.
- **The appctx interceptor:** it starts a span from the provider of the span already in the context (`SpanStartFromContext` does not use the cache) and adds a logger. Which span is there depends on the interceptor order fixed in `pkg/rgrpc`, which is not under `src/`; the effect, a zero TraceID in log fields, is recorded as a hazard.
- **The remaining files:** `appregistry.go`, `sciencemesh.go`, `delete.go`, the OCM invite handlers of the gateway other than the one pattern modelled, the publicshares credential strategy, siteacc and the ocmd config endpoint. Each forwards a call to code outside `src/` (registry drivers, `HandleErrorStatus`, the invite manager, the public-share auth manager), or only registers routes and formats configuration. A model of any of them would consist of nondeterministic answers standing for that outside code, and no property could be checked against the code itself. Two checks would still be worth having: a two-caller `getOIDCProvider` race inside the oidc run, and the double status write in `handleDelete`. The first exceeds 5 minutes with the current claim inputs. The second needs `HandleErrorStatus`, which is not under `src/`.
- **Other components:** see `PROJECT.json` "components". The rest forward calls or render output and keep no state.
