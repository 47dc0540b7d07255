# Gamely backend: TLA+ models and proofs

Gamely is an authentication backend (FastAPI, Postgres, Redis, RabbitMQ) with a
worker that sends code mails. Almost all of its logic is about *several requests
and several processes working on the same few keys and rows*: every `await` is a
point where another request may run, a client may go away, a key may expire or a
process may die. The Python tests run one request at a time against fakes; the
models here run them against each other.

## 1. Inventory

| Component (code under `backend/src/`) | State | Operations | Hard part | Module |
|---|---|---|---|---|
| Refresh tokens (`features/auth/token`) | Redis: `auth:refresh:*`, `auth:reuse:*`, family sets, index of families per user | issue, rotate (Lua), reuse detection, logout, logout-all | rotation and reissue are separate; revocation reads a set and then deletes; four kinds of keys expire separately | `RefreshTokens`, `TokenLineage` |
| Codes (`auth_service._send_code`, `_consume_code`) | Redis: code with attempts, cooldown | send, resend, try | GET / compare / SET or DEL without atomicity; clean-up on failure; cancellation skips the clean-up | `VerificationCodes` |
| Email filter (`features/auth/availability`, `infrastructure/redis/cuckoo.py`) | Redis: cuckoo filter, marker, lock; Postgres: `users` | rebuild at startup, lookup, remember, withdraw trust | a rebuild at one replica against signups at another; timeouts; outages; restored snapshots; a lock with a lifetime | `EmailFilter` |
| Mail delivery (`infrastructure/email/jobs.py`, `workers/email_worker.py`) | RabbitMQ queues; the worker's handlers | publish, deliver, send, retry, dead-letter, ack | redelivery, publish-then-ack, ambiguous SMTP errors, unpublished retries | `EmailDelivery`, `MailPromise` |
| Accounts and OAuth (`auth_service.py`, `oauth/`, `auth_repository.py`) | Postgres: `users`, `oauth_identities`; Redis: nonces | signup, login, verify, reset, change, OAuth challenge and login | commits of stale rows; unique constraints met late; a commit followed by a revocation that may not happen | `Accounts` |
| Rate limiter (`infrastructure/redis/rate_limiter.py`, `shared/requests/client_address.py`) | one counter with a lifetime per caller and scope | hit, throttle | window boundaries; a counter that never expires; whom a request is charged to | `RateLimiter` |
| IoC container and wiring (`application/ioc`, `main.py`) | singletons, a scope per request, one lock | get, create scope, close | factories of several requests in threads; disposal that fails; lifetimes that do not fit | `Container`, `Wiring` |
| Cookies (`auth_controller.py`) | the refresh cookie of each browser, the calls under way | set, clear; login, refresh, logout, logout-all, reset, change | HTTP delays, reorders and loses what keeps the cookie and Redis in step | `ClientSessions` |
| Settings (`application/environment`) | none after start | stage, layers, placeholders, validation | the stage chooses a layer before settings exist; placeholders and settings are looked up by different code | `SettingsLayers` |
| The rest of the controller, middlewares, infrastructure clients, migrations, frontend | none of their own | | | not modelled (section 8) |

How they interact. `AuthController` calls one service per request, resolved from
the request's scope. `AuthService` and `OAuthService` share the database session
of the scope, the process-wide Redis client, `TokenService`, `EmailFilter` and
`EmailPublisher`. Signup asks the filter, inserts the user, tells the filter,
sends a code and commits, in this order. Password reset consumes a code, commits
and then revokes every session. The API and the worker meet only in RabbitMQ.
Replicas meet only in Redis and Postgres.

What makes each correct is stated beside the runs in section 3.

## 2. From code to model

One conjunction is one atomic step of the outside world: one Redis command, Lua
script or MULTI, one SQL statement or commit, one AMQP operation. (`redis-py`
pipelines are MULTI unless `transaction=False`; the only such one is the filter's
lookup, and it is modelled as two steps.) Everything between two of them in one
handler is in the same action. A request that "may be abandoned" has an action
that ends it at any await. Random values (tokens, families, nonces, codes) are
fresh; two codes drawn are taken to differ. History variables are marked
`history`; no guard of a handler reads them.

- **`RefreshTokens`**. `refresh`, `reuse`, `members`, `index` are the four kinds of
  keys; `req` is what each request has in its local variables (`pc` is the await
  it stands at). `Rotate`/`DetectReuse`/`Refuse` are the three answers of the
  script, `Reissue` is `issue_refresh` after the user lookup, `ReadFamily` and
  `DropFamily` are the SMEMBERS and the MULTI of `_revoke_family`, `ClearIndex` is
  the last DEL of `revoke_all`. The EXPIREs are the guards of the `Expire...`
  actions: all keys get the same lifetime and every issue renews the two indexes,
  so they do not expire before the tokens they list. `origin`, `revoked`, `raced`
  are history: a token is *raced* when it was issued into a session or for a user
  whose revocation was under way or had been through.
- **`TokenLineage`** is what rotation promises, without keys or requests: a session
  is one chain of tokens. `RefreshTokens!Chain` maps the one to the other.
- **`VerificationCodes`** is one purpose and one address. `slot` is the code key,
  `snd` and `con` are sends and tries. `EmailPublisher.publish` is two steps:
  `Publish`, where the broker takes the job, and `Confirm`, where the caller learns of
  it and the channel closes. `SendFails` then `Undo` is the `except Exception` branch,
  entered from the SET, from `publish` before the broker has the job, and from
  `publish` after it (a lost confirm, or `close()` raising in the `finally`): in the
  last case the mail goes out and the code is `denied`. `CancelSend` is a
  cancellation, which skips the branch. `settled` are codes that came to their end,
  `withdrawn` those their own sender deleted.
- **`EmailFilter`**: the filter is the set of addresses inserted since it was
  dropped; `MayExist` covers a hit (true or false), an untrusted filter and a
  failing Redis, since all three ask the database. `warm` is `EmailFilterWarmer`
  at each replica; `req` are checks and signups. `RestoreSnapshot` is a Redis that
  restarts with an older filter, marker and lock. `missed` and `spoilt` record the
  ways the code itself leaves open in which a trusted filter lacks a row (see
  `TrustedFilterIsComplete`).
- **`EmailDelivery`**: queues are bags; a handler keeps its message and whether the
  broker still counts it as its own (`leased`). All retry queues are one bag: a
  message's place is given by `attempts`, delays have no duration.
- **`MailPromise`** is what delivery promises whoever asked for a mail: a job the
  broker took stays open until it was mailed, found expired or dead-lettered, and a
  closed job is never mailed; several jobs may close at once. `EmailDelivery!Promise` maps the queues and handlers
  to the set of open jobs.
- **`Accounts`**: tables hold committed rows; an uncommitted insert is a request
  whose `pc` says so (`Inserted`) and blocks other inserts of its address.
  Passwords stand for their hashes. A session is one record, with the credential it
  was granted for and whether its token is in Redis or in the hands of a refresh
  (`rotated`): `Rotate` and `Reissue` are the two halves of `refresh`, `Logout` is the
  revocation of one family, by a logout or a reuse. `revoke_all` is as many steps as it
  has awaits: `RevokeAll` (SMEMBERS), `RevokeFamily` for each family, `ClearIndex`
  (the last DEL); `LogoutAll` enters it without a password change. `_revoke_family`
  deletes the token it finds, and a refresh that has taken it, or takes it between the
  SMEMBERS and the EXEC, issues the next one all the same (`Strike`). Index and family
  sets are left to `RefreshTokens`, so a session that met a revocation (`raced`) is one
  a later `revoke_all` may or may not find. `late` and `spared` are history: the
  password changed while the session's login was under way; a `revoke_all` due to the
  session was not finished. A right code may be presented at any time: what a code is
  worth is the business of `VerificationCodes`.
- **`RateLimiter`**: time in ticks, one scope. A host is an address and the
  allocation it can change its address in; `CallerOf` is `client_address`.
- **`ClientSessions`** puts browsers in front of `RefreshTokens`, whose actions it
  conjoins with what `AuthController` reads from and writes to cookies (`Server` is
  the instance; every step of the server's keys is a step of that module). `call`
  is the HTTP call a request belongs to: sent with the cookie of that moment, served,
  answered, received; each may be delayed past others, and calls and answers may be
  lost. `tangled` marks the clients that had two calls under way, missed an answer or
  had a call abandoned. Expiry of families, indexes and reuse markers is left to
  `RefreshTokens`: a client sees none of it. An access token, once minted, may be
  used at any later time.
- **`SettingsLayers`**: a source is a function from names to values, `++` is
  precedence, and `Settings()` is one step from what it finds to its outcome. What
  a text looks like is left out; a scalar of a file is plain, is one placeholder, or
  has one in it (a list element counts as the last).
- **`Container`** is generic in the registry; **`Wiring`** is the registry of
  `build_container`, translated line by line. A thread's `stack` is the stack of
  factories it is in, and the RLock is held by whoever has a cached service on it.

Definitions marked *Seeded fault* are not part of any model: each is a plausible
bug in the definition that follows it, and putting it in place of that definition
must break the property it is listed with in `PROJECT.json`.

## 3. Runs

Every run is `tlc -config <cfg> <module>`. Deadlock is checked everywhere but in
`container_app`, where both requests simply end, and in `settings_load`, where
`Settings()` is called once. `TypeOK` of each module states the shape of its
variables: it is proved for every component (section 5), only `RefreshTokens`
also checks it in a run, and the other runs are spent on behaviour.

| Run | Bounds | What it shows |
|---|---|---|
| `tokens_safety` | 1 user, 2 sessions, 3 tokens, 2 requests, abandonment | sessions do not fork; tokens not raced stay in both indexes; revoked sessions hold only raced tokens; `revoke_all` is complete; the machinery implements `TokenLineage` |
| `tokens_liveness` | 2 sessions, 2 tokens, 2 requests, fair | a revocation that started ends the tokens it set out to end |
| `tokens_reuse` (finding) | 1 session, 3 tokens, 2 requests | a refresh in flight survives the revocation of its family |
| `codes_safety` | 2 codes, 2 sends, 2 tries | codes end once and stay out, guesses are bounded, a mailed code waits, one mail per cooldown, except where sends or tries overlapped, or a publish raised that had succeeded, in the way the history names |
| `codes_singleuse` (finding) | 1 code, 2 tries | two overlapping tries are both accepted |
| `filter_rolling` | 2 replicas, 2 addresses, 2 requests, every fault, one restore until a rebuild has put it right | a trusted filter is complete but for the named gaps; one rebuilder; locks are only released by their holder |
| `delivery_faults` | 2 jobs, one unreadable, 2 handlers, prefetch 1, 1 retry, 1 crash or lost connection, publish and SMTP faults, fair | delivery implements `MailPromise`; one mail per delivery, bounded tries, refusals are final, dead-lettering only after the retries or a failed publish; every job settles |
| `accounts_safety` | 2 addresses, 2 passwords, 1 identity, 2 nonces, 2 requests, 1 session at a time | five properties below |
| `container_app` | the real registry, 2 requests, 1 get each, raising factories and disposals | four properties below |
| `limiter_window` | 2 addresses of one /64 and an IPv4 host, limit 2, window 2 ticks, counter up to 3, fair | fewer than twice the limit in a window's length for a whole allocation; nobody pays for older requests or for others; throttled callers recover |
| `settings_load` | 2 fields and the stage, 102 816 combinations of sources | four properties below |
| `clients_safety` | 1 user, 2 browsers, 2 sessions, 3 tokens, 2 calls, losses and abandonment | three properties below |

Why the bounds are enough. Two requests are the least that interleave, and every
property relates at most two of them with what a third left behind in Redis or
Postgres, which a sequence of requests through the same slot produces: a slot is
reused after its request ended. Three tokens give a session that is rotated and
another one beside it. Two addresses and one provider subject are needed for an
identity claimed for two users. One job suffices for delivery because jobs do not
interact except for the handlers they occupy; the second one, unreadable, competes
for them. `MaxDrops`, `MaxSessions`, `MaxGets` and
`MaxHits` are the named bounds; `MaxHits` saturates the counter beyond the limit,
where the code no longer looks at its value. Symmetry is used over values the
specification never compares but for equality, and never in a liveness run. The
`View` of `tokens_safety` and `codes_safety` drops history nothing will read again: whether a
dead token was raced, and how a code ended, was mailed or was missed once it is
contended, overrun or denied, which it stays. A token value never becomes live twice
(`ImplementsLineage`), so no property tells two states with the same view apart. The
`View` of `clients_safety` drops the history of tokens that are neither live nor in
a jar or an answer, and of those whose client is tangled, to whom nothing is
promised, and it forgets which families list a token that is neither live nor
marked as used, which no step reads; its `CONSTRAINT` stops where every client is tangled, which none ever
ceases to be. The `View` of `accounts_safety` drops the new password of a request that
has committed it, the row and provider account of one about to issue, and the password
of a session that is late, spared or raced, which no step or property reads again. Each
run is deep enough for its seeded faults to be found.

`accounts_safety`: every user can log in by password or identity, whatever failed
half-way (`EveryAccountHasALogin`); concurrent first logins give an identity one
user (`OneUserPerIdentity`); after a reset or change, a session of the old password
is only left if its `revoke_all` is not finished or was given up, if its login read the
old row and finished late, or if it met a revocation: it was granted or refreshed while
all sessions were being revoked, or a refresh had or took its token when a revocation
came to it (`SessionsEndWithTheirPassword`; the property fails without any one of these
exceptions); a nonce buys one login (`NonceBuysOneLogin`); commits of stale rows lose
no user and no verification, and set no password but the one a reset or change was
given (`NoUpdateIsUndone`; of two resets or changes the last to commit wins).

`codes_safety`: a code that ended is back only if the slot changed between a try's GET
and its SET (`EndedCodesStayOut`), and is accepted again only if contended
(`RedeemedOnce`); wrong tries are limited unless tries overlapped (`GuessesBounded`);
the newest mailed code waits in Redis (`MailedCodeWaits`), and one mail goes out per
cooldown (`OneMailPerCooldown`), unless sends met or outlived their cooldown, or the
publish raised after the broker took the job.

`container_app`: one instance per service and scope (`OneOfEach`); no
instance holds something of another scope (`NothingCrossesScopes`); dependants
are disposed of before what they use (`DependentsGoFirst`); a scope that closed
without an exception kept nothing and touched no singleton
(`ClosedScopesAreEmpty`).

`clients_safety`: a browser that has one call under way at a time and gets every
answer never triggers reuse detection, whatever others do (`NoFalseAlarm`), always
has a cookie that works unless it expired or its own session was revoked
(`CookieWorks`), and a live token is in the jar of its browser or on its way there,
so that clearing the cookie ends the session (`NoOrphan`, with three exceptions: the
browser is tangled, the cookie of its session gave way to the answer of a login or of
another user's logout-all, which revokes nothing of that session (`forsaken`), or the
token was issued against a revocation).

`settings_load`: `app_env` names the stage whose file was read, chosen by the
highest source that names one (`StageIsTheLayer`); in test the `.env` files change
neither a value nor whether loading fails (`TestIsHermetic`); a field that is just
`${DATABASE_URL}` gets the value of `database_url` wherever environment or `.env`
supply it (`PlaceholdersAgree`); a file with an unfilled hole in a composed value
is an error, even under a higher layer that has the field, and whatever else a file
says holds unless a higher layer speaks (`NoHoleIsPapered`).

### Fairness

`tokens_liveness`: weak fairness of the revocation steps of a request, which the
event loop gives a request that is not abandoned. Nothing is assumed of clients.
`delivery_faults`: weak fairness of redelivery after a TTL, of delivery to a
handler with room, and of each handler's next step, since SMTP and AMQP calls time
out. No fairness of sends succeeding, so "settles" includes dead-lettering.
`limiter_window`: time passes.

## 4. Where code and documents differ

- `tokens_reuse`: ARCHITECTURE.md says reuse detection revokes the family. A
  refresh of the same family that already rotated adds its token afterwards, and
  that token works. It is in the index of families again, so a logout-all or a
  further reuse reaches it.
- `codes_singleuse`: ARCHITECTURE.md calls codes single-use; the DEL's result is not
  looked at, so two requests that read the code before either deleted it both
  succeed.
The history variables of the other properties mark further places where the code
is weaker than its one-request reading: a logout during another revocation of the
same session may leave the presented token alive (`raced`); overlapping wrong
tries are counted once (`contended`); a signup overtaken by a rebuild, or whose
insert and withdrawal both fail, is missing from a trusted filter (`missed`), which
the unique index of `users` makes up for at signup but not in the availability
endpoint; a retry copy that cannot be published goes to the dead queue with its
retries unused (`unsent`), as `test_email_worker.py` expects; a `change_password`
may overwrite the password of a reset that committed after it checked the old one.

A publish that raises is taken for a mail not sent. If the broker had the job (the
confirm was lost, or `channel.close()` raised), the `except` branch at
`auth_service.py:178-180` deletes the code of a mail that goes out, and lifts the
cooldown, so that a second mail may follow in the same minute (`denied`).

A refresh that has rotated issues its next token whatever was revoked meanwhile, also
after the `revoke_all` of a reset or change: a session of the old password then goes on
(`raced` in `Accounts`), as does that of a login that had checked the old hash (`late`)
and every session left when `revoke_all` fails after the commit (`spared`).

A rebuild of the filter stopped by `wait_for` gets `CancelledError`, which the
`except Exception` that gives the lock back does not see: the lock stays for its
lifetime, with the filter dropped and so not trusted, although the comment at
`email_filter_warmer.py:71` says a failed rebuild lets "another replica can
retry immediately" (`Timeout` in `EmailFilter`). A login over an existing cookie leaves the
replaced session alive until it expires or is revoked, and so does a logout-all with
an access token of another user than the cookie's (`forsaken`).

## 5. Proofs

Every modelled component has its proofs in a module beside it, `<Module>_proofs`;
`Application_proofs` has those of `Container` and `SettingsLayers`. What is
proved holds for every value of the constants: any number of requests, replicas,
handlers or browsers, any sets of users, tokens, codes and addresses, any limits,
with and without each fault. The only assumptions are the named `ASSUME`s of the
modules, which TLC evaluates on the instances it checks:

| Assumption | What it says, and why the code justifies it |
|---|---|
| `NilAssumption` (five modules) | "no value" is none of the values |
| `UserOfAssumption` | a session is of one user: `TokenService` writes the user into every key of the family |
| `FaultsAssumption`, `MaxSessionsAssumption` | the range of a parameter |
| `DeliveryAssumption` | prefetch is positive and the number of retries a natural number |
| `HostsAssumption` | what an address is: hosts of one IPv6 allocation may have any address of it, an IPv4 host has its own, and a host without an address is "unknown" |
| `LimiterAssumption` | limit and window are positive (`ge=1` in the settings) |
| `RegistryAssumption` | the shape of a registry |
| `LayersAssumption` | no factory asks, over whatever detours, for its own type; `Wiring!AppLayer` gives the layers of the real registry, and TLC checks them |
| `StagesAssumption`, `NormalAssumption`, `FieldsAssumption` | "dev" and "test" are stages and "default" is none; a spelling normalises to a stage or is refused; the fields are those with a default, `app_env` apart |
| `SuppliesAssumption` | sources give texts, never nothing: `interpolation_env` drops names without a value, and what `APP_ENV` says is a spelling |
| `FilesAssumption` | a YAML mapping has one value at each path, and a text with its hole filled is a text |

Every component's `TypeOK` is proved too (`TypeCorrect`, `SettingsTypeCorrect`). The other theorems, each
`Spec => []P` for an invariant and `Spec => P` for an action property or a
refinement:

| Module | Theorem | Property |
|---|---|---|
| `RefreshTokens_proofs` | `SessionsNeverFork` | `NeverForks` |
| | `LiveTokensAreReachable` | `ReachableUnlessRaced` |
| | `RevokedSessionsStayDead` | `RevokedSessionsAreDead` |
| | `RevokeAllLeavesNoToken` | `RevokeAllIsComplete` |
| | `RefinesLineage` | `ImplementsLineage`, step simulation of `TokenLineage` |
| `ClientSessions_proofs` | `ServerBehaves` | `Server!Spec`: behind the cookies the server is `RefreshTokens` |
| | `NobodyIsFalselyAlarmed` | `NoFalseAlarm` |
| | `NoSessionIsOrphaned` | `NoOrphan` |
| | `CookiesKeepWorking` | `CookieWorks` |
| `VerificationCodes_proofs` | `EndedCodesAreGone` | `EndedCodesStayOut` |
| | `GuessesAreBounded` | `GuessesBounded` |
| | `MailedCodesWait` | `MailedCodeWaits` |
| | `OneMailAtATime` | `OneMailPerCooldown` |
| | `CodesAreRedeemedOnce` | `RedeemedOnce` |
| `Accounts_proofs` | `AccountsHaveALogin` | `EveryAccountHasALogin` |
| | `IdentitiesAreUnique` | `OneUserPerIdentity` |
| | `StaleSessionsAreAccounted` | `SessionsEndWithTheirPassword` |
| | `NoncesBuyOneLogin` | `NonceBuysOneLogin` |
| | `CommitsAreKept` | `NoUpdateIsUndone` |
| `EmailFilter_proofs` | `TrustedFilterKnowsAll` | `TrustedFilterIsComplete` |
| | `OnlyOneRebuilds` | `OneRebuilder` |
| | `LocksEndWithTheirOwner` | `LockIsOwn` |
| `EmailDelivery_proofs` | `MailsAreBounded` | `OneMailPerDelivery` |
| | `TriesStayBounded` | `TriesAreBounded` |
| | `RefusalsAreFinal` | `RefusedIsFinal` |
| | `DeadLettersAreJustified` | `DeadAfterRetries` |
| | `PromiseIsKept` | `ImplementsPromise`, step simulation of `MailPromise` |
| `RateLimiter_proofs` | `BurstsAreBounded` | `FewerThanTwiceTheLimit` |
| | `OldRequestsAreForgotten` | `OnlyRecentRequestsCount` |
| `Application_proofs` | `ServicesAreShared` | `OneOfEach` |
| | `ScopesStayApart` | `NothingCrossesScopes` |
| | `DisposalIsOrdered` | `DependentsGoFirst` |
| | `NothingLeaks` | `ClosedScopesAreEmpty` |
| | `StageIsAlwaysTheLayer` | `StageIsTheLayer` |
| | `TestIsAlwaysHermetic` | `TestIsHermetic` |
| | `PlaceholdersAlwaysAgree` | `PlaceholdersAgree` |
| | `NoHoleIsEverPapered` | `NoHoleIsPapered` |

`Application_proofs` is about both parts of `src/backend/src/application`: it extends
`Container` and `SettingsLayers`, whose names are therefore apart (`SettingsSpec`,
`SettingsTypeOK`); neither uses the other.

Each component has one inductive invariant, `IInv`, the conjunction of named parts.
TLC checked each on small instances before it was proved. There is one step lemma
per part (or per group of parts that need each other), with one case per action;
`InvInit`, `InvStep` and `InvAlways` put them together, and each theorem is a
corollary. Why the properties alone are not inductive:

- **`RefreshTokens`**: `TypeOK`, `OriginsAgree`, `RequestsAgree`, `NeverForks`,
  `AllTracked`. A fresh token must be fresh in every key (`OriginsAgree`: every live
  token, reuse marker and family member has the session of its origin), and a
  request between rotation and reissue must be the only heir of its session
  (`RequestsAgree`). `AllTracked` strengthens reachability by what a revocation in
  flight knows: a live token that is not raced is in its family set and index, or in
  the digests read by the request that is about to delete it. The refinement proof
  (`ChainStep`) shows that an action changes the head of at most one session
  (`MovesOneHead`) and which step of `TokenLineage` that is.
- **`ClientSessions`**: the server's `IInv`, which carries over because every step is
  one of the server or leaves its keys alone (`ServerMoves`; the lemmas `Same...`
  only bridge two instances of one module), then `TypeOK`, `CallsCarry`,
  `TokensStay`, `OneCall`, `CookiesFit`, `NoFalseAlarm`, `NoOrphan`. `TokensStay`
  says that a token never leaves the browser it was minted for, so that nothing
  another browser does reaches an orderly one except by ending its tokens (`Kept`).
  `CookiesFit` says what becomes of the cookie in the jar while the one call of such
  a browser is under way: unused until the call is served; dead once a refresh has
  used it; its session about to be revoked, then revoked, by a logout. That a
  refresh presents an unused cookie is `NoFalseAlarm`, and that the answer clears or
  replaces nothing alive is `NoOrphan`.
- **`VerificationCodes`**: `EndedCodesStayOut` holds because a consumer of a code
  that nobody touched is alone with the slot as it read it (`Undisturbed`);
  `GuessesBounded` because the attempts stored are the wrong tries answered
  (`AttemptsCount`); the two properties about mails because a sending that met no
  other is the only one and within its cooldown (`SendsAlone`), and because the
  newest code is in the slot while it is being published and from then on
  (`NewestWaits`). `MailsAreSent` says that a sender whose code the broker took is
  waiting for the confirm or was told otherwise. `CodesAreOwn` and `StoreIsFresh` say
  that nobody has a code before it is stored.
- **`Accounts`**: what a request carries at each await (`RequestsCarry`), that the
  user it works on is there to stay (`UsersStay`: no operation deletes one), that
  the unique index lets one transaction at a time have inserted an address
  (`InsertsAreUnique`), and that a nonce is with the store, one request or one
  session (`OneBearer`, which is `NonceBuysOneLogin` made inductive).
  `SessionsEndWithTheirPassword` is inductive beside them: every step but `Issue` lets
  sessions end or go on with what was granted and marked (`SessionsGoOn`, `SameGrant`),
  a request about to revoke goes on to do so or marks what it leaves (`EndingGoesOn`,
  `Abandon`), and when it ends, with `ClearIndex`, only raced sessions are left.
- **`EmailFilter`**: `Covered` says what a rebuild that is filling the filter still
  has to insert: users and transactions about to commit are in the filter, among the
  recorded exceptions or in the rest of the batch; for that, whoever works on the
  filter must hold the lock (`LockIsHeld`), and nobody may trust what is being
  filled (`NotTrustedYet`). All of it under `~spoilt`: no rebuild overran its lock
  and no snapshot was restored since a rebuild last started over alone.
- **`EmailDelivery`**: a weight for every copy of a job and every handler that holds
  one, and the budget of a job, their sum. `ChancesAreCounted` weighs a chance to be
  mailed as 1, `TriesAreCounted` by the tries that are left; publishing and
  redelivery put something into the budget (`Entries`), mails, refusals and tries
  take it out, and moving a job between queues and handlers leaves it alone. The
  sum is the cardinality of a set of units, so that no induction over queues is
  needed. `DeadAfterRetries` and `RefusedIsFinal` are about single messages.
  `NothingIsLost` is what the refinement rests on: a job in work has come to
  something, or waits in a queue, or is held by a handler that has not decided yet.
  A crash can take away the last copies of several jobs, so `MailPromise!Close`
  closes any set of jobs of which something has come.
- **`RateLimiter`**: `Sound` relates a counter to the histories. `InWindow`
  splits the last `Window` ticks at the tick the window was opened in: what passed
  since is counted and within the limit, what passed before is less than the limit,
  because the hit that opened the previous window is too old to be seen (the reason
  for *fewer* than twice). `Total`, the requests of a range of ticks, is defined as
  the cardinality of a set of pairs for the same reason as above.
- **`Container`**: `Kept` and `MadeBelong` relate caches to instances,
  `FramesBelong` says that a running factory is handed nothing of another scope,
  `BeingBuilt` that there is no instance yet of what is being built, for which
  `LayersFall` is needed (a factory cannot come back to its own type) and `OneHolds`
  (no other thread builds a shared service meanwhile); `ScopesEnd` says when
  disposals happen.
- **`SettingsLayers`**: the invariant is short (`Resolved`: the outcome and the files
  read are what the input makes of them), as there is one step; the work is in what
  that step computes. `StageOfIs` shows that merging constructor, environment and any
  number of .env files asks them in the order of precedence, `LayerIs` that a usable
  file has one value per field, `MergedIs` and `SettingIs` which source a field is
  from, and `EnvIs` that a placeholder sees what the setting of that name sees.

Only model-checked: `RevocationTakesEffect`, `EveryJobSettles` and
`ThrottledCallersRecover`, which are liveness under fairness and out of the
prover's reach. The two findings are counterexamples and have nothing to prove.

## 6. Assumptions of the models

- Lifetimes of tokens, families and indexes are equal and constant: lowering
  `auth_refresh_token_days` between restarts is not modelled.
- A code's TTL and its write-back are one step; the difference is less than a
  second of its lifetime.
- Postgres loses no committed write, and neither does Redis, except that
  `EmailFilter` has it restart from an older snapshot (the comment at
  `email_filter_warmer.py:74` is about that).
- The cuckoo filter has room: `CF.INSERT` does not answer -1.
- The database runs READ COMMITTED (the default) and SQLAlchemy updates only
  assigned columns (the default).
- A job the broker takes after its publish was given up counts as taken before.
- The provider's token, if it verifies, is about a subject and some address.
- A request's scope is closed after its thread is done.
- Application startup resolves `ApplicationServices` and `EmailFilterWarmer` from
  the root before requests come; `container_app` lets requests build the former.
- A browser stores the cookie of an answer when it receives it, and attaches the
  cookie it has when it sends; a call takes any time in between.
- `.env` and YAML files do not change while `Settings()` reads them, and the variable
  of a field is spelled as in `.env.example` (the settings library ignores case,
  placeholders do not).

## 7. Plan

1. Done: the components above, checked, with `RefreshTokens`, `TokenLineage`,
   `EmailDelivery`, `MailPromise` and `ClientSessions` as compositions and
   refinements; every safety property of every component proved, as are both
   refinements.
2. Proofs that may follow: a second abstract specification for `Accounts` or
   `EmailFilter` (what a signup promises) with its step simulation; the action
   properties of a handler's commit order.
3. Compositions that may follow: codes, accounts and refresh tokens as one account
   recovery, where the code step and the revocation of a reset are the detailed ones;
   delivery and codes, where a retried mail carries an older code.

## 8. Not modelled

Access tokens (stateless JWTs, signed and checked by a library); validation of
request bodies, wording of errors, response headers and logging, which keep no state;
email normalisation and mail rendering; clients of OpenSearch and S3, which nothing
uses yet; connecting and closing the infrastructure clients, and readiness probes
(I/O whose failure ends the start or is reported); migrations, beyond the unique
constraints they create; the frontend, a starter page.
