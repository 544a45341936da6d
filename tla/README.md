# Llamero in TLA+

Llamero puts an HTTP server with accounts in front of a set of Ollama
instances ("backends").  This directory holds TLA+ models of its core, the TLC
configurations that check them and machine-checked proofs about them.

## 1. The system

| component | code | state it keeps | operations |
|---|---|---|---|
| backend registry | `internal/redisstore` | Redis: sorted set `backend:status`, one hash `backend:meta:<id>` per backend | save, delete, list, get |
| registration and synchronisation | `internal/service/backends.go`, `cmd/server/main.go` | records in the memory of each process between two calls | `RegisterBackends`, `SyncBackends`, `SyncBackendByID` |
| request routing | `internal/service/backends.go`, `internal/handler/llm_proxy.go`, `internal/handler/backends.go` | one listing per request | `RouteBackend`, `LookupBackendRoute`, one proxied call |
| tasks | `internal/workers`, `cmd/worker`, `cmd/scheduler` | the asynq queue in Redis | enqueue, run, retry, schedule |
| model catalogue | `internal/service/models_api.go` | none | list, get |
| access tokens | `internal/service/tokens.go`, `internal/handler/tokens.go` | Postgres table `tokens` | create, list, get, revoke, validate |
| session tokens | `internal/auth` (`token.go`, `verify.go`, `claims.go`) | none | issue, verify |
| OAuth login | `internal/auth/state.go`, `internal/handler/oauth.go` | state tokens in memory; table `users` | login, callback |
| authorisation | `internal/middleware/authz.go`, `internal/router` | none | authenticate, require scopes |
| roles | `internal/roles` | the index from group to role, built once | load, resolve |
| process lifecycle | `cmd/*/main.go`, `internal/server`, `internal/db` | what is open, and how to close it | start, serve, shut down |
| UI | `ui/` | a token in the browser's storage, the profile, lists | log in and out, refresh, administer |
| configuration, database access, logging, generated API code, nginx | `internal/config`, `internal/db`, `internal/repository`, `internal/middleware/logging.go`, `docs`, `nginx` | none of their own | |

How they interact:

* The server, on every start, *registers* the backends of its configuration
  file in Redis and *synchronises* all of them (asks each for its models) before
  it serves.  Workers synchronise all backends when the scheduler says so (every
  five minutes by default) and one backend after an administrative request.
  Redis is shared and nothing is locked: a process reads a record, calls the
  backend for up to ten seconds, and writes the whole record back.
* A request for a model lists the registry and goes to the first of the healthy
  backends in the best class: model loaded, model installed, neither.  An
  administrative request names its backend.
* A user logs in at an OAuth provider and gets a session token; with it he
  makes access tokens that are kept, and can be revoked, in Postgres.

What is hard, and what makes each part correct:

| component | hard behaviour | what must hold |
|---|---|---|
| registration and synchronisation | interleaved reads and whole-record writes of several processes; restarts with another configuration; a configuration refused half way; Redis failures | the registry is the configuration; what it says of health has been observed; no configured backend is lost, none removed without reason; starting and tasks end |
| routing | a listing is many Redis calls | an answer is justified by records that held all the time it was made; load is spread |
| tasks | retries, an older answer saved last, a lost enqueue | a change of a backend is seen in the end |
| access tokens | revocation against a request in flight; a row stored and no token issued | a revoked or expired token starts no request |
| OAuth login | concurrent callbacks, expiry | a state is used once and not after its expiry |
| roles | order of a map iteration | a user gets the same role after a restart |
| lifecycle | shutdown against long answers; a listener that fails under requests | what requests use is closed under them only after the deadline or such a failure; a clean exit has let all of them end |
| UI | answers that arrive after a logout | the profile shown belongs to the session in force |

Roles are parsed and resolved in `config` and `roles`; they take part in a login
(which role?) and in every later request (which scopes?).  Keys are files that
each server loads for itself, so a token outlives the server that signed it.

`PROJECT.json` lists the hazards at their lines and the properties that cover
them.

## 2. The modules

```
BackendStore                   Redis: index, meta
   |-- BackendRegistry         abstract: what readers may assume
   |-- BackendSync             server and workers; implements BackendRegistry
   |      |-- MCBackendSync    instances for TLC
   |      `-- BackendService   with requests; implements RequestRouting
   |             `-- BackendSyncProofs
   `-- RequestRouting          requests, composed with BackendRegistry
          |-- MCRequestRouting
          `-- RequestRoutingProofs

TaskPipeline                   administrative request, queue, schedule, workers
   |-- MCTaskPipeline
   `-- TaskPipelineProofs

ModelCatalog                   what a ping learns, and the catalogue made from it
   |-- MCModelCatalog
   `-- ModelCatalogProofs

PatLifecycle                   tokens in Postgres, and requests that bear them
   |-- MCPatLifecycle
   `-- PatLifecycleProofs

Roles                          operators: group to role, role to scopes
   |-- RoleStore               restarts of a server that resolves roles
   |      `-- MCRoleStore
   |-- OAuthLogin              state tokens, callbacks, the table of users
   |      `-- MCOAuthLogin
   `-- LoginProofs             about both

SessionTokens                  keys, signing and verifying over restarts
   |-- MCSessionTokens
   `-- SessionTokensProofs

ProcessLifecycle               start and stop of server, worker and scheduler
   `-- ProcessLifecycleProofs
```

But for BackendService, the modules meet at what one part promises another, not
in one state space: RequestRouting runs on the abstract registry that BackendSync
implements;
TaskPipeline takes from BackendSync which steps a task consists of and counts
the states of a backend instead of naming its models; ModelCatalog has those
models and takes a whole ping as one step; PatLifecycle's `Issue` is the
success of OAuthLogin's callback, and its tokens are good or not as
SessionTokens decides.

**BackendStore** is the state in Redis.  `index` is the sorted set, `meta` the
hashes.  `SaveBackend` and `DeleteBackend` are one step each because the code
uses `MULTI/EXEC`.  Every caller saves with score 0, so `ZRANGE` returns the IDs
in lexicographic order; here IDs are numbers and `IsFirst` is that order.  A
record keeps address, health, installed and loaded models.  `observedAt` is not
in Redis: it is the address whose answer health and models came from, and what
`Observed` is about.  Latency, tags and timestamps decide nothing and are left
out; weights are never written to Redis.

**BackendRegistry** is the abstract specification: records are configured and
removed while the server does not serve; while it serves they are only
refreshed, and one that says healthy has been observed at its address; a server
that starts after a clean synchronisation finds only such records.

**BackendSync** is `RegisterBackends`, `SyncBackends` and `SyncBackendByID` for
one server and a set of workers (a worker stands for a goroutine of the worker
process: asynq runs up to `LLAMERO_WORKER_CONCURRENCY` tasks at once, and there
may be several such processes).

| action | code |
|---|---|
| `Boot` | the configuration is read and `ListBackends` sends `ZRANGE` |
| `LoadBackendStatus` | one `HGETALL` of `ListBackends` |
| `Seed`, `Reject` | one turn of the first loop of `RegisterBackends`: the record is saved, or the definition is refused and the server exits |
| `Prune` | one turn of the second loop, which ranges over a map: in any order |
| `StartBootSync`, `EndBootSync`, `BootSyncFails` | the call of `SyncBackends` in `run`, whose error is only logged |
| `StartSyncAll`, `StartSyncOne`, `EndTask` | the handlers of the two tasks |
| `ListFails`, `List`, `ListRunning` | `/api/tags` fails, `/api/tags` answers, `/api/ps` answers or fails (no loaded models) |
| `SaveRefreshed` | the end of `syncBackend` |
| `ServerStops`, `TaskAborts` | a crash, a signal or a Redis error between any two calls |

The server's and the workers' steps in `SyncBackends` are the same actions.  A
process's memory is `todo` (IDs still to load), `got` (records held) and `reply`.
`stale` and `overlap` are history variables: which tasks began before the
configuration in force was registered, and whether one has saved since.

**RequestRouting** is `selectBackend`, `LookupBackendRoute` and the handlers
around them, composed with the abstract registry: `RegistryMoves` is any step of
`BackendRegistry`, so what is shown of requests holds with every implementation
of it.  `seen` is a history
variable: what was true of the registry at every moment since the request's
`ZRANGE`.  A request without a model is refused before it is routed, so the
branch of `selectBackend` for an empty model cannot be reached; nor can the
checks for a blank address, since registration refuses blank addresses and
nothing else writes one.  The payload of an administrative request is read after
its backend was found (`PayloadRefused`); that of an LLM request before, so a
refusal never reaches this model.

**BackendService** is both of them: a step of BackendSync (`Maintain`), which a
server that exits ends its requests with, or a step of a request
(`ServeRequest`), which reads what is in Redis at that moment.  Its requests are
an instance of RequestRouting, so nothing is modelled twice.

**PatLifecycle** is the authorisation middleware and the handlers of access
tokens.  `tokens` is the table, by the token's identifier; the record's own
primary key, the name and the timestamps are left out, but for whether it was
ever marked as used.  `held` is the set of signed tokens that exist outside the
server: what a client sends is one of them, so signing and its verification come
down to membership, and expiry is a comparison.  A revocation and a lookup are
each one SQL statement and one step; between any two statements of a request
other requests run, time passes, and the request may fail or be dropped.

| action | code |
|---|---|
| `Issue` | a login gives a session token with the scopes of the user's role at that time; `granted` (history) adds them up |
| `Verify`, `VerifyFails` | signature and expiry; `dead` (history) is what had been revoked when the request arrived |
| `GetTokenByJTI`, `RefusePAT`, `MarkTokenUsed` | `ValidatePAT`: the record is read and checked, and then marked |
| `Authorize`, `InsufficientScope` | the scope that `Require` asks for |
| `RefuseManaging` | handlers of access tokens refuse a bearer of one |
| `RefuseMalformed`, `RefuseCreate` | 400 and 403 before anything is stored |
| `CreateToken`, `IssuePAT` | the record is inserted, then the token is signed and answered |
| `ListTokens`, `GetToken`, `RevokeToken`, `RevokeNotFound` | queries that compare the user |
| `Use` | any other route |
| `Fails`, `Drop`, `Finish` | a failing call is answered with 500; the client or the server goes away; the answer is sent |

The clock of the JWT library and that of `ValidatePAT` are the same one; a token
is good before its expiry for the first and up to it for the second, and both
bounds are in the model.  The JWT keeps whole seconds and the record fractions,
which is below the clock's unit here and the subject of SessionTokens.
`Grants` says which sets of scopes the logins of each user may give: his role may
change between two logins.

**TaskPipeline** follows one change from the administrator to the registry.
`version` counts how often a backend's models have changed, `seen` is the version
its record shows.  `due` (history) is the version that the registry owes because
an administrator was told of it, `excused` the backends for which a fault is on
record, `overtaken` which records of a worker another worker has saved since it
loaded them.

| action | code |
|---|---|
| `StartRequest`, `RequestFails`, `BackendAnswers` | the handler up to the backend's answer, with which the models have changed; what a backend did although its answer was lost is a `Drift` |
| `EnqueueSyncBackendByID`, `EnqueueFails`, `NotSynced`, `ClientLeaves` | the task after a success, with the request's context, whose error is only logged; operations that queue none |
| `Schedule` | the scheduler queues the task for all backends; it does not look whether one is queued already |
| `Take`, `Load`, `Ping`, `Save`, `Finish` | a worker takes a task, lists the records (one or all), pings and saves one after the other |
| `Fail`, `Crash`, `Requeue` | a Redis error ends a task, a worker dies with its goroutines; asynq queues the task again until `MaxRetry` |
| `Drift`, `BackendStops`, `BackendReturns` | somebody changes the models behind Llamero's back; a backend goes down and up |

asynq is not in the repository and modelled from how it is used: a task is at
one worker at a time, is retried when the handler fails or its worker is lost,
and is archived after the limit.  Its delay before a retry is any time.

**ModelCatalog** has the data that the other modules count.  A ping's two answers
become installed models, loaded models and metadata (`FetchInstalledModels`);
`Saved` is what Redis keeps of them: names joined with commas in two lists, names
as JSON keys in the metadata.  `Catalogue` is `collectModels`.  A name is a sequence of
words that commas separate, so that it can come back in pieces.

**Roles** translates `parseRoleGroups`, `Load` and `Resolve` as operators.  Go
ranges over a map in any order: `GroupIndexes` is the set of indexes that the
loop may build, one for each order.  **RoleStore** is a server that is started,
stopped and configured, and a user who logs in.

**OAuthLogin** is `Login`, `Callback` and `Profile`.  Every call of the callback is
a step, so callbacks of one user overlap; the provider's accounts change
meanwhile, and `edits` tells how new a row or a session is.

| action | code |
|---|---|
| `Login` | clean up, issue a state token |
| `StartCallback`, `RefuseState`, `RefuseCallback` | the parameters, and `Consume` under the store's lock |
| `ExchangeCode`, `FetchUserInfo`, `ProviderFails` | the two calls to the provider |
| `RefuseUser` | no role for his groups |
| `UpsertUser`, `UpsertUnanswered`, `UpsertFails` | the row is written, is written but the answer is lost, or not written: an error, or the email is in another row |
| `Issue`, `IssueFails` | the session token; or it is not signed, and the row stays |
| `Profile` | reads the row of a session's user |
| `Restart`, `EditAccount`, `Tick` | what is in memory is lost; the provider; the clock |

**SessionTokens** has key files, what the two loaders make of them, and a
sequence of servers with different configurations.  A signature is the pair of
the key it was made with; a clock finer than a second shows what rounding
does.  `Verifies` is a state function, asked of every token in every state.

**ProcessLifecycle** is the skeleton that the three programs share: `Startup` lists
the steps of each, `StepFails` any failure of one, `Signal` and `Kill` what a
signal does before and after it is handled, `Shutdown`, `Drained`, `Deadline` the
graceful stop, `CloseNext` one closer.  `RunFails` is `ListenAndServe` returning an
error by itself, at first or with requests in progress: `Run` then returns without
`Shutdown`, and the deferred `Close` goes on under those requests, to which kept
connections may add.  The queue's server and its scheduler fail while they start
(the step `run`) or not at all; that is the library's doing, not this code's.  A job is a request or a task; one that
acquires a connection finds the pool closed as soon as its closer was called.
Streamed answers may last for ever.

## 3. Runs

| run | instance | states | what it shows |
|---|---|---|---|
| `sync` | 2 backends, 2 addresses, 1 worker, 3 configurations (both backends; one moved in a file that is refused; none), fairness | 865,000 | the invariants of registration and synchronisation, `ImplementsRegistry`, `WorkEnds` |
| `sync_refresh` | a backend removed while the other one moves | | violation, section 4 |
| `routing` | 2 backends, 1 model, 1 request, fairness | 620,000 | the four properties of routing, `ListingEnds` |
| `routing_spread` | the same | | violation, section 4 |
| `pat_lifecycle` | 2 users (an administrator and one with the scope of profiles only), 1 access token, 2 requests; all lifetimes 1, time runs to 1 | 2.4 million | the six properties of access tokens |
| `role_store` | 2 roles, 2 groups, settings of up to two items, seven files | 43,000 | `RoleIsOfFirstGroup`, `RoleIsStable` |
| `oauth_login` | 2 users, 2 addresses, 2 state tokens, 2 callbacks, one edit of each account, time runs to 2 | 1.6 million | the five properties of logins |
| `task_pipeline` | 2 backends, 1 request, 2 tasks, 2 workers, 1 retry, 2 faults, fairness | 1.4 million | no change is forgotten; records go back only if overtaken; the registry catches up |
| `session_tokens` | 3 pairs of keys, 24 configurations, half seconds | 47,000 | who accepts which token, and when |
| `session_derived` | the same | | violation, section 4 |
| `model_catalog` | 2 backends, 19 answers, names with commas | 6,000 | types, `CatalogueIsRouted`, `ListedOnce` |
| `process_lifecycle` | each program, 3 jobs, fairness | 1,100 | `GracefulStop`, `ClosedAtExit`, `StopEnds` |

Bounds.  In `BackendSync` and `RequestRouting` no counter is bounded: all
variables range over finite sets, and servers restart and tasks run for ever.
Two backends are what it takes to remove one and move another, to have an
address change its backend and to have a listing that is torn; two addresses, to
move one.  A server and a worker show every race of a read and a write; the
races of two workers are `task_pipeline`'s, and `BackendSyncProofs` covers any
number of them.  `Models` is empty in the runs of `BackendSync`: no guard of it
reads a model; one model is enough for a request, which names one.  Requests for
a model do not interact, so one is enough.

`PatLifecycle` bounds the clock by `MaxTime` and the access tokens ever made by
`Jtis`: a token is made, used, revoked and expires within them, and two requests
are what it takes to revoke one while it is validated.  Two users tell an owner
from another, and their different roles a scope that was granted from one that
was not.

`TaskPipeline` bounds what happens to the backends and the faults (`MaxFaults`
counts Redis errors, failed enqueues, crashes and stops of a backend; a client may
leave at any time), not how often the scheduler queues or workers work.  Two faults
are a task given up after its retry, or a crash and a lost enqueue; two workers are
an overtaken save.  The second backend's models change, by the request or behind
Llamero's back; the first, which a task for all refreshes before it, may stop for
good.  `OAuthLogin` bounds the clock, the
state tokens ever issued and the edits of each account; a state token is issued,
expires, is cleaned up, and is lost in a restart.  Two callbacks are one user's
that overlap or two users' with one address.  `SessionTokens` has tokens that
expire on a whole second and between two.  `RoleStore` ranges over settings with
repeated roles, groups with two roles, blanks and malformed items, and files with
a role that has no scopes, is repeated, or is missing.  The proofs need none of
these bounds.

Symmetry is used where no property is temporal under fairness: requests in
`pat_lifecycle`, callbacks and state tokens in `oauth_login`.

Deadlock is checked in every run but `process_lifecycle`: a process that has
exited does nothing more.

Fairness.  `BackendSync` assumes weak fairness of `ServerStep` and of each
worker's `TaskStep`: a goroutine with work left goes on, and every call it waits
for ends, the two calls to a backend because of their timeout of five seconds
each, and Redis calls because the client has its own timeouts.  Nothing is
assumed to start a server or a task, or to fail.  `RequestRouting` assumes weak
fairness only of the steps of a handler that list and decide.  Nothing makes a
backend answer a proxied request: that client has no timeout.  `TaskPipeline`
assumes that the scheduler never ceases to queue when there is room, and that a
worker goes on, a ping ending by its timeout; not that a backend answers, that a
request ends or that a fault happens.  `ProcessLifecycle` assumes that a step of the
start ends one way or the other, that a query ends, and that a process goes on
with its stop; not that a request ends.

## 4. Where code and words differ

* `sync_refresh`.  The comment says that `SyncBackends` refreshes health and model
  metadata.  It writes whole records back, so a task that began before a restart
  with another configuration restores an old address, or registers again a
  backend that was removed.  Both stay until the server starts again.
  `RegistryIsConfig` states what does hold: the registry is the configuration
  until such a task saves.
* `routing_spread`.  The README calls Llamero a load balancer.  Of backends that
  serve a model equally well the first one gets every request.
* `session_derived`.  The comment of `NewTokenVerifier` says that it derives the
  public key from the private key if need be.  It gives the bytes of the private
  key file to parsers that expect DER, while `NewTokenIssuer` only takes PEM: a
  server without a public key file does not start.

## 5. Proofs

All theorems hold for any sets of backends, addresses, models, names, answers,
workers, requests, users, tokens, keys and configurations.  Their assumptions are
those the modules name: IDs are numbers, the special values are none of the
ordinary ones, the server is not a worker, configurations, settings and answers
are well formed, a piece of a name is a name, models and IDs are disjoint, bounds
and lifetimes are numbers.

Every invariant and action property of the runs that pass is stated by a
theorem.

`BackendSyncProofs`: `TypeCorrect` is the type invariant.  `Inductive` proves
`IInv`, three parts:

* `TypeOK`;
* `ObservedInv`: a record says healthy without evidence only while the server
  that wrote it, or one after it, has still to refresh it.  `HealthIsObserved`
  alone is not inductive, for it says nothing of the time before the server
  serves: one must know that whatever is unobserved in Redis is held, or still to
  be loaded, by the server's synchronisation, and that no *worker* ever writes
  health it has not observed;
* `ConfigInv`: what registration has saved so far and what it has still to
  prune, and that a worker that is not in `stale` holds only records of the
  configuration in force.

From it follow `ServedHealthIsObserved`, `RegistryFollowsConfig`,
`ConfiguredStays`, the action property `RemovalIsPruning`, and `Refinement`:
`BackendSync!Spec => BackendRegistry!Spec` under the mapping in `BackendSync`.

`RequestRoutingProofs`: `RoutingInv` strengthens the four properties by what a
listing knows half way: each ID that was listed, or whose record has been usable
all the time, is either still to be loaded or loaded as usable (`SeenRead`), and
while it lists, no listed backend disappears (`SeenHolds`), because the registry
removes none while the server serves.

The two meet in `ServiceRefinement` (in `BackendSyncProofs`): BackendService
implements RequestRouting.  A step of registration or synchronisation is a step of
the abstract registry by `RegistryStep`, the lemma of `Refinement`; the requests'
own steps are the same on both sides.  `ServiceServes` then cites the theorems of
`RequestRoutingProofs` for an instance of it: the four properties hold of requests
over the registry that a starting server and any number of workers write, one
Redis or HTTP call at a time.  Its hypothesis is what RequestRouting assumes of
its constants.  No listed run has both state spaces at once; TLC agreed with
`ImplementsRouting` and `RequestsServed` on one with two backends and one
with one backend and one model, each with one worker, one request and no fairness
(330,000 and 240,000 states).

`ModelCatalogProofs`: `CatalogInv` says that a record agrees with itself (`Agrees`):
both lists come back from Redis as they are, and the pieces of the names that the
metadata is about are the models of the two lists.  `CatalogueIsRouted` compares
what different readers make of different fields and is not inductive without it: a
failed ping or a new registration saves again what was read, and that must not
change anything.  `Catalogue` is a recursive function over the backends; what it
has collected after each (`Collected`, `Listed`) is proved by induction in the
form of a set of numbers that contains 0 and every successor.  From both
follow `RoutedAlways` and `ListedOnceAlways`, and `FallbackNeverLists`: the branch of
`collectModels` for records without metadata lists no model of a record that this
program wrote.

`LoginProofs`, for RoleStore: `StoreInv` says that every decision in the history was
made with an index that `Load` may have built from the configuration then in force.
A map in which no group has two roles has one index, whatever the order in
which `Load` ranges over it, so `RoleSurvivesRestart` follows (`OneIndex`).
`FirstGroupDecides` compares what the code does (items parsed one after the other,
names deduplicated, the first group in the index) with what the setting says of the
user's groups.  `Dedupe` is a recursive function; `Deduped` says what it leaves, by
induction over how much of the sequence it has read.

`LoginProofs`, for OAuthLogin: `LoginInv` adds to the types what the map of state
tokens says of the past (`StateInv`: a token in it has let nobody through and
belongs to the running process), that nothing is newer than the provider's
account (`NewestInv`), and `RowInv`: a callback that was not overtaken would write
a row no older than any session given out, or about to be.  `SessionsHaveUsers` is
not inductive without the sessions about to be made.  From it follow
`TypeCorrect`, `StateOpensOnce`, `StateOpensInTime`, `EverySessionHasUser` and
`OwnEmailIsFree`.

`PatLifecycleProofs`: `PatInv` strengthens the properties of access tokens.  That
a request whose token was revoked is refused is not inductive: one must know that
whatever was revoked when the request arrived still is (`DeadInv`), which rests on
`Grows`, what *every* step leaves true of the shared state: time and what users
hold only grow, and a record keeps its user, scopes and expiry and never becomes
active again.  `HeldIsRecorded` needs `MadeInv`: the token about to be signed
already has its record.  With `Grows`, a step of one request cannot disturb what
is known of another (`OthersKeep`), so each action is examined for the request
that takes it only.  From it follow `RevocationHolds`, `EveryTokenRecorded`,
`NoSpuriousRefusal`, `NoScopeGained`, and the action property `OnlyOwnersManage`.
`TypeCorrect` needs the invariant too: that `MarkTokenUsed` finds a record is not
a matter of types.  Assumptions: the lifetimes are numbers in order; the table
refuses a record without scopes and every role has some.

`TaskPipelineProofs`: `PipelineInv` says that a task is one worker's (`TaskInv`),
and that a record a worker holds is the registry's unless it was overtaken, in
which case what it is about to save is known to be no older (`RecordInv`).  From
it follow `ChangesArrive` and the action property `OnlyOvertakenGoBack`.

`SessionTokensProofs`: `TokensInv` says that a token bears the marks of its signer,
which had a usable configuration.  With `UnixBounds` (cutting to seconds loses less
than one) follow `OnlyTrustedAccepted` and `TrustedAreAccepted`, for any clock
and any lifetimes.

`ProcessLifecycleProofs`: `LifeInv` relates how far the start has come to what is open
and what will be closed.  That no request finds anything closed is not inductive:
`JobsInv` adds that a process which is closing has jobs only if they were late or
its listener failed, and `CutShortInv` that either makes the server's exit an
error.  From it follow `JobsKeepResources` and `OpenedIsClosed`, for any number of
jobs.

### What the prover can say of liveness

Liveness under fairness is beyond it, but three of the four liveness properties
rest on facts about steps, which are proved for any number of processes:

* *A variant.*  `TasksRunOut` and `StartsRunOut` (`WorkEnds`), `ListingsRunOut`
  (`ListingEnds`) and `LivesRunOut` (`StopEnds`) say that a number, or a stage
  and a number, becomes smaller with each step that the fairness condition is
  about, and that no step of anybody else makes it larger before the work is
  over.  A task has `Work`: five for each record to load, four for each one
  held, and the calls left for the one in hand.  It begins with no more than five
  for each backend registered and three: one process cannot keep another busy by
  saving records.  The sets counted stay finite (`MemoryIsFinite`), although those
  of IDs and requests need not be.
* *No waiting.*  `NobodyWaits` and `EveryListingDecides` say that whoever has work
  left finds the guard of one of those steps true (`Unstuck`, `AllDecide`).  That
  is what ENABLED would say of them, in terms of the state.  The stop of a
  process has waits, for jobs and for queries; `LivesRunOut` says that no query
  begins that closing the pool would have to wait for.

What is left of `WorkEnds` and `ListingEnds` is that fairness turns both into an
end; TLC checks the properties themselves.

### What is only model-checked

`WorkEnds`, `ListingEnds`, `StopEnds` and `RegistryCatchesUp` as such, and the three
violations.  `RegistryCatchesUp` has no variant above: the scheduler never ceases to
add work, and what ends is not the work but the age of a record.

The induction theorems of the library take an operator as a parameter, which the
provers cannot instantiate; `LeastNumber`, that a set of numbers has a least
one, follows from the well-foundedness of numbers, and is what all inductions here
rest on.  The few lemmas about numbers are stated in each module that needs them.

TLC has checked the invariants, and the variants, on the instances of section 3
before they were proved.

## 6. Not modelled

* The UI keeps a session token and shows lists.  That late answers may be applied after a
  logout is listed as a hazard: it is decided by React's batching and the order
  of fetches, and nothing of it reaches the server.
* Headers, paths and bodies of proxied requests: copied, and no state depends on
  them.  Parsing of bearer headers and the table of routes: a token that is held
  and a required scope stand for them.
* Logging, the documentation server, nginx, images, migrations: no behaviour of
  their own that another part reads.
* Generated code: `docs.go`, the API client of the UI, queries that nothing calls.
* The libraries: asynq, the JWT library, pgx, go-redis and net/http are modelled as far as
  `src/` relies on them, and marked external in `PROJECT.json`.
* A signal that a worker loses between its context and the start of the queue's
  server is in ProcessLifecycle, but no property forbids it: nothing in the
  repository promises otherwise.
* Some hazards are described, not forbidden, since the code has them and no document
  promises otherwise: a backend called healthy after a start whose synchronisation
  failed, a group with two roles whose role depends on the map's order, a listed
  model with a comma in its name that no backend is preferred for, requests that
  find the pool closed after the listener failed.  The properties say how far each
  goes; `PROJECT.json` has a note at each.
* What is left: the configuration's environment variables are read once and carry no
  state; only role groups, backend definitions and keys are modelled.
