# Verification of linghe-go-template

TLA+ modules, TLC runs and TLAPS proofs about the Go service template in `../src`:
the inventory of the system, how it is modelled, what each run checks, what is
proved, and what is left out.

## 1. The system

A Go HTTP service (Fiber) with PostgreSQL (GORM) and Redis, plus the tools that
generate, build, migrate, release and deploy it.  Paths are relative to `src/`.

| Part | State it keeps | Operations | What is hard |
|---|---|---|---|
| Session realms, `internal/auth` | SCS session blobs with a TTL in Redis; a reverse index in three kinds of Redis sets (user → sessions, user → devices, user+device → sessions); session data and principal in request contexts | `Login`, `Authenticate`, `LogoutCurrent`, `LogoutDevice`, `LogoutUser`, `RequireRecentAuthentication` | every operation is several Redis calls; requests interleave between them; each call can fail, be repeated or lose its answer; TTLs |
| Request authorisation, `internal/auth/middleware.go`, `principal.go` | the request context: principal, the request's session, SCS data of each realm | `AuthenticateMiddleware`, `CheckPermission`, `RequirePermission` | sequences of calls on one context, two realms sharing one context key |
| Accounts, `internal/modules/user`, `adminuser` | one row per account | `Register`/`Create`, `Login`, `GetProfile` | unique usernames under concurrency; status checked before the session is issued |
| System configs, `internal/modules/config` | one row per key | `Get`, `GetPublic`, `Upsert` | last writer wins, time stamps taken before the statement, read back in a second statement |
| Data, `internal/data` | connection pool, Redis client, transaction in the context | `Open`, `Close`, `Ping`, `WithinTransaction` | partial failure of opening, nested transactions |
| Application, `main.go`, `internal/app`, `internal/httpserver` | the server and its resources | `Run`, shutdown | in-flight requests while resources close |
| Health, `internal/modules/health` | none | `live`, `ready` | one probe, two resources |
| Migrations, `internal/migration`, `migrations/*.sql` | schema version and dirty flag | `Up`, `Down`, `Current` | a goroutine that runs the migration while the caller's context may end; crash in the middle |
| HTTP contract, `internal/httpx`, `internal/apperror` | none | `ResolveError`, `DecodeJSON`, `HTTPStatus` | numeric ranges of codes |
| Configuration, `internal/config` | none | `Load`, `validate` | what `validate` accepts and `NewRealms` refuses |
| Deployment, `deploy/deploy-remote.sh` | release directories, `current` link, recorded SHA and port, running containers | deploy, roll back | a crash or failure between any two steps, redeploying the same SHA |
| Developer tools, `tools/devtool`, `scripts/rename.sh` | the working tree | new module, new migration, project init, release packaging | several files written, one fails |
| Generated code and data, `docs/swagger`, `configs`, `.github` | – | – | not modelled: nothing is decided there |

How they interact: `app.Run` opens Data, builds the two realms over the one Redis
client, and gives each account service the issuer of its realm.  An account login
reads PostgreSQL, then calls `Realm.Login`.  Protected routes run
`Realm.AuthenticateMiddleware`, whose context the handlers use.  Applications call
`Realms.LogoutUser` when they disable an account (README.md:217).

What makes each part correct:

- realms: a token names one login for good; a revocation ends every session it
  covers, and nobody else's; every live session can be found by a revocation; no
  session outlives its deadline or the index that points to it;
- request authorisation: the principal of a context is the one its token names;
- accounts: one row per username, sessions only after password and status were
  checked, none left after an account is disabled;
- system configs: a row is what one writer wrote, a private one is seen by
  administrators only, a writer is answered with what it wrote;
- migrations: never two at once, never half a version unless marked dirty, a success
  only for what was done, and an end for every command, cancelled or not;
- application: requests meet open resources, every resource is closed once, a signal
  ends the process, a probe tells the truth and is answered;
- HTTP contract: the status, the code and the log of a failure agree;
- configuration: what is accepted works, and no two Redis keys coincide;
- deployment: what `current` points to can be gone back to, nothing runs on a schema
  that is too old for it, and the script's last word about the service is true;
- developer tools: a command that fails leaves nothing, one that succeeds is not undone
  by another, and a renamed project reads as if written under its name.

## 2. Modules

| Module | Models | EXTENDS / INSTANCE |
|---|---|---|
| `SessionRealm` | one realm and its index, Redis call by Redis call | |
| `RequestContext` | both realms as seen from one request context | |
| `Accounts` | registration and login, statement by statement | |
| `ConfigStore` | the reads and the upsert of system configs | |
| `MigrationRunner` | the migration commands, their goroutine and golang-migrate | |
| `AppLifecycle` | the server process and the requests it answers | |
| `Main` | the program, which is one or the other | EXTENDS `MigrationRunner`, INSTANCE `AppLifecycle` |
| `Rollout` | what a deployment promises (abstract) | |
| `Deploy` | the deployment script on its server | implements `Rollout` |
| `WorkingTree` | the writing commands of `tools/dev` on one working tree | |
| `ErrorContract` | an error chain and its answer | |
| `ConfigRules` | a settings file, what `Load` and `NewRealms` make of it, the Redis keys | |
| `ProjectRename` | a line of a project and what a renaming makes of it | |
| `Contracts` | the three above, asked one question per step | INSTANCE `ErrorContract`, `ConfigRules`, `ProjectRename` |

`MC*` modules give the small instances; `MCContracts` lets each behaviour ask a single
question, since no answer depends on an earlier one.  `*Proofs`
modules hold the theorems, and each begins with the inductive invariants that only its
proofs use.  A definition marked "Faulty" is not part of any specification: it
is a bug that somebody could plausibly introduce, kept beside the definition that it
spoils so that every property can be seen to catch one.

## 3. SessionRealm

`SessionRealm.tla` models `realm.go` and `index.go` for one realm.

State.  `store` maps a token to its SCS blob and expiry (a token stands for its
SHA-256 digest, too).  `userSessions`, `userDevices`, `deviceSessions` are the
three index sets, with their expiries `userTTL` and `deviceTTL`.  `req` holds for
each request what it has read so far and which Redis call comes next (its
`stage`).  `clock` and `faults` are bounded counters.  Four history variables
record what the code forgets: `issued` (tokens whose login succeeded), `owner`
(what was first stored under a token), `revoked` (tokens that a successful logout
covered) and `escape` (the races that befell a token).

Actions.  One per Redis call that writes, or that reads what is used later; a
`TxPipelined` is one call.

| Code | Actions, in order |
|---|---|
| `Login` (realm.go:87) | `LoginBegin`, or `LoginRotate` in an authenticated context; `LoginCommit`; `LoginAdd`; `LoginRemoveOld` after a rotation; `LoginUndo` if the index failed |
| `Authenticate` (138) | `AuthenticateLoad`, `AuthenticateCommit` |
| `LogoutCurrent` (185) | `LogoutCurrentDestroy`, `LogoutCurrentUnindex` |
| `LogoutDevice` (207) | `LogoutDevice` (SMEMBERS), `DeleteDeviceTx` |
| `LogoutUser` (220) | `LogoutUser` (SMEMBERS), `DeleteUserDevices` (SMEMBERS), `DeleteUserTx` |

Each call takes an outcome: `ok`; `again`, done but the answer was lost and
go-redis sends it again (redis.go leaves the client's retries on); `lost`, done
and reported as an error; `fail`, not done.  A call that fails before it reads
anything changes nothing and has no action.  `Crash` makes all requests vanish and
leaves Redis alone.  `Tick` is Redis expiry.

What is outside `src/` is modelled from how the code uses it: SCS commits session
data with the idle expiry cut at the deadline; goredisstore passes the remaining
time to `SET`, and go-redis sends no TTL when that is not positive (expiry 0 in the
model); `Load` does not look at the deadline; `RenewToken` deletes the old key,
draws a new token and starts a new deadline; with an idle timeout every loaded
session counts as modified, so `Authenticate` always commits.  After
`LogoutCurrent` SCS starts over in the context, so a later `Login` in it is
`LoginBegin`.

Left out: trimming and rejecting blank arguments (the model's users and devices are
trimmed), digests and key encoding (injective), the session's realm name (one
realm), and a client that presents a token it was never given.

### Properties

`escape` names the only four ways in which a session gets out of reach, all
consequences of code that reads in one call and writes in a later one:

- `revived`: `Authenticate` committed a session that had been deleted after its Load;
- `late`: a Commit came at or after the deadline and set no TTL;
- `userRace`, `deviceRace`: a login was indexed between the SMEMBERS and the
  transaction of a LogoutUser or LogoutDevice, which deletes the whole set.

The properties say that there is no fifth:

- `ReachableByUser`, `ReachableByDevice`: a live session is in the index that a
  revocation reads;
- `RevocationHolds`: a session covered by a revocation that answered success stays
  dead, whatever other requests, retries and crashes do;
- `DeadlineKept`: no renewal moves a session past its deadline;
- `TokenNamesOneLogin`: whoever writes under a token, it is the same login;
- `OnlyTargetsDie`: a session dies by expiry, by the request that carries it, or by
  a revocation of its own user and device, however stale the snapshot.

Two more state what comments promise without those exceptions; TLC refutes both
(section 10).

## 4. RequestContext and Accounts

`RequestContext.tla` is `realm.go` seen from one request context with both realms.
SCS keeps its session data in the context, one pointer per realm (`data`), and
changes it in place; the request session (`session`) has one key for both realms
(principal.go:36), and the realm that authenticated last holds it.  `store` and
`index` are what Redis keeps per realm, reduced to who a token belongs to.  A call of
`Realm` is one step, since `SessionRealm` has their interleavings; `fault` says at
which Redis call it fails, and the call that failed may have been carried out or
not.  Actions: `Authenticate` (its fast path, realm.go:143, changes nothing; if the
answer of its Commit is lost, realm.go:165, the session is stored and the context stays
as it was),
`Login`, `LogoutCurrent`, `NextRequest`, and what happens elsewhere: `LoginElsewhere`
and `LogoutUser`, whose set `R` says in which realms the calls of `Realms.LogoutUser`
succeed.  Time is left out.  The context is always the one that the last call
returned.

- `PrincipalOfToken`: the principal is the one the presented token was issued to;
- `Indexed`: a session that was returned stays in the index while it is stored, though
  the token to unindex comes from the SCS data in `Login` and from the request session
  in `LogoutCurrent`;
- `LogoutEndsCurrent`: `LogoutCurrent` ends the session the request came with.

All three except tokens in `reused`: those that Authenticate accepted, or committed
again, because the context already held SCS data of the realm.

`Accounts.tla` is the service and repository of `internal/modules/user`
(`adminuser` is the same code with other names).  `rows` is the table with its UNIQUE
username, `sessions` the accounts with a live session; `req` holds what a request has
read.  `Register` and `Create` are registration before and at the INSERT; `Login`,
`Find` and `Issue` are login before the read, with the read and the checks on it, and
at `Realm.Login`.  `ChangeRow` and `LogoutUser` are what README.md:217 tells an
application to do; `src/` has no such operation.  `Fold` is `normalizeUsername`.
A password stands for its hash.  Rejected inputs change nothing and are left out.

- `OneAccountPerName`: no two accounts with one name in two spellings;
- `DeniedForCause`: "wrong name or password" is true whenever Login says it;
- `DisabledIsOut`: an account that was disabled and then logged out has a session only
  if a login had read the row before it changed (`overtaken`).

## 5. ConfigStore

`rows` is the table `system_configs`; `req` holds what a request has read and which
statement comes next.  `ReadRoute` and `Upsert` are the routes up to their first
statement: the middleware, the binding, `Fold` (the key trimmed and lower case) and the
service's tests; `Upsert` also takes the time, which `Save` (repository.go:44) does
before the statement.  `Find` is the SELECT of the reads, `Save` the INSERT ... ON
CONFLICT, `ReadBack` the SELECT that follows it (repository.go:68).  A statement may
fail; `Save`'s may be carried out and its answer lost.  `Tick` moves the clock.  A value
stands for the JSON and its description.

- `RowOfOneSave`: value, visibility and time stamp of a row are those of one upsert;
- `PrivateIsForAdmins`: without an administrator's session only values that were saved
  as public under that key are answered;
- `AnswerIsOwn`: an upsert is answered with what it saved unless another came between
  its two statements (`overtaken`), which the code allows.

A Save that is delayed overwrites a newer row with its older stamp; nothing in the
source claims otherwise, so that is not a property.

## 6. MigrationRunner, AppLifecycle and Main

`MigrationRunner.tla` is the migration command (migration.go, main.go:62).  Each process
has a record: where golang-migrate is (`phase`), its cancellation, the channel
`GracefulStop` (`stop`, capacity one), the channel that tells the goroutine that the
operation is over (`completed`), the goroutine (`watcher`) and the result.  `version`,
`dirty` and `holder` are the table and the advisory lock.

| Code | Actions |
|---|---|
| `Up`, `Down` until the operation begins | `Start` |
| `Current` | `Current` |
| the goroutine (migration.go:126) | `Watch`, `Send` |
| golang-migrate (external) | `Lock`, `LockTimeout`, `ReadVersion`, `Begin`, `Migrate`, `Clean`, `LoopEnds`, `Unlock` |
| the end of `execute`, `closeInstance` | `Result`, `Close` |
| SIGTERM, `kill -9`, the operator | `Cancel`, `Kill`, `Repair` |

- `SuccessMeansDone`: a command that succeeds has run everything it was asked to, and an
  operation that ended without an error gives the lock back on a clean version, the
  latest one after an `up` that was not cancelled;
- `StopIsSafe`: a cancellation never leaves a migration half done (`hurt` records that
  one failed or that its process was killed);
- `CommandEnds`: every command and its goroutine end.

`AppLifecycle.tla` is the server from main to exit.  `step` is where `run` is, `pool`
and `cache` are the two resources ("closedTwice" is outside the type), `pg` and `rd` the
two services, which answer, fail or hang and change at any time (`Change`).  A request
is `readyz`, `ping` or any route that queries PostgreSQL.  `Expire` is the readiness
limit (health/api.go:73), which only `readyz` has.  `Listen` is `Server.Run` up to the
goroutine of Fiber that waits for the context (`shutdown`), `Bind` the making of the
listener, `Shutdown` what the goroutine does when the context is done: it closes the
listener, or, if there is none yet, it does nothing and ends.  `Return` is Listen's
return, which may come before the last request has ended: then requests meet closed
resources, and `AskPostgres`/`AskRedis` answer "unavailable".

- `ClosedExactlyOnce`, `ServesOnlyOpen` (until a signal), `ReadyIsTrue`;
- `SignalEndsProcess`: a signal ends the process, unless its shutdown came before the
  listener and was lost; it cannot be lost to a process that has served unsignalled;
- `ProbesAnswer`: readyz is always answered; ping only if PostgreSQL does not hang for
  good, since nothing limits it.

`Main.tla` composes them as main.go does: `Run` chooses the migration commands or the
server by the first argument, and a behaviour is one or the other.

### Fairness

The only liveness properties are those of this run, and they assume only what the
operating system, the Go scheduler and the services provide:

- weak fairness of a migration's `Progress` and of its `Watcher`: a process that is not
  killed runs on, its goroutine is scheduled, and a call to the database returns (with
  an error if need be; `LockTimeout` is golang-migrate's own limit);
- weak fairness of the server's `Run`: its main goroutine and Fiber's run, `ping` returns
  (it has a timeout: postgres.go, redis.go), and so does `Listen` once its listener is
  closed (server.go:66-70).  That Fiber's goroutine looks for the listener once, and that
  the listener may come after it, is how the library behaves; it is not under `src/`;
- strong fairness of a request's `Handle`: a query is answered by a service that comes
  back again and again.  A service that hangs for good need not answer, and no fairness
  makes it.

Nobody has to send a signal, a request or a cancellation, and no service has to come
back.

## 7. Rollout and Deploy

`Deploy.tla` is deploy-remote.sh as steps on a server: `dirs` (release directories with
their port file), `current` (the link), `lastSha`, `running` (the containers), `schema`
(the version of the database), and the script's own variables.

| Lines of deploy-remote.sh | Actions |
|---|---|
| arguments, environment, noting the previous release | `Start` |
| unpacking into a temporary directory, checking and renaming it | `Unpack`, `Install` |
| pairs of migrations, `.deploy-port` | `WritePort` |
| `compose config`, `build` | `Build` |
| `migrate up` | `Migrate(reached)`: it may get part of the way |
| `compose up` | `Up`: if it fails, the old, none or the new containers run |
| `wait_for_health` | `Wait` |
| link, `last-successful-sha` | `Link`, `Record` |
| `rollback_previous` | `Rollback`, `RollbackWait` |
| the script is cut off | `Kill`: before a command, or within `migrate`, `up` or a rollback |

Runs follow one another (deploy.yml's concurrency group).  `Needs[sha]` is how many
migrations a release brings.

- `CurrentIsSound`: the link points to a complete release with its port that was ready
  once and has all of its migrations in the database, whatever runs were cut off;
- `SchemaSuffices`: no container runs without a migration of its release;
- `OutcomeIsTrue`: "the old version goes on" is said only if it was not touched,
  "restored" only if the current release runs on its own port, "success" only if the run's
  release runs, is linked and recorded; and a run that says there is no version to go back
  to had none but its own in the link, and leaves nothing that neither ran before nor is
  its own.  It does not say that such a run has stopped the containers, as the script
  does, nor that it stopped no other release's (section 10).

`Rollout.tla` is the promise: the schema only goes forward, nothing is started on a
schema that is too old, and the current release is one that runs when it becomes
current.  `ImplementsRollout` is the refinement; the mapping is the identity, and what
`Deploy` adds (directories, steps, failures, cuts) stutters.

Two consequences of the script hold in the model and are in its actions, not in the
properties: when the current release itself is deployed again and fails its check, there
is no previous one and it is taken down (`previous` is empty, :143-146); and a
restored release may run on a schema that is ahead of it.

## 8. WorkingTree

`files` are the text files that name the project (each an identity and, in modules.go,
the imports), `dirs` the modules' directories, `migrations` the files, `archive` the
release archive, `run` the commands at work.  Reading one file, writing one, replacing one
by rename and listing a directory are single steps, and so is what a command reads before
it is accepted (go.mod and the configuration for a renaming); each may fail, and a command
may be killed between any two.

| Command | Actions, in order |
|---|---|
| module new | `NewModule`, `ReadModules`, `MakeDir`, `WriteFile` (three times), `ReplaceModules`; `UndoModule` |
| migration new | `NewMigration`, `WriteUp`, `WriteDown` (with the removal of the first file) |
| project init | `InitProject`, `ScanFile` (each file), `ApplyFile` (each that changes), `Finish`; `RestoreFile` |
| release package | `PackageRelease`, `Stage`, `Copy`, `CreateArchive`, `FillArchive` (with its removal) |

Commands that only read or that are refused at once have no step.  History: `made`
(what was reported as created), `spoiled` (what a kill or a removal that failed has left),
`raced` (two commands have overlapped).

- `NothingLeftBehind`: a directory, a migration or an unfinished archive was there, was
  reported, belongs to a running command, or is in `spoiled`;
- `ReportedStays`: commands that race take away none of the files that were reported (a
  module's directory, a migration's two files, an archive), and modules.go names each
  module once, and only modules that are there in full.  A registration that was reported
  can be lost, which it does not deny;
- `AloneIsConsistent`: if commands do not overlap, the files name one project, every
  reported module is registered, in order, and the migrations pass `validateMigrations`.

The last does not hold of commands that overlap, and the source does not say it does:
two `module new` read modules.go and each replaces it, so one registration is lost;
two `migration new` may take one version; a renaming writes back what it had read.

## 9. Contracts

`Contracts` composes `ErrorContract` (a chain of errors and its answer), `ConfigRules`
(a settings file, what `Load` and `NewRealms` make of it, and the Redis keys of the
realms) and `ProjectRename` (a line of a file of a project, the two identities, and what
`project init` and `scripts/rename.sh` make of the line), and states what they assume.
`Limit` is the range of a `time.Duration`, 2^63 in Go and 128 in the run; twice a duration
may wrap around at it.  A text of `ProjectRename` is a sequence of tokens, and so are a
module path and a name.  `Spelling` gives the tokens of each word of the program that
stands beside a name in a line ("module", "name", "user", "internal", and "local", "auth",
"app" in the prefix of a key, config.go:48): the run spells "user" and "local" as
two tokens, so that a name can be a part of a word as well as a whole one.

`StatusIsInCode`: whatever kinds of errors a chain holds and in which order, the code of
the answer is its status and two digits (README.md:296 of the repository), the outermost
application error answers wherever it stands among others, 5xx is logged, and the field
named is the one the client sent.  Exempt from the code and the log, and only if it is the
one that answers: an application error whose code is outside 40000..59999, or a Fiber error
whose status is no failure; and from the field, a nested one of a request type without a
name, which loses its first part (validator.go:87-93).

`LoadSuffices`: every settings file that `Load` accepts makes `NewRealms` succeed, no key
of a realm is the key of something else in it or in the other realm, whatever prefixes and
identifiers look like, and the index outlives the sessions, unless twice the lifetime
overflows.  A file that only lowers `max_open_connections` below two, or the lifetime
below the default idle timeout, is refused because of the other default; an empty file
is refused while `{}` is not.

`RenameIsRight`: a renamed line is the line of a project of the new name, and the tool and
the script agree.  The exceptions, which the definition names one by one: with one word for
module path and name, a name alone in quotes in a Go file (config.go:19) becomes the module
path; a name without a dash is replaced twice (from "order" to "orders" gives "orderss"); a
line with a word of the program that holds the name, or is the name ("internal" in
imports, "local" or "app" in the prefix of a key); JSON, which only the script touches; and
the script itself, which only the tool touches.

## 10. Runs

| Run | Instance | Shows |
|---|---|---|
| `session_races` | 1 user, 1 device, 2 tokens, 2 requests, 1 fault, no ticks | `TypeOK`, `RevocationHolds` under every interleaving of two requests with one fault or crash |
| `session_isolation` | 2 users, 2 devices, 2 tokens, 2 requests, no faults | `ReachableByDevice`, `TokenNamesOneLogin`, `OnlyTargetsDie` |
| `session_clock` | 1 user, 1 device, 1 token, 2 requests, 1 fault, 7 instants, lifetime 3, idle timeout 2 | `ReachableByUser` and `DeadlineKept` over two lifetimes |
| `request_calls` | 2 realms, 2 users, 1 device, 3 tokens | `TypeOK`, `PrincipalOfToken`, `Indexed`, `LogoutEndsCurrent` over every sequence of calls, failed or unanswered at any of their Redis calls |
| `account_races` | 2 names, one in two spellings, 2 passwords, 2 accounts, 2 requests | `TypeOK`, `OneAccountPerName`, `DisabledIsOut`, `DeniedForCause` |
| `config_races` | 1 key in two spellings and one that is no key, 2 values and one that is not JSON, 2 requests, 2 instants | `TypeOK`, `RowOfOneSave`, `PrivateIsForAdmins`, `AnswerIsOwn` |
| `main_runs` | 2 migration processes, 2 migrations, down by 0 or 1; or 1 server, 1 request | the safety and the liveness of section 6 |
| `deploy_runs` | 3 releases with 0, 1 and 2 migrations, 2 ports, any number of runs | `TypeOK`, `CurrentIsSound`, `SchemaSuffices`, `OutcomeIsTrue`, `ImplementsRollout` |
| `tool_runs` | 3 commands, 2 at a time; 3 domains of which one is installed, 3 files, 2 identities, versions to 3 | `TypeOK`, `NothingLeftBehind`, `ReportedStays`, `AloneIsConsistent` |
| `contracts` | chains of 1 or 2 errors; 21 settings with values on both sides of every limit, two at a time where two are compared, all pairs of 10 prefixes, 8-bit durations; 13 identities, among them the template's, a name in another, names that are words of the program or parts of them, paths with a slash and no host, and a path with a host and no slash | `StatusIsInCode`, `LoadSuffices`, `RenameIsRight` |
| `revoked_revived`, `revocation_misses` | 1 token, 2 requests, no faults | two violations of `SessionRealm` |

Bounds.  Two requests suffice for every race of `SessionRealm`, `Accounts` and
`ConfigStore`: each is between one reader that later writes and one writer.  Two tokens
are the least for a rotation; time matters only against the lifetime, so it gets a run of
its own.  Three tokens are a session in each realm and one that replaces either.  Two
accounts are as many as two names can have.  Two migrations leave one to stop before and
one after; the lock makes a third process like the second.  Three releases are one to go
back to, one that fails and one before both, and the schema can be two ahead of a
restored release.  Three commands are two that overlap and one that meets what they left.
Ports, tokens, requests and commands are symmetric where a run says so: no definition
tells one from another.  The proofs remove these bounds.

Deadlock is checked, except in `tool_runs` (the number of commands is bounded, and after
the last the tree rests) and in `contracts` (one question, one answer).

### What does not hold

- `RevokedStaysDead` (realm.go:165): Authenticate loads, a revocation deletes and
  answers success, Authenticate commits.  The session is back, and no index points
  to it.
- `RevocationFindsAll` (index.go:94-109, 75-81): a login is indexed after the
  SMEMBERS and before the transaction of a revocation.  Its session lives on
  unindexed, and a second revocation, started after the login returned, does not
  find it.

The other limits met while modelling contradict no sentence of the source, and are
exceptions written into the properties:

- a Commit that is delayed past the deadline stores a session that never expires
  (`escape` = "late" in `DeadlineKept`; realm.go:118, 165);
- App authenticates on a context, then Admin, then App again with another token: nothing
  is compared, and the context's App data answers (`reused` in `PrincipalOfToken`;
  realm.go:143, 151).  No route of the template puts both realms on one context;
- a login that read an enabled account is issued its session after the account was
  disabled and logged out (`overtaken` in `DisabledIsOut`; service.go:94-99);
- an upsert may be answered with another's value (`overtaken` in `AnswerIsOwn`);
- a signal between the ping of Redis and the making of the listener can be lost for good:
  the server serves on, and `signal.NotifyContext` takes every later signal (`shutdown` =
  "lost" in `SignalEndsProcess`; main.go:40, server.go:66-70).  The test of the shutdown
  cancels after the server has served (tests/httpserver_test.go:174);
- a deployment that has no version to go back to says that it has stopped its containers
  also when `down` failed, since `|| true` drops that, and it stops those of a release that
  an earlier run started and was cut off before it linked it (deploy-remote.sh:109-112);
- those of sections 6 to 9.

## 11. Proofs

All theorems hold for every value of the constants that satisfies the named assumptions
of the modules: `None` is none of the other values, numbers are numbers, and

- `SessionRealm`: the idle timeout is positive and at most the lifetime (`NewRealms`
  refuses anything else, realm.go:56-61);
- `Accounts`: folding a name twice is folding it once;
- `ConfigStore`: folding maps spellings to spellings;
- `Deploy`: every release has a number of migrations;
- `WorkingTree`: modules.go, go.mod and the configuration are among the files; the tree
  begins with each module registered once, under the project's name and in the order of
  the domains, as in modules.go:3-15; a migration's version has a largest value (of six
  digits in the code), and it is positive;
- `Contracts`: codes and statuses are integers; decoding a file into `Config` yields
  durations for the timeouts and texts for the two prefixes (config.go:132-137), and the
  defaults have every setting; the digest of a token is not one of the words that end the
  index keys, and `None` is none of the values that it stands beside.  A project's name
  has none of the characters that frame it in a line (project.go:18), nor has a word of
  the program; a module path has a slash that it does not begin with, which is all that
  the script asks (rename.sh:107-113), or a host (`CheckPath`, project.go:110), except the
  template's, which is its name; a host has a dot, so it is in no name and in no word of
  the program; and no text holds the placeholder (project.go:167).  Nothing is assumed of
  how the words of the program are spelled.

No safety property here is inductive by itself.  What each inductive invariant adds, and
why:

- `SessionRealmProofs` (`UserReach`, `DeviceReach`, `Revocation`, `Deadline`,
  `TokenIdentity`, `Isolation`): what is stored and indexed under a token agrees with
  `owner`, and the index outlives the deadline because its TTL is 2*lifetime from the
  last login; what each request carries, so that a later call of it is about what the
  earlier one read: a login has its token to itself, a revocation's snapshot holds its own
  target's sessions and all that it promises to end, unless one has escaped.  The lemmas
  share a frame: `Preserved` (what no step takes back) and `RequestStep` (only the
  stepping request needs a proof).
- `RequestContextProofs` (`PrincipalIsOwner`, `IssuedIsIndexed`, `LogoutWorks`): the SCS
  data of each realm and the request session name tokens of that realm whose owner is what
  they say, unless `reused`; a stored token's entry is in the index.  `LoginLeaves` states
  what a login leaves behind at each point where it may fail, so that the invariant is
  proved of that and not of the code path.
- `AccountsProofs` (`UniqueNames`, `DisabledOut`, `Denied`): what a request carries
  between two calls, that stored names are folded, that `swept` accounts are disabled.
- `ConfigStoreProofs` (`RowsAreWhole`, `PrivateStaysPrivate`, `OwnAnswer`): what a request
  carries was announced in `saves`, came from an administrator if it writes, and is still
  in the row while nobody has overtaken it.
- `DeployProofs` (`CurrentSound`, `SchemaEnough`, `ReportsTrue`, `RolloutImplemented`):
  at each step of the script, how far its release's directory, port and migrations are,
  that `previous` is the current release or nothing, that every release that was ever
  ready has enough schema, which is what makes going back safe, and what runs: until the
  containers are started what ran before, then the run's own, and where starting them or
  the check failed one of these or nothing.  The refinement follows from it step by step.
- `MainProofs`: of `MigrationRunner`, `SuccessIsTrue` and `CancellingIsSafe`; its
  invariant says that who is inside golang-migrate has the lock, that the version is dirty
  exactly between `Begin` and `Clean`, that only a cancelled process has its stop
  channel filled, and that an `up` that has done all it was asked to gives the lock back at
  the latest version.  Of the program, `ProgramTypes`, `ProgramMigrates`, `ProgramClosesOnce`,
  `ProgramServesOpen` and `ProgramReadyTruth`: each behaviour of `Main` is one of
  `MigrationRunner` and one of `AppLifecycle` with stuttering (`MainRunsMigrations`,
  `MainRunsServer`), so what is proved of each carries over.  `ServerInvariant` is that of
  `AppLifecycle`: what is open at each step, and at which steps a request may be served.
- `WorkingTreeProofs` (`LeavesNothing`, `ReportedIsKept`): the ownership that the
  properties rest on.  A directory, a migration file or an archive in the making has one
  maker; and `Sound`, the hard part, says of every list of imports that is in modules.go
  *or that some command still carries and may write there* (`module new`'s text, a
  renaming's old texts) that it names each module once and only modules that are there in
  full and that nobody is making or removing.  `InsertProperties` and `RenamedProperties`
  are about the operators that make such lists, `LeastIn` and `GreatestIn` about the choice
  of a file, by well-founded induction.
- The same module, `AloneConsistent`: what holds as long as no two commands have overlapped
  (`Alone`, proved together with the ownership in `AloneInvariant`).  `AloneIsConsistent` is
  false in the middle of a command, so `Alone` says of the one command that runs what it
  has done so far and what it still has to do.  A renaming that reads the files has in
  `done` those that it has read, each of which has the old name (`ScanAlone`), so that every
  file is to be changed when it has read the last.  One that has renamed the files `done`
  finds in them the renamed texts and in all others the texts that it read, in the order in
  which it goes through them, forwards or back (`RenameAlone`); a new module's text is the
  modules.go of now with the module's import in its place (`ModuleAlone`,
  `InsertOrdered`); a new migration's version is the next one, and without its first file the
  versions have no gap (`MigrationAlone`); a package is filled with migrations that passed
  the check (`PackageAlone`).
- `ContractsProofs` (`FailuresConventional`, `AcceptedSuffice`, `RenamedRight`): the state
  is the question and its answer, so the invariants `ErrorInv`, `ConfigInv` and `RenameInv`
  only say that they belong together, and the work is about the operators, for chains of
  any length and depth and for prefixes, names and module paths of any length.
  `AnsweredIsIn`: the error that is answered is in the chain or is the catch-all.
  `FieldShown`: which name the client is shown of a nested field.
  `TrimSpaceKeeps`, `NormalizedEnds`, `RealmKeepsPrefix`: a prefix that `Load` has
  normalised is taken by `NewRealms` as it is, so two prefixes that differ in the one
  differ in the other.  `WrapKeeps`: a lifetime that may be doubled is doubled.
  `KeysApart`: no two keys of the realms coincide, whatever the prefixes and identifiers,
  which the last five words of a key decide (`TailOfKey`, `ShapeOfTail`) before the
  prefixes are compared.

  For `RenamedRight` nothing is assumed of `Replace`: that its recursion, which runs from
  the end of a text to its start, defines a function is proved by continuing it to the left
  (`Leftward`, `ReplaceGoesOn`, `ReplaceIs`), with least elements in the place of an
  induction.  From it follow `ReplaceNone` (what does not occur is not replaced) and
  `ReplaceOnce` (what occurs in one place only is replaced there and the rest is kept).
  The rest is where the old words occur: a name that no word around it holds does not reach
  over its edges either, for a mark that no name has, or the end of the line, stands on each
  side (`FrameIs`, `ReplaceApart`), and so it is replaced once, by the
  database's replacement if it has no dash and by its own if it has one (`NameReplaced`);
  a module path that is the name is recognised by what encloses it (`ImportKept`,
  `ModuleKept`, `LiteralKept`, `NameLineKept`); what the placeholder stands for is out of
  reach of the two replacements between (`PlaceholderReplaced`); and `Rewrite` differs from
  `replaceProjectContent` only where `RenameIsRight` says.

Type correctness is proved of every module with a type invariant; those of
`MigrationRunner` and `AppLifecycle` are in `ProgramTypes`.

Only model-checked: the liveness properties `CommandEnds`, `SignalEndsProcess` and
`ProbesAnswer`, since fairness is out of the prover's reach.  Every other property that a
passing run checks is proved for all values of the constants.

## 12. Not modelled

- `RequireRecentAuthentication` and `CheckPermission` only read and compare one value.
- `WithinTransaction` has no caller in the repository; it is one call of GORM.
- Lengths and patterns of input, the wording of validation messages, the strict JSON
  decoder and the parsing of YAML and addresses: each is one library call, and no property
  tells the results apart beyond accepted or refused.
- `check`, `docs generate` and `test integration` of the developer tools, and the
  Dockerfile and workflows, only call other programs.
- A cut of the deployment script in the middle of writing the few bytes of `.deploy-port`
  or of `last-successful-sha`; two deployments at once, which deploy.yml excludes.
- Generated API documents, the GORM models and identifiers: nothing is decided there.
