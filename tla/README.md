# Jobify: a TLA+ verification of the backend

This directory models the Jobify API server (Go, PostgreSQL, Redis) in TLA+, checks the
models with TLC and proves theorems about them with TLAPS. `PROJECT.json` lists, for each
definition, the lines of `src/` it translates, the runs, the mutants of the code each property
detects, the theorems, and the hazards they are for.

    tlc -config MCSessions.cfg MCSessions        # one run (12 configurations, below)
    tlapm SessionsProofs.tla                     # the proofs of one module

## 1. Inventory

The server is one Go process (`cmd/api/main.go`), possibly run in several instances, over one
Postgres database and one Redis. Every HTTP request is a goroutine; handlers hold no shared
memory. All shared state is in Postgres rows and Redis keys, and every statement or command
stands alone except the transaction of registration. What can go wrong is therefore what
happens *between two calls* of one request, and when a call fails halfway through a handler.

| Part | State | Operations | Hard behaviour | What makes it correct |
|---|---|---|---|---|
| Sessions (`auth_service.go`, `token_store.go`, `auth_handler.go`) | Redis `refresh:<token>` with a TTL | login, refresh, logout | a refresh is GET, SELECT, DEL, SET with other requests between; discarded errors; lost replies; crash between DEL and SET | a token opens its own user's session only, is granted once and never revived; what was revoked stays revoked; requests end |
| Registration (`auth_service.go`, `user_repo.go`) | `users`, `developer_profiles` | register | lookup and insert are separate; the insert waits on the unique index; partial failure | one account per e-mail, each with its profile; 201 only for the account's owner |
| Apply tracker (`application_*.go`) | `applications` | create, list, update status, delete | owner check and write are two statements, the write is by id alone | only the owner changes or sees a row; deletion is final |
| Job aggregator (`job_aggregator.go`) | `jobs` (source ids), ticker, context | run, tick, cancel, restart | check-then-insert without a unique index; several instances; commit with an error; select between two ready cases | copies bounded, deleted listings stay out, one failure does not cost the others, it stops |
| Job administration (`job_handler.go`, `job_repo.go`) | `jobs` | create, update, soft delete | meets the aggregator and the readers of the list | see aggregator and list |
| Job list and cache (`job_service.go`, `job_cache.go`) | Redis `jobs:list:...` | list | count, select and fill are separate; late fills; partial rows; total of a hit | a reply is (part of) the right page of one moment; pages reach every job; the cache settles |
| Rate limiter (`rate_limit.go`) | Redis `rl:<ip>:<minute>` | INCR, EXPIRE, verdict | two commands, retried commands, expiry, minute boundary | the limit holds; nobody under it is refused; counters expire |
| Process life (`main.go`, `config.go`) | listener, context, pool, goroutines | load, ping, wire, listen, signal, shutdown, exit | two goroutines race to the end of the process; a signal during start-up | pool closes last; the process ends; requests drain |
| Single job, skill match, views (`job_service.go`, `job_handler.go`) | `jobs.views_count` | get job | profile and job are read one after the other; a goroutine nobody waits for counts the view | views add up; a reply shows one moment of each; the match is what the spellings imply; no goroutine stays |
| Saved jobs (`saved_job_*.go`) | `saved_jobs` | save, unsave, list | check-then-insert; page and total from two statements; the type of the user id | the answers add up to the table; page and total agree |
| Profile (`user_service.go`, `user_handler.go`, `profile_repo.go`) | `developer_profiles` | get, update | changes while a job is matched with it | see single job |
| Access tokens, roles, routes (`middleware/auth.go`, `jwt.go`, `router.go`) | none | middleware | which group registers a route; the value a handler expects in the context | only verified admins write jobs |
| Seeder (`cmd/seed/main.go`) | all tables, and two lists of ids per run | users with profiles, jobs, applications, saved jobs | killed or failing between any two statements, run again, beside the API; rows name each other by position | a clean run completes the tables, a further one writes nothing, positions mean what the program means |
| Logging, responses, validation, hashing, API docs | none | | | not modelled: stateless or generated |

The parts interact through the tables and keys: the aggregator and administrators write
the `jobs` table that the list reads; registration creates the users that sessions and
applications name; `main` cancels the aggregator and closes the pool that handlers use; every handler but those of
`/auth` stands behind the token check; the seeder writes the same tables as a process of its own.

## 2. Modules

Each component is a module with its own variables, one action per statement, Redis command or
goroutine step (with all the code up to the next one), `Init`, `Next`, `Spec`, and where liveness
is claimed `FairSpec`. A request's local variables are one record `req[r]` whose `pc` names the next
call; a failing call is a disjunct of the same action. `MC*.tla` and the `.cfg` files give the
instances.

- **`OneLife`**, the abstract specification: a key (a refresh token, an application id) is unused, then
  live for one holder, then dead, and never live again. Several keys may die at once.
- **`Sessions`** implements it. `store` is Redis; `wallet` and `access` are what clients have received;
  `issued` is what `secureToken` has drawn. `RefreshGet`, `RefreshLoad`, `RefreshDelete`, `Mint`,
  `StoreToken` follow `Refresh` and `newTokenPair` line by line. `RedisWrite` is a command that succeeds,
  fails without effect, or takes effect and reports an error. `RefreshDelete` and `Logout` go on whatever
  it reports, because the code discards the error. `Deliver`/`LoseReply` end a request, `Expire` is the
  TTL, `Crash` the death of the process. The field `revoked` of a request is history: the token whose DEL
  reported success.
- **`Registration`**: `Lookup`, then the transaction (`InsertUser`, `InsertProfile`, `Commit`, `Rollback`).
  `holds` marks an open transaction that has inserted its e-mail: another INSERT of the same e-mail waits
  (it is disabled), as the unique index makes it, until the other transaction ends or the client goes (`CancelInsert`).
- **`Applications`** implements `OneLife` as well. `CheckUpdate`/`CheckDelete` are the SELECT with the
  owner check, `WriteStatus`/`WriteDelete` the write by id. The `UNIQUE(user_id, job_id)` and the foreign
  key are `Insertable`.
- **`JobFeed`**: the aggregator of each instance (`Fetch`, `Check`, `Insert` per listing, the `select`
  loop as `RunAgain`/`Stop`, the ticker's channel of capacity one, `Cancel`, `Restart`) and the
  administrators, over one jobs table.
- **`JobCatalogue`**: `List` through the cache: `CacheGet`, `Count`, `Select`, `CacheSet`. The table
  is kept as a history `log`, so that a property can refer to a past moment. Writers are one statement each.
- **`JobDetail`**: `GET /jobs/{id}`: `ReadProfile`, `ReadJob` (which starts the goroutine), `Answer`, and the goroutine as
  `CountView`. `CalculateMatch` works on sets of spellings and the function `Lower`; `Truncated` is `int(float64(m) / float64(u) * 100)` as
  IEEE 754 doubles give it, one below the quotient exactly where the exact quotient is 29, 57 or 58 (`FallShort`). `StoreProfile` is `PUT /me`. History:
  `reads` and `lost` count the readers and the views given up; `seen` and `wishes` hold the rows and profiles a
  request could have read.
- **`RateLimit`**: `Arrive` computes the key, `Incr` and `Expire` are the two commands. `faulty` is
  history: the keys of which some command failed or was sent twice.
- **`Shutdown`**: `main` starts (`LoadConfig`, `Ping`, `Wire`, `Listen`; a failure is `os.Exit`, so `ProcessEnds` without the
  deferred calls, and so is an error of `ListenAndServe` later on, `ServeFails`), the signal goroutine (`Notify`, `Signal`, `CancelContext`, `CloseListener`, `Drained`), the end of `main`
  (`ServeReturns`, then the deferred `DeferCancel`, `CloseRedis`, `ClosePool`, then `Exit`), and the tasks
  that use the pool. A signal before `Notify` kills the process.
- **`ApiProcess`** composes the two: the limiter stands in front of every route, so a request this process accepts (`Handlers`) is a
  request of `RateLimit` and a task of `Shutdown`. `ArriveAt` is both arrivals in one step; `Limiter` sends a command while the process
  lives and its Redis client is open; `TaskStep` lets a handler run when the limiter has served its request, and answer when it
  has refused it; `DieWithProcess` is what becomes of a request in the limiter when its process is gone. The other requests are those
  of other instances, which share the counters and go on.
- **`Api`**: the routes by the group that registers them, what a token claims and whether it verifies, and `Admit`, the
  answer of the middlewares to a route and a header. It has no state; **`SavedJobs`** extends it: `Http` is a request of any route
  with any header, `Call` and `CallList` are calls of the service such as its tests make, `Listing` settles page and limit as the
  service does (`DefaultLimit` is its 20), and `Exists`, `Create`, `Delete`, `Select`, `Count` are
  the statements. History: `ledger` counts, per user and job, acknowledged saves less acknowledged removals; `unsure`
  are pairs with a write that took effect and reported an error.
- **`Seeder`**: one run after another of `cmd/seed/main.go`: `FindUser`, `InsertUser`, `InsertProfile`, `FindJob`, `InsertJob`,
  `SeedApplication`, `SeedSavedJob` are its statements in their order, `userIDs` and `jobIDs` the lists they collect. `Register`,
  `Change` and `Withdraw` are the API beside it. History: `disturbed`, `lost`, `partial`, `shifted` (see the module).
- **`SeedData`**: the seeder's real tables, each row reduced to what it says of another row: 12 users, 60 jobs, 47 applications,
  31 saved jobs, with assumptions TLC evaluates (no position out of range, no pair twice, developers only, notes that name
  the company of their job).

Abstractions. Ids, tokens, addresses and e-mails are model values; a payload keeps only what a property tells
apart (a job is its kind and whether it is active; a feed is a sequence of source ids). Malformed bodies and ids
(400) change nothing and are left out. Logging and wording are left out. Postgres, Redis, net/http and pgxpool are
modelled from how the code uses them (`external` in the map): statements are atomic, the pool's `Close` waits for
connections in use, `Shutdown` closes the listener first.

## 3. Runs

| Run | Instance | Properties |
|---|---|---|
| `MCSessions` | 2 users, 2 tokens, 2 concurrent requests | `SessionsStayWithTheirUser`, `DeletedStaysRevoked`, `TokenHasOneLife`, `RevokedByItsHolder`, `EveryRequestEnds` |
| `MCApplications` | 2 users, 1 job, 2 ids, 2 concurrent requests | `ListsShowOwnRows`, `DeletedStaysDeleted`, `OnlyTheOwnerChanges`, `IdHasOneLife` |
| `MCJobFeed` | 1 instance, 2 listings, feeds of up to 2, 3 rows | `CopiesBounded`, `RunImportsTheRest`, `DeletedStaysOut`, `CancelStops` |
| `MCApiProcess` | 1 request of this process and 2 of other instances, 1 address, limit 2, 2 minutes, the aggregator | `LimitHoldsWithinTheMinute`, `RefusedOnlyOverLimit`, `CountersExpire`, `PoolClosesAfterCancel`, `SignalEndsProcess` |
| `MCShutdownDrain` | 2 requests | `DrainsRequests`: **violated** |
| `MCJobCatalogue` | 2 kinds, 2 filters, 2 readers, 2 writes | `ListTypeOK`, `PageOfOneMoment`, `TablePagesReachEveryJob`, `CacheSettles` |
| `MCJobCatalogueTotal` | 1 kind, pages of 1 and 2 | `PagesReachEveryJob`: **violated** |
| `MCJobDetail` | 2 users, 1 job read twice, skill lists of 29 and 50 with 29 in common, one of them spelled otherwise, one handler at a time | `TypeOK`, `ViewsAddUp`, `ReplyOfOneMoment`, `MatchAgrees`, `CountingEnds` |
| `MCRegistration` | 2 e-mails, 3 ids, 3 concurrent requests | `OneAccountPerEmail`, `AccountsAreWhole`, `CreatedIsOwned`, `RegistrationEnds` |
| `MCSavedJobs` | 1 user, 2 jobs and 1 id without a job, 2 concurrent requests or calls, every route and header, pages 1 and 2 of 1 or 2 rows | `AnswersAddUp`, `TotalMatchesPage`, `OnlyAdminsWriteJobs` |
| `MCSavedJobsHttp` | 1 request | `SavedJobsAnswerAsDocumented`: **violated** |
| `MCSeeder` | 3 users of the real table, 2 jobs, 3 applications (one out of range), 1 saved job, 2 faults, 3 runs | `TypeOK`, `PositionsMeanTheirRows`, `ProfilesAreNotRepaired`, `CopiesNeedFaults`, `RunCompletes`, `RerunWritesNothing` |

`TypeOK` is an invariant of three runs, those of the modules with the most arithmetic in it; for every module it is proved for
every instance (section 5).

**Why the bounds are enough.** The races of this code are between two requests that touch one key, so two
requests and two users show every order; a third request is there where a third can wait behind two
(registration) or where the limit must be passed (the limiter: three requests race for a limit of two; an address and a minute
only name a counter, and two minutes give two counters). Two tokens give a session and its rotation, or the sessions of two users; the proofs remove
this bound. Feeds of two with repetition contain both "the same listing twice in one answer" and "another
listing after a failed one"; the third row is the copy that must not appear. Two writes to the jobs table put a write
before, between and after the steps of a reader; a filter by kind and one for all jobs, of different page
sizes, tell keys and pages apart. In `MCJobDetail`
one handler runs at a time, but the goroutines of the earlier ones run beside it and beside each other; handlers share nothing
else, and the proofs remove this bound. `MCJobFeed` has one instance, because `DeletedStaysOut` needs it;
`CopiesBounded` is proved for any number. In `MCSavedJobs` a save, a removal and a list meet
two at a time, a user may have more rows than a page holds, and the pair without a job meets the foreign key; users share no row there, so
one is enough, and the proofs have any number. In `MCJobDetail` the lists of 29 and 50 reach an end
of the truncated quotient (57 for 58) as well as 100 percent. `MCSeeder` has an administrator, who gets no
profile, and two developers; two faults break two different runs, and the third run repairs. `MaxFeed`, `MaxWrites`, `MaxReads`, `LastMinute`, `MaxFaults`, `MaxRuns` and the sets of ids and tokens
are the only bounds; ids and tokens run out because they are never drawn twice.

**Deadlock** is checked except where the system stops: after `Exit` (`MCApiProcess`, `MCShutdownDrain`), when the clock and the
requests of the limiter are used up, and when the seeder's runs are.

**Fairness.**
`Sessions`, `Registration`, `JobCatalogue`: a running handler is scheduled again (`WF` of its next call), because Go
schedules every runnable goroutine and each call returns a result or an error. In `Registration` an INSERT that waits
for another transaction is enabled only from time to time; Postgres queues lock waiters, hence `SF` of `InsertUser`; that the
client of a waiting INSERT gives up is not assumed.
In `JobDetail` the goroutine that counts a
view also runs on: its context ends after two seconds. `JobCatalogue` also assumes that Redis drops a key whose TTL is over. `JobFeed`: `WF` of the aggregator's own steps (the
HTTP client has a 30 s timeout), and `SF` of `Stop`, because Go's `select` picks among ready cases at
random. `Shutdown` and `ApiProcess`: from `Listen` on both goroutines of `main` run on (the ping before has
no deadline and may hang), and a statement in progress ends. No fairness is assumed
for clients, administrators, ticks, failures, the limiter, `Notify`, the signal or the deadline; `SavedJobs` and `Seeder` claim no liveness.

## 4. What the violated properties show

- `DrainsRequests`: `ListenAndServe` returns when `Shutdown` closes the listener, not when it has drained, and `main` then
  returns; requests are cut although README.md:19 promises ten seconds.
- `PagesReachEveryJob`: on a cache hit the total is the length of the cached page, so the page count shrinks.
- `SavedJobsAnswerAsDocumented`: the saved-jobs handlers expect a `uuid.UUID` in the request context where `middleware/auth.go:34` stores
  a string, so every request is answered 401; `saved_job_handler.go:29-33`, `65-66` and `99` document 201, 204 and 200 for an
  authenticated caller. The service behind them is checked through direct calls.

Observed while reading, without a run: any of the five application statuses is accepted from any other (README.md:15
draws a pipeline); a PUT sets `is_active`, so an update brings a deleted job back; an update or delete of an
application that vanished after the check answers 200; `rows.Err()` is never consulted, so a broken connection
shortens a list silently (and the short list is cached); `Refresh` and the logout handler discard the
error of DEL, so a reply of success does not mean that the token is dead (`auth_handler.go:148` says "Invalidate a refresh token";
when DEL does report success the promise holds: `DeletedStaysRevoked`, proved); the loser of two concurrent registrations of one e-mail gets
500 where `auth_handler.go:43` documents 409; a refresh whose DEL failed leaves two live tokens; a logout during a refresh leaves the new token;
a counter between whose INCR and EXPIRE something failed keeps no TTL;
a signal before `signal.Notify`, and any failure of start-up or of `ListenAndServe`, ends the process without its deferred calls;
a user whose profile the seeder did not come to write never gets one (`ProfilesAreNotRepaired`), a failed SELECT makes it insert a
job twice (`jobs.source_id` is not unique), a failed INSERT shifts every later position, and a re-run brings back applications that were withdrawn;
two notes of its tables name Sentry but stand on other companies' jobs (`cmd/seed/main.go:728` and `772`); the match README.md:14 promises "for each job" is
computed for a single job only, and for no skills when the profile cannot be read; the job list
README.md:13 calls public is behind the JWT middleware.

## 5. Proofs

`SessionsProofs` (any number of users, tokens, concurrent requests; assumption: `SessionsAssumption`, that `NoUser`
and `NoToken` are not a user and a token). `SessionsStayWithTheirUser` is not inductive: nothing in it says
for whom a request in flight acts. `Inv` adds

- `ActsForItsClient`: past its check, a request's user is its sender;
- `PresentsOwnToken`: the token in a request is in its sender's wallet;
- `MintedIsIssued`, `MintedIsUnknown`, `MintedIsUnshared`: a token drawn and not yet stored is in no wallet, under no
  key, and in no other request, so storing it can neither overwrite nor revive one;
- `PairOpensOwnSession`: a pair about to be delivered opens the session of its receiver;
- `OnlyIssuedTokens`: wallets and Redis contain drawn tokens only, so a fresh one is new to both.

From it: `TypeCorrect`, `SessionOwnership`, `OneLifeRefinement` (each step is a `Grant`, a `Retire` or a stutter
of `OneLife`), `HolderOnlyRevokes`, and `RevocationIsFinal` (with the invariant `RevokedIsDead`: a token whose DEL
reported success is in a wallet, and what `newTokenPair` stores is in none).

`ApplicationsProofs` (any number of users, jobs, ids, requests; `ApplicationsAssumption`): `TypeCorrect`,
`ListsAreOwn`, `DeletionIsFinal`, `OwnerOnly`, `OneLifeRefinement`. The inductive
invariant says that a request about to write named an id that has been drawn and whose row, if it is still there, is
the requester's: the owner check stays valid because rows never change owner and ids are never drawn again.

`JobsTableProofs` is about the two modules of the jobs table. Of `JobFeed` (any finite set of instances, any listings, jobs and
feed length; `JobFeedAssumption`) it proves:

- `CopiesPerInstance`: `CopiesBounded` is strengthened to `Bounded`: when a listing has a copy, its copies and the
  insertions under way for it are together no more than the instances. A check that found a copy begins no insertion, and
  an insertion turns one under way into at most one copy.
- `RunImports`: `Imported` says of a run in progress what `RunImportsTheRest` says of a finished one.
- `DeletionRespected`: for a single instance, by `FreshInsert` (at an insertion there is still no copy, because
  administrators create jobs without a source id only). With two instances it fails: one may be past its check when
  the copy of the other is deleted, and inserts an active one. No document promises more, so there is no run for it.

Of `JobCatalogue` (any kinds, filters, requests and number of writes; `JobCatalogueAssumption`, that there is a filter, pages and
page sizes are positive and `AnyKind` is no kind) it proves `ListTypeCorrect`, `OneMoment`, `TablePagesReach` and
`SettledForGood`. `PageOfOneMoment` looks at replies only, but a reply from the cache was filled by another request, perhaps
long ago. `ListInv` says that a list keeps its moment wherever it is (`FromOneMoment` of every key, under the filter that *is*
the key, and of every request between SELECT and reply), which appending to the history cannot spoil; that
the total of a request is the count of the table as it is, as long as nothing was written since it came; and that
the table after `i` writes has at most `i` rows, which bounds the totals. `TablePagesReach` is then
arithmetic: the jobs that match and are newer than one of `n` are fewer than `n`, so its page is at most the quotient rounded
up. `SettledForGood` is the safety half of `CacheSettles`: once every list in the cache and between SELECT and SET is of a
table that is no longer written (`Settled`), it stays so.

`JobDetailProofs` (any users, jobs, spellings, requests and goroutines; `JobDetailAssumption`, and `SkillsFinite`: a list of skills
is finite):

- `ViewsCounted` from `Typed` alone, which is `TypeOK` without the bound `MaxReads` (`TypeCorrect`); `RepliesOfOneMoment` from
  `Faithful` (a request about to read has witnessed the row and the profile as they are); `MatchIsExpected` from the same and from
  lemmas on cardinalities (`LoweredFinite`, `Shares`) and on the truncated quotient (`CutShare`, `MatchCuts`, `PercentBounded`): that
  it falls short by one at 29, 57 and 58 touches neither end, so 100 percent still means that no skill is missing.
- `TypesBounded`, `TypeOK` with the bound. `Submit` counts the readers under way among the reads (`Room`), views are at most the
  reads (`ViewsAddUp`), and what a request holds it has from rows that were bounded when it saw them (`Small`).

`RegistrationProofs` (any e-mails, ids and concurrent requests; `RegistrationAssumption`): `OneAccount`, `WholeAccounts`,
`OwnersAreTold`. The three are not inductive, because a commit is decided long before it happens. `IInv` adds, of each
request (`Sound`), that while its transaction is open its e-mail is not registered and its id is neither in the table nor told to
anyone, and of each two (`Apart`), that open transactions have different e-mails (the lock of the unique index) and ids.

`ApiProcessProofs` is about the limiter, the process and their composition. Of `RateLimit` it proves (any finite set of
requests, any addresses, limit and minutes; `RateLimitAssumption`): `LimitHolds`, `Refusals`, `CountersHaveTTL`. A counter's TTL is never set before the counter's minute, so the counter does not fall while its
minute lasts (`Reached`: it is at least what any request has seen); hence requests counted in time have seen different numbers
(`Differ`), and those let through inject into `1..LimitPerMin`. For `Refusals`, a counter without a failed command is
at most the number of requests it has counted (`Sound`).

Of `Shutdown` (any set of requests; no assumption) it proves `ServerTypeCorrect` and `PoolClosesLast`. The pool closes on the path
through `DeferCancel`, and `main` gets there only over a closed listener. Of `ApiProcess`, whose steps are a step of one or both or leave
one alone, `ImplementsBoth`: it implements both specifications, so that what was proved of each holds in the composition
(`LimitHoldsInProcess`, `PoolClosesLastInProcess`).

`SeederProofs` (tables of any length, any number of runs and faults;
`SeederAssumption`: no table is empty, no e-mail or source id is twice in its table, positions are naturals, possibly out of
range, and some application is in range; `SeedData` has the real tables satisfy it): `TypeCorrect`, `Positions`,
`CopiesFollowFaults`, `ProfilesStayMissing`, `RunsComplete` and `RerunsWriteNothing`. The five properties do not
follow from a single step, as what the lists of a run hold is known only from the run so far. `IInv` adds

- `Collected`: the lists of a run that has left nothing out are the tables up to the row it has come to, and the users and jobs
  they name are there;
- `Written`: a run in which nothing has gone wrong has written every pair in range up to its row;
- `Copies`: a job about to be inserted has no more copies than there were faults, and in an undisturbed run none; and an id is
  in a list or a pair only after its row is in the table;
- `Profiles`: who has a profile, now, between the INSERT of a user and of its profile as well;
- `UsersFirst`: once a pair is written without a shift, every user is there, so no INSERT of a profile is to come; a re-run
  has nothing to insert then.

`RunsComplete` is `Collected` and `Written` at the last statement; `RerunsWriteNothing` needs `Collected` to know that the statement
names the user and the one copy of the job its row means, for which there is a pair already.

`SavedJobsProofs` (any users, jobs, requests, default limit, pages and limits asked for; `SavedJobsAssumption`): `AnswersTellTheTable`,
`TotalsMatch`, `AdminsOnly`. A request that came over HTTP is answered in the step that receives it, which gives the last; for
`TotalsMatch` the length of a page in hand is what LIMIT and OFFSET leave of the user's rows as they are, as long as `exact` holds.

`Registration`, `RateLimit` and `SavedJobs` have their `TypeCorrect` there too. Every invariant and every action property the
runs check is thus proved for all values of the constants. (Where a module of proofs covers two components, one of
the two has a prefix in its general names, such as `ListSpec` or `ServerInit`, so that both can be extended.)

Only model-checked: liveness (`EveryRequestEnds`, `CancelStops`, the arrival in `CacheSettles`, `RegistrationEnds`, `CountingEnds`,
`SignalEndsProcess`), which needs `ENABLED`; and the facts about the seeder's real tables in `SeedData`, which TLC evaluates.

## 6. Assumptions and limits

- `secureToken` and `uuid.New` never draw a value twice; a client does not know another's password or token.
- A statement whose error was reported has been committed or not before the same instance sends its next one, and
  before a restarted instance sends its first.
- The access token's lifetime is not modelled: `access` records whom it names, not until when.
- How `clientIP` reads headers is abstracted to the set of addresses it may return.

- The JWT library decides whether a token verifies; `Api` takes its verdict as an input.
- The seeder's API beside it registers the table's e-mails and changes its applications; it does not delete jobs, which the
  seeder would find all the same.

## 7. Not modelled

- Logging, response formatting, request validation, the body limit and CORS: stateless work on one request, without
  effect on the tables. Bodies and ids they refuse change nothing.
- bcrypt (`pkg/hasher`): a library call whose verdict and failure `Sessions` and `Registration` take as inputs.
- `docs/docs.go`: generated from the handlers' comments.

What could follow: a second process of the seeder beside the first.
