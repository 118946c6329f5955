# Verification of upstore

TLA+ models of the upstore services, TLC runs over small instances, and TLAPS
proofs for instances of any size. Source paths are relative to the repository;
`accounts/`, `profiles/` and `gateway/` stand for the directories under
`services/`.

## 1. Inventory

upstore is three Go processes, a PostgreSQL database and a RabbitMQ broker.

| Component | State it keeps | Operations |
|---|---|---|
| Registration (`accounts/internal/accounts/register.go`) | rows of `accounts`, `outbox_events` | `RegisterWithPassword`: both rows in one transaction |
| Outbox relay (`outbox/relay.go`) and publisher (`outbox/rabbitmq.go`) | `published_at`; an open transaction; one AMQP channel with confirms | `Run`, `RunOnce`, `Publish` |
| Broker (external) | exchange, queue, unsettled deliveries | route, confirm, deliver, requeue |
| Profiles consumer (`profiles/internal/profiles`) | rows of `profiles`; prefetched deliveries | `Consume`, `handleDelivery`, `HandleAccountCreated` |
| Sessions (`auth/sessions.go`) | rows of `sessions` | `Issue`, `Refresh`, `Logout`, `RevokeAccountSessions` |
| Email verification (`verification/verification.go`) | rows of `email_verifications`, `accounts.status` | `Issue`, `Verify`, `Resend` |
| Sign-in (`auth/service.go`, `auth/password.go`) | `failed_login_attempts`, `locked_until`; 8 hash slots | `Login`, `recordFailure`, `deriveKey` |
| HTTP API (`httpapi/api.go`) | four keyed limiters: sign-ins per address and per email, registrations and resent links per address | one handler per endpoint |
| Keyed limiter (`httpapi/limiter.go`) | map from key to token bucket | `Allow`, `evictIdle` |
| Gateway (`gateway/internal/gateway`) | none | proxy `/v1/auth/`, verify tokens for protected prefixes |
| Access tokens (`tokens/tokens.go`, `shared/authtoken`) | none | sign, verify |
| Validation (`shared/validate`) | a schema under construction: rules, `optional`, item schema | builder methods, `Validate`, `ValidateAll`, `ParseString`, `ValidateStruct`; every `config.Load` uses it |
| Configuration (`internal/config` of each service, `shared/env`) | the settings | `Load`, `Env` |
| Process (`cmd/main.go` of each service) | what `run` has opened and deferred, the relay's goroutine, the listener, handlers | `run`, `Shutdown`, signals |
| Mailers, health, test helpers | none | |

How they interact. A request reaches the accounts API through the gateway. The
handlers of one process run concurrently and share the database, the hash slots
and the limiters; `register` calls `Service.Register` and then
`verification.Issue`, `login` calls `Service.Login` and then `Sessions.Issue`. A
committed registration is picked up by the relay of some accounts process, which
publishes to the broker; the profiles process consumes and inserts. There is no
call back: the two services share nothing but the event. In each process `main`
loads the settings, opens pool and broker, starts the relay and the listener, and
unwinds all of it in reverse when a signal comes or a step fails.

What is hard here:

* the relay and the consumer can stop between any two statements, the broker
  redelivers, the publisher's channel can close while a confirm is awaited;
* everything in `auth` and `verification` runs at READ COMMITTED: a statement
  sees what was committed when it began, waits for row locks, and re-reads rows
  it waited for but never picks up rows inserted meanwhile;
* values read before a slow step (the account before the password hash, the
  session before the transaction) are used after it;
* bounded resources: hash slots, pool connections, prefetch, the limiter's map;
* a signal or a failure may come at any step of `run`, while the relay holds a
  connection of the pool that `Close` waits for, while handlers are busy, and while
  refreshes that lost a race each keep a connection and wait for another;
* schemas are built by methods that all change one shared object, which `Items`
  and `OneOf` keep references from.

What makes each component correct:

| Component | Properties |
|---|---|
| Registration, relay, broker, consumer | an event marked published is not lost (`NoEventLost`), is sent twice only after a fault (`DuplicatesNeedFailures`), makes the right profile (`ProfileMatchesAccount`), every account gets its profile (`RegistrationPromise`), the pipeline comes to rest (`Quiesces`) |
| Sessions | one working token per sign-in (`OneLivePerSignIn`), one exchange per token (`ExchangedOnce`), a user is signed out everywhere only after a reuse (`RevocationNeedsReuse`), a ban holds at the next refresh (`BanStopsNextRefresh`), a row revoked by a logout, a reuse or an exchange has no later successor (`RevokedHasNoHeir`), requests end (`RequestsEnd`) |
| Email verification | activation and use of the link are one (`VerifyIsAtomic`), a link works once (`WorksOnce`), mailed links exist (`MailedLinksAreStored`), a new link replaces earlier ones (`NewLinkReplacesOld`), requests end |
| Sign-in | the lock follows the streak (`LockFollowsStreak`), bounds the guesses (`GuessesPerLock`), ends early only by a success (`LockEndsEarlyOnlyBySuccess`), hashing is never stuck (`LoginEnds`) |
| Keyed limiter | bounded memory (`MapsBounded`), bounded grants (`GrantsBounded`), eviction cannot be noticed (`EvictionUnseen`) |
| Gateway and access tokens | a ban reaches protected routes in bounded time (`BanReachesGateway`), a fresh token is taken (`WorksWhileFresh`) |
| Validation | each call is checked, in its order and nothing else (`AnswerFollowsCalls`), item errors name their item (`ItemErrorsPlaced`), a schema does not change behind its owner's back (`RulesAreKept`), no call takes back an earlier one (`CallsOnlyNarrow`) |
| Configuration | the errors are exactly the unfit settings, each once (`RefusalIsComplete`) |
| Process | requests are let in only while what they need is there (`ServingIsBacked`), the end spares them if it can (`OrderlyExit`), the end comes, unless refreshes that lost a race keep the whole pool (`StopsWhenTold`) |

The hazards behind them, each at its line, are listed in `PROJECT.json`.

## 2. Modules

| Module | Models | Uses |
|---|---|---|
| `Broker` | exchange and queue as the code relies on them | |
| `Outbox` | registration transaction, relay, publisher, process restart | `Broker` |
| `Consumer` | profiles process | `Broker` |
| `Pipeline` | the three interleaved, their properties, the inductive invariant | `Outbox`, `Consumer` |
| `Onboarding` | abstract specification: one account per address, one profile per account | |
| `Sessions` | `auth.Sessions` | |
| `Verification` | `verification.Service` | |
| `Login` | `auth.Service.Login` and the hash slots | |
| `Quota` | abstract specification: one bucket per key, never forgotten | |
| `Limits` | `httpapi`'s four keyed limiters under `login`, `refresh`, `register` and `resendVerification` | `Quota` |
| `Access` | access tokens from `Issuer.IssueAccess` to the gateway's `requireToken` | |
| `Validate` | the operators of `shared/validate` | |
| `Schemas` | a program that builds schemas, changes what it has handed over, and checks values | `Validate` |
| `Config` | `Env` and the three `Load` | `Validate` |
| `Service` | the life of one process, from `config.Load` to its exit | `Config` |
| `Programs` | a process, a schema or the access tokens, one of them in a behaviour | `Service`, `Schemas`, `Access` |
| `MCPrograms`, `MCLimits` | instances for TLC: strings and environments; symmetry | the module named |
| `Pipeline_proofs`, `Sessions_proofs`, `Verification_proofs`, `Login_proofs`, `Limits_proofs` | theorems | the module named |
| `Config_proofs` | lemmas about sequences, `shared/validate` and the three `Load` | `Config` |
| `Service_proofs` | theorems | `Service`, `Config_proofs` |
| `Programs_proofs` | theorems about `Access`, `Schemas` and `Programs` | `Programs`, `Service_proofs` |

A module about which something is proved ends with a section that names the parts of
its inductive invariant; those are definitions for the proofs and stand for no code.

Operators whose comment begins with "Mutated:" are not part of a specification.
Each is a plausible mistake in the definition after it (a dropped test, a
missing lock, a swapped order), kept to show that the property named in
`PROJECT.json` would notice.

### Pipeline

State and code. `reg[r].pc` is where `RegisterWithPassword` stands for request
`r` (`begun`, `account` row inserted, `event` row inserted, `committed`,
`failed`), `event[r]` its outbox row with the id drawn from the sequence,
`published` the rows whose `published_at` is committed. `relay[p]` is the open
transaction of `RunOnce` in process `p`: the locked batch, the rows marked, the
row sent and not yet confirmed. `channel[p]` is the publisher's channel. `queue`
and `unacked` count copies of a message, `handled[c]` is the message whose
profile is written and whose Ack is to come. Requests for an address are
serialised by the unique index: a second INSERT waits for the first one's
transaction and fails if that commits.

One action is one SQL statement, one AMQP call or one commit. Errors take the
paths of the code: a failed `Publish` ends the loop and commits the marks made
so far, a failed mark or commit rolls all of them back, a lost channel yields a
zero `Confirmation`. A pass that finds no row changes nothing and is left out.
A message is identified with the registration it announces, so payloads need no
representation; a stray message stands for one `handleDelivery` cannot use.

`Onboarding` is what a user may rely on. `Pipeline` implements it under the
mapping `Promise`: an account exists when its registration has committed.

### Sessions

`row[s]` is the committed state of a session row, which stands for its refresh
token as well; `parent` and `root` are history: the session it was exchanged for
and the one its sign-in began with. `pc[q]` is the next statement of request
`q`. A refresh that has revoked its old row (`issue`, `commit`) holds the lock
of that row, and nobody sees its two changes before its commit.
`RevokeAccountSessions` is two steps: it picks the live rows it sees, then waits
for the locks of all of them. `inTx` and the requests that are waiting for a row
lock outside a transaction count against `MaxConns`; statements that never wait
are one step that needs a free connection. Every statement may fail (`Fail`).
`Expire`, `Bar` and `Lift` are the clock and the operator.

### Verification

`link[l]` is the committed state of a row, `picked[q]` the rows that a started
`InvalidateEmailVerifications` updates and whose locks it then holds until its
commit, `before[q]` (history) the account's links when `Issue` was called.
`mailed` are the links handed to the mailer, a step of its own after the commit.
`ConsumeEmailVerification` waits for the row's lock and looks at `used_at`
again, as PostgreSQL re-evaluates the condition.

### Login

One account. `Login` reads the account and the clock (`asOf`), chooses what is
hashed (the account's own hash, or the dummy hash when the account is locked or
unknown), waits for a slot, and writes its outcome with the values read at the
beginning. `attempts` and `lockedUntil` are the columns; a lock time that has
passed is as good as NULL. `streak` and `locks` are history. `MaxLag` bounds the
age of a sign-in when it writes. `Register` takes a slot to hash its password
and has no other part in this module; what it writes then is in `Outbox`.

### Limits

A key is a limiter and what it counts by: an address for `loginIP`, `registerIP`
and `resendIP`, an email for `loginEmail`. `tracked` is the set of keys with an
entry, the maps of the limiters being told apart by `Group`. `level[k]` is the bucket of
`k` in ticks of credit: it grows by one each tick up to `Cap[k]`, and a token costs
`Period[k]`, which is what `rate.Limiter` computes lazily from the time of its last
change. A new bucket is full, so a key without an entry is kept as a full bucket.
`seen[k]` is `lastSeen`. Each `Allow` holds the limiter's mutex and is one step,
eviction and clearing included; the two limiters of a sign-in are asked in two steps
(`LoginAddress`, `LoginEmail`), with the steps of other requests between them.
`Refresh`, `Register` and `ResendVerification` ask one. `granted` and `cleared` are
history.

`Quota` promises one bucket per key that is never forgotten. It lets the buckets
of a limiter be filled again (`Forgive`) only while `MaxKeys` other keys are in
use, that is, were seen within `IdleTTL`. `Limits` implements it with the same
`clock`, `level` and `seen`. So the eviction of idle keys changes no answer; the
clearing of a full map does, and only under that crowd.

`Limits` holds for any rates. With those of `DefaultConfig` the limit per email
is looser in its burst only: it earns 4 tokens a minute, an address 10.

### Access

`clock` is the accounts service's, `clock + offset` the gateway's; `offset` may
change at any time within `MaxSkew`. `user[q]` is an account that `Login` or
`Refresh` has read and let pass, `asOf[q]` when; `IssueAccess` signs for it at
most `MaxLag` later and looks at nothing again. A token is its dates in whole
seconds (`NumericDate`) and its account; `signed` is history. Which session asked
makes no difference here, since the gateway does not look at `sid`: anybody who is
not barred may ask, which covers every sign-in and every refresh. `Forward` is a
request that passes `requireToken`; the client may have set `X-Account-ID` to any
account. The `main` of the gateway protects no route yet; `Forward` is what `Protect`
does for one. `served` and `lastFree` are history. The lifetime of a token as a client
sees it is shorter than its `ExpiresIn` by up to a second and the difference of
the clocks: dates are truncated and compared without leeway.

### Validate and Schemas

`Validate` has one operator per builder method: it appends a rule, that is, the set
of values it accepts, with the call in the place of the error's wording. What
the standard library makes of a string (its runes, whether it parses as a URL, an
address, an integer) is a table, so a string is a word without inner structure.
`Less` is Go's `<` on floats, false as soon as one side is NaN; the rules of floats are
written with it as in the code, as what they refuse.

`Schemas` is the caller. `schema` is the object its fluent calls change, `item`
another one that it may pass to `Items` and go on changing, `slice` the slice it
passed to `OneOf` and may write to. A rule that keeps the caller's slice is
`aliased` and follows it: the case of integers, not of strings. `calls` and
`itemCalls` are history, and the reference definition (`Meets`, `MayBeEmpty`) is
written over them alone, never over the rules.

Comments of the library say otherwise than its code in these places. The operators of
`Validate` do what the code does; the reference definition of `Schemas` is what the
docs ask for, with an exception of its own, named and set apart, for each kind of value the
code treats differently. `programs` has such values: among the values it checks, the
code differs from this reading of the docs there and nowhere else.

| Doc | Code | In the reference definition |
|---|---|---|
| `PostgresURL` and `RabbitMQURL` want "User: must be present with a username" (`string.go:208`, `string.go:277`) | user information with a password will do: `postgres://:p@h/d` and `amqp://:p@h` pass | `HasLogin` is the doc, `Nameless` the exception |
| a float's `Positive` "enforces that the value is greater than zero" (`number.go:264`); so `Negative`, `Min`, `Max` | each rule tests for what it refuses and NaN is not that, so NaN passes all four (`number.go:236-299`) | `NumberAsked` is the doc, `NaNPasses` the exception |
| the example of an array's `Min(1)` answers an empty one with "must have at least 1 items" (`array.go:64`), while the doc of `Required` has it fail with "is required" (`array.go:46-48`) | "is required", and the rules are not reached (`array.go:212-216`) | the doc of `Required`: first arm of `AnswerFollowsCalls` |
| `IntSchema.ParseString` applies all validation rules (`number.go:190`) | it applies none (`number.go:199-205`); `portField` has a second schema for them | none: `Config` calls both, as `portField` does |

The URLs without a username reach `Load` as well: `UnfitURL` in `Config` goes by the code
and takes them, and says so.

### Config and Service

`Config` translates `Load` of the three services setting by setting; an environment
maps the settings to words, `""` being an unset one, since `Env` treats both alike.
`Unfit` says of each setting on its own when it is wrong, and `RefusalIsComplete`
compares the two.

In `Service`, `todo` is what `run` has still to execute, `deferred` the calls it has
deferred, `open` what of the pool, the connection and the channel is not closed.
`Return` leaves the body; `Unwind` then runs one deferred call at a time, the pool's
in two steps: it lends no connection any more, then waits for those that are out.
`relay` is where the relay's goroutine is: `open`, `sent` and `marked` hold a connection,
and `sent` waits for a confirm, for `ctx`, or for the channel to close.
`request[r]` is a handler: `running` without a connection, `holding` one, `wanting` a
second while it keeps the first, or with `both`. A refresh that finds its row revoked by
another one becomes `wanting` (`Lose`): it revokes all sessions through the pool while its
own transaction is open. `Acquire` waits while all connections are out, on a closed pool
too, because `Close` wakes nobody, and fails if the pool is closed when its turn comes.
`GiveUp` is a loser whose request ends: its client has gone. `Select` is the
`select` of `run` and the first act of `Shutdown`, `Drain` its wait, with `late` for
the five seconds. A process serves requests while `listener` is `open`. The variable `open` holds
what `run` has not closed itself; that a broker closes a channel is in `Outbox`, not here.

The profiles process has neither key nor listener; its `Consume` is a step here, and
a module of its own, `Consumer`, where its deliveries matter.

### Programs

A process, a program that builds schemas, and the tokens between accounts and
gateway share no variable, so a behaviour is about one of them (`subject`): the
product of the three would show nothing more. A property of one holds trivially where
the others are the subject.

## 3. Runs

| Run | Question | Result |
|---|---|---|
| `pipeline` | Are events lost or doubled, profiles wrong, with two relays and faults? | holds |
| `pipeline_live` | Does every account get its profile, and does the pipeline come to rest? | holds, if a process with a lost channel is restarted |
| `pipeline_reconnect` | The same without that condition | violated |
| `pipeline_unbound` | Delivery before the queue was ever declared | violated |
| `sessions` | One working token per sign-in, one exchange per token, bans, reasons for revocation, revoked rows without later successors, requests end | holds |
| `sessions_reuse` | Does a detected reuse stop sessions being issued meanwhile? | violated |
| `sessions_pool` | Is a detected reuse acted on when connections are few? | violated |
| `verification` | Atomicity, single use, replacement of links, requests end | holds |
| `verification_two_links` | Is only the newest link valid? | violated |
| `login` | Does the lock follow the streak, what bounds the guesses, is every hash made? | holds |
| `limits` | Is memory bounded, and can a user notice that idle keys are evicted? | holds |
| `programs` | Processes: does each refuse exactly what is unfit, serve only with what it needs, stop when told, unless losers of refresh races keep the whole pool? Schemas: are values checked against the calls made? Tokens: how long after a ban do protected routes answer, does a fresh token work? | holds |

Violated runs are disagreements between the code and its comments; each is
quoted under "findings" in `PROJECT.json`:

* `pipeline_reconnect`: the publisher's channel is opened once. When it closes,
  nothing is published again until somebody restarts the process, and the health
  check does not notice. "Delivery is at least once" needs that somebody.
* `pipeline_unbound`: the broker confirms a message that no queue is bound for.
  The accounts service does not declare the queue, so events published before
  the first profiles process has run are lost.
* `sessions_reuse`: the revocation after a reuse does not see a row that a
  concurrent refresh has inserted and not committed; that session survives.
* `sessions_pool`: the loser of a refresh race asks the pool for a connection
  while it keeps one. With as many losers as connections none of them, and no
  other request, goes on. Such a process does not stop on SIGTERM either (section 5).
* `verification_two_links`: two overlapping calls of `Issue` leave two links.

## 4. Bounds

Named bounds in the guards: `MaxFailures` (failed statements, nacks, restarts of
a sound process, each at any step), `MaxDrops` (channels closed), `MaxSetbacks`
(consumer stops and failed inserts), `MaxRequests`, `MaxTokens`, `MaxClock`,
`MaxLag`, `MaxSkew` and `MaxCalls`. `Session` and
`Link` are finite, and a request that inserts a row starts only while one is left
for it (`Room`).

* `pipeline`: 2 registrations (same or different addresses, both account types),
  2 relays with batches of 2, prefetch 2, one fault of each kind. Two relays and
  two rows are what it takes for a row to be listed twice; one fault of each kind
  lets a crash, a lost confirm and a redelivery meet in one behaviour.
* `pipeline_live`: one relay and one account type, with a stray message. More
  relays add no new reason not to progress: passes do not wait for one another.
* `sessions`: 3 rows, 2 requests: a sign-in, its exchange and one more session,
  with every pair of calls overlapping, for one account; that other accounts make no
  difference is proved (`NoRevocationWithoutReuse`). `sessions_pool` takes 3 requests and 4
  rows: two losers and the call that made them lose.
* `verification`: 3 links, so that a replaced link, its replacement and one of
  the other account exist together. Visitors may stop and links run out, hence no
  deadlock check; `RequestsEnd` says that no request is stuck.
* `login`: the lock after 3 failures (5 in the code) for 2 ticks, requests at
  most 1 tick late: a request can read before a lock and write under it.
* `limits`: 3 addresses for maps of 2 keys, so that a map is full, evicts and is
  cleared; 4 requests, which is what an evicted key takes to come back; buckets of one token that are full again before `IdleTTL` (3 ticks), as
  300 s against an hour in the code; 5 ticks are enough for a key to be evicted
  and to come back.
* `programs`, processes: 2 requests and a pool of 2, so that handlers and relay compete
  for it and both requests can be losers of a race, which takes all of the pool; settings that are a development or a production environment changed in at
  most two places, out of 2 to 5 words for each setting, which pairs every error with
  every other and with both kinds of environment.
* `programs`, schemas: 3 calls on schema and item schema together, lists of up to 3
  items, limits 1 and 2. Three calls are a rule, a second rule or mark, and one after
  `Items`, and a mark taken back by the other one.
* `programs`, tokens: seconds of 2 ticks, so that truncation matters; a lifetime of 4 ticks,
  lag and skew of 1. The bound of `BanReachesGateway` is then 6 ticks, less than
  `MaxClock` (7): a ban in the first tick is seen to take full effect. It is tight: a
  token taken at its very last second would exceed it.

The proofs (section 6) do not depend on these bounds.

`MaxLag` and `MaxSkew` are also part of what `Login` and `Access` claim: the code
bounds neither the wait for a hash slot nor the difference of the clocks.

`CHECK_DEADLOCK FALSE` is set where the modelled system may really stop: all
registrations done and messages settled, all links used up, or a bounded clock at its
end.

## 5. Fairness

* Relay: weak fairness of `RelayStep`. The ticker fires each second and `Run`
  calls `RunOnce` until its context is cancelled; no step of it waits for
  something that may never come (a confirm comes or its channel closes).
* Consumer: weak fairness of `ConsumerStep`, which includes starting: `Consume`
  returns only when its channel closes, `main` then exits, and the container has
  `restart: unless-stopped` (`infra/docker-compose.services.yaml`).
* `RestartedSpec` adds weak fairness of restarting an accounts process whose
  channel is closed. No code does that; `pipeline_reconnect` shows what happens
  without.
* Sessions, Verification, Login: strong fairness of `Step(q)` for each request.
  A handler goes on running, and what it waits for is granted in the order of
  asking: PostgreSQL's row lock queue, pgxpool's waiters, senders blocked on a Go
  channel. Weak fairness would let one request be overtaken for ever.
* Service: weak fairness of `Main` (`run` goes on), of `RelayStep` (what the relay does
  without the broker: give up when `ctx` is done or the channel closed, commit, return)
  and of `RequestStep` for each request. Weak is enough: `Drain` may time out, and once
  the listener is closed and the pool lends nothing, whoever holds a connection and waits
  for none gives it back; one that waits for a second gets its turn if a connection stays
  free. If every connection is kept by a refresh that waits for another one
  (`PoolStarved`), nothing in the code ends that: `Shutdown` cancels no handler and `Close`
  wakes none. Then `run` never returns, although its doc says that it "blocks until the
  process receives SIGINT or SIGTERM" (`accounts/cmd/main.go:41-42`). `StopsWhenTold` has
  this one exception; without it the run finds just that behaviour. It is the deadlock of
  `sessions_pool` seen from `run`. `GiveUp` is not fair, since no code makes a client go
  away; nor are a confirm (`RelayConfirmed`), a new pass and a new request.
* Requests, visitors, clocks, operators and faults are never fair.

`RequestsEnd` and `LoginEnds` are stated as `[]<>` of "idle": a request that is under way
is then over at some time, and nothing else is asked, as an idle one may stay idle.

## 6. Proofs

TLAPS checks the following for every value of the constants that satisfies the
named assumptions (`OutboxAssumption`, `ConsumerAssumption`,
`QueueDeclaredAssumption`, `PipelineAssumption`, `SessionsAssumption`,
`VerificationAssumption`, `LoginAssumption`, `LimitsAssumption`, `AccessAssumption`,
`ServiceAssumption`, `ValidateAssumption`, `SchemasAssumption`, and the four of `Config`,
`WordsAssumption`, `PortsAssumption`, `FallbackURLsAssumption`, `BlankAssumption`). They
ask for distinct null values, positive batch and prefetch sizes, thresholds and durations, at least one
hash slot and one connection, finite sets of the requests that are counted, and valid
account types that are those the consumer accepts, which both services take from
`shared/events`; that a bucket left alone for `IdleTTL` is full (`DefaultConfig`: 20
tokens of 15 s against an hour); and that lifetimes and seconds are positive. Those of
`Validate` and `Config` are facts about the standard library: what parses as an integer
is one, the empty string has no runes, a password comes with user information, no blank
string is a URL with a host, and the fallbacks written in `config.go` parse as what they
look like. TLC
evaluates all of them for the instances of the runs. Every invariant below was checked
with TLC on its run before it was proved.

### Pipeline_proofs

`TypeCorrect`, `NothingLost`, `ProfilesAgree`, from `DeliveryInvariant`. `NoEventLost`
is not inductive: it speaks of rows marked and committed, while the danger begins at
the confirm. `DeliveryInv` adds

* what has been *confirmed* (marked in an open pass, or sent and awaiting its
  confirm) has a profile or is in transit, not only what is `published`;
* a message about to be acknowledged is held and its profile written;
* passes hold committed rows only, and nothing of an uncommitted registration is
  known outside the accounts database;
* an outbox row exists exactly while its transaction is open or committed.

`RegistrationImplementsPromise` is the refinement of `Onboarding`, without its progress:
`EmailsUnique` (of the transactions that hold a row for an address, open or committed,
there is one) makes the commit of a registration a step of `Onboarding`, `DeliveryInv`
the first insert of a profile; every other step is a stutter.

`DuplicatesBounded` needs that a row is in one pass at a time and in none once its mark
is committed (`BatchesDisjoint`: `SKIP LOCKED`), and `CopiesAccounted`: every copy but
one that is *safely* confirmed has cost a failure or a lost channel. A confirm is safe
when its mark is committed, or known to a pass whose channel is open. Without "whose
channel is open" it would not be inductive: the drop is paid when the channel closes,
the confirm given up later, when the pass ends.

### Sessions_proofs

`SessionsTypeCorrect`, `OneTokenWorks`, `TokensExchangedOnce`,
`NoRevocationWithoutReuse`, `BanHolds`, `RevokedIsOver`, from `SessionInvariant`. The
strengthening is that row locks are exclusive and a locked row is still live for
everybody else (`LocksExclusive`), that an exchanged row is revoked, that a row
about to be inserted is nobody else's, and that for each revoked row and each
request working on a token there is a presentation to account for it
(`RevokedHaveReason`): two requests on one token already are a reuse.

### Verification_proofs

`VerificationTypeCorrect`, `VerifyAtomic`, `LinkWorksOnce`, `MailedAreStored` and the
action property `NewReplacesOld`, from `VerificationInvariant`. `LocksExclusive` is the
core: a row that an open transaction has updated is still live for all others, and no
second transaction has updated it, so the second visitor of a link finds `used_at` set
when the lock is his. A link that is being issued belongs to the request that issues it
alone (`RequestsWellFormed`). For the replacement, `EarlierLinksPicked` follows the
links that existed when `Issue` was called: from the snapshot of the invalidation on,
each is among the rows it has picked, or has been used by a visitor.

### Login_proofs

`LoginTypeCorrect`, `StreakLocks`, `GuessesBounded` and the action property
`LockShortenedByLagOnly`, from `LoginInvariant`. `GuessesPerLock` is not inductive:
wrong passwords under way are counted later. `GuessesSpent` charges them while a lock
is in force, when they are the only ones that can still be counted: a sign-in that begins
under a lock hashes the dummy. `TimesBounded` says that nothing is older than `MaxLag`
and no lock lasts more than `LockDuration` from now: what an old failure takes from a
lock in force is then at most `MaxLag`. `SlotsAccounted` ties the slots taken to the
requests that hash.

### Limits_proofs

`LimitsTypeCorrect`, `MapsStayBounded`, `GrantsStayBounded`, from
`LimitsInvariant`, and the refinement `LimitersImplementQuota`. The strengthening
says that a bucket has earned what the time since its last use allows, so an idle
one is full (`EarnedSinceUse`), and that credit left and tokens granted together
come from the bursts and from the time (`CreditBounded`). That maps do not
overlap (`GroupsPartition`) makes a clearing of one leave the others alone. The refinement rests on
the first: what `evictIdle` drops is full, hence the same as a new bucket; and
where it drops everything, the map holds `MaxKeys` keys that are not idle, which
is when `Quota` may forgive.

### Config_proofs and Service_proofs

`ServiceTypeCorrect`, `ExitIsOrderly` and `HandlersHaveAll`, from `ServiceInvariant`,
for each of the three services. The argument follows the text of `run`.
`RunsItsCourse`: what a process has still to execute is a suffix of its service's
statements, until it drains, unwinds or is gone. Its position therefore says what is
done: the listener is not there before its statement (`ListenerFollowsRun`), and what
was opened before it stands until run is over (`WorkStands`), which is all that
`HandlersHaveAll` needs. For the exit, `PoolClosesLast`: as long as the pool is open or
the relay holds a connection, its `Close` is still among the deferred calls, so the
process cannot be gone. `EndIsReported`: handlers still at work when run is over mean
that Shutdown's time was up or the server had failed, and run returns an error. The
order of the other deferred calls matters for `StopsWhenTold`, which is liveness.

`LoadRefusesTheUnfit` (`RefusalIsComplete`) and `ServingHasItsMeans` (`ServingIsBacked`)
follow from `LoadDecides`, which `ServiceInv` makes inductive: what `Load` reads is an
environment of its service, and what it lets pass is in use from then on, so the port is
a port and mail can be sent. What `Load` reports is computed in `Config_proofs`, setting
by setting. `Verdict`: the schema of a setting reports one error under its name if the
setting is unfit, none otherwise; `Reports`: a list of such verdicts put together reports
each unfit setting once, in their order; `AccountsReports`, `ProfilesReports` and
`GatewayReports` say so of the three services, whatever the environment.

### Programs_proofs

Of `Access`: `AccessTypeCorrect`, `BansReachTheGateway`, `TokensWorkWhileFresh`, from
`AccessInvariant`: whoever is being signed in was free at most `MaxLag` ago
(`AdmittedWereFree`), so was the account of each token when the token was signed
(`TokensWereEarned`), and truncation takes less than a second off a date
(`TruncationBounds`).

Of `Programs`: `ProcessIsService` and `TokensAreAccess` carry the theorems about `Service`
and `Access` over to the specification that the run checks (`ProgramsAreSafe`,
`ProgramsTypeCorrect`).

Of `Schemas`: `SchemasInvariant` adds to the types that only an integer's `OneOf` keeps
the caller's slice (`WellBuilt`), through each of the builder methods; `StringRulesKept`
follows. `AnswersFollowCalls`, `ItemErrorsArePlaced` and `CallsNarrow` compare what the
code computes from the rules with what the history of calls asks for. The invariant
between the two is `CallsDecide` (`CallsDecideAlways`), kept by every builder method:

* `RulesListed`: the rules are the calls that ask for something, in their order, no call
  twice and none missing;
* `RulesAccept`: each accepts exactly the values its call asks for, where the slice that
  integers share holds what it holds now;
* `optional` and `items` say whether such a call was made last, or ever.

An answer is then a matter of one state (`AnswersAreCurrent`: a step that could change
what would be answered clears the answer), and three lemmas compute it for any schema the
calls built: `OwnErrorsAre` for the rules, `ItemErrorsAre` for the items under their
index, `AnswerIs` for both together. `CallsNarrow` compares two such answers.

The proof of `RulesAccept` found a fault in the reference definition, not in the code: two
arms of `NumberMeets` were both true of a NaN that a `Refine` is asked about, and CASE
leaves open which counts. The run did not show it, as TLC takes the first. `Refine` now
comes first in the definition, as it alone decides about NaN.

Sequences of any length. An operator that is defined by recursion cannot be reasoned about
here, so `Validate` selects by positions: `Selection(s, S)` is the one sequence that runs
through `S` in increasing order (`EnumerationsAgree`, `EnumerationExists`). That it exists,
and what it is for two sequences put together (`SelectionOfConcat`), needs induction over
the length: that a set of naturals which is not empty has a least member (`LeastNumber`)
takes the place of the induction theorems, which have an operator as a parameter. The
recursive function inside `FlattenSeq` is given by a table of its values (`FlattenIs`).

### Only model-checked

* All liveness and all fairness: the progress of `RegistrationPromise`, `Quiesces`,
  `RequestsEnd`, `LoginEnds`, `StopsWhenTold`. It is out of this prover's reach, as is
  ENABLED. Every invariant and every action property that a passing run checks is proved.
* The five runs that expect a violation: each refutes a claim, and one instance does.

## 7. Not modelled

* The cryptography: Argon2, JWT signatures, token hashes. A password matches or
  does not, a token is the row it names.
* Wording, status codes, body decoding, and the checks of request fields in `httpapi`.
* The gateway's auth routes, which it passes on without a look, its health route
  and its answers when an upstream is down.
* In `shared/validate`: `Float.ParseString` (its schema is ignored as in
  `Int.ParseString`), `MustValidate` (a panic on the first error), arrays whose items are
  not strings, the panic of a pattern that does not compile, the wording of errors.
* `clientIP`: the address of the TCP peer. Behind the gateway of the compose file that is
  the gateway's for every client; `Limits` holds for whatever is taken for an address.
* Context deadlines. A cancelled request is a failed statement; a client that
  gives up is one that never uses the answer.
* The order in which one multi-row UPDATE takes its row locks.
* Setting an active account back to pending by an administrator: no code does it.
* A crash inside `Login`: it leaves nothing behind but a failed request.
* The mail transport, which is a call that succeeds or fails, and health probes, which
  ping the database and change nothing.
* The gateway's second look at `ACCOUNTS_URL` (`url.Parse` in `run`), which cannot fail on
  what `Load` has accepted.

## 8. Plan

The order so far was that of importance: the event pipeline, which spans both
services, then sessions, verification and sign-in, then the limits and the
gateway, then validation, configuration and the life of a process. What is left:

1. Proofs: what `RequestsEnd` of `Sessions` rests on, as safety: connections in use are
   accounted for and never more than `MaxConns`; for each of the other liveness properties
   the same, that is, the invariant that says who can always take the next step.
2. A client that retries a refresh whose answer was lost: a property of its own, once
   it is settled what the code should promise.
3. Ids of the outbox drawn in one order and committed in another, should the consumer
   ever come to depend on the order.
