# A TLA+ model of go-hexa-fp-starter

These modules model what keeps state, waits, fails or overlaps in the starter:
the transactional outbox and its dispatcher, the idempotency stores, the dynamic
configuration cache, the guard around the consumers of events, the network
relays, the scheduler's election, authentication, the three processes from
their configuration to their stop, the HTTP server and its limiter, transactions,
the registration of a user, stored objects and the code generator. TLC checks
each on small instances; TLAPS proves every safety property the passing runs
check, for every value of the constants.

Run TLC with `tlc -config <run>.cfg <MC module>`, the prover with
`tlapm <Module>Proofs.tla` (`ProcessProofs` for the modules that `MCProcess`
gathers). `PROJECT.json` lists the runs, the mutants, the
source lines each definition stands for, the hazards and the theorems.

## 1. The system

`cmd/server` answers HTTP requests, `cmd/worker` moves events, and both are
composed of modules (`internal/core/*`, `internal/modules/*`)
behind ports, with one driver chosen by configuration for each port. A use case
writes its event in the outbox; the worker's dispatcher takes it out and hands
it to a relay (in-process, none, kafka or rabbitmq); a consumer behind the
`Once` guard has the effect.

| Component | State | Operations | Interactions | What is hard |
|---|---|---|---|---|
| outbox (`internal/core/outbox`) | the messages: status, attempts, available_at; in memory also the `claimed` set | Enqueue, Claim, MarkDone, MarkFailed; DrainOnce, catchUp, Run | called by use cases (Enqueue); the dispatcher calls the store and the relay | a crash or a failed statement between the publication and its verdict; several workers on one table; retries at the limit; a shutdown during a backlog |
| idempotency (`internal/core/idempotency`) | per key: in flight or done, fingerprint, response, expires_at | Reserve, Complete, Release | called by `Once` and by use cases | two calls on one key; an operation that outlives its TTL; drivers that read and write in two commands |
| dynamic configuration (`internal/core/dynconf`) | one table; per replica a cache with a TTL | Flag, Setting, Set, Invalidate | every module may read it | the clock, the cache, the database and the cache again are visited with no lock held throughout |
| consumers (`Once`, in-process bus, welcome message) | a key in the worker's memory for each event | Publish to each consumer in turn | outbox -> bus -> guard -> effect | a refusal, a panic or a lost verdict brings the same event back |
| worker process (`cmd/worker`) | two goroutines, a shared context, the channel of their results | loop, Run of each relay, closing | the first loop to end cancels the other | a loop that ends too early, never, or with a handler still running |
| scheduler (`internal/core/scheduler`) | the elector's `held` map; advisory locks in PostgreSQL; the pool | RunOnce = Acquire, job, Release | loop of each task, external trigger | lost sessions, pinned connections, failures between lock and note |
| network relays (kafka, rabbitmq) | partition, group offset, queue, unacknowledged deliveries | publish with retry, consume, commit, nack | dispatcher on one side, handlers on the other | an error after acceptance, no error and no acceptance (rabbitmq confirms nothing), a rebalance, an offset that passes over a refused message |
| user registration | accounts by address, the outbox | validate, check, hash, build, persist, publish | HTTP handler -> pipeline -> outbox | two calls for one address; a client that leaves; a restart |
| authentication (`internal/core/auth`) | identities by id and by subject, roles, sessions | register, authenticate, verify, authorize, revoke, bind, (de)activate, define a role; the bootstrap account | the guard of the HTTP surface: Verify, Authorize, then the operation | each access to the store is a step of its own: accounts close and roles change in between; read-then-write of an identity |
| start-up (`internal/config`, `resources`, the modules' factories) | layers of files, the environment, the connections opened | Load, resources.Open, one factory for each module | every `main` | a connection opened for nobody or left open by a refusal; a variable that is empty, or decodes to nothing; a driver without what it needs |
| HTTP server, server process (`cmd/server`, `httpserver`, `middleware`) | the listener, requests in flight, the pool, the limiter's table | serve, shut down under a grace, close | signal or lost metrics -> drain -> close -> flush | the grace that runs out, Close waiting for what was lent, eviction in the limiter |
| transactions (`infrastructure/database`) | a transaction in the context, app.current_tenant on the connection | RunInTx, QuerierFrom, WithTenant | use cases and their adapters | an adapter outside the transaction, a commit whose answer is lost, a tenant that stays on a connection |
| storage (`internal/core/storage`) | files under their keys | Put, Get, Delete | use cases | copies that stop half-way or overlap a read, a Put or a Delete |
| code generator (`internal/generator`, `cmd/hexa`) | a destination tree, `arch-go.yml` | make:feature, new | a developer, possibly twice at once | failures between files and rule; a rule written from an older reading |
| audit, module bus, telemetry, security, functional helpers, file driver of dynconf | see section 6 | | | |

What makes each component correct, in a sentence:

* outbox: an event is published at least once or tried MaxAttempts times, its
  verdict is final, no two dispatchers work on it where the driver promises so;
* idempotency: at most one call runs, and nobody runs while a response is kept;
* dynamic configuration: nobody is told something that stopped being true more
  than TTL before the question;
* consumers: an event marked done had its effect, once;
* worker: it stops when asked or when half of it is gone, says why, and closes
  nothing under a running handler;
* scheduler: one runner for a task, a lock that comes back whatever fails;
* relays: what a broker received reaches a handler, and what it did not is known
  to be lost by a named accident only;
* registration: one account for an address, the answer tells the truth;
* authentication: what is accepted was valid, and what acts was granted, at some
  instant of the call; a subject names one account, with the roles it was last
  given;
* start-up: a connection is opened for who needs it and closed by every refusal;
  a deployed process passes the hardening rules or refuses;
* server: it stops when asked, whatever its handlers do, and success means that
  they were let finish; the limiter forgets without giving away;
* transactions: all or nothing, under one's own tenant;
* storage: an object announced is whole;
* generator: what is announced as created is complete, and sealed by its rule.

## 2. The modules

| Module | Models | State and actions against the code |
|---|---|---|
| `Outbox` | both stores and the dispatcher | `Claim`, `MarkDone`, `MarkFailed` are the ports (one step each: a mutex in memory, an autocommitted statement in PostgreSQL); the dispatcher's `pc` follows DrainOnce and catchUp; `batch` holds the copies it claimed; a statement may fail applied or unapplied; a worker may crash, be stopped, restart |
| `OutboxContract` | the promise of the outbox | per message: absent, pending, done or failed, with its publications and failures |
| `Idempotency` | the three stores and their callers | Reserve is one step in memory, an upsert and an inspection in PostgreSQL, SET NX and a read in Redis; Complete and Release are a read and a write in Redis |
| `IdempotencyContract` | the promise of the ports | grant, memorise, give back, expire |
| `DynConf` | the PostgreSQL driver and its caches | a lookup is Ask (the clock), Hit or Load, Remember; a change is Set and Purge |
| `EventChain` | dispatcher -> in-process bus -> `Once` -> effect | INSTANCEs `OutboxContract` for the outbox, so it composes the outbox's promise with the guard and the bus |
| `WorkerLoops` | `cmd/worker` once composed | `loop`, the consumer's Run for each relay, its reader goroutines, main's two receptions and the closing |
| `Scheduler` | the runner and both electors | one action for each step of Acquire, the job and Release; sessions and the pool are explicit |
| `Relays` | WithRetry, kafka and rabbitmq | the publisher, the frames rabbitmq has yet to receive, the broker (external), the readers of a group |
| `Registration` | the pipeline of `register_user.go` | one action for each effectful step, many calls at once |
| `Auth` | the application, its memory store, its HTTP surface | one action for each access to the store under its lock, `pc` being what the call does next; `call` holds what it has read |
| `Startup` | `config.Load`, the catalogues, `resources.Open`, the mounting of the server, the worker and the cli | `Accepted` and `Decoded` are Load, substitution in the text before decoding; then one action for each connection and each module mounted; `Refusal` gathers what the factories and main refuse |
| `Server` | `cmd/server` once composed | `main` follows run and Run; a connection is idle, running its handler or holding one of the pool's; `Allow` is the limiter |
| `UnitOfWork` | `database.go` | the transaction and the tenant setting on their connection; adapters write through QuerierFrom |
| `Storage` | the disk driver | a path designates an inode, a Put or a Get keeps its file open, a copy goes block by block |
| `Generator` | `make:feature` and `new` | one action for each file, and for each write of `arch-go.yml` |

`MCProcess` puts `Server`, `Startup`, `WorkerLoops`, `Registration`, `Storage`,
`UnitOfWork` and `Generator` side by side: they share no state, so a behaviour
picks one part and the others stand still. It is a way of checking them in one
run, no claim that they interact. It also holds the configuration files of the
repository, as far as `Startup` reads them. The compositions proper are
`EventChain` (the outbox's contract with the bus and the guard), `WorkerLoops`
(the dispatcher, each relay and main) and `Startup` (the configuration, the
catalogues, the connections and the factories of all modules).

Each `MC*` module gives a component small deployments. In `Outbox`,
`Idempotency`, `DynConf`, `Scheduler` and `Relays` a variable `site` (in
`Registration` it is `driver`, in `WorkerLoops` `relay`) holds what the
configuration settles before the program starts: Init picks it from the
constant `Sites`, no action changes it, so that one run covers several
deployments and one theorem all of them.

Definitions whose comment starts with "Broken on purpose" are mutations of the
definition after them. No specification uses them; they are there to show that
each property notices the bug it is meant for (`mutants` in `PROJECT.json`).

### Abstractions

* Data is reduced to identities: messages, keys, callers, addresses are model
  values; payloads, headers, log lines and reports are left out.
* One clock for every party, in ticks; in `Outbox` it stops once every date has
  passed, in `Idempotency` a reservation counts down instead.
* `SELECT ... FOR UPDATE SKIP LOCKED` is one atomic statement that takes due
  rows; its locks end with it, because no transaction surrounds it.
* One idempotency key: keys share nothing. One partition, one queue, one
  aggregate: `Relays` is about their order and their loss.
* In `Relays` a publication to kafka that returns no error is in the partition
  (RequireAll). To rabbitmq it is a frame written (`written`), which the broker
  receives later (`Arrive`) or never (`LoseFrames`, with the connection): the
  channel is not in confirm mode. Deliveries buffered by a rabbitmq channel count as ready, and a
  reader that attaches again is a process restarted by its orchestrator.
* In `Scheduler` the cancellation of a run is its deadline; the external
  trigger calls RunOnce, as the loop does; session 0 of a replica is a socket
  the client has closed and the server has not yet noticed.
* In `Auth` names are the canonical ones, `Normalised` being applied where a
  call reads its input; a password matches or not; a token is one issued, one
  forged or garbage; an MC instance defines two sets of permissions.
* In `Startup` a literal of the files is the text it decodes to; what a variable
  holds is raw text, put in the place of its reference and decoded afterwards.
  Texts are told apart as far as a rule or the decoder tells them apart: "~" is a
  null, blanks or empty quotes, nothing once decoded unless the value goes on
  behind the reference, "#" a comment, which takes away what follows it too; "a: b"
  is what cannot be decoded as a scalar; an origin is its scheme. Not modelled: a value of several lines, or with an anchor or a tag,
  which could add keys to the document, a list of more than one origin, and two
  references in one value. Ranges are represented by three numeric fields.
* In `Server` a tick is the time in which Rps tokens come back; timeouts of
  headers and bodies end a connection as a client that leaves does.
* In `UnitOfWork` the database is external: a transaction is visible once
  committed, a local setting ends with it. A RunInTx inside another, which joins
  it, has the tenant of the outer one: nothing changes the scope in between.
* In `Storage` keys are valid ones, and Close, whose answer `disk.go:90` drops,
  has nothing left to write: so it is on a local disk, but a delayed write error
  of a network file system would go unnoticed.
* In `Generator` names are plain identifiers and a content is the module path it
  cites; a failed write of `arch-go.yml` leaves the file untouched or cut short,
  with any of the earlier rules.
* The crash of a process is atomic: its memory goes, what is stored stays.

## 3. The runs

| Run | Deployments and bounds | What it shows |
|---|---|---|
| `outbox` | memory with 1 and 2 dispatchers, PostgreSQL with 1 and 2; 2 messages (1 for two PostgreSQL workers), 2 attempts, batches of 2, 2 rounds, 1 failed statement, 1 stop or crash | `ClaimsHold`, `ExtraPublicationsAreOwed`, `ImplementsContract`, and with fairness `EventuallySettled` |
| `idem` | memory, PostgreSQL, Redis, each with operations that keep to their TTL and that do not; 2 calls with one request and 1 with another, TTL 3, 2 troubles | `OneLiveHolder`, `NobodyRunsOnceMemorised`, `ReplayMatchesRequest`, `ImplementsContract` for operations that end in time; `EveryCallEnds` for all |
| `dynconf` | two goroutines of one replica; two replicas; 1 key, 2 values, TTL 1, 2 ticks, 1 trouble | `NeverOlderThanTTL`, `SetterForgetsPrevious` |
| `chain` | 1 worker, 1 consumer, 2 messages, 2 attempts; 1 panic, 1 crash, 1 expiry, 1 lost verdict | `DoneHasEffect`, `EffectOnce`, `GivenUpIsDeserved` |
| `sched` | advisory locks: two replicas sharing one of two tasks, 1 trouble; a loop and an external trigger against another replica, 2 troubles; two tasks on a pool of 1; the in-process elector | `OneRunner`, `PoolIsSound` (no lock in the pool, no connection leaked), `LockIsHandedBack`, `EveryRunEnds` |
| `relays` | kafka with a refusal and 3 troubles, kafka with an unreadable envelope, rabbitmq with both, rabbitmq on its first start; 2 messages, 2 readers | `AtLeastOnce` (what is lost was refused on kafka, or on rabbitmq received before the queue existed or never; every repetition is owed to a trouble, once for rabbitmq, once per entry of the message for kafka), `EventuallyHandled` |
| `auth` | 2 callers, 2 subjects (the bootstrap one included) in 2 spellings and a blank one, 1 role defined empty or with a right besides the bootstrap role's own, local and deployed; 2 identities, 2 tokens, TTL 1, 1 tick, 1 restart or reopening | `SubjectNamesOne`, `RolesAreTheLastGiven`, `DeployedHasNobody`, `AcceptedWasValid`, `ActedWasGranted` |
| `process` | see below | the properties of seven modules |
| `outbox_shared` | two PostgreSQL workers, 1 message | violates `HeldByOne` |
| `loops_unsubscribed` | kafka, nothing subscribed | violates `DispatchesUntilAsked` |
| `relay_kafka_refused` | kafka, one refusal, nothing else wrong | violates `NothingLost` |
| `reg_cancelled` | the memory outbox, one client leaves | violates `FailureCancels` |

The parts of `process`:

| Part | Bounds | Properties |
|---|---|---|
| server | 2 connections, 2 clients, 1 token a tick, buckets of 2, TTL 2 | `NeverOverTheBucket`, `SuccessMeansDrained`; `EndsWhenAsked` with fairness |
| start-up | 3 binaries, 5 values of APP_ENV, 24 changes of `local.yaml` on 4 grounds, 29 environments (all set; one account for both database roles; each variable unset, empty or a null once decoded; origins `*`, `http://`, `HTTP://` or a comment; a base URL that is a comment; an account that cannot be decoded) | `RefusalLeavesNothing`, `OpenedForWhoNeedsIt`, `RunsOnlyHardened` |
| worker loops | the 4 relays, 2 subscriptions, 2 troubles | `StopsInOrder` (no handler left behind, the error returned); `OneGoneEndsAll`, `SignalIsHonoured` with fairness |
| registration | 2 calls, 2 addresses in 2 spellings, both drivers of the outbox; 1 client leaves, 1 effect fails, 1 restart | `OneAccountPerAddress`, `EventAndAccount` |
| storage | 1 key, 2 uploads of 2 and 1 blocks, 1 download, any number of Deletes | `LocatedIsWhole` |
| transactions | 2 use cases, 1 tenant or none, 2 connections, 2 adapters | `AllOrNothing`, `NoForeignTenant` |
| generator | 2 modules of 2 files made at once; a starter of 2 files of any kind under 4 target paths | `CreatedIsComplete` |

Type invariants are no property of a run: those of `Outbox`, `Idempotency` and
`DynConf` are theorems, and the invariants of the other proofs begin with one.

Why the bounds are enough to be of interest: two of everything that competes
(dispatchers, calls, goroutines, readers, replicas, tasks, uploads, commands)
exhibits the races, a third party where two of them must meet a newcomer (`idem`,
the replica of the external trigger). One or two troubles, taken anywhere, cover
a failure, a failure of its repair, and with 3 attempts of WithRetry its whole
budget. Batches of 2 with 2 rounds reach the full batch, the partial one, and
the limit of rounds. TTL 3 leaves room for two calls to act within one
reservation and for one to act after it. Two values and a missing one are what it
takes for a flag to change twice and the older value to come back. In `auth` one
caller administers while the other registers, signs in or acts, which is what
every race of that module takes; a session expires within the horizon. A bucket
of 2 with one token back a tick is spent, refilled and evicted. The files of
`start-up` change one thing at a time on top of each driver that needs a
connection, so that every rule is both the only one broken and broken together
with an open connection.

`CHECK_DEADLOCK FALSE` is set where the program really stops: all messages
settled, all calls answered, the process exited, the bound on time reached.

### Fairness

* `Outbox`: the dispatcher polls on a ticker and is restarted when it stops or
  crashes, time passes, a database that fails recovers (failures are bounded).
  Shutdown requests and crashes are never fair.
* `Idempotency`: time passes and every call goes on, because a goroutine that
  waits for a store has a deadline; a vanished caller is not obliged to return,
  its key expires.
* `WorkerLoops`: goroutines are scheduled and handlers return; a context that
  is cancelled is noticed, strongly fair where the select may keep choosing
  another ready branch.
* `Scheduler`: goroutines are scheduled, deadlines pass (RunOnce sets one),
  jobs honour their context and the server notices a closed connection.
* `Relays`: the dispatcher comes back to what it has not published, a frame
  arrives unless its connection is lost, a group
  always finds a reader (strong fairness: being attached may be interrupted a
  bounded number of times), handlers return.
* `Server`: main is scheduled, its grace has a deadline, and a query in flight
  ends, with rows or with an error: the database answers or its connection is
  lost, which is what `Connections.Close` itself counts on, having no deadline.
  No handler is supposed to return, no client to leave.

The other modules have no liveness property.

## 4. The theorems

| Module | Theorem | States |
|---|---|---|
| `OutboxProofs` | `TypeCorrect` | `[]TypeOK` |
| | `AtLeastOnce` | `[]DoneWasPublished`, any driver, any number of workers |
| | `NeverGivenUpEarly` | `[]GivenUpAfterMaxAttempts` (a row is failed only after MaxAttempts real failures); proved only, the run checks it through `ImplementsContract` |
| | `ClaimIsExclusive` | `[]ClaimsHold` |
| | `NoStrandedClaim` | `[]ClaimedIsHeld` |
| | `NoIdlePublication` | `[]ExtraPublicationsAreOwed` |
| | `Refinement` | `Spec => ImplementsContract` |
| `IdempotencyProofs` | `TypeCorrect`, `Exclusivity`, `NotRunTwice`, `ReplaysAreGenuine` | `TypeOK`, `OneLiveHolder`, `NobodyRunsOnceMemorised`, `ReplayMatchesRequest` |
| | `Refinement` | each driver implements `IdempotencyContract` |
| `DynConfProofs` | `TypeCorrect` | `[]TypeOK` |
| | `Freshness`, `EntriesExpire` | `[]NeverOlderThanTTL`, `[]CacheForgets` |
| | `SetterForgets` | `[]SetterForgetsPrevious` |
| `SchedulerProofs` | `RunsDoNotOverlap`, `PoolSoundness` | `[]OneRunner`, `[]PoolIsSound` |
| `EventChainProofs` | `DoneMeansDone` | `[]DoneHasEffect`, at most one consumer |
| | `EffectsAreNotRepeated` | `[]EffectOnce`, one worker |
| | `GivingUpIsRight` | `[]GivenUpIsDeserved`, one worker and at most one consumer |
| `RelaysProofs` | `DeliveredOrOwed` | `[]AtLeastOnce` |
| `AuthProofs` | `OneAccountPerSubject`, `RolesAreKept`, `NobodyDeployed` | `[]SubjectNamesOne`, `[]RolesAreTheLastGiven`, `[]DeployedHasNobody` |
| | `RevocationIsEffective`, `NothingUngranted` | the action properties `AcceptedWasValid`, `ActedWasGranted` |
| `ProcessProofs` | `NothingLeftOpen`, `ConnectionsAreWanted`, `UpMeansHardened` | start-up: `[]RefusalLeavesNothing`, `[]OpenedForWhoNeedsIt`, `[]RunsOnlyHardened` |
| | `WorkerStopsInOrder` | worker loops: `[]StopsInOrder` |
| | `Limiting`, `Draining` | server: `[]NeverOverTheBucket`, `[]SuccessMeansDrained` |
| | `Uniqueness`, `TruthfulAnswers` | registration: `[]OneAccountPerAddress`, `[]EventAndAccount` |
| | `Atomicity`, `OwnTenant` | transactions: `[]AllOrNothing`, `[]NoForeignTenant` |
| | `StoredWhole` | storage: `[]LocatedIsWhole` |
| | `Announcements` | generator: `[]CreatedIsComplete` |

`DoneWasPublished`, `ClaimedIsHeld`, `CacheForgets` and the type invariants are
proved for every instance and checked by no run.

They assume what the modules assume of their constants and no more: positive
policy parameters, finite sets of messages and of readers, a positive TTL for
reservations, callers that belong to replicas; for the limiter that a bucket is full again within its TTL
(`RefillAssumption`), which holds of the limits the repository ships and is
validated nowhere. Bounds on troubles are arbitrary naturals.

The theorems about the event chain say in their hypotheses what the deployment
must be: one worker, because the keys of `Once` are in the memory of each; at most
one consumer of a type, because a key is the envelope's. One process of
`cmd/worker` mounts exactly that, and both are needed (section 5). Each theorem takes only the one it needs.

**Outbox.** `DoneWasPublished` is not inductive: that `MarkDone` follows a
publication is a fact about a dispatcher's program counter and the result it
has in hand, so the invariant adds that a copy whose result is "ok" was
published. `GivenUpAfterMaxAttempts` needs `CopiesAreAccounted` (with the two properties, `AccountInv`): a stale copy
carries no more attempts than failures seen, whoever else has touched the row.
Those hold for any number of workers on either driver. `ExclusiveInv` adds, for
a site with one store in memory or one worker, that copies are current and
belong to one worker, and gives `ClaimIsExclusive`, `NoStrandedClaim` and the
step simulation of `Refinement`. `OwedInv` counts, where claims are exclusive:
what was published or refused of a row, plus what a dispatcher still has to write
of it, is what the row's attempts say plus the troubles there were, a publication
whose verdict is under way being the one that may exceed; `NoIdlePublication` is
that count once the row is settled.

**Idempotency.** `HolderInv` says that when operations end within their TTL a
call that is about to write still owns the live reservation: what is left of
its lease is at most what is left of the entry, and for Redis the entry it read
is its own. Exclusivity, replays and the refinement follow. Without that
condition they are false (section 5).

**DynConf.** `Fresh` strengthens the property with what is in flight: a value
read and not yet remembered was true, or unreadable, since its lookup began; an
entry of a cache is justified from `expires - TTL` on; nothing is dated in the
future. A write to the table keeps all of it, because what it replaces was true
until now. `SetterInv` adds, for a replica that set a key with no query of its
own pending, that a reading under way is current or failed after it was asked:
the property alone says nothing of what will be remembered next.

**Scheduler.** `SchedulerInv` puts every connection in exactly one hand (a run's,
for its lock or for its job; a note's; a forgotten one), says that a connection
is out of the pool when it is in a hand and then only, and that a lock belongs to
a connection kept for its task. `PoolSoundness` is read off it. For
`RunsDoNotOverlap` it adds that the elected has its lock as long as its session
lives, and that a replica that forgot nothing has noted each run: within a
replica the note excludes, between replicas the lock does.

**Event chain.** `EffectsArePaid` is the argument of `EffectOnce`: a key that is
free has seen no more effects than there were losses of keys, one fewer while a
handler runs whose key was lost under it. `SayingSo` follows the word "handled"
from the effect to the key, to the answer of the bus, to the record.
`GivenUpIsDeserved` needs `KeyTells`, which ties the key to the worker's program
counter as long as nothing was lost.

**Relays.** Nothing is passed over: what the owner of a partition has passed, what
precedes an entry at work, and what is committed is done with (`KafkaPasses`); what
was published to rabbitmq is done with, under way, in the queue, in a live
channel's hand, or gone with a connection or for want of a queue
(`RabbitHolds`). Repetitions are counted with what is in hand: in kafka a reader
passes each entry once between two troubles, in rabbitmq a copy, under way, queued or in hand, is the published
one or owed to a trouble. This proof corrected the property: a bound of one
repetition for each trouble, which TLC confirmed up to 3 troubles, is false beyond
them, for a reader that comes back from a rebalance commits an older offset and
every duplicated entry after it is delivered again. `AtLeastOnce` now bounds the
deliveries of each entry.

**Authentication.** `StoreInv` says that whoever is known has a subject that leads
there and the roles given, that an identifier not drawn yet designates nobody, and
that a copy waiting to be written back is of the account it will be written to.
`SeenInv` says what a call must have seen to stand where it stands, and that what
holds during a call is noted; the two action properties follow, since what a step
requires is among what was seen. `NobodyWhereDeployed` adds that without an account
there is no session, hence no call that creates one.

**Start-up.** `StartupInv` fixes the place of each connection at each step, keeps
the configuration equal to the one Load accepted, and says that what is required
is open once its step is over, which is why only the worker's idempotency module,
built without what was opened for it, can be refused for want of a connection.
`AcceptedIsHardened` is about `Load` alone, for any layers and any environment:
that a mandatory reference found its variable comes from `Missing`, on raw text;
that the application account and the key are not empty from the validation, after
decoding, since neither implies the other.

**Worker loops.** Results written and results read are counted against the loops
that are gone, so that main's two receptions are those of both loops; an error
returned is kept or still to be read; a consumer that ended without an error left
no reader at work.

**Registration.** That two calls which both passed the check cannot both store
needs `StoreHolds`: every account of the present life of the server is the one
its address leads to, so a free address has none; `PlaceTells` places the
account of a call between Save and the answer. A restart empties the store and
starts another life, which the accounts of the former do not belong to.

**Transactions.** `UnitInv` gives each open transaction a connection of its own,
says of an idle connection that it carries neither rows nor tenant, and of the
others that what is pending on them is exactly the batch of their use case under
its tenant; the committed rows of a use case are then its batch or nothing.

**Server.** The table of the limiter is related to an ideal limiter that forgets
nobody: an unknown client has its whole credit, a known one at least what its
silence has given back, and an entry is evicted only after a silence that has
given everything back. `Draining` needs that nothing is accepted once the drain
has begun.

**Storage.** `OwnBlocks`: nobody else copies into the file of an upload that was
not disturbed, so it holds the blocks of its own copy in order; `OwnReading`: who
opened it once it was located reads them in order from that file, whatever the
directory says since.

**Generator.** A module is rendered before it is declared, and whoever lost its
rule lost it to a command whose plan did not have it, or to a write cut short; a
project is verified after its last copy.

Left to TLC: every liveness property (`EventuallySettled`, `EveryCallEnds`,
`LockIsHandedBack`, `EveryRunEnds`, `EventuallyHandled`, `EndsWhenAsked`,
`OneGoneEndsAll`, `SignalIsHonoured`), because fairness and ENABLED are out of the
prover's reach. Nothing else is: no model defines anything by recursion, and the
one fold (`Relays.Refusals`) bounds the refusals of a run and is never unfolded.

## 5. Divergences met while modelling

With a run that shows them (`findings` in `PROJECT.json`):

1. Two PostgreSQL workers can hold one message: Claim's locks end with its
   statement (`outbox_shared`).
2. With nothing subscribed, Run of a network relay returns at once and the
   worker stops (`loops_unsubscribed`).
3. kafka commits past a refused message (`relay_kafka_refused`).
4. A registration whose event is refused keeps its account (`reg_cancelled`).

Without a run of their own; the models contain the behaviour, and the
properties above are stated so as not to claim the contrary:

* `postgres.MarkFailed` updates whatever the row has become: a late failure of
  an older copy puts an exhausted message back to pending
  (`internal/core/outbox/domain/outcome.go:19-20`: "is no longer replayed").
* The dispatcher reports `resolve_failed` also for a message whose publication
  failed, and reports a success with the attempts before this one
  (`outcome.go:26-31`, `outcome.go:44-46`).
* `Release` of the PostgreSQL store carries no token of the reservation it
  frees: after an expiry it frees another call's, and two calls run. In Redis
  Release and Complete are a read and a write with the same effect.
* `dynconf` caches the absence it reads with a cancelled context, for every
  caller; a lookup that overlaps a Set puts the previous value back after the
  purge, in the setter's own replica.
* The worker's idempotency keys live in its memory: with two workers a lost
  verdict is enough for a second effect. `Once` keys on the envelope alone: a
  second consumer of one type would be taken for a replay.
* A publication to rabbitmq succeeds when its frame is written: the channel is
  not in confirm mode (`rabbitmq.go:43-65`). The outbox holds the event for done,
  and a connection lost before the broker has it loses it for good, where
  `messaging.go:85` says "every transport here is "at least once"". In
  `relay_kafka_refused.cfg`, `Sites <- OneTrouble` shows it: Publish,
  AttemptSucceeds, LoseFrames violate `NothingLost`.
* rabbitmq: a lost connection ends the worker without an error; a binding that
  fails returns without waiting for the readers already started; what is
  published before the queue is bound is dropped.
* kafka: a rescheduled publication lets its successors of the aggregate pass.
* The advisory-lock elector looks at `held`, then takes the lock, then notes
  the connection. When a session dies between two of those steps, a loop and an
  external trigger of one replica may overlap, and the second note overwrites
  the first: one Release then works on the wrong connection, and the other
  connection is never handed back nor its lock released until the process
  restarts (`Scheduler`'s `orphans`; `LockIsHandedBack` excepts them).

* A misspelt APP_ENV silently gives the development configuration: an
  environment without a file adds no layer, no group sets app.env, and its default
  is development (`internal/config/loader.go:141`, `config.go:80-82`): the
  hardening is not asked for.
* A mandatory variable is missing when its raw text is empty
  (`internal/config/loader.go:200`), before the text is decoded: a null, a blank
  or a comment passes. Where a rule reads the value (the account, the key, the
  origins) it is refused then; where none does, as `storage.base_url`, a
  deployed process starts on it.
* The origins refused outside development are `*`, the empty one and those that
  begin with `http://` in lower case: `HTTP://` passes
  (`internal/config/hardening.go:47-53`).
* The worker builds the idempotency module of its subscription without the pool
  and the cache (`cmd/worker/abonnement.go:61`): with the postgres or redis
  driver it always refuses to start, although the connection was opened for it
  and the cli's `health` says that all is well.
* `modules.user_registration.enabled: false` is read by nobody: the server and
  the cli mount the module all the same, and refuse to start when its driver is
  unknown.
* The worker that refuses after its relay was opened leaves the relay open; the
  process ends, so only the orderly goodbye is lost.
* Metrics lost outside development stop the service with exit code 0: the stop
  is orderly and `run` returns no error.
* Probes go through the limiter like any request; with the outbox disabled
  `/readyz` is always 503; preflights, oversized bodies and panics leave no line
  in the access log; `limits.auth_rps` and `auth_burst` are read nowhere.
* Outside a local environment no account can exist with the driver there is:
  the start creates none, and creating one takes an account
  (`DeployedHasNobody`).
* `Deactivate` of an unknown identity returns ErrTokenUnknown where
  `ports.go:106` announces ErrInvalidCredentials. A closure or a reopening that
  read the account before an assignment of roles undoes it when it writes
  (`RolesAreTheLastGiven` accounts for it).
* A Put that fails leaves a truncated object under its final key, where an
  earlier one may have been; `storage.base_url` of the configuration is not what
  the module reads.
* Two `make:feature` at once may lose a rule; a write of `arch-go.yml` that is cut
  short takes the rules behind it away from every module, and the other commands
  still succeed; a failure between the files and
  the rule leaves a module that no rule seals, and a retry is refused because
  the destination is no longer empty. `new` towards a path that extends the
  starter's own always fails, after it copied everything.

## 6. What is not modelled, and the plan

* The module bus: nothing in the repository calls it outside its tests. The same
  holds of `RunInTx`, `storage.New`, `dynconf.New`, `audit.New` and
  `scheduler.New`, which are modelled (audit excepted) from their contracts'
  side: any caller at any moment.
* Audit: one INSERT or one log line for each entry and no state of its own.
* The file driver of dynconf: a map built once and never changed.
* Telemetry, security (ciphers, blind index, password hashing), functional
  helpers, pagination: no state, or a third party's. Their failures at start-up
  are in `Startup`, the failure of a hashing in `Registration`.
* Of the configuration, the ranges of most single numbers; of the middlewares,
  headers and log lines; of the cache, its JSON helpers; of notification, the
  validation of recipients and the masking of bodies; of the cli, its flags and
  its tables; `tools/covergate`, a development tool.

What could come next, in this order:

1. Proofs: a contract of the relays that the two brokers implement, and one of
   the guard, as there are for the outbox and the idempotency stores.
2. A composition of `Registration`, `Outbox` and `EventChain` in which an
   account answered 201 leads to its welcome message.
3. `Auth` over a store shared by several processes, once a driver other than
   the memory exists.
4. The module bus, when a module of the repository calls it.
