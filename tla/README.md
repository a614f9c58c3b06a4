# A TLA+ model of PrimeNestArch

PrimeNestArch is a NestJS platform whose own logic is an asynchronous mail
module: requests are validated, written to a PostgreSQL table and answered; a
timer on every host claims rows of the table, sends them over SMTP and records
the outcome.  Around it are a start-up that validates the environment and a
chain of middlewares.  These modules model that logic, TLC checks them on small
instances and TLAPS proves the most important invariants for all instances.

Paths below are relative to `src/src/modules/mail` unless they start with `src/`.

## Inventory

| Component | State | Operations | Hard behaviour |
|---|---|---|---|
| Mail row (`entities/mail-audit-log.entity.ts`) | table `mail_audit_logs` | the UPDATEs of the other components | several writers with no common lock |
| Queue worker (`mail.queue.service.ts`, `infrastructure/`) | `isTickRunning`, claimed entities, `queue` of a batch, an open transaction | `tick`, `claimPending`, `processJob`, `markAsSent`, `markAsFailure` | hosts race for rows, a host dies with claimed rows, a query fails after the send, answers get lost |
| Webhook (`application/mail-webhook.service.ts`) | none | `processDeliveryEvent` | late, repeated and reordered events |
| Retry (`application/mail-retry.service.ts`) | none | `requeue` | check, then act |
| Enqueue (`application/mail-enqueue.service.ts`, validation, audit) | none | `enqueue` | requests interleave at every await |
| Idempotency (`application/mail-idempotency.service.ts`) | cache per host, unique column | `findByIdempotencyKey`, `cacheMail` | two requests with one key, other hosts, expired entries |
| Rate limit (`application/mail-rate-limit.service.ts`) | counters in the cache of a host | `enforceLimit` | read and write in two steps, units and renewal of the window |
| Suppression (`application/mail-suppression.service.ts`) | table `mail_suppressions` | `suppress`, `unsuppress`, `ensureRecipientsAreAllowed` | find, then insert or save; checked once |
| Templates (`infrastructure/mail-template.service.ts`) | rendered html in the cache of a host | `render`, `renderCached` | mails share rendered text |
| Audit queries (`application/mail-audit-query.service.ts`) | none | `search`, `findById` | rows and total are two reads, pages over a changing table |
| Facade and routes (`mail.service.ts`, `presentation/`, `dto/`) | none | the routes below `/mail` | what a body must be is checked in four places |
| Middlewares (`src/src/infrastructure/middleware`), CSRF route, throttler | the cookie of a browser, the tokens of its tabs | API token, CSRF | order of the steps, a cookie shared by tabs |
| Start-up (`src/src/bootstrap`, `src/src/infrastructure/config`, tracing) | environment, configuration | validate, trace, create, configure, listen, shut down | the environment is read four times by different rules |
| Health | none | `liveness`, `readiness` | none |
| Correlation id, metrics authentication, listener, wiring, migrations | none | start-up and logging | none of their own |

The components meet in three places.  *Rows*: enqueue inserts them, the worker,
the webhook and requeue update them, each by id alone.  *The cache* of a host:
idempotency, rate limit and templates share it; it is in memory, so hosts do not
see each other's entries and a restart forgets them
(`src/src/bootstrap/app.module.ts`).  *The suppression table*:
written by its routes, read by enqueue.

What makes each correct:

- worker: a claim owns its rows; no mail has two workers unless an operator asks
  for it; a claim sends at most one message; attempts are bounded; every mail is
  settled, or orphaned by a fault; a tick always ends;
- webhook and retry: no order of writes leaves a row whose columns contradict
  its status; only failed mails are requeued;
- enqueue and idempotency: one key, one mail, one answer;
- rate limit: at most so many messages per address in a window, per host;
- schedule: what is due is tried, retries are spread out, claims give their
  connections back;
- templates: a mail carries the html of its own template and context;
- audit queries: a scan, page after page, misses nothing that was there;
- start-up: a production host listens only if it has what production needs;
- routes: the steps before a handler refuse and admit what they are meant to, and
  no mail is stored that cannot be sent;
- suppression: an address that was put on the list gets no mail.

`PROJECT.json` lists every component, and every hazard with its line.

## Modules

| Module | Models |
|---|---|
| `MailRow` | one row and what each UPDATE writes to it, as pure operators |
| `MailDispatch` | the queue worker on several hosts, the webhook and requeue |
| `MailLedger` | abstract: what the queue promises about a mail |
| `MailDispatchProofs` | types, rows and claim transactions of `MailDispatch` |
| `MailWorkerProofs` | what hosts hold, and what claims pay for |
| `MailLedgerProofs` | the worker without requeues: one worker, and the refinement of `MailLedger`; without webhooks too: finality |
| `MailSchedule` | the worker of one host with a clock: priorities, due times, backoff, connections |
| `MailScheduleProofs` | typing, the pool and the spreading of retries |
| `MailSuppression` | the suppression table and concurrent calls of its routes |
| `MailSuppressionProofs` | the promise of the list |
| `MailEnqueue` | `sendTemplateAsync` and `enqueue` on several hosts; extends `MailSuppression`, so the list changes under the requests |
| `MailIntake` | abstract: what enqueue promises to its clients |
| `MailEnqueueProofs` | keys, repeats, blocked addresses, templates, the rate limit and the refinement of `MailIntake` |
| `HostStart` | the environment and the start-up of a host |
| `HostStartProofs` | what a host that listens has |
| `AuditSearch` | `search`, as operators |
| `MailApi` | the routes of a host, behind its middlewares; composes `HostStart` and `AuditSearch` with a browser |
| `MailApiProofs` | types, tokens, scans and stored mails |
| `MCMailDispatch`, `MCMailSchedule`, `MCMailEnqueue`, `MCMailApi` | instances for TLC |

An action is what happens between two awaits.  Node runs callbacks one at a
time, so nothing finer can be observed; anything else may run at an await.

### MailDispatch

- `rows` is the table.  A row keeps the columns some guard reads or some property
  relates.  Dates are set or null, except `nextAttemptAt`, which is null, in the
  future or due; `BecomeDue` is the clock.
- `rowLock[m]` is the host whose claim transaction locks the row.  `Select` is
  `SELECT ... FOR UPDATE SKIP LOCKED`: it takes only unlocked candidates, in the
  order of priority (`Rank`), at most `BatchSize`; the order among equal
  priorities is free.  `Commit` is `markAsClaimed` and `COMMIT`.  A single
  `repo.update` (`Update`) waits for the lock and is atomic.
- `tick[n]` is `isTickRunning` with the place where the tick is; `batch[n]` is
  the array `runWithConcurrency` shifts from; `lanes[n][l]` is a `run()` with the
  `processJob` call in it.  `TakeJob` shifts, `SendAccepted`, `SendRejected` and
  `SendReplyLost` are the outcomes of `sendMail`.  `MarkAsSentRead`,
  `MarkAsSentWrite` and `JobDone` are the three queries of `markAsSent`,
  `MarkAsFailureWrite` and `JobDone` the two of `markAsFailure`.
- Faults: `ClaimFails` (a statement of the transaction), `CommitAnswerLost`,
  `SentQueryFails` (the `catch` of `processJob` then records a failure),
  `FailureQueryFails` (the lane dies, and when all lanes die `TickEnd` drops what
  is left of the batch), `Crash` (also a stop: `onModuleDestroy` waits for
  nothing).  An update that took effect but whose answer was lost is the write
  followed by a failing re-read.
- `Webhook`, `RequeueCheck` and `RequeueUpdate` are the HTTP handlers.  A webhook
  asks of the row only that it is there: it may report on a mail that is pending,
  in a worker's hands or given up.
- `accepted` (the server), `claims` and `faults` (history, bounds) are not in the code.

### MailSchedule

`MailDispatch` asks what may happen; `MailSchedule` asks when.  Time passes in
`Elapse`, by one unit; `due` is how many units are left until `nextAttemptAt`,
and it and `age`, the time since the first try, are followed only as far as a
property can tell (`MaxLag`, `MaxAge`).  `Claims` are the batches that `ORDER BY
priority, nextAttemptAt ... LIMIT` may return; a row always has a due time, since
`createAuditLog` sets one.  One tick is `Connect`, `StartTransaction`, then
`ClaimNone`, `Claim` or `ClaimFails`, the outcomes (`Sent`, `Failed`) and
`TickEnd`; `out` counts the connections missing from the pool.  A mail that is
sent leaves its place to another, so mails keep arriving for ever, at least
`ArrivalGap` ticks apart.

### MailEnqueue and MailSuppression

- A request (`request[r]`) goes through the steps of the code in their order: the
  template, read from the cache or rendered into it (`LookUpHtml`, `CacheHtml`),
  the synchronous checks (`Checked`), the list (`CheckSuppression`), the cache,
  the row of the cached id, the row with the key (`LookUp...`), a read and a
  write per recipient (`ReadCounter`, `WriteCounter`), the insertion, which the
  unique column may refuse (`InsertMail`), and the caching of the key (`CacheKey`).
- The key `''` is a key of its own (`EmptyKey`).  The DTO lets it pass, `enqueue`
  takes it for no key and neither looks it up nor caches it (`Truthy`), and
  `createAuditLog` stores it in the unique column.
- Every query of a request may reject without effect (`QueryFails`), and `save`
  also after its COMMIT took effect (`InsertAnswerLost`): the client is answered
  500 and the mail is stored.
- `cache[h]` is a host's one cache: keys, counters and html, each with the time it
  has left.  `Put` is `set`, which starts the time anew; `Tick` is the clock,
  `Restart` empties the cache and loses the requests of the host.  Nothing is
  pushed out: cache-manager 7 has no use for the `max` that `app.module.ts` gives it.
  The times to live are constants in the unit of the
  cache, whatever unit the configuration meant.
- A digest is modelled as what it digests, so two templates or contexts never
  collide.
- Spelling matters: `Lower` is `toLowerCase`; the list compares in lower case,
  the rate limit as spelled.
- A suppression call is `FindEntry`, then `InsertEntry` (which the unique index
  may refuse) or `SaveFound`.
- `charged`, `known`, `barred` and `removed` are history variables.  `charged` survives a
  restart of the host, which only marks what was charged before it.

### HostStart, AuditSearch and MailApi

- An environment is a record: strings by their length, flags by their spelling,
  the numbers of the worker as integers.  `Valid` is the Joi schema, `Complete`
  the defaults that ConfigModule writes back, `Load` is `configuration.ts` with
  `loadConfiguration` of `main.ts`.  `ValidateEnvironment`, `StartTracing`,
  `CreateApplication`, `Configure` and `Listen` are the stages of `bootstrap`; each
  may end the process.
- `Matching`, `Orders`, `Rows`, `TotalPages` are `search`.  `createdAt` is not
  unique, so rows of one moment come in any order, in every query anew.  TypeORM
  asks for the total only when the page does not tell it (`NeedsCount`); that is
  the second read, `ListCount`.
- A request passes `ApiToken`, `Csrf` and `Validation` in the order of `main.ts`
  (`Refusal`); the documentation is mounted before them; the throttler
  is a guard that may refuse whatever reaches it (`Refuse`).  Then each route is
  an action.  Its service is one step here; its interleavings are in the modules
  above.
- Two tabs share the cookie jar of a browser (`jar`), each keeps the token of its
  own answer.  Answers arrive in any order (`Receive`).
- `newest`, and `start` and `seen` of a scan are history.

## Runs

| Run | Question | Instance |
|---|---|---|
| `dispatch_full` | safety with everything at once | 2 hosts x 2 lanes, 2 mails, 1 requeue, 1 crash, 1 database fault, 1 webhook |
| `dispatch_automatic` | safety and refinement without requeues | 2 hosts x 1 lane, 2 mails, 1 or 2 attempts, every fault once |
| `dispatch_liveness` | progress in spite of faults | 1 host, 1 lane, 2 mails, 1 crash, 2 database faults, 1 lost reply, 1 webhook |
| `dispatch_reliable` | progress and finality without them | 2 hosts, 2 mails, 2 priorities, batches of one, 1 or 3 attempts, 1 lost reply |
| `schedule` | what is tried when, and with which connection | 3 places for mails, high and low priority, batches of 2, 3 attempts, base delay 1, pool of 2, 1 failing statement |
| `api` | start-up and routes | 2290 starts (every pair of changed variables), 2 tabs, every route, 2 tokens, up to 4 mails |
| `enqueue_races` | interleaved requests, and their refinement of the intake | 3 requests at a time with a shared key or `''`, 2 hosts, 2 list calls on 2 spellings, 1 failing query, 1 restart, no rate limit |
| `enqueue_serial` | limit, repeats and templates, one request at a time | 3 requests, limit 2 in a window of 2, 3 ticks, 1 failing query, 1 restart |
| `requeue_race`, `enqueue_duplicate`, `enqueue_overshoot`, `enqueue_copy` | disagreements with the documentation, see below | small |

What they show.  A row never contradicts its status (`RowConsistent`).  A claim
transaction owns its rows until it commits (`SelectionStable`).  A host never
holds a mail twice (`NodeHoldsOnce`).  Messages never exceed claims
(`OneSendPerClaim`), and a row becomes SENT only when the server has accepted a
message of its mail or a webhook says in that step that it was delivered
(`SentMeansAccepted`; what the webhook says is not questioned by the code).  Without requeues a mail has one worker, at most
`maxAttempts` claims and a worker that keeps the promises of `MailLedger`
(`ImplementsLedger`).  A mail in PROCESSING whose host died stays there for ever
(`OrphanIsLeftAlone`): `lockedAt` is written and never examined.  The code claims
nothing else, so this is stated as what it does, and the liveness property with
faults allows for it (`SettlesOrIsOrphaned`).  While nobody requeues, a failure
date belongs to a mail that was given up (`FailureDateIsCurrent`); `requeue` leaves
`failedAt` set, so this does not hold with requeues.

A due mail is tried in the end, whatever its priority (`DueIsTried`), retries are
spread out by delays that grow with each attempt (`GivenUpSlowly`; a constant delay
would fall short with three attempts) and every way out of `claimPending`
gives its connection back, save that of a transaction that did not start
(`PoolAccounted`).  One key gets one mail (`SameKeySameMail`), a repeat is answered
with it although entries expire, queries fail and hosts forget
(`RepeatAnswersStored`; a repeat of the key `''` stores nothing either, but fails as
a duplicate), a blocked address gets nothing (`BarredGetNoMail`, `SuppressedUnlessRemoved`).  A client
sees no more of enqueue than `MailIntake` (`ImplementsIntake`): a mail is stored once
for a key, whoever is answered with a mail is answered with a stored one, its own if
it has one, and a refusal (4xx) means that nothing was stored; the clients of a
host that stopped do not know, nor do those answered 500, a duplicate key or a
`save` whose answer was lost.  Served one at a time, requests respect the limit in
*any* window of a host between two of its starts, because a message renews the time
of its counter (`RateLimitHolds`; without the renewal two windows could meet), and
mails carry their own html (`HtmlIsItsOwn`).  A restart empties the counters: a host
that restarts within a window lets through the limit once more, and every host
counts alone.

A production host that listens has its tokens, origins, exporter and sender
(`ListensAsValidated`), and the checks after the schema never fire
(`LateChecksNeverFire`).  A page is refused for its token only when another page
of the browser was given one since, or the cookie was dropped because a
production host was reached over http (`OnlyOvertakenTabsAreRefused`).  A scan of the audit list in order
of creation misses only mails that share their moment of creation with another
(`ScanSeesAll`).  Every stored mail can be sent (`RowsAreDeliverable`).

Why the bounds are enough.  The rules compare two parties: two hosts for one
row, two lanes for one batch, a second mail so that a batch has a rest to drop;
one fault of a kind puts the system in every state from which it must go on, and
faults of different kinds combine.  Two database faults are needed to lose a
mail after its message was sent and its failure could not be recorded.  Three
attempts reach a retry of a retry.  `MaxCrashes`, `MaxDbFaults`,
`MaxLostReplies` and `MaxReceipts` bound the faults and webhooks, `Operators`
and `Requests` the calls, `MaxInFlight`, `MaxTicks` and
`MaxRestarts` the concurrency and the events of the caches, `MaxIssued` and
`MaxMails` tokens and rows, `MaxFaults` the failing statements of claims and of
enqueue.  The schedule forgets how long a mail is overdue (`MaxLag = 0`), so that due
mails of one priority are claimed in any order: more than the code allows.
`enqueue_races` leaves the clock out (its entries end by the restart) and
`enqueue_serial` has it; the theorems about keys hold for all of it at once.
Three ticks pass a window of two and the start of the next.  A token overtakes
another as soon as there are two.  A scan of four mails by pages of one has
pages to skip and repeat.  Pairs of variables suffice for the start, since no
rule of the schema relates more than two to `NODE_ENV`.

Symmetry is used where invariants and steps are checked, never with liveness: the
intake treats all requests alike, so its steps may be permuted too.  Deadlock is checked in all runs of
the worker and the schedule; in those of enqueue every request ends, and in `api`
a host may be stopped, so they stop.

Fairness.  `FairSpec` assumes that the interval timer keeps firing, the clock
advances, statements and sends are answered one way or another (the driver and
nodemailer have timeouts) and event-loop callbacks run: weak fairness of
`TickStart`, `ClaimStep`, `TickEnd`, every `LaneStep` and `BecomeDue`.  Each of
these stays enabled until taken, or is replaced by another of its group.  No
insertion, webhook, requeue or fault is ever assumed to happen.  `FairSpec` of
`MailSchedule` assumes the same of `Elapse`, `TickStep` and each `Outcome`.
`DueIsTried` also needs a load the batches can carry: all attempts of the mails
that arrive fit, `MaxAttempts < ArrivalGap * BatchSize`.  Above that load mails of
low priority wait for ever; the code does nothing against it.  It needs
`MaxFaults < PoolSize` too: with as many failed START TRANSACTIONs as there are
connections the queue stops for good.

## Disagreements with the documentation

- `requeue_race`: requeue checks the status and updates by id alone.  With two
  requests for one mail the second update hits a row a worker has claimed since,
  against "Only FAILED mails can be retried".
- `enqueue_duplicate`: of two concurrent requests with one key one fails on the
  unique column and does not "return existing mail record".  With the key `''` a
  later request does so too.
- `enqueue_overshoot`: two concurrent requests pass a rate limit of one.
- `enqueue_copy`: cc and bcc are never compared with the suppression list.

Found by reading, and modelled as the code does it, with no run of their own:

- `infrastructure/mail-job-state.service.ts:50` says that `markAsFailure` "Uses
  exponential backoff"; line 96 computes `retryBaseDelayMs * attemptNumber`, which is
  linear (base, 2 base, 3 base where doubling gives base, 2 base, 4 base).
  `GivenUpSlowly` bounds the delays from below and holds of either.
- `application/mail-rate-limit.service.ts:13` says "sliding window counter"; line 64
  renews the counter with every message, so an address that gets mail at intervals
  shorter than the window is refused after the limit although no window holds so
  many, until a window has passed without a message.
- `src/src/infrastructure/middleware/metrics-auth.middleware.ts:6` says "In production,
  metrics token must be provided via Bearer token."  `src/src/bootstrap/main.ts:61`
  mounts it on the pattern `/\/metrics$/`, and Express runs a mounted middleware only
  when what the pattern matches begins the path.  Under the global prefix
  (`/api/metrics`) it never does, so METRICS_TOKEN, which a production host must have
  (`ListensAsValidated`), is never asked for and the API token alone is enough.
- `src/src/shared/constants/app.constants.ts:54` says "CORS_ORIGINS must not contain * in
  production"; `main.ts:107` takes `*` out of the list before anybody checks, so such a
  production host starts without a word (`LateChecksNeverFire` shows the check idle).

## Proofs

`MailDispatchProofs` proves, for any sets of hosts, mails, lanes and operators,
any batch size, attempts and fault bounds that satisfy the named assumptions:

- `TypeCorrect`: `Spec => []TypeOK`;
- `SelectionsStayStable`: `Spec => []SelectionStable`.  The argument: a locked row
  changes only by the transaction that locked it, since every other writer waits
  (`Update`), a row that is absent is never locked and only an absent row is
  inserted, only a future due time is moved and a candidate has none; a host's
  batch is filled only by its own `Select` and taken from only after its `Commit`;
- `RowsStayConsistent`: `Spec => []RowConsistent`.  With `TypeOK` it is inductive:
  `RowSteps` lists what a step can do to a row, and every write operator of
  `MailRow` yields a consistent row from a consistent one.

`MailWorkerProofs` goes on to the work on a mail:

- `HostsHoldOnce`: `Spec => []NodeHoldsOnce`.  `Once` adds what makes it inductive:
  no batch before a selection, no lane with a mail outside a running tick;
- `SentIsAccepted`: `Spec => SentMeansAccepted`, from `Paid`: a lane past its send
  has seen its message accepted, so what it writes is true whenever it writes;
- `ClaimsPayForMessages`: `Spec => []OneSendPerClaim`.  A step spends, takes, has
  accepted or claims (`BalanceSteps`), and each keeps the account.  That the sets
  counted are finite is part of the invariant, since nothing bounds the hosts.

`MailLedgerProofs` assumes that nobody requeues (`Operators = {}`):

- `OneWorker` and `ClaimsStayWithinMax`, from `Solo`: all work on a mail is one
  worker's, whose entity counts the claims; a mail that is worked on is not pending;
  a pending one has attempts left and as many attempts as claims.  `WorkSteps` shows
  that a step leaves the work on a mail, hands it from a batch to a lane, gives it
  back with a failure or begins it with a commit.  Neither needs the status to be
  right about the worker, which it is not: a webhook may end the mail under it;
- `LedgerImplemented`: `Spec => ImplementsLedger`, the refinement.  Creating,
  claiming, sending, the two outcomes and a webhook are each an action of the
  ledger; every other step drops work or shows nothing (`OthersDrop`).  The guards
  of the ledger are what the invariants above provide: `Begin` needs `Solo`,
  `Deliver` needs the account, `ReportSent` needs `Paid`;
- `OrphansStay`: `Spec => OrphanIsLeftAlone`: without work on it a mail in
  processing gets none, since a commit takes pending rows only.

Its last part assumes no webhooks either (`MaxReceipts = 0`): a mail given
up has no worker and no attempt left (`GivenUpIsExhausted`), and only such a mail
has a date of failure (`FailureDatesAreCurrent`), crashes and database faults
included.  With no database faults (`MaxDbFaults = 0`) sent is final (`SentForGood`),
since the only lane that may still have the mail waits for a re-read (`Late`).
All three hold of more than `dispatch_reliable` explores.

`MailSuppressionProofs` proves `SuppressionTyped` and `SuppressionHolds`.  `SuppressedUnlessRemoved` is
not inductive; `SuppressionInv` adds that only a saved unsuppress leaves a row
inactive, and that a call that found a row, or was answered, still finds one.

`MailEnqueueProofs` proves `OneMailPerKey`, `RepeatsCreateNothing`,
`SuppressedGetNoMail` and `HtmlBelongsToMail`, for any hosts, requests, inputs,
times to live and bounds on ticks, restarts and failing queries, with the list changing
under the requests.  All four follow from one inductive invariant, `EnqueueInv`:
each request's record fits its place in the code (`Local`: before the insertion it
is in no table; answered with a mail, that mail is stored under its key; past
the list it is barred nowhere), each entry of a cache is sound (`Sound`: a key
leads to a mail stored under it, a template to its own html), keys are unique in
the table, and what is barred is active.  `Local` and `Sound` speak of one request
and one entry, so a step changes one of them and `StepKept` carries the rest.

It also proves `EnqueueTyped`, and `SerialRateLimit`: `RateLimitHolds` if requests are
served one at a time (`MaxInFlight = 1`), which is necessary, as
`enqueue_overshoot` shows.  `RateLimitHolds` counts the charges of an address that
are younger than a window, those of each life of the host apart.  `LimitInv` adds
that the counter of the address covers the charges since the last start (`Covered`):
it holds at least their number and lasts until each has left the window, because a
charge renews the time of the counter; and that a request between its read and its
write has read what the counter still holds, because no other request writes in
between.  A restart begins a life with no charge and an empty counter, and the
charges before it, which nothing adds to, stay within the limit they were under.

`IntakeImplemented` states the refinement of `MailIntake`, with no assumption on the
requests in progress.  A request is seen as its phase, its key and its answer
(`Phases`, `KeysOf`, `Answers`); `ViewChanges` says that a step of a request changes
its own view only, and `HiddenStep`, `RefusingStep`, `GivingStep` and `StoringStep`
what such a step is to the intake.  `EnqueueInv` supplies the rest: a cached id leads
to a stored mail with the key, a request that was a repeat at its arrival never stores
a mail, and one that is refused, or still looking, has no row; one that fails may
have one.

`HostStartProofs` proves `HostTyped`, `LateChecksAreIdle` and
`ProductionIsValidated` for any set of environments.  `HostInv` says that past the
import the environment is `Validated`, which `Complete` is shown to keep.

`MailScheduleProofs` proves `ScheduleTyped`, `PoolStaysAccounted` and
`RetriesAreSpread` for any numbers of mails, sizes, delays and faults.  The
invariant behind the last is `Distance`: the age of a mail and what is left of its
delay add up to at least the sum of the delays of its attempts.

`MailApiProofs` proves the invariants of `MailApi`, for any environments, any
number of tabs with any requests, any length of a page and any table, on four
assumptions: bodies and queries have the fields of their DTOs (`AsksAssumption`;
only a template can fail to compile), a tab scans by one query (`ScansAssumption`),
the table was filled by hosts like this one (`TablesAssumption`), and no tab is
called "none".  The inductive invariant is `ApiInv`: that of `HostStart`, what the
tabs share (`SharedInv`) and what is true of each (`TabLocal`).  A step changes one
record of a tab, and `StepKept` carries the others, since the table only grows
(`Grown`) and an open host keeps its configuration (`Settled`); `Replied` does it
for every handler that answers, from what the answer must not do (`Sound`).

- `ApiTyped`, and `ServesAsValidated` (the start-up is not disturbed by requests).
- `OvertakenTabs`: the cookie is the token of the tab that received one last,
  unless the browser drops it; so a request of that tab carries two equal tokens
  even if they are stale when it is answered (`CsrfLocal`).
- `ScansComplete`: what makes it inductive is where a mail is in the scan.
  `Reached` says that a mail with a moment of its own has been seen, or that as many
  mails come before it as fill the pages read so far, and that another page will be
  asked for.  Rows added meanwhile come before it or after it, never take any away
  (`BeforeGrows`); in every order the database may choose, its place is the number
  of mails before it (`PlaceOf`); so it is on the page, or the page is full and the
  total must be asked for (`PageReaches`), and the total, read later from a longer
  table, still tells of a further page (`TotalAhead`).
- `DeliverableRows`: `RowAdded` takes each field of a row from the layer that checked
  it: recipients and attempts from the pipe, content and sender from enqueue, the
  default number of attempts from the schema.

Model-checked only: liveness (`SettlesOrIsOrphaned`, `EveryMailSettles`,
`DueIsTried`), since the prover has no fairness and no ENABLED.  The four runs that
expect a violation are TLC's as well.

## Not modelled

- Bodies, subjects, attachments, headers, metadata and provider ids: no guard
  reads them.  (`normalizeAttachments` stores names and types and drops the
  content.)
- Logging, the events and their listener, which only logs.  The correlation id is
  made for the logs; unlike `dto/mail-audit-query.dto.ts:27` says it reaches a mail
  only when its body names one.
- The wiring of modules, the migrations and the data source: declarations.  The
  unique columns they create are guards of `InsertMail` and `InsertEntry`.
- The middleware of the metrics, which runs for no request (see above).
- Hosts, ports, time-outs, TLS, helmet, the answers of CORS and snapshot mode:
  values handed to libraries.
- `listRecent` and `listActive` only read.

Things to know when reading the models: nothing loads `mail.rateLimit...`, so the
limit is off in a host that is configured by `configuration.ts`, and the models
switch it on by a constant.  The routes answer 201 to a POST, 200 to the detail of
a mail that does not exist and 500 to the retry of one, where the OpenAPI
annotations say 200 and 404.  PostgreSQL, the SMTP server, the cache and the
browser are modelled as the code uses them.

## Open

- Enqueue, list and worker in one module, for mails that are scheduled before
  their recipient is suppressed: the worker does not ask the list again.
