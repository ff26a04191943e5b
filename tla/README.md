# Verification of the airline ticket backend

TLA+ models, TLC runs and TLAPS proofs for the backend in `src/backend/app`: a FastAPI
service that sells flight tickets. Customers search flights of an external provider, book
them, and add passengers; administrators record payments, move bookings through their life
cycle and upload tickets; a scheduled job cancels, completes and deletes bookings. State is
kept in PostgreSQL, Redis (locks, counters, a cache) and a file storage.

## 1. Inventory

| Component | State | Operations | Hard because | What makes it correct |
|---|---|---|---|---|
| Customer bookings (`api/booking_routes.py`) | `bookings`, `booking_passengers` | create_booking, add_passengers, two reads | requests of one customer race | passengers stored once and completely |
| Duplicate-booking guard (`booking_routes.py` 24-75, 166-195) | advisory lock, `created_at` | lock, look back, insert | two clocks, lock key and filter differ | equal bookings keep a distance in time |
| Administration of bookings (`api/admin_routes.py`) | `bookings`, `booking_deletion_logs` | update_payment_status, update_booking_status, delete_booking, trigger of auto_cancel | row locks here, none in the jobs and the ticket handlers | transitions follow the table, final statuses are final, deletions are logged |
| Ticket files (`admin_routes.py` 499-763, `services/storage_service.py`) | `ticket_file_url`, files | upload, replace, delete, downloads | awaits between check and commit; file and row share no transaction | a ticket's url leads to a file; files do not leak without cause |
| Booking jobs (`services/booking_auto_*.py`, `booking_deletion.py`) | `bookings`, log | auto_cancel, auto_complete, auto_delete | rows are loaded without locks, decided on and written later | what is deleted is logged; what is overdue is processed |
| Lifecycle scheduler (`main.py`) | Redis key `lifecycle_job_lock` | acquire, four phases, release | several replicas, lock with a fixed lifetime, crash, one phase failing | one run at a time; no run frees another's lock |
| Customer accounts (`api/auth_routes.py`, `services/auth_token_service.py`) | `customer_users`, `auth_tokens` | signup, verify, resend, forgot, reset, change, (de)activate | several commits per handler, no locks, e-mail in the background | tokens work once and not in vain; passwords are not lost |
| E-mail (`services/email_service.py`) | none | send with three attempts | failures after the response | a lost e-mail is not final |
| Administrator accounts (`auth_routes.py` 294-373, `crud/staff.py`, `admin_routes.py` 831-879) | `admin_users` | signup, sign-in, update, deactivation and activation of staff | check, then insert; copies loaded before others commit | an address is one account's, the door shuts behind the first signups, a deactivation is not undone by accident |
| Rate limits (`core/rate_limit.py`, `services/rate_limit_service.py`) | Redis counters | count, expire | Redis fails between two calls | a window ends; no more than the limit in it |
| Price overrides (`services/price_override_service.py`) | `price_overrides` | create, deactivate, expire, lookup | concurrent creation | one active override per flight, but for creations that overlap |
| Pricing configuration and exchange rate (`services/pricing_config_service.py`, `admin_routes.py` 783-803) | two singleton rows | update, creation by whoever finds none | creation races with updates | only administrators change a markup that exists |
| Pricing engine (`services/pricing_engine.py`) | none | price lists, booking totals | three reads in three snapshots, order of rounding | a price is of one instant unless two changes hit it; what is charged is what was shown |
| Website content (`services/content_service.py`) | banners, background, Redis cache | CRUD, cached read | stale cache fill, limits under races | at most eight active banners, a cache that forgets |
| Contacts and profile | `customer_contact` | create, update, read | concurrent creation | one row per customer (a unique constraint) |
| Flight search (`api/flight_routes.py`, `services/external_flight_api.py`) | Redis cache | two searches, three attempts each | provider and Redis fail, lists grow old on their way | a fare has a largest age; every search ends |
| Event loop, threads and connections (`db/session.py`, `db/deps.py`) | sessions, connection pool | every request | async handlers call the database on the loop; sessions are closed by the loop | no request waits for ever, but for one hang |
| JWT, configuration, metrics, routing, schemas, containers, pipelines | none of their own | - | - | - |

Interaction: every HTTP handler has a database session of its own (`db/deps.py`), in one
transaction at PostgreSQL's READ COMMITTED from its first query to its commit or rollback.
Synchronous handlers run in a thread pool, the asynchronous ticket handlers on the event loop,
the jobs in the scheduler's thread, in as many replicas as are deployed. They meet only in the
tables, in Redis and in the storage.

## 2. Plan

Order of work, the most important behaviour first:

1. `Bookings`: the table of bookings under every handler and job that writes it. Done, proved.
2. `LifecycleJob`: the distributed lock and the job's phases. Done, proved but for liveness.
3. `TicketFiles`: the ticket handlers in finer steps, storage and row apart. Done, proved.
4. `DuplicateBookings`: the guard against double submission. Done, proved.
5. `CustomerAuth`: the account and its tokens. Done, proved but for liveness.
6. `Banners`: the table of banners and its Redis cache. Done, proved.
7. `RateLimit`: the atomic script and the two-call counter. Done, proved but for liveness.
8. `BookingLifecycle`: an abstract specification of a booking as its customer sees it, which
   `Bookings`, with the history variable of `BookingsHistory`, refines. Done, proved.
9. `AdminAccounts`: signups, sign-ins and staff management. Done, proved.
10. `PriceSettings`, `Pricing`, `FlightSearch` and their composition `Sales`. Done, proved but for
    liveness.
11. `EventLoop`: who waits for whom between loop, threads, row lock and connections. Done, proved
    but for liveness.
12. The background image, beside `TicketFiles`; the choice of the address a call is counted under;
    the choice of bundles from the provider's answer.

## 3. Modules

Each module's state is what the database, Redis or the storage keep, plus for every request
what it has read and where it is. An action is a handler's stretch from one point at which
others can interfere (a commit, an await, an unlock) to the next.

### Bookings (MCBookings, BookingsProofs)

`row[b]` is a booking's row: its status, payment status, number of passengers, whether it has
a code, a ticket and which legs are flown. `lock[b]` is its row lock, `log[b]` counts
its rows in the deletion log, `op[r]` and `seen[r]` are a request's operation and the copies
it decides on. A request is two steps. `SelectForUpdate` is the SELECT of add_passengers,
update_payment_status, update_booking_status and delete_booking, which takes the row lock;
`UploadTicketRead`, `FileRead`, `AutoCancelRead`, `AutoCompleteRead` and `AutoDeleteRead` are
the SELECTs of those that take none. The second step is one of the nine commits, or
`Rollback`, which stands for each early return, failure and crash.

Facts the translation rests on: SQLAlchemy writes only the columns a handler assigned, so a
stale writer overwrites `status` but not `payment`; an UPDATE waits for the row's lock; an
UPDATE of a row that is gone fails the whole transaction (StaleDataError), a DELETE of one only
warns; sessions do not autoflush, so writes happen at the commit and the incremental row locks
of a batch only delay it. Time is a free choice: an administrator may pass any expire_minutes, so
which bookings are old enough is arbitrary. Two runs of one job may overlap, since the lock of the
scheduler may expire and the trigger takes none.

### BookingLifecycle, BookingsHistory

`BookingLifecycle` knows no requests, locks or copies: `status[b]`, with "ABSENT" before and
"DELETED" after its life, `payment[b]` and `past[b]`, every status and payment status the booking
has had. It says which steps there are at all: a failed payment cancels in the same step, only a
booking that was cancelled at some time is deleted, only one that was confirmed at some time is
completed, only one that was paid for at some time has a ticket confirm it, and nothing but the
cancelling job takes a booking to CANCELLED from just anywhere. "At some time" is what is left of
the guards of jobs and ticket handlers, which check a copy and write later. `BookingsHistory` adds
`past` to `Bookings` as a history variable and instantiates `BookingLifecycle` with the status and payment
of the rows; that every step of `Bookings`, a batch of a job included, is a step of it is the property
`ImplementsLifecycle`.

### LifecycleJob (LifecycleJobProofs)

`lock` and `ttl` are the Redis key, `run[i]` is the phase of replica i's run and `age[i]` its
length, `item` the stages of work that becomes due. Each phase may fail, which skips the later
ones; a replica may die and leave the lock. A replica's identity stands for the random token of
its run, as a replica has one run at a time (`max_instances=1`).

### TicketFiles (TicketFilesProofs)

One booking's `ticket_file_url`, the files in the storage, and the requests in flight with the
copy of the url each has read. `StartSave`, `Save`, `CommitNew`, `Cleanup` are upload_ticket
and replace_file from await to await; `StartDelete`, `Erase`, `Clear` are delete_file. Save and
commit can fail and a process can die between any two steps.

### DuplicateBookings (DuplicateBookingsProofs)

Submissions of one customer that agree in everything but the bundle key. `start[r]` is the
beginning of the transaction, which PostgreSQL's `now()` makes the row's `created_at`; the cutoff
is taken after the wait for the advisory lock, from the application's clock, `Skew` ahead. The
distance that is really guaranteed is `Gap == Window - MaxTx - Skew`, not the window's
ten seconds.

### Banners (MCBanners, BannersProofs)

`row[b]` is a row of website_banners, `shown` and `ttl` the cached list and its lifetime, `req[r]` a
handler or a reader: the columns it will write, the checks it has still to make, or the list it found.
A write is the load of the row, the checks (`AssertUnderLimit`, `AssertPriorityFree`), the
`Commit` and the `Clear` of the cache; a read that misses the cache is `ReadMiss` and `Fill`. The
asynchronous handlers do not await between load and commit, so two of them interleave only in
different replicas, while the synchronous `deactivate_banner` and the readers run in threads. `gone[b]` is a
history variable: how long ago b was last active. `MaxRead` bounds how long a reader sits
between its query and its fill; the code has no such bound, and the guarantee grows with it.

### RateLimit (CustomerAuthProofs)

One Redis counter, `count` and `ttl`, under calls of one limiter: `Script` is the Lua script of
enforce_rate_limit, `Incr` and `SetLifetime` the two calls of check_rate_limit. `ExpireFails` and
`ReplyLost` are failures of Redis or of the process. `recent[n]` is a history variable: how many calls
were let through since the n-th last tick, so that `recent[Window]` is what any window of time lets
through. The theorems are in the module of the endpoints behind the limiter.

### CustomerAuth (CustomerAuthProofs)

One account, its tokens and the requests in flight, each at the commit or e-mail that is next.
`Issue` commits a token, `Mail` is the background task, `Present` is get_valid_auth_token,
`Apply` the commit of the token's effect and `Mark` the commit of `used`. `Abort` is a failure
or a crash between any two of them. `applied[t]` is a history variable. A token nobody can
use any more gives its name to a new one, so that tokens never run out.

### AdminAccounts (MCAdminAccounts, AdminAccountsProofs)

`acc[a]` is a row of admin_users, `token` the accounts with an unexpired token, `req[r]` a request with
the statement it has reached, its caller, and the account and copy a staff handler loaded. A signup
is `SignupAuth`, `SignupEmail`, `SignupRole` and `CreateAdmin`, as each query has a snapshot of its own; a
staff handler is `StaffAuth`, `GetStaff` and its commit. `Flush` writes the columns that differ from
the copy, as SQLAlchemy does. `maker[a]` is a history variable: who was acting when a was inserted.

### Sales (PriceSettings, FlightSearch, Pricing, SalesProofs)

`PriceSettings` is what a price depends on: `rate` and `markup`, two rows that may not exist yet, and
for the overrides of one flight `stage`, `life`, and what a creation under way has deactivated. The
overrides are numbered as their transactions begin, since `created_at` is the beginning of the
transaction and decides which of several is in force. `blind[o]` is a history variable: the creations that had
not committed when o looked. `FlightSearch` is the cache in front of the provider; a list of fares is its age.
`Pricing` is the arithmetic on integers: mills, cents, per mille. `Sales` composes the three: a request
searches or books, and then reads rate, markup and override in a statement each (`ReadRate`,
`ReadMarkup`, `CreateConfig`, `ReadOverride`) while administrators and the expiry go on. `first` and
`changes` in `price[r]` are history variables: the settings at the first read, and how often they
changed since.

### EventLoop (TicketFilesProofs)

`pc[r]` is where a request is, `loop` the async handler that occupies the event loop, `holder` the
transaction that has locked the booking, `conns` the connections checked out. A request in a thread is
`LoadCaller`, `Dispatch`, `Lock`, then `EndEarly` or `Commit` and `Refresh`, and `Close`; a request on
the loop is `Await`, `Stored`, `Resume`, `CommitOnLoop`. `Close` is the exit of get_db. FastAPI runs it
when the loop comes round to it, so that a handler that raised keeps its transaction, row lock included, until
then. FastAPI and uvicorn are not in the repository; what the model takes from them is
that def handlers and dependencies run in threads and coroutines on the loop, and that the loop starts
both the handlers and the exits of the dependencies. The theorems are in the module of the ticket
handlers, which run on this loop.

## 4. Runs

| Run | Question | Bounds |
|---|---|---|
| `bookings_races` | do locks protect the handlers that take them, is every deletion logged, is every disorder of the life cycle due to a stale unlocked writer, and does a booking live as `BookingLifecycle` says? | one round-trip booking, two requests, every operation |
| `lifecycle_overrun` | do runs of two replicas overlap only when one outlived the lock; is every overdue item processed in the end? | two replicas, runs longer than the lock's lifetime |
| `tickets_all` | which steps can leave a url without a file, or a file without a url? | two requests, three files |
| `duplicates_window` | how far apart are equal bookings? | three submissions, two bundle keys, window 3, transactions of one tick, skew 1, five ticks |
| `auth_races` | tokens and passwords under races and crashes; is a customer who signed up verified in the end, whatever was lost? | two requests, one token of each type, two passwords |
| `banners` | does the limit of active banners hold when checks and commits race, and how long is a banner shown that was taken off? | three banners, two of them active at most, two requests, a cache of one tick, reads within a tick |
| `rate_limit` | how many calls pass, which counters lack a lifetime, does every window end? | three calls, limit 3, window 4, either limiter |
| `admins` | who becomes an administrator when signups race, who gets an address they race for, and what do racing changes of one account leave behind? | three accounts, three addresses, two requests |
| `sales` | what may a price mix, how old may a fare be, what may the rounding cost, does every search end? | one request, one writer of rate or markup, two overrides of at most a tick, one rate, the default markup and another, a cache of one tick, a list held for at most one |
| `event_loop` | in which ways can the process hang? | two requests in threads, two on the loop, two connections |

Two requests are enough for the races: every property relates one reader to one interfering
writer, or two writers; three appear where a third could matter (a twin of a twin, a call in the
middle of a counter's life). In `banners`, three banners against a limit of two are the smallest number
that can break it. What is symmetric there (banners, requests) is explored once. In `admins`, three
accounts are a super admin, a member of staff and one more signup. In `sales`, prices are computed from what
one request reads, and requests only meet in the cache, whose entry survives the request that
filled it, so that the next search of the same request is the second reader; one rate is enough, as two
values of the markup and the presence of an override already make settings that can be mixed, and the
arithmetic is checked on the fares from 1.000 to 1.110 USD and totals up to 0.40 USD, around whole and
half cents, with 2100 MMK for a dollar. Two overrides are the smallest number of which two can be
active. `event_loop` has a pool of two, so that it can be empty, and two requests of either kind, so that a
holder of the lock, a waiter for it and a holder of the connections are different requests. The proofs cover any
number; in particular batches of several bookings, and a cache and reads of several ticks, are covered
by them and not by a run.

The runs check the type invariants of `Sales` and `EventLoop`, which say of the cache, the attempts and
the pool that they keep their limits; those of the other modules are theorems and left to them. So is
`SuperAdminPresent`, that nobody is locked out: get_staff finds staff only, so that no
deactivation reaches a super admin, and no race has a part in it.

Properties whose names end in UnlessStale, HasACause, HaveACause or Overlapped, and the others that state an
exception (`OnlyDeleteFileDangles`, `BootstrapsBounded`, `MixedNeedsTwoChanges`, `LaterSubmissionIsApart`),
are about races and failures the code does not exclude. They do not say that the race is harmless; they say
that it is the only way to the bad outcome, and how far it goes.

`ChargedIsShown` is checked on the run's two markups and
proved for any: the schema asks of a markup only that it is not negative, and above 100 % it may
cost more than the cent per passenger that rounding does below.

Two runs are expected to fail. Each states what a text in the repository says and shows that
the code does something else.

| Run | The text | What the run shows |
|---|---|---|
| `bookings_auto_cancel` | booking_auto_cancel.py:8, only while payment is PENDING | a booking paid after the SELECT is cancelled all the same |
| `auth_single_use` | README.md:697, tokens are single-use | two requests accept a token before either marks it |

Deadlock is not checked for Bookings, TicketFiles, DuplicateBookings, AdminAccounts, Sales and
EventLoop. The bookings, files, instants, accounts and overrides of the first five are finite, and a run
that used them up may stop; in EventLoop the hang is a state the process really stops in, and
`RequestEnds` says that it is the only one. In Bookings no request holds
one lock while it waits for another, as an action takes at most one.

## 5. Fairness

`LifecycleJob`: weak fairness of time, of work becoming due and of the release; strong fairness of acquiring the lock
and of each phase, which says that the scheduler of some replica fires again and again and that no
phase fails for ever. The code justifies the first (an interval trigger); the second is an
assumption on the database, and the run shows that it is needed for each phase.

`CustomerAuth`: every request ends and every token expires (weak). The customer keeps asking
for another verification e-mail and opening it, and each of these steps succeeds some day (strong),
including that some e-mail arrives within its token's lifetime. The rate limit on resending is
left out, so the result holds as far as that counter has an end.

`RateLimit`: weak fairness of time and of a call that waits for Redis, which returns or raises
some day (`core/redis.py` sets no socket timeout, so this is an assumption on Redis and the network).
Nothing is assumed of the callers, so that `WindowEnds` also holds against one that never stops calling.

`Sales`: a request's thread goes on (weak fairness of its own steps, the failures among
them). For the steps that call Redis this assumes that each call returns or raises some day: the client of
`core/redis.py` has no socket timeout, and the code itself does not bound the wait. An attempt at the
provider is assumed to end by its timeouts (external_flight_api.py:22) if not earlier. Nothing is assumed of
administrators or of the passing of time, nor that Redis or the provider ever succeed: `SearchEnds` rests on
there being three attempts.

`EventLoop`: a step that needs only a thread, the database or the storage is taken (weak); a callback
waiting for the loop and a statement waiting for the row lock get their turn if turns keep coming (strong),
as the loop runs its callbacks in order and PostgreSQL grants a row lock in the order of the requests. A
checkout from the empty pool gives up after `pool_timeout`.

## 6. Proofs

Every theorem is proved for all values of the constants under the module's named assumption.

- `BookingsProofs`: the inductive invariant adds to the properties what a copy knows. The copy of a locked
  handler is the row; the legs in a job's copy are a subset of the row's; a copy read for an upload
  or by a job had the status the SELECT asked for; legs, tickets and codes only grow or follow
  their handler. From it: type correctness, `LockHolderIsCurrent`, `PassengersAllOrNothing`,
  `TicketedIsPastProcessing`, `CompletedFlewBothLegs`, `DeletedIffLogged`, and the two action
  properties about stale writers.
- `LifecycleJobProofs`: a run holds the lock unless it is older than the lock can be; hence
  `ReleaseFreesOwnLock` always, `OverlapNeedsOverrun` always, and `OneInstance` when runs are shorter
  than the lifetime.
- `TicketFilesProofs`: a file name belongs to one request until it is committed, so nobody
  else erases it. Hence `OnlyDeleteFileDangles`; and a step of replace_file keeps the ticket
  (`ReplacementKeepsTicket`). That an erased file is gone before its handler goes on, and that an upload
  replaces nothing, gives `OrphansHaveACause`: the file that is lost is one of the failing request's own, or
  the one whose url the acting request overwrites without having loaded it, or goes with its booking.
- `TicketFilesProofs`, event loop: whoever holds the row lock is a thread at work, or has ended
  and waits for the loop to close its session; whoever occupies the loop has just been given it,
  waits for the pool or waits for the row. Hence `LoopTypeOK`, `HangLasts` (neither the holder nor
  the occupant of a hung loop has a step) and `LoopWaitsForOpenWork`, the safety half of `RequestEnds`: the
  loop waits for a lock only while its holder is at work, or in the hang.
- `DuplicateBookingsProofs`: a submission past its check holds its bundle's lock, and
  every live twin it could have seen is older than the cutoff. Hence `TwinsAreApart` and `LaterSubmissionIsApart`.
- `CustomerAuthProofs`: a request past `Apply` has counted its token's effect. Hence
  `SpentHadItsEffect`, `DeadTokenStaysDead` and `AccountIsNotReplaced`.
- `BannersProofs`: what a reader found is no longer gone than the read has lasted, and what the cache
  holds is the younger gone the longer the cache still lives. Hence `TakenOffVanishes`.
  `ActiveWithinLimit` follows from the unique index alone: priorities of active banners are an
  injection into as many priorities as the limit allows. Were the range of priorities
  (`models/website_banner.py` 31) wider than `_MAX_ACTIVE_BANNERS`, nothing would hold the limit.
- `CustomerAuthProofs`, limiter: the call that counted first waits alone until it has set the lifetime,
  and a counter that has lived for n ticks explains what was let through since. The last `Window` ticks
  meet the present counter and at most the one before it, each of which lets through at most the limit. Hence
  `TwiceTheLimitAtMost`, for any window and limit, and `NoLifetimeHasACause`.
- `BookingsProofs`, refinement: `HistorySpec => ImplementsLifecycle`. The invariant `HInv` adds to that of
  `Bookings` that `past` remembers the row and whatever a copy in flight says of it; with it each of
  the commits is a step of `BookingLifecycle` for the bookings it writes and a stutter for the others.
- `AdminAccountsProofs`: whoever acts for a signup or loaded an account exists; super admins are
  active, as staff handlers load staff only; a request that found the table empty began before
  the first commit. Hence `SuperAdminPresent`, `BootstrapsBounded`, `NoAccidentalReactivation` and
  `EmailsDistinct`. The commit of a deactivation writes what differs from the copy it loaded, which gives
  `DeactivationTakesUnlessStale`.
- `SalesProofs`, `SalesInv` in three parts. The search: an entry of the cache loses as much lifetime as its
  list gains in age, and a list in hand grows as old as it is held (`FaresAreFresh`). The overrides: of two creations,
  one deactivates the other or neither saw the other committed, at every stage of the two
  (`ActiveTogetherOverlapped`). The prices: until a second change, the settings of the first read differ
  from the present ones in one of the three at most, and the markup that was read is one of the two
  (`MixedNeedsTwoChanges`). `OnlyAdminsChangeMarkup` follows from the guard of the creation: the default is
  written only where there is no row. `ChargedIsShown` and `EstimatesAgree` are
  arithmetic (`ChargeNearShown` and `EstimatesNearTotal`, for any fare, markup and rate): each
  rounding is off by half a unit, times what it is multiplied with.

Where one module holds the theorems of two components, the second component's definitions have names
of their own (`LimiterInit`, `LoopNext`), since both are extended.

Model-checked only: the liveness properties `OverdueIsDeleted`, `LaterPhasesRun`,
`VerifiedAtLast`, `WindowEnds`, `SearchEnds` and `RequestEnds`, as liveness under fairness is out of the
prover's reach.

## 7. Where documents and code differ otherwise

Seen while modelling, without a run of their own: auto_complete completes a confirmed booking that was
never paid, which update_booking_status refuses (admin_routes.py:478); a run of the jobs as long as the
240 seconds of the lock overlaps with the next, though one instance executes them (README.md:517; it is
what `OverlapNeedsOverrun` allows); two uploads of a ticket pass the check for "Ticket already uploaded"
(admin_routes.py:527) and the later overwrites the earlier (a cause in `OrphansHaveACause`); the event
loop waits for a row lock whose holder has refused its request and waits for the loop to close its session
(`HangLasts`), which neither the engine nor the database has a timeout for; the status diagram (README.md:499-507) has no step
from CONFIRMED to CANCELLED, which update_booking_status allows, and says that a confirmed booking
is paid, which it does not ask for; the job table (README.md:523) says "Soft-deletes", the job
deletes the row; `PAID -> PENDING` and `FAILED -> PAID` are accepted by update_payment_status as
long as the booking is open, against README.md:511; the rate limits of forgot-password and
resend-verification count per e-mail address, not per IP address (README.md:680).

## 8. Not modelled

Contacts and profile: one row per customer, read and written by its owner only; a second creation that
races is refused by the unique constraint. The background image: its handler stores, commits and
deletes in the order of replace_file. The choice of bundles from the provider's answer and the validation
of snapshots are pure, and no property speaks of their fields. JWT signatures, schemas, configuration,
metrics, routing, containers and pipelines keep no state that two steps could disagree on. Which key a call
is counted under, timestamps other than those named above, audit columns and the wording of messages
are abstracted everywhere.
