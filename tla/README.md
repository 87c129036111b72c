# Verification of the Prism LLM gateway

TLA+ models of the gateway in `src/`, TLC runs that check them on small
instances, and TLAPS proofs for every value of the constants. `PROJECT.json`
maps every definition to its source lines and lists the hazards, the runs, the
faulty variants that each property has to reject, and the theorems.

## 1. The system and its parts

Gunicorn (`Dockerfile` 21) runs four worker processes of four threads. A request stays on one
thread from beginning to end. Threads share nothing inside a process except the
health cache; workers share one SQLite file in WAL mode. Each thread has its own
connection (`db.py` 25-34) with `busy_timeout` 10 s and autocommit, so every
statement outside `BEGIN IMMEDIATE` is a transaction of its own.

| Part | State | Operations | Correct when | Module |
|---|---|---|---|---|
| Admission and accounting (`core/auth.py`, `core/db.py`) | `virtual_keys` (spend, period), `rate_windows` | `authenticate`, `check_model_allowed`, `admit_rate_limit`, `admit_budget` with `_maybe_reset_period`, `record_actual_spend` | no window over its limit, no admission at or over the budget, charges add up, the reset happens once a month, the write lock always comes back | `Ledger`, `Admission` |
| Retries and failover (`core/router.py` 67-146) | locals of one call | `run_with_failover`, `run_stream_with_failover` | candidates in order, no call after a refusal, failure only when all are used up, text of one attempt only, it ends | `Delivery`, `Failover` |
| Providers (`providers/*.py`) | locals of one exchange | `complete`, `stream` | every call ends that the server does not drag out byte by byte, a failure is reported as one | `OpenRouter` over `Failover`; the mock in `Health` |
| Chat handler (`routers/chat.py`, `core/logs.py`) | `request_logs` | every exit of `chat_completions` and `_handle_stream` | one row for every request that is brought to its end, and never two; row, charge, cache and answer agree | `Gateway` |
| Semantic cache (`core/cache.py`, `semantic.py`) | `cache_entries` | `lookup`, `store` | tenants are apart, best live match above the threshold, equal entries do not pile up | `SemanticCache`, `Answering`; `Gateway` |
| Resolution and difficulty (`router.py` 27-55, `difficulty.py`) | none | `resolve_candidates`, `resolve_auto`, `classify` | every name has a plan or is rejected, the traps go to the right tier | `Routing`, `Answering` |
| Cost (`cost.py`) | none | `compute_cost_usd` | | any amount, in `Gateway` |
| Provider health (`providers/mock.py` 8-47, `routers/admin.py` 9-27) | `provider_health`, a cache per process | `set`, `get`, `all`, `_refresh`, both endpoints | a toggle is seen after a bounded time and stays seen | `Health` |
| Startup (`db.init_db`, `seed.py`, `main.py` 12-14) | schema, rows of the keys | at import, in every worker | no worker serves half of the keys, rows in use are left alone, the gateway comes up | `Startup` |
| Admin key (`admin_auth.py`) | one constant per process | comparison | | not modelled |
| Usage reports, `/admin/keys`, console | none of their own | SQL reads | | not modelled |
| Hashing, JSON logging | none | pure / output | | not modelled |

How they interact: the handler calls admission (two transactions), the
resolution, the cache, then failover, which calls providers; the mock ones ask the
health registry. Afterwards it records the spend, stores the answer and writes
the row, each in a transaction of its own. A streaming answer runs the second
half of this inside a generator that the server resumes event by event and
closes when the client leaves.

Where it is hard: the read-then-write transactions under a contended lock
with timeouts; values computed before a lock is awaited; a check whose effect
(the cost) comes much later; partial failure between charge, cache and row;
a generator closed at any event; the crash of a worker that serves several
requests; nested retries over an exchange with two different timeouts; caches per
process over a shared table, filled without a lock; a lookup and its store with
other requests in between; four workers that seed one database.

## 2. Modules

`VirtualKeys` holds the constants and assumptions that the accounting modules
share: keys, limits, budgets, `MaxCost`, the clock `0..MaxNow` counted in
one-minute windows, and the month of every window.

`Ledger` is the abstract specification of the two accounting tables. Every
transaction is one step: `TakeSlot`, `CheckBudget`, `Settle`, `Abandon`, `Tick`.
`open[k]` counts admitted requests that may still be charged.

`Admission` is `auth.py` with its threads. `pc[t]` is the place of thread t in

    Arrive -> rate_begin -> rate_read -> rate_decide -> budget_begin ->
    budget_read -> budget_decide -> serving -> spend_begin -> spend_write

`frame[t]` holds the locals: `window_start`, what the open transaction has read,
today, the cost. `lock` is SQLite's write lock. `Begin` and `BusyTimeout` are the
two outcomes of `BEGIN IMMEDIATE`; `RateRead`/`RateGrant`/`RateReject` and
`BudgetRead`/`BudgetGrant`/`BudgetReject` split each transaction at the point
where Python has read and not yet written; `Rollback` is the `except` branch
wherever a statement raises; `Crash(W)` kills a worker with all of its threads.
`today` is read inside the transaction and `window_start` before it, as in the
code, and both facts matter. `passed` is a history variable that counts slots by
the minute of the clock at which they were given.

`Delivery` is the abstract specification of one upstream call: the text of one
attempt on one candidate, one end. `Failover` has both functions of `router.py` (`mode`), the
attempt loop nested in the candidate loop, and a provider that answers as it
likes: return, retryable or final `ProviderError` before or after some pieces,
another exception (`Escape`), and the generator being closed (`Close`). The
backoff is left out: no state depends on its length.

`OpenRouter` extends `Failover` and puts the HTTP exchange of `openrouter.py` in
the place of that provider. Every step of the adapter that ends a call or hands on
a piece is a step of the failover together with what happens to the exchange:
`NoResponse` and `Refuses(429)` are a retryable failure, `NoKey` and
`Refuses(401)` a final one, and an `Escape` is a body without an answer, or `Break`,
an exception while the lines, or the body of a refused stream, are read outside
the `try`. `sent` and `status` say how far the exchange is: `Begin` is the call, `Post`
the request on its way, `Head` the headers of a stream. What the adapter sees is a whole
response or a whole line; what `requests` sees is bytes. So there are two clocks:
`quiet` is the timeout of `requests`, which every byte starts again, and `elapsed` is
`time.time() - start`, looked at only when a line is complete (`LateLine`). `Drip`
is bytes that complete nothing: they reset the first clock and never reach the check
of the second, at any point of the exchange and as often as the server likes. `waited`,
`dripping` and `cut` are history. One module has both `complete` and `stream`,
which differ in their status checks by nothing but wording.

`Gateway` is the handler over the tables of the accounting, the cache and the log.
Its transactions are written out (`RateGrant` with `TakeSlot`, `BudgetCheck`, `Charge`),
and `ImplementsLedger` says that they are those of `Ledger` in an order it allows.
One step is one database operation, one upstream outcome or one phase of a
stream. `Raises` may replace any database operation or upstream call,
`ClientLeaves` any event of a stream; `Crash` takes a whole worker. The
inside of the upstream call is `Failover`'s and appears as returning or failing.
Prompts are classes of similar texts, so an exact match stands for "at or above
the threshold"; `Expire` is the passing of `ttl_seconds`; the price is any
amount in `0..MaxCost`.

`Texts` declares the user texts as sequences of words. `Routing` turns a requested
name and a text into the candidates. A word of `HardWords` or `EasyWords` stands
for whatever matches one pattern; `Score` is `score_difficulty` in units of 1/400,
exact. `SemanticCache` has the signed hash vectors, the loop over the live rows
(`Best`, a recursive function over the table that keeps the best id so far, as the
code does), threshold and store; a vector is kept as integers and the division by its
length is moved into the comparisons. `Answering` puts both together as the handler does:
`Miss` resolves and looks up, `Complete` stores, and between the two come the steps
of other requests and of the clock.

`Health` has the table `provider_health`, and for each process `_cache` and the age
of `_cache_ts`. `Get` checks the ttl and either goes through `Read`, `Assign`,
`Stamp` to `Answer` or directly there; two threads of a process may do so at
the same time. `Set` is the committed row and `Mark` the later write to the cache
of the process. `Serve` and `Fail` are what the mock provider does with the answer.
Ages saturate, so the model has no last tick; `gone[p][s]` (history) is how
long ago the table last held s.

`Startup` is `main.py` 12-14 in every worker: `InitDb`, then for each seed `Check`
(SELECT) and `Insert`, or `Collide` when another worker was faster and the primary
key raises. That fails the boot, and gunicorn then stops altogether (`Halt`).
`BootFails`, `Respawn` and `Stop` are the other faults; `Charge` and `NewDay` go on
meanwhile, because a worker may be started while others serve.

`MCAdmission`, `MCGateway`, `MCHealth`, `MCStartup` and `MCAnswering`
give the constants values; `OpenRouter` needs no module for that. `Ledger` and `Delivery`
have no run of their own: what they promise is checked where threads, handler and
adapter put it at risk. `LedgerProofs`,
`AdmissionProofs`, `FailoverProofs` (with the adapter), `HealthProofs`, `StartupProofs`,
`AnsweringProofs` and `GatewayProofs` hold the theorems; `Sums` has the lemmas about
sums over finite sets that the last two need.

An operator that stands before a definition under the comment "Faulty variant" is
a plausible bug in that definition. It is used by no specification here; each
property is checked to be violated when it takes the definition's place.

## 3. What the runs check

| Run | Instance | Shows |
|---|---|---|
| `admission_safety` | 3 threads in 2 workers, 1 key, limit 2, budget 1, 2 minutes in 2 months | lock discipline, fresh reads, the limit of a window, hard stop, that every request ends although the lock is unfair, and that `Admission` implements `Ledger` |
| `admission_minutes` | 2 threads in 2 workers, 1 key, limit 1, budget 1, cost up to 2, 3 minutes in 2 months | how many slots a minute of the clock sees, how far a budget is overrun, that the spend is wiped only by a new month |
| `admission_clock_minute` | 2 threads, limit 1 | violation, see section 5 |
| `admission_overshoot` | 2 threads, budget 1 | violation, see section 5 |
| `failover` | 3 candidates, 3 attempts, 2 pieces, timeout 2 ticks, any number of drips | order, exhaustion, the fallback flag, refusals, how long the adapter waits, that all ends unless the server drips for ever, and that the composition implements `Delivery` |
| `failover_stream_refusal` | 3 candidates, 3 attempts, 3 pieces | violation, see section 5 |
| `gateway_safety` | 2 requests, in one worker or in two, 2 tenants, 10 kinds of body, limits 1 and 2, 2 months, with symmetry | row, charge, cache and answer agree on every exit; the handler only makes steps of `Ledger` |
| `stream_truncated` | 1 candidate, 1 piece | violation, see section 5 |
| `health` | 2 processes of 2 and 1 threads, 1 provider, ttl 1, delay 1, an admin thread | bounded staleness, convergence after a toggle, an outage is obeyed |
| `startup` | 3 workers, 2 seeds, 2 days, spend up to 1, 2 faults | complete keys, one race per key, rows are kept, it comes up |
| `answering` | 2 requests, 2 tenants, 6 texts, 8 bodies, 3 entries, ttl 2, the real models and aliases, with symmetry | no piling up, stable answers, traps |
| `answering_tier` | the same with 1 entry | violation, see section 5 |

Why the bounds are enough. All races of `auth.py` are between two threads; the
third makes the limit of two requests contended by more than the limit, and puts
two requests into the worker that crashes. In `admission_safety` the clock needs one
boundary for both the minute and the month, since no request spans two of either
in a decision. `admission_minutes` has three minutes, because only then can a slot be
late by two windows, which would make three slots in a minute where twice the limit
is two; its limit of one and cost of two make the bound of the overrun tight: an
admission at the budget, instead of below it, breaks it. A
budget of one unit and a cost of one unit put "exactly at the budget" one charge
away from the start. In `Gateway` two requests meet in every pair of places: one is
answered from the cache with the other's answer, or another tenant asks for the
same prompt, or both want the last slot. The bodies reach every exit: unknown key, name not allowed,
name that does not resolve, prompt without text, invalid body.

In `failover` three of each give a first, a middle and a last candidate and
attempt; a timeout of two ticks separates a line that is in time from one that is at
the limit and one that is late. In `health` two threads of one process are what a
refresh can race with, and the other process is where a toggle has to arrive; a
second provider would follow the same rows, and a longer ttl or delay only
repeats ticks (the bound is proved for all of them). In `startup` the third
worker lets one race while another serves, two seeds let a start end half way, and two faults
interrupt the start that follows an interrupted one. The texts of `MCAnswering` are in
every relation the cache can tell apart: equal, near in part
(`q1` and `q3` to `q2`, not to each other), opposite by a collision of hashes
(`item` and `city`), unrelated, all stopwords, blank; `long` is past the cap on
the length. Three entries are one more than the requests at once, so piling up
would show; the ttl of two lets an entry live through a tick and expire.

Fairness. Steps of a thread are weakly fair: the operating system schedules
every thread. Nothing that fails is fair: arrivals, storage errors, crashes, toggles, clients
that leave. In `Admission`, `Begin` and `BusyTimeout` belong to one fair step: a waiting
thread either gets the lock or is told that it is busy after ten seconds, and this
is the whole reason why `RequestEnds` holds with an unfair lock (without
`BusyTimeout` it fails). `Admission` assumes that a completion ends. It is true of the
mock; of the adapter it is true unless a server drips, and `Terminates` of
`OpenRouter` says just that. There the fair steps are the thread's own (`Begin`,
`Post`), the passing of time (`Wait`), and the timeout of `requests` when it is due
(`NoResponse` and `Break` with `quiet = Timeout`). No answer, no line and no byte
from upstream is fair, the late line included. `Health` has fair ticks and threads; its `Tick` waits
for a thread that has spent `Slow` ticks inside `get`, `set` or `all`, which is the
assumption that scheduling and one SQLite read take a bounded time. `Startup`
assumes in addition that somebody starts a container again that has ended: the
repository's `docker-compose.yml` has no restart policy, so this is the operator.
`ComesUp` also rests on `MaxFaults`, that is on faults that cease.

`CHECK_DEADLOCK FALSE` stands where a run really ends: when the calls of `Failover`
or the requests of `Gateway` are over, and at the bounds of `Startup`.

`Tick` of `Admission` does not let the clock get two windows ahead of a request
between its clock read and its slot (`InTime`): the wait in between is at most
`busy_timeout`, 10 s of a 60 s window. `WindowIsRecent` is what follows from it, and
without it (`WaitsForEver`) `ClockMinuteLimit` fails.

Months compare as their order, not as (year, month): `_maybe_reset_period` uses
`!=` and so does the model; that the date never goes back is an assumption on
the clock (`ClockAssumption`).

## 4. What is proved

For every set of keys, threads, workers, texts and providers, all limits, costs,
timeouts and clocks:

* `LedgerProofs`: `TypeCorrect`, `RpmIsKept`, `BudgetOverrunIsBounded`,
  `SpendIsMonotoneInAMonth`, for any positive bound on the requests in progress
  (`ConcurrencyAssumption`, which the two implementations discharge). `OverrunBound` is inductive as it is, because it
  reserves one `MaxCost` for every open request: an admission uses up the
  reserve that its later charge needs. A plain `spent < Budget + n * MaxCost`
  would not be.
* `AdmissionProofs`: `TypeCorrect`, `Invariance`, `LockIsDisciplined`,
  `ReadsStayFresh`, `WindowLimitIsKept`, `ClockMinuteIsLimited`, `HardStopHolds`.
  The inductive invariant `IInv` is `TypeOK`, `LockDiscipline`, `FreshRead`,
  `WindowIsRecent`, `WindowLimit` and `PassedFromWindows`. The argument: only the
  holder of the lock is inside a transaction (`LockStep`), so no other thread's
  step changes what it has read (`HolderSeesNoChange`), so what it decides on is
  what is stored (`FreshReadStep`), so a slot is given only below the limit
  (`GrantCounts`, `WindowLimitStep`). `PassedFromWindows` says where the slots of
  a minute come from, and needs `WindowIsRecent`: a slot given in a minute is
  charged to that minute or to the one before.
* `AdmissionProofs`, the refinement: `AdmissionImplementsLedger`. A thread holds what
  it has read under the lock until it writes, so the whole transaction can be put at
  the moment of its write; `open` is the number of threads that have passed the budget
  and not been charged (`Open`), and every crash or rollback lowers it by an `Abandon`.
  `Dated` adds that the month of a decision and the stored month are not ahead of
  the clock. Through an instance of `LedgerProofs` the threads then have its bounds,
  `OverrunBound` and `SpendFallsOnlyWithMonth`: `ThreadsOverrunIsBounded`,
  `ThreadsKeepTheMonth`.
* `FailoverProofs`: `TriedInOrder`, `FailureIsLastResort`, `FallbackFlagIsHonest`,
  `RefusalIsFinal`, and `FailoverImplementsDelivery`, the refinement, which gives the
  text of an answer one candidate and one attempt. The
  invariant counts the calls to the current candidate (`Counted`), ties what the
  caller has seen to the running attempt (`Seen`), and says that a refused
  candidate is never the current one of a blocking call (`Refusals`). For the
  composition with the HTTP exchange: `AdapterImplementsFailover` (every step of the
  adapter is a step of `Failover` or none) and with it `AdapterKeepsPromises`, that is
  all of the above; `ExchangeInvariance`, `WaitsAreBounded`, `AdapterTypeCorrect`.
  `WaitBound` is the strengthening that carries `WaitIsBounded`: as long as the server
  has not dripped since the last line, the wait is the quiet time before the headers,
  within `elapsed` while lines are accepted, and within one timeout plus the quiet
  time after that. About a server that drips nothing is claimed.
* `GatewayProofs`: `TypeCorrect`, `Invariance`, `OneRowIsLogged`, `LoggedCostWasCharged`,
  `RejectionsAreFree`, `AnswersAreAccounted`, `SpendIsLogged`, `GatewayImplementsLedger`,
  `HandlerKeepsLimits`, `HandlerKeepsTheMonth`. The invariant `IInv` says for every
  place of a request what it has been admitted to, charged and written (`InOrder`), and
  how row, charge and answer fit when it is over (`RowInOrder`). Tenants are apart because
  every entry belongs to a request of its own tenant that was charged in full and
  will change no more (`EntriesArePaid`), and a hit keeps that fact (`HitInOrder`) even
  when its entry expires. `SpendIsLogged` needs a sum that is right at every
  step and not only at the end: in its first month the spend of a key is the sum of
  what its requests have been charged (`ChargesAddUp`); when all is over and nothing
  has failed, each of these charges is in a row. This uses that the reset of the
  month never reaches back (`PeriodIsPast`). The refinement takes `open` to be the
  number of requests between the budget check and the charge.
* `HealthProofs`: `TypeCorrect`, `Invariance`, `StalenessIsBounded`. The invariant
  follows a row from the SELECT to the answer: at most one delay old in the hands
  of a thread (`InHand`), two in a cache that is not yet stamped (`Unstamped`),
  its age and two delays while the cache counts as fresh (`Unexpired`), and the ttl
  and three delays when it is answered (`AboutToAnswer`).
* `StartupProofs`: `TypeCorrect`, `SeedingIsHarmless`, `Invariance`,
  `ServingIsComplete`, `RacesAreBounded`. The seeds a worker has passed are in the
  table (`Passed`); a key that has ended a start is in the table and nobody is
  about to insert it (`RacedIsSeeded`), since a collision takes all workers down.
* `AnsweringProofs`: `TrivialStaysFast`, `HardIsSmart`, `LengthIsCapped`,
  `LengthDecidesWithClauses`, and `AutoDefeatsTraps`, which carries the first two
  to the requests of `Answering` through the invariant that a waiting request has
  the plan its body resolves to. About the table: `LoopFindsFirst`, the loop of
  `lookup` against its definition (the first of the rows that are nearest to the text,
  in any table), which rests on `Nearer` being a strict order and a cosine being at most
  one, shown for integer vectors by the inequality of Cauchy and Schwarz (`DotFacts`);
  `AnswersAreStable`, from it; `CopiesAreFew`, whose invariant
  `RoomForAskers` reserves a place for the store of every request that waits for an
  equal text: a request waits only if its lookup found no copy, and after that
  copies appear only in the places that were reserved; `TypeCorrect`.
* `Sums` has to do without the induction theorems of the library, which take an
  operator as a parameter. Finite sets and naturals are well founded, so a
  statement that fails for some subset fails for a minimal one (`Smallest`), and the
  step below it gives the contradiction; `LoopFindsFirst` goes through the rows in the
  same way.

The assumptions are those stated in the modules: limits and budgets are natural
numbers, months do not go back, the threads are finitely many, there is a
candidate and an attempt, ttl and delays are natural numbers, an alias has a
primary model.

Only model-checked: liveness (`RequestEnds`, `Terminates`, `Converges`,
`OutageIsObeyed`, `ComesUp`), which rests on fairness and so on ENABLED, and that is out
of the prover's reach. Every invariant, step property and refinement that a passing
run checks is also a theorem.

## 5. Where code and documentation differ

* `CurrentMinuteLimit` (run `admission_clock_minute`). `window_start` is computed
  before the lock is awaited (`auth.py` 109-111), so a request that waits over
  the boundary takes a slot of the minute that is over. Up to twice the limit
  passes in one minute of the clock, and no more (`ClockMinuteIsLimited`).
* `OneRequestOvershoot` (run `admission_overshoot`). The README of the gateway
  (255-256) speaks of "the one request that crosses the line". Nothing is
  reserved at admission, so each request in progress may still add its cost; the
  bound that does hold is `OverrunBound`.
* `NoCallAfterRefusalInStreams` (run `failover_stream_refusal`). README 126-128
  restricts retries to retryable errors; `run_stream_with_failover` (140) repeats
  every error that comes before the first piece.
* `MidStreamFailureSurfaces` (run `stream_truncated`). README 129-131 says that a
  failure after the first token is surfaced as an error event. The adapter ends
  normally when the lines end without `[DONE]`, and swallows an error object
  because it has no `choices` (`openrouter.py` 119-125): the client is told
  `[DONE]`, is charged, and the truncated text is cached.
* `FastTierOnly` (run `answering_tier`). README 321 gives team-beta the "fast tier
  only"; its key lists `auto`, the allowlist is compared with the requested name
  only, and `resolve_auto` chooses gpt-4o for every prompt that is not easy.

Noticed while modelling, without a run of their own:

* An allowed name that does not resolve is answered 400 after it took a slot,
  without a row (`chat.py` 93-94); README 216 says that every request is logged.
* An exception of `requests` inside `iter_lines` (`openrouter.py` 108) is no
  `ProviderError`: the stream stops without an error event and without a row
  (`Break`, `Escape`, `Raises`).
* No timeout of the adapter is about a whole call. A server that sends bytes without
  completing a response or a line starts the timeout of `requests` again with each
  of them and never gets to the check of line 109, so `requests.post`
  (`openrouter.py` 62, 91), `resp.text` (104) and `iter_lines` (108) wait as long as it
  drips, although the errors say "timed out after {timeout}s" (69, 99) and "timed out
  mid-stream" (110). `WaitIsBounded` and `Terminates` make exactly this exception.
* `resp.text` of a refused stream (104) is read outside the `try`: when it fails, the
  refusal is not reported as a `ProviderError` and nothing is retried (`Break`).
* README 144 says that the length can never dominate the score, and `difficulty.py`
  15-16 that a list to be copied is not pushed to "smart" on length alone; with
  numbered clauses it is, from 40 words on (`LengthDecidesWithClauses`).
* `mock.py` 18 says that the ttl of a second bounds the staleness after a toggle;
  the delays of the refresh come on top (`BoundedStaleness`), because the rows are
  read before the time stamp is taken and a slow refresh may replace a newer one.
* The first start of four workers may end in an `IntegrityError` (`seed.py` 16-25),
  at most once for each key.
* `router.py` 8 says that a concrete model gets a single attempt, and it gets
  `max_attempts`; README 193 promises `X-RateLimit-*` on every response, and
  streams, errors and most rejections have none; a client that closes a stream at
  `[DONE]` has the answer, and nothing is charged, cached or logged (`chat.py`
  197-219); a cached answer is given whatever model was asked for; a text of
  stopwords is stored with every request and never found; without `ADMIN_API_KEY`
  every worker draws its own key; the jitter of the backoff may exceed
  `max_backoff`; usage totals are of all time while the spend is of the month.

## 6. What is not modelled, and why

Floating-point arithmetic: costs are integers in the smallest unit, and the price
of a request is any of them, because rounding is all there is to `compute_cost_usd`.
Similarities and scores are compared exactly; the code's sums differ from them by
rounding, which matters where two similarities are equal, or where a score is
exactly at the threshold although at least three hard and three easy patterns
cancel out. Patterns are words: overlapping matches of two patterns and the anchors
of a few easy ones are left out. `HasClauses` is false in the run and general in the
theorems. HTTP, headers, bodies and log lines: no property is about them. Disk loss
and clock steps backwards: the code has nothing for them. The end of the container in
`Startup` is one step (`Halt`), though other workers may finish a statement first. `init_db(reset=True)`:
called by tests only. The mock's texts and token counts, usage reports, `/healthz`,
`/admin/keys` and the console: they read or compute and change nothing. The admin
key: a constant of each process. Scripts and tests: not part of the running system.

## 7. Plan

Done: every component that keeps state, its composition with those it calls, and
proofs of every safety property of the runs. Left, most important first:

1. Safety facts that carry the liveness: the lock of `Admission` is held only by a
   thread that can move, a thread of `Health` can always finish its refresh.
2. `Gateway` takes an upstream call as one outcome; that `Delivery` gives exactly
   these outcomes is not stated.
3. The price as exact rational arithmetic with its rounding to eight digits, if
   a statement about it is worth a run.
4. A run of `Answering` over texts with clauses.
