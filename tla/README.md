# EventShock Lab in TLA+

EventShock Lab runs paired market experiments. An event pack is written, reviewed and frozen; language
models or rules turn it into belief signals; for each seed a deterministic market is simulated twice,
without and with an intervention; the pairs are aggregated into a result that can be inspected,
interpreted by a model and exported. The backend is one Python process (FastAPI, SQLite), the frontend a
client of its API.

This directory holds TLA+ specifications of the parts of the backend that are hard to get right and hard
to test, TLC configurations that check them on small instances, and TLAPS proofs of what matters most.
`PROJECT.json` lists the runs, the mutants that show that each property can fail, the source lines of
every definition, the findings, the hazards and the theorems.

1. [The system](#1-the-system)
2. [The modules](#2-the-modules)
3. [The runs](#3-the-runs)
4. [What the code does not keep](#4-what-the-code-does-not-keep)
5. [The proofs](#5-the-proofs)
6. [What is only model-checked](#6-what-is-only-model-checked)
7. [What is not modelled](#7-what-is-not-modelled)
8. [The plan](#8-the-plan)

Paths are relative to `src/`; `service.py`, `database.py` and so on are in `src/backend/app/`.

## 1. The system

### How it runs

HTTP handlers are coroutines. Those of the services call synchronous code and do not await in between, so
the event loop runs one handler at a time, from its start to its answer. The exceptions await a model
provider, a mail server or, for a study, a thread of the pool, and many of these are alive at once.
Beside the loop runs one simulation thread (`ThreadPoolExecutor(max_workers=1)`), which takes one
experiment after the other. The two meet in the database, where each call is a transaction of its own, and
in `ExperimentService.futures`, under a lock. Within a run the market simulation is sequential: one event
after the other, from a priority queue. The process may die at any time; `Database.initialize` recovers
the rows of interrupted experiments at the next start. The command that prepares the guided path is a
second process on the same database.

### The inventory

| Component | State | Operations | Meets | Hard because | Correct when |
|---|---|---|---|---|---|
| Experiment service (`service.py`, `database.py`) | experiment rows, checkpoint and pair rows, futures, the thread's locals | create, start, cancel, invalidate, run, resume, fail, retention, recovery | simulation thread, account deletion, retention | two threads of control, four separate transactions per pair, crashes, retries, late cancels | a result is what an uninterrupted run gives, pairs and checkpoint agree, one run per experiment, nothing is lost |
| Cognition phase (`service.py`) | the sequence of signals, progress, the rule request | prepare, continue with rules, retry, cancel | model calls, the row's handlers | a handler writes back what it read; restarts between rounds | the signals are what the result says, and frozen for all pairs |
| Model calls (`cognition/service.py`, `cache.py`, gateways) | reservations, spend, cache, telemetry | reserve, attempt, retry, repair, fall back | provider, cache, experiment | parallel calls on one budget, answers that cost an unknown amount | budget kept, answers replayable, every call counted once |
| Gateways (`cognition/zhipu.py`, `provider_gateways.py`) | the counters of a call, the receipt of a turn | post, retry, classify, repair, conclude, tell | providers, cognition service | errors that were billed, five ways to count tokens, two calls for one question | what is told is what went over the wire |
| Provider streams (`cognition/streaming.py`) | line buffer, event, accumulator | read, assemble, accumulate | gateways | bytes cut anywhere, five dialects | an answer is whole or refused |
| Result interpretation single flight (`single_flight.py`) | active flights, kept outcomes, a lock per account | execute, cleanup, purge, logout | provider calls, disconnecting clients | coroutines that resume in any order, callbacks after the state has moved on, tables with bounds | one paid call at a time, none paid twice, the answer belongs to the request |
| Conversations about a result (`main.py`, `database.py`) | exchanges, recent outcomes | ask, save, delete, retain | single flight, other servers | a paid answer meets a deletion or another exchange | what is told saved is saved, what is deleted stays deleted, threads do not fork |
| Limit order book (`simulation/order_book.py`) | price levels with queues, index of orders | submit, match, rest, expire, cancel | market kernel | three views of one order | price-time priority, never crossed |
| Portfolio ledger (`simulation/ledger.py`) | cash, positions, reservations, borrow pool, margin | evaluate and reserve, release, settle, audit | market kernel | rounding, partial fills, shorts, covering | conservation, no overdraft, reservations match orders |
| Market kernel (`simulation/engine.py`) | book, ledger, queue, prices, agents | order arrivals, system flow, quotes, halts | book, ledger, event queue, information network | book and ledger are updated one after the other, errors end the run | book and ledger agree |
| Event loop and queue (`simulation/engine.py`, `event_queue.py`) | heap, cancelled ids, clock, intents, halts | schedule, cancel, take; activate, arrive, halt, capture | market kernel | lazy cancellation, latency across halts | total order, monotone clock, nothing left out |
| Agents (`simulation/agents.py`, `agent_protocol.py`) | position, order under way, order at rest, signals | form an intent by rule or signal, send, trade | event loop, book | orders sized for a position that has changed when they arrive | limits are kept, a signal moves towards its target |
| Information network (`information/`) | graph, offers, receipts | propagate, deliver | event loop | order of deliveries | nobody knows before it was told |
| LLM credentials (`cognition/config_store.py`, `persistent_credentials.py`) | session and administrator credentials, expiry | save, select, renew, revoke | logout, running calls | expiry and revocation while in use | a dead key is not used and not revived |
| Authentication (`auth/`, `main.py`) | users, challenges, sessions | register, verify, log in, reset, log out | rate limiter, mailer | late mails, attempts, resends, requests that outlive a session | access is by present credentials |
| Rate limiter (`rate_limit.py`) | buckets in memory and in SQLite | check | all routes | several rules charged together, eviction, store failures | limits kept, refusals free |
| Event pack factory (`event_pack_factory/`) | builds, sources, idempotency rows | paste, search, read, review, materialize | providers, restart | requests that fail or are repeated after they were paid | reviewed text is packed, a request has its effect once |
| Event packs and scenarios (`service.py`) | drafts, claims, reviews, frozen versions | draft, extract, review, freeze | experiments, guided workflow | extraction during a review or a freeze | what is frozen was reviewed and stays |
| Guided workflow (`guided_workflow/`) | version, turns, recoveries, stage, draft | turn, recover, propose, link, advance | packs, scenarios, builds, model calls | optimistic versions, unknown billing, artifacts that change between stages | no version is billed twice unasked, stages stay true |
| Prepared path (`prepared_guided_path*.py`) | assets under fixed ids, grants | prepare, reset | experiments, interpretation, guided workflow | a second process, repeated and interrupted | nothing is paid twice |
| Studies and statistics (`study/`, `validation/statistics.py`) | one lock, stored studies | run, store, answer | accounts, kernel | failures between save and audit, exact statistics | a study that was answered is stored; the textbook numbers |
| Validation ladder (`validation/ladder.py`) | levels, evidence | register, invalidate, set status | export | evidence that goes away later | no claim without evidence |
| Audit chain (`database.py`, `privacy.py`) | events, packs and drafts saved with them | append, save, claim, delete, retain, verify | every handler, the simulation thread, commands | two statements under a lock of one process, rows that go away | every chain verifies, every stored pack has its event |
| Deployment (`scripts/register-baota-site.py`) | files, firewall rules, services | register, undo | panel, ufw, Nginx | any step fails, undoing fails, kills | the server is never exposed, a later run succeeds |
| Analytics, governance, export, content checks, prompts, HTTP wiring, frontend | text, numbers, evidence | read, compute, send | | | see section 7 |

In the main flow the web client calls a handler of `main.py`; it claims the row of an experiment and
submits a work item; the thread restores the checkpoint or starts afresh, asks the cognition service for
signals once, freezes them in the first checkpoint, and simulates the arms of each pair with the kernel,
which drives the book and the ledger; each pair is saved, then recorded; the aggregate is published in the
row. The interpretation of a result is a later request, through the single flight. Deletion, retention and
cancels reach into all of this from the side.

## 2. The modules

```
ResultRegister <-refines- ExperimentLifecycle      PriorityBook <-refines- OrderBook
Agenda         <-refines- EventQueue               PriorityBook, Ledger <-extends- MarketKernel
Propagation    <-extends- EngineLoop -uses-> Agenda    EventPacks <-extends- GuidedStages
Filters        <-extends- RateLimiter, Propagation, Studies, Interpretations

MCExperimentLifecycle   ExperimentLifecycle
MCOperations            SingleFlight, SiteRegistration, Studies, PairedStatistics,
                        ValidationLadder, AuditChain
MCSimulation            EngineLoop, OrderBook, EventQueue, AgentIntents, CognitionPhase
MCAccounting            MarketKernel, ModelCalls, GatewayCalls, ProviderStream, PreparedPath
MCServices              Accounts, Credentials, RateLimiter, EventPackFactory
MCGuided                GuidedTurns, GuidedStages, Interpretations
MCLiveness              ExperimentLifecycle, SingleFlight, ModelCalls
```

An MC module puts several components beside each other that share no state. A variable `part`, chosen in
the initial state, says which of them takes the steps of a behaviour; the others stand still in their
initial state. So a run explores the sum of the components' state spaces and not their product, and an
invariant of one holds in the behaviours of the others trivially. **Filters** has the subsequence of a
sequence that keeps the elements of a set, as a recursive function, since nothing can be proved about the
library's `SelectSeq`.

### Experiments

**ExperimentLifecycle** is `ExperimentService`, its thread, the tables it writes, account deletion and the
restart. `row[e]` is the experiment's row; `pairRows[e]` its stored pairs; `queue` the executor's queue;
`registered` the keys of `futures`; `worker` the thread's program counter and locals; `handler` the one
coroutine that is between a read and a write; `accepting` is FALSE between the shutdown of the lifespan
and the next process; `overwritten` is a history variable: the rows whose settled status a late cancel has
replaced. A database call is one step. Between two calls of the thread a handler may act, and between a
handler's read and write the thread may act; a handler whose calls the thread cannot disturb is one step
(the comment on each action says why). `Load`, `Resume`, `Fresh`, `PrepareSignals`, the three polls,
`SavePair`, `RecordPair`, `Aggregate`, `LoadRepresentative`, `Publish` follow `_runExperiment` from top to
bottom; `FinishCancelled`, `FinishFailed`, `CloseRun`, `RemoveFuture` are its ways out. `Raise` is an
exception that nobody expects (a locked database), at any step, `MaxFaults` times. `Restart` kills the
process at any point, loses everything in memory and runs the recovery of `Database.initialize`. A set of
frozen signals is a member of `Cognitions`, a pair is the signals it was simulated under, and `StopAt[c]`
says after how many pairs the stopping rule triggers: this is what deterministic replay leaves of the
simulation. **ResultRegister** is what the service promises: a register for each experiment, written at
most once, with the result of an uninterrupted run, and erased when the row is deleted.

**CognitionPhase** is what happens before the first pair of a hybrid experiment: representatives are asked
round by round, a pilot market is rerun after each, the sequence is frozen. A continuation request reads
the row and writes it back while the worker records its progress. A call ends with a model's decision, a
rule's fallback, an expected or an unexpected error.

**ModelCalls** is `CognitionService._execute` with its gateway, the budget of one experiment, the decision
cache of one user and the telemetry; every attempt is an await. Money is counted in units, the answer's
real cost (`billed`) is known to the provider alone. **GatewayCalls** is one such call from the workflow to
the wire and back: the request that is built, posts and retries, the classification of errors and answers
in the dialect of each provider, usage as each counts it, one repair, and what beliefs, claims, guided
turns and interpretations (a plan and an answer) tell of it. `wire` is what went over the network, which
the program knows through the responses alone. `ModelCalls` takes the outcome of an attempt as an input
and has what calls share; `GatewayCalls` has how the outcome comes about. **ProviderStream** is the streamed answer of five
dialects (chat completions, OpenAI responses, Anthropic, Google and its older format): bytes arrive in
chunks cut anywhere and may end anywhere. Its lines and bytes are recursive functions, so that it can be
reasoned about.

**SingleFlight** is `ResultInterpretationSingleFlight`, complete. A step is what a coroutine does from one
await to the next. `charged` is a history variable: the keys whose repeat must not be paid again. A lock
is named after the task for which it was made, so that a lock that is dropped and made again is a
different lock. **Interpretations** is what goes through it: the saved conversations, on one or two server
processes that share the database. The JSON endpoint looks for a deletion of the conversation and enters
the single flight without an await in between (`AskFor`). The stream looks for it before the response begins
(`OpenStream`) and enters after its first frame (`EnterStream`), or not at all (`LeaveStream`); a deletion,
another request, a restart or an invalidation may come in between (`opened`).

### The market

**PriorityBook** is the abstract book: a set of open orders, of which the incoming order trades with the
best, by price and then arrival. **OrderBook** is `LimitOrderBook`: two dictionaries of queues and an
index. It refines `PriorityBook` with `open <- index`; ids are the book's sequence numbers. A step of the
matching loop is a step of the model. **Ledger** is `PortfolioLedger` for one instrument, as operators on
a ledger record, in integer cents with the code's rounding: notional half up, fee and margin up, the
allocated basis down. The binary searches are over a monotone predicate, so `Largest` takes the maximum
instead of searching. **MarketKernel** has the order handlers of `engine.py` on both: an intent arrives,
the system trades, a maker withdraws its quotes and sets new ones, a report is settled trade by trade. An
error sets `failure` and ends the run. The kernel starts when the opening liquidity has been withdrawn
(step 0, `engine.py:1537`). An agent's decision is any order on the grid. **AgentIntents** is where such
decisions come from: one agent whose rule or signal becomes an intent with side, size and price, which
flies, is approved by the ledger for the position it meets, replaces what rests, trades and rests. The
market around it shows any top of the book and fills any part. A strategy's score is abstracted to its
sign, drawn sizes to any size.

**Agenda** is what the event queue promises: a set of pending events, taken by time, priority and order of
scheduling. **EventQueue** is the heap with its lazily cancelled entries. **Propagation** is the spread of
one claim over any network; **EngineLoop** extends it with the loop of `runScenario`: phases of a step,
orders in flight with their latency, halts and resumptions, deliveries, metrics, cancellation. Prices are
abstracted to whether they moved past the threshold. Step numbers are scaled down: shock, fact and
clarification come at steps 1, 1 and 2 of four, since only their order and their distance to the end
matter.

### Services

**Accounts**, **Credentials**, **RateLimiter** and **EventPackFactory** are the state machines of their
components; each says in its head what a step is. In `Accounts` a request is authenticated by the
middleware in one step and handled in another, which is where a session ends in between. In `Credentials`
a provider call takes the key when it starts and renews it when it succeeds. The limiter's lock makes a
check one step. In the Factory the transactions after a provider's answer are separate steps only where
one can fail or the process can stop.

**EventPacks** has packs and scenarios; **GuidedStages** extends it with the stages of a guided workflow,
in which packs, scenarios and builds change and go between two stages, also for the prepared workflow,
whose environment stands still; **GuidedTurns** has the turns of one workflow and how an uncertain one is
recovered. **PreparedPath** is the command that prepares a path, with every transaction, crash and
repetition, beside a server and its user. **Studies** is the request that runs a study, with its lock,
its thread and its two transactions; **PairedStatistics** the statistics of its analysis over exact
numbers, each beside its textbook definition; the samples are chosen in the initial state.
**ValidationLadder** is levels and evidence. **AuditChain** is the audit events of all accounts, with the
packs and drafts that are saved in one transaction with theirs: an event is inserted behind the head that
its thread has read, under the lock of its process; a digest is the tuple of what went into it. **SiteRegistration** is the deployment script with the panel,
the firewall and Nginx as external, and every step failing, the undoing included.

## 3. The runs

`tlc -config <cfg> <MC module>` runs one. Deadlock is checked in the `lifecycle_*` runs; in the others it
is not, because the bounded systems really stop: all callers are gone and the clock is at its bound, the
bounded number of orders or requests is used up, or an error has ended the run.

| Run | Properties | Instance |
|---|---|---|
| `lifecycle_safety` | `TypeOK`, `ResultsAreUninterrupted`, `PairsMatchCheckpoint`, `RunsRecoverable`, `OneRunPerExperiment`, `WorkIsKept`, `ImplementsRegister`, `SettledUnlessLateCancel` | two experiments of one owner, two pairs, signals that stop after the first or the second, one queue slot, two stored rows, one unexpected exception, restarts without bound |
| `operations` | `OperationsTypeOK`, `FlightsSound`, `NoSecondCharge`, `EvidenceIsKept`, `AnswersStand`, `StatisticsAgree`, `RegistrationIsSafe` | three request ids of one account, two contents, three callers and flights, room for two flights and one outcome, one tick; two networks, two failures, three starts of the script; two studies of up to three cells and two seeds, room for one; families of four p-values in fifths, comparisons of four seeds, designs of three cells; three levels and two pieces of evidence; two accounts with one pack, two threads of one process, three audit events |
| `simulation` | `SimulationTypeOK`, `AgentsActSoundly`, `RunIsOrderly`, `RunAndPhaseEnd`, `BookSound`, `ImplementsPriorityBook`, `ImplementsAgenda` | every network of three links, four steps of two milliseconds, latencies 0 to 2; four orders, two prices, quantities 1 and 2; three events at three times; two representatives in three rounds, budgets for no, one, one and a half and nearly three rounds; an agent of five types with a limit of eight, four tops of the book, eight beliefs, two activations, two intents under way |
| `accounting` | `AccountingTypeOK`, `BookAndLedgerAgree`, `LedgerSound`, `CallsAccounted`, `StreamsAndPathAreSound` | a trader, a maker of two levels and the system flow, six orders, of which three are no quotes, a grid of two ticks, one share to borrow; two calls, two keys, room for one, a budget for one call and half of another; streams of at most 34 bytes and three pieces of text in chunks of five; one request of any workflow to any of five providers, two attempts a post, any error, answer and flaw of its usage; two keys, two routes, two commands, one restart |
| `services` | `ServicesTypeOK`, `AccessIsEarned`, `KeysExpire`, `LimitsHold`, `ReviewDecides`, `RequestsSettleOnce` | one address with three codes, two sessions and one late request; two logins, one of an administrator, two master keys; room for two buckets, three ticks; two sources, one request of each kind with two handlers, three revisions |
| `guided` | `GuidedTypeOK`, `WorkflowStands`, `DecisionsStand`, `HistoryIsSound` | three requests and two decisions over three versions; two packs and scenarios, one of each from the library, one build, two claims; one conversation, three calls, two days, one server or two, one stream about to enter where one server runs |
| `liveness` | `RunsSettle`, `FlightsLand`, `CallsEnd` | two experiments with one pair; two accounts, two callers and flights; two calls of one attempt and its repair; under `ServerSpec` |
| `lifecycle_settled`, `factory_search`, `interpretation_delete`, `prepared_scenario`, `audit_fork` | a violation each, see section 4 | the smallest instance that has it |

### Why the bounds are enough

*Lifecycle.* The interesting cases need a pair that is recorded and a pair that is not, a stopping rule
that has triggered and one that has not, a second experiment that competes for the one slot, the one
thread and the retention limits, and one exception; a second exception only repeats the retry.
Experiments of one owner are interchangeable, which the symmetry uses.

*Single flight.* Every hazard of the module is a race of at most three flights: an old one whose cleanup
is late, a new one of the same key, and one of another key of the account that holds or waits for the
lock. Three callers are the one that repeats, the one that disconnects and the one that stays.

*Book and kernel.* Four orders are two in one queue, one on the other side, and one that takes several of
them. The cash, 2 to 4 cents against prices of a quarter of a cent (`PriceScale` 400), and the fee of a
tenth make every rounding a real one: purchases are cut to what the account affords, and an order approved
in one piece can be refused when it fills in parts. With one borrowable share a sale can be part long,
part short and part refused. Short positions, refusals and crossings of zero were shown reachable by
looking for their absence. Six orders with three that are no quotes (`MaxIntents`) are a full refresh of a
maker with two levels and the orders that use two of its quotes before it refreshes again.

*Calls and streams.* Two calls are enough for a reservation that meets another; a budget of three half
reservations is the one at which the second call is refused or cut. One entry in the cache makes conflicts
and overflow. 34 bytes hold the shortest complete answer of every dialect with each kind of line end, and
a chunk of five bytes ends inside every delimiter.

One post that fails twice and its repair that fails once
pass through every branch of the gateways, and two counts, one with cached input and one with thoughts,
tell the five dialects apart. Two activations are an intent under way when the next is formed, which is
where sizes go stale; a limit of eight leaves room for a quarter of a position that is not one share.

*Conversations.* A stream that opened before a deletion, a kept outcome and the deletion are two requests
and a conversation. A stream between its checks and the flight concerns the tables of its own server only,
so the instance with two servers leaves it out (`StreamBound`), and the requests are interchangeable.

*Services and workflow.* One address with three codes has a code that is used, one that is superseded and
one that is late. Two ticks of a clock are before, at and after each deadline. Two sources are one that
is reviewed and one that is not. Three versions are one that is claimed, its successor, and a stale page.
Where a counter is capped by a bound (`MaxRevision`, `MaxVersion`, `MaxDay`, `MaxChallenges`), the guard
names it and nothing else depends on it.

The theorems of section 5 hold for every value of these constants.

### What the properties say

*Experiments.* `ResultsAreUninterrupted`: whatever crashed, was cancelled and retried, a published result
has exactly the pairs of an uninterrupted run under one set of signals. `PairsMatchCheckpoint`: the pair
table and the checkpoint, written by two transactions, agree between any two steps, up to the pair that is
saved and not yet recorded. `RunsRecoverable`: a row that says queued or running has a work item
(`NoLostRun`), and what a retryable experiment completed is covered by a checkpoint (`RetryCanResume`).
`WorkIsKept`: retention and quotas do not delete the row that is being written, and recorded progress only
grows. `SettledUnlessLateCancel` names every way out of a settled status. `RunsSettle`: a claimed
experiment comes to an end, across a shutdown, and a cancel that a poll can still see stops it.
`SignalsAreHonest` (in `AgentsActSoundly`): the signals of a sequence are within the budget, made with
those before them, none is begun after the user asked to stop, and the mode the result names is the one
it was made in; `PhaseEnds` (in `RunAndPhaseEnd`).

*Paid calls.* `FlightsSound`: the account's lock is dropped and made again, and there is still one call at
a time and no lock without a flight; a late cleanup never hands out the outcome of another call.
`NoSecondCharge`: within its window a call is not paid again. `CallsAccounted`: settled and reserved money
stay within the budget under every interleaving, what an experiment used can be replayed from the cache,
and the totals are those of its calls. `StreamIsWhole`: wherever the network cuts the bytes an answer is
whole or refused. `GatewayStep`: a call tells the requests, unknown bills and tokens that went over its
wire, nothing is sent again without a reason, a guided turn has its dispatch on record first, and an
answer that is given out was whole, paid and valid. `HistoryIsSound`: a client that is told its exchange is
saved finds it, a deleted conversation does not come back, threads do not fork. One case is excepted, by a
predicate that has exactly it, `ToldPastDeletion`: see the conversations in section 4.

*Market.* `BookSound`, `ImplementsPriorityBook`: the three views of an order agree and trades follow
price-time priority. `BookAndLedgerAgree`: an order has a reservation exactly as long as it can still be
filled or settled, for what can still be filled. `LedgerSound`: the audit passes at every step, also
between the trades of one report and after a refusal. `OnlyKnownErrors` (in `AccountingTypeOK`): of the
seven errors the handlers can raise, only the refusal for want of cash and the off-grid bid happen.
`ImplementsAgenda`, `RunIsOrderly`: nothing is taken out of order or left out, every order arrives or
expires, every halt ends. `InformationIsCausal`: nobody hears a claim before its cause. `HoldingWithinLimit`, `IntentsBounded`,
`PricesProtected` (in `AgentsActSoundly`): whatever fills, a position stays within its limit with its rest
counted; an intent keeps to the limit and a signal's to its target and its share of the depth; prices are
on the grid and within the collar.

*Services and workflow.* `AccessIsEarned`, `KeysExpire`, `LimitsHold`, `ReviewDecides`,
`RequestsSettleOnce`, `WorkflowStands`, `DecisionsStand`, `EvidenceIsKept`, `AnswersStand`,
`StatisticsAgree`, `RegistrationIsSafe` and `PathStep` are stated above their definitions.

### Fairness

The simulation thread keeps running (a thread of the executor is never blocked for ever, the database has
a timeout); a handler that began finishes; a process that was shut down is replaced. The loop runs what is
ready (`ResumeCaller`, `StartCall`, `RunCleanup`), and a provider call ends, as the gateways' timeouts see
to (`EndCall`, `Proceed`). The event loop of a run and the phase before it are one thread's work
(`Looping`, `WorkerStep`). Weak fairness is enough: the lock serves its waiters in order. Nothing obliges
a user to act, a client to stay, or a fault to happen, and a crash loop can starve no property, since each
recovery settles the rows.

## 4. What the code does not keep

| Run | What happens |
|---|---|
| `lifecycle_settled` | `cancelExperiment` reads the status, returns early for settled ones and then writes without looking again: a run that completes in between goes from `COMPLETED` to `CANCEL_REQUESTED`, its result is no longer served, and the next restart makes it `FAILED_RETRYABLE`. |
| `factory_search` | A search whose outcome is unknown is sent to the paid provider again under the same request id, against the docstring of `claimIdempotency`. |
| `interpretation_delete` | A deletion that found nothing is told again, from the table of recent outcomes, after the conversation got its first exchange. |
| `prepared_scenario` | A preparation with another model writes over the frozen scenario and then stops at the used key: the path shows the old experiment with a scenario it was not run with. |
| `audit_fork` | The head of an audit chain is read before the insertion opens a transaction, and the lock is one process's. A command that appends an event of the account beside the server forks the chain, which is from then on reported as invalid. |

The models have more behaviours that a reader of the code would not expect. Some are named by a predicate
that no run checks: `BacklogWithinLimit` (`_removeFuture` pops the id whichever future it leads to, so
more runs than `MAX_QUEUED_EXPERIMENTS` can be active), `DeletedAccountLeavesNothing` (a run that outlives
its account inserts an audit event nothing removes), `PositionsWithinLimit` (a maker's asks make room for
bids, and only the bids fill), `HaltedStepsCounted` (the update that resumes trading still counts its step
as halted), `NoInternalError` (the eviction of several buckets in one check, `rate_limit.py:168`),
`OpenTurnsCanBeDecided` (no start of the process looks at the open turns, so one that a stop left
`PENDING` or `RESULT_READY` holds its version for good), `ContinuationOnlyWhilePreparing` (the handler
writes what it read before the sequence was frozen), `FailuresTellReceipt` (the failure record of a guided
turn says that no response was received when an answer was received, billed and refused: `service.py:700`
looks at the error's HTTP status, which such errors lack, and the page then shows "No usable model-provider
response", `guided-workflow-page.tsx:576`), `PassiveAddsLiquidity` (a passive limit order may cross where
one side of the book is empty, since the missing quote is invented beside the last price),
`LiquidationNeverShorts` (two forced sales sized for the same position open a short one). Others:

- *Experiments.* The cancel of a `FAILED_RETRYABLE` experiment is accepted although no run can see it. A
  continuation request during the last call is accepted but never seen. The command that prepares a path
  runs the recovery of `Database.initialize`, which marks the server's live run `SERVER_RESTARTED`; the
  run goes on (`misjudged`). A retry of the cognition phase has a fresh budget.
- *Paid calls.* A conflict or overflow of the cache ends even an elastic experiment. Answers that the
  service's own validator refuses stay in the cache (`cognition/service.py:545`). When both calls of an
  interpretation fail, the planner's attempts and uncertain bills are dropped,
  and so are the attempts of an answer that `_execute` itself refuses. The bound of 290 seconds that the
  comment at `service.py:1450` computes leaves out that a repair which is not streamed has timeouts per
  read alone.
- *Agents.* A signal to increase and one to reduce are treated alike, so that an increase with little
  confidence may sell. A rule's intent past the limit turns its side while its reason keeps the score's
  direction.
- *Conversations.* `resultInterpretationContext` looks for the deletion "before the single flight's cache,
  so that for a minute after a deletion it does not claim that the answer is still saved" (the comment at
  `main.py:3958`). The stream does not keep that: it looks at line 4037, yields a frame at 4084 and enters
  the flight at 4092, where a kept outcome is replayed unchecked. If the conversation is deleted in between,
  the client is told `historyPersisted` of an exchange that is gone. Without the exception
  `ToldPastDeletion`, TLC refutes `HistoryIsSound` on the instance of `guided` in eight states: a stream
  opens, the same request is asked and saved directly, the conversation is deleted, the stream enters.
  The retention of ninety days is enforced by saves alone; two servers may fork a
  conversation where one cannot.
- *Workflow.* Deleting a linked draft scenario at `SCENARIO_REVIEW` leaves a workflow that cannot go on, as
  does an authorized retry under an id that was used. Bulk approval compares claim ids only. An extraction
  writes over the reviews made while it waited. An excluded pending source blocks the guided review but
  not the pack. A build that is deleted while its pack is made leaves the pack to a client that got an
  error.
- *Kernel.* A maker's bid planned below the first tick of the grid is put at price 1, which the book
  refuses: the whole run fails (`engine.py:1567`; the model's failure "off the tick grid").
- *Prepared path.* After the conversation was deleted every preparation pays again and grants nothing;
  after a change of the model the used keys stop every preparation; the scenario's id is a global key, so
  a second account's preparation stops.
- *Ladder, studies.* `updateStatus` can take a lower level back while the upper one stays `PASS`
  (`ladder.py:126`). A study that ends after its owner's deletion is saved for the deleted owner. The
  preset "Disable the market-maker inventory constraint only" also replaces the preregistered parameter.
- *Deployment.* A kill inside `restoreFiles` leaves both default hosts, which every later run refuses;
  where restoring the old firewall rule fails the new one is still deleted.

## 5. The proofs

Eight modules, checked to the last leaf. They assume what the `ASSUME`s of the
modules say and TLC evaluates: bounds are naturals, positive where the code's settings are, sets of
accounts, orders, nodes and requests are finite, "none" values are not members of the sets they are beside,
and a few that speak of this code: `StopAt[c]` is between 1 and `MaxPairs`; a trader's opening position is
within its limit (`agents.py:134` gives at most 120 shares against limits from `agents.py:59`); a call is
attempted at most three times; a halt lasts at least a step; every node of the network has a place in the
order of their ids; no failure of a call is named like the reason for having none. One theorem has a
hypothesis of its own: `EvidenceHolds` and `ChainsStayValid` assume `OneProcess`, that all threads which
write audit events belong to the server, and the run `audit_fork` shows that this is needed.

| Module | Theorem | Property |
|---|---|---|
| `ExperimentLifecycleProofs` | `TypeCorrect`, `ResultsSound`, `CheckpointSound`, `SingleRun` | `TypeOK`, `ResultsAreUninterrupted`, `PairsMatchCheckpoint`, `OneRunPerExperiment` |
| | `RunsCanRecover`, `WorkStays`, `SettledStays` | `RunsRecoverable`, `WorkIsKept`, `SettledUnlessLateCancel` |
| | `ServiceImplementsRegister` | `ImplementsRegister` |
| `KernelProofs` | `KernelAgrees`, `LedgerStaysSound`, `KernelErrors` | `BookAndLedgerAgree`, `LedgerSound`, `OnlyKnownErrors` |
| `SimulationProofs` | `BookTypes`, `BookAgrees`, `BookKeepsPromise` | `TypeOK`, `BookSound`, `ImplementsPriorityBook` |
| | `QueueTypes`, `QueueKeepsAgenda` | `QueueTypeOK`, `ImplementsAgenda` |
| | `AgentIsTyped`, `AgentsKeepToLimits`, `PricesAreProtected` | `AgentTypeOK`, `HoldingWithinLimit` and `IntentsBounded`, `PricesProtected` |
| | `PhaseTypes`, `SignalsHold`, `SequenceStays` | `CognitionTypeOK`, `SignalsAreHonest`, `TapeIsFrozen` |
| | `EngineTypes`, `InformationFollowsCauses`, `RunsAreOrderly` | `EngineTypeOK`, `InformationIsCausal`, `RunIsOrderly` |
| | `SimulationTypes`, `AgentsAreSound` | `SimulationTypeOK`, `AgentsActSoundly` |
| `OperationsProofs` | `FlightTypes`, `FlightsAgree`, `PaidOnce` | `FlightTypeOK`, `FlightsSound`, `NoSecondCharge` |
| | `AuditTypesHold`, `PacksKeepHistory`, `ChainsStayValid` | `AuditTypeOK`, `PacksHaveHistory`, `ChainsVerify` |
| | `SiteTyped`, `RegistrationHolds` | `SiteTypeOK`, `RegistrationIsSafe` |
| | `ClaimsHold`, `InvalidationHolds` | `ClaimsRestOnEvidence`, `InvalidationReachesUp` |
| | `StudiesTyped`, `StudiesHold`, `AnswersHold` | `StudiesTypeOK`, `StudiesSound`, `AnsweredIsStored` |
| | `OperationsTypes`, `EvidenceHolds`, `AnswersStandFirm` | `OperationsTypeOK`, `EvidenceIsKept`, `AnswersStand` |
| `PaidCallProofs` | `CallTypes`, `CallsAgree` | `ModelTypeOK`, `CallsAccounted` |
| | `GatewayTypes`, `GatewayTellsTrue` | `GatewayTypeOK`, `GatewaySound` |
| | `PathTypes`, `PathIsSound` | `PreparedTypeOK`, `PathStep` |
| | `StreamsAreWhole` | `StreamTypeOK`, `StreamIsWhole` |
| | `AccountingTypes`, `StreamsAndPath` | `AccountingTypeOK`, `StreamsAndPathAreSound` |
| `ServicesProofs` | `KeysDie`, `AccessEarned` | `KeysExpire`, `AccessIsEarned` |
| | `FactoryTypes`, `ReviewedTextIsPacked`, `SettledOnce` | `FactoryTypeOK`, `ReviewDecides`, `RequestsSettleOnce` |
| | `LimiterTyped`, `QuotasHold` | `LimiterTypeOK`, `LimitsHold` |
| | `ServicesTypes` | `ServicesTypeOK` |
| `GuidedProofs` | `TurnTypes`, `TurnsAreAccounted`, `StagesHold`, `WorkflowHolds`, `DecisionsHold` | `WorkflowStands`, `DecisionsStand` |
| | `HistoryHolds`, `GuidedTypes` | `HistoryIsSound`, `GuidedTypeOK` |
| `SumProofs` | lemmas about `MapThenSumSet` | |

None of the properties is inductive. For each module there is an inductive invariant, first checked by TLC
as an invariant of a run, one lemma per action that shows that it is kept, and the theorems from it.

**Lifecycle.** That a publication is sound depends on what the thread has in memory, which depends on
what it read from the row, which depends on who may have written the row since. `IInv` is `TypeOK` and
`RowOK` (a row that is ready or gone is blank, a row with a result has no checkpoint and at least one
pair, and the pair table matches the checkpoint), `QueueOK` (a queued experiment is queued once, its row
is active or deleted, and the thread does not hold it), `HandlerOK` (what a start or a cancel between its
two steps may rely on) and `WorkerOK` (the thread's pairs are a prefix of the run under its signals, they
end where the stopping rule says, and the row's checkpoint is the one in memory, or one behind). The key
steps: retention never takes an active row, so the row the thread writes changes under it only by a status
or by its deletion; the restart drops the queue with the memory; and `Load` refuses recorded pairs without
a checkpoint, which is why a result is not written twice after a late cancel. The refinement splits the
steps into `Publish`, which writes one register, the deletions, and the rest. `RInv` adds what is owed
between two runs: no row without a coming run, a retryable row whose pairs are covered unless a late
cancel overwrote it, faults that are counted.

**Kernel.** `KernelInv` joins the types, the book, what the handler is doing, the incoming order, the
trades that are still to settle, the ledger and their agreement. That a settlement passes the audit needs
to know that its reservations are complete, that a short order borrows exactly what its account's position
lacks, and that nobody but a maker has two orders at once; that a trade finds its reservations at all
needs the agreement counted over the outstanding trades (`Held`). The audit's sums over reservations and
accounts are changed by one or two members in each step; `SumProofs` has what that does to
`MapThenSumSet`. The library's induction theorems cannot be used for it, since they take an operator; its
facts are proved by induction over a set of subsets (`SubsetInduction`), from the well-foundedness of the
strict subset. The proof found a fault of the model: a `CASE` whose guards overlapped left the ledger's
verdict open where the code returns the first that applies.

**Book.** `BookInv`: a level has the open orders of its side and price, in the order of their sequence
numbers; the order being matched is the last one and not in the index; no bid reaches an ask, also while
an order is matched. So the head of the best level is the first of `PriorityBook`'s order, and each step is
a step of it or a stutter.

**Queue.** `QueueInv`: entries are told apart by their number and their event, the numbers used so far are
finite, and what is cancelled was used. So the heap has one least entry among those that are not cancelled,
which is the agenda's next event, and taking it, with the cancelled ones before it, is one step of
`Agenda`.

**Event loop.** `SpreadInv`, of the information: a node that has the claim got it no later than any offer
that still waits, and each neighbour it forwards to has the claim by the time the link takes or is offered
it then. So an offer that is taken is the best its node will get, though not all offers are known.
`LoopInv`: the pending events are the events laid out at the start that come after the last one taken, and
one arrival for each order on its way; steps that are measured and steps that were halted are counted by
the events that are still to come; a trace is there exactly when its delivery has been taken, and
deliveries are laid out in the order of their receipts. The proof refuted an earlier form of
`HaltsResume`: a run that is cancelled while the market is halted keeps its halt, which TLC then showed
too; the property is now about runs that go on.

**Cognition phase.** `PhaseInv`: the calls that remain and those made before the round are the plan; within
a round the signals, the calls attempted and the index of the representative differ by one at most, as the
step says; signals of this round lie behind the others; and a call made after the user asked to stop is
the one that had passed its check.

**Agent.** Position and rest stay within the limit because the ledger's approval bounds an order by the room
there is when it arrives, with the agent's own rest gone. That an intent is bounded when it is formed goes
through the cases of `makeOrderIntent` (an intent past the limit is turned and cut to a quarter) and of
`translate` (the move towards the clamped target, cut to the share of the depth); the observation's own
checks always hold, so none ends the run. Prices are snapped towards the near side of a collar that was
snapped outwards, so a snapped price is inside it; the lemmas bound the remainders.

**Single flight and calls.** `FlightInv`: the table's flights are tasks, a task that waits or calls is the
table's or its cleanup is due, at most one task holds an account's lock and it is the first waiter's that
may, and what is charged is running or kept. `CallInv`: reservations are what running calls may still
cost, the settled money is the sum of what ended calls were charged, which is at least what they were
billed, the cache has what was used, and each total of the telemetry counts the calls in one stage, a sum
again.

**Conversations.** `HistoryInv`, for any servers: an answer that is said to be saved is in the table, or was
retired by a limit or deleted with its conversation; no row of a deleted conversation comes back; each
server's flights have one caller at their head. Where one server runs, what its caller asked still ends
the thread, which is what keeps a thread from forking. A kept outcome is on record *or* its conversation is
deleted, and nothing looks between `OpenStream` and `EnterStream`: that is why the theorem has the exception
and why it has no other.

**Prepared path.** `PathInv`: keys are tried in their order and one is left for the next when nothing can
come of it any more. So behind a key that can be used there is no other, before it nothing can still be
completed, and what is granted was interpreted. It holds until a start has declared a live run dead.

**Gateway.** `GatewayInv`: while a post runs, its counters and those of the posts before it are what went
over the wire; a repair follows a mendable answer and nothing else; a usage is the provider's count in each
of the five dialects, or is not trusted and its bill counts as unknown; a plan is a call of its own with its
own wire. The classification of the errors, a chain of nine conditions in one gateway and eight in the
others, is shown to call retryable only what passes by itself.

**Streams.** For every dialect, transcript, line end and layout, and any cuts, sizes of chunk and limits.
`StreamInv`: between two chunks the reader stands behind a whole line (`ReaderAt`), what is pending is the
rest of the bytes, and a refusal has its reason. A CR at the end of the bytes makes this delicate: it is
kept back until the next byte shows whether it is half of a line end. `ScanKeeps` is the scan of one
chunk: it takes the lines that end in it, in their order, and no others. `HasRead` is what the accumulator
has after so many events: their text and their usage, and the end that the dialect asks for only once
its last event is there. The recursions over lines and bytes are functions on numbers, and a lemma shows
that each has its values (`RecursionExists`), which the provers do not find themselves.

**Access.** `KeyInv`: an absolute end is fixed when a key is entered, and no sliding end passes it.
`AccountInv`: codes count their guesses, one code per address and purpose is in force, the hour's quota
holds over the finite set of codes, sessions are of the present password, the gate has its consent.

**Rate limiter.** `LimiterInv`: for every set of present times a key has at least as many counted requests
as were let through (`CountsCover`), in its bucket or in the table. Pruning drops what has left the window,
and a bucket is dropped with its history only when it is out of use or the key is unprotected; a check
charges all its rules or none.

**Factory.** `FactoryInv`: the build's status is computed from its sources at every revision; every
approval in force was made for the text that is there; idempotency rows, handlers that are under way and
the results recorded tell the same story, for finders (searches, readings) and materializations apart.

**Audit chain.** `AuditInv`, for any processes: events are made by the writers, the rows of a chain have
one owner, and what is stored has its event; a deletion takes what the account owns and so whole chains,
retention a chain when its newest event is old and so only events on which no row of the last days rests.
`LockInv`, for one process (`ChainsStayValid` assumes `Threads \subseteq ServerThreads`, which the run
`audit_fork` shows to be needed): one thread holds the lock, what it has read is still the head, and every
row names the hash of the one before it; so the walk of `verifyAuditChain`, which sees of each chain all
or nothing, finds it valid.

**Site registration.** `SiteInv`: at each step of the script which rules are there (untouched before its own
is added, its own from then on, those it found once it has undone what it did), that the files and the
snapshot can be started from, and that what is in the files is what Nginx serves. It holds at a kill
between any two steps, which is what the next run meets.

**Studies and ladder.** `StudiesInv`: the run that holds the lock is the only one, what a run has computed is
a prefix of its schedule, the newest of the table is the run that is being answered, and the limits of an
owner and of all are kept. `LadderInv`: a level that passed has verified evidence, and blockers are noted
of what is blocked.

**Guided workflow.** `TurnInv`: an outcome fits its version, a handler that waits still owns its turn or
has lost it for good, a cached proposal was billed, a recovery names the turn it decided, an abandoned
turn the one request that may replace it. `GuideInv`: what each stage asked of pack, build and scenario,
carried to the later stages: frozen packs are reviewed and immutable, so only drafts have to be carried
until they freeze. `WorkflowHolds` and `DecisionsHold` join both for the specification of the run.

**Compositions.** `SimulationSpec`, `OperationsSpec`, `AccountingSpec`, `ServicesSpec` and
`GuidedSpec` take one step of one
part and leave the others alone, so the conjunction of the parts' invariants is inductive: `PartsInv` in
`SimulationProofs`, and the like of the other modules. The theorems about what a run checks as a whole
follow from it.

## 6. What is only model-checked

- Liveness (`RunsSettle`, `FlightsLand`, `CallsEnd`, `RunAndPhaseEnd`) and everything with `ENABLED`:
  the prover has no rule for them.
- `StatisticsAgree`: what a recursive definition or a fold computes for every input, here binomial sums
  and minima over families of sets, needs an induction over data that the prover cannot instantiate.

The other 35 properties of the passing runs are theorems.

## 7. What is not modelled

- Of the experiment service: the `Idempotency-Key` (looked up and inserted in one transaction), the
  migration of old checkpoints, progress reports, wording.
- Of the kernel: the opening auction, the price process, sentiment, the values of metrics, traces. The kernel admits any order in any state, so whatever a rule asks for is one of them. Network
  deliveries are clipped to the last step (`engine.py:1168`), which the model has.
- Of the ledger: entry costs, realised profit, valuation, several instruments (the engine registers one).
- Of the book: `submitProtectedMarket` and `cancelAgentOrders`, compositions of the operations that are.
- Of the calls: payloads, headers, redaction; of an answer's text no more than which check refuses it.
- Of the agents: the numbers of a strategy's score, random draws, the generation of a population.
- Of the Factory: `addReaderSource`, which no route calls, the character limit, content checks, the
  fetching and parsing of pages.
- Analytics, prompts, evaluation, governance reports, exports, content checks, the HTTP routes and
  the frontend: numbers, text, input and output, without a protocol of their own. 
- Several servers, except where `Interpretations` and `PreparedPath` have them: the deployment starts one.

`PROJECT.json` says for each component what is left out.

## 8. The plan

What the runs check is proved but for section 6. Next is the model of the opening auction, whose result
the kernel takes as its initial state, and the entry costs and realised profit of the ledger.

Runs are merged rather than added: a run answers one question of one instance, and its properties are the
parts of the answer.
