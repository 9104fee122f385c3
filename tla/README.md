# The qualified trading runtime in TLA+

A verification project for the order lifecycle of this repository: the part
that opens, protects and closes positions on a futures exchange with real
requests, real timeouts and a process that may die at any point, together with
the evidence it acts on (account, private stream, market feed) and the lease
that says which process may act. The modules
are translated from `src/autonomous_futures/`; paths below are relative to it.

    tlc -workers 2 -config MCrestart.cfg MCTradeLifecycle.tla
    tlapm TradeLifecycleProofs.tla

## 1. Inventory

### The qualified runtime (the subject of the models)

| Component | State it keeps | Operations | What makes it correct |
| --- | --- | --- | --- |
| Protective decision, `execution/protective_lifecycle.py` | none | `protective_actions`, `prearm_actions`, `stop_coverage` | acts only when evidence explains the position; stops before targets; one closure; targets within the fill |
| Protective executor, `protective_executor.py` | `protective-orders.json` | `execute`, `adopt_response`, `reconcile` | intention durable before its request; never sent twice; final words kept |
| Entry order book, `live_orders.py` | `exchange-orders.json` | `submit`, `reconcile` | the same, for the one order that opens exposure |
| Lifecycle coordinator, `lifecycle_coordinator.py` | `owned-trades.json` | `prepare`, `register_entry`, `advance` | exposure belongs to an open trade; a trade is closed when it is over and not before |
| Entry admission, `entry_admission.py` | none | `admit`, its `entry_guard` | no entry without confirmed stops; nothing relevant changed since the evidence |
| Runtime session, `runtime_session.py` | gap, refresh request, forced-flatten reason, backoff (all in memory) | `cycle`, `_resynchronize_after_user_stream_reconnect`, event and disconnect callbacks | reconcile, then protect, then admit; no risk event lost; no entry across a gap |
| Private stream, `feed/authenticated_user_stream.py` | connected, reconciliation required, entry block, event count | `run`, `mark_reconciled`, block/clear | an unblocked, reconciled stream has missed nothing |
| Account evidence and daily risk, `account_evidence.py`, `daily_risk.py` | `exchange-account.json`, `exchange-ledger.json`, `daily-risk.json` | `observe_account`, `read_account`, `observe` | a ledger that forgets nothing, one baseline per UTC day, a latched breach, files that a crash leaves consistent |
| Writer lease, `writer_lease.py` | lock file, its descriptor | `acquire`, `assert_held`, `close` | one writer at a time; a successor knows what its predecessors sent |
| Legacy handoff, `single_writer_guard.py` | none | `assert_legacy_inactive` | the legacy service is stopped |
| Gateway, `binance_gateway.py` | HTTP session | orders, queries by client id, conditional orders and their children | a triggered conditional is no evidence of a fill |
| Trade plan, `trade_plan.py` | none | `build_plan`, `split_exit` | feasible sizes and exits |
| Scanner and staging, `causal_scanner.py`, `ict_reclaim_entry.py`, `portfolio_runtime.py` | reclaim stages | `scan` | causal intentions |
| Market feed, clock, microstructure, `feed/live_market_feed.py`, `exchange_clock.py`, `runtime_microstructure.py` | clock, channels, quotes, arrivals, fit, generation | `run`, `consume`, `ingest`, `calibrate`, `evidence` | no evidence, and no entry, across a break of the feed |
| Watchdog, `runtime_watchdog.py` | none | reads the health file | reports a stopped loop |

How they interact. One asyncio process. `RuntimeSession.run` starts four tasks:
the market feed, the private stream, the cycles (about one a second, woken early
by events) and the scanner. The **session lock** admits one cycle or one
resynchronisation at a time; `lease.io_lock` serialises the requests of the two
journals. The stream calls back into the session between any two awaits of the
lock's holder. A cycle refreshes the account, calls `LifecycleCoordinator.advance`
(reconcile entries, reconcile protective commands, decide, execute), and only
then admits an intention: `prepare`, prearmed stops, their confirmation,
`entry_guard`, the entry.

Hard behaviours: a crash between the saving of an intention and its answer;
requests that are executed after their caller gave up; partial fills that race a
cancellation; a snapshot older than the evidence it is compared with; stops that
have triggered and have no child order yet; events between two awaits of a
cycle; connections that stop reading before they count as disconnected.
`PROJECT.json` lists each hazard at its line.

### The rest of the repository

Legacy daemon (`continuous_trader.py`, `self_driving.py`: dispatch fails closed),
qualification and research (offline report verification and replay), paper
trading (`paper/`: breakers, SQLite ledger, resume control, cohorts), `safety/`
(kill switch, readiness gates), `pipeline/`, the `live_*` and `testnet_*` staging
commands, data collection, drills and prototypes under `feed/`, API, telemetry,
notifications, analytics, terminal UI, frontend, deployment. None of it takes
part in the qualified runtime's order flow; `PROJECT.json` gives the reason for
each; section 6 says what that means for the share of the code the models cover.

## 2. Modules

| Module | Models |
| --- | --- |
| `ProtectiveLifecycle` | the pure decision: every branch of `protective_actions` as an operator on the evidence |
| `Venue` | the exchange: accepts, refuses, fills, triggers, ends orders; executes requests late |
| `TradeLifecycle` | one trade: the two journals, `advance`, admission, crash, clock and risk events, on top of `Venue` |
| `OwnedTrade` | what coordinator, journals and admission promise about one trade, without journals, requests or cycles |
| `TradeLifecycleProofs` | the theorems of `TradeLifecycle` about its journals |
| `OwnedTradeProofs` | the proof that it implements `OwnedTrade` |
| `ProtectionProofs` | its theorems about stops, closures and coverage |
| `LotSums` | lemmas about the sums the decision is made of |
| `UserStreamSession` | private stream and session: events, gap, refreshes, risk reasons, resynchronisation, the stream's part of the entry guard |
| `AccountEvidence` | the account observation request by request, the income ledger, the day's baseline and latch, three files and a process that dies between them |
| `MarketEvidence` | two websocket channels, the clock, the sequence gates, the fit in a thread, and the three measurements an entry takes |
| `WriterLease` | the lock file, processes that hold, lose and inherit it, and the journal they write under it |
| `TradingAuthority` | what lease and journals promise about the processes of one account, without lock files, descriptors or copies in memory |
| `UserStreamSessionProofs`, `AccountEvidenceProofs`, `MarketEvidenceProofs`, `WriterLeaseProofs` | their theorems |
| `MCTradeLifecycle`, `MCUserStreamSession`, `MCAccountEvidence`, `MCMarketEvidence`, `MCWriterLease` | what TLC runs |

`ProtectiveLifecycle <- Venue <- TradeLifecycle` by EXTENDS. The others stand
beside `TradeLifecycle` and meet it in one step each: `UserStreamSession` takes
`advance` as one step that succeeds or fails and says when it runs and with
which risk flag; `AccountEvidence` produces the daily flag of its snapshot;
`MarketEvidence` says when an admission is refused for the market's sake;
`WriterLease` is why one process is enough in all of them.

### The owned trade

`OwnedTrade` is the promise: a plan is owned before its stop is at the exchange,
its stop is there before its entry may buy, the entry is let loose once, and the
trade is written off only when the entry can buy no more and nothing is held.
`TradeLifecycle` implements it under the mapping

| `OwnedTrade` | `TradeLifecycle` |
| --- | --- |
| `trade` | the `closed` flag of the trade |
| `armed` | the exchange knows the prearmed stop |
| `entry` | `live`: working or on its way; else `over` if it is in the entry journal, `unsent` if not |
| `held` | the position at the exchange |

so a crash, a lost or late request, a stale snapshot and every step of a cycle
is a stutter, and `Close` is a step the coordinator takes on journalled evidence
alone. The mapping makes `live` include a request on the wire: a trade that
closed while its entry's request was still travelling would be a step `Close`
does not allow. `OwnedTrade` does not say that exposure belongs to an open trade:
finding 1 is a trade that was written off before it was armed and enters
nevertheless, and `ExposureIsOwned` is the property it violates.

### TradeLifecycle and the code

| TLA+ | Code |
| --- | --- |
| `rec[<<op, id>>]` | the record `"PLACE:id"` / `"CANCEL:id"` of the protective journal, the order of the entry journal |
| `trade`, `latched` | the trade's `closed` flag and `strategy_invalidated` |
| `snap` | position and daily breach in `exchange-account.json` |
| `pc = "reconcile"`, `todo` | the loops of the two `reconcile()`s, entries first |
| `PreparedOnly`, `Protect`, `Unreconciled` | the three ways `advance` treats an open trade; `Unreconciled` raises, before (`Unresolved`) or after (`Unaccounted`) an invalidation was latched |
| `ExecuteAction`, `ReuseRecord` | `execute`: send, or return the record |
| `Respond`, `RespondError`, `Timeout` | how an awaited request ends |
| `BeginAdmission`, `SymbolIsFlat`, `SymbolIsOrderless` | the reads before an admission, one step per await: the second refresh of the cycle, the flatness of the symbol, its conditional orders |
| `Prepare` ... `SubmitEntry` | the order of effects of `admit` |
| `Crash` | the process dies; the files survive, the rest is initial, the risk event it was told of included |

A client id is `<<role, entry filled, exits filled>>`, the values `action_id`
hashes. A batch of actions is executed first part before second part; within a
part the order is left open, which includes the code's order. Quantities are
counted in lot steps, and a plan is one symbol and one side.

What is abstracted: prices, the exchange's maximum order size (a plan never
exceeds it), validation of response fields (a malformed answer is a fault), fee
and margin arithmetic, several trades at once, autopsies. Market evidence and
qualification are one refusal that may happen at any step of an admission.

`RefusesWhenFlat` is an open question about the exchange: whether a reduce-only
order at a zero position is refused or accepted and expired. Runs exist for
both. If it is refused, a closure that lost the race against a stop stays
UNKNOWN, `advance` reports an error in every cycle, and the trade never closes;
so `TradeCloses` is checked with FALSE and the flattening with TRUE.

### UserStreamSession and the code

`account` counts the changes at the exchange, each with one event in `queue`;
`seen` counts those the last snapshot is certain to show. `socket` runs through
closed, opened (resynchronising), lost (the connection went down meanwhile, which
the resynchronisation does not notice), open, closing (the loop over the socket has
ended, the closing handshake has not), ended. `tried` is
`next_account_refresh_monotonic`: the first cycle of a process refreshes, a later one
may find that it is too early. `pc` is the place of the session
lock's holder, and each of its steps is what the code does between two awaits.
`Restart` ends the process at any of them: a new `RuntimeSession` has the values
of `__init__`, and no refresh, gap or reason of the old one.
`observed`, `atStart`, `failed`, `wants` are the locals of `cycle` across its
awaits. `unserved` is a history variable: no protective pass was started or
continued for the last risk event.

### AccountEvidence and the code

| TLA+ | Code |
| --- | --- |
| `ReadBalance`, `Stamp`, `QueryDaily`, the `Judge` steps, `SaveLedger`, `Publish` | `observe_account` between its awaits and its writes |
| `ledger`, `saved`, `snap` | `exchange-ledger.json`, `daily-risk.json`, `exchange-account.json` |
| `tracker` | `DailyRiskTracker.state`, read from `saved` by a new process |
| `Missed`, `Refusable`, `Observed` | the ways `observe` raises, and what it latches |
| `wallet`, `income`, `listed` | the account: a row changes the wallet at once and is listed within `MaxDelay` |

The query of the ledger, the judgement and the write of `daily-risk.json` are one
step: no await lies between them once the income has been read, and what a crash
can see of them is the file that is written last. `rows` and `exact` are history
variables. `ExactVerdictsHideNothing` has two premises. The first is that the daily income
history was up to date when it was read: a deposit that is already in the balance
but is listed only between the daily query and the ledger query verifies the
account and yet counts as profit, so the verdict of that one observation shows
less than was lost. The next observation sees the deposit. The second,
`NoCoincidence`, is that no two sets of rows have the same total: the code infers from
a drift of zero that the ledger explains the balance, and two amounts that
cancel, or two rows of the same amount of which one is in the balance and the other in
the ledger, would let it infer that wrongly. About such accounts nothing is shown.

### MarketEvidence and the code

The tasks of `LiveMarketFeed.run` are the actions of `Connecting`,
`ClockBreaks` and `Calibrate`; `Ingest` is `_ingest` frame by frame. `Leave` is
the `finally` of `consume`, `Fails` and `Closed` the two ways `ingress` goes on.
`generation`, `last`, `quotes`, `arrivals`, `fit` are the fields of
`RuntimeMicrostructure`; `last` stands for `last_ids` and `trade_times`, `quotes`
for `quotes` and `last_depth_ids`, which change together. `fitting` holds the locals of
`calibrate` across its thread, `admission` the generations `admit` has measured.
`seen`, `since` and `broken` are history; `since` is where the window of a symbol
begins by now. A trade prunes the window of every symbol, as the code does.
`disconnect` may be called two or three times on the way out of a broken connection,
with no await between; the generation rises once in the model, for it is only
compared for equality. Ages are refusals, so that evidence may be used
at any age: what is shown does not depend on the 500 ms and 20 s limits. A
frame from the future, minutes old, or duplicated is a stutter. The stop of `run`
itself is left out.

### WriterLease and the code

`path` is the inode the lock path names, `flock` who locks which inode, `opened`
the descriptor. `Held` is `assert_held`, `Load` a constructor of a journal,
`Choose`, `Save`, `Write`, `Request` the way of one command through `execute`
(`submit` has the same shape), with the assertion in `Save` apart from the
replacement of the file in `Write`. `late` counts requests sent after the path
was replaced.

`TradingAuthority` is the promise: `owner` is the process for which `assert_held`
would succeed, `intact` says that the first lock file is still in its place,
`recorded` is the journal on disk, and `sent` what reached the exchange. A command is
recorded once and sent once, in this order, and neither is taken back; once somebody
touched the lock file, only the single owner remains of it. `ImplementsAuthority`
maps the lease to it.

## 3. Runs

| Run | Instance | Shows |
| --- | --- | --- |
| `restart` | one lot, expiry, a stop and an entry the exchange may end (post-only refusal included), refusal when flat, 1 fault, 1 crash | type invariant; `NeverResent`; `EvidenceIsConservative`; `EvidenceOnlyGrows`; `StopsIntactUntilFlat`; `PositionCovered`; implements `OwnedTrade` |
| `partial` | two lots, two targets, invalidation | `TargetsWithinFill`; `FlattenNeverDuplicated`; `ExposureIsOwned` |
| `breach` | one lot, daily breach and new day, refusal when flat | `BreachFlattens` (liveness) |
| `close` | one lot, risk events, expiry, hold time, an entry and a target the exchange may end | `RiskEventStopsEntries`, `TradeCloses` (liveness) |
| `reentry` | one lot, 1 crash | violates `ExposureIsOwned` |
| `riskpartial` | two lots, risk event | violates `RiskEventFlattens` |
| `stream` | 2 changes (an event, a risk event, an expired listen key), 1 lost connection or restart, failing refreshes | type invariant; `NoBlindSpot`; `RiskKeepsBlock`; `GapCloses` (liveness) |
| `riskforgotten` | 2 risk events | violates `RiskAnswered` |
| `deafstream` | 1 change, 1 lost connection | violates `EntriesSeeEverything` |
| `account` | 2 days of 2 ticks, 1 income row (trade or deposit) listed up to 2 ticks late, crashes | type invariant; `NothingForgotten`; `SnapshotIsBacked`; `ExactVerdictsHideNothing`; `BreachIsFinal`; `OneBaseline` |
| `admission` | 1 symbol, 3 trades, a window of 2, 2 faults | type invariant; `EvidenceIsLive`; `FitIsOfThisSequence`; `SamplesAreWhole`; `EntriesOnUnbrokenFeed`; `FeedReturns` (liveness) |
| `lease` | 3 processes, 2 commands, 3 lock files, 3 deaths | type invariant; `OneAuthority`; `HandoverResendsNothing`; `NoRecordLost`; `LateAtMostOnce`; implements `TradingAuthority` |

Bounds. One lot is enough for everything that is about one order's journal: the
order is unfilled or filled. Two lots are the least that has a partial fill and
two targets, and a fill between two decisions. One fault and one crash, at any
step and in either order, give every pair of "uncertain request" and
"restart"; more of them repeat what the journals already survived, and the
theorems hold for any number. Two changes and one lost connection let one event
be under way and one be lost with the connection; a restart counts as one
(`MaxDrops`), for what it leaves behind is what a lost connection leaves, and less:
neither a reason nor a request is remembered. Two days of two ticks with a
grace of none give observations at midnight, after it, and across it; one row is
enough for a deposit that hides a loss or for income that is listed late, and its
delay equals the overlap, the tightest case. Drifts that several rows make are left to
the proofs, whose inductive invariants were checked with two and three rows by
simulation before they were proved. Three trades in a window of two
give a gap, an overflow, and a sequence that goes on after either; two faults
give a second break while the first is being repaired. `FeedReturns` says that both
channels are up for good in the end: faults are bounded, so in the end none is left to
happen. The run `partial` has no faults and no crashes: with one fault two lots have more states than
can be explored, and what a failed query of a live stop or a crash elsewhere could do to its three
properties is covered by the theorems `TargetsFit`, `FlattensOnce` and
`ExposureOwned`, which bound neither. Three processes are
one that has lost the path, one that replaced it and one that waits. Counters are
bounded in the guards (`MaxFaults`, `MaxCrashes`, `MaxChanges`, `MaxDrops`,
`MaxTime`, `MaxRows`, `MaxTrade`, `MaxFiles`, `MaxDeaths`); client ids are
finite because fills are. Deadlock is checked in every run but `lease`: there the lock
file may be removed under every process after the last one the bounds allow was
made, and then nobody has authority, which is the point. The symmetry of `lease`
permutes processes and commands; it checks no liveness, and the
refinement it checks is a property of single steps.

Fairness. `TradeLifecycle`: the cycle keeps running (the loop of `run` sleeps at
most a second and swallows exceptions), its refresh succeeds again and again
(strong: a pass may also reuse the snapshot), the wire delivers what it does not
lose, market orders and children of triggered stops execute. Nothing forces an
entry or a target to fill, a stop to trigger, a fault or a crash.
`UserStreamSession`: the holder of the lock goes on (the reads and requests have
timeouts), the stream reconnects and delivers, a waiting resynchronisation and a
cycle get the lock (asyncio.Lock is first come, first served; strong because the
other may hold it), and a refresh, and an `advance` after a good refresh, do not
fail for ever (strong: without it nothing could be promised).
`MarketEvidence`: the clock is read again and again, a channel that is down is
dialled, a dial succeeds or fails, and a connection that ended runs its handler
(each loop sleeps a few seconds and swallows exceptions); faults are bounded, and
nothing is asked of the exchange's frames or of the fit.

### Findings

1. `reentry`: after a crash between `prepare` and the first stop record the next
   cycle closes the trade; `prepare` then accepts the same plan again without
   reopening it, and the position is nobody's (`lifecycle_coordinator.py:119`).
2. `riskpartial`: a risk event is forgotten on a snapshot from before the pass
   that was to answer it (`runtime_session.py:260`).
3. `riskforgotten`: a second risk event during a cycle is wiped by it
   (`runtime_session.py:267`).
4. `deafstream`: `connected` outlives the last read by the closing handshake
   (`authenticated_user_stream.py:180`).

Two observations that are no disagreements with what the repository says, but
limits of what is shown. A market closure that was lost or refused stays UNKNOWN
and keeps every later closure away (`protective_lifecycle.py:186`): the price of
never duplicating one. `BreachFlattens` is therefore checked without faults, and
with one lost closure it is the stops at the exchange that protect the position.
And the deposit listed between two queries, described with `AccountEvidence`.
A third is no bound of the models but of the code: the reason to flatten is kept in
memory only (`runtime_session.py:76`), so a process that dies between a risk event
and the pass that answers it takes the event with it. `riskforgotten` is checked
without a restart, in order not to find that instead.

## 4. Proofs

`TradeLifecycleProofs` proves, for every plan size, every set of events and any
number of faults and crashes: `TypeCorrect`, `CommandsNeverResent`,
`EvidenceConservative`, `EvidenceGrows`. Assumptions: the named ASSUMEs of the
modules, no others. The argument: `NeverResent` is not inductive; it needs that
every command sent is on record, which a crash must not undo (the record is
durable first). `EvidenceIsConservative` needs in addition that an order at the
exchange, its record and a request on the wire agree on the quantity, that the
exchange only adds fills, and that a cancellation is adopted only as the
exchange's final answer. The conjunction is `Inv`, shown inductive action by
action; the theorems follow from it by PTL.

`OwnedTradeProofs` proves `LifecycleImplementsOwnedTrade`, for the same constants.
Beside `Inv` it needs `Agreement`, what the wire, the book, the journals and the
history of sent commands know of each other (a request travels once and for an order
the exchange has not seen; what the entry bought was sold by an exit or is held), and
`Standing`, what the process relies on at each place (a trade is owned wherever
something is sent; where the entry is submitted its stop is armed). The hard
step is to write the trade off: the journals' fills of the exits add up to the entry's
fills, the book has no fewer, and so nothing is held. `LotSums` makes that step
possible without induction: a sum of naturals is the number of pairs of an element
and one of its units (`SumIsUnits`), so that inclusion and disjoint unions of finite
sets say what grows and what adds up. Two functions that both solve the recursion
of a fold agree on the least subset on which they could differ.

`ProtectionProofs` proves `StopsAreKept`, `FlattensOnce`, `PositionsAreCovered`,
`TargetsFit` and `ExposureOwned`, for every plan size and any number of faults and
crashes, the last one with an exception. None of the five is inductive. What is planned counts like what travels (`StopsKept`, `OneClosure`): a
closure is decided one or more steps before it is sent. A cancellation of the
stop may have been decided long ago and still travel when a plan is admitted again;
it is harmless because an admission reads the symbol orderless before it arms, so
that a stop with a record no longer rests at the exchange (`StopIsSpent` in `Admitting`),
cannot be confirmed, and no entry is submitted under it. Between the read of
the position and the read of the conditional orders the exchange may act, but an
order that is known to it never becomes a resting conditional order again (`BookGrows`). That argument needs that a record in doubt was looked
for before the admission (`StopAnswered`) and that before the entry nothing but its
stop is on record (`Unentered`). `PositionsAreCovered` then follows from the one
stop of the whole plan: it was confirmed before the entry, nobody cancels it before the
position is flat, so it works or the exchange has triggered or ended it.

`TargetsFit` (`TargetsWithinFill`) compares what the targets have sold and may still
sell with what was bought, while the process sizes them from two journals that lag
behind the book. Its strengthening `TargetInv` adds `Sizes` (an order has one
quantity, in its request, on record and at the exchange; a pass decides only
after it has looked for everything that was being sent) and `ClaimsFit`: there is a
claim for each target that its orders respect wherever they are, and the claims
together are within the fill of the entry. Between decisions the claims stay and the fill
only grows; a decision replaces them by what it has just computed. `LotSums` says what
the sums need: they are monotone, and additive over sets that are apart.

`ExposureOwned` proves `Spec /\ [][~CutOff]_vars => []ExposureIsOwned`, where `CutOff`
is a crash between the registration of a trade and the record of its stop. The run
`reentry` shows that one such crash makes the property false (finding 1); the theorem
says that nothing else does, whatever crashes elsewhere and however often. Its
strengthening `OwnedAlone` says that a trade is closed only after its stop was
asked for, and before its entry only when that stop is over; so an admission that
finds its trade closed cannot confirm a stop, and sends no entry. A crash at any other
place leaves the stop on record, and `OwnedAlone` with it. `ExposureOwnedAtFirst` is
the corollary up to the first crash.

`UserStreamSessionProofs` proves `TypeCorrect`, `NothingIsMissed` and
`RiskBlocksEntries` for any number of changes, drops and restarts. `NoBlindSpot` alone says
nothing about a refresh under way; its strengthening `Covered` says, for each
place of the lock's holder, what is certainly shown once the refresh ends: with
an event count unchanged since `observed`, every change is in `reading` or `seen`
or has its event still in `queue`.

`AccountEvidenceProofs` proves its six properties, for any day, grace, overlap, rows
and amounts. `SnapshotIsBacked` is not
inductive: between the judgement and the publication the draft must be backed
already, and the tracker in memory must never be behind a saved breach of its
day, also after it raised half-way (`JudgeRefused`). `NothingForgotten` rests on
`MaxDelay \in 1..Overlap` and on what the cursor says about rows still to be
listed. `ExactVerdictsTell` (`ExactVerdictsHideNothing`) is about totals. The
strengthening `Truth` says that the ledger is founded on a set of rows B, those in the
balance it was opened with, and that whatever it lists was booked later. A drift of
zero then says that the balance just read has the total of B and the ledger's rows;
unless that is a coincidence of amounts it consists of them (`NoDrift`). A baseline
taken from an explained balance divides the rows into what it holds and what was booked
after it (`Grounded`), and against such a baseline the flows that the daily query found
are exactly the transfers that came later (`FlowsAreDeposits`). So the loss that the circuit
computes is at least what trading has lost. Crashes do no harm because the file of the day
and the ledger are founded on the same B. The sums are over integers; `LotSums` writes
one as the difference of its gains and losses (`Net`) and so reuses what is
proved of naturals.

`MarketEvidenceProofs` proves its five safety properties. The strengthening says
what each generation is worth: while a fit is under way and its generation is
still current, its sample is part of the unbroken sequence seen since, and
while an entry holds a current generation the feed has not broken. `WholeSamples`
(`SamplesAreWhole`) needs `Whole` beside it: the arrivals have all that was seen since
their window began, and what is seen later follows the last trade of every sample.

`WriterLeaseProofs` proves five properties and the refinement for any sets of processes and
commands: a file has at most one locker, a process with authority has the file
the path names, and while there is a single file whatever was sent is in the
journal or in the memory of the one process that may write it.
`LeaseImplementsAuthority` needs one thing more, `Tidy`: while the lock file is left alone,
what the owner has in memory is the journal and, until it is written, the command it is
about to send; `Known` says that it was not sent before. So each `Write` records at most one
command and each `Request` sends one that is on record. `OneWriter` and `Known` make
the owner of the abstract module a single process.

Every safety invariant and action property of the passing runs is stated by a theorem
now, `ExposureIsOwned` for executions without a crash in the window of finding 1. Left to TLC: the liveness
properties (outside the prover), and the four runs that refute a property.

## 5. Plan

Done: the trade, its refinement and its protection, the session with its
restarts, the account evidence, the market evidence, the lease with its refinement, each
with the proofs of all its safety properties, and that finding 1 is the only way to lose
the ownership of an exposure.
To prove next: that the session and the account evidence implement abstract
specifications of their own, as the trade and the lease do.
To compose, if the state space allows it: several trades that share the margin of one
account, and the account evidence as the snapshot of the trade.

## 6. Not modelled

The models cover the qualified runtime. They are a small share of the lines of
the repository, and that share cannot grow much:

- `feed/` holds, beside the five files the runtime uses, some fifty drills and
  prototypes (depth imbalance, liquidity regimes, cascades, ...), largely
  variants of one another: numerical formulas on one input, whose state is a
  history list that nothing of the runtime reads.
- `api/` and `canary.py` within it, `analytics/`, `notify/`, the terminal UI and the
  frontend present published files and change none of them.
- `research/`, `pipeline/`, `data/` are batch jobs: backtests, indicators,
  learners, downloads. Their results reach the runtime as report files whose hashes
  it verifies.
- `paper/`, `continuous_trader.py`, `self_driving.py`, `safety/`, `live_*` and
  `testnet_*` are engines and gates the qualified runtime has replaced or does not
  call.
- Within the runtime: the Hawkes likelihood, sizing and fee arithmetic, autopsies, the
  scanner and its reclaim stages, qualification receipts, the watchdog, the HTTP
  client. They are pure functions or reports; where they decide something, their
  outcome is a refusal or an input of a model.
