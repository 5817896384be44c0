# FlintTrade order safety in TLA+

FlintTrade is self-hosted trading software for one operator: a Flask backend
(one process per workspace, many request threads), an engine with the order
safety layers, a gateway of native broker adapters, and automation (scheduler,
strategies, Telegram, webhooks).  This directory models the part where a
mistake costs money and a test hardly reaches it: the path of a live broker
write, the emergency machinery that stops it and flattens the accounts, and the
change of the broker accounts it writes to.

## The system

### Inventory

| Component | State it keeps | Operations | Talks to | Hard behaviour |
|---|---|---|---|---|
| Kill switch, L5 (`safety.py` `KillSwitch`) | latch, activation sequence, per-account outcomes, accounts in progress, two in-flight counters | admit / refuse a normal write, activate, wait for idle, reset, restore | router boundary, dispatcher, durable journal, HTTP and Telegram handlers | overlapping activations, writes admitted before the latch, reset racing an activation, crash while sweeping |
| Emergency dispatcher (`GatedEmergencyBrokerDispatcher`) | none of its own; leases the routing generation | authority, prepare targets, bind episode targets, dispatch one planned target | router, intent journal | lost broker answers, replay after a crash, plan read before a write and used after it |
| Emergency intents (`emergency_intents.py`) | episodes and intents (reserved, acknowledged, outcome unknown), in SQLite and in a process-local mirror | activate, record targets, deactivate, reserve, acknowledge, mark unknown, release, settle | dispatcher, kill switch, MTM breaker | storage failing between two steps; two id spaces |
| MTM circuit breaker (`MTMCircuitBreaker`) | per-account trigger, session, in-flight counters | check and act, admit, roll over, reset daily | journal, dispatcher, daily P&L | roll-over after a degraded trigger; trigger racing admitted writes |
| Broker router (`router.py`) | generation, in-flight writes, consumed gates, lifecycle faults | admit, verify, prepare, invoke, record, revoke and drain | kill switch, MTM, safety gate, local ledger, adapters | revocation racing a write; unknown outcomes |
| Safety context and gate (`SafetyContext`, `SafetyGate`) | consumed gate ids | mint, verify, consume | router | expiry at the boundary, replay |
| Order admission (`SafetySystem`, `l2_state.py`, `order_routes.py`) | reserved exposure per order, admission lease | snapshot, check order, reserve, acknowledge, reconcile | L1-L5 validators, Laya, broker books | two orders each within the limit, together beyond it; late broker calls |
| Reduce-only classification (`reduce_only.py`) | process-local exit holds, bound to order ids | read books, reconcile holds, classify, release | order routes, Laya | two exits of one position; books read one after the other |
| Daily loss guard, L4 (`DailyPnLLimits`, `daily_pnl_state.py`) | per account and session: capital, latch | resolve, configure, latch, reset | check order | sticky latch across restart and session change |
| Order lifecycle ledger (`local_state_provider.py`) | dispatch attempts, resolutions, health row, broker snapshots and observations | prepare, invoke, outcome, acknowledge, adopt snapshot, resolve, recover | router, reconciliation, operator routes | process dies around the adapter call; acknowledgement lost; operator decides on old evidence |
| Reconciliation (`reconciliation_runner.py`, gateway `reconciliation.py`) | one cycle at a time, reports | trigger, run once, adopt snapshot | adapters, ledger | snapshot older than its order book |
| Action center (`action_center.py`, `action_center_routes.py`) | durable approval requests with expiry | enqueue, claim, approve, fail, reject, expire, recover | agent, order routes | approval racing expiry or a second approval; crash while dispatching |
| Autonomous agent (`autonomous_agent.py`, `agent_routes.py`) | one session, its tracked positions, its intents by symbol | start, propose, monitor, record an approved entry, stop, square off | action center, order path | approvals racing a stop; retried proposals |
| Bracket orders (`bracket_order.py`) | entry and exit legs of a group | place, fill, cancel | router | one leg of several failing |
| Basket, split, options multi-orders | legs placed so far | execute, roll back | router | roll-back failing half way |
| Strategy runners (`scheduler.py`, `strategy.py`) | per name a runner: tick loop, start and stop hooks, ownership flags, locks | register, start, tick, square off, stop, drain, aggregate stop | strategy code, order path, HTTP and Telegram handlers | hooks that outlive their deadline on a worker; stops from inside and outside the loop; a route giving up on a start |
| Strategy files (`strategy_runner.py`, `strategy_lifecycle.py`, `state_manager.py`) | scripts, checkpoints | launch, checkpoint, recover | order path | recovery after a crash |
| Router generations (`app.py`, `broker_account_lifecycle.py`) | published, draining router, rebuild lock | rebuild, retire, publish | router, kill switch | rebuild during an emergency |
| Account transactions (`account_transaction_store.py`, `broker_account_transactions.py`, `broker_account_workspace.py`, `broker_account_lifecycle.py`) | operation rows, claim and head in the vault; witness in the workspace; lane, workers and sessions in the process | mutate, recover, settle | provider, registry, read generations | two stores with one decision; crash, power loss or cancellation between any two steps |
| Auth, credentials, service connections, webhooks, backups, migrations | users, secrets, sessions, files | request handlers | everything above | mostly sequential |
| Laya, AI services, Ollama runtime, screener, backtest, indicators, historical, tick store, journal, social trading, desktop and web apps | models, datasets, reports | numerical or user-interface work | | no shared order state |

### Plan

Done:

1. **KillSwitch**, the coordination around the L5 latch, with proofs in
   **KillSwitchProofs**.
2. **EmergencyIntents**, the durable journal, its process-local mirror and the
   dispatcher that drives them, with proofs in **EmergencyIntentsProofs**.
3. **MTMCircuitBreaker**, trigger, drain, flatten, roll-over and daily reset, with
   proofs in **MTMCircuitBreakerProofs**.
4. **OrderLifecycle**, router, ledger, router generations, snapshots and the
   operator's resolution, with proofs in **OrderLifecycleProofs**.
5. **EmergencyLatch**, what both emergency controls promise; KillSwitch over all
   accounts and MTMCircuitBreaker for each account are proved to implement it.
6. **OrderAdmission**, reduce-only classification, admission lease, exposure
   reservations, snapshot and position limit, with the broker's lagging books, with
   proofs in **OrderAdmissionProofs**.
7. **EntryApprovals**, the agent's session, the approval queue and the dispatch of
   approved entries, composed, with proofs in **EntryApprovalsProofs**.
8. **AccountTransactions**, a change of a broker account over the credential vault,
   the workspace file, the registry and the lifecycle lane, with its recovery, with
   proofs in **AccountTransactionsProofs**.
9. **StrategyRunner**, the lifecycle of a strategy: start, tick loop, square-off, stop,
   drain and replacement, with proofs in **StrategyRunnerProofs**.

Left, in order:

10. Composition: one router boundary with both admissions nested around one
   lifecycle write.  Both latches are one abstract latch now, so the composition
   can be stated over two instances of EmergencyLatch.
11. Baskets, modifications and cancellations in the ledger; bracket orders above it.
12. The daily-loss guard and its store, the one-shot safety context,
    service-connection transactions, `start_all` over several strategies.

## How the parts interact

A live entry of the autonomous agent waits in the approval queue until the operator
approves it.  Approved entries and the operator's own orders are classified first
(does the order only reduce a position?).  Every live order, those of strategies
included, takes its account's admission lease, is checked against a snapshot in
which unresolved orders count in full, receives a one-shot context, reserves its
exposure durably and reaches `BrokerRouter`.  At the router boundary it holds two
nested admissions, L5 (`KillSwitch`) around MTM (`MTMCircuitBreaker`), for the whole
adapter call.
The router records the write in the lifecycle ledger before, at and after the
call.  An emergency (operator or breaker) latches its admission, waits until the
admitted writes have returned, and then flattens accounts through the emergency
dispatcher, which journals each reducing write before it is sent.  A routing
generation may be retired and replaced at any time outside an emergency, and the
process may crash anywhere; durable rows are all that survives.  Which accounts there
are, with which credentials and sessions, is decided by account transactions.

Each module takes one of these parts with everything that runs against it, and
abstracts the others: KillSwitch treats a sweep of one account as one step with
an outcome, EmergencyIntents opens that step, MTMCircuitBreaker treats it as a
step that leaves or settles intents, and OrderLifecycle takes admission by the
two latches as one of the reasons a write is refused.  EmergencyLatch is the common
promise of the two latches.  OrderAdmission takes everything behind the router as a
broker that accepts or refuses, EntryApprovals takes everything behind
`_dispatch_live_order` as a dispatch that is refused for certain, acknowledged or of
unknown outcome, which is what OrderAdmission leaves of it.  AccountTransactions stands
beside them: it ends before orders are routed, with a session in the registry.
StrategyRunner stands in front: it says when the code of a strategy may run, and with it
when that strategy may send orders, which OrderAdmission takes as coming at any time.

## KillSwitch

`KillSwitch` of `safety.py`, with the threads that call it.  A step is one
critical section of `_condition`, or one call made outside it.

| Model | Code |
|---|---|
| `active`, `sequence`, `latestFullScope`, `outcomes`, `lastResult` | `_active`, the sequence numbers, `_emergency_outcomes`, the last result |
| `selectorsInProgress`, `dispatches`, `normalWrites` | the reservation set and the two in-flight counters |
| `episode`, `affected`, `unsettled` | the durable L5 episode, its targets, its open intents |
| `lease` | the routing-generation lease, also taken by reset and by rebuilds |
| `AdmitNormalWrite`, `RefuseNormalWrite`, `FinishNormalWrite` | `broker_write_admission`, entry, refusal and exit |
| `Authorise`, `Latch` | `activate` up to the latch and the durable episode |
| `Drained`, `DrainTimeout`, `AcquireLease`, `LeaseTimeout`, `PrepareTargets` | waiting for admitted writes and for the lease, the target snapshot |
| `ReserveTargets`, `AwaitSelectors`, `ReserveTimeout`, `FinishDispatch` | the reservation loop of `_dispatch` |
| `ReadEpisode`, `RecordTargets`, `RecordConflict`, `Sweep`, `Merge` | binding the episode, flattening the batch, merging outcomes |
| `RequestReset`, `ResetIdle`, `ResetLease`, `AbandonReset`, `Reset`, `RefuseReset` | the reset route and `KillSwitch.reset` |
| `BeginRebuild`, `EndRebuild`, `Crash`, `Restart` | router rebuild, process death, `bind_emergency_journal` |

`exposed`, `claimed` and `swept` are history: accounts with something open,
accounts an activation set out to flatten, accounts that received reducing
writes.  The two verbs of the policy (cancel and flatten) always travel together,
so an account's outcome is one bit.

Runs: `ks_journals`, `ks_returns`.  Two accounts are
needed for target sets that overlap without being equal, two threads with three
activations for one that overlaps, joins and supersedes another, one writer for
a write admitted before the latch, one crash for a restart in the middle.
`ks_journals` decides in its initial state whether the journal works or may fail
(`faulty`, fixed from then on); with a failing one it stops at two activations, because a
journal that fails at every write multiplies the states.  `ReplaceScopes` is `{TRUE}`
in every run because both production callers (`operations_routes.py:906`,
`telegram_bot.py:424`) pass it; the proofs do not depend on it.

- `NoNormalWriteDuringSweep`, `ExclusiveSweep`: a flatten races neither a normal
  write admitted earlier nor a second flatten of the same account.
- `CompleteMeansFlat`: "complete" is true of every account any overlapping
  activation set out to flatten.
- `ResetLeavesFlat`, `DurableResetScope` (over a working journal): without the operator's explicit
  confirmation the latch is lifted only over flat accounts, and the accounts a
  reset is authorised for include those swept by a process that crashed.
- `DurableEpisodeLatches`: no process with a bound journal runs unlatched over a
  durable episode.
- `BoundEpisodeStaysCurrent`: with the generation lease no activation loses its
  batch to a stale compare-and-set on the durable episode.
- `ImplementsLatch`: every behaviour is one of EmergencyLatch, see there.
- `ActivationReturns`: without the lease activations can wait for accounts each
  other owns, and the reservation deadline ends that.

Fairness (only `ks_returns`): weak fairness of each running activation, of the
latch step that follows authorisation, and of the reset steps.  Each of these is
a thread that is never blocked for good: every wait of `activate`,
`wait_for_idle` and the lease has a deadline, which is modelled as a timeout
step.  For `Sweep` it also assumes that adapter calls return; the dispatcher
itself sets no timeout on them.  Callers, writers and rebuilds get no fairness.
The run has no writer, reset or crash, which play no part in the reservation
loop, and stops checking deadlock because it ends when its three activations have
returned.  It is also where `ExclusiveSweep` is checked: the lease would keep
the activations apart, so the dispatcher has none there.

### Proofs

For every finite set of accounts and threads, every value of the flags and every bound,
`KillSwitchProofs` proves

- `TypeCorrect`: `Spec => []TypeOK`
- `SweepsRunAlone`: `Spec => []NoNormalWriteDuringSweep`
- `SweepsAreExclusive`: `Spec => []ExclusiveSweep`
- `EpisodesLatch`: `Spec => []DurableEpisodeLatches`

and, from these,

- `LatchRefinement`: `Spec => ImplementsLatch`
- `CompleteResultsAreFlat`: `Spec => []CompleteMeansFlat`
- `ResetsLeaveFlat`: `Spec => ResetLeavesFlat`
- `EpisodesStayCurrent`: `Spec => []BoundEpisodeStaysCurrent`
- `ResetsCoverSweeps`: `Spec => []DurableResetScope`

The first four follow from `Coordination`, `Spec => []CoordinationInv`, where
`CoordinationInv` adds `Counted` to the four properties.  None of them is
inductive alone.  An activation leaves the drain when `normalWrites = 0`, and
that says nothing of the writers unless the counter is the number of writers in
flight; a write is admitted only while the latch is off, and that excludes a
sweep only because a running activation keeps the latch on; the latch in turn is
dropped by a reset only when `dispatches = 0`, which must mean that no activation
is running.  `Counted` says just this: both counters are cardinalities of sets of
threads, a dispatching activation implies `active`, and `active` implies a live
process.  Type correctness needs it too, since a counter that is decremented
stays a natural number only because the thread that decrements it was counted.

The refinement needs `RoundInv` besides (what an activation has pending, owns or has
proved flat belongs to the round it is in): each step of the code is then a step of
EmergencyLatch or leaves `open`, `sweeping` and `writing` alone.  In particular
`ReserveTargets` takes only accounts nobody else sweeps, and no reset opens the latch
over a reservation.

`CompleteMeansFlat` is about a result merged from activations that overlapped.  `FlatInv`
says that every claimed account that is still exposed is owed: some activation has it
pending or owns it, or its last outcome is a failure (`ClaimsOwed`); so an aggregate
without failures and without activations under way covers flat accounts only.  It rests
on the claims being made behind a latch with no normal write in flight
(`ClaimsLatched`), so that what was proved flat stays flat (`ProvedFlat`).
`ResetLeavesFlat` is the same invariant at the step that lifts the latch.

`LeaseInv` says that with a lease the activation that has bound its batch is its only
holder, hence the episode it bound is still the stored one.  `ScopeInv` says that over a
working journal a latched process has its durable episode and the episode names every
account before it is swept.

The proofs have frame lemmas that say which steps touch the reservations, the writers,
the activation labels, the claims and the episode, and one lemma per conjunct with one
case per action.  The assumptions are the `ASSUME`s of `KillSwitch` (finite sets of
accounts and threads, distinct model values, natural bounds); TLC evaluates them in
every KillSwitch run.  The counting steps use `FiniteSetTheorems`.

## EmergencyLatch

The specification a caller of either emergency control may rely on: a latch, the
accounts being swept behind it and the accounts with an admitted write.  A write is
admitted only while the latch is open; a sweep starts only behind a closed latch, with
no write in flight and for accounts nobody else sweeps; the latch does not open under
a sweep; a crash closes it.  No counters, leases, journals or deadlines.

`KillSwitch!ImplementsLatch` maps `open` to a running process with a bound journal and
no latch, `sweeping` to the reservation set and `writing` to the admitted writers.
`MTMCircuitBreaker!ImplementsLatch` does so for one account of the breaker, the constant
`Guarded`.  Both refinements are proved (`LatchRefinement` of KillSwitchProofs and
of MTMCircuitBreakerProofs), the second for an arbitrary account.
There an admission may itself end a prior session's latch (`_roll_over`), hence the
second alternative of `Admit`.  Both refinements are checked over working and failing
journals, so they say that none of the fault handling weakens the promise.  They are
safety refinements: that a latch opens again is `ResetLeavesFlat` and `DurableReopens`.

## EmergencyIntents

`emergency_intents.py` (SQLite journal, in-memory mirror, and the wrapper that
degrades from one to the other) driven by `_dispatch_planned_target`, for one
account.  `primary`, `fallback` and `intentIds` are the two journals and the id
translation; `Begin`, `Read`, `SkipWrite`, `Reserve`, `Send`, `RecordAnswer`,
`InvalidAnswer`, `EndPlan`, `Settle` are the dispatcher's loop; `OpenPosition`,
`Arrive`, `EndExit`, `OperatorClose` are the broker and the operator.  A scope is
a position.  An exit may be lost, arrive after the answer was given up on, be
refused, or be answered with garbage; a read of the account may lag behind the
broker for `MaxLag` reads.  The model takes `MaxLag < QuietReads`, which is what
`planned_quiet_reads` is for: with slower brokers no number of reads would do.

- `AtMostOneExit`: a position is never sent two exits that are both outstanding,
  and is never over-exited (checked over a working journal, and through an
  outage in the process that created the journal).
- `OutstandingExitsCovered`, `DurableExitsLatched`: every outstanding exit has
  a durable intent, and a latched source that owns it, across crashes.
- `CompleteMeansQuiet`: a dispatch that reports success left nothing behind.

Bounds: two positions and both sources (so that one source meets the other's
intent), two quiet reads out of three, three or four ids, one crash.  With failing
storage there is no crash: the mirror lives in one process.

`EmergencyIntentsProofs` proves all four for any finite sets of positions and sources, any
ids, crashes and read limits with `MaxLag < QuietReads`: `DurableExitsLatched` as it
stands, the others while the process is `Calm`, that is while storage works (whatever
crashes), or in a process that opened an empty journal until it crashes.  The condition
is needed: `intents_collision` violates `AtMostOneExit` without it, because the ids of
mirror and journal then differ.  The inductive invariant `IntentsInv` has four parts.
`ControlInv` ties the locals of the dispatch to its place.  `JournalInv`: rows have ids of
their own, and in a calm process with failing storage the mirror has the durable rows
under the same ids until the wrapper degrades, so that a change of journals forgets
nothing.  `ExitInv`: an outstanding exit is the only one of an open position and has a
row in the journal that decides, so the created flag of `reserve` proves that there is
none; a write still to be made is for an open position or for one whose row withholds
it, which is why a lagging plan does no harm.  `QuietInv`: a quiet streak longer than the
current run of lagging reads has seen the broker quiet, and it stays quiet while a source
is latched.  `MirrorAgrees` adds that over failing storage a calm process never meets item
7 below.  `IntentsInv` was model-checked on the instance of `intents_journals` first.

## MTMCircuitBreaker

`MTMCircuitBreaker` of `safety.py`.  `CheckWithinLimit`, `CheckRaises`,
`CheckFires`, `Drained`, `GivesUp`, `BindTargets`, `Sweep`, `FinishCheck` are
`check_and_act`; `RollOver` and `Restore` are the shared helpers that end a prior
session's latch, inside the update, the admission and the reset; `ResetDaily`,
`NextDay`, `Crash` and `Restart` are what runs around them.  An episode row is
its session and a stamp for its id and revision.  A process whose journal failed
its startup check publishes no router, so only bound processes are modelled.

- `ExclusiveFlatten`: no two flattens of an account at once and no normal write of it
  meanwhile, across the session change and a daily reset.
- `DurableLatchesForTheDay`, `DurableReopens`: over a working journal the latch lasts
  the trading day and not longer.
- `EpisodeLatches`, `UnsettledKeepsEpisode`: also under journal faults that commit or not, no
  latch is lost while its episode or its intents exist.
- `ImplementsLatch`: see EmergencyLatch.

Bounds: three sessions (breach, roll-over, breach again), two checks, one
writer, one crash; two accounts where `dispatching` could confuse them, one where
faults multiply the states.

All of these are proved for any finite sets of accounts, checks and writers and any
bounds.  `MTMCircuitBreakerProofs`: `TypeCorrect`, `FlattensAreExclusive`,
`EpisodesLatch`, `UnsettledEpisodesStay`, from `Safety`, whose `SafetyInv` adds `CheckInv`:
`normalWrites` counts the writers in flight of each account, a check belongs to the
running process and to the current reset generation, and a flatten that still uses the
durable journal has its episode there.  The critical sections (`RollOver`, `Restore`)
compute on the view of one account, so what they do is stated once, as lemmas about
views, and used by the update, the admission and the reset alike.
Also there: `LatchesUntilTheNextSession` and `SettledAccountsReopen`,
from `AgreementInv` (over working storage memory and journal agree, and the row is of
today's session exactly when the account fired today), and the refinement.  Its violation
run `mtm_day` shows that the first is false over storage that may fail.

## OrderLifecycle

| Model | Code |
|---|---|
| `state`, `claim`, `resolution`, `health`, `snapshots`, `firstSeen` | the ledger: attempts, owner of each broker order, resolutions, health row, adopted snapshots, first observation of each order |
| `router`, `draining`, `revoked`, `faults`, `receipts` | published and draining router; of each generation its revocation, lifecycle faults and clearance receipts |
| `Obtain` ... `AddFault` | `place_order` / `execute_gated` of one write: admission, fault check, `assert_write_ready`, `prepare_dispatch`, invocation callback, adapter call, recording |
| `RetireRouter`, `PublishRouter` | `retire_broker_router_generation`, `_configure_broker_writes` |
| `StampSnapshot`, `ReadOrderBook`, `RecordSnapshot` | one reconciliation cycle |
| `BeginResolution` ... `CompleteResolution` | `reconciliation_outcome_resolve`: forced snapshot, prepare, audit, finalize, clear the router's fault, complete |
| `LoseProof`, `CrashAndRestart` | the backend lease lapses; the process dies and `_recover_interrupted_dispatches` runs |

`lifecycle_ledgers` decides in its initial state whether the ledger works (`faulty`,
fixed from then on).  In a failing one every transaction may raise, rolled back or
already committed (`LedgerFaults`), and one of the writes is an emergency reduction.  `mark_outcome_unknown` is two transactions in the code and two
steps here.

- `UnknownBlocksWrites`: no normal write passes the ledger check while an ended
  call is neither acknowledged nor resolved, across restarts and rebuilds, over a
  working ledger.
- `FailedMeansNotEntered`: "failed before invoke" is never said of a normal write
  whose adapter was called.
- `OnlyPredatedIsDenied`: an order the broker accepted is confirmed as "not applied" only
  if a snapshot stamped before its own write was the first to find it; no other
  interleaving, stale book or failing transaction leads to a wrong decision.
- `OneAttemptPerOrder`: no decision takes another attempt's order, even of an equal order.
- `SettledStaysClear`, `CriticalIsResolvable`: no fault outlives its resolution,
  and a critical health row always leaves something to resolve.
- `OneWritingGeneration`: admitted writes all run in one generation.

Assumptions: one account; a write places one order, so a write, its attempt and
its order share a name (baskets, modifications and cancellations follow other
evidence rules); the broker decides when the adapter is entered, so no request
arrives after its failure was recorded; an order leaves the book only after some
snapshot has seen it; the wall clock is monotone, and a timestamp is represented
by the attempts it follows; the bounded wait of a retirement is a retry.  The
fuzzy field matching of orders is equality of `Intent`.

A report is stamped first and its order book read later, as the adapters and the
reconciliation cycle do, with writes in between.  For that order the unconditional
`NotAppliedMeansAbsent` is false: `lifecycle_race` shows it, see the finding below.

Bounds: two writes are one whose outcome is unknown and one that must be blocked,
with equal intents so that each can be taken for the other; two generations are
one rebuild or one restart (a crash is taken, and the backend lease lost, where another router may follow); two
snapshots are one before and one after the decision needs it.  With a failing ledger there
is one snapshot, and the backend lease does not lapse.
Deadlock is not checked, since a finite set of writes ends.

`OrderLifecycleProofs` proves all seven properties for any set of writes, any intents and
any bounds, over ledgers that work and ledgers that fail: `SingleWritingGeneration`,
`FailedWasNeverSent`, `OrdersHaveOneAttempt`, `ResolvedStaysClear`, `CriticalHasAttempt`,
`OnlyPredatedAreDenied` and `UnsettledBlocks`, besides `LifecycleTypes`.  None of them is
inductive alone; `LifecycleInv` adds:

- `GenerationInv`: only the published generation is not revoked, and a write in flight
  holds the published or the draining one, never both; hence one generation writes.
- `DispatchInv`: where a write stands against its row and its adapter, with nothing
  recorded before the intent, nothing sent before the marker and no call entered for an
  attempt that is over.  `FaithfulInv` is the
  stronger form a working ledger gives, which `UnknownBlocksWrites` needs.
- `ResolutionInv`, `FaultInv`: a decision belongs to an unknown outcome until it is
  recorded and to a confirmed one after; a fault or its receipt belongs to a write that has
  ended, so no handler can raise a fault again once its resolution is complete.
- `ObservedInv`, `WitnessInv`: every accepted order is in the book or in some snapshot,
  and one whose call was over at a snapshot's time has been seen by then.  So the order of
  a denied attempt was among those its evidence was checked against, unless the ledger
  held it as older than the write.

## OrderAdmission

One account, from the place route (or a strategy) to the broker and back.

| Model | Code |
|---|---|
| `net`, `pending`, `kept` | what `_prepare_live_reduce_only` has read under the contract lock: position, pending exits, observed holds |
| `hold` | `_reserved` and `_bound_exits`: `flight` until an answer, then `bound` to an order id or `unknown`; `covered` while the broker's row stands for it |
| `lease`, `worst`, `settled` | the admission lease; its holder's snapshot and the reservations it found settled |
| `reserved`, `acknowledged`, `starting` | `order_exposure_reservations` |
| `row`, `rowFilled`, `posFilled` | the broker's order book and position book |
| `ReadPositions`, `ReadOrders`, `Classify` | the two reads, `reconcile_reserved_exit`, `own_exit_already_pending`, `classify_reduce_only`, `reserve_exit` |
| `Snapshot`, `Admit`, `Refuse`, `NoSnapshot` | `gather_safety_state`, `check_order`, `gate_order`, `reserve`; the lease closes on every refusal |
| `Invoke`, `FailBeforeInvoke`, `Cancelled`, `Acknowledge`, `NoAnswer` | the router task and how the request leaves it |
| `Fill`, `End`, `ShowRow`, `ShowFills`, `ShowAll`, `Crash` | the broker, its books, the process |

A request whose wait times out has left, while its router task may still invoke the
adapter or be cancelled before it does; holds die with the process and reservations do
not.  A snapshot is one step because `_read_stable_accounting_snapshot` reads until two
reads agree and both books only move forward.  Quantities are small integers, exact as
in the code.  The layers that compare prices, margins, greeks and losses, Laya and the
gate may refuse any order, so nothing shown here depends on them.

- `LooseIsCounted`: an order that may still execute, or whose fills the position book
  does not show, is reserved or in the order book, whatever timed out, was answered
  without an id, or crashed.
- `WithinPositionLimit`: contracts with a position or a working order never exceed
  `max_positions`.
- `UntornExitsNeverFlip`: exits that qualified as reduce-only never turn a position
  around, unless a fill showed between the two reads of a classification.

The first two speak of orders that do not overlap on a contract (`overlapped`): see
the remarks below.  The third speaks of a broker that updates its books together and
of one process, because `reduce_only.py` claims neither coherent evidence nor restart
safety.

Bounds: two exits of one position (one whole, one half) and an entry elsewhere, with
room for one position, so that the entry fits exactly when the exits have really
filled; one crash.  The run ends when its three orders have.

### Proofs

For every finite set of orders and contracts, any quantities, positions and limit, and
any number of crashes, `OrderAdmissionProofs` proves

- `LooseAreCounted`: `Spec => []LooseIsCounted`
- `PositionLimitHolds`: `StartsWithin /\ Spec => []WithinPositionLimit`, where
  `StartsWithin` says that the account does not begin with more positions than the limit
- `ExitsKeepTheSign`: `Spec => []UntornExitsNeverFlip`

Positions and pending exits are sums over the orders of a contract
(`SumFunctionOnSet`), so the module begins with the facts about sums it needs: the
recursive function exists on finite sets (shown from the well-foundedness of strict
inclusion and of the naturals, not by an induction theorem with an operator parameter),
any element may be taken out of a sum, sums add up and are monotone.

None of the three properties is inductive.  The invariant `AdmissionInv` adds

- `CountInv`: a loose order that overlaps with no other is reserved and not settled, it
  alone moves its contract, and the position book shows exactly where it started and
  what of its fills it shows, so that `_reservation_fill_is_represented` cannot mistake
  another order's fill for its own;
- `LimitInv`: the snapshot of the lease's holder still counts every exposed contract,
  though fills and cancellations go on while it is used;
- `LockInv`, `HoldInv`, `PendingInv`: one classification of a contract at a time, every
  exit that may still fill has a hold which the write-back does not drop, and what a
  classification has read as pending is at least what the exits whose rows it saw may
  still fill;
- `FlipInv`: on a contract that only exits have reached, the live exits oppose the
  position and all of them together do not exceed it.

## EntryApprovals

| Model | Code |
|---|---|
| `status`, `uncertain`, `symbol`, `producer` | the rows of `approval_requests` |
| `dispatch`, `late` | how far the approval of a claimed intent is; router tasks nobody waits for |
| `session`, `alive`, `phase`, `stopRequested`, `squareOff`, `again` | the `_RUNNER` slot and the state of `run_session` |
| `entryIntents`, `tracked`, `posted` | the sink's `entry_intents`, `active_positions`, `record_approved_entry` calls waiting on the session's loop |
| `Propose`, `Retry` | `execute` with `_persist` |
| `Claim`, `Close`, `Resolve` | `claim_for_dispatch`; `reject` and `_expire_stale`; `mark_approved` and `mark_failed` |
| `Check`, `Refuse`, `Send`, `Timeout`, `SendLate`, `Answer`, `Record`, `RecordApprovedEntry` | `dispatch_action_center_approval` |
| `Start`, `MonitorExit`, `RequestStop`, `BeginSquareOff`, `SquareOffOne`, `FinishSquareOff`, `LeaveLoop`, `Fail`, `EndThread` | the session's thread |
| `CrashRestart` | process death and `_reconcile_interrupted_dispatches` |

- `OutcomesAreTrue`: what the queue says of a closed request is what happened at the
  broker; only requests flagged uncertain may go either way.
- `OneEntryPerSymbol`: a session enters a symbol at most once, through time-outs,
  failed inserts, retries, second approvals and restarts.
- `SquaredOffMeansExited`: a session reports itself flat only when every entry it was
  told of has an accepted exit, those recorded during the square-off included.
- `DispatchesResolve`, `StopsEnd`: a claimed request is closed unless the store refuses
  to, and a session that was asked to stop ends.

Fairness: weak fairness of the steps of one approval, because each wait of its request
thread has a deadline (30 s for the admission lease, 45 s for `run_sync`, 5 s for
`record_approved_entry`); and of the session's thread once it has left its trading
loop, which assumes that its exit orders return.  An exception (`Fail`), the operator,
new proposals and late broker calls get no fairness.

Bounds: two intents are a retry, a replacement or two symbols; two sessions are an
approval of the last session's intent; one crash.  The run ends when they are used up.

`EntryApprovalsProofs` proves the three safety properties (`OutcomesStayTrue`,
`EntriesAreSingle`, `SquareOffsAreComplete`) for any nonempty set of symbols and any number of
intents, sessions and crashes.  `ApprovalsInv` is the inductive invariant.  `RowInv`: from
the row of an intent and the progress of its dispatch one can read off whether it has
reached the broker or still may.  `IntentInv`: of the intents a session ever had for a
symbol all but one are closed for certain, and `entryIntents` names that one while the
session lives; this is what `_persist` relies on when it replaces an intent or retries an
insert, and with `RowInv` it gives `OneEntryPerSymbol`.  `SessionInv`: what a live session
was told of it tracks or has exited, so a square-off that finds nothing tracked has
exited everything.

## AccountTransactions

Connecting, rotating or removing a broker account is one decision over two stores that
cannot commit together.  The vault (SQLite) holds the operation's row, the claim that
admits one operation at a time, the credentials and the head, the witness of the last
committed operation.  `workspace.json` holds the account's registration and the witness
of the last one written to it.  The workspace write decides; the vault follows.

| Model | Code |
|---|---|
| `row`, `claim`, `head`, `cred`, `present` | the vault: operation ledger, active claim, head witness, credential version, whether the account has credentials |
| `ws`, `disk` | `workspace.json` as a reader sees it, and as a power loss leaves it |
| `at`, `saved` | where the coordinator is, and the `mutate` that `recover()` interrupted at an await |
| `lane`, `revoked`, `drain`, `worker`, `fresh`, `old` | the mutation lease: its retirement, its authentication worker, custody of the new and of the retired session |
| `live`, `reads` | the registry session, the read generation built on it |
| `Mutate`, `Admit`, `RevokeReads`, `Drained`, `DrainTimesOut`, `LaneLost`, `RetireTarget` | `mutate` up to the retirement of the old session |
| `Dispatch`, `WorkerEnds`, `AwaitWorker`, `StagePlan`, `Cancel` | authentication under `run_worker`, the staged plan, cancellation of the caller |
| `MarkAttempted`, `WriteWorkspace`, `SyncWitness`, `Apply` | `_commit` and `_apply` |
| `Publish`, `Rebuild` | `_publish`, `BrokerAccountReadRuntime.rebuild` |
| `DisposeOperation`, `AbandonCommitted`, `RejectOperation`, `LatchConflict` | `abandon` after a failure, and the latch of `_operation_locked` |
| `BeginRecovery`, `RecoverIdle`, `RecoverOperation` | `recover` |
| `StartCleanup`, `CleanupEnds`, `RetryDrain`, `ReleaseClaim`, `GiveUp` | `settle` of the lifecycle owner and `_settle` |
| `EditWorkspace`, `EditBrokerDomain`, `Crash` | other writers of the workspace, an edit by hand, process death and power loss |

A step is one vault transaction, one workspace write, one registry call or one await.
Each call may raise without effect or after it.  A crash loses the process; a power
loss also loses a replaced file that was not synchronised.  The account's domain has two
values, registered or not, which is also its digest; RECONNECT takes the path of ROTATE.

- `StoresAgree`: an operation the vault denied has no witness in the workspace, and the
  vault's head never runs ahead of what a power loss leaves of the workspace.
- `OncePerOperation`: through replays, recoveries and lost answers an operation calls
  the provider at most once and writes the workspace at most once.
- `FreeClaimIsQuiet`: when the claim is free, no authentication is running, no session
  waits for its cleanup and the stores agree.
- `LiveSessionIsCurrent`: a session in the registry carries the current credential and
  domain, its payload is in nobody's cleanup, and it is not removed under its readers.

Bounds: two operations are one and the next it admits, or one and its rival; one fault,
one crash, one unrelated and one foreign edit.  Two faults, one in the operation and one
in its disposition, were checked too (7.8 million states), and two crashes without the
foreign edit; the proofs below need no bound.
Deadlock is not checked: the run ends when its operations are settled, or when an
uncertain one keeps its claim, as the code intends.

`AccountTransactionsProofs` proves the four properties for any set of operations and any
number of faults, crashes and edits (`StoresDecideAlike`, `ChangesHappenOnce`,
`ReleasedClaimIsQuiet`, `ServedSessionIsCurrent`).  The inductive invariant
`TransactionInv` says what a fault or a crash may find at each point of the section:

- `ControlInv`, `ClaimInv`: what the coordinator is doing, what a nested `recover()`
  returns to, and that both work on the operation that holds the claim; every other
  operation is closed.
- `RowInv`, `StageInv`: what the durable stage of an operation says about its provider
  call and its workspace write, and the stages possible at each point of the code, so that
  a replay or a recovery never repeats either.
- `FileInv`: each copy of the workspace, the one read and the one a power loss leaves,
  carries the vault's head or the witness of the one operation being decided, which is
  then attempted and not yet denied.  `StoresAgree` follows from this.
- `CustodyInv`, `SessionInv`: who owns the new and the retired session while the worker,
  the claim and the registry change hands.

No fairness and no liveness: an operation whose workspace write may or may not have
happened keeps its claim by design, so no end is promised.  The
coordinator is complete and tested (`test_broker_account_transactions.py`), but
`broker_account_cutover.py` still refuses new mutations in production.

## StrategyRunner

One `StrategyRunner`, from its registration until `register()` puts another in its place,
and the calls that race on it.  The scheduler, the runner and its loop share one event
loop, so a step is what happens between two awaits; only synchronous hook bodies run
elsewhere, on worker threads that nothing can interrupt.

| Model | Code |
|---|---|
| `runner` | `_running`, `_cleanup_required`, `_quarantined`, `_retired`, `_stop_request_count`, `_stop_failed`, the two hook tasks, the loop's task, the transition lock, the strategy's state |
| `schedLock` | `_scheduler_transition_lock`; held by a `stop_all` it is also `_aggregate_stop_active` |
| `call` | each call in progress: where it waits, whether an aggregate stop superseded it, the lease of a callback it was made from |
| `revoked` | routes that stopped waiting for their start |
| `StartOne`, `StartDirectly`, `StartAdmitted`, `StartLocked`, `StartHookEnded`, `StartHookTimesOut` | `start_one`, `_start_registered_runner_under_transition`, `start` |
| `Revoke`, `SubmitRollback`, `RollbackUnanswered` | `start_one_threadsafe` after its time-out |
| `CallStop`, `StopAdmitted`, `StopLocked`, `StopContinues`, `StopCompletes`, `StopHookFails`, `StopTimesOut` | `stop_one`, `stop_all`, `stop` |
| `DrainTries`, `DrainExpires`, `DrainGivesUp`, `DrainEnds` | `_drain_failed_start` |
| `LoopTicks` ... `LoopCancelled`, `CallbackStops` | `_run_loop`, `_tick`, `_handle_square_off`; `stop()` or `stop_all()` called by the strategy itself |
| `HookBegins`, `StartHookRuns`, `StopHookRuns`, `Pause`, `Resume`, `Register` | hook bodies and the other writers |

A hook is a task that has not begun, runs on a worker, runs on the event loop or has
ended.  Cancelling it ends the first, may end the third and does nothing to the second.
`orphan` is history: a hook or a loop still ran when its only reference was dropped.

- `OneLifecycleActs`: a start hook never runs beside a stop hook or a tick loop, nothing
  that still runs is forgotten, and a runner that was replaced stays quiet.
- `OwnershipIsExact`: the transition lock is held only in waits that have a deadline (the
  scheduler lock also while waiting for it), and the stop
  requests counted are exactly the stops in progress, whatever was cancelled on the way;
  one too many would refuse every later start.

Abstractions: every deadline may expire at any moment, the grace for a worker's result
included; a cancelled hook counts as failed; a hook may return or raise with or without
the transition of `BaseStrategy`; a market that is closed or a quote that is missing is a
tick that returns; the stop a callback makes is `stop()` or `stop_all()`, awaited or left
to a task; one rollback at a time.  A route revokes its start before that has failed,
since a start that failed drains the runner either way; that it stops waiting for the
rollback and quarantines the runner is one step, at any moment of the rollback.

Bounds: two callers are a start and its rival, or a start and the stop that interrupts
it, next to a rollback and a stop made by a callback.  Nothing else is bounded: the calls
may be repeated without end until the runner is replaced, so deadlock is checked, and no
reachable state is stuck.  There is no liveness property: that a stop
returns follows from its deadlines, and that a stop succeeds depends on the strategy.

`StrategyRunnerProofs` proves both properties for any finite set of callers
(`LifecyclesAreExclusive`, `LocksAreOwned`).  `OwnershipIsExact` rests on `LocksInv` and
`RequestsInv`: the transition lock is held by exactly the call that is in a wait under
it, and `_stop_request_count` is the number of calls that are stopping.
`OneLifecycleActs` needs `LifecycleInv` besides: a tick loop or a start hook that runs has
`_cleanup_required` set; a stop hook has too, or its stop has failed or still holds the
lock; and the waits of `start` and `stop` under the lock know which task and hooks they
exclude.  A start is refused for each of these reasons, so it meets nothing that runs.
`CallersAssumption` only keeps the callers apart from the
names of the rollback and the tick loop.

## Runs

| Run | Shows |
|---|---|
| `ks_journals` | Two overlapping activations, a writer, a reset, router rebuilds and a crash, over a working journal and over one that may fail at any write, be unavailable at startup or degrade; every behaviour is one of the abstract emergency latch. |
| `ks_returns` | A dispatcher without a generation lease: three activations interleave inside the reservation loop and wait for accounts each other owns; no account is swept twice at once, and all return because of the reservation deadline. |
| `intents_journals` | Both emergency sources flatten two positions with lost, late, garbled and refused answers and lagging reads: over a working journal with a crash anywhere, and over storage that fails at any call of the process that created it. |
| `intents_collision` (violation) | Storage fails in a process started over a journal that already handed out ids: mirror ids are looked up as durable ids and a position is exited twice. |
| `mtm_journals` | Three sessions with overlapping checks, an in-flight write, roll-overs, daily resets and a crash: two accounts over a working journal, one over a journal whose every call may fail, committed or not; every behaviour of an account is one of the abstract emergency latch. |
| `mtm_day` (violation) | A breach whose durable renewal fails while an earlier session's episode is still active: the next write rolls the earlier episode over and is admitted on the day of the breach. |
| `lifecycle_ledgers` | Two concurrent writes of equal orders with a router rebuild, a restart, snapshots and operator decisions: on a working ledger with a lapsing backend lease, and with an emergency write on one whose every transaction may raise, committed or not. An unknown outcome blocks normal writes until it is resolved, a decision contradicts the broker only through a snapshot stamped before the write it judges, and failure records stay truthful. |
| `lifecycle_race` (violation) | A snapshot stamped before a write is invoked and read after it makes the write's order look older than the write. |
| `admission` | Two exits of an operator race on one contract while a strategy wants to open another, with room for one position: lagging books, partial fills, lost and late answers, failed reads and a crash. |
| `approvals` | Two sessions of the agent propose entries for two symbols; approvals, expiries, stops, square-offs, late broker calls, a failing store and a crash interleave. Every claimed intent is closed and every stopped session ends. |
| `accounts` | Two account changes with replays, cancellations, expired drains and authentications, recovery at any wait, a call that raises before or after its effect, a crash or power loss, an unrelated and a foreign edit of the workspace: the vault and the workspace decide alike, and the claim, the lane and the live session follow. |
| `runner` | Two callers start and stop one strategy while its loop ticks, squares off, or stops its own runner, routes give up and roll back, and hooks overrun their deadlines on workers: no lifecycle runs beside another, and no lock or stop request is left behind. |

Between 300,000 and 9,300,000 distinct states each for the passing runs, in
about four minutes at most.  `tlc -workers 2 -config MCOrderAdmission.cfg
MCOrderAdmission` runs one; `tlapm StrategyRunnerProofs.tla` checks the proofs of one
module, in five to twelve minutes.
`TypeOK` is proved in the modules with proofs; in the others it documents the
state and holds on the same instances.  The inductive invariants were model-checked on
the instances of the runs before they were proved.  Each module carries, next to the definitions they distort,
the mutants that show its properties can fail.

## Where the code and its documentation disagree

Three violation runs, whose counterexamples follow the code:

1. **Intent ids after a restart** (`intents_collision`, `emergency_intents.py:614`).
   A mirror id is looked up as a durable id and may name another intent; releasing
   one position's intent drops another's protection and it is exited twice.
2. **Latch shorter than the day** (`mtm_day`, `safety.py:4540`).  With an older
   episode whose renewal failed, the admission takes the older session's key,
   rolls the latch over and admits a write on the day of the breach.
3. **Snapshot older than its book** (`lifecycle_race`, `local_state_provider.py:2122`).
   An order read after its snapshot's timestamp is stored as older than its own
   write; "applied" is then refused and "not applied" accepted while the order
   stands in the snapshot.
Four more that a changed configuration shows:

4. **Exit between two reads** (`order_routes.py:850`).  The positions
   are read, an earlier exit's fill shows in both books, the order book is read: the
   old position counts, the finished exit does not, and a second exit qualifies and
   turns the position around.  `docs/ORDER_SAFETY.md:289` promises a close "without
   changing its sign"; `reduce_only.py:5` claims no coherent evidence.
   `ExitsNeverFlip` fails in the instance of `admission`.
5. **Unknown outcome forgotten** (`router.py:821`).  `mark_outcome_unknown` is
   tried once after a failed adapter call.  If that write rolls back, the row
   stays INVOKED, only that generation's memory blocks writes, and the next
   generation admits them, although `docs/ORDER_SAFETY.md:335` says the ledger
   "records `OUTCOME_UNKNOWN` and blocks later normal writes".
   `UnknownBlocksWrites` fails over a failing ledger without its condition `~faulty`.
6. **Storage vetoes a flatten** (`safety.py:4499`).  The roll-over that precedes a
   new breach raises out of `check_and_act` when storage fails, before any flatten
   is started; `safety.py:4619` says of the handler that "a dead durable store must
   not veto the account flatten".  `NeverVetoed` fails over storage that may fail.
7. **Mirror overrules the journal** (`emergency_intents.py:803`).  After a restart
   `settle` can report a conflict although durable storage, which
   `emergency_intents.py:518` calls "authoritative while it is healthy", has
   settled.  `DurableSettlementDecides` fails with `UsedIds = 0` and one crash.

Two orders under way on one contract are the exception `overlapped` of OrderAdmission
names.  `_reservation_fill_is_represented` compares the position with the one the order
started from, so the fill of one order can settle the reservation of another whose own
fill is not shown yet, and the position limit can then be exceeded; `l2_state.py:1414`
means to keep the reservation until "the resulting position has propagated".  Also there:
`_is_strict_reduction` is judged on the projected position of each order alone, so two
sells at the limit may both pass as reductions.  `reconcile_reserved_exit` writes back a
copy of the bound exits; an order id noted meanwhile is lost, and its quantity stays
reserved until a restart.  A reservation without an order id is projected for good.
`exit_pending` is answered only while no book row shows the earlier exit, although
`docs/ORDER_SAFETY.md:291` says "while this desk's earlier exit remains unfilled"; the
quantity of that row counts in the classification instead.

In EntryApprovals: `request_stop` says that "no position is left unmanaged"
(`autonomous_agent.py:1480`), but an approval past its session check when the stop comes
still sends its entry, and may find no loop to record it on; `SquaredOffMeansExited`
speaks of the entries the session was told of.  A proposal whose first insert failed keeps its symbol for the session: a different order for it is refused.  A
`mark_approved` or `mark_failed` that raises leaves the row dispatching until a restart
(`unmarked`).

Met while modelling elsewhere, with no document that says otherwise: an emergency write
whose outcome is unknown puts no fault in the router, so its resolution can
complete only after a rebuild or restart; an emergency write whose invocation
marker cannot be stored is recovered as failed before invocation (hence
`FailedMeansNotEntered` speaks of normal writes); health set by
`mark_health_critical` has no operation that clears it; a write past both checks
is still invoked after another's outcome has become unknown; a kill-switch reset
whose durable deactivation commits and then raises keeps the latch without an
episode, and later resets are refused until an activation or a restart.

In AccountTransactions, where the comments call an uncertain operation "owned": a
`mark_workspace_attempted` that raises after its commit, or a workspace write that raises
without effect, keeps the claim for good although nothing was written.  A power loss that
takes an unsynchronised unrelated edit with it can leave the workspace below the
generation a request expects, and recovery then blocks the operation as foreign.  A
`release_claim` that raises after a published commit makes the disposition mark the
operation abandoned: its outcome reads "session unavailable" while its session is live.
An ADMITTED operation that was abandoned is resolved only by `recover()`, since a replay
abandons it for another reason and conflicts.

In StrategyRunner: `pause()` says "loop continues but skips on_tick"
(`scheduler.py:1154`), but a pause that comes while a tick waits for its quote or its
callback ends the loop, because `_run_loop` leaves when the state is not ACTIVE after the
tick; a later `resume()` does not tick again.  A callback that stops its runner and then
raises leaves the state at ERROR, and the first `stop()` after it reuses the finished
hook, so a second one is needed.  A quarantined runner can be started again once
nothing else is owned, and a start that times out on the name of a running strategy rolls
that one back.  A rollback that is not answered may quarantine a runner replaced
meanwhile, whose stop hook then runs once more.

## Limits

Only model-checked: liveness (`ActivationReturns`, `DispatchesResolve`, `StopsEnd`), since
the prover handles neither fairness nor `ENABLED`.

Not modelled: the components of the inventory that no module above names.  The
daily-loss store and the safety context (where OrderAdmission lets the layer refuse any
order), bracket orders (sequences of the writes that are modelled) and service connections
are in the plan.  The live routes of baskets, splits and options orders answer every valid
request with 501, and the owner of live copy trading refuses to start, so there is nothing
to model yet.  In StrategyRunner: several strategies at once, market hours and cron
schedules.  In AccountTransactions: enrolment,
the audit outbox and the shutdown drain.  In OrderAdmission: modify and cancel requests,
batches and the Practice engine.  In EntryApprovals: signals, sizing, learning, and the
in-memory `ActionCenter`.  Broker adapters, credentials, market data, backtesting, AI
services and user interfaces are I/O, numerical or presentation code without shared
order state; adapters appear only through the answers they may give.
