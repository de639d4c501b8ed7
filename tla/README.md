# TLA+ models of the order and data path of Algo-Trading-Skills

This directory models the part of the library where a mistake costs money and a
unit test hardly reaches: the code that places orders, cancels them and stops
trading, and the code around it that brings fills and ticks in, keeps sessions and
credentials alive and decides whether a service or an account may be called. The models are translated from the Python sources under
`skills/*/scripts/`; `PROJECT.json` maps every definition to its lines.

## 1. The system

The repository is a library of 501 *skills*. A skill is a `SKILL.md`, references
and one importable Python module with its tests; skills do not import each other.
Programs compose them: `examples/01_resilient_order_execution_and_circuit_breaker.py`
is the composition this project is about:

    token probe -> kill switch: check_proposed_order -> order router: place_order
                -> kill switch: check_pnl_and_drawdown

| Component (source) | State it keeps | Operations | What is hard | What makes it correct |
|---|---|---|---|---|
| Order ledger (`order_ledger.py`, `OrderLedger`) | SQLite table of intents: status, linked broker ids, creation time; archive of released rows | `record_intent`, `update_status`, `release_intent`, `unresolved` | durability, illegal transitions | a settled row is final; a release loses nothing |
| Order router (`order_ledger.py`, `IdempotentOrderRouter`) | one lock; the ledger | `place_order`, `recover_unresolved` | lost answers, late requests, threads on the same key, crashes between claim, send and record | one live order per intent, ever; what callers are told is true |
| Kill switch (`circuit_breaker.py`, `KillSwitchCircuitBreaker`) | halt flag and cause, high-water mark, rejection count, audit log; one re-entrant lock | order check, PnL check, cash flow, position reconciliation, manual kill, re-enable | several threads find a breach at once; the halt response runs under the lock; positions are read outside it | a halt is answered once, never blocks de-risking, misses no drawdown |
| Cancel manager (`cancel_manager.py`, `IdempotentCancelManager`) | bounded cache of answers, table of dispatches in flight | `cancel_order_idempotent` | cancel against fill, lost replies, waiters on a dispatch, eviction | a working order is never reported gone; one dispatch per id |
| FIX session (`fix_protocol_session_management_across_venues.py`) | session state, both sequence numbers, bounded resend buffer, outstanding TestRequest | logon, logout, process a message, poll timers, answer a ResendRequest | lost, replayed and reset numbers over reconnects | a fill is applied once, in order, never skipped; a replay is faithful |
| Tick pipeline (`tick_pipeline.py`) | one bounded queue and task per worker, handoff count, metrics | submit from the loop or a foreign thread, start, stop with a drain | two threads, an event loop that closes, restarts with leftovers | every tick is somewhere exactly once, in order; a drain loses nothing |
| Downstream breaker (`circuit_breaker.py` of the downstream skill) | circuit, generation, probe slots, escalating timeout | permit, success, failure, reset, force open | late answers from an earlier generation | slots count the probes in flight; a close is earned |
| Fill webhooks (`webhook_consumer.py`) | claims with an age, sequence numbers seen per order | verify, claim, record, report missing | at-least-once delivery, clocks, expiry, capacity | an execution is applied at most once; what is missing is reported |
| Token probe (`token_probe.py`) | observed token lifespans | probe, verify and refresh | two callers both log in | no login while the verdict is open; a returned token worked |
| Graceful shutdown (`graceful_shutdown.py`) | state, queue, detached batch | signal, manual trigger, drain and flush, commit | sinks that take part of a batch, kills at any step | no tick below the committed offset is lost |
| WebSocket recovery (`ws_recovery.py`) | watermark per symbol, latch of unsynchronised symbols, connection state | ingest, gap fill, reconnect, resynchronize | lost and repeated frames, partial fills, a second thread that rebuilds | a book has no hole and no repetition |
| Broker failover (`failover_router.py`) | circuit with generations and probe permits, Retry-After, cached positions | submit (open, reduce), set position, manual reset and open | a call fails although the order was taken; threads between check and fill | no order live in two accounts; no caller is told a live order was refused |
| Secrets rotation (`secrets_rotator.py`) | active and previous credential, leases, overlap window | use, rotate, fall back, revoke, reseed | the candidate is probed without the lock; a revocation that raises may have worked | no live credential is forgotten, no used one is revoked |
| Rebalance guard (`rebalance_guard.py`) | partitions owned, buffered messages, last offsets, bounded cache of keys | assigned, revoked, lost, process a message | flush and commit fail half-way; the group moves on first; a worker still has a message in hand | no offset committed past unexecuted work; an owner runs nothing again that was committed |
| The other skills | mostly none across calls | calculations, adapters, checks | few of them are concurrent | see section 7 |
| `tools/`, `site/`, `docs/` | generated files | generation, validation | nothing concurrent | not modelled |

The components interact through the program that composes them, not with each
other: a strategy thread carries a position from the broker to the kill switch
and an approval from there to the router; the kill switch calls back into the
program (`flatten_fn`), which calls the kill switch again; router and cancel
manager call the broker through functions the program supplies. What a component
may rely on is therefore exactly what its own lock and its own storage give it,
and the hazards in `PROJECT.json` sit where that ends.

## 2. The modules

| Module | Models | Extends |
|---|---|---|
| `OrderResponse` | `classify_broker_response`, and what an honest broker may answer | |
| `OrderLedger` | ledger rows and their transitions | |
| `OrderRouter` | the router's threads, lock and ledger, the broker, the wire, crashes | the two above |
| `OrderIntent` | abstract specification: an intent is claimed, reaches the market at most once, is settled truthfully or given back | |
| `KillSwitch` | the breaker, strategies, monitor, reconciler, operator, halt response | |
| `CancelManager` | the manager's threads, cache and claims, the broker and its order | |
| `FixSession` | the session engine, its caller, the venue and the connection | |
| `TickPipeline` | the partitioned pipeline, a foreign thread, the event loop | |
| `DownstreamBreaker` | the breaker around one service, its callers, an operator, a clock | |
| `WebhookFills` | request threads of the webhook consumer, the publisher's deliveries, a clock | |
| `TokenProbe` | callers of `verify_and_refresh_token`, the broker's tokens | |
| `GracefulShutdown` | ingress, signals, drain, commit, kills and restarts | |
| `WsRecovery` | reader and health thread, the venue's frames, the gap fill | |
| `BrokerFailover` | strategy threads, two accounts, the circuit, an operator | |
| `SecretsRotator` | threads that rotate, sign, fall back and revoke, the venue's keys | |
| `RebalanceGuard` | the guards of several workers, their consumer group | |
| `MCOrderRouter`, `MCKillSwitch`, `MCCancelManager`, `MCTickPipeline` | the instances of one module for TLC | the module |
| `MCSuite` | one run for the ten modules from `FixSession` on | those ten |
| `OrderRouterProofs`, `KillSwitchProofs`, `CancelManagerProofs` | the theorems about one module | it, `TLAPS` |
| `StreamProofs` | theorems about `GracefulShutdown` and `WsRecovery` | both, `TLAPS` |
| `CredentialProofs` | theorems about `TokenProbe` and `SecretsRotator` | both, `TLAPS` |
| `CircuitProofs` | theorems about `DownstreamBreaker` and `BrokerFailover` | both, `TLAPS` |
| `FillProofs` | theorems about `WebhookFills` and `FixSession` | both, `TLAPS` |
| `ConsumerProofs` | theorems about `RebalanceGuard` and `TickPipeline` | both, `TLAPS` |

Definitions after a comment that begins with *Mutant* are deliberate
errors. No specification uses them; `PROJECT.json` lists which definition each one
replaces and which property must then fail.

### OrderRouter

`orders` is the ledger file: it survives a crash, and each transition is atomic
because each is one SQLite transaction. `archive` counts the rows of
`released_intents`. `clock` stands for `time.time()` and only orders claims and
sweeps. Everything else of the process is volatile: `sendLock`, and per thread a
program counter, the key at hand, what it last saw of the broker and a frame of
locals. A call of `place_order` is the sequence

    PlaceOrder -> LockAndClaim -> Send -> Respond | SendRaises -> Record
               -> HandleExisting           [-> QueryBook | QueryFails -> Apply]
               [-> Reclaim -> Send -> ...]

cut at each point where the code gives control away (lock, broker call, durable
write), so that another thread, the broker or a crash can act in between.
`RecoverUnresolved`, `SweepLock` and `Sweep` are the recovery sweep, which shares
`QueryBook` and `Apply`.

The broker is external. It processes each request at most once, refuses it at the
door or makes orders of it (`Receive`), and answers from `Honest`: it never calls
a live order refused and never invents an id, but may put a gateway fault, an
unknown error or an unreadable body on top of any outcome. Its book shows every
order of the session, as the docstring of `place_order` demands, possibly with a
status that says nothing or without a readable id. `LateDelivery` says whether a
request may still be under way when the book is read. Broker orders keep the
request they came from, so that two orders of one key can be told apart.

Keys are model values: `make_idempotency_key` is not modelled. `SameAttributes`
makes every order look alike, the worst case for matching by attributes; the time
window of that match may exclude any entry.

### KillSwitch

Every method holds the re-entrant lock from start to end and is one action. The
exception is a halt: `_trigger_halt` calls `alert_fn` and `flatten_fn` with the lock
held, and in `response` these calls are steps of their own, during which other
methods block but strategies with an approval still trade. `flatten_fn` is modelled
as the class docstring describes it: it reads the position, asks
`check_proposed_order` on the same thread, and is filled or raises. Percentages are
fractions of integers; `NoValue` is `None`. `seenEquity` and `lastEquity` observe
what the monitor was shown, so that the high-water mark can be compared with
something the breaker does not compute itself. Logs other than the audit log of
the current halt are left out, and so are inputs that are refused without any
effect (a NaN size, a re-enable without a name).

### CancelManager

One order is cancelled under client cancel ids. A call is
`CancelOrder -> ClaimOrWait`, then either `Call -> Decide` in a loop,
`StoreResult -> Release -> SetEvent`, or a wait that ends by the event or by its
timeout. Release (pop under the lock) and SetEvent (outside it) are two steps
because a third thread can claim the id in between. A reply is a class of HTTP
status and the pattern family that matches its text: the regular expressions are
not modelled, only the order in which they are tried. The broker may cancel at
once or make the order pending; a pending order may be cancelled, filled or work
on; a request whose reply is lost may have taken effect, may be lost or may arrive
later (`stray`).

### FixSession

The engine is one record; its methods are operators from a record and a message to the
next record, the messages sent and whether the caller may apply the message
(`Outcome`). `Process` is `process_inbound_msg` with its dispatch order: identity, Logon,
Reset mode, too low, gap, in sequence. The venue numbers everything it sends, also while
the connection is down, replays from a complete history with administrative messages
gap-filled, and may give up fills with a Reset (`jumped`). A timer may be due at any poll,
so time is nondeterministic. The caller asks for a sequence reset at Logon until it has
been confirmed; the engine cannot check this.

### TickPipeline

Code on the event loop is atomic between awaits: a worker's turn is one step. The foreign
thread is cut between its lock regions (`OnMessage`, `Handoff`, `Post`,
`EnqueueFromHandoff`). `stop_consumers` is four steps, because it awaits: the sentinels,
the wait, count and cancel, the end. There is one stop at a time and no start during it,
as for lifecycle methods with one owner; a closed loop makes posts fail.

### DownstreamBreaker, BrokerFailover

Both are circuits with generations, and in both the call to the service runs without the
lock, so that its outcome is recorded in whatever state the circuit is by then.
`DownstreamBreaker` keeps a clock, because its timeout escalates; jitter is 0.
`BrokerFailover` keeps two flags instead (recovery timeout elapsed, inside Retry-After)
and every broker call, permit, generation read and fill as its own step. A broker that
raises may have taken the order exactly when `MayBeLive` says so; an accepted order is
filled; `set_position` is called with the broker's own figure while no call is under way.

### WebhookFills

`Deliver` verifies freshness without the lock, `ClaimExecution` claims under it (with the
sweep and the capacity), `RecordSequence` records. `claims` is the ordered dictionary of
claims: a set of records with their place in the order of insertion, so that the capacity
drops the oldest. Between the first two a request stalls
for at most `MaxStall`. `WebhookAssumption` asks for a retention of at least both drifts
plus that stall: the constructor does not check this, and without it an execution is
applied twice.

### TokenProbe, GracefulShutdown, WsRecovery

`TokenProbe`: the manager takes no lock, so every probe and login is a step; `wasLive` and
`wasDead` observe the broker's tokens during a call. `GracefulShutdown`: a tick is its
offset; a kill keeps what the sink has (`durable`) and the committed offset.
`IngressIsJoined` says that the program waits for an ingress callback that passed the gate
before the drain ends; a commit callback is configured. `WsRecovery`: any published frame
may arrive at any time; the gap fill answers with the range, a part, something else or an
error; one reader, and `resynchronize` is called for latched symbols only.

### SecretsRotator

Credentials are numbered objects with a key id. `Rotate`, `ValidateCandidate`,
`PublishCandidate` and `EndRotate` are one `rotate` call; everything else is one step
under the lock. A revocation that raises may have taken effect. `FreshKeys` says that each
credential has a key id of its own; leases are counted per object, and without this a key
can be revoked under a request.

### RebalanceGuard

One guard per worker, each method one step with its flushes and its commit. A flush that
raises may have executed a part. The group may evict a member that does not know it yet;
a commit then fails. A worker presents what it polled whenever it gets to it, also after the
partition went away and came back: nothing in the guard empties its hands. `crossed`
observes the partitions that were assigned over such a message, `settled` what was executed
and committed, and `again` the executions of settled messages together with whether the
worker still owned the partition. Flush and commit functions are configured.

`RebalanceIsSafe` has three parts. Below a committed offset everything was executed or
refused by the guard; what is settled is run again only by a worker the group had evicted;
a worker runs a message again only after its key was evicted from the cache. The first two
end, for a partition, when it is crossed: a message kept over an assignment lets the
guard skip what lies between the committed offset and it, or run what another worker
settled. That an evicted worker runs settled work again at its late revocation is possible
and reached by TLC; the cache of keys is per process, as `rebalance_guard.py:417-419` says.
What the guard refused although nobody had executed it is the subject of `rebalance_dropped`.

## 3. The runs

| Run | Instance | Checks |
|---|---|---|
| `router` | 2 threads and 1 sweep; racing: 2 keys that look alike, 2 calls, 1 crash; retrying: 1 key, up to 4 calls and 2 crashes, 5 of both | types; settled rows are true and final; no duplicate, no orphan; answers stand; sends accounted for; clean sweeps; refinement of `OrderIntent`; the lock is returned |
| `router_noecho` | 2 threads, 2 keys that look alike, 2 calls, 1 sweep, 1 crash; keys not echoed, late delivery | no broker order credited to two intents |
| `breaker` | equities -1..6 with flows -2 and 1, or 2 strategies trading; 2 rejections escalate, 2 audit entries | the high-water mark is real and no drawdown is missed; one cause and one response per halt, which ends; de-risking is open; approvals are sound |
| `cancel` | 3 threads on 1 id with 4 calls, or 2 threads on 2 ids with room for 1 answer and 3 calls | one dispatch at a time; one answer per id; no re-send after an answer; nothing false is reported; every call returns |
| `suite` | the ten modules of `MCSuite`, bounds in `Suite.cfg` | one or more safety properties of each, their types and capacities |

*Scenarios.* `MCOrderRouter`, `MCKillSwitch` and `MCCancelManager` choose one of two
scenarios in the initial state, because the product of both is out of reach. What they
leave out is a third call while two keys are in use, a drawdown found while strategies
trade (they do meet halts by the operator, the reconciler and the rejection count) and a
third thread while the cache overflows. In the same way every behaviour of `MCSuite` has a *focus*, one of the components;
the others stay in their initial state. The ten share no state in the library, so nothing
is lost by this; it is one run because the questions are of one kind. FIX has two foci
(the caller's orders, the venue's fills), and so has failover (every kind of order with an
operator, two orders; three opening orders without). Idle threads of three components are
numbers, and the least idle one begins (`LeastBegins`): the threads are alike, so this is a
choice of representatives, as a symmetry would be.

*Why these bounds are enough to matter.* Two threads and two calls suffice for
every race on the lock and on a key; the third and fourth call of the retries let
a release be followed by a re-send, a second release and a third send; two crashes
let the recovery itself be cut off. Two keys are needed for a broker order to be
credited twice and for a sweep with more than one row. Equities span ruin, break-even
and gain, and two flows can move a high-water mark below zero. Two strategies are
needed to race; a third would not meet a new lock. Three cancellers give an owner, a
waiter and one that claims between the pop and the event. In `suite` a resend buffer of 2
under 3 orders is trimmed, three fills give a gap with a fill on each side, a queue of 2
under 3 ticks is full when the drain comes, three callers and two slots leave one out,
a claim store of 2 under 3 executions overflows, three lives let a restart's own drain be
killed, three failover orders let a late answer of the first meet the probe of the third,
four credentials allow two rotations and a reseed, three assignments bring a partition back
to the worker that lost it. Symmetry of threads is used where no liveness is checked.

*Fairness.* Weak fairness of a thread's steps inside a call (`OrderRouter`,
`CancelManager`), and of the halt response (`KillSwitch`): the operating system
schedules threads, and client functions return or raise. Nothing is assumed of the
broker, which may never answer, nor of callers, operators or crashes. The lock
itself needs no fairness: the properties say that a holder lets go, not that a
particular waiter gets it. `suite` checks safety only.

Deadlock is checked in every run; the `Done` actions let bounded callers stop.

*What the passing runs assume.* No late delivery where keys are echoed (`router`);
`TreatAckAsCancelled = FALSE` and a broker that does not call a cancelled order pending
(`cancel`); `WebhookAssumption`, `IngressIsJoined` and `FreshKeys` as described in
section 2. Each is either shown to be needed by a failing run or reported
with its hazard in `PROJECT.json`.

### Runs that fail, and what they show

- `router_late` (`NoDuplicateOrder`). A request times out at the client, the book is
  read without it, the claim is released, the key is sent again, and then the first
  request arrives. "Proven not to exist; re-sending the key is safe"
  (`order_ledger.py:114`) needs a broker that has settled, or will refuse as a
  duplicate, whatever it received before the query.
- `router_slices` (`AllLegsLinked`). The direct answer to a sliced order links every
  id; after a lost answer `_match_by_key` finds the first one only, which is the
  untracked rest that `SKILL.md:207-208` warns of.
- `breaker_flatten` (`ReduceOnlyReduces`). A strategy reads its position and waits for
  the lock while a halt flattens; its closing order is then approved as reduce-only on
  the old position and opens a new one during the halt, against
  `circuit_breaker.py:9-12`.
- `cancel_pending` (`TerminalIsTrue`). The first cancel is accepted, its reply lost; the
  manager's own retry is told that the order is *pending cancel*, and the pattern list
  makes that the terminal `ALREADY_CANCELLED`. The order then fills.
  `references/standards.md:29` maps this refusal to `REJECTED`.
- `fix_stuck` (`GapIsRequested`). A gap closed by replayed application messages leaves the
  session in `RESEND_REQUEST_SENT`; the next gap is taken for the old one and never asked
  for, against `references/workflows.md:99-100` of that skill.
- `tick_sentinel` (`TickOneConsumer`). A drain that times out leaves its sentinel in the
  queue; after the next start the worker takes it and ends, and its symbols have no consumer,
  against `tick_pipeline.py:93-94`.
- `rebalance_dropped` (`DroppedWorkRuns`). A worker admits a message and loses the partition,
  or its flush raises; the message is dropped but its key stays in the cache. The partition
  comes back to the same worker, the redelivery is refused as a duplicate, the next message
  is admitted, and the following revocation commits past both. The message was never executed,
  although `rebalance_guard.py:330-331`, `257-258` and `72-74` and `SKILL.md:85` and `97-98`
  say that such work is redelivered.

Weaker disagreements, and those of `BrokerFailover` and `SecretsRotator` (two reducing orders
on one position, a permit released into another generation), are stated as hazards. Three
more there: a sweep with `stale_after_s = 0` skips rows claimed while it waited for the
lock; the position limit bounds an approval, not the position; and a symbol that has no
mapping for the secondary is reported as ambiguous by the failover, although
`failover_router.py:202-206` says that nothing about it is.

## 4. What is proved

TLAPS checks the theorems below for every value of the constants: any sets of threads,
keys, symbols, workers and partitions, any number of calls, messages, crashes and retries,
any limits. The bounds that the runs need are constants without a size here. Together the
theorems state every safety property that a passing run checks, of all thirteen components,
and the type invariant of each; `SuiteTypeOK`, which only picks one of these by the focus of
the run, is not stated as such.

| Module | Theorem | Property | Assumes |
|---|---|---|---|
| `OrderRouter` | `TypeCorrect` | `TypeOK` | |
| | `NoDuplicates`, `NoOrphans` | `NoDuplicateOrder`, `NoOrphanOrder` | no late delivery where keys are echoed |
| | `SettledRowsAreFinal` | `SettledIsFinal` | |
| | `AnswersStand`, `SendsAreAccountedFor`, `CleanSweepsAreClean` | `AnswerStands`, `SendsAccountedFor`, `CleanSweepIsClean` | |
| | `CreditsAreUnique` | `NoDoubleCredit` | |
| | `LedgerStaysTrue`, `RouterImplementsIntents` | `LedgerIsTrue`, `ImplementsIntents` | keys are echoed, no late delivery, `MaxSlices = 1` |
| `KillSwitch` | `TypeCorrect`, `HaltsAreAnswered`, `PeaksAreReal`, `NoDrawdownMissed`, `DeRiskingStaysOpen`, `ApprovalsAreSound` | `TypeOK`, `HaltIsAnswered`, `PeakIsReal`, `NoMissedDrawdown`, `DeRiskingIsOpen`, `ApprovalIsSound` | |
| `CancelManager` | `TypeCorrect`, `ClaimsAlwaysMatch`, `AnswersAlwaysAgree`, `AnsweredIdsAreNotResent` | `TypeOK`, `ClaimsMatchDispatches`, `AnswersAgree`, `AnsweredIsNotResent` | |
| | `TerminalAnswersAreTrue` | `TerminalIsTrue` | `~SaysPendingCancel` |
| `GracefulShutdown` | `NothingIsLostInShutdown` | `ShutdownLosesNothing` | `IngressIsJoined` |
| `WsRecovery` | `BooksAreWhole` | `BookIsWhole` | |
| `TokenProbe` | `TokenVerdictsHold` | `TokenVerdictsAreTrue` | |
| `SecretsRotator` | `SecretsStayTracked` | `SecretsAreTracked` | `FreshKeys` |
| `DownstreamBreaker` | `ProbesStayCounted`, `ClosesAreEarned` | `CbProbesCounted`, `CbCloseIsEarned` | |
| `BrokerFailover` | `FailoverStaysSafe` | `FailoverIsSafe` | |
| `WebhookFills` | `FillsApplyOnce`, `WhTypesHold` | `WebhookAppliedOnce`, `WhTypeOK` | |
| `FixSession` | `FixFillsApplyOnce`, `FixResendsAreFaithful`, `FixTypesHold` | `FixFillsOnce`, `FixResendIsFaithful`, `FixTypeOK` | |
| `RebalanceGuard` | `RebalancesAreSafe` | `RebalanceIsSafe` | |
| `TickPipeline` | `TicksAreConserved`, `TicksStayInOrder`, `DrainsLoseNothing` | `TickConservation`, `TickOrder`, `TickDrainLosesNothing` | |

All of them use the named assumptions on the constants of their module
(`WebhookAssumption` asks for a retention that covers both drifts and the stall). The other
assumptions in the table are hypotheses of the theorem, and each is there because TLC
finds the property violated without it: `router_late` and `cancel_pending` are runs of this
kind, `LedgerIsTrue` fails likewise with a second slice, with late delivery or without
echoed keys, and the hazards in `PROJECT.json` describe the other three. The theorems of
the modules from `GracefulShutdown` on state the module's type invariant too.

### OrderRouter

*Exposure.* "All live orders of a key come from one request" is not inductive: it
says nothing about a request still on the wire, nor about a thread on its way to send.
`RouterInv` adds both. `Exposure(k)` is the set of requests of `k` that are on the wire
or have a live order; `ExposureInv` says that it never has two members, that it is empty
while `k` has no row, that it is empty while a thread is about to send `k`, and that it
is empty while a thread carries a *miss* from the book query to the release. The last
two are facts about what one thread knows while others run, and hold because of
`LockDiscipline`: the steps between taking and leaving the lock are taken by the holder
only. Only two steps could enlarge an exposure: `Send` puts a request on the wire, and it
starts from an empty exposure; `Receive` turns a request into orders of the same request,
which adds nothing (`ExposureShrinks` covers every other step). The guard of `Send` was
established by a claim, which needs a key without a row, or by a re-claim after a release;
a release follows a miss, and a miss with an empty wire means no order (`MissMeansNoEntry`).

*Threads.* `ThreadInv` says, for each program counter, what the thread may rely on:
which rows its key can be in, how often its call has sent, which rows a sweep has still to
visit and which it has passed. Answers, sends and clean sweeps follow from it, whatever the
broker does, because rows only change under the lock and a settled row never does.

*Credits.* `NumberInv` numbers requests and orders so that no id is used twice;
`CreditInv` says that a row is linked only to orders its key may own (`Mine`): with echoed
keys those of its key, without them those not linked elsewhere when they were matched.

*Truth and refinement.* `TruthInv` strengthens exposure to the whole trace of a
key at the broker (`Footprint`: refused orders as well), and says what each verdict means
while a thread carries it to the ledger. With it every step of the router is a step
of `OrderIntent` or a stutter; the abstract variables are functions of the ledger, the wire
and the book. A sliced order breaks it, as `router_slices` shows from the other side.

### KillSwitch, CancelManager

`EpisodeInv`: while a halt's response runs, only the last audit entry may be without
an outcome. `MarkInv`: the high-water mark is the maximum of what was seen, and
no drawdown from it went unnoticed; a cross-multiplied inequality carries this from the mark
to every equity seen. `ApprovedInv`: what an approval says about the order it was
given for, kept while other threads trade. `DeRiskingStaysOpen` is a fact about the check alone.

`ClaimsMatchDispatches` is inductive together with the types and `AttemptInv`. `CacheInv`
relates the cache with the first answer of each id, and says that an id being sent is not
cached, which is what a waiter that wakes after the pop relies on. `ReplyInv`: a reply in
a thread's hands classifies truthfully until it is stored.

### The other modules

- `GracefulShutdown`: `BacklogInv` says that queue and batch are the newest offsets without
  a hole and that everything before them is durable; `DrainInv` where drain and
  ingress can be relative to each other.
- `WsRecovery`: `HandInv` says that what the reader holds continues the book of a symbol
  that is not latched; `RebuildInv` that a snapshot not yet announced belongs to a latched one.
- `TokenProbe`: `CallerInv` says what a caller has seen of the token that is live now.
- `SecretsRotator`: `RotationInv` (one rotation; its candidate was never active) and
  `TrackInv`, which extends the property to the previous credential.
- `DownstreamBreaker`: `PermitInv` says that a permit from the closed circuit is of the
  current generation only while it still is closed, so no outcome frees a slot it never took.
  `EarnInv` relates the circuit with the observers: it waits for the capped timeout that the
  failed probes have earned it (`CappedOnce`: capping at every step comes to the same as
  capping once), and a probe of this generation began after the circuit opened, so its
  success is evidence.
- `BrokerFailover`: `FoKnows` says for each step of a call where its order can be live;
  `PositionInv` that the cached position is what was held plus the confirmed lots, which
  needs finite sums.
- `WebhookFills`: `OnceInv` says that an applied execution has its claim, or that the claim
  expired and no delivery of it can be fresh any more; here the retention is used.
  `ClaimsInv` gives every claim a place of its own, so that the claims that stay are
  told apart by how many come from them onwards, a number up to the capacity.
- `FixSession`: `InboundInv` says that whatever is on its way is true of the venue's history
  (a fill under its number, a gap fill over numbers without a fill), however late it
  arrives; `HistoryInv` that the engine expects no number beyond the next one;
  `AppliedInv` extends the property to the fills that are still to come; `LinkInv` says what
  may travel before and during a Logon, which is what makes a reset harmless. The buffer is
  exact (`Sound`): it holds every number from the next one less the size on. An answer to
  a ResendRequest is a sequence made from a set of numbers; that the i-th lowest exists for
  every i up to the size is a pigeon-hole argument on ranks (`NthIs`), which needs no
  induction over the set, and `HeadsWalk` shows that neighbours in it leave no hole.
- `RebalanceGuard`: `ReadInv` accounts for every message before the next one to read;
  `KeyInv` for every key of what was executed or is buffered; `OwnerInv` says that the
  owner of a partition holds nothing below the committed offset while all that is settled
  lies below it. So what an owner runs was never settled, and a worker that was evicted
  cannot commit. `ReadInv` and `OwnerInv` speak of partitions that are not crossed; a
  partition that becomes crossed drops out of them, which is why no assumption on the
  worker's queue is needed.
- `TickPipeline`: `PlaceInv` and `OrderInv` follow the ticks of one symbol, thread and start
  along one chain (thread, posted callbacks, queue, begun) in which the numbers go up;
  `HandInv` says what a worker holds, `CountInv` adds to the equation of the counts
  that the sets it counts are finite, and `DrainInv` says that every tick
  that is due has begun or waits, ahead of any sentinel, for a worker that is not done.

Each inductive invariant was checked by TLC on a small instance before it was proved.
Some definitions were rewritten, with the same meaning, so that the prover can follow them:
the record updates of `BrokerFailover.Proceed`; the claims of `WebhookFills`, which were
a sequence; `FixSession.BuildResendResponse`, which sorted its numbers with a library
operator and now names them by rank (TLC compared the two); the observer of failed probes
in `DownstreamBreaker`, which counted them for a power and now multiplies. Three
assumptions that had been implicit are now stated: a clock skew is not the
value for "no stamp", `Nobody` is not a member, and the sentinel and the value for "no tick"
are not ticks.

## 5. What is only model-checked

- Liveness (`LockIsReturned`, `ResponseEnds`, `CallsReturn`): outside the prover's reach.
- `SuiteTypeOK` as a whole: it picks by the focus one of the ten type invariants, each of
  which is proved for its own specification.
- The runs that fail.

Neither checked nor proved is that `BuildResendResponse`, which states an answer by its
numbers, equals what the loop of `build_resend_response` appends; that is its translation.

## 6. Plan

1. *Done:* response classification, ledger, router, abstract intents, kill switch, cancel
   manager, FIX sessions, tick pipeline, downstream breaker, fill webhooks, token probe,
   graceful shutdown, WebSocket recovery, broker failover, secrets rotation, rebalances;
   the safety properties of all of these and the refinement of the abstract intents proved.
2. *Next modules:* `OrderPath` (token, kill switch and router composed as in example 01:
   every live order was approved, a halt stops everything but reductions once approvals in
   flight are spent), an operator's manual `release_intent`, the rate limiter, backpressure
   and burst buffers, gap detection, multi-signature approval, the kill switch of the
   execution algorithms.
3. *Next theorems:* the refinement of `OrderIntent` for sliced orders with a weaker notion
   of a settled row; an abstract specification of an at-most-once consumer, which
   `WebhookFills`, `FixSession` and `RebalanceGuard` would each implement.

## 7. What is not modelled

The skills listed as planned in `PROJECT.json` wait for later work. The library has about
460 modules; some 76 of them use a lock or an event loop. Those modelled here were chosen
because a wrong interleaving in them loses or repeats an order, a fill or a tick; most of
the others guard a counter or a cache with a lock around each method. The remaining modules
are numerical code over floats and data frames, adapters that build and parse requests, or
checks of a single record, which TLC would add little to. The tools, the examples 02 and 03 and the web site are
sequential. Of the modelled components, the key derivation, timestamps and time windows,
regular expressions, message texts, logging and alert contents are abstracted as
described above; SQLite is taken to be atomic and durable, which `OrderLedger.__init__`
asks of it (`durable=True`).
