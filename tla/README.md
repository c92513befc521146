# A TLA+ verification project for tooti

tooti (`mrostamii/ai-peer`) lets machines with spare capacity serve language
models over libp2p and lets gateways sell those answers through an
OpenAI-compatible HTTP API, paid from a prepaid balance or by x402 payments.
This directory models the parts of it where money or requests can get lost:
the prepaid store, the chat handlers of the gateway with their prices and their
routing, the control API (keys, deposits, providers, telemetry), the registry that
chat is routed by, and the handlers and peer reports of a provider node. The
modules are checked by TLC on small instances; their central results are proved by
TLAPS for every instance.

## 1. Inventory

| Component (code) | State it keeps | Operations | Correct when |
|---|---|---|---|
| Prepaid store (`pkg/dataplane/postgres_store.go`, `db/migrations/000{1,4,6}`) | `consumer_balances`, `balance_ledger`, `prepaid_reservations`, `x402_prepaid_topups` | reserve, finalize, credit, topup, read balance | operations are atomic, no overdraft, every hold settled once, a payment credited once, the ledger explains the balance |
| Chat handlers (`pkg/gateway/openai_proxy.go`, `x402_paywall.go`, the remote chat functions of `cmd/tooti/main.go`) | one handler per request; `usage_events` | authorize, hold or x402, failover, stream, local backend, deferred settlement and usage row | no inference without cover, charged only for answers, one reply, bounded work, each hold settled, each request ends |
| Registry and model sync (`pkg/registry/registry.go`, `cmd/tooti/main.go`, `pkg/node/{heartbeat,observe,discovery}.go`) | node records with `LastSeen` and models; DHT records | heartbeat, prune, sync, look up a model | nodes that are heard stay, dead ones go, routes follow the newest word on a node's models |
| API keys (`control_api.go`, store, `0003`) | `consumers.api_key_hash`, key history | create, revoke, rotate, self-rotate, look up | both tables agree on the key in use, a revoked key never works again, a key is replaced once |
| Deposits and topups (`control_api.go`, `x402client`, `pay_prepaid.go`, `0005`) | facilitator's settlements, local pay state | pay, settle, record, issue key, confirm a deposit | credited only when paid, and once per command and per deposit |
| Providers (`control_api.go`, store, `0001`, `0002`) | `providers`, `provider_wallet_history` | register, heartbeat, rotate wallet | a call nobody disturbs decides the active wallet; none is lost but by a failure half way |
| Telemetry (`control_api.go`, store, `0002`) | `telemetry_batches`, `usage_events` | accept a batch, insert its events; the gateway's own rows | a batch answered as stored is there, each batch is answered, a row is written once |
| Routing and pricing (`openai_proxy.go`, `x402_paywall.go`, `config.go`) | none | rank nodes, order by ping, fail over; estimate, quote and charge | the comparisons are orders, nobody tried twice, the charge is exact and the hold covers it |
| Node inference (`pkg/node/inference.go`, `health_stats.go`, `heartbeat.go`) | in-flight count, moving averages | serve a unary or streamed request, publish health | a gateway that reads gets a last message, an idle node says so |
| Node connections and discovery (`runtime.go`, `discovery.go`, `observe.go`) | connection counts, debounce timers | connect, disconnect, advertise | a connected peer is not reported gone, an absent one is, after the debounce |
| Node payment debt (`pkg/node/x402_paywall.go`) | debts per payer | charge, settle | only its tests call it |

The rest (signatures and encoding of `x402spike`, the Ollama client,
configuration, metrics, CLI, CORS, the `cmd/spike-*` programs) is input and
output, cryptography or wiring and is not modelled; `PROJECT.json` lists it.

**How they interact.** A chat handler looks the key up and reserves the
estimate in the store, asks the registry for nodes, calls them over libp2p
streams, answers the client, and in a deferred function finalizes the hold and
inserts the usage row. Heartbeats reach the registry as gossip callbacks, a
ticker prunes it, a second goroutine merges the DHT's provider records into it.
Several gateway processes share one PostgreSQL database.

**What is hard.** Row locks taken in different orders by the four store
transactions; retries of calls that already happened; clients that hang up
while the deferred function still needs their context; providers that run a
request and then fail; streams that break after the first byte; crashes between
the hold and its settlement; key rotations made of two transactions; payments that
settle while their answer is lost; wallet changes made of statements that commit on
their own; batches that insert the same requests in opposite orders and are sent
again after a failure; products that leave int64; comparisons with absent figures;
heartbeats that are late, lost or stamped by a clock that lags or is ahead; nodes that
come back with other models while their old provider records live; a sync that acts on
a snapshot; timers whose callbacks wait while the peer comes back. `PROJECT.json`
lists each as a hazard at its line, with the properties that are about it.

## 2. Modules

| Module | What it is |
|---|---|
| `PrepaidLedger` | abstract specification: each store operation in one atomic step |
| `PrepaidStore` | the same operations as SQL transactions, statement by statement, with row locks; implements `PrepaidLedger` |
| `ChatCompletion` | the chat handlers of one gateway, running on `PrepaidLedger` (`Store == INSTANCE PrepaidLedger`) |
| `Accounts` | the control API's keys, deposits and topups with the paying client, running on `PrepaidLedger` too |
| `Registry` | heartbeats, pruning and the model sync |
| `Pricing` | estimate, quote and charge of a request, in int64 |
| `Routing` | ranking, reordering by ping, and the failover loop over the candidates |
| `Providers` | registration, heartbeat and wallet rotation, statement by statement |
| `UsageLog` | abstract specification: a batch is stored whole, at once and once, or not at all |
| `Telemetry` | usage batches, on the tables of `Providers` (extends it: events refer to providers); implements `UsageLog` |
| `PeerLifecycle` | connection notices, debounce timers and the reports of a node |
| `NodeInference` | the inference handlers of a node and the health it publishes |
| `PrepaidLedgerProofs`, `PrepaidStoreProofs`, `ChatCompletionProofs`, `AccountsProofs`, `RegistryProofs`, `GatewayProofs` (`Pricing`, `Routing`), `ControlProofs` (`Providers`, `Telemetry`), `NodeProofs` (`PeerLifecycle`, `NodeInference`) | theorems and proofs about them |
| `MC*` | the instances TLC checks |

### PrepaidLedger and PrepaidStore

Money is an integer number of micro-USDC, the six decimals of `NUMERIC(20,6)`;
the Go code carries `float64` between statements, and what that rounds away is
not modelled. `balances`, `ledger`, `reservations` and `topups` are the tables;
an absent row is `NoRow`. `Reserve`, `Finalize`, `Credit` and `Topup` are
`ReservePrepaidBalance`, `FinalizePrepaidCharge`, `CreditConsumerBalance` and
`RecordX402PrepaidTopup`; calls that write nothing (a refused or repeated one)
are stuttering steps.

In `PrepaidStore` a worker is one call in any gateway process. `txn[w]` is its
transaction: the operation, the statement it is about to make, and what it has
read. Statements that can wait or branch are actions of their own in the order
of the code (`LookupFound`/`LookupMissed` for `SELECT .. FOR UPDATE` of the
reservation, `UpsertConsumer`, `InsertTopup`, `LockBalance`,
`InsertReservation`); the writes become visible with the commit, under READ
COMMITTED. `lock` holds row locks and uncommitted keys, both of which make a
conflicting statement wait. `Rollback` may come at any point: a failed
statement, a cancelled context, a dead gateway. `BeginFinalize` takes any
consumer and request, so finalizes of foreign and unknown requests are covered.

### ChatCompletion

`chat[r]` is a handler: where it is (`at`), whether the client has gone
(`r.Context()` is cancelled), what was sent, providers tried, inferences that
ran, and what the deferred function will read (`success`, `cost`). Places follow
`handleChatCompletions` and `handleChatCompletionsStream`; the two share the
actions that are the same in both, and `Streams` tells them apart elsewhere.
A unary provider call is made again once after a failure
(`buildRemoteChatFunc`), so one turn of the loop may run the request twice. The
deferred settlement runs with the request's context (`SettleHold` needs `~gone`),
the usage row without its cancellation. Prices are inputs (`Pricing` computes
them): `HoldFor` is the estimate, `Costs` what an answer may cost, `InputCost` what an
answer costs that reports no tokens. `Faults` switches hang-ups, store failures and crashes on per
instance. The key lookup and the facilitator appear by their outcomes. Request
ids are fresh; the repeated reserve of an id is in `PrepaidStore`.

### Accounts

`calls[x]` is one call of the control API: `handleAPIKeysCreate`, `Revoke` and
`Rotate`, `handlePrepaidRotateAPIKey` (`selfRotate`), `handlePrepaidDepositConfirm`
and `handlePrepaidTopup`. Its place `at` is the store or facilitator call it makes
next, so that any other call may come between two of them. The store calls are
atomic: for the prepaid tables that is what `PrepaidStoreProofs` shows, and
`UpsertConsumerAPIKey` and `RevokeConsumerAPIKey` write only a row they lock with
their first statement, a fresh key, and a pointer whose old value the second
statement tests again. `accounts[c]` is `consumers.api_key_hash` (`NoKey` is NULL,
`NoRow` no row), `keys[k]` the row of `consumer_api_keys`. A new key is `Fresh`, for
keys are random.

A topup has its client in it: `DoWithPayment` answers every 402 with a new
signature until it has sent `MaxAttempts` requests (5 in the code). `signed` is
what has left a client, `settled` what the facilitator has moved on chain, `topups`
what is recorded, so the three can differ: a facilitator's answer may be lost
after it settled, and `ResendTopup` sends a header again. Whether a facilitator
answers a used authorization with success or refuses it is left open.
`StoreFails` is a store call that returns an error, committed or not; `CallDies` is
the gateway or the client going away.

`Trusting` are the calls that reach a gateway without a facilitator. That is the
default of the binary (`-x402-facilitator ""`, `main.go:208`; the topup paywall is
switched on by a pay-to address alone, `main.go:383`), and gateways that share a
database may differ, hence a set of calls. There `PaymentTrusted` takes a header that
accepts the demand as a success (`control_api.go:555-566`): nothing is settled, and
neither the signature nor the wallet is looked at. So what is credited is what a
facilitator settled or what was sent to such a gateway (`Accepted`).

### Registry

Time is counted in heartbeat intervals. A record keeps the age of `LastSeen`
rather than a timestamp, so runs are unbounded in time and finite in states:
ages stop at `Cap`, past which no guard tells them apart. `LastSeen` is the sender's
timestamp (`registry.go:139-150`) and pruning goes by the gateway's clock, so
`Ahead[n]`, any integer, is how far a node's clock is ahead of the gateway's: a clock
that is ahead makes ages too small, even negative, and one that lags makes them too
large by `Lag(n)`. The difference is constant. `gossip` loses, delays and reorders
heartbeats; `MaxDelay` is the longest time from the timestamp to `ApplyHealthJSON`.

`offers[n]` is what a node is configured to advertise. It is read at the start, so a
node that comes back may have another list (`Configs`, at most `MaxChanges` times in a
behaviour), while heartbeats, provider records and syncs with the old one are still
around. A heartbeat that names no model leaves the models of the record alone, as the
code does. `found` and `merging` are the two stages of the sync: the lookup result,
and the entries left after the filter on `reg.List()`, merged one node, one lock at a
time; pruning can come between. The merge loop waits for nothing, so no interval
passes inside it. `heard`, `listed`, `told` and `claimed` are history: how long ago a
node was heard, was merged, was heard with models, and last had a model in its
configuration or in a provider record not yet gone.

### Pricing and Routing

`Pricing` has one request at a time: `QuoteRequest` is the estimate of
`beginPrepaidReservation` and the amount of the x402 paywall, which the code computes
in two places; then a provider or the local backend answers, and `ComputeCharge` is
`computePrepaidChargeUSDC`. `Int64` wraps at `Word`, 2^63 in Go and small in the
instance, after each product and sum the code makes; `Per1000` divides towards zero.
`Overrides` are a model's prices, zero for "as the gateway's", as
`applyModelPricingOverride` merges them. A remote answer reports prompt and answer
tokens in one number, a local one only the answer. Amounts are micro-USDC, so the
conversion to dollars and back is not modelled.

`Routing` is one request: `RankCandidates` sorts what `NodesForModel` returned with
the comparison of `rankedNodesForModel`, criterion by criterion; `PingNode` pings the
candidates in turn; `ReorderByPing` sorts again with the comparison of
`reorderNodesByPing`; `TryNode` is a turn of the failover loop. A sort is any order
that its comparison allows, and `PingOrLatency` the round trip or what stands in for
it. In the binary a pinger is always set, so the second order is the one that counts.

### Providers and Telemetry

`pcalls[x]` is a call of `handleProviderRegister`, `handleProviderHeartbeat` or
`handleProviderWalletRotate` at its next statement. A registration is three statements
that commit on their own, a rotation one transaction. A statement that depends on what
it reads is two steps: the rows its snapshot shows (`SeeOthers`, `SeeAll`,
`LookForWallet`) and the effect (`CloseOthers`, `LockRows`, `InsertWallet`), which
tests again the rows it waited for and cannot see those committed since. `halfway` and
`alone` are history: who failed between two statements, and whether a call met another
of its provider. Signatures are checked before the first statement and only decide
whether a call comes at all.

`Telemetry` has the handler of `/v1/telemetry` (`recorded` is `telemetry_batches`),
the transaction of `InsertUsageEvents`, one statement per event, whose uncommitted rows
make another insert of the same request wait, and the gateway's own row of
`recordOfficialChatUsage`. A batch may be sent any number of times. `stored` and
`failed` are history. `WaitsFor(x, y)` is a statement that meets an uncommitted row
of another transaction; `Deadlocked(S)` a circle of such waits of any length, of
which `DeadlockEnds` rolls one back. `UsageLog` has the same log without
transactions: `StoreBatch` is the commit of a whole batch, `RecordOwn` a row of the
gateway's own.

### PeerLifecycle and NodeInference

`conns` is what libp2p has open and has announced, `peerConnCount` what the node
counts, `timers` the debounce timers: one that fires is a callback that waits for
`peerConnMu` (`Fired`), so that other notices may go first and `Stop` comes too late.
`early` is a connection of a bootstrap that opened before the node asked for notices
(`startBase` starts the DHT first). `raced` is history.

`handlers[s]` is the handler of one stream, `handleInference` or
`handleInferenceStream`: read the request, look at the allowlist, run the backend
(whether or not the peer is still there), send, count out and record a sample in the
deferred functions. `inflight`, `figures` and `load` are the counter, which averages
have a sample, and what was last published. A stream may be reset at any point.

## 3. Runs

| Run | Instance | Question |
|---|---|---|
| `store` | 2 concurrent transactions, 2 consumers, 1 request, 1 payment | do the transactions implement `PrepaidLedger`, act on fresh reads, never deadlock, and return |
| `accounts` | 3 calls and 3 keys (alike), one call to a gateway without a facilitator, 2 consumers, 2 payments, 1 deposit, 3 requests per topup, every fault | do the key tables agree, do keys stay revoked, is money credited only when settled, as far as a facilitator is asked, and once |
| `chat_official` | one unary and one streamed request of a prepaid consumer, 1 failover, local backend, hang-ups, crashes, providers that answer or fail | money against answers, one reply, does every request end, are only abandoned holds left |
| `chat_community` | a prepaid and an x402 caller, paywall, store faults too | does nothing run uncovered |
| `gateway` | the atomic ledger with 2 consumers, 2 requests, 2 payments and ledgers up to 6 entries; or 2 calls on the wallets of 1 provider with 2 wallets; or 2 batches of the same 2 requests in opposite orders, 2 calls, and heartbeats of the provider one of them names; or prices of 2 models, 2 inputs, 5 limits and 5 token counts in an 18-bit word; or 3 nodes with 5 reports and 4 ping results | are balance, ledger, reservations and topups consistent in any order, who decides the wallet, are batches stored whole and else dropped only by a failure, is the charge exact and covered, is the order an order |
| `node` | a bootstrap or a met peer with 2 connections, 3 timers, a debounce of 2 ticks; or 3 streams, 2 of them streamed, an allowed and a refused gateway | are reports true and made, do streams end, does an idle node say so |
| `registry` | 2 nodes, one clock lagging by 1 and one ahead by 1; or one node that comes back once with another model or none, of 2 models of which the sync looks one up; window 2, delay 1 | who is in the registry and with which models, does a stopped node leave |
| `chat_hang_up`, `chat_stall`, `double_charge`, `deposit_twice`, `late_clock` | | see findings |

`MCGateway` and `MCNode` hold components that share no state, or meet in one row only:
`work` picks the one a behaviour follows, so that their states add up instead of
multiplying. In `MCRegistry` it picks between the pruning of two nodes whose lists do
not change and the models of one node: nodes of one registry meet in pruning and in
the merge loop only, and a node's models are between it and the gateway. Type invariants are proved (section 4) and not run again.

**Bounds and why they are enough.** The store's conflicts are between two
transactions on the same consumer, request or fingerprint, and that is what the
run has; cycles of more waits are excluded by `StoreNoDeadlock`, which is proved for
any number. The second consumer gives the finalize and reserve of somebody else's
request. One request id is enough for reuse, retry and the race
of two inserts. In the ledger of `gateway` amounts are 0
(refused), what one payment brings and more than the other does, and charges lie below
and above a hold. In chat, one failover is
the first turn that can duplicate work, `Costs` has one value under the hold and
one over it, and deposits leave the consumer with nothing, one hold or two. In the
registry a window of 2 with a delay of 1 has the early, the last and the late
interval, a clock that lags uses the window up to that last one, and one that is ahead
lengthens it; one change of a node's models, with a list that is looked up, one that is
not and an empty one, has every order of old and new messages, records and merges.
`late_clock` has the first lag that is longer than the window.
In `accounts` three calls give a rotation against a revocation and a topup, or a
command, its repetition and another payer, one of them at a gateway that trusts its
callers; three keys are as many as three calls
can issue, and two payments are the first that can be credited twice. In `gateway`
the prices have a maximum under the minimum and one model dearer than the other; the
input of 155 with 7000 tokens leaves the word, the others do not, and the token counts
lie under, at and over what was held for. The reports differ in each figure the
ranking reads, with absent ones and a negative one among them, and three nodes are the
first whose order could be no order. Two control calls are the first that overlap,
and 4 rows of history let a third and fourth wallet change start from what two
overlapping ones left. In `node` two connections have the close that must not count and
the one that must; three timers have one that runs, one that waits for the mutex and one
that is armed. `MaxEntries`, `MaxRows`, `MaxChanges`, `MaxConns` and `MaxTimers` are the
bounds that cut behaviours; they limit how often money is paid in, wallets and models
change and peers reconnect.

**Fairness.** `PrepaidStore!FairSpec`: a call that runs continues (weak fairness of
its commit), and a waiting statement gets a row that keeps becoming free (strong
fairness: PostgreSQL queues waiters). Nothing is assumed of `Begin*` and
`Rollback`. `ChatCompletion!StallSpec`: a handler that can go on goes on; the
store, the facilitator and the local backend are called with deadlines, and the
first token of a stream is awaited with one. `FairSpec` adds that providers answer
or fail in the end, which no code enforces: `chat_official` shows what follows when
they do, `chat_stall` what happens when they do not. `Registry!FairSpec`: time
passes, tickers fire, a sync ends, messages come or are lost, and the DHT drops
records of a node that has stopped providing. `ControlFairness`: a handler makes its next
statement, and PostgreSQL ends one of the transactions that wait for each other in a
circle (`deadlock_timeout`); nothing is assumed of senders and of failures. `PeerFairness`: time
passes, timers fire and their callbacks get the mutex. `NodeFairness`: a gateway sends its
request or its connection breaks, the backend ends (its HTTP client has a timeout, a
stream ends with the process behind it), and the health ticker fires.

**Deadlock checking** is off where the system may come to rest: bounded ledgers,
finished requests and calls. It is on for the registry and the node.

## 4. Theorems

TLAPS checks these for every value of the constants the assumptions allow
(amounts are naturals, a payment has a payer and a positive amount, `NoRow` is no
value of a row, a deposit's reference is no fingerprint of a topup, an owner or a
limit has its type, clocks differ by any integer, a gateway has a price, a minimum and a default, there are finitely
many calls). The type invariant of every module is among them, so no run repeats it.

Induction is over steps of a behaviour; where a proof needs one over data, it takes a
smallest subset of a finite set instead (the well-foundedness of inclusion, which the
library states without an operator parameter), or a fact about the whole sequence that
each append preserves.

* `PrepaidLedgerProofs`: `TypeCorrect`; `LedgerCorrect` (`LedgerChains` and
  `NeverOverdrawn`); `SettlementFinal` (`SettledForever`); `LedgerExplains`
  (`LedgerExplainsReservations`); `TopupsCredited` (`TopupCreditedOnce`);
  `MoneyConserved` (`Conservation`). The first invariant is the conjunction with the
  fact that every hold is positive and its charge within it; each of the four
  operations is one posting whose entries start at the old balance; what it adds to
  `Posted` is in its own entries (`PostedAfter`), from which `LedgerExplains` and
  `TopupsCredited` follow by step. `Conservation` compares a sum over a ledger with
  sums over sets of requests: it needs that few requests have a row (`FewRows`), so
  that the sums exist, and that a running request has been charged nothing, which is in
  `LedgerExplainsReservations`. `LedgerAddsUp` reads every balance as the sum of the
  entries of its ledger.
* `PrepaidStoreProofs`: `StoreInvariant` (`NoStaleRead`, for any number of
  workers); `StoreKeepsPromise`, the refinement; `StoreLedgerCorrect`, which brings
  all five promises of the ledger over to the transactions. `NoStaleRead` alone is not inductive: that a locked
  fingerprint belongs to a topup about to insert it, that a reserve past the
  balance is covered, and that the row read is the caller's own are in
  `ActsForItsCall`, and the inductive invariant is both with the types. A statement
  that takes at most one free lock and leaves the tables alone keeps it
  (`StatementStep`); a commit writes only rows it has locked, so what others have
  read stays true. `StoreNoDeadlock` (`NoDeadlock`, for any number of workers) ranks
  the rows: consumer, fingerprint, existing reservation, balance, reservation being
  inserted. A transaction waits for a row above those it holds that anyone else may
  wait for, so the waiter at the highest row does not wait for another waiter.
* `ChatCompletionProofs`: `ChatCorrect` (the invariants of the chat runs and a bound on the work of a request, for
  any number of requests and failovers, in both modes, with every fault);
  `ReplyOnce` (`OneReply`); `BillsAreForAnswers`, that every debit in a ledger is for
  an answered request; `AbandonedHoldsOnly` (`HoldsHaveReasons`, the safety half of
  `OnlyAbandonedHoldsStay`: a hold outlives its request only if the client hung up, the
  gateway died or the store failed) and `RefundsAreMade`, what a failed request has at
  its end; `RequestsRunDown` (`ChangesRunDown`); `ChatKeepsPromise` and
  `ChatLedgerCorrect`, that the gateway moves the prepaid tables by whole store
  operations only, and so keeps its five promises. The invariants are
  not inductive alone: `OnPath` says at which places a request must already have its
  hold or its payment, and what may have been sent there, `Bounded` splits the bound
  on work by place. Every part is about one request, and `RequestStep` says that a
  step of one request keeps the others' parts. `RequestsRunDown` is the safety half of
  `EveryRequestEnds`: a step that changes a request, other than hanging up, lowers
  `StepsLeft`, a natural number that the failovers bound, so a request ends unless
  something it waits for never comes - which is what `chat_stall` shows.
* `AccountsProofs`: `AccountsCorrect` (the five invariants of `accounts`, for any
  number of calls, keys and payments, and every fault), `RevocationFinal`
  (`RevokedForever`), `NoCreditWithoutPayment` (`CreditsAreBacked`: a credit that
  names a payment is the only one for it, of its amount, to its payer, and the payment
  was sent by a client, recorded, and settled by a facilitator or sent to a gateway that
  has none),
  `AccountsKeepPromise`, the refinement to `PrepaidLedger`, and `AccountsLedgerCorrect`,
  its five promises. The
  tables only grow - keys are added and revoked, payments stay settled and
  recorded - so what other calls rely on stays true, and `CallStep` leaves a step to
  show what it does to its own call. `Rooted` adds what the tables must say for a
  call to be where it is (the key that a rotation replaces is revoked), `Sent` that
  every payment was signed by one command, which `OneCreditPerCommand` needs.
* `RegistryProofs`, for any clocks and any number of changes of a node's models:
  `RegistryCorrect` (`FreshAsHeard`, `RoutesFollowNews`), `HeardNodesAreKept`
  (`HeardNodesStay`), `KeptNodesAreRecent` (`NobodyStaysForNothing`), and
  `ForgottenNodesFade` (`ForgottenFade`), the safety half of `StoppedNodesGo`: while a
  node is down and nothing of it is under way, in the DHT or in a sync, it stays out,
  or its record only ages until a pruning takes it. The invariant adds how old a record
  may be by what last wrote it, in both directions (`Dated`), and that what is under way
  is backed: a configured model and one in a provider record, found or stored, was
  claimed just now, and one in a heartbeat no longer ago than the heartbeat is old
  (`Supported`).
* `GatewayProofs`: `PricesCorrect` (`ChargeIsExact`, `HoldCoversAnswer`, and that x402
  callers are asked for what prepaid callers have to hold, and that no amount is zero)
  for any prices and word length. What carries it: nothing wraps when the product fits
  (`UnlimitedExact`), an amount grows with its tokens (`AmountGrows`), also through the
  limits, and is above zero even when the product wraps, because a minimum is always
  set (`AmountAboveZero`), so the estimate's fallback of 0.001 USDC is never taken.
  `RoutingCorrect` (`RankFollowsKeys`, `FastestFirst`, `NobodyTriedTwice`) for any
  number of nodes and any figures: what was tried is a prefix of the order at hand,
  and an order of a finite set has everyone at some place (`OrderHasEveryone`).
* `ControlProofs`, for any number of calls: `WalletsCorrect` (`WalletlessOnlyHalfway`),
  `UndisturbedDecides` (`UndisturbedCallDecides`), `TelemetryCorrect`
  (`StoredBatchesAreThere`, `DroppedOnlyByFailure`), `UsageRowsStay`
  (`FirstWriterWins`), `BatchesStoredWhole` (`StoresWhole`: `Telemetry` implements
  `UsageLog`), `NothingIsHalfStored`, and `BatchesAreNeverStuck` (`NobodyIsStuck`). The first needs that a call that acts on a
  wallet has one and that its provider has a row (`CallersAreKnown`), and that closing
  rows opens none; the second that a call which inserts a batch has, for every event it
  passed, a row in the table or in its transaction (`Passed`), that no two transactions
  hold a row of one request (`RowsApart`), and that a recorded batch which nobody
  inserts was stored or failed (`Accounted`). `UndisturbedDecides` relates `alone` to
  what a call has seen: while it met no other call of its provider, what its snapshot
  showed is what the table has (`AloneInv`). The refinement needs that two calls never
  insert one batch at once (`InsertsApart`): the second found it recorded. That nobody
  is stuck is the safety half of `EveryBatchIsAnswered`: among calls that all wait for
  one of them a smallest such set is a circle (`SelfWaitingHasDeadlock`), which
  PostgreSQL breaks.
* `NodeProofs`: `ReportsCorrect` (`ReportsAreTrue`), `GoneIsGoneForDebounce`
  (`GoneForDebounce`), `AbsencesAreNoticed` (an absent peer not yet reported has its
  timer armed or its callback waiting, and that callback reports), the safety half of
  `AbsenceIsReported`; `HandlersCorrect` (`EveryStreamIsTerminated`, and that a figure
  is published only when a request was answered), for any number of peers,
  connections, timers and streams. The invariant is about peers whose connections the
  node has all counted and whose callbacks were on time (`Watched`): the count is then
  right, a connected peer has no timer, and a timer that runs or waits is the one the
  peer's entry points to, as old as the absence (`RunsSinceGone`). For the handlers it
  says what must have been sent at which place (`HandlerOK`).

Only model-checked: liveness (`EveryCallReturns`, `EveryRequestEnds`,
`OnlyAbandonedHoldsStay`, `StoppedNodesGo`, `EveryBatchIsAnswered`, `AbsenceIsReported`,
`IdleLoadIsPublished`), because fairness and `ENABLED` are outside the prover. What is
proved towards it, for every instance, are the facts it rests on: `StoreNoDeadlock`,
`RequestsRunDown`, `AbandonedHoldsOnly`, `ForgottenNodesFade`, `BatchesAreNeverStuck`,
`AbsencesAreNoticed`.
Every other property of a passing run is a theorem.

## 5. Findings

1. `chat_hang_up`: the deferred settlement uses the request's context
   (`openai_proxy.go:379, 518`). If the client is gone by then, the finalize fails,
   the error is logged, and the hold stays for ever: the money is neither charged nor
   returned. The usage row beside it uses `context.WithoutCancel`.
2. `chat_stall`: reads of a provider's libp2p stream have no deadline
   (`inference.go:311`, the chunk loop at `openai_proxy.go:625`), so a provider that
   stalls keeps handler and hold beyond `total_request_sec`.
3. `double_charge`: a provider reports prompt and answer tokens in one number
   (`inference.go:218, 281`), which is charged as answer tokens on top of the estimated
   input (`openai_proxy.go:426, 379`), though the comment at 1279 asks for "output tokens
   only": the input of a remote answer is charged twice.
4. `deposit_twice`: confirming a deposit twice with one `tx_hash` credits it twice;
   `prepaid_deposits`, the table migration 0005 adds for it, is never used.
5. `late_clock`: `LastSeen` is the sender's timestamp, pruning goes by the gateway's clock
   (`registry.go:139-150, 197-205`), so a node whose clock lags by more than the window is
   removed by the next pruning after each heartbeat that comes in, though the comment at
   195 says that those are removed which were not heard from within it. A smaller lag
   costs the node that much of the window (`HeardNodesStay`).

Met while modelling, promised nowhere, so without a run:

* A gateway without a facilitator, which is the default, credits a topup for any header
  that accepts its demand; nothing is settled (`CreditedOnlyIfSettled` states what is
  left).
* A node that comes back with other models is routed for the old ones too as long as its
  provider records live, for the sync puts the models of the DHT over those of its
  heartbeats. A node that comes back with none keeps the old ones for as long as it is
  heard: an empty list changes nothing (`RoutesFollowNews` states what is left).
* A provider's stream that ends after its first chunk without a last message is taken for
  a whole answer (`openai_proxy.go:628`); the nodes of this code always send one
  (`EveryStreamIsTerminated`).
* The model sync renews `LastSeen` of a silent node as long as the DHT has its
  records; `NobodyStaysForNothing` states the rule with that exception. For the same
  reason a node that pruning drops between the sync's snapshot and its merge is made
  again.
* A telemetry batch whose insertion failed is answered as a duplicate when it is sent
  again, and its events stay missing (`DroppedOnlyByFailure` states what is left).
* Two overlapping wallet changes can leave a provider two active wallets, and a
  registration that fails half way none; the next undisturbed call repairs both
  (`UndisturbedCallDecides`).
* Once pings are in, they alone order the candidates (load is not looked at again), and
  a node that neither answers its ping nor ever published a latency comes first.
* A bootstrap that is connected can be reported gone after a connection closed that the
  node was never told of, and any peer by a callback that waited for the mutex.
* `max_tokens` does not reach a provider's backend, so an answer may be longer than what
  was held for it; the charge is then cut to the hold.
* Two first topups of a wallet at once each return a key, and the first of them has
  stopped working when the second is stored; a rotation that fails half way leaves the
  consumer without a key; a chat payment by x402 is not returned when no provider
  answers (and only tests switch the chat paywall on).

## 6. Not modelled, and what is next

Not modelled: signatures and the encoding of payments (`x402spike`), the Ollama
client, configuration, metrics, hardware figures, CORS, the command line (of which the
pay state file, read and written by concurrent commands, has the only state), and the
`cmd/spike-*` programs: input and output, cryptography, wiring and experiments without
protocol state. The payment debt of a node is called by its tests only. Partly modelled:
discovery (the retries of dialling and advertising only log), deposits and topups (the
pay state file), chat (the facilitator by its outcomes).

Next, in order:

1. The facilitator calls of `enforceChatPayment` inside `ChatCompletion`, should the
   binary ever switch the chat paywall on.
2. The transactions on the key tables statement by statement, as `PrepaidStore` has
   those on the prepaid tables; `Accounts` takes them as atomic (section 2 says why).
