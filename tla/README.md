# Liquifier: specification and verification

Liquifier sells a token on EVM chains for its users. It watches decentralised
exchanges, and whenever somebody buys the token it sells a share of that volume
from a custodial wallet, until the session (the campaign) has sold its total.
This directory holds TLA+ models of the system, the TLC configurations that
check them, and proofs checked with TLAPS.

Paths of the form `crates/...` are relative to the repository's root, and "main.rs"
without a crate is `crates/execution-engine/src/main.rs`.

## 1. The system

| Component | State it keeps | Operations | Talks to |
|---|---|---|---|
| Indexer (`crates/indexer`) | last enqueued block, bounded block queue, token cache, wallet lookup | poll for blocks, process a block, parse swaps and transfers, publish | chain (RPC), Postgres, NATS |
| Execution engine (`crates/execution-engine`), 2 replicas | none of its own beyond its tasks; writes `trades` and `sessions` | handle a swap event, record and finalize a trade, reconcile, sweep, refund the excess | NATS, session API and KMS (gRPC), chain, Postgres |
| Session API (`crates/session-api`) | tables `sessions`, `session_pools`; a cache of swap paths | create, read, change status and configuration, active sessions of a pool, discover pools | Postgres, Redis, chain |
| KMS (`crates/kms`) | table `wallets` (encrypted keys) | create, sign, balance, export | Postgres, chain |
| API gateway (`crates/api-gateway`) | tables `users`, `refund_requests`, `deposits`; tokens in Redis | accounts, sessions, gas funding, start selling, refunds, withdrawals; consumers for deposit and trade alerts | everything above |
| WebSocket service (`crates/websocket-service`) | one broadcast channel (256) per session | bridge trade events from NATS to browsers | NATS |
| Common, settings (`crates/common`, `crates/config`) | none | types, retry with backoff, price helpers, configuration | |
| NATS JetStream | streams `DEX_SWAPS` (work queue), `TRADES_COMPLETED`, deposits | store, deliver, redeliver, expire | external |
| Chain | transactions, nonces, balances, allowances | accept, replace, mine, revert | external |
| Frontend | browser state | user interface | gateway, WebSocket service |

What makes each of them correct, and what is hard about it:

* **Execution engine.** One trade per session and trigger, `amount_sold` equal to
  what was recorded, no session completed before it is sold, rows that say what
  the chain did, no message lost, no sale forgotten, no stuck nonce, every wait
  bounded. Hard: a task per message and no bound on how many; each holds a
  snapshot of the session for minutes; redelivery after 30 s while the handler
  runs; two replicas and two reconcilers on the same rows; two SQL statements
  without a transaction; a chain that takes a transaction and loses the reply.
* **Indexer.** While it runs, no block is skipped or handed out twice, a log is
  published once at most, and the event says what the log says. Hard: the queue's
  limit, workers out of order on one cache, a block that fails is not retried, a
  restart begins at the latest block, the cache keeps failures for ever, signed
  words.
* **Routing** (session API, gateway, page, engine). What the engine hands to a router
  leads from the session's token to its target. Hard: a cache that also stores
  "no path", late answers on the page, five places that write the native coin or
  the order of a pair in their own way.
* **Session API and gateway, sessions and gas.** Whoever is told of a session finds it
  with its pools; a session is active only with gas. Hard: rows inserted without a
  transaction, check-then-act on balances, a shared gas wallet and its nonce, any
  status from any status.
* **Gateway, accounts and refunds.** One wallet for a verified address, no
  administrators who remove the last of them, a decision on a refund that stays once
  the request was confirmed. Hard: the same link followed twice, roles in tokens that
  outlive them, verification by mail racing the administrator.
* **Gateway, alerts.** A deposit is recorded once and not lost, and announced only when
  it is recorded; a trade is announced once. Hard: an insert whose result is
  ignored, mails before the acknowledgement, consumers that end for good.
* **WebSocket service.** A connected browser gets the events of its session in order
  and without a gap. Hard: acknowledgement before broadcast, receivers that lag.

PROJECT.json lists every hazard at its line with the properties that cover it,
or why none does.

## 2. Modules

| Module | What it is | Code |
|---|---|---|
| `SwapStream` | a JetStream stream and a durable consumer (external); INSTANCEd for each other stream too | main.rs 221-247 |
| `Chain` | mempool, nonces, balances, receipts, allowance (external) | RPC calls of main.rs 1991-2243, 1765-1838 |
| `ExecutionEngine` | the tasks, the tables, the reconcilers, crashes, the administrator; EXTENDS the two above | main.rs 205-929, 1466-1761, 1991-2243, session-api main.rs 270-303, 440-497 |
| `TradeLedger` | abstract: what the tables promise their readers | main.rs 1571-1662, 1727-1761 |
| `EngineRefinement` | the refinement mapping, and `ImplementsLedger` | |
| `SwapParser` | a swap log and the event made of it, for words of any width | crates/indexer/src/parser.rs, main.rs 445-520 |
| `Indexer` | poller, bounded queue, workers, token cache, deposits, restart; EXTENDS `SwapParser` | crates/indexer/src/main.rs |
| `TradeEvents` | the messages of `TRADES_COMPLETED` and the bound on faults, shared by the next two | |
| `LiveUpdates` | the WebSocket service: bridge, broadcast channels, browsers | crates/websocket-service/src/main.rs |
| `Alerts` | the gateway's consumers for deposits and trades | crates/api-gateway/src/main.rs 329-667 |
| `Notifications` | composes `LiveUpdates` and `Alerts` | |
| `Sessions` | creating, starting, stopping and emptying a session, gas, with the engine as an abstract seller | crates/api-gateway/src/routes.rs, crates/session-api/src/main.rs |
| `Accounts` | users, roles, second factors, wallets, refund requests | crates/api-gateway/src/routes.rs, auth.rs, jwt_middleware.rs, main.rs; crates/kms/src/main.rs |
| `Routing` | from discovered pools to the path of the engine's calldata | crates/session-api/src/pools.rs, main.rs; routes.rs; page.tsx; main.rs, impact.rs of the engine |
| `MCEngine`, `MCIndexer`, `MCNotifications`, `MCSessions`, `MCAccounts`, `MCRouting` | the instances for TLC | |
| `ExecutionEngineInv` | the engine's inductive invariant | |
| `ExecutionEngineProofs`, `ExecutionEngineSafety` | lemmas on the engine's steps, and its theorems | |
| `EngineLedgerProofs` | sums of sales, the books, and the refinement of `TradeLedger` | |
| `IndexerProofs`, `NotificationsProofs`, `SessionsProofs`, `AccountsProofs`, `RoutingProofs` | invariants and theorems of those components | |

PROJECT.json gives the lines of each definition.

### How `ExecutionEngine` corresponds to the code

A **task** is one delivery of one message: `tokio::spawn` in `main`'s loop. It runs
once, so the set `Tasks` bounds the number of deliveries (first ones and
redeliveries together), and a behaviour ends when all of them are used up. That
is why the configurations switch the deadlock check off; that nothing waits for
ever is what `TasksEnd` says.

`pc[t]` names the code's await points that matter, in order:

| label | code | leaves by |
|---|---|---|
| `idle` | before the message is received | `Deliver` (session query answered), `QueryFails` |
| `loop` | head of the `for session` loop | `SkipSession` (any of the gates, 316-605), `EnterSession`, `Ack`, `AckFails` |
| `approve` | 607-695: allowance, quote, calldata; 1991-2105: nonce, gas, signature | `EnsureTokenApproval`, `FetchNonce`, `SendRejected` |
| `send` | 2107-2138 | `SendAccepted`, `SendReplyLost`, `SendRejected` |
| `insert` | record_trade, INSERT | `InsertTrade`, `DuplicateTrigger`, `RecordFails` |
| `count` | record_trade, UPDATE | `CountSale`, `RecordFails` |
| `finalize` | finalize_trade_status_from_receipt | `FinalizeConfirmed`, `FinalizeReverted`, `FinalizeTimeout`, `FinalizeError`, `FinalizeAmountFails`, `FinalizeFails` |
| `publish` | 789-825 | `PublishTrade` |
| `complete` | 831-899 | `CompleteSession`, `CompleteFails` |
| `sweep` | 901-923 | `SweepToInvestor` |
| `acked`, `unacked`, `dead` | returned with or without an acknowledgement; process stopped | |

Each SQL statement is one action, as the code uses no transactions. The history
variables (`lost`, `counted`, `raced`) are read by no action.

Abstractions, and why they keep what the properties tell apart:

* The gates of `process_swap_event` (direction, oracle, market cap, route, price
  impact, router, wallet) depend on prices and configuration. Any session may be
  skipped or enter; the only data kept is the amount. The cap to what remains,
  from the snapshot, is exact.
* `pov_percent` is given in basis points. Amounts are naturals: the code uses
  256-bit integers and arbitrary-precision decimals, which token supplies do not
  fill.
* A trade row is named by the task and session that inserted it, as its
  transaction is. A task enters each session of its response at most once.
* The approval and the sweep are mined when they are submitted. They take a
  nonce, and a sale waiting for that nonce is replaced. The approval's error
  return (a timeout, a lookup error) may still leave the allowance behind. A
  wallet has one allowance: one sell token and router per wallet.
* A second transaction with the same nonce replaces the first or is refused
  (`SendRejected`); which one depends on gas prices.
* The chain has no reorganisations, and anything pending may revert.
* The messages of the stream are there from the start and are delivered in any
  order.
* The reconciler takes any `ReconcileLimit` submitted rows, where the code takes
  the oldest. Rows of a batch are visited in any order. The liveness run has
  fewer rows than the limit, so it says nothing of starvation.
* The administrator's activation funds gas first; only its result, the status, is
  modelled. An activation that fails there changes nothing.
* The amounts of the sweep and the shortfall alert are left out; the excess refund
  request is a row of `Accounts`. Publishing to `trades.completed` ignores errors;
  its two consumers are in `Notifications`.

### How `Indexer` corresponds to the code

* **Poller** (`index_chain`): `connect` (the first height), `poll`, `send` (inside the
  round that sends `sent + 1 .. target`, one block for each `Send`, which waits
  while the queue is full), `down` (it returned an error; main calls it again).
* **Worker**: `lock` (the mutex of the receiver), `recv`, `fetch` (`process_block` up to
  the receipts), `logs` (one log after another), `query` (`token0()` and `token1()`
  of an unknown pool, with the cache's lock released), `publish`.
* A worker that fails anywhere is done with the block or the log; nothing is
  retried. `Restart` loses the queue, the cache and the position.
* `DropBlock` is every early end of `process_block`: a failed request, a node that does
  not have the block or its receipts yet, and a block older than
  `max_block_age_secs`, which blocks in a full queue become. It may happen to any
  block and is no fault.
* `settled`, `copies`, `stream` and `runs` are history variables, and so is what
  `NothingLost` excuses: `dropped` (blocks), `refused` (pools whose tokens could not be
  read), `unsent` (messages the stream did not take), and `loaded` (accounts that have
  been in the lookup ever since). Polls that bring nothing new, failing polls and a
  failing refresh of the wallets change nothing.
* One chain; the chains' tasks share only the wallet lookup.

### How `LiveUpdates` and `Alerts` correspond to the code

* `bridge` is the position of `nats_to_ws_bridge`: it acknowledges (`ack`) before it
  looks at the payload and broadcasts (`send`).
* tokio's broadcast channel is one ring for all receivers; in the model each
  receiver has a buffer of what it has yet to receive, of the same capacity.
  `lagged` is the error that its next `recv` returns, and `ForwardLagged` the end of
  the forwarding loop, after which the connection stays open.
* The positions of the consumers, `dpc` and `tpc`, are their statements in order.
  A statement of theirs either succeeds, which leads on, or fails, which the code
  mostly ignores: then the message is noted in `excused`. `disturbed` are messages
  that may have been delivered more than once.
* The alerts to the administrators and to the user of one deposit are one mail.
* The two halves share the bound on faults and no state: each consumer has its own
  copy of what became of each message.

### How `Sessions` corresponds to the code

Each slot of `Requests` is one HTTP request, and `pc[r]` the call it comes to next:

| label | code |
|---|---|
| `balance` | the balance of the wallet: `create_session`, `start_selling`, `admin_withdraw_session` |
| `quote` | `start_selling`: price, pools, route |
| `insert`, `pools` | the INSERT of the session, then of each of its pools |
| `gas`, `deficit`, `cover` | `fund_session_wallet_gas`: the estimate, the wallet's gas, the gas wallet's |
| `nonce`, `send` | the transfer of gas, or the withdrawal |
| `update` | the UPDATE of the status |
| `reply`, `done` | the answer |

`EngineReads` is a task's query for active sessions, and `EngineSells` a whole sale of
`ExecutionEngine` from the submission to the row: capped by what was left when the
task read the session (`seen` keeps every value that was read), added to what has been
sold by now, and possibly after the session was stopped or completed. So `amount_sold`
may pass the total here as well, and a sale that reverts is counted. Of chain state
it has balances, gas, the count of mined transactions, and one transaction for each
request. Gas is counted in swaps; the number of swaps a session may need (`NumSwaps`)
is the code's arithmetic with its caps and divisors as constants.

### How `Accounts` corresponds to the code

A handler with one statement is one action; a handler that reads and then writes
has a slot of `Requests` in between (`insert`, `remail`, `verify`, `wallet`, `enable`,
`refund`). Access tokens are pairs of an address and the role at the time of their
issue, because the handlers check the role of the token; they do not expire in
the model, as an hour is long. Passwords, codes and hashes are left out: who fails
them changes nothing. A decision on a refund may be about any row, as the statement
asks for its id only; the list, which shows confirmed requests only, is a read. `Start`
chooses whether the configuration names an administrator: the default does not, and
then a gateway may run without one.

### How `Routing` corresponds to the code

Addresses are numbers because pools order their tokens by address. `DiscoverV2` and
`DiscoverV3` are discovery's rows, `BuildSwapPath` the route of at most two hops,
`cache` its answers (also that there is none), `page` and `calls` the form and the
requests it has under way, `stored` the sessions. `ProcessSwap` and `SwapOf` are what
the engine does with a stored pool when it sees a swap: they are operators and not
actions, as nothing of the routing state depends on them. `Put` is an insertion into a
map. Nothing in the form, `create_session` or the session API refuses a session that
sells a token for itself, so the instance has that choice as well; `build_swap_path`
answers it with a route of the token twice, and `SwapsReachTheTarget` asks of it only
that it starts at the token.

## 3. Runs

| Run | Instance | Shows |
|---|---|---|
| `engine_safety` | 2 events, 1 session, 2 replicas with one delivery and one reconciler each, 1 fault or intervention; 774,737 states | the type invariant, seven safety invariants, `ConfirmedIsFinal`, and that the engine implements `TradeLedger` |
| `engine_shared` | 1 event, 2 sessions on one wallet, 2 deliveries, no fault; 2,341,958 states | the nonce properties with four sales racing |
| `engine_liveness` | 2 events, one malformed, 1 session, 2 deliveries, 1 replica, 1 fault, fairness; 69,906 states | `TasksEnd`, `MinedTradesResolve`, and `EngineInv` |
| `engine_duplicate_sale` | 2 events, 2 deliveries, no fault | counterexample to `OneSalePerTrigger` |
| `engine_oversell` | the same | counterexample to `NeverOversold` |
| `engine_failed_sale` | the same, 1 fault | counterexample to `FailedMeansNotSold` |
| `indexer_safety` | 4 blocks with 7 logs, 2 workers, a queue of 1, words of 3 bits, 1 fault; 69,779 states | the indexer's invariants, `NoPoolIsRemembered`, and `BlocksSettle` under fairness |
| `notifications` | 3 trades, 1 pushed event, 3 deposits, of which 2 in one behaviour; 2 browsers, channels of 1; 1 fault; 79,788 states | the invariants of both halves, and the three liveness properties |
| `sessions` | 2 requests out of 9, 1 seeded session, 2 wallets, gas for one activation, 2 sales, 2 faults; 248,346 states | `SessionsAreWhole`, `FundedBeforeActive`, and `GasArrives` under fairness |
| `accounts` | 2 addresses, 2 handlers, 1 refund, 2 tokens, 1 fault; 1,827,638 states | `OneWalletPerMail`, `LastAdminStays`, `ReviewsAreFinal` |
| `routing` | 3 tokens, 4 pools, 4 choices of tokens, 2 pages, 2 calls under way, 1 session; 729,817 states | `SwapsReachTheTarget`, `WrongSideOnlyIfTurned` |
| `routing_wrong_side` | the same | counterexample to `SellsOnlyIntoBuys` |

**Bounds.** Every disagreement over a row, a session, a wallet or a cache needs two
actors, and each instance has two of every kind that races: deliveries, replicas,
workers, browsers, requests, handlers, calls of the page. The faults of a behaviour
are counted together; what the code meets in normal operation (redelivery,
reverts, replacement, timeouts, a lagging node, a block that got too old) is no fault
and is unlimited.

* Engine: a swap of 20 at 10 % and a total of 3, so sales are 2, then 1 (capped and
  completing), and two sales of 2 from one snapshot pass the total. The wallet
  holds 4, so an oversold token can really be sold. `ReconcileLimit` is 25 as in the
  code.
* Indexer: three new blocks and a queue of one make the poller wait with a block in
  hand. Words of three bits hold both signs and the most negative number; the
  theorem on the parser is for every width.
* Notifications: a channel of one makes a receiver lag after two events. Two
  messages cover two of a kind and one of each; the messages of the two halves do
  not meet.
* Sessions: two swaps of gas are missing and the gas wallet has three, so one
  activation is funded and a second one is not, or replaces the first. Two faults
  allow a failing call and a dropped transfer. Two sales, from one reading of the
  session or from two, pass its total.
* Accounts: a first start, with an administrator in the configuration or without
  one, and a system with an administrator and a user. Two
  tokens are two mails, or a mail and a refund.
* Routing: a token above and one below its partner, V2 and V3 on both legs, direct
  routes and routes of two hops, the wrapped coin as a target and as a bridge.

The runs switch the deadlock check off, because each instance uses up a bounded
supply (deliveries, messages, requests, blocks, pages) and then really stops; what
must not wait for ever is stated as liveness.

**Symmetry.** `engine_safety`: the events carry the same swap, and the two pairs of a
delivery and its replica may change places. `engine_shared`: the deliveries are
alike. `accounts`: the two handlers are. `Recorder` of the refinement mapping is a
CHOOSE, which symmetry reduction must not meet unless the choice is unique: it is,
by `OneTradePerTrigger`, which the same run checks and a theorem states. The runs
with liveness use no symmetry.

**Fairness.**

* Engine. Weak fairness of `TaskStep(t)`: the runtime polls a spawned task until it
  returns, each RPC returns or fails, and the receipt loop ends after 60 s. It does
  not say which branch is taken, nor that anything succeeds. Weak fairness of
  `StartPass` and `ReconcileSkips`: the reconciler's loop never ends (it sleeps 15 s
  and carries on after an error). Strong fairness of `ReconcileConfirmed` and
  `ReconcileReverted`: a pass may fail or be cut short, but the bounded number of
  faults lets a later lookup succeed. Nothing is assumed of the chain, the stream
  or the administrator; a replica that crashes restarts its reconciler.
* Indexer. Weak fairness of `PollerStep` and of each `WorkerStep(w)`: both are loops
  of spawned tasks whose calls return. Nothing says that a call succeeds, that the
  chain grows or that the process is not restarted.
* Notifications. Weak fairness of the bridge, of each forwarding task and of each
  consumer: loops of tasks; and of the redelivery of a message whose
  acknowledgement is overdue, which is what JetStream does. None of publishing,
  connecting or restarting.
* Sessions. Weak fairness of `Proceed(r)`: a handler is polled until it answers; and
  of `Settle(r)`: the node mines an accepted transaction or forgets it.
* Accounts and Routing are checked for safety only.

### The properties

Execution engine:

* `OneTradePerTrigger`, `LedgerBalances`: the unique index and the relative UPDATE
  keep the books right under redelivery and concurrency.
* `OversoldOnlyIfRaced`: a session passes its total only if two tasks ever held it
  at once. This is what the cap does guarantee; `NeverOversold` is what the
  documentation says, and it does not hold.
* `CompletedOnlyIfSold`: completion is decided from a snapshot, and still never too
  early, as `amount_sold` only grows.
* `RowsTellTheTruth`, `ConfirmedIsFinal`: whoever writes last, a confirmed row is
  confirmed by the chain and stays so.
* `NoSilentSale`: a task that acknowledges has a row for each sale whose hash it
  knows. A lost send reply is the exception.
* `UncountedOnlyIfFailed`: a row that `amount_sold` lacks belongs to a task that has the
  UPDATE before it, failed or died. Such rows do stay uncounted, since a redelivery
  takes them for duplicates; no other interleaving makes one.
* `OneInFlightPerWallet`, `NoNonceGap`: a wallet's sales replace each other and never
  queue behind a missing nonce.
* `TasksEnd`, `MinedTradesResolve`: as their names say, under the fairness above.
* `ImplementsLedger`: the refinement.

Indexer:

* `BlocksAccounted`: each block since the start is to be sent, queued, in one
  worker's hands, or settled; `BlocksSettle`: and in the end settled.
* `PublishedOnce`: a log is published at most once. `NothingLost`: exactly once, unless
  its block was dropped, its message refused, its pool unreadable, or its account not
  in the lookup. A failure costs no more than what it is about.
* `SwapsAreFaithful`: direction and amounts of the event are those of the log.
* `NoPoolIsRemembered`: the mark of an address that is no pool lasts. A query that
  began before the mark may still overwrite it.

Notifications:

* `StreamsWithoutGaps`: what a browser was sent is a prefix of what its session had
  since it connected. `StalledOnlyByLag`: only falling behind by more than the
  channel's capacity leaves an open connection without events.
* `TradesAreTaken`, `EventsArrive`, `DepositsAreHandled`: nothing that is in a stream or
  a buffer stays there while its reader runs.
* `DepositsAreBooked`, `AlertsMatchTheBooks`, `TradesAnnouncedOnce`: rows, mails and
  acknowledgements agree, except for messages a statement failed for.

Sessions, accounts, routing:

* `SessionsAreWhole`, `FundedBeforeActive`, `GasArrives`: see section 1. The answer to an
  activation precedes the mining of its transfer; `GasArrives` says what may still
  happen to it.
* `OneWalletPerMail`: the link of a mail makes one wallet.
* `LastAdminStays`: no step takes away the last administrator while the tokens of all
  administrators are up to date. A token older than the loss of its role really can.
* `ReviewsAreFinal`: a decision is taken back by the owner's confirmation only, so
  once at most, and never when the request was confirmed.
* `SwapsReachTheTarget`, `WrongSideOnlyIfTurned`: the first exempts default routes and
  late answers (below), the second says exactly when finding 4 bites.

Each has a mutant in PROJECT.json, a plausible bug under which TLC finds it
violated. The definitions introduced with "Variant of" are these mutants and are
used nowhere else.

### Findings

1. **A trigger can be sold twice.** main.rs 281 says "Idempotency in record_trade
   prevents duplicate side effects", but the sale is on chain before
   `record_trade` looks at the unique index, and the default ack wait of 30 s is
   shorter than the 60 s a handler waits for a receipt. The second sale is in no
   table. (`engine_duplicate_sale`)
2. **A session can be oversold.** PROCESS_FLOW.md 224: "The sell amount is capped at
   the session's remaining balance". The cap uses a snapshot. (`engine_oversell`)
3. **A failed receipt lookup makes a successful sale failed.** PROCESS_FLOW.md 685
   says that a trade stays `submitted` when the outcome is not available.
   (`engine_failed_sale`)
4. **A V3 pool may be sold into from the wrong side.** main.rs 342 says "Only trigger
   our sell if the on-chain swap's output is the session's sell_token." Discovery
   stores a V3 pool with the token it was asked for as token0 (pools.rs 278); the
   indexer's direction is about the pool's own order. Where the session's token is
   the pool's token1 the engine follows sales and skips purchases.
   (`routing_wrong_side`)

Observations without a run, as no line of the repository says otherwise, or as the
property would only restate the code:

* PROCESS_FLOW.md 177 says that the engine acknowledges a message before processing
  it, at most once; the code acknowledges afterwards (main.rs 271-285), and its own
  comment says at least once. PROCESS_FLOW.md 48 says that each message is consumed
  by exactly one worker; a redelivery may go to another.
* crates/indexer/src/main.rs 44-45: "the address is not a valid pool" is also said
  of a pool whose call failed once.
* crates/indexer/src/parser.rs 138: the sign bit of a first amount of zero is clear,
  so a V3 swap whose amount0 is rounded to zero always has token0 as its input.
* crates/websocket-service/src/main.rs 230: a receiver that lagged gets nothing more
  while its connection stays open; PROCESS_FLOW.md 570 has no such exception.
* `TRADES_COMPLETED` is created with two subjects by the WebSocket service (main.rs
  266) and with one by the gateway (main.rs 566): the first of them decides.
* Excess refund requests are inserted with `verified` at its default FALSE, and the
  administrators' list shows verified rows only.
* `admin_update_refund_status` accepts a request that is not confirmed
  (routes.rs 2748-2750), and `verify_refund` sets the status to pending whatever it is
  (routes.rs 2464): a decision on such a request, made by its id, is undone by the
  owner's confirmation. The list hides these requests.
* An access token outlives the role in it, so a former administrator can demote the
  last one; the next start then cannot insert the administrator of the
  configuration, whose address is taken, and ends.
* A repeated `setup_2fa` replaces the secret at once, before any code confirms it.
* routes.rs 1043-1047 speaks of funding before the session is active; nobody waits
  for the transfer's receipt.
* An answer to a route request that arrives after the user chose other tokens is
  stored for the new choice (page.tsx 348-384).
* A route that begins with the wrapped coin begins with the placeholder when it is
  stored, so its price impact is never known and its session never sells. A V2
  route whose target is the wrapped coin pays out native coin. Where the stored
  fees do not fit the hops, the first pool's fee is used for all of them. The
  default route of `start_selling` ends in the pool's other token. A V2 pool with a
  V3 bridge has no quote.

## 4. Proofs

TLAPS checks the theorems for every value of the constants: events, sessions,
deliveries, replicas; blocks, workers, queues and widths of words; messages,
browsers and capacities; requests, wallets and settings; addresses, tokens and
refunds; tokens, markets of pools and choices of tokens; and any number of faults.
They rest on the named assumptions `EngineConstants`, `ParserConstants` and
`IndexerConstants`, `LiveConstants` and `AlertConstants`, `SessionConstants`,
`AccountConstants` and `RoutingConstants`: these give the constants their types, say
that placeholders such as `NoEvent` or `Nothing` are not values of the sets they stand
outside of, that a trade is not also a deposit, and that divisors and capacities are
not zero. None asks for finiteness. Every safety invariant and action property that a
run checks is stated by one of the theorems.

### Execution engine

**The inductive invariant.** No property above is inductive. `Base` (in
`ExecutionEngineInv`) is, by itself: the types, `Control` (an idle task has no
event, a task has a session exactly inside an iteration, an iteration's session
is not in `todo`), `Order` (no row before its INSERT, no transaction before its
submission, a row from then on) and `BatchRecorded` (a reconciler holds only
existing rows). The rest adds to it:

* `OneTradePerTrigger`: the INSERT's guard, with `Order` to know that the new row
  was absent.
* `RowsTellTheTruth`: rows are confirmed only on a receipt, receipts do not change,
  confirmed rows do not change, and the verdict is written with the row.
* `CompletedOnlyIfSold` needs `CountedUp`: `amount_sold` is at least every snapshot, and
  at least snapshot plus sale once the task has counted.
* `OversoldOnlyIfRaced` needs `Exclusive`: in a session that never was raced at most
  one task can still add a sale, and its snapshot is current, so its cap is.
* `UncountedOnlyIfFailed` needs `Order`: the row of a task that left `count` without the
  UPDATE is one it went on to `unacked` or `dead` with.
* `NoSilentSale` needs `SalesKnown`, which says where the task of a submitted sale
  is while there is no row.
* `NoNonceGap` and `OneInFlightPerWallet` need `NoncesFetched` and `PendingIsNext`: a
  pending sale has exactly the wallet's next nonce, so two of them cannot coexist.
* The refinement needs `OneTradePerTrigger` (the mapping's choice is unique) and
  `CountedOnce` (a sale is booked once). `LedgerWrite` names the three forms a write
  of a row takes, `RowsWrittenByLedger` shows every action is one of them, and
  `BarUpdate` carries it over to the mapped variable.

* `LedgerBalances` is about a sum over a set of sales of any size, and a sum is a
  recursive definition. Its recursion has an end because sets of sales are finite:
  `EngineLedgerProofs` first shows that `MapThenSumSet` counts units (`SumIsUnits`).
  `Units(S)` are the pairs of a sale of `S` and a number below its amount, so one more
  sale adds as many units as its amount, and the sum of `S` is the number of its
  units. An exception to that would have a smallest one under inclusion
  (`NoException`), because inclusion of finite sets is well founded. The invariant to
  carry through the steps is then about a cardinality (`UnitsBalance`): `CountSale`
  adds one sale's units and its amount, and no other action writes either side.

* `TasksGoForward` is the part of `TasksEnd` that needs no fairness. `Ahead` counts what
  an iteration has before it, with one more while the wallet has no approval, which is
  never taken back (`ApprovalStays`). Each step of a task shrinks its set of sessions or
  lowers that number, and nobody else's step raises it.

`ExecutionEngineProofs` has, for each variable, a lemma that lists the actions that
write it (`RowWriters`, `TxWriters`, ...), so that a preservation proof has one step
per writing action and not per action; and what steps do (`RowStep`, `TaskMoves`,
`EventStep`, `LedgerStep`).

### Indexer

`ParserFaithful` says for words of every width that a plain swap is read as the log
means it; its proof is arithmetic on two's complement, by cases on the topic and
the signs. `IndexerBase` is the inductive invariant of the rest: the types,
`PollerAhead` (how far the poller is, and that nobody is busy before it began),
`Accounted` (`BlocksAccounted`, which is inductive only with the former), and
`Works(w)` (what a worker at each label knows of its log). To it are added `Once` (a
log still ahead of its worker has no copy), `Recorded` (an event in the stream is the
one made of its log) and `Complete` (a log behind its worker in a block that was not
dropped was published if it had to be, or its message was refused), with `CachesRight`
(a pool is marked as no pool only if its tokens could not be read).
`LeastMember` gives the CHOOSE of the current log its meaning without induction.
`WorkersGoForward` is the part of `BlocksSettle` that needs no fairness: a worker
keeps its block until it is settled, and each of its steps leaves fewer logs or less
of the present one (`BlockNearer`).

### Notifications

`AlertInv` says what each consumer knows at each position (`DepositInv`,
`TradeInv`): a deposit that comes to its acknowledgement has its row or a reason not
to, and an undisturbed trade is announced between its delivery and its
acknowledgement. `LiveInv` says that the receivers of a channel are exactly the
running forwarding tasks of its session (`Subscribed`), and that what a browser is
due is what it was sent followed by its buffer, or that it has lost more than the
capacity (`ClientInv`).

### Sessions

`Position(r)` says which requests come to a label, and that the row they are about
exists, `Storing(r)` what it still has to insert, `Funded(r)` what it knows
of the gas when it comes to the UPDATE. `GasNeededInNat` shows that the estimate is
defined for every session and every setting: no divisor is zero and no difference
negative.

### Accounts

`Known` (who acts, or has a slot, has a row), `WalletDue` (between the UPDATE that
verified an address and its wallet there is one slot, and no wallet was given
yet). `UsersStay` says what one step may do to a user's row, and gives
`LastAdminStays` with the rule that nobody changes their own role; `RefundMoves` what it
may do to a request for a refund, which gives `ReviewsAreFinal`.

### Routing

`RoutingInv` says of every route, wherever it is kept, for whom it was built:
`CacheKeepsRoutes` (under its key, which is why the key has to hold both tokens and the
pool), `CallsAskOfRows` (a call asks about a row that was discovered for its own choice,
even when the page has moved on), `PageShowsRoutes` and `SessionsHaveRoutes` (a route is
for the choice it is kept with, or it came late). `PathsBuilt` shows that the cases of
`build_swap_path` build such routes, with `RowFacts` (a discovered row holds the token
and another one, whichever way round), and `PathRead` that the placeholder of the native
coin is undone when the engine reads a route. `BridgeIsCheapest` gives the CHOOSE of the
second hop its meaning: a least fee exists because inclusion is well founded on the
intervals below the fees. `SwapsLeadToTargets` and `SidesMistakenWhereTurned` then
follow from what is stored alone.

### Model-checked only

Liveness under fairness, which is out of the prover's reach: `TasksEnd`,
`MinedTradesResolve`, `BlocksSettle`, `TradesAreTaken`, `EventsArrive`,
`DepositsAreHandled`, `GasArrives`. `TasksGoForward` and `WorkersGoForward` prove the part
of the first and the third that a step can violate.

## 5. What is not modelled

* Cryptography, keys and their export, HTTP, the text of mails, rendering, and the
  frontend other than the page that stores routes.
* The arithmetic of the gates: the oracle, market caps, the size of the price impact
  and the minimum output (256-bit integers on reserves, and floats). The gates'
  outcome is a choice in `ExecutionEngine`; `Routing` has whether impact and quote can
  be known at all. (A pool with empty reserves gives an impact of zero.)
* The amounts of the sweep and of refunds, and the shortfall alert: one call compares
  them with one balance.
* Reads: lists, profiles, the public page, alternative paths (`get_swap_paths`),
  settings with their defaults, and the data definitions of `crates/common`.
* One chain only; no reorganisations.

Hazards without a property, with the reason in PROJECT.json: starvation of newer
rows by the 25 oldest submitted ones, the session that nobody completes, proceeds
that arrive after the sweep, the truncated share, the repeated excess refund, two
sessions on one balance, blocks mined while the indexer is down, the late answer; and
those that the code lets happen and the properties name as their exceptions: the sale
whose reply was lost, the failed outcome published for a confirmed row, the status that
overwrites "completed", the deposit whose INSERT failed, the second mail after a lost
acknowledgement, the outdated token. The place of the acknowledgement in the code is
that of `Ack` and needs no property.

## 6. What could come next

1. `Settlement`: sweep, excess refund and shortfall with amounts, on top of the
   proceeds of `Sessions`.
2. `Reconciler`: passes in the order of the rows' age with a small limit, over rows
   that never resolve.
3. The impact and minimum output as functions on bounded reserves against a
   reference definition.
4. Refinement of `EngineSells` by `ExecutionEngine`, which would join the two.
5. Proofs: what a deposit's and a trade's way through their consumers leaves to do, as
   for tasks and workers; what `Sessions` asks of gas, for several activations at once.
