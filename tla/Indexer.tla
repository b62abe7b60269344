------------------------------- MODULE Indexer -------------------------------
(***************************************************************************)
(* The indexer of one chain (crates/indexer/src/main.rs).  A poller reads  *)
(* the chain's height and sends every new block number into a bounded      *)
(* queue; workers that share the receiving end fetch each block's          *)
(* receipts, turn swap logs into DEX_SWAPS messages and transfers to the   *)
(* wallets of common users into DEPOSITS messages.  The workers share a    *)
(* cache of pool tokens.  Nothing is persisted.                            *)
(*                                                                         *)
(* An RPC node may lag: the poller may be told a lower height than there   *)
(* is, and a worker that a block does not exist.  Workers may be late, and *)
(* then find their block too old.  Polls that fail or report nothing new   *)
(* change nothing and are stuttering steps.                                *)
(***************************************************************************)
EXTENDS SwapParser, FiniteSets

CONSTANTS
  Workers,     \* indexer_cfg.worker_count tasks
  QueueSize,   \* indexer_cfg.block_queue_size
  Content,     \* [Nat -> Seq(log)]: the logs of each block
  Pools,       \* contracts that answer token0() and token1()
  Addresses,   \* the contracts that emit logs
  Accounts,    \* the addresses of wallets
  MaxHeight,   \* bound: the chain's height
  MaxFaults,   \* bound: faults and interventions in a behaviour
  NoLog        \* a worker that has no event in hand

Blocks == 1..MaxHeight
LogIds == UNION {{b} \X DOMAIN Content[b] : b \in Blocks}
LogAt(id) == Content[id[1]][id[2]]
AllIndices == UNION {DOMAIN Content[b] : b \in Blocks}

ASSUME IndexerConstants ==
  /\ QueueSize \in Nat \ {0}
  /\ Pools \subseteq Addresses
  /\ MaxHeight \in Nat \ {0}
  /\ MaxFaults \in Nat
  /\ \A b \in Blocks : DOMAIN Content[b] \subseteq Nat
  /\ \A id \in LogIds : LogAt(id).address \in Addresses /\ WordsOK(LogAt(id))

VARIABLES
  head,      \* the chain's height
  \* The poller
  poller,    \* "down" | "connect" | "poll" | "send"
  start,     \* the height at which this run of index_chain began
  sent,      \* the last block number sent into the queue
  target,    \* latest_block of the current round
  \* The queue and the workers
  queue,     \* block numbers in the channel
  pc,        \* pc[w]
  block,     \* block[w]: the block in hand
  logs,      \* logs[w]: indices of the block's logs, from the current one on
  parsed,    \* parsed[w]: the event about to be published
  \* Shared memory
  cache,     \* cache[a]: "unknown" | "pair" | "nopool"
  lookup,    \* the wallet lookup: accounts of common users as last loaded
  \* Table wallets joined with users
  common,    \* accounts that belong to common users
  \* History variables, which no action reads
  settled,   \* blocks a worker of this run is done with
  copies,    \* copies[id]: publications of the log in this run
  stream,    \* everything ever published: records [id, event]
  runs,      \* how often the process has been started again
  dropped,   \* blocks of this run given up before their logs were looked at
  refused,   \* addresses whose tokens this run could not read
  unsent,    \* logs of this run whose message did not get into the stream
  loaded,    \* accounts that were in the lookup during all of this run
  \* The bound
  faults     \* faults and interventions so far

pollerVars == <<poller, start, sent, target>>
workerVars == <<pc, block, logs, parsed>>
lapseVars == <<dropped, refused, unsent, loaded>>
bookVars == <<settled, copies, stream, runs, dropped, refused, unsent, loaded>>
vars == <<head, pollerVars, queue, workerVars, cache, lookup, common,
          bookVars, faults>>

Labels == {"lock", "recv", "fetch", "logs", "query", "publish"}
\* The labels at which a worker has a block in hand.
Busy == {"fetch", "logs", "query", "publish"}

TypeOK ==
  /\ head \in Blocks
  /\ poller \in {"down", "connect", "poll", "send"}
  /\ start \in Nat /\ sent \in Nat /\ target \in Nat
  /\ queue \in Seq(Nat) /\ Len(queue) <= QueueSize
  /\ pc \in [Workers -> Labels]
  /\ block \in [Workers -> Nat]
  /\ logs \in [Workers -> SUBSET AllIndices]
  /\ parsed \in [Workers -> LogIds \cup {NoLog}]
  /\ cache \in [Addresses -> {"unknown", "pair", "nopool"}]
  /\ lookup \subseteq Accounts /\ common \subseteq Accounts
  /\ settled \subseteq Nat
  /\ copies \in [LogIds -> Nat]
  /\ dropped \subseteq Nat /\ refused \subseteq Addresses
  /\ unsent \subseteq LogIds /\ loaded \subseteq Accounts
  /\ runs \in Nat /\ faults \in 0..MaxFaults

\* main loads the wallet lookup once before the chain tasks start; a failure
\* there leaves it empty, which counts as a fault.
Init ==
  /\ head = 1
  /\ poller = "connect"
  /\ start = 0 /\ sent = 0 /\ target = 0
  /\ queue = <<>>
  /\ pc = [w \in Workers |-> "lock"]
  /\ block = [w \in Workers |-> 0]
  /\ logs = [w \in Workers |-> {}]
  /\ parsed = [w \in Workers |-> NoLog]
  /\ cache = [a \in Addresses |-> "unknown"]
  /\ common \in SUBSET Accounts
  /\ \/ lookup = common /\ faults = 0
     \/ lookup = {} /\ common # {} /\ MaxFaults > 0 /\ faults = 1
  /\ settled = {}
  /\ copies = [id \in LogIds |-> 0]
  /\ stream = {}
  /\ runs = 0
  /\ dropped = {} /\ refused = {} /\ unsent = {} /\ loaded = lookup

Fault == faults < MaxFaults /\ faults' = faults + 1

-----------------------------------------------------------------------------
(* The environment: the chain grows, users and their roles change.         *)

MineBlock ==
  /\ head < MaxHeight
  /\ head' = head + 1
  /\ UNCHANGED <<pollerVars, queue, workerVars, cache, lookup, common,
                 bookVars, faults>>

ChangeWallets ==
  /\ Fault
  /\ common' \in SUBSET Accounts
  /\ UNCHANGED <<head, pollerVars, queue, workerVars, cache, lookup, bookVars>>

\* refresh_wallet_lookup: the whole map is replaced.  A failed query keeps the
\* old one (a stuttering step).
RefreshLookup ==
  /\ lookup' = common
  /\ loaded' = loaded \cap common
  /\ UNCHANGED <<head, pollerVars, queue, workerVars, cache, common, settled,
                 copies, stream, runs, dropped, refused, unsent, faults>>

-----------------------------------------------------------------------------
(* The poller: index_chain.                                                *)

\* The first height is where indexing starts; the node may lag behind.
Connect(h) ==
  /\ poller = "connect"
  /\ h <= head
  /\ poller' = "poll"
  /\ start' = h /\ sent' = h /\ target' = h
  /\ UNCHANGED <<head, queue, workerVars, cache, lookup, common, bookVars,
                 faults>>

\* The first height is not available: index_chain returns an error, its queue
\* closes empty and its workers end.
ConnectFails ==
  /\ poller = "connect"
  /\ Fault
  /\ poller' = "down"
  /\ UNCHANGED <<head, start, sent, target, queue, workerVars, cache, lookup,
                 common, bookVars>>

\* main calls index_chain again after 5 s, with the same cache.
Reconnect ==
  /\ poller = "down"
  /\ poller' = "connect"
  /\ UNCHANGED <<head, start, sent, target, queue, workerVars, cache, lookup,
                 common, bookVars, faults>>

\* Variant of Poll: the round begins one block late.
PollSkipsOne(h) ==
  /\ poller = "poll"
  /\ sent < h /\ h <= head
  /\ target' = h
  /\ sent' = IF sent + 1 < h THEN sent + 1 ELSE sent
  /\ poller' = "send"
  /\ UNCHANGED <<head, start, queue, workerVars, cache, lookup, common,
                 bookVars, faults>>

\* A poll that reports a new height.
Poll(h) ==
  /\ poller = "poll"
  /\ sent < h /\ h <= head
  /\ target' = h
  /\ poller' = "send"
  /\ UNCHANGED <<head, start, sent, queue, workerVars, cache, lookup, common,
                 bookVars, faults>>

\* Variant of Send: the queue has no limit.
SendUnbounded ==
  /\ poller = "send"
  /\ queue' = Append(queue, sent + 1)
  /\ sent' = sent + 1
  /\ poller' = IF sent + 1 = target THEN "poll" ELSE "send"
  /\ UNCHANGED <<head, start, target, workerVars, cache, lookup, common,
                 bookVars, faults>>

\* block_tx.send(block_number).await: waits while the queue is full.  The end
\* of the round sets last_enqueued to the height that was polled.
Send ==
  /\ poller = "send"
  /\ Len(queue) < QueueSize
  /\ queue' = Append(queue, sent + 1)
  /\ sent' = sent + 1
  /\ poller' = IF sent + 1 = target THEN "poll" ELSE "send"
  /\ UNCHANGED <<head, start, target, workerVars, cache, lookup, common,
                 bookVars, faults>>

-----------------------------------------------------------------------------
(* The workers.                                                            *)

\* block_rx.lock().await: one worker at a time waits for the next block.
LockReceiver(w) ==
  /\ pc[w] = "lock"
  /\ \A v \in Workers : pc[v] # "recv"
  /\ pc' = [pc EXCEPT ![w] = "recv"]
  /\ UNCHANGED <<head, pollerVars, queue, block, logs, parsed, cache, lookup,
                 common, bookVars, faults>>

Receive(w) ==
  /\ pc[w] = "recv"
  /\ queue # <<>>
  /\ block' = [block EXCEPT ![w] = Head(queue)]
  /\ queue' = Tail(queue)
  /\ pc' = [pc EXCEPT ![w] = "fetch"]
  /\ UNCHANGED <<head, pollerVars, logs, parsed, cache, lookup, common,
                 bookVars, faults>>

\* The worker is done with its block, whether it got anything out of it or not.
Settle(w) ==
  /\ settled' = settled \cup {block[w]}
  /\ pc' = [pc EXCEPT ![w] = "lock"]
  /\ block' = [block EXCEPT ![w] = 0]
  /\ logs' = [logs EXCEPT ![w] = {}]
  /\ parsed' = [parsed EXCEPT ![w] = NoLog]

\* process_block ends early, and nothing is retried: the node that was asked
\* does not have the block or its receipts yet, the request fails, or the block
\* waited in the queue until it was older than max_block_age_secs.  None of this
\* is a fault here: any block may be dropped.
DropBlock(w) ==
  /\ pc[w] = "fetch"
  /\ Settle(w)
  /\ dropped' = dropped \cup {block[w]}
  /\ UNCHANGED <<head, pollerVars, queue, cache, lookup, common, copies,
                 stream, runs, refused, unsent, loaded, faults>>

FetchReceipts(w) ==
  /\ pc[w] = "fetch"
  /\ pc' = [pc EXCEPT ![w] = "logs"]
  /\ logs' = [logs EXCEPT ![w] = DOMAIN Content[block[w]]]
  /\ UNCHANGED <<head, pollerVars, queue, block, parsed, cache, lookup, common,
                 bookVars, faults>>

\* The log the worker is at: receipts and their logs are visited in order.
Current(w) == <<block[w], CHOOSE i \in logs[w] : \A j \in logs[w] : i <= j>>
AtLog(w) == pc[w] = "logs" /\ logs[w] # {}

EndOfBlock(w) ==
  /\ pc[w] = "logs"
  /\ logs[w] = {}
  /\ Settle(w)
  /\ UNCHANGED <<head, pollerVars, queue, cache, lookup, common, copies,
                 stream, runs, lapseVars, faults>>

\* try_parse_deposit: a complete transfer to an account of the lookup.
IsDeposit(log) ==
  log.topic = "transfer" /\ log.complete /\ log.to \in lookup

NextLog(w, label) ==
  /\ logs' = [logs EXCEPT ![w] = @ \ {Current(w)[2]}]
  /\ pc' = [pc EXCEPT ![w] = label]
  /\ parsed' = [parsed EXCEPT ![w] = NoLog]

\* Variant of SkipLog: a failure is asked for again.
RetryNoPool(w) ==
  /\ AtLog(w)
  /\ LET log == LogAt(Current(w)) IN
       \/ /\ ~Parses(log) /\ ~IsDeposit(log)
          /\ NextLog(w, "logs")
          /\ UNCHANGED cache
       \/ /\ Parses(log) /\ cache[log.address] = "nopool"
          /\ cache' = [cache EXCEPT ![log.address] = "unknown"]
          /\ UNCHANGED <<logs, pc, parsed>>
  /\ UNCHANGED <<head, pollerVars, queue, block, lookup, common, bookVars,
                 faults>>

\* A log that becomes no message: another topic, an incomplete log, a transfer
\* to somebody else, a swap of a contract marked as no pool.
SkipLog(w) ==
  /\ AtLog(w)
  /\ LET log == LogAt(Current(w)) IN
       IF Parses(log) THEN cache[log.address] = "nopool" ELSE ~IsDeposit(log)
  /\ NextLog(w, "logs")
  /\ UNCHANGED <<head, pollerVars, queue, block, cache, lookup, common,
                 bookVars, faults>>

\* A deposit, or a swap whose pool is in the cache, goes on to be published.
ReadyLog(w) ==
  /\ AtLog(w)
  /\ LET log == LogAt(Current(w)) IN
       IF Parses(log) THEN cache[log.address] = "pair" ELSE IsDeposit(log)
  /\ parsed' = [parsed EXCEPT ![w] = Current(w)]
  /\ pc' = [pc EXCEPT ![w] = "publish"]
  /\ UNCHANGED <<head, pollerVars, queue, block, logs, cache, lookup, common,
                 bookVars, faults>>

\* resolve_tokens_for_event: not in the cache.  The read lock is released
\* before the contract is asked.
CacheMiss(w) ==
  /\ AtLog(w)
  /\ LET log == LogAt(Current(w)) IN
       Parses(log) /\ cache[log.address] = "unknown"
  /\ pc' = [pc EXCEPT ![w] = "query"]
  /\ UNCHANGED <<head, pollerVars, queue, block, logs, parsed, cache, lookup,
                 common, bookVars, faults>>

TokensRead(w) ==
  LET log == LogAt(Current(w)) IN
  /\ pc[w] = "query"
  /\ log.address \in Pools
  /\ cache' = [cache EXCEPT ![log.address] = "pair"]
  /\ parsed' = [parsed EXCEPT ![w] = Current(w)]
  /\ pc' = [pc EXCEPT ![w] = "publish"]
  /\ UNCHANGED <<head, pollerVars, queue, block, logs, lookup, common,
                 bookVars, faults>>

\* Variant of TokensFail: the failure ends the block.
TokensFailEndsBlock(w) ==
  LET log == LogAt(Current(w)) IN
  /\ pc[w] = "query"
  /\ IF log.address \in Pools THEN Fault ELSE UNCHANGED faults
  /\ cache' = [cache EXCEPT ![log.address] = "nopool"]
  /\ refused' = refused \cup {log.address}
  /\ Settle(w)
  /\ UNCHANGED <<head, pollerVars, queue, lookup, common, copies, stream, runs,
                 dropped, unsent, loaded>>

\* token0() or token1() fails, as it always does for a contract that is no
\* pool; the address is marked, whatever the reason, and the event is dropped.
TokensFail(w) ==
  LET log == LogAt(Current(w)) IN
  /\ pc[w] = "query"
  /\ IF log.address \in Pools THEN Fault ELSE UNCHANGED faults
  /\ cache' = [cache EXCEPT ![log.address] = "nopool"]
  /\ refused' = refused \cup {log.address}
  /\ NextLog(w, "logs")
  /\ UNCHANGED <<head, pollerVars, queue, block, lookup, common, settled,
                 copies, stream, runs, dropped, unsent, loaded>>

\* The message: a deposit carries the amount as it is; a swap's tokens follow
\* from the first word (V2: not zero, V3: sign bit clear), read a second time.
EventOf(id) ==
  IF LogAt(id).topic = "transfer"
    THEN [amount |-> LogAt(id).words[1]]
    ELSE ParseSwapLog(LogAt(id))

Publish(w) ==
  /\ pc[w] = "publish"
  /\ stream' = stream \cup {[id |-> parsed[w], event |-> EventOf(parsed[w])]}
  /\ copies' = [copies EXCEPT ![parsed[w]] = @ + 1]
  /\ NextLog(w, "logs")
  /\ UNCHANGED <<head, pollerVars, queue, block, cache, lookup, common,
                 settled, runs, lapseVars, faults>>

\* Variant of PublishFails: the event is kept and published again, although
\* the server may have it.
PublishRetried(w) ==
  /\ pc[w] = "publish"
  /\ Fault
  /\ stream' = stream \cup {[id |-> parsed[w], event |-> EventOf(parsed[w])]}
  /\ copies' = [copies EXCEPT ![parsed[w]] = @ + 1]
  /\ UNCHANGED <<head, pollerVars, queue, workerVars, cache, lookup, common,
                 settled, runs, lapseVars>>

\* A failed publication is logged; the event is lost.  (The server's answer is
\* not awaited, so an event that it refuses is lost without a word.)
PublishFails(w) ==
  /\ pc[w] = "publish"
  /\ Fault
  /\ unsent' = unsent \cup {parsed[w]}
  /\ NextLog(w, "logs")
  /\ UNCHANGED <<head, pollerVars, queue, block, cache, lookup, common,
                 settled, copies, stream, runs, dropped, refused, loaded>>

-----------------------------------------------------------------------------
\* The process stops and is started again: the queue, the workers and both
\* caches are gone, and indexing starts at the height of the moment.
Restart ==
  /\ Fault
  /\ poller' = "connect"
  /\ start' = 0 /\ sent' = 0 /\ target' = 0
  /\ queue' = <<>>
  /\ pc' = [w \in Workers |-> "lock"]
  /\ block' = [w \in Workers |-> 0]
  /\ logs' = [w \in Workers |-> {}]
  /\ parsed' = [w \in Workers |-> NoLog]
  /\ cache' = [a \in Addresses |-> "unknown"]
  /\ lookup' = common
  /\ settled' = {}
  /\ copies' = [id \in LogIds |-> 0]
  /\ runs' = runs + 1
  /\ dropped' = {} /\ refused' = {} /\ unsent' = {} /\ loaded' = common
  /\ UNCHANGED <<head, common, stream>>

PollerStep ==
  \/ \E h \in Blocks : Connect(h)
  \/ Reconnect
  \/ \E h \in Blocks : Poll(h)
  \/ Send

WorkerStep(w) ==
  \/ LockReceiver(w) \/ Receive(w)
  \/ FetchReceipts(w) \/ DropBlock(w) \/ EndOfBlock(w)
  \/ SkipLog(w) \/ ReadyLog(w) \/ CacheMiss(w)
  \/ TokensRead(w) \/ TokensFail(w)
  \/ Publish(w) \/ PublishFails(w)

Next ==
  \/ MineBlock \/ ChangeWallets \/ RefreshLookup
  \/ PollerStep \/ ConnectFails
  \/ \E w \in Workers : WorkerStep(w)
  \/ Restart

\* The poller's loop and the workers' loops never end, and each of their calls
\* returns.  A worker that waits for a block is not blocked for ever while the
\* queue has one: the mutex has a holder, and it is that holder's turn.
Fairness ==
  /\ WF_vars(PollerStep)
  /\ \A w \in Workers : WF_vars(WorkerStep(w))

Spec == Init /\ [][Next]_vars /\ Fairness
-----------------------------------------------------------------------------
(* Properties.                                                             *)

Held == {block[w] : w \in {v \in Workers : pc[v] \in Busy}}
Queued == {queue[i] : i \in 1..Len(queue)}

\* Every block after the first one of this run is in exactly one place: still
\* to be sent, in the queue, in one worker's hands, or settled.  Whatever the
\* interleaving, none is skipped and none is handed out twice.
BlocksAccounted ==
  /\ \A i \in 1..Len(queue) : queue[i] = sent - Len(queue) + i
  /\ settled \cup Held = (start + 1)..(sent - Len(queue))
  /\ settled \cap Held = {}
  /\ \A v, w \in Workers :
       v # w /\ pc[v] \in Busy /\ pc[w] \in Busy => block[v] # block[w]

\* No log is published twice by one run of the indexer: the consumers' only
\* defence against a second event for one swap is their own bookkeeping.
PublishedOnce == \A id \in LogIds : copies[id] <= 1

\* A published swap names the token the pool received as the input, the other
\* one as the output, and carries the amounts of the log without their signs.
\* (A V3 swap whose first amount is rounded to zero is not a plain swap.)
SwapsAreFaithful ==
  \A m \in stream :
    IsSwap(LogAt(m.id)) /\ PlainSwap(LogAt(m.id))
      => Faithful(m.event, LogAt(m.id))

\* What goes wrong costs no more than what it is about, whichever worker it
\* meets: of every block that a worker went through to the end, each swap of a
\* pool and each deposit has been published once, except a message that was not
\* accepted, the swaps of a pool whose tokens could not be read, and deposits to
\* accounts that the lookup lacked at some time.
NothingLost ==
  \A id \in LogIds :
    LET log == LogAt(id) IN
    /\ id[1] \in settled \ dropped
    /\ \/ Parses(log) /\ log.address \in Pools \ refused
       \/ log.topic = "transfer" /\ log.complete /\ log.to \in loaded
    => copies[id] = 1 \/ id \in unsent

\* Once an address is marked as no pool, and no worker has a query for it under
\* way, it stays marked until the process is started again: a contract that
\* is no pool is asked once and not for each of its logs.
NoPoolIsRemembered ==
  [][\A a \in Addresses :
       /\ cache[a] = "nopool"
       /\ \A w \in Workers : pc[w] = "query" => LogAt(Current(w)).address # a
       => cache'[a] = "nopool" \/ runs' # runs]_vars

\* A block mined above the height at which the poller began is settled in the
\* end, unless the process stops: a full queue holds the poller up but never
\* for ever, and no worker is lost.
BlocksSettle ==
  \A b \in Blocks, n \in 0..MaxFaults :
    (runs = n /\ poller \in {"poll", "send"} /\ start < b /\ b <= head)
      ~> (b \in settled \/ runs # n)
=============================================================================
