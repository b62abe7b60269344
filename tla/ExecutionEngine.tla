--------------------------- MODULE ExecutionEngine ---------------------------
(***************************************************************************)
(* The execution engine (crates/execution-engine/src/main.rs): every       *)
(* DexSwapEvent delivered by the stream is handled by a task of its own,   *)
(* process_swap_event, which sells a share of each matching session's      *)
(* tokens on chain, records the sale in Postgres and acknowledges the      *)
(* message at the end.  A reconciler in each replica revisits the trades   *)
(* left 'submitted'.  Replicas crash, statements fail, RPC replies get     *)
(* lost, messages are redelivered while their first handler still runs,    *)
(* and an administrator pauses, cancels and re-activates sessions.         *)
(*                                                                         *)
(* A task runs one delivery and is then over, so Tasks bounds the number   *)
(* of deliveries.  A trade row is named by the task and the session that   *)
(* inserted it, like its transaction.                                      *)
(***************************************************************************)
EXTENDS SwapStream, Chain, FiniteSetsExt

CONSTANTS
  Replicas,       \* engine processes
  Home,           \* [Tasks -> Replicas]: the process a delivery goes to
  Malformed,      \* events whose payload does not deserialize
  Watchers,       \* [Events -> SUBSET Sessions]: session_pools join on the pool
  Buy,            \* [Events -> Nat]: amount_out of the swap
  PovBps,         \* [Sessions -> Nat]: pov_percent in basis points
  Total,          \* [Sessions -> Nat]: sessions.total_amount
  ReconcileLimit, \* rows a reconciliation pass takes (25 in the code)
  MaxFaults,      \* bound: faults and interventions in a behaviour
  NoEvent,        \* a task that has not been given a message
  NoSession       \* a task that is not working on a session

ASSUME EngineConstants ==
  /\ Home \in [Tasks -> Replicas]
  /\ WalletOf \in [Sessions -> Wallets]
  /\ Deposit \in [Wallets -> Nat]
  /\ Malformed \subseteq Events
  /\ Watchers \in [Events -> SUBSET Sessions]
  /\ Buy \in [Events -> Nat]
  /\ PovBps \in [Sessions -> Nat]
  /\ Total \in [Sessions -> Nat]
  /\ ReconcileLimit \in Nat \ {0}
  /\ MaxFaults \in Nat
  /\ NoEvent \notin Events
  /\ NoSession \notin Sessions

VARIABLES
  \* Tables sessions and trades
  status,      \* status[s]: sessions.status
  amountSold,  \* amountSold[s]: sessions.amount_sold
  row,         \* row[id]: trades.status, "none" when there is no such row
  reason,      \* reason[id]: trades.failure_reason, "none" for NULL
  \* The tasks' local state
  pc,          \* pc[t]: where task t is
  ev,          \* ev[t]: the event it was given
  todo,        \* todo[t]: sessions of the response its loop has not reached
  snap,        \* snap[t][s]: amount_sold in the response
  cur,         \* cur[t]: the session of the current iteration
  verdict,     \* verdict[t]: the TradeFinalization of the current iteration
  \* The reconcilers' local state
  batch,       \* batch[r]: rows of the pass that r has not reached
  \* History variables, which no action reads
  lost,        \* transactions the chain took although the send failed
  counted,     \* rows whose amount the session's amount_sold includes
  raced,       \* sessions that two tasks ever worked on at once
  \* The bound
  faults       \* faults and interventions so far

dbVars == <<status, amountSold, row, reason>>
taskVars == <<pc, ev, todo, snap, cur, verdict>>
historyVars == <<lost, counted, raced>>
bookVars == <<historyVars, faults>>
vars == <<streamVars, chainVars, dbVars, taskVars, batch, bookVars>>

\* The 'error' and 'routing' labels of the SQL enumerations are never written.
SessionStates == {"pending", "active", "paused", "completed", "cancelled"}
RowStates == {"none", "submitted", "confirmed", "failed"}
Reasons == {"none", "transaction_reverted", "receipt_lookup_error",
            "receipt_finalization_error"}

\* The labels at which a task holds a session and has not yet added the sale
\* to amount_sold, those after that, and those of a task that is over: it
\* returned ("acked", "unacked") or its process stopped ("dead").
BeforeCount == {"approve", "send", "insert", "count"}
AfterCount == {"finalize", "publish", "complete", "sweep"}
InSession == BeforeCount \cup AfterCount
Over == {"acked", "unacked", "dead"}
Labels == {"idle", "loop"} \cup InSession \cup Over

TypeOK ==
  /\ StreamTypeOK
  /\ ChainTypeOK
  /\ status \in [Sessions -> SessionStates]
  /\ amountSold \in [Sessions -> Nat]
  /\ row \in [Ids -> RowStates]
  /\ reason \in [Ids -> Reasons]
  /\ pc \in [Tasks -> Labels]
  /\ ev \in [Tasks -> Events \cup {NoEvent}]
  /\ todo \in [Tasks -> SUBSET Sessions]
  /\ snap \in [Tasks -> [Sessions -> Nat]]
  /\ cur \in [Tasks -> Sessions \cup {NoSession}]
  /\ verdict \in [Tasks -> RowStates]
  /\ batch \in [Replicas -> SUBSET Ids]
  /\ lost \subseteq Ids
  /\ counted \subseteq Ids
  /\ raced \subseteq Sessions
  /\ faults \in 0..MaxFaults

\* A session is created 'pending' and has sold nothing; session-api inserted
\* it and an administrator activated it before the first event, or not.
Init ==
  /\ StreamInit
  /\ ChainInit
  /\ status \in [Sessions -> {"pending", "active"}]
  /\ amountSold = [s \in Sessions |-> 0]
  /\ row = [id \in Ids |-> "none"]
  /\ reason = [id \in Ids |-> "none"]
  /\ pc = [t \in Tasks |-> "idle"]
  /\ ev = [t \in Tasks |-> NoEvent]
  /\ todo = [t \in Tasks |-> {}]
  /\ snap = [t \in Tasks |-> [s \in Sessions |-> 0]]
  /\ cur = [t \in Tasks |-> NoSession]
  /\ verdict = [t \in Tasks |-> "none"]
  /\ batch = [r \in Replicas |-> {}]
  /\ lost = {}
  /\ counted = {}
  /\ raced = {}
  /\ faults = 0

-----------------------------------------------------------------------------
\* Amounts.

\* buy_amount * pov_bps / 10000, rounded down.
PovAmount(s, e) == (Buy[e] * PovBps[s]) \div 10000

\* total.saturating_sub(sold)
Remaining(s, sold) == IF sold >= Total[s] THEN 0 ELSE Total[s] - sold

\* Variant of SellAmount without the cap.
UncappedSellAmount(s, e, sold) == PovAmount(s, e)

\* The share of the observed buy, capped at what the snapshot says is left.
SellAmount(s, e, sold) ==
  IF PovAmount(s, e) <= Remaining(s, sold)
  THEN PovAmount(s, e) ELSE Remaining(s, sold)

\* What task t sells of session s: fixed by its event and its snapshot.
Amount(t, s) == SellAmount(s, ev[t], snap[t][s])
AmountOf(id) == Amount(id[1], id[2])

\* The row and transaction of the iteration that task t is in.
CurId(t) == <<t, cur[t]>>

\* Sessions that task t may still add a sale to.
Engaged(t) ==
  todo[t] \cup (IF pc[t] \in BeforeCount THEN {cur[t]} ELSE {})

\* The bound on what goes wrong: a conjunct of every action that is a fault or
\* an intervention.
CountFault ==
  /\ faults < MaxFaults
  /\ faults' = faults + 1

-----------------------------------------------------------------------------
\* Control flow of a task.

Goto(t, label) ==
  /\ pc' = [pc EXCEPT ![t] = label]
  /\ UNCHANGED <<ev, todo, snap, cur, verdict>>

\* `continue`: the iteration is over.
Continue(t) ==
  /\ pc' = [pc EXCEPT ![t] = "loop"]
  /\ cur' = [cur EXCEPT ![t] = NoSession]
  /\ verdict' = [verdict EXCEPT ![t] = "none"]
  /\ UNCHANGED <<ev, todo, snap>>

\* The task returns, with or without an acknowledgement.
Finish(t, label) ==
  /\ pc' = [pc EXCEPT ![t] = label]
  /\ todo' = [todo EXCEPT ![t] = {}]
  /\ cur' = [cur EXCEPT ![t] = NoSession]
  /\ verdict' = [verdict EXCEPT ![t] = "none"]
  /\ UNCHANGED <<ev, snap>>

\* get_active_sessions_for_token: the active sessions that watch the pool.
ActiveSessions(e) == {s \in Watchers[e] : status[s] = "active"}

\* A payload that does not deserialize is discarded: no sessions, then the ack.
Response(e) == IF e \in Malformed THEN {} ELSE ActiveSessions(e)

\* main spawns a task for the message and the task asks for the sessions; it
\* touches nothing in between.  The one response serves the whole loop:
\* amount_sold is read here and never again.  History: a session of the
\* response is raced when another task may still add a sale to it.
Deliver(t, e) ==
  /\ pc[t] = "idle"
  /\ DeliverMessage(e)
  /\ pc' = [pc EXCEPT ![t] = "loop"]
  /\ ev' = [ev EXCEPT ![t] = e]
  /\ todo' = [todo EXCEPT ![t] = Response(e)]
  /\ snap' = [snap EXCEPT ![t] = amountSold]
  /\ raced' = raced \cup {s \in Response(e) : \E u \in Tasks : s \in Engaged(u)}
  /\ UNCHANGED <<chainVars, dbVars, cur, verdict, batch, lost, counted, faults>>

\* The request for the sessions fails: Err, no ack.
QueryFails(t, e) ==
  /\ pc[t] = "idle"
  /\ DeliverMessage(e)
  /\ pc' = [pc EXCEPT ![t] = "unacked"]
  /\ ev' = [ev EXCEPT ![t] = e]
  /\ CountFault
  /\ UNCHANGED <<chainVars, dbVars, todo, snap, cur, verdict, batch,
                 historyVars>>

\* One of the gates before the approval skips the session: no pool
\* configuration, the wrong direction, an unknown pool type, the oracle's
\* minimum trigger or market cap, nothing remaining, no route, too much price
\* impact, no router, no wallet address.  They depend on prices and
\* configuration outside this module, so any session may be skipped.
SkipSession(t, s) ==
  /\ pc[t] = "loop"
  /\ s \in todo[t]
  /\ todo' = [todo EXCEPT ![t] = @ \ {s}]
  /\ UNCHANGED <<streamVars, chainVars, dbVars, pc, ev, snap, cur, verdict,
                 batch, bookVars>>

\* All gates pass.  A zero amount never gets through: build_swap_calldata
\* refuses a zero minimum output.
EnterSession(t, s) ==
  /\ pc[t] = "loop"
  /\ s \in todo[t]
  /\ Amount(t, s) > 0
  /\ pc' = [pc EXCEPT ![t] = "approve"]
  /\ todo' = [todo EXCEPT ![t] = @ \ {s}]
  /\ cur' = [cur EXCEPT ![t] = s]
  /\ UNCHANGED <<streamVars, chainVars, dbVars, ev, snap, verdict, batch,
                 bookVars>>

\* ensure_token_approval: approve(router, MAX) is submitted and mined.  It
\* returns Ok, or has given up on the receipt.
EnsureTokenApproval(t) ==
  LET w == WalletOf[cur[t]] IN
  /\ pc[t] = "approve"
  /\ ~allowance[w]
  /\ UseNonce(w)
  /\ allowance' = [allowance EXCEPT ![w] = TRUE]
  /\ UNCHANGED <<txNonce, balance>>
  /\ UNCHANGED taskVars \/ Continue(t)
  /\ UNCHANGED <<streamVars, dbVars, batch, bookVars>>

\* Variant of NextNonce that adds every transaction ever sent.
NonceAfterPending(w) ==
  walletNonce[w]
    + Cardinality({id \in Ids : WalletOfId(id) = w /\ tx[id] # "none"})

\* get_transaction_count counts mined transactions only.
NextNonce(w) == walletNonce[w]

\* build_sign_and_submit_tx up to the signature, with the allowance in place.
\* The nonce is chosen now and used later; it waits in txNonce for the send.
FetchNonce(t) ==
  /\ pc[t] = "approve"
  /\ allowance[WalletOf[cur[t]]]
  /\ txNonce' = [txNonce EXCEPT ![CurId(t)] = NextNonce(WalletOf[cur[t]])]
  /\ Goto(t, "send")
  /\ UNCHANGED <<streamVars, tx, walletNonce, balance, allowance, dbVars,
                 batch, bookVars>>

\* send_raw_transaction: accepted, and the hash comes back.
SendAccepted(t) ==
  /\ pc[t] = "send"
  /\ AcceptTx(CurId(t), txNonce[CurId(t)])
  /\ Goto(t, "insert")
  /\ UNCHANGED <<streamVars, dbVars, batch, bookVars>>

\* The approval is not obtained, the quote, calldata, nonce, gas estimate or
\* KMS signature fails, or the node refuses the transaction: `continue`.
SendRejected(t) ==
  /\ pc[t] \in {"approve", "send"}
  /\ Continue(t)
  /\ UNCHANGED <<streamVars, chainVars, dbVars, batch, bookVars>>

\* send_raw_transaction: accepted, but the reply is lost.  The retries send
\* the same bytes, which the node already knows, and fail: `continue`.
SendReplyLost(t) ==
  /\ pc[t] = "send"
  /\ AcceptTx(CurId(t), txNonce[CurId(t)])
  /\ lost' = lost \cup {CurId(t)}
  /\ Continue(t)
  /\ CountFault
  /\ UNCHANGED <<streamVars, dbVars, batch, counted, raced>>

-----------------------------------------------------------------------------
\* record_trade.

\* Variant of TriggerConflict without the unique index.
NeverConflicts(s, e) == FALSE

\* The unique index uq_trades_session_trigger: a row for this session and
\* trigger is already there.
TriggerConflict(s, e) ==
  \E u \in Tasks : ev[u] = e /\ row[<<u, s>>] # "none"

\* INSERT ... ON CONFLICT DO NOTHING returns the new row.
InsertTrade(t) ==
  /\ pc[t] = "insert"
  /\ ~TriggerConflict(cur[t], ev[t])
  /\ row' = [row EXCEPT ![CurId(t)] = "submitted"]
  /\ Goto(t, "count")
  /\ UNCHANGED <<streamVars, chainVars, status, amountSold, reason, batch,
                 bookVars>>

\* INSERT ... ON CONFLICT DO NOTHING returns nothing: the trigger was recorded
\* before and the iteration ends, although the sale has been submitted.
DuplicateTrigger(t) ==
  /\ pc[t] = "insert"
  /\ TriggerConflict(cur[t], ev[t])
  /\ Continue(t)
  /\ UNCHANGED <<streamVars, chainVars, dbVars, batch, bookVars>>

\* Variant of NewAmountSold that writes the snapshot plus the sale.
StaleCount(t) == snap[t][cur[t]] + Amount(t, cur[t])

\* amount_sold + $1, computed by the statement itself.
NewAmountSold(t) == amountSold[cur[t]] + Amount(t, cur[t])

\* UPDATE sessions SET amount_sold = ...: a statement of its own.
CountSale(t) ==
  /\ pc[t] = "count"
  /\ amountSold' = [amountSold EXCEPT ![cur[t]] = NewAmountSold(t)]
  /\ counted' = counted \cup {CurId(t)}
  /\ Goto(t, "finalize")
  /\ UNCHANGED <<streamVars, chainVars, status, row, reason, batch, lost,
                 raced, faults>>

\* Variant of RecordFails that logs the error and goes on.
RecordErrorIgnored(t) ==
  /\ pc[t] \in {"insert", "count"}
  /\ Continue(t)
  /\ CountFault
  /\ UNCHANGED <<streamVars, chainVars, dbVars, batch, historyVars>>

\* Either statement of record_trade fails: Err, no ack.  A row inserted just
\* before stays.
RecordFails(t) ==
  /\ pc[t] \in {"insert", "count"}
  /\ Finish(t, "unacked")
  /\ CountFault
  /\ UNCHANGED <<streamVars, chainVars, dbVars, batch, historyVars>>

-----------------------------------------------------------------------------
\* finalize_trade_status_from_receipt, and what the reconciler shares with it.

\* Variant of MarkTradeFailed without its WHERE clause.
OverwriteFailed(id, why) ==
  /\ row' = [row EXCEPT ![id] = "failed"]
  /\ reason' = [reason EXCEPT ![id] = why]

\* mark_trade_failed: the statement does not touch a confirmed row.
MarkTradeFailed(id, why) ==
  /\ row' = [row EXCEPT ![id] = IF @ = "confirmed" THEN @ ELSE "failed"]
  /\ reason' = [reason EXCEPT ![id] =
                  IF row[id] = "confirmed" THEN @ ELSE why]

\* Variant of MarkTradeConfirmed with a label the enumeration lacks.
MarkTradeCompleted(id) ==
  /\ row' = [row EXCEPT ![id] = "completed"]
  /\ reason' = [reason EXCEPT ![id] = "none"]

\* mark_trade_confirmed touches the row whatever its status.
MarkTradeConfirmed(id) ==
  /\ row' = [row EXCEPT ![id] = "confirmed"]
  /\ reason' = [reason EXCEPT ![id] = "none"]

\* The task keeps the TradeFinalization it will publish.
Conclude(t, outcome) ==
  /\ pc' = [pc EXCEPT ![t] = "publish"]
  /\ verdict' = [verdict EXCEPT ![t] = outcome]
  /\ UNCHANGED <<ev, todo, snap, cur>>

\* A successful receipt: mark_trade_confirmed, then update_trade_received.
FinalizeConfirmed(t) ==
  /\ pc[t] = "finalize"
  /\ tx[CurId(t)] = "success"
  /\ MarkTradeConfirmed(CurId(t))
  /\ Conclude(t, "confirmed")
  /\ UNCHANGED <<streamVars, chainVars, status, amountSold, batch, bookVars>>

\* update_trade_received fails after mark_trade_confirmed: the caller's
\* mark_trade_failed does not touch the confirmed row, but the task goes on
\* with the outcome "failed".
FinalizeAmountFails(t) ==
  /\ pc[t] = "finalize"
  /\ tx[CurId(t)] = "success"
  /\ MarkTradeConfirmed(CurId(t))
  /\ Conclude(t, "failed")
  /\ CountFault
  /\ UNCHANGED <<streamVars, chainVars, status, amountSold, batch, historyVars>>

\* A receipt with status 0.
FinalizeReverted(t) ==
  /\ pc[t] = "finalize"
  /\ tx[CurId(t)] = "reverted"
  /\ MarkTradeFailed(CurId(t), "transaction_reverted")
  /\ Conclude(t, "failed")
  /\ UNCHANGED <<streamVars, chainVars, status, amountSold, batch, bookVars>>

\* Variant of FinalizeTimeout: waits for a receipt for ever.
NeverTimesOut(t) == FALSE /\ UNCHANGED vars

\* Variant of FinalizeTimeout that takes silence for success.
OptimisticTimeout(t) ==
  /\ pc[t] = "finalize"
  /\ tx[CurId(t)] \notin Mined
  /\ MarkTradeConfirmed(CurId(t))
  /\ Conclude(t, "confirmed")
  /\ UNCHANGED <<streamVars, chainVars, status, amountSold, batch, bookVars>>

\* No receipt for 60 s: the row stays submitted, for the reconciler.
FinalizeTimeout(t) ==
  /\ pc[t] = "finalize"
  /\ tx[CurId(t)] \notin Mined
  /\ Conclude(t, "submitted")
  /\ UNCHANGED <<streamVars, chainVars, dbVars, batch, bookVars>>

\* The receipt lookup fails, or a statement of the finalization does: the row
\* is marked failed whatever became of the transaction.
FinalizeError(t) ==
  /\ pc[t] = "finalize"
  /\ \E why \in {"receipt_lookup_error", "receipt_finalization_error"} :
       MarkTradeFailed(CurId(t), why)
  /\ Conclude(t, "failed")
  /\ CountFault
  /\ UNCHANGED <<streamVars, chainVars, status, amountSold, batch, historyVars>>

\* Marking the row failed fails as well: Err, no ack.  mark_trade_confirmed
\* may have succeeded before it.
FinalizeFails(t) ==
  /\ pc[t] = "finalize"
  /\ \/ UNCHANGED <<row, reason>>
     \/ tx[CurId(t)] = "success" /\ MarkTradeConfirmed(CurId(t))
  /\ Finish(t, "unacked")
  /\ CountFault
  /\ UNCHANGED <<streamVars, chainVars, status, amountSold, batch, historyVars>>

-----------------------------------------------------------------------------
\* Publication and completion.

\* Variant of SoldOut that is off by one.
SoldOutTooSoon(t) == snap[t][cur[t]] + Amount(t, cur[t]) + 1 >= Total[cur[t]]

\* new_sold >= total, with `sold` from the snapshot.
SoldOut(t) == snap[t][cur[t]] + Amount(t, cur[t]) >= Total[cur[t]]

\* The trades.completed event with the task's verdict is out, or lost (the
\* error is ignored); its consumers are not part of this module.
PublishTrade(t) ==
  /\ pc[t] = "publish"
  /\ IF SoldOut(t) THEN Goto(t, "complete") ELSE Continue(t)
  /\ UNCHANGED <<streamVars, chainVars, dbVars, batch, bookVars>>

\* UPDATE sessions SET status = 'completed', whatever the status is now.  (The
\* shortfall alert that follows only reads tables and sends a message.)
CompleteSession(t) ==
  /\ pc[t] = "complete"
  /\ status' = [status EXCEPT ![cur[t]] = "completed"]
  /\ Goto(t, "sweep")
  /\ UNCHANGED <<streamVars, chainVars, amountSold, row, reason, batch,
                 bookVars>>

\* The status update fails: ignored.
CompleteFails(t) ==
  /\ pc[t] = "complete"
  /\ Goto(t, "sweep")
  /\ CountFault
  /\ UNCHANGED <<streamVars, chainVars, dbVars, batch, historyVars>>

\* sweep_to_investor sends what the wallet received, if anything and if an
\* investor wallet is configured.  Of the transfer only the nonce it uses
\* matters here; it is taken to be mined when submitted.  The refund request
\* of check_and_create_excess_refund goes to a table nothing here reads.
SweepToInvestor(t) ==
  LET w == WalletOf[cur[t]] IN
  /\ pc[t] = "sweep"
  /\ \/ /\ \E id \in Ids : WalletOfId(id) = w /\ tx[id] = "success"
        /\ UseNonce(w)
        /\ UNCHANGED <<txNonce, balance, allowance>>
     \/ UNCHANGED chainVars
  /\ Continue(t)
  /\ UNCHANGED <<streamVars, dbVars, batch, bookVars>>

-----------------------------------------------------------------------------
\* The end of a task.

\* The loop is over, process_swap_event returned Ok: message.ack().
Ack(t) ==
  /\ pc[t] = "loop"
  /\ todo[t] = {}
  /\ AckMessage(ev[t])
  /\ Finish(t, "acked")
  /\ UNCHANGED <<chainVars, dbVars, batch, bookVars>>

\* message.ack() fails: logged only, the message will be redelivered.
AckFails(t) ==
  /\ pc[t] = "loop"
  /\ todo[t] = {}
  /\ Finish(t, "unacked")
  /\ CountFault
  /\ UNCHANGED <<streamVars, chainVars, dbVars, batch, historyVars>>

\* A replica stops: its tasks and its reconciliation pass are gone.
Crash(r) ==
  LET victims == {t \in Tasks : Home[t] = r /\ pc[t] \notin {"idle"} \cup Over}
  IN
  /\ victims # {} \/ batch[r] # {}
  /\ pc' = [t \in Tasks |-> IF t \in victims THEN "dead" ELSE pc[t]]
  /\ todo' = [t \in Tasks |-> IF t \in victims THEN {} ELSE todo[t]]
  /\ cur' = [t \in Tasks |-> IF t \in victims THEN NoSession ELSE cur[t]]
  /\ verdict' = [t \in Tasks |-> IF t \in victims THEN "none" ELSE verdict[t]]
  /\ batch' = [batch EXCEPT ![r] = {}]
  /\ CountFault
  /\ UNCHANGED <<streamVars, chainVars, dbVars, ev, snap, historyVars>>

-----------------------------------------------------------------------------
\* reconcile_submitted_trades_once.

\* Variant of SubmittedRows that forgets the tasks that are over.
RowsOfRunningTasks ==
  {id \in Ids : row[id] = "submitted" /\ pc[id[1]] \in AfterCount}

SubmittedRows == {id \in Ids : row[id] = "submitted"}

\* The SELECT of a pass takes ReconcileLimit submitted rows, or all of them if
\* there are fewer.  (The code takes the oldest; here they may be any.)
StartPass(r) ==
  /\ batch[r] = {}
  /\ \E b \in SUBSET SubmittedRows :
       /\ b # {}
       /\ \/ b = SubmittedRows /\ Cardinality(b) <= ReconcileLimit
          \/ Cardinality(b) = ReconcileLimit
       /\ batch' = [batch EXCEPT ![r] = b]
  /\ UNCHANGED <<streamVars, chainVars, dbVars, taskVars, bookVars>>

\* The next row has a successful receipt.  If storing the received amount
\* fails, the pass is aborted (`?`) after the row is confirmed.
ReconcileConfirmed(r, id) ==
  /\ id \in batch[r]
  /\ tx[id] = "success"
  /\ MarkTradeConfirmed(id)
  /\ batch' = [batch EXCEPT ![r] = @ \ {id}]
  /\ UNCHANGED <<streamVars, chainVars, status, amountSold, taskVars,
                 bookVars>>

\* The next row has a receipt with status 0.
ReconcileReverted(r, id) ==
  /\ id \in batch[r]
  /\ tx[id] = "reverted"
  /\ MarkTradeFailed(id, "transaction_reverted")
  /\ batch' = [batch EXCEPT ![r] = @ \ {id}]
  /\ UNCHANGED <<streamVars, chainVars, status, amountSold, taskVars,
                 bookVars>>

\* No receipt yet: the row is left for a later pass.
ReconcileSkips(r, id) ==
  /\ id \in batch[r]
  /\ tx[id] \notin Mined
  /\ batch' = [batch EXCEPT ![r] = @ \ {id}]
  /\ UNCHANGED <<streamVars, chainVars, dbVars, taskVars, bookVars>>

\* The lookup of the wallet or the receipt fails, and the row is left; or a
\* statement fails and the rest of the pass is dropped.
ReconcileFails(r, id) ==
  /\ id \in batch[r]
  /\ \E rest \in {batch[r] \ {id}, {}} : batch' = [batch EXCEPT ![r] = rest]
  /\ CountFault
  /\ UNCHANGED <<streamVars, chainVars, dbVars, taskVars, historyVars>>

-----------------------------------------------------------------------------
\* The environment.

\* PATCH of a session's status.  The gateway lets these targets through only;
\* session-api, which writes the row, looks at no status it finds.
UpdateSessionStatus(s, target) ==
  /\ status[s] # target
  /\ status' = [status EXCEPT ![s] = target]
  /\ CountFault
  /\ UNCHANGED <<streamVars, chainVars, amountSold, row, reason, taskVars,
                 batch, historyVars>>

Mine(id) ==
  /\ MineSale(id, AmountOf(id))
  /\ UNCHANGED <<streamVars, dbVars, taskVars, batch, bookVars>>

Redeliver(e) ==
  /\ AckWaitExpires(e)
  /\ UNCHANGED <<chainVars, dbVars, taskVars, batch, bookVars>>

Expire(e) ==
  /\ MaxAgeExpires(e)
  /\ CountFault
  /\ UNCHANGED <<chainVars, dbVars, taskVars, batch, historyVars>>

-----------------------------------------------------------------------------
\* What a task does when nothing goes wrong, and what may go wrong in it.
TaskStep(t) ==
  \/ \E s \in Sessions : SkipSession(t, s) \/ EnterSession(t, s)
  \/ EnsureTokenApproval(t) \/ FetchNonce(t)
  \/ SendAccepted(t) \/ SendRejected(t)
  \/ InsertTrade(t) \/ DuplicateTrigger(t) \/ CountSale(t)
  \/ FinalizeConfirmed(t) \/ FinalizeReverted(t) \/ FinalizeTimeout(t)
  \/ PublishTrade(t) \/ CompleteSession(t) \/ SweepToInvestor(t)
  \/ Ack(t)

TaskFault(t) ==
  \/ \E e \in Events : QueryFails(t, e)
  \/ SendReplyLost(t) \/ RecordFails(t)
  \/ FinalizeAmountFails(t) \/ FinalizeError(t) \/ FinalizeFails(t)
  \/ CompleteFails(t) \/ AckFails(t)

ReconcilerStep(r) ==
  \/ StartPass(r)
  \/ \E id \in Ids : \/ ReconcileConfirmed(r, id)
                     \/ ReconcileReverted(r, id)
                     \/ ReconcileSkips(r, id)

ReconcilerFault(r) == \E id \in Ids : ReconcileFails(r, id)

\* Deliveries, redeliveries and the chain.
Environment ==
  \/ \E t \in Tasks, e \in Events : Deliver(t, e)
  \/ \E e \in Events : Redeliver(e)
  \/ \E id \in Ids : Mine(id)

\* A message gets too old, a replica stops, an administrator steps in.
Intervention ==
  \/ \E e \in Events : Expire(e)
  \/ \E r \in Replicas : Crash(r)
  \/ \E s \in Sessions, target \in {"active", "paused", "cancelled"} :
       UpdateSessionStatus(s, target)

Next ==
  \/ \E t \in Tasks : TaskStep(t) \/ TaskFault(t)
  \/ \E r \in Replicas : ReconcilerStep(r) \/ ReconcilerFault(r)
  \/ Environment
  \/ Intervention

Spec == Init /\ [][Next]_vars

\* A task is polled by the runtime until it returns, whatever fails; waiting
\* for a receipt ends after 60 s.  The reconciler loop never ends, and a lookup
\* that is repeated every 15 s is answered in the long run.  Nothing is assumed
\* of the chain, the stream or the administrator.
Fairness ==
  /\ \A t \in Tasks : WF_vars(TaskStep(t))
  /\ \A r \in Replicas :
       /\ WF_vars(StartPass(r))
       /\ \A id \in Ids :
            /\ SF_vars(ReconcileConfirmed(r, id))
            /\ SF_vars(ReconcileReverted(r, id))
            /\ WF_vars(ReconcileSkips(r, id))

FairSpec == Spec /\ Fairness

-----------------------------------------------------------------------------
\* Safety.

\* record_trade is idempotent: whatever is redelivered, retried or run twice at
\* once, a session has at most one trade row per trigger, and only that row's
\* amount goes into amount_sold.
OneTradePerTrigger ==
  \A s \in Sessions : \A t, u \in Tasks :
    /\ row[<<t, s>>] # "none" /\ row[<<u, s>>] # "none" /\ ev[t] = ev[u]
         => t = u
    /\ <<t, s>> \in counted => row[<<t, s>>] # "none"

\* sessions.amount_sold is exactly the sum of the recorded sales whose UPDATE
\* ran: no interleaving of the relative UPDATEs loses or repeats one.
LedgerBalances ==
  \A s \in Sessions :
    amountSold[s] =
      MapThenSumSet(AmountOf, {id \in counted : id[2] = s})

\* A session is oversold (amount_sold above total_amount) only if two tasks
\* ever worked on it at the same time: each sale is capped by the amount_sold
\* of the response its task took, and without overlap that value is current.
OversoldOnlyIfRaced ==
  \A s \in Sessions : amountSold[s] > Total[s] => s \in raced

\* The engine's test for "fully sold" uses the amount_sold of the snapshot,
\* yet it never completes a session too early: amount_sold has reached
\* total_amount by then, and it never falls again.
CompletedOnlyIfSold ==
  \A s \in Sessions : status[s] = "completed" => amountSold[s] >= Total[s]

\* What the trades table and the trades.completed event say of a sale is what
\* the chain did, whichever of the task and the reconcilers wrote last: a
\* confirmed row's transaction succeeded, a row with the reason
\* transaction_reverted reverted, and an outcome about to be published as
\* "confirmed" is that of the row.
RowsTellTheTruth ==
  /\ \A id \in Ids :
       /\ row[id] = "confirmed" => tx[id] = "success"
       /\ reason[id] = "transaction_reverted" => tx[id] = "reverted"
  /\ \A t \in Tasks : verdict[t] = "confirmed" => row[CurId(t)] = "confirmed"

\* The INSERT of a trade and the UPDATE of amount_sold are two statements, and a
\* redelivery takes a row without its UPDATE for a duplicate that it need not
\* count.  A recorded sale that amount_sold lacks is one whose own task has the
\* UPDATE before it, failed there or died: nobody acknowledges his message with
\* a trade of his own uncounted, and no other failure, redelivery or reconciler
\* leaves a row out of the books.
UncountedOnlyIfFailed ==
  \A t \in Tasks, s \in Sessions :
    row[<<t, s>>] # "none" /\ <<t, s>> \notin counted =>
      \/ pc[t] = "count" /\ cur[t] = s
      \/ pc[t] \in {"unacked", "dead"}

\* A task that returns Ok leaves no sale of its own unrecorded: each one it
\* knows the hash of has a row for the session and the trigger, its own or the
\* one that made it a duplicate.  A lost send reply is the one exception.
NoSilentSale ==
  \A t \in Tasks, s \in Sessions :
    /\ pc[t] = "acked"
    /\ tx[<<t, s>>] # "none"
    => <<t, s>> \in lost \/ TriggerConflict(s, ev[t])

\* Concurrent tasks that sell from one wallet never sign ahead of the chain: a
\* pending sale's nonce is at most the wallet's next one, so it waits for no
\* transaction that nobody sent.
NoNonceGap ==
  \A id \in Ids :
    tx[id] = "pending" => txNonce[id] <= walletNonce[WalletOfId(id)]

\* A wallet never has two sales in flight, however many tasks and sessions use
\* it: nonces come from the mined count, so a second send replaces the first
\* or is refused, and never queues behind it.
OneInFlightPerWallet ==
  \A i, j \in Ids :
    /\ tx[i] = "pending" /\ tx[j] = "pending" /\ WalletOfId(i) = WalletOfId(j)
    => i = j

\* A confirmed trade stays confirmed: the finalizing task and the reconcilers
\* may write the same row in any order.
ConfirmedIsFinal ==
  [][\A id \in Ids : row[id] = "confirmed" => row'[id] = "confirmed"]_row

-----------------------------------------------------------------------------
\* Liveness.

\* Every delivery comes to an end (its task returns or dies with its process):
\* no wait of process_swap_event is unbounded, even for a transaction that is
\* never mined.
TasksEnd == \A t \in Tasks : pc[t] # "idle" ~> pc[t] \in Over

\* A trade left 'submitted' (a receipt timeout, or a task that failed or died
\* after the INSERT) does not stay so once its transaction is mined.
MinedTradesResolve ==
  \A id \in Ids :
    row[id] = "submitted" /\ tx[id] \in Mined ~> row[id] # "submitted"

-----------------------------------------------------------------------------
\* What the repository says and the code does not do.

\* "Idempotency in record_trade prevents duplicate side effects" (main.rs,
\* line 281): a trigger makes a session sell at most once on chain.
OneSalePerTrigger ==
  \A s \in Sessions : \A t, u \in Tasks :
    /\ tx[<<t, s>>] = "success" /\ tx[<<u, s>>] = "success" /\ ev[t] = ev[u]
    => t = u

\* "The sell amount is capped at the session's remaining balance"
\* (PROCESS_FLOW.md, line 224): a session never sells more than its total.
NeverOversold == \A s \in Sessions : amountSold[s] <= Total[s]

\* "finalizes to `confirmed`/`failed` when outcome is available (otherwise
\* remains `submitted`)" (PROCESS_FLOW.md, line 685): a failed trade's
\* transaction did not succeed.
FailedMeansNotSold ==
  \A id \in Ids : row[id] = "failed" => tx[id] # "success"
=============================================================================
