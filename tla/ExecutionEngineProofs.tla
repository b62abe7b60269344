----------------------- MODULE ExecutionEngineProofs -----------------------
(***************************************************************************)
(* What a step of ExecutionEngine can do to one row, one transaction, one  *)
(* task: the lemmas that the invariance proofs rest on.  Then the types of *)
(* ExecutionEngine, and where its tasks are: Base is inductive, and the    *)
(* first theorems follow from it.                                          *)
(***************************************************************************)
EXTENDS ExecutionEngineInv, TLAPS

-----------------------------------------------------------------------------
\* The amount of a sale is a natural number and at most what total_amount
\* leaves over the amount_sold it was computed from.
LEMMA SellAmountCapped ==
  ASSUME NEW s \in Sessions, NEW e \in Events, NEW sold \in Nat
  PROVE  /\ SellAmount(s, e, sold) \in Nat
         /\ SellAmount(s, e, sold) <= Remaining(s, sold)
<1>1. Buy[e] \in Nat /\ PovBps[s] \in Nat /\ Total[s] \in Nat
  BY EngineConstants
<1>2. PovAmount(s, e) \in Nat
  <2> DEFINE product == Buy[e] * PovBps[s]
  <2>1. product \in Nat
    BY <1>1
  <2> HIDE DEF product
  <2>2. product \div 10000 \in Nat
    BY <2>1
  <2>3. QED
    BY <2>2 DEF PovAmount, product
<1>3. Remaining(s, sold) \in Nat
  BY <1>1 DEF Remaining
<1>4. QED
  BY <1>2, <1>3 DEF SellAmount

\* A task inside an iteration has a session, an event, a row name and an
\* amount.
LEMMA InSessionFacts ==
  ASSUME TypeOK, Control, NEW t \in Tasks, pc[t] \in InSession
  PROVE  /\ cur[t] \in Sessions
         /\ ev[t] \in Events
         /\ CurId(t) \in Ids
         /\ WalletOf[cur[t]] \in Wallets
         /\ WalletOfId(CurId(t)) = WalletOf[cur[t]]
         /\ Amount(t, cur[t]) \in Nat
<1>1. cur[t] \in Sessions /\ ev[t] \in Events
  BY DEF TypeOK, Control, InSession, BeforeCount, AfterCount
<1>2. Amount(t, cur[t]) \in Nat
  BY <1>1, SellAmountCapped DEF Amount, TypeOK
<1>3. QED
  BY <1>1, <1>2, EngineConstants DEF CurId, Ids, WalletOfId

\* A transaction that was sent belongs to a task that has an event, so its
\* amount is fixed.
LEMMA SentFacts ==
  ASSUME TypeOK, Control, Order, NEW id \in Ids, tx[id] # "none"
  PROVE  /\ ev[id[1]] \in Events
         /\ WalletOfId(id) \in Wallets
         /\ AmountOf(id) \in Nat
<1>1. id[1] \in Tasks /\ id[2] \in Sessions /\ id = <<id[1], id[2]>>
  BY DEF Ids
<1>2. pc[id[1]] # "idle"
  BY <1>1 DEF Order, Unsent
<1>3. ev[id[1]] \in Events
  BY <1>1, <1>2 DEF TypeOK, Control
<1>4. AmountOf(id) \in Nat
  BY <1>1, <1>3, SellAmountCapped DEF AmountOf, Amount, TypeOK
<1>5. QED
  BY <1>1, <1>3, <1>4, EngineConstants DEF WalletOfId

-----------------------------------------------------------------------------
\* Who writes what.

\* The statements that write trades.status and trades.failure_reason.
LEMMA RowWriters ==
  [Next]_vars =>
    \/ UNCHANGED <<row, reason>>
    \/ \E t \in Tasks :
         \/ InsertTrade(t) \/ FinalizeConfirmed(t)
         \/ FinalizeReverted(t) \/ FinalizeAmountFails(t)
         \/ FinalizeError(t) \/ FinalizeFails(t)
    \/ \E r \in Replicas, id \in Ids :
         \/ ReconcileConfirmed(r, id) \/ ReconcileReverted(r, id)
  BY DEF Next, TaskStep, TaskFault, ReconcilerStep, ReconcilerFault,
     Environment, Intervention, vars, dbVars, streamVars, chainVars,
     taskVars, historyVars, bookVars, SkipSession, EnterSession,
     EnsureTokenApproval, FetchNonce, SendAccepted, SendRejected,
     DuplicateTrigger, CountSale, FinalizeTimeout, PublishTrade,
     CompleteSession, SweepToInvestor, Ack, QueryFails, SendReplyLost,
     RecordFails, CompleteFails, AckFails, StartPass, ReconcileSkips,
     ReconcileFails, Deliver, Redeliver, Mine, Expire, Crash,
     UpdateSessionStatus

\* The steps that send, replace or mine a transaction.
LEMMA TxWriters ==
  [Next]_vars =>
    \/ UNCHANGED <<tx, walletNonce>>
    \/ \E t \in Tasks :
         \/ EnsureTokenApproval(t) \/ SendAccepted(t)
         \/ SweepToInvestor(t) \/ SendReplyLost(t)
    \/ \E id \in Ids : Mine(id)
  BY DEF Next, TaskStep, TaskFault, ReconcilerStep, ReconcilerFault,
     Environment, Intervention, vars, dbVars, streamVars, chainVars,
     taskVars, historyVars, bookVars, SkipSession, EnterSession, FetchNonce,
     SendRejected, InsertTrade, DuplicateTrigger, CountSale,
     FinalizeConfirmed, FinalizeReverted, FinalizeTimeout, PublishTrade,
     CompleteSession, Ack, QueryFails, RecordFails, FinalizeAmountFails,
     FinalizeError, FinalizeFails, CompleteFails, AckFails, StartPass,
     ReconcileConfirmed, ReconcileReverted, ReconcileSkips, ReconcileFails,
     Deliver, Redeliver, Expire, Crash, UpdateSessionStatus

\* The steps that choose the nonce of a sale.
LEMMA NonceWriters ==
  [Next]_vars =>
    \/ UNCHANGED txNonce
    \/ \E t \in Tasks :
         \/ FetchNonce(t) \/ SendAccepted(t) \/ SendReplyLost(t)
  BY DEF Next, TaskStep, TaskFault, ReconcilerStep, ReconcilerFault,
     Environment, Intervention, vars, dbVars, streamVars, chainVars,
     taskVars, historyVars, bookVars, MineSale, SkipSession, EnterSession,
     EnsureTokenApproval, SendRejected, InsertTrade, DuplicateTrigger,
     CountSale, FinalizeConfirmed, FinalizeReverted, FinalizeTimeout,
     PublishTrade, CompleteSession, SweepToInvestor, Ack, QueryFails,
     RecordFails, FinalizeAmountFails, FinalizeError, FinalizeFails,
     CompleteFails, AckFails, StartPass, ReconcileConfirmed,
     ReconcileReverted, ReconcileSkips, ReconcileFails, Deliver, Redeliver,
     Mine, Expire, Crash, UpdateSessionStatus

\* The steps that move a task.
LEMMA TaskWriters ==
  [Next]_vars =>
    \/ UNCHANGED <<pc, cur, todo>>
    \/ \E t \in Tasks, s \in Sessions :
         \/ SkipSession(t, s) \/ EnterSession(t, s)
    \/ \E t \in Tasks :
         \/ EnsureTokenApproval(t) \/ FetchNonce(t) \/ SendAccepted(t)
         \/ SendRejected(t) \/ InsertTrade(t) \/ DuplicateTrigger(t)
         \/ CountSale(t) \/ FinalizeConfirmed(t) \/ FinalizeReverted(t)
         \/ FinalizeTimeout(t) \/ PublishTrade(t) \/ CompleteSession(t)
         \/ SweepToInvestor(t) \/ Ack(t) \/ SendReplyLost(t)
         \/ RecordFails(t) \/ FinalizeAmountFails(t) \/ FinalizeError(t)
         \/ FinalizeFails(t) \/ CompleteFails(t) \/ AckFails(t)
    \/ \E t \in Tasks, e \in Events :
         \/ QueryFails(t, e) \/ Deliver(t, e)
    \/ \E r \in Replicas : Crash(r)
  BY DEF Next, TaskStep, TaskFault, ReconcilerStep, ReconcilerFault,
     Environment, Intervention, vars, dbVars, streamVars, chainVars,
     taskVars, historyVars, bookVars, StartPass, ReconcileConfirmed,
     ReconcileReverted, ReconcileSkips, ReconcileFails, Redeliver, Mine,
     Expire, UpdateSessionStatus

\* The steps that move a task or set the outcome it will publish.
LEMMA VerdictWriters ==
  [Next]_vars =>
    \/ UNCHANGED <<pc, cur, verdict>>
    \/ \E t \in Tasks, s \in Sessions : EnterSession(t, s)
    \/ \E t \in Tasks :
         \/ EnsureTokenApproval(t) \/ FetchNonce(t) \/ SendAccepted(t)
         \/ SendRejected(t) \/ InsertTrade(t) \/ DuplicateTrigger(t)
         \/ CountSale(t) \/ FinalizeConfirmed(t) \/ FinalizeReverted(t)
         \/ FinalizeTimeout(t) \/ PublishTrade(t) \/ CompleteSession(t)
         \/ SweepToInvestor(t) \/ Ack(t) \/ SendReplyLost(t)
         \/ RecordFails(t) \/ FinalizeAmountFails(t) \/ FinalizeError(t)
         \/ FinalizeFails(t) \/ CompleteFails(t) \/ AckFails(t)
    \/ \E t \in Tasks, e \in Events :
         \/ QueryFails(t, e) \/ Deliver(t, e)
    \/ \E r \in Replicas : Crash(r)
  BY DEF Next, TaskStep, TaskFault, ReconcilerStep, ReconcilerFault,
     Environment, Intervention, vars, dbVars, streamVars, chainVars,
     taskVars, historyVars, bookVars, SkipSession, StartPass,
     ReconcileConfirmed, ReconcileReverted, ReconcileSkips, ReconcileFails,
     Redeliver, Mine, Expire, UpdateSessionStatus

\* Only a delivery gives a task its event and its snapshot.
LEMMA EventWriters ==
  [Next]_vars =>
    \/ UNCHANGED <<ev, snap>>
    \/ \E t \in Tasks, e \in Events :
         \/ QueryFails(t, e) \/ Deliver(t, e)
  BY DEF Next, TaskStep, TaskFault, ReconcilerStep, ReconcilerFault,
     Environment, Intervention, vars, dbVars, streamVars, chainVars,
     taskVars, historyVars, bookVars, Goto, Continue, Finish, Conclude,
     SkipSession, EnterSession, EnsureTokenApproval, FetchNonce,
     SendAccepted, SendRejected, InsertTrade, DuplicateTrigger, CountSale,
     FinalizeConfirmed, FinalizeReverted, FinalizeTimeout, PublishTrade,
     CompleteSession, SweepToInvestor, Ack, SendReplyLost, RecordFails,
     FinalizeAmountFails, FinalizeError, FinalizeFails, CompleteFails,
     AckFails, StartPass, ReconcileConfirmed, ReconcileReverted,
     ReconcileSkips, ReconcileFails, Redeliver, Mine, Expire, Crash,
     UpdateSessionStatus

\* Only the UPDATE of record_trade changes sessions.amount_sold.
LEMMA LedgerWriters ==
  [Next]_vars =>
    \/ UNCHANGED <<amountSold, counted>>
    \/ \E t \in Tasks : CountSale(t)
  BY DEF Next, TaskStep, TaskFault, ReconcilerStep, ReconcilerFault,
     Environment, Intervention, vars, dbVars, streamVars, chainVars,
     taskVars, historyVars, bookVars, SkipSession, EnterSession,
     EnsureTokenApproval, FetchNonce, SendAccepted, SendRejected,
     InsertTrade, DuplicateTrigger, FinalizeConfirmed, FinalizeReverted,
     FinalizeTimeout, PublishTrade, CompleteSession, SweepToInvestor, Ack,
     QueryFails, SendReplyLost, RecordFails, FinalizeAmountFails,
     FinalizeError, FinalizeFails, CompleteFails, AckFails, StartPass,
     ReconcileConfirmed, ReconcileReverted, ReconcileSkips, ReconcileFails,
     Deliver, Redeliver, Mine, Expire, Crash, UpdateSessionStatus

\* The engine and the administrator write sessions.status.
LEMMA StatusWriters ==
  [Next]_vars =>
    \/ UNCHANGED status
    \/ \E t \in Tasks : CompleteSession(t)
    \/ \E s \in Sessions, target \in {"active", "paused", "cancelled"} :
         UpdateSessionStatus(s, target)
  BY DEF Next, TaskStep, TaskFault, ReconcilerStep, ReconcilerFault,
     Environment, Intervention, vars, dbVars, streamVars, chainVars,
     taskVars, historyVars, bookVars, SkipSession, EnterSession,
     EnsureTokenApproval, FetchNonce, SendAccepted, SendRejected,
     InsertTrade, DuplicateTrigger, CountSale, FinalizeConfirmed,
     FinalizeReverted, FinalizeTimeout, PublishTrade, SweepToInvestor, Ack,
     QueryFails, SendReplyLost, RecordFails, FinalizeAmountFails,
     FinalizeError, FinalizeFails, CompleteFails, AckFails, StartPass,
     ReconcileConfirmed, ReconcileReverted, ReconcileSkips, ReconcileFails,
     Deliver, Redeliver, Mine, Expire, Crash

\* The steps that write the other history variables.
LEMMA HistoryWriters ==
  [Next]_vars =>
    \/ UNCHANGED <<lost, raced>>
    \/ \E t \in Tasks : SendReplyLost(t)
    \/ \E t \in Tasks, e \in Events : Deliver(t, e)
  BY DEF Next, TaskStep, TaskFault, ReconcilerStep, ReconcilerFault,
     Environment, Intervention, vars, dbVars, streamVars, chainVars,
     taskVars, historyVars, bookVars, SkipSession, EnterSession,
     EnsureTokenApproval, FetchNonce, SendAccepted, SendRejected,
     InsertTrade, DuplicateTrigger, CountSale, FinalizeConfirmed,
     FinalizeReverted, FinalizeTimeout, PublishTrade, CompleteSession,
     SweepToInvestor, Ack, QueryFails, RecordFails, FinalizeAmountFails,
     FinalizeError, FinalizeFails, CompleteFails, AckFails, StartPass,
     ReconcileConfirmed, ReconcileReverted, ReconcileSkips, ReconcileFails,
     Redeliver, Mine, Expire, Crash, UpdateSessionStatus

\* The steps that change what a reconciliation pass still holds.
LEMMA BatchWriters ==
  [Next]_vars =>
    \/ UNCHANGED batch
    \/ \E r \in Replicas :
         \/ StartPass(r) \/ Crash(r)
    \/ \E r \in Replicas, id \in Ids :
         \/ ReconcileConfirmed(r, id) \/ ReconcileReverted(r, id)
         \/ ReconcileSkips(r, id) \/ ReconcileFails(r, id)
  BY DEF Next, TaskStep, TaskFault, ReconcilerStep, ReconcilerFault,
     Environment, Intervention, vars, dbVars, streamVars, chainVars,
     taskVars, historyVars, bookVars, SkipSession, EnterSession,
     EnsureTokenApproval, FetchNonce, SendAccepted, SendRejected,
     InsertTrade, DuplicateTrigger, CountSale, FinalizeConfirmed,
     FinalizeReverted, FinalizeTimeout, PublishTrade, CompleteSession,
     SweepToInvestor, Ack, QueryFails, SendReplyLost, RecordFails,
     FinalizeAmountFails, FinalizeError, FinalizeFails, CompleteFails,
     AckFails, Deliver, Redeliver, Mine, Expire, UpdateSessionStatus

-----------------------------------------------------------------------------
\* What a step does.

\* A row never disappears and a confirmed one stays confirmed; a row becomes
\* confirmed, or gets the reason transaction_reverted, only on a receipt that
\* says so; and it appears only through the INSERT of its own task.
LEMMA RowStep ==
  ASSUME Base, [Next]_vars, NEW id \in Ids
  PROVE  /\ row[id] # "none" => row'[id] # "none"
         /\ row[id] = "confirmed" => row'[id] = "confirmed"
         /\ row'[id] = "confirmed" =>
              row[id] = "confirmed" \/ tx[id] = "success"
         /\ reason'[id] = "transaction_reverted" =>
              reason[id] = "transaction_reverted" \/ tx[id] = "reverted"
         /\ row[id] = "none" /\ row'[id] # "none" =>
              \E t \in Tasks : InsertTrade(t) /\ id = CurId(t)
         /\ row'[id] = "none" => reason'[id] = reason[id]
<1>1. CASE UNCHANGED <<row, reason>>
  BY <1>1
<1>2. CASE \E t \in Tasks : InsertTrade(t)
  <2>1. PICK t \in Tasks : InsertTrade(t)
    BY <1>2
  <2>2. CurId(t) \in Ids /\ row[CurId(t)] = "none" /\ reason' = reason
    BY <2>1, InSessionFacts
    DEF InsertTrade, CurId, Base, Order, InSession, BeforeCount
  <2>3. row' = [row EXCEPT ![CurId(t)] = "submitted"]
    BY <2>1 DEF InsertTrade
  <2>4. QED
    BY <2>1, <2>2, <2>3 DEF Base, TypeOK
<1>3. CASE \E t \in Tasks : FinalizeConfirmed(t)
  <2>1. PICK t \in Tasks : FinalizeConfirmed(t)
    BY <1>3
  <2>2. CurId(t) \in Ids /\ row[CurId(t)] # "none"
    BY <2>1, InSessionFacts
    DEF FinalizeConfirmed, CurId, Base, Order, InSession, AfterCount
  <2>3. QED
    BY <2>1, <2>2 DEF FinalizeConfirmed, MarkTradeConfirmed, Base, TypeOK
<1>4. CASE \E t \in Tasks : FinalizeReverted(t)
  <2>1. PICK t \in Tasks : FinalizeReverted(t)
    BY <1>4
  <2>2. CurId(t) \in Ids /\ row[CurId(t)] # "none"
    BY <2>1, InSessionFacts
    DEF FinalizeReverted, CurId, Base, Order, InSession, AfterCount
  <2>3. QED
    BY <2>1, <2>2 DEF FinalizeReverted, MarkTradeFailed, Base, TypeOK
<1>5. CASE \E t \in Tasks : FinalizeAmountFails(t)
  <2>1. PICK t \in Tasks : FinalizeAmountFails(t)
    BY <1>5
  <2>2. CurId(t) \in Ids /\ row[CurId(t)] # "none"
    BY <2>1, InSessionFacts
    DEF FinalizeAmountFails, CurId, Base, Order, InSession, AfterCount
  <2>3. QED
    BY <2>1, <2>2 DEF FinalizeAmountFails, MarkTradeConfirmed, Base, TypeOK
<1>6. CASE \E t \in Tasks : FinalizeError(t)
  <2>1. PICK t \in Tasks : FinalizeError(t)
    BY <1>6
  <2>2. PICK why \in {"receipt_lookup_error", "receipt_finalization_error"} :
          MarkTradeFailed(CurId(t), why)
    BY <2>1 DEF FinalizeError
  <2>3. CurId(t) \in Ids /\ row[CurId(t)] # "none"
    BY <2>1, InSessionFacts
    DEF FinalizeError, CurId, Base, Order, InSession, AfterCount
  <2>4. QED
    BY <2>2, <2>3 DEF MarkTradeFailed, Base, TypeOK
<1>7. CASE \E t \in Tasks : FinalizeFails(t)
  <2>1. PICK t \in Tasks : FinalizeFails(t)
    BY <1>7
  <2>2. CurId(t) \in Ids /\ row[CurId(t)] # "none"
    BY <2>1, InSessionFacts
    DEF FinalizeFails, CurId, Base, Order, InSession, AfterCount
  <2>3. QED
    BY <2>1, <2>2 DEF FinalizeFails, MarkTradeConfirmed, Base, TypeOK
<1>8. CASE \E r \in Replicas, x \in Ids : ReconcileConfirmed(r, x)
  BY <1>8 DEF ReconcileConfirmed, MarkTradeConfirmed, Base, TypeOK,
     BatchRecorded
<1>9. CASE \E r \in Replicas, x \in Ids : ReconcileReverted(r, x)
  BY <1>9 DEF ReconcileReverted, MarkTradeFailed, Base, TypeOK, BatchRecorded
<1>10. QED
  BY <1>1, <1>2, <1>3, <1>4, <1>5, <1>6, <1>7, <1>8, <1>9, RowWriters

\* A transaction appears only when its own task sends it, and a receipt does
\* not change any more.
LEMMA TxStep ==
  ASSUME Base, [Next]_vars, NEW id \in Ids
  PROVE  /\ tx[id] = "none" /\ tx'[id] # "none" =>
              \E t \in Tasks : /\ id = CurId(t)
                               /\ SendAccepted(t) \/ SendReplyLost(t)
         /\ tx[id] # "none" => tx'[id] # "none"
         /\ tx[id] \in Mined => tx'[id] = tx[id]
<1>1. CASE UNCHANGED <<tx, walletNonce>>
  BY <1>1
<1>2. CASE \E t \in Tasks : EnsureTokenApproval(t)
  BY <1>2, InSessionFacts DEF EnsureTokenApproval, UseNonce, PendingAt, Base,
     TypeOK, ChainTypeOK, chainVars, Order, Unsent, InSession, BeforeCount,
     AfterCount, Mined
<1>3. CASE \E t \in Tasks : SendAccepted(t)
  <2>1. PICK t \in Tasks : SendAccepted(t)
    BY <1>3
  <2>2. CurId(t) \in Ids /\ tx[CurId(t)] = "none"
    BY <2>1, InSessionFacts
    DEF SendAccepted, CurId, Base, Order, Unsent, InSession, BeforeCount
  <2>3. AcceptTx(CurId(t), txNonce[CurId(t)])
    BY <2>1 DEF SendAccepted
  <2>4. QED
    BY <2>1, <2>2, <2>3
    DEF AcceptTx, PendingAt, Base, TypeOK, ChainTypeOK, Mined
<1>4. CASE \E t \in Tasks : SweepToInvestor(t)
  BY <1>4, InSessionFacts DEF SweepToInvestor, UseNonce, PendingAt, Base,
     TypeOK, ChainTypeOK, chainVars, Order, Unsent, InSession, BeforeCount,
     AfterCount, Mined
<1>5. CASE \E t \in Tasks : SendReplyLost(t)
  <2>1. PICK t \in Tasks : SendReplyLost(t)
    BY <1>5
  <2>2. CurId(t) \in Ids /\ tx[CurId(t)] = "none"
    BY <2>1, InSessionFacts
    DEF SendReplyLost, CurId, Base, Order, Unsent, InSession, BeforeCount
  <2>3. AcceptTx(CurId(t), txNonce[CurId(t)])
    BY <2>1 DEF SendReplyLost
  <2>4. QED
    BY <2>1, <2>2, <2>3
    DEF AcceptTx, PendingAt, Base, TypeOK, ChainTypeOK, Mined
<1>6. CASE \E x \in Ids : Mine(x)
  BY <1>6, InSessionFacts DEF Mine, MineSale, Base, TypeOK, ChainTypeOK,
     chainVars, Order, Unsent, InSession, BeforeCount, AfterCount, Mined
<1>7. QED
  BY <1>1, <1>2, <1>3, <1>4, <1>5, <1>6, TxWriters

\* A session a task has sent a sale for, or passed by, is not visited again;
\* the label insert is reached only from send, and the labels after it only
\* through an INSERT that found no conflict.
LEMMA TaskMoves ==
  ASSUME Base, [Next]_vars, NEW u \in Tasks, NEW s \in Sessions
  PROVE  /\ Unsent(u, s)' => Unsent(u, s)
         /\ cur'[u] = s /\ pc'[u] = "insert" =>
              cur[u] = s /\ pc[u] \in {"send", "insert"}
         /\ cur'[u] = s /\ pc'[u] \in {"count"} \cup AfterCount =>
              /\ cur[u] = s
              /\ pc[u] \in {"count"} \cup AfterCount \/ InsertTrade(u)
<1>1. CASE UNCHANGED <<pc, cur, todo>>
  BY <1>1 DEF Unsent
<1>2. CASE \E t \in Tasks, x \in Sessions : SkipSession(t, x)
  BY <1>2, EngineConstants DEF SkipSession, TypeOK, Control, Base, Unsent,
     InSession, BeforeCount, AfterCount, Over
<1>3. CASE \E t \in Tasks, x \in Sessions : EnterSession(t, x)
  BY <1>3, EngineConstants DEF EnterSession, TypeOK, Control, Base, Unsent,
     InSession, BeforeCount, AfterCount, Over
<1>4. CASE \E t \in Tasks : EnsureTokenApproval(t)
  BY <1>4, EngineConstants DEF EnsureTokenApproval, Continue, taskVars,
     TypeOK, Control, Base, Unsent, InSession, BeforeCount, AfterCount, Over
<1>5. CASE \E t \in Tasks : FetchNonce(t)
  BY <1>5, EngineConstants DEF FetchNonce, Goto, TypeOK, Control, Base,
     Unsent, InSession, BeforeCount, AfterCount, Over
<1>6. CASE \E t \in Tasks : SendAccepted(t)
  BY <1>6, EngineConstants DEF SendAccepted, Goto, TypeOK, Control, Base,
     Unsent, InSession, BeforeCount, AfterCount, Over
<1>7. CASE \E t \in Tasks : SendRejected(t)
  BY <1>7, EngineConstants DEF SendRejected, Continue, TypeOK, Control, Base,
     Unsent, InSession, BeforeCount, AfterCount, Over
<1>8. CASE \E t \in Tasks : InsertTrade(t)
  <2>1. PICK t \in Tasks : InsertTrade(t)
    BY <1>8
  <2>2. pc[t] = "insert" /\ Goto(t, "count")
    BY <2>1 DEF InsertTrade
  <2>3. QED
    BY <2>1, <2>2 DEF Goto, Base, TypeOK, Unsent, AfterCount
<1>9. CASE \E t \in Tasks : DuplicateTrigger(t)
  BY <1>9, EngineConstants DEF DuplicateTrigger, Continue, TypeOK, Control,
     Base, Unsent, InSession, BeforeCount, AfterCount, Over
<1>10. CASE \E t \in Tasks : CountSale(t)
  BY <1>10, EngineConstants DEF CountSale, Goto, TypeOK, Control, Base,
     Unsent, InSession, BeforeCount, AfterCount, Over
<1>11. CASE \E t \in Tasks : FinalizeConfirmed(t)
  BY <1>11, EngineConstants DEF FinalizeConfirmed, Conclude, TypeOK, Control,
     Base, Unsent, InSession, BeforeCount, AfterCount, Over
<1>12. CASE \E t \in Tasks : FinalizeReverted(t)
  BY <1>12, EngineConstants DEF FinalizeReverted, Conclude, TypeOK, Control,
     Base, Unsent, InSession, BeforeCount, AfterCount, Over
<1>13. CASE \E t \in Tasks : FinalizeTimeout(t)
  BY <1>13, EngineConstants DEF FinalizeTimeout, Conclude, TypeOK, Control,
     Base, Unsent, InSession, BeforeCount, AfterCount, Over
<1>14. CASE \E t \in Tasks : PublishTrade(t)
  BY <1>14, EngineConstants DEF PublishTrade, Goto, Continue, TypeOK,
     Control, Base, Unsent, InSession, BeforeCount, AfterCount, Over
<1>15. CASE \E t \in Tasks : CompleteSession(t)
  BY <1>15, EngineConstants DEF CompleteSession, Goto, TypeOK, Control, Base,
     Unsent, InSession, BeforeCount, AfterCount, Over
<1>16. CASE \E t \in Tasks : SweepToInvestor(t)
  BY <1>16, EngineConstants DEF SweepToInvestor, Continue, TypeOK, Control,
     Base, Unsent, InSession, BeforeCount, AfterCount, Over
<1>17. CASE \E t \in Tasks : Ack(t)
  BY <1>17, EngineConstants DEF Ack, Finish, TypeOK, Control, Base, Unsent,
     InSession, BeforeCount, AfterCount, Over
<1>18. CASE \E t \in Tasks, e \in Events : QueryFails(t, e)
  BY <1>18, EngineConstants DEF QueryFails, TypeOK, Control, Base, Unsent,
     InSession, BeforeCount, AfterCount, Over
<1>19. CASE \E t \in Tasks : SendReplyLost(t)
  BY <1>19, EngineConstants DEF SendReplyLost, Continue, TypeOK, Control,
     Base, Unsent, InSession, BeforeCount, AfterCount, Over
<1>20. CASE \E t \in Tasks : RecordFails(t)
  BY <1>20, EngineConstants DEF RecordFails, Finish, TypeOK, Control, Base,
     Unsent, InSession, BeforeCount, AfterCount, Over
<1>21. CASE \E t \in Tasks : FinalizeAmountFails(t)
  BY <1>21, EngineConstants DEF FinalizeAmountFails, Conclude, TypeOK,
     Control, Base, Unsent, InSession, BeforeCount, AfterCount, Over
<1>22. CASE \E t \in Tasks : FinalizeError(t)
  BY <1>22, EngineConstants DEF FinalizeError, Conclude, TypeOK, Control,
     Base, Unsent, InSession, BeforeCount, AfterCount, Over
<1>23. CASE \E t \in Tasks : FinalizeFails(t)
  BY <1>23, EngineConstants DEF FinalizeFails, Finish, TypeOK, Control, Base,
     Unsent, InSession, BeforeCount, AfterCount, Over
<1>24. CASE \E t \in Tasks : CompleteFails(t)
  BY <1>24, EngineConstants DEF CompleteFails, Goto, TypeOK, Control, Base,
     Unsent, InSession, BeforeCount, AfterCount, Over
<1>25. CASE \E t \in Tasks : AckFails(t)
  BY <1>25, EngineConstants DEF AckFails, Finish, TypeOK, Control, Base,
     Unsent, InSession, BeforeCount, AfterCount, Over
<1>26. CASE \E t \in Tasks, e \in Events : Deliver(t, e)
  BY <1>26, EngineConstants DEF Deliver, TypeOK, Control, Base, Unsent,
     InSession, BeforeCount, AfterCount, Over
<1>27. CASE \E r \in Replicas : Crash(r)
  BY <1>27, EngineConstants DEF Crash, TypeOK, Control, Base, Unsent,
     InSession, BeforeCount, AfterCount, Over
<1>28. QED
  BY <1>1, <1>2, <1>3, <1>4, <1>5, <1>6, <1>7, <1>8, <1>9, <1>10, <1>11,
     <1>12, <1>13, <1>14, <1>15, <1>16, <1>17, <1>18, <1>19, <1>20, <1>21,
     <1>22, <1>23, <1>24, <1>25, <1>26, <1>27, TaskWriters

\* From its delivery on, a task keeps its event and its snapshot, hence the
\* amounts it sells; a task that is over stays as it is.
LEMMA EventStep ==
  ASSUME Base, [Next]_vars, NEW u \in Tasks, pc[u] # "idle"
  PROVE  /\ ev'[u] = ev[u] /\ snap'[u] = snap[u]
         /\ \A s \in Sessions : Amount(u, s)' = Amount(u, s)
<1>1. ev'[u] = ev[u] /\ snap'[u] = snap[u]
  <2>1. CASE UNCHANGED <<ev, snap>>
    BY <2>1
  <2>2. CASE \E t \in Tasks, e \in Events : QueryFails(t, e)
    BY <2>2 DEF QueryFails, Base, TypeOK
  <2>3. CASE \E t \in Tasks, e \in Events : Deliver(t, e)
    BY <2>3 DEF Deliver, Base, TypeOK
  <2>4. QED
    BY <2>1, <2>2, <2>3, EventWriters
<1>2. QED
  BY <1>1 DEF Amount, SellAmount, PovAmount, Remaining

\* Once delivered, a task does not become idle again, and one that is over
\* stays as it is.
LEMMA OverStep ==
  ASSUME Base, [Next]_vars, NEW u \in Tasks
  PROVE  /\ pc[u] # "idle" => pc'[u] # "idle"
         /\ pc[u] \in Over => pc'[u] = pc[u]
<1>1. CASE UNCHANGED <<pc, cur, todo>>
  BY <1>1
<1>2. CASE \E t \in Tasks, s \in Sessions : SkipSession(t, s)
  BY <1>2 DEF SkipSession, TypeOK, Base, Over
<1>3. CASE \E t \in Tasks, s \in Sessions : EnterSession(t, s)
  BY <1>3 DEF EnterSession, TypeOK, Base, Over
<1>4. CASE \E t \in Tasks : EnsureTokenApproval(t)
  BY <1>4 DEF EnsureTokenApproval, Continue, taskVars, TypeOK, Base, Over
<1>5. CASE \E t \in Tasks : FetchNonce(t)
  BY <1>5 DEF FetchNonce, Goto, TypeOK, Base, Over
<1>6. CASE \E t \in Tasks : SendAccepted(t)
  BY <1>6 DEF SendAccepted, Goto, TypeOK, Base, Over
<1>7. CASE \E t \in Tasks : SendRejected(t)
  BY <1>7 DEF SendRejected, Continue, TypeOK, Base, Over
<1>8. CASE \E t \in Tasks : InsertTrade(t)
  BY <1>8 DEF InsertTrade, Goto, TypeOK, Base, Over
<1>9. CASE \E t \in Tasks : DuplicateTrigger(t)
  BY <1>9 DEF DuplicateTrigger, Continue, TypeOK, Base, Over
<1>10. CASE \E t \in Tasks : CountSale(t)
  BY <1>10 DEF CountSale, Goto, TypeOK, Base, Over
<1>11. CASE \E t \in Tasks : FinalizeConfirmed(t)
  BY <1>11 DEF FinalizeConfirmed, Conclude, TypeOK, Base, Over
<1>12. CASE \E t \in Tasks : FinalizeReverted(t)
  BY <1>12 DEF FinalizeReverted, Conclude, TypeOK, Base, Over
<1>13. CASE \E t \in Tasks : FinalizeTimeout(t)
  BY <1>13 DEF FinalizeTimeout, Conclude, TypeOK, Base, Over
<1>14. CASE \E t \in Tasks : PublishTrade(t)
  BY <1>14 DEF PublishTrade, Goto, Continue, TypeOK, Base, Over
<1>15. CASE \E t \in Tasks : CompleteSession(t)
  BY <1>15 DEF CompleteSession, Goto, TypeOK, Base, Over
<1>16. CASE \E t \in Tasks : SweepToInvestor(t)
  BY <1>16 DEF SweepToInvestor, Continue, TypeOK, Base, Over
<1>17. CASE \E t \in Tasks : Ack(t)
  BY <1>17 DEF Ack, Finish, TypeOK, Base, Over
<1>18. CASE \E t \in Tasks, e \in Events : QueryFails(t, e)
  BY <1>18 DEF QueryFails, TypeOK, Base, Over
<1>19. CASE \E t \in Tasks : SendReplyLost(t)
  BY <1>19 DEF SendReplyLost, Continue, TypeOK, Base, Over
<1>20. CASE \E t \in Tasks : RecordFails(t)
  BY <1>20 DEF RecordFails, Finish, TypeOK, Base, Over
<1>21. CASE \E t \in Tasks : FinalizeAmountFails(t)
  BY <1>21 DEF FinalizeAmountFails, Conclude, TypeOK, Base, Over
<1>22. CASE \E t \in Tasks : FinalizeError(t)
  BY <1>22 DEF FinalizeError, Conclude, TypeOK, Base, Over
<1>23. CASE \E t \in Tasks : FinalizeFails(t)
  BY <1>23 DEF FinalizeFails, Finish, TypeOK, Base, Over
<1>24. CASE \E t \in Tasks : CompleteFails(t)
  BY <1>24 DEF CompleteFails, Goto, TypeOK, Base, Over
<1>25. CASE \E t \in Tasks : AckFails(t)
  BY <1>25 DEF AckFails, Finish, TypeOK, Base, Over
<1>26. CASE \E t \in Tasks, e \in Events : Deliver(t, e)
  BY <1>26 DEF Deliver, TypeOK, Base, Over
<1>27. CASE \E r \in Replicas : Crash(r)
  BY <1>27 DEF Crash, TypeOK, Base, Over
<1>28. QED
  BY <1>1, <1>2, <1>3, <1>4, <1>5, <1>6, <1>7, <1>8, <1>9, <1>10, <1>11,
     <1>12, <1>13, <1>14, <1>15, <1>16, <1>17, <1>18, <1>19, <1>20, <1>21,
     <1>22, <1>23, <1>24, <1>25, <1>26, <1>27, TaskWriters

\* sessions.amount_sold only grows, and only by the amount of a sale that its
\* task is counting.
LEMMA LedgerStep ==
  ASSUME Base, [Next]_vars, NEW s \in Sessions
  PROVE  /\ amountSold'[s] >= amountSold[s]
         /\ amountSold'[s] # amountSold[s] =>
              \E t \in Tasks :
                /\ CountSale(t) /\ cur[t] = s
                /\ amountSold'[s] = amountSold[s] + Amount(t, s)
<1>1. CASE UNCHANGED <<amountSold, counted>>
  BY <1>1 DEF Base, TypeOK
<1>2. CASE \E t \in Tasks : CountSale(t)
  <2>1. PICK t \in Tasks : CountSale(t)
    BY <1>2
  <2>2. cur[t] \in Sessions /\ Amount(t, cur[t]) \in Nat
    BY <2>1, InSessionFacts DEF CountSale, Base, InSession, BeforeCount
  <2>3. amountSold' = [amountSold EXCEPT ![cur[t]] = @ + Amount(t, cur[t])]
    BY <2>1, <2>2 DEF CountSale, NewAmountSold, Base, TypeOK
  <2>4. QED
    BY <2>1, <2>2, <2>3 DEF Base, TypeOK
<1>3. QED
  BY <1>1, <1>2, LedgerWriters

-----------------------------------------------------------------------------
\* The initial states satisfy Base.
LEMMA BaseInit == Init => Base
<1> SUFFICES ASSUME Init PROVE Base
  OBVIOUS
<1>1. TypeOK
  BY EngineConstants
  DEF Init, StreamInit, ChainInit, TypeOK, StreamTypeOK, ChainTypeOK, Labels,
      SessionStates, RowStates, Reasons, MsgStates, TxStates
<1>2. Control
  BY EngineConstants
  DEF Init, Control, InSession, BeforeCount, AfterCount, Over
<1>3. Order
  BY EngineConstants DEF Init, ChainInit, Order, Unsent, Ids, AfterCount
<1>4. BatchRecorded
  BY DEF Init, BatchRecorded
<1>5. QED
  BY <1>1, <1>2, <1>3, <1>4 DEF Base

\* Every step keeps the types.  Mining needs Order: a sent transaction has an
\* amount because its task has an event.
LEMMA TypeStep ==
  TypeOK /\ Control /\ Order /\ [Next]_vars => TypeOK'
<1> SUFFICES ASSUME TypeOK, Control, Order, [Next]_vars
             PROVE  TypeOK'
  OBVIOUS
<1>1. ASSUME NEW t \in Tasks, TaskStep(t)
      PROVE  TypeOK'
  <2>1. ASSUME NEW s \in Sessions, SkipSession(t, s)
         PROVE  TypeOK'
    BY <2>1 DEF TypeOK, StreamTypeOK, ChainTypeOK, SkipSession, dbVars,
       streamVars, chainVars, bookVars, historyVars
  <2>2. ASSUME NEW s \in Sessions, EnterSession(t, s)
         PROVE  TypeOK'
    BY <2>2 DEF TypeOK, StreamTypeOK, ChainTypeOK, EnterSession, Amount,
       SellAmount, dbVars, streamVars, chainVars, bookVars, historyVars,
       Labels, InSession, BeforeCount, AfterCount, Over
  <2>3. CASE EnsureTokenApproval(t)
    <3>1. CASE UNCHANGED taskVars
      BY <2>3, InSessionFacts, <3>1 DEF TypeOK, StreamTypeOK, ChainTypeOK,
         EnsureTokenApproval, UseNonce, PendingAt, Continue, taskVars,
         dbVars, streamVars, bookVars, historyVars, Labels, InSession,
         BeforeCount, AfterCount, Over, RowStates, TxStates
    <3>2. CASE Continue(t)
      BY <2>3, InSessionFacts, <3>2 DEF TypeOK, StreamTypeOK, ChainTypeOK,
         EnsureTokenApproval, UseNonce, PendingAt, Continue, taskVars,
         dbVars, streamVars, bookVars, historyVars, Labels, InSession,
         BeforeCount, AfterCount, Over, RowStates, TxStates
    <3>3. QED
      BY <2>3, <3>1, <3>2 DEF EnsureTokenApproval
  <2>4. CASE FetchNonce(t)
    BY <2>4, InSessionFacts DEF TypeOK, StreamTypeOK, ChainTypeOK,
       FetchNonce, Goto, NextNonce, dbVars, streamVars, bookVars,
       historyVars, Labels, InSession, BeforeCount, AfterCount, Over
  <2>5. CASE SendAccepted(t)
    BY <2>5, InSessionFacts DEF TypeOK, StreamTypeOK, ChainTypeOK,
       SendAccepted, AcceptTx, PendingAt, Goto, dbVars, streamVars, bookVars,
       historyVars, Labels, InSession, BeforeCount, AfterCount, Over,
       TxStates
  <2>6. CASE SendRejected(t)
    BY <2>6 DEF TypeOK, StreamTypeOK, ChainTypeOK, SendRejected, Continue,
       dbVars, streamVars, chainVars, bookVars, historyVars, Labels,
       InSession, BeforeCount, AfterCount, Over, RowStates
  <2>7. CASE InsertTrade(t)
    BY <2>7, InSessionFacts DEF TypeOK, StreamTypeOK, ChainTypeOK,
       InsertTrade, Goto, streamVars, chainVars, bookVars, historyVars,
       Labels, InSession, BeforeCount, AfterCount, Over, RowStates
  <2>8. CASE DuplicateTrigger(t)
    BY <2>8 DEF TypeOK, StreamTypeOK, ChainTypeOK, DuplicateTrigger,
       Continue, dbVars, streamVars, chainVars, bookVars, historyVars,
       Labels, InSession, BeforeCount, AfterCount, Over, RowStates
  <2>9. CASE CountSale(t)
    BY <2>9, InSessionFacts DEF TypeOK, StreamTypeOK, ChainTypeOK, CountSale,
       Goto, NewAmountSold, streamVars, chainVars, Labels, InSession,
       BeforeCount, AfterCount, Over
  <2>10. CASE FinalizeConfirmed(t)
    BY <2>10, InSessionFacts DEF TypeOK, StreamTypeOK, ChainTypeOK,
       FinalizeConfirmed, MarkTradeConfirmed, Conclude, streamVars,
       chainVars, bookVars, historyVars, Labels, InSession, BeforeCount,
       AfterCount, Over, RowStates, Reasons
  <2>11. CASE FinalizeReverted(t)
    BY <2>11, InSessionFacts DEF TypeOK, StreamTypeOK, ChainTypeOK,
       FinalizeReverted, MarkTradeFailed, Conclude, streamVars, chainVars,
       bookVars, historyVars, Labels, InSession, BeforeCount, AfterCount,
       Over, RowStates, Reasons
  <2>12. CASE FinalizeTimeout(t)
    BY <2>12 DEF TypeOK, StreamTypeOK, ChainTypeOK, FinalizeTimeout,
       Conclude, dbVars, streamVars, chainVars, bookVars, historyVars,
       Labels, InSession, BeforeCount, AfterCount, Over, RowStates
  <2>13. CASE PublishTrade(t)
    <3>1. CASE Goto(t, "complete")
      BY <2>13, <3>1 DEF TypeOK, StreamTypeOK, ChainTypeOK, PublishTrade,
         Goto, Continue, dbVars, streamVars, chainVars, bookVars,
         historyVars, Labels, InSession, BeforeCount, AfterCount, Over,
         RowStates
    <3>2. CASE Continue(t)
      BY <2>13, <3>2 DEF TypeOK, StreamTypeOK, ChainTypeOK, PublishTrade,
         Goto, Continue, dbVars, streamVars, chainVars, bookVars,
         historyVars, Labels, InSession, BeforeCount, AfterCount, Over,
         RowStates
    <3>3. QED
      BY <2>13, <3>1, <3>2 DEF PublishTrade
  <2>14. CASE CompleteSession(t)
    BY <2>14 DEF TypeOK, StreamTypeOK, ChainTypeOK, CompleteSession, Goto,
       streamVars, chainVars, bookVars, historyVars, Labels, InSession,
       BeforeCount, AfterCount, Over, SessionStates
  <2>15. CASE SweepToInvestor(t)
    <3>1. CASE UNCHANGED chainVars
      BY <2>15, InSessionFacts, <3>1 DEF TypeOK, StreamTypeOK, ChainTypeOK,
         SweepToInvestor, UseNonce, PendingAt, Continue, dbVars, streamVars,
         chainVars, bookVars, historyVars, Labels, InSession, BeforeCount,
         AfterCount, Over, RowStates, TxStates
    <3>2. CASE /\ UseNonce(WalletOf[cur[t]])
               /\ UNCHANGED <<txNonce, balance, allowance>>
      BY <2>15, InSessionFacts, <3>2 DEF TypeOK, StreamTypeOK, ChainTypeOK,
         SweepToInvestor, UseNonce, PendingAt, Continue, dbVars, streamVars,
         chainVars, bookVars, historyVars, Labels, InSession, BeforeCount,
         AfterCount, Over, RowStates, TxStates
    <3>3. QED
      BY <2>15, <3>1, <3>2 DEF SweepToInvestor
  <2>16. CASE Ack(t)
    BY <2>16 DEF TypeOK, StreamTypeOK, ChainTypeOK, Ack, AckMessage, Finish,
       dbVars, chainVars, bookVars, historyVars, Labels, InSession,
       BeforeCount, AfterCount, Over, RowStates, MsgStates
  <2>17. QED
    BY <1>1, <2>1, <2>2, <2>3, <2>4, <2>5, <2>6, <2>7, <2>8, <2>9, <2>10,
       <2>11, <2>12, <2>13, <2>14, <2>15, <2>16 DEF TaskStep
<1>2. ASSUME NEW t \in Tasks, TaskFault(t)
      PROVE  TypeOK'
  <2>1. ASSUME NEW e \in Events, QueryFails(t, e)
         PROVE  TypeOK'
    BY <2>1, EngineConstants DEF TypeOK, StreamTypeOK, ChainTypeOK,
       QueryFails, DeliverMessage, Deliverable, CountFault, dbVars,
       chainVars, historyVars, Labels, InSession, BeforeCount, AfterCount,
       Over
  <2>2. CASE SendReplyLost(t)
    BY <2>2, InSessionFacts, EngineConstants DEF TypeOK, StreamTypeOK,
       ChainTypeOK, SendReplyLost, AcceptTx, PendingAt, Continue, CountFault,
       dbVars, streamVars, Labels, InSession, BeforeCount, AfterCount, Over,
       RowStates, TxStates
  <2>3. CASE RecordFails(t)
    BY <2>3, EngineConstants DEF TypeOK, StreamTypeOK, ChainTypeOK,
       RecordFails, Finish, CountFault, dbVars, streamVars, chainVars,
       historyVars, Labels, InSession, BeforeCount, AfterCount, Over,
       RowStates
  <2>4. CASE FinalizeAmountFails(t)
    BY <2>4, InSessionFacts, EngineConstants DEF TypeOK, StreamTypeOK,
       ChainTypeOK, FinalizeAmountFails, MarkTradeConfirmed, Conclude,
       CountFault, streamVars, chainVars, historyVars, Labels, InSession,
       BeforeCount, AfterCount, Over, RowStates, Reasons
  <2>5. CASE FinalizeError(t)
    BY <2>5, InSessionFacts, EngineConstants DEF TypeOK, StreamTypeOK,
       ChainTypeOK, FinalizeError, MarkTradeFailed, Conclude, CountFault,
       streamVars, chainVars, historyVars, Labels, InSession, BeforeCount,
       AfterCount, Over, RowStates, Reasons
  <2>6. CASE FinalizeFails(t)
    <3>1. CASE UNCHANGED <<row, reason>>
      BY <2>6, InSessionFacts, EngineConstants, <3>1 DEF TypeOK,
         StreamTypeOK, ChainTypeOK, FinalizeFails, MarkTradeConfirmed,
         Finish, CountFault, streamVars, chainVars, historyVars, Labels,
         InSession, BeforeCount, AfterCount, Over, RowStates, Reasons
    <3>2. CASE MarkTradeConfirmed(CurId(t))
      BY <2>6, InSessionFacts, EngineConstants, <3>2 DEF TypeOK,
         StreamTypeOK, ChainTypeOK, FinalizeFails, MarkTradeConfirmed,
         Finish, CountFault, streamVars, chainVars, historyVars, Labels,
         InSession, BeforeCount, AfterCount, Over, RowStates, Reasons
    <3>3. QED
      BY <2>6, <3>1, <3>2 DEF FinalizeFails
  <2>7. CASE CompleteFails(t)
    BY <2>7, EngineConstants DEF TypeOK, StreamTypeOK, ChainTypeOK,
       CompleteFails, Goto, CountFault, dbVars, streamVars, chainVars,
       historyVars, Labels, InSession, BeforeCount, AfterCount, Over
  <2>8. CASE AckFails(t)
    BY <2>8, EngineConstants DEF TypeOK, StreamTypeOK, ChainTypeOK, AckFails,
       Finish, CountFault, dbVars, streamVars, chainVars, historyVars,
       Labels, InSession, BeforeCount, AfterCount, Over, RowStates
  <2>9. QED
    BY <1>2, <2>1, <2>2, <2>3, <2>4, <2>5, <2>6, <2>7, <2>8 DEF TaskFault
<1>3. ASSUME NEW r \in Replicas, ReconcilerStep(r)
      PROVE  TypeOK'
  <2>1. CASE StartPass(r)
    BY <2>1 DEF TypeOK, StreamTypeOK, ChainTypeOK, StartPass, SubmittedRows,
       dbVars, streamVars, chainVars, taskVars, bookVars, historyVars
  <2>2. ASSUME NEW id \in Ids, ReconcileConfirmed(r, id)
         PROVE  TypeOK'
    BY <2>2 DEF TypeOK, StreamTypeOK, ChainTypeOK, ReconcileConfirmed,
       MarkTradeConfirmed, streamVars, chainVars, taskVars, bookVars,
       historyVars, RowStates, Reasons
  <2>3. ASSUME NEW id \in Ids, ReconcileReverted(r, id)
         PROVE  TypeOK'
    BY <2>3 DEF TypeOK, StreamTypeOK, ChainTypeOK, ReconcileReverted,
       MarkTradeFailed, streamVars, chainVars, taskVars, bookVars,
       historyVars, RowStates, Reasons
  <2>4. ASSUME NEW id \in Ids, ReconcileSkips(r, id)
         PROVE  TypeOK'
    BY <2>4 DEF TypeOK, StreamTypeOK, ChainTypeOK, ReconcileSkips, dbVars,
       streamVars, chainVars, taskVars, bookVars, historyVars
  <2>5. QED
    BY <1>3, <2>1, <2>2, <2>3, <2>4 DEF ReconcilerStep
<1>4. ASSUME NEW r \in Replicas, ReconcilerFault(r)
      PROVE  TypeOK'
  <2>1. ASSUME NEW id \in Ids, ReconcileFails(r, id)
         PROVE  TypeOK'
    BY <2>1, EngineConstants DEF TypeOK, StreamTypeOK, ChainTypeOK,
       ReconcileFails, CountFault, dbVars, streamVars, chainVars, taskVars,
       historyVars
  <2>2. QED
    BY <1>4, <2>1 DEF ReconcilerFault
<1>5. CASE Environment
  <2>1. ASSUME NEW t \in Tasks, NEW e \in Events, Deliver(t, e)
         PROVE  TypeOK'
    BY <2>1, EngineConstants DEF TypeOK, StreamTypeOK, ChainTypeOK, Deliver,
       DeliverMessage, Deliverable, Response, ActiveSessions, dbVars,
       chainVars, Labels, InSession, BeforeCount, AfterCount, Over
  <2>2. ASSUME NEW e \in Events, Redeliver(e)
         PROVE  TypeOK'
    BY <2>2 DEF TypeOK, StreamTypeOK, ChainTypeOK, Redeliver, AckWaitExpires,
       dbVars, chainVars, taskVars, bookVars, historyVars
  <2>3. ASSUME NEW id \in Ids, Mine(id)
         PROVE  TypeOK'
    <3>1. AmountOf(id) \in Nat /\ WalletOfId(id) \in Wallets
      BY <2>3, SentFacts DEF Mine, MineSale
    <3>2. walletNonce' \in [Wallets -> Nat] /\ tx' \in [Ids -> TxStates]
      BY <2>3, <3>1 DEF Mine, MineSale, TypeOK, ChainTypeOK, TxStates
    <3>3. balance' \in [Wallets -> Nat]
      BY <2>3, <3>1 DEF Mine, MineSale, TypeOK, ChainTypeOK
    <3>4. UNCHANGED <<txNonce, allowance>>
      BY <2>3 DEF Mine, MineSale
    <3>5. QED
      BY <2>3, <3>2, <3>3, <3>4
      DEF TypeOK, StreamTypeOK, ChainTypeOK, Mine, streamVars, dbVars,
          taskVars, bookVars, historyVars
  <2>4. QED
    BY <1>5, <2>1, <2>2, <2>3 DEF Environment
<1>6. CASE Intervention
  <2>1. ASSUME NEW e \in Events, Expire(e)
         PROVE  TypeOK'
    BY <2>1, EngineConstants DEF TypeOK, StreamTypeOK, ChainTypeOK, Expire,
       MaxAgeExpires, CountFault, dbVars, chainVars, taskVars, historyVars,
       MsgStates
  <2>2. ASSUME NEW r \in Replicas, Crash(r)
         PROVE  TypeOK'
    BY <2>2, EngineConstants DEF TypeOK, StreamTypeOK, ChainTypeOK, Crash,
       CountFault, dbVars, streamVars, chainVars, historyVars, Labels,
       InSession, BeforeCount, AfterCount, Over, RowStates
  <2>3. ASSUME NEW s \in Sessions, NEW target \in {"active", "paused",
     "cancelled"}, UpdateSessionStatus(s, target)
         PROVE  TypeOK'
    BY <2>3, EngineConstants DEF TypeOK, StreamTypeOK, ChainTypeOK,
       UpdateSessionStatus, CountFault, streamVars, chainVars, taskVars,
       historyVars, SessionStates
  <2>4. QED
    BY <1>6, <2>1, <2>2, <2>3 DEF Intervention
<1>7. CASE UNCHANGED vars
  BY <1>7 DEF TypeOK, StreamTypeOK, ChainTypeOK, vars, dbVars, streamVars,
     chainVars, taskVars, historyVars, bookVars
<1>8. QED
  BY <1>1, <1>2, <1>3, <1>4, <1>5, <1>6, <1>7 DEF Next

\* Every step keeps the tasks in one of their control states.
LEMMA ControlStep ==
  TypeOK /\ Control /\ [Next]_vars => Control'
<1> SUFFICES ASSUME TypeOK, Control, [Next]_vars
             PROVE  Control'
  OBVIOUS
<1>1. ASSUME NEW t \in Tasks, TaskStep(t)
      PROVE  Control'
  <2>1. ASSUME NEW s \in Sessions, SkipSession(t, s)
         PROVE  Control'
    BY <2>1, EngineConstants DEF TypeOK, Control, InSession, BeforeCount,
       AfterCount, Over, SkipSession
  <2>2. ASSUME NEW s \in Sessions, EnterSession(t, s)
         PROVE  Control'
    BY <2>2, EngineConstants DEF TypeOK, Control, InSession, BeforeCount,
       AfterCount, Over, EnterSession
  <2>3. CASE EnsureTokenApproval(t)
    BY <2>3, EngineConstants DEF TypeOK, Control, InSession, BeforeCount,
       AfterCount, Over, EnsureTokenApproval, Continue, taskVars
  <2>4. CASE FetchNonce(t)
    BY <2>4, EngineConstants DEF TypeOK, Control, InSession, BeforeCount,
       AfterCount, Over, FetchNonce, Goto
  <2>5. CASE SendAccepted(t)
    BY <2>5, EngineConstants DEF TypeOK, Control, InSession, BeforeCount,
       AfterCount, Over, SendAccepted, Goto
  <2>6. CASE SendRejected(t)
    BY <2>6, EngineConstants DEF TypeOK, Control, InSession, BeforeCount,
       AfterCount, Over, SendRejected, Continue
  <2>7. CASE InsertTrade(t)
    BY <2>7, EngineConstants DEF TypeOK, Control, InSession, BeforeCount,
       AfterCount, Over, InsertTrade, Goto
  <2>8. CASE DuplicateTrigger(t)
    BY <2>8, EngineConstants DEF TypeOK, Control, InSession, BeforeCount,
       AfterCount, Over, DuplicateTrigger, Continue
  <2>9. CASE CountSale(t)
    BY <2>9, EngineConstants DEF TypeOK, Control, InSession, BeforeCount,
       AfterCount, Over, CountSale, Goto
  <2>10. CASE FinalizeConfirmed(t)
    BY <2>10, EngineConstants DEF TypeOK, Control, InSession, BeforeCount,
       AfterCount, Over, FinalizeConfirmed, Conclude
  <2>11. CASE FinalizeReverted(t)
    BY <2>11, EngineConstants DEF TypeOK, Control, InSession, BeforeCount,
       AfterCount, Over, FinalizeReverted, Conclude
  <2>12. CASE FinalizeTimeout(t)
    BY <2>12, EngineConstants DEF TypeOK, Control, InSession, BeforeCount,
       AfterCount, Over, FinalizeTimeout, Conclude
  <2>13. CASE PublishTrade(t)
    BY <2>13, EngineConstants DEF TypeOK, Control, InSession, BeforeCount,
       AfterCount, Over, PublishTrade, Goto, Continue
  <2>14. CASE CompleteSession(t)
    BY <2>14, EngineConstants DEF TypeOK, Control, InSession, BeforeCount,
       AfterCount, Over, CompleteSession, Goto
  <2>15. CASE SweepToInvestor(t)
    BY <2>15, EngineConstants DEF TypeOK, Control, InSession, BeforeCount,
       AfterCount, Over, SweepToInvestor, Continue
  <2>16. CASE Ack(t)
    BY <2>16, EngineConstants DEF TypeOK, Control, InSession, BeforeCount,
       AfterCount, Over, Ack, Finish
  <2>17. QED
    BY <1>1, <2>1, <2>2, <2>3, <2>4, <2>5, <2>6, <2>7, <2>8, <2>9, <2>10,
       <2>11, <2>12, <2>13, <2>14, <2>15, <2>16 DEF TaskStep
<1>2. ASSUME NEW t \in Tasks, TaskFault(t)
      PROVE  Control'
  <2>1. ASSUME NEW e \in Events, QueryFails(t, e)
         PROVE  Control'
    BY <2>1, EngineConstants DEF TypeOK, Control, InSession, BeforeCount,
       AfterCount, Over, QueryFails
  <2>2. CASE SendReplyLost(t)
    BY <2>2, EngineConstants DEF TypeOK, Control, InSession, BeforeCount,
       AfterCount, Over, SendReplyLost, Continue
  <2>3. CASE RecordFails(t)
    BY <2>3, EngineConstants DEF TypeOK, Control, InSession, BeforeCount,
       AfterCount, Over, RecordFails, Finish
  <2>4. CASE FinalizeAmountFails(t)
    BY <2>4, EngineConstants DEF TypeOK, Control, InSession, BeforeCount,
       AfterCount, Over, FinalizeAmountFails, Conclude
  <2>5. CASE FinalizeError(t)
    BY <2>5, EngineConstants DEF TypeOK, Control, InSession, BeforeCount,
       AfterCount, Over, FinalizeError, Conclude
  <2>6. CASE FinalizeFails(t)
    BY <2>6, EngineConstants DEF TypeOK, Control, InSession, BeforeCount,
       AfterCount, Over, FinalizeFails, Finish
  <2>7. CASE CompleteFails(t)
    BY <2>7, EngineConstants DEF TypeOK, Control, InSession, BeforeCount,
       AfterCount, Over, CompleteFails, Goto
  <2>8. CASE AckFails(t)
    BY <2>8, EngineConstants DEF TypeOK, Control, InSession, BeforeCount,
       AfterCount, Over, AckFails, Finish
  <2>9. QED
    BY <1>2, <2>1, <2>2, <2>3, <2>4, <2>5, <2>6, <2>7, <2>8 DEF TaskFault
<1>3. ASSUME NEW r \in Replicas, ReconcilerStep(r)
      PROVE  Control'
  <2>1. CASE StartPass(r)
    BY <2>1, EngineConstants DEF TypeOK, Control, InSession, BeforeCount,
       AfterCount, Over, StartPass, taskVars
  <2>2. ASSUME NEW id \in Ids, ReconcileConfirmed(r, id)
         PROVE  Control'
    BY <2>2, EngineConstants DEF TypeOK, Control, InSession, BeforeCount,
       AfterCount, Over, ReconcileConfirmed, taskVars
  <2>3. ASSUME NEW id \in Ids, ReconcileReverted(r, id)
         PROVE  Control'
    BY <2>3, EngineConstants DEF TypeOK, Control, InSession, BeforeCount,
       AfterCount, Over, ReconcileReverted, taskVars
  <2>4. ASSUME NEW id \in Ids, ReconcileSkips(r, id)
         PROVE  Control'
    BY <2>4, EngineConstants DEF TypeOK, Control, InSession, BeforeCount,
       AfterCount, Over, ReconcileSkips, taskVars
  <2>5. QED
    BY <1>3, <2>1, <2>2, <2>3, <2>4 DEF ReconcilerStep
<1>4. ASSUME NEW r \in Replicas, ReconcilerFault(r)
      PROVE  Control'
  <2>1. ASSUME NEW id \in Ids, ReconcileFails(r, id)
         PROVE  Control'
    BY <2>1, EngineConstants DEF TypeOK, Control, InSession, BeforeCount,
       AfterCount, Over, ReconcileFails, taskVars
  <2>2. QED
    BY <1>4, <2>1 DEF ReconcilerFault
<1>5. CASE Environment
  <2>1. ASSUME NEW t \in Tasks, NEW e \in Events, Deliver(t, e)
         PROVE  Control'
    BY <2>1, EngineConstants DEF TypeOK, Control, InSession, BeforeCount,
       AfterCount, Over, Deliver, Response, ActiveSessions
  <2>2. ASSUME NEW e \in Events, Redeliver(e)
         PROVE  Control'
    BY <2>2, EngineConstants DEF TypeOK, Control, InSession, BeforeCount,
       AfterCount, Over, Redeliver, taskVars
  <2>3. ASSUME NEW id \in Ids, Mine(id)
         PROVE  Control'
    BY <2>3, EngineConstants DEF TypeOK, Control, InSession, BeforeCount,
       AfterCount, Over, Mine, taskVars
  <2>4. QED
    BY <1>5, <2>1, <2>2, <2>3 DEF Environment
<1>6. CASE Intervention
  <2>1. ASSUME NEW e \in Events, Expire(e)
         PROVE  Control'
    BY <2>1, EngineConstants DEF TypeOK, Control, InSession, BeforeCount,
       AfterCount, Over, Expire, taskVars
  <2>2. ASSUME NEW r \in Replicas, Crash(r)
         PROVE  Control'
    BY <2>2, EngineConstants DEF TypeOK, Control, InSession, BeforeCount,
       AfterCount, Over, Crash
  <2>3. ASSUME NEW s \in Sessions, NEW target \in {"active", "paused",
     "cancelled"}, UpdateSessionStatus(s, target)
         PROVE  Control'
    BY <2>3, EngineConstants DEF TypeOK, Control, InSession, BeforeCount,
       AfterCount, Over, UpdateSessionStatus, taskVars
  <2>4. QED
    BY <1>6, <2>1, <2>2, <2>3 DEF Intervention
<1>7. CASE UNCHANGED vars
  BY <1>7 DEF Control, vars, taskVars
<1>8. QED
  BY <1>1, <1>2, <1>3, <1>4, <1>5, <1>6, <1>7 DEF Next

\* Every step keeps the order transaction, row, count: from what a step does
\* to one transaction, one row and one task.
LEMMA OrderStep == Base /\ [Next]_vars => Order'
<1> SUFFICES ASSUME Base, [Next]_vars, NEW t \in Tasks, NEW s \in Sessions
             PROVE  /\ Unsent(t, s)' => tx'[<<t, s>>] = "none"
                    /\ Unsent(t, s)' \/ (cur'[t] = s /\ pc'[t] = "insert")
                         => row'[<<t, s>>] = "none"
                    /\ row'[<<t, s>>] = "none" => reason'[<<t, s>>] = "none"
                    /\ cur'[t] = s /\ pc'[t] \in {"count"} \cup AfterCount
                         => row'[<<t, s>>] # "none"
  BY DEF Order
<1> DEFINE id == <<t, s>>
<1>1. id \in Ids /\ id[1] = t /\ id[2] = s
  BY DEF Ids
<1>2. Unsent(t, s)' => tx'[id] = "none"
  <2> SUFFICES ASSUME Unsent(t, s)', tx'[id] # "none" PROVE FALSE
    OBVIOUS
  <2>1. Unsent(t, s) /\ tx[id] = "none"
    BY TaskMoves DEF Base, Order
  <2>2. PICK u \in Tasks :
          id = CurId(u) /\ (SendAccepted(u) \/ SendReplyLost(u))
    BY <1>1, <2>1, TxStep
  <2>3. u = t /\ cur[t] = s
    BY <2>2 DEF CurId
  <2>4. pc'[t] \in {"insert", "loop"} /\ s \notin todo'[t]
    BY <2>2, <2>3
    DEF SendAccepted, SendReplyLost, Goto, Continue, Base, TypeOK, Control
  <2>5. cur'[t] = s => pc'[t] = "insert"
    BY <2>2, <2>3, EngineConstants
    DEF SendAccepted, SendReplyLost, Goto, Continue, Base, TypeOK
  <2>6. QED
    BY <2>4, <2>5 DEF Unsent
<1>3. Unsent(t, s)' \/ (cur'[t] = s /\ pc'[t] = "insert") => row'[id] = "none"
  <2> SUFFICES ASSUME Unsent(t, s)' \/ (cur'[t] = s /\ pc'[t] = "insert"),
                      row'[id] # "none"
               PROVE  FALSE
    OBVIOUS
  <2>1. row[id] = "none"
    BY TaskMoves DEF Base, Order, Unsent
  <2>2. PICK u \in Tasks : id = CurId(u) /\ InsertTrade(u)
    BY <1>1, <2>1, RowStep
  <2>3. u = t /\ cur[t] = s
    BY <2>2 DEF CurId
  <2>4. pc'[t] = "count" /\ s \notin todo'[t]
    BY <2>2, <2>3 DEF InsertTrade, Goto, Base, TypeOK, Control
  <2>5. QED
    BY <2>4 DEF Unsent
<1>4. row'[id] = "none" => reason'[id] = "none"
  BY <1>1, RowStep DEF Base, Order
<1>5. cur'[t] = s /\ pc'[t] \in {"count"} \cup AfterCount => row'[id] # "none"
  <2> SUFFICES ASSUME cur'[t] = s, pc'[t] \in {"count"} \cup AfterCount
               PROVE  row'[id] # "none"
    OBVIOUS
  <2>1. cur[t] = s /\ (pc[t] \in {"count"} \cup AfterCount \/ InsertTrade(t))
    BY TaskMoves
  <2>2. CASE pc[t] \in {"count"} \cup AfterCount
    BY <1>1, <2>1, <2>2, RowStep DEF Base, Order
  <2>3. CASE InsertTrade(t)
    BY <1>1, <2>1, <2>3 DEF InsertTrade, CurId, Base, TypeOK
  <2>4. QED
    BY <2>1, <2>2, <2>3
<1>6. QED
  BY <1>2, <1>3, <1>4, <1>5

\* A pass takes rows that exist, and rows do not disappear.
LEMMA BatchStep == Base /\ [Next]_vars => BatchRecorded'
<1> SUFFICES ASSUME Base, [Next]_vars, NEW q \in Replicas, NEW id \in batch'[q]
             PROVE  row'[id] # "none"
  BY DEF BatchRecorded
<1>1. id \in batch[q] \/ (id \in Ids /\ row[id] # "none")
  <2>1. CASE UNCHANGED batch
    BY <2>1
  <2>2. CASE \E r \in Replicas : StartPass(r)
    BY <2>2 DEF StartPass, SubmittedRows, Base, TypeOK
  <2>3. CASE \E r \in Replicas : Crash(r)
    BY <2>3 DEF Crash, Base, TypeOK
  <2>4. CASE \E r \in Replicas, x \in Ids :
               \/ ReconcileConfirmed(r, x) \/ ReconcileReverted(r, x)
               \/ ReconcileSkips(r, x) \/ ReconcileFails(r, x)
    BY <2>4
    DEF ReconcileConfirmed, ReconcileReverted, ReconcileSkips,
        ReconcileFails, Base, TypeOK
  <2>5. QED
    BY <2>1, <2>2, <2>3, <2>4, BatchWriters
<1>2. id \in Ids /\ row[id] # "none"
  BY <1>1 DEF Base, TypeOK, BatchRecorded
<1>3. QED
  BY <1>2, RowStep

\* Base is inductive.
LEMMA BaseStep == Base /\ [Next]_vars => Base'
<1> SUFFICES ASSUME Base, [Next]_vars PROVE Base'
  OBVIOUS
<1>1. TypeOK /\ Control /\ Order
  BY DEF Base
<1>2. TypeOK' /\ Control'
  BY <1>1, TypeStep, ControlStep
<1>3. Order' /\ BatchRecorded'
  BY OrderStep, BatchStep
<1>4. QED
  BY <1>2, <1>3 DEF Base

\* Base holds in every reachable state.
THEOREM BaseHolds == Spec => []Base
  BY BaseInit, BaseStep, PTL DEF Spec

\* Type correctness: tables, stream, chain and tasks only ever hold values of
\* their types; in particular no trade or session gets a status outside the
\* SQL enumerations and no wallet balance becomes negative.
THEOREM TypeCorrect == Spec => []TypeOK
<1>1. Base => TypeOK
  BY DEF Base
<1>2. QED
  BY <1>1, BaseHolds, PTL

\* A confirmed trade stays confirmed, however the finalizing task and the
\* reconcilers of the replicas interleave: mark_trade_failed does not touch
\* it and nothing else takes the status back.
THEOREM ConfirmedFinal == Spec => ConfirmedIsFinal
<1> DEFINE Keeps ==
     \A id \in Ids : row[id] = "confirmed" => row'[id] = "confirmed"
<1>1. Base /\ [Next]_vars => [Keeps]_row
  <2> SUFFICES ASSUME Base, [Next]_vars PROVE Keeps
    OBVIOUS
  <2>1. QED
    BY RowStep
<1>2. Spec => [][Keeps]_row
  BY <1>1, BaseHolds, PTL DEF Spec
<1>3. QED
  BY <1>2 DEF ConfirmedIsFinal
=============================================================================
