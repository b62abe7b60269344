----------------------- MODULE ExecutionEngineSafety -----------------------
(***************************************************************************)
(* The safety properties of ExecutionEngine as theorems, from Base and the *)
(* step lemmas.                                                            *)
(***************************************************************************)
EXTENDS ExecutionEngineProofs

-----------------------------------------------------------------------------
\* The trades table.

\* One trade per trigger holds initially and is kept by every step: a row
\* appears only through an INSERT that found no row for its session and
\* trigger, and a task with a row does not change its event.
LEMMA OneTradeStep ==
  Base /\ OneTradePerTrigger /\ [Next]_vars => OneTradePerTrigger'
<1> SUFFICES ASSUME Base, OneTradePerTrigger, [Next]_vars,
                    NEW s \in Sessions, NEW t \in Tasks, NEW u \in Tasks
             PROVE  /\ /\ row'[<<t, s>>] # "none" /\ row'[<<u, s>>] # "none"
                       /\ ev'[t] = ev'[u]
                       => t = u
                    /\ <<t, s>> \in counted' => row'[<<t, s>>] # "none"
  BY DEF OneTradePerTrigger
<1>1. <<t, s>> \in Ids /\ <<u, s>> \in Ids
  BY DEF Ids
<1>2. ASSUME NEW v \in Tasks, row'[<<v, s>>] # "none"
      PROVE  /\ ev'[v] = ev[v]
             /\ row[<<v, s>>] # "none" \/ (InsertTrade(v) /\ cur[v] = s)
  <2>1. row[<<v, s>>] # "none" \/ (InsertTrade(v) /\ cur[v] = s)
    BY <1>2, RowStep DEF Ids, CurId
  <2>2. pc[v] # "idle"
    BY <2>1 DEF Base, Order, Unsent, InsertTrade
  <2>3. QED
    BY <2>1, <2>2, EventStep
<1>3. ASSUME NEW v \in Tasks, NEW w \in Tasks, InsertTrade(v), cur[v] = s,
             row[<<w, s>>] # "none"
      PROVE  ev[v] # ev[w]
  BY <1>3 DEF InsertTrade, TriggerConflict
<1>4. ASSUME NEW v \in Tasks, NEW w \in Tasks, InsertTrade(v), cur[v] = s,
             InsertTrade(w), cur[w] = s
      PROVE  v = w
  <2>1. /\ pc'[v] = "count" /\ pc'[w] = "count"
        /\ pc[v] = "insert" /\ pc[w] = "insert"
    BY <1>4 DEF InsertTrade, Goto, Base, TypeOK
  <2>2. pc' = [pc EXCEPT ![v] = "count"]
    BY <1>4 DEF InsertTrade, Goto
  <2>3. QED
    BY <2>1, <2>2 DEF Base, TypeOK
<1>5. /\ row'[<<t, s>>] # "none" /\ row'[<<u, s>>] # "none" /\ ev'[t] = ev'[u]
      => t = u
  BY <1>2, <1>3, <1>4 DEF OneTradePerTrigger
<1>6. <<t, s>> \in counted' => row'[<<t, s>>] # "none"
  <2>1. CASE UNCHANGED <<amountSold, counted>>
    BY <1>1, <2>1, RowStep DEF OneTradePerTrigger
  <2>2. CASE \E v \in Tasks : CountSale(v)
    <3>1. PICK v \in Tasks : CountSale(v)
      BY <2>2
    <3>2. CurId(v) \in Ids /\ row[CurId(v)] # "none"
      BY <3>1, InSessionFacts
      DEF CountSale, CurId, Base, Order, InSession, BeforeCount
    <3>3. <<t, s>> \in counted' => row[<<t, s>>] # "none"
      BY <3>1, <3>2 DEF CountSale, OneTradePerTrigger
    <3>4. QED
      BY <1>1, <3>3, RowStep
  <2>3. QED
    BY <2>1, <2>2, LedgerWriters
<1>7. QED
  BY <1>5, <1>6

\* record_trade is idempotent for every number of deliveries, sessions,
\* replicas and faults: a session has at most one row per trigger, and only
\* recorded sales are counted in amount_sold.
THEOREM OneTrade == Spec => []OneTradePerTrigger
<1>1. Init => OneTradePerTrigger
  BY DEF Init, OneTradePerTrigger, Ids
<1>2. QED
  BY <1>1, OneTradeStep, BaseHolds, PTL DEF Spec

\* A task reaches the label count only through its own INSERT.
LEMMA CountEntered ==
  ASSUME Base, [Next]_vars, NEW u \in Tasks, pc'[u] = "count"
  PROVE  cur'[u] = cur[u] /\ (pc[u] = "count" \/ InsertTrade(u))
<1>1. CASE UNCHANGED <<pc, cur, todo>>
  BY <1>1 DEF Base, TypeOK
<1>2. CASE \E t \in Tasks : InsertTrade(t)
  BY <1>2 DEF InsertTrade, Goto, Base, TypeOK, taskVars
<1>3. CASE \E t \in Tasks :
            \/ FetchNonce(t) \/ SendAccepted(t) \/ CountSale(t)
            \/ CompleteSession(t) \/ CompleteFails(t)
  BY <1>3 DEF FetchNonce, SendAccepted, CountSale, CompleteSession,
     CompleteFails, Goto, Base, TypeOK, taskVars
<1>4. CASE \E t \in Tasks :
            \/ EnsureTokenApproval(t) \/ SendRejected(t)
            \/ DuplicateTrigger(t) \/ PublishTrade(t)
            \/ SweepToInvestor(t) \/ SendReplyLost(t)
  BY <1>4 DEF EnsureTokenApproval, SendRejected, DuplicateTrigger,
     PublishTrade, SweepToInvestor, SendReplyLost, Goto, Continue, Base,
     TypeOK, taskVars
<1>5. CASE \E t \in Tasks :
            \/ Ack(t) \/ RecordFails(t) \/ FinalizeFails(t)
            \/ AckFails(t)
  BY <1>5 DEF Ack, RecordFails, FinalizeFails, AckFails, Finish, Base,
     TypeOK, taskVars
<1>6. CASE \E t \in Tasks :
            \/ FinalizeConfirmed(t) \/ FinalizeReverted(t)
            \/ FinalizeTimeout(t) \/ FinalizeAmountFails(t)
            \/ FinalizeError(t)
  BY <1>6 DEF FinalizeConfirmed, FinalizeReverted, FinalizeTimeout,
     FinalizeAmountFails, FinalizeError, Conclude, Base, TypeOK, taskVars
<1>7. CASE \E t \in Tasks, x \in Sessions :
            \/ SkipSession(t, x) \/ EnterSession(t, x)
  BY <1>7 DEF SkipSession, EnterSession, Base, TypeOK, taskVars
<1>8. CASE \E t \in Tasks, e \in Events : QueryFails(t, e)
  BY <1>8 DEF QueryFails, Base, TypeOK, taskVars
<1>9. CASE \E t \in Tasks, e \in Events : Deliver(t, e)
  BY <1>9 DEF Deliver, Base, TypeOK, taskVars
<1>10. CASE \E r \in Replicas : Crash(r)
  BY <1>10 DEF Crash, Base, TypeOK, taskVars
<1>11. QED
  BY <1>1, <1>2, <1>3, <1>4, <1>5, <1>6, <1>7, <1>8, <1>9, <1>10, TaskWriters

\* A sale is counted by its own task only, and the task moves on with it.
LEMMA CountedOnceStep ==
  Base /\ OneTradePerTrigger /\ CountedOnce /\ [Next]_vars => CountedOnce'
<1> SUFFICES ASSUME Base, OneTradePerTrigger, CountedOnce, [Next]_vars,
                    NEW u \in Tasks, pc'[u] = "count"
             PROVE  CurId(u)' \notin counted'
  BY DEF CountedOnce
<1>1. cur'[u] = cur[u] /\ (pc[u] = "count" \/ InsertTrade(u))
  BY CountEntered
<1>2. CurId(u)' = CurId(u) /\ cur[u] \in Sessions
  BY <1>1, InSessionFacts DEF CurId, InsertTrade, Base, InSession, BeforeCount
<1>3. CurId(u) \notin counted
  <2>1. CASE pc[u] = "count"
    BY <2>1 DEF CountedOnce
  <2>2. CASE InsertTrade(u)
    BY <1>2, <2>2
    DEF InsertTrade, CurId, TriggerConflict, OneTradePerTrigger
  <2>3. QED
    BY <1>1, <2>1, <2>2
<1>4. CASE UNCHANGED <<amountSold, counted>>
  BY <1>2, <1>3, <1>4
<1>5. CASE \E t \in Tasks : CountSale(t)
  <2>1. PICK t \in Tasks : CountSale(t)
    BY <1>5
  <2>2. pc'[t] = "finalize" /\ counted' = counted \cup {CurId(t)}
    BY <2>1 DEF CountSale, Goto, Base, TypeOK
  <2>3. CurId(t) # CurId(u)
    BY <2>2 DEF CurId
  <2>4. QED
    BY <1>2, <1>3, <2>2, <2>3
<1>6. QED
  BY <1>4, <1>5, LedgerWriters

\* No sale is about to be counted a second time.
LEMMA CountedOnceHolds == Spec => []CountedOnce
<1>1. Init => CountedOnce
  BY DEF Init, CountedOnce
<1>2. QED
  BY <1>1, CountedOnceStep, OneTrade, BaseHolds, PTL DEF Spec

\* A task leaves the label count by its UPDATE, or because it failed or died.
LEMMA CountLeft ==
  ASSUME Base, [Next]_vars, NEW u \in Tasks, pc[u] = "count"
  PROVE  \/ pc'[u] = "count" /\ cur'[u] = cur[u]
         \/ pc'[u] \in {"unacked", "dead"}
         \/ CountSale(u)
<1>1. CASE UNCHANGED <<pc, cur, todo>>
  BY <1>1
<1>2. CASE \E t \in Tasks : CountSale(t)
  <2>1. PICK t \in Tasks : CountSale(t)
    BY <1>2
  <2>2. CASE t # u
    BY <2>1, <2>2 DEF CountSale, Goto, Base, TypeOK
  <2>3. QED
    BY <2>1, <2>2
<1>3. CASE \E t \in Tasks :
            \/ FetchNonce(t) \/ SendAccepted(t) \/ InsertTrade(t)
            \/ CompleteSession(t) \/ CompleteFails(t)
  BY <1>3 DEF FetchNonce, SendAccepted, InsertTrade, CompleteSession,
     CompleteFails, Goto, Base, TypeOK, taskVars
<1>4. CASE \E t \in Tasks :
            \/ EnsureTokenApproval(t) \/ SendRejected(t)
            \/ DuplicateTrigger(t) \/ PublishTrade(t)
            \/ SweepToInvestor(t) \/ SendReplyLost(t)
  BY <1>4 DEF EnsureTokenApproval, SendRejected, DuplicateTrigger,
     PublishTrade, SweepToInvestor, SendReplyLost, Goto, Continue, Base,
     TypeOK, taskVars
<1>5. CASE \E t \in Tasks :
            \/ Ack(t) \/ RecordFails(t) \/ FinalizeFails(t)
            \/ AckFails(t)
  BY <1>5 DEF Ack, RecordFails, FinalizeFails, AckFails, Finish, Base,
     TypeOK, taskVars
<1>6. CASE \E t \in Tasks :
            \/ FinalizeConfirmed(t) \/ FinalizeReverted(t)
            \/ FinalizeTimeout(t) \/ FinalizeAmountFails(t)
            \/ FinalizeError(t)
  BY <1>6 DEF FinalizeConfirmed, FinalizeReverted, FinalizeTimeout,
     FinalizeAmountFails, FinalizeError, Conclude, Base, TypeOK, taskVars
<1>7. CASE \E t \in Tasks, x \in Sessions :
            \/ SkipSession(t, x) \/ EnterSession(t, x)
  BY <1>7 DEF SkipSession, EnterSession, Base, TypeOK, taskVars
<1>8. CASE \E t \in Tasks, e \in Events : QueryFails(t, e)
  BY <1>8 DEF QueryFails, Base, TypeOK, taskVars
<1>9. CASE \E t \in Tasks, e \in Events : Deliver(t, e)
  BY <1>9 DEF Deliver, Base, TypeOK, taskVars
<1>10. CASE \E r \in Replicas : Crash(r)
  BY <1>10 DEF Crash, Base, TypeOK, taskVars
<1>11. QED
  BY <1>1, <1>2, <1>3, <1>4, <1>5, <1>6, <1>7, <1>8, <1>9, <1>10, TaskWriters

\* A row appears with its task about to count it, and stays uncounted only where
\* that task ended at this point.
LEMMA UncountedStep ==
  Base /\ UncountedOnlyIfFailed /\ [Next]_vars => UncountedOnlyIfFailed'
<1> SUFFICES ASSUME Base, UncountedOnlyIfFailed, [Next]_vars,
                    NEW t \in Tasks, NEW s \in Sessions,
                    row'[<<t, s>>] # "none", <<t, s>> \notin counted'
             PROVE  \/ pc'[t] = "count" /\ cur'[t] = s
                    \/ pc'[t] \in {"unacked", "dead"}
  BY DEF UncountedOnlyIfFailed
<1>1. <<t, s>> \in Ids
  BY DEF Ids
<1>2. CASE row[<<t, s>>] = "none"
  <2>1. PICK u \in Tasks : InsertTrade(u) /\ <<t, s>> = CurId(u)
    BY <1>1, <1>2, RowStep
  <2>2. u = t /\ cur[t] = s
    BY <2>1 DEF CurId
  <2>3. QED
    BY <2>1, <2>2 DEF InsertTrade, Goto, Base, TypeOK
<1>3. CASE row[<<t, s>>] # "none"
  <2>1. <<t, s>> \notin counted
    BY LedgerWriters DEF CountSale
  <2>2. CASE pc[t] = "count" /\ cur[t] = s
    <3>1. ~CountSale(t)
      BY <2>2 DEF CountSale, CurId
    <3>2. QED
      BY <2>2, <3>1, CountLeft
  <2>3. CASE pc[t] \in {"unacked", "dead"}
    BY <2>3, OverStep DEF Over
  <2>4. QED
    BY <1>3, <2>1, <2>2, <2>3 DEF UncountedOnlyIfFailed
<1>4. QED
  BY <1>2, <1>3

\* A recorded sale is missing from amount_sold only while its task has the UPDATE
\* before it, or because that task failed or died between the two statements:
\* for every number of redeliveries, replicas and faults.
THEOREM UncountedFailed == Spec => []UncountedOnlyIfFailed
<1>1. Init => UncountedOnlyIfFailed
  BY DEF Init, UncountedOnlyIfFailed, Ids
<1>2. QED
  BY <1>1, UncountedStep, BaseHolds, PTL DEF Spec

\* The outcome a task is about to publish as "confirmed" comes from a
\* successful receipt, after mark_trade_confirmed.
LEMMA VerdictStep ==
  ASSUME Base, [Next]_vars, NEW u \in Tasks, verdict'[u] = "confirmed"
  PROVE  \/ /\ verdict[u] = "confirmed"
            /\ cur'[u] = cur[u]
            /\ cur[u] \in Sessions
         \/ FinalizeConfirmed(u)
<1>1. CASE verdict'[u] = verdict[u] /\ cur'[u] = cur[u]
  <2>1. pc[u] \in InSession
    BY <1>1 DEF Base, Control, InSession, AfterCount
  <2>2. QED
    BY <1>1, <2>1, InSessionFacts DEF Base
<1>2. CASE \E t \in Tasks : FinalizeConfirmed(t)
  <2>1. PICK t \in Tasks : FinalizeConfirmed(t)
    BY <1>2
  <2>2. CASE t = u
    BY <2>1, <2>2
  <2>3. CASE t # u
    <3>1. verdict'[u] = verdict[u] /\ cur'[u] = cur[u]
      BY <2>1, <2>3 DEF FinalizeConfirmed, Conclude, Base, TypeOK
    <3>2. QED
      BY <1>1, <3>1
  <2>4. QED
    BY <2>2, <2>3
<1>3. CASE UNCHANGED <<pc, cur, verdict>>
  BY <1>1, <1>3
<1>4. CASE \E t \in Tasks :
            \/ FetchNonce(t) \/ SendAccepted(t) \/ InsertTrade(t)
            \/ CountSale(t) \/ CompleteSession(t) \/ CompleteFails(t)
  BY <1>1, <1>4 DEF FetchNonce, SendAccepted, InsertTrade, CountSale,
     CompleteSession, CompleteFails, Goto, Base, TypeOK, Control, taskVars
<1>5. CASE \E t \in Tasks :
            \/ EnsureTokenApproval(t) \/ SendRejected(t)
            \/ DuplicateTrigger(t) \/ PublishTrade(t)
            \/ SweepToInvestor(t) \/ SendReplyLost(t)
  BY <1>1, <1>5 DEF EnsureTokenApproval, SendRejected, DuplicateTrigger,
     PublishTrade, SweepToInvestor, SendReplyLost, Goto, Continue, Base,
     TypeOK, Control, taskVars
<1>6. CASE \E t \in Tasks :
            \/ Ack(t) \/ RecordFails(t) \/ FinalizeFails(t)
            \/ AckFails(t)
  BY <1>1, <1>6 DEF Ack, RecordFails, FinalizeFails, AckFails, Finish, Base,
     TypeOK, Control, taskVars
<1>7. CASE \E t \in Tasks :
            \/ FinalizeReverted(t) \/ FinalizeTimeout(t)
            \/ FinalizeAmountFails(t) \/ FinalizeError(t)
  BY <1>1, <1>7 DEF FinalizeReverted, FinalizeTimeout, FinalizeAmountFails,
     FinalizeError, Conclude, Base, TypeOK, Control, taskVars
<1>8. CASE \E t \in Tasks, s \in Sessions : EnterSession(t, s)
  BY <1>1, <1>8 DEF EnterSession, Base, TypeOK, Control, taskVars
<1>9. CASE \E t \in Tasks, e \in Events : QueryFails(t, e)
  BY <1>1, <1>9 DEF QueryFails, Base, TypeOK, Control, taskVars
<1>10. CASE \E t \in Tasks, e \in Events : Deliver(t, e)
  BY <1>1, <1>10 DEF Deliver, Base, TypeOK, Control, taskVars
<1>11. CASE \E r \in Replicas : Crash(r)
  BY <1>1, <1>11 DEF Crash, Base, TypeOK, Control, taskVars
<1>12. QED
  BY <1>2, <1>3, <1>4, <1>5, <1>6, <1>7, <1>8, <1>9, <1>10, <1>11,
     VerdictWriters

\* What the rows and the published outcomes say stays true: it is written on a
\* receipt, and receipts do not change.
LEMMA TruthStep ==
  Base /\ RowsTellTheTruth /\ [Next]_vars => RowsTellTheTruth'
<1> SUFFICES ASSUME Base, RowsTellTheTruth, [Next]_vars PROVE RowsTellTheTruth'
  OBVIOUS
<1>1. ASSUME NEW id \in Ids, row'[id] = "confirmed" PROVE tx'[id] = "success"
  <2>1. tx[id] = "success"
    BY <1>1, RowStep DEF RowsTellTheTruth
  <2>2. QED
    BY <2>1, TxStep DEF Mined
<1>2. ASSUME NEW id \in Ids, reason'[id] = "transaction_reverted"
      PROVE  tx'[id] = "reverted"
  <2>1. tx[id] = "reverted"
    BY <1>2, RowStep DEF RowsTellTheTruth
  <2>2. QED
    BY <2>1, TxStep DEF Mined
<1>3. ASSUME NEW u \in Tasks, verdict'[u] = "confirmed"
      PROVE  row'[CurId(u)'] = "confirmed"
  <2>1. CASE verdict[u] = "confirmed" /\ cur'[u] = cur[u] /\ cur[u] \in Sessions
    <3>1. /\ CurId(u) \in Ids /\ CurId(u)' = CurId(u)
          /\ row[CurId(u)] = "confirmed"
      BY <2>1 DEF CurId, Ids, RowsTellTheTruth
    <3>2. QED
      BY <3>1, RowStep
  <2>2. CASE FinalizeConfirmed(u)
    <3>1. CurId(u) \in Ids /\ CurId(u)' = CurId(u)
      BY <2>2, InSessionFacts
      DEF FinalizeConfirmed, Conclude, CurId, Base, InSession, AfterCount
    <3>2. QED
      BY <2>2, <3>1 DEF FinalizeConfirmed, MarkTradeConfirmed, Base, TypeOK
  <2>3. QED
    BY <1>3, <2>1, <2>2, VerdictStep
<1>4. QED
  BY <1>1, <1>2, <1>3 DEF RowsTellTheTruth

\* Whichever of a task and the reconcilers wrote last, a confirmed trade's
\* transaction succeeded, one with the reason transaction_reverted reverted,
\* and a "confirmed" outcome about to be published is that of the row.
THEOREM RowsTruthful == Spec => []RowsTellTheTruth
<1>1. Init => RowsTellTheTruth
  BY DEF Init, RowsTellTheTruth
<1>2. QED
  BY <1>1, TruthStep, BaseHolds, PTL DEF Spec

-----------------------------------------------------------------------------
\* The amounts.

\* A task gets past the UPDATE of record_trade only by running it, and to the
\* completion only by finding the session sold out.
LEMMA CountMoves ==
  ASSUME Base, [Next]_vars, NEW u \in Tasks
  PROVE  /\ pc'[u] \in AfterCount =>
              cur'[u] = cur[u] /\ (pc[u] \in AfterCount \/ CountSale(u))
         /\ pc'[u] = "complete" => pc[u] = "complete" \/ SoldOut(u)
<1>1. CASE UNCHANGED <<pc, cur, todo>>
  BY <1>1 DEF AfterCount, Base, TypeOK
<1>2. CASE \E t \in Tasks : CountSale(t)
  BY <1>2 DEF CountSale, Goto, AfterCount, Base, TypeOK, taskVars
<1>3. CASE \E t \in Tasks : PublishTrade(t)
  BY <1>3 DEF PublishTrade, Goto, Continue, AfterCount, Base, TypeOK,
     taskVars
<1>4. CASE \E t \in Tasks :
            \/ FetchNonce(t) \/ SendAccepted(t) \/ InsertTrade(t)
            \/ CompleteSession(t) \/ CompleteFails(t)
  BY <1>4 DEF FetchNonce, SendAccepted, InsertTrade, CompleteSession,
     CompleteFails, Goto, AfterCount, Base, TypeOK, taskVars
<1>5. CASE \E t \in Tasks :
            \/ EnsureTokenApproval(t) \/ SendRejected(t)
            \/ DuplicateTrigger(t) \/ SweepToInvestor(t)
            \/ SendReplyLost(t)
  BY <1>5 DEF EnsureTokenApproval, SendRejected, DuplicateTrigger,
     SweepToInvestor, SendReplyLost, Continue, AfterCount, Base, TypeOK,
     taskVars
<1>6. CASE \E t \in Tasks :
            \/ Ack(t) \/ RecordFails(t) \/ FinalizeFails(t)
            \/ AckFails(t)
  BY <1>6 DEF Ack, RecordFails, FinalizeFails, AckFails, Finish, AfterCount,
     Base, TypeOK, taskVars
<1>7. CASE \E t \in Tasks :
            \/ FinalizeConfirmed(t) \/ FinalizeReverted(t)
            \/ FinalizeTimeout(t) \/ FinalizeAmountFails(t)
            \/ FinalizeError(t)
  BY <1>7 DEF FinalizeConfirmed, FinalizeReverted, FinalizeTimeout,
     FinalizeAmountFails, FinalizeError, Conclude, AfterCount, Base, TypeOK,
     taskVars
<1>8. CASE \E t \in Tasks, x \in Sessions :
            \/ SkipSession(t, x) \/ EnterSession(t, x)
  BY <1>8 DEF SkipSession, EnterSession, AfterCount, Base, TypeOK, taskVars
<1>9. CASE \E t \in Tasks, e \in Events : QueryFails(t, e)
  BY <1>9 DEF QueryFails, AfterCount, Base, TypeOK, taskVars
<1>10. CASE \E t \in Tasks, e \in Events : Deliver(t, e)
  BY <1>10 DEF Deliver, AfterCount, Base, TypeOK, taskVars
<1>11. CASE \E r \in Replicas : Crash(r)
  BY <1>11 DEF Crash, AfterCount, Base, TypeOK, taskVars
<1>12. QED
  BY <1>1, <1>2, <1>3, <1>4, <1>5, <1>6, <1>7, <1>8, <1>9, <1>10, <1>11,
     TaskWriters

\* amount_sold stays above every snapshot and includes every counted sale.
LEMMA CountedUpStep == Base /\ CountedUp /\ [Next]_vars => CountedUp'
<1> SUFFICES ASSUME Base, CountedUp, [Next]_vars, NEW u \in Tasks
             PROVE  /\ \A s \in Sessions : snap'[u][s] <= amountSold'[s]
                    /\ pc'[u] \in AfterCount
                         => snap'[u][cur'[u]] + Amount(u, cur[u])'
                              <= amountSold'[cur'[u]]
                    /\ pc'[u] = "complete" => SoldOut(u)'
  BY DEF CountedUp
<1>1. \A s \in Sessions : snap'[u][s] <= amountSold'[s]
  <2>1. CASE snap'[u] = snap[u]
    <3> SUFFICES ASSUME NEW s \in Sessions PROVE snap'[u][s] <= amountSold'[s]
      OBVIOUS
    <3>1. snap[u][s] <= amountSold[s]
      BY DEF CountedUp
    <3>2. amountSold'[s] >= amountSold[s]
      BY LedgerStep
    <3>3. QED
      BY <2>1, <3>1, <3>2, BaseStep DEF Base, TypeOK
  <2>2. CASE \E e \in Events : Deliver(u, e)
    BY <2>2 DEF Deliver, dbVars, Base, TypeOK
  <2>3. CASE \E t \in Tasks, e \in Events : Deliver(t, e) /\ t # u
    BY <2>1, <2>3 DEF Deliver, Base, TypeOK
  <2>4. CASE \E t \in Tasks, e \in Events : QueryFails(t, e)
    BY <2>1, <2>4 DEF QueryFails
  <2>5. QED
    BY <2>1, <2>2, <2>3, <2>4, EventWriters
<1>2. ASSUME pc'[u] \in AfterCount
      PROVE  /\ cur'[u] = cur[u] /\ cur[u] \in Sessions
             /\ snap'[u] = snap[u]
             /\ Amount(u, cur[u])' = Amount(u, cur[u])
             /\ Amount(u, cur[u]) \in Nat
             /\ snap[u][cur[u]] + Amount(u, cur[u]) <= amountSold'[cur[u]]
  <2>1. cur'[u] = cur[u] /\ (pc[u] \in AfterCount \/ CountSale(u))
    BY <1>2, CountMoves
  <2>2. pc[u] \in InSession /\ pc[u] # "idle"
    BY <2>1 DEF CountSale, InSession, BeforeCount, AfterCount
  <2>3. cur[u] \in Sessions /\ Amount(u, cur[u]) \in Nat
    BY <2>2, InSessionFacts DEF Base
  <2>4. snap'[u] = snap[u] /\ ev'[u] = ev[u]
    BY <2>2, EventStep
  <2>5. Amount(u, cur[u])' = Amount(u, cur[u])
    BY <2>1, <2>4 DEF Amount, SellAmount, PovAmount, Remaining
  <2>6. snap[u][cur[u]] + Amount(u, cur[u]) <= amountSold'[cur[u]]
    <3>1. CASE pc[u] \in AfterCount
      <4>1. snap[u][cur[u]] + Amount(u, cur[u]) <= amountSold[cur[u]]
        BY <3>1 DEF CountedUp
      <4>2. amountSold'[cur[u]] >= amountSold[cur[u]]
        BY <2>3, LedgerStep
      <4>3. QED
        BY <2>3, <4>1, <4>2, BaseStep DEF Base, TypeOK
    <3>2. CASE CountSale(u)
      <4>1. amountSold'[cur[u]] = amountSold[cur[u]] + Amount(u, cur[u])
        BY <2>3, <3>2 DEF CountSale, NewAmountSold, Base, TypeOK
      <4>2. snap[u][cur[u]] <= amountSold[cur[u]]
        BY <2>3 DEF CountedUp
      <4>3. QED
        BY <2>3, <4>1, <4>2 DEF Base, TypeOK
    <3>3. QED
      BY <2>1, <3>1, <3>2
  <2>7. QED
    BY <2>1, <2>3, <2>4, <2>5, <2>6
<1>3. pc'[u] \in AfterCount
        => snap'[u][cur'[u]] + Amount(u, cur[u])' <= amountSold'[cur'[u]]
  BY <1>2
<1>4. pc'[u] = "complete" => SoldOut(u)'
  <2> SUFFICES ASSUME pc'[u] = "complete" PROVE SoldOut(u)'
    OBVIOUS
  <2>1. SoldOut(u)
    BY CountMoves DEF CountedUp
  <2>2. QED
    BY <1>2, <2>1 DEF SoldOut, AfterCount
<1>5. QED
  BY <1>1, <1>3, <1>4

\* The engine writes 'completed' only for a session that is sold out, and
\* amount_sold does not fall.
LEMMA CompletedStep ==
  Base /\ CountedUp /\ CompletedOnlyIfSold /\ [Next]_vars
    => CompletedOnlyIfSold'
<1> SUFFICES ASSUME Base, CountedUp, CompletedOnlyIfSold, [Next]_vars,
                    NEW s \in Sessions, status'[s] = "completed"
             PROVE  amountSold'[s] >= Total[s]
  BY DEF CompletedOnlyIfSold
<1>1. amountSold[s] >= Total[s]
  <2>1. CASE status[s] = "completed"
    BY <2>1 DEF CompletedOnlyIfSold
  <2>2. CASE UNCHANGED status
    BY <2>1, <2>2
  <2>3. CASE \E t \in Tasks : CompleteSession(t) /\ cur[t] = s
    <3>1. PICK t \in Tasks : CompleteSession(t) /\ cur[t] = s
      BY <2>3
    <3>2. pc[t] = "complete" /\ Amount(t, s) \in Nat
      BY <3>1, InSessionFacts
      DEF CompleteSession, Base, InSession, AfterCount
    <3>3. /\ snap[t][s] + Amount(t, s) <= amountSold[s]
          /\ snap[t][s] + Amount(t, s) >= Total[s]
      BY <3>1, <3>2 DEF CountedUp, SoldOut, AfterCount
    <3>4. QED
      BY <3>2, <3>3, EngineConstants DEF Base, TypeOK
  <2>4. CASE \E t \in Tasks : CompleteSession(t) /\ cur[t] # s
    BY <2>1, <2>4 DEF CompleteSession, Base, TypeOK
  <2>5. CASE \E x \in Sessions, target \in {"active", "paused", "cancelled"} :
               UpdateSessionStatus(x, target)
    BY <2>1, <2>5 DEF UpdateSessionStatus, Base, TypeOK
  <2>6. QED
    BY <2>2, <2>3, <2>4, <2>5, StatusWriters
<1>2. amountSold'[s] >= amountSold[s]
  BY LedgerStep
<1>3. QED
  BY <1>1, <1>2, BaseStep, EngineConstants DEF Base, TypeOK

\* amount_sold covers the snapshots and the counted sales in every reachable
\* state.
LEMMA CountedUpHolds == Spec => []CountedUp
<1>1. Init => CountedUp
  BY DEF Init, CountedUp, AfterCount
<1>2. QED
  BY <1>1, CountedUpStep, BaseHolds, PTL DEF Spec

\* A session is completed only if amount_sold has reached total_amount,
\* although the test is made on the snapshot: for every number of overlapping
\* tasks, crashes and interventions.
THEOREM CompletedSold == Spec => []CompletedOnlyIfSold
<1>1. Init => CompletedOnlyIfSold
  BY DEF Init, CompletedOnlyIfSold
<1>2. QED
  BY <1>1, CompletedStep, CountedUpHolds, BaseHolds, PTL DEF Spec

\* A task gets engaged in a session only by its delivery, and is not engaged
\* in it any more once it has counted its sale.
LEMMA EngagedStep ==
  ASSUME Base, [Next]_vars, NEW u \in Tasks, NEW s \in Sessions,
         s \in Engaged(u)'
  PROVE  /\ \/ s \in Engaged(u)
            \/ \E e \in Events : Deliver(u, e) /\ s \in Response(e)
         /\ ~(CountSale(u) /\ cur[u] = s)
<1>1. ~(CountSale(u) /\ cur[u] = s)
  BY DEF CountSale, Goto, Engaged, BeforeCount, Base, TypeOK, Control
<1> SUFFICES \/ s \in Engaged(u)
             \/ \E e \in Events : Deliver(u, e) /\ s \in Response(e)
  BY <1>1
<1>2. CASE UNCHANGED <<pc, cur, todo>>
  BY <1>2, EngineConstants DEF Engaged, BeforeCount, Base, TypeOK, Control
<1>3. CASE \E t \in Tasks, e \in Events : Deliver(t, e)
  <2>1. PICK t \in Tasks, e \in Events : Deliver(t, e)
    BY <1>3
  <2>2. CASE t = u
    BY <2>1, <2>2 DEF Deliver, Engaged, BeforeCount, Base, TypeOK
  <2>3. CASE t # u
    BY <2>1, <2>3 DEF Deliver, Engaged, Base, TypeOK
  <2>4. QED
    BY <2>2, <2>3
<1>4. CASE \E t \in Tasks :
            \/ FetchNonce(t) \/ SendAccepted(t) \/ InsertTrade(t)
            \/ CountSale(t) \/ CompleteSession(t) \/ CompleteFails(t)
  BY <1>4, EngineConstants DEF FetchNonce, SendAccepted, InsertTrade,
     CountSale, CompleteSession, CompleteFails, Goto, Engaged, BeforeCount,
     Base, TypeOK, Control, taskVars
<1>5. CASE \E t \in Tasks :
            \/ EnsureTokenApproval(t) \/ SendRejected(t)
            \/ DuplicateTrigger(t) \/ PublishTrade(t)
            \/ SweepToInvestor(t) \/ SendReplyLost(t)
  BY <1>5, EngineConstants DEF EnsureTokenApproval, SendRejected,
     DuplicateTrigger, PublishTrade, SweepToInvestor, SendReplyLost, Goto,
     Continue, Engaged, BeforeCount, Base, TypeOK, Control, taskVars
<1>6. CASE \E t \in Tasks :
            \/ Ack(t) \/ RecordFails(t) \/ FinalizeFails(t)
            \/ AckFails(t)
  <2>1. PICK t \in Tasks, label \in {"acked", "unacked"} : Finish(t, label)
    BY <1>6 DEF Ack, RecordFails, FinalizeFails, AckFails
  <2>2. t # u
    BY <2>1 DEF Finish, Engaged, BeforeCount, Base, TypeOK
  <2>3. QED
    BY <2>1, <2>2 DEF Finish, Engaged, Base, TypeOK
<1>7. CASE \E t \in Tasks :
            \/ FinalizeConfirmed(t) \/ FinalizeReverted(t)
            \/ FinalizeTimeout(t) \/ FinalizeAmountFails(t)
            \/ FinalizeError(t)
  BY <1>7, EngineConstants DEF FinalizeConfirmed, FinalizeReverted,
     FinalizeTimeout, FinalizeAmountFails, FinalizeError, Conclude, Engaged,
     BeforeCount, Base, TypeOK, Control, taskVars
<1>8. CASE \E t \in Tasks, x \in Sessions :
            \/ SkipSession(t, x) \/ EnterSession(t, x)
  <2>1. CASE \E t \in Tasks, x \in Sessions : SkipSession(t, x)
    BY <2>1 DEF SkipSession, Engaged, Base, TypeOK
  <2>2. CASE \E t \in Tasks, x \in Sessions : EnterSession(t, x)
    <3>1. PICK t \in Tasks, x \in Sessions : EnterSession(t, x)
      BY <2>2
    <3>2. CASE t = u
      BY <3>1, <3>2 DEF EnterSession, Engaged, BeforeCount, Base, TypeOK
    <3>3. CASE t # u
      BY <3>1, <3>3 DEF EnterSession, Engaged, Base, TypeOK
    <3>4. QED
      BY <3>2, <3>3
  <2>3. QED
    BY <1>8, <2>1, <2>2
<1>9. CASE \E t \in Tasks, e \in Events : QueryFails(t, e)
  BY <1>9, EngineConstants DEF QueryFails, Engaged, BeforeCount, Base,
     TypeOK, Control, taskVars
<1>10. CASE \E r \in Replicas : Crash(r)
  BY <1>10, EngineConstants DEF Crash, Engaged, BeforeCount, Base, TypeOK,
     Control, taskVars
<1>11. QED
  BY <1>2, <1>3, <1>4, <1>5, <1>6, <1>7, <1>8, <1>9, <1>10, TaskWriters

\* A session never raced stays with one task, whose snapshot stays current.
LEMMA ExclusiveStep == Base /\ Exclusive /\ [Next]_vars => Exclusive'
<1> SUFFICES ASSUME Base, Exclusive, [Next]_vars,
                    NEW s \in Sessions \ raced', NEW t \in Tasks,
                    s \in Engaged(t)'
             PROVE  /\ \A u \in Tasks : s \in Engaged(u)' => t = u
                    /\ snap'[t][s] = amountSold'[s]
  BY DEF Exclusive
<1>1. s \notin raced
  BY HistoryWriters DEF SendReplyLost, Deliver
<1>2. ASSUME NEW u \in Tasks, NEW e \in Events, Deliver(u, e), s \in Response(e)
      PROVE  /\ \A v \in Tasks : s \notin Engaged(v)
             /\ \A v \in Tasks : s \in Engaged(v)' => v = u
             /\ snap'[u][s] = amountSold'[s]
  <2>1. \A v \in Tasks : s \notin Engaged(v)
    BY <1>2 DEF Deliver
  <2>2. ASSUME NEW v \in Tasks, v # u PROVE s \notin Engaged(v)'
    BY <1>2, <2>1, <2>2 DEF Deliver, Engaged, Base, TypeOK
  <2>3. snap'[u][s] = amountSold'[s]
    BY <1>2 DEF Deliver, dbVars, Base, TypeOK
  <2>4. QED
    BY <2>1, <2>2, <2>3
<1>3. CASE \E u \in Tasks, e \in Events : Deliver(u, e) /\ s \in Response(e)
  BY <1>2, <1>3
<1>4. CASE \A u \in Tasks : s \in Engaged(u)' => s \in Engaged(u)
  <2>1. \A u \in Tasks : s \in Engaged(u)' => t = u
    BY <1>1, <1>4 DEF Exclusive
  <2>2. s \in Engaged(t) /\ snap[t][s] = amountSold[s]
    BY <1>1, <1>4 DEF Exclusive
  <2>3. pc[t] # "idle"
    BY <2>2 DEF Engaged, Base, Control, BeforeCount
  <2>4. amountSold'[s] = amountSold[s]
    <3> SUFFICES ASSUME amountSold'[s] # amountSold[s] PROVE FALSE
      OBVIOUS
    <3>1. PICK v \in Tasks : CountSale(v) /\ cur[v] = s
      BY LedgerStep
    <3>2. s \in Engaged(v)
      BY <3>1 DEF CountSale, Engaged, BeforeCount
    <3>3. v = t
      BY <1>1, <2>2, <3>2 DEF Exclusive
    <3>4. QED
      BY <3>1, <3>3, EngagedStep
  <2>5. QED
    BY <2>1, <2>2, <2>3, <2>4, EventStep
<1>5. QED
  BY <1>3, <1>4, EngagedStep

\* A sale is capped by the snapshot, which is current as long as no other task
\* may add a sale.
LEMMA OversoldStep ==
  Base /\ Exclusive /\ OversoldOnlyIfRaced /\ [Next]_vars
    => OversoldOnlyIfRaced'
<1> SUFFICES ASSUME Base, Exclusive, OversoldOnlyIfRaced, [Next]_vars,
                    NEW s \in Sessions, s \notin raced'
             PROVE  ~(amountSold'[s] > Total[s])
  BY DEF OversoldOnlyIfRaced
<1>1. s \notin raced
  BY HistoryWriters DEF SendReplyLost, Deliver
<1>2. amountSold[s] \in Nat /\ Total[s] \in Nat /\ amountSold[s] <= Total[s]
  BY <1>1, EngineConstants DEF OversoldOnlyIfRaced, Base, TypeOK
<1>3. CASE amountSold'[s] = amountSold[s]
  BY <1>2, <1>3
<1>4. CASE amountSold'[s] # amountSold[s]
  <2>1. PICK t \in Tasks : /\ CountSale(t) /\ cur[t] = s
                           /\ amountSold'[s] = amountSold[s] + Amount(t, s)
    BY <1>4, LedgerStep
  <2>2. s \in Engaged(t) /\ pc[t] \in InSession
    BY <2>1 DEF CountSale, Engaged, InSession, BeforeCount
  <2>3. snap[t][s] = amountSold[s]
    BY <1>1, <2>2 DEF Exclusive
  <2>4. ev[t] \in Events
    BY <2>2, InSessionFacts DEF Base
  <2>5. /\ Amount(t, s) \in Nat
        /\ Amount(t, s) <= Remaining(s, amountSold[s])
    BY <1>2, <2>3, <2>4, SellAmountCapped DEF Amount
  <2>6. QED
    BY <1>2, <2>1, <2>5 DEF Remaining
<1>5. QED
  BY <1>3, <1>4

\* A session that was never raced has one task and a current snapshot in every
\* reachable state.
LEMMA ExclusiveHolds == Spec => []Exclusive
<1>1. Init => Exclusive
  BY DEF Init, Exclusive, Engaged, BeforeCount
<1>2. QED
  BY <1>1, ExclusiveStep, BaseHolds, PTL DEF Spec

\* The cap on the sell amount works unless tasks overlap: amount_sold exceeds
\* total_amount only in a session that two tasks ever worked on at once.
THEOREM CapHolds == Spec => []OversoldOnlyIfRaced
<1>1. Init => OversoldOnlyIfRaced
  BY EngineConstants DEF Init, OversoldOnlyIfRaced
<1>2. QED
  BY <1>1, OversoldStep, ExclusiveHolds, BaseHolds, PTL DEF Spec

-----------------------------------------------------------------------------
\* Sales and their rows.

\* A task leaves the label insert only with a row, with a conflict, or for good.
LEMMA InsertMoves ==
  ASSUME Base, [Next]_vars, NEW u \in Tasks, pc[u] = "insert"
  PROVE  \/ pc'[u] = "insert" /\ cur'[u] = cur[u]
         \/ InsertTrade(u)
         \/ DuplicateTrigger(u)
         \/ pc'[u] \in {"unacked", "dead"}
<1>1. CASE UNCHANGED <<pc, cur, todo>>
  BY <1>1 DEF Base, TypeOK
<1>2. CASE \E t \in Tasks : InsertTrade(t)
  BY <1>2 DEF InsertTrade, Goto, Base, TypeOK, taskVars
<1>3. CASE \E t \in Tasks : DuplicateTrigger(t)
  BY <1>3 DEF DuplicateTrigger, Continue, Base, TypeOK, taskVars
<1>4. CASE \E t \in Tasks :
            \/ FetchNonce(t) \/ SendAccepted(t) \/ CountSale(t)
            \/ CompleteSession(t) \/ CompleteFails(t)
  BY <1>4 DEF FetchNonce, SendAccepted, CountSale, CompleteSession,
     CompleteFails, Goto, Base, TypeOK, taskVars
<1>5. CASE \E t \in Tasks :
            \/ EnsureTokenApproval(t) \/ SendRejected(t)
            \/ PublishTrade(t) \/ SweepToInvestor(t)
            \/ SendReplyLost(t)
  BY <1>5 DEF EnsureTokenApproval, SendRejected, PublishTrade,
     SweepToInvestor, SendReplyLost, Goto, Continue, Base, TypeOK, taskVars
<1>6. CASE \E t \in Tasks :
            \/ Ack(t) \/ RecordFails(t) \/ FinalizeFails(t)
            \/ AckFails(t)
  BY <1>6 DEF Ack, RecordFails, FinalizeFails, AckFails, Finish, Base,
     TypeOK, taskVars
<1>7. CASE \E t \in Tasks :
            \/ FinalizeConfirmed(t) \/ FinalizeReverted(t)
            \/ FinalizeTimeout(t) \/ FinalizeAmountFails(t)
            \/ FinalizeError(t)
  BY <1>7 DEF FinalizeConfirmed, FinalizeReverted, FinalizeTimeout,
     FinalizeAmountFails, FinalizeError, Conclude, Base, TypeOK, taskVars
<1>8. CASE \E t \in Tasks, x \in Sessions :
            \/ SkipSession(t, x) \/ EnterSession(t, x)
  BY <1>8 DEF SkipSession, EnterSession, Base, TypeOK, taskVars
<1>9. CASE \E t \in Tasks, e \in Events : QueryFails(t, e)
  BY <1>9 DEF QueryFails, Base, TypeOK, taskVars
<1>10. CASE \E t \in Tasks, e \in Events : Deliver(t, e)
  BY <1>10 DEF Deliver, Base, TypeOK, taskVars
<1>11. CASE \E r \in Replicas : Crash(r)
  BY <1>11 DEF Crash, Base, TypeOK, taskVars
<1>12. QED
  BY <1>1, <1>2, <1>3, <1>4, <1>5, <1>6, <1>7, <1>8, <1>9, <1>10, <1>11,
     TaskWriters

\* A row for a session and a trigger stays one.
LEMMA ConflictStep ==
  ASSUME Base, [Next]_vars, NEW s \in Sessions, NEW t \in Tasks,
         pc[t] # "idle", TriggerConflict(s, ev[t])
  PROVE  TriggerConflict(s, ev[t])'
<1>1. PICK u \in Tasks : ev[u] = ev[t] /\ row[<<u, s>>] # "none"
  BY DEF TriggerConflict
<1>2. pc[u] # "idle"
  BY <1>1 DEF Base, Order, Unsent
<1>3. ev'[u] = ev[u] /\ ev'[t] = ev[t]
  BY <1>2, EventStep
<1>4. row'[<<u, s>>] # "none"
  BY <1>1, RowStep DEF Ids
<1>5. QED
  BY <1>1, <1>3, <1>4 DEF TriggerConflict

\* Every submitted sale is recorded, about to be, lost, or its task failed.
LEMMA SalesKnownStep == Base /\ SalesKnown /\ [Next]_vars => SalesKnown'
<1> SUFFICES ASSUME Base, SalesKnown, [Next]_vars,
                    NEW t \in Tasks, NEW s \in Sessions, tx'[<<t, s>>] # "none"
             PROVE  \/ <<t, s>> \in lost'
                    \/ TriggerConflict(s, ev[t])'
                    \/ pc'[t] = "insert" /\ cur'[t] = s
                    \/ pc'[t] \in {"unacked", "dead"}
  BY DEF SalesKnown
<1>1. <<t, s>> \in Ids
  BY DEF Ids
<1>2. CASE tx[<<t, s>>] = "none"
  <2>1. PICK u \in Tasks : /\ <<t, s>> = CurId(u)
                           /\ SendAccepted(u) \/ SendReplyLost(u)
    BY <1>1, <1>2, TxStep
  <2>2. u = t /\ cur[t] = s
    BY <2>1 DEF CurId
  <2>3. CASE SendAccepted(t)
    BY <2>2, <2>3 DEF SendAccepted, Goto, Base, TypeOK
  <2>4. CASE SendReplyLost(t)
    BY <2>2, <2>4 DEF SendReplyLost, CurId
  <2>5. QED
    BY <2>1, <2>2, <2>3, <2>4
<1>3. CASE tx[<<t, s>>] # "none"
  <2>1. pc[t] # "idle"
    BY <1>3 DEF Base, Order, Unsent
  <2>2. CASE <<t, s>> \in lost
    BY <2>2, HistoryWriters DEF SendReplyLost, Deliver
  <2>3. CASE TriggerConflict(s, ev[t])
    BY <2>1, <2>3, ConflictStep
  <2>4. CASE pc[t] = "insert" /\ cur[t] = s
    <3>1. CASE pc'[t] = "insert" /\ cur'[t] = cur[t]
      BY <2>4, <3>1
    <3>2. CASE InsertTrade(t)
      <4>1. row'[<<t, s>>] = "submitted"
        BY <1>1, <2>4, <3>2 DEF InsertTrade, CurId, Base, TypeOK
      <4>2. QED
        BY <4>1 DEF TriggerConflict
    <3>3. CASE DuplicateTrigger(t)
      BY <2>1, <2>4, <3>3, ConflictStep DEF DuplicateTrigger
    <3>4. QED
      BY <2>4, <3>1, <3>2, <3>3, InsertMoves
  <2>5. CASE pc[t] \in {"unacked", "dead"}
    BY <2>5, OverStep DEF Over
  <2>6. QED
    BY <1>3, <2>2, <2>3, <2>4, <2>5 DEF SalesKnown
<1>4. QED
  BY <1>2, <1>3

\* Every submitted sale is accounted for in every reachable state.
LEMMA SalesKnownHolds == Spec => []SalesKnown
<1>1. Init => SalesKnown
  BY DEF Init, ChainInit, SalesKnown, Ids
<1>2. QED
  BY <1>1, SalesKnownStep, BaseHolds, PTL DEF Spec

\* A task that returns Ok leaves no sale it knows of without a row for its
\* session and trigger, whatever fails around it.
THEOREM NoSaleSilent == Spec => []NoSilentSale
<1>1. SalesKnown => NoSilentSale
  BY DEF SalesKnown, NoSilentSale
<1>2. QED
  BY <1>1, SalesKnownHolds, PTL

-----------------------------------------------------------------------------
\* Nonces.

\* A task reaches the label send only by fetching a nonce.
LEMMA SendMoves ==
  ASSUME Base, [Next]_vars, NEW u \in Tasks, pc'[u] = "send"
  PROVE  cur'[u] = cur[u] /\ (pc[u] = "send" \/ FetchNonce(u))
<1>1. CASE UNCHANGED <<pc, cur, todo>>
  BY <1>1 DEF Base, TypeOK
<1>2. CASE \E t \in Tasks : FetchNonce(t)
  BY <1>2 DEF FetchNonce, Goto, Base, TypeOK, taskVars
<1>3. CASE \E t \in Tasks :
            \/ SendAccepted(t) \/ InsertTrade(t) \/ CountSale(t)
            \/ CompleteSession(t) \/ CompleteFails(t)
  BY <1>3 DEF SendAccepted, InsertTrade, CountSale, CompleteSession,
     CompleteFails, Goto, Base, TypeOK, taskVars
<1>4. CASE \E t \in Tasks :
            \/ EnsureTokenApproval(t) \/ SendRejected(t)
            \/ DuplicateTrigger(t) \/ PublishTrade(t)
            \/ SweepToInvestor(t) \/ SendReplyLost(t)
  BY <1>4 DEF EnsureTokenApproval, SendRejected, DuplicateTrigger,
     PublishTrade, SweepToInvestor, SendReplyLost, Goto, Continue, Base,
     TypeOK, taskVars
<1>5. CASE \E t \in Tasks :
            \/ Ack(t) \/ RecordFails(t) \/ FinalizeFails(t)
            \/ AckFails(t)
  BY <1>5 DEF Ack, RecordFails, FinalizeFails, AckFails, Finish, Base,
     TypeOK, taskVars
<1>6. CASE \E t \in Tasks :
            \/ FinalizeConfirmed(t) \/ FinalizeReverted(t)
            \/ FinalizeTimeout(t) \/ FinalizeAmountFails(t)
            \/ FinalizeError(t)
  BY <1>6 DEF FinalizeConfirmed, FinalizeReverted, FinalizeTimeout,
     FinalizeAmountFails, FinalizeError, Conclude, Base, TypeOK, taskVars
<1>7. CASE \E t \in Tasks, x \in Sessions :
            \/ SkipSession(t, x) \/ EnterSession(t, x)
  BY <1>7 DEF SkipSession, EnterSession, Base, TypeOK, taskVars
<1>8. CASE \E t \in Tasks, e \in Events : QueryFails(t, e)
  BY <1>8 DEF QueryFails, Base, TypeOK, taskVars
<1>9. CASE \E t \in Tasks, e \in Events : Deliver(t, e)
  BY <1>9 DEF Deliver, Base, TypeOK, taskVars
<1>10. CASE \E r \in Replicas : Crash(r)
  BY <1>10 DEF Crash, Base, TypeOK, taskVars
<1>11. QED
  BY <1>1, <1>2, <1>3, <1>4, <1>5, <1>6, <1>7, <1>8, <1>9, <1>10, TaskWriters

\* A wallet's nonce only grows.
LEMMA WalletNonceStep ==
  ASSUME Base, [Next]_vars, NEW w \in Wallets
  PROVE  walletNonce'[w] \in Nat /\ walletNonce'[w] >= walletNonce[w]
<1>1. CASE UNCHANGED <<tx, walletNonce>>
  BY <1>1 DEF Base, TypeOK, ChainTypeOK
<1>2. CASE \E t \in Tasks : SendAccepted(t) \/ SendReplyLost(t)
  BY <1>2 DEF SendAccepted, SendReplyLost, AcceptTx, Base, TypeOK, ChainTypeOK
<1>3. CASE \E t \in Tasks : EnsureTokenApproval(t) \/ SweepToInvestor(t)
  BY <1>3
  DEF EnsureTokenApproval, SweepToInvestor, UseNonce, chainVars, Base,
      TypeOK, ChainTypeOK
<1>4. CASE \E id \in Ids : Mine(id)
  BY <1>4 DEF Mine, MineSale, Base, TypeOK, ChainTypeOK
<1>5. QED
  BY <1>1, <1>2, <1>3, <1>4, TxWriters

\* A fetched nonce stays at most the wallet's next one until it is used.
LEMMA NoncesFetchedStep ==
  Base /\ NoncesFetched /\ [Next]_vars => NoncesFetched'
<1> SUFFICES ASSUME Base, NoncesFetched, [Next]_vars,
                    NEW u \in Tasks, pc'[u] = "send"
             PROVE  txNonce'[CurId(u)'] <= walletNonce'[WalletOf[cur'[u]]]
  BY DEF NoncesFetched
<1>1. cur'[u] = cur[u] /\ (pc[u] = "send" \/ FetchNonce(u))
  BY SendMoves
<1>2. /\ cur[u] \in Sessions /\ CurId(u) \in Ids
      /\ WalletOf[cur[u]] \in Wallets /\ CurId(u)' = CurId(u)
  BY <1>1, InSessionFacts DEF FetchNonce, CurId, Base, InSession, BeforeCount
<1>3. walletNonce'[WalletOf[cur[u]]] >= walletNonce[WalletOf[cur[u]]]
  BY <1>2, WalletNonceStep
<1>4. CASE FetchNonce(u)
  BY <1>1, <1>2, <1>4
  DEF FetchNonce, NextNonce, Base, TypeOK, ChainTypeOK
<1>5. CASE pc[u] = "send"
  <2>1. txNonce'[CurId(u)] = txNonce[CurId(u)]
    <3>1. CASE UNCHANGED txNonce
      BY <3>1
    <3>2. CASE \E t \in Tasks : FetchNonce(t)
      BY <1>2, <1>5, <3>2 DEF FetchNonce, CurId, Base, TypeOK, ChainTypeOK
    <3>3. CASE \E t \in Tasks : SendAccepted(t)
      BY <1>2, <1>5, <3>3
      DEF SendAccepted, AcceptTx, CurId, Base, TypeOK, ChainTypeOK
    <3>4. CASE \E t \in Tasks : SendReplyLost(t)
      BY <1>2, <1>5, <3>4
      DEF SendReplyLost, AcceptTx, CurId, Base, TypeOK, ChainTypeOK
    <3>5. QED
      BY <3>1, <3>2, <3>3, <3>4, NonceWriters
  <2>2. txNonce[CurId(u)] <= walletNonce[WalletOf[cur[u]]]
    BY <1>5 DEF NoncesFetched
  <2>3. txNonce[CurId(u)] \in Nat /\ walletNonce[WalletOf[cur[u]]] \in Nat
    BY <1>2 DEF Base, TypeOK, ChainTypeOK
  <2>4. walletNonce'[WalletOf[cur[u]]] \in Nat
    BY <1>2, WalletNonceStep
  <2>5. QED
    BY <1>1, <1>2, <1>3, <2>1, <2>2, <2>3, <2>4
<1>6. QED
  BY <1>1, <1>4, <1>5

\* A send uses the wallet's next nonce: the mempool refuses an older one, and
\* the fetched one is not newer.  It replaces whatever was pending.
LEMMA SendInFlight ==
  ASSUME Base, InFlight, NEW t \in Tasks, pc[t] = "send",
         AcceptTx(CurId(t), txNonce[CurId(t)])
  PROVE  PendingIsNext' /\ OneInFlightPerWallet'
<1> DEFINE w == WalletOf[cur[t]]
<1>1. CurId(t) \in Ids /\ w \in Wallets /\ WalletOfId(CurId(t)) = w
  BY InSessionFacts DEF Base, InSession, BeforeCount
<1>2. txNonce[CurId(t)] = walletNonce[w]
  <2>1. txNonce[CurId(t)] \in Nat /\ walletNonce[w] \in Nat
    BY <1>1 DEF Base, TypeOK, ChainTypeOK
  <2>2. txNonce[CurId(t)] >= walletNonce[w]
    BY <1>1 DEF AcceptTx
  <2>3. txNonce[CurId(t)] <= walletNonce[w]
    BY DEF InFlight, NoncesFetched
  <2>4. QED
    BY <2>1, <2>2, <2>3
<1>3. UNCHANGED <<txNonce, walletNonce>>
  BY <1>1 DEF AcceptTx, Base, TypeOK, ChainTypeOK
<1>4. ASSUME NEW id \in Ids, tx'[id] = "pending"
      PROVE  id = CurId(t) \/ (tx[id] = "pending" /\ WalletOfId(id) # w)
  BY <1>1, <1>2, <1>4 DEF AcceptTx, PendingAt, InFlight, PendingIsNext
<1>5. PendingIsNext'
  BY <1>1, <1>2, <1>3, <1>4 DEF InFlight, PendingIsNext, WalletOfId
<1>6. OneInFlightPerWallet'
  BY <1>1, <1>4 DEF InFlight, OneInFlightPerWallet, WalletOfId
<1>7. QED
  BY <1>5, <1>6

\* A step that uses a nonce up leaves no sale of that wallet pending.
LEMMA UseInFlight ==
  ASSUME Base, InFlight, NEW w \in Wallets, UNCHANGED txNonce,
         walletNonce' = [walletNonce EXCEPT ![w] = @ + 1],
         \A id \in Ids : tx'[id] = "pending" =>
                           tx[id] = "pending" /\ WalletOfId(id) # w
  PROVE  PendingIsNext' /\ OneInFlightPerWallet'
<1>1. ASSUME NEW id \in Ids PROVE WalletOfId(id) \in Wallets
  BY EngineConstants DEF Ids, WalletOfId
<1>2. PendingIsNext'
  BY <1>1
  DEF InFlight, PendingIsNext, WalletOfId, Base, TypeOK, ChainTypeOK
<1>3. OneInFlightPerWallet'
  BY DEF InFlight, OneInFlightPerWallet, WalletOfId
<1>4. QED
  BY <1>2, <1>3

\* The nonce invariants are inductive together.
LEMMA InFlightStep == Base /\ InFlight /\ [Next]_vars => InFlight'
<1> SUFFICES ASSUME Base, InFlight, [Next]_vars
             PROVE  PendingIsNext' /\ OneInFlightPerWallet'
  BY NoncesFetchedStep DEF InFlight
<1>1. CASE UNCHANGED <<tx, walletNonce, txNonce>>
  BY <1>1
  DEF InFlight, PendingIsNext, OneInFlightPerWallet, WalletOfId
<1>2. CASE \E t \in Tasks : FetchNonce(t)
  <2>1. PICK t \in Tasks : FetchNonce(t)
    BY <1>2
  <2>2. CurId(t) \in Ids /\ tx[CurId(t)] = "none"
    BY <2>1, InSessionFacts
    DEF FetchNonce, CurId, Base, Order, Unsent, InSession, BeforeCount
  <2>3. UNCHANGED <<tx, walletNonce>>
    BY <2>1 DEF FetchNonce
  <2>4. \A id \in Ids : tx[id] = "pending" => txNonce'[id] = txNonce[id]
    BY <2>1, <2>2 DEF FetchNonce, Base, TypeOK, ChainTypeOK
  <2>5. QED
    BY <2>3, <2>4
    DEF InFlight, PendingIsNext, OneInFlightPerWallet, WalletOfId
<1>3. CASE \E t \in Tasks : SendAccepted(t) \/ SendReplyLost(t)
  BY <1>3, SendInFlight DEF SendAccepted, SendReplyLost
<1>4. ASSUME NEW t \in Tasks, pc[t] \in InSession, UseNonce(WalletOf[cur[t]]),
             UNCHANGED txNonce
      PROVE  PendingIsNext' /\ OneInFlightPerWallet'
  <2> DEFINE w == WalletOf[cur[t]]
  <2>1. w \in Wallets
    BY <1>4, InSessionFacts DEF Base
  <2>2. \A id \in Ids : tx'[id] = "pending" =>
                          tx[id] = "pending" /\ WalletOfId(id) # w
    BY <1>4 DEF UseNonce, PendingAt, InFlight, PendingIsNext
  <2>3. QED
    BY <1>4, <2>1, <2>2, UseInFlight DEF UseNonce
<1>5. CASE \E t \in Tasks : EnsureTokenApproval(t)
  BY <1>4, <1>5 DEF EnsureTokenApproval, InSession, BeforeCount
<1>6. CASE \E t \in Tasks : SweepToInvestor(t)
  BY <1>1, <1>4, <1>6 DEF SweepToInvestor, InSession, AfterCount, chainVars
<1>7. CASE \E id \in Ids : Mine(id)
  <2>1. PICK id \in Ids : Mine(id)
    BY <1>7
  <2>2. WalletOfId(id) \in Wallets
    BY EngineConstants DEF Ids, WalletOfId
  <2>3. \A i \in Ids : tx'[i] = "pending" =>
                         tx[i] = "pending" /\ WalletOfId(i) # WalletOfId(id)
    BY <2>1
    DEF Mine, MineSale, InFlight, OneInFlightPerWallet, Base, TypeOK,
        ChainTypeOK
  <2>4. QED
    BY <2>1, <2>2, <2>3, UseInFlight DEF Mine, MineSale
<1>8. QED
  BY <1>1, <1>2, <1>3, <1>5, <1>6, <1>7, TxWriters, NonceWriters

\* The nonce invariants hold in every reachable state.
LEMMA InFlightHolds == Spec => []InFlight
<1>1. Init => InFlight
  BY DEF Init, ChainInit, InFlight, NoncesFetched, PendingIsNext,
         OneInFlightPerWallet
<1>2. QED
  BY <1>1, InFlightStep, BaseHolds, PTL DEF Spec

\* However many tasks of however many replicas sell from one wallet, no pending
\* sale waits for a transaction that nobody sent.
THEOREM NoGap == Spec => []NoNonceGap
<1>1. Base /\ InFlight => NoNonceGap
  <2> SUFFICES ASSUME Base, InFlight, NEW id \in Ids, tx[id] = "pending"
               PROVE  txNonce[id] <= walletNonce[WalletOfId(id)]
    BY DEF NoNonceGap
  <2>1. WalletOfId(id) \in Wallets
    BY EngineConstants DEF Ids, WalletOfId
  <2>2. QED
    BY <2>1 DEF InFlight, PendingIsNext, Base, TypeOK, ChainTypeOK
<1>2. QED
  BY <1>1, InFlightHolds, BaseHolds, PTL

\* A wallet never has two sales in flight: concurrent sessions on one wallet
\* replace each other's transactions instead of queueing them.
THEOREM OneInFlight == Spec => []OneInFlightPerWallet
<1>1. InFlight => OneInFlightPerWallet
  BY DEF InFlight
<1>2. QED
  BY <1>1, InFlightHolds, PTL

-----------------------------------------------------------------------------
\* How far a task is.

\* What an iteration has before it, as a number: the labels in the order of
\* process_swap_event, with one more if the wallet has no approval yet.
Ahead(t) ==
  CASE pc[t] = "approve"  -> IF allowance[WalletOf[cur[t]]] THEN 9 ELSE 10
    [] pc[t] = "send"     -> 8
    [] pc[t] = "insert"   -> 7
    [] pc[t] = "count"    -> 6
    [] pc[t] = "finalize" -> 5
    [] pc[t] = "publish"  -> 4
    [] pc[t] = "complete" -> 3
    [] pc[t] = "sweep"    -> 2
    [] pc[t] = "loop"     -> 1
    [] OTHER              -> 0

\* Fewer sessions to visit, or less of this one.
Forward(t) ==
  \/ todo'[t] \subseteq todo[t] /\ todo'[t] # todo[t]
  \/ todo'[t] = todo[t] /\ Ahead(t)' < Ahead(t)

\* As much as before, or less where another task obtained the approval.
NotBack(t) == todo'[t] = todo[t] /\ Ahead(t)' <= Ahead(t)

\* Approvals are not taken back.
LEMMA ApprovalStays ==
  ASSUME Base, [Next]_vars, NEW w \in Wallets, allowance[w]
  PROVE  allowance'[w]
<1>1. CASE UNCHANGED allowance
  BY <1>1
<1>2. CASE \E t \in Tasks : EnsureTokenApproval(t)
  BY <1>2, EngineConstants DEF EnsureTokenApproval, Base, TypeOK, ChainTypeOK
<1>3. UNCHANGED allowance \/ \E t \in Tasks : EnsureTokenApproval(t)
  BY DEF Next, TaskStep, TaskFault, ReconcilerStep, ReconcilerFault,
     Environment, Intervention, vars, chainVars, SkipSession, EnterSession,
     FetchNonce, SendAccepted, SendRejected, SendReplyLost, AcceptTx,
     InsertTrade, DuplicateTrigger, CountSale, RecordFails,
     FinalizeConfirmed, FinalizeReverted, FinalizeTimeout,
     FinalizeAmountFails, FinalizeError, FinalizeFails, PublishTrade,
     CompleteSession, CompleteFails, SweepToInvestor, Ack, AckFails,
     QueryFails, StartPass, ReconcileConfirmed, ReconcileReverted,
     ReconcileSkips, ReconcileFails, Deliver, Redeliver, Mine, MineSale,
     Expire, Crash, UpdateSessionStatus
<1>4. QED
  BY <1>1, <1>2, <1>3

\* Whatever a running task does, it gets further.
LEMMA OwnStep ==
  ASSUME Base, NEW t \in Tasks, pc[t] # "idle", TaskStep(t) \/ TaskFault(t)
  PROVE  Forward(t)
<1>1. CASE \E s \in Sessions : SkipSession(t, s) \/ EnterSession(t, s)
  BY <1>1 DEF SkipSession, EnterSession, Forward, Base, TypeOK
<1>2. CASE EnsureTokenApproval(t)
  BY <1>2, EngineConstants DEF EnsureTokenApproval, Continue, taskVars,
     Forward, Ahead, Base, TypeOK, ChainTypeOK, Control, InSession,
     BeforeCount
<1>3. CASE FetchNonce(t)
  BY <1>3 DEF FetchNonce, Goto, Forward, Ahead, Base, TypeOK
<1>4. CASE SendAccepted(t)
  BY <1>4 DEF SendAccepted, Goto, Forward, Ahead, Base, TypeOK
<1>5. CASE SendRejected(t)
  BY <1>5 DEF SendRejected, Continue, Forward, Ahead, Base, TypeOK
<1>6. CASE InsertTrade(t)
  BY <1>6 DEF InsertTrade, Goto, Forward, Ahead, Base, TypeOK
<1>7. CASE DuplicateTrigger(t)
  BY <1>7 DEF DuplicateTrigger, Continue, Forward, Ahead, Base, TypeOK
<1>8. CASE CountSale(t)
  BY <1>8 DEF CountSale, Goto, Forward, Ahead, Base, TypeOK
<1>9. CASE FinalizeConfirmed(t)
  BY <1>9 DEF FinalizeConfirmed, Conclude, Forward, Ahead, Base, TypeOK
<1>10. CASE FinalizeReverted(t)
  BY <1>10 DEF FinalizeReverted, Conclude, Forward, Ahead, Base, TypeOK
<1>11. CASE FinalizeTimeout(t)
  BY <1>11 DEF FinalizeTimeout, Conclude, Forward, Ahead, Base, TypeOK
<1>12. CASE PublishTrade(t)
  BY <1>12 DEF PublishTrade, Goto, Continue, Forward, Ahead, Base, TypeOK
<1>13. CASE CompleteSession(t)
  BY <1>13 DEF CompleteSession, Goto, Forward, Ahead, Base, TypeOK
<1>14. CASE SweepToInvestor(t)
  BY <1>14 DEF SweepToInvestor, Continue, Forward, Ahead, Base, TypeOK
<1>15. CASE Ack(t)
  BY <1>15 DEF Ack, Finish, Forward, Ahead, Base, TypeOK
<1>16. CASE SendReplyLost(t)
  BY <1>16 DEF SendReplyLost, Continue, Forward, Ahead, Base, TypeOK
<1>17. CASE RecordFails(t)
  BY <1>17 DEF RecordFails, Finish, Forward, Ahead, Base, TypeOK
<1>18. CASE FinalizeAmountFails(t)
  BY <1>18 DEF FinalizeAmountFails, Conclude, Forward, Ahead, Base, TypeOK
<1>19. CASE FinalizeError(t)
  BY <1>19 DEF FinalizeError, Conclude, Forward, Ahead, Base, TypeOK
<1>20. CASE FinalizeFails(t)
  BY <1>20 DEF FinalizeFails, Finish, Forward, Ahead, Base, TypeOK
<1>21. CASE CompleteFails(t)
  BY <1>21 DEF CompleteFails, Goto, Forward, Ahead, Base, TypeOK
<1>22. CASE AckFails(t)
  BY <1>22 DEF AckFails, Finish, Forward, Ahead, Base, TypeOK
<1>23. CASE \E e \in Events : QueryFails(t, e)
  BY <1>23 DEF QueryFails
<1>24. QED
  BY <1>1, <1>2, <1>3, <1>4, <1>5, <1>6, <1>7, <1>8, <1>9, <1>10, <1>11,
     <1>12, <1>13, <1>14, <1>15, <1>16, <1>17, <1>18, <1>19, <1>20, <1>21,
     <1>22, <1>23 DEF TaskStep, TaskFault

\* Nothing but its own steps and the end of its replica moves a task.
LEMMA OthersStay ==
  ASSUME Base, [Next]_vars, NEW u \in Tasks, pc[u] # "idle",
         ~(TaskStep(u) \/ TaskFault(u))
  PROVE  \/ pc'[u] = pc[u] /\ cur'[u] = cur[u] /\ todo'[u] = todo[u]
         \/ pc[u] \notin Over /\ pc'[u] = "dead" /\ todo'[u] = {}
<1>1. CASE UNCHANGED <<pc, cur, todo>>
  BY <1>1
<1>2. CASE \E t \in Tasks, s \in Sessions :
             SkipSession(t, s) \/ EnterSession(t, s)
  BY <1>2 DEF SkipSession, EnterSession, TaskStep, Base, TypeOK
<1>3. CASE \E t \in Tasks : EnsureTokenApproval(t)
  <2>1. PICK t \in Tasks : EnsureTokenApproval(t)
    BY <1>3
  <2>2. t # u
    BY <2>1 DEF TaskStep
  <2>3. QED
    BY <2>1, <2>2 DEF EnsureTokenApproval, Continue, taskVars, Base, TypeOK
<1>4. CASE \E t \in Tasks : FetchNonce(t)
  <2>1. PICK t \in Tasks : FetchNonce(t)
    BY <1>4
  <2>2. t # u
    BY <2>1 DEF TaskStep
  <2>3. QED
    BY <2>1, <2>2 DEF FetchNonce, Goto, Base, TypeOK
<1>5. CASE \E t \in Tasks : SendAccepted(t)
  <2>1. PICK t \in Tasks : SendAccepted(t)
    BY <1>5
  <2>2. t # u
    BY <2>1 DEF TaskStep
  <2>3. QED
    BY <2>1, <2>2 DEF SendAccepted, Goto, Base, TypeOK
<1>6. CASE \E t \in Tasks : SendRejected(t)
  <2>1. PICK t \in Tasks : SendRejected(t)
    BY <1>6
  <2>2. t # u
    BY <2>1 DEF TaskStep
  <2>3. QED
    BY <2>1, <2>2 DEF SendRejected, Continue, Base, TypeOK
<1>7. CASE \E t \in Tasks : InsertTrade(t)
  <2>1. PICK t \in Tasks : InsertTrade(t)
    BY <1>7
  <2>2. t # u
    BY <2>1 DEF TaskStep
  <2>3. QED
    BY <2>1, <2>2 DEF InsertTrade, Goto, Base, TypeOK
<1>8. CASE \E t \in Tasks : DuplicateTrigger(t)
  <2>1. PICK t \in Tasks : DuplicateTrigger(t)
    BY <1>8
  <2>2. t # u
    BY <2>1 DEF TaskStep
  <2>3. QED
    BY <2>1, <2>2 DEF DuplicateTrigger, Continue, Base, TypeOK
<1>9. CASE \E t \in Tasks : CountSale(t)
  <2>1. PICK t \in Tasks : CountSale(t)
    BY <1>9
  <2>2. t # u
    BY <2>1 DEF TaskStep
  <2>3. QED
    BY <2>1, <2>2 DEF CountSale, Goto, Base, TypeOK
<1>10. CASE \E t \in Tasks : FinalizeConfirmed(t)
  <2>1. PICK t \in Tasks : FinalizeConfirmed(t)
    BY <1>10
  <2>2. t # u
    BY <2>1 DEF TaskStep
  <2>3. QED
    BY <2>1, <2>2 DEF FinalizeConfirmed, Conclude, Base, TypeOK
<1>11. CASE \E t \in Tasks : FinalizeReverted(t)
  <2>1. PICK t \in Tasks : FinalizeReverted(t)
    BY <1>11
  <2>2. t # u
    BY <2>1 DEF TaskStep
  <2>3. QED
    BY <2>1, <2>2 DEF FinalizeReverted, Conclude, Base, TypeOK
<1>12. CASE \E t \in Tasks : FinalizeTimeout(t)
  <2>1. PICK t \in Tasks : FinalizeTimeout(t)
    BY <1>12
  <2>2. t # u
    BY <2>1 DEF TaskStep
  <2>3. QED
    BY <2>1, <2>2 DEF FinalizeTimeout, Conclude, Base, TypeOK
<1>13. CASE \E t \in Tasks : PublishTrade(t)
  <2>1. PICK t \in Tasks : PublishTrade(t)
    BY <1>13
  <2>2. t # u
    BY <2>1 DEF TaskStep
  <2>3. QED
    BY <2>1, <2>2 DEF PublishTrade, Goto, Continue, Base, TypeOK
<1>14. CASE \E t \in Tasks : CompleteSession(t)
  <2>1. PICK t \in Tasks : CompleteSession(t)
    BY <1>14
  <2>2. t # u
    BY <2>1 DEF TaskStep
  <2>3. QED
    BY <2>1, <2>2 DEF CompleteSession, Goto, Base, TypeOK
<1>15. CASE \E t \in Tasks : SweepToInvestor(t)
  <2>1. PICK t \in Tasks : SweepToInvestor(t)
    BY <1>15
  <2>2. t # u
    BY <2>1 DEF TaskStep
  <2>3. QED
    BY <2>1, <2>2 DEF SweepToInvestor, Continue, Base, TypeOK
<1>16. CASE \E t \in Tasks : Ack(t)
  <2>1. PICK t \in Tasks : Ack(t)
    BY <1>16
  <2>2. t # u
    BY <2>1 DEF TaskStep
  <2>3. QED
    BY <2>1, <2>2 DEF Ack, Finish, Base, TypeOK
<1>17. CASE \E t \in Tasks : SendReplyLost(t)
  <2>1. PICK t \in Tasks : SendReplyLost(t)
    BY <1>17
  <2>2. t # u
    BY <2>1 DEF TaskFault
  <2>3. QED
    BY <2>1, <2>2 DEF SendReplyLost, Continue, Base, TypeOK
<1>18. CASE \E t \in Tasks : RecordFails(t)
  <2>1. PICK t \in Tasks : RecordFails(t)
    BY <1>18
  <2>2. t # u
    BY <2>1 DEF TaskFault
  <2>3. QED
    BY <2>1, <2>2 DEF RecordFails, Finish, Base, TypeOK
<1>19. CASE \E t \in Tasks : FinalizeAmountFails(t)
  <2>1. PICK t \in Tasks : FinalizeAmountFails(t)
    BY <1>19
  <2>2. t # u
    BY <2>1 DEF TaskFault
  <2>3. QED
    BY <2>1, <2>2 DEF FinalizeAmountFails, Conclude, Base, TypeOK
<1>20. CASE \E t \in Tasks : FinalizeError(t)
  <2>1. PICK t \in Tasks : FinalizeError(t)
    BY <1>20
  <2>2. t # u
    BY <2>1 DEF TaskFault
  <2>3. QED
    BY <2>1, <2>2 DEF FinalizeError, Conclude, Base, TypeOK
<1>21. CASE \E t \in Tasks : FinalizeFails(t)
  <2>1. PICK t \in Tasks : FinalizeFails(t)
    BY <1>21
  <2>2. t # u
    BY <2>1 DEF TaskFault
  <2>3. QED
    BY <2>1, <2>2 DEF FinalizeFails, Finish, Base, TypeOK
<1>22. CASE \E t \in Tasks : CompleteFails(t)
  <2>1. PICK t \in Tasks : CompleteFails(t)
    BY <1>22
  <2>2. t # u
    BY <2>1 DEF TaskFault
  <2>3. QED
    BY <2>1, <2>2 DEF CompleteFails, Goto, Base, TypeOK
<1>23. CASE \E t \in Tasks : AckFails(t)
  <2>1. PICK t \in Tasks : AckFails(t)
    BY <1>23
  <2>2. t # u
    BY <2>1 DEF TaskFault
  <2>3. QED
    BY <2>1, <2>2 DEF AckFails, Finish, Base, TypeOK
<1>24. CASE \E t \in Tasks, e \in Events : QueryFails(t, e) \/ Deliver(t, e)
  BY <1>24 DEF QueryFails, Deliver, Base, TypeOK
<1>25. CASE \E r \in Replicas : Crash(r)
  BY <1>25 DEF Crash, Base, TypeOK
<1>26. QED
  BY <1>1, <1>2, <1>3, <1>4, <1>5, <1>6, <1>7, <1>8, <1>9, <1>10, <1>11,
     <1>12, <1>13, <1>14, <1>15, <1>16, <1>17, <1>18, <1>19, <1>20, <1>21,
     <1>22, <1>23, <1>24, <1>25, TaskWriters

\* A task never goes back: no step of its own leaves it where it is or returns
\* to a session, and nothing else gives it more to do.  So process_swap_event
\* takes at most ten steps for each session of the response and one to end: the
\* part of TasksEnd that needs no fairness.
THEOREM TasksGoForward ==
  Spec => [][\A t \in Tasks :
               pc[t] # "idle" =>
                 /\ TaskStep(t) \/ TaskFault(t) => Forward(t)
                 /\ Forward(t) \/ NotBack(t)]_vars
<1>1. ASSUME Base, [Next]_vars, NEW t \in Tasks, pc[t] # "idle"
      PROVE  /\ TaskStep(t) \/ TaskFault(t) => Forward(t)
             /\ Forward(t) \/ NotBack(t)
  <2>1. CASE TaskStep(t) \/ TaskFault(t)
    BY <1>1, <2>1, OwnStep
  <2>2. CASE ~(TaskStep(t) \/ TaskFault(t))
    <3>1. CASE pc'[t] = pc[t] /\ cur'[t] = cur[t] /\ todo'[t] = todo[t]
      <4>1. CASE pc[t] = "approve"
        <5>1. PICK w \in Wallets : w = WalletOf[cur[t]]
          BY <1>1, <4>1, InSessionFacts DEF Base, InSession, BeforeCount
        <5>2. allowance[w] => allowance'[w]
          BY <1>1, ApprovalStays
        <5>3. /\ Ahead(t) = IF allowance[w] THEN 9 ELSE 10
              /\ Ahead(t)' = IF allowance'[w] THEN 9 ELSE 10
          BY <3>1, <4>1, <5>1 DEF Ahead
        <5>4. QED
          BY <2>2, <3>1, <5>2, <5>3 DEF NotBack
      <4>2. CASE pc[t] # "approve"
        <5>1. Ahead(t) \in Nat
          BY <4>2 DEF Ahead
        <5>2. Ahead(t)' = Ahead(t)
          BY <3>1, <4>2 DEF Ahead
        <5>3. QED
          BY <2>2, <3>1, <5>1, <5>2 DEF NotBack
      <4>3. QED
        BY <4>1, <4>2, <2>2
    <3>2. CASE pc[t] \notin Over /\ pc'[t] = "dead" /\ todo'[t] = {}
      BY <1>1, <2>2, <3>2 DEF Forward, Ahead, Base, TypeOK, Labels, InSession,
         BeforeCount, AfterCount
    <3>3. QED
      BY <1>1, <2>2, <3>1, <3>2, OthersStay
  <2>3. QED
    BY <2>1, <2>2
<1>2. Base /\ [Next]_vars =>
        [\A t \in Tasks :
           pc[t] # "idle" =>
             /\ TaskStep(t) \/ TaskFault(t) => Forward(t)
             /\ Forward(t) \/ NotBack(t)]_vars
  BY <1>1
<1>3. QED
  BY <1>2, BaseHolds, PTL DEF Spec

-----------------------------------------------------------------------------
\* The whole invariant, which the run engine_safety checks on its instance,
\* holds for every value of the constants.
THEOREM InvariantHolds == Spec => []EngineInv
<1>1. /\ Base /\ OneTradePerTrigger /\ Exclusive /\ OversoldOnlyIfRaced
      /\ CountedUp /\ CountedOnce /\ CompletedOnlyIfSold /\ RowsTellTheTruth
      /\ UncountedOnlyIfFailed /\ SalesKnown /\ InFlight
      => EngineInv
  BY DEF EngineInv
<1>2. QED
  BY <1>1, BaseHolds, OneTrade, ExclusiveHolds, CapHolds, CountedUpHolds,
     CountedOnceHolds, CompletedSold, RowsTruthful, UncountedFailed,
     SalesKnownHolds,
     InFlightHolds, PTL
=============================================================================
