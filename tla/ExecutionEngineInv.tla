------------------------- MODULE ExecutionEngineInv -------------------------
(***************************************************************************)
(* The inductive invariant behind the safety properties of                 *)
(* ExecutionEngine, as a conjunction of named parts.                       *)
(***************************************************************************)
EXTENDS ExecutionEngine

\* A task has an event from its delivery on, a session exactly while it is
\* inside an iteration, and no session left to visit once it is over.
Control ==
  \A t \in Tasks :
    /\ ev[t] = NoEvent <=> pc[t] = "idle"
    /\ cur[t] \in Sessions <=> pc[t] \in InSession
    /\ cur[t] \notin todo[t]
    /\ pc[t] \in {"idle"} \cup Over => todo[t] = {}
    /\ pc[t] \notin {"publish", "complete", "sweep"} => verdict[t] = "none"

\* A session task t has not submitted a sale for: it never will get there, or
\* it has not got there yet.
Unsent(t, s) ==
  \/ pc[t] = "idle"
  \/ s \in todo[t]
  \/ cur[t] = s /\ pc[t] \in {"approve", "send"}

\* The transaction comes before the row, the row before the count.
Order ==
  \A t \in Tasks, s \in Sessions :
    /\ Unsent(t, s) => tx[<<t, s>>] = "none"
    /\ Unsent(t, s) \/ (cur[t] = s /\ pc[t] = "insert")
         => row[<<t, s>>] = "none"
    /\ row[<<t, s>>] = "none" => reason[<<t, s>>] = "none"
    /\ cur[t] = s /\ pc[t] \in {"count"} \cup AfterCount
         => row[<<t, s>>] # "none"

\* A reconciliation pass only holds rows that exist.
BatchRecorded == \A r \in Replicas : \A id \in batch[r] : row[id] # "none"

\* Where the tasks are, and what that says of the rows and transactions.  This
\* much is inductive by itself.
Base ==
  /\ TypeOK
  /\ Control
  /\ Order
  /\ BatchRecorded

\* A session that was never raced is held by at most one task, whose snapshot
\* is still current.
Exclusive ==
  \A s \in Sessions \ raced :
    /\ \A t, u \in Tasks : s \in Engaged(t) /\ s \in Engaged(u) => t = u
    /\ \A t \in Tasks : s \in Engaged(t) => snap[t][s] = amountSold[s]

\* amount_sold never falls below a snapshot, and includes a task's sale once
\* the task has counted it.
CountedUp ==
  \A t \in Tasks :
    /\ \A s \in Sessions : snap[t][s] <= amountSold[s]
    /\ pc[t] \in AfterCount
         => snap[t][cur[t]] + Amount(t, cur[t]) <= amountSold[cur[t]]
    /\ pc[t] = "complete" => SoldOut(t)

\* A task about to count a sale has not counted it before.
CountedOnce == \A t \in Tasks : pc[t] = "count" => CurId(t) \notin counted

\* A submitted sale has a row for its trigger, or its task is about to insert
\* it, lost the reply, failed or died.
SalesKnown ==
  \A t \in Tasks, s \in Sessions :
    tx[<<t, s>>] # "none" =>
      \/ <<t, s>> \in lost
      \/ TriggerConflict(s, ev[t])
      \/ pc[t] = "insert" /\ cur[t] = s
      \/ pc[t] \in {"unacked", "dead"}

\* A nonce that was fetched is at most the wallet's next one.
NoncesFetched ==
  \A t \in Tasks :
    pc[t] = "send" => txNonce[CurId(t)] <= walletNonce[WalletOf[cur[t]]]

\* A pending sale has exactly the wallet's next nonce.
PendingIsNext ==
  \A id \in Ids :
    tx[id] = "pending" => txNonce[id] = walletNonce[WalletOfId(id)]

\* The nonce invariants, inductive together.
InFlight == NoncesFetched /\ PendingIsNext /\ OneInFlightPerWallet

\* The inductive invariant.
EngineInv ==
  /\ Base
  /\ OneTradePerTrigger
  /\ Exclusive
  /\ OversoldOnlyIfRaced
  /\ CountedUp
  /\ CountedOnce
  /\ CompletedOnlyIfSold
  /\ RowsTellTheTruth
  /\ UncountedOnlyIfFailed
  /\ SalesKnown
  /\ InFlight
=============================================================================
