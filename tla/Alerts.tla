-------------------------------- MODULE Alerts --------------------------------
(***************************************************************************)
(* The gateway's two background consumers (crates/api-gateway/src/main.rs, *)
(* lines 329-667): one records the deposits the indexer found and mails an *)
(* alert to the administrators and to the user, the other mails the owner  *)
(* of a wallet about each trade.  Each takes one message at a time.  A     *)
(* consumer whose subscription reports an error is over until the gateway  *)
(* is started again.                                                       *)
(***************************************************************************)
EXTENDS TradeEvents

CONSTANTS
  Deposits,      \* messages of DEPOSITS
  Undecodable,   \* messages that do not deserialize
  FromPool,      \* deposits sent by a tracked pool or one of its tokens
  Orphans,       \* messages whose user does not exist (any more)
  NotCommon,     \* trades of a wallet whose owner gets no alert
  NoMessage      \* a consumer has no message in hand

ASSUME AlertConstants ==
  /\ Trades \cap Deposits = {}
  /\ Undecodable \subseteq Trades \cup Deposits
  /\ FromPool \subseteq Deposits
  /\ Orphans \subseteq Trades \cup Deposits
  /\ NotCommon \subseteq Trades
  /\ NoMessage \notin Trades \cup Deposits

VARIABLES
  depMsg, depInflight,      \* the consumer api-gateway-deposit-alerts
  alertMsg, alertInflight,  \* the consumer api-gateway-trade-alerts
  dpc, deposit,             \* the deposit consumer's position and message
  tpc, trade,               \* the trade consumer's position and message
  rows,                     \* rows[d]: rows of table deposits for the deposit
  mails,                    \* mails[m]: alerts sent for the message, up to 2
  \* History variables, which no action reads
  excused,                  \* messages a statement failed for
  disturbed                 \* messages that may be delivered twice

depVars == <<depMsg, depInflight, dpc, deposit, rows>>
tradeVars == <<alertMsg, alertInflight, tpc, trade>>
alertVars == <<depVars, tradeVars, mails, excused, disturbed>>

DepositFeed == INSTANCE SwapStream WITH
                 Events <- Deposits, msg <- depMsg, inflight <- depInflight
AlertFeed == INSTANCE SwapStream WITH
               Events <- Trades, msg <- alertMsg, inflight <- alertInflight

MailCap == 2

AlertTypeOK ==
  /\ DepositFeed!StreamTypeOK
  /\ AlertFeed!StreamTypeOK
  /\ dpc \in {"receive", "check", "insert", "user", "admins", "mail", "ack",
              "ended"}
  /\ deposit \in Deposits \cup {NoMessage}
  /\ tpc \in {"receive", "user", "mail", "ack", "ended"}
  /\ trade \in Trades \cup {NoMessage}
  /\ rows \in [Deposits -> Nat]
  /\ mails \in [Trades \cup Deposits -> 0..MailCap]

\* Messages that are not waiting at the start do not exist in this behaviour.
AlertInit(waiting) ==
  /\ depMsg = [d \in Deposits |-> IF d \in waiting THEN "stored" ELSE "expired"]
  /\ alertMsg = [t \in Trades |-> IF t \in waiting THEN "stored" ELSE "expired"]
  /\ depInflight = {} /\ alertInflight = {}
  /\ dpc = "receive" /\ tpc = "receive"
  /\ deposit = NoMessage /\ trade = NoMessage
  /\ rows = [d \in Deposits |-> 0]
  /\ mails = [m \in Trades \cup Deposits |-> 0]
  /\ excused = {} /\ disturbed = {}

Mail(m) == mails' = [mails EXCEPT ![m] = IF @ < MailCap THEN @ + 1 ELSE @]

-----------------------------------------------------------------------------
(* run_deposit_alert_consumer                                              *)

\* Variant of ReceiveDeposit: the message is acknowledged first, as the bridge
\* of the WebSocket service does.
ReceiveDepositAckFirst(d) ==
  /\ dpc = "receive"
  /\ DepositFeed!Deliverable(d)
  /\ DepositFeed!AckMessage(d)
  /\ deposit' = d
  /\ dpc' = IF d \in Undecodable THEN "ack" ELSE "check"
  /\ UNCHANGED <<rows, tradeVars, mails, excused, disturbed, faults>>

ReceiveDeposit(d) ==
  /\ dpc = "receive"
  /\ DepositFeed!DeliverMessage(d)
  /\ deposit' = d
  /\ dpc' = IF d \in Undecodable THEN "ack" ELSE "check"
  /\ UNCHANGED <<rows, tradeVars, mails, excused, disturbed, faults>>

DepositStep(label) ==
  /\ dpc' = label
  /\ UNCHANGED <<depMsg, depInflight, deposit, tradeVars>>

\* Variant of CheckSender: a transfer that is no deposit is left unacknowledged.
CheckSenderContinues ==
  /\ dpc = "check"
  /\ IF deposit \in FromPool
       THEN dpc' = "receive" /\ deposit' = NoMessage
       ELSE dpc' = "insert" /\ UNCHANGED deposit
  /\ UNCHANGED <<depMsg, depInflight, tradeVars>>
  /\ UNCHANGED <<rows, mails, excused, disturbed, faults>>

\* Variant of CheckSender: the query compares the pool with the recipient.
CheckRecipient ==
  /\ dpc = "check"
  /\ DepositStep("insert")
  /\ UNCHANGED <<rows, mails, excused, disturbed, faults>>

\* is_tracked_pool_or_pair_transfer: proceeds of a sale are no deposit.  An
\* error of the query lets the transfer pass for one.
CheckSender ==
  /\ dpc = "check"
  /\ DepositStep(IF deposit \in FromPool THEN "ack" ELSE "insert")
  /\ UNCHANGED <<rows, mails, excused, disturbed, faults>>

CheckSenderFails ==
  /\ dpc = "check"
  /\ Fault
  /\ DepositStep("insert")
  /\ excused' = excused \cup {deposit}
  /\ UNCHANGED <<rows, mails, disturbed>>

\* INSERT ... ON CONFLICT (chain, tx_hash, log_index) DO NOTHING.  The foreign
\* keys refuse the row of a user who is gone.
InsertDeposit ==
  /\ dpc = "insert"
  /\ rows' = [rows EXCEPT ![deposit] =
                IF deposit \in Orphans \/ @ > 0 THEN @ ELSE @ + 1]
  /\ DepositStep("user")
  /\ UNCHANGED <<mails, excused, disturbed, faults>>

\* let _ = sqlx::query(...): any other error is ignored.
InsertDepositFails ==
  /\ dpc = "insert"
  /\ Fault
  /\ DepositStep("user")
  /\ excused' = excused \cup {deposit}
  /\ UNCHANGED <<rows, mails, disturbed>>

FindUser ==
  /\ dpc = "user"
  /\ DepositStep(IF deposit \in Orphans THEN "ack" ELSE "admins")
  /\ UNCHANGED <<rows, mails, excused, disturbed, faults>>

\* The user or the administrators cannot be looked up: no alert.
LookupFails ==
  /\ dpc \in {"user", "admins"}
  /\ Fault
  /\ DepositStep("ack")
  /\ excused' = excused \cup {deposit}
  /\ UNCHANGED <<rows, mails, disturbed>>

FindAdmins ==
  /\ dpc = "admins"
  /\ DepositStep("mail")
  /\ UNCHANGED <<rows, mails, excused, disturbed, faults>>

\* One alert to each administrator and one to the user; a mail that cannot be
\* delivered is only logged.
MailDeposit ==
  /\ dpc = "mail"
  /\ Mail(deposit)
  /\ DepositStep("ack")
  /\ UNCHANGED <<rows, excused, disturbed, faults>>

AckDeposit ==
  /\ dpc = "ack"
  /\ DepositFeed!AckMessage(deposit)
  /\ dpc' = "receive" /\ deposit' = NoMessage
  /\ UNCHANGED <<rows, tradeVars, mails, excused, disturbed, faults>>

AckDepositFails ==
  /\ dpc = "ack"
  /\ Fault
  /\ dpc' = "receive" /\ deposit' = NoMessage
  /\ disturbed' = disturbed \cup {deposit}
  /\ UNCHANGED <<depMsg, depInflight, rows, tradeVars, mails, excused>>

\* while let Some(Ok(msg)): an error of the subscription ends the task.
DepositConsumerEnds ==
  /\ dpc = "receive"
  /\ Fault
  /\ dpc' = "ended"
  /\ UNCHANGED <<depMsg, depInflight, deposit, rows, tradeVars, mails, excused,
                 disturbed>>

-----------------------------------------------------------------------------
(* run_trade_alert_consumer                                                *)

ReceiveTrade(t) ==
  /\ tpc = "receive"
  /\ AlertFeed!DeliverMessage(t)
  /\ trade' = t
  /\ tpc' = IF t \in Undecodable THEN "ack" ELSE "user"
  /\ UNCHANGED <<depVars, mails, excused, disturbed, faults>>

TradeStep(label) ==
  /\ tpc' = label
  /\ UNCHANGED <<alertMsg, alertInflight, trade, depVars>>

\* Variant of FindOwner: the query does not ask for the role.
FindOwnerOfAnyRole ==
  /\ tpc = "user"
  /\ TradeStep(IF trade \in Orphans THEN "ack" ELSE "mail")
  /\ UNCHANGED <<mails, excused, disturbed, faults>>

\* The wallet's owner: a common user with a verified address.
FindOwner ==
  /\ tpc = "user"
  /\ TradeStep(IF trade \in NotCommon \cup Orphans THEN "ack" ELSE "mail")
  /\ UNCHANGED <<mails, excused, disturbed, faults>>

FindOwnerFails ==
  /\ tpc = "user"
  /\ Fault
  /\ TradeStep("ack")
  /\ excused' = excused \cup {trade}
  /\ UNCHANGED <<mails, disturbed>>

MailTrade ==
  /\ tpc = "mail"
  /\ Mail(trade)
  /\ TradeStep("ack")
  /\ UNCHANGED <<excused, disturbed, faults>>

AckTrade ==
  /\ tpc = "ack"
  /\ AlertFeed!AckMessage(trade)
  /\ tpc' = "receive" /\ trade' = NoMessage
  /\ UNCHANGED <<depVars, mails, excused, disturbed, faults>>

AckTradeFails ==
  /\ tpc = "ack"
  /\ Fault
  /\ tpc' = "receive" /\ trade' = NoMessage
  /\ disturbed' = disturbed \cup {trade}
  /\ UNCHANGED <<alertMsg, alertInflight, depVars, mails, excused>>

TradeConsumerEnds ==
  /\ tpc = "receive"
  /\ Fault
  /\ tpc' = "ended"
  /\ UNCHANGED <<alertMsg, alertInflight, trade, depVars, mails, excused,
                 disturbed>>

-----------------------------------------------------------------------------
\* The gateway stops and is started again with both consumers.
GatewayRestart ==
  /\ Fault
  /\ dpc' = "receive" /\ deposit' = NoMessage
  /\ tpc' = "receive" /\ trade' = NoMessage
  /\ disturbed' = disturbed \cup ({deposit, trade} \ {NoMessage})
  /\ UNCHANGED <<depMsg, depInflight, alertMsg, alertInflight, rows, mails,
                 excused>>

\* The streams.  Sending mail may take longer than the ack wait.
DepositFeedStep(d) ==
  /\ \/ DepositFeed!AckWaitExpires(d) /\ UNCHANGED faults
     \/ DepositFeed!MaxAgeExpires(d) /\ Fault
  /\ disturbed' = disturbed \cup {d}
  /\ UNCHANGED <<dpc, deposit, rows, tradeVars, mails, excused>>

AlertFeedStep(t) ==
  /\ \/ AlertFeed!AckWaitExpires(t) /\ UNCHANGED faults
     \/ AlertFeed!MaxAgeExpires(t) /\ Fault
  /\ disturbed' = disturbed \cup {t}
  /\ UNCHANGED <<tpc, trade, depVars, mails, excused>>

DepositConsumer ==
  \/ \E d \in Deposits : ReceiveDeposit(d)
  \/ CheckSender \/ CheckSenderFails
  \/ InsertDeposit \/ InsertDepositFails
  \/ FindUser \/ FindAdmins \/ LookupFails
  \/ MailDeposit \/ AckDeposit \/ AckDepositFails

TradeConsumer ==
  \/ \E t \in Trades : ReceiveTrade(t)
  \/ FindOwner \/ FindOwnerFails \/ MailTrade
  \/ AckTrade \/ AckTradeFails

AlertNext ==
  \/ DepositConsumer \/ DepositConsumerEnds
  \/ TradeConsumer \/ TradeConsumerEnds
  \/ GatewayRestart
  \/ \E d \in Deposits : DepositFeedStep(d)
  \/ \E t \in Trades : AlertFeedStep(t)

\* Each consumer's task runs until its subscription ends, and overdue
\* acknowledgements lead to another delivery.
AlertFairness ==
  /\ WF_<<alertVars, faults>>(DepositConsumer)
  /\ WF_<<alertVars, faults>>(TradeConsumer)
  /\ \A d \in Deposits :
       WF_<<alertVars, faults>>(DepositFeed!AckWaitExpires(d) /\ DepositFeedStep(d))
-----------------------------------------------------------------------------
(* Properties.                                                             *)

\* However often a deposit is delivered, it has at most one row; and one that
\* has left the stream is in the table, unless it was no deposit, its user is
\* gone, or a statement failed for it.
DepositsAreBooked ==
  \A d \in Deposits :
    /\ rows[d] <= 1
    /\ depMsg[d] = "acked" /\ d \notin Undecodable \cup FromPool \cup Orphans
                           /\ d \notin excused
         => rows[d] = 1

\* Nobody is told of a deposit that the table does not have, unless a statement
\* failed; and proceeds of a sale are not announced as a deposit.
AlertsMatchTheBooks ==
  \A d \in Deposits :
    mails[d] > 0 /\ d \notin excused => rows[d] = 1 /\ d \notin FromPool

\* A trade that has left the stream undisturbed was announced exactly once to
\* an owner who gets alerts, and to nobody else.
TradesAnnouncedOnce ==
  \A t \in Trades :
    alertMsg[t] = "acked" /\ t \notin excused \cup disturbed
      => mails[t] = IF t \in Undecodable \cup NotCommon \cup Orphans
                      THEN 0 ELSE 1

\* Every deposit leaves the stream, unless the consumer's task ends.
DepositsAreHandled ==
  \A d \in Deposits :
    depMsg[d] = "stored" ~> (depMsg[d] # "stored" \/ dpc = "ended")
=============================================================================
