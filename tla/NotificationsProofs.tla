-------------------------- MODULE NotificationsProofs --------------------------
(***************************************************************************)
(* Proofs about Alerts, LiveUpdates and their composition in Notifications:*)
(* whatever is lost, delivered twice or restarted, a deposit has one row   *)
(* and only booked deposits are mailed about (DepositInv), an undisturbed  *)
(* trade is announced once (TradeInv), and every browser gets an unbroken  *)
(* sequence of its session's events, for any number of browsers and any    *)
(* capacity of the channels (ClientInv).                                   *)
(***************************************************************************)
EXTENDS Notifications, SequenceTheorems, TLAPS

-----------------------------------------------------------------------------
(* The gateway's consumers.                                                *)

\* A deposit that the table must have once its message is acknowledged.
Bookable(d) == d \notin Undecodable \cup FromPool \cup Orphans \cup excused

\* What the deposit consumer knows of its message at each label, and what the
\* stream and the mails imply for the table.
DepositInv ==
  /\ dpc \in {"check", "insert", "user", "admins", "mail", "ack"}
       => deposit \in Deposits
  /\ dpc \in {"check", "insert", "user", "admins", "mail"}
       => deposit \notin Undecodable
  /\ dpc \in {"insert", "user", "admins", "mail"}
       => deposit \notin FromPool \/ deposit \in excused
  /\ dpc \in {"user", "admins", "mail"}
       => deposit \in Orphans \cup excused \/ rows[deposit] = 1
  /\ dpc \in {"admins", "mail"} => deposit \notin Orphans
  /\ dpc = "ack" => ~Bookable(deposit) \/ rows[deposit] = 1
  /\ \A d \in Deposits :
       /\ rows[d] <= 1
       /\ depMsg[d] = "acked" => ~Bookable(d) \/ rows[d] = 1
       /\ mails[d] > 0 => d \in excused \/ (rows[d] = 1 /\ d \notin FromPool)

\* Trades that nobody is told of.
Silent == Undecodable \cup NotCommon \cup Orphans

\* Where an undisturbed trade is, and how often it was announced.
TradeInv ==
  /\ tpc \in {"user", "mail", "ack"} <=> trade \in Trades
  /\ tpc \in {"user", "mail"} => trade \notin Undecodable
  /\ tpc = "mail" => trade \notin Silent
  /\ \A t \in Trades : t \notin excused \cup disturbed =>
       /\ alertMsg[t] = "stored" /\ trade # t
            => mails[t] = 0 /\ t \notin alertInflight
       /\ trade = t => alertMsg[t] = "stored" /\ t \in alertInflight
       /\ trade = t /\ tpc # "ack" => mails[t] = 0
       /\ trade = t /\ tpc = "ack" => mails[t] = IF t \in Silent THEN 0 ELSE 1
       /\ alertMsg[t] = "acked" => mails[t] = IF t \in Silent THEN 0 ELSE 1

AlertInv == AlertTypeOK /\ DepositInv /\ TradeInv

LEMMA AlertStart == Init => AlertInv
<1> SUFFICES ASSUME Init PROVE AlertInv
  OBVIOUS
<1>1. PICK m : AlertInit(m)
  BY DEF Init
<1>2. AlertTypeOK
  BY <1>1 DEF AlertInit, AlertTypeOK, DepositFeed!StreamTypeOK, AlertFeed!StreamTypeOK,
              DepositFeed!MsgStates, AlertFeed!MsgStates, MailCap
<1>3. DepositInv
  BY <1>1 DEF AlertInit, DepositInv
<1>4. TradeInv
  BY <1>1, AlertConstants DEF AlertInit, TradeInv
<1>. QED
  BY <1>2, <1>3, <1>4 DEF AlertInv

\* A step that concerns a trade leaves the deposits' side as it is.
LEMMA DepositSide ==
  ASSUME DepositInv, UNCHANGED depVars, excused \subseteq excused',
         \A d \in Deposits : mails'[d] = mails[d]
  PROVE  DepositInv'
BY DEF DepositInv, depVars, Bookable

\* A step that concerns a deposit leaves the trades' side as it is.
LEMMA TradeSide ==
  ASSUME TradeInv, UNCHANGED tradeVars, excused \subseteq excused',
         disturbed \subseteq disturbed',
         \A t \in Trades : mails'[t] = mails[t]
  PROVE  TradeInv'
BY DEF TradeInv, tradeVars, Silent

\* The deposit consumer's steps.
LEMMA DepositStepKeeps ==
  ASSUME AlertInv, DepositConsumer \/ DepositConsumerEnds
  PROVE  AlertInv'
<1>. USE AlertConstants DEF AlertInv, AlertTypeOK, DepositFeed!StreamTypeOK,
       AlertFeed!StreamTypeOK, DepositFeed!MsgStates, AlertFeed!MsgStates, MailCap
<1>1. ASSUME NEW d \in Deposits, ReceiveDeposit(d)
      PROVE  AlertInv'
  <2>1. AlertTypeOK' /\ DepositInv'
    BY <1>1 DEF ReceiveDeposit, DepositFeed!DeliverMessage, DepositInv, Bookable, tradeVars
  <2>. QED
    BY <1>1, <2>1, TradeSide DEF ReceiveDeposit
<1>2. CASE CheckSender \/ CheckSenderFails
  <2>1. AlertTypeOK' /\ DepositInv'
    BY <1>2 DEF CheckSender, CheckSenderFails, DepositStep, DepositInv, Bookable, tradeVars
  <2>. QED
    BY <1>2, <2>1, TradeSide DEF CheckSender, CheckSenderFails, DepositStep
<1>3. CASE InsertDeposit \/ InsertDepositFails
  <2>1. AlertTypeOK' /\ DepositInv'
    BY <1>3 DEF InsertDeposit, InsertDepositFails, DepositStep, DepositInv, Bookable, tradeVars
  <2>. QED
    BY <1>3, <2>1, TradeSide DEF InsertDeposit, InsertDepositFails, DepositStep
<1>4. CASE FindUser \/ FindAdmins \/ LookupFails
  <2>1. AlertTypeOK' /\ DepositInv'
    BY <1>4 DEF FindUser, FindAdmins, LookupFails, DepositStep, DepositInv, Bookable, tradeVars
  <2>. QED
    BY <1>4, <2>1, TradeSide DEF FindUser, FindAdmins, LookupFails, DepositStep
<1>5. CASE MailDeposit
  <2>1. deposit \in Deposits /\ \A t \in Trades : mails'[t] = mails[t]
    BY <1>5 DEF MailDeposit, Mail, DepositInv
  <2>2. AlertTypeOK' /\ DepositInv'
    BY <1>5, <2>1 DEF MailDeposit, Mail, DepositStep, DepositInv, Bookable, tradeVars
  <2>. QED
    BY <1>5, <2>1, <2>2, TradeSide DEF MailDeposit, DepositStep
<1>6. CASE AckDeposit \/ AckDepositFails
  <2>1. AlertTypeOK' /\ DepositInv'
    BY <1>6 DEF AckDeposit, AckDepositFails, DepositFeed!AckMessage, DepositInv, Bookable,
                tradeVars
  <2>. QED
    BY <1>6, <2>1, TradeSide DEF AckDeposit, AckDepositFails
<1>7. CASE DepositConsumerEnds
  <2>1. AlertTypeOK' /\ DepositInv'
    BY <1>7 DEF DepositConsumerEnds, DepositInv, Bookable, tradeVars
  <2>. QED
    BY <1>7, <2>1, TradeSide DEF DepositConsumerEnds
<1>. QED
  BY <1>1, <1>2, <1>3, <1>4, <1>5, <1>6, <1>7 DEF DepositConsumer

\* The trade consumer's steps.
LEMMA TradeStepKeeps ==
  ASSUME AlertInv, TradeConsumer \/ TradeConsumerEnds
  PROVE  AlertInv'
<1>. USE AlertConstants DEF AlertInv, AlertTypeOK, DepositFeed!StreamTypeOK,
       AlertFeed!StreamTypeOK, DepositFeed!MsgStates, AlertFeed!MsgStates, MailCap
<1>1. ASSUME NEW t \in Trades, ReceiveTrade(t)
      PROVE  AlertInv'
  <2>1. AlertTypeOK' /\ TradeInv'
    BY <1>1 DEF ReceiveTrade, AlertFeed!DeliverMessage, AlertFeed!Deliverable, TradeInv,
                Silent, depVars
  <2>. QED
    BY <1>1, <2>1, DepositSide DEF ReceiveTrade
<1>2. CASE FindOwner \/ FindOwnerFails
  <2>1. AlertTypeOK' /\ TradeInv'
    BY <1>2 DEF FindOwner, FindOwnerFails, TradeStep, TradeInv, Silent, depVars
  <2>. QED
    BY <1>2, <2>1, DepositSide DEF FindOwner, FindOwnerFails, TradeStep
<1>3. CASE MailTrade
  <2>1. trade \in Trades /\ \A d \in Deposits : mails'[d] = mails[d]
    BY <1>3 DEF MailTrade, Mail, TradeInv
  <2>2. AlertTypeOK' /\ TradeInv'
    BY <1>3, <2>1 DEF MailTrade, Mail, TradeStep, TradeInv, Silent, depVars
  <2>. QED
    BY <1>3, <2>1, <2>2, DepositSide DEF MailTrade, TradeStep
<1>4. CASE AckTrade \/ AckTradeFails
  <2>1. AlertTypeOK' /\ TradeInv'
    BY <1>4 DEF AckTrade, AckTradeFails, AlertFeed!AckMessage, TradeInv, Silent, depVars
  <2>. QED
    BY <1>4, <2>1, DepositSide DEF AckTrade, AckTradeFails
<1>5. CASE TradeConsumerEnds
  <2>1. AlertTypeOK' /\ TradeInv'
    BY <1>5 DEF TradeConsumerEnds, TradeInv, Silent, depVars
  <2>. QED
    BY <1>5, <2>1, DepositSide DEF TradeConsumerEnds
<1>. QED
  BY <1>1, <1>2, <1>3, <1>4, <1>5 DEF TradeConsumer

\* Restarts, overdue acknowledgements and messages that grow too old.
LEMMA AlertFaultKeeps ==
  ASSUME AlertInv,
         \/ GatewayRestart
         \/ \E d \in Deposits : DepositFeedStep(d)
         \/ \E t \in Trades : AlertFeedStep(t)
  PROVE  AlertInv'
<1>. USE AlertConstants DEF AlertInv, AlertTypeOK, DepositFeed!StreamTypeOK,
       AlertFeed!StreamTypeOK, DepositFeed!MsgStates, AlertFeed!MsgStates, MailCap
<1>1. CASE GatewayRestart
  <2>1. AlertTypeOK' /\ DepositInv'
    BY <1>1 DEF GatewayRestart, DepositInv, Bookable
  <2>2. TradeInv'
    BY <1>1 DEF GatewayRestart, TradeInv, Silent
  <2>. QED
    BY <2>1, <2>2
<1>2. ASSUME NEW d \in Deposits, DepositFeedStep(d)
      PROVE  AlertInv'
  <2>1. AlertTypeOK' /\ DepositInv'
    BY <1>2 DEF DepositFeedStep, DepositFeed!AckWaitExpires, DepositFeed!MaxAgeExpires,
                DepositInv, Bookable, tradeVars
  <2>. QED
    BY <1>2, <2>1, TradeSide DEF DepositFeedStep
<1>3. ASSUME NEW t \in Trades, AlertFeedStep(t)
      PROVE  AlertInv'
  <2>1. AlertTypeOK' /\ TradeInv'
    BY <1>3 DEF AlertFeedStep, AlertFeed!AckWaitExpires, AlertFeed!MaxAgeExpires,
                TradeInv, Silent, depVars
  <2>. QED
    BY <1>3, <2>1, DepositSide DEF AlertFeedStep
<1>. QED
  BY <1>1, <1>2, <1>3

LEMMA AlertKeeps == AlertInv /\ [Next]_vars => AlertInv'
<1>1. ASSUME AlertInv, AlertNext PROVE AlertInv'
  BY <1>1, DepositStepKeeps, TradeStepKeeps, AlertFaultKeeps DEF AlertNext
<1>2. ASSUME AlertInv, UNCHANGED alertVars PROVE AlertInv'
  BY <1>2 DEF AlertInv, AlertTypeOK, DepositFeed!StreamTypeOK, AlertFeed!StreamTypeOK,
     DepositInv, TradeInv, Bookable, alertVars, depVars, tradeVars
<1>. QED
  BY <1>1, <1>2 DEF Next, vars

\* Both consumers: what they know of the message in hand, the table and the mails.
THEOREM AlertInvariant == Spec => []AlertInv
BY AlertStart, AlertKeeps, PTL DEF Spec

\* run_deposit_alert_consumer: a deposit has one row at most, and has it when it
\* has left the stream, unless there was a reason not to book it.
THEOREM EveryDepositBooked == Spec => []DepositsAreBooked
<1>1. AlertInv => DepositsAreBooked
  BY DEF AlertInv, DepositInv, Bookable, DepositsAreBooked
<1>. QED
  BY <1>1, AlertInvariant, PTL

\* run_deposit_alert_consumer: no mail about a deposit that is not in the table
\* or that is a sale's proceeds, unless a statement failed.
THEOREM MailsMatchRows == Spec => []AlertsMatchTheBooks
<1>1. AlertInv => AlertsMatchTheBooks
  BY DEF AlertInv, DepositInv, AlertsMatchTheBooks
<1>. QED
  BY <1>1, AlertInvariant, PTL

\* run_trade_alert_consumer: an undisturbed trade is announced exactly once to an
\* owner who gets alerts.
THEOREM OneMailPerTrade == Spec => []TradesAnnouncedOnce
<1>1. AlertInv => TradesAnnouncedOnce
  BY DEF AlertInv, TradeInv, Silent, TradesAnnouncedOnce
<1>. QED
  BY <1>1, AlertInvariant, PTL

-----------------------------------------------------------------------------
(* Sequences.                                                              *)

\* Append, element by element.
LEMMA Appended ==
  ASSUME NEW S, NEW s \in Seq(S), NEW x \in S
  PROVE  /\ Append(s, x) \in Seq(S)
         /\ Len(Append(s, x)) = Len(s) + 1
         /\ \A i \in 1..Len(s) : Append(s, x)[i] = s[i]
         /\ Append(s, x)[Len(s) + 1] = x
  OBVIOUS

\* A message that is sent to a receiver is due to it and in its buffer.
LEMMA AppendBoth ==
  ASSUME NEW S, NEW s \in Seq(S), NEW b \in Seq(S), NEW x \in S
  PROVE  Append(s \o b, x) = s \o Append(b, x)
<1>1. (s \o b) \o <<x>> = s \o (b \o <<x>>)
  BY ConcatAssociative
<1>2. Append(s \o b, x) = (s \o b) \o <<x>>
  BY AppendIsConcat, ConcatProperties
<1>3. Append(b, x) = b \o <<x>>
  BY AppendIsConcat
<1>. QED
  BY <1>1, <1>2, <1>3

\* A message that is forwarded moves from the front of the buffer.
LEMMA MoveFront ==
  ASSUME NEW S, NEW s \in Seq(S), NEW b \in Seq(S), b # <<>>
  PROVE  s \o b = Append(s, Head(b)) \o Tail(b)
<1>1. Head(b) \in S /\ Head(b) = b[1] /\ Tail(b) \in Seq(S) /\ Len(b) \in Nat \ {0}
  BY HeadTailProperties, EmptySeq
<1>2. b = <<Head(b)>> \o Tail(b)
  <2>1. SubSeq(b, 1, Len(b)) = <<b[1]>> \o SubSeq(b, 1 + 1, Len(b))
    BY <1>1, SubSeqRecursiveFirst
  <2>. QED
    BY <1>1, <2>1, SubSeqFull, TailIsSubSeq
<1>3. s \o (<<Head(b)>> \o Tail(b)) = (s \o <<Head(b)>>) \o Tail(b)
  BY <1>1, ConcatAssociative
<1>4. Append(s, Head(b)) = s \o <<Head(b)>>
  BY <1>1, AppendIsConcat
<1>. QED
  BY <1>2, <1>3, <1>4

-----------------------------------------------------------------------------
(* The WebSocket service.                                                  *)

\* The bridge has a message where it needs one, and the receivers of a channel
\* are those of the running forwarding tasks.
Subscribed ==
  /\ bridge \in {"ack", "send"} => hand \in Trades
  /\ \A s \in Campaigns, c \in Clients :
       c \in subscribers[s] <=> (forwarding[c] = TRUE /\ Watches[c] = s)

\* What one client has been sent, what waits for it and what it is due.
ClientInv(c) ==
  /\ forwarding[c] = TRUE => socket[c] = "open"
  /\ socket[c] = "open" =>
       /\ Len(seen[c]) <= Len(due[c])
       /\ \A i \in 1..Len(seen[c]) : due[c][i] = seen[c][i]
       /\ forwarding[c] = TRUE /\ lagged[c] = FALSE => due[c] = seen[c] \o buffer[c]
       /\ forwarding[c] = FALSE \/ lagged[c] = TRUE
            => Len(due[c]) > Len(seen[c]) + Capacity

LiveInv == LiveTypeOK /\ Subscribed /\ \A c \in Clients : ClientInv(c)

LEMMA LiveStart == Init => LiveInv
<1> SUFFICES ASSUME Init PROVE LiveInv
  OBVIOUS
<1>1. PICK m : LiveInit(m)
  BY DEF Init
<1>2. LiveTypeOK
  BY <1>1, LiveConstants DEF LiveInit, LiveTypeOK, Feed!StreamTypeOK, Feed!MsgStates
<1>3. Subscribed /\ \A c \in Clients : ClientInv(c)
  BY <1>1, LiveConstants DEF LiveInit, Subscribed, ClientInv
<1>. QED
  BY <1>2, <1>3 DEF LiveInv

\* A client that a step does not touch.
LEMMA Untouched ==
  ASSUME NEW c \in Clients, ClientInv(c),
         socket'[c] = socket[c], forwarding'[c] = forwarding[c], seen'[c] = seen[c],
         buffer'[c] = buffer[c], lagged'[c] = lagged[c], due'[c] = due[c]
  PROVE  ClientInv(c)'
BY DEF ClientInv

\* tx.send: every client that watches is due the message; it is in the buffer of
\* its receiver, or the receiver lags, or it has none any more.
LEMMA BroadcastKeeps ==
  ASSUME LiveInv, NEW m \in Messages, Broadcast(m), NEW c \in Clients,
         UNCHANGED <<socket, forwarding, seen>>
  PROVE  /\ ClientInv(c)'
         /\ buffer'[c] \in Seq(Messages) /\ Len(buffer'[c]) <= Capacity
         /\ due'[c] \in Seq(Messages) /\ lagged'[c] \in BOOLEAN
<1>. DEFINE receivers == IF CampaignOf[m] = NoCampaign THEN {} ELSE subscribers[CampaignOf[m]]
<1>1. /\ buffer[c] \in Seq(Messages) /\ due[c] \in Seq(Messages) /\ seen[c] \in Seq(Messages)
      /\ Len(buffer[c]) <= Capacity /\ lagged[c] \in BOOLEAN /\ forwarding[c] \in BOOLEAN
      /\ Capacity \in Nat \ {0} /\ ClientInv(c)
  BY LiveConstants DEF LiveInv, LiveTypeOK
<1>2. /\ Len(buffer[c]) \in Nat /\ Len(due[c]) \in Nat /\ Len(seen[c]) \in Nat
  BY <1>1
<1>7. socket'[c] = socket[c] /\ forwarding'[c] = forwarding[c] /\ seen'[c] = seen[c]
  OBVIOUS
<1>3. c \in receivers <=> (forwarding[c] = TRUE /\ Watches[c] = CampaignOf[m])
  BY LiveConstants DEF LiveInv, Subscribed, Messages
<1>4. /\ buffer'[c] = IF c \notin receivers THEN buffer[c]
                      ELSE IF Len(buffer[c]) < Capacity THEN Append(buffer[c], m)
                      ELSE Append(Tail(buffer[c]), m)
      /\ lagged'[c] = (lagged[c] \/ (c \in receivers /\ Len(buffer[c]) = Capacity))
      /\ due'[c] = IF socket[c] = "open" /\ Watches[c] = CampaignOf[m]
                     THEN Append(due[c], m) ELSE due[c]
  BY DEF Broadcast
<1>. HIDE DEF receivers
<1>5. CASE c \notin receivers
  <2>1. buffer'[c] = buffer[c] /\ lagged'[c] = lagged[c]
    BY <1>1, <1>4, <1>5
  <2>2. CASE due'[c] = due[c]
    BY <1>1, <2>1, <2>2, Untouched
  <2>3. CASE socket[c] = "open" /\ Watches[c] = CampaignOf[m] /\ due'[c] = Append(due[c], m)
    <3>1. forwarding[c] = FALSE
      BY <1>1, <1>3, <1>5, <2>3
    <3>2. /\ due'[c] \in Seq(Messages) /\ Len(due'[c]) = Len(due[c]) + 1
          /\ \A i \in 1..Len(due[c]) : due'[c][i] = due[c][i]
      BY <1>1, <2>3, Appended
    <3>3. ClientInv(c)'
      <4>1. \A i \in 1..Len(seen[c]) : due'[c][i] = seen[c][i]
        BY <1>1, <1>2, <2>3, <3>2 DEF ClientInv
      <4>2. Len(due[c]) > Len(seen[c]) + Capacity
        BY <1>1, <2>3, <3>1 DEF ClientInv
      <4>3. Len(due'[c]) > Len(seen[c]) + Capacity /\ Len(seen[c]) <= Len(due'[c])
        BY <1>1, <1>2, <3>2, <4>2
      <4>. QED
        BY <1>7, <2>3, <3>1, <4>1, <4>3 DEF ClientInv
    <3>. QED
      BY <1>1, <2>1, <3>2, <3>3
  <2>. QED
    BY <1>4, <2>2, <2>3
<1>6. CASE c \in receivers
  <2>1. /\ forwarding[c] = TRUE /\ socket[c] = "open" /\ due'[c] = Append(due[c], m)
    BY <1>1, <1>3, <1>4, <1>6 DEF ClientInv
  <2>2. /\ due'[c] \in Seq(Messages) /\ Len(due'[c]) = Len(due[c]) + 1
        /\ \A i \in 1..Len(due[c]) : due'[c][i] = due[c][i]
    BY <1>1, <2>1, Appended
  <2>5. /\ \A i \in 1..Len(seen[c]) : due'[c][i] = seen[c][i]
        /\ Len(seen[c]) <= Len(due'[c])
    <3>1. Len(seen[c]) <= Len(due[c]) /\ \A i \in 1..Len(seen[c]) : due[c][i] = seen[c][i]
      BY <1>1, <2>1 DEF ClientInv
    <3>. QED
      BY <1>2, <2>2, <3>1
  <2>3. CASE Len(buffer[c]) < Capacity
    <3>1. buffer'[c] = Append(buffer[c], m) /\ lagged'[c] = lagged[c]
      BY <1>1, <1>2, <1>4, <1>6, <2>3
    <3>2. buffer'[c] \in Seq(Messages) /\ Len(buffer'[c]) = Len(buffer[c]) + 1
      BY <1>1, <3>1, Appended
    <3>3. lagged[c] = FALSE => due'[c] = seen[c] \o buffer'[c]
      <4>1. SUFFICES ASSUME lagged[c] = FALSE PROVE due'[c] = seen[c] \o buffer'[c]
        OBVIOUS
      <4>2. due[c] = seen[c] \o buffer[c]
        BY <1>1, <2>1, <4>1 DEF ClientInv
      <4>3. seen[c] \in Seq(Messages) /\ buffer[c] \in Seq(Messages)
        BY <1>1
      <4>4. Append(due[c], m) = seen[c] \o Append(buffer[c], m)
        <5>. DEFINE s == seen[c]
                    b == buffer[c]
                    d == due[c]
        <5>1. s \in Seq(Messages) /\ b \in Seq(Messages) /\ m \in Messages /\ d = s \o b
          BY <4>2, <4>3
        <5>. HIDE DEF s, b, d
        <5>2. Append(s \o b, m) = s \o Append(b, m)
          BY <5>1, AppendBoth
        <5>3. Append(d, m) = s \o Append(b, m)
          BY <5>1, <5>2
        <5>. QED
          BY <5>3 DEF s, b, d
      <4>. QED
        BY <2>1, <3>1, <4>4
    <3>4. ClientInv(c)'
      <4>1. lagged[c] = TRUE => Len(due'[c]) > Len(seen[c]) + Capacity
        BY <1>1, <1>2, <2>1, <2>2 DEF ClientInv
      <4>. QED
        BY <1>1, <1>7, <2>1, <2>5, <3>1, <3>3, <4>1 DEF ClientInv
    <3>. QED
      BY <1>1, <1>2, <2>2, <2>3, <3>1, <3>2, <3>4
  <2>4. CASE Len(buffer[c]) = Capacity
    <3>1. buffer'[c] = Append(Tail(buffer[c]), m) /\ lagged'[c] = TRUE
      <4>1. ~(Len(buffer[c]) < Capacity)
        BY <1>1, <2>4
      <4>. QED
        BY <1>1, <1>4, <1>6, <2>4, <4>1
    <3>2. Tail(buffer[c]) \in Seq(Messages) /\ Len(Tail(buffer[c])) = Len(buffer[c]) - 1
      BY <1>1, <1>2, <2>4, HeadTailProperties
    <3>3. buffer'[c] \in Seq(Messages) /\ Len(buffer'[c]) = Capacity
      BY <1>2, <2>4, <3>1, <3>2, Appended
    <3>4. lagged[c] = FALSE => Len(due[c]) = Len(seen[c]) + Len(buffer[c])
      <4>1. lagged[c] = FALSE => due[c] = seen[c] \o buffer[c]
        BY <1>1, <2>1 DEF ClientInv
      <4>2. Len(seen[c] \o buffer[c]) = Len(seen[c]) + Len(buffer[c])
        BY <1>1, ConcatProperties
      <4>. QED
        BY <4>1, <4>2
    <3>5. Len(due'[c]) > Len(seen[c]) + Capacity
      BY <1>1, <1>2, <2>1, <2>2, <2>4, <3>4 DEF ClientInv
    <3>6. ClientInv(c)'
      BY <1>7, <2>1, <2>5, <3>1, <3>5 DEF ClientInv
    <3>7. Len(buffer'[c]) <= Capacity /\ lagged'[c] \in BOOLEAN
      <4>1. Len(buffer'[c]) <= Capacity
        BY <1>1, <3>3
      <4>. QED
        BY <3>1, <4>1
    <3>. QED
      BY <2>2, <3>3, <3>6, <3>7
  <2>. QED
    BY <1>1, <1>2, <2>3, <2>4
<1>. QED
  BY <1>5, <1>6

\* The steps that broadcast.
LEMMA SendKeeps ==
  ASSUME LiveInv, BridgeSends \/ \E m \in Pushes : Push(m)
  PROVE  LiveInv'
<1>1. PICK m \in Messages : Broadcast(m)
  BY DEF LiveInv, Subscribed, BridgeSends, Push, Messages
<1>2. UNCHANGED <<socket, forwarding, seen, subscribers, feedVars>>
  BY DEF BridgeSends, Push
<1>3. \A c \in Clients :
        /\ ClientInv(c)'
        /\ buffer'[c] \in Seq(Messages) /\ Len(buffer'[c]) <= Capacity
        /\ due'[c] \in Seq(Messages) /\ lagged'[c] \in BOOLEAN
  BY <1>1, <1>2, BroadcastKeeps
<1>4. /\ buffer' \in [Clients -> Seq(Messages)] /\ due' \in [Clients -> Seq(Messages)]
      /\ lagged' \in [Clients -> BOOLEAN]
  BY <1>1, <1>3 DEF Broadcast
<1>5. /\ bridge' \in {"start", "receive", "ack", "send", "ended"}
      /\ hand' \in Trades \cup {NoTrade} /\ pushed' \subseteq Pushes
      /\ bridge' \in {"ack", "send"} => hand' \in Trades
  BY DEF LiveInv, LiveTypeOK, Subscribed, BridgeSends, Push, bridgeVars
<1>6. LiveTypeOK'
  BY <1>2, <1>3, <1>4, <1>5 DEF LiveInv, LiveTypeOK, Feed!StreamTypeOK, feedVars
<1>7. Subscribed'
  BY <1>2, <1>5 DEF LiveInv, Subscribed
<1>. QED
  BY <1>3, <1>6, <1>7 DEF LiveInv

\* The other steps of the bridge, and the stream's.
LEMMA BridgeKeeps ==
  ASSUME LiveInv,
         \/ BridgeStarts \/ BridgeEnds \/ \E t \in Trades : BridgeReceives(t)
         \/ BridgeAcks \/ BridgeAckFails \/ \E t \in Trades : FeedStep(t)
  PROVE  LiveInv'
<1>1. UNCHANGED <<pushed, subscribers, clientVars, due>>
  BY DEF BridgeStarts, BridgeEnds, BridgeReceives, BridgeAcks, BridgeAckFails, FeedStep
<1>2. /\ bridge' \in {"start", "receive", "ack", "send", "ended"}
      /\ hand' \in Trades \cup {NoTrade}
      /\ bridge' \in {"ack", "send"} => hand' \in Trades
  BY DEF LiveInv, LiveTypeOK, Subscribed, BridgeStarts, BridgeEnds, BridgeReceives,
         BridgeAcks, BridgeAckFails, FeedStep, bridgeVars
<1>3. Feed!StreamTypeOK'
  BY DEF LiveInv, LiveTypeOK, Feed!StreamTypeOK, Feed!MsgStates, BridgeStarts, BridgeEnds,
         BridgeReceives, BridgeAcks, BridgeAckFails, FeedStep, Feed!DeliverMessage,
         Feed!AckMessage, Feed!AckWaitExpires, Feed!MaxAgeExpires, feedVars
<1>4. LiveTypeOK'
  BY <1>1, <1>2, <1>3 DEF LiveInv, LiveTypeOK, clientVars
<1>5. Subscribed'
  BY <1>1, <1>2 DEF LiveInv, Subscribed, clientVars
<1>6. \A c \in Clients : ClientInv(c)'
  BY <1>1, Untouched DEF LiveInv, clientVars
<1>. QED
  BY <1>4, <1>5, <1>6 DEF LiveInv

\* A connection opens or closes.
LEMMA ConnectionKeeps ==
  ASSUME LiveInv, NEW c \in Clients, ClientConnects(c) \/ ClientCloses(c)
  PROVE  LiveInv'
<1>1. /\ UNCHANGED <<feedVars, bridgeVars, pushed>>
      /\ buffer' = [buffer EXCEPT ![c] = <<>>] /\ lagged' = [lagged EXCEPT ![c] = FALSE]
      /\ seen' = [seen EXCEPT ![c] = <<>>] /\ due' = [due EXCEPT ![c] = <<>>]
  BY DEF ClientConnects, ClientCloses
<1>2. \/ /\ socket' = [socket EXCEPT ![c] = "open"]
         /\ forwarding' = [forwarding EXCEPT ![c] = TRUE]
         /\ subscribers' = [subscribers EXCEPT ![Watches[c]] = @ \cup {c}]
      \/ /\ socket' = [socket EXCEPT ![c] = "closed"]
         /\ forwarding' = [forwarding EXCEPT ![c] = FALSE]
         /\ subscribers' = [subscribers EXCEPT ![Watches[c]] = @ \ {c}]
  BY DEF ClientConnects, ClientCloses
<1>. USE LiveConstants
<1>3. LiveTypeOK'
  <2>1. /\ buffer' \in [Clients -> Seq(Messages)] /\ due' \in [Clients -> Seq(Messages)]
        /\ seen' \in [Clients -> Seq(Messages)] /\ lagged' \in [Clients -> BOOLEAN]
        /\ \A d \in Clients : Len(buffer'[d]) <= Capacity
    BY <1>1 DEF LiveInv, LiveTypeOK
  <2>2. /\ socket' \in [Clients -> {"closed", "open"}] /\ forwarding' \in [Clients -> BOOLEAN]
        /\ subscribers' \in [Campaigns -> SUBSET Clients]
    <3>1. Watches[c] \in Campaigns /\ subscribers \in [Campaigns -> SUBSET Clients]
          /\ socket \in [Clients -> {"closed", "open"}] /\ forwarding \in [Clients -> BOOLEAN]
      BY DEF LiveInv, LiveTypeOK
    <3>2. subscribers' \in [Campaigns -> SUBSET Clients]
      BY <1>2, <3>1
    <3>3. socket' \in [Clients -> {"closed", "open"}]
      BY <1>2, <3>1
    <3>4. forwarding' \in [Clients -> BOOLEAN]
      BY <1>2, <3>1
    <3>. QED
      BY <3>2, <3>3, <3>4
  <2>. QED
    BY <1>1, <2>1, <2>2 DEF LiveInv, LiveTypeOK, Feed!StreamTypeOK, feedVars, bridgeVars
<1>4. Subscribed'
  <2>1. bridge' \in {"ack", "send"} => hand' \in Trades
    BY <1>1 DEF LiveInv, Subscribed, bridgeVars
  <2>2. ASSUME NEW s \in Campaigns, NEW d \in Clients
        PROVE  d \in subscribers'[s] <=> (forwarding'[d] = TRUE /\ Watches[d] = s)
    <3>1. /\ d \in subscribers[s] <=> (forwarding[d] = TRUE /\ Watches[d] = s)
          /\ subscribers \in [Campaigns -> SUBSET Clients]
          /\ forwarding \in [Clients -> BOOLEAN] /\ Watches[c] \in Campaigns
      BY DEF LiveInv, LiveTypeOK, Subscribed
    <3>2. CASE /\ forwarding' = [forwarding EXCEPT ![c] = TRUE]
               /\ subscribers' = [subscribers EXCEPT ![Watches[c]] = @ \cup {c}]
      BY <3>1, <3>2
    <3>3. CASE /\ forwarding' = [forwarding EXCEPT ![c] = FALSE]
               /\ subscribers' = [subscribers EXCEPT ![Watches[c]] = @ \ {c}]
      BY <3>1, <3>3
    <3>. QED
      BY <1>2, <3>2, <3>3
  <2>. QED
    BY <2>1, <2>2 DEF Subscribed
<1>5. ASSUME NEW d \in Clients PROVE ClientInv(d)'
  <2>1. CASE d = c
    <3>1. /\ buffer'[d] = <<>> /\ lagged'[d] = FALSE /\ seen'[d] = <<>> /\ due'[d] = <<>>
          /\ \/ socket'[d] = "open" /\ forwarding'[d] = TRUE
             \/ socket'[d] = "closed" /\ forwarding'[d] = FALSE
      BY <1>1, <1>2, <2>1 DEF LiveInv, LiveTypeOK
    <3>. QED
      BY <3>1 DEF ClientInv
  <2>2. CASE d # c
    BY <1>1, <1>2, <2>2, Untouched DEF LiveInv, LiveTypeOK
  <2>. QED
    BY <2>1, <2>2
<1>. QED
  BY <1>3, <1>4, <1>5 DEF LiveInv

\* A forwarding task sends a message or ends.
LEMMA ForwardKeeps ==
  ASSUME LiveInv, NEW c \in Clients, ForwardStep(c)
  PROVE  LiveInv'
<1>0. /\ buffer[c] \in Seq(Messages) /\ due[c] \in Seq(Messages) /\ seen[c] \in Seq(Messages)
      /\ Len(buffer[c]) <= Capacity /\ lagged[c] \in BOOLEAN /\ forwarding[c] \in BOOLEAN
      /\ Capacity \in Nat \ {0} /\ ClientInv(c)
      /\ Len(buffer[c]) \in Nat /\ Len(due[c]) \in Nat /\ Len(seen[c]) \in Nat
  BY LiveConstants DEF LiveInv, LiveTypeOK
<1>1. CASE Forward(c)
  <2>1. /\ forwarding[c] = TRUE /\ lagged[c] = FALSE /\ buffer[c] # <<>>
        /\ seen' = [seen EXCEPT ![c] = Append(@, Head(buffer[c]))]
        /\ buffer' = [buffer EXCEPT ![c] = Tail(@)]
        /\ UNCHANGED <<feedVars, bridgeVars, pushed, subscribers, socket, forwarding,
                       lagged, due>>
    BY <1>0, <1>1 DEF Forward
  <2>2. /\ Head(buffer[c]) \in Messages /\ Tail(buffer[c]) \in Seq(Messages)
        /\ Len(Tail(buffer[c])) = Len(buffer[c]) - 1 /\ Len(buffer[c]) > 0
    BY <1>0, <2>1, HeadTailProperties, EmptySeq
  <2>3. /\ seen'[c] = Append(seen[c], Head(buffer[c])) /\ buffer'[c] = Tail(buffer[c])
    BY <2>1 DEF LiveInv, LiveTypeOK
  <2>4. seen'[c] \in Seq(Messages) /\ Len(seen'[c]) = Len(seen[c]) + 1
    BY <1>0, <2>2, <2>3, Appended
  <2>5. LiveTypeOK'
    <3>1. seen' \in [Clients -> Seq(Messages)] /\ buffer' \in [Clients -> Seq(Messages)]
      BY <2>1, <2>2, <2>3, <2>4 DEF LiveInv, LiveTypeOK
    <3>2. \A d \in Clients : Len(buffer'[d]) <= Capacity
      BY <1>0, <2>1, <2>2, <2>3 DEF LiveInv, LiveTypeOK
    <3>. QED
      BY <2>1, <3>1, <3>2 DEF LiveInv, LiveTypeOK, Feed!StreamTypeOK, feedVars, bridgeVars
  <2>6. Subscribed'
    BY <2>1 DEF LiveInv, Subscribed, bridgeVars
  <2>7. ClientInv(c)'
    <3>1. socket[c] = "open" /\ due[c] = seen[c] \o buffer[c]
      BY <1>0, <2>1 DEF ClientInv
    <3>2. due'[c] = seen'[c] \o buffer'[c]
      <4>1. seen[c] \o buffer[c] = Append(seen[c], Head(buffer[c])) \o Tail(buffer[c])
        BY <1>0, <2>1, MoveFront, Zenon
      <4>2. due'[c] = due[c]
        BY <2>1
      <4>. QED
        BY <2>3, <3>1, <4>1, <4>2
    <3>3. /\ Len(seen[c]) <= Len(due[c]) /\ \A i \in 1..Len(seen[c]) : due[c][i] = seen[c][i]
          /\ Len(due[c]) = Len(seen[c]) + Len(buffer[c])
          /\ due[c][Len(seen[c]) + 1] = buffer[c][1]
      <4>1. /\ Len(seen[c] \o buffer[c]) = Len(seen[c]) + Len(buffer[c])
            /\ \A i \in 1..Len(seen[c]) + Len(buffer[c]) : (seen[c] \o buffer[c])[i] =
                 IF i <= Len(seen[c]) THEN seen[c][i] ELSE buffer[c][i - Len(seen[c])]
        BY <1>0, ConcatProperties, Zenon
      <4>2. /\ Len(seen[c]) + 1 \in 1..Len(seen[c]) + Len(buffer[c])
            /\ ~(Len(seen[c]) + 1 <= Len(seen[c])) /\ (Len(seen[c]) + 1) - Len(seen[c]) = 1
        <5>1. Len(seen[c]) \in Nat /\ Len(buffer[c]) \in Nat /\ Len(buffer[c]) > 0
          BY <1>0, <2>2
        <5>2. \A k, n \in Nat : n > 0 => /\ k + 1 \in 1..k + n
                                        /\ ~(k + 1 <= k) /\ (k + 1) - k = 1
          OBVIOUS
        <5>. QED
          BY <5>1, <5>2, Zenon
      <4>3. due[c][Len(seen[c]) + 1] = buffer[c][1]
        BY <3>1, <4>1, <4>2
      <4>. QED
        BY <1>0, <3>1, <4>1, <4>3 DEF ClientInv
    <3>4. /\ \A i \in 1..Len(seen[c]) : seen'[c][i] = seen[c][i]
          /\ seen'[c][Len(seen[c]) + 1] = buffer[c][1]
      BY <1>0, <2>1, <2>2, <2>3, Appended
    <3>5. \A i \in 1..Len(seen'[c]) : due[c][i] = seen'[c][i]
      <4>1. SUFFICES ASSUME NEW i \in 1..Len(seen'[c]) PROVE due[c][i] = seen'[c][i]
        OBVIOUS
      <4>2. i \in 1..Len(seen[c]) \/ i = Len(seen[c]) + 1
        BY <1>0, <2>4
      <4>. QED
        BY <3>3, <3>4, <4>2
    <3>6. Len(seen'[c]) <= Len(due[c])
      BY <1>0, <2>2, <2>4, <3>3
    <3>7. due'[c] = due[c] /\ lagged'[c] = FALSE /\ forwarding'[c] = TRUE /\ socket'[c] = "open"
      BY <2>1, <3>1
    <3>. QED
      BY <3>2, <3>5, <3>6, <3>7 DEF ClientInv
  <2>8. \A d \in Clients \ {c} : ClientInv(d)'
    BY <2>1, Untouched DEF LiveInv, LiveTypeOK
  <2>. QED
    BY <2>5, <2>6, <2>7, <2>8 DEF LiveInv
<1>2. CASE ForwardLagged(c)
  <2>1. /\ forwarding[c] = TRUE /\ lagged[c] = TRUE
        /\ forwarding' = [forwarding EXCEPT ![c] = FALSE]
        /\ subscribers' = [subscribers EXCEPT ![Watches[c]] = @ \ {c}]
        /\ buffer' = [buffer EXCEPT ![c] = <<>>]
        /\ UNCHANGED <<feedVars, bridgeVars, pushed, socket, lagged, seen, due>>
    BY <1>0, <1>2 DEF ForwardLagged
  <2>2. LiveTypeOK'
    <3>1. /\ buffer' \in [Clients -> Seq(Messages)]
          /\ \A d \in Clients : Len(buffer'[d]) <= Capacity
      BY <1>0, <2>1 DEF LiveInv, LiveTypeOK
    <3>2. /\ forwarding' \in [Clients -> BOOLEAN]
          /\ subscribers' \in [Campaigns -> SUBSET Clients]
      BY <2>1, LiveConstants DEF LiveInv, LiveTypeOK
    <3>. QED
      BY <2>1, <3>1, <3>2 DEF LiveInv, LiveTypeOK, Feed!StreamTypeOK, feedVars, bridgeVars
  <2>3. Subscribed'
    BY <2>1, LiveConstants DEF LiveInv, LiveTypeOK, Subscribed, bridgeVars
  <2>4. ClientInv(c)'
    <3>1. forwarding'[c] = FALSE
      BY <2>1 DEF LiveInv, LiveTypeOK
    <3>. QED
      BY <1>0, <2>1, <3>1 DEF ClientInv
  <2>5. \A d \in Clients \ {c} : ClientInv(d)'
    BY <2>1, Untouched DEF LiveInv, LiveTypeOK
  <2>. QED
    BY <2>2, <2>3, <2>4, <2>5 DEF LiveInv
<1>. QED
  BY <1>1, <1>2 DEF ForwardStep

LEMMA WsRestartKeeps ==
  ASSUME LiveInv, WsRestart
  PROVE  LiveInv'
<1>1. LiveTypeOK'
  BY LiveConstants DEF LiveInv, LiveTypeOK, WsRestart, Feed!StreamTypeOK, feedVars
<1>2. Subscribed' /\ \A c \in Clients : ClientInv(c)'
  BY LiveConstants DEF LiveInv, Subscribed, ClientInv, WsRestart
<1>. QED
  BY <1>1, <1>2 DEF LiveInv

LEMMA LiveKeeps == LiveInv /\ [Next]_vars => LiveInv'
<1>1. ASSUME LiveInv, LiveNext PROVE LiveInv'
  BY <1>1, SendKeeps, BridgeKeeps, ConnectionKeeps, ForwardKeeps, WsRestartKeeps
     DEF LiveNext, BridgeStep
<1>2. ASSUME LiveInv, UNCHANGED liveVars PROVE LiveInv'
  <2>1. LiveTypeOK' /\ Subscribed'
    BY <1>2 DEF LiveInv, LiveTypeOK, Feed!StreamTypeOK, Subscribed, liveVars, feedVars,
                bridgeVars, clientVars
  <2>2. \A c \in Clients : ClientInv(c)'
    BY <1>2, Untouched DEF LiveInv, liveVars, clientVars
  <2>. QED
    BY <2>1, <2>2 DEF LiveInv
<1>. QED
  BY <1>1, <1>2 DEF Next, vars

\* Who has a receiver, and what each client has and is due.
THEOREM LiveInvariant == Spec => []LiveInv
BY LiveStart, LiveKeeps, PTL DEF Spec

\* handle_ws and the bridge: an open connection gets its session's events in
\* order and without a gap.
THEOREM NoGaps == Spec => []StreamsWithoutGaps
<1>1. ASSUME LiveInv, NEW c \in Clients, socket[c] = "open"
      PROVE  /\ Len(seen[c]) <= Len(due[c])
             /\ SubSeq(due[c], 1, Len(seen[c])) = seen[c]
             /\ forwarding[c] /\ ~lagged[c] => due[c] = seen[c] \o buffer[c]
  <2>1. /\ due[c] \in Seq(Messages) /\ seen[c] \in Seq(Messages) /\ ClientInv(c)
        /\ Len(due[c]) \in Nat /\ Len(seen[c]) \in Nat
        /\ forwarding[c] \in BOOLEAN /\ lagged[c] \in BOOLEAN
    BY <1>1 DEF LiveInv, LiveTypeOK
  <2>2. /\ Len(seen[c]) <= Len(due[c])
        /\ \A i \in 1..Len(seen[c]) : due[c][i] = seen[c][i]
    BY <1>1, <2>1 DEF ClientInv
  <2>3. SubSeq(due[c], 1, Len(seen[c])) = seen[c]
    <3>. DEFINE part == SubSeq(due[c], 1, Len(seen[c]))
    <3>1. \A i \in 1..Len(seen[c]) : due[c][i] \in Messages
      BY <2>1, <2>2
    <3>2. /\ part \in Seq(Messages)
          /\ Len(part) = IF 1 <= Len(seen[c]) THEN Len(seen[c]) - 1 + 1 ELSE 0
          /\ \A i \in 1..Len(seen[c]) - 1 + 1 : part[i] = due[c][1 + i - 1]
      BY <2>1, <3>1, SubSeqProperties
    <3>. HIDE DEF part
    <3>3. Len(part) = Len(seen[c]) /\ \A i \in 1..Len(part) : part[i] = seen[c][i]
      BY <2>1, <2>2, <3>2
    <3>4. part = seen[c]
      BY <2>1, <3>2, <3>3, SeqEqual
    <3>. QED
      BY <3>4 DEF part
  <2>4. forwarding[c] /\ ~lagged[c] => due[c] = seen[c] \o buffer[c]
    BY <1>1, <2>1 DEF ClientInv
  <2>. QED
    BY <2>2, <2>3, <2>4
<1>2. LiveInv => StreamsWithoutGaps
  BY <1>1 DEF StreamsWithoutGaps
<1>. QED
  BY <1>2, LiveInvariant, PTL

\* send_task: only a client that was more than Capacity events behind is left
\* without events on an open connection.
THEOREM OnlyLagStalls == Spec => []StalledOnlyByLag
<1>1. ASSUME LiveInv, NEW c \in Clients, socket[c] = "open", ~forwarding[c]
      PROVE  Len(due[c]) > Len(seen[c]) + Capacity
  <2>1. forwarding[c] = FALSE /\ ClientInv(c)
    BY <1>1 DEF LiveInv, LiveTypeOK
  <2>. QED
    BY <1>1, <2>1 DEF ClientInv
<1>2. LiveInv => StalledOnlyByLag
  BY <1>1 DEF StalledOnlyByLag
<1>. QED
  BY <1>2, LiveInvariant, PTL
-----------------------------------------------------------------------------
(* The composition.                                                        *)

\* Faults are counted, and nothing else touches the count.
LEMMA FaultsCounted == [Next]_vars => faults' = faults \/ Fault
<1>1. LiveNext => faults' = faults \/ Fault
  <2>1. ASSUME NEW m \in Pushes, Push(m) PROVE faults' = faults
    BY <2>1 DEF Push
  <2>2. BridgeStep \/ BridgeEnds => faults' = faults \/ Fault
    BY DEF BridgeStep, BridgeStarts, BridgeReceives, BridgeAcks, BridgeAckFails,
           BridgeSends, BridgeEnds
  <2>3. ASSUME NEW c \in Clients,
               ClientConnects(c) \/ ClientCloses(c) \/ ForwardStep(c)
        PROVE  faults' = faults
    BY <2>3 DEF ClientConnects, ClientCloses, ForwardStep, Forward, ForwardLagged
  <2>4. WsRestart => Fault
    BY DEF WsRestart
  <2>5. ASSUME NEW t \in Trades, FeedStep(t) PROVE faults' = faults \/ Fault
    BY <2>5 DEF FeedStep
  <2>. QED
    BY <2>1, <2>2, <2>3, <2>4, <2>5 DEF LiveNext
<1>2. AlertNext => faults' = faults \/ Fault
  <2>1. DepositConsumer \/ DepositConsumerEnds => faults' = faults \/ Fault
    BY DEF DepositConsumer, DepositConsumerEnds, ReceiveDeposit, CheckSender,
           CheckSenderFails, InsertDeposit, InsertDepositFails, FindUser, FindAdmins,
           LookupFails, MailDeposit, AckDeposit, AckDepositFails
  <2>2. TradeConsumer \/ TradeConsumerEnds => faults' = faults \/ Fault
    BY DEF TradeConsumer, TradeConsumerEnds, ReceiveTrade, FindOwner, FindOwnerFails,
           MailTrade, AckTrade, AckTradeFails
  <2>3. GatewayRestart => Fault
    BY DEF GatewayRestart
  <2>4. ASSUME NEW d \in Deposits, DepositFeedStep(d) PROVE faults' = faults \/ Fault
    BY <2>4 DEF DepositFeedStep
  <2>5. ASSUME NEW t \in Trades, AlertFeedStep(t) PROVE faults' = faults \/ Fault
    BY <2>5 DEF AlertFeedStep
  <2>. QED
    BY <2>1, <2>2, <2>3, <2>4, <2>5 DEF AlertNext
<1>. QED
  BY <1>1, <1>2 DEF Next, vars

\* The WebSocket service and the gateway's consumers side by side: every value of
\* both keeps its type, no channel holds more than its capacity, and the shared
\* bound on faults is kept.
THEOREM NotificationsType == Spec => []TypeOK
<1>1. Init => faults \in 0..MaxFaults
  BY MaxFaultsType DEF Init
<1>2. faults \in 0..MaxFaults /\ [Next]_vars => (faults \in 0..MaxFaults)'
  BY FaultsCounted, MaxFaultsType DEF Fault
<1>3. Spec => [](faults \in 0..MaxFaults)
  BY <1>1, <1>2, PTL DEF Spec
<1>4. LiveInv /\ AlertInv /\ faults \in 0..MaxFaults => TypeOK
  BY DEF LiveInv, AlertInv, TypeOK
<1>. QED
  BY <1>3, <1>4, LiveInvariant, AlertInvariant, PTL
=============================================================================
