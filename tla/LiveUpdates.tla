----------------------------- MODULE LiveUpdates -----------------------------
(***************************************************************************)
(* The WebSocket service (crates/websocket-service/src/main.rs).  A bridge *)
(* takes trade events from the stream TRADES_COMPLETED and sends each into *)
(* the broadcast channel of its session; other services may push events    *)
(* into a channel by gRPC.  Each connected browser has a receiver of the   *)
(* channel and a task that forwards what it receives.  The channel exists  *)
(* from the first connection on.                                           *)
(*                                                                         *)
(* tokio's broadcast channel keeps the last Capacity messages.  Here each  *)
(* receiver has its own buffer of what it has not received yet; when that  *)
(* is full the oldest message is lost and the next recv returns Lagged.    *)
(***************************************************************************)
EXTENDS TradeEvents, Sequences

CONSTANTS
  Pushes,         \* events pushed by gRPC, once each
  Campaigns,      \* sessions that may be watched
  CampaignOf,     \* [Trades \cup Pushes -> Campaigns \cup {NoCampaign}]
  Clients,        \* browsers
  Watches,        \* [Clients -> Campaigns]
  Admitted,       \* clients whose token or public link is accepted
  Capacity,       \* messages a channel keeps (256)
  NoTrade,        \* the bridge has no message in hand
  NoCampaign      \* the payload names no session

ASSUME LiveConstants ==
  /\ CampaignOf \in [Trades \cup Pushes -> Campaigns \cup {NoCampaign}]
  /\ Watches \in [Clients -> Campaigns]
  /\ Admitted \subseteq Clients
  /\ Capacity \in Nat \ {0}
  /\ NoTrade \notin Trades
  /\ NoCampaign \notin Campaigns

VARIABLES
  tradeMsg,     \* the consumer ws-bridge: what became of each message
  tradeInflight,\* its messages delivered and not acknowledged
  bridge,       \* "start" | "receive" | "ack" | "send" | "ended"
  hand,         \* the message the bridge has in hand
  pushed,       \* events that have been pushed
  subscribers,  \* subscribers[s]: receivers of the session's channel
  socket,       \* socket[c]: "closed" | "open"
  forwarding,   \* does the client's send_task run?
  buffer,       \* buffer[c]: sent and not yet received by c's receiver
  lagged,       \* has c's receiver lost a message?
  seen,         \* seen[c]: forwarded over the current connection
  \* History variable, which no action reads
  due           \* due[c]: events of c's session since it connected

bridgeVars == <<bridge, hand>>
clientVars == <<socket, forwarding, buffer, lagged, seen>>
feedVars == <<tradeMsg, tradeInflight>>
liveVars == <<feedVars, bridgeVars, pushed, subscribers, clientVars, due>>

\* The durable consumer of the bridge.  The stream keeps its messages for an
\* hour, whatever the other consumer acknowledges.
Feed == INSTANCE SwapStream WITH
          Events <- Trades, msg <- tradeMsg, inflight <- tradeInflight

Messages == Trades \cup Pushes

LiveTypeOK ==
  /\ Feed!StreamTypeOK
  /\ bridge \in {"start", "receive", "ack", "send", "ended"}
  /\ hand \in Trades \cup {NoTrade}
  /\ pushed \subseteq Pushes
  /\ subscribers \in [Campaigns -> SUBSET Clients]
  /\ socket \in [Clients -> {"closed", "open"}]
  /\ forwarding \in [Clients -> BOOLEAN]
  /\ buffer \in [Clients -> Seq(Messages)]
  /\ \A c \in Clients : Len(buffer[c]) <= Capacity
  /\ lagged \in [Clients -> BOOLEAN]
  /\ seen \in [Clients -> Seq(Messages)]
  /\ due \in [Clients -> Seq(Messages)]

\* Messages that are not waiting at the start do not exist in this behaviour.
LiveInit(waiting) ==
  /\ tradeMsg = [t \in Trades |-> IF t \in waiting THEN "stored" ELSE "expired"]
  /\ tradeInflight = {}
  /\ bridge = "start"
  /\ hand = NoTrade
  /\ pushed = Pushes \ waiting
  /\ subscribers = [s \in Campaigns |-> {}]
  /\ socket = [c \in Clients |-> "closed"]
  /\ forwarding = [c \in Clients |-> FALSE]
  /\ buffer = [c \in Clients |-> <<>>]
  /\ lagged = [c \in Clients |-> FALSE]
  /\ seen = [c \in Clients |-> <<>>]
  /\ due = [c \in Clients |-> <<>>]

-----------------------------------------------------------------------------
(* Broadcast channels.                                                     *)

\* Variant of Broadcast: an unbounded channel for each receiver.
BroadcastUnbounded(m) ==
  LET receivers == IF CampaignOf[m] = NoCampaign THEN {}
                   ELSE subscribers[CampaignOf[m]]
  IN /\ buffer' = [c \in Clients |->
                     IF c \in receivers THEN Append(buffer[c], m) ELSE buffer[c]]
     /\ UNCHANGED lagged
     /\ due' = [c \in Clients |->
                  IF socket[c] = "open" /\ Watches[c] = CampaignOf[m]
                    THEN Append(due[c], m) ELSE due[c]]

\* tx.send(payload): every receiver of the session's channel gets the message;
\* a receiver whose buffer is full loses its oldest one.
Broadcast(m) ==
  LET receivers == IF CampaignOf[m] = NoCampaign THEN {}
                   ELSE subscribers[CampaignOf[m]]
  IN /\ buffer' = [c \in Clients |->
                     IF c \notin receivers THEN buffer[c]
                     ELSE IF Len(buffer[c]) < Capacity THEN Append(buffer[c], m)
                     ELSE Append(Tail(buffer[c]), m)]
     /\ lagged' = [c \in Clients |->
                     lagged[c] \/ (c \in receivers /\ Len(buffer[c]) = Capacity)]
     /\ due' = [c \in Clients |->
                  IF socket[c] = "open" /\ Watches[c] = CampaignOf[m]
                    THEN Append(due[c], m) ELSE due[c]]

\* push_session_update and push_trade_completed.
Push(m) ==
  /\ m \notin pushed
  /\ pushed' = pushed \cup {m}
  /\ Broadcast(m)
  /\ UNCHANGED <<feedVars, bridgeVars, subscribers, socket, forwarding, seen,
                 faults>>

-----------------------------------------------------------------------------
(* The bridge: nats_to_ws_bridge.                                          *)

\* Stream and consumer are there or are created.
BridgeStarts ==
  /\ bridge = "start"
  /\ bridge' = "receive"
  /\ UNCHANGED <<feedVars, hand, pushed, subscribers, clientVars, due, faults>>

\* One of the calls fails, or later the subscription reports an error: the task
\* is over for as long as the process runs.
BridgeEnds ==
  /\ bridge \in {"start", "receive"}
  /\ Fault
  /\ bridge' = "ended"
  /\ UNCHANGED <<feedVars, hand, pushed, subscribers, clientVars, due>>

BridgeReceives(t) ==
  /\ bridge = "receive"
  /\ Feed!DeliverMessage(t)
  /\ bridge' = "ack"
  /\ hand' = t
  /\ UNCHANGED <<pushed, subscribers, clientVars, due, faults>>

\* Variant of BridgeAcks: the message is not acknowledged.
BridgeForgetsAck ==
  /\ bridge = "ack"
  /\ bridge' = "send"
  /\ UNCHANGED <<feedVars, hand, pushed, subscribers, clientVars, due, faults>>

\* The message is acknowledged before it is looked at.
BridgeAcks ==
  /\ bridge = "ack"
  /\ Feed!AckMessage(hand)
  /\ bridge' = "send"
  /\ UNCHANGED <<hand, pushed, subscribers, clientVars, due, faults>>

\* let _ = msg.ack().await
BridgeAckFails ==
  /\ bridge = "ack"
  /\ Fault
  /\ bridge' = "send"
  /\ UNCHANGED <<feedVars, hand, pushed, subscribers, clientVars, due>>

BridgeSends ==
  /\ bridge = "send"
  /\ Broadcast(hand)
  /\ bridge' = "receive"
  /\ hand' = NoTrade
  /\ UNCHANGED <<feedVars, pushed, subscribers, socket, forwarding, seen,
                 faults>>

-----------------------------------------------------------------------------
(* Connections: ws_session_handler, ws_public_handler, handle_ws.          *)

\* Variant of ClientConnects: insert instead of or_insert_with, which puts a
\* new channel in the place of the one that others have receivers of.
ClientReplacesChannel(c) ==
  /\ c \in Admitted
  /\ socket[c] = "closed"
  /\ socket' = [socket EXCEPT ![c] = "open"]
  /\ forwarding' = [forwarding EXCEPT ![c] = TRUE]
  /\ subscribers' = [subscribers EXCEPT ![Watches[c]] = {c}]
  /\ buffer' = [buffer EXCEPT ![c] = <<>>]
  /\ lagged' = [lagged EXCEPT ![c] = FALSE]
  /\ seen' = [seen EXCEPT ![c] = <<>>]
  /\ due' = [due EXCEPT ![c] = <<>>]
  /\ UNCHANGED <<feedVars, bridgeVars, pushed, faults>>

\* The checks of the token and of the session, or of the public link, succeed;
\* the receiver sees what is sent from now on.
ClientConnects(c) ==
  /\ c \in Admitted
  /\ socket[c] = "closed"
  /\ socket' = [socket EXCEPT ![c] = "open"]
  /\ forwarding' = [forwarding EXCEPT ![c] = TRUE]
  /\ subscribers' = [subscribers EXCEPT ![Watches[c]] = @ \cup {c}]
  /\ buffer' = [buffer EXCEPT ![c] = <<>>]
  /\ lagged' = [lagged EXCEPT ![c] = FALSE]
  /\ seen' = [seen EXCEPT ![c] = <<>>]
  /\ due' = [due EXCEPT ![c] = <<>>]
  /\ UNCHANGED <<feedVars, bridgeVars, pushed, faults>>

\* The browser leaves.  The send_task of the old connection is detached and
\* ends at its next message; it reaches nobody and is left out.
ClientCloses(c) ==
  /\ socket[c] = "open"
  /\ socket' = [socket EXCEPT ![c] = "closed"]
  /\ forwarding' = [forwarding EXCEPT ![c] = FALSE]
  /\ subscribers' = [subscribers EXCEPT ![Watches[c]] = @ \ {c}]
  /\ buffer' = [buffer EXCEPT ![c] = <<>>]
  /\ lagged' = [lagged EXCEPT ![c] = FALSE]
  /\ seen' = [seen EXCEPT ![c] = <<>>]
  /\ due' = [due EXCEPT ![c] = <<>>]
  /\ UNCHANGED <<feedVars, bridgeVars, pushed, faults>>

\* Variant of Forward: a receiver that lagged goes on with what is left.
ForwardPastLag(c) ==
  /\ forwarding[c]
  /\ buffer[c] # <<>>
  /\ seen' = [seen EXCEPT ![c] = Append(@, Head(buffer[c]))]
  /\ buffer' = [buffer EXCEPT ![c] = Tail(@)]
  /\ lagged' = [lagged EXCEPT ![c] = FALSE]
  /\ UNCHANGED <<feedVars, bridgeVars, pushed, subscribers, socket, forwarding,
                 due, faults>>

\* Variant of Forward: if let in the place of while let.
ForwardOnce(c) ==
  /\ forwarding[c] /\ ~lagged[c]
  /\ buffer[c] # <<>>
  /\ seen' = [seen EXCEPT ![c] = Append(@, Head(buffer[c]))]
  /\ buffer' = [buffer EXCEPT ![c] = <<>>]
  /\ forwarding' = [forwarding EXCEPT ![c] = FALSE]
  /\ subscribers' = [subscribers EXCEPT ![Watches[c]] = @ \ {c}]
  /\ UNCHANGED <<feedVars, bridgeVars, pushed, socket, lagged, due, faults>>

\* while let Ok(msg) = rx.recv().await: send it to the browser.
Forward(c) ==
  /\ forwarding[c] /\ ~lagged[c]
  /\ buffer[c] # <<>>
  /\ seen' = [seen EXCEPT ![c] = Append(@, Head(buffer[c]))]
  /\ buffer' = [buffer EXCEPT ![c] = Tail(@)]
  /\ UNCHANGED <<feedVars, bridgeVars, pushed, subscribers, socket, forwarding,
                 lagged, due, faults>>

\* recv returns Lagged: the loop ends and the receiver is dropped.  The other
\* task still holds the receiving half of the socket (tokio::select! drops its
\* handle, which does not stop it), so the connection stays open.
ForwardLagged(c) ==
  /\ forwarding[c] /\ lagged[c]
  /\ forwarding' = [forwarding EXCEPT ![c] = FALSE]
  /\ subscribers' = [subscribers EXCEPT ![Watches[c]] = @ \ {c}]
  /\ buffer' = [buffer EXCEPT ![c] = <<>>]
  /\ UNCHANGED <<feedVars, bridgeVars, pushed, socket, lagged, seen, due,
                 faults>>

\* The service stops and is started again: every connection is closed and the
\* channels are gone.
WsRestart ==
  /\ Fault
  /\ bridge' = "start"
  /\ hand' = NoTrade
  /\ subscribers' = [s \in Campaigns |-> {}]
  /\ socket' = [c \in Clients |-> "closed"]
  /\ forwarding' = [c \in Clients |-> FALSE]
  /\ buffer' = [c \in Clients |-> <<>>]
  /\ lagged' = [c \in Clients |-> FALSE]
  /\ seen' = [c \in Clients |-> <<>>]
  /\ due' = [c \in Clients |-> <<>>]
  /\ UNCHANGED <<feedVars, pushed>>

\* The stream: an acknowledgement is overdue, a message is an hour old.
FeedStep(t) ==
  /\ \/ Feed!AckWaitExpires(t) /\ UNCHANGED faults
     \/ Feed!MaxAgeExpires(t) /\ Fault
  /\ UNCHANGED <<bridgeVars, pushed, subscribers, clientVars, due>>

BridgeStep ==
  \/ BridgeStarts \/ \E t \in Trades : BridgeReceives(t)
  \/ BridgeAcks \/ BridgeAckFails \/ BridgeSends

ForwardStep(c) == Forward(c) \/ ForwardLagged(c)

LiveNext ==
  \/ \E m \in Pushes : Push(m)
  \/ BridgeStep \/ BridgeEnds
  \/ \E c \in Clients :
       ClientConnects(c) \/ ClientCloses(c) \/ ForwardStep(c)
  \/ WsRestart
  \/ \E t \in Trades : FeedStep(t)

\* The bridge's task and each send_task run until they end.  The stream gives a
\* message out again some time after the wait for its acknowledgement.
LiveFairness ==
  /\ WF_<<liveVars, faults>>(BridgeStep)
  /\ \A c \in Clients : WF_<<liveVars, faults>>(ForwardStep(c))
  /\ \A t \in Trades :
       WF_<<liveVars, faults>>(Feed!AckWaitExpires(t) /\ FeedStep(t))
-----------------------------------------------------------------------------
(* Properties.                                                             *)

\* What an open connection has been sent is a prefix of the events of its
\* session since it connected: in order, without a gap, whoever else connects,
\* leaves or lags.  While the forwarding task runs and has lost nothing, the
\* rest is in its buffer.
StreamsWithoutGaps ==
  \A c \in Clients :
    socket[c] = "open" =>
      /\ Len(seen[c]) <= Len(due[c])
      /\ SubSeq(due[c], 1, Len(seen[c])) = seen[c]
      /\ forwarding[c] /\ ~lagged[c] => due[c] = seen[c] \o buffer[c]

\* A forwarding task that ended under an open connection was more than Capacity
\* events behind at some time: nothing else leaves a browser without events.
StalledOnlyByLag ==
  \A c \in Clients :
    socket[c] = "open" /\ ~forwarding[c]
      => Len(due[c]) > Len(seen[c]) + Capacity

\* Every trade in the stream is taken out of it by the bridge in the end,
\* unless its task ends; a lost acknowledgement delays that.
TradesAreTaken ==
  \A t \in Trades :
    tradeMsg[t] = "stored" ~> (tradeMsg[t] # "stored" \/ bridge = "ended")

\* Every event due to a browser is sent to it, or its forwarding task ends, or
\* the connection does.
EventsArrive ==
  \A c \in Clients, n \in 1..3 :
    (socket[c] = "open" /\ Len(due[c]) >= n)
      ~> (Len(seen[c]) >= n \/ ~forwarding[c] \/ Len(due[c]) < n)
=============================================================================
