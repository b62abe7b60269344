---------------------------- MODULE Notifications ----------------------------
(***************************************************************************)
(* The readers of the message bus that tell people what happened: the      *)
(* WebSocket service (LiveUpdates) and the gateway's alert consumers       *)
(* (Alerts).  A trade event goes to both through durable consumers of      *)
(* their own.                                                              *)
(*                                                                         *)
(* MaxMessages bounds the messages of one behaviour, whichever consumers   *)
(* they are for.                                                           *)
(***************************************************************************)
EXTENDS LiveUpdates, Alerts, FiniteSets

CONSTANTS
  MaxMessages

Waiting == {m \in SUBSET (Trades \cup Pushes \cup Deposits) :
              Cardinality(m) <= MaxMessages}

vars == <<liveVars, alertVars, faults>>

TypeOK == LiveTypeOK /\ AlertTypeOK /\ faults \in 0..MaxFaults

\* A trade counts once for each of its two consumers: what one of them has not
\* to do with is taken as already handled.
Init ==
  /\ \E m \in Waiting :
       \/ LiveInit(m) /\ AlertInit({})
       \/ LiveInit({}) /\ AlertInit(m)
  /\ faults = 0

Next ==
  \/ LiveNext /\ UNCHANGED alertVars
  \/ AlertNext /\ UNCHANGED liveVars

Spec == Init /\ [][Next]_vars /\ LiveFairness /\ AlertFairness
=============================================================================
