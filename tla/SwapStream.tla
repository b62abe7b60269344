----------------------------- MODULE SwapStream -----------------------------
(***************************************************************************)
(* The JetStream stream DEX_SWAPS and its durable pull consumer            *)
(* "execution-engine", as the engine configures and uses them              *)
(* (crates/execution-engine/src/main.rs, lines 222-247): work-queue        *)
(* retention, a maximum message age, explicit acknowledgement and          *)
(* redelivery of whatever is not acknowledged within the ack wait.         *)
(*                                                                         *)
(* The server itself is not in the repository; it is modelled from how the *)
(* engine uses it.  Every event is in the stream initially: deliveries are *)
(* unordered here, so the order of publication makes no difference.        *)
(***************************************************************************)
EXTENDS Naturals

CONSTANTS
  Events      \* DexSwapEvents, one JetStream message each

VARIABLES
  msg,        \* msg[e]: what the stream did with the message
  inflight    \* messages delivered and neither acknowledged nor timed out

streamVars == <<msg, inflight>>

MsgStates == {"stored", "acked", "expired"}

StreamTypeOK ==
  /\ msg \in [Events -> MsgStates]
  /\ inflight \subseteq Events

StreamInit ==
  /\ msg = [e \in Events |-> "stored"]
  /\ inflight = {}

\* The consumer hands out a stored message that no delivery is pending for.
Deliverable(e) ==
  /\ msg[e] = "stored"
  /\ e \notin inflight

DeliverMessage(e) ==
  /\ Deliverable(e)
  /\ inflight' = inflight \cup {e}
  /\ UNCHANGED msg

\* message.ack(): a work-queue stream deletes the message, whichever of its
\* deliveries the acknowledgement answers.  Acknowledging a message that has
\* already been deleted changes nothing.
AckMessage(e) ==
  /\ msg' = [msg EXCEPT ![e] = IF @ = "stored" THEN "acked" ELSE @]
  /\ inflight' = inflight \ {e}

\* ack_wait (30 s by default) passes without an acknowledgement: the message
\* becomes deliverable again although its first handler may still be running.
AckWaitExpires(e) ==
  /\ e \in inflight
  /\ inflight' = inflight \ {e}
  /\ UNCHANGED msg

\* max_age (3600 s): the stream discards the message, delivered or not.
MaxAgeExpires(e) ==
  /\ msg[e] = "stored"
  /\ msg' = [msg EXCEPT ![e] = "expired"]
  /\ inflight' = inflight \ {e}
=============================================================================
