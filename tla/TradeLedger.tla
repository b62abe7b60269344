----------------------------- MODULE TradeLedger ----------------------------
(***************************************************************************)
(* What record_trade, the finalization and the reconciler promise to the   *)
(* readers of the tables trades and sessions, without tasks, replicas,     *)
(* messages or a chain: a session has one trade per trigger, its amount    *)
(* goes into amount_sold at most once and only after the trade is there,   *)
(* and a confirmed trade is final.                                         *)
(***************************************************************************)
EXTENDS Naturals

CONSTANTS
  Sessions,
  Triggers    \* (trigger_tx_hash, trigger_pool, trigger_log_index)

VARIABLES
  trade,      \* trade[<<s, e>>]: status of the trade of session s for trigger e
  booked,     \* the <<s, e>> whose amount is part of sold[s]
  sold        \* sold[s]: sessions.amount_sold

ledgerVars == <<trade, booked, sold>>

LedgerInit ==
  /\ trade = [p \in Sessions \X Triggers |-> "none"]
  /\ booked = {}
  /\ sold = [s \in Sessions |-> 0]

Record(p) ==
  /\ trade[p] = "none"
  /\ trade' = [trade EXCEPT ![p] = "submitted"]
  /\ UNCHANGED <<booked, sold>>

Book(p) ==
  /\ trade[p] # "none"
  /\ p \notin booked
  /\ booked' = booked \cup {p}
  /\ sold'[p[1]] >= sold[p[1]]
  /\ sold' = [sold EXCEPT ![p[1]] = sold'[p[1]]]
  /\ UNCHANGED trade

Confirm(p) ==
  /\ trade[p] # "none"
  /\ trade' = [trade EXCEPT ![p] = "confirmed"]
  /\ UNCHANGED <<booked, sold>>

Fail(p) ==
  /\ trade[p] \in {"submitted", "failed"}
  /\ trade' = [trade EXCEPT ![p] = "failed"]
  /\ UNCHANGED <<booked, sold>>

LedgerNext ==
  \E p \in Sessions \X Triggers :
    Record(p) \/ Book(p) \/ Confirm(p) \/ Fail(p)

LedgerSpec == LedgerInit /\ [][LedgerNext]_ledgerVars
=============================================================================
