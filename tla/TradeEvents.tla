----------------------------- MODULE TradeEvents -----------------------------
(***************************************************************************)
(* What the readers of the stream TRADES_COMPLETED share: its messages,    *)
(* each a TradeCompletedEvent, and the bound on faults.                    *)
(***************************************************************************)
EXTENDS Naturals

CONSTANTS
  Trades,       \* messages of TRADES_COMPLETED
  MaxFaults     \* bound: faults in a behaviour

VARIABLES
  faults        \* faults so far

ASSUME MaxFaultsType == MaxFaults \in Nat

Fault == faults < MaxFaults /\ faults' = faults + 1
=============================================================================
