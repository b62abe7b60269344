-------------------------- MODULE EngineRefinement --------------------------
(***************************************************************************)
(* ExecutionEngine implements TradeLedger: the trade of a session and a    *)
(* trigger is the row of whichever task recorded it.                       *)
(***************************************************************************)
EXTENDS ExecutionEngineInv

\* The task whose row is the trade of session s for event e.
Recorder(s, e) == CHOOSE t \in Tasks : ev[t] = e /\ row[<<t, s>>] # "none"

tradeBar ==
  [p \in Sessions \X Events |->
     IF TriggerConflict(p[1], p[2])
     THEN row[<<Recorder(p[1], p[2]), p[1]>>] ELSE "none"]

bookedBar ==
  {p \in Sessions \X Events :
     \E t \in Tasks : ev[t] = p[2] /\ <<t, p[1]>> \in counted}

Ledger == INSTANCE TradeLedger
  WITH Triggers <- Events, trade <- tradeBar, booked <- bookedBar,
       sold <- amountSold

\* However deliveries, crashes, failures and reconcilers interleave, the tables
\* behave like the ledger: one trade per session and trigger, booked at most
\* once and after it was recorded, final when confirmed.
ImplementsLedger == Ledger!LedgerSpec
=============================================================================
