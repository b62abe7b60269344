------------------------------- MODULE Sessions -------------------------------
(***************************************************************************)
(* The life of a session outside the execution engine: the gateway's       *)
(* handlers that create, start, stop and empty one (crates/api-gateway/    *)
(* src/routes.rs) with the session service's statements they end in        *)
(* (crates/session-api/src/main.rs).                                       *)
(*                                                                         *)
(* A request goes through its handler's calls one at a time, so requests   *)
(* interleave at every call.  A session is named by the request that       *)
(* creates it; those of Seed are there from before.  Gas is counted in     *)
(* units of the estimated cost of one swap.                                *)
(***************************************************************************)
EXTENDS Naturals, FiniteSets, Sequences, SequencesExt

CONSTANTS
  Requests,     \* calls of the handlers
  Asks,         \* what a call may ask for, see AskOK
  Seed,         \* the rows of table sessions at the start, by session
  Admins,       \* users with the role admin; the others are common users
  Wallets,      \* wallets of users
  OwnerOf,      \* the user of each wallet
  GasWallet,    \* execution.gas_wallet_id
  Depth,        \* [pools that trade the sell token -> reserve of it]
  BadRoute,     \* pools offered with a route that does not pass validation
  Start,        \* balances at the start: [held, proceeds, gas]
  Padding,      \* execution.gas_padding_percent
  ChunkDivisor, \* 100000: a chunk is total * pov / ChunkDivisor
  DefaultSwaps, \* 1000: the number of swaps when no chunk can be told
  MaxSwaps,     \* 5000: the cap of the estimate
  Shares,       \* values of pov_percent, in basis points
  MaxFaults,    \* bound: calls that fail, transactions that are dropped
  MaxSales,     \* bound: sales of the engine
  Nothing       \* no ask, no row

Accounts == Wallets \cup {GasWallet}
Existing == DOMAIN Seed
SessionIds == Existing \cup Requests
Pools == DOMAIN Depth
Users == {OwnerOf[w] : w \in Wallets} \cup Admins

AskOK(a) ==
  /\ a.by \in Users /\ a.wallet \in Wallets /\ a.session \in SessionIds
  /\ a.pools \in Seq(Pools) /\ a.amount \in Nat
  /\ a.kind \in {"create", "sell", "active", "paused", "cancelled", "withdraw"}

\* The type session_status also has "error", which no statement sets.
Statuses == {"pending", "active", "paused", "completed", "cancelled"}

\* A row of sessions with the pools of its rows of session_pools.
Rows ==
  [status : Statuses, owner : Users, wallet : Wallets, amount : Nat,
   sold : Nat, pov : Shares, pools : SUBSET Pools]

ASSUME SessionConstants ==
  /\ OwnerOf \in [Wallets -> Users] /\ GasWallet \notin Wallets
  /\ \A a \in Asks : AskOK(a)
  /\ \A s \in Existing : Seed[s] \in Rows
  /\ Start.held \in [Wallets -> Nat] /\ Start.proceeds \in [Wallets -> Nat]
  /\ Start.gas \in [Accounts -> Nat]
  /\ Nothing \notin Asks \cup Rows
  /\ Depth \in [Pools -> Nat] /\ BadRoute \subseteq Pools
  /\ Existing \cap Requests = {}
  /\ Padding \in Nat /\ MaxSwaps \in Nat
  /\ Shares \subseteq Nat /\ Shares # {}
  /\ ChunkDivisor \in Nat \ {0} /\ DefaultSwaps \in Nat \ {0}

VARIABLES
  row,       \* row[s]: sessions and session_pools, or Nothing
  held,      \* held[w]: sell tokens
  proceeds,  \* proceeds[w]: target tokens
  gas,       \* gas[a]: native tokens
  mined,     \* mined[a]: transactions of the account that are mined
  tx,        \* tx[r]: the transaction the request has submitted
  pc,        \* pc[r]: the call the request comes to next
  req,       \* req[r]: what it asks for and has read
  seen,      \* seen[s]: values of amount_sold that tasks of the engine have read
  faults, sales

tableVars == <<row>>
chainVars == <<held, proceeds, gas, mined>>
requestVars == <<pc, req>>
engineVars == <<seen, sales>>
vars == <<tableVars, chainVars, tx, requestVars, engineVars, faults>>

Labels == {"idle", "balance", "quote", "insert", "pools", "gas", "deficit",
           "cover", "nonce", "send", "update", "reply", "done"}

TxStates == {"none", "pending", "success", "reverted", "replaced", "dropped"}
Transactions == [state : TxStates, nonce : Nat, value : Nat]
Progress ==
  [ask : Asks \cup {Nothing}, saw : Nat, need : Nat, nonce : Nat,
   left : Seq(Pools), reply : {"none", "ok", "error"}]

TypeOK ==
  /\ row \in [SessionIds -> Rows \cup {Nothing}]
  /\ held \in [Wallets -> Nat] /\ proceeds \in [Wallets -> Nat]
  /\ gas \in [Accounts -> Nat] /\ mined \in [Accounts -> Nat]
  /\ tx \in [Requests -> Transactions]
  /\ pc \in [Requests -> Labels]
  /\ req \in [Requests -> Progress]
  /\ \A r \in Requests : pc[r] = "done" <=> req[r].reply # "none"
  /\ seen \in [SessionIds -> SUBSET Nat]

NewRow(u, w, n, ps) ==
  [status |-> "pending", owner |-> u, wallet |-> w, amount |-> n, sold |-> 0,
   pov |-> CHOOSE p \in Shares : TRUE, pools |-> ps]

Init ==
  /\ row = [s \in SessionIds |-> IF s \in Existing THEN Seed[s] ELSE Nothing]
  /\ held = Start.held /\ proceeds = Start.proceeds /\ gas = Start.gas
  /\ mined = [a \in Accounts |-> 0]
  /\ tx = [r \in Requests |-> [state |-> "none", nonce |-> 0, value |-> 0]]
  /\ pc = [r \in Requests |-> "idle"]
  /\ req = [r \in Requests |->
              [ask |-> Nothing, saw |-> 0, need |-> 0, nonce |-> 0,
               left |-> <<>>, reply |-> "none"]]
  /\ seen = [s \in SessionIds |-> {}]
  /\ faults = 0 /\ sales = 0

Fault == faults < MaxFaults /\ faults' = faults + 1

Goto(r, label) == pc' = [pc EXCEPT ![r] = label]

\* A step of the request that only reads and computes.
Reads(r, label) ==
  /\ Goto(r, label)
  /\ UNCHANGED <<tableVars, chainVars, tx, engineVars, faults>>

Refuse(r) ==
  /\ Goto(r, "done")
  /\ req' = [req EXCEPT ![r].reply = "error"]
  /\ UNCHANGED <<tableVars, chainVars, tx, engineVars, faults>>

Ask(r) == req[r].ask
RowOf(r) == row[Ask(r).session]

-----------------------------------------------------------------------------
(* The checks a handler makes before its first call.                       *)

CreateOK(a) ==
  a.pools # <<>> /\ \A i \in DOMAIN a.pools : a.pools[i] \notin BadRoute

\* An administrator may start, stop and empty any session there is; a common
\* user may sell what the wallet holds.
Allowed(a) ==
  CASE a.kind = "create" -> CreateOK(a)
    [] a.kind = "sell" -> a.by \notin Admins
    [] OTHER -> a.by \in Admins /\ row[a.session] # Nothing

FirstCall(a) ==
  CASE a.kind \in {"create", "sell", "withdraw"} -> "balance"
    [] a.kind = "active" -> "gas"
    [] OTHER -> "update"

Begin(r, a) ==
  /\ pc[r] = "idle"
  /\ Goto(r, IF Allowed(a) THEN FirstCall(a) ELSE "done")
  /\ req' = [req EXCEPT ![r].ask = a,
                        ![r].reply = IF Allowed(a) THEN @ ELSE "error"]
  /\ UNCHANGED <<tableVars, chainVars, tx, engineVars, faults>>

-----------------------------------------------------------------------------
(* create_session and start_selling.                                       *)

\* A session for a part of what the wallet holds, as far as this call can see:
\* other sessions of the wallet are not asked about.
CheckBalance(r) ==
  /\ pc[r] = "balance" /\ Ask(r).kind = "create"
  /\ IF Ask(r).amount > held[Ask(r).wallet] THEN Refuse(r)
     ELSE /\ req' = [req EXCEPT ![r].saw = Ask(r).amount, ![r].left = Ask(r).pools]
          /\ Reads(r, "insert")

\* A common user sells all the wallet holds.
ReadHolding(r) ==
  /\ pc[r] = "balance" /\ Ask(r).kind = "sell"
  /\ IF held[Ask(r).wallet] = 0 THEN Refuse(r)
     ELSE /\ req' = [req EXCEPT ![r].saw = held[Ask(r).wallet]]
          /\ Reads(r, "quote")

Deepest(found) == {p \in found : \A q \in found : Depth[q] <= Depth[p]}

\* Price, pools, the pool with the most of the sell token, and the route from
\* it.  The price of a failing oracle is zero; discovery leaves out a pool whose
\* calls fail; a pool without a route to the target keeps the route that its
\* discovery came with.
ChoosePool(r) ==
  /\ pc[r] = "quote"
  /\ \E found \in SUBSET Pools :
       IF found = {} THEN Refuse(r)
       ELSE \E p \in Deepest(found) :
              /\ req' = [req EXCEPT ![r].left = <<p>>]
              /\ Reads(r, "insert")

\* INSERT INTO sessions.
InsertSession(r) ==
  /\ pc[r] = "insert"
  /\ row' = [row EXCEPT ![r] =
       NewRow(IF Ask(r).by \in Admins THEN OwnerOf[Ask(r).wallet] ELSE Ask(r).by,
              Ask(r).wallet, req[r].saw, {})]
  /\ Goto(r, "pools")
  /\ UNCHANGED <<chainVars, tx, req, engineVars, faults>>

\* Variant of InsertPool: let _ = in the place of ? lets a failed one pass.
InsertPoolOrNot(r) ==
  /\ pc[r] = "pools"
  /\ IF req[r].left = <<>>
       THEN Goto(r, "reply") /\ UNCHANGED <<row, req, faults>>
       ELSE /\ \/ row' = [row EXCEPT ![r].pools = @ \cup {Head(req[r].left)}]
                  /\ UNCHANGED faults
               \/ Fault /\ UNCHANGED row
            /\ req' = [req EXCEPT ![r].left = Tail(@)]
            /\ UNCHANGED pc
  /\ UNCHANGED <<chainVars, tx, engineVars>>

\* INSERT INTO session_pools ... ON CONFLICT DO NOTHING, for one pool after the
\* other and in no transaction with the session's own row.
InsertPool(r) ==
  /\ pc[r] = "pools"
  /\ IF req[r].left = <<>>
       THEN Goto(r, "reply") /\ UNCHANGED <<row, req>>
       ELSE /\ row' = [row EXCEPT ![r].pools = @ \cup {Head(req[r].left)}]
            /\ req' = [req EXCEPT ![r].left = Tail(@)]
            /\ UNCHANGED pc
  /\ UNCHANGED <<chainVars, tx, engineVars, faults>>

-----------------------------------------------------------------------------
(* update_session_status with fund_session_wallet_gas.                     *)

MinOf(m, n) == IF m < n THEN m ELSE n

\* Variant of Less: the plain subtraction.
LessUnchecked(m, n) == m - n

\* saturating_sub
Less(m, n) == IF m < n THEN 0 ELSE m - n

\* How many swaps a session may still need: the rest of it in chunks.
NumSwaps(s) ==
  LET rest == Less(s.amount, s.sold)
      chunk == (s.amount * s.pov) \div ChunkDivisor
      least == IF chunk > 0 THEN chunk ELSE rest \div DefaultSwaps
  IN MinOf(IF least = 0 THEN DefaultSwaps ELSE (rest + least - 1) \div least,
           MaxSwaps)

GasNeeded(s) ==
  IF s.sold >= s.amount THEN 0 ELSE (NumSwaps(s) * (100 + Padding)) \div 100

\* GetSession.
EstimateGas(r) ==
  /\ pc[r] = "gas"
  /\ req' = [req EXCEPT ![r].need = GasNeeded(RowOf(r))]
  /\ Reads(r, "deficit")

\* The session wallet's balance; what is on its way does not count.
ReadDeficit(r) ==
  /\ pc[r] = "deficit"
  /\ LET deficit == Less(req[r].need, gas[RowOf(r).wallet])
     IN /\ req' = [req EXCEPT ![r].saw = deficit]
        /\ Reads(r, IF deficit = 0 THEN "update" ELSE "cover")

CheckGasWallet(r) ==
  /\ pc[r] = "cover"
  /\ IF gas[GasWallet] < req[r].saw THEN Refuse(r)
     ELSE req' = req /\ Reads(r, "nonce")

Payer(r) == IF Ask(r).kind = "active" THEN GasWallet ELSE RowOf(r).wallet

\* Variant of ReadNonce: one added to a count that is the next nonce already.
ReadNonceOffByOne(r) ==
  /\ pc[r] = "nonce"
  /\ req' = [req EXCEPT ![r].nonce = mined[Payer(r)] + 1]
  /\ Reads(r, "send")

\* get_transaction_count: waiting transactions do not count.
ReadNonce(r) ==
  /\ pc[r] = "nonce"
  /\ req' = [req EXCEPT ![r].nonce = mined[Payer(r)]]
  /\ Reads(r, "send")

\* The node takes a transaction whose nonce is not used up; one that waits with
\* the same nonce is replaced, or the new one refused (see SendRefused).
Submitted(r) ==
  /\ req[r].nonce >= mined[Payer(r)]
  /\ tx' = [q \in Requests |->
       IF q = r THEN [state |-> "pending", nonce |-> req[r].nonce, value |-> req[r].saw]
       ELSE IF tx[q].state = "pending" /\ Payer(q) = Payer(r)
                 /\ tx[q].nonce = req[r].nonce
         THEN [tx[q] EXCEPT !.state = "replaced"]
       ELSE tx[q]]

\* Sign, and send_raw_transaction: nobody waits for the receipt.
Send(r) ==
  /\ pc[r] = "send"
  /\ Submitted(r)
  /\ Goto(r, IF Ask(r).kind = "active" THEN "update" ELSE "reply")
  /\ UNCHANGED <<tableVars, chainVars, req, engineVars, faults>>

\* Nonce too low, a replacement underpriced, or no gas to pay for it.
SendRefused(r) ==
  /\ pc[r] = "send"
  /\ \/ req[r].nonce < mined[Payer(r)]
     \/ \E q \in Requests \ {r} : tx[q].state = "pending" /\ Payer(q) = Payer(r)
     \/ gas[Payer(r)] = 0
  /\ Refuse(r)

\* UPDATE sessions SET status, whatever the status was.
UpdateStatus(r) ==
  /\ pc[r] = "update"
  /\ row' = [row EXCEPT ![Ask(r).session].status = Ask(r).kind]
  /\ Goto(r, "reply")
  /\ UNCHANGED <<chainVars, tx, req, engineVars, faults>>

-----------------------------------------------------------------------------
(* admin_withdraw_session: the target tokens of the session's wallet.       *)
(* An amount of 0 stands for a body without one.                           *)

ReadProceeds(r) ==
  /\ pc[r] = "balance" /\ Ask(r).kind = "withdraw"
  /\ LET all == proceeds[RowOf(r).wallet]
     IN IF all = 0 \/ Ask(r).amount > all THEN Refuse(r)
        ELSE /\ req' = [req EXCEPT ![r].saw = IF Ask(r).amount = 0 THEN all
                                              ELSE Ask(r).amount]
             /\ Reads(r, "nonce")

-----------------------------------------------------------------------------
(* Every handler.                                                          *)

Reply(r) ==
  /\ pc[r] = "reply"
  /\ Goto(r, "done")
  /\ req' = [req EXCEPT ![r].reply = "ok"]
  /\ UNCHANGED <<tableVars, chainVars, tx, engineVars, faults>>

\* Variant of CallFails: a funding that fails is only logged.
CallFailsLogged(r) ==
  /\ pc[r] \notin {"idle", "done"}
  /\ Fault
  /\ IF pc[r] \in {"gas", "deficit", "cover", "nonce", "send"}
          /\ Ask(r).kind = "active"
       THEN Goto(r, "update") /\ UNCHANGED req
       ELSE Goto(r, "done") /\ req' = [req EXCEPT ![r].reply = "error"]
  /\ UNCHANGED <<tableVars, chainVars, tx, engineVars>>

\* A call fails, or the answer of the last one is lost: what was done stays.
CallFails(r) ==
  /\ pc[r] \notin {"idle", "done"}
  /\ Fault
  /\ Goto(r, "done")
  /\ req' = [req EXCEPT ![r].reply = "error"]
  /\ UNCHANGED <<tableVars, chainVars, tx, engineVars>>

\* update_session_config, in one statement.
UpdateConfig(s, p) ==
  /\ row[s] # Nothing
  /\ row[s].pov # p
  /\ row' = [row EXCEPT ![s].pov = p]
  /\ UNCHANGED <<chainVars, tx, requestVars, engineVars, faults>>

-----------------------------------------------------------------------------
(* The chain and the engine.  A withdrawal's gas counts as that of a swap.  *)

\* Transactions of account a that wait for the nonce that is now used up.
Superseded(a) ==
  [q \in Requests |->
     IF tx[q].state = "pending" /\ Payer(q) = a /\ tx[q].nonce = mined[a]
       THEN [tx[q] EXCEPT !.state = "replaced"] ELSE tx[q]]

\* The transfer of gas, or of target tokens, which reverts when the wallet has
\* too little of them.
Mine(r) ==
  LET a == Payer(r)  w == RowOf(r).wallet  v == tx[r].value  IN
  /\ tx[r].state = "pending" /\ tx[r].nonce = mined[a]
  /\ mined' = [mined EXCEPT ![a] = @ + 1]
  /\ IF a = GasWallet
       THEN /\ gas[a] >= v
            /\ gas' = [gas EXCEPT ![a] = @ - v, ![w] = @ + v]
            /\ tx' = [tx EXCEPT ![r].state = "success"]
            /\ UNCHANGED proceeds
       ELSE /\ gas[a] > 0
            /\ gas' = [gas EXCEPT ![a] = @ - 1]
            /\ tx' = [tx EXCEPT ![r].state =
                        IF proceeds[w] >= v THEN "success" ELSE "reverted"]
            /\ proceeds' = [proceeds EXCEPT ![w] = IF @ >= v THEN @ - v ELSE @]
  /\ UNCHANGED <<tableVars, held, requestVars, engineVars, faults>>

\* The node forgets a transaction; it does so at last with one whose account
\* can no longer pay.
Unaffordable(r) ==
  gas[Payer(r)] < (IF Payer(r) = GasWallet THEN tx[r].value ELSE 1)

DropTx(r) ==
  /\ tx[r].state = "pending"
  /\ \/ Unaffordable(r) /\ UNCHANGED faults
     \/ Fault
  /\ tx' = [tx EXCEPT ![r].state = "dropped"]
  /\ UNCHANGED <<tableVars, chainVars, requestVars, engineVars>>

\* A task of the engine reads an active session.  What it does with it comes
\* later, and nothing ends with that: any number of tasks may work from what was
\* read, on a session that has been stopped or sold out since.
EngineReads(s) ==
  /\ row[s] # Nothing
  /\ row[s].status = "active" /\ row[s].pools # {}
  /\ row[s].sold < row[s].amount
  /\ seen' = [seen EXCEPT ![s] = @ \cup {row[s].sold}]
  /\ UNCHANGED <<tableVars, chainVars, tx, requestVars, sales, faults>>

\* A sale of the engine, from the submission to the row; see ExecutionEngine for
\* what may come between.  It is capped by what was left when the task read the
\* session, added to what has been sold by now, and counted even if it reverts;
\* the session is completed if it would be by this sale and what the task read.
EngineSells(s, saw, n) ==
  LET w == row[s].wallet IN
  /\ row[s] # Nothing
  /\ saw + n <= row[s].amount
  /\ n <= held[w] /\ gas[w] > 0
  /\ sales < MaxSales /\ sales' = sales + 1
  /\ \/ /\ held' = [held EXCEPT ![w] = @ - n]
        /\ proceeds' = [proceeds EXCEPT ![w] = @ + n]
     \/ UNCHANGED <<held, proceeds>>
  /\ gas' = [gas EXCEPT ![w] = @ - 1]
  /\ mined' = [mined EXCEPT ![w] = @ + 1]
  /\ tx' = Superseded(w)
  /\ row' = [row EXCEPT ![s].sold = @ + n,
                        ![s].status = IF saw + n >= row[s].amount
                                        THEN "completed" ELSE @]
  /\ UNCHANGED <<requestVars, seen, faults>>

Proceed(r) ==
  \/ CheckBalance(r) \/ ReadHolding(r) \/ ReadProceeds(r) \/ ChoosePool(r)
  \/ InsertSession(r) \/ InsertPool(r)
  \/ EstimateGas(r) \/ ReadDeficit(r) \/ CheckGasWallet(r)
  \/ ReadNonce(r) \/ Send(r) \/ SendRefused(r)
  \/ UpdateStatus(r) \/ Reply(r)

Settle(r) == Mine(r) \/ DropTx(r)

Next ==
  \/ \E r \in Requests :
       \/ \E a \in Asks : Begin(r, a)
       \/ Proceed(r) \/ CallFails(r) \/ Settle(r)
  \/ \E s \in SessionIds :
       \/ EngineReads(s)
       \/ \E saw \in seen[s] : \E n \in 1..row[s].amount : EngineSells(s, saw, n)
       \/ \E p \in Shares : UpdateConfig(s, p)

\* A handler is polled until it has answered, and the node mines or forgets what
\* it has accepted.
Fairness ==
  \A r \in Requests : WF_vars(Proceed(r)) /\ WF_vars(Settle(r))

Spec == Init /\ [][Next]_vars /\ Fairness
-----------------------------------------------------------------------------
(* Properties.                                                             *)

Creates(r) == Ask(r) # Nothing /\ Ask(r).kind \in {"create", "sell"}

\* The sets of pools a request may mean to store.
Meant(r) ==
  IF Ask(r).kind = "create" THEN {ToSet(Ask(r).pools)} ELSE {{p} : p \in Pools}

\* The session and its pools are inserted by statements of their own.  Whoever
\* is told of a new session finds all its pools stored, whatever failed and
\* whatever others did meanwhile; a session without some of them is left over
\* only by a request that is under way or was answered with an error.
SessionsAreWhole ==
  \A r \in Requests :
    Creates(r) =>
      /\ req[r].reply = "ok" => row[r] # Nothing
      /\ row[r] # Nothing =>
           \/ row[r].pools \in Meant(r)
           \/ pc[r] = "pools" \/ req[r].reply = "error"

\* A session becomes active only through a request for which the wallet had
\* the gas it computed, or whose transfer the node has accepted: no failing
\* call, no other request and no change of the settings gets around that.
FundedBeforeActive ==
  [][\A s \in SessionIds :
       row[s] # Nothing /\ row'[s].status = "active" /\ row[s].status # "active"
         => \E r \in Requests :
              /\ pc[r] = "update" /\ Ask(r).kind = "active" /\ Ask(r).session = s
              /\ tx[r].state # "none" \/ req[r].saw = 0]_vars

\* The handler answers before the transfer is mined.  After that answer the gas
\* does arrive, unless the node dropped the transfer or took another one of the
\* gas wallet with the same nonce in its place.
GasArrives ==
  \A r \in Requests :
    (Ask(r) # Nothing /\ Ask(r).kind = "active" /\ req[r].reply = "ok")
      ~> (req[r].saw = 0 \/ tx[r].state \in {"success", "dropped", "replaced"})
=============================================================================
