-------------------------------- MODULE Chain -------------------------------
(***************************************************************************)
(* The EVM chain, its mempool and the custodial wallets, as the execution  *)
(* engine sees them through RPC (eth_getTransactionCount,                  *)
(* eth_sendRawTransaction, eth_getTransactionReceipt).  The chain is not   *)
(* in the repository; it is modelled from those calls.                     *)
(*                                                                         *)
(* A sell transaction is named by the delivery (task) and the session it   *)
(* was built for: a task submits at most one per session.  A receipt, once *)
(* there, does not change (no reorganisations).                            *)
(***************************************************************************)
EXTENDS Naturals

CONSTANTS
  Tasks,      \* deliveries of messages, each handled by a task of its own
  Sessions,   \* liquidation campaigns
  Wallets,    \* KMS wallets
  WalletOf,   \* [Sessions -> Wallets]: sessions.wallet_id
  Deposit,    \* [Wallets -> Nat]: sell tokens the wallet holds at the start
  Approved    \* wallets whose sell token is native or already approved

Ids == Tasks \X Sessions

VARIABLES
  tx,           \* tx[id]: state of the sell transaction
  txNonce,      \* txNonce[id]: the nonce it was signed with
  walletNonce,  \* walletNonce[w]: eth_getTransactionCount at "latest"
  balance,      \* balance[w]: sell tokens held
  allowance     \* allowance[w]: may the router spend the sell token?

chainVars == <<tx, txNonce, walletNonce, balance, allowance>>

TxStates == {"none", "pending", "success", "reverted", "replaced"}
Mined == {"success", "reverted"}

WalletOfId(id) == WalletOf[id[2]]

ChainTypeOK ==
  /\ tx \in [Ids -> TxStates]
  /\ txNonce \in [Ids -> Nat]
  /\ walletNonce \in [Wallets -> Nat]
  /\ balance \in [Wallets -> Nat]
  /\ allowance \in [Wallets -> BOOLEAN]

ChainInit ==
  /\ tx = [id \in Ids |-> "none"]
  /\ txNonce = [id \in Ids |-> 0]
  /\ walletNonce = [w \in Wallets |-> 0]
  /\ balance = Deposit
  /\ allowance = [w \in Wallets |-> w \in Approved]

\* The pending transactions that occupy nonce n of wallet w.
PendingAt(w, n) ==
  {id \in Ids : WalletOfId(id) = w /\ tx[id] = "pending" /\ txNonce[id] = n}

\* The mempool takes a transaction whose nonce is not used up.  One that
\* occupies the same nonce is replaced (the new gas price is higher; otherwise
\* the node refuses the new one, see the engine's SendRejected).
AcceptTx(id, n) ==
  /\ n >= walletNonce[WalletOfId(id)]
  /\ tx' = [i \in Ids |->
              IF i = id THEN "pending"
              ELSE IF i \in PendingAt(WalletOfId(id), n) THEN "replaced"
              ELSE tx[i]]
  /\ txNonce' = [txNonce EXCEPT ![id] = n]
  /\ UNCHANGED <<walletNonce, balance, allowance>>

\* A transaction of the wallet other than a sale (approve, sweep) is mined: it
\* uses a nonce up, and a sale waiting for that nonce will never be mined.
UseNonce(w) ==
  /\ tx' = [i \in Ids |->
              IF i \in PendingAt(w, walletNonce[w]) THEN "replaced" ELSE tx[i]]
  /\ walletNonce' = [walletNonce EXCEPT ![w] = @ + 1]

\* A pending sale whose turn it is gets mined.  It moves `amount` of the sell
\* token, or reverts: always when the wallet holds too little, and whenever
\* the pool no longer pays the minimum output.
MineSale(id, amount) ==
  LET w == WalletOfId(id) IN
  /\ tx[id] = "pending"
  /\ txNonce[id] = walletNonce[w]
  /\ walletNonce' = [walletNonce EXCEPT ![w] = @ + 1]
  /\ \/ /\ balance[w] >= amount
        /\ tx' = [tx EXCEPT ![id] = "success"]
        /\ balance' = [balance EXCEPT ![w] = @ - amount]
     \/ /\ tx' = [tx EXCEPT ![id] = "reverted"]
        /\ UNCHANGED balance
  /\ UNCHANGED <<txNonce, allowance>>
=============================================================================
