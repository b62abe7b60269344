------------------------------ MODULE MCAccounts ------------------------------
(***************************************************************************)
(* Accounts for TLC: the administrator of the configuration, one other     *)
(* address and two handlers at a time.  The gateway starts for the first   *)
(* time, or there are users who have signed in before; then one token is   *)
(* left, which a refund may be confirmed with.                             *)
(***************************************************************************)
EXTENDS Accounts, TLC

CONSTANTS boss, u, q1, q2, f1

NoUsers == [e \in {boss, u} |-> Nothing]
NoWallets == [e \in {boss, u} |-> 0]
Verified(role, second) ==
  [NewUser(role, 0) EXCEPT !.verified = TRUE, !.live = FALSE,
                           !.secret = second, !.enabled = second]

Beginnings ==
  {[users |-> NoUsers, wallets |-> NoWallets, tokens |-> 0],
   [users |-> [NoUsers EXCEPT ![boss] = Verified("admin", TRUE),
                              ![u] = Verified("common", FALSE)],
    wallets |-> [NoWallets EXCEPT ![u] = 1], tokens |-> 1]}

\* The handlers are interchangeable.
Symmetry == Permutations({q1, q2})
=============================================================================
