------------------------------ MODULE MCSessions ------------------------------
(***************************************************************************)
(* Sessions for TLC.  The seeded session sells two of the three tokens of  *)
(* w1, which has one unit of gas; the estimate is three and the gas wallet *)
(* has as many, so it can fund one activation and not two.  Two tasks that *)
(* read the session before either sold take all three tokens.              *)
(***************************************************************************)
EXTENDS Sessions

CONSTANTS s0, r1, r2, r3, u1, u2, admin, w1, w2, gw, p1, p2, p3

Seeded ==
  [s \in {s0} |->
     [status |-> "pending", owner |-> u1, wallet |-> w1, amount |-> 2, sold |-> 0,
      pov |-> 5, pools |-> {p1}]]

WalletOwners == [w \in {w1, w2} |-> IF w = w1 THEN u1 ELSE u2]
Reserves == [p \in {p1, p2, p3} |-> IF p = p1 THEN 1 ELSE 2]
Balances ==
  [held |-> [w \in {w1, w2} |-> IF w = w1 THEN 3 ELSE 1],
   proceeds |-> [w \in {w1, w2} |-> IF w = w1 THEN 1 ELSE 0],
   gas |-> [a \in {w1, w2, gw} |-> IF a = gw THEN 3 ELSE 1]]

AskFor(kind, by, w, s, n, ps) ==
  [kind |-> kind, by |-> by, wallet |-> w, session |-> s, amount |-> n, pools |-> ps]

SomeAsks ==
  {AskFor("create", admin, w1, s0, 2, <<p1, p2>>),
   AskFor("create", u1, w1, s0, 4, <<p1>>),
   AskFor("create", u1, w1, s0, 1, <<p1, p3>>),
   AskFor("sell", u2, w2, s0, 0, <<>>),
   AskFor("sell", u1, w1, s0, 0, <<>>),
   AskFor("active", admin, w1, s0, 0, <<>>),
   AskFor("active", admin, w1, r1, 0, <<>>),
   AskFor("cancelled", admin, w1, s0, 0, <<>>),
   AskFor("withdraw", admin, w1, s0, 0, <<>>)}
=============================================================================
