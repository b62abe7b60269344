------------------------------- MODULE MCRouting -------------------------------
(***************************************************************************)
(* A token above the base tokens with a pool of each type, and a bridge of *)
(* each type between the base tokens, one of which is the wrapped coin.    *)
(***************************************************************************)
EXTENDS Routing

WBNB == 2
USDT == 3
High == 4  \* a token with a higher address than the base tokens

Market_ ==
  << [type |-> "v2", pair |-> <<WBNB, High>>, fee |-> 0],
     [type |-> "v3", pair |-> <<WBNB, High>>, fee |-> 500],
     [type |-> "v2", pair |-> <<WBNB, USDT>>, fee |-> 0],
     [type |-> "v3", pair |-> <<WBNB, USDT>>, fee |-> 100] >>

Asks_ == {[sell |-> High, target |-> USDT], [sell |-> High, target |-> WBNB],
          [sell |-> WBNB, target |-> USDT], [sell |-> USDT, target |-> USDT]}
================================================================================
