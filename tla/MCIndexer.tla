------------------------------ MODULE MCIndexer ------------------------------
(***************************************************************************)
(* Indexer for TLC: four blocks, of which the first is there at the start  *)
(* and has no logs.  Words have three bits, so -4..3 with a sign.  Block 2 *)
(* has a V3 swap of token 1 for token 0 and a deposit, block 3 a log of a  *)
(* contract that only looks like a pool and a V2 swap at the first one's   *)
(* address, block 4 a V2 swap the other way, a V3 swap whose first amount  *)
(* is rounded to zero, and an incomplete log.                              *)
(***************************************************************************)
EXTENDS Indexer

CONSTANTS p1, p2, token, u1, v1, v2, nobody

Log(topic, address, complete, words, to) ==
  [topic |-> topic, address |-> address, complete |-> complete,
   words |-> words, to |-> to]

Block2 ==
  <<Log("v3", p1, TRUE, <<6, 3>>, nobody),
    Log("transfer", token, TRUE, <<5>>, u1)>>
Block3 ==
  <<Log("v3", p2, TRUE, <<2, 7>>, nobody),
    Log("v2", p1, TRUE, <<3, 0, 0, 2>>, nobody)>>

Block4 ==
  <<Log("v2", p1, TRUE, <<0, 5, 1, 0>>, nobody),
    Log("v3", p1, TRUE, <<0, 1>>, nobody),
    Log("v3", p1, FALSE, <<1>>, nobody)>>

SomeLogs == [b \in Blocks |->
               CASE b = 2 -> Block2 [] b = 3 -> Block3 [] b = 4 -> Block4
                 [] OTHER -> <<>>]
=============================================================================
