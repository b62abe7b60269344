------------------------------ MODULE MCEngine ------------------------------
(***************************************************************************)
(* ExecutionEngine for TLC.  A swap of 20 at 10% makes a sale of 2 out of  *)
(* a total of 3: the first sale leaves a smaller rest, the second is       *)
(* capped and completes the session, and two sales from one snapshot       *)
(* oversell it.  The wallet of one session holds more than the total, so   *)
(* that an oversold token can really be sold.                              *)
(***************************************************************************)
EXTENDS EngineRefinement, TLC

CONSTANTS e1, e2, s1, s2, r1, r2, t1, t2, w1

OneReplica == [t \in Tasks |-> r1]
TwoReplicas == [t \in Tasks |-> IF t = t1 THEN r1 ELSE r2]

OneWallet == [s \in Sessions |-> w1]
Holdings == [w \in Wallets |-> 4]

EveryoneWatches == [e \in Events |-> Sessions]
Swaps == [e \in Events |-> 20]
TenPercent == [s \in Sessions |-> 1000]
Totals == [s \in Sessions |-> 3]

\* With one replica all deliveries are alike.
TaskSymmetry == Permutations(Tasks)

\* With two, each has its delivery: the pairs may change places, and so may the
\* events, which carry the same swap.
ReplicaSwap == (t1 :> t2) @@ (t2 :> t1) @@ (r1 :> r2) @@ (r2 :> r1)
ReplicaSymmetry == Permutations(Events) \cup {ReplicaSwap}
=============================================================================
