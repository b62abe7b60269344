------------------------- MODULE EngineLedgerProofs -------------------------
(***************************************************************************)
(* The engine's books: amount_sold is the sum of the sales that were       *)
(* counted, and ExecutionEngine implements TradeLedger, step by step.      *)
(*                                                                         *)
(* A sum is a fold over a finite set, in an order of its own.  It is       *)
(* proved to be the number of pairs <<sale, unit>>, which no order matters *)
(* to, and counting the pairs is what the proof about amount_sold does.    *)
(***************************************************************************)
EXTENDS EngineRefinement, ExecutionEngineSafety, FiniteSetTheorems,
        WellFoundedInduction

-----------------------------------------------------------------------------
\* Sums over finite sets.

\* The element that the fold of a sum takes next.
Pick(T) == CHOOSE x \in T : TRUE

\* One pair for each unit of the amounts v[x] of the elements x of T, so that
\* the sum of the amounts is the number of the pairs.
Units(v, T) == {p \in T \X Nat : p[2] \in 1..v[p[1]]}

\* g is the recursive function that a fold adds the amounts of S with.
Adds(g, v, S) ==
  g = [T \in SUBSET S |-> IF T = {} THEN 0 ELSE v[Pick(T)] + g[T \ {Pick(T)}]]

\* A property of finite sets that holds of T when it holds of T without one
\* of its elements holds of all: there is no set B of exceptions.
LEMMA NoException ==
  ASSUME NEW S, NEW B \in SUBSET (SUBSET S),
         \A T \in B : IsFiniteSet(T),
         \A T \in B : \E x \in T : T \ {x} \in B
  PROVE  B = {}
<1> SUFFICES ASSUME B # {} PROVE FALSE
  OBVIOUS
<1>1. B \subseteq FiniteSubsetsOf(S)
  BY DEF FiniteSubsetsOf
<1>2. PICK T \in B : \A U \in B : ~(<<U, T>> \in StrictSubsetOrdering(S))
  BY <1>1, FS_StrictSubsetOrderingWellFounded, WFMin
<1>3. PICK x \in T : T \ {x} \in B
  OBVIOUS
<1>4. <<T \ {x}, T>> \in StrictSubsetOrdering(S)
  BY DEF StrictSubsetOrdering
<1>5. QED
  BY <1>2, <1>3, <1>4

\* The units of an element are as many as its amount.
LEMMA UnitsOfOne ==
  ASSUME NEW n \in Nat, NEW x
  PROVE  IsFiniteSet({x} \X (1..n)) /\ Cardinality({x} \X (1..n)) = n
<1>1. IsFiniteSet({x}) /\ Cardinality({x}) = 1
  BY FS_Singleton
<1>2. IsFiniteSet(1..n) /\ Cardinality(1..n) = n
  BY FS_Interval
<1>3. /\ IsFiniteSet({x} \X (1..n))
      /\ Cardinality({x} \X (1..n)) = Cardinality({x}) * Cardinality(1..n)
  <2> DEFINE A == {x}
             N == 1..n
  <2>1. IsFiniteSet(A) /\ IsFiniteSet(N)
    BY <1>1, <1>2
  <2> HIDE DEF A, N
  <2>2. IsFiniteSet(A \X N) /\ Cardinality(A \X N) = Cardinality(A) * Cardinality(N)
    BY <2>1, FS_Product
  <2>3. QED
    BY <2>2 DEF A, N
<1>4. QED
  BY <1>1, <1>2, <1>3

\* Taking an element away takes its units away.
LEMMA UnitsWithout ==
  ASSUME NEW S, NEW v \in [S -> Nat], NEW T \in SUBSET S, NEW x \in T,
         IsFiniteSet(Units(v, T \ {x}))
  PROVE  /\ IsFiniteSet(Units(v, T))
         /\ Cardinality(Units(v, T)) = v[x] + Cardinality(Units(v, T \ {x}))
<1> DEFINE rest == Units(v, T \ {x})
           own == {x} \X (1..v[x])
<1>1. IsFiniteSet(own) /\ Cardinality(own) = v[x]
  BY UnitsOfOne
<1>2. Units(v, T) = rest \cup own
  <2>1. ASSUME NEW p \in Units(v, T) PROVE p \in rest \cup own
    BY DEF Units
  <2>2. rest \subseteq Units(v, T)
    BY DEF Units
  <2>3. own \subseteq Units(v, T)
    BY DEF Units
  <2>4. QED
    BY <2>1, <2>2, <2>3
<1>3. rest \cap own = {}
  BY DEF Units
<1>4. Cardinality(rest \cap own) = 0
  BY <1>3, FS_EmptySet
<1>5. IsFiniteSet(rest) /\ Cardinality(rest) \in Nat
  BY FS_CardinalityType
<1> HIDE DEF rest, own
<1>6. /\ IsFiniteSet(rest \cup own)
      /\ Cardinality(rest \cup own) = Cardinality(rest) + Cardinality(own) - 0
  BY <1>1, <1>4, <1>5, FS_Union
<1>7. QED
  BY <1>1, <1>2, <1>5, <1>6 DEF rest

\* A finite set has finitely many units.
LEMMA UnitsFinite ==
  ASSUME NEW S, NEW v \in [S -> Nat], NEW T \in SUBSET S, IsFiniteSet(T)
  PROVE  IsFiniteSet(Units(v, T))
<1> DEFINE B == {U \in SUBSET T : ~IsFiniteSet(Units(v, U))}
<1>1. \A U \in B : IsFiniteSet(U)
  BY FS_Subset
<1>2. ASSUME NEW U \in B PROVE \E x \in U : U \ {x} \in B
  <2>1. U # {}
    <3>1. Units(v, {}) = {}
      BY DEF Units
    <3>2. QED
      BY <3>1, FS_EmptySet
  <2>2. PICK x \in U : TRUE
    BY <2>1
  <2>3. QED
    BY <2>2, UnitsWithout
<1>3. B = {}
  <2> HIDE DEF B
  <2>1. B \in SUBSET (SUBSET T)
    BY DEF B
  <2>2. QED
    BY <1>1, <1>2, <2>1, NoException
<1>4. QED
  BY <1>3

\* Whatever order a fold takes the elements in, it counts their units.
LEMMA AddsCounts ==
  ASSUME NEW S, IsFiniteSet(S), NEW v \in [S -> Nat], NEW g, Adds(g, v, S)
  PROVE  \A T \in SUBSET S : g[T] = Cardinality(Units(v, T))
<1> DEFINE B == {T \in SUBSET S : g[T] # Cardinality(Units(v, T))}
<1>1. \A T \in SUBSET S :
        g[T] = IF T = {} THEN 0 ELSE v[Pick(T)] + g[T \ {Pick(T)}]
  BY DEF Adds
<1>2. ASSUME NEW T \in B PROVE \E x \in T : T \ {x} \in B
  <2>1. T # {}
    <3>1. Units(v, {}) = {}
      BY DEF Units
    <3>2. QED
      BY <1>1, <3>1, FS_EmptySet
  <2>2. Pick(T) \in T
    BY <2>1 DEF Pick
  <2>3. IsFiniteSet(Units(v, T \ {Pick(T)}))
    BY FS_Subset, UnitsFinite
  <2>4. Cardinality(Units(v, T)) = v[Pick(T)] + Cardinality(Units(v, T \ {Pick(T)}))
    BY <2>2, <2>3, UnitsWithout
  <2>5. g[T] = v[Pick(T)] + g[T \ {Pick(T)}]
    BY <1>1, <2>1
  <2>6. g[T \ {Pick(T)}] # Cardinality(Units(v, T \ {Pick(T)}))
    BY <2>4, <2>5
  <2>7. QED
    BY <2>2, <2>6
<1>3. B = {}
  <2>1. \A T \in B : IsFiniteSet(T)
    BY FS_Subset
  <2>2. B \in SUBSET (SUBSET S)
    OBVIOUS
  <2> HIDE DEF B
  <2>3. QED
    BY <1>2, <2>1, <2>2, NoException
<1>4. QED
  BY <1>3

\* There is such a fold.
LEMMA AddsExists ==
  ASSUME NEW S, IsFiniteSet(S), NEW v \in [S -> Nat]
  PROVE  Adds([T \in SUBSET S |-> Cardinality(Units(v, T))], v, S)
<1> DEFINE g == [T \in SUBSET S |-> Cardinality(Units(v, T))]
<1>1. ASSUME NEW T \in SUBSET S
      PROVE  g[T] = IF T = {} THEN 0 ELSE v[Pick(T)] + g[T \ {Pick(T)}]
  <2>1. CASE T = {}
    <3>1. Units(v, {}) = {}
      BY DEF Units
    <3>2. QED
      BY <2>1, <3>1, FS_EmptySet
  <2>2. CASE T # {}
    <3>1. Pick(T) \in T
      BY <2>2 DEF Pick
    <3>2. IsFiniteSet(Units(v, T \ {Pick(T)}))
      BY FS_Subset, UnitsFinite
    <3>3. Cardinality(Units(v, T)) = v[Pick(T)] + Cardinality(Units(v, T \ {Pick(T)}))
      BY <3>1, <3>2, UnitsWithout
    <3>4. QED
      BY <2>2, <3>3
  <2>3. QED
    BY <2>1, <2>2
<1>2. QED
  BY <1>1 DEF Adds

\* The sum of the sales of a set is the number of their units.
LEMMA SumIsUnits ==
  \A T \in SUBSET Ids :
    IsFiniteSet(T) /\ (\A id \in T : AmountOf(id) \in Nat) =>
      MapThenSumSet(AmountOf, T) =
        Cardinality(Units([id \in T |-> AmountOf(id)], T))
<1> SUFFICES ASSUME NEW T \in SUBSET Ids, IsFiniteSet(T),
                    \A id \in T : AmountOf(id) \in Nat
             PROVE  MapThenSumSet(AmountOf, T) =
                      Cardinality(Units([id \in T |-> AmountOf(id)], T))
  OBVIOUS
<1> DEFINE v == [id \in T |-> AmountOf(id)]
           Fold(g) ==
             g = [s \in SUBSET T |->
                    IF s = {} THEN 0
                    ELSE AmountOf(CHOOSE x \in s : TRUE)
                           + g[s \ {CHOOSE x \in s : TRUE}]]
<1>1. v \in [T -> Nat]
  OBVIOUS
<1>2. ASSUME NEW g PROVE Fold(g) <=> Adds(g, v, T)
  <2>1. \A s \in SUBSET T : s # {} => v[Pick(s)] = AmountOf(Pick(s))
    BY DEF Pick
  <2>2. QED
    BY <2>1 DEF Adds, Pick
<1>3. MapThenSumSet(AmountOf, T) = (CHOOSE g : Fold(g))[T]
  BY DEF MapThenSumSet, MapThenFoldSet
<1>4. Adds(CHOOSE g : Fold(g), v, T)
  <2>1. \E g : Fold(g)
    BY <1>1, <1>2, AddsExists
  <2> HIDE DEF Fold
  <2>2. Fold(CHOOSE g : Fold(g))
    BY <2>1
  <2>3. QED
    BY <1>2, <2>2
<1> HIDE DEF v, Fold
<1>5. (CHOOSE g : Fold(g))[T] = Cardinality(Units(v, T))
  BY <1>1, <1>4, AddsCounts
<1>6. QED
  BY <1>3, <1>5 DEF v

-----------------------------------------------------------------------------
\* sessions.amount_sold.

\* The counted sales of a session.
Sales(s) == {id \in counted : id[2] = s}

\* amount_sold by units, and finitely many of them: what is inductive.
UnitsBalance ==
  /\ IsFiniteSet(counted)
  /\ \A s \in Sessions :
       amountSold[s] =
         Cardinality(Units([id \in Sales(s) |-> AmountOf(id)], Sales(s)))

\* A counted sale has a row, so its task was given its event, and the amount
\* is fixed.
LEMMA CountedFacts ==
  ASSUME Base, OneTradePerTrigger, NEW id \in counted
  PROVE  /\ id \in Ids
         /\ AmountOf(id) \in Nat
         /\ [Next]_vars => AmountOf(id)' = AmountOf(id)
<1>1. id \in Ids
  BY DEF Base, TypeOK
<1>2. id[1] \in Tasks /\ id[2] \in Sessions /\ id = <<id[1], id[2]>>
  BY <1>1 DEF Ids
<1>3. row[id] # "none"
  BY <1>2 DEF OneTradePerTrigger
<1>4. pc[id[1]] # "idle"
  BY <1>2, <1>3 DEF Base, Order, Unsent
<1>5. ev[id[1]] \in Events
  BY <1>2, <1>4 DEF Base, TypeOK, Control
<1>6. AmountOf(id) \in Nat
  BY <1>2, <1>5, SellAmountCapped DEF AmountOf, Amount, Base, TypeOK
<1>7. ASSUME [Next]_vars PROVE AmountOf(id)' = AmountOf(id)
  BY <1>2, <1>4, <1>7, EventStep DEF AmountOf
<1>8. QED
  BY <1>1, <1>6, <1>7

\* The UPDATE adds the amount of one sale that was not counted, to the sum as
\* to amount_sold; every other step leaves both alone.
LEMMA UnitsStep ==
  Base /\ OneTradePerTrigger /\ CountedOnce /\ UnitsBalance /\ [Next]_vars
    => UnitsBalance'
<1> SUFFICES ASSUME Base, OneTradePerTrigger, CountedOnce, UnitsBalance,
                    [Next]_vars
             PROVE  UnitsBalance'
  OBVIOUS
<1>1. CASE UNCHANGED <<amountSold, counted>>
  <2>1. ASSUME NEW s \in Sessions
        PROVE  Units([id \in Sales(s) |-> AmountOf(id)], Sales(s))'
                 = Units([id \in Sales(s) |-> AmountOf(id)], Sales(s))
    <3>1. Sales(s)' = Sales(s)
      BY <1>1 DEF Sales
    <3>2. \A id \in Sales(s) : AmountOf(id)' = AmountOf(id)
      BY CountedFacts DEF Sales
    <3>3. QED
      BY <3>1, <3>2 DEF Units
  <2>2. QED
    BY <1>1, <2>1 DEF UnitsBalance
<1>2. ASSUME NEW t \in Tasks, CountSale(t)
      PROVE  UnitsBalance'
  <2>1. /\ pc[t] = "count" /\ cur[t] \in Sessions /\ CurId(t) \in Ids
        /\ Amount(t, cur[t]) \in Nat
    BY <1>2, InSessionFacts DEF CountSale, Base, InSession, BeforeCount
  <2>2. PICK s \in Sessions : s = cur[t]
    BY <2>1
  <2>3. PICK x \in Ids : x = <<t, s>> /\ x = CurId(t)
    BY <2>1, <2>2 DEF CurId
  <2>4. /\ counted' = counted \cup {x}
        /\ amountSold' = [amountSold EXCEPT ![s] = @ + Amount(t, s)]
    BY <1>2, <2>2, <2>3 DEF CountSale, NewAmountSold, Base, TypeOK
  <2>5. x \notin counted
    BY <2>1, <2>3 DEF CountedOnce
  <2>6. AmountOf(x)' = Amount(t, s) /\ Amount(t, s) \in Nat
    <3>1. Amount(t, s)' = Amount(t, s)
      BY <2>1, EventStep
    <3>2. QED
      BY <2>1, <2>2, <2>3, <3>1 DEF AmountOf
  <2>7. IsFiniteSet(counted')
    BY <2>4, FS_AddElement DEF UnitsBalance
  <2>8. ASSUME NEW q \in Sessions, q # s
        PROVE  amountSold'[q] =
                 Cardinality(Units([id \in Sales(q) |-> AmountOf(id)], Sales(q)))'
    <3>1. Sales(q)' = Sales(q)
      BY <2>3, <2>4, <2>8 DEF Sales
    <3>2. \A id \in Sales(q) : AmountOf(id)' = AmountOf(id)
      BY CountedFacts DEF Sales
    <3>3. Units([id \in Sales(q) |-> AmountOf(id)], Sales(q))'
            = Units([id \in Sales(q) |-> AmountOf(id)], Sales(q))
      BY <3>1, <3>2 DEF Units
    <3>4. amountSold'[q] = amountSold[q]
      BY <2>4, <2>8 DEF Base, TypeOK
    <3>5. QED
      BY <3>3, <3>4 DEF UnitsBalance
  <2>9. amountSold'[s] =
          Cardinality(Units([id \in Sales(s) |-> AmountOf(id)], Sales(s)))'
    <3> DEFINE T == Sales(s)
               v == [id \in Sales(s) |-> AmountOf(id)]
               w == [id \in Sales(s)' |-> AmountOf(id)']
    <3>1. Sales(s)' = T \cup {x} /\ x \notin T
      BY <2>3, <2>4, <2>5 DEF Sales
    <3>2. \A id \in T : AmountOf(id)' = AmountOf(id) /\ AmountOf(id) \in Nat
      BY CountedFacts DEF Sales
    <3>3. w \in [T \cup {x} -> Nat] /\ w[x] = Amount(t, s)
      BY <2>6, <3>1, <3>2
    <3>4. (T \cup {x}) \ {x} = T
      BY <3>1
    <3>5. Units(w, T) = Units(v, T)
      BY <3>1, <3>2 DEF Units
    <3>6. v \in [T -> Nat] /\ IsFiniteSet(T)
      BY <3>2, FS_Subset DEF Sales, UnitsBalance
    <3> HIDE DEF T, v, w
    <3>7. IsFiniteSet(Units(w, T))
      BY <3>5, <3>6, UnitsFinite
    <3>8. Cardinality(Units(w, T \cup {x})) = Amount(t, s) + Cardinality(Units(w, T))
      BY <3>3, <3>4, <3>7, UnitsWithout
    <3>9. amountSold[s] = Cardinality(Units(v, T))
      BY DEF UnitsBalance, v, T
    <3>10. amountSold'[s] = amountSold[s] + Amount(t, s)
      BY <2>4 DEF Base, TypeOK
    <3>11. amountSold'[s] = Cardinality(Units(w, T \cup {x}))
      BY <2>6, <3>5, <3>8, <3>9, <3>10 DEF Base, TypeOK
    <3>12. QED
      BY <3>1, <3>11 DEF w
  <2>10. QED
    BY <2>7, <2>8, <2>9 DEF UnitsBalance
<1>3. QED
  BY <1>1, <1>2, LedgerWriters

\* The books balance by units in every reachable state.
LEMMA UnitsBalanced == Spec => []UnitsBalance
<1>1. Init => UnitsBalance
  <2> SUFFICES ASSUME Init PROVE UnitsBalance
    OBVIOUS
  <2>1. \A s : Sales(s) = {}
    BY DEF Init, Sales
  <2>2. \A v : Units(v, {}) = {}
    BY DEF Units
  <2>3. QED
    BY <2>1, <2>2, FS_EmptySet DEF Init, UnitsBalance
<1>2. QED
  BY <1>1, UnitsStep, OneTrade, CountedOnceHolds, BaseHolds, PTL DEF Spec

\* sessions.amount_sold is the sum of the sales whose UPDATE of record_trade
\* ran, whatever tasks, reconcilers, crashes and failing statements came in
\* between: no relative UPDATE is lost and none is run twice.
THEOREM BooksBalance == Spec => []LedgerBalances
<1>1. Base /\ OneTradePerTrigger /\ UnitsBalance => LedgerBalances
  <2> SUFFICES ASSUME Base, OneTradePerTrigger, UnitsBalance,
                      NEW s \in Sessions
               PROVE  amountSold[s] = MapThenSumSet(AmountOf, Sales(s))
    BY DEF LedgerBalances, Sales
  <2>1. Sales(s) \in SUBSET Ids /\ IsFiniteSet(Sales(s))
    BY FS_Subset DEF Sales, UnitsBalance, Base, TypeOK
  <2>2. \A id \in Sales(s) : AmountOf(id) \in Nat
    BY CountedFacts DEF Sales
  <2>3. QED
    BY <2>1, <2>2, SumIsUnits DEF UnitsBalance
<1>2. QED
  BY <1>1, UnitsBalanced, OneTrade, BaseHolds, PTL

-----------------------------------------------------------------------------
\* The ledger.

\* The trade of a session and a trigger has the status of the one row there is
\* for them, and none if there is no row.
BarCorrect ==
  /\ \A t \in Tasks, s \in Sessions :
       row[<<t, s>>] # "none" =>
         ev[t] \in Events /\ tradeBar[<<s, ev[t]>>] = row[<<t, s>>]
  /\ \A s \in Sessions, e \in Events :
       ~TriggerConflict(s, e) => tradeBar[<<s, e>>] = "none"

\* The mapping finds the row, because there is only one.
LEMMA BarIsCorrect == Base /\ OneTradePerTrigger => BarCorrect
<1> SUFFICES ASSUME Base, OneTradePerTrigger PROVE BarCorrect
  OBVIOUS
<1>1. ASSUME NEW t \in Tasks, NEW s \in Sessions, row[<<t, s>>] # "none"
      PROVE  ev[t] \in Events /\ tradeBar[<<s, ev[t]>>] = row[<<t, s>>]
  <2>1. ev[t] \in Events
    BY <1>1 DEF Base, TypeOK, Control, Order, Unsent
  <2>2. Recorder(s, ev[t]) = t
    BY <1>1 DEF Recorder, OneTradePerTrigger
  <2>3. TriggerConflict(s, ev[t])
    BY <1>1 DEF TriggerConflict
  <2>4. QED
    BY <2>1, <2>2, <2>3 DEF tradeBar
<1>2. ASSUME NEW s \in Sessions, NEW e \in Events, ~TriggerConflict(s, e)
      PROVE  tradeBar[<<s, e>>] = "none"
  BY <1>2 DEF tradeBar
<1>3. QED
  BY <1>1, <1>2 DEF BarCorrect

\* It finds it in the next state too.
LEMMA BarStep ==
  Base /\ OneTradePerTrigger /\ [Next]_vars => BarCorrect /\ BarCorrect'
<1>1. Base' /\ OneTradePerTrigger' => BarCorrect'
  BY BarIsCorrect, PTL
<1>2. QED
  BY <1>1, BarIsCorrect, BaseStep, OneTradeStep

\* A step that writes one row writes the one trade it stands for.
LEMMA BarUpdate ==
  ASSUME Base, OneTradePerTrigger, [Next]_vars,
         NEW t \in Tasks, NEW s \in Sessions, NEW v, v # "none",
         ev[t] \in Events, row' = [row EXCEPT ![<<t, s>>] = v]
  PROVE  tradeBar' = [tradeBar EXCEPT ![<<s, ev[t]>>] = v]
<1>1. BarCorrect /\ BarCorrect'
  BY BarStep
<1>2. <<t, s>> \in Ids /\ row'[<<t, s>>] = v
  BY DEF Ids, Base, TypeOK
<1>3. pc[t] # "idle"
  BY EngineConstants DEF Base, Control
<1>4. tradeBar'[<<s, ev[t]>>] = v
  BY <1>1, <1>2, <1>3, EventStep DEF BarCorrect
<1>5. ASSUME NEW x \in Sessions, NEW e \in Events, <<x, e>> # <<s, ev[t]>>
      PROVE  tradeBar'[<<x, e>>] = tradeBar[<<x, e>>]
  <2>1. CASE TriggerConflict(x, e)
    <3>1. PICK u \in Tasks : ev[u] = e /\ row[<<u, x>>] # "none"
      BY <2>1 DEF TriggerConflict
    <3>2. pc[u] # "idle"
      BY <3>1 DEF Base, Order, Unsent
    <3>3. ev'[u] = e
      BY <3>1, <3>2, EventStep
    <3>4. <<u, x>> # <<t, s>>
      BY <1>5, <3>1
    <3>5. row'[<<u, x>>] = row[<<u, x>>]
      BY <3>4 DEF Base, TypeOK, Ids
    <3>6. QED
      BY <1>1, <3>1, <3>3, <3>5 DEF BarCorrect
  <2>2. CASE ~TriggerConflict(x, e)
    <3>1. ~TriggerConflict(x, e)'
      <4> SUFFICES ASSUME NEW u \in Tasks, ev'[u] = e, row'[<<u, x>>] # "none"
                   PROVE  FALSE
        BY DEF TriggerConflict
      <4>1. CASE <<u, x>> = <<t, s>>
        BY <1>3, <1>5, <4>1, EventStep
      <4>2. CASE <<u, x>> # <<t, s>>
        <5>1. row[<<u, x>>] # "none"
          BY <4>2 DEF Base, TypeOK, Ids
        <5>2. pc[u] # "idle"
          BY <5>1 DEF Base, Order, Unsent
        <5>3. QED
          BY <2>2, <5>1, <5>2, EventStep DEF TriggerConflict
      <4>3. QED
        BY <4>1, <4>2
    <3>2. QED
      BY <1>1, <2>2, <3>1 DEF BarCorrect
  <2>3. QED
    BY <2>1, <2>2
<1>6. QED
  <2>1. /\ tradeBar = [p \in Sessions \X Events |-> tradeBar[p]]
        /\ tradeBar' = [p \in Sessions \X Events |-> tradeBar'[p]]
    BY DEF tradeBar
  <2>2. \A p \in Sessions \X Events :
          tradeBar'[p] = IF p = <<s, ev[t]>> THEN v ELSE tradeBar[p]
    BY <1>4, <1>5
  <2> HIDE DEF tradeBar
  <2>3. QED
    BY <2>1, <2>2

\* A step that writes no row changes no trade.
LEMMA BarSame ==
  ASSUME Base, OneTradePerTrigger, [Next]_vars, UNCHANGED row
  PROVE  tradeBar' = tradeBar
<1>1. BarCorrect /\ BarCorrect'
  BY BarStep
<1>2. ASSUME NEW t \in Tasks, NEW s \in Sessions, row[<<t, s>>] # "none"
      PROVE  ev'[t] = ev[t]
  BY <1>2, EventStep DEF Base, Order, Unsent
<1>3. ASSUME NEW s \in Sessions, NEW e \in Events
      PROVE  tradeBar'[<<s, e>>] = tradeBar[<<s, e>>]
  <2>1. CASE TriggerConflict(s, e)
    BY <1>1, <1>2, <2>1 DEF TriggerConflict, BarCorrect
  <2>2. CASE ~TriggerConflict(s, e)
    <3>1. ~TriggerConflict(s, e)'
      BY <1>2, <2>2 DEF TriggerConflict
    <3>2. QED
      BY <1>1, <2>2, <3>1 DEF BarCorrect
  <2>3. QED
    BY <2>1, <2>2
<1>4. QED
  BY <1>3 DEF tradeBar

\* A step that counts nothing books nothing.
LEMMA BookedSame ==
  ASSUME Base, OneTradePerTrigger, [Next]_vars, UNCHANGED counted
  PROVE  bookedBar' = bookedBar
<1>1. ASSUME NEW t \in Tasks, NEW s \in Sessions, <<t, s>> \in counted
      PROVE  ev'[t] = ev[t]
  BY <1>1, EventStep DEF Base, Order, Unsent, OneTradePerTrigger
<1>2. QED
  BY <1>1 DEF bookedBar

\* A row written with value v is a write the ledger allows: the INSERT of a
\* trigger that has no trade, a confirmation, or a failure of a trade that is
\* not confirmed.
LedgerWrite(t, s, v) ==
  /\ ev[t] \in Events
  /\ row' = [row EXCEPT ![<<t, s>>] = v]
  /\ \/ /\ v = "submitted"
        /\ row[<<t, s>>] = "none" /\ ~TriggerConflict(s, ev[t])
     \/ v = "confirmed" /\ row[<<t, s>>] # "none"
     \/ v = "failed" /\ row[<<t, s>>] \in {"submitted", "failed"}

\* Confirming or failing a row that is there is such a write.
LEMMA MarkWrites ==
  ASSUME Base, NEW id \in Ids, row[id] # "none",
         \/ MarkTradeConfirmed(id)
         \/ \E why \in Reasons : MarkTradeFailed(id, why)
  PROVE  \E t \in Tasks, s \in Sessions, v \in RowStates : LedgerWrite(t, s, v)
<1>1. PICK t \in Tasks, s \in Sessions : id = <<t, s>>
  BY DEF Ids
<1>2. ev[t] \in Events
  BY <1>1 DEF Base, TypeOK, Control, Order, Unsent
<1>3. row[id] \in RowStates
  BY DEF Base, TypeOK
<1>4. CASE MarkTradeConfirmed(id)
  BY <1>1, <1>2, <1>4 DEF MarkTradeConfirmed, LedgerWrite, RowStates
<1>5. CASE /\ \E why \in Reasons : MarkTradeFailed(id, why)
           /\ row[id] = "confirmed"
  BY <1>1, <1>2, <1>5 DEF MarkTradeFailed, LedgerWrite, RowStates
<1>6. CASE /\ \E why \in Reasons : MarkTradeFailed(id, why)
           /\ row[id] # "confirmed"
  BY <1>1, <1>2, <1>3, <1>6 DEF MarkTradeFailed, LedgerWrite, RowStates
<1>7. QED
  BY <1>4, <1>5, <1>6

\* Every write of a row is one the ledger allows.
LEMMA RowsWrittenByLedger ==
  ASSUME Base, [Next]_vars
  PROVE  \/ row' = row
         \/ \E t \in Tasks, s \in Sessions, v \in RowStates :
              LedgerWrite(t, s, v)
<1>1. CASE \E t \in Tasks : InsertTrade(t)
  <2>1. PICK t \in Tasks : InsertTrade(t)
    BY <1>1
  <2>2. cur[t] \in Sessions /\ ev[t] \in Events /\ row[<<t, cur[t]>>] = "none"
    BY <2>1, InSessionFacts
    DEF InsertTrade, Base, Order, InSession, BeforeCount
  <2>3. LedgerWrite(t, cur[t], "submitted")
    BY <2>1, <2>2 DEF InsertTrade, CurId, LedgerWrite
  <2>4. QED
    BY <2>2, <2>3 DEF RowStates
<1>2. CASE \E t \in Tasks :
             \/ FinalizeConfirmed(t) \/ FinalizeReverted(t)
             \/ FinalizeAmountFails(t) \/ FinalizeError(t) \/ FinalizeFails(t)
  <2>1. PICK t \in Tasks :
             \/ FinalizeConfirmed(t) \/ FinalizeReverted(t)
             \/ FinalizeAmountFails(t) \/ FinalizeError(t) \/ FinalizeFails(t)
    BY <1>2
  <2>2. pc[t] = "finalize"
    BY <2>1 DEF FinalizeConfirmed, FinalizeReverted, FinalizeAmountFails,
       FinalizeError, FinalizeFails
  <2>3. CurId(t) \in Ids /\ row[CurId(t)] # "none"
    BY <2>2, InSessionFacts DEF CurId, Base, Order, InSession, AfterCount
  <2>4. \/ row' = row
        \/ MarkTradeConfirmed(CurId(t))
        \/ \E why \in Reasons : MarkTradeFailed(CurId(t), why)
    BY <2>1 DEF FinalizeConfirmed, FinalizeReverted, FinalizeAmountFails,
       FinalizeError, FinalizeFails, Reasons
  <2>5. QED
    BY <2>3, <2>4, MarkWrites
<1>3. CASE \E r \in Replicas, id \in Ids :
             ReconcileConfirmed(r, id) \/ ReconcileReverted(r, id)
  <2>1. PICK r \in Replicas, id \in Ids :
             ReconcileConfirmed(r, id) \/ ReconcileReverted(r, id)
    BY <1>3
  <2>2. row[id] # "none"
    BY <2>1 DEF ReconcileConfirmed, ReconcileReverted, Base, BatchRecorded
  <2>3. \/ MarkTradeConfirmed(id)
        \/ \E why \in Reasons : MarkTradeFailed(id, why)
    BY <2>1 DEF ReconcileConfirmed, ReconcileReverted, Reasons
  <2>4. QED
    BY <2>2, <2>3, MarkWrites
<1>4. QED
  BY <1>1, <1>2, <1>3, RowWriters

\* Every step of the engine is a step of the ledger or changes nothing of it.
LEMMA LedgerRefined ==
  Base /\ OneTradePerTrigger /\ CountedOnce /\ [Next]_vars
    => [Ledger!LedgerNext]_(Ledger!ledgerVars)
<1> SUFFICES ASSUME Base, OneTradePerTrigger, CountedOnce, [Next]_vars
             PROVE  [Ledger!LedgerNext]_(Ledger!ledgerVars)
  OBVIOUS
<1>1. BarCorrect /\ BarCorrect'
  BY BarStep
<1>2. CASE \E t \in Tasks : CountSale(t)
  <2>1. PICK t \in Tasks : CountSale(t)
    BY <1>2
  <2> DEFINE p == <<cur[t], ev[t]>>
  <2>2. /\ cur[t] \in Sessions /\ ev[t] \in Events /\ pc[t] = "count"
        /\ Amount(t, cur[t]) \in Nat
    BY <2>1, InSessionFacts DEF CountSale, Base, InSession, BeforeCount
  <2>3. p \in Sessions \X Events /\ p[1] = cur[t] /\ p[2] = ev[t]
    BY <2>2
  <2>4. row[<<t, cur[t]>>] # "none"
    BY <2>2 DEF Base, Order
  <2>5. tradeBar[p] # "none"
    BY <1>1, <2>2, <2>4 DEF BarCorrect
  <2>6. p \notin bookedBar
    <3> SUFFICES ASSUME NEW u \in Tasks, ev[u] = ev[t],
                        <<u, cur[t]>> \in counted
                 PROVE  FALSE
      BY <2>3 DEF bookedBar
    <3>1. u = t
      BY <2>2, <2>4 DEF OneTradePerTrigger
    <3>2. QED
      BY <2>2, <3>1 DEF CountedOnce, CurId
  <2>7. bookedBar' = bookedBar \cup {p}
    <3>1. UNCHANGED ev /\ counted' = counted \cup {<<t, cur[t]>>}
      BY <2>1 DEF CountSale, Goto, CurId
    <3>2. QED
      BY <2>3, <3>1 DEF bookedBar
  <2>8. tradeBar' = tradeBar
    BY <2>1, BarSame DEF CountSale
  <2>9. /\ amountSold' = [amountSold EXCEPT ![p[1]] = amountSold'[p[1]]]
        /\ amountSold'[p[1]] >= amountSold[p[1]]
    BY <2>1, <2>2, <2>3 DEF CountSale, NewAmountSold, Base, TypeOK
  <2>10. Ledger!Book(p)
    BY <2>5, <2>6, <2>7, <2>8, <2>9 DEF Ledger!Book
  <2>11. QED
    BY <2>3, <2>10 DEF Ledger!LedgerNext
<1>3. ASSUME UNCHANGED <<amountSold, counted>>
      PROVE  UNCHANGED <<bookedBar, amountSold>>
  BY <1>3, BookedSame
<1>4. CASE UNCHANGED <<row, amountSold, counted>>
  BY <1>3, <1>4, BarSame DEF Ledger!ledgerVars
<1>5. ASSUME NEW t \in Tasks, NEW s \in Sessions, NEW v \in RowStates,
             UNCHANGED <<amountSold, counted>>, LedgerWrite(t, s, v)
      PROVE  Ledger!LedgerNext
  <2> DEFINE p == <<s, ev[t]>>
  <2>1. p \in Sessions \X Events
    BY <1>5 DEF LedgerWrite
  <2>2. tradeBar' = [tradeBar EXCEPT ![p] = v]
    BY <1>5, BarUpdate DEF LedgerWrite
  <2>3. UNCHANGED <<bookedBar, amountSold>>
    BY <1>3, <1>5
  <2>4. row[<<t, s>>] # "none" => tradeBar[p] = row[<<t, s>>]
    BY <1>1 DEF BarCorrect
  <2>5. ~TriggerConflict(s, ev[t]) => tradeBar[p] = "none"
    BY <1>1, <1>5 DEF BarCorrect, LedgerWrite
  <2>6. Ledger!Record(p) \/ Ledger!Confirm(p) \/ Ledger!Fail(p)
    BY <1>5, <2>2, <2>3, <2>4, <2>5
    DEF LedgerWrite, Ledger!Record, Ledger!Confirm, Ledger!Fail
  <2>7. QED
    BY <2>1, <2>6 DEF Ledger!LedgerNext
<1>6. CASE UNCHANGED <<amountSold, counted>>
  <2>1. CASE row' = row
    BY <1>4, <1>6, <2>1
  <2>2. CASE \E t \in Tasks, s \in Sessions, v \in RowStates :
               LedgerWrite(t, s, v)
    BY <1>5, <1>6, <2>2
  <2>3. QED
    BY <2>1, <2>2, RowsWrittenByLedger
<1>7. QED
  BY <1>2, <1>6, LedgerWriters

\* Nothing is recorded, booked or sold at the start.
LEMMA LedgerStarts == Init => Ledger!LedgerInit
<1> SUFFICES ASSUME Init PROVE Ledger!LedgerInit
  OBVIOUS
<1>1. row = [id \in Ids |-> "none"] /\ counted = {}
      /\ amountSold = [s \in Sessions |-> 0]
  BY DEF Init
<1>2. \A s \in Sessions, e \in Events : ~TriggerConflict(s, e)
  BY <1>1 DEF TriggerConflict, Ids
<1>3. tradeBar = [p \in Sessions \X Events |-> "none"]
  BY <1>2 DEF tradeBar
<1>4. bookedBar = {}
  BY <1>1 DEF bookedBar
<1>5. QED
  BY <1>1, <1>3, <1>4 DEF Ledger!LedgerInit

\* The tables trades and sessions.amount_sold behave like the ledger whatever
\* the tasks, reconcilers, crashes and redeliveries do to them, for every
\* number of events, sessions, deliveries and replicas: record_trade records a
\* trigger once and books it once, and a confirmed trade is final.
THEOREM EngineImplementsLedger == Spec => ImplementsLedger
<1>1. Spec => []Base /\ []OneTradePerTrigger /\ []CountedOnce
  BY BaseHolds, OneTrade, CountedOnceHolds, PTL
<1>2. QED
  BY <1>1, LedgerStarts, LedgerRefined, PTL
  DEF Spec, ImplementsLedger, Ledger!LedgerSpec
=============================================================================
