----------------------------- MODULE RoutingProofs -----------------------------
(***************************************************************************)
(* The safety properties of Routing as theorems.                           *)
(*                                                                         *)
(* The inductive invariant says of every route, wherever it is kept, for   *)
(* whom it was built: the cache has it under that key, the page has it for *)
(* the choice of tokens that is on the page unless an answer came late,    *)
(* and a stored session for its own, in either way to write the native     *)
(* coin.  What the engine makes of a stored route then follows from the    *)
(* route alone.                                                            *)
(***************************************************************************)
EXTENDS Routing, FiniteSetTheorems, SequenceTheorems, WellFoundedInduction, TLAPS

--------------------------------------------------------------------------------
(* The inductive invariant. *)

\* The row of a pool that was discovered for a token.
RowOf(p, token) ==
  IF Market[p].type = "v2" THEN DiscoverV2(p, token) ELSE DiscoverV3(p, token)

\* A route as the service, the page and the table keep it.
Route ==
  [hops : Seq(Pools), tokens : Seq(Nat), fees : Seq(Nat), default : BOOLEAN]

\* path leads from what ask sells to what it wants.  No pool leads from a
\* token to itself, although the service has a route for that.
PathFor(ask, path) ==
  /\ path \in Seq(Tokens)
  /\ path # << >>
  /\ path[1] = ask.sell
  /\ ask.sell # ask.target => LeadsTo(path, ask)

\* What the engine reads in a route, however the native coin was written down,
\* is a path for ask, or for another ask when the route came late.
WrittenFor(ask, late, route) ==
  \E a \in Asks : (a = ask \/ late) /\ PathFor(a, RouteTokens(route).path)

\* Answers of the service, and their cache.
AnswerFor(ask, answer) ==
  answer = Nothing \/ (answer \in Route /\ PathFor(ask, answer.tokens))

CacheKeepsRoutes ==
  \A p \in Pools, ask \in Asks :
    CacheKey(p, ask) \in DOMAIN cache => AnswerFor(ask, cache[CacheKey(p, ask)])

\* A call asks about a row that was discovered for its own choice of tokens.
CallsAskOfRows ==
  \A c \in calls :
    /\ c.ask \in Asks
    /\ c.pool \in Discoverable(c.ask.sell)
    /\ c.row = RowOf(c.pool, c.ask.sell)

\* The page.
Page ==
  [ask : Asks, rows : {DiscoverPools(a.sell, Pools) : a \in Asks},
   selected : SUBSET Pools, loading : SUBSET Pools,
   routes : [DOMAIN page.routes -> Route], late : BOOLEAN]

PageShowsRoutes ==
  page # Nothing =>
    /\ page \in Page
    /\ page.rows = DiscoverPools(page.ask.sell, Pools)
    /\ page.selected \subseteq Discoverable(page.ask.sell)
    /\ \A p \in DOMAIN page.routes :
         WrittenFor(page.ask, page.late, page.routes[p])

\* The tables.
SessionsHaveRoutes ==
  \A s \in stored :
    /\ s.ask \in Asks
    /\ \A p \in DOMAIN s.rows :
         /\ p \in Discoverable(s.ask.sell)
         /\ s.rows[p] = RowOf(p, s.ask.sell)
         /\ s.routes[p] \in Route
         /\ \/ WrittenFor(s.ask, s.late, s.routes[p])
            \/ s.routes[p] = DefaultSwapPath(p, s.rows[p], s.ask.sell)

RoutingInv ==
  /\ CacheKeepsRoutes
  /\ CallsAskOfRows
  /\ PageShowsRoutes
  /\ SessionsHaveRoutes

--------------------------------------------------------------------------------
(* Pools and routes. *)

\* A pool that is discovered for a token holds the token and a base token,
\* and its row says so, whichever way round.
LEMMA RowFacts ==
  ASSUME NEW token \in Tokens, NEW p \in Discoverable(token)
  PROVE  LET row == RowOf(p, token)
             other == OtherToken(token, row)
         IN /\ p \in Pools
            /\ other \in Tokens /\ other # token
            /\ PairOf(p) = {token, other}
            /\ PairOf(p) = {row.token0, row.token1}
            /\ row.type = Market[p].type /\ row.type \in {"v2", "v3"}
            /\ row.fee \in Nat
<1>1. p \in Pools /\ Market[p].type \in {"v2", "v3"} /\ Market[p].fee \in Nat
  BY RoutingConstants DEF Discoverable, Pools
<1>2. PICK base \in Base \ {token} : PairOf(p) = {token, base}
  BY DEF Discoverable
<1>3. base \in Tokens /\ base # token
  BY <1>2, RoutingConstants
<1>4. (CHOOSE t \in PairOf(p) : t # token) = base
  BY <1>2, <1>3
<1>5. CASE Market[p].type = "v2"
  BY <1>1, <1>2, <1>3, <1>5 DEF RowOf, DiscoverV2, OtherToken, PairOf
<1>6. CASE Market[p].type = "v3"
  BY <1>1, <1>2, <1>3, <1>4, <1>6 DEF RowOf, DiscoverV3, OtherToken
<1>7. QED
  BY <1>1, <1>5, <1>6

\* Discovery finds such pools, and gives each its row.
LEMMA RowsDiscovered ==
  ASSUME NEW token, NEW found, NEW p \in DOMAIN DiscoverPools(token, found)
  PROVE  /\ p \in Discoverable(token)
         /\ DiscoverPools(token, found)[p] = RowOf(p, token)
BY DEF DiscoverPools, RowOf

\* A set of numbers has a least one: of the intervals from zero to its members
\* one is a subset of all the others.
LEMMA LeastOf ==
  ASSUME NEW S \in SUBSET Nat, S # {}
  PROVE  \E i \in S : \A j \in S : i <= j
<1> DEFINE T == {0..i : i \in S}
<1>1. T \subseteq FiniteSubsetsOf(Nat) /\ T # {}
  <2>1. \A i \in S : IsFiniteSet(0..i) /\ 0..i \subseteq Nat
    BY FS_Interval
  <2>2. QED
    BY <2>1 DEF FiniteSubsetsOf
<1> HIDE DEF T
<1>2. \E X \in T : \A Y \in T : ~(<<Y, X>> \in StrictSubsetOrdering(Nat))
  BY <1>1, FS_StrictSubsetOrderingWellFounded, WFMin
<1>3. PICK i \in S : \A j \in S : ~(<<0..j, 0..i>> \in StrictSubsetOrdering(Nat))
  BY <1>2 DEF T
<1>4. ASSUME NEW j \in S, j < i PROVE FALSE
  <2>1. 0..j \in SUBSET Nat /\ 0..i \in SUBSET Nat /\ 0..j \subseteq 0..i
    BY <1>4
  <2>2. i \in 0..i /\ i \notin 0..j
    BY <1>4
  <2>3. QED
    BY <1>3, <2>1, <2>2 DEF StrictSubsetOrdering
<1>5. QED
  BY <1>4

\* build_swap_path goes on by a pool of the two tokens if discovery found one,
\* and no such pool that it found is cheaper.
THEOREM BridgeIsCheapest ==
  ASSUME NEW other, NEW target \in Tokens, NEW found,
         \E b \in DOMAIN DiscoverPools(target, found) :
           IsBridge(DiscoverPools(target, found)[b], other, target)
  PROVE  LET rows == DiscoverPools(target, found)
             b == Bridge(other, target, rows)
         IN /\ b \in DOMAIN rows
            /\ IsBridge(rows[b], other, target)
            /\ \A c \in DOMAIN rows :
                 IsBridge(rows[c], other, target) =>
                   FeePercent(rows[b]) <= FeePercent(rows[c])
<1> DEFINE rows == DiscoverPools(target, found)
           bridges == {b \in DOMAIN rows : IsBridge(rows[b], other, target)}
           cheapest == {b \in bridges :
                          \A c \in bridges :
                            FeePercent(rows[b]) <= FeePercent(rows[c])}
           fees == {FeePercent(rows[b]) : b \in bridges}
<1>1. \A b \in bridges : FeePercent(rows[b]) \in Nat /\ b \in Nat
  <2> SUFFICES ASSUME NEW b \in bridges
               PROVE  FeePercent(rows[b]) \in Nat /\ b \in Nat
    OBVIOUS
  <2>1. b \in Discoverable(target) /\ rows[b] = RowOf(b, target)
    BY RowsDiscovered
  <2>2. b \in Pools /\ rows[b].fee \in Nat
    BY <2>1, RowFacts
  <2>3. QED
    BY <2>2, RoutingConstants DEF FeePercent, Pools
<1>2. \E f \in fees : \A g \in fees : f <= g
  <2>1. fees \in SUBSET Nat
    BY <1>1
  <2>2. fees # {}
    OBVIOUS
  <2> HIDE DEF fees
  <2>3. QED
    BY <2>1, <2>2, LeastOf
<1>3. cheapest # {}
  BY <1>2
<1>4. \E b \in cheapest : \A c \in cheapest : b <= c
  <2>1. cheapest \in SUBSET Nat
    BY <1>1
  <2> HIDE DEF cheapest
  <2>2. QED
    BY <1>3, <2>1, LeastOf
<1>5. Bridge(other, target, rows) \in cheapest
  <2>1. Bridge(other, target, rows)
          = CHOOSE b \in cheapest : \A c \in cheapest : b <= c
    BY DEF Bridge
  <2> HIDE DEF cheapest
  <2>2. QED
    BY <1>4, <2>1
<1>6. QED
  BY <1>5

\* Pairs and triples are sequences.
LEMMA ShortSeqs ==
  ASSUME NEW S, NEW a \in S, NEW b \in S, NEW c \in S
  PROVE  /\ << >> \in Seq(S)
         /\ <<a>> \in Seq(S) /\ Len(<<a>>) = 1
         /\ <<a, b>> \in Seq(S) /\ Len(<<a, b>>) = 2
         /\ <<a, b, c>> \in Seq(S) /\ Len(<<a, b, c>>) = 3
OBVIOUS

\* Whatever discovery found, the route that build_swap_path makes for a pool
\* leads from the token to the target.
LEMMA PathsBuilt ==
  ASSUME NEW ask \in Asks, NEW p \in Discoverable(ask.sell), NEW found
  PROVE  AnswerFor(ask, BuildSwapPath(p, RowOf(p, ask.sell), ask,
                                      DiscoverPools(ask.target, found)))
<1> DEFINE row == RowOf(p, ask.sell)
           other == OtherToken(ask.sell, row)
           rows == DiscoverPools(ask.target, found)
           path == BuildSwapPath(p, row, ask, rows)
<1>1. ask.sell \in Tokens /\ ask.target \in Tokens /\ Tokens \subseteq Nat
  BY RoutingConstants
<1>2. /\ p \in Pools /\ other \in Tokens /\ other # ask.sell
      /\ PairOf(p) = {ask.sell, other}
      /\ {row.token0, row.token1} = {ask.sell, other}
  BY <1>1, RowFacts
<1> HIDE DEF row, other, rows
<1>3. CASE ask.target \in {row.token0, row.token1}
  <2>1. path = [hops |-> <<p>>, tokens |-> <<ask.sell, ask.target>>,
                fees |-> <<>>, default |-> FALSE]
    BY <1>3 DEF BuildSwapPath
  <2>2. /\ <<p>> \in Seq(Pools) /\ <<ask.sell, ask.target>> \in Seq(Tokens)
        /\ <<ask.sell, ask.target>> \in Seq(Nat) /\ << >> \in Seq(Nat)
        /\ Len(<<ask.sell, ask.target>>) = 2
    BY <1>1, <1>2, ShortSeqs
  <2>3. path \in Route
    BY <2>1, <2>2 DEF Route
  <2>4. ask.sell # ask.target => LeadsTo(<<ask.sell, ask.target>>, ask)
    BY <1>2, <1>3, <2>2 DEF LeadsTo
  <2>5. PathFor(ask, path.tokens)
    BY <2>1, <2>2, <2>4 DEF PathFor
  <2>6. QED
    BY <2>3, <2>5 DEF AnswerFor, row, rows
<1>4. CASE /\ ask.target \notin {row.token0, row.token1}
           /\ \E b \in DOMAIN rows : IsBridge(rows[b], other, ask.target)
  <2> DEFINE b == Bridge(other, ask.target, rows)
             tokens == <<ask.sell, other, ask.target>>
  <2>1. path = [hops |-> <<p, b>>, tokens |-> tokens, fees |-> <<>>,
                default |-> FALSE]
    BY <1>4 DEF BuildSwapPath, other
  <2>2. b \in DOMAIN rows /\ IsBridge(rows[b], other, ask.target)
    BY <1>1, <1>4, BridgeIsCheapest DEF rows
  <2>3. b \in Discoverable(ask.target) /\ rows[b] = RowOf(b, ask.target)
    BY <2>2, RowsDiscovered DEF rows
  <2>4. b \in Pools /\ PairOf(b) = {other, ask.target}
    <3>1. /\ b \in Pools
          /\ PairOf(b) = {RowOf(b, ask.target).token0,
                          RowOf(b, ask.target).token1}
      BY <1>1, <2>3, RowFacts
    <3>2. QED
      BY <2>2, <2>3, <3>1 DEF IsBridge
  <2> HIDE DEF b
  <2>5. /\ <<p, b>> \in Seq(Pools) /\ tokens \in Seq(Tokens)
        /\ tokens \in Seq(Nat) /\ << >> \in Seq(Nat) /\ Len(tokens) = 3
    BY <1>1, <1>2, <2>4, ShortSeqs
  <2>6. path \in Route
    BY <2>1, <2>5 DEF Route
  <2>7. LeadsTo(tokens, ask)
    <3>1. /\ tokens[1] = ask.sell /\ tokens[2] = other
          /\ tokens[3] = ask.target
      OBVIOUS
    <3>2. \A i \in 1..2 : i = 1 \/ i = 2
      OBVIOUS
    <3> HIDE DEF tokens
    <3>3. QED
      BY <1>2, <2>4, <2>5, <3>1, <3>2 DEF LeadsTo
  <2>8. PathFor(ask, path.tokens)
    BY <2>1, <2>5, <2>7 DEF PathFor
  <2>9. QED
    BY <2>6, <2>8 DEF AnswerFor, row, rows
<1>5. CASE /\ ask.target \notin {row.token0, row.token1}
           /\ ~ \E b \in DOMAIN rows : IsBridge(rows[b], other, ask.target)
  BY <1>5 DEF BuildSwapPath, AnswerFor, row, other, rows
<1>6. QED
  BY <1>3, <1>4, <1>5

--------------------------------------------------------------------------------
(* The two notations. *)

\* The wrapped token is written down as the placeholder, and read as itself.
LEMMA Notation ==
  ASSUME NEW t \in Tokens
  PROVE  /\ Display(t) \in Nat
         /\ Normalize(t) = t
         /\ Normalize(Display(t)) = t
BY RoutingConstants DEF Display, Normalize

\* Sequences of tokens are mapped one by one.
LEMMA MappedSeq ==
  ASSUME NEW S, NEW T, NEW seq \in Seq(S), NEW f \in [S -> T]
  PROVE  LET m == [i \in DOMAIN seq |-> f[seq[i]]]
         IN m \in Seq(T) /\ Len(m) = Len(seq)
<1>1. /\ Len(seq) \in Nat /\ DOMAIN seq = 1..Len(seq)
      /\ seq \in [1..Len(seq) -> S]
  BY LenProperties
<1> DEFINE m == [i \in DOMAIN seq |-> f[seq[i]]]
<1>2. m \in [1..Len(seq) -> T]
  BY <1>1
<1> HIDE DEF m
<1>3. m \in Seq(T)
  BY <1>1, <1>2, SeqDef
<1>4. Len(m) = Len(seq)
  BY <1>1, <1>2, <1>3, LenProperties
<1>5. QED
  BY <1>3, <1>4 DEF m

\* The engine reads a path as long as the route it is given.
LEMMA PathRead ==
  ASSUME NEW route \in Route
  PROVE  /\ RouteTokens(route).path \in Seq(Nat)
         /\ Len(RouteTokens(route).path) = Len(route.tokens)
<1> DEFINE f == [t \in Nat |-> Normalize(t)]
<1>1. f \in [Nat -> Nat] /\ route.tokens \in Seq(Nat)
  BY RoutingConstants DEF Normalize, Route
<1>2. RouteTokens(route).path = [i \in DOMAIN route.tokens |-> f[route.tokens[i]]]
  <2>1. \A i \in DOMAIN route.tokens : route.tokens[i] \in Nat
    BY <1>1, LenProperties
  <2>2. QED
    BY <2>1 DEF RouteTokens
<1> HIDE DEF f
<1>3. [i \in DOMAIN route.tokens |-> f[route.tokens[i]]] \in Seq(Nat)
  BY <1>1, MappedSeq
<1>4. Len([i \in DOMAIN route.tokens |-> f[route.tokens[i]]]) = Len(route.tokens)
  BY <1>1, MappedSeq
<1>5. QED
  BY <1>2, <1>3, <1>4

\* A path of tokens is the same whether it was shown or not.
LEMMA PathKept ==
  ASSUME NEW r \in Route, r.tokens \in Seq(Tokens)
  PROVE  /\ RouteTokens(r).path = r.tokens
         /\ Shown(r) \in Route
         /\ RouteTokens(Shown(r)).path = r.tokens
<1>1. /\ DOMAIN r.tokens = 1..Len(r.tokens) /\ Len(r.tokens) \in Nat
      /\ r.tokens = [i \in DOMAIN r.tokens |-> r.tokens[i]]
      /\ \A i \in DOMAIN r.tokens : r.tokens[i] \in Tokens
  BY LenProperties
<1>2. RouteTokens(r).path = r.tokens
  BY <1>1, Notation DEF RouteTokens
<1> DEFINE f == [t \in Tokens |-> Display(t)]
           shown == [i \in DOMAIN r.tokens |-> Display(r.tokens[i])]
<1>3. shown \in Seq(Nat)
  <2>1. f \in [Tokens -> Nat]
    BY Notation
  <2>2. shown = [i \in DOMAIN r.tokens |-> f[r.tokens[i]]]
    BY <1>1
  <2> HIDE DEF f
  <2>3. QED
    BY <2>1, <2>2, MappedSeq
<1>4. Shown(r) \in Route /\ Shown(r).tokens = shown
  <2> HIDE DEF shown
  <2>1. Shown(r) = [r EXCEPT !.tokens = shown]
    BY DEF Shown, shown
  <2>2. QED
    BY <1>3, <2>1 DEF Route
<1>5. RouteTokens(Shown(r)).path = [i \in DOMAIN shown |-> Normalize(shown[i])]
  BY <1>4 DEF RouteTokens
<1>6. [i \in DOMAIN shown |-> Normalize(shown[i])] = r.tokens
  BY <1>1, Notation
<1>7. QED
  BY <1>2, <1>4, <1>5, <1>6

\* So what is stored or shown of an answer is written for whom it was built.
LEMMA AnswersWritten ==
  ASSUME NEW ask \in Asks, NEW answer, answer # Nothing, AnswerFor(ask, answer),
         NEW own \in Asks, NEW late, own = ask \/ late
  PROVE  /\ answer \in Route /\ WrittenFor(own, late, answer)
         /\ Shown(answer) \in Route /\ WrittenFor(own, late, Shown(answer))
<1>1. answer \in Route /\ PathFor(ask, answer.tokens)
  BY DEF AnswerFor
<1>2. /\ RouteTokens(answer).path = answer.tokens
      /\ Shown(answer) \in Route
      /\ RouteTokens(Shown(answer)).path = answer.tokens
  BY <1>1, PathKept DEF PathFor
<1>3. QED
  BY <1>1, <1>2 DEF WrittenFor

\* Discovery's own route leads to the pool's other token.
LEMMA DefaultRoute ==
  ASSUME NEW token \in Tokens, NEW p \in Discoverable(token)
  PROVE  LET row == RowOf(p, token)
             route == DefaultSwapPath(p, row, token)
         IN /\ route \in Route /\ route.default /\ Len(route.tokens) = 2
            /\ RouteTokens(route).path[1] = token
            /\ row.type = "v3" => Len(route.fees) = 1
<1> DEFINE row == RowOf(p, token)
           other == OtherToken(token, row)
           route == DefaultSwapPath(p, row, token)
<1>1. /\ p \in Pools /\ other \in Tokens /\ row.fee \in Nat
      /\ Tokens \subseteq Nat
  BY RowFacts, RoutingConstants
<1> HIDE DEF row, other
<1>2. route = [hops |-> <<p>>, tokens |-> <<token, other>>,
               fees |-> IF row.type = "v3" THEN <<row.fee>> ELSE <<>>,
               default |-> TRUE]
  BY DEF DefaultSwapPath, other
<1>3. /\ <<p>> \in Seq(Pools) /\ <<token, other>> \in Seq(Nat)
      /\ <<row.fee>> \in Seq(Nat) /\ Len(<<row.fee>>) = 1
      /\ << >> \in Seq(Nat) /\ Len(<<token, other>>) = 2
  BY <1>1, ShortSeqs
<1>4. route \in Route
  BY <1>2, <1>3 DEF Route
<1>5. RouteTokens(route).path[1] = token
  <2>1. 1 \in DOMAIN <<token, other>> /\ <<token, other>>[1] = token
    OBVIOUS
  <2>2. QED
    BY <1>2, <2>1, Notation DEF RouteTokens
<1>6. QED
  BY <1>2, <1>3, <1>4, <1>5 DEF row

--------------------------------------------------------------------------------
(* The invariant is inductive. *)

\* compute_pool_path answers with a route for what it is asked, from the cache
\* or afresh.
LEMMA AnswersGiven ==
  ASSUME CacheKeepsRoutes, NEW ask \in Asks, NEW p \in Discoverable(ask.sell),
         NEW found
  PROVE  AnswerFor(ask, ComputePoolPath(p, RowOf(p, ask.sell), ask, found))
<1>1. p \in Pools
  BY DEF Discoverable
<1>2. QED
  BY <1>1, PathsBuilt DEF ComputePoolPath, CacheKeepsRoutes

\* It remembers it for that pool and those tokens only.
LEMMA AnswersRemembered ==
  ASSUME CacheKeepsRoutes, NEW ask \in Asks, NEW p, NEW answer,
         AnswerFor(ask, answer), Remember(p, ask, answer)
  PROVE  CacheKeepsRoutes'
<1> SUFFICES ASSUME NEW q \in Pools, NEW other \in Asks,
                    CacheKey(q, other) \in DOMAIN cache'
             PROVE  AnswerFor(other, cache'[CacheKey(q, other)])
  BY DEF CacheKeepsRoutes
<1>1. CASE CacheKey(q, other) = CacheKey(p, ask)
  <2>1. other = ask
    BY <1>1, RoutingConstants DEF CacheKey
  <2>2. cache'[CacheKey(q, other)] = answer
    BY <1>1 DEF Remember, Put
  <2>3. QED
    BY <2>1, <2>2
<1>2. CASE CacheKey(q, other) # CacheKey(p, ask)
  <2>1. /\ CacheKey(q, other) \in DOMAIN cache
        /\ cache'[CacheKey(q, other)] = cache[CacheKey(q, other)]
    BY <1>2 DEF Remember, Put
  <2>2. QED
    BY <2>1 DEF CacheKeepsRoutes
<1>3. QED
  BY <1>1, <1>2

\* An entry that expires takes no other with it.
LEMMA CacheExpiresStep ==
  ASSUME RoutingInv, NEW k \in DOMAIN cache, CacheExpires(k)
  PROVE  RoutingInv'
<1>1. CacheKeepsRoutes'
  BY DEF CacheExpires, RoutingInv, CacheKeepsRoutes
<1>2. CallsAskOfRows' /\ PageShowsRoutes' /\ SessionsHaveRoutes'
  BY DEF CacheExpires, RoutingInv, CallsAskOfRows, PageShowsRoutes, Page,
     SessionsHaveRoutes
<1>3. QED
  BY <1>1, <1>2 DEF RoutingInv

\* A fresh page has no routes.
LEMMA GoToPoolStepStep ==
  ASSUME RoutingInv, NEW ask \in Asks, GoToPoolStep(ask)
  PROVE  RoutingInv'
<1>1. page' = [ask |-> ask, rows |-> DiscoverPools(ask.sell, Pools),
               selected |-> {}, loading |-> {}, routes |-> << >>,
               late |-> FALSE]
  BY DEF GoToPoolStep
<1>2. PageShowsRoutes'
  <2>1. page'.routes \in [DOMAIN page'.routes -> Route] /\ DOMAIN page'.routes = {}
    BY <1>1
  <2>2. page' \in Page'
    BY <1>1, <2>1 DEF Page
  <2>3. QED
    BY <1>1, <2>1, <2>2 DEF PageShowsRoutes
<1>3. CacheKeepsRoutes' /\ CallsAskOfRows' /\ SessionsHaveRoutes'
  BY DEF GoToPoolStep, RoutingInv, CacheKeepsRoutes, CallsAskOfRows,
     SessionsHaveRoutes
<1>4. QED
  BY <1>2, <1>3 DEF RoutingInv

\* A pool is selected on the page with its row, and deselected with its route.
LEMMA TogglePoolStep ==
  ASSUME RoutingInv, NEW p \in Pools, TogglePool(p)
  PROVE  RoutingInv'
<1>1. /\ page \in Page /\ page.rows = DiscoverPools(page.ask.sell, Pools)
      /\ page.selected \subseteq Discoverable(page.ask.sell)
      /\ \A q \in DOMAIN page.routes :
           WrittenFor(page.ask, page.late, page.routes[q])
      /\ p \in DOMAIN page.rows
  BY DEF TogglePool, RoutingInv, PageShowsRoutes
<1>2. p \in Discoverable(page.ask.sell) /\ page.rows[p] = RowOf(p, page.ask.sell)
  BY <1>1, RowsDiscovered
<1>3. page.ask \in Asks
  BY <1>1 DEF Page
<1>4. CASE p \in page.selected
  <2> DEFINE routes == [q \in DOMAIN page.routes \ {p} |-> page.routes[q]]
  <2>1. /\ page' = [page EXCEPT !.selected = @ \ {p}, !.routes = routes]
        /\ UNCHANGED calls
    BY <1>4 DEF TogglePool
  <2>2. /\ routes \in [DOMAIN routes -> Route]
        /\ \A q \in DOMAIN routes :
             q \in DOMAIN page.routes /\ routes[q] = page.routes[q]
    BY <1>1 DEF Page
  <2> HIDE DEF routes
  <2>3. /\ page' \in Page' /\ page'.ask = page.ask /\ page'.rows = page.rows
        /\ page'.late = page.late /\ page'.routes = routes
        /\ page'.selected = page.selected \ {p}
    BY <1>1, <2>1, <2>2 DEF Page
  <2>4. PageShowsRoutes'
    BY <1>1, <2>2, <2>3 DEF PageShowsRoutes
  <2>5. CallsAskOfRows'
    BY <2>1 DEF RoutingInv, CallsAskOfRows
  <2>6. QED
    BY <2>4, <2>5
    DEF TogglePool, RoutingInv, CacheKeepsRoutes, SessionsHaveRoutes
<1>5. CASE p \notin page.selected
  <2>1. /\ page' = [page EXCEPT !.selected = @ \cup {p}, !.loading = @ \cup {p}]
        /\ calls' = calls \cup {[pool |-> p, row |-> page.rows[p],
                                 ask |-> page.ask]}
    BY <1>5 DEF TogglePool
  <2>2. /\ page' \in Page' /\ page'.ask = page.ask /\ page'.rows = page.rows
        /\ page'.late = page.late /\ page'.routes = page.routes
        /\ page'.selected = page.selected \cup {p}
    BY <1>1, <2>1 DEF Page
  <2>3. PageShowsRoutes'
    BY <1>1, <1>2, <2>2 DEF PageShowsRoutes
  <2>4. CallsAskOfRows'
    BY <1>2, <1>3, <2>1 DEF RoutingInv, CallsAskOfRows
  <2>5. QED
    BY <2>3, <2>4
    DEF TogglePool, RoutingInv, CacheKeepsRoutes, SessionsHaveRoutes
<1>6. QED
  BY <1>4, <1>5

\* A deselected pool leaves the rest of the page alone.
LEMMA DeselectStep ==
  ASSUME PageShowsRoutes, NEW c, Deselect(c)
  PROVE  PageShowsRoutes'
<1>1. CASE page = Nothing
  BY <1>1 DEF Deselect, PageShowsRoutes
<1>2. CASE page # Nothing
  <2>1. page' = [page EXCEPT !.selected = @ \ {c.pool}, !.loading = @ \ {c.pool}]
    BY <1>2 DEF Deselect
  <2>2. page \in Page
    BY <1>2 DEF PageShowsRoutes
  <2>3. /\ page' \in Page' /\ page'.ask = page.ask /\ page'.rows = page.rows
        /\ page'.late = page.late /\ page'.routes = page.routes
        /\ page'.selected \subseteq page.selected
    BY <2>1, <2>2 DEF Page
  <2>4. QED
    BY <1>2, <2>3 DEF PageShowsRoutes
<1>3. QED
  BY <1>1, <1>2

\* An answer is put on the page for the choice of tokens it was asked for, and
\* for another one only as late.
LEMMA AskRouteStep ==
  ASSUME RoutingInv, NEW c \in calls, NEW found, AskRoute(c, found)
  PROVE  RoutingInv'
<1> DEFINE answer == ComputePoolPath(c.pool, c.row, c.ask, found)
<1>1. /\ c.ask \in Asks /\ c.pool \in Discoverable(c.ask.sell)
      /\ c.row = RowOf(c.pool, c.ask.sell)
  BY DEF RoutingInv, CallsAskOfRows
<1>2. AnswerFor(c.ask, answer)
  BY <1>1, AnswersGiven DEF RoutingInv
<1>3. CacheKeepsRoutes'
  BY <1>1, <1>2, AnswersRemembered DEF AskRoute, RoutingInv
<1>4. CallsAskOfRows' /\ SessionsHaveRoutes'
  BY DEF AskRoute, RoutingInv, CallsAskOfRows, SessionsHaveRoutes
<1>5. CASE page = Nothing \/ answer = Nothing
  <2>1. Deselect(c)
    BY <1>5 DEF AskRoute
  <2>2. PageShowsRoutes'
    BY <2>1, DeselectStep DEF RoutingInv
  <2>3. QED
    BY <1>3, <1>4, <2>2 DEF RoutingInv
<1>6. CASE page # Nothing /\ answer # Nothing
  <2> DEFINE late == page.late \/ c.ask # page.ask
             routes == Put(page.routes, c.pool, Shown(answer))
  <2>1. page' = [page EXCEPT !.loading = @ \ {c.pool}, !.routes = routes,
                             !.late = late]
    BY <1>6 DEF AskRoute
  <2>2. /\ page \in Page /\ page.rows = DiscoverPools(page.ask.sell, Pools)
        /\ page.selected \subseteq Discoverable(page.ask.sell)
        /\ \A q \in DOMAIN page.routes :
             WrittenFor(page.ask, page.late, page.routes[q])
    BY <1>6 DEF RoutingInv, PageShowsRoutes
  <2>3. page.ask \in Asks /\ late \in BOOLEAN
    BY <2>2 DEF Page
  <2>4. Shown(answer) \in Route /\ WrittenFor(page.ask, late, Shown(answer))
    BY <1>1, <1>2, <1>6, <2>3, AnswersWritten
  <2>5. \A q \in DOMAIN page.routes : WrittenFor(page.ask, late, page.routes[q])
    BY <2>2 DEF WrittenFor
  <2>6. /\ routes \in [DOMAIN routes -> Route]
        /\ \A q \in DOMAIN routes : WrittenFor(page.ask, late, routes[q])
    BY <2>2, <2>4, <2>5 DEF Put, Page
  <2> HIDE DEF answer, routes, late
  <2>7. /\ page' \in Page' /\ page'.ask = page.ask /\ page'.rows = page.rows
        /\ page'.late = late /\ page'.routes = routes
        /\ page'.selected = page.selected
    BY <2>1, <2>2, <2>3, <2>6 DEF Page
  <2>8. PageShowsRoutes'
    BY <2>2, <2>6, <2>7 DEF PageShowsRoutes
  <2>9. QED
    BY <1>3, <1>4, <2>8 DEF RoutingInv
<1>7. QED
  BY <1>5, <1>6

\* A call that fails deselects its pool.
LEMMA AskRouteFailsStep ==
  ASSUME RoutingInv, NEW c \in calls, AskRouteFails(c)
  PROVE  RoutingInv'
<1>1. PageShowsRoutes'
  BY DeselectStep DEF AskRouteFails, RoutingInv
<1>2. CallsAskOfRows' /\ CacheKeepsRoutes' /\ SessionsHaveRoutes'
  BY DEF AskRouteFails, RoutingInv, CallsAskOfRows, CacheKeepsRoutes,
     SessionsHaveRoutes
<1>3. QED
  BY <1>1, <1>2 DEF RoutingInv

\* What is stored from the page was written for the page's tokens, or late.
LEMMA CreateSessionStep ==
  ASSUME RoutingInv, CreateSession
  PROVE  RoutingInv'
<1> DEFINE new == [ask |-> page.ask,
                   rows |-> [p \in page.selected |-> page.rows[p]],
                   routes |-> [p \in page.selected |-> page.routes[p]],
                   late |-> page.late]
<1>1. /\ page \in Page /\ page.rows = DiscoverPools(page.ask.sell, Pools)
      /\ page.selected \subseteq Discoverable(page.ask.sell)
      /\ \A q \in DOMAIN page.routes :
           WrittenFor(page.ask, page.late, page.routes[q])
      /\ page.selected \subseteq DOMAIN page.routes
      /\ page' = Nothing /\ stored' = stored \cup {new}
  BY DEF CreateSession, Store, RoutingInv, PageShowsRoutes
<1>2. page.ask \in Asks
  BY <1>1 DEF Page
<1>3. ASSUME NEW p \in page.selected
      PROVE  /\ p \in Discoverable(page.ask.sell)
             /\ page.rows[p] = RowOf(p, page.ask.sell)
             /\ page.routes[p] \in Route
             /\ WrittenFor(page.ask, page.late, page.routes[p])
  <2>1. p \in Pools
    BY <1>1 DEF Page
  <2>2. p \in DOMAIN DiscoverPools(page.ask.sell, Pools)
    BY <1>1, <2>1 DEF DiscoverPools
  <2>3. page.routes[p] \in Route
    BY <1>1 DEF Page
  <2>4. QED
    BY <1>1, <2>2, <2>3, RowsDiscovered
<1>4. SessionsHaveRoutes'
  BY <1>1, <1>2, <1>3 DEF RoutingInv, SessionsHaveRoutes
<1>5. PageShowsRoutes' /\ CacheKeepsRoutes' /\ CallsAskOfRows'
  BY <1>1 DEF CreateSession, RoutingInv, PageShowsRoutes, CacheKeepsRoutes,
     CallsAskOfRows
<1>6. QED
  BY <1>4, <1>5 DEF RoutingInv

\* start_selling stores the route it was given, or discovery's own.
LEMMA StartSellingStep ==
  ASSUME RoutingInv, NEW ask \in Asks, NEW p \in Discoverable(ask.sell),
         NEW found, StartSelling(ask, p, found)
  PROVE  RoutingInv'
<1> DEFINE rows == DiscoverPools(ask.sell, Pools)
           row == RowOf(p, ask.sell)
           answer == ComputePoolPath(p, row, ask, found)
           route == IF answer = Nothing THEN DefaultSwapPath(p, row, ask.sell)
                    ELSE answer
           new == [ask |-> ask, rows |-> [q \in {p} |-> row],
                   routes |-> [q \in {p} |-> route], late |-> FALSE]
<1>1. ask.sell \in Tokens /\ p \in Pools
  BY RoutingConstants DEF Discoverable
<1>2. rows[p] = row
  <2>1. p \in DOMAIN rows
    BY <1>1 DEF DiscoverPools
  <2>2. QED
    BY <2>1, RowsDiscovered
<1>3. AnswerFor(ask, answer)
  BY AnswersGiven DEF RoutingInv
<1>4. /\ route \in Route
      /\ \/ WrittenFor(ask, FALSE, route)
         \/ route = DefaultSwapPath(p, row, ask.sell)
  <2>1. CASE answer = Nothing
    BY <1>1, <2>1, DefaultRoute
  <2>2. CASE answer # Nothing
    BY <1>3, <2>2, AnswersWritten
  <2>3. QED
    BY <2>1, <2>2
<1>5. Remember(p, ask, answer) /\ stored' = stored \cup {new}
  <2>1. [q \in {p} |-> rows[q]] = [q \in {p} |-> row]
    BY <1>2
  <2>2. QED
    BY <1>2, <2>1 DEF StartSelling, Store
<1>6. CacheKeepsRoutes'
  BY <1>3, <1>5, AnswersRemembered DEF RoutingInv
<1> HIDE DEF route, row, answer
<1>7. SessionsHaveRoutes'
  <2>1. /\ new.ask = ask /\ DOMAIN new.rows = {p} /\ new.rows[p] = row
        /\ new.routes[p] = route /\ new.late = FALSE
    OBVIOUS
  <2>2. \A q \in DOMAIN new.rows :
          /\ q \in Discoverable(new.ask.sell)
          /\ new.rows[q] = RowOf(q, new.ask.sell)
          /\ new.routes[q] \in Route
          /\ \/ WrittenFor(new.ask, new.late, new.routes[q])
             \/ new.routes[q] = DefaultSwapPath(q, new.rows[q], new.ask.sell)
    BY <1>4, <2>1 DEF row
  <2>3. new.ask \in Asks
    BY <2>1
  <2> HIDE DEF new
  <2>4. QED
    BY <1>5, <2>2, <2>3 DEF RoutingInv, SessionsHaveRoutes
<1>8. PageShowsRoutes' /\ CallsAskOfRows'
  BY DEF StartSelling, RoutingInv, PageShowsRoutes, Page, CallsAskOfRows
<1>9. QED
  BY <1>6, <1>7, <1>8 DEF RoutingInv

\* Every step keeps the invariant.
LEMMA RoutingInvStep == RoutingInv /\ [Next]_vars => RoutingInv'
<1> SUFFICES ASSUME RoutingInv, [Next]_vars PROVE RoutingInv'
  OBVIOUS
<1>1. CASE UNCHANGED vars
  BY <1>1 DEF vars, RoutingInv, CacheKeepsRoutes, CallsAskOfRows,
     PageShowsRoutes, Page, SessionsHaveRoutes
<1>2. CASE \E k \in DOMAIN cache : CacheExpires(k)
  BY <1>2, CacheExpiresStep
<1>3. CASE \E ask \in Asks : GoToPoolStep(ask)
  BY <1>3, GoToPoolStepStep
<1>4. CASE \E p \in Pools : TogglePool(p)
  BY <1>4, TogglePoolStep
<1>5. CASE \E c \in calls :
             \/ \E found \in SUBSET Discoverable(c.ask.target) : AskRoute(c, found)
             \/ AskRouteFails(c)
  BY <1>5, AskRouteStep, AskRouteFailsStep
<1>6. CASE CreateSession
  BY <1>6, CreateSessionStep
<1>7. CASE \E ask \in Asks :
             \E p \in Discoverable(ask.sell),
                found \in SUBSET Discoverable(ask.target) :
               StartSelling(ask, p, found)
  BY <1>7, StartSellingStep
<1>8. QED
  BY <1>1, <1>2, <1>3, <1>4, <1>5, <1>6, <1>7 DEF Next

\* Every route that is cached, shown or stored is one for the tokens it is kept
\* under, however calls, answers, expiries and new choices interleave.
THEOREM RoutesKept == Spec => []RoutingInv
<1>1. Init => RoutingInv
  BY DEF Init, RoutingInv, CacheKeepsRoutes, CallsAskOfRows, PageShowsRoutes,
     SessionsHaveRoutes
<1>2. QED
  BY <1>1, RoutingInvStep, PTL DEF Spec

--------------------------------------------------------------------------------
(* What the engine makes of a stored route. *)

\* The ends of a path that the engine reads, and its fees, whatever was stored.
LEMMA SwapRead ==
  ASSUME NEW token \in Tokens, NEW p \in Discoverable(token),
         NEW route \in Route, IsRoute(p, route), ImpactKnown(p, route)
  PROVE  LET swap == SwapOf(route, RowOf(p, token))
         IN /\ swap.path = RouteTokens(route).path
            /\ ~swap.value
            /\ swap.type = "v3" => Len(swap.fees) = Len(swap.path) - 1
<1> DEFINE row == RowOf(p, token)
           swap == SwapOf(route, row)
<1>1. swap.path = RouteTokens(route).path /\ swap.type = row.type
  BY DEF SwapOf
<1>2. ~swap.value
  <2>1. PairOf(p) \subseteq Tokens
    BY RowFacts
  <2>2. route.tokens[1] # Placeholder
    BY <2>1, RoutingConstants DEF ImpactKnown
  <2>3. QED
    BY <2>2 DEF SwapOf, RouteTokens
<1>3. ASSUME swap.type = "v3" PROVE Len(swap.fees) = Len(swap.path) - 1
  <2>1. swap.fees = RouteFeeTiers(route, row)
    BY <1>1, <1>3 DEF SwapOf
  <2>2. Len(swap.path) = Len(route.tokens)
    BY <1>1, PathRead
  <2>3. Len(route.tokens) - 1 \in Nat
    <3>1. Len(route.hops) \in Nat
      BY LenProperties DEF Route
    <3>2. QED
      BY <3>1 DEF IsRoute
  <2>4. Len(RouteFeeTiers(route, row)) = Len(route.tokens) - 1
    <3>1. CASE Len(route.fees) = Len(route.tokens) - 1
      BY <3>1 DEF RouteFeeTiers
    <3>2. CASE Len(route.fees) # Len(route.tokens) - 1
      <4> DEFINE n == Len(route.tokens) - 1
                 fees == [i \in 1..n |-> FeePercent(row)]
      <4>1. n \in Nat
        BY <2>3
      <4> HIDE DEF n
      <4>2. fees \in Seq({FeePercent(row)}) /\ DOMAIN fees = 1..n
        BY <4>1, SeqDef
      <4>3. Len(fees) = n
        BY <4>1, <4>2, LenProperties
      <4>4. QED
        BY <3>2, <4>3 DEF RouteFeeTiers, n
    <3>3. QED
      BY <3>1, <3>2
  <2>5. QED
    BY <2>1, <2>2, <2>4
<1>4. QED
  BY <1>1, <1>2, <1>3

\* For any market, any users and any interleaving of their pages, calls and
\* answers: a swap that the engine makes for a session sells the session's
\* token, pays no native coin in, has a fee for each hop of a V3 path, and goes
\* by pools there are to the session's target, unless the route was
\* discovery's own or came late, or the token is its own target.
THEOREM SwapsLeadToTargets == Spec => []SwapsReachTheTarget
<1>1. RoutingInv => SwapsReachTheTarget
  <2> SUFFICES ASSUME RoutingInv, NEW s \in stored, NEW p \in DOMAIN s.rows,
                      NEW bought \in PairOf(p),
                      ProcessSwap(s, p, bought) = "swapped"
               PROVE  LET swap == SwapOf(s.routes[p], s.rows[p])
                      IN /\ \/ LeadsTo(swap.path, s.ask)
                            \/ /\ s.routes[p].default \/ s.ask.sell = s.ask.target
                               /\ swap.path[1] = s.ask.sell
                            \/ s.late
                         /\ ~swap.value
                         /\ swap.type = "v3" => Len(swap.fees) = Len(swap.path) - 1
    BY DEF SwapsReachTheTarget
  <2> DEFINE route == s.routes[p]
             swap == SwapOf(route, s.rows[p])
  <2>1. /\ s.ask \in Asks /\ p \in Discoverable(s.ask.sell)
        /\ s.rows[p] = RowOf(p, s.ask.sell) /\ route \in Route
        /\ \/ WrittenFor(s.ask, s.late, route)
           \/ route = DefaultSwapPath(p, s.rows[p], s.ask.sell)
    BY DEF RoutingInv, SessionsHaveRoutes
  <2>2. s.ask.sell \in Tokens
    BY <2>1, RoutingConstants
  <2>3. IsRoute(p, route) /\ ImpactKnown(p, route)
    BY DEF ProcessSwap
  <2>4. /\ swap.path = RouteTokens(route).path /\ ~swap.value
        /\ swap.type = "v3" => Len(swap.fees) = Len(swap.path) - 1
    BY <2>1, <2>2, <2>3, SwapRead
  <2>5. CASE WrittenFor(s.ask, s.late, route)
    <3>1. PICK a \in Asks : (a = s.ask \/ s.late) /\ PathFor(a, swap.path)
      BY <2>4, <2>5 DEF WrittenFor
    <3>2. QED
      BY <2>4, <3>1 DEF PathFor
  <2>6. CASE route = DefaultSwapPath(p, s.rows[p], s.ask.sell)
    BY <2>1, <2>2, <2>4, <2>6, DefaultRoute
  <2>7. QED
    BY <2>1, <2>4, <2>5, <2>6
<1>2. QED
  BY <1>1, RoutesKept, PTL

\* In any market the engine mistakes the side of a swap in the pools of a
\* session exactly where discovery turned the pair around.
THEOREM SidesMistakenWhereTurned == Spec => []WrongSideOnlyIfTurned
<1>1. RoutingInv => WrongSideOnlyIfTurned
  <2> SUFFICES ASSUME RoutingInv, NEW s \in stored, NEW p \in DOMAIN s.rows,
                      NEW bought \in PairOf(p)
               PROVE  (ProcessSwap(s, p, bought) = "not a buy") = (bought = s.ask.sell)
                        <=> Market[p].type = "v3" /\ Market[p].pair[2] = s.ask.sell
    BY DEF WrongSideOnlyIfTurned
  <2> DEFINE sell == s.ask.sell
             other == OtherToken(sell, RowOf(p, sell))
  <2>1. /\ p \in Discoverable(sell) /\ s.rows[p] = RowOf(p, sell)
        /\ sell \in Tokens /\ p \in Pools
    BY RoutingConstants DEF RoutingInv, SessionsHaveRoutes, Discoverable
  <2>2. /\ other # sell /\ PairOf(p) = {sell, other}
        /\ Market[p].type \in {"v2", "v3"}
    BY <2>1, RowFacts
  <2>3. Market[p].pair[1] # Market[p].pair[2]
    BY <2>1, RoutingConstants DEF Pools
  <2>4. (ProcessSwap(s, p, bought) = "not a buy")
          <=> TokenOut(RowOf(p, sell), Token0IsInput(p, bought)) # sell
    BY <2>1 DEF ProcessSwap
  <2>5. CASE Market[p].type = "v2"
    <3>1. TokenOut(RowOf(p, sell), Token0IsInput(p, bought)) = bought
      BY <2>3, <2>5 DEF TokenOut, Token0IsInput, RowOf, DiscoverV2, PairOf
    <3>2. QED
      BY <2>4, <2>5, <3>1
  <2>6. CASE Market[p].type = "v3"
    <3>1. /\ RowOf(p, sell).token0 = sell
          /\ RowOf(p, sell).token1 = other
      BY <2>6 DEF RowOf, DiscoverV3, OtherToken
    <3>2. (ProcessSwap(s, p, bought) = "not a buy")
            <=> bought = Market[p].pair[2]
      BY <2>2, <2>4, <3>1 DEF TokenOut, Token0IsInput
    <3>3. QED
      BY <2>2, <2>3, <2>6, <3>2 DEF PairOf
  <2>7. QED
    BY <2>2, <2>5, <2>6
<1>2. QED
  BY <1>1, RoutesKept, PTL
================================================================================
