-------------------------------- MODULE Routing --------------------------------
(***************************************************************************)
(* From the pools of a token to the swaps the engine hands to a router:    *)
(* discovery (crates/session-api/src/pools.rs), a route for each pool and  *)
(* its cache (crates/session-api/src/main.rs), the page that asks for      *)
(* routes and stores them with a session (the gateway's routes.rs and      *)
(* frontend/src/app/sessions/new/page.tsx), and what the engine reads from *)
(* a stored pool when it sees a swap (crates/execution-engine/src/main.rs  *)
(* and impact.rs).                                                         *)
(*                                                                         *)
(* Tokens and pools are numbers, ordered as their addresses are: a pool's  *)
(* own token0 is the lower one.  There is one DEX of each type.  A call to *)
(* the chain can fail for one pool and not for another, so what discovery  *)
(* finds is any part of what there is.  Amounts are left to module         *)
(* ExecutionEngine: a swap here is one whose amounts pass every gate.      *)
(***************************************************************************)
EXTENDS Naturals, Sequences, FiniteSets

CONSTANTS
  Tokens,       \* addresses
  Base,         \* base_tokens of the chain
  Wrapped,      \* the one with a wrapped-native symbol
  Placeholder,  \* NATIVE_TOKEN_PLACEHOLDER
  Market,       \* Market[p]: the pool at p, [type, pair, fee]
  Asks,         \* what users want: [sell, target]
  MaxDrafts,    \* bound: times the page is started afresh
  MaxCalls,     \* bound: calls of the page under way
  MaxSessions,  \* bound: sessions stored
  Nothing       \* None

ASSUME RoutingConstants ==
  /\ Tokens \subseteq Nat /\ Base \subseteq Tokens /\ Wrapped \in Base
  /\ Placeholder \in Nat \ Tokens
  /\ DOMAIN Market \subseteq Nat
  /\ \A p \in DOMAIN Market :
       /\ Market[p] \in [type : {"v2", "v3"}, pair : Nat \X Nat, fee : Nat]
       /\ Market[p].pair[1] < Market[p].pair[2]
  /\ Asks \subseteq [sell : Tokens, target : Tokens]
  /\ {MaxDrafts, MaxCalls, MaxSessions} \subseteq Nat

VARIABLES
  cache,   \* pool_path_cache: the answers it keeps, which may be None
  page,    \* the form: [ask, rows, selected, loading, routes, late]
  calls,   \* calls for a route that the page has made and not heard of
  stored,  \* tables sessions and session_pools: [ask, rows, routes, late]
  drafts   \* how often the page was started

vars == <<cache, page, calls, stored, drafts>>

Pools == DOMAIN Market
PairOf(p) == {Market[p].pair[1], Market[p].pair[2]}

\* The map f with v for k.
Put(f, k, v) == [x \in DOMAIN f \cup {k} |-> IF x = k THEN v ELSE f[x]]

--------------------------------------------------------------------------------
(* The native coin is a placeholder to users and the wrapped token inside. *)
Normalize(t) == IF t = Placeholder THEN Wrapped ELSE t
Display(t) == IF t = Wrapped THEN Placeholder ELSE t

(* A V2 pair is asked for its own order; of a V3 pool it is taken that      *)
(* token0 is the token that was asked for.                                  *)
DiscoverV2AsAsked(p, token) ==  \* Variant of DiscoverV2: the pair is not asked
  [type |-> "v2", token0 |-> token,
   token1 |-> CHOOSE t \in PairOf(p) : t # token, fee |-> 0]

DiscoverV2(p, token) ==
  [type |-> "v2", token0 |-> Market[p].pair[1], token1 |-> Market[p].pair[2],
   fee |-> 0]

DiscoverV3(p, token) ==
  [type |-> "v3", token0 |-> token,
   token1 |-> CHOOSE t \in PairOf(p) : t # token, fee |-> Market[p].fee]

Discoverable(token) ==
  {p \in Pools : \E base \in Base \ {token} : PairOf(p) = {token, base}}

DiscoverPools(token, found) ==
  [p \in found \cap Discoverable(token) |->
     IF Market[p].type = "v2" THEN DiscoverV2(p, token) ELSE DiscoverV3(p, token)]

--------------------------------------------------------------------------------
(* Routes: hops are pools, tokens one more than hops. *)
FeePercent(row) == IF row.fee > 0 THEN row.fee ELSE 3000

OtherToken(sell, row) == IF row.token0 = sell THEN row.token1 ELSE row.token0

IsBridge(row, other, target) == {row.token0, row.token1} = {other, target}

(* The cheapest pool from other to the target, of two the first of the      *)
(* list, which is taken to be in the order of the addresses.                *)
Bridge(other, target, rows) ==
  LET bridges == {b \in DOMAIN rows : IsBridge(rows[b], other, target)}
      cheapest == {b \in bridges :
                     \A c \in bridges : FeePercent(rows[b]) <= FeePercent(rows[c])}
  IN CHOOSE b \in cheapest : \A c \in cheapest : b <= c

BuildSwapPath(p, row, ask, rows) ==
  LET other == OtherToken(ask.sell, row)
      route(hops, tokens) == [hops |-> hops, tokens |-> tokens, fees |-> <<>>,
                              default |-> FALSE]
  IN IF ask.target \in {row.token0, row.token1}
     THEN route(<<p>>, <<ask.sell, ask.target>>)
     ELSE IF \E b \in DOMAIN rows : IsBridge(rows[b], other, ask.target)
     THEN route(<<p, Bridge(other, ask.target, rows)>>,
                <<ask.sell, other, ask.target>>)
     ELSE Nothing

(* The route discovery itself gives with a pool: to the pool's other token. *)
DefaultSwapPath(p, row, token) ==
  [hops |-> <<p>>, tokens |-> <<token, OtherToken(token, row)>>,
   fees |-> IF row.type = "v3" THEN <<row.fee>> ELSE <<>>, default |-> TRUE]

CacheKeyOfPool(p, ask) ==  \* Variant of CacheKey that forgets the target
  <<p, ask.sell, ask.sell>>

CacheKey(p, ask) == <<p, ask.sell, ask.target>>

(* The cache answers when it knows of the pool, even that there is no route. *)
ComputePoolPath(p, row, ask, found) ==
  IF CacheKey(p, ask) \in DOMAIN cache
  THEN cache[CacheKey(p, ask)]
  ELSE BuildSwapPath(p, row, ask, DiscoverPools(ask.target, found))

Remember(p, ask, answer) == cache' = Put(cache, CacheKey(p, ask), answer)

CacheExpires(k) ==
  /\ cache' = [j \in DOMAIN cache \ {k} |-> cache[j]]
  /\ UNCHANGED <<page, calls, stored, drafts>>

Init ==
  /\ cache = << >> /\ page = Nothing /\ calls = {} /\ stored = {} /\ drafts = 0

--------------------------------------------------------------------------------
(* The page.  A choice of tokens and a discovery start it afresh; calls of  *)
(* an earlier choice go on.  A pool that discovery missed is one that the   *)
(* user does not select.                                                    *)
Room == Cardinality(stored) < MaxSessions  \* bound

Shown(route) ==
  [route EXCEPT !.tokens = [i \in DOMAIN route.tokens |-> Display(route.tokens[i])]]

GoToPoolStep(ask) ==
  /\ Room
  /\ drafts < MaxDrafts
  /\ drafts' = drafts + 1
  /\ page' = [ask |-> ask, rows |-> DiscoverPools(ask.sell, Pools),
              selected |-> {}, loading |-> {}, routes |-> << >>,
              late |-> FALSE]
  /\ UNCHANGED <<cache, calls, stored>>

TogglePool(p) ==
  /\ Room
  /\ page # Nothing
  /\ p \in DOMAIN page.rows \ page.loading
  /\ \/ /\ p \in page.selected
        /\ page' = [page EXCEPT !.selected = @ \ {p},
                                !.routes = [q \in DOMAIN @ \ {p} |-> @[q]]]
        /\ UNCHANGED calls
     \/ /\ p \notin page.selected
        /\ Cardinality(calls) < MaxCalls
        /\ page' = [page EXCEPT !.selected = @ \cup {p}, !.loading = @ \cup {p}]
        /\ calls' = calls \cup {[pool |-> p, row |-> page.rows[p], ask |-> page.ask]}
  /\ UNCHANGED <<cache, stored, drafts>>

(* The form takes the answer as the answer finds it, whatever it was when   *)
(* the page asked.  With no route, or no answer, the pool is deselected.    *)
Deselect(c) ==
  page' = IF page = Nothing THEN Nothing
          ELSE [page EXCEPT !.selected = @ \ {c.pool}, !.loading = @ \ {c.pool}]

AskRoute(c, found) ==
  LET answer == ComputePoolPath(c.pool, c.row, c.ask, found)
  IN /\ Remember(c.pool, c.ask, answer)
     /\ calls' = calls \ {c}
     /\ IF page = Nothing \/ answer = Nothing
        THEN Deselect(c)
        ELSE page' = [page EXCEPT !.loading = @ \ {c.pool},
                                  !.routes = Put(@, c.pool, Shown(answer)),
                                  !.late = @ \/ c.ask # page.ask]
     /\ UNCHANGED <<stored, drafts>>

AskRouteFails(c) ==
  /\ calls' = calls \ {c}
  /\ Deselect(c)
  /\ UNCHANGED <<cache, stored, drafts>>

(* What the gateway and the session service ask of a route, and what the    *)
(* engine asks of it again.                                                 *)
IsRoute(p, route) ==
  /\ Len(route.hops) > 0
  /\ route.hops[1] = p
  /\ Len(route.tokens) = Len(route.hops) + 1

Store(ask, rows, routes, late) ==
  stored' = stored \cup {[ask |-> ask, rows |-> rows, routes |-> routes, late |-> late]}

CreateSession ==
  /\ Room
  /\ page # Nothing
  /\ page.selected # {} /\ page.loading = {}
  /\ \A p \in page.selected : p \in DOMAIN page.routes /\ IsRoute(p, page.routes[p])
  /\ Store(page.ask, [p \in page.selected |-> page.rows[p]],
           [p \in page.selected |-> page.routes[p]], page.late)
  /\ page' = Nothing
  /\ UNCHANGED <<cache, calls, drafts>>

(* A common user's start: the one pool with the most of the token, and the  *)
(* pool's default route when the service knows none to the target.          *)
StartSelling(ask, p, found) ==
  LET rows == DiscoverPools(ask.sell, Pools)
      answer == ComputePoolPath(p, rows[p], ask, found)
      route == IF answer = Nothing THEN DefaultSwapPath(p, rows[p], ask.sell) ELSE answer
  IN /\ Room
     /\ Remember(p, ask, answer)
     /\ Store(ask, [q \in {p} |-> rows[q]], [q \in {p} |-> route], FALSE)
     /\ UNCHANGED <<page, calls, drafts>>

--------------------------------------------------------------------------------
(* The engine.  The indexer says of a swap whether the pool's own token0    *)
(* went in; the row says which token came out.                              *)
Token0IsInput(p, bought) == bought = Market[p].pair[2]

TokenOut(row, token0IsInput) == IF token0IsInput THEN row.token1 ELSE row.token0

(* The placeholder becomes the wrapped token; the ends remember it. *)
RouteTokens(route) ==
  [path |-> [i \in DOMAIN route.tokens |-> Normalize(route.tokens[i])],
   nativeInput |-> route.tokens[1] = Placeholder,
   nativeOutput |-> route.tokens[Len(route.tokens)] = Placeholder]

RouteFeeTiers(route, row) ==
  IF Len(route.fees) = Len(route.tokens) - 1
  THEN route.fees
  ELSE [i \in 1..(Len(route.tokens) - 1) |-> FeePercent(row)]

(* Reserves are read for a token of the pair only: the placeholder is none. *)
ImpactKnown(p, route) == route.tokens[1] \in PairOf(p)

(* A V2 router quotes over the pairs of its own DEX; of V3 there is no quote. *)
Quoted(row, path) ==
  row.type = "v2" =>
    \A i \in 1..(Len(path) - 1) :
      \E q \in Pools : Market[q].type = "v2" /\ PairOf(q) = {path[i], path[i + 1]}

SwapOf(route, row) ==
  [type |-> row.type, path |-> RouteTokens(route).path,
   fees |-> IF row.type = "v3" THEN RouteFeeTiers(route, row) ELSE <<>>,
   value |-> RouteTokens(route).nativeInput,
   paysNative |-> row.type = "v2" /\ RouteTokens(route).nativeOutput]

(* What comes of a swap that somebody made in pool p, for session s. *)
ProcessSwap(s, p, bought) ==
  IF TokenOut(s.rows[p], Token0IsInput(p, bought)) # s.ask.sell
  THEN "not a buy"
  ELSE IF /\ IsRoute(p, s.routes[p])
          /\ ImpactKnown(p, s.routes[p])
          /\ Quoted(s.rows[p], RouteTokens(s.routes[p]).path)
  THEN "swapped"
  ELSE "skipped"

Next ==
  \/ \E k \in DOMAIN cache : CacheExpires(k)
  \/ \E ask \in Asks : GoToPoolStep(ask)
  \/ \E p \in Pools : TogglePool(p)
  \/ \E c \in calls :
       \/ \E found \in SUBSET Discoverable(c.ask.target) : AskRoute(c, found)
       \/ AskRouteFails(c)
  \/ CreateSession
  \/ \E ask \in Asks :
       \E p \in Discoverable(ask.sell), found \in SUBSET Discoverable(ask.target) :
         StartSelling(ask, p, found)

Spec == Init /\ [][Next]_vars

--------------------------------------------------------------------------------
(* A swap leads where the session wants to go. *)
LeadsTo(path, ask) ==
  /\ path[1] = ask.sell /\ path[Len(path)] = ask.target
  /\ \A i \in 1..(Len(path) - 1) : \E p \in Pools : PairOf(p) = {path[i], path[i + 1]}

(* Whatever the caches hold, whichever pools were found in between and      *)
(* however the native coin was written down, what the engine hands to a     *)
(* router sells the session's token, pays no native coin in, goes by pools  *)
(* there are and ends in the session's target, with one fee for each hop of *)
(* a V3 path.  Two routes end elsewhere: discovery's own, which             *)
(* start_selling falls back to, and one that a late answer put on the page. *)
(* And nothing refuses a session that sells a token for itself: the route   *)
(* of a pool of that token leads from the token to itself, by no pool.      *)
SwapsReachTheTarget ==
  \A s \in stored : \A p \in DOMAIN s.rows : \A bought \in PairOf(p) :
    ProcessSwap(s, p, bought) = "swapped" =>
      LET swap == SwapOf(s.routes[p], s.rows[p])
      IN /\ \/ LeadsTo(swap.path, s.ask)
            \/ /\ s.routes[p].default \/ s.ask.sell = s.ask.target
               /\ swap.path[1] = s.ask.sell
            \/ s.late
         /\ ~swap.value
         /\ swap.type = "v3" => Len(swap.fees) = Len(swap.path) - 1

(* The engine takes a sale of the token for a purchase, and a purchase for  *)
(* a sale, only where discovery turned the pair around: in a V3 pool that   *)
(* has the session's token for its token1.  There it always does.           *)
WrongSideOnlyIfTurned ==
  \A s \in stored : \A p \in DOMAIN s.rows : \A bought \in PairOf(p) :
    (ProcessSwap(s, p, bought) = "not a buy") = (bought = s.ask.sell)
      <=> Market[p].type = "v3" /\ Market[p].pair[2] = s.ask.sell

(* "Only trigger our sell if the on-chain swap's output is the session's    *)
(* sell_token" (execution-engine/src/main.rs:343).                          *)
SellsOnlyIntoBuys ==
  \A s \in stored : \A p \in DOMAIN s.rows : \A bought \in PairOf(p) :
    ProcessSwap(s, p, bought) = "swapped" => bought = s.ask.sell
================================================================================
