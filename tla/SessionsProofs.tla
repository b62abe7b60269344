----------------------------- MODULE SessionsProofs -----------------------------
(***************************************************************************)
(* Proofs about Sessions, for any number of requests, wallets, pools and   *)
(* amounts: the rows keep their columns, whoever is told of a new session  *)
(* finds all its pools, and a session becomes active only after the check  *)
(* of its gas.  Where a request may be (Position) says whose row it works  *)
(* on; what it has still to insert (Storing) and what it knows of the gas  *)
(* (Funded) are the rest of the inductive invariant.                       *)
(***************************************************************************)
EXTENDS Sessions, TLAPS

Makers == {"create", "sell"}

\* Which requests come to a label, and that the row they ask for exists.
Position(r) ==
  /\ pc[r] # "idle" => Ask(r) \in Asks
  /\ pc[r] = "balance" => Ask(r).kind \in {"create", "sell", "withdraw"}
  /\ pc[r] = "quote" => Ask(r).kind = "sell"
  /\ pc[r] \in {"insert", "pools"} => Ask(r).kind \in Makers
  /\ pc[r] \in {"gas", "deficit", "cover"} => Ask(r).kind = "active"
  /\ pc[r] \in {"nonce", "send"} => Ask(r).kind \in {"active", "withdraw"}
  /\ pc[r] = "update" => Ask(r).kind \in {"active", "paused", "cancelled"}
  /\ pc[r] \notin {"idle", "done"} /\ Ask(r).kind \notin Makers
       => row[Ask(r).session] # Nothing

\* How far a request that creates a session is with its row.
Storing(r) ==
  /\ pc[r] \in {"idle", "balance", "quote", "insert"} => row[r] = Nothing
  /\ pc[r] = "insert" => ToSet(req[r].left) \in Meant(r)
  /\ pc[r] = "pools" =>
       /\ row[r] # Nothing
       /\ row[r].pools \cup ToSet(req[r].left) \in Meant(r)
  /\ (pc[r] = "reply" \/ req[r].reply = "ok") /\ Ask(r).kind \in Makers =>
       row[r] # Nothing /\ row[r].pools \in Meant(r)

\* An activation that comes to its UPDATE had the gas or sent it.
Funded(r) ==
  pc[r] = "update" /\ Ask(r).kind = "active" => tx[r].state # "none" \/ req[r].saw = 0

RequestInv(r) == Position(r) /\ Storing(r) /\ Funded(r)
SessionsInv == TypeOK /\ \A r \in Requests : RequestInv(r)

-----------------------------------------------------------------------------
(* Data.                                                                   *)

\* The pools still to insert: the first of them and the others.
LEMMA SetOfTail ==
  ASSUME NEW S, NEW s \in Seq(S), s # <<>>
  PROVE  /\ Head(s) \in S /\ Tail(s) \in Seq(S)
         /\ ToSet(s) = {Head(s)} \cup ToSet(Tail(s))
<1>1. Len(s) \in Nat /\ Len(s) > 0 /\ DOMAIN s = 1..Len(s)
  OBVIOUS
<1>2. /\ Head(s) = s[1] /\ Head(s) \in S /\ Tail(s) \in Seq(S)
      /\ DOMAIN Tail(s) = 1..(Len(s) - 1)
      /\ \A i \in 1..(Len(s) - 1) : Tail(s)[i] = s[i + 1]
  BY <1>1
<1>3. ASSUME NEW x \in ToSet(s) PROVE x \in {Head(s)} \cup ToSet(Tail(s))
  <2>1. PICK i \in 1..Len(s) : x = s[i]
    BY <1>1, <1>3 DEF ToSet
  <2>2. CASE i = 1
    BY <1>2, <2>1, <2>2
  <2>3. CASE i # 1
    <3>1. i - 1 \in 1..(Len(s) - 1) /\ (i - 1) + 1 = i
      BY <1>1, <2>3
    <3>2. Tail(s)[i - 1] = x
      BY <1>2, <2>1, <3>1
    <3>. QED
      BY <1>2, <3>1, <3>2 DEF ToSet
  <2>. QED
    BY <2>2, <2>3
<1>4. ASSUME NEW x \in {Head(s)} \cup ToSet(Tail(s)) PROVE x \in ToSet(s)
  <2>1. CASE x = Head(s)
    BY <1>1, <1>2, <2>1 DEF ToSet
  <2>2. CASE x \in ToSet(Tail(s))
    <3>1. PICK i \in 1..(Len(s) - 1) : x = Tail(s)[i]
      BY <1>2, <2>2 DEF ToSet
    <3>2. i + 1 \in 1..Len(s) /\ s[i + 1] = x
      BY <1>1, <1>2, <3>1
    <3>. QED
      BY <1>1, <3>2 DEF ToSet
  <2>. QED
    BY <1>4, <2>1, <2>2
<1>. QED
  BY <1>2, <1>3, <1>4

\* Nothing is left when every pool is stored.
LEMMA SetOfNone == ToSet(<<>>) = {}
BY DEF ToSet

\* One pool, as start_selling stores it.
LEMMA SetOfOne == \A p : ToSet(<<p>>) = {p}
BY DEF ToSet

\* saturating_sub stays in the numbers.
LEMMA LessInNat == \A m, n \in Nat : Less(m, n) \in Nat
BY DEF Less

\* A quotient of numbers is a number.
LEMMA QuotientInNat == \A m \in Nat, n \in Nat \ {0} : m \div n \in Nat
OBVIOUS

\* The estimate of the gas is a number, whatever the settings: it never divides
\* by zero and never goes below it.
LEMMA GasNeededInNat ==
  ASSUME NEW s \in Rows
  PROVE  GasNeeded(s) \in Nat
<1>. DEFINE rest == Less(s.amount, s.sold)
            chunk == (s.amount * s.pov) \div ChunkDivisor
            least == IF chunk > 0 THEN chunk ELSE rest \div DefaultSwaps
            wanted == IF least = 0 THEN DefaultSwaps ELSE (rest + least - 1) \div least
<1>1. s.amount \in Nat /\ s.sold \in Nat /\ s.pov \in Nat
  BY SessionConstants DEF Rows
<1>2. rest \in Nat
  BY <1>1, LessInNat
<1>3. chunk \in Nat
  <2>1. s.amount * s.pov \in Nat
    BY <1>1
  <2>. QED
    BY <2>1, SessionConstants, QuotientInNat
<1>4. least \in Nat
  BY <1>2, <1>3, SessionConstants, QuotientInNat
<1>. HIDE DEF rest, chunk, least
<1>5. wanted \in Nat
  <2>1. CASE least = 0
    BY <2>1, SessionConstants
  <2>2. CASE least # 0
    <3>1. rest + least - 1 \in Nat /\ least \in Nat \ {0}
      BY <1>2, <1>4, <2>2
    <3>. QED
      BY <2>2, <3>1, QuotientInNat
  <2>. QED
    BY <2>1, <2>2
<1>. HIDE DEF wanted
<1>6. NumSwaps(s) = MinOf(wanted, MaxSwaps)
  BY DEF NumSwaps, rest, chunk, least, wanted
<1>7. NumSwaps(s) \in Nat
  BY <1>5, <1>6, SessionConstants DEF MinOf
<1>8. NumSwaps(s) * (100 + Padding) \in Nat
  BY <1>7, SessionConstants
<1>. QED
  BY <1>8, QuotientInNat DEF GasNeeded

-----------------------------------------------------------------------------
(* The initial state.                                                      *)

LEMMA SessionsStart == Init => SessionsInv
<1> SUFFICES ASSUME Init PROVE SessionsInv
  OBVIOUS
<1>. USE SessionConstants DEF Init
<1>1. TypeOK
  <2>1. row \in [SessionIds -> Rows \cup {Nothing}]
    BY DEF SessionIds
  <2>2. seen \in [SessionIds -> SUBSET Nat]
    OBVIOUS
  <2>3. req \in [Requests -> Progress]
    BY DEF Progress
  <2>4. tx \in [Requests -> Transactions] /\ pc \in [Requests -> Labels]
    BY DEF Transactions, TxStates, Labels
  <2>5. \A r \in Requests : pc[r] = "done" <=> req[r].reply # "none"
    OBVIOUS
  <2>. QED
    BY <2>1, <2>2, <2>3, <2>4, <2>5 DEF TypeOK
<1>2. ASSUME NEW r \in Requests PROVE RequestInv(r)
  <2>1. pc[r] = "idle" /\ req[r].reply = "none" /\ row[r] = Nothing
    BY DEF SessionIds
  <2>. QED
    BY <2>1 DEF RequestInv, Position, Storing, Funded
<1>. QED
  BY <1>1, <1>2 DEF SessionsInv

-----------------------------------------------------------------------------
(* What the other requests have to do with a step: nothing.                *)

LEMMA OtherRequest ==
  ASSUME NEW q \in Requests, RequestInv(q),
         pc'[q] = pc[q], req'[q] = req[q],
         tx[q].state # "none" => tx'[q].state # "none",
         \A s \in SessionIds : row[s] # Nothing => row'[s] # Nothing,
         row[q] = Nothing => row'[q] = Nothing,
         row[q] # Nothing => row'[q].pools = row[q].pools
  PROVE  RequestInv(q)'
<1>1. Ask(q)' = Ask(q) /\ Meant(q)' = Meant(q)
  BY DEF Ask, Meant
<1>2. q \in SessionIds /\ \A a \in Asks : a.session \in SessionIds
  BY SessionConstants DEF SessionIds, AskOK
<1>3. Position(q)'
  BY <1>1, <1>2 DEF RequestInv, Position
<1>4. Storing(q)'
  BY <1>1, <1>2 DEF RequestInv, Storing
<1>5. Funded(q)'
  BY <1>1 DEF RequestInv, Funded
<1>. QED
  BY <1>3, <1>4, <1>5 DEF RequestInv

\* What a request that is under way knows of its own row and account.
LEMMA Working ==
  ASSUME SessionsInv, NEW r \in Requests, pc[r] \notin {"idle", "done"}
  PROVE  /\ Ask(r) \in Asks /\ AskOK(Ask(r)) /\ r \in SessionIds
         /\ Ask(r).session \in SessionIds /\ req[r] \in Progress
         /\ Ask(r).kind \notin Makers =>
              /\ RowOf(r) # Nothing /\ RowOf(r) \in Rows
              /\ RowOf(r).wallet \in Wallets /\ Payer(r) \in Accounts
<1>1. Ask(r) \in Asks /\ AskOK(Ask(r)) /\ Ask(r).session \in SessionIds /\ r \in SessionIds
  BY SessionConstants DEF SessionsInv, RequestInv, Position, AskOK, SessionIds
<1>2. req[r] \in Progress
  BY DEF SessionsInv, TypeOK
<1>3. Ask(r).kind \notin Makers => RowOf(r) # Nothing /\ RowOf(r) \in Rows
  BY <1>1 DEF SessionsInv, RequestInv, Position, TypeOK, RowOf
<1>4. \A s \in Rows : s.wallet \in Wallets
  BY DEF Rows
<1>. QED
  BY <1>1, <1>2, <1>3, <1>4 DEF Payer, Accounts

-----------------------------------------------------------------------------
(* Steps of a request that change nothing but the request.                 *)

LEMMA ReadStep ==
  ASSUME SessionsInv, NEW r \in Requests, NEW l \in Labels,
         UNCHANGED <<row, held, proceeds, gas, mined, tx, seen>>,
         pc' = [pc EXCEPT ![r] = l],
         req' \in [Requests -> Progress], \A q \in Requests \ {r} : req'[q] = req[q],
         l = "done" <=> req'[r].reply # "none",
         RequestInv(r)'
  PROVE  SessionsInv'
<1>1. TypeOK'
  BY DEF SessionsInv, TypeOK
<1>2. ASSUME NEW q \in Requests \ {r} PROVE RequestInv(q)'
  BY OtherRequest DEF SessionsInv, TypeOK
<1>. QED
  BY <1>1, <1>2 DEF SessionsInv

LEMMA RefuseKeeps ==
  ASSUME SessionsInv, NEW r \in Requests, Refuse(r), pc[r] \notin {"idle", "done"}
  PROVE  SessionsInv'
<1>1. /\ pc' = [pc EXCEPT ![r] = "done"] /\ req' = [req EXCEPT ![r].reply = "error"]
      /\ UNCHANGED <<row, held, proceeds, gas, mined, tx, seen>>
  BY DEF Refuse, Goto, tableVars, chainVars, engineVars
<1>2. /\ req' \in [Requests -> Progress] /\ \A q \in Requests \ {r} : req'[q] = req[q]
      /\ pc'[r] = "done" /\ req'[r].reply = "error" /\ req'[r].ask = req[r].ask
  BY <1>1 DEF SessionsInv, TypeOK, Progress
<1>3. RequestInv(r)'
  BY <1>2, Working DEF RequestInv, Position, Storing, Funded, Ask
<1>. QED
  BY <1>1, <1>2, <1>3, ReadStep DEF Labels

LEMMA BeginKeeps ==
  ASSUME SessionsInv, NEW r \in Requests, NEW a \in Asks, Begin(r, a)
  PROVE  SessionsInv'
<1>. DEFINE l == IF Allowed(a) THEN FirstCall(a) ELSE "done"
<1>1. /\ pc[r] = "idle" /\ pc' = [pc EXCEPT ![r] = l]
      /\ req' = [req EXCEPT ![r].ask = a,
                            ![r].reply = IF Allowed(a) THEN @ ELSE "error"]
      /\ UNCHANGED <<row, held, proceeds, gas, mined, tx, seen>>
  BY DEF Begin, Goto, tableVars, chainVars, engineVars
<1>2. req[r].reply = "none" /\ req[r] \in Progress /\ AskOK(a) /\ row[r] = Nothing
  BY <1>1, SessionConstants DEF SessionsInv, TypeOK, RequestInv, Storing, Progress
<1>3. /\ req'[r].ask = a /\ req'[r].reply = IF Allowed(a) THEN "none" ELSE "error"
      /\ req' \in [Requests -> Progress] /\ \A q \in Requests \ {r} : req'[q] = req[q]
  BY <1>1, <1>2 DEF SessionsInv, TypeOK, Progress
<1>4. /\ a.kind \in {"create", "sell", "active", "paused", "cancelled", "withdraw"}
      /\ Allowed(a) => l \in {"balance", "gas", "update"}
      /\ Allowed(a) /\ l = "balance" => a.kind \in {"create", "sell", "withdraw"}
      /\ Allowed(a) /\ l = "gas" => a.kind = "active"
      /\ Allowed(a) /\ l = "update" => a.kind \in {"paused", "cancelled"}
      /\ Allowed(a) /\ a.kind \notin Makers => row[a.session] # Nothing
  BY <1>2 DEF AskOK, FirstCall, Allowed, Makers
<1>5. l \in Labels /\ (l = "done" <=> req'[r].reply # "none")
  BY <1>3, <1>4 DEF Labels
<1>6. RequestInv(r)'
  <2>1. pc'[r] = l /\ Ask(r)' = a /\ row' = row
    BY <1>1, <1>3 DEF SessionsInv, TypeOK, Ask
  <2>. HIDE DEF l
  <2>2. CASE Allowed(a)
    BY <1>2, <1>3, <1>4, <2>1, <2>2 DEF RequestInv, Position, Storing, Funded
  <2>3. CASE ~Allowed(a)
    BY <1>2, <1>3, <1>4, <2>1, <2>3 DEF RequestInv, Position, Storing, Funded, l
  <2>. QED
    BY <2>2, <2>3
<1>. HIDE DEF l
<1>. QED
  BY <1>1, <1>3, <1>5, <1>6, ReadStep

\* A step that goes on to another label and keeps what is asked for.
LEMMA GoOn ==
  ASSUME SessionsInv, NEW r \in Requests, NEW l \in Labels \ {"idle", "done"},
         pc[r] \notin {"idle", "done"}, Reads(r, l),
         req' \in [Requests -> Progress], \A q \in Requests \ {r} : req'[q] = req[q],
         req'[r].ask = req[r].ask, req'[r].reply = req[r].reply,
         RequestInv(r)'
  PROVE  SessionsInv'
<1>1. req[r].reply = "none"
  BY DEF SessionsInv, TypeOK
<1>2. /\ pc' = [pc EXCEPT ![r] = l]
      /\ UNCHANGED <<row, held, proceeds, gas, mined, tx, seen>>
  BY DEF Reads, Goto, tableVars, chainVars, engineVars
<1>. QED
  BY <1>1, <1>2, ReadStep

\* What a request that goes on must know at its next label.
LEMMA NextLabel ==
  ASSUME SessionsInv, NEW r \in Requests, NEW l \in Labels \ {"idle", "done"},
         pc[r] \notin {"idle", "done"}, Reads(r, l),
         req'[r].ask = req[r].ask, req'[r].reply = req[r].reply
  PROVE  /\ pc'[r] = l /\ row' = row /\ tx' = tx /\ Ask(r)' = Ask(r) /\ Meant(r)' = Meant(r)
         /\ req'[r].reply = "none" /\ Ask(r) \in Asks
<1>1. req[r].reply = "none"
  BY DEF SessionsInv, TypeOK
<1>. QED
  BY <1>1, Working DEF Reads, Goto, tableVars, chainVars, engineVars, SessionsInv, TypeOK, Ask, Meant

LEMMA CheckBalanceKeeps ==
  ASSUME SessionsInv, NEW r \in Requests, CheckBalance(r)
  PROVE  SessionsInv'
<1>1. pc[r] = "balance" /\ Ask(r).kind = "create" /\ pc[r] \notin {"idle", "done"}
  BY DEF CheckBalance
<1>2. CASE Refuse(r)
  BY <1>1, <1>2, RefuseKeeps
<1>3. CASE /\ req' = [req EXCEPT ![r].saw = Ask(r).amount, ![r].left = Ask(r).pools]
           /\ Reads(r, "insert")
  <2>1. Ask(r).amount \in Nat /\ Ask(r).pools \in Seq(Pools) /\ req[r] \in Progress
    BY <1>1, Working DEF AskOK
  <2>2. /\ req' \in [Requests -> Progress] /\ \A q \in Requests \ {r} : req'[q] = req[q]
        /\ req'[r].ask = req[r].ask /\ req'[r].reply = req[r].reply
        /\ req'[r].left = Ask(r).pools
    BY <1>3, <2>1 DEF SessionsInv, TypeOK, Progress
  <2>3. /\ pc'[r] = "insert" /\ row' = row /\ Ask(r)' = Ask(r) /\ Meant(r)' = Meant(r)
        /\ req'[r].reply = "none" /\ Ask(r) \in Asks
    BY <1>1, <1>3, <2>2, NextLabel DEF Labels
  <2>4. row[r] = Nothing
    BY <1>1 DEF SessionsInv, RequestInv, Storing
  <2>5. ToSet(req'[r].left) \in Meant(r)
    BY <1>1, <2>2 DEF Meant
  <2>6. RequestInv(r)'
    BY <1>1, <2>3, <2>4, <2>5 DEF RequestInv, Position, Storing, Funded, Makers
  <2>. QED
    BY <1>1, <1>3, <2>2, <2>6, GoOn DEF Labels
<1>. QED
  BY <1>2, <1>3 DEF CheckBalance

LEMMA ReadHoldingKeeps ==
  ASSUME SessionsInv, NEW r \in Requests, ReadHolding(r)
  PROVE  SessionsInv'
<1>1. pc[r] = "balance" /\ Ask(r).kind = "sell" /\ pc[r] \notin {"idle", "done"}
  BY DEF ReadHolding
<1>2. CASE Refuse(r)
  BY <1>1, <1>2, RefuseKeeps
<1>3. CASE req' = [req EXCEPT ![r].saw = held[Ask(r).wallet]] /\ Reads(r, "quote")
  <2>1. held[Ask(r).wallet] \in Nat /\ req[r] \in Progress
    BY <1>1, Working DEF AskOK, SessionsInv, TypeOK
  <2>2. /\ req' \in [Requests -> Progress] /\ \A q \in Requests \ {r} : req'[q] = req[q]
        /\ req'[r].ask = req[r].ask /\ req'[r].reply = req[r].reply
    BY <1>3, <2>1 DEF SessionsInv, TypeOK, Progress
  <2>3. /\ pc'[r] = "quote" /\ row' = row /\ Ask(r)' = Ask(r)
        /\ req'[r].reply = "none" /\ Ask(r) \in Asks
    BY <1>1, <1>3, <2>2, NextLabel DEF Labels
  <2>4. row[r] = Nothing
    BY <1>1 DEF SessionsInv, RequestInv, Storing
  <2>5. RequestInv(r)'
    BY <1>1, <2>3, <2>4 DEF RequestInv, Position, Storing, Funded, Makers
  <2>. QED
    BY <1>1, <1>3, <2>2, <2>5, GoOn DEF Labels
<1>. QED
  BY <1>2, <1>3 DEF ReadHolding

LEMMA ChoosePoolKeeps ==
  ASSUME SessionsInv, NEW r \in Requests, ChoosePool(r)
  PROVE  SessionsInv'
<1>1. pc[r] = "quote" /\ Ask(r).kind = "sell" /\ pc[r] \notin {"idle", "done"}
  BY DEF ChoosePool, SessionsInv, RequestInv, Position
<1>2. CASE Refuse(r)
  BY <1>1, <1>2, RefuseKeeps
<1>3. ASSUME NEW p \in Pools, req' = [req EXCEPT ![r].left = <<p>>], Reads(r, "insert")
      PROVE  SessionsInv'
  <2>1. <<p>> \in Seq(Pools) /\ req[r] \in Progress
    BY <1>1, Working
  <2>2. /\ req' \in [Requests -> Progress] /\ \A q \in Requests \ {r} : req'[q] = req[q]
        /\ req'[r].ask = req[r].ask /\ req'[r].reply = req[r].reply
        /\ req'[r].left = <<p>>
    BY <1>3, <2>1 DEF SessionsInv, TypeOK, Progress
  <2>3. /\ pc'[r] = "insert" /\ row' = row /\ Ask(r)' = Ask(r) /\ Meant(r)' = Meant(r)
        /\ req'[r].reply = "none" /\ Ask(r) \in Asks
    BY <1>1, <1>3, <2>2, NextLabel DEF Labels
  <2>4. row[r] = Nothing
    BY <1>1 DEF SessionsInv, RequestInv, Storing
  <2>5. ToSet(req'[r].left) \in Meant(r)
    BY <1>1, <2>2, SetOfOne DEF Meant
  <2>6. RequestInv(r)'
    BY <1>1, <2>3, <2>4, <2>5 DEF RequestInv, Position, Storing, Funded, Makers
  <2>. QED
    BY <1>1, <1>3, <2>2, <2>6, GoOn DEF Labels
<1>. QED
  BY <1>2, <1>3 DEF ChoosePool, Deepest

LEMMA ReplyKeeps ==
  ASSUME SessionsInv, NEW r \in Requests, Reply(r)
  PROVE  SessionsInv'
<1>1. /\ pc[r] = "reply" /\ pc' = [pc EXCEPT ![r] = "done"]
      /\ req' = [req EXCEPT ![r].reply = "ok"]
      /\ UNCHANGED <<row, held, proceeds, gas, mined, tx, seen>>
  BY DEF Reply, Goto, tableVars, chainVars, engineVars
<1>2. /\ req' \in [Requests -> Progress] /\ \A q \in Requests \ {r} : req'[q] = req[q]
      /\ pc'[r] = "done" /\ req'[r].reply = "ok" /\ req'[r].ask = req[r].ask
  BY <1>1 DEF SessionsInv, TypeOK, Progress
<1>3. RequestInv(r)'
  <2>1. Ask(r)' = Ask(r) /\ Meant(r)' = Meant(r) /\ Ask(r) \in Asks
    BY <1>1, <1>2, Working DEF Ask, Meant
  <2>. QED
    BY <1>1, <1>2, <2>1 DEF SessionsInv, RequestInv, Position, Storing, Funded
<1>. QED
  BY <1>1, <1>2, <1>3, ReadStep DEF Labels

LEMMA CallFailsKeeps ==
  ASSUME SessionsInv, NEW r \in Requests, CallFails(r)
  PROVE  SessionsInv'
<1>1. /\ pc' = [pc EXCEPT ![r] = "done"] /\ req' = [req EXCEPT ![r].reply = "error"]
      /\ UNCHANGED <<row, held, proceeds, gas, mined, tx, seen>> /\ pc[r] \notin {"idle", "done"}
  BY DEF CallFails, Goto, tableVars, chainVars, engineVars
<1>2. /\ req' \in [Requests -> Progress] /\ \A q \in Requests \ {r} : req'[q] = req[q]
      /\ pc'[r] = "done" /\ req'[r].reply = "error" /\ req'[r].ask = req[r].ask
  BY <1>1 DEF SessionsInv, TypeOK, Progress
<1>3. RequestInv(r)'
  BY <1>1, <1>2, Working DEF RequestInv, Position, Storing, Funded, Ask
<1>. QED
  BY <1>1, <1>2, <1>3, ReadStep DEF Labels

\* The reads before a transfer: of gas by an activation, of proceeds by a
\* withdrawal.  They concern a session that exists.
LEMMA TransferRead ==
  ASSUME SessionsInv, NEW r \in Requests, NEW l \in Labels, Reads(r, l),
         pc[r] \notin {"idle", "done"}, Ask(r).kind \notin Makers,
         req' \in [Requests -> Progress], \A q \in Requests \ {r} : req'[q] = req[q],
         req'[r].ask = req[r].ask, req'[r].reply = req[r].reply,
         \/ l \in {"deficit", "cover"} /\ Ask(r).kind = "active"
         \/ l \in {"nonce", "send"} /\ Ask(r).kind \in {"active", "withdraw"}
         \/ l = "update" /\ Ask(r).kind = "active" /\ req'[r].saw = 0
  PROVE  SessionsInv'
<1>1. l \in Labels \ {"idle", "done"}
  OBVIOUS
<1>2. /\ pc'[r] = l /\ row' = row /\ Ask(r)' = Ask(r)
      /\ req'[r].reply = "none" /\ Ask(r) \in Asks
  BY <1>1, NextLabel
<1>3. row[Ask(r).session] # Nothing
  BY Working DEF RowOf
<1>4. RequestInv(r)'
  BY <1>2, <1>3 DEF RequestInv, Position, Storing, Funded, Makers
<1>. QED
  BY <1>1, <1>4, GoOn

LEMMA GasReadsKeep ==
  ASSUME SessionsInv, NEW r \in Requests,
         EstimateGas(r) \/ ReadDeficit(r) \/ CheckGasWallet(r)
  PROVE  SessionsInv'
<1>1. /\ Ask(r).kind = "active" /\ Ask(r).kind \notin Makers
      /\ pc[r] \notin {"idle", "done"} /\ req[r] \in Progress
  BY DEF EstimateGas, ReadDeficit, CheckGasWallet, SessionsInv, RequestInv, Position,
         TypeOK, Makers
<1>2. RowOf(r) \in Rows /\ RowOf(r).wallet \in Wallets
  BY <1>1, Working
<1>3. CASE EstimateGas(r)
  <2>1. req' = [req EXCEPT ![r].need = GasNeeded(RowOf(r))] /\ Reads(r, "deficit")
    BY <1>3 DEF EstimateGas
  <2>2. GasNeeded(RowOf(r)) \in Nat
    BY <1>2, GasNeededInNat
  <2>3. /\ req' \in [Requests -> Progress] /\ \A q \in Requests \ {r} : req'[q] = req[q]
        /\ req'[r].ask = req[r].ask /\ req'[r].reply = req[r].reply
    BY <1>1, <2>1, <2>2 DEF SessionsInv, TypeOK, Progress
  <2>. QED
    BY <1>1, <2>1, <2>3, TransferRead DEF Labels
<1>4. CASE ReadDeficit(r)
  <2>. DEFINE deficit == Less(req[r].need, gas[RowOf(r).wallet])
              l == IF deficit = 0 THEN "update" ELSE "cover"
  <2>1. req' = [req EXCEPT ![r].saw = deficit] /\ Reads(r, l)
    BY <1>4 DEF ReadDeficit
  <2>2. deficit \in Nat
    BY <1>1, <1>2, LessInNat DEF SessionsInv, TypeOK, Progress, Accounts
  <2>. HIDE DEF deficit
  <2>3. /\ req' \in [Requests -> Progress] /\ \A q \in Requests \ {r} : req'[q] = req[q]
        /\ req'[r].ask = req[r].ask /\ req'[r].reply = req[r].reply
        /\ req'[r].saw = deficit
    BY <1>1, <2>1, <2>2 DEF SessionsInv, TypeOK, Progress
  <2>4. l \in Labels
    BY DEF Labels
  <2>5. l = "cover" \/ (l = "update" /\ req'[r].saw = 0)
    BY <2>3
  <2>. HIDE DEF l
  <2>. QED
    BY <1>1, <2>1, <2>3, <2>4, <2>5, TransferRead
<1>5. CASE CheckGasWallet(r)
  <2>1. CASE Refuse(r)
    BY <1>1, <2>1, RefuseKeeps
  <2>2. CASE req' = req /\ Reads(r, "nonce")
    <3>1. /\ req' \in [Requests -> Progress] /\ \A q \in Requests \ {r} : req'[q] = req[q]
          /\ req'[r].ask = req[r].ask /\ req'[r].reply = req[r].reply
      BY <2>2 DEF SessionsInv, TypeOK
    <3>. QED
      BY <1>1, <2>2, <3>1, TransferRead DEF Labels
  <2>. QED
    BY <1>5, <2>1, <2>2 DEF CheckGasWallet
<1>. QED
  BY <1>3, <1>4, <1>5

LEMMA ReadNonceKeeps ==
  ASSUME SessionsInv, NEW r \in Requests, ReadNonce(r)
  PROVE  SessionsInv'
<1>1. /\ Ask(r).kind \in {"active", "withdraw"} /\ Ask(r).kind \notin Makers
      /\ pc[r] \notin {"idle", "done"} /\ req[r] \in Progress
      /\ req' = [req EXCEPT ![r].nonce = mined[Payer(r)]] /\ Reads(r, "send")
  BY DEF ReadNonce, SessionsInv, RequestInv, Position, TypeOK, Makers
<1>2. mined[Payer(r)] \in Nat
  BY <1>1, Working DEF SessionsInv, TypeOK
<1>3. /\ req' \in [Requests -> Progress] /\ \A q \in Requests \ {r} : req'[q] = req[q]
      /\ req'[r].ask = req[r].ask /\ req'[r].reply = req[r].reply
  BY <1>1, <1>2 DEF SessionsInv, TypeOK, Progress
<1>. QED
  BY <1>1, <1>3, TransferRead DEF Labels

LEMMA ReadProceedsKeeps ==
  ASSUME SessionsInv, NEW r \in Requests, ReadProceeds(r)
  PROVE  SessionsInv'
<1>. DEFINE all == proceeds[RowOf(r).wallet]
            v == IF Ask(r).amount = 0 THEN all ELSE Ask(r).amount
<1>1. /\ Ask(r).kind = "withdraw" /\ Ask(r).kind \notin Makers
      /\ pc[r] \notin {"idle", "done"} /\ req[r] \in Progress
  BY DEF ReadProceeds, SessionsInv, TypeOK, Makers
<1>2. CASE Refuse(r)
  BY <1>1, <1>2, RefuseKeeps
<1>3. CASE req' = [req EXCEPT ![r].saw = v] /\ Reads(r, "nonce")
  <2>1. v \in Nat
    BY <1>1, Working DEF SessionsInv, TypeOK, AskOK
  <2>. HIDE DEF v
  <2>2. /\ req' \in [Requests -> Progress] /\ \A q \in Requests \ {r} : req'[q] = req[q]
        /\ req'[r].ask = req[r].ask /\ req'[r].reply = req[r].reply
    BY <1>1, <1>3, <2>1 DEF SessionsInv, TypeOK, Progress
  <2>. QED
    BY <1>1, <1>3, <2>2, TransferRead DEF Labels
<1>. QED
  BY <1>2, <1>3 DEF ReadProceeds

-----------------------------------------------------------------------------
(* Steps that write a row.                                                 *)

LEMMA InsertSessionKeeps ==
  ASSUME SessionsInv, NEW r \in Requests, InsertSession(r)
  PROVE  SessionsInv'
<1>. DEFINE owner == IF Ask(r).by \in Admins THEN OwnerOf[Ask(r).wallet] ELSE Ask(r).by
            new == NewRow(owner, Ask(r).wallet, req[r].saw, {})
<1>1. /\ pc[r] = "insert" /\ pc[r] \notin {"idle", "done"}
      /\ row' = [row EXCEPT ![r] = new] /\ pc' = [pc EXCEPT ![r] = "pools"]
      /\ UNCHANGED <<held, proceeds, gas, mined, tx, req, seen>>
  BY DEF InsertSession, Goto, chainVars, engineVars
<1>2. /\ Ask(r) \in Asks /\ AskOK(Ask(r)) /\ r \in SessionIds /\ req[r] \in Progress
      /\ Ask(r).kind \in Makers /\ ToSet(req[r].left) \in Meant(r) /\ row[r] = Nothing
      /\ req[r].reply = "none"
  BY <1>1, Working DEF SessionsInv, TypeOK, RequestInv, Position, Storing
<1>3. owner \in Users /\ Ask(r).wallet \in Wallets /\ req[r].saw \in Nat
  BY <1>2, SessionConstants DEF AskOK, Progress
<1>. HIDE DEF owner
<1>4. new \in Rows /\ new.pools = {}
  <2>1. (CHOOSE p \in Shares : TRUE) \in Shares
    BY SessionConstants
  <2>. QED
    BY <1>3, <2>1 DEF NewRow, Rows, Statuses
<1>5. new # Nothing
  BY <1>4, SessionConstants
<1>. HIDE DEF new
<1>6. TypeOK'
  BY <1>1, <1>2, <1>4 DEF SessionsInv, TypeOK, Labels
<1>7. RequestInv(r)'
  <2>1. /\ Ask(r)' = Ask(r) /\ Meant(r)' = Meant(r) /\ pc'[r] = "pools" /\ row'[r] = new
        /\ req' = req
    BY <1>1, <1>2 DEF SessionsInv, TypeOK, Ask, Meant
  <2>2. new.pools \cup ToSet(req[r].left) = ToSet(req[r].left)
    BY <1>4
  <2>. QED
    BY <1>2, <1>5, <2>1, <2>2 DEF RequestInv, Position, Storing, Funded, Makers
<1>8. ASSUME NEW q \in Requests \ {r} PROVE RequestInv(q)'
  <2>1. /\ \A s \in SessionIds : row[s] # Nothing => row'[s] # Nothing
        /\ row'[q] = row[q] /\ pc'[q] = pc[q] /\ req' = req /\ tx' = tx
    BY <1>1, <1>5 DEF SessionsInv, TypeOK, SessionIds
  <2>. QED
    BY <2>1, OtherRequest DEF SessionsInv
<1>. QED
  BY <1>6, <1>7, <1>8 DEF SessionsInv

LEMMA InsertPoolKeeps ==
  ASSUME SessionsInv, NEW r \in Requests, InsertPool(r)
  PROVE  SessionsInv'
<1>1. /\ pc[r] = "pools" /\ pc[r] \notin {"idle", "done"}
      /\ UNCHANGED <<held, proceeds, gas, mined, tx, seen>>
  BY DEF InsertPool, chainVars, engineVars
<1>2. /\ Ask(r) \in Asks /\ r \in SessionIds /\ req[r] \in Progress /\ Ask(r).kind \in Makers
      /\ row[r] # Nothing /\ row[r].pools \cup ToSet(req[r].left) \in Meant(r)
      /\ req[r].reply = "none" /\ row[r] \in Rows /\ req[r].left \in Seq(Pools)
  BY <1>1, Working DEF SessionsInv, TypeOK, RequestInv, Position, Storing, Progress
<1>3. CASE req[r].left = <<>>
  <2>1. pc' = [pc EXCEPT ![r] = "reply"] /\ UNCHANGED <<row, req>>
    BY <1>3 DEF InsertPool, Goto
  <2>2. row[r].pools \in Meant(r)
    <3>1. ToSet(req[r].left) = {}
      BY <1>3, SetOfNone
    <3>. QED
      BY <1>2, <3>1
  <2>3. RequestInv(r)'
    <3>1. Ask(r)' = Ask(r) /\ Meant(r)' = Meant(r) /\ pc'[r] = "reply"
      BY <2>1 DEF SessionsInv, TypeOK, Ask, Meant
    <3>. QED
      BY <1>2, <2>1, <2>2, <3>1 DEF RequestInv, Position, Storing, Funded, Makers
  <2>4. /\ req' \in [Requests -> Progress] /\ \A q \in Requests \ {r} : req'[q] = req[q]
        /\ req'[r].reply = "none"
    BY <1>2, <2>1 DEF SessionsInv, TypeOK
  <2>. QED
    BY <1>1, <2>1, <2>3, <2>4, ReadStep DEF Labels
<1>4. CASE req[r].left # <<>>
  <2>1. /\ row' = [row EXCEPT ![r].pools = @ \cup {Head(req[r].left)}]
        /\ req' = [req EXCEPT ![r].left = Tail(@)] /\ pc' = pc
    BY <1>4 DEF InsertPool
  <2>2. /\ Head(req[r].left) \in Pools /\ Tail(req[r].left) \in Seq(Pools)
        /\ ToSet(req[r].left) = {Head(req[r].left)} \cup ToSet(Tail(req[r].left))
    BY <1>2, <1>4, SetOfTail
  <2>3. /\ row'[r] = [row[r] EXCEPT !.pools = @ \cup {Head(req[r].left)}]
        /\ \A s \in SessionIds \ {r} : row'[s] = row[s]
        /\ row'[r].pools = row[r].pools \cup {Head(req[r].left)}
        /\ row'[r] \in Rows
    <3>1. row[r].pools \cup {Head(req[r].left)} \in SUBSET Pools
      BY <1>2, <2>2 DEF Rows
    <3>. DEFINE ps == row[r].pools \cup {Head(req[r].left)}
                new == [row[r] EXCEPT !.pools = ps]
    <3>2. row' = [row EXCEPT ![r] = new]
      BY <2>1
    <3>. HIDE DEF ps
    <3>3. new \in Rows /\ new.pools = ps
      BY <1>2, <3>1 DEF Rows, ps
    <3>. HIDE DEF new
    <3>. QED
      BY <1>2, <3>2, <3>3 DEF SessionsInv, TypeOK, ps, new
  <2>4. row'[r] # Nothing
    BY <2>3, SessionConstants
  <2>5. /\ req' \in [Requests -> Progress] /\ \A q \in Requests \ {r} : req'[q] = req[q]
        /\ req'[r].left = Tail(req[r].left) /\ req'[r].reply = "none"
        /\ req'[r].ask = req[r].ask
    BY <1>2, <2>1, <2>2 DEF SessionsInv, TypeOK, Progress
  <2>6. TypeOK'
    <3>1. row' \in [SessionIds -> Rows \cup {Nothing}]
      BY <1>2, <2>1, <2>3 DEF SessionsInv, TypeOK
    <3>2. \A q \in Requests : pc'[q] = "done" <=> req'[q].reply # "none"
      BY <1>2, <2>1, <2>5 DEF SessionsInv, TypeOK
    <3>. QED
      BY <1>1, <2>1, <2>5, <3>1, <3>2 DEF SessionsInv, TypeOK
  <2>7. RequestInv(r)'
    <3>1. Ask(r)' = Ask(r) /\ Meant(r)' = Meant(r) /\ pc'[r] = "pools"
      BY <1>1, <2>1, <2>5 DEF Ask, Meant
    <3>2. row'[r].pools \cup ToSet(req'[r].left) = row[r].pools \cup ToSet(req[r].left)
      BY <2>2, <2>3, <2>5
    <3>. QED
      BY <1>2, <2>4, <2>5, <3>1, <3>2 DEF RequestInv, Position, Storing, Funded, Makers
  <2>8. ASSUME NEW q \in Requests \ {r} PROVE RequestInv(q)'
    <3>1. /\ \A s \in SessionIds : row[s] # Nothing => row'[s] # Nothing
          /\ row'[q] = row[q]
      BY <1>2, <2>3, <2>4 DEF SessionIds
    <3>. QED
      BY <1>1, <2>1, <2>5, <3>1, OtherRequest DEF SessionsInv
  <2>. QED
    BY <2>6, <2>7, <2>8 DEF SessionsInv
<1>. QED
  BY <1>3, <1>4

\* A row gets other values in columns that say nothing of its pools.
LEMMA EditRow ==
  ASSUME SessionsInv, NEW s \in SessionIds, row[s] # Nothing, NEW new \in Rows,
         new.pools = row[s].pools,
         row' = [row EXCEPT ![s] = new]
  PROVE  /\ row' \in [SessionIds -> Rows \cup {Nothing}]
         /\ \A x \in SessionIds :
              /\ row[x] = Nothing => row'[x] = Nothing
              /\ row[x] # Nothing => row'[x] # Nothing /\ row'[x].pools = row[x].pools
<1>1. new # Nothing
  BY SessionConstants
<1>2. row \in [SessionIds -> Rows \cup {Nothing}]
  BY DEF SessionsInv, TypeOK
<1>. QED
  BY <1>1, <1>2

LEMMA UpdateStatusKeeps ==
  ASSUME SessionsInv, NEW r \in Requests, UpdateStatus(r)
  PROVE  SessionsInv'
<1>. DEFINE s == Ask(r).session
            new == [row[s] EXCEPT !.status = Ask(r).kind]
<1>1. /\ pc[r] = "update" /\ pc[r] \notin {"idle", "done"}
      /\ row' = [row EXCEPT ![s].status = Ask(r).kind] /\ pc' = [pc EXCEPT ![r] = "reply"]
      /\ UNCHANGED <<held, proceeds, gas, mined, tx, req, seen>>
  BY DEF UpdateStatus, Goto, chainVars, engineVars
<1>2. /\ Ask(r).kind \in {"active", "paused", "cancelled"} /\ Ask(r).kind \notin Makers
      /\ Ask(r) \in Asks /\ req[r].reply = "none"
  BY <1>1, Working DEF SessionsInv, TypeOK, RequestInv, Position, Makers
<1>3. s \in SessionIds /\ row[s] # Nothing /\ row[s] \in Rows
  BY <1>1, <1>2, Working DEF RowOf, SessionsInv, TypeOK
<1>4. /\ new \in Rows /\ new.pools = row[s].pools
      /\ row' = [row EXCEPT ![s] = new]
  BY <1>1, <1>2, <1>3 DEF Rows, Statuses
<1>. HIDE DEF new
<1>5. /\ row' \in [SessionIds -> Rows \cup {Nothing}]
      /\ \A x \in SessionIds :
           /\ row[x] = Nothing => row'[x] = Nothing
           /\ row[x] # Nothing => row'[x] # Nothing /\ row'[x].pools = row[x].pools
  BY <1>3, <1>4, EditRow
<1>6. TypeOK'
  BY <1>1, <1>2, <1>5 DEF SessionsInv, TypeOK, Labels
<1>7. RequestInv(r)'
  <2>1. /\ Ask(r)' = Ask(r) /\ pc'[r] = "reply" /\ req' = req /\ row'[s] # Nothing
    BY <1>1, <1>3, <1>5 DEF SessionsInv, TypeOK, Ask
  <2>. QED
    BY <1>2, <2>1 DEF RequestInv, Position, Storing, Funded, Makers
<1>8. ASSUME NEW q \in Requests \ {r} PROVE RequestInv(q)'
  BY <1>1, <1>5, OtherRequest DEF SessionsInv, TypeOK, SessionIds
<1>. QED
  BY <1>6, <1>7, <1>8 DEF SessionsInv

\* Steps of nobody's request: rows keep their pools, transactions go on.
LEMMA Elsewhere ==
  ASSUME SessionsInv, UNCHANGED <<pc, req>>,
         row' \in [SessionIds -> Rows \cup {Nothing}],
         \A x \in SessionIds :
           /\ row[x] = Nothing => row'[x] = Nothing
           /\ row[x] # Nothing => row'[x] # Nothing /\ row'[x].pools = row[x].pools,
         held' \in [Wallets -> Nat], proceeds' \in [Wallets -> Nat],
         gas' \in [Accounts -> Nat], mined' \in [Accounts -> Nat],
         seen' \in [SessionIds -> SUBSET Nat],
         tx' \in [Requests -> Transactions],
         \A q \in Requests : tx[q].state # "none" => tx'[q].state # "none"
  PROVE  SessionsInv'
<1>1. TypeOK'
  BY DEF SessionsInv, TypeOK
<1>2. ASSUME NEW q \in Requests PROVE RequestInv(q)'
  BY OtherRequest DEF SessionsInv, SessionIds
<1>. QED
  BY <1>1, <1>2 DEF SessionsInv

LEMMA UpdateConfigKeeps ==
  ASSUME SessionsInv, NEW s \in SessionIds, NEW p \in Shares, UpdateConfig(s, p)
  PROVE  SessionsInv'
<1>. DEFINE new == [row[s] EXCEPT !.pov = p]
<1>1. /\ row[s] # Nothing /\ row' = [row EXCEPT ![s].pov = p]
      /\ UNCHANGED <<held, proceeds, gas, mined, tx, pc, req, seen>>
  BY DEF UpdateConfig, chainVars, requestVars, engineVars
<1>2. row[s] \in Rows
  BY <1>1 DEF SessionsInv, TypeOK
<1>3. /\ new \in Rows /\ new.pools = row[s].pools
      /\ row' = [row EXCEPT ![s] = new]
  BY <1>1, <1>2 DEF Rows
<1>. HIDE DEF new
<1>4. /\ row' \in [SessionIds -> Rows \cup {Nothing}]
      /\ \A x \in SessionIds :
           /\ row[x] = Nothing => row'[x] = Nothing
           /\ row[x] # Nothing => row'[x] # Nothing /\ row'[x].pools = row[x].pools
  BY <1>1, <1>3, EditRow
<1>. QED
  BY <1>1, <1>4, Elsewhere DEF SessionsInv, TypeOK

LEMMA EngineReadsKeeps ==
  ASSUME SessionsInv, NEW s \in SessionIds, EngineReads(s)
  PROVE  SessionsInv'
<1>1. /\ row[s] # Nothing /\ seen' = [seen EXCEPT ![s] = @ \cup {row[s].sold}]
      /\ UNCHANGED <<row, held, proceeds, gas, mined, tx, pc, req>>
  BY DEF EngineReads, tableVars, chainVars, requestVars
<1>2. row[s] \in Rows /\ row[s].sold \in Nat
  BY <1>1 DEF SessionsInv, TypeOK, Rows
<1>3. seen' \in [SessionIds -> SUBSET Nat]
  BY <1>1, <1>2 DEF SessionsInv, TypeOK
<1>. QED
  BY <1>1, <1>3, Elsewhere DEF SessionsInv, TypeOK

LEMMA EngineSellsKeeps ==
  ASSUME SessionsInv, NEW s \in SessionIds, NEW saw \in seen[s],
         NEW n \in 1..row[s].amount, EngineSells(s, saw, n)
  PROVE  SessionsInv'
<1>. DEFINE w == row[s].wallet
<1>1. /\ row[s] # Nothing /\ n <= held[w] /\ gas[w] > 0
      /\ \/ /\ held' = [held EXCEPT ![w] = @ - n]
            /\ proceeds' = [proceeds EXCEPT ![w] = @ + n]
         \/ UNCHANGED <<held, proceeds>>
      /\ gas' = [gas EXCEPT ![w] = @ - 1] /\ mined' = [mined EXCEPT ![w] = @ + 1]
      /\ tx' = Superseded(w) /\ UNCHANGED <<pc, req, seen>>
      /\ row' = [row EXCEPT ![s].sold = @ + n,
                            ![s].status = IF saw + n >= row[s].amount
                                            THEN "completed" ELSE @]
  BY DEF EngineSells, requestVars
<1>. DEFINE status == IF saw + n >= row[s].amount THEN "completed" ELSE row[s].status
            new == [row[s] EXCEPT !.sold = @ + n, !.status = status]
<1>2. row[s] \in Rows /\ row \in [SessionIds -> Rows \cup {Nothing}]
  BY <1>1 DEF SessionsInv, TypeOK
<1>3. /\ w \in Wallets /\ w \in Accounts /\ row[s].sold \in Nat /\ row[s].amount \in Nat
      /\ status \in Statuses /\ saw \in Nat /\ held[w] \in Nat
  BY <1>2 DEF Rows, Accounts, Statuses, SessionsInv, TypeOK
<1>4. row' = [row EXCEPT ![s] = new]
  BY <1>1, <1>2 DEF Rows
<1>5. n \in Nat /\ n <= held[w]
  BY <1>1, <1>3
<1>. HIDE DEF status
<1>6. new \in Rows /\ new.pools = row[s].pools
  <2>1. row[s].sold + n \in Nat
    BY <1>3, <1>5
  <2>2. new \in Rows
    BY <1>2, <1>3, <2>1 DEF Rows
  <2>. QED
    BY <1>2, <2>2 DEF Rows
<1>. HIDE DEF new, w
<1>7. /\ row' \in [SessionIds -> Rows \cup {Nothing}]
      /\ \A x \in SessionIds :
           /\ row[x] = Nothing => row'[x] = Nothing
           /\ row[x] # Nothing => row'[x] # Nothing /\ row'[x].pools = row[x].pools
  BY <1>1, <1>4, <1>6, EditRow
<1>8. /\ held' \in [Wallets -> Nat] /\ proceeds' \in [Wallets -> Nat]
      /\ gas' \in [Accounts -> Nat] /\ mined' \in [Accounts -> Nat]
  BY <1>1, <1>3, <1>5 DEF SessionsInv, TypeOK
<1>9. /\ tx' \in [Requests -> Transactions]
      /\ \A q \in Requests : tx[q].state # "none" => tx'[q].state # "none"
  BY <1>1 DEF Superseded, SessionsInv, TypeOK, Transactions, TxStates
<1>10. seen' \in [SessionIds -> SUBSET Nat]
  BY <1>1 DEF SessionsInv, TypeOK
<1>. QED
  BY <1>1, <1>7, <1>8, <1>9, <1>10, Elsewhere

-----------------------------------------------------------------------------
(* Transactions.                                                           *)

LEMMA SendKeeps ==
  ASSUME SessionsInv, NEW r \in Requests, Send(r)
  PROVE  SessionsInv'
<1>. DEFINE l == IF Ask(r).kind = "active" THEN "update" ELSE "reply"
<1>1. /\ pc[r] = "send" /\ pc[r] \notin {"idle", "done"} /\ Submitted(r)
      /\ pc' = [pc EXCEPT ![r] = l]
      /\ UNCHANGED <<row, held, proceeds, gas, mined, req, seen>>
  BY DEF Send, Goto, tableVars, chainVars, engineVars
<1>2. /\ Ask(r) \in Asks /\ Ask(r).kind \in {"active", "withdraw"} /\ Ask(r).kind \notin Makers
      /\ req[r] \in Progress /\ req[r].reply = "none" /\ RowOf(r) # Nothing
  BY <1>1, Working DEF SessionsInv, TypeOK, RequestInv, Position, Makers
<1>3. /\ tx' \in [Requests -> Transactions] /\ tx'[r].state = "pending"
      /\ \A q \in Requests : tx[q].state # "none" => tx'[q].state # "none"
  <2>1. [state |-> "pending", nonce |-> req[r].nonce, value |-> req[r].saw] \in Transactions
    BY <1>2 DEF Transactions, TxStates, Progress
  <2>2. \A q \in Requests : [tx[q] EXCEPT !.state = "replaced"] \in Transactions
    BY DEF SessionsInv, TypeOK, Transactions, TxStates
  <2>3. \A q \in Requests : tx[q] \in Transactions
    BY DEF SessionsInv, TypeOK
  <2>4. tx' \in [Requests -> Transactions]
    BY <1>1, <2>1, <2>2, <2>3 DEF Submitted
  <2>5. \A q \in Requests : tx[q].state # "none" => tx'[q].state # "none"
    BY <1>1, <2>3 DEF Submitted, Transactions
  <2>6. tx'[r].state = "pending"
    BY <1>1 DEF Submitted
  <2>. QED
    BY <2>4, <2>5, <2>6
<1>4. l \in Labels /\ l # "done" /\ pc'[r] = l
  BY <1>1 DEF SessionsInv, TypeOK, Labels
<1>5. TypeOK'
  BY <1>1, <1>2, <1>3, <1>4 DEF SessionsInv, TypeOK
<1>6. RequestInv(r)'
  <2>1. Ask(r)' = Ask(r) /\ RowOf(r)' = RowOf(r)
    BY <1>1 DEF Ask, RowOf
  <2>. QED
    BY <1>1, <1>2, <1>3, <1>4, <2>1
    DEF RequestInv, Position, Storing, Funded, Makers, RowOf
<1>7. ASSUME NEW q \in Requests \ {r} PROVE RequestInv(q)'
  BY <1>1, <1>3, OtherRequest DEF SessionsInv, TypeOK
<1>. QED
  BY <1>5, <1>6, <1>7 DEF SessionsInv

LEMMA SendRefusedKeeps ==
  ASSUME SessionsInv, NEW r \in Requests, SendRefused(r)
  PROVE  SessionsInv'
BY RefuseKeeps DEF SendRefused

LEMMA SettleKeeps ==
  ASSUME SessionsInv, NEW r \in Requests, Settle(r)
  PROVE  SessionsInv'
<1>1. UNCHANGED <<row, held, pc, req, seen>>
  BY DEF Settle, Mine, DropTx, tableVars, chainVars, requestVars, engineVars
<1>2. /\ row' \in [SessionIds -> Rows \cup {Nothing}]
      /\ \A x \in SessionIds :
           /\ row[x] = Nothing => row'[x] = Nothing
           /\ row[x] # Nothing => row'[x] # Nothing /\ row'[x].pools = row[x].pools
  BY <1>1 DEF SessionsInv, TypeOK
<1>3. tx[r] \in Transactions /\ tx[r].value \in Nat
  BY DEF SessionsInv, TypeOK, Transactions
<1>4. /\ tx' \in [Requests -> Transactions]
      /\ \A q \in Requests : tx[q].state # "none" => tx'[q].state # "none"
  BY DEF Settle, Mine, DropTx, SessionsInv, TypeOK, Transactions, TxStates
<1>5. /\ proceeds' \in [Wallets -> Nat] /\ gas' \in [Accounts -> Nat]
      /\ mined' \in [Accounts -> Nat]
  <2>1. CASE DropTx(r)
    BY <2>1 DEF DropTx, chainVars, SessionsInv, TypeOK
  <2>2. CASE Mine(r)
    <3>. DEFINE a == Payer(r)
                w == RowOf(r).wallet
                v == tx[r].value
    <3>1. /\ mined' = [mined EXCEPT ![a] = @ + 1]
          /\ \/ /\ gas[a] >= v /\ gas' = [gas EXCEPT ![a] = @ - v, ![w] = @ + v]
                /\ UNCHANGED proceeds
             \/ /\ gas[a] > 0 /\ gas' = [gas EXCEPT ![a] = @ - 1]
                /\ proceeds' = [proceeds EXCEPT ![w] = IF @ >= v THEN @ - v ELSE @]
      BY <2>2 DEF Mine
    <3>. HIDE DEF a, w
    <3>2. /\ mined \in [Accounts -> Nat] /\ gas \in [Accounts -> Nat]
          /\ proceeds \in [Wallets -> Nat] /\ v \in Nat
      BY <1>3 DEF SessionsInv, TypeOK
    <3>. HIDE DEF v
    <3>3. mined' \in [Accounts -> Nat]
      <4>1. mined' = [mined EXCEPT ![a] = @ + 1] /\ mined \in [Accounts -> Nat]
        BY <3>1, <3>2
      <4>2. \A x \in Accounts : mined[x] + 1 \in Nat
        BY <4>1
      <4>. QED
        BY <4>1, <4>2
    <3>4. gas' \in [Accounts -> Nat] /\ proceeds' \in [Wallets -> Nat]
      BY <3>1, <3>2
    <3>. QED
      BY <3>3, <3>4
  <2>. QED
    BY <2>1, <2>2 DEF Settle
<1>6. held' \in [Wallets -> Nat] /\ seen' \in [SessionIds -> SUBSET Nat]
  BY <1>1 DEF SessionsInv, TypeOK
<1>. QED
  BY <1>1, <1>2, <1>4, <1>5, <1>6, Elsewhere

-----------------------------------------------------------------------------
LEMMA SessionsStep == SessionsInv /\ [Next]_vars => SessionsInv'
<1> SUFFICES ASSUME SessionsInv, [Next]_vars PROVE SessionsInv'
  OBVIOUS
<1>1. ASSUME NEW r \in Requests, Proceed(r) PROVE SessionsInv'
  BY <1>1, CheckBalanceKeeps, ReadHoldingKeeps, ReadProceedsKeeps, ChoosePoolKeeps,
     InsertSessionKeeps, InsertPoolKeeps, GasReadsKeep, ReadNonceKeeps, SendKeeps,
     SendRefusedKeeps, UpdateStatusKeeps, ReplyKeeps DEF Proceed
<1>2. CASE UNCHANGED vars
  <2>1. UNCHANGED <<row, held, proceeds, gas, mined, tx, pc, req, seen>>
    BY <1>2 DEF vars, tableVars, chainVars, requestVars, engineVars
  <2>. QED
    BY <2>1, Elsewhere DEF SessionsInv, TypeOK
<1>. QED
  BY <1>1, <1>2, BeginKeeps, CallFailsKeeps, SettleKeeps, EngineReadsKeeps, EngineSellsKeeps,
     UpdateConfigKeeps DEF Next

\* Where every request is, and what has been stored and read on its behalf.
THEOREM SessionsInvariant == Spec => []SessionsInv
BY SessionsStart, SessionsStep, PTL DEF Spec

\* The handlers of sessions, with an engine that may sell more than the session
\* has: rows keep their columns, balances stay numbers, and the estimate of gas
\* never divides by zero or goes below it, not for an oversold session either.
THEOREM SessionsType == Spec => []TypeOK
BY SessionsInvariant, PTL DEF SessionsInv

\* create_session and start_selling: whoever is told of a session finds it with
\* all its pools.
THEOREM StoredWhole == Spec => []SessionsAreWhole
<1>1. ASSUME SessionsInv, NEW r \in Requests, Creates(r)
      PROVE  /\ req[r].reply = "ok" => row[r] # Nothing
             /\ row[r] # Nothing =>
                  \/ row[r].pools \in Meant(r)
                  \/ pc[r] = "pools" \/ req[r].reply = "error"
  <2>1. Ask(r).kind \in Makers /\ RequestInv(r)
    BY <1>1 DEF Creates, Makers, SessionsInv
  <2>2. /\ pc[r] \in Labels /\ req[r].reply \in {"none", "ok", "error"}
        /\ pc[r] = "done" <=> req[r].reply # "none"
    BY <1>1 DEF SessionsInv, TypeOK, Progress
  <2>3. pc[r] \in {"idle", "balance", "quote", "insert", "pools", "reply", "done"}
    BY <2>1, <2>2 DEF RequestInv, Position, Labels, Makers
  <2>. QED
    BY <2>1, <2>2, <2>3 DEF RequestInv, Storing
<1>2. SessionsInv => SessionsAreWhole
  BY <1>1 DEF SessionsAreWhole
<1>. QED
  BY <1>2, SessionsInvariant, PTL

\* update_session_status with fund_session_wallet_gas: no session becomes active
\* without the gas, or a transfer of it that the node has accepted.
THEOREM ActiveIsFunded == Spec => FundedBeforeActive
<1>1. SessionsInv /\ [Next]_vars =>
        [\A s \in SessionIds :
           row[s] # Nothing /\ row'[s].status = "active" /\ row[s].status # "active"
             => \E r \in Requests :
                  /\ pc[r] = "update" /\ Ask(r).kind = "active" /\ Ask(r).session = s
                  /\ tx[r].state # "none" \/ req[r].saw = 0]_vars
  <2> SUFFICES ASSUME SessionsInv, Next, NEW s \in SessionIds, row[s] # Nothing,
                      row'[s].status = "active", row[s].status # "active"
               PROVE  \E r \in Requests :
                        /\ pc[r] = "update" /\ Ask(r).kind = "active" /\ Ask(r).session = s
                        /\ tx[r].state # "none" \/ req[r].saw = 0
    OBVIOUS
  <2>0. row \in [SessionIds -> Rows \cup {Nothing}] /\ row[s] \in Rows
    BY DEF SessionsInv, TypeOK
  <2>1. row' # row
    OBVIOUS
  <2>2. ASSUME NEW r \in Requests,
               (\E a \in Asks : Begin(r, a)) \/ CallFails(r) \/ Settle(r)
        PROVE  FALSE
    BY <2>1, <2>2 DEF Begin, CallFails, Settle, Mine, DropTx, tableVars
  <2>3. ASSUME NEW r \in Requests, Proceed(r), ~UpdateStatus(r)
        PROVE  FALSE
    <3>1. InsertSession(r) \/ InsertPool(r)
      BY <2>1, <2>3 DEF Proceed, CheckBalance, ReadHolding, ReadProceeds, ChoosePool,
         EstimateGas, ReadDeficit, CheckGasWallet, ReadNonce, Send, SendRefused, Reply,
         Refuse, Reads, tableVars
    <3>2. CASE InsertSession(r)
      <4>1. row[r] = Nothing /\ \A x \in SessionIds \ {r} : row'[x] = row[x]
        BY <2>0, <3>2 DEF InsertSession, SessionsInv, RequestInv, Storing
      <4>. QED
        BY <4>1
    <3>3. CASE InsertPool(r)
      <4>1. row' = [row EXCEPT ![r].pools = @ \cup {Head(req[r].left)}]
        BY <2>1, <3>3 DEF InsertPool
      <4>. QED
        BY <2>0, <4>1 DEF Rows
    <3>. QED
      BY <3>1, <3>2, <3>3
  <2>4. ASSUME NEW x \in SessionIds, NEW p \in Shares, UpdateConfig(x, p)
        PROVE  FALSE
    <3>1. row' = [row EXCEPT ![x].pov = p]
      BY <2>4 DEF UpdateConfig
    <3>. QED
      BY <2>0, <3>1 DEF Rows
  <2>5. ASSUME NEW x \in SessionIds, NEW saw \in seen[x], NEW n \in 1..row[x].amount,
               EngineSells(x, saw, n)
        PROVE  FALSE
    <3>1. row' = [row EXCEPT ![x].sold = @ + n,
                             ![x].status = IF saw + n >= row[x].amount
                                             THEN "completed" ELSE @]
      BY <2>5 DEF EngineSells
    <3>. QED
      BY <2>0, <3>1 DEF Rows
  <2>6. PICK r \in Requests : UpdateStatus(r)
    BY <2>1, <2>2, <2>3, <2>4, <2>5 DEF Next, EngineReads, tableVars
  <2>7. /\ pc[r] = "update" /\ row' = [row EXCEPT ![Ask(r).session].status = Ask(r).kind]
    BY <2>6 DEF UpdateStatus
  <2>8. Ask(r).session = s /\ Ask(r).kind = "active"
    BY <2>0, <2>7 DEF Rows
  <2>. QED
    BY <2>7, <2>8 DEF SessionsInv, RequestInv, Funded
<1>. QED
  BY <1>1, SessionsInvariant, PTL DEF Spec, FundedBeforeActive
=============================================================================
