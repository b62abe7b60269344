---------------------------- MODULE IndexerProofs ----------------------------
(***************************************************************************)
(* Proofs about SwapParser and Indexer, for every number of workers, queue *)
(* size, chain and word width:                                             *)
(*   - the parser names every plain swap's tokens and amounts correctly;   *)
(*   - every block is in one place (PollerAhead, Accounted and Works are   *)
(*     the inductive invariant), so a log is published once at most;       *)
(*   - of the blocks gone through to the end, nothing that is due is lost. *)
(* What must be true of a published event is recorded when it is published *)
(* (Recorded); what a worker has behind it has been published (Complete).  *)
(***************************************************************************)
EXTENDS Indexer, FiniteSetTheorems, TLAPS

-----------------------------------------------------------------------------
(* The parser.                                                             *)

\* Two's complement: what the code computes for a word that is not zero.
LEMMA NegateValue ==
  ASSUME NEW word \in Words, word # 0
  PROVE  Negate(word) = Modulus - word
<1>1. Modulus \in Nat /\ word \in Nat /\ word < Modulus /\ word > 0
  BY ParserConstants DEF Modulus, Words
<1>2. (Modulus - 1 - word) + 1 \in 0..(Modulus - 1)
  BY <1>1
<1>3. \A n \in 0..(Modulus - 1) : n % Modulus = n
  BY <1>1
<1>. QED
  BY <1>1, <1>2, <1>3 DEF Negate

\* parse_v2_swap, parse_v3_swap: of every plain swap, whatever the width of a
\* word, the event names the token that went in and the amounts without signs.
THEOREM ParserFaithful ==
  ASSUME NEW log, IsSwap(log), WordsOK(log), log.complete, PlainSwap(log)
  PROVE  Faithful(ParseSwapLog(log), log)
<1>. USE ParserConstants
<1>1. CASE log.topic = "v2"
  <2>1. log.words \in [1..4 -> Words]
    BY <1>1 DEF WordsOK, Parses
  <2>2. \A i \in 1..4 : log.words[i] \in Nat
    BY <2>1 DEF Words, Modulus
  <2>. DEFINE event == ParseSwapLog(log)
  <2>3. /\ event.zeroIn = (log.words[1] # 0)
        /\ event.amountIn = IF log.words[1] # 0 THEN log.words[1] ELSE log.words[2]
        /\ event.amountOut = IF log.words[1] # 0 THEN log.words[4] ELSE log.words[3]
    BY <1>1 DEF ParseSwapLog, ParseV2
  <2>. HIDE DEF event
  <2>4. /\ Delta0(log) = log.words[1] - log.words[3]
        /\ Delta1(log) = log.words[2] - log.words[4]
        /\ log.words[1] = 0 \/ log.words[3] = 0
        /\ log.words[2] = 0 \/ log.words[4] = 0
        /\ \/ Delta0(log) > 0 /\ Delta1(log) <= 0
           \/ Delta0(log) < 0 /\ Delta1(log) >= 0
    BY <1>1 DEF PlainSwap, Delta0, Delta1
  <2>5. CASE Delta0(log) > 0
    <3>1. log.words[1] # 0
      BY <2>2, <2>4, <2>5
    <3>2. event.zeroIn
      BY <2>3, <3>1
    <3>3. event.amountIn = Delta0(log) /\ event.amountOut = -Delta1(log)
      BY <2>2, <2>3, <2>4, <2>5, <3>1
    <3>. QED
      BY <2>5, <3>2, <3>3 DEF Faithful, event
  <2>6. CASE Delta0(log) < 0
    <3>1. log.words[1] = 0 /\ ~(Delta0(log) > 0)
      BY <2>2, <2>4, <2>6
    <3>2. ~event.zeroIn
      BY <2>3, <3>1
    <3>3. event.amountIn = Delta1(log) /\ event.amountOut = -Delta0(log)
      BY <2>2, <2>3, <2>4, <2>6, <3>1
    <3>. QED
      BY <3>1, <3>2, <3>3 DEF Faithful, event
  <2>. QED
    BY <2>4, <2>5, <2>6
<1>2. CASE log.topic = "v3"
  <2>1. log.words \in [1..2 -> Words]
    BY <1>2 DEF WordsOK, Parses
  <2>2. log.words[1] \in Words /\ log.words[2] \in Words
    BY <2>1
  <2>. DEFINE zero == log.words[1]
              one == log.words[2]
  <2>. HIDE DEF zero, one
  <2>3. Delta0(log) = Signed(zero) /\ Delta1(log) = Signed(one)
    BY <1>2 DEF Delta0, Delta1, zero, one
  <2>. DEFINE event == ParseSwapLog(log)
  <2>4. /\ event.zeroIn = ~Negative(zero)
        /\ event.amountIn = IF ~Negative(zero) THEN zero ELSE one
        /\ event.amountOut = IF Negative(zero) THEN Negate(zero)
                             ELSE IF Negative(one) THEN Negate(one) ELSE one
    BY <1>2 DEF ParseSwapLog, ParseV3, zero, one
  <2>. HIDE DEF event
  <2>5. zero \in Words /\ one \in Words
    BY <2>2 DEF zero, one
  <2>6. \/ Signed(zero) > 0 /\ Signed(one) <= 0
        \/ Signed(zero) < 0 /\ Signed(one) >= 0
    BY <2>3 DEF PlainSwap
  <2>7. CASE Signed(zero) > 0
    <3>1. ~Negative(zero) /\ Signed(zero) = zero
      BY <2>5, <2>7 DEF Signed, Negative, Words, Modulus
    <3>5. event.zeroIn
      BY <2>4, <3>1
    <3>2. Negative(one) \/ one = 0
      BY <2>5, <2>6, <2>7 DEF Signed, Negative, Words, Modulus
    <3>3. CASE Negative(one)
      <4>1. Negate(one) = -Signed(one)
        BY <2>5, <3>3, NegateValue DEF Signed, Negative, Words, Modulus
      <4>2. event.amountIn = Delta0(log) /\ event.amountOut = -Delta1(log)
        BY <2>3, <2>4, <3>1, <3>3, <4>1
      <4>. QED
        BY <2>3, <2>7, <3>5, <4>2 DEF Faithful, event
    <3>4. CASE one = 0
      <4>1. Signed(one) = 0 /\ ~Negative(one)
        BY <3>4 DEF Signed, Negative
      <4>2. event.amountIn = Delta0(log) /\ event.amountOut = -Delta1(log)
        BY <2>3, <2>4, <3>1, <3>4, <4>1
      <4>. QED
        BY <2>3, <2>7, <3>5, <4>2 DEF Faithful, event
    <3>. QED
      BY <3>2, <3>3, <3>4
  <2>8. CASE Signed(zero) < 0
    <3>1. Negative(zero) /\ Negate(zero) = -Signed(zero)
      BY <2>5, <2>8, NegateValue DEF Signed, Negative, Words, Modulus
    <3>2. Signed(one) = one
      BY <2>5, <2>6, <2>8 DEF Signed, Negative, Words, Modulus
    <3>3. ~(Signed(zero) > 0)
      BY <2>5, <2>8 DEF Signed, Words, Modulus
    <3>4. ~event.zeroIn
      BY <2>4, <3>1
    <3>5. event.amountIn = Delta1(log) /\ event.amountOut = -Delta0(log)
      BY <2>3, <2>4, <3>1, <3>2
    <3>. QED
      BY <2>3, <3>3, <3>4, <3>5 DEF Faithful, event
  <2>. QED
    BY <2>6, <2>7, <2>8
<1>. QED
  BY <1>1, <1>2 DEF IsSwap

-----------------------------------------------------------------------------
(* Logs.                                                                   *)

LEMMA LogIdPairs ==
  \A b, i : <<b, i>> \in LogIds <=> b \in Blocks /\ i \in DOMAIN Content[b]
BY DEF LogIds

\* A set of numbers has a least one: of the intervals from zero to its members
\* one is a subset of all the others.
LEMMA LeastMember ==
  ASSUME NEW S \in SUBSET Nat, S # {}
  PROVE  \E i \in S : \A j \in S : i <= j
<1>. DEFINE T == {0..i : i \in S}
<1>1. T \subseteq FiniteSubsetsOf(Nat) /\ T # {}
  <2>1. \A i \in S : IsFiniteSet(0..i) /\ 0..i \subseteq Nat
    BY FS_Interval
  <2>. QED
    BY <2>1 DEF FiniteSubsetsOf
<1>. HIDE DEF T
<1>2. \E X \in T : \A Y \in T : ~(<<Y, X>> \in StrictSubsetOrdering(Nat))
  BY <1>1, FS_StrictSubsetOrderingWellFounded, WFMin
<1>3. PICK i \in S : \A j \in S : ~(<<0..j, 0..i>> \in StrictSubsetOrdering(Nat))
  BY <1>2 DEF T
<1>4. ASSUME NEW j \in S, j < i
      PROVE  FALSE
  <2>1. 0..j \in SUBSET Nat /\ 0..i \in SUBSET Nat /\ 0..j \subseteq 0..i
    BY <1>4
  <2>2. i \in 0..i /\ i \notin 0..j
    BY <1>4
  <2>. QED
    BY <1>3, <2>1, <2>2 DEF StrictSubsetOrdering
<1>. QED
  BY <1>4

\* A worker that has logs left is at the first of them.
LEMMA CurrentLog ==
  ASSUME NEW w \in Workers, block[w] \in Blocks, logs[w] # {},
         logs[w] \subseteq DOMAIN Content[block[w]]
  PROVE  /\ Current(w)[1] = block[w] /\ Current(w)[2] \in logs[w]
         /\ Current(w) = <<block[w], Current(w)[2]>> /\ Current(w) \in LogIds
<1>1. logs[w] \subseteq Nat
  BY IndexerConstants
<1>2. \E i \in logs[w] : \A j \in logs[w] : i <= j
  BY <1>1, LeastMember
<1>. QED
  BY <1>2, LogIdPairs DEF Current
-----------------------------------------------------------------------------
(* The inductive invariant.                                                *)

\* The poller's numbers, and what is empty while it is not connected.
PollerAhead ==
  /\ start <= sent /\ sent <= target /\ target <= head
  /\ poller = "send" => sent < target
  /\ poller \in {"connect", "down"} =>
       /\ sent = start /\ queue = <<>> /\ settled = {}
       /\ \A w \in Workers : pc[w] \notin Busy

\* The blocks between the start and what was sent, and no others.
Accounted == BlocksAccounted /\ Len(queue) <= sent - start

\* A worker's logs are logs of its block; what it publishes is one of them.
Works(w) ==
  /\ pc[w] \in {"logs", "query", "publish"} => logs[w] \subseteq DOMAIN Content[block[w]]
  /\ pc[w] \in {"query", "publish"} => logs[w] # {}
  /\ pc[w] = "query" => Parses(LogAt(Current(w)))
  /\ pc[w] = "publish" =>
       /\ parsed[w] = Current(w)
       /\ Parses(LogAt(Current(w))) \/ LogAt(Current(w)).topic = "transfer"

IndexerBase == TypeOK /\ PollerAhead /\ Accounted /\ \A w \in Workers : Works(w)

\* The blocks in the workers' hands exist.
LEMMA BlocksInHand ==
  ASSUME IndexerBase, NEW w \in Workers, pc[w] \in Busy
  PROVE  block[w] \in Blocks /\ block[w] \in Held
<1>1. block[w] \in Held
  BY DEF Held
<1>2. block[w] \in (start + 1)..(sent - Len(queue))
  BY <1>1 DEF IndexerBase, Accounted, BlocksAccounted
<1>3. Len(queue) \in Nat /\ start \in Nat /\ sent \in Nat /\ head \in Nat
  BY IndexerConstants DEF IndexerBase, TypeOK, Blocks
<1>4. sent <= head /\ head <= MaxHeight
  <2>1. sent <= target /\ target <= head /\ target \in Nat /\ head \in Blocks
    BY DEF IndexerBase, PollerAhead, TypeOK
  <2>. QED
    BY <1>3, <2>1, IndexerConstants DEF Blocks
<1>. QED
  BY <1>1, <1>2, <1>3, <1>4, IndexerConstants DEF Blocks

LEMMA LogInHand ==
  ASSUME IndexerBase, NEW w \in Workers, pc[w] \in {"logs", "query", "publish"}, logs[w] # {}
  PROVE  /\ Current(w)[1] = block[w] /\ Current(w)[2] \in logs[w]
         /\ Current(w) = <<block[w], Current(w)[2]>> /\ Current(w) \in LogIds
         /\ LogAt(Current(w)).address \in Addresses
<1>1. block[w] \in Blocks
  BY BlocksInHand DEF Busy
<1>2. logs[w] \subseteq DOMAIN Content[block[w]]
  BY DEF IndexerBase, Works
<1>. QED
  BY <1>1, <1>2, CurrentLog, IndexerConstants

LEMMA TypeStep == IndexerBase /\ [Next]_vars => TypeOK'
<1>. SUFFICES ASSUME IndexerBase, [Next]_vars PROVE TypeOK'
  OBVIOUS
<1>. USE DEF IndexerBase, TypeOK
<1>1. faults \in 0..MaxFaults /\ (Fault => faults' \in 0..MaxFaults)
  BY IndexerConstants DEF Fault
<1>2. CASE MineBlock
  BY <1>2, IndexerConstants DEF MineBlock, Blocks, pollerVars, workerVars, bookVars
<1>3. CASE ChangeWallets \/ RefreshLookup
  BY <1>1, <1>3 DEF ChangeWallets, RefreshLookup, pollerVars, workerVars, bookVars, lapseVars
<1>4. CASE ConnectFails \/ Reconnect
  BY <1>1, <1>4 DEF ConnectFails, Reconnect, workerVars, bookVars
<1>5. ASSUME NEW h \in Blocks, Connect(h) \/ Poll(h)
      PROVE  TypeOK'
  <2>1. h \in Nat
    BY IndexerConstants DEF Blocks
  <2>. QED
    BY <1>5, <2>1 DEF Connect, Poll, workerVars, bookVars
<1>6. CASE Send
  <2>1. queue' \in Seq(Nat) /\ Len(queue') <= QueueSize
    BY <1>6, IndexerConstants DEF Send
  <2>. QED
    BY <1>6, <2>1 DEF Send, workerVars, bookVars
<1>7. CASE Restart
  <2>1. queue' \in Seq(Nat) /\ Len(queue') <= QueueSize
    BY <1>7, IndexerConstants DEF Restart
  <2>. QED
    BY <1>1, <1>7, <2>1 DEF Restart, Labels
<1>8. CASE UNCHANGED vars
  BY <1>8 DEF vars, pollerVars, workerVars, bookVars
<1>9. ASSUME NEW w \in Workers, Settle(w)
      PROVE  /\ settled' \subseteq Nat /\ pc' \in [Workers -> Labels]
             /\ block' \in [Workers -> Nat] /\ logs' \in [Workers -> SUBSET AllIndices]
             /\ parsed' \in [Workers -> LogIds \cup {NoLog}]
  BY <1>9 DEF Settle, Labels
<1>10. ASSUME NEW w \in Workers, NextLog(w, "logs")
       PROVE  /\ pc' \in [Workers -> Labels] /\ logs' \in [Workers -> SUBSET AllIndices]
              /\ parsed' \in [Workers -> LogIds \cup {NoLog}]
  BY <1>10 DEF NextLog, Labels
<1>11. ASSUME NEW w \in Workers, LockReceiver(w)
       PROVE  TypeOK'
  BY <1>11 DEF LockReceiver, Labels, pollerVars, bookVars
<1>12. ASSUME NEW w \in Workers, Receive(w)
       PROVE  TypeOK'
  BY <1>12, IndexerConstants DEF Receive, Labels, pollerVars, bookVars
<1>13. ASSUME NEW w \in Workers, FetchReceipts(w)
       PROVE  TypeOK'
  <2>1. block[w] \in Blocks
    BY <1>13, BlocksInHand DEF FetchReceipts, Busy
  <2>2. DOMAIN Content[block[w]] \subseteq AllIndices
    BY <2>1 DEF AllIndices
  <2>. QED
    BY <1>13, <2>2 DEF FetchReceipts, Labels, pollerVars, bookVars
<1>14. ASSUME NEW w \in Workers, DropBlock(w) \/ EndOfBlock(w)
       PROVE  TypeOK'
  BY <1>1, <1>9, <1>14 DEF DropBlock, EndOfBlock, pollerVars, lapseVars
<1>15. ASSUME NEW w \in Workers, SkipLog(w)
       PROVE  TypeOK'
  BY <1>10, <1>15 DEF SkipLog, pollerVars, bookVars
<1>16. ASSUME NEW w \in Workers, ReadyLog(w)
       PROVE  TypeOK'
  BY <1>16, LogInHand DEF ReadyLog, AtLog, Labels, pollerVars, bookVars
<1>17. ASSUME NEW w \in Workers, CacheMiss(w)
       PROVE  TypeOK'
  BY <1>17 DEF CacheMiss, Labels, pollerVars, bookVars
<1>18. ASSUME NEW w \in Workers, TokensRead(w)
       PROVE  TypeOK'
  <2>1. Current(w) \in LogIds /\ LogAt(Current(w)).address \in Addresses
    BY <1>18, LogInHand DEF TokensRead, Works
  <2>. QED
    BY <1>18, <2>1 DEF TokensRead, Labels, pollerVars, bookVars
<1>19. ASSUME NEW w \in Workers, TokensFail(w)
       PROVE  TypeOK'
  <2>1. LogAt(Current(w)).address \in Addresses
    BY <1>19, LogInHand DEF TokensFail, Works
  <2>. QED
    BY <1>1, <1>10, <1>19, <2>1 DEF TokensFail, pollerVars, bookVars
<1>20. ASSUME NEW w \in Workers, Publish(w)
       PROVE  TypeOK'
  <2>1. parsed[w] \in LogIds
    BY <1>20, LogInHand DEF Publish, Works
  <2>2. copies' \in [LogIds -> Nat]
    BY <1>20, <2>1 DEF Publish
  <2>. QED
    BY <1>10, <1>20, <2>2 DEF Publish, pollerVars, lapseVars
<1>21. ASSUME NEW w \in Workers, PublishFails(w)
       PROVE  TypeOK'
  <2>1. parsed[w] \in LogIds
    BY <1>21, LogInHand DEF PublishFails, Works
  <2>. QED
    BY <1>1, <1>10, <1>21, <2>1 DEF PublishFails, pollerVars
<1>. QED
  BY <1>2, <1>3, <1>4, <1>5, <1>6, <1>7, <1>8, <1>11, <1>12, <1>13, <1>14, <1>15, <1>16,
     <1>17, <1>18, <1>19, <1>20, <1>21
     DEF Next, PollerStep, WorkerStep

\* Steps that move no block.
Quiet ==
  /\ UNCHANGED <<start, sent, queue, settled, block>>
  /\ \A w \in Workers : pc'[w] \in Busy <=> pc[w] \in Busy

\* Settle(w) and what the worker's log leaves unchanged.
SettleStep(w) ==
  /\ pc[w] \in Busy
  /\ Settle(w)
  /\ UNCHANGED <<head, pollerVars, queue>>

LEMMA BlockMoves ==
  IndexerBase /\ [Next]_vars =>
    \/ Quiet
    \/ Send \/ Restart
    \/ \E h \in Blocks : Connect(h)
    \/ \E w \in Workers : Receive(w) \/ SettleStep(w)
<1>. SUFFICES ASSUME IndexerBase, [Next]_vars
     PROVE  \/ Quiet
            \/ Send \/ Restart
            \/ \E h \in Blocks : Connect(h)
            \/ \E w \in Workers : Receive(w) \/ SettleStep(w)
  OBVIOUS
<1>. USE DEF IndexerBase
<1>1. pc \in [Workers -> Labels]
  BY DEF TypeOK
<1>2. MineBlock \/ ChangeWallets \/ RefreshLookup \/ ConnectFails \/ Reconnect \/ UNCHANGED vars
        => Quiet
  BY DEF MineBlock, ChangeWallets, RefreshLookup, ConnectFails, Reconnect, vars, pollerVars,
         workerVars, bookVars, Quiet
<1>3. \A h \in Blocks : Poll(h) => Quiet
  BY DEF Poll, workerVars, bookVars, Quiet
<1>4. \A w \in Workers : LockReceiver(w) => Quiet
  BY <1>1 DEF LockReceiver, pollerVars, bookVars, Quiet, Busy
<1>5. \A w \in Workers : FetchReceipts(w) \/ ReadyLog(w) \/ CacheMiss(w) \/ TokensRead(w) => Quiet
  BY <1>1 DEF FetchReceipts, ReadyLog, CacheMiss, TokensRead, AtLog, pollerVars, bookVars, Quiet, Busy
<1>6. \A w \in Workers :
        SkipLog(w) \/ TokensFail(w) \/ Publish(w) \/ PublishFails(w) => Quiet
  BY <1>1 DEF SkipLog, TokensFail, Publish, PublishFails, NextLog, AtLog, pollerVars, bookVars,
         Quiet, Busy
<1>7. \A w \in Workers : DropBlock(w) \/ EndOfBlock(w) => SettleStep(w)
  BY DEF DropBlock, EndOfBlock, SettleStep, Busy
<1>. QED
  BY <1>2, <1>3, <1>4, <1>5, <1>6, <1>7 DEF Next, PollerStep, WorkerStep

LEMMA AheadStep == IndexerBase /\ [Next]_vars => PollerAhead'
<1>. SUFFICES ASSUME IndexerBase, [Next]_vars PROVE PollerAhead'
  OBVIOUS
<1>. USE DEF IndexerBase, PollerAhead
<1>1. /\ start \in Nat /\ sent \in Nat /\ target \in Nat /\ head \in Nat
      /\ poller \in {"down", "connect", "poll", "send"}
  BY IndexerConstants DEF TypeOK, Blocks
<1>2. ASSUME Quiet, UNCHANGED <<poller, target>>, head' = head \/ head' = head + 1
      PROVE  PollerAhead'
  BY <1>1, <1>2 DEF Quiet
<1>3. CASE MineBlock
  BY <1>1, <1>3 DEF MineBlock, pollerVars, workerVars, bookVars
<1>4. CASE ConnectFails \/ Reconnect
  BY <1>1, <1>4 DEF ConnectFails, Reconnect, workerVars, bookVars
<1>5. ASSUME NEW h \in Blocks, Poll(h)
      PROVE  PollerAhead'
  <2>1. h \in Nat
    BY IndexerConstants DEF Blocks
  <2>. QED
    BY <1>1, <1>5, <2>1 DEF Poll, workerVars, bookVars
<1>6. ASSUME NEW h \in Blocks, Connect(h)
      PROVE  PollerAhead'
  <2>1. h \in Nat
    BY IndexerConstants DEF Blocks
  <2>. QED
    BY <1>1, <1>6, <2>1 DEF Connect, workerVars, bookVars
<1>7. CASE Send
  BY <1>1, <1>7 DEF Send, workerVars, bookVars
<1>8. CASE Restart
  <2>1. \A w \in Workers : pc'[w] \notin Busy
    BY <1>8 DEF Restart, Busy
  <2>. QED
    BY <1>1, <1>8, <2>1 DEF Restart
<1>9. CASE ChangeWallets \/ RefreshLookup \/ UNCHANGED vars
  BY <1>1, <1>9 DEF ChangeWallets, RefreshLookup, vars, pollerVars, workerVars, bookVars
<1>10. ASSUME NEW w \in Workers, WorkerStep(w)
       PROVE  PollerAhead'
  <2>1. UNCHANGED <<head, pollerVars>>
    BY <1>10 DEF WorkerStep, LockReceiver, Receive, FetchReceipts, DropBlock, EndOfBlock, SkipLog,
         ReadyLog, CacheMiss, TokensRead, TokensFail, Publish, PublishFails
  <2>2. CASE poller \in {"connect", "down"}
    <3>1. queue = <<>> /\ settled = {} /\ pc[w] \notin Busy
      BY <2>2
    <3>2. LockReceiver(w)
      BY <1>10, <3>1 DEF WorkerStep, Receive, FetchReceipts, DropBlock, EndOfBlock, SkipLog,
           ReadyLog, AtLog, CacheMiss, TokensRead, TokensFail, Publish, PublishFails, Busy
    <3>3. \A v \in Workers : pc'[v] \notin Busy
      BY <2>2, <3>2 DEF LockReceiver, Busy, TypeOK
    <3>. QED
      BY <2>1, <3>1, <3>2, <3>3 DEF LockReceiver, pollerVars, bookVars
  <2>3. CASE poller \notin {"connect", "down"}
    BY <2>1, <2>3 DEF pollerVars
  <2>. QED
    BY <2>2, <2>3
<1>. QED
  BY <1>3, <1>4, <1>5, <1>6, <1>7, <1>8, <1>9, <1>10 DEF Next, PollerStep

LEMMA AccountedStep == IndexerBase /\ [Next]_vars => Accounted'
<1>. SUFFICES ASSUME IndexerBase, [Next]_vars PROVE Accounted'
  OBVIOUS
<1>. USE DEF IndexerBase
<1>1. /\ start \in Nat /\ sent \in Nat /\ queue \in Seq(Nat) /\ Len(queue) \in Nat
      /\ pc \in [Workers -> Labels] /\ block \in [Workers -> Nat]
  BY DEF TypeOK
<1>2. CASE Quiet
  <2>1. Held' = Held
    BY <1>2 DEF Quiet, Held
  <2>. QED
    BY <1>2, <2>1 DEF Quiet, Accounted, BlocksAccounted
<1>3. CASE Send
  <2>1. /\ queue' = Append(queue, sent + 1) /\ sent' = sent + 1
        /\ UNCHANGED <<start, settled, pc, block>>
    BY <1>3 DEF Send, workerVars, bookVars
  <2>2. Held' = Held
    BY <2>1 DEF Held
  <2>3. Len(queue') = Len(queue) + 1
    BY <1>1, <2>1
  <2>4. \A i \in 1..Len(queue') : queue'[i] = sent' - Len(queue') + i
    BY <1>1, <2>1, <2>3 DEF Accounted, BlocksAccounted
  <2>. QED
    BY <1>1, <2>1, <2>2, <2>3, <2>4 DEF Accounted, BlocksAccounted
<1>4. CASE Restart
  <2>1. /\ start' = 0 /\ sent' = 0 /\ queue' = <<>> /\ settled' = {}
        /\ \A w \in Workers : pc'[w] \notin Busy
    BY <1>4 DEF Restart, Busy
  <2>2. Held' = {}
    BY <2>1 DEF Held
  <2>. QED
    BY <2>1, <2>2 DEF Accounted, BlocksAccounted
<1>5. ASSUME NEW h \in Blocks, Connect(h)
      PROVE  Accounted'
  <2>1. h \in Nat
    BY IndexerConstants DEF Blocks
  <2>2. /\ start' = h /\ sent' = h /\ queue' = <<>> /\ settled' = {}
        /\ \A w \in Workers : pc'[w] \notin Busy
    BY <1>5 DEF Connect, PollerAhead, workerVars, bookVars
  <2>3. Held' = {}
    BY <2>2 DEF Held
  <2>. QED
    BY <2>1, <2>2, <2>3 DEF Accounted, BlocksAccounted
<1>6. ASSUME NEW w \in Workers, Receive(w)
      PROVE  Accounted'
  <2>1. /\ pc[w] = "recv" /\ queue # <<>>
        /\ block' = [block EXCEPT ![w] = Head(queue)] /\ queue' = Tail(queue)
        /\ pc' = [pc EXCEPT ![w] = "fetch"]
        /\ UNCHANGED <<start, sent, settled>>
    BY <1>6 DEF Receive, pollerVars, bookVars
  <2>2. /\ Len(queue) > 0 /\ Len(queue') = Len(queue) - 1
        /\ \A i \in 1..Len(queue') : queue'[i] = queue[i + 1]
    BY <1>1, <2>1
  <2>3. Head(queue) = sent - Len(queue) + 1
    BY <1>1, <2>1, <2>2 DEF Accounted, BlocksAccounted
  <2>. DEFINE new == sent - Len(queue) + 1
  <2>4. Held' = Held \cup {new}
    BY <1>1, <2>1, <2>3 DEF Held, Busy
  <2>5. settled \cup Held = (start + 1)..(new - 1) /\ new - 1 >= start
    BY <1>1, <2>2 DEF Accounted, BlocksAccounted
  <2>6. new \notin settled \cup Held /\ new \in Int
    BY <1>1, <2>5
  <2>7. settled' \cup Held' = (start' + 1)..(sent' - Len(queue'))
    BY <1>1, <2>1, <2>2, <2>4, <2>5
  <2>8. settled' \cap Held' = {}
    BY <2>1, <2>4, <2>6 DEF Accounted, BlocksAccounted
  <2>9. \A v \in Workers : pc[v] \in Busy => block[v] # new
    BY <2>6 DEF Held
  <2>10. \A u, v \in Workers :
           u # v /\ pc'[u] \in Busy /\ pc'[v] \in Busy => block'[u] # block'[v]
    BY <1>1, <2>1, <2>3, <2>9 DEF Accounted, BlocksAccounted
  <2>11. \A i \in 1..Len(queue') : queue'[i] = sent' - Len(queue') + i
    BY <1>1, <2>1, <2>2 DEF Accounted, BlocksAccounted
  <2>12. Len(queue') <= sent' - start'
    BY <1>1, <2>1, <2>2 DEF Accounted
  <2>. QED
    BY <2>7, <2>8, <2>10, <2>11, <2>12 DEF Accounted, BlocksAccounted
<1>7. ASSUME NEW w \in Workers, SettleStep(w)
      PROVE  Accounted'
  <2>1. /\ pc[w] \in Busy /\ settled' = settled \cup {block[w]}
        /\ pc' = [pc EXCEPT ![w] = "lock"] /\ block' = [block EXCEPT ![w] = 0]
        /\ UNCHANGED <<start, sent, queue>>
    BY <1>7 DEF SettleStep, Settle, pollerVars
  <2>2. \A v \in Workers \ {w} : pc'[v] = pc[v] /\ block'[v] = block[v]
    BY <1>1, <2>1
  <2>3. pc'[w] \notin Busy
    BY <1>1, <2>1 DEF Busy
  <2>4. \A v \in Workers \ {w} : pc[v] \in Busy => block[v] # block[w]
    BY <2>1 DEF Accounted, BlocksAccounted
  <2>5. Held' = Held \ {block[w]} /\ block[w] \in Held
    BY <2>1, <2>2, <2>3, <2>4 DEF Held
  <2>6. settled' \cup Held' = settled \cup Held /\ settled' \cap Held' = {}
    BY <2>1, <2>5 DEF Accounted, BlocksAccounted
  <2>7. \A u, v \in Workers :
          u # v /\ pc'[u] \in Busy /\ pc'[v] \in Busy => block'[u] # block'[v]
    BY <2>2, <2>3 DEF Accounted, BlocksAccounted
  <2>. QED
    BY <2>1, <2>6, <2>7 DEF Accounted, BlocksAccounted
<1>. QED
  BY <1>2, <1>3, <1>4, <1>5, <1>6, <1>7, BlockMoves

\* What the other workers do not notice.
SameWorker(v) ==
  /\ pc'[v] = pc[v] /\ block'[v] = block[v]
  /\ logs'[v] = logs[v] /\ parsed'[v] = parsed[v]

LEMMA OthersStay ==
  ASSUME IndexerBase, NEW w \in Workers, WorkerStep(w), NEW v \in Workers \ {w}
  PROVE  SameWorker(v)
<1>. USE DEF IndexerBase, TypeOK, SameWorker
<1>1. CASE LockReceiver(w) \/ Receive(w) \/ FetchReceipts(w)
  BY <1>1 DEF LockReceiver, Receive, FetchReceipts
<1>2. CASE Settle(w)
  BY <1>2 DEF Settle
<1>3. CASE ReadyLog(w) \/ CacheMiss(w) \/ TokensRead(w)
  BY <1>3 DEF ReadyLog, CacheMiss, TokensRead
<1>4. CASE NextLog(w, "logs") /\ block' = block
  BY <1>4 DEF NextLog
<1>. QED
  BY <1>1, <1>2, <1>3, <1>4
     DEF WorkerStep, DropBlock, EndOfBlock, SkipLog, TokensFail, Publish, PublishFails

LEMMA WorkerWriters ==
  [Next]_vars => UNCHANGED workerVars \/ Restart \/ \E w \in Workers : WorkerStep(w)
<1>1. MineBlock \/ ChangeWallets \/ RefreshLookup \/ ConnectFails \/ UNCHANGED vars
        => UNCHANGED workerVars
  BY DEF MineBlock, ChangeWallets, RefreshLookup, ConnectFails, vars, workerVars
<1>2. PollerStep => UNCHANGED workerVars
  BY DEF PollerStep, Connect, Reconnect, Poll, Send, workerVars
<1>. QED
  BY <1>1, <1>2 DEF Next

LEMMA SameWorks ==
  ASSUME NEW v \in Workers, Works(v), SameWorker(v)
  PROVE  Works(v)'
<1>1. Current(v)' = Current(v)
  BY DEF SameWorker, Current
<1>. QED
  BY <1>1 DEF Works, SameWorker, LogAt

\* Every step of a worker leaves it at a log of its block, or without one.
LEMMA OwnWork ==
  ASSUME IndexerBase, NEW w \in Workers, WorkerStep(w)
  PROVE  Works(w)'
<1>. USE DEF IndexerBase, TypeOK
<1>1. CASE LockReceiver(w) \/ Receive(w)
  BY <1>1 DEF LockReceiver, Receive, Works
<1>2. CASE Settle(w)
  BY <1>2 DEF Settle, Works
<1>3. CASE FetchReceipts(w)
  BY <1>3 DEF FetchReceipts, Works
<1>4. CASE NextLog(w, "logs") /\ block' = block /\ pc[w] \in {"logs", "query", "publish"}
  BY <1>4 DEF NextLog, Works
<1>5. CASE ReadyLog(w)
  <2>1. /\ pc'[w] = "publish" /\ logs' = logs /\ block' = block /\ parsed'[w] = Current(w)
        /\ logs[w] # {} /\ logs[w] \subseteq DOMAIN Content[block[w]]
    BY <1>5 DEF ReadyLog, AtLog, Works
  <2>2. Parses(LogAt(Current(w))) \/ LogAt(Current(w)).topic = "transfer"
    BY <1>5 DEF ReadyLog, IsDeposit
  <2>3. Current(w)' = Current(w)
    BY <2>1 DEF Current
  <2>. QED
    BY <2>1, <2>2, <2>3 DEF Works, LogAt
<1>6. CASE CacheMiss(w)
  <2>1. /\ pc'[w] = "query" /\ logs' = logs /\ block' = block
        /\ logs[w] # {} /\ logs[w] \subseteq DOMAIN Content[block[w]]
        /\ Parses(LogAt(Current(w)))
    BY <1>6 DEF CacheMiss, AtLog, Works
  <2>2. Current(w)' = Current(w)
    BY <2>1 DEF Current
  <2>. QED
    BY <2>1, <2>2 DEF Works, LogAt
<1>7. CASE TokensRead(w)
  <2>1. /\ pc'[w] = "publish" /\ logs' = logs /\ block' = block /\ parsed'[w] = Current(w)
        /\ logs[w] # {} /\ logs[w] \subseteq DOMAIN Content[block[w]]
        /\ Parses(LogAt(Current(w)))
    BY <1>7 DEF TokensRead, Works
  <2>2. Current(w)' = Current(w)
    BY <2>1 DEF Current
  <2>. QED
    BY <2>1, <2>2 DEF Works, LogAt
<1>. QED
  BY <1>1, <1>2, <1>3, <1>4, <1>5, <1>6, <1>7
     DEF WorkerStep, DropBlock, EndOfBlock, SkipLog, AtLog, TokensFail, Publish, PublishFails

LEMMA WorksStep == IndexerBase /\ [Next]_vars => \A v \in Workers : Works(v)'
<1>. SUFFICES ASSUME IndexerBase, [Next]_vars, NEW v \in Workers PROVE Works(v)'
  OBVIOUS
<1>1. CASE UNCHANGED workerVars
  <2>1. SameWorker(v)
    BY <1>1 DEF workerVars, SameWorker
  <2>. QED
    BY <2>1, SameWorks DEF IndexerBase
<1>2. CASE Restart
  BY <1>2 DEF Restart, Works
<1>3. ASSUME NEW w \in Workers, WorkerStep(w)
      PROVE  Works(v)'
  BY <1>3, OthersStay, OwnWork, SameWorks DEF IndexerBase
<1>. QED
  BY <1>1, <1>2, <1>3, WorkerWriters

LEMMA BaseStart == Init => IndexerBase
<1>. SUFFICES ASSUME Init PROVE IndexerBase
  OBVIOUS
<1>1. TypeOK
  <2>1. queue \in Seq(Nat) /\ Len(queue) <= QueueSize /\ head \in Blocks
    BY IndexerConstants DEF Init, Blocks
  <2>2. faults \in 0..MaxFaults
    BY IndexerConstants DEF Init
  <2>. QED
    BY <2>1, <2>2 DEF Init, TypeOK, Labels
<1>2. PollerAhead
  BY DEF Init, PollerAhead, Busy
<1>3. Accounted
  <2>1. Held = {}
    BY DEF Init, Held, Busy
  <2>. QED
    BY <2>1 DEF Init, Accounted, BlocksAccounted, Busy
<1>4. \A w \in Workers : Works(w)
  BY DEF Init, Works
<1>. QED
  BY <1>1, <1>2, <1>3, <1>4 DEF IndexerBase

\* Where the poller, the queue and the workers are, in every reachable state.
THEOREM IndexerInvariant == Spec => []IndexerBase
<1>1. IndexerBase /\ [Next]_vars => IndexerBase'
  BY TypeStep, AheadStep, AccountedStep, WorksStep DEF IndexerBase
<1>. QED
  BY <1>1, BaseStart, PTL DEF Spec

\* index_chain and its workers: every value stays in its type; in particular the
\* queue never exceeds its limit and no block number is invented.
THEOREM IndexerType == Spec => []TypeOK
BY IndexerInvariant, PTL DEF IndexerBase

\* index_chain, the channel and the workers' shared receiver: of the blocks since
\* the start none is skipped and none is handed out twice.
THEOREM EveryBlockAccounted == Spec => []BlocksAccounted
BY IndexerInvariant, PTL DEF IndexerBase, Accounted

-----------------------------------------------------------------------------
(* What is published.                                                      *)

\* A log that is still to be looked at has not been published.
Once ==
  \A id \in LogIds :
    /\ copies[id] <= 1
    /\ id[1] \notin settled \cup Held => copies[id] = 0
    /\ \A w \in Workers :
         pc[w] \in Busy /\ block[w] = id[1] /\ (pc[w] = "fetch" \/ id[2] \in logs[w])
           => copies[id] = 0

\* The stream has events of logs that there are, as EventOf reads them.
Recorded ==
  \A m \in stream :
    /\ m.id \in LogIds /\ m.event = EventOf(m.id)
    /\ Parses(LogAt(m.id)) \/ LogAt(m.id).topic = "transfer"

LEMMA PublishedLog ==
  ASSUME IndexerBase, NEW w \in Workers, Publish(w)
  PROVE  /\ parsed[w] \in LogIds /\ parsed[w][1] = block[w] /\ parsed[w][2] \in logs[w]
         /\ parsed[w] = <<block[w], parsed[w][2]>>
         /\ Parses(LogAt(parsed[w])) \/ LogAt(parsed[w]).topic = "transfer"
         /\ logs' = [logs EXCEPT ![w] = @ \ {parsed[w][2]}] /\ block' = block
         /\ pc[w] = "publish" /\ pc' = [pc EXCEPT ![w] = "logs"]
         /\ copies' = [copies EXCEPT ![parsed[w]] = @ + 1]
<1>1. parsed[w] = Current(w) /\ logs[w] # {} /\ pc[w] = "publish"
  BY DEF IndexerBase, Works, Publish
<1>. QED
  BY <1>1, LogInHand DEF Publish, NextLog, IndexerBase, Works

LEMMA CopyWriters ==
  [Next]_vars => copies' = copies \/ Restart \/ \E w \in Workers : Publish(w)
<1>1. MineBlock \/ ChangeWallets \/ RefreshLookup \/ ConnectFails \/ UNCHANGED vars
        => copies' = copies
  BY DEF MineBlock, ChangeWallets, RefreshLookup, ConnectFails, vars, bookVars
<1>2. PollerStep => copies' = copies
  BY DEF PollerStep, Connect, Reconnect, Poll, Send, bookVars
<1>3. \A w \in Workers : WorkerStep(w) => copies' = copies \/ Publish(w)
  BY DEF WorkerStep, LockReceiver, Receive, FetchReceipts, DropBlock, EndOfBlock, SkipLog,
         ReadyLog, CacheMiss, TokensRead, TokensFail, PublishFails, bookVars
<1>. QED
  BY <1>1, <1>2, <1>3 DEF Next

\* A busy worker has just received its block, or was busy with it before and has
\* no log again that it had left behind.
LEMMA BusyMoves ==
  ASSUME IndexerBase, [Next]_vars, NEW v \in Workers, pc'[v] \in Busy
  PROVE  \/ Receive(v)
         \/ /\ pc[v] \in Busy /\ block'[v] = block[v]
            /\ pc'[v] = "fetch" => pc[v] = "fetch"
            /\ pc[v] = "fetch" \/ logs'[v] \subseteq logs[v]
<1>. USE DEF IndexerBase, TypeOK
<1>1. CASE SameWorker(v)
  BY <1>1 DEF SameWorker
<1>2. CASE UNCHANGED workerVars
  BY <1>2 DEF workerVars
<1>3. CASE Restart
  BY <1>3 DEF Restart, Busy
<1>4. CASE WorkerStep(v)
  <2>1. CASE NextLog(v, "logs") /\ block' = block /\ pc[v] \in Busy
    BY <2>1 DEF NextLog
  <2>2. CASE LockReceiver(v) \/ Settle(v)
    BY <2>2 DEF LockReceiver, Settle, Busy
  <2>3. CASE FetchReceipts(v) \/ ReadyLog(v) \/ CacheMiss(v) \/ TokensRead(v)
    BY <2>3 DEF FetchReceipts, ReadyLog, AtLog, CacheMiss, TokensRead, Busy
  <2>. QED
    BY <1>4, <2>1, <2>2, <2>3
       DEF WorkerStep, DropBlock, EndOfBlock, SkipLog, AtLog, TokensFail, Publish, PublishFails, Busy
<1>. QED
  BY <1>1, <1>2, <1>3, <1>4, OthersStay, WorkerWriters

\* Blocks are not forgotten while the process runs.
LEMMA BlocksStay ==
  ASSUME IndexerBase, [Next]_vars, ~Restart
  PROVE  settled \cup Held \subseteq settled' \cup Held'
<1>. USE DEF IndexerBase, TypeOK
<1>1. CASE Quiet
  BY <1>1 DEF Quiet, Held
<1>2. CASE Send
  BY <1>2 DEF Send, workerVars, bookVars, Held
<1>3. ASSUME NEW h \in Blocks, Connect(h)
      PROVE  settled \cup Held \subseteq settled' \cup Held'
  BY <1>3 DEF Connect, workerVars, bookVars, Held
<1>4. ASSUME NEW w \in Workers, Receive(w)
      PROVE  settled \cup Held \subseteq settled' \cup Held'
  <2>1. pc[w] \notin Busy /\ settled' = settled
    BY <1>4 DEF Receive, bookVars, Busy
  <2>2. \A v \in Workers \ {w} : pc'[v] = pc[v] /\ block'[v] = block[v]
    BY <1>4 DEF Receive
  <2>3. Held \subseteq Held'
    BY <2>1, <2>2 DEF Held
  <2>. QED
    BY <2>1, <2>3
<1>5. ASSUME NEW w \in Workers, SettleStep(w)
      PROVE  settled \cup Held \subseteq settled' \cup Held'
  <2>1. settled' = settled \cup {block[w]}
    BY <1>5 DEF SettleStep, Settle
  <2>2. \A v \in Workers \ {w} : pc'[v] = pc[v] /\ block'[v] = block[v]
    BY <1>5 DEF SettleStep, Settle
  <2>3. Held \subseteq Held' \cup {block[w]}
    BY <2>2 DEF Held
  <2>. QED
    BY <2>1, <2>3
<1>. QED
  BY <1>1, <1>2, <1>3, <1>4, <1>5, BlockMoves

LEMMA OnceStep == IndexerBase /\ IndexerBase' /\ Once /\ [Next]_vars => Once'
<1>. SUFFICES ASSUME IndexerBase, IndexerBase', Once, [Next]_vars, NEW id \in LogIds
     PROVE  /\ copies'[id] <= 1
            /\ id[1] \notin settled' \cup Held' => copies'[id] = 0
            /\ \A w \in Workers :
                 pc'[w] \in Busy /\ block'[w] = id[1] /\ (pc'[w] = "fetch" \/ id[2] \in logs'[w])
                   => copies'[id] = 0
  BY DEF Once
<1>1. CASE Restart
  BY <1>1 DEF Restart
<1>2. CASE ~Restart /\ copies' = copies
  <2>1. ASSUME NEW w \in Workers,
               pc'[w] \in Busy, block'[w] = id[1], pc'[w] = "fetch" \/ id[2] \in logs'[w]
        PROVE  copies[id] = 0
    <3>1. CASE Receive(w)
      <4>1. /\ queue # <<>> /\ block'[w] = Head(queue)
        BY <3>1 DEF Receive, IndexerBase, TypeOK
      <4>2. /\ queue \in Seq(Nat) /\ sent \in Nat /\ Len(queue) \in Nat
            /\ Len(queue) > 0 /\ Head(queue) = queue[1]
        BY <4>1 DEF IndexerBase, TypeOK
      <4>3. block'[w] = sent - Len(queue) + 1
        BY <4>1, <4>2 DEF IndexerBase, Accounted, BlocksAccounted
      <4>4. settled \cup Held = (start + 1)..(sent - Len(queue)) /\ start \in Nat
        BY DEF IndexerBase, TypeOK, Accounted, BlocksAccounted
      <4>5. block'[w] \notin settled \cup Held
        BY <4>2, <4>3, <4>4
      <4>. QED
        BY <2>1, <4>5 DEF Once
    <3>2. CASE ~Receive(w)
      BY <2>1, <3>2, BusyMoves DEF Once
    <3>. QED
      BY <3>1, <3>2
  <2>. QED
    BY <1>2, <2>1, BlocksStay DEF Once
<1>3. ASSUME NEW w \in Workers, Publish(w), ~Restart
      PROVE  /\ copies'[id] <= 1
             /\ id[1] \notin settled' \cup Held' => copies'[id] = 0
             /\ \A v \in Workers :
                  pc'[v] \in Busy /\ block'[v] = id[1] /\ (pc'[v] = "fetch" \/ id[2] \in logs'[v])
                    => copies'[id] = 0
  <2>1. /\ parsed[w] \in LogIds /\ parsed[w][1] = block[w] /\ parsed[w][2] \in logs[w]
        /\ logs' = [logs EXCEPT ![w] = @ \ {parsed[w][2]}] /\ block' = block
        /\ pc[w] = "publish" /\ pc' = [pc EXCEPT ![w] = "logs"]
        /\ copies' = [copies EXCEPT ![parsed[w]] = @ + 1]
    BY <1>3, PublishedLog
  <2>2. copies[parsed[w]] = 0
    BY <2>1 DEF Once, Busy
  <2>3. CASE id = parsed[w]
    <3>1. copies'[id] = 1
      BY <2>1, <2>2, <2>3 DEF IndexerBase, TypeOK
    <3>2. id[1] \in Held
      BY <2>1, <2>3 DEF Held, Busy
    <3>3. \A v \in Workers \ {w} : pc'[v] \in Busy => block'[v] # id[1]
      BY <2>1, <2>3 DEF IndexerBase, TypeOK, Accounted, BlocksAccounted, Busy
    <3>4. pc'[w] # "fetch" /\ id[2] \notin logs'[w]
      BY <2>1, <2>3 DEF IndexerBase, TypeOK
    <3>. QED
      BY <1>3, <3>1, <3>2, <3>3, <3>4, BlocksStay
  <2>4. CASE id # parsed[w]
    <3>1. copies'[id] = copies[id]
      BY <2>1, <2>4 DEF IndexerBase, TypeOK
    <3>2. \A v \in Workers :
            pc'[v] \in Busy /\ (pc'[v] = "fetch" \/ id[2] \in logs'[v])
              => pc[v] \in Busy /\ (pc[v] = "fetch" \/ id[2] \in logs[v])
      BY <2>1 DEF IndexerBase, TypeOK, Busy
    <3>. QED
      BY <1>3, <2>1, <3>1, <3>2, BlocksStay DEF Once
  <2>. QED
    BY <2>3, <2>4
<1>. QED
  BY <1>1, <1>2, <1>3, CopyWriters

LEMMA RecordedStep == IndexerBase /\ Recorded /\ [Next]_vars => Recorded'
<1>. SUFFICES ASSUME IndexerBase, Recorded, [Next]_vars PROVE Recorded'
  OBVIOUS
<1>1. CASE stream' = stream
  BY <1>1 DEF Recorded, EventOf, LogAt
<1>2. ASSUME NEW w \in Workers, Publish(w)
      PROVE  Recorded'
  <2>1. stream' = stream \cup {[id |-> parsed[w], event |-> EventOf(parsed[w])]}
    BY <1>2 DEF Publish
  <2>2. \A m \in stream' :
          /\ m.id \in LogIds /\ m.event = EventOf(m.id)
          /\ Parses(LogAt(m.id)) \/ LogAt(m.id).topic = "transfer"
    BY <1>2, <2>1, PublishedLog DEF Recorded
  <2>. QED
    BY <2>2 DEF Recorded, EventOf, LogAt
<1>3. MineBlock \/ ChangeWallets \/ RefreshLookup \/ ConnectFails \/ Restart \/ UNCHANGED vars
        => stream' = stream
  BY DEF MineBlock, ChangeWallets, RefreshLookup, ConnectFails, Restart, vars, bookVars
<1>4. PollerStep => stream' = stream
  BY DEF PollerStep, Connect, Reconnect, Poll, Send, bookVars
<1>5. \A w \in Workers : WorkerStep(w) => stream' = stream \/ Publish(w)
  BY DEF WorkerStep, LockReceiver, Receive, FetchReceipts, DropBlock, EndOfBlock, SkipLog,
         ReadyLog, CacheMiss, TokensRead, TokensFail, PublishFails, bookVars
<1>. QED
  BY <1>1, <1>2, <1>3, <1>4, <1>5 DEF Next

\* Publish and process_block: every log is published once at most by one run.
THEOREM EveryLogOnce == Spec => []PublishedOnce
<1>1. Init => Once
  BY DEF Init, Once, Busy
<1>2. Spec => []Once
  BY <1>1, OnceStep, IndexerInvariant, PTL DEF Spec
<1>3. Once => PublishedOnce
  BY DEF Once, PublishedOnce
<1>. QED
  BY <1>2, <1>3, PTL

\* parse_swap_log and resolve_tokens_for_event: every event of a plain swap that
\* the stream ever has agrees with the log it was read from.
THEOREM EverySwapFaithful == Spec => []SwapsAreFaithful
<1>1. Init => Recorded
  BY DEF Init, Recorded
<1>2. Spec => []Recorded
  BY <1>1, RecordedStep, IndexerInvariant, PTL DEF Spec
<1>3. Recorded => SwapsAreFaithful
  <2>. SUFFICES ASSUME Recorded, NEW m \in stream, IsSwap(LogAt(m.id)), PlainSwap(LogAt(m.id))
       PROVE  Faithful(m.event, LogAt(m.id))
    BY DEF SwapsAreFaithful
  <2>1. m.id \in LogIds /\ m.event = EventOf(m.id) /\ LogAt(m.id).topic # "transfer"
    BY DEF Recorded, IsSwap
  <2>2. Parses(LogAt(m.id)) /\ m.event = ParseSwapLog(LogAt(m.id))
    BY <2>1 DEF Recorded, EventOf
  <2>. QED
    BY <2>1, <2>2, ParserFaithful, IndexerConstants DEF Parses
<1>. QED
  BY <1>2, <1>3, PTL

-----------------------------------------------------------------------------
(* What is not published.                                                  *)

\* Logs that have to become a message, as far as the caches are to blame.
Due(id) ==
  LET log == LogAt(id) IN
  \/ Parses(log) /\ log.address \in Pools \ refused
  \/ log.topic = "transfer" /\ log.complete /\ log.to \in loaded

\* The caches lack nothing but what the history variables say they lack.
CachesRight ==
  /\ loaded \subseteq lookup
  /\ \A a \in Addresses : cache[a] = "nopool" => a \notin Pools \/ a \in refused

\* The message is in the stream, or it was tried and not accepted.
Handled(id) == copies[id] = 1 \/ id \in unsent

\* The worker has the log behind it.
Behind(w, id) ==
  pc[w] \in {"logs", "query", "publish"} /\ block[w] = id[1] /\ id[2] \notin logs[w]

\* What a worker has left behind is handled, and so is what is in a block that
\* was gone through to the end.
Complete ==
  /\ CachesRight
  /\ \A id \in LogIds :
       Due(id) =>
         /\ id[1] \in settled \ dropped => Handled(id)
         /\ \A w \in Workers : Behind(w, id) => Handled(id)

\* The history variables of one run only tell more and more.
LEMMA LapsesGrow ==
  ASSUME [Next]_vars, ~Restart
  PROVE  /\ dropped \subseteq dropped' /\ refused \subseteq refused'
         /\ unsent \subseteq unsent' /\ loaded' \subseteq loaded
<1>. USE DEF bookVars, lapseVars
<1>1. MineBlock \/ ChangeWallets \/ RefreshLookup \/ ConnectFails \/ UNCHANGED vars
        => /\ UNCHANGED <<dropped, refused, unsent>> /\ loaded' \subseteq loaded
  BY DEF MineBlock, ChangeWallets, RefreshLookup, ConnectFails, vars
<1>2. PollerStep => UNCHANGED lapseVars
  BY DEF PollerStep, Connect, Reconnect, Poll, Send
<1>3. \A w \in Workers : WorkerStep(w) =>
        /\ dropped \subseteq dropped' /\ refused \subseteq refused'
        /\ unsent \subseteq unsent' /\ loaded' \subseteq loaded
  BY DEF WorkerStep, LockReceiver, Receive, FetchReceipts, DropBlock, EndOfBlock, SkipLog,
         ReadyLog, CacheMiss, TokensRead, TokensFail, Publish, PublishFails
<1>. QED
  BY <1>1, <1>2, <1>3 DEF Next

\* A log that a worker passes over was none to publish, or is none any more.
LEMMA DroppedLog ==
  ASSUME IndexerBase, CachesRight, NEW w \in Workers, SkipLog(w) \/ TokensFail(w)
  PROVE  \/ ~Due(Current(w))
         \/ Parses(LogAt(Current(w))) /\ LogAt(Current(w)).address \in refused'
<1>1. LogAt(Current(w)).address \in Addresses
  BY LogInHand DEF SkipLog, AtLog, TokensFail, IndexerBase, Works
<1>2. CASE SkipLog(w)
  <2>. DEFINE log == LogAt(Current(w))
  <2>1. CASE Parses(log)
    <3>1. log.address \notin Pools \ refused
      BY <1>1, <1>2, <2>1 DEF SkipLog, CachesRight
    <3>2. log.topic # "transfer"
      BY <2>1 DEF Parses, IsSwap
    <3>. QED
      BY <3>1, <3>2 DEF Due
  <2>2. CASE ~Parses(log)
    <3>1. ~IsDeposit(log)
      BY <1>2, <2>2 DEF SkipLog
    <3>. QED
      BY <2>2, <3>1 DEF Due, IsDeposit, CachesRight
  <2>. QED
    BY <2>1, <2>2
<1>3. CASE TokensFail(w)
  BY <1>3 DEF TokensFail, IndexerBase, Works
<1>. QED
  BY <1>2, <1>3

LEMMA CachesStep ==
  ASSUME IndexerBase, CachesRight, [Next]_vars, ~Restart
  PROVE  CachesRight'
<1>. USE DEF CachesRight
<1>1. CASE UNCHANGED <<lookup, cache>>
  BY <1>1, LapsesGrow
<1>2. CASE RefreshLookup
  BY <1>2 DEF RefreshLookup
<1>3. MineBlock \/ ChangeWallets \/ ConnectFails \/ UNCHANGED vars => UNCHANGED <<lookup, cache>>
  BY DEF MineBlock, ChangeWallets, ConnectFails, vars
<1>4. PollerStep => UNCHANGED <<lookup, cache>>
  BY DEF PollerStep, Connect, Reconnect, Poll, Send
<1>5. ASSUME NEW w \in Workers, TokensRead(w) \/ TokensFail(w)
      PROVE  CachesRight'
  <2>1. lookup' = lookup
    BY <1>5 DEF TokensRead, TokensFail
  <2>2. \A a \in Addresses :
          cache'[a] = "nopool" => cache[a] = "nopool" \/ a \in refused'
    BY <1>5 DEF TokensRead, TokensFail, IndexerBase, TypeOK
  <2>. QED
    BY <2>1, <2>2, LapsesGrow
<1>6. ASSUME NEW w \in Workers, WorkerStep(w)
      PROVE  UNCHANGED <<lookup, cache>> \/ TokensRead(w) \/ TokensFail(w)
  BY <1>6 DEF WorkerStep, LockReceiver, Receive, FetchReceipts, DropBlock, EndOfBlock, SkipLog,
         ReadyLog, CacheMiss, Publish, PublishFails
<1>. QED
  BY <1>1, <1>2, <1>3, <1>4, <1>5, <1>6 DEF Next

\* What a worker has behind it after a step, it had behind it before, or it has
\* just published the log or failed to, or the log is none to publish.
LEMMA BehindSteps ==
  ASSUME IndexerBase, CachesRight, [Next]_vars, NEW v \in Workers,
         NEW id \in LogIds, Due(id), Due(id)', Behind(v, id)'
  PROVE  \/ Behind(v, id)
         \/ (Publish(v) \/ PublishFails(v)) /\ id = parsed[v]
<1>. USE DEF IndexerBase, TypeOK, Behind
<1>1. CASE SameWorker(v)
  BY <1>1 DEF SameWorker
<1>2. CASE UNCHANGED workerVars
  BY <1>2 DEF workerVars
<1>3. CASE Restart
  BY <1>3 DEF Restart
<1>4. CASE WorkerStep(v)
  <2>1. CASE LockReceiver(v) \/ Receive(v) \/ Settle(v)
    BY <2>1 DEF LockReceiver, Receive, Settle
  <2>2. CASE FetchReceipts(v)
    <3>1. block[v] = id[1] /\ id[2] \notin DOMAIN Content[block[v]]
      BY <2>2 DEF FetchReceipts
    <3>. QED
      BY <3>1 DEF LogIds
  <2>3. CASE ReadyLog(v) \/ CacheMiss(v) \/ TokensRead(v)
    BY <2>3 DEF ReadyLog, AtLog, CacheMiss, TokensRead
  <2>4. CASE SkipLog(v) \/ TokensFail(v)
    <3>1. id # Current(v)
      <4>1. LogAt(id).address \in refused' /\ Parses(LogAt(id)) => ~Due(id)'
        BY DEF Due, LogAt, Parses, IsSwap
      <4>. QED
        BY <2>4, <4>1, DroppedLog
    <3>2. /\ Current(v) = <<block[v], Current(v)[2]>>
          /\ logs' = [logs EXCEPT ![v] = @ \ {Current(v)[2]}] /\ block' = block
          /\ pc[v] \in {"logs", "query", "publish"}
      BY <2>4, LogInHand DEF SkipLog, AtLog, TokensFail, NextLog, Works
    <3>3. id = <<id[1], id[2]>>
      BY DEF LogIds
    <3>4. id[2] # Current(v)[2]
      BY <3>1, <3>2, <3>3
    <3>. QED
      BY <3>2, <3>4
  <2>5. CASE Publish(v) \/ PublishFails(v)
    <3>1. id = <<id[1], id[2]>>
      BY DEF LogIds
    <3>2. /\ parsed[v] = <<block[v], parsed[v][2]>> /\ pc[v] = "publish"
          /\ logs' = [logs EXCEPT ![v] = @ \ {parsed[v][2]}] /\ block' = block
      <4>1. pc[v] = "publish" /\ parsed[v] = Current(v) /\ logs[v] # {}
        BY <2>5 DEF Publish, PublishFails, Works
      <4>. QED
        BY <2>5, <4>1, LogInHand DEF Publish, PublishFails, NextLog
    <3>3. /\ block[v] = id[1] /\ logs'[v] = logs[v] \ {parsed[v][2]}
      BY <3>2
    <3>4. CASE id[2] = parsed[v][2]
      <4>1. id = parsed[v]
        BY <3>1, <3>2, <3>3, <3>4
      <4>. QED
        BY <2>5, <4>1
    <3>5. CASE id[2] # parsed[v][2]
      BY <3>2, <3>3, <3>5
    <3>. QED
      BY <3>4, <3>5
  <2>. QED
    BY <1>4, <2>1, <2>2, <2>3, <2>4, <2>5 DEF WorkerStep, DropBlock, EndOfBlock
<1>. QED
  BY <1>1, <1>2, <1>3, <1>4, OthersStay, WorkerWriters

\* A block that is settled and not given up has no log left.
LEMMA SettledSteps ==
  ASSUME IndexerBase, [Next]_vars, ~Restart, NEW b \in settled' \ dropped'
  PROVE  \/ b \in settled \ dropped
         \/ \E w \in Workers : pc[w] = "logs" /\ block[w] = b /\ logs[w] = {}
<1>1. MineBlock \/ ChangeWallets \/ RefreshLookup \/ ConnectFails \/ UNCHANGED vars
        => settled' = settled
  BY DEF MineBlock, ChangeWallets, RefreshLookup, ConnectFails, vars, bookVars
<1>2. PollerStep => settled' = settled
  BY DEF PollerStep, Connect, Reconnect, Poll, Send, bookVars
<1>3. \A w \in Workers : WorkerStep(w) => settled' = settled \/ EndOfBlock(w) \/ DropBlock(w)
  BY DEF WorkerStep, LockReceiver, Receive, FetchReceipts, SkipLog,
         ReadyLog, CacheMiss, TokensRead, TokensFail, Publish, PublishFails, bookVars
<1>4. dropped \subseteq dropped'
  BY LapsesGrow
<1>5. CASE settled' = settled
  BY <1>4, <1>5
<1>6. ASSUME NEW w \in Workers, DropBlock(w)
      PROVE  b \in settled \ dropped
  BY <1>4, <1>6 DEF DropBlock, Settle
<1>7. ASSUME NEW w \in Workers, EndOfBlock(w)
      PROVE  b \in settled \ dropped \/ (pc[w] = "logs" /\ block[w] = b /\ logs[w] = {})
  BY <1>4, <1>7 DEF EndOfBlock, Settle
<1>. QED
  BY <1>1, <1>2, <1>3, <1>5, <1>6, <1>7 DEF Next

\* What is handled stays handled.
LEMMA HandledStays ==
  ASSUME IndexerBase, Once, [Next]_vars, ~Restart, NEW id \in LogIds, Handled(id)
  PROVE  Handled(id)'
<1>1. CASE id \in unsent
  BY <1>1, LapsesGrow DEF Handled
<1>2. CASE copies[id] = 1
  <2>1. ASSUME NEW w \in Workers, Publish(w)
        PROVE  copies'[id] = 1
    <3>1. copies[parsed[w]] = 0
      BY <2>1, PublishedLog DEF Once, Busy
    <3>. QED
      BY <1>2, <2>1, <3>1, PublishedLog DEF IndexerBase, TypeOK
  <2>. QED
    BY <1>2, <2>1, CopyWriters DEF Handled
<1>. QED
  BY <1>1, <1>2 DEF Handled

LEMMA CompleteStep == IndexerBase /\ Once /\ Complete /\ [Next]_vars => Complete'
<1>. SUFFICES ASSUME IndexerBase, Once, Complete, [Next]_vars PROVE Complete'
  OBVIOUS
<1>1. CASE Restart
  BY <1>1 DEF Restart, Complete, CachesRight, Behind
<1>2. CASE ~Restart
  <2>1. CachesRight /\ CachesRight'
    BY <1>2, CachesStep DEF Complete
  <2>2. \A id \in LogIds : Due(id)' => Due(id)
    BY <1>2, LapsesGrow DEF Due, LogAt
  <2>3. ASSUME NEW id \in LogIds, Due(id)', id[1] \in settled' \ dropped'
        PROVE  Handled(id)'
    <3>1. CASE id[1] \in settled \ dropped
      BY <1>2, <2>2, <2>3, <3>1, HandledStays DEF Complete
    <3>2. ASSUME NEW w \in Workers, pc[w] = "logs", block[w] = id[1], logs[w] = {}
          PROVE  Handled(id)'
      BY <1>2, <2>2, <2>3, <3>2, HandledStays DEF Complete, Behind
    <3>. QED
      BY <1>2, <2>3, <3>1, <3>2, SettledSteps
  <2>4. ASSUME NEW id \in LogIds, Due(id)', NEW w \in Workers, Behind(w, id)'
        PROVE  Handled(id)'
    <3>1. CASE Publish(w) /\ id = parsed[w]
      <4>1. copies[id] = 0
        BY <3>1, PublishedLog DEF Once, Busy
      <4>. QED
        BY <3>1, <4>1, PublishedLog DEF IndexerBase, TypeOK, Handled
    <3>2. CASE PublishFails(w) /\ id = parsed[w]
      BY <3>2 DEF PublishFails, Handled
    <3>3. CASE Behind(w, id)
      BY <1>2, <2>2, <2>4, <3>3, HandledStays DEF Complete
    <3>. QED
      BY <2>1, <2>2, <2>4, <3>1, <3>2, <3>3, BehindSteps
  <2>. QED
    BY <2>1, <2>3, <2>4 DEF Complete
<1>. QED
  BY <1>1, <1>2

\* process_block, the token cache and the wallet lookup: of every block that was
\* gone through to the end, whatever failed meanwhile in other blocks, in the
\* wallet lookup or for other contracts, each swap of a pool whose tokens could be
\* read and each deposit to an account of the lookup has been published, unless
\* its own message was not accepted.
THEOREM NoLogLost == Spec => []NothingLost
<1>1. Init => Once /\ Complete
  BY DEF Init, Once, Complete, CachesRight, Behind, Busy
<1>2. Spec => [](Once /\ Complete)
  BY <1>1, OnceStep, CompleteStep, IndexerInvariant, PTL DEF Spec
<1>3. Complete => NothingLost
  BY DEF Complete, NothingLost, Due, Handled
<1>. QED
  BY <1>2, <1>3, PTL

\* resolve_tokens_for_event: a mark in the cache is taken back only by a worker
\* whose question was asked before it.
THEOREM MarksRemembered == Spec => NoPoolIsRemembered
<1>1. IndexerBase /\ [Next]_vars =>
        [\A a \in Addresses :
           /\ cache[a] = "nopool"
           /\ \A w \in Workers : pc[w] = "query" => LogAt(Current(w)).address # a
           => cache'[a] = "nopool" \/ runs' # runs]_vars
  <2>. SUFFICES ASSUME IndexerBase, [Next]_vars, NEW a \in Addresses, cache[a] = "nopool",
                       \A w \in Workers : pc[w] = "query" => LogAt(Current(w)).address # a
       PROVE  cache'[a] = "nopool" \/ runs' # runs
    OBVIOUS
  <2>1. MineBlock \/ ChangeWallets \/ RefreshLookup \/ ConnectFails \/ UNCHANGED vars
          => cache' = cache
    BY DEF MineBlock, ChangeWallets, RefreshLookup, ConnectFails, vars
  <2>2. PollerStep => cache' = cache
    BY DEF PollerStep, Connect, Reconnect, Poll, Send
  <2>3. Restart => runs' # runs
    BY DEF Restart, IndexerBase, TypeOK
  <2>4. \A w \in Workers : WorkerStep(w) => cache'[a] = "nopool"
    BY DEF WorkerStep, LockReceiver, Receive, FetchReceipts, DropBlock, EndOfBlock, SkipLog,
           ReadyLog, CacheMiss, TokensRead, TokensFail, Publish, PublishFails, IndexerBase, TypeOK
  <2>. QED
    BY <2>1, <2>2, <2>3, <2>4 DEF Next
<1>. QED
  BY <1>1, IndexerInvariant, PTL DEF Spec, NoPoolIsRemembered
-----------------------------------------------------------------------------
(* How far a worker is with its block.                                     *)

\* What the worker has to do about the log it is at.
LogAhead(w) ==
  CASE pc[w] = "logs" -> 2 [] pc[w] = "query" -> 1 [] OTHER -> 0

\* The worker has the receipts, fewer logs, or is further with its log.
Nearer(w) ==
  \/ pc[w] = "fetch" /\ pc'[w] # "fetch"
  \/ /\ pc[w] # "fetch" /\ pc'[w] # "fetch"
     /\ \/ logs'[w] \subseteq logs[w] /\ logs'[w] # logs[w]
        \/ logs'[w] = logs[w] /\ LogAhead(w)' < LogAhead(w)

\* The worker is done with its block, and the block is settled.
Done(w) == pc'[w] = "lock" /\ block[w] \in settled'

\* Going on to the next log leaves fewer of them.
LEMMA NextLogNearer ==
  ASSUME IndexerBase, NEW w \in Workers, pc[w] \in {"logs", "query", "publish"},
         logs[w] # {}, NextLog(w, "logs"), block' = block
  PROVE  pc'[w] \in Busy /\ block'[w] = block[w] /\ Nearer(w)
<1>1. Current(w)[2] \in logs[w]
  BY LogInHand
<1>2. logs'[w] = logs[w] \ {Current(w)[2]} /\ pc'[w] = "logs"
  BY DEF NextLog, IndexerBase, TypeOK
<1>. QED
  BY <1>1, <1>2 DEF Nearer, Busy

\* Whatever a worker does about a block, and whatever fails, it is nearer to
\* the end of it or done.
LEMMA BlockNearer ==
  ASSUME IndexerBase, NEW w \in Workers, pc[w] \in Busy, WorkerStep(w)
  PROVE  Done(w) \/ (pc'[w] \in Busy /\ block'[w] = block[w] /\ Nearer(w))
<1>. USE DEF IndexerBase, TypeOK
<1>1. ~LockReceiver(w) /\ ~Receive(w)
  BY DEF LockReceiver, Receive, Busy
<1>2. CASE FetchReceipts(w)
  BY <1>2 DEF FetchReceipts, Nearer, Busy
<1>3. CASE DropBlock(w) \/ EndOfBlock(w)
  BY <1>3 DEF DropBlock, EndOfBlock, Settle, Done
<1>4. CASE SkipLog(w)
  BY <1>4, NextLogNearer DEF SkipLog, AtLog
<1>5. CASE TokensFail(w)
  BY <1>5, NextLogNearer DEF TokensFail, Works
<1>6. CASE Publish(w) \/ PublishFails(w)
  BY <1>6, NextLogNearer DEF Publish, PublishFails, Works
<1>7. CASE ReadyLog(w)
  BY <1>7 DEF ReadyLog, AtLog, Nearer, LogAhead, Busy
<1>8. CASE CacheMiss(w)
  BY <1>8 DEF CacheMiss, AtLog, Nearer, LogAhead, Busy
<1>9. CASE TokensRead(w)
  BY <1>9 DEF TokensRead, Nearer, LogAhead, Busy
<1>. QED
  BY <1>1, <1>2, <1>3, <1>4, <1>5, <1>6, <1>7, <1>8, <1>9 DEF WorkerStep

\* process_block: a worker keeps its block until the block is settled, asks for
\* the tokens of a log at most once and never goes back to a log, whatever
\* fails, whatever the other workers put into the cache, and however many
\* blocks wait: the part of BlocksSettle that needs no fairness.
THEOREM WorkersGoForward ==
  Spec => [][\A w \in Workers :
               pc[w] \in Busy /\ ~Restart =>
                 IF WorkerStep(w)
                 THEN Done(w) \/ (pc'[w] \in Busy /\ block'[w] = block[w] /\ Nearer(w))
                 ELSE SameWorker(w)]_vars
<1>1. ASSUME IndexerBase, [Next]_vars, NEW w \in Workers, pc[w] \in Busy, ~Restart
      PROVE  IF WorkerStep(w)
             THEN Done(w) \/ (pc'[w] \in Busy /\ block'[w] = block[w] /\ Nearer(w))
             ELSE SameWorker(w)
  <2>1. CASE WorkerStep(w)
    BY <1>1, <2>1, BlockNearer
  <2>2. CASE ~WorkerStep(w)
    <3>1. UNCHANGED workerVars => SameWorker(w)
      BY DEF workerVars, SameWorker
    <3>2. \A v \in Workers : WorkerStep(v) => SameWorker(w)
      BY <1>1, <2>2, OthersStay
    <3>. QED
      BY <1>1, <2>2, <3>1, <3>2, WorkerWriters
  <2>. QED
    BY <2>1, <2>2
<1>2. IndexerBase /\ [Next]_vars =>
        [\A w \in Workers :
           pc[w] \in Busy /\ ~Restart =>
             IF WorkerStep(w)
             THEN Done(w) \/ (pc'[w] \in Busy /\ block'[w] = block[w] /\ Nearer(w))
             ELSE SameWorker(w)]_vars
  BY <1>1
<1>. QED
  BY <1>2, IndexerInvariant, PTL DEF Spec
=============================================================================
