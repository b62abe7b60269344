------------------------------ MODULE SwapParser ------------------------------
(***************************************************************************)
(* How the indexer reads a swap log (crates/indexer/src/parser.rs, and     *)
(* resolve_tokens_for_event in crates/indexer/src/main.rs).                *)
(*                                                                         *)
(* A log's data is a sequence of unsigned words below 2 * Half; the code's *)
(* are 256 bits wide, so Half is 2^255 there.  A V3 pool writes signed     *)
(* amounts in two's complement, positive for what it received.  A V2 pool  *)
(* writes what it received and what it paid out in separate words.         *)
(***************************************************************************)
EXTENDS Integers, Sequences

CONSTANTS
  Half        \* the weight of a word's sign bit

ASSUME ParserConstants == Half \in Nat \ {0}

Modulus == 2 * Half
Words == 0..(Modulus - 1)

\* U256::bit(255)
Negative(word) == word >= Half

\* (!word).wrapping_add(1)
Negate(word) == ((Modulus - 1 - word) + 1) % Modulus

\* parse_v2_swap: amount0In, amount1In, amount0Out, amount1Out.
ParseV2(words) ==
  LET zeroIn == words[1] # 0 IN
  [zeroIn    |-> zeroIn,
   amountIn  |-> IF zeroIn THEN words[1] ELSE words[2],
   amountOut |-> IF zeroIn THEN words[4] ELSE words[3]]

\* Variant of ParseV3: the sign bit is taken for part of the amount.
ParseV3Unsigned(words) ==
  LET zeroIn == words[1] # 0 IN
  [zeroIn    |-> zeroIn,
   amountIn  |-> IF zeroIn THEN words[1] ELSE words[2],
   amountOut |-> IF zeroIn THEN Negate(words[2]) ELSE Negate(words[1])]

\* parse_v3_swap: amount0, amount1.  When token 0 is the input the second
\* amount is negated only if it is negative; otherwise the first one always is.
ParseV3(words) ==
  LET zeroIn == ~Negative(words[1]) IN
  [zeroIn    |-> zeroIn,
   amountIn  |-> IF zeroIn THEN words[1] ELSE words[2],
   amountOut |-> IF ~zeroIn THEN Negate(words[1])
                 ELSE IF Negative(words[2]) THEN Negate(words[2])
                 ELSE words[2]]

IsSwap(log) == log.topic \in {"v2", "v3"}

\* parse_swap_log returns None for another topic and for missing topics or
\* data.
Parses(log) == IsSwap(log) /\ log.complete

\* What a complete log has in its data.
WordsOK(log) ==
  Parses(log) => log.words \in [1..(IF log.topic = "v2" THEN 4 ELSE 2) -> Words]

ParseSwapLog(log) ==
  IF log.topic = "v2" THEN ParseV2(log.words) ELSE ParseV3(log.words)

-----------------------------------------------------------------------------
(* What the log says, independently of the parser.                         *)

Signed(word) == IF word < Half THEN word ELSE word - Modulus

\* What the pool's holding of token 0 and of token 1 changed by.
Delta0(log) == IF log.topic = "v2" THEN log.words[1] - log.words[3]
                                   ELSE Signed(log.words[1])
Delta1(log) == IF log.topic = "v2" THEN log.words[2] - log.words[4]
                                   ELSE Signed(log.words[2])

\* A plain swap: the pool received one token, paid the other, and (V2) the log
\* has no flash amounts, which come in and go out of the same token.
PlainSwap(log) ==
  /\ log.topic = "v2" => /\ log.words[1] = 0 \/ log.words[3] = 0
                         /\ log.words[2] = 0 \/ log.words[4] = 0
  /\ \/ Delta0(log) > 0 /\ Delta1(log) <= 0
     \/ Delta0(log) < 0 /\ Delta1(log) >= 0

\* The event agrees with the log on the direction and on both amounts.
Faithful(event, log) ==
  IF Delta0(log) > 0
    THEN /\ event.zeroIn
         /\ event.amountIn = Delta0(log)
         /\ event.amountOut = -Delta1(log)
    ELSE /\ ~event.zeroIn
         /\ event.amountIn = Delta1(log)
         /\ event.amountOut = -Delta0(log)
=============================================================================
