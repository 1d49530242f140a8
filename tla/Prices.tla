------------------------------- MODULE Prices -------------------------------
(***************************************************************************)
(* What a call costs (crates/core/src/pricing.rs), what it is expected to  *)
(* cost (crates/gateway/src/estimate.rs) and the price book the gateway    *)
(* ships (pricebook.rs).  Money is in microdollars.  A rate is in          *)
(* thousandths of a dollar per million tokens, so that a call's cost is    *)
(* tokens * rate / 1000: the code's division by a million, scaled to       *)
(* TLC's integers.                                                         *)
(***************************************************************************)
EXTENDS Integers, FiniteSets, TLC

ModelPrice(input, output, cacheRead, cacheWrite) ==
  [input |-> input, output |-> output, cacheRead |-> cacheRead, cacheWrite |-> cacheWrite]

Usage(input, output, cacheRead, cacheWrite) ==
  [input |-> input, output |-> output, cacheRead |-> cacheRead, cacheWrite |-> cacheWrite]

(* default_price_book *)
DefaultBook ==
  "claude-sonnet" :> ModelPrice(3000, 15000, 300, 3750) @@ "claude-haiku" :> ModelPrice(800, 4000, 80, 1000)
  @@ "gpt" :> ModelPrice(2500, 10000, 250, 3125)
  @@ "claude-haiku-4-5" :> ModelPrice(1000, 5000, 100, 1250)
  @@ "claude-haiku-4-5-20251001" :> ModelPrice(1000, 5000, 100, 1250)
  @@ "claude-sonnet-4-5" :> ModelPrice(3000, 15000, 300, 3750)
  @@ "claude-sonnet-4-5-20250929" :> ModelPrice(3000, 15000, 300, 3750)
  @@ "claude-opus-4-5" :> ModelPrice(5000, 25000, 500, 6250)
  @@ "claude-opus-4-5-20251101" :> ModelPrice(5000, 25000, 500, 6250)
  @@ "gpt-4o" :> ModelPrice(2500, 10000, 1250, 2500) @@ "gpt-4o-mini" :> ModelPrice(150, 600, 75, 150)
  @@ "o1" :> ModelPrice(15000, 60000, 7500, 15000)

(* with_fallback *)
DefaultFallback == ModelPrice(15000, 75000, 1500, 18750)

(* PriceBook::price: exact, else the fallback.                             *)
PriceOf(model) == IF model \in DOMAIN DefaultBook THEN DefaultBook[model] ELSE DefaultFallback

(* ModelPrice::cost: each part is rounded down.                            *)
Cost(price, u) ==
  (u.input * price.input) \div 1000 + (u.output * price.output) \div 1000
  + (u.cacheRead * price.cacheRead) \div 1000 + (u.cacheWrite * price.cacheWrite) \div 1000

DefaultMaxTokens == 1024

(* estimate_cost: four bytes a token, 1.15 times, rounded up; maxTokens is *)
(* a set of at most one number.  (The code's product is a float and may    *)
(* round to one microdollar more.)                                         *)
EstimateCost(model, bodyLen, maxTokens) ==
  LET output == IF maxTokens = {} THEN DefaultMaxTokens ELSE CHOOSE n \in maxTokens : TRUE
      raw == Cost(PriceOf(model), Usage(bodyLen \div 4, output, 0, 0))
  IN (raw * 115 + 99) \div 100
=============================================================================
