--------------------------- MODULE PriceProvider ----------------------------
(***************************************************************************)
(* The BTC price adapters (internal/exchange/provider.go).  A reply is     *)
(* what becomes of the GET request; a quote is what GetPrice makes of it.  *)
(***************************************************************************)
EXTENDS Integers

Providers == {"coinbase", "coingecko", "bitstamp", "cryptocom"}

ReplyKinds == {
  "unreachable",  \* no connection, or the 10 s of the client are over
  "status",       \* an answer other than 200
  "garbled",      \* not the JSON that is expected
  "empty",        \* the list or map the price is looked up in has no element
  "text",         \* the price is not a number
  "nan",          \* the price is the text NaN or Inf, which ParseFloat takes
  "number"}       \* the price is the number "value"

Reply == [kind : ReplyKinds, value : Int]

Failed == [kind |-> "error", price |-> 0]
Panicked == [kind |-> "panic", price |-> 0]
NotANumber == [kind |-> "nan", price |-> 0]
Quoted(price) == [kind |-> "price", price |-> price]

Quote == {Failed, Panicked, NotANumber} \cup {Quoted(p) : p \in Nat \ {0}}

\* fetchJSON returns no error.
FetchJSON(reply) == reply.kind \notin {"unreachable", "status", "garbled"}

\* The price is positive; NaN is not below or equal to zero.
Validated(reply) ==
  IF reply.kind = "nan" THEN NotANumber
  ELSE IF reply.kind = "number" /\ reply.value > 0 THEN Quoted(reply.value)
  ELSE Failed

\* Coinbase and Bitstamp have one object, whose absent price is the text "".
ParsedPrice(reply) == IF FetchJSON(reply) THEN Validated(reply) ELSE Failed

\* CoinGecko has a JSON number, which is never NaN.
LookedUpPrice(reply) == IF reply.kind = "nan" THEN Failed ELSE ParsedPrice(reply)

\* Crypto.com has a list, of which the first element is taken.
FirstPrice(reply) == IF reply.kind = "empty" THEN Panicked ELSE ParsedPrice(reply)

GetPrice(provider, reply) ==
  IF provider = "coingecko" THEN LookedUpPrice(reply)
  ELSE IF provider = "cryptocom" THEN FirstPrice(reply)
  ELSE ParsedPrice(reply)
=============================================================================
