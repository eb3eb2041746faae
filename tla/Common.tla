------------------------------- MODULE Common -------------------------------
(***************************************************************************)
(* The vocabulary both matching engines share (include/ob/common.h): the   *)
(* two sides of the book, how prices of one side rank, and what a call of  *)
(* an engine can answer.                                                   *)
(***************************************************************************)
EXTENDS Integers

Bid == "Bid"
Ask == "Ask"

\* enum class Side.
Sides == {Bid, Ask}

Opposite(side) == IF side = Bid THEN Ask ELSE Bid

\* A resting order at price p outranks one at price q of the same side: bids
\* are kept highest first, asks lowest first.
Better(side, p, q) == IF side = Bid THEN p > q ELSE p < q

\* enum class OrderStatus, without Success: the reasons a submit is refused.
Rejections ==
  {"DuplicateId", "PriceOutOfBounds", "EngineFull", "InvalidQuantity", "InvalidOrderId"}

\* What the last finished call answered: a status of submit, the boolean of
\* cancel_order ("Cancelled" for true, "NotFound" for false), or "none" before
\* the first call and while one runs.
Replies == Rejections \cup {"Success", "Cancelled", "NotFound", "none"}

\* struct TradeRec.
TradeRecs(ids, prices) ==
  [maker_id : ids, taker_id : ids, price : prices, qty : Nat \ {0}]

=============================================================================
