--------------------------- MODULE LimitOrderBook ---------------------------
(***************************************************************************)
(* What an engine of this repository promises its caller: a book of        *)
(* resting orders that matches by price, then by time.  The containers of  *)
(* both engines are abstracted to one FIFO queue per side and price; a     *)
(* call of submit is a sequence of steps (accept, one Fill per trade,      *)
(* Finish), because each trade is an observable effect of the call.  The   *)
(* engines are single-threaded: no other call starts before one returns.   *)
(***************************************************************************)
EXTENDS Common, Sequences, SequencesExt

CONSTANTS
  OrderIds,     \* the ids callers use
  Prices,       \* the prices callers use
  Quantities,   \* the quantities callers use
  NoOrder       \* the absence of an order

ASSUME PricesAssumption     == Prices \subseteq Nat /\ IsFiniteSet(Prices)
ASSUME QuantitiesAssumption == Quantities \subseteq Nat

\* An order resting in a queue, and the order of the submit under way.
Makers == [id : OrderIds, qty : Nat \ {0}]
Takers == [id : OrderIds, side : Sides, price : Prices, qty : Nat]

ASSUME NoOrderAssumption == NoOrder \notin Takers

VARIABLES
  book,     \* book[side][price] is the queue of resting orders, oldest first
  taker,    \* the order being matched, NoOrder between calls
  trades,   \* the trades the last call made, in their order
  reply     \* what the last call answered

vars == <<book, taker, trades, reply>>

-----------------------------------------------------------------------------
\* The prices of a side at which an order rests.
Live(side) == {p \in Prices : book[side][p] # <<>>}

\* IsBest, ranked from the wrong end.
IsWorst(side, p) ==
  /\ p \in Live(side)
  /\ \A q \in Live(side) : ~Better(side, p, q)

IsBest(side, p) ==
  /\ p \in Live(side)
  /\ \A q \in Live(side) : ~Better(side, q, p)

\* IsLive, looking at one side of the book only.
IsLiveBid(id) ==
  \E p \in Prices : \E i \in DOMAIN book[Bid][p] : book[Bid][p][i].id = id

IsLive(id) ==
  \E s \in Sides, p \in Prices : \E i \in DOMAIN book[s][p] : book[s][p][i].id = id

\* Crosses, with the test of equality lost.
CrossesStrictly(side, limit, p) == IF side = Bid THEN p < limit ELSE p > limit

\* An order of that side and limit price may trade at price p.
Crosses(side, limit, p) == IF side = Bid THEN p <= limit ELSE p >= limit

\* The price the taker may trade at now.
MatchesAt(p) ==
  /\ taker.qty > 0
  /\ IsBest(Opposite(taker.side), p)
  /\ Crosses(taker.side, taker.price, p)

\* TradeQty, trading one lot at a time.
OneLot(maker) == 1

TradeQty(maker) == IF maker.qty <= taker.qty THEN maker.qty ELSE taker.qty

\* AfterFill, sending a partly filled order to the end of its queue.
AfterFillRequeues(queue, n) ==
  IF n = Head(queue).qty THEN Tail(queue)
  ELSE Append(Tail(queue), [Head(queue) EXCEPT !.qty = @ - n])

\* AfterFill, keeping an order that has nothing left.
AfterFillKeeps(queue, n) == [queue EXCEPT ![1].qty = @ - n]

\* The queue after the quantity n of its first order was traded.
AfterFill(queue, n) ==
  IF n = Head(queue).qty THEN Tail(queue) ELSE [queue EXCEPT ![1].qty = @ - n]

-----------------------------------------------------------------------------
Init ==
  /\ book = [s \in Sides |-> [p \in Prices |-> <<>>]]
  /\ taker = NoOrder
  /\ trades = <<>>
  /\ reply = "none"

Submit(id, side, price, qty) ==
  /\ taker = NoOrder
  /\ taker' = [id |-> id, side |-> side, price |-> price, qty |-> qty]
  /\ trades' = <<>>
  /\ reply' = "none"
  /\ ~IsLive(id)
  /\ UNCHANGED book

\* A submit that is refused answers why, trades nothing and leaves the book
\* alone.  A live id is refused as a duplicate; the other reasons are limits of
\* one engine and its adapter (capacity, price range, argument checks).
Reject(id, why) ==
  /\ taker = NoOrder
  /\ reply' = why
  /\ trades' = <<>>
  /\ why = "DuplicateId" => IsLive(id)
  /\ UNCHANGED <<book, taker>>

\* One trade: the taker against the oldest order at the best opposite price, at
\* that order's price.
Fill ==
  /\ taker # NoOrder
  /\ \E p \in Prices :
       LET side  == Opposite(taker.side)
           maker == Head(book[side][p])
           n     == TradeQty(maker)
       IN  /\ MatchesAt(p)
           /\ trades' = Append(trades, [maker_id |-> maker.id, taker_id |-> taker.id,
                                        price |-> p, qty |-> n])
           /\ book' = [book EXCEPT ![side][p] = AfterFill(@, n)]
           /\ taker' = [taker EXCEPT !.qty = @ - n]
  /\ UNCHANGED reply

\* The book once what remains of the taker rests at its price.
Rested ==
  IF taker.qty > 0
    THEN [book EXCEPT ![taker.side][taker.price] =
            Append(@, [id |-> taker.id, qty |-> taker.qty])]
    ELSE book

\* Nothing is left to match.
Finish ==
  /\ taker # NoOrder
  /\ taker' = NoOrder
  /\ reply' = "Success"
  /\ \A p \in Prices : ~MatchesAt(p)
  /\ book' = Rested
  /\ UNCHANGED trades

Cancel(id) ==
  /\ taker = NoOrder
  /\ reply' = "Cancelled"
  /\ \E s \in Sides, p \in Prices : \E i \in DOMAIN book[s][p] :
       /\ book[s][p][i].id = id
       /\ book' = [book EXCEPT ![s][p] = RemoveAt(@, i)]
  /\ trades' = <<>>
  /\ UNCHANGED taker

CancelMissing(id) ==
  /\ taker = NoOrder
  /\ reply' = "NotFound"
  /\ ~IsLive(id)
  /\ trades' = <<>>
  /\ UNCHANGED <<book, taker>>

Next ==
  \/ \E id \in OrderIds, side \in Sides, price \in Prices, qty \in Quantities :
       Submit(id, side, price, qty)
  \/ \E id \in OrderIds, why \in Rejections : Reject(id, why)
  \/ Fill
  \/ Finish
  \/ \E id \in OrderIds : Cancel(id)
  \/ \E id \in OrderIds : CancelMissing(id)

Spec == Init /\ [][Next]_vars

-----------------------------------------------------------------------------
\* TypeOK: the shape of the state; no queue ever holds an order of quantity 0
\* (a fully filled maker must leave, orderbook.cpp:58).
TypeOK ==
  /\ book \in [Sides -> [Prices -> Seq(Makers)]]
  /\ taker \in Takers \cup {NoOrder}
  /\ trades \in Seq(TradeRecs(OrderIds, Prices))
  /\ reply \in Replies

\* NotCrossed: every resting bid is below every resting ask.  The matching loop
\* must not stop while the book is crossed by the order it is about to rest.
NotCrossed == \A b \in Live(Bid), a \in Live(Ask) : b < a

OneOrderPerId ==
  \A s, t \in Sides, p, q \in Prices :
    \A i \in DOMAIN book[s][p], j \in DOMAIN book[t][q] :
      book[s][p][i].id = book[t][q][j].id => s = t /\ p = q /\ i = j

\* LiveOnce: an id names one resting order at most, and never the order being
\* matched as well, whatever the order of submits, fills and cancels.
LiveOnce == OneOrderPerId /\ (taker # NoOrder => ~IsLive(taker.id))

\* SweepsBestFirst: the trades of one submit go from the best opposite price
\* to the worst, none beyond the taker's limit, and no maker trades twice.
SweepsBestFirst ==
  taker # NoOrder =>
    \A i, j \in DOMAIN trades :
      /\ Crosses(taker.side, taker.price, trades[i].price)
      /\ i < j => /\ ~Better(Opposite(taker.side), trades[j].price, trades[i].price)
                  /\ trades[i].maker_id # trades[j].maker_id

\* PartialFillEndsSweep: within a submit only the last maker traded with can
\* still be resting, and then nothing is left of the taker.
PartialFillEndsSweep ==
  taker # NoOrder =>
    \A i \in DOMAIN trades :
      IsLive(trades[i].maker_id) => i = Len(trades) /\ taker.qty = 0

\* No order of the new queue passed another, or came in ahead of one that stays.
KeepsOrder(old, new) ==
  \A i, j \in DOMAIN new : i < j =>
    \A b \in DOMAIN old : old[b].id = new[j].id =>
      \E a \in DOMAIN old : old[a].id = new[i].id /\ a < b

\* KeepsTimePriority: no step lets an order pass another one of its queue, not
\* even one that was partly filled, and a new order never enters ahead of one
\* that was already there.
KeepsTimePriority ==
  [][\A s \in Sides, p \in Prices : KeepsOrder(book[s][p], book'[s][p])]_vars

=============================================================================
