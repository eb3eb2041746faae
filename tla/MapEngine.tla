------------------------------ MODULE MapEngine ------------------------------
(***************************************************************************)
(* map_engine::OrderBook, the reference engine: two ordered maps of price  *)
(* levels, a FIFO list and a running volume in each level, and an index    *)
(* from order id to (level, list node).  Between two calls the caller      *)
(* sees; inside submit one Fill action is one round of the inner matching  *)
(* loop together with the removal of the level that round emptied, the     *)
(* only point where a trade becomes visible.  Trade ids, timestamps and    *)
(* Order::initial_quantity, which nothing reads, are left out.             *)
(***************************************************************************)
EXTENDS Common, Sequences, SequencesExt

CONSTANTS OrderIds, Prices, Quantities,
          None      \* the absence of a level, an index entry or a call

ASSUME PricesAssumption     == Prices \subseteq Nat /\ IsFiniteSet(Prices)
ASSUME QuantitiesAssumption == Quantities \subseteq Nat

VARIABLES
  levels,      \* levels[Bid] is bids_, levels[Ask] is asks_; None where no node
  order_map,   \* order_map_: [side, price] of the level holding the id, or None
  call,        \* the locals of the submit under way, None between calls
  executed,    \* executed_trades
  reply        \* what the last call answered

vars == <<levels, order_map, call, executed, reply>>

-----------------------------------------------------------------------------
(* The price level: include/ob/map_engine/pricelevel.h.                    *)

\* struct Order, an element of PriceLevel::orders_.
Orders == [order_id : OrderIds, remaining_quantity : Nat \ {0},
           price : Prices, side : Sides]

PriceLevels == [total_volume : Nat, orders : Seq(Orders)]

EmptyLevel == [total_volume |-> 0, orders |-> <<>>]

add_order(level, order) ==
  [total_volume |-> level.total_volume + order.remaining_quantity,
   orders       |-> Append(level.orders, order)]

\* remove_order, with the volume left as it was.
remove_orderKeepsVolume(level, i) == [level EXCEPT !.orders = RemoveAt(@, i)]

\* it is the list node at position i.
remove_order(level, i) ==
  [total_volume |-> level.total_volume - level.orders[i].remaining_quantity,
   orders       |-> RemoveAt(level.orders, i)]

FullyFills(front, available) == available >= front.remaining_quantity

\* TakeFromFront, sending the partly filled order to the end of the list.
TakeAndRequeue(orders, n) ==
  Append(Tail(orders), [Head(orders) EXCEPT !.remaining_quantity = @ - n])

TakeFromFront(orders, n) == [orders EXCEPT ![1].remaining_quantity = @ - n]

\* The result of fill_front, and the level it leaves.
fill_front(level, available) ==
  LET front  == Head(level.orders)
      fully  == FullyFills(front, available)
      filled == IF fully THEN front.remaining_quantity ELSE available
  IN [order_id |-> front.order_id, filled |-> filled, fully_filled |-> fully,
      level |-> [total_volume |-> level.total_volume - filled,
                 orders |-> IF fully THEN Tail(level.orders)
                            ELSE TakeFromFront(level.orders, filled)]]

-----------------------------------------------------------------------------
(* The ordered maps.                                                       *)

\* The iterator past the end.
End == -1

\* The keys of bids_ or asks_.
Keys(side) == {p \in Prices : levels[side][p] # None}

\* The first of a set of keys in the order of that side's map: begin().
First(side, keys) ==
  IF keys = {} THEN End ELSE CHOOSE p \in keys : \A q \in keys : ~Better(side, q, p)

\* ++it, and what erase(it) returns.
After(side, p) == First(side, {q \in Keys(side) : Better(side, p, q)})

\* The condition of the matching loops.  (No level is ever empty, see
\* NoEmptyLevel, so the inner loop is entered whenever the outer one is.)
Matches(c) ==
  /\ c.remaining > 0
  /\ c.it # End
  /\ IF c.side = Bid THEN c.it <= c.price ELSE c.it >= c.price

-----------------------------------------------------------------------------
Init ==
  /\ levels = [s \in Sides |-> [p \in Prices |-> None]]
  /\ order_map = [id \in OrderIds |-> None]
  /\ call = None
  /\ executed = <<>>
  /\ reply = "none"

\* submit throws before anything changes.
SubmitDuplicate(id) ==
  /\ call = None
  /\ order_map[id] # None
  /\ reply' = "DuplicateId"
  /\ executed' = <<>>
  /\ UNCHANGED <<levels, order_map, call>>

\* submit up to the matching loop.
Submit(id, side, price, qty) ==
  /\ call = None
  /\ order_map[id] = None
  /\ call' = [order_id |-> id, side |-> side, price |-> price, remaining |-> qty,
              it |-> First(Opposite(side), Keys(Opposite(side)))]
  /\ executed' = <<>>
  /\ reply' = "none"
  /\ UNCHANGED <<levels, order_map>>

\* Unindex, forgetting to erase.
UnindexNothing(id) == order_map

\* order_map_.erase(id).
Unindex(id) == [order_map EXCEPT ![id] = None]

\* remove_empty_price_level, with the two maps swapped.
remove_level_opposite(lv, side, price) == [lv EXCEPT ![Opposite(side)][price] = None]

\* The maps without the node of that price.
remove_empty_price_level(lv, side, price) == [lv EXCEPT ![side][price] = None]

\* One round of the inner loop of match_orders and, when that loop ends with it,
\* the end of the round of the outer loop.
Fill ==
  /\ call # None
  /\ Matches(call)
  /\ LET opp    == Opposite(call.side)
         result == fill_front(levels[opp][call.it], call.remaining)
         left   == call.remaining - result.filled
         empty  == result.level.orders = <<>>
     IN  /\ executed' = Append(executed,
              [aggressive_order_id |-> call.order_id, passive_order_id |-> result.order_id,
               price |-> call.it, quantity |-> result.filled])
         /\ order_map' = IF result.fully_filled
                           THEN Unindex(result.order_id) ELSE order_map
         /\ levels' = [levels EXCEPT ![opp][call.it] = IF empty THEN None ELSE result.level]
         /\ call' = [call EXCEPT !.remaining = left,
                       !.it = IF empty \/ left = 0 THEN After(opp, @) ELSE @]
  /\ UNCHANGED reply

\* What remains of the order rests, in a level created if need be.
RestRemainder ==
  LET at    == levels[call.side][call.price]
      order == [order_id |-> call.order_id, remaining_quantity |-> call.remaining,
                price |-> call.price, side |-> call.side]
  IN  /\ levels' = [levels EXCEPT ![call.side][call.price] =
                      add_order(IF at = None THEN EmptyLevel ELSE at, order)]
      /\ order_map' = [order_map EXCEPT ![call.order_id] =
                         [side |-> call.side, price |-> call.price]]

\* Finish, returning only when something came to rest.
FinishHangs ==
  /\ call # None
  /\ ~Matches(call)
  /\ IF call.remaining > 0
       THEN RestRemainder /\ call' = None
       ELSE UNCHANGED <<levels, order_map, call>>
  /\ reply' = "Success"
  /\ UNCHANGED executed

\* submit after match_orders.
Finish ==
  /\ call # None
  /\ ~Matches(call)
  /\ IF call.remaining > 0 THEN RestRemainder ELSE UNCHANGED <<levels, order_map>>
  /\ call' = None
  /\ reply' = "Success"
  /\ UNCHANGED executed

\* cancel_order of an id in the index; side and price are read from the order
\* before its node goes.
CancelOrder(id) ==
  /\ call = None
  /\ order_map[id] # None
  /\ LET loc == order_map[id]
         at  == levels[loc.side][loc.price]
     IN  \E i \in DOMAIN at.orders :
           LET order == at.orders[i]
               rest  == remove_order(at, i)
           IN  /\ order.order_id = id
               /\ LET left == [levels EXCEPT ![loc.side][loc.price] = rest]
                  IN  levels' = IF rest.orders = <<>>
                        THEN remove_empty_price_level(left, order.side, order.price)
                        ELSE left
  /\ order_map' = Unindex(id)
  /\ reply' = "Cancelled"
  /\ executed' = <<>>
  /\ UNCHANGED call

CancelMissing(id) ==
  /\ call = None
  /\ order_map[id] = None
  /\ reply' = "NotFound"
  /\ executed' = <<>>
  /\ UNCHANGED <<levels, order_map, call>>

Next ==
  \/ \E id \in OrderIds, side \in Sides, price \in Prices, qty \in Quantities :
       Submit(id, side, price, qty)
  \/ \E id \in OrderIds : SubmitDuplicate(id)
  \/ Fill
  \/ Finish
  \/ \E id \in OrderIds : CancelOrder(id)
  \/ \E id \in OrderIds : CancelMissing(id)

Spec == Init /\ [][Next]_vars

\* submit runs to its return: the loop body and the tail are code of one thread.
FairSpec == Spec /\ WF_vars(Fill \/ Finish)

-----------------------------------------------------------------------------
Calls == [order_id : OrderIds, side : Sides, price : Prices, remaining : Nat,
          it : Prices \cup {End}]

Locations == [side : Sides, price : Prices]

Trades == [aggressive_order_id : OrderIds, passive_order_id : OrderIds,
           price : Prices, quantity : Nat \ {0}]

\* TypeOK: the shape of the state; a resting order never has quantity 0.
TypeOK ==
  /\ levels \in [Sides -> [Prices -> PriceLevels \cup {None}]]
  /\ order_map \in [OrderIds -> Locations \cup {None}]
  /\ call \in Calls \cup {None}
  /\ executed \in Seq(Trades)
  /\ reply \in Replies

\* IndexMatchesLevels: order_map_ and the lists describe the same orders.  An
\* entry leads to a level that exists and holds the order (no dangling pointer
\* or iterator), and every listed order has its entry, so it can be cancelled
\* and its id refused; each order lies on the side and price it was given.
\* TypeOK is part of it.
IndexMatchesLevels ==
  /\ TypeOK
  /\ \A id \in OrderIds : order_map[id] # None =>
       LET at == levels[order_map[id].side][order_map[id].price]
       IN  at # None /\ \E i \in DOMAIN at.orders : at.orders[i].order_id = id
  /\ \A s \in Sides : \A p \in Keys(s) : \A i \in DOMAIN levels[s][p].orders :
       LET order == levels[s][p].orders[i]
       IN  /\ order.side = s /\ order.price = p
           /\ order_map[order.order_id] = [side |-> s, price |-> p]
           /\ \A j \in DOMAIN levels[s][p].orders :
                levels[s][p].orders[j].order_id = order.order_id => i = j

\* NoEmptyLevel: a level in the map holds an order, whichever of fills and
\* cancels took the last one; fill_front's assertion never fails, and best_bid
\* and best_ask never quote a price nobody trades at.
NoEmptyLevel ==
  \A s \in Sides : \A p \in Keys(s) : levels[s][p].orders # <<>>

\* What the orders of a list have left, together.
Volume(orders) ==
  LET sum[i \in 0 .. Len(orders)] ==
        IF i = 0 THEN 0 ELSE sum[i - 1] + orders[i].remaining_quantity
  IN sum[Len(orders)]

\* VolumeMatches: total_volume, which print_book shows, stays the sum of what
\* the level's orders have left through adds, fills and cancels.
VolumeMatches ==
  \A s \in Sides : \A p \in Keys(s) : levels[s][p].total_volume = Volume(levels[s][p].orders)

-----------------------------------------------------------------------------
(* The caller's view of the state, and the specification it obeys.         *)

BookOf(s, p) ==
  IF levels[s][p] = None THEN <<>>
  ELSE [i \in DOMAIN levels[s][p].orders |->
          [id  |-> levels[s][p].orders[i].order_id,
           qty |-> levels[s][p].orders[i].remaining_quantity]]

\* What ob::feed makes of a Trade (include/ob/map_engine/adapter.h).
ToTradeRec(t) == [maker_id |-> t.passive_order_id, taker_id |-> t.aggressive_order_id,
                  price |-> t.price, qty |-> t.quantity]

Book == INSTANCE LimitOrderBook WITH
  NoOrder <- None,
  book    <- [s \in Sides |-> [p \in Prices |-> BookOf(s, p)]],
  taker   <- IF call = None THEN None
             ELSE [id |-> call.order_id, side |-> call.side, price |-> call.price,
                   qty |-> call.remaining],
  trades  <- [i \in DOMAIN executed |-> ToTradeRec(executed[i])],
  reply   <- reply

ASSUME NoneAssumption ==
  None \notin PriceLevels /\ None \notin Locations /\ None \notin Calls /\ None \notin Book!Takers

\* ImplementsBook: every step of this engine is a step of the book it promises,
\* so it matches by price, then by time, at the maker's price.
ImplementsBook == Book!Spec

\* SubmitReturns: the two nested loops end.
SubmitReturns == call # None ~> call = None

=============================================================================
