--------------------------- MODULE DequePrototype ---------------------------
(***************************************************************************)
(* The archived prototype of the ladder engine: one std::deque of orders   *)
(* per side and price slot, and a two-level bitmap per side to find the    *)
(* best slot.  Unlike its successors it does not initialise the words of   *)
(* the lower level, checks neither ids nor quantities, and leaves a price  *)
(* off the ladder to an exception of the function that converts it.        *)
(* TICK_SIZE is 1: a price is MinPrice plus its slot.                      *)
(***************************************************************************)
EXTENDS Common, LevelBitmap, SequencesExt

CONSTANTS
  OrderIds, Quantities,
  Prices,        \* the prices callers use, on the ladder or off it
  MinPrice,      \* MIN_PRICE
  InitialWords,  \* what the words of l2_bids and l2_asks may hold at first
  MaxResting,    \* bound: orders a caller keeps in the ladder at once
  NoOrder        \* no submit is running

ASSUME InitialWordsAssumption == InitialWords \subseteq [Sides -> Words(L3Size)]

VARIABLES
  l1,         \* l1_bids and l1_asks
  l2,         \* l2_bids and l2_asks
  levels,     \* bid_levels and ask_levels: the deque of each slot
  total_qty,  \* PriceLevel::total_qty of each slot
  taker,      \* incoming, while submit runs
  trades,     \* executed
  reply       \* how the last call ended

ladder == <<l1, l2, levels, total_qty>>
vars   == <<l1, l2, levels, total_qty, taker, trades, reply>>

-----------------------------------------------------------------------------
price_to_index(price) == price - MinPrice
index_to_price(slot)  == MinPrice + slot
OnLadder(price)       == price_to_index(price) \in SlotIndices

l2_set(side, slot) ==
  /\ l2' = [l2 EXCEPT ![side] = SetBit(@, slot)]
  /\ l1' = [l1 EXCEPT ![side] = @ \cup {WordOf(slot)}]

\* l2_clear, without the test that the word became zero.
l2_clear_always(side, slot) ==
  /\ l2' = [l2 EXCEPT ![side] = ClearBit(@, slot)]
  /\ l1' = [l1 EXCEPT ![side] = @ \ {WordOf(slot)}]

l2_clear(side, slot) ==
  /\ l2' = [l2 EXCEPT ![side] = ClearBit(@, slot)]
  /\ l1' = [l1 EXCEPT ![side] = IF l2'[side][WordOf(slot)] = {} THEN @ \ {WordOf(slot)} ELSE @]

find_best_low(words, word)  == Min(word) * WordBits + LowestBit(words[Min(word)])
find_best_high(words, word) == Max(word) * WordBits + HighestBit(words[Max(word)])

\* best, from the wrong end of the ladder.
worst(side) ==
  IF l1[side] = {} THEN NoSlot
  ELSE IF side = Ask THEN find_best_high(l2[side], l1[side])
  ELSE find_best_low(l2[side], l1[side])

\* The slot best_bid or best_ask looks up.  Past the last slot index_to_price
\* throws, and they answer nothing.
best(side) ==
  IF l1[side] = {} THEN NoSlot
  ELSE IF side = Bid THEN find_best_high(l2[side], l1[side])
  ELSE find_best_low(l2[side], l1[side])

\* PriceLevel::enqueue.
Enqueue(order, side, slot) ==
  /\ levels' = [levels EXCEPT ![side][slot] = Append(@, order)]
  /\ total_qty' = [total_qty EXCEPT ![side][slot] = @ + order.qty]

\* add_order, of a price on the ladder.
Place(order, side, slot) ==
  /\ l2_set(side, slot)
  /\ Enqueue(order, side, slot)

\* PriceLevel::dequeue, ::cancel or a partial fill leaves this queue and total.
Replace(side, slot, queue, total) ==
  /\ levels' = [levels EXCEPT ![side][slot] = queue]
  /\ total_qty' = [total_qty EXCEPT ![side][slot] = total]

\* Its callers clear the bit of a level that is empty now.
ClearIfEmpty(side, slot) ==
  IF levels'[side][slot] = <<>> THEN l2_clear(side, slot) ELSE UNCHANGED <<l1, l2>>

RestingOn(side) == {<<slot, i>> \in SlotIndices \X (1 .. MaxResting) :
                      i \in DOMAIN levels[side][slot]}
HasRoom == Cardinality(RestingOn(Bid)) + Cardinality(RestingOn(Ask)) < MaxResting

IsResting(id) == \E s \in Sides : \E e \in RestingOn(s) : levels[s][e[1]][e[2]].id = id

-----------------------------------------------------------------------------
Init ==
  /\ l1 = [s \in Sides |-> {}]
  /\ l2 \in InitialWords
  /\ levels = [s \in Sides |-> [slot \in SlotIndices |-> <<>>]]
  /\ total_qty = [s \in Sides |-> [slot \in SlotIndices |-> 0]]
  /\ taker = NoOrder
  /\ trades = <<>>
  /\ reply = "none"

\* A call returns or throws, and what it was given is gone.
Ends(how) == taker' = NoOrder /\ reply' = how

Idle == taker = NoOrder /\ reply # "undefined"

\* add_order as callers use it: the order rests, even where it crosses.
AddOrder(id, side, price, qty) ==
  /\ Idle /\ HasRoom
  /\ IF OnLadder(price)
       THEN Place([id |-> id, qty |-> qty], side, price_to_index(price)) /\ Ends("Added")
       ELSE Ends("OutOfRange") /\ UNCHANGED ladder
  /\ trades' = <<>>

\* cancel_order looks only where the caller says the order is, takes the first
\* of that id, and drops what PriceLevel::cancel answers, kept here as reply.
\* An empty level's bit is cleared, an order found or not.
CancelOrder(id, side, price) ==
  /\ Idle
  /\ IF ~OnLadder(price) THEN Ends("OutOfRange") /\ UNCHANGED ladder
     ELSE LET slot  == price_to_index(price)
              queue == levels[side][slot]
              i     == SelectInSeq(queue, LAMBDA order : order.id = id)
          IN  /\ \/ /\ i = 0
                    /\ UNCHANGED <<levels, total_qty>>
                    /\ Ends("NotFound")
                 \/ /\ i # 0
                    /\ Replace(side, slot, RemoveAt(queue, i),
                               total_qty[side][slot] - queue[i].qty)
                    /\ Ends("Cancelled")
              /\ ClearIfEmpty(side, slot)
  /\ trades' = <<>>

Submit(id, side, price, qty) ==
  /\ Idle /\ HasRoom
  /\ taker' = [id |-> id, side |-> side, price |-> price, qty |-> qty]
  /\ trades' = <<>>
  /\ reply' = "none"
  /\ UNCHANGED ladder

Running == taker # NoOrder /\ reply # "undefined"

\* Keeps, stopping short of the limit.
KeepsStrictly(slot) ==
  IF taker.side = Bid THEN taker.price > index_to_price(slot)
                      ELSE taker.price < index_to_price(slot)

\* The taker's price does not end the loop at the best slot.
Keeps(slot) ==
  IF taker.side = Bid THEN taker.price >= index_to_price(slot)
                      ELSE taker.price <= index_to_price(slot)

\* The loop's conditions up to the level it trades with.
Matches(slot) ==
  /\ Running /\ taker.qty > 0
  /\ slot = best(Opposite(taker.side)) /\ slot \in SlotIndices
  /\ Keeps(slot)

TotalAfter(total, maker, n) == total - n

\* One round of the matching loop.
Fill ==
  \E slot \in SlotIndices :
    LET side  == Opposite(taker.side)
        queue == levels[side][slot]
        maker == Head(queue)
        n     == Min({maker.qty, taker.qty})
    IN  /\ Matches(slot) /\ queue # <<>>
        /\ trades' = Append(trades, [maker_id |-> maker.id, taker_id |-> taker.id,
                                     price |-> index_to_price(slot), qty |-> n])
        /\ Replace(side, slot,
                   IF n = maker.qty THEN Tail(queue) ELSE [queue EXCEPT ![1].qty = @ - n],
                   TotalAfter(total_qty[side][slot], maker, n))
        /\ ClearIfEmpty(side, slot)
        /\ taker' = [taker EXCEPT !.qty = @ - n]
        /\ UNCHANGED reply

\* The bit of a level that holds nothing leads to front() of an empty deque,
\* after which the program may do anything; the model stops.
FrontOfEmpty ==
  /\ \E slot \in SlotIndices : Matches(slot) /\ levels[Opposite(taker.side)][slot] = <<>>
  /\ reply' = "undefined"
  /\ UNCHANGED <<ladder, taker, trades>>

\* The bit of a slot past the last makes index_to_price throw; the trades made
\* so far are lost to the caller.
QuoteThrows ==
  /\ Running /\ taker.qty > 0
  /\ best(Opposite(taker.side)) >= NumSlots
  /\ Ends("OutOfRange")
  /\ UNCHANGED <<ladder, trades>>

\* The loop has ended: the remainder rests, unless its price is off the ladder,
\* when add_order throws and the trades made are lost to the caller.
Finish ==
  /\ Running
  /\ \/ taker.qty <= 0
     \/ best(Opposite(taker.side)) < NumSlots /\ \A slot \in SlotIndices : ~Matches(slot)
  /\ IF taker.qty <= 0 THEN Ends("Success") /\ UNCHANGED ladder
     ELSE IF ~OnLadder(taker.price) THEN Ends("OutOfRange") /\ UNCHANGED ladder
     ELSE /\ Place([id |-> taker.id, qty |-> taker.qty], taker.side,
                   price_to_index(taker.price))
          /\ Ends("Success")
  /\ UNCHANGED trades

Step == Fill \/ FrontOfEmpty \/ QuoteThrows \/ Finish

Next ==
  \/ \E id \in OrderIds, side \in Sides, price \in Prices :
       \/ \E qty \in Quantities : AddOrder(id, side, price, qty) \/ Submit(id, side, price, qty)
       \/ CancelOrder(id, side, price)
  \/ Step

Spec == Init /\ [][Next]_vars

-----------------------------------------------------------------------------
Occupied(side) == {slot \in SlotIndices : levels[side][slot] # <<>>}
Marked(side)   == {slot \in 0 .. L3Size * WordBits - 1 : BitOf(slot) \in l2[side][WordOf(slot)]}

\* TypeOK: no bit is set outside the words the ladder has.
TypeOK ==
  /\ l1 \in [Sides -> SUBSET (0 .. L3Size - 1)]
  /\ l2 \in [Sides -> Words(L3Size)]
  /\ levels \in [Sides -> [SlotIndices -> Seq([id : OrderIds, qty : Int])]]
  /\ total_qty \in [Sides -> [SlotIndices -> Int]]

\* OrdersAreMarked: whatever the words held at first, a level with an order has
\* its bits in both levels; wrong words add slots and never hide one.
\* TypeOK is part of it.
OrdersAreMarked ==
  /\ TypeOK
  /\ \A s \in Sides : \A slot \in Occupied(s) : slot \in Marked(s) /\ WordOf(slot) \in l1[s]

BitsMatchLevels ==
  \A s \in Sides : Marked(s) = Occupied(s) /\ l1[s] = {WordOf(slot) : slot \in Occupied(s)}

\* BitsStayExact: once both levels of the bitmap say exactly which slots hold
\* orders, as they do from zero words, no call makes them wrong, one that finds
\* nothing or throws included.
BitsStayExact == [][BitsMatchLevels => BitsMatchLevels']_vars

\* StopsOnlyWhenDone: while the bits are exact, a submit that ends with something
\* left, by returning or by an exception, leaves no order it could have traded
\* with, even where add_order had crossed the book.
StopsOnlyWhenDone ==
  [][BitsMatchLevels /\ taker # NoOrder /\ taker' = NoOrder /\ taker.qty > 0 =>
       \A slot \in Occupied(Opposite(taker.side)) :
         IF taker.side = Bid THEN index_to_price(slot) > taker.price
                             ELSE index_to_price(slot) < taker.price]_vars

\* The price best_bid or best_ask answers is that of the slot.
Quotes(side, slot) == slot = best(side) /\ slot \in SlotIndices

\* QuotesRestingOrders: when best_bid or best_ask answers a price, an order
\* rests there, as the tests in the same file assert.
QuotesRestingOrders ==
  \A s \in Sides : \A slot \in SlotIndices : Quotes(s, slot) => slot \in Occupied(s)

LadderPrices == {index_to_price(slot) : slot \in SlotIndices}

Book == INSTANCE LimitOrderBook WITH
  Prices     <- LadderPrices,
  Quantities <- Quantities \cap Nat,
  book       <- [s \in Sides |-> [p \in LadderPrices |-> levels[s][price_to_index(p)]]]

HoldsNegative ==
  \E s \in Sides : \E e \in RestingOn(s) : levels[s][e[1]][e[2]].qty < 0

\* A step by which a caller relies on what the prototype does not check: he adds
\* past the matching loop, gives a price off the ladder or a negative quantity,
\* submits an id that is in use, looks for an order where it does not rest, or goes
\* on in a ladder that holds a negative quantity.
Careless ==
  \/ reply' \in {"Added", "OutOfRange"}
  \/ /\ taker = NoOrder /\ taker' # NoOrder
     /\ IsResting(taker'.id) \/ ~OnLadder(taker'.price) \/ taker'.qty < 0
  \/ HoldsNegative
  \/ taker = NoOrder /\ reply' = "NotFound" /\ \E id \in OrderIds : IsResting(id)
  \/ taker # NoOrder /\ (~OnLadder(taker.price) \/ taker.qty < 0)

\* StepsAsBook: whatever careless calls came before, and while the bits are
\* exact, each step of a careful call is a step of the book both engines
\* implement.
StepsAsBook == [][BitsMatchLevels /\ ~Careless => [Book!Next]_(Book!vars)]_vars

=============================================================================
