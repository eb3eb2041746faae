---------------------------- MODULE BitmapEngine ----------------------------
(***************************************************************************)
(* bitmap_engine::BitmapOrderBook, the fast engine: a ladder of price      *)
(* levels indexed by price, a three-level bitmap per side to find the best *)
(* level, a pool of order slots linked into the levels, and a map from id  *)
(* to slot.  The map is modelled by its contract (a partial function with  *)
(* a limit on its size).  As in MapEngine, a round of the matching loop of *)
(* submit is one action.  Prices are uint32_t; no subtraction wraps, since *)
(* submit tests price < min_price first and index_to_price stays at or     *)
(* below max_price.  add_order is submit with a throw for a refusal.       *)
(***************************************************************************)
EXTENDS Common, OrderPool, SequencesExt

CONSTANTS
  OrderIds,      \* the ids callers use, but for 0
  ZeroId,        \* order id 0, which the id map reserves
  Prices,        \* the prices callers use
  Quantities,    \* the quantities callers use
  MinPrice, MaxPrice, TickSize,   \* LadderConfig
  MaxLoad,       \* kOrderMapMaxLoad, of the id map
  WordBits       \* kWordBits

ASSUME PricesAssumption     == Prices \subseteq Nat /\ IsFiniteSet(Prices)
ASSUME QuantitiesAssumption == Quantities \subseteq Nat
ASSUME ZeroIdAssumption     == ZeroId \notin OrderIds

\* Words have bits, and the id map has a limit.
ASSUME WordBitsAssumption == WordBits \in Nat \ {0}
ASSUME MaxLoadAssumption  == MaxLoad \in Nat

\* The constructor throws otherwise.
ASSUME LadderAssumption ==
  /\ MinPrice \in Nat /\ MaxPrice \in Nat /\ MinPrice <= MaxPrice
  /\ TickSize \in Nat \ {0}

\* num_slots.
NumSlots == (MaxPrice - MinPrice) \div TickSize + 1

Index == INSTANCE LevelBitmap

Ids == OrderIds \cup {ZeroId}

VARIABLES
  pool,        \* the order slots and the head of their free list
  ladder,      \* ladder[Bid] is bid_levels, ladder[Ask] is ask_levels
  bits,        \* bits[Bid] is l1_bids, l2_bids and l3_bids; bits[Ask] likewise
  id_to_idx,   \* the slot of an id, Nil when the map does not hold it
  call,        \* the arguments of the submit under way, Nil between calls
  executed_trades,
  reply        \* what the last call answered

book == <<pool, ladder, bits, id_to_idx>>
vars == <<pool, ladder, bits, id_to_idx, call, executed_trades, reply>>

-----------------------------------------------------------------------------
price_to_index(price) == (price - MinPrice) \div TickSize
index_to_price(index) == MinPrice + index * TickSize

OnLadder(price) ==
  /\ price >= MinPrice /\ price <= MaxPrice
  /\ (price - MinPrice) % TickSize = 0

MapFull == Cardinality({id \in Ids : id_to_idx[id] # Nil}) >= MaxLoad

\* Refusal, without the test that the engine has room.
RefusalIgnoringRoom(id, price, qty) ==
  IF qty = 0 THEN "InvalidQuantity"
  ELSE IF id = ZeroId THEN "InvalidOrderId"
  ELSE IF ~OnLadder(price) THEN "PriceOutOfBounds"
  ELSE IF id_to_idx[id] # Nil THEN "DuplicateId"
  ELSE "none"

\* Why submit refuses the order, in the order of its tests; "none" if it takes it.
Refusal(id, price, qty) ==
  IF qty = 0 THEN "InvalidQuantity"
  ELSE IF id = ZeroId THEN "InvalidOrderId"
  ELSE IF ~OnLadder(price) THEN "PriceOutOfBounds"
  ELSE IF id_to_idx[id] # Nil THEN "DuplicateId"
  ELSE IF is_full(pool) \/ MapFull THEN "EngineFull"
  ELSE "none"

\* The slot of the best level of a side.
BestSlot(side) ==
  IF side = Bid THEN Index!find_best_bid_idx(bits[Bid]) ELSE Index!find_best_ask_idx(bits[Ask])

\* Matches, with equality of prices lost.
MatchesStrictly ==
  LET best == BestSlot(Opposite(call.side))
  IN  /\ call.qty > 0
      /\ best # Index!NoSlot
      /\ IF call.side = Bid THEN call.price > index_to_price(best)
                            ELSE call.price < index_to_price(best)

\* The matching loop goes on.
Matches ==
  LET best == BestSlot(Opposite(call.side))
  IN  /\ call.qty > 0
      /\ best # Index!NoSlot
      /\ IF call.side = Bid THEN call.price >= index_to_price(best)
                            ELSE call.price <= index_to_price(best)

-----------------------------------------------------------------------------
BlankOrder == [id |-> ZeroId, side |-> Bid, price |-> 0, qty |-> 0, prev |-> 0, next |-> 0]

Init ==
  /\ pool = NewPool(BlankOrder)
  /\ ladder = [s \in Sides |-> [i \in Index!SlotIndices |-> EmptyLevel]]
  /\ bits = [s \in Sides |-> Index!EmptyBitmap]
  /\ id_to_idx = [id \in Ids |-> Nil]
  /\ call = Nil
  /\ executed_trades = <<>>
  /\ reply = "none"

\* submit returns before it changes anything.
Refuse(id, price, qty) ==
  /\ call = Nil
  /\ Refusal(id, price, qty) # "none"
  /\ reply' = Refusal(id, price, qty)
  /\ executed_trades' = <<>>
  /\ UNCHANGED <<book, call>>

\* submit up to its matching loop.
Submit(id, side, price, qty) ==
  /\ call = Nil
  /\ Refusal(id, price, qty) = "none"
  /\ call' = [id |-> id, side |-> side, price |-> price, qty |-> qty]
  /\ executed_trades' = <<>>
  /\ reply' = "none"
  /\ UNCHANGED book

\* Forget, without the erase.
ForgetNothing(id) == id_to_idx

\* id_to_idx.erase(id).
Forget(id) == [id_to_idx EXCEPT ![id] = Nil]

\* What a removal of the order in slot idx of (side, slot) does, given the level
\* and pool the removal left: the level's bit, the slot and the id go with it.
Release(side, slot, idx, id, removed) ==
  /\ ladder' = [ladder EXCEPT ![side][slot] = removed.level]
  /\ bits' = IF is_empty(removed.level)
               THEN [bits EXCEPT ![side] = Index!clear_bit_hierarchical(@, slot)]
               ELSE bits
  /\ pool' = deallocate(removed.pool, idx)
  /\ id_to_idx' = Forget(id)

\* Reduce, without the level's total.
ReduceOrderOnly(side, slot, idx, n) ==
  /\ pool' = [pool EXCEPT !.slots[idx].qty = @ - n]
  /\ UNCHANGED <<ladder, bits, id_to_idx>>

\* A partial fill of the order in slot idx.
Reduce(side, slot, idx, n) ==
  /\ pool' = [pool EXCEPT !.slots[idx].qty = @ - n]
  /\ ladder' = [ladder EXCEPT ![side][slot].total_qty = @ - n]
  /\ UNCHANGED <<bits, id_to_idx>>

\* LeftAfter, when only a filled maker counts.
LeftAfterFilled(n, maker) == IF n = maker.qty THEN call.qty - n ELSE call.qty

LeftAfter(n, maker) == call.qty - n

\* One round of the matching loop.
Fill ==
  /\ call # Nil
  /\ Matches
  /\ LET side  == Opposite(call.side)
         slot  == price_to_index(index_to_price(BestSlot(side)))
         level == ladder[side][slot]
         idx   == front(level)
         maker == pool.slots[idx]
         n     == IF maker.qty <= call.qty THEN maker.qty ELSE call.qty
     IN  /\ executed_trades' = Append(executed_trades,
              [maker_id |-> maker.id, taker_id |-> call.id, price |-> maker.price, qty |-> n])
         /\ IF n = maker.qty
              THEN Release(side, slot, idx, maker.id, pop_front(level, pool))
              ELSE Reduce(side, slot, idx, n)
         /\ call' = [call EXCEPT !.qty = LeftAfter(n, maker)]
  /\ UNCHANGED reply

\* The remainder takes a slot, an entry of the id map, the end of its level's
\* queue and its level's bit.
add_resting_order ==
  LET slot  == price_to_index(call.price)
      idx   == allocated(pool)
      order == [id |-> call.id, side |-> call.side, price |-> call.price, qty |-> call.qty,
                prev |-> Nil, next |-> Nil]
      pushed == push_back(ladder[call.side][slot], idx, allocate(pool, order))
  IN  /\ pool' = pushed.pool
      /\ ladder' = [ladder EXCEPT ![call.side][slot] = pushed.level]
      /\ bits' = [bits EXCEPT ![call.side] = Index!set_bit_hierarchical(@, slot)]
      /\ id_to_idx' = [id_to_idx EXCEPT ![call.id] = idx]

\* submit after its matching loop.  allocate and insert would throw without room;
\* RemainderHasRoom says they never do.
Finish ==
  /\ call # Nil
  /\ ~Matches
  /\ IF call.qty > 0 THEN add_resting_order ELSE UNCHANGED book
  /\ call' = Nil
  /\ reply' = "Success"
  /\ UNCHANGED executed_trades

\* cancel_order: side, price and level are read from the slot the map names; the
\* id it erases is the one it was given.
CancelOrder(id) ==
  /\ call = Nil
  /\ id_to_idx[id] # Nil
  /\ LET idx   == id_to_idx[id]
         order == pool.slots[idx]
         slot  == price_to_index(order.price)
     IN  Release(order.side, slot, idx, id, unlink(ladder[order.side][slot], idx, pool))
  /\ reply' = "Cancelled"
  /\ executed_trades' = <<>>
  /\ UNCHANGED call

CancelMissing(id) ==
  /\ call = Nil
  /\ id_to_idx[id] = Nil
  /\ reply' = "NotFound"
  /\ executed_trades' = <<>>
  /\ UNCHANGED <<book, call>>

Next ==
  \/ \E id \in Ids, side \in Sides, price \in Prices, qty \in Quantities :
       Submit(id, side, price, qty)
  \/ \E id \in Ids, price \in Prices, qty \in Quantities : Refuse(id, price, qty)
  \/ Fill
  \/ Finish
  \/ \E id \in Ids : CancelOrder(id)
  \/ \E id \in Ids : CancelMissing(id)

Spec == Init /\ [][Next]_vars

-----------------------------------------------------------------------------
LadderPrices == {index_to_price(i) : i \in Index!SlotIndices}

MaybeIndex == OrderIndices \cup {Nil}

SlotRecords == [id : Ids, side : Sides, price : LadderPrices \cup {0}, qty : Nat,
                prev : MaybeIndex, next : MaybeIndex]

Calls == [id : OrderIds, side : Sides, price : LadderPrices, qty : Nat]

ASSUME NilIsNoCallAssumption == Nil \notin Calls

\* TypeOK: the shape of the state; total_qty, an unsigned word, never goes below
\* zero.
TypeOK ==
  /\ pool \in [slots : [OrderIndices -> SlotRecords], free_head : MaybeIndex]
  /\ ladder \in [Sides -> [Index!SlotIndices ->
                             [head : MaybeIndex, tail : MaybeIndex, total_qty : Nat]]]
  /\ bits \in [Sides -> Index!Bitmaps]
  /\ id_to_idx \in [Ids -> MaybeIndex]
  /\ call \in Calls \cup {Nil}
  /\ executed_trades \in Seq(TradeRecs(OrderIds, LadderPrices))
  /\ reply \in Replies

\* The slots of the orders of a level, oldest first.
Queue(side, slot) == Chain(pool, ladder[side][slot].head)

\* LevelsWellLinked: the two link fields of the orders of a level and the level's
\* head and tail describe one and the same queue through every push, pop and
\* unlink at either end or in the middle, and each order in it has the level's
\* side and price and a quantity left.  TypeOK is part of it.
LevelsWellLinked ==
  /\ TypeOK
  /\ \A side \in Sides, slot \in Index!SlotIndices :
       LET level == ladder[side][slot]
           queue == Queue(side, slot)
       IN  /\ level.tail = IF queue = <<>> THEN Nil ELSE Last(queue)
           /\ \A i \in DOMAIN queue :
                LET order == pool.slots[queue[i]]
                IN  /\ order.prev = IF i = 1 THEN Nil ELSE queue[i - 1]
                    /\ order.side = side
                    /\ price_to_index(order.price) = slot
                    /\ order.qty > 0

\* SlotsPartitioned: every slot is at one place of one list: free, or the queue
\* of one level.  No slot leaks, none is given to two orders, none is freed
\* while a level still reaches it, whatever the mix of fills and cancels.
SlotsPartitioned ==
  LET Levels == Sides \X Index!SlotIndices
      lists  == [l \in Levels \cup {<<"free">>} |->
                   IF l \in Levels THEN Queue(l[1], l[2]) ELSE FreeList(pool)]
      Places(idx) == {lp \in (DOMAIN lists) \X (1 .. Capacity + 1) :
                        lp[2] \in DOMAIN lists[lp[1]] /\ lists[lp[1]][lp[2]] = idx}
  IN  \A idx \in OrderIndices : Cardinality(Places(idx)) = 1

\* BitsMatchLevels: each side's bitmap, at all three levels, shows exactly the
\* price levels that hold an order, however they were filled and emptied.
BitsMatchLevels ==
  \A side \in Sides :
    bits[side] = Index!BitmapOf({i \in Index!SlotIndices : ~is_empty(ladder[side][i])})

\* What the orders in these slots have left, together.
TotalQty(queue) ==
  LET sum[i \in 0 .. Len(queue)] ==
        IF i = 0 THEN 0 ELSE sum[i - 1] + pool.slots[queue[i]].qty
  IN sum[Len(queue)]

\* TotalQtyMatches: the running total of a level is the sum over its orders.
TotalQtyMatches ==
  \A side \in Sides, slot \in Index!SlotIndices :
    ladder[side][slot].total_qty = TotalQty(Queue(side, slot))

\* IdsMatchSlots: the id map leads from the id of each resting order to its slot
\* and knows no other id; the data left behind in free slots is never reached.
IdsMatchSlots ==
  LET Resting == {idx \in OrderIndices : idx \notin Range(FreeList(pool))}
  IN  /\ \A idx \in Resting : id_to_idx[pool.slots[idx].id] = idx
      /\ \A id \in Ids : id_to_idx[id] # Nil =>
           id_to_idx[id] \in Resting /\ pool.slots[id_to_idx[id]].id = id

\* RemainderHasRoom: from the test for room at the start of submit to the rest of
\* the remainder, after any number of fills, there is a free slot and room in
\* the id map, so allocate and insert never throw with trades already made.
RemainderHasRoom == call # Nil /\ call.qty > 0 => ~is_full(pool) /\ ~MapFull

-----------------------------------------------------------------------------
(* The caller's view of the state, and the specification it obeys.         *)

QueueAtPrice(side, price) ==
  LET queue == Queue(side, price_to_index(price))
  IN  [i \in DOMAIN queue |-> [id |-> pool.slots[queue[i]].id, qty |-> pool.slots[queue[i]].qty]]

Book == INSTANCE LimitOrderBook WITH
  OrderIds <- Ids,
  Prices   <- LadderPrices,
  NoOrder  <- Nil,
  book     <- [s \in Sides |-> [p \in LadderPrices |-> QueueAtPrice(s, p)]],
  taker    <- call,
  trades   <- executed_trades,
  reply    <- reply

\* ImplementsBook: every step of this engine is a step of the book it promises,
\* so it matches by price, then by time, at the maker's price.
ImplementsBook == Book!Spec

\* EachRoundShrinks: every step inside submit trades a part of what is left to
\* trade or returns; as one is always possible (there is no deadlock) and a
\* quantity is a natural number, the loop over the bitmap ends.
EachRoundShrinks ==
  [][call # Nil => call' = Nil \/ (call'.qty < call.qty /\ call'.qty >= 0)]_vars

=============================================================================
