---------------------------- MODULE Differential ----------------------------
(***************************************************************************)
(* The two engines behind their feed adapters, or called as the tests call *)
(* them, on one stream of events.  Both take an event, the ladder engine   *)
(* runs its submit to the end, then the map engine, and the answers are    *)
(* compared, as DifferentialRunner::run_one does.  The engines share       *)
(* nothing, so in which order their steps come makes no difference.  The   *)
(* comparison stops at the first event only one engine accepts: from then  *)
(* on the two hold different orders.                                       *)
(***************************************************************************)
EXTENDS Common, Sequences, FiniteSets

CONSTANTS OrderIds, ZeroId, Prices, Quantities,
          MinPrice, MaxPrice, TickSize, Capacity, MaxLoad, WordBits,
          Nil

\* What the two engines assume of their constants.
ASSUME PricesAssumption     == Prices \subseteq Nat /\ IsFiniteSet(Prices)
ASSUME QuantitiesAssumption == Quantities \subseteq Nat
ASSUME ZeroIdAssumption     == ZeroId \notin OrderIds
ASSUME SizesAssumption      == {WordBits, Capacity} \subseteq Nat \ {0} /\ MaxLoad \in Nat
ASSUME LadderAssumption ==
  /\ MinPrice \in Nat /\ MaxPrice \in Nat /\ MinPrice <= MaxPrice
  /\ TickSize \in Nat \ {0}

VARIABLES
  m_levels, m_order_map, m_call, m_executed, m_reply,               \* MapEngine
  b_pool, b_ladder, b_bits, b_id_to_idx, b_call, b_trades, b_reply, \* BitmapEngine
  entrance    \* "feed" or "raw": how the last event reached the engines

m_vars == <<m_levels, m_order_map, m_call, m_executed, m_reply>>
b_vars == <<b_pool, b_ladder, b_bits, b_id_to_idx, b_call, b_trades, b_reply>>
vars == <<m_vars, b_vars, entrance>>

Ids == OrderIds \cup {ZeroId}

Map == INSTANCE MapEngine WITH
  OrderIds <- Ids, None <- Nil, levels <- m_levels, order_map <- m_order_map,
  call <- m_call, executed <- m_executed, reply <- m_reply

Ladder == INSTANCE BitmapEngine WITH
  pool <- b_pool, ladder <- b_ladder, bits <- b_bits, id_to_idx <- b_id_to_idx,
  call <- b_call, executed_trades <- b_trades, reply <- b_reply

\* Nil stands for what is absent, in both engines.
ASSUME NilAssumption ==
  /\ Nil \notin Map!PriceLevels /\ Nil \notin Map!Locations /\ Nil \notin Map!Calls
  /\ Nil \notin Map!Book!Takers
  /\ Nil \notin Ladder!OrderIndices /\ Nil \notin Ladder!Calls

-----------------------------------------------------------------------------
\* FeedFault, letting quantity 0 through.
FeedFaultNoQuantity(id, qty) ==
  IF id = ZeroId THEN "InvalidOrderId"
  ELSE IF m_order_map[id] # Nil THEN "DuplicateId"
  ELSE "none"

\* What the map engine's feed refuses before it calls submit.
FeedFault(id, qty) ==
  IF id = ZeroId THEN "InvalidOrderId"
  ELSE IF qty = 0 THEN "InvalidQuantity"
  ELSE IF m_order_map[id] # Nil THEN "DuplicateId"
  ELSE "none"

\* A New event in the map engine's feed.
MapFeed(id, side, price, qty) ==
  \/ /\ FeedFault(id, qty) = "none"
     /\ Map!Submit(id, side, price, qty)
  \/ /\ FeedFault(id, qty) # "none"
     /\ m_reply' = FeedFault(id, qty)
     /\ m_executed' = <<>>
     /\ UNCHANGED <<m_levels, m_order_map, m_call>>

\* MapAdapter::submit of the differential test: the engine's exception is a refusal.
MapRaw(id, side, price, qty) ==
  Map!Submit(id, side, price, qty) \/ Map!SubmitDuplicate(id)

\* The ladder engine's feed, and BitmapAdapter::submit, pass the call on.
LadderNew(id, side, price, qty) ==
  Ladder!Submit(id, side, price, qty) \/ Ladder!Refuse(id, price, qty)

-----------------------------------------------------------------------------
Done == b_call = Nil /\ m_call = Nil

Accepts(reply) == reply \notin Rejections

\* compare_outputs finds the event accepted by both or by neither.
Compared == Done /\ (Accepts(m_reply) <=> Accepts(b_reply))

Init == Map!Init /\ Ladder!Init /\ entrance = "feed"

FeedNew(id, side, price, qty) ==
  /\ Compared
  /\ MapFeed(id, side, price, qty)
  /\ LadderNew(id, side, price, qty)
  /\ entrance' = "feed"

RawNew(id, side, price, qty) ==
  /\ Compared
  /\ MapRaw(id, side, price, qty)
  /\ LadderNew(id, side, price, qty)
  /\ entrance' = "raw"

\* Both feeds ignore what cancel_order returns; the test compares it.
Cancel(id) ==
  /\ Compared
  /\ Map!CancelOrder(id) \/ Map!CancelMissing(id)
  /\ Ladder!CancelOrder(id) \/ Ladder!CancelMissing(id)
  /\ entrance' = "raw"

LadderStep == (Ladder!Fill \/ Ladder!Finish) /\ UNCHANGED <<m_vars, entrance>>

MapStep == b_call = Nil /\ (Map!Fill \/ Map!Finish) /\ UNCHANGED <<b_vars, entrance>>

Next ==
  \/ \E id \in Ids, side \in Sides, price \in Prices, qty \in Quantities :
       FeedNew(id, side, price, qty) \/ RawNew(id, side, price, qty)
  \/ \E id \in Ids : Cancel(id)
  \/ LadderStep
  \/ MapStep

Spec == Init /\ [][Next]_vars

-----------------------------------------------------------------------------
\* The refusals only the ladder engine knows: its price range and its capacity,
\* and, without the feed adapter, the test of the arguments.
LadderOnly ==
  {"PriceOutOfBounds", "EngineFull"}
    \cup IF entrance = "raw" THEN {"InvalidQuantity", "InvalidOrderId"} ELSE {}

Comparable == Done /\ b_reply \notin LadderOnly

\* AnswersAgree: whatever came before, an event within the ladder engine's
\* limits is accepted by both engines or refused by both for the same reason
\* (id 0 with quantity 0 aside, which their feeds test in opposite orders), a
\* cancel finds its order in both or in neither, and the two report the same
\* trades in the same order with the same makers.
AnswersAgree ==
  Comparable =>
    /\ \/ m_reply = b_reply
       \/ m_reply = "InvalidOrderId" /\ b_reply = "InvalidQuantity"
    /\ [i \in DOMAIN m_executed |-> Map!ToTradeRec(m_executed[i])] = b_trades

\* BooksAgree: and then both hold the same orders with the same quantities in
\* the same queues, so neither answer nor quote can differ later because of it.
BooksAgree ==
  Comparable =>
    \A side \in Sides : \A price \in Prices :
      Map!BookOf(side, price) =
        IF Ladder!OnLadder(price) THEN Ladder!QueueAtPrice(side, price) ELSE <<>>

=============================================================================
