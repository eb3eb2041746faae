-------------------------- MODULE DifferentialProofs --------------------------
(***************************************************************************)
(* Proofs about Differential: whatever the events, the two engines give    *)
(* the same answers and hold the same book, as far as they are compared.   *)
(* Each engine implements LimitOrderBook over its own prices; here both    *)
(* are read as one book over the prices of either, a step of a matching    *)
(* loop is a round of it (CommonProofs), and a round leaves no choice.     *)
(***************************************************************************)
EXTENDS Differential, CommonProofs

-----------------------------------------------------------------------------
(***************************************************************************)
(* What two engines show of themselves.  A view is the book over all the   *)
(* prices, the taker of the submit under way (Nil between calls), the      *)
(* trades of the last call and its answer; m is the map engine's view and  *)
(* l the ladder engine's, `only' the refusals only the ladder engine knows.*)
(***************************************************************************)

\* The prices of either engine.
AllPrices == Prices \cup Ladder!LadderPrices

\* They are prices.
LEMMA PricesKnown ==
  /\ Prices \in SUBSET AllPrices /\ Ladder!LadderPrices \in SUBSET AllPrices
  /\ AllPrices \in SUBSET Nat
<1>1. ASSUME NEW p \in Ladder!LadderPrices PROVE p \in Nat
  <2>1. PICK i \in Ladder!Index!SlotIndices : p = MinPrice + i * TickSize
    BY DEF Ladder!LadderPrices, Ladder!index_to_price
  <2>2. i \in Nat /\ TickSize \in Nat /\ MinPrice \in Nat
    BY LadderAssumption DEF Ladder!Index!SlotIndices
  <2>3. i * TickSize \in Nat
    BY <2>2
  <2> QED
    BY <2>1, <2>2, <2>3
<1> QED
  BY <1>1, PricesAssumption DEF AllPrices

-----------------------------------------------------------------------------
(* The steps of a view from v to w.                                        *)

Took(v, w, k) ==
  w.taker = k /\ k # Nil /\ w.book = v.book /\ w.trades = <<>> /\ w.reply = "none"

Answered(v, w, answer) ==
  w.taker = Nil /\ w.book = v.book /\ w.trades = <<>> /\ w.reply = answer

Filled(v, w) ==
  /\ v.taker # Nil /\ w.taker # Nil /\ w.reply = v.reply
  /\ \E r : /\ Round(AllPrices, v.book, v.taker, w.book, w.taker, r)
            /\ w.trades = Append(v.trades, r)

Ended(v, w) ==
  /\ v.taker # Nil /\ w.taker = Nil /\ w.reply = "Success" /\ w.trades = v.trades
  /\ Stuck(AllPrices, v.book, v.taker) /\ w.book = Settled(v.book, v.taker)

Removed(v, w, id) ==
  /\ w.taker = Nil /\ w.reply = "Cancelled" /\ w.trades = <<>>
  /\ Leaves(AllPrices, v.book, id, w.book)

\* The trades of a view are a sequence.
Listed(v) == \E S : v.trades \in Seq(S)

-----------------------------------------------------------------------------
(* How the two views stand to each other.  Between compared events they    *)
(* are level; while an order is matched the map engine follows the ladder  *)
(* engine on one trail of rounds; once only the map engine took an order   *)
(* nothing is compared any more.                                           *)

SameAnswer(f, r) == f = r \/ (f = "InvalidOrderId" /\ r = "InvalidQuantity")

Level(m, l, only) ==
  /\ m.taker = Nil /\ l.taker = Nil /\ m.book = l.book /\ m.trades = l.trades
  /\ l.reply \notin only => SameAnswer(m.reply, l.reply)

\* The trades of l lead to the book lb with the taker lk.
LadderAt(l, lb, lk) ==
  \/ l.taker # Nil /\ lb = l.book /\ lk = l.taker
  \/ /\ l.taker = Nil /\ l.reply = "Success"
     /\ Stuck(AllPrices, lb, lk) /\ l.book = Settled(lb, lk)

Matching(m, l) ==
  /\ m.taker # Nil
  /\ \E lb, lk : /\ Ahead(AllPrices, l.trades, lb, lk, m.trades, m.book, m.taker)
                 /\ LadderAt(l, lb, lk)

Stopped(m, l, only) ==
  l.taker = Nil /\ l.reply \in only /\ l.reply \in Rejections /\ m.reply \notin Rejections

InStep(m, l, only) == Level(m, l, only) \/ Matching(m, l) \/ Stopped(m, l, only)

\* Two equal books, and nothing under way, are level.
LEMMA Alongside ==
  ASSUME NEW m, NEW l, NEW only, m.taker = Nil, l.taker = Nil, m.book = l.book,
         m.trades = <<>>, l.trades = <<>>, m.reply = l.reply
  PROVE  InStep(m, l, only)
BY DEF InStep, Level, SameAnswer

\* Answers f and r that do not let the engines part unnoticed.
Fits(f, r, only) ==
  /\ f = "none" => r = "none" \/ (r \in only /\ r \in Rejections)
  /\ r = "none" => f = "none"
  /\ f # "none" /\ r \notin only => SameAnswer(f, r)

\* "none" stands for taking the order.
Replied(v, w, k, answer) ==
  \/ answer = "none" /\ Took(v, w, k)
  \/ answer # "none" /\ Answered(v, w, answer)

\* A new order.
LEMMA NewOrder ==
  ASSUME NEW m, NEW l, m.book = l.book, NEW m2, NEW l2, NEW k, NEW f, NEW r, NEW only,
         Fits(f, r, only), Replied(m, m2, k, f), Replied(l, l2, k, r)
  PROVE  InStep(m2, l2, only)
<1>1. CASE f = "none" /\ r = "none"
  <2>1. Took(m, m2, k) /\ Took(l, l2, k)
    BY <1>1 DEF Replied
  <2>2. PICK b : b = l.book
    OBVIOUS
  <2>3. /\ m2.taker = k /\ l2.taker = k /\ k # Nil /\ m2.book = b /\ l2.book = b
        /\ m2.trades = <<>> /\ l2.trades = <<>>
    BY <2>1, <2>2 DEF Took
  <2>4. Ahead(AllPrices, <<>>, b, k, <<>>, b, k)
    BY PricesKnown, AheadStarts
  <2>5. LadderAt(l2, b, k)
    BY <2>3 DEF LadderAt
  <2> QED
    BY <2>3, <2>4, <2>5 DEF InStep, Matching
<1>2. CASE f = "none" /\ r # "none"
  <2>1. Took(m, m2, k) /\ Answered(l, l2, r)
    BY <1>2 DEF Replied
  <2>2. m2.reply = "none" /\ l2.taker = Nil /\ l2.reply = r /\ r \in only /\ r \in Rejections
    BY <1>2, <2>1 DEF Took, Answered, Fits
  <2> QED
    BY <2>2 DEF InStep, Stopped, Rejections
<1>3. CASE f # "none" /\ r # "none"
  <2>1. Answered(m, m2, f) /\ Answered(l, l2, r)
    BY <1>3 DEF Replied
  <2>2. r \notin only => SameAnswer(f, r)
    BY <1>3 DEF Fits
  <2> QED
    BY <2>1, <2>2 DEF Answered, InStep, Level
<1> QED
  BY <1>1, <1>2, <1>3 DEF Fits

\* A cancel that finds its order in both.
LEMMA BothRemove ==
  ASSUME NEW m, NEW l, m.book = l.book, OnePlace(AllPrices, m.book), NEW m2, NEW l2, NEW id,
         Removed(m, m2, id), Removed(l, l2, id), NEW only
  PROVE  InStep(m2, l2, only)
<1>1. PICK b, c, d : b = m.book /\ c = m2.book /\ d = l2.book
  OBVIOUS
<1>2. OnePlace(AllPrices, b) /\ Leaves(AllPrices, b, id, c) /\ Leaves(AllPrices, b, id, d)
  BY <1>1 DEF Removed
<1>3. c = d
  BY <1>2, OneLeaves
<1> QED
  BY <1>1, <1>3, Alongside DEF Removed

\* The ladder engine goes on: it leads the trail, or rests what is left.
LEMMA LeaderSteps ==
  ASSUME NEW m, NEW l, NEW only, InStep(m, l, only), Listed(l), NEW l2,
         Filled(l, l2) \/ Ended(l, l2)
  PROVE  InStep(m, l2, only)
<1>1. l.taker # Nil
  BY DEF Filled, Ended
<1>2. Matching(m, l)
  BY <1>1 DEF InStep, Level, Stopped
<1>3. PICK lb, lk : /\ Ahead(AllPrices, l.trades, lb, lk, m.trades, m.book, m.taker)
                    /\ LadderAt(l, lb, lk)
  BY <1>2 DEF Matching
<1>4. lb = l.book /\ lk = l.taker /\ m.taker # Nil
  BY <1>1, <1>2, <1>3 DEF LadderAt, Matching
<1>5. PICK ts, us, b, k : ts = l.trades /\ us = m.trades /\ b = m.book /\ k = m.taker
  OBVIOUS
<1>6. Ahead(AllPrices, ts, lb, lk, us, b, k)
  BY <1>3, <1>5
<1>7. PICK ts2, lb2, lk2 : ts2 = l2.trades /\ lb2 = l2.book /\ lk2 = l2.taker
  OBVIOUS
<1>8. CASE Filled(l, l2)
  <2>1. PICK r : Round(AllPrices, lb, lk, lb2, lk2, r) /\ ts2 = Append(ts, r)
    BY <1>4, <1>5, <1>7, <1>8 DEF Filled
  <2>2. PICK S : ts \in Seq(S)
    BY <1>5 DEF Listed
  <2>3. Ahead(AllPrices, Append(ts, r), lb2, lk2, us, b, k)
    BY <1>6, <2>1, <2>2, PricesKnown, LeaderMoves
  <2>4. LadderAt(l2, lb2, lk2)
    BY <1>7, <1>8 DEF LadderAt, Filled
  <2> QED
    BY <1>4, <1>5, <1>7, <2>1, <2>3, <2>4 DEF InStep, Matching
<1>9. CASE Ended(l, l2)
  <2>1. LadderAt(l2, lb, lk) /\ l2.trades = l.trades
    BY <1>4, <1>9 DEF LadderAt, Ended
  <2> QED
    BY <1>3, <1>4, <2>1 DEF InStep, Matching
<1> QED
  BY <1>8, <1>9

\* Once it is done the map engine goes on: each of its rounds is the next of the
\* trail, and at its end it is where the ladder engine was.
LEMMA FollowerSteps ==
  ASSUME NEW m, NEW l, NEW only, InStep(m, l, only), Listed(l), Listed(m), l.taker = Nil, NEW m2,
         Filled(m, m2) \/ Ended(m, m2)
  PROVE  InStep(m2, l, only)
<1>1. m.taker # Nil
  BY DEF Filled, Ended
<1>2. CASE Stopped(m, l, only)
  BY <1>2 DEF InStep, Stopped, Filled, Ended, Rejections
<1>3. CASE Matching(m, l)
  <2>1. PICK lb, lk : /\ Ahead(AllPrices, l.trades, lb, lk, m.trades, m.book, m.taker)
                      /\ LadderAt(l, lb, lk)
    BY <1>3 DEF Matching
  <2>2. l.reply = "Success" /\ Stuck(AllPrices, lb, lk) /\ l.book = Settled(lb, lk)
    BY <2>1 DEF LadderAt
  <2>3. PICK ts, us, b, k : ts = l.trades /\ us = m.trades /\ b = m.book /\ k = m.taker
    OBVIOUS
  <2>4. PICK us2, b2, k2 : us2 = m2.trades /\ b2 = m2.book /\ k2 = m2.taker
    OBVIOUS
  <2>5. Ahead(AllPrices, ts, lb, lk, us, b, k)
    BY <2>1, <2>3
  <2>6. PICK S : ts \in Seq(S)
    BY <2>3 DEF Listed
  <2>7. PICK T : us \in Seq(T)
    BY <2>3 DEF Listed
  <2>8. CASE Filled(m, m2)
    <3>1. PICK r : Round(AllPrices, b, k, b2, k2, r) /\ us2 = Append(us, r)
      BY <2>3, <2>4, <2>8 DEF Filled
    <3>2. Ahead(AllPrices, ts, lb, lk, Append(us, r), b2, k2)
      BY <2>2, <2>5, <2>6, <2>7, <3>1, PricesKnown, FollowerMoves
    <3>3. m2.taker # Nil
      BY <2>8 DEF Filled
    <3> QED
      BY <2>1, <2>3, <2>4, <3>1, <3>2, <3>3 DEF InStep, Matching
  <2>9. CASE Ended(m, m2)
    <3>1. Stuck(AllPrices, b, k) /\ b2 = Settled(b, k)
      BY <2>3, <2>4, <2>9 DEF Ended
    <3>2. b = lb /\ k = lk /\ us = ts
      BY <2>5, <2>6, <2>7, <3>1, PricesKnown, FollowerDone
    <3> QED
      BY <2>2, <2>3, <2>4, <2>9, <3>1, <3>2 DEF InStep, Level, Ended, SameAnswer
  <2> QED
    BY <2>8, <2>9
<1> QED
  BY <1>1, <1>2, <1>3 DEF InStep, Level

\* Between compared events the views are level.
LEMMA ComparedLevel ==
  ASSUME NEW m, NEW l, NEW only, InStep(m, l, only), m.taker = Nil, l.taker = Nil,
         Accepts(m.reply) <=> Accepts(l.reply)
  PROVE  Level(m, l, only)
BY DEF InStep, Matching, Stopped, Accepts

\* And so they are after an event within the ladder engine's limits.
LEMMA ComparableLevel ==
  ASSUME NEW m, NEW l, NEW only, InStep(m, l, only), m.taker = Nil, l.taker = Nil,
         l.reply \notin only
  PROVE  Level(m, l, only)
BY DEF InStep, Matching, Stopped

-----------------------------------------------------------------------------
(* The map engine, with what is proved of it.                              *)

MP == INSTANCE MapEngineProofs WITH
  OrderIds <- Ids, None <- Nil, levels <- m_levels, order_map <- m_order_map,
  call <- m_call, executed <- m_executed, reply <- m_reply

\* The assumptions under which its theorems hold.
LEMMA MapAssumptions ==
  /\ Prices \subseteq Nat /\ MP!IsFiniteSet(Prices) /\ Quantities \subseteq Nat
  /\ Nil \notin MP!PriceLevels /\ Nil \notin MP!Locations /\ Nil \notin MP!Calls
  /\ Nil \notin MP!Book!Takers
<1>1. /\ Nil \notin MP!PriceLevels /\ Nil \notin MP!Locations /\ Nil \notin MP!Calls
      /\ Nil \notin MP!Book!Takers
  BY NilAssumption
  DEF MP!PriceLevels, Map!PriceLevels, MP!Orders, Map!Orders, MP!Locations, Map!Locations,
      MP!Calls, Map!Calls, MP!Book!Takers, Map!Book!Takers, MP!End, Map!End, MP!Sides, Map!Sides,
      MP!Bid, Map!Bid, MP!Ask, Map!Ask, MP!Book!Sides, Map!Book!Sides, MP!Book!Bid, Map!Book!Bid,
      MP!Book!Ask, Map!Book!Ask
<1>2. MP!IsFiniteSet(Prices)
  BY PricesAssumption DEF IsFiniteSet, MP!IsFiniteSet
<1> QED
  BY <1>1, <1>2, PricesAssumption, QuantitiesAssumption

\* One vocabulary.
LEMMA MapWords ==
  /\ MP!Bid = Bid /\ MP!Ask = Ask /\ MP!Sides = Sides /\ MP!Replies = Replies
  /\ \A s : MP!Opposite(s) = Opposite(s)
BY DEF MP!Bid, Bid, MP!Ask, Ask, MP!Sides, Sides, MP!Replies, Replies, MP!Rejections, Rejections,
       MP!Opposite, Opposite

\* The steps of the map engine are those its proofs are about.
LEMMA SameMap ==
  /\ Map!Init => MP!Init
  /\ \A id, side, price, qty : Map!Submit(id, side, price, qty) => MP!Submit(id, side, price, qty)
  /\ \A id : Map!SubmitDuplicate(id) => MP!SubmitDuplicate(id)
  /\ Map!Fill => MP!Fill
  /\ Map!Finish => MP!Finish
  /\ \A id : Map!CancelOrder(id) => MP!CancelOrder(id)
  /\ \A id : Map!CancelMissing(id) => MP!CancelMissing(id)
<1>1. Map!Init => MP!Init
  BY DEF Map!Init, MP!Init, Map!Sides, MP!Sides, Map!Bid, MP!Bid, Map!Ask, MP!Ask
<1>2. /\ \A s : Map!Opposite(s) = MP!Opposite(s)
      /\ \A s, p, q : Map!Better(s, p, q) = MP!Better(s, p, q)
      /\ \A s : Map!Keys(s) = MP!Keys(s)
      /\ Map!End = MP!End /\ Map!Bid = MP!Bid
  BY DEF Map!Opposite, MP!Opposite, Map!Better, MP!Better, Map!Keys, MP!Keys, Map!End, MP!End,
         Map!Bid, MP!Bid, Map!Ask, MP!Ask
<1>3. /\ \A s, keys : Map!First(s, keys) = MP!First(s, keys)
      /\ \A s, p : Map!After(s, p) = MP!After(s, p)
  BY DEF Map!First, MP!First, Map!After, MP!After, Map!Better, MP!Better, Map!Keys, MP!Keys,
         Map!End, MP!End, Map!Bid, MP!Bid
<1>4. \A id, side, price, qty : Map!Submit(id, side, price, qty) => MP!Submit(id, side, price, qty)
  BY <1>2, <1>3 DEF Map!Submit, MP!Submit
<1>5. /\ \A id : Map!SubmitDuplicate(id) => MP!SubmitDuplicate(id)
      /\ \A id : Map!CancelMissing(id) => MP!CancelMissing(id)
  BY DEF Map!SubmitDuplicate, MP!SubmitDuplicate, Map!CancelMissing, MP!CancelMissing
<1>6. /\ \A c : Map!Matches(c) <=> MP!Matches(c)
      /\ \A l, n : Map!fill_front(l, n) = MP!fill_front(l, n)
      /\ \A id : Map!Unindex(id) = MP!Unindex(id)
  BY DEF Map!Matches, MP!Matches, Map!End, MP!End, Map!Bid, MP!Bid, Map!fill_front, MP!fill_front,
         Map!FullyFills, MP!FullyFills, Map!TakeFromFront, MP!TakeFromFront,
         Map!Unindex, MP!Unindex
<1>7. Map!Fill => MP!Fill
  BY DEF Map!Fill, MP!Fill, Map!Matches, MP!Matches, Map!fill_front, MP!fill_front,
         Map!FullyFills, MP!FullyFills, Map!TakeFromFront, MP!TakeFromFront, Map!Unindex,
         MP!Unindex, Map!After, MP!After, Map!First, MP!First, Map!Keys, MP!Keys, Map!Better,
         MP!Better, Map!Opposite, MP!Opposite, Map!Bid, MP!Bid, Map!Ask, MP!Ask, Map!End, MP!End
<1>8. Map!Finish => MP!Finish
  BY DEF Map!Finish, MP!Finish, Map!Matches, MP!Matches, Map!End, MP!End, Map!Bid, MP!Bid,
         Map!RestRemainder, MP!RestRemainder, Map!add_order, MP!add_order, Map!EmptyLevel,
         MP!EmptyLevel
<1>9. \A id : Map!CancelOrder(id) => MP!CancelOrder(id)
  BY DEF Map!CancelOrder, MP!CancelOrder, Map!remove_order, MP!remove_order, Map!Unindex,
         MP!Unindex, Map!remove_empty_price_level, MP!remove_empty_price_level, Map!RemoveAt,
         MP!RemoveAt
<1> QED
  BY <1>1, <1>4, <1>5, <1>7, <1>8, <1>9

\* The words of CommonProofs mean the same in the engine's proofs.
LEMMA MapBooks ==
  /\ \A P, b : (MP!IsBook(P, b) <=> IsBook(P, b)) /\ (MP!OnePlace(P, b) <=> OnePlace(P, b))
  /\ \A P, b, id : MP!RestsIn(P, b, id) <=> RestsIn(P, b, id)
  /\ \A P, b, id, c : MP!Leaves(P, b, id, c) <=> Leaves(P, b, id, c)
<1>1. \A P, b : (MP!IsBook(P, b) <=> IsBook(P, b)) /\ (MP!OnePlace(P, b) <=> OnePlace(P, b))
  BY MapWords DEF MP!IsBook, IsBook, MP!OnePlace, OnePlace
<1>2. \A P, b, id : MP!RestsIn(P, b, id) <=> RestsIn(P, b, id)
  BY MapWords DEF MP!RestsIn, RestsIn
<1>3. /\ \A q, i : MP!RemoveAt(q, i) = RemoveAt(q, i)
      /\ \A b, s, p, c : MP!Put(b, s, p, c) = Put(b, s, p, c)
  BY DEF MP!RemoveAt, RemoveAt, MP!Put, Put
<1>4. \A P, b, id, c : MP!Leaves(P, b, id, c) <=> Leaves(P, b, id, c)
  BY <1>3, MapWords DEF MP!Leaves, Leaves
<1> QED
  BY <1>1, <1>2, <1>4

\* Nor do its rounds differ.
LEMMA MapRounds ==
  /\ \A P, b, k, c, l, r : MP!Round(P, b, k, c, l, r) <=> Round(P, b, k, c, l, r)
  /\ \A P, b, k : MP!Stuck(P, b, k) <=> Stuck(P, b, k)
  /\ \A b, k : MP!Settled(b, k) = Settled(b, k)
<1>1. /\ \A s, p, q : MP!Better(s, p, q) <=> Better(s, p, q)
      /\ \A b, s, p, c : MP!Put(b, s, p, c) = Put(b, s, p, c)
  BY DEF MP!Better, Better, MP!Bid, Bid, MP!Put, Put
<1>2. /\ \A P, b, s, p : MP!BestIn(P, b, s, p) <=> BestIn(P, b, s, p)
      /\ \A k, p : MP!Reaches(k, p) <=> Reaches(k, p)
  BY <1>1, MapWords DEF MP!BestIn, BestIn, MP!Reaches, Reaches
<1>3. \A P, b, k, p : MP!MatchesIn(P, b, k, p) <=> MatchesIn(P, b, k, p)
  BY <1>2, MapWords DEF MP!MatchesIn, MatchesIn
<1>4. /\ \A q, k : MP!Lot(q, k) = Lot(q, k)
      /\ \A q, k : MP!QueueAfter(q, k) = QueueAfter(q, k)
  BY DEF MP!Lot, Lot, MP!QueueAfter, QueueAfter
<1>5. ASSUME NEW b, NEW k, NEW c, NEW l, NEW r, NEW p
      PROVE  MP!RoundAt(b, k, c, l, r, p) <=> RoundAt(b, k, c, l, r, p)
  BY <1>1, <1>4, MapWords
  DEF MP!RoundAt, RoundAt, MP!TradeAt, TradeAt, MP!BookAfter, BookAfter, MP!TakerAfter, TakerAfter
<1>6. \A P, b, k, c, l, r : MP!Round(P, b, k, c, l, r) <=> Round(P, b, k, c, l, r)
  BY <1>3, <1>5 DEF MP!Round, Round
<1>7. \A P, b, k : MP!Stuck(P, b, k) <=> Stuck(P, b, k)
  BY <1>3 DEF MP!Stuck, Stuck
<1>8. \A b, k : MP!Settled(b, k) = Settled(b, k)
  BY <1>1 DEF MP!Settled, Settled
<1> QED
  BY <1>6, <1>7, <1>8

-----------------------------------------------------------------------------
(* Its view, step by step.                                                 *)

\* What it shows of itself.
MapView == [book |-> Wide(AllPrices, Prices, MP!TheBook), taker |-> MP!TheTaker,
            trades |-> MP!TheTrades, reply |-> m_reply]

\* The fields of the view, before a step and after.
LEMMA MapViewIs ==
  /\ MapView.book = Wide(AllPrices, Prices, MP!TheBook) /\ MapView.taker = MP!TheTaker
  /\ MapView.trades = MP!TheTrades /\ MapView.reply = m_reply
  /\ MapView'.book = Wide(AllPrices, Prices, MP!TheBook') /\ MapView'.taker = MP!TheTaker'
  /\ MapView'.trades = MP!TheTrades' /\ MapView'.reply = m_reply'
  /\ IsBook(Prices, MP!TheBook) /\ Prices \in SUBSET AllPrices
<1>1. IsBook(Prices, MP!TheBook)
  BY MP!BookIsBook, MapAssumptions, MapBooks
<1>2. MapView'.book = Wide(AllPrices, Prices, MP!TheBook')
  BY DEF MapView, Wide, AllPrices, Ladder!LadderPrices
<1> QED
  BY <1>1, <1>2, PricesKnown DEF MapView

\* The view shows whether a submit is under way, and its trades are a list.
LEMMA MapViewTypes ==
  ASSUME MP!IInv
  PROVE  (MapView.taker = Nil <=> m_call = Nil) /\ Listed(MapView)
<1>1. MP!TheTaker = Nil <=> m_call = Nil
  <2>1. m_call # Nil => MP!TheTaker # Nil
    BY MP!TakerIs, MapAssumptions
  <2> QED
    BY <2>1 DEF MP!TheTaker
<1>2. PICK n \in Nat : DOMAIN m_executed = 1 .. n
  <2>1. m_executed \in Seq(MP!Trades)
    BY DEF MP!IInv, MP!TypeOK
  <2> QED
    BY <2>1, LenProperties
<1>3. PICK T : T = {MP!ToTradeRec(m_executed[i]) : i \in 1 .. n}
  OBVIOUS
<1>4. MP!TheTrades \in [1 .. n -> T]
  BY <1>2, <1>3 DEF MP!TheTrades
<1>5. MP!TheTrades \in Seq(T)
  BY <1>4, MP!FunctionIsSeq, MapAssumptions
<1> QED
  BY <1>1, <1>5, MapViewIs DEF Listed

\* It does not change with the levels unchanged.
LEMMA MapStill ==
  ASSUME m_levels' = m_levels
  PROVE  MapView'.book = MapView.book
<1>1. MP!TheBook' = MP!TheBook
  BY MP!BookUnchanged, MapAssumptions
<1> QED
  BY <1>1, MapViewIs

\* Nothing of it changes while the ladder engine works.
LEMMA MapIdle ==
  ASSUME MP!IInv, UNCHANGED m_vars
  PROVE  MP!IInv' /\ MapView' = MapView
<1>1. MP!IInv'
  <2>1. UNCHANGED MP!vars
    BY DEF m_vars, MP!vars
  <2> QED
    BY <2>1, MP!InvStep, MapAssumptions
<1>2. MP!TheTaker' = MP!TheTaker /\ MP!TheTrades' = MP!TheTrades /\ m_reply' = m_reply
  BY DEF m_vars, MP!TheTaker, MP!TheTrades
<1>3. MP!TheBook' = MP!TheBook
  BY MP!BookUnchanged, MapAssumptions DEF m_vars
<1>4. Wide(AllPrices, Prices, MP!TheBook)' = Wide(AllPrices, Prices, MP!TheBook)
  BY <1>3 DEF Wide, AllPrices, Ladder!LadderPrices
<1> QED
  BY <1>1, <1>2, <1>4 DEF MapView

\* The engine takes an order,
LEMMA MapTakes ==
  ASSUME MP!IInv, NEW id \in Ids, NEW side \in Sides, NEW price \in Prices,
         NEW qty \in Quantities, Map!Submit(id, side, price, qty)
  PROVE  /\ MP!IInv' /\ m_order_map[id] = Nil
         /\ Took(MapView, MapView', [id |-> id, side |-> side, price |-> price, qty |-> qty])
<1>1. MP!Submit(id, side, price, qty)
  BY SameMap
<1>2. MP!IInv'
  BY <1>1, MP!SubmitInv, MapAssumptions, MapWords
<1>3. MP!Book!Submit(id, side, price, qty)
  BY <1>1, <1>2, MP!SubmitBook, MapAssumptions, MapWords
<1>4. m_levels' = m_levels /\ m_order_map[id] = Nil /\ m_reply' = "none" /\ m_executed' = <<>>
  BY <1>1 DEF MP!Submit
<1>5. MP!TheTrades' = <<>>
  BY <1>4, MP!NoTrades, MapAssumptions
<1>6. MP!TheTaker' = [id |-> id, side |-> side, price |-> price, qty |-> qty]
  BY <1>3, Zenon DEF MP!Book!Submit, MP!TheTaker
<1>7. [id |-> id, side |-> side, price |-> price, qty |-> qty] # Nil
  <2>1. [id |-> id, side |-> side, price |-> price, qty |-> qty] \in MP!Book!Takers
    BY MapAssumptions
    DEF MP!Book!Takers, MP!Book!Sides, MP!Book!Bid, MP!Book!Ask, Sides, Bid, Ask
  <2> QED
    BY <2>1, MapAssumptions
<1> QED
  BY <1>2, <1>4, <1>5, <1>6, <1>7, MapStill, MapViewIs DEF Took

\* or gives an answer and changes nothing.
LEMMA MapQuiet ==
  ASSUME MP!IInv, UNCHANGED <<m_levels, m_order_map, m_call>>, m_call = Nil, m_executed' = <<>>,
         m_reply' \in Replies
  PROVE  MP!IInv' /\ Answered(MapView, MapView', m_reply')
<1>1. MP!TheTrades' = <<>>
  BY MP!NoTrades, MapAssumptions
<1>2. MP!IInv'
  BY MapWords
  DEF MP!IInv, MP!TypeOK, MP!LevelsGood, MP!IndexExact, MP!CallOnTrack, MP!Keys, MP!Listed
<1>3. MP!TheTaker' = Nil
  BY DEF MP!TheTaker
<1> QED
  BY <1>1, <1>2, <1>3, MapStill, MapViewIs DEF Answered

\* A step of its loop is a round of its book,
LEMMA MapFills ==
  ASSUME MP!IInv, MP!Fill
  PROVE  MP!IInv' /\ Filled(MapView, MapView')
<1>1. MP!IInv'
  BY MP!FillInv, MapAssumptions
<1>2. PICK r : /\ MP!Round(Prices, MP!TheBook, MP!TheTaker, MP!TheBook', MP!TheTaker', r)
               /\ MP!TheTrades' = Append(MP!TheTrades, r)
  BY <1>1, MP!FillRound, MapAssumptions
<1>3. PICK b, k, b2, k2 :
        b = MP!TheBook /\ k = MP!TheTaker /\ b2 = MP!TheBook' /\ k2 = MP!TheTaker'
  OBVIOUS
<1>4. Round(Prices, b, k, b2, k2, r)
  BY <1>2, <1>3, MapRounds
<1>5. Round(AllPrices, Wide(AllPrices, Prices, b), k, Wide(AllPrices, Prices, b2), k2, r)
  BY <1>3, <1>4, MapViewIs, WideRound
<1>6. m_call # Nil /\ m_call' # Nil /\ m_reply' = m_reply
  <2>1. PICK s, p, l, result, left, at : MP!FillEffect(s, p, l, result, left, at)
    BY MP!FillFacts, MapAssumptions
  <2> QED
    BY <2>1 DEF MP!FillEffect, MP!Fill
<1>7. k # Nil /\ k2 # Nil
  <2>1. k # Nil
    BY <1>3, <1>6, MapViewTypes, MapViewIs
  <2>2. m_call' \in MP!Calls
    BY <1>1, <1>6 DEF MP!IInv, MP!TypeOK
  <2>3. MP!TheTaker' = [id |-> m_call'.order_id, side |-> m_call'.side, price |-> m_call'.price,
                        qty |-> m_call'.remaining]
    BY <1>6 DEF MP!TheTaker
  <2>4. MP!TheTaker' \in MP!Book!Takers
    BY <2>2, <2>3
    DEF MP!Calls, MP!Book!Takers, MP!Book!Sides, MP!Book!Bid, MP!Book!Ask, MP!Sides, MP!Bid, MP!Ask
  <2> QED
    BY <1>3, <2>1, <2>4, MapAssumptions
<1> QED
  BY <1>1, <1>2, <1>3, <1>5, <1>6, <1>7, MapViewIs DEF Filled

\* and when the loop ends the book allows no further round.
LEMMA MapEnds ==
  ASSUME MP!IInv, MP!Finish
  PROVE  MP!IInv' /\ Ended(MapView, MapView')
<1>1. MP!IInv'
  BY MP!FinishInv, MapAssumptions
<1>2. /\ MP!Stuck(Prices, MP!TheBook, MP!TheTaker)
      /\ MP!TheBook' = MP!Settled(MP!TheBook, MP!TheTaker)
      /\ MP!TheTaker.side \in MP!Sides /\ MP!TheTaker.price \in Prices
  BY MP!FinishSettles, MapAssumptions
<1>3. PICK b, k, b2 : b = MP!TheBook /\ k = MP!TheTaker /\ b2 = MP!TheBook'
  OBVIOUS
<1>4. Stuck(Prices, b, k) /\ b2 = Settled(b, k) /\ k.side \in Sides /\ k.price \in Prices
  BY <1>2, <1>3, MapRounds, MapWords
<1>5. Stuck(AllPrices, Wide(AllPrices, Prices, b), k)
  BY <1>3, <1>4, MapViewIs, WideStuck
<1>6. Wide(AllPrices, Prices, Settled(b, k)) = Settled(Wide(AllPrices, Prices, b), k)
  BY <1>3, <1>4, MapViewIs, WideSettled
<1>7. /\ m_call # Nil /\ MP!TheTaker' = Nil /\ m_reply' = "Success"
      /\ MP!TheTrades' = MP!TheTrades
  BY DEF MP!Finish, MP!TheTrades, MP!TheTaker
<1>8. k # Nil
  BY <1>3, <1>7, MapViewTypes, MapViewIs
<1> QED
  BY <1>1, <1>3, <1>4, <1>5, <1>6, <1>7, <1>8, MapViewIs DEF Ended

\* A cancel takes the order of that id out of the book.
LEMMA MapRemoves ==
  ASSUME MP!IInv, NEW id \in Ids, MP!CancelOrder(id)
  PROVE  MP!IInv' /\ Removed(MapView, MapView', id)
<1>1. MP!IInv'
  BY MP!CancelInv, MapAssumptions
<1>2. MP!Leaves(Prices, MP!TheBook, id, MP!TheBook')
  BY MP!CancelLeaves, MapAssumptions
<1>3. PICK b, b2 : b = MP!TheBook /\ b2 = MP!TheBook'
  OBVIOUS
<1>4. Leaves(Prices, b, id, b2)
  BY <1>2, <1>3, MapBooks
<1>5. Leaves(AllPrices, Wide(AllPrices, Prices, b), id, Wide(AllPrices, Prices, b2))
  BY <1>3, <1>4, MapViewIs, WideLeaves
<1>6. MP!TheTaker' = Nil /\ m_reply' = "Cancelled" /\ m_executed' = <<>>
  BY DEF MP!CancelOrder, MP!TheTaker
<1>7. MP!TheTrades' = <<>>
  BY <1>6, MP!NoTrades, MapAssumptions
<1> QED
  BY <1>1, <1>3, <1>5, <1>6, <1>7, MapViewIs DEF Removed

\* The index knows the ids that rest, each of them at one place.
LEMMA MapKnows ==
  ASSUME MP!IInv, NEW id \in Ids
  PROVE  m_order_map[id] # Nil <=> RestsIn(AllPrices, MapView.book, id)
<1>1. m_order_map[id] # Nil <=> MP!RestsIn(Prices, MP!TheBook, id)
  BY MP!RestingIsKnown, MapAssumptions
<1>2. PICK b : b = MP!TheBook
  OBVIOUS
<1>3. RestsIn(AllPrices, Wide(AllPrices, Prices, b), id) <=> RestsIn(Prices, b, id)
  BY MapViewIs, WideRests
<1> QED
  BY <1>1, <1>2, <1>3, MapBooks, MapViewIs

\* No id rests at two places.
LEMMA MapRestsOnce ==
  ASSUME MP!IInv
  PROVE  OnePlace(AllPrices, MapView.book)
<1>1. PICK b : b = MP!TheBook
  OBVIOUS
<1>2. OnePlace(Prices, b)
  BY <1>1, MP!RestsOnce, MapAssumptions, MapBooks
<1>3. OnePlace(AllPrices, Wide(AllPrices, Prices, b))
  BY <1>2, MapViewIs, WideOnePlace
<1> QED
  BY <1>1, <1>3, MapViewIs

\* What it answers to a new order, behind its feed,
LEMMA FeedAnswers ==
  ASSUME MP!IInv, NEW id \in Ids, NEW side \in Sides, NEW price \in Prices,
         NEW qty \in Quantities, MapFeed(id, side, price, qty), m_call = Nil
  PROVE  /\ MP!IInv'
         /\ Replied(MapView, MapView', [id |-> id, side |-> side, price |-> price, qty |-> qty],
                    FeedFault(id, qty))
<1>1. CASE FeedFault(id, qty) = "none"
  BY <1>1, MapTakes DEF MapFeed, Replied
<1>2. CASE FeedFault(id, qty) # "none"
  <2>1. /\ m_reply' = FeedFault(id, qty) /\ m_executed' = <<>>
        /\ UNCHANGED <<m_levels, m_order_map, m_call>>
    BY <1>2 DEF MapFeed
  <2>2. FeedFault(id, qty) \in Replies
    BY DEF FeedFault, Replies, Rejections
  <2>3. MP!IInv' /\ Answered(MapView, MapView', m_reply')
    BY <2>1, <2>2, MapQuiet
  <2> QED
    BY <1>2, <2>1, <2>3 DEF Replied
<1> QED
  BY <1>1, <1>2

\* and without it.
RawFault(id) == IF m_order_map[id] # Nil THEN "DuplicateId" ELSE "none"

\* The raw engine takes the order unless its id is known.
LEMMA RawAnswers ==
  ASSUME MP!IInv, NEW id \in Ids, NEW side \in Sides, NEW price \in Prices,
         NEW qty \in Quantities, MapRaw(id, side, price, qty)
  PROVE  /\ MP!IInv'
         /\ Replied(MapView, MapView', [id |-> id, side |-> side, price |-> price, qty |-> qty],
                    RawFault(id))
<1>1. CASE Map!Submit(id, side, price, qty)
  BY <1>1, MapTakes DEF Replied, RawFault
<1>2. CASE Map!SubmitDuplicate(id)
  <2>1. MP!SubmitDuplicate(id)
    BY <1>2, SameMap
  <2>2. MP!IInv' /\ Answered(MapView, MapView', m_reply')
    BY <2>1, MapQuiet DEF MP!SubmitDuplicate, Replies, Rejections
  <2> QED
    BY <2>1, <2>2 DEF MP!SubmitDuplicate, Replied, RawFault
<1> QED
  BY <1>1, <1>2 DEF MapRaw

-----------------------------------------------------------------------------
(* The ladder engine, with what is proved of it.                           *)

LP == INSTANCE BitmapEngineProofs WITH
  pool <- b_pool, ladder <- b_ladder, bits <- b_bits, id_to_idx <- b_id_to_idx,
  call <- b_call, executed_trades <- b_trades, reply <- b_reply

\* The assumptions under which its theorems hold.
LEMMA LadderAssumptions ==
  /\ Prices \subseteq Nat /\ LP!IsFiniteSet(Prices) /\ Quantities \subseteq Nat
  /\ ZeroId \notin OrderIds /\ WordBits \in Nat \ {0} /\ MaxLoad \in Nat
  /\ MinPrice \in Nat /\ MaxPrice \in Nat /\ MinPrice <= MaxPrice /\ TickSize \in Nat \ {0}
  /\ Capacity \in Nat \ {0} /\ Nil \notin LP!OrderIndices /\ Nil \notin LP!Calls
<1>1. Nil \notin LP!OrderIndices /\ Nil \notin LP!Calls
  BY NilAssumption
  DEF LP!OrderIndices, Ladder!OrderIndices, LP!Calls, Ladder!Calls, LP!LadderPrices,
      Ladder!LadderPrices, LP!index_to_price, Ladder!index_to_price, LP!Index!SlotIndices,
      Ladder!Index!SlotIndices, LP!NumSlots, Ladder!NumSlots, LP!Sides, Ladder!Sides, LP!Bid,
      Ladder!Bid, LP!Ask, Ladder!Ask
<1>2. LP!IsFiniteSet(Prices)
  BY PricesAssumption DEF IsFiniteSet, LP!IsFiniteSet
<1> QED
  BY <1>1, <1>2, PricesAssumption, QuantitiesAssumption, ZeroIdAssumption, SizesAssumption,
     LadderAssumption

\* One vocabulary.
LEMMA LadderWords ==
  /\ LP!Bid = Bid /\ LP!Ask = Ask /\ LP!Sides = Sides /\ LP!Replies = Replies /\ LP!Ids = Ids
  /\ LP!LadderPrices = Ladder!LadderPrices
  /\ \A s : LP!Opposite(s) = Opposite(s)
BY DEF LP!Bid, Bid, LP!Ask, Ask, LP!Sides, Sides, LP!Replies, Replies, LP!Rejections, Rejections,
       LP!Ids, Ids, LP!Opposite, Opposite, LP!LadderPrices, Ladder!LadderPrices,
       LP!index_to_price, Ladder!index_to_price, LP!Index!SlotIndices, Ladder!Index!SlotIndices,
       LP!NumSlots, Ladder!NumSlots

\* The steps of the ladder engine are those its proofs are about.
LEMMA SameLadder ==
  /\ Ladder!Init => LP!Init
  /\ \A id, side, price, qty :
       Ladder!Submit(id, side, price, qty) => LP!Submit(id, side, price, qty)
  /\ \A id, price, qty : Ladder!Refuse(id, price, qty) => LP!Refuse(id, price, qty)
  /\ Ladder!Fill => LP!Fill
  /\ Ladder!Finish => LP!Finish
  /\ \A id : Ladder!CancelOrder(id) => LP!CancelOrder(id)
  /\ \A id : Ladder!CancelMissing(id) => LP!CancelMissing(id)
<1>1. Ladder!Init => LP!Init
  BY DEF Ladder!Init, LP!Init, Ladder!Sides, LP!Sides, Ladder!Bid, LP!Bid, Ladder!Ask, LP!Ask,
         Ladder!NewPool, LP!NewPool, Ladder!BlankOrder, LP!BlankOrder, Ladder!OrderIndices,
         LP!OrderIndices, Ladder!EmptyLevel, LP!EmptyLevel, Ladder!Index!SlotIndices,
         LP!Index!SlotIndices, Ladder!NumSlots, LP!NumSlots, Ladder!Index!EmptyBitmap,
         LP!Index!EmptyBitmap, Ladder!Index!L1Size, LP!Index!L1Size, Ladder!Index!L2Size,
         LP!Index!L2Size, Ladder!Index!L3Size, LP!Index!L3Size, Ladder!Index!WordCount,
         LP!Index!WordCount, Ladder!Ids, LP!Ids
<1>2. /\ \A p : Ladder!OnLadder(p) <=> LP!OnLadder(p)
      /\ \A p : Ladder!price_to_index(p) = LP!price_to_index(p)
      /\ \A i : Ladder!index_to_price(i) = LP!index_to_price(i)
      /\ \A s : Ladder!Opposite(s) = LP!Opposite(s)
  <2>1. \A p : Ladder!OnLadder(p) <=> LP!OnLadder(p)
    BY DEF Ladder!OnLadder, LP!OnLadder
  <2>2. \A p : Ladder!price_to_index(p) = LP!price_to_index(p)
    BY DEF Ladder!price_to_index, LP!price_to_index
  <2>3. \A i : Ladder!index_to_price(i) = LP!index_to_price(i)
    BY DEF Ladder!index_to_price, LP!index_to_price
  <2>4. \A s : Ladder!Opposite(s) = LP!Opposite(s)
    BY DEF Ladder!Opposite, LP!Opposite, Ladder!Bid, LP!Bid, Ladder!Ask, LP!Ask
  <2> QED
    BY <2>1, <2>2, <2>3, <2>4
<1>20. /\ \A p : Ladder!is_full(p) <=> LP!is_full(p)
       /\ Ladder!MapFull <=> LP!MapFull
  <2>1. \A p : Ladder!is_full(p) <=> LP!is_full(p)
    BY DEF Ladder!is_full, LP!is_full
  <2>2. Ladder!MapFull <=> LP!MapFull
    <3>1. \A S : Ladder!Cardinality(S) = LP!Cardinality(S)
      BY DEF Ladder!Cardinality, LP!Cardinality
    <3> QED
      BY <3>1 DEF Ladder!MapFull, LP!MapFull, Ladder!Ids, LP!Ids
  <2> QED
    BY <2>1, <2>2
<1>21. ASSUME NEW id, NEW price, NEW qty
       PROVE  Ladder!Refusal(id, price, qty) = LP!Refusal(id, price, qty)
  BY <1>2, <1>20, Zenon DEF Ladder!Refusal, LP!Refusal
<1>3. /\ \A id, side, price, qty :
           Ladder!Submit(id, side, price, qty) => LP!Submit(id, side, price, qty)
      /\ \A id, price, qty : Ladder!Refuse(id, price, qty) => LP!Refuse(id, price, qty)
      /\ \A id : Ladder!CancelMissing(id) => LP!CancelMissing(id)
  BY <1>2, <1>21 DEF Ladder!Submit, LP!Submit, Ladder!Refuse, LP!Refuse, Ladder!CancelMissing,
         LP!CancelMissing, Ladder!book, LP!book
<1>4. /\ \A s : Ladder!BestSlot(s) = LP!BestSlot(s)
      /\ Ladder!Index!NoSlot = LP!Index!NoSlot
  BY DEF Ladder!BestSlot, LP!BestSlot, Ladder!Bid, LP!Bid, Ladder!Ask, LP!Ask,
         Ladder!Index!find_best_bid_idx, LP!Index!find_best_bid_idx,
         Ladder!Index!find_best_ask_idx, LP!Index!find_best_ask_idx, Ladder!Index!NonZero,
         LP!Index!NonZero, Ladder!Index!HighestBit, LP!Index!HighestBit, Ladder!Index!LowestBit,
         LP!Index!LowestBit, Ladder!Index!NoSlot, LP!Index!NoSlot, Ladder!Index!Max,
         LP!Index!Max, Ladder!Index!Min, LP!Index!Min, Ladder!NumSlots, LP!NumSlots
<1>5. Ladder!Matches <=> LP!Matches
  BY <1>2, <1>4 DEF Ladder!Matches, LP!Matches, Ladder!Bid, LP!Bid
<1>6. /\ \A l : Ladder!front(l) = LP!front(l) /\ (Ladder!is_empty(l) <=> LP!is_empty(l))
      /\ \A l, p : Ladder!pop_front(l, p) = LP!pop_front(l, p)
      /\ \A l, i, p : Ladder!unlink(l, i, p) = LP!unlink(l, i, p)
      /\ \A l, i, p : Ladder!push_back(l, i, p) = LP!push_back(l, i, p)
      /\ \A p, i : Ladder!deallocate(p, i) = LP!deallocate(p, i)
      /\ \A p, o : Ladder!allocate(p, o) = LP!allocate(p, o)
      /\ \A p : Ladder!allocated(p) = LP!allocated(p)
  BY DEF Ladder!front, LP!front, Ladder!is_empty, LP!is_empty, Ladder!pop_front, LP!pop_front,
         Ladder!unlink, LP!unlink, Ladder!push_back, LP!push_back, Ladder!deallocate,
         LP!deallocate, Ladder!allocate, LP!allocate, Ladder!allocated, LP!allocated,
         Ladder!SetNext, LP!SetNext, Ladder!SetPrev, LP!SetPrev, Ladder!SetLinks, LP!SetLinks,
         Ladder!bypassed, LP!bypassed
<1>7. /\ \A bm, i : Ladder!Index!set_bit_hierarchical(bm, i) = LP!Index!set_bit_hierarchical(bm, i)
      /\ \A bm, i : Ladder!Index!clear_bit_hierarchical(bm, i)
                      = LP!Index!clear_bit_hierarchical(bm, i)
  BY DEF Ladder!Index!set_bit_hierarchical, LP!Index!set_bit_hierarchical,
         Ladder!Index!clear_bit_hierarchical, LP!Index!clear_bit_hierarchical,
         Ladder!Index!SetBit, LP!Index!SetBit, Ladder!Index!ClearBit, LP!Index!ClearBit,
         Ladder!Index!WordOf, LP!Index!WordOf, Ladder!Index!BitOf, LP!Index!BitOf
<1>8. \A s, k, i, id, r : Ladder!Release(s, k, i, id, r) <=> LP!Release(s, k, i, id, r)
  BY <1>6, <1>7 DEF Ladder!Release, LP!Release, Ladder!Forget, LP!Forget
<1>9. \A s, k, i, n : Ladder!Reduce(s, k, i, n) <=> LP!Reduce(s, k, i, n)
  BY DEF Ladder!Reduce, LP!Reduce
<1>10. Ladder!Fill => LP!Fill
  BY <1>2, <1>4, <1>5, <1>6, <1>8, <1>9
  DEF Ladder!Fill, LP!Fill, Ladder!LeftAfter, LP!LeftAfter
<1>11. Ladder!Finish => LP!Finish
  BY <1>2, <1>5, <1>6, <1>7
  DEF Ladder!Finish, LP!Finish, Ladder!add_resting_order, LP!add_resting_order, Ladder!book, LP!book
<1>12. \A id : Ladder!CancelOrder(id) => LP!CancelOrder(id)
  BY <1>2, <1>6, <1>8 DEF Ladder!CancelOrder, LP!CancelOrder
<1> QED
  BY <1>1, <1>3, <1>10, <1>11, <1>12

\* The words of CommonProofs mean the same in the engine's proofs.
LEMMA LadderBooks ==
  /\ \A P, b : LP!IsBook(P, b) <=> IsBook(P, b)
  /\ \A P, b, id : LP!RestsIn(P, b, id) <=> RestsIn(P, b, id)
  /\ \A P, b, id, c : LP!Leaves(P, b, id, c) <=> Leaves(P, b, id, c)
<1>1. \A P, b : LP!IsBook(P, b) <=> IsBook(P, b)
  BY LadderWords DEF LP!IsBook, IsBook
<1>2. \A P, b, id : LP!RestsIn(P, b, id) <=> RestsIn(P, b, id)
  BY LadderWords DEF LP!RestsIn, RestsIn
<1>3. /\ \A q, i : LP!RemoveAt(q, i) = RemoveAt(q, i)
      /\ \A b, s, p, c : LP!Put(b, s, p, c) = Put(b, s, p, c)
  BY DEF LP!RemoveAt, RemoveAt, LP!Put, Put
<1>4. \A P, b, id, c : LP!Leaves(P, b, id, c) <=> Leaves(P, b, id, c)
  BY <1>3, LadderWords DEF LP!Leaves, Leaves
<1> QED
  BY <1>1, <1>2, <1>4

\* Nor do its rounds differ.
LEMMA LadderRounds ==
  /\ \A P, b, k, c, l, r : LP!Round(P, b, k, c, l, r) <=> Round(P, b, k, c, l, r)
  /\ \A P, b, k : LP!Stuck(P, b, k) <=> Stuck(P, b, k)
  /\ \A b, k : LP!Settled(b, k) = Settled(b, k)
<1>1. /\ \A s, p, q : LP!Better(s, p, q) <=> Better(s, p, q)
      /\ \A b, s, p, c : LP!Put(b, s, p, c) = Put(b, s, p, c)
  BY DEF LP!Better, Better, LP!Bid, Bid, LP!Put, Put
<1>2. /\ \A P, b, s, p : LP!BestIn(P, b, s, p) <=> BestIn(P, b, s, p)
      /\ \A k, p : LP!Reaches(k, p) <=> Reaches(k, p)
  BY <1>1, LadderWords DEF LP!BestIn, BestIn, LP!Reaches, Reaches
<1>3. \A P, b, k, p : LP!MatchesIn(P, b, k, p) <=> MatchesIn(P, b, k, p)
  BY <1>2, LadderWords DEF LP!MatchesIn, MatchesIn
<1>4. /\ \A q, k : LP!Lot(q, k) = Lot(q, k)
      /\ \A q, k : LP!QueueAfter(q, k) = QueueAfter(q, k)
  BY DEF LP!Lot, Lot, LP!QueueAfter, QueueAfter
<1>5. ASSUME NEW b, NEW k, NEW c, NEW l, NEW r, NEW p
      PROVE  LP!RoundAt(b, k, c, l, r, p) <=> RoundAt(b, k, c, l, r, p)
  BY <1>1, <1>4, LadderWords
  DEF LP!RoundAt, RoundAt, LP!TradeAt, TradeAt, LP!BookAfter, BookAfter, LP!TakerAfter, TakerAfter
<1>6. \A P, b, k, c, l, r : LP!Round(P, b, k, c, l, r) <=> Round(P, b, k, c, l, r)
  BY <1>3, <1>5 DEF LP!Round, Round
<1>7. \A P, b, k : LP!Stuck(P, b, k) <=> Stuck(P, b, k)
  BY <1>3 DEF LP!Stuck, Stuck
<1>8. \A b, k : LP!Settled(b, k) = Settled(b, k)
  BY <1>1 DEF LP!Settled, Settled
<1> QED
  BY <1>6, <1>7, <1>8

\* A price the ladder accepts is the price of one of its slots.
LEMMA LadderPricesAre ==
  ASSUME NEW p \in Nat
  PROVE  LP!OnLadder(p) <=> p \in Ladder!LadderPrices
<1>1. ASSUME LP!OnLadder(p) PROVE p \in Ladder!LadderPrices
  <2>1. LP!price_to_index(p) \in LP!PriceSlots /\ LP!index_to_price(LP!price_to_index(p)) = p
    BY <1>1, LP!LadderArithmetic, LadderAssumptions
  <2> QED
    BY <2>1, LadderWords DEF LP!LadderPrices, LP!PriceSlots
<1>2. ASSUME p \in Ladder!LadderPrices PROVE LP!OnLadder(p)
  <2>1. PICK k \in LP!Index!SlotIndices : p = MinPrice + k * TickSize
    BY <1>2, LadderWords DEF LP!LadderPrices, LP!index_to_price
  <2>2. PICK n, t : n = (MaxPrice - MinPrice) \div TickSize /\ t = TickSize
    OBVIOUS
  <2>3. t \in Nat /\ t > 0 /\ MaxPrice \in Nat /\ MinPrice \in Nat /\ MinPrice <= MaxPrice
    BY <2>2, LadderAssumptions
  <2>4. n \in Nat /\ n * t <= MaxPrice - MinPrice /\ k \in 0 .. n
    <3>1. n \in Nat
      BY <2>2, <2>3
    <3>2. n * t <= MaxPrice - MinPrice
      BY <2>2, <2>3
    <3>3. k \in 0 .. (n + 1) - 1
      BY <2>1, <2>2 DEF LP!Index!SlotIndices, LP!NumSlots
    <3> QED
      BY <3>1, <3>2, <3>3
  <2>5. k \in Nat /\ k <= n
    BY <2>4
  <2>6. k * t <= n * t /\ k * t \in Nat /\ n * t \in Nat
    BY <2>3, <2>4, <2>5
  <2>7. (k * t) % t = 0
    BY <2>3, <2>5
  <2>8. PICK x, e : x = k * t /\ e = n * t
    OBVIOUS
  <2>9. /\ x \in Nat /\ e \in Nat /\ x <= e /\ e <= MaxPrice - MinPrice /\ x % t = 0
        /\ p = MinPrice + x
    BY <2>1, <2>2, <2>4, <2>6, <2>7, <2>8
  <2>10. p - MinPrice = x /\ p >= MinPrice /\ p <= MaxPrice
    BY <2>3, <2>9
  <2> QED
    BY <2>2, <2>9, <2>10 DEF LP!OnLadder
<1> QED
  BY <1>1, <1>2

-----------------------------------------------------------------------------
(* Its view, step by step.                                                 *)

\* What it shows of itself.
LadderView == [book |-> Wide(AllPrices, Ladder!LadderPrices, LP!TheBook), taker |-> b_call,
               trades |-> b_trades, reply |-> b_reply]

\* The fields of the view, before a step and after.
LEMMA LadderViewIs ==
  /\ LadderView.book = Wide(AllPrices, Ladder!LadderPrices, LP!TheBook)
  /\ LadderView.taker = b_call /\ LadderView.trades = b_trades /\ LadderView.reply = b_reply
  /\ LadderView'.book = Wide(AllPrices, Ladder!LadderPrices, LP!TheBook')
  /\ LadderView'.taker = b_call' /\ LadderView'.trades = b_trades' /\ LadderView'.reply = b_reply'
  /\ IsBook(Ladder!LadderPrices, LP!TheBook) /\ Ladder!LadderPrices \in SUBSET AllPrices
<1>1. IsBook(Ladder!LadderPrices, LP!TheBook)
  BY LP!BookIsBook, LadderAssumptions, LadderBooks, LadderWords
<1>2. LadderView'.book = Wide(AllPrices, Ladder!LadderPrices, LP!TheBook')
  BY DEF LadderView, Wide, AllPrices, Ladder!LadderPrices
<1> QED
  BY <1>1, <1>2, PricesKnown DEF LadderView

\* It does not change with the levels and the pool unchanged.
LEMMA LadderStill ==
  ASSUME UNCHANGED <<b_pool, b_ladder>>
  PROVE  LadderView'.book = LadderView.book
<1>1. LP!TheBook' = LP!TheBook
  BY LP!BookUnchanged, LadderAssumptions
<1> QED
  BY <1>1, LadderViewIs

\* Nothing of it changes while the map engine works.
LEMMA LadderIdle ==
  ASSUME LP!IInv, UNCHANGED b_vars
  PROVE  LP!IInv' /\ LadderView' = LadderView
<1>1. LP!IInv'
  <2>1. UNCHANGED LP!vars
    BY DEF b_vars, LP!vars
  <2> QED
    BY <2>1, LP!InvStep, LadderAssumptions
<1>2. LP!TheBook' = LP!TheBook
  BY LP!BookUnchanged, LadderAssumptions DEF b_vars
<1>3. Wide(AllPrices, Ladder!LadderPrices, LP!TheBook)'
        = Wide(AllPrices, Ladder!LadderPrices, LP!TheBook)
  BY <1>2 DEF Wide, AllPrices, Ladder!LadderPrices
<1> QED
  BY <1>1, <1>3 DEF LadderView, b_vars

\* The engine takes an order or gives an answer and changes nothing.
LEMMA LadderTakes ==
  ASSUME LP!IInv, NEW id \in Ids, NEW side \in Sides, NEW price \in Prices,
         NEW qty \in Quantities, Ladder!Submit(id, side, price, qty)
  PROVE  /\ LP!IInv' /\ LP!Refusal(id, price, qty) = "none"
         /\ Took(LadderView, LadderView',
                 [id |-> id, side |-> side, price |-> price, qty |-> qty])
<1>1. LP!Submit(id, side, price, qty)
  BY SameLadder
<1>2. LP!IInv'
  BY <1>1, LP!SubmitKeeps, LadderAssumptions, LadderWords
<1>3. /\ b_call' = [id |-> id, side |-> side, price |-> price, qty |-> qty]
      /\ b_trades' = <<>> /\ b_reply' = "none" /\ UNCHANGED <<b_pool, b_ladder>>
      /\ LP!Refusal(id, price, qty) = "none"
  BY <1>1 DEF LP!Submit, LP!book
<1>4. id \in OrderIds /\ LP!OnLadder(price) /\ price \in Nat /\ qty \in Nat
  BY <1>3, LadderAssumptions DEF LP!Refusal, Ids
<1>5. [id |-> id, side |-> side, price |-> price, qty |-> qty] \in LP!Calls
  BY <1>4, LadderPricesAre, LadderWords DEF LP!Calls
<1> QED
  BY <1>2, <1>3, <1>5, LadderAssumptions, LadderStill, LadderViewIs DEF Took

\* A refusal changes nothing but the answer.
LEMMA LadderQuiet ==
  ASSUME LP!IInv, UNCHANGED <<b_pool, b_ladder, b_bits, b_id_to_idx, b_call>>, b_call = Nil,
         b_trades' = <<>>, b_reply' \in Replies
  PROVE  LP!IInv' /\ Answered(LadderView, LadderView', b_reply')
<1>1. LP!IInv'
  BY LP!RefusalKeeps, LadderAssumptions, LadderWords DEF LP!book
<1> QED
  BY <1>1, LadderStill, LadderViewIs DEF Answered

\* A step of its loop is a round of its book,
LEMMA LadderFills ==
  ASSUME LP!IInv, LP!Fill
  PROVE  LP!IInv' /\ Filled(LadderView, LadderView')
<1>1. LP!IInv'
  BY LP!FillKeeps, LadderAssumptions
<1>2. PICK r : /\ LP!Round(LP!LadderPrices, LP!TheBook, b_call, LP!TheBook', b_call', r)
               /\ b_trades' = Append(b_trades, r)
  BY LP!FillRound, LadderAssumptions
<1>3. PICK b, k, b2, k2 : b = LP!TheBook /\ k = b_call /\ b2 = LP!TheBook' /\ k2 = b_call'
  OBVIOUS
<1>4. Round(Ladder!LadderPrices, b, k, b2, k2, r)
  BY <1>2, <1>3, LadderRounds, LadderWords
<1>5. Round(AllPrices, Wide(AllPrices, Ladder!LadderPrices, b), k,
            Wide(AllPrices, Ladder!LadderPrices, b2), k2, r)
  BY <1>3, <1>4, LadderViewIs, WideRound
<1>6. k # Nil /\ k2 # Nil /\ b_reply' = b_reply
  <2>1. PICK s, j, q, idx, maker, n : LP!FillEffect(s, j, q, idx, maker, n)
    BY LP!FillFacts, LadderAssumptions
  <2>2. b_call \in LP!Calls /\ b_call' \in LP!Calls
    BY <2>1 DEF LP!FillEffect, LP!Calls
  <2> QED
    BY <1>3, <2>2, LadderAssumptions DEF LP!Fill
<1> QED
  BY <1>1, <1>2, <1>3, <1>5, <1>6, LadderViewIs DEF Filled

\* and when the loop ends the book allows no further round.
LEMMA LadderEnds ==
  ASSUME LP!IInv, LP!Finish
  PROVE  LP!IInv' /\ Ended(LadderView, LadderView')
<1>1. LP!IInv'
  BY LP!FinishKeeps, LadderAssumptions
<1>2. /\ LP!Stuck(LP!LadderPrices, LP!TheBook, b_call)
      /\ LP!TheBook' = LP!Settled(LP!TheBook, b_call)
      /\ b_call.side \in LP!Sides /\ b_call.price \in LP!LadderPrices
  BY LP!FinishSettles, LadderAssumptions
<1>3. PICK b, k, b2 : b = LP!TheBook /\ k = b_call /\ b2 = LP!TheBook'
  OBVIOUS
<1>4. /\ Stuck(Ladder!LadderPrices, b, k) /\ b2 = Settled(b, k) /\ k.side \in Sides
      /\ k.price \in Ladder!LadderPrices
  BY <1>2, <1>3, LadderRounds, LadderWords
<1>5. Stuck(AllPrices, Wide(AllPrices, Ladder!LadderPrices, b), k)
  BY <1>3, <1>4, LadderViewIs, WideStuck
<1>6. Wide(AllPrices, Ladder!LadderPrices, Settled(b, k))
        = Settled(Wide(AllPrices, Ladder!LadderPrices, b), k)
  BY <1>3, <1>4, LadderViewIs, WideSettled
<1>7. b_call # Nil /\ b_call' = Nil /\ b_reply' = "Success" /\ b_trades' = b_trades
  BY DEF LP!Finish
<1> QED
  BY <1>1, <1>3, <1>4, <1>5, <1>6, <1>7, LadderViewIs DEF Ended

\* A cancel takes the order of that id out of the book.
LEMMA LadderRemoves ==
  ASSUME LP!IInv, NEW id \in Ids, LP!CancelOrder(id)
  PROVE  LP!IInv' /\ Removed(LadderView, LadderView', id)
<1>1. LP!IInv'
  BY LP!CancelKeeps, LadderAssumptions, LadderWords
<1>2. LP!Leaves(LP!LadderPrices, LP!TheBook, id, LP!TheBook')
  BY LP!CancelLeaves, LadderAssumptions, LadderWords
<1>3. PICK b, b2 : b = LP!TheBook /\ b2 = LP!TheBook'
  OBVIOUS
<1>4. Leaves(Ladder!LadderPrices, b, id, b2)
  BY <1>2, <1>3, LadderBooks, LadderWords
<1>5. Leaves(AllPrices, Wide(AllPrices, Ladder!LadderPrices, b), id,
             Wide(AllPrices, Ladder!LadderPrices, b2))
  BY <1>3, <1>4, LadderViewIs, WideLeaves
<1>6. b_call' = Nil /\ b_reply' = "Cancelled" /\ b_trades' = <<>>
  BY DEF LP!CancelOrder
<1> QED
  BY <1>1, <1>3, <1>5, <1>6, LadderViewIs DEF Removed

\* The id map knows the ids that rest.
LEMMA LadderKnows ==
  ASSUME LP!IInv, NEW id \in Ids
  PROVE  b_id_to_idx[id] # Nil <=> RestsIn(AllPrices, LadderView.book, id)
<1>1. b_id_to_idx[id] # Nil <=> LP!RestsIn(LP!LadderPrices, LP!TheBook, id)
  BY LP!RestingIsKnown, LadderAssumptions, LadderWords
<1>2. PICK b : b = LP!TheBook
  OBVIOUS
<1>3. RestsIn(AllPrices, Wide(AllPrices, Ladder!LadderPrices, b), id)
        <=> RestsIn(Ladder!LadderPrices, b, id)
  BY LadderViewIs, WideRests
<1> QED
  BY <1>1, <1>2, <1>3, LadderBooks, LadderWords, LadderViewIs

-----------------------------------------------------------------------------
(* The invariant: what is proved of each engine, and how their views stand.*)

DiffInv == MP!IInv /\ LP!IInv /\ InStep(MapView, LadderView, LadderOnly)

\* No definition the views are compared by depends on the state.
LEMMA InStepLater ==
  ASSUME NEW m, NEW l, NEW only, m = MapView', l = LadderView', only = LadderOnly',
         InStep(m, l, only), MP!IInv', LP!IInv'
  PROVE  DiffInv'
<1>1. AllPrices' = AllPrices /\ Rejections' = Rejections /\ Nil' = Nil
  BY DEF AllPrices, Ladder!LadderPrices, Rejections
<1> QED
  BY <1>1 DEF DiffInv, InStep, Level, Matching, Stopped, LadderAt

\* Two empty engines are in step.
LEMMA DiffInit == Init => DiffInv
<1> SUFFICES ASSUME Init PROVE DiffInv
  OBVIOUS
<1>1. MP!Init /\ LP!Init
  BY SameMap, SameLadder DEF Init
<1>2. MP!IInv /\ LP!IInv
  BY <1>1, MP!InitInv, LP!InitInv, MapAssumptions, LadderAssumptions
<1>3. /\ m_call = Nil /\ b_call = Nil /\ m_reply = b_reply
      /\ m_executed = <<>> /\ b_trades = <<>>
  BY <1>1 DEF MP!Init, LP!Init
<1>4. MP!TheTrades = <<>> /\ MP!TheTaker = Nil
  BY <1>3, MP!NoTrades, MapAssumptions DEF MP!TheTaker
<1>5. MapView.book = LadderView.book
  <2>1. MP!Book!Init /\ LP!Book!Init
    BY <1>1, MP!InitBook, LP!InitBook, MapAssumptions, LadderAssumptions
  <2>2. MP!TheBook = [s \in MP!Book!Sides |-> [p \in Prices |-> <<>>]]
    BY <2>1, Zenon DEF MP!Book!Init, MP!TheBook
  <2>3. LP!TheBook = [s \in LP!Book!Sides |-> [p \in LP!LadderPrices |-> <<>>]]
    BY <2>1, Zenon DEF LP!Book!Init, LP!TheBook
  <2>4. PICK b, c : b = MP!TheBook /\ c = LP!TheBook
    OBVIOUS
  <2>5. /\ \A s \in Sides, p \in Prices : b[s][p] = <<>>
        /\ \A s \in Sides, p \in Ladder!LadderPrices : c[s][p] = <<>>
    BY <2>2, <2>3, <2>4, LadderWords
    DEF MP!Book!Sides, MP!Book!Bid, MP!Book!Ask, LP!Book!Sides, LP!Book!Bid, LP!Book!Ask, Sides,
        Bid, Ask
  <2>6. Wide(AllPrices, Prices, b) = Wide(AllPrices, Ladder!LadderPrices, c)
    BY <2>5 DEF Wide
  <2> QED
    BY <2>4, <2>6, MapViewIs, LadderViewIs
<1>6. InStep(MapView, LadderView, LadderOnly)
  BY <1>3, <1>4, <1>5, MapViewIs, LadderViewIs, Alongside
<1> QED
  BY <1>2, <1>6 DEF DiffInv

\* Both indexes know the same ids when the books are the same.
LEMMA SameIds ==
  ASSUME MP!IInv, LP!IInv, MapView.book = LadderView.book, NEW id \in Ids
  PROVE  m_order_map[id] = Nil <=> b_id_to_idx[id] = Nil
<1>1. PICK w : w = MapView.book
  OBVIOUS
<1>2. m_order_map[id] # Nil <=> RestsIn(AllPrices, w, id)
  BY <1>1, MapKnows
<1>3. b_id_to_idx[id] # Nil <=> RestsIn(AllPrices, w, id)
  BY <1>1, LadderKnows
<1> QED
  BY <1>2, <1>3

\* Where an event may come, the views are level.
LEMMA LevelBefore ==
  ASSUME DiffInv, Compared
  PROVE  MP!IInv /\ LP!IInv /\ MapView.book = LadderView.book /\ m_call = Nil /\ b_call = Nil
<1>1. PICK m, l, only : m = MapView /\ l = LadderView /\ only = LadderOnly
  OBVIOUS
<1>2. /\ MP!IInv /\ LP!IInv /\ InStep(m, l, only)
      /\ m.taker = Nil /\ l.taker = Nil /\ (Accepts(m.reply) <=> Accepts(l.reply))
  BY <1>1, MapViewTypes, MapViewIs, LadderViewIs DEF DiffInv, Compared, Done
<1>3. Level(m, l, only)
  BY <1>2, ComparedLevel
<1> QED
  BY <1>1, <1>2, <1>3 DEF Level, Compared, Done

\* What the ladder engine answers to a new order.
LEMMA LadderAnswers ==
  ASSUME LP!IInv, NEW id \in Ids, NEW side \in Sides, NEW price \in Prices,
         NEW qty \in Quantities, LadderNew(id, side, price, qty)
  PROVE  /\ LP!IInv'
         /\ Replied(LadderView, LadderView',
                    [id |-> id, side |-> side, price |-> price, qty |-> qty],
                    LP!Refusal(id, price, qty))
<1>1. CASE Ladder!Submit(id, side, price, qty)
  BY <1>1, LadderTakes DEF Replied
<1>2. CASE Ladder!Refuse(id, price, qty)
  <2>1. LP!Refuse(id, price, qty)
    BY <1>2, SameLadder
  <2>2. LP!Refusal(id, price, qty) \in Replies
    BY DEF LP!Refusal, Replies, Rejections
  <2>3. LP!IInv' /\ Answered(LadderView, LadderView', b_reply')
    BY <2>1, <2>2, LadderQuiet DEF LP!Refuse, LP!book
  <2> QED
    BY <2>1, <2>3 DEF LP!Refuse, Replied
<1> QED
  BY <1>1, <1>2 DEF LadderNew

\* The answers fit, behind the feed,
LEMMA FeedKeeps ==
  ASSUME DiffInv, NEW id \in Ids, NEW side \in Sides, NEW price \in Prices,
         NEW qty \in Quantities, FeedNew(id, side, price, qty)
  PROVE  DiffInv'
<1>1. MP!IInv /\ LP!IInv /\ MapView.book = LadderView.book /\ m_call = Nil
  BY LevelBefore DEF FeedNew
<1>2. PICK f, r, k, only : /\ f = FeedFault(id, qty) /\ r = LP!Refusal(id, price, qty)
                           /\ k = [id |-> id, side |-> side, price |-> price, qty |-> qty]
                           /\ only = LadderOnly'
  OBVIOUS
<1>3. PICK m, l, m2, l2 :
        m = MapView /\ l = LadderView /\ m2 = MapView' /\ l2 = LadderView'
  OBVIOUS
<1>4. /\ MP!IInv' /\ LP!IInv' /\ Replied(m, m2, k, f) /\ Replied(l, l2, k, r)
  BY <1>1, <1>2, <1>3, FeedAnswers, LadderAnswers DEF FeedNew
<1>5. m_order_map[id] = Nil <=> b_id_to_idx[id] = Nil
  BY <1>1, SameIds
<1>6. only = {"PriceOutOfBounds", "EngineFull"}
  BY <1>2 DEF LadderOnly, FeedNew
<1>7. Fits(f, r, only)
  BY <1>2, <1>5, <1>6 DEF FeedFault, LP!Refusal, Fits, SameAnswer, Rejections
<1>8. InStep(m2, l2, only)
  BY <1>1, <1>3, <1>4, <1>7, NewOrder
<1> QED
  BY <1>2, <1>3, <1>4, <1>8, InStepLater

\* and without it.
LEMMA RawKeeps ==
  ASSUME DiffInv, NEW id \in Ids, NEW side \in Sides, NEW price \in Prices,
         NEW qty \in Quantities, RawNew(id, side, price, qty)
  PROVE  DiffInv'
<1>1. MP!IInv /\ LP!IInv /\ MapView.book = LadderView.book
  BY LevelBefore DEF RawNew
<1>2. PICK f, r, k, only : /\ f = RawFault(id) /\ r = LP!Refusal(id, price, qty)
                           /\ k = [id |-> id, side |-> side, price |-> price, qty |-> qty]
                           /\ only = LadderOnly'
  OBVIOUS
<1>3. PICK m, l, m2, l2 :
        m = MapView /\ l = LadderView /\ m2 = MapView' /\ l2 = LadderView'
  OBVIOUS
<1>4. /\ MP!IInv' /\ LP!IInv' /\ Replied(m, m2, k, f) /\ Replied(l, l2, k, r)
  BY <1>1, <1>2, <1>3, RawAnswers, LadderAnswers DEF RawNew
<1>5. m_order_map[id] = Nil <=> b_id_to_idx[id] = Nil
  BY <1>1, SameIds
<1>6. only = {"PriceOutOfBounds", "EngineFull", "InvalidQuantity", "InvalidOrderId"}
  BY <1>2 DEF LadderOnly, RawNew
<1>7. Fits(f, r, only)
  BY <1>2, <1>5, <1>6 DEF RawFault, LP!Refusal, Fits, SameAnswer, Rejections
<1>8. InStep(m2, l2, only)
  BY <1>1, <1>3, <1>4, <1>7, NewOrder
<1> QED
  BY <1>2, <1>3, <1>4, <1>8, InStepLater

\* A cancel finds its order in both engines or in neither.
LEMMA CancelKeepsInv ==
  ASSUME DiffInv, NEW id \in Ids, Cancel(id)
  PROVE  DiffInv'
<1>1. MP!IInv /\ LP!IInv /\ MapView.book = LadderView.book /\ m_call = Nil /\ b_call = Nil
  BY LevelBefore DEF Cancel
<1>2. m_order_map[id] = Nil <=> b_id_to_idx[id] = Nil
  BY <1>1, SameIds
<1>3. PICK m, l, m2, l2, only :
        m = MapView /\ l = LadderView /\ m2 = MapView' /\ l2 = LadderView' /\ only = LadderOnly'
  OBVIOUS
<1>4. CASE m_order_map[id] = Nil
  <2>1. MP!CancelMissing(id) /\ LP!CancelMissing(id)
    <3>1. ~MP!CancelOrder(id) /\ ~LP!CancelOrder(id)
      BY <1>2, <1>4 DEF MP!CancelOrder, LP!CancelOrder
    <3> QED
      BY <3>1, SameMap, SameLadder DEF Cancel
  <2>2. MP!IInv' /\ Answered(m, m2, "NotFound")
    BY <1>1, <1>3, <2>1, MapQuiet DEF MP!CancelMissing, Replies
  <2>3. LP!IInv' /\ Answered(l, l2, "NotFound")
    BY <1>1, <1>3, <2>1, LadderQuiet DEF LP!CancelMissing, LP!book, Replies
  <2>4. InStep(m2, l2, only)
    BY <1>1, <1>3, <2>2, <2>3, Alongside DEF Answered
  <2> QED
    BY <1>3, <2>2, <2>3, <2>4, InStepLater
<1>5. CASE m_order_map[id] # Nil
  <2>1. MP!CancelOrder(id) /\ LP!CancelOrder(id)
    <3>1. ~MP!CancelMissing(id) /\ ~LP!CancelMissing(id)
      BY <1>2, <1>5 DEF MP!CancelMissing, LP!CancelMissing
    <3> QED
      BY <3>1, SameMap, SameLadder DEF Cancel
  <2>2. MP!IInv' /\ Removed(m, m2, id)
    BY <1>1, <1>3, <2>1, MapRemoves
  <2>3. LP!IInv' /\ Removed(l, l2, id)
    BY <1>1, <1>3, <2>1, LadderRemoves
  <2>4. InStep(m2, l2, only)
    BY <1>1, <1>3, <2>2, <2>3, MapRestsOnce, BothRemove
  <2> QED
    BY <1>3, <2>2, <2>3, <2>4, InStepLater
<1> QED
  BY <1>4, <1>5

\* The steps inside a submit.
LEMMA LadderStepKeeps ==
  ASSUME DiffInv, LadderStep
  PROVE  DiffInv'
<1>1. PICK m, l, l2, only : m = MapView /\ l = LadderView /\ l2 = LadderView' /\ only = LadderOnly
  OBVIOUS
<1>2. MP!IInv /\ LP!IInv /\ InStep(m, l, only)
  BY <1>1 DEF DiffInv
<1>3. LP!IInv' /\ (Filled(l, l2) \/ Ended(l, l2))
  BY <1>1, <1>2, SameLadder, LadderFills, LadderEnds DEF LadderStep
<1>4. MP!IInv' /\ MapView' = m /\ LadderOnly' = only
  BY <1>1, <1>2, MapIdle DEF LadderStep, LadderOnly
<1>5. Listed(l)
  BY <1>1, <1>2, LadderViewIs DEF LP!IInv, Listed
<1>6. InStep(m, l2, only)
  BY <1>2, <1>3, <1>5, LeaderSteps
<1> QED
  BY <1>1, <1>3, <1>4, <1>6, InStepLater

\* The map engine catches up.
LEMMA MapStepKeeps ==
  ASSUME DiffInv, MapStep
  PROVE  DiffInv'
<1>1. PICK m, l, m2, only : m = MapView /\ l = LadderView /\ m2 = MapView' /\ only = LadderOnly
  OBVIOUS
<1>2. MP!IInv /\ LP!IInv /\ InStep(m, l, only)
  BY <1>1 DEF DiffInv
<1>3. MP!IInv' /\ (Filled(m, m2) \/ Ended(m, m2))
  BY <1>1, <1>2, SameMap, MapFills, MapEnds DEF MapStep
<1>4. LP!IInv' /\ LadderView' = l /\ LadderOnly' = only
  BY <1>1, <1>2, LadderIdle DEF MapStep, LadderOnly
<1>5. Listed(l) /\ l.taker = Nil
  BY <1>1, <1>2, LadderViewIs DEF LP!IInv, Listed, MapStep
<1>6. Listed(m)
  BY <1>1, <1>2, MapViewTypes
<1>7. InStep(m2, l, only)
  BY <1>2, <1>3, <1>5, <1>6, FollowerSteps
<1> QED
  BY <1>1, <1>3, <1>4, <1>7, InStepLater

\* Every step keeps the invariant,
LEMMA DiffStep == DiffInv /\ [Next]_vars => DiffInv'
<1> SUFFICES ASSUME DiffInv, [Next]_vars PROVE DiffInv'
  OBVIOUS
<1>1. ASSUME NEW id \in Ids, NEW side \in Sides, NEW price \in Prices, NEW qty \in Quantities,
             FeedNew(id, side, price, qty) \/ RawNew(id, side, price, qty)
      PROVE  DiffInv'
  BY <1>1, FeedKeeps, RawKeeps
<1>2. ASSUME NEW id \in Ids, Cancel(id) PROVE DiffInv'
  BY <1>2, CancelKeepsInv
<1>3. CASE LadderStep
  BY <1>3, LadderStepKeeps
<1>4. CASE MapStep
  BY <1>4, MapStepKeeps
<1>5. CASE UNCHANGED vars
  <2>1. PICK m, l, only : m = MapView /\ l = LadderView /\ only = LadderOnly
    OBVIOUS
  <2>2. /\ MP!IInv' /\ LP!IInv' /\ MapView' = m /\ LadderView' = l /\ LadderOnly' = only
        /\ InStep(m, l, only)
    BY <1>5, <2>1, MapIdle, LadderIdle DEF DiffInv, vars, LadderOnly
  <2> QED
    BY <2>2, InStepLater
<1> QED
  BY <1>1, <1>2, <1>3, <1>4, <1>5 DEF Next

\* so every behaviour does.
LEMMA DiffAlways == Spec => []DiffInv
BY DiffInit, DiffStep, PTL DEF Spec

-----------------------------------------------------------------------------
(* What the checked invariants say.                                        *)

\* After a compared event book, trades and answer are the same.
LEMMA LevelAfter ==
  ASSUME DiffInv, Comparable
  PROVE  /\ MapView.book = LadderView.book /\ MP!TheTrades = b_trades
         /\ SameAnswer(m_reply, b_reply)
<1>1. PICK m, l, only : m = MapView /\ l = LadderView /\ only = LadderOnly
  OBVIOUS
<1>2. InStep(m, l, only) /\ m.taker = Nil /\ l.taker = Nil /\ l.reply \notin only
  BY <1>1, MapViewTypes, LadderViewIs DEF DiffInv, Comparable, Done
<1>3. Level(m, l, only)
  BY <1>2, ComparableLevel
<1> QED
  BY <1>1, <1>2, <1>3, MapViewIs, LadderViewIs DEF Level

\* Whatever came before, an event within the ladder engine's limits has the same
\* answer and the same trades, in the same order and with the same makers, from
\* both engines.
THEOREM AnswersAgreeAlways == Spec => []AnswersAgree
<1>1. ASSUME DiffInv
      PROVE  AnswersAgree
  <2>1. [i \in DOMAIN m_executed |-> Map!ToTradeRec(m_executed[i])] = MP!TheTrades
    BY DEF MP!TheTrades, MP!ToTradeRec, Map!ToTradeRec
  <2> QED
    BY <1>1, <2>1, LevelAfter DEF AnswersAgree, SameAnswer
<1> QED
  BY <1>1, DiffAlways, PTL

\* And then both hold the same orders, with the same quantities, in the same
\* queues.
THEOREM BooksAgreeAlways == Spec => []BooksAgree
<1>1. ASSUME DiffInv, Comparable, NEW side \in Sides, NEW price \in Prices
      PROVE  Map!BookOf(side, price) =
               IF Ladder!OnLadder(price) THEN Ladder!QueueAtPrice(side, price) ELSE <<>>
  <2>1. PICK b, c : b = MP!TheBook /\ c = LP!TheBook
    OBVIOUS
  <2>2. Wide(AllPrices, Prices, b) = Wide(AllPrices, Ladder!LadderPrices, c)
    BY <1>1, <2>1, LevelAfter, MapViewIs, LadderViewIs
  <2>3. price \in AllPrices /\ price \in Nat
    BY PricesAssumption DEF AllPrices
  <2>4. b[side][price] = IF price \in Ladder!LadderPrices THEN c[side][price] ELSE <<>>
    <3>1. Wide(AllPrices, Prices, b)[side][price] = b[side][price]
      BY <2>3, WideAt
    <3>2. Wide(AllPrices, Ladder!LadderPrices, c)[side][price] =
            IF price \in Ladder!LadderPrices THEN c[side][price] ELSE <<>>
      BY <2>3, WideAt
    <3> QED
      BY <2>2, <3>1, <3>2
  <2>5. Map!BookOf(side, price) = b[side][price]
    <3>1. Map!BookOf(side, price) = MP!BookOf(side, price)
      BY DEF Map!BookOf, MP!BookOf
    <3> QED
      BY <2>1, <3>1, MapWords DEF MP!TheBook
  <2>6. price \in Ladder!LadderPrices => Ladder!QueueAtPrice(side, price) = c[side][price]
    <3>1. \A S : Ladder!Cardinality(S) = LP!Cardinality(S)
      BY DEF Ladder!Cardinality, LP!Cardinality
    <3>2. \A P, i : Ladder!Chain(P, i) = LP!Chain(P, i)
      BY <3>1 DEF Ladder!Chain, LP!Chain
    <3>3. Ladder!price_to_index(price) = LP!price_to_index(price)
      BY DEF Ladder!price_to_index, LP!price_to_index
    <3>4. Ladder!QueueAtPrice(side, price) = LP!QueueAtPrice(side, price)
      BY <3>2, <3>3 DEF Ladder!QueueAtPrice, LP!QueueAtPrice, Ladder!Queue, LP!Queue
    <3> QED
      BY <2>1, <3>4, LadderWords DEF LP!TheBook
  <2>7. Ladder!OnLadder(price) <=> price \in Ladder!LadderPrices
    BY <2>3, LadderPricesAre DEF Ladder!OnLadder, LP!OnLadder
  <2> QED
    BY <2>4, <2>5, <2>6, <2>7
<1>2. DiffInv => BooksAgree
  BY <1>1 DEF BooksAgree
<1> QED
  BY <1>2, DiffAlways, PTL

=============================================================================
