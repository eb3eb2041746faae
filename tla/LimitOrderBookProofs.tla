------------------------ MODULE LimitOrderBookProofs ------------------------
(***************************************************************************)
(* Proofs about LimitOrderBook, for every set of ids, prices and           *)
(* quantities.                                                             *)
(***************************************************************************)
EXTENDS LimitOrderBook, CommonProofs

(***************************************************************************)
(* Queues.  A queue that lost orders, or quantity of its orders, thins the *)
(* queue it was: its orders are orders of the old queue, in the same order *)
(* of arrival.                                                             *)
(***************************************************************************)
Thins(new, old) ==
  \E f \in [DOMAIN new -> DOMAIN old] :
    \A i \in DOMAIN new :
      /\ new[i].id = old[f[i]].id
      /\ \A j \in DOMAIN new : i < j => f[i] < f[j]

\* A queue thins itself.
LEMMA ThinsItself ==
  ASSUME NEW q \in Seq(Makers)
  PROVE  Thins(q, q)
<1> DEFINE f == [i \in DOMAIN q |-> i]
<1>1. f \in [DOMAIN q -> DOMAIN q]
  OBVIOUS
<1>2. \A i \in DOMAIN q : /\ q[i].id = q[f[i]].id
                          /\ \A j \in DOMAIN q : i < j => f[i] < f[j]
  OBVIOUS
<1> QED
  BY <1>1, <1>2 DEF Thins

\* A trade of at most the front order's quantity leaves a queue, and thins it.
LEMMA AfterFillThins ==
  ASSUME NEW q \in Seq(Makers), q # <<>>,
         NEW n \in Nat \ {0}, n <= Head(q).qty
  PROVE  /\ AfterFill(q, n) \in Seq(Makers)
         /\ Thins(AfterFill(q, n), q)
<1>1. Head(q) = q[1] /\ q[1] \in Makers /\ 1 \in DOMAIN q
  BY EmptySeq, LenProperties, ElementOfSeq
<1>2. CASE n = Head(q).qty
  <2> DEFINE t == Tail(q)
             f == [i \in DOMAIN t |-> i + 1]
  <2>1. /\ t \in Seq(Makers) /\ Len(t) = Len(q) - 1
        /\ \A i \in 1 .. Len(t) : t[i] = q[i + 1]
    BY HeadTailProperties
  <2>2. DOMAIN t = 1 .. Len(q) - 1 /\ DOMAIN q = 1 .. Len(q) /\ Len(q) \in Nat
    BY <2>1, LenProperties
  <2>3. f \in [DOMAIN t -> DOMAIN q]
    BY <2>2
  <2>4. \A i \in DOMAIN t : /\ t[i].id = q[f[i]].id
                            /\ \A j \in DOMAIN t : i < j => f[i] < f[j]
    BY <2>1, <2>2
  <2>5. AfterFill(q, n) = t
    BY <1>2 DEF AfterFill
  <2> QED
    BY <2>1, <2>3, <2>4, <2>5 DEF Thins
<1>3. CASE n # Head(q).qty
  <2> DEFINE e == [q[1] EXCEPT !.qty = @ - n]
             t == [q EXCEPT ![1] = e]
             f == [i \in DOMAIN t |-> i]
  <2>1. q[1].qty \in Nat /\ q[1].qty - n \in Nat \ {0}
    BY <1>1, <1>3 DEF Makers
  <2>2. e \in Makers /\ e.id = q[1].id
    BY <1>1, <2>1 DEF Makers
  <2>3. t \in Seq(Makers) /\ DOMAIN t = DOMAIN q
    BY <1>1, <2>2, ExceptSeq, LenProperties
  <2>4. f \in [DOMAIN t -> DOMAIN q]
    BY <2>3
  <2>5. \A i \in DOMAIN t : /\ t[i].id = q[f[i]].id
                            /\ \A j \in DOMAIN t : i < j => f[i] < f[j]
    BY <2>2, <2>3, LenProperties
  <2>6. AfterFill(q, n) = t
    BY <1>1, <1>3 DEF AfterFill
  <2> HIDE DEF e, t, f
  <2>7. Thins(t, q)
    BY <2>4, <2>5 DEF Thins
  <2> QED
    BY <2>3, <2>6, <2>7
<1> QED
  BY <1>2, <1>3

\* So does a cancel, wherever the order stands.
LEMMA RemoveAtThins ==
  ASSUME NEW q \in Seq(Makers), NEW k \in DOMAIN q
  PROVE  /\ RemoveAt(q, k) \in Seq(Makers)
         /\ Thins(RemoveAt(q, k), q)
<1> DEFINE t == RemoveAt(q, k)
           f == [i \in DOMAIN t |-> IF i < k THEN i ELSE i + 1]
<1>1. Len(q) \in Nat /\ DOMAIN q = 1 .. Len(q)
  BY LenProperties
<1>2. /\ t \in Seq(Makers) /\ DOMAIN t = 1 .. Len(q) - 1
      /\ \A i \in DOMAIN t : t[i] = q[f[i]]
  BY RemoveAtProperties
<1> HIDE DEF t
<1>3. f \in [DOMAIN t -> DOMAIN q]
  BY <1>1, <1>2
<1>4. \A i \in DOMAIN t : /\ t[i].id = q[f[i]].id
                          /\ \A j \in DOMAIN t : i < j => f[i] < f[j]
  BY <1>1, <1>2
<1>5. Thins(t, q)
  BY <1>3, <1>4 DEF Thins
<1> QED
  BY <1>2, <1>5 DEF t

-----------------------------------------------------------------------------
(***************************************************************************)
(* Steps.  Fill and Cancel thin the queues; Finish is the only step that   *)
(* adds an order.                                                          *)
(***************************************************************************)
Books == [Sides -> [Prices -> Seq(Makers)]]

BookThins == \A s \in Sides, p \in Prices : Thins(book'[s][p], book[s][p])

\* Replacing one queue by one that thins it thins the book.
LEMMA ReplacingThins ==
  ASSUME book \in Books, NEW s \in Sides, NEW p \in Prices,
         NEW q \in Seq(Makers), Thins(q, book[s][p]),
         book' = [book EXCEPT ![s][p] = q]
  PROVE  book' \in Books /\ BookThins
<1>1. book' \in Books
  BY DEF Books
<1>2. ASSUME NEW t \in Sides, NEW r \in Prices
      PROVE  Thins(book'[t][r], book[t][r])
  <2>1. CASE t = s /\ r = p
    <3>1. book'[t][r] = q
      BY <2>1 DEF Books
    <3> QED
      BY <2>1, <3>1
  <2>2. CASE ~(t = s /\ r = p)
    <3>1. book'[t][r] = book[t][r] /\ book[t][r] \in Seq(Makers)
      BY <2>2 DEF Books
    <3> QED
      BY <3>1, ThinsItself
  <2> QED
    BY <2>1, <2>2
<1> QED
  BY <1>1, <1>2 DEF BookThins

\* What a Fill does: a trade of a positive quantity, and thinner queues.
LEMMA FillStep ==
  ASSUME TypeOK, Fill
  PROVE  /\ book' \in Books /\ BookThins
         /\ trades' \in Seq(TradeRecs(OrderIds, Prices))
         /\ taker' \in Takers /\ taker'.id = taker.id
<1>1. taker \in Takers /\ Opposite(taker.side) \in Sides
  BY DEF TypeOK, Fill, Takers, Opposite, Sides
<1> DEFINE side == Opposite(taker.side)
<1>2. PICK p \in Prices :
        LET maker == Head(book[side][p])
            n     == TradeQty(maker)
        IN  /\ MatchesAt(p)
            /\ trades' = Append(trades, [maker_id |-> maker.id, taker_id |-> taker.id,
                                         price |-> p, qty |-> n])
            /\ book' = [book EXCEPT ![side][p] = AfterFill(@, n)]
            /\ taker' = [taker EXCEPT !.qty = @ - n]
  BY DEF Fill
<1> DEFINE q == book[side][p]
           maker == Head(q)
           n == TradeQty(maker)
<1>3. q \in Seq(Makers) /\ q # <<>> /\ taker.qty > 0
  BY <1>1, <1>2 DEF TypeOK, MatchesAt, IsBest, Live
<1>4. maker \in Makers
  BY <1>3, HeadTailProperties
<1>5. taker.qty \in Nat /\ maker.qty \in Nat \ {0} /\ taker.id \in OrderIds /\ maker.id \in OrderIds
  BY <1>1, <1>4 DEF Takers, Makers
<1>6. n \in Nat \ {0} /\ n <= maker.qty /\ n <= taker.qty
  BY <1>3, <1>5 DEF TradeQty
<1>7. AfterFill(q, n) \in Seq(Makers) /\ Thins(AfterFill(q, n), q)
  BY <1>3, <1>6, AfterFillThins
<1>8. book' \in Books /\ BookThins
  <2>1. book \in Books
    BY DEF TypeOK, Books
  <2>2. book' = [book EXCEPT ![side][p] = AfterFill(q, n)]
    BY <1>2
  <2> HIDE DEF n, maker, q
  <2>3. Thins(AfterFill(q, n), book[side][p])
    BY <1>7 DEF q
  <2> QED
    BY <1>1, <1>7, <2>1, <2>2, <2>3, ReplacingThins
<1>9. trades' \in Seq(TradeRecs(OrderIds, Prices))
  <2> DEFINE rec == [maker_id |-> maker.id, taker_id |-> taker.id, price |-> p, qty |-> n]
  <2>1. rec \in TradeRecs(OrderIds, Prices)
    BY <1>5, <1>6 DEF TradeRecs
  <2>2. trades' = Append(trades, rec)
    BY <1>2
  <2> QED
    BY <2>1, <2>2, AppendProperties DEF TypeOK
<1>10. taker' \in Takers /\ taker'.id = taker.id
  <2>1. taker' = [taker EXCEPT !.qty = @ - n] /\ taker.qty - n \in Nat
    BY <1>2, <1>5, <1>6
  <2> HIDE DEF n
  <2> QED
    BY <1>1, <2>1 DEF Takers
<1> QED
  BY <1>8, <1>9, <1>10

\* A Cancel thins the queues as well.
LEMMA CancelStep ==
  ASSUME TypeOK, NEW id \in OrderIds, Cancel(id)
  PROVE  book' \in Books /\ BookThins
<1>1. PICK s \in Sides, p \in Prices : \E i \in DOMAIN book[s][p] :
        book' = [book EXCEPT ![s][p] = RemoveAt(@, i)]
  BY DEF Cancel
<1>2. PICK i \in DOMAIN book[s][p] : book' = [book EXCEPT ![s][p] = RemoveAt(@, i)]
  BY <1>1
<1>3. book \in Books /\ book[s][p] \in Seq(Makers)
  BY DEF TypeOK, Books
<1>4. RemoveAt(book[s][p], i) \in Seq(Makers) /\ Thins(RemoveAt(book[s][p], i), book[s][p])
  BY <1>3, RemoveAtThins
<1>5. book' = [book EXCEPT ![s][p] = RemoveAt(book[s][p], i)]
  BY <1>2
<1> QED
  BY <1>3, <1>4, <1>5, ReplacingThins

\* The queue the remainder joins, when there is one.
LEMMA FinishStep ==
  ASSUME TypeOK, Finish
  PROVE  /\ taker \in Takers /\ book' \in Books
         /\ taker.qty = 0 => book' = book
         /\ taker.qty > 0 =>
              book' = [book EXCEPT ![taker.side][taker.price] =
                         Append(book[taker.side][taker.price], [id |-> taker.id, qty |-> taker.qty])]
<1>1. taker \in Takers /\ book \in Books
  BY DEF TypeOK, Finish, Books
<1>2. /\ taker.qty \in Nat /\ taker.id \in OrderIds
      /\ taker.side \in Sides /\ taker.price \in Prices
  BY <1>1 DEF Takers
<1> DEFINE q == book[taker.side][taker.price]
           e == [id |-> taker.id, qty |-> taker.qty]
<1>3. q \in Seq(Makers)
  BY <1>1, <1>2 DEF Books
<1>4. CASE taker.qty > 0
  <2>1. e \in Makers
    BY <1>2, <1>4 DEF Makers
  <2>2. Append(q, e) \in Seq(Makers)
    BY <1>3, <2>1, AppendProperties
  <2>3. book' = [book EXCEPT ![taker.side][taker.price] = Append(q, e)]
    BY <1>4 DEF Finish, Rested
  <2>4. book' \in Books
    <3> HIDE DEF q, e
    <3> QED
      BY <1>1, <1>2, <2>2, <2>3 DEF Books
  <2> QED
    BY <1>1, <1>4, <2>3, <2>4
<1>5. CASE taker.qty = 0
  <2>1. book' = book
    BY <1>5 DEF Finish, Rested
  <2> QED
    BY <1>1, <1>5, <2>1
<1> QED
  BY <1>2, <1>4, <1>5

-----------------------------------------------------------------------------
\* The state keeps its shape in every step; in particular no order of quantity 0
\* ever rests.
LEMMA TypeStep ==
  ASSUME TypeOK, [Next]_vars
  PROVE  TypeOK'
<1>1. ASSUME NEW id \in OrderIds, NEW side \in Sides, NEW price \in Prices,
             NEW qty \in Quantities, Submit(id, side, price, qty)
      PROVE  TypeOK'
  BY <1>1, QuantitiesAssumption, EmptySeq DEF TypeOK, Submit, Takers, Replies
<1>2. ASSUME NEW id \in OrderIds, NEW why \in Rejections, Reject(id, why)
      PROVE  TypeOK'
  BY <1>2, EmptySeq DEF TypeOK, Reject, Replies
<1>3. CASE Fill
  BY <1>3, FillStep DEF TypeOK, Fill, Books
<1>4. CASE Finish
  BY <1>4, FinishStep DEF TypeOK, Finish, Books, Replies
<1>5. ASSUME NEW id \in OrderIds, Cancel(id)
      PROVE  TypeOK'
  BY <1>5, CancelStep, EmptySeq DEF TypeOK, Cancel, Books, Replies
<1>6. ASSUME NEW id \in OrderIds, CancelMissing(id)
      PROVE  TypeOK'
  BY <1>6, EmptySeq DEF TypeOK, CancelMissing, Replies
<1>7. CASE UNCHANGED vars
  BY <1>7 DEF TypeOK, vars
<1> QED
  BY <1>1, <1>2, <1>3, <1>4, <1>5, <1>6, <1>7 DEF Next

\* The type invariant: submit, fill, rest and cancel (map_engine/orderbook.cpp:
\* 8-115) keep every queue a sequence of orders with quantity left.
THEOREM TypeCorrect == Spec => []TypeOK
<1>1. Init => TypeOK
  BY EmptySeq DEF Init, TypeOK, Replies
<1> QED
  BY <1>1, TypeStep, PTL DEF Spec

-----------------------------------------------------------------------------
\* A book that thins has no live price it did not have.
LEMMA ThinsLive ==
  ASSUME book' \in Books, BookThins, NEW s \in Sides
  PROVE  Live(s)' \subseteq Live(s)
<1> SUFFICES ASSUME NEW p \in Prices, book[s][p] = <<>>
             PROVE  book'[s][p] = <<>>
  BY DEF Live
<1>1. PICK f \in [DOMAIN book'[s][p] -> DOMAIN book[s][p]] : TRUE
  BY DEF BookThins, Thins
<1>2. DOMAIN book[s][p] = {}
  OBVIOUS
<1>3. DOMAIN book'[s][p] = {}
  BY <1>1, <1>2
<1>4. book'[s][p] \in Seq(Makers)
  BY DEF Books
<1>5. Len(book'[s][p]) \in Nat /\ 1 .. Len(book'[s][p]) = {}
  BY <1>3, <1>4, LenProperties
<1>6. Len(book'[s][p]) = 0
  BY <1>5
<1> QED
  BY <1>4, <1>6, EmptySeq

\* An order that comes to rest crosses no live price of the other side.
LEMMA RemainderDoesNotCross ==
  ASSUME TypeOK, Finish, taker.qty > 0,
         NEW q \in Live(Opposite(taker.side))
  PROVE  ~Crosses(taker.side, taker.price, q)
<1> DEFINE opp == Opposite(taker.side)
<1>1. taker \in Takers /\ taker.side \in Sides /\ taker.price \in Nat /\ opp \in Sides
  BY FinishStep, PricesAssumption DEF Takers, Opposite, Sides
<1>2. Live(opp) \in SUBSET Nat /\ IsFiniteSet(Live(opp)) /\ Live(opp) # {}
  <2>1. Live(opp) \in SUBSET Prices
    BY DEF Live
  <2> QED
    BY <2>1, PricesAssumption, FS_Subset
<1>3. PICK p \in Live(opp) : \A r \in Live(opp) : ~Better(opp, r, p)
  BY <1>1, <1>2, BestExists
<1>4. IsBest(opp, p) /\ p \in Prices
  BY <1>3 DEF IsBest, Live
<1>5. ~Crosses(taker.side, taker.price, p)
  BY <1>4 DEF Finish, MatchesAt
<1>6. ~Better(opp, q, p) /\ p \in Nat /\ q \in Nat
  BY <1>2, <1>3
<1> QED
  BY <1>1, <1>5, <1>6 DEF Crosses, Better, Opposite, Sides, Bid, Ask

LEMMA NotCrossedStep ==
  ASSUME TypeOK, NotCrossed, [Next]_vars
  PROVE  NotCrossed'
<1>1. ASSUME book' \in Books, BookThins
      PROVE  NotCrossed'
  BY <1>1, ThinsLive DEF NotCrossed, Sides
<1>2. ASSUME book' = book
      PROVE  NotCrossed'
  BY <1>2 DEF NotCrossed, Live
<1>3. CASE Fill
  BY <1>1, <1>3, FillStep
<1>4. CASE Finish
  <2>1. taker.qty \in Nat /\ taker.side \in Sides /\ taker.price \in Nat
    BY <1>4, FinishStep, PricesAssumption DEF Takers
  <2>2. CASE taker.qty > 0
    <3>1. PICK s \in Sides, v \in Prices, o \in Seq(Makers) :
            /\ s = taker.side /\ v = taker.price
            /\ book' = [book EXCEPT ![s][v] = o]
      <4> DEFINE q == Append(book[taker.side][taker.price], [id |-> taker.id, qty |-> taker.qty])
      <4>1. book' \in Books /\ book' = [book EXCEPT ![taker.side][taker.price] = q]
        BY <1>4, <2>2, FinishStep
      <4>2. taker.side \in Sides /\ taker.price \in Prices
        BY <1>4, FinishStep DEF Takers
      <4> HIDE DEF q
      <4>3. q = book'[taker.side][taker.price]
        BY <4>1, <4>2 DEF TypeOK
      <4>4. q \in Seq(Makers)
        BY <4>1, <4>2, <4>3 DEF Books
      <4> QED
        BY <4>1, <4>2, <4>4
    <3>2. \A t \in Sides, r \in Prices : ~(t = s /\ r = v) => book'[t][r] = book[t][r]
      BY <3>1 DEF TypeOK
    <3>3. \A q \in Live(Opposite(s)) : ~Crosses(s, v, q)
      BY <1>4, <2>2, <3>1, RemainderDoesNotCross
    <3>4. Live(Bid) \subseteq Nat /\ Live(Ask) \subseteq Nat /\ v \in Nat
      BY PricesAssumption DEF Live
    <3>5. CASE s = Bid
      <4>1. \A q \in Live(Ask) : v < q
        BY <3>3, <3>4, <3>5 DEF Crosses, Opposite
      <4>2. Live(Bid)' \subseteq Live(Bid) \cup {v} /\ Live(Ask)' \subseteq Live(Ask)
        BY <3>2, <3>5 DEF Live, Sides, Bid, Ask
      <4> QED
        BY <4>1, <4>2 DEF NotCrossed
    <3>6. CASE s = Ask
      <4>1. \A q \in Live(Bid) : q < v
        BY <3>3, <3>4, <3>6 DEF Crosses, Opposite, Bid, Ask
      <4>2. Live(Ask)' \subseteq Live(Ask) \cup {v} /\ Live(Bid)' \subseteq Live(Bid)
        BY <3>2, <3>6 DEF Live, Sides, Bid, Ask
      <4> QED
        BY <4>1, <4>2 DEF NotCrossed
    <3> QED
      BY <3>5, <3>6 DEF Sides
  <2>3. CASE taker.qty = 0
    BY <1>2, <1>4, <2>3, FinishStep
  <2> QED
    BY <2>1, <2>2, <2>3
<1>5. ASSUME NEW id \in OrderIds, Cancel(id)
      PROVE  NotCrossed'
  BY <1>1, <1>5, CancelStep
<1>6. CASE \/ \E id \in OrderIds, side \in Sides, price \in Prices, qty \in Quantities :
                Submit(id, side, price, qty)
           \/ \E id \in OrderIds, why \in Rejections : Reject(id, why)
           \/ \E id \in OrderIds : CancelMissing(id)
           \/ UNCHANGED vars
  BY <1>2, <1>6 DEF Submit, Reject, CancelMissing, vars
<1> QED
  BY <1>3, <1>4, <1>5, <1>6 DEF Next

\* The book is never crossed: an order comes to rest only when the matching loop
\* (map_engine/orderbook.cpp:37-97) ended because the best opposite price is out
\* of reach, and then all of them are.
THEOREM NeverCrossed == Spec => []NotCrossed
<1>1. Init => NotCrossed
  BY DEF Init, NotCrossed, Live, Sides
<1> QED
  BY <1>1, TypeCorrect, NotCrossedStep, PTL DEF Spec

-----------------------------------------------------------------------------
\* Thinning brings no id to life and gives no id to two orders.
LEMMA ThinsOnce ==
  ASSUME book \in Books, book' \in Books, BookThins
  PROVE  /\ OneOrderPerId => OneOrderPerId'
         /\ \A id \in OrderIds : IsLive(id)' => IsLive(id)
<1>1. ASSUME OneOrderPerId,
             NEW s \in Sides, NEW t \in Sides, NEW p \in Prices, NEW q \in Prices,
             NEW i \in DOMAIN book'[s][p], NEW j \in DOMAIN book'[t][q],
             book'[s][p][i].id = book'[t][q][j].id
      PROVE  s = t /\ p = q /\ i = j
  <2>1. PICK f \in [DOMAIN book'[s][p] -> DOMAIN book[s][p]] :
          \A k \in DOMAIN book'[s][p] :
            /\ book'[s][p][k].id = book[s][p][f[k]].id
            /\ \A l \in DOMAIN book'[s][p] : k < l => f[k] < f[l]
    BY DEF BookThins, Thins
  <2>2. PICK g \in [DOMAIN book'[t][q] -> DOMAIN book[t][q]] :
          \A k \in DOMAIN book'[t][q] : book'[t][q][k].id = book[t][q][g[k]].id
    BY DEF BookThins, Thins
  <2>3. s = t /\ p = q
    BY <1>1, <2>1, <2>2 DEF OneOrderPerId
  <2>4. f[i] = f[j]
    BY <1>1, <2>1, <2>3 DEF OneOrderPerId
  <2>5. i \in Nat /\ j \in Nat
    BY <2>3, LenProperties DEF Books
  <2>6. ~(i < j) /\ ~(j < i)
    <3>1. f[i] \in DOMAIN book[s][p] /\ (i < j => f[i] < f[j]) /\ (j < i => f[j] < f[i])
      BY <2>1, <2>3
    <3>2. f[i] \in Nat
      BY <3>1, LenProperties DEF Books
    <3> QED
      BY <2>4, <3>1, <3>2
  <2> QED
    BY <2>3, <2>5, <2>6
<1>2. ASSUME NEW id \in OrderIds, IsLive(id)'
      PROVE  IsLive(id)
  <2>1. PICK s \in Sides, p \in Prices : \E i \in DOMAIN book'[s][p] : book'[s][p][i].id = id
    BY <1>2 DEF IsLive
  <2>2. PICK i \in DOMAIN book'[s][p] : book'[s][p][i].id = id
    BY <2>1
  <2>3. \E k \in DOMAIN book[s][p] : book[s][p][k].id = id
    BY <2>2 DEF BookThins, Thins
  <2> QED
    BY <2>3 DEF IsLive
<1> QED
  BY <1>1, <1>2 DEF OneOrderPerId

\* What is where after the remainder joined queue (s, v): the orders that were
\* there, at their places, and the taker behind them.
LEMMA RestingStep ==
  ASSUME TypeOK, Finish, taker.qty > 0
  PROVE  \E s \in Sides, v \in Prices :
           /\ \A t \in Sides, r \in Prices :
                ~(t = s /\ r = v) => book'[t][r] = book[t][r]
           /\ DOMAIN book[s][v] = 1 .. Len(book[s][v]) /\ Len(book[s][v]) \in Nat
           /\ DOMAIN book'[s][v] = 1 .. Len(book[s][v]) + 1
           /\ \A i \in 1 .. Len(book[s][v]) : book'[s][v][i] = book[s][v][i]
           /\ book'[s][v][Len(book[s][v]) + 1].id = taker.id
<1> DEFINE e == [id |-> taker.id, qty |-> taker.qty]
<1>1. /\ taker \in Takers /\ book \in Books /\ e \in Makers
      /\ book' = [book EXCEPT ![taker.side][taker.price] =
                    Append(book[taker.side][taker.price], e)]
  <2>1. taker \in Takers /\ book \in Books
    BY FinishStep DEF TypeOK, Books
  <2>2. e \in Makers
    BY <2>1 DEF Takers, Makers
  <2> QED
    BY <2>1, <2>2, FinishStep
<1>2. PICK s \in Sides, v \in Prices : s = taker.side /\ v = taker.price
  BY <1>1 DEF Takers
<1> DEFINE q == book[s][v]
<1>3. q \in Seq(Makers) /\ book' = [book EXCEPT ![s][v] = Append(q, e)]
  BY <1>1, <1>2 DEF Books
<1>4. /\ Append(q, e) \in Seq(Makers) /\ Len(Append(q, e)) = Len(q) + 1
      /\ \A i \in 1 .. Len(q) : Append(q, e)[i] = q[i]
      /\ Append(q, e)[Len(q) + 1] = e
  BY <1>1, <1>3, AppendProperties
<1>5. Len(q) \in Nat /\ DOMAIN q = 1 .. Len(q) /\ DOMAIN Append(q, e) = 1 .. Len(q) + 1
  BY <1>3, <1>4, LenProperties
<1>6. book'[s][v] = Append(q, e)
  BY <1>1, <1>3 DEF Books
<1>7. \A t \in Sides, r \in Prices : ~(t = s /\ r = v) => book'[t][r] = book[t][r]
  BY <1>1, <1>3 DEF Books
<1>8. e.id = taker.id
  OBVIOUS
<1> HIDE DEF e, q
<1>9. /\ \A i \in 1 .. Len(q) : book'[s][v][i] = q[i]
      /\ book'[s][v][Len(q) + 1].id = taker.id
      /\ DOMAIN book'[s][v] = 1 .. Len(q) + 1
  BY <1>4, <1>5, <1>6, <1>8
<1> QED
  BY <1>5, <1>7, <1>9 DEF q

LEMMA LiveOnceStep ==
  ASSUME TypeOK, LiveOnce, [Next]_vars
  PROVE  LiveOnce'
<1>1. book \in Books /\ OneOrderPerId /\ (taker # NoOrder => ~IsLive(taker.id))
  BY DEF TypeOK, Books, LiveOnce
<1>2. ASSUME book' = book, taker' = taker
      PROVE  LiveOnce'
  BY <1>1, <1>2 DEF LiveOnce, OneOrderPerId, IsLive
<1>3. ASSUME NEW id \in OrderIds, NEW side \in Sides, NEW price \in Prices,
             NEW qty \in Quantities, Submit(id, side, price, qty)
      PROVE  LiveOnce'
  BY <1>1, <1>3 DEF Submit, LiveOnce, OneOrderPerId, IsLive
<1>4. CASE Fill
  <2>1. taker \in Takers /\ taker # NoOrder /\ taker.id \in OrderIds
    BY <1>4 DEF Fill, TypeOK, Takers
  <2>2. OneOrderPerId' /\ ~IsLive(taker.id)'
    <3>1. PICK id \in OrderIds : id = taker.id /\ id = taker'.id
      BY <1>4, <2>1, FillStep
    <3>2. ~IsLive(id) /\ ~IsLive(id)'
      BY <1>1, <1>4, <2>1, <3>1, FillStep, ThinsOnce
    <3> QED
      BY <1>1, <1>4, <3>1, <3>2, FillStep, ThinsOnce DEF IsLive
  <2> QED
    BY <1>4, <2>2, FillStep DEF LiveOnce
<1>5. CASE Finish
  <2>1. taker \in Takers /\ taker # NoOrder /\ taker' = NoOrder /\ taker.qty \in Nat
    BY <1>5, FinishStep DEF Finish, Takers
  <2>2. CASE taker.qty = 0
    <3>1. book' = book
      BY <1>5, <2>2, FinishStep
    <3> QED
      BY <1>1, <2>1, <3>1 DEF LiveOnce, OneOrderPerId
  <2>3. CASE taker.qty > 0
    <3>1. PICK s \in Sides, v \in Prices :
           /\ \A t \in Sides, r \in Prices :
                ~(t = s /\ r = v) => book'[t][r] = book[t][r]
           /\ DOMAIN book[s][v] = 1 .. Len(book[s][v]) /\ Len(book[s][v]) \in Nat
           /\ DOMAIN book'[s][v] = 1 .. Len(book[s][v]) + 1
           /\ \A i \in 1 .. Len(book[s][v]) : book'[s][v][i] = book[s][v][i]
           /\ book'[s][v][Len(book[s][v]) + 1].id = taker.id
      BY <1>5, <2>3, RestingStep
    <3> DEFINE New(t, r, i) == t = s /\ r = v /\ i = Len(book[s][v]) + 1
               Old(t, r, i) == i \in DOMAIN book[t][r] /\ book'[t][r][i].id = book[t][r][i].id
    <3>2. ASSUME NEW t \in Sides, NEW r \in Prices, NEW i \in DOMAIN book'[t][r]
          PROVE  Old(t, r, i) \/ (New(t, r, i) /\ book'[t][r][i].id = taker.id)
      <4>1. CASE t = s /\ r = v /\ i = Len(book[s][v]) + 1
        BY <3>1, <4>1
      <4>2. CASE t = s /\ r = v /\ i # Len(book[s][v]) + 1
        <5>1. i \in 1 .. Len(book[s][v])
          BY <3>1, <3>2, <4>2
        <5> QED
          BY <3>1, <4>2, <5>1
      <4>3. CASE ~(t = s /\ r = v)
        BY <3>1, <3>2, <4>3
      <4> QED
        BY <4>1, <4>2, <4>3
    <3>3. ASSUME NEW t \in Sides, NEW r \in Prices, NEW i \in DOMAIN book[t][r]
          PROVE  book[t][r][i].id # taker.id
      BY <1>1, <2>1 DEF IsLive
    <3> HIDE DEF New, Old
    <3>4. ASSUME NEW t \in Sides, NEW u \in Sides, NEW p \in Prices, NEW q \in Prices,
                 NEW i \in DOMAIN book'[t][p], NEW j \in DOMAIN book'[u][q],
                 book'[t][p][i].id = book'[u][q][j].id
          PROVE  t = u /\ p = q /\ i = j
      <4>1. CASE Old(t, p, i) /\ Old(u, q, j)
        <5>1. /\ i \in DOMAIN book[t][p] /\ j \in DOMAIN book[u][q]
              /\ book[t][p][i].id = book[u][q][j].id
          BY <3>4, <4>1 DEF Old
        <5> QED
          BY <1>1, <5>1 DEF OneOrderPerId
      <4>2. CASE New(t, p, i) /\ New(u, q, j)
        BY <4>2 DEF New
      <4>3. CASE Old(t, p, i) /\ book'[u][q][j].id = taker.id
        BY <3>3, <3>4, <4>3 DEF Old
      <4>4. CASE book'[t][p][i].id = taker.id /\ Old(u, q, j)
        BY <3>3, <3>4, <4>4 DEF Old
      <4> QED
        BY <3>2, <4>1, <4>2, <4>3, <4>4
    <3>5. OneOrderPerId'
      BY <3>4 DEF OneOrderPerId
    <3> QED
      BY <2>1, <3>5 DEF LiveOnce
  <2> QED
    BY <2>1, <2>2, <2>3
<1>6. ASSUME NEW id \in OrderIds, Cancel(id)
      PROVE  LiveOnce'
  <2>1. OneOrderPerId' /\ taker' = NoOrder
    BY <1>1, <1>6, CancelStep, ThinsOnce DEF Cancel
  <2> QED
    BY <2>1 DEF LiveOnce
<1>7. CASE \/ \E id \in OrderIds, why \in Rejections : Reject(id, why)
           \/ \E id \in OrderIds : CancelMissing(id)
           \/ UNCHANGED vars
  BY <1>2, <1>7 DEF Reject, CancelMissing, vars
<1> QED
  BY <1>3, <1>4, <1>5, <1>6, <1>7 DEF Next

\* An id never names two resting orders, nor a resting order and the one being
\* matched: the duplicate check of submit (map_engine/orderbook.cpp:9) is enough,
\* because an id leaves the book in the step in which its order does.
THEOREM LiveOnlyOnce == Spec => []LiveOnce
<1>1. Init => LiveOnce
  BY EmptySeq DEF Init, LiveOnce, OneOrderPerId
<1> QED
  BY <1>1, TypeCorrect, LiveOnceStep, PTL DEF Spec

-----------------------------------------------------------------------------
\* Where ids are unique, thinning keeps the order of arrival.
LEMMA ThinsKeepsOrder ==
  ASSUME book \in Books, OneOrderPerId, BookThins,
         NEW s \in Sides, NEW p \in Prices
  PROVE  KeepsOrder(book[s][p], book'[s][p])
<1> DEFINE old == book[s][p]
           new == book'[s][p]
<1>1. PICK f \in [DOMAIN new -> DOMAIN old] :
        \A i \in DOMAIN new :
          /\ new[i].id = old[f[i]].id
          /\ \A j \in DOMAIN new : i < j => f[i] < f[j]
  BY DEF BookThins, Thins
<1>2. \A a, b \in DOMAIN old : old[a].id = old[b].id => a = b
  BY DEF OneOrderPerId
<1> HIDE DEF old, new
<1>3. ASSUME NEW i \in DOMAIN new, NEW j \in DOMAIN new, i < j,
             NEW b \in DOMAIN old, old[b].id = new[j].id
      PROVE  \E a \in DOMAIN old : old[a].id = new[i].id /\ a < b
  <2>1. b = f[j] /\ f[i] \in DOMAIN old /\ f[i] < f[j] /\ old[f[i]].id = new[i].id
    BY <1>1, <1>2, <1>3
  <2> QED
    BY <2>1
<1> QED
  BY <1>3 DEF KeepsOrder, old, new

LEMMA PriorityStep ==
  ASSUME TypeOK, LiveOnce, [Next]_vars
  PROVE  \A s \in Sides, p \in Prices : KeepsOrder(book[s][p], book'[s][p])
<1>1. book \in Books /\ OneOrderPerId
  BY DEF TypeOK, Books, LiveOnce
<1>2. ASSUME BookThins
      PROVE  \A s \in Sides, p \in Prices : KeepsOrder(book[s][p], book'[s][p])
  BY <1>1, <1>2, ThinsKeepsOrder
<1>3. ASSUME book' = book
      PROVE  BookThins
  BY <1>1, <1>3, ThinsItself DEF BookThins, Books
<1>4. CASE Fill
  BY <1>2, <1>4, FillStep
<1>5. CASE Finish
  <2>1. taker \in Takers /\ taker # NoOrder /\ taker.qty \in Nat
    BY <1>5, FinishStep DEF Finish, Takers
  <2>2. CASE taker.qty = 0
    BY <1>2, <1>3, <1>5, <2>2, FinishStep
  <2>3. CASE taker.qty > 0
    <3>1. PICK s \in Sides, v \in Prices :
           /\ \A t \in Sides, r \in Prices :
                ~(t = s /\ r = v) => book'[t][r] = book[t][r]
           /\ DOMAIN book[s][v] = 1 .. Len(book[s][v]) /\ Len(book[s][v]) \in Nat
           /\ DOMAIN book'[s][v] = 1 .. Len(book[s][v]) + 1
           /\ \A i \in 1 .. Len(book[s][v]) : book'[s][v][i] = book[s][v][i]
           /\ book'[s][v][Len(book[s][v]) + 1].id = taker.id
      BY <1>5, <2>3, RestingStep
    <3>2. \A b \in DOMAIN book[s][v] : book[s][v][b].id # taker.id
      BY <2>1 DEF LiveOnce, IsLive
    <3>3. \A t \in Sides, r \in Prices : \A a, b \in DOMAIN book[t][r] :
            book[t][r][a].id = book[t][r][b].id => a = b
      BY <1>1 DEF OneOrderPerId
    <3>4. ASSUME NEW i \in DOMAIN book'[s][v], NEW j \in DOMAIN book'[s][v], i < j,
                 NEW b \in DOMAIN book[s][v], book[s][v][b].id = book'[s][v][j].id
          PROVE  \E a \in DOMAIN book[s][v] : book[s][v][a].id = book'[s][v][i].id /\ a < b
      <4>1. j # Len(book[s][v]) + 1
        BY <3>1, <3>2, <3>4
      <4>2. j \in DOMAIN book[s][v] /\ i \in DOMAIN book[s][v]
        BY <3>1, <3>4, <4>1
      <4>3. b = j /\ book[s][v][i].id = book'[s][v][i].id
        BY <3>1, <3>3, <3>4, <4>2
      <4> QED
        BY <3>4, <4>2, <4>3
    <3>5. KeepsOrder(book[s][v], book'[s][v])
      BY <3>4 DEF KeepsOrder
    <3>6. ASSUME NEW t \in Sides, NEW r \in Prices, ~(t = s /\ r = v)
          PROVE  KeepsOrder(book[t][r], book'[t][r])
      BY <3>1, <3>3, <3>6 DEF KeepsOrder
    <3> QED
      BY <3>5, <3>6
  <2> QED
    BY <2>1, <2>2, <2>3
<1>6. ASSUME NEW id \in OrderIds, Cancel(id)
      PROVE  BookThins
  BY <1>6, CancelStep
<1>7. CASE \/ \E id \in OrderIds, side \in Sides, price \in Prices, qty \in Quantities :
                Submit(id, side, price, qty)
           \/ \E id \in OrderIds, why \in Rejections : Reject(id, why)
           \/ \E id \in OrderIds : CancelMissing(id)
           \/ UNCHANGED vars
  BY <1>2, <1>3, <1>7 DEF Submit, Reject, CancelMissing, vars
<1> QED
  BY <1>2, <1>4, <1>5, <1>6, <1>7 DEF Next

\* Time priority: nothing the engine does to a queue lets an order pass another,
\* not a partial fill of its front, not a cancel in its middle, not an arrival.
THEOREM PriorityKept == Spec => KeepsTimePriority
<1>1. TypeOK /\ LiveOnce /\ [Next]_vars =>
        [\A s \in Sides, p \in Prices : KeepsOrder(book[s][p], book'[s][p])]_vars
  BY PriorityStep
<1> QED
  BY <1>1, TypeCorrect, LiveOnlyOnce, PTL DEF Spec, KeepsTimePriority

-----------------------------------------------------------------------------
(***************************************************************************)
(* One submit.  SweepsBestFirst and PartialFillEndsSweep hold together,    *)
(* with the fact that no price better than one already traded at is live.  *)
(***************************************************************************)
NoneSkipped ==
  taker # NoOrder =>
    \A i \in DOMAIN trades : \A q \in Live(Opposite(taker.side)) :
      ~Better(Opposite(taker.side), q, trades[i].price)

SweepInv == SweepsBestFirst /\ NoneSkipped /\ PartialFillEndsSweep

\* A maker whose whole quantity was traded is gone: it was the only order of its
\* id, and the rest of its queue has other ids.
LEMMA FilledMakerGone ==
  ASSUME book \in Books, OneOrderPerId, NEW s \in Sides, NEW p \in Prices,
         book[s][p] # <<>>, book' = [book EXCEPT ![s][p] = Tail(book[s][p])],
         NEW id, id = Head(book[s][p]).id
  PROVE  ~IsLive(id)'
<1> DEFINE q == book[s][p]
<1>1. q \in Seq(Makers) /\ Head(q) = q[1] /\ 1 \in DOMAIN q
  BY EmptySeq, LenProperties, ElementOfSeq DEF Books
<1>2. \A i \in DOMAIN Tail(q) : i + 1 \in DOMAIN q /\ i + 1 # 1 /\ Tail(q)[i] = q[i + 1]
  <2>1. /\ Tail(q) \in Seq(Makers) /\ Len(Tail(q)) = Len(q) - 1
        /\ \A i \in 1 .. Len(Tail(q)) : Tail(q)[i] = q[i + 1]
    BY <1>1, HeadTailProperties
  <2>2. DOMAIN Tail(q) = 1 .. Len(q) - 1 /\ DOMAIN q = 1 .. Len(q) /\ Len(q) \in Nat
    BY <1>1, <2>1, LenProperties
  <2> HIDE DEF q
  <2> QED
    BY <2>1, <2>2
<1>3. /\ book'[s][p] = Tail(q)
      /\ \A t \in Sides, r \in Prices : ~(t = s /\ r = p) => book'[t][r] = book[t][r]
  BY DEF Books
<1>4. \A t \in Sides, r \in Prices : \A i \in DOMAIN book[t][r] :
        book[t][r][i].id = id => t = s /\ r = p /\ i = 1
  BY <1>1 DEF OneOrderPerId
<1>5. ASSUME NEW t \in Sides, NEW r \in Prices, NEW i \in DOMAIN book'[t][r],
             book'[t][r][i].id = id
      PROVE  FALSE
  <2>1. CASE t = s /\ r = p
    <3>1. i \in DOMAIN Tail(q)
      BY <1>3, <1>5, <2>1
    <3>2. i + 1 \in DOMAIN q /\ i + 1 # 1 /\ q[i + 1].id = id
      BY <1>2, <1>3, <1>5, <2>1, <3>1
    <3> QED
      BY <1>4, <3>2
  <2>2. CASE ~(t = s /\ r = p)
    BY <1>3, <1>4, <1>5, <2>2
  <2> QED
    BY <2>1, <2>2
<1> QED
  BY <1>5 DEF IsLive

\* The trade a Fill adds: at the best opposite price, within the taker's limit,
\* with a live maker, which stays live only if nothing is left of the taker.
LEMMA FillTrade ==
  ASSUME TypeOK, LiveOnce, Fill
  PROVE  \E p \in Prices, m \in OrderIds, rec \in TradeRecs(OrderIds, Prices) :
           /\ rec.price = p /\ rec.maker_id = m
           /\ trades' = Append(trades, rec)
           /\ taker'.side = taker.side /\ taker'.price = taker.price
           /\ taker.qty > 0
           /\ IsBest(Opposite(taker.side), p)
           /\ Crosses(taker.side, taker.price, p)
           /\ IsLive(m)
           /\ IsLive(m)' => taker'.qty = 0
<1>1. taker \in Takers /\ Opposite(taker.side) \in Sides
  BY DEF TypeOK, Fill, Takers, Opposite, Sides
<1> DEFINE side == Opposite(taker.side)
<1>2. PICK p \in Prices :
        LET maker == Head(book[side][p])
            n     == TradeQty(maker)
        IN  /\ MatchesAt(p)
            /\ trades' = Append(trades, [maker_id |-> maker.id, taker_id |-> taker.id,
                                         price |-> p, qty |-> n])
            /\ book' = [book EXCEPT ![side][p] = AfterFill(@, n)]
            /\ taker' = [taker EXCEPT !.qty = @ - n]
  BY DEF Fill
<1> DEFINE q == book[side][p]
           maker == Head(q)
           n == TradeQty(maker)
           rec == [maker_id |-> maker.id, taker_id |-> taker.id, price |-> p, qty |-> n]
<1>3. book \in Books /\ q \in Seq(Makers) /\ q # <<>> /\ taker.qty > 0
  BY <1>1, <1>2 DEF TypeOK, Books, MatchesAt, IsBest, Live
<1>4. maker \in Makers /\ maker = q[1] /\ 1 \in DOMAIN q
  BY <1>3, EmptySeq, LenProperties, ElementOfSeq
<1>5. taker.qty \in Nat /\ maker.qty \in Nat \ {0} /\ taker.id \in OrderIds /\ maker.id \in OrderIds
  BY <1>1, <1>4 DEF Takers, Makers
<1>6. n \in Nat \ {0} /\ n <= maker.qty /\ n <= taker.qty
      /\ (n # maker.qty => n = taker.qty)
  BY <1>3, <1>5 DEF TradeQty
<1>7. rec \in TradeRecs(OrderIds, Prices) /\ rec.price = p /\ rec.maker_id = maker.id
  BY <1>5, <1>6 DEF TradeRecs
<1>8. /\ taker'.side = taker.side /\ taker'.price = taker.price
      /\ taker'.qty = taker.qty - n
  <2>1. taker' = [taker EXCEPT !.qty = @ - n]
    BY <1>2
  <2> HIDE DEF n
  <2> QED
    BY <1>1, <2>1 DEF Takers
<1>9. PICK m \in OrderIds : m = maker.id
  BY <1>5
<1>10. IsLive(m)
  BY <1>1, <1>4, <1>9 DEF IsLive
<1>11. IsLive(m)' => taker'.qty = 0
  <2>1. CASE n = maker.qty
    <3>1. book' = [book EXCEPT ![side][p] = Tail(book[side][p])]
      BY <1>2, <2>1 DEF AfterFill
    <3> HIDE DEF n
    <3>2. OneOrderPerId
      BY DEF LiveOnce
    <3>3. ~IsLive(m)'
      BY <1>1, <1>3, <1>9, <3>1, <3>2, FilledMakerGone
    <3> QED
      BY <3>3
  <2>2. CASE n # maker.qty
    BY <1>5, <1>6, <1>8, <2>2
  <2> QED
    BY <2>1, <2>2
<1> HIDE DEF n, maker
<1>12. trades' = Append(trades, rec)
  BY <1>2 DEF n, maker
<1>13. IsBest(side, p) /\ Crosses(taker.side, taker.price, p)
  BY <1>2 DEF MatchesAt
<1> QED
  BY <1>3, <1>7, <1>8, <1>9, <1>10, <1>11, <1>12, <1>13

LEMMA SweepStep ==
  ASSUME TypeOK, LiveOnce, SweepInv, [Next]_vars
  PROVE  SweepInv'
<1>1. CASE Fill
  <2>1. PICK p \in Prices, m \in OrderIds, rec \in TradeRecs(OrderIds, Prices) :
           /\ rec.price = p /\ rec.maker_id = m
           /\ trades' = Append(trades, rec)
           /\ taker'.side = taker.side /\ taker'.price = taker.price
           /\ taker.qty > 0
           /\ IsBest(Opposite(taker.side), p)
           /\ Crosses(taker.side, taker.price, p)
           /\ IsLive(m)
           /\ IsLive(m)' => taker'.qty = 0
    BY <1>1, FillTrade
  <2>2. taker \in Takers /\ taker # NoOrder /\ Opposite(taker.side) \in Sides
    BY <1>1 DEF Fill, TypeOK, Takers, Opposite, Sides
  <2>3. PICK opp \in Sides : opp = Opposite(taker.side) /\ opp = Opposite(taker'.side)
    BY <2>1, <2>2
  <2>4. book \in Books /\ book' \in Books /\ BookThins
    BY <1>1, FillStep DEF TypeOK, Books
  <2>5. Live(opp)' \subseteq Live(opp)
    BY <2>4, ThinsLive
  <2>6. \A id \in OrderIds : IsLive(id)' => IsLive(id)
    BY <2>4, ThinsOnce
  <2>7. PICK n \in Nat : n = Len(trades)
    BY LenProperties DEF TypeOK
  <2>8. /\ trades' \in Seq(TradeRecs(OrderIds, Prices)) /\ Len(trades') = n + 1
        /\ \A i \in 1 .. n : trades'[i] = trades[i]
        /\ trades'[n + 1] = rec
    BY <2>1, <2>7, AppendProperties DEF TypeOK
  <2>9. DOMAIN trades = 1 .. n /\ DOMAIN trades' = 1 .. n + 1
    BY <2>7, <2>8, LenProperties DEF TypeOK
  <2>10. \A i \in 1 .. n : /\ trades[i].maker_id \in OrderIds
                           /\ ~IsLive(trades[i].maker_id)
                           /\ Crosses(taker.side, taker.price, trades[i].price)
                           /\ \A q \in Live(opp) : ~Better(opp, q, trades[i].price)
    <3> SUFFICES ASSUME NEW i \in 1 .. n
                 PROVE  /\ trades[i].maker_id \in OrderIds
                        /\ ~IsLive(trades[i].maker_id)
                        /\ Crosses(taker.side, taker.price, trades[i].price)
                        /\ \A q \in Live(opp) : ~Better(opp, q, trades[i].price)
      OBVIOUS
    <3>1. trades[i] \in TradeRecs(OrderIds, Prices)
      BY <2>7, ElementOfSeq DEF TypeOK
    <3>2. trades[i].maker_id \in OrderIds
      BY <3>1 DEF TradeRecs
    <3>3. ~IsLive(trades[i].maker_id)
      BY <2>1, <2>2, <2>9 DEF SweepInv, PartialFillEndsSweep
    <3>4. Crosses(taker.side, taker.price, trades[i].price)
      BY <2>2, <2>9 DEF SweepInv, SweepsBestFirst
    <3>5. \A q \in Live(opp) : ~Better(opp, q, trades[i].price)
      BY <2>2, <2>3, <2>9 DEF SweepInv, NoneSkipped
    <3> QED
      BY <3>2, <3>3, <3>4, <3>5
  <2>11. p \in Live(opp) /\ \A q \in Live(opp) : ~Better(opp, q, p)
    BY <2>1, <2>3 DEF IsBest
  <2>12. \A i, j \in 1 .. n : i < j => /\ ~Better(opp, trades[j].price, trades[i].price)
                                       /\ trades[i].maker_id # trades[j].maker_id
    BY <2>2, <2>3, <2>9 DEF SweepInv, SweepsBestFirst
  <2>13. SweepsBestFirst'
    <3> SUFFICES ASSUME NEW i \in DOMAIN trades', NEW j \in DOMAIN trades'
                 PROVE  /\ Crosses(taker'.side, taker'.price, trades'[i].price)
                        /\ i < j => /\ ~Better(Opposite(taker'.side), trades'[j].price, trades'[i].price)
                                    /\ trades'[i].maker_id # trades'[j].maker_id
      BY DEF SweepsBestFirst, Crosses, Better, Opposite
    <3>1. CASE i = n + 1
      BY <2>1, <2>8, <2>9, <3>1
    <3>2. CASE i \in 1 .. n /\ j = n + 1
      BY <2>1, <2>3, <2>8, <2>10, <2>11, <3>2
    <3>3. CASE i \in 1 .. n /\ j \in 1 .. n
      BY <2>1, <2>3, <2>8, <2>10, <2>12, <3>3
    <3> QED
      BY <2>9, <3>1, <3>2, <3>3
  <2>14. NoneSkipped'
    <3>1. ASSUME NEW i \in DOMAIN trades', NEW q \in Live(opp)'
          PROVE  ~Better(opp, q, trades'[i].price)
      <4>1. q \in Live(opp)
        BY <2>5, <3>1
      <4>2. i \in 1 .. n \/ i = n + 1
        BY <2>9
      <4> QED
        BY <2>1, <2>8, <2>10, <2>11, <4>1, <4>2
    <3> QED
      BY <2>3, <3>1 DEF NoneSkipped, Live, Better
  <2>15. PartialFillEndsSweep'
    <3>1. ASSUME NEW i \in DOMAIN trades', NEW id \in OrderIds,
                 id = trades'[i].maker_id, IsLive(id)'
          PROVE  i = Len(trades') /\ taker'.qty = 0
      <4>1. CASE i \in 1 .. n
        BY <2>6, <2>8, <2>10, <3>1, <4>1
      <4>2. CASE i = n + 1
        BY <2>1, <2>8, <3>1, <4>2
      <4> QED
        BY <2>9, <4>1, <4>2
    <3>2. \A i \in DOMAIN trades' : trades'[i].maker_id \in OrderIds
      BY <2>1, <2>8, <2>9, <2>10
    <3> QED
      BY <3>1, <3>2 DEF PartialFillEndsSweep, IsLive
  <2> QED
    BY <2>13, <2>14, <2>15 DEF SweepInv
<1>2. CASE trades' = <<>>
  BY <1>2 DEF SweepInv, SweepsBestFirst, NoneSkipped, PartialFillEndsSweep
<1>3. CASE taker' = NoOrder
  BY <1>3 DEF SweepInv, SweepsBestFirst, NoneSkipped, PartialFillEndsSweep
<1>4. CASE UNCHANGED vars
  BY <1>4 DEF vars, SweepInv, SweepsBestFirst, NoneSkipped, PartialFillEndsSweep, Live, IsLive
<1>5. [Next]_vars => Fill \/ trades' = <<>> \/ taker' = NoOrder \/ UNCHANGED vars
  BY DEF Next, Submit, Reject, Finish, Cancel, CancelMissing
<1> QED
  BY <1>1, <1>2, <1>3, <1>4, <1>5

LEMMA SweepAlways == Spec => []SweepInv
<1>1. Init => SweepInv
  BY DEF Init, SweepInv, SweepsBestFirst, NoneSkipped, PartialFillEndsSweep
<1> QED
  BY <1>1, TypeCorrect, LiveOnlyOnce, SweepStep, PTL DEF Spec

\* Price priority over a whole call: the matching loop (map_engine/orderbook.cpp:
\* 37-97) takes the opposite prices from the best to the worst, stays within the
\* limit of the incoming order and trades with each resting order at most once.
THEOREM BestFirst == Spec => []SweepsBestFirst
<1>1. SweepInv => SweepsBestFirst
  BY DEF SweepInv
<1> QED
  BY <1>1, SweepAlways, PTL

\* Of the orders a call traded with, only the last can still rest, and only when
\* the incoming order was used up (map_engine/orderbook.cpp:58-66).
THEOREM PartialFillLast == Spec => []PartialFillEndsSweep
<1>1. SweepInv => PartialFillEndsSweep
  BY DEF SweepInv
<1> QED
  BY <1>1, SweepAlways, PTL

=============================================================================
