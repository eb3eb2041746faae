--------------------------- MODULE MapEngineProofs ---------------------------
(***************************************************************************)
(* Proofs about MapEngine, for every set of ids, prices and quantities.    *)
(***************************************************************************)
EXTENDS MapEngine, CommonProofs

(***************************************************************************)
(* One price level by itself: its list is not empty, the orders on it are  *)
(* those of its side and price, each once, and their quantities sum to     *)
(* total_volume.                                                           *)
(***************************************************************************)
Left(q) == [i \in DOMAIN q |-> q[i].remaining_quantity]

HasVolume(v, q) == SumsTo(Left(q), Len(q), v)

SameLevel(q, s, p) ==
  \A i \in DOMAIN q :
    /\ q[i].side = s /\ q[i].price = p
    /\ \A j \in DOMAIN q : q[j].order_id = q[i].order_id => i = j

\* A level but for its list being empty, as between a removal and the test.
FairLevel(l, s, p) ==
  l \in PriceLevels /\ HasVolume(l.total_volume, l.orders) /\ SameLevel(l.orders, s, p)

GoodLevel(l, s, p) == FairLevel(l, s, p) /\ l.orders # <<>>

\* The ids of the orders on a list.
IdsOf(q) == {q[i].order_id : i \in DOMAIN q}

\* A list read at a position.
LEMMA ListProperties ==
  ASSUME NEW q \in Seq(Orders)
  PROVE  /\ Len(q) \in Nat /\ DOMAIN q = 1 .. Len(q)
         /\ q = <<>> <=> Len(q) = 0
         /\ \A i \in DOMAIN q : /\ q[i] \in Orders /\ q[i].order_id \in OrderIds
                                /\ q[i].remaining_quantity \in Nat \ {0}
<1>1. Len(q) \in Nat /\ DOMAIN q = 1 .. Len(q)
  BY LenProperties
<1>2. \A i \in DOMAIN q : q[i] \in Orders
  BY <1>1, ElementOfSeq
<1>3. q = <<>> <=> Len(q) = 0
  BY EmptySeq
<1> QED
  BY <1>1, <1>2, <1>3 DEF Orders

\* The total a level keeps is the recursive sum of its list.
LEMMA VolumeUnique ==
  ASSUME NEW q \in Seq(Orders), NEW v, HasVolume(v, q)
  PROVE  v = Volume(q)
<1> DEFINE Sums(h) == h = [i \in 0 .. Len(q) |->
                             IF i = 0 THEN 0 ELSE h[i - 1] + q[i].remaining_quantity]
           s == CHOOSE h : Sums(h)
<1>1. Len(q) \in Nat /\ DOMAIN q = 1 .. Len(q)
  BY ListProperties
<1>2. \E h : Sums(h)
  <2>1. PICK g : RunningSum(g, Left(q), Len(q))
    BY DEF HasVolume, SumsTo
  <2>2. Sums(g)
    BY <1>1, <2>1 DEF RunningSum, Left
  <2> QED
    BY <2>2
<1>3. Sums(s)
  BY <1>2
<1> HIDE DEF s
<1>4. \A i \in 0 .. Len(q) : s[i] = IF i = 0 THEN 0 ELSE s[i - 1] + Left(q)[i]
  BY <1>1, <1>3 DEF Left
<1>5. v = s[Len(q)]
  BY <1>1, <1>4, SumUnique DEF HasVolume
<1>6. Volume(q) = s[Len(q)]
  BY DEF Volume, s
<1> QED
  BY <1>5, <1>6

\* What add_order makes of a level that has no order of that id.
LEMMA AddOrder ==
  ASSUME NEW s \in Sides, NEW p \in Prices, NEW l, FairLevel(l, s, p),
         NEW o \in Orders, o.side = s, o.price = p, o.order_id \notin IdsOf(l.orders)
  PROVE  /\ GoodLevel(add_order(l, o), s, p)
         /\ IdsOf(add_order(l, o).orders) = IdsOf(l.orders) \cup {o.order_id}
<1>1. PICK q : q = l.orders
  OBVIOUS
<1>2. PICK t : t = Append(q, o)
  OBVIOUS
<1>3. PICK n : n = Len(q)
  OBVIOUS
<1>4. q \in Seq(Orders) /\ n \in Nat /\ DOMAIN q = 1 .. n /\ HasVolume(l.total_volume, q)
  BY <1>1, <1>3, ListProperties DEF FairLevel, PriceLevels
<1>5. /\ t \in Seq(Orders) /\ Len(t) = n + 1 /\ DOMAIN t = 1 .. n + 1
      /\ \A i \in 1 .. n : t[i] = q[i]
      /\ t[n + 1] = o /\ t # <<>>
  BY <1>2, <1>3, <1>4, AppendProperties, LenProperties, EmptySeq
<1>6. o.remaining_quantity \in Nat /\ o.order_id \in OrderIds
  BY DEF Orders
<1>7. l.total_volume \in Nat /\ HasVolume(l.total_volume + o.remaining_quantity, t)
  <2>1. Left(t)[n + 1] = o.remaining_quantity /\ \A i \in 1 .. n : Left(t)[i] = Left(q)[i]
    BY <1>4, <1>5 DEF Left
  <2> QED
    BY <1>3, <1>4, <1>5, <1>6, <2>1, SumAppend DEF HasVolume
<1>8. SameLevel(t, s, p)
  <2>1. SameLevel(q, s, p) /\ \A i \in 1 .. n : q[i].order_id # o.order_id
    BY <1>1, <1>4 DEF FairLevel, IdsOf
  <2> QED
    BY <1>4, <1>5, <2>1 DEF SameLevel
<1>9. IdsOf(t) = IdsOf(q) \cup {o.order_id}
  <2>1. \A i \in 1 .. n + 1 : i \in 1 .. n \/ i = n + 1
    BY <1>4
  <2>2. n + 1 \in 1 .. n + 1 /\ \A i \in 1 .. n : i \in 1 .. n + 1
    BY <1>4
  <2> QED
    BY <1>4, <1>5, <2>1, <2>2 DEF IdsOf
<1>10. add_order(l, o) = [total_volume |-> l.total_volume + o.remaining_quantity, orders |-> t]
  BY <1>1, <1>2 DEF add_order
<1>11. add_order(l, o) \in PriceLevels
  BY <1>5, <1>6, <1>7, <1>10 DEF PriceLevels
<1> QED
  BY <1>1, <1>5, <1>7, <1>8, <1>9, <1>10, <1>11 DEF GoodLevel, FairLevel

\* What removing the order at i makes of a level: the total never goes below
\* zero, and the order's id leaves with it.
LEMMA RemoveOrder ==
  ASSUME NEW s \in Sides, NEW p \in Prices, NEW l, FairLevel(l, s, p), NEW i \in DOMAIN l.orders
  PROVE  /\ FairLevel(remove_order(l, i), s, p)
         /\ IdsOf(RemoveAt(l.orders, i)) = IdsOf(l.orders) \ {l.orders[i].order_id}
<1>1. PICK q : q = l.orders
  OBVIOUS
<1>2. PICK t : t = RemoveAt(q, i)
  OBVIOUS
<1>3. PICK n : n = Len(q)
  OBVIOUS
<1>4. /\ q \in Seq(Orders) /\ n \in Nat /\ DOMAIN q = 1 .. n /\ i \in 1 .. n
      /\ HasVolume(l.total_volume, q) /\ SameLevel(q, s, p)
  BY <1>1, <1>3, ListProperties DEF FairLevel, PriceLevels
<1>5. /\ t \in Seq(Orders) /\ Len(t) = n - 1 /\ DOMAIN t = 1 .. n - 1
      /\ \A j \in 1 .. n - 1 : t[j] = q[IF j < i THEN j ELSE j + 1]
  BY <1>2, <1>3, <1>4, RemoveAtProperties
<1>6. PICK d : d = q[i].remaining_quantity
  OBVIOUS
<1>7. l.total_volume - d \in Nat /\ HasVolume(l.total_volume - d, t)
  <2>1. /\ Left(q)[i] = d
        /\ \A j \in 1 .. n - 1 : Left(t)[j] = Left(q)[IF j < i THEN j ELSE j + 1]
    <3>1. \A j \in 1 .. n - 1 : (IF j < i THEN j ELSE j + 1) \in 1 .. n
      BY <1>4
    <3> QED
      BY <1>4, <1>5, <1>6, <3>1 DEF Left
  <2>2. SumsTo(Left(q), n, l.total_volume)
    BY <1>3, <1>4 DEF HasVolume
  <2>3. l.total_volume - d \in Nat /\ SumsTo(Left(t), n - 1, l.total_volume - d)
    BY <1>4, <2>1, <2>2, SumRemove
  <2> QED
    BY <1>5, <2>3 DEF HasVolume
<1>8. SameLevel(t, s, p)
  <2> DEFINE From(j) == IF j < i THEN j ELSE j + 1
  <2>1. /\ \A j \in 1 .. n - 1 : From(j) \in 1 .. n /\ t[j] = q[From(j)]
        /\ \A j, k \in 1 .. n - 1 : From(j) = From(k) => j = k
    BY <1>4, <1>5
  <2> HIDE DEF From
  <2> QED
    BY <1>4, <1>5, <2>1 DEF SameLevel
<1>9. IdsOf(t) = IdsOf(q) \ {q[i].order_id}
  <2>1. ASSUME NEW j \in 1 .. n - 1
        PROVE  t[j].order_id \in IdsOf(q) \ {q[i].order_id}
    <3>1. PICK k : k = IF j < i THEN j ELSE j + 1
      OBVIOUS
    <3>2. k \in 1 .. n /\ k # i /\ t[j] = q[k]
      BY <1>4, <1>5, <3>1
    <3> QED
      BY <1>4, <3>2 DEF IdsOf, SameLevel
  <2>2. ASSUME NEW k \in 1 .. n, k # i
        PROVE  q[k].order_id \in IdsOf(t)
    <3>1. PICK j : j = IF k < i THEN k ELSE k - 1
      OBVIOUS
    <3>2. j \in 1 .. n - 1 /\ (IF j < i THEN j ELSE j + 1) = k
      BY <1>4, <2>2, <3>1
    <3>3. t[j] = q[k]
      BY <1>5, <3>2
    <3> QED
      BY <1>5, <3>2, <3>3 DEF IdsOf
  <2>3. \A x \in IdsOf(t) : x \in IdsOf(q) \ {q[i].order_id}
    BY <1>5, <2>1 DEF IdsOf
  <2>4. \A x \in IdsOf(q) \ {q[i].order_id} : x \in IdsOf(t)
    BY <1>4, <2>2 DEF IdsOf
  <2> QED
    BY <2>3, <2>4
<1>10. remove_order(l, i) = [total_volume |-> l.total_volume - d, orders |-> t]
  BY <1>1, <1>2, <1>6 DEF remove_order
<1>11. remove_order(l, i) \in PriceLevels
  BY <1>5, <1>7, <1>10 DEF PriceLevels
<1> QED
  BY <1>1, <1>2, <1>7, <1>8, <1>9, <1>10, <1>11 DEF FairLevel

\* The front order is the first element.
LEMMA FrontProperties ==
  ASSUME NEW q \in Seq(Orders), q # <<>>
  PROVE  /\ 1 \in DOMAIN q /\ Head(q) = q[1] /\ q[1] \in Orders
         /\ Tail(q) = RemoveAt(q, 1)
<1>1. 1 \in DOMAIN q /\ Head(q) = q[1] /\ q[1] \in Orders
  BY ListProperties
<1>2. /\ Tail(q) \in Seq(Orders) /\ Len(Tail(q)) = Len(q) - 1
      /\ \A i \in 1 .. Len(Tail(q)) : Tail(q)[i] = q[i + 1]
  BY HeadTailProperties
<1>3. /\ RemoveAt(q, 1) \in Seq(Orders) /\ Len(RemoveAt(q, 1)) = Len(q) - 1
      /\ \A i \in 1 .. Len(q) - 1 : RemoveAt(q, 1)[i] = q[IF i < 1 THEN i ELSE i + 1]
  BY <1>1, RemoveAtProperties
<1>4. \A i \in 1 .. Len(Tail(q)) : Tail(q)[i] = RemoveAt(q, 1)[i]
  BY <1>2, <1>3
<1> QED
  BY <1>1, <1>2, <1>3, <1>4, SeqEqual

\* What fill_front takes and leaves: a whole order, or all that is available.
LEMMA FillFront ==
  ASSUME NEW s \in Sides, NEW p \in Prices, NEW l, GoodLevel(l, s, p), NEW available \in Nat \ {0}
  PROVE  LET r == fill_front(l, available)
         IN  /\ r.order_id = l.orders[1].order_id /\ 1 \in DOMAIN l.orders
             /\ r.filled \in Nat \ {0} /\ r.filled <= available
             /\ FairLevel(r.level, s, p)
             /\ r.fully_filled => /\ r.level = remove_order(l, 1)
                                  /\ r.filled = l.orders[1].remaining_quantity
             /\ ~r.fully_filled => /\ r.filled = available /\ r.level.orders # <<>>
                                   /\ r.filled < l.orders[1].remaining_quantity
                                   /\ r.level.orders = TakeFromFront(l.orders, available)
                                   /\ IdsOf(r.level.orders) = IdsOf(l.orders)
<1>1. PICK q : q = l.orders
  OBVIOUS
<1>2. PICK n : n = Len(q)
  OBVIOUS
<1>3. /\ q \in Seq(Orders) /\ n \in Nat \ {0} /\ DOMAIN q = 1 .. n /\ 1 \in DOMAIN q
      /\ Head(q) = q[1] /\ q[1] \in Orders /\ Tail(q) = RemoveAt(q, 1)
      /\ HasVolume(l.total_volume, q) /\ SameLevel(q, s, p)
  BY <1>1, <1>2, ListProperties, FrontProperties DEF GoodLevel, FairLevel, PriceLevels
<1>4. PICK d : d = q[1].remaining_quantity
  OBVIOUS
<1>5. d \in Nat \ {0}
  BY <1>3, <1>4 DEF Orders
<1>6. PICK r : r = fill_front(l, available)
  OBVIOUS
<1>7. CASE available >= d
  <2>1. r = [order_id |-> q[1].order_id, filled |-> d, fully_filled |-> TRUE,
             level |-> [total_volume |-> l.total_volume - d, orders |-> RemoveAt(q, 1)]]
    BY <1>1, <1>3, <1>4, <1>6, <1>7 DEF fill_front, FullyFills
  <2>2. r.level = remove_order(l, 1)
    BY <1>1, <1>4, <2>1 DEF remove_order
  <2>3. FairLevel(r.level, s, p)
    BY <1>1, <1>3, <2>2, RemoveOrder DEF GoodLevel
  <2> QED
    BY <1>1, <1>3, <1>4, <1>5, <1>6, <1>7, <2>1, <2>2, <2>3
<1>8. CASE ~(available >= d)
  <2>1. PICK e : e = [q[1] EXCEPT !.remaining_quantity = d - available]
    OBVIOUS
  <2>2. PICK t : t = [q EXCEPT ![1] = e]
    OBVIOUS
  <2>0. d - available \in Nat \ {0} /\ available < d
    BY <1>5, <1>8
  <2>3. /\ e \in Orders /\ e.order_id = q[1].order_id /\ e.side = q[1].side
        /\ e.price = q[1].price /\ e.remaining_quantity = d - available
        /\ d - available \in Nat \ {0} /\ available < d
    BY <1>3, <2>0, <2>1 DEF Orders
  <2>4. /\ t \in Seq(Orders) /\ Len(t) = n /\ DOMAIN t = 1 .. n /\ t[1] = e
        /\ \A j \in 2 .. n : t[j] = q[j]
    BY <1>2, <1>3, <2>2, <2>3, ExceptSeq, LenProperties
  <2>5. t = TakeFromFront(q, available)
    BY <1>3, <1>4, <2>1, <2>2 DEF TakeFromFront
  <2>6. r = [order_id |-> q[1].order_id, filled |-> available, fully_filled |-> FALSE,
             level |-> [total_volume |-> l.total_volume - available, orders |-> t]]
    <3>1. FullyFills(Head(q), available) = FALSE
      BY <1>3, <1>4, <1>8 DEF FullyFills
    <3> QED
      BY <1>1, <1>3, <1>6, <2>5, <3>1 DEF fill_front
  <2>7. l.total_volume - available \in Nat /\ HasVolume(l.total_volume - available, t)
    <3>1. /\ Left(q)[1] = d /\ Left(t)[1] = d - available
          /\ \A j \in 2 .. n : Left(t)[j] = Left(q)[j]
      BY <1>3, <1>4, <2>3, <2>4 DEF Left
    <3>2. SumsTo(Left(q), n, l.total_volume)
      BY <1>2, <1>3 DEF HasVolume
    <3>3. l.total_volume - available \in Nat /\ SumsTo(Left(t), n, l.total_volume - available)
      <4>1. available <= Left(q)[1] /\ Left(t)[1] = Left(q)[1] - available /\ available \in Nat
        BY <1>5, <2>0, <3>1
      <4> QED
        BY <1>3, <3>1, <3>2, <4>1, SumTake
    <3> QED
      BY <2>4, <3>3 DEF HasVolume
  <2>8. SameLevel(t, s, p) /\ IdsOf(t) = IdsOf(q)
    <3>1. \A j \in 1 .. n : /\ t[j].order_id = q[j].order_id /\ t[j].side = q[j].side
                            /\ t[j].price = q[j].price
      <4>1. \A j \in 1 .. n : j = 1 \/ j \in 2 .. n
        BY <1>3
      <4> QED
        BY <2>3, <2>4, <4>1
    <3> QED
      BY <1>3, <2>4, <3>1 DEF SameLevel, IdsOf
  <2>9. r.level \in PriceLevels
    BY <2>4, <2>6, <2>7 DEF PriceLevels
  <2>10. t # <<>>
    BY <1>3, <2>4, ListProperties
  <2> QED
    BY <1>1, <1>3, <1>4, <1>5, <1>6, <2>3, <2>5, <2>6, <2>7, <2>8, <2>9, <2>10 DEF FairLevel
<1> QED
  BY <1>5, <1>7, <1>8

-----------------------------------------------------------------------------
(***************************************************************************)
(* The inductive invariant.  An id is on the list of a level exactly when  *)
(* the index leads there; the order being matched is not indexed yet, and  *)
(* while it can still trade, its iterator is at the best opposite level.   *)
(***************************************************************************)
LevelsGood == \A s \in Sides : \A p \in Keys(s) : GoodLevel(levels[s][p], s, p)

Listed(s, p) == IF levels[s][p] = None THEN {} ELSE IdsOf(levels[s][p].orders)

IndexExact ==
  \A id \in OrderIds, s \in Sides, p \in Prices :
    id \in Listed(s, p) <=> order_map[id] = [side |-> s, price |-> p]

CallOnTrack ==
  call # None =>
    /\ order_map[call.order_id] = None
    /\ call.remaining > 0 => call.it = First(Opposite(call.side), Keys(Opposite(call.side)))

IInv == TypeOK /\ LevelsGood /\ IndexExact /\ CallOnTrack

\* The first of the keys is the best one, and the rest come after it.
LEMMA FirstProperties ==
  ASSUME NEW side \in Sides, NEW keys \in SUBSET Prices
  PROVE  /\ keys = {} => First(side, keys) = End
         /\ keys # {} => /\ First(side, keys) \in keys
                         /\ \A q \in keys : ~Better(side, q, First(side, keys))
                         /\ {q \in keys : Better(side, First(side, keys), q)}
                              = keys \ {First(side, keys)}
         /\ First(side, keys) \in Prices \cup {End} /\ End \notin Prices
<1>1. keys = {} => First(side, keys) = End
  BY DEF First
<1>2. ASSUME keys # {}
      PROVE  First(side, keys) \in keys /\ \A q \in keys : ~Better(side, q, First(side, keys))
  <2>1. keys \in SUBSET Nat /\ IsFiniteSet(keys)
    BY PricesAssumption, FS_Subset
  <2>2. \E p \in keys : \A q \in keys : ~Better(side, q, p)
    BY <1>2, <2>1, BestExists
  <2> QED
    BY <1>2, <2>2 DEF First
<1>3. ASSUME NEW p \in keys, \A q \in keys : ~Better(side, q, p)
      PROVE  {q \in keys : Better(side, p, q)} = keys \ {p}
  <2>1. \A q \in keys : q \in Nat
    BY PricesAssumption
  <2>2. \A q \in keys : Better(side, p, q) <=> q # p
    BY <1>3, <2>1 DEF Better
  <2> QED
    BY <2>2
<1>4. End \notin Prices
  BY PricesAssumption DEF End
<1> QED
  BY <1>1, <1>2, <1>3, <1>4

\* A level that a key leads to.
LEMMA LevelAt ==
  ASSUME TypeOK, LevelsGood, NEW s \in Sides, NEW p \in Keys(s)
  PROVE  /\ p \in Prices /\ levels[s][p] # None /\ GoodLevel(levels[s][p], s, p)
         /\ levels[s][p] \in PriceLevels /\ levels[s][p].orders \in Seq(Orders)
BY DEF LevelsGood, Keys, GoodLevel, FairLevel, PriceLevels

\* l, a level or None, takes a place in the maps.
Places(s, p, l) == levels' = [levels EXCEPT ![s][p] = l]

\* Putting a good level, or no level, in a place leaves good levels.
LEMMA ReplaceLevel ==
  ASSUME TypeOK, LevelsGood, NEW s \in Sides, NEW p \in Prices,
         NEW l, l = None \/ GoodLevel(l, s, p), Places(s, p, l)
  PROVE  /\ levels' \in [Sides -> [Prices -> PriceLevels \cup {None}]] /\ LevelsGood'
         /\ levels'[s][p] = l
         /\ \A t \in Sides, r \in Prices : ~(t = s /\ r = p) => levels'[t][r] = levels[t][r]
<1>1. l \in PriceLevels \cup {None}
  BY DEF GoodLevel, FairLevel
<1>2. levels' \in [Sides -> [Prices -> PriceLevels \cup {None}]]
  BY <1>1 DEF TypeOK, Places
<1>3. /\ levels'[s][p] = l
      /\ \A t \in Sides, r \in Prices : ~(t = s /\ r = p) => levels'[t][r] = levels[t][r]
  BY DEF TypeOK, Places
<1>4. LevelsGood'
  BY <1>3 DEF LevelsGood, Keys
<1> QED
  BY <1>2, <1>3, <1>4

\* An order that leaves its list and the index.
LEMMA Unlisted ==
  ASSUME TypeOK, IndexExact, NEW id \in OrderIds, NEW s \in Sides, NEW p \in Prices,
         id \in Listed(s, p), order_map' = Unindex(id), Listed(s, p)' = Listed(s, p) \ {id},
         \A t \in Sides, r \in Prices : ~(t = s /\ r = p) => Listed(t, r)' = Listed(t, r)
  PROVE  order_map' \in [OrderIds -> Locations \cup {None}] /\ IndexExact'
<1>1. order_map' \in [OrderIds -> Locations \cup {None}]
  BY DEF TypeOK, Unindex
<1>2. order_map[id] = [side |-> s, price |-> p]
  BY DEF IndexExact
<1>3. SUFFICES ASSUME NEW x \in OrderIds, NEW t \in Sides, NEW r \in Prices
               PROVE  x \in Listed(t, r)' <=> order_map'[x] = [side |-> t, price |-> r]
  BY <1>1 DEF IndexExact
<1>4. x \in Listed(t, r) <=> order_map[x] = [side |-> t, price |-> r]
  BY DEF IndexExact
<1>5. CASE x = id
  <2>1. order_map'[x] = None /\ None # [side |-> t, price |-> r]
    BY <1>5, NoneAssumption DEF TypeOK, Unindex, Locations
  <2>2. x \notin Listed(t, r)'
    BY <1>2, <1>4, <1>5
  <2> QED
    BY <2>1, <2>2
<1>6. CASE x # id
  <2>1. order_map'[x] = order_map[x]
    BY <1>6 DEF TypeOK, Unindex
  <2>2. x \in Listed(t, r)' <=> x \in Listed(t, r)
    BY <1>6
  <2> QED
    BY <1>4, <2>1, <2>2
<1> QED
  BY <1>5, <1>6

\* An order that enters a list and the index.
LEMMA NewlyListed ==
  ASSUME TypeOK, IndexExact, NEW id \in OrderIds, NEW s \in Sides, NEW p \in Prices,
         order_map[id] = None,
         order_map' = [order_map EXCEPT ![id] = [side |-> s, price |-> p]],
         Listed(s, p)' = Listed(s, p) \cup {id},
         \A t \in Sides, r \in Prices : ~(t = s /\ r = p) => Listed(t, r)' = Listed(t, r)
  PROVE  order_map' \in [OrderIds -> Locations \cup {None}] /\ IndexExact'
<1>1. order_map' \in [OrderIds -> Locations \cup {None}]
  BY DEF TypeOK, Locations
<1>2. \A t \in Sides, r \in Prices : id \notin Listed(t, r)
  <2> SUFFICES ASSUME NEW t \in Sides, NEW r \in Prices
               PROVE  id \notin Listed(t, r)
    OBVIOUS
  <2>1. [side |-> t, price |-> r] # None
    BY NoneAssumption DEF Locations
  <2> QED
    BY <2>1 DEF IndexExact
<1>3. SUFFICES ASSUME NEW x \in OrderIds, NEW t \in Sides, NEW r \in Prices
               PROVE  x \in Listed(t, r)' <=> order_map'[x] = [side |-> t, price |-> r]
  BY <1>1 DEF IndexExact
<1>4. x \in Listed(t, r) <=> order_map[x] = [side |-> t, price |-> r]
  BY DEF IndexExact
<1>5. CASE x = id
  <2>1. order_map'[x] = [side |-> s, price |-> p]
    BY <1>5 DEF TypeOK
  <2>2. [side |-> s, price |-> p] = [side |-> t, price |-> r] <=> s = t /\ p = r
    OBVIOUS
  <2> QED
    BY <1>2, <1>5, <2>1, <2>2
<1>6. CASE x # id
  <2>1. order_map'[x] = order_map[x]
    BY <1>6 DEF TypeOK
  <2>2. x \in Listed(t, r)' <=> x \in Listed(t, r)
    BY <1>6
  <2> QED
    BY <1>4, <2>1, <2>2
<1> QED
  BY <1>5, <1>6

LEMMA InitInv == Init => IInv
<1> SUFFICES ASSUME Init PROVE IInv
  OBVIOUS
<1>1. TypeOK
  BY EmptySeq DEF Init, TypeOK, Replies
<1>2. \A s \in Sides, p \in Prices : levels[s][p] = None
  BY DEF Init
<1>3. LevelsGood
  BY <1>2 DEF LevelsGood, Keys
<1>4. IndexExact
  <2>1. \A s \in Sides, p \in Prices : [side |-> s, price |-> p] # None
    BY NoneAssumption DEF Locations
  <2>2. \A id \in OrderIds : order_map[id] = None
    BY DEF Init
  <2> QED
    BY <1>2, <2>1, <2>2 DEF IndexExact, Listed
<1>5. CallOnTrack
  BY DEF Init, CallOnTrack
<1> QED
  BY <1>1, <1>3, <1>4, <1>5 DEF IInv

LEMMA SubmitInv ==
  ASSUME IInv, NEW id \in OrderIds, NEW side \in Sides, NEW price \in Prices,
         NEW qty \in Quantities, Submit(id, side, price, qty)
  PROVE  IInv'
<1>1. Opposite(side) \in Sides /\ Keys(Opposite(side)) \in SUBSET Prices
  BY DEF Opposite, Sides, Keys
<1>2. First(Opposite(side), Keys(Opposite(side))) \in Prices \cup {End}
  BY <1>1, FirstProperties
<1> DEFINE c == [order_id |-> id, side |-> side, price |-> price, remaining |-> qty,
                 it |-> First(Opposite(side), Keys(Opposite(side)))]
<1>3. c \in Calls
  BY <1>2, QuantitiesAssumption DEF Calls
<1>4. levels' = levels /\ order_map' = order_map /\ call' = c
  BY DEF Submit
<1>5. TypeOK'
  BY <1>3, <1>4, EmptySeq DEF IInv, TypeOK, Submit, Replies
<1>6. LevelsGood' /\ IndexExact'
  BY <1>4 DEF IInv, LevelsGood, IndexExact, Keys, Listed
<1>7. CallOnTrack'
  BY <1>4 DEF CallOnTrack, Submit, Keys
<1> QED
  BY <1>5, <1>6, <1>7 DEF IInv

\* One trade, in terms of the place it happens at: the front order leaves, or
\* what is left of it stays in front, and the level goes with its last order.
FillEffect(s, p, l, result, left, at) ==
  /\ s = Opposite(call.side) /\ p = call.it /\ l = levels[s][p]
  /\ left = call.remaining - result.filled
  /\ at = IF result.level.orders = <<>> THEN None ELSE result.level
  /\ call \in Calls /\ call.remaining \in Nat \ {0} /\ s \in Sides
  /\ call.order_id \in OrderIds /\ p = First(s, Keys(s)) /\ p # End
  /\ p \in Keys(s) /\ p \in Prices /\ {q \in Keys(s) : Better(s, p, q)} = Keys(s) \ {p}
  /\ l # None /\ GoodLevel(l, s, p) /\ l \in PriceLevels /\ l.orders \in Seq(Orders)
  /\ result.order_id = l.orders[1].order_id /\ 1 \in DOMAIN l.orders
  /\ result.filled \in Nat \ {0} /\ result.filled <= call.remaining
  /\ FairLevel(result.level, s, p)
  /\ result.fully_filled => /\ result.level = remove_order(l, 1)
                           /\ result.filled = l.orders[1].remaining_quantity
  /\ ~result.fully_filled => /\ result.filled = call.remaining
                            /\ result.filled < l.orders[1].remaining_quantity
                            /\ result.level.orders # <<>>
                            /\ result.level.orders = TakeFromFront(l.orders, result.filled)
                            /\ IdsOf(result.level.orders) = IdsOf(l.orders)
  /\ executed' = Append(executed,
        [aggressive_order_id |-> call.order_id, passive_order_id |-> result.order_id,
         price |-> p, quantity |-> result.filled])
  /\ order_map' = IF result.fully_filled THEN Unindex(result.order_id) ELSE order_map
  /\ Places(s, p, at)
  /\ call' = [call EXCEPT !.remaining = left,
                !.it = IF result.level.orders = <<>> \/ left = 0 THEN After(s, p) ELSE p]
  /\ reply' = reply
  /\ levels' \in [Sides -> [Prices -> PriceLevels \cup {None}]] /\ LevelsGood'
  /\ levels'[s][p] = at
  /\ \A t \in Sides, r \in Prices : ~(t = s /\ r = p) => levels'[t][r] = levels[t][r]
  /\ left \in Nat /\ call' \in Calls /\ call'.order_id = call.order_id
  /\ call'.side = call.side /\ call'.remaining = left /\ call' # None
  /\ call'.it = IF result.level.orders = <<>> \/ left = 0 THEN After(s, p) ELSE p

LEMMA FillFacts ==
  ASSUME IInv, Fill
  PROVE  \E s, p, l, result, left, at : FillEffect(s, p, l, result, left, at)
<1>1. PICK s : s = Opposite(call.side)
  OBVIOUS
<1>2. PICK p : p = call.it
  OBVIOUS
<1>3. PICK l : l = levels[s][p]
  OBVIOUS
<1>4. PICK result : result = fill_front(l, call.remaining)
  OBVIOUS
<1>5. PICK left : left = call.remaining - result.filled
  OBVIOUS
<1>6. PICK at : at = IF result.level.orders = <<>> THEN None ELSE result.level
  OBVIOUS
<1>7. /\ call \in Calls /\ call.remaining \in Nat \ {0} /\ s \in Sides
      /\ call.order_id \in OrderIds /\ p = First(s, Keys(s)) /\ p # End
  BY <1>1, <1>2 DEF IInv, TypeOK, CallOnTrack, Fill, Matches, Calls, Opposite, Sides
<1>8. Keys(s) \in SUBSET Prices
  BY DEF Keys
<1>9. p \in Keys(s) /\ p \in Prices /\ {q \in Keys(s) : Better(s, p, q)} = Keys(s) \ {p}
  BY <1>7, <1>8, FirstProperties
<1>10. l # None /\ GoodLevel(l, s, p) /\ l \in PriceLevels /\ l.orders \in Seq(Orders)
  BY <1>3, <1>7, <1>9, LevelAt DEF IInv
<1>11. /\ result.order_id = l.orders[1].order_id /\ 1 \in DOMAIN l.orders
       /\ result.filled \in Nat \ {0} /\ result.filled <= call.remaining
       /\ FairLevel(result.level, s, p)
       /\ result.fully_filled => /\ result.level = remove_order(l, 1)
                                /\ result.filled = l.orders[1].remaining_quantity
       /\ ~result.fully_filled => /\ result.filled = call.remaining
                                 /\ result.filled < l.orders[1].remaining_quantity
                                 /\ result.level.orders # <<>>
                                 /\ result.level.orders = TakeFromFront(l.orders, result.filled)
                                 /\ IdsOf(result.level.orders) = IdsOf(l.orders)
  BY <1>4, <1>7, <1>9, <1>10, FillFront
<1>12. /\ executed' = Append(executed,
               [aggressive_order_id |-> call.order_id, passive_order_id |-> result.order_id,
                price |-> p, quantity |-> result.filled])
       /\ order_map' = IF result.fully_filled THEN Unindex(result.order_id) ELSE order_map
       /\ Places(s, p, at)
       /\ call' = [call EXCEPT !.remaining = left,
                     !.it = IF result.level.orders = <<>> \/ left = 0 THEN After(s, p) ELSE p]
       /\ reply' = reply
  BY <1>1, <1>2, <1>3, <1>4, <1>5, <1>6 DEF Fill, Places
<1>13. at = None \/ GoodLevel(at, s, p)
  BY <1>6, <1>11 DEF GoodLevel
<1>14. /\ levels' \in [Sides -> [Prices -> PriceLevels \cup {None}]] /\ LevelsGood'
       /\ levels'[s][p] = at
       /\ \A t \in Sides, r \in Prices : ~(t = s /\ r = p) => levels'[t][r] = levels[t][r]
  <2>1. TypeOK /\ LevelsGood /\ Places(s, p, at)
    BY <1>12 DEF IInv
  <2> QED
    BY <1>7, <1>9, <1>13, <2>1, ReplaceLevel
<1>18. /\ left \in Nat /\ call' \in Calls /\ call'.order_id = call.order_id
       /\ call'.side = call.side /\ call'.remaining = left /\ call' # None
       /\ call'.it = IF result.level.orders = <<>> \/ left = 0 THEN After(s, p) ELSE p
  <2>1. left \in Nat
    BY <1>5, <1>7, <1>11
  <2>2. {q \in Keys(s) : Better(s, p, q)} \in SUBSET Prices
    BY <1>8
  <2>3. After(s, p) \in Prices \cup {End}
    BY <1>7, <2>2, FirstProperties DEF After
  <2>4. PICK it : it = IF result.level.orders = <<>> \/ left = 0 THEN After(s, p) ELSE p
    OBVIOUS
  <2>5. it \in Prices \cup {End} /\ call' = [call EXCEPT !.remaining = left, !.it = it]
    BY <1>9, <1>12, <2>3, <2>4
  <2>6. /\ call' \in Calls /\ call'.order_id = call.order_id /\ call'.side = call.side
        /\ call'.remaining = left /\ call'.it = it
    BY <1>7, <2>1, <2>5 DEF Calls
  <2> QED
    BY <2>1, <2>4, <2>6, NoneAssumption
<1>19. FillEffect(s, p, l, result, left, at)
  BY <1>1, <1>2, <1>3, <1>5, <1>6, <1>7, <1>9, <1>10, <1>11, <1>12, <1>14, <1>18
  DEF FillEffect
<1> QED
  BY <1>19

\* A trade keeps the invariant; when the level went, the iterator moves to the
\* next one.
LEMMA FillInv ==
  ASSUME IInv, Fill
  PROVE  IInv'
<1>1. PICK s, p, l, result, left, at : FillEffect(s, p, l, result, left, at)
  BY FillFacts
<1>2. /\ s = Opposite(call.side) /\ p = call.it /\ l = levels[s][p]
      /\ left = call.remaining - result.filled
      /\ at = IF result.level.orders = <<>> THEN None ELSE result.level
  BY <1>1 DEF FillEffect
<1>7. /\ call \in Calls /\ call.remaining \in Nat \ {0} /\ s \in Sides
      /\ call.order_id \in OrderIds /\ p = First(s, Keys(s)) /\ p # End
  BY <1>1 DEF FillEffect
<1>8. Keys(s) \in SUBSET Prices
  BY DEF Keys
<1>9. p \in Keys(s) /\ p \in Prices /\ {q \in Keys(s) : Better(s, p, q)} = Keys(s) \ {p}
  BY <1>1 DEF FillEffect
<1>10. l # None /\ GoodLevel(l, s, p) /\ l \in PriceLevels /\ l.orders \in Seq(Orders)
  BY <1>1 DEF FillEffect
<1>11. /\ result.order_id = l.orders[1].order_id /\ 1 \in DOMAIN l.orders
       /\ result.filled \in Nat \ {0} /\ result.filled <= call.remaining
       /\ FairLevel(result.level, s, p)
       /\ result.fully_filled => /\ result.level = remove_order(l, 1)
                                /\ result.filled = l.orders[1].remaining_quantity
       /\ ~result.fully_filled => /\ result.filled = call.remaining
                                 /\ result.filled < l.orders[1].remaining_quantity
                                 /\ result.level.orders # <<>>
                                 /\ result.level.orders = TakeFromFront(l.orders, result.filled)
                                 /\ IdsOf(result.level.orders) = IdsOf(l.orders)
  BY <1>1 DEF FillEffect
<1>12. /\ executed' = Append(executed,
               [aggressive_order_id |-> call.order_id, passive_order_id |-> result.order_id,
                price |-> p, quantity |-> result.filled])
       /\ order_map' = IF result.fully_filled THEN Unindex(result.order_id) ELSE order_map
       /\ Places(s, p, at)
       /\ call' = [call EXCEPT !.remaining = left,
                     !.it = IF result.level.orders = <<>> \/ left = 0 THEN After(s, p) ELSE p]
       /\ reply' = reply
  BY <1>1 DEF FillEffect
<1>14. /\ levels' \in [Sides -> [Prices -> PriceLevels \cup {None}]] /\ LevelsGood'
       /\ levels'[s][p] = at
       /\ \A t \in Sides, r \in Prices : ~(t = s /\ r = p) => levels'[t][r] = levels[t][r]
  BY <1>1 DEF FillEffect
<1>15. result.order_id \in OrderIds /\ result.order_id \in Listed(s, p)
  BY <1>2, <1>10, <1>11, ListProperties DEF Listed, IdsOf
<1>16. /\ Listed(s, p) = IdsOf(l.orders)
       /\ Listed(s, p)' = IdsOf(result.level.orders)
       /\ \A t \in Sides, r \in Prices : ~(t = s /\ r = p) => Listed(t, r)' = Listed(t, r)
  <2>1. result.level \in PriceLevels /\ result.level # None /\ IdsOf(<<>>) = {}
    BY <1>11, NoneAssumption DEF FairLevel, IdsOf
  <2> QED
    BY <1>2, <1>10, <1>14, <2>1 DEF Listed
<1>17. order_map' \in [OrderIds -> Locations \cup {None}] /\ IndexExact'
  <2>1. CASE result.fully_filled
    <3>1. IdsOf(result.level.orders) = IdsOf(l.orders) \ {result.order_id}
      <4>1. result.level.orders = RemoveAt(l.orders, 1)
        BY <1>11, <2>1 DEF remove_order
      <4>2. FairLevel(l, s, p)
        BY <1>10 DEF GoodLevel
      <4>3. 1 \in DOMAIN l.orders
        BY <1>11
      <4>4. IdsOf(RemoveAt(l.orders, 1)) = IdsOf(l.orders) \ {l.orders[1].order_id}
        BY <1>7, <1>9, <4>2, <4>3, RemoveOrder
      <4> QED
        BY <1>11, <4>1, <4>4
    <3> QED
      BY <1>7, <1>9, <1>12, <1>15, <1>16, <2>1, <3>1, Unlisted DEF IInv
  <2>2. CASE ~result.fully_filled
    BY <1>11, <1>12, <1>16, <2>2 DEF IInv, IndexExact, TypeOK
  <2> QED
    BY <2>1, <2>2
<1>18. /\ left \in Nat /\ call' \in Calls /\ call'.order_id = call.order_id
       /\ call'.side = call.side /\ call'.remaining = left /\ call' # None
       /\ call'.it = IF result.level.orders = <<>> \/ left = 0 THEN After(s, p) ELSE p
  BY <1>1 DEF FillEffect
<1>19. CallOnTrack'
  <2>1. order_map'[call.order_id] = None
    BY <1>7, <1>12 DEF IInv, CallOnTrack, Unindex, TypeOK, Fill
  <2>2. ASSUME left > 0
        PROVE  call'.it = First(s, Keys(s)')
    <3>1. CASE result.level.orders = <<>>
      <4>1. Keys(s)' = Keys(s) \ {p}
        BY <1>2, <1>7, <1>14, <3>1 DEF Keys
      <4>2. call'.it = After(s, p)
        BY <1>18, <3>1
      <4> QED
        BY <1>9, <4>1, <4>2 DEF After
    <3>2. CASE result.level.orders # <<>>
      <4>1. result.level # None
        BY <1>11, NoneAssumption DEF FairLevel
      <4>2. Keys(s)' = Keys(s)
        BY <1>2, <1>7, <1>10, <1>14, <3>2, <4>1 DEF Keys
      <4>3. call'.it = p
        BY <1>18, <2>2, <3>2
      <4> QED
        BY <1>7, <4>2, <4>3
    <3> QED
      BY <3>1, <3>2
  <2>3. Opposite(call'.side) = s
    BY <1>2, <1>18
  <2> QED
    BY <1>18, <2>1, <2>2, <2>3 DEF CallOnTrack
<1>20. executed' \in Seq(Trades)
  <2> DEFINE rec == [aggressive_order_id |-> call.order_id, passive_order_id |-> result.order_id,
                     price |-> p, quantity |-> result.filled]
  <2>1. rec \in Trades
    BY <1>7, <1>9, <1>11, <1>15 DEF Trades
  <2> QED
    BY <1>12, <2>1, AppendProperties DEF IInv, TypeOK
<1>21. TypeOK'
  BY <1>12, <1>14, <1>17, <1>18, <1>20 DEF TypeOK, IInv
<1> QED
  BY <1>14, <1>17, <1>19, <1>21 DEF IInv

\* What is left of the order rests where its limit says, behind whoever is
\* there already, and is indexed; or nothing is left.
LEMMA FinishInv ==
  ASSUME IInv, Finish
  PROVE  IInv'
<1>1. PICK s : s = call.side
  OBVIOUS
<1>2. PICK p : p = call.price
  OBVIOUS
<1>3. PICK id : id = call.order_id
  OBVIOUS
<1>4. /\ call \in Calls /\ s \in Sides /\ p \in Prices /\ id \in OrderIds
      /\ call.remaining \in Nat /\ order_map[id] = None
      /\ call' = None /\ reply' = "Success" /\ executed' = executed
  BY <1>1, <1>2, <1>3 DEF IInv, TypeOK, CallOnTrack, Finish, Calls
<1>5. CallOnTrack'
  BY <1>4 DEF CallOnTrack
<1>6. CASE call.remaining = 0
  <2>1. levels' = levels /\ order_map' = order_map
    BY <1>6 DEF Finish
  <2>2. TypeOK'
    BY <1>4, <2>1 DEF IInv, TypeOK, Replies
  <2>3. LevelsGood' /\ IndexExact'
    BY <2>1 DEF IInv, LevelsGood, IndexExact, Keys, Listed
  <2> QED
    BY <1>5, <2>2, <2>3 DEF IInv
<1>7. CASE call.remaining > 0
  <2>1. PICK o : o = [order_id |-> id, remaining_quantity |-> call.remaining,
                      price |-> p, side |-> s]
    OBVIOUS
  <2>2. PICK l : l = IF levels[s][p] = None THEN EmptyLevel ELSE levels[s][p]
    OBVIOUS
  <2>3. /\ Places(s, p, add_order(l, o))
        /\ order_map' = [order_map EXCEPT ![id] = [side |-> s, price |-> p]]
    BY <1>1, <1>2, <1>3, <1>7, <2>1, <2>2 DEF Finish, RestRemainder, Places
  <2>4. o \in Orders /\ o.order_id = id /\ o.side = s /\ o.price = p
    BY <1>4, <1>7, <2>1 DEF Orders
  <2>5. FairLevel(l, s, p) /\ IdsOf(l.orders) = Listed(s, p)
    <3>1. CASE levels[s][p] = None
      <4>1. l.total_volume = 0 /\ l.orders = <<>> /\ l \in PriceLevels
        BY <2>2, <3>1, EmptySeq DEF EmptyLevel, PriceLevels
      <4>2. HasVolume(0, <<>>)
        BY SumEmpty, EmptySeq DEF HasVolume
      <4>3. SameLevel(<<>>, s, p) /\ IdsOf(<<>>) = {}
        BY DEF SameLevel, IdsOf
      <4> QED
        BY <3>1, <4>1, <4>2, <4>3 DEF FairLevel, Listed
    <3>2. CASE levels[s][p] # None
      BY <1>4, <2>2, <3>2 DEF IInv, LevelsGood, Keys, GoodLevel, Listed
    <3> QED
      BY <3>1, <3>2
  <2>6. id \notin Listed(s, p)
    <3>1. [side |-> s, price |-> p] # None
      BY <1>4, NoneAssumption DEF Locations
    <3> QED
      BY <1>4, <3>1 DEF IInv, IndexExact
  <2>7. PICK at : at = add_order(l, o)
    OBVIOUS
  <2>8. GoodLevel(at, s, p) /\ IdsOf(at.orders) = Listed(s, p) \cup {id}
    BY <1>4, <2>4, <2>5, <2>6, <2>7, AddOrder
  <2>9. /\ levels' \in [Sides -> [Prices -> PriceLevels \cup {None}]] /\ LevelsGood'
        /\ levels'[s][p] = at
        /\ \A t \in Sides, r \in Prices : ~(t = s /\ r = p) => levels'[t][r] = levels[t][r]
    <3>1. TypeOK /\ LevelsGood /\ Places(s, p, at)
      BY <2>3, <2>7 DEF IInv
    <3> QED
      BY <1>4, <2>8, <3>1, ReplaceLevel
  <2>10. /\ Listed(s, p)' = Listed(s, p) \cup {id}
         /\ \A t \in Sides, r \in Prices : ~(t = s /\ r = p) => Listed(t, r)' = Listed(t, r)
    <3>1. at # None
      BY <2>8, NoneAssumption DEF GoodLevel, FairLevel
    <3> QED
      BY <2>8, <2>9, <3>1 DEF Listed
  <2>11. order_map' \in [OrderIds -> Locations \cup {None}] /\ IndexExact'
    BY <1>4, <2>3, <2>10, NewlyListed DEF IInv
  <2>12. TypeOK'
    BY <1>4, <2>9, <2>11 DEF IInv, TypeOK, Replies
  <2> QED
    BY <1>5, <2>9, <2>11, <2>12 DEF IInv
<1> QED
  BY <1>4, <1>6, <1>7

\* What a cancel takes out, and what the level is then.
LEMMA CancelFacts ==
  ASSUME IInv, NEW id \in OrderIds, CancelOrder(id)
  PROVE  \E s \in Sides, p \in Prices : \E i \in DOMAIN levels[s][p].orders :
           /\ p \in Keys(s) /\ levels[s][p].orders[i].order_id = id
           /\ order_map[id] = [side |-> s, price |-> p]
           /\ Places(s, p, IF RemoveAt(levels[s][p].orders, i) = <<>>
                             THEN None ELSE remove_order(levels[s][p], i))
<1>1. order_map[id] \in Locations
  BY DEF IInv, TypeOK, CancelOrder
<1>2. PICK s \in Sides, p \in Prices : order_map[id] = [side |-> s, price |-> p]
  BY <1>1 DEF Locations
<1>3. p \in Keys(s)
  BY <1>2 DEF IInv, IndexExact, Listed, Keys
<1>4. PICK at : at = levels[s][p]
  OBVIOUS
<1>5. PICK i \in DOMAIN at.orders :
        /\ at.orders[i].order_id = id
        /\ LET left == [levels EXCEPT ![s][p] = remove_order(at, i)]
           IN  levels' = IF remove_order(at, i).orders = <<>>
                         THEN remove_empty_price_level(left, at.orders[i].side, at.orders[i].price)
                         ELSE left
  BY <1>2, <1>4 DEF CancelOrder
<1>6. at.orders[i].side = s /\ at.orders[i].price = p
  BY <1>3, <1>4 DEF IInv, LevelsGood, GoodLevel, FairLevel, SameLevel
<1>7. remove_order(at, i).orders = RemoveAt(at.orders, i)
  BY DEF remove_order
<1>8. levels' = [levels EXCEPT ![s][p] = IF RemoveAt(at.orders, i) = <<>> THEN None
                                         ELSE remove_order(at, i)]
  <2>1. CASE RemoveAt(at.orders, i) = <<>>
    BY <1>5, <1>6, <1>7, <2>1 DEF remove_empty_price_level, IInv, TypeOK
  <2>2. CASE RemoveAt(at.orders, i) # <<>>
    BY <1>5, <1>7, <2>2
  <2> QED
    BY <2>1, <2>2
<1>9. Places(s, p, IF RemoveAt(levels[s][p].orders, i) = <<>>
                     THEN None ELSE remove_order(levels[s][p], i))
  BY <1>4, <1>8 DEF Places
<1>10. i \in DOMAIN levels[s][p].orders /\ levels[s][p].orders[i].order_id = id
  BY <1>4, <1>5
<1> QED
  BY <1>2, <1>3, <1>9, <1>10

LEMMA CancelInv ==
  ASSUME IInv, NEW id \in OrderIds, CancelOrder(id)
  PROVE  IInv'
<1>1. PICK s \in Sides, p \in Prices : \E i \in DOMAIN levels[s][p].orders :
           /\ p \in Keys(s) /\ levels[s][p].orders[i].order_id = id
           /\ order_map[id] = [side |-> s, price |-> p]
           /\ Places(s, p, IF RemoveAt(levels[s][p].orders, i) = <<>>
                             THEN None ELSE remove_order(levels[s][p], i))
  BY CancelFacts
<1>2. PICK l : l = levels[s][p]
  OBVIOUS
<1>3. PICK i \in DOMAIN l.orders :
           /\ p \in Keys(s) /\ l.orders[i].order_id = id
           /\ order_map[id] = [side |-> s, price |-> p]
           /\ Places(s, p, IF RemoveAt(l.orders, i) = <<>> THEN None ELSE remove_order(l, i))
  BY <1>1, <1>2
<1>4. PICK at : at = IF RemoveAt(l.orders, i) = <<>> THEN None ELSE remove_order(l, i)
  OBVIOUS
<1>5. p \in Prices /\ l # None /\ GoodLevel(l, s, p) /\ FairLevel(l, s, p)
  BY <1>2, <1>3, LevelAt DEF IInv, GoodLevel
<1>6. /\ FairLevel(remove_order(l, i), s, p)
      /\ IdsOf(RemoveAt(l.orders, i)) = IdsOf(l.orders) \ {l.orders[i].order_id}
      /\ remove_order(l, i).orders = RemoveAt(l.orders, i)
  <2>1. remove_order(l, i).orders = RemoveAt(l.orders, i)
    BY DEF remove_order
  <2>2. i \in DOMAIN l.orders /\ FairLevel(l, s, p) /\ s \in Sides /\ p \in Prices
    BY <1>5
  <2> QED
    BY <2>1, <2>2, RemoveOrder
<1>7. at = None \/ GoodLevel(at, s, p)
  BY <1>4, <1>6 DEF GoodLevel
<1>8. /\ levels' \in [Sides -> [Prices -> PriceLevels \cup {None}]] /\ LevelsGood'
      /\ levels'[s][p] = at
      /\ \A t \in Sides, r \in Prices : ~(t = s /\ r = p) => levels'[t][r] = levels[t][r]
  <2>1. TypeOK /\ LevelsGood /\ Places(s, p, at)
    BY <1>3, <1>4 DEF IInv
  <2> QED
    BY <1>5, <1>7, <2>1, ReplaceLevel
<1>9. /\ Listed(s, p) = IdsOf(l.orders) /\ id \in Listed(s, p)
      /\ Listed(s, p)' = Listed(s, p) \ {id}
      /\ \A t \in Sides, r \in Prices : ~(t = s /\ r = p) => Listed(t, r)' = Listed(t, r)
  <2>1. IdsOf(<<>>) = {} /\ remove_order(l, i) # None
    BY <1>6, NoneAssumption DEF IdsOf, FairLevel
  <2>2. Listed(s, p) = IdsOf(l.orders) /\ id \in IdsOf(l.orders)
    BY <1>2, <1>3, <1>5 DEF Listed, IdsOf
  <2>3. Listed(s, p)' = IdsOf(RemoveAt(l.orders, i))
    BY <1>4, <1>6, <1>8, <2>1 DEF Listed
  <2> QED
    BY <1>3, <1>6, <1>8, <2>2, <2>3 DEF Listed
<1>10. order_map' = Unindex(id) /\ call' = call /\ executed' = <<>> /\ reply' = "Cancelled"
       /\ call = None
  BY DEF CancelOrder
<1>11. order_map' \in [OrderIds -> Locations \cup {None}] /\ IndexExact'
  BY <1>5, <1>9, <1>10, Unlisted DEF IInv
<1>12. TypeOK'
  BY <1>8, <1>10, <1>11, EmptySeq DEF IInv, TypeOK, Replies
<1>13. CallOnTrack'
  BY <1>10 DEF CallOnTrack
<1> QED
  BY <1>8, <1>11, <1>12, <1>13 DEF IInv

LEMMA InvStep == IInv /\ [Next]_vars => IInv'
<1> SUFFICES ASSUME IInv, [Next]_vars
             PROVE  IInv'
  OBVIOUS
<1>1. ASSUME levels' = levels, order_map' = order_map, call' = call,
             executed' \in Seq(Trades), reply' \in Replies
      PROVE  IInv'
  BY <1>1 DEF IInv, TypeOK, LevelsGood, IndexExact, CallOnTrack, Keys, Listed
<1>2. ASSUME NEW id \in OrderIds, SubmitDuplicate(id) \/ CancelMissing(id)
      PROVE  IInv'
  BY <1>1, <1>2, EmptySeq DEF SubmitDuplicate, CancelMissing, Replies, Rejections
<1>3. CASE UNCHANGED vars
  BY <1>1, <1>3 DEF vars, IInv, TypeOK
<1>4. CASE Next
  BY <1>2, <1>4, SubmitInv, FillInv, FinishInv, CancelInv DEF Next
<1> QED
  BY <1>3, <1>4

LEMMA InvAlways == Spec => []IInv
BY InitInv, InvStep, PTL DEF Spec

-----------------------------------------------------------------------------
(* What the checked invariants say.                                        *)

\* order_map_ and the lists always describe the same orders, for every set of
\* ids and prices: no dangling entry, no order that cannot be cancelled.
THEOREM IndexMatchesLevelsAlways == Spec => []IndexMatchesLevels
<1>1. ASSUME IInv
      PROVE  IndexMatchesLevels
  <2>1. ASSUME NEW id \in OrderIds, order_map[id] # None
        PROVE  LET at == levels[order_map[id].side][order_map[id].price]
               IN  at # None /\ \E i \in DOMAIN at.orders : at.orders[i].order_id = id
    <3>1. PICK s \in Sides, p \in Prices : order_map[id] = [side |-> s, price |-> p]
      BY <1>1, <2>1 DEF IInv, TypeOK, Locations
    <3>2. id \in Listed(s, p)
      BY <1>1, <3>1 DEF IInv, IndexExact
    <3> QED
      BY <3>1, <3>2 DEF Listed, IdsOf
  <2>2. ASSUME NEW s \in Sides, NEW p \in Keys(s), NEW i \in DOMAIN levels[s][p].orders
        PROVE  LET order == levels[s][p].orders[i]
               IN  /\ order.side = s /\ order.price = p
                   /\ order_map[order.order_id] = [side |-> s, price |-> p]
                   /\ \A j \in DOMAIN levels[s][p].orders :
                        levels[s][p].orders[j].order_id = order.order_id => i = j
    <3>1. /\ p \in Prices /\ levels[s][p] # None /\ levels[s][p].orders \in Seq(Orders)
          /\ SameLevel(levels[s][p].orders, s, p)
      BY <1>1, LevelAt DEF IInv, GoodLevel, FairLevel
    <3>2. /\ levels[s][p].orders[i].order_id \in OrderIds
          /\ levels[s][p].orders[i].order_id \in Listed(s, p)
      BY <3>1, ListProperties DEF Listed, IdsOf
    <3>3. order_map[levels[s][p].orders[i].order_id] = [side |-> s, price |-> p]
      BY <1>1, <3>1, <3>2 DEF IInv, IndexExact
    <3> QED
      BY <3>1, <3>3 DEF SameLevel
  <2> QED
    BY <1>1, <2>1, <2>2 DEF IndexMatchesLevels, IInv
<1> QED
  BY <1>1, InvAlways, PTL

\* Every level in the maps holds an order, so a best price is one somebody
\* trades at.
THEOREM NoEmptyLevelAlways == Spec => []NoEmptyLevel
<1>1. IInv => NoEmptyLevel
  BY DEF IInv, LevelsGood, GoodLevel, NoEmptyLevel
<1> QED
  BY <1>1, InvAlways, PTL

\* total_volume is the sum of the list, through every add, fill and cancel, for
\* every quantity and every length of the list.
THEOREM VolumeMatchesAlways == Spec => []VolumeMatches
<1>1. ASSUME IInv
      PROVE  VolumeMatches
  BY <1>1, LevelAt, VolumeUnique DEF IInv, GoodLevel, FairLevel, VolumeMatches
<1> QED
  BY <1>1, InvAlways, PTL

-----------------------------------------------------------------------------
(***************************************************************************)
(* The refinement.  A list maps to the queue of its ids and quantities;    *)
(* what the engine does to the list is what the book does to the queue.    *)
(***************************************************************************)
QueueOf(q) ==
  [i \in DOMAIN q |-> [id |-> q[i].order_id, qty |-> q[i].remaining_quantity]]

Resting == [id : OrderIds, qty : Nat \ {0}]

\* A function on 1 .. n is a sequence.
LEMMA FunctionIsSeq ==
  ASSUME NEW S, NEW n \in Nat, NEW f \in [1 .. n -> S]
  PROVE  f \in Seq(S) /\ Len(f) = n
<1>1. f \in Seq(S)
  BY SeqDef
<1>2. Len(f) \in Nat /\ 1 .. Len(f) = 1 .. n
  BY <1>1, LenProperties
<1> QED
  BY <1>1, <1>2

LEMMA QueueProperties ==
  ASSUME NEW q \in Seq(Orders)
  PROVE  /\ QueueOf(q) \in Seq(Resting) /\ Len(QueueOf(q)) = Len(q)
         /\ DOMAIN QueueOf(q) = DOMAIN q
         /\ QueueOf(q) = <<>> <=> q = <<>>
         /\ \A i \in DOMAIN q : QueueOf(q)[i] = [id |-> q[i].order_id, qty |-> q[i].remaining_quantity]
<1>1. Len(q) \in Nat /\ DOMAIN q = 1 .. Len(q) /\ (q = <<>> <=> Len(q) = 0)
  BY ListProperties
<1>2. QueueOf(q) \in [1 .. Len(q) -> Resting]
  BY <1>1, ListProperties DEF QueueOf, Resting
<1>3. QueueOf(q) \in Seq(Resting) /\ Len(QueueOf(q)) = Len(q)
  BY <1>1, <1>2, FunctionIsSeq
<1>4. QueueOf(q) = <<>> <=> Len(QueueOf(q)) = 0
  BY <1>3, EmptySeq
<1> QED
  BY <1>1, <1>3, <1>4 DEF QueueOf

LEMMA QueueAppend ==
  ASSUME NEW q \in Seq(Orders), NEW o \in Orders
  PROVE  QueueOf(Append(q, o))
           = Append(QueueOf(q), [id |-> o.order_id, qty |-> o.remaining_quantity])
<1>1. PICK e : e = [id |-> o.order_id, qty |-> o.remaining_quantity]
  OBVIOUS
<1>2. e \in Resting
  BY <1>1 DEF Resting, Orders
<1>3. /\ Append(q, o) \in Seq(Orders) /\ Len(Append(q, o)) = Len(q) + 1
      /\ \A i \in 1 .. Len(q) : Append(q, o)[i] = q[i]
      /\ Append(q, o)[Len(q) + 1] = o /\ Len(q) \in Nat /\ DOMAIN q = 1 .. Len(q)
  BY AppendProperties, LenProperties
<1>4. /\ Append(QueueOf(q), e) \in Seq(Resting) /\ Len(Append(QueueOf(q), e)) = Len(q) + 1
      /\ \A i \in 1 .. Len(q) : Append(QueueOf(q), e)[i] = QueueOf(q)[i]
      /\ Append(QueueOf(q), e)[Len(q) + 1] = e
  BY <1>2, QueueProperties, AppendProperties
<1>5. /\ QueueOf(Append(q, o)) \in Seq(Resting) /\ Len(QueueOf(Append(q, o))) = Len(q) + 1
      /\ DOMAIN Append(q, o) = 1 .. Len(q) + 1
  BY <1>3, QueueProperties, LenProperties
<1>6. \A i \in 1 .. Len(q) + 1 : QueueOf(Append(q, o))[i] = Append(QueueOf(q), e)[i]
  <2> SUFFICES ASSUME NEW i \in 1 .. Len(q) + 1
               PROVE  QueueOf(Append(q, o))[i] = Append(QueueOf(q), e)[i]
    OBVIOUS
  <2>1. QueueOf(Append(q, o))[i] = [id |-> Append(q, o)[i].order_id,
                                    qty |-> Append(q, o)[i].remaining_quantity]
    BY <1>3, <1>5, QueueProperties
  <2>2. CASE i = Len(q) + 1
    BY <1>1, <1>3, <1>4, <2>1, <2>2
  <2>3. CASE i \in 1 .. Len(q)
    BY <1>3, <1>4, <2>1, <2>3, QueueProperties
  <2>4. i = Len(q) + 1 \/ i \in 1 .. Len(q)
    <3>1. PICK n : n = Len(q)
      OBVIOUS
    <3> QED
      BY <1>3, <3>1
  <2> QED
    BY <2>2, <2>3, <2>4
<1> QED
  BY <1>1, <1>4, <1>5, <1>6, SeqEqual

LEMMA QueueRemove ==
  ASSUME NEW q \in Seq(Orders), NEW k \in DOMAIN q
  PROVE  QueueOf(RemoveAt(q, k)) = RemoveAt(QueueOf(q), k)
<1>1. /\ RemoveAt(q, k) \in Seq(Orders) /\ Len(RemoveAt(q, k)) = Len(q) - 1
      /\ DOMAIN RemoveAt(q, k) = 1 .. Len(q) - 1
      /\ \A i \in 1 .. Len(q) - 1 : RemoveAt(q, k)[i] = q[IF i < k THEN i ELSE i + 1]
  BY RemoveAtProperties
<1>2. /\ RemoveAt(QueueOf(q), k) \in Seq(Resting) /\ Len(RemoveAt(QueueOf(q), k)) = Len(q) - 1
      /\ \A i \in 1 .. Len(q) - 1 :
           RemoveAt(QueueOf(q), k)[i] = QueueOf(q)[IF i < k THEN i ELSE i + 1]
  BY QueueProperties, RemoveAtProperties
<1>3. Len(q) \in Nat /\ DOMAIN q = 1 .. Len(q)
  BY LenProperties
<1>4. /\ QueueOf(RemoveAt(q, k)) \in Seq(Resting) /\ Len(QueueOf(RemoveAt(q, k))) = Len(q) - 1
  BY <1>1, QueueProperties
<1>5. PICK t : t = RemoveAt(q, k)
  OBVIOUS
<1>6. \A i \in 1 .. Len(q) - 1 : QueueOf(t)[i] = RemoveAt(QueueOf(q), k)[i]
  <2> SUFFICES ASSUME NEW i \in 1 .. Len(q) - 1
               PROVE  QueueOf(t)[i] = RemoveAt(QueueOf(q), k)[i]
    OBVIOUS
  <2>1. PICK j : j = IF i < k THEN i ELSE i + 1
    OBVIOUS
  <2>2. j \in DOMAIN q
    BY <1>3, <2>1
  <2>3. t[i] = q[j] /\ RemoveAt(QueueOf(q), k)[i] = QueueOf(q)[j]
    BY <1>1, <1>2, <1>5, <2>1
  <2>4. t \in Seq(Orders) /\ i \in DOMAIN t
    BY <1>1, <1>5
  <2>5. QueueOf(t)[i] = [id |-> t[i].order_id, qty |-> t[i].remaining_quantity]
    BY <2>4 DEF QueueOf
  <2>6. QueueOf(q)[j] = [id |-> q[j].order_id, qty |-> q[j].remaining_quantity]
    BY <2>2 DEF QueueOf
  <2> QED
    BY <2>3, <2>5, <2>6
<1> QED
  BY <1>2, <1>4, <1>5, <1>6, SeqEqual

LEMMA QueueFront ==
  ASSUME NEW q \in Seq(Orders), q # <<>>
  PROVE  /\ Head(QueueOf(q)) = [id |-> q[1].order_id, qty |-> q[1].remaining_quantity]
         /\ QueueOf(RemoveAt(q, 1)) = Tail(QueueOf(q))
<1>1. 1 \in DOMAIN q /\ QueueOf(q) \in Seq(Resting) /\ QueueOf(q) # <<>>
  BY QueueProperties, FrontProperties
<1>2. Head(QueueOf(q)) = QueueOf(q)[1]
  BY <1>1
<1>3. QueueOf(RemoveAt(q, 1)) = RemoveAt(QueueOf(q), 1)
  BY <1>1, QueueRemove
<1>4. PICK r : r = QueueOf(q)
  OBVIOUS
<1>5. /\ Tail(r) \in Seq(Resting) /\ Len(Tail(r)) = Len(r) - 1
      /\ \A i \in 1 .. Len(Tail(r)) : Tail(r)[i] = r[i + 1]
  BY <1>1, <1>4, HeadTailProperties
<1>6. /\ RemoveAt(r, 1) \in Seq(Resting) /\ Len(RemoveAt(r, 1)) = Len(r) - 1
      /\ \A i \in 1 .. Len(r) - 1 : RemoveAt(r, 1)[i] = r[IF i < 1 THEN i ELSE i + 1]
  <2>1. r \in Seq(Resting) /\ 1 \in DOMAIN r
    BY <1>1, <1>4, QueueProperties
  <2> QED
    BY <2>1, RemoveAtProperties
<1>7. \A i \in 1 .. Len(Tail(r)) : Tail(r)[i] = RemoveAt(r, 1)[i]
  BY <1>5, <1>6
<1>8. Tail(r) = RemoveAt(r, 1)
  BY <1>5, <1>6, <1>7, SeqEqual
<1> QED
  BY <1>1, <1>2, <1>3, <1>4, <1>8, QueueProperties

LEMMA QueueTake ==
  ASSUME NEW q \in Seq(Orders), q # <<>>, NEW n \in Nat, n < q[1].remaining_quantity
  PROVE  QueueOf(TakeFromFront(q, n)) = [QueueOf(q) EXCEPT ![1].qty = @ - n]
<1>1. /\ 1 \in DOMAIN q /\ q[1] \in Orders /\ QueueOf(q)[1].qty = q[1].remaining_quantity
      /\ QueueOf(q)[1] = [id |-> q[1].order_id, qty |-> q[1].remaining_quantity]
      /\ DOMAIN QueueOf(q) = DOMAIN q
  BY QueueProperties, FrontProperties
<1>2. PICK e : e = [q[1] EXCEPT !.remaining_quantity = @ - n]
  OBVIOUS
<1>3. e.order_id = q[1].order_id /\ e.remaining_quantity = q[1].remaining_quantity - n
  BY <1>1, <1>2 DEF Orders
<1>4. TakeFromFront(q, n) = [q EXCEPT ![1] = e]
  BY <1>2 DEF TakeFromFront
<1>5. QueueOf([q EXCEPT ![1] = e]) = [QueueOf(q) EXCEPT ![1].qty = @ - n]
  BY <1>1, <1>3 DEF QueueOf
<1> QED
  BY <1>4, <1>5

-----------------------------------------------------------------------------
(* The state the book is mapped from.                                      *)

TheBook == [s \in Sides |-> [p \in Prices |-> BookOf(s, p)]]

TheTaker ==
  IF call = None THEN None
  ELSE [id |-> call.order_id, side |-> call.side, price |-> call.price, qty |-> call.remaining]

TheTrades == [i \in DOMAIN executed |-> ToTradeRec(executed[i])]

\* The book's copies of the shared vocabulary are the engine's.
LEMMA SameVocabulary ==
  /\ Book!Bid = Bid /\ Book!Ask = Ask /\ Book!Sides = Sides
  /\ Book!Replies = Replies /\ Book!Rejections = Rejections
  /\ \A s : Book!Opposite(s) = Opposite(s)
  /\ \A s, p, q : Book!Better(s, p, q) = Better(s, p, q)
  /\ \A q, i : Book!RemoveAt(q, i) = RemoveAt(q, i)
BY DEF Book!Bid, Bid, Book!Ask, Ask, Book!Sides, Sides, Book!Replies, Replies,
       Book!Rejections, Rejections, Book!Opposite, Opposite, Book!Better, Better,
       Book!RemoveAt, RemoveAt

\* A queue of the book is the list of the level, or nothing.
LEMMA BookQueues ==
  ASSUME IInv, NEW s \in Sides, NEW p \in Prices
  PROVE  /\ levels[s][p] = None => BookOf(s, p) = <<>>
         /\ levels[s][p] # None => /\ BookOf(s, p) = QueueOf(levels[s][p].orders)
                                   /\ BookOf(s, p) # <<>>
         /\ BookOf(s, p) \in Seq(Resting)
         /\ p \in Keys(s) <=> BookOf(s, p) # <<>>
<1>1. CASE levels[s][p] = None
  BY <1>1, EmptySeq DEF BookOf, Keys
<1>2. CASE levels[s][p] # None
  <2>1. p \in Keys(s)
    BY <1>2 DEF Keys
  <2>2. levels[s][p].orders \in Seq(Orders) /\ levels[s][p].orders # <<>>
    BY <2>1, LevelAt DEF IInv, GoodLevel
  <2>3. BookOf(s, p) = QueueOf(levels[s][p].orders)
    BY <1>2 DEF BookOf, QueueOf
  <2> QED
    BY <1>2, <2>1, <2>2, <2>3, QueueProperties
<1> QED
  BY <1>1, <1>2

\* The index knows exactly the orders that rest in the book.
LEMMA LiveIsIndexed ==
  ASSUME IInv, NEW id \in OrderIds
  PROVE  Book!IsLive(id) <=> order_map[id] # None
<1>1. \A s \in Sides, p \in Prices :
        id \in Listed(s, p) <=> \E i \in DOMAIN BookOf(s, p) : BookOf(s, p)[i].id = id
  <2> SUFFICES ASSUME NEW s \in Sides, NEW p \in Prices
               PROVE  id \in Listed(s, p) <=> \E i \in DOMAIN BookOf(s, p) : BookOf(s, p)[i].id = id
    OBVIOUS
  <2>1. CASE levels[s][p] = None
    BY <2>1 DEF Listed, BookOf
  <2>2. CASE levels[s][p] # None
    BY <2>2 DEF Listed, BookOf, IdsOf
  <2> QED
    BY <2>1, <2>2
<1>2. order_map[id] # None <=> \E s \in Sides, p \in Prices : id \in Listed(s, p)
  <2>1. \A s \in Sides, p \in Prices : [side |-> s, price |-> p] # None
    BY NoneAssumption DEF Locations
  <2>2. order_map[id] # None => \E s \in Sides, p \in Prices : order_map[id] = [side |-> s, price |-> p]
    BY DEF IInv, TypeOK, Locations
  <2>3. \A s \in Sides, p \in Prices :
          id \in Listed(s, p) <=> order_map[id] = [side |-> s, price |-> p]
    BY DEF IInv, IndexExact
  <2>4. ASSUME NEW s \in Sides, NEW p \in Prices, id \in Listed(s, p)
        PROVE  order_map[id] # None
    <3>1. order_map[id] = [side |-> s, price |-> p]
      BY <2>3, <2>4
    <3>2. [side |-> s, price |-> p] # None
      BY <2>1
    <3> QED
      BY <3>1, <3>2
  <2>5. ASSUME order_map[id] # None
        PROVE  \E s \in Sides, p \in Prices : id \in Listed(s, p)
    <3>1. PICK s \in Sides, p \in Prices : order_map[id] = [side |-> s, price |-> p]
      BY <2>2, <2>5
    <3>2. id \in Listed(s, p)
      BY <2>3, <3>1
    <3> QED
      BY <3>2
  <2> QED
    BY <2>4, <2>5
<1>3. Book!IsLive(id) <=> \E s \in Sides, p \in Prices :
        \E i \in DOMAIN BookOf(s, p) : BookOf(s, p)[i].id = id
  BY SameVocabulary DEF Book!IsLive
<1> QED
  BY <1>1, <1>2, <1>3

\* An id names one order of the book at most.
LEMMA OnePlaceEach ==
  ASSUME IInv, NEW s \in Sides, NEW p \in Prices, NEW i \in DOMAIN BookOf(s, p),
         NEW t \in Sides, NEW q \in Prices, NEW j \in DOMAIN BookOf(t, q),
         BookOf(s, p)[i].id = BookOf(t, q)[j].id
  PROVE  s = t /\ p = q /\ i = j
<1>1. ASSUME NEW u \in Sides, NEW r \in Prices, NEW k \in DOMAIN BookOf(u, r)
      PROVE  /\ k \in DOMAIN levels[u][r].orders /\ GoodLevel(levels[u][r], u, r)
             /\ BookOf(u, r)[k].id = levels[u][r].orders[k].order_id
             /\ order_map[BookOf(u, r)[k].id] = [side |-> u, price |-> r]
  <2>1. levels[u][r] # None
    <3>1. BookOf(u, r) # <<>>
      BY EmptySeq
    <3> QED
      BY <3>1, BookQueues
  <2>2. r \in Keys(u)
    BY <2>1 DEF Keys
  <2>3. GoodLevel(levels[u][r], u, r) /\ levels[u][r].orders \in Seq(Orders)
    BY <2>2, LevelAt DEF IInv
  <2>4. BookOf(u, r) = QueueOf(levels[u][r].orders)
    BY <2>1 DEF BookOf, QueueOf
  <2>5. k \in DOMAIN levels[u][r].orders
        /\ BookOf(u, r)[k].id = levels[u][r].orders[k].order_id
    <3>1. PICK x : x = levels[u][r].orders
      OBVIOUS
    <3>2. /\ DOMAIN QueueOf(x) = DOMAIN x
          /\ \A n \in DOMAIN x :
               QueueOf(x)[n] = [id |-> x[n].order_id, qty |-> x[n].remaining_quantity]
      BY <2>3, <3>1, QueueProperties
    <3>3. BookOf(u, r) = QueueOf(x)
      BY <2>4, <3>1
    <3>4. k \in DOMAIN x
      BY <3>2, <3>3
    <3>5. QueueOf(x)[k].id = x[k].order_id
      BY <3>2, <3>4
    <3> QED
      BY <3>1, <3>3, <3>4, <3>5
  <2>6. levels[u][r].orders[k].order_id \in OrderIds
    BY <2>3, <2>5, ListProperties
  <2>7. levels[u][r].orders[k].order_id \in Listed(u, r)
    BY <2>1, <2>5 DEF Listed, IdsOf
  <2> QED
    BY <2>3, <2>5, <2>6, <2>7 DEF IInv, IndexExact
<1>2. /\ i \in DOMAIN levels[s][p].orders /\ GoodLevel(levels[s][p], s, p)
      /\ BookOf(s, p)[i].id = levels[s][p].orders[i].order_id
      /\ order_map[BookOf(s, p)[i].id] = [side |-> s, price |-> p]
  BY <1>1
<1>3. /\ j \in DOMAIN levels[t][q].orders
      /\ BookOf(t, q)[j].id = levels[t][q].orders[j].order_id
      /\ order_map[BookOf(t, q)[j].id] = [side |-> t, price |-> q]
  BY <1>1
<1>4. [side |-> s, price |-> p] = [side |-> t, price |-> q]
  BY <1>2, <1>3
<1>5. s = t /\ p = q
  BY <1>4
<1>6. SameLevel(levels[s][p].orders, s, p)
  BY <1>2 DEF GoodLevel, FairLevel
<1>7. PICK x : x = levels[s][p].orders
  OBVIOUS
<1>8. /\ i \in DOMAIN x /\ j \in DOMAIN x /\ x[j].order_id = x[i].order_id
      /\ SameLevel(x, s, p)
  BY <1>2, <1>3, <1>5, <1>6, <1>7
<1> QED
  BY <1>5, <1>8 DEF SameLevel

\* The book's best price is the first key of the map.
LEMMA BestIsFirst ==
  ASSUME IInv, NEW side \in Sides, NEW p \in Prices
  PROVE  Book!IsBest(side, p) <=> p \in Keys(side) /\ p = First(side, Keys(side))
<1>1. Book!Live(side) = Keys(side)
  <2>1. Book!Live(side) = {q \in Prices : BookOf(side, q) # <<>>}
    BY DEF Book!Live
  <2> QED
    BY <2>1, BookQueues DEF Keys
<1>2. Keys(side) \in SUBSET Prices
  BY DEF Keys
<1>3. Book!IsBest(side, p) <=> p \in Keys(side) /\ \A q \in Keys(side) : ~Better(side, q, p)
  BY <1>1, SameVocabulary DEF Book!IsBest
<1>4. PICK f : f = First(side, Keys(side))
  OBVIOUS
<1>5. Keys(side) # {} => f \in Keys(side) /\ \A q \in Keys(side) : ~Better(side, q, f)
  BY <1>2, <1>4, FirstProperties
<1>6. ASSUME p \in Keys(side), \A q \in Keys(side) : ~Better(side, q, p)
      PROVE  p = f
  <2>1. ~Better(side, p, f) /\ ~Better(side, f, p) /\ p \in Nat /\ f \in Nat
    BY <1>2, <1>5, <1>6, PricesAssumption
  <2> QED
    BY <2>1 DEF Better
<1> QED
  BY <1>3, <1>4, <1>5, <1>6

\* The loop of the engine goes on exactly when the book has a price to match.
LEMMA MatchesIsMatch ==
  ASSUME IInv, call # None, NEW p \in Prices
  PROVE  Book!MatchesAt(p) <=> Matches(call) /\ p = call.it
<1>1. PICK s : s = Opposite(call.side)
  OBVIOUS
<1>2. s \in Sides /\ call \in Calls
  BY <1>1 DEF Opposite, Sides, IInv, TypeOK
<1>3. Book!MatchesAt(p) <=> /\ call.remaining > 0 /\ Book!IsBest(s, p)
                            /\ IF call.side = Bid THEN p <= call.price ELSE p >= call.price
  BY <1>1, SameVocabulary DEF Book!MatchesAt, Book!Crosses
<1>4. call.remaining > 0 => call.it = First(s, Keys(s))
  BY <1>1 DEF IInv, CallOnTrack
<1>5. Book!IsBest(s, p) <=> p \in Keys(s) /\ p = First(s, Keys(s))
  BY <1>2, BestIsFirst
<1>6. call.remaining > 0 => (p \in Keys(s) /\ p = First(s, Keys(s)) <=> p = call.it)
  <2>1. Keys(s) \in SUBSET Prices
    BY DEF Keys
  <2> QED
    BY <1>2, <1>4, <2>1, FirstProperties
<1>7. p # End
  BY FirstProperties, <1>2
<1> QED
  BY <1>3, <1>4, <1>5, <1>6, <1>7 DEF Matches

-----------------------------------------------------------------------------
(* Step by step.                                                           *)

\* A level that takes a place in the maps puts its queue in the book.
LEMMA BookPlaces ==
  ASSUME NEW s \in Sides, NEW p \in Prices, NEW at, levels'[s][p] = at,
         \A t \in Sides, r \in Prices : ~(t = s /\ r = p) => levels'[t][r] = levels[t][r]
  PROVE  /\ BookOf(s, p)' = IF at = None THEN <<>> ELSE QueueOf(at.orders)
         /\ \A t \in Sides, r \in Prices : ~(t = s /\ r = p) => BookOf(t, r)' = BookOf(t, r)
         /\ TheBook' = [TheBook EXCEPT ![s][p] = IF at = None THEN <<>> ELSE QueueOf(at.orders)]
<1>1. BookOf(s, p)' = IF at = None THEN <<>> ELSE QueueOf(at.orders)
  BY DEF BookOf, QueueOf
<1>2. \A t \in Sides, r \in Prices : ~(t = s /\ r = p) => BookOf(t, r)' = BookOf(t, r)
  BY DEF BookOf
<1>3. PICK b : b = IF at = None THEN <<>> ELSE QueueOf(at.orders)
  OBVIOUS
<1>4. BookOf(s, p)' = b
  BY <1>1, <1>3
<1>5. TheBook' = [TheBook EXCEPT ![s][p] = b]
  <2>1. PICK old, new : old = TheBook /\ new = TheBook'
    OBVIOUS
  <2>2. /\ new = [t \in Sides |-> [r \in Prices |-> new[t][r]]]
        /\ old = [t \in Sides |-> [r \in Prices |-> old[t][r]]]
    BY <2>1 DEF TheBook
  <2>3. ASSUME NEW t \in Sides, NEW r \in Prices
        PROVE  new[t][r] = BookOf(t, r)' /\ old[t][r] = BookOf(t, r)
    BY <2>1 DEF TheBook
  <2>4. \A t \in Sides, r \in Prices : new[t][r] = IF t = s /\ r = p THEN b ELSE old[t][r]
    BY <1>2, <1>4, <2>3
  <2>5. PICK rows : rows = [old EXCEPT ![s][p] = b]
    OBVIOUS
  <2>6. \A t \in Sides : /\ new[t] = [r \in Prices |-> new[t][r]]
                         /\ old[t] = [r \in Prices |-> old[t][r]]
    BY <2>2
  <2>7. \A t \in Sides : new[t] = rows[t]
    <3> SUFFICES ASSUME NEW t \in Sides
                 PROVE  new[t] = rows[t]
      OBVIOUS
    <3>1. CASE t = s
      <4>1. rows[t] = [old[s] EXCEPT ![p] = b]
        BY <2>2, <2>5, <3>1
      <4>2. \A r \in Prices : new[t][r] = [old[s] EXCEPT ![p] = b][r]
        BY <2>4, <2>6, <3>1
      <4> QED
        BY <2>6, <3>1, <4>1, <4>2
    <3>2. CASE t # s
      <4>1. rows[t] = old[t]
        BY <2>2, <2>5, <3>2
      <4>2. \A r \in Prices : new[t][r] = old[t][r]
        BY <2>4, <3>2
      <4> QED
        BY <2>6, <4>1, <4>2
    <3> QED
      BY <3>1, <3>2
  <2>8. rows = [t \in Sides |-> rows[t]] /\ new = [t \in Sides |-> new[t]]
    BY <2>2, <2>5
  <2>9. new = [old EXCEPT ![s][p] = b]
    BY <2>5, <2>7, <2>8
  <2> QED
    BY <2>1, <2>9
<1> QED
  BY <1>1, <1>2, <1>3, <1>5

\* A record of the call is not None.
LEMMA TakerIs ==
  ASSUME IInv, call # None
  PROVE  /\ TheTaker = [id |-> call.order_id, side |-> call.side, price |-> call.price,
                        qty |-> call.remaining]
         /\ TheTaker # None /\ call \in Calls
<1>1. call \in Calls
  BY DEF IInv, TypeOK
<1>2. TheTaker = [id |-> call.order_id, side |-> call.side, price |-> call.price,
                  qty |-> call.remaining]
  BY DEF TheTaker
<1>3. TheTaker \in Book!Takers
  BY <1>1, <1>2, SameVocabulary DEF Calls, Book!Takers
<1> QED
  BY <1>1, <1>2, <1>3, NoneAssumption

\* No trade of the engine is no trade of the book.
LEMMA NoTrades ==
  /\ executed = <<>> => TheTrades = <<>>
  /\ executed' = <<>> => TheTrades' = <<>>
<1>1. ASSUME NEW f \in [1 .. 0 -> {}]
      PROVE  f = <<>>
  <2>1. f \in Seq({}) /\ Len(f) = 0
    BY FunctionIsSeq
  <2> QED
    BY <2>1, EmptySeq
<1>2. executed = <<>> => TheTrades \in [1 .. 0 -> {}]
  BY DEF TheTrades
<1>3. executed' = <<>> => TheTrades' \in [1 .. 0 -> {}]
  BY DEF TheTrades
<1> QED
  BY <1>1, <1>2, <1>3

\* Another trade of the engine is another trade of the book.
LEMMA TradesAppend ==
  ASSUME executed \in Seq(Trades), NEW t \in Trades, executed' = Append(executed, t)
  PROVE  TheTrades' = Append(TheTrades, ToTradeRec(t))
<1> DEFINE Recs == {ToTradeRec(x) : x \in Trades}
<1>1. PICK n : n = Len(executed)
  OBVIOUS
<1>2. /\ n \in Nat /\ DOMAIN executed = 1 .. n /\ DOMAIN executed' = 1 .. n + 1
      /\ \A i \in 1 .. n : executed[i] \in Trades /\ executed'[i] = executed[i]
      /\ executed'[n + 1] = t
  BY <1>1, AppendProperties, LenProperties, ElementOfSeq
<1>3. TheTrades \in [1 .. n -> Recs]
  BY <1>2 DEF TheTrades
<1>4. TheTrades \in Seq(Recs) /\ Len(TheTrades) = n
  BY <1>2, <1>3, FunctionIsSeq
<1>5. ToTradeRec(t) \in Recs
  OBVIOUS
<1> HIDE DEF Recs
<1>6. PICK r : r = ToTradeRec(t)
  OBVIOUS
<1>7. /\ Append(TheTrades, r) \in Seq(Recs) /\ Len(Append(TheTrades, r)) = n + 1
      /\ \A i \in 1 .. n : Append(TheTrades, r)[i] = TheTrades[i]
      /\ Append(TheTrades, r)[n + 1] = r
  BY <1>4, <1>5, <1>6, AppendProperties
<1>8. \A i \in 1 .. n + 1 : TheTrades'[i] = Append(TheTrades, r)[i]
  <2> SUFFICES ASSUME NEW i \in 1 .. n + 1
               PROVE  TheTrades'[i] = Append(TheTrades, r)[i]
    OBVIOUS
  <2>1. CASE i = n + 1
    BY <1>2, <1>6, <1>7, <2>1 DEF TheTrades
  <2>2. CASE i \in 1 .. n
    BY <1>2, <1>7, <2>2 DEF TheTrades
  <2>3. i = n + 1 \/ i \in 1 .. n
    <3>1. n \in Nat
      BY <1>2
    <3> QED
      BY <3>1
  <2> QED
    BY <2>1, <2>2, <2>3
<1>9. DOMAIN TheTrades' = 1 .. n + 1
  BY <1>2 DEF TheTrades
<1>10. \A i \in 1 .. n + 1 : Append(TheTrades, r)[i] \in Recs
  BY <1>7, ElementOfSeq
<1>11. TheTrades' \in [1 .. n + 1 -> Recs]
  <2>1. TheTrades' = [i \in 1 .. n + 1 |-> ToTradeRec(executed'[i])]
    BY <1>2 DEF TheTrades
  <2> QED
    BY <1>8, <1>10, <2>1
<1>12. TheTrades' \in Seq(Recs) /\ Len(TheTrades') = n + 1
  BY <1>2, <1>11, FunctionIsSeq
<1> QED
  BY <1>6, <1>7, <1>8, <1>12, SeqEqual

\* Nothing of the book changes when the maps do not.
LEMMA BookUnchanged == levels' = levels => TheBook' = TheBook
BY DEF TheBook, BookOf

LEMMA InitBook == Init => Book!Init
<1> SUFFICES ASSUME Init PROVE Book!Init
  OBVIOUS
<1>1. \A s \in Sides, p \in Prices : BookOf(s, p) = <<>>
  BY DEF Init, BookOf
<1>2. TheTrades = <<>>
  BY NoTrades DEF Init
<1> QED
  BY <1>1, <1>2, SameVocabulary DEF Init, Book!Init, TheTrades

LEMMA SubmitBook ==
  ASSUME IInv, NEW id \in OrderIds, NEW side \in Sides, NEW price \in Prices,
         NEW qty \in Quantities, Submit(id, side, price, qty), IInv'
  PROVE  Book!Submit(id, side, price, qty)
<1>1. TheBook' = TheBook /\ TheTrades' = <<>>
  <2>1. executed' = <<>> => TheTrades' = <<>>
    BY NoTrades
  <2> QED
    BY <2>1, BookUnchanged DEF Submit
<1>2. ~Book!IsLive(id)
  BY LiveIsIndexed DEF Submit
<1>3. TheTaker = None /\ TheTaker' = [id |-> id, side |-> side, price |-> price, qty |-> qty]
  <2>1. call' # None
    <3>1. call' \in Calls
      <4>1. Opposite(side) \in Sides /\ Keys(Opposite(side)) \in SUBSET Prices
        BY DEF Opposite, Sides, Keys
      <4>2. First(Opposite(side), Keys(Opposite(side))) \in Prices \cup {End}
        BY <4>1, FirstProperties
      <4> QED
        BY <4>2, QuantitiesAssumption DEF Submit, Calls
    <3> QED
      BY <3>1, NoneAssumption
  <2> QED
    BY <2>1 DEF Submit, TheTaker
<1> QED
  BY <1>1, <1>2, <1>3 DEF Submit, Book!Submit, TheBook, TheTaker, TheTrades

LEMMA QuietBook ==
  ASSUME IInv, NEW id \in OrderIds, SubmitDuplicate(id) \/ CancelMissing(id)
  PROVE  Book!Next
<1>1. TheBook' = TheBook /\ TheTrades' = <<>> /\ call = None /\ call' = None
  <2>1. executed' = <<>> => TheTrades' = <<>>
    BY NoTrades
  <2> QED
    BY <2>1, BookUnchanged DEF SubmitDuplicate, CancelMissing
<1>2. CASE SubmitDuplicate(id)
  <2>1. Book!IsLive(id)
    BY <1>2, LiveIsIndexed DEF SubmitDuplicate
  <2>2. Book!Reject(id, "DuplicateId")
    BY <1>1, <1>2, <2>1 DEF SubmitDuplicate, Book!Reject, TheBook, TheTrades
  <2>3. "DuplicateId" \in Book!Rejections
    BY DEF Book!Rejections
  <2> QED
    BY <2>2, <2>3 DEF Book!Next
<1>3. CASE CancelMissing(id)
  <2>1. ~Book!IsLive(id)
    BY <1>3, LiveIsIndexed DEF CancelMissing
  <2>2. Book!CancelMissing(id)
    BY <1>1, <1>3, <2>1 DEF CancelMissing, Book!CancelMissing, TheBook, TheTrades
  <2> QED
    BY <2>2 DEF Book!Next
<1> QED
  BY <1>2, <1>3

\* A trade at the front of the best level is the book's trade.
LEMMA FillBook ==
  ASSUME IInv, Fill, IInv'
  PROVE  Book!Fill
<1>1. PICK s, p, l, result, left, at : FillEffect(s, p, l, result, left, at)
  BY FillFacts
<1>2. /\ s = Opposite(call.side) /\ p = call.it /\ l = levels[s][p]
      /\ left = call.remaining - result.filled
      /\ at = IF result.level.orders = <<>> THEN None ELSE result.level
  BY <1>1 DEF FillEffect
<1>7. /\ call \in Calls /\ call.remaining \in Nat \ {0} /\ s \in Sides /\ p \in Prices
      /\ call.order_id \in OrderIds
      /\ l # None /\ l.orders \in Seq(Orders) /\ GoodLevel(l, s, p)
  BY <1>1 DEF FillEffect
<1>8. /\ result.order_id = l.orders[1].order_id /\ 1 \in DOMAIN l.orders
      /\ result.filled \in Nat \ {0} /\ result.filled <= call.remaining
      /\ result.level \in PriceLevels
      /\ result.fully_filled => /\ result.level = remove_order(l, 1)
                                /\ result.filled = l.orders[1].remaining_quantity
      /\ ~result.fully_filled => /\ result.filled = call.remaining
                                 /\ result.filled < l.orders[1].remaining_quantity
                                 /\ result.level.orders = TakeFromFront(l.orders, result.filled)
  BY <1>1 DEF FillEffect, FairLevel
<1>9. /\ executed' = Append(executed,
               [aggressive_order_id |-> call.order_id, passive_order_id |-> result.order_id,
                price |-> p, quantity |-> result.filled])
      /\ call' = [call EXCEPT !.remaining = left,
                    !.it = IF result.level.orders = <<>> \/ left = 0 THEN After(s, p) ELSE p]
      /\ reply' = reply /\ levels'[s][p] = at
      /\ \A t \in Sides, r \in Prices : ~(t = s /\ r = p) => levels'[t][r] = levels[t][r]
  BY <1>1 DEF FillEffect
<1>10. PICK q : q = l.orders
  OBVIOUS
<1>11. q \in Seq(Orders) /\ q # <<>> /\ BookOf(s, p) = QueueOf(q)
  BY <1>2, <1>7, <1>10, BookQueues DEF GoodLevel
<1>12. /\ Head(QueueOf(q)) = [id |-> q[1].order_id, qty |-> q[1].remaining_quantity]
       /\ QueueOf(RemoveAt(q, 1)) = Tail(QueueOf(q)) /\ q[1] \in Orders
  BY <1>11, QueueFront, FrontProperties
<1>13. TheTaker = [id |-> call.order_id, side |-> call.side, price |-> call.price,
                   qty |-> call.remaining] /\ TheTaker # None /\ call # None
  BY TakerIs DEF Fill
<1>14. TheTaker' = [TheTaker EXCEPT !.qty = @ - result.filled]
  <2>1. /\ call'.order_id = call.order_id /\ call'.side = call.side /\ call'.remaining = left
        /\ call' # None
    BY <1>1 DEF FillEffect
  <2>2. call'.price = call.price
    BY <1>7, <1>9 DEF Calls
  <2>3. TheTaker' = [id |-> call'.order_id, side |-> call'.side, price |-> call'.price,
                     qty |-> call'.remaining]
    BY <2>1 DEF TheTaker
  <2> QED
    BY <1>2, <1>13, <2>1, <2>2, <2>3
<1>15. Book!TradeQty(Head(QueueOf(q))) = result.filled
  <2>1. PICK n : n = q[1].remaining_quantity
    OBVIOUS
  <2>2. n \in Nat /\ (result.fully_filled => result.filled = n)
        /\ (~result.fully_filled => result.filled = call.remaining /\ result.filled < n)
        /\ result.filled <= call.remaining
    BY <1>8, <1>10, <1>12, <2>1 DEF Orders
  <2>3. Book!TradeQty(Head(QueueOf(q))) = IF n <= call.remaining THEN n ELSE call.remaining
    BY <1>12, <1>13, <2>1 DEF Book!TradeQty, TheTaker
  <2> QED
    BY <1>7, <1>8, <2>2, <2>3
<1>16. Book!AfterFill(QueueOf(q), result.filled) = IF at = None THEN <<>> ELSE QueueOf(at.orders)
  <2>1. QueueOf(<<>>) = <<>>
    BY EmptySeq, QueueProperties
  <2>2. (IF at = None THEN <<>> ELSE QueueOf(at.orders)) = QueueOf(result.level.orders)
    BY <1>2, <1>8, <2>1, NoneAssumption
  <2>3. CASE result.fully_filled
    <3>1. result.level.orders = RemoveAt(q, 1)
      BY <1>8, <1>10, <2>3 DEF remove_order
    <3>2. result.filled = Head(QueueOf(q)).qty
      BY <1>8, <1>10, <1>12, <2>3
    <3>3. Book!AfterFill(QueueOf(q), result.filled) = Tail(QueueOf(q))
      BY <3>2 DEF Book!AfterFill
    <3>4. Tail(QueueOf(q)) = QueueOf(result.level.orders)
      BY <1>12, <3>1
    <3> QED
      BY <2>2, <3>3, <3>4
  <2>4. CASE ~result.fully_filled
    <3>1. result.filled \in Nat /\ result.filled < q[1].remaining_quantity
      BY <1>8, <1>10, <2>4
    <3>2. result.filled # q[1].remaining_quantity
      BY <1>12, <3>1 DEF Orders
    <3>3. QueueOf(TakeFromFront(q, result.filled)) = [QueueOf(q) EXCEPT ![1].qty = @ - result.filled]
      BY <1>11, <3>1, QueueTake
    <3> QED
      BY <1>8, <1>10, <1>12, <2>2, <2>4, <3>2, <3>3 DEF Book!AfterFill
  <2> QED
    BY <2>3, <2>4
<1>17. TheBook' = [TheBook EXCEPT ![s][p] = Book!AfterFill(QueueOf(q), result.filled)]
  BY <1>7, <1>9, <1>16, BookPlaces
<1>18. TheTrades' = Append(TheTrades,
         [maker_id |-> q[1].order_id, taker_id |-> call.order_id,
          price |-> p, qty |-> result.filled])
  <2>1. PICK t : t = [aggressive_order_id |-> call.order_id, passive_order_id |-> result.order_id,
                      price |-> p, quantity |-> result.filled]
    OBVIOUS
  <2>2. t \in Trades
    <3>1. result.order_id \in OrderIds
      BY <1>8, <1>10, <1>12 DEF Orders
    <3> QED
      BY <1>7, <1>8, <2>1, <3>1 DEF Trades
  <2>3. TheTrades' = Append(TheTrades, ToTradeRec(t))
    BY <1>9, <2>1, <2>2, TradesAppend DEF IInv, TypeOK
  <2>4. ToTradeRec(t) = [maker_id |-> q[1].order_id, taker_id |-> call.order_id,
                         price |-> p, qty |-> result.filled]
    BY <1>8, <1>10, <2>1 DEF ToTradeRec
  <2> QED
    BY <2>3, <2>4
<1>19. Book!MatchesAt(p)
  BY <1>2, <1>7, <1>13, MatchesIsMatch DEF Fill
<1>20. TheBook[s][p] = QueueOf(q)
  BY <1>7, <1>11 DEF TheBook
<1>21. Book!Opposite(TheTaker.side) = s
  BY <1>2, <1>13, SameVocabulary
<1>22. PICK b, k, ts : b = TheBook /\ k = TheTaker /\ ts = TheTrades
  OBVIOUS
<1>23. PICK maker : maker = Head(b[Book!Opposite(k.side)][p])
  OBVIOUS
<1>24. PICK n : n = Book!TradeQty(maker)
  OBVIOUS
<1>25. /\ maker = [id |-> q[1].order_id, qty |-> q[1].remaining_quantity]
       /\ n = result.filled /\ Book!Opposite(k.side) = s /\ k.id = call.order_id
  BY <1>12, <1>13, <1>15, <1>20, <1>21, <1>22, <1>23, <1>24
<1>26. /\ TheTrades' = Append(ts, [maker_id |-> maker.id, taker_id |-> k.id,
                                   price |-> p, qty |-> n])
       /\ TheTaker' = [k EXCEPT !.qty = @ - n]
       /\ TheBook' = [b EXCEPT ![Book!Opposite(k.side)][p] = Book!AfterFill(@, n)]
  <2>1. b[s][p] = QueueOf(q)
    BY <1>20, <1>22
  <2>2. TheBook' = [b EXCEPT ![s][p] = Book!AfterFill(@, n)]
    BY <1>17, <1>22, <1>25, <2>1
  <2> QED
    BY <1>14, <1>18, <1>22, <1>25, <2>2
<1>27. TheTrades' = Append(TheTrades,
         [maker_id |-> Head(TheBook[Book!Opposite(TheTaker.side)][p]).id,
          taker_id |-> TheTaker.id, price |-> p,
          qty |-> Book!TradeQty(Head(TheBook[Book!Opposite(TheTaker.side)][p]))])
  BY <1>22, <1>23, <1>24, <1>26
<1>28. TheBook' = [TheBook EXCEPT ![Book!Opposite(TheTaker.side)][p] =
         Book!AfterFill(@, Book!TradeQty(Head(TheBook[Book!Opposite(TheTaker.side)][p])))]
  BY <1>22, <1>23, <1>24, <1>26
<1>29. TheTaker' = [TheTaker EXCEPT
         !.qty = @ - Book!TradeQty(Head(TheBook[Book!Opposite(TheTaker.side)][p]))]
  BY <1>22, <1>23, <1>24, <1>26
<1>30. TheTaker # None /\ p \in Prices /\ reply' = reply
  BY <1>7, <1>9, <1>13
<1> QED
  BY <1>19, <1>27, <1>28, <1>29, <1>30, Zenon DEF Book!Fill, TheBook, TheTaker, TheTrades

\* What is left of the order rests behind its queue in the book too.
LEMMA RestBook ==
  ASSUME IInv, call # None, RestRemainder
  PROVE  TheBook' = [TheBook EXCEPT ![call.side][call.price] =
                       Append(@, [id |-> call.order_id, qty |-> call.remaining])]
         \/ call.remaining = 0
<1> SUFFICES ASSUME call.remaining # 0
             PROVE  TheBook' = [TheBook EXCEPT ![call.side][call.price] =
                       Append(@, [id |-> call.order_id, qty |-> call.remaining])]
  OBVIOUS
<1>1. PICK s, p, l, o : /\ s = call.side /\ p = call.price
                        /\ l = IF levels[s][p] = None THEN EmptyLevel ELSE levels[s][p]
                        /\ o = [order_id |-> call.order_id, remaining_quantity |-> call.remaining,
                                price |-> p, side |-> s]
  OBVIOUS
<1>2. s \in Sides /\ p \in Prices /\ o \in Orders /\ call.remaining \in Nat
  BY <1>1 DEF IInv, TypeOK, Calls, Orders
<1>3. PICK at : at = add_order(l, o)
  OBVIOUS
<1>4. levels' = [levels EXCEPT ![s][p] = at]
  BY <1>1, <1>3 DEF RestRemainder
<1>5. /\ levels'[s][p] = at
      /\ \A t \in Sides, r \in Prices : ~(t = s /\ r = p) => levels'[t][r] = levels[t][r]
  BY <1>2, <1>4 DEF IInv, TypeOK
<1>6. l.orders \in Seq(Orders) /\ l.total_volume \in Nat /\ BookOf(s, p) = QueueOf(l.orders)
  <2>1. CASE levels[s][p] = None
    <3>1. QueueOf(<<>>) = <<>> /\ l.orders = <<>> /\ l.total_volume = 0
      BY <1>1, <2>1, EmptySeq, QueueProperties DEF EmptyLevel
    <3> QED
      BY <1>2, <2>1, <3>1, EmptySeq, BookQueues
  <2>2. CASE levels[s][p] # None
    <3>1. p \in Keys(s)
      BY <1>2, <2>2 DEF Keys
    <3>2. l \in PriceLevels
      BY <1>1, <1>2, <2>2, <3>1, LevelAt DEF IInv
    <3> QED
      BY <1>1, <1>2, <2>2, <3>2, BookQueues DEF PriceLevels
  <2> QED
    BY <2>1, <2>2
<1>7. at.orders = Append(l.orders, o) /\ at # None
  <2>1. at.orders = Append(l.orders, o) /\ Append(l.orders, o) \in Seq(Orders)
    BY <1>2, <1>3, <1>6, AppendProperties DEF add_order
  <2>2. at.total_volume \in Nat
    BY <1>2, <1>3, <1>6 DEF add_order, Orders
  <2>3. at \in PriceLevels
    BY <1>3, <2>1, <2>2 DEF add_order, PriceLevels
  <2> QED
    BY <2>1, <2>3, NoneAssumption
<1>8. QueueOf(at.orders)
        = Append(BookOf(s, p), [id |-> call.order_id, qty |-> call.remaining])
  BY <1>1, <1>2, <1>6, <1>7, QueueAppend
<1>9. TheBook' = [TheBook EXCEPT ![s][p] = QueueOf(at.orders)]
  <2>1. TheBook' = [TheBook EXCEPT ![s][p] = IF at = None THEN <<>> ELSE QueueOf(at.orders)]
    BY <1>2, <1>5, BookPlaces
  <2>2. (IF at = None THEN <<>> ELSE QueueOf(at.orders)) = QueueOf(at.orders)
    BY <1>7
  <2> QED
    BY <2>1, <2>2
<1>10. TheBook[s][p] = BookOf(s, p)
  BY <1>2 DEF TheBook
<1> QED
  BY <1>1, <1>8, <1>9, <1>10

\* submit returns when the book has nothing left to match.
LEMMA FinishBook ==
  ASSUME IInv, Finish
  PROVE  Book!Finish
<1>1. /\ TheTaker = [id |-> call.order_id, side |-> call.side, price |-> call.price,
                     qty |-> call.remaining]
      /\ TheTaker # None /\ call \in Calls /\ call # None
  BY TakerIs DEF Finish
<1>2. \A p \in Prices : ~Book!MatchesAt(p)
  BY <1>1, MatchesIsMatch DEF Finish
<1>3. TheTaker' = None /\ reply' = "Success" /\ TheTrades' = TheTrades
  BY DEF Finish, TheTaker, TheTrades
<1>4. TheBook' = IF TheTaker.qty > 0
                   THEN [TheBook EXCEPT ![TheTaker.side][TheTaker.price] =
                           Append(@, [id |-> TheTaker.id, qty |-> TheTaker.qty])]
                   ELSE TheBook
  <2>1. PICK k : k = TheTaker
    OBVIOUS
  <2>2. /\ k.id = call.order_id /\ k.side = call.side /\ k.price = call.price
        /\ k.qty = call.remaining /\ call.remaining \in Nat
    BY <1>1, <2>1 DEF Calls
  <2>3. CASE call.remaining > 0
    <3>1. RestRemainder /\ call.remaining # 0
      BY <2>2, <2>3 DEF Finish
    <3>2. TheBook' = [TheBook EXCEPT ![k.side][k.price] =
                        Append(@, [id |-> k.id, qty |-> k.qty])]
      BY <1>1, <2>2, <3>1, RestBook
    <3> QED
      BY <2>1, <2>2, <2>3, <3>2
  <2>4. CASE ~(call.remaining > 0)
    <3>1. TheBook' = TheBook
      BY <2>4, BookUnchanged DEF Finish
    <3> QED
      BY <2>1, <2>2, <2>4, <3>1
  <2> QED
    BY <2>3, <2>4
<1>5. TheBook' = Book!Rested
  BY <1>4 DEF Book!Rested, TheBook, TheTaker
<1> QED
  BY <1>1, <1>2, <1>3, <1>5 DEF Book!Finish, TheBook, TheTaker, TheTrades

\* A cancelled order leaves its queue, wherever in it the order stood.
LEMMA CancelBook ==
  ASSUME IInv, NEW id \in OrderIds, CancelOrder(id)
  PROVE  Book!Cancel(id)
<1>1. PICK s \in Sides, p \in Prices : \E i \in DOMAIN levels[s][p].orders :
           /\ p \in Keys(s) /\ levels[s][p].orders[i].order_id = id
           /\ order_map[id] = [side |-> s, price |-> p]
           /\ Places(s, p, IF RemoveAt(levels[s][p].orders, i) = <<>>
                             THEN None ELSE remove_order(levels[s][p], i))
  BY CancelFacts
<1>2. PICK l, q : l = levels[s][p] /\ q = l.orders
  OBVIOUS
<1>3. PICK i \in DOMAIN q :
           /\ p \in Keys(s) /\ q[i].order_id = id
           /\ Places(s, p, IF RemoveAt(q, i) = <<>> THEN None ELSE remove_order(l, i))
  BY <1>1, <1>2
<1>4. PICK at : at = IF RemoveAt(q, i) = <<>> THEN None ELSE remove_order(l, i)
  OBVIOUS
<1>5. l # None /\ q \in Seq(Orders) /\ BookOf(s, p) = QueueOf(q) /\ TheBook[s][p] = QueueOf(q)
  BY <1>2, <1>3, LevelAt, BookQueues DEF IInv, TheBook
<1>6. /\ levels'[s][p] = at
      /\ \A t \in Sides, r \in Prices : ~(t = s /\ r = p) => levels'[t][r] = levels[t][r]
  BY <1>3, <1>4 DEF Places, IInv, TypeOK
<1>7. (IF at = None THEN <<>> ELSE QueueOf(at.orders)) = QueueOf(RemoveAt(q, i))
  <2>1. CASE RemoveAt(q, i) = <<>>
    <3>1. QueueOf(<<>>) = <<>>
      BY EmptySeq, QueueProperties
    <3> QED
      BY <1>4, <2>1, <3>1
  <2>2. CASE RemoveAt(q, i) # <<>>
    <3>1. at.orders = RemoveAt(q, i)
      BY <1>2, <1>4, <2>2 DEF remove_order
    <3>2. s \in Sides /\ p \in Prices /\ FairLevel(l, s, p) /\ i \in DOMAIN l.orders
      BY <1>2, <1>3, LevelAt DEF IInv, GoodLevel
    <3>3. FairLevel(remove_order(l, i), s, p)
      BY <3>2, RemoveOrder
    <3>4. at # None
      BY <1>4, <2>2, <3>3, NoneAssumption DEF FairLevel
    <3> QED
      BY <3>1, <3>4
  <2> QED
    BY <2>1, <2>2
<1>8. TheBook' = [TheBook EXCEPT ![s][p] = RemoveAt(QueueOf(q), i)]
  BY <1>5, <1>6, <1>7, BookPlaces, QueueRemove
<1>10. /\ TheTaker = None /\ reply' = "Cancelled" /\ TheTrades' = <<>> /\ TheTaker' = TheTaker
  BY NoTrades DEF CancelOrder, TheTaker
<1>11. i \in DOMAIN TheBook[s][p] /\ TheBook[s][p][i].id = id
  <2>1. DOMAIN QueueOf(q) = DOMAIN q /\ QueueOf(q)[i].id = q[i].order_id
    BY <1>3 DEF QueueOf
  <2> QED
    BY <1>3, <1>5, <2>1
<1>12. TheBook' = [TheBook EXCEPT ![s][p] = Book!RemoveAt(@, i)]
  BY <1>5, <1>8, SameVocabulary
<1>13. \E t \in Book!Sides, r \in Prices : \E k \in DOMAIN TheBook[t][r] :
         /\ TheBook[t][r][k].id = id
         /\ TheBook' = [TheBook EXCEPT ![t][r] = Book!RemoveAt(@, k)]
  BY <1>11, <1>12, SameVocabulary
<1> QED
  BY <1>10, <1>13, Zenon DEF Book!Cancel, TheBook, TheTaker, TheTrades

\* Every step of the engine is a step of the book, or changes nothing of it.
LEMMA BookStep == IInv /\ IInv' /\ [Next]_vars => [Book!Next]_(Book!vars)
<1> SUFFICES ASSUME IInv, IInv', [Next]_vars
             PROVE  [Book!Next]_(Book!vars)
  OBVIOUS
<1>1. ASSUME NEW id \in OrderIds, NEW side \in Sides, NEW price \in Prices,
             NEW qty \in Quantities, Submit(id, side, price, qty)
      PROVE  Book!Next
  <2>1. Book!Submit(id, side, price, qty)
    BY <1>1, SubmitBook
  <2> QED
    BY <2>1, SameVocabulary DEF Book!Next
<1>2. CASE \E id \in OrderIds : SubmitDuplicate(id) \/ CancelMissing(id)
  BY <1>2, QuietBook
<1>3. CASE Fill
  BY <1>3, FillBook DEF Book!Next
<1>4. CASE Finish
  BY <1>4, FinishBook DEF Book!Next
<1>5. ASSUME NEW id \in OrderIds, CancelOrder(id)
      PROVE  Book!Next
  BY <1>5, CancelBook DEF Book!Next
<1>6. CASE UNCHANGED vars
  <2>1. TheBook' = TheBook /\ TheTaker' = TheTaker /\ TheTrades' = TheTrades /\ reply' = reply
    BY <1>6, BookUnchanged DEF vars, TheTaker, TheTrades
  <2> QED
    BY <2>1 DEF Book!vars, TheBook, TheTaker, TheTrades
<1> QED
  BY <1>1, <1>2, <1>3, <1>4, <1>5, <1>6 DEF Next

\* The engine implements the book: it matches by price, then by time, at the
\* maker's price, rests what is left and cancels what it is told, whatever the
\* ids, prices and quantities.
THEOREM ImplementsBookAlways == Spec => ImplementsBook
<1>1. Init => Book!Init
  BY InitBook
<1>2. IInv /\ IInv' /\ [Next]_vars => [Book!Next]_(Book!vars)
  BY BookStep
<1> QED
  BY <1>1, <1>2, InvAlways, PTL DEF Spec, ImplementsBook, Book!Spec

-----------------------------------------------------------------------------
(* The same steps in the words of CommonProofs: rounds of one book.        *)

LEMMA BookIsBook == IsBook(Prices, TheBook)
BY DEF IsBook, TheBook

\* The book's condition for a match is that of a round.
LEMMA MatchIsRound ==
  ASSUME NEW p
  PROVE  Book!MatchesAt(p) <=> MatchesIn(Prices, TheBook, TheTaker, p)
<1>1. PICK b, k : b = TheBook /\ k = TheTaker
  OBVIOUS
<1>2. \A s, q : q \in Book!Live(s) <=> q \in Prices /\ b[s][q] # <<>>
  BY <1>1 DEF Book!Live, TheBook
<1>3. \A s : Book!IsBest(s, p) <=> BestIn(Prices, b, s, p)
  BY <1>2, SameVocabulary DEF Book!IsBest, BestIn
<1>4. \A s, l : Book!Crosses(s, l, p) <=> IF s = Bid THEN p <= l ELSE p >= l
  BY SameVocabulary DEF Book!Crosses
<1>5. Book!MatchesAt(p) <=>
        /\ k.qty > 0 /\ Book!IsBest(Book!Opposite(k.side), p)
        /\ Book!Crosses(k.side, k.price, p)
  BY <1>1 DEF Book!MatchesAt, TheTaker
<1> QED
  BY <1>1, <1>3, <1>4, <1>5, SameVocabulary DEF MatchesIn, Reaches

\* A step of the loop is a round.
LEMMA FillRound ==
  ASSUME IInv, Fill, IInv'
  PROVE  \E r : /\ Round(Prices, TheBook, TheTaker, TheBook', TheTaker', r)
                /\ TheTrades' = Append(TheTrades, r)
<1>1. Book!Fill
  BY FillBook
<1>2. PICK b, k, b2, k2, t, t2 :
        /\ b = TheBook /\ k = TheTaker /\ t = TheTrades
        /\ b2 = TheBook' /\ k2 = TheTaker' /\ t2 = TheTrades'
  OBVIOUS
<1>3. \E p \in Prices :
        LET s == Book!Opposite(TheTaker.side)
            n == Book!TradeQty(Head(TheBook[s][p]))
        IN  /\ Book!MatchesAt(p)
            /\ TheTrades' = Append(TheTrades,
                 [maker_id |-> Head(TheBook[s][p]).id, taker_id |-> TheTaker.id, price |-> p,
                  qty |-> n])
            /\ TheBook' = [TheBook EXCEPT ![s][p] = Book!AfterFill(TheBook[s][p], n)]
            /\ TheTaker' = [TheTaker EXCEPT !.qty = TheTaker.qty - n]
  BY <1>1, Zenon DEF Book!Fill, TheBook, TheTaker, TheTrades
<1>4. PICK p \in Prices :
        LET s == Book!Opposite(k.side)
            n == Book!TradeQty(Head(b[s][p]))
        IN  /\ Book!MatchesAt(p)
            /\ t2 = Append(t, [maker_id |-> Head(b[s][p]).id, taker_id |-> k.id, price |-> p,
                               qty |-> n])
            /\ b2 = [b EXCEPT ![s][p] = Book!AfterFill(b[s][p], n)]
            /\ k2 = [k EXCEPT !.qty = k.qty - n]
  BY <1>2, <1>3
<1>5. \A m : Book!TradeQty(m) = IF m.qty <= k.qty THEN m.qty ELSE k.qty
  BY <1>2, Zenon DEF Book!TradeQty, TheTaker
<1>6. PICK s, n : s = Opposite(k.side) /\ n = Lot(b[s][p], k)
  OBVIOUS
<1>7. s = Book!Opposite(k.side) /\ n = Book!TradeQty(Head(b[s][p]))
  BY <1>5, <1>6, SameVocabulary DEF Lot
<1>8. /\ Book!MatchesAt(p)
      /\ t2 = Append(t, [maker_id |-> Head(b[s][p]).id, taker_id |-> k.id, price |-> p, qty |-> n])
      /\ b2 = [b EXCEPT ![s][p] = Book!AfterFill(b[s][p], n)]
      /\ k2 = [k EXCEPT !.qty = k.qty - n]
  BY <1>4, <1>7
<1>9. MatchesIn(Prices, b, k, p)
  BY <1>2, <1>8, MatchIsRound
<1>10. t2 = Append(t, TradeAt(b, k, p))
  BY <1>6, <1>8 DEF TradeAt
<1>11. RoundAt(b, k, b2, k2, TradeAt(b, k, p), p)
  <2>1. b2 = BookAfter(b, k, p)
    BY <1>6, <1>8 DEF BookAfter, Put, QueueAfter, Book!AfterFill
  <2>2. k2 = TakerAfter(b, k, p)
    BY <1>6, <1>8 DEF TakerAfter
  <2> QED
    BY <2>1, <2>2 DEF RoundAt
<1>12. Round(Prices, b, k, b2, k2, TradeAt(b, k, p))
  BY <1>9, <1>11 DEF Round
<1> QED
  BY <1>2, <1>10, <1>12

\* When the loop ends no round is possible, and what is left comes to rest.
LEMMA FinishSettles ==
  ASSUME IInv, Finish
  PROVE  /\ Stuck(Prices, TheBook, TheTaker) /\ TheBook' = Settled(TheBook, TheTaker)
         /\ TheTaker.side \in Sides /\ TheTaker.price \in Prices
<1>1. Book!Finish
  BY FinishBook
<1>2. PICK b, k, b2 : b = TheBook /\ k = TheTaker /\ b2 = TheBook'
  OBVIOUS
<1>3. /\ \A p \in Prices : ~Book!MatchesAt(p)
      /\ TheBook' =
           IF TheTaker.qty > 0
             THEN [TheBook EXCEPT ![TheTaker.side][TheTaker.price] =
                     Append(TheBook[TheTaker.side][TheTaker.price], [id |-> TheTaker.id, qty |-> TheTaker.qty])]
             ELSE TheBook
  BY <1>1, Zenon DEF Book!Finish, Book!Rested, TheBook, TheTaker
<1>4. b2 = Settled(b, k)
  BY <1>2, <1>3 DEF Settled, Put
<1>5. Stuck(Prices, b, k)
  BY <1>2, <1>3, MatchIsRound DEF Stuck
<1>6. k.side \in Sides /\ k.price \in Prices
  <2>1. /\ TheTaker = [id |-> call.order_id, side |-> call.side, price |-> call.price,
                        qty |-> call.remaining]
        /\ call \in Calls
    BY TakerIs DEF Finish
  <2> QED
    BY <1>2, <2>1 DEF Calls
<1> QED
  BY <1>2, <1>4, <1>5, <1>6

\* The index knows the ids that rest.
LEMMA RestingIsKnown ==
  ASSUME IInv, NEW id \in OrderIds
  PROVE  order_map[id] # None <=> RestsIn(Prices, TheBook, id)
<1>1. Book!IsLive(id) <=> order_map[id] # None
  BY LiveIsIndexed
<1>2. Book!IsLive(id) <=> \E s \in Sides : \E p \in Prices :
        \E i \in DOMAIN TheBook[s][p] : TheBook[s][p][i].id = id
  BY SameVocabulary DEF Book!IsLive, TheBook
<1> QED
  BY <1>1, <1>2 DEF RestsIn

\* A cancel takes one order of that id out of the book.
LEMMA CancelLeaves ==
  ASSUME IInv, NEW id \in OrderIds, CancelOrder(id)
  PROVE  Leaves(Prices, TheBook, id, TheBook')
<1>1. Book!Cancel(id)
  BY CancelBook
<1>2. PICK s \in Book!Sides, p \in Prices : \E i \in DOMAIN TheBook[s][p] :
        /\ TheBook[s][p][i].id = id
        /\ TheBook' = [TheBook EXCEPT ![s][p] = Book!RemoveAt(TheBook[s][p], i)]
  BY <1>1, Zenon DEF Book!Cancel, TheBook
<1>3. PICK i \in DOMAIN TheBook[s][p] :
        /\ TheBook[s][p][i].id = id
        /\ TheBook' = [TheBook EXCEPT ![s][p] = Book!RemoveAt(TheBook[s][p], i)]
  BY <1>2
<1>4. PICK b, b2 : b = TheBook /\ b2 = TheBook'
  OBVIOUS
<1>5. /\ i \in DOMAIN b[s][p] /\ b[s][p][i].id = id
      /\ b2 = [b EXCEPT ![s][p] = Book!RemoveAt(b[s][p], i)]
  BY <1>3, <1>4
<1>6. s \in Sides /\ b2 = Put(b, s, p, RemoveAt(b[s][p], i))
  BY <1>5, SameVocabulary DEF Put
<1>7. Leaves(Prices, b, id, b2)
  BY <1>5, <1>6 DEF Leaves
<1> QED
  BY <1>4, <1>7

\* An id rests at one place.
LEMMA RestsOnce ==
  ASSUME IInv
  PROVE  OnePlace(Prices, TheBook)
<1>1. PICK b : b = TheBook
  OBVIOUS
<1>2. \A s \in Sides, p \in Prices : b[s][p] = BookOf(s, p)
  BY <1>1 DEF TheBook
<1>3. ASSUME NEW s \in Sides, NEW p \in Prices, NEW i \in DOMAIN b[s][p],
             NEW t \in Sides, NEW q \in Prices, NEW j \in DOMAIN b[t][q],
             b[s][p][i].id = b[t][q][j].id
      PROVE  s = t /\ p = q /\ i = j
  BY <1>2, <1>3, OnePlaceEach
<1> QED
  BY <1>1, <1>3 DEF OnePlace

=============================================================================
