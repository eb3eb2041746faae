------------------------- MODULE BitmapEngineProofs -------------------------
(***************************************************************************)
(* Theorems of BitmapEngine, for every ladder, capacity, word width, limit *)
(* of the id map, set of ids and of quantities.  The order of the module:  *)
(* the two lists a slot may be in (the queue of a level, the free list)    *)
(* and what each operation of the pool does to them; then the id map and   *)
(* the bitmaps, whose lemmas are those of LadderIndexProofs; then the      *)
(* invariant IInv, one lemma per action; then the theorems; and last the   *)
(* refinement of the book.                                                 *)
(***************************************************************************)
EXTENDS BitmapEngine, CommonProofs

-----------------------------------------------------------------------------
(***************************************************************************)
(* The lists.  q is the sequence of the slots of a list; a place of the    *)
(* list is an index of q.                                                  *)
(***************************************************************************)
FirstOf(q)   == IF Len(q) = 0 THEN Nil ELSE q[1]
LastOf(q)    == IF Len(q) = 0 THEN Nil ELSE q[Len(q)]
NextIn(q, i) == IF i = Len(q) THEN Nil ELSE q[i + 1]
PrevIn(q, i) == IF i = 1 THEN Nil ELSE q[i - 1]

\* A sequence of slots, none of them twice.
SlotList(q) ==
  /\ q \in Seq(OrderIndices)
  /\ Len(q) \in Nat /\ DOMAIN q = 1 .. Len(q)
  /\ \A i, j \in 1 .. Len(q) : q[i] = q[j] => i = j

\* Following next from head leads through q, and no further.
Lists(slots, head, q) ==
  /\ SlotList(q)
  /\ head = FirstOf(q)
  /\ \A i \in 1 .. Len(q) : slots[q[i]].next = NextIn(q, i)

\* Following prev from tail leads through q backwards.
ListsBack(slots, tail, q) ==
  /\ tail = LastOf(q)
  /\ \A i \in 1 .. Len(q) : slots[q[i]].prev = PrevIn(q, i)

LEMMA SlotListIs ==
  ASSUME NEW n \in Nat, NEW q \in [1 .. n -> OrderIndices],
         \A i, j \in 1 .. n : q[i] = q[j] => i = j
  PROVE  SlotList(q) /\ Len(q) = n
<1>1. q \in Seq(OrderIndices)
  BY SeqDef
<1>2. Len(q) \in Nat /\ 1 .. Len(q) = 1 .. n
  BY <1>1, LenProperties
<1>3. Len(q) = n
  BY <1>2
<1> QED
  BY <1>1, <1>3 DEF SlotList

\* No list has more slots than the pool.
LEMMA ListFits ==
  ASSUME NEW q, SlotList(q)
  PROVE  Len(q) <= Capacity
<1>1. q \in Injection(1 .. Len(q), OrderIndices)
  BY LenProperties DEF SlotList, Injection, IsInjective
<1>2. Capacity \in Nat \ {0}
  BY CapacityAssumption
<1>3. Len(q) \in Nat
  BY DEF SlotList
<1>4. IsFiniteSet(OrderIndices) /\ Cardinality(OrderIndices) = Capacity
  <2>1. /\ IsFiniteSet(0 .. Capacity - 1)
        /\ Cardinality(0 .. Capacity - 1) = IF 0 > Capacity - 1 THEN 0 ELSE Capacity - 1 - 0 + 1
    BY <1>2, FS_Interval
  <2> QED
    BY <1>2, <2>1 DEF OrderIndices
<1>5. Cardinality(1 .. Len(q)) = Len(q)
  <2>1. Cardinality(1 .. Len(q)) = IF 1 > Len(q) THEN 0 ELSE Len(q) - 1 + 1
    BY <1>3, FS_Interval
  <2> QED
    BY <1>3, <2>1
<1>6. Cardinality(1 .. Len(q)) <= Cardinality(OrderIndices)
  BY <1>1, <1>4, FS_Injection
<1> QED
  BY <1>4, <1>5, <1>6

\* Following next as Chain does finds the list.  (Of two ways to follow it there
\* is no first place where they differ.)
LEMMA ChainIs ==
  ASSUME NEW P, NEW head, NEW q, Lists(P.slots, head, q)
  PROVE  Chain(P, head) = q
<1>1. PICK m : m = Len(q)
  OBVIOUS
<1>2. /\ m \in Nat /\ m <= Capacity /\ Capacity \in Nat
      /\ DOMAIN q = 1 .. m /\ \A i \in 1 .. m : q[i] # Nil
      /\ head = IF m = 0 THEN Nil ELSE q[1]
      /\ \A i \in 1 .. m : P.slots[q[i]].next = IF i = m THEN Nil ELSE q[i + 1]
  <2>1. SlotList(q) /\ head = FirstOf(q) /\ \A i \in 1 .. m : P.slots[q[i]].next = NextIn(q, i)
    BY <1>1 DEF Lists
  <2>2. q \in [1 .. m -> OrderIndices] /\ m \in Nat
    BY <1>1, <2>1, LenProperties DEF SlotList
  <2> QED
    BY <1>1, <2>1, <2>2, CapacityAssumption, NilAssumption, ListFits DEF FirstOf, NextIn
<1> DEFINE Recurs(h) ==
             h = [n \in 0 .. Capacity |->
                    IF n = 0 THEN head
                    ELSE IF h[n - 1] = Nil THEN Nil ELSE P.slots[h[n - 1]].next]
           at == CHOOSE h : Recurs(h)
           reached == {n \in 0 .. Capacity : at[n] # Nil}
<1>3. PICK g : g = [n \in 0 .. Capacity |-> IF n < m THEN q[n + 1] ELSE Nil]
  OBVIOUS
<1>4. \A n \in 0 .. Capacity : g[n] = IF n < m THEN q[n + 1] ELSE Nil
  BY <1>3
<1>5. g[0] = head
  BY <1>2, <1>4
<1>6. \A n \in 1 .. Capacity :
        g[n] = IF g[n - 1] = Nil THEN Nil ELSE P.slots[g[n - 1]].next
  <2> SUFFICES ASSUME NEW n \in 1 .. Capacity
               PROVE  g[n] = IF g[n - 1] = Nil THEN Nil ELSE P.slots[g[n - 1]].next
    OBVIOUS
  <2>1. PICK j : j = n - 1
    OBVIOUS
  <2>2. j \in 0 .. Capacity /\ j + 1 = n /\ n \in 0 .. Capacity
    BY <1>2, <2>1
  <2>3. g[j] = (IF j < m THEN q[j + 1] ELSE Nil) /\ g[n] = IF n < m THEN q[n + 1] ELSE Nil
    BY <1>4, <2>2
  <2>4. CASE j < m
    <3>1. n \in 1 .. m /\ g[j] = q[n] /\ q[n] # Nil
      BY <1>2, <2>2, <2>3, <2>4
    <3>2. P.slots[q[n]].next = IF n = m THEN Nil ELSE q[n + 1]
      BY <1>2, <3>1
    <3>3. n = m \/ n < m
      BY <1>2, <3>1
    <3>4. g[n] = IF n = m THEN Nil ELSE q[n + 1]
      BY <1>2, <2>3, <3>1, <3>3
    <3> QED
      BY <2>1, <3>1, <3>2, <3>4
  <2>5. CASE ~(j < m)
    <3>1. g[j] = Nil /\ g[n] = Nil
      BY <1>2, <2>2, <2>3, <2>5
    <3> QED
      BY <2>1, <3>1
  <2> QED
    BY <2>4, <2>5
<1>7. Recurs(g)
  <2>1. \A n \in 0 .. Capacity :
          g[n] = IF n = 0 THEN head
                 ELSE IF g[n - 1] = Nil THEN Nil ELSE P.slots[g[n - 1]].next
    BY <1>2, <1>5, <1>6
  <2>2. g = [n \in 0 .. Capacity |-> g[n]]
    BY <1>3, <1>4
  <2> QED
    BY <2>1, <2>2
<1>8. Recurs(at)
  BY <1>7
<1> HIDE DEF at
<1>9. /\ at[0] = head
      /\ \A n \in 1 .. Capacity : at[n] = IF at[n - 1] = Nil THEN Nil ELSE P.slots[at[n - 1]].next
  <2>1. \A n \in 0 .. Capacity :
          at[n] = IF n = 0 THEN head
                  ELSE IF at[n - 1] = Nil THEN Nil ELSE P.slots[at[n - 1]].next
    BY <1>8
  <2>2. 0 \in 0 .. Capacity /\ \A n \in 1 .. Capacity : n \in 0 .. Capacity /\ n # 0
    BY <1>2
  <2>3. at[0] = head
    BY <2>1, <2>2
  <2>4. ASSUME NEW n \in 1 .. Capacity
        PROVE  at[n] = IF at[n - 1] = Nil THEN Nil ELSE P.slots[at[n - 1]].next
    BY <2>1, <2>2
  <2> QED
    BY <2>3, <2>4
<1>10. \A n \in 0 .. Capacity : at[n] = g[n]
  <2>1. PICK T : T = {n \in 0 .. Capacity : at[n] # g[n]}
    OBVIOUS
  <2> SUFFICES ASSUME T # {}
               PROVE  FALSE
    BY <2>1
  <2>2. T \in SUBSET Nat
    BY <1>2, <2>1
  <2>3. PICK n \in T : \A k \in T : n <= k
    BY <2>2, LeastNat
  <2>4. n # 0 /\ n \in 1 .. Capacity /\ n - 1 \in 0 .. Capacity /\ at[n] # g[n]
    BY <1>2, <1>5, <1>9, <2>1, <2>3
  <2>5. at[n - 1] = g[n - 1]
    BY <1>2, <2>1, <2>3, <2>4
  <2> QED
    BY <1>6, <1>9, <2>4, <2>5
<1>11. reached = 0 .. m - 1
  BY <1>2, <1>4, <1>10
<1>12. Cardinality(reached) = m
  <2>1. m - 1 \in Int /\ 0 \in Int
    BY <1>2
  <2>2. Cardinality(0 .. m - 1) = IF 0 > m - 1 THEN 0 ELSE m - 1 - 0 + 1
    BY <2>1, FS_Interval
  <2> HIDE DEF reached
  <2> QED
    BY <1>2, <1>11, <2>2
<1>13. \A i \in 1 .. m : at[i - 1] = q[i]
  BY <1>2, <1>4, <1>10
<1>14. q = [i \in 1 .. m |-> q[i]]
  BY <1>1, LenProperties DEF Lists, SlotList
<1>15. Chain(P, head) = [n \in 1 .. Cardinality(reached) |-> at[n - 1]]
  BY DEF Chain, at
<1> HIDE DEF reached
<1> QED
  BY <1>12, <1>13, <1>14, <1>15

NotIn(q, idx) == \A i \in 1 .. Len(q) : q[i] # idx

\* t is q with one slot more at its end.
Appended(q, idx, t) ==
  /\ SlotList(t) /\ Len(t) = Len(q) + 1 /\ t[Len(q) + 1] = idx
  /\ \A i \in 1 .. Len(q) : t[i] = q[i]

LEMMA AppendList ==
  ASSUME NEW q, SlotList(q), NEW idx \in OrderIndices, NotIn(q, idx)
  PROVE  Appended(q, idx, Append(q, idx))
<1> DEFINE t == Append(q, idx)
<1>1. /\ q \in Seq(OrderIndices) /\ Len(q) \in Nat /\ \A i \in 1 .. Len(q) : q[i] # idx
      /\ \A i, j \in 1 .. Len(q) : q[i] = q[j] => i = j
  BY DEF SlotList, NotIn
<1>2. PICK m : m = Len(q)
  OBVIOUS
<1>3. /\ t \in Seq(OrderIndices) /\ Len(t) = m + 1 /\ t[m + 1] = idx
      /\ \A i \in 1 .. m : t[i] = q[i]
  BY <1>1, <1>2, AppendProperties
<1> HIDE DEF t
<1>4. t \in [1 .. m + 1 -> OrderIndices]
  BY <1>3, LenProperties
<1>5. \A i, j \in 1 .. m + 1 : t[i] = t[j] => i = j
  <2> SUFFICES ASSUME NEW i \in 1 .. m + 1, NEW j \in 1 .. m + 1, t[i] = t[j]
               PROVE  i = j
    OBVIOUS
  <2>1. m \in Nat /\ (i \in 1 .. m \/ i = m + 1) /\ (j \in 1 .. m \/ j = m + 1)
    BY <1>1, <1>2
  <2> QED
    BY <1>1, <1>2, <1>3, <2>1
<1>6. SlotList(t)
  BY <1>1, <1>2, <1>3, <1>4, <1>5 DEF SlotList
<1>7. Appended(q, idx, t)
  BY <1>2, <1>3, <1>6 DEF Appended
<1> QED
  BY <1>7 DEF t

PushFront(q, idx) == [i \in 1 .. Len(q) + 1 |-> IF i = 1 THEN idx ELSE q[i - 1]]

\* t is q with one slot more at its front.
Prepended(q, idx, t) ==
  /\ SlotList(t) /\ Len(t) = Len(q) + 1 /\ t[1] = idx
  /\ \A i \in 1 .. Len(q) : t[i + 1] = q[i]

LEMMA PushFrontList ==
  ASSUME NEW q, SlotList(q), NEW idx \in OrderIndices, NotIn(q, idx)
  PROVE  Prepended(q, idx, PushFront(q, idx))
<1> DEFINE t == PushFront(q, idx)
<1>1. PICK m : m = Len(q)
  OBVIOUS
<1>2. /\ m \in Nat /\ \A i \in 1 .. m : q[i] \in OrderIndices /\ q[i] # idx
      /\ \A i, j \in 1 .. m : q[i] = q[j] => i = j
  BY <1>1, ElementOfSeq DEF SlotList, NotIn
<1>3. /\ DOMAIN t = 1 .. m + 1 /\ \A i \in 1 .. m + 1 : t[i] = IF i = 1 THEN idx ELSE q[i - 1]
      /\ t = [i \in 1 .. m + 1 |-> t[i]]
  BY <1>1 DEF PushFront
<1> HIDE DEF t
<1>4. \A i \in 1 .. m + 1 : i = 1 \/ (i - 1 \in 1 .. m /\ t[i] = q[i - 1])
  BY <1>2, <1>3
<1>5. t[1] = idx /\ \A i \in 1 .. m : t[i + 1] = q[i]
  <2>1. t[1] = idx
    BY <1>2, <1>3
  <2>2. ASSUME NEW i \in 1 .. m
        PROVE  t[i + 1] = q[i]
    <3>1. PICK j : j = i + 1
      OBVIOUS
    <3>2. j \in 1 .. m + 1 /\ j # 1 /\ j - 1 = i
      BY <1>2, <3>1
    <3>3. t[j] = q[j - 1]
      BY <1>3, <3>2
    <3> QED
      BY <3>1, <3>2, <3>3
  <2> QED
    BY <2>1, <2>2
<1>6. \A i \in 1 .. m + 1 : t[i] \in OrderIndices
  BY <1>2, <1>4, <1>5
<1>7. t \in [1 .. m + 1 -> OrderIndices]
  BY <1>3, <1>6
<1>8. \A i, j \in 1 .. m + 1 : t[i] = t[j] => i = j
  <2> SUFFICES ASSUME NEW i \in 1 .. m + 1, NEW j \in 1 .. m + 1, t[i] = t[j]
               PROVE  i = j
    OBVIOUS
  <2>1. CASE i = 1
    BY <1>2, <1>4, <1>5, <2>1
  <2>2. CASE j = 1
    BY <1>2, <1>4, <1>5, <2>2
  <2>3. CASE i # 1 /\ j # 1
    <3>1. i - 1 = j - 1
      BY <1>2, <1>4, <2>3
    <3> QED
      BY <1>2, <3>1
  <2> QED
    BY <2>1, <2>2, <2>3
<1>9. m + 1 \in Nat
  BY <1>2
<1>10. SlotList(t) /\ Len(t) = m + 1
  BY <1>7, <1>8, <1>9, SlotListIs
<1>11. Prepended(q, idx, t)
  BY <1>1, <1>5, <1>10 DEF Prepended
<1> QED
  BY <1>11 DEF t

\* t is q without its slot at place k.
Removed(q, k, t) ==
  /\ SlotList(t) /\ Len(t) = Len(q) - 1
  /\ \A i \in 1 .. Len(t) : t[i] = q[IF i < k THEN i ELSE i + 1]
  /\ NotIn(t, q[k])
  /\ \A j \in 1 .. Len(q) : j # k => \E i \in 1 .. Len(t) : t[i] = q[j]

LEMMA RemoveList ==
  ASSUME NEW q, SlotList(q), NEW k \in 1 .. Len(q)
  PROVE  Removed(q, k, RemoveAt(q, k))
<1> DEFINE t == RemoveAt(q, k)
<1>1. PICK m : m = Len(q)
  OBVIOUS
<1>2. /\ q \in Seq(OrderIndices) /\ m \in Nat /\ DOMAIN q = 1 .. m /\ k \in 1 .. m
      /\ \A i, j \in 1 .. m : q[i] = q[j] => i = j
  BY <1>1 DEF SlotList
<1>3. /\ t \in Seq(OrderIndices) /\ Len(t) = m - 1
      /\ \A i \in 1 .. m - 1 : t[i] = q[IF i < k THEN i ELSE i + 1]
  <2>1. k \in DOMAIN q
    BY <1>2
  <2>2. /\ RemoveAt(q, k) \in Seq(OrderIndices) /\ Len(RemoveAt(q, k)) = Len(q) - 1
        /\ \A i \in 1 .. Len(q) - 1 : RemoveAt(q, k)[i] = q[IF i < k THEN i ELSE i + 1]
    BY <1>2, <2>1, RemoveAtProperties
  <2> QED
    BY <1>1, <2>2
<1> HIDE DEF t
<1>4. m - 1 \in Nat /\ t \in [1 .. m - 1 -> OrderIndices]
  BY <1>2, <1>3, LenProperties
<1>5. \A i \in 1 .. m - 1 : \E a \in 1 .. m : /\ a = (IF i < k THEN i ELSE i + 1) /\ t[i] = q[a]
                                              /\ a # k
  BY <1>2, <1>3
<1>6. \A i, j \in 1 .. m - 1 : t[i] = t[j] => i = j
  BY <1>2, <1>5
<1>7. \A i \in 1 .. m - 1 : t[i] # q[k]
  BY <1>2, <1>5
<1>8. ASSUME NEW j \in 1 .. m, j # k
      PROVE  \E i \in 1 .. m - 1 : t[i] = q[j]
  <2>1. CASE j < k
    <3>1. j \in 1 .. m - 1
      BY <1>2, <2>1
    <3> QED
      BY <1>3, <2>1, <3>1
  <2>2. CASE j > k
    <3>1. PICK i : i = j - 1
      OBVIOUS
    <3>2. i \in 1 .. m - 1 /\ ~(i < k) /\ i + 1 = j
      BY <1>2, <2>2, <3>1
    <3> QED
      BY <1>3, <3>2
  <2> QED
    BY <1>2, <1>8, <2>1, <2>2
<1>9. SlotList(t)
  BY <1>4, <1>6, SlotListIs
<1>10. Removed(q, k, t)
  BY <1>1, <1>3, <1>7, <1>8, <1>9 DEF Removed, NotIn
<1> QED
  BY <1>10 DEF t

\* A list whose slots are left alone is the same list.
LEMMA ListKept ==
  ASSUME NEW slots, NEW slots2, NEW head, NEW q, Lists(slots, head, q),
         \A i \in 1 .. Len(q) : slots2[q[i]] = slots[q[i]]
  PROVE  Lists(slots2, head, q)
BY DEF Lists

-----------------------------------------------------------------------------
(***************************************************************************)
(* A level and its orders.                                                 *)
(***************************************************************************)
\* o is an order with something left, at the price of slot k of side s.
Holds(o, s, k) ==
  o.id \in OrderIds /\ o.side = s /\ o.price = index_to_price(k) /\ o.qty \in Nat \ {0}

Left(slots, q) == [i \in 1 .. Len(q) |-> slots[q[i]].qty]

\* Level l, at slot k of side s, holds the orders in the slots q.
Level(slots, l, q, s, k) ==
  /\ Lists(slots, l.head, q)
  /\ ListsBack(slots, l.tail, q)
  /\ \A i \in 1 .. Len(q) : Holds(slots[q[i]], s, k)
  /\ SumsTo(Left(slots, q), Len(q), l.total_qty)

\* The two slots differ in their links only.
SameOrder(o2, o) == o2.id = o.id /\ o2.side = o.side /\ o2.price = o.price /\ o2.qty = o.qty

LEMMA LevelKept ==
  ASSUME NEW slots, NEW slots2, NEW l, NEW q, NEW s, NEW k, Level(slots, l, q, s, k),
         \A i \in 1 .. Len(q) : slots2[q[i]] = slots[q[i]]
  PROVE  Level(slots2, l, q, s, k)
<1>1. Lists(slots2, l.head, q)
  BY ListKept DEF Level
<1>2. ListsBack(slots2, l.tail, q) /\ \A i \in 1 .. Len(q) : Holds(slots2[q[i]], s, k)
  BY DEF Level, ListsBack
<1>3. Left(slots2, q) = Left(slots, q)
  BY DEF Left
<1> QED
  BY <1>1, <1>2, <1>3 DEF Level

\* A level without orders, and one with some.
LEMMA LevelEnds ==
  ASSUME NEW slots, NEW l, NEW q, NEW s, NEW k, Level(slots, l, q, s, k)
  PROVE  /\ l.head = Nil <=> Len(q) = 0
         /\ l.tail = Nil <=> Len(q) = 0
         /\ Len(q) = 0 => l.head = Nil /\ l.tail = Nil
         /\ Len(q) # 0 => /\ 1 \in 1 .. Len(q) /\ l.head = q[1]
                          /\ Len(q) \in 1 .. Len(q) /\ l.tail = q[Len(q)]
         /\ Len(q) \in Nat /\ \A i \in 1 .. Len(q) : q[i] \in OrderIndices /\ q[i] # Nil
<1>1. /\ SlotList(q) /\ l.head = FirstOf(q) /\ l.tail = LastOf(q)
  BY DEF Level, Lists, ListsBack
<1>2. Len(q) \in Nat /\ \A i \in 1 .. Len(q) : q[i] \in OrderIndices /\ q[i] # Nil
  BY <1>1, NilAssumption, ElementOfSeq DEF SlotList
<1> QED
  BY <1>1, <1>2 DEF FirstOf, LastOf

\* What push_back of the order in slot idx does.
Pushed(slots, slots2, l, l2, idx) ==
  /\ l2.head = (IF l.head = Nil THEN idx ELSE l.head) /\ l2.tail = idx
  /\ l2.total_qty = l.total_qty + slots2[idx].qty
  /\ slots2[idx].next = Nil /\ slots2[idx].prev = l.tail
  /\ l.head # Nil => /\ SameOrder(slots2[l.tail], slots[l.tail])
                     /\ slots2[l.tail].next = idx
                     /\ slots2[l.tail].prev = slots[l.tail].prev
  /\ \A j \in OrderIndices : j # idx /\ j # l.tail => slots2[j] = slots[j]

LEMMA LevelPush ==
  ASSUME NEW slots, NEW slots2, NEW l, NEW l2, NEW q, NEW s, NEW k, Level(slots, l, q, s, k),
         NEW idx \in OrderIndices, NotIn(q, idx),
         Pushed(slots, slots2, l, l2, idx), Holds(slots2[idx], s, k),
         NEW t, Appended(q, idx, t)
  PROVE  Level(slots2, l2, t, s, k)
<1>1. PICK n : n = Len(q)
  OBVIOUS
<1>2. /\ SlotList(q) /\ n \in Nat /\ DOMAIN q = 1 .. n
      /\ \A i \in 1 .. n : q[i] \in OrderIndices /\ q[i] # Nil
      /\ \A i, j \in 1 .. n : q[i] = q[j] => i = j
  BY <1>1, LevelEnds DEF Level, Lists, SlotList
<1>3. /\ SlotList(t) /\ Len(t) = n + 1 /\ t[n + 1] = idx
      /\ \A i \in 1 .. n : t[i] = q[i]
  BY <1>1 DEF Appended
<1>4. /\ l.head = (IF n = 0 THEN Nil ELSE q[1]) /\ l.tail = (IF n = 0 THEN Nil ELSE q[n])
      /\ l.head = Nil <=> n = 0
  BY <1>1, LevelEnds
<1>5. ASSUME NEW i \in 1 .. n
      PROVE  /\ SameOrder(slots2[q[i]], slots[q[i]])
             /\ slots2[q[i]].prev = slots[q[i]].prev
             /\ slots2[q[i]].next = IF i = n THEN idx ELSE slots[q[i]].next
  <2>1. n # 0 /\ n \in 1 .. n
    BY <1>2
  <2>2. CASE i = n
    BY <1>4, <2>1, <2>2 DEF Pushed
  <2>3. CASE i # n
    <3>1. q[i] # l.tail /\ q[i] # idx /\ q[i] \in OrderIndices
      BY <1>1, <1>2, <1>4, <2>1, <2>3 DEF NotIn
    <3>2. slots2[q[i]] = slots[q[i]]
      BY <3>1 DEF Pushed
    <3> QED
      BY <2>3, <3>2 DEF SameOrder
  <2> QED
    BY <2>2, <2>3
<1>6. Lists(slots2, l2.head, t)
  <2>1. l2.head = FirstOf(t)
    <3>1. Len(t) # 0 /\ FirstOf(t) = t[1]
      BY <1>2, <1>3 DEF FirstOf
    <3>2. CASE n = 0
      BY <1>3, <1>4, <3>1, <3>2 DEF Pushed
    <3>3. CASE n # 0
      BY <1>2, <1>3, <1>4, <3>1, <3>3 DEF Pushed
    <3> QED
      BY <3>2, <3>3
  <2>2. ASSUME NEW i \in 1 .. n + 1
        PROVE  slots2[t[i]].next = NextIn(t, i)
    <3>1. CASE i = n + 1
      BY <1>3, <3>1 DEF NextIn, Pushed
    <3>2. CASE i = n /\ n # 0
      <4>1. i \in 1 .. n /\ i # n + 1
        BY <1>2, <3>2
      <4> QED
        BY <1>3, <1>5, <3>2, <4>1 DEF NextIn
    <3>3. CASE i < n
      <4>1. i \in 1 .. n /\ i + 1 \in 1 .. n /\ i # n /\ i # n + 1
        BY <1>2, <3>3
      <4>2. slots[q[i]].next = q[i + 1]
        BY <1>1, <4>1 DEF Level, Lists, NextIn
      <4> QED
        BY <1>3, <1>5, <4>1, <4>2 DEF NextIn
    <3> QED
      BY <1>2, <3>1, <3>2, <3>3
  <2> QED
    BY <1>3, <2>1, <2>2 DEF Lists
<1>7. ListsBack(slots2, l2.tail, t)
  <2>1. l2.tail = LastOf(t)
    BY <1>2, <1>3 DEF LastOf, Pushed
  <2>2. ASSUME NEW i \in 1 .. n + 1
        PROVE  slots2[t[i]].prev = PrevIn(t, i)
    <3>1. CASE i = n + 1
      <4>1. slots2[t[i]].prev = l.tail
        BY <1>3, <3>1 DEF Pushed
      <4>2. CASE n = 0
        BY <1>4, <3>1, <4>1, <4>2 DEF PrevIn
      <4>3. CASE n # 0
        <5>1. i # 1 /\ i - 1 = n /\ n \in 1 .. n
          BY <1>2, <3>1, <4>3
        <5> QED
          BY <1>3, <1>4, <4>1, <4>3, <5>1 DEF PrevIn
      <4> QED
        BY <4>2, <4>3
    <3>2. CASE i \in 1 .. n
      <4>1. slots2[t[i]].prev = PrevIn(q, i)
        BY <1>1, <1>3, <1>5, <3>2 DEF Level, ListsBack
      <4>2. i = 1 \/ i - 1 \in 1 .. n
        BY <1>2, <3>2
      <4> QED
        BY <1>3, <4>1, <4>2 DEF PrevIn
    <3> QED
      BY <1>2, <3>1, <3>2
  <2> QED
    BY <1>3, <2>1, <2>2 DEF ListsBack
<1>8. \A i \in 1 .. n + 1 : Holds(slots2[t[i]], s, k)
  <2> SUFFICES ASSUME NEW i \in 1 .. n + 1
               PROVE  Holds(slots2[t[i]], s, k)
    OBVIOUS
  <2>1. CASE i = n + 1
    BY <1>3, <2>1
  <2>2. CASE i \in 1 .. n
    <3>1. Holds(slots[q[i]], s, k)
      BY <1>1, <2>2 DEF Level
    <3> QED
      BY <1>3, <1>5, <2>2, <3>1 DEF Holds, SameOrder
  <2> QED
    BY <1>2, <2>1, <2>2
<1>9. SumsTo(Left(slots2, t), n + 1, l2.total_qty)
  <2>1. PICK a, b, v : a = Left(slots, q) /\ b = Left(slots2, t) /\ v = l.total_qty
    OBVIOUS
  <2>2. SumsTo(a, n, v)
    BY <1>1, <2>1 DEF Level
  <2>3. \A i \in 1 .. n : b[i] = a[i]
    BY <1>1, <1>2, <1>3, <1>5, <2>1 DEF Left, SameOrder
  <2>4. b[n + 1] = slots2[idx].qty /\ b[n + 1] \in Nat
    <3>1. n + 1 \in 1 .. Len(t)
      BY <1>2, <1>3
    <3> QED
      BY <1>3, <2>1, <3>1 DEF Left, Holds
  <2>5. SumsTo(b, n + 1, v + b[n + 1])
    BY <1>2, <2>2, <2>3, <2>4, SumAppend
  <2> QED
    BY <2>1, <2>4, <2>5 DEF Pushed
<1> QED
  BY <1>3, <1>6, <1>7, <1>8, <1>9 DEF Level

\* What unlink of the order in slot idx does.
Unlinked(slots, slots2, l, l2, idx) ==
  /\ l2.head = IF slots[idx].prev = Nil THEN slots[idx].next ELSE l.head
  /\ l2.tail = IF slots[idx].next = Nil THEN slots[idx].prev ELSE l.tail
  /\ l2.total_qty = l.total_qty - slots[idx].qty
  /\ \A j \in OrderIndices : j # idx =>
       /\ SameOrder(slots2[j], slots[j])
       /\ slots2[j].next = IF j = slots[idx].prev THEN slots[idx].next ELSE slots[j].next
       /\ slots2[j].prev = IF j = slots[idx].next THEN slots[idx].prev ELSE slots[j].prev
       /\ j # slots[idx].prev /\ j # slots[idx].next => slots2[j] = slots[j]

LEMMA LevelUnlink ==
  ASSUME NEW slots, NEW slots2, NEW l, NEW l2, NEW q, NEW s, NEW k, Level(slots, l, q, s, k),
         NEW m \in 1 .. Len(q), Unlinked(slots, slots2, l, l2, q[m]),
         NEW t, Removed(q, m, t)
  PROVE  Level(slots2, l2, t, s, k)
<1>1. PICK n : n = Len(q)
  OBVIOUS
<1>2. /\ SlotList(q) /\ n \in Nat /\ DOMAIN q = 1 .. n /\ m \in 1 .. n /\ n # 0
      /\ \A i \in 1 .. n : q[i] \in OrderIndices /\ q[i] # Nil
      /\ \A i, j \in 1 .. n : q[i] = q[j] => i = j
  <2>1. SlotList(q)
    BY DEF Level, Lists
  <2>2. Len(q) \in Nat /\ \A i \in 1 .. Len(q) : q[i] \in OrderIndices /\ q[i] # Nil
    BY LevelEnds
  <2> QED
    BY <1>1, <2>1, <2>2 DEF SlotList
<1>3. /\ SlotList(t) /\ Len(t) = n - 1
      /\ \A i \in 1 .. n - 1 : t[i] = q[IF i < m THEN i ELSE i + 1]
  BY <1>1 DEF Removed
<1>4. l.head = q[1] /\ l.tail = q[n]
  BY <1>1, <1>2, LevelEnds
<1>5. \A i \in 1 .. n : /\ slots[q[i]].next = IF i = n THEN Nil ELSE q[i + 1]
                        /\ slots[q[i]].prev = IF i = 1 THEN Nil ELSE q[i - 1]
  BY <1>1 DEF Level, Lists, ListsBack, NextIn, PrevIn
<1>6. ASSUME NEW i \in 1 .. n, i # m
      PROVE  /\ SameOrder(slots2[q[i]], slots[q[i]])
             /\ slots2[q[i]].next = IF i = m - 1 THEN slots[q[m]].next ELSE slots[q[i]].next
             /\ slots2[q[i]].prev = IF i = m + 1 THEN slots[q[m]].prev ELSE slots[q[i]].prev
  <2>1. q[i] \in OrderIndices /\ q[i] # q[m]
    BY <1>2, <1>6
  <2>2. q[i] = slots[q[m]].prev <=> i = m - 1
    <3>1. CASE m = 1
      <4>1. slots[q[m]].prev = Nil /\ i # m - 1
        BY <1>2, <1>5, <3>1
      <4> QED
        BY <1>2, <4>1
    <3>2. CASE m # 1
      <4>1. m - 1 \in 1 .. n /\ slots[q[m]].prev = q[m - 1]
        BY <1>2, <1>5, <3>2
      <4> QED
        BY <1>2, <4>1
    <3> QED
      BY <3>1, <3>2
  <2>3. q[i] = slots[q[m]].next <=> i = m + 1
    <3>1. CASE m = n
      <4>1. slots[q[m]].next = Nil /\ i # m + 1
        BY <1>2, <1>5, <3>1
      <4> QED
        BY <1>2, <4>1
    <3>2. CASE m # n
      <4>1. m + 1 \in 1 .. n /\ slots[q[m]].next = q[m + 1]
        BY <1>2, <1>5, <3>2
      <4> QED
        BY <1>2, <4>1
    <3> QED
      BY <3>1, <3>2
  <2> QED
    BY <2>1, <2>2, <2>3 DEF Unlinked
<1>7. \* Each place of the shorter list, and its place in the list it was.
      ASSUME NEW i \in 1 .. n - 1
      PROVE  \E a \in 1 .. n : /\ a # m /\ t[i] = q[a]
                               /\ (i < m /\ a = i) \/ (i >= m /\ a = i + 1)
  <2>1. CASE i < m
    <3>1. i \in 1 .. n /\ i # m /\ t[i] = q[i]
      BY <1>2, <1>3, <2>1
    <3> QED
      BY <2>1, <3>1
  <2>2. CASE ~(i < m)
    <3>1. i + 1 \in 1 .. n /\ i + 1 # m /\ t[i] = q[i + 1] /\ i >= m
      BY <1>2, <1>3, <2>2
    <3> QED
      BY <3>1
  <2> QED
    BY <2>1, <2>2
<1>8. Lists(slots2, l2.head, t)
  <2>1. l2.head = FirstOf(t)
    <3>1. l2.head = IF m = 1 THEN slots[q[m]].next ELSE q[1]
      <4>1. slots[q[m]].prev = Nil <=> m = 1
        <5>1. m = 1 \/ m - 1 \in 1 .. n
          BY <1>2
        <5> QED
          BY <1>2, <1>5, <5>1
      <4> QED
        BY <1>4, <4>1 DEF Unlinked
    <3>2. CASE m = 1 /\ n = 1
      BY <1>2, <1>3, <1>5, <3>1, <3>2 DEF FirstOf
    <3>3. CASE m = 1 /\ n # 1
      <4>1. 1 \in 1 .. n - 1 /\ ~(1 < m) /\ n - 1 # 0 /\ 1 + 1 = m + 1
        BY <1>2, <3>3
      <4>2. t[1] = q[m + 1]
        BY <1>3, <4>1
      <4> QED
        BY <1>2, <1>3, <1>5, <3>1, <3>3, <4>1, <4>2 DEF FirstOf
    <3>4. CASE m # 1
      <4>1. 1 \in 1 .. n - 1 /\ 1 < m /\ n - 1 # 0
        BY <1>2, <3>4
      <4>2. t[1] = q[1]
        BY <1>3, <4>1
      <4> QED
        BY <1>3, <3>1, <3>4, <4>1, <4>2 DEF FirstOf
    <3> QED
      BY <3>2, <3>3, <3>4
  <2>2. ASSUME NEW i \in 1 .. n - 1
        PROVE  slots2[t[i]].next = NextIn(t, i)
    <3>1. PICK a \in 1 .. n : /\ a # m /\ t[i] = q[a]
                              /\ (i < m /\ a = i) \/ (i >= m /\ a = i + 1)
      BY <1>7
    <3>2. slots2[t[i]].next = IF a = m - 1 THEN slots[q[m]].next ELSE slots[q[a]].next
      BY <1>6, <3>1
    <3>3. NextIn(t, i) = IF i = n - 1 THEN Nil ELSE t[i + 1]
      BY <1>3 DEF NextIn
    <3>4. CASE a = m - 1
      <4>1. a = i /\ i + 1 = m /\ slots[q[m]].next = IF m = n THEN Nil ELSE q[m + 1]
        BY <1>2, <1>5, <3>1, <3>4
      <4>2. CASE m = n
        BY <1>2, <3>2, <3>3, <3>4, <4>1, <4>2
      <4>3. CASE m # n
        <5>1. m \in 1 .. n - 1 /\ ~(m < m) /\ i # n - 1
          BY <1>2, <4>1, <4>3
        <5>2. t[m] = q[m + 1]
          BY <1>3, <5>1
        <5> QED
          BY <3>2, <3>3, <3>4, <4>1, <4>3, <5>1, <5>2
      <4> QED
        BY <4>2, <4>3
    <3>5. CASE a # m - 1
      <4>1. slots2[t[i]].next = IF a = n THEN Nil ELSE q[a + 1]
        BY <1>5, <3>2, <3>5
      <4>2. CASE a = n
        <5>1. i = n - 1
          BY <1>2, <3>1, <4>2
        <5> QED
          BY <3>3, <4>1, <4>2, <5>1
      <4>3. CASE a # n
        <5>1. i # n - 1 /\ i + 1 \in 1 .. n - 1 /\ (i + 1 < m <=> i < m)
          BY <1>2, <3>1, <3>5, <4>3
        <5>2. t[i + 1] = q[IF i + 1 < m THEN i + 1 ELSE i + 1 + 1]
          BY <1>3, <5>1
        <5>3. t[i + 1] = q[a + 1]
          BY <1>2, <3>1, <5>1, <5>2
        <5> QED
          BY <3>3, <4>1, <4>3, <5>1, <5>3
      <4> QED
        BY <4>2, <4>3
    <3> QED
      BY <3>4, <3>5
  <2> QED
    BY <1>3, <2>1, <2>2 DEF Lists
<1>9. ListsBack(slots2, l2.tail, t)
  <2>1. l2.tail = LastOf(t)
    <3>1. l2.tail = IF m = n THEN slots[q[m]].prev ELSE q[n]
      <4>1. slots[q[m]].next = Nil <=> m = n
        <5>1. m = n \/ m + 1 \in 1 .. n
          BY <1>2
        <5> QED
          BY <1>2, <1>5, <5>1
      <4> QED
        BY <1>4, <4>1 DEF Unlinked
    <3>2. CASE n = 1
      BY <1>2, <1>3, <1>5, <3>1, <3>2 DEF LastOf
    <3>3. CASE n # 1
      <4>1. n - 1 \in 1 .. n - 1 /\ n - 1 # 0 /\ n - 1 + 1 = n
        BY <1>2, <3>3
      <4>2. t[n - 1] = IF m = n THEN q[n - 1] ELSE q[n]
        <5>1. CASE m = n
          <6>1. n - 1 < m
            BY <1>2, <5>1
          <6> QED
            BY <1>3, <4>1, <5>1, <6>1
        <5>2. CASE m # n
          <6>1. ~(n - 1 < m)
            BY <1>2, <5>2
          <6> QED
            BY <1>3, <4>1, <5>2, <6>1
        <5> QED
          BY <5>1, <5>2
      <4>3. m = n => slots[q[m]].prev = q[n - 1]
        BY <1>2, <1>5, <3>3
      <4> QED
        BY <1>3, <3>1, <4>1, <4>2, <4>3 DEF LastOf
    <3> QED
      BY <3>2, <3>3
  <2>2. ASSUME NEW i \in 1 .. n - 1
        PROVE  slots2[t[i]].prev = PrevIn(t, i)
    <3>1. PICK a \in 1 .. n : /\ a # m /\ t[i] = q[a]
                              /\ (i < m /\ a = i) \/ (i >= m /\ a = i + 1)
      BY <1>7
    <3>2. slots2[t[i]].prev = IF a = m + 1 THEN slots[q[m]].prev ELSE slots[q[a]].prev
      BY <1>6, <3>1
    <3>3. PrevIn(t, i) = IF i = 1 THEN Nil ELSE t[i - 1]
      BY DEF PrevIn
    <3>4. CASE a = m + 1
      <4>1. i = m /\ slots[q[m]].prev = IF m = 1 THEN Nil ELSE q[m - 1]
        BY <1>2, <1>5, <3>1, <3>4
      <4>2. CASE m = 1
        BY <3>2, <3>3, <3>4, <4>1, <4>2
      <4>3. CASE m # 1
        <5>1. m - 1 \in 1 .. n - 1 /\ m - 1 < m
          BY <1>2, <4>1, <4>3
        <5>2. t[m - 1] = q[m - 1]
          BY <1>3, <5>1
        <5> QED
          BY <3>2, <3>3, <3>4, <4>1, <4>3, <5>2
      <4> QED
        BY <4>2, <4>3
    <3>5. CASE a # m + 1
      <4>1. slots2[t[i]].prev = IF a = 1 THEN Nil ELSE q[a - 1]
        BY <1>5, <3>2, <3>5
      <4>2. CASE a = 1
        <5>1. i = 1
          BY <1>2, <3>1, <4>2
        <5> QED
          BY <3>3, <4>1, <4>2, <5>1
      <4>3. CASE a # 1
        <5>1. i # 1 /\ i - 1 \in 1 .. n - 1 /\ (i - 1 < m <=> i < m)
          BY <1>2, <3>1, <3>5, <4>3
        <5>2. t[i - 1] = q[IF i - 1 < m THEN i - 1 ELSE i - 1 + 1]
          BY <1>3, <5>1
        <5>3. t[i - 1] = q[a - 1]
          BY <1>2, <3>1, <5>1, <5>2
        <5> QED
          BY <3>3, <4>1, <4>3, <5>1, <5>3
      <4> QED
        BY <4>2, <4>3
    <3> QED
      BY <3>4, <3>5
  <2> QED
    BY <1>3, <2>1, <2>2 DEF ListsBack
<1>10. \A i \in 1 .. n - 1 : Holds(slots2[t[i]], s, k)
  <2> SUFFICES ASSUME NEW i \in 1 .. n - 1
               PROVE  Holds(slots2[t[i]], s, k)
    OBVIOUS
  <2>1. PICK a \in 1 .. n : a # m /\ t[i] = q[a]
    BY <1>7
  <2>2. Holds(slots[q[a]], s, k)
    BY <1>1 DEF Level
  <2> QED
    BY <1>6, <2>1, <2>2 DEF Holds, SameOrder
<1>11. SumsTo(Left(slots2, t), n - 1, l2.total_qty)
  <2>1. PICK a, b, v : a = Left(slots, q) /\ b = Left(slots2, t) /\ v = l.total_qty
    OBVIOUS
  <2>2. SumsTo(a, n, v)
    BY <1>1, <2>1 DEF Level
  <2>3. ASSUME NEW i \in 1 .. n - 1
        PROVE  b[i] = a[IF i < m THEN i ELSE i + 1]
    <3>1. PICK c \in 1 .. n : /\ c # m /\ t[i] = q[c]
                              /\ (i < m /\ c = i) \/ (i >= m /\ c = i + 1)
      BY <1>7
    <3>2. b[i] = slots2[q[c]].qty /\ a[c] = slots[q[c]].qty
      BY <1>1, <1>3, <2>1, <3>1 DEF Left
    <3>3. b[i] = a[c]
      BY <1>6, <3>1, <3>2 DEF SameOrder
    <3>4. c = IF i < m THEN i ELSE i + 1
      BY <1>2, <3>1
    <3> QED
      BY <3>3, <3>4
  <2>4. SumsTo(b, n - 1, v - a[m])
    BY <1>2, <2>2, <2>3, SumRemove
  <2>5. a[m] = slots[q[m]].qty
    BY <1>1, <2>1 DEF Left
  <2> QED
    BY <2>1, <2>4, <2>5 DEF Unlinked
<1> QED
  BY <1>3, <1>8, <1>9, <1>10, <1>11 DEF Level

\* What a fill of n of the order in slot idx does.
Reduced(slots, slots2, l, l2, idx, n) ==
  /\ n \in Nat /\ n < slots[idx].qty
  /\ slots2[idx].id = slots[idx].id /\ slots2[idx].side = slots[idx].side
  /\ slots2[idx].price = slots[idx].price /\ slots2[idx].qty = slots[idx].qty - n
  /\ slots2[idx].prev = slots[idx].prev /\ slots2[idx].next = slots[idx].next
  /\ \A j \in OrderIndices : j # idx => slots2[j] = slots[j]
  /\ l2.head = l.head /\ l2.tail = l.tail /\ l2.total_qty = l.total_qty - n

LEMMA LevelReduce ==
  ASSUME NEW slots, NEW slots2, NEW l, NEW l2, NEW q, NEW s, NEW k, Level(slots, l, q, s, k),
         Len(q) # 0, NEW n, Reduced(slots, slots2, l, l2, q[1], n)
  PROVE  Level(slots2, l2, q, s, k)
<1> USE DEF Reduced
<1>1. /\ SlotList(q) /\ Len(q) \in Nat /\ 1 \in 1 .. Len(q)
      /\ \A i \in 1 .. Len(q) : q[i] \in OrderIndices
  BY LevelEnds DEF Level, Lists
<1>2. \A i \in 1 .. Len(q) : i # 1 => slots2[q[i]] = slots[q[i]]
  BY <1>1 DEF SlotList
<1>3. Lists(slots2, l2.head, q) /\ ListsBack(slots2, l2.tail, q)
  <2>1. /\ l.head = FirstOf(q) /\ l.tail = LastOf(q)
        /\ \A i \in 1 .. Len(q) : /\ slots[q[i]].next = NextIn(q, i)
                                  /\ slots[q[i]].prev = PrevIn(q, i)
    BY DEF Level, Lists, ListsBack
  <2> QED
    BY <1>1, <1>2, <2>1 DEF Lists, ListsBack
<1>4. \A i \in 1 .. Len(q) : Holds(slots2[q[i]], s, k)
  <2>1. \A i \in 1 .. Len(q) : Holds(slots[q[i]], s, k)
    BY DEF Level
  <2>2. Holds(slots2[q[1]], s, k)
    BY <1>1, <2>1 DEF Holds
  <2> QED
    BY <1>2, <2>1, <2>2
<1>5. SumsTo(Left(slots2, q), Len(q), l2.total_qty)
  <2>1. PICK a, b, v, m : /\ a = Left(slots, q) /\ b = Left(slots2, q) /\ v = l.total_qty
                          /\ m = Len(q)
    OBVIOUS
  <2>2. SumsTo(a, m, v) /\ m \in Nat \ {0}
    BY <1>1, <2>1 DEF Level
  <2>3. a[1] \in Nat /\ n <= a[1] /\ b[1] = a[1] - n
    <3>1. slots[q[1]].qty \in Nat
      BY <1>1 DEF Level, Holds
    <3> QED
      BY <1>1, <2>1, <3>1 DEF Left
  <2>4. \A i \in 2 .. m : b[i] = a[i]
    BY <1>1, <1>2, <2>1 DEF Left
  <2>5. SumsTo(b, m, v - n)
    BY <2>2, <2>3, <2>4, SumTake
  <2> QED
    BY <2>1, <2>5
<1> QED
  BY <1>3, <1>4, <1>5 DEF Level

-----------------------------------------------------------------------------
(***************************************************************************)
(* What the operations of the pool and the levels do to the slots.         *)
(***************************************************************************)
SlotArrays == [OrderIndices -> SlotRecords]
LevelRecords == [head : MaybeIndex, tail : MaybeIndex, total_qty : Nat]

LEMMA SlotFields ==
  ASSUME NEW slots \in SlotArrays, NEW j \in OrderIndices
  PROVE  /\ slots[j] \in SlotRecords
         /\ slots[j].prev \in MaybeIndex /\ slots[j].next \in MaybeIndex /\ slots[j].qty \in Nat
BY DEF SlotArrays, SlotRecords

\* Only the link next of slot idx is written.
SetNextIs(slots, slots2, idx, x) ==
  /\ slots2 \in SlotArrays /\ SameOrder(slots2[idx], slots[idx])
  /\ slots2[idx].next = x /\ slots2[idx].prev = slots[idx].prev
  /\ \A j \in OrderIndices : j # idx => slots2[j] = slots[j]

LEMMA SetNextEffect ==
  ASSUME NEW slots \in SlotArrays, NEW idx \in OrderIndices, NEW x \in MaybeIndex
  PROVE  SetNextIs(slots, SetNext(slots, idx, x), idx, x)
<1>1. slots[idx] \in SlotRecords
  BY DEF SlotArrays
<1>2. PICK o : o = [slots[idx] EXCEPT !.next = x]
  OBVIOUS
<1>3. /\ o \in SlotRecords /\ SameOrder(o, slots[idx]) /\ o.next = x
      /\ o.prev = slots[idx].prev
  BY <1>1, <1>2 DEF SlotRecords, SameOrder
<1>4. SetNext(slots, idx, x) = [slots EXCEPT ![idx] = o]
  BY <1>2 DEF SetNext
<1> QED
  BY <1>3, <1>4 DEF SlotArrays, SetNextIs

\* Only the link prev of slot idx is written.
SetPrevIs(slots, slots2, idx, x) ==
  /\ slots2 \in SlotArrays /\ SameOrder(slots2[idx], slots[idx])
  /\ slots2[idx].prev = x /\ slots2[idx].next = slots[idx].next
  /\ \A j \in OrderIndices : j # idx => slots2[j] = slots[j]

LEMMA SetPrevEffect ==
  ASSUME NEW slots \in SlotArrays, NEW idx \in OrderIndices, NEW x \in MaybeIndex
  PROVE  SetPrevIs(slots, SetPrev(slots, idx, x), idx, x)
<1>1. slots[idx] \in SlotRecords
  BY DEF SlotArrays
<1>2. PICK o : o = [slots[idx] EXCEPT !.prev = x]
  OBVIOUS
<1>3. /\ o \in SlotRecords /\ SameOrder(o, slots[idx]) /\ o.prev = x
      /\ o.next = slots[idx].next
  BY <1>1, <1>2 DEF SlotRecords, SameOrder
<1>4. SetPrev(slots, idx, x) = [slots EXCEPT ![idx] = o]
  BY <1>2 DEF SetPrev
<1> QED
  BY <1>3, <1>4 DEF SlotArrays, SetPrevIs

\* Only the slot idx differs, by its links.
Relinked(slots, slots2, idx, x, y) ==
  /\ SameOrder(slots2[idx], slots[idx]) /\ slots2[idx].prev = x /\ slots2[idx].next = y
  /\ \A j \in OrderIndices : j # idx => slots2[j] = slots[j]

LEMMA SetLinksEffect ==
  ASSUME NEW slots \in SlotArrays, NEW idx \in OrderIndices, NEW x \in MaybeIndex,
         NEW y \in MaybeIndex
  PROVE  /\ SetLinks(slots, idx, x, y) \in SlotArrays
         /\ Relinked(slots, SetLinks(slots, idx, x, y), idx, x, y)
<1>1. PICK a : a = SetPrev(slots, idx, x)
  OBVIOUS
<1>2. /\ a \in SlotArrays /\ SameOrder(a[idx], slots[idx]) /\ a[idx].prev = x
      /\ \A j \in OrderIndices : j # idx => a[j] = slots[j]
  BY <1>1, SetPrevEffect DEF SetPrevIs
<1>3. PICK b : b = SetNext(a, idx, y)
  OBVIOUS
<1>4. /\ b \in SlotArrays /\ SameOrder(b[idx], a[idx]) /\ b[idx].next = y
      /\ b[idx].prev = a[idx].prev
      /\ \A j \in OrderIndices : j # idx => b[j] = a[j]
  BY <1>2, <1>3, SetNextEffect DEF SetNextIs
<1>5. SetLinks(slots, idx, x, y) = b
  BY <1>1, <1>3 DEF SetLinks
<1> QED
  BY <1>2, <1>4, <1>5 DEF Relinked, SameOrder

\* push_back writes the links of idx, and the link of the last order to it.
LEMMA PushEffect ==
  ASSUME NEW P, P.slots \in SlotArrays, NEW l \in LevelRecords, NEW idx \in OrderIndices,
         l.head = Nil <=> l.tail = Nil, l.tail # idx,
         NEW r, r = push_back(l, idx, P)
  PROVE  /\ Pushed(P.slots, r.pool.slots, l, r.level, idx)
         /\ SameOrder(r.pool.slots[idx], P.slots[idx])
         /\ r.pool.slots \in SlotArrays /\ r.pool.free_head = P.free_head
<1>1. l.tail \in MaybeIndex /\ Nil \in MaybeIndex
  BY DEF LevelRecords, MaybeIndex
<1>2. PICK slots : slots = SetLinks(P.slots, idx, l.tail, Nil)
  OBVIOUS
<1>3. slots \in SlotArrays /\ Relinked(P.slots, slots, idx, l.tail, Nil)
  BY <1>1, <1>2, SetLinksEffect
<1>4. /\ r.level.head = (IF l.head = Nil THEN idx ELSE l.head) /\ r.level.tail = idx
      /\ r.level.total_qty = l.total_qty + P.slots[idx].qty
      /\ r.pool.free_head = P.free_head
      /\ r.pool.slots = IF l.head = Nil THEN slots ELSE SetNext(slots, l.tail, idx)
  <2>1. CASE l.head = Nil
    BY <1>2, <2>1 DEF push_back, is_empty
  <2>2. CASE l.head # Nil
    BY <1>2, <2>2 DEF push_back, is_empty
  <2> QED
    BY <2>1, <2>2
<1>5. CASE l.head = Nil
  <2>1. r.pool.slots = slots
    BY <1>4, <1>5
  <2> QED
    BY <1>3, <1>4, <1>5, <2>1 DEF Relinked, Pushed, SameOrder
<1>6. CASE l.head # Nil
  <2>1. l.tail \in OrderIndices /\ idx \in MaybeIndex
    BY <1>1, <1>6 DEF MaybeIndex
  <2>2. PICK b : b = SetNext(slots, l.tail, idx)
    OBVIOUS
  <2>3. /\ b \in SlotArrays /\ SameOrder(b[l.tail], slots[l.tail]) /\ b[l.tail].next = idx
        /\ b[l.tail].prev = slots[l.tail].prev
        /\ \A j \in OrderIndices : j # l.tail => b[j] = slots[j]
    BY <1>3, <2>1, <2>2, SetNextEffect DEF SetNextIs
  <2>4. r.pool.slots = b
    BY <1>4, <1>6, <2>2
  <2>5. b[idx] = slots[idx] /\ slots[l.tail] = P.slots[l.tail]
    BY <1>3, <2>1, <2>3 DEF Relinked
  <2> QED
    BY <1>3, <1>4, <1>6, <2>3, <2>4, <2>5 DEF Relinked, Pushed, SameOrder
<1> QED
  BY <1>5, <1>6

\* unlink writes the links of idx, and those of its neighbours to it.
LEMMA UnlinkEffect ==
  ASSUME NEW P, P.slots \in SlotArrays, NEW l, NEW idx \in OrderIndices,
         P.slots[idx].prev # idx, P.slots[idx].next # idx,
         NEW r, r = unlink(l, idx, P)
  PROVE  /\ Unlinked(P.slots, r.pool.slots, l, r.level, idx)
         /\ SameOrder(r.pool.slots[idx], P.slots[idx])
         /\ r.pool.slots \in SlotArrays /\ r.pool.free_head = P.free_head
<1>1. PICK p, n : p = P.slots[idx].prev /\ n = P.slots[idx].next
  OBVIOUS
<1>2. p \in MaybeIndex /\ n \in MaybeIndex /\ Nil \in MaybeIndex
  BY <1>1, SlotFields DEF MaybeIndex
<1>3. PICK fore : fore = IF p = Nil THEN P.slots ELSE SetNext(P.slots, p, n)
  OBVIOUS
<1>4. /\ fore \in SlotArrays
      /\ \A j \in OrderIndices : /\ SameOrder(fore[j], P.slots[j])
                                 /\ fore[j].next = IF j = p THEN n ELSE P.slots[j].next
                                 /\ fore[j].prev = P.slots[j].prev
                                 /\ j # p => fore[j] = P.slots[j]
  <2>1. CASE p = Nil
    BY <1>3, <2>1, NilAssumption DEF SameOrder
  <2>2. CASE p # Nil
    <3>1. p \in OrderIndices /\ fore = SetNext(P.slots, p, n)
      BY <1>2, <1>3, <2>2 DEF MaybeIndex
    <3>2. /\ fore \in SlotArrays /\ SameOrder(fore[p], P.slots[p]) /\ fore[p].next = n
          /\ fore[p].prev = P.slots[p].prev
          /\ \A j \in OrderIndices : j # p => fore[j] = P.slots[j]
      <4>1. SetNextIs(P.slots, SetNext(P.slots, p, n), p, n)
        BY <1>2, <3>1, SetNextEffect
      <4> QED
        BY <3>1, <4>1 DEF SetNextIs
    <3> QED
      BY <3>1, <3>2 DEF SameOrder
  <2> QED
    BY <2>1, <2>2
<1>5. PICK both : both = IF n = Nil THEN fore ELSE SetPrev(fore, n, p)
  OBVIOUS
<1>6. /\ both \in SlotArrays
      /\ \A j \in OrderIndices : /\ SameOrder(both[j], fore[j])
                                 /\ both[j].prev = IF j = n THEN p ELSE fore[j].prev
                                 /\ both[j].next = fore[j].next
                                 /\ j # n => both[j] = fore[j]
  <2>1. CASE n = Nil
    BY <1>4, <1>5, <2>1, NilAssumption DEF SameOrder
  <2>2. CASE n # Nil
    <3>1. n \in OrderIndices /\ both = SetPrev(fore, n, p)
      BY <1>2, <1>5, <2>2 DEF MaybeIndex
    <3>2. /\ both \in SlotArrays /\ SameOrder(both[n], fore[n]) /\ both[n].prev = p
          /\ both[n].next = fore[n].next
          /\ \A j \in OrderIndices : j # n => both[j] = fore[j]
      <4>1. SetPrevIs(fore, SetPrev(fore, n, p), n, p)
        BY <1>2, <1>4, <3>1, SetPrevEffect
      <4> QED
        BY <3>1, <4>1 DEF SetPrevIs
    <3> QED
      BY <3>1, <3>2 DEF SameOrder
  <2> QED
    BY <2>1, <2>2
<1>7. PICK slots2 : slots2 = SetLinks(both, idx, Nil, Nil)
  OBVIOUS
<1>8. slots2 \in SlotArrays /\ Relinked(both, slots2, idx, Nil, Nil)
  BY <1>2, <1>6, <1>7, SetLinksEffect
<1>9. bypassed(P.slots, idx) = both
  BY <1>1, <1>3, <1>5 DEF bypassed
<1>10. /\ r.level.head = (IF p = Nil THEN n ELSE l.head)
       /\ r.level.tail = (IF n = Nil THEN p ELSE l.tail)
       /\ r.level.total_qty = l.total_qty - P.slots[idx].qty
       /\ r.pool.slots = slots2 /\ r.pool.free_head = P.free_head
  BY <1>1, <1>7, <1>9 DEF unlink
<1>11. ASSUME NEW j \in OrderIndices, j # idx
       PROVE  /\ SameOrder(slots2[j], P.slots[j])
              /\ slots2[j].next = IF j = p THEN n ELSE P.slots[j].next
              /\ slots2[j].prev = IF j = n THEN p ELSE P.slots[j].prev
              /\ j # p /\ j # n => slots2[j] = P.slots[j]
  <2>1. slots2[j] = both[j]
    BY <1>8, <1>11 DEF Relinked
  <2> QED
    BY <1>4, <1>6, <2>1 DEF SameOrder
<1>12. SameOrder(slots2[idx], P.slots[idx])
  BY <1>4, <1>6, <1>8 DEF Relinked, SameOrder
<1> QED
  BY <1>1, <1>8, <1>10, <1>11, <1>12 DEF Unlinked

\* pop_front is the unlink of the front order.
LEMMA PopIsUnlink ==
  ASSUME NEW P, NEW l, NEW q, NEW s, NEW k, Level(P.slots, l, q, s, k), Len(q) # 0
  PROVE  pop_front(l, P) = unlink(l, q[1], P)
<1>1. /\ SlotList(q) /\ Len(q) \in Nat /\ 1 \in 1 .. Len(q) /\ Len(q) \in 1 .. Len(q)
      /\ \A i \in 1 .. Len(q) : q[i] \in OrderIndices /\ q[i] # Nil
      /\ l.head = q[1] /\ l.tail = q[Len(q)]
  <2>1. SlotList(q)
    BY DEF Level, Lists
  <2> QED
    BY <2>1, LevelEnds
<1>2. /\ P.slots[q[1]].prev = Nil
      /\ P.slots[q[1]].next = IF Len(q) = 1 THEN Nil ELSE q[2]
  <2>1. P.slots[q[1]].prev = PrevIn(q, 1) /\ P.slots[q[1]].next = NextIn(q, 1)
    BY <1>1 DEF Level, Lists, ListsBack
  <2>2. 1 + 1 = 2
    OBVIOUS
  <2> QED
    BY <2>1, <2>2 DEF NextIn, PrevIn
<1>3. q[1] = q[Len(q)] <=> Len(q) = 1
  BY <1>1 DEF SlotList
<1>4. PICK p, n : p = P.slots[q[1]].prev /\ n = P.slots[q[1]].next
  OBVIOUS
<1>5. p = Nil /\ (n = Nil <=> q[1] = l.tail)
  <2>1. \A m \in Nat : m # 0 => m = 1 \/ 2 \in 1 .. m
    OBVIOUS
  <2> QED
    BY <1>1, <1>2, <1>3, <1>4, <2>1
<1>6. CASE q[1] = l.tail
  BY <1>1, <1>4, <1>5, <1>6 DEF pop_front, unlink, bypassed
<1>7. CASE q[1] # l.tail
  BY <1>1, <1>4, <1>5, <1>7 DEF pop_front, unlink, bypassed
<1> QED
  BY <1>6, <1>7

\* deallocate puts the slot in front of the free list.
LEMMA DeallocateEffect ==
  ASSUME NEW P, P.slots \in SlotArrays, P.free_head \in MaybeIndex, NEW idx \in OrderIndices,
         NEW r, r = deallocate(P, idx)
  PROVE  /\ r.slots \in SlotArrays /\ r.free_head = idx
         /\ Relinked(P.slots, r.slots, idx, Nil, P.free_head)
         /\ r \in [slots : SlotArrays, free_head : MaybeIndex]
<1>1. Nil \in MaybeIndex /\ idx \in MaybeIndex
  BY DEF MaybeIndex
<1>2. PICK slots2 : slots2 = SetLinks(P.slots, idx, Nil, P.free_head)
  OBVIOUS
<1>3. slots2 \in SlotArrays /\ Relinked(P.slots, slots2, idx, Nil, P.free_head)
  BY <1>1, <1>2, SetLinksEffect
<1>4. r = [slots |-> slots2, free_head |-> idx]
  BY <1>2 DEF deallocate
<1> QED
  BY <1>1, <1>3, <1>4

-----------------------------------------------------------------------------
(***************************************************************************)
(* The whole store: the levels' lists and the free list.                   *)
(***************************************************************************)
PriceSlots == Index!SlotIndices

\* Slots and prices of the ladder correspond.
LEMMA LadderArithmetic ==
  /\ NumSlots \in Nat \ {0}
  /\ \A k \in PriceSlots : /\ k \in Nat /\ index_to_price(k) \in Nat
                           /\ price_to_index(index_to_price(k)) = k
  /\ \A price \in Nat : OnLadder(price) => /\ price_to_index(price) \in PriceSlots
                                           /\ index_to_price(price_to_index(price)) = price
<1>1. /\ MinPrice \in Nat /\ MaxPrice \in Nat /\ MinPrice <= MaxPrice
      /\ TickSize \in Nat /\ TickSize > 0
  BY LadderAssumption
<1>2. NumSlots \in Nat \ {0}
  <2>1. (MaxPrice - MinPrice) \div TickSize \in Nat
    BY <1>1
  <2> QED
    BY <2>1 DEF NumSlots
<1>3. ASSUME NEW k \in PriceSlots
      PROVE  /\ k \in Nat /\ index_to_price(k) \in Nat
             /\ price_to_index(index_to_price(k)) = k
  <2>1. k \in Nat
    BY <1>2 DEF PriceSlots, Index!SlotIndices
  <2>2. k * TickSize \in Nat /\ (k * TickSize) \div TickSize = k
    BY <1>1, <2>1
  <2>3. MinPrice + k * TickSize - MinPrice = k * TickSize
    BY <1>1, <2>2
  <2> QED
    BY <1>1, <2>1, <2>2, <2>3 DEF index_to_price, price_to_index
<1>4. ASSUME NEW price \in Nat, OnLadder(price)
      PROVE  /\ price_to_index(price) \in PriceSlots
             /\ index_to_price(price_to_index(price)) = price
  <2>1. PICK d : d = price - MinPrice
    OBVIOUS
  <2>2. d \in Nat /\ d <= MaxPrice - MinPrice /\ d % TickSize = 0
    BY <1>1, <1>4, <2>1 DEF OnLadder
  <2>3. d \div TickSize \in Nat /\ d \div TickSize <= (MaxPrice - MinPrice) \div TickSize
    BY <1>1, <2>2
  <2>4. (d \div TickSize) * TickSize = d
    BY <1>1, <2>2
  <2>5. price_to_index(price) = d \div TickSize
    BY <2>1 DEF price_to_index
  <2>6. price_to_index(price) \in PriceSlots
    BY <1>1, <1>2, <2>3, <2>5 DEF PriceSlots, Index!SlotIndices, NumSlots
  <2> QED
    BY <1>1, <2>1, <2>4, <2>5, <2>6 DEF index_to_price
<1> QED
  BY <1>2, <1>3, <1>4

\* The slots of the orders of a level.
Orders(P, L, s, k) == Chain(P, L[s][k].head)

Resting(P, L, idx) == \E s \in Sides, k \in PriceSlots : ~NotIn(Orders(P, L, s, k), idx)

\* Each level holds its orders, and each slot is free or in one of them.
Layout(P, L) ==
  /\ \A s \in Sides, k \in PriceSlots : Level(P.slots, L[s][k], Orders(P, L, s, k), s, k)
  /\ Lists(P.slots, P.free_head, FreeList(P))
  /\ \A idx \in OrderIndices : NotIn(FreeList(P), idx) <=> Resting(P, L, idx)

\* An order is at the level its side and price name, and at no other.
LEMMA LevelsApart ==
  ASSUME NEW P, NEW L, Layout(P, L), NEW s \in Sides, NEW k \in PriceSlots,
         NEW idx, ~NotIn(Orders(P, L, s, k), idx)
  PROVE  /\ idx \in OrderIndices
         /\ Holds(P.slots[idx], s, k)
         /\ P.slots[idx].side = s /\ price_to_index(P.slots[idx].price) = k
         /\ NotIn(FreeList(P), idx)
         /\ \A s2 \in Sides, k2 \in PriceSlots : s2 # s \/ k2 # k => NotIn(Orders(P, L, s2, k2), idx)
<1>1. ASSUME NEW a \in Sides, NEW b \in PriceSlots, ~NotIn(Orders(P, L, a, b), idx)
      PROVE  idx \in OrderIndices /\ Holds(P.slots[idx], a, b)
  <2>1. PICK q : q = Orders(P, L, a, b)
    OBVIOUS
  <2>2. Level(P.slots, L[a][b], q, a, b)
    BY <2>1 DEF Layout
  <2>3. PICK i \in 1 .. Len(q) : q[i] = idx
    BY <1>1, <2>1 DEF NotIn
  <2>4. q[i] \in OrderIndices
    BY <2>2, LevelEnds
  <2>5. Holds(P.slots[q[i]], a, b)
    BY <2>2 DEF Level
  <2> QED
    BY <2>3, <2>4, <2>5
<1>2. \A a \in Sides, b \in PriceSlots :
        Holds(P.slots[idx], a, b) => P.slots[idx].side = a /\ price_to_index(P.slots[idx].price) = b
  BY LadderArithmetic DEF Holds
<1>3. NotIn(FreeList(P), idx)
  BY <1>1 DEF Layout, Resting
<1> QED
  BY <1>1, <1>2, <1>3

\* One level's list changes by the slot idx at most, and the free list by the
\* same slot the other way.
Moved(P, L, s, k, t, F2, idx) ==
  /\ \A j \in OrderIndices : j # idx => /\ NotIn(t, j) <=> NotIn(Orders(P, L, s, k), j)
                                        /\ NotIn(F2, j) <=> NotIn(FreeList(P), j)
  /\ NotIn(F2, idx) <=> ~NotIn(t, idx)
  /\ \A s2 \in Sides, k2 \in PriceSlots : s2 # s \/ k2 # k => NotIn(Orders(P, L, s2, k2), idx)

\* The other levels are as they were, and so are the slots of their orders.
OthersKept(P, L, P2, L2, s, k) ==
  \A s2 \in Sides, k2 \in PriceSlots : s2 # s \/ k2 # k =>
    /\ L2[s2][k2] = L[s2][k2]
    /\ \A i \in 1 .. Len(Orders(P, L, s2, k2)) :
         P2.slots[Orders(P, L, s2, k2)[i]] = P.slots[Orders(P, L, s2, k2)[i]]

\* The store after the step: level (s, k) holds t, F2 is free, the rest is as it was.
Becomes(P, L, P2, L2, s, k, t, F2) ==
  /\ Layout(P2, L2) /\ FreeList(P2) = F2 /\ Orders(P2, L2, s, k) = t
  /\ \A s2 \in Sides, k2 \in PriceSlots : s2 # s \/ k2 # k =>
       Orders(P2, L2, s2, k2) = Orders(P, L, s2, k2)

\* A step that sees to the one level and the free list, and leaves the slots of
\* the other levels alone, keeps the layout.
LEMMA LayoutStep ==
  ASSUME NEW P, NEW L, Layout(P, L), NEW P2, NEW L2, NEW s \in Sides, NEW k \in PriceSlots,
         NEW t, NEW F2, NEW idx \in OrderIndices, Moved(P, L, s, k, t, F2, idx),
         Level(P2.slots, L2[s][k], t, s, k), Lists(P2.slots, P2.free_head, F2),
         OthersKept(P, L, P2, L2, s, k)
  PROVE  Becomes(P, L, P2, L2, s, k, t, F2)
<1>1. FreeList(P2) = F2
  BY ChainIs DEF FreeList
<1>2. Orders(P2, L2, s, k) = t
  BY ChainIs DEF Level, Orders
<1>3. ASSUME NEW s2 \in Sides, NEW k2 \in PriceSlots, s2 # s \/ k2 # k
      PROVE  /\ Level(P2.slots, L2[s2][k2], Orders(P, L, s2, k2), s2, k2)
             /\ Orders(P2, L2, s2, k2) = Orders(P, L, s2, k2)
  <2>1. PICK q : q = Orders(P, L, s2, k2)
    OBVIOUS
  <2>2. Level(P.slots, L[s2][k2], q, s2, k2)
    BY <2>1 DEF Layout
  <2>3. L2[s2][k2] = L[s2][k2] /\ \A i \in 1 .. Len(q) : P2.slots[q[i]] = P.slots[q[i]]
    BY <1>3, <2>1 DEF OthersKept
  <2>4. Level(P2.slots, L2[s2][k2], q, s2, k2)
    BY <2>2, <2>3, LevelKept
  <2>5. Orders(P2, L2, s2, k2) = q
    BY <2>4, ChainIs DEF Level, Orders
  <2> QED
    BY <2>1, <2>4, <2>5
<1>4. ASSUME NEW s2 \in Sides, NEW k2 \in PriceSlots
      PROVE  Level(P2.slots, L2[s2][k2], Orders(P2, L2, s2, k2), s2, k2)
  BY <1>2, <1>3
<1>5. ASSUME NEW j \in OrderIndices
      PROVE  NotIn(FreeList(P2), j) <=> Resting(P2, L2, j)
  <2>1. CASE j = idx
    <3>1. ~NotIn(t, idx) <=> Resting(P2, L2, idx)
      BY <1>2, <1>3 DEF Resting, Moved
    <3> QED
      BY <1>1, <2>1, <3>1 DEF Moved
  <2>2. CASE j # idx
    <3>1. \A s2 \in Sides, k2 \in PriceSlots :
            NotIn(Orders(P2, L2, s2, k2), j) <=> NotIn(Orders(P, L, s2, k2), j)
      BY <1>2, <1>3, <2>2 DEF Moved
    <3>2. Resting(P2, L2, j) <=> Resting(P, L, j)
      BY <3>1 DEF Resting
    <3>3. NotIn(F2, j) <=> NotIn(FreeList(P), j)
      BY <2>2 DEF Moved
    <3> QED
      BY <1>1, <3>2, <3>3 DEF Layout
  <2> QED
    BY <2>1, <2>2
<1>6. Lists(P2.slots, P2.free_head, FreeList(P2))
  BY <1>1
<1>7. Layout(P2, L2)
  BY <1>4, <1>5, <1>6 DEF Layout
<1> QED
  BY <1>1, <1>2, <1>3, <1>7 DEF Becomes

Pools   == [slots : SlotArrays, free_head : MaybeIndex]
Ladders == [Sides -> [PriceSlots -> LevelRecords]]

\* The links of an order lead to other orders of its level, or nowhere.
LEMMA Neighbours ==
  ASSUME NEW slots, NEW l, NEW q, NEW s, NEW k, Level(slots, l, q, s, k), NEW m \in 1 .. Len(q)
  PROVE  /\ slots[q[m]].prev # q[m] /\ slots[q[m]].next # q[m]
         /\ slots[q[m]].prev = Nil \/ ~NotIn(q, slots[q[m]].prev)
         /\ slots[q[m]].next = Nil \/ ~NotIn(q, slots[q[m]].next)
<1>1. /\ SlotList(q) /\ slots[q[m]].next = NextIn(q, m) /\ slots[q[m]].prev = PrevIn(q, m)
  BY DEF Level, Lists, ListsBack
<1>2. PICK n : n = Len(q)
  OBVIOUS
<1>3. /\ n \in Nat /\ m \in 1 .. n /\ \A i \in 1 .. n : q[i] # Nil
      /\ \A i, j \in 1 .. n : q[i] = q[j] => i = j
  BY <1>1, <1>2, LevelEnds DEF SlotList
<1>4. m = 1 \/ m - 1 \in 1 .. n
  BY <1>3
<1>5. m = n \/ m + 1 \in 1 .. n
  BY <1>3
<1>6. slots[q[m]].prev # q[m] /\ (slots[q[m]].prev = Nil \/ \E i \in 1 .. n : q[i] = slots[q[m]].prev)
  BY <1>1, <1>3, <1>4 DEF PrevIn
<1>7. slots[q[m]].next # q[m] /\ (slots[q[m]].next = Nil \/ \E i \in 1 .. n : q[i] = slots[q[m]].next)
  BY <1>1, <1>2, <1>3, <1>5 DEF NextIn
<1> QED
  BY <1>2, <1>6, <1>7 DEF NotIn

\* The fields of a level have their types.
LEMMA LevelTyped ==
  ASSUME NEW slots, NEW l, NEW q, NEW s, NEW k, Level(slots, l, q, s, k)
  PROVE  l.head \in MaybeIndex /\ l.tail \in MaybeIndex /\ l.total_qty \in Nat
<1>1. l.head \in MaybeIndex /\ l.tail \in MaybeIndex
  BY LevelEnds DEF MaybeIndex
<1>2. Len(q) \in Nat /\ SumsTo(Left(slots, q), Len(q), l.total_qty)
  BY LevelEnds DEF Level
<1>3. l.total_qty \in Nat
  BY <1>2 DEF SumsTo, RunningSum
<1> QED
  BY <1>1, <1>3

\* What the store is after the order in slot idx, at place m of its level, is
\* unlinked and its slot deallocated.
Released(P, L, P2, L2, s, k, m, idx) ==
  /\ Layout(P2, L2) /\ P2 \in Pools /\ L2 \in Ladders
  /\ \A j \in OrderIndices : SameOrder(P2.slots[j], P.slots[j])
  /\ \A j \in OrderIndices : NotIn(FreeList(P2), j) <=> j # idx /\ NotIn(FreeList(P), j)
  /\ Orders(P2, L2, s, k) = RemoveAt(Orders(P, L, s, k), m)
  /\ \A s2 \in Sides, k2 \in PriceSlots : s2 # s \/ k2 # k =>
       L2[s2][k2] = L[s2][k2] /\ Orders(P2, L2, s2, k2) = Orders(P, L, s2, k2)

LEMMA LayoutRelease ==
  ASSUME NEW P \in Pools, NEW L \in Ladders, Layout(P, L), NEW s \in Sides, NEW k \in PriceSlots,
         NEW m \in 1 .. Len(Orders(P, L, s, k)), NEW idx, idx = Orders(P, L, s, k)[m],
         NEW r, r = unlink(L[s][k], idx, P), NEW P2, P2 = deallocate(r.pool, idx),
         NEW L2, L2 = [L EXCEPT ![s][k] = r.level]
  PROVE  Released(P, L, P2, L2, s, k, m, idx)
<1>1. PICK q, F, t, F2 : /\ q = Orders(P, L, s, k) /\ F = FreeList(P)
                         /\ t = RemoveAt(q, m) /\ F2 = PushFront(F, idx)
  OBVIOUS
<1>2. /\ Level(P.slots, L[s][k], q, s, k) /\ Lists(P.slots, P.free_head, F)
      /\ P.slots \in SlotArrays /\ P.free_head \in MaybeIndex
  BY <1>1 DEF Layout, Pools
<1>3. SlotList(q) /\ SlotList(F) /\ m \in 1 .. Len(q) /\ idx = q[m]
  BY <1>1, <1>2 DEF Level, Lists
<1>4. idx \in OrderIndices /\ ~NotIn(q, idx)
  BY <1>2, <1>3, LevelEnds DEF NotIn
<1>5. NotIn(F, idx)
  BY <1>1, <1>4, LevelsApart
<1>6. Removed(q, m, t)
  BY <1>1, <1>3, RemoveList
<1>7. Prepended(F, idx, F2)
  BY <1>1, <1>3, <1>4, <1>5, PushFrontList
<1>8. P.slots[idx].prev # idx /\ P.slots[idx].next # idx
  BY <1>2, <1>3, Neighbours
<1>9. PICK u : u = r.pool.slots
  OBVIOUS
<1>10. /\ Unlinked(P.slots, u, L[s][k], r.level, idx) /\ SameOrder(u[idx], P.slots[idx])
       /\ u \in SlotArrays /\ r.pool.free_head = P.free_head
  BY <1>2, <1>4, <1>8, <1>9, UnlinkEffect
<1>11. /\ P2.slots \in SlotArrays /\ P2.free_head = idx /\ P2 \in Pools
       /\ Relinked(u, P2.slots, idx, Nil, P.free_head)
  BY <1>2, <1>4, <1>9, <1>10, DeallocateEffect DEF Pools
<1>12. ASSUME NEW j \in OrderIndices
       PROVE  /\ SameOrder(P2.slots[j], P.slots[j])
              /\ NotIn(q, j) => P2.slots[j] = P.slots[j]
  <2>1. SameOrder(P2.slots[j], P.slots[j])
    <3>1. SameOrder(u[j], P.slots[j])
      BY <1>10 DEF Unlinked
    <3>2. SameOrder(P2.slots[j], u[j])
      BY <1>11 DEF Relinked, SameOrder
    <3> QED
      BY <3>1, <3>2 DEF SameOrder
  <2>2. ASSUME NotIn(q, j)
        PROVE  P2.slots[j] = P.slots[j]
    <3>1. j # idx
      BY <1>4, <2>2
    <3>2. /\ P.slots[idx].prev = Nil \/ ~NotIn(q, P.slots[idx].prev)
          /\ P.slots[idx].next = Nil \/ ~NotIn(q, P.slots[idx].next)
      BY <1>2, <1>3, Neighbours
    <3>3. j # P.slots[idx].prev /\ j # P.slots[idx].next
      BY <2>2, <3>2, NilAssumption
    <3>4. u[j] = P.slots[j]
      BY <1>10, <3>1, <3>3 DEF Unlinked
    <3> QED
      BY <1>11, <3>1, <3>4 DEF Relinked
  <2> QED
    BY <2>1, <2>2
<1>13. L2[s][k] = r.level /\ \A s2 \in Sides, k2 \in PriceSlots :
         s2 # s \/ k2 # k => L2[s2][k2] = L[s2][k2]
  BY DEF Ladders
<1>14. Level(P2.slots, L2[s][k], t, s, k)
  <2>1. Level(u, r.level, t, s, k)
    BY <1>2, <1>3, <1>6, <1>10, LevelUnlink
  <2>2. \A i \in 1 .. Len(t) : t[i] \in OrderIndices /\ t[i] # idx
    BY <1>3, <1>6, <2>1, LevelEnds DEF Removed, NotIn
  <2>3. \A i \in 1 .. Len(t) : P2.slots[t[i]] = u[t[i]]
    BY <1>11, <2>2 DEF Relinked
  <2>4. Level(P2.slots, r.level, t, s, k)
    BY <2>1, <2>3, LevelKept
  <2> QED
    BY <1>13, <2>4
<1>15. Lists(P2.slots, P2.free_head, F2)
  <2>1. PICK n : n = Len(F)
    OBVIOUS
  <2>2. /\ n \in Nat /\ SlotList(F2) /\ Len(F2) = n + 1 /\ F2[1] = idx
        /\ \A i \in 1 .. n : F2[i + 1] = F[i]
    BY <1>3, <1>7, <2>1 DEF Prepended, SlotList
  <2>3. P2.free_head = FirstOf(F2)
    <3>1. Len(F2) # 0
      BY <2>2
    <3> QED
      BY <1>11, <2>2, <3>1 DEF FirstOf
  <2>4. P2.slots[idx].next = P.free_head
    BY <1>11 DEF Relinked
  <2>5. P.free_head = FirstOf(F) /\ \A i \in 1 .. n : P.slots[F[i]].next = NextIn(F, i)
    BY <1>2, <2>1 DEF Lists
  <2>6. ASSUME NEW i \in 1 .. n
        PROVE  F[i] \in OrderIndices /\ P2.slots[F[i]] = P.slots[F[i]]
    <3>1. F[i] \in OrderIndices
      BY <1>3, <2>1, ElementOfSeq DEF SlotList
    <3>2. ~NotIn(F, F[i])
      BY <2>1 DEF NotIn
    <3>3. NotIn(q, F[i])
      BY <1>1, <3>2, LevelsApart
    <3> QED
      BY <1>12, <3>1, <3>3
  <2>7. ASSUME NEW i \in 1 .. n + 1
        PROVE  P2.slots[F2[i]].next = NextIn(F2, i)
    <3>1. CASE i = 1 /\ n = 0
      BY <2>1, <2>2, <2>4, <2>5, <3>1 DEF FirstOf, NextIn
    <3>2. CASE i = 1 /\ n # 0
      <4>1. 1 \in 1 .. n /\ 1 # n + 1
        BY <2>2, <3>2
      <4>2. F2[1 + 1] = F[1]
        BY <2>2, <4>1
      <4> QED
        BY <2>1, <2>2, <2>4, <2>5, <3>2, <4>1, <4>2 DEF FirstOf, NextIn
    <3>3. CASE i # 1
      <4>1. PICK j : j = i - 1
        OBVIOUS
      <4>2. j \in 1 .. n /\ j + 1 = i /\ (j = n <=> i = n + 1) /\ (j # n => j + 1 \in 1 .. n)
        BY <2>2, <3>3, <4>1
      <4>3. F2[i] = F[j] /\ P2.slots[F[j]].next = NextIn(F, j)
        BY <2>2, <2>5, <2>6, <4>2
      <4>4. NextIn(F, j) = NextIn(F2, i)
        BY <2>1, <2>2, <4>2 DEF NextIn
      <4> QED
        BY <4>3, <4>4
    <3> QED
      BY <3>1, <3>2, <3>3
  <2> QED
    BY <2>2, <2>3, <2>7 DEF Lists
<1>16. Moved(P, L, s, k, t, F2, idx)
  <2>1. ASSUME NEW j \in OrderIndices, j # idx
        PROVE  NotIn(t, j) <=> NotIn(q, j)
    <3>1. ASSUME ~NotIn(t, j)
          PROVE  ~NotIn(q, j)
      <4>1. PICK i \in 1 .. Len(t) : t[i] = j
        BY <3>1 DEF NotIn
      <4>2. Len(q) \in Nat /\ Len(t) = Len(q) - 1 /\ t[i] = q[IF i < m THEN i ELSE i + 1]
        BY <1>3, <1>6 DEF Removed, SlotList
      <4>3. \E a \in 1 .. Len(q) : a = IF i < m THEN i ELSE i + 1
        BY <4>2
      <4> QED
        BY <4>1, <4>2, <4>3 DEF NotIn
    <3>2. ASSUME ~NotIn(q, j)
          PROVE  ~NotIn(t, j)
      <4>1. PICK i \in 1 .. Len(q) : q[i] = j
        BY <3>2 DEF NotIn
      <4> QED
        BY <1>3, <1>6, <2>1, <4>1 DEF Removed, NotIn
    <3> QED
      BY <3>1, <3>2
  <2>2. ASSUME NEW j \in OrderIndices, j # idx
        PROVE  NotIn(F2, j) <=> NotIn(F, j)
    <3>1. PICK n : n = Len(F)
      OBVIOUS
    <3>2. /\ n \in Nat /\ Len(F2) = n + 1 /\ F2[1] = idx
          /\ \A i \in 1 .. n : F2[i + 1] = F[i]
      BY <1>3, <1>7, <3>1 DEF Prepended, SlotList
    <3>3. \A i \in 1 .. n + 1 : i = 1 \/ \E a \in 1 .. n : i = a + 1
      <4>1. \A i \in 1 .. n + 1 : i = 1 \/ (i - 1 \in 1 .. n /\ i = i - 1 + 1)
        BY <3>2
      <4> QED
        BY <4>1
    <3>4. \A i \in 1 .. n : i + 1 \in 1 .. n + 1
      BY <3>2
    <3> QED
      BY <2>2, <3>1, <3>2, <3>3, <3>4 DEF NotIn
  <2>3. NotIn(t, idx) /\ ~NotIn(F2, idx)
    <3>1. 1 \in 1 .. Len(F2) /\ F2[1] = idx
      <4>1. Len(F) \in Nat /\ Len(F2) = Len(F) + 1 /\ F2[1] = idx
        BY <1>3, <1>7 DEF Prepended, SlotList
      <4> QED
        BY <4>1
    <3> QED
      BY <1>3, <1>6, <3>1 DEF Removed, NotIn
  <2>4. \A s2 \in Sides, k2 \in PriceSlots : s2 # s \/ k2 # k => NotIn(Orders(P, L, s2, k2), idx)
    BY <1>1, <1>4, LevelsApart
  <2> QED
    BY <1>1, <2>1, <2>2, <2>3, <2>4 DEF Moved
<1>17. OthersKept(P, L, P2, L2, s, k)
  <2> SUFFICES ASSUME NEW s2 \in Sides, NEW k2 \in PriceSlots, s2 # s \/ k2 # k
               PROVE  /\ L2[s2][k2] = L[s2][k2]
                      /\ \A i \in 1 .. Len(Orders(P, L, s2, k2)) :
                           P2.slots[Orders(P, L, s2, k2)[i]] = P.slots[Orders(P, L, s2, k2)[i]]
    BY DEF OthersKept
  <2>1. PICK p : p = Orders(P, L, s2, k2)
    OBVIOUS
  <2>2. ASSUME NEW i \in 1 .. Len(p)
        PROVE  P2.slots[p[i]] = P.slots[p[i]]
    <3>1. ~NotIn(p, p[i])
      BY DEF NotIn
    <3>2. p[i] \in OrderIndices /\ NotIn(q, p[i])
      BY <1>1, <2>1, <3>1, LevelsApart
    <3> QED
      BY <1>12, <3>2
  <2> QED
    BY <1>13, <2>1, <2>2
<1>18. Becomes(P, L, P2, L2, s, k, t, F2)
  BY <1>4, <1>14, <1>15, <1>16, <1>17, LayoutStep
<1>19. L2 \in Ladders
  <2>1. r.level.head \in MaybeIndex /\ r.level.tail \in MaybeIndex /\ r.level.total_qty \in Nat
    BY <1>13, <1>14, LevelTyped
  <2>2. r.level = [head |-> r.level.head, tail |-> r.level.tail, total_qty |-> r.level.total_qty]
    BY DEF unlink
  <2>3. r.level \in LevelRecords
    BY <2>1, <2>2 DEF LevelRecords
  <2> QED
    BY <2>3 DEF Ladders
<1>20. \A j \in OrderIndices : NotIn(FreeList(P2), j) <=> j # idx /\ NotIn(FreeList(P), j)
  <2>1. ~NotIn(F2, idx)
    <3>1. NotIn(t, idx)
      BY <1>3, <1>6 DEF Removed
    <3> QED
      BY <1>16, <3>1 DEF Moved
  <2> QED
    BY <1>16, <1>18, <2>1 DEF Moved, Becomes
<1> QED
  BY <1>1, <1>11, <1>12, <1>13, <1>18, <1>19, <1>20 DEF Released, Becomes

\* What the store is after the order o took the free slot idx and was pushed.
Taken(P, L, P2, L2, s, k, o, idx) ==
  /\ Layout(P2, L2) /\ P2 \in Pools /\ L2 \in Ladders
  /\ idx \in OrderIndices /\ ~NotIn(FreeList(P), idx) /\ SameOrder(P2.slots[idx], o)
  /\ \A j \in OrderIndices : j # idx => SameOrder(P2.slots[j], P.slots[j])
  /\ \A j \in OrderIndices : NotIn(FreeList(P2), j) <=> j = idx \/ NotIn(FreeList(P), j)
  /\ Orders(P2, L2, s, k) = Append(Orders(P, L, s, k), idx)
  /\ L2[s][k].head # Nil
  /\ \A s2 \in Sides, k2 \in PriceSlots : s2 # s \/ k2 # k =>
       L2[s2][k2] = L[s2][k2] /\ Orders(P2, L2, s2, k2) = Orders(P, L, s2, k2)

LEMMA LayoutTake ==
  ASSUME NEW P \in Pools, NEW L \in Ladders, Layout(P, L), NEW s \in Sides, NEW k \in PriceSlots,
         ~is_full(P), NEW o \in SlotRecords, Holds(o, s, k),
         NEW r, r = push_back(L[s][k], allocated(P), allocate(P, o)),
         NEW L2, L2 = [L EXCEPT ![s][k] = r.level]
  PROVE  Taken(P, L, r.pool, L2, s, k, o, allocated(P))
<1>1. PICK q, F, t, F2, idx, P1, P2 :
        /\ q = Orders(P, L, s, k) /\ F = FreeList(P) /\ idx = P.free_head
        /\ t = Append(q, idx) /\ F2 = RemoveAt(F, 1) /\ P1 = allocate(P, o) /\ P2 = r.pool
  OBVIOUS
<1>2. /\ Level(P.slots, L[s][k], q, s, k) /\ Lists(P.slots, P.free_head, F)
      /\ P.slots \in SlotArrays /\ P.free_head \in MaybeIndex /\ L[s][k] \in LevelRecords
  BY <1>1 DEF Layout, Pools, Ladders
<1>3. idx \in OrderIndices /\ idx # Nil
  BY <1>1, <1>2 DEF is_full, MaybeIndex
<1>4. SlotList(q) /\ SlotList(F)
  BY <1>2 DEF Level, Lists
<1>5. PICK n : n = Len(F)
  OBVIOUS
<1>6. /\ n \in Nat /\ n # 0 /\ 1 \in 1 .. n /\ F[1] = idx /\ ~NotIn(F, idx)
  <2>1. n \in Nat /\ P.free_head = FirstOf(F)
    BY <1>2, <1>4, <1>5 DEF SlotList, Lists
  <2>2. n # 0
    BY <1>1, <1>3, <1>5, <2>1 DEF FirstOf
  <2>3. 1 \in 1 .. n /\ F[1] = idx
    BY <1>1, <1>5, <2>1, <2>2 DEF FirstOf
  <2> QED
    BY <1>5, <2>1, <2>2, <2>3 DEF NotIn
<1>7. \A s2 \in Sides, k2 \in PriceSlots : NotIn(Orders(P, L, s2, k2), idx)
  BY <1>1, <1>6, LevelsApart
<1>8. NotIn(q, idx)
  BY <1>1, <1>7
<1>9. Appended(q, idx, t)
  BY <1>1, <1>3, <1>4, <1>8, AppendList
<1>10. Removed(F, 1, F2)
  <2>1. 1 \in 1 .. Len(F)
    BY <1>5, <1>6
  <2> QED
    BY <1>1, <1>4, <2>1, RemoveList
<1>11. /\ P1.slots \in SlotArrays /\ P1.slots[idx] = o /\ P1.free_head = P.slots[idx].next
       /\ \A j \in OrderIndices : j # idx => P1.slots[j] = P.slots[j]
  <2>1. P1.slots = [P.slots EXCEPT ![idx] = o] /\ P1.free_head = P.slots[idx].next
    BY <1>1 DEF allocate
  <2> QED
    BY <1>2, <1>3, <2>1 DEF SlotArrays
<1>12. Level(P1.slots, L[s][k], q, s, k)
  <2>1. \A i \in 1 .. Len(q) : q[i] \in OrderIndices /\ q[i] # idx
    BY <1>2, <1>8, LevelEnds DEF NotIn
  <2>2. \A i \in 1 .. Len(q) : P1.slots[q[i]] = P.slots[q[i]]
    BY <1>11, <2>1
  <2> QED
    BY <1>2, <2>2, LevelKept
<1>13. /\ L[s][k].head = Nil <=> L[s][k].tail = Nil
       /\ L[s][k].tail = Nil \/ ~NotIn(q, L[s][k].tail)
       /\ L[s][k].tail # idx
  <2>1. L[s][k].head = Nil <=> L[s][k].tail = Nil
    BY <1>2, LevelEnds
  <2>2. L[s][k].tail = Nil \/ \E i \in 1 .. Len(q) : q[i] = L[s][k].tail
    BY <1>2, LevelEnds
  <2> QED
    BY <1>3, <1>8, <2>1, <2>2 DEF NotIn
<1>14. r = push_back(L[s][k], idx, P1)
  BY <1>1 DEF allocated
<1>15. /\ Pushed(P1.slots, P2.slots, L[s][k], r.level, idx)
       /\ SameOrder(P2.slots[idx], o)
       /\ P2.slots \in SlotArrays /\ P2.free_head = P.slots[idx].next
  BY <1>1, <1>2, <1>3, <1>11, <1>13, <1>14, PushEffect
<1>16. ASSUME NEW j \in OrderIndices, j # idx
       PROVE  /\ SameOrder(P2.slots[j], P.slots[j])
              /\ NotIn(q, j) => P2.slots[j] = P.slots[j]
  <2>1. P1.slots[j] = P.slots[j]
    BY <1>11, <1>16
  <2>2. CASE j = L[s][k].tail
    <3>1. ~NotIn(q, j) /\ L[s][k].head # Nil
      BY <1>13, <2>2, NilAssumption
    <3> QED
      BY <1>15, <2>1, <2>2, <3>1 DEF Pushed
  <2>3. CASE j # L[s][k].tail
    BY <1>15, <1>16, <2>1, <2>3 DEF Pushed, SameOrder
  <2> QED
    BY <2>2, <2>3
<1>17. L2[s][k] = r.level /\ \A s2 \in Sides, k2 \in PriceSlots :
         s2 # s \/ k2 # k => L2[s2][k2] = L[s2][k2]
  BY DEF Ladders
<1>18. Level(P2.slots, L2[s][k], t, s, k)
  <2>1. Holds(P2.slots[idx], s, k)
    BY <1>15 DEF Holds, SameOrder
  <2> QED
    BY <1>3, <1>8, <1>9, <1>12, <1>15, <1>17, <2>1, LevelPush
<1>19. Lists(P2.slots, P2.free_head, F2)
  <2>1. /\ SlotList(F2) /\ Len(F2) = n - 1 /\ NotIn(F2, idx)
        /\ \A i \in 1 .. n - 1 : F2[i] = F[IF i < 1 THEN i ELSE i + 1]
    BY <1>5, <1>6, <1>10 DEF Removed
  <2>2. \A i \in 1 .. n - 1 : i + 1 \in 1 .. n /\ F2[i] = F[i + 1]
    BY <1>6, <2>1
  <2>3. \A i \in 1 .. n : P.slots[F[i]].next = NextIn(F, i)
    BY <1>2, <1>5 DEF Lists
  <2>4. P2.free_head = FirstOf(F2)
    <3>1. P2.free_head = IF n = 1 THEN Nil ELSE F[2]
      <4>1. 1 + 1 = 2
        OBVIOUS
      <4> QED
        BY <1>5, <1>6, <1>15, <2>3, <4>1 DEF NextIn
    <3>2. n = 1 \/ 1 \in 1 .. n - 1
      BY <1>6
    <3>3. CASE n = 1
      BY <2>1, <3>1, <3>3 DEF FirstOf
    <3>4. CASE n # 1
      <4>1. F2[1] = F[2] /\ n - 1 # 0
        BY <1>6, <2>2, <3>2, <3>4
      <4> QED
        BY <2>1, <3>1, <3>4, <4>1 DEF FirstOf
    <3> QED
      BY <3>3, <3>4
  <2>5. ASSUME NEW i \in 1 .. n - 1
        PROVE  P2.slots[F2[i]].next = NextIn(F2, i)
    <3>1. PICK a : a = i + 1
      OBVIOUS
    <3>2. a \in 1 .. n /\ F2[i] = F[a] /\ (a = n <=> i = n - 1) /\ (a # n => i + 1 \in 1 .. n - 1)
      BY <1>6, <2>2, <3>1
    <3>3. F[a] \in OrderIndices
      BY <1>4, <1>5, <3>2, ElementOfSeq DEF SlotList
    <3>4. ~NotIn(F, F[a]) /\ F[a] # idx
      BY <1>5, <2>1, <3>2 DEF NotIn
    <3>5. NotIn(q, F[a])
      BY <1>1, <3>4, LevelsApart
    <3>6. P2.slots[F[a]] = P.slots[F[a]]
      BY <1>16, <3>3, <3>4, <3>5
    <3>7. P.slots[F[a]].next = NextIn(F, a)
      BY <2>3, <3>2
    <3>8. NextIn(F, a) = NextIn(F2, i)
      BY <1>5, <1>6, <2>1, <2>2, <3>1, <3>2 DEF NextIn
    <3> QED
      BY <3>2, <3>6, <3>7, <3>8
  <2> QED
    BY <2>1, <2>4, <2>5 DEF Lists
<1>20. Moved(P, L, s, k, t, F2, idx)
  <2>1. /\ Len(q) \in Nat /\ Len(t) = Len(q) + 1 /\ t[Len(q) + 1] = idx
        /\ \A i \in 1 .. Len(q) : t[i] = q[i]
    BY <1>4, <1>9 DEF Appended, SlotList
  <2>2. ASSUME NEW j \in OrderIndices, j # idx
        PROVE  NotIn(t, j) <=> NotIn(q, j)
    <3>1. PICK m : m = Len(q)
      OBVIOUS
    <3>2. \A i \in 1 .. m + 1 : i \in 1 .. m \/ i = m + 1
      BY <2>1, <3>1
    <3>3. \A i \in 1 .. m : i \in 1 .. m + 1
      BY <2>1, <3>1
    <3> QED
      BY <2>1, <2>2, <3>1, <3>2, <3>3 DEF NotIn
  <2>3. ASSUME NEW j \in OrderIndices, j # idx
        PROVE  NotIn(F2, j) <=> NotIn(F, j)
    <3>1. /\ Len(F2) = n - 1 /\ \A i \in 1 .. n - 1 : F2[i] = F[IF i < 1 THEN i ELSE i + 1]
          /\ \A a \in 1 .. n : a # 1 => \E i \in 1 .. n - 1 : F2[i] = F[a]
      BY <1>5, <1>10 DEF Removed
    <3>2. \A i \in 1 .. n - 1 : i + 1 \in 1 .. n /\ F2[i] = F[i + 1]
      BY <1>6, <3>1
    <3> QED
      BY <1>5, <1>6, <2>3, <3>1, <3>2 DEF NotIn
  <2>4. ~NotIn(t, idx) /\ NotIn(F2, idx)
    <3>1. Len(q) + 1 \in 1 .. Len(t)
      BY <2>1
    <3> QED
      BY <1>6, <1>10, <2>1, <3>1 DEF Removed, NotIn
  <2> QED
    BY <1>1, <1>7, <2>2, <2>3, <2>4 DEF Moved
<1>21. OthersKept(P, L, P2, L2, s, k)
  <2> SUFFICES ASSUME NEW s2 \in Sides, NEW k2 \in PriceSlots, s2 # s \/ k2 # k
               PROVE  /\ L2[s2][k2] = L[s2][k2]
                      /\ \A i \in 1 .. Len(Orders(P, L, s2, k2)) :
                           P2.slots[Orders(P, L, s2, k2)[i]] = P.slots[Orders(P, L, s2, k2)[i]]
    BY DEF OthersKept
  <2>1. PICK p : p = Orders(P, L, s2, k2)
    OBVIOUS
  <2>2. ASSUME NEW i \in 1 .. Len(p)
        PROVE  P2.slots[p[i]] = P.slots[p[i]]
    <3>1. ~NotIn(p, p[i]) /\ p[i] # idx
      BY <1>7, <2>1 DEF NotIn
    <3>2. p[i] \in OrderIndices /\ NotIn(q, p[i])
      BY <1>1, <2>1, <3>1, LevelsApart
    <3> QED
      BY <1>16, <3>1, <3>2
  <2> QED
    BY <1>17, <2>1, <2>2
<1>22. Becomes(P, L, P2, L2, s, k, t, F2)
  BY <1>3, <1>18, <1>19, <1>20, <1>21, LayoutStep
<1>23. L2 \in Ladders
  <2>1. r.level.head \in MaybeIndex /\ r.level.tail \in MaybeIndex /\ r.level.total_qty \in Nat
    BY <1>17, <1>18, LevelTyped
  <2>2. r.level = [head |-> r.level.head, tail |-> r.level.tail, total_qty |-> r.level.total_qty]
    BY DEF push_back
  <2>3. r.level \in LevelRecords
    BY <2>1, <2>2 DEF LevelRecords
  <2> QED
    BY <2>3 DEF Ladders
<1>24. P2 \in Pools
  <2>1. P2 = [slots |-> P2.slots, free_head |-> P2.free_head]
    BY <1>1 DEF push_back
  <2>2. P2.free_head \in MaybeIndex
    BY <1>2, <1>3, <1>15, SlotFields
  <2> QED
    BY <1>15, <2>1, <2>2 DEF Pools
<1>25. \A j \in OrderIndices : NotIn(FreeList(P2), j) <=> j = idx \/ NotIn(FreeList(P), j)
  <2>1. NotIn(F2, idx)
    BY <1>6, <1>10 DEF Removed
  <2> QED
    BY <1>20, <1>22, <2>1 DEF Moved, Becomes
<1>26. L2[s][k].head # Nil
  BY <1>3, <1>15, <1>17 DEF Pushed
<1>27. Taken(P, L, P2, L2, s, k, o, idx)
  BY <1>1, <1>3, <1>6, <1>15, <1>16, <1>17, <1>22, <1>23, <1>24, <1>25, <1>26 DEF Taken, Becomes
<1> QED
  BY <1>1, <1>27 DEF allocated

\* What the store is after n of the front order of the level are filled.
Shrunk(P, L, P2, L2, s, k, idx, n) ==
  /\ Layout(P2, L2) /\ P2 \in Pools /\ L2 \in Ladders
  /\ FreeList(P2) = FreeList(P)
  /\ \A s2 \in Sides, k2 \in PriceSlots : /\ Orders(P2, L2, s2, k2) = Orders(P, L, s2, k2)
                                          /\ L2[s2][k2].head = L[s2][k2].head
  /\ \A j \in OrderIndices : P2.slots[j].id = P.slots[j].id
  /\ P2.slots[idx].qty = P.slots[idx].qty - n
  /\ \A j \in OrderIndices : j # idx => P2.slots[j] = P.slots[j]

LEMMA LayoutReduce ==
  ASSUME NEW P \in Pools, NEW L \in Ladders, Layout(P, L), NEW s \in Sides, NEW k \in PriceSlots,
         Len(Orders(P, L, s, k)) # 0, NEW idx, idx = L[s][k].head,
         NEW n \in Nat, n < P.slots[idx].qty,
         NEW P2, P2 = [P EXCEPT !.slots[idx].qty = @ - n],
         NEW L2, L2 = [L EXCEPT ![s][k].total_qty = @ - n]
  PROVE  Shrunk(P, L, P2, L2, s, k, idx, n)
<1>1. PICK q, F, l, l2 : /\ q = Orders(P, L, s, k) /\ F = FreeList(P) /\ l = L[s][k]
                         /\ l2 = [l EXCEPT !.total_qty = @ - n]
  OBVIOUS
<1>2. /\ Level(P.slots, l, q, s, k) /\ Lists(P.slots, P.free_head, F)
      /\ P.slots \in SlotArrays /\ P.free_head \in MaybeIndex /\ l \in LevelRecords
  BY <1>1 DEF Layout, Pools, Ladders
<1>3. idx = q[1] /\ 1 \in 1 .. Len(q) /\ idx \in OrderIndices /\ ~NotIn(q, idx)
  <2>1. 1 \in 1 .. Len(q) /\ l.head = q[1] /\ q[1] \in OrderIndices
    BY <1>1, <1>2, LevelEnds
  <2> QED
    BY <1>1, <2>1 DEF NotIn
<1>4. PICK o : o = [P.slots[idx] EXCEPT !.qty = @ - n]
  OBVIOUS
<1>5. P.slots[idx] \in SlotRecords /\ P.slots[idx].qty - n \in Nat
  <2>1. P.slots[idx] \in SlotRecords /\ P.slots[idx].qty \in Nat
    BY <1>2, <1>3, SlotFields
  <2> QED
    BY <2>1
<1>6. /\ o \in SlotRecords /\ o.id = P.slots[idx].id /\ o.side = P.slots[idx].side
      /\ o.price = P.slots[idx].price /\ o.qty = P.slots[idx].qty - n
      /\ o.prev = P.slots[idx].prev /\ o.next = P.slots[idx].next
  BY <1>4, <1>5 DEF SlotRecords
<1>7. /\ P2.slots \in SlotArrays /\ P2.slots[idx] = o /\ P2.free_head = P.free_head /\ P2 \in Pools
      /\ \A j \in OrderIndices : j # idx => P2.slots[j] = P.slots[j]
  <2>1. P2 = [P EXCEPT !.slots = [P.slots EXCEPT ![idx] = o]]
    BY <1>4
  <2>2. [P.slots EXCEPT ![idx] = o] \in SlotArrays
    BY <1>2, <1>6 DEF SlotArrays
  <2>3. P2.slots = [P.slots EXCEPT ![idx] = o] /\ P2.free_head = P.free_head /\ P2 \in Pools
    BY <2>1, <2>2 DEF Pools
  <2> QED
    BY <1>2, <1>3, <2>2, <2>3 DEF SlotArrays
<1>8. l2.head = l.head /\ l2.tail = l.tail /\ l2.total_qty = l.total_qty - n
  BY <1>1, <1>2 DEF LevelRecords
<1>9. /\ L2[s][k] = l2 /\ \A s2 \in Sides, k2 \in PriceSlots :
           s2 # s \/ k2 # k => L2[s2][k2] = L[s2][k2]
  BY <1>1 DEF Ladders
<1>10. Level(P2.slots, l2, q, s, k)
  <2>1. Len(q) # 0
    BY <1>1
  <2>2. Reduced(P.slots, P2.slots, l, l2, q[1], n)
    BY <1>3, <1>6, <1>7, <1>8 DEF Reduced
  <2> QED
    BY <1>2, <2>1, <2>2, LevelReduce
<1>11. Lists(P2.slots, P2.free_head, F)
  <2>1. NotIn(F, idx) /\ SlotList(F)
    BY <1>1, <1>2, <1>3, LevelsApart DEF Lists
  <2>2. \A i \in 1 .. Len(F) : F[i] \in OrderIndices /\ F[i] # idx
    BY <2>1, ElementOfSeq DEF NotIn, SlotList
  <2>3. \A i \in 1 .. Len(F) : P2.slots[F[i]] = P.slots[F[i]]
    BY <1>7, <2>2
  <2> QED
    BY <1>2, <1>7, <2>3, ListKept
<1>12. Moved(P, L, s, k, q, F, idx)
  <2>1. NotIn(F, idx)
    BY <1>1, <1>3, LevelsApart
  <2>2. \A s2 \in Sides, k2 \in PriceSlots : s2 # s \/ k2 # k => NotIn(Orders(P, L, s2, k2), idx)
    BY <1>1, <1>3, LevelsApart
  <2> QED
    BY <1>1, <1>3, <2>1, <2>2 DEF Moved
<1>13. OthersKept(P, L, P2, L2, s, k)
  <2> SUFFICES ASSUME NEW s2 \in Sides, NEW k2 \in PriceSlots, s2 # s \/ k2 # k
               PROVE  /\ L2[s2][k2] = L[s2][k2]
                      /\ \A i \in 1 .. Len(Orders(P, L, s2, k2)) :
                           P2.slots[Orders(P, L, s2, k2)[i]] = P.slots[Orders(P, L, s2, k2)[i]]
    BY DEF OthersKept
  <2>1. PICK p : p = Orders(P, L, s2, k2)
    OBVIOUS
  <2>2. ASSUME NEW i \in 1 .. Len(p)
        PROVE  P2.slots[p[i]] = P.slots[p[i]]
    <3>1. ~NotIn(p, p[i])
      BY DEF NotIn
    <3>2. p[i] \in OrderIndices /\ NotIn(q, p[i])
      BY <1>1, <2>1, <3>1, LevelsApart
    <3> QED
      BY <1>3, <1>7, <3>2
  <2> QED
    BY <1>9, <2>1, <2>2
<1>14. Becomes(P, L, P2, L2, s, k, q, F)
  BY <1>3, <1>9, <1>10, <1>11, <1>12, <1>13, LayoutStep
<1>15. L2 \in Ladders
  <2>1. l2.total_qty \in Nat
    BY <1>10, LevelTyped
  <2>2. l2 \in LevelRecords
    BY <1>1, <1>2, <1>8, <2>1 DEF LevelRecords
  <2>3. L2 = [L EXCEPT ![s] = [L[s] EXCEPT ![k] = l2]]
    BY <1>1
  <2> QED
    BY <2>2, <2>3 DEF Ladders
<1>16. \A s2 \in Sides, k2 \in PriceSlots : /\ Orders(P2, L2, s2, k2) = Orders(P, L, s2, k2)
                                            /\ L2[s2][k2].head = L[s2][k2].head
  BY <1>1, <1>8, <1>9, <1>14 DEF Becomes
<1>17. \A j \in OrderIndices : P2.slots[j].id = P.slots[j].id
  BY <1>6, <1>7
<1>18. FreeList(P2) = FreeList(P) /\ Layout(P2, L2)
  BY <1>1, <1>14 DEF Becomes
<1>19. P2.slots[idx].qty = P.slots[idx].qty - n
  BY <1>6, <1>7
<1> QED
  BY <1>7, <1>15, <1>16, <1>17, <1>18, <1>19 DEF Shrunk

-----------------------------------------------------------------------------
(***************************************************************************)
(* The id map and the slots.                                               *)
(***************************************************************************)
IdMaps == [Ids -> MaybeIndex]

\* The map leads to the orders in the store, each under its id, and nowhere else.
IdsMatch(P, M) ==
  /\ \A idx \in OrderIndices : NotIn(FreeList(P), idx) => M[P.slots[idx].id] = idx
  /\ \A id \in Ids : M[id] # Nil =>
       M[id] \in OrderIndices /\ NotIn(FreeList(P), M[id]) /\ P.slots[M[id]].id = id

LEMMA IdsTake ==
  ASSUME NEW P \in Pools, NEW M \in IdMaps, IdsMatch(P, M), NEW L, NEW P2, NEW L2, NEW s, NEW k,
         NEW o, NEW idx, Taken(P, L, P2, L2, s, k, o, idx), o.id \in Ids, M[o.id] = Nil,
         NEW M2, M2 = [M EXCEPT ![o.id] = idx]
  PROVE  M2 \in IdMaps /\ IdsMatch(P2, M2)
<1>1. /\ idx \in OrderIndices /\ idx # Nil /\ ~NotIn(FreeList(P), idx)
      /\ P2.slots[idx].id = o.id
      /\ \A j \in OrderIndices : j # idx => P2.slots[j].id = P.slots[j].id
      /\ \A j \in OrderIndices : NotIn(FreeList(P2), j) <=> j = idx \/ NotIn(FreeList(P), j)
  BY NilAssumption DEF Taken, SameOrder
<1>2. /\ M2 \in IdMaps /\ M2[o.id] = idx
      /\ \A id \in Ids : id # o.id => M2[id] = M[id]
  BY <1>1 DEF IdMaps, MaybeIndex
<1>3. \A j \in OrderIndices : P.slots[j].id \in Ids
  BY SlotFields DEF Pools, SlotRecords
<1>4. ASSUME NEW j \in OrderIndices, NotIn(FreeList(P2), j)
      PROVE  M2[P2.slots[j].id] = j
  <2>1. CASE j = idx
    BY <1>1, <1>2, <2>1
  <2>2. CASE j # idx
    <3>1. M[P.slots[j].id] = j /\ j # Nil
      BY <1>1, <1>4, <2>2, NilAssumption DEF IdsMatch
    <3>2. P.slots[j].id # o.id
      BY <3>1
    <3> QED
      BY <1>1, <1>2, <1>3, <2>2, <3>1, <3>2
  <2> QED
    BY <2>1, <2>2
<1>5. ASSUME NEW id \in Ids, M2[id] # Nil
      PROVE  M2[id] \in OrderIndices /\ NotIn(FreeList(P2), M2[id]) /\ P2.slots[M2[id]].id = id
  <2>1. CASE id = o.id
    BY <1>1, <1>2, <2>1
  <2>2. CASE id # o.id
    <3>1. /\ M2[id] = M[id] /\ M[id] \in OrderIndices /\ NotIn(FreeList(P), M[id])
          /\ P.slots[M[id]].id = id
      BY <1>2, <1>5, <2>2 DEF IdsMatch
    <3>2. M[id] # idx
      BY <1>1, <3>1
    <3> QED
      BY <1>1, <3>1, <3>2
  <2> QED
    BY <2>1, <2>2
<1> QED
  BY <1>2, <1>4, <1>5 DEF IdsMatch

Erased(M, id) == [M EXCEPT ![id] = Nil]

LEMMA IdsRelease ==
  ASSUME NEW P \in Pools, NEW M \in IdMaps, IdsMatch(P, M), NEW L, NEW P2, NEW L2, NEW s, NEW k,
         NEW m, NEW idx \in OrderIndices, Released(P, L, P2, L2, s, k, m, idx),
         NotIn(FreeList(P), idx)
  PROVE  /\ Erased(M, P.slots[idx].id) \in IdMaps
         /\ IdsMatch(P2, Erased(M, P.slots[idx].id))
         /\ \A id \in Ids : Erased(M, P.slots[idx].id)[id] # Nil => M[id] # Nil
<1>1. PICK old, M2 : old = P.slots[idx].id /\ M2 = Erased(M, old)
  OBVIOUS
<1>2. /\ \A j \in OrderIndices : P2.slots[j].id = P.slots[j].id
      /\ \A j \in OrderIndices : NotIn(FreeList(P2), j) <=> j # idx /\ NotIn(FreeList(P), j)
  BY DEF Released, SameOrder
<1>3. \A j \in OrderIndices : P.slots[j].id \in Ids
  BY SlotFields DEF Pools, SlotRecords
<1>4. /\ M2 \in IdMaps /\ M2[old] = Nil /\ old \in Ids
      /\ \A id \in Ids : id # old => M2[id] = M[id]
  <2>1. M2 = [M EXCEPT ![old] = Nil]
    BY <1>1 DEF Erased
  <2> QED
    BY <1>1, <1>3, <2>1 DEF IdMaps, MaybeIndex
<1>5. M[old] = idx
  BY <1>1 DEF IdsMatch
<1>6. ASSUME NEW j \in OrderIndices, NotIn(FreeList(P2), j)
      PROVE  M2[P2.slots[j].id] = j
  <2>1. j # idx /\ M[P.slots[j].id] = j
    BY <1>2, <1>6 DEF IdsMatch
  <2>2. P.slots[j].id # old
    BY <1>5, <2>1
  <2> QED
    BY <1>2, <1>3, <1>4, <2>1, <2>2
<1>7. ASSUME NEW id \in Ids, M2[id] # Nil
      PROVE  /\ M2[id] \in OrderIndices /\ NotIn(FreeList(P2), M2[id])
             /\ P2.slots[M2[id]].id = id /\ M[id] # Nil
  <2>1. id # old /\ M2[id] = M[id]
    BY <1>4, <1>7
  <2>2. M[id] \in OrderIndices /\ NotIn(FreeList(P), M[id]) /\ P.slots[M[id]].id = id
    BY <1>7, <2>1 DEF IdsMatch
  <2>3. M[id] # idx
    BY <1>1, <2>1, <2>2
  <2> QED
    BY <1>2, <1>7, <2>1, <2>2, <2>3
<1>8. IdsMatch(P2, M2)
  BY <1>6, <1>7 DEF IdsMatch
<1> QED
  BY <1>1, <1>4, <1>7, <1>8

LEMMA IdsReduce ==
  ASSUME NEW P, NEW M, IdsMatch(P, M), NEW L, NEW P2, NEW L2, NEW s, NEW k, NEW idx, NEW n,
         Shrunk(P, L, P2, L2, s, k, idx, n)
  PROVE  IdsMatch(P2, M)
BY DEF IdsMatch, Shrunk

\* Removals make room: the map holds finitely many ids, no two with one slot.
LEMMA RoomKept ==
  ASSUME NEW P, NEW M \in IdMaps, IdsMatch(P, M), NEW M2,
         \A id \in Ids : M2[id] # Nil => M[id] # Nil,
         ~(Cardinality({id \in Ids : M[id] # Nil}) >= MaxLoad)
  PROVE  ~(Cardinality({id \in Ids : M2[id] # Nil}) >= MaxLoad)
<1>1. PICK S, T : S = {id \in Ids : M[id] # Nil} /\ T = {id \in Ids : M2[id] # Nil}
  OBVIOUS
<1>2. PICK f : f = [id \in S |-> M[id]]
  OBVIOUS
<1>3. /\ f \in [S -> OrderIndices]
      /\ \A a, b \in S : f[a] = f[b] => a = b
  BY <1>1, <1>2 DEF IdsMatch
<1>4. f \in Injection(S, OrderIndices)
  BY <1>3 DEF Injection, IsInjective
<1>5. IsFiniteSet(OrderIndices)
  <2>1. 0 \in Int /\ Capacity - 1 \in Int
    BY CapacityAssumption
  <2> QED
    BY <2>1, FS_Interval DEF OrderIndices
<1>6. IsFiniteSet(S)
  BY <1>4, <1>5, FS_Injection
<1>7. T \subseteq S
  BY <1>1
<1>8. IsFiniteSet(T) /\ Cardinality(T) <= Cardinality(S)
  BY <1>6, <1>7, FS_Subset
<1>9. Cardinality(S) \in Nat /\ Cardinality(T) \in Nat
  BY <1>6, <1>8, FS_CardinalityType
<1> QED
  BY <1>1, <1>8, <1>9, MaxLoadAssumption

-----------------------------------------------------------------------------
(***************************************************************************)
(* The bitmaps and the levels.  What is proved of the bitmap of one side   *)
(* by itself holds of the two here; the lemmas used are about any bitmap.  *)
(***************************************************************************)
HasOrders(L, s) == {i \in PriceSlots : ~is_empty(L[s][i])}

Bits == INSTANCE LadderIndexProofs WITH bits <- bits[Bid], live <- HasOrders(ladder, Bid)

BitsMatch(B, L) == \A s \in Sides : B[s] = Index!BitmapOf(HasOrders(L, s))

Bitmaps2 == [Sides -> Index!Bitmaps]

LEMMA SameIndex ==
  /\ NumSlots \in Nat \ {0} /\ WordBits \in Nat \ {0}
  /\ PriceSlots = Bits!SlotIndices /\ Index!NoSlot = Bits!NoSlot
  /\ \A S : Index!BitmapOf(S) = Bits!BitmapOf(S)
  /\ \A bm, i : Index!set_bit_hierarchical(bm, i) = Bits!set_bit_hierarchical(bm, i)
  /\ \A bm, i : Index!clear_bit_hierarchical(bm, i) = Bits!clear_bit_hierarchical(bm, i)
  /\ \A bm : Index!find_best_bid_idx(bm) = Bits!find_best_bid_idx(bm)
  /\ \A bm : Index!find_best_ask_idx(bm) = Bits!find_best_ask_idx(bm)
<1>1. NumSlots \in Nat \ {0} /\ WordBits \in Nat \ {0}
  BY LadderArithmetic, WordBitsAssumption
<1>2. PriceSlots = Bits!SlotIndices /\ Index!NoSlot = Bits!NoSlot
  BY DEF PriceSlots, Index!SlotIndices, Bits!SlotIndices, Index!NoSlot, Bits!NoSlot
<1>3. \A S : Index!BitmapOf(S) = Bits!BitmapOf(S)
  BY DEF Index!BitmapOf, Bits!BitmapOf, Index!L3Size, Bits!L3Size, Index!L2Size, Bits!L2Size,
         Index!L1Size, Bits!L1Size, Index!WordCount, Bits!WordCount, Index!WordOf, Bits!WordOf
<1>4. ASSUME NEW bm, NEW i
      PROVE  /\ Index!set_bit_hierarchical(bm, i) = Bits!set_bit_hierarchical(bm, i)
             /\ Index!clear_bit_hierarchical(bm, i) = Bits!clear_bit_hierarchical(bm, i)
  BY DEF Index!set_bit_hierarchical, Bits!set_bit_hierarchical,
         Index!clear_bit_hierarchical, Bits!clear_bit_hierarchical, Index!SetBit, Bits!SetBit,
         Index!ClearBit, Bits!ClearBit, Index!WordOf, Bits!WordOf, Index!BitOf, Bits!BitOf
<1>5. ASSUME NEW bm
      PROVE  /\ Index!find_best_bid_idx(bm) = Bits!find_best_bid_idx(bm)
             /\ Index!find_best_ask_idx(bm) = Bits!find_best_ask_idx(bm)
  BY DEF Index!find_best_bid_idx, Bits!find_best_bid_idx, Index!find_best_ask_idx,
         Bits!find_best_ask_idx, Index!NonZero, Bits!NonZero, Index!HighestBit, Bits!HighestBit,
         Index!LowestBit, Bits!LowestBit, Index!NoSlot, Bits!NoSlot,
         Index!Max, Bits!Max, Index!Min, Bits!Min
<1> QED
  BY <1>1, <1>2, <1>3, <1>4, <1>5

LEMMA BitmapTyped ==
  ASSUME NEW S
  PROVE  Index!BitmapOf(S) \in Index!Bitmaps
BY DEF Index!BitmapOf, Index!Bitmaps, Index!Words

\* A match of each side is a match, of bitmaps.
LEMMA BitsTyped ==
  ASSUME NEW B, DOMAIN B = Sides, B = [s \in Sides |-> B[s]], NEW L, BitsMatch(B, L)
  PROVE  B \in Bitmaps2
<1>1. \A s \in Sides : B[s] \in Index!Bitmaps
  BY BitmapTyped DEF BitsMatch
<1> QED
  BY <1>1 DEF Bitmaps2

\* The levels other than (s, k) keep their orders, or their want of any.
OthersAlike(L, L2, s, k) ==
  \A s2 \in Sides, k2 \in PriceSlots : s2 # s \/ k2 # k => L2[s2][k2] = L[s2][k2]

LEMMA BitsTake ==
  ASSUME NEW B \in Bitmaps2, NEW L, BitsMatch(B, L), NEW s \in Sides, NEW k \in PriceSlots,
         NEW L2, OthersAlike(L, L2, s, k), L2[s][k].head # Nil,
         NEW B2, B2 = [B EXCEPT ![s] = Index!set_bit_hierarchical(@, k)]
  PROVE  B2 \in Bitmaps2 /\ BitsMatch(B2, L2)
<1>1. PICK S : S = HasOrders(L, s)
  OBVIOUS
<1>2. HasOrders(L2, s) = S \cup {k} /\ \A s2 \in Sides : s2 # s => HasOrders(L2, s2) = HasOrders(L, s2)
  BY <1>1 DEF HasOrders, OthersAlike, is_empty
<1>3. S \in SUBSET PriceSlots /\ B[s] = Index!BitmapOf(S)
  BY <1>1 DEF HasOrders, BitsMatch
<1>4. Index!set_bit_hierarchical(B[s], k) = Index!BitmapOf(S \cup {k})
  <2>1. S \in SUBSET Bits!SlotIndices /\ k \in Bits!SlotIndices
    BY <1>3, SameIndex
  <2>2. Bits!set_bit_hierarchical(Bits!BitmapOf(S), k) = Bits!BitmapOf(S \cup {k})
    BY <2>1, SameIndex, Bits!SetShows
  <2> QED
    BY <1>3, <2>2, SameIndex
<1>5. /\ B2[s] = Index!BitmapOf(S \cup {k}) /\ \A s2 \in Sides : s2 # s => B2[s2] = B[s2]
      /\ DOMAIN B2 = Sides /\ B2 = [x \in Sides |-> B2[x]]
  BY <1>4 DEF Bitmaps2
<1>6. BitsMatch(B2, L2)
  BY <1>2, <1>5 DEF BitsMatch
<1> QED
  BY <1>5, <1>6, BitsTyped

\* The bit of a level that has become empty is cleared.
BitCleared(B, L2, s, k) ==
  IF is_empty(L2[s][k]) THEN [B EXCEPT ![s] = Index!clear_bit_hierarchical(@, k)] ELSE B

LEMMA BitsRelease ==
  ASSUME NEW B \in Bitmaps2, NEW L, BitsMatch(B, L), NEW s \in Sides, NEW k \in PriceSlots,
         NEW L2, OthersAlike(L, L2, s, k), L[s][k].head # Nil
  PROVE  BitCleared(B, L2, s, k) \in Bitmaps2 /\ BitsMatch(BitCleared(B, L2, s, k), L2)
<1>1. PICK S, B2 : S = HasOrders(L, s) /\ B2 = BitCleared(B, L2, s, k)
  OBVIOUS
<1> SUFFICES B2 \in Bitmaps2 /\ BitsMatch(B2, L2)
  BY <1>1
<1>2. /\ HasOrders(L2, s) = IF is_empty(L2[s][k]) THEN S \ {k} ELSE S
      /\ \A s2 \in Sides : s2 # s => HasOrders(L2, s2) = HasOrders(L, s2)
  BY <1>1 DEF HasOrders, OthersAlike, is_empty
<1>3. S \in SUBSET PriceSlots /\ B[s] = Index!BitmapOf(S) /\ k \in S
  BY <1>1 DEF HasOrders, BitsMatch, is_empty
<1>4. Index!clear_bit_hierarchical(B[s], k) = Index!BitmapOf(S \ {k})
  <2>1. S \in SUBSET Bits!SlotIndices
    BY <1>3, SameIndex
  <2>2. Bits!clear_bit_hierarchical(Bits!BitmapOf(S), k) = Bits!BitmapOf(S \ {k})
    BY <1>3, <2>1, SameIndex, Bits!ClearHides
  <2> QED
    BY <1>3, <2>2, SameIndex
<1>5. CASE is_empty(L2[s][k])
  <2>1. B2 = [B EXCEPT ![s] = Index!clear_bit_hierarchical(@, k)]
    BY <1>1, <1>5 DEF BitCleared
  <2>2. /\ B2[s] = Index!BitmapOf(S \ {k}) /\ \A s2 \in Sides : s2 # s => B2[s2] = B[s2]
        /\ DOMAIN B2 = Sides /\ B2 = [x \in Sides |-> B2[x]]
    BY <1>4, <2>1 DEF Bitmaps2
  <2>3. BitsMatch(B2, L2)
    BY <1>2, <1>5, <2>2 DEF BitsMatch
  <2> QED
    BY <2>2, <2>3, BitsTyped
<1>6. CASE ~is_empty(L2[s][k])
  <2>1. B2 = B
    BY <1>1, <1>6 DEF BitCleared
  <2> QED
    BY <1>1, <1>2, <1>6, <2>1 DEF BitsMatch
<1> QED
  BY <1>5, <1>6

\* k is the best of the slots S, or none of them is.
IsBestSlot(S, s, k) ==
  /\ S = {} => k = Index!NoSlot
  /\ S # {} => k \in S /\ \A j \in S : IF s = Bid THEN j <= k ELSE k <= j

\* The bitmap of a side leads to its best level.
LEMMA BestIsBest ==
  ASSUME NEW s \in Sides, BitsMatch(bits, ladder)
  PROVE  IsBestSlot(HasOrders(ladder, s), s, BestSlot(s))
<1>1. PICK S : S = HasOrders(ladder, s)
  OBVIOUS
<1>2. S \in SUBSET PriceSlots /\ bits[s] = Index!BitmapOf(S)
  BY <1>1 DEF HasOrders, BitsMatch
<1>3. S \in SUBSET Bits!SlotIndices /\ NumSlots \in Nat \ {0} /\ WordBits \in Nat \ {0}
  BY <1>2, SameIndex
<1>4. /\ Bits!find_best_bid_idx(Bits!BitmapOf(S)) = IF S = {} THEN Bits!NoSlot ELSE Bits!Max(S)
      /\ Bits!find_best_ask_idx(Bits!BitmapOf(S)) = IF S = {} THEN Bits!NoSlot ELSE Bits!Min(S)
  BY <1>3, Bits!SearchFinds
<1>5. BestSlot(s) = IF s = Bid THEN Bits!find_best_bid_idx(Bits!BitmapOf(S))
                               ELSE Bits!find_best_ask_idx(Bits!BitmapOf(S))
  <2>1. s # Bid => s = Ask
    BY DEF Sides
  <2> QED
    BY <1>2, <2>1, SameIndex DEF BestSlot
<1>6. S # {} => /\ Bits!Max(S) \in S /\ \A j \in S : j <= Bits!Max(S)
                /\ Bits!Min(S) \in S /\ \A j \in S : Bits!Min(S) <= j
  <2>1. S \in SUBSET Bits!Numbers(NumSlots) /\ NumSlots \in Nat
    BY <1>3 DEF Bits!Numbers, Bits!SlotIndices
  <2> QED
    BY <1>3, <2>1, Bits!ExtremesExist
<1>7. IsBestSlot(S, s, BestSlot(s))
  BY <1>4, <1>5, <1>6, SameIndex DEF IsBestSlot
<1> QED
  BY <1>1, <1>7

\* A slot the bitmap leads to has orders.
LEMMA BestHasOrders ==
  ASSUME NEW s \in Sides, BitsMatch(bits, ladder), BestSlot(s) # Index!NoSlot
  PROVE  BestSlot(s) \in HasOrders(ladder, s)
<1>1. IsBestSlot(HasOrders(ladder, s), s, BestSlot(s))
  BY BestIsBest
<1> QED
  BY <1>1 DEF IsBestSlot

-----------------------------------------------------------------------------
(***************************************************************************)
(* The inductive invariant.                                                *)
(***************************************************************************)
Store(P, L, B, M) ==
  /\ P \in Pools /\ L \in Ladders /\ B \in Bitmaps2 /\ M \in IdMaps
  /\ Layout(P, L) /\ IdsMatch(P, M) /\ BitsMatch(B, L)

\* What submit tested at its start still holds while it runs.
RoomLeft ==
  call # Nil => id_to_idx[call.id] = Nil /\ ~is_full(pool) /\ ~MapFull

IInv ==
  /\ Store(pool, ladder, bits, id_to_idx)
  /\ call \in Calls \cup {Nil}
  /\ executed_trades \in Seq(TradeRecs(OrderIds, LadderPrices))
  /\ reply \in Replies
  /\ RoomLeft

LEMMA TypesHold == IInv => TypeOK
BY DEF IInv, Store, TypeOK, Pools, Ladders, Bitmaps2, IdMaps, SlotArrays, LevelRecords, PriceSlots

LEMMA InitInv == Init => IInv
<1> SUFFICES ASSUME Init PROVE IInv
  OBVIOUS
<1>1. Capacity \in Nat /\ Capacity # 0
  BY CapacityAssumption
<1>2. PICK F : F = [i \in 1 .. Capacity |-> i - 1]
  OBVIOUS
<1>3. /\ \A i \in 1 .. Capacity : F[i] = i - 1 /\ i - 1 \in OrderIndices
      /\ F \in [1 .. Capacity -> OrderIndices]
      /\ \A i, j \in 1 .. Capacity : F[i] = F[j] => i = j
  <2>1. \A i \in 1 .. Capacity : F[i] = i - 1 /\ i - 1 \in OrderIndices
    BY <1>1, <1>2 DEF OrderIndices
  <2> QED
    BY <1>1, <1>2, <2>1
<1>4. SlotList(F) /\ Len(F) = Capacity
  BY <1>1, <1>3, SlotListIs
<1>5. \A j \in OrderIndices : /\ pool.slots[j].id = ZeroId /\ pool.slots[j].side = Bid
                              /\ pool.slots[j].price = 0 /\ pool.slots[j].qty = 0
                              /\ pool.slots[j].prev = 0
                              /\ pool.slots[j].next = IF j = Capacity - 1 THEN Nil ELSE j + 1
  BY DEF Init, NewPool, BlankOrder
<1>6. pool \in Pools
  <2>1. 0 \in OrderIndices /\ \A j \in OrderIndices : j # Capacity - 1 => j + 1 \in OrderIndices
    BY <1>1 DEF OrderIndices
  <2>2. Nil \in MaybeIndex /\ 0 \in MaybeIndex
        /\ \A j \in OrderIndices : j # Capacity - 1 => j + 1 \in MaybeIndex
    BY <2>1 DEF MaybeIndex
  <2>3. ASSUME NEW j \in OrderIndices
        PROVE  [BlankOrder EXCEPT !.next = IF j = Capacity - 1 THEN Nil ELSE j + 1] \in SlotRecords
    <3>1. PICK x : x = IF j = Capacity - 1 THEN Nil ELSE j + 1
      OBVIOUS
    <3>2. x \in MaybeIndex
      BY <2>2, <3>1
    <3>3. [BlankOrder EXCEPT !.next = x] \in SlotRecords
      BY <2>2, <3>2 DEF BlankOrder, SlotRecords, Ids, Sides
    <3> QED
      BY <3>1, <3>3
  <2> QED
    BY <2>2, <2>3 DEF Init, NewPool, Pools, SlotArrays
<1>7. Lists(pool.slots, pool.free_head, F)
  <2>1. pool.free_head = FirstOf(F)
    <3>1. 1 \in 1 .. Capacity /\ 1 - 1 = 0
      BY <1>1
    <3>2. F[1] = 0
      BY <1>3, <3>1
    <3> QED
      BY <1>1, <1>4, <3>2 DEF Init, NewPool, FirstOf
  <2>2. ASSUME NEW i \in 1 .. Capacity
        PROVE  pool.slots[F[i]].next = NextIn(F, i)
    <3>1. CASE i = Capacity
      BY <1>3, <1>4, <1>5, <3>1 DEF NextIn
    <3>2. CASE i # Capacity
      <4>1. i + 1 \in 1 .. Capacity /\ i + 1 - 1 = i - 1 + 1 /\ i - 1 # Capacity - 1
        BY <1>1, <3>2
      <4>2. F[i + 1] = i - 1 + 1
        BY <1>3, <4>1
      <4> QED
        BY <1>3, <1>4, <1>5, <3>2, <4>1, <4>2 DEF NextIn
    <3> QED
      BY <3>1, <3>2
  <2> QED
    BY <1>4, <2>1, <2>2 DEF Lists
<1>8. FreeList(pool) = F
  BY <1>7, ChainIs DEF FreeList
<1>9. \A j \in OrderIndices : ~NotIn(F, j)
  <2>1. ASSUME NEW j \in OrderIndices
        PROVE  \E i \in 1 .. Capacity : F[i] = j
    <3>1. j + 1 \in 1 .. Capacity /\ j \in Nat
      BY <1>1 DEF OrderIndices
    <3>2. PICK i \in 1 .. Capacity : i = j + 1
      BY <3>1
    <3>3. F[i] = i - 1
      BY <1>3
    <3>4. F[i] = j
      BY <3>1, <3>2, <3>3
    <3> QED
      BY <3>4
  <2> QED
    BY <1>4, <2>1 DEF NotIn
<1>10. \A s \in Sides, k \in PriceSlots : ladder[s][k] = EmptyLevel
  BY DEF Init, PriceSlots
<1>11. /\ SlotList(<<>>) /\ Len(<<>>) = 0
  <2>1. <<>> \in [1 .. 0 -> OrderIndices]
    OBVIOUS
  <2>2. \A i, j \in 1 .. 0 : <<>>[i] = <<>>[j] => i = j
    OBVIOUS
  <2> QED
    BY <2>1, <2>2, SlotListIs
<1>12. ASSUME NEW s \in Sides, NEW k \in PriceSlots
       PROVE  Level(pool.slots, ladder[s][k], <<>>, s, k) /\ Orders(pool, ladder, s, k) = <<>>
  <2>1. ladder[s][k].head = Nil /\ ladder[s][k].tail = Nil /\ ladder[s][k].total_qty = 0
    BY <1>10 DEF EmptyLevel
  <2>2. Lists(pool.slots, ladder[s][k].head, <<>>)
    BY <1>11, <2>1 DEF Lists, FirstOf
  <2>3. ListsBack(pool.slots, ladder[s][k].tail, <<>>)
    BY <1>11, <2>1 DEF ListsBack, LastOf
  <2>4. SumsTo(Left(pool.slots, <<>>), Len(<<>>), ladder[s][k].total_qty)
    BY <1>11, <2>1, SumEmpty
  <2>5. Orders(pool, ladder, s, k) = <<>>
    BY <2>2, ChainIs DEF Orders
  <2> QED
    BY <1>11, <2>2, <2>3, <2>4, <2>5 DEF Level
<1>13. Layout(pool, ladder)
  <2>1. \A j : ~Resting(pool, ladder, j)
    BY <1>11, <1>12 DEF Resting, NotIn
  <2> QED
    BY <1>7, <1>8, <1>9, <1>12, <2>1 DEF Layout
<1>14. ladder \in Ladders
  BY DEF Init, Ladders, LevelRecords, EmptyLevel, PriceSlots, MaybeIndex
<1>15. id_to_idx \in IdMaps /\ IdsMatch(pool, id_to_idx)
  BY <1>8, <1>9 DEF Init, IdMaps, MaybeIndex, IdsMatch
<1>16. bits \in Bitmaps2 /\ BitsMatch(bits, ladder)
  <2>1. \A s \in Sides : HasOrders(ladder, s) = {}
    BY <1>10 DEF HasOrders, EmptyLevel, is_empty
  <2>2. Index!BitmapOf({}) = Index!EmptyBitmap
    BY DEF Index!BitmapOf, Index!EmptyBitmap
  <2>3. bits = [s \in Sides |-> Index!EmptyBitmap]
    BY DEF Init
  <2>4. BitsMatch(bits, ladder)
    BY <2>1, <2>2, <2>3 DEF BitsMatch
  <2> QED
    BY <2>3, <2>4, BitsTyped
<1>17. Store(pool, ladder, bits, id_to_idx)
  BY <1>6, <1>13, <1>14, <1>15, <1>16 DEF Store
<1> QED
  BY <1>17 DEF Init, IInv, RoomLeft, Replies

-----------------------------------------------------------------------------
(***************************************************************************)
(* The three ways an operation changes the store.                          *)
(***************************************************************************)
\* An order in place m of its level goes, with its slot, its id and, if it was
\* the last, its level's bit.
ReleaseOf(P, L, B, M, P2, L2, B2, M2, s, k, idx) ==
  LET removed == unlink(L[s][k], idx, P)
  IN  /\ L2 = [L EXCEPT ![s][k] = removed.level] /\ P2 = deallocate(removed.pool, idx)
      /\ B2 = BitCleared(B, L2, s, k) /\ M2 = Erased(M, P.slots[idx].id)

NoNewIds(M, M2) == \A id \in Ids : M2[id] # Nil => M[id] # Nil

LEMMA StoreRelease ==
  ASSUME NEW P, NEW L, NEW B, NEW M, Store(P, L, B, M),
         NEW s \in Sides, NEW k \in PriceSlots, NEW m \in 1 .. Len(Orders(P, L, s, k)),
         NEW idx, idx = Orders(P, L, s, k)[m],
         NEW P2, NEW L2, NEW B2, NEW M2, ReleaseOf(P, L, B, M, P2, L2, B2, M2, s, k, idx)
  PROVE  /\ Store(P2, L2, B2, M2)
         /\ Released(P, L, P2, L2, s, k, m, idx) /\ idx \in OrderIndices
         /\ NoNewIds(M, M2)
<1>1. /\ P \in Pools /\ L \in Ladders /\ B \in Bitmaps2 /\ M \in IdMaps
      /\ Layout(P, L) /\ IdsMatch(P, M) /\ BitsMatch(B, L)
  BY DEF Store
<1>2. Released(P, L, P2, L2, s, k, m, idx)
  <2>1. PICK r : r = unlink(L[s][k], idx, P)
    OBVIOUS
  <2>2. P2 = deallocate(r.pool, idx) /\ L2 = [L EXCEPT ![s][k] = r.level]
    BY <2>1 DEF ReleaseOf
  <2> QED
    BY <1>1, <2>1, <2>2, LayoutRelease
<1>3. ~NotIn(Orders(P, L, s, k), idx)
  BY DEF NotIn
<1>4. idx \in OrderIndices /\ NotIn(FreeList(P), idx)
  BY <1>1, <1>3, LevelsApart
<1>5. M2 \in IdMaps /\ IdsMatch(P2, M2) /\ \A id \in Ids : M2[id] # Nil => M[id] # Nil
  <2>1. M2 = Erased(M, P.slots[idx].id)
    BY DEF ReleaseOf
  <2> QED
    BY <1>1, <1>2, <1>4, <2>1, IdsRelease
<1>6. OthersAlike(L, L2, s, k)
  BY <1>2 DEF Released, OthersAlike
<1>7. L[s][k].head # Nil
  <2>1. Level(P.slots, L[s][k], Orders(P, L, s, k), s, k)
    BY <1>1 DEF Layout
  <2>2. L[s][k].head = Nil <=> Len(Orders(P, L, s, k)) = 0
    BY <2>1, LevelEnds
  <2>3. Len(Orders(P, L, s, k)) # 0
    OBVIOUS
  <2> QED
    BY <2>2, <2>3
<1>8. B2 \in Bitmaps2 /\ BitsMatch(B2, L2)
  <2>1. B2 = BitCleared(B, L2, s, k)
    BY DEF ReleaseOf
  <2> QED
    BY <1>1, <1>6, <1>7, <2>1, BitsRelease
<1> QED
  BY <1>2, <1>4, <1>5, <1>8 DEF Store, Released, NoNewIds

\* A new order of an id the map does not hold takes a slot, an entry, the end of
\* its level's queue and its level's bit.
TakeOf(P, L, B, M, P2, L2, B2, M2, s, k, o) ==
  LET pushed == push_back(L[s][k], allocated(P), allocate(P, o))
  IN  /\ P2 = pushed.pool /\ L2 = [L EXCEPT ![s][k] = pushed.level]
      /\ B2 = [B EXCEPT ![s] = Index!set_bit_hierarchical(@, k)]
      /\ M2 = [M EXCEPT ![o.id] = allocated(P)]

LEMMA StoreTake ==
  ASSUME NEW P, NEW L, NEW B, NEW M, Store(P, L, B, M),
         NEW s \in Sides, NEW k \in PriceSlots, ~is_full(P), NEW o \in SlotRecords,
         Holds(o, s, k), M[o.id] = Nil,
         NEW P2, NEW L2, NEW B2, NEW M2, TakeOf(P, L, B, M, P2, L2, B2, M2, s, k, o)
  PROVE  Store(P2, L2, B2, M2) /\ Taken(P, L, P2, L2, s, k, o, allocated(P))
<1>1. /\ P \in Pools /\ L \in Ladders /\ B \in Bitmaps2 /\ M \in IdMaps
      /\ Layout(P, L) /\ IdsMatch(P, M) /\ BitsMatch(B, L)
  BY DEF Store
<1>2. Taken(P, L, P2, L2, s, k, o, allocated(P))
  <2>1. PICK r : r = push_back(L[s][k], allocated(P), allocate(P, o))
    OBVIOUS
  <2>2. P2 = r.pool /\ L2 = [L EXCEPT ![s][k] = r.level]
    BY <2>1 DEF TakeOf
  <2> QED
    BY <1>1, <2>1, <2>2, LayoutTake
<1>3. o.id \in Ids
  BY DEF SlotRecords
<1>4. M2 \in IdMaps /\ IdsMatch(P2, M2)
  <2>1. M2 = [M EXCEPT ![o.id] = allocated(P)]
    BY DEF TakeOf
  <2> QED
    BY <1>1, <1>2, <1>3, <2>1, IdsTake
<1>5. OthersAlike(L, L2, s, k) /\ L2[s][k].head # Nil
  BY <1>2 DEF Taken, OthersAlike
<1>6. B2 \in Bitmaps2 /\ BitsMatch(B2, L2)
  <2>1. B2 = [B EXCEPT ![s] = Index!set_bit_hierarchical(@, k)]
    BY DEF TakeOf
  <2> QED
    BY <1>1, <1>5, <2>1, BitsTake
<1> QED
  BY <1>2, <1>4, <1>6 DEF Store, Taken

\* The front order of a level loses a part of its quantity.
ReduceOf(P, L, P2, L2, s, k, idx, n) ==
  /\ P2 = [P EXCEPT !.slots[idx].qty = @ - n]
  /\ L2 = [L EXCEPT ![s][k].total_qty = @ - n]

LEMMA StoreReduce ==
  ASSUME NEW P, NEW L, NEW B, NEW M, Store(P, L, B, M),
         NEW s \in Sides, NEW k \in PriceSlots, Len(Orders(P, L, s, k)) # 0,
         NEW idx, idx = L[s][k].head, NEW n \in Nat, n < P.slots[idx].qty,
         NEW P2, NEW L2, ReduceOf(P, L, P2, L2, s, k, idx, n)
  PROVE  Store(P2, L2, B, M) /\ Shrunk(P, L, P2, L2, s, k, idx, n)
<1>1. /\ P \in Pools /\ L \in Ladders /\ B \in Bitmaps2 /\ M \in IdMaps
      /\ Layout(P, L) /\ IdsMatch(P, M) /\ BitsMatch(B, L)
  BY DEF Store
<1>2. Shrunk(P, L, P2, L2, s, k, idx, n)
  <2>1. /\ P2 = [P EXCEPT !.slots[idx].qty = @ - n]
        /\ L2 = [L EXCEPT ![s][k].total_qty = @ - n]
    BY DEF ReduceOf
  <2> QED
    BY <1>1, <2>1, LayoutReduce
<1>3. IdsMatch(P2, M)
  BY <1>1, <1>2, IdsReduce
<1>4. BitsMatch(B, L2)
  <2>1. \A a \in Sides, b \in PriceSlots : L2[a][b].head = L[a][b].head
    BY <1>2 DEF Shrunk
  <2>2. \A a \in Sides : HasOrders(L2, a) = HasOrders(L, a)
    BY <2>1 DEF HasOrders, is_empty
  <2> QED
    BY <1>1, <2>2 DEF BitsMatch
<1> QED
  BY <1>1, <1>2, <1>3, <1>4 DEF Store, Shrunk

\* The free list is not empty while it holds a slot.
LEMMA FreeLeft ==
  ASSUME NEW P, NEW L, Layout(P, L), NEW idx \in OrderIndices, ~NotIn(FreeList(P), idx)
  PROVE  ~is_full(P)
<1>1. SlotList(FreeList(P)) /\ P.free_head = FirstOf(FreeList(P))
  BY DEF Layout, Lists
<1>2. PICK F : F = FreeList(P)
  OBVIOUS
<1>3. 1 \in 1 .. Len(F) /\ Len(F) # 0 /\ \A i \in 1 .. Len(F) : F[i] \in OrderIndices
  BY <1>1, <1>2, ElementOfSeq DEF SlotList, NotIn
<1> QED
  BY <1>1, <1>2, <1>3, NilAssumption DEF FirstOf, is_full

-----------------------------------------------------------------------------
(***************************************************************************)
(* Each operation keeps the invariant.                                     *)
(***************************************************************************)
\* What Release does, in the terms of the lemmas.
LEMMA ReleaseIs ==
  ASSUME IInv, NEW s \in Sides, NEW k \in PriceSlots,
         NEW m \in 1 .. Len(Orders(pool, ladder, s, k)),
         NEW idx, idx = Orders(pool, ladder, s, k)[m],
         NEW r, r = unlink(ladder[s][k], idx, pool),
         Release(s, k, idx, pool.slots[idx].id, r)
  PROVE  /\ Store(pool', ladder', bits', id_to_idx')
         /\ Released(pool, ladder, pool', ladder', s, k, m, idx) /\ idx \in OrderIndices
         /\ NoNewIds(id_to_idx, id_to_idx')
<1>1. Store(pool, ladder, bits, id_to_idx)
  BY DEF IInv
<1>2. /\ ladder' = [ladder EXCEPT ![s][k] = r.level] /\ pool' = deallocate(r.pool, idx)
      /\ id_to_idx' = Erased(id_to_idx, pool.slots[idx].id)
  BY DEF Release, Forget, Erased
<1>3. ladder'[s][k] = r.level
  BY <1>1, <1>2 DEF Store, Ladders
<1>4. bits' = BitCleared(bits, ladder', s, k)
  BY <1>3 DEF Release, BitCleared
<1>5. ReleaseOf(pool, ladder, bits, id_to_idx, pool', ladder', bits', id_to_idx', s, k, idx)
  BY <1>2, <1>4 DEF ReleaseOf
<1> QED
  BY <1>1, <1>5, StoreRelease

\* The arguments of a call, and the side and the level it trades with.
LEMMA FillAt ==
  ASSUME IInv, call # Nil, Matches
  PROVE  /\ call \in Calls /\ call.id \in OrderIds /\ call.qty \in Nat \ {0}
         /\ Opposite(call.side) \in Sides
         /\ BestSlot(Opposite(call.side)) \in PriceSlots
         /\ Len(Orders(pool, ladder, Opposite(call.side), BestSlot(Opposite(call.side)))) # 0
         /\ price_to_index(index_to_price(BestSlot(Opposite(call.side))))
              = BestSlot(Opposite(call.side))
<1>1. PICK s, k : s = Opposite(call.side) /\ k = BestSlot(s)
  OBVIOUS
<1>2. call \in Calls /\ call.id \in OrderIds /\ call.qty \in Nat /\ s \in Sides
  BY <1>1 DEF IInv, Calls, Opposite, Sides
<1>3. call.qty > 0 /\ k # Index!NoSlot
  BY <1>1 DEF Matches
<1>4. k \in HasOrders(ladder, s)
  BY <1>1, <1>2, <1>3, BestHasOrders DEF IInv, Store
<1>5. k \in PriceSlots /\ ladder[s][k].head # Nil
  BY <1>4 DEF HasOrders, is_empty
<1>6. Level(pool.slots, ladder[s][k], Orders(pool, ladder, s, k), s, k)
  BY <1>2, <1>5 DEF IInv, Store, Layout
<1>7. Len(Orders(pool, ladder, s, k)) # 0
  BY <1>5, <1>6, LevelEnds
<1> QED
  BY <1>1, <1>2, <1>3, <1>5, <1>7, LadderArithmetic

\* One trade, in terms of the level it happens at: the front order is released,
\* or what is left of it stays in front.
FillEffect(s, k, q, idx, maker, n) ==
  /\ s = Opposite(call.side) /\ k = BestSlot(s) /\ q = Orders(pool, ladder, s, k)
  /\ idx = ladder[s][k].head /\ maker = pool.slots[idx]
  /\ n = IF maker.qty <= call.qty THEN maker.qty ELSE call.qty
  /\ call \in Calls /\ call.id \in OrderIds /\ call.qty \in Nat \ {0}
  /\ s \in Sides /\ k \in PriceSlots /\ Level(pool.slots, ladder[s][k], q, s, k)
  /\ 1 \in 1 .. Len(q) /\ Len(q) # 0 /\ idx = q[1] /\ idx \in OrderIndices
  /\ maker.id \in OrderIds /\ maker.price = index_to_price(k) /\ maker.price \in LadderPrices
  /\ maker.qty \in Nat \ {0}
  /\ n \in Nat \ {0} /\ n <= call.qty /\ n <= maker.qty /\ call.qty - n \in Nat
  /\ executed_trades' = Append(executed_trades,
       [maker_id |-> maker.id, taker_id |-> call.id, price |-> maker.price, qty |-> n])
  /\ call' = [call EXCEPT !.qty = call.qty - n]
  /\ n = maker.qty => /\ Store(pool', ladder', bits', id_to_idx')
                      /\ Released(pool, ladder, pool', ladder', s, k, 1, idx)
                      /\ NoNewIds(id_to_idx, id_to_idx')
  /\ n # maker.qty => /\ Store(pool', ladder', bits, id_to_idx)
                      /\ Shrunk(pool, ladder, pool', ladder', s, k, idx, n)
                      /\ bits' = bits /\ id_to_idx' = id_to_idx
                      /\ pool'.free_head = pool.free_head

LEMMA FillFacts ==
  ASSUME IInv, Fill
  PROVE  \E s, k, q, idx, maker, n : FillEffect(s, k, q, idx, maker, n)
<1>1. PICK s, k, q, idx, maker, n :
        /\ s = Opposite(call.side) /\ k = BestSlot(s) /\ q = Orders(pool, ladder, s, k)
        /\ idx = ladder[s][k].head /\ maker = pool.slots[idx]
        /\ n = IF maker.qty <= call.qty THEN maker.qty ELSE call.qty
  OBVIOUS
<1>2. call # Nil /\ Matches
  BY DEF Fill
<1>3. /\ call \in Calls /\ call.id \in OrderIds /\ call.qty \in Nat \ {0}
      /\ s \in Sides /\ k \in PriceSlots /\ Len(q) # 0 /\ price_to_index(index_to_price(k)) = k
  BY <1>1, <1>2, FillAt
<1>4. /\ executed_trades' = Append(executed_trades,
           [maker_id |-> maker.id, taker_id |-> call.id, price |-> maker.price, qty |-> n])
      /\ IF n = maker.qty THEN Release(s, k, idx, maker.id, pop_front(ladder[s][k], pool))
                          ELSE Reduce(s, k, idx, n)
      /\ call' = [call EXCEPT !.qty = call.qty - n]
  BY <1>1, <1>3 DEF Fill, front, LeftAfter
<1>5. Store(pool, ladder, bits, id_to_idx) /\ Layout(pool, ladder)
  BY DEF IInv, Store
<1>6. Level(pool.slots, ladder[s][k], q, s, k)
  BY <1>1, <1>3, <1>5 DEF Layout
<1>7. 1 \in 1 .. Len(q) /\ idx = q[1] /\ idx \in OrderIndices /\ ~NotIn(q, idx)
  BY <1>1, <1>3, <1>6, LevelEnds DEF NotIn
<1>8. Holds(maker, s, k) /\ NotIn(FreeList(pool), idx)
  BY <1>1, <1>3, <1>5, <1>7, LevelsApart
<1>9. /\ maker.id \in OrderIds /\ maker.price = index_to_price(k) /\ maker.price \in LadderPrices
      /\ maker.qty \in Nat \ {0}
  BY <1>3, <1>8 DEF Holds, LadderPrices, PriceSlots
<1>10. n \in Nat \ {0} /\ n <= call.qty /\ n <= maker.qty /\ call.qty - n \in Nat
  <2>1. n = IF maker.qty <= call.qty THEN maker.qty ELSE call.qty
    BY <1>1
  <2>2. PICK a \in Nat \ {0}, b \in Nat \ {0} : a = maker.qty /\ b = call.qty
    BY <1>3, <1>9
  <2> QED
    BY <2>1, <2>2
<1>11. ASSUME n = maker.qty
       PROVE  /\ Store(pool', ladder', bits', id_to_idx')
              /\ Released(pool, ladder, pool', ladder', s, k, 1, idx)
              /\ NoNewIds(id_to_idx, id_to_idx')
  <2>1. PICK r : r = unlink(ladder[s][k], idx, pool)
    OBVIOUS
  <2>2. pop_front(ladder[s][k], pool) = r
    BY <1>3, <1>6, <1>7, <2>1, PopIsUnlink
  <2>3. Release(s, k, idx, pool.slots[idx].id, r)
    BY <1>1, <1>4, <1>11, <2>2
  <2>4. 1 \in 1 .. Len(Orders(pool, ladder, s, k)) /\ idx = Orders(pool, ladder, s, k)[1]
    BY <1>1, <1>7
  <2> QED
    BY <1>3, <2>1, <2>3, <2>4, ReleaseIs
<1>12. ASSUME n # maker.qty
       PROVE  /\ Store(pool', ladder', bits, id_to_idx)
              /\ Shrunk(pool, ladder, pool', ladder', s, k, idx, n)
              /\ bits' = bits /\ id_to_idx' = id_to_idx
              /\ pool'.free_head = pool.free_head
  <2>1. Reduce(s, k, idx, n)
    BY <1>4, <1>12
  <2>2. /\ pool' = [pool EXCEPT !.slots[idx].qty = @ - n]
        /\ ladder' = [ladder EXCEPT ![s][k].total_qty = @ - n]
        /\ bits' = bits /\ id_to_idx' = id_to_idx
    BY <2>1 DEF Reduce
  <2>3. n \in Nat /\ n < pool.slots[idx].qty /\ Len(Orders(pool, ladder, s, k)) # 0
    <3>1. n \in Nat /\ n < maker.qty
      BY <1>9, <1>10, <1>12
    <3> QED
      BY <1>1, <1>3, <3>1
  <2>4. Store(pool', ladder', bits, id_to_idx) /\ Shrunk(pool, ladder, pool', ladder', s, k, idx, n)
    <3>1. ReduceOf(pool, ladder, pool', ladder', s, k, idx, n)
      BY <2>2 DEF ReduceOf
    <3>2. idx = ladder[s][k].head /\ s \in Sides /\ k \in PriceSlots
      BY <1>1, <1>3
    <3> QED
      BY <1>5, <2>3, <3>1, <3>2, StoreReduce
  <2>5. pool'.free_head = pool.free_head
    BY <1>5, <2>2 DEF Store, Pools
  <2> QED
    BY <2>2, <2>4, <2>5
<1>13. FillEffect(s, k, q, idx, maker, n)
  BY <1>1, <1>3, <1>4, <1>6, <1>7, <1>9, <1>10, <1>11, <1>12 DEF FillEffect
<1> QED
  BY <1>13

LEMMA FillKeeps ==
  ASSUME IInv, Fill
  PROVE  IInv' /\ call'.qty < call.qty /\ call'.qty >= 0
<1>1. PICK s, k, q, idx, maker, n : FillEffect(s, k, q, idx, maker, n)
  BY FillFacts
<1>2. call # Nil /\ reply' = reply
  BY DEF Fill
<1>3. /\ call \in Calls /\ call.id \in OrderIds /\ call.qty \in Nat \ {0}
      /\ idx \in OrderIndices /\ maker.id \in OrderIds /\ maker.price \in LadderPrices
      /\ n \in Nat \ {0} /\ n <= call.qty /\ call.qty - n \in Nat
      /\ executed_trades' = Append(executed_trades,
           [maker_id |-> maker.id, taker_id |-> call.id, price |-> maker.price, qty |-> n])
      /\ call' = [call EXCEPT !.qty = call.qty - n]
  BY <1>1 DEF FillEffect
<1>4. Store(pool, ladder, bits, id_to_idx)
  BY DEF IInv
<1>5. s \in Sides /\ k \in PriceSlots /\ ~NotIn(Orders(pool, ladder, s, k), idx)
  BY <1>1 DEF FillEffect, NotIn
<1>6. NotIn(FreeList(pool), idx)
  BY <1>4, <1>5, LevelsApart DEF Store
<1>7. /\ call' \in Calls /\ call'.id = call.id
      /\ call'.qty < call.qty /\ call'.qty >= 0
  <2>1. call' \in Calls /\ call'.id = call.id /\ call'.qty = call.qty - n
    BY <1>3 DEF Calls
  <2> QED
    BY <1>3, <2>1
<1>8. executed_trades' \in Seq(TradeRecs(OrderIds, LadderPrices)) /\ reply' \in Replies
  <2>1. [maker_id |-> maker.id, taker_id |-> call.id, price |-> maker.price, qty |-> n]
          \in TradeRecs(OrderIds, LadderPrices)
    BY <1>3 DEF TradeRecs
  <2>2. executed_trades \in Seq(TradeRecs(OrderIds, LadderPrices)) /\ reply \in Replies
    BY DEF IInv
  <2> QED
    BY <1>2, <1>3, <2>1, <2>2, AppendProperties
<1>9. id_to_idx[call.id] = Nil /\ ~is_full(pool) /\ ~MapFull
  BY <1>2 DEF IInv, RoomLeft
<1>10. call.id \in Ids
  BY <1>3 DEF Ids
<1>11. CASE n = maker.qty
  <2>1. /\ Store(pool', ladder', bits', id_to_idx')
        /\ Released(pool, ladder, pool', ladder', s, k, 1, idx)
        /\ \A id \in Ids : id_to_idx'[id] # Nil => id_to_idx[id] # Nil
    BY <1>1, <1>11 DEF FillEffect, NoNewIds
  <2>2. Layout(pool', ladder') /\ ~NotIn(FreeList(pool'), idx)
    BY <1>3, <2>1 DEF Released
  <2>3. ~is_full(pool')
    BY <1>3, <2>2, FreeLeft
  <2>4. ~(Cardinality({id \in Ids : id_to_idx'[id] # Nil}) >= MaxLoad)
    <3>1. id_to_idx \in IdMaps /\ IdsMatch(pool, id_to_idx)
      BY <1>4 DEF Store
    <3> QED
      BY <1>9, <2>1, <3>1, RoomKept DEF MapFull
  <2>5. RoomLeft'
    BY <1>7, <1>9, <1>10, <2>1, <2>3, <2>4 DEF RoomLeft, MapFull, is_full
  <2> QED
    BY <1>7, <1>8, <2>1, <2>5 DEF IInv
<1>12. CASE n # maker.qty
  <2>1. /\ Store(pool', ladder', bits, id_to_idx) /\ bits' = bits /\ id_to_idx' = id_to_idx
        /\ pool'.free_head = pool.free_head
    BY <1>1, <1>12 DEF FillEffect
  <2>2. RoomLeft'
    BY <1>7, <1>9, <2>1 DEF RoomLeft, MapFull, is_full
  <2> QED
    BY <1>7, <1>8, <2>1, <2>2 DEF IInv
<1> QED
  BY <1>11, <1>12

\* The order the map names is released, from whatever place of its level.
CancelEffect(id, s, k, m, idx) ==
  /\ idx = id_to_idx[id] /\ idx \in OrderIndices
  /\ s \in Sides /\ k \in PriceSlots /\ m \in 1 .. Len(Orders(pool, ladder, s, k))
  /\ Orders(pool, ladder, s, k)[m] = idx
  /\ Store(pool', ladder', bits', id_to_idx')
  /\ Released(pool, ladder, pool', ladder', s, k, m, idx)

LEMMA CancelFacts ==
  ASSUME IInv, NEW id \in Ids, CancelOrder(id)
  PROVE  \E s, k, m, idx : CancelEffect(id, s, k, m, idx)
<1>1. id_to_idx[id] # Nil
  BY DEF CancelOrder
<1>2. PICK idx : idx = id_to_idx[id]
  OBVIOUS
<1>3. Layout(pool, ladder) /\ IdsMatch(pool, id_to_idx)
  BY DEF IInv, Store
<1>4. idx \in OrderIndices /\ NotIn(FreeList(pool), idx)
  BY <1>1, <1>2, <1>3 DEF IdsMatch
<1>5. PICK s \in Sides, k \in PriceSlots : ~NotIn(Orders(pool, ladder, s, k), idx)
  BY <1>3, <1>4 DEF Layout, Resting
<1>6. pool.slots[idx].side = s /\ price_to_index(pool.slots[idx].price) = k
  BY <1>3, <1>5, LevelsApart
<1>7. PICK m \in 1 .. Len(Orders(pool, ladder, s, k)) : Orders(pool, ladder, s, k)[m] = idx
  BY <1>5 DEF NotIn
<1>8. PICK r : r = unlink(ladder[s][k], idx, pool)
  OBVIOUS
<1>9. Release(s, k, idx, pool.slots[idx].id, r)
  <2>1. pool.slots[idx].id = id
    BY <1>1, <1>2, <1>3 DEF IdsMatch
  <2> QED
    BY <1>2, <1>6, <1>8, <2>1 DEF CancelOrder
<1>10. /\ Store(pool', ladder', bits', id_to_idx')
       /\ Released(pool, ladder, pool', ladder', s, k, m, idx)
  BY <1>7, <1>8, <1>9, ReleaseIs
<1>11. CancelEffect(id, s, k, m, idx)
  BY <1>2, <1>4, <1>7, <1>10 DEF CancelEffect
<1> QED
  BY <1>11

LEMMA CancelKeeps ==
  ASSUME IInv, NEW id \in Ids, CancelOrder(id)
  PROVE  IInv'
<1>1. call' = Nil /\ executed_trades' = <<>> /\ reply' = "Cancelled"
  BY DEF CancelOrder
<1>2. Store(pool', ladder', bits', id_to_idx')
  BY CancelFacts DEF CancelEffect
<1>3. executed_trades' \in Seq(TradeRecs(OrderIds, LadderPrices))
  BY <1>1
<1> QED
  BY <1>1, <1>2, <1>3 DEF IInv, RoomLeft, Replies

\* What is left of the call takes a slot, at the end of the level of its price.
RestEffect(s, k, o) ==
  /\ s = call.side /\ s \in Sides /\ k \in PriceSlots /\ index_to_price(k) = call.price
  /\ o.id = call.id /\ o.qty = call.qty
  /\ Store(pool', ladder', bits', id_to_idx')
  /\ Taken(pool, ladder, pool', ladder', s, k, o, allocated(pool))

LEMMA RestFacts ==
  ASSUME IInv, call # Nil, call.qty > 0, add_resting_order
  PROVE  \E s, k, o : RestEffect(s, k, o)
<1>1. PICK s, k, o, r :
        /\ s = call.side /\ k = price_to_index(call.price)
        /\ o = [id |-> call.id, side |-> call.side, price |-> call.price, qty |-> call.qty,
                prev |-> Nil, next |-> Nil]
        /\ r = push_back(ladder[s][k], allocated(pool), allocate(pool, o))
  OBVIOUS
<1>2. /\ pool' = r.pool /\ ladder' = [ladder EXCEPT ![s][k] = r.level]
      /\ bits' = [bits EXCEPT ![s] = Index!set_bit_hierarchical(@, k)]
      /\ id_to_idx' = [id_to_idx EXCEPT ![call.id] = allocated(pool)]
  BY <1>1 DEF add_resting_order
<1>3. /\ call.id \in OrderIds /\ s \in Sides /\ call.price \in LadderPrices
      /\ call.qty \in Nat \ {0}
  BY <1>1 DEF IInv, Calls
<1>4. k \in PriceSlots /\ index_to_price(k) = call.price
  <2>1. PICK i \in PriceSlots : call.price = index_to_price(i)
    BY <1>3 DEF LadderPrices, PriceSlots
  <2> QED
    BY <1>1, <2>1, LadderArithmetic
<1>5. o \in SlotRecords /\ Holds(o, s, k) /\ o.id = call.id /\ o.qty = call.qty
  <2>1. call.id \in Ids /\ Nil \in MaybeIndex
    BY <1>3 DEF Ids, MaybeIndex
  <2> QED
    BY <1>1, <1>3, <1>4, <2>1 DEF SlotRecords, Holds
<1>6. ~is_full(pool) /\ id_to_idx[o.id] = Nil
  BY <1>5 DEF IInv, RoomLeft
<1>7. id_to_idx' = [id_to_idx EXCEPT ![o.id] = allocated(pool)]
  BY <1>2, <1>5
<1>8. TakeOf(pool, ladder, bits, id_to_idx, pool', ladder', bits', id_to_idx', s, k, o)
  BY <1>1, <1>2, <1>7 DEF TakeOf
<1>9. Store(pool, ladder, bits, id_to_idx)
  BY DEF IInv
<1>10. /\ Store(pool', ladder', bits', id_to_idx')
       /\ Taken(pool, ladder, pool', ladder', s, k, o, allocated(pool))
  BY <1>3, <1>4, <1>5, <1>6, <1>8, <1>9, StoreTake
<1>11. RestEffect(s, k, o)
  BY <1>1, <1>3, <1>4, <1>5, <1>10 DEF RestEffect
<1> QED
  BY <1>11

LEMMA FinishKeeps ==
  ASSUME IInv, Finish
  PROVE  IInv'
<1>1. call # Nil /\ call' = Nil /\ reply' = "Success" /\ executed_trades' = executed_trades
  BY DEF Finish
<1>2. Store(pool', ladder', bits', id_to_idx')
  <2>1. CASE call.qty > 0
    <3>1. add_resting_order
      BY <2>1 DEF Finish
    <3> QED
      BY <1>1, <2>1, <3>1, RestFacts DEF RestEffect
  <2>2. CASE ~(call.qty > 0)
    BY <2>2 DEF Finish, book, IInv
  <2> QED
    BY <2>1, <2>2
<1> QED
  BY <1>1, <1>2 DEF IInv, RoomLeft, Replies

LEMMA SubmitKeeps ==
  ASSUME IInv, NEW id \in Ids, NEW side \in Sides, NEW price \in Prices, NEW qty \in Quantities,
         Submit(id, side, price, qty)
  PROVE  IInv'
<1>1. /\ call' = [id |-> id, side |-> side, price |-> price, qty |-> qty]
      /\ executed_trades' = <<>> /\ reply' = "none"
      /\ pool' = pool /\ ladder' = ladder /\ bits' = bits /\ id_to_idx' = id_to_idx
  BY DEF Submit, book
<1>2. /\ id # ZeroId /\ OnLadder(price) /\ id_to_idx[id] = Nil /\ ~is_full(pool) /\ ~MapFull
  BY DEF Submit, Refusal
<1>3. price \in Nat /\ qty \in Nat /\ id \in OrderIds
  BY <1>2, PricesAssumption, QuantitiesAssumption DEF Ids
<1>4. price \in LadderPrices
  <2>1. price_to_index(price) \in PriceSlots /\ index_to_price(price_to_index(price)) = price
    BY <1>2, <1>3, LadderArithmetic
  <2> QED
    BY <2>1 DEF LadderPrices, PriceSlots
<1>5. call' \in Calls /\ call'.id = id
  BY <1>1, <1>3, <1>4 DEF Calls
<1>6. RoomLeft'
  BY <1>1, <1>2, <1>5 DEF RoomLeft, MapFull, is_full
<1>7. Store(pool', ladder', bits', id_to_idx')
  BY <1>1 DEF IInv
<1>8. executed_trades' \in Seq(TradeRecs(OrderIds, LadderPrices)) /\ reply' \in Replies
  BY <1>1 DEF Replies
<1> QED
  BY <1>5, <1>6, <1>7, <1>8 DEF IInv

\* A call that is refused, or finds nothing to cancel, changes the answer only.
LEMMA RefusalKeeps ==
  ASSUME IInv, call = Nil, call' = Nil, executed_trades' = <<>>, reply' \in Replies,
         UNCHANGED book
  PROVE  IInv'
<1>1. Store(pool', ladder', bits', id_to_idx')
  BY DEF IInv, book
<1>2. executed_trades' \in Seq(TradeRecs(OrderIds, LadderPrices))
  OBVIOUS
<1> QED
  BY <1>1, <1>2 DEF IInv, RoomLeft

LEMMA InvStep == IInv /\ [Next]_vars => IInv'
<1> SUFFICES ASSUME IInv, [Next]_vars
             PROVE  IInv'
  OBVIOUS
<1>1. ASSUME NEW id \in Ids, NEW side \in Sides, NEW price \in Prices, NEW qty \in Quantities,
             Submit(id, side, price, qty)
      PROVE  IInv'
  BY <1>1, SubmitKeeps
<1>2. ASSUME NEW id \in Ids, NEW price \in Prices, NEW qty \in Quantities, Refuse(id, price, qty)
      PROVE  IInv'
  <2>1. Refusal(id, price, qty) \in Replies
    BY DEF Refusal, Replies, Rejections
  <2> QED
    BY <1>2, <2>1, RefusalKeeps DEF Refuse
<1>3. ASSUME Fill PROVE IInv'
  BY <1>3, FillKeeps
<1>4. ASSUME Finish PROVE IInv'
  BY <1>4, FinishKeeps
<1>5. ASSUME NEW id \in Ids, CancelOrder(id) PROVE IInv'
  BY <1>5, CancelKeeps
<1>6. ASSUME NEW id \in Ids, CancelMissing(id) PROVE IInv'
  BY <1>6, RefusalKeeps DEF CancelMissing, Replies
<1>7. CASE UNCHANGED vars
  BY <1>7 DEF vars, IInv, RoomLeft, MapFull
<1> QED
  BY <1>1, <1>2, <1>3, <1>4, <1>5, <1>6, <1>7 DEF Next

LEMMA InvAlways == Spec => []IInv
BY InitInv, InvStep, PTL DEF Spec

-----------------------------------------------------------------------------
\* The two link fields of the orders of a level, its head and its tail describe
\* one queue, in every reachable state.
THEOREM LevelsWellLinkedAlways == Spec => []LevelsWellLinked
<1>1. ASSUME IInv
      PROVE  LevelsWellLinked
  <2>1. ASSUME NEW side \in Sides, NEW slot \in Index!SlotIndices
        PROVE  LET level == ladder[side][slot]
                   queue == Queue(side, slot)
               IN  /\ level.tail = IF queue = <<>> THEN Nil ELSE Last(queue)
                   /\ \A i \in DOMAIN queue :
                        LET order == pool.slots[queue[i]]
                        IN  /\ order.prev = IF i = 1 THEN Nil ELSE queue[i - 1]
                            /\ order.side = side
                            /\ price_to_index(order.price) = slot
                            /\ order.qty > 0
    <3>1. PICK q : q = Queue(side, slot)
      OBVIOUS
    <3>2. Level(pool.slots, ladder[side][slot], q, side, slot)
      BY <1>1, <3>1 DEF IInv, Store, Layout, Orders, Queue, PriceSlots
    <3>3. /\ q \in Seq(OrderIndices) /\ Len(q) \in Nat /\ DOMAIN q = 1 .. Len(q)
          /\ ladder[side][slot].tail = LastOf(q)
          /\ \A i \in 1 .. Len(q) : pool.slots[q[i]].prev = PrevIn(q, i)
          /\ \A i \in 1 .. Len(q) : Holds(pool.slots[q[i]], side, slot)
      BY <3>2 DEF Level, Lists, ListsBack, SlotList
    <3>4. ladder[side][slot].tail = IF q = <<>> THEN Nil ELSE Last(q)
      <4>1. q = <<>> <=> Len(q) = 0
        BY <3>3, EmptySeq
      <4> QED
        BY <3>3, <4>1 DEF LastOf, Last
    <3>5. ASSUME NEW i \in DOMAIN q
          PROVE  /\ pool.slots[q[i]].prev = IF i = 1 THEN Nil ELSE q[i - 1]
                 /\ pool.slots[q[i]].side = side
                 /\ price_to_index(pool.slots[q[i]].price) = slot
                 /\ pool.slots[q[i]].qty > 0
      <4>1. Holds(pool.slots[q[i]], side, slot) /\ pool.slots[q[i]].prev = PrevIn(q, i)
        BY <3>3
      <4>2. price_to_index(index_to_price(slot)) = slot
        BY LadderArithmetic DEF PriceSlots
      <4> QED
        BY <4>1, <4>2 DEF Holds, PrevIn
    <3> QED
      BY <3>1, <3>4, <3>5
  <2> QED
    BY <1>1, <2>1, TypesHold DEF LevelsWellLinked
<1> QED
  BY <1>1, InvAlways, PTL

\* A level's total is the sum that recursion over its orders computes.
LEMMA TotalUnique ==
  ASSUME NEW q, Len(q) \in Nat, NEW v, SumsTo(Left(pool.slots, q), Len(q), v)
  PROVE  v = TotalQty(q)
<1> DEFINE Sums(h) == h = [i \in 0 .. Len(q) |->
                             IF i = 0 THEN 0 ELSE h[i - 1] + pool.slots[q[i]].qty]
           s == CHOOSE h : Sums(h)
<1>1. \E h : Sums(h)
  <2>1. PICK g : RunningSum(g, Left(pool.slots, q), Len(q))
    BY DEF SumsTo
  <2>2. Sums(g)
    BY <2>1 DEF RunningSum, Left
  <2> QED
    BY <2>2
<1>2. Sums(s)
  BY <1>1
<1> HIDE DEF s
<1>3. \A i \in 0 .. Len(q) : s[i] = IF i = 0 THEN 0 ELSE s[i - 1] + Left(pool.slots, q)[i]
  BY <1>2 DEF Left
<1>4. v = s[Len(q)]
  BY <1>3, SumUnique
<1>5. TotalQty(q) = s[Len(q)]
  BY DEF TotalQty, s
<1> QED
  BY <1>4, <1>5

\* The running total of each level is the sum over its orders.
THEOREM TotalQtyMatchesAlways == Spec => []TotalQtyMatches
<1>1. ASSUME IInv
      PROVE  TotalQtyMatches
  <2>1. ASSUME NEW side \in Sides, NEW slot \in Index!SlotIndices
        PROVE  ladder[side][slot].total_qty = TotalQty(Queue(side, slot))
    <3>1. PICK q : q = Queue(side, slot)
      OBVIOUS
    <3>2. Level(pool.slots, ladder[side][slot], q, side, slot)
      BY <1>1, <3>1 DEF IInv, Store, Layout, Orders, Queue, PriceSlots
    <3>3. Len(q) \in Nat /\ SumsTo(Left(pool.slots, q), Len(q), ladder[side][slot].total_qty)
      BY <3>2, LevelEnds DEF Level
    <3> QED
      BY <3>1, <3>3, TotalUnique
  <2> QED
    BY <2>1 DEF TotalQtyMatches
<1> QED
  BY <1>1, InvAlways, PTL

\* Each side's bitmap shows the levels that hold an order.
THEOREM BitsMatchLevelsAlways == Spec => []BitsMatchLevels
<1>1. IInv => BitsMatchLevels
  BY DEF IInv, Store, BitsMatch, HasOrders, PriceSlots, BitsMatchLevels
<1> QED
  BY <1>1, InvAlways, PTL

\* The id map and the resting orders are in one-to-one correspondence.
THEOREM IdsMatchSlotsAlways == Spec => []IdsMatchSlots
<1>1. ASSUME IInv
      PROVE  IdsMatchSlots
  <2>1. PICK F : F = FreeList(pool)
    OBVIOUS
  <2>2. DOMAIN F = 1 .. Len(F) /\ IdsMatch(pool, id_to_idx)
    BY <1>1, <2>1 DEF IInv, Store, Layout, Lists, SlotList
  <2>3. \A idx : NotIn(F, idx) <=> idx \notin Range(F)
    BY <2>2 DEF NotIn, Range
  <2> QED
    BY <2>1, <2>2, <2>3 DEF IdsMatch, IdsMatchSlots
<1> QED
  BY <1>1, InvAlways, PTL

\* A submit that was taken finds a free slot and room in the id map when its
\* remainder rests, however many orders it traded with before.
THEOREM RemainderHasRoomAlways == Spec => []RemainderHasRoom
<1>1. IInv => RemainderHasRoom
  BY DEF IInv, RoomLeft, RemainderHasRoom
<1> QED
  BY <1>1, InvAlways, PTL

\* Each slot is free or the place of one order.
THEOREM SlotsPartitionedAlways == Spec => []SlotsPartitioned
<1>1. ASSUME IInv
      PROVE  SlotsPartitioned
  <2> DEFINE Levels == Sides \X Index!SlotIndices
             lists == [l \in Levels \cup {<<"free">>} |->
                         IF l \in Levels THEN Queue(l[1], l[2]) ELSE FreeList(pool)]
             Places(idx) == {lp \in (DOMAIN lists) \X (1 .. Capacity + 1) :
                               lp[2] \in DOMAIN lists[lp[1]] /\ lists[lp[1]][lp[2]] = idx}
  <2>1. Layout(pool, ladder) /\ Capacity \in Nat
    BY <1>1, CapacityAssumption DEF IInv, Store
  <2>2. <<"free">> \notin Levels
    <3>1. \A a, b : <<"free">> # <<a, b>>
      <4> SUFFICES ASSUME NEW a, NEW b, <<"free">> = <<a, b>>
                   PROVE  FALSE
        OBVIOUS
      <4>1. Len(<<"free">>) = 1 /\ Len(<<a, b>>) = 2
        OBVIOUS
      <4> QED
        BY <4>1
    <3> QED
      BY <3>1
  <2>3. /\ lists[<<"free">>] = FreeList(pool)
        /\ \A s \in Sides, k \in PriceSlots : <<s, k>> \in Levels /\ lists[<<s, k>>] = Orders(pool, ladder, s, k)
    BY <2>2 DEF Queue, Orders, PriceSlots
  <2>4. /\ \A l \in Levels : \E s \in Sides, k \in PriceSlots : l = <<s, k>>
        /\ DOMAIN lists = Levels \cup {<<"free">>}
    BY DEF PriceSlots
  <2> HIDE DEF lists, Levels
  <2>5. \A l \in DOMAIN lists : SlotList(lists[l])
    <3>1. SlotList(FreeList(pool))
      BY <2>1 DEF Layout, Lists
    <3>2. \A s \in Sides, k \in PriceSlots : SlotList(Orders(pool, ladder, s, k))
      BY <2>1 DEF Layout, Level, Lists
    <3> QED
      BY <2>3, <2>4, <3>1, <3>2
  <2>6. ASSUME NEW idx \in OrderIndices
        PROVE  /\ \E l \in DOMAIN lists : ~NotIn(lists[l], idx)
               /\ \A l1, l2 \in DOMAIN lists :
                    ~NotIn(lists[l1], idx) /\ ~NotIn(lists[l2], idx) => l1 = l2
    <3>1. CASE ~NotIn(FreeList(pool), idx)
      <4>1. \A s \in Sides, k \in PriceSlots : NotIn(Orders(pool, ladder, s, k), idx)
        BY <2>1, <3>1 DEF Layout, Resting
      <4> QED
        BY <2>3, <2>4, <3>1, <4>1
    <3>2. CASE NotIn(FreeList(pool), idx)
      <4>1. PICK s \in Sides, k \in PriceSlots : ~NotIn(Orders(pool, ladder, s, k), idx)
        BY <2>1, <3>2 DEF Layout, Resting
      <4>2. \A s2 \in Sides, k2 \in PriceSlots :
              s2 # s \/ k2 # k => NotIn(Orders(pool, ladder, s2, k2), idx)
        BY <2>1, <4>1, LevelsApart
      <4>3. <<s, k>> \in DOMAIN lists /\ ~NotIn(lists[<<s, k>>], idx)
        BY <2>3, <2>4, <4>1
      <4>4. ASSUME NEW l \in DOMAIN lists, ~NotIn(lists[l], idx)
            PROVE  l = <<s, k>>
        <5>1. l # <<"free">>
          BY <2>3, <3>2, <4>4
        <5>2. PICK a \in Sides, b \in PriceSlots : l = <<a, b>>
          BY <2>4, <5>1
        <5>3. ~NotIn(Orders(pool, ladder, a, b), idx)
          BY <2>3, <4>4, <5>2
        <5> QED
          BY <4>2, <5>2, <5>3
      <4> QED
        BY <4>3, <4>4
    <3> QED
      BY <3>1, <3>2
  <2>7. ASSUME NEW idx \in OrderIndices
        PROVE  Cardinality(Places(idx)) = 1
    <3>1. PICK l \in DOMAIN lists : ~NotIn(lists[l], idx)
      BY <2>6
    <3>2. PICK i \in 1 .. Len(lists[l]) : lists[l][i] = idx
      BY <3>1 DEF NotIn
    <3>3. SlotList(lists[l]) /\ i \in DOMAIN lists[l] /\ i \in 1 .. Capacity + 1
      <4>1. SlotList(lists[l]) /\ Len(lists[l]) <= Capacity
        BY <2>5, ListFits
      <4> QED
        BY <2>1, <3>2, <4>1 DEF SlotList
    <3>4. <<l, i>> \in Places(idx)
      BY <3>2, <3>3
    <3>5. ASSUME NEW lp \in Places(idx)
          PROVE  lp = <<l, i>>
      <4>1. PICK l2 \in DOMAIN lists, j \in 1 .. Capacity + 1 :
              lp = <<l2, j>> /\ j \in DOMAIN lists[l2] /\ lists[l2][j] = idx
        OBVIOUS
      <4>2. DOMAIN lists[l2] = 1 .. Len(lists[l2])
        BY <2>5 DEF SlotList
      <4>3. ~NotIn(lists[l2], idx)
        BY <4>1, <4>2 DEF NotIn
      <4>4. l2 = l
        BY <2>6, <3>1, <4>3
      <4>5. j \in 1 .. Len(lists[l]) /\ j = i
        BY <3>2, <3>3, <4>1, <4>2, <4>4 DEF SlotList
      <4> QED
        BY <4>1, <4>4, <4>5
    <3>6. Places(idx) = {<<l, i>>}
      <4> HIDE DEF Places
      <4> QED
        BY <3>4, <3>5
    <3> HIDE DEF Places
    <3> QED
      BY <3>6, FS_Singleton
  <2> QED
    BY <2>7 DEF SlotsPartitioned, lists, Levels
<1> QED
  BY <1>1, InvAlways, PTL

\* Every step inside submit trades some of what is left, or returns.
THEOREM EachRoundShrinksAlways == Spec => EachRoundShrinks
<1>1. ASSUME IInv, [Next]_vars
      PROVE  [call # Nil => call' = Nil \/ (call'.qty < call.qty /\ call'.qty >= 0)]_vars
  <2>1. CASE Fill
    BY <1>1, <2>1, FillKeeps
  <2>2. CASE Finish
    BY <2>2 DEF Finish
  <2>3. CASE ~Fill /\ ~Finish /\ Next
    <3>1. call = Nil
      BY <2>3 DEF Next, Submit, Refuse, CancelOrder, CancelMissing
    <3> QED
      BY <3>1
  <2> QED
    BY <1>1, <2>1, <2>2, <2>3
<1> QED
  BY <1>1, InvAlways, PTL DEF Spec, EachRoundShrinks

-----------------------------------------------------------------------------
(***************************************************************************)
(* The refinement.  A level maps to the queue of the ids and quantities of *)
(* its orders; what an operation does to the list is what the book does to *)
(* the queue.                                                              *)
(***************************************************************************)
RestingOrders == [id : Ids, qty : Nat \ {0}]

IdQty(o) == [id |-> o.id, qty |-> o.qty]

QueueOf(P, q) == [i \in DOMAIN q |-> IdQty(P.slots[q[i]])]

\* a is the queue of the orders in the slots q.
IsQueueOf(P, q, a) ==
  /\ a \in Seq(RestingOrders) /\ Len(a) = Len(q) /\ DOMAIN a = 1 .. Len(q)
  /\ \A i \in 1 .. Len(q) : a[i] = IdQty(P.slots[q[i]])
  /\ a = <<>> <=> Len(q) = 0

\* A list whose slots hold orders maps to a queue of orders.
LEMMA QueueProperties ==
  ASSUME NEW P, NEW l, NEW q, NEW s, NEW k, Level(P.slots, l, q, s, k)
  PROVE  IsQueueOf(P, q, QueueOf(P, q))
<1>1. Len(q) \in Nat /\ DOMAIN q = 1 .. Len(q) /\ \A i \in 1 .. Len(q) : Holds(P.slots[q[i]], s, k)
  BY DEF Level, Lists, SlotList
<1>2. PICK n, f : n = Len(q) /\ f = QueueOf(P, q)
  OBVIOUS
<1>3. \A i \in 1 .. n : IdQty(P.slots[q[i]]) \in RestingOrders
  BY <1>1, <1>2 DEF Holds, IdQty, RestingOrders, Ids
<1>4. f \in [1 .. n -> RestingOrders] /\ \A i \in 1 .. n : f[i] = IdQty(P.slots[q[i]])
  BY <1>1, <1>2, <1>3 DEF QueueOf
<1>5. f \in Seq(RestingOrders) /\ Len(f) = n
  <2>1. f \in Seq(RestingOrders)
    BY <1>1, <1>2, <1>4, SeqDef
  <2>2. Len(f) \in Nat /\ 1 .. Len(f) = 1 .. n
    BY <1>4, <2>1, LenProperties
  <2> QED
    BY <1>1, <1>2, <2>1, <2>2
<1>6. f = <<>> <=> Len(f) = 0
  BY <1>5, EmptySeq
<1>7. IsQueueOf(P, q, f)
  BY <1>2, <1>4, <1>5, <1>6 DEF IsQueueOf
<1> QED
  BY <1>2, <1>7

\* The queue follows the list: an order less, an order more, a front order with
\* less left.
SameIdQty(P, P2, q) == \A i \in 1 .. Len(q) : IdQty(P2.slots[q[i]]) = IdQty(P.slots[q[i]])

LEMMA QueueKept ==
  ASSUME NEW P, NEW P2, NEW q, DOMAIN q = 1 .. Len(q), SameIdQty(P, P2, q)
  PROVE  QueueOf(P2, q) = QueueOf(P, q)
BY DEF QueueOf, SameIdQty

\* The queues before and after an order leaves its place m, arrives at the end,
\* or at the front loses n.
QueueRemoved(P, P2, q, m) == QueueOf(P2, RemoveAt(q, m)) = RemoveAt(QueueOf(P, q), m)

QueueAppended(P, P2, q, idx) ==
  QueueOf(P2, Append(q, idx)) = Append(QueueOf(P, q), IdQty(P2.slots[idx]))

FrontLoses(P, P2, q, n) ==
  /\ P2.slots[q[1]].id = P.slots[q[1]].id /\ P2.slots[q[1]].qty = P.slots[q[1]].qty - n
  /\ \A i \in 1 .. Len(q) : i # 1 => P2.slots[q[i]] = P.slots[q[i]]

QueueTaken(P, P2, q, n) == QueueOf(P2, q) = [QueueOf(P, q) EXCEPT ![1].qty = @ - n]

LEMMA QueueRemove ==
  ASSUME NEW P, NEW l, NEW q, NEW s, NEW k, Level(P.slots, l, q, s, k), NEW m \in 1 .. Len(q),
         NEW P2, NEW l2, Level(P2.slots, l2, RemoveAt(q, m), s, k), SameIdQty(P, P2, q)
  PROVE  QueueRemoved(P, P2, q, m)
<1>1. PICK n, t, a : n = Len(q) /\ t = RemoveAt(q, m) /\ a = QueueOf(P, q)
  OBVIOUS
<1>2. /\ a \in Seq(RestingOrders) /\ Len(a) = n /\ DOMAIN a = 1 .. n
      /\ \A i \in 1 .. n : a[i] = IdQty(P.slots[q[i]])
  <2>1. IsQueueOf(P, q, QueueOf(P, q))
    BY QueueProperties
  <2> QED
    BY <1>1, <2>1 DEF IsQueueOf
<1>3. n \in Nat /\ m \in 1 .. n /\ Removed(q, m, t)
  BY <1>1, RemoveList DEF Level, Lists, SlotList
<1>4. Len(t) = n - 1 /\ \A i \in 1 .. n - 1 : t[i] = q[IF i < m THEN i ELSE i + 1]
  BY <1>1, <1>3 DEF Removed
<1>5. /\ RemoveAt(a, m) \in Seq(RestingOrders) /\ Len(RemoveAt(a, m)) = n - 1
      /\ \A i \in 1 .. n - 1 : RemoveAt(a, m)[i] = a[IF i < m THEN i ELSE i + 1]
  BY <1>2, <1>3, RemoveAtProperties
<1>6. PICK b : b = QueueOf(P2, t)
  OBVIOUS
<1>7. /\ b \in Seq(RestingOrders) /\ Len(b) = n - 1
      /\ \A i \in 1 .. n - 1 : b[i] = IdQty(P2.slots[t[i]])
  <2>1. Level(P2.slots, l2, t, s, k)
    BY <1>1
  <2>2. IsQueueOf(P2, t, QueueOf(P2, t))
    BY <2>1, QueueProperties
  <2> QED
    BY <1>4, <1>6, <2>2 DEF IsQueueOf
<1>8. ASSUME NEW i \in 1 .. n - 1
      PROVE  b[i] = RemoveAt(a, m)[i]
  <2>1. PICK j : j = IF i < m THEN i ELSE i + 1
    OBVIOUS
  <2>2. j \in 1 .. n
    BY <1>3, <2>1
  <2>3. t[i] = q[j] /\ RemoveAt(a, m)[i] = a[j]
    BY <1>4, <1>5, <2>1
  <2>4. IdQty(P2.slots[q[j]]) = IdQty(P.slots[q[j]])
    BY <1>1, <2>2 DEF SameIdQty
  <2> QED
    BY <1>2, <1>7, <2>2, <2>3, <2>4
<1>9. b = RemoveAt(a, m)
  BY <1>5, <1>7, <1>8, SeqEqual
<1> QED
  BY <1>1, <1>6, <1>9 DEF QueueRemoved

LEMMA QueueAppend ==
  ASSUME NEW P, NEW l, NEW q, NEW s, NEW k, Level(P.slots, l, q, s, k), NEW idx,
         NEW P2, NEW l2, Level(P2.slots, l2, Append(q, idx), s, k), SameIdQty(P, P2, q)
  PROVE  QueueAppended(P, P2, q, idx)
<1>1. PICK n, t, a, e : /\ n = Len(q) /\ t = Append(q, idx) /\ a = QueueOf(P, q)
                        /\ e = IdQty(P2.slots[idx])
  OBVIOUS
<1>2. /\ a \in Seq(RestingOrders) /\ Len(a) = n
      /\ \A i \in 1 .. n : a[i] = IdQty(P.slots[q[i]])
  <2>1. IsQueueOf(P, q, QueueOf(P, q))
    BY QueueProperties
  <2> QED
    BY <1>1, <2>1 DEF IsQueueOf
<1>3. n \in Nat /\ q \in Seq(OrderIndices)
  BY <1>1 DEF Level, Lists, SlotList
<1>4. Len(t) = n + 1 /\ t[n + 1] = idx /\ \A i \in 1 .. n : t[i] = q[i]
  BY <1>1, <1>3, AppendProperties
<1>5. PICK b : b = QueueOf(P2, t)
  OBVIOUS
<1>6. /\ b \in Seq(RestingOrders) /\ Len(b) = n + 1
      /\ \A i \in 1 .. n + 1 : b[i] = IdQty(P2.slots[t[i]])
  <2>1. Level(P2.slots, l2, t, s, k)
    BY <1>1
  <2>2. IsQueueOf(P2, t, QueueOf(P2, t))
    BY <2>1, QueueProperties
  <2> QED
    BY <1>4, <1>5, <2>2 DEF IsQueueOf
<1>7. n + 1 \in 1 .. n + 1 /\ \A i \in 1 .. n + 1 : i = n + 1 \/ i \in 1 .. n
  BY <1>3
<1>8. b[n + 1] = e /\ \A i \in 1 .. n : b[i] = a[i]
  <2>1. \A i \in 1 .. n : i \in 1 .. n + 1 /\ IdQty(P2.slots[q[i]]) = IdQty(P.slots[q[i]])
    BY <1>1, <1>3 DEF SameIdQty
  <2> QED
    BY <1>1, <1>2, <1>4, <1>6, <1>7, <2>1
<1>9. e \in RestingOrders
  BY <1>6, <1>7, <1>8, ElementOfSeq
<1>10. /\ Append(a, e) \in Seq(RestingOrders) /\ Len(Append(a, e)) = n + 1
       /\ Append(a, e)[n + 1] = e /\ \A i \in 1 .. n : Append(a, e)[i] = a[i]
  BY <1>2, <1>9, AppendProperties
<1>11. \A i \in 1 .. n + 1 : b[i] = Append(a, e)[i]
  BY <1>7, <1>8, <1>10
<1>12. b = Append(a, e)
  BY <1>6, <1>10, <1>11, SeqEqual
<1> QED
  BY <1>1, <1>5, <1>12 DEF QueueAppended

\* Of the front order n were filled.
LEMMA QueueTake ==
  ASSUME NEW P, NEW l, NEW q, NEW s, NEW k, Level(P.slots, l, q, s, k), Len(q) # 0,
         NEW P2, NEW n, FrontLoses(P, P2, q, n)
  PROVE  QueueTaken(P, P2, q, n)
<1>1. /\ DOMAIN q = 1 .. Len(q) /\ 1 \in 1 .. Len(q)
  BY LevelEnds DEF Level, Lists, SlotList
<1>2. PICK a, b, e : /\ a = QueueOf(P, q) /\ b = QueueOf(P2, q)
                     /\ e = [a[1] EXCEPT !.qty = @ - n]
  OBVIOUS
<1>3. /\ a = [i \in 1 .. Len(q) |-> IdQty(P.slots[q[i]])]
      /\ b = [i \in 1 .. Len(q) |-> IdQty(P2.slots[q[i]])]
  BY <1>1, <1>2 DEF QueueOf
<1>4. b[1] = e
  BY <1>1, <1>2, <1>3 DEF IdQty, FrontLoses
<1>5. \A i \in 1 .. Len(q) : i # 1 => b[i] = a[i]
  BY <1>3 DEF FrontLoses
<1>6. b = [a EXCEPT ![1] = e]
  BY <1>3, <1>4, <1>5
<1> QED
  BY <1>2, <1>6 DEF QueueTaken

\* The first of a queue, and the rest.
LEMMA QueueFront ==
  ASSUME NEW a \in Seq(RestingOrders), Len(a) # 0
  PROVE  Head(a) = a[1] /\ RemoveAt(a, 1) = Tail(a)
<1>1. a # <<>> /\ Len(a) \in Nat /\ 1 \in DOMAIN a /\ Head(a) = a[1]
  BY EmptySeq, LenProperties
<1>2. /\ Tail(a) \in Seq(RestingOrders) /\ Len(Tail(a)) = Len(a) - 1
      /\ \A i \in 1 .. Len(Tail(a)) : Tail(a)[i] = a[i + 1]
  BY <1>1, HeadTailProperties
<1>3. /\ RemoveAt(a, 1) \in Seq(RestingOrders) /\ Len(RemoveAt(a, 1)) = Len(a) - 1
      /\ \A i \in 1 .. Len(a) - 1 : RemoveAt(a, 1)[i] = a[IF i < 1 THEN i ELSE i + 1]
  BY <1>1, RemoveAtProperties
<1>4. \A i \in 1 .. Len(Tail(a)) : Tail(a)[i] = RemoveAt(a, 1)[i]
  BY <1>2, <1>3
<1>5. Tail(a) = RemoveAt(a, 1)
  BY <1>2, <1>3, <1>4, SeqEqual
<1> QED
  BY <1>1, <1>5

-----------------------------------------------------------------------------
(* The book the store stands for.                                          *)

At(P, L, s, k) == QueueOf(P, Orders(P, L, s, k))

\* The queue at (s, k) becomes b, the other queues stay.
QueueBecomes(P, L, P2, L2, s, k, b) ==
  /\ At(P2, L2, s, k) = b
  /\ \A s2 \in Sides, k2 \in PriceSlots : s2 # s \/ k2 # k => At(P2, L2, s2, k2) = At(P, L, s2, k2)

\* Orders that keep their slots' data keep their queue.
LEMMA AtKept ==
  ASSUME NEW P, NEW L, Layout(P, L), NEW s \in Sides, NEW k \in PriceSlots, NEW P2, NEW L2,
         Orders(P2, L2, s, k) = Orders(P, L, s, k), SameIdQty(P, P2, Orders(P, L, s, k))
  PROVE  At(P2, L2, s, k) = At(P, L, s, k)
<1>1. PICK q : q = Orders(P, L, s, k)
  OBVIOUS
<1>2. DOMAIN q = 1 .. Len(q) /\ SameIdQty(P, P2, q)
  BY <1>1 DEF Layout, Level, Lists, SlotList
<1>3. QueueOf(P2, q) = QueueOf(P, q)
  BY <1>2, QueueKept
<1> QED
  BY <1>1, <1>3 DEF At

LEMMA ReleasedQueues ==
  ASSUME NEW P, NEW L, Layout(P, L), NEW s \in Sides, NEW k \in PriceSlots,
         NEW m \in 1 .. Len(Orders(P, L, s, k)), NEW idx, NEW P2, NEW L2,
         Released(P, L, P2, L2, s, k, m, idx)
  PROVE  QueueBecomes(P, L, P2, L2, s, k, RemoveAt(At(P, L, s, k), m))
<1>1. ASSUME NEW s2 \in Sides, NEW k2 \in PriceSlots
      PROVE  SameIdQty(P, P2, Orders(P, L, s2, k2))
  <2>1. PICK q : q = Orders(P, L, s2, k2)
    OBVIOUS
  <2>2. \A i \in 1 .. Len(q) : q[i] \in OrderIndices
    BY <2>1, ElementOfSeq DEF Layout, Level, Lists, SlotList
  <2>3. \A j \in OrderIndices : SameOrder(P2.slots[j], P.slots[j])
    BY DEF Released
  <2>4. SameIdQty(P, P2, q)
    BY <2>2, <2>3 DEF SameIdQty, IdQty, SameOrder
  <2> QED
    BY <2>1, <2>4
<1>2. PICK q, l, l2 : q = Orders(P, L, s, k) /\ l = L[s][k] /\ l2 = L2[s][k]
  OBVIOUS
<1>3. /\ Level(P.slots, l, q, s, k) /\ Level(P2.slots, l2, RemoveAt(q, m), s, k)
      /\ Orders(P2, L2, s, k) = RemoveAt(q, m) /\ m \in 1 .. Len(q)
  <2>1. Orders(P2, L2, s, k) = RemoveAt(q, m) /\ Layout(P2, L2)
    BY <1>2 DEF Released
  <2> QED
    BY <1>2, <2>1 DEF Layout
<1>4. SameIdQty(P, P2, q)
  BY <1>1, <1>2
<1>5. QueueRemoved(P, P2, q, m)
  BY <1>3, <1>4, QueueRemove
<1>6. At(P2, L2, s, k) = RemoveAt(At(P, L, s, k), m)
  BY <1>2, <1>3, <1>5 DEF At, QueueRemoved
<1>7. ASSUME NEW s2 \in Sides, NEW k2 \in PriceSlots, s2 # s \/ k2 # k
      PROVE  At(P2, L2, s2, k2) = At(P, L, s2, k2)
  <2>1. Orders(P2, L2, s2, k2) = Orders(P, L, s2, k2)
    BY <1>7 DEF Released
  <2>2. SameIdQty(P, P2, Orders(P, L, s2, k2))
    BY <1>1
  <2> QED
    BY <2>1, <2>2, AtKept
<1> QED
  BY <1>6, <1>7 DEF QueueBecomes

LEMMA TakenQueues ==
  ASSUME NEW P, NEW L, Layout(P, L), NEW s \in Sides, NEW k \in PriceSlots,
         NEW o, NEW idx, NEW P2, NEW L2, Taken(P, L, P2, L2, s, k, o, idx)
  PROVE  QueueBecomes(P, L, P2, L2, s, k, Append(At(P, L, s, k), IdQty(o)))
<1>1. ASSUME NEW s2 \in Sides, NEW k2 \in PriceSlots
      PROVE  SameIdQty(P, P2, Orders(P, L, s2, k2))
  <2>1. PICK q : q = Orders(P, L, s2, k2)
    OBVIOUS
  <2>2. \A i \in 1 .. Len(q) : q[i] \in OrderIndices /\ ~NotIn(q, q[i])
    BY <2>1, ElementOfSeq DEF Layout, Level, Lists, SlotList, NotIn
  <2>3. \A i \in 1 .. Len(q) : NotIn(FreeList(P), q[i])
    BY <2>1, <2>2, LevelsApart
  <2>4. /\ \A j \in OrderIndices : j # idx => SameOrder(P2.slots[j], P.slots[j])
        /\ ~NotIn(FreeList(P), idx)
    BY DEF Taken
  <2>5. SameIdQty(P, P2, q)
    BY <2>2, <2>3, <2>4 DEF SameIdQty, IdQty, SameOrder
  <2> QED
    BY <2>1, <2>5
<1>2. PICK q, l, l2 : q = Orders(P, L, s, k) /\ l = L[s][k] /\ l2 = L2[s][k]
  OBVIOUS
<1>3. /\ Level(P.slots, l, q, s, k) /\ Level(P2.slots, l2, Append(q, idx), s, k)
      /\ Orders(P2, L2, s, k) = Append(q, idx) /\ SameOrder(P2.slots[idx], o)
  <2>1. /\ Orders(P2, L2, s, k) = Append(q, idx) /\ Layout(P2, L2)
        /\ SameOrder(P2.slots[idx], o)
    BY <1>2 DEF Taken
  <2> QED
    BY <1>2, <2>1 DEF Layout
<1>4. SameIdQty(P, P2, q)
  BY <1>1, <1>2
<1>5. QueueAppended(P, P2, q, idx)
  BY <1>3, <1>4, QueueAppend
<1>6. At(P2, L2, s, k) = Append(At(P, L, s, k), IdQty(o))
  <2>1. IdQty(P2.slots[idx]) = IdQty(o)
    BY <1>3 DEF SameOrder, IdQty
  <2> QED
    BY <1>2, <1>3, <1>5, <2>1 DEF At, QueueAppended
<1>7. ASSUME NEW s2 \in Sides, NEW k2 \in PriceSlots, s2 # s \/ k2 # k
      PROVE  At(P2, L2, s2, k2) = At(P, L, s2, k2)
  <2>1. Orders(P2, L2, s2, k2) = Orders(P, L, s2, k2)
    BY <1>7 DEF Taken
  <2>2. SameIdQty(P, P2, Orders(P, L, s2, k2))
    BY <1>1
  <2> QED
    BY <2>1, <2>2, AtKept
<1> QED
  BY <1>6, <1>7 DEF QueueBecomes

LEMMA ShrunkQueues ==
  ASSUME NEW P, NEW L, Layout(P, L), NEW s \in Sides, NEW k \in PriceSlots,
         Len(Orders(P, L, s, k)) # 0, NEW idx, idx = Orders(P, L, s, k)[1], NEW n,
         NEW P2, NEW L2, Shrunk(P, L, P2, L2, s, k, idx, n)
  PROVE  QueueBecomes(P, L, P2, L2, s, k, [At(P, L, s, k) EXCEPT ![1].qty = @ - n])
<1>1. PICK q, l : q = Orders(P, L, s, k) /\ l = L[s][k]
  OBVIOUS
<1>2. /\ Level(P.slots, l, q, s, k) /\ Orders(P2, L2, s, k) = q
      /\ \A j \in OrderIndices : j # idx => P2.slots[j] = P.slots[j]
  BY <1>1 DEF Shrunk, Layout
<1>3. /\ 1 \in 1 .. Len(q) /\ \A i \in 1 .. Len(q) : q[i] \in OrderIndices
      /\ \A i, j \in 1 .. Len(q) : q[i] = q[j] => i = j
  <2>1. Level(P.slots, l, q, s, k) /\ Len(q) # 0
    BY <1>1, <1>2
  <2>2. q \in Seq(OrderIndices) /\ \A i, j \in 1 .. Len(q) : q[i] = q[j] => i = j
    BY <2>1 DEF Level, Lists, SlotList
  <2> QED
    BY <2>1, <2>2, LevelEnds, ElementOfSeq
<1>4. \A i \in 1 .. Len(q) : i # 1 => P2.slots[q[i]] = P.slots[q[i]]
  <2>1. idx = q[1]
    BY <1>1
  <2> QED
    BY <1>2, <1>3, <2>1
<1>5. FrontLoses(P, P2, q, n) /\ Len(q) # 0
  <2>1. /\ P2.slots[q[1]].id = P.slots[q[1]].id /\ P2.slots[q[1]].qty = P.slots[q[1]].qty - n
        /\ Len(q) # 0
    BY <1>1, <1>3 DEF Shrunk
  <2> QED
    BY <1>4, <2>1 DEF FrontLoses
<1>6. QueueTaken(P, P2, q, n)
  BY <1>2, <1>5, QueueTake
<1>7. At(P2, L2, s, k) = [At(P, L, s, k) EXCEPT ![1].qty = @ - n]
  BY <1>1, <1>2, <1>6 DEF At, QueueTaken
<1>8. ASSUME NEW s2 \in Sides, NEW k2 \in PriceSlots, s2 # s \/ k2 # k
      PROVE  At(P2, L2, s2, k2) = At(P, L, s2, k2)
  <2>1. PICK r : r = Orders(P, L, s2, k2)
    OBVIOUS
  <2>2. Orders(P2, L2, s2, k2) = r
    BY <2>1 DEF Shrunk
  <2>3. \A i \in 1 .. Len(r) : r[i] \in OrderIndices /\ ~NotIn(r, r[i])
    BY <2>1, ElementOfSeq DEF Layout, Level, Lists, SlotList, NotIn
  <2>4. NotIn(r, idx)
    <3>1. ~NotIn(Orders(P, L, s, k), idx)
      BY <1>1, <1>3 DEF NotIn
    <3> QED
      BY <1>8, <2>1, <3>1, LevelsApart
  <2>5. \A i \in 1 .. Len(r) : P2.slots[r[i]] = P.slots[r[i]]
    BY <1>2, <2>3, <2>4
  <2>6. SameIdQty(P, P2, r)
    BY <2>5 DEF SameIdQty
  <2> QED
    BY <2>1, <2>2, <2>6, AtKept
<1> QED
  BY <1>7, <1>8 DEF QueueBecomes

-----------------------------------------------------------------------------
(* What the book's definitions mean in terms of the store.                 *)

TheBook == [s \in Sides |-> [p \in LadderPrices |-> QueueAtPrice(s, p)]]

LEMMA SameVocabulary ==
  /\ Book!Bid = Bid /\ Book!Ask = Ask /\ Book!Sides = Sides
  /\ Book!Replies = Replies /\ Book!Rejections = Rejections
  /\ \A s : Book!Opposite(s) = Opposite(s)
  /\ \A s, p, q : Book!Better(s, p, q) = Better(s, p, q)
  /\ \A q, i : Book!RemoveAt(q, i) = RemoveAt(q, i)
BY DEF Book!Bid, Bid, Book!Ask, Ask, Book!Sides, Sides, Book!Replies, Replies,
       Book!Rejections, Rejections, Book!Opposite, Opposite, Book!Better, Better,
       Book!RemoveAt, RemoveAt

\* The prices of the ladder are those of its slots.
LEMMA PriceOfSlot ==
  /\ \A k \in PriceSlots : /\ index_to_price(k) \in LadderPrices
                           /\ price_to_index(index_to_price(k)) = k
  /\ \A p \in LadderPrices : p \in Nat /\ price_to_index(p) \in PriceSlots
                             /\ index_to_price(price_to_index(p)) = p
<1>1. \A k \in PriceSlots : index_to_price(k) \in LadderPrices
  BY DEF LadderPrices, PriceSlots
<1>2. ASSUME NEW p \in LadderPrices
      PROVE  /\ p \in Nat /\ price_to_index(p) \in PriceSlots
             /\ index_to_price(price_to_index(p)) = p
  <2>1. PICK k \in PriceSlots : p = index_to_price(k)
    BY DEF LadderPrices, PriceSlots
  <2> QED
    BY <2>1, LadderArithmetic
<1> QED
  BY <1>1, <1>2, LadderArithmetic

\* Slots stand in the order of their prices.
LEMMA PricesInOrder ==
  ASSUME NEW j \in PriceSlots, NEW k \in PriceSlots
  PROVE  index_to_price(j) <= index_to_price(k) <=> j <= k
<1>1. j \in Nat /\ k \in Nat /\ MinPrice \in Nat /\ TickSize \in Nat /\ TickSize > 0
  BY LadderArithmetic, LadderAssumption
<1>2. PICK t \in Nat \ {0} : t = TickSize
  BY <1>1
<1>3. MinPrice + j * t <= MinPrice + k * t <=> j <= k
  <2>1. j <= k => j * t <= k * t
    BY <1>1, <1>2
  <2>2. k + 1 <= j => k * t + t <= j * t
    <3>1. k + 1 <= j => (k + 1) * t <= j * t
      BY <1>1, <1>2
    <3>2. (k + 1) * t = k * t + t
      BY <1>1, <1>2
    <3> QED
      BY <3>1, <3>2
  <2>3. j * t \in Nat /\ k * t \in Nat
    BY <1>1, <1>2
  <2>4. j <= k \/ k + 1 <= j
    BY <1>1
  <2> QED
    BY <1>1, <1>2, <2>1, <2>2, <2>3, <2>4
<1> QED
  BY <1>2, <1>3 DEF index_to_price

\* A queue of the book is the queue of the level, before a step and after.
LEMMA BookAt ==
  ASSUME NEW s \in Sides, NEW p \in LadderPrices
  PROVE  /\ TheBook[s][p] = At(pool, ladder, s, price_to_index(p))
         /\ TheBook'[s][p] = At(pool', ladder', s, price_to_index(p))
<1>1. QueueAtPrice(s, p) = At(pool, ladder, s, price_to_index(p))
  BY DEF QueueAtPrice, Queue, At, QueueOf, IdQty, Orders
<1>2. QueueAtPrice(s, p)' = At(pool', ladder', s, price_to_index(p))
  BY DEF QueueAtPrice, Queue, At, QueueOf, IdQty, Orders, price_to_index
<1> QED
  BY <1>1, <1>2 DEF TheBook

\* The queue at the price of slot k becomes b in the book.
BookTakes(s, k, b) == TheBook' = [TheBook EXCEPT ![s][index_to_price(k)] = b]

\* A step that gives one level a new queue gives the book the same.
LEMMA BookPlaces ==
  ASSUME NEW s \in Sides, NEW k \in PriceSlots, NEW b,
         QueueBecomes(pool, ladder, pool', ladder', s, k, b)
  PROVE  BookTakes(s, k, b)
<1>1. PICK p, old, new : p = index_to_price(k) /\ old = TheBook /\ new = TheBook'
  OBVIOUS
<1>2. p \in LadderPrices /\ price_to_index(p) = k
  BY <1>1, PriceOfSlot
<1>3. /\ new = [t \in Sides |-> [r \in LadderPrices |-> new[t][r]]]
      /\ old = [t \in Sides |-> [r \in LadderPrices |-> old[t][r]]]
  BY <1>1 DEF TheBook
<1>4. ASSUME NEW t \in Sides, NEW r \in LadderPrices
      PROVE  new[t][r] = IF t = s /\ r = p THEN b ELSE old[t][r]
  <2>1. PICK i : i = price_to_index(r)
    OBVIOUS
  <2>2. i \in PriceSlots /\ index_to_price(i) = r
    BY <2>1, PriceOfSlot
  <2>3. new[t][r] = At(pool', ladder', t, i) /\ old[t][r] = At(pool, ladder, t, i)
    BY <1>1, <2>1, BookAt
  <2>4. t = s /\ r = p <=> t = s /\ i = k
    BY <1>1, <1>2, <2>1, <2>2
  <2>5. CASE t = s /\ i = k
    <3>1. At(pool', ladder', t, i) = b
      BY <2>5 DEF QueueBecomes
    <3> QED
      BY <2>3, <2>4, <2>5, <3>1
  <2>6. CASE ~(t = s /\ i = k)
    <3>1. At(pool', ladder', t, i) = At(pool, ladder, t, i)
      BY <2>2, <2>6 DEF QueueBecomes
    <3> QED
      BY <2>3, <2>4, <2>6, <3>1
  <2> QED
    BY <2>5, <2>6
<1>5. PICK rows : rows = [old EXCEPT ![s][p] = b]
  OBVIOUS
<1>6. \A t \in Sides : /\ new[t] = [r \in LadderPrices |-> new[t][r]]
                       /\ old[t] = [r \in LadderPrices |-> old[t][r]]
  BY <1>3
<1>7. ASSUME NEW t \in Sides
      PROVE  new[t] = rows[t]
  <2>1. CASE t = s
    <3>1. rows[t] = [old[s] EXCEPT ![p] = b]
      BY <1>3, <1>5, <2>1
    <3>2. \A r \in LadderPrices : new[t][r] = [old[s] EXCEPT ![p] = b][r]
      BY <1>4, <1>6, <2>1
    <3> QED
      BY <1>6, <2>1, <3>1, <3>2
  <2>2. CASE t # s
    <3>1. rows[t] = old[t]
      BY <1>3, <1>5, <2>2
    <3>2. \A r \in LadderPrices : new[t][r] = old[t][r]
      BY <1>4, <2>2
    <3> QED
      BY <1>6, <2>2, <3>1, <3>2
  <2> QED
    BY <2>1, <2>2
<1>8. rows = [t \in Sides |-> rows[t]] /\ new = [t \in Sides |-> new[t]]
  BY <1>3, <1>5
<1>9. new = [old EXCEPT ![s][p] = b]
  BY <1>5, <1>7, <1>8
<1> QED
  BY <1>1, <1>9 DEF BookTakes

LEMMA BookUnchanged == UNCHANGED <<pool, ladder>> => TheBook' = TheBook
BY DEF TheBook, QueueAtPrice, Queue

\* The queue at a price is not empty when its level has orders.
LEMMA LiveSlots ==
  ASSUME IInv, NEW s \in Sides, NEW p \in LadderPrices
  PROVE  TheBook[s][p] # <<>> <=> price_to_index(p) \in HasOrders(ladder, s)
<1>1. PICK k : k = price_to_index(p)
  OBVIOUS
<1>2. k \in PriceSlots
  BY <1>1, PriceOfSlot
<1>3. Level(pool.slots, ladder[s][k], Orders(pool, ladder, s, k), s, k)
  BY <1>2 DEF IInv, Store, Layout
<1>4. IsQueueOf(pool, Orders(pool, ladder, s, k), QueueOf(pool, Orders(pool, ladder, s, k)))
  BY <1>3, QueueProperties
<1>5. At(pool, ladder, s, k) # <<>> <=> Len(Orders(pool, ladder, s, k)) # 0
  BY <1>4 DEF IsQueueOf, At
<1>6. ladder[s][k].head = Nil <=> Len(Orders(pool, ladder, s, k)) = 0
  BY <1>3, LevelEnds
<1> QED
  BY <1>1, <1>2, <1>5, <1>6, BookAt DEF HasOrders, is_empty

\* The id map knows exactly the orders that rest in the book.
LEMMA LiveIsMapped ==
  ASSUME IInv, NEW id \in Ids
  PROVE  Book!IsLive(id) <=> id_to_idx[id] # Nil
<1>1. Layout(pool, ladder) /\ IdsMatch(pool, id_to_idx)
  BY DEF IInv, Store
<1>2. Book!IsLive(id) <=> \E s \in Sides : \E p \in LadderPrices :
        \E i \in DOMAIN TheBook[s][p] : TheBook[s][p][i].id = id
  BY SameVocabulary DEF Book!IsLive, TheBook
<1>3. ASSUME NEW s \in Sides, NEW p \in LadderPrices, NEW k, k = price_to_index(p),
             NEW q, q = Orders(pool, ladder, s, k)
      PROVE  /\ k \in PriceSlots /\ DOMAIN TheBook[s][p] = 1 .. Len(q)
             /\ \A i \in 1 .. Len(q) : TheBook[s][p][i].id = pool.slots[q[i]].id
  <2>1. k \in PriceSlots
    BY <1>3, PriceOfSlot
  <2>2. Level(pool.slots, ladder[s][k], q, s, k)
    BY <1>1, <1>3, <2>1 DEF Layout
  <2>3. IsQueueOf(pool, q, QueueOf(pool, q))
    BY <2>2, QueueProperties
  <2>4. TheBook[s][p] = QueueOf(pool, q)
    BY <1>3, BookAt DEF At
  <2> QED
    BY <2>1, <2>3, <2>4 DEF IsQueueOf, IdQty
<1>4. ASSUME NEW s \in Sides, NEW p \in LadderPrices, NEW i \in DOMAIN TheBook[s][p],
             TheBook[s][p][i].id = id
      PROVE  id_to_idx[id] # Nil
  <2>1. PICK k, q : k = price_to_index(p) /\ q = Orders(pool, ladder, s, k)
    OBVIOUS
  <2>2. k \in PriceSlots /\ i \in 1 .. Len(q) /\ pool.slots[q[i]].id = id
    BY <1>3, <1>4, <2>1
  <2>3. ~NotIn(Orders(pool, ladder, s, k), q[i])
    BY <2>1, <2>2 DEF NotIn
  <2>4. q[i] \in OrderIndices /\ NotIn(FreeList(pool), q[i])
    BY <1>1, <2>2, <2>3, LevelsApart
  <2>5. id_to_idx[id] = q[i]
    BY <1>1, <2>2, <2>4 DEF IdsMatch
  <2> QED
    BY <2>4, <2>5, NilAssumption
<1>5. ASSUME id_to_idx[id] # Nil
      PROVE  \E s \in Sides : \E p \in LadderPrices :
               \E i \in DOMAIN TheBook[s][p] : TheBook[s][p][i].id = id
  <2>1. PICK idx : idx = id_to_idx[id]
    OBVIOUS
  <2>2. idx \in OrderIndices /\ NotIn(FreeList(pool), idx) /\ pool.slots[idx].id = id
    BY <1>1, <1>5, <2>1 DEF IdsMatch
  <2>3. PICK s \in Sides, k \in PriceSlots : ~NotIn(Orders(pool, ladder, s, k), idx)
    BY <1>1, <2>2 DEF Layout, Resting
  <2>4. PICK i \in 1 .. Len(Orders(pool, ladder, s, k)) : Orders(pool, ladder, s, k)[i] = idx
    BY <2>3 DEF NotIn
  <2>5. PICK p : p = index_to_price(k)
    OBVIOUS
  <2>6. p \in LadderPrices /\ price_to_index(p) = k
    BY <2>5, PriceOfSlot
  <2>7. i \in DOMAIN TheBook[s][p] /\ TheBook[s][p][i].id = id
    BY <1>3, <2>2, <2>4, <2>6
  <2> QED
    BY <2>6, <2>7
<1> QED
  BY <1>2, <1>4, <1>5

\* The book's best price is the price of the slot the bitmap leads to.
LEMMA BestIsSlot ==
  ASSUME IInv, NEW s \in Sides, NEW p \in LadderPrices
  PROVE  Book!IsBest(s, p) <=> BestSlot(s) # Index!NoSlot /\ p = index_to_price(BestSlot(s))
<1>1. PICK S, b, k : S = HasOrders(ladder, s) /\ b = BestSlot(s) /\ k = price_to_index(p)
  OBVIOUS
<1>2. IsBestSlot(S, s, b)
  BY <1>1, BestIsBest DEF IInv, Store
<1>3. S \in SUBSET PriceSlots /\ k \in PriceSlots /\ p = index_to_price(k) /\ Index!NoSlot = -1
  BY <1>1, PriceOfSlot DEF HasOrders, Index!NoSlot
<1>4. \A r \in LadderPrices : r \in Book!Live(s) <=> price_to_index(r) \in S
  <2>1. Book!Live(s) = {r \in LadderPrices : TheBook[s][r] # <<>>}
    BY DEF Book!Live, TheBook
  <2> QED
    BY <1>1, <2>1, LiveSlots
<1>5. Book!Live(s) \in SUBSET LadderPrices
  BY DEF Book!Live
<1>6. Book!IsBest(s, p) <=> k \in S /\ \A j \in S : ~Better(s, index_to_price(j), p)
  <2>1. Book!IsBest(s, p) <=> p \in Book!Live(s) /\ \A r \in Book!Live(s) : ~Better(s, r, p)
    BY SameVocabulary DEF Book!IsBest
  <2>2. p \in Book!Live(s) <=> k \in S
    BY <1>1, <1>4
  <2>3. ASSUME NEW j \in S
        PROVE  index_to_price(j) \in Book!Live(s)
    BY <1>3, <1>4, PriceOfSlot
  <2>4. ASSUME NEW r \in Book!Live(s)
        PROVE  \E j \in S : r = index_to_price(j)
    BY <1>4, <1>5, PriceOfSlot
  <2> QED
    BY <2>1, <2>2, <2>3, <2>4
<1>7. \A j \in S : ~Better(s, index_to_price(j), p) <=> IF s = Bid THEN j <= k ELSE k <= j
  <2> SUFFICES ASSUME NEW j \in S
               PROVE  ~Better(s, index_to_price(j), p) <=> IF s = Bid THEN j <= k ELSE k <= j
    OBVIOUS
  <2>1. j \in PriceSlots /\ index_to_price(j) \in Nat /\ p \in Nat
    BY <1>3, LadderArithmetic
  <2>2. /\ index_to_price(j) <= p <=> j <= k
        /\ p <= index_to_price(j) <=> k <= j
    BY <1>3, <2>1, PricesInOrder
  <2>3. PICK x \in Nat, y \in Nat : x = index_to_price(j) /\ y = p
    BY <2>1
  <2>4. ~(x > y) <=> x <= y
    OBVIOUS
  <2>5. ~(x < y) <=> y <= x
    OBVIOUS
  <2> QED
    BY <2>2, <2>3, <2>4, <2>5 DEF Better
<1>8. Book!IsBest(s, p) <=> k \in S /\ \A j \in S : IF s = Bid THEN j <= k ELSE k <= j
  BY <1>6, <1>7
<1>9. S \in SUBSET Nat /\ k \in Nat
  BY <1>3, LadderArithmetic
<1>10. ASSUME k \in S, \A j \in S : IF s = Bid THEN j <= k ELSE k <= j
       PROVE  b = k
  <2>1. b \in S /\ \A j \in S : IF s = Bid THEN j <= b ELSE b <= j
    BY <1>2, <1>10 DEF IsBestSlot
  <2>2. b \in Nat /\ k \in Nat /\ b <= k /\ k <= b
    BY <1>9, <1>10, <2>1
  <2> QED
    BY <2>2
<1>11. b # Index!NoSlot => b \in S /\ \A j \in S : IF s = Bid THEN j <= b ELSE b <= j
  BY <1>2 DEF IsBestSlot
<1>12. k \in S => k # Index!NoSlot
  BY <1>3, <1>9
<1>13. b \in PriceSlots => (p = index_to_price(b) <=> b = k)
  BY <1>1, <1>3, PriceOfSlot
<1> QED
  BY <1>1, <1>3, <1>8, <1>10, <1>11, <1>12, <1>13

\* The loop of the engine goes on exactly when the book has a price to match.
LEMMA MatchesIsMatch ==
  ASSUME IInv, call # Nil, NEW p \in LadderPrices
  PROVE  Book!MatchesAt(p) <=> Matches /\ p = index_to_price(BestSlot(Opposite(call.side)))
<1>1. PICK s : s = Opposite(call.side)
  OBVIOUS
<1>2. s \in Sides
  BY <1>1 DEF Opposite, Sides
<1>3. Book!MatchesAt(p) <=> /\ call.qty > 0 /\ Book!IsBest(s, p)
                            /\ IF call.side = Bid THEN p <= call.price ELSE p >= call.price
  BY <1>1, SameVocabulary DEF Book!MatchesAt, Book!Crosses
<1>4. Book!IsBest(s, p) <=> BestSlot(s) # Index!NoSlot /\ p = index_to_price(BestSlot(s))
  BY <1>2, BestIsSlot
<1>5. p \in Nat /\ call.price \in Nat
  BY PriceOfSlot DEF IInv, Calls
<1>6. (p <= call.price <=> call.price >= p) /\ (p >= call.price <=> call.price <= p)
  BY <1>5
<1>7. Matches <=> /\ call.qty > 0 /\ BestSlot(s) # Index!NoSlot
                  /\ IF call.side = Bid THEN call.price >= index_to_price(BestSlot(s))
                                        ELSE call.price <= index_to_price(BestSlot(s))
  BY <1>1 DEF Matches
<1> QED
  BY <1>1, <1>3, <1>4, <1>6, <1>7

-----------------------------------------------------------------------------
(* Step by step.                                                           *)

LEMMA InitBook == Init => Book!Init
<1> SUFFICES ASSUME Init PROVE Book!Init
  OBVIOUS
<1>1. IInv
  BY InitInv
<1>2. ASSUME NEW s \in Sides, NEW p \in LadderPrices
      PROVE  TheBook[s][p] = <<>>
  <2>1. \A k \in PriceSlots : is_empty(ladder[s][k])
    BY DEF Init, EmptyLevel, is_empty, PriceSlots
  <2>2. price_to_index(p) \notin HasOrders(ladder, s)
    BY <2>1 DEF HasOrders
  <2> QED
    BY <1>1, <2>2, LiveSlots
<1>3. TheBook = [s \in Book!Sides |-> [p \in LadderPrices |-> <<>>]]
  BY <1>2, SameVocabulary DEF TheBook
<1> QED
  BY <1>3 DEF Init, Book!Init, TheBook

LEMMA SubmitBook ==
  ASSUME IInv, NEW id \in Ids, NEW side \in Sides, NEW price \in Prices, NEW qty \in Quantities,
         Submit(id, side, price, qty)
  PROVE  Book!Next
<1>1. TheBook' = TheBook
  BY BookUnchanged DEF Submit, book
<1>2. id_to_idx[id] = Nil /\ OnLadder(price)
  BY DEF Submit, Refusal
<1>3. ~Book!IsLive(id)
  BY <1>2, LiveIsMapped
<1>4. price \in LadderPrices
  <2>1. price_to_index(price) \in PriceSlots /\ index_to_price(price_to_index(price)) = price
    BY <1>2, LadderArithmetic, PricesAssumption
  <2> QED
    BY <2>1, PriceOfSlot
<1>5. Book!Submit(id, side, price, qty)
  BY <1>1, <1>3 DEF Submit, Book!Submit, TheBook
<1> QED
  BY <1>4, <1>5, SameVocabulary DEF Book!Next

\* A refused order, and a cancel that finds nothing.
LEMMA QuietBook ==
  ASSUME IInv, NEW id \in Ids,
         \/ \E price \in Prices, qty \in Quantities : Refuse(id, price, qty)
         \/ CancelMissing(id)
  PROVE  Book!Next
<1>1. TheBook' = TheBook
  BY BookUnchanged DEF Refuse, CancelMissing, book
<1>2. ASSUME NEW price \in Prices, NEW qty \in Quantities, Refuse(id, price, qty)
      PROVE  Book!Next
  <2>1. PICK why : why = Refusal(id, price, qty)
    OBVIOUS
  <2>2. why \in Rejections /\ (why = "DuplicateId" => id_to_idx[id] # Nil)
    BY <1>2, <2>1 DEF Refuse, Refusal, Rejections
  <2>3. why = "DuplicateId" => Book!IsLive(id)
    BY <2>2, LiveIsMapped
  <2>4. Book!Reject(id, why)
    BY <1>1, <1>2, <2>1, <2>3 DEF Refuse, Book!Reject, TheBook
  <2> QED
    BY <2>2, <2>4, SameVocabulary DEF Book!Next
<1>3. ASSUME CancelMissing(id)
      PROVE  Book!Next
  <2>1. ~Book!IsLive(id)
    BY <1>3, LiveIsMapped DEF CancelMissing
  <2>2. Book!CancelMissing(id)
    BY <1>1, <1>3, <2>1 DEF CancelMissing, Book!CancelMissing, TheBook
  <2> QED
    BY <2>2 DEF Book!Next
<1> QED
  BY <1>2, <1>3

\* A trade at the front of the best level is the book's trade.
LEMMA FillBook ==
  ASSUME IInv, Fill
  PROVE  Book!Fill
<1>1. PICK s, k, q, idx, maker, n : FillEffect(s, k, q, idx, maker, n)
  BY FillFacts
<1>2. /\ s = Opposite(call.side) /\ k = BestSlot(s) /\ q = Orders(pool, ladder, s, k)
      /\ maker = pool.slots[idx] /\ n = IF maker.qty <= call.qty THEN maker.qty ELSE call.qty
      /\ call \in Calls /\ s \in Sides /\ k \in PriceSlots
      /\ Level(pool.slots, ladder[s][k], q, s, k)
      /\ 1 \in 1 .. Len(q) /\ Len(q) # 0 /\ idx = q[1]
      /\ maker.price = index_to_price(k)
      /\ executed_trades' = Append(executed_trades,
           [maker_id |-> maker.id, taker_id |-> call.id, price |-> maker.price, qty |-> n])
      /\ call' = [call EXCEPT !.qty = call.qty - n]
  BY <1>1 DEF FillEffect
<1>3. call # Nil /\ Matches /\ reply' = reply /\ Layout(pool, ladder)
  BY DEF Fill, IInv, Store
<1>4. PICK a, p : a = At(pool, ladder, s, k) /\ p = index_to_price(k)
  OBVIOUS
<1>5. p \in LadderPrices /\ price_to_index(p) = k
  BY <1>2, <1>4, PriceOfSlot
<1>6. TheBook[s][p] = a
  BY <1>2, <1>4, <1>5, BookAt
<1>7. a \in Seq(RestingOrders) /\ Len(a) # 0 /\ a[1] = IdQty(maker)
  <2>1. IsQueueOf(pool, q, QueueOf(pool, q))
    BY <1>2, QueueProperties
  <2>2. IsQueueOf(pool, q, a)
    BY <1>2, <1>4, <2>1 DEF At
  <2> QED
    BY <1>2, <2>2 DEF IsQueueOf
<1>8. Head(a) = [id |-> maker.id, qty |-> maker.qty] /\ RemoveAt(a, 1) = Tail(a)
  BY <1>7, QueueFront DEF IdQty
<1>9. Book!TradeQty(Head(a)) = n
  BY <1>2, <1>8 DEF Book!TradeQty
<1>10. QueueBecomes(pool, ladder, pool', ladder', s, k, Book!AfterFill(a, n))
  <2>1. CASE n = maker.qty
    <3>1. Released(pool, ladder, pool', ladder', s, k, 1, idx)
      BY <1>1, <2>1 DEF FillEffect
    <3>2. 1 \in 1 .. Len(Orders(pool, ladder, s, k))
      BY <1>2
    <3>3. QueueBecomes(pool, ladder, pool', ladder', s, k, RemoveAt(At(pool, ladder, s, k), 1))
      BY <1>2, <1>3, <3>1, <3>2, ReleasedQueues
    <3>4. Book!AfterFill(a, n) = RemoveAt(At(pool, ladder, s, k), 1)
      BY <1>4, <1>8, <2>1 DEF Book!AfterFill
    <3> QED
      BY <3>3, <3>4
  <2>2. CASE n # maker.qty
    <3>1. Shrunk(pool, ladder, pool', ladder', s, k, idx, n)
      BY <1>1, <2>2 DEF FillEffect
    <3>2. Len(Orders(pool, ladder, s, k)) # 0 /\ idx = Orders(pool, ladder, s, k)[1]
      BY <1>2
    <3>3. QueueBecomes(pool, ladder, pool', ladder', s, k,
                       [At(pool, ladder, s, k) EXCEPT ![1].qty = @ - n])
      BY <1>2, <1>3, <3>1, <3>2, ShrunkQueues
    <3>4. Book!AfterFill(a, n) = [At(pool, ladder, s, k) EXCEPT ![1].qty = @ - n]
      BY <1>4, <1>8, <2>2 DEF Book!AfterFill
    <3> QED
      BY <3>3, <3>4
  <2> QED
    BY <2>1, <2>2
<1>11. PICK c : c = Book!AfterFill(a, n) /\ TheBook' = [TheBook EXCEPT ![s][p] = c]
  <2>1. PICK c : c = Book!AfterFill(a, n)
    OBVIOUS
  <2>2. QueueBecomes(pool, ladder, pool', ladder', s, k, c)
    BY <1>10, <2>1
  <2>3. BookTakes(s, k, c)
    BY <1>2, <2>2, BookPlaces
  <2> QED
    BY <1>4, <2>1, <2>3 DEF BookTakes
<1>12. Book!MatchesAt(p)
  BY <1>2, <1>3, <1>4, <1>5, MatchesIsMatch
<1>13. Book!Opposite(call.side) = s
  BY <1>2, SameVocabulary
<1>14. PICK b, m2, n2 : /\ b = TheBook /\ m2 = Head(b[Book!Opposite(call.side)][p])
                        /\ n2 = Book!TradeQty(m2)
  OBVIOUS
<1>15. m2 = [id |-> maker.id, qty |-> maker.qty] /\ n2 = n /\ b[s][p] = a
  BY <1>6, <1>8, <1>9, <1>13, <1>14
<1>16. /\ executed_trades' = Append(executed_trades,
            [maker_id |-> m2.id, taker_id |-> call.id, price |-> p, qty |-> n2])
       /\ call' = [call EXCEPT !.qty = @ - n2]
       /\ TheBook' = [b EXCEPT ![Book!Opposite(call.side)][p] = Book!AfterFill(@, n2)]
  <2>1. executed_trades' = Append(executed_trades,
            [maker_id |-> m2.id, taker_id |-> call.id, price |-> p, qty |-> n2])
    BY <1>2, <1>4, <1>15
  <2>2. call' = [call EXCEPT !.qty = @ - n2]
    BY <1>2, <1>15
  <2>3. b[s][p] = a /\ TheBook' = [b EXCEPT ![s][p] = c] /\ c = Book!AfterFill(a, n2)
    BY <1>11, <1>14, <1>15
  <2>4. TheBook' = [b EXCEPT ![s][p] = Book!AfterFill(b[s][p], n2)]
    BY <2>3
  <2> QED
    BY <1>13, <2>1, <2>2, <2>4
<1>17. executed_trades' = Append(executed_trades,
         [maker_id |-> Head(TheBook[Book!Opposite(call.side)][p]).id,
          taker_id |-> call.id, price |-> p,
          qty |-> Book!TradeQty(Head(TheBook[Book!Opposite(call.side)][p]))])
  BY <1>14, <1>16
<1>18. TheBook' = [TheBook EXCEPT ![Book!Opposite(call.side)][p] =
         Book!AfterFill(@, Book!TradeQty(Head(TheBook[Book!Opposite(call.side)][p])))]
  BY <1>14, <1>16
<1>19. call' = [call EXCEPT
         !.qty = @ - Book!TradeQty(Head(TheBook[Book!Opposite(call.side)][p]))]
  BY <1>14, <1>16
<1> QED
  BY <1>3, <1>5, <1>12, <1>17, <1>18, <1>19, Zenon DEF Book!Fill, TheBook

\* submit returns when the book has nothing left to match, and what is left of
\* the order rests behind its queue.
LEMMA FinishBook ==
  ASSUME IInv, Finish
  PROVE  Book!Finish
<1>1. call # Nil /\ call' = Nil /\ reply' = "Success" /\ executed_trades' = executed_trades
  BY DEF Finish
<1>2. \A p \in LadderPrices : ~Book!MatchesAt(p)
  BY <1>1, MatchesIsMatch DEF Finish
<1>3. TheBook' = IF call.qty > 0
                   THEN [TheBook EXCEPT ![call.side][call.price] =
                           Append(@, [id |-> call.id, qty |-> call.qty])]
                   ELSE TheBook
  <2>1. CASE call.qty > 0
    <3>1. add_resting_order
      BY <2>1 DEF Finish
    <3>2. PICK s, k, o : RestEffect(s, k, o)
      BY <1>1, <2>1, <3>1, RestFacts
    <3>3. /\ s = call.side /\ s \in Sides /\ k \in PriceSlots /\ index_to_price(k) = call.price
          /\ o.id = call.id /\ o.qty = call.qty
          /\ Taken(pool, ladder, pool', ladder', s, k, o, allocated(pool))
      BY <3>2 DEF RestEffect
    <3>4. QueueBecomes(pool, ladder, pool', ladder', s, k,
                       Append(At(pool, ladder, s, k), IdQty(o)))
      BY <3>3, TakenQueues DEF IInv, Store
    <3>5. PICK a, p, e : a = At(pool, ladder, s, k) /\ p = index_to_price(k) /\ e = IdQty(o)
      OBVIOUS
    <3>6. TheBook' = [TheBook EXCEPT ![s][p] = Append(a, e)]
      <4>1. PICK c : c = Append(At(pool, ladder, s, k), IdQty(o))
        OBVIOUS
      <4>2. QueueBecomes(pool, ladder, pool', ladder', s, k, c)
        BY <3>4, <4>1
      <4>3. BookTakes(s, k, c)
        BY <3>3, <4>2, BookPlaces
      <4> QED
        BY <3>5, <4>1, <4>3 DEF BookTakes
    <3>7. TheBook[s][p] = a
      BY <3>3, <3>5, PriceOfSlot, BookAt
    <3>8. e = [id |-> call.id, qty |-> call.qty]
      BY <3>3, <3>5 DEF IdQty
    <3> QED
      BY <2>1, <3>3, <3>5, <3>6, <3>7, <3>8
  <2>2. CASE ~(call.qty > 0)
    <3>1. TheBook' = TheBook
      BY <2>2, BookUnchanged DEF Finish, book
    <3> QED
      BY <2>2, <3>1
  <2> QED
    BY <2>1, <2>2
<1>4. TheBook' = Book!Rested
  BY <1>3 DEF Book!Rested, TheBook
<1> QED
  BY <1>1, <1>2, <1>4 DEF Book!Finish, TheBook

\* A cancelled order leaves its queue, wherever in it the order stood.
LEMMA CancelBook ==
  ASSUME IInv, NEW id \in Ids, CancelOrder(id)
  PROVE  Book!Cancel(id)
<1>1. PICK s, k, m, idx : CancelEffect(id, s, k, m, idx)
  BY CancelFacts
<1>2. /\ idx = id_to_idx[id] /\ s \in Sides /\ k \in PriceSlots
      /\ m \in 1 .. Len(Orders(pool, ladder, s, k)) /\ Orders(pool, ladder, s, k)[m] = idx
      /\ Released(pool, ladder, pool', ladder', s, k, m, idx)
  BY <1>1 DEF CancelEffect
<1>3. Layout(pool, ladder) /\ pool.slots[idx].id = id
  BY <1>2 DEF IInv, Store, IdsMatch, CancelOrder
<1>4. PICK a, p, q : a = At(pool, ladder, s, k) /\ p = index_to_price(k) /\ q = Orders(pool, ladder, s, k)
  OBVIOUS
<1>5. p \in LadderPrices /\ TheBook[s][p] = a
  BY <1>2, <1>4, PriceOfSlot, BookAt
<1>6. m \in DOMAIN a /\ a[m].id = id
  <2>1. Level(pool.slots, ladder[s][k], q, s, k)
    BY <1>2, <1>3, <1>4 DEF Layout
  <2>2. IsQueueOf(pool, q, QueueOf(pool, q))
    BY <2>1, QueueProperties
  <2>3. IsQueueOf(pool, q, a)
    BY <1>4, <2>2 DEF At
  <2> QED
    BY <1>2, <1>3, <1>4, <2>3 DEF IsQueueOf, IdQty
<1>7. QueueBecomes(pool, ladder, pool', ladder', s, k, RemoveAt(At(pool, ladder, s, k), m))
  BY <1>2, <1>3, ReleasedQueues
<1>8. TheBook' = [TheBook EXCEPT ![s][p] = RemoveAt(a, m)]
  <2>1. PICK c : c = RemoveAt(At(pool, ladder, s, k), m)
    OBVIOUS
  <2>2. QueueBecomes(pool, ladder, pool', ladder', s, k, c)
    BY <1>7, <2>1
  <2>3. BookTakes(s, k, c)
    BY <1>2, <2>2, BookPlaces
  <2> QED
    BY <1>4, <2>1, <2>3 DEF BookTakes
<1>9. TheBook' = [TheBook EXCEPT ![s][p] = Book!RemoveAt(@, m)]
  BY <1>5, <1>8, SameVocabulary
<1>10. call = Nil /\ call' = call /\ reply' = "Cancelled" /\ executed_trades' = <<>>
  BY DEF CancelOrder
<1>11. \E s2 \in Book!Sides, p2 \in LadderPrices : \E i \in DOMAIN TheBook[s2][p2] :
         /\ TheBook[s2][p2][i].id = id
         /\ TheBook' = [TheBook EXCEPT ![s2][p2] = Book!RemoveAt(@, i)]
  BY <1>2, <1>5, <1>6, <1>9, SameVocabulary
<1> QED
  BY <1>10, <1>11 DEF Book!Cancel, TheBook

LEMMA BookStep == IInv /\ [Next]_vars => [Book!Next]_(Book!vars)
<1> SUFFICES ASSUME IInv, [Next]_vars
             PROVE  [Book!Next]_(Book!vars)
  OBVIOUS
<1>1. CASE \E id \in Ids, side \in Sides, price \in Prices, qty \in Quantities :
             Submit(id, side, price, qty)
  BY <1>1, SubmitBook
<1>2. CASE \E id \in Ids, price \in Prices, qty \in Quantities : Refuse(id, price, qty)
  BY <1>2, QuietBook
<1>3. CASE Fill
  BY <1>3, FillBook DEF Book!Next
<1>4. CASE Finish
  BY <1>4, FinishBook DEF Book!Next
<1>5. ASSUME NEW id \in Ids, CancelOrder(id)
      PROVE  Book!Next
  BY <1>5, CancelBook DEF Book!Next
<1>6. CASE \E id \in Ids : CancelMissing(id)
  BY <1>6, QuietBook
<1>7. CASE UNCHANGED vars
  <2>1. TheBook' = TheBook
    BY <1>7, BookUnchanged DEF vars
  <2> QED
    BY <1>7, <2>1 DEF vars, Book!vars, TheBook
<1> QED
  BY <1>1, <1>2, <1>3, <1>4, <1>5, <1>6, <1>7 DEF Next

\* The ladder engine implements the book: through links, bitmaps and reused slots
\* it matches by price, then by time, at the maker's price, rests what is left and
\* cancels what it is told, for every ladder, capacity and set of ids.
THEOREM ImplementsBookAlways == Spec => ImplementsBook
<1>1. Init => Book!Init
  BY InitBook
<1>2. IInv /\ [Next]_vars => [Book!Next]_(Book!vars)
  BY BookStep
<1> QED
  BY <1>1, <1>2, InvAlways, PTL DEF Spec, ImplementsBook, Book!Spec

-----------------------------------------------------------------------------
(* The same steps in the words of CommonProofs: rounds of one book.        *)

LEMMA BookIsBook == IsBook(LadderPrices, TheBook)
BY DEF IsBook, TheBook

\* The book's condition for a match is that of a round.
LEMMA MatchIsRound ==
  ASSUME NEW p
  PROVE  Book!MatchesAt(p) <=> MatchesIn(LadderPrices, TheBook, call, p)
<1>1. PICK b, k : b = TheBook /\ k = call
  OBVIOUS
<1>2. \A s, q : q \in Book!Live(s) <=> q \in LadderPrices /\ b[s][q] # <<>>
  BY <1>1 DEF Book!Live, TheBook
<1>3. \A s : Book!IsBest(s, p) <=> BestIn(LadderPrices, b, s, p)
  BY <1>2, SameVocabulary DEF Book!IsBest, BestIn
<1>4. \A s, l : Book!Crosses(s, l, p) <=> IF s = Bid THEN p <= l ELSE p >= l
  BY SameVocabulary DEF Book!Crosses
<1>5. Book!MatchesAt(p) <=>
        /\ k.qty > 0 /\ Book!IsBest(Book!Opposite(k.side), p)
        /\ Book!Crosses(k.side, k.price, p)
  BY <1>1 DEF Book!MatchesAt
<1> QED
  BY <1>1, <1>3, <1>4, <1>5, SameVocabulary DEF MatchesIn, Reaches

\* A step of the loop is a round.
LEMMA FillRound ==
  ASSUME IInv, Fill
  PROVE  \E r : /\ Round(LadderPrices, TheBook, call, TheBook', call', r)
                /\ executed_trades' = Append(executed_trades, r)
<1>1. Book!Fill
  BY FillBook
<1>2. PICK b, k, b2, k2, t, t2 :
        /\ b = TheBook /\ k = call /\ t = executed_trades
        /\ b2 = TheBook' /\ k2 = call' /\ t2 = executed_trades'
  OBVIOUS
<1>3. \E p \in LadderPrices :
        LET s == Book!Opposite(call.side)
            n == Book!TradeQty(Head(TheBook[s][p]))
        IN  /\ Book!MatchesAt(p)
            /\ executed_trades' = Append(executed_trades,
                 [maker_id |-> Head(TheBook[s][p]).id, taker_id |-> call.id, price |-> p,
                  qty |-> n])
            /\ TheBook' = [TheBook EXCEPT ![s][p] = Book!AfterFill(TheBook[s][p], n)]
            /\ call' = [call EXCEPT !.qty = call.qty - n]
  BY <1>1, Zenon DEF Book!Fill, TheBook
<1>4. PICK p \in LadderPrices :
        LET s == Book!Opposite(k.side)
            n == Book!TradeQty(Head(b[s][p]))
        IN  /\ Book!MatchesAt(p)
            /\ t2 = Append(t, [maker_id |-> Head(b[s][p]).id, taker_id |-> k.id, price |-> p,
                               qty |-> n])
            /\ b2 = [b EXCEPT ![s][p] = Book!AfterFill(b[s][p], n)]
            /\ k2 = [k EXCEPT !.qty = k.qty - n]
  BY <1>2, <1>3
<1>5. \A m : Book!TradeQty(m) = IF m.qty <= k.qty THEN m.qty ELSE k.qty
  BY <1>2, Zenon DEF Book!TradeQty
<1>6. PICK s, n : s = Opposite(k.side) /\ n = Lot(b[s][p], k)
  OBVIOUS
<1>7. s = Book!Opposite(k.side) /\ n = Book!TradeQty(Head(b[s][p]))
  BY <1>5, <1>6, SameVocabulary DEF Lot
<1>8. /\ Book!MatchesAt(p)
      /\ t2 = Append(t, [maker_id |-> Head(b[s][p]).id, taker_id |-> k.id, price |-> p, qty |-> n])
      /\ b2 = [b EXCEPT ![s][p] = Book!AfterFill(b[s][p], n)]
      /\ k2 = [k EXCEPT !.qty = k.qty - n]
  BY <1>4, <1>7
<1>9. MatchesIn(LadderPrices, b, k, p)
  BY <1>2, <1>8, MatchIsRound
<1>10. t2 = Append(t, TradeAt(b, k, p))
  BY <1>6, <1>8 DEF TradeAt
<1>11. RoundAt(b, k, b2, k2, TradeAt(b, k, p), p)
  <2>1. b2 = BookAfter(b, k, p)
    BY <1>6, <1>8 DEF BookAfter, Put, QueueAfter, Book!AfterFill
  <2>2. k2 = TakerAfter(b, k, p)
    BY <1>6, <1>8 DEF TakerAfter
  <2> QED
    BY <2>1, <2>2 DEF RoundAt
<1>12. Round(LadderPrices, b, k, b2, k2, TradeAt(b, k, p))
  BY <1>9, <1>11 DEF Round
<1> QED
  BY <1>2, <1>10, <1>12

\* When the loop ends no round is possible, and what is left comes to rest.
LEMMA FinishSettles ==
  ASSUME IInv, Finish
  PROVE  /\ Stuck(LadderPrices, TheBook, call) /\ TheBook' = Settled(TheBook, call)
         /\ call.side \in Sides /\ call.price \in LadderPrices
<1>1. Book!Finish
  BY FinishBook
<1>2. PICK b, k, b2 : b = TheBook /\ k = call /\ b2 = TheBook'
  OBVIOUS
<1>3. /\ \A p \in LadderPrices : ~Book!MatchesAt(p)
      /\ TheBook' =
           IF call.qty > 0
             THEN [TheBook EXCEPT ![call.side][call.price] =
                     Append(TheBook[call.side][call.price], [id |-> call.id, qty |-> call.qty])]
             ELSE TheBook
  BY <1>1, Zenon DEF Book!Finish, Book!Rested, TheBook
<1>4. b2 = Settled(b, k)
  BY <1>2, <1>3 DEF Settled, Put
<1>5. Stuck(LadderPrices, b, k)
  BY <1>2, <1>3, MatchIsRound DEF Stuck
<1>6. k.side \in Sides /\ k.price \in LadderPrices
  BY <1>2 DEF IInv, Finish, Calls
<1> QED
  BY <1>2, <1>4, <1>5, <1>6

\* The index knows the ids that rest.
LEMMA RestingIsKnown ==
  ASSUME IInv, NEW id \in Ids
  PROVE  id_to_idx[id] # Nil <=> RestsIn(LadderPrices, TheBook, id)
<1>1. Book!IsLive(id) <=> id_to_idx[id] # Nil
  BY LiveIsMapped
<1>2. Book!IsLive(id) <=> \E s \in Sides : \E p \in LadderPrices :
        \E i \in DOMAIN TheBook[s][p] : TheBook[s][p][i].id = id
  BY SameVocabulary DEF Book!IsLive, TheBook
<1> QED
  BY <1>1, <1>2 DEF RestsIn

\* A cancel takes one order of that id out of the book.
LEMMA CancelLeaves ==
  ASSUME IInv, NEW id \in Ids, CancelOrder(id)
  PROVE  Leaves(LadderPrices, TheBook, id, TheBook')
<1>1. Book!Cancel(id)
  BY CancelBook
<1>2. PICK s \in Book!Sides, p \in LadderPrices : \E i \in DOMAIN TheBook[s][p] :
        /\ TheBook[s][p][i].id = id
        /\ TheBook' = [TheBook EXCEPT ![s][p] = Book!RemoveAt(TheBook[s][p], i)]
  BY <1>1, Zenon DEF Book!Cancel, TheBook
<1>3. PICK i \in DOMAIN TheBook[s][p] :
        /\ TheBook[s][p][i].id = id
        /\ TheBook' = [TheBook EXCEPT ![s][p] = Book!RemoveAt(TheBook[s][p], i)]
  BY <1>2
<1>4. PICK b, b2 : b = TheBook /\ b2 = TheBook'
  OBVIOUS
<1>5. /\ i \in DOMAIN b[s][p] /\ b[s][p][i].id = id
      /\ b2 = [b EXCEPT ![s][p] = Book!RemoveAt(b[s][p], i)]
  BY <1>3, <1>4
<1>6. s \in Sides /\ b2 = Put(b, s, p, RemoveAt(b[s][p], i))
  BY <1>5, SameVocabulary DEF Put
<1>7. Leaves(LadderPrices, b, id, b2)
  BY <1>5, <1>6 DEF Leaves
<1> QED
  BY <1>4, <1>7

=============================================================================
