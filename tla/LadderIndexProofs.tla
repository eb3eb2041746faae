------------------------- MODULE LadderIndexProofs -------------------------
(***************************************************************************)
(* Proofs about the three-level bitmap: for every word size and number of  *)
(* slots, each level says exactly what the level below it holds, and the   *)
(* searches that trust it find the true extremes.                          *)
(***************************************************************************)
EXTENDS LadderIndex, CommonProofs

-----------------------------------------------------------------------------
(* Words and bits.                                                         *)

\* A bit has one place: its word and its position in it.
LEMMA PlaceOf ==
  ASSUME NEW i \in Nat
  PROVE  /\ WordOf(i) \in Nat /\ BitOf(i) \in 0 .. WordBits - 1
         /\ i = WordOf(i) * WordBits + BitOf(i)
BY WordBitsAssumption DEF WordOf, BitOf

LEMMA OnePosition ==
  ASSUME NEW w \in Nat, NEW b \in 0 .. WordBits - 1
  PROVE  /\ w * WordBits + b \in Nat
         /\ WordOf(w * WordBits + b) = w /\ BitOf(w * WordBits + b) = b
BY WordBitsAssumption DEF WordOf, BitOf

\* Words stand in the order of their bits.
LEMMA WordsInOrder ==
  ASSUME NEW i \in Nat, NEW j \in Nat, i <= j
  PROVE  WordOf(i) <= WordOf(j)
BY WordBitsAssumption DEF WordOf

\* There are words enough for the bits, and no more.
LEMMA WordsSuffice ==
  ASSUME NEW n \in Nat \ {0}
  PROVE  /\ WordCount(n) \in Nat \ {0}
         /\ \A i \in 0 .. n - 1 : WordOf(i) \in 0 .. WordCount(n) - 1
BY WordBitsAssumption DEF WordOf, WordCount

\* The numbers of the bits, or words, of a level that has n of them.
Numbers(n) == 0 .. n - 1

\* A level of n bits takes size words, which the level above has bits for.
Layer(n, size) == n \in Nat \ {0} /\ size \in Nat \ {0} /\ size = WordCount(n)

\* The three levels of the bitmap stand one on another.
LEMMA Layers ==
  /\ Layer(NumSlots, L3Size) /\ Layer(L3Size, L2Size) /\ Layer(L2Size, L1Size)
  /\ SlotIndices = Numbers(NumSlots)
BY NumSlotsAssumption, WordBitsAssumption, WordsSuffice
DEF L3Size, L2Size, L1Size, Layer, Numbers, SlotIndices

-----------------------------------------------------------------------------
(* One level of the bitmap: below is the set of what it has bits for.      *)

Summary(size, below) ==
  [w \in 0 .. size - 1 |-> {b \in 0 .. WordBits - 1 : w * WordBits + b \in below}]

\* The words below, which the level above has bits for.
Parents(below) == {WordOf(i) : i \in below}

LEMMA BitmapIsSummaries ==
  ASSUME NEW S
  PROVE  BitmapOf(S) = [l3 |-> Summary(L3Size, S), l2 |-> Summary(L2Size, Parents(S)),
                        l1 |-> Summary(L1Size, Parents(Parents(S)))]
BY DEF BitmapOf, Summary, Parents

LEMMA ParentsInRange ==
  ASSUME NEW n, NEW size, Layer(n, size), NEW S \in SUBSET Numbers(n)
  PROVE  Parents(S) \in SUBSET Numbers(size) /\ \A i \in S : WordOf(i) \in Parents(S)
BY WordsSuffice DEF Parents, Layer, Numbers

LEMMA WordInRange ==
  ASSUME NEW n, NEW size, Layer(n, size), NEW i \in Numbers(n)
  PROVE  WordOf(i) \in Numbers(size)
BY WordsSuffice DEF Layer, Numbers

LEMMA ParentsAdd ==
  ASSUME NEW S, NEW i
  PROVE  Parents(S \cup {i}) = Parents(S) \cup {WordOf(i)}
BY DEF Parents

\* A word of a level is not zero exactly when something is under it.
LEMMA WordIsZero ==
  ASSUME NEW n, NEW size, Layer(n, size), NEW S \in SUBSET Numbers(n),
         NEW w \in Numbers(size)
  PROVE  Summary(size, S)[w] = {} <=> w \notin Parents(S)
<1>1. w \in Nat /\ S \in SUBSET Nat
  BY DEF Layer, Numbers
<1>2. Summary(size, S)[w] = {b \in 0 .. WordBits - 1 : w * WordBits + b \in S}
  BY DEF Summary, Numbers
<1>3. ASSUME NEW b \in 0 .. WordBits - 1, w * WordBits + b \in S
      PROVE  w \in Parents(S)
  <2>1. WordOf(w * WordBits + b) = w
    BY <1>1, OnePosition
  <2> QED
    BY <1>3, <2>1 DEF Parents
<1>4. ASSUME w \in Parents(S)
      PROVE  \E b \in 0 .. WordBits - 1 : w * WordBits + b \in S
  <2>1. PICK i \in S : w = WordOf(i)
    BY <1>4 DEF Parents
  <2>2. BitOf(i) \in 0 .. WordBits - 1 /\ i = w * WordBits + BitOf(i)
    BY <1>1, <2>1, PlaceOf
  <2> QED
    BY <2>2
<1> QED
  BY <1>2, <1>3, <1>4

\* Setting and clearing a bit adds to what is below, and takes from it.
LEMMA BitSetAndCleared ==
  ASSUME NEW n, NEW size, Layer(n, size), NEW S \in SUBSET Numbers(n), NEW i \in Numbers(n),
         NEW T
  PROVE  /\ T = S \cup {i} => SetBit(Summary(size, S), i) = Summary(size, T)
         /\ T = S \ {i} => ClearBit(Summary(size, S), i) = Summary(size, T)
<1>1. PICK v, c : v = WordOf(i) /\ c = BitOf(i)
  OBVIOUS
<1>2. /\ size \in Nat \ {0} /\ v \in 0 .. size - 1 /\ c \in 0 .. WordBits - 1
      /\ i = v * WordBits + c
  BY <1>1, WordsSuffice, PlaceOf DEF Layer, Numbers
<1>3. \A w \in 0 .. size - 1, b \in 0 .. WordBits - 1 :
        w * WordBits + b = i <=> w = v /\ b = c
  BY <1>1, <1>2, OnePosition
<1>4. \A w \in 0 .. size - 1 : w # v =>
        /\ {b \in 0 .. WordBits - 1 : w * WordBits + b \in S \cup {i}}
             = {b \in 0 .. WordBits - 1 : w * WordBits + b \in S}
        /\ {b \in 0 .. WordBits - 1 : w * WordBits + b \in S \ {i}}
             = {b \in 0 .. WordBits - 1 : w * WordBits + b \in S}
  BY <1>3
<1>5. /\ {b \in 0 .. WordBits - 1 : v * WordBits + b \in S \cup {i}}
           = {b \in 0 .. WordBits - 1 : v * WordBits + b \in S} \cup {c}
      /\ {b \in 0 .. WordBits - 1 : v * WordBits + b \in S \ {i}}
           = {b \in 0 .. WordBits - 1 : v * WordBits + b \in S} \ {c}
  BY <1>2, <1>3
<1>6. SetBit(Summary(size, S), i) = Summary(size, S \cup {i})
  BY <1>1, <1>2, <1>4, <1>5 DEF SetBit, Summary
<1>7. ClearBit(Summary(size, S), i) = Summary(size, S \ {i})
  BY <1>1, <1>2, <1>4, <1>5 DEF ClearBit, Summary
<1> QED
  BY <1>1, <1>6, <1>7

\* The last child of a word leaves with it; before that the word stays.
LEMMA ParentsRemove ==
  ASSUME NEW S, NEW i \in S, NEW T, T = S \ {i}
  PROVE  Parents(T) = IF WordOf(i) \in Parents(T) THEN Parents(S) ELSE Parents(S) \ {WordOf(i)}
BY DEF Parents

-----------------------------------------------------------------------------
(* What the two updates do to the three levels.                            *)

\* Setting the bits of a slot on all levels adds it to what the bitmap shows.
LEMMA SetShows ==
  ASSUME NEW S \in SUBSET SlotIndices, NEW slot \in SlotIndices
  PROVE  set_bit_hierarchical(BitmapOf(S), slot) = BitmapOf(S \cup {slot})
<1>1. PICK S2, S1, w3, w2 : /\ S2 = Parents(S) /\ S1 = Parents(S2)
                            /\ w3 = WordOf(slot) /\ w2 = WordOf(w3)
  OBVIOUS
<1>2. PICK T, T2, T1 : T = S \cup {slot} /\ T2 = S2 \cup {w3} /\ T1 = S1 \cup {w2}
  OBVIOUS
<1>3. /\ S2 = Parents(S) /\ S1 = Parents(S2) /\ w3 = WordOf(slot) /\ w2 = WordOf(w3)
      /\ T = S \cup {slot} /\ T2 = S2 \cup {w3} /\ T1 = S1 \cup {w2}
  BY <1>1, <1>2
<1>4. /\ S \in SUBSET Numbers(NumSlots) /\ S2 \in SUBSET Numbers(L3Size)
      /\ S1 \in SUBSET Numbers(L2Size)
      /\ slot \in Numbers(NumSlots) /\ w3 \in Numbers(L3Size) /\ w2 \in Numbers(L2Size)
  BY <1>3, Layers, ParentsInRange, WordInRange
<1>5. SetBit(Summary(L3Size, S), slot) = Summary(L3Size, T)
  BY <1>3, <1>4, Layers, BitSetAndCleared
<1>6. SetBit(Summary(L2Size, S2), w3) = Summary(L2Size, T2)
  BY <1>3, <1>4, Layers, BitSetAndCleared
<1>7. SetBit(Summary(L1Size, S1), w2) = Summary(L1Size, T1)
  BY <1>3, <1>4, Layers, BitSetAndCleared
<1>8. Parents(T) = T2 /\ Parents(T2) = T1
  BY <1>3, ParentsAdd
<1>9. /\ BitmapOf(S).l3 = Summary(L3Size, S) /\ BitmapOf(S).l2 = Summary(L2Size, S2)
      /\ BitmapOf(S).l1 = Summary(L1Size, S1)
  BY <1>3, BitmapIsSummaries
<1>10. BitmapOf(T) = [l3 |-> Summary(L3Size, T), l2 |-> Summary(L2Size, T2),
                     l1 |-> Summary(L1Size, T1)]
  BY <1>8, BitmapIsSummaries
<1> QED
  BY <1>3, <1>5, <1>6, <1>7, <1>9, <1>10 DEF set_bit_hierarchical

\* Clearing them, one level up only when the word below became zero, takes it
\* out, and nothing else.
LEMMA ClearHides ==
  ASSUME NEW S \in SUBSET SlotIndices, NEW slot \in S
  PROVE  clear_bit_hierarchical(BitmapOf(S), slot) = BitmapOf(S \ {slot})
<1>1. PICK S2, S1, T, T2, w3, w2 : /\ S2 = Parents(S) /\ S1 = Parents(S2)
                                   /\ T = S \ {slot} /\ T2 = Parents(T)
                                   /\ w3 = WordOf(slot) /\ w2 = WordOf(w3)
  OBVIOUS
<1>2. /\ S \in SUBSET Numbers(NumSlots) /\ S2 \in SUBSET Numbers(L3Size)
      /\ S1 \in SUBSET Numbers(L2Size)
      /\ T \in SUBSET Numbers(NumSlots) /\ T2 \in SUBSET Numbers(L3Size)
      /\ slot \in Numbers(NumSlots) /\ w3 \in Numbers(L3Size) /\ w2 \in Numbers(L2Size)
  BY <1>1, Layers, ParentsInRange, WordInRange
<1>3. PICK l3, l2, l1 :
        /\ l3 = ClearBit(BitmapOf(S).l3, slot)
        /\ l2 = IF l3[w3] = {} THEN ClearBit(BitmapOf(S).l2, w3) ELSE BitmapOf(S).l2
        /\ l1 = IF l3[w3] = {} /\ l2[w2] = {} THEN ClearBit(BitmapOf(S).l1, w2)
                ELSE BitmapOf(S).l1
  OBVIOUS
<1>4. clear_bit_hierarchical(BitmapOf(S), slot) = [l1 |-> l1, l2 |-> l2, l3 |-> l3]
  BY <1>1, <1>3 DEF clear_bit_hierarchical
<1>5. /\ BitmapOf(S).l3 = Summary(L3Size, S) /\ BitmapOf(S).l2 = Summary(L2Size, S2)
      /\ BitmapOf(S).l1 = Summary(L1Size, S1)
  BY <1>1, BitmapIsSummaries
<1>6. l3 = Summary(L3Size, T)
  BY <1>1, <1>2, <1>3, <1>5, Layers, BitSetAndCleared
<1>7. l3[w3] = {} <=> w3 \notin T2
  BY <1>1, <1>2, <1>6, Layers, WordIsZero
<1>8. T2 = IF w3 \in T2 THEN S2 ELSE S2 \ {w3}
  BY <1>1, <1>2, Layers, ParentsRemove
<1>9. l2 = Summary(L2Size, T2)
  <2>1. w3 \notin T2 => ClearBit(Summary(L2Size, S2), w3) = Summary(L2Size, T2)
    BY <1>2, <1>8, Layers, BitSetAndCleared
  <2> QED
    BY <1>3, <1>5, <1>7, <1>8, <2>1
<1>10. l2[w2] = {} <=> w2 \notin Parents(T2)
  BY <1>2, <1>9, Layers, WordIsZero
<1>11. l1 = Summary(L1Size, Parents(T2))
  <2>1. CASE w3 \in T2
    <3>1. T2 = S2
      BY <1>8, <2>1
    <3> QED
      BY <1>1, <1>3, <1>5, <1>7, <2>1, <3>1
  <2>2. CASE w3 \notin T2
    <3>1. w3 \in S2
      BY <1>1 DEF Parents
    <3>2. T2 = S2 \ {w3}
      BY <1>8, <2>2
    <3>3. Parents(T2) = IF w2 \in Parents(T2) THEN S1 ELSE S1 \ {w2}
      BY <1>1, <3>1, <3>2 DEF Parents
    <3>4. w2 \notin Parents(T2) => ClearBit(Summary(L1Size, S1), w2) = Summary(L1Size, Parents(T2))
      BY <1>2, <3>3, Layers, BitSetAndCleared
    <3> QED
      BY <1>3, <1>5, <1>7, <1>10, <2>2, <3>3, <3>4
  <2> QED
    BY <2>1, <2>2
<1> QED
  BY <1>1, <1>4, <1>6, <1>9, <1>11, BitmapIsSummaries

-----------------------------------------------------------------------------
(* The searches.                                                           *)

LEMMA MaxIs ==
  ASSUME NEW S \in SUBSET Nat, NEW m \in S, \A y \in S : y <= m
  PROVE  Max(S) = m
<1>1. PICK x : x = Max(S)
  OBVIOUS
<1>2. x \in S /\ \A y \in S : x >= y
  BY <1>1 DEF Max
<1>3. x >= m /\ x <= m /\ x \in Nat /\ m \in Nat
  BY <1>2
<1> QED
  BY <1>1, <1>3

LEMMA MinIs ==
  ASSUME NEW S \in SUBSET Nat, NEW m \in S, \A y \in S : m <= y
  PROVE  Min(S) = m
<1>1. PICK x : x = Min(S)
  OBVIOUS
<1>2. x \in S /\ \A y \in S : x =< y
  BY <1>1 DEF Min
<1>3. x >= m /\ x <= m /\ x \in Nat /\ m \in Nat
  BY <1>2
<1> QED
  BY <1>1, <1>3

\* Finite sets of numbers have their extremes.
LEMMA ExtremesExist ==
  ASSUME NEW n, NEW S \in SUBSET Numbers(n), n \in Nat, S # {}
  PROVE  /\ Max(S) \in S /\ \A y \in S : y <= Max(S)
         /\ Min(S) \in S /\ \A y \in S : Min(S) <= y
<1>1. S \in SUBSET Nat /\ \A y \in S : n - y \in Nat
  BY DEF Numbers
<1>2. PICK a \in S : \A y \in S : a <= y
  BY <1>1, LeastNat
<1>3. PICK D : D = {n - y : y \in S}
  OBVIOUS
<1>4. D \in SUBSET Nat /\ D # {}
  BY <1>1, <1>3
<1>5. PICK d \in D : \A e \in D : d <= e
  BY <1>4, LeastNat
<1>6. PICK z \in S : d = n - z
  BY <1>3, <1>5
<1>7. \A y \in S : y <= z
  <2> SUFFICES ASSUME NEW y \in S
               PROVE  y <= z
    OBVIOUS
  <2>1. n - z <= n - y
    BY <1>3, <1>5, <1>6
  <2> QED
    BY <1>1, <2>1
<1>8. Max(S) = z /\ Min(S) = a
  BY <1>1, <1>2, <1>7, MaxIs, MinIs
<1> QED
  BY <1>2, <1>7, <1>8

LEMMA NonZeroWords ==
  ASSUME NEW n, NEW size, Layer(n, size), NEW S \in SUBSET Numbers(n)
  PROVE  NonZero(Summary(size, S)) = Parents(S)
<1>1. DOMAIN Summary(size, S) = Numbers(size)
  BY DEF Summary, Numbers
<1>2. \A w \in Numbers(size) : Summary(size, S)[w] # {} <=> w \in Parents(S)
  BY WordIsZero
<1>3. Parents(S) \in SUBSET Numbers(size)
  BY ParentsInRange
<1> QED
  BY <1>1, <1>2, <1>3 DEF NonZero

\* The highest bit of the highest word that is not zero is the highest of all.
LEMMA HighestUnder ==
  ASSUME NEW n, NEW size, Layer(n, size), NEW S \in SUBSET Numbers(n), S # {}, NEW v,
         v = Max(Parents(S))
  PROVE  v * WordBits + HighestBit(Summary(size, S)[v]) = Max(S)
<1>1. PICK m : m = Max(S)
  OBVIOUS
<1>2. m \in S /\ (\A y \in S : y <= m) /\ S \in SUBSET Nat
  <2>1. n \in Nat /\ S \in SUBSET Nat
    BY DEF Layer, Numbers
  <2> QED
    BY <1>1, <2>1, ExtremesExist
<1>3. WordOf(m) \in Parents(S) /\ Parents(S) \in SUBSET Nat
  BY <1>2, PlaceOf DEF Parents
<1>4. \A w \in Parents(S) : w <= WordOf(m)
  BY <1>2, WordsInOrder DEF Parents
<1>5. v = WordOf(m) /\ v \in Nat /\ v \in Numbers(size)
  BY <1>3, <1>4, MaxIs, ParentsInRange
<1>6. PICK word, c : word = Summary(size, S)[v] /\ c = BitOf(m)
  OBVIOUS
<1>7. word = {b \in 0 .. WordBits - 1 : v * WordBits + b \in S}
  BY <1>5, <1>6 DEF Summary, Numbers
<1>8. m = v * WordBits + c /\ c \in 0 .. WordBits - 1
  BY <1>2, <1>5, <1>6, PlaceOf
<1>9. c \in word /\ word \in SUBSET Nat
  BY <1>2, <1>7, <1>8
<1>10. \A b \in word : b <= c
  <2> SUFFICES ASSUME NEW b \in word
               PROVE  b <= c
    OBVIOUS
  <2>1. v * WordBits + b <= v * WordBits + c
    BY <1>2, <1>7, <1>8
  <2>2. v * WordBits \in Nat
    BY <1>5, WordBitsAssumption
  <2> QED
    BY <1>7, <1>8, <2>1, <2>2
<1>11. HighestBit(word) = c
  BY <1>9, <1>10, MaxIs DEF HighestBit
<1> QED
  BY <1>1, <1>6, <1>8, <1>11

\* And the lowest of the lowest.
LEMMA LowestUnder ==
  ASSUME NEW n, NEW size, Layer(n, size), NEW S \in SUBSET Numbers(n), S # {}, NEW v,
         v = Min(Parents(S))
  PROVE  v * WordBits + LowestBit(Summary(size, S)[v]) = Min(S)
<1>1. PICK m : m = Min(S)
  OBVIOUS
<1>2. m \in S /\ (\A y \in S : m <= y) /\ S \in SUBSET Nat
  <2>1. n \in Nat /\ S \in SUBSET Nat
    BY DEF Layer, Numbers
  <2> QED
    BY <1>1, <2>1, ExtremesExist
<1>3. WordOf(m) \in Parents(S) /\ Parents(S) \in SUBSET Nat
  BY <1>2, PlaceOf DEF Parents
<1>4. \A w \in Parents(S) : WordOf(m) <= w
  BY <1>2, WordsInOrder DEF Parents
<1>5. v = WordOf(m) /\ v \in Nat /\ v \in Numbers(size)
  BY <1>3, <1>4, MinIs, ParentsInRange
<1>6. PICK word, c : word = Summary(size, S)[v] /\ c = BitOf(m)
  OBVIOUS
<1>7. word = {b \in 0 .. WordBits - 1 : v * WordBits + b \in S}
  BY <1>5, <1>6 DEF Summary, Numbers
<1>8. m = v * WordBits + c /\ c \in 0 .. WordBits - 1
  BY <1>2, <1>5, <1>6, PlaceOf
<1>9. c \in word /\ word \in SUBSET Nat
  BY <1>2, <1>7, <1>8
<1>10. \A b \in word : c <= b
  <2> SUFFICES ASSUME NEW b \in word
               PROVE  c <= b
    OBVIOUS
  <2>1. v * WordBits + c <= v * WordBits + b
    BY <1>2, <1>7, <1>8
  <2>2. v * WordBits \in Nat
    BY <1>5, WordBitsAssumption
  <2> QED
    BY <1>7, <1>8, <2>1, <2>2
<1>11. LowestBit(word) = c
  BY <1>9, <1>10, MinIs DEF LowestBit
<1> QED
  BY <1>1, <1>6, <1>8, <1>11

\* What the two searches answer on a bitmap that shows a set of slots.
LEMMA SearchFinds ==
  ASSUME NEW S \in SUBSET SlotIndices
  PROVE  /\ find_best_bid_idx(BitmapOf(S)) = IF S = {} THEN NoSlot ELSE Max(S)
         /\ find_best_ask_idx(BitmapOf(S)) = IF S = {} THEN NoSlot ELSE Min(S)
<1>1. PICK S2, S1 : S2 = Parents(S) /\ S1 = Parents(S2)
  OBVIOUS
<1>2. /\ S \in SUBSET Numbers(NumSlots) /\ S2 \in SUBSET Numbers(L3Size)
      /\ S1 \in SUBSET Numbers(L2Size)
  BY <1>1, Layers, ParentsInRange
<1>3. PICK bm : bm = BitmapOf(S)
  OBVIOUS
<1>4. /\ bm.l3 = Summary(L3Size, S) /\ bm.l2 = Summary(L2Size, S2)
      /\ bm.l1 = Summary(L1Size, S1)
  BY <1>1, <1>3, BitmapIsSummaries
<1>5. NonZero(bm.l1) = Parents(S1) /\ NonZero(bm.l2) = S1 /\ NonZero(bm.l3) = S2
  BY <1>1, <1>2, <1>4, Layers, NonZeroWords
<1>6. CASE S = {}
  <2>1. Parents(S1) = {}
    BY <1>1, <1>6 DEF Parents
  <2> QED
    BY <1>3, <1>5, <1>6, <2>1 DEF find_best_bid_idx, find_best_ask_idx
<1>7. CASE S # {}
  <2>1. S2 # {} /\ S1 # {} /\ Parents(S1) # {}
    BY <1>1, <1>7 DEF Parents
  <2>2. find_best_bid_idx(bm) = Max(S)
    <3>1. PICK i : i = Max(Parents(S1))
      OBVIOUS
    <3>2. i * WordBits + HighestBit(bm.l1[i]) = Max(S1)
      BY <1>2, <1>4, <2>1, <3>1, Layers, HighestUnder
    <3>3. Max(S1) * WordBits + HighestBit(bm.l2[Max(S1)]) = Max(S2)
      BY <1>1, <1>2, <1>4, <2>1, Layers, HighestUnder
    <3>4. Max(S2) * WordBits + HighestBit(bm.l3[Max(S2)]) = Max(S)
      BY <1>1, <1>2, <1>4, <1>7, Layers, HighestUnder
    <3> QED
      BY <1>5, <2>1, <3>1, <3>2, <3>3, <3>4 DEF find_best_bid_idx
  <2>3. find_best_ask_idx(bm) = Min(S)
    <3>1. PICK i : i = Min(Parents(S1))
      OBVIOUS
    <3>2. i * WordBits + LowestBit(bm.l1[i]) = Min(S1)
      BY <1>2, <1>4, <2>1, <3>1, Layers, LowestUnder
    <3>3. Min(S1) * WordBits + LowestBit(bm.l2[Min(S1)]) = Min(S2)
      BY <1>1, <1>2, <1>4, <2>1, Layers, LowestUnder
    <3>4. Min(S2) * WordBits + LowestBit(bm.l3[Min(S2)]) = Min(S)
      BY <1>1, <1>2, <1>4, <1>7, Layers, LowestUnder
    <3>5. Min(S1) \in S1 /\ Min(S2) \in S2
      BY <1>2, <2>1, Layers, ExtremesExist DEF Layer
    <3>6. Min(S) \in Nat /\ Min(S) < NumSlots
      <4>1. PICK m : m = Min(S)
        OBVIOUS
      <4>2. m \in S /\ NumSlots \in Nat
        BY <1>2, <1>7, <4>1, NumSlotsAssumption, ExtremesExist
      <4>3. m \in 0 .. NumSlots - 1
        BY <1>2, <4>2 DEF Numbers
      <4> QED
        BY <4>1, <4>2, <4>3
    <3>7. ~(Min(S) >= NumSlots)
      BY <3>6, NumSlotsAssumption
    <3> QED
      BY <1>5, <2>1, <3>1, <3>2, <3>3, <3>4, <3>5, <3>7 DEF find_best_ask_idx
  <2> QED
    BY <1>3, <1>7, <2>2, <2>3
<1> QED
  BY <1>6, <1>7

-----------------------------------------------------------------------------
(* The index as the engine drives it.                                      *)

\* That the bitmap shows the live slots is inductive as it stands.
IInv == live \in SUBSET SlotIndices /\ LevelsAgree

LEMMA InitInv == Init => IInv
<1> SUFFICES ASSUME Init PROVE IInv
  OBVIOUS
<1>1. Parents({}) = {} /\ \A size : Summary(size, {}) = [w \in 0 .. size - 1 |-> {}]
  BY DEF Parents, Summary
<1>2. BitmapOf({}) = EmptyBitmap
  BY <1>1, BitmapIsSummaries DEF EmptyBitmap
<1> QED
  BY <1>2 DEF Init, IInv, LevelsAgree

LEMMA InvStep == IInv /\ [Next]_vars => IInv'
<1> SUFFICES ASSUME IInv, [Next]_vars
             PROVE  IInv'
  OBVIOUS
<1>1. ASSUME NEW slot \in SlotIndices, Occupy(slot)
      PROVE  IInv'
  <2>1. live \in SUBSET SlotIndices /\ bits = BitmapOf(live)
    BY DEF IInv, LevelsAgree
  <2>2. bits' = BitmapOf(live \cup {slot})
    BY <1>1, <2>1, SetShows DEF Occupy
  <2> QED
    BY <1>1, <2>1, <2>2 DEF IInv, LevelsAgree, Occupy
<1>2. ASSUME NEW slot \in SlotIndices, Vacate(slot)
      PROVE  IInv'
  <2>1. live \in SUBSET SlotIndices /\ bits = BitmapOf(live) /\ slot \in live
    BY <1>2 DEF IInv, LevelsAgree, Vacate
  <2>2. bits' = BitmapOf(live \ {slot})
    BY <1>2, <2>1, ClearHides DEF Vacate
  <2> QED
    BY <1>2, <2>1, <2>2 DEF IInv, LevelsAgree, Vacate
<1>3. CASE UNCHANGED vars
  BY <1>3 DEF IInv, LevelsAgree, vars
<1> QED
  BY <1>1, <1>2, <1>3 DEF Next

LEMMA InvAlways == Spec => []IInv
BY InitInv, InvStep, PTL DEF Spec

\* Each level of the bitmap says what the level below it holds, for every word
\* size, every number of slots and every order of pushes and removals.
THEOREM LevelsAgreeAlways == Spec => []LevelsAgree
<1>1. IInv => LevelsAgree
  BY DEF IInv
<1> QED
  BY <1>1, InvAlways, PTL

\* find_best_bid_idx and find_best_ask_idx, which look at one word of each level,
\* find the highest and the lowest live slot of all.
THEOREM FindsBestAlways == Spec => []FindsBest
<1>1. IInv => FindsBest
  BY SearchFinds DEF IInv, LevelsAgree, FindsBest
<1> QED
  BY <1>1, InvAlways, PTL

=============================================================================
