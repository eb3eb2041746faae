---------------------------- MODULE CommonProofs ----------------------------
(***************************************************************************)
(* Lemmas about the operators several modules are built from: the rank of  *)
(* prices, the sequences that hold a level's orders, and the rounds of     *)
(* matching that take a book and an incoming order to the end of a submit. *)
(***************************************************************************)
EXTENDS Common, Sequences, SequencesExt,
        SequenceTheorems, FiniteSetTheorems, WellFoundedInduction, TLAPS

\* A finite set of prices that is not empty has a best one.  (Of the elements
\* take one with the fewest better ones; a better one would have fewer.)
LEMMA BestExists ==
  ASSUME NEW side \in Sides, NEW T \in SUBSET Nat, IsFiniteSet(T), T # {}
  PROVE  \E p \in T : \A q \in T : ~Better(side, q, p)
<1> DEFINE Above(p) == {q \in T : Better(side, q, p)}
           Counts == {Cardinality(Above(p)) : p \in T}
<1>1. \A p \in T : IsFiniteSet(Above(p)) /\ Cardinality(Above(p)) \in Nat
  <2> SUFFICES ASSUME NEW p \in T
               PROVE  IsFiniteSet(Above(p)) /\ Cardinality(Above(p)) \in Nat
    OBVIOUS
  <2>1. Above(p) \in SUBSET T
    OBVIOUS
  <2>2. IsFiniteSet(Above(p))
    BY <2>1, FS_Subset
  <2> QED
    BY <2>2, FS_CardinalityType
<1>2. Counts \subseteq Nat /\ Counts # {}
  BY <1>1
<1>3. PICK m \in Counts : \A k \in Counts : ~(<<k, m>> \in OpToRel(<, Nat))
  <2> HIDE DEF Counts
  <2> QED
    BY <1>2, NatLessThanWellFounded, WFMin
<1>4. PICK p \in T : m = Cardinality(Above(p))
  OBVIOUS
<1>5. ASSUME NEW q \in T, Better(side, q, p)
      PROVE  FALSE
  <2>0. /\ \A r \in T : Better(side, r, q) => Better(side, r, p)
        /\ ~Better(side, q, q)
    <3> HIDE DEF Above, Counts
    <3>1. CASE side = Bid
      BY <1>5, <3>1 DEF Better
    <3>2. CASE side # Bid
      BY <1>5, <3>2 DEF Better
    <3> QED
      BY <3>1, <3>2
  <2>1. Above(q) \in SUBSET Above(p)
    BY <2>0
  <2>2. q \in Above(p) /\ q \notin Above(q)
    BY <1>5, <2>0
  <2>3. Cardinality(Above(q)) < Cardinality(Above(p))
    <3> HIDE DEF Above
    <3>1. /\ Cardinality(Above(q)) <= Cardinality(Above(p))
          /\ Cardinality(Above(p)) = Cardinality(Above(q)) => Above(p) = Above(q)
      BY <1>1, <2>1, FS_Subset
    <3> QED
      BY <1>1, <2>2, <3>1
  <2>4. Cardinality(Above(q)) \in Counts
    OBVIOUS
  <2>5. <<Cardinality(Above(q)), m>> \in OpToRel(<, Nat)
    <3> HIDE DEF Above
    <3> QED
      BY <1>1, <1>4, <2>3 DEF OpToRel
  <2> QED
    BY <1>3, <2>4, <2>5
<1> QED
  BY <1>5

\* Taking the element at k out of a sequence moves the later ones down by one.
LEMMA RemoveAtProperties ==
  ASSUME NEW S, NEW q \in Seq(S), NEW k \in DOMAIN q
  PROVE  /\ RemoveAt(q, k) \in Seq(S) /\ Len(RemoveAt(q, k)) = Len(q) - 1
         /\ DOMAIN RemoveAt(q, k) = 1 .. Len(q) - 1
         /\ \A i \in 1 .. Len(q) - 1 : RemoveAt(q, k)[i] = q[IF i < k THEN i ELSE i + 1]
<1> DEFINE a == SubSeq(q, 1, k - 1)
           b == SubSeq(q, k + 1, Len(q))
           t == a \o b
<1>1. Len(q) \in Nat /\ DOMAIN q = 1 .. Len(q) /\ k \in 1 .. Len(q)
  BY LenProperties
<1>2. \A i \in 1 .. Len(q) : q[i] \in S
  BY ElementOfSeq
<1>3. /\ a \in Seq(S) /\ Len(a) = k - 1
      /\ \A i \in 1 .. k - 1 : a[i] = q[i]
  <2>1. 1 \in Int /\ k - 1 \in Int /\ \A i \in 1 .. k - 1 : q[i] \in S
    BY <1>1, <1>2
  <2> QED
    BY <1>1, <2>1, SubSeqProperties
<1>4. /\ b \in Seq(S) /\ Len(b) = Len(q) - k
      /\ \A i \in 1 .. Len(q) - k : b[i] = q[k + i]
  <2>1. k + 1 \in Int /\ Len(q) \in Int /\ \A i \in k + 1 .. Len(q) : q[i] \in S
    BY <1>1, <1>2
  <2>2. /\ b \in Seq(S)
        /\ Len(b) = IF k + 1 <= Len(q) THEN Len(q) - (k + 1) + 1 ELSE 0
        /\ \A i \in 1 .. Len(q) - (k + 1) + 1 : b[i] = q[(k + 1) + i - 1]
    BY <2>1, SubSeqProperties
  <2> QED
    BY <1>1, <2>2
<1>5. /\ t \in Seq(S) /\ Len(t) = Len(q) - 1 /\ DOMAIN t = 1 .. Len(q) - 1
      /\ \A i \in 1 .. Len(q) - 1 : t[i] = IF i <= k - 1 THEN a[i] ELSE b[i - (k - 1)]
  <2>1. /\ t \in Seq(S) /\ Len(t) = Len(a) + Len(b)
        /\ \A i \in 1 .. Len(a) + Len(b) : t[i] = IF i <= Len(a) THEN a[i] ELSE b[i - Len(a)]
    BY <1>3, <1>4, ConcatProperties
  <2> HIDE DEF a, b, t
  <2>2. Len(t) = Len(q) - 1 /\ DOMAIN t = 1 .. Len(t)
    BY <1>1, <1>3, <1>4, <2>1, LenProperties
  <2> QED
    BY <1>1, <1>3, <1>4, <2>1, <2>2
<1> HIDE DEF a, b, t
<1>6. \A i \in 1 .. Len(q) - 1 : t[i] = q[IF i < k THEN i ELSE i + 1]
  <2> SUFFICES ASSUME NEW i \in 1 .. Len(q) - 1
               PROVE  t[i] = q[IF i < k THEN i ELSE i + 1]
    OBVIOUS
  <2>1. CASE i < k
    BY <1>1, <1>3, <1>5, <2>1
  <2>2. CASE i >= k
    <3>1. /\ t[i] = b[i - (k - 1)] /\ ~(i < k)
          /\ i - (k - 1) \in 1 .. Len(q) - k /\ k + (i - (k - 1)) = i + 1
      BY <1>1, <1>5, <2>2
    <3> QED
      BY <1>4, <3>1
  <2> QED
    BY <1>1, <2>1, <2>2
<1> QED
  BY <1>5, <1>6 DEF RemoveAt, t, a, b

-----------------------------------------------------------------------------
(***************************************************************************)
(* Sums, as running sums: g[i] is the sum of a[1] .. a[i].  Adding to,     *)
(* removing from and lowering a list of quantities shifts its running sum, *)
(* so a total kept beside the list goes on having one.                     *)
(***************************************************************************)
RunningSum(g, a, n) ==
  /\ g \in [0 .. n -> Nat] /\ g[0] = 0
  /\ \A i \in 1 .. n : a[i] \in Nat /\ g[i] = g[i - 1] + a[i]
  /\ \A i, j \in 0 .. n : i <= j => g[i] <= g[j]

\* v is the sum of a[1] .. a[n].
SumsTo(a, n, v) == \E g : RunningSum(g, a, n) /\ v = g[n]

\* Of the natural numbers with some property one is the least.
LEMMA LeastNat ==
  ASSUME NEW T \in SUBSET Nat, T # {}
  PROVE  \E m \in T : \A k \in T : m <= k
<1>1. PICK m \in T : \A k \in T : ~(<<k, m>> \in OpToRel(<, Nat))
  BY NatLessThanWellFounded, WFMin
<1>2. \A k \in T : ~(k < m)
  BY <1>1 DEF OpToRel
<1> QED
  BY <1>2

\* There is one sum, the one that recursion computes.
LEMMA SumUnique ==
  ASSUME NEW n \in Nat, NEW a, NEW v, SumsTo(a, n, v), NEW s,
         \A i \in 0 .. n : s[i] = IF i = 0 THEN 0 ELSE s[i - 1] + a[i]
  PROVE  v = s[n]
<1>1. PICK g : RunningSum(g, a, n) /\ v = g[n]
  BY DEF SumsTo
<1> DEFINE Wrong == {i \in 0 .. n : s[i] # g[i]}
<1>2. Wrong = {}
  <2> SUFFICES ASSUME Wrong # {} PROVE FALSE
    OBVIOUS
  <2>1. PICK m \in Wrong : \A k \in Wrong : m <= k
    <3>1. Wrong \in SUBSET Nat
      OBVIOUS
    <3> HIDE DEF Wrong
    <3> QED
      BY <3>1, LeastNat
  <2>2. m \in 1 .. n
    BY <1>1 DEF RunningSum
  <2>3. s[m - 1] = g[m - 1]
    BY <2>1, <2>2
  <2>4. s[m] = g[m]
    BY <1>1, <2>2, <2>3 DEF RunningSum
  <2> QED
    BY <2>4
<1> QED
  BY <1>1, <1>2

LEMMA SumEmpty == \A a : SumsTo(a, 0, 0)
<1> SUFFICES ASSUME NEW a
             PROVE  SumsTo(a, 0, 0)
  OBVIOUS
<1> DEFINE g == [i \in 0 .. 0 |-> 0]
<1>1. RunningSum(g, a, 0) /\ g[0] = 0
  BY DEF RunningSum
<1> QED
  BY <1>1 DEF SumsTo

LEMMA SumAppend ==
  ASSUME NEW n \in Nat, NEW a, NEW v, SumsTo(a, n, v), NEW b, b[n + 1] \in Nat,
         \A i \in 1 .. n : b[i] = a[i]
  PROVE  v \in Nat /\ SumsTo(b, n + 1, v + b[n + 1])
<1>1. PICK g : RunningSum(g, a, n) /\ v = g[n]
  BY DEF SumsTo
<1>2. g \in [0 .. n -> Nat] /\ v \in Nat
  BY <1>1 DEF RunningSum
<1> DEFINE h == [i \in 0 .. n + 1 |-> IF i <= n THEN g[i] ELSE v + b[n + 1]]
<1>3. h \in [0 .. n + 1 -> Nat] /\ h[0] = 0 /\ h[n + 1] = v + b[n + 1]
  BY <1>1, <1>2 DEF RunningSum
<1>4. \A i \in 1 .. n + 1 : b[i] \in Nat /\ h[i] = h[i - 1] + b[i]
  <2> SUFFICES ASSUME NEW i \in 1 .. n + 1
               PROVE  b[i] \in Nat /\ h[i] = h[i - 1] + b[i]
    OBVIOUS
  <2>1. CASE i = n + 1
    BY <1>1, <1>2, <2>1
  <2>2. CASE i # n + 1
    <3>1. i \in 1 .. n
      BY <2>2
    <3>2. a[i] \in Nat /\ g[i] = g[i - 1] + a[i]
      BY <1>1, <3>1 DEF RunningSum
    <3> QED
      BY <3>1, <3>2
  <2> QED
    BY <2>1, <2>2
<1>5. \A i, j \in 0 .. n + 1 : i <= j => h[i] <= h[j]
  <2>1. \A i \in 0 .. n : g[i] \in Nat /\ g[i] <= v
    BY <1>1, <1>2 DEF RunningSum
  <2> QED
    BY <1>1, <1>2, <2>1 DEF RunningSum
<1> HIDE DEF h
<1> QED
  BY <1>2, <1>3, <1>4, <1>5 DEF RunningSum, SumsTo

\* Without its k-th quantity.
LEMMA SumRemove ==
  ASSUME NEW n \in Nat, NEW a, NEW v, SumsTo(a, n, v), NEW k \in 1 .. n, NEW b,
         \A i \in 1 .. n - 1 : b[i] = a[IF i < k THEN i ELSE i + 1]
  PROVE  a[k] \in Nat /\ v - a[k] \in Nat /\ SumsTo(b, n - 1, v - a[k])
<1>1. PICK g : RunningSum(g, a, n) /\ v = g[n]
  BY DEF SumsTo
<1>2. PICK d : d = a[k]
  OBVIOUS
<1>3. /\ \A i \in 0 .. n : g[i] \in Nat
      /\ g[k] = g[k - 1] + d /\ d \in Nat
  BY <1>1, <1>2 DEF RunningSum
<1>4. \A i \in k .. n : g[k] <= g[i]
  BY <1>1 DEF RunningSum
<1>5. \A i \in k .. n : g[i] - d \in Nat /\ g[k - 1] <= g[i] - d
  BY <1>3, <1>4
<1> DEFINE h == [i \in 0 .. n - 1 |-> IF i < k THEN g[i] ELSE g[i + 1] - d]
<1>6. \A i \in 0 .. n - 1 : h[i] \in Nat
  BY <1>3, <1>5
<1>7. h[0] = 0
  BY <1>1 DEF RunningSum
<1>8. h[n - 1] = v - d
  <2>1. CASE k = n
    <3>1. h[n - 1] = g[k - 1] /\ v = g[k] /\ g[k - 1] \in Nat
      BY <1>1, <1>3, <2>1
    <3> HIDE DEF h
    <3> QED
      BY <1>3, <3>1
  <2>2. CASE k # n
    BY <1>1, <2>2
  <2> QED
    BY <2>1, <2>2
<1>9. \A i \in 1 .. n - 1 : b[i] \in Nat /\ h[i] = h[i - 1] + b[i]
  <2> SUFFICES ASSUME NEW i \in 1 .. n - 1
               PROVE  b[i] \in Nat /\ h[i] = h[i - 1] + b[i]
    OBVIOUS
  <2>1. /\ a[i] \in Nat /\ g[i] = g[i - 1] + a[i]
        /\ a[i + 1] \in Nat /\ g[i + 1] = g[i] + a[i + 1]
    BY <1>1 DEF RunningSum
  <2>2. g[i] \in Nat /\ g[i - 1] \in Nat /\ g[i + 1] \in Nat
    BY <1>3
  <2>3. CASE i < k
    BY <2>1, <2>3
  <2>4. CASE i = k
    <3>1. b[i] = a[i + 1] /\ h[i] = g[i + 1] - d /\ h[i - 1] = g[i - 1]
      BY <2>4
    <3> HIDE DEF h
    <3> QED
      BY <1>3, <2>1, <2>2, <2>4, <3>1
  <2>5. CASE i > k
    <3>1. b[i] = a[i + 1] /\ h[i] = g[i + 1] - d /\ h[i - 1] = g[i] - d
      BY <2>5
    <3> HIDE DEF h
    <3> QED
      BY <1>3, <2>1, <2>2, <2>5, <3>1
  <2> QED
    BY <2>3, <2>4, <2>5
<1>10. \A i, j \in 0 .. n - 1 : i <= j => h[i] <= h[j]
  <2> SUFFICES ASSUME NEW i \in 0 .. n - 1, NEW j \in 0 .. n - 1, i <= j
               PROVE  h[i] <= h[j]
    OBVIOUS
  <2>1. CASE j < k
    <3>1. g[i] <= g[j]
      BY <1>1 DEF RunningSum
    <3> QED
      BY <2>1, <3>1
  <2>2. CASE i >= k
    <3>1. g[i + 1] <= g[j + 1] /\ g[i + 1] \in Nat /\ g[j + 1] \in Nat
      BY <1>1, <1>3 DEF RunningSum
    <3> QED
      BY <1>3, <2>2, <3>1
  <2>3. CASE i < k /\ j >= k
    <3>1. g[i] <= g[k - 1]
      BY <1>1, <2>3 DEF RunningSum
    <3>2. g[k - 1] <= g[j + 1] - d
      BY <1>5, <2>3
    <3> QED
      BY <1>3, <2>3, <3>1, <3>2
  <2>4. i < k \/ i >= k
    OBVIOUS
  <2>5. j < k \/ j >= k
    OBVIOUS
  <2> HIDE DEF h
  <2> QED
    BY <2>1, <2>2, <2>3, <2>4, <2>5
<1>11. v - d \in Nat
  BY <1>1, <1>5
<1>12. h \in [0 .. n - 1 -> Nat]
  BY <1>6
<1> HIDE DEF h
<1> QED
  BY <1>2, <1>3, <1>7, <1>8, <1>9, <1>10, <1>11, <1>12 DEF RunningSum, SumsTo

\* With m less of its first quantity.
LEMMA SumTake ==
  ASSUME NEW n \in Nat \ {0}, NEW a, NEW v, SumsTo(a, n, v), NEW m \in Nat, m <= a[1], NEW b,
         b[1] = a[1] - m, \A i \in 2 .. n : b[i] = a[i]
  PROVE  v - m \in Nat /\ SumsTo(b, n, v - m)
<1>1. PICK g : RunningSum(g, a, n) /\ v = g[n]
  BY DEF SumsTo
<1>2. \A i \in 0 .. n : g[i] \in Nat
  BY <1>1 DEF RunningSum
<1>3. /\ g[0] = 0 /\ g[1] = a[1] /\ a[1] \in Nat
      /\ \A i \in 1 .. n : a[i] \in Nat /\ g[i] = g[i - 1] + a[i]
  BY <1>1 DEF RunningSum
<1>4. \A i \in 1 .. n : g[1] <= g[i]
  BY <1>1 DEF RunningSum
<1>5. \A i \in 1 .. n : g[i] - m \in Nat
  BY <1>2, <1>3, <1>4
<1> DEFINE h == [i \in 0 .. n |-> IF i = 0 THEN 0 ELSE g[i] - m]
<1>6. h \in [0 .. n -> Nat] /\ h[0] = 0 /\ h[n] = v - m
  BY <1>1, <1>5
<1>7. \A i \in 1 .. n : b[i] \in Nat /\ h[i] = h[i - 1] + b[i]
  <2> SUFFICES ASSUME NEW i \in 1 .. n
               PROVE  b[i] \in Nat /\ h[i] = h[i - 1] + b[i]
    OBVIOUS
  <2>1. g[i] = g[i - 1] + a[i] /\ g[i] \in Nat /\ g[i - 1] \in Nat /\ a[i] \in Nat
    BY <1>2, <1>3
  <2>2. CASE i = 1
    BY <1>3, <2>2
  <2>3. CASE i # 1
    BY <2>1, <2>3
  <2> QED
    BY <2>2, <2>3
<1>8. \A i, j \in 0 .. n : i <= j => h[i] <= h[j]
  <2> SUFFICES ASSUME NEW i \in 0 .. n, NEW j \in 0 .. n, i <= j
               PROVE  h[i] <= h[j]
    OBVIOUS
  <2>1. g[i] <= g[j] /\ g[i] \in Nat /\ g[j] \in Nat
    BY <1>1, <1>2 DEF RunningSum
  <2>2. j # 0 => g[j] - m \in Nat
    BY <1>5
  <2> QED
    BY <2>1, <2>2
<1>9. v - m \in Nat
  BY <1>1, <1>5
<1> HIDE DEF h
<1> QED
  BY <1>6, <1>7, <1>8, <1>9 DEF RunningSum, SumsTo

-----------------------------------------------------------------------------
(***************************************************************************)
(* Rounds of matching, of a book b and a taker k alone, as LimitOrderBook  *)
(* describes them.  Engines that know different prices are compared over   *)
(* the prices A of either: a book over P is widened by empty queues.       *)
(***************************************************************************)
\* A book over the prices P, seen over the prices A.
Wide(A, P, b) == [s \in Sides |-> [p \in A |-> IF p \in P THEN b[s][p] ELSE <<>>]]

IsBook(P, b) ==
  b = [s \in Sides |-> [p \in P |-> b[s][p]]]

Put(b, s, p, c) == [b EXCEPT ![s][p] = c]

BestIn(P, b, s, p) ==
  p \in P /\ b[s][p] # <<>> /\ \A q \in P : b[s][q] # <<>> => ~Better(s, q, p)

Reaches(k, p) == IF k.side = Bid THEN p <= k.price ELSE p >= k.price

MatchesIn(P, b, k, p) == k.qty > 0 /\ BestIn(P, b, Opposite(k.side), p) /\ Reaches(k, p)

Lot(q, k) == IF Head(q).qty <= k.qty THEN Head(q).qty ELSE k.qty

QueueAfter(q, n) == IF n = Head(q).qty THEN Tail(q) ELSE [q EXCEPT ![1].qty = @ - n]

TradeAt(b, k, p) ==
  [maker_id |-> Head(b[Opposite(k.side)][p]).id, taker_id |-> k.id, price |-> p,
   qty |-> Lot(b[Opposite(k.side)][p], k)]

BookAfter(b, k, p) ==
  Put(b, Opposite(k.side), p,
      QueueAfter(b[Opposite(k.side)][p], Lot(b[Opposite(k.side)][p], k)))

TakerAfter(b, k, p) == [k EXCEPT !.qty = @ - Lot(b[Opposite(k.side)][p], k)]

\* One trade r takes the book b and the taker k to b2 and k2.
RoundAt(b, k, b2, k2, r, p) ==
  r = TradeAt(b, k, p) /\ b2 = BookAfter(b, k, p) /\ k2 = TakerAfter(b, k, p)

Round(P, b, k, b2, k2, r) == \E p \in P : MatchesIn(P, b, k, p) /\ RoundAt(b, k, b2, k2, r, p)

Stuck(P, b, k) == \A p \in P : ~MatchesIn(P, b, k, p)

\* The book when what is left of the taker has come to rest.
Settled(b, k) ==
  IF k.qty > 0
    THEN Put(b, k.side, k.price, Append(b[k.side][k.price], [id |-> k.id, qty |-> k.qty]))
    ELSE b

\* There are two sides.
LEMMA OppositeSide == \A s : Opposite(s) \in Sides
BY DEF Opposite, Sides

\* A book has one best price on a side.
LEMMA OneMatch ==
  ASSUME NEW A \in SUBSET Nat, NEW b, NEW k, NEW p, NEW q,
         MatchesIn(A, b, k, p), MatchesIn(A, b, k, q)
  PROVE  p = q
<1>1. p \in Nat /\ q \in Nat
  BY DEF MatchesIn, BestIn
<1>2. ~Better(Opposite(k.side), q, p) /\ ~Better(Opposite(k.side), p, q)
  BY DEF MatchesIn, BestIn
<1> QED
  BY <1>1, <1>2 DEF Better

\* So a round has one outcome.
LEMMA OneRound ==
  ASSUME NEW A \in SUBSET Nat, NEW b, NEW k, NEW b2, NEW k2, NEW r, NEW b3, NEW k3, NEW u,
         Round(A, b, k, b2, k2, r), Round(A, b, k, b3, k3, u)
  PROVE  b2 = b3 /\ k2 = k3 /\ r = u
<1>1. PICK p \in A : MatchesIn(A, b, k, p) /\ RoundAt(b, k, b2, k2, r, p)
  BY DEF Round
<1>2. PICK q \in A : MatchesIn(A, b, k, q) /\ RoundAt(b, k, b3, k3, u, q)
  BY DEF Round
<1>3. p = q
  BY <1>1, <1>2, OneMatch
<1> QED
  BY <1>1, <1>2, <1>3 DEF RoundAt

\* A widened book, queue by queue.
LEMMA WideAt ==
  ASSUME NEW A, NEW P, NEW b, NEW s \in Sides, NEW p \in A
  PROVE  Wide(A, P, b)[s][p] = IF p \in P THEN b[s][p] ELSE <<>>
BY DEF Wide

\* Changing one queue, before or after the book is widened.
LEMMA WidePut ==
  ASSUME NEW A, NEW P \in SUBSET A, NEW b, IsBook(P, b), NEW s \in Sides, NEW p \in P, NEW c
  PROVE  Wide(A, P, Put(b, s, p, c)) = Put(Wide(A, P, b), s, p, c) /\ IsBook(P, Put(b, s, p, c))
<1>1. PICK d, w, v, x : d = Put(b, s, p, c) /\ w = Wide(A, P, b) /\ v = Put(w, s, p, c)
                        /\ x = Wide(A, P, d)
  OBVIOUS
<1>2. PICK g, f : g = [q \in P |-> b[s][q]] /\ f = [g EXCEPT ![p] = c]
  OBVIOUS
<1>3. g = b[s]
  BY <1>2 DEF IsBook
<1>4. DOMAIN b = Sides
  BY DEF IsBook
<1>5. d = [t \in Sides |-> IF t = s THEN f ELSE b[t]]
  BY <1>1, <1>2, <1>3, <1>4 DEF Put
<1>6. \A q \in P : f[q] = IF q = p THEN c ELSE b[s][q]
  BY <1>2
<1>7. \A t \in Sides, q \in P : d[t][q] = IF t = s /\ q = p THEN c ELSE b[t][q]
  BY <1>5, <1>6
<1>8. IsBook(P, d)
  <2>1. f = [q \in P |-> f[q]]
    BY <1>2
  <2>2. \A t \in Sides : b[t] = [q \in P |-> b[t][q]]
    BY DEF IsBook
  <2>3. ASSUME NEW t \in Sides
        PROVE  d[t] = [q \in P |-> d[t][q]]
    <3>1. CASE t = s
      BY <1>5, <2>1, <3>1
    <3>2. CASE t # s
      BY <1>5, <2>2, <3>2
    <3> QED
      BY <3>1, <3>2
  <2> QED
    BY <1>5, <2>3 DEF IsBook
<1>9. PICK y, z : y = w[s] /\ z = [y EXCEPT ![p] = c]
  OBVIOUS
<1>10. y = [q \in A |-> IF q \in P THEN b[s][q] ELSE <<>>]
  BY <1>1, <1>9 DEF Wide
<1>11. p \in A
  OBVIOUS
<1>12. z = [q \in A |-> IF q = p THEN c ELSE y[q]]
  BY <1>9, <1>10, <1>11
<1>13. DOMAIN w = Sides
  BY <1>1 DEF Wide
<1>14. v = [t \in Sides |-> IF t = s THEN z ELSE w[t]]
  BY <1>1, <1>9, <1>13 DEF Put
<1>15. x = [t \in Sides |-> [q \in A |-> IF q \in P THEN d[t][q] ELSE <<>>]]
  BY <1>1 DEF Wide
<1>16. ASSUME NEW t \in Sides
       PROVE  v[t] = x[t]
  <2>1. CASE t = s
    <3>1. \A q \in A : z[q] = IF q \in P THEN d[s][q] ELSE <<>>
      BY <1>7, <1>10, <1>12
    <3>2. z = [q \in A |-> IF q \in P THEN d[s][q] ELSE <<>>]
      BY <1>12, <3>1
    <3> QED
      BY <1>14, <1>15, <2>1, <3>2
  <2>2. CASE t # s
    <3>1. w[t] = [q \in A |-> IF q \in P THEN b[t][q] ELSE <<>>]
      BY <1>1 DEF Wide
    <3>2. x[t] = [q \in A |-> IF q \in P THEN b[t][q] ELSE <<>>]
      BY <1>5, <1>15, <2>2
    <3> QED
      BY <1>14, <2>2, <3>1, <3>2
  <2> QED
    BY <2>1, <2>2
<1>17. v = x
  BY <1>14, <1>15, <1>16
<1> QED
  BY <1>1, <1>8, <1>17

\* A price matches in a book if and only if it does in the widened one.
LEMMA WideMatches ==
  ASSUME NEW A, NEW P \in SUBSET A, NEW b, NEW k, NEW p
  PROVE  MatchesIn(A, Wide(A, P, b), k, p) <=> MatchesIn(P, b, k, p)
<1>1. PICK s, w : s = Opposite(k.side) /\ w = Wide(A, P, b)
  OBVIOUS
<1>2. s \in Sides
  BY <1>1, OppositeSide
<1>3. \A q \in A : w[s][q] = IF q \in P THEN b[s][q] ELSE <<>>
  BY <1>1, <1>2, WideAt
<1>4. BestIn(A, w, s, p) <=> BestIn(P, b, s, p)
  BY <1>3 DEF BestIn
<1> QED
  BY <1>1, <1>4 DEF MatchesIn

\* A book that allows no round allows none when it is widened.
LEMMA WideStuck ==
  ASSUME NEW A, NEW P \in SUBSET A, NEW b, NEW k, Stuck(P, b, k)
  PROVE  Stuck(A, Wide(A, P, b), k)
<1>1. \A p : MatchesIn(A, Wide(A, P, b), k, p) => MatchesIn(P, b, k, p)
  BY WideMatches
<1>2. \A p : MatchesIn(P, b, k, p) => p \in P
  BY DEF MatchesIn, BestIn
<1> QED
  BY <1>1, <1>2 DEF Stuck

\* A round of a book is a round of the widened book.
LEMMA WideRound ==
  ASSUME NEW A, NEW P \in SUBSET A, NEW b, IsBook(P, b), NEW k, NEW b2, NEW k2, NEW r,
         Round(P, b, k, b2, k2, r)
  PROVE  Round(A, Wide(A, P, b), k, Wide(A, P, b2), k2, r)
<1>1. PICK p \in P : MatchesIn(P, b, k, p) /\ RoundAt(b, k, b2, k2, r, p)
  BY DEF Round
<1>2. PICK s, w, q : s = Opposite(k.side) /\ w = Wide(A, P, b) /\ q = b[s][p]
  OBVIOUS
<1>3. s \in Sides /\ p \in A
  BY <1>2, OppositeSide
<1>4. w[s][p] = q
  BY <1>2, <1>3, WideAt
<1>5. PICK c : c = QueueAfter(q, Lot(q, k))
  OBVIOUS
<1>6. b2 = Put(b, s, p, c)
  BY <1>1, <1>2, <1>5 DEF RoundAt, BookAfter
<1>7. Wide(A, P, b2) = Put(w, s, p, c)
  BY <1>2, <1>3, <1>6, WidePut
<1>8. RoundAt(w, k, Wide(A, P, b2), k2, r, p)
  <2>1. r = TradeAt(w, k, p)
    BY <1>1, <1>2, <1>4 DEF RoundAt, TradeAt
  <2>2. Wide(A, P, b2) = BookAfter(w, k, p)
    BY <1>2, <1>4, <1>5, <1>7 DEF BookAfter
  <2>3. k2 = TakerAfter(w, k, p)
    BY <1>1, <1>2, <1>4 DEF RoundAt, TakerAfter
  <2> QED
    BY <2>1, <2>2, <2>3 DEF RoundAt
<1>9. MatchesIn(A, w, k, p)
  BY <1>1, <1>2, WideMatches
<1> QED
  BY <1>2, <1>3, <1>8, <1>9 DEF Round

\* The remainder rests in the widened book as in the book.
LEMMA WideSettled ==
  ASSUME NEW A, NEW P \in SUBSET A, NEW b, IsBook(P, b), NEW k, k.side \in Sides, k.price \in P
  PROVE  Wide(A, P, Settled(b, k)) = Settled(Wide(A, P, b), k)
<1>1. PICK s, p, w : s = k.side /\ p = k.price /\ w = Wide(A, P, b)
  OBVIOUS
<1>2. PICK o : o = [id |-> k.id, qty |-> k.qty]
  OBVIOUS
<1>3. PICK c : c = Append(b[s][p], o)
  OBVIOUS
<1>4. s \in Sides /\ p \in P /\ p \in A
  BY <1>1
<1>5. w[s][p] = b[s][p]
  BY <1>1, <1>4, WideAt
<1>6. Wide(A, P, Put(b, s, p, c)) = Put(w, s, p, c)
  BY <1>1, <1>4, WidePut
<1> QED
  BY <1>1, <1>2, <1>3, <1>5, <1>6 DEF Settled

-----------------------------------------------------------------------------
\* The books B[0], B[1], ... and takers K[0], K[1], ... of the rounds that made
\* the first n of the trades ts.
Trail(A, B, K, n, ts) ==
  \A i \in 1 .. n : Round(A, B[i - 1], K[i - 1], B[i], K[i], ts[i])

\* A trail grows by a round at its end.
Grown(F, n, x) == [i \in Nat |-> IF i = n + 1 THEN x ELSE F[i]]

\* The first n values of two functions are the same.
Alike(F, G, n) == \A i \in 0 .. n : F[i] = G[i]

\* And so are the first n elements of two sequences.
Begins(us, ts, n) == \A i \in 1 .. n : us[i] = ts[i]

\* (b, k, r) is what the trail has after its place j.
NextOn(B, K, n, ts, j, b, k, r) ==
  j + 1 \in 1 .. n /\ b = B[j + 1] /\ k = K[j + 1] /\ r = ts[j + 1]

\* It is a trail still, the same up to there.
LEMMA TrailGrows ==
  ASSUME NEW A \in SUBSET Nat, NEW B, NEW K, NEW n \in Nat, NEW ts, Trail(A, B, K, n, ts), NEW us,
         Begins(us, ts, n), NEW b, NEW k,
         Round(A, B[n], K[n], b, k, us[n + 1])
  PROVE  /\ Trail(A, Grown(B, n, b), Grown(K, n, k), n + 1, us)
         /\ Alike(Grown(B, n, b), B, n) /\ Alike(Grown(K, n, k), K, n)
         /\ Grown(B, n, b)[n + 1] = b /\ Grown(K, n, k)[n + 1] = k
<1>1. PICK C, L : C = Grown(B, n, b) /\ L = Grown(K, n, k)
  OBVIOUS
<1>2. /\ C[n + 1] = b /\ L[n + 1] = k
      /\ \A i \in 0 .. n : C[i] = B[i] /\ L[i] = K[i]
  BY <1>1 DEF Grown
<1>3. ASSUME NEW i \in 1 .. n + 1
      PROVE  Round(A, C[i - 1], L[i - 1], C[i], L[i], us[i])
  <2>1. CASE i = n + 1
    <3>1. i - 1 = n /\ n \in 0 .. n
      BY <2>1
    <3> QED
      BY <1>2, <2>1, <3>1
  <2>2. CASE i \in 1 .. n
    <3>1. i - 1 \in 0 .. n /\ i \in 0 .. n
      BY <2>2
    <3>2. C[i - 1] = B[i - 1] /\ L[i - 1] = K[i - 1] /\ C[i] = B[i] /\ L[i] = K[i]
      BY <1>2, <3>1
    <3>3. Round(A, B[i - 1], K[i - 1], B[i], K[i], ts[i])
      BY <2>2 DEF Trail
    <3> QED
      BY <2>2, <3>2, <3>3 DEF Begins
  <2>3. i = n + 1 \/ i \in 1 .. n
    OBVIOUS
  <2> QED
    BY <2>1, <2>2, <2>3
<1>4. Trail(A, C, L, n + 1, us)
  BY <1>3 DEF Trail
<1> QED
  BY <1>1, <1>2, <1>4 DEF Alike

\* Who is on a trail that ends stuck and can do a round, does the trail's next.
LEMMA TrailLeads ==
  ASSUME NEW A \in SUBSET Nat, NEW B, NEW K, NEW n \in Nat, NEW ts, Trail(A, B, K, n, ts), Stuck(A, B[n], K[n]),
         NEW j \in 0 .. n, NEW b, NEW k, NEW r, Round(A, B[j], K[j], b, k, r)
  PROVE  NextOn(B, K, n, ts, j, b, k, r)
<1>1. j # n
  <2>1. ~Stuck(A, B[j], K[j])
    BY DEF Round, Stuck
  <2> QED
    BY <2>1
<1>2. j + 1 \in 1 .. n /\ (j + 1) - 1 = j
  BY <1>1
<1>3. Round(A, B[j], K[j], B[j + 1], K[j + 1], ts[j + 1])
  BY <1>2 DEF Trail
<1> QED
  BY <1>2, <1>3, OneRound DEF NextOn

\* Who is stuck on a trail is at its end.
LEMMA TrailEnds ==
  ASSUME NEW A \in SUBSET Nat, NEW B, NEW K, NEW n \in Nat, NEW ts, Trail(A, B, K, n, ts),
         NEW j \in 0 .. n, Stuck(A, B[j], K[j])
  PROVE  j = n
<1> SUFFICES ASSUME j # n PROVE FALSE
  OBVIOUS
<1>1. j + 1 \in 1 .. n /\ (j + 1) - 1 = j
  OBVIOUS
<1>2. Round(A, B[j], K[j], B[j + 1], K[j + 1], ts[j + 1])
  BY <1>1 DEF Trail
<1> QED
  BY <1>2 DEF Round, Stuck

-----------------------------------------------------------------------------
(* Two that match the same order: the leader made the trades ts and is at  *)
(* the book lb with the taker lk, the follower made us and is at b with k; *)
(* both are on one trail.                                                  *)

Leads(A, B, K, ts, lb, lk) ==
  Trail(A, B, K, Len(ts), ts) /\ B[Len(ts)] = lb /\ K[Len(ts)] = lk

Follows(B, K, ts, us, b, k) ==
  /\ Len(us) \in 0 .. Len(ts) /\ B[Len(us)] = b /\ K[Len(us)] = k
  /\ \A i \in 1 .. Len(us) : us[i] = ts[i]

Ahead(A, ts, lb, lk, us, b, k) ==
  \E B, K : Leads(A, B, K, ts, lb, lk) /\ Follows(B, K, ts, us, b, k)

\* What Append does, whatever is appended.
LEMMA AppendAny ==
  ASSUME NEW S, NEW q \in Seq(S), NEW x
  PROVE  /\ Len(q) \in Nat /\ Len(Append(q, x)) = Len(q) + 1 /\ Append(q, x)[Len(q) + 1] = x
         /\ \A i \in 1 .. Len(q) : Append(q, x)[i] = q[i]
<1>1. PICK T : T = S \cup {x}
  OBVIOUS
<1>2. q \in Seq(T) /\ x \in T
  BY <1>1
<1> QED
  BY <1>2, AppendProperties, LenProperties

\* They start together.
LEMMA AheadStarts ==
  ASSUME NEW A \in SUBSET Nat, NEW b, NEW k
  PROVE  Ahead(A, <<>>, b, k, <<>>, b, k)
<1>1. PICK B, K : B = [i \in Nat |-> b] /\ K = [i \in Nat |-> k]
  OBVIOUS
<1>2. Len(<<>>) = 0 /\ 1 .. 0 = {} /\ B[0] = b /\ K[0] = k /\ 0 \in 0 .. 0
  BY <1>1
<1>3. Leads(A, B, K, <<>>, b, k)
  BY <1>2 DEF Leads, Trail
<1>4. Follows(B, K, <<>>, <<>>, b, k)
  BY <1>2 DEF Follows
<1> QED
  BY <1>3, <1>4 DEF Ahead

\* The leader does a round.
LEMMA LeaderMoves ==
  ASSUME NEW A \in SUBSET Nat, NEW S, NEW ts \in Seq(S), NEW lb, NEW lk, NEW us, NEW b, NEW k,
         Ahead(A, ts, lb, lk, us, b, k), NEW lb2, NEW lk2, NEW r, Round(A, lb, lk, lb2, lk2, r)
  PROVE  Ahead(A, Append(ts, r), lb2, lk2, us, b, k)
<1>1. PICK B, K : Leads(A, B, K, ts, lb, lk) /\ Follows(B, K, ts, us, b, k)
  BY DEF Ahead
<1>2. PICK n, vs : n = Len(ts) /\ vs = Append(ts, r)
  OBVIOUS
<1>3. n \in Nat /\ Len(vs) = n + 1 /\ vs[n + 1] = r /\ \A i \in 1 .. n : vs[i] = ts[i]
  BY <1>2, AppendAny
<1>4. Trail(A, B, K, n, ts) /\ B[n] = lb /\ K[n] = lk
  BY <1>1, <1>2 DEF Leads
<1>5. PICK C, L : C = Grown(B, n, lb2) /\ L = Grown(K, n, lk2)
  OBVIOUS
<1>6. /\ Trail(A, C, L, n + 1, vs)
      /\ \A i \in 0 .. n : C[i] = B[i] /\ L[i] = K[i]
      /\ C[n + 1] = lb2 /\ L[n + 1] = lk2
  <2>1. Round(A, B[n], K[n], lb2, lk2, vs[n + 1])
    BY <1>3, <1>4
  <2>2. Begins(vs, ts, n)
    BY <1>3 DEF Begins
  <2>3. /\ Trail(A, Grown(B, n, lb2), Grown(K, n, lk2), n + 1, vs)
        /\ Alike(Grown(B, n, lb2), B, n) /\ Alike(Grown(K, n, lk2), K, n)
        /\ Grown(B, n, lb2)[n + 1] = lb2 /\ Grown(K, n, lk2)[n + 1] = lk2
    BY <1>3, <1>4, <2>1, <2>2, TrailGrows
  <2> QED
    BY <1>5, <2>3 DEF Alike
<1>7. Leads(A, C, L, vs, lb2, lk2)
  BY <1>3, <1>6 DEF Leads
<1>8. PICK m : m = Len(us)
  OBVIOUS
<1>9. m \in 0 .. n /\ B[m] = b /\ K[m] = k /\ \A i \in 1 .. m : us[i] = ts[i]
  BY <1>1, <1>2, <1>8 DEF Follows
<1>10. m \in 0 .. n + 1 /\ \A i \in 1 .. m : i \in 1 .. n
  BY <1>3, <1>9
<1>11. Follows(C, L, vs, us, b, k)
  BY <1>3, <1>6, <1>8, <1>9, <1>10 DEF Follows
<1> QED
  BY <1>2, <1>7, <1>11 DEF Ahead

\* When the leader is done, a round of the follower is the leader's.
LEMMA FollowerMoves ==
  ASSUME NEW A \in SUBSET Nat, NEW S, NEW ts \in Seq(S), NEW lb, NEW lk, NEW T,
         NEW us \in Seq(T), NEW b, NEW k, Ahead(A, ts, lb, lk, us, b, k), Stuck(A, lb, lk),
         NEW b2, NEW k2, NEW r, Round(A, b, k, b2, k2, r)
  PROVE  Ahead(A, ts, lb, lk, Append(us, r), b2, k2)
<1>1. PICK B, K : Leads(A, B, K, ts, lb, lk) /\ Follows(B, K, ts, us, b, k)
  BY DEF Ahead
<1>2. PICK n, m, vs : n = Len(ts) /\ m = Len(us) /\ vs = Append(us, r)
  OBVIOUS
<1>3. n \in Nat /\ m \in Nat /\ Len(vs) = m + 1 /\ vs[m + 1] = r
      /\ \A i \in 1 .. m : vs[i] = us[i]
  BY <1>2, AppendAny, LenProperties
<1>4. Trail(A, B, K, n, ts) /\ B[n] = lb /\ K[n] = lk
  BY <1>1, <1>2 DEF Leads
<1>5. m \in 0 .. n /\ B[m] = b /\ K[m] = k /\ \A i \in 1 .. m : us[i] = ts[i]
  BY <1>1, <1>2 DEF Follows
<1>6. m + 1 \in 1 .. n /\ b2 = B[m + 1] /\ k2 = K[m + 1] /\ r = ts[m + 1]
  <2>1. Stuck(A, B[n], K[n])
    BY <1>4
  <2>2. Round(A, B[m], K[m], b2, k2, r)
    BY <1>5
  <2>3. NextOn(B, K, n, ts, m, b2, k2, r)
    BY <1>3, <1>4, <1>5, <2>1, <2>2, TrailLeads
  <2> QED
    BY <2>3 DEF NextOn
<1>7. m + 1 \in 0 .. n /\ \A i \in 1 .. m + 1 : i = m + 1 \/ i \in 1 .. m
  BY <1>3, <1>6
<1>8. Follows(B, K, ts, vs, b2, k2)
  BY <1>2, <1>3, <1>5, <1>6, <1>7 DEF Follows
<1> QED
  BY <1>1, <1>2, <1>8 DEF Ahead

\* And when the follower is done too, both have done the same.
LEMMA FollowerDone ==
  ASSUME NEW A \in SUBSET Nat, NEW S, NEW ts \in Seq(S), NEW lb, NEW lk, NEW T,
         NEW us \in Seq(T), NEW b, NEW k, Ahead(A, ts, lb, lk, us, b, k), Stuck(A, b, k)
  PROVE  b = lb /\ k = lk /\ us = ts
<1>1. PICK B, K : Leads(A, B, K, ts, lb, lk) /\ Follows(B, K, ts, us, b, k)
  BY DEF Ahead
<1>2. PICK n, m : n = Len(ts) /\ m = Len(us)
  OBVIOUS
<1>3. n \in Nat
  BY <1>2, LenProperties
<1>4. Trail(A, B, K, n, ts) /\ B[n] = lb /\ K[n] = lk
  BY <1>1, <1>2 DEF Leads
<1>5. m \in 0 .. n /\ B[m] = b /\ K[m] = k /\ \A i \in 1 .. m : us[i] = ts[i]
  BY <1>1, <1>2 DEF Follows
<1>6. m = n
  BY <1>3, <1>4, <1>5, TrailEnds
<1>7. us = ts
  <2>1. PICK U : U = S \cup T
    OBVIOUS
  <2>2. us \in Seq(U) /\ ts \in Seq(U)
    BY <2>1
  <2>3. Len(us) = Len(ts) /\ \A i \in 1 .. Len(us) : us[i] = ts[i]
    BY <1>2, <1>5, <1>6
  <2> QED
    BY <2>2, <2>3, SeqEqual
<1> QED
  BY <1>4, <1>5, <1>6, <1>7

-----------------------------------------------------------------------------
(* Which ids rest in a book, and the removal of one.                       *)

RestsIn(P, b, id) == \E s \in Sides, p \in P : \E i \in DOMAIN b[s][p] : b[s][p][i].id = id

Leaves(A, b, id, b2) ==
  \E s \in Sides, p \in A : \E i \in DOMAIN b[s][p] :
    b[s][p][i].id = id /\ b2 = Put(b, s, p, RemoveAt(b[s][p], i))

\* No order rests in an empty queue.
LEMMA NothingRests == DOMAIN <<>> = {}
OBVIOUS

\* Widening adds no order.
LEMMA WideRests ==
  ASSUME NEW A, NEW P \in SUBSET A, NEW b, NEW id
  PROVE  RestsIn(A, Wide(A, P, b), id) <=> RestsIn(P, b, id)
<1>1. PICK w : w = Wide(A, P, b)
  OBVIOUS
<1>2. \A s \in Sides, p \in A : w[s][p] = IF p \in P THEN b[s][p] ELSE <<>>
  BY <1>1, WideAt
<1>3. ASSUME NEW s \in Sides, NEW p \in A, NEW i \in DOMAIN w[s][p]
      PROVE  p \in P /\ w[s][p] = b[s][p]
  BY <1>2, NothingRests
<1>4. \A s \in Sides, p \in P : p \in A /\ w[s][p] = b[s][p]
  BY <1>2
<1>5. RestsIn(A, w, id) => RestsIn(P, b, id)
  BY <1>3 DEF RestsIn
<1>6. RestsIn(P, b, id) => RestsIn(A, w, id)
  BY <1>4 DEF RestsIn
<1> QED
  BY <1>1, <1>5, <1>6

\* A removal from a book is one from the widened book.
LEMMA WideLeaves ==
  ASSUME NEW A, NEW P \in SUBSET A, NEW b, IsBook(P, b), NEW id, NEW b2, Leaves(P, b, id, b2)
  PROVE  Leaves(A, Wide(A, P, b), id, Wide(A, P, b2))
<1>1. PICK s \in Sides, p \in P : \E i \in DOMAIN b[s][p] :
        b[s][p][i].id = id /\ b2 = Put(b, s, p, RemoveAt(b[s][p], i))
  BY DEF Leaves
<1>2. PICK i \in DOMAIN b[s][p] : b[s][p][i].id = id /\ b2 = Put(b, s, p, RemoveAt(b[s][p], i))
  BY <1>1
<1>3. PICK w, c : w = Wide(A, P, b) /\ c = RemoveAt(b[s][p], i)
  OBVIOUS
<1>4. w[s][p] = b[s][p] /\ p \in A
  BY <1>3, WideAt
<1>5. Wide(A, P, b2) = Put(w, s, p, c)
  BY <1>2, <1>3, WidePut
<1>6. Wide(A, P, b2) = Put(w, s, p, RemoveAt(w[s][p], i))
  BY <1>3, <1>4, <1>5
<1> QED
  BY <1>2, <1>3, <1>4, <1>6 DEF Leaves

\* No id rests at two places.
OnePlace(P, b) ==
  \A s, t \in Sides, p, q \in P : \A i \in DOMAIN b[s][p], j \in DOMAIN b[t][q] :
    b[s][p][i].id = b[t][q][j].id => s = t /\ p = q /\ i = j

\* Then its removal leaves no choice,
LEMMA OneLeaves ==
  ASSUME NEW P, NEW b, OnePlace(P, b), NEW id, NEW b2, NEW b3,
         Leaves(P, b, id, b2), Leaves(P, b, id, b3)
  PROVE  b2 = b3
<1>1. PICK s \in Sides, p \in P : \E i \in DOMAIN b[s][p] :
        b[s][p][i].id = id /\ b2 = Put(b, s, p, RemoveAt(b[s][p], i))
  BY DEF Leaves
<1>2. PICK i \in DOMAIN b[s][p] : b[s][p][i].id = id /\ b2 = Put(b, s, p, RemoveAt(b[s][p], i))
  BY <1>1
<1>3. PICK t \in Sides, q \in P : \E j \in DOMAIN b[t][q] :
        b[t][q][j].id = id /\ b3 = Put(b, t, q, RemoveAt(b[t][q], j))
  BY DEF Leaves
<1>4. PICK j \in DOMAIN b[t][q] : b[t][q][j].id = id /\ b3 = Put(b, t, q, RemoveAt(b[t][q], j))
  BY <1>3
<1>5. s = t /\ p = q /\ i = j
  BY <1>2, <1>4 DEF OnePlace
<1> QED
  BY <1>2, <1>4, <1>5

\* and widening adds no place.
LEMMA WideOnePlace ==
  ASSUME NEW A, NEW P \in SUBSET A, NEW b, OnePlace(P, b)
  PROVE  OnePlace(A, Wide(A, P, b))
<1>1. PICK w : w = Wide(A, P, b)
  OBVIOUS
<1>2. ASSUME NEW s \in Sides, NEW p \in A, NEW i \in DOMAIN w[s][p]
      PROVE  p \in P /\ w[s][p] = b[s][p]
  <2>1. w[s][p] = IF p \in P THEN b[s][p] ELSE <<>>
    BY <1>1, WideAt
  <2> QED
    BY <2>1, NothingRests
<1>3. ASSUME NEW s \in Sides, NEW p \in A, NEW i \in DOMAIN w[s][p],
             NEW t \in Sides, NEW q \in A, NEW j \in DOMAIN w[t][q],
             w[s][p][i].id = w[t][q][j].id
      PROVE  s = t /\ p = q /\ i = j
  BY <1>2, <1>3 DEF OnePlace
<1> QED
  BY <1>1, <1>3 DEF OnePlace

=============================================================================
