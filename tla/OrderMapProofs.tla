---------------------------- MODULE OrderMapProofs ----------------------------
(***************************************************************************)
(* Proofs about OrderMap, for every hash function, every size of the table *)
(* and every limit below that size.                                        *)
(***************************************************************************)
EXTENDS OrderMap, FunctionTheorems, FiniteSetTheorems, WellFoundedInduction, TLAPS

(***************************************************************************)
(* Going round the table.                                                  *)
(***************************************************************************)

\* A distance is a number of steps below a full round, and names its end.
LEMMA DistType ==
  ASSUME NEW a \in Slots, NEW b \in Slots
  PROVE  /\ Dist(a, b) \in Nat /\ Dist(a, b) < SlotSize
         /\ Dist(a, b) = 0 <=> a = b
         /\ \A c \in Slots : Dist(a, b) = Dist(a, c) => b = c
BY SizesAssumption DEF Slots, Dist

\* One step further is one more, but for the step that completes the round.
LEMMA DistSucc ==
  ASSUME NEW a \in Slots, NEW b \in Slots
  PROVE  /\ Succ(b) \in Slots
         /\ Succ(b) # a => Dist(a, Succ(b)) = Dist(a, b) + 1
         /\ Succ(b) = a => Dist(a, b) = SlotSize - 1
BY SizesAssumption DEF Slots, Dist, Succ

\* When a lies on the way from h to p, what lies between a and p does too.
LEMMA DistThrough ==
  ASSUME NEW h \in Slots, NEW a \in Slots, NEW b \in Slots, NEW p \in Slots,
         Dist(h, a) < Dist(h, p), Dist(a, b) <= Dist(a, p)
  PROVE  Dist(h, b) <= Dist(h, p)
BY SizesAssumption DEF Slots, Dist

\* Some slot of a non-empty set is the first of the set from h on.
LEMMA FirstExists ==
  ASSUME NEW h \in Slots, NEW S \in SUBSET Slots, S # {}
  PROVE  \E p \in S : \A q \in S : Dist(h, p) <= Dist(h, q)
<1> DEFINE Steps == {Dist(h, p) : p \in S}
<1>1. Steps \subseteq Nat /\ Steps # {}
  BY DistType
<1>2. PICK m \in Steps : \A k \in Steps : ~(<<k, m>> \in OpToRel(<, Nat))
  <2> HIDE DEF Steps
  <2> QED
    BY <1>1, NatLessThanWellFounded, WFMin
<1>3. PICK p \in S : m = Dist(h, p)
  OBVIOUS
<1>4. ASSUME NEW q \in S
      PROVE  Dist(h, p) <= Dist(h, q)
  <2>1. Dist(h, p) \in Nat /\ Dist(h, q) \in Nat /\ Dist(h, q) \in Steps
    BY DistType
  <2>2. Dist(h, q) < m => <<Dist(h, q), m>> \in OpToRel(<, Nat)
    <3> HIDE DEF Steps
    <3> QED
      BY <1>3, <2>1 DEF OpToRel
  <2>3. ~(Dist(h, q) < m)
    BY <1>2, <2>1, <2>2
  <2> QED
    <3> HIDE DEF Steps
    <3> QED
      BY <1>3, <2>1, <2>3
<1> QED
  BY <1>4

(***************************************************************************)
(* The inductive invariant.                                                *)
(***************************************************************************)

\* What holds between two rounds of the loop of erase: the slots the loop has
\* passed are occupied, and it has not come round to the gap.
LoopOK ==
  erasing # Idle =>
    /\ erasing.j # erasing.gap
    /\ \A q \in Slots : Dist(erasing.gap, q) < Dist(erasing.gap, erasing.j) => q \in Occupied

IInv ==
  /\ TypeOK
  /\ LoopOK
  /\ Reachable
  /\ IdsOnce
  /\ CountMatches
  /\ count <= MaxLoad

\* The occupied slots are finitely many, and one slot at least is empty.
LEMMA EmptySlotExists ==
  ASSUME IInv
  PROVE  /\ IsFiniteSet(Occupied)
         /\ \E p \in Slots : p \notin Occupied
<1>1. IsFiniteSet(Slots) /\ Cardinality(Slots) = SlotSize
  <2>1. SlotSize - 1 \in Int /\ 0 \in Int
    BY SizesAssumption
  <2> QED
    BY <2>1, FS_Interval, SizesAssumption DEF Slots
<1>2. Occupied \in SUBSET Slots
  BY DEF Occupied
<1>3. IsFiniteSet(Occupied)
  BY <1>1, <1>2, FS_Subset
<1>4. Cardinality(Occupied) # SlotSize
  BY SizesAssumption DEF IInv, TypeOK, CountMatches
<1> QED
  BY <1>1, <1>2, <1>3, <1>4

\* A table entry is empty or holds an id and an index.
LEMMA EntryType ==
  ASSUME TypeOK, NEW p \in Slots
  PROVE  /\ table[p] \in MapSlots
         /\ table[p].id \in Keys
         /\ p \in Occupied => table[p].id \in OrderIds /\ table[p].idx \in Indices
         /\ Home(p) \in Slots
BY EmptyKeyAssumption DEF TypeOK, MapSlots, EmptySlot, Occupied, Keys, Home

-----------------------------------------------------------------------------
(* Probing.                                                                *)

\* A probe stops at one slot and no other.
LEMMA OneProbeEnd ==
  ASSUME TypeOK, NEW id \in Keys, NEW p \in ProbeEnd(id), NEW q \in ProbeEnd(id)
  PROVE  p = q
<1>1. p \in Slots /\ q \in Slots /\ hash[id] \in Slots
  BY DEF ProbeEnd, TypeOK
<1>2. /\ Dist(hash[id], p) \in Nat /\ Dist(hash[id], q) \in Nat
      /\ Dist(hash[id], p) = Dist(hash[id], q) => p = q
  BY <1>1, DistType
<1> QED
  BY <1>1, <1>2 DEF ProbeEnd

\* While no erase runs every probe stops.
LEMMA ProbeStops ==
  ASSUME IInv, NEW id \in Keys
  PROVE  ProbeEnd(id) # {}
<1> DEFINE S == {p \in Slots : Stops(id, p)}
<1>1. S \in SUBSET Slots /\ hash[id] \in Slots
  BY DEF IInv, TypeOK
<1>2. S # {}
  BY EmptySlotExists DEF Occupied, Stops
<1>3. PICK p \in S : \A q \in S : Dist(hash[id], p) <= Dist(hash[id], q)
  <2> HIDE DEF S
  <2> QED
    BY <1>1, <1>2, FirstExists
<1>4. ASSUME NEW q \in Slots, Dist(hash[id], q) < Dist(hash[id], p), Stops(id, q)
      PROVE  FALSE
  <2>1. Dist(hash[id], p) \in Nat /\ Dist(hash[id], q) \in Nat
    BY <1>1, DistType
  <2> QED
    BY <1>3, <1>4, <2>1
<1> QED
  BY <1>4 DEF ProbeEnd

\* The probe for an id that has an entry stops at the entry.
LEMMA ProbeEndsAtEntry ==
  ASSUME IInv, erasing = Idle, NEW p \in Occupied
  PROVE  p \in ProbeEnd(table[p].id)
<1>1. p \in Slots /\ p \in Entries
  BY DEF Occupied, Entries
<1>2. ASSUME NEW q \in Slots, Dist(Home(p), q) < Dist(Home(p), p), Stops(table[p].id, q)
      PROVE  FALSE
  <2>1. q \in Occupied /\ q \in Entries
    BY <1>1, <1>2 DEF IInv, Reachable, Entries
  <2>2. q = p
    BY <1>1, <1>2, <2>1 DEF Stops, Occupied, IInv, IdsOnce
  <2>3. Dist(Home(p), p) \in Nat
    BY <1>1, EntryType, DistType DEF IInv
  <2> QED
    BY <1>2, <2>2, <2>3
<1> QED
  BY <1>1, <1>2 DEF ProbeEnd, Stops, Home

\* find_pos finds the entries of an id, which are one or none.
LEMMA FindPosExact ==
  ASSUME IInv, erasing = Idle, NEW id \in Keys
  PROVE  find_pos(id) = EntriesOf(id)
<1>1. ASSUME NEW p \in find_pos(id)
      PROVE  p \in EntriesOf(id)
  BY <1>1 DEF find_pos, EntriesOf, Entries, Occupied, ProbeEnd, Stops
<1>2. ASSUME NEW p \in EntriesOf(id)
      PROVE  p \in find_pos(id)
  BY <1>2, ProbeEndsAtEntry DEF find_pos, EntriesOf, Entries, Occupied
<1> QED
  BY <1>1, <1>2

-----------------------------------------------------------------------------
(* Every step keeps the invariant.                                         *)

LEMMA InitInv ==
  ASSUME Init
  PROVE  IInv
<1>1. Occupied = {}
  BY DEF Init, Occupied, EmptySlot
<1>2. TypeOK
  BY DEF Init, TypeOK, Answers, MapSlots
<1>3. LoopOK /\ Reachable /\ IdsOnce
  BY <1>1 DEF Init, LoopOK, Reachable, IdsOnce, Entries
<1>4. CountMatches /\ count <= MaxLoad
  BY <1>1, FS_EmptySet, SizesAssumption DEF Init, CountMatches
<1> QED
  BY <1>2, <1>3, <1>4 DEF IInv

\* A step that changes the answer at most.
LEMMA QuietStep ==
  ASSUME IInv, UNCHANGED <<hash, table, count, erasing>>, answer' \in Answers
  PROVE  IInv'
<1>1. Occupied' = Occupied /\ Entries' = Entries
  BY DEF Occupied, Entries
<1> QED
  BY <1>1 DEF IInv, TypeOK, LoopOK, Reachable, IdsOnce, CountMatches, Home

\* What insert does to the table: it writes the one slot its probe ends at.
LEMMA InsertWrites ==
  ASSUME IInv, NEW id \in Keys, NEW idx \in Indices, Insert(id, idx)
  PROVE  \E pos \in Slots :
           /\ ProbeEnd(id) = {pos}
           /\ table' = [table EXCEPT ![pos] = [id |-> id, idx |-> idx]]
           /\ Occupied' = Occupied \cup {pos}
           /\ count' = IF pos \in Occupied THEN count ELSE count + 1
           /\ id \in OrderIds
<1>1. PICK pos \in ProbeEnd(id) : TRUE
  BY ProbeStops
<1>2. ProbeEnd(id) = {pos} /\ pos \in Slots /\ id \in OrderIds
  BY <1>1, OneProbeEnd DEF IInv, ProbeEnd, Insert, Keys
<1>3. table' = [table EXCEPT ![pos] = [id |-> id, idx |-> idx]]
  BY <1>2 DEF Insert, IInv, TypeOK
<1>4. Occupied' = Occupied \cup {pos}
  BY <1>2, <1>3, EmptyKeyAssumption DEF Occupied, IInv, TypeOK
<1>5. count' = IF pos \in Occupied THEN count ELSE count + 1
  <2> DEFINE new == {p \in {pos} : table[p].id = EmptyKey}
  <2>1. count' = count + Cardinality(new)
    BY <1>2 DEF Insert, Added
  <2>2. CASE pos \in Occupied
    <3>1. new = {}
      BY <2>2 DEF Occupied
    <3> HIDE DEF new
    <3> QED
      BY <2>1, <2>2, <3>1, FS_EmptySet DEF IInv, TypeOK
  <2>3. CASE pos \notin Occupied
    <3>1. new = {pos}
      BY <1>2, <2>3 DEF Occupied
    <3> HIDE DEF new
    <3> QED
      BY <2>1, <2>3, <3>1, FS_Singleton DEF IInv, TypeOK
  <2> QED
    BY <2>2, <2>3
<1> QED
  BY <1>2, <1>3, <1>4, <1>5

LEMMA InsertStep ==
  ASSUME IInv, NEW id \in Keys, NEW idx \in Indices, Insert(id, idx)
  PROVE  IInv'
<1>1. PICK pos \in Slots :
        /\ ProbeEnd(id) = {pos}
        /\ table' = [table EXCEPT ![pos] = [id |-> id, idx |-> idx]]
        /\ Occupied' = Occupied \cup {pos}
        /\ count' = IF pos \in Occupied THEN count ELSE count + 1
        /\ id \in OrderIds
  BY InsertWrites
<1>2. erasing = Idle /\ erasing' = Idle /\ hash' = hash /\ count < MaxLoad
  BY SizesAssumption DEF Insert, is_full, IInv, TypeOK
<1>3. Entries = Occupied /\ Entries' = Occupied' /\ Occupied \subseteq Slots
  BY <1>2 DEF Entries, Occupied
<1>4. TypeOK'
  <2>1. table' \in [Slots -> MapSlots]
    BY <1>1 DEF IInv, TypeOK, MapSlots
  <2> QED
    BY <1>1, <1>2, <2>1 DEF IInv, TypeOK, Insert, Answers
<1>5. /\ \A p \in Slots : p # pos => table'[p] = table[p] /\ Home(p)' = Home(p)
      /\ table'[pos].id = id /\ Home(pos)' = hash[id]
  BY <1>1, <1>2 DEF IInv, TypeOK, Home
<1>6. Reachable'
  <2> SUFFICES ASSUME NEW p \in Occupied', NEW q \in Slots,
                      Dist(Home(p)', q) < Dist(Home(p)', p)
               PROVE  q \in Occupied'
    BY <1>2, <1>3 DEF Reachable
  <2>1. CASE p = pos
    <3>1. ~Stops(id, q)
      BY <1>1, <1>5, <2>1 DEF ProbeEnd
    <3> QED
      BY <1>1, <3>1 DEF Stops, Occupied
  <2>2. CASE p # pos
    BY <1>1, <1>3, <1>5, <2>2 DEF IInv, Reachable
  <2> QED
    BY <2>1, <2>2
<1>7. ASSUME NEW p \in Occupied, table[p].id = id
      PROVE  p = pos
  BY <1>1, <1>2, <1>7, ProbeEndsAtEntry
<1>8. IdsOnce'
  BY <1>1, <1>2, <1>3, <1>5, <1>7 DEF IInv, IdsOnce
<1>9. CountMatches' /\ count' <= MaxLoad
  <2>1. CountMatches'
    BY <1>1, EmptySlotExists, FS_AddElement DEF CountMatches, IInv
  <2>2. count' <= MaxLoad
    BY <1>1, <1>2, SizesAssumption DEF IInv, TypeOK
  <2> QED
    BY <2>1, <2>2
<1> QED
  BY <1>2, <1>4, <1>6, <1>8, <1>9 DEF IInv, LoopOK

LEMMA EraseStep ==
  ASSUME IInv, NEW id \in Keys, Erase(id)
  PROVE  IInv'
<1>1. PICK pos \in find_pos(id) : erasing' = [id |-> id, gap |-> pos, j |-> Succ(pos)]
  BY DEF Erase
<1>2. /\ pos \in Occupied /\ pos \in Slots /\ table[pos].id = id /\ id \in OrderIds
      /\ Succ(pos) \in Slots
  BY <1>1, DistSucc DEF find_pos, ProbeEnd, Stops, Occupied, Keys
<1>3. UNCHANGED <<hash, table, count>> /\ erasing = Idle /\ Occupied' = Occupied
  BY DEF Erase, Occupied
<1>4. erasing' \in Erasures /\ erasing' # Idle
  BY <1>1, <1>2, IdleAssumption DEF Erasures
<1>5. Entries = Occupied /\ Entries' = Occupied \ {pos} /\ Occupied \subseteq Slots
  BY <1>1, <1>3, <1>4 DEF Entries, Occupied
<1>6. TypeOK'
  BY <1>3, <1>4 DEF IInv, TypeOK, Erase, Answers
<1>7. Succ(pos) # pos /\ Dist(pos, Succ(pos)) = 1
  <2>1. SlotSize # 1
    BY <1>2, EmptySlotExists DEF Slots
  <2>2. Dist(pos, pos) = 0
    BY <1>2, DistType
  <2> QED
    BY <1>2, <2>1, <2>2, DistSucc, SizesAssumption
<1>8. \A q \in Slots : Dist(pos, q) \in Nat /\ (Dist(pos, q) = 0 <=> q = pos)
  BY <1>2, DistType
<1>9. LoopOK'
  BY <1>1, <1>2, <1>3, <1>7, <1>8 DEF LoopOK
<1>10. Reachable'
  BY <1>1, <1>3, <1>5, <1>7, <1>8 DEF IInv, Reachable, Home
<1>11. IdsOnce'
  BY <1>1, <1>2, <1>3, <1>5 DEF IInv, IdsOnce
<1> QED
  BY <1>3, <1>6, <1>9, <1>10, <1>11 DEF IInv, CountMatches

\* The facts of an erase under way that its rounds use.
LEMMA LoopFacts ==
  ASSUME IInv, erasing # Idle
  PROVE  /\ erasing \in Erasures
         /\ erasing.gap \in Slots /\ erasing.j \in Slots /\ erasing.id \in OrderIds
         /\ erasing.j # erasing.gap
         /\ Dist(erasing.gap, erasing.j) \in Nat /\ Dist(erasing.gap, erasing.j) # 0
         /\ erasing.gap \in Occupied
         /\ Entries = Occupied \ {erasing.gap}
<1>1. /\ erasing \in Erasures
      /\ erasing.gap \in Slots /\ erasing.j \in Slots /\ erasing.id \in OrderIds
      /\ erasing.j # erasing.gap
  BY DEF IInv, TypeOK, Erasures, LoopOK
<1>2. /\ Dist(erasing.gap, erasing.j) \in Nat /\ Dist(erasing.gap, erasing.j) # 0
      /\ Dist(erasing.gap, erasing.gap) = 0
  BY <1>1, DistType
<1>3. erasing.gap \in Occupied
  BY <1>1, <1>2 DEF IInv, LoopOK
<1>4. Entries = Occupied \ {erasing.gap}
  BY DEF Entries
<1> QED
  BY <1>1, <1>2, <1>3, <1>4

\* The loop never comes round to the gap: it would have passed no empty slot.
LEMMA NoFullRound ==
  ASSUME IInv, erasing # Idle, erasing.j \in Occupied
  PROVE  Succ(erasing.j) # erasing.gap
<1>1. SUFFICES ASSUME Succ(erasing.j) = erasing.gap
               PROVE  FALSE
  OBVIOUS
<1>2. PICK p \in Slots : p \notin Occupied
  BY EmptySlotExists
<1>3. erasing.gap \in Slots /\ erasing.j \in Slots
  BY LoopFacts
<1>4. Dist(erasing.gap, erasing.j) = SlotSize - 1
  BY <1>1, <1>3, DistSucc
<1>5. Dist(erasing.gap, p) < SlotSize - 1
  <2>1. /\ Dist(erasing.gap, p) \in Nat /\ Dist(erasing.gap, p) < SlotSize
        /\ Dist(erasing.gap, p) # SlotSize - 1
    BY <1>2, <1>3, <1>4, DistType
  <2> QED
    BY <2>1, SizesAssumption
<1> QED
  BY <1>2, <1>4, <1>5 DEF IInv, LoopOK

\* A round that leaves the entry at j where it is.
LEMMA SkipStep ==
  ASSUME IInv, Shift, ~MayFill(erasing.j, erasing.gap)
  PROVE  IInv'
<1> DEFINE gap == erasing.gap
           j   == erasing.j
<1>1. /\ erasing # Idle /\ UNCHANGED <<hash, table, count, answer>>
      /\ erasing' = [erasing EXCEPT !.gap = gap, !.j = Succ(j)]
      /\ j \in Occupied /\ Occupied' = Occupied
  BY LoopFacts DEF Shift, ShiftDone, Advance, Occupied
<1>2. /\ gap \in Slots /\ j \in Slots /\ erasing.id \in OrderIds /\ j # gap
      /\ Dist(gap, j) \in Nat
      /\ Succ(j) \in Slots /\ Succ(j) # gap /\ Dist(gap, Succ(j)) = Dist(gap, j) + 1
  BY <1>1, LoopFacts, NoFullRound, DistSucc
<1>3. /\ erasing' = [id |-> erasing.id, gap |-> gap, j |-> Succ(j)]
      /\ erasing' \in Erasures /\ erasing' # Idle /\ Entries' = Entries
  <2>1. erasing' = [id |-> erasing.id, gap |-> gap, j |-> Succ(j)]
    BY <1>1, LoopFacts DEF Erasures
  <2>2. erasing' \in Erasures /\ erasing' # Idle
    BY <1>2, <2>1, IdleAssumption DEF Erasures
  <2> QED
    BY <1>1, <2>1, <2>2 DEF Entries
<1>4. TypeOK'
  BY <1>1, <1>3 DEF IInv, TypeOK
<1>5. LoopOK'
  <2> SUFFICES ASSUME NEW q \in Slots, Dist(gap, q) < Dist(gap, j) + 1
               PROVE  q \in Occupied
    BY <1>1, <1>2, <1>3 DEF LoopOK
  <2>1. Dist(gap, q) \in Nat /\ (Dist(gap, q) = Dist(gap, j) => q = j)
    BY <1>2, DistType
  <2>2. Dist(gap, q) < Dist(gap, j) \/ q = j
    BY <1>2, <2>1
  <2> QED
    BY <1>1, <2>2 DEF IInv, LoopOK
<1>6. Reachable'
  <2> SUFFICES ASSUME NEW p \in Entries, NEW q \in Slots,
                      Dist(Home(p), q) < Dist(Home(p), p)
               PROVE  /\ q \in Occupied
                      /\ q = gap => Dist(gap, j) + 1 <= Dist(gap, p)
    BY <1>1, <1>2, <1>3 DEF Reachable, Home
  <2>1. q \in Occupied /\ (q = gap => Dist(gap, j) <= Dist(gap, p))
    BY <1>1 DEF IInv, Reachable
  <2>2. ASSUME q = gap
        PROVE  Dist(gap, j) + 1 <= Dist(gap, p)
    <3>1. p # j
      BY <2>2 DEF MayFill
    <3>2. /\ Dist(gap, p) \in Nat
          /\ Dist(gap, p) # Dist(gap, j)
      BY <1>2, <3>1, DistType DEF Entries, Occupied
    <3> QED
      BY <1>2, <2>1, <2>2, <3>2
  <2> QED
    BY <2>1, <2>2
<1>7. IdsOnce'
  BY <1>1, <1>3 DEF IInv, IdsOnce
<1> QED
  BY <1>1, <1>4, <1>5, <1>6, <1>7 DEF IInv, CountMatches

\* A round that moves the entry at j to the gap, which is then at j.
LEMMA MoveStep ==
  ASSUME IInv, Shift, MayFill(erasing.j, erasing.gap)
  PROVE  IInv'
<1> DEFINE gap == erasing.gap
           j   == erasing.j
<1>1. /\ erasing # Idle /\ UNCHANGED <<hash, count, answer>>
      /\ table' = [table EXCEPT ![gap] = table[j]]
      /\ erasing' = [erasing EXCEPT !.gap = j, !.j = Succ(j)]
      /\ j \in Occupied
  BY LoopFacts DEF Shift, ShiftDone, Advance, Occupied
<1>2. /\ gap \in Slots /\ j \in Slots /\ erasing.id \in OrderIds /\ j # gap
      /\ gap \in Occupied /\ Entries = Occupied \ {gap}
      /\ Succ(j) \in Slots
  BY <1>1, LoopFacts, DistSucc
<1>3. Succ(j) # j /\ Dist(j, Succ(j)) = 1
  <2>1. SlotSize # 1
    BY <1>2 DEF Slots
  <2>2. Dist(j, j) = 0
    BY <1>2, DistType
  <2> QED
    BY <1>2, <2>1, <2>2, DistSucc, SizesAssumption
<1>4. /\ \A p \in Slots : p # gap => table'[p] = table[p] /\ Home(p)' = Home(p)
      /\ table'[gap] = table[j]
  BY <1>1, <1>2 DEF IInv, TypeOK, Home
<1>5. Occupied' = Occupied
  BY <1>1, <1>2, <1>4 DEF Occupied
<1>6. /\ erasing' = [id |-> erasing.id, gap |-> j, j |-> Succ(j)]
      /\ erasing' \in Erasures /\ erasing' # Idle /\ Entries' = Occupied \ {j}
  <2>1. erasing' = [id |-> erasing.id, gap |-> j, j |-> Succ(j)]
    BY <1>1, LoopFacts DEF Erasures
  <2>2. erasing' \in Erasures /\ erasing' # Idle
    BY <1>2, <2>1, IdleAssumption DEF Erasures
  <2> QED
    BY <1>5, <2>1, <2>2 DEF Entries
<1>7. TypeOK'
  <2>1. table' \in [Slots -> MapSlots]
    BY <1>1, <1>2 DEF IInv, TypeOK
  <2> QED
    BY <1>1, <1>6, <2>1 DEF IInv, TypeOK
<1>8. \A q \in Slots : Dist(j, q) \in Nat /\ (Dist(j, q) = 0 <=> q = j)
  BY <1>2, DistType
<1>9. LoopOK'
  BY <1>1, <1>3, <1>5, <1>6, <1>8 DEF LoopOK
<1>10. Reachable'
  <2> SUFFICES ASSUME NEW p \in Occupied, p # j, NEW q \in Slots,
                      Dist(Home(p)', q) < Dist(Home(p)', p)
               PROVE  /\ q \in Occupied
                      /\ q = j => 1 <= Dist(j, p)
    BY <1>3, <1>5, <1>6 DEF Reachable
  <2>1. p \in Slots /\ (q = j => 1 <= Dist(j, p))
    BY <1>8 DEF Occupied
  <2>2. CASE p = gap
    <3>0. Home(p)' = Home(j)
      BY <1>1, <1>4, <2>2 DEF Home
    <3>1. Dist(Home(j), q) < Dist(Home(j), gap) /\ Dist(Home(j), gap) < Dist(Home(j), j)
      BY <2>2, <3>0 DEF MayFill
    <3>2. /\ Home(j) \in Slots
          /\ Dist(Home(j), q) \in Nat /\ Dist(Home(j), gap) \in Nat /\ Dist(Home(j), j) \in Nat
      BY <1>2, EntryType, DistType DEF IInv
    <3>3. Dist(Home(j), q) < Dist(Home(j), j)
      BY <3>1, <3>2
    <3> QED
      BY <1>1, <1>2, <2>1, <3>3 DEF IInv, Reachable
  <2>3. CASE p # gap
    BY <1>2, <1>4, <2>1, <2>3 DEF IInv, Reachable
  <2> QED
    BY <2>2, <2>3
<1>11. IdsOnce'
  <2>1. ASSUME NEW p \in Occupied, p # j
        PROVE  /\ p = gap => table'[p] = table[j]
               /\ p # gap => table'[p] = table[p] /\ p \in Entries
    BY <1>2, <1>4, <2>1 DEF Occupied
  <2>2. j \in Entries
    BY <1>1, <1>2
  <2>3. ASSUME NEW p \in Occupied, p # j, NEW q \in Occupied, q # j,
               table'[p].id = table'[q].id
        PROVE  p = q
    BY <2>1, <2>2, <2>3 DEF IInv, IdsOnce
  <2>4. ASSUME NEW p \in Occupied, p # j
        PROVE  table'[p].id # erasing.id
    BY <1>1, <2>1, <2>2, <2>4 DEF IInv, IdsOnce
  <2> QED
    BY <1>6, <2>3, <2>4 DEF IdsOnce
<1> QED
  BY <1>1, <1>5, <1>7, <1>9, <1>10, <1>11 DEF IInv, CountMatches

LEMMA FinishEraseStep ==
  ASSUME IInv, FinishErase
  PROVE  IInv'
<1> DEFINE gap == erasing.gap
           j   == erasing.j
<1>1. /\ erasing # Idle /\ erasing' = Idle /\ UNCHANGED <<hash, answer>>
      /\ count' = count - 1
      /\ table' = [table EXCEPT ![gap] = EmptySlot]
      /\ j \notin Occupied
  BY LoopFacts DEF FinishErase, ShiftDone, Vacated, Occupied
<1>2. gap \in Slots /\ j \in Slots /\ gap \in Occupied /\ Entries = Occupied \ {gap}
  BY <1>1, LoopFacts
<1>3. /\ \A p \in Slots : p # gap => table'[p] = table[p] /\ Home(p)' = Home(p)
      /\ table'[gap] = EmptySlot
  BY <1>1, <1>2 DEF IInv, TypeOK, Home
<1>4. Occupied' = Entries /\ Entries' = Entries
  BY <1>1, <1>2, <1>3 DEF Occupied, Entries, EmptySlot
<1>5. count' \in Nat /\ count' <= MaxLoad /\ CountMatches'
  <2>1. IsFiniteSet(Occupied) /\ Cardinality(Occupied) = count /\ count \in Nat
    BY EmptySlotExists DEF IInv, TypeOK, CountMatches
  <2>2. /\ IsFiniteSet(Entries) /\ Cardinality(Entries) = count - 1
    BY <1>2, <2>1, FS_RemoveElement
  <2>3. Cardinality(Entries) \in Nat
    BY <2>2, FS_CardinalityType
  <2> QED
    BY <1>1, <1>4, <2>1, <2>2, <2>3, SizesAssumption DEF CountMatches, IInv
<1>6. TypeOK'
  <2>1. table' \in [Slots -> MapSlots]
    BY <1>1, <1>2 DEF IInv, TypeOK, MapSlots
  <2> QED
    BY <1>1, <1>5, <2>1 DEF IInv, TypeOK
<1>7. Reachable'
  <2> SUFFICES ASSUME NEW p \in Entries, NEW q \in Slots,
                      Dist(Home(p), q) < Dist(Home(p), p)
               PROVE  q \in Entries
    BY <1>1, <1>2, <1>3, <1>4 DEF Reachable, Occupied
  <2>1. q \in Occupied
    BY DEF IInv, Reachable
  <2>2. ASSUME q = gap
        PROVE  FALSE
    <3>1. p \in Slots /\ Home(p) \in Slots
      BY EntryType DEF IInv, Entries, Occupied
    <3>2. Dist(gap, j) <= Dist(gap, p)
      BY <1>1, <2>2 DEF IInv, Reachable
    <3>3. Dist(Home(p), j) <= Dist(Home(p), p)
      BY <1>2, <2>2, <3>1, <3>2, DistThrough
    <3>4. p # j
      BY <1>1, <1>2
    <3>5. Dist(Home(p), j) < Dist(Home(p), p)
      <4>1. /\ Dist(Home(p), j) \in Nat /\ Dist(Home(p), p) \in Nat
            /\ Dist(Home(p), j) # Dist(Home(p), p)
        BY <1>2, <3>1, <3>4, DistType
      <4> QED
        BY <3>3, <4>1
    <3> QED
      BY <1>1, <1>2, <3>5 DEF IInv, Reachable
  <2> QED
    BY <1>2, <2>1, <2>2
<1>8. IdsOnce'
  BY <1>1, <1>2, <1>3, <1>4 DEF IInv, IdsOnce, Entries, Occupied
<1> QED
  BY <1>1, <1>5, <1>6, <1>7, <1>8 DEF IInv, LoopOK

LEMMA InvStep ==
  ASSUME IInv, [Next]_vars
  PROVE  IInv'
<1>1. CASE \E id \in Keys : Find(id)
  <2>1. PICK id \in Keys : Find(id)
    BY <1>1
  <2>2. \A p \in find_pos(id) : table[p].idx \in Indices
    BY EntryType DEF find_pos, ProbeEnd, Occupied, IInv
  <2>3. answer' \in Answers
    BY <2>1, <2>2 DEF Find, Answers
  <2> QED
    BY <2>1, <2>3, QuietStep DEF Find
<1>2. CASE \E id \in Keys : InsertThrows(id)
  BY <1>2, QuietStep DEF InsertThrows, Answers
<1>3. CASE \E id \in Keys, idx \in Indices : Insert(id, idx)
  BY <1>3, InsertStep
<1>4. CASE \E id \in Keys : EraseMissing(id)
  BY <1>4, QuietStep DEF EraseMissing, Answers
<1>5. CASE \E id \in Keys : Erase(id)
  BY <1>5, EraseStep
<1>6. CASE Shift
  BY <1>6, SkipStep, MoveStep
<1>7. CASE FinishErase
  BY <1>7, FinishEraseStep
<1>8. CASE UNCHANGED vars
  BY <1>8, QuietStep DEF vars, IInv, TypeOK
<1> QED
  BY <1>1, <1>2, <1>3, <1>4, <1>5, <1>6, <1>7, <1>8 DEF Next

LEMMA InvAlways == Spec => []IInv
<1>1. Init => IInv
  BY InitInv
<1>2. IInv /\ [Next]_vars => IInv'
  BY InvStep
<1> QED
  BY <1>1, <1>2, PTL DEF Spec

-----------------------------------------------------------------------------
(* The map that the table stands for.                                      *)

\* What an id maps to is the index of its entry, which is its only one.
HeldIsEntry ==
  \A id \in Keys :
    /\ EntriesOf(id) = {} => Held[id] = NoIndex
    /\ \A p \in EntriesOf(id) : Held[id] = table[p].idx /\ Held[id] \in Indices

LEMMA HeldExact == IInv => HeldIsEntry
<1> SUFFICES ASSUME IInv, NEW id \in Keys
             PROVE  /\ EntriesOf(id) = {} => Held[id] = NoIndex
                    /\ \A p \in EntriesOf(id) : Held[id] = table[p].idx /\ Held[id] \in Indices
  BY DEF HeldIsEntry
<1>1. EntriesOf(id) = {} => Held[id] = NoIndex
  BY DEF Held
<1>2. ASSUME NEW p \in EntriesOf(id)
      PROVE  Held[id] = table[p].idx /\ Held[id] \in Indices
  <2>1. \A q \in EntriesOf(id) : q = p
    BY <1>2 DEF EntriesOf, IInv, IdsOnce
  <2>2. (CHOOSE pos \in EntriesOf(id) : TRUE) = p
    BY <1>2, <2>1
  <2>3. Held[id] = table[p].idx
    BY <1>2, <2>2 DEF Held
  <2>4. table[p].idx \in Indices
    BY <1>2, EntryType DEF EntriesOf, Entries, Occupied, IInv
  <2> QED
    BY <2>3, <2>4
<1> QED
  BY <1>1, <1>2

\* While no erase runs, the ids held are as many as count says.
LEMMA SizeIsCount ==
  ASSUME IInv, erasing = Idle
  PROVE  Contract!Size = count
<1> DEFINE ids == {id \in Keys : Held[id] # NoIndex}
           key == [p \in Occupied |-> table[p].id]
<1>1. Entries = Occupied /\ HeldIsEntry
  BY HeldExact DEF Entries
<1>2. \A id \in Keys : id \in ids <=> \E p \in Occupied : table[p].id = id
  BY <1>1, NoIndexAssumption DEF HeldIsEntry, EntriesOf
<1>3. \A p \in Occupied : table[p].id \in ids
  BY <1>2, EntryType DEF Occupied, IInv
<1>4. key \in Bijection(Occupied, ids)
  <2> HIDE DEF ids
  <2>1. key \in [Occupied -> ids]
    BY <1>3
  <2>2. \A p, q \in Occupied : key[p] = key[q] => p = q
    BY <1>1 DEF IInv, IdsOnce
  <2>3. \A id \in ids : \E p \in Occupied : key[p] = id
    <3>1. ids \subseteq Keys
      BY DEF ids
    <3> QED
      BY <1>2, <3>1
  <2> QED
    BY <2>1, <2>2, <2>3, Fun_IsBij
<1>5. Cardinality(ids) = Cardinality(Occupied)
  <2> HIDE DEF ids, key
  <2> QED
    BY <1>4, EmptySlotExists, FS_Bijection DEF ExistsBijection
<1>6. Contract!Cardinality(ids) = Cardinality(ids)
  <2> HIDE DEF ids
  <2> QED
    BY DEF Cardinality, Contract!Cardinality
<1> QED
  BY <1>5, <1>6 DEF Contract!Size, Contract!Keys, Keys, IInv, CountMatches

\* A step that leaves each id the entries it had, wherever they are now, leaves
\* the map as it was.
LEMMA HeldStays ==
  ASSUME IInv, IInv',
         \A p \in Entries : \E q \in Entries' : table'[q] = table[p],
         \A q \in Entries' : \E p \in Entries : table'[q] = table[p]
  PROVE  Held' = Held
<1>1. HeldIsEntry /\ HeldIsEntry'
  BY HeldExact, PTL
<1>2. ASSUME NEW id \in Keys
      PROVE  Held'[id] = Held[id]
  <2>1. CASE EntriesOf(id) = {}
    <3>1. EntriesOf(id)' = {}
      BY <2>1 DEF EntriesOf
    <3> QED
      BY <1>1, <2>1, <3>1 DEF HeldIsEntry
  <2>2. CASE EntriesOf(id) # {}
    <3>1. PICK p \in EntriesOf(id) : TRUE
      BY <2>2
    <3>2. PICK q \in Entries' : table'[q] = table[p]
      BY <3>1 DEF EntriesOf
    <3>3. q \in EntriesOf(id)'
      BY <3>1, <3>2 DEF EntriesOf
    <3> QED
      BY <1>1, <3>1, <3>2, <3>3 DEF HeldIsEntry
  <2> QED
    BY <2>1, <2>2
<1> QED
  BY <1>2 DEF Held

\* A step that gives one id an entry of that index and leaves the others theirs
\* changes the map at that id.
LEMMA HeldInserts ==
  ASSUME IInv, IInv', NEW id \in Keys, NEW idx \in Indices, Insert(id, idx)
  PROVE  Held' = [Held EXCEPT ![id] = idx]
<1>1. HeldIsEntry /\ HeldIsEntry'
  BY HeldExact, PTL
<1>2. PICK pos \in Slots :
        /\ ProbeEnd(id) = {pos}
        /\ table' = [table EXCEPT ![pos] = [id |-> id, idx |-> idx]]
        /\ Occupied' = Occupied \cup {pos}
  BY InsertWrites
<1>3. /\ Entries = Occupied /\ Entries' = Occupied'
      /\ table'[pos] = [id |-> id, idx |-> idx]
      /\ \A p \in Slots : p # pos => table'[p] = table[p]
  BY <1>2 DEF Insert, Entries, IInv, TypeOK
<1>4. Held'[id] = idx
  BY <1>1, <1>2, <1>3 DEF HeldIsEntry, EntriesOf
<1>5. ASSUME NEW k \in Keys, k # id
      PROVE  Held'[k] = Held[k]
  <2>1. \A p \in EntriesOf(k) : p # pos
    BY <1>2, <1>5 DEF ProbeEnd, Stops, EntriesOf, Entries, Occupied
  <2>2. EntriesOf(k)' = EntriesOf(k)
    BY <1>2, <1>3, <1>5, <2>1 DEF EntriesOf, Occupied
  <2>3. \A p \in EntriesOf(k) : table'[p] = table[p]
    BY <1>3, <2>1 DEF EntriesOf, Entries, Occupied
  <2> QED
    BY <1>1, <2>2, <2>3 DEF HeldIsEntry
<1>6. Held' = [k \in Keys |-> Held'[k]] /\ Held = [k \in Keys |-> Held[k]]
  BY DEF Held
<1> QED
  BY <1>4, <1>5, <1>6

\* The start of an erase takes the id out of the map, and nothing else.
LEMMA HeldErases ==
  ASSUME IInv, IInv', NEW id \in Keys, Erase(id)
  PROVE  Held' = [Held EXCEPT ![id] = NoIndex]
<1>1. HeldIsEntry /\ HeldIsEntry'
  BY HeldExact, PTL
<1>2. PICK pos \in find_pos(id) : erasing' = [id |-> id, gap |-> pos, j |-> Succ(pos)]
  BY DEF Erase
<1>3. /\ pos \in EntriesOf(id) /\ \A p \in EntriesOf(id) : p = pos
      /\ erasing = Idle /\ erasing' # Idle /\ table' = table
  <2>1. erasing = Idle /\ table' = table
    BY DEF Erase
  <2>2. pos \in EntriesOf(id) /\ \A p \in EntriesOf(id) : p = pos
    BY <1>2, <2>1, FindPosExact DEF EntriesOf, IInv, IdsOnce
  <2>3. erasing' \in Erasures
    <3>1. pos \in Slots /\ id \in OrderIds
      BY <2>2, EntryType DEF EntriesOf, Entries, Occupied, IInv
    <3> QED
      BY <1>2, <3>1, DistSucc DEF Erasures
  <2> QED
    BY <2>1, <2>2, <2>3, IdleAssumption
<1>4. Entries' = Entries \ {pos}
  BY <1>2, <1>3 DEF Entries, Occupied
<1>5. Held'[id] = NoIndex
  BY <1>1, <1>3, <1>4 DEF HeldIsEntry, EntriesOf
<1>6. ASSUME NEW k \in Keys, k # id
      PROVE  Held'[k] = Held[k]
  <2>1. EntriesOf(k)' = EntriesOf(k)
    BY <1>3, <1>4, <1>6 DEF EntriesOf
  <2> QED
    BY <1>1, <1>3, <2>1 DEF HeldIsEntry
<1> QED
  BY <1>5, <1>6 DEF Held

-----------------------------------------------------------------------------
(* The theorems.                                                           *)

\* The shape of the state, for every hash function and size.
THEOREM TypeCorrect == Spec => []TypeOK
BY InvAlways, PTL DEF IInv

\* No entry is ever cut off from its home slot by an erase.
THEOREM EntriesReachable == Spec => []Reachable
BY InvAlways, PTL DEF IInv

\* No id ever has two entries.
THEOREM IdsUnique == Spec => []IdsOnce
BY InvAlways, PTL DEF IInv

\* count is the number of entries.
THEOREM CountExact == Spec => []CountMatches
BY InvAlways, PTL DEF IInv

\* Every probe of a call stops in the table.
THEOREM ProbesStop == Spec => []ProbesEnd
<1>1. IInv => ProbesEnd
  BY ProbeStops DEF ProbesEnd
<1> QED
  BY <1>1, InvAlways, PTL

LEMMA ContractInit ==
  ASSUME Init
  PROVE  Contract!Init
<1>1. \A id \in Keys : EntriesOf(id) = {}
  BY DEF Init, EntriesOf, Entries, Occupied, EmptySlot
<1>2. Held = [id \in Keys |-> NoIndex]
  BY <1>1 DEF Held
<1> QED
  BY <1>2 DEF Contract!Init, Contract!Keys, Keys, Init

LEMMA ContractStep ==
  ASSUME IInv, IInv', [Next]_vars
  PROVE  [Contract!Next]_(Contract!vars)
<1>1. ASSUME UNCHANGED <<table, erasing>>
      PROVE  Held' = Held
  BY <1>1 DEF Held, EntriesOf, Entries, Occupied
<1>2. Keys = Contract!Keys
  BY DEF Keys, Contract!Keys
<1>3. ASSUME NEW id \in Keys, Find(id)
      PROVE  Contract!Find(id)
  <2>1. erasing = Idle /\ Held' = Held
    BY <1>1, <1>3 DEF Find
  <2>2. find_pos(id) = EntriesOf(id) /\ HeldIsEntry
    BY <2>1, FindPosExact, HeldExact
  <2>3. answer' = Held[id]
    BY <1>3, <2>2 DEF Find, HeldIsEntry
  <2> QED
    BY <2>1, <2>3 DEF Contract!Find
<1>4. ASSUME NEW id \in Keys, InsertThrows(id)
      PROVE  Contract!InsertThrows(id)
  BY <1>1, <1>4, SizeIsCount DEF InsertThrows, is_full, Contract!InsertThrows
<1>5. ASSUME NEW id \in Keys, NEW idx \in Indices, Insert(id, idx)
      PROVE  Contract!Insert(id, idx)
  <2>1. Contract!Size = count /\ count < MaxLoad
    BY <1>5, SizeIsCount, SizesAssumption DEF Insert, is_full, IInv, TypeOK
  <2> QED
    BY <1>5, <2>1, HeldInserts DEF Insert, Contract!Insert
<1>6. ASSUME NEW id \in Keys, EraseMissing(id)
      PROVE  Contract!Erase(id)
  <2>1. Held[id] = NoIndex /\ Held' = Held
    BY <1>1, <1>6, FindPosExact, HeldExact DEF EraseMissing, HeldIsEntry
  <2>2. Held' = [Held EXCEPT ![id] = NoIndex]
    BY <2>1 DEF Held
  <2> QED
    BY <1>6, <2>2 DEF EraseMissing, Contract!Erase
<1>7. ASSUME NEW id \in Keys, Erase(id)
      PROVE  Contract!Erase(id)
  BY <1>7, HeldErases DEF Erase, Contract!Erase
<1>8. ASSUME Shift
      PROVE  UNCHANGED Contract!vars
  <2>1. /\ erasing # Idle /\ erasing.j \in Occupied /\ answer' = answer
        /\ erasing.gap \in Slots /\ erasing.j \in Slots /\ erasing.j # erasing.gap
        /\ Entries = Occupied \ {erasing.gap}
    BY <1>8, LoopFacts DEF Shift, ShiftDone, Occupied
  <2>2. erasing' # Idle /\ Occupied' = Occupied
    <3>1. erasing' \in Erasures
      BY <1>8, <2>1, LoopFacts, DistSucc DEF Shift, Advance, Erasures
    <3>2. \A p \in Slots : table'[p].id # EmptyKey <=> table[p].id # EmptyKey
      BY <1>8, <2>1, LoopFacts DEF Shift, Occupied, IInv, TypeOK
    <3> QED
      BY <3>1, <3>2, IdleAssumption DEF Occupied
  <2>3. Entries' = Occupied \ {erasing'.gap}
    BY <2>2 DEF Entries
  <2>4. CASE MayFill(erasing.j, erasing.gap)
    <3>1. /\ erasing'.gap = erasing.j
          /\ table'[erasing.gap] = table[erasing.j]
          /\ \A p \in Slots : p # erasing.gap => table'[p] = table[p]
      BY <1>8, <2>1, <2>4, LoopFacts DEF Shift, IInv, TypeOK, Erasures
    <3>2. /\ \A p \in Entries : \E q \in Entries' : table'[q] = table[p]
          /\ \A q \in Entries' : \E p \in Entries : table'[q] = table[p]
      BY <2>1, <2>3, <3>1, LoopFacts DEF Occupied
    <3> QED
      BY <2>1, <3>2, HeldStays DEF Contract!vars
  <2>5. CASE ~MayFill(erasing.j, erasing.gap)
    <3>1. erasing'.gap = erasing.gap /\ table' = table
      BY <1>8, <2>1, <2>5, LoopFacts DEF Shift, Erasures
    <3>2. Entries' = Entries
      BY <2>1, <2>3, <3>1
    <3> QED
      BY <2>1, <3>1, <3>2, HeldStays DEF Contract!vars
  <2> QED
    BY <2>4, <2>5
<1>9. ASSUME FinishErase
      PROVE  UNCHANGED Contract!vars
  <2>1. /\ erasing # Idle /\ erasing' = Idle /\ answer' = answer
        /\ erasing.gap \in Slots /\ Entries = Occupied \ {erasing.gap}
        /\ table' = [table EXCEPT ![erasing.gap] = EmptySlot]
    BY <1>9, LoopFacts DEF FinishErase, Vacated
  <2>2. /\ table'[erasing.gap] = EmptySlot
        /\ \A p \in Slots : p # erasing.gap => table'[p] = table[p]
    BY <2>1 DEF IInv, TypeOK
  <2>3. Entries' = Entries
    BY <2>1, <2>2 DEF Entries, Occupied, EmptySlot
  <2>4. \A p \in Entries : table'[p] = table[p]
    BY <2>1, <2>2 DEF Occupied
  <2> QED
    BY <2>1, <2>3, <2>4, HeldStays DEF Contract!vars
<1>10. CASE UNCHANGED vars
  BY <1>1, <1>10 DEF vars, Contract!vars
<1>11. CASE Next
  BY <1>2, <1>3, <1>4, <1>5, <1>6, <1>7, <1>8, <1>9, <1>11 DEF Next, Contract!Next
<1> QED
  BY <1>10, <1>11

\* The table with its probing and shifting is the map the ladder engine relies
\* on, for every hash function, table size and limit below that size.
THEOREM ImplementsContract == Spec => ImplementsIdMap
<1>1. Init => Contract!Init
  BY ContractInit
<1>2. IInv /\ IInv' /\ [Next]_vars => [Contract!Next]_(Contract!vars)
  BY ContractStep
<1> QED
  BY <1>1, <1>2, InvAlways, PTL DEF Spec, ImplementsIdMap, Contract!Spec

=============================================================================
