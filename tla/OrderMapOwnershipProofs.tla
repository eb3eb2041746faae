----------------------- MODULE OrderMapOwnershipProofs -----------------------
(***************************************************************************)
(* Proofs about OrderMapOwnership, for every number of objects, regions    *)
(* and ids and every table size and limit.                                 *)
(***************************************************************************)
EXTENDS OrderMapOwnership, FiniteSetTheorems, TLAPS

(***************************************************************************)
(* The inductive invariant.  Ownership as a relation, without counting: a  *)
(* region has an owner exactly when it is mapped, and never two; what an   *)
(* owner keeps of its table is true of the table.                          *)
(***************************************************************************)
Owned(r) == \E o \in Alive : map[o].lookup_table = r

OwnerUnique ==
  \A o, x \in Alive :
    map[o].lookup_table = map[x].lookup_table /\ map[o].lookup_table # Nullptr => o = x

MappedIsOwned == \A r \in Regions : mapped[r] # 0 => Owned(r)

FieldsTrue ==
  \A o \in Alive :
    LET r == map[o].lookup_table
    IN  r # Nullptr => /\ mapped[r] = TableBytes /\ map[o].total_bytes = TableBytes
                       /\ IsFiniteSet(held[r]) /\ map[o].count = Cardinality(held[r])

IInv == TypeOK /\ OwnerUnique /\ MappedIsOwned /\ FieldsTrue

-----------------------------------------------------------------------------
\* An object that is alive has the fields of an OrderMap.
LEMMA AliveType ==
  ASSUME TypeOK, NEW o \in Alive
  PROVE  /\ map[o] \in OrderMaps /\ map[o].lookup_table \in Regions \cup {Nullptr}
         /\ map[o].count \in 0 .. MaxLoad /\ stage[o] # "none" /\ o \in Objects
BY DEF TypeOK, Alive, OrderMaps

LEMMA InitInv == Init => IInv
BY SizesAssumption DEF Init, IInv, TypeOK, OwnerUnique, MappedIsOwned, FieldsTrue, Alive, Owned

\* What the destructor leaves mapped, when the fields it reads are true.
LEMMA ReleasedExact ==
  ASSUME IInv, NEW o \in Alive
  PROVE  Released(o) = IF map[o].lookup_table = Nullptr THEN mapped
                       ELSE [mapped EXCEPT ![map[o].lookup_table] = 0]
<1>1. PICK r : r = map[o].lookup_table
  OBVIOUS
<1>2. CASE r # Nullptr
  <2>1. mapped[r] = TableBytes /\ map[o].total_bytes = TableBytes
    BY <1>1, <1>2 DEF IInv, FieldsTrue
  <2>2. TableBytes >= TableBytes
    BY SizesAssumption
  <2> QED
    BY <1>1, <1>2, <2>1, <2>2 DEF Released, munmap
<1> QED
  BY <1>1, <1>2 DEF Released

\* A map that gets a table from mmap owns it alone.
LEMMA ConstructStep ==
  ASSUME IInv, NEW o \in Objects, NEW r \in Regions, ConstructMap(o, r)
  PROVE  IInv'
<1> DEFINE new == [lookup_table |-> r, count |-> 0, total_bytes |-> TableBytes]
<1>1. new \in OrderMaps /\ new # Absent /\ r # Nullptr
  BY SizesAssumption, NullptrAssumption, AbsentAssumption DEF OrderMaps
<1>2. TypeOK'
  BY <1>1, SizesAssumption DEF IInv, TypeOK, ConstructMap
<1>3. /\ o \notin Alive /\ Alive' = Alive \cup {o} /\ map'[o] = new
      /\ \A x \in Alive : map'[x] = map[x]
  BY <1>1 DEF IInv, TypeOK, ConstructMap, Alive
<1>4. /\ mapped[r] = 0 /\ mapped'[r] = TableBytes /\ held'[r] = {}
      /\ \A q \in Regions : q # r => mapped'[q] = mapped[q] /\ held'[q] = held[q]
  BY DEF IInv, TypeOK, ConstructMap
<1>5. \A x \in Alive : map[x].lookup_table # r
  BY <1>1, <1>4, SizesAssumption DEF IInv, FieldsTrue
<1>6. OwnerUnique'
  BY <1>3, <1>5 DEF IInv, OwnerUnique
<1>7. MappedIsOwned'
  BY <1>3, <1>4 DEF IInv, MappedIsOwned, Owned
<1>8. FieldsTrue'
  <2>1. IsFiniteSet({}) /\ Cardinality({}) = 0
    BY FS_EmptySet
  <2>2. \A x \in Alive : map[x].lookup_table # Nullptr =>
           LET q == map[x].lookup_table IN mapped'[q] = mapped[q] /\ held'[q] = held[q]
    BY <1>4, <1>5, AliveType DEF IInv
  <2> HIDE DEF new
  <2>3. new.lookup_table = r /\ new.count = 0 /\ new.total_bytes = TableBytes
    BY DEF new
  <2>4. SUFFICES ASSUME NEW x \in Alive', map'[x].lookup_table # Nullptr
                 PROVE  LET q == map'[x].lookup_table
                        IN  /\ mapped'[q] = TableBytes /\ map'[x].total_bytes = TableBytes
                            /\ IsFiniteSet(held'[q]) /\ map'[x].count = Cardinality(held'[q])
    BY DEF FieldsTrue
  <2>5. CASE x = o
    BY <1>3, <1>4, <2>1, <2>3, <2>5
  <2>6. CASE x # o
    BY <1>3, <2>2, <2>4, <2>6 DEF IInv, FieldsTrue
  <2> QED
    BY <2>5, <2>6
<1> QED
  BY <1>2, <1>6, <1>7, <1>8 DEF IInv

\* A destroyed map takes its table with it, and nobody else's.
LEMMA VanishStep ==
  ASSUME IInv, NEW o \in Alive, Vanish(o)
  PROVE  IInv'
<1>0. PICK r : r = map[o].lookup_table
  OBVIOUS
<1>1. /\ mapped' = IF r = Nullptr THEN mapped ELSE [mapped EXCEPT ![r] = 0]
      /\ r \in Regions \cup {Nullptr} /\ held' = held
  BY <1>0, ReleasedExact, AliveType DEF IInv, Vanish
<1>2. TypeOK'
  BY <1>0, <1>1, AliveType, SizesAssumption DEF IInv, TypeOK, Vanish
<1>3. Alive' = Alive \ {o} /\ \A x \in Alive' : map'[x] = map[x]
  BY DEF IInv, TypeOK, Vanish, Alive
<1>4. \A x \in Alive' : map[x].lookup_table # Nullptr =>
         mapped'[map[x].lookup_table] = mapped[map[x].lookup_table]
  <2>1. \A x \in Alive' : map[x].lookup_table # Nullptr => map[x].lookup_table # r
    BY <1>0, <1>3 DEF IInv, OwnerUnique
  <2> QED
    BY <1>1, <1>3, <2>1, AliveType DEF IInv, TypeOK
<1>5. OwnerUnique'
  BY <1>3 DEF IInv, OwnerUnique
<1>6. MappedIsOwned'
  <2>1. \A q \in Regions : mapped'[q] # 0 => mapped[q] # 0 /\ q # r
    BY <1>1, NullptrAssumption DEF IInv, TypeOK
  <2>2. \A q \in Regions : mapped'[q] # 0 => \E x \in Alive' : map'[x].lookup_table = q
    BY <1>0, <1>3, <2>1 DEF IInv, MappedIsOwned, Owned
  <2> QED
    BY <2>2 DEF MappedIsOwned, Owned
<1>7. FieldsTrue'
  BY <1>0, <1>1, <1>3, <1>4 DEF IInv, FieldsTrue
<1> QED
  BY <1>2, <1>5, <1>6, <1>7 DEF IInv

\* Filling the table of a map is nobody else's business, and is counted.
LEMMA InsertStep ==
  ASSUME IInv, NEW o \in Objects, NEW id \in OrderIds, insert(o, id)
  PROVE  IInv'
<1>0. PICK r : r = map[o].lookup_table
  OBVIOUS
<1>1. /\ o \in Alive /\ r \in Regions /\ r # Nullptr /\ map[o].count < MaxLoad
      /\ map[o].count \in 0 .. MaxLoad /\ id \notin held[r]
  BY <1>0, AliveType, SizesAssumption DEF IInv, TypeOK, Alive, insert, HasTable, is_full
<1>2. map' = [map EXCEPT ![o].count = @ + 1] /\ held' = [held EXCEPT ![r] = @ \cup {id}]
  BY <1>0 DEF insert
<1>3. /\ map'[o] = [map[o] EXCEPT !.count = @ + 1] /\ map'[o] \in OrderMaps
      /\ map'[o].lookup_table = r /\ map'[o].total_bytes = map[o].total_bytes
      /\ map'[o].count = map[o].count + 1
  BY <1>0, <1>1, <1>2, AliveType, SizesAssumption DEF IInv, TypeOK, OrderMaps
<1>4. /\ \A x \in Objects : x # o => map'[x] = map[x]
      /\ Alive' = Alive /\ mapped' = mapped /\ stage' = stage
  BY <1>0, <1>1, <1>2, <1>3, AbsentAssumption DEF IInv, TypeOK, Alive, insert
<1>5. TypeOK'
  BY <1>0, <1>1, <1>2, <1>3, <1>4, AbsentAssumption DEF IInv, TypeOK, Alive
<1>6. OwnerUnique' /\ MappedIsOwned'
  <2>1. \A x \in Alive : x \in Objects
    BY DEF Alive
  <2>2. \A x \in Alive : map'[x].lookup_table = map[x].lookup_table
    BY <1>0, <1>3, <1>4, <2>1
  <2>3. OwnerUnique'
    BY <1>4, <2>2 DEF IInv, OwnerUnique
  <2>4. MappedIsOwned'
    BY <1>4, <2>2 DEF IInv, MappedIsOwned, Owned
  <2> QED
    BY <2>3, <2>4
<1>7. FieldsTrue'
  <2>1. /\ IsFiniteSet(held'[r]) /\ Cardinality(held'[r]) = Cardinality(held[r]) + 1
        /\ mapped[r] = TableBytes /\ map[o].total_bytes = TableBytes
        /\ map[o].count = Cardinality(held[r])
    <3>1. held'[r] = held[r] \cup {id}
      BY <1>0, <1>1, <1>2 DEF IInv, TypeOK
    <3>2. IsFiniteSet(held[r])
      BY <1>0, <1>1 DEF IInv, FieldsTrue
    <3>3. IsFiniteSet(held'[r]) /\ Cardinality(held'[r]) = Cardinality(held[r]) + 1
      BY <1>1, <3>1, <3>2, FS_AddElement
    <3> QED
      BY <1>0, <1>1, <3>3 DEF IInv, FieldsTrue
  <2>2. \A x \in Alive : x # o /\ map[x].lookup_table # Nullptr =>
           held'[map[x].lookup_table] = held[map[x].lookup_table]
    <3>1. \A x \in Alive : x # o /\ map[x].lookup_table # Nullptr => map[x].lookup_table # r
      BY <1>0, <1>1 DEF IInv, OwnerUnique
    <3> QED
      BY <1>2, <3>1, AliveType DEF IInv, TypeOK
  <2>3. SUFFICES ASSUME NEW x \in Alive', map'[x].lookup_table # Nullptr
                 PROVE  LET q == map'[x].lookup_table
                        IN  /\ mapped'[q] = TableBytes /\ map'[x].total_bytes = TableBytes
                            /\ IsFiniteSet(held'[q]) /\ map'[x].count = Cardinality(held'[q])
    BY DEF FieldsTrue
  <2>4. CASE x = o
    BY <1>3, <1>4, <2>1, <2>4
  <2>5. CASE x # o
    <3>1. x \in Alive /\ map'[x] = map[x] /\ mapped' = mapped
      BY <1>4, <2>5 DEF Alive
    <3> QED
      BY <2>2, <2>3, <2>5, <3>1 DEF IInv, FieldsTrue
  <2> QED
    BY <2>4, <2>5
<1> QED
  BY <1>5, <1>6, <1>7 DEF IInv

LEMMA EraseStep ==
  ASSUME IInv, NEW o \in Objects, NEW id \in OrderIds, erase(o, id)
  PROVE  IInv'
<1>0. PICK r : r = map[o].lookup_table
  OBVIOUS
<1>1. /\ o \in Alive /\ r \in Regions /\ r # Nullptr
      /\ map[o].count \in 0 .. MaxLoad /\ id \in held[r]
  BY <1>0, AliveType, SizesAssumption DEF IInv, TypeOK, Alive, erase, HasTable
<1>2. map' = [map EXCEPT ![o].count = @ - 1] /\ held' = [held EXCEPT ![r] = @ \ {id}]
  BY <1>0 DEF erase
<1>3. /\ IsFiniteSet(held'[r]) /\ Cardinality(held'[r]) = Cardinality(held[r]) - 1
      /\ mapped[r] = TableBytes /\ map[o].total_bytes = TableBytes
      /\ map[o].count = Cardinality(held[r]) /\ map[o].count > 0
  <2>1. held'[r] = held[r] \ {id}
    BY <1>0, <1>1, <1>2 DEF IInv, TypeOK
  <2>2. IsFiniteSet(held[r]) /\ held[r] # {}
    BY <1>0, <1>1 DEF IInv, FieldsTrue
  <2>3. Cardinality(held[r]) \in Nat /\ Cardinality(held[r]) # 0
    BY <2>2, FS_CardinalityType, FS_EmptySet
  <2>4. IsFiniteSet(held'[r]) /\ Cardinality(held'[r]) = Cardinality(held[r]) - 1
    BY <1>1, <2>1, <2>2, FS_RemoveElement
  <2>5. map[o].count = Cardinality(held[r]) /\ mapped[r] = TableBytes /\ map[o].total_bytes = TableBytes
    BY <1>0, <1>1 DEF IInv, FieldsTrue
  <2> QED
    BY <2>3, <2>4, <2>5
<1>4. /\ map'[o] = [map[o] EXCEPT !.count = @ - 1] /\ map'[o] \in OrderMaps
      /\ map'[o].lookup_table = r /\ map'[o].total_bytes = map[o].total_bytes
      /\ map'[o].count = map[o].count - 1
  BY <1>0, <1>1, <1>2, <1>3, AliveType, SizesAssumption DEF IInv, TypeOK, OrderMaps
<1>5. /\ \A x \in Objects : x # o => map'[x] = map[x]
      /\ Alive' = Alive /\ mapped' = mapped /\ stage' = stage
  BY <1>0, <1>1, <1>2, <1>4, AbsentAssumption DEF IInv, TypeOK, Alive, erase
<1>6. TypeOK'
  BY <1>0, <1>1, <1>2, <1>4, <1>5, AbsentAssumption DEF IInv, TypeOK, Alive
<1>7. OwnerUnique' /\ MappedIsOwned'
  <2>1. \A x \in Alive : x \in Objects
    BY DEF Alive
  <2>2. \A x \in Alive : map'[x].lookup_table = map[x].lookup_table
    BY <1>0, <1>4, <1>5, <2>1
  <2>3. OwnerUnique'
    BY <1>5, <2>2 DEF IInv, OwnerUnique
  <2>4. MappedIsOwned'
    BY <1>5, <2>2 DEF IInv, MappedIsOwned, Owned
  <2> QED
    BY <2>3, <2>4
<1>8. FieldsTrue'
  <2>1. \A x \in Alive : x # o /\ map[x].lookup_table # Nullptr =>
           held'[map[x].lookup_table] = held[map[x].lookup_table]
    <3>1. \A x \in Alive : x # o /\ map[x].lookup_table # Nullptr => map[x].lookup_table # r
      BY <1>0, <1>1 DEF IInv, OwnerUnique
    <3> QED
      BY <1>2, <3>1, AliveType DEF IInv, TypeOK
  <2>2. SUFFICES ASSUME NEW x \in Alive', map'[x].lookup_table # Nullptr
                 PROVE  LET q == map'[x].lookup_table
                        IN  /\ mapped'[q] = TableBytes /\ map'[x].total_bytes = TableBytes
                            /\ IsFiniteSet(held'[q]) /\ map'[x].count = Cardinality(held'[q])
    BY DEF FieldsTrue
  <2>3. CASE x = o
    BY <1>3, <1>4, <1>5, <2>3
  <2>4. CASE x # o
    <3>1. x \in Alive /\ map'[x] = map[x] /\ mapped' = mapped
      BY <1>5, <2>4 DEF Alive
    <3> QED
      BY <2>1, <2>2, <2>4, <3>1 DEF IInv, FieldsTrue
  <2> QED
    BY <2>3, <2>4
<1> QED
  BY <1>6, <1>7, <1>8 DEF IInv

-----------------------------------------------------------------------------
\* NoTable is what a moved-from map is.
LEMMA NoTableType == NoTable \in OrderMaps /\ NoTable.lookup_table = Nullptr /\ NoTable # Absent
BY SizesAssumption, AbsentAssumption DEF NoTable, OrderMaps

\* A move hands the table over: the source no longer points to it.
LEMMA MoveConstructStep ==
  ASSUME IInv, NEW dst \in Objects, NEW src \in Objects, MoveConstruct(dst, src)
  PROVE  IInv'
<1>1. src \in Alive /\ dst \notin Alive /\ dst # src
  BY DEF IInv, TypeOK, Alive, MoveConstruct
<1>2. /\ map'[dst] = map[src] /\ map'[src] = NoTable
      /\ \A x \in Objects : x # dst /\ x # src => map'[x] = map[x]
      /\ mapped' = mapped /\ held' = held
  BY <1>1 DEF IInv, TypeOK, MoveConstruct, MovedTo, MovedFrom
<1>3. map' \in [Objects -> OrderMaps \cup {Absent}] /\ Alive' = Alive \cup {dst}
  BY <1>1, <1>2, NoTableType, AliveType, AbsentAssumption
  DEF IInv, TypeOK, Alive, MoveConstruct
<1>4. TypeOK'
  BY <1>1, <1>2, <1>3, NoTableType, AliveType, AbsentAssumption
  DEF IInv, TypeOK, MoveConstruct
<1>5. OwnerUnique'
  BY <1>1, <1>2, <1>3, NoTableType DEF IInv, OwnerUnique, Alive
<1>6. MappedIsOwned'
  BY <1>1, <1>2, <1>3, NoTableType, NullptrAssumption
  DEF IInv, MappedIsOwned, Owned, Alive
<1>7. FieldsTrue'
  BY <1>1, <1>2, <1>3, NoTableType DEF IInv, FieldsTrue, Alive
<1> QED
  BY <1>4, <1>5, <1>6, <1>7 DEF IInv

\* So does an assignment, after the target gave its own table back.
LEMMA MoveAssignStep ==
  ASSUME IInv, NEW dst \in Objects, NEW src \in Objects, MoveAssign(dst, src), dst # src
  PROVE  IInv'
<1>0. PICK r : r = map[dst].lookup_table
  OBVIOUS
<1>1. src \in Alive /\ dst \in Alive
  BY DEF IInv, TypeOK, Alive, MoveAssign
<1>2. /\ map'[dst] = map[src] /\ map'[src] = NoTable
      /\ \A x \in Objects : x # dst /\ x # src => map'[x] = map[x]
      /\ held' = held /\ stage' = stage
      /\ mapped' = IF r = Nullptr THEN mapped ELSE [mapped EXCEPT ![r] = 0]
  BY <1>0, <1>1, ReleasedExact DEF IInv, TypeOK, MoveAssign, MovedTo, MovedFrom, IsSelf
<1>3. r \in Regions \cup {Nullptr} /\ map[src].lookup_table \in Regions \cup {Nullptr}
  BY <1>0, <1>1, AliveType DEF IInv
<1>4. map' \in [Objects -> OrderMaps \cup {Absent}] /\ Alive' = Alive
  BY <1>0, <1>1, <1>2, NoTableType, AliveType, AbsentAssumption
  DEF IInv, TypeOK, Alive, MoveAssign, IsSelf
<1>5. TypeOK'
  BY <1>0, <1>1, <1>2, <1>3, <1>4, SizesAssumption DEF IInv, TypeOK, Alive
<1>6. \A x \in Alive : x # dst /\ map[x].lookup_table # Nullptr =>
         mapped'[map[x].lookup_table] = mapped[map[x].lookup_table]
  BY <1>0, <1>1, <1>2, <1>3, AliveType DEF IInv, OwnerUnique, TypeOK
<1>7. OwnerUnique'
  BY <1>0, <1>1, <1>2, <1>4, NoTableType DEF IInv, OwnerUnique, Alive
<1>8. MappedIsOwned'
  BY <1>0, <1>1, <1>2, <1>3, <1>4, NoTableType, NullptrAssumption
  DEF IInv, MappedIsOwned, Owned, Alive, TypeOK
<1>9. FieldsTrue'
  BY <1>0, <1>1, <1>2, <1>4, <1>6, NoTableType DEF IInv, FieldsTrue, Alive
<1> QED
  BY <1>5, <1>7, <1>8, <1>9 DEF IInv

LEMMA InvStep == IInv /\ [Next]_vars => IInv'
<1> SUFFICES ASSUME IInv, [Next]_vars
             PROVE  IInv'
  OBVIOUS
<1>1. ASSUME NEW o \in Objects, BodyReturns(o)
      PROVE  IInv'
  BY <1>1 DEF BodyReturns, IInv, TypeOK, OwnerUnique, MappedIsOwned, FieldsTrue, Alive, Owned
<1>2. ASSUME NEW o \in Objects, BodyThrows(o) \/ Destroy(o)
      PROVE  IInv'
  <2>1. o \in Alive /\ Vanish(o)
    BY <1>2 DEF BodyThrows, Destroy, IInv, TypeOK, Alive
  <2> QED
    BY <2>1, VanishStep
<1>3. ASSUME NEW dst \in Objects, NEW src \in Objects, MoveAssign(dst, src)
      PROVE  IInv'
  <2>1. CASE dst = src
    BY <1>3, <2>1 DEF MoveAssign, IsSelf, IInv, TypeOK, OwnerUnique, MappedIsOwned,
                      FieldsTrue, Alive, Owned
  <2> QED
    BY <1>3, <2>1, MoveAssignStep
<1>4. CASE UNCHANGED vars
  BY <1>4 DEF vars, IInv, TypeOK, OwnerUnique, MappedIsOwned, FieldsTrue, Alive, Owned
<1>5. CASE Next
  BY <1>1, <1>2, <1>3, <1>4, <1>5, ConstructStep, InsertStep, EraseStep, MoveConstructStep
  DEF Next, MapFails
<1> QED
  BY <1>4, <1>5

LEMMA InvAlways == Spec => []IInv
BY InitInv, InvStep, PTL DEF Spec

-----------------------------------------------------------------------------
(* What the checked properties say.                                        *)

\* Owning, counted: a mapped region has one owner, another region none.
LEMMA OwnersCounted ==
  ASSUME IInv, NEW r \in Regions
  PROVE  Cardinality(OwnersOf(r)) = IF mapped[r] = 0 THEN 0 ELSE 1
<1>1. CASE mapped[r] = 0
  <2>1. OwnersOf(r) = {}
    BY <1>1, SizesAssumption, NullptrAssumption DEF IInv, FieldsTrue, OwnersOf
  <2> QED
    BY <1>1, <2>1, FS_EmptySet
<1>2. CASE mapped[r] # 0
  <2>1. PICK o \in Alive : map[o].lookup_table = r
    BY <1>2 DEF IInv, MappedIsOwned, Owned
  <2>2. OwnersOf(r) = {o}
    BY <2>1, NullptrAssumption DEF IInv, OwnerUnique, OwnersOf
  <2> QED
    BY <1>2, <2>2, FS_Singleton
<1> QED
  BY <1>1, <1>2

\* Through every interleaving of constructions that throw, moves, assignments
\* and destructions, each mapped region has one owner and no owner points to
\* memory that was given back, for every number of engines.
THEOREM OneOwnerAlways == Spec => []OneOwner
<1>1. IInv => OneOwner
  BY OwnersCounted DEF OneOwner, IInv, FieldsTrue
<1> QED
  BY <1>1, InvAlways, PTL

-----------------------------------------------------------------------------
(* The refinement: the value an object holds is the table it points to.    *)

ValueOf(o) == IF map[o].lookup_table = Nullptr THEN Nullptr ELSE held[map[o].lookup_table]

Contents == [o \in Alive |-> ValueOf(o)]

\* The two modules take Cardinality from two instances of FiniteSets.
LEMMA SameCardinality == \A S : Values!Cardinality(S) = Cardinality(S)
BY DEF Cardinality, Values!Cardinality

\* A live object that has a table holds the ids in it; they fit the count.
LEMMA HeldValue ==
  ASSUME IInv, NEW o \in Alive, map[o].lookup_table # Nullptr
  PROVE  /\ ValueOf(o) = held[map[o].lookup_table] /\ ValueOf(o) \in SUBSET OrderIds
         /\ ValueOf(o) # Nullptr /\ map[o].lookup_table \in Regions
         /\ map[o].count = Cardinality(ValueOf(o))
BY AliveType, NullptrAssumption DEF IInv, TypeOK, FieldsTrue, ValueOf

\* A table one object fills or empties is no other object's value.
LEMMA OtherValues ==
  ASSUME IInv, NEW o \in Alive, NEW r, r = map[o].lookup_table, r # Nullptr, Alive' = Alive,
         \A x \in Alive : map'[x].lookup_table = map[x].lookup_table,
         \A q \in Regions : q # r => held'[q] = held[q]
  PROVE  \A x \in Alive : x # o => ValueOf(x)' = ValueOf(x)
<1> SUFFICES ASSUME NEW x \in Alive, x # o
             PROVE  ValueOf(x)' = ValueOf(x)
  OBVIOUS
<1>1. map[x].lookup_table # Nullptr => map[x].lookup_table # r /\ map[x].lookup_table \in Regions
  BY AliveType DEF IInv, OwnerUnique
<1> QED
  BY <1>1 DEF ValueOf

LEMMA InitValues == Init => Values!Init
<1> SUFFICES ASSUME Init PROVE Values!Init
  OBVIOUS
<1>1. Alive = {}
  BY DEF Init, Alive
<1> QED
  BY <1>1 DEF Values!Init

LEMMA ConstructValue ==
  ASSUME IInv, NEW o \in Objects, NEW r \in Regions, ConstructMap(o, r)
  PROVE  Values!Create(o)
<1>1. /\ o \notin Alive /\ Alive' = Alive \cup {o} /\ map'[o].lookup_table = r /\ held'[r] = {}
      /\ \A x \in Alive : map'[x] = map[x]
      /\ \A q \in Regions : q # r => held'[q] = held[q]
  BY SizesAssumption, AbsentAssumption DEF IInv, TypeOK, ConstructMap, Alive, OrderMaps
<1>2. \A x \in Alive : map[x].lookup_table # r
  BY SizesAssumption, NullptrAssumption DEF IInv, FieldsTrue, ConstructMap
<1>3. \A x \in Alive : ValueOf(x)' = ValueOf(x)
  BY <1>1, <1>2, AliveType DEF IInv, ValueOf
<1>4. ValueOf(o)' = {}
  BY <1>1, NullptrAssumption DEF ValueOf
<1> QED
  BY <1>1, <1>3, <1>4 DEF Values!Create, ValueOf

LEMMA VanishValue ==
  ASSUME IInv, NEW o \in Alive, Vanish(o)
  PROVE  Values!Destroy(o)
<1>1. /\ Alive' = Alive \ {o} /\ held' = held /\ \A x \in Alive' : map'[x] = map[x]
  BY DEF IInv, TypeOK, Vanish, Alive
<1>2. \A x \in Alive' : ValueOf(x)' = ValueOf(x)
  BY <1>1 DEF ValueOf
<1> QED
  BY <1>1, <1>2 DEF Values!Destroy, Values!Without, ValueOf

LEMMA InsertValue ==
  ASSUME IInv, NEW o \in Objects, NEW id \in OrderIds, insert(o, id)
  PROVE  Values!Insert(o, id)
<1>0. PICK r : r = map[o].lookup_table
  OBVIOUS
<1>1. /\ o \in Alive /\ r # Nullptr /\ r \in Regions /\ map[o].count < MaxLoad
  BY <1>0, AliveType, SizesAssumption DEF IInv, TypeOK, Alive, insert, HasTable, is_full
<1>2. /\ \A x \in Objects : x # o => map'[x] = map[x]
      /\ map'[o].lookup_table = r /\ map'[o] \in OrderMaps
      /\ held'[r] = held[r] \cup {id} /\ \A q \in Regions : q # r => held'[q] = held[q]
  BY <1>0, <1>1, AliveType, SizesAssumption DEF IInv, TypeOK, insert, is_full, OrderMaps
<1>3. Alive' = Alive /\ \A x \in Alive : map'[x].lookup_table = map[x].lookup_table
  BY <1>0, <1>1, <1>2, AbsentAssumption DEF Alive
<1>4. /\ \A x \in Alive : x # o => ValueOf(x)' = ValueOf(x)
      /\ ValueOf(o)' = ValueOf(o) \cup {id} /\ ValueOf(o) # Nullptr
      /\ Values!Cardinality(ValueOf(o)) < MaxLoad
  BY <1>0, <1>1, <1>2, <1>3, OtherValues, HeldValue, SameCardinality DEF ValueOf
<1> QED
  BY <1>1, <1>3, <1>4 DEF Values!Insert, ValueOf

LEMMA EraseValue ==
  ASSUME IInv, NEW o \in Objects, NEW id \in OrderIds, erase(o, id), IInv'
  PROVE  Values!Erase(o, id)
<1>0. PICK r : r = map[o].lookup_table
  OBVIOUS
<1>1. /\ o \in Alive /\ r # Nullptr /\ r \in Regions
  BY <1>0, AliveType, SizesAssumption DEF IInv, TypeOK, Alive, erase, HasTable
<1>2. /\ \A x \in Objects : x # o => map'[x] = map[x]
      /\ map'[o].lookup_table = r
      /\ held'[r] = held[r] \ {id} /\ \A q \in Regions : q # r => held'[q] = held[q]
  BY <1>0, <1>1, AliveType DEF IInv, TypeOK, erase, OrderMaps
<1>3. Alive' = Alive /\ \A x \in Alive : map'[x].lookup_table = map[x].lookup_table
  BY <1>0, <1>1, <1>2 DEF Alive, erase, IInv, TypeOK
<1>4. /\ \A x \in Alive : x # o => ValueOf(x)' = ValueOf(x)
      /\ ValueOf(o)' = ValueOf(o) \ {id} /\ ValueOf(o) # Nullptr
  BY <1>0, <1>1, <1>2, <1>3, OtherValues, HeldValue DEF ValueOf
<1> QED
  BY <1>1, <1>3, <1>4 DEF Values!Erase, ValueOf

\* Both moves hand the value of the source over and leave none behind.
LEMMA MoveValue ==
  ASSUME IInv, NEW dst \in Objects, NEW src \in Objects, dst # src,
         MoveConstruct(dst, src) \/ MoveAssign(dst, src)
  PROVE  Values!Move(dst, src)
<1>1. /\ src \in Alive /\ held' = held
      /\ map'[dst] = map[src] /\ map'[src] = NoTable
      /\ \A x \in Objects : x # dst /\ x # src => map'[x] = map[x]
  BY DEF IInv, TypeOK, Alive, MoveConstruct, MoveAssign, MovedTo, MovedFrom, IsSelf
<1>2. Alive' = Alive \cup {dst}
  BY <1>1, NoTableType DEF Alive
<1>3. /\ ValueOf(dst)' = ValueOf(src) /\ ValueOf(src)' = Nullptr
      /\ \A x \in Alive : x # dst /\ x # src => ValueOf(x)' = ValueOf(x)
  <2>1. \A x \in Alive : x \in Objects
    BY DEF Alive
  <2> QED
    BY <1>1, <2>1, NoTableType DEF ValueOf
<1> QED
  BY <1>1, <1>2, <1>3 DEF Values!Move, ValueOf

LEMMA ValuesStep == IInv /\ IInv' /\ [Next]_vars => [Values!Next]_(Contents)
<1> SUFFICES ASSUME IInv, IInv', [Next]_vars
             PROVE  Values!Next \/ UNCHANGED Contents
  OBVIOUS
<1>1. ASSUME map' = map, held' = held
      PROVE  UNCHANGED Contents
  BY <1>1 DEF Contents, Alive, ValueOf
<1>2. ASSUME NEW o \in Objects, BodyThrows(o) \/ Destroy(o)
      PROVE  Values!Next
  <2>1. o \in Alive /\ Vanish(o)
    BY <1>2 DEF BodyThrows, Destroy, IInv, TypeOK, Alive
  <2> QED
    BY <2>1, VanishValue DEF Values!Next
<1>3. ASSUME NEW dst \in Objects, NEW src \in Objects,
             MoveConstruct(dst, src) \/ MoveAssign(dst, src)
      PROVE  Values!Next \/ UNCHANGED Contents
  <2>1. CASE dst = src
    BY <1>1, <1>3, <2>1 DEF MoveConstruct, MoveAssign, IsSelf
  <2>2. CASE dst # src
    BY <1>3, <2>2, MoveValue DEF Values!Next
  <2> QED
    BY <2>1, <2>2
<1>4. ASSUME NEW o \in Objects, NEW r \in Regions, ConstructMap(o, r)
      PROVE  Values!Next
  BY <1>4, ConstructValue DEF Values!Next
<1>5. ASSUME NEW o \in Objects, NEW id \in OrderIds, insert(o, id) \/ erase(o, id)
      PROVE  Values!Next
  BY <1>5, InsertValue, EraseValue DEF Values!Next
<1>6. ASSUME NEW o \in Objects, BodyReturns(o)
      PROVE  UNCHANGED Contents
  BY <1>1, <1>6 DEF BodyReturns
<1>7. CASE UNCHANGED vars
  BY <1>1, <1>7 DEF vars
<1>8. CASE Next
  BY <1>2, <1>3, <1>4, <1>5, <1>6, <1>7, <1>8 DEF Next, MapFails
<1> QED
  BY <1>7, <1>8

\* For every number of engines, an id map is a value of its variable: moves
\* carry it, and nothing done through one variable shows in another.
THEOREM MovesAreValuesAlways == Spec => MovesAreValues
<1>1. UNCHANGED Contents <=> UNCHANGED [o \in Alive |->
         IF map[o].lookup_table = Nullptr THEN Nullptr ELSE held[map[o].lookup_table]]
  BY DEF Contents, ValueOf
<1> QED
  BY <1>1, InitValues, InvAlways, ValuesStep, PTL DEF Spec, MovesAreValues, Values!Spec, Contents, ValueOf

=============================================================================
