------------------------- MODULE OrderMapOwnership -------------------------
(***************************************************************************)
(* Who owns the memory of the id map.  OrderMap maps its table with mmap,  *)
(* a bitmap engine has an OrderMap as a member and is moved member by      *)
(* member, and the body of the engine's constructor may throw after the    *)
(* table is mapped.  An object is a variable of the program that can hold  *)
(* an engine.  Tables are sets of ids here, as OrderMap shows they may be. *)
(* A moved-from map has no table: find, insert and erase on it dereference *)
(* null, so callers make no such call.                                     *)
(***************************************************************************)
EXTENDS Naturals, FiniteSets

CONSTANTS
  Objects,
  Regions,      \* the addresses mmap hands out
  OrderIds,
  TableBytes,   \* kSlotSize * sizeof(MapSlot)
  MaxLoad,      \* kOrderMapMaxLoad
  Nullptr,
  Absent        \* no object is alive there

\* class OrderMap.
OrderMaps ==
  [lookup_table : Regions \cup {Nullptr}, count : 0 .. MaxLoad, total_bytes : {0, TableBytes}]

ASSUME SizesAssumption   == TableBytes \in Nat \ {0} /\ MaxLoad \in Nat
ASSUME NullptrAssumption == Nullptr \notin Regions /\ \A ids \in SUBSET OrderIds : ids # Nullptr
ASSUME AbsentAssumption  == Absent \notin OrderMaps

VARIABLES
  mapped,   \* mapped[r]: the bytes of region r that are mapped
  held,     \* held[r]: the ids of the table there; a fresh table has none
  map,      \* map[o]: the fields of the OrderMap of o, or Absent
  stage     \* "none"; "body": in the body of the constructor; "built"

vars == <<mapped, held, map, stage>>

-----------------------------------------------------------------------------
NoTable == [lookup_table |-> Nullptr, count |-> 0, total_bytes |-> 0]

\* munmap: bytes beyond the length given stay mapped.
munmap(m, r, bytes) == [m EXCEPT ![r] = IF bytes >= @ THEN 0 ELSE @ - bytes]

\* The mappings after ~OrderMap of o, or the start of its move assignment.
Released(o) ==
  IF map[o].lookup_table = Nullptr THEN mapped
  ELSE munmap(mapped, map[o].lookup_table, map[o].total_bytes)

\* MovedFrom, leaving the pointer behind.
MovedFromKeepsTable(m) == [m EXCEPT !.count = 0, !.total_bytes = 0]

\* What a move leaves in its source.
MovedFrom(m) == NoTable

\* MovedTo, with the count of an empty map.
MovedToUncounted(m) == [m EXCEPT !.count = 0]

\* What a move puts into its target.
MovedTo(m) == m

-----------------------------------------------------------------------------
Init ==
  /\ mapped = [r \in Regions |-> 0]
  /\ held = [r \in Regions |-> {}]
  /\ map = [o \in Objects |-> Absent]
  /\ stage = [o \in Objects |-> "none"]

\* The engine's constructor up to its body: OrderMap maps its table, from huge
\* pages or, where there are none, from ordinary ones, and clears it.
ConstructMap(o, r) ==
  /\ stage[o] = "none"
  /\ mapped[r] = 0
  /\ mapped' = [mapped EXCEPT ![r] = TableBytes]
  /\ held' = [held EXCEPT ![r] = {}]
  /\ map' = [map EXCEPT ![o] = [lookup_table |-> r, count |-> 0, total_bytes |-> TableBytes]]
  /\ stage' = [stage EXCEPT ![o] = "body"]

\* Both mmaps fail: OrderMap's constructor throws, and as no OrderMap was built
\* none is destroyed.
MapFails(o) == stage[o] = "none" /\ UNCHANGED vars

\* ~OrderMap.
Vanish(o) ==
  /\ mapped' = Released(o)
  /\ map' = [map EXCEPT ![o] = Absent]
  /\ stage' = [stage EXCEPT ![o] = "none"]
  /\ UNCHANGED held

\* The body refuses the configuration, or a resize has no memory: the engine is
\* not built, its members are destroyed.
BodyThrows(o) == stage[o] = "body" /\ Vanish(o)

BodyReturns(o) ==
  /\ stage[o] = "body"
  /\ stage' = [stage EXCEPT ![o] = "built"]
  /\ UNCHANGED <<mapped, held, map>>

Destroy(o) == stage[o] = "built" /\ Vanish(o)

HasTable(o) == stage[o] = "built" /\ map[o].lookup_table # Nullptr

is_full(o) == map[o].count >= MaxLoad

insert(o, id) ==
  /\ HasTable(o)
  /\ ~is_full(o)
  /\ LET r == map[o].lookup_table
     IN  /\ id \notin held[r]
         /\ held' = [held EXCEPT ![r] = @ \cup {id}]
  /\ map' = [map EXCEPT ![o].count = @ + 1]
  /\ UNCHANGED <<mapped, stage>>

erase(o, id) ==
  /\ HasTable(o)
  /\ LET r == map[o].lookup_table
     IN  /\ id \in held[r]
         /\ held' = [held EXCEPT ![r] = @ \ {id}]
  /\ map' = [map EXCEPT ![o].count = @ - 1]
  /\ UNCHANGED <<mapped, stage>>

\* OrderMap(OrderMap&&), as the engine's implicit move constructor calls it.
MoveConstruct(dst, src) ==
  /\ stage[dst] = "none"
  /\ stage[src] = "built"
  /\ map' = [map EXCEPT ![dst] = MovedTo(map[src]), ![src] = MovedFrom(map[src])]
  /\ stage' = [stage EXCEPT ![dst] = "built"]
  /\ UNCHANGED <<mapped, held>>

\* The test of operator= for self-assignment, forgotten.
IsSelfNever(dst, src) == FALSE

IsSelf(dst, src) == dst = src

\* operator=(OrderMap&&), likewise; assigning a map to itself does nothing.
MoveAssign(dst, src) ==
  /\ stage[dst] = "built" /\ stage[src] = "built"
  /\ IF IsSelf(dst, src) THEN UNCHANGED <<mapped, map>>
     ELSE /\ mapped' = Released(dst)
          /\ map' = [map EXCEPT ![dst] = MovedTo(map[src]), ![src] = MovedFrom(map[src])]
  /\ UNCHANGED <<held, stage>>

Next ==
  \E o \in Objects :
    \/ \E r \in Regions : ConstructMap(o, r)
    \/ MapFails(o)
    \/ BodyThrows(o)
    \/ BodyReturns(o)
    \/ Destroy(o)
    \/ \E id \in OrderIds : insert(o, id) \/ erase(o, id)
    \/ \E src \in Objects : MoveConstruct(o, src) \/ MoveAssign(o, src)

Spec == Init /\ [][Next]_vars

-----------------------------------------------------------------------------
Alive == {o \in Objects : map[o] # Absent}

OwnersOf(r) == {o \in Alive : map[o].lookup_table = r}

\* TypeOK: the shape of the state.
TypeOK ==
  /\ mapped \in [Regions -> 0 .. TableBytes]
  /\ held \in [Regions -> SUBSET OrderIds]
  /\ map \in [Objects -> OrderMaps \cup {Absent}]
  /\ stage \in [Objects -> {"none", "body", "built"}]
  /\ \A o \in Objects : map[o] = Absent <=> stage[o] = "none"

\* OneOwner: through constructions that throw, moves, assignments over a live
\* engine and destructions, each mapped region belongs to exactly one object
\* (nothing leaks, nothing is unmapped twice or under another object's feet)
\* and each table an object points to is mapped whole.  TypeOK is part of it.
OneOwner ==
  /\ TypeOK
  /\ \A r \in Regions : Cardinality(OwnersOf(r)) = IF mapped[r] = 0 THEN 0 ELSE 1
  /\ \A o \in Alive : LET r == map[o].lookup_table IN
       r # Nullptr => mapped[r] = TableBytes /\ map[o].total_bytes = TableBytes

-----------------------------------------------------------------------------
(* The value each object stands for.                                       *)

Values == INSTANCE MoveOnlyMaps WITH
  NoTable  <- Nullptr,
  contents <- [o \in Alive |->
                 IF map[o].lookup_table = Nullptr THEN Nullptr ELSE held[map[o].lookup_table]]

\* MovesAreValues: an id map behaves as a value of its variable: a move carries
\* every entry and the room that is left, an insert or erase through one engine
\* never shows in another, and a refused construction leaves the others alone.
MovesAreValues == Values!Spec

=============================================================================
