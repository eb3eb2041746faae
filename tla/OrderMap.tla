------------------------------ MODULE OrderMap ------------------------------
(***************************************************************************)
(* bitmap_engine::OrderMap: an open-addressing hash table with linear      *)
(* probing, which erases by shifting later entries back over the gap.      *)
(* The hash function is a variable that never changes, so that a property  *)
(* holds for every hash function and not only for fib_hashing.  find and   *)
(* insert are one action each, with the slot their loop stops at given     *)
(* directly; erase is one action per round of its loop, so that what holds *)
(* between two rounds can be stated.                                       *)
(***************************************************************************)
EXTENDS Integers, FiniteSets

CONSTANTS
  OrderIds,   \* the ids callers use, but for 0
  EmptyKey,   \* kEmptyKey, order id 0
  Indices,    \* order slots
  NoIndex,    \* kInvalidOrderIndex
  SlotSize,   \* kSlotSize
  MaxLoad,    \* kOrderMapMaxLoad
  Idle        \* no erase under way

ASSUME EmptyKeyAssumption == EmptyKey \notin OrderIds
ASSUME NoIndexAssumption  == NoIndex \notin Indices

\* MaxLoad is 0.7 of SlotSize in the code; that it is less is all that matters.
ASSUME SizesAssumption == SlotSize \in Nat /\ MaxLoad \in Nat /\ MaxLoad < SlotSize

Keys  == OrderIds \cup {EmptyKey}
Slots == 0 .. SlotSize - 1

Erasures == [id : OrderIds, gap : Slots, j : Slots]

ASSUME IdleAssumption == Idle \notin Erasures

VARIABLES
  hash,      \* fib_hashing
  table,     \* lookup_table
  count,
  erasing,   \* the locals gap and j of erase and the id it erases, or Idle
  answer     \* what the last call returned or threw

vars == <<hash, table, count, erasing, answer>>

-----------------------------------------------------------------------------
EmptySlot == [id |-> EmptyKey, idx |-> NoIndex]

MapSlots == [id : OrderIds, idx : Indices] \cup {EmptySlot}

\* (pos + 1) & kSlotMask.
Succ(pos) == IF pos = SlotSize - 1 THEN 0 ELSE pos + 1

\* (b - a) & kSlotMask: the steps from a to b, going round.
Dist(a, b) == IF b >= a THEN b - a ELSE b - a + SlotSize

Home(pos) == hash[table[pos].id]

\* is_full, one entry too late.
is_full_late == count > MaxLoad

is_full == count >= MaxLoad

\* A probe for the id stops at this slot.
Stops(id, pos) == table[pos].id = id \/ table[pos].id = EmptyKey

\* The slot a probe for the id stops at: the first such slot from its home on.
\* Empty when the probe comes back to where it started.
ProbeEnd(id) ==
  {pos \in Slots :
     /\ Stops(id, pos)
     /\ \A q \in Slots : Dist(hash[id], q) < Dist(hash[id], pos) => ~Stops(id, q)}

\* find_pos: the slot of the id, none if there is no such slot.
find_pos(id) == {pos \in ProbeEnd(id) : table[pos].id # EmptyKey}

-----------------------------------------------------------------------------
Init ==
  /\ hash \in {h \in [Keys -> Slots] : h[EmptyKey] = 0}
  /\ table = [pos \in Slots |-> EmptySlot]
  /\ count = 0
  /\ erasing = Idle
  /\ answer = "void"

Find(id) ==
  /\ erasing = Idle
  /\ answer' \in IF find_pos(id) = {} THEN {NoIndex} ELSE {table[pos].idx : pos \in find_pos(id)}
  /\ UNCHANGED <<hash, table, count, erasing>>

InsertThrows(id) ==
  /\ erasing = Idle
  /\ is_full \/ id = EmptyKey
  /\ answer' = "throws"
  /\ UNCHANGED <<hash, table, count, erasing>>

\* Added, counting an entry that is only given another index.
AddedAlways(slots) == Cardinality(slots)

\* The entries an insert at these slots adds.
Added(slots) == Cardinality({pos \in slots : table[pos].id = EmptyKey})

\* Stores the pair in the slot the probe stops at; with no such slot it returns
\* with nothing stored.
Insert(id, idx) ==
  /\ erasing = Idle
  /\ ~is_full /\ id # EmptyKey
  /\ table' = [pos \in Slots |->
                 IF pos \in ProbeEnd(id) THEN [id |-> id, idx |-> idx] ELSE table[pos]]
  /\ count' = count + Added(ProbeEnd(id))
  /\ answer' = "void"
  /\ UNCHANGED <<hash, erasing>>

EraseMissing(id) ==
  /\ erasing = Idle
  /\ find_pos(id) = {}
  /\ answer' = "void"
  /\ UNCHANGED <<hash, table, count, erasing>>

Erase(id) ==
  /\ erasing = Idle
  /\ \E pos \in find_pos(id) : erasing' = [id |-> id, gap |-> pos, j |-> Succ(pos)]
  /\ answer' = "void"
  /\ UNCHANGED <<hash, table, count>>

\* The loop of erase has ended.
ShiftDone == table[erasing.j].id = EmptyKey \/ erasing.j = erasing.gap

\* MayFill, comparing positions as if the table did not wrap around.
MayFillLinear(pos, gap) == Home(pos) <= gap

\* The entry at pos may move back to the gap: the gap lies on its probe path.
MayFill(pos, gap) == Dist(Home(pos), gap) < Dist(Home(pos), pos)

\* j after a round, advancing only past entries that moved.
AdvanceIfMoved(e, moved) == IF moved THEN Succ(e.j) ELSE e.j

Advance(e, moved) == Succ(e.j)

\* One round of the loop of erase.
Shift ==
  /\ erasing # Idle
  /\ ~ShiftDone
  /\ LET e     == erasing
         moved == MayFill(e.j, e.gap)
     IN  /\ table' = IF moved THEN [table EXCEPT ![e.gap] = table[e.j]] ELSE table
         /\ erasing' = [e EXCEPT !.gap = IF moved THEN e.j ELSE @, !.j = Advance(e, moved)]
  /\ UNCHANGED <<hash, count, answer>>

\* Vacated, leaving the old entry in the slot.
VacatedNot(pos) == table

Vacated(pos) == [table EXCEPT ![pos] = EmptySlot]

\* erase after its loop.
FinishErase ==
  /\ erasing # Idle
  /\ ShiftDone
  /\ table' = Vacated(erasing.gap)
  /\ count' = count - 1
  /\ erasing' = Idle
  /\ UNCHANGED <<hash, answer>>

Next ==
  \/ \E id \in Keys : Find(id)
  \/ \E id \in Keys : InsertThrows(id)
  \/ \E id \in Keys, idx \in Indices : Insert(id, idx)
  \/ \E id \in Keys : EraseMissing(id)
  \/ \E id \in Keys : Erase(id)
  \/ Shift
  \/ FinishErase

Spec == Init /\ [][Next]_vars

\* erase runs to its return: the rounds of its loop are code of one thread.
FairSpec == Spec /\ WF_vars(Shift \/ FinishErase)

-----------------------------------------------------------------------------
Answers == Indices \cup {NoIndex, "void", "throws"}

\* TypeOK: the shape of the state; no loop ever leaves the table.
TypeOK ==
  /\ hash \in [Keys -> Slots]
  /\ table \in [Slots -> MapSlots]
  /\ count \in Nat
  /\ erasing \in Erasures \cup {Idle}
  /\ answer \in Answers

Occupied == {pos \in Slots : table[pos].id # EmptyKey}

\* The slots whose entry counts: the gap of an erase under way does not.
Entries == {pos \in Occupied : erasing # Idle => pos # erasing.gap}

\* Reachable: no slot between an entry's home and the entry is empty, so probes
\* find it, whatever was inserted and erased before.  Within an erase the gap may
\* lie between an entry and its home only if the loop has yet to pass the entry.
Reachable ==
  \A pos \in Entries, q \in Slots :
    Dist(Home(pos), q) < Dist(Home(pos), pos) =>
      /\ q \in Occupied
      /\ erasing # Idle /\ q = erasing.gap =>
           Dist(erasing.gap, erasing.j) <= Dist(erasing.gap, pos)

\* IdsOnce: no id has two entries, so none comes back to life after its erase;
\* the moves of an erase leave no copy behind.
IdsOnce ==
  /\ \A p, q \in Entries : table[p].id = table[q].id => p = q
  /\ erasing # Idle => \A p \in Entries : table[p].id # erasing.id

\* CountMatches: count, by which the map refuses entries, is their number through
\* inserts that only overwrite, erases of absent ids and moves.
CountMatches == count = Cardinality(Occupied)

\* ProbesEnd: every probe of a call stops in the table: no insert returns with
\* nothing stored after a full round.
ProbesEnd == erasing = Idle => \A id \in Keys : ProbeEnd(id) # {}

-----------------------------------------------------------------------------
(* The caller's view: an erase takes effect when it starts.                *)

EntriesOf(id) == {pos \in Entries : table[pos].id = id}

Held ==
  [id \in Keys |-> IF EntriesOf(id) = {} THEN NoIndex
                   ELSE table[CHOOSE pos \in EntriesOf(id) : TRUE].idx]

Contract == INSTANCE IdMap WITH held <- Held

\* ImplementsIdMap: find answers what was last inserted for the id and not erased
\* since, and insert refuses ids only at the limit.
ImplementsIdMap == Contract!Spec

\* EraseReturns: the loop of erase ends.
EraseReturns == erasing # Idle ~> erasing = Idle

=============================================================================
