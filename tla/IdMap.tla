-------------------------------- MODULE IdMap --------------------------------
(***************************************************************************)
(* What the ladder engine relies on its id map for: a partial function     *)
(* from order ids to slots, with a limit on its size.  BitmapEngine's      *)
(* id_to_idx is such a function; OrderMap implements it.                   *)
(***************************************************************************)
EXTENDS Integers, FiniteSets

CONSTANTS
  OrderIds,   \* the ids that can be stored
  EmptyKey,   \* the id that cannot
  Indices,    \* what an id maps to
  NoIndex,    \* the answer for an id that is not held
  MaxLoad     \* the limit

VARIABLES
  held,       \* the partial function, NoIndex where it is undefined
  answer      \* what the last call returned or threw

vars == <<held, answer>>

Keys    == OrderIds \cup {EmptyKey}
Answers == Indices \cup {NoIndex, "void", "throws"}

Size == Cardinality({id \in Keys : held[id] # NoIndex})

Init ==
  /\ held = [id \in Keys |-> NoIndex]
  /\ answer = "void"

Insert(id, idx) ==
  /\ id # EmptyKey
  /\ Size < MaxLoad
  /\ held' = [held EXCEPT ![id] = idx]
  /\ answer' = "void"

InsertThrows(id) ==
  /\ id = EmptyKey \/ Size >= MaxLoad
  /\ answer' = "throws"
  /\ UNCHANGED held

Find(id) ==
  /\ answer' = held[id]
  /\ UNCHANGED held

\* Erasing an id that is not held does nothing.
Erase(id) ==
  /\ held' = [held EXCEPT ![id] = NoIndex]
  /\ answer' = "void"

Next ==
  \E id \in Keys :
    \/ \E idx \in Indices : Insert(id, idx)
    \/ InsertThrows(id)
    \/ Find(id)
    \/ Erase(id)

Spec == Init /\ [][Next]_vars

=============================================================================
