---------------------------- MODULE MoveOnlyMaps ----------------------------
(***************************************************************************)
(* What OrderMap promises as a type: a value that can be moved and not     *)
(* copied.  Each variable of the program that holds a map holds a set of   *)
(* ids of its own; nothing done through one variable shows in another.     *)
(***************************************************************************)
EXTENDS Naturals, FiniteSets

CONSTANTS Objects, OrderIds,
          MaxLoad,   \* what the table of one map takes
          NoTable    \* the value of a moved-from map

VARIABLES contents   \* contents[o] for the objects that exist

Without(o) == [x \in DOMAIN contents \ {o} |-> contents[x]]

Init == contents = [o \in {} |-> {}]

Create(o) ==
  /\ o \notin DOMAIN contents
  /\ contents' = [x \in DOMAIN contents \cup {o} |-> IF x = o THEN {} ELSE contents[x]]

Destroy(o) == o \in DOMAIN contents /\ contents' = Without(o)

Insert(o, id) ==
  /\ o \in DOMAIN contents
  /\ contents[o] # NoTable
  /\ Cardinality(contents[o]) < MaxLoad
  /\ contents' = [contents EXCEPT ![o] = @ \cup {id}]

Erase(o, id) ==
  /\ o \in DOMAIN contents
  /\ contents[o] # NoTable
  /\ contents' = [contents EXCEPT ![o] = @ \ {id}]

\* dst may be new or already hold a map, which goes.
Move(dst, src) ==
  /\ src \in DOMAIN contents
  /\ dst # src
  /\ contents' = [x \in DOMAIN contents \cup {dst} |->
       IF x = dst THEN contents[src] ELSE IF x = src THEN NoTable ELSE contents[x]]

Next ==
  \E o \in Objects :
    \/ Create(o)
    \/ Destroy(o)
    \/ \E id \in OrderIds : Insert(o, id) \/ Erase(o, id)
    \/ \E src \in Objects : Move(o, src)

Spec == Init /\ [][Next]_contents

=============================================================================
