----------------------------- MODULE LadderIndex -----------------------------
(***************************************************************************)
(* The bitmap of one side by itself, driven the way the ladder engine      *)
(* drives it: every push_back of an order into a level sets the level's    *)
(* bit, set already or not; the unlink or pop that empties a level clears  *)
(* it.  `live' is the set of levels that hold an order.                    *)
(***************************************************************************)
EXTENDS LevelBitmap

VARIABLES bits, live

vars == <<bits, live>>

Init == bits = EmptyBitmap /\ live = {}

Occupy(slot) ==
  /\ bits' = set_bit_hierarchical(bits, slot)
  /\ live' = live \cup {slot}

Vacate(slot) ==
  /\ slot \in live
  /\ bits' = clear_bit_hierarchical(bits, slot)
  /\ live' = live \ {slot}

Next == \E slot \in SlotIndices : Occupy(slot) \/ Vacate(slot)

Spec == Init /\ [][Next]_vars

-----------------------------------------------------------------------------

\* LevelsAgree: whatever the order of pushes and removals, each level of the
\* bitmap says exactly what the level below it holds: no bit survives the last
\* order under it, none is lost while an order is left under it.
LevelsAgree == bits = BitmapOf(live)

\* FindsBest: the two searches, which look at one word of each level and trust
\* the level above, find the highest and the lowest live slot of all.
FindsBest ==
  /\ find_best_bid_idx(bits) = IF live = {} THEN NoSlot ELSE Max(live)
  /\ find_best_ask_idx(bits) = IF live = {} THEN NoSlot ELSE Min(live)

=============================================================================
