----------------------------- MODULE LevelBitmap -----------------------------
(***************************************************************************)
(* The three-level bitmap by which the ladder engine finds the best price  *)
(* level of a side: one bit per price slot (l3), one bit per word of l3    *)
(* (l2), one bit per word of l2 (l1).  A word is the set of its one-bits.  *)
(***************************************************************************)
EXTENDS Integers, FiniteSetsExt

CONSTANTS
  WordBits,   \* kWordBits
  NumSlots    \* price slots of the ladder

ASSUME WordBitsAssumption == WordBits \in Nat \ {0}
ASSUME NumSlotsAssumption == NumSlots \in Nat \ {0}

SlotIndices == 0 .. NumSlots - 1

\* What find_best_bid_idx and find_best_ask_idx answer for no slot.
NoSlot == -1

\* i >> kWordShift and i & (kWordBits - 1).
WordOf(i) == i \div WordBits
BitOf(i)  == i % WordBits

\* Words needed for n bits.
WordCount(n) == (n + WordBits - 1) \div WordBits

L3Size == WordCount(NumSlots)
L2Size == WordCount(L3Size)
L1Size == WordCount(L2Size)

Words(size) == [0 .. size - 1 -> SUBSET (0 .. WordBits - 1)]

Bitmaps == [l1 : Words(L1Size), l2 : Words(L2Size), l3 : Words(L3Size)]

EmptyBitmap == [l1 |-> [w \in 0 .. L1Size - 1 |-> {}],
                l2 |-> [w \in 0 .. L2Size - 1 |-> {}],
                l3 |-> [w \in 0 .. L3Size - 1 |-> {}]]

\* words[w] |= 1 << b and words[w] &= ~(1 << b), of the bit that stands for i.
SetBit(words, i)   == [words EXCEPT ![WordOf(i)] = @ \cup {BitOf(i)}]
ClearBit(words, i) == [words EXCEPT ![WordOf(i)] = @ \ {BitOf(i)}]

set_bit_hierarchical(bm, slot) ==
  [l3 |-> SetBit(bm.l3, slot),
   l2 |-> SetBit(bm.l2, WordOf(slot)),
   l1 |-> SetBit(bm.l1, WordOf(WordOf(slot)))]

\* clear_bit_hierarchical, without the tests that the word became zero.
clear_bit_always(bm, slot) ==
  [l3 |-> ClearBit(bm.l3, slot),
   l2 |-> ClearBit(bm.l2, WordOf(slot)),
   l1 |-> ClearBit(bm.l1, WordOf(WordOf(slot)))]

\* clear_bit_hierarchical, stopping after the second level.
clear_bit_two_levels(bm, slot) ==
  LET l3 == ClearBit(bm.l3, slot)
  IN  [bm EXCEPT !.l3 = l3,
         !.l2 = IF l3[WordOf(slot)] = {} THEN ClearBit(@, WordOf(slot)) ELSE @]

\* A bit of an upper level goes only when the word below it became zero.
clear_bit_hierarchical(bm, slot) ==
  LET w3 == WordOf(slot)
      w2 == WordOf(w3)
      l3 == ClearBit(bm.l3, slot)
      l2 == IF l3[w3] = {} THEN ClearBit(bm.l2, w3) ELSE bm.l2
      l1 == IF l3[w3] = {} /\ l2[w2] = {} THEN ClearBit(bm.l1, w2) ELSE bm.l1
  IN  [l1 |-> l1, l2 |-> l2, l3 |-> l3]

-----------------------------------------------------------------------------
\* 63 - countl_zero(word) and countr_zero(word); for a zero word they are no
\* bit of a word, and index the level below out of its range.
HighestBit(word) == IF word = {} THEN -1 ELSE Max(word)
LowestBit(word)  == IF word = {} THEN WordBits ELSE Min(word)

\* The words of a level that are not zero.
NonZero(words) == {w \in DOMAIN words : words[w] # {}}

\* From the last word of l1 down.
find_best_bid_idx(bm) ==
  IF NonZero(bm.l1) = {} THEN NoSlot
  ELSE LET i      == Max(NonZero(bm.l1))
           idx_l2 == i * WordBits + HighestBit(bm.l1[i])
           idx_l3 == idx_l2 * WordBits + HighestBit(bm.l2[idx_l2])
       IN  idx_l3 * WordBits + HighestBit(bm.l3[idx_l3])

\* find_best_ask_idx, taking the highest bit of the last word it looks at.
find_ask_wrong_end(bm) ==
  IF NonZero(bm.l1) = {} THEN NoSlot
  ELSE LET i      == Min(NonZero(bm.l1))
           idx_l2 == i * WordBits + LowestBit(bm.l1[i])
           idx_l3 == idx_l2 * WordBits + LowestBit(bm.l2[idx_l2])
       IN  idx_l3 * WordBits + HighestBit(bm.l3[idx_l3])

\* From the first word of l1 up; an index out of range, or a zero word below a
\* one-bit, ends the search with no slot.
find_best_ask_idx(bm) ==
  IF NonZero(bm.l1) = {} THEN NoSlot
  ELSE LET i      == Min(NonZero(bm.l1))
           idx_l2 == i * WordBits + LowestBit(bm.l1[i])
           idx_l3 == idx_l2 * WordBits + LowestBit(bm.l2[idx_l2])
           result == idx_l3 * WordBits + LowestBit(bm.l3[idx_l3])
       IN  IF idx_l2 \notin NonZero(bm.l2) THEN NoSlot
           ELSE IF idx_l3 \notin NonZero(bm.l3) THEN NoSlot
           ELSE IF result >= NumSlots THEN NoSlot
           ELSE result

\* The bitmap that says exactly which slots are live, at each of its levels.
BitmapOf(live) ==
  LET Summary(size, below) ==
        [w \in 0 .. size - 1 |-> {b \in 0 .. WordBits - 1 : w * WordBits + b \in below}]
      live3 == {WordOf(i) : i \in live}
      live2 == {WordOf(w) : w \in live3}
  IN  [l3 |-> Summary(L3Size, live), l2 |-> Summary(L2Size, live3),
       l1 |-> Summary(L1Size, live2)]

=============================================================================
