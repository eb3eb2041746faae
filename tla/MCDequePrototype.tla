-------------------------- MODULE MCDequePrototype --------------------------
(***************************************************************************)
(* Instances of DequePrototype for TLC.                                    *)
(***************************************************************************)
EXTENDS DequePrototype

Zeros    == [s \in Sides |-> [w \in 0 .. L3Size - 1 |-> {}]]
AnyWords == [Sides -> Words(L3Size)]

\* Zero words, or a stray bit where the search meets it: of a slot of the
\* ladder among the asks, or past the last slot among the bids.
FewWords ==
  {Zeros, [Zeros EXCEPT ![Ask] = SetBit(@, 1)], [Zeros EXCEPT ![Bid] = SetBit(@, NumSlots)]}

\* Nothing in the prototype checks a quantity.
UncheckedQuantities == {-1, 2}

\* Ids are only compared for equality.
Symmetry == Permutations(OrderIds)

=============================================================================
