------------------------------ MODULE OrderPool ------------------------------
(***************************************************************************)
(* The storage of the ladder engine: a fixed array of order slots, whose   *)
(* free slots form a list through `next', and the price levels, which are  *)
(* doubly linked lists of slots through `prev' and `next'.  An operation   *)
(* on a level returns the level and the pool it leaves.                    *)
(***************************************************************************)
EXTENDS Integers, Sequences, FiniteSets

CONSTANTS
  Capacity,   \* slots of the pool (kOrderMapMaxLoad)
  Nil         \* kInvalidOrderIndex

ASSUME CapacityAssumption == Capacity \in Nat \ {0}

OrderIndices == 0 .. Capacity - 1

ASSUME NilAssumption == Nil \notin OrderIndices

\* The slots with a link, or both, of one of them set.
SetNext(slots, idx, next) == [slots EXCEPT ![idx].next = next]
SetPrev(slots, idx, prev) == [slots EXCEPT ![idx].prev = prev]
SetLinks(slots, idx, prev, next) == SetNext(SetPrev(slots, idx, prev), idx, next)

\* OrderPool::OrderPool: each slot is linked to the next; blank is what the
\* vector value-initialises a slot to.
NewPool(blank) ==
  [slots |-> [i \in OrderIndices |->
                [blank EXCEPT !.next = IF i = Capacity - 1 THEN Nil ELSE i + 1]],
   free_head |-> 0]

is_full(pool) == pool.free_head = Nil

\* The slot allocate hands out, and the pool with data in it.
allocated(pool) == pool.free_head

allocate(pool, data) ==
  [slots     |-> [pool.slots EXCEPT ![pool.free_head] = data],
   free_head |-> pool.slots[pool.free_head].next]

\* deallocate, moving the head before the link is read from it.
deallocate_swapped(pool, idx) ==
  [slots     |-> SetLinks(pool.slots, idx, Nil, idx),
   free_head |-> idx]

\* The rest of the data stays in the slot.
deallocate(pool, idx) ==
  [slots     |-> SetLinks(pool.slots, idx, Nil, pool.free_head),
   free_head |-> idx]

-----------------------------------------------------------------------------
EmptyLevel == [head |-> Nil, tail |-> Nil, total_qty |-> 0]

is_empty(level) == level.head = Nil

\* front, from the wrong end.
back(level) == level.tail

front(level) == level.head

push_back(level, idx, pool) ==
  LET empty == is_empty(level)
      slots == SetLinks(pool.slots, idx, IF empty THEN Nil ELSE level.tail, Nil)
  IN  [level |-> [head |-> IF empty THEN idx ELSE level.head,
                  tail |-> idx,
                  total_qty |-> level.total_qty + pool.slots[idx].qty],
       pool  |-> [slots |-> IF empty THEN slots ELSE SetNext(slots, level.tail, idx),
                  free_head |-> pool.free_head]]

\* The level and the pool without the level's front order.
pop_front(level, pool) ==
  LET idx   == level.head
      last  == idx = level.tail
      order == pool.slots[idx]
      slots == IF last THEN pool.slots ELSE SetPrev(pool.slots, order.next, Nil)
  IN  [level |-> [head |-> IF last THEN Nil ELSE order.next,
                  tail |-> IF last THEN Nil ELSE level.tail,
                  total_qty |-> level.total_qty - order.qty],
       pool  |-> [slots |-> SetLinks(slots, idx, Nil, Nil), free_head |-> pool.free_head]]

\* The slots without the links from its neighbours to the order in slot idx.
bypassed(slots, idx) ==
  LET order == slots[idx]
      fore  == IF order.prev = Nil THEN slots ELSE SetNext(slots, order.prev, order.next)
  IN  IF order.next = Nil THEN fore ELSE SetPrev(fore, order.next, order.prev)

\* unlink, without a new tail when the last order goes.
unlink_keeps_tail(level, idx, pool) ==
  LET order == pool.slots[idx]
  IN  [level |-> [head |-> IF order.prev = Nil THEN order.next ELSE level.head,
                  tail |-> level.tail,
                  total_qty |-> level.total_qty - order.qty],
       pool  |-> [slots |-> SetLinks(bypassed(pool.slots, idx), idx, Nil, Nil),
                  free_head |-> pool.free_head]]

\* The level and the pool without the order idx, wherever it stands.
unlink(level, idx, pool) ==
  LET order == pool.slots[idx]
  IN  [level |-> [head |-> IF order.prev = Nil THEN order.next ELSE level.head,
                  tail |-> IF order.next = Nil THEN order.prev ELSE level.tail,
                  total_qty |-> level.total_qty - order.qty],
       pool  |-> [slots |-> SetLinks(bypassed(pool.slots, idx), idx, Nil, Nil),
                  free_head |-> pool.free_head]]

-----------------------------------------------------------------------------
\* The slots reached from idx through next, oldest first; longer than Capacity
\* when the links run in a circle.
Chain(pool, idx) ==
  LET at[n \in 0 .. Capacity] ==
        IF n = 0 THEN idx
        ELSE IF at[n - 1] = Nil THEN Nil ELSE pool.slots[at[n - 1]].next
      reached == {n \in 0 .. Capacity : at[n] # Nil}
  IN  [n \in 1 .. Cardinality(reached) |-> at[n - 1]]

FreeList(pool) == Chain(pool, pool.free_head)

=============================================================================
