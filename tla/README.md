# A TLA+ verification of the limit order book

This directory specifies, model-checks and partly proves the two matching engines
of this repository: `map_engine::OrderBook`, the readable reference built on
`std::map` and `std::list`, and `bitmap_engine::BitmapOrderBook`, the fast one
built on a price ladder, a three-level bitmap, an order pool with intrusive lists
and an open-addressing id map. Both are shown to implement one abstract book.

The refinements, every invariant of the two engines, and that the two answer alike and hold the same
orders, are proved for all values of the parameters (section 4).

Every definition is translated from the source; `PROJECT.json` gives, for each, the
file and lines it stands for. Section numbers below are used as cross-references.

## 1. The system

### 1.1 Components

| Component | Source | State | Operations | What makes it correct |
|---|---|---|---|---|
| Common vocabulary | `include/ob/common.h` | none | `Side`, `OrderEvent`, `TradeRec`, `OrderStatus` | none of its own |
| Map engine | `src/map_engine/orderbook.cpp`, `include/ob/map_engine/{orderbook,pricelevel,types}.h` | `bids_`, `asks_` (price to level), each level's FIFO list and `total_volume_`, `order_map_` (id to level and list node) | `submit`, `cancel_order`, `best_bid`, `best_ask`, `print_book` | index and lists describe the same orders; no empty level in a map; volume is the sum of its orders; matches as the book of 1.2 |
| Ladder engine | `src/bitmap_engine/ladder.cpp`, `include/ob/bitmap_engine/{ladder,types}.h` | `bid_levels`, `ask_levels`, six bitmap vectors, `pool`, `id_to_idx` | `submit`, `add_order`, `cancel_order`, best-level queries | lists well linked; slots partitioned; bitmap exact; refusal before any effect; matches as the book of 1.2 |
| Order pool, price level | same files | slots, free-list head; head, tail, `total_qty` | `allocate`, `deallocate`; `push_back`, `pop_front`, `unlink` | no slot lost, none handed out twice |
| Level bitmap | `ladder.cpp` | three vectors of 64-bit words per side | `set_bit_hierarchical`, `clear_bit_hierarchical`, `find_best_bid_idx`, `find_best_ask_idx` | each level summarises the one below; the searches find the extreme live slot |
| Order id map | `order_map.cpp`, `order_map.h` | table of (id, slot) mapped with `mmap`, entry count | `insert`, `find`, `erase`, `full`, moves | what was inserted and not erased is found; a search ends; one owner per mapping |
| Feed adapters | `include/ob/*/adapter.h` | none | `feed(Event)` | both engines answer one stream alike, but for the ladder engine's limits |
| Simulator | `src/simulator.cpp`, `include/ob/simulator.h` | next id, live ids, events so far | `generate_events` in three profiles | cancels name live orders; prices stay inside the configuration; the number of events is the one asked for |
| Differential test | `tests/differential_test.cpp` | the two engines, the live ids | `run_one` | stops at the first event the engines answer differently |
| Archived prototype | `archive/deque_prototype.cpp` | a deque and a total per level, a two-level bitmap per side | `add_order`, `cancel_order`, `submit`, `best_bid`, `best_ask` | bits and levels agree; submit stops only when done; the book of 1.2 for a careful caller |
| Contract tests, benchmark, archived generator, build | `tests/`, `benchmarks/`, `archive/simulator_old.*`, `CMakeLists.txt` | | | not part of the product |

### 1.2 How they interact

Callers build `OrderEvent`s (the simulator, a test or the benchmark) and hand them to
one engine's `feed`, which calls `submit` or `cancel_order` and collects the trades. An
engine is an object of one thread: no call starts before the last one returned,
there is no callback into the caller, nothing is persisted and nothing is shared. So
there is no interleaving of threads, no message loss and no crash recovery to model.
What is hard is of another kind:

- **State kept in several places.** One resting order is a list node, an index entry
  and a share of a running volume in the map engine; a pool slot, two links in its
  neighbours, a head and tail, a volume, a bit in up to three bitmap words and an
  id-map entry in the ladder engine. Submits, full fills, partial fills and cancels
  maintain them in four different pieces of code.
- **Order of steps.** The matching loop erases what it stands on. `pop_front`,
  `id_to_idx.erase(maker.id)` through a reference into the slot, `deallocate`: this
  order matters, and so does the iterator the map engine goes on with.
- **Stale data.** Slots are not cleared when freed. Iterators and level pointers are
  stored. Summary bits are trusted without looking below.
- **Limits.** The ladder engine's pool and id map are bounded. Room is tested once, before
  matching, and used after it, with trades already made.
- **Long legal sequences.** Most faults of this kind show only after the right mix of
  adds, fills and cancels at one level.

`PROJECT.json` lists each hazard at its line with the properties that would catch it.

## 2. The modules

```
Common ----------------- CommonProofs              lemmas about best prices, queues, sums and rounds
  |- LimitOrderBook                                the abstract book
  |        |- BookAtomicity - MCLimitOrderBook     a submit in closed form
  |        |- LimitOrderBookProofs                 theorems about it
  |- MapEngine --------- MCMapEngine               implements LimitOrderBook
  |        |- MapEngineProofs                      theorems about it
  |- BitmapEngine ------ MCBitmapEngine            implements LimitOrderBook
  |      |- OrderPool                              slots, free list, linked levels
  |      |- LevelBitmap - LadderIndex              the bitmap by itself
  |      |                 |- LadderIndexProofs    theorems about it
  |      |- BitmapEngineProofs                     theorems about the engine
  |- Differential ------ MCDifferential            MapEngine and BitmapEngine on one stream
  |        |- DifferentialProofs                   theorems about both together
  |- DequePrototype ---- MCDequePrototype          the archived engine, implements LimitOrderBook
IdMap                                              the contract of the id map
  |- OrderMap ---------- MCOrderMap                the hash table, implements IdMap
         |-------------- OrderMapProofs            theorems about it
MoveOnlyMaps                                       maps as values that can be moved
  |- OrderMapOwnership - MCOrderMapOwnership       pointers, mmap and munmap behind them
         |-------------- OrderMapOwnershipProofs   theorems about it
Simulator -------------- MCSimulator               the workload generator
```

**`Common`**: sides, the ranking of prices, statuses, `TradeRec`.

**`LimitOrderBook`** is what either engine promises: one FIFO queue per side and price.
Four actions make up a submit: `Submit` accepts the order, each `Fill` is one trade,
`Finish` rests what remains and returns; `Reject` is a refusal. `Cancel` and
`CancelMissing` are the two outcomes of `cancel_order`. A submit is several steps, not
one, because each trade is an effect the caller sees, and because the state between
two trades is where loops go wrong. While a submit runs (`taker # NoOrder`) no other
call can start, as in the code. `Reject` allows any reason but constrains
`DuplicateId` to ids that rest: the other reasons are limits of one engine
(capacity, price range, argument checks), which its own module models exactly.
`trades` and `reply` are what the last call returned; they are output, so only the
current call's trades are kept and no counter grows.

**`MapEngine`** has the code's containers: `levels[side][price]` (`None` where the map
has no node), `order_map`, the locals of the submit under way in `call`, with the loop's
iterator `it`. `Fill` is one round of the inner loop, with the erasure of the
level that round emptied and the step of the outer loop's iterator in the same
action, since no effect is visible between them. The state's `list` iterator is
modelled as "the node holding this id"; that the node is there and is the only one is
`IndexMatchesLevels`. The thrown exception for a duplicate is the reply
`DuplicateId` that the adapter makes of it. The adapter's own tests sit outside
the engine and are in `Differential`. Trade ids, timestamps and
`initial_quantity` are left out: nothing reads them.

**`OrderPool`** holds the pool and the intrusive level as operators on records. A freed
slot keeps its data, as in the code. `SetNext`, `SetPrev` and `SetLinks` are the code's assignments to
the links of one slot; each operation is a short sequence of them. `Chain` follows `next` links and overshoots the
capacity when they run in a circle, so a cycle is seen as a wrong chain, not as a hang.

**`LevelBitmap`** models a word as the set of its one-bits, with the word size a
parameter. `find_best_ask_idx` has the extra range tests the code has and
`find_best_bid_idx` has none. For a zero word the bit scans give -1 or `WordBits`, which
indexes outside the level below: TLC reports such an access as an error, so a search that
meets an inconsistent summary cannot pass unnoticed. **`LadderIndex`** drives it
alone, through every sequence of occupying and vacating levels.

**`BitmapEngine`** composes them into the engine: `Submit` or `Refuse` (the tests in
the order of the code, by which the status of an order with two faults is decided),
`Fill`, `Finish` with `add_resting_order`, `CancelOrder`, `CancelMissing`. `Release` is
the common tail of a full fill and of a cancel: clear the level's bit when it
emptied, free the slot, forget the id. The id map is modelled by its contract, a
partial function with the limit `MaxLoad`, which is what `IdMap` states and `OrderMap` implements.
Unsigned subtractions are modelled on integers because none wraps: `price - min_price`
is evaluated after `price < min_price` was refused, quantities never go below zero
(`TypeOK`, checked within `LevelsWellLinked`), `index_to_price` stays on the ladder.

**`IdMap`** is that contract as a specification of its own, and **`OrderMap`** the class
behind it: the table of slots, `count`, linear probing, backward-shift erase. The hash
function is a variable that is chosen at the start and never changes, so whatever holds
holds for every hash function, `fib_hashing` among them. `find` and `insert` are one action each:
`ProbeEnd` gives the slot at which their loop stops in closed form (none when the loop
goes full circle), because nothing changes while they probe. `erase` is an action per
round of its loop (`Erase`, `Shift`, `FinishErase`): what is true between two rounds, with
a gap that moves and entries copied over it, is exactly what makes it right. Position
arithmetic under `kSlotMask` is written as `Succ` and `Dist`, going round by comparison
rather than by `%`, which says the same and can be proved about. Overwriting an id that is held,
and inserting id 0 or into a full map, are calls the class defines and the engine never makes;
they are in the model.

**`BookAtomicity`** says what a submit does without a loop. The resting orders within its
limit stand in one line; each gives what those ahead of it leave to be given; what is left
rests. `View` is the caller's view if a submit counted as done when it is accepted, and
`SubmitIsAtomic` that no later step of the call changes it.

**`OrderMapOwnership`** models what `OrderMap` leaves out: the constructor, which gets its memory from the first `mmap`
or the second (`ConstructMap`; which of them makes no difference to who owns it) or throws when both fail, with nothing
built (`MapFails`), the move constructor and assignment, the destructor and `munmap`, over addresses the
system hands out again. The pairs pointer and count are what moves exchange. A constructor of the
engine that throws after its id map was built unwinds it. It implements **`MoveOnlyMaps`**, in which a
map is a value with a limit, a move takes it away from its source, and there is no memory.

**`Differential`** composes the two engines by `INSTANCE` and drives them as the repository does: through
the two `feed` functions (`FeedNew`) and through the adapters of the differential test, which
call the engines directly (`RawNew`). An event is given to both; one runs to its answer, then the
other; the answers and trades are compared as the test compares them, and the model
stops at the first difference, as the test does. `AnswersAgree` says that the only differences are
the limits of the ladder engine: a full engine, a price off the ladder, and, where no adapter
tests them, its own refusals of id 0 and quantity 0. One more is inherent in the order of tests: an
event with id 0 *and* quantity 0 is refused for one reason by one and for the other by the other.

**`Simulator`** is `generate_events`, one event a step; the state is the code's locals and the
vector of events, and every draw is any value of its range. What it is checked for is read from the
vector it returns. A job is a profile with a configuration.

**`DequePrototype`** is the archived engine, with the words of its lower bitmap level chosen
at the start from `InitialWords`: the code leaves them uninitialised. It takes any calls; `Careless`
names what the prototype leaves to its caller: fresh ids, prices on the ladder, quantities that are not
negative, the right place of the order to cancel, no `add_order` past the matching loop. `best` is the slot
`best_bid` and `best_ask` look up and `Quotes` the price they answer: for a slot past the last one they throw and answer none. `reply` notes how a call ended: an
exception of `price_to_index` or `index_to_price` is `OutOfRange`; the answer of
`PriceLevel::cancel`, which `cancel_order` drops, is kept so that it can be compared. When a stray bit leads
to `front()` of an empty deque, the behaviour of the program is undefined and the model stops
(`FrontOfEmpty`): everything said of such runs is said up to that point.

### 2.1 Refinement

Each engine module has an `INSTANCE LimitOrderBook WITH` that computes the caller's view
from the engine's state: the map engine's lists with their ids and remaining
quantities; the ladder engine's chains read through the pool. `ImplementsBook` is the whole
abstract specification as a property: the initial state, and every step a step of the
book or none. It compares each trade, each reply and each queue at each step, so price
priority, time priority, trade price and quantity, and the rejection of duplicates are
all covered by it for both engines. `OrderMap` implements `IdMap` in the same way
(`ImplementsIdMap`), an erase taking effect when it starts, and `OrderMapOwnership` implements
`MoveOnlyMaps` (`MovesAreValues`). `StepsAsBook` says of `DequePrototype`
that each step that is not careless is a step of `LimitOrderBook`, from every state that careless calls can
have left, as long as the bitmaps are exact and no negative quantity rests: `LimitOrderBook` is about natural
quantities, and its instance here has only those. (A negative maker is taken in full and the taker's own
quantity grows; nothing in the archive says what should happen, and no property does.) A cancel that finds nothing counts as careful only when nothing
rests, as the state does not show which id was asked for.

## 3. The runs

| Run | Instance | Shows |
|---|---|---|
| `book` | 4 ids, prices 1..3, quantities 1 to 3 | the abstract book is typed, uncrossed, holds each id once, sweeps from best to worst, keeps time priority; the matching rounds come to the closed form |
| `map_engine` | 4 ids, 3 prices, quantities 0..2, fair | index and levels agree, no empty level, volumes exact, the engine implements the book; its two nested loops end |
| `ladder_index` | 11 slots, words of 2 bits | through every sequence of changes the three levels agree and the searches are right |
| `bitmap_engine_deep` | 4 ids, capacity 3, one level | links, slots, ids, totals, room for the remainder, refinement with queues of 3 |
| `bitmap_engine_wide` | 3 ids, capacity 2, ladder 2, 4, 6, prices also off it | bitmap against levels, price range tests, refinement over several levels, every round of the loop trades |
| `order_map` | 4 ids, 4 slots, limit 3, all 256 hash functions, fair | entries reachable, ids once, count exact, probes end, the table is the map it should be, the loop of `erase` ends |
| `order_map_ownership` | 3 objects, 3 regions of memory | one owner per mapping, moves are moves of values, no table above its limit after one |
| `differential` | 4 ids and id 0, room for 3, one price, quantities from 0 | the engines answer alike and hold the same books, but for the ladder engine's limits |
| `simulator` | 4 and 5 events, ticks 1 and 2 | live ids, exact counts, prices on the ladder, those of CrossingHeavy at tick 1 |
| `simulator_crossing_tick` | CrossingHeavy, tick 2 | **violation** of `OnLadder`, see 3.1 |
| `deque` | 2 ids, 3 slots, quantities -1 and 2, zero words or a stray bit | no order is hidden, bits stay exact, submit stops only when done, careful calls are steps of the book |
| `deque_quotes` | all 256 contents of the words | **violation** of `QuotesRestingOrders`, see 3.1 |

**Why these bounds.** Quantities 1 and 2 give an exact fill, an over-fill (one taker,
two makers) and a partial fill (maker 2, taker 1). Quantity 0 is there where an engine
handles it: the map engine accepts it as a submit that does nothing, the ladder engine
refuses it. Three prices give a best, a middle and a worst level; three orders in a
queue give a front, a middle and an end to unlink; the fourth id is a taker against
three makers. The ladder has ticks of 2, with callers' prices below it, above it and
between two ticks.

The ladder engine's state is large because freed slots keep the data of their last
order, so depth and width are two runs: three slots at one level (every position of a
queue, a full pool and a full id map) and two slots over three levels (levels
emptied and refilled in every order, three words of bitmap). `WordBits = 2` makes
three slots need two `l3` words; `ladder_index` has 11 slots, 6, 3 and 2 words, so that
even the top level has more than one word to scan and the last word is partly used.

The table of `order_map` has one slot more than its limit, the tightest the code's
condition allows (the code keeps three slots of ten free): clusters of up to three
entries, starting anywhere and wrapped round the end, with every assignment of homes, and a
fourth id to be refused.

`order_map` has one index value; that an insert over a held id replaces its index is part of the theorem
`ImplementsContract`. In `differential` three of four ids fill the engine, so orders queue, are
swept and are refused for want of room. Prices off the ladder are left to
`bitmap_engine_wide`: the ladder engine refuses them and the two part there.

In the prototype three slots and words of two bits give two words per side, one of which has a bit
past the last slot; a stray bit there makes `index_to_price` throw (`QuoteThrows`), one on the ladder
leads to an empty level (`FrontOfEmpty`). `MaxResting` bounds the orders a caller keeps in it: two makers
at most and the taker. A quantity of -1 is there because nothing refuses it; it makes odd remainders and so
partial fills with quantity 2. In `simulator`, five events let an order be added, moved by a
swap-and-pop and then cancelled with two others around it; the grid from 10 to 15 by 2 has a remainder.

**Symmetry.** Ids are compared for equality only, so permuting them maps behaviours to
behaviours; in the ladder engine `ZeroId` is not among the permuted ones. Runs that check
liveness use no symmetry.

**Deadlock** is checked in every run but those of modules in which the program really stops:
`Differential` at the first difference, as the test does; `Simulator` when the vector is complete;
`DequePrototype` after the undefined read. Everywhere else a call can always be made.

**Fairness.** In `MapEngine`, `FairSpec` adds `WF_vars(Fill \/ Finish)`: the thread inside a submit goes
on until the call returns. Both actions are code of the same call and one of them is
always enabled while `call` is set, so weak fairness on their disjunction says no
more than that the processor runs. `OrderMap` says the same of the rounds of `erase`. Nobody is obliged to make
a call, to cancel, or to send an order that matches. For the bitmap engine, whose states without symmetry
are too many for a liveness check, termination is shown by a variant: `EachRoundShrinks`, which is also proved, with the absence of deadlock.

**Type invariants.** `TypeOK` is proved for `LimitOrderBook` and `OrderMap`, and, as a conjunct of the first
structural invariant (`IndexMatchesLevels`, `LevelsWellLinked`, `OneOwner`), for `MapEngine`, `BitmapEngine` and
`OrderMapOwnership`. In `LadderIndex` `LevelsAgree` says more. In `DequePrototype` it is checked within
`OrdersAreMarked`.

**Mutants.** Each property comes with a definition of the kind a slip in the code would
give (the exact fill missed, a partly filled order requeued, a bitmap bit cleared
without the test for zero, `deallocate` reading the link after moving the head, the test
for room dropped, ...), which violates it under the run's own bounds. They stand
next to the definition they alter and are used nowhere else in the model.

### 3.1 Findings

- `simulator_crossing_tick`: in CrossingHeavy (`simulator.cpp:62-67`) the number of price levels of each
  half is a width in price units, not divided by `tick_size`, and is multiplied by it again. With a tick
  above 1 prices leave `[min_price, max_price]`. At tick 1 `simulator` shows them inside.
- `deque_quotes`: `PriceLadder` leaves `l2_bids` and `l2_asks` uninitialised (`deque_prototype.cpp:142-143`),
  while its tests assert quotes that are right only if the words happen to be zero. The upper
  level, which is initialised, limits the damage: a stray bit is seen only once an order
  rests in the same word, and its own bit is never lost (`OrdersAreMarked`). The trace adds a bid beside the stray bit of
  a higher slot of the ladder, and `best_bid` answers that slot's price. A stray bit past the last slot makes it throw
  instead; `QuotesRestingOrders` is about prices that are answered and does not count it.

Not a finding, as nothing says otherwise, but worth knowing: the prototype's `submit` at a price off the
ladder trades first and throws afterwards, so the caller never sees the trades. The ladder
stays consistent (`deque`).

## 4. The proofs

Every theorem holds for all values of the constants that meet the assumptions listed with it. `TypeOK`, an
inductive invariant `IInv` and the three facts `Init => IInv`, `IInv /\ [Next]_vars => IInv'`, `IInv =>` property
are the frame of each module; what is told below is why `IInv` is what it is. Section 4.8 lists what is not proved.

### 4.1 The abstract book

`LimitOrderBookProofs` proves about the abstract book, **for every set of ids, every
finite set of prices and every set of quantities**:

| Theorem | Says |
|---|---|
| `TypeCorrect` | `Spec => []TypeOK`; no queue holds an order of quantity 0 |
| `NeverCrossed` | `Spec => []NotCrossed` |
| `LiveOnlyOnce` | `Spec => []LiveOnce` |
| `PriorityKept` | `Spec => KeepsTimePriority` |
| `BestFirst` | `Spec => []SweepsBestFirst` |
| `PartialFillLast` | `Spec => []PartialFillEndsSweep` |

**Assumptions.** `Prices` is a finite set of naturals (a price is a `uint32_t`), `Quantities`
is a set of naturals, and `NoOrder` is no order. `OrderIds` is any set.

**The argument.** Whatever an action does to a queue, other than appending to it, only
*thins* it: there is an increasing map from the new positions to the old ones that
keeps ids (`Thins`; lemmas `AfterFillThins`, `RemoveAtThins`). From that alone follow that a
price live afterwards was live before (`ThinsLive`), that ids stay unique
(`ThinsOnce`) and that nobody passes anybody (`ThinsKeepsOrder`). The one appending step,
`Finish`, needs its guard:

- *Not crossed.* A finite non-empty set of prices has a best element (`BestExists`), so
  when no price matches and the taker has quantity left, no live opposite price is
  within its limit (`RemainderDoesNotCross`). Finiteness is necessary: with infinitely many
  bids there need be no best one to match.
- *Live once.* `OneOrderPerId` is not inductive: `Finish` would break it if the taker's id
  came to rest elsewhere meanwhile. The strengthening, which is part of `LiveOnce`,
  is that the taker's id does not rest while it matches; `Submit` establishes it by its
  guard, `Fill` keeps it because it thins.
- *Time priority.* `PriorityStep` needs `LiveOnce`: with one id at two places of a queue,
  "who came first" has no answer.
- *One submit.* `SweepsBestFirst` is not inductive: that the next trade is at no better price than
  the earlier ones needs that no price better than one already traded at is live
  (`NoneSkipped`), and that its maker is a new one needs `PartialFillEndsSweep`: the
  earlier makers are gone. The three together are (`SweepInv`). A maker traded in
  full is gone from the whole book only because its id was unique (`FilledMakerGone`).

The two engines implement the book (4.2, 4.3), so what these theorems say of queues, trades and replies they say of
`map_engine::OrderBook` and of `BitmapOrderBook`, for any number of orders and prices.

### 4.2 The map engine

`MapEngineProofs` proves, **for every set of ids, every finite set of prices and every set of quantities**:

| Theorem | Says |
|---|---|
| `IndexMatchesLevelsAlways` | `Spec => []IndexMatchesLevels`, with `TypeOK` |
| `NoEmptyLevelAlways` | `Spec => []NoEmptyLevel` |
| `VolumeMatchesAlways` | `Spec => []VolumeMatches` |
| `ImplementsBookAlways` | `Spec => ImplementsBook`, the refinement of `LimitOrderBook` |

**Assumptions.** Those of the book, and `NoneAssumption`: `None`, which stands for "no node", "no entry" and
"no call", is none of the things it is told apart from.

**The argument.** `IInv == TypeOK /\ LevelsGood /\ IndexExact /\ CallOnTrack`. `LevelsGood` says of each level in a map that
its list is not empty, that its nodes are of its side and price and that its volume is the sum of their quantities;
`IndexExact` that an id is in the index exactly when one node, at the place the index names, holds it. `CallOnTrack` is
the strengthening that only the submit needs: while it matches, its id is not in the index (or `Finish` would
list it twice) and the loop's iterator stands on the best level of the other side, which is what makes "no level at the
iterator" mean "no level at all".

A sum over a list is a recursive function, and induction over it is out of the prover's reach. The running sums
are therefore carried as a witness: `SumsTo` (`CommonProofs`) says that some function of partial
sums starts at 0, adds each element and ends at the total. Appending, removing and reducing turn one witness into
another (`SumAppend`, `SumRemove`, `SumTake`), and a total is unique (`SumUnique`) by the least place at which two such
functions could differ (`LeastNat`), so no induction principle has to be instantiated.

The refinement goes queue by queue. `QueueAppend`, `QueueRemove` and `QueueTake` say what each list operation does to the
queue the caller sees, `BookPlaces` that a queue changed at one place is the book changed at that place.
`BestIsFirst` turns the iterator's order of keys into the book's best price and `LiveIsIndexed` the index lookup into the
book's test for a resting id; then there is one lemma per action (`SubmitBook`, `FillBook`, `FinishBook`, `CancelBook`).

### 4.3 The ladder engine

`BitmapEngineProofs` proves, **for every ladder, capacity, word width, limit of the id map, set of ids and set of
quantities**:

| Theorem | Says |
|---|---|
| `LevelsWellLinkedAlways` | `Spec => []LevelsWellLinked`, with `TypeOK` |
| `SlotsPartitionedAlways` | `Spec => []SlotsPartitioned` |
| `TotalQtyMatchesAlways` | `Spec => []TotalQtyMatches` |
| `IdsMatchSlotsAlways` | `Spec => []IdsMatchSlots` |
| `BitsMatchLevelsAlways` | `Spec => []BitsMatchLevels` |
| `RemainderHasRoomAlways` | `Spec => []RemainderHasRoom` |
| `EachRoundShrinksAlways` | `Spec => EachRoundShrinks`, an action property |
| `ImplementsBookAlways` | `Spec => ImplementsBook`, the refinement of `LimitOrderBook` |

**Assumptions.** Those of the book; `MinPrice <= MaxPrice`, a tick and a capacity of at least 1 (the constructor throws
otherwise); words of at least one bit; a natural `MaxLoad`; `ZeroId` is no id of an order, `Nil` no slot and no call.
The limit `MaxLoad` need not be above the capacity: that an admitted order finds room in the map is the
engine's doing, not the configuration's.

**The argument.** `IInv` is `Store(pool, ladder, bits, id_to_idx)`, the types of `call`, `executed_trades` and `reply`, and
`RoomLeft`. `Store` has four parts, none of them inductive without the first:

- the types of the four containers;
- `Layout`: the chain from each level's head is its orders, forwards and backwards, with its total; the free
  chain is a list; every slot is in exactly one of these lists. The orders of a level are given by their sequence of
  slots (`Lists`, `ListsBack`), and a list operation by what it does to that sequence (`LevelPush`, `LevelUnlink`,
  `LevelReduce`); that a slot is in no other list is what leaves the other lists alone (`ListKept`, `LayoutRelease`,
  `LayoutTake`). `pop_front` is `unlink` of the front (`PopIsUnlink`), so a full fill and a cancel share every lemma after
  that one, and `ChainIs` ties the sequences to `Chain`, which the properties are written with;
- `IdsMatch`: the id map sends an id to a slot exactly when that slot rests under that id. A fill
  forgets the id it reads in the slot that is being freed, a cancel the id it was given, so what is forgotten is the slot's
  own id only because `IdsMatch` held before, and because the slot's order is still the one it was admitted under (`SameOrder`);
- `BitsMatch`: each side's three bitmap levels are those of its non-empty price levels. The lemmas are those of
  `LadderIndexProofs`, instantiated once and used for both sides (4.4).

`RoomLeft` is the strengthening for `RemainderHasRoom`: while a call is under way, a free slot and a free entry of the map
are left, and the order's id is not in the map. The tests before matching establish it; a round of matching can only
free slots and ids (`NoNewIds`, `RoomKept`); the one slot and the one entry that the remainder takes end the call.

The refinement again goes queue by queue (`QueueBecomes`, `BookPlaces`), a chain with its slots' ids and quantities being the
queue. That a match of the engine is a match of the book is `BestIsSlot`: the search finds the extreme bit
(`BestIsBest`), bits are levels, and slot order is price order (`PricesInOrder`, from the arithmetic of `price_to_index`).
That a duplicate is refused exactly when the book would call it one is `LiveIsMapped`, from `IdsMatch`.

The id map is there by its contract. That the hash table keeps the contract is `ImplementsContract` (4.5).

### 4.4 The level bitmap

`LadderIndexProofs` proves, **for every word width and every number of slots**:

| Theorem | Says |
|---|---|
| `LevelsAgreeAlways` | `Spec => []LevelsAgree` |
| `FindsBestAlways` | `Spec => []FindsBest` |

**Assumptions.** `WordBits` and `NumSlots` are at least 1. The code has 64 bits and three levels; the levels are
modelled as they are, so for more than `WordBits`^3 slots the top level has several words, which
the searches scan.

**The argument.** `IInv == live \subseteq SlotIndices /\ LevelsAgree` is inductive as it stands. Each level is the summary of
the one below: word `w` has bit `b` exactly when word `w * WordBits + b` below is not zero (`Layers`). Setting
a bit shows in every level above (`SetShows`); clearing one stops at the first word that is not zero and is
hidden from there up (`ClearHides`). For the searches, `HighestUnder` and `LowestUnder` say of one level that the
extreme bit of the extreme non-zero word leads to the extreme non-zero word below; three of these steps give `SearchFinds`.

### 4.5 The id map

`OrderMapProofs` proves about the hash table, **for every hash function, every table size and
every limit below it**:

| Theorem | Says |
|---|---|
| `TypeCorrect` | `Spec => []TypeOK` |
| `EntriesReachable` | `Spec => []Reachable` |
| `IdsUnique` | `Spec => []IdsOnce` |
| `CountExact` | `Spec => []CountMatches` |
| `ProbesStop` | `Spec => []ProbesEnd` |
| `ImplementsContract` | `Spec => ImplementsIdMap`, the refinement of `IdMap` |

**Assumptions.** `MaxLoad < SlotSize`, both naturals; `EmptyKey` is no order id, `NoIndex` no
index, `Idle` no erasure. `OrderIds` and `Indices` are any sets.

**The argument.** The inductive invariant `IInv` is `TypeOK`, `Reachable`, `IdsOnce`,
`CountMatches`, the limit, and `LoopOK`, which is about an erase under way: every slot from
the gap up to `j` is occupied, and `j` is not the gap. `Reachable` alone is not inductive.
While an erase runs, an entry's probe path may contain the gap, but only if the loop has yet
to pass that entry: an entry passed and left in place had its home beyond the gap
(`SkipStep`), and an entry moved takes the gap's place while its old slot becomes the gap, with
all that follows still to be looked at (`MoveStep`). When `j` meets an empty slot, an entry
with the gap on its path would have that empty slot on its path as well, which the
invariant excludes (`FinishEraseStep`, `DistThrough`). That `j` never comes round to the gap needs an
empty slot (`EmptySlotExists`), which comes from `CountMatches` and the limit. For the refinement, `FindPosExact`
says that probing finds the entries of an id and no others, and `HeldStays`, `HeldInserts`
and `HeldErases` say what each action does to the map the table stands for.

### 4.6 Ownership of the id map's memory

`OrderMapOwnershipProofs` proves, **for every set of objects, of memory regions and of ids, every table size and limit**:

| Theorem | Says |
|---|---|
| `OneOwnerAlways` | `Spec => []OneOwner`, with `TypeOK` |
| `MovesAreValuesAlways` | `Spec => MovesAreValues`, the refinement of `MoveOnlyMaps` |

**Assumptions.** `TableBytes` is at least 1 and `MaxLoad` a natural; the null pointer is no region and no set of ids;
`Absent` is no map.

**The argument.** `IInv == TypeOK /\ OwnerUnique /\ MappedIsOwned /\ FieldsTrue`: no two live objects point at one region, a region is
mapped only if some object points at it, and an object's pointer leads to a mapping of its size that
holds as many ids as it counts. `OneOwner`, which counts owners, follows (`OwnersCounted`). For the refinement, an object's value
is the set of ids behind its pointer; that a move to one object leaves the values of all others alone is
`OwnerUnique` once more (`OtherValues`).

### 4.7 The two engines together

`DifferentialProofs` proves about the two engines on one stream of events, **for every ladder, capacity, word width, limit
of the id map, and every set of ids, prices and quantities**:

| Theorem | Says |
|---|---|
| `AnswersAgreeAlways` | `Spec => []AnswersAgree` |
| `BooksAgreeAlways` | `Spec => []BooksAgree` |

**Assumptions.** Those of the two engines, with one set of prices and quantities for both: they are the named assumptions
of `Differential`. The price ranges need not overlap; prices off the ladder are in.

**Why two refinements are not enough.** Both engines implement the book over *their* prices, and a behaviour of the book
allows any order to come next. What is needed besides is that the book leaves no choice once the order is given, that
both admit the same orders but for the listed limits, and that "the ladder engine is done and the map engine is half-way"
can be said at all.

**The argument.** What an engine shows of itself is a *view*: its book, the order being matched, the trades and the reply
of the last call (`MapView`, `LadderView`). Both books are widened to the prices of either engine
(`AllPrices`, `Wide`): a price one engine does not know is an empty queue. The engines' proofs state each step in the words of
`CommonProofs`: a step of a matching loop is a `Round` of the book, the loop ends when the book allows none
(`Stuck`) and then the remainder rests (`Settled`), a cancel takes the one order of that id out (`Leaves`). Widening
changes none of these (`WideRound`, `WideStuck`, `WideSettled`, `WideLeaves`).

- *A round leaves no choice.* A book has one best price on a side and a queue one front, so book and taker determine the
  trade and what follows it (`OneMatch`, `OneRound`).
- *Leader and follower.* The ladder engine runs to its answer first, then the map engine. The first makes a *trail*: the books
  and takers between its trades. The second is on the same trail, at an earlier place (`Ahead`). A round of the leader lengthens
  the trail (`LeaderMoves`); a round of the follower has to be the trail's next one (`FollowerMoves`); when both are stuck they
  are at the same place and have made the same trades (`FollowerDone`). Lengths of trails are never inducted on: the trail
  is a witness that the invariant carries from step to step.
- *Admission.* Where an event may come, the views are level, so both indexes know the same ids (`SameIds`, from the
  engines' `RestingIsKnown`). From that the tests of the two feeds, in their different orders, give answers that fit
  (`Fits`, `FeedKeeps`, `RawKeeps`).
- *Cancels.* An id rests at one place at most (`OnePlace`), so removing it leaves no choice either (`OneLeaves`).

`DiffInv` is the two engines' own invariants and `InStep`: the views are level, or the map engine follows the ladder engine on
one trail (`Matching`), or the ladder engine refused what the map engine took, for a reason that only the ladder engine
has, after which nothing is compared (`Stopped`). `AnswersAgree` alone is not inductive: equal answers
to come depend on equal books now, and in the middle of a call neither answers nor books are equal.

### 4.8 Model-checked only

- `SubmitIsAtomic` of the book: its closed form adds up a line of makers of any length, which needs induction over data.
- The invariants of `Simulator`: they count events by kind in the vector returned, with `SelectSeq`, a recursive definition, and
  need induction over that vector. The one about ticks, `OnLadder`, is false in one profile (3.1).
- `OrdersAreMarked`, `BitsStayExact`, `StopsOnlyWhenDone` and `StepsAsBook` of `DequePrototype`: the archived engine is not part of the
  product, and `StepsAsBook` holds only as long as its uninitialised bitmap words do no harm.
- `SubmitReturns` and `EraseReturns`: liveness under fairness is outside what the prover handles.
- That `BitmapEngine` with `OrderMap` in the place of its id map behaves alike is the composition of two theorems,
  `ImplementsBookAlways` and `ImplementsContract`, and not a theorem of its own.

## 5. What is not modelled

- *Running out of memory.* The standard containers may throw between two updates. (The id map's
  `mmap` failing is modelled: `MapFails`.)
- *Calls on a moved-from id map.* They dereference null; the engine, which is never moved
  after use, makes none.
- *A mid price at an end of the range* in CrossingHeavy gives the library an empty or a wrapped
  distribution, which is undefined; configurations exclude it. The fields `valid_events_only`,
  `num_buy_events` and `num_resting_orders` are read or set by no code. `total_events` above the range of
  `int` is left out.
- *The output vector of `feed`* is only appended to; callers clear it or not. Per event the model compares
  the trades of that event.
- *Overflow of `int` totals* in the prototype: quantities are bounded by the instance.
- *Trade ids and timestamps*, on which nothing depends.
- *Prefetch hints, `reserve`, inlining* change no state.
- *`print_book`, `best_bid`, `best_ask`* of the engines only read: what they read is covered by
  `NoEmptyLevel`, `VolumeMatches`, `FindsBest` and `TotalQtyMatches`.
- *The test harness* itself: reporting, minimising, the compile-time probing for optional functions of an
  engine. Neither engine offers snapshots, so the books the test compares are empty; the
  model compares the books as well (`BooksAgree`). The contract cases are single sequences that the
  engines' runs contain.
- *The latency benchmark*: clocks and statistics. Its workload generator has the simulator's
  swap-and-pop and fixed price ranges.
- *The archived generator* (`archive/simulator_old`) does not compile as it stands (it includes `generator.h` and
  `types.h`, which the archive lacks), and nothing uses it.
- *The build*.

