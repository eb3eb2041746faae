------------------------------ MODULE Simulator ------------------------------
(***************************************************************************)
(* generate_events: the stream of events of one workload profile.  A draw  *)
(* from a distribution is any value of its range.  A configuration has the *)
(* fields of SimulatorConfig that generate_events reads, but for the seed  *)
(* and the probabilities, which only weigh the draws.                      *)
(***************************************************************************)
EXTENDS Common, Sequences, SequencesExt

CONSTANT Jobs   \* the profiles to generate, each with a configuration

\* Outside of these the ranges of the distributions are empty or wrap.
ASSUME JobsAssumption == \A c \in {job.config : job \in Jobs} :
  /\ {c.total_events, c.min_price, c.max_price, c.mid_price, c.tick_size,
      c.min_quantity, c.max_quantity} \subseteq Nat
  /\ c.tick_size > 0
  /\ c.min_price < c.mid_price /\ c.mid_price < c.max_price
  /\ c.min_quantity <= c.max_quantity

VARIABLES
  profile, config,    \* the arguments
  loop,               \* which loop runs: "only", "passive", "aggressive", "done"
  i,                  \* its counter
  current_order_id,
  live_orders,
  events, num_add_events, num_cancel_events    \* of result

arguments == <<profile, config>>
vars == <<arguments, loop, i, current_order_id, live_orders, events,
          num_add_events, num_cancel_events>>

-----------------------------------------------------------------------------
(* The ranges of the price distributions.                                  *)

\* AnyPrice, counting the levels in units of price.
AnyPriceUnscaled(c) ==
  {c.min_price + k * c.tick_size : k \in 0 .. c.max_price - c.min_price}

\* price_dist: one level per tick.
AnyPrice(c) ==
  {c.min_price + k * c.tick_size : k \in 0 .. (c.max_price - c.min_price) \div c.tick_size}

\* lower_price_dist: one level per unit of price.
LowerPrice(c) ==
  {c.min_price + k * c.tick_size : k \in 0 .. (c.mid_price - c.min_price) - 1}

\* upper_price_dist, likewise.
UpperPrice(c) ==
  {c.mid_price + k * c.tick_size : k \in 1 .. c.max_price - c.mid_price}

Quantities(c) == c.min_quantity .. c.max_quantity

-----------------------------------------------------------------------------
Init ==
  /\ \E job \in Jobs : profile = job.profile /\ config = job.config
  /\ loop = IF profile = "CrossingHeavy" THEN "passive" ELSE "only"
  /\ i = 0
  /\ current_order_id = 1
  /\ live_orders = <<>>
  /\ events = <<>>
  /\ num_add_events = 0 /\ num_cancel_events = 0

\* Round, once too often.
RoundPast(name, bound) == loop = name /\ i <= bound /\ i' = i + 1

\* The loop runs to `bound'; one round is counted.
Round(name, bound) == loop = name /\ i < bound /\ i' = i + 1

\* add_event, with the prices to draw from.
add_event(prices, side) ==
  /\ \E price \in prices, qty \in Quantities(config) :
       events' = Append(events, [type |-> "New", order_id |-> current_order_id,
                                 price |-> price, qty |-> qty, side |-> side])
  /\ live_orders' = Append(live_orders, current_order_id)
  /\ num_add_events' = num_add_events + 1
  /\ current_order_id' = current_order_id + 1
  /\ UNCHANGED <<arguments, loop, num_cancel_events>>

\* SwapAndPop, popping the last without moving it into the gap.
PopOnly(s, idx) == Front(s)

\* live_orders without its element at idx, its place taken by the last.
SwapAndPop(s, idx) == Front([s EXCEPT ![idx] = Last(s)])

cancel_event ==
  /\ \E idx \in DOMAIN live_orders :
       /\ events' = Append(events, [type |-> "Cancel", order_id |-> live_orders[idx],
                                    price |-> 0, qty |-> 0, side |-> Bid])
       /\ live_orders' = SwapAndPop(live_orders, idx)
  /\ num_cancel_events' = num_cancel_events + 1
  /\ UNCHANGED <<arguments, loop, current_order_id, num_add_events>>

AddOnly ==
  /\ profile = "AddOnly"
  /\ Round("only", config.total_events)
  /\ \E side \in Sides : add_event(AnyPrice(config), side)

CancelHeavy ==
  /\ profile = "CancelHeavy"
  /\ Round("only", config.total_events)
  /\ \/ \E side \in Sides : add_event(AnyPrice(config), side)
     \/ live_orders # <<>> /\ cancel_event

\* The first half of CrossingHeavy.
Passive ==
  /\ Round("passive", config.total_events \div 2)
  /\ \/ add_event(LowerPrice(config), Bid)
     \/ add_event(UpperPrice(config), Ask)

SecondStart == config.total_events \div 2

\* The second half.
Aggressive ==
  /\ Round("aggressive", config.total_events)
  /\ \/ add_event(UpperPrice(config), Bid)
     \/ add_event(LowerPrice(config), Ask)

\* A loop ends: the second half follows the first, or generate_events returns.
EndLoop ==
  /\ loop # "done"
  /\ i >= IF loop = "passive" THEN config.total_events \div 2 ELSE config.total_events
  /\ IF loop = "passive"
       THEN loop' = "aggressive" /\ i' = SecondStart
       ELSE loop' = "done" /\ i' = i
  /\ UNCHANGED <<arguments, current_order_id, live_orders, events,
                 num_add_events, num_cancel_events>>

Next == AddOnly \/ CancelHeavy \/ Passive \/ Aggressive \/ EndLoop

Spec == Init /\ [][Next]_vars

-----------------------------------------------------------------------------
IsNew(e) == e.type = "New"
IdsOf(s) == [k \in DOMAIN s |-> s[k].order_id]
News == SelectSeq(events, IsNew)
Cancels == SelectSeq(events, LAMBDA e : ~IsNew(e))

\* CancelsNameLiveOrders: whatever the mix of adds and swap-and-pop removals,
\* the stream gives every order an id of its own, each cancel names an order
\* added before it, no order is cancelled twice, and live_orders is exactly
\* what was added and not cancelled.
CancelsNameLiveOrders ==
  /\ IsInjective(IdsOf(News)) /\ IsInjective(IdsOf(Cancels)) /\ IsInjective(live_orders)
  /\ Range(live_orders) = Range(IdsOf(News)) \ Range(IdsOf(Cancels))
  /\ \A k \in DOMAIN events : ~IsNew(events[k]) =>
       \E j \in 1 .. k - 1 : IsNew(events[j]) /\ events[j].order_id = events[k].order_id

\* CountsExact: the result's counters are the numbers of events of each kind,
\* and the stream has as many events as asked for, an odd number included.
CountsExact ==
  /\ num_add_events = Len(News) /\ num_cancel_events = Len(Cancels)
  /\ loop = "done" => Len(events) = config.total_events

\* OnLadder: a ladder engine configured with the same prices accepts the price
\* of every order of the stream.
OnLadder ==
  \A k \in DOMAIN News :
    /\ News[k].price >= config.min_price /\ News[k].price <= config.max_price
    /\ (News[k].price - config.min_price) % config.tick_size = 0

=============================================================================
