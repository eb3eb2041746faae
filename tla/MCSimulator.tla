---------------------------- MODULE MCSimulator ----------------------------
(***************************************************************************)
(* Instances of Simulator for TLC: five prices at tick 1, and two grids of *)
(* tick 2, the second of a width that is no multiple of the tick.          *)
(***************************************************************************)
EXTENDS Simulator

Job(workload, total, min, mid, max, tick) ==
  [profile |-> workload,
   config  |-> [total_events |-> total, min_price |-> min, mid_price |-> mid,
                max_price |-> max, tick_size |-> tick, min_quantity |-> 1,
                max_quantity |-> 1]]

MCJobs ==
  {Job("CrossingHeavy", 5, 10, 12, 14, 1)} \cup
  UNION {{Job(w, 5, 10, 12, 14, 1), Job(w, 4, 10, 12, 14, 2), Job(w, 4, 10, 12, 15, 2)} :
           w \in {"AddOnly", "CancelHeavy"}}

MCTickJobs == {Job("CrossingHeavy", 4, 10, 12, 14, 2)}

=============================================================================
