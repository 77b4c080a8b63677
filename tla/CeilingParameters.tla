------------------------- MODULE CeilingParameters -------------------------
(***************************************************************************)
(* What the spend ceiling is given: the calls, their prices and its limit. *)
(* Money is a natural number of some small unit: the code adds floats with *)
(* fsum, and rounding is outside the model.                                *)
(***************************************************************************)
EXTENDS Naturals, FiniteSets, Functions

CONSTANTS Calls,    \* every paid call the process will ever attempt
          Worst,    \* call_worst_case of each call; 0 stands for None, a
                    \* call the catalog cannot price
          Limit,    \* spend_limit_usd
          NoLimit,  \* BENCH_SPEND_LIMIT_USD unset
          Costs     \* what a settled call may count; 0 stands for None

ASSUME CeilingAssumption ==
  /\ IsFiniteSet(Calls)
  /\ Worst \in [Calls -> Nat]
  /\ Costs \subseteq Nat
  /\ NoLimit \notin Nat
  /\ Limit \in (Nat \ {0}) \cup {NoLimit}
=============================================================================
