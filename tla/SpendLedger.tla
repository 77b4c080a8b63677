---------------------------- MODULE SpendLedger ----------------------------
(***************************************************************************)
(* The per-boot spend ledger of bench/main.py: what has been recorded      *)
(* against the ceiling, and the worst case each admitted call holds until  *)
(* it settles.  In the code every operator below is one plain function     *)
(* with no await, so each is a single step of the event loop; the caller   *)
(* modules build their actions from them.                                  *)
(***************************************************************************)
EXTENDS CeilingParameters

VARIABLES accumulated,  \* accumulated_spend_usd
          claims,       \* spend_reservations; 0 is a key the dict lacks
          beyond        \* history: the sum, over settled calls, of what
                        \* each counted above the claim it held

ledgerVars == <<accumulated, claims, beyond>>

LedgerTypeOK ==
  /\ accumulated \in Nat
  /\ claims \in [Calls -> Nat]
  /\ beyond \in Nat

LedgerInit ==
  /\ accumulated = 0
  /\ claims = [c \in Calls |-> 0]
  /\ beyond = 0

-----------------------------------------------------------------------------
spend_reserved == SumFunction(claims)

spend_ceiling_reached == Limit # NoLimit /\ accumulated >= Limit

\* Variant: admission that looks at recorded spend only.
spend_admits_unreserved(worst) ==
  Limit = NoLimit \/ accumulated + worst <= Limit

spend_admits(worst) ==
  \/ Limit = NoLimit
  \/ /\ accumulated < Limit
     /\ accumulated + spend_reserved + worst <= Limit

spend_room_held_by_others(worst) ==
  /\ Limit # NoLimit
  /\ accumulated < Limit
  /\ accumulated + worst <= Limit

\* Variant: a reservation that holds nothing.
ClaimNothing(c) == 0

\* What reserve_spend files under the key it hands out: nothing for a call
\* that cannot be priced, and nothing at all without a limit.
Claim(c) == IF Limit = NoLimit THEN 0 ELSE Worst[c]

\* The admitted branch of reserve_spend; spend_admits is the caller's guard,
\* because the four kinds of caller answer a refusal differently.
reserve_spend(c) ==
  /\ claims' = [claims EXCEPT ![c] = Claim(c)]
  /\ UNCHANGED <<accumulated, beyond>>

\* Variant: a release that is forgotten.
release_spend_forgotten(c) == UNCHANGED ledgerVars

\* release_spend gives the claim back uncounted; idempotent.
release_spend(c) ==
  /\ claims' = [claims EXCEPT ![c] = 0]
  /\ UNCHANGED <<accumulated, beyond>>

Excess(cost, claim) == IF cost > claim THEN cost - claim ELSE 0

\* settle_spend: the claim leaves and the cost arrives, nothing between.
settle_spend(c, cost) ==
  /\ claims' = [claims EXCEPT ![c] = 0]
  /\ accumulated' = accumulated + cost
  /\ beyond' = beyond + Excess(cost, claims[c])
=============================================================================
