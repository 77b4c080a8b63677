-------------------------- MODULE CeilingContract --------------------------
(***************************************************************************)
(* What the spend ceiling promises, with no queue, slot, wait or ledger    *)
(* entry in it: calls are admitted only while everything admitted could    *)
(* settle at its worst case and stay within the limit, and recorded spend  *)
(* passes the limit only by what calls counted beyond their worst case     *)
(* (README, the spend ceiling: "the bound is exact to the reservations").  *)
(* UpstreamCalls is shown to implement it.                                 *)
(***************************************************************************)
EXTENDS CeilingParameters

VARIABLES spent,     \* recorded spend
          beyond,    \* what settled calls counted beyond their worst case
          admitted   \* the calls admitted and not yet ended

vars == <<spent, beyond, admitted>>

Init == spent = 0 /\ beyond = 0 /\ admitted = {}

\* What an admitted call reserves: its worst case, under a limit.
Reservation(c) == IF Limit = NoLimit THEN 0 ELSE Worst[c]

\* The most the calls of S reserve, were each to settle at its worst.
Committed(S) ==
  SumFunction([c \in Calls |-> IF c \in S THEN Reservation(c) ELSE 0])

Room(c) ==
  \/ Limit = NoLimit
  \/ /\ spent < Limit
     /\ spent + Committed(admitted) + Worst[c] <= Limit

Admit(c) ==
  /\ c \notin admitted
  /\ Room(c)
  /\ admitted' = admitted \cup {c}
  /\ UNCHANGED <<spent, beyond>>

\* A call that ends without a cost: refused in its slot, cut off, stopped.
Withdraw(c) ==
  /\ c \in admitted
  /\ admitted' = admitted \ {c}
  /\ UNCHANGED <<spent, beyond>>

Count(c, cost) ==
  /\ c \in admitted
  /\ admitted' = admitted \ {c}
  /\ spent' = spent + cost
  /\ beyond' = beyond + (IF cost > Reservation(c) THEN cost - Reservation(c)
                                                  ELSE 0)

Next == \E c \in Calls :
          Admit(c) \/ Withdraw(c) \/ \E cost \in Costs : Count(c, cost)

Spec == Init /\ [][Next]_vars

-----------------------------------------------------------------------------
TypeOK ==
  /\ spent \in Nat
  /\ beyond \in Nat
  /\ admitted \subseteq Calls

\* Recorded spend and the worst cases of everything admitted fit under the
\* limit, except for what settled calls counted beyond their own worst case.
Promise == Limit # NoLimit => spent + Committed(admitted) <= Limit + beyond
=============================================================================
