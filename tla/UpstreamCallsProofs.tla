------------------------ MODULE UpstreamCallsProofs ------------------------
(***************************************************************************)
(* Proofs about UpstreamCalls, for every set of calls, every limit, every  *)
(* worst case and every number of slots: its types, that a claim is held   *)
(* exactly while its call is live, what a reached limit and a stop shut    *)
(* off, that the four kinds of caller keep the contract of the spend       *)
(* ceiling and so its promise, and that no sleeper is forgotten.           *)
(***************************************************************************)
EXTENDS UpstreamCalls, FiniteSetTheorems, TLAPS

\* The inductive invariant: the types of everything but the semaphore, and
\* the claims table as a function of the stages the calls are in.
IInv == CallsTypeOK /\ ClaimsFollowCalls

LEMMA ClaimType == \A c \in Calls : Claim(c) \in Nat
  BY CeilingAssumption DEF Claim

\* release_spend's wakeup moves sleepers only, so it changes no call's type
\* and no call's hold on the ledger.
LEMMA FreedKeepsHolders ==
  ASSUME NEW p \in [Calls -> Stages], NEW claim \in Nat
  PROVE  /\ Freed(p, claim) \in [Calls -> Stages]
         /\ \A c \in Calls : Freed(p, claim)[c] \in Holding <=> p[c] \in Holding
  BY DEF Freed, Stages, Holding, Waiting

\* A call that ends with no cost leaves the claims table as it should be.
LEMMA LeaveKeepsIInv ==
  ASSUME IInv, NEW c \in Calls, NEW outcome \in Ended, Leave(c, outcome)
  PROVE  IInv'
<1> DEFINE p == [pc EXCEPT ![c] = outcome]
<1>1. /\ p \in [Calls -> Stages]
      /\ claims[c] \in Nat
      /\ p[c] \notin Holding
      /\ \A d \in Calls \ {c} : p[d] = pc[d]
  BY DEF IInv, CallsTypeOK, LedgerTypeOK, Stages, Ended, Holding
<1>2. /\ pc' = Freed(p, claims[c])
      /\ claims' = [claims EXCEPT ![c] = 0]
      /\ UNCHANGED <<accumulated, beyond, stop>>
  BY DEF Leave, release_spend
<1>3. /\ pc' \in [Calls -> Stages]
      /\ \A d \in Calls : pc'[d] \in Holding <=> p[d] \in Holding
  BY <1>1, <1>2, FreedKeepsHolders
<1>4. CallsTypeOK'
  BY <1>2, <1>3 DEF IInv, CallsTypeOK, LedgerTypeOK
<1>5. ClaimsFollowCalls'
  BY <1>1, <1>2, <1>3 DEF IInv, CallsTypeOK, LedgerTypeOK, ClaimsFollowCalls, Claim
<1> QED
  BY <1>4, <1>5 DEF IInv

\* So does everything a call can do once a slot is its own.
LEMMA InSlotKeepsIInv ==
  ASSUME IInv, NEW c \in Calls, NEW s, pc[c] \in Holding, InSlot(c, s)
  PROVE  IInv'
<1>1. CASE Leave(c, "refused")
  BY <1>1, LeaveKeepsIInv DEF Ended
<1>2. CASE Leave(c, "skipped")
  BY <1>2, LeaveKeepsIInv DEF Ended
<1>3. CASE /\ pc' = [pc EXCEPT ![c] = "wire"]
           /\ UNCHANGED <<ledgerVars, stop>>
  BY <1>3 DEF IInv, CallsTypeOK, LedgerTypeOK, ledgerVars, ClaimsFollowCalls,
              Claim, Stages, Holding
<1> QED
  BY <1>1, <1>2, <1>3 DEF InSlot

\* A step that moves one call between stages that hold nothing.
LEMMA MoveKeepsIInv ==
  ASSUME IInv, NEW c \in Calls, NEW stage \in Stages \ Holding,
         pc[c] \notin Holding, pc' = [pc EXCEPT ![c] = stage],
         UNCHANGED <<ledgerVars, stop>>
  PROVE  IInv'
  BY DEF IInv, CallsTypeOK, LedgerTypeOK, ledgerVars, ClaimsFollowCalls, Claim

\* A call makes its claim from a stage that holds nothing.
LEMMA ClaimsFromNothing ==
  ASSUME NEW c \in Calls, AtItsClaim(c)
  PROVE  pc[c] \notin Holding
  BY DEF AtItsClaim, Holding

LEMMA CancelKeepsIInv ==
  ASSUME IInv, NEW c \in Calls, Cancel(c)
  PROVE  IInv'
  BY LeaveKeepsIInv DEF Cancel, Ended

LEMMA InitIInv == Init => IInv
  BY DEF Init, IInv, CallsTypeOK, LedgerTypeOK, LedgerInit, ClaimsFollowCalls,
         Stages, Holding, Runners

LEMMA StepIInv == IInv /\ [Next]_vars => IInv'
<1> SUFFICES ASSUME IInv, [Next]_vars PROVE IInv'
  OBVIOUS
<1>1. ASSUME NEW r \in Requests, Door(r) PROVE IInv'
  BY <1>1 DEF Door, IInv, CallsTypeOK, LedgerTypeOK, ClaimsFollowCalls, Claim,
              ledgerVars, At, Stages, Ended, Holding, Waiting
<1>2. ASSUME NEW c \in Calls, Dispatch(c) PROVE IInv'
  BY <1>2, MoveKeepsIInv DEF Dispatch, Stages, Ended, Holding, Waiting
<1>3. ASSUME NEW c \in Calls, Refuse(c) PROVE IInv'
  BY <1>3, MoveKeepsIInv, ClaimsFromNothing
     DEF Refuse, Stages, Ended, Holding, Waiting
<1>4. ASSUME NEW c \in Calls, Wait(c) PROVE IInv'
  BY <1>4, MoveKeepsIInv, ClaimsFromNothing
     DEF Wait, Stages, Ended, Holding, Waiting
<1>5. ASSUME NEW c \in Calls, Skip(c) PROVE IInv'
  BY <1>5, MoveKeepsIInv, ClaimsFromNothing
     DEF Skip, Stages, Ended, Holding, Waiting
<1>6. ASSUME NEW c \in Calls, AdmitToQueue(c) PROVE IInv'
  BY <1>6, ClaimType DEF AdmitToQueue, reserve_spend, IInv, CallsTypeOK,
     LedgerTypeOK, ClaimsFollowCalls, Claim, Stages, Holding
<1>7. ASSUME NEW c \in Calls, AdmitToWire(c) PROVE IInv'
  BY <1>7, ClaimType DEF AdmitToWire, reserve_spend, IInv, CallsTypeOK,
     LedgerTypeOK, ClaimsFollowCalls, Claim, Stages, Holding
<1>8. ASSUME NEW c \in Calls, AdmitThenSkip(c) PROVE IInv'
  <2> DEFINE p == [pc EXCEPT ![c] = "skipped"]
  <2>1. /\ p \in [Calls -> Stages]
        /\ \A d \in Calls : p[d] \in Holding <=> pc[d] \in Holding
    BY <1>8, ClaimsFromNothing
       DEF AdmitThenSkip, IInv, CallsTypeOK, Stages, Ended, Holding
  <2>2. pc' = Freed(p, Claim(c)) /\ UNCHANGED <<ledgerVars, stop>>
    BY <1>8 DEF AdmitThenSkip
  <2>3. /\ pc' \in [Calls -> Stages]
        /\ \A d \in Calls : pc'[d] \in Holding <=> p[d] \in Holding
    BY <2>1, <2>2, ClaimType, FreedKeepsHolders
  <2> QED
    BY <2>1, <2>2, <2>3 DEF IInv, CallsTypeOK, LedgerTypeOK, ledgerVars,
                            ClaimsFollowCalls, Claim
<1>9. ASSUME NEW c \in Calls, AfterFrame(c) PROVE IInv'
  <2>1. CASE pc' = [pc EXCEPT ![c] = "queued"] /\ UNCHANGED <<ledgerVars, stop>>
    BY <1>9, <2>1 DEF AfterFrame, IInv, CallsTypeOK, LedgerTypeOK, ledgerVars,
                      ClaimsFollowCalls, Claim, Stages, Holding
  <2>2. CASE InSlot(c, Taken(slots))
    BY <1>9, <2>2, InSlotKeepsIInv DEF AfterFrame, Holding
  <2> QED
    BY <1>9, <2>1, <2>2 DEF AfterFrame
<1>10. ASSUME NEW c \in Calls, TakeSlot(c) PROVE IInv'
  BY <1>10, InSlotKeepsIInv DEF TakeSlot, Holding
<1>11. ASSUME NEW c \in Calls, NEW cost \in Costs, Settle(c, cost) PROVE IInv'
  <2> DEFINE p == [pc EXCEPT ![c] = "counted"]
  <2>1. /\ p \in [Calls -> Stages]
        /\ claims[c] \in Nat
        /\ p[c] \notin Holding
        /\ \A d \in Calls \ {c} : p[d] = pc[d]
    BY DEF IInv, CallsTypeOK, LedgerTypeOK, Stages, Ended, Holding
  <2>2. /\ pc' = Freed(p, claims[c])
        /\ claims' = [claims EXCEPT ![c] = 0]
        /\ accumulated' = accumulated + cost
        /\ beyond' = beyond + Excess(cost, claims[c])
        /\ UNCHANGED stop
    BY <1>11 DEF Settle, settle_spend
  <2>3. cost \in Nat /\ Excess(cost, claims[c]) \in Nat
    BY <2>1, CeilingAssumption DEF Excess
  <2>4. /\ pc' \in [Calls -> Stages]
        /\ \A d \in Calls : pc'[d] \in Holding <=> p[d] \in Holding
    BY <2>1, <2>2, FreedKeepsHolders
  <2>5. CallsTypeOK'
    <3>1. claims' \in [Calls -> Nat] /\ stop' \in [Runners -> BOOLEAN]
      BY <2>2 DEF IInv, CallsTypeOK, LedgerTypeOK
    <3>2. accumulated' \in Nat /\ beyond' \in Nat
      BY <2>2, <2>3 DEF IInv, CallsTypeOK, LedgerTypeOK
    <3> QED
      BY <2>4, <3>1, <3>2 DEF CallsTypeOK, LedgerTypeOK
  <2>6. ClaimsFollowCalls'
    BY <2>1, <2>2, <2>4
       DEF IInv, CallsTypeOK, LedgerTypeOK, ClaimsFollowCalls, Claim
  <2> QED
    BY <2>5, <2>6 DEF IInv
<1>12. ASSUME NEW c \in Calls, Disconnect(c) \/ Cut(c) PROVE IInv'
  BY <1>12, CancelKeepsIInv DEF Disconnect, Cut
<1>13. ASSUME NEW kind \in Runners, Stop(kind) PROVE IInv'
  BY <1>13 DEF Stop, IInv, CallsTypeOK, LedgerTypeOK, ClaimsFollowCalls, Claim,
               ledgerVars, Stages, Holding, Waiting
<1>14. CASE UNCHANGED vars
  BY <1>14 DEF vars, IInv, CallsTypeOK, LedgerTypeOK, ClaimsFollowCalls, Claim
<1> QED
  BY <1>1, <1>2, <1>3, <1>4, <1>5, <1>6, <1>7, <1>8, <1>9, <1>10, <1>11,
     <1>12, <1>13, <1>14 DEF Next, Step, Quiet

\* Type correctness, the semaphore apart.
THEOREM CallsTypeCorrect == Spec => []CallsTypeOK
<1>1. IInv => CallsTypeOK
  BY DEF IInv
<1> QED
  BY <1>1, InitIInv, StepIInv, PTL DEF Spec

\* No way out of a call leaves its claim behind, and no claim is dropped or
\* doubled before its call ends (the finally of limited, events,
\* run_one_trial and score_one_result).
THEOREM ClaimsCorrect == Spec => []ClaimsFollowCalls
<1>1. IInv => ClaimsFollowCalls
  BY DEF IInv
<1> QED
  BY <1>1, InitIInv, StepIInv, PTL DEF Spec

-----------------------------------------------------------------------------
(***************************************************************************)
(* What is sent.                                                           *)
(***************************************************************************)

\* A request goes out under the ceiling and, for a judge call, with no stop
\* heard: at its claim, or in its slot, where both are looked at again.
LEMMA GoingOut ==
  ASSUME IInv, [Next]_vars, NEW c \in Calls, pc'[c] = "wire", pc[c] # "wire"
  PROVE  ~spend_ceiling_reached /\ ~(Kind[c] = "judge" /\ Stopped(c))
<1> DEFINE Right == ~spend_ceiling_reached /\ ~(Kind[c] = "judge" /\ Stopped(c))
<1>1. \A p \in [Calls -> Stages], claim \in Nat : Freed(p, claim)[c] = "wire" => p[c] = "wire"
  BY DEF Freed
<1>2. pc \in [Calls -> Stages] /\ claims \in [Calls -> Nat] /\ accumulated \in Nat
  BY DEF IInv, CallsTypeOK, LedgerTypeOK
<1>3. ASSUME NEW d \in Calls, NEW outcome \in Ended, Leave(d, outcome) PROVE FALSE
  <2>1. [pc EXCEPT ![d] = outcome] \in [Calls -> Stages] /\ outcome # "wire"
    BY <1>2 DEF Stages, Ended
  <2> QED BY <1>1, <1>2, <1>3, <2>1 DEF Leave
<1>4. ASSUME NEW d \in Calls, NEW s, InSlot(d, s) PROVE Right
  BY <1>2, <1>3, <1>4 DEF InSlot, Ended
<1>5. ASSUME NEW r \in Requests, Door(r) PROVE FALSE
  BY <1>2, <1>5 DEF Door
<1>6. ASSUME NEW d \in Calls, \/ Dispatch(d) \/ Refuse(d) \/ Wait(d)
                              \/ Skip(d) \/ AdmitToQueue(d)
      PROVE  FALSE
  BY <1>2, <1>6 DEF Dispatch, Refuse, Wait, Skip, AdmitToQueue
<1>7. ASSUME NEW d \in Calls, AdmitToWire(d) PROVE Right
  <2>1. d = c
    BY <1>2, <1>7 DEF AdmitToWire
  <2> QED BY <1>2, <1>7, <2>1, CeilingAssumption
          DEF AdmitToWire, spend_admits, spend_ceiling_reached
<1>8. ASSUME NEW d \in Calls, AdmitThenSkip(d) PROVE FALSE
  <2>1. [pc EXCEPT ![d] = "skipped"] \in [Calls -> Stages]
    BY <1>2 DEF Stages, Ended
  <2> QED BY <1>1, <1>2, <1>8, <2>1, ClaimType DEF AdmitThenSkip
<1>9. ASSUME NEW d \in Calls, AfterFrame(d) \/ TakeSlot(d) PROVE Right
  BY <1>2, <1>4, <1>9 DEF AfterFrame, TakeSlot
<1>10. ASSUME NEW d \in Calls, NEW cost \in Costs, Settle(d, cost) PROVE FALSE
  <2>1. [pc EXCEPT ![d] = "counted"] \in [Calls -> Stages]
    BY <1>2 DEF Stages, Ended
  <2> QED BY <1>1, <1>2, <1>10, <2>1 DEF Settle
<1>11. ASSUME NEW d \in Calls, Disconnect(d) \/ Cut(d) PROVE FALSE
  BY <1>3, <1>11 DEF Disconnect, Cut, Cancel, Ended
<1>12. ASSUME NEW kind \in Runners, Stop(kind) PROVE FALSE
  BY <1>2, <1>12 DEF Stop
<1>13. UNCHANGED vars => FALSE
  BY DEF vars
<1> QED
  BY <1>5, <1>6, <1>7, <1>8, <1>9, <1>10, <1>11, <1>12, <1>13 DEF Next, Step, Quiet

\* Past the limit nothing more is sent, so recorded spend still grows only by
\* what was already executing.
THEOREM CeilingStopsSending == Spec => CeilingClosesTheWire
<1>1. IInv /\ [Next]_vars => [spend_ceiling_reached => At("wire")' \subseteq At("wire")]_vars
  BY GoingOut DEF At
<1> QED BY <1>1, InitIInv, StepIInv, PTL DEF Spec, CeilingClosesTheWire

\* A judge call that waited, for room or for a slot, hears its pass's stop
\* before anything is sent.
THEOREM StopIsHeard == Spec => StopSendsNoJudgeCall
<1>1. IInv /\ [Next]_vars => [\A c \in Calls : /\ Kind[c] = "judge"
                                               /\ stop["judge"]
                                               /\ pc'[c] = "wire"
                                               => pc[c] = "wire"]_vars
  BY GoingOut DEF Stopped, Runners
<1> QED BY <1>1, InitIInv, StepIInv, PTL DEF Spec, StopSendsNoJudgeCall

-----------------------------------------------------------------------------
(***************************************************************************)
(* Sums.  What is reserved is a sum over calls: here is what the community *)
(* module's SumFunction computes, a natural number that moves by the       *)
(* difference when one value of the function does.  It folds over its      *)
(* domain by a recursive function on subsets; the facts are proved by      *)
(* taking a smallest subset at which they fail.                            *)
(***************************************************************************)
LEMMA SmallestSubset ==
  ASSUME NEW S, IsFiniteSet(S), NEW B \in SUBSET (SUBSET S), B # {}
  PROVE  \E u \in B : \A v \in B : v \subseteq u => v = u
<1>1. IsWellFoundedOn(StrictSubsetOrdering(S), SUBSET S)
  BY FS_StrictSubsetOrderingWellFounded, FS_FiniteSubsetsOfFinite
<1>2. \E u \in B : \A v \in B : <<v, u>> \notin StrictSubsetOrdering(S)
  BY <1>1, WFMin
<1> QED
  BY <1>2 DEF StrictSubsetOrdering

\* The element a fold takes first from a set.
First(s) == CHOOSE x \in s : TRUE

LEMMA FirstIn == \A s : s # {} => First(s) \in s
  BY DEF First

\* it is the fold's recursive function on the subsets of S.
IsPartialSum(f, S, it) ==
  it = [s \in SUBSET S |-> IF s = {} THEN 0 ELSE f[First(s)] + it[s \ {First(s)}]]

LEMMA PartialSumAt ==
  ASSUME NEW f, NEW S, NEW it, IsPartialSum(f, S, it), NEW s \in SUBSET S
  PROVE  it[s] = IF s = {} THEN 0 ELSE f[First(s)] + it[s \ {First(s)}]
  BY DEF IsPartialSum

\* Two such functions agree where both are defined.
LEMMA PartialSumsAgree ==
  ASSUME NEW f, NEW S, NEW T, IsFiniteSet(S), NEW g, NEW h,
         IsPartialSum(f, S, g), IsPartialSum(f, T, h)
  PROVE  \A s \in SUBSET S : s \in SUBSET T => g[s] = h[s]
<1> DEFINE B == {s \in SUBSET S : s \in SUBSET T /\ g[s] # h[s]}
<1> SUFFICES ASSUME B # {} PROVE FALSE
  OBVIOUS
<1>0. B \in SUBSET (SUBSET S)
  OBVIOUS
<1>1. PICK u \in B : \A v \in B : v \subseteq u => v = u
  <2> HIDE DEF B
  <2> QED
    BY <1>0, SmallestSubset
<1>x. u \in SUBSET S /\ u \in SUBSET T
  OBVIOUS
<1>2. g[u] = IF u = {} THEN 0 ELSE f[First(u)] + g[u \ {First(u)}]
  BY <1>x, PartialSumAt
<1>3. h[u] = IF u = {} THEN 0 ELSE f[First(u)] + h[u \ {First(u)}]
  BY <1>x, PartialSumAt
<1>4. u # {} => g[u \ {First(u)}] = h[u \ {First(u)}]
  BY <1>1, FirstIn
<1> QED
  BY <1>2, <1>3, <1>4

LEMMA PartialSumExists ==
  ASSUME NEW f, NEW S, IsFiniteSet(S)
  PROVE  \E it : IsPartialSum(f, S, it)
<1> DEFINE B == {s \in SUBSET S : ~ \E it : IsPartialSum(f, s, it)}
           It(t) == CHOOSE it : IsPartialSum(f, t, it)
<1>1. SUFFICES ASSUME B # {} PROVE FALSE
  OBVIOUS
<1>x. B \in SUBSET (SUBSET S)
  OBVIOUS
<1>2. PICK u \in B : \A v \in B : v \subseteq u => v = u
  <2> HIDE DEF B
  <2> QED
    BY <1>1, <1>x, SmallestSubset
<1>3. \A t \in SUBSET u : t # u => IsPartialSum(f, t, It(t))
  BY <1>2
<1> DEFINE g == [t \in SUBSET u |->
                   IF t = {} THEN 0
                   ELSE f[First(t)] + It(t \ {First(t)})[t \ {First(t)}]]
<1>4. ASSUME NEW t \in SUBSET u, t # {}
      PROVE  g[t \ {First(t)}] = It(t \ {First(t)})[t \ {First(t)}]
  <2> DEFINE w == t \ {First(t)}
  <2>1. w \in SUBSET u /\ w # u
    BY <1>4, FirstIn
  <2>2. IsPartialSum(f, w, It(w))
    BY <2>1, <1>3
  <2>3. It(w)[w] = IF w = {} THEN 0 ELSE f[First(w)] + It(w)[w \ {First(w)}]
    <3> HIDE DEF It, w
    <3> QED
      BY <2>2, PartialSumAt
  <2>4. ASSUME w # {}
        PROVE  It(w)[w \ {First(w)}] = It(w \ {First(w)})[w \ {First(w)}]
    <3> DEFINE v == w \ {First(w)}
    <3>1. v \in SUBSET u /\ v # u /\ v \in SUBSET w /\ IsFiniteSet(w)
      BY <2>1, <2>4, FirstIn, FS_Subset
    <3>2. IsPartialSum(f, v, It(v))
      BY <3>1, <1>3
    <3>3. \A s \in SUBSET w : s \in SUBSET v => It(w)[s] = It(v)[s]
      <4> HIDE DEF It, w, v
      <4> QED
        BY <2>2, <3>1, <3>2, PartialSumsAgree
    <3> QED
      BY <3>1, <3>3
  <2>5. g[w] = IF w = {} THEN 0
               ELSE f[First(w)] + It(w \ {First(w)})[w \ {First(w)}]
    BY <2>1
  <2> QED
    BY <2>3, <2>4, <2>5
<1>5. ASSUME NEW t \in SUBSET u
      PROVE  g[t] = IF t = {} THEN 0 ELSE f[First(t)] + g[t \ {First(t)}]
  <2>1. CASE t = {}
    BY <2>1
  <2>2. CASE t # {}
    <3>1. g[t] = f[First(t)] + It(t \ {First(t)})[t \ {First(t)}]
      BY <2>2
    <3>2. g[t \ {First(t)}] = It(t \ {First(t)})[t \ {First(t)}]
      BY <1>4, <2>2
    <3> HIDE DEF g, It
    <3> QED
      BY <2>2, <3>1, <3>2
  <2> QED
    BY <2>1, <2>2
<1>6. IsPartialSum(f, u, g)
  <2>1. g = [t \in SUBSET u |-> g[t]]
    OBVIOUS
  <2> HIDE DEF g
  <2> QED
    BY <1>5, <2>1 DEF IsPartialSum
<1> QED
  BY <1>2, <1>6

\* SumFunction is the partial sum of its whole domain.
LEMMA SumIsPartialSum ==
  ASSUME NEW f, IsFiniteSet(DOMAIN f)
  PROVE  \E it : IsPartialSum(f, DOMAIN f, it) /\ SumFunction(f) = it[DOMAIN f]
<1> DEFINE it == CHOOSE i : IsPartialSum(f, DOMAIN f, i)
<1>1. IsPartialSum(f, DOMAIN f, it)
  BY PartialSumExists
<1>2. SumFunction(f) = it[DOMAIN f]
  BY DEF SumFunction, SumFunctionOnSet, FoldFunctionOnSet, MapThenFoldSet,
         IsPartialSum, First
<1> QED
  BY <1>1, <1>2

\* A sum of naturals is a natural.
LEMMA SumType ==
  ASSUME NEW D, IsFiniteSet(D), NEW f \in [D -> Nat]
  PROVE  SumFunction(f) \in Nat
<1>1. PICK it : IsPartialSum(f, D, it) /\ SumFunction(f) = it[D]
  BY SumIsPartialSum
<1> DEFINE B == {s \in SUBSET D : it[s] \notin Nat}
<1>2. SUFFICES ASSUME B # {} PROVE FALSE
  BY <1>1
<1>x. B \in SUBSET (SUBSET D)
  OBVIOUS
<1>3. PICK u \in B : \A v \in B : v \subseteq u => v = u
  <2> HIDE DEF B
  <2> QED
    BY <1>2, <1>x, SmallestSubset
<1>4. it[u] = IF u = {} THEN 0 ELSE f[First(u)] + it[u \ {First(u)}]
  BY <1>1, PartialSumAt
<1>5. u # {} => f[First(u)] \in Nat /\ it[u \ {First(u)}] \in Nat
  BY <1>3, FirstIn
<1> QED
  BY <1>4, <1>5

\* A sum of zeros is zero.
LEMMA SumZero ==
  ASSUME NEW D, IsFiniteSet(D), NEW f, f = [d \in D |-> 0]
  PROVE  SumFunction(f) = 0
<1>1. PICK it : IsPartialSum(f, D, it) /\ SumFunction(f) = it[D]
  BY SumIsPartialSum
<1> DEFINE B == {s \in SUBSET D : it[s] # 0}
<1>2. SUFFICES ASSUME B # {} PROVE FALSE
  BY <1>1
<1>3. B \in SUBSET (SUBSET D)
  OBVIOUS
<1>4. PICK u \in B : \A v \in B : v \subseteq u => v = u
  <2> HIDE DEF B
  <2> QED
    BY <1>2, <1>3, SmallestSubset
<1>5. it[u] = IF u = {} THEN 0 ELSE f[First(u)] + it[u \ {First(u)}]
  BY <1>1, PartialSumAt
<1>6. u # {} => f[First(u)] = 0 /\ it[u \ {First(u)}] = 0
  BY <1>4, FirstIn
<1> QED
  BY <1>5, <1>6

\* e and f are the same but for their value at c.
SameBut(e, f, D, c) == \A d \in D : d # c => e[d] = f[d]

\* Changing one value moves the sum by the difference.
LEMMA SumUpdate ==
  ASSUME NEW D, IsFiniteSet(D), NEW f \in [D -> Nat], NEW e \in [D -> Nat],
         NEW c \in D, SameBut(e, f, D, c)
  PROVE  SumFunction(e) + f[c] = SumFunction(f) + e[c]
<1>1. PICK g : IsPartialSum(f, D, g) /\ SumFunction(f) = g[D]
  BY SumIsPartialSum
<1>2. PICK h : IsPartialSum(e, D, h) /\ SumFunction(e) = h[D]
  BY SumIsPartialSum
<1> DEFINE Right(s) == /\ g[s] \in Nat
                       /\ h[s] \in Nat
                       /\ c \notin s => h[s] = g[s]
                       /\ c \in s => h[s] + f[c] = g[s] + e[c]
           B == {s \in SUBSET D : ~Right(s)}
<1>3. SUFFICES ASSUME B # {} PROVE FALSE
  BY <1>1, <1>2
<1>x. B \in SUBSET (SUBSET D)
  OBVIOUS
<1>4. PICK u \in B : \A v \in B : v \subseteq u => v = u
  <2> HIDE DEF B
  <2> QED
    BY <1>3, <1>x, SmallestSubset
<1>y. u \in SUBSET D
  OBVIOUS
<1>5. g[u] = IF u = {} THEN 0 ELSE f[First(u)] + g[u \ {First(u)}]
  <2> HIDE DEF B
  <2> QED
    BY <1>1, <1>y, PartialSumAt
<1>6. h[u] = IF u = {} THEN 0 ELSE e[First(u)] + h[u \ {First(u)}]
  <2> HIDE DEF B
  <2> QED
    BY <1>2, <1>y, PartialSumAt
<1>7. CASE u = {}
  BY <1>5, <1>6, <1>7
<1>8. CASE u # {}
  <2> DEFINE x == First(u)
             w == u \ {x}
  <2>1. x \in u /\ x \in D /\ w \in SUBSET D /\ Right(w)
    BY <1>4, <1>8, FirstIn
  <2>2. f[x] \in Nat /\ e[x] \in Nat /\ f[c] \in Nat /\ e[c] \in Nat
    BY <2>1
  <2>3. CASE x = c
    <3>1. c \notin w /\ c \in u
      BY <2>1, <2>3
    <3>2. h[u] = e[c] + h[w] /\ g[u] = f[c] + g[w] /\ h[w] = g[w]
      BY <1>5, <1>6, <1>8, <2>1, <2>3, <3>1
    <3> QED
      BY <2>1, <2>2, <3>1, <3>2
  <2>4. CASE x # c
    <3>1. (c \in w <=> c \in u) /\ e[x] = f[x]
      BY <2>1, <2>4 DEF SameBut
    <3>2. h[u] = f[x] + h[w] /\ g[u] = f[x] + g[w]
      BY <1>5, <1>6, <1>8, <3>1
    <3> QED
      BY <2>1, <2>2, <3>1, <3>2
  <2> QED
    BY <2>3, <2>4
<1> QED
  BY <1>7, <1>8

-----------------------------------------------------------------------------
(***************************************************************************)
(* The refinement of CeilingContract.                                      *)
(***************************************************************************)
Admitted == {c \in Calls : pc[c] \in Holding}

\* The two modules' sums are one operator.
LEMMA SameSum == \A f : SumFunction(f) = Contract!SumFunction(f)
  BY DEF SumFunction, SumFunctionOnSet, FoldFunctionOnSet, MapThenFoldSet,
     Contract!SumFunction, Contract!SumFunctionOnSet,
     Contract!FoldFunctionOnSet, Contract!MapThenFoldSet

\* The ledger's table, summed, is what the contract says is reserved: they
\* are the same function, so nothing need be known of the sum itself.
LEMMA ReservedIsCommitted ==
  IInv => spend_reserved = Contract!Committed(Admitted)
<1> SUFFICES ASSUME IInv PROVE spend_reserved = Contract!Committed(Admitted)
  OBVIOUS
<1>1. claims = [c \in Calls |->
                  IF c \in Admitted THEN Contract!Reservation(c) ELSE 0]
  BY DEF IInv, CallsTypeOK, LedgerTypeOK, ClaimsFollowCalls, Claim, Admitted,
         Contract!Reservation
<1>2. spend_reserved = Contract!SumFunction(claims)
  BY SameSum DEF spend_reserved
<1> QED
  BY <1>1, <1>2, Zenon DEF Contract!Committed

LEMMA AdmitImplements ==
  ASSUME IInv, NEW c \in Calls, pc[c] \notin Holding, spend_admits(Worst[c]),
         Admitted' = Admitted \cup {c}, UNCHANGED <<accumulated, beyond>>
  PROVE  Contract!Next
<1>1. c \notin Admitted
  BY DEF Admitted
<1>2. Contract!Room(c)
  BY ReservedIsCommitted DEF spend_admits, Contract!Room, Admitted
<1>3. Contract!Admit(c)
  BY <1>1, <1>2 DEF Contract!Admit, Admitted
<1> QED
  BY <1>3 DEF Contract!Next

LEMMA LeaveImplements ==
  ASSUME IInv, NEW c \in Calls, NEW outcome \in Ended, Leave(c, outcome)
  PROVE  [Contract!Next]_(Contract!vars)
<1> DEFINE p == [pc EXCEPT ![c] = outcome]
<1>1. /\ p \in [Calls -> Stages]
      /\ claims[c] \in Nat
      /\ p[c] \notin Holding
      /\ \A d \in Calls \ {c} : p[d] = pc[d]
  BY DEF IInv, CallsTypeOK, LedgerTypeOK, Stages, Ended, Holding
<1>2. pc' = Freed(p, claims[c]) /\ UNCHANGED <<accumulated, beyond>>
  BY DEF Leave, release_spend
<1>3. \A d \in Calls : pc'[d] \in Holding <=> p[d] \in Holding
  BY <1>1, <1>2, FreedKeepsHolders
<1>4. Admitted' = Admitted \ {c}
  BY <1>1, <1>3 DEF Admitted
<1>5. CASE c \in Admitted
  <2>1. Contract!Withdraw(c)
    BY <1>2, <1>4, <1>5 DEF Contract!Withdraw, Admitted
  <2> QED
    BY <2>1 DEF Contract!Next
<1>6. CASE c \notin Admitted
  BY <1>2, <1>4, <1>6 DEF Contract!vars, Admitted
<1> QED
  BY <1>5, <1>6

LEMMA InSlotImplements ==
  ASSUME IInv, NEW c \in Calls, NEW s, pc[c] \in Holding, InSlot(c, s)
  PROVE  [Contract!Next]_(Contract!vars)
<1>1. CASE Leave(c, "refused")
  BY <1>1, LeaveImplements DEF Ended
<1>2. CASE Leave(c, "skipped")
  BY <1>2, LeaveImplements DEF Ended
<1>3. CASE pc' = [pc EXCEPT ![c] = "wire"] /\ UNCHANGED <<ledgerVars, stop>>
  BY <1>3 DEF IInv, CallsTypeOK, Contract!vars, ledgerVars, Holding
<1> QED
  BY <1>1, <1>2, <1>3 DEF InSlot

\* A step that moves calls between stages on one side of the ledger.
LEMMA StayImplements ==
  ASSUME UNCHANGED ledgerVars,
         \A c \in Calls : pc'[c] \in Holding <=> pc[c] \in Holding
  PROVE  UNCHANGED Contract!vars
  BY DEF ledgerVars, Contract!vars

LEMMA StepImplements == IInv /\ [Next]_vars => [Contract!Next]_(Contract!vars)
<1> SUFFICES ASSUME IInv, [Next]_vars PROVE [Contract!Next]_(Contract!vars)
  OBVIOUS
<1>1. ASSUME NEW r \in Requests, Door(r) PROVE UNCHANGED Contract!vars
  BY <1>1, StayImplements
     DEF Door, At, IInv, CallsTypeOK, Holding
<1>2. ASSUME NEW c \in Calls, Dispatch(c) PROVE UNCHANGED Contract!vars
  BY <1>2, StayImplements DEF Dispatch, IInv, CallsTypeOK, Holding
<1>3. ASSUME NEW c \in Calls, Refuse(c) \/ Wait(c) \/ Skip(c)
      PROVE  UNCHANGED Contract!vars
  BY <1>3, ClaimsFromNothing, StayImplements
     DEF Refuse, Wait, Skip, IInv, CallsTypeOK, Holding
<1>4. ASSUME NEW c \in Calls, AdmitToQueue(c) PROVE Contract!Next
  <2>1. Admitted' = Admitted \cup {c}
    BY <1>4 DEF AdmitToQueue, Admitted, IInv, CallsTypeOK, Holding
  <2> QED
    BY <1>4, <2>1, ClaimsFromNothing, AdmitImplements
       DEF AdmitToQueue, reserve_spend
<1>5. ASSUME NEW c \in Calls, AdmitToWire(c) PROVE Contract!Next
  <2>1. Admitted' = Admitted \cup {c}
    BY <1>5 DEF AdmitToWire, Admitted, IInv, CallsTypeOK, Holding
  <2> QED
    BY <1>5, <2>1, ClaimsFromNothing, AdmitImplements
       DEF AdmitToWire, reserve_spend
<1>6. ASSUME NEW c \in Calls, AdmitThenSkip(c) PROVE UNCHANGED Contract!vars
  <2> DEFINE p == [pc EXCEPT ![c] = "skipped"]
  <2>1. /\ p \in [Calls -> Stages]
        /\ \A d \in Calls : p[d] \in Holding <=> pc[d] \in Holding
    BY <1>6, ClaimsFromNothing
       DEF AdmitThenSkip, IInv, CallsTypeOK, Stages, Ended, Holding
  <2>2. pc' = Freed(p, Claim(c)) /\ UNCHANGED ledgerVars
    BY <1>6 DEF AdmitThenSkip
  <2>3. \A d \in Calls : pc'[d] \in Holding <=> p[d] \in Holding
    BY <2>1, <2>2, ClaimType, FreedKeepsHolders
  <2> QED
    BY <2>1, <2>2, <2>3, StayImplements
<1>7. ASSUME NEW c \in Calls, AfterFrame(c) PROVE [Contract!Next]_(Contract!vars)
  <2>1. CASE pc' = [pc EXCEPT ![c] = "queued"] /\ UNCHANGED <<ledgerVars, stop>>
    BY <1>7, <2>1, StayImplements DEF AfterFrame, IInv, CallsTypeOK, Holding
  <2>2. CASE InSlot(c, Taken(slots))
    BY <1>7, <2>2, InSlotImplements DEF AfterFrame, Holding
  <2> QED
    BY <1>7, <2>1, <2>2 DEF AfterFrame
<1>8. ASSUME NEW c \in Calls, TakeSlot(c) PROVE [Contract!Next]_(Contract!vars)
  BY <1>8, InSlotImplements DEF TakeSlot, Holding
<1>9. ASSUME NEW c \in Calls, NEW cost \in Costs, Settle(c, cost)
      PROVE  Contract!Next
  <2> DEFINE p == [pc EXCEPT ![c] = "counted"]
  <2>1. /\ p \in [Calls -> Stages]
        /\ claims[c] \in Nat
        /\ p[c] \notin Holding
        /\ \A d \in Calls \ {c} : p[d] = pc[d]
    BY DEF IInv, CallsTypeOK, LedgerTypeOK, Stages, Ended, Holding
  <2>2. /\ pc' = Freed(p, claims[c])
        /\ accumulated' = accumulated + cost
        /\ beyond' = beyond + Excess(cost, claims[c])
    BY <1>9 DEF Settle, settle_spend
  <2>3. \A d \in Calls : pc'[d] \in Holding <=> p[d] \in Holding
    BY <2>1, <2>2, FreedKeepsHolders
  <2>4. c \in Admitted /\ Admitted' = Admitted \ {c}
    BY <1>9, <2>1, <2>3 DEF Settle, Admitted, Holding
  <2>5. claims[c] = Contract!Reservation(c)
    BY <1>9 DEF Settle, IInv, ClaimsFollowCalls, Claim, Holding,
                Contract!Reservation
  <2>6. Contract!Count(c, cost)
    BY <2>2, <2>4, <2>5 DEF Contract!Count, Excess, Admitted
  <2> QED
    BY <2>6 DEF Contract!Next
<1>10. ASSUME NEW c \in Calls, Disconnect(c) \/ Cut(c)
       PROVE  [Contract!Next]_(Contract!vars)
  BY <1>10, LeaveImplements DEF Disconnect, Cut, Cancel, Ended
<1>11. ASSUME NEW kind \in Runners, Stop(kind) PROVE UNCHANGED Contract!vars
  BY <1>11, StayImplements DEF Stop, IInv, CallsTypeOK, Holding
<1>12. CASE UNCHANGED vars
  BY <1>12 DEF vars, Contract!vars
<1> QED
  BY <1>1, <1>2, <1>3, <1>4, <1>5, <1>6, <1>7, <1>8, <1>9, <1>10, <1>11,
     <1>12 DEF Next, Step, Quiet

\* The callers, the ledger and the semaphore implement the contract of the
\* ceiling: every admission had room for its worst case beside every other,
\* and every settlement counted a call the ceiling had admitted, once.
THEOREM ContractKept == Spec => KeepsTheContract
<1>1. Init => Contract!Init
  BY DEF Init, LedgerInit, Contract!Init, Holding
<1> QED
  BY <1>1, InitIInv, StepIInv, StepImplements, PTL
     DEF Spec, KeepsTheContract, Contract!Spec

-----------------------------------------------------------------------------
(***************************************************************************)
(* The contract's promise, of whatever implements the contract: nothing    *)
(* below knows a call's stage, the ledger's table or the semaphore.        *)
(***************************************************************************)
\* The reservations of the calls in S, as a function on all calls.
Held(S) == [c \in Calls |-> IF c \in S THEN Contract!Reservation(c) ELSE 0]

LEMMA ReservationType ==
  \A c \in Calls : Contract!Reservation(c) \in Nat /\ Worst[c] \in Nat
  BY CeilingAssumption DEF Contract!Reservation

LEMMA CommittedIsSum ==
  ASSUME NEW S
  PROVE  /\ Held(S) \in [Calls -> Nat]
         /\ Contract!Committed(S) = SumFunction(Held(S))
         /\ Contract!Committed(S) \in Nat
<1>1. Held(S) \in [Calls -> Nat]
  BY ReservationType DEF Held
<1>2. Contract!Committed(S) = SumFunction(Held(S))
  BY SameSum, Zenon DEF Contract!Committed, Held
<1>3. SumFunction(Held(S)) \in Nat
  BY <1>1, SumType, CeilingAssumption
<1> QED BY <1>1, <1>2, <1>3

LEMMA CommittedAdd ==
  ASSUME NEW S, NEW c \in Calls, c \notin S
  PROVE  Contract!Committed(S \cup {c}) = Contract!Committed(S) + Contract!Reservation(c)
<1>1. SameBut(Held(S \cup {c}), Held(S), Calls, c)
  BY DEF Held, SameBut
<1>2. Held(S)[c] = 0 /\ Held(S \cup {c})[c] = Contract!Reservation(c)
  BY DEF Held
<1>3. Held(S) \in [Calls -> Nat] /\ Held(S \cup {c}) \in [Calls -> Nat]
  BY CommittedIsSum
<1>4. SumFunction(Held(S \cup {c})) + Held(S)[c]
        = SumFunction(Held(S)) + Held(S \cup {c})[c]
  <2> DEFINE e == Held(S \cup {c})
             f == Held(S)
  <2>1. SameBut(e, f, Calls, c) /\ e \in [Calls -> Nat] /\ f \in [Calls -> Nat]
    BY <1>1, <1>3
  <2> HIDE DEF e, f
  <2>2. SumFunction(e) + f[c] = SumFunction(f) + e[c]
    BY <2>1, SumUpdate, CeilingAssumption
  <2> QED BY <2>2 DEF e, f
<1> QED
  BY <1>2, <1>4, CommittedIsSum, ReservationType

LEMMA CommittedRemove ==
  ASSUME NEW S, NEW c \in Calls, c \in S
  PROVE  Contract!Committed(S \ {c}) + Contract!Reservation(c) = Contract!Committed(S)
<1>1. (S \ {c}) \cup {c} = S
  OBVIOUS
<1>2. Contract!Committed((S \ {c}) \cup {c})
        = Contract!Committed(S \ {c}) + Contract!Reservation(c)
  BY CommittedAdd
<1> QED
  BY <1>1, <1>2

\* The promise, of what is recorded, what was beyond, and who is admitted.
Promised(recorded, excess, S) ==
  Limit # NoLimit => recorded + Contract!Committed(S) <= Limit + excess

PromiseInv ==
  /\ accumulated \in Nat /\ beyond \in Nat
  /\ Promised(accumulated, beyond, Admitted)

LEMMA InitPromise == Contract!Init => PromiseInv
<1> SUFFICES ASSUME Contract!Init PROVE PromiseInv
  OBVIOUS
<1>1. accumulated = 0 /\ beyond = 0 /\ Admitted = {}
  BY DEF Contract!Init, Admitted
<1>2. Held({}) = [c \in Calls |-> 0]
  BY DEF Held
<1>3. Contract!Committed({}) = 0
  BY <1>2, SumZero, CommittedIsSum, CeilingAssumption
<1> QED
  BY <1>1, <1>3, CeilingAssumption DEF PromiseInv, Promised

LEMMA StepPromise == PromiseInv /\ [Contract!Next]_(Contract!vars) => PromiseInv'
<1> SUFFICES ASSUME PromiseInv, [Contract!Next]_(Contract!vars) PROVE PromiseInv'
  OBVIOUS
<1>1. /\ accumulated \in Nat /\ beyond \in Nat
      /\ Limit # NoLimit => Limit \in Nat
      /\ Contract!Committed(Admitted) \in Nat /\ Contract!Committed(Admitted') \in Nat
      /\ Limit # NoLimit =>
           accumulated + Contract!Committed(Admitted) <= Limit + beyond
  BY CommittedIsSum, CeilingAssumption DEF PromiseInv, Promised
<1>a. PromiseInv' <=> /\ accumulated' \in Nat /\ beyond' \in Nat
                      /\ Promised(accumulated', beyond', Admitted')
  BY DEF PromiseInv, Promised
<1>2. ASSUME NEW c \in Calls, Contract!Admit(c) PROVE PromiseInv'
  <2>1. /\ c \notin Admitted /\ Admitted' = Admitted \cup {c}
        /\ UNCHANGED <<accumulated, beyond>>
    BY <1>2 DEF Contract!Admit, Admitted
  <2>2. Limit # NoLimit => accumulated + Contract!Committed(Admitted) + Worst[c] <= Limit
    BY <1>2 DEF Contract!Admit, Contract!Room, Admitted
  <2>3. Contract!Committed(Admitted') = Contract!Committed(Admitted) + Contract!Reservation(c)
    BY <2>1, CommittedAdd
  <2>4. Limit # NoLimit => Contract!Reservation(c) = Worst[c]
    BY DEF Contract!Reservation
  <2>5. Worst[c] \in Nat
    BY ReservationType
  <2> QED
    BY <1>1, <1>a, <2>1, <2>2, <2>3, <2>4, <2>5 DEF Promised
<1>3. ASSUME NEW c \in Calls, c \in Admitted, Admitted' = Admitted \ {c}
      PROVE  Contract!Committed(Admitted') + Contract!Reservation(c)
               = Contract!Committed(Admitted)
  BY <1>3, CommittedRemove
<1>4. ASSUME NEW c \in Calls, Contract!Withdraw(c) PROVE PromiseInv'
  <2>1. /\ c \in Admitted /\ Admitted' = Admitted \ {c}
        /\ UNCHANGED <<accumulated, beyond>>
    BY <1>4 DEF Contract!Withdraw, Admitted
  <2>2. Contract!Committed(Admitted') + Contract!Reservation(c) = Contract!Committed(Admitted)
    BY <1>3, <2>1
  <2>3. Contract!Reservation(c) \in Nat
    BY ReservationType
  <2>4. Promised(accumulated', beyond', Admitted')
    BY <1>1, <2>1, <2>2, <2>3 DEF Promised
  <2> QED
    BY <1>1, <1>a, <2>1, <2>4
<1>5. ASSUME NEW c \in Calls, NEW cost \in Costs, Contract!Count(c, cost) PROVE PromiseInv'
  <2>1. c \in Admitted /\ Admitted' = Admitted \ {c}
    BY <1>5 DEF Contract!Count, Admitted
  <2>2. cost \in Nat /\ Contract!Reservation(c) \in Nat
    BY CeilingAssumption, ReservationType
  <2>3. /\ accumulated' = accumulated + cost
        /\ beyond' = beyond + (IF cost > Contract!Reservation(c)
                               THEN cost - Contract!Reservation(c) ELSE 0)
    BY <1>5 DEF Contract!Count
  <2>4. beyond' \in Nat /\ beyond' + Contract!Reservation(c) >= beyond + cost
        /\ beyond' >= beyond
    BY <1>1, <2>2, <2>3
  <2>5. Contract!Committed(Admitted') + Contract!Reservation(c) = Contract!Committed(Admitted)
    BY <1>3, <2>1
  <2>6. Promised(accumulated', beyond', Admitted')
    <3> SUFFICES ASSUME Limit # NoLimit
                 PROVE  accumulated' + Contract!Committed(Admitted') <= Limit + beyond'
      BY DEF Promised
    <3>1. accumulated + Contract!Committed(Admitted) <= Limit + beyond
      BY <1>1
    <3> QED BY <1>1, <2>2, <2>3, <2>4, <2>5, <3>1
  <2> QED
    BY <1>1, <1>a, <2>2, <2>3, <2>4, <2>6
<1>6. CASE UNCHANGED Contract!vars
  <2>1. Admitted' = Admitted /\ UNCHANGED <<accumulated, beyond>>
    BY <1>6 DEF Contract!vars, Admitted
  <2> QED BY <1>a, <2>1 DEF PromiseInv
<1> QED
  BY <1>2, <1>4, <1>5, <1>6 DEF Contract!Next

\* Recorded spend and everything still reserved stay within the limit, up to
\* what settled calls counted beyond their own reservations, whatever keeps
\* the contract (README, the spend ceiling).
THEOREM PromiseKept == Contract!Spec => []Contract!Promise
<1>1. PromiseInv => Contract!Promise
  BY DEF PromiseInv, Promised, Contract!Promise, Admitted
<1> QED
  BY <1>1, InitPromise, StepPromise, PTL DEF Contract!Spec

\* "Recorded spend passes the limit only by what calls counted beyond what
\* they reserved" (README), and the live claims never add to that: it is what
\* the contract promises, of whatever implements it.
THEOREM LedgerBoundHolds == Spec => []LedgerBound
<1>1. IInv /\ Contract!Promise => LedgerBound
  BY ReservedIsCommitted DEF Contract!Promise, LedgerBound, Admitted
<1>2. Spec => []IInv
  BY InitIInv, StepIInv, PTL DEF Spec
<1>3. Spec => []Contract!Promise
  BY ContractKept, PromiseKept DEF KeepsTheContract
<1> QED
  BY <1>1, <1>2, <1>3, PTL

-----------------------------------------------------------------------------
(***************************************************************************)
(* Who sleeps has a claim to wait for.                                     *)
(***************************************************************************)
SomeClaim == \E d \in Calls : claims[d] > 0

\* What is reserved is somebody's claim.
LEMMA ReservedIsSomeonesClaim ==
  ASSUME IInv, spend_reserved # 0
  PROVE  SomeClaim
<1> SUFFICES ASSUME ~SomeClaim PROVE FALSE
  OBVIOUS
<1>1. claims \in [Calls -> Nat]
  BY DEF IInv, CallsTypeOK, LedgerTypeOK
<1>2. claims = [d \in Calls |-> 0]
  BY <1>1 DEF SomeClaim
<1>3. SumFunction(claims) = 0
  BY <1>2, SumZero, CeilingAssumption
<1> QED
  BY <1>3 DEF spend_reserved

\* A call that would wait finds room without the others' claims, so there are
\* some.
LEMMA WouldWaitForSomeone ==
  ASSUME IInv, NEW c \in Calls, WouldWait(c), ~spend_admits(Worst[c])
  PROVE  SomeClaim
<1>1. /\ accumulated \in Nat /\ Worst[c] \in Nat /\ Limit \in Nat
      /\ accumulated < Limit /\ accumulated + Worst[c] <= Limit
      /\ ~(accumulated + spend_reserved + Worst[c] <= Limit)
  BY CeilingAssumption DEF IInv, CallsTypeOK, LedgerTypeOK, WouldWait,
     spend_room_held_by_others, spend_admits
<1>2. spend_reserved # 0
  BY <1>1
<1> QED
  BY <1>2, ReservedIsSomeonesClaim

\* A claim that leaves wakes everyone; one that was nothing leaves the others.
LEMMA WakeOnLeave ==
  ASSUME IInv, SleepersHaveAWaker, NEW c \in Calls, NEW stage \in Stages \ {"wait"},
         pc' = Freed([pc EXCEPT ![c] = stage], claims[c]),
         claims' = [claims EXCEPT ![c] = 0], UNCHANGED stop
  PROVE  SleepersHaveAWaker'
<1>1. pc \in [Calls -> Stages] /\ claims \in [Calls -> Nat]
  BY DEF IInv, CallsTypeOK, LedgerTypeOK
<1>2. CASE claims[c] = 0
  <2>1. claims' = claims /\ pc' = [pc EXCEPT ![c] = stage]
    BY <1>1, <1>2 DEF Freed
  <2> QED BY <1>1, <2>1 DEF SleepersHaveAWaker, At, Stopped
<1>3. CASE claims[c] # 0
  <2>1. \A d \in Calls : pc'[d] # "wait"
    BY <1>1, <1>3 DEF Freed
  <2> QED BY <2>1 DEF SleepersHaveAWaker, At
<1> QED BY <1>2, <1>3

\* So does a step that puts nobody to sleep, and takes no claim and no stop.
LEMMA NobodySleeps ==
  ASSUME IInv, SleepersHaveAWaker,
         \A d \in Calls : pc'[d] = "wait" => pc[d] = "wait",
         \A d \in Calls : claims[d] > 0 => claims'[d] > 0, UNCHANGED stop
  PROVE  SleepersHaveAWaker'
  BY DEF SleepersHaveAWaker, At, Stopped

LEMMA LeaveWakes ==
  ASSUME IInv, SleepersHaveAWaker, NEW c \in Calls, NEW outcome \in Ended, Leave(c, outcome)
  PROVE  SleepersHaveAWaker'
  BY WakeOnLeave DEF Leave, release_spend, Ended, Stages

LEMMA StepWakes ==
  ASSUME IInv, SleepersHaveAWaker, [Next]_vars
  PROVE  SleepersHaveAWaker'
<1>1. pc \in [Calls -> Stages] /\ claims \in [Calls -> Nat]
  BY DEF IInv, CallsTypeOK, LedgerTypeOK
<1>2. ASSUME NEW r \in Requests, Door(r) PROVE SleepersHaveAWaker'
  BY <1>1, <1>2, NobodySleeps DEF Door, ledgerVars
<1>3. ASSUME NEW c \in Calls, Dispatch(c) \/ Refuse(c) \/ Skip(c) PROVE SleepersHaveAWaker'
  BY <1>1, <1>3, NobodySleeps DEF Dispatch, Refuse, Skip, ledgerVars
<1>4. ASSUME NEW c \in Calls, Wait(c) PROVE SleepersHaveAWaker'
  <2>1. SomeClaim /\ ~Stopped(c) /\ pc' = [pc EXCEPT ![c] = "wait"]
        /\ UNCHANGED <<claims, stop>>
    BY <1>4, WouldWaitForSomeone DEF Wait, ledgerVars
  <2> QED BY <1>1, <2>1 DEF SleepersHaveAWaker, SomeClaim, At, Stopped
<1>5. ASSUME NEW c \in Calls, AdmitToQueue(c) \/ AdmitToWire(c) PROVE SleepersHaveAWaker'
  <2>1. claims[c] = 0
    BY <1>5, ClaimsFromNothing DEF AdmitToQueue, AdmitToWire, IInv, ClaimsFollowCalls
  <2> QED BY <1>1, <1>5, <2>1, NobodySleeps DEF AdmitToQueue, AdmitToWire, reserve_spend
<1>6. ASSUME NEW c \in Calls, AdmitThenSkip(c) PROVE SleepersHaveAWaker'
  BY <1>1, <1>6, NobodySleeps DEF AdmitThenSkip, Freed, ledgerVars
<1>7. ASSUME NEW c \in Calls, NEW s, InSlot(c, s) PROVE SleepersHaveAWaker'
  BY <1>1, <1>7, LeaveWakes, NobodySleeps DEF InSlot, Ended, ledgerVars
<1>8. ASSUME NEW c \in Calls, AfterFrame(c) \/ TakeSlot(c) PROVE SleepersHaveAWaker'
  BY <1>1, <1>7, <1>8, NobodySleeps DEF AfterFrame, TakeSlot, ledgerVars
<1>9. ASSUME NEW c \in Calls, NEW cost \in Costs, Settle(c, cost) PROVE SleepersHaveAWaker'
  BY <1>9, WakeOnLeave DEF Settle, settle_spend, Ended, Stages
<1>10. ASSUME NEW c \in Calls, Disconnect(c) \/ Cut(c) PROVE SleepersHaveAWaker'
  BY <1>10, LeaveWakes DEF Disconnect, Cut, Cancel, Ended
<1>11. ASSUME NEW kind \in Runners, Stop(kind) PROVE SleepersHaveAWaker'
  <2>1. stop \in [Runners -> BOOLEAN]
    BY DEF IInv, CallsTypeOK
  <2> QED BY <1>1, <1>11, <2>1 DEF Stop, SleepersHaveAWaker, At, Stopped, ledgerVars
<1>12. CASE UNCHANGED vars
  BY <1>12 DEF vars, SleepersHaveAWaker, At, Stopped
<1> QED
  BY <1>2, <1>3, <1>4, <1>5, <1>6, <1>8, <1>9, <1>10, <1>11, <1>12 DEF Next, Step, Quiet

\* Whoever sleeps for room has a claim to wait for and a stop still unset, so
\* a wakeup is yet to come and none was missed.
THEOREM NoSleeperForgotten == Spec => []SleepersHaveAWaker
<1>1. Init => SleepersHaveAWaker
  BY DEF Init, SleepersHaveAWaker, At
<1> QED BY <1>1, InitIInv, StepIInv, StepWakes, PTL DEF Spec
=============================================================================
