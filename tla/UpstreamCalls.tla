--------------------------- MODULE UpstreamCalls ---------------------------
(***************************************************************************)
(* Every paid call of the bench, from its door to its settlement: the      *)
(* members of a /compare batch, a /compare/stream, the runner's trials and *)
(* a scoring pass's judge calls, sharing one spend ledger and one          *)
(* semaphore on one event loop.  A step of this module is what the loop    *)
(* runs between two awaits, so each action does everything its coroutine   *)
(* does before it next suspends.                                           *)
(*                                                                         *)
(* The four kinds differ in what a refusal for room does (a batch member   *)
(* and a stream are refused, a trial and a judge call wait), in what can   *)
(* cancel them (a stream's reader, shutdown's cut of a judge call), and in *)
(* what they check again in their slot (the ceiling; a judge call also     *)
(* its pass's stop).                                                       *)
(***************************************************************************)
EXTENDS SpendLedger, UpstreamSlots

CONSTANTS Kind,      \* [Calls -> {"batch", "stream", "trial", "judge"}]
          Requests,  \* the HTTP requests: sets of batch members, or one stream
          Slots      \* MAX_CONCURRENT_UPSTREAM

Runners == {"trial", "judge"}

ASSUME CallsAssumption ==
  /\ Kind \in [Calls -> {"batch", "stream"} \cup Runners]
  /\ Requests \subseteq SUBSET {c \in Calls : Kind[c] \notin Runners}
  /\ Slots \in Nat \ {0}

VARIABLES pc,     \* where each call's coroutine is suspended
          slots,  \* upstream_semaphore
          stop    \* experiment_run["stop"] and scoring_run["stop"]

vars == <<accumulated, claims, beyond, pc, slots, stop>>

Ended   == {"counted",   \* settled: the exchange ended and its cost counted
            "aborted",   \* cut off with its request on the wire
            "refused",   \* at the door, at its claim, or in its slot
            "skipped",   \* its runner's stop came before it was sent
            "gone"}      \* cancelled before its request went out
Holding == {"frame",     \* a stream suspended at its queued frame
            "queued",    \* waiting for a slot, or granted one not yet taken
            "wire"}      \* the request is out, in a slot
Waiting == {"wait",      \* asleep in wait_for_spend_room
            "woken"}     \* a claim left or the stop was set; not yet run
Stages  == Ended \cup Holding \cup Waiting \cup {"idle", "ready"}

\* Everything but the semaphore, whose type the proofs do not need.
CallsTypeOK ==
  /\ LedgerTypeOK
  /\ pc \in [Calls -> Stages]
  /\ stop \in [Runners -> BOOLEAN]

TypeOK ==
  /\ CallsTypeOK
  /\ slots.free \in Nat
  /\ slots.queue \in Seq(Calls)
  /\ slots.granted \subseteq ToSet(slots.queue)

Init ==
  /\ LedgerInit
  /\ pc = [c \in Calls |-> "idle"]
  /\ slots = NewSlots(Slots)
  /\ stop = [k \in Runners |-> FALSE]

At(stage) == {c \in Calls : pc[c] = stage}

\* A runner makes one call at a time.
Free(kind) == \A c \in Calls : Kind[c] = kind => pc[c] \in Ended \cup {"idle"}

Stopped(c) == Kind[c] \in Runners /\ stop[Kind[c]]

\* Variant: a release that tells nobody.
FreedSilently(stages, claim) == stages

\* release_spend wakes every sleeper, but only when the key held a claim.
Freed(stages, claim) ==
  IF claim = 0 THEN stages
  ELSE [c \in Calls |-> IF stages[c] = "wait" THEN "woken" ELSE stages[c]]

\* The call ends without a cost: its claim goes back uncounted.
Leave(c, outcome) ==
  /\ release_spend(c)
  /\ pc' = Freed([pc EXCEPT ![c] = outcome], claims[c])
  /\ UNCHANGED stop

-----------------------------------------------------------------------------
(***************************************************************************)
(* The doors.                                                              *)
(***************************************************************************)

\* enforce_spend_limit and enforce_spend_room: a 402 when the ceiling is
\* reached or none of the request's calls would be admitted.
Door(r) ==
  LET refused == \/ spend_ceiling_reached
                 \/ \A c \in r : ~spend_admits(Worst[c])
  IN  /\ r \subseteq At("idle")
      /\ pc' = [c \in Calls |-> IF c \in r
                                THEN IF refused THEN "refused" ELSE "ready"
                                ELSE pc[c]]
      /\ UNCHANGED <<ledgerVars, slots, stop>>

\* run_experiment, after its stop check, starts the shielded trial's task.
Dispatch(c) ==
  /\ Kind[c] = "trial"
  /\ pc[c] = "idle"
  /\ Free("trial")
  /\ ~stop["trial"]
  /\ pc' = [pc EXCEPT ![c] = "ready"]
  /\ UNCHANGED <<ledgerVars, slots, stop>>

(***************************************************************************)
(* The claim, first made or made again after a wait.                       *)
(***************************************************************************)

\* score_experiment awaits score_one_result itself, so nothing runs between
\* its stop check and a judge call's claim.
AtItsClaim(c) ==
  \/ pc[c] \in {"ready", "woken"}
  \/ /\ Kind[c] = "judge"
     /\ pc[c] = "idle"
     /\ Free("judge")
     /\ ~stop["judge"]

WouldWait(c) == Kind[c] \in Runners /\ spend_room_held_by_others(Worst[c])

\* A batch member or a stream refused for room, or a runner's call whose
\* worst case no longer fits beside recorded spend alone.
Refuse(c) ==
  /\ AtItsClaim(c)
  /\ ~spend_admits(Worst[c])
  /\ ~Stopped(c)
  /\ ~WouldWait(c)
  /\ pc' = [pc EXCEPT ![c] = "refused"]
  /\ UNCHANGED <<ledgerVars, slots, stop>>

Wait(c) ==
  /\ AtItsClaim(c)
  /\ ~spend_admits(Worst[c])
  /\ ~Stopped(c)
  /\ WouldWait(c)
  /\ pc' = [pc EXCEPT ![c] = "wait"]
  /\ UNCHANGED <<ledgerVars, slots, stop>>

Skip(c) ==
  /\ AtItsClaim(c)
  /\ ~spend_admits(Worst[c])
  /\ Stopped(c)
  /\ pc' = [pc EXCEPT ![c] = "skipped"]
  /\ UNCHANGED <<ledgerVars, slots, stop>>

\* Admitted behind others: a stream first yields its queued frame.
AdmitToQueue(c) ==
  /\ AtItsClaim(c)
  /\ spend_admits(Worst[c])
  /\ Locked(slots)
  /\ reserve_spend(c)
  /\ IF Kind[c] = "stream"
     THEN /\ pc' = [pc EXCEPT ![c] = "frame"]
          /\ slots' = slots
     ELSE /\ pc' = [pc EXCEPT ![c] = "queued"]
          /\ slots' = Enqueued(slots, c)
  /\ UNCHANGED stop

\* Admitted with a slot free: acquire does not suspend, the ceiling cannot
\* have been reached since the claim, and the request goes out.
AdmitToWire(c) ==
  /\ AtItsClaim(c)
  /\ spend_admits(Worst[c])
  /\ ~Locked(slots)
  /\ ~(Kind[c] = "judge" /\ Stopped(c))
  /\ reserve_spend(c)
  /\ pc' = [pc EXCEPT ![c] = "wire"]
  /\ slots' = Taken(slots)
  /\ UNCHANGED stop

\* A judge call that waited, was stopped, found room all the same and hears
\* the stop in its slot: claim and slot come and go within the step.
AdmitThenSkip(c) ==
  /\ AtItsClaim(c)
  /\ spend_admits(Worst[c])
  /\ ~Locked(slots)
  /\ Kind[c] = "judge" /\ Stopped(c)
  /\ pc' = Freed([pc EXCEPT ![c] = "skipped"], Claim(c))
  /\ UNCHANGED <<ledgerVars, slots, stop>>

(***************************************************************************)
(* The slot.                                                               *)
(***************************************************************************)

\* Variants: no second look at the ceiling, and none at the stop.
InSlotUnchecked(c, s) ==
  /\ pc' = [pc EXCEPT ![c] = "wire"]
  /\ slots' = s
  /\ UNCHANGED <<ledgerVars, stop>>
InSlotUnstopped(c, s) ==
  \/ /\ spend_ceiling_reached
     /\ Leave(c, "refused")
     /\ slots' = Released(s)
  \/ ~spend_ceiling_reached /\ InSlotUnchecked(c, s)

\* What a call does once the slot is its own, s being the semaphore then.
InSlot(c, s) ==
  \/ /\ spend_ceiling_reached
     /\ Leave(c, "refused")
     /\ slots' = Released(s)
  \/ /\ ~spend_ceiling_reached
     /\ Kind[c] = "judge" /\ Stopped(c)
     /\ Leave(c, "skipped")
     /\ slots' = Released(s)
  \/ /\ ~spend_ceiling_reached
     /\ ~(Kind[c] = "judge" /\ Stopped(c))
     /\ pc' = [pc EXCEPT ![c] = "wire"]
     /\ slots' = s
     /\ UNCHANGED <<ledgerVars, stop>>

\* The reader has taken the queued frame and the generator goes on.
AfterFrame(c) ==
  /\ pc[c] = "frame"
  /\ \/ /\ Locked(slots)
        /\ pc' = [pc EXCEPT ![c] = "queued"]
        /\ slots' = Enqueued(slots, c)
        /\ UNCHANGED <<ledgerVars, stop>>
     \/ /\ ~Locked(slots)
        /\ InSlot(c, Taken(slots))

TakeSlot(c) ==
  /\ pc[c] = "queued"
  /\ c \in slots.granted
  /\ InSlot(c, Left(slots, c))

\* The exchange is over, however it went: an answer, an error, a timeout.
\* The slot goes back and settlement replaces the claim, in one step.
Settle(c, cost) ==
  /\ pc[c] = "wire"
  /\ settle_spend(c, cost)
  /\ pc' = Freed([pc EXCEPT ![c] = "counted"], claims[c])
  /\ slots' = Released(slots)
  /\ UNCHANGED stop

(***************************************************************************)
(* What cuts a call short.                                                 *)
(***************************************************************************)
Cancel(c) ==
  \/ /\ pc[c] \in Waiting \cup {"ready", "frame"}
     /\ Leave(c, "gone")
     /\ UNCHANGED slots
  \/ /\ pc[c] = "queued"
     /\ Leave(c, "gone")
     /\ slots' = Cancelled(slots, c)
  \/ /\ pc[c] = "wire"
     /\ Leave(c, "aborted")
     /\ slots' = Released(slots)

\* The reader goes away: the generator is cancelled where it is suspended.
Disconnect(c) == Kind[c] = "stream" /\ Cancel(c)

\* _shutdown_scoring cancels a pass that outlived its bound; it asked the
\* pass to stop first.  A trial is shielded and is never cut.
Cut(c) == Kind[c] = "judge" /\ stop["judge"] /\ Cancel(c)

\* stop_experiment, stop_scoring, or shutdown: the event is set, and what
\* that runner has asleep in wait_for_spend_room wakes.
Stop(kind) ==
  /\ ~stop[kind]
  /\ stop' = [stop EXCEPT ![kind] = TRUE]
  /\ pc' = [c \in Calls |-> IF Kind[c] = kind /\ pc[c] = "wait"
                            THEN "woken" ELSE pc[c]]
  /\ UNCHANGED <<ledgerVars, slots>>

\* Nothing is in progress: the bench sits idle.
Quiet ==
  /\ \A c \in Calls : pc[c] \in Ended \cup {"idle"}
  /\ UNCHANGED vars

-----------------------------------------------------------------------------
\* What a call's own coroutine does next, once whatever it awaits is there.
Step(c) ==
  \/ Dispatch(c)
  \/ Refuse(c) \/ Wait(c) \/ Skip(c)
  \/ AdmitToQueue(c) \/ AdmitToWire(c) \/ AdmitThenSkip(c)
  \/ AfterFrame(c) \/ TakeSlot(c)
  \/ \E cost \in Costs : Settle(c, cost)

Next ==
  \/ \E r \in Requests : Door(r)
  \/ \E c \in Calls : Step(c) \/ Disconnect(c) \/ Cut(c)
  \/ \E kind \in Runners : Stop(kind)
  \/ Quiet

Spec == Init /\ [][Next]_vars

\* The loop runs every ready task; a reader takes its frame or goes away;
\* an exchange ends, by its answer or by a read timeout (models.py).
FairSpec == Spec /\ \A c \in Calls : WF_vars(Step(c) \/ Disconnect(c))

-----------------------------------------------------------------------------
(***************************************************************************)
(* Properties.                                                             *)
(***************************************************************************)

\* A claim is held exactly while its call is live and admitted: no way out
\* of a call (refused in its slot, cut off, stopped, settled) leaves one
\* behind, and none is dropped or doubled before the call ends.
ClaimsFollowCalls ==
  \A c \in Calls : claims[c] = IF pc[c] \in Holding THEN Claim(c) ELSE 0

\* "Recorded spend passes the limit only by what calls counted beyond what
\* they reserved" (README), and neither do the live claims add to that.
LedgerBound ==
  Limit # NoLimit => accumulated + spend_reserved <= Limit + beyond

\* Every slot is free, granted to a queued call, or under an exchange, and
\* the queue is the calls waiting in it, each once.
SlotsConserved ==
  /\ slots.free + Cardinality(slots.granted) + Cardinality(At("wire")) = Slots
  /\ ToSet(slots.queue) = At("queued")
  /\ Len(slots.queue) = Cardinality(At("queued"))

\* wait_for_spend_room: "the calls holding claims ... each gives its claim
\* back": whoever sleeps has a claim to wait for and a stop still unset, so
\* a wakeup is yet to come and none was missed.
SleepersHaveAWaker ==
  \A c \in At("wait") : ~Stopped(c) /\ \E d \in Calls : claims[d] > 0

\* Once recorded spend reaches the limit nothing more is sent, so what can
\* still add to it is what was executing then, at most Slots calls.
CeilingClosesTheWire ==
  [][spend_ceiling_reached => At("wire")' \subseteq At("wire")]_vars

\* score_one_result: a Stop that arrived while a call waited, for room or
\* for a slot, is honoured before anything is sent.
StopSendsNoJudgeCall ==
  [][\A c \in Calls : /\ Kind[c] = "judge"
                      /\ stop["judge"]
                      /\ pc'[c] = "wire"
                      => pc[c] = "wire"]_vars

\* README, the spend ceiling: of a trial that waits for room, "a Stop, or
\* shutdown, ends the wait with nothing sent".
StopSendsNoWaitingTrial ==
  [][\A c \in Calls : /\ Kind[c] = "trial"
                      /\ stop["trial"]
                      /\ pc[c] \in Waiting
                      => pc'[c] \notin Holding]_vars

\* Nobody waits for ever on anybody: from some time on no call is at its
\* claim, waits for room, queues for a slot or is on the wire.  A call runs
\* once, so each one that began has ended.
EveryCallEnds ==
  <>[](\A c \in Calls : pc[c] \in Ended \cup {"idle"})

\* The four callers, the ledger and the semaphore together keep what the
\* ceiling promises.
Contract == INSTANCE CeilingContract WITH
  spent    <- accumulated,
  admitted <- {c \in Calls : pc[c] \in Holding}

KeepsTheContract == Contract!Spec
=============================================================================
