---------------------------- MODULE ScoringPass ----------------------------
(***************************************************************************)
(* The scoring passes of bench/main.py and their records in bench/store.py:*)
(* the Score door, score_experiment and score_one_result as one task, the  *)
(* shielded judge request, Stop scoring, shutdown's bounded wait and cut,  *)
(* a crash at any point, database writes that fail, and the boot sweep.    *)
(*                                                                         *)
(* One action is what the event loop runs between two awaits.  A pass goes *)
(* over the trials 1..Len(Trials) in order, of three sorts:                *)
(*   "plain"  a deterministic scorer, run in a thread                      *)
(*   "judge"  a judge scorer over a response with text: a paid request     *)
(*   "mute"   a judge scorer over no text: a slot, and no request          *)
(* The claim and the slot themselves are UpstreamCalls'.                   *)
(***************************************************************************)
EXTENDS JudgeCallRecord, Sequences

CONSTANTS Trials,  \* the sequence of sorts
          Passes,  \* pass ids, in the order the door hands them out: 1..n
          Judged,  \* those started with a judge model
          Faulty,  \* whether a database write may raise
          NoCall   \* no judge_calls row

ASSUME PassAssumption ==
  /\ Trials \in Seq({"plain", "judge", "mute"})
  /\ Passes \subseteq Nat \ {0} /\ IsFiniteSet(Passes)
  /\ Judged \subseteq Passes
  /\ Faulty \in BOOLEAN
  /\ NoCall \notin CallRecords

Index == 1..Len(Trials)
None == 0

VARIABLES pass,     \* scoring_passes: [outcome, counts]         (database)
          call,     \* judge_calls, at most one per pass, trial  (database)
          score,    \* scores: "none", "scored" or "gap"         (database)
          proc,     \* the server process
          active,   \* scoring_run["pass_id"]; "active" goes with it
          stop,     \* scoring_run["stop"].is_set()
          at,       \* where the pass's task is suspended
          nth,      \* the trial it is on
          judging,  \* the shielded judge_response task, or how it ended
          wire,     \* history: what became of each request
          cut,      \* history: the passes shutdown's bound cut
          asked     \* history: the passes a stop was set under

database == <<pass, call, score>>
vars == <<pass, call, score, proc, active, stop, at, nth, judging, wire, cut,
          asked>>

PassOutcomes == {"none", "open", "finished", "stopped", "failed",
                 "interrupted"}
Verdicts == {"answered", "timed_out", "failed", "cut_off", "not_sent", "mute"}
Over     == Verdicts \cup {"raised"}
Stages   == Over \cup {"none",
                       "ready",       \* created, not yet run
                       "connecting",  \* handed to the client
                       "sent",        \* the request is out, no reply
                       "replying"}    \* the reply's head is in

NoCounts == [scored |-> 0, failed |-> 0, unanswered |-> 0, unusable |-> 0,
             unknown |-> 0]

TypeOK ==
  /\ pass \in [Passes -> [outcome : PassOutcomes,
                          counts : [DOMAIN NoCounts -> Nat]]]
  /\ call \in [Passes -> [Index -> CallRecords \cup {NoCall}]]
  /\ score \in [Passes -> [Index -> {"none", "scored", "gap"}]]
  /\ proc \in {"up", "closing", "down"}
  /\ active \in Passes \cup {None}
  /\ stop \in BOOLEAN
  /\ at \in {"none", "start", "thread", "room", "slot", "call"}
  /\ nth \in Nat
  /\ judging \in Stages
  /\ wire \in [Passes -> [Index -> {"never", "left", "replied", "answered"}]]
  /\ cut \subseteq Passes
  /\ asked \subseteq Passes

Init ==
  /\ pass = [p \in Passes |-> [outcome |-> "none", counts |-> NoCounts]]
  /\ call = [p \in Passes |-> [t \in Index |-> NoCall]]
  /\ score = [p \in Passes |-> [t \in Index |-> "none"]]
  /\ proc = "up"
  /\ active = None
  /\ stop = FALSE
  /\ at = "none"
  /\ nth = 0
  /\ judging = "none"
  /\ wire = [p \in Passes |-> [t \in Index |-> "never"]]
  /\ cut = {}
  /\ asked = {}

-----------------------------------------------------------------------------
(***************************************************************************)
(* The records.                                                            *)
(***************************************************************************)

\* _PASS_COUNTS over the rows c and s of one pass.
PassCounts(c, s) ==
  LET placed(ending) ==
        Cardinality({t \in Index : c[t] # NoCall /\ call_ending(c[t]) = ending})
  IN  [scored     |-> Cardinality({t \in Index : s[t] = "scored"}),
       failed     |-> Cardinality({t \in Index : s[t] = "gap"}),
       unanswered |-> placed("unanswered"),
       unusable   |-> placed("unusable"),
       unknown    |-> placed("unknown")]

\* Every call of c still open, closed as ending.
CloseCalls(c, ending) == [t \in Index |-> IF c[t] = OpenCall THEN ending ELSE c[t]]

\* Variant: the counts taken before the open calls are closed.
CloseAfterCounting(c, s, outcome, unwritten) ==
  /\ score' = [score EXCEPT ![active] = s]
  /\ call' = [call EXCEPT ![active] = CloseCalls(c, unwritten)]
  /\ pass' = [pass EXCEPT ![active] =
                [outcome |-> outcome, counts |-> PassCounts(c, s)]]
  /\ active' = None
  /\ at' = "none"
  /\ nth' = 0
  /\ judging' = "none"

\* close_scoring_pass, in score_experiment's finally: the open calls and the
\* pass in one transaction, given the rows the step has written so far.  A
\* failure is logged, the pass stays open, and the slot is freed all the
\* same.  unwritten is the ending of a call whose own write failed.
Close(c, s, outcome, unwritten) ==
  /\ score' = [score EXCEPT ![active] = s]
  /\ \/ LET closed == CloseCalls(c, unwritten)
        IN  /\ call' = [call EXCEPT ![active] = closed]
            /\ pass' = [pass EXCEPT ![active] =
                          [outcome |-> outcome, counts |-> PassCounts(closed, s)]]
     \/ /\ Faulty
        /\ call' = [call EXCEPT ![active] = c]
        /\ UNCHANGED pass
  /\ active' = None
  /\ at' = "none"
  /\ nth' = 0
  /\ judging' = "none"

\* A write of this step, or the exception it may raise instead.
Fails(c, s) == Faulty /\ Close(c, s, "failed", FoundOpen)

(***************************************************************************)
(* The doors.                                                              *)
(***************************************************************************)

\* open_scoring_pass and the claim of the slot, in one step.
start_scoring(p) ==
  /\ proc = "up"
  /\ active = None
  /\ pass[p].outcome = "none"
  /\ \A q \in Passes : q < p => pass[q].outcome # "none"
  /\ pass' = [pass EXCEPT ![p].outcome = "open"]
  /\ active' = p
  /\ stop' = FALSE
  /\ at' = "start"
  /\ nth' = 0
  /\ UNCHANGED <<call, score, proc, judging, wire, cut, asked>>

stop_scoring ==
  /\ proc = "up"
  /\ active # None
  /\ stop' = TRUE
  /\ asked' = asked \cup {active}
  /\ UNCHANGED <<database, proc, active, at, nth, judging, wire, cut>>

(***************************************************************************)
(* The pass's task.                                                        *)
(***************************************************************************)
Suspend(c, s, t, where) ==
  /\ call' = [call EXCEPT ![active] = c]
  /\ score' = [score EXCEPT ![active] = s]
  /\ at' = where
  /\ nth' = t
  /\ judging' = IF where = "call" THEN "ready" ELSE "none"
  /\ UNCHANGED <<pass, active>>

\* Where score_one_result first suspends on trial t.
Suspensions(t) ==
  CASE Trials[t] = "plain" -> {"thread"}
    [] Trials[t] = "judge" -> {"room", "slot", "call"}
    [] Trials[t] = "mute"  -> {"slot", "call"}

\* A trial that gets a row without the task suspending: no judge was given,
\* or the ceiling or the lack of room refuses the call outright.
Judgeable(t) == Trials[t] \in {"judge", "mute"}

\* Variant: the stop read after the loop as well as in it.
OnwardStoppedLate(c, s, t) ==
  \/ t = Len(Trials) + 1 /\ stop /\ Close(c, s, "stopped", FoundOpen)
  \/ t = Len(Trials) + 1 /\ ~stop /\ Close(c, s, "finished", FoundOpen)
  \/ t \in Index /\ stop /\ Close(c, s, "stopped", FoundOpen)
  \/ /\ t \in Index /\ ~stop
     /\ \E where \in Suspensions(t) : Suspend(c, s, t, where)

\* The loop of score_experiment from trial t on: the stop is looked at
\* before each trial; those that need no suspension are written and passed.
Onward(c, s, t) ==
  \E n \in t..(Len(Trials) + 1) :
    LET gaps    == t..(n - 1)
        written == [u \in Index |-> IF u \in gaps THEN "gap" ELSE s[u]]
    IN  /\ gaps # {} => ~stop
        /\ \A u \in gaps : Judgeable(u)
        /\ \/ n = Len(Trials) + 1 /\ Close(c, written, "finished", FoundOpen)
           \/ n \in Index /\ stop /\ Close(c, written, "stopped", FoundOpen)
           \/ /\ n \in Index
              /\ ~stop
              /\ \/ Judgeable(n) /\ Fails(c, written)
                 \/ /\ Judgeable(n) => active \in Judged
                    /\ \E where \in Suspensions(n) : Suspend(c, written, n, where)

\* This trial's score row, then the rest of the loop.
WriteScore(c, mark) ==
  LET s == score[active]
  IN  \/ Onward(c, [s EXCEPT ![nth] = mark], nth + 1)
      \/ Fails(c, s)

Here == call[active]

Begin ==
  /\ at = "start"
  /\ \/ Onward(Here, score[active], 1)
     \/ Fails(Here, score[active])
  /\ UNCHANGED <<proc, stop, wire, cut, asked>>

\* A deterministic scorer's thread answers: a verdict, or no score.
ThreadDone ==
  /\ at = "thread"
  /\ \E mark \in {"scored", "gap"} : WriteScore(Here, mark)
  /\ UNCHANGED <<proc, stop, wire, cut, asked>>

StopHere == Close(Here, score[active], "stopped", FoundOpen)

\* Awake in wait_for_spend_room: the claim is tried again; a stop that finds
\* it still refused, or found in the slot, ends the pass.
Woken ==
  /\ at = "room"
  /\ \/ Suspend(Here, score[active], nth, "slot")
     \/ ~stop /\ Suspend(Here, score[active], nth, "call")
     \/ ~stop /\ WriteScore(Here, "gap")
     \/ stop /\ StopHere
  /\ UNCHANGED <<proc, stop, wire, cut, asked>>

\* The slot: the ceiling is asked again, then the stop, then the judge.
InSlot ==
  /\ at = "slot"
  /\ \/ WriteScore(Here, "gap")
     \/ stop /\ StopHere
     \/ ~stop /\ Suspend(Here, score[active], nth, "call")
  /\ UNCHANGED <<proc, stop, wire, cut, asked>>

\* Variant: a reply is a reply once its body has been read.
RepliedWhenRead(stage) == stage = "answered"

\* The outcome a verdict carries, and whether a reply's head had arrived.
OutcomeOf(stage) == IF stage = "cut_off" THEN "failed" ELSE stage
Replied(stage) == stage \in {"answered", "cut_off", "replying"}

\* The call's own ending, if it has a row, when its write succeeds.
EndCall(outcome, replied) ==
  [t \in Index |-> IF t = nth /\ Here[t] = OpenCall
                   THEN Ended(outcome, replied) ELSE Here[t]]

\* settle: the call's ending, then the score row.  An answer may fail to
\* parse, and a mute trial scores zero.
Settle ==
  /\ at = "call"
  /\ judging \in Verdicts
  /\ LET outcome == OutcomeOf(judging)
         replied == Replied(judging)
         c == EndCall(outcome, replied)
     IN  \/ \E mark \in {"scored", "gap"} :
              /\ mark = "scored" => judging \in {"answered", "mute"}
              /\ judging = "mute" => mark = "scored"
              /\ WriteScore(c, mark)
         \/ /\ Faulty
            /\ Here[nth] = OpenCall
            /\ Close(Here, score[active], "failed", Unwritten(outcome, replied))
  /\ UNCHANGED <<proc, stop, wire, cut, asked>>

\* An exception out of judge_response: the call, if recorded, is ended as
\* failed, and the pass fails.  A reply may have begun: see wire.
JudgeRaised ==
  /\ at = "call"
  /\ judging = "raised"
  /\ LET replied == wire[active][nth] = "replied"
     IN  \/ Close(EndCall("failed", replied), score[active], "failed", FoundOpen)
         \/ /\ Faulty
            /\ Close(Here, score[active], "failed", Unwritten("failed", replied))
  /\ UNCHANGED <<proc, stop, wire, cut, asked>>

(***************************************************************************)
(* judge_response, a task of its own.                                      *)
(***************************************************************************)
onlyTheJudge ==
  UNCHANGED <<pass, score, proc, active, stop, at, nth, cut, asked>>

\* Variant: the request handed over before it is recorded.
JudgeStartsUnrecorded ==
  /\ judging = "ready"
  /\ judging' = IF Trials[nth] = "mute" THEN "mute" ELSE "connecting"
  /\ onlyTheJudge
  /\ UNCHANGED <<call, wire>>

\* Its first step: a mute trial asks nobody; otherwise `sending` records
\* the call and the request is handed to the client.
JudgeStarts ==
  /\ judging = "ready"
  /\ \/ /\ Trials[nth] = "mute"
        /\ judging' = "mute"
        /\ UNCHANGED call
     \/ /\ Trials[nth] = "judge"
        /\ pass[active].outcome = "open"
        /\ judging' = "connecting"
        /\ call' = [call EXCEPT ![active][nth] = OpenCall]
     \/ /\ Trials[nth] = "judge"
        /\ Faulty \/ pass[active].outcome # "open"
        /\ judging' = "raised"
        /\ UNCHANGED call
  /\ onlyTheJudge
  /\ UNCHANGED wire

Became(w) == wire' = [wire EXCEPT ![active][nth] = w]

\* The client's progress, as judge_response classifies it.
JudgeMoves ==
  /\ \/ judging = "connecting" /\ judging' = "sent" /\ Became("left")
     \/ judging = "connecting" /\ judging' = "not_sent" /\ UNCHANGED wire
     \/ judging = "sent" /\ judging' = "replying" /\ Became("replied")
     \/ /\ judging = "sent"
        /\ judging' \in {"timed_out", "failed"}
        /\ UNCHANGED wire
     \/ judging = "replying" /\ judging' = "answered" /\ Became("answered")
     \/ judging = "replying" /\ judging' = "cut_off" /\ UNCHANGED wire
     \/ /\ Faulty
        /\ judging \in {"connecting", "sent", "replying"}
        /\ judging' = "raised"
        /\ UNCHANGED wire
  /\ onlyTheJudge
  /\ UNCHANGED call

(***************************************************************************)
(* The process.                                                            *)
(***************************************************************************)
Shutdown ==
  /\ proc = "up"
  /\ at # "start"
  /\ proc' = "closing"
  /\ stop' = TRUE
  /\ asked' = IF active = None THEN asked ELSE asked \cup {active}
  /\ UNCHANGED <<database, active, at, nth, judging, wire, cut>>

\* Variant: a cut that a judge call in flight holds off.
CutBetweenCalls ==
  /\ proc = "closing"
  /\ at \notin {"none", "call"}
  /\ cut' = cut \cup {active}
  /\ Close(Here, score[active], "stopped", FoundOpen)
  /\ UNCHANGED <<proc, stop, wire, asked>>

\* SCORING_SHUTDOWN_SECONDS ran out: wait_for cancels the task.  In the
\* shield, a request still going is abandoned and recorded stopped, one that
\* is over is recorded as it ended; failures to write are only logged.
Cut ==
  /\ proc = "closing"
  /\ at # "none"
  /\ cut' = cut \cup {active}
  /\ LET s == score[active]
         Ending(outcome, replied) ==
           \/ Close(EndCall(outcome, replied), s, "stopped", FoundOpen)
           \/ /\ Faulty
              /\ Close(Here, s, "stopped", Unwritten(outcome, replied))
     IN  \/ at # "call" /\ Close(Here, s, "stopped", FoundOpen)
         \/ /\ at = "call"
            /\ judging \notin Over
            /\ Ending("stopped", Replied(judging))
         \/ /\ at = "call"
            /\ judging = "raised"
            /\ Ending("failed", wire[active][nth] = "replied")
         \/ /\ at = "call"
            /\ judging \in Verdicts
            /\ LET outcome == OutcomeOf(judging)
                   replied == Replied(judging)
               IN  \/ \E mark \in {"scored", "gap"} :
                        /\ mark = "scored" => judging \in {"answered", "mute"}
                        /\ judging = "mute" => mark = "scored"
                        /\ Close(EndCall(outcome, replied),
                                 [s EXCEPT ![nth] = mark], "stopped", FoundOpen)
                   \/ /\ Faulty
                      /\ \/ Close(EndCall(outcome, replied), s, "stopped",
                                  FoundOpen)
                         \/ /\ Here[nth] = OpenCall
                            /\ Close(Here, s, "stopped",
                                     Unwritten(outcome, replied))
  /\ UNCHANGED <<proc, stop, wire, asked>>

Gone ==
  /\ proc' = "down"
  /\ active' = None
  /\ stop' = FALSE
  /\ at' = "none"
  /\ nth' = 0
  /\ judging' = "none"
  /\ UNCHANGED <<pass, wire, cut, asked>>

Closed ==
  /\ proc = "closing"
  /\ at = "none"
  /\ Gone
  /\ UNCHANGED <<call, score>>

\* The process dies: between two steps, or inside settle with the call's
\* ending committed and, or not, the score row too.
Crash ==
  /\ proc # "down"
  /\ Gone
  /\ \/ UNCHANGED <<call, score>>
     \/ /\ at = "call"
        /\ judging \in Verdicts
        /\ call' = [call EXCEPT ![active] =
                      EndCall(OutcomeOf(judging), Replied(judging))]
        /\ UNCHANGED score

\* Variant: a boot that closes the open calls and leaves their pass.
BootForCallsOnly ==
  /\ proc = "down"
  /\ proc' = "up"
  /\ call' = [p \in Passes |-> CloseCalls(call[p], FoundOpen)]
  /\ UNCHANGED <<pass, score, active, stop, at, nth, judging, wire, cut, asked>>

\* sweep_open_scoring_records: calls, then passes, in one transaction.
Boot ==
  LET swept(p) == CloseCalls(call[p], FoundOpen)
  IN  /\ proc = "down"
      /\ proc' = "up"
      /\ call' = [p \in Passes |-> swept(p)]
      /\ pass' = [p \in Passes |->
                    IF pass[p].outcome = "open"
                    THEN [outcome |-> "interrupted",
                          counts |-> PassCounts(swept(p), score[p])]
                    ELSE pass[p]]
      /\ UNCHANGED <<score, active, stop, at, nth, judging, wire, cut, asked>>

-----------------------------------------------------------------------------
PassStep == Begin \/ ThreadDone \/ Woken \/ InSlot \/ Settle \/ JudgeRaised
JudgeStep == JudgeStarts \/ JudgeMoves

Next ==
  \/ \E p \in Passes : start_scoring(p)
  \/ stop_scoring
  \/ PassStep
  \/ JudgeStep
  \/ Shutdown \/ Cut \/ Closed \/ Crash \/ Boot

Spec == Init /\ [][Next]_vars

\* Shutdown's timer fires and its close is run: all the fairness that
\* shutdown itself may count on, with a judge that may never answer and room
\* that may never come.
ShutdownSpec == Spec /\ WF_vars(Cut) /\ WF_vars(Closed)

\* The loop runs what is ready; a thread answers, a claim and a slot come
\* (UpstreamCalls!EveryCallEnds), a request ends by an answer or a timeout;
\* a stopped bench is started again.
TasksGoOn == WF_vars(PassStep) /\ WF_vars(JudgeStep) /\ WF_vars(Boot)

-----------------------------------------------------------------------------
(***************************************************************************)
(* Properties.                                                             *)
(***************************************************************************)

\* "Every judge request is recorded before it goes out" (README), and its
\* row outlives whatever happens next.
SentIsRecorded ==
  \A p \in Passes, t \in Index : wire[p][t] # "never" => call[p][t] # NoCall

\* close_scoring_pass: "a sealed pass holding an open call would be read as
\* a request still in flight long after anything was".
NoOpenCallUnderASeal ==
  \A p \in Passes : pass[p].outcome \notin {"none", "open"}
    => \A t \in Index : call[p][t] # OpenCall

\* The counts a pass was sealed with stay what its rows say: no row comes
\* under a seal, and none was missed by it.
SealedCountsStayTrue ==
  \A p \in Passes : pass[p].outcome \notin {"none", "open"}
    => pass[p].counts = PassCounts(call[p], score[p])

\* Where the counts place a call is never kinder than what happened to it:
\* a request that left is never placed as one that did not, nor a reply as
\* none, nor anything but an answer as an answer.
RecordsTellTheTruth ==
  \A p \in Passes, t \in Index :
    LET placed == IF call[p][t] = NoCall THEN "none" ELSE call_ending(call[p][t])
        was    == wire[p][t]
    IN  /\ placed = "answered"   => was = "answered"
        /\ placed = "unusable"   => was = "replied"
        /\ placed = "unanswered" => was \in {"never", "left"}
        /\ placed = "never_sent" => was = "never"

\* An outcome says who ended the pass: finished means every trial has a row
\* of it; stopped, that a stop was set under it, with a trial left unscored
\* unless shutdown cut it; and a live pass holds the one slot.
PassOutcomesAreTrue ==
  \A p \in Passes :
    /\ pass[p].outcome = "finished" => \A t \in Index : score[p][t] # "none"
    /\ pass[p].outcome = "stopped" =>
         /\ p \in asked
         /\ p \in cut \/ \E t \in Index : score[p][t] = "none"
    /\ at # "none" /\ active = p => pass[p].outcome = "open"

\* Every update of a judge call is one its seal admits, whichever of the
\* call's own write, the pass's close and the boot sweep makes it: an ending
\* is written once, whole, and never over another.
UpdatesPassTheSeal ==
  [][\A p \in Passes, t \in Index :
       call'[p][t] # call[p][t] =>
         \/ call[p][t] = NoCall /\ call'[p][t] = OpenCall
         \/ call[p][t] # NoCall /\ Admits(call[p][t], call'[p][t])]_vars

\* A pass comes to an ending if its task goes on, unless the close's own
\* write failed; and one left open, so or by a crash, is ended by the boot.
EveryPassEnds ==
  TasksGoOn => \A p \in Passes :
    /\ pass[p].outcome = "open"
         ~> pass[p].outcome # "open" \/ (proc = "up" /\ active # p)
    /\ pass[p].outcome = "open" /\ proc = "down"
         ~> pass[p].outcome # "open"

\* Shutdown is bounded whatever the judge does (SCORING_SHUTDOWN_SECONDS).
ShutdownEnds == proc = "closing" ~> proc # "closing"

\* CALL_OUTCOMES, of "stopped": "the request went out and the bench's own
\* shutdown cut it".
StoppedWentOut ==
  \A p \in Passes, t \in Index :
    call[p][t] # NoCall /\ call[p][t].outcome = "stopped"
      => wire[p][t] # "never"
=============================================================================
