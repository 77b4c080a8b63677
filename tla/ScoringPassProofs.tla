------------------------- MODULE ScoringPassProofs -------------------------
(***************************************************************************)
(* What the records of a scoring pass say, for every list of trials and    *)
(* every number of passes, through stops, shutdown's cut, crashes, boots   *)
(* and failing writes.                                                     *)
(***************************************************************************)
EXTENDS ScoringPass, JudgeCallSeal, FiniteSetTheorems, TLAPS

-----------------------------------------------------------------------------
(***************************************************************************)
(* One row.                                                                *)
(***************************************************************************)
Ways == Outcomes \ {"interrupted"}

LEMMA RowTypes ==
  /\ OpenCall \in CallRecords
  /\ FoundOpen \in CallRecords /\ FoundOpen # OpenCall
  /\ \A o \in Ways, r \in BOOLEAN :
       /\ Ended(o, r) \in CallRecords /\ Ended(o, r) # OpenCall
       /\ Unwritten(o, r) \in CallRecords /\ Unwritten(o, r) # OpenCall
<1>1. OpenCall \in CallRecords
  BY DEF OpenCall, CallRecords, Flags
<1>2. FoundOpen \in CallRecords /\ FoundOpen # OpenCall
  BY DEF FoundOpen, OpenCall, CallRecords, Flags, Outcomes
<1>3. ASSUME NEW o \in Ways, NEW r \in BOOLEAN
      PROVE  /\ Ended(o, r) \in CallRecords /\ Ended(o, r) # OpenCall
             /\ Unwritten(o, r) \in CallRecords /\ Unwritten(o, r) # OpenCall
  BY DEF Ways, Outcomes, Ended, Unwritten, call_facts, OpenCall, CallRecords, Flags
<1> QED BY <1>1, <1>2, <1>3

\* Every ending that call_facts accepts passes the seal, from an open row.
LEMMA EndingsPass ==
  /\ Admits(OpenCall, FoundOpen)
  /\ \A o \in Ways, r \in BOOLEAN :
       ~Contradicts(o, r) => /\ Admits(OpenCall, Ended(o, r))
                             /\ Admits(OpenCall, Unwritten(o, r))
<1>1. Admits(OpenCall, FoundOpen)
  BY DEF Admits, FoundOpen, OpenCall
<1>2. ASSUME NEW o \in Ways, NEW r \in BOOLEAN, ~Contradicts(o, r)
      PROVE  Admits(OpenCall, Ended(o, r)) /\ Admits(OpenCall, Unwritten(o, r))
  BY <1>2 DEF Ways, Outcomes, Contradicts, Admits, Ended, Unwritten, call_facts, OpenCall
<1> QED BY <1>1, <1>2

\* What became of a request bears out where the counts place its row.
BornOut(c, w) ==
  LET placed == IF c = NoCall THEN "none" ELSE call_ending(c)
  IN  /\ placed = "answered"   => w = "answered"
      /\ placed = "unusable"   => w = "replied"
      /\ placed = "unanswered" => w \in {"never", "left"}
      /\ placed = "never_sent" => w = "never"

\* An outcome and a reply that tell what became of the request.
Tells(o, r, w) ==
  /\ r <=> w \in {"replied", "answered"}
  /\ o = "answered" <=> w = "answered"
  /\ o = "not_sent" => w = "never"

LEMMA OpenIsBornOut ==
  /\ \A w : BornOut(OpenCall, w) /\ BornOut(FoundOpen, w) /\ BornOut(NoCall, w)
BY DEF BornOut, OpenCall, FoundOpen, call_ending

LEMMA EndedIsBornOut ==
  ASSUME NEW o \in Ways, NEW r \in BOOLEAN,
         NEW w \in {"never", "left", "replied", "answered"}, Tells(o, r, w)
  PROVE  BornOut(Ended(o, r), w) /\ BornOut(Unwritten(o, r), w)
<1>1. BornOut(Ended(o, r), w)
  BY DEF BornOut, Tells, Ended, call_facts, call_ending, Ways, Outcomes
<1>2. BornOut(Unwritten(o, r), w)
  BY DEF BornOut, Tells, Ended, Unwritten, call_facts, call_ending, Ways, Outcomes
<1> QED BY <1>1, <1>2

-----------------------------------------------------------------------------
(***************************************************************************)
(* The turns of the pass's task, entry by entry.                           *)
(***************************************************************************)
Calls == [Index -> CallRecords \cup {NoCall}]
Marks == [Index -> {"none", "scored", "gap"}]
Sealed == [outcome : PassOutcomes, counts : [DOMAIN NoCounts -> Nat]]

\* The task's place and the rows of the pass it is on.
Asked == {"connecting", "sent", "replying", "answered", "timed_out", "failed",
          "cut_off", "not_sent"}

Live ==
  /\ at = "none" <=> active = None
  /\ judging # "none" <=> at = "call"
  /\ at \notin {"none", "start"} => nth \in Index
  /\ at = "start" => nth = 0
  /\ proc = "down" => at = "none"
  /\ proc = "closing" => stop
  /\ active # None =>
       /\ pass[active].outcome = "open"
       /\ stop => active \in asked

Ahead ==
  /\ \A p \in Passes, t \in Index :
       pass[p].outcome = "none" => call[p][t] = NoCall /\ score[p][t] = "none"
  /\ active # None =>
       \A t \in Index :
         /\ t < nth <=> score[active][t] # "none"
         /\ t > nth => call[active][t] = NoCall
         /\ t < nth => call[active][t] # OpenCall
         /\ t = nth /\ judging \in {"none", "ready", "mute"} => call[active][t] = NoCall
         /\ t = nth /\ judging \in Asked => call[active][t] = OpenCall
         /\ t = nth /\ judging = "raised" => call[active][t] \in {NoCall, OpenCall}

\* How far the request got, by where its task is.
WireAt(w) ==
  /\ judging \in {"connecting", "not_sent"} => w = "never"
  /\ judging \in {"sent", "timed_out", "failed"} => w = "left"
  /\ judging \in {"replying", "cut_off"} => w = "replied"
  /\ judging = "answered" => w = "answered"
  /\ judging = "raised" => w # "answered"

Wires ==
  /\ \A p \in Passes, t \in Index :
       /\ call[p][t] = NoCall => wire[p][t] = "never"
       /\ BornOut(call[p][t], wire[p][t])
  /\ at = "call" => WireAt(wire[active][nth])

\* The rows a step may leave: as they were, or the trial's own call ended.
StepCalls(c) ==
  \A t \in Index :
    \/ c[t] = call[active][t]
    \/ /\ call[active][t] = OpenCall
       /\ c[t] \in CallRecords \ {OpenCall}
       /\ Admits(OpenCall, c[t])
       /\ BornOut(c[t], wire[active][t])

\* No call of the pass is open, and none is made from trial n on.
NoneOpen(c, n) == \A t \in Index : c[t] # OpenCall /\ (t >= n => c[t] = NoCall)

Upto(s, n) == \A t \in Index : t < n <=> s[t] # "none"

LegalEnding(record) ==
  /\ record \in CallRecords \ {OpenCall}
  /\ Admits(OpenCall, record)
  /\ \A t \in Index : call[active][t] = OpenCall => BornOut(record, wire[active][t])

Typed ==
  /\ call' \in [Passes -> Calls]
  /\ score' \in [Passes -> Marks]
  /\ pass' \in [Passes -> Sealed]

OthersStay ==
  \A p \in Passes : p # active =>
    call'[p] = call[p] /\ score'[p] = score[p] /\ pass'[p] = pass[p]

Closes(c, s, outcome, record) ==
  /\ Typed /\ OthersStay
  /\ score'[active] = s
  /\ \/ /\ call'[active] = CloseCalls(c, record)
        /\ pass'[active] = [outcome |-> outcome, counts |-> PassCounts(CloseCalls(c, record), s)]
     \/ call'[active] = c /\ pass'[active] = pass[active]
  /\ active' = None /\ at' = "none" /\ nth' = 0 /\ judging' = "none"

Suspends(c, s, n, where) ==
  /\ Typed /\ OthersStay
  /\ call'[active] = c /\ score'[active] = s /\ pass'[active] = pass[active]
  /\ at' = where /\ nth' = n /\ judging' = IF where = "call" THEN "ready" ELSE "none"
  /\ active' = active

\* What an outcome says of the marks; a cut may leave none without.
Fits(outcome, s) ==
  /\ outcome = "finished" => \A t \in Index : s[t] # "none"
  /\ outcome = "stopped" => active \in asked
  /\ outcome = "stopped" => active \in cut' \/ \E t \in Index : s[t] = "none"

Ends ==
  \E c \in Calls, s \in Marks, outcome \in {"finished", "stopped", "failed"}, record \in CallRecords :
    StepCalls(c) /\ LegalEnding(record) /\ Fits(outcome, s) /\ Closes(c, s, outcome, record)

Goes ==
  \E c \in Calls, s \in Marks, n \in Index, where \in {"thread", "room", "slot", "call"} :
    StepCalls(c) /\ NoneOpen(c, n) /\ Upto(s, n) /\ Suspends(c, s, n, where)

-----------------------------------------------------------------------------
LEMMA IndexFinite == IsFiniteSet(Index) /\ Index \subseteq Nat /\ Len(Trials) \in Nat
<1>1. Len(Trials) \in Nat
  BY PassAssumption
<1> QED BY <1>1, FS_Interval DEF Index

LEMMA PlacedNat ==
  ASSUME NEW S \in SUBSET Index
  PROVE  Cardinality(S) \in Nat
BY IndexFinite, FS_Subset, FS_CardinalityType

LEMMA CountsTyped ==
  ASSUME NEW c, NEW s
  PROVE  PassCounts(c, s) \in [DOMAIN NoCounts -> Nat]
<1> DEFINE placed(ending) ==
        Cardinality({t \in Index : c[t] # NoCall /\ call_ending(c[t]) = ending})
           scored(mark) == Cardinality({t \in Index : s[t] = mark})
<1>1. \A ending : placed(ending) \in Nat
  BY PlacedNat
<1>2. \A mark : scored(mark) \in Nat
  BY PlacedNat
<1>3. PassCounts(c, s) = [scored |-> scored("scored"), failed |-> scored("gap"),
                          unanswered |-> placed("unanswered"), unusable |-> placed("unusable"),
                          unknown |-> placed("unknown")]
  BY DEF PassCounts
<1> HIDE DEF placed, scored
<1> QED BY <1>1, <1>2, <1>3 DEF NoCounts

LEMMA CloseCallsTyped ==
  ASSUME NEW c \in Calls, NEW record \in CallRecords
  PROVE  CloseCalls(c, record) \in Calls
BY DEF CloseCalls, Calls

LEMMA CloseCloses ==
  ASSUME TypeOK, active \in Passes, NEW c \in Calls, NEW s \in Marks,
         NEW outcome \in PassOutcomes, NEW record \in CallRecords, Close(c, s, outcome, record)
  PROVE  Closes(c, s, outcome, record)
<1>1. /\ call \in [Passes -> Calls]
      /\ score \in [Passes -> Marks]
      /\ pass \in [Passes -> Sealed]
  BY DEF TypeOK, Calls, Marks, Sealed
<1>2. CASE /\ call' = [call EXCEPT ![active] = CloseCalls(c, record)]
           /\ pass' = [pass EXCEPT ![active] =
                         [outcome |-> outcome, counts |-> PassCounts(CloseCalls(c, record), s)]]
  <2> DEFINE closed == CloseCalls(c, record)
             seal == [outcome |-> outcome, counts |-> PassCounts(closed, s)]
  <2>1. closed \in Calls
    BY CloseCallsTyped
  <2>2. seal \in Sealed
    BY CountsTyped DEF Sealed
  <2>3. pass' = [pass EXCEPT ![active] = seal] /\ call' = [call EXCEPT ![active] = closed]
    BY <1>2
  <2>4. score' = [score EXCEPT ![active] = s]
    BY DEF Close
  <2>5. call'[active] = closed /\ pass'[active] = seal
    BY <1>1, <2>3
  <2> HIDE DEF closed, seal
  <2>6. Typed
    BY <1>1, <2>1, <2>2, <2>3, <2>4 DEF Typed
  <2>7. OthersStay /\ score'[active] = s
    BY <1>1, <2>3, <2>4 DEF OthersStay
  <2> QED BY <2>5, <2>6, <2>7 DEF Closes, Close, closed, seal
<1>3. CASE call' = [call EXCEPT ![active] = c] /\ pass' = pass
  <2>1. score' = [score EXCEPT ![active] = s]
    BY DEF Close
  <2>2. Typed
    BY <1>1, <1>3, <2>1 DEF Typed
  <2>3. OthersStay /\ score'[active] = s /\ call'[active] = c
    BY <1>1, <1>3, <2>1 DEF OthersStay
  <2> QED BY <1>3, <2>2, <2>3 DEF Closes, Close
<1> QED BY <1>2, <1>3 DEF Close

LEMMA SuspendSuspends ==
  ASSUME TypeOK, active \in Passes, NEW c \in Calls, NEW s \in Marks, NEW n, NEW where,
         Suspend(c, s, n, where)
  PROVE  Suspends(c, s, n, where)
<1>1. /\ call \in [Passes -> Calls]
      /\ score \in [Passes -> Marks]
      /\ pass \in [Passes -> Sealed]
  BY DEF TypeOK, Calls, Marks, Sealed
<1>2. /\ call' = [call EXCEPT ![active] = c]
      /\ score' = [score EXCEPT ![active] = s]
      /\ pass' = pass
  BY DEF Suspend
<1>3. Typed /\ OthersStay /\ call'[active] = c /\ score'[active] = s
  BY <1>1, <1>2 DEF Typed, OthersStay
<1> QED BY <1>2, <1>3 DEF Suspend, Suspends

-----------------------------------------------------------------------------
(***************************************************************************)
(* Every step of the task, and the cut, ends the pass or goes on with it.  *)
(***************************************************************************)
LEMMA FoundOpenLegal == LegalEnding(FoundOpen)
BY RowTypes, EndingsPass, OpenIsBornOut DEF LegalEnding

LEMMA FailsEnds ==
  ASSUME TypeOK, active \in Passes, NEW c \in Calls, NEW s \in Marks, StepCalls(c), Fails(c, s)
  PROVE  Ends
<1>1. Close(c, s, "failed", FoundOpen)
  BY DEF Fails
<1>2. Closes(c, s, "failed", FoundOpen)
  BY <1>1, CloseCloses, RowTypes DEF PassOutcomes
<1>3. Fits("failed", s)
  BY DEF Fits
<1> QED BY <1>2, <1>3, FoundOpenLegal, RowTypes DEF Ends

\* The task stops before trial n, with the marks of those before it.
LEMMA StopEnds ==
  ASSUME TypeOK, Live, active \in Passes, stop, NEW c \in Calls, NEW s \in Marks,
         StepCalls(c), NEW n \in Index, s[n] = "none", Close(c, s, "stopped", FoundOpen)
  PROVE  Ends
<1>1. Closes(c, s, "stopped", FoundOpen)
  BY CloseCloses, RowTypes DEF PassOutcomes
<1>2. Fits("stopped", s)
  BY PassAssumption DEF Fits, Live, None
<1> QED BY <1>1, <1>2, FoundOpenLegal, RowTypes DEF Ends

LEMMA OnwardTurns ==
  ASSUME TypeOK, Live, active \in Passes, NEW c \in Calls, NEW s \in Marks,
         NEW t \in 1..(Len(Trials) + 1),
         StepCalls(c), NoneOpen(c, t), Upto(s, t), Onward(c, s, t)
  PROVE  Ends \/ Goes
<1>1. PICK n \in t..(Len(Trials) + 1) :
        LET gaps    == t..(n - 1)
            written == [u \in Index |-> IF u \in gaps THEN "gap" ELSE s[u]]
        IN  \/ n = Len(Trials) + 1 /\ Close(c, written, "finished", FoundOpen)
            \/ n \in Index /\ stop /\ Close(c, written, "stopped", FoundOpen)
            \/ Fails(c, written)
            \/ n \in Index /\ \E where \in Suspensions(n) : Suspend(c, written, n, where)
  BY DEF Onward
<1> DEFINE written == [u \in Index |-> IF u \in t..(n - 1) THEN "gap" ELSE s[u]]
<1>2. n \in Nat /\ t \in Nat /\ t <= n /\ t >= 1
  BY IndexFinite
<1>3. written \in Marks
  BY DEF Marks
<1>4. \A u \in Index : written[u] = IF u \in t..(n - 1) THEN "gap" ELSE s[u]
  OBVIOUS
<1>5. \/ n = Len(Trials) + 1 /\ Close(c, written, "finished", FoundOpen)
      \/ n \in Index /\ stop /\ Close(c, written, "stopped", FoundOpen)
      \/ Fails(c, written)
      \/ n \in Index /\ \E where \in Suspensions(n) : Suspend(c, written, n, where)
  BY <1>1
<1> HIDE DEF written
<1>6. Upto(written, n)
  <2> SUFFICES ASSUME NEW u \in Index PROVE u < n <=> written[u] # "none"
    BY DEF Upto
  <2>1. u \in Nat /\ (u < t <=> s[u] # "none")
    BY IndexFinite DEF Upto
  <2>2. CASE u \in t..(n - 1)
    BY <1>2, <1>4, <2>1, <2>2
  <2>3. CASE u \notin t..(n - 1)
    <3>1. u < t \/ u >= n
      BY <1>2, <2>1, <2>3
    <3> QED BY <1>2, <1>4, <2>1, <2>3, <3>1
  <2> QED BY <2>2, <2>3
<1>7. CASE n = Len(Trials) + 1 /\ Close(c, written, "finished", FoundOpen)
  <2>1. Closes(c, written, "finished", FoundOpen)
    BY <1>3, <1>7, CloseCloses, RowTypes DEF PassOutcomes
  <2>2. \A u \in Index : u < n
    BY <1>7, IndexFinite DEF Index
  <2>3. Fits("finished", written)
    BY <1>6, <2>2 DEF Fits, Upto
  <2> QED BY <1>3, <2>1, <2>3, FoundOpenLegal, RowTypes DEF Ends
<1>8. CASE n \in Index /\ stop /\ Close(c, written, "stopped", FoundOpen)
  <2>1. written[n] = "none"
    <3>1. ~(n < n)
      BY <1>2
    <3>2. written[n] \in {"none", "scored", "gap"}
      BY <1>3, <1>8 DEF Marks
    <3> QED BY <1>6, <1>8, <3>1 DEF Upto
  <2> QED BY <1>3, <1>8, <2>1, StopEnds
<1>9. CASE Fails(c, written)
  BY <1>3, <1>9, FailsEnds
<1>10. CASE n \in Index /\ \E where \in Suspensions(n) : Suspend(c, written, n, where)
  <2>1. PICK where \in Suspensions(n) : Suspend(c, written, n, where)
    BY <1>10
  <2>2. where \in {"thread", "room", "slot", "call"}
    <3>1. Trials[n] \in {"plain", "judge", "mute"}
      BY <1>10, PassAssumption DEF Index
    <3> QED BY <2>1, <3>1 DEF Suspensions
  <2>3. Suspends(c, written, n, where)
    BY <1>3, <2>1, SuspendSuspends
  <2>4. NoneOpen(c, n)
    BY <1>2, IndexFinite DEF NoneOpen
  <2> QED BY <1>3, <1>6, <1>10, <2>2, <2>3, <2>4 DEF Goes
<1> QED BY <1>5, <1>7, <1>8, <1>9, <1>10

LEMMA WriteScoreTurns ==
  ASSUME TypeOK, Live, Ahead, active \in Passes, nth \in Index, NEW c \in Calls,
         NEW mark \in {"scored", "gap"},
         StepCalls(c), NoneOpen(c, nth + 1), WriteScore(c, mark)
  PROVE  Ends \/ Goes
<1>1. score[active] \in Marks
  BY DEF TypeOK, Marks
<1>2. CASE Fails(c, score[active])
  BY <1>1, <1>2, FailsEnds
<1>3. CASE Onward(c, [score[active] EXCEPT ![nth] = mark], nth + 1)
  <2> DEFINE s == [score[active] EXCEPT ![nth] = mark]
  <2>1. s \in Marks
    BY <1>1 DEF Marks
  <2>2. nth \in Nat /\ nth + 1 \in 1..(Len(Trials) + 1)
    BY IndexFinite DEF Index
  <2>3. \A u \in Index : s[u] = IF u = nth THEN mark ELSE score[active][u]
    BY <1>1 DEF Marks
  <2>4. Upto(s, nth + 1)
    <3> SUFFICES ASSUME NEW u \in Index PROVE u < nth + 1 <=> s[u] # "none"
      BY DEF Upto
    <3>1. u \in Nat /\ (u < nth <=> score[active][u] # "none")
      BY IndexFinite, PassAssumption DEF Ahead, None
    <3> QED BY <2>2, <2>3, <3>1
  <2>5. Onward(c, s, nth + 1)
    BY <1>3
  <2> HIDE DEF s
  <2> QED BY <2>1, <2>2, <2>4, <2>5, OnwardTurns
<1> QED BY <1>2, <1>3 DEF WriteScore

\* The rows as they are, before the trial's own call is made.
LEMMA HereSteps ==
  ASSUME TypeOK, Live, Ahead, active \in Passes, judging \in {"none", "ready", "mute"}
  PROVE  /\ Here \in Calls /\ score[active] \in Marks
         /\ StepCalls(Here) /\ NoneOpen(Here, nth) /\ NoneOpen(Here, nth + 1)
         /\ Upto(score[active], nth)
<1>1. Here \in Calls /\ score[active] \in Marks /\ nth \in Nat
  BY DEF TypeOK, Calls, Marks, Here
<1>2. StepCalls(Here)
  BY DEF StepCalls, Here
<1>3. active # None
  BY PassAssumption DEF None
<1>4. ASSUME NEW t \in Index PROVE Here[t] # OpenCall /\ (t >= nth => Here[t] = NoCall)
  <2>1. t \in Nat /\ (t < nth \/ t = nth \/ t > nth)
    BY <1>1, IndexFinite
  <2>2. NoCall # OpenCall
    BY PassAssumption, RowTypes
  <2> QED BY <1>1, <1>3, <2>1, <2>2 DEF Ahead, Here
<1>5. NoneOpen(Here, nth) /\ NoneOpen(Here, nth + 1)
  BY <1>1, <1>4, IndexFinite DEF NoneOpen
<1>6. Upto(score[active], nth)
  BY <1>3 DEF Upto, Ahead
<1> QED BY <1>1, <1>2, <1>5, <1>6

\* The same trial, at its next await.
LEMMA SuspendGoes ==
  ASSUME TypeOK, Live, Ahead, active \in Passes, judging = "none", nth \in Index,
         NEW where \in {"thread", "room", "slot", "call"},
         Suspend(Here, score[active], nth, where)
  PROVE  Goes
BY HereSteps, SuspendSuspends DEF Goes

LEMMA StopHereEnds ==
  ASSUME TypeOK, Live, Ahead, active \in Passes, judging = "none", nth \in Index, stop, StopHere
  PROVE  Ends
<1>1. score[active][nth] = "none"
  <2>1. nth \in Nat /\ ~(nth < nth)
    BY IndexFinite
  <2> QED BY <2>1, HereSteps DEF Upto
<1> QED BY <1>1, HereSteps, StopEnds DEF StopHere

\* The trial's own call, ended by what is told of its request.
LEMMA EndCallSteps ==
  ASSUME TypeOK, Live, Ahead, active \in Passes, nth \in Index,
         NEW o \in Ways, NEW r \in BOOLEAN, ~Contradicts(o, r),
         Tells(o, r, wire[active][nth])
  PROVE  /\ EndCall(o, r) \in Calls
         /\ StepCalls(EndCall(o, r)) /\ NoneOpen(EndCall(o, r), nth + 1)
         /\ LegalEnding(Unwritten(o, r))
<1> DEFINE c == EndCall(o, r)
<1>1. /\ Here \in Calls /\ nth \in Nat /\ active # None /\ NoCall # OpenCall
      /\ \A t \in Index : t \in Nat
      /\ \A t \in Index : wire[active][t] \in {"never", "left", "replied", "answered"}
  BY PassAssumption, RowTypes, IndexFinite DEF TypeOK, Calls, Here, None
<1>2. /\ Ended(o, r) \in CallRecords \ {OpenCall}
      /\ Unwritten(o, r) \in CallRecords \ {OpenCall}
      /\ Admits(OpenCall, Ended(o, r)) /\ Admits(OpenCall, Unwritten(o, r))
  BY RowTypes, EndingsPass
<1>3. BornOut(Ended(o, r), wire[active][nth]) /\ BornOut(Unwritten(o, r), wire[active][nth])
  BY <1>1, EndedIsBornOut
<1>4. \A t \in Index : c[t] = IF t = nth /\ Here[t] = OpenCall THEN Ended(o, r) ELSE Here[t]
  BY DEF EndCall
<1>5. c \in Calls
  BY <1>1, <1>2 DEF EndCall, Calls
<1> HIDE DEF c
<1>6. StepCalls(c)
  BY <1>2, <1>3, <1>4 DEF StepCalls, Here
<1>7. NoneOpen(c, nth + 1)
  <2> SUFFICES ASSUME NEW t \in Index PROVE c[t] # OpenCall /\ (t >= nth + 1 => c[t] = NoCall)
    BY DEF NoneOpen
  <2>1. CASE t < nth
    BY <1>1, <1>2, <1>4, <2>1 DEF Ahead, Here
  <2>2. CASE t = nth
    BY <1>1, <1>2, <1>4, <2>2
  <2>3. CASE t > nth
    BY <1>1, <1>2, <1>4, <2>3 DEF Ahead, Here
  <2> QED BY <1>1, <2>1, <2>2, <2>3
<1>8. ASSUME NEW t \in Index, call[active][t] = OpenCall PROVE t = nth
  BY <1>1, <1>8 DEF Ahead
<1>9. LegalEnding(Unwritten(o, r))
  BY <1>2, <1>3, <1>8 DEF LegalEnding
<1> QED BY <1>5, <1>6, <1>7, <1>9 DEF c

\* What the task takes the request's ending to be is what became of it.
LEMMA StagesTell ==
  ASSUME TypeOK, Live, Ahead, Wires, active \in Passes, at = "call", nth \in Index
  PROVE  /\ judging \in Verdicts \ {"mute"} =>
              /\ OutcomeOf(judging) \in Ways /\ Replied(judging) \in BOOLEAN
              /\ ~Contradicts(OutcomeOf(judging), Replied(judging))
              /\ Tells(OutcomeOf(judging), Replied(judging), wire[active][nth])
         /\ judging = "raised" =>
              /\ ~Contradicts("failed", wire[active][nth] = "replied")
              /\ Tells("failed", wire[active][nth] = "replied", wire[active][nth])
         /\ judging \notin Over =>
              /\ Replied(judging) \in BOOLEAN
              /\ ~Contradicts("stopped", Replied(judging))
              /\ Tells("stopped", Replied(judging), wire[active][nth])
<1>1. /\ WireAt(wire[active][nth])
      /\ wire[active][nth] \in {"never", "left", "replied", "answered"}
      /\ judging \in Stages \ {"none"}
  BY DEF Wires, TypeOK, Live
<1>2. judging = "ready" => wire[active][nth] = "never"
  <2>1. active # None /\ nth = nth
    BY PassAssumption DEF None
  <2> QED BY <2>1 DEF Ahead, Wires
<1>3. CASE judging \in Verdicts \ {"mute"}
  BY <1>1, <1>3 DEF WireAt, Verdicts, Over, OutcomeOf, Replied, Ways, Outcomes, Contradicts, Tells
<1>4. CASE judging = "raised"
  BY <1>1, <1>4 DEF WireAt, Verdicts, Over, Outcomes, Contradicts, Tells
<1>5. CASE judging \notin Over
  <2>1. judging \in {"ready", "connecting", "sent", "replying"}
    BY <1>1, <1>5 DEF Stages
  <2> QED BY <1>1, <1>2, <1>5, <2>1 DEF WireAt, Verdicts, Over, Replied, Outcomes, Contradicts, Tells
<1> QED BY <1>3, <1>4, <1>5 DEF Over

\* A mute trial has no call to end.
LEMMA MuteEndsNothing ==
  ASSUME TypeOK, Live, Ahead, active \in Passes, judging = "mute", NEW o, NEW r
  PROVE  EndCall(o, r) = Here
<1>1. /\ Here = [t \in Index |-> Here[t]] /\ active # None /\ NoCall # OpenCall
  BY PassAssumption, RowTypes DEF TypeOK, Here, None
<1>2. \A t \in Index : t = nth => Here[t] # OpenCall
  BY <1>1 DEF Ahead, Here
<1> QED BY <1>1, <1>2 DEF EndCall

LEMMA BeginTurns ==
  ASSUME TypeOK, Live, Ahead, active \in Passes, Begin
  PROVE  Ends \/ Goes
<1>1. nth = 0 /\ judging = "none"
  BY DEF Live, Begin
<1>2. /\ Here \in Calls /\ score[active] \in Marks
      /\ StepCalls(Here) /\ NoneOpen(Here, 1) /\ Upto(score[active], 0)
  BY <1>1, HereSteps
<1>3. Upto(score[active], 1)
  BY <1>2, IndexFinite DEF Upto, Index
<1>4. 1 \in 1..(Len(Trials) + 1)
  BY IndexFinite
<1>5. Onward(Here, score[active], 1) \/ Fails(Here, score[active])
  BY DEF Begin
<1> QED BY <1>2, <1>3, <1>4, <1>5, OnwardTurns, FailsEnds

LEMMA ThreadDoneTurns ==
  ASSUME TypeOK, Live, Ahead, active \in Passes, ThreadDone
  PROVE  Ends \/ Goes
<1>1. nth \in Index /\ judging = "none"
  BY DEF Live, ThreadDone, TypeOK
<1> QED BY <1>1, HereSteps, WriteScoreTurns DEF ThreadDone

LEMMA WokenTurns ==
  ASSUME TypeOK, Live, Ahead, active \in Passes, Woken
  PROVE  Ends \/ Goes
<1>1. nth \in Index /\ judging = "none"
  BY DEF Live, Woken, TypeOK
<1>2. CASE Suspend(Here, score[active], nth, "slot")
  BY <1>1, <1>2, SuspendGoes
<1>3. CASE Suspend(Here, score[active], nth, "call")
  BY <1>1, <1>3, SuspendGoes
<1>4. CASE WriteScore(Here, "gap")
  BY <1>1, <1>4, HereSteps, WriteScoreTurns
<1>5. CASE stop /\ StopHere
  BY <1>1, <1>5, StopHereEnds
<1> QED BY <1>2, <1>3, <1>4, <1>5 DEF Woken

LEMMA InSlotTurns ==
  ASSUME TypeOK, Live, Ahead, active \in Passes, InSlot
  PROVE  Ends \/ Goes
<1>1. nth \in Index /\ judging = "none"
  BY DEF Live, InSlot, TypeOK
<1>2. CASE Suspend(Here, score[active], nth, "call")
  BY <1>1, <1>2, SuspendGoes
<1>3. CASE WriteScore(Here, "gap")
  BY <1>1, <1>3, HereSteps, WriteScoreTurns
<1>4. CASE stop /\ StopHere
  BY <1>1, <1>4, StopHereEnds
<1> QED BY <1>2, <1>3, <1>4 DEF InSlot
\* The rows a verdict leaves when its write succeeds, and the row the close
\* writes when it did not.
LEMMA VerdictSteps ==
  ASSUME TypeOK, Live, Ahead, Wires, active \in Passes, at = "call", nth \in Index,
         judging \in Verdicts
  PROVE  LET c == EndCall(OutcomeOf(judging), Replied(judging))
         IN  /\ c \in Calls /\ StepCalls(c) /\ NoneOpen(c, nth + 1)
             /\ Here[nth] = OpenCall =>
                  /\ LegalEnding(Unwritten(OutcomeOf(judging), Replied(judging)))
                  /\ Unwritten(OutcomeOf(judging), Replied(judging)) \in CallRecords
<1>1. CASE judging = "mute"
  <2>1. EndCall(OutcomeOf(judging), Replied(judging)) = Here
    BY <1>1, MuteEndsNothing
  <2>2. Here[nth] # OpenCall
    <3>1. active # None /\ NoCall # OpenCall
      BY PassAssumption, RowTypes DEF None
    <3> QED BY <1>1, <3>1 DEF Ahead, Here
  <2> QED BY <1>1, <2>1, <2>2, HereSteps
<1>2. CASE judging # "mute"
  <2> DEFINE o == OutcomeOf(judging)
             r == Replied(judging)
  <2>1. o \in Ways /\ r \in BOOLEAN /\ ~Contradicts(o, r) /\ Tells(o, r, wire[active][nth])
    BY <1>2, StagesTell
  <2> HIDE DEF o, r
  <2>2. /\ EndCall(o, r) \in Calls
        /\ StepCalls(EndCall(o, r)) /\ NoneOpen(EndCall(o, r), nth + 1)
        /\ LegalEnding(Unwritten(o, r))
    BY <2>1, EndCallSteps
  <2> QED BY <2>1, <2>2, RowTypes DEF o, r
<1> QED BY <1>1, <1>2

LEMMA SettleTurns ==
  ASSUME TypeOK, Live, Ahead, Wires, active \in Passes, Settle
  PROVE  Ends \/ Goes
<1>1. nth \in Index /\ at = "call" /\ judging \in Verdicts
  BY DEF Live, Settle
<1> DEFINE c == EndCall(OutcomeOf(judging), Replied(judging))
           record == Unwritten(OutcomeOf(judging), Replied(judging))
<1>2. /\ c \in Calls /\ StepCalls(c) /\ NoneOpen(c, nth + 1)
      /\ Here[nth] = OpenCall => LegalEnding(record) /\ record \in CallRecords
  BY <1>1, VerdictSteps
<1>3. \/ \E mark \in {"scored", "gap"} : WriteScore(c, mark)
      \/ Here[nth] = OpenCall /\ Close(Here, score[active], "failed", record)
  BY DEF Settle
<1> HIDE DEF c, record
<1>4. CASE \E mark \in {"scored", "gap"} : WriteScore(c, mark)
  BY <1>1, <1>2, <1>4, WriteScoreTurns
<1>5. CASE Here[nth] = OpenCall /\ Close(Here, score[active], "failed", record)
  <2>1. Here \in Calls /\ score[active] \in Marks /\ StepCalls(Here)
    BY DEF TypeOK, Calls, Marks, Here, StepCalls
  <2>2. Closes(Here, score[active], "failed", record)
    BY <1>2, <1>5, <2>1, CloseCloses DEF PassOutcomes
  <2>3. Fits("failed", score[active])
    BY DEF Fits
  <2> QED BY <1>2, <1>5, <2>1, <2>2, <2>3 DEF Ends
<1> QED BY <1>3, <1>4, <1>5

LEMMA JudgeRaisedEnds ==
  ASSUME TypeOK, Live, Ahead, Wires, active \in Passes, JudgeRaised
  PROVE  Ends
<1>1. nth \in Index /\ at = "call" /\ judging = "raised"
  BY DEF Live, JudgeRaised
<1> DEFINE r == wire[active][nth] = "replied"
<1>2. ~Contradicts("failed", r) /\ Tells("failed", r, wire[active][nth])
  BY <1>1, StagesTell
<1>3. \/ Close(EndCall("failed", r), score[active], "failed", FoundOpen)
      \/ Close(Here, score[active], "failed", Unwritten("failed", r))
  BY DEF JudgeRaised
<1>4. "failed" \in Ways /\ r \in BOOLEAN
  BY DEF Ways, Outcomes
<1> HIDE DEF r
<1>5. /\ EndCall("failed", r) \in Calls /\ StepCalls(EndCall("failed", r))
      /\ LegalEnding(Unwritten("failed", r)) /\ Unwritten("failed", r) \in CallRecords
  BY <1>1, <1>2, <1>4, EndCallSteps, RowTypes
<1>6. Here \in Calls /\ score[active] \in Marks /\ StepCalls(Here)
  BY DEF TypeOK, Calls, Marks, Here, StepCalls
<1>7. Fits("failed", score[active])
  BY DEF Fits
<1>8. CASE Close(EndCall("failed", r), score[active], "failed", FoundOpen)
  <2>1. Closes(EndCall("failed", r), score[active], "failed", FoundOpen)
    BY <1>5, <1>6, <1>8, CloseCloses, RowTypes DEF PassOutcomes
  <2> QED BY <1>5, <1>6, <1>7, <2>1, FoundOpenLegal, RowTypes DEF Ends
<1>9. CASE Close(Here, score[active], "failed", Unwritten("failed", r))
  <2>1. Closes(Here, score[active], "failed", Unwritten("failed", r))
    BY <1>5, <1>6, <1>9, CloseCloses DEF PassOutcomes
  <2> QED BY <1>5, <1>6, <1>7, <2>1 DEF Ends
<1> QED BY <1>3, <1>8, <1>9

\* A close by the cut, whatever rows it leaves.
LEMMA CutCloseEnds ==
  ASSUME TypeOK, Live, active \in Passes, stop, active \in cut',
         NEW c \in Calls, NEW s \in Marks, NEW record \in CallRecords,
         StepCalls(c), LegalEnding(record), Close(c, s, "stopped", record)
  PROVE  Ends
<1>1. Closes(c, s, "stopped", record)
  BY CloseCloses DEF PassOutcomes
<1>2. Fits("stopped", s)
  BY PassAssumption DEF Fits, Live, None
<1> QED BY <1>1, <1>2 DEF Ends

LEMMA CutEnds ==
  ASSUME TypeOK, Live, Ahead, Wires, active \in Passes, Cut
  PROVE  Ends
<1>1. stop /\ active \in cut'
  BY DEF Cut, Live
<1>2. Here \in Calls /\ score[active] \in Marks /\ StepCalls(Here)
  BY DEF TypeOK, Calls, Marks, Here, StepCalls
<1>3. FoundOpen \in CallRecords /\ LegalEnding(FoundOpen)
  BY RowTypes, FoundOpenLegal
<1>4. CASE Close(Here, score[active], "stopped", FoundOpen)
  BY <1>1, <1>2, <1>3, <1>4, CutCloseEnds
<1>5. CASE at = "call"
  <2>1. nth \in Index
    BY <1>5 DEF Live
  <2>2. ASSUME NEW o \in Ways, NEW r \in BOOLEAN, ~Contradicts(o, r),
               Tells(o, r, wire[active][nth]),
               \/ Close(EndCall(o, r), score[active], "stopped", FoundOpen)
               \/ Close(Here, score[active], "stopped", Unwritten(o, r))
        PROVE  Ends
    <3>1. /\ EndCall(o, r) \in Calls /\ StepCalls(EndCall(o, r))
          /\ LegalEnding(Unwritten(o, r)) /\ Unwritten(o, r) \in CallRecords
      BY <2>1, <2>2, EndCallSteps, RowTypes
    <3> QED BY <1>1, <1>2, <1>3, <2>2, <3>1, CutCloseEnds
  <2>3. CASE judging \notin Over
    <3>1. /\ Replied(judging) \in BOOLEAN /\ "stopped" \in Ways
          /\ ~Contradicts("stopped", Replied(judging))
          /\ Tells("stopped", Replied(judging), wire[active][nth])
      BY <1>5, <2>1, <2>3, StagesTell DEF Ways, Outcomes
    <3>2. \/ Close(EndCall("stopped", Replied(judging)), score[active], "stopped", FoundOpen)
          \/ Close(Here, score[active], "stopped", Unwritten("stopped", Replied(judging)))
      BY <1>5, <2>3 DEF Cut, Over
    <3> QED BY <2>2, <3>1, <3>2
  <2>4. CASE judging = "raised"
    <3> DEFINE r == wire[active][nth] = "replied"
    <3>1. r \in BOOLEAN /\ "failed" \in Ways /\ ~Contradicts("failed", r)
          /\ Tells("failed", r, wire[active][nth])
      BY <1>5, <2>1, <2>4, StagesTell DEF Ways, Outcomes
    <3>2. \/ Close(EndCall("failed", r), score[active], "stopped", FoundOpen)
          \/ Close(Here, score[active], "stopped", Unwritten("failed", r))
      BY <1>5, <2>4 DEF Cut, Over, Verdicts
    <3> HIDE DEF r
    <3> QED BY <2>2, <3>1, <3>2
  <2>5. CASE judging \in Verdicts
    <3> DEFINE c == EndCall(OutcomeOf(judging), Replied(judging))
               record == Unwritten(OutcomeOf(judging), Replied(judging))
               s(mark) == [score[active] EXCEPT ![nth] = mark]
    <3>1. /\ c \in Calls /\ StepCalls(c)
          /\ Here[nth] = OpenCall => LegalEnding(record) /\ record \in CallRecords
      BY <1>5, <2>1, <2>5, VerdictSteps
    <3>2. \A mark \in {"scored", "gap"} : s(mark) \in Marks
      BY <1>2 DEF Marks
    <3>3. \/ \E mark \in {"scored", "gap"} : Close(c, s(mark), "stopped", FoundOpen)
          \/ Close(c, score[active], "stopped", FoundOpen)
          \/ Here[nth] = OpenCall /\ Close(Here, score[active], "stopped", record)
      BY <1>5, <2>5 DEF Cut, Over, Verdicts
    <3> HIDE DEF c, record, s
    <3> QED BY <1>1, <1>2, <1>3, <3>1, <3>2, <3>3, CutCloseEnds
  <2> QED BY <2>3, <2>4, <2>5 DEF Over
<1> QED BY <1>4, <1>5 DEF Cut

LEMMA ActiveWhileAt ==
  ASSUME TypeOK, Live, at # "none"
  PROVE  active \in Passes
BY DEF TypeOK, Live

\* What a step of the task, or the cut, may do.
LEMMA PassStepTurns ==
  ASSUME TypeOK, Live, Ahead, Wires, PassStep
  PROVE  active \in Passes /\ (Ends \/ Goes) /\ UNCHANGED <<proc, stop, wire, cut, asked>>
<1>1. active \in Passes
  <2>1. at # "none"
    BY DEF PassStep, Begin, ThreadDone, Woken, InSlot, Settle, JudgeRaised
  <2> QED BY <2>1, ActiveWhileAt
<1>2. UNCHANGED <<proc, stop, wire, cut, asked>>
  BY DEF PassStep, Begin, ThreadDone, Woken, InSlot, Settle, JudgeRaised
<1>3. Ends \/ Goes
  BY <1>1, BeginTurns, ThreadDoneTurns, WokenTurns, InSlotTurns, SettleTurns, JudgeRaisedEnds
     DEF PassStep
<1> QED BY <1>1, <1>2, <1>3

LEMMA CutTurns ==
  ASSUME TypeOK, Live, Ahead, Wires, Cut
  PROVE  /\ active \in Passes /\ Ends /\ UNCHANGED <<proc, stop, wire, asked>>
         /\ cut' = cut \cup {active}
<1>1. active \in Passes
  BY ActiveWhileAt DEF Cut
<1> QED BY <1>1, CutEnds DEF Cut
-----------------------------------------------------------------------------
(***************************************************************************)
(* The inductive invariant, and what each step does to the rows.           *)
(***************************************************************************)
SealOk(p) ==
  /\ pass[p].outcome \notin {"none", "open"} =>
       /\ \A t \in Index : call[p][t] # OpenCall
       /\ pass[p].counts = PassCounts(call[p], score[p])
  /\ pass[p].outcome = "finished" => \A t \in Index : score[p][t] # "none"
  /\ pass[p].outcome = "stopped" =>
       p \in asked /\ (p \in cut \/ \E t \in Index : score[p][t] = "none")

Sealing == \A p \in Passes : SealOk(p)

IInv == TypeOK /\ Live /\ Ahead /\ Wires /\ Sealing

RowMoves(p, t) ==
  \/ call'[p][t] = call[p][t]
  \/ call[p][t] = NoCall /\ call'[p][t] = OpenCall
  \/ /\ call[p][t] = OpenCall /\ call'[p][t] \in CallRecords \ {OpenCall}
     /\ Admits(OpenCall, call'[p][t]) /\ BornOut(call'[p][t], wire[p][t])

RowsMove == \A p \in Passes, t \in Index : RowMoves(p, t)

\* Rows that move so stay borne out by a history that does not change.
RowsBornOut ==
  \A p \in Passes, t \in Index :
    /\ call[p][t] = NoCall => wire[p][t] = "never"
    /\ BornOut(call[p][t], wire[p][t])

LEMMA RowsStayBornOut ==
  ASSUME RowsBornOut, RowsMove, wire' = wire
  PROVE  RowsBornOut'
<1> SUFFICES ASSUME NEW p \in Passes, NEW t \in Index
             PROVE  /\ call'[p][t] = NoCall => wire[p][t] = "never"
                    /\ BornOut(call'[p][t], wire[p][t])
  BY DEF RowsBornOut, BornOut
<1>1. /\ call[p][t] = NoCall => wire[p][t] = "never"
      /\ BornOut(call[p][t], wire[p][t])
  BY DEF RowsBornOut
<1>2. RowMoves(p, t)
  BY DEF RowsMove
<1>3. NoCall \notin CallRecords /\ OpenCall \in CallRecords
  BY PassAssumption, RowTypes
<1>4. BornOut(OpenCall, wire[p][t])
  BY OpenIsBornOut
<1> QED BY <1>1, <1>2, <1>3, <1>4 DEF RowMoves

LEMMA EndsMoves ==
  ASSUME IInv, active \in Passes, Ends
  PROVE  RowsMove
<1>1. PICK c \in Calls, s \in Marks, outcome \in {"finished", "stopped", "failed"},
           record \in CallRecords :
        StepCalls(c) /\ LegalEnding(record) /\ Closes(c, s, outcome, record)
  BY DEF Ends
<1>2. ASSUME NEW t \in Index
      PROVE  call'[active][t] = c[t] \/ (c[t] = OpenCall /\ call'[active][t] = record)
  <2>1. CASE call'[active] = c
    BY <2>1
  <2>2. CASE call'[active] = CloseCalls(c, record)
    BY <2>2 DEF CloseCalls
  <2> QED BY <1>1, <2>1, <2>2 DEF Closes
<1>3. ASSUME NEW t \in Index PROVE RowMoves(active, t)
  <2>1. \/ c[t] = call[active][t]
        \/ /\ call[active][t] = OpenCall
           /\ c[t] \in CallRecords \ {OpenCall}
           /\ Admits(OpenCall, c[t])
           /\ BornOut(c[t], wire[active][t])
    BY <1>1 DEF StepCalls
  <2>2. /\ record \in CallRecords \ {OpenCall} /\ Admits(OpenCall, record)
        /\ call[active][t] = OpenCall => BornOut(record, wire[active][t])
    BY <1>1 DEF LegalEnding
  <2>3. CASE call'[active][t] = c[t]
    BY <2>1, <2>3 DEF RowMoves
  <2>4. CASE c[t] = OpenCall /\ call'[active][t] = record
    BY <2>1, <2>2, <2>4 DEF RowMoves
  <2> QED BY <1>2, <2>3, <2>4
<1>4. ASSUME NEW p \in Passes, NEW t \in Index, p # active PROVE RowMoves(p, t)
  BY <1>1, <1>4 DEF Closes, OthersStay, RowMoves
<1> QED BY <1>3, <1>4 DEF RowsMove

LEMMA GoesMoves ==
  ASSUME IInv, active \in Passes, Goes
  PROVE  RowsMove
<1>1. PICK c \in Calls, s \in Marks, n \in Index, where \in {"thread", "room", "slot", "call"} :
        StepCalls(c) /\ Suspends(c, s, n, where)
  BY DEF Goes
<1>2. ASSUME NEW t \in Index PROVE RowMoves(active, t)
  <2>1. call'[active][t] = c[t]
    BY <1>1 DEF Suspends
  <2> QED BY <1>1, <2>1 DEF StepCalls, RowMoves
<1>3. ASSUME NEW p \in Passes, NEW t \in Index, p # active PROVE RowMoves(p, t)
  BY <1>1, <1>3 DEF Suspends, OthersStay, RowMoves
<1> QED BY <1>2, <1>3 DEF RowsMove

LEMMA EndsKeep ==
  ASSUME IInv, active \in Passes, Ends, UNCHANGED <<proc, stop, wire, asked>>,
         cut' \in SUBSET Passes, cut \subseteq cut'
  PROVE  IInv'
<1>1. PICK c \in Calls, s \in Marks, outcome \in {"finished", "stopped", "failed"},
           record \in CallRecords :
        /\ StepCalls(c) /\ LegalEnding(record) /\ Fits(outcome, s)
        /\ Closes(c, s, outcome, record)
  BY DEF Ends
<1>2. /\ Typed /\ OthersStay /\ score'[active] = s
      /\ active' = None /\ at' = "none" /\ nth' = 0 /\ judging' = "none"
  BY <1>1 DEF Closes
<1>3. \/ /\ pass'[active].outcome = outcome /\ pass'[active].counts = PassCounts(call'[active], s)
         /\ \A t \in Index : call'[active][t] # OpenCall
      \/ pass'[active].outcome = "open"
  <2>1. CASE /\ call'[active] = CloseCalls(c, record)
             /\ pass'[active] = [outcome |-> outcome, counts |-> PassCounts(CloseCalls(c, record), s)]
    <3>1. record # OpenCall
      BY <1>1 DEF LegalEnding
    <3>2. \A t \in Index : CloseCalls(c, record)[t] # OpenCall
      BY <3>1 DEF CloseCalls
    <3> QED BY <2>1, <3>2
  <2>2. CASE pass'[active] = pass[active]
    BY <2>2, PassAssumption DEF IInv, Live, None
  <2> QED BY <1>1, <2>1, <2>2 DEF Closes
<1>4. TypeOK'
  BY <1>2, PassAssumption DEF IInv, TypeOK, Typed, Calls, Marks, Sealed, Stages, None
<1>5. Live'
  BY <1>2 DEF IInv, Live, None
<1>6. Ahead'
  <2>1. ASSUME NEW p \in Passes, NEW t \in Index, pass'[p].outcome = "none"
        PROVE  call'[p][t] = NoCall /\ score'[p][t] = "none"
    BY <1>2, <1>3, <2>1 DEF IInv, Ahead, OthersStay
  <2> QED BY <1>2, <2>1 DEF Ahead
<1>7. Wires'
  <2>1. RowsBornOut'
    BY EndsMoves, RowsStayBornOut DEF IInv, Wires, RowsBornOut
  <2> QED BY <1>2, <2>1 DEF Wires, RowsBornOut
<1>8. ASSUME NEW p \in Passes PROVE SealOk(p)'
  <2>1. SealOk(p)
    BY DEF IInv, Sealing
  <2>2. CASE p # active
    <3>1. call'[p] = call[p] /\ score'[p] = score[p] /\ pass'[p] = pass[p]
      BY <1>2, <2>2 DEF OthersStay
    <3> QED BY <2>1, <3>1 DEF SealOk, PassCounts
  <2>3. CASE p = active
    <3>1. asked' = asked /\ score'[p] = s
      BY <1>2, <2>3
    <3>2. CASE pass'[active].outcome = "open"
      BY <2>3, <3>2 DEF SealOk
    <3>3. CASE /\ pass'[active].outcome = outcome
               /\ pass'[active].counts = PassCounts(call'[active], s)
               /\ \A t \in Index : call'[active][t] # OpenCall
      <4>1. Fits(outcome, s)
        BY <1>1
      <4>2. pass'[p].counts = PassCounts(call'[p], score'[p])
        BY <2>3, <3>1, <3>3
      <4>3. pass'[p].counts = PassCounts(call[p], score[p])'
        BY <4>2 DEF PassCounts
      <4>4. \A t \in Index : call'[p][t] # OpenCall
        BY <2>3, <3>3
      <4>5. outcome = "finished" => \A t \in Index : score'[p][t] # "none"
        BY <3>1, <4>1 DEF Fits
      <4>6. outcome = "stopped" =>
              p \in asked' /\ (p \in cut' \/ \E t \in Index : score'[p][t] = "none")
        BY <2>3, <3>1, <4>1 DEF Fits
      <4> QED BY <2>3, <3>3, <4>3, <4>4, <4>5, <4>6 DEF SealOk
    <3> QED BY <1>3, <3>2, <3>3
  <2> QED BY <2>2, <2>3
<1>9. Sealing'
  BY <1>8 DEF Sealing
<1> QED BY <1>4, <1>5, <1>6, <1>7, <1>9 DEF IInv

LEMMA GoesKeep ==
  ASSUME IInv, active \in Passes, Goes, UNCHANGED <<proc, stop, wire, cut, asked>>
  PROVE  IInv'
<1>1. PICK c \in Calls, s \in Marks, n \in Index, where \in {"thread", "room", "slot", "call"} :
        StepCalls(c) /\ NoneOpen(c, n) /\ Upto(s, n) /\ Suspends(c, s, n, where)
  BY DEF Goes
<1>2. /\ Typed /\ OthersStay /\ call'[active] = c /\ score'[active] = s
      /\ pass'[active] = pass[active]
      /\ at' = where /\ nth' = n /\ active' = active
      /\ judging' = IF where = "call" THEN "ready" ELSE "none"
  BY <1>1 DEF Suspends
<1>3. active # None /\ n \in Nat /\ at # "none" /\ proc # "down" /\ pass[active].outcome = "open"
  BY PassAssumption, IndexFinite DEF None, IInv, Live
<1>4. TypeOK'
  BY <1>2, <1>3 DEF IInv, TypeOK, Typed, Calls, Marks, Sealed, Stages
<1>5. Live'
  BY <1>2, <1>3 DEF IInv, Live
<1>6. Ahead'
  <2>1. ASSUME NEW p \in Passes, NEW t \in Index, pass'[p].outcome = "none"
        PROVE  call'[p][t] = NoCall /\ score'[p][t] = "none"
    BY <1>2, <1>3, <2>1 DEF IInv, Ahead, OthersStay
  <2>2. ASSUME NEW t \in Index
        PROVE  /\ t < n <=> s[t] # "none"
               /\ t > n => c[t] = NoCall
               /\ t < n => c[t] # OpenCall
               /\ t = n => c[t] = NoCall
    <3>1. t \in Nat
      BY IndexFinite
    <3>2. /\ c[t] # OpenCall /\ (t >= n => c[t] = NoCall)
          /\ t < n <=> s[t] # "none"
      BY <1>1 DEF NoneOpen, Upto
    <3> QED BY <1>3, <3>1, <3>2
  <2>3. judging' \notin Asked /\ judging' # "raised"
    BY <1>2 DEF Asked
  <2> QED BY <1>2, <2>1, <2>2, <2>3 DEF Ahead
<1>7. Wires'
  <2>1. RowsBornOut'
    BY GoesMoves, RowsStayBornOut DEF IInv, Wires, RowsBornOut
  <2>2. judging' \in {"ready", "none"}
    BY <1>2
  <2> QED BY <2>1, <2>2 DEF Wires, RowsBornOut, WireAt
<1>8. ASSUME NEW p \in Passes PROVE SealOk(p)'
  <2>1. SealOk(p)
    BY DEF IInv, Sealing
  <2>2. CASE p # active
    <3>1. call'[p] = call[p] /\ score'[p] = score[p] /\ pass'[p] = pass[p]
      BY <1>2, <2>2 DEF OthersStay
    <3> QED BY <2>1, <3>1 DEF SealOk, PassCounts
  <2>3. CASE p = active
    BY <1>2, <1>3, <2>3 DEF SealOk
  <2> QED BY <2>2, <2>3
<1>9. Sealing'
  BY <1>8 DEF Sealing
<1> QED BY <1>4, <1>5, <1>6, <1>7, <1>9 DEF IInv
LEMMA OneEntry ==
  ASSUME NEW S, NEW T, NEW V, NEW f \in [S -> [T -> V]], NEW a \in S, NEW b \in T, NEW x \in V
  PROVE  LET g == [f EXCEPT ![a][b] = x]
         IN  /\ g \in [S -> [T -> V]] /\ g[a][b] = x
             /\ \A p \in S : p # a => g[p] = f[p]
             /\ \A t \in T : t # b => g[a][t] = f[a][t]
<1>1. [f EXCEPT ![a][b] = x] = [f EXCEPT ![a] = [f[a] EXCEPT ![b] = x]]
  OBVIOUS
<1>2. f[a] \in [T -> V]
  OBVIOUS
<1>3. /\ [f[a] EXCEPT ![b] = x] \in [T -> V] /\ [f[a] EXCEPT ![b] = x][b] = x
      /\ \A t \in T : t # b => [f[a] EXCEPT ![b] = x][t] = f[a][t]
  BY <1>2
<1> DEFINE h == [f[a] EXCEPT ![b] = x]
<1> HIDE DEF h
<1>4. [f EXCEPT ![a] = h] \in [S -> [T -> V]] /\ [f EXCEPT ![a] = h][a] = h
      /\ \A p \in S : p # a => [f EXCEPT ![a] = h][p] = f[p]
  BY <1>3 DEF h
<1> QED BY <1>1, <1>3, <1>4 DEF h

LEMMA StayingRowsMove ==
  ASSUME call' = call
  PROVE  RowsMove
BY DEF RowsMove, RowMoves

\* A seal stands while its pass's rows and outcome do.
LEMMA SealStays ==
  ASSUME NEW p \in Passes, SealOk(p), pass'[p] = pass[p], call'[p] = call[p],
         score'[p] = score[p], asked \subseteq asked', cut \subseteq cut'
  PROVE  SealOk(p)'
BY DEF SealOk, PassCounts

LEMMA StartKeeps ==
  ASSUME IInv, NEW p \in Passes, start_scoring(p)
  PROVE  IInv' /\ RowsMove
<1>1. /\ active = None /\ at = "none" /\ judging = "none" /\ p # None /\ pass[p].outcome = "none"
      /\ pass' = [pass EXCEPT ![p].outcome = "open"]
      /\ active' = p /\ stop' = FALSE /\ at' = "start" /\ nth' = 0
      /\ UNCHANGED <<call, score, proc, judging, wire, cut, asked>> /\ proc = "up"
  BY PassAssumption DEF start_scoring, IInv, Live, None
<1>2. /\ pass \in [Passes -> Sealed]
      /\ pass'[p].outcome = "open"
      /\ \A q \in Passes : q # p => pass'[q] = pass[q]
  BY <1>1 DEF IInv, TypeOK, Sealed
<1>3. pass' \in [Passes -> Sealed]
  BY <1>1, <1>2 DEF Sealed, PassOutcomes
<1>4. TypeOK'
  BY <1>1, <1>3 DEF IInv, TypeOK, Sealed
<1>5. Live'
  BY <1>1, <1>2 DEF IInv, Live
<1>6. Ahead'
  <2>1. ASSUME NEW q \in Passes, NEW t \in Index, pass'[q].outcome = "none"
        PROVE  call'[q][t] = NoCall /\ score'[q][t] = "none"
    BY <1>1, <1>2, <2>1 DEF IInv, Ahead
  <2>2. ASSUME NEW t \in Index PROVE t > 0 /\ call[p][t] = NoCall /\ score[p][t] = "none"
    BY <1>1, IndexFinite DEF IInv, Ahead, Index
  <2>3. \A t \in Index : ~(t < 0) /\ t # 0
    BY <2>2, IndexFinite DEF Index
  <2> QED BY <1>1, <2>1, <2>2, <2>3 DEF Ahead
<1>7. Wires'
  BY <1>1 DEF IInv, Wires, BornOut
<1>8. Sealing'
  <2>1. ASSUME NEW q \in Passes PROVE SealOk(q)'
    <3>1. CASE q = p
      BY <1>2, <3>1 DEF SealOk
    <3>2. CASE q # p
      BY <1>1, <1>2, <3>2, SealStays DEF IInv, Sealing
    <3> QED BY <3>1, <3>2
  <2> QED BY <2>1 DEF Sealing
<1> QED BY <1>1, <1>4, <1>5, <1>6, <1>7, <1>8, StayingRowsMove DEF IInv

LEMMA StopKeeps ==
  ASSUME IInv, stop_scoring
  PROVE  IInv' /\ RowsMove
<1>1. /\ UNCHANGED <<pass, call, score, proc, active, at, nth, judging, wire, cut>>
      /\ stop' = TRUE /\ asked' = asked \cup {active} /\ active # None
  BY DEF stop_scoring, database
<1>2. TypeOK'
  BY <1>1 DEF IInv, TypeOK
<1>3. Live' /\ Ahead' /\ Wires'
  BY <1>1 DEF IInv, Live, Ahead, Wires, BornOut, WireAt
<1>4. Sealing'
  BY <1>1, SealStays DEF IInv, Sealing
<1> QED BY <1>1, <1>2, <1>3, <1>4, StayingRowsMove DEF IInv

LEMMA ShutdownKeeps ==
  ASSUME IInv, Shutdown
  PROVE  IInv' /\ RowsMove
<1>1. /\ UNCHANGED <<pass, call, score, active, at, nth, judging, wire, cut>>
      /\ stop' = TRUE /\ proc' = "closing"
      /\ asked' = IF active = None THEN asked ELSE asked \cup {active}
  BY DEF Shutdown, database
<1>2. TypeOK'
  BY <1>1 DEF IInv, TypeOK
<1>3. Live' /\ Ahead' /\ Wires'
  BY <1>1 DEF IInv, Live, Ahead, Wires, BornOut, WireAt
<1>4. Sealing'
  BY <1>1, SealStays DEF IInv, Sealing
<1> QED BY <1>1, <1>2, <1>3, <1>4, StayingRowsMove DEF IInv

LEMMA JudgeStartsKeeps ==
  ASSUME IInv, JudgeStarts
  PROVE  IInv' /\ RowsMove
<1>1. /\ active \in Passes /\ nth \in Index /\ at = "call" /\ judging = "ready" /\ active # None
      /\ pass[active].outcome = "open"
      /\ call[active][nth] = NoCall /\ wire[active][nth] = "never"
      /\ NoCall # OpenCall /\ OpenCall \in CallRecords
  <2>1. judging = "ready" /\ at = "call" /\ nth \in Index
    BY DEF JudgeStarts, IInv, Live
  <2>2. active \in Passes /\ active # None
    BY <2>1, PassAssumption DEF IInv, Live, TypeOK, None
  <2>3. pass[active].outcome = "open" /\ call[active][nth] = NoCall
    BY <2>1, <2>2 DEF IInv, Live, Ahead
  <2>4. wire[active][nth] = "never"
    BY <2>1, <2>2, <2>3 DEF IInv, Wires
  <2> QED BY <2>1, <2>2, <2>3, <2>4, PassAssumption, RowTypes
<1>2. /\ UNCHANGED <<pass, score, proc, active, stop, at, nth, cut, asked, wire>>
      /\ \/ judging' \in {"mute", "raised"} /\ call' = call
         \/ judging' = "connecting" /\ call' = [call EXCEPT ![active][nth] = OpenCall]
  BY DEF JudgeStarts, onlyTheJudge
<1>3. /\ call' \in [Passes -> Calls]
      /\ \A p \in Passes : p # active => call'[p] = call[p]
      /\ \A t \in Index : t # nth => call'[active][t] = call[active][t]
      /\ judging' = "connecting" => call'[active][nth] = OpenCall
      /\ judging' # "connecting" => call'[active][nth] = NoCall
  <2>1. call \in [Passes -> [Index -> CallRecords \cup {NoCall}]]
    BY DEF IInv, TypeOK
  <2>2. CASE call' = call /\ judging' # "connecting"
    BY <1>1, <2>1, <2>2 DEF Calls
  <2>3. CASE judging' = "connecting" /\ call' = [call EXCEPT ![active][nth] = OpenCall]
    BY <1>1, <2>1, <2>3, OneEntry DEF Calls
  <2> QED BY <1>2, <2>2, <2>3
<1>4. judging' \in {"mute", "raised", "connecting"}
  BY <1>2
<1>5. TypeOK'
  BY <1>2, <1>3, <1>4 DEF IInv, TypeOK, Calls, Stages, Over, Verdicts
<1>6. Live'
  BY <1>1, <1>2, <1>4 DEF IInv, Live
<1>7. Ahead'
  <2>1. ASSUME NEW p \in Passes, NEW t \in Index, pass[p].outcome = "none"
        PROVE  call'[p][t] = NoCall /\ score[p][t] = "none"
    BY <1>1, <1>3, <2>1 DEF IInv, Ahead
  <2>2. ASSUME NEW t \in Index
        PROVE  /\ t < nth <=> score[active][t] # "none"
               /\ t > nth => call'[active][t] = NoCall
               /\ t < nth => call'[active][t] # OpenCall
    <3>1. t \in Nat /\ nth \in Nat
      BY <1>1, IndexFinite
    <3> QED BY <1>1, <1>3, <3>1 DEF IInv, Ahead
  <2>3. judging' \in Asked => judging' = "connecting"
    BY <1>4 DEF Asked
  <2>4. judging' \notin {"none", "ready"} /\ (judging' = "mute" => judging' # "connecting")
    BY <1>4
  <2> QED BY <1>2, <1>3, <2>1, <2>2, <2>3, <2>4 DEF Ahead
<1>8. RowsMove
  BY <1>1, <1>3 DEF RowsMove, RowMoves
<1>9. Wires'
  <2>1. RowsBornOut'
    BY <1>2, <1>8, RowsStayBornOut DEF IInv, Wires, RowsBornOut
  <2> QED BY <1>1, <1>2, <1>4, <2>1 DEF Wires, RowsBornOut, WireAt
<1>10. Sealing'
  <2>1. ASSUME NEW p \in Passes PROVE SealOk(p)'
    <3>1. CASE p = active
      BY <1>1, <1>2, <3>1 DEF SealOk
    <3>2. CASE p # active
      BY <1>2, <1>3, <3>2, SealStays DEF IInv, Sealing
    <3> QED BY <3>1, <3>2
  <2> QED BY <2>1 DEF Sealing
<1> QED BY <1>5, <1>6, <1>7, <1>8, <1>9, <1>10 DEF IInv

LEMMA JudgeMovesKeeps ==
  ASSUME IInv, JudgeMoves
  PROVE  IInv' /\ RowsMove
<1>1. /\ active \in Passes /\ nth \in Index /\ at = "call" /\ active # None
      /\ judging \in {"connecting", "sent", "replying"}
      /\ call[active][nth] = OpenCall /\ WireAt(wire[active][nth])
      /\ NoCall # OpenCall
  <2>1. judging \in {"connecting", "sent", "replying"}
    BY DEF JudgeMoves
  <2>2. at = "call" /\ nth \in Index
    BY <2>1 DEF IInv, Live
  <2>3. active \in Passes /\ active # None
    BY <2>2, PassAssumption DEF IInv, Live, TypeOK, None
  <2>4. call[active][nth] = OpenCall
    BY <2>1, <2>2, <2>3 DEF IInv, Ahead, Asked
  <2>5. WireAt(wire[active][nth])
    BY <2>2 DEF IInv, Wires
  <2> QED BY <2>1, <2>2, <2>3, <2>4, <2>5, PassAssumption, RowTypes
<1>2. /\ UNCHANGED <<pass, score, proc, active, stop, at, nth, cut, asked, call>>
      /\ judging' \in {"sent", "not_sent", "replying", "timed_out", "failed", "answered",
                       "cut_off", "raised"}
      /\ \/ wire' = wire
         \/ \E w \in {"left", "replied", "answered"} : wire' = [wire EXCEPT ![active][nth] = w]
  BY DEF JudgeMoves, onlyTheJudge, Became
<1>3. /\ wire' \in [Passes -> [Index -> {"never", "left", "replied", "answered"}]]
      /\ \A p \in Passes : p # active => wire'[p] = wire[p]
      /\ \A t \in Index : t # nth => wire'[active][t] = wire[active][t]
  <2> DEFINE Fates == {"never", "left", "replied", "answered"}
  <2>1. wire \in [Passes -> [Index -> Fates]]
    BY DEF IInv, TypeOK
  <2>2. CASE wire' = wire
    BY <2>1, <2>2
  <2>3. CASE \E w \in {"left", "replied", "answered"} : wire' = [wire EXCEPT ![active][nth] = w]
    <3>1. PICK w \in Fates : wire' = [wire EXCEPT ![active][nth] = w]
      BY <2>3
    <3> HIDE DEF Fates
    <3>2. /\ wire' \in [Passes -> [Index -> Fates]]
          /\ \A p \in Passes : p # active => wire'[p] = wire[p]
          /\ \A t \in Index : t # nth => wire'[active][t] = wire[active][t]
      BY <1>1, <2>1, <3>1, OneEntry
    <3> QED BY <3>2 DEF Fates
  <2> QED BY <1>2, <2>2, <2>3
<1>4. WireAt(wire[active][nth])'
  <2>1. wire \in [Passes -> [Index -> {"never", "left", "replied", "answered"}]]
    BY DEF IInv, TypeOK
  <2> QED BY <1>1, <1>2, <2>1 DEF JudgeMoves, Became, WireAt
<1>5. TypeOK'
  BY <1>2, <1>3 DEF IInv, TypeOK, Stages, Over, Verdicts
<1>6. Live'
  BY <1>1, <1>2 DEF IInv, Live
<1>7. Ahead'
  <2>1. judging' \notin {"none", "ready", "mute"}
    BY <1>2
  <2>2. judging \in Asked
    BY <1>1 DEF Asked
  <2> QED BY <1>1, <1>2, <2>1, <2>2 DEF IInv, Ahead
<1>8. RowsBornOut'
  <2>1. ASSUME NEW p \in Passes, NEW t \in Index
        PROVE  /\ call[p][t] = NoCall => wire'[p][t] = "never"
               /\ BornOut(call[p][t], wire'[p][t])
    <3>1. CASE p = active /\ t = nth
      BY <1>1, <3>1, OpenIsBornOut
    <3>2. CASE ~(p = active /\ t = nth)
      BY <1>3, <3>2 DEF IInv, Wires
    <3> QED BY <3>1, <3>2
  <2> QED BY <1>2, <2>1 DEF RowsBornOut, BornOut
<1>9. Wires'
  BY <1>4, <1>8 DEF Wires, RowsBornOut
<1>10. Sealing'
  BY <1>2, SealStays DEF IInv, Sealing
<1> QED BY <1>2, <1>5, <1>6, <1>7, <1>9, <1>10, StayingRowsMove DEF IInv
\* The process going down, whatever it had committed of the trial's call.
LEMMA GoneKeeps ==
  ASSUME IInv, Gone, score' = score, RowsMove, call' \in [Passes -> Calls],
         \A p \in Passes : p # active => call'[p] = call[p]
  PROVE  IInv'
<1>1. /\ UNCHANGED <<pass, wire, cut, asked>>
      /\ proc' = "down" /\ active' = None /\ stop' = FALSE /\ at' = "none" /\ nth' = 0
      /\ judging' = "none"
  BY DEF Gone
<1>2. TypeOK'
  BY <1>1 DEF IInv, TypeOK, Calls, Stages
<1>3. Live'
  BY <1>1 DEF Live
<1>4. ASSUME NEW p \in Passes, p = active PROVE pass[p].outcome = "open"
  BY <1>4, PassAssumption DEF IInv, Live, None
<1>5. Ahead'
  <2>1. ASSUME NEW p \in Passes, NEW t \in Index, pass[p].outcome = "none"
        PROVE  call'[p][t] = NoCall /\ score[p][t] = "none"
    BY <1>4, <2>1 DEF IInv, Ahead
  <2> QED BY <1>1, <2>1 DEF Ahead
<1>6. Wires'
  <2>1. RowsBornOut'
    BY <1>1, RowsStayBornOut DEF IInv, Wires, RowsBornOut
  <2> QED BY <1>1, <2>1 DEF Wires, RowsBornOut
<1>7. Sealing'
  <2>1. ASSUME NEW p \in Passes PROVE SealOk(p)'
    <3>1. CASE p = active
      BY <1>1, <1>4, <3>1 DEF SealOk
    <3>2. CASE p # active
      BY <1>1, <3>2, SealStays DEF IInv, Sealing
    <3> QED BY <3>1, <3>2
  <2> QED BY <2>1 DEF Sealing
<1> QED BY <1>2, <1>3, <1>5, <1>6, <1>7 DEF IInv

LEMMA ClosedKeeps ==
  ASSUME IInv, Closed
  PROVE  IInv' /\ RowsMove
<1>1. Gone /\ call' = call /\ score' = score
  BY DEF Closed
<1>2. call \in [Passes -> Calls]
  BY DEF IInv, TypeOK, Calls
<1> QED BY <1>1, <1>2, GoneKeeps, StayingRowsMove

LEMMA CrashKeeps ==
  ASSUME IInv, Crash
  PROVE  IInv' /\ RowsMove
<1>1. call \in [Passes -> Calls] /\ Gone /\ score' = score
  BY DEF IInv, TypeOK, Calls, Crash
<1>2. CASE call' = call
  BY <1>1, <1>2, GoneKeeps, StayingRowsMove
<1>3. CASE /\ at = "call" /\ judging \in Verdicts
           /\ call' = [call EXCEPT ![active] = EndCall(OutcomeOf(judging), Replied(judging))]
  <2> DEFINE c == EndCall(OutcomeOf(judging), Replied(judging))
  <2>1. active \in Passes /\ nth \in Index
    BY <1>3, ActiveWhileAt DEF IInv, Live
  <2>2. c \in Calls /\ StepCalls(c)
    BY <1>3, <2>1, VerdictSteps DEF IInv
  <2>3. call' = [call EXCEPT ![active] = c]
    BY <1>3
  <2> HIDE DEF c
  <2>4. /\ call' \in [Passes -> Calls] /\ call'[active] = c
        /\ \A p \in Passes : p # active => call'[p] = call[p]
    BY <1>1, <2>1, <2>2, <2>3
  <2>5. RowsMove
    BY <2>2, <2>4 DEF StepCalls, RowsMove, RowMoves
  <2> QED BY <1>1, <2>4, <2>5, GoneKeeps
<1> QED BY <1>2, <1>3 DEF Crash

\* The boot closes what is open; a sealed pass has nothing for it to close.
LEMMA BootKeeps ==
  ASSUME IInv, Boot
  PROVE  IInv' /\ RowsMove
<1>1. /\ UNCHANGED <<score, active, stop, at, nth, judging, wire, cut, asked>>
      /\ proc = "down" /\ proc' = "up"
      /\ at = "none" /\ active = None
      /\ call \in [Passes -> Calls] /\ pass \in [Passes -> Sealed]
  BY DEF Boot, IInv, Live, TypeOK, Calls, Sealed
<1>2. call' = [p \in Passes |-> CloseCalls(call[p], FoundOpen)]
  BY DEF Boot
<1>3. ASSUME NEW p \in Passes
      PROVE  /\ call'[p] = CloseCalls(call[p], FoundOpen) /\ call'[p] \in Calls
             /\ \A t \in Index : call'[p][t] = IF call[p][t] = OpenCall THEN FoundOpen
                                                                        ELSE call[p][t]
             /\ \A t \in Index : call'[p][t] # OpenCall
  <2>1. call'[p] = CloseCalls(call[p], FoundOpen)
    BY <1>2
  <2>2. call'[p] \in Calls
    BY <1>1, <2>1, CloseCallsTyped, RowTypes
  <2>3. \A t \in Index : call'[p][t] = IF call[p][t] = OpenCall THEN FoundOpen ELSE call[p][t]
    BY <2>1 DEF CloseCalls
  <2> QED BY <2>1, <2>2, <2>3, RowTypes
<1>4. call' \in [Passes -> Calls]
  BY <1>2, <1>3
<1>5. ASSUME NEW p \in Passes
      PROVE  /\ pass[p].outcome = "open" =>
                  /\ pass'[p].outcome = "interrupted"
                  /\ pass'[p].counts = PassCounts(call'[p], score[p])
             /\ pass[p].outcome # "open" => pass'[p] = pass[p]
             /\ pass'[p] \in Sealed
  <2>1. pass'[p] = IF pass[p].outcome = "open"
                   THEN [outcome |-> "interrupted",
                         counts |-> PassCounts(CloseCalls(call[p], FoundOpen), score[p])]
                   ELSE pass[p]
    BY DEF Boot
  <2>2. PassCounts(CloseCalls(call[p], FoundOpen), score[p]) \in [DOMAIN NoCounts -> Nat]
    BY CountsTyped
  <2>3. pass'[p] \in Sealed
    BY <1>1, <2>1, <2>2 DEF Sealed, PassOutcomes
  <2> QED BY <1>3, <2>1, <2>3
<1>6. pass' \in [Passes -> Sealed]
  <2>1. pass' = [p \in Passes |-> pass'[p]]
    BY DEF Boot
  <2> QED BY <1>5, <2>1
<1>7. TypeOK'
  BY <1>1, <1>4, <1>6 DEF IInv, TypeOK, Calls, Sealed
<1>8. Live'
  BY <1>1 DEF IInv, Live
<1>9. RowsMove
  <2>1. ASSUME NEW p \in Passes, NEW t \in Index PROVE RowMoves(p, t)
    <3>1. CASE call[p][t] = OpenCall
      BY <1>3, <3>1, RowTypes, EndingsPass, OpenIsBornOut DEF RowMoves
    <3>2. CASE call[p][t] # OpenCall
      BY <1>3, <3>2 DEF RowMoves
    <3> QED BY <3>1, <3>2
  <2> QED BY <2>1 DEF RowsMove
<1>10. Ahead'
  <2>1. ASSUME NEW p \in Passes, NEW t \in Index, pass'[p].outcome = "none"
        PROVE  call'[p][t] = NoCall /\ score[p][t] = "none"
    <3>1. pass[p].outcome = "none"
      BY <1>5, <2>1
    <3>2. NoCall # OpenCall
      BY PassAssumption, RowTypes
    <3> QED BY <1>3, <3>1, <3>2 DEF IInv, Ahead
  <2> QED BY <1>1, <2>1 DEF Ahead
<1>11. Wires'
  <2>1. RowsBornOut'
    BY <1>1, <1>9, RowsStayBornOut DEF IInv, Wires, RowsBornOut
  <2> QED BY <1>1, <2>1 DEF Wires, RowsBornOut
<1>12. Sealing'
  <2>1. ASSUME NEW p \in Passes PROVE SealOk(p)'
    <3>1. SealOk(p)
      BY DEF IInv, Sealing
    <3>2. CASE pass[p].outcome = "open"
      BY <1>1, <1>3, <1>5, <3>2 DEF SealOk, PassCounts
    <3>3. CASE pass[p].outcome = "none"
      BY <1>5, <3>3 DEF SealOk
    <3>4. CASE pass[p].outcome \notin {"none", "open"}
      <4>1. \A t \in Index : call'[p][t] = call[p][t]
        BY <1>3, <3>1, <3>4 DEF SealOk
      <4>2. call'[p] = call[p]
        BY <1>1, <1>3, <4>1 DEF Calls
      <4> QED BY <1>1, <1>5, <3>1, <3>4, <4>2, SealStays
    <3> QED BY <3>2, <3>3, <3>4
  <2> QED BY <2>1 DEF Sealing
<1> QED BY <1>7, <1>8, <1>9, <1>10, <1>11, <1>12 DEF IInv

-----------------------------------------------------------------------------
LEMMA InitInv == Init => IInv
<1> SUFFICES ASSUME Init PROVE IInv
  OBVIOUS
<1>1. TypeOK
  <2>1. NoCounts \in [DOMAIN NoCounts -> Nat]
    BY DEF NoCounts
  <2> DEFINE record == [outcome |-> "none", counts |-> NoCounts]
  <2>2. record \in Sealed
    BY <2>1 DEF Sealed, PassOutcomes
  <2>3. pass = [p \in Passes |-> record]
    BY DEF Init
  <2> HIDE DEF record
  <2>4. pass \in [Passes -> Sealed]
    BY <2>2, <2>3
  <2>5. /\ call \in [Passes -> [Index -> CallRecords \cup {NoCall}]]
        /\ score \in [Passes -> [Index -> {"none", "scored", "gap"}]]
        /\ wire \in [Passes -> [Index -> {"never", "left", "replied", "answered"}]]
    BY DEF Init
  <2> QED BY <2>4, <2>5 DEF Init, TypeOK, Sealed, Stages
<1>2. Live /\ Ahead
  BY DEF Init, Live, Ahead, None
<1>3. Wires
  BY OpenIsBornOut DEF Init, Wires
<1>4. Sealing
  BY DEF Init, Sealing, SealOk
<1> QED BY <1>1, <1>2, <1>3, <1>4 DEF IInv

LEMMA StepInv == IInv /\ [Next]_vars => IInv' /\ RowsMove
<1> SUFFICES ASSUME IInv, [Next]_vars PROVE IInv' /\ RowsMove
  OBVIOUS
<1>1. CASE \E p \in Passes : start_scoring(p)
  BY <1>1, StartKeeps
<1>2. CASE stop_scoring
  BY <1>2, StopKeeps
<1>3. CASE PassStep
  <2>1. active \in Passes /\ (Ends \/ Goes) /\ UNCHANGED <<proc, stop, wire, cut, asked>>
    BY <1>3, PassStepTurns DEF IInv
  <2>2. cut \in SUBSET Passes
    BY DEF IInv, TypeOK
  <2> QED BY <2>1, <2>2, EndsKeep, EndsMoves, GoesKeep, GoesMoves
<1>4. CASE JudgeStep
  BY <1>4, JudgeStartsKeeps, JudgeMovesKeeps DEF JudgeStep
<1>5. CASE Shutdown
  BY <1>5, ShutdownKeeps
<1>6. CASE Cut
  <2>1. /\ active \in Passes /\ Ends /\ UNCHANGED <<proc, stop, wire, asked>>
        /\ cut' = cut \cup {active}
    BY <1>6, CutTurns DEF IInv
  <2>2. cut' \in SUBSET Passes /\ cut \subseteq cut'
    BY <2>1 DEF IInv, TypeOK
  <2> QED BY <2>1, <2>2, EndsKeep, EndsMoves
<1>7. CASE Closed
  BY <1>7, ClosedKeeps
<1>8. CASE Crash
  BY <1>8, CrashKeeps
<1>9. CASE Boot
  BY <1>9, BootKeeps
<1>10. CASE UNCHANGED vars
  <2>1. UNCHANGED <<pass, call, score, proc, active, stop, at, nth, judging, wire, cut, asked>>
    BY <1>10 DEF vars
  <2>2. TypeOK' /\ Live' /\ Ahead' /\ Wires'
    BY <2>1 DEF IInv, TypeOK, Live, Ahead, Wires, BornOut, WireAt
  <2>3. Sealing'
    BY <2>1, SealStays DEF IInv, Sealing
  <2> QED BY <2>1, <2>2, <2>3, StayingRowsMove DEF IInv
<1> QED BY <1>1, <1>2, <1>3, <1>4, <1>5, <1>6, <1>7, <1>8, <1>9, <1>10 DEF Next

LEMMA AlwaysIInv == Spec => []IInv
<1>1. IInv /\ [Next]_vars => IInv'
  BY StepInv
<1> QED BY InitInv, <1>1, PTL DEF Spec

\* Every reachable state of the scoring passes is well formed: the pass the
\* slot holds, the task's place on its list of trials, the request's stage
\* and the rows stay in their types through every stop, cut, crash and boot.
THEOREM PassTypeCorrect == Spec => []TypeOK
<1>1. IInv => TypeOK
  BY DEF IInv
<1> QED BY <1>1, AlwaysIInv, PTL

\* No request to a judge leaves before `sending` has committed its row, and
\* no failed write, cut, crash or boot takes that row away.
THEOREM SentAlwaysRecorded == Spec => []SentIsRecorded
<1>1. IInv => SentIsRecorded
  BY DEF IInv, Wires, SentIsRecorded
<1> QED BY <1>1, AlwaysIInv, PTL

\* However a pass was sealed, by its own close or by the boot after a crash,
\* and whether or not its calls' own writes succeeded, none is left open.
THEOREM SealsLeaveNoneOpen == Spec => []NoOpenCallUnderASeal
<1>1. IInv => NoOpenCallUnderASeal
  BY DEF IInv, Sealing, SealOk, NoOpenCallUnderASeal
<1> QED BY <1>1, AlwaysIInv, PTL

\* The counts a pass was sealed with are those of its rows for ever after:
\* the boot sweep, which closes calls pass by pass, finds none under a seal.
THEOREM CountsAlwaysTrue == Spec => []SealedCountsStayTrue
<1>1. IInv => SealedCountsStayTrue
  BY DEF IInv, Sealing, SealOk, SealedCountsStayTrue
<1> QED BY <1>1, AlwaysIInv, PTL

\* Where the counts place a call is never kinder than what happened to its
\* request, for every mix of trials and every way the call can end.
THEOREM RecordsAlwaysTruthful == Spec => []RecordsTellTheTruth
<1>1. IInv => RecordsTellTheTruth
  BY DEF IInv, Wires, BornOut, RecordsTellTheTruth
<1> QED BY <1>1, AlwaysIInv, PTL

\* finished is only said of a pass with a row for every trial, and stopped
\* only of one asked to stop that was cut or had trials left.
THEOREM OutcomesAlwaysTrue == Spec => []PassOutcomesAreTrue
<1>1. IInv => PassOutcomesAreTrue
  <2> SUFFICES ASSUME IInv PROVE PassOutcomesAreTrue
    OBVIOUS
  <2>1. ASSUME NEW p \in Passes
        PROVE  /\ pass[p].outcome = "finished" => \A t \in Index : score[p][t] # "none"
               /\ pass[p].outcome = "stopped" =>
                    p \in asked /\ (p \in cut \/ \E t \in Index : score[p][t] = "none")
    BY DEF IInv, Sealing, SealOk
  <2>2. ASSUME NEW p \in Passes, at # "none", active = p
        PROVE  pass[p].outcome = "open"
    BY <2>2 DEF IInv, Live
  <2> QED BY <2>1, <2>2 DEF PassOutcomesAreTrue
<1> QED BY <1>1, AlwaysIInv, PTL

\* The seal trigger never has to refuse an update: every one that settle,
\* the pass's close, the cut and the boot sweep make is the first and only
\* ending of a call in flight, whole and consistent.
THEOREM UpdatesAlwaysPass == Spec => UpdatesPassTheSeal
<1>1. IInv /\ [Next]_vars =>
        [\A p \in Passes, t \in Index :
           call'[p][t] # call[p][t] =>
             \/ call[p][t] = NoCall /\ call'[p][t] = OpenCall
             \/ call[p][t] # NoCall /\ Admits(call[p][t], call'[p][t])]_vars
  <2> SUFFICES ASSUME IInv, [Next]_vars, NEW p \in Passes, NEW t \in Index,
                      call'[p][t] # call[p][t]
               PROVE  \/ call[p][t] = NoCall /\ call'[p][t] = OpenCall
                      \/ call[p][t] # NoCall /\ Admits(call[p][t], call'[p][t])
    OBVIOUS
  <2>1. RowMoves(p, t)
    BY StepInv DEF RowsMove
  <2>2. OpenCall # NoCall
    BY PassAssumption, RowTypes
  <2> QED BY <2>1, <2>2 DEF RowMoves
<1> QED BY <1>1, AlwaysIInv, PTL DEF Spec, UpdatesPassTheSeal

-----------------------------------------------------------------------------
(***************************************************************************)
(* The seal itself: one row that anyone may try to update, the pass's own  *)
(* writers or another (JudgeCallSeal).                                     *)
(***************************************************************************)
\* The facts a call's ending may leave in its row.
Factual(c) ==
  \/ c = FoundOpen
  \/ \E o \in Ways, r \in BOOLEAN :
       ~Contradicts(o, r) /\ (c = Ended(o, r) \/ c = Unwritten(o, r))

\* What the seal admits on an open row has the facts call_facts gives.
LEMMA AdmittedIsFactual ==
  ASSUME NEW c \in CallRecords, Admits(OpenCall, c)
  PROVE  Factual(c)
<1>1. PICK o \in Outcomes \cup {"null"}, s \in Flags, r \in BOOLEAN, u \in Flags :
        c = [outcome |-> o, sent |-> s, replied |-> r, usable |-> u]
  BY DEF CallRecords
<1>2. CASE o # "interrupted"
  <2>1. o \in Ways /\ ~Contradicts(o, r)
    BY <1>1, <1>2 DEF Admits, OpenCall, Outcomes, Flags, Contradicts, Ways
  <2>2. s = (IF o = "not_sent" THEN "no" ELSE "yes")
        /\ u = (IF o = "answered" THEN "yes" ELSE IF r THEN "no" ELSE "null")
    BY <1>1, <1>2 DEF Admits, OpenCall, Outcomes, Flags
  <2>3. c = Ended(o, r)
    BY <1>1, <2>2 DEF Ended, call_facts
  <2> QED BY <2>1, <2>3, Zenon DEF Factual
<1>3. CASE o = "interrupted" /\ s = "null"
  <2>1. r = FALSE /\ u = "null"
    BY <1>1, <1>3 DEF Admits, OpenCall, Flags
  <2>2. PICK open \in CallRecords : open = OpenCall
    BY RowTypes
  <2>3. /\ c.outcome = "interrupted" /\ c.sent = open.sent
        /\ c.replied = open.replied /\ c.usable = open.usable
    BY <1>1, <1>3, <2>1, <2>2 DEF OpenCall
  <2>4. c = [open EXCEPT !.outcome = "interrupted"]
    BY <2>2, <2>3 DEF CallRecords
  <2> QED BY <2>2, <2>4 DEF Factual, FoundOpen
<1>4. CASE o = "interrupted" /\ s = "no"
  <2>1. ~r /\ u = "null"
    BY <1>1, <1>4 DEF Admits, OpenCall, Flags
  <2>2. c = Unwritten("not_sent", r) /\ ~Contradicts("not_sent", r)
    BY <1>1, <1>4, <2>1 DEF Unwritten, Ended, call_facts, Contradicts, Outcomes
  <2>3. "not_sent" \in Ways
    BY DEF Ways, Outcomes
  <2> QED BY <2>2, <2>3, Zenon DEF Factual
<1>5. CASE o = "interrupted" /\ s = "yes"
  <2>1. CASE u = "yes"
    <3>1. r = TRUE
      BY <1>1, <1>5, <2>1 DEF Admits, OpenCall
    <3>2. c = Unwritten("answered", r)
      BY <1>1, <1>5, <2>1 DEF Unwritten, Ended, call_facts
    <3>3. ~Contradicts("answered", r) /\ "answered" \in Ways
      BY <1>1, <3>1 DEF Contradicts, Outcomes, Ways
    <3> QED BY <3>2, <3>3, Zenon DEF Factual
  <2>2. CASE u # "yes"
    <3>1. r <=> u = "no"
      BY <1>1, <1>5, <2>2 DEF Admits, OpenCall, Flags
    <3>2. c = Unwritten("failed", r) /\ ~Contradicts("failed", r)
      BY <1>1, <1>5, <2>2, <3>1 DEF Unwritten, Ended, call_facts, Contradicts, Outcomes, Flags
    <3>3. "failed" \in Ways
      BY DEF Ways, Outcomes
    <3> QED BY <3>2, <3>3, Zenon DEF Factual
  <2> QED BY <2>1, <2>2
<1> QED BY <1>1, <1>2, <1>3, <1>4, <1>5 DEF Flags

\* An open row, or one that ended: nothing else is ever in the table.
SealInv == row = OpenCall \/ (row \in CallRecords /\ row.outcome # "null")

LEMMA SealStarts == SealInit => SealInv
<1> SUFFICES ASSUME SealInit PROVE SealInv
  OBVIOUS
<1>1. CASE row = OpenCall
  BY <1>1 DEF SealInv
<1>2. CASE row # OpenCall
  <2>1. PICK k \in Known \cup {<<"interrupted", FALSE>>} :
          row = [OpenCall EXCEPT !.outcome = k[1], !.replied = k[2]]
    BY <1>2 DEF SealInit, Legacy
  <2>2. k[1] \in Outcomes /\ k[2] \in BOOLEAN
    <3>1. CASE k \in Outcomes \X BOOLEAN
      BY <3>1
    <3>2. CASE k = <<"interrupted", FALSE>>
      BY <3>2 DEF Outcomes
    <3> QED BY <3>1, <3>2 DEF Known
  <2> QED BY <2>1, <2>2 DEF SealInv, OpenCall, CallRecords, Flags, Outcomes
<1> QED BY <1>1, <1>2

\* A row that changes was open, and has the facts of its ending.
LEMMA SealStep ==
  ASSUME SealInv, [SealNext]_sealVars
  PROVE  /\ SealInv'
         /\ row' # row => row = OpenCall /\ row' \in CallRecords /\ Factual(row')
                          /\ row'.outcome # "null"
<1>1. CASE UNCHANGED sealVars
  BY <1>1 DEF sealVars, SealInv
<1>2. CASE \E new \in CallRecords : row' = IF Admits(row, new) THEN new ELSE row
  <2>1. PICK new \in CallRecords : row' = IF Admits(row, new) THEN new ELSE row
    BY <1>2
  <2>2. CASE Admits(row, new)
    <3>1. row.outcome = "null" /\ new.outcome # "null"
      BY <2>2 DEF Admits
    <3>2. row = OpenCall /\ Factual(new)
      BY <2>2, <3>1, AdmittedIsFactual DEF SealInv
    <3> QED BY <2>1, <2>2, <3>1, <3>2 DEF SealInv
  <2>3. CASE ~Admits(row, new)
    BY <2>1, <2>3 DEF SealInv
  <2> QED BY <2>2, <2>3
<1> QED BY <1>1, <1>2 DEF SealNext, Update

\* An ending with its facts is one a writer of the bench can write, and has
\* its place in the counts by them.
LEMMA FactualIsWritten ==
  ASSUME NEW c \in CallRecords, Factual(c)
  PROVE  c \in WrittenEndings
<1>1. CASE c = FoundOpen
  BY <1>1 DEF WrittenEndings
<1>2. CASE c # FoundOpen
  <2>1. PICK o \in Ways, r \in BOOLEAN :
          ~Contradicts(o, r) /\ (c = Ended(o, r) \/ c = Unwritten(o, r))
    BY <1>2, Zenon DEF Factual
  <2>3. PICK k \in Outcomes \X BOOLEAN : k = <<o, r>>
    BY DEF Ways
  <2>4. k[1] = o /\ k[2] = r
    BY <2>3
  <2>5. ~Contradicts(o, r)
    BY <2>1, Zenon
  <2>6. ~Contradicts(k[1], k[2])
    BY <2>4, <2>5, Zenon
  <2>7. k \in Known
    BY <2>6 DEF Known
  <2>8. c = Ended(o, r) \/ c = Unwritten(o, r)
    BY <2>1, Zenon
  <2>9. c = Ended(k[1], k[2]) \/ c = Unwritten(k[1], k[2])
    BY <2>4, <2>8, Zenon
  <2> QED BY <2>7, <2>9 DEF WrittenEndings
<1> QED BY <1>1, <1>2

LEMMA FactualIsPlaced ==
  ASSUME NEW c \in CallRecords, Factual(c), c.outcome # "null"
  PROVE  call_ending(c) # "in_flight" /\ ~history_counted(c)
<1>1. c.sent # "null" \/ c = FoundOpen
  <2>1. ASSUME NEW o \in Ways, NEW r \in BOOLEAN
        PROVE  Ended(o, r).sent # "null" /\ Unwritten(o, r).sent # "null"
    <3>1. Ended(o, r).sent \in {"no", "yes"}
      BY DEF Ended, call_facts
    <3>2. Unwritten(o, r).sent = Ended(o, r).sent
      BY RowTypes DEF Unwritten, CallRecords
    <3> QED BY <3>1, <3>2
  <2> QED BY <2>1 DEF Factual
<1>2. CASE c.sent # "null"
  BY <1>2 DEF call_ending, history_counted, CallRecords, Flags
<1>3. CASE c = FoundOpen
  BY <1>3 DEF call_ending, history_counted, FoundOpen, OpenCall
<1> QED BY <1>1, <1>2, <1>3

\* Whoever updates a row, it takes one ending, with the facts call_facts
\* would have given that ending or with those of an ending unwritten.
THEOREM SealTakesFactsOnly == SealSpec => SealHoldsCallFacts
<1>1. SealInv /\ [SealNext]_sealVars => SealInv'
  BY SealStep
<1>2. SealInv /\ [SealNext]_sealVars => [row' # row => row' \in WrittenEndings]_sealVars
  BY SealStep, FactualIsWritten
<1> QED BY SealStarts, <1>1, <1>2, PTL DEF SealSpec, SealHoldsCallFacts

\* Whoever updates a row, the counts place it once, and by its facts.
THEOREM CountsGoByTheFacts == SealSpec => CountsAreByTheFacts
<1>1. SealInv /\ [SealNext]_sealVars => SealInv'
  BY SealStep
<1>2. SealInv /\ [SealNext]_sealVars
        => [row' # row => /\ call_ending(row) = "in_flight"
                          /\ call_ending(row') # "in_flight"
                          /\ ~history_counted(row')]_sealVars
  <2>1. call_ending(OpenCall) = "in_flight"
    BY DEF call_ending, OpenCall
  <2>3. SUFFICES ASSUME SealInv, [SealNext]_sealVars, row' # row
                 PROVE  /\ call_ending(row) = "in_flight"
                        /\ call_ending(row') # "in_flight"
                        /\ ~history_counted(row')
    OBVIOUS
  <2>4. PICK c \in CallRecords : c = row' /\ Factual(c) /\ c.outcome # "null"
    BY <2>3, SealStep
  <2>5. row = OpenCall
    BY <2>3, SealStep
  <2>6. call_ending(c) # "in_flight" /\ ~history_counted(c)
    BY <2>4, FactualIsPlaced
  <2> QED BY <2>1, <2>4, <2>5, <2>6
<1> QED BY SealStarts, <1>1, <1>2, PTL DEF SealSpec, CountsAreByTheFacts

\* The seal never stands in a writer's way: an open row takes any of the
\* bench's endings.
THEOREM WritersAlwaysPass == SealSpec => []WritersAreAdmitted
<1>1. SealInv /\ [SealNext]_sealVars => SealInv'
  BY SealStep
<1>2. SealInv => WritersAreAdmitted
  <2> SUFFICES ASSUME SealInv, row.outcome = "null", NEW c \in WrittenEndings
               PROVE  Admits(OpenCall, c) /\ row = OpenCall
    BY DEF WritersAreAdmitted
  <2>1. c = FoundOpen \/ \E k \in Known : c = Ended(k[1], k[2]) \/ c = Unwritten(k[1], k[2])
    BY DEF WrittenEndings
  <2>2. \A k \in Known : k[1] \in Ways /\ k[2] \in BOOLEAN /\ ~Contradicts(k[1], k[2])
    BY DEF Known, Ways, Contradicts
  <2> QED BY <2>1, <2>2, EndingsPass DEF SealInv
<1> QED BY SealStarts, <1>1, <1>2, PTL DEF SealSpec
=============================================================================
