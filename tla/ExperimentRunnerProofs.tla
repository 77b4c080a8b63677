----------------------- MODULE ExperimentRunnerProofs -----------------------
(***************************************************************************)
(* The runner's safety for every set of experiments, every plan and every  *)
(* bound on the listing, through stops, shutdowns, crashes and failing     *)
(* writes.                                                                 *)
(***************************************************************************)
EXTENDS ExperimentRunner, FiniteSetTheorems, TLAPS

-----------------------------------------------------------------------------
(***************************************************************************)
(* What a turn of the runner leaves, entry by entry.                       *)
(***************************************************************************)

\* Nothing but e's own status and detail moves.
OthersKept(e) ==
  /\ status' \in [Experiments -> Statuses]
  /\ detail' \in [Experiments -> Details]
  /\ \A f \in Experiments : f # e => status'[f] = status[f] /\ detail'[f] = detail[f]

\* The run is over: its ending is written and the slot freed, or neither.
Halts(e, ending) ==
  /\ OthersKept(e)
  /\ runner' = "none" /\ trial' = "none" /\ nth' = nth
  /\ \/ status'[e] = ending /\ active' = None
     \/ status'[e] \in {status[e], "running"} /\ active' = active

\* The next trial of the plan.
Advances(e) ==
  /\ OthersKept(e)
  /\ nth < Plan[e]
  /\ runner' = "trial" /\ trial' = "ready" /\ nth' = nth + 1
  /\ status'[e] = "running" /\ active' = active

\* The routes of a pinned lineup.
AsksRoutes(e) ==
  /\ OthersKept(e)
  /\ runner' = "routes" /\ trial' = trial /\ nth' = nth
  /\ status'[e] = "running" /\ active' = active

Turns(e) ==
  \/ nth = Plan[e] /\ Halts(e, "done")
  \/ \E ending \in Terminal \ {"done"} : Halts(e, ending)
  \/ Advances(e)

LEMMA EndHalts ==
  ASSUME TypeOK, NEW e \in Experiments, NEW ending \in Terminal, NEW said \in Details,
         NEW before \in {status[e], "running"}, End(e, before, ending, said)
  PROVE  Halts(e, ending)
<1>1. status[e] \in Statuses /\ before \in Statuses /\ ending \in Statuses
  BY DEF TypeOK, Statuses, Terminal
<1>2. CASE /\ status' = [status EXCEPT ![e] = ending]
           /\ detail' = [detail EXCEPT ![e] = said]
           /\ active' = None
  BY <1>1, <1>2 DEF TypeOK, End, Halts, OthersKept
<1>3. CASE /\ status' = [status EXCEPT ![e] = before]
           /\ UNCHANGED <<detail, active>>
  BY <1>1, <1>3 DEF TypeOK, End, Halts, OthersKept
<1> QED BY <1>2, <1>3 DEF End

LEMMA OnwardTurns ==
  ASSUME TypeOK, NEW e \in Experiments, Onward(e)
  PROVE  Turns(e)
<1>1. {"done", "stopped", "failed"} \subseteq Terminal /\ "" \in Details
  BY DEF Terminal, Details
<1>2. CASE nth = Plan[e] /\ End(e, "running", "done", "")
  BY <1>1, <1>2, EndHalts DEF Turns
<1>3. CASE End(e, "running", "stopped", "")
  BY <1>1, <1>3, EndHalts DEF Turns
<1>4. CASE End(e, "running", "failed", "")
  BY <1>1, <1>4, EndHalts DEF Turns
<1>5. CASE nth < Plan[e] /\ StartTrial(e)
  <2>1. status' = [status EXCEPT ![e] = "running"] /\ detail' = detail
    BY <1>5 DEF StartTrial
  <2>2. OthersKept(e) /\ status'[e] = "running"
    BY <2>1 DEF TypeOK, OthersKept, Statuses
  <2> QED BY <1>5, <2>2 DEF StartTrial, Advances, Turns
<1> QED BY <1>2, <1>3, <1>4, <1>5 DEF Onward

LEMMA AfterCountTurns ==
  ASSUME TypeOK, NEW e \in Experiments, AfterCount(e)
  PROVE  Turns(e)
<1>1. {"interrupted", "halted_on_refusal"} \subseteq Terminal \ {"done"}
      /\ {"", "settled_and_persisted"} \subseteq Details
  BY DEF Terminal, Details
<1>2. CASE End(e, "running", "interrupted", "settled_and_persisted")
  BY <1>1, <1>2, EndHalts DEF Turns
<1>3. CASE End(e, "running", "halted_on_refusal", "")
  BY <1>1, <1>3, EndHalts DEF Turns
<1>4. CASE Onward(e)
  BY <1>4, OnwardTurns
<1> QED BY <1>2, <1>3, <1>4 DEF AfterCount

\* A first step: over at once, on to the first trial, or after the routes.
LEMMA BeginTurns ==
  ASSUME TypeOK, NEW e \in Experiments, Begin(e)
  PROVE  Turns(e) \/ AsksRoutes(e)
<1>1. "failed" \in Terminal \ {"done"} /\ "" \in Details
  BY DEF Terminal, Details
<1>2. CASE End(e, status[e], "failed", "")
  BY <1>1, <1>2, EndHalts DEF Turns
<1>3. CASE Onward(e)
  BY <1>3, OnwardTurns
<1>4. CASE /\ status' = [status EXCEPT ![e] = "running"]
           /\ runner' = "routes"
           /\ UNCHANGED <<detail, active, nth, trial>>
  <2>1. OthersKept(e) /\ status'[e] = "running"
    BY <1>4 DEF TypeOK, OthersKept, Statuses
  <2> QED BY <1>4, <2>1 DEF AsksRoutes
<1> QED BY <1>2, <1>3, <1>4 DEF Begin

LEMMA RoutedTurns ==
  ASSUME TypeOK, NEW e \in Experiments, Routed(e)
  PROVE  Turns(e)
<1>1. "interrupted" \in Terminal \ {"done"} /\ "settled_and_persisted" \in Details
  BY DEF Terminal, Details
<1>2. CASE End(e, "running", "interrupted", "settled_and_persisted")
  BY <1>1, <1>2, EndHalts DEF Turns
<1>3. CASE Onward(e)
  BY <1>3, OnwardTurns
<1> QED BY <1>2, <1>3 DEF Routed

\* A trial's end is counted and the run goes on, or the run is over with
\* nothing counted.
LEMMA ResumeTurns ==
  ASSUME TypeOK, NEW e \in Experiments, Resume(e)
  PROVE  \/ trial \in Buckets /\ Count(e) /\ Turns(e) /\ marred' = marred
         \/ /\ counted' = counted
            /\ \E ending \in Terminal \ {"done"} : Halts(e, ending)
            /\ \/ trial \in Buckets /\ marred' = marred \cup {e}
               \/ trial \in {"unreached", "raised"} /\ marred' = marred
<1>1. {"interrupted", "failed", "stopped"} \subseteq Terminal \ {"done"}
      /\ {"", "never_sent"} \subseteq Details
  BY DEF Terminal, Details
<1>2. CASE trial \in Buckets /\ Count(e) /\ AfterCount(e) /\ UNCHANGED marred
  BY <1>2, AfterCountTurns
<1>3. CASE /\ trial \in Buckets
           /\ End(e, "running", "failed", "")
           /\ marred' = marred \cup {e}
           /\ UNCHANGED counted
  BY <1>1, <1>3, EndHalts
<1>4. CASE /\ trial = "unreached"
           /\ End(e, "running", "interrupted", "never_sent")
           /\ UNCHANGED <<counted, marred>>
  BY <1>1, <1>4, EndHalts
<1>5. CASE /\ trial = "unreached"
           /\ End(e, "running", "stopped", "")
           /\ UNCHANGED <<counted, marred>>
  BY <1>1, <1>5, EndHalts
<1>6. CASE /\ trial = "raised"
           /\ End(e, "running", "failed", "")
           /\ UNCHANGED <<counted, marred>>
  BY <1>1, <1>6, EndHalts
<1> QED BY <1>2, <1>3, <1>4, <1>5, <1>6 DEF Resume

-----------------------------------------------------------------------------
(***************************************************************************)
(* The shape of a run: where the task is says what the rest may be.        *)
(***************************************************************************)
Shape ==
  /\ runner # "none" => active \in Experiments
  /\ runner = "trial" <=> trial # "none"
  /\ runner = "start" => status[active] = "created"
  /\ runner \in {"routes", "trial"} => status[active] = "running"
  /\ runner \in {"start", "routes"} => nth = 0
  /\ proc = "down" => active = None /\ runner = "none"

\* A turn that is not the first is taken while the run's row says running.
LEMMA TurnKeepsShape ==
  ASSUME TypeOK, Shape, NEW e \in Experiments, active = e, runner # "none",
         proc' = proc, Turns(e) \/ (AsksRoutes(e) /\ runner = "start")
  PROVE  Shape'
<1>1. CASE \E ending : Halts(e, ending)
  BY <1>1, RunnerAssumption DEF Halts, Shape
<1>2. CASE Advances(e)
  BY <1>2 DEF Advances, Shape
<1>3. CASE AsksRoutes(e) /\ runner = "start"
  BY <1>3 DEF AsksRoutes, Shape
<1> QED BY <1>1, <1>2, <1>3 DEF Turns

LEMMA TurnKeepsTypes ==
  ASSUME TypeOK, NEW e \in Experiments, active = e, Turns(e) \/ AsksRoutes(e)
  PROVE  /\ status' \in [Experiments -> Statuses]
         /\ detail' \in [Experiments -> Details]
         /\ active' \in Experiments \cup {None}
         /\ runner' \in {"none", "start", "routes", "trial"}
         /\ nth' \in Nat
         /\ trial' \in Stages
<1>1. "none" \in Stages /\ "ready" \in Stages
  BY DEF Stages
<1> QED
  BY <1>1 DEF TypeOK, Turns, Halts, Advances, AsksRoutes, OthersKept

LEMMA CountEffect ==
  ASSUME TypeOK, NEW e \in Experiments, trial \in Buckets, Count(e)
  PROVE  /\ counted' \in [Experiments -> [Buckets -> Nat]]
         /\ \A f \in Experiments : f # e => counted'[f] = counted[f]
         /\ counted'[e] = [counted[e] EXCEPT ![trial] = @ + 1]
BY DEF TypeOK, Count

LEMMA SaveRunTypes ==
  ASSUME TypeOK, SaveRun
  PROVE  rows' \in [Experiments -> SUBSET Nat]
BY DEF TypeOK, SaveRun

LEMMA TypeStep ==
  ASSUME TypeOK, Shape, [Next]_vars
  PROVE  TypeOK'
<1>1. ASSUME NEW e \in Experiments, start_experiment(e) PROVE TypeOK'
  BY <1>1 DEF start_experiment, database, TypeOK
<1>2. ASSUME NEW e \in Experiments, stop_experiment(e) PROVE TypeOK'
  BY <1>2 DEF stop_experiment, database, TypeOK
<1>3. ASSUME NEW e \in Experiments, Begin(e) PROVE TypeOK'
  <2>1. active = e
    BY <1>3 DEF Begin
  <2> QED BY <1>3, <2>1, BeginTurns, TurnKeepsTypes DEF Begin, TypeOK
<1>4. ASSUME NEW e \in Experiments, Routed(e) PROVE TypeOK'
  <2>1. active = e
    BY <1>4 DEF Routed
  <2> QED BY <1>4, <2>1, RoutedTurns, TurnKeepsTypes DEF Routed, TypeOK
<1>5. ASSUME NEW e \in Experiments, Resume(e) PROVE TypeOK'
  <2>1. active = e /\ UNCHANGED <<rows, proc, stop, cancel, asked, sent>>
    BY <1>5 DEF Resume
  <2>2. Turns(e)
    BY <1>5, ResumeTurns DEF Turns
  <2>3. counted' \in [Experiments -> [Buckets -> Nat]] /\ marred' \subseteq Experiments
    BY <1>5, ResumeTurns, CountEffect DEF TypeOK
  <2> QED BY <2>1, <2>2, <2>3, TurnKeepsTypes DEF TypeOK
<1>6. CASE TrialClaims
  BY <1>6, SaveRunTypes DEF TrialClaims, onlyTheTrial, TypeOK, Stages, Over, Buckets
<1>7. CASE TrialGoes
  BY <1>7, SaveRunTypes DEF TrialGoes, onlyTheTrial, TypeOK, Stages, Over, Buckets
<1>8. CASE TrialAnswers
  BY <1>8, SaveRunTypes DEF TrialAnswers, onlyTheTrial, TypeOK, Stages, Over, Buckets
<1>9. CASE TrialRaises
  <2>1. active \in Experiments
    BY <1>9 DEF TrialRaises, Shape
  <2> QED BY <1>9, <2>1 DEF TrialRaises, onlyTheTrial, TypeOK, Stages, Over
<1>10. CASE Shutdown
  BY <1>10 DEF Shutdown, database, TypeOK
<1>11. CASE Close
  BY <1>11 DEF Close, Gone, TypeOK, Stages
<1>12. CASE Crash
  <2>1. counted' \in [Experiments -> [Buckets -> Nat]]
    <3>1. CASE runner = "trial" /\ trial \in Buckets /\ Count(active)
      BY <3>1, CountEffect DEF Shape
    <3> QED BY <1>12, <3>1 DEF Crash, TypeOK
  <2>2. marred' \subseteq Experiments
    BY <1>12 DEF Crash, TypeOK, Shape, Buckets
  <2> QED BY <1>12, <2>1, <2>2 DEF Crash, Gone, TypeOK, Stages
<1>13. CASE Boot
  BY <1>13 DEF Boot, TypeOK, Statuses, Terminal, Details
<1>14. CASE UNCHANGED vars
  BY <1>14 DEF vars, database, TypeOK
<1> QED
  BY <1>1, <1>2, <1>3, <1>4, <1>5, <1>6, <1>7, <1>8, <1>9, <1>10, <1>11, <1>12,
     <1>13, <1>14 DEF Next, RunnerStep, TrialStep

LEMMA ShapeStep ==
  ASSUME TypeOK, Shape, [Next]_vars
  PROVE  Shape'
<1>1. ASSUME NEW e \in Experiments, start_experiment(e) PROVE Shape'
  BY <1>1, RunnerAssumption DEF start_experiment, database, Shape
<1>2. ASSUME NEW e \in Experiments, stop_experiment(e) PROVE Shape'
  BY <1>2 DEF stop_experiment, database, Shape
<1>3. ASSUME NEW e \in Experiments, Begin(e) PROVE Shape'
  <2>1. active = e /\ runner = "start" /\ proc' = proc
    BY <1>3 DEF Begin
  <2> QED BY <1>3, <2>1, BeginTurns, TurnKeepsShape
<1>4. ASSUME NEW e \in Experiments, Routed(e) PROVE Shape'
  <2>1. active = e /\ runner = "routes" /\ proc' = proc
    BY <1>4 DEF Routed
  <2> QED BY <1>4, <2>1, RoutedTurns, TurnKeepsShape
<1>5. ASSUME NEW e \in Experiments, Resume(e) PROVE Shape'
  <2>1. active = e /\ runner = "trial" /\ proc' = proc
    BY <1>5 DEF Resume
  <2>2. Turns(e)
    BY <1>5, ResumeTurns DEF Turns
  <2> QED BY <2>1, <2>2, TurnKeepsShape
<1>6. CASE TrialStep
  <2>1. onlyTheTrial /\ trial # "none" /\ trial' # "none"
    BY <1>6 DEF TrialStep, TrialClaims, TrialGoes, TrialAnswers, TrialRaises
  <2> QED BY <2>1 DEF onlyTheTrial, Shape
<1>7. CASE Shutdown
  BY <1>7 DEF Shutdown, database, Shape
<1>8. CASE Close \/ Crash
  BY <1>8 DEF Close, Crash, Gone, Shape
<1>9. CASE Boot
  BY <1>9, RunnerAssumption DEF Boot, Shape
<1>10. CASE UNCHANGED vars
  BY <1>10 DEF vars, database, Shape
<1> QED
  BY <1>1, <1>2, <1>3, <1>4, <1>5, <1>6, <1>7, <1>8, <1>9, <1>10 DEF Next, RunnerStep

-----------------------------------------------------------------------------
(***************************************************************************)
(* The counters.                                                           *)
(***************************************************************************)

\* The counters of one experiment, against where its run is.
CountsFit(e) ==
  /\ Tally(e) <= Plan[e]
  /\ status[e] = "done" => Tally(e) = Plan[e]
  /\ status[e] = "created" => Tally(e) = 0

Counting ==
  /\ \A e \in Experiments : CountsFit(e)
  /\ runner = "trial" => nth = Tally(active) + 1 /\ nth <= Plan[active]
  /\ runner = "routes" => Tally(active) = 0

LEMMA TallyNat ==
  ASSUME TypeOK, NEW e \in Experiments
  PROVE  /\ Tally(e) \in Nat
         /\ \A b \in Buckets : counted[e][b] \in Nat
BY DEF TypeOK, Tally, Buckets

LEMMA TallyCounts ==
  ASSUME TypeOK, NEW e \in Experiments, trial \in Buckets, Count(e)
  PROVE  /\ Tally(e)' = Tally(e) + 1
         /\ \A f \in Experiments : f # e => Tally(f)' = Tally(f)
<1>1. counted[e] \in [Buckets -> Nat]
  BY DEF TypeOK
<1>2. counted'[e] = [counted[e] EXCEPT ![trial] = @ + 1]
  BY CountEffect
<1>3. Tally(e)' = Tally(e) + 1
  BY <1>1, <1>2 DEF Tally, Buckets
<1>4. \A f \in Experiments : f # e => counted'[f] = counted[f]
  BY CountEffect
<1> QED BY <1>3, <1>4 DEF Tally

LEMMA PlanNat == \A e \in Experiments : Plan[e] \in Nat /\ Plan[e] > 0
BY RunnerAssumption

\* A turn that counts the trial in hand, or nothing when none is.
LEMMA TurnKeepsCounting ==
  ASSUME TypeOK, Shape, Counting, NEW e \in Experiments, active = e, runner # "none",
         Turns(e) \/ (AsksRoutes(e) /\ runner = "start"),
         \/ /\ runner = "trial" /\ Tally(e)' = Tally(e) + 1
            /\ \A f \in Experiments : f # e => Tally(f)' = Tally(f)
         \/ runner \in {"start", "routes"} /\ counted' = counted
  PROVE  Counting'
<1> DEFINE now == Tally(e)'
<1>1. \A f \in Experiments : f # e => CountsFit(f)'
  BY DEF Turns, Halts, Advances, AsksRoutes, OthersKept, Counting, CountsFit, Tally
<1>2. now = nth /\ nth \in Nat /\ now <= Plan[e]
  <2>1. CASE runner = "trial"
    BY <2>1, TallyNat, PlanNat DEF Counting, TypeOK
  <2>2. CASE runner \in {"start", "routes"} /\ counted' = counted
    <3>1. Tally(e) = 0 /\ nth = 0
      BY <2>2 DEF Counting, CountsFit, Shape
    <3> QED BY <2>2, <3>1, PlanNat DEF Tally
  <2> QED BY <2>1, <2>2 DEF TypeOK
<1>3. status[e] \in {"created", "running"} /\ (status[e] = "created" => now = 0)
  <2>1. CASE runner = "start"
    BY <2>1, <1>2 DEF Shape
  <2>2. CASE runner # "start"
    BY <2>2 DEF Shape, TypeOK
  <2> QED BY <2>1, <2>2
<1>4. CASE \E ending \in Terminal : Halts(e, ending) /\ (ending = "done" => nth = Plan[e])
  <2>1. PICK ending \in Terminal : Halts(e, ending) /\ (ending = "done" => nth = Plan[e])
    BY <1>4
  <2>2. status'[e] # "done" \/ nth = Plan[e]
    BY <1>3, <2>1 DEF Halts
  <2>3. status'[e] = "created" => status[e] = "created"
    BY <2>1 DEF Halts, Terminal
  <2>4. CountsFit(e)'
    BY <1>2, <1>3, <2>2, <2>3 DEF CountsFit
  <2> QED BY <1>1, <2>1, <2>4 DEF Counting, Halts
<1>5. CASE Advances(e)
  <2>1. status'[e] = "running" /\ runner' = "trial" /\ active' = e
    BY <1>5 DEF Advances
  <2>2. nth' = now + 1 /\ nth' <= Plan[e]
    BY <1>2, <1>5, PlanNat DEF Advances
  <2>3. CountsFit(e)'
    BY <1>2, <2>1 DEF CountsFit
  <2> QED BY <1>1, <2>1, <2>2, <2>3 DEF Counting
<1>6. CASE AsksRoutes(e) /\ runner = "start"
  <2>1. status'[e] = "running" /\ runner' = "routes" /\ active' = e /\ nth = 0
    BY <1>6 DEF AsksRoutes, Shape
  <2>2. CountsFit(e)'
    BY <1>2, <2>1 DEF CountsFit
  <2> QED BY <1>1, <1>2, <2>1, <2>2 DEF Counting
<1> QED BY <1>4, <1>5, <1>6 DEF Turns, Terminal

\* What leaves the counters alone and moves no run on keeps them fitting.
LEMMA SameCounting ==
  ASSUME Counting, counted' = counted, nth' = nth, active' = active,
         runner' = "trial" => runner = "trial",
         runner' = "routes" => runner = "routes",
         \A e \in Experiments : status'[e] \in {status[e], "running", "interrupted"}
  PROVE  Counting'
<1>1. \A e \in Experiments : CountsFit(e)'
  BY DEF Counting, CountsFit, Tally
<1> QED BY <1>1 DEF Counting, Tally

LEMMA CountingStep ==
  ASSUME TypeOK, Shape, Counting, [Next]_vars
  PROVE  Counting'
<1>1. ASSUME NEW e \in Experiments, start_experiment(e) PROVE Counting'
  <2>1. \A f \in Experiments : CountsFit(f)'
    BY <1>1 DEF start_experiment, database, Counting, CountsFit, Tally
  <2> QED BY <1>1, <2>1 DEF start_experiment, Counting
<1>2. ASSUME NEW e \in Experiments, stop_experiment(e) PROVE Counting'
  BY <1>2, SameCounting DEF stop_experiment, database
<1>3. ASSUME NEW e \in Experiments, Begin(e) PROVE Counting'
  <2>1. active = e /\ runner = "start" /\ counted' = counted
    BY <1>3 DEF Begin
  <2> QED BY <1>3, <2>1, BeginTurns, TurnKeepsCounting
<1>4. ASSUME NEW e \in Experiments, Routed(e) PROVE Counting'
  <2>1. active = e /\ runner = "routes" /\ counted' = counted
    BY <1>4 DEF Routed
  <2> QED BY <1>4, <2>1, RoutedTurns, TurnKeepsCounting
<1>5. ASSUME NEW e \in Experiments, Resume(e) PROVE Counting'
  <2>1. active = e /\ runner = "trial"
    BY <1>5 DEF Resume
  <2>2. CASE trial \in Buckets /\ Count(e) /\ Turns(e)
    BY <2>1, <2>2, TallyCounts, TurnKeepsCounting
  <2>3. CASE counted' = counted /\ \E ending \in Terminal \ {"done"} : Halts(e, ending)
    <3>1. PICK ending \in Terminal \ {"done"} : Halts(e, ending)
      BY <2>3
    <3>2. status[e] = "running"
      BY <2>1 DEF Shape
    <3>3. status'[e] # "done" /\ status'[e] # "created"
      BY <3>1, <3>2 DEF Halts, Terminal
    <3>4. \A f \in Experiments : CountsFit(f)'
      BY <2>3, <3>1, <3>3 DEF Counting, CountsFit, Halts, OthersKept, Tally
    <3> QED BY <3>1, <3>4 DEF Halts, Counting
  <2> QED BY <1>5, <2>2, <2>3, ResumeTurns
<1>6. CASE TrialStep
  <2>1. onlyTheTrial
    BY <1>6 DEF TrialStep, TrialClaims, TrialGoes, TrialAnswers, TrialRaises
  <2> QED BY <2>1, SameCounting DEF onlyTheTrial
<1>7. CASE Shutdown
  BY <1>7, SameCounting DEF Shutdown, database
<1>8. CASE Close \/ Crash
  <2>1. status' = status /\ runner' = "none"
    BY <1>8 DEF Close, Crash, Gone
  <2>2. CASE counted' = counted
    <3>1. \A f \in Experiments : CountsFit(f)'
      BY <2>1, <2>2 DEF Counting, CountsFit, Tally
    <3> QED BY <2>1, <3>1 DEF Counting
  <2>3. CASE runner = "trial" /\ trial \in Buckets /\ Count(active)
    <3>1. PICK e \in Experiments : e = active /\ status[e] = "running"
      BY <2>3 DEF Shape
    <3>2. Tally(e)' = nth /\ nth <= Plan[e]
      BY <2>3, <3>1, TallyCounts, TallyNat DEF Counting, TypeOK
    <3>3. \A f \in Experiments : f # e => Tally(f)' = Tally(f)
      BY <2>3, <3>1, TallyCounts
    <3>4. ASSUME NEW f \in Experiments PROVE CountsFit(f)'
      <4>1. CASE f = e
        BY <2>1, <3>1, <3>2, <4>1 DEF CountsFit
      <4>2. CASE f # e
        BY <2>1, <3>3, <4>2 DEF Counting, CountsFit
      <4> QED BY <4>1, <4>2
    <3> QED BY <2>1, <3>4 DEF Counting
  <2> QED BY <1>8, <2>2, <2>3 DEF Close, Crash
<1>9. CASE Boot
  <2>1. \A e \in Experiments : status'[e] \in {status[e], "running", "interrupted"}
    BY <1>9 DEF Boot
  <2> QED BY <1>9, <2>1, SameCounting DEF Boot
<1>10. CASE UNCHANGED vars
  BY <1>10, SameCounting DEF vars, database
<1> QED
  BY <1>1, <1>2, <1>3, <1>4, <1>5, <1>6, <1>7, <1>8, <1>9, <1>10 DEF Next, RunnerStep

-----------------------------------------------------------------------------
(***************************************************************************)
(* What was sent and what was saved, as sets of trials of the plan.        *)
(***************************************************************************)
Unsent == {"ready", "room", "queued"}

\* A run has sent and saved trials of its plan as far as the one it is on.
Sending ==
  /\ \A e \in Experiments : status[e] = "created" => sent[e] = {}
  /\ runner = "routes" => sent[active] = {}
  /\ runner = "trial" => /\ \A k \in sent[active] : k <= nth
                         /\ trial \in Unsent => nth \notin sent[active]

Saving == \A e \in Experiments : \A k \in rows[e] : k \in 1..(Tally(e) + 1)

\* The trial's steps alone touch `sent`, and only where it is on.
LEMMA SendingStep ==
  ASSUME TypeOK, Shape, Sending, [Next]_vars
  PROVE  Sending'
<1>a. \A e \in Experiments : \A k \in sent[e] : k \in Nat
  BY DEF TypeOK
<1>1. ASSUME NEW e \in Experiments, start_experiment(e) PROVE Sending'
  BY <1>1 DEF start_experiment, database, Sending
<1>2. ASSUME NEW e \in Experiments, stop_experiment(e) PROVE Sending'
  BY <1>2 DEF stop_experiment, database, Sending
<1>3. ASSUME NEW e \in Experiments, active = e, runner # "none", sent' = sent,
             Turns(e) \/ (AsksRoutes(e) /\ runner = "start")
      PROVE  Sending'
  <2>1. \A f \in Experiments : status'[f] = "created" => sent'[f] = {}
    <3>1. \A f \in Experiments : status'[f] = "created" => status[f] = "created"
      BY <1>3 DEF Turns, Halts, Advances, AsksRoutes, OthersKept, Terminal
    <3> QED BY <1>3, <3>1 DEF Sending
  <2>2. runner \in {"start", "routes"} => sent[e] = {}
    BY <1>3 DEF Sending, Shape
  <2>3. CASE \E ending : Halts(e, ending)
    BY <2>1, <2>3 DEF Halts, Sending
  <2>4. CASE Advances(e)
    <3>1. \A k \in sent[e] : k <= nth
      BY <1>3, <2>2 DEF Sending, TypeOK
    <3>2. \A k \in sent[e] : k <= nth + 1 /\ k # nth + 1
      BY <1>a, <3>1 DEF TypeOK
    <3> QED BY <1>3, <2>1, <2>4, <3>2 DEF Advances, Sending
  <2>5. CASE AsksRoutes(e) /\ runner = "start"
    BY <1>3, <2>1, <2>2, <2>5 DEF AsksRoutes, Sending
  <2> QED BY <1>3, <2>3, <2>4, <2>5 DEF Turns
<1>4. CASE RunnerStep
  <2>1. PICK e \in Experiments : Begin(e) \/ Routed(e) \/ Resume(e)
    BY <1>4 DEF RunnerStep
  <2>2. active = e /\ runner # "none" /\ sent' = sent
    BY <2>1 DEF Begin, Routed, Resume
  <2>3. Turns(e) \/ (AsksRoutes(e) /\ runner = "start")
    <3>1. CASE Begin(e)
      BY <3>1, BeginTurns DEF Begin
    <3>2. CASE Routed(e)
      BY <3>2, RoutedTurns
    <3>3. CASE Resume(e)
      BY <3>3, ResumeTurns DEF Turns
    <3> QED BY <2>1, <3>1, <3>2, <3>3
  <2> QED BY <2>2, <2>3, <1>3
<1>5. CASE TrialClaims \/ TrialAnswers \/ TrialRaises
  <2>1. onlyTheTrial /\ sent' = sent /\ (trial' \in Unsent => trial \in Unsent)
    BY <1>5 DEF TrialClaims, TrialAnswers, TrialRaises, Unsent
  <2> QED BY <2>1 DEF onlyTheTrial, Sending
<1>6. CASE TrialGoes
  <2>1. onlyTheTrial /\ trial = "queued" /\ trial' \notin Unsent
    BY <1>6 DEF TrialGoes, Unsent
  <2>2. CASE sent' = sent
    BY <2>1, <2>2 DEF onlyTheTrial, Sending
  <2>3. CASE sent' = [sent EXCEPT ![active] = @ \cup {nth}]
    <3>1. active \in Experiments /\ runner = "trial" /\ status[active] = "running"
      BY <2>1 DEF Shape
    <3>2. sent'[active] = sent[active] \cup {nth}
      BY <2>3, <3>1 DEF TypeOK
    <3>3. \A f \in Experiments : f # active => sent'[f] = sent[f]
      BY <2>3, <3>1 DEF TypeOK
    <3>4. \A k \in sent'[active] : k <= nth
      BY <3>1, <3>2 DEF Sending, TypeOK
    <3> QED BY <2>1, <3>1, <3>3, <3>4 DEF onlyTheTrial, Sending
  <2> QED BY <1>6, <2>2, <2>3 DEF TrialGoes
<1>7. CASE Shutdown
  BY <1>7 DEF Shutdown, database, Sending
<1>8. CASE Close \/ Crash
  BY <1>8 DEF Close, Crash, Gone, Sending
<1>9. CASE Boot
  BY <1>9 DEF Boot, Sending
<1>10. CASE UNCHANGED vars
  BY <1>10 DEF vars, database, Sending
<1> QED
  BY <1>1, <1>2, <1>4, <1>5, <1>6, <1>7, <1>8, <1>9, <1>10 DEF Next, TrialStep

\* A counter only grows, so what was saved stays within it.
LEMMA SavingStep ==
  ASSUME TypeOK, Shape, Counting, Saving, [Next]_vars
  PROVE  Saving'
<1>1. ASSUME rows' = rows, \A e \in Experiments : Tally(e)' \in {Tally(e), Tally(e) + 1}
      PROVE  Saving'
  <2> SUFFICES ASSUME NEW e \in Experiments, NEW k \in rows'[e]
               PROVE  k \in 1..(Tally(e)' + 1)
    BY DEF Saving, Tally
  <2>1. k \in 1..(Tally(e) + 1)
    BY <1>1 DEF Saving
  <2> QED BY <1>1, <2>1, TallyNat
<1>2. ASSUME rows' = rows, counted' = counted PROVE Saving'
  BY <1>2 DEF Saving, Tally
<1>3. ASSUME rows' = rows, NEW e \in Experiments, trial \in Buckets, Count(e) PROVE Saving'
  BY <1>1, <1>3, TallyCounts
<1>4. ASSUME SaveRun, counted' = counted, runner = "trial" PROVE Saving'
  <2>1. active \in Experiments /\ nth \in 1..(Tally(active) + 1)
    BY <1>4, TallyNat DEF Shape, Counting, TypeOK
  <2>2. CASE rows' = [rows EXCEPT ![active] = @ \cup {nth}]
    <3>1. \A e \in Experiments : \A k \in rows'[e] :
            k \in rows[e] \/ (e = active /\ k = nth)
      BY <2>1, <2>2 DEF TypeOK
    <3> QED BY <1>4, <2>1, <3>1 DEF Saving, Tally
  <2> QED BY <1>2, <1>4, <2>2 DEF SaveRun
<1>5. CASE RunnerStep
  <2>1. PICK e \in Experiments : Begin(e) \/ Routed(e) \/ Resume(e)
    BY <1>5 DEF RunnerStep
  <2>2. rows' = rows
    BY <2>1 DEF Begin, Routed, Resume
  <2>3. counted' = counted \/ (trial \in Buckets /\ Count(e))
    BY <2>1 DEF Begin, Routed, Resume
  <2> QED BY <2>2, <2>3, <1>2, <1>3
<1>6. CASE TrialStep
  <2>1. counted' = counted /\ runner = "trial" /\ (rows' = rows \/ SaveRun)
    BY <1>6 DEF TrialStep, TrialClaims, TrialGoes, TrialAnswers, TrialRaises, onlyTheTrial, Shape
  <2> QED BY <2>1, <1>2, <1>4
<1>7. CASE Crash
  <2>1. rows' = rows
    BY <1>7 DEF Crash, Gone
  <2>2. counted' = counted \/ (active \in Experiments /\ trial \in Buckets /\ Count(active))
    BY <1>7 DEF Crash, Shape
  <2> QED BY <2>1, <2>2, <1>2, <1>3
<1>8. CASE \/ \E e \in Experiments : start_experiment(e) \/ stop_experiment(e)
           \/ Shutdown \/ Close \/ Boot \/ UNCHANGED vars
  BY <1>2, <1>8 DEF start_experiment, stop_experiment, Shutdown, Close, Gone, Boot, vars, database
<1> QED BY <1>5, <1>6, <1>7, <1>8 DEF Next

-----------------------------------------------------------------------------
(***************************************************************************)
(* What was sent against what was counted.                                 *)
(***************************************************************************)
Heard(e) == counted[e]["done"] + counted[e]["failed"]

\* The trial in hand has been sent and is not counted yet.
Owing == runner = "trial" /\ trial \in {"wire", "done", "failed"}

Owed(e) == IF Owing /\ e = active THEN 1 ELSE 0

Accounted(e) ==
  /\ IsFiniteSet(sent[e])
  /\ Cardinality(sent[e]) <= Heard(e) + 1
  /\ e \notin marred => Cardinality(sent[e]) = Heard(e) + Owed(e)
  /\ e \in marred => status[e] # "created"

Accounts ==
  /\ \A e \in Experiments : Accounted(e)
  /\ runner # "none" /\ trial # "raised" => active \notin marred

LEMMA HeardNat ==
  ASSUME TypeOK, NEW e \in Experiments
  PROVE  Heard(e) \in Nat
BY DEF TypeOK, Heard, Buckets

LEMMA HeardCounts ==
  ASSUME TypeOK, Shape, NEW e \in Experiments, active = e, runner = "trial",
         trial \in Buckets, Count(e)
  PROVE  /\ Heard(e)' = Heard(e) + Owed(e)
         /\ \A f \in Experiments : f # e => Heard(f)' = Heard(f) /\ Owed(f) = 0
<1>1. counted[e] \in [Buckets -> Nat]
  BY DEF TypeOK
<1>2. counted'[e] = [counted[e] EXCEPT ![trial] = @ + 1]
  BY CountEffect
<1>3. Heard(e)' = Heard(e) + Owed(e)
  BY <1>1, <1>2 DEF Heard, Buckets, Owed, Owing
<1>4. \A f \in Experiments : f # e => counted'[f] = counted[f]
  BY CountEffect
<1> QED BY <1>3, <1>4 DEF Heard, Owed

\* An account that stands: nothing of it moved but what it owed.
LEMMA AccountStands ==
  ASSUME TypeOK, NEW e \in Experiments, Accounted(e), sent'[e] = sent[e],
         status'[e] = "created" => status[e] = "created",
         \/ Heard(e)' = Heard(e) /\ Owed(e)' = Owed(e) /\ (e \in marred' <=> e \in marred)
         \/ Heard(e)' = Heard(e) + Owed(e) /\ Owed(e)' = 0 /\ (e \in marred' <=> e \in marred)
         \/ Heard(e)' = Heard(e) /\ e \in marred' /\ status'[e] # "created"
  PROVE  Accounted(e)'
<1>1. Heard(e) \in Nat /\ Owed(e) \in {0, 1} /\ Cardinality(sent[e]) \in Nat
  BY HeardNat, FS_CardinalityType DEF Owed, Accounted
<1>2. IsFiniteSet(sent'[e]) /\ Cardinality(sent'[e]) = Cardinality(sent[e])
  BY DEF Accounted
<1>3. Cardinality(sent[e]) <= Heard(e)' + 1
  BY <1>1 DEF Accounted
<1>4. e \notin marred' => Cardinality(sent[e]) = Heard(e)' + Owed(e)'
  BY <1>1 DEF Accounted
<1>5. e \in marred' => status'[e] # "created"
  BY DEF Accounted
<1> QED BY <1>2, <1>3, <1>4, <1>5 DEF Accounted

\* Nothing is owed when a turn begins without a trial or leaves the trial.
LEMMA TurnKeepsAccounts ==
  ASSUME TypeOK, Shape, Accounts, NEW e \in Experiments, active = e, runner # "none",
         sent' = sent, Turns(e) \/ AsksRoutes(e),
         \/ /\ counted' = counted /\ runner \in {"start", "routes"} /\ marred' = marred
         \/ /\ runner = "trial" /\ trial \in Buckets /\ Count(e) /\ marred' = marred
         \/ /\ runner = "trial" /\ counted' = counted /\ runner' = "none"
            /\ \/ trial \in Buckets /\ marred' = marred \cup {e}
               \/ trial \in {"unreached", "raised"} /\ marred' = marred
  PROVE  Accounts'
<1>1. ~Owing' /\ \A f \in Experiments : Owed(f)' = 0
  BY DEF Turns, Halts, Advances, AsksRoutes, Owing, Owed, Shape
<1>2. \A f \in Experiments : f # e => Owed(f) = 0
  BY DEF Owed
<1>3. \A f \in Experiments : status'[f] = "created" => status[f] = "created"
  BY DEF Turns, Halts, Advances, AsksRoutes, OthersKept, Terminal
<1>4. ASSUME NEW f \in Experiments PROVE Accounted(f)'
  <2>1. Accounted(f) /\ sent'[f] = sent[f]
    BY DEF Accounts
  <2>2. CASE counted' = counted /\ runner \in {"start", "routes"} /\ marred' = marred
    <3>1. Owed(f) = 0
      BY <2>2 DEF Owed, Owing
    <3>2. Heard(f)' = Heard(f)
      BY <2>2 DEF Heard
    <3> QED BY <1>1, <1>3, <2>1, <2>2, <3>1, <3>2, AccountStands
  <2>3. CASE runner = "trial" /\ trial \in Buckets /\ Count(e) /\ marred' = marred
    <3>1. Heard(f)' = Heard(f) + Owed(f)
      <4>1. Heard(f) \in Nat
        BY HeardNat
      <4> QED BY <2>3, <4>1, HeardCounts
    <3> QED BY <1>1, <1>3, <2>1, <2>3, <3>1, AccountStands
  <2>4. CASE /\ runner = "trial" /\ counted' = counted /\ runner' = "none"
             /\ \/ trial \in Buckets /\ marred' = marred \cup {e}
                \/ trial \in {"unreached", "raised"} /\ marred' = marred
    <3>1. Heard(f)' = Heard(f)
      BY <2>4 DEF Heard
    <3>2. CASE trial \in {"unreached", "raised"} \/ f # e
      <4>1. Owed(f) = 0
        BY <1>2, <3>2 DEF Owed, Owing
      <4>2. f \in marred' <=> f \in marred
        BY <2>4, <3>2 DEF Buckets
      <4> QED BY <1>1, <1>3, <2>1, <3>1, <4>1, <4>2, AccountStands
    <3>3. CASE f = e /\ marred' = marred \cup {e}
      <4>1. status[e] = "running"
        BY <2>4 DEF Shape
      <4>2. status'[e] # "created"
        BY <1>3, <4>1
      <4> QED BY <1>3, <2>1, <3>1, <3>3, <4>2, AccountStands
    <3> QED BY <2>4, <3>2, <3>3
  <2> QED BY <2>2, <2>3, <2>4
<1>5. runner' # "none" => active' \notin marred'
  <2>1. runner' # "none" => active' = e /\ marred' = marred
    BY DEF Turns, Halts, Advances, AsksRoutes
  <2>2. runner' # "none" => trial # "raised"
    BY DEF Buckets, Shape
  <2> QED BY <2>1, <2>2 DEF Accounts
<1> QED BY <1>4, <1>5 DEF Accounts

LEMMA AccountsStep ==
  ASSUME TypeOK, Shape, Sending, Accounts, [Next]_vars
  PROVE  Accounts'
<1>a. \A e \in Experiments : Accounted(e)
  BY DEF Accounts
\* What moves neither the counters, what was sent nor the marks.
<1>b. ASSUME counted' = counted, sent' = sent, marred' = marred, ~Owing, ~Owing',
             \A e \in Experiments : status'[e] = "created" => status[e] = "created"
      PROVE  \A e \in Experiments : Accounted(e)'
  <2> SUFFICES ASSUME NEW e \in Experiments PROVE Accounted(e)'
    OBVIOUS
  <2>1. Heard(e)' = Heard(e) /\ Owed(e)' = Owed(e)
    BY <1>b DEF Heard, Owed
  <2> QED BY <1>a, <1>b, <2>1, AccountStands
<1>c. ASSUME counted' = counted, sent' = sent, marred' = marred, status' = status,
             Owing' = Owing, active' = active
      PROVE  \A e \in Experiments : Accounted(e)'
  <2> SUFFICES ASSUME NEW e \in Experiments PROVE Accounted(e)'
    OBVIOUS
  <2>1. Heard(e)' = Heard(e) /\ Owed(e)' = Owed(e)
    BY <1>c DEF Heard, Owed
  <2> QED BY <1>a, <1>c, <2>1, AccountStands
<1>1. ASSUME NEW e \in Experiments, start_experiment(e) PROVE Accounts'
  <2>1. status[e] = "created" /\ active' = e /\ marred' = marred
    BY <1>1 DEF start_experiment
  <2>2. ~Owing /\ ~Owing'
    BY <1>1, RunnerAssumption DEF start_experiment, Owing, Shape
  <2>3. \A f \in Experiments : Accounted(f)'
    BY <1>1, <1>b, <2>2 DEF start_experiment, database
  <2> QED BY <1>a, <2>1, <2>3 DEF Accounts, Accounted
<1>2. CASE (\E e \in Experiments : stop_experiment(e)) \/ Shutdown \/ UNCHANGED vars
  <2>1. UNCHANGED <<counted, sent, marred, status, runner, trial, active>>
    BY <1>2 DEF stop_experiment, Shutdown, vars, database
  <2>2. \A f \in Experiments : Accounted(f)'
    BY <1>c, <2>1 DEF Owing
  <2> QED BY <2>1, <2>2 DEF Accounts
<1>3. ASSUME NEW e \in Experiments, Begin(e) PROVE Accounts'
  <2>1. active = e /\ runner = "start" /\ UNCHANGED <<counted, sent, marred>>
    BY <1>3 DEF Begin
  <2> QED BY <1>3, <2>1, BeginTurns, TurnKeepsAccounts
<1>4. ASSUME NEW e \in Experiments, Routed(e) PROVE Accounts'
  <2>1. active = e /\ runner = "routes" /\ UNCHANGED <<counted, sent, marred>>
    BY <1>4 DEF Routed
  <2> QED BY <1>4, <2>1, RoutedTurns, TurnKeepsAccounts
<1>5. ASSUME NEW e \in Experiments, Resume(e) PROVE Accounts'
  <2>1. active = e /\ runner = "trial" /\ sent' = sent
    BY <1>5 DEF Resume
  <2>2. CASE trial \in Buckets /\ Count(e) /\ Turns(e) /\ marred' = marred
    BY <2>1, <2>2, TurnKeepsAccounts
  <2>3. CASE /\ counted' = counted
             /\ \E ending \in Terminal \ {"done"} : Halts(e, ending)
             /\ \/ trial \in Buckets /\ marred' = marred \cup {e}
                \/ trial \in {"unreached", "raised"} /\ marred' = marred
    <3>1. Turns(e) /\ runner' = "none"
      BY <2>3 DEF Turns, Halts
    <3> QED BY <2>1, <2>3, <3>1, TurnKeepsAccounts
  <2> QED BY <1>5, <2>2, <2>3, ResumeTurns
<1>6. CASE TrialClaims
  <2>1. onlyTheTrial /\ sent' = sent /\ marred' = marred /\ ~Owing /\ ~Owing' /\ trial # "raised"
    BY <1>6 DEF TrialClaims, Owing
  <2> QED BY <1>b, <2>1 DEF onlyTheTrial, Accounts
<1>7. CASE TrialAnswers
  <2>1. onlyTheTrial /\ sent' = sent /\ marred' = marred /\ Owing' = Owing /\ trial # "raised"
    BY <1>7 DEF TrialAnswers, Owing, onlyTheTrial
  <2> QED BY <1>c, <2>1 DEF onlyTheTrial, Accounts
<1>8. CASE TrialGoes
  <2>1. onlyTheTrial /\ marred' = marred /\ trial = "queued" /\ ~Owing
    BY <1>8 DEF TrialGoes, Owing
  <2>2. CASE trial' = "refused" /\ sent' = sent
    <3>1. ~Owing'
      BY <2>2 DEF Owing
    <3> QED BY <1>b, <2>1, <2>2, <3>1 DEF onlyTheTrial, Accounts
  <2>3. CASE trial' = "wire" /\ sent' = [sent EXCEPT ![active] = @ \cup {nth}]
    <3>1. PICK e \in Experiments : e = active /\ runner = "trial" /\ e \notin marred
      BY <2>1 DEF Shape, Accounts
    <3>2. sent'[e] = sent[e] \cup {nth} /\ nth \notin sent[e]
      BY <2>1, <2>3, <3>1 DEF TypeOK, Sending, Unsent
    <3>3. \A f \in Experiments : f # e => sent'[f] = sent[f]
      BY <2>3, <3>1 DEF TypeOK
    <3>4. Accounted(e)'
      <4>1. IsFiniteSet(sent[e]) /\ Cardinality(sent[e]) = Heard(e) + Owed(e)
        BY <1>a, <3>1 DEF Accounted
      <4>2. Owed(e) = 0 /\ Owed(e)' = 1 /\ Heard(e)' = Heard(e)
        BY <2>1, <2>3, <3>1 DEF onlyTheTrial, Owed, Owing, Heard
      <4>3. IsFiniteSet(sent'[e]) /\ Cardinality(sent'[e]) = Cardinality(sent[e]) + 1
        BY <3>2, <4>1, FS_AddElement
      <4>4. Heard(e) \in Nat /\ Cardinality(sent[e]) = Heard(e)
        BY <4>1, <4>2, HeardNat
      <4>5. Cardinality(sent'[e]) = Heard(e)' + Owed(e)' /\ Cardinality(sent'[e]) <= Heard(e)' + 1
        BY <4>2, <4>3, <4>4
      <4> QED BY <2>1, <3>1, <4>3, <4>5 DEF Accounted
    <3>5. ASSUME NEW f \in Experiments, f # e PROVE Accounted(f)'
      <4>1. Owed(f)' = Owed(f) /\ Heard(f)' = Heard(f)
        BY <2>1, <3>1, <3>5 DEF onlyTheTrial, Owed, Heard
      <4> QED BY <1>a, <2>1, <3>3, <3>5, <4>1, AccountStands DEF onlyTheTrial
    <3> QED BY <2>1, <3>4, <3>5 DEF onlyTheTrial, Accounts
  <2> QED BY <1>8, <2>2, <2>3 DEF TrialGoes
<1>9. CASE TrialRaises
  <2>1. onlyTheTrial /\ sent' = sent /\ trial' = "raised" /\ ~Owing'
    BY <1>9 DEF TrialRaises, Owing
  <2>2. CASE trial # "wire" /\ marred' = marred
    <3>1. ~Owing
      BY <1>9, <2>2 DEF TrialRaises, Owing
    <3> QED BY <1>b, <2>1, <2>2, <3>1 DEF onlyTheTrial, Accounts
  <2>3. CASE trial = "wire" /\ marred' = marred \cup {active}
    <3>1. status[active] = "running"
      BY <2>3 DEF Shape
    <3>2. ASSUME NEW f \in Experiments PROVE Accounted(f)'
      <4>1. Heard(f)' = Heard(f)
        BY <2>1 DEF onlyTheTrial, Heard
      <4>2. CASE f = active
        BY <1>a, <2>1, <2>3, <3>1, <4>1, <4>2, AccountStands DEF onlyTheTrial
      <4>3. CASE f # active
        <5>1. Owed(f)' = Owed(f) /\ (f \in marred' <=> f \in marred)
          BY <2>1, <2>3, <4>3 DEF onlyTheTrial, Owed
        <5> QED BY <1>a, <2>1, <4>1, <5>1, AccountStands DEF onlyTheTrial
      <4> QED BY <4>2, <4>3
    <3> QED BY <2>1, <3>2 DEF Accounts
  <2> QED BY <1>9, <2>2, <2>3 DEF TrialRaises
<1>10. CASE Close
  <2>1. ~Owing /\ ~Owing'
    BY <1>10 DEF Close, Gone, Owing
  <2> QED BY <1>10, <1>b, <2>1 DEF Close, Gone, Accounts
<1>11. CASE Crash
  <2>1. status' = status /\ sent' = sent /\ runner' = "none" /\ ~Owing'
    BY <1>11 DEF Crash, Gone, Owing
  <2>2. \A f \in Experiments : Owed(f)' = 0
    BY <2>1 DEF Owed
  <2>3. CASE /\ counted' = counted
             /\ marred' = IF trial \in Buckets \cup {"wire"} THEN marred \cup {active} ELSE marred
    <3>1. CASE trial \in Buckets \cup {"wire"}
      <4>1. status[active] = "running" /\ marred' = marred \cup {active}
        BY <2>3, <3>1 DEF Shape, Buckets
      <4>2. ASSUME NEW f \in Experiments PROVE Accounted(f)'
        <5>1. Heard(f)' = Heard(f)
          BY <2>3 DEF Heard
        <5>2. CASE f = active
          BY <1>a, <2>1, <4>1, <5>1, <5>2, AccountStands
        <5>3. CASE f # active
          <6>1. Owed(f) = 0 /\ (f \in marred' <=> f \in marred)
            BY <4>1, <5>3 DEF Owed
          <6> QED BY <1>a, <2>1, <2>2, <5>1, <6>1, AccountStands
        <5> QED BY <5>2, <5>3
      <4> QED BY <2>1, <4>2 DEF Accounts
    <3>2. CASE trial \notin Buckets \cup {"wire"}
      <4>1. ~Owing /\ marred' = marred
        BY <2>3, <3>2 DEF Owing, Buckets
      <4> QED BY <1>b, <2>1, <2>3, <4>1 DEF Accounts
    <3> QED BY <3>1, <3>2
  <2>4. CASE runner = "trial" /\ trial \in Buckets /\ Count(active) /\ marred' = marred
    <3>1. PICK e \in Experiments : e = active
      BY <2>4 DEF Shape
    <3>2. ASSUME NEW f \in Experiments PROVE Accounted(f)'
      <4>1. Heard(f)' = Heard(f) + Owed(f)
        <5>1. Heard(f) \in Nat
          BY HeardNat
        <5> QED BY <2>4, <3>1, <5>1, HeardCounts
      <4> QED BY <1>a, <2>1, <2>2, <2>4, <4>1, AccountStands
    <3> QED BY <2>1, <3>2 DEF Accounts
  <2> QED BY <1>11, <2>3, <2>4 DEF Crash
<1>12. CASE Boot
  <2>1. runner = "none" /\ ~Owing /\ ~Owing'
    BY <1>12 DEF Boot, Shape, Owing
  <2>2. \A e \in Experiments : status'[e] = "created" => status[e] = "created"
    BY <1>12 DEF Boot
  <2> QED BY <1>12, <1>b, <2>1, <2>2 DEF Boot, Accounts
<1> QED
  BY <1>1, <1>2, <1>3, <1>4, <1>5, <1>6, <1>7, <1>8, <1>9, <1>10, <1>11, <1>12
     DEF Next, RunnerStep, TrialStep

-----------------------------------------------------------------------------
(***************************************************************************)
(* The causes of an ending.                                                *)
(***************************************************************************)
Settled == {"settled_and_persisted", "never_sent"}

Caused(e) ==
  /\ status[e] = "stopped" => e \in asked
  /\ status[e] = "halted_on_refusal"
       => e \in HaltOnRefusal /\ counted[e]["refused"] > 0
  /\ detail[e] \in Settled
       => status[e] = "interrupted" /\ Cardinality(sent[e]) = Heard(e)

\* The event is set by a Stop or, with the cancellation, by shutdown, which
\* finds no run at its first step; and a trial gives up its wait for room
\* only when it is set.
Causes ==
  /\ \A e \in Experiments : Caused(e)
  /\ runner # "none" /\ stop /\ ~cancel => active \in asked
  /\ cancel => proc = "closing" /\ runner # "start"
  /\ trial = "unreached" => stop

\* What an ending must have to be written.
Warranted(e, ending, said) ==
  /\ ending = "stopped" => e \in asked
  /\ ending = "halted_on_refusal"
       => e \in HaltOnRefusal /\ counted'[e]["refused"] > 0
  /\ said \in Settled
       => ending = "interrupted" /\ Cardinality(sent'[e]) = Heard(e)'

LEMMA EndIsCaused ==
  ASSUME TypeOK, NEW e \in Experiments, Caused(e), status[e] \in {"created", "running"},
         NEW ending \in Terminal, NEW said \in Details, NEW before \in {status[e], "running"},
         End(e, before, ending, said), Warranted(e, ending, said), asked' = asked
  PROVE  Caused(e)'
<1>1. CASE /\ status' = [status EXCEPT ![e] = ending]
           /\ detail' = [detail EXCEPT ![e] = said]
  <2>1. status'[e] = ending /\ detail'[e] = said
    BY <1>1 DEF TypeOK
  <2> QED BY <2>1 DEF Warranted, Caused
<1>2. CASE status' = [status EXCEPT ![e] = before] /\ detail' = detail
  <2>1. status'[e] \in {"created", "running"} /\ detail'[e] = detail[e]
    BY <1>2 DEF TypeOK
  <2>2. detail'[e] \notin Settled
    BY <2>1 DEF Caused
  <2> QED BY <2>1, <2>2 DEF Caused
<1> QED BY <1>1, <1>2 DEF End

\* A run that goes on has no ending to account for.
LEMMA RunningIsCaused ==
  ASSUME NEW e \in Experiments, Caused(e), status[e] \in {"created", "running"},
         status'[e] = "running", detail'[e] = detail[e]
  PROVE  Caused(e)'
BY DEF Caused

LEMMA OnwardIsCaused ==
  ASSUME TypeOK, NEW e \in Experiments, Caused(e), status[e] \in {"created", "running"},
         Onward(e), stop => e \in asked, asked' = asked
  PROVE  Caused(e)'
<1>1. {"done", "stopped", "failed"} \subseteq Terminal /\ "" \in Details /\ "" \notin Settled
  BY DEF Terminal, Details, Settled
<1>2. CASE End(e, "running", "done", "")
  BY <1>1, <1>2, EndIsCaused DEF Warranted
<1>3. CASE stop /\ End(e, "running", "stopped", "")
  BY <1>1, <1>3, EndIsCaused DEF Warranted
<1>4. CASE End(e, "running", "failed", "")
  BY <1>1, <1>4, EndIsCaused DEF Warranted
<1>5. CASE StartTrial(e)
  <2>1. status'[e] = "running" /\ detail'[e] = detail[e]
    BY <1>5 DEF StartTrial, TypeOK
  <2> QED BY <2>1, RunningIsCaused
<1> QED BY <1>2, <1>3, <1>4, <1>5 DEF Onward

\* An account that owes nothing is what "settled" and "never sent" say.
LEMMA NothingOwed ==
  ASSUME TypeOK', Accounts', NEW e \in Experiments, e \notin marred', runner' = "none"
  PROVE  Cardinality(sent'[e]) = Heard(e)'
<1>1. Owed(e)' = 0
  BY DEF Owed, Owing
<1>2. Heard(e)' \in Nat
  BY DEF TypeOK, Heard, Buckets
<1> QED BY <1>1, <1>2 DEF Accounts, Accounted

LEMMA TurnIsCaused ==
  ASSUME TypeOK, Shape, Accounts, Causes, TypeOK', Accounts',
         NEW e \in Experiments, Begin(e) \/ Routed(e) \/ Resume(e)
  PROVE  Caused(e)'
<1>1. /\ active = e /\ runner # "none" /\ asked' = asked /\ Caused(e)
      /\ status[e] \in {"created", "running"} /\ (stop /\ ~cancel => e \in asked)
  BY DEF Begin, Routed, Resume, Shape, TypeOK, Causes
<1>2. {"interrupted", "failed", "stopped", "halted_on_refusal"} \subseteq Terminal
      /\ {"", "settled_and_persisted", "never_sent"} \subseteq Details
      /\ "" \notin Settled
  BY DEF Terminal, Details, Settled
<1>3. CASE Begin(e)
  <2>1. CASE End(e, status[e], "failed", "")
    BY <1>1, <1>2, <2>1, EndIsCaused DEF Warranted
  <2>2. CASE Onward(e)
    <3>1. stop => e \in asked
      BY <1>1, <1>3 DEF Begin, Causes
    <3> QED BY <1>1, <2>2, <3>1, OnwardIsCaused
  <2>3. CASE status' = [status EXCEPT ![e] = "running"] /\ detail' = detail
    <3>1. status'[e] = "running" /\ detail'[e] = detail[e]
      BY <2>3 DEF TypeOK
    <3> QED BY <1>1, <3>1, RunningIsCaused
  <2> QED BY <1>3, <2>1, <2>2, <2>3 DEF Begin
<1>4. ASSUME End(e, "running", "interrupted", "settled_and_persisted")
             \/ End(e, "running", "interrupted", "never_sent"),
             marred' = marred, trial # "raised"
      PROVE  Caused(e)'
  <2>1. e \notin marred'
    BY <1>1, <1>4 DEF Accounts
  <2>2. runner' = "none"
    BY <1>4 DEF End
  <2>3. Cardinality(sent'[e]) = Heard(e)'
    BY <2>1, <2>2, NothingOwed
  <2> QED BY <1>1, <1>2, <1>4, <2>3, EndIsCaused DEF Warranted
<1>5. CASE Routed(e)
  <2>1. marred' = marred /\ trial # "raised"
    BY <1>5 DEF Routed, Shape
  <2>2. CASE cancel
    BY <1>4, <1>5, <2>1, <2>2 DEF Routed
  <2>3. CASE ~cancel
    BY <1>1, <1>5, <2>3, OnwardIsCaused DEF Routed
  <2> QED BY <2>2, <2>3
<1>6. CASE trial \in Buckets /\ Count(e) /\ AfterCount(e) /\ marred' = marred
  <2>1. trial # "raised"
    BY <1>6 DEF Buckets
  <2>2. CASE End(e, "running", "interrupted", "settled_and_persisted")
    BY <1>4, <1>6, <2>1, <2>2
  <2>3. CASE /\ trial = "refused" /\ e \in HaltOnRefusal
             /\ End(e, "running", "halted_on_refusal", "")
    <3>1. counted[e] \in [Buckets -> Nat] /\ counted'[e] = [counted[e] EXCEPT ![trial] = @ + 1]
      BY <1>6, CountEffect DEF TypeOK
    <3>2. counted[e]["refused"] \in Nat /\ counted'[e]["refused"] = counted[e]["refused"] + 1
      BY <2>3, <3>1 DEF Buckets
    <3>3. counted'[e]["refused"] > 0
      BY <3>2
    <3> QED BY <1>1, <1>2, <2>3, <3>3, EndIsCaused DEF Warranted
  <2>4. CASE ~cancel /\ Onward(e)
    BY <1>1, <2>4, OnwardIsCaused
  <2> QED BY <1>6, <2>2, <2>3, <2>4 DEF AfterCount
<1>7. CASE End(e, "running", "failed", "")
  BY <1>1, <1>2, <1>7, EndIsCaused DEF Warranted
<1>8. CASE /\ trial = "unreached" /\ UNCHANGED <<counted, marred>>
           /\ IF cancel THEN End(e, "running", "interrupted", "never_sent")
                        ELSE End(e, "running", "stopped", "")
  <2>1. CASE cancel
    BY <1>4, <1>8, <2>1
  <2>2. CASE ~cancel
    <3>1. e \in asked
      BY <1>1, <1>8, <2>2 DEF Causes
    <3> QED BY <1>1, <1>2, <1>8, <2>2, <3>1, EndIsCaused DEF Warranted
  <2> QED BY <2>1, <2>2
<1> QED BY <1>3, <1>5, <1>6, <1>7, <1>8 DEF Resume

LEMMA CausesStep ==
  ASSUME TypeOK, Shape, Accounts, Causes, TypeOK', Accounts', [Next]_vars
  PROVE  Causes'
\* What leaves the columns an ending is judged by alone.
<1>a. ASSUME UNCHANGED <<status, detail, counted, sent>>, asked \subseteq asked'
      PROVE  \A e \in Experiments : Caused(e)'
  BY <1>a DEF Causes, Caused, Heard
<1>1. CASE \E e \in Experiments : start_experiment(e) \/ stop_experiment(e)
  <2>1. \A e \in Experiments : Caused(e)'
    BY <1>1, <1>a DEF start_experiment, stop_experiment, database
  <2>2. active = None => trial = "none"
    BY RunnerAssumption DEF Shape
  <2> QED BY <1>1, <2>1, <2>2 DEF start_experiment, stop_experiment, Causes
<1>2. CASE RunnerStep
  <2>1. PICK e \in Experiments : Begin(e) \/ Routed(e) \/ Resume(e)
    BY <1>2 DEF RunnerStep
  <2>2. active = e /\ runner # "none" /\ UNCHANGED <<stop, cancel, asked, sent>>
    BY <2>1 DEF Begin, Routed, Resume
  <2>3. Turns(e) \/ AsksRoutes(e)
    BY <2>1, BeginTurns, RoutedTurns, ResumeTurns DEF Turns
  <2>4. \A f \in Experiments : f # e => counted'[f] = counted[f]
    <3>1. counted' = counted \/ (trial \in Buckets /\ Count(e))
      BY <2>1 DEF Begin, Routed, Resume
    <3> QED BY <3>1, CountEffect
  <2>5. ASSUME NEW f \in Experiments, f # e PROVE Caused(f)'
    <3>1. status'[f] = status[f] /\ detail'[f] = detail[f]
      BY <2>3, <2>5 DEF Turns, Halts, Advances, AsksRoutes, OthersKept
    <3> QED BY <2>2, <2>4, <2>5, <3>1 DEF Causes, Caused, Heard
  <2>6. Caused(e)'
    BY <2>1, TurnIsCaused
  <2>7. (runner' # "none" => active' = active) /\ (trial' = "unreached" => trial = "unreached")
    BY <2>3 DEF Turns, Halts, Advances, AsksRoutes
  <2>8. runner' # "start" /\ proc' = proc
    BY <2>1, <2>3 DEF Turns, Halts, Advances, AsksRoutes, Begin, Routed, Resume
  <2> QED BY <2>2, <2>5, <2>6, <2>7, <2>8 DEF Causes
<1>3. CASE TrialStep
  <2>1. onlyTheTrial /\ runner = "trial"
    BY <1>3 DEF TrialStep, TrialClaims, TrialGoes, TrialAnswers, TrialRaises, Shape
  <2>2. PICK e \in Experiments : e = active /\ status[e] = "running"
    BY <2>1 DEF Shape
  <2>3. \A f \in Experiments : f # e => sent'[f] = sent[f]
    BY <1>3, <2>2 DEF TypeOK, TrialStep, TrialClaims, TrialGoes, TrialAnswers, TrialRaises
  <2>4. Caused(e)'
    BY <2>1, <2>2, RunningIsCaused DEF onlyTheTrial, Causes
  <2>5. \A f \in Experiments : f # e => Caused(f)'
    BY <2>1, <2>3 DEF onlyTheTrial, Causes, Caused, Heard
  <2>6. trial' = "unreached" => stop
    BY <1>3 DEF TrialStep, TrialClaims, TrialGoes, TrialAnswers, TrialRaises
  <2> QED BY <2>1, <2>4, <2>5, <2>6 DEF onlyTheTrial, Causes
<1>4. CASE Shutdown
  <2>1. \A e \in Experiments : Caused(e)'
    BY <1>4, <1>a DEF Shutdown, database
  <2> QED BY <1>4, <2>1 DEF Shutdown, Causes
<1>5. CASE Close
  <2>1. \A e \in Experiments : Caused(e)'
    BY <1>5, <1>a DEF Close, Gone
  <2> QED BY <1>5, <2>1 DEF Close, Gone, Causes
<1>6. CASE Crash
  <2>1. /\ UNCHANGED <<status, detail, sent, asked>>
        /\ runner' = "none" /\ trial' = "none" /\ ~cancel'
    BY <1>6 DEF Crash, Gone
  <2>2. CASE counted' = counted
    BY <2>1, <2>2, <1>a DEF Causes
  <2>3. CASE runner = "trial" /\ trial \in Buckets /\ Count(active)
    <3>1. PICK e \in Experiments : e = active /\ status[e] = "running"
      BY <2>3 DEF Shape
    <3>2. Caused(e)'
      BY <2>1, <3>1, RunningIsCaused DEF Causes
    <3>3. \A f \in Experiments : f # e => counted'[f] = counted[f]
      BY <2>3, <3>1, CountEffect
    <3>4. \A f \in Experiments : f # e => Caused(f)'
      BY <2>1, <3>3 DEF Causes, Caused, Heard
    <3> QED BY <2>1, <3>2, <3>4 DEF Causes
  <2> QED BY <1>6, <2>2, <2>3 DEF Crash
<1>7. CASE Boot
  <2>1. /\ UNCHANGED <<counted, sent, asked, stop, cancel, active, runner, trial>>
        /\ ~cancel
    BY <1>7 DEF Boot, Causes
  <2>2. ASSUME NEW e \in Experiments PROVE Caused(e)'
    <3>1. \/ status'[e] = status[e] /\ detail'[e] = detail[e]
          \/ status'[e] = "interrupted" /\ detail'[e] = "found_at_boot"
      BY <1>7 DEF Boot
    <3>2. "found_at_boot" \notin Settled
      BY DEF Settled
    <3> QED BY <2>1, <3>1, <3>2 DEF Causes, Caused, Heard
  <2> QED BY <2>1, <2>2 DEF Causes
<1>8. CASE UNCHANGED vars
  <2>1. \A e \in Experiments : Caused(e)'
    BY <1>8, <1>a DEF vars, database
  <2> QED BY <1>8, <2>1 DEF vars, Causes
<1> QED BY <1>1, <1>2, <1>3, <1>4, <1>5, <1>6, <1>7, <1>8 DEF Next

-----------------------------------------------------------------------------
(***************************************************************************)
(* The inductive invariant and the theorems.                               *)
(***************************************************************************)
IInv == TypeOK /\ Shape /\ Counting /\ Sending /\ Saving /\ Accounts /\ Causes

LEMMA InitIInv == Init => IInv
<1> SUFFICES ASSUME Init PROVE IInv
  OBVIOUS
<1>1. TypeOK
  BY DEF Init, TypeOK, Statuses, Details, Stages
<1>2. Shape
  BY DEF Init, Shape
<1>3. ASSUME NEW e \in Experiments
      PROVE  Tally(e) = 0 /\ Heard(e) = 0 /\ Owed(e) = 0 /\ status[e] = "created" /\ sent[e] = {}
  <2>1. \A b \in Buckets : counted[e][b] = 0
    BY DEF Init
  <2>2. Tally(e) = 0 /\ Heard(e) = 0
    BY <2>1 DEF Tally, Heard, Buckets
  <2> QED BY <2>2 DEF Init, Owed, Owing
<1>4. Counting
  <2>1. \A e \in Experiments : CountsFit(e)
    BY <1>3, PlanNat DEF CountsFit
  <2> QED BY <2>1 DEF Init, Counting
<1>5. Sending /\ Saving
  BY DEF Init, Sending, Saving
<1>6. \A e \in Experiments : Accounted(e)
  <2> SUFFICES ASSUME NEW e \in Experiments PROVE Accounted(e)
    OBVIOUS
  <2>1. IsFiniteSet(sent[e]) /\ Cardinality(sent[e]) = 0
    BY <1>3, FS_EmptySet
  <2>2. e \notin marred
    BY DEF Init
  <2> QED BY <1>3, <2>1, <2>2 DEF Accounted
<1>7. Accounts
  BY <1>6 DEF Init, Accounts
<1>8. Causes
  BY DEF Init, Causes, Caused, Settled
<1> QED BY <1>1, <1>2, <1>4, <1>5, <1>7, <1>8 DEF IInv

LEMMA Inductive == Spec => []IInv
<1>1. IInv /\ [Next]_vars => IInv'
  BY TypeStep, ShapeStep, CountingStep, SendingStep, SavingStep, AccountsStep, CausesStep DEF IInv
<1> QED BY InitIInv, <1>1, PTL DEF Spec

\* The database's columns and the process's variables keep their types,
\* whatever the experiments, their plans and the listing's limit.
THEOREM RunnerTypeCorrect == Spec => []TypeOK
<1>1. IInv => TypeOK
  BY DEF IInv
<1> QED BY <1>1, Inductive, PTL

\* No counter passes its plan and a run that says "done" has counted it all.
THEOREM CountersAlwaysConserve == Spec => []CountersConserve
<1>1. IInv => CountersConserve
  BY DEF IInv, Counting, CountsFit, CountersConserve
<1> QED BY <1>1, Inductive, PTL

\* An ended run that no crash or failed write marred has counted every trial
\* it sent.
THEOREM EverythingSentIsCounted == Spec => []NothingSentGoesUncounted
<1>1. IInv => NothingSentGoesUncounted
  <2> SUFFICES ASSUME IInv, NEW e \in Experiments, status[e] \in Terminal, e \notin marred
               PROVE  Cardinality(sent[e]) = counted[e]["done"] + counted[e]["failed"]
    BY DEF NothingSentGoesUncounted
  <2>1. Owed(e) = 0
    BY DEF IInv, Shape, Owed, Owing, Terminal
  <2>2. Heard(e) \in Nat /\ Cardinality(sent[e]) = Heard(e) + Owed(e)
    BY HeardNat DEF IInv, Accounts, Accounted
  <2> QED BY <2>1, <2>2 DEF Heard
<1> QED BY <1>1, Inductive, PTL

\* However crashes and failing writes fall, the counters miss at most the
\* one trial the run was on.
THEOREM OneTrialIsLostAtMost == Spec => []LosesOneTrialAtMost
<1>1. IInv => LosesOneTrialAtMost
  <2> SUFFICES ASSUME IInv, NEW e \in Experiments
               PROVE  /\ Cardinality(sent[e]) <= counted[e]["done"] + counted[e]["failed"] + 1
                      /\ Cardinality(rows[e]) <= Tally(e) + 1
    BY DEF LosesOneTrialAtMost
  <2>1. Cardinality(sent[e]) <= counted[e]["done"] + counted[e]["failed"] + 1
    BY DEF IInv, Accounts, Accounted, Heard
  <2>2. Tally(e) + 1 \in Nat /\ Tally(e) + 1 > 0
    BY TallyNat DEF IInv
  <2>3. IsFiniteSet(1..(Tally(e) + 1)) /\ Cardinality(1..(Tally(e) + 1)) = Tally(e) + 1
    BY <2>2, FS_Interval
  <2>4. rows[e] \in SUBSET (1..(Tally(e) + 1))
    BY DEF IInv, Saving
  <2>5. Cardinality(rows[e]) <= Tally(e) + 1
    BY <2>3, <2>4, FS_Subset
  <2> QED BY <2>1, <2>5
<1> QED BY <1>1, Inductive, PTL

\* No trial of the plan is sent twice.
THEOREM TrialsAreSentOnce == Spec => SentOnce
<1>1. IInv /\ [Next]_vars => [trial # "wire" /\ trial' = "wire" => nth \notin sent[active]]_vars
  <2> SUFFICES ASSUME IInv, [Next]_vars, trial # "wire", trial' = "wire"
               PROVE  nth \notin sent[active]
    OBVIOUS
  <2>1. ~RunnerStep
    <3> SUFFICES ASSUME NEW e \in Experiments, Begin(e) \/ Routed(e) \/ Resume(e) PROVE FALSE
      BY DEF RunnerStep
    <3>1. Turns(e) \/ AsksRoutes(e)
      BY BeginTurns, RoutedTurns, ResumeTurns DEF IInv, Turns
    <3> QED BY <3>1 DEF Turns, Halts, Advances, AsksRoutes
  <2>2. TrialGoes
    BY <2>1 DEF Next, vars, start_experiment, stop_experiment, TrialStep, TrialClaims,
                TrialAnswers, TrialRaises, Shutdown, Close, Crash, Gone, Boot
  <2> QED BY <2>2 DEF TrialGoes, IInv, Sending, Shape, Unsent
<1> QED BY <1>1, Inductive, PTL DEF Spec, SentOnce

\* Nothing moves the status, the counters or the rows of a run that ended.
THEOREM EndingsStayFinal == Spec => EndingsAreFinal
<1>1. IInv /\ [Next]_vars =>
        [\A e \in Experiments : status[e] \in Terminal =>
           /\ status'[e] = status[e]
           /\ counted'[e] = counted[e]
           /\ rows'[e] = rows[e]]_vars
  <2> DEFINE Kept(e) == status'[e] = status[e] /\ counted'[e] = counted[e] /\ rows'[e] = rows[e]
  <2> SUFFICES ASSUME IInv, [Next]_vars, NEW e \in Experiments, status[e] \in Terminal
               PROVE  Kept(e)
    OBVIOUS
  <2>1. runner # "none" => active # e
    BY DEF IInv, Shape, TypeOK, Terminal
  <2>2. ASSUME NEW f \in Experiments, Begin(f) \/ Routed(f) \/ Resume(f) PROVE Kept(e)
    <3>1. f # e /\ rows' = rows
      BY <2>1, <2>2 DEF Begin, Routed, Resume
    <3>2. status'[e] = status[e]
      BY <2>2, <3>1, BeginTurns, RoutedTurns, ResumeTurns
         DEF IInv, Turns, Halts, Advances, AsksRoutes, OthersKept
    <3>3. counted'[e] = counted[e]
      BY <2>2, <3>1, CountEffect DEF IInv, Begin, Routed, Resume
    <3> QED BY <3>1, <3>2, <3>3
  <2>3. CASE TrialStep
    <3>1. onlyTheTrial /\ runner = "trial" /\ (rows' = rows \/ SaveRun)
      BY <2>3 DEF IInv, Shape, TrialStep, TrialClaims, TrialGoes, TrialAnswers, TrialRaises
    <3>2. rows'[e] = rows[e]
      BY <2>1, <3>1 DEF SaveRun, IInv, TypeOK
    <3> QED BY <3>1, <3>2 DEF onlyTheTrial
  <2>4. CASE Crash
    <3>1. counted'[e] = counted[e]
      BY <2>1, <2>4, CountEffect DEF Crash, IInv, Shape
    <3> QED BY <2>4, <3>1 DEF Crash, Gone
  <2>5. CASE Boot
    BY <2>5 DEF Boot, Terminal
  <2>6. CASE \/ \E f \in Experiments : start_experiment(f) \/ stop_experiment(f)
             \/ Shutdown \/ Close \/ UNCHANGED vars
    BY <2>6 DEF start_experiment, stop_experiment, Shutdown, Close, Gone, vars, database
  <2> QED BY <2>2, <2>3, <2>4, <2>5, <2>6 DEF Next, RunnerStep
<1> QED BY <1>1, Inductive, PTL DEF Spec, EndingsAreFinal

\* Whatever stops, refusals, shutdowns and failing writes lie behind an
\* ending: no run says "stopped" that no one stopped or "halted_on_refusal"
\* with no refusal counted, and no detail says the trial in hand was
\* settled, or never sent, while a trial sent is uncounted.  Which of the
\* two, or which other detail, a run ends with is not told apart here.
THEOREM EndingsNameTheirCause == Spec => []EndingsAreTrue
<1>1. IInv => EndingsAreTrue
  <2> SUFFICES ASSUME IInv, NEW e \in Experiments
               PROVE  /\ Caused(e)
                      /\ status[e] = "created" => sent[e] = {} /\ Tally(e) = 0
    BY DEF EndingsAreTrue, Caused, Heard, Settled
  <2> QED BY DEF IInv, Causes, Counting, CountsFit, Sending
<1> QED BY <1>1, Inductive, PTL

-----------------------------------------------------------------------------
(***************************************************************************)
(* The one property that needs an assumption: the listing reaches every    *)
(* row, which list_experiments' default limit does not promise.            *)
(***************************************************************************)
EveryRowIsListed == list_experiments = Experiments

LEMMA RunningStep ==
  ASSUME EveryRowIsListed, TypeOK, Shape, RunningHasARunner, [Next]_vars
  PROVE  RunningHasARunner'
<1>1. ASSUME NEW e \in Experiments, Begin(e) \/ Routed(e) \/ Resume(e)
      PROVE  RunningHasARunner'
  <2>1. active = e /\ proc' = proc
    BY <1>1 DEF Begin, Routed, Resume
  <2>2. Turns(e) \/ AsksRoutes(e)
    BY <1>1, BeginTurns, RoutedTurns, ResumeTurns DEF Turns
  <2>3. OthersKept(e) /\ (status'[e] = "running" => active' = e)
    BY <2>1, <2>2 DEF Turns, Halts, Advances, AsksRoutes, Terminal
  <2> QED BY <2>1, <2>3 DEF RunningHasARunner, OthersKept
<1>2. CASE TrialStep
  BY <1>2 DEF TrialStep, TrialClaims, TrialGoes, TrialAnswers, TrialRaises, onlyTheTrial,
              RunningHasARunner
<1>3. CASE Boot
  BY <1>3 DEF Boot, EveryRowIsListed, RunningHasARunner
<1>4. CASE \E e \in Experiments : start_experiment(e) \/ stop_experiment(e)
  BY <1>4, RunnerAssumption DEF start_experiment, stop_experiment, database, RunningHasARunner
<1>5. CASE Shutdown \/ Close \/ Crash \/ UNCHANGED vars
  BY <1>5 DEF Shutdown, Close, Crash, Gone, vars, database, RunningHasARunner
<1> QED BY <1>1, <1>2, <1>3, <1>4, <1>5 DEF Next, RunnerStep

\* With every row in the listing's reach, a row says "running" only while
\* this process runs it.
THEOREM RunningAlwaysHasARunner ==
  ASSUME EveryRowIsListed
  PROVE  Spec => []RunningHasARunner
<1>1. Init => RunningHasARunner
  BY DEF Init, RunningHasARunner
<1>2. IInv /\ RunningHasARunner /\ [Next]_vars => RunningHasARunner'
  BY RunningStep DEF IInv
<1> QED BY <1>1, <1>2, Inductive, PTL DEF Spec
=============================================================================
