-------------------------- MODULE ExperimentRunner --------------------------
(***************************************************************************)
(* The experiment runner of bench/main.py over the process that hosts it:  *)
(* the start and stop doors, run_experiment as a task of the event loop,   *)
(* the shielded trial it is on, the counters and the status it writes,     *)
(* shutdown's cancellation, a crash at any point, and the next boot's      *)
(* sweep of rows left "running".                                           *)
(*                                                                         *)
(* One action is what the loop runs between two awaits.  A trial is seen   *)
(* from the runner: what happens to its claim and its slot is the business *)
(* of UpstreamCalls, and appears here as the choice among its outcomes.    *)
(***************************************************************************)
EXTENDS Naturals, FiniteSets

CONSTANTS Experiments,    \* their row ids, which grow in creation order
          Plan,           \* trials_total of each: tasks x repeats x lineup
          Pinned,         \* those whose routes are fetched before trial one
          HaltOnRefusal,  \* those declared with halt_on_refusal
          Listed,         \* the LIMIT of store.list_experiments
          Faulty,         \* whether a database write may raise
          None

ASSUME RunnerAssumption ==
  /\ Experiments \subseteq Nat
  /\ IsFiniteSet(Experiments)
  /\ Plan \in [Experiments -> Nat \ {0}]
  /\ Pinned \subseteq Experiments
  /\ HaltOnRefusal \subseteq Experiments
  /\ Listed \in Nat
  /\ Faulty \in BOOLEAN
  /\ None \notin Experiments

VARIABLES status,   \* experiments.status                     (database)
          detail,   \* experiments.status_detail, where it says what a cut
                    \* run's trials came to                   (database)
          counted,  \* trials_done, _failed and _refused      (database)
          rows,     \* the trials with a result row           (database)
          proc,     \* the server process
          active,   \* experiment_run["active"]
          stop,     \* experiment_run["stop"].is_set()
          runner,   \* where run_experiment is suspended
          cancel,   \* shutdown has cancelled the runner's task
          nth,      \* the trial of the plan the runner is on
          trial,    \* where that trial's own task is, or how it ended
          asked,    \* history: the experiments a Stop was asked of
          sent,     \* history: the trials whose request went out
          marred    \* history: those a crash or a failed counter write
                    \* parted from a trial that had been sent

database == <<status, detail, counted, rows>>
vars == <<status, detail, counted, rows, proc, active, stop, runner, cancel,
          nth, trial, asked, sent, marred>>

Terminal == {"done", "stopped", "halted_on_refusal", "interrupted", "failed"}
Statuses == Terminal \cup {"created", "running"}
Details  == {"", "settled_and_persisted", "never_sent", "found_at_boot"}
Buckets  == {"done", "failed", "refused"}
Over     == Buckets \cup {"unreached",  \* stopped while it waited for room
                          "raised"}     \* an exception escaped the trial
Stages   == Over \cup {"none", "ready", "room", "queued", "wire"}

TypeOK ==
  /\ status \in [Experiments -> Statuses]
  /\ detail \in [Experiments -> Details]
  /\ counted \in [Experiments -> [Buckets -> Nat]]
  /\ rows \in [Experiments -> SUBSET Nat]
  /\ proc \in {"up", "closing", "down"}
  /\ active \in Experiments \cup {None}
  /\ stop \in BOOLEAN
  /\ runner \in {"none", "start", "routes", "trial"}
  /\ cancel \in BOOLEAN
  /\ nth \in Nat
  /\ trial \in Stages
  /\ asked \subseteq Experiments
  /\ sent \in [Experiments -> SUBSET Nat]
  /\ marred \subseteq Experiments

Init ==
  /\ status = [e \in Experiments |-> "created"]
  /\ detail = [e \in Experiments |-> ""]
  /\ counted = [e \in Experiments |-> [b \in Buckets |-> 0]]
  /\ rows = [e \in Experiments |-> {}]
  /\ proc = "up"
  /\ active = None
  /\ stop = FALSE
  /\ runner = "none"
  /\ cancel = FALSE
  /\ nth = 0
  /\ trial = "none"
  /\ asked = {}
  /\ sent = [e \in Experiments |-> {}]
  /\ marred = {}

Tally(e) == counted[e]["done"] + counted[e]["failed"] + counted[e]["refused"]

-----------------------------------------------------------------------------
(***************************************************************************)
(* The doors.                                                              *)
(***************************************************************************)
\* Variant: a start that takes a run cut short up again.
start_experiment_again(e) ==
  /\ proc = "up"
  /\ status[e] \in {"created", "interrupted"}
  /\ active = None
  /\ active' = e
  /\ stop' = FALSE
  /\ runner' = "start"
  /\ nth' = 0
  /\ UNCHANGED <<database, proc, cancel, trial, asked, sent, marred>>

start_experiment(e) ==
  /\ proc = "up"
  /\ status[e] = "created"
  /\ active = None
  /\ active' = e
  /\ stop' = FALSE
  /\ runner' = "start"
  /\ nth' = 0
  /\ UNCHANGED <<database, proc, cancel, trial, asked, sent, marred>>

stop_experiment(e) ==
  /\ proc = "up"
  /\ active = e
  /\ stop' = TRUE
  /\ asked' = asked \cup {e}
  /\ UNCHANGED <<database, proc, active, runner, cancel, nth, trial, sent,
                 marred>>

\* Variant: the slot freed before the status is written.
EndFreeingFirst(e, before, ending, said) ==
  /\ runner' = "none"
  /\ trial' = "none"
  /\ active' = None
  /\ \/ /\ status' = [status EXCEPT ![e] = ending]
        /\ detail' = [detail EXCEPT ![e] = said]
     \/ /\ Faulty
        /\ status' = [status EXCEPT ![e] = before]
        /\ UNCHANGED detail
  /\ UNCHANGED nth

(***************************************************************************)
(* The runner.  Every way out goes through run_experiment's finally, whose *)
(* first line is the status write and whose second frees the slot: a write *)
(* that raises leaves the row as the step found it and the slot held.      *)
(***************************************************************************)
End(e, before, ending, said) ==
  /\ runner' = "none"
  /\ trial' = "none"
  /\ \/ /\ status' = [status EXCEPT ![e] = ending]
        /\ detail' = [detail EXCEPT ![e] = said]
        /\ active' = None
     \/ /\ Faulty
        /\ status' = [status EXCEPT ![e] = before]
        /\ UNCHANGED <<detail, active>>
  /\ UNCHANGED nth

StartTrial(e) ==
  /\ status' = [status EXCEPT ![e] = "running"]
  /\ runner' = "trial"
  /\ trial' = "ready"
  /\ nth' = nth + 1
  /\ UNCHANGED <<detail, active>>

\* The loop over the plan, from the end of one trial to the next: the stop
\* check, then the cell's mode, composition and group and the entry check
\* on the runner's own trial, any of which may end the run as failed.
Onward(e) ==
  \/ nth = Plan[e] /\ End(e, "running", "done", "")
  \/ nth < Plan[e] /\ stop /\ End(e, "running", "stopped", "")
  \/ nth < Plan[e] /\ ~stop /\ End(e, "running", "failed", "")
  \/ nth < Plan[e] /\ ~stop /\ StartTrial(e)

\* The first step: the dataset is read and its digest compared, the row says
\* "running", and a pinned lineup's routes are asked for.
Begin(e) ==
  /\ active = e
  /\ runner = "start"
  /\ \/ End(e, status[e], "failed", "")
     \/ e \notin Pinned /\ Onward(e)
     \/ /\ e \in Pinned
        /\ status' = [status EXCEPT ![e] = "running"]
        /\ runner' = "routes"
        /\ UNCHANGED <<detail, active, nth, trial>>
  /\ UNCHANGED <<counted, rows, proc, stop, cancel, asked, sent, marred>>

\* resolve_routes returns, or the cancellation lands in it.
Routed(e) ==
  /\ active = e
  /\ runner = "routes"
  /\ IF cancel THEN End(e, "running", "interrupted", "settled_and_persisted")
               ELSE Onward(e)
  /\ UNCHANGED <<counted, rows, proc, stop, cancel, asked, sent, marred>>

\* What follows a trial that is counted, in the order the code asks.
AfterCount(e) ==
  IF cancel THEN End(e, "running", "interrupted", "settled_and_persisted")
  ELSE IF trial = "refused" /\ e \in HaltOnRefusal
       THEN End(e, "running", "halted_on_refusal", "")
       ELSE Onward(e)

Count(e) == counted' = [counted EXCEPT ![e][trial] = @ + 1]

\* Variant: a cancelled run that ends before it counts the trial in hand.
ResumeUncounted(e) ==
  /\ active = e
  /\ runner = "trial"
  /\ trial \in Over
  /\ IF cancel
     THEN /\ End(e, "running", "interrupted", "settled_and_persisted")
          /\ UNCHANGED counted
     ELSE /\ trial \in Buckets
          /\ Count(e)
          /\ AfterCount(e)
  /\ UNCHANGED <<rows, proc, stop, cancel, asked, sent, marred>>

\* The trial is over and the runner's turn comes.  A cancellation reaches
\* the shield around the trial, never the trial, and is acted on here.
Resume(e) ==
  /\ active = e
  /\ runner = "trial"
  /\ \/ /\ trial \in Buckets
        /\ Count(e)
        /\ AfterCount(e)
        /\ UNCHANGED marred
     \/ /\ trial \in Buckets
        /\ Faulty
        /\ End(e, "running", "failed", "")
        /\ marred' = marred \cup {e}
        /\ UNCHANGED counted
     \/ /\ trial = "unreached"
        /\ IF cancel THEN End(e, "running", "interrupted", "never_sent")
                     ELSE End(e, "running", "stopped", "")
        /\ UNCHANGED <<counted, marred>>
     \/ /\ trial = "raised"
        /\ End(e, "running", "failed", "")
        /\ UNCHANGED <<counted, marred>>
  /\ UNCHANGED <<rows, proc, stop, cancel, asked, sent>>

(***************************************************************************)
(* run_one_trial, a task of its own.                                       *)
(***************************************************************************)
onlyTheTrial ==
  UNCHANGED <<status, detail, counted, proc, active, stop, runner, cancel,
              nth, asked>>

\* save_run, which may fail and is then only logged.
SaveRun ==
  \/ rows' = [rows EXCEPT ![active] = @ \cup {nth}]
  \/ Faulty /\ UNCHANGED rows

\* The claim: admitted, refused with a row, or asleep until room or a stop.
\* A sleeper that wakes tries its claim before it looks at the stop.
TrialClaims ==
  /\ trial \in {"ready", "room"}
  /\ \/ trial' = "queued" /\ UNCHANGED rows
     \/ trial' = "room" /\ trial = "ready" /\ ~stop /\ UNCHANGED rows
     \/ trial' = "refused" /\ ~stop /\ SaveRun
     \/ trial' = "unreached" /\ stop /\ UNCHANGED rows
  /\ onlyTheTrial
  /\ UNCHANGED <<sent, marred>>

\* A slot comes: the ceiling is rechecked in it, then the request goes out.
TrialGoes ==
  /\ trial = "queued"
  /\ \/ /\ trial' = "refused"
        /\ SaveRun
        /\ UNCHANGED sent
     \/ /\ trial' = "wire"
        /\ sent' = [sent EXCEPT ![active] = @ \cup {nth}]
        /\ UNCHANGED rows
  /\ onlyTheTrial
  /\ UNCHANGED marred

TrialAnswers ==
  /\ trial = "wire"
  /\ trial' \in {"done", "failed"}
  /\ SaveRun
  /\ onlyTheTrial
  /\ UNCHANGED <<sent, marred>>

\* Nothing upstream raises; an error of the trial's own code would.
TrialRaises ==
  /\ Faulty
  /\ trial \in {"ready", "queued", "wire"}
  /\ trial' = "raised"
  /\ marred' = IF trial = "wire" THEN marred \cup {active} ELSE marred
  /\ onlyTheTrial
  /\ UNCHANGED <<rows, sent>>

(***************************************************************************)
(* The process.                                                            *)
(***************************************************************************)

\* Variant: the runner asked to stop and not cancelled.
ShutdownByStopOnly ==
  /\ proc = "up"
  /\ runner # "start"
  /\ proc' = "closing"
  /\ stop' = (stop \/ runner # "none")
  /\ UNCHANGED <<database, active, runner, cancel, nth, trial, asked, sent,
                 marred>>

\* _serve, past its yield, and _shutdown_runner's first two lines.  Requests
\* have ended, and a task created by one of them has had its first step.
Shutdown ==
  /\ proc = "up"
  /\ runner # "start"
  /\ proc' = "closing"
  /\ stop' = (stop \/ runner # "none")
  /\ cancel' = (runner # "none")
  /\ UNCHANGED <<database, active, runner, nth, trial, asked, sent, marred>>

Gone ==
  /\ proc' = "down"
  /\ active' = None
  /\ stop' = FALSE
  /\ runner' = "none"
  /\ cancel' = FALSE
  /\ nth' = 0
  /\ trial' = "none"
  /\ UNCHANGED <<status, detail, rows, asked, sent>>

\* _shutdown_runner's await is over and the database closes.
Close ==
  /\ proc = "closing"
  /\ runner = "none"
  /\ Gone
  /\ UNCHANGED <<counted, marred>>

\* The process dies: between two steps, or inside Resume once the counters
\* are committed and before the status is.
Crash ==
  /\ proc # "down"
  /\ Gone
  /\ \/ /\ marred' = IF trial \in Buckets \cup {"wire"}
                     THEN marred \cup {active} ELSE marred
        /\ UNCHANGED counted
     \/ /\ runner = "trial"
        /\ trial \in Buckets
        /\ Count(active)
        /\ UNCHANGED marred

\* list_experiments returns the newest rows first, Listed of them.
list_experiments ==
  {e \in Experiments : Cardinality({d \in Experiments : d > e}) < Listed}

\* Variant: a boot without its sweep.
BootUnswept ==
  /\ proc = "down"
  /\ proc' = "up"
  /\ UNCHANGED <<database, active, stop, runner, cancel, nth, trial, asked,
                 sent, marred>>

\* _serve's sweep, before the first request is served.
Boot ==
  LET stale == {e \in list_experiments : status[e] = "running"}
  IN  /\ proc = "down"
      /\ proc' = "up"
      /\ status' = [e \in Experiments |->
                      IF e \in stale THEN "interrupted" ELSE status[e]]
      /\ detail' = [e \in Experiments |->
                      IF e \in stale THEN "found_at_boot" ELSE detail[e]]
      /\ UNCHANGED <<counted, rows, active, stop, runner, cancel, nth, trial,
                     asked, sent, marred>>

-----------------------------------------------------------------------------
RunnerStep == \E e \in Experiments : Begin(e) \/ Routed(e) \/ Resume(e)
TrialStep == TrialClaims \/ TrialGoes \/ TrialAnswers \/ TrialRaises

Next ==
  \/ \E e \in Experiments : start_experiment(e) \/ stop_experiment(e)
  \/ RunnerStep
  \/ TrialStep
  \/ Shutdown \/ Close \/ Crash \/ Boot

Spec == Init /\ [][Next]_vars

\* The loop runs every ready task; a trial's claim, slot and exchange come
\* to an end (UpstreamCalls!EveryCallEnds); a stopped bench is started again.
FairSpec ==
  /\ Spec
  /\ WF_vars(RunnerStep)
  /\ WF_vars(TrialStep /\ trial' # "room")
  /\ WF_vars(Close)
  /\ WF_vars(Boot)

-----------------------------------------------------------------------------
(***************************************************************************)
(* Properties.                                                             *)
(***************************************************************************)

\* A row says "running" only while this process is running it.  It is what
\* lets the start door, the score door and the progress stream trust it.
RunningHasARunner ==
  \A e \in Experiments :
    status[e] = "running" /\ proc # "down" => active = e

\* README, "Interruption is honest": trials_total minus the counters is what
\* never ran.  A run that has ended has counted every trial it sent, however
\* the stop, the refusal, the shutdown and the end of the plan fell, unless
\* a crash or a failed write came between a trial and its counter.
NothingSentGoesUncounted ==
  \A e \in Experiments :
    status[e] \in Terminal /\ e \notin marred
      => Cardinality(sent[e]) = counted[e]["done"] + counted[e]["failed"]

\* The three counters are disjoint and never pass the plan, and a run that
\* says "done" has counted all of it.
CountersConserve ==
  \A e \in Experiments :
    /\ Tally(e) <= Plan[e]
    /\ status[e] = "done" => Tally(e) = Plan[e]

\* An ending names its own cause: "stopped" only if a Stop was asked (never
\* for shutdown, which sets the same event), "halted_on_refusal" only if
\* a refusal was counted and the experiment halts on one; a shutdown that
\* says the trial in hand was settled, or never sent, left none uncounted;
\* and an untouched row has no trial to its name.
EndingsAreTrue ==
  \A e \in Experiments :
    /\ status[e] = "stopped" => e \in asked
    /\ status[e] = "halted_on_refusal"
         => e \in HaltOnRefusal /\ counted[e]["refused"] > 0
    /\ detail[e] \in {"settled_and_persisted", "never_sent"} =>
         /\ status[e] = "interrupted"
         /\ Cardinality(sent[e]) = counted[e]["done"] + counted[e]["failed"]
    /\ status[e] = "created" => sent[e] = {} /\ Tally(e) = 0

\* An experiment runs once: whatever crashes, restarts and failed writes lie
\* between, a trial of the plan that was sent is never sent again.
SentOnce ==
  [][trial # "wire" /\ trial' = "wire" => nth \notin sent[active]]_vars

\* An ending is final: no later write moves the status, the counters or the
\* rows of an experiment that has one.
EndingsAreFinal ==
  [][\A e \in Experiments : status[e] \in Terminal =>
       /\ status'[e] = status[e]
       /\ counted'[e] = counted[e]
       /\ rows'[e] = rows[e]]_vars

\* However crashes, shutdowns and failing writes fall, a run loses count of
\* at most the one trial it was on: whatever parts it from a trial also ends
\* it, so trials_total minus the counters is off by one at most.
LosesOneTrialAtMost ==
  \A e \in Experiments :
    /\ Cardinality(sent[e]) <= counted[e]["done"] + counted[e]["failed"] + 1
    /\ Cardinality(rows[e]) <= Tally(e) + 1

\* Every run comes to an ending, through crashes and restarts too, unless
\* the write of its ending raised: see SlotIsFreed.
EveryRunEnds ==
  \A e \in Experiments :
    status[e] = "running"
      ~> status[e] \in Terminal \/ (runner = "none" /\ active = e)

\* run_experiment: "EVERY exit through the one finally", so that no exit
\* leaves `active` set.
SlotIsFreed == runner = "none" => active = None
=============================================================================
