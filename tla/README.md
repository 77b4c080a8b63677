# A verification development for the LM Comparison Bench

TLA+ modules, TLC configurations and TLAPS proofs for the program in `src/`: a
FastAPI server (`bench/main.py`) over one SQLite database (`bench/store.py`)
that sends prompts to several language models, runs experiments made of many
such trials, scores them (some scorers ask a judge model), reports on them, and
keeps what it spends under a ceiling. Paths below are relative to the repository
unless they name a `.tla` or `.cfg` file.

The program is one process and one event loop. That decides how everything here
is modelled: **one action is what the loop runs between two awaits**, with every
call and every write made on the way. Between two actions anything else the loop
holds may run, the process may be asked to shut down, and it may die.

## 1. Inventory

| Component | Where | State it keeps | Operations | Talks to |
|---|---|---|---|---|
| Spend ceiling | `bench/main.py` 1940-1960, 2784-3126 | recorded spend, the claims of calls not settled, an event per sleeper | reserve, release, settle, wait for room, the two door checks | all four callers |
| Paid calls | `/compare` 4609, `/compare/stream` 4793, `run_one_trial` 6485, `score_one_result` 7409 | one semaphore, each caller's coroutine | claim, queue, recheck in the slot, send, settle, be cancelled, record | ceiling, semaphore, model client, store |
| Model client | `bench/models.py` | none between calls | run, stream, judge, fetch a generation, say what went wrong | paid calls, reconciler |
| Experiment runner | `bench/main.py` 6399-7222 | `experiment_run` (active, stop, task); experiment rows and counters | create, start, stop, run, finish | store, paid calls, shutdown |
| Scoring pass | `bench/main.py` 7227-7806, `bench/store.py` 3617-4137 | `scoring_run`; pass, judge call and score rows | start, stop, score a trial, record a call, seal | store, paid calls, judge client, shutdown |
| Boot, shutdown, database lock | `bench/main.py` 1923-2257, `bench/store.py` 1027-1490 | the flock beside the resolved path and its note; schema, seals | take the lock, migrate, sweep, serve, stop scoring, stop the runner, close | store, runner, scoring, reconciler |
| Reconciler | `bench/reconcile.py`, `bench/store.py` 2943-3211 | its work list; the settled-cost columns | list, fetch a generation, apply per row | store, model client, lock |
| Comparison groups, documents | `bench/main.py` 3299-4572, 7863-8975, `bench/store.py` 1712-2487 | group rows, attachments, their readings, captures of trees | upload, walk, declare a group, check a member, compose, record | paid calls, store |
| Blind sessions | `bench/main.py` 10167-10533 | an in-memory table of tokens and of what each was shown | open, rate, reveal | store |
| Trial plan | `bench/experiments.py` | none | order tasks, rotate lineups, seed repeats | runner |
| Report and export | `bench/report.py`, `bench/main.py` 10547-10941 | none | outcomes, arms, denominators, metric choice, ranks; lines and manifest | store |
| Clone door | `bench/main.py` 9279-9849, `bench/clones.py` | the clone directory and its rows; one door at a time | clone, re-clone, sweep, read | git, the file system |
| Snapshot walk | `bench/snapshot.py` | none | ignore rules, bounded walk | clone door, documents |
| Datasets, scorers | `bench/datasets.py`, `bench/scoring.py` | none beyond rows | validate, score | runner, scoring, report |
| Local-only guard | `bench/main.py` 2508 | none | header and size checks | every request |
| Front end | `static/*.js` | the page's own run lifecycle | start, abort, render | the API |

**What is hard about it.** Claims outlive many awaits and every way out of a
call has to return them exactly once. A sleeper woken by freed room and a Stop
in the same turn of the loop. A stream that its reader leaves at any suspension,
whose wire may repeat, contradict or cut anything, and which has to leave one
true row. A runner cancelled at any await, with a trial under a shield beside
it. A judge request that leaves before, while or after its row is written, and a
shutdown that cuts it while the reply arrives. Rows that say "running" or "open"
after a crash. Two processes on one database under two names. A comparison whose
members arrive one by one while its documents are uploaded again, walked again
or read by a newer parser. A report that two readings of the same rows must
agree on. The `hazards` list of `PROJECT.json` places each at its line.

**What makes each component correct.** *Ceiling*: recorded spend and the worst
cases of everything admitted stay within the limit plus what calls counted beyond
their own reservation; no claim leaks; no sleeper is forgotten. *Calls*: nothing
is sent once the ceiling is reached; every call ends, and leaves one row that
says what the wire said and is priced alike by the ceiling and by the report.
*Runner*: a row says running only under a live run; the counters and what was
sent agree; an ending names its cause and is final; no trial is paid for twice.
*Scoring*: every request has a record first; a sealed pass has no open call and
its counts are its rows'; a record is never kinder than what happened; shutdown
is bounded. *Lock*: one process writes, and a boot marks only dead work as
interrupted. *Reconciler*: it adds and never takes. *Groups*: the members of one
comparison read the same documents the same way. *Blind sessions*: a rating
recorded blind was made on a view without identities. *Report*: the plan is
accounted for, what is nobody's answer moves no quality, and an export rebuilds
it. *Clone door*: a row always names a tree that is there.

## 2. Modules

| Module | Models | Kind |
|---|---|---|
| `CeilingParameters` | the prices, the limit and what is assumed of them | constants |
| `SpendLedger` | the ledger's functions, each one step with no await in it | component |
| `UpstreamSlots` | `asyncio.Semaphore`, as the callers use it (external) | component |
| `UpstreamCalls` | the four callers over one ledger and one semaphore | composition |
| `CeilingContract` | what the ceiling promises, with no queue, slot or ledger in it | abstract |
| `ResultRecord` | a result's fields: taken from the wire, labelled, stored, repaired on read, priced, corrected | pure |
| `StreamedRun` | one call from its slot to its row, over `stream_model` or `run_model`, and the reconciler over the rows | composition |
| `ExperimentRunner` | `experiment_run`, the runner's task, its trial, shutdown, crash, boot | component |
| `JudgeCallRecord` | a judge call row: its facts, its place in the counts, its seal | pure |
| `JudgeCallSeal` | every update of such a row by anyone, against the seal | component |
| `ScoringPass` | the pass's task, its calls and scores, shutdown's cut, crash, boot | component |
| `BenchLock` | the processes that open one database, its lock, migrations, sweeps | component |
| `ComparisonGroup` | group rows, documents, readings, captures, and the members of a group | component |
| `BlindSession` | the table of sessions, the ratings, the reveals, the restart | component |
| `TrialPlan` | the cells of an experiment and the order of each | pure |
| `ReportRules` | what a report says of the rows it is given | pure |
| `ExperimentReport` | the rows of one experiment as runner, hand, passes and raters write them, and the two readings of them | composition |
| `CloneDoor` | the clone root's trees and rows, the door, its sweep and swap, the snapshots | component |
| `UpstreamCallsProofs`, `StreamedRunProofs`, `ExperimentRunnerProofs`, `ScoringPassProofs`, `BenchLockProofs`, `ComparisonGroupProofs`, `CloneDoorProofs`, `ExperimentReportProofs` | the proofs (section 4) | theorems |
| `MC*` | the small instances | model checking |

A definition marked *Variant* is the mutated form of the one below it; it is
not part of the model.

### SpendLedger, UpstreamSlots, UpstreamCalls

`accumulated` is `accumulated_spend_usd`, `claims` the dictionary of
reservations (0 for a key it lacks), `pc[c]` where call `c`'s coroutine is
suspended, `slots` the semaphore, `stop` the two runners' events. `beyond` is
history: what settled calls counted above their claims. The doors are `Door`
(the 402s of `/compare` and `/compare/stream`), `Dispatch` (the runner starts a
trial); a judge call has none, because `score_experiment` awaits it directly.
`Refuse`, `Wait`, `Skip`, `AdmitToQueue`, `AdmitToWire` and `AdmitThenSkip` are
the outcomes of one claim, first made or made again after a wait; `TakeSlot` and
`AfterFrame` are the two ways a slot is taken up, with the recheck of the
ceiling (and, for a judge call, of the stop) in `InSlot`; `Settle` is the
exchange's end, whichever it was. A stream that is cancelled, and a judge call
cut at shutdown, go through `Cancel` wherever they are suspended.

The semaphore keeps the detail that matters here: a slot released while others
wait is *granted* to the first of them and is not free, though its task has not
run yet, and a cancelled waiter that had been granted one passes it on.

### ResultRecord, StreamedRun

`UpstreamCalls` ends with a cost; these two say where the cost comes from and
what is left behind. `ResultRecord` has the functions of the fields: how each is
taken from outside (`as_token_count`, `as_money`, `as_flag`, `as_wire_flag`),
`ingest_usage` (one usage block replaces the last whole), `settle_generation_id`
(the first id wins), the labels of a result with no visible text
(`empty_response_error`, over `exhaustion_pair`), the two prices a call has
(`ceiling_cost` while it is live, `price_bucket` once it is read back), and
what a row becomes under `apply_reconciliation`. A number out of range is one of
a few marks (`Negative`, `Text`, `Infinite`), because each guard tells them
apart.

`StreamedRun` runs one call over any wire of `Frames`: a header with an id or
none, chunks, junk, an error in the middle of a 200, an end at any frame. `pc` is
where the generator is suspended; `holder` what `stream_model` told it before
its `done` event, which is all an aborted row may claim. `Abort` is the
`finally`, run by a disconnect at any suspension, the one at the `done` frame
included; a batch call cannot be left by its reader. A save may raise (`lost`).
Once the server is `Down` the reconciler may list, look up, write row by row and
be interrupted. `wire` and `saved` are history.

### ExperimentRunner

The database's part (`status`, `detail`, `counted`, `rows`) survives `Crash` and
`Close`; the rest is the process's. `Begin`, `Routed` and `Resume` are the three
places `run_experiment` can be suspended at; each runs on to the next
suspension, through the loop over the plan (`Onward`) or the `finally` (`End`).
The trial is a task of its own, under the shield: `TrialClaims`, `TrialGoes`,
`TrialAnswers`, `TrialRaises`. What happens to its claim and slot is
`UpstreamCalls`; here it is a choice among the outcomes. `Shutdown` sets the
stop and cancels the runner's task, which acts on it where it is suspended and
never inside a trial. `Faulty` lets any database write of the run raise.
`sent`, `asked` and `marred` are history.

### JudgeCallRecord, JudgeCallSeal, ScoringPass

`JudgeCallRecord` holds `call_facts`, the two endings a pass's close can write,
`call_ending` (which bucket of the counts a call is in) and the trigger
`judge_calls_sealed_v3` as `Admits(old, new)`. A time column is a BOOLEAN (set or
not), a flag column `"null"`, `"no"` or `"yes"`. `JudgeCallSeal` tries every
possible update on every row the database can hold. `ScoringPass` uses the same
operators: `JudgeStarts` writes the open row and hands the request to the
client; `JudgeMoves` is the exchange; `Settle`, `JudgeRaised` and `Cut` end the
call and the trial; `Close` is the `finally`, one transaction over the open
calls and the pass; `Boot` is the sweep. `wire` is history: what became of each
request in the world, against which the records are judged.

### BenchLock

Each process has a kind (server, `reconcile --apply`, the dry run), a name it
was given for the database, and a place in its life. `hold_lock` is two steps,
the flock and the note, as the kernel makes them; `connect` is three (the columns
are read, a missing one is added, the seals are laid and the retired dropped),
because another connection may come between. A boot's `Sweep` marks whatever the
row says is running; `Crash` gives the flock back and leaves the note and the
row. A dry run takes no lock and still migrates, as the code says of itself.

### ComparisonGroup

`rows` is the `attachments` table (the reading of a digest's first upload),
`readings` the extractions, `captures` the walks of a tree. `create_group` and
`Enter` are the two doors, each with its whole chain of checks:
`_enforce_manifest`, the documents', the controls', the pins' (`pins_for`, in
three eras: a group with pins, a group from before pins, no group) and the
mode's. A native stream is `Deferred`: it passes its checks with no content and
composes it in its slot (`Send`), after anything may have happened. `Restart`
may bring a newer parser, which then files its reading when it is first asked
for. `Guesses` lets a request name a group id before the group exists.

### BlindSession

`sessions[g]` is the entry of `BLIND_SESSIONS`: none, the mark of a reveal, or
the results each token was shown. Clients are anybody, with any token they were
ever given. `submit_ratings` writes each rating in a transaction of its own, so
any part of a set may be written. Its specification is `BlindSpec`, as that of
`JudgeCallSeal` is `SealSpec`: the proofs of both stand beside those of a larger
module. `views` and `keyed` are history: what was
handed out, and when the identities were.

### TrialPlan, ReportRules, ExperimentReport

`ExperimentReport` writes the rows in the ways the program does: the runner cell
by cell in the planned order, ending anywhere; a run filed by hand in a cell's
group, with a position or without, by a stream or by a batch whose refused
members have rows too (`HandEndings`); scoring passes over the groups that have a
scorer (`scorable_groups`), in trial order, with a judge or without, each ending
anywhere; ratings. A batch's rows are filed one at a time, which only adds states
between them. A record may be
of a build that looked positions up by model name. `ReportRules` is
`build_report` over sets of records, so that it can be given either reading:
`Served` (the rows by id, the whole dataset) or `Rebuilt` (the export's lines in
their order, the manifest's slice of the dataset). A mean is kept as a sum and a
count.

### CloneDoor

`disk[n]` is the tree at each of a clone's three places (its directory, its
`.partial` and its `.old`), `row` the commit its database row names, `busy` the
clone of `clone_run["paths"]` and `at` where `_clone` is suspended. A tree is
absent, `"half"`, or the whole of a commit: git writes a half tree until its last
command succeeds (`FetchEnds`), and a removal, which is a thread, makes a tree
half before it is gone (`Remove`). `Swap` is one action because the two renames
and the write of the row have no await between them; `SwapRaises` and `Crash`
stop between any two of the three. `SnapshotOf` and `SnapshotAround` are the
walks of `create_snapshot`, with the refusals that keep them out of a tree at
work. The operator may remove a clone at any moment the door is not on it, as
the README allows. `kept`, `torn`, `stuck` and `walked` are history:
which clones ought to be there, whose last swap was cut, whether a removal could
not finish, and what the last walk read.

## 3. The runs

Each passing property has a mutant of the code in `PROJECT.json` that breaks it.

| Run | Asks |
|---|---|
| `upstream_calls` | Do claims and the ceiling hold under every interleaving, is no waiter forgotten, does every call end, is `CeilingContract` implemented? |
| `streamed_result` | However a call ends, is there one row, does it say what the wire said, is its label true, do the ceiling and the report price it alike, and does the audit only add? |
| `experiment_runner` | Do the status, the counters, the rows and what was sent agree through stops, refusals, shutdowns, crashes and failing writes, and does every run end? |
| `experiment_runner_sweep` | Is every row a crash left running corrected at boot? **No, beyond the 100 newest.** |
| `judge_call_seal` | Does the seal admit nothing `call_facts` would not give, whoever writes? |
| `scoring_pass` | Is what the records say of each request what happened to it; are seals true; does every pass, and shutdown, end? |
| `bench_lock` | Does one process write at a time, is only dead work swept, do racing connections leave the database sealed? |
| `comparison_group` | Do the members of a comparison read the same thing, is what is recorded what was sent, is a pin always honourable? |
| `blind_session` | Is every rating recorded blind attested by a view without identities? |
| `experiment_report` | Is the plan accounted for, does the export rebuild the report, does only the model's own doing move its quality, a score or rating sent twice included, does nobody unmeasured win? |
| `report_rebuild` | Does the export rebuild *every* report? **No, not after a pass that stopped part way.** |
| `clone_door` | Is a clone's directory always one whole commit, does its row describe it, does a snapshot read only whole trees, can anything but a sweep or a hand lose a clone? |

Eight further configurations each end in the counterexample that section 5
describes: run `tlc -config <file> <module>`.

| Configuration | Module | Property it violates |
|---|---|---|
| `UpstreamCallsStop.cfg` | `MCUpstreamCalls` | `StopSendsNoWaitingTrial` |
| `ExperimentRunnerSlot.cfg` | `MCExperimentRunner` | `SlotIsFreed` |
| `ScoringPassCut.cfg` | `MCScoringPass` | `StoppedWentOut` |
| `CloneDoorSwap.cfg` | `MCCloneDoor` | `FailedUpdateKeepsTheClone` |
| `BenchLockRefusal.cfg` | `MCBenchLock` | `RefusalNamesTheHolder` |
| `StreamedRunPair.cfg` | `MCStreamedRun` | `ShareIsOfOneBlock` |
| `StreamedRunInfinite.cfg` | `MCStreamedRun` | `UntrustedIsOffered` |
| `BlindSessionRestart.cfg` | `MCBlindSession` | `BlindBeforeTheKey` |

The type invariants of the modules with proofs, and `CountersConserve`,
`LosesOneTrialAtMost`, `EndingsAreFinal`, `NoOpenCallUnderASeal`,
`UpdatesPassTheSeal`, `WritersAreAdmitted`, `CountsAreByTheFacts` and
`LeftoversGoFirst`, are proved for all constants (section 4) and no run repeats them; the inductive invariant of
every proof was checked by TLC on the same instance. `SlotsConserved` of
`UpstreamCalls` holds when it is added to `UpstreamCalls.cfg` and stays with TLC:
a waiter that gives up leaves the queue through `Remove`, which recurses over the
queue.

### Bounds, and why they are enough

*Calls.* A two-member batch, a stream, a trial and a judge call; worst cases 2,
0 (unpriced), 1, 2, 1 under a limit of 3, two slots, settled costs 0, 1 and 3
(nothing counted, within the claim, above it). So the ceiling is reached by a
call that overshoots, two calls queue behind two slots, a trial and a judge call
wait for each other's room, and the unpriced member passes where no priced one
would. Each call runs once, so the model is finite with no further bound. The
safety properties marked below are proved for every number of calls.

*One result.* Nine frames, at most three on a stream: two hosts and two ids that
disagree, two usage blocks that disagree, visible and blank text, an error frame,
junk, `[DONE]`. Three are enough for a value, its contradiction and an ending.
One row of older code stands beside the call's, with a charge that is
trusted, poisoned, or text (and, in `StreamedRunInfinite.cfg`, infinite). What
the run checks is proved for every set of frames and every number of them.

*Experiments.* One pinned run of two trials that halts on a refusal, and one run
of a single trial that does not: a trial has a predecessor, the plan ends after
the first and after the second, and a second experiment can start after
the first one ended or crashed. `Listed` (the `LIMIT 100` of
`list_experiments`) is 2 where the sweep is to reach every row and 1 in
`experiment_runner_sweep`. There is no bound on crashes or restarts.

*Passes.* Two passes over a judge trial, a deterministic one and a judge trial
with no text, the second pass with no judge model: the first and last trials of
the loop, all sorts of suspension, and a pass that starts after another was
swept. `judge_call_seal` has no bound: 9 initial rows and all 126 updates.

*Processes.* Two servers, a `reconcile --apply` and a dry run on one database
with two names, each started, refused, killed and started again without bound.
Servers are symmetric, and so are names; the action property is about pairs of
them alike.

*Groups.* One file with two parser versions and an image reading, one tree with
two walks; a group from before prompts, one from before pins and one new, each
with two members. Every pin a client can name for them, wrong kinds included.

*Sessions.* Two comparisons, three results, two tokens, two ratings, one
restart: a token for the other comparison, a result that came after the view, a
reveal between two views.

*Reports.* Three plans, two of them of two arms; three results, one of them by hand, and two
scores, the last of which ends the model (the rows a later step could add are
also added before it). One plan lists a model twice, over one judged task, in a
record of an older build; the other has a deterministic task and a judged one
with a cutoff, the second drawn first; the third has one arm, and a task that no
scorer answers for before one that a pass scores. So a cell can be whole, short, doubled, or
empty, a pass can stop before each task, and a score can be superseded, by another or by the same said again. None
mixes tasks with a cutoff and tasks without in one kind, which `RebuildsAlike`
excludes; `report_rebuild` takes a plan that does, with no run by hand, and shows
why it must.

*Clones.* Two clones of refs that may each stand at two commits, with every
sort of failure and any number of crashes: an update that changes the commit,
one that does not, and the leftovers of one clone in the way of the other's.
Clones and commits are symmetric; the one action property speaks of all of them
alike, and there is no liveness. What the run
checks is proved for any number of each.

Deadlock is checked except in `streamed_result` and `experiment_report`, whose
systems stop when the one call is audited and when the bounds on rows are
reached.

### Fairness

* The loop runs every ready task, so a call's or a task's own next step is
  weakly fair (`FairSpec` of `UpstreamCalls` and `ExperimentRunner`, `TasksGoOn`
  in `ScoringPass`).
* A reader of a stream takes its frames or goes away: weak fairness is on the
  two together, per call.
* An exchange ends: the client has a read timeout (`bench/models.py`).
* A trial's claim and slot come: that is `UpstreamCalls!EveryCallEnds`, and is
  assumed, by name, in the two modules that see a call from outside. The fairness
  on a trial excludes the step that falls asleep for room.
* A stopped bench is started again: weak fairness of `Boot`.
* No fairness is put on Stop, Shutdown, Crash, or a write failing.
* `ShutdownEnds` is checked with the fairness of shutdown's own timer and close
  and nothing else: the judge may never answer, the room may never come.

The other modules state safety only: what they describe is asked for by people,
who need not go on.

## 4. What is proved

Every theorem is of the module's own specification, for every value of its
constants that its named assumption allows. `Next` is taken action by action;
where a step of the code does several things, it is first brought to what the
invariant sees of it.

`UpstreamCallsProofs`, for every set of calls, every price list, limit, number
of slots and set of costs that satisfies `CeilingAssumption` and
`CallsAssumption` (the calls are finitely many, prices are natural numbers, there
is a slot):

* `CallsTypeCorrect`: the typing of the ledger, the callers and the stops.
* `ClaimsCorrect` (`ClaimsFollowCalls`): a call holds exactly its claim while it
  is queued, at its frame or on the wire, and nothing otherwise. It is inductive
  with the type invariant: every action that moves `pc[c]` across the boundary
  moves `claims[c]` with it.
* `PromiseKept`: the abstract ceiling, `CeilingContract`, keeps its promise. Its
  invariant relates recorded spend to a sum over the admitted calls, so it rests
  on what one changed entry does to the sum of a function over a finite set.
  `SumFunction` is a fold by a recursive function on subsets; since the
  library's induction theorems cannot be instantiated, its facts are proved by
  taking a smallest subset at which they fail.
* `ContractKept` (`KeepsTheContract`): every step of the four callers is a step
  of `CeilingContract` or a stutter, with `admitted` the calls that hold a claim.
  The sum over `claims` and the sum over admitted calls' reservations are
  the same function's, by `ClaimsFollowCalls`.
* `LedgerBoundHolds` (`LedgerBound`): recorded spend plus what is reserved is at
  most the limit plus `beyond`. It is the contract's promise, carried over by the
  two theorems before it.
* `CeilingStopsSending` (`CeilingClosesTheWire`) and `StopIsHeard`
  (`StopSendsNoJudgeCall`): the two ways onto the wire are taken up in the slot,
  where the ceiling, and a judge call's stop, are looked at last.
* `NoSleeperForgotten` (`SleepersHaveAWaker`): every action that returns a claim
  wakes all sleepers, and every other one leaves claims standing for them.

`StreamedRunProofs`, for every set of frames and documents, any number of
frames, any price or none, and any stored rows of older code (`WireAssumption`;
`Labels` is what ids, hosts and verdicts are taken from). `Told(result)` says,
field by field, that what `stream_model` holds is what the wire has said so far:
the first id and host, the last usage block whole, the reasoning count with its
own block's completion count, the last finish and native verdicts. Each kind of
frame keeps it; `Telling` carries it through every suspension, and `Course` says
where a call stands, what its holder knows and whether its row was written. A
step that saves is then shown to add one row that is faithful to the wire,
labelled truly and priced as counted (`WellSaved`), whichever way the call ends:
its `done`, an exception, a disconnect at any suspension, or the end of a batch.
It gives `CallsAreRecordedOnce` (`OnTheRecordOnce`), `RowsTellTheWire`
(`RecordIsTheWire`), `LabelsHold` (`LabelsAreTrue`) and `LedgerIsTheReport`
(`LedgerAgreesWithReport`). `AuditTakesNothing` (`AuditOnlyAdds`) is about one
row: what the reconciler writes of a generation keeps what a reader had of it,
because a column is only replaced where its stored value reads as nothing.
`OffTheListIsUsable` (`OffTheListIsWhole`) assumes that no stored row of older
code holds an infinite charge; `UntrustedIsOffered` in section 5 is why it must.

`ExperimentRunnerProofs`, for every set of experiments, every plan and every
limit of the listing that satisfies `RunnerAssumption`. The inductive invariant
`IInv` has, beside the types, six parts, each about a relation a step could
break: `Shape` (where the runner is suspended says what its row, its trial and
the process may be), `Counting` (the trial it is on is the one after those
counted), `Sending` (what was sent of a plan reaches no further than that
trial), `Saving` (nor do the rows), `Accounts` (what was sent is what was
counted, one more while a trial is out, and never short by more than one once a
crash or a failed write has marred the run), and `Causes` (what an ending may
name: who set the event, whether the run halts, that nothing sent is uncounted). A step of the task is first shown to
be one of three sorts (it ends the run, goes on to a trial, or asks for the
routes), and the parts are preserved by sort. From them follow:

* `CountersAlwaysConserve`, `EverythingSentIsCounted`, `OneTrialIsLostAtMost`:
  the counters against the plan and against what was sent;
* `TrialsAreSentOnce` and `EndingsStayFinal`: the two action properties that
  protect a run from being paid for, or rewritten, twice;
* `EndingsNameTheirCause` (`EndingsAreTrue`): an ended run says "stopped" only if
  it was asked to stop, "halted on refusal" only after a counted refusal, and
  "settled" or "never sent" of the trial in hand only where no trial it sent is
  uncounted (which of those two is true of that trial is not told apart);
* `RunningAlwaysHasARunner`, under `EveryRowIsListed`: the boot's listing
  reaches every row. The code promises that of the newest 100 only, and the run
  `experiment_runner_sweep` shows what happens beyond them.

`ScoringPassProofs`, for every list of trials, every number of passes and every
choice of which were started with a judge (`PassAssumption`). The rows' operators
come first: every ending that `call_facts` accepts passes the seal
(`EndingsPass`), and an ending that tells what became of its request is placed
by the counts no kinder than that (`EndedIsBornOut`). Then each step of the task
is shown either to end the pass, with some ending for what is still open, or to
suspend on a trial with every earlier one marked and no later one begun. The
invariant is `TypeOK`, `Live` (task, slot and row agree), `Ahead` (the rows of the
live pass against the trial it is on), `Wires` (every row is borne out by its
request) and `Sealing` (what is sealed is closed, counted right, and ended by
the word that is true of it). It gives `SentAlwaysRecorded`,
`SealsLeaveNoneOpen`, `CountsAlwaysTrue`, `RecordsAlwaysTruthful`,
`OutcomesAlwaysTrue` and, from how a step may move a row (`RowsMove`), the action
property `UpdatesAlwaysPass`: the trigger never refuses an update of the
bench's own. The same lemmas about a row give, of `JudgeCallSeal`, where any
update may be tried on any row: `SealTakesFactsOnly` (`SealHoldsCallFacts`),
`CountsGoByTheFacts` (`CountsAreByTheFacts`) and `WritersAlwaysPass`
(`WritersAreAdmitted`).

`CloneDoorProofs`, for every set of clones and commits (`CloneAssumption`).
`RowsDescribeTrees` and `FinalAlwaysWhole` rest on `TreesInv`, which adds that
what is about to be swapped in is a whole commit (`FetchedIsWhole`);
`WalksAlwaysWhole` and `LeftoversAlwaysGoFirst` on `LeftoversInv`, which adds
where a half tree can be while the bench is up (`HalvesAreAtHand`): in the work
directory of the one clone at hand, or anywhere while the sweep runs. Both hold
until a removal could not finish in the life of the process (`stuck`).
`SweepsAloneLoseTrees` (`OnlyASweepLosesATree`) rests on the first of the two
and on one more part, `DroppingIsMended`: the swap's last step removes the tree
it moved aside, and by then the new one is in place under the row. So the tree a
row names is at the clone's directory, or beside it where a crash cut the swap,
until a sweep takes it.

`BenchLockProofs`, for every set of processes of the three kinds, of databases
and of names (`LockAssumption`: a name is of one database, nobody is no process).
`HoldersHold` (a process past its lock holds the lock of the database it
reached), `WritersAreThrough` (nothing is written before the columns are read) and
`MigratedSoFar` (how far each connection in progress has brought its database:
nobody takes one back) are inductive with the types. They give
`OneWriterAlways` (`OneWriter`), `ConnectsAreSafe` (`ConnectsRaceSafely`) and the
action property `SweepsAreSound` (`SweepsOnlyTheDead`).

`ComparisonGroupProofs`, for any files, trees, parser versions, older rows and
groups, declarations and requests (`ComparisonAssumption`: they are of their
shapes, groups of older code have no pins). `PinsAlwaysHonoured`
(`PinsAreHonourable`) rests on `StoreInv`: a digest's row is a reading on file,
and what pins name is never removed, so it resolves for ever. `RecordsAreTrue`
(`RecordsWhatWasSent`) and `ComparisonsAreFair` (`OneExperiment`) add
`MembersInv`, about every member waiting, calling or recorded: its content is the
readings of its pins, and those are its group's. A native stream has no content
until its slot; `Awaits` says why the pins it passed its checks with are the ones
it resolves then: they are images, which nothing that happens later reads
otherwise. The last two assume `~Guesses`, that no request names a group id before
the group exists; section 5 says what happens when one does.

Its last section is about `BlindSession`, for any comparisons and any number of
results, tokens, ratings and restarts (`BlindAssumption`): `BlindAlwaysAttested`
(`BlindIsAttested`). The invariant adds that a view shows results of its
comparison (`ViewsShowResults`), that a live token is that of a view this process
handed out (`TokensAreViews`), and that a comparison whose key this process gave
away is open no more (`KeysCloseSessions`).

`ExperimentReportProofs`, for every set of experiments that satisfies
`ReportAssumption` (a lineup has an arm, an order draws tasks of the dataset, a
rating is a number, no reading of a dataset is the absence of one) and any bounds
on rows and scores. The properties are of a report, which is a function of all
rows at once, so the proof has two halves.

The first is about the steps. `RotationIsAPermutation` (every cell's order is a
bijection of the arms: the offset divides in one way) and the lemma `ThePlan` say
what the plan asks for; `RotationIsBalanced` is what `rotate`'s docstring promises,
that "every model occupies every position an equal number of times over a full
cycle". The inductive invariant `IInv` adds to the types `RowsAreArms` (a
recorded position is one its model occupies; a row of the runner has the model
and the position of its arm), `TurnsAreTaken` (an arm has one row of the runner
in a cell, and in the newest cell only the arms up to `place` do),
`ScorersAnswer` (a score that is nobody's rating is by its task's scorer) and
`PassIsScored` (a pass holds only groups whose task has one). The
types alone would let the runner give an arm a second row in its cell: one row
more than its model has slots, and in no trial. `IInv` implies `ServedReads`: what the report is
served from is a `Reading`, in which ids tell groups, rows and scores apart and
positions are places of their models. Properties of steps use it on both sides
of the step.

The second is about readings, whatever made them:

* `ThePlanIsAccounted` (`PlanIsAccounted`). In a cell `cell_arm` never gives two
  rows one arm (`ArmsTellApart`): by position because `Usable` positions are
  distinct, by order because the row with n rows up to it gets the place with n
  slots up to it (`PlaceAmongSlots`). So each arm has one trial in each recorded
  cell (`OneTrialEach`), and summing over cells gives the plan. In a cell no hand
  has touched, `TurnsAreTaken` leaves no more rows of a model than it has slots,
  so each has an arm (`EveryRank`, `Untouched`).
* `NobodyWinsByFailing` (`FailingNeverWins`). A section's total is a natural
  number and nothing where nothing was measured, and its count is above zero
  where something was (`SectionCounted`). Everything above a measured mean is
  above a mean of zero too (`RankedBelow`), so the rank of the measured is no
  larger.
* `NobodysAnswerMovesNothing` (`QualityIsTheModelsOwn`). Sections depend on the
  scores and on the trials of a quality outcome alone (`SectionsAgree`); a new row
  with neither changes its arm from missing to refused or stopped, and where
  positions decide it changes no other row's arm (`NobodysRows`). A score or a
  rating written a second time gives every trial a twin (`TwinTrials`) with the
  same newest of every key (`TwinsLatest`) and the same facts about tasks,
  scorers and verdicts (`FactsDecide`), which is all the sections read
  (`AgainMovesNothing`).
* `ExportRebuilds` (`RebuildsAlike`). Two readings with the same rows under
  other places agree on every trial if positions decide or the order within each
  model's rows is the same (`SameArms`), and rows of a cell with
  one position are exported in the order of their ids (`PlacesKeepOrder`), which
  is all that is left to decide where no run was filed by hand
  (`ExportKeepsTrials`). The manifest's slice then answers as the dataset does: a
  kind it leaves out has no cutoff, and its tasks are witnessed by their scores;
  this is asked of the scorers some score is by, the only ones with a section
  (`SliceAnswersAlike`, which is where `ScorersAnswer` and `EveryTaskScored` are
  needed).

A total is the library's `MapThenSumSet`, which is a recursion over a set. As for
the ceiling's sum, its facts (`TotalExists`, `TotalIsNatural`) are proved by
taking a smallest subset at which they fail.

Only model-checked: every liveness property (`EveryCallEnds`, `EveryRunEnds`,
`EveryPassEnds`, `ShutdownEnds`) and `SlotsConserved`. Every other property of a
passing run is stated by a theorem; the properties of the runs and configurations
that end in a counterexample are of course not.

## 5. Known divergences, abstractions, what is left out

`PROJECT.json` lists two as findings, each with the sentence it contradicts:

* The boot sweep reads the newest 100 experiments (`bench/main.py` 2157), so an
  older row a crash left running stays so (`experiment_runner_sweep`).
* An export does not rebuild every report (`bench/main.py` 10814): its slice of
  the dataset leaves out tasks without a cutoff, and `applicable_tasks` reads
  their kinds (`report_rebuild`). `RebuildsAlike` says under which conditions the
  promise of README.md 15-16 does hold. With a run filed by hand and positions
  that cannot tell rows apart, the order of rows decides an arm, and the two
  readings order them differently: the second condition.

The further configurations show:

* `StopSendsNoWaitingTrial`: README.md 264-265 says of a trial that waits for
  room that a Stop "ends the wait with nothing sent". A trial woken by freed room
  tries its claim before it looks at the stop (`bench/main.py` 6566) and is sent.
* `SlotIsFreed`: the comment at `bench/main.py` 6760 has "EVERY exit through the
  one finally"; when the finally's status write raises (7083), the slot stays
  held until a restart.
* `StoppedWentOut`: `bench/store.py` 3714-3716 defines `stopped` as "the request
  went out and the bench's own shutdown cut it"; a request cut while it was
  connecting is recorded so too (`bench/main.py` 7707).
* `FailedUpdateKeepsTheClone`: README.md 2223-2224, "A failed update leaves the
  old clone exactly as it was". A process killed between the two renames
  (`bench/main.py` 9675-9676) leaves both trees under names the boot's sweep
  removes.
* `RefusalNamesTheHolder`: `hold_lock`'s docstring has the refusal name what
  holds the lock; the flock and the note are two steps (`bench/store.py`
  1156-1162), so a process refused between them reads the last holder's note, or
  none.
* `ShareIsOfOneBlock`: `exhaustion_pair`'s docstring (`bench/models.py`
  2175-2205) has both counts "in one accounting family"; a later usage block with
  no reasoning count leaves the earlier one's beside its own completion count.
* `UntrustedIsOffered`: `results_awaiting_reconciliation`'s docstring
  (`bench/store.py` 2958-2959) says that "a value no reader will trust is a value
  this list still offers to replace". A stored charge of infinity is a number at
  or above zero to the query and none to a reader, so its row is not offered.
  What writes rows today lets none through (`as_money`); an older row may hold one.
* `BlindBeforeTheKey`: the comment at `bench/main.py` 10335-10353 says of a reveal
  that "no rating of it made afterwards is blind however the page is arranged"
  and of a restart that it "fails closed". The restart forgets the reveal as
  well, and a new session may be opened for the same comparison.

Noted while modelling, with no configuration of their own:

* `RestatedPinsMatch` (`ComparisonGroup`): `pins_for`'s comment says a member that
  restates its pins and leaves the capture unnamed matches; it does not once the
  tree was walked again. Added to `ComparisonGroup.cfg`, it is violated.
* With `Guesses = TRUE`, `OneExperiment` fails: a request that names a group id
  not yet there is checked against nothing and, if the group is created before
  it is saved, becomes a member (`resolve_links`, `bench/main.py` 4559).
* The 422 of `submit_ratings` advises to "reveal and reopen"; the reveal is one
  way, and a reopening answers 409. A rating that fails to be written leaves those
  before it written; a retry then writes them twice, which moves no section of
  the report (`SaysAgain` in `QualityIsTheModelsOwn`).
* `create_snapshot` files the text and the capture in two transactions; a crash
  between leaves a document with no walk.
* `latest_per_key` orders by time before id, so a clock set back makes an older
  row the newest. The model orders by id.
* `trial_outcome` calls no row from before provenance refused
  (`bench/report.py` 84, 137); every row of an experiment is later than that, and
  `ReportRules` leaves the case out.
* `rebuild_from_export` models an export's lines as `export_trial` writes them;
  what rebuilds a report from them is `tests/test_api.py`, not the program.
* `_judge_cost`'s docstring says each call "is in exactly one of these" buckets;
  a call may be in none.
* After a crash a swept experiment's "remaining trials never ran" may be wrong by
  exactly the one trial that was in flight (`LosesOneTrialAtMost`), and a run
  cancelled while its routes are fetched carries shutdown's sentence about "the
  trial in flight" though none was (deferred in `BACKLOG.md`); what is true of
  that sentence is in `EndingsAreTrue`.

Abstracted: money is a natural number (the floats' `fsum` is outside); a call's
price is a constant; a score is a natural number; what a trial or an answer says is its outcome, and a text is
none, blank or visible; a reading of a document stands for its text; database
writes are atomic per transaction, as SQLite gives them, and may raise where the
code would see it. A scorer's verdict on a text is any it may give.

Not modelled: the cancellation of a whole batch (its members are not cancelled
by their reader); the routes a pinned experiment resolves, and the other checks
of its creation; latency percentiles, the bootstrap's intervals, the cost
tables and the documents section of a report; sizes, the context window and
their refusals; the checks of a clone's URL and ref, and a git that outlives a
killed bench; a hard link to a database, which the code names as its limit; the
ignore rules of the snapshot walk and a tree that changes under it; the regex
child process.

Not modelled at all: parsers of documents and datasets, the wording of reports,
rendering in the front end, plain inserts and selects, the local-only guard.
They have no state of their own beyond rows, or no behaviour a model would tell
apart from a test.

Out of the prover's reach: liveness and ENABLED, and induction over data. No
module with a theorem reaches a RECURSIVE operator.

## 6. Plan

The plan was: the ceiling and its callers first, because every call passes them;
then what a call leaves behind, the runner, the scoring pass and its records, the
lock, the groups, the sessions, the clone door; the report, which reads what all
of these wrote, last. Each module was written with its runs, then its inductive
invariant was checked by TLC and proved. That is done for every module above.

What a next step would be:

1. `SlotsConserved`, once the semaphore's queue is a function over tickets and not
   a sequence that `Remove` recurses over.
2. The cancellation of a whole batch, and the routes a pinned experiment
   resolves, in `UpstreamCalls` and `ExperimentRunner`.
