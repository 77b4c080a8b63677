----------------------------- MODULE BenchLock -----------------------------
(***************************************************************************)
(* The processes that open one bench database: servers, reconcile --apply, *)
(* reconcile's dry run.  bench/store.py gives the first two the database's *)
(* lock before they connect, and main.py's server keeps it for its whole   *)
(* life, because its boot records as interrupted whatever the database     *)
(* says is running.                                                        *)
(*                                                                         *)
(* A process names the database by a path; the lock is a file beside the   *)
(* path it resolves to, and the kernel gives a dead process's lock back.   *)
(* A database an older bench wrote is migrated by whoever connects first,  *)
(* the dry run too, and it holds no lock.  A memory database has no lock   *)
(* and no second process: it is left out.                                  *)
(***************************************************************************)
EXTENDS FiniteSets

CONSTANTS
  Procs, Kind,   \* Kind[p] is "server", "reconcile" or "dry"
  Paths,         \* the names the database can be reached by
  Files,         \* what they resolve to
  Resolves,      \* os.path.realpath
  Nobody

\* A hard link, two resolved names of one database, is a limit the code names
\* (lock_path): one file, one database.
ASSUME LockAssumption ==
  /\ Kind \in [Procs -> {"server", "reconcile", "dry"}]
  /\ Resolves \in [Paths -> Files]
  /\ Nobody \notin Procs

VARIABLES
  pc,      \* where each process is
  path,    \* the name it was started with
  lock,    \* the process that holds the flock on each lock file
  note,    \* what each lock file says
  column,  \* per database: a column of MIGRATIONS is there
  seals,   \* per database: the seal triggers on its judge calls
  running, \* per database: the process whose run its row says is running
  saw,     \* the column, as a connecting process read it
  wrote    \* history: the process has written to its database since it started

dbVars == <<column, seals, running>>
vars == <<pc, path, lock, note, dbVars, saw, wrote>>

\* What a lock can be taken on: every name, of which the code uses the
\* resolved ones.
LockFiles == Paths \cup Files

Init ==
  /\ pc = [p \in Procs |-> "off"]
  /\ path \in [Procs -> Paths]
  /\ lock = [f \in LockFiles |-> Nobody]
  /\ note = [f \in LockFiles |-> Nobody]
  /\ \/ /\ column = [f \in Files |-> FALSE]   \* a database of an older bench
        /\ seals = [f \in Files |-> {"old"}]
     \/ /\ column = [f \in Files |-> TRUE]
        /\ seals = [f \in Files |-> {"new"}]
  /\ running = [f \in Files |-> Nobody]
  /\ saw = [p \in Procs |-> FALSE] /\ wrote = [p \in Procs |-> FALSE]

Db(p) == Resolves[path[p]]

\* Variant: beside the path as given.
lock_path_given(p) == path[p]

lock_path(p) == Resolves[path[p]]

Wrote(p) == wrote' = [wrote EXCEPT ![p] = TRUE]

Goes(p, to) == pc' = [pc EXCEPT ![p] = to]

\* The process is gone, and its lock with it.
Gone(p) ==
  /\ Goes(p, "off")
  /\ lock' = [f \in LockFiles |-> IF lock[f] = p THEN Nobody ELSE lock[f]]
  /\ saw' = [saw EXCEPT ![p] = FALSE] /\ wrote' = [wrote EXCEPT ![p] = FALSE]
  /\ UNCHANGED <<path, note, dbVars>>

-----------------------------------------------------------------------------
(***************************************************************************)
(* Taking the lock.                                                        *)
(***************************************************************************)

\* Variant: reconcile --apply connects as its dry run does.
Launch_apply_unlocked(p) ==
  /\ pc[p] = "off"
  /\ \E n \in Paths : path' = [path EXCEPT ![p] = n]
  /\ Goes(p, IF Kind[p] = "server" THEN "locking" ELSE "columns")
  /\ UNCHANGED <<lock, note, dbVars, saw, wrote>>

\* A process starts, under any name: its lock comes before its connection.
Launch(p) ==
  /\ pc[p] = "off"
  /\ \E n \in Paths : path' = [path EXCEPT ![p] = n]
  /\ Goes(p, IF Kind[p] = "dry" THEN "columns" ELSE "locking")
  /\ UNCHANGED <<lock, note, dbVars, saw, wrote>>

\* hold_lock: the flock, without waiting; taken, or refused in a sentence
\* that names what the file says.
hold_lock(p) ==
  /\ pc[p] = "locking"
  /\ \/ /\ lock[lock_path(p)] = Nobody
        /\ lock' = [lock EXCEPT ![lock_path(p)] = p] /\ Goes(p, "noting")
     \/ /\ lock[lock_path(p)] # Nobody
        /\ Goes(p, "refused") /\ UNCHANGED lock
  /\ UNCHANGED <<path, note, dbVars, saw, wrote>>

\* The holder truncates the file and writes what it is.
WriteNote(p) ==
  /\ pc[p] = "noting" /\ Goes(p, "columns")
  /\ note' = [note EXCEPT ![lock_path(p)] = p]
  /\ UNCHANGED <<path, lock, dbVars, saw, wrote>>

-----------------------------------------------------------------------------
(***************************************************************************)
(* connect: each statement commits by itself.                              *)
(***************************************************************************)
ReadColumns(p) ==
  /\ pc[p] = "columns" /\ Goes(p, "alter")
  /\ saw' = [saw EXCEPT ![p] = column[Db(p)]]
  /\ UNCHANGED <<path, lock, note, dbVars, wrote>>

\* One somebody else added in between is what this wanted.
AddColumn(p) ==
  /\ pc[p] = "alter" /\ Goes(p, "seals")
  /\ IF saw[p] \/ column[Db(p)] THEN UNCHANGED <<column, wrote>>
     ELSE column' = [column EXCEPT ![Db(p)] = TRUE] /\ Wrote(p)
  /\ UNCHANGED <<path, lock, note, seals, running, saw>>

\* Variant: the retired seals are dropped before the new ones are laid.
Seal_drop_first(p) ==
  \/ /\ pc[p] = "seals" /\ Goes(p, "retire") /\ Wrote(p)
     /\ seals' = [seals EXCEPT ![Db(p)] = @ \ {"old"}]
     /\ UNCHANGED <<path, lock, note, column, running, saw>>
  \/ /\ pc[p] = "retire" /\ Goes(p, "connected") /\ Wrote(p)
     /\ seals' = [seals EXCEPT ![Db(p)] = @ \cup {"new"}]
     /\ UNCHANGED <<path, lock, note, column, running, saw>>

\* SEALS are laid, then RETIRED_SEALS dropped.
Seal(p) ==
  \/ /\ pc[p] = "seals" /\ Goes(p, "retire")
     /\ seals' = [seals EXCEPT ![Db(p)] = @ \cup {"new"}]
     /\ IF "new" \in seals[Db(p)] THEN UNCHANGED wrote ELSE Wrote(p)
     /\ UNCHANGED <<path, lock, note, column, running, saw>>
  \/ /\ pc[p] = "retire" /\ Goes(p, "connected")
     /\ seals' = [seals EXCEPT ![Db(p)] = @ \ {"old"}]
     /\ IF "old" \in seals[Db(p)] THEN Wrote(p) ELSE UNCHANGED wrote
     /\ UNCHANGED <<path, lock, note, column, running, saw>>

-----------------------------------------------------------------------------
(***************************************************************************)
(* What the process does with the database, and its end.                   *)
(***************************************************************************)

\* _serve: whatever the database says is running belongs to the dead.
Sweep(p) ==
  /\ Kind[p] = "server" /\ pc[p] = "connected" /\ Goes(p, "serving") /\ Wrote(p)
  /\ running' = [running EXCEPT ![Db(p)] = Nobody]
  /\ UNCHANGED <<path, lock, note, column, seals, saw>>

\* A run or a scoring pass begins, and ends, in a serving process.
StartRun(p) ==
  /\ pc[p] = "serving" /\ running[Db(p)] = Nobody /\ Wrote(p)
  /\ running' = [running EXCEPT ![Db(p)] = p]
  /\ UNCHANGED <<pc, path, lock, note, column, seals, saw>>

EndRun(p) ==
  /\ pc[p] \in {"serving", "closing"} /\ running[Db(p)] = p /\ Wrote(p)
  /\ running' = [running EXCEPT ![Db(p)] = Nobody]
  /\ UNCHANGED <<pc, path, lock, note, column, seals, saw>>

\* The server is asked to stop: it waits for what runs.
Shutdown(p) ==
  /\ pc[p] = "serving" /\ Goes(p, "closing")
  /\ UNCHANGED <<path, lock, note, dbVars, saw, wrote>>

\* The database is closed and the lock goes back: at the end of the pass for
\* reconcile, and for a server once nothing of it runs.
Release(p) ==
  /\ \/ pc[p] = "connected" /\ Kind[p] # "server"
     \/ pc[p] = "closing" /\ running[Db(p)] # p
  /\ Gone(p)

\* reconcile --apply writes a row.
Apply(p) ==
  /\ Kind[p] = "reconcile" /\ pc[p] = "connected" /\ Wrote(p)
  /\ UNCHANGED <<pc, path, lock, note, dbVars, saw>>

\* The process dies anywhere, or exits refused: the kernel gives its lock
\* back, its note and its running row stay.
Crash(p) == pc[p] # "off" /\ Gone(p)

Step(p) ==
  \/ Launch(p) \/ hold_lock(p) \/ WriteNote(p) \/ ReadColumns(p) \/ AddColumn(p)
  \/ Seal(p) \/ Sweep(p) \/ StartRun(p) \/ EndRun(p) \/ Shutdown(p) \/ Release(p)
  \/ Apply(p) \/ Crash(p)

Next == \E p \in Procs : Step(p)

Spec == Init /\ [][Next]_vars

-----------------------------------------------------------------------------
(***************************************************************************)
(* Properties.                                                             *)
(***************************************************************************)

Stages == {"off", "locking", "noting", "columns", "alter", "seals", "retire",
           "connected", "serving", "closing", "refused"}

TypeOK ==
  /\ pc \in [Procs -> Stages]
  /\ path \in [Procs -> Paths]
  /\ lock \in [LockFiles -> Procs \cup {Nobody}]
  /\ column \in [Files -> BOOLEAN]
  /\ seals \in [Files -> SUBSET {"old", "new"}]
  /\ running \in [Files -> Procs \cup {Nobody}]
  /\ saw \in [Procs -> BOOLEAN]
  /\ wrote \in [Procs -> BOOLEAN]

\* A run is recorded as interrupted only when it is: a row a living server
\* keeps running is ended by nobody else, by whatever name another process
\* came to the database, whenever either of them started, died or stopped
\* (_serve's sweeps, sound only under the lock).
SweepsOnlyTheDead ==
  [][\A f \in Files, p \in Procs :
       running[f] = p /\ running'[f] # p /\ Db(p) = f /\ pc[p] \in {"serving", "closing"} =>
         \A q \in Procs \ {p} : pc'[q] = pc[q]]_vars

\* One process writes at a time: of two living ones that have written to the
\* same database one is the dry run, whose migration needs no lock; a refused
\* one has written nothing (lifespan takes the lock before it connects).
OneWriter ==
  /\ \A p, q \in Procs :
       p # q /\ Db(p) = Db(q) /\ wrote[p] /\ wrote[q] => "dry" \in {Kind[p], Kind[q]}
  /\ \A p \in Procs : pc[p] = "refused" => ~wrote[p]

\* Processes that connect at once, the dry run without a lock among them, each
\* end with the column, the new seal and no retired one, and at no moment of it
\* is a table of judge calls without a seal (connect's migrations, SEALS and
\* RETIRED_SEALS).
ConnectsRaceSafely ==
  /\ \A p \in Procs : pc[p] \in {"connected", "serving", "closing"} =>
                        column[Db(p)] /\ seals[Db(p)] = {"new"}
  /\ \A f \in Files : seals[f] # {}

\* hold_lock's docstring (bench/store.py:1130) and lifespan's comment
\* (bench/main.py:2038): the refusal names what holds the lock.
RefusalNamesTheHolder ==
  [][\A p \in Procs : pc[p] = "locking" /\ pc'[p] = "refused" =>
       note[lock_path(p)] = lock[lock_path(p)]]_vars
=============================================================================
