-------------------------- MODULE BenchLockProofs --------------------------
(***************************************************************************)
(* Proofs about BenchLock, for any processes of the three kinds, any       *)
(* databases and any names of them, through every crash and relaunch: that *)
(* one process writes at a time, that a boot ends no living run, and that  *)
(* connections that race leave a migrated and always sealed database.      *)
(***************************************************************************)
EXTENDS BenchLock, TLAPS

\* Past its lock, and past the first statement that may write.
Locked  == Stages \ {"off", "locking", "refused"}
Altered == {"seals", "retire", "connected", "serving", "closing"}

\* Whoever connects holds the lock of its database, but for the dry run,
\* which does none of what the lock is for.
HoldersHold ==
  \A p \in Procs :
    /\ Kind[p] # "dry" /\ pc[p] \in Locked => lock[lock_path(p)] = p
    /\ Kind[p] # "server" => pc[p] \notin {"serving", "closing"}

\* What has been written was written past the reading of the columns.
WritersAreThrough == \A p \in Procs : wrote[p] => pc[p] \in Altered

\* How far a connecting process has brought its database; nobody takes a
\* database back.
MigratedSoFar ==
  /\ \A p \in Procs :
       /\ saw[p] => pc[p] \in {"alter"} \cup Altered
       /\ saw[p] \/ pc[p] \in Altered => column[Db(p)]
       /\ pc[p] \in Altered \ {"seals"} => "new" \in seals[Db(p)]
       /\ pc[p] \in Altered \ {"seals", "retire"} => "old" \notin seals[Db(p)]
  /\ \A f \in Files : seals[f] # {}

IInv == TypeOK /\ HoldersHold /\ WritersAreThrough /\ MigratedSoFar

-----------------------------------------------------------------------------
LEMMA InitHolds == Init => IInv
<1> SUFFICES ASSUME Init PROVE IInv
  OBVIOUS
<1>1. TypeOK
  BY DEF Init, TypeOK, Stages
<1>2. \A p \in Procs : pc[p] = "off" /\ ~saw[p] /\ ~wrote[p]
  BY DEF Init
<1>3. HoldersHold /\ WritersAreThrough
  BY <1>2 DEF HoldersHold, WritersAreThrough, Locked
<1>4. \A f \in Files : seals[f] # {}
  BY DEF Init
<1>5. MigratedSoFar
  BY <1>2, <1>4 DEF MigratedSoFar, Altered
<1> QED BY <1>1, <1>3, <1>5 DEF IInv

\* Where a process's database is, and that a lock file stands beside it.
LEMMA Places ==
  ASSUME TypeOK, NEW p \in Procs
  PROVE  Db(p) \in Files /\ lock_path(p) \in LockFiles /\ lock_path(p) = Db(p)
BY LockAssumption DEF TypeOK, Db, lock_path, LockFiles

LEMMA TypeStep == TypeOK /\ [Next]_vars => TypeOK'
<1> SUFFICES ASSUME TypeOK, [Next]_vars PROVE TypeOK'
  OBVIOUS
<1> USE LockAssumption, Places DEF TypeOK, Stages
<1>1. ASSUME NEW p \in Procs, Launch(p) PROVE TypeOK'
  BY <1>1 DEF Launch, Goes, dbVars
<1>2. ASSUME NEW p \in Procs, hold_lock(p) PROVE TypeOK'
  BY <1>2 DEF hold_lock, Goes, dbVars
<1>3. ASSUME NEW p \in Procs, WriteNote(p) PROVE TypeOK'
  BY <1>3 DEF WriteNote, Goes, dbVars
<1>4. ASSUME NEW p \in Procs, ReadColumns(p) PROVE TypeOK'
  BY <1>4 DEF ReadColumns, Goes, dbVars
<1>5. ASSUME NEW p \in Procs, AddColumn(p) PROVE TypeOK'
  BY <1>5 DEF AddColumn, Goes, Wrote
<1>6. ASSUME NEW p \in Procs, Seal(p) PROVE TypeOK'
  <2>1. PICK s \in {"seals", "retire", "connected"} : pc' = [pc EXCEPT ![p] = s]
    BY <1>6 DEF Seal, Goes
  <2>2. wrote' \in [Procs -> BOOLEAN]
    BY <1>6 DEF Seal, Wrote
  <2>3. seals' \in [Files -> SUBSET {"old", "new"}]
    BY <1>6 DEF Seal
  <2> QED BY <1>6, <2>1, <2>2, <2>3 DEF Seal
<1>7. ASSUME NEW p \in Procs, Sweep(p) PROVE TypeOK'
  BY <1>7 DEF Sweep, Goes, Wrote
<1>8. ASSUME NEW p \in Procs, StartRun(p) PROVE TypeOK'
  BY <1>8 DEF StartRun, Wrote
<1>9. ASSUME NEW p \in Procs, EndRun(p) PROVE TypeOK'
  BY <1>9 DEF EndRun, Wrote
<1>10. ASSUME NEW p \in Procs, Shutdown(p) PROVE TypeOK'
  BY <1>10 DEF Shutdown, Goes, dbVars
<1>11. ASSUME NEW p \in Procs, Gone(p) PROVE TypeOK'
  BY <1>11 DEF Gone, Goes, dbVars
<1>12. ASSUME NEW p \in Procs, Apply(p) PROVE TypeOK'
  BY <1>12 DEF Apply, Wrote, dbVars
<1>13. CASE UNCHANGED vars
  BY <1>13 DEF vars, dbVars
<1> QED
  BY <1>1, <1>2, <1>3, <1>4, <1>5, <1>6, <1>7, <1>8, <1>9, <1>10, <1>11, <1>12, <1>13
     DEF Next, Step, Release, Crash

-----------------------------------------------------------------------------
\* The actions of one process, with the two that end it as one.
LEMMA StepCases ==
  ASSUME NEW p \in Procs, Step(p)
  PROVE  \/ Launch(p) \/ hold_lock(p) \/ WriteNote(p) \/ ReadColumns(p)
         \/ AddColumn(p) \/ Seal(p) \/ Sweep(p) \/ StartRun(p) \/ EndRun(p)
         \/ Shutdown(p) \/ Gone(p) \/ Apply(p)
BY DEF Step, Release, Crash

\* A step of one process leaves every other where it was, with its lock.
LEMMA OthersKeep ==
  ASSUME TypeOK, NEW p \in Procs, Step(p), NEW q \in Procs, q # p
  PROVE  /\ pc'[q] = pc[q] /\ Db(q)' = Db(q) /\ saw'[q] = saw[q] /\ wrote'[q] = wrote[q]
         /\ \A f \in LockFiles : lock[f] = q => lock'[f] = q
<1> USE LockAssumption DEF TypeOK, Db
<1>1. CASE Launch(p)
  BY <1>1 DEF Launch, Goes
<1>2. CASE hold_lock(p)
  BY <1>2 DEF hold_lock, Goes
<1>3. CASE WriteNote(p) \/ ReadColumns(p) \/ AddColumn(p) \/ Seal(p) \/ Sweep(p)
  BY <1>3 DEF WriteNote, ReadColumns, AddColumn, Seal, Sweep, Goes, Wrote
<1>4. CASE StartRun(p) \/ EndRun(p) \/ Shutdown(p) \/ Apply(p)
  BY <1>4 DEF StartRun, EndRun, Shutdown, Apply, Goes, Wrote
<1>5. CASE Gone(p)
  BY <1>5 DEF Gone, Goes
<1> QED BY <1>1, <1>2, <1>3, <1>4, <1>5, StepCases

\* No step takes a database back: a column stays, a new seal stays, a retired
\* one does not return.
LEMMA OnlyForward ==
  ASSUME TypeOK, NEW p \in Procs, Step(p), NEW f \in Files
  PROVE  /\ column[f] => column'[f]
         /\ "new" \in seals[f] => "new" \in seals'[f]
         /\ "old" \notin seals[f] => "old" \notin seals'[f]
<1> USE LockAssumption, Places DEF TypeOK
<1>1. CASE AddColumn(p)
  BY <1>1 DEF AddColumn
<1>2. CASE Seal(p)
  BY <1>2 DEF Seal
<1>3. CASE Launch(p) \/ hold_lock(p) \/ WriteNote(p) \/ ReadColumns(p) \/ Sweep(p)
  BY <1>3 DEF Launch, hold_lock, WriteNote, ReadColumns, Sweep, dbVars
<1>4. CASE StartRun(p) \/ EndRun(p) \/ Shutdown(p) \/ Gone(p) \/ Apply(p)
  BY <1>4 DEF StartRun, EndRun, Shutdown, Gone, Apply, dbVars
<1> QED BY <1>1, <1>2, <1>3, <1>4, StepCases

\* The lock is taken before anything it is for, and goes back only with its
\* holder.
LEMMA HoldersStep ==
  ASSUME IInv, NEW p \in Procs, Step(p)
  PROVE  HoldersHold'
<1>1. TypeOK /\ TypeOK'
  BY TypeStep DEF IInv, Next
<1> USE LockAssumption, Places DEF TypeOK, HoldersHold, IInv, Stages, Locked
<1>2. ASSUME NEW q \in Procs, q # p
      PROVE  /\ Kind[q] # "dry" /\ pc'[q] \in Locked => lock'[lock_path(q)'] = q
             /\ Kind[q] # "server" => pc'[q] \notin {"serving", "closing"}
  <2>1. lock_path(q)' = lock_path(q) /\ lock_path(q) \in LockFiles
    BY <1>1, <1>2, OthersKeep DEF Db, lock_path
  <2> QED BY <1>1, <1>2, <2>1, OthersKeep
<1>3. /\ Kind[p] # "dry" /\ pc'[p] \in Locked => lock'[lock_path(p)'] = p
      /\ Kind[p] # "server" => pc'[p] \notin {"serving", "closing"}
  <2>1. CASE Launch(p)
    BY <2>1 DEF Launch, Goes
  <2>2. CASE hold_lock(p)
    BY <2>2 DEF hold_lock, Goes, lock_path
  <2>3. CASE WriteNote(p) \/ ReadColumns(p) \/ AddColumn(p)
    BY <2>3 DEF WriteNote, ReadColumns, AddColumn, Goes, lock_path
  <2>4. CASE Seal(p)
    BY <2>4 DEF Seal, Goes, lock_path
  <2>5. CASE Sweep(p) \/ Shutdown(p)
    BY <2>5 DEF Sweep, Shutdown, Goes, lock_path
  <2>6. CASE StartRun(p) \/ EndRun(p) \/ Apply(p)
    BY <2>6 DEF StartRun, EndRun, Apply, lock_path
  <2>7. CASE Gone(p)
    BY <2>7 DEF Gone, Goes
  <2> QED BY <2>1, <2>2, <2>3, <2>4, <2>5, <2>6, <2>7, StepCases
<1> QED BY <1>2, <1>3

LEMMA WritersStep ==
  ASSUME IInv, NEW p \in Procs, Step(p)
  PROVE  WritersAreThrough'
<1>1. TypeOK
  BY DEF IInv
<1>2. ASSUME NEW q \in Procs, q # p PROVE wrote'[q] => pc'[q] \in Altered
  BY <1>1, <1>2, OthersKeep DEF IInv, WritersAreThrough
<1>3. wrote'[p] => pc'[p] \in Altered
  <2> USE <1>1 DEF IInv, TypeOK, WritersAreThrough, Altered
  <2>1. CASE Launch(p) \/ hold_lock(p) \/ WriteNote(p) \/ ReadColumns(p)
    BY <2>1 DEF Launch, hold_lock, WriteNote, ReadColumns, Goes
  <2>2. CASE AddColumn(p) \/ Seal(p) \/ Sweep(p)
    BY <2>2 DEF AddColumn, Seal, Sweep, Goes
  <2>3. CASE StartRun(p) \/ EndRun(p) \/ Shutdown(p) \/ Apply(p)
    BY <2>3 DEF StartRun, EndRun, Shutdown, Apply, Goes
  <2>4. CASE Gone(p)
    BY <2>4 DEF Gone
  <2> QED BY <2>1, <2>2, <2>3, <2>4, StepCases
<1> QED BY <1>2, <1>3 DEF WritersAreThrough

\* Each statement of connect leaves what the next ones count on.
LEMMA MigratedStep ==
  ASSUME IInv, NEW p \in Procs, Step(p)
  PROVE  MigratedSoFar'
<1>1. TypeOK /\ TypeOK'
  BY TypeStep DEF IInv, Next
<1> DEFINE Reached(q) == /\ saw[q] => pc[q] \in {"alter"} \cup Altered
                         /\ saw[q] \/ pc[q] \in Altered => column[Db(q)]
                         /\ pc[q] \in Altered \ {"seals"} => "new" \in seals[Db(q)]
                         /\ pc[q] \in Altered \ {"seals", "retire"} => "old" \notin seals[Db(q)]
<1>2. ASSUME NEW q \in Procs, q # p PROVE Reached(q)'
  <2>1. Reached(q) /\ Db(q) \in Files
    BY <1>1, Places DEF IInv, MigratedSoFar
  <2> QED BY <1>1, <1>2, <2>1, OthersKeep, OnlyForward
<1>3. Reached(p)'
  <2>1. Reached(p) /\ Db(p) \in Files
    BY <1>1, Places DEF IInv, MigratedSoFar
  <2> USE <1>1 DEF TypeOK, Altered, Db, Goes
  <2>2. CASE Launch(p)
    BY <2>1, <2>2 DEF Launch
  <2>3. CASE hold_lock(p) \/ WriteNote(p) \/ Shutdown(p)
    BY <2>1, <2>3 DEF hold_lock, WriteNote, Shutdown, dbVars
  <2>4. CASE ReadColumns(p)
    BY <2>1, <2>4 DEF ReadColumns, dbVars
  <2>5. CASE AddColumn(p)
    BY <2>1, <2>5 DEF AddColumn
  <2>6. CASE Seal(p)
    BY <2>1, <2>6 DEF Seal
  <2>7. CASE Sweep(p) \/ StartRun(p) \/ EndRun(p) \/ Apply(p)
    BY <2>1, <2>7 DEF Sweep, StartRun, EndRun, Apply, dbVars
  <2>8. CASE Gone(p)
    BY <2>1, <2>8 DEF Gone
  <2> QED BY <2>2, <2>3, <2>4, <2>5, <2>6, <2>7, <2>8, StepCases
<1>4. ASSUME NEW f \in Files PROVE seals'[f] # {}
  <2>1. seals[f] # {} /\ seals[f] \subseteq {"old", "new"}
    BY <1>1 DEF IInv, MigratedSoFar, TypeOK
  <2>2. CASE Seal(p)
    <3>1. pc[p] = "retire" => "new" \in seals[Db(p)]
      BY DEF IInv, MigratedSoFar, Altered
    <3> QED BY <1>1, <2>1, <2>2, <3>1, Places DEF Seal, TypeOK
  <2>3. CASE ~Seal(p)
    <3>1. seals' = seals
      BY <2>3, StepCases
         DEF Launch, hold_lock, WriteNote, ReadColumns, AddColumn, Sweep, StartRun,
             EndRun, Shutdown, Gone, Apply, dbVars
    <3> QED BY <2>1, <3>1
  <2> QED BY <2>2, <2>3
<1> QED BY <1>2, <1>3, <1>4 DEF MigratedSoFar

LEMMA StepIInv == IInv /\ [Next]_vars => IInv'
<1> SUFFICES ASSUME IInv, [Next]_vars PROVE IInv'
  OBVIOUS
<1>1. CASE Next
  BY <1>1, TypeStep, HoldersStep, WritersStep, MigratedStep DEF Next, IInv
<1>2. CASE UNCHANGED vars
  BY <1>2 DEF vars, dbVars, IInv, TypeOK, HoldersHold, WritersAreThrough, MigratedSoFar,
              Db, lock_path
<1> QED BY <1>1, <1>2

LEMMA LockInvariant == Spec => []IInv
BY InitHolds, StepIInv, PTL DEF Spec

-----------------------------------------------------------------------------
\* Two that stand past the lock of one database are one process.
LEMMA OneHolder ==
  ASSUME IInv, NEW p \in Procs, NEW q \in Procs, Db(p) = Db(q),
         pc[p] \in Locked, pc[q] \in Locked, "dry" \notin {Kind[p], Kind[q]}
  PROVE  p = q
BY DEF IInv, HoldersHold, Db, lock_path

\* One process writes to a database at a time, the dry run apart, whatever
\* processes there are, under whatever names they reach it.
THEOREM OneWriterAlways == Spec => []OneWriter
<1>1. IInv => OneWriter
  <2> SUFFICES ASSUME IInv PROVE OneWriter
    OBVIOUS
  <2>1. \A p \in Procs : wrote[p] => pc[p] \in Locked /\ pc[p] # "refused"
    BY DEF IInv, WritersAreThrough, Altered, Locked, Stages
  <2> QED BY <2>1, OneHolder DEF OneWriter
<1> QED BY <1>1, LockInvariant, PTL

\* A connected process has a migrated database with the new seal alone, and
\* no database is ever without a seal.
THEOREM ConnectsAreSafe == Spec => []ConnectsRaceSafely
<1>1. IInv => ConnectsRaceSafely
  <2> SUFFICES ASSUME IInv PROVE ConnectsRaceSafely
    OBVIOUS
  <2>1. \A p \in Procs : Db(p) \in Files
    BY Places DEF IInv
  <2> QED BY <2>1 DEF IInv, TypeOK, MigratedSoFar, Altered, ConnectsRaceSafely
<1> QED BY <1>1, LockInvariant, PTL

\* A boot records as interrupted no run that a living server keeps.
THEOREM SweepsAreSound == Spec => SweepsOnlyTheDead
<1> DEFINE Spared == \A f \in Files, p \in Procs :
       running[f] = p /\ running'[f] # p /\ Db(p) = f /\ pc[p] \in {"serving", "closing"} =>
         \A q \in Procs \ {p} : pc'[q] = pc[q]
<1>1. IInv /\ [Next]_vars => Spared
  <2> SUFFICES ASSUME IInv, [Next]_vars, NEW f \in Files, NEW p \in Procs,
                      running[f] = p, running'[f] # p, Db(p) = f,
                      pc[p] \in {"serving", "closing"}
               PROVE  \A q \in Procs \ {p} : pc'[q] = pc[q]
    OBVIOUS
  <2>1. PICK s \in Procs : Step(s)
    BY DEF Next, vars, dbVars
  <2>2. TypeOK /\ Db(s) \in Files
    BY Places DEF IInv
  <2>3. CASE Sweep(s)
    <3>1. Db(s) = f /\ Kind[s] = "server" /\ pc[s] = "connected"
      BY <2>2, <2>3 DEF Sweep, TypeOK
    <3>2. Kind[p] = "server"
      BY DEF IInv, HoldersHold
    <3>3. s = p
      BY <3>1, <3>2, OneHolder DEF Locked, Stages
    <3> QED BY <3>1, <3>3
  <2>4. CASE StartRun(s)
    BY <2>2, <2>4, LockAssumption DEF StartRun, TypeOK
  <2>5. CASE EndRun(s)
    BY <2>2, <2>5 DEF EndRun, TypeOK
  <2>6. CASE ~(Sweep(s) \/ StartRun(s) \/ EndRun(s))
    <3>1. running' = running
      BY <2>1, <2>6, StepCases
         DEF Launch, hold_lock, WriteNote, ReadColumns, AddColumn, Seal, Shutdown,
             Gone, Apply, dbVars
    <3> QED BY <3>1
  <2> QED BY <2>3, <2>4, <2>5, <2>6
<1> QED BY <1>1, LockInvariant, PTL DEF Spec, SweepsOnlyTheDead
=============================================================================
