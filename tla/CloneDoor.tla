----------------------------- MODULE CloneDoor -----------------------------
(***************************************************************************)
(* POST /clones and the snapshot doors of bench/main.py over one clone     *)
(* root: the sweep, the fetch into a directory of its own, the two renames *)
(* and the row that make the swap, the removal of the old tree, a crash at *)
(* any point, the boot's sweep, and the walks that read the trees.         *)
(*                                                                         *)
(* A clone is a repository at a ref, which names its directory.  A tree is *)
(* absent, half (being written or removed) or the whole of one commit; its *)
(* `partial` and `old` places are the work directories beside its `final`. *)
(* The loop runs the swap in one step; a removal is a thread, and git a    *)
(* process, so either may be seen, or killed, half way.                    *)
(***************************************************************************)
EXTENDS Naturals, FiniteSets

CONSTANTS Clones,  \* the directory names: repository and ref
          Heads,   \* the commits a ref may stand at
          Faulty,  \* whether a rename, a removal or a write may fail
          None

ASSUME CloneAssumption ==
  /\ {"none", "half"} \cap Heads = {}
  /\ None \notin Clones \cup Heads
  /\ Faulty \in BOOLEAN

VARIABLES disk,     \* the tree at each clone's three places
          row,      \* clones.head_sha                          (database)
          proc,     \* the server process
          busy,     \* the clone of clone_run["paths"]
          at,       \* where _clone is suspended
          walked,   \* history: the trees the last snapshot read
          kept,     \* history: cloned, and not removed by the operator
          torn,     \* history: whose last swap was cut or raised
          stuck     \* history: a removal that could not finish

vars == <<disk, row, proc, busy, at, walked, kept, torn, stuck>>

Work   == {"partial", "old"}
Places == Work \cup {"final"}
Trees  == {"none", "half"} \cup Heads

TypeOK ==
  /\ disk \in [Clones -> [Places -> Trees]]
  /\ row \in [Clones -> Heads \cup {None}]
  /\ proc \in {"up", "down"}
  /\ busy \in Clones \cup {None}
  /\ at \in {"idle", "sweep", "fetch", "fetched", "cleaning", "dropping"}
  /\ busy = None <=> at = "idle"
  /\ proc = "down" => at = "idle"
  /\ walked \subseteq Trees
  /\ kept \subseteq Clones
  /\ torn \subseteq Clones
  /\ stuck \in BOOLEAN

Init ==
  /\ disk = [n \in Clones |-> [p \in Places |-> "none"]]
  /\ row = [n \in Clones |-> None]
  /\ proc = "up"
  /\ busy = None
  /\ at = "idle"
  /\ walked = {}
  /\ kept = {}
  /\ torn = {}
  /\ stuck = FALSE

\* The work directories on disk, as <<clone, place>>.
Leftovers == {w \in Clones \X Work : disk[w[1]][w[2]] # "none"}

Free == busy' = None /\ at' = "idle"

-----------------------------------------------------------------------------
(***************************************************************************)
(* The door.                                                               *)
(***************************************************************************)

\* create_clone, past its refusals, and _clone as far as its first await:
\* the slot holds the three paths before anything is swept.
create_clone(n) ==
  /\ proc = "up"
  /\ busy = None
  /\ busy' = n
  /\ at' = "sweep"
  /\ UNCHANGED <<disk, row, proc, walked, kept, torn, stuck>>

\* _remove_tree of one directory: part of it goes, or all that is left.
Remove(n, p) ==
  /\ disk[n][p] # "none"
  /\ disk' = [disk EXCEPT ![n][p] = IF disk[n][p] = "half" THEN "none" ELSE "half"]
  /\ UNCHANGED <<row, proc, busy, at, walked, kept, torn, stuck>>

\* _sweep_clone_work in its thread: every clone's leftovers, one by one.
SweepStep == at = "sweep" /\ \E w \in Leftovers : Remove(w[1], w[2])

\* The sweep is over and _fetch_into makes its directory, unless what the
\* sweep could not remove is in its way.
SweepEnds ==
  /\ at = "sweep"
  /\ Leftovers # {} => Faulty
  /\ stuck' = (stuck \/ Leftovers # {})
  /\ IF disk[busy]["partial"] = "none"
     THEN /\ disk' = [disk EXCEPT ![busy]["partial"] = "half"]
          /\ at' = "fetch"
     ELSE /\ at' = "cleaning"
          /\ UNCHANGED disk
  /\ UNCHANGED <<row, proc, busy, walked, kept, torn>>

\* The listing of the clone root, the removal of one of its files, or the
\* making of an empty home raises; what was not swept stays.
SweepRaises ==
  /\ at = "sweep"
  /\ Faulty
  /\ Free
  /\ stuck' = (stuck \/ Leftovers # {})
  /\ UNCHANGED <<disk, row, proc, walked, kept, torn>>

\* Variant: git's exit status not looked at.
FetchEndsUnchecked(h) ==
  /\ at = "fetch"
  /\ at' = "fetched"
  /\ \/ disk' = [disk EXCEPT ![busy]["partial"] = h]
     \/ UNCHANGED disk
  /\ UNCHANGED <<row, proc, busy, walked, kept, torn, stuck>>

\* _fetch_into: the five commands ran and the tree is commit h, or one
\* failed, was refused by a ceiling, or was killed at the deadline.
FetchEnds(h) ==
  /\ at = "fetch"
  /\ \/ /\ disk' = [disk EXCEPT ![busy]["partial"] = h]
        /\ at' = "fetched"
     \/ /\ at' = "cleaning"
        /\ UNCHANGED disk
  /\ UNCHANGED <<row, proc, busy, walked, kept, torn, stuck>>

CleanStep == at = "cleaning" /\ Remove(busy, "partial")

CleanEnds ==
  /\ at = "cleaning"
  /\ disk[busy]["partial"] # "none" => Faulty
  /\ stuck' = (stuck \/ disk[busy]["partial"] # "none")
  /\ Free
  /\ UNCHANGED <<disk, row, proc, walked, kept, torn>>

(***************************************************************************)
(* The swap: two renames and a row, with no await between them.            *)
(***************************************************************************)
Replaced == disk[busy]["final"] # "none"

\* Variant: the directory replaced is removed, not moved aside.
MovedAsideRemoved ==
  IF Replaced THEN [disk EXCEPT ![busy]["final"] = "none"] ELSE disk

MovedAside ==
  IF Replaced
  THEN [disk EXCEPT ![busy]["old"] = disk[busy]["final"], ![busy]["final"] = "none"]
  ELSE disk

Swapped ==
  [MovedAside EXCEPT ![busy]["final"] = disk[busy]["partial"],
                     ![busy]["partial"] = "none"]

\* A rename onto a directory that holds anything raises.
CanMoveAside == Replaced => disk[busy]["old"] = "none"

\* Variant: a row written for a new directory only.
SwapRecordingOnce ==
  /\ at = "fetched"
  /\ CanMoveAside
  /\ disk' = Swapped
  /\ row' = IF Replaced THEN row ELSE [row EXCEPT ![busy] = disk[busy]["partial"]]
  /\ kept' = kept \cup {busy}
  /\ torn' = torn \ {busy}
  /\ IF Replaced THEN at' = "dropping" /\ UNCHANGED busy ELSE Free
  /\ UNCHANGED <<proc, walked, stuck>>

Swap ==
  /\ at = "fetched"
  /\ CanMoveAside
  /\ disk' = Swapped
  /\ row' = [row EXCEPT ![busy] = disk[busy]["partial"]]
  /\ kept' = kept \cup {busy}
  /\ torn' = torn \ {busy}
  /\ IF Replaced THEN at' = "dropping" /\ UNCHANGED busy ELSE Free
  /\ UNCHANGED <<proc, walked, stuck>>

\* A rename or the write of the row raises: what was done stays done.
SwapRaises ==
  /\ at = "fetched"
  /\ \/ /\ CanMoveAside => Faulty
        /\ UNCHANGED <<disk, torn>>
     \/ /\ Faulty /\ CanMoveAside
        /\ disk' \in {MovedAside, Swapped}
        /\ torn' = torn \cup {busy}
  /\ Free
  /\ UNCHANGED <<row, proc, walked, kept, stuck>>

DropStep == at = "dropping" /\ Remove(busy, "old")

DropEnds ==
  /\ at = "dropping"
  /\ disk[busy]["old"] # "none" => Faulty
  /\ stuck' = (stuck \/ disk[busy]["old"] # "none")
  /\ Free
  /\ UNCHANGED <<disk, row, proc, walked, kept, torn>>

(***************************************************************************)
(* The process, the operator, and the snapshot doors.                      *)
(***************************************************************************)

\* The process dies, between two steps or between two of the swap's.
Crash ==
  /\ proc = "up"
  /\ proc' = "down"
  /\ Free
  /\ \/ UNCHANGED <<disk, torn>>
     \/ /\ at = "fetched" /\ CanMoveAside
        /\ disk' \in {MovedAside, Swapped}
        /\ torn' = torn \cup {busy}
  /\ UNCHANGED <<row, walked, kept, stuck>>

\* _serve sweeps before it answers anything.
Boot ==
  /\ proc = "down"
  /\ proc' = "up"
  /\ \E left \in SUBSET Leftovers :
       /\ left # {} => Faulty
       /\ stuck' = (stuck \/ left # {})
       /\ disk' = [n \in Clones |-> [p \in Places |->
                     IF <<n, p>> \in left THEN "half"
                     ELSE IF p \in Work THEN "none" ELSE disk[n][p]]]
  /\ UNCHANGED <<row, busy, at, walked, kept, torn>>

\* "Removing a clone is yours" (README): its row stays.
OperatorRemoves(n) ==
  /\ disk[n]["final"] # "none"
  /\ busy # n
  /\ disk' = [disk EXCEPT ![n]["final"] = "none"]
  /\ kept' = kept \ {n}
  /\ UNCHANGED <<row, proc, busy, at, walked, torn, stuck>>

\* create_snapshot at a clone's own directory, or a directory inside it.
SnapshotOf(n) ==
  /\ proc = "up"
  /\ disk[n]["final"] # "none"
  /\ busy # n
  /\ walked' = {disk[n]["final"]}
  /\ UNCHANGED <<disk, row, proc, busy, at, kept, torn, stuck>>

\* Every tree under the clone root.
Everything == {disk[n][p] : n \in Clones, p \in Places} \ {"none"}

\* Variant: a refusal of the roots inside a clone's paths only.
SnapshotAroundUnrefused ==
  /\ proc = "up"
  /\ walked' = Everything
  /\ UNCHANGED <<disk, row, proc, busy, at, kept, torn, stuck>>

\* create_snapshot at the clone root itself, which is around every clone.
SnapshotAround ==
  /\ proc = "up"
  /\ busy = None
  /\ walked' = Everything
  /\ UNCHANGED <<disk, row, proc, busy, at, kept, torn, stuck>>

-----------------------------------------------------------------------------
Next ==
  \/ \E n \in Clones : create_clone(n) \/ OperatorRemoves(n) \/ SnapshotOf(n)
  \/ SweepStep \/ SweepEnds \/ SweepRaises
  \/ \E h \in Heads : FetchEnds(h)
  \/ CleanStep \/ CleanEnds
  \/ Swap \/ SwapRaises
  \/ DropStep \/ DropEnds
  \/ Crash \/ Boot
  \/ SnapshotAround

Spec == Init /\ [][Next]_vars

-----------------------------------------------------------------------------
(***************************************************************************)
(* Properties.                                                             *)
(***************************************************************************)

\* A clone's directory holds one commit, whole, whatever a fetch, a failed
\* rename, a removal or a crash left around it.
FinalIsWhole == \A n \in Clones : disk[n]["final"] # "half"

\* "The row describes the directory as it is now" (README): a clone nobody
\* removed is there, at the commit its row says, unless its last swap was
\* cut between the first rename and the row; the next clone mends it.
RowDescribesTheTree ==
  \A n \in kept \ torn : row[n] # None /\ disk[n]["final"] = row[n]

\* The tree a clone's row names, at its directory or moved aside beside it.
OnDisk(n) == row[n] \in Heads /\ row[n] \in {disk[n]["final"], disk[n]["old"]}

\* That tree outlives every fetch, every failure, the swap and a crash
\* between its renames: where nobody removed the clone, only a sweep loses
\* it, the next door's or a boot's, after a swap that was cut.
OnlyASweepLosesATree ==
  [][ \A n \in kept \cap kept' : OnDisk(n) /\ ~OnDisk(n)' =>
        n \in torn /\ (at = "sweep" \/ proc = "down") ]_vars

\* A snapshot reads no tree that git is writing or a thread is removing, of
\* a root around the clones as of one of them, unless a removal that could
\* not finish has left half a tree behind.
WalksReadWholeTrees == "half" \in walked => stuck

\* _sweep_clone_work: "a crash's leftovers never outlive the next clone":
\* while git works, the one work directory is its own, unless a removal
\* could not finish.
LeftoversGoFirst ==
  at \in {"fetch", "fetched"} /\ ~stuck => Leftovers = {<<busy, "partial">>}

\* README, of POST /clones: "A failed update leaves the old clone exactly
\* as it was": a clone nobody removed is there whenever the bench is up.
FailedUpdateKeepsTheClone ==
  proc = "up" => \A n \in kept : disk[n]["final"] # "none"
=============================================================================
