-------------------------- MODULE CloneDoorProofs --------------------------
(***************************************************************************)
(* What a clone's directory holds, for every set of clones and commits,    *)
(* through crashes and failing renames, removals and writes.               *)
(***************************************************************************)
EXTENDS CloneDoor, TLAPS

\* What git has finished is whole: the tree a swap is about to install.
FetchedIsWhole == at = "fetched" => disk[busy]["partial"] \in Heads

\* A half tree in a work directory is the one at hand, while the bench is up
\* and every removal could finish.
HalvesAreAtHand ==
  proc = "up" /\ ~stuck =>
    \A n \in Clones, p \in Work :
      disk[n][p] = "half" =>
        \/ at = "sweep"
        \/ n = busy /\ p = "partial" /\ at \in {"fetch", "cleaning"}
        \/ n = busy /\ p = "old" /\ at = "dropping"

TreesInv == FinalIsWhole /\ FetchedIsWhole /\ RowDescribesTheTree

LeftoversInv == HalvesAreAtHand /\ WalksReadWholeTrees /\ LeftoversGoFirst

-----------------------------------------------------------------------------
\* What a removal's step does to one place.
LEMMA RemoveEffect ==
  ASSUME TypeOK, NEW n \in Clones, NEW p \in Work, Remove(n, p)
  PROVE  /\ disk' \in [Clones -> [Places -> Trees]]
         /\ disk'[n][p] \in {"none", "half"}
         /\ \A m \in Clones, q \in Places :
              m # n \/ q # p => disk'[m][q] = disk[m][q]
<1>1. disk \in [Clones -> [Places -> Trees]] /\ p \in Places
  BY DEF TypeOK, Places
<1>2. PICK t \in {"none", "half"} : disk' = [disk EXCEPT ![n][p] = t]
  BY DEF Remove
<1>3. t \in Trees
  BY DEF Trees
<1>4. disk' \in [Clones -> [Places -> Trees]]
  BY <1>1, <1>2, <1>3
<1>5. disk'[n][p] = t
  BY <1>1, <1>2
<1>6. ASSUME NEW m \in Clones, NEW q \in Places, m # n \/ q # p
      PROVE  disk'[m][q] = disk[m][q]
  BY <1>1, <1>2, <1>6
<1> QED BY <1>4, <1>5, <1>6

\* The typing of the disk, the rows, the slot and the history.
LEMMA TypeStep == TypeOK /\ FetchedIsWhole /\ [Next]_vars => TypeOK'
<1> SUFFICES ASSUME TypeOK, FetchedIsWhole, [Next]_vars PROVE TypeOK'
  OBVIOUS
<1> USE CloneAssumption
<1>1. ASSUME NEW n \in Clones, create_clone(n) PROVE TypeOK'
  BY <1>1 DEF TypeOK, create_clone
<1>2. ASSUME NEW n \in Clones, OperatorRemoves(n) PROVE TypeOK'
  BY <1>2 DEF TypeOK, OperatorRemoves, Trees, Places
<1>3. ASSUME NEW n \in Clones, SnapshotOf(n) PROVE TypeOK'
  <2>1. disk[n]["final"] \in Trees
    BY DEF TypeOK, Places
  <2> QED BY <2>1, <1>3 DEF TypeOK, SnapshotOf
<1>4. CASE SweepStep
  <2>1. PICK w \in Leftovers : Remove(w[1], w[2])
    BY <1>4 DEF SweepStep
  <2>2. w[1] \in Clones /\ w[2] \in Work
    BY DEF Leftovers
  <2>3. disk' \in [Clones -> [Places -> Trees]]
    BY <2>1, <2>2, RemoveEffect
  <2> QED BY <2>1, <2>3 DEF TypeOK, Remove
<1>5. CASE SweepEnds
  BY <1>5 DEF TypeOK, SweepEnds, Trees, Places, Work
<1>6. CASE SweepRaises
  BY <1>6 DEF TypeOK, SweepRaises, Free
<1>7. ASSUME NEW h \in Heads, FetchEnds(h) PROVE TypeOK'
  BY <1>7 DEF TypeOK, FetchEnds, Trees, Places, Work
<1>8. CASE CleanStep
  <2>1. busy \in Clones /\ "partial" \in Work
    BY <1>8 DEF TypeOK, CleanStep, Work
  <2>2. disk' \in [Clones -> [Places -> Trees]]
    BY <1>8, <2>1, RemoveEffect DEF CleanStep
  <2> QED BY <1>8, <2>2 DEF TypeOK, CleanStep, Remove
<1>9. CASE CleanEnds
  BY <1>9 DEF TypeOK, CleanEnds, Free
<1>10. ASSUME at = "fetched" PROVE
         /\ MovedAside \in [Clones -> [Places -> Trees]]
         /\ Swapped \in [Clones -> [Places -> Trees]]
  <2>1. busy \in Clones
    BY <1>10 DEF TypeOK
  <2>2. MovedAside \in [Clones -> [Places -> Trees]]
    BY <2>1 DEF TypeOK, MovedAside, Trees, Places, Work
  <2> QED BY <2>1, <2>2 DEF TypeOK, Swapped, Trees, Places, Work
<1>11. CASE Swap
  <2>1. busy \in Clones /\ disk' \in [Clones -> [Places -> Trees]]
    BY <1>10, <1>11 DEF Swap, TypeOK
  <2>2. row' \in [Clones -> Heads \cup {None}]
    BY <2>1, <1>11 DEF Swap, TypeOK, FetchedIsWhole
  <2> QED BY <2>1, <2>2, <1>11 DEF Swap, TypeOK, Free
<1>12. CASE SwapRaises
  <2>1. disk' \in [Clones -> [Places -> Trees]]
    BY <1>10, <1>12 DEF SwapRaises, TypeOK
  <2>2. torn' \subseteq Clones
    BY <1>12 DEF SwapRaises, TypeOK
  <2> QED BY <2>1, <2>2, <1>12 DEF SwapRaises, TypeOK, Free
<1>13. CASE DropStep
  <2>1. busy \in Clones /\ "old" \in Work
    BY <1>13 DEF TypeOK, DropStep, Work
  <2>2. disk' \in [Clones -> [Places -> Trees]]
    BY <1>13, <2>1, RemoveEffect DEF DropStep
  <2> QED BY <1>13, <2>2 DEF TypeOK, DropStep, Remove
<1>14. CASE DropEnds
  BY <1>14 DEF TypeOK, DropEnds, Free
<1>15. CASE Crash
  <2>1. disk' \in [Clones -> [Places -> Trees]]
    BY <1>10, <1>15 DEF Crash, TypeOK
  <2>2. torn' \subseteq Clones
    BY <1>15 DEF Crash, TypeOK
  <2> QED BY <2>1, <2>2, <1>15 DEF Crash, TypeOK, Free
<1>16. CASE Boot
  <2>1. PICK left \in SUBSET Leftovers :
          /\ stuck' = (stuck \/ left # {})
          /\ disk' = [n \in Clones |-> [p \in Places |->
                        IF <<n, p>> \in left THEN "half"
                        ELSE IF p \in Work THEN "none" ELSE disk[n][p]]]
    BY <1>16 DEF Boot
  <2>2. disk' \in [Clones -> [Places -> Trees]]
    BY <2>1 DEF TypeOK, Trees
  <2>3. stuck' \in BOOLEAN
    BY <2>1 DEF TypeOK
  <2> QED BY <2>2, <2>3, <1>16 DEF Boot, TypeOK
<1>17. CASE SnapshotAround
  <2>1. Everything \subseteq Trees
    BY DEF Everything, TypeOK
  <2> QED BY <2>1, <1>17 DEF SnapshotAround, TypeOK
<1>18. CASE UNCHANGED vars
  BY <1>18 DEF vars, TypeOK
<1> QED
  BY <1>1, <1>2, <1>3, <1>4, <1>5, <1>6, <1>7, <1>8, <1>9, <1>11, <1>12, <1>13,
     <1>14, <1>15, <1>16, <1>17, <1>18 DEF Next

-----------------------------------------------------------------------------
\* A removal touches no clone's own directory, and no other work directory.
LEMMA RemoveKeepsTrees ==
  ASSUME TypeOK, TreesInv, NEW n \in Clones, NEW p \in Work, Remove(n, p),
         at # "fetched"
  PROVE  TreesInv'
<1>1. \A m \in Clones : disk'[m]["final"] = disk[m]["final"]
  BY RemoveEffect DEF Work, Places
<1>2. UNCHANGED <<row, busy, at, kept, torn>>
  BY DEF Remove
<1>3. kept \subseteq Clones
  BY DEF TypeOK
<1>4. RowDescribesTheTree'
  BY <1>1, <1>2, <1>3 DEF TreesInv, RowDescribesTheTree
<1> QED
  BY <1>1, <1>2, <1>4 DEF TreesInv, FinalIsWhole, FetchedIsWhole

\* What the two renames leave, of which the second alone is the clone's.
LEMMA SwapEffect ==
  ASSUME TypeOK, TreesInv, at = "fetched"
  PROVE  /\ busy \in Clones
         /\ disk[busy]["partial"] \in Heads
         /\ Swapped[busy]["final"] = disk[busy]["partial"]
         /\ MovedAside[busy]["final"] = "none"
         /\ \A n \in Clones \ {busy}, p \in Places :
              Swapped[n][p] = disk[n][p] /\ MovedAside[n][p] = disk[n][p]
         /\ \A p \in Work :
              /\ MovedAside[busy][p] \in {disk[busy][p], disk[busy]["final"]}
              /\ Swapped[busy][p] \in {MovedAside[busy][p], "none"}
<1>1. busy \in Clones /\ disk[busy]["partial"] \in Heads
  BY DEF TypeOK, TreesInv, FetchedIsWhole
<1>2. disk \in [Clones -> [Places -> Trees]] /\ {"partial", "old", "final"} \subseteq Places
  BY DEF TypeOK, Places, Work
<1>3. /\ MovedAside[busy]["final"] = "none"
      /\ MovedAside[busy]["partial"] = disk[busy]["partial"]
      /\ \A n \in Clones \ {busy}, p \in Places : MovedAside[n][p] = disk[n][p]
  BY <1>1, <1>2 DEF MovedAside, Replaced
<1>4. MovedAside \in [Clones -> [Places -> Trees]]
  BY <1>1, <1>2 DEF MovedAside, Trees
<1>5. /\ Swapped[busy]["final"] = disk[busy]["partial"]
      /\ \A n \in Clones \ {busy}, p \in Places : Swapped[n][p] = MovedAside[n][p]
  BY <1>1, <1>2, <1>4 DEF Swapped
<1>6. \A p \in Work : MovedAside[busy][p] \in {disk[busy][p], disk[busy]["final"]}
  BY <1>1, <1>2 DEF MovedAside, Replaced, Work
<1>7. \A p \in Work : Swapped[busy][p] \in {MovedAside[busy][p], "none"}
  BY <1>1, <1>2, <1>4 DEF Swapped, Work
<1> QED BY <1>1, <1>3, <1>5, <1>6, <1>7

\* A swap that is cut leaves whole trees, and its clone among the torn.
LEMMA TornSwapKeepsTrees ==
  ASSUME TypeOK, TreesInv, CloneAssumption, at = "fetched",
         disk' \in {MovedAside, Swapped},
         torn' = torn \cup {busy}, at' = "idle", UNCHANGED <<row, kept>>
  PROVE  TreesInv'
<1>1. \A n \in Clones : n # busy => disk'[n]["final"] = disk[n]["final"]
  BY SwapEffect DEF Places
<1>2. disk'[busy]["final"] # "half"
  BY SwapEffect, CloneAssumption
<1>3. FinalIsWhole'
  BY <1>1, <1>2 DEF FinalIsWhole, TreesInv
<1>4. RowDescribesTheTree'
  BY <1>1 DEF RowDescribesTheTree, TreesInv, TypeOK
<1> QED BY <1>3, <1>4 DEF TreesInv, FetchedIsWhole

\* A clone's directory is whole, and is what its row says.
LEMMA TreesStep == TypeOK /\ TreesInv /\ [Next]_vars => TreesInv'
<1> SUFFICES ASSUME TypeOK, TreesInv, [Next]_vars PROVE TreesInv'
  OBVIOUS
<1> USE CloneAssumption
<1>a. disk \in [Clones -> [Places -> Trees]] /\ {"partial", "old", "final"} \subseteq Places
  BY DEF TypeOK, Places, Work
<1>1. ASSUME NEW n \in Clones, create_clone(n) PROVE TreesInv'
  BY <1>1 DEF create_clone, TreesInv, FinalIsWhole, FetchedIsWhole, RowDescribesTheTree
<1>2. ASSUME NEW n \in Clones, OperatorRemoves(n) PROVE TreesInv'
  <2>1. disk'[n]["final"] = "none"
    BY <1>a, <1>2 DEF OperatorRemoves
  <2>2. \A m \in Clones, p \in Places : m # n => disk'[m][p] = disk[m][p]
    BY <1>a, <1>2 DEF OperatorRemoves
  <2>3. FinalIsWhole'
    BY <2>1, <2>2, <1>a DEF TreesInv, FinalIsWhole
  <2>4. FetchedIsWhole'
    <3> SUFFICES ASSUME at = "fetched" PROVE disk'[busy]["partial"] \in Heads
      BY <1>2 DEF OperatorRemoves, FetchedIsWhole
    <3>1. busy \in Clones /\ busy # n /\ disk[busy]["partial"] \in Heads
      BY <1>2 DEF OperatorRemoves, TypeOK, TreesInv, FetchedIsWhole
    <3> QED BY <3>1, <2>2, <1>a
  <2>5. RowDescribesTheTree'
    BY <2>2, <1>a, <1>2 DEF OperatorRemoves, TreesInv, RowDescribesTheTree, TypeOK
  <2> QED BY <2>3, <2>4, <2>5 DEF TreesInv
<1>3. ASSUME NEW n \in Clones, SnapshotOf(n) PROVE TreesInv'
  BY <1>3 DEF SnapshotOf, TreesInv, FinalIsWhole, FetchedIsWhole, RowDescribesTheTree
<1>4. CASE SweepStep
  <2>1. PICK w \in Leftovers : Remove(w[1], w[2])
    BY <1>4 DEF SweepStep
  <2>2. w[1] \in Clones /\ w[2] \in Work
    BY DEF Leftovers
  <2> QED BY <1>4, <2>1, <2>2, RemoveKeepsTrees DEF SweepStep
<1>5. CASE SweepEnds
  <2>1. \A m \in Clones : disk'[m]["final"] = disk[m]["final"]
    BY <1>a, <1>5 DEF SweepEnds
  <2>2. FinalIsWhole' /\ FetchedIsWhole'
    BY <2>1, <1>5 DEF SweepEnds, TreesInv, FinalIsWhole, FetchedIsWhole
  <2>3. RowDescribesTheTree'
    BY <2>1, <1>5 DEF SweepEnds, TreesInv, RowDescribesTheTree, TypeOK
  <2> QED BY <2>2, <2>3 DEF TreesInv
<1>6. CASE SweepRaises
  BY <1>6 DEF SweepRaises, Free, TreesInv, FinalIsWhole, FetchedIsWhole, RowDescribesTheTree
<1>7. ASSUME NEW h \in Heads, FetchEnds(h) PROVE TreesInv'
  <2>1. \A m \in Clones : disk'[m]["final"] = disk[m]["final"]
    BY <1>a, <1>7 DEF FetchEnds
  <2>2. FetchedIsWhole'
    BY <1>a, <1>7 DEF FetchEnds, FetchedIsWhole, TypeOK
  <2>3. FinalIsWhole' /\ RowDescribesTheTree'
    BY <2>1, <1>7 DEF FetchEnds, TreesInv, FinalIsWhole, RowDescribesTheTree, TypeOK
  <2> QED BY <2>2, <2>3 DEF TreesInv
<1>8. CASE CleanStep
  <2>1. busy \in Clones /\ "partial" \in Work
    BY <1>8 DEF TypeOK, CleanStep, Work
  <2> QED BY <1>8, <2>1, RemoveKeepsTrees DEF CleanStep
<1>9. CASE CleanEnds
  BY <1>9 DEF CleanEnds, Free, TreesInv, FinalIsWhole, FetchedIsWhole, RowDescribesTheTree
<1>10. CASE Swap
  <2>1. /\ busy \in Clones
        /\ disk'[busy]["final"] \in Heads
        /\ row'[busy] = disk'[busy]["final"]
    BY <1>10, SwapEffect DEF Swap, TypeOK
  <2>2. \A n \in Clones : n # busy =>
          disk'[n]["final"] = disk[n]["final"] /\ row'[n] = row[n]
    BY <1>10, <1>a, SwapEffect DEF Swap, TypeOK
  <2>3. FinalIsWhole'
    BY <2>1, <2>2 DEF TreesInv, FinalIsWhole
  <2>4. RowDescribesTheTree'
    BY <2>1, <2>2, <1>10 DEF Swap, TreesInv, RowDescribesTheTree, TypeOK
  <2>5. at' # "fetched"
    BY <1>10 DEF Swap, Free
  <2> QED BY <2>3, <2>4, <2>5 DEF TreesInv, FetchedIsWhole
<1>11. CASE SwapRaises
  <2>1. CASE UNCHANGED <<disk, torn>>
    BY <1>11, <2>1
       DEF SwapRaises, Free, TreesInv, FinalIsWhole, FetchedIsWhole, RowDescribesTheTree
  <2>2. CASE disk' \in {MovedAside, Swapped} /\ torn' = torn \cup {busy}
    BY <1>11, <2>2, TornSwapKeepsTrees DEF SwapRaises, Free
  <2> QED BY <1>11, <2>1, <2>2 DEF SwapRaises
<1>12. CASE DropStep
  <2>1. busy \in Clones /\ "old" \in Work
    BY <1>12 DEF TypeOK, DropStep, Work
  <2> QED BY <1>12, <2>1, RemoveKeepsTrees DEF DropStep
<1>13. CASE DropEnds
  BY <1>13 DEF DropEnds, Free, TreesInv, FinalIsWhole, FetchedIsWhole, RowDescribesTheTree
<1>14. CASE Crash
  <2>1. CASE UNCHANGED <<disk, torn>>
    BY <1>14, <2>1
       DEF Crash, Free, TreesInv, FinalIsWhole, FetchedIsWhole, RowDescribesTheTree
  <2>2. CASE at = "fetched" /\ disk' \in {MovedAside, Swapped} /\ torn' = torn \cup {busy}
    BY <1>14, <2>2, TornSwapKeepsTrees DEF Crash, Free
  <2> QED BY <1>14, <2>1, <2>2 DEF Crash
<1>15. CASE Boot
  <2>1. PICK left \in SUBSET Leftovers :
          disk' = [n \in Clones |-> [p \in Places |->
                     IF <<n, p>> \in left THEN "half"
                     ELSE IF p \in Work THEN "none" ELSE disk[n][p]]]
    BY <1>15 DEF Boot
  <2>2. \A m \in Clones : <<m, "final">> \notin left
    BY DEF Leftovers, Work
  <2>3. \A m \in Clones : disk'[m]["final"] = disk[m]["final"]
    BY <1>a, <2>1, <2>2 DEF Work
  <2>4. FinalIsWhole' /\ RowDescribesTheTree'
    BY <2>3, <1>15 DEF Boot, TreesInv, FinalIsWhole, RowDescribesTheTree, TypeOK
  <2> QED BY <2>4, <1>15 DEF Boot, TreesInv, FetchedIsWhole, TypeOK
<1>16. CASE SnapshotAround
  BY <1>16 DEF SnapshotAround, TreesInv, FinalIsWhole, FetchedIsWhole, RowDescribesTheTree
<1>17. CASE UNCHANGED vars
  BY <1>17 DEF vars, TreesInv, FinalIsWhole, FetchedIsWhole, RowDescribesTheTree
<1> QED
  BY <1>1, <1>2, <1>3, <1>4, <1>5, <1>6, <1>7, <1>8, <1>9, <1>10, <1>11, <1>12,
     <1>13, <1>14, <1>15, <1>16, <1>17 DEF Next

-----------------------------------------------------------------------------
\* What Leftovers collects.
LEMMA LeftoverIff ==
  ASSUME NEW n \in Clones, NEW p \in Work
  PROVE  <<n, p>> \in Leftovers <=> disk[n][p] # "none"
<1>1. /\ <<n, p>> \in Clones \X Work
      /\ <<n, p>>[1] = n /\ <<n, p>>[2] = p
  OBVIOUS
<1> QED BY <1>1 DEF Leftovers

\* Whatever changes a clone's own directory alone leaves the work as it was.
LEMMA SameWork ==
  ASSUME TypeOK, LeftoversInv, UNCHANGED <<proc, busy, at, walked, stuck>>,
         \A n \in Clones, p \in Work : disk'[n][p] = disk[n][p]
  PROVE  LeftoversInv'
<1>1. Leftovers' = Leftovers
  BY DEF Leftovers
<1>2. HalvesAreAtHand'
  BY DEF LeftoversInv, HalvesAreAtHand
<1> QED
  BY <1>1, <1>2 DEF LeftoversInv, WalksReadWholeTrees, LeftoversGoFirst

\* A removal leaves half a tree where it was at work, and nowhere else.
LEMMA RemoveKeepsLeftovers ==
  ASSUME TypeOK, LeftoversInv, NEW n \in Clones, NEW p \in Work, Remove(n, p),
         \/ at = "sweep"
         \/ n = busy /\ p = "partial" /\ at = "cleaning"
         \/ n = busy /\ p = "old" /\ at = "dropping"
  PROVE  LeftoversInv'
<1>1. UNCHANGED <<proc, busy, at, walked, stuck>>
  BY DEF Remove
<1>2. \A m \in Clones, q \in Work : m # n \/ q # p => disk'[m][q] = disk[m][q]
  BY RemoveEffect DEF Places
<1>3. HalvesAreAtHand'
  BY <1>1, <1>2 DEF LeftoversInv, HalvesAreAtHand
<1> QED
  BY <1>1, <1>3 DEF LeftoversInv, WalksReadWholeTrees, LeftoversGoFirst

\* When nothing runs, no tree is half, if every removal could finish.
LEMMA IdleIsWhole ==
  ASSUME TypeOK, LeftoversInv, TreesInv, proc = "up", ~stuck, at \in {"idle", "fetched"},
         NEW n \in Clones, NEW p \in Places
  PROVE  disk[n][p] # "half"
BY DEF LeftoversInv, HalvesAreAtHand, TreesInv, FinalIsWhole, Places

\* A swap that is cut while the bench lives leaves whole trees behind.
LEMMA TornSwapKeepsLeftovers ==
  ASSUME TypeOK, TreesInv, LeftoversInv, at = "fetched",
         disk' \in {MovedAside, Swapped},
         at' \in {"idle", "dropping"}, UNCHANGED <<proc, walked, stuck>>
  PROVE  LeftoversInv'
<1>1. ASSUME proc = "up", ~stuck, NEW n \in Clones, NEW p \in Work
      PROVE  disk'[n][p] # "half"
  <2>1. "final" \in Places /\ Work \subseteq Places
    BY DEF Places
  <2>2. disk[n][p] # "half" /\ disk[n]["final"] # "half"
    BY <1>1, <2>1, IdleIsWhole
  <2>3. CASE n # busy
    BY <2>1, <2>2, <2>3, SwapEffect
  <2>4. CASE n = busy
    BY <2>2, <2>4, SwapEffect
  <2> QED BY <2>3, <2>4
<1>2. HalvesAreAtHand'
  BY <1>1 DEF HalvesAreAtHand
<1> QED
  BY <1>2 DEF LeftoversInv, WalksReadWholeTrees, LeftoversGoFirst

\* Half a tree is at hand or unreachable; a walk read none.
LEMMA LeftoversStep ==
  TypeOK /\ TreesInv /\ LeftoversInv /\ [Next]_vars => LeftoversInv'
<1> SUFFICES ASSUME TypeOK, TreesInv, LeftoversInv, [Next]_vars PROVE LeftoversInv'
  OBVIOUS
<1> USE CloneAssumption
<1>a. /\ disk \in [Clones -> [Places -> Trees]]
      /\ {"partial", "old", "final"} \subseteq Places /\ Work \subseteq Places
  BY DEF TypeOK, Places, Work
<1>1. ASSUME NEW n \in Clones, create_clone(n) PROVE LeftoversInv'
  BY <1>1 DEF create_clone, LeftoversInv, HalvesAreAtHand, WalksReadWholeTrees, LeftoversGoFirst
<1>2. ASSUME NEW n \in Clones, OperatorRemoves(n) PROVE LeftoversInv'
  <2>1. \A m \in Clones, p \in Work : disk'[m][p] = disk[m][p]
    BY <1>a, <1>2 DEF OperatorRemoves, Work
  <2> QED BY <1>2, <2>1, SameWork DEF OperatorRemoves
<1>3. ASSUME NEW n \in Clones, SnapshotOf(n) PROVE LeftoversInv'
  <2>1. WalksReadWholeTrees'
    BY <1>3 DEF SnapshotOf, TreesInv, FinalIsWhole, WalksReadWholeTrees
  <2>2. Leftovers' = Leftovers
    BY <1>3 DEF SnapshotOf, Leftovers
  <2> QED BY <1>3, <2>1, <2>2 DEF SnapshotOf, LeftoversInv, HalvesAreAtHand, LeftoversGoFirst
<1>4. CASE SweepStep
  <2>1. PICK w \in Leftovers : Remove(w[1], w[2])
    BY <1>4 DEF SweepStep
  <2>2. w[1] \in Clones /\ w[2] \in Work
    BY DEF Leftovers
  <2> QED BY <1>4, <2>1, <2>2, RemoveKeepsLeftovers DEF SweepStep
<1>5. CASE SweepEnds
  <2>1. busy \in Clones /\ UNCHANGED <<proc, busy, walked>> /\ (stuck => stuck')
    BY <1>5 DEF SweepEnds, TypeOK
  <2>2. ASSUME ~stuck' PROVE HalvesAreAtHand' /\ LeftoversGoFirst'
    <3>a. Leftovers = {}
      BY <1>5, <2>2 DEF SweepEnds
    <3>1. \A n \in Clones, p \in Work : disk[n][p] = "none"
      BY <3>a, LeftoverIff
    <3>2. disk' = [disk EXCEPT ![busy]["partial"] = "half"] /\ at' = "fetch"
      BY <1>5, <2>1, <3>1 DEF SweepEnds, Work
    <3>3. \A n \in Clones, p \in Work :
            disk'[n][p] = IF n = busy /\ p = "partial" THEN "half" ELSE "none"
      BY <1>a, <2>1, <3>1, <3>2
    <3>4. Leftovers' = {<<busy', "partial">>}
      BY <2>1, <3>3 DEF Leftovers, Work
    <3> QED BY <2>1, <3>2, <3>3, <3>4 DEF HalvesAreAtHand, LeftoversGoFirst
  <2> QED
    BY <2>1, <2>2 DEF LeftoversInv, HalvesAreAtHand, LeftoversGoFirst, WalksReadWholeTrees
<1>6. CASE SweepRaises
  <2>1. ASSUME ~stuck', NEW n \in Clones, NEW p \in Work PROVE disk'[n][p] # "half"
    <3>1. Leftovers = {} /\ disk' = disk
      BY <1>6, <2>1 DEF SweepRaises
    <3> QED BY <3>1, LeftoverIff
  <2> QED
    BY <1>6, <2>1 DEF SweepRaises, Free, LeftoversInv, HalvesAreAtHand, WalksReadWholeTrees,
                      LeftoversGoFirst
<1>7. ASSUME NEW h \in Heads, FetchEnds(h) PROVE LeftoversInv'
  <2>1. busy \in Clones /\ h # "none" /\ h # "half"
    BY <1>7 DEF FetchEnds, TypeOK
  <2>2. CASE disk' = [disk EXCEPT ![busy]["partial"] = h] /\ at' = "fetched"
    <3>1. \A n \in Clones, p \in Work :
            disk'[n][p] = IF n = busy /\ p = "partial" THEN h ELSE disk[n][p]
      BY <1>a, <2>1, <2>2
    <3>2. HalvesAreAtHand'
      <4> SUFFICES ASSUME proc = "up", ~stuck, NEW n \in Clones, NEW p \in Work
                   PROVE  disk'[n][p] # "half"
        BY <1>7 DEF FetchEnds, HalvesAreAtHand
      <4>1. disk[n][p] = "half" => n = busy /\ p = "partial"
        BY <1>7 DEF FetchEnds, LeftoversInv, HalvesAreAtHand
      <4> QED BY <2>1, <3>1, <4>1
    <3>3. ASSUME ~stuck PROVE Leftovers' = {<<busy, "partial">>}
      <4>1. Leftovers = {<<busy, "partial">>}
        BY <1>7, <3>3 DEF FetchEnds, LeftoversInv, LeftoversGoFirst
      <4>2. \A n \in Clones, p \in Work :
              (disk'[n][p] # "none") <=> (disk[n][p] # "none")
        <5>1. <<busy, "partial">> \in Leftovers
          BY <4>1
        <5>2. disk[busy]["partial"] # "none"
          BY <5>1 DEF Leftovers
        <5> QED BY <2>1, <3>1, <5>2
      <4>3. Leftovers' = Leftovers
        BY <4>2 DEF Leftovers
      <4> QED BY <4>1, <4>3
    <3> QED BY <1>7, <3>2, <3>3 DEF FetchEnds, LeftoversInv, LeftoversGoFirst, WalksReadWholeTrees
  <2>3. CASE UNCHANGED disk /\ at' = "cleaning"
    BY <1>7, <2>3 DEF FetchEnds, LeftoversInv, HalvesAreAtHand, LeftoversGoFirst,
                      WalksReadWholeTrees
  <2> QED BY <1>7, <2>2, <2>3 DEF FetchEnds
<1>8. CASE CleanStep
  <2>1. busy \in Clones /\ "partial" \in Work
    BY <1>8 DEF TypeOK, CleanStep, Work
  <2> QED BY <1>8, <2>1, RemoveKeepsLeftovers DEF CleanStep
<1>9. CASE CleanEnds
  <2>1. proc = "up" /\ ~stuck' => \A n \in Clones, p \in Work : disk'[n][p] # "half"
    BY <1>9 DEF CleanEnds, LeftoversInv, HalvesAreAtHand
  <2> QED
    BY <1>9, <2>1 DEF CleanEnds, Free, LeftoversInv, HalvesAreAtHand, WalksReadWholeTrees,
                      LeftoversGoFirst
<1>10. CASE Swap
  BY <1>10, TornSwapKeepsLeftovers DEF Swap, Free
<1>11. CASE SwapRaises
  <2>1. CASE UNCHANGED <<disk, torn>>
    <3>1. ASSUME proc = "up", ~stuck, NEW n \in Clones, NEW p \in Work
          PROVE  disk'[n][p] # "half"
      BY <1>a, <1>11, <2>1, <3>1, IdleIsWhole DEF SwapRaises
    <3> QED
      BY <1>11, <2>1, <3>1 DEF SwapRaises, Free, LeftoversInv, HalvesAreAtHand,
                               WalksReadWholeTrees, LeftoversGoFirst
  <2>2. CASE disk' \in {MovedAside, Swapped}
    BY <1>11, <2>2, TornSwapKeepsLeftovers DEF SwapRaises, Free
  <2> QED BY <1>11, <2>1, <2>2 DEF SwapRaises
<1>12. CASE DropStep
  <2>1. busy \in Clones /\ "old" \in Work
    BY <1>12 DEF TypeOK, DropStep, Work
  <2> QED BY <1>12, <2>1, RemoveKeepsLeftovers DEF DropStep
<1>13. CASE DropEnds
  <2>1. proc = "up" /\ ~stuck' => \A n \in Clones, p \in Work : disk'[n][p] # "half"
    BY <1>13 DEF DropEnds, LeftoversInv, HalvesAreAtHand
  <2> QED
    BY <1>13, <2>1 DEF DropEnds, Free, LeftoversInv, HalvesAreAtHand, WalksReadWholeTrees,
                       LeftoversGoFirst
<1>14. CASE Crash
  BY <1>14 DEF Crash, Free, LeftoversInv, HalvesAreAtHand, WalksReadWholeTrees, LeftoversGoFirst
<1>15. CASE Boot
  <2>1. PICK left \in SUBSET Leftovers :
          /\ stuck' = (stuck \/ left # {})
          /\ disk' = [n \in Clones |-> [p \in Places |->
                        IF <<n, p>> \in left THEN "half"
                        ELSE IF p \in Work THEN "none" ELSE disk[n][p]]]
    BY <1>15 DEF Boot
  <2>2. ASSUME ~stuck', NEW n \in Clones, NEW p \in Work PROVE disk'[n][p] # "half"
    BY <1>a, <2>1, <2>2
  <2> QED
    BY <1>15, <2>1, <2>2 DEF Boot, TypeOK, LeftoversInv, HalvesAreAtHand, WalksReadWholeTrees,
                             LeftoversGoFirst
<1>16. CASE SnapshotAround
  <2>1. at = "idle"
    BY <1>16 DEF SnapshotAround, TypeOK
  <2>2. WalksReadWholeTrees'
    BY <1>16, <2>1, IdleIsWhole DEF SnapshotAround, Everything, WalksReadWholeTrees
  <2>3. Leftovers' = Leftovers
    BY <1>16 DEF SnapshotAround, Leftovers
  <2> QED
    BY <1>16, <2>2, <2>3 DEF SnapshotAround, LeftoversInv, HalvesAreAtHand, LeftoversGoFirst
<1>17. CASE UNCHANGED vars
  BY <1>17, SameWork DEF vars
<1> QED
  BY <1>1, <1>2, <1>3, <1>4, <1>5, <1>6, <1>7, <1>8, <1>9, <1>10, <1>11, <1>12,
     <1>13, <1>14, <1>15, <1>16, <1>17 DEF Next

-----------------------------------------------------------------------------
\* The clone whose old tree is being removed has been swapped to the end.
DroppingIsMended == at = "dropping" => busy \notin torn

LEMMA DroppingStep == TypeOK /\ DroppingIsMended /\ [Next]_vars => DroppingIsMended'
<1> SUFFICES ASSUME TypeOK, DroppingIsMended, [Next]_vars PROVE DroppingIsMended'
  OBVIOUS
<1>1. CASE Swap
  BY <1>1 DEF Swap, Free, DroppingIsMended
<1>2. CASE at' # "dropping"
  BY <1>2 DEF DroppingIsMended
<1>3. CASE UNCHANGED <<at, busy, torn>>
  BY <1>3 DEF DroppingIsMended
<1>4. ASSUME NEW h \in Heads, FetchEnds(h) PROVE at' # "dropping"
  BY <1>4 DEF FetchEnds
<1> QED
  BY <1>1, <1>2, <1>3, <1>4
     DEF Next, create_clone, OperatorRemoves, SnapshotOf, SweepStep, SweepEnds, SweepRaises,
         CleanStep, CleanEnds, SwapRaises, DropStep, DropEnds, Crash, Boot, SnapshotAround,
         Remove, Free, vars

\* A tree stays where its row finds it while its clone's places and row do.
LEMMA SamePlaces ==
  ASSUME NEW n \in Clones, OnDisk(n), row'[n] = row[n],
         disk'[n]["final"] = disk[n]["final"], disk'[n]["old"] = disk[n]["old"]
  PROVE  OnDisk(n)'
BY DEF OnDisk

\* So it does where its own directory is its row's, whatever is swept.
LEMMA FinalIsEnough ==
  ASSUME TreesInv, NEW n \in kept \ torn, OnDisk(n), row'[n] = row[n],
         disk'[n]["final"] = disk[n]["final"]
  PROVE  OnDisk(n)'
BY DEF OnDisk, TreesInv, RowDescribesTheTree

\* The first rename moves it aside, onto nothing; the second leaves it there.
LEMMA CutSwapKeepsTrees ==
  ASSUME TypeOK, TreesInv, CloneAssumption, at = "fetched", CanMoveAside,
         disk' \in {MovedAside, Swapped}, row' = row, NEW n \in Clones, OnDisk(n)
  PROVE  OnDisk(n)'
<1>1. /\ busy \in Clones
      /\ disk \in [Clones -> [Places -> Trees]]
      /\ {"partial", "old", "final"} \subseteq Places
  BY DEF TypeOK, Places, Work
<1>2. CASE n # busy
  <2>1. disk'[n]["final"] = disk[n]["final"] /\ disk'[n]["old"] = disk[n]["old"]
    BY <1>1, <1>2, SwapEffect
  <2> QED BY <2>1, SamePlaces
<1>3. CASE n = busy /\ Replaced
  <2>1. row[n] = disk[n]["final"]
    BY <1>3, CloneAssumption DEF OnDisk, CanMoveAside
  <2>2. MovedAside[n]["old"] = disk[n]["final"] /\ MovedAside \in [Clones -> [Places -> Trees]]
    BY <1>1, <1>3 DEF MovedAside, Trees
  <2>3. Swapped[n]["old"] = disk[n]["final"]
    BY <1>1, <1>3, <2>2 DEF Swapped
  <2> QED BY <2>1, <2>2, <2>3 DEF OnDisk
<1>4. CASE n = busy /\ ~Replaced
  <2>1. row[n] = disk[n]["old"]
    BY <1>4, CloneAssumption DEF OnDisk, Replaced
  <2>2. MovedAside = disk
    BY <1>4 DEF MovedAside
  <2>3. Swapped[n]["old"] = disk[n]["old"]
    BY <1>1, <1>4, <2>2 DEF Swapped
  <2> QED BY <2>1, <2>2, <2>3 DEF OnDisk
<1> QED BY <1>2, <1>3, <1>4

\* What loses the tree a row names, action by action.
LEMMA LossIsASweeps ==
  ASSUME TypeOK, TreesInv, DroppingIsMended, Next,
         NEW n \in kept \cap kept', OnDisk(n), ~OnDisk(n)'
  PROVE  n \in torn /\ (at = "sweep" \/ proc = "down")
<1> USE CloneAssumption
<1>a. /\ disk \in [Clones -> [Places -> Trees]]
      /\ {"partial", "old", "final"} \subseteq Places /\ Work \subseteq Places
      /\ n \in Clones
  BY DEF TypeOK, Places, Work
<1>b. ~(row'[n] = row[n] /\ disk'[n]["final"] = disk[n]["final"]
                        /\ disk'[n]["old"] = disk[n]["old"])
  BY <1>a, SamePlaces
<1>c. ~UNCHANGED <<disk, row>>
  BY <1>b
<1>d. row' = row /\ disk'[n]["final"] = disk[n]["final"] => n \in torn
  BY FinalIsEnough
<1>1. ASSUME NEW m \in Clones, create_clone(m) \/ SnapshotOf(m) PROVE FALSE
  BY <1>1, <1>c DEF create_clone, SnapshotOf
<1>2. ASSUME NEW m \in Clones, OperatorRemoves(m) PROVE FALSE
  <2>1. m # n /\ row' = row
    BY <1>2 DEF OperatorRemoves
  <2> QED BY <1>a, <1>b, <1>2, <2>1 DEF OperatorRemoves
<1>3. CASE SweepStep
  <2>1. PICK w \in Leftovers : Remove(w[1], w[2])
    BY <1>3 DEF SweepStep
  <2>2. w[1] \in Clones /\ w[2] \in Work /\ "final" \notin Work
    BY DEF Leftovers, Work
  <2>3. row' = row /\ disk'[n]["final"] = disk[n]["final"]
    BY <1>a, <2>1, <2>2, RemoveEffect DEF Remove
  <2> QED BY <1>3, <1>d, <2>3 DEF SweepStep
<1>4. CASE SweepEnds
  BY <1>4, <1>a, <1>b DEF SweepEnds
<1>5. ASSUME NEW h \in Heads, FetchEnds(h) PROVE FALSE
  BY <1>5, <1>a, <1>b DEF FetchEnds
<1>6. CASE CleanStep
  <2>1. busy \in Clones /\ "partial" \in Work
    BY <1>6 DEF TypeOK, CleanStep, Work
  <2> QED BY <1>6, <1>a, <1>b, <2>1, RemoveEffect DEF CleanStep, Remove
<1>7. CASE Swap
  <2>1. /\ busy \in Clones /\ n # busy
        /\ disk'[n]["final"] = disk[n]["final"] /\ disk'[n]["old"] = disk[n]["old"]
    <3>1. /\ busy \in Clones /\ disk[busy]["partial"] \in Heads
          /\ row' = [row EXCEPT ![busy] = disk[busy]["partial"]]
          /\ disk'[busy]["final"] = disk[busy]["partial"]
      BY <1>7, SwapEffect DEF Swap
    <3>2. row'[busy] = disk[busy]["partial"]
      BY <3>1 DEF TypeOK
    <3>3. n # busy
      BY <3>1, <3>2 DEF OnDisk
    <3> QED BY <1>7, <1>a, <3>1, <3>3, SwapEffect DEF Swap
  <2>2. row'[n] = row[n]
    BY <1>7, <1>a, <2>1 DEF Swap, TypeOK
  <2> QED BY <1>b, <2>1, <2>2
<1>8. CASE SwapRaises
  <2>1. /\ row' = row /\ at = "fetched" /\ disk' \in {MovedAside, Swapped} /\ CanMoveAside
    BY <1>8, <1>c DEF SwapRaises
  <2> QED BY <1>a, <2>1, CutSwapKeepsTrees
<1>9. CASE DropStep
  <2>1. busy \in Clones /\ "old" \in Work /\ "final" \notin Work /\ busy \notin torn
    BY <1>9 DEF TypeOK, DropStep, Work, DroppingIsMended
  <2>2. row' = row /\ disk'[n]["final"] = disk[n]["final"]
    BY <1>9, <1>a, <2>1, RemoveEffect DEF DropStep, Remove
  <2>3. n # busy
    BY <1>d, <2>1, <2>2
  <2> QED BY <1>9, <1>a, <1>b, <2>1, <2>2, <2>3, RemoveEffect DEF DropStep
<1>10. CASE Crash
  <2>1. /\ row' = row /\ at = "fetched" /\ disk' \in {MovedAside, Swapped} /\ CanMoveAside
    BY <1>10, <1>c DEF Crash
  <2> QED BY <1>a, <2>1, CutSwapKeepsTrees
<1>11. CASE Boot
  <2>1. PICK left \in SUBSET Leftovers :
          disk' = [m \in Clones |-> [p \in Places |->
                     IF <<m, p>> \in left THEN "half"
                     ELSE IF p \in Work THEN "none" ELSE disk[m][p]]]
    BY <1>11 DEF Boot
  <2>2. <<n, "final">> \notin left
    BY DEF Leftovers, Work
  <2>3. row' = row /\ disk'[n]["final"] = disk[n]["final"]
    BY <1>11, <1>a, <2>1, <2>2 DEF Work, Boot
  <2> QED BY <1>11, <1>d, <2>3 DEF Boot
<1>12. CASE SweepRaises \/ CleanEnds \/ DropEnds \/ SnapshotAround
  BY <1>12, <1>c DEF SweepRaises, CleanEnds, DropEnds, SnapshotAround
<1> QED
  BY <1>1, <1>2, <1>3, <1>4, <1>5, <1>6, <1>7, <1>8, <1>9, <1>10, <1>11, <1>12 DEF Next

-----------------------------------------------------------------------------
LEMMA InitHolds == Init => TypeOK /\ TreesInv /\ LeftoversInv
<1> SUFFICES ASSUME Init PROVE TypeOK /\ TreesInv /\ LeftoversInv
  OBVIOUS
<1>1. TypeOK
  BY CloneAssumption DEF Init, TypeOK, Trees
<1>2. \A n \in Clones, p \in Places : disk[n][p] = "none"
  BY DEF Init
<1>3. TreesInv
  BY <1>2 DEF Init, TreesInv, FinalIsWhole, FetchedIsWhole, RowDescribesTheTree, Places
<1>4. LeftoversInv
  BY <1>2 DEF Init, LeftoversInv, HalvesAreAtHand, WalksReadWholeTrees, LeftoversGoFirst, Places
<1> QED BY <1>1, <1>3, <1>4

\* The three together are inductive.
LEMMA DoorInvariant == Spec => [](TypeOK /\ TreesInv /\ LeftoversInv)
<1>1. TypeOK /\ TreesInv /\ LeftoversInv /\ [Next]_vars
        => (TypeOK /\ TreesInv /\ LeftoversInv)'
  BY TypeStep, TreesStep, LeftoversStep DEF TreesInv
<1> QED BY InitHolds, <1>1, PTL DEF Spec

\* The places, rows, slot and history of the door keep their types, whatever
\* the clones and the commits.
THEOREM DoorTypeCorrect == Spec => []TypeOK
BY DoorInvariant, PTL

\* A clone's directory holds one whole commit through every failed fetch,
\* rename, removal or write, and every crash.
THEOREM FinalAlwaysWhole == Spec => []FinalIsWhole
<1>1. TreesInv => FinalIsWhole
  BY DEF TreesInv
<1> QED BY <1>1, DoorInvariant, PTL

\* A clone nobody removed and whose last swap was not cut is on disk at the
\* commit its row says.
THEOREM RowsDescribeTrees == Spec => []RowDescribesTheTree
<1>1. TreesInv => RowDescribesTheTree
  BY DEF TreesInv
<1> QED BY <1>1, DoorInvariant, PTL

\* The tree a row names outlives every fetch, failure, swap and crash: where
\* nobody removed the clone, a sweep alone loses it, after a cut swap.
THEOREM SweepsAloneLoseTrees == Spec => OnlyASweepLosesATree
<1>1. Init => DroppingIsMended
  BY DEF Init, DroppingIsMended
<1>2. Spec => []DroppingIsMended
  BY <1>1, DroppingStep, DoorInvariant, PTL DEF Spec
<1>3. TypeOK /\ TreesInv /\ DroppingIsMended /\ Next =>
        \A n \in kept \cap kept' : OnDisk(n) /\ ~OnDisk(n)' =>
           n \in torn /\ (at = "sweep" \/ proc = "down")
  BY LossIsASweeps
<1> QED BY <1>2, <1>3, DoorInvariant, PTL DEF Spec, OnlyASweepLosesATree

\* While every removal could finish, no snapshot, at a clone or around all
\* of them, reads half a tree.
THEOREM WalksAlwaysWhole == Spec => []WalksReadWholeTrees
<1>1. LeftoversInv => WalksReadWholeTrees
  BY DEF LeftoversInv
<1> QED BY <1>1, DoorInvariant, PTL

\* While every removal could finish, a crash's leftovers are gone before the
\* next clone's git starts.
THEOREM LeftoversAlwaysGoFirst == Spec => []LeftoversGoFirst
<1>1. LeftoversInv => LeftoversGoFirst
  BY DEF LeftoversInv
<1> QED BY <1>1, DoorInvariant, PTL
=============================================================================
