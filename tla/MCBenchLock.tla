---------------------------- MODULE MCBenchLock ----------------------------
(***************************************************************************)
(* Two servers, a reconcile that applies and a dry run, on one database    *)
(* with two names.                                                         *)
(***************************************************************************)
EXTENDS BenchLock, TLC

CONSTANTS s1, s2, apply, dry, name, link, db

MCProcs == {s1, s2, apply, dry}
MCKind  == [p \in MCProcs |-> CASE p = apply -> "reconcile" [] p = dry -> "dry"
                                [] OTHER -> "server"]
MCPaths == {name, link}
MCFiles == {db}
MCSymmetry == Permutations({s1, s2}) \cup Permutations({name, link})
MCResolves == [n \in MCPaths |-> db]
=============================================================================
