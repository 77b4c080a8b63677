------------------------ MODULE MCExperimentRunner ------------------------
(***************************************************************************)
(* Two experiments: one of two trials with pinned routes and the default   *)
(* halt on refusal, and one of one trial, unpinned and running through its *)
(* refusals.                                                               *)
(***************************************************************************)
EXTENDS ExperimentRunner

MCExperiments == {1, 2}
MCPlan == [e \in MCExperiments |-> IF e = 1 THEN 2 ELSE 1]
MCPinned == {1}
MCHaltOnRefusal == {1}
=============================================================================
