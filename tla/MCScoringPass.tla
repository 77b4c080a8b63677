--------------------------- MODULE MCScoringPass ---------------------------
(***************************************************************************)
(* Two passes over three trials, one of each sort: the first with a judge, *)
(* the second with none.                                                   *)
(***************************************************************************)
EXTENDS ScoringPass

MCTrials == <<"judge", "plain", "mute">>
MCTwoTrials == <<"judge", "judge">>
MCPasses == {1, 2}
MCOnePass == {1}
MCJudged == {1}
=============================================================================
