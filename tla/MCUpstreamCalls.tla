-------------------------- MODULE MCUpstreamCalls --------------------------
(***************************************************************************)
(* Small instances of UpstreamCalls: a two-member batch one of whose       *)
(* members the catalog cannot price, a stream, and each runner with calls  *)
(* of its own, against a ceiling that admits two or three of them at once. *)
(***************************************************************************)
EXTENDS UpstreamCalls

CONSTANTS b1, b2, s1, t1, j1

MCCalls == {b1, b2, s1, t1, j1}
MCKind == [c \in MCCalls |-> CASE c \in {b1, b2} -> "batch"
                               [] c = s1 -> "stream"
                               [] c = t1 -> "trial"
                               [] c = j1 -> "judge"]
MCWorst == [c \in MCCalls |-> CASE c = b1 -> 2
                                [] c = b2 -> 0
                                [] c = s1 -> 1
                                [] c = t1 -> 2
                                [] c = j1 -> 1]
MCRequests == {{b1, b2}, {s1}}

MCFewCalls == {b2, s1, t1, j1}
MCFewKind == [c \in MCFewCalls |-> MCKind[c]]
MCFewWorst == [c \in MCFewCalls |-> MCWorst[c]]
MCFewRequests == {{b2}, {s1}}
=============================================================================
