--------------------------- MODULE MCStreamedRun ---------------------------
(***************************************************************************)
(* One call over a wire of nine frames, at most three of them on a stream, *)
(* with two usage blocks that disagree, and one row of older code.         *)
(***************************************************************************)
EXTENDS StreamedRun

Blank == [kind |-> "chunk", id |-> "", provider |-> "", usage |-> NoUsage,
          err |-> FALSE, choice |-> FALSE, finish |-> "", native |-> "", text |-> "none"]

Usage(completion, reasoning, cost, upstream, byok) ==
  [completion |-> completion, reasoning |-> reasoning, cost |-> cost,
   upstream |-> upstream, byok |-> byok]

MCFrames == {
  [Blank EXCEPT !.kind = "done"],
  [Blank EXCEPT !.kind = "junk"],
  [Blank EXCEPT !.id = "g1", !.provider = "p1", !.choice = TRUE, !.text = "visible"],
  [Blank EXCEPT !.provider = "p2", !.choice = TRUE, !.text = "blank"],
  [Blank EXCEPT !.id = "g2", !.choice = TRUE, !.finish = "length", !.native = "max"],
  [Blank EXCEPT !.choice = TRUE, !.finish = "stop", !.usage = Usage(10, 9, 3, None, "no"),
                !.text = "visible"],
  [Blank EXCEPT !.provider = "p1", !.usage = Usage(10, 9, 3, None, "one")],
  [Blank EXCEPT !.choice = TRUE, !.usage = Usage(20, None, Negative, 2, "yes")],
  [Blank EXCEPT !.id = "g2", !.err = TRUE, !.choice = TRUE, !.finish = "error"]}

\* A block that reports thinking and not the completion it is part of.
MCFramesUnpaired ==
  {[Blank EXCEPT !.kind = "done"],
   [Blank EXCEPT !.usage = Usage(None, 9, 3, None, "no")],
   [Blank EXCEPT !.usage = Usage(10, None, 3, None, "no")]}

MCDocuments ==
  {[cost |-> c, upstream |-> 1, byok |-> b, provider |-> "p3", quant |-> "", native |-> n,
    error |-> FALSE] : c \in {None, 0, 5}, b \in {"null", "no"}, n \in {"", "end"}}
    \cup {[cost |-> None, upstream |-> None, byok |-> "null", provider |-> "",
           quant |-> "", native |-> "", error |-> TRUE]}

Legacy(cost) == [Row(NewResult) EXCEPT !.id = "g0", !.cost = cost, !.upstream = 2,
                                       !.byok = "yes", !.request = TRUE]

MCLegacy == {Legacy(Negative), Legacy(4),
             [Legacy(Text) EXCEPT !.provider = "p0", !.native = "end"]}
MCNoLegacy == {}

\* Older code's charge that is infinite: not a number to a reader, and to
\* the database a number that is not below zero.
MCLegacyInfinite ==
  {[Legacy(Infinite) EXCEPT !.provider = "p0", !.native = "end"]}

MCHeaderIds == {"", "g1"}
MCLabels == {"", "g0", "g1", "g2", "p0", "p1", "p2", "p3", "length", "stop", "error",
             "max", "end"}
=============================================================================
