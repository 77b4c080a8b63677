------------------------- MODULE MCComparisonGroup -------------------------
(***************************************************************************)
(* One file, read as a document by two parser versions and as an image,    *)
(* and one tree; a group from before prompts and lineups, one from before  *)
(* pins, one new.                                                          *)
(***************************************************************************)
EXTENDS ComparisonGroup, TLC
CONSTANTS f, t

MCOldReadings == {Reading(f, "parser", 1), Reading(t, "snapshot", 0)}
Legacy == [Silent EXCEPT !.prompt = "p", !.digests = <<f>>, !.mode = "inline"]
MCOldGroups == <<Silent, Legacy>>

Pins(d) == LET p(e, v, c) == Pin(Reading(d, e, v), c)
  IN IF d = f THEN {p("parser", 1, None), p("parser", 2, None), p("none", 0, None),
                    [p("parser", 1, None) EXCEPT !.kind = "image"]}
     ELSE {p("snapshot", 0, None), p("snapshot", 0, 2)}
Said(d) == {None} \cup {<<pin>> : pin \in Pins(d)}
Attached == {[digests |-> <<d>>, pins |-> s, mode |-> m] :
               d \in {f, t}, s \in UNION {Said(e) : e \in {f, t}}, m \in {"inline", "native"}}
AttachedHere == {a \in Attached : a.pins \in Said(a.digests[1])}
Nothing == [digests |-> <<>>, pins |-> None, mode |-> "inline"]

MCDeclarations ==
  {[prompt |-> "p", models |-> <<"a", "b">>, budget |-> "standard",
    params |-> None, digests |-> a.digests, mode |-> a.mode, pins |-> a.pins] :
     a \in AttachedHere \cup {Nothing}}

Request(g, a) ==
  [door |-> "stream", group |-> g, prompt |-> "p", models |-> <<"a">>,
   position |-> None, budget |-> "standard", params |-> None,
   digests |-> a.digests, mode |-> a.mode, pins |-> a.pins]
MCRequests ==
  {Request(g, a) : g \in {None, 2, 3}, a \in AttachedHere \cup {Nothing}}
    \cup {[Request(g, Nothing) EXCEPT !.prompt = "q"] : g \in {1, 3}}
    \cup {[Request(g, Nothing) EXCEPT !.budget = "extended", !.params = "hot"] : g \in {1, 3}}
    \cup {[Request(3, Nothing) EXCEPT !.models = <<m>>, !.position = 2] : m \in {"a", "b", "c"}}
    \cup {[Request(3, a) EXCEPT !.door = "compare", !.models = ms] :
            a \in {Nothing, [Nothing EXCEPT !.digests = <<f>>]},
            ms \in {<<"a", "b">>, <<"b", "a">>}}
    \cup {Request(g, Nothing) : g \in {1, MaxGroups + 1}}
=============================================================================
