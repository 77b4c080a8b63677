---------------------------- MODULE BlindSession ----------------------------
(***************************************************************************)
(* Blind human rating of a comparison's results.  Opening a session hands  *)
(* out the answers without identities, under a token the server keeps with *)
(* the results it showed (BLIND_SESSIONS, in memory); a reveal hands out   *)
(* the identities and closes every session of the comparison.  A rating    *)
(* names a result and may carry a token; whether it is recorded blind is   *)
(* the server's answer.  Clients are anybody: any tab, late, again, with   *)
(* any token it was ever given, while members join the comparison and the  *)
(* process restarts.                                                       *)
(***************************************************************************)
EXTENDS Naturals, Sequences, FiniteSets, Functions

CONSTANTS
  Groups,
  NoToken,     \* no token; no session
  Revealed,    \* the mark a reveal leaves (None, in the code)
  MaxResults, MaxTokens, MaxScores, MaxBoots

ASSUME BlindAssumption ==
  /\ NoToken # Revealed /\ NoToken \notin Nat
  /\ MaxResults \in Nat /\ MaxTokens \in Nat
  /\ MaxScores \in Nat /\ MaxBoots \in Nat

VARIABLES
  results,   \* the results recorded, in id order: the group of each
  scores,    \* the human rows of scores
  sessions,  \* BLIND_SESSIONS: NoToken, Revealed, or token -> results shown
  views,     \* every view handed out, ever, in token order
  keyed,     \* when a reveal handed out the identities: <<group, boot>>
  boot

blindVars == <<results, scores, sessions, views, keyed, boot>>

Of(g) == {r \in DOMAIN results : results[r] = g}
-----------------------------------------------------------------------------
\* The results a token speaks for.  The variant, first: it speaks for every
\* result of the comparison.
blind_session_for_all(g, token) ==
  IF sessions[g] \in {NoToken, Revealed} \/ token \notin DOMAIN sessions[g]
  THEN NoToken ELSE Of(g)
blind_session_for(g, token) ==
  IF sessions[g] \in {NoToken, Revealed} \/ token \notin DOMAIN sessions[g]
  THEN NoToken ELSE sessions[g][token]

BlindInit ==
  /\ results = <<>> /\ scores = {} /\ views = <<>> /\ keyed = {} /\ boot = 1
  /\ sessions = [g \in Groups |-> NoToken]

\* A member of the comparison is recorded.
save_run(g) ==
  /\ Len(results) < MaxResults
  /\ results' = Append(results, g)
  /\ UNCHANGED <<scores, sessions, views, keyed, boot>>

open_blind_session(g) ==
  /\ Of(g) # {}
  /\ sessions[g] # Revealed
  /\ Len(views) < MaxTokens
  /\ LET token == Len(views) + 1
         open == IF sessions[g] = NoToken THEN <<>> ELSE sessions[g]
     IN /\ sessions' = [sessions EXCEPT ![g] =
              [k \in DOMAIN open \cup {token} |->
                 IF k = token THEN Of(g) ELSE open[k]]]
        /\ views' = Append(views, [group |-> g, shown |-> Of(g), boot |-> boot])
  /\ UNCHANGED <<results, scores, keyed, boot>>

\* A reveal needs no token and closes all.
close_blind_session(g) ==
  /\ sessions' = [sessions EXCEPT ![g] = Revealed]
  /\ keyed' = keyed \cup {<<g, boot>>}
  /\ UNCHANGED <<results, scores, views, boot>>

\* Ratings of some results of g, under token or NoToken.  Each is written in a
\* transaction of its own, so that a failure leaves the first ones written.
submit_ratings(g, token, rated, written) ==
  LET shown == blind_session_for(g, token)
  IN /\ rated \subseteq Of(g)
     /\ shown # NoToken => rated \subseteq shown
     /\ Cardinality(scores) + Cardinality(written) <= MaxScores
     /\ scores' = scores \cup
          {[result |-> r, token |-> token, blind |-> shown # NoToken, boot |-> boot,
            keyed |-> {b \in 1..boot : <<g, b>> \in keyed}] : r \in written}
     /\ UNCHANGED <<results, sessions, views, keyed, boot>>

\* A stop or a crash, and the next boot (_serve: BLIND_SESSIONS.clear()).
BlindRestart ==
  /\ boot < MaxBoots
  /\ boot' = boot + 1
  /\ sessions' = [g \in Groups |-> NoToken]
  /\ UNCHANGED <<results, scores, views, keyed>>

BlindNext ==
  \/ \E g \in Groups : save_run(g) \/ open_blind_session(g) \/ close_blind_session(g)
  \/ \E g \in Groups, token \in {NoToken} \cup DOMAIN views :
       \E rated \in SUBSET DOMAIN results :
         \E written \in SUBSET rated \ {{}} : submit_ratings(g, token, rated, written)
  \/ BlindRestart

BlindSpec == BlindInit /\ [][BlindNext]_blindVars
-----------------------------------------------------------------------------
\* What sessions may hold of a comparison: nothing, the mark, or its tokens.
Session ==
  {NoToken, Revealed} \cup
  UNION {[tokens -> SUBSET (1..MaxResults)] : tokens \in SUBSET (1..MaxTokens)}

BlindTypeOK ==
  /\ results \in Seq(Groups) /\ Len(results) <= MaxResults
  /\ views \in Seq([group : Groups, shown : SUBSET (1..MaxResults), boot : Nat])
  /\ Len(views) <= MaxTokens
  /\ boot \in Nat \ {0}
  /\ keyed \subseteq Groups \X (1..boot)
  /\ sessions \in [Groups -> Session]
  /\ scores \subseteq [result : 1..MaxResults, token : {NoToken} \cup (1..MaxTokens),
                       blind : BOOLEAN, boot : 1..boot, keyed : SUBSET (1..boot)]

\* "It says these ratings came from a view the server built without
\* identities, on a session it issued and had not yet closed"
\* (open_blind_session): whoever posts what, when, a rating recorded blind
\* came under a token this process issued for that comparison, whose view
\* held the result, and no reveal since the boot came before it.
BlindIsAttested ==
  \A s \in scores : s.blind =>
    /\ s.token # NoToken
    /\ s.result \in views[s.token].shown
    /\ results[s.result] = views[s.token].group
    /\ views[s.token].boot = s.boot
    /\ s.boot \notin s.keyed

\* "Once somebody has seen the answer key for this comparison, no later
\* rating of it can honestly claim not to have" (open_blind_session).
BlindBeforeTheKey ==
  \A s \in scores : s.blind => s.keyed = {}
=============================================================================
