--------------------------- MODULE JudgeCallSeal ---------------------------
(***************************************************************************)
(* One judge_calls row under judge_calls_sealed_v3 (SCHEMA, bench/store.py)*)
(* and every update anyone may try on it: the bench's three writers, an    *)
(* older build, a second connection, the sqlite3 prompt.                   *)
(***************************************************************************)
EXTENDS JudgeCallRecord

VARIABLES row,    \* the row as the database holds it
          tried   \* the last update tried

sealVars == <<row, tried>>

\* The endings the bench's writers write, and those of a row ended before
\* schema 12, which has the outcome word and the reply's time only.
Known == {k \in Outcomes \X BOOLEAN : ~Contradicts(k[1], k[2])}
WrittenEndings ==
  {Ended(k[1], k[2]) : k \in Known} \cup {Unwritten(k[1], k[2]) : k \in Known}
    \cup {FoundOpen}
Legacy ==
  {[OpenCall EXCEPT !.outcome = k[1], !.replied = k[2]] :
     k \in Known \cup {<<"interrupted", FALSE>>}}

SealInit ==
  /\ row \in {OpenCall} \cup Legacy
  /\ tried = row

Update(new) ==
  /\ tried' = new
  /\ row' = IF Admits(row, new) THEN new ELSE row

SealNext == \E new \in CallRecords : Update(new)

SealSpec == SealInit /\ [][SealNext]_sealVars

\* The seal never stands in the way of the bench: every ending one of its
\* writers can write on an open call is admitted.
WritersAreAdmitted ==
  row.outcome = "null" => \A ending \in WrittenEndings : Admits(row, ending)

\* call_facts: "judge_calls_sealed_v3 holds the same rule for every writer":
\* whatever ending anyone gets past it, other than interrupted, carries the
\* facts call_facts would have given, and an interrupted one carries those of
\* an ending or nothing.
SealHoldsCallFacts ==
  [][row' # row => row' \in WrittenEndings]_sealVars

\* "The arms reach no call ended since": no update moves a row on to the
\* history arms of the counts, or moves a call the counts have placed.
CountsAreByTheFacts ==
  [][row' # row => /\ call_ending(row) = "in_flight"
                   /\ call_ending(row') # "in_flight"
                   /\ ~history_counted(row')]_sealVars
=============================================================================
