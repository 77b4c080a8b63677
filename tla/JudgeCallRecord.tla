-------------------------- MODULE JudgeCallRecord --------------------------
(***************************************************************************)
(* One row of judge_calls (bench/store.py): the facts of how a judge       *)
(* request ended, where the counts place it, and the seal that every       *)
(* update of the row passes.  Pure operators, used by ScoringPass and      *)
(* compared with each other over every row in JudgeCallSeal.             *)
(***************************************************************************)
EXTENDS Naturals, FiniteSets

\* CALL_OUTCOMES, and what a flag column holds.
Outcomes == {"answered", "timed_out", "stopped", "failed", "not_sent",
             "interrupted"}
Flags == {"null", "no", "yes"}

\* outcome = "null" is a call still in flight.  replied is answered_at being
\* set: the reply's head arrived.
CallRecords == [outcome : Outcomes \cup {"null"},
                sent    : Flags,
                replied : BOOLEAN,
                usable  : Flags]

OpenCall == [outcome |-> "null", sent |-> "null", replied |-> FALSE,
             usable |-> "null"]

\* An ending call_facts refuses with a ValueError.
Contradicts(outcome, replied) ==
  \/ outcome = "answered" /\ ~replied
  \/ outcome \in {"timed_out", "not_sent"} /\ replied
  \/ outcome \notin Outcomes \ {"interrupted"}

\* sent and usable follow from the outcome and from the reply.
call_facts(outcome, replied) ==
  [sent   |-> IF outcome = "not_sent" THEN "no" ELSE "yes",
   usable |-> IF outcome = "answered" THEN "yes"
              ELSE IF replied THEN "no" ELSE "null"]

\* record_judge_call_answer's one write.
Ended(outcome, replied) ==
  LET facts == call_facts(outcome, replied)
  IN  [outcome |-> outcome, sent |-> facts.sent, replied |-> replied,
       usable |-> facts.usable]

\* The same ending, when its write failed and the pass's close writes what
\* the pass knew; and a call of which nothing is known.
Unwritten(outcome, replied) ==
  [Ended(outcome, replied) EXCEPT !.outcome = "interrupted"]
FoundOpen == [OpenCall EXCEPT !.outcome = "interrupted"]

\* CALL_ENDING_SQL and call_ending: by the facts, and by the outcome word
\* only for a row that has none (one ended before schema 12).
call_ending(call) ==
  CASE call.outcome = "null" -> "in_flight"
    [] call.outcome # "null" /\ call.sent = "null" ->
         CASE call.outcome = "interrupted" -> "unknown"
           [] call.outcome = "not_sent" -> "never_sent"
           [] OTHER -> IF ~call.replied THEN "unanswered"
                       ELSE IF call.outcome = "answered" THEN "answered"
                                                         ELSE "unusable"
    [] call.outcome # "null" /\ call.sent = "no" -> "never_sent"
    [] call.outcome # "null" /\ call.sent = "yes" ->
         IF ~call.replied THEN "unanswered"
         ELSE IF call.usable = "yes" THEN "answered" ELSE "unusable"

history_counted(call) ==
  call.sent = "null" /\ call_ending(call) \in {"unanswered", "unusable"}

\* Variant of the seal, which lets a reply stand without saying whether it
\* could be used.
AdmitsUnread(old, new) ==
  /\ old.outcome = "null"
  /\ new.outcome # "null"
  /\ new.outcome # "interrupted" => new.sent # "null"
  /\ new.outcome = "not_sent" => new.sent = "no"
  /\ new.outcome \in {"answered", "timed_out", "stopped", "failed"}
       => new.sent = "yes"
  /\ new.replied => new.sent = "yes"
  /\ new.outcome \in {"timed_out", "not_sent"} => ~new.replied
  /\ new.outcome = "answered" => new.usable = "yes"

\* judge_calls_sealed_v3: the one update of a row that the database admits.
Admits(old, new) ==
  /\ old.outcome = "null"
  /\ new.outcome # "null"
  /\ old.sent # "null" => new.sent = old.sent
  /\ old.usable # "null" => new.usable = old.usable
  /\ old.replied => new.replied
  /\ new.outcome # "interrupted" => new.sent # "null"
  /\ new.outcome = "not_sent" => new.sent = "no"
  /\ new.outcome \in {"answered", "timed_out", "stopped", "failed"}
       => new.sent = "yes"
  /\ new.replied => new.sent = "yes"
  /\ new.replied <=> new.usable # "null"
  /\ new.outcome \in {"timed_out", "not_sent"} => ~new.replied
  /\ new.outcome = "answered" => new.usable = "yes"
  /\ new.outcome \in {"failed", "stopped"} => new.usable # "yes"
=============================================================================
