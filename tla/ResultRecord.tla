---------------------------- MODULE ResultRecord ----------------------------
(***************************************************************************)
(* One result of one model, and what bench/models.py, main.py and store.py *)
(* make of it: how the wire's fields are taken, the pair of counts a share *)
(* is judged on, the error of an answer nobody can see, what it costs, what *)
(* the audit may change, and how the report's totals file it.              *)
(*                                                                         *)
(* A number is a natural number, None when absent, or one of the values    *)
(* the readers refuse: Text (not a number), Negative and Infinite.  A label *)
(* is a string, "" when absent.  A flag is "yes", "no", "null", or "one": JSON's *)
(* 1, which is not a boolean there.  prompt_tokens and cached_tokens are    *)
(* taken as completion_tokens is and are left out.                         *)
(***************************************************************************)
EXTENDS Integers

CONSTANT Price  \* the catalog's price of the model, or None

None     == -1
Text     == -2
Negative == -3
Infinite == -4

\* What a frame without a usage object carries.
NoUsage == [completion |-> None, reasoning |-> None, cost |-> None,
            upstream |-> None, byok |-> "absent"]

Flags == {"null", "no", "yes"}

-----------------------------------------------------------------------------
(***************************************************************************)
(* Taking a field from outside.                                            *)
(***************************************************************************)
as_token_count(v) == IF v \in Nat THEN v ELSE None

as_money(v) == IF v \in Nat THEN v ELSE None

as_flag(v) == IF v = "one" THEN "yes" ELSE v

as_wire_flag(v) == IF v = "one" THEN "null" ELSE v

\* The fields run_model and stream_model start a result with.
NewResult ==
  [text |-> "none", error |-> "none", id |-> "", provider |-> "",
   finish |-> "", native |-> "", request |-> FALSE, completion |-> None,
   reasoning |-> None, basis |-> None, cost |-> None, upstream |-> None,
   byok |-> "null"]

\* Variant: the completion count beside a reasoning count is not captured.
ingest_usage_unpaired(r, u) ==
  [r EXCEPT !.completion = as_token_count(u.completion),
            !.cost = as_money(u.cost),
            !.upstream = as_money(u.upstream),
            !.byok = as_wire_flag(u.byok),
            !.reasoning = as_token_count(u.reasoning)]

\* _ingest_usage: the last usage object wins entirely, but for the pair,
\* which only an object that reports a reasoning count replaces.
ingest_usage(r, u) ==
  IF u = NoUsage THEN r
  ELSE LET taken ==
             [r EXCEPT !.completion = as_token_count(u.completion),
                       !.cost = as_money(u.cost),
                       !.upstream = as_money(u.upstream),
                       !.byok = as_wire_flag(u.byok)]
       IN  IF as_token_count(u.reasoning) = None THEN taken
           ELSE [taken EXCEPT !.reasoning = as_token_count(u.reasoning),
                              !.basis = as_token_count(u.completion)]

\* Variant: the last id on the wire wins.
settle_generation_id_last(r, id) == IF id = "" THEN r ELSE [r EXCEPT !.id = id]

settle_generation_id(r, id) ==
  IF id = "" \/ r.id # "" THEN r ELSE [r EXCEPT !.id = id]

-----------------------------------------------------------------------------
(***************************************************************************)
(* A 200 that carried nothing to read.                                     *)
(***************************************************************************)
exhaustion_pair(r) ==
  [completion |-> IF r.basis # None THEN r.basis ELSE r.completion,
   reasoning  |-> r.reasoning]

\* REASONING_SHARE_EXHAUSTED: nine tenths.
reasoning_ate_the_output(p) ==
  /\ p.completion > 0 /\ p.reasoning > 0
  /\ p.reasoning * 10 >= p.completion * 9

empty_response_error(r) ==
  IF ~reasoning_ate_the_output(exhaustion_pair(r)) THEN "empty"
  ELSE IF r.finish = "length" THEN "exhausted" ELSE "reasoned"

\* The error a result ends with: its own, or, when it has none and nothing
\* in it can be seen, the one for that.
Concluded(r, error) ==
  [r EXCEPT !.error = IF error = "none" /\ r.text = "none"
                      THEN empty_response_error(r) ELSE error]

-----------------------------------------------------------------------------
(***************************************************************************)
(* What it costs.                                                          *)
(***************************************************************************)
cost_usd(r) ==
  IF Price = None \/ r.completion = None THEN None ELSE r.completion * Price

\* Variant: billed and estimate both.
ceiling_cost_both(r) ==
  (IF as_money(r.cost) = None THEN 0 ELSE r.cost)
    + (IF cost_usd(r) = None THEN 0 ELSE cost_usd(r))

\* ceiling_cost, then record_spend: what a result adds to recorded spend.
ceiling_cost(r) ==
  IF as_money(r.cost) # None THEN r.cost
  ELSE IF cost_usd(r) # None THEN cost_usd(r) ELSE 0

-----------------------------------------------------------------------------
(***************************************************************************)
(* The stored row, its readers, and the audit (bench/reconcile.py).        *)
(***************************************************************************)

\* save_run's row: the estimate beside the result; the audit's own column
\* is empty.
Row(r) ==
  [text |-> r.text, error |-> r.error, id |-> r.id, provider |-> r.provider,
   finish |-> r.finish, native |-> r.native, request |-> r.request,
   completion |-> r.completion, reasoning |-> r.reasoning, basis |-> r.basis,
   cost |-> r.cost, upstream |-> r.upstream, byok |-> as_flag(r.byok),
   estimate |-> cost_usd(r), quant |-> ""]

\* _repaired: what a reader is handed for a stored row.
Repaired(row) ==
  [row EXCEPT !.completion = as_token_count(@), !.reasoning = as_token_count(@),
              !.basis = as_token_count(@), !.cost = as_money(@),
              !.byok = as_flag(@)]

\* Variant: absent is the only unpriced the list knows.
awaiting_null(row) ==
  /\ row.id # ""
  /\ row.cost = None \/ row.provider = "" \/ row.byok = "null" \/ row.native = ""

\* results_awaiting_reconciliation's WHERE.
awaiting(row) ==
  /\ row.id # ""
  /\ \/ row.cost \in {None, Text, Negative}
     \/ row.provider = "" \/ row.byok = "null" \/ row.native = ""

\* fetch_generation's record, of the endpoint's document or of its refusal.
Fetched(d) ==
  [cost |-> as_money(d.cost), upstream |-> as_money(d.upstream),
   byok |-> as_wire_flag(d.byok), provider |-> d.provider, quant |-> d.quant,
   native |-> d.native, error |-> d.error]

\* reconcile's _has_writes over RECONCILABLE_COLUMNS.
has_writes(rec) ==
  /\ ~rec.error
  /\ \/ rec.cost # None \/ rec.upstream # None \/ rec.byok # "null"
     \/ rec.provider # "" \/ rec.quant # "" \/ rec.native # ""

\* The UPDATE's COALESCE on labels: the endpoint is the authority.
Corrected(new, old) == IF new # "" THEN new ELSE old

\* Variant: the charge is assigned outright.
apply_charge_outright(row, rec) ==
  [row EXCEPT !.cost = rec.cost,
              !.provider = Corrected(rec.provider, @),
              !.quant = Corrected(rec.quant, @),
              !.native = Corrected(rec.native, @),
              !.upstream = IF @ # None THEN @ ELSE rec.upstream,
              !.byok = IF @ # "null" THEN @ ELSE rec.byok]

\* apply_reconciliation: a reported charge wins and an unreported one clears
\* only what no reader trusts; the flag and the upstream figure are filled
\* and never corrected.
apply_reconciliation(row, rec) ==
  [row EXCEPT !.cost = IF rec.cost # None THEN rec.cost
                       ELSE IF @ \in {None, Text, Negative} THEN None ELSE @,
              !.provider = Corrected(rec.provider, @),
              !.quant = Corrected(rec.quant, @),
              !.native = Corrected(rec.native, @),
              !.upstream = IF @ # None THEN @ ELSE rec.upstream,
              !.byok = IF @ # "null" THEN @ ELSE rec.byok]

\* _cost_totals: the price a row is filed under, and the bucket its upstream
\* figure goes in.
price_bucket(row) ==
  IF row.cost # None THEN "billed"
  ELSE IF row.estimate # None THEN "estimated" ELSE "unpriced"

upstream_bucket(row) ==
  IF row.upstream = None THEN "none"
  ELSE IF row.byok = "yes" THEN "byok"
  ELSE IF row.byok = "null" THEN "unknown"
  ELSE IF price_bucket(row) = "unpriced" THEN "not_byok_unpriced"
  ELSE "not_byok"
=============================================================================
